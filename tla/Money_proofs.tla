------------------------------ MODULE Money_proofs ------------------------------
(***************************************************************************)
(* Proofs about the components that move money outside trading, for any    *)
(* number of requests, users and orders.  MCMoney has their instances: D   *)
(* for Deposit, W for Withdrawal, C for EventCancel, S for Settlement, T   *)
(* for Transfers.  A theorem is about the specification of one component   *)
(* and, when a run checks its property, about that of MCMoney, whose       *)
(* behaviours are those of one component each.                             *)
(***************************************************************************)
EXTENDS MCMoney, Sums, Sequences, SequenceTheorems

\* A behaviour of the run is one of one component.
LEMMA OneOfThem ==
    /\ Init => /\ part = "deposit" => D!Init
               /\ part = "transfers" => T!Init
               /\ part = "withdrawal" => W!Init
               /\ part = "settlement" => S!Init
               /\ part = "cancel" => C!Init
    /\ [Next]_vars => /\ part' = part
                      /\ part = "deposit" => [D!Next]_(D!vars)
                      /\ part = "transfers" => [T!Next]_(T!vars)
                      /\ part = "withdrawal" => [W!Next]_(W!vars)
                      /\ part = "settlement" => [S!Next]_(S!vars)
                      /\ part = "cancel" => [C!Next]_(C!vars)
<1>1. Init => /\ part = "deposit" => D!Init
              /\ part = "transfers" => T!Init
              /\ part = "withdrawal" => W!Init
              /\ part = "settlement" => S!Init
              /\ part = "cancel" => C!Init
  BY DEF Init
<1>2. ASSUME [Next]_vars
      PROVE  /\ part' = part
             /\ part = "deposit" => [D!Next]_(D!vars)
             /\ part = "transfers" => [T!Next]_(T!vars)
             /\ part = "withdrawal" => [W!Next]_(W!vars)
             /\ part = "settlement" => [S!Next]_(S!vars)
             /\ part = "cancel" => [C!Next]_(C!vars)
  <2>1. CASE Next
    BY <2>1 DEF Next
  <2>2. CASE UNCHANGED vars
    <3>1. UNCHANGED D!vars
      BY <2>2 DEF vars, ofDeposit, ofDepositAndWithdrawal, ofDepositAndTransfersAndWithdrawal,
           ofDepositAndTransfersAndWithdrawalAndSettlement, ofDepositAndSettlement,
           D!vars, D!row, D!history
    <3>2. UNCHANGED W!vars
      BY <2>2 DEF vars, ofDepositAndWithdrawal, ofDepositAndTransfersAndWithdrawal,
           ofDepositAndTransfersAndWithdrawalAndSettlement, ofTransfersAndWithdrawal,
           ofWithdrawal, W!vars, W!fixed, W!keys, W!books, W!history
    <3>3. UNCHANGED C!vars
      BY <2>2 DEF vars, ofTransfersAndCancel, ofSettlementAndCancel, ofCancel, C!vars
    <3>4. UNCHANGED S!vars
      BY <2>2 DEF vars, ofDepositAndTransfersAndWithdrawalAndSettlement, ofDepositAndSettlement,
           ofTransfersAndSettlement, ofSettlementAndCancel, ofSettlement, S!vars, S!tables,
           S!tally, S!ledger, S!history
    <3>5. UNCHANGED T!vars
      BY <2>2 DEF vars, ofDepositAndTransfersAndWithdrawal,
           ofDepositAndTransfersAndWithdrawalAndSettlement, ofTransfersAndWithdrawal,
           ofTransfers, ofTransfersAndCancel, ofTransfersAndSettlement,
           T!vars, T!fixed, T!outside, T!history
    <3> QED BY <2>2, <3>1, <3>2, <3>3, <3>4, <3>5 DEF vars
  <2> QED BY <1>2, <2>1, <2>2
<1> QED BY <1>1, <1>2

-------------------------------------------------------------------------------
(* DEPOSIT.  The conditional update decides who credits: the row names the   *)
(* one request whose update wrote it, and a request past its update is that  *)
(* one.  The second look of the cashfree handlers does not check this, so    *)
(* that there the lock has to: while it has not expired under a request, a   *)
(* request past its test is alone and the row is still unwritten.            *)

StepOf(h) == plan[h].steps[at[h]]

-------------------------------------------------------------------------------
(* The handlers, step by step *)

\* Every gateway has its handlers.
LEMMA GatewaysHandled == AllGateways \subseteq DOMAIN D!HandlersOf
BY DEF AllGateways, D!HandlersOf

\* What the proofs use of handler p of gateway g at its step i: the credit comes
\* last, right after the update or the second look; conditional gateways do not
\* overwrite; cashfree alone looks twice, locks before its test and unlocks once.
WellFormed(g, p, i) ==
    LET s == p.steps[i]
        n == p.steps[i + 1]
    IN  /\ s = "credit" <=> i = Len(p.steps)
        /\ i = 1 => s \notin {"reread", "credit"}
        /\ s = "reread" => n = "credit" /\ g = "cashfree"
        /\ s \in {"record", "overwrite"} => n \in {"reread", "credit"}
        /\ s \notin {"record", "overwrite", "reread", "credit"} =>
               n \notin {"reread", "credit"}
        /\ g \notin {"callback", "decentro"} => s # "overwrite"
        /\ s = "record" /\ n = "reread" => g = "cashfree"
        /\ p.pid \in {"payment", "order"}
        /\ p.ok \in 0 .. 2 /\ p.paid \in 0 .. 2 /\ p.none \in 0 .. 2 /\ p.fail \in 0 .. 2
        /\ g = "cashfree" =>
               /\ p.ok = 1 /\ p.paid = 1 /\ p.none = 1 /\ p.fail = 1
               /\ s \notin {"read", "recall", "overwrite"}
               /\ s = "paid" => n = "lock"
               /\ s = "lock" => n = "test"
               /\ s \in {"test", "ask"} => n \in {"ask", "record"}
               /\ s \notin {"paid", "lock"} <=> \E j \in 1 .. i - 1 : p.steps[j] = "lock"

LEMMA HandlersWellFormed ==
    ASSUME NEW g \in DOMAIN D!HandlersOf, NEW p \in D!HandlersOf[g],
           NEW i \in 1 .. Len(p.steps)
    PROVE  WellFormed(g, p, i) /\ Len(p.steps) \in Nat
<1>1. CASE p = D!PaymentHook /\ g = "cashfree"
  <2>1. Len(p.steps) = 6 /\ i \in 1 .. 6
    BY <1>1 DEF D!PaymentHook
  <2>2. p.steps[2] = "lock" /\ \A j \in 1 .. 2 - 1 : p.steps[j] # "lock"
    BY <1>1 DEF D!PaymentHook
  <2>3. (\E j \in 1 .. i - 1 : p.steps[j] = "lock") <=> i > 2
    BY <2>1, <2>2
  <2>4. p.steps[i] \notin {"paid", "lock"} <=> i > 2
    BY <1>1, <2>1 DEF D!PaymentHook
  <2> QED BY <1>1, <2>1, <2>3, <2>4 DEF D!PaymentHook, WellFormed
<1>2. CASE p = D!AddPayment /\ g = "cashfree"
  <2>1. Len(p.steps) = 6 /\ i \in 1 .. 6
    BY <1>2 DEF D!AddPayment
  <2>2. p.steps[1] = "lock" /\ \A j \in 1 .. 1 - 1 : p.steps[j] # "lock"
    BY <1>2 DEF D!AddPayment
  <2>3. (\E j \in 1 .. i - 1 : p.steps[j] = "lock") <=> i > 1
    BY <2>1, <2>2
  <2>4. p.steps[i] \notin {"paid", "lock"} <=> i > 1
    BY <1>2, <2>1 DEF D!AddPayment
  <2> QED BY <1>2, <2>1, <2>3, <2>4 DEF D!AddPayment, WellFormed
<1>3. CASE p = D!PaymentHookJP /\ g = "juspay"
  <2>1. Len(p.steps) = 5 /\ i \in 1 .. 5
    BY <1>3 DEF D!PaymentHookJP
  <2> QED BY <1>3, <2>1 DEF D!PaymentHookJP, WellFormed
<1>4. CASE p = D!AddPaymentJP /\ g = "juspay"
  <2>1. Len(p.steps) = 5 /\ i \in 1 .. 5
    BY <1>4 DEF D!AddPaymentJP
  <2> QED BY <1>4, <2>1 DEF D!AddPaymentJP, WellFormed
<1>5. CASE p = D!PaymentHookOnMeta /\ g = "onmeta"
  <2>1. Len(p.steps) = 5 /\ i \in 1 .. 5
    BY <1>5 DEF D!PaymentHookOnMeta
  <2> QED BY <1>5, <2>1 DEF D!PaymentHookOnMeta, WellFormed
<1>6. CASE p = D!GetOnMetaPaymentStatus /\ g = "onmeta"
  <2>1. Len(p.steps) = 5 /\ i \in 1 .. 5
    BY <1>6 DEF D!GetOnMetaPaymentStatus
  <2> QED BY <1>6, <2>1 DEF D!GetOnMetaPaymentStatus, WellFormed
<1>7. CASE p = D!PaykassmaPostback /\ g = "paykassma"
  <2>1. Len(p.steps) = 5 /\ i \in 1 .. 5
    BY <1>7 DEF D!PaykassmaPostback
  <2> QED BY <1>7, <2>1 DEF D!PaykassmaPostback, WellFormed
<1>8. CASE p = D!D24Notification /\ g = "direct24"
  <2>1. Len(p.steps) = 5 /\ i \in 1 .. 5
    BY <1>8 DEF D!D24Notification
  <2> QED BY <1>8, <2>1 DEF D!D24Notification, WellFormed
<1>9. CASE p = D!LinkQuNotification /\ g = "linkqu"
  <2>1. Len(p.steps) = 5 /\ i \in 1 .. 5
    BY <1>9 DEF D!LinkQuNotification
  <2> QED BY <1>9, <2>1 DEF D!LinkQuNotification, WellFormed
<1>10. CASE p = D!PaymentCallback /\ g = "callback"
  <2>1. Len(p.steps) = 4 /\ i \in 1 .. 4
    BY <1>10 DEF D!PaymentCallback
  <2> QED BY <1>10, <2>1 DEF D!PaymentCallback, WellFormed
<1>11. CASE p = D!GetStatusAndAddToTxns /\ g = "decentro"
  <2>1. Len(p.steps) = 6 /\ i \in 1 .. 6
    BY <1>11 DEF D!GetStatusAndAddToTxns
  <2> QED BY <1>11, <2>1 DEF D!GetStatusAndAddToTxns, WellFormed
<1> QED BY <1>1, <1>2, <1>3, <1>4, <1>5, <1>6, <1>7, <1>8, <1>9, <1>10, <1>11 DEF
     D!HandlersOf

\* Every handler has a first step.
LEMMA HandlerLength ==
    ASSUME NEW g \in DOMAIN D!HandlersOf, NEW p \in D!HandlersOf[g]
    PROVE  1 \in 1 .. Len(p.steps)
<1>1. p \in {D!PaymentHook, D!AddPayment, D!PaymentHookJP, D!AddPaymentJP,
            D!PaymentHookOnMeta, D!GetOnMetaPaymentStatus, D!PaykassmaPostback, D!D24Notification,
            D!LinkQuNotification, D!PaymentCallback, D!GetStatusAndAddToTxns}
  BY DEF D!HandlersOf
<1>2. 1 \in 1 .. Len(D!PaymentHook.steps)
  BY DEF D!PaymentHook
<1>3. 1 \in 1 .. Len(D!AddPayment.steps)
  BY DEF D!AddPayment
<1>4. 1 \in 1 .. Len(D!PaymentHookJP.steps)
  BY DEF D!PaymentHookJP
<1>5. 1 \in 1 .. Len(D!AddPaymentJP.steps)
  BY DEF D!AddPaymentJP
<1>6. 1 \in 1 .. Len(D!PaymentHookOnMeta.steps)
  BY DEF D!PaymentHookOnMeta
<1>7. 1 \in 1 .. Len(D!GetOnMetaPaymentStatus.steps)
  BY DEF D!GetOnMetaPaymentStatus
<1>8. 1 \in 1 .. Len(D!PaykassmaPostback.steps)
  BY DEF D!PaykassmaPostback
<1>9. 1 \in 1 .. Len(D!D24Notification.steps)
  BY DEF D!D24Notification
<1>10. 1 \in 1 .. Len(D!LinkQuNotification.steps)
  BY DEF D!LinkQuNotification
<1>11. 1 \in 1 .. Len(D!PaymentCallback.steps)
  BY DEF D!PaymentCallback
<1>12. 1 \in 1 .. Len(D!GetStatusAndAddToTxns.steps)
  BY DEF D!GetStatusAndAddToTxns
<1> QED BY <1>1, <1>2, <1>3, <1>4, <1>5, <1>6, <1>7, <1>8, <1>9, <1>10, <1>11, <1>12

-------------------------------------------------------------------------------
(* The invariants *)

Conditional == gateway \notin {"callback", "decentro"}

\* The row is written when and only when some request has recorded the payment,
\* with that request's paymentid, and a conditional update lets one do so.
RecorderInv ==
    /\ recorded = None <=> recorder = {}
    /\ Conditional => \A h \in recorder : recorded = plan[h].pid
    /\ Conditional => D!AtMostOne(recorder)

\* A request that has recorded the payment has credited it, is about to, or was cut off.
OwesInv ==
    \A h \in recorder \ credited :
        dropped \/ (D!Running(h) /\ StepOf(h) \in {"reread", "credit"})

Deciding == Conditional /\ (gateway = "cashfree" => ~lapsed)

\* cashfree: a request past its lock and before its last unlock holds the lock.
LockInv ==
    gateway = "cashfree" /\ ~lapsed =>
        \A h \in Requests :
            /\ D!Running(h) /\ StepOf(h) \notin {"paid", "lock"} => lock = h
            /\ pc[h] = "exit" => left[h] \in {0, 1} /\ (left[h] = 1 => lock = h)
            /\ D!Running(h) /\ StepOf(h) \in {"ask", "record"} => recorded = None

\* Only a request that has recorded the payment goes on to credit it.
CreditInv ==
    Deciding =>
        /\ credited \subseteq recorder
        /\ \A h \in Requests :
               D!Running(h) /\ StepOf(h) \in {"reread", "credit"} => h \in recorder

\* A request that has not arrived starts with its first step.
IdleInv == \A h \in Requests : pc[h] = "idle" => at[h] = 1

DepositInv == D!TypeOK /\ IdleInv /\ RecorderInv /\ OwesInv /\ LockInv /\ CreditInv

-------------------------------------------------------------------------------
(* The steps *)

\* What the invariants see of the other requests when request h makes a step.
OthersStill(h) ==
    \A g \in Requests \ {h} : pc'[g] = pc[g] /\ at'[g] = at[g] /\ left'[g] = left[g]

LEMMA StepFacts ==
    ASSUME D!TypeOK, NEW h \in Requests
    PROVE  /\ WellFormed(gateway, plan[h], at[h])
           /\ Len(plan[h].steps) \in Nat /\ at[h] \in 1 .. Len(plan[h].steps)
BY HandlersWellFormed, GatewaysHandled DEF D!TypeOK

\* Going on: to the next step, or after the credit to the unlocks.
LEMMA GoStep ==
    ASSUME D!TypeOK, NEW h \in Requests, D!Running(h), D!Go(h)
    PROVE  /\ pc' \in [Requests -> {"idle", "run", "exit", "done"}]
           /\ at' \in [Requests -> Nat] /\ left' \in [Requests -> 0 .. 2]
           /\ \A g \in Requests : at'[g] \in 1 .. Len(plan[g].steps)
           /\ OthersStill(h)
           /\ StepOf(h) # "credit" =>
                /\ pc' = pc /\ left' = left
                /\ at'[h] = at[h] + 1
           /\ StepOf(h) = "credit" =>
                pc'[h] = "exit" /\ at' = at /\ left'[h] = plan[h].ok
<1>1. WellFormed(gateway, plan[h], at[h])
  BY StepFacts
<1>2. at[h] \in 1 .. Len(plan[h].steps) /\ Len(plan[h].steps) \in Nat
  BY StepFacts
<1>3. CASE at[h] = Len(plan[h].steps)
  <2>1. StepOf(h) = "credit" /\ plan[h].ok \in 0 .. 2
    BY <1>1, <1>3 DEF WellFormed, StepOf
  <2>2. /\ pc' = [pc EXCEPT ![h] = "exit"] /\ at' = at
        /\ left' = [left EXCEPT ![h] = plan[h].ok]
    BY <1>3 DEF D!Go, D!Leave, D!Goto
  <2> QED BY <2>1, <2>2 DEF D!TypeOK, OthersStill
<1>4. CASE at[h] # Len(plan[h].steps)
  <2>1. StepOf(h) # "credit"
    BY <1>1, <1>4 DEF WellFormed, StepOf
  <2>2. at' = [at EXCEPT ![h] = @ + 1] /\ pc' = pc /\ left' = left
    BY <1>4 DEF D!Go
  <2>3. at[h] + 1 \in 1 .. Len(plan[h].steps)
    BY <1>2, <1>4
  <2> QED BY <2>1, <2>2, <2>3 DEF D!TypeOK, OthersStill
<1> QED BY <1>3, <1>4

LEMMA LeaveStep ==
    ASSUME D!TypeOK, NEW h \in Requests, NEW n \in 0 .. 2, D!Leave(h, n)
    PROVE  /\ pc' \in [Requests -> {"idle", "run", "exit", "done"}]
           /\ at' = at /\ left' \in [Requests -> 0 .. 2]
           /\ OthersStill(h) /\ pc'[h] = "exit" /\ left'[h] = n
BY DEF D!TypeOK, D!Leave, D!Goto, OthersStill

\* Every variable keeps its type.
LEMMA DepositTypeStep ==
    ASSUME D!TypeOK, NEW h \in Requests, D!Step(h)
    PROVE  D!TypeOK'
<1>1. /\ WellFormed(gateway, plan[h], at[h])
      /\ plan[h].pid \in {"payment", "order"}
      /\ plan[h].ok \in 0 .. 2 /\ plan[h].paid \in 0 .. 2
      /\ plan[h].none \in 0 .. 2 /\ plan[h].fail \in 0 .. 2
  BY StepFacts DEF WellFormed
<1> HIDE DEF D!TypeOK
<1>2. /\ gateway' = gateway /\ plan' = plan /\ outcome' = outcome
      /\ seen' \in [Requests -> BOOLEAN] /\ recorded' \in {None, "payment", "order"}
      /\ lock' \in Requests \union {None}
      /\ recorder' \subseteq Requests /\ credited' \subseteq Requests
      /\ lapsed' \in BOOLEAN /\ stolen' \in BOOLEAN /\ dropped' \in BOOLEAN
  BY <1>1 DEF D!TypeOK, D!Step, D!Arrive, D!Paid, D!Ask, D!Lock, D!Test, D!Read, D!Recall,
       D!Record, D!Overwrite, D!Reread, D!Credit, D!Unlock, D!Return, D!Throw, D!Crash,
       D!row, D!history, D!Owes
<1>3. /\ pc' \in [Requests -> {"idle", "run", "exit", "done"}]
      /\ at' \in [Requests -> Nat] /\ left' \in [Requests -> 0 .. 2]
      /\ \A g \in Requests : at'[g] \in 1 .. Len(plan[g].steps)
  <2>1. CASE D!Running(h) /\ D!Go(h)
    BY <2>1, GoStep
  <2>2. CASE \E n \in 0 .. 2 : D!Leave(h, n)
    BY <2>2, LeaveStep DEF D!TypeOK
  <2>3. CASE \E p \in {"run", "done"} : D!Goto(h, p) /\ left' = left
    BY <2>3 DEF D!Goto, D!TypeOK
  <2>4. CASE D!Unlock(h)
    BY <2>4 DEF D!Unlock, D!TypeOK
  <2>5. \/ D!Running(h) /\ D!Go(h)
        \/ \E n \in 0 .. 2 : D!Leave(h, n)
        \/ \E p \in {"run", "done"} : D!Goto(h, p) /\ left' = left
        \/ D!Unlock(h)
    BY <1>1 DEF D!Step, D!Arrive, D!Paid, D!Ask, D!Lock, D!Test, D!Read, D!Recall,
         D!Record, D!Overwrite, D!Reread, D!Credit, D!Return, D!Throw, D!Crash, D!IsAt
  <2> QED BY <2>1, <2>2, <2>3, <2>4, <2>5
<1> QED BY <1>2, <1>3 DEF D!TypeOK

\* What every step of a request leaves alone or only lets grow.
LEMMA DepositFrame ==
    ASSUME D!TypeOK, NEW h \in Requests, D!Step(h)
    PROVE  /\ gateway' = gateway /\ plan' = plan /\ lapsed' = lapsed
           /\ recorder \subseteq recorder' /\ recorder' \subseteq recorder \union {h}
           /\ credited \subseteq credited' /\ (dropped => dropped')
           /\ OthersStill(h)
BY DEF D!Step, D!Arrive, D!Paid, D!Ask, D!Lock, D!Test, D!Read, D!Recall, D!Record,
     D!Overwrite, D!Reread, D!Credit, D!Unlock, D!Return, D!Throw, D!Crash, D!Go, D!Leave,
     D!Goto, D!row, D!history, D!TypeOK, OthersStill

\* The row and its writer change together.
LEMMA RecorderStep ==
    ASSUME D!TypeOK, RecorderInv, NEW h \in Requests, D!Step(h)
    PROVE  RecorderInv'
<1>1. plan[h].pid \in {"payment", "order"} /\ WellFormed(gateway, plan[h], at[h])
  BY StepFacts DEF WellFormed
<1>2. gateway' = gateway /\ plan' = plan
  BY DepositFrame
<1>3. CASE D!Record(h) /\ recorded = None
  BY <1>1, <1>2, <1>3, MoneyAssumption DEF D!Record, RecorderInv, Conditional, D!AtMostOne
<1>4. CASE D!Overwrite(h)
  <2>1. ~Conditional
    BY <1>1, <1>4 DEF D!Overwrite, D!IsAt, WellFormed, Conditional
  <2> QED BY <1>1, <1>2, <1>4, <2>1, MoneyAssumption DEF D!Overwrite, RecorderInv,
       Conditional
<1>5. CASE UNCHANGED <<recorded, recorder>>
  BY <1>2, <1>5 DEF RecorderInv, Conditional, D!AtMostOne
<1>6. (D!Record(h) /\ recorded = None) \/ D!Overwrite(h) \/ UNCHANGED <<recorded, recorder>>
  BY DEF D!Step, D!Arrive, D!Paid, D!Ask, D!Lock, D!Test, D!Read, D!Recall, D!Record,
       D!Reread, D!Credit, D!Unlock, D!Return, D!Throw, D!Crash, D!history
<1> QED BY <1>3, <1>4, <1>5, <1>6

\* A request that recorded the payment only leaves its way to the credit by a
\* failure or a crash.
LEMMA OwesStep ==
    ASSUME D!TypeOK, RecorderInv, OwesInv, NEW h \in Requests, D!Step(h)
    PROVE  OwesInv'
<1> SUFFICES ASSUME NEW g \in recorder' \ credited', ~dropped'
             PROVE  pc'[g] = "run" /\ plan'[g].steps[at'[g]] \in {"reread", "credit"}
  BY DEF OwesInv, D!Running, StepOf
<1>1. WellFormed(gateway, plan[h], at[h])
  BY StepFacts
<1>2. plan' = plan /\ ~dropped /\ credited \subseteq credited'
      /\ recorder' \subseteq recorder \union {h} /\ g \in Requests
  BY DepositFrame DEF D!TypeOK
<1>3. g \in recorder => pc[g] = "run" /\ StepOf(g) \in {"reread", "credit"}
  BY <1>2 DEF OwesInv, D!Running
<1>4. CASE g # h
  <2>1. g \in recorder
    BY <1>2, <1>4
  <2>2. pc'[g] = pc[g] /\ at'[g] = at[g]
    BY <1>2, <1>4, DepositFrame DEF OthersStill
  <2> QED BY <1>2, <1>3, <2>1, <2>2 DEF StepOf
<1>5. CASE g = h
  <2>1. CASE D!IsAt(h, "record") \/ D!IsAt(h, "overwrite") \/ D!IsAt(h, "reread")
    <3>1. D!Running(h) /\ StepOf(h) # "credit"
      BY <2>1 DEF D!IsAt, StepOf
    <3>2. CASE D!Go(h)
      <4>1. pc' = pc /\ at'[h] = at[h] + 1
        BY <3>1, <3>2, GoStep
      <4> QED BY <1>1, <1>2, <1>5, <2>1, <4>1 DEF D!IsAt, WellFormed, D!Running
    <3>3. CASE ~D!Go(h) /\ ~D!Throw(h) /\ ~D!Crash(h)
      <4>1. g \in recorder
        BY <1>2, <1>5, <2>1, <3>1, <3>3 DEF D!Step, D!Arrive, D!Paid, D!Ask, D!Lock,
             D!Test, D!Read, D!Recall, D!Record, D!Overwrite, D!Reread, D!Credit,
             D!Unlock, D!Return, D!IsAt, D!Running, StepOf, D!history
      <4>2. StepOf(h) = "reread" /\ D!Reread(h)
        BY <1>3, <1>5, <2>1, <3>1, <3>3, <4>1 DEF D!Step, D!Arrive, D!Paid, D!Ask, D!Lock,
             D!Test, D!Read, D!Recall, D!Record, D!Overwrite, D!Reread, D!Credit,
             D!Unlock, D!Return, D!IsAt, D!Running, StepOf
      <4>3. Conditional
        BY <1>1, <4>2 DEF WellFormed, StepOf, Conditional
      <4>4. recorded = plan[h].pid
        BY <1>5, <4>1, <4>3 DEF RecorderInv
      <4> QED BY <3>3, <4>2, <4>4 DEF D!Reread
    <3>4. CASE D!Throw(h) \/ D!Crash(h)
      <4>1. g \in recorder \ credited /\ ~D!Owes(h)
        BY <1>2, <1>5, <3>4 DEF D!Throw, D!Crash
      <4> QED BY <1>3, <1>5, <4>1 DEF D!Owes, D!Running
    <3> QED BY <3>2, <3>3, <3>4
  <2>2. CASE D!IsAt(h, "credit")
    <3>1. CASE D!Throw(h) \/ D!Crash(h)
      <4>1. g \in recorder \ credited /\ ~D!Owes(h)
        BY <1>2, <1>5, <3>1 DEF D!Throw, D!Crash
      <4> QED BY <1>3, <1>5, <4>1 DEF D!Owes, D!Running
    <3>2. CASE ~D!Throw(h) /\ ~D!Crash(h)
      BY <1>5, <2>2, <3>2 DEF D!Step, D!Arrive, D!Paid, D!Ask, D!Lock, D!Test, D!Read,
           D!Recall, D!Record, D!Overwrite, D!Reread, D!Credit, D!Unlock, D!Return,
           D!IsAt, D!Running
    <3> QED BY <3>1, <3>2
  <2>3. CASE ~\E s \in {"record", "overwrite", "reread", "credit"} : D!IsAt(h, s)
    <3>1. g \in recorder
      BY <1>2, <1>5, <2>3 DEF D!Step, D!Arrive, D!Paid, D!Ask, D!Lock, D!Test, D!Read,
           D!Recall, D!Record, D!Overwrite, D!Reread, D!Credit, D!Unlock, D!Return,
           D!Throw, D!Crash, D!history
    <3> QED BY <1>3, <1>5, <2>3, <3>1 DEF D!IsAt, StepOf, D!Running
  <2> QED BY <2>1, <2>2, <2>3
<1> QED BY <1>4, <1>5

\* While it does not expire, the lock of cashfree's handlers is held by the request
\* that has taken it, and nobody writes the row before that request does.
LEMMA LockStep ==
    ASSUME D!TypeOK, IdleInv, LockInv, NEW h \in Requests, D!Step(h)
    PROVE  LockInv'
<1> SUFFICES ASSUME gateway' = "cashfree", ~lapsed', NEW g \in Requests
             PROVE  /\ D!Running(g)' /\ StepOf(g)' \notin {"paid", "lock"} => lock' = g
                    /\ pc'[g] = "exit" => left'[g] \in {0, 1} /\ (left'[g] = 1 => lock' = g)
                    /\ D!Running(g)' /\ StepOf(g)' \in {"ask", "record"} => recorded' = None
  BY DEF LockInv
<1>1. /\ gateway = "cashfree" /\ plan' = plan /\ ~lapsed
  BY DepositFrame
<1>2. WellFormed("cashfree", plan[h], at[h])
  BY <1>1, StepFacts
<1>3. \A f \in Requests :
        /\ D!Running(f) /\ StepOf(f) \notin {"paid", "lock"} => lock = f
        /\ pc[f] = "exit" => left[f] \in {0, 1} /\ (left[f] = 1 => lock = f)
        /\ D!Running(f) /\ StepOf(f) \in {"ask", "record"} => recorded = None
  BY <1>1 DEF LockInv
<1>4. None \notin Requests
  BY MoneyAssumption
<1>5. CASE g # h
  <2>1. pc'[g] = pc[g] /\ at'[g] = at[g] /\ left'[g] = left[g]
    BY <1>5, DepositFrame DEF OthersStill
  <2>2. lock = g => lock' = g /\ recorded' = recorded
    <3> SUFFICES ASSUME lock = g PROVE lock' = g /\ recorded' = recorded
      OBVIOUS
    <3>1. ~D!IsAt(h, "record") /\ ~D!IsAt(h, "overwrite") /\ ~D!Unlock(h)
      <4>1. D!Running(h) => StepOf(h) \in {"paid", "lock"}
        BY <1>3, <1>5
      <4>2. pc[h] = "exit" => left[h] = 0
        BY <1>3, <1>5
      <4> QED BY <4>1, <4>2 DEF D!IsAt, StepOf, D!Unlock
    <3> QED BY <1>4, <3>1 DEF D!Step, D!Arrive, D!Paid, D!Ask, D!Lock, D!Test, D!Read,
         D!Recall, D!Record, D!Overwrite, D!Reread, D!Credit, D!Return, D!Throw, D!Crash,
         D!history
  <2> QED BY <1>1, <1>3, <2>1, <2>2 DEF D!Running, StepOf
<1>6. CASE g = h
  <2>1. /\ plan[h].ok = 1 /\ plan[h].paid = 1 /\ plan[h].none = 1 /\ plan[h].fail = 1
        /\ StepOf(h) \notin {"read", "recall", "overwrite"}
        /\ D!HasLocked(h) <=> StepOf(h) \notin {"paid", "lock"}
    BY <1>2 DEF WellFormed, StepOf, D!HasLocked
  <2>2. ASSUME NEW n \in {0, 1}, D!Leave(h, n), n = 1 => lock' = h
        PROVE  pc'[h] = "exit" /\ left'[h] \in {0, 1} /\ (left'[h] = 1 => lock' = h)
    BY <2>2, LeaveStep
  <2>3. ASSUME D!Running(h), D!Go(h), StepOf(h) # "credit"
        PROVE  pc'[h] = "run" /\ StepOf(h)' = plan[h].steps[at[h] + 1]
    BY <1>1, <2>3, GoStep DEF StepOf, D!Running
  <2>4. CASE D!Arrive(h)
    <3>1. at'[h] = 1 /\ StepOf(h) \in {"paid", "lock"} /\ StepOf(h)' = StepOf(h)
          /\ pc'[h] = "run"
      BY <1>1, <1>2, <2>1, <2>4 DEF D!Arrive, D!Goto, IdleInv, D!HasLocked, StepOf, D!TypeOK
    <3> QED BY <1>6, <3>1
  <2>5. CASE D!Paid(h)
    <3>1. pc'[h] = "run" /\ StepOf(h)' = "lock"
      BY <1>2, <2>3, <2>5 DEF D!Paid, D!IsAt, StepOf, WellFormed
    <3> QED BY <1>6, <3>1
  <2>6. CASE D!Ask(h)
    <3>1. lock = h /\ recorded = None /\ lock' = lock /\ recorded' = recorded
          /\ D!Running(h) /\ StepOf(h) = "ask"
      BY <1>3, <2>6 DEF D!Ask, D!IsAt, StepOf, D!history
    <3>2. CASE D!Go(h)
      <4>1. pc'[h] = "run" /\ StepOf(h)' \in {"ask", "record"}
        BY <1>2, <2>3, <3>1, <3>2 DEF WellFormed, StepOf
      <4> QED BY <1>6, <3>1, <4>1
    <3>3. CASE D!Leave(h, 1)
      BY <1>6, <2>2, <3>1, <3>3 DEF D!Running
    <3> QED BY <2>6, <3>1, <3>2, <3>3 DEF D!Ask
  <2>7. CASE D!Lock(h)
    <3>1. pc'[h] = "run" /\ StepOf(h)' = "test" /\ lock' = h
      BY <1>2, <2>3, <2>7 DEF D!Lock, D!IsAt, StepOf, WellFormed
    <3> QED BY <1>6, <3>1
  <2>8. CASE D!Test(h)
    <3>1. lock = h /\ lock' = lock /\ recorded' = recorded
          /\ D!Running(h) /\ StepOf(h) = "test"
      BY <1>3, <2>8 DEF D!Test, D!IsAt, StepOf, D!history
    <3>2. CASE recorded = None
      <4>1. pc'[h] = "run" /\ StepOf(h)' \in {"ask", "record"}
        BY <1>2, <2>3, <2>8, <3>1, <3>2 DEF WellFormed, StepOf, D!Test
      <4> QED BY <1>6, <3>1, <3>2, <4>1
    <3>3. CASE recorded # None
      <4>1. D!Leave(h, 1)
        BY <2>1, <2>8, <3>3 DEF D!Test
      <4> QED BY <1>6, <2>2, <3>1, <4>1 DEF D!Running
    <3> QED BY <3>2, <3>3
  <2>9. CASE D!Record(h) \/ D!Reread(h)
    <3>1. lock = h /\ lock' = lock /\ D!Running(h) /\ StepOf(h) \in {"record", "reread"}
      BY <1>3, <2>9 DEF D!Record, D!Reread, D!IsAt, StepOf, D!history
    <3>2. CASE D!Go(h)
      <4>1. pc'[h] = "run" /\ StepOf(h)' \in {"reread", "credit"}
        BY <1>2, <2>3, <3>1, <3>2 DEF WellFormed, StepOf
      <4> QED BY <1>6, <3>1, <4>1
    <3>3. CASE D!Leave(h, 1)
      BY <1>6, <2>2, <3>1, <3>3 DEF D!Running
    <3> QED BY <2>1, <2>9, <3>2, <3>3 DEF D!Record, D!Reread
  <2>10. CASE D!Credit(h)
    <3>1. lock = h /\ lock' = lock /\ D!Running(h) /\ D!Go(h) /\ StepOf(h) = "credit"
      BY <1>3, <2>10 DEF D!Credit, D!IsAt, StepOf
    <3>2. pc'[h] = "exit" /\ left'[h] = 1
      BY <2>1, <3>1, GoStep
    <3> QED BY <1>6, <3>1, <3>2 DEF D!Running
  <2>11. CASE D!Unlock(h)
    <3>1. pc'[h] = "exit" /\ left[h] = 1 /\ left'[h] = 0
      BY <1>3, <2>11 DEF D!Unlock, D!TypeOK
    <3> QED BY <1>6, <3>1 DEF D!Running
  <2>12. CASE D!Return(h) \/ D!Crash(h)
    <3>1. pc'[h] = "done"
      BY <2>12 DEF D!Return, D!Crash, D!Goto, D!TypeOK
    <3> QED BY <1>6, <3>1 DEF D!Running
  <2>13. CASE D!Throw(h)
    <3>1. D!Running(h) /\ lock' = lock
      BY <2>13 DEF D!Throw
    <3>2. CASE D!HasLocked(h)
      <4>1. D!Leave(h, 1) /\ lock = h
        BY <1>3, <2>1, <2>13, <3>1, <3>2 DEF D!Throw
      <4> QED BY <1>6, <2>2, <3>1, <4>1 DEF D!Running
    <3>3. CASE ~D!HasLocked(h)
      <4>1. D!Leave(h, 0)
        BY <2>13, <3>3 DEF D!Throw
      <4> QED BY <1>6, <2>2, <4>1 DEF D!Running
    <3> QED BY <3>2, <3>3
  <2>14. ~D!Read(h) /\ ~D!Recall(h) /\ ~D!Overwrite(h)
    BY <2>1 DEF D!Read, D!Recall, D!Overwrite, D!IsAt, StepOf
  <2> QED BY <2>4, <2>5, <2>6, <2>7, <2>8, <2>9, <2>10, <2>11, <2>12, <2>13, <2>14 DEF
       D!Step
<1> QED BY <1>5, <1>6

\* Whoever goes on to the credit has recorded the payment.
LEMMA CreditStep ==
    ASSUME D!TypeOK, IdleInv, LockInv, CreditInv, NEW h \in Requests, D!Step(h)
    PROVE  CreditInv'
<1>1. /\ gateway' = gateway /\ plan' = plan /\ (lapsed => lapsed')
      /\ recorder \subseteq recorder'
  BY DepositFrame
<1> SUFFICES ASSUME Deciding'
             PROVE  /\ credited' \subseteq recorder'
                    /\ \A g \in Requests :
                          D!Running(g)' /\ StepOf(g)' \in {"reread", "credit"} => g \in recorder'
  BY DEF CreditInv
<1>2. Conditional /\ Deciding
  BY <1>1 DEF Deciding, Conditional
<1>3. /\ credited \subseteq recorder
      /\ \A g \in Requests : D!Running(g) /\ StepOf(g) \in {"reread", "credit"} => g \in recorder
  BY <1>2 DEF CreditInv
<1>4. WellFormed(gateway, plan[h], at[h])
  BY StepFacts
<1>5. credited' \subseteq recorder'
  <2>1. CASE D!Credit(h)
    BY <1>3, <2>1 DEF D!Credit, D!IsAt, StepOf
  <2>2. CASE ~D!Credit(h)
    <3>1. credited' = credited
      BY <2>2 DEF D!Step, D!Arrive, D!Paid, D!Ask, D!Lock, D!Test, D!Read, D!Recall,
           D!Record, D!Overwrite, D!Reread, D!Unlock, D!Return, D!Throw, D!Crash,
           D!history
    <3> QED BY <1>1, <1>3, <3>1
  <2> QED BY <2>1, <2>2
<1>6. ASSUME NEW g \in Requests, D!Running(g)', StepOf(g)' \in {"reread", "credit"}
      PROVE  g \in recorder'
  <2>1. CASE g # h
    <3>1. pc'[g] = pc[g] /\ at'[g] = at[g]
      BY <2>1, DepositFrame DEF OthersStill
    <3> QED BY <1>1, <1>3, <1>6, <3>1 DEF D!Running, StepOf
  <2>2. CASE g = h
    <3>1. pc'[h] = "run"
      BY <1>6, <2>2 DEF D!Running
    <3>2. CASE D!Arrive(h)
      <4>1. at'[h] = 1 /\ StepOf(h)' = StepOf(h)
        BY <1>1, <3>2 DEF D!Arrive, D!Goto, IdleInv, StepOf, D!TypeOK
      <4>2. at[h] = 1
        BY <3>2 DEF D!Arrive, IdleInv
      <4> QED BY <1>4, <1>6, <2>2, <4>1, <4>2 DEF WellFormed, StepOf
    <3>3. CASE ~D!Arrive(h)
      <4>1. ~D!Unlock(h) /\ ~D!Return(h) /\ ~D!Throw(h) /\ ~D!Crash(h)
            /\ ~\E n \in 0 .. 2 : D!Leave(h, n)
        BY <3>1 DEF D!Unlock, D!Return, D!Throw, D!Crash, D!Goto, D!Leave, D!TypeOK
      <4>2. D!Running(h) /\ D!Go(h)
        BY <1>4, <3>3, <4>1 DEF D!Step, D!Paid, D!Ask, D!Lock, D!Test, D!Read, D!Recall,
             D!Record, D!Overwrite, D!Reread, D!Credit, D!IsAt, WellFormed
      <4>3. StepOf(h) # "credit" /\ StepOf(h)' = plan[h].steps[at[h] + 1]
        BY <1>1, <3>1, <4>2, GoStep DEF StepOf
      <4>4. StepOf(h) \in {"record", "overwrite", "reread"}
        BY <1>4, <1>6, <2>2, <4>3 DEF WellFormed, StepOf
      <4>5. CASE StepOf(h) = "reread"
        BY <1>1, <1>3, <2>2, <4>2, <4>5
      <4>6. CASE StepOf(h) = "overwrite"
        BY <1>2, <1>4, <4>6 DEF WellFormed, StepOf, Conditional
      <4>7. CASE StepOf(h) = "record"
        <5>1. D!Record(h)
          BY <3>3, <4>1, <4>7 DEF D!Step, D!Paid, D!Ask, D!Lock, D!Test, D!Read, D!Recall,
               D!Overwrite, D!Reread, D!Credit, D!IsAt, StepOf
        <5>2. CASE recorded = None
          BY <2>2, <5>1, <5>2 DEF D!Record
        <5>3. CASE recorded # None
          <6>1. plan[h].steps[at[h] + 1] = "reread"
            BY <1>4, <4>1, <5>1, <5>3 DEF D!Record, WellFormed
          <6>2. gateway = "cashfree"
            BY <1>4, <4>7, <6>1 DEF WellFormed, StepOf
          <6> QED BY <1>2, <4>2, <4>7, <5>3, <6>2 DEF LockInv, Deciding
        <5> QED BY <5>2, <5>3
      <4> QED BY <4>4, <4>5, <4>6, <4>7
    <3> QED BY <3>2, <3>3
  <2> QED BY <2>1, <2>2
<1> QED BY <1>5, <1>6

LEMMA IdleStep ==
    ASSUME D!TypeOK, IdleInv, NEW h \in Requests, D!Step(h)
    PROVE  IdleInv'
BY DEF D!Step, D!Arrive, D!Paid, D!Ask, D!Lock, D!Test, D!Read, D!Recall, D!Record,
     D!Overwrite, D!Reread, D!Credit, D!Unlock, D!Return, D!Throw, D!Crash, D!Go, D!Leave,
     D!Goto, D!IsAt, D!Running, D!TypeOK, IdleInv

\* The gateway's decision and an expiry touch no request.
LEMMA OutsideStep ==
    ASSUME DepositInv, D!LockExpire \/ D!Decide
    PROVE  DepositInv'
<1>1. /\ UNCHANGED <<gateway, plan, pc, at, left, seen, recorded, recorder, credited,
                     stolen, dropped>>
      /\ outcome' \in {"open", "paid", "failed"} /\ lapsed' \in BOOLEAN
      /\ lock' \in Requests \union {None} /\ (lapsed => lapsed')
  BY DEF D!LockExpire, D!Decide, D!history, DepositInv, D!TypeOK, D!row
<1>2. D!TypeOK' /\ IdleInv' /\ RecorderInv' /\ OwesInv' /\ CreditInv'
  BY <1>1 DEF DepositInv, D!TypeOK, IdleInv, RecorderInv, OwesInv, CreditInv, Deciding,
       Conditional, D!Running, StepOf
<1>3. LockInv'
  <2> SUFFICES ASSUME gateway' = "cashfree", ~lapsed', NEW h \in Requests
               PROVE  /\ D!Running(h)' /\ StepOf(h)' \notin {"paid", "lock"} => lock' = h
                      /\ pc'[h] = "exit" => left'[h] \in {0, 1} /\ (left'[h] = 1 => lock' = h)
                      /\ D!Running(h)' /\ StepOf(h)' \in {"ask", "record"} => recorded' = None
    BY DEF LockInv
  <2>1. /\ D!Running(h) /\ StepOf(h) \notin {"paid", "lock"} => lock = h
        /\ pc[h] = "exit" => left[h] \in {0, 1} /\ (left[h] = 1 => lock = h)
        /\ D!Running(h) /\ StepOf(h) \in {"ask", "record"} => recorded = None
    BY <1>1 DEF DepositInv, LockInv
  <2>2. lock = h => lock' = h \/ (~D!Running(h) /\ ~(pc[h] = "exit" /\ left[h] = 1))
    BY <1>1 DEF D!LockExpire, D!Decide, D!history
  <2> QED BY <1>1, <2>1, <2>2 DEF D!Running, StepOf
<1> QED BY <1>2, <1>3 DEF DepositInv

LEMMA DepositInvariant ==
    /\ D!Init => DepositInv
    /\ DepositInv /\ [D!Next]_(D!vars) => DepositInv'
<1>1. D!Init => DepositInv
  <2> SUFFICES ASSUME D!Init PROVE DepositInv
    OBVIOUS
  <2> USE DEF D!Init
  <2>1. D!TypeOK
    <3>1. ASSUME NEW h \in Requests PROVE 1 \in 1 .. Len(plan[h].steps)
      <4>1. gateway \in DOMAIN D!HandlersOf /\ plan[h] \in D!HandlersOf[gateway]
        BY GatewaysHandled
      <4> QED BY <4>1, HandlerLength
    <3>2. \A h \in Requests : at[h] \in 1 .. Len(plan[h].steps)
      BY <3>1
    <3>3. left \in [Requests -> 0 .. 2] /\ at \in [Requests -> Nat]
          /\ seen \in [Requests -> BOOLEAN]
      OBVIOUS
    <3>4. /\ pc \in [Requests -> {"idle", "run", "exit", "done"}]
          /\ recorded \in {None, "payment", "order"} /\ lock \in Requests \union {None}
      OBVIOUS
    <3> HIDE DEF D!Init
    <3>5. /\ gateway \in AllGateways /\ outcome \in {"open", "paid", "failed"}
          /\ plan \in [Requests -> D!HandlersOf[gateway]]
          /\ recorder \subseteq Requests /\ credited \subseteq Requests
          /\ lapsed \in BOOLEAN /\ stolen \in BOOLEAN /\ dropped \in BOOLEAN
      BY DEF D!Init
    <3> QED BY <3>2, <3>3, <3>4, <3>5 DEF D!TypeOK
  <2>2. IdleInv /\ RecorderInv /\ OwesInv /\ LockInv /\ CreditInv
    BY DEF IdleInv, RecorderInv, OwesInv, LockInv, CreditInv, D!AtMostOne, D!Running
  <2> QED BY <2>1, <2>2 DEF DepositInv
<1>2. DepositInv /\ [D!Next]_(D!vars) => DepositInv'
  <2> SUFFICES ASSUME DepositInv, [D!Next]_(D!vars) PROVE DepositInv'
    OBVIOUS
  <2>1. CASE UNCHANGED D!vars
    BY <2>1 DEF D!vars, D!row, D!history, DepositInv, D!TypeOK, IdleInv, RecorderInv,
         OwesInv, LockInv, CreditInv, Deciding, Conditional, D!Running, StepOf
  <2>2. ASSUME NEW h \in Requests, D!Step(h) PROVE DepositInv'
    BY <2>2, DepositTypeStep, IdleStep, RecorderStep, OwesStep, LockStep, CreditStep DEF
         DepositInv
  <2>3. CASE D!LockExpire \/ D!Decide
    BY <2>3, OutsideStep
  <2> QED BY <2>1, <2>2, <2>3 DEF D!Next
<1> QED BY <1>1, <1>2

LEMMA DepositIsPart ==
    /\ Init => (part = "deposit" => DepositInv)
    /\ (part = "deposit" => DepositInv) /\ [Next]_vars => (part = "deposit" => DepositInv)'
<1>1. Init => (part = "deposit" => DepositInv)
  BY DepositInvariant, OneOfThem
<1>2. ASSUME part = "deposit" => DepositInv, [Next]_vars, part' = "deposit" PROVE DepositInv'
  <2>1. part = "deposit" /\ [D!Next]_(D!vars)
    BY <1>2, OneOfThem
  <2> QED BY <1>2, <2>1, DepositInvariant
<1> QED BY <1>1, <1>2

-------------------------------------------------------------------------------
(* The theorems *)

\* Every variable of a deposit keeps its type, for any requests and gateways.
THEOREM DepositTyped == D!Spec => []D!TypeOK
<1>1. DepositInv => D!TypeOK
  BY DEF DepositInv
<1> QED BY <1>1, DepositInvariant, PTL DEF D!Spec

\* However many callbacks and requests race, fail or stop, a deposit is credited at
\* most once where an update of the row decides, and for cashfree as long as the
\* lock has not expired under a request.
THEOREM CreditedOnceHolds ==
    (D!Spec => []D!CreditedOnce) /\ (Spec => []CreditedOnce)
<1>1. DepositInv => D!CreditedOnce
  BY DEF DepositInv, RecorderInv, CreditInv, Deciding, Conditional, D!CreditedOnce,
       D!AtMostOne
<1>2. (part = "deposit" => DepositInv) => CreditedOnce
  BY <1>1 DEF CreditedOnce
<1> QED BY <1>1, <1>2, DepositInvariant, DepositIsPart, PTL DEF D!Spec, Spec

\* A payment that is recorded is credited, or a request is on its way to credit it,
\* unless the request that recorded it failed or stopped between the two.
THEOREM RecordedHolds ==
    (D!Spec => []D!RecordedIsCredited) /\ (Spec => []RecordedIsCredited)
<1>1. DepositInv => D!RecordedIsCredited
  <2> SUFFICES ASSUME DepositInv, recorded # None, ~dropped, \A h \in Requests : ~D!Owes(h)
               PROVE  credited # {}
    BY DEF D!RecordedIsCredited
  <2>1. PICK h \in recorder : h \in Requests
    BY DEF DepositInv, RecorderInv, D!TypeOK
  <2> QED BY <2>1 DEF DepositInv, OwesInv, D!Owes
<1>2. (part = "deposit" => DepositInv) => RecordedIsCredited
  BY <1>1 DEF RecordedIsCredited
<1> QED BY <1>1, <1>2, DepositInvariant, DepositIsPart, PTL DEF D!Spec, Spec

-------------------------------------------------------------------------------
(* WITHDRAWAL.  Whoever cancels a withdrawal, the dashboard apart, does so    *)
(* on the gateway's word that it failed, and that word is final; and a row   *)
(* that was refunded stays cancelled until a callback completes it.          *)

StepNow(r) == W!Steps[kind[r]][at[r]]

\* What the proofs use of step i of handler k, the step after it included.
WithdrawalStep(k, i) ==
    LET s == W!Steps[k][i]
        n == W!Steps[k][i + 1]
    IN  /\ i = Len(W!Steps[k]) <=>
               s \in {"create", "confirm", "apply", "update", "cancel", "write"}
        /\ s = "told" => n = "lock"
        /\ s = "lock" => n \in {"already", "update"}
        /\ s = "already" => n = "apply"
        /\ i # Len(W!Steps[k]) /\ s \notin {"lock", "already"} =>
               n \notin {"already", "apply", "update"}
        /\ k = "putRedeemRequests" <=> s \in {"key", "active", "completed", "create"}
        /\ s = "update" => k = "cryptoPayoutHook"

LEMMA WithdrawalSteps ==
    ASSUME NEW k \in DOMAIN W!Steps, NEW i \in DOMAIN W!Steps[k]
    PROVE  /\ WithdrawalStep(k, i)
           /\ Len(W!Steps[k]) \in Nat /\ DOMAIN W!Steps[k] = 1 .. Len(W!Steps[k])
<1>1. CASE k = "putRedeemRequests"
  <2>1. Len(W!Steps[k]) = 4 /\ DOMAIN W!Steps[k] = 1 .. 4
    BY <1>1 DEF W!Steps
  <2> QED BY <1>1, <2>1 DEF W!Steps, WithdrawalStep
<1>2. CASE k = "paykassmaPostback"
  <2>1. Len(W!Steps[k]) = 4 /\ DOMAIN W!Steps[k] = 1 .. 4
    BY <1>2 DEF W!Steps
  <2> QED BY <1>2, <2>1 DEF W!Steps, WithdrawalStep
<1>3. CASE k = "d24Notification"
  <2>1. Len(W!Steps[k]) = 4 /\ DOMAIN W!Steps[k] = 1 .. 4
    BY <1>3 DEF W!Steps
  <2> QED BY <1>3, <2>1 DEF W!Steps, WithdrawalStep
<1>4. CASE k = "cryptoPayoutHook"
  <2>1. Len(W!Steps[k]) = 3 /\ DOMAIN W!Steps[k] = 1 .. 3
    BY <1>4 DEF W!Steps
  <2> QED BY <1>4, <2>1 DEF W!Steps, WithdrawalStep
<1>5. CASE k = "confirmCryptoPayout"
  <2>1. Len(W!Steps[k]) = 1 /\ DOMAIN W!Steps[k] = 1 .. 1
    BY <1>5 DEF W!Steps
  <2> QED BY <1>5, <2>1 DEF W!Steps, WithdrawalStep
<1>6. CASE k = "cancelRedeemRequests"
  <2>1. Len(W!Steps[k]) = 1 /\ DOMAIN W!Steps[k] = 1 .. 1
    BY <1>6 DEF W!Steps
  <2> QED BY <1>6, <2>1 DEF W!Steps, WithdrawalStep
<1>7. CASE k = "getLastPaymentStatus"
  <2>1. Len(W!Steps[k]) = 4 /\ DOMAIN W!Steps[k] = 1 .. 4
    BY <1>7 DEF W!Steps
  <2> QED BY <1>7, <2>1 DEF W!Steps, WithdrawalStep
<1> QED BY <1>1, <1>2, <1>3, <1>4, <1>5, <1>6, <1>7 DEF W!Steps

\* A request that has not arrived knows nothing; one that runs for a callback,
\* a poll or the dashboard is about a row; what has no row has no payout.
FreshInv ==
    /\ \A r \in Requests : pc[r] = "idle" => at[r] = 1 /\ said[r] = None
    /\ \A r \in Requests :
           W!Running(r) /\ kind[r] # "putRedeemRequests" => target[r] \in DOMAIN redeem
    /\ \A i \in W!Rows \ DOMAIN redeem : outcome[i] = "unsent" /\ refunds[i] = 0

\* A row's lock is held by a callback on its way to the answer, or left behind.
OwnerInv ==
    \A i \in W!Rows :
        lock[i] # None =>
            \/ lock[i] \in left
            \/ /\ W!Running(lock[i]) /\ target[lock[i]] = i
               /\ StepNow(lock[i]) \in {"already", "apply", "update"}

\* Who has heard of a failure is right, and so are the cancellations begun on it.
FailedInv ==
    /\ \A r \in Requests :
           said[r] = "failed" => target[r] \in W!Rows /\ outcome[target[r]] = "failed"
    /\ \A i \in cancelling : outcome[i] = "failed" /\ i \in DOMAIN redeem
    /\ \A i \in W!Rows : refunds[i] > 0 => i \in recalled \/ outcome[i] = "failed"

\* A refunded row is cancelled, as long as no callback has completed it since.
OnceInv ==
    guarded => \A i \in DOMAIN redeem \ revived :
        refunds[i] = 0 \/ (refunds[i] = 1 /\ redeem[i].status = "CAN")

WithdrawalInv == W!TypeOK /\ FreshInv /\ OwnerInv /\ FailedInv /\ OnceInv

\* The other requests are where they were.
OthersRest(r) ==
    \A q \in Requests \ {r} :
        pc'[q] = pc[q] /\ at'[q] = at[q] /\ target'[q] = target[q] /\ said'[q] = said[q]

LEMMA WithdrawalFrame ==
    ASSUME W!TypeOK, NEW r \in Requests, W!Step(r)
    PROVE  /\ kind' = kind /\ pg' = pg /\ guarded' = guarded /\ lapsed' = lapsed
           /\ left \subseteq left' /\ revived \subseteq revived'
           /\ recalled \subseteq recalled'
           /\ W!Arrive(r) \/ target' = target
           /\ W!HearAnswer(r) \/ W!AskCashfree(r) \/ said' = said
           /\ OthersRest(r)
BY DEF W!Step, W!Arrive, W!TakeKey, W!CheckActive, W!CheckCompleted, W!RefuseIf, W!Create,
     W!Confirm, W!HearAnswer, W!Lock, W!Already, W!Complete, W!Cancel, W!UnknownStatus,
     W!UpdateCrypto, W!CancelFromDashboard, W!Last, W!Cached, W!AskCashfree,
     W!WriteStatus, W!Throw, W!CancelRow, W!Unlocked, W!Go, W!End, W!fixed, W!keys,
     W!books, W!history, W!TypeOK, OthersRest

LEMMA WithdrawalGo ==
    ASSUME W!TypeOK, NEW r \in Requests, W!Go(r)
    PROVE  /\ pc' \in [Requests -> {"idle", "run", "done"}] /\ at' \in [Requests -> Nat]
           /\ \A q \in Requests : at'[q] \in DOMAIN W!Steps[kind[q]]
           /\ at[r] = Len(W!Steps[kind[r]]) => pc'[r] = "done" /\ at' = at
           /\ at[r] # Len(W!Steps[kind[r]]) => pc' = pc /\ at'[r] = at[r] + 1
<1>1. /\ WithdrawalStep(kind[r], at[r]) /\ Len(W!Steps[kind[r]]) \in Nat
      /\ DOMAIN W!Steps[kind[r]] = 1 .. Len(W!Steps[kind[r]])
      /\ at[r] \in DOMAIN W!Steps[kind[r]]
  BY WithdrawalSteps DEF W!TypeOK
<1>2. CASE at[r] = Len(W!Steps[kind[r]])
  BY <1>2 DEF W!Go, W!End, W!TypeOK
<1>3. CASE at[r] # Len(W!Steps[kind[r]])
  <2>1. at[r] + 1 \in DOMAIN W!Steps[kind[r]]
    BY <1>1, <1>3
  <2>2. at' = [at EXCEPT ![r] = @ + 1] /\ pc' = pc
    BY <1>3 DEF W!Go
  <2>3. at \in [Requests -> Nat] /\ at[r] + 1 \in Nat
        /\ \A q \in Requests : at[q] \in DOMAIN W!Steps[kind[q]]
    BY <1>1 DEF W!TypeOK
  <2>4. \A q \in Requests : at'[q] \in DOMAIN W!Steps[kind[q]]
    BY <2>1, <2>2, <2>3
  <2>5. at' \in [Requests -> Nat] /\ at'[r] = at[r] + 1
    BY <2>2, <2>3
  <2> QED BY <1>3, <2>2, <2>4, <2>5 DEF W!TypeOK
<1> QED BY <1>2, <1>3

\* Where a request is after its step.
LEMMA WithdrawalMoves ==
    ASSUME W!TypeOK, NEW r \in Requests, W!Step(r)
    PROVE  \/ W!Arrive(r)
           \/ W!Running(r) /\ W!Go(r)
           \/ W!Running(r) /\ W!End(r)
BY DEF W!Step, W!TakeKey, W!CheckActive, W!CheckCompleted, W!RefuseIf, W!Create,
     W!Confirm, W!HearAnswer, W!Lock, W!Already, W!Complete, W!Cancel, W!UnknownStatus,
     W!UpdateCrypto, W!CancelFromDashboard, W!Last, W!Cached, W!AskCashfree,
     W!WriteStatus, W!Throw, W!IsAt

RedeemRow == [status : {"A", "C", "CAN"}, pgstatus : W!Answers \union {None}]

\* A write to a row keeps the table a table.
LEMMA RedeemSet ==
    ASSUME W!TypeOK, NEW i \in DOMAIN redeem, NEW row \in RedeemRow,
           redeem' = [redeem EXCEPT ![i] = row]
    PROVE  /\ redeem' \in Seq(RedeemRow) /\ Len(redeem') = Len(redeem)
           /\ DOMAIN redeem' = DOMAIN redeem
BY ExceptSeq DEF W!TypeOK, RedeemRow

\* Every variable keeps its type.
LEMMA WithdrawalTypeStep ==
    ASSUME W!TypeOK, FreshInv, NEW r \in Requests, W!Step(r)
    PROVE  W!TypeOK'
<1>1. kind' = kind /\ pg' = pg /\ guarded' = guarded /\ lapsed' = lapsed
  BY WithdrawalFrame
<1>2. /\ pc' \in [Requests -> {"idle", "run", "done"}] /\ at' \in [Requests -> Nat]
      /\ \A q \in Requests : at'[q] \in DOMAIN W!Steps[kind[q]]
  <2>1. CASE W!Arrive(r)
    BY <2>1 DEF W!Arrive, W!TypeOK
  <2>2. CASE W!Go(r)
    BY <2>2, WithdrawalGo
  <2>3. CASE W!End(r)
    BY <2>3 DEF W!End, W!TypeOK
  <2> QED BY <2>1, <2>2, <2>3, WithdrawalMoves
<1>3. DOMAIN redeem = 1 .. Len(redeem) /\ Len(redeem) \in Nat /\ redeem \in Seq(RedeemRow)
      /\ W!Rows = 1 .. RowLimit /\ RowLimit \in Nat /\ Len(redeem) <= RowLimit
  BY MoneyAssumption DEF W!TypeOK, RedeemRow, W!Rows
<1>4. target' \in [Requests -> W!Rows \union {None}]
  <2>1. CASE W!Arrive(r)
    <3>1. PICK i \in {None} \union DOMAIN redeem : target' = [target EXCEPT ![r] = i]
      BY <2>1 DEF W!Arrive
    <3>2. i \in W!Rows \union {None}
      BY <1>3
    <3> QED BY <3>1, <3>2 DEF W!TypeOK
  <2>2. CASE target' = target
    BY <2>2 DEF W!TypeOK
  <2> QED BY <2>1, <2>2, WithdrawalFrame
<1>5. W!Running(r) /\ kind[r] # "putRedeemRequests" => target[r] \in 1 .. Len(redeem) /\ target[r] \in W!Rows
  BY <1>3 DEF FreshInv
<1>6. WithdrawalStep(kind[r], at[r])
  BY WithdrawalSteps DEF W!TypeOK
<1>7. said' \in [Requests -> W!Answers \union {None}]
  BY WithdrawalFrame DEF W!HearAnswer, W!AskCashfree, W!TypeOK
<1>8. redeem' \in Seq(RedeemRow) /\ Len(redeem') <= RowLimit
  <2>1. CASE redeem' = redeem
    BY <1>3, <2>1
  <2>2. CASE W!Create(r) /\ redeem' # redeem
    <3>1. PICK row \in RedeemRow : redeem' = Append(redeem, row)
      BY <2>2 DEF W!Create, RedeemRow
    <3>2. Len(redeem) < RowLimit
      BY <2>2 DEF W!Create
    <3> QED BY <1>3, <3>1, <3>2
  <2>3. CASE ~W!Create(r) /\ redeem' # redeem
    <3>1. W!Running(r) /\ target[r] \in DOMAIN redeem
      BY <1>3, <1>5, <1>6, <2>3 DEF W!Step, W!Arrive, W!TakeKey, W!CheckActive,
           W!CheckCompleted, W!RefuseIf, W!Confirm, W!HearAnswer, W!Lock, W!Already,
           W!Complete, W!Cancel, W!UnknownStatus, W!UpdateCrypto, W!CancelFromDashboard,
           W!Last, W!Cached, W!AskCashfree, W!WriteStatus, W!Throw, W!IsAt, W!books,
           WithdrawalStep
    <3>2. redeem[target[r]] \in RedeemRow /\ said[r] \in W!Answers \union {None}
      BY <1>3, <3>1 DEF W!TypeOK
    <3>3. PICK row \in RedeemRow : redeem' = [redeem EXCEPT ![target[r]] = row]
      <4>1. CASE W!Complete(r) \/ W!UpdateCrypto(r)
        BY <2>3, <4>1 DEF W!Complete, W!UpdateCrypto, W!Set, RedeemRow, W!Answers
      <4>2. CASE W!CancelFromDashboard(r)
        BY <2>3, <3>2, <4>2 DEF W!CancelFromDashboard, W!CancelRow, W!Set, RedeemRow
      <4>3. CASE W!WriteStatus(r)
        BY <3>2, <4>3 DEF W!WriteStatus, W!Set, RedeemRow
      <4>4. W!Complete(r) \/ W!UpdateCrypto(r) \/ W!CancelFromDashboard(r) \/ W!WriteStatus(r)
        BY <2>3 DEF W!Step, W!Arrive, W!TakeKey, W!CheckActive, W!CheckCompleted,
             W!RefuseIf, W!Confirm, W!HearAnswer, W!Lock, W!Already, W!Cancel,
             W!UnknownStatus, W!Last, W!Cached, W!AskCashfree, W!Throw, W!books
      <4> QED BY <4>1, <4>2, <4>3, <4>4
    <3> QED BY <1>3, <3>1, <3>3, RedeemSet
  <2> QED BY <2>1, <2>2, <2>3
<1>9. outcome' \in [W!Rows -> W!Answers \union {"unsent", "unconfirmed"}]
  BY DEF W!TypeOK, W!Answers, W!Step, W!Arrive, W!TakeKey, W!CheckActive,
       W!CheckCompleted, W!RefuseIf, W!Create, W!Confirm, W!HearAnswer, W!Lock, W!Already,
       W!Complete, W!Cancel, W!UnknownStatus, W!UpdateCrypto, W!CancelFromDashboard,
       W!Last, W!Cached, W!AskCashfree, W!WriteStatus, W!Throw, W!books
<1>10. /\ key' \in Requests \union {None} /\ lock' \in [W!Rows -> Requests \union {None}]
  BY ZenonT(30) DEF W!TypeOK, W!Step, W!Arrive, W!TakeKey, W!CheckActive, W!CheckCompleted,
       W!RefuseIf, W!Create, W!Confirm, W!HearAnswer, W!Lock, W!Already, W!Complete,
       W!Cancel, W!UnknownStatus, W!UpdateCrypto, W!CancelFromDashboard, W!Last, W!Cached,
       W!AskCashfree, W!WriteStatus, W!Throw, W!Unlocked, W!keys
<1>11. cache' \in [W!Rows -> W!Answers \union {None}]
  BY DEF W!TypeOK, W!Step, W!Arrive, W!TakeKey, W!CheckActive, W!CheckCompleted,
       W!RefuseIf, W!Create, W!Confirm, W!HearAnswer, W!Lock, W!Already, W!Complete,
       W!Cancel, W!UnknownStatus, W!UpdateCrypto, W!CancelFromDashboard, W!Last, W!Cached,
       W!AskCashfree, W!WriteStatus, W!Throw, W!keys
<1>12. /\ cancelling' \subseteq W!Rows /\ refunds' \in [W!Rows -> Nat]
       /\ revived' \subseteq W!Rows /\ recalled' \subseteq W!Rows /\ left' \subseteq Requests
  BY <1>5, <1>6 DEF W!TypeOK, W!Step, W!Arrive, W!TakeKey, W!CheckActive,
       W!CheckCompleted, W!RefuseIf, W!Create, W!Confirm, W!HearAnswer, W!Lock, W!Already,
       W!Complete, W!Cancel, W!UnknownStatus, W!UpdateCrypto, W!CancelFromDashboard,
       W!CancelRow, W!Last, W!Cached, W!AskCashfree, W!WriteStatus, W!Throw, W!Unlocked,
       W!IsAt, W!books, W!history, WithdrawalStep
<1> QED BY <1>1, <1>2, <1>3, <1>4, <1>7, <1>8, <1>9, <1>10, <1>11, <1>12 DEF W!TypeOK,
     RedeemRow

\* Only a new order adds a row, after the last, and rows that are not there yet
\* keep their payout.
LEMMA WithdrawalRows ==
    ASSUME W!TypeOK, FreshInv, NEW r \in Requests, W!Step(r)
    PROVE  /\ DOMAIN redeem \subseteq DOMAIN redeem' /\ DOMAIN redeem' \subseteq W!Rows
           /\ \A i \in DOMAIN redeem' \ DOMAIN redeem : refunds'[i] = 0
           /\ \A i \in W!Rows \ DOMAIN redeem' : outcome'[i] = "unsent" /\ refunds'[i] = 0
           /\ \A i \in W!Rows : outcome[i] = "failed" => outcome'[i] = "failed"
<1>1. DOMAIN redeem = 1 .. Len(redeem) /\ Len(redeem) \in Nat /\ redeem \in Seq(RedeemRow)
      /\ W!Rows = 1 .. RowLimit /\ RowLimit \in Nat /\ Len(redeem) <= RowLimit
  BY MoneyAssumption DEF W!TypeOK, RedeemRow, W!Rows
<1>2. W!Running(r) /\ kind[r] # "putRedeemRequests" => target[r] \in DOMAIN redeem
  BY DEF FreshInv
<1>3. WithdrawalStep(kind[r], at[r])
  BY WithdrawalSteps DEF W!TypeOK
<1>4. CASE W!Create(r) /\ redeem' # redeem
  <2>1. PICK row \in RedeemRow : redeem' = Append(redeem, row)
    BY <1>4 DEF W!Create, RedeemRow
  <2>2. Len(redeem) < RowLimit /\ DOMAIN redeem' = 1 .. (Len(redeem) + 1)
    <3>1. Len(redeem) < RowLimit
      BY <1>4 DEF W!Create
    <3>2. redeem' \in Seq(RedeemRow) /\ Len(redeem') = Len(redeem) + 1
      BY <1>1, <2>1
    <3> QED BY <3>1, <3>2
  <2>3. refunds' = refunds
        /\ \A i \in W!Rows : i # Len(redeem) + 1 => outcome'[i] = outcome[i]
    BY <1>4 DEF W!Create, W!TypeOK
  <2>4. Len(redeem) + 1 \in W!Rows \ DOMAIN redeem
    BY <1>1, <2>2
  <2> QED BY <1>1, <2>2, <2>3, <2>4 DEF FreshInv
<1>5. CASE W!Create(r) => redeem' = redeem
  <2>1. DOMAIN redeem' = DOMAIN redeem
    BY <1>5 DEF W!Step, W!Arrive, W!TakeKey, W!CheckActive, W!CheckCompleted, W!RefuseIf,
         W!Confirm, W!HearAnswer, W!Lock, W!Already, W!Complete, W!Cancel,
         W!UnknownStatus, W!UpdateCrypto, W!CancelFromDashboard, W!CancelRow, W!Set,
         W!Last, W!Cached, W!AskCashfree, W!WriteStatus, W!Throw, W!books
  <2>2. CASE outcome' = outcome /\ refunds' = refunds
    BY <1>1, <2>1, <2>2 DEF FreshInv
  <2>3. CASE W!Confirm(r)
    <3>1. target[r] \in DOMAIN redeem
      BY <1>2, <1>3, <2>3 DEF W!Confirm, W!IsAt, WithdrawalStep
    <3>2. \A i \in W!Rows : i # target[r] => outcome'[i] = outcome[i]
      BY <2>3 DEF W!Confirm, W!TypeOK
    <3>3. outcome[target[r]] = "failed" => outcome' = outcome
      BY <2>3 DEF W!Confirm, W!TypeOK
    <3>4. refunds' = refunds
      BY <2>3 DEF W!Confirm
    <3> QED BY <1>1, <2>1, <3>1, <3>2, <3>3, <3>4 DEF FreshInv
  <2>4. CASE W!CancelFromDashboard(r)
    <3>1. target[r] \in DOMAIN redeem
      BY <1>2, <1>3, <2>4 DEF W!CancelFromDashboard, W!IsAt, WithdrawalStep
    <3> QED BY <1>1, <2>1, <2>4, <3>1 DEF W!CancelFromDashboard, W!CancelRow, FreshInv, W!TypeOK
  <2>5. CASE W!Create(r)
    <3>1. ASSUME NEW row \in RedeemRow PROVE Append(redeem, row) # redeem
      <4>1. Len(Append(redeem, row)) = Len(redeem) + 1
        BY <1>1
      <4>2. \A n \in Nat : n + 1 # n
        OBVIOUS
      <4> QED BY <1>1, <4>1, <4>2, Zenon
    <3>2. outcome' = outcome /\ refunds' = refunds
      BY <1>5, <2>5, <3>1 DEF W!Create, RedeemRow
    <3> QED BY <2>2, <3>2
  <2> QED BY <2>2, <2>3, <2>4, <2>5 DEF W!Step, W!Arrive, W!TakeKey, W!CheckActive,
           W!CheckCompleted, W!RefuseIf, W!HearAnswer, W!Lock, W!Already, W!Complete,
           W!Cancel, W!UnknownStatus, W!UpdateCrypto, W!Last, W!Cached, W!AskCashfree,
           W!WriteStatus, W!Throw, W!books
<1> QED BY <1>4, <1>5

LEMMA FreshStep ==
    ASSUME W!TypeOK, FreshInv, NEW r \in Requests, W!Step(r)
    PROVE  FreshInv'
<1>1. /\ kind' = kind /\ OthersRest(r) /\ (W!Arrive(r) \/ target' = target)
  BY WithdrawalFrame
<1>2. DOMAIN redeem \subseteq DOMAIN redeem'
      /\ \A i \in W!Rows \ DOMAIN redeem' : outcome'[i] = "unsent" /\ refunds'[i] = 0
  BY WithdrawalRows
<1>3. pc'[r] # "idle"
  <2>1. CASE W!Arrive(r)
    BY <2>1 DEF W!Arrive, W!TypeOK
  <2>2. CASE W!Running(r) /\ W!Go(r)
    BY <2>2, WithdrawalGo DEF W!Running
  <2>3. CASE W!End(r)
    BY <2>3 DEF W!End, W!TypeOK
  <2> QED BY <2>1, <2>2, <2>3, WithdrawalMoves
<1>4. ASSUME NEW q \in Requests, pc'[q] = "idle" PROVE at'[q] = 1 /\ said'[q] = None
  BY <1>1, <1>3, <1>4 DEF OthersRest, FreshInv
<1>5. ASSUME NEW q \in Requests, pc'[q] = "run", kind'[q] # "putRedeemRequests"
      PROVE  target'[q] \in DOMAIN redeem'
  <2>1. CASE q # r
    BY <1>1, <1>2, <1>5, <2>1 DEF OthersRest, FreshInv, W!Running
  <2>2. CASE q = r /\ W!Arrive(r)
    BY <1>1, <1>2, <1>5, <2>2 DEF W!Arrive, W!TypeOK
  <2>3. CASE q = r /\ W!Running(r) /\ target' = target
    BY <1>1, <1>2, <1>5, <2>3 DEF FreshInv
  <2> QED BY <1>1, <2>1, <2>2, <2>3, WithdrawalMoves
<1> QED BY <1>2, <1>4, <1>5 DEF FreshInv, W!Running

LEMMA OwnerStep ==
    ASSUME W!TypeOK, FreshInv, OwnerInv, NEW r \in Requests, W!Step(r)
    PROVE  OwnerInv'
<1>1. /\ kind' = kind /\ OthersRest(r) /\ left \subseteq left' /\ W!Steps' = W!Steps
      /\ (W!Arrive(r) \/ target' = target)
  BY WithdrawalFrame DEF W!Steps
<1>2. WithdrawalStep(kind[r], at[r])
  BY WithdrawalSteps DEF W!TypeOK
<1> SUFFICES ASSUME NEW i \in W!Rows, lock'[i] # None
             PROVE  \/ lock'[i] \in left'
                    \/ /\ pc'[lock'[i]] = "run" /\ target'[lock'[i]] = i
                       /\ W!Steps[kind[lock'[i]]][at'[lock'[i]]]
                              \in {"already", "apply", "update"}
  BY <1>1 DEF OwnerInv, W!Running, StepNow
<1>3. lock[i] \in Requests \union {None} /\ r # None
  BY MoneyAssumption DEF W!TypeOK
<1>4. CASE lock'[i] # lock[i]
  <2>1. W!Lock(r) /\ i = target[r] /\ lock'[i] = r
    BY <1>4 DEF W!Step, W!Arrive, W!TakeKey, W!CheckActive, W!CheckCompleted, W!RefuseIf,
         W!Create, W!Confirm, W!HearAnswer, W!Lock, W!Already, W!Complete, W!Cancel,
         W!UnknownStatus, W!UpdateCrypto, W!CancelFromDashboard, W!Last, W!Cached,
         W!AskCashfree, W!WriteStatus, W!Throw, W!Unlocked, W!keys, W!TypeOK
  <2>2. W!Running(r) /\ StepNow(r) = "lock" /\ target' = target
    BY <1>1, <2>1 DEF W!Lock, W!IsAt, StepNow
  <2>3. at[r] # Len(W!Steps[kind[r]])
    BY <1>2, <2>2 DEF WithdrawalStep, StepNow
  <2>4. pc' = pc /\ at'[r] = at[r] + 1
    BY <2>1, <2>3, WithdrawalGo DEF W!Lock
  <2>5. W!Steps[kind[r]][at[r] + 1] \in {"already", "update"}
    BY <1>2, <2>2 DEF WithdrawalStep, StepNow
  <2> QED BY <2>1, <2>2, <2>4, <2>5 DEF W!Running
<1>5. CASE lock'[i] = lock[i] /\ lock[i] \in left
  BY <1>1, <1>5
<1>6. CASE lock'[i] = lock[i] /\ lock[i] \notin left
  <2>1. PICK q \in Requests : q = lock[i]
    BY <1>3, <1>6
  <2>2. W!Running(q) /\ target[q] = i /\ StepNow(q) \in {"already", "apply", "update"}
    BY <1>6, <2>1 DEF OwnerInv
  <2>3. CASE q # r
    BY <1>1, <1>6, <2>1, <2>2, <2>3 DEF OthersRest, W!Running, StepNow
  <2>4. CASE q = r
    <3>1. W!Already(r) \/ W!Complete(r) \/ W!Cancel(r) \/ W!UnknownStatus(r)
          \/ W!UpdateCrypto(r) \/ W!Throw(r)
      BY <2>2, <2>4 DEF W!Step, W!Arrive, W!TakeKey, W!CheckActive, W!CheckCompleted,
           W!Create, W!Confirm, W!HearAnswer, W!Lock, W!CancelFromDashboard, W!Last,
           W!Cached, W!AskCashfree, W!WriteStatus, W!IsAt, W!Running, StepNow
    <3>2. ~W!Unlocked(r)
      BY <1>3, <1>6, <2>1, <2>2, <2>4 DEF W!Unlocked, W!TypeOK
    <3>3. CASE W!Already(r)
      <4>1. W!Go(r) /\ StepNow(r) = "already"
        BY <3>2, <3>3 DEF W!Already, W!IsAt, StepNow
      <4>2. at[r] # Len(W!Steps[kind[r]]) /\ W!Steps[kind[r]][at[r] + 1] = "apply"
        BY <1>2, <4>1 DEF WithdrawalStep, StepNow
      <4>3. pc' = pc /\ at'[r] = at[r] + 1
        BY <4>1, <4>2, WithdrawalGo
      <4>4. target' = target
        BY <3>3 DEF W!Already
      <4> QED BY <1>6, <2>1, <2>2, <2>4, <4>2, <4>3, <4>4 DEF W!Running
    <3>4. CASE W!Cancel(r)
      BY <1>6, <2>1, <2>4, <3>4 DEF W!Cancel
    <3>5. CASE W!Throw(r)
      BY <1>3, <1>6, <2>1, <2>4, <3>5 DEF W!Throw
    <3> QED BY <3>1, <3>2, <3>3, <3>4, <3>5 DEF W!Complete, W!UnknownStatus, W!UpdateCrypto
  <2> QED BY <2>3, <2>4
<1> QED BY <1>4, <1>5, <1>6

LEMMA FailedStep ==
    ASSUME W!TypeOK, FreshInv, FailedInv, NEW r \in Requests, W!Step(r)
    PROVE  FailedInv'
<1>1. /\ OthersRest(r) /\ recalled \subseteq recalled'
      /\ (W!Arrive(r) \/ target' = target)
      /\ (W!HearAnswer(r) \/ W!AskCashfree(r) \/ said' = said)
  BY WithdrawalFrame
<1>2. /\ DOMAIN redeem \subseteq DOMAIN redeem' /\ DOMAIN redeem' \subseteq W!Rows
      /\ \A i \in W!Rows : outcome[i] = "failed" => outcome'[i] = "failed"
  BY WithdrawalRows
<1>3. W!Running(r) /\ kind[r] # "putRedeemRequests" => target[r] \in DOMAIN redeem
  BY DEF FreshInv
<1>4. WithdrawalStep(kind[r], at[r])
  BY WithdrawalSteps DEF W!TypeOK
<1>5. ASSUME NEW q \in Requests, said'[q] = "failed"
      PROVE  target'[q] \in W!Rows /\ outcome'[target'[q]] = "failed"
  <2>1. CASE q # r \/ (said' = said /\ target' = target)
    BY <1>1, <1>2, <1>5, <2>1 DEF OthersRest, FailedInv
  <2>2. CASE q = r /\ W!Arrive(r)
    BY <1>5, <2>2, MoneyAssumption DEF W!Arrive, FreshInv
  <2>3. CASE q = r /\ (W!HearAnswer(r) \/ W!AskCashfree(r))
    <3>1. target[r] \in DOMAIN redeem
      BY <1>3, <1>4, <2>3 DEF W!HearAnswer, W!AskCashfree, W!IsAt, WithdrawalStep
    <3>2. outcome[target[r]] = "failed" /\ target' = target
      BY <1>5, <2>3 DEF W!HearAnswer, W!AskCashfree, W!TypeOK
    <3> QED BY <1>2, <2>3, <3>1, <3>2
  <2> QED BY <1>1, <2>1, <2>2, <2>3
<1>6. ASSUME NEW i \in cancelling' PROVE outcome'[i] = "failed" /\ i \in DOMAIN redeem'
  <2>1. CASE i \in cancelling
    BY <1>2, <2>1 DEF FailedInv, W!TypeOK
  <2>2. CASE i \notin cancelling
    <3>1. (W!Cancel(r) \/ W!UpdateCrypto(r)) /\ i = target[r] /\ said[r] = "failed"
      BY <1>6, <2>2 DEF W!Step, W!Arrive, W!TakeKey, W!CheckActive, W!CheckCompleted,
           W!RefuseIf, W!Create, W!Confirm, W!HearAnswer, W!Lock, W!Already, W!Complete,
           W!Cancel, W!UnknownStatus, W!UpdateCrypto, W!CancelFromDashboard, W!Last,
           W!Cached, W!AskCashfree, W!WriteStatus, W!Throw, W!books
    <3>2. i \in DOMAIN redeem
      BY <1>3, <1>4, <3>1 DEF W!Cancel, W!UpdateCrypto, W!IsAt, WithdrawalStep
    <3> QED BY <1>2, <3>1, <3>2 DEF FailedInv
  <2> QED BY <2>1, <2>2
<1>7. ASSUME NEW i \in W!Rows, refunds'[i] > 0 PROVE i \in recalled' \/ outcome'[i] = "failed"
  <2>1. CASE W!CancelFromDashboard(r) /\ i = target[r]
    BY <2>1 DEF W!CancelFromDashboard
  <2>2. CASE ~(W!CancelFromDashboard(r) /\ i = target[r])
    <3>1. refunds'[i] = refunds[i]
      BY <2>2 DEF W!Step, W!Arrive, W!TakeKey, W!CheckActive, W!CheckCompleted,
           W!RefuseIf, W!Create, W!Confirm, W!HearAnswer, W!Lock, W!Already, W!Complete,
           W!Cancel, W!UnknownStatus, W!UpdateCrypto, W!CancelFromDashboard, W!CancelRow,
           W!Last, W!Cached, W!AskCashfree, W!WriteStatus, W!Throw, W!books, W!TypeOK
    <3> QED BY <1>1, <1>2, <1>7, <3>1 DEF FailedInv
  <2> QED BY <2>1, <2>2
<1> QED BY <1>5, <1>6, <1>7 DEF FailedInv

LEMMA OnceStep ==
    ASSUME W!TypeOK, FreshInv, OnceInv, NEW r \in Requests, W!Step(r)
    PROVE  OnceInv'
<1>1. guarded' = guarded /\ revived \subseteq revived'
  BY WithdrawalFrame
<1>2. WithdrawalStep(kind[r], at[r])
  BY WithdrawalSteps DEF W!TypeOK
<1>3. W!Running(r) /\ kind[r] # "putRedeemRequests" => target[r] \in DOMAIN redeem
  BY DEF FreshInv
<1> SUFFICES ASSUME guarded, NEW i \in DOMAIN redeem', i \notin revived'
             PROVE  refunds'[i] = 0 \/ (refunds'[i] = 1 /\ redeem'[i].status = "CAN")
  BY <1>1 DEF OnceInv
<1>4. CASE i \notin DOMAIN redeem
  BY <1>4, WithdrawalRows
<1>5. CASE i \in DOMAIN redeem
  <2>1. i \in W!Rows /\ i \notin revived
        /\ (refunds[i] = 0 \/ (refunds[i] = 1 /\ redeem[i].status = "CAN"))
    BY <1>1, <1>5, WithdrawalRows DEF OnceInv
  <2>2. CASE refunds' = refunds /\ redeem'[i].status = redeem[i].status
    BY <2>1, <2>2
  <2>3. CASE W!Complete(r) \/ W!UpdateCrypto(r)
    BY <1>5, <2>1, <2>3 DEF W!Complete, W!UpdateCrypto, W!Set
  <2>4. CASE W!CancelFromDashboard(r)
    BY <1>5, <2>1, <2>4 DEF W!CancelFromDashboard, W!CancelRow, W!Set, W!TypeOK
  <2>5. CASE W!WriteStatus(r)
    <3>1. redeem'[i].status = redeem[i].status /\ refunds' = refunds
      BY <1>5, <2>5 DEF W!WriteStatus, W!Set
    <3> QED BY <2>2, <3>1
  <2>6. CASE W!Create(r)
    <3>1. ASSUME NEW row \in RedeemRow PROVE Append(redeem, row)[i] = redeem[i]
      BY <1>5 DEF W!TypeOK, RedeemRow
    <3>2. redeem'[i] = redeem[i] /\ refunds' = refunds
      BY <2>6, <3>1 DEF W!Create, RedeemRow
    <3> QED BY <2>2, <3>2
  <2> QED BY <2>2, <2>3, <2>4, <2>5, <2>6 DEF W!Step, W!Arrive, W!TakeKey, W!CheckActive,
           W!CheckCompleted, W!RefuseIf, W!Confirm, W!HearAnswer, W!Lock, W!Already,
           W!Cancel, W!UnknownStatus, W!Last, W!Cached, W!AskCashfree, W!Throw, W!books
<1> QED BY <1>4, <1>5

\* What the cancellation that a callback has begun does when it comes to its row,
\* what the payout and the gateway do, and the expiries.
LEMMA CancelStartedStep ==
    ASSUME WithdrawalInv, W!CancelStarted
    PROVE  WithdrawalInv'
<1>1. PICK i \in cancelling : W!CancelRow(i) /\ cancelling' = cancelling \ {i}
  BY DEF W!CancelStarted
<1>2. /\ i \in DOMAIN redeem /\ outcome[i] = "failed" /\ i \in W!Rows
  BY <1>1 DEF WithdrawalInv, FailedInv, W!TypeOK
<1>3. /\ UNCHANGED <<kind, pg, guarded, pc, at, target, said, key, lock, cache, outcome>>
      /\ UNCHANGED <<lapsed, revived, recalled, left>>
  BY DEF W!CancelStarted, W!fixed, W!keys, W!history
<1>4. /\ redeem \in Seq(RedeemRow) /\ redeem[i] \in RedeemRow /\ Len(redeem) <= RowLimit
      /\ [status |-> "CAN", pgstatus |-> redeem[i].pgstatus] \in RedeemRow
  <2>1. redeem \in Seq(RedeemRow) /\ Len(redeem) <= RowLimit
    BY DEF WithdrawalInv, W!TypeOK, RedeemRow
  <2>2. redeem[i] \in RedeemRow
    BY <1>2, <2>1
  <2> QED BY <2>1, <2>2 DEF RedeemRow
<1>5. redeem' \in Seq(RedeemRow) /\ Len(redeem') = Len(redeem) /\ DOMAIN redeem' = DOMAIN redeem
  <2>1. CASE redeem' = redeem
    BY <1>4, <2>1
  <2>2. CASE redeem' # redeem
    <3>1. redeem' = [redeem EXCEPT ![i] = [status |-> "CAN", pgstatus |-> redeem[i].pgstatus]]
      BY <1>1, <2>2 DEF W!CancelRow, W!Set
    <3> QED BY <1>2, <1>4, <3>1, RedeemSet DEF WithdrawalInv
  <2> QED BY <2>1, <2>2
<1>6. refunds' \in [W!Rows -> Nat] /\ \A j \in W!Rows : j # i => refunds'[j] = refunds[j]
  BY <1>1, <1>2 DEF W!CancelRow, WithdrawalInv, W!TypeOK
<1>7. W!TypeOK'
  BY <1>1, <1>3, <1>4, <1>5, <1>6 DEF WithdrawalInv, W!TypeOK, RedeemRow
<1>8. FreshInv' /\ OwnerInv' /\ FailedInv'
  <2>1. FreshInv'
    BY <1>2, <1>3, <1>5, <1>6 DEF WithdrawalInv, FreshInv, W!Running
  <2>2. OwnerInv'
    BY <1>3 DEF WithdrawalInv, OwnerInv, W!Running, StepNow, W!Steps
  <2>3. FailedInv'
    BY <1>1, <1>2, <1>3, <1>5, <1>6 DEF WithdrawalInv, FailedInv
  <2> QED BY <2>1, <2>2, <2>3
<1>9. OnceInv'
  <2> SUFFICES ASSUME guarded, NEW j \in DOMAIN redeem, j \notin revived
               PROVE  refunds'[j] = 0 \/ (refunds'[j] = 1 /\ redeem'[j].status = "CAN")
    BY <1>3, <1>5 DEF OnceInv
  <2>1. refunds[j] = 0 \/ (refunds[j] = 1 /\ redeem[j].status = "CAN")
    BY DEF WithdrawalInv, OnceInv
  <2>2. j \in W!Rows
    BY <1>4, MoneyAssumption DEF W!Rows
  <2> QED BY <1>1, <1>2, <2>1, <2>2 DEF W!CancelRow, W!Set, WithdrawalInv, W!TypeOK
<1> QED BY <1>7, <1>8, <1>9 DEF WithdrawalInv

LEMMA SendStep ==
    ASSUME WithdrawalInv, W!Send \/ W!Decide
    PROVE  WithdrawalInv'
<1>1. /\ UNCHANGED <<kind, pg, guarded, pc, at, target, said, key, lock, cache, cancelling>>
      /\ UNCHANGED <<refunds, lapsed, revived, recalled, left>>
  BY DEF W!Send, W!Decide, W!fixed, W!keys, W!history
<1>2. /\ outcome' \in [W!Rows -> W!Answers \union {"unsent", "unconfirmed"}]
      /\ \A i \in W!Rows : outcome[i] = "failed" => outcome'[i] = "failed"
      /\ \A i \in W!Rows \ DOMAIN redeem : outcome'[i] = outcome[i]
  <2>1. CASE W!Send
    BY <2>1 DEF W!Send, WithdrawalInv, W!TypeOK, W!Answers
  <2>2. CASE W!Decide
    BY <2>2 DEF W!Decide, WithdrawalInv, FreshInv, W!TypeOK, W!Answers
  <2> QED BY <2>1, <2>2
<1>3. /\ redeem' \in Seq(RedeemRow) /\ Len(redeem') = Len(redeem)
      /\ DOMAIN redeem' = DOMAIN redeem
      /\ \A i \in DOMAIN redeem : redeem[i].status = "CAN" => redeem'[i] = redeem[i]
  <2>1. redeem \in Seq(RedeemRow)
    BY DEF WithdrawalInv, W!TypeOK, RedeemRow
  <2>2. CASE W!Decide
    BY <2>1, <2>2 DEF W!Decide
  <2>3. CASE W!Send
    <3>1. PICK i \in DOMAIN redeem :
             redeem[i].status = "A" /\ redeem' = W!Set(i, "C", redeem[i].pgstatus)
      BY <2>3 DEF W!Send
    <3>2. redeem[i] \in RedeemRow
      BY <2>1, <3>1
    <3>3. [status |-> "C", pgstatus |-> redeem[i].pgstatus] \in RedeemRow
      BY <3>2 DEF RedeemRow
    <3> QED BY <3>1, <3>3, RedeemSet DEF WithdrawalInv, W!Set
  <2> QED BY <2>2, <2>3
<1>4. Len(redeem) <= RowLimit
  BY DEF WithdrawalInv, W!TypeOK
<1>5. W!TypeOK'
  BY <1>1, <1>2, <1>3, <1>4 DEF WithdrawalInv, W!TypeOK, RedeemRow
<1> QED BY <1>1, <1>2, <1>3, <1>5 DEF WithdrawalInv, W!TypeOK, FreshInv, OwnerInv, FailedInv,
         OnceInv, W!Running, StepNow, W!Steps

LEMMA ExpireStep ==
    ASSUME WithdrawalInv, W!KeyExpire \/ W!LockExpire \/ W!CacheExpire
    PROVE  WithdrawalInv'
<1>1. /\ UNCHANGED <<kind, pg, guarded, pc, at, target, said, redeem, cancelling, outcome>>
      /\ UNCHANGED <<refunds, revived, recalled, left>>
      /\ key' \in Requests \union {None} /\ lapsed' \in BOOLEAN
      /\ lock' \in [W!Rows -> Requests \union {None}]
      /\ cache' \in [W!Rows -> W!Answers \union {None}]
      /\ \A i \in W!Rows : lock'[i] # None => lock'[i] = lock[i]
  BY DEF W!KeyExpire, W!LockExpire, W!CacheExpire, W!fixed, W!books, W!history,
       WithdrawalInv, W!TypeOK
<1> QED BY <1>1 DEF WithdrawalInv, W!TypeOK, FreshInv, OwnerInv, FailedInv, OnceInv,
         W!Running, StepNow, W!Steps

LEMMA WithdrawalInvariant ==
    /\ W!Init => WithdrawalInv
    /\ WithdrawalInv /\ [W!Next]_(W!vars) => WithdrawalInv'
<1>1. W!Init => WithdrawalInv
  <2> SUFFICES ASSUME W!Init PROVE WithdrawalInv
    OBVIOUS
  <2>1. W!TypeOK
    <3>1. kind \in [Requests -> DOMAIN W!Steps] /\ pg \in DOMAIN W!CallbackOf
          /\ guarded \in BOOLEAN
      BY DEF W!Init, W!CallbackOf, W!Steps
    <3>2. \A r \in Requests : at[r] \in DOMAIN W!Steps[kind[r]]
      BY <3>1 DEF W!Init, W!Steps
    <3>3. redeem \in Seq(RedeemRow) /\ Len(redeem) <= RowLimit
      BY MoneyAssumption DEF W!Init
    <3>4. /\ pc \in [Requests -> {"idle", "run", "done"}] /\ at \in [Requests -> Nat]
          /\ target \in [Requests -> W!Rows \union {None}]
          /\ said \in [Requests -> W!Answers \union {None}]
      BY DEF W!Init
    <3>5. /\ key \in Requests \union {None} /\ lock \in [W!Rows -> Requests \union {None}]
          /\ cache \in [W!Rows -> W!Answers \union {None}]
          /\ cancelling \subseteq W!Rows /\ refunds \in [W!Rows -> Nat]
          /\ outcome \in [W!Rows -> W!Answers \union {"unsent", "unconfirmed"}]
          /\ lapsed \in BOOLEAN /\ revived \subseteq W!Rows /\ recalled \subseteq W!Rows
          /\ left \subseteq Requests
      BY DEF W!Init
    <3> QED BY <3>1, <3>2, <3>3, <3>4, <3>5 DEF W!TypeOK, RedeemRow
  <2>2. FreshInv /\ OwnerInv /\ FailedInv /\ OnceInv
    BY MoneyAssumption DEF W!Init, FreshInv, OwnerInv, FailedInv, OnceInv, W!Running
  <2> QED BY <2>1, <2>2 DEF WithdrawalInv
<1>2. WithdrawalInv /\ [W!Next]_(W!vars) => WithdrawalInv'
  <2> SUFFICES ASSUME WithdrawalInv, [W!Next]_(W!vars) PROVE WithdrawalInv'
    OBVIOUS
  <2>1. CASE UNCHANGED W!vars
    <3>1. /\ UNCHANGED <<kind, pg, guarded, pc, at, target, said, redeem, cancelling>>
          /\ UNCHANGED <<key, lock, cache, outcome, refunds, lapsed, revived, recalled, left>>
      BY <2>1 DEF W!vars, W!fixed, W!keys, W!books, W!history
    <3> QED BY <3>1 DEF WithdrawalInv, W!TypeOK, FreshInv, OwnerInv, FailedInv, OnceInv,
             W!Running, StepNow, W!Steps
  <2>2. ASSUME NEW r \in Requests, W!Step(r) PROVE WithdrawalInv'
    BY <2>2, WithdrawalTypeStep, FreshStep, OwnerStep, FailedStep, OnceStep DEF
         WithdrawalInv
  <2>3. CASE W!CancelStarted \/ W!KeyExpire \/ W!LockExpire \/ W!CacheExpire \/ W!Send
             \/ W!Decide
    BY <2>3, CancelStartedStep, SendStep, ExpireStep
  <2> QED BY <2>1, <2>2, <2>3 DEF W!Next
<1> QED BY <1>1, <1>2

LEMMA WithdrawalIsPart ==
    /\ Init => (part = "withdrawal" => WithdrawalInv)
    /\ (part = "withdrawal" => WithdrawalInv) /\ [Next]_vars => (part = "withdrawal" => WithdrawalInv)'
<1>1. Init => (part = "withdrawal" => WithdrawalInv)
  BY WithdrawalInvariant, OneOfThem
<1>2. ASSUME part = "withdrawal" => WithdrawalInv, [Next]_vars, part' = "withdrawal" PROVE WithdrawalInv'
  <2>1. part = "withdrawal" /\ [W!Next]_(W!vars)
    BY <1>2, OneOfThem
  <2> QED BY <1>2, <2>1, WithdrawalInvariant
<1> QED BY <1>1, <1>2

\* Every variable of the withdrawals keeps its type.
THEOREM WithdrawalTyped == W!Spec => []W!TypeOK
<1>1. WithdrawalInv => W!TypeOK
  BY DEF WithdrawalInv
<1> QED BY <1>1, WithdrawalInvariant, PTL DEF W!Spec

\* However late, often and mixed the callbacks, the cancellations and the polls come,
\* only the dashboard refunds a withdrawal that the gateway has paid; and where
\* cancelRedeemRequest passes over cancelled rows, a row is refunded once, unless a
\* callback has completed it after its cancellation.
THEOREM RefundedWhenDueHolds ==
    (W!Spec => []W!RefundedWhenDue) /\ (Spec => []RefundedWhenDue)
<1>1. ASSUME WithdrawalInv PROVE W!RefundedWhenDue
  <2>1. DOMAIN redeem \subseteq W!Rows
    BY <1>1, MoneyAssumption DEF WithdrawalInv, W!TypeOK, W!Rows
  <2>2. W!PaidNotRefunded
    BY <1>1, <2>1 DEF WithdrawalInv, FailedInv, W!PaidNotRefunded
  <2>3. W!RefundedOnce
    <3> SUFFICES ASSUME guarded, NEW i \in DOMAIN redeem, i \notin revived
                 PROVE  ~(refunds[i] > 1)
      BY DEF W!RefundedOnce
    <3>1. refunds[i] = 0 \/ refunds[i] = 1
      BY <1>1 DEF WithdrawalInv, OnceInv
    <3> QED BY <3>1
  <2> QED BY <2>2, <2>3 DEF W!RefundedWhenDue
<1>2. (part = "withdrawal" => WithdrawalInv) => RefundedWhenDue
  BY <1>1 DEF RefundedWhenDue
<1> QED BY <1>1, <1>2, WithdrawalInvariant, WithdrawalIsPart, PTL DEF W!Spec, Spec

\* A lock on a withdrawal that outlives its request was left by a cancellation or a
\* failure: every other way out of a callback releases it.
THEOREM LockReleasedHolds ==
    (W!Spec => []W!LockIsReleased) /\ (Spec => []LockIsReleased)
<1>1. WithdrawalInv => W!LockIsReleased
  BY DEF WithdrawalInv, OwnerInv, W!LockIsReleased
<1>2. (part = "withdrawal" => WithdrawalInv) => LockIsReleased
  BY <1>1 DEF LockIsReleased
<1> QED BY <1>1, <1>2, WithdrawalInvariant, WithdrawalIsPart, PTL DEF W!Spec, Spec

-------------------------------------------------------------------------------
(* CANCELLATION.  A trade is refunded after its calls are marked, so that a   *)
(* repeated run does not find them, and a crash loses the refund of the user *)
(* it treats; the later phases go through their whole list.                  *)

TradeKinds == {"open", "matched"}

\* One user at a time is treated, in the first phase only.
StepInv ==
    /\ status = "CAN" => phase = 0
    /\ phase # 1 => step = "next"
    /\ step = "next" => treated = {} /\ read = {}
    /\ step # "next" => \E u \in todo : treated = {u}

\* What the query of the trade phase returns, or has returned, is not refunded yet,
\* and what has been refunded is not returned, but for the marks that failed.
MarksInv ==
    \A u \in People :
        /\ paid["open"][u] \in {0, 1}
        /\ u \in rows["open"] \/ (u \in treated /\ "open" \in read) => paid["open"][u] = 0
        /\ u \notin unmarked =>
               /\ paid["matched"][u] \in {0, 1}
               /\ u \in rows["matched"] \/ (u \in treated /\ "matched" \in read) =>
                      paid["matched"][u] = 0
        /\ u \in treated =>
               /\ \A k \in TradeKinds : u \in rows[k] => k \in read
               /\ step \in {"deleted", "marked"} => u \notin rows["open"]
               /\ step = "marked" => u \notin rows["matched"] \/ u \in unmarked

\* Users whose trades are neither refunded nor found any more.
Lost ==
    {u \in People : \E k \in TradeKinds :
        u \in Debts[k] /\ paid[k][u] = 0 /\ u \notin rows[k] /\ ~(u \in treated /\ k \in read)}

LostInv == IsFiniteSet(Lost) /\ Cardinality(Lost) <= crashes[1]

AllPaid(k) == \A u \in Debts[k] : paid[k][u] > 0

\* The trade phase leaves no user behind whom its query returns.
TradesInv ==
    \A k \in TradeKinds : \A u \in rows[k] :
        phase > 1 \/ status = "CAN" \/ (phase = 1 /\ u \notin todo) => paid[k][u] > 0

\* A later phase that is over has paid its list, whichever run it was in.
ListsInv ==
    \A i \in 2 .. 6 :
        /\ phase > i \/ status = "CAN" => AllPaid(C!Phases[i])
        /\ phase = i => \A u \in Debts[C!Phases[i]] \ todo : paid[C!Phases[i]][u] > 0
        /\ rows[C!Phases[i]] = Debts[C!Phases[i]] \/ AllPaid(C!Phases[i])

CancelInv == C!TypeOK /\ StepInv /\ MarksInv /\ LostInv /\ TradesInv /\ ListsInv

LEMMA CancelFacts ==
    /\ Len(C!Phases) = 6 /\ DOMAIN C!Phases = 1 .. 6 /\ C!Final = 7
    /\ C!Phases[1] = "trade" /\ C!Phases[2] = "liquidity" /\ C!Phases[3] = "provider"
    /\ C!Phases[4] = "referral" /\ C!Phases[5] = "eventReferral" /\ C!Phases[6] = "tds"
    /\ C!Kinds = {"open", "matched", "liquidity", "provider", "referral",
                  "eventReferral", "tds"}
    /\ \A i \in 2 .. 6 : C!Phases[i] \in C!Kinds \ TradeKinds
    /\ \A i \in 2 .. 6, j \in 2 .. 6 : C!Phases[i] = C!Phases[j] => i = j
<1>1. /\ Len(C!Phases) = 6 /\ DOMAIN C!Phases = 1 .. 6
      /\ C!Phases[1] = "trade" /\ C!Phases[2] = "liquidity" /\ C!Phases[3] = "provider"
      /\ C!Phases[4] = "referral" /\ C!Phases[5] = "eventReferral" /\ C!Phases[6] = "tds"
  BY DEF C!Phases
<1>2. C!Final = 7
  BY <1>1 DEF C!Final
<1>3. 2 .. 6 = {2, 3, 4, 5, 6}
  OBVIOUS
<1>4. C!Kinds = {"open", "matched"} \union {C!Phases[i] : i \in {2, 3, 4, 5, 6}}
  BY <1>1, <1>3 DEF C!Kinds
<1>5. C!Kinds = {"open", "matched", "liquidity", "provider", "referral",
                 "eventReferral", "tds"}
  BY <1>1, <1>4
<1>6. \A i \in 2 .. 6 : C!Phases[i] \in C!Kinds \ TradeKinds
  BY <1>1, <1>3, <1>5 DEF TradeKinds
<1>7. \A i \in 2 .. 6, j \in 2 .. 6 : C!Phases[i] = C!Phases[j] => i = j
  BY <1>1, <1>3
<1> QED BY <1>1, <1>2, <1>5, <1>6, <1>7

LEMMA DebtsTyped == Debts \in [C!Kinds -> SUBSET People] /\ Cancellations \in Nat
BY CancelFacts, CancelAssumption

\* The lists that a run enters are of its users.
LEMMA ListTyped ==
    ASSUME C!TypeOK, NEW i \in 1 .. 7
    PROVE  C!ListOf(i) \subseteq People
<1>1. rows \in [C!Kinds -> SUBSET People]
  BY DEF C!TypeOK
<1>2. CASE i = 1
  BY <1>1, <1>2, CancelFacts DEF C!ListOf
<1>3. CASE i = 7
  BY <1>3, CancelFacts DEF C!ListOf
<1>4. CASE i \in 2 .. 6
  BY <1>1, <1>4, CancelFacts DEF C!ListOf
<1> QED BY <1>2, <1>3, <1>4

LEMMA CancelTypeStep ==
    ASSUME C!TypeOK, C!Next
    PROVE  C!TypeOK'
<1>1. CASE C!StartCancel
  <2>1. C!ListOf(1) \subseteq People /\ runs + 1 \in 0 .. Cancellations
    BY <1>1, ListTyped, DebtsTyped DEF C!StartCancel, C!TypeOK
  <2> QED BY <1>1, <2>1, CancelFacts DEF C!StartCancel, C!Enter, C!TypeOK
<1>2. CASE C!DeleteOpenCalls
  BY <1>2, CancelFacts DEF C!DeleteOpenCalls, C!TypeOK
<1>3. CASE C!MarkMatchedCalls
  <2>1. rows' \in [C!Kinds -> SUBSET People] /\ unmarked' \subseteq People
    BY <1>3, CancelFacts DEF C!MarkMatchedCalls, C!TypeOK
  <2> QED BY <1>3, <2>1 DEF C!MarkMatchedCalls, C!TypeOK
<1>4. CASE C!RefundTrades
  <2>1. paid' \in [C!Kinds -> [People -> Nat]]
    <3>1. \A k \in C!Kinds : paid[k] \in [People -> Nat]
      BY DEF C!TypeOK
    <3>2. ASSUME NEW k \in C!Kinds, NEW u \in People
          PROVE  paid[k][u] + (IF u \in treated /\ k \in read THEN 1 ELSE 0) \in Nat
      <4>1. paid[k][u] \in Nat
        BY <3>1
      <4> QED BY <4>1
    <3> QED BY <1>4, <3>2 DEF C!RefundTrades
  <2>2. todo' \subseteq People /\ treated' \subseteq People /\ read' \subseteq {"open", "matched"}
        /\ step' \in {"next", "read", "deleted", "marked"}
    BY <1>4 DEF C!RefundTrades, C!TypeOK
  <2> QED BY <1>4, <2>1, <2>2 DEF C!RefundTrades, C!TypeOK
<1>5. CASE C!EndPhase
  <2>1. phase \in 1 .. 6 /\ phase + 1 \in 1 .. 7 /\ phase + 1 \in 0 .. C!Final
    BY <1>5, CancelFacts DEF C!EndPhase
  <2>2. rows' \in [C!Kinds -> SUBSET People]
    BY <1>5 DEF C!EndPhase, C!TypeOK
  <2>3. todo' \subseteq People /\ phase' = phase + 1
    BY <1>5, <2>1, ListTyped DEF C!EndPhase, C!Enter
  <2> QED BY <1>5, <2>1, <2>2, <2>3 DEF C!EndPhase, C!TypeOK
<1>6. CASE C!FinishCancel
  BY <1>6, CancelFacts DEF C!FinishCancel, C!TypeOK
<1>7. CASE C!Crash
  <2>1. crashes[phase] + 1 \in Nat
    BY <1>7, CancelFacts DEF C!Crash, C!TypeOK
  <2>2. crashes' \in [1 .. C!Final -> Nat]
    BY <1>7, <2>1 DEF C!Crash, C!TypeOK
  <2> QED BY <1>7, <2>2, CancelFacts DEF C!Crash, C!TypeOK
<1>8. ASSUME NEW u \in People, C!ReadCalls(u) PROVE C!TypeOK'
  BY <1>8 DEF C!ReadCalls, C!TypeOK
<1>9. ASSUME NEW u \in People, C!ExecuteOperation(u) PROVE C!TypeOK'
  <2>1. phase \in 2 .. 6 /\ C!Phases[phase] \in C!Kinds
    BY <1>9, CancelFacts DEF C!ExecuteOperation
  <2>2. paid[C!Phases[phase]] \in [People -> Nat] /\ paid[C!Phases[phase]][u] + 1 \in Nat
    BY <2>1 DEF C!TypeOK
  <2>3. paid' \in [C!Kinds -> [People -> Nat]]
    BY <1>9, <2>1, <2>2 DEF C!ExecuteOperation, C!TypeOK
  <2> QED BY <1>9, <2>3 DEF C!ExecuteOperation, C!TypeOK
<1> QED BY <1>1, <1>2, <1>3, <1>4, <1>5, <1>6, <1>7, <1>8, <1>9 DEF C!Next

LEMMA StepInvStep ==
    ASSUME C!TypeOK, StepInv, C!Next
    PROVE  StepInv'
<1>1. ASSUME C!StartCancel \/ C!DeleteOpenCalls \/ C!MarkMatchedCalls \/ C!RefundTrades
             \/ C!Crash
      PROVE  StepInv'
  BY <1>1, CancelFacts DEF C!StartCancel, C!DeleteOpenCalls, C!MarkMatchedCalls,
       C!RefundTrades, C!Crash, C!Enter, C!TypeOK, StepInv
<1>2. CASE C!EndPhase
  <2>1. phase \in 1 .. 6 /\ phase' = phase + 1 /\ todo = {} /\ UNCHANGED <<status, step, treated, read>>
    BY <1>2, CancelFacts DEF C!EndPhase, C!Enter
  <2> QED BY <2>1 DEF StepInv
<1>3. CASE C!FinishCancel
  BY <1>3, CancelFacts DEF C!FinishCancel, StepInv
<1>4. ASSUME NEW u \in People, C!ReadCalls(u) PROVE StepInv'
  BY <1>4 DEF C!ReadCalls, StepInv
<1>5. ASSUME NEW u \in People, C!ExecuteOperation(u) PROVE StepInv'
  <2>1. phase \in 2 .. 6 /\ UNCHANGED <<status, phase, step, treated, read>>
    BY <1>5, CancelFacts DEF C!ExecuteOperation
  <2> QED BY <2>1 DEF StepInv
<1> QED BY <1>1, <1>2, <1>3, <1>4, <1>5 DEF C!Next

\* Only the trade phase touches what is paid for trades and the rows of them.
LEMMA TradesRest ==
    ASSUME C!TypeOK, C!EndPhase \/ \E u \in People : C!ExecuteOperation(u)
    PROVE  /\ \A k \in TradeKinds : paid'[k] = paid[k] /\ rows'[k] = rows[k]
           /\ UNCHANGED <<status, step, treated, read, crashes, unmarked>>
<1>1. CASE C!EndPhase
  BY <1>1, CancelFacts DEF C!EndPhase, C!TypeOK, TradeKinds
<1>2. ASSUME NEW u \in People, C!ExecuteOperation(u)
      PROVE  /\ \A k \in TradeKinds : paid'[k] = paid[k] /\ rows'[k] = rows[k]
             /\ UNCHANGED <<status, step, treated, read, crashes, unmarked>>
  <2>1. C!Phases[phase] \notin TradeKinds
    BY <1>2, CancelFacts DEF C!ExecuteOperation
  <2> QED BY <1>2, <2>1, CancelFacts DEF C!ExecuteOperation, C!TypeOK, TradeKinds
<1> QED BY <1>1, <1>2

LEMMA MarksStep ==
    ASSUME C!TypeOK, StepInv, MarksInv, C!Next
    PROVE  MarksInv'
<1> USE DEF TradeKinds
<1>0. /\ rows \in [C!Kinds -> SUBSET People] /\ paid \in [C!Kinds -> [People -> Nat]]
      /\ "open" \in C!Kinds /\ "matched" \in C!Kinds
  BY CancelFacts DEF C!TypeOK
<1>1. CASE C!StartCancel \/ C!FinishCancel
  BY <1>1 DEF C!StartCancel, C!FinishCancel, MarksInv
<1>2. CASE C!Crash
  BY <1>2 DEF C!Crash, MarksInv
<1>3. CASE C!DeleteOpenCalls
  BY <1>0, <1>3 DEF C!DeleteOpenCalls, MarksInv
<1>4. CASE C!MarkMatchedCalls
  BY <1>0, <1>4 DEF C!MarkMatchedCalls, MarksInv
<1>5. CASE C!RefundTrades
  <2> SUFFICES ASSUME NEW u \in People PROVE MarksInv!(u)'
    BY DEF MarksInv
  <2>1. \A k \in TradeKinds :
           paid'[k][u] = paid[k][u] + (IF u \in treated /\ k \in read THEN 1 ELSE 0)
    BY <1>0, <1>5 DEF C!RefundTrades
  <2>2. MarksInv!(u) /\ step = "marked" /\ rows' = rows /\ unmarked' = unmarked
        /\ treated' = {}
    BY <1>5 DEF MarksInv, C!RefundTrades
  <2>3. paid["open"][u] \in Nat /\ paid["matched"][u] \in Nat
    BY <1>0
  <2> QED BY <2>1, <2>2, <2>3, SMTT(30)
<1>6. CASE C!EndPhase \/ \E u \in People : C!ExecuteOperation(u)
  BY <1>6, TradesRest DEF MarksInv
<1>7. ASSUME NEW u \in People, C!ReadCalls(u) PROVE MarksInv'
  BY <1>0, <1>7 DEF C!ReadCalls, MarksInv
<1> QED BY <1>1, <1>2, <1>3, <1>4, <1>5, <1>6, <1>7 DEF C!Next

\* A step that crashes nothing loses nobody; a crash loses the user it treats.
LEMMA LostStep ==
    ASSUME C!TypeOK, StepInv, MarksInv, LostInv, C!Next
    PROVE  LostInv'
<1> USE DEF TradeKinds
<1>0. /\ rows \in [C!Kinds -> SUBSET People] /\ paid \in [C!Kinds -> [People -> Nat]]
      /\ "open" \in C!Kinds /\ "matched" \in C!Kinds
  BY CancelFacts DEF C!TypeOK
<1>1. ASSUME Lost' \subseteq Lost, crashes'[1] >= crashes[1] PROVE LostInv'
  <2>1. IsFiniteSet(Lost) /\ Cardinality(Lost) <= crashes[1] /\ 1 \in 1 .. C!Final
        /\ crashes[1] \in Nat
    BY CancelFacts DEF LostInv, C!TypeOK
  <2>2. IsFiniteSet(Lost') /\ Cardinality(Lost') <= Cardinality(Lost)
    BY <1>1, <2>1, FS_Subset
  <2>3. Cardinality(Lost') \in Nat /\ Cardinality(Lost) \in Nat
    BY <2>1, <2>2, FS_CardinalityType
  <2>4. crashes'[1] \in Nat
    BY CancelTypeStep, CancelFacts DEF C!TypeOK
  <2> QED BY <1>1, <2>1, <2>2, <2>3, <2>4 DEF LostInv
<1>2. CASE C!StartCancel \/ C!FinishCancel
  <2>1. Lost' = Lost /\ crashes' = crashes
    BY <1>2 DEF C!StartCancel, C!FinishCancel, Lost
  <2> QED BY <1>1, <2>1, CancelFacts DEF C!TypeOK
<1>3. CASE C!Crash
  <2>1. crashes \in [1 .. 7 -> Nat] /\ phase \in 1 .. 7
    BY <1>3, CancelFacts DEF C!Crash, C!TypeOK
  <2>2. Lost' \subseteq Lost \union treated
    BY <1>3 DEF C!Crash, Lost
  <2>3. CASE treated = {}
    <3>1. crashes'[1] >= crashes[1]
      BY <1>3, <2>1 DEF C!Crash
    <3> QED BY <1>1, <2>2, <2>3, <3>1
  <2>4. CASE treated # {}
    <3>1. phase = 1
      BY <2>4 DEF StepInv
    <3>2. PICK u : treated = {u}
      BY <2>4 DEF StepInv
    <3>3. crashes'[1] = crashes[1] + 1
      BY <1>3, <2>1, <3>1 DEF C!Crash
    <3>4. IsFiniteSet(Lost) /\ Cardinality(Lost) <= crashes[1]
      BY DEF LostInv
    <3>5. /\ IsFiniteSet(Lost \union {u})
          /\ Cardinality(Lost \union {u}) <= Cardinality(Lost) + 1
      <4>1. Cardinality(Lost) \in Nat
        BY <3>4, FS_CardinalityType
      <4>2. /\ IsFiniteSet(Lost \union {u})
            /\ Cardinality(Lost \union {u}) \in {Cardinality(Lost), Cardinality(Lost) + 1}
        BY <3>4, FS_AddElement
      <4> QED BY <4>1, <4>2
    <3>6. IsFiniteSet(Lost') /\ Cardinality(Lost') <= Cardinality(Lost \union {u})
      BY <2>2, <3>2, <3>5, FS_Subset
    <3>7. Cardinality(Lost') \in Nat /\ Cardinality(Lost \union {u}) \in Nat
          /\ Cardinality(Lost) \in Nat /\ crashes[1] \in Nat
      BY <2>1, <3>4, <3>5, <3>6, FS_CardinalityType
    <3> QED BY <3>3, <3>4, <3>5, <3>6, <3>7 DEF LostInv
  <2> QED BY <2>3, <2>4
<1>4. CASE C!DeleteOpenCalls \/ C!MarkMatchedCalls
  <2>1. /\ \A k \in TradeKinds : rows[k] \subseteq rows'[k] \union treated
        /\ UNCHANGED <<paid, treated, read, crashes>>
    BY <1>0, <1>4 DEF C!DeleteOpenCalls, C!MarkMatchedCalls
  <2>2. \A u \in treated : \A k \in TradeKinds : u \in rows[k] => k \in read
    BY DEF MarksInv, C!TypeOK
  <2>3. Lost' \subseteq Lost
    BY <2>1, <2>2 DEF Lost
  <2> QED BY <1>1, <2>1, <2>3, CancelFacts DEF C!TypeOK
<1>5. CASE C!RefundTrades
  <2>1. /\ \A k \in TradeKinds, u \in People :
               paid'[k][u] = paid[k][u] + (IF u \in treated /\ k \in read THEN 1 ELSE 0)
        /\ \A k \in TradeKinds, u \in People : paid[k][u] \in Nat
        /\ rows' = rows /\ crashes' = crashes
    BY <1>0, <1>5 DEF C!RefundTrades
  <2>2. Lost' \subseteq Lost
    BY <2>1 DEF Lost
  <2> QED BY <1>1, <2>1, <2>2, CancelFacts DEF C!TypeOK
<1>6. CASE C!EndPhase \/ \E u \in People : C!ExecuteOperation(u)
  <2>1. Lost' = Lost /\ crashes' = crashes
    BY <1>6, TradesRest DEF Lost
  <2> QED BY <1>1, <2>1, CancelFacts DEF C!TypeOK
<1>7. ASSUME NEW u \in People, C!ReadCalls(u) PROVE LostInv'
  <2>1. treated = {} /\ treated' = {u} /\ read' = {k \in TradeKinds : u \in rows[k]}
        /\ UNCHANGED <<paid, rows, crashes>>
    BY <1>7 DEF C!ReadCalls, StepInv
  <2>2. Lost' \subseteq Lost
    BY <2>1 DEF Lost
  <2> QED BY <1>1, <2>1, <2>2, CancelFacts DEF C!TypeOK
<1> QED BY <1>2, <1>3, <1>4, <1>5, <1>6, <1>7 DEF C!Next

LEMMA TradesStep ==
    ASSUME C!TypeOK, StepInv, MarksInv, TradesInv, C!Next
    PROVE  TradesInv'
<1> USE DEF TradeKinds
<1>0. /\ rows \in [C!Kinds -> SUBSET People] /\ paid \in [C!Kinds -> [People -> Nat]]
      /\ "open" \in C!Kinds /\ "matched" \in C!Kinds /\ phase \in 0 .. 7
  BY CancelFacts DEF C!TypeOK
<1>1. CASE C!StartCancel
  <2>1. todo' = rows["open"] \union rows["matched"] /\ phase' = 1 /\ rows' = rows
        /\ status' = status /\ status # "CAN"
    BY <1>1 DEF C!StartCancel, C!Enter, C!ListOf
  <2> QED BY <2>1 DEF TradesInv
<1>2. CASE C!FinishCancel \/ C!Crash
  BY <1>2, <1>0, CancelFacts DEF C!FinishCancel, C!Crash, TradesInv
<1>3. CASE C!DeleteOpenCalls \/ C!MarkMatchedCalls
  <2>1. /\ \A k \in TradeKinds : rows'[k] \subseteq rows[k]
        /\ UNCHANGED <<paid, status, phase, todo>>
    BY <1>0, <1>3 DEF C!DeleteOpenCalls, C!MarkMatchedCalls
  <2> QED BY <2>1 DEF TradesInv
<1>4. CASE C!RefundTrades
  <2>1. /\ \A k \in TradeKinds, u \in People :
               paid'[k][u] = paid[k][u] + (IF u \in treated /\ k \in read THEN 1 ELSE 0)
        /\ \A k \in TradeKinds, u \in People : paid[k][u] \in Nat
        /\ UNCHANGED <<rows, status, phase>> /\ todo' = todo \ treated
    BY <1>0, <1>4 DEF C!RefundTrades
  <2>2. \A u \in treated : \A k \in TradeKinds : u \in rows[k] => k \in read
    BY DEF MarksInv, C!TypeOK
  <2> SUFFICES ASSUME NEW k \in TradeKinds, NEW u \in rows[k],
                      phase > 1 \/ status = "CAN" \/ (phase = 1 /\ u \notin todo')
               PROVE  paid'[k][u] > 0
    BY <2>1 DEF TradesInv
  <2>3. u \in People
    BY <1>0
  <2>4. CASE u \in treated
    BY <2>1, <2>2, <2>3, <2>4
  <2>5. CASE u \notin treated
    BY <2>1, <2>3, <2>5 DEF TradesInv
  <2> QED BY <2>4, <2>5
<1>5. CASE C!EndPhase
  <2>1. \A k \in TradeKinds : paid'[k] = paid[k] /\ rows'[k] = rows[k]
    BY <1>5, TradesRest
  <2>2. todo = {} /\ phase \in 1 .. 6 /\ phase' = phase + 1 /\ status' = status
    BY <1>5, CancelFacts DEF C!EndPhase, C!Enter
  <2>3. \A k \in TradeKinds : \A u \in rows[k] : paid[k][u] > 0
    BY <2>2 DEF TradesInv
  <2> QED BY <2>1, <2>3 DEF TradesInv
<1>6. ASSUME NEW u \in People, C!ExecuteOperation(u) PROVE TradesInv'
  <2>1. \A k \in TradeKinds : paid'[k] = paid[k] /\ rows'[k] = rows[k]
    BY <1>6, TradesRest
  <2>2. phase \in 2 .. 6 /\ phase' = phase
    BY <1>6, CancelFacts DEF C!ExecuteOperation
  <2> QED BY <2>1, <2>2 DEF TradesInv
<1>7. ASSUME NEW u \in People, C!ReadCalls(u) PROVE TradesInv'
  BY <1>7 DEF C!ReadCalls, TradesInv
<1> QED BY <1>1, <1>2, <1>3, <1>4, <1>5, <1>6, <1>7 DEF C!Next

\* What the lists of the later phases are owed stays paid once it is paid.
LEMMA ListsRest ==
    ASSUME C!TypeOK, ListsInv,
           \A i \in 2 .. 6 : paid'[C!Phases[i]] = paid[C!Phases[i]]
                             /\ rows'[C!Phases[i]] = rows[C!Phases[i]],
           \A i \in 2 .. 6 : (phase' > i \/ status' = "CAN") => (phase > i \/ status = "CAN"),
           \A i \in 2 .. 6 : phase' = i => phase = i /\ todo' = todo
    PROVE  ListsInv'
BY DEF ListsInv, AllPaid, C!Phases

LEMMA ListsStep ==
    ASSUME C!TypeOK, StepInv, ListsInv, C!Next
    PROVE  ListsInv'
<1>0. /\ rows \in [C!Kinds -> SUBSET People] /\ paid \in [C!Kinds -> [People -> Nat]]
      /\ phase \in 0 .. 7 /\ C!Phases' = C!Phases
      /\ \A i \in 2 .. 6 : C!Phases[i] \in C!Kinds \ TradeKinds
      /\ \A i \in 2 .. 6, j \in 2 .. 6 : C!Phases[i] = C!Phases[j] => i = j
  BY CancelFacts DEF C!TypeOK, C!Phases
<1>1. CASE C!StartCancel
  BY <1>1, ListsRest DEF C!StartCancel, C!Enter
<1>2. CASE C!Crash
  BY <1>2, ListsRest DEF C!Crash
<1>3. CASE C!ReadCalls(CHOOSE u : u \in treated') \/ C!DeleteOpenCalls \/ C!MarkMatchedCalls
  <2>1. /\ \A i \in 2 .. 6 : paid'[C!Phases[i]] = paid[C!Phases[i]]
                             /\ rows'[C!Phases[i]] = rows[C!Phases[i]]
        /\ UNCHANGED <<status, phase, todo>>
    BY <1>0, <1>3 DEF C!ReadCalls, C!DeleteOpenCalls, C!MarkMatchedCalls, TradeKinds
  <2> QED BY <2>1, ListsRest
<1>4. ASSUME NEW u \in People, C!ReadCalls(u) PROVE ListsInv'
  BY <1>4, ListsRest DEF C!ReadCalls
<1>5. CASE C!RefundTrades
  <2>1. read \subseteq TradeKinds /\ phase = 1 /\ phase' = 1 /\ rows' = rows
        /\ status' = status
    BY <1>5 DEF C!RefundTrades, StepInv, C!TypeOK, TradeKinds
  <2>2. ASSUME NEW i \in 2 .. 6 PROVE paid'[C!Phases[i]] = paid[C!Phases[i]]
    <3>1. C!Phases[i] \in C!Kinds /\ C!Phases[i] \notin read
      BY <1>0, <2>1
    <3>2. paid[C!Phases[i]] \in [People -> Nat]
      BY <1>0, <3>1
    <3>3. paid'[C!Phases[i]] = [u \in People |-> paid[C!Phases[i]][u] + 0]
      BY <1>5, <3>1 DEF C!RefundTrades
    <3> QED BY <3>2, <3>3
  <2> QED BY <2>1, <2>2, ListsRest
<1>6. CASE C!FinishCancel
  <2>1. phase = 7 /\ phase' = 0 /\ UNCHANGED <<paid, rows>>
    BY <1>6, CancelFacts DEF C!FinishCancel
  <2>2. \A i \in 2 .. 6 : AllPaid(C!Phases[i])
    BY <2>1 DEF ListsInv
  <2> QED BY <1>0, <2>1, <2>2 DEF ListsInv, AllPaid
<1>7. CASE C!EndPhase
  <2>1. /\ phase \in 1 .. 6 /\ todo = {} /\ phase' = phase + 1 /\ status' = status
        /\ todo' = C!ListOf(phase + 1) /\ paid' = paid
    BY <1>7, CancelFacts DEF C!EndPhase, C!Enter
  <2>2. \A i \in 2 .. 6 : phase = i => AllPaid(C!Phases[i])
    BY <2>1 DEF ListsInv, AllPaid
  <2>3. \A i \in 2 .. 6 : rows'[C!Phases[i]] = rows[C!Phases[i]]
                          \/ (i = 6 /\ phase = 6 /\ rows'[C!Phases[i]] = {})
    BY <1>0, <1>7, CancelFacts DEF C!EndPhase
  <2>4. \A i \in 2 .. 6 : phase' = i => todo' = rows[C!Phases[i]]
    BY <2>1, CancelFacts, SMTT(30) DEF C!ListOf
  <2> SUFFICES ASSUME NEW i \in 2 .. 6
               PROVE  /\ phase' > i \/ status' = "CAN" => AllPaid(C!Phases[i])
                      /\ phase' = i => \A u \in Debts[C!Phases[i]] \ todo' : paid[C!Phases[i]][u] > 0
                      /\ rows'[C!Phases[i]] = Debts[C!Phases[i]] \/ AllPaid(C!Phases[i])
    BY <1>0, <2>1 DEF ListsInv, AllPaid
  <2>5. phase' > i \/ status' = "CAN" => AllPaid(C!Phases[i])
    BY <2>1, <2>2 DEF ListsInv
  <2>6. phase' = i => \A u \in Debts[C!Phases[i]] \ todo' : paid[C!Phases[i]][u] > 0
    BY <2>4 DEF ListsInv, AllPaid
  <2>7. rows'[C!Phases[i]] = Debts[C!Phases[i]] \/ AllPaid(C!Phases[i])
    BY <2>2, <2>3, SMTT(30) DEF ListsInv
  <2> QED BY <2>5, <2>6, <2>7
<1>8. ASSUME NEW u \in People, C!ExecuteOperation(u) PROVE ListsInv'
  <2>1. /\ phase \in 2 .. 6 /\ u \in todo /\ todo' = todo \ {u}
        /\ UNCHANGED <<status, phase, rows>>
        /\ paid' = [paid EXCEPT ![C!Phases[phase]][u] = @ + 1]
    BY <1>8, CancelFacts DEF C!ExecuteOperation
  <2>2. ASSUME NEW i \in 2 .. 6, NEW v \in People
        PROVE  /\ paid[C!Phases[i]][v] > 0 => paid'[C!Phases[i]][v] > 0
               /\ i = phase /\ v = u => paid'[C!Phases[i]][v] > 0
    <3>1. paid[C!Phases[i]][v] \in Nat
      BY <1>0
    <3>2. paid'[C!Phases[i]][v] = paid[C!Phases[i]][v] + 1
          \/ (paid'[C!Phases[i]][v] = paid[C!Phases[i]][v] /\ ~(i = phase /\ v = u))
      <4>1. C!Phases[phase] \in C!Kinds /\ C!Phases[i] \in C!Kinds
            /\ (C!Phases[i] = C!Phases[phase] <=> i = phase)
        BY <1>0, <2>1
      <4>2. CASE i = phase
        <5>1. paid'[C!Phases[i]] = [paid[C!Phases[i]] EXCEPT ![u] = @ + 1]
          BY <1>0, <2>1, <4>1, <4>2
        <5> QED BY <1>0, <4>1, <4>2, <5>1
      <4>3. CASE i # phase
        BY <1>0, <2>1, <4>1, <4>3
      <4> QED BY <4>2, <4>3
    <3> QED BY <3>1, <3>2
  <2>3. \A i \in 2 .. 6 : Debts[C!Phases[i]] \subseteq People
    BY <1>0, DebtsTyped
  <2> QED BY <1>0, <2>1, <2>2, <2>3 DEF ListsInv, AllPaid
<1> QED BY <1>1, <1>2, <1>3, <1>4, <1>5, <1>6, <1>7, <1>8 DEF C!Next

LEMMA CancelInvariant ==
    /\ C!Init => CancelInv
    /\ CancelInv /\ [C!Next]_(C!vars) => CancelInv'
<1>1. C!Init => CancelInv
  <2> SUFFICES ASSUME C!Init PROVE CancelInv
    OBVIOUS
  <2>1. C!TypeOK
    BY CancelFacts, DebtsTyped DEF C!Init, C!TypeOK
  <2>2. StepInv /\ TradesInv /\ ListsInv
    BY CancelFacts DEF C!Init, StepInv, TradesInv, ListsInv
  <2>3. MarksInv
    BY CancelFacts DEF C!Init, MarksInv, TradeKinds
  <2>4. LostInv
    <3>1. Lost = {}
      BY DEF C!Init, Lost
    <3>2. crashes[1] = 0
      BY CancelFacts DEF C!Init
    <3> QED BY <3>1, <3>2, FS_EmptySet DEF LostInv
  <2> QED BY <2>1, <2>2, <2>3, <2>4 DEF CancelInv
<1>2. CancelInv /\ [C!Next]_(C!vars) => CancelInv'
  <2> SUFFICES ASSUME CancelInv, [C!Next]_(C!vars) PROVE CancelInv'
    OBVIOUS
  <2>1. CASE C!Next
    BY <2>1, CancelTypeStep, StepInvStep, MarksStep, LostStep, TradesStep, ListsStep DEF
         CancelInv
  <2>2. CASE UNCHANGED C!vars
    BY <2>2 DEF C!vars, CancelInv, C!TypeOK, StepInv, MarksInv, LostInv, Lost, TradesInv,
         ListsInv, AllPaid, C!Phases
  <2> QED BY <2>1, <2>2
<1> QED BY <1>1, <1>2

LEMMA CancelIsPart ==
    /\ Init => (part = "cancel" => CancelInv)
    /\ (part = "cancel" => CancelInv) /\ [Next]_vars => (part = "cancel" => CancelInv)'
<1>1. Init => (part = "cancel" => CancelInv)
  BY CancelInvariant, OneOfThem
<1>2. ASSUME part = "cancel" => CancelInv, [Next]_vars, part' = "cancel" PROVE CancelInv'
  <2>1. part = "cancel" /\ [C!Next]_(C!vars)
    BY <1>2, OneOfThem
  <2> QED BY <1>2, <2>1, CancelInvariant
<1> QED BY <1>1, <1>2

\* Every variable of a cancellation keeps its type.
THEOREM CancelTyped == C!Spec => []C!TypeOK
<1>1. CancelInv => C!TypeOK
  BY DEF CancelInv
<1> QED BY <1>1, CancelInvariant, PTL DEF C!Spec

\* A cancelled event has paid back what it took, trades at most once, and all of it
\* but the trades of one user for each failure in the trade phase: for any debts and
\* however often the cancellation fails and is repeated.
THEOREM RefundsCompleteHolds ==
    (C!Spec => []C!RefundsComplete) /\ (Spec => []RefundsComplete)
<1>1. ASSUME CancelInv PROVE C!RefundsComplete
  <2>1. paid \in [C!Kinds -> [People -> Nat]]
    BY <1>1 DEF CancelInv, C!TypeOK
  <2>2. C!TradesRefundedAtMostOnce
    BY <1>1 DEF CancelInv, MarksInv, C!TradesRefundedAtMostOnce
  <2>3. C!CancelledIsComplete
    <3> SUFFICES ASSUME status = "CAN" PROVE C!CancelledIsComplete
      BY DEF C!CancelledIsComplete
    <3>1. {u \in People : \E k \in TradeKinds : u \in Debts[k] /\ paid[k][u] = 0} = Lost
      <4>1. treated = {}
        BY <1>1 DEF CancelInv, StepInv
      <4>2. \A k \in TradeKinds : \A u \in rows[k] : paid[k][u] > 0
        BY <1>1 DEF CancelInv, TradesInv
      <4> QED BY <4>1, <4>2 DEF Lost
    <3>2. \A k \in C!Kinds \ TradeKinds : \E i \in 2 .. 6 : k = C!Phases[i]
      BY CancelFacts DEF TradeKinds
    <3>3. \A k \in C!Kinds \ TradeKinds : AllPaid(k)
      BY <1>1, <3>2 DEF CancelInv, ListsInv
    <3>4. {u \in People : \E k \in C!Kinds \ TradeKinds :
              u \in Debts[k] /\ paid[k][u] = 0} = {}
      BY <3>3 DEF AllPaid
    <3>5. Cardinality({u \in People : \E k \in TradeKinds :
                          u \in Debts[k] /\ paid[k][u] = 0}) <= crashes[1]
      BY <1>1, <3>1 DEF CancelInv, LostInv
    <3>6. \A kinds : C!Cardinality(kinds) = Cardinality(kinds)
      BY DEF C!Cardinality, Cardinality
    <3> QED BY <3>4, <3>5, <3>6 DEF C!CancelledIsComplete, TradeKinds
  <2> QED BY <2>2, <2>3 DEF C!RefundsComplete
<1>2. (part = "cancel" => CancelInv) => RefundsComplete
  BY <1>1 DEF RefundsComplete
<1> QED BY <1>1, <1>2, CancelInvariant, CancelIsPart, PTL DEF C!Spec, Spec

-------------------------------------------------------------------------------
(* The settlement of an event: each user's winnings and refunds are sums over   *)
(* his orders.                                                                  *)

\* How far a run is, and what it leaves: only a settlement closes the event, the
\* credits are those of the users marked as paid, and a user is still to be paid or
\* has had his refund.
StageInv ==
    /\ status = "C" => pc = "idle"
    /\ status = "A" => paid = {}
    /\ pc = "start" => ~refundOnly
    /\ pc # "idle" => (refundOnly <=> status = "A")
    /\ pc # "idle" /\ pc # "start" /\ refundOnly => \A u \in People : won[u] = 0
    /\ pc \in {"copy", "delete"} => todo = People
    /\ pc = "pay" => \A u \in People \ todo : unsettled[u] = 0
    /\ \A u \in People \ paid : credited[u] = 0

\* What a run has read is what it copies and deletes, but for the orders the matching
\* engine moved.
OpenInv ==
    /\ pc \in {"copy", "delete"} =>
           /\ open \intersect Holding = tallied \intersect Holding
           /\ \A u \in People : S!Undisturbed(u) => S!OrdersOf(u, open) = S!OrdersOf(u, tallied)
    /\ pc \in {"delete", "pay"} => tallied \ Holding \subseteq closed
    /\ pc = "pay" \/ paid # {} => open \intersect Holding = {}
    /\ pc = "pay" \/ status = "C" =>
           \A u \in People : S!Undisturbed(u) => S!OrdersOf(u, open) = {}

\* An order counts once, one up for sale when it has been copied; a crash between the
\* copy and the deletion counts it again.
CallsInv ==
    /\ \A o \in Orders \ Holding : calls[o] \in {0, 1}
    /\ "delete" \notin crashedAt =>
           \A o \in Holding : calls[o] = IF o \in open /\ pc # "delete" THEN 0 ELSE 1

\* The closed orders whose cost the run under way has not to refund.
Off == IF pc \in {"copy", "delete"} THEN (closed \ open) \ tallied ELSE closed \ open

\* What a user has got back, with what the run under way still owes him.
Back(u) == refunded[u] + (IF pc = "pay" THEN unsettled[u] ELSE 0)

\* No more comes back than the closed orders cost, no less than the unmatched ones.
BackInv ==
    /\ pc \in {"copy", "delete"} =>
           \A u \in People :
               unsettled[u] = SumOver(CostOf, S!OrdersOf(u, tallied \ Holding))
    /\ \A u \in People : Back(u) <= SumOver(CostOf, S!OrdersOf(u, Off))
    /\ "pay" \notin crashedAt =>
           \A u \in People :
               S!Undisturbed(u) => SumOver(CostOf, S!Unmatched(u) \ open) <= Back(u)

\* The orders of u that won, and those up for sale that will have.
Winning(u) == {o \in S!OrdersOf(u, Orders) : SideOf[o] = value /\ calls[o] > 0}
ForSale(u) == {o \in S!OrdersOf(u, open \intersect Holding) : SideOf[o] = value}

\* Nothing has happened to u that WinningsPaidExactly excepts.
Regular(u) ==
    S!Undisturbed(u) /\ ~resetFailed /\ ~revalued /\ "delete" \notin crashedAt

\* The run computes what the orders won, and whoever has been paid has got that.
WonOf(u) ==
    /\ pc \in {"readOpen", "delete", "pay"} /\ ~refundOnly =>
           won[u] = SumOver(ReturnOf, Winning(u))
    /\ pc = "copy" /\ ~refundOnly =>
           won[u] = SumOver(ReturnOf, Winning(u) \union ForSale(u))
    /\ u \in paid \/ status = "C" \/ (pc = "pay" /\ ~refundOnly /\ u \notin todo) =>
           credited[u] = SumOver(ReturnOf, Winning(u))

WonInv == \A u \in People : Regular(u) => WonOf(u)

SettlementInv == S!TypeOK /\ StageInv /\ OpenInv /\ CallsInv /\ BackInv /\ WonInv

\* The model's sums are those of Sums.
LEMMA TotalIs == \A f, set : S!Total(f, set) = SumOver(f, set)
BY DEF S!Total, SumOver, FoldFunctionOnSet, S!FoldFunctionOnSet, S!MapThenFoldSet,
   MapThenFoldSet

\* Sums over orders: types, parts and what they are at most.
LEMMA OrderSums ==
    ASSUME NEW f \in [Orders -> Nat], NEW X \in SUBSET Orders, NEW Y \in SUBSET Orders
    PROVE  /\ IsFiniteSet(X) /\ SumOver(f, X) \in Nat
           /\ X \subseteq Y => SumOver(f, X) <= SumOver(f, Y)
           /\ X \intersect Y = {} => SumOver(f, X \union Y) = SumOver(f, X) + SumOver(f, Y)
           /\ SumOver(f, X \union Y) <= SumOver(f, X) + SumOver(f, Y)
<1>1. IsFiniteSet(X) /\ IsFiniteSet(Y) /\ \A o \in Orders : f[o] \in Nat
  BY SettlementAssumption, FS_Subset
<1>2. SumOver(f, X) \in Nat /\ SumOver(f, Y) \in Nat
  BY <1>1, SumNat
<1>3. ASSUME NEW U, NEW V, U \subseteq V, V \subseteq Orders, IsFiniteSet(V)
      PROVE  SumOver(f, U) <= SumOver(f, V)
  <2>1. /\ \A o \in U : f[o] \in Int /\ f[o] <= f[o]
        /\ \A o \in V : f[o] \in Nat
    BY <1>1, <1>3
  <2> QED BY <1>3, <2>1, SumAtMost
<1>4. X \intersect Y = {} => SumOver(f, X \union Y) = SumOver(f, X) + SumOver(f, Y)
  <2>1. \A o \in X \union Y : f[o] \in Int
    BY <1>1
  <2> QED BY <1>1, <2>1, SumUnion
<1>5. SumOver(f, X \union Y) <= SumOver(f, X) + SumOver(f, Y)
  <2>1. PICK Z : Z = Y \ X
    OBVIOUS
  <2>2. /\ IsFiniteSet(Z) /\ X \intersect Z = {} /\ X \union Y = X \union Z /\ Z \subseteq Y
        /\ \A o \in X \union Z : f[o] \in Int
    BY <1>1, <2>1, FS_Subset
  <2>3. SumOver(f, X \union Z) = SumOver(f, X) + SumOver(f, Z)
    BY <1>1, <2>2, SumUnion
  <2>4. SumOver(f, Z) <= SumOver(f, Y)
    BY <1>1, <1>3, <2>2
  <2>5. SumOver(f, Z) \in Nat
    BY <1>1, <2>2, SumNat
  <2>6. \A i, j, k \in Nat : j <= k => i + j <= i + k
    OBVIOUS
  <2>7. SumOver(f, X) + SumOver(f, Z) <= SumOver(f, X) + SumOver(f, Y)
    BY <1>2, <2>4, <2>5, <2>6
  <2>8. SumOver(f, X \union Y) = SumOver(f, X) + SumOver(f, Z)
    BY <2>2, <2>3, Zenon
  <2> QED BY <2>7, <2>8, Zenon
<1> QED BY <1>1, <1>2, <1>3, <1>4, <1>5

LEMMA OrderFacts ==
    /\ CostOf \in [Orders -> Nat] /\ ReturnOf \in [Orders -> Nat]
    /\ \A u, set : S!OrdersOf(u, set) = {o \in set : UserOf[o] = u}
    /\ \A set \in SUBSET Orders : /\ SumOver(CostOf, set) \in Nat
                                  /\ SumOver(ReturnOf, set) \in Nat
<1>1. CostOf \in [Orders -> Nat] /\ ReturnOf \in [Orders -> Nat]
  BY SettlementAssumption
<1>2. \A set \in SUBSET Orders : /\ SumOver(CostOf, set) \in Nat
                                 /\ SumOver(ReturnOf, set) \in Nat
  BY <1>1, OrderSums
<1> QED BY <1>1, <1>2 DEF S!OrdersOf

\* The matching engine.
LateStep(o) == S!LateOrder(o) \/ S!LateMatch(o)

\* The steps that leave the orders and the sums of the run alone.
RunStep ==
    \/ \E v \in S!Sides : S!StartSettle(v)
    \/ S!StartRefund \/ S!Finish \/ S!Crash \/ S!Reset \/ S!ResetFails

LEMMA SettlementTypeStep ==
    ASSUME S!TypeOK, S!Next
    PROVE  S!TypeOK'
<1> USE DEF S!tables, S!tally, S!ledger, S!history
<1>1. ASSUME NEW o \in Orders, LateStep(o) PROVE S!TypeOK'
  <2>1. raced' \subseteq Orders
    BY <1>1 DEF LateStep, S!LateOrder, S!LateMatch, S!Race, S!TypeOK
  <2>2. calls' \in [Orders -> Nat] /\ open' \subseteq Orders
    BY <1>1 DEF LateStep, S!LateOrder, S!LateMatch, S!TypeOK
  <2> QED BY <1>1, <2>1, <2>2, ZenonT(30) DEF LateStep, S!LateOrder, S!LateMatch, S!TypeOK
<1>2. ASSUME NEW v \in S!Sides, S!StartSettle(v) PROVE S!TypeOK'
  <2>1. runs' \in 0 .. Settlements
    BY <1>2, SettlementAssumption DEF S!StartSettle, S!TypeOK
  <2>2. revalued' \in BOOLEAN
    BY <1>2 DEF S!StartSettle, S!TypeOK
  <2> QED BY <1>2, <2>1, <2>2 DEF S!StartSettle, S!TypeOK
<1>3. CASE S!StartRefund
  BY <1>3, SettlementAssumption DEF S!StartRefund, S!TypeOK, S!Nothing
<1>4. CASE S!ReadMatched
  <2>1. PICK g : g = [o \in Orders |-> calls[o] * ReturnOf[o]]
    OBVIOUS
  <2>2. g \in [Orders -> Nat]
    <3>1. \A i, j \in Nat : i * j \in Nat
      OBVIOUS
    <3>2. \A o \in Orders : calls[o] \in Nat /\ ReturnOf[o] \in Nat
      BY OrderFacts DEF S!TypeOK
    <3> QED BY <2>1, <3>1, <3>2
  <2>3. ASSUME NEW u \in People PROVE won'[u] \in Nat
    <3>1. PICK X : X = {o \in S!OrdersOf(u, Orders) : SideOf[o] = value}
      OBVIOUS
    <3>2. X \subseteq Orders
      BY <3>1, OrderFacts
    <3>3. SumOver(g, X) \in Nat
      BY <2>2, <3>2, OrderSums
    <3>4. won'[u] = S!Total(g, X)
      BY <1>4, <2>1, <3>1 DEF S!ReadMatched
    <3> QED BY <3>3, <3>4, TotalIs
  <2>4. won' \in [People -> Nat]
    BY <1>4, <2>3 DEF S!ReadMatched
  <2> QED BY <1>4, <2>4 DEF S!ReadMatched, S!TypeOK
<1>5. CASE S!ReadOpen
  <2>1. ASSUME NEW u \in People PROVE won'[u] \in Nat /\ unsettled'[u] \in Nat
    <3>1. PICK X, Y : /\ X = {o \in S!OrdersOf(u, open \intersect Holding) : SideOf[o] = value}
                      /\ Y = S!OrdersOf(u, open \ Holding)
      OBVIOUS
    <3>2. X \subseteq Orders /\ Y \subseteq Orders /\ won[u] \in Nat
      BY <3>1, OrderFacts DEF S!TypeOK
    <3>3. SumOver(ReturnOf, X) \in Nat /\ SumOver(CostOf, Y) \in Nat
      BY <3>2, OrderFacts
    <3>4. unsettled'[u] = S!Total(CostOf, Y)
      BY <1>5, <3>1 DEF S!ReadOpen
    <3>5. won'[u] = won[u] \/ won'[u] = won[u] + S!Total(ReturnOf, X)
      BY <1>5, <3>1 DEF S!ReadOpen
    <3> QED BY <3>2, <3>3, <3>4, <3>5, TotalIs
  <2>2. won' \in [People -> Nat] /\ unsettled' \in [People -> Nat]
    <3>1. unsettled' \in [People -> Nat]
      BY <1>5, <2>1 DEF S!ReadOpen
    <3>2. won' = [u \in People |-> won'[u]]
      BY <1>5 DEF S!ReadOpen, S!TypeOK
    <3> QED BY <2>1, <3>1, <3>2
  <2> QED BY <1>5, <2>2 DEF S!ReadOpen, S!TypeOK
<1>6. CASE S!CopyOpen
  <2>1. calls' \in [Orders -> Nat]
    BY <1>6 DEF S!CopyOpen, S!TypeOK
  <2>2. closed' \subseteq Orders
    BY <1>6 DEF S!CopyOpen, S!TypeOK
  <2> QED BY <1>6, <2>1, <2>2 DEF S!CopyOpen, S!TypeOK
<1>7. CASE S!DeleteOpen
  BY <1>7 DEF S!DeleteOpen, S!TypeOK
<1>8. ASSUME NEW u \in People, S!PayRefund(u) \/ S!PayWinnings(u) PROVE S!TypeOK'
  <2>1. \A v \in People : won[v] \in Nat /\ unsettled[v] \in Nat /\ credited[v] \in Nat
                          /\ refunded[v] \in Nat
    BY DEF S!TypeOK
  <2>2. {won, unsettled, credited, refunded}' \subseteq [People -> Nat]
    BY <1>8, <2>1 DEF S!PayRefund, S!PayWinnings, S!TypeOK
  <2> QED BY <1>8, <2>2 DEF S!PayRefund, S!PayWinnings, S!TypeOK
<1>9. CASE S!Finish \/ S!Reset \/ S!ResetFails
  <2>1. CASE S!Finish
    BY <2>1 DEF S!Finish, S!TypeOK
  <2>2. CASE S!Reset
    <3>1. credited' \in [People -> Nat]
      BY <2>2 DEF S!Reset, S!Nothing
    <3> QED BY <2>2, <3>1 DEF S!Reset, S!TypeOK
  <2>3. CASE S!ResetFails
    BY <2>3 DEF S!ResetFails, S!TypeOK
  <2> QED BY <1>9, <2>1, <2>2, <2>3
<1>10. CASE S!Crash
  BY <1>10 DEF S!Crash, S!TypeOK
<1> QED BY <1>1, <1>2, <1>3, <1>4, <1>5, <1>6, <1>7, <1>8, <1>9, <1>10 DEF S!Next, LateStep

LEMMA StageStep ==
    ASSUME S!TypeOK, StageInv, S!Next
    PROVE  StageInv'
<1> USE DEF S!tables, S!tally, S!ledger, S!history
<1>1. ASSUME NEW o \in Orders, LateStep(o) PROVE StageInv'
  BY <1>1 DEF LateStep, S!LateOrder, S!LateMatch, StageInv
<1>2. ASSUME NEW v \in S!Sides, S!StartSettle(v) PROVE StageInv'
  BY <1>2 DEF S!StartSettle, StageInv
<1>3. CASE S!StartRefund
  BY <1>3 DEF S!StartRefund, StageInv, S!Nothing
<1>4. CASE S!ReadMatched
  BY <1>4 DEF S!ReadMatched, StageInv
<1>5. CASE S!ReadOpen
  BY <1>5 DEF S!ReadOpen, StageInv
<1>6. CASE S!CopyOpen \/ S!DeleteOpen
  <2>1. /\ UNCHANGED <<status, refundOnly, won, unsettled, todo, paid, credited>>
        /\ pc \in {"copy", "delete"} /\ pc' \in {"delete", "pay"}
    BY <1>6 DEF S!CopyOpen, S!DeleteOpen
  <2> QED BY <1>6, <2>1 DEF S!CopyOpen, S!DeleteOpen, StageInv
<1>7. ASSUME NEW u \in People, S!PayRefund(u) PROVE StageInv'
  BY <1>7 DEF S!PayRefund, StageInv, S!TypeOK
<1>8. ASSUME NEW u \in People, S!PayWinnings(u) PROVE StageInv'
  <2>1. /\ pc' = pc /\ pc = "pay" /\ todo' = todo \ {u} /\ unsettled[u] = 0
        /\ UNCHANGED <<status, refundOnly, won, unsettled>>
    BY <1>8 DEF S!PayWinnings
  <2>3. \A v \in People \ paid' : credited'[v] = 0
    BY <1>8 DEF S!PayWinnings, StageInv, S!TypeOK
  <2>4. status = "A" => paid' = {}
    <3>1. status = "A" => refundOnly
      BY <2>1 DEF StageInv
    <3> QED BY <1>8, <2>1, <3>1 DEF S!PayWinnings, StageInv
  <2> QED BY <2>1, <2>3, <2>4 DEF StageInv
<1>9. CASE S!Finish
  BY <1>9 DEF S!Finish, StageInv
<1>10. CASE S!Crash
  BY <1>10 DEF S!Crash, StageInv
<1>11. CASE S!Reset
  BY <1>11 DEF S!Reset, StageInv, S!Nothing
<1>12. CASE S!ResetFails
  BY <1>12 DEF S!ResetFails, StageInv
<1> QED BY <1>1, <1>2, <1>3, <1>4, <1>5, <1>6, <1>7, <1>8, <1>9, <1>10, <1>11, <1>12
        DEF S!Next, LateStep

\* What the matching engine leaves alone, and when it does not disturb a user.
LEMMA LateFacts ==
    ASSUME S!TypeOK, NEW o \in Orders, LateStep(o)
    PROVE  /\ UNCHANGED <<status, value, pc, refundOnly, closed, won, unsettled, tallied, todo,
                          credited, paid, refunded, crashedAt, resetFailed, revalued>>
           /\ o \notin Holding /\ open' \intersect Holding = open \intersect Holding
           /\ \A x \in Orders : x # o => calls'[x] = calls[x] /\ (x \in open' <=> x \in open)
           /\ \/ o \in Late \ closed /\ calls' = calls /\ open' = open \union {o}
              \/ calls'[o] = 1 /\ open' = open \ {o}
           /\ \A u \in People : S!Undisturbed(u)' =>
                  /\ S!Undisturbed(u)
                  /\ UserOf[o] = u =>
                         pc \in {"idle", "start"} /\ status # "C" /\ u \notin paid
<1>1. /\ UNCHANGED <<status, value, pc, refundOnly, closed, won, unsettled, tallied, todo,
                     credited, paid, refunded, crashedAt, resetFailed, revalued>>
      /\ S!Race(o)
      /\ \/ o \in Late \ (open \union closed) /\ calls' = calls /\ open' = open \union {o}
         \/ /\ o \in open \ Holding /\ open' = open \ {o}
            /\ calls' = [calls EXCEPT ![o] = 1]
  BY DEF LateStep, S!LateOrder, S!LateMatch, S!tally, S!ledger
<1>2. o \notin Holding
  BY <1>1, SettlementAssumption
<1>3. /\ open' \intersect Holding = open \intersect Holding
      /\ \A x \in Orders : x # o => calls'[x] = calls[x] /\ (x \in open' <=> x \in open)
  BY <1>1, <1>2 DEF S!TypeOK
<1>4. \/ o \in Late \ closed /\ calls' = calls /\ open' = open \union {o}
      \/ calls'[o] = 1 /\ open' = open \ {o}
  BY <1>1 DEF S!TypeOK
<1>5. ASSUME NEW u \in People, S!Undisturbed(u)'
      PROVE  /\ S!Undisturbed(u)
             /\ UserOf[o] = u => pc \in {"idle", "start"} /\ status # "C" /\ u \notin paid
  <2>1. \A x \in raced' : UserOf[x] # u
    BY <1>5 DEF S!Undisturbed, S!OrdersOf
  <2>2. raced \subseteq raced'
    BY <1>1 DEF S!Race
  <2>3. S!Undisturbed(u)
    BY <2>1, <2>2 DEF S!Undisturbed, S!OrdersOf
  <2>4. UserOf[o] = u => o \notin raced'
    BY <2>1
  <2> QED BY <1>1, <2>3, <2>4 DEF S!Race
<1> QED BY <1>1, <1>2, <1>3, <1>4, <1>5

\* Only the matching engine disturbs a user.
LEMMA Undisturbing ==
    ASSUME raced' = raced, NEW u
    PROVE  S!Undisturbed(u)' <=> S!Undisturbed(u)
BY DEF S!Undisturbed, S!OrdersOf

LEMMA OpenStep ==
    ASSUME S!TypeOK, StageInv, OpenInv, S!Next
    PROVE  OpenInv'
<1> USE DEF S!tables, S!tally, S!ledger, S!history
<1>1. ASSUME NEW o \in Orders, LateStep(o) PROVE OpenInv'
  <2>1. /\ UNCHANGED <<status, pc, closed, tallied, paid>>
        /\ open' \intersect Holding = open \intersect Holding
        /\ \A x \in Orders : x # o => (x \in open' <=> x \in open)
        /\ \A u \in People : S!Undisturbed(u)' =>
               /\ S!Undisturbed(u)
               /\ UserOf[o] = u => pc \in {"idle", "start"} /\ status # "C" /\ u \notin paid
    BY <1>1, LateFacts
  <2>2. open' \subseteq Orders /\ open \subseteq Orders
    BY <1>1 DEF LateStep, S!LateOrder, S!LateMatch, S!TypeOK
  <2>3. ASSUME NEW u \in People, S!Undisturbed(u)',
               pc \in {"copy", "delete", "pay"} \/ status = "C"
        PROVE  S!OrdersOf(u, open') = S!OrdersOf(u, open) /\ S!Undisturbed(u)
    <3>1. UserOf[o] # u
      BY <2>1, <2>3
    <3> QED BY <2>1, <2>2, <2>3, <3>1 DEF S!OrdersOf
  <2>4. pc' \in {"copy", "delete"} =>
           /\ open' \intersect Holding = tallied' \intersect Holding
           /\ \A u \in People : S!Undisturbed(u)' =>
                  S!OrdersOf(u, open') = S!OrdersOf(u, tallied')
    BY <2>1, <2>3 DEF OpenInv
  <2>5. pc' = "pay" \/ status' = "C" =>
           \A u \in People : S!Undisturbed(u)' => S!OrdersOf(u, open') = {}
    BY <2>1, <2>3 DEF OpenInv
  <2> QED BY <2>1, <2>4, <2>5 DEF OpenInv, S!OrdersOf
<1>2. ASSUME UNCHANGED <<open, raced>>,
             pc' \notin {"copy", "delete", "pay"}, status' = "C" => status = "C" \/ pc = "pay",
             paid' # {} => paid # {} \/ pc = "pay"
      PROVE  OpenInv'
  <2>1. \A u : S!Undisturbed(u)' <=> S!Undisturbed(u)
    BY <1>2, Undisturbing
  <2>2. status' = "C" => \A u \in People : S!Undisturbed(u)' => S!OrdersOf(u, open') = {}
    BY <1>2, <2>1 DEF OpenInv
  <2> QED BY <1>2, <2>2 DEF OpenInv
<1>3. ASSUME NEW v \in S!Sides, S!StartSettle(v) PROVE OpenInv'
  BY <1>2, <1>3 DEF S!StartSettle
<1>4. CASE S!StartRefund \/ S!ReadMatched \/ S!Finish \/ S!Crash \/ S!Reset \/ S!ResetFails
  BY <1>2, <1>4 DEF S!StartRefund, S!ReadMatched, S!Finish, S!Crash, S!Reset, S!ResetFails
<1>5. CASE S!ReadOpen
  <2>1. pc' = "copy" /\ tallied' = open /\ UNCHANGED <<open, closed, raced, paid, status>>
        /\ status # "C"
    BY <1>5 DEF S!ReadOpen, StageInv
  <2> QED BY <2>1 DEF OpenInv
<1>6. CASE S!CopyOpen
  <2>1. /\ pc = "copy" /\ pc' = "delete" /\ closed' = closed \union (tallied \ Holding)
        /\ UNCHANGED <<open, tallied, raced, paid, status>> /\ status # "C"
    BY <1>6 DEF S!CopyOpen, StageInv
  <2>2. \A u : S!Undisturbed(u)' <=> S!Undisturbed(u)
    BY <2>1, Undisturbing
  <2>3. \A u \in People : S!Undisturbed(u)' => S!OrdersOf(u, open') = S!OrdersOf(u, tallied')
    BY <2>1, <2>2 DEF OpenInv
  <2> QED BY <2>1, <2>3 DEF OpenInv
<1>7. CASE S!DeleteOpen
  <2>1. /\ pc = "delete" /\ pc' = "pay" /\ (open' = IF tallied = {} THEN open ELSE {})
        /\ UNCHANGED <<closed, tallied, raced, paid, status>>
    BY <1>7 DEF S!DeleteOpen
  <2>2. \A u : S!Undisturbed(u)' <=> S!Undisturbed(u)
    BY <2>1, Undisturbing
  <2>3. \A u \in People : S!Undisturbed(u)' => S!OrdersOf(u, open') = {}
    BY <2>1, <2>2 DEF OpenInv, S!OrdersOf
  <2>4. open' \intersect Holding = {}
    BY <2>1 DEF OpenInv
  <2> QED BY <2>1, <2>3, <2>4 DEF OpenInv
<1>8. ASSUME NEW u \in People, S!PayRefund(u) \/ S!PayWinnings(u) PROVE OpenInv'
  <2>1. pc = "pay" /\ UNCHANGED <<pc, open, closed, tallied, raced, status>>
    BY <1>8 DEF S!PayRefund, S!PayWinnings
  <2>2. \A v : S!Undisturbed(v)' <=> S!Undisturbed(v)
    BY <2>1, Undisturbing
  <2>3. \A v \in People : S!Undisturbed(v)' => S!OrdersOf(v, open') = {}
    BY <2>1, <2>2 DEF OpenInv
  <2> QED BY <2>1, <2>3 DEF OpenInv
<1> QED BY <1>1, <1>3, <1>4, <1>5, <1>6, <1>7, <1>8 DEF S!Next, LateStep

LEMMA CallsStep ==
    ASSUME S!TypeOK, OpenInv, CallsInv, S!Next
    PROVE  CallsInv'
<1> USE DEF S!tables, S!tally, S!ledger, S!history
<1>1. ASSUME NEW o \in Orders, LateStep(o) PROVE CallsInv'
  <2>1. UNCHANGED <<pc, crashedAt>> /\ o \notin Holding
    BY <1>1, LateFacts
  <2>2. \A x \in Orders : x # o => calls'[x] = calls[x] /\ (x \in open' <=> x \in open)
    BY <1>1, LateFacts
  <2>3. calls'[o] = calls[o] \/ calls'[o] = 1
    BY <1>1, LateFacts
  <2>4. Holding \subseteq Orders
    BY SettlementAssumption
  <2> QED BY <2>1, <2>2, <2>3, <2>4 DEF CallsInv
<1>2. ASSUME UNCHANGED <<calls, open>>, pc = "delete" => "delete" \in crashedAt',
             pc' # "delete", crashedAt \subseteq crashedAt'
      PROVE  CallsInv'
  BY <1>2 DEF CallsInv
<1>3. ASSUME NEW v \in S!Sides, S!StartSettle(v) PROVE CallsInv'
  BY <1>2, <1>3 DEF S!StartSettle
<1>4. CASE S!StartRefund \/ S!ReadMatched \/ S!ReadOpen \/ S!Finish \/ S!Reset \/ S!ResetFails
  BY <1>2, <1>4 DEF S!StartRefund, S!ReadMatched, S!ReadOpen, S!Finish, S!Reset, S!ResetFails
<1>5. CASE S!Crash
  BY <1>2, <1>5 DEF S!Crash
<1>6. CASE S!CopyOpen
  <2>1. /\ pc = "copy" /\ pc' = "delete" /\ UNCHANGED <<open, crashedAt>>
        /\ \A o \in Orders : calls'[o] = IF o \in tallied \intersect Holding THEN calls[o] + 1
                                         ELSE calls[o]
    BY <1>6 DEF S!CopyOpen
  <2>2. open \intersect Holding = tallied \intersect Holding /\ Holding \subseteq Orders
    BY <2>1, SettlementAssumption DEF OpenInv
  <2> QED BY <2>1, <2>2 DEF CallsInv
<1>7. CASE S!DeleteOpen
  <2>1. /\ pc = "delete" /\ pc' = "pay" /\ UNCHANGED <<calls, crashedAt>>
        /\ open' \intersect Holding = {}
    BY <1>7 DEF S!DeleteOpen, OpenInv
  <2> QED BY <2>1 DEF CallsInv
<1>8. ASSUME NEW u \in People, S!PayRefund(u) \/ S!PayWinnings(u) PROVE CallsInv'
  BY <1>2, <1>8 DEF S!PayRefund, S!PayWinnings
<1> QED BY <1>1, <1>3, <1>4, <1>5, <1>6, <1>7, <1>8 DEF S!Next, LateStep

\* Parts of the orders.
LEMMA OffTyped ==
    ASSUME S!TypeOK, NEW u
    PROVE  /\ S!OrdersOf(u, Off) \subseteq Orders
           /\ S!OrdersOf(u, tallied \ Holding) \subseteq Orders
           /\ S!Unmatched(u) \subseteq Orders
BY DEF S!TypeOK, Off, S!OrdersOf, S!Unmatched

\* A step that takes nothing off what is owed, and makes no other order unmatched.
LEMMA BackFrom ==
    ASSUME S!TypeOK, S!TypeOK', BackInv, Off \subseteq Off',
           \A u \in People : Back(u)' <= Back(u),
           pc' \in {"copy", "delete"} =>
               \A u \in People :
                   unsettled'[u] = SumOver(CostOf, S!OrdersOf(u, tallied' \ Holding)),
           "pay" \notin crashedAt' =>
               /\ "pay" \notin crashedAt
               /\ \A u \in People :
                      S!Undisturbed(u)' =>
                          /\ S!Undisturbed(u) /\ Back(u)' = Back(u)
                          /\ (S!Unmatched(u) \ open)' \subseteq S!Unmatched(u) \ open
    PROVE  BackInv'
<1>1. \A u \in People : Back(u) \in Nat /\ Back(u)' \in Nat
  <2>1. \A u \in People : /\ refunded[u] \in Nat /\ unsettled[u] \in Nat
                          /\ refunded'[u] \in Nat /\ unsettled'[u] \in Nat
    BY DEF S!TypeOK
  <2> QED BY <2>1 DEF Back
<1>2. ASSUME NEW u \in People PROVE Back(u)' <= SumOver(CostOf, S!OrdersOf(u, Off'))
  <2>1. PICK X, Y : X = S!OrdersOf(u, Off) /\ Y = S!OrdersOf(u, Off')
    OBVIOUS
  <2>2. X \subseteq Orders /\ Y \subseteq Orders /\ X \subseteq Y
    BY <2>1 DEF S!TypeOK, Off, S!OrdersOf
  <2>3. SumOver(CostOf, X) <= SumOver(CostOf, Y) /\ SumOver(CostOf, X) \in Nat
        /\ SumOver(CostOf, Y) \in Nat
    BY <2>2, OrderFacts, OrderSums
  <2>4. Back(u) <= SumOver(CostOf, X) /\ Back(u)' <= Back(u)
    BY <2>1 DEF BackInv
  <2>5. \A i, j, k, l \in Nat : i <= j /\ j <= k /\ k <= l => i <= l
    OBVIOUS
  <2>6. Back(u)' <= SumOver(CostOf, Y)
    BY <1>1, <2>3, <2>4, <2>5
  <2> QED BY <2>1, <2>6
<1>3. ASSUME "pay" \notin crashedAt', NEW u \in People, S!Undisturbed(u)'
      PROVE  SumOver(CostOf, (S!Unmatched(u) \ open)') <= Back(u)'
  <2>1. PICK X, Y : X = S!Unmatched(u) \ open /\ Y = (S!Unmatched(u) \ open)'
    OBVIOUS
  <2>2. X \subseteq Orders /\ Y \subseteq X
    BY <1>3, <2>1, OffTyped
  <2>3. SumOver(CostOf, Y) <= SumOver(CostOf, X) /\ SumOver(CostOf, X) \in Nat
        /\ SumOver(CostOf, Y) \in Nat
    BY <2>2, OrderFacts, OrderSums
  <2>4. SumOver(CostOf, X) <= Back(u) /\ Back(u)' = Back(u)
    BY <1>3, <2>1 DEF BackInv
  <2>5. \A i, j, k \in Nat : i <= j /\ j <= k => i <= k
    OBVIOUS
  <2>6. SumOver(CostOf, Y) <= Back(u)'
    BY <1>1, <2>3, <2>4, <2>5
  <2> QED BY <2>1, <2>6
<1> QED BY <1>2, <1>3 DEF BackInv

LEMMA BackStep ==
    ASSUME S!TypeOK, S!TypeOK', StageInv, OpenInv, CallsInv, BackInv, S!Next
    PROVE  BackInv'
<1> USE DEF S!tables, S!tally, S!ledger, S!history
<1>0. \A u \in People : /\ refunded[u] \in Nat /\ unsettled[u] \in Nat
                        /\ refunded'[u] \in Nat /\ unsettled'[u] \in Nat
  BY DEF S!TypeOK
<1>1. ASSUME NEW o \in Orders, LateStep(o) PROVE BackInv'
  <2>1. /\ UNCHANGED <<pc, closed, unsettled, tallied, refunded, crashedAt>>
        /\ o \notin Holding
        /\ \A x \in Orders : x # o => calls'[x] = calls[x] /\ (x \in open' <=> x \in open)
        /\ \/ o \in Late \ closed /\ calls' = calls /\ open' = open \union {o}
           \/ calls'[o] = 1 /\ open' = open \ {o}
        /\ \A u \in People : S!Undisturbed(u)' => S!Undisturbed(u)
    BY <1>1, LateFacts
  <2>2. Off \subseteq Off'
    BY <2>1 DEF Off
  <2>3. \A u \in People : Back(u)' = Back(u) /\ Back(u) <= Back(u)
    BY <1>0, <2>1 DEF Back
  <2>4. ASSUME NEW u \in People
        PROVE  (S!Unmatched(u) \ open)' \subseteq S!Unmatched(u) \ open
    BY <2>1, OrderFacts DEF S!Unmatched, S!TypeOK
  <2>5. pc' \in {"copy", "delete"} =>
            \A u \in People :
                unsettled'[u] = SumOver(CostOf, S!OrdersOf(u, tallied' \ Holding))
    BY <2>1 DEF BackInv
  <2> QED BY <2>1, <2>2, <2>3, <2>4, <2>5, BackFrom
<1>2. ASSUME UNCHANGED <<calls, open, closed, raced, refunded>>,
             Off' = Off, \A u \in People : Back(u)' = Back(u),
             pc' \in {"copy", "delete"} =>
               \A u \in People :
                   unsettled'[u] = SumOver(CostOf, S!OrdersOf(u, tallied' \ Holding)),
             crashedAt \subseteq crashedAt'
      PROVE  BackInv'
  <2>1. \A u : S!Undisturbed(u)' <=> S!Undisturbed(u)
    BY <1>2, Undisturbing
  <2>2. \A u \in People : Back(u)' <= Back(u)
    BY <1>0, <1>2 DEF Back
  <2>3. \A u \in People : (S!Unmatched(u) \ open)' \subseteq S!Unmatched(u) \ open
    BY <1>2, OrderFacts DEF S!Unmatched
  <2> QED BY <1>2, <2>1, <2>2, <2>3, BackFrom
<1>3. ASSUME UNCHANGED <<calls, open, closed, raced, refunded, unsettled>>,
             pc \notin {"copy", "delete", "pay"}, pc' \notin {"copy", "delete", "pay"},
             crashedAt \subseteq crashedAt'
      PROVE  BackInv'
  <2>1. Off' = Off /\ \A u \in People : Back(u)' = Back(u)
    BY <1>3 DEF Off, Back
  <2> QED BY <1>2, <1>3, <2>1
<1>4. ASSUME NEW v \in S!Sides, S!StartSettle(v) PROVE BackInv'
  BY <1>3, <1>4 DEF S!StartSettle
<1>5. CASE S!StartRefund \/ S!ReadMatched \/ S!Reset \/ S!ResetFails
  BY <1>3, <1>5 DEF S!StartRefund, S!ReadMatched, S!Reset, S!ResetFails
<1>6. CASE S!ReadOpen
  <2>1. /\ pc = "readOpen" /\ pc' = "copy" /\ tallied' = open
        /\ UNCHANGED <<calls, open, closed, raced, refunded, crashedAt>>
    BY <1>6 DEF S!ReadOpen
  <2>2. Off' = Off /\ \A u \in People : Back(u)' = Back(u)
    BY <2>1 DEF Off, Back
  <2>3. ASSUME NEW u \in People
        PROVE  unsettled'[u] = SumOver(CostOf, S!OrdersOf(u, tallied' \ Holding))
    <3>1. unsettled'[u] = S!Total(CostOf, S!OrdersOf(u, open \ Holding))
      BY <1>6 DEF S!ReadOpen
    <3> QED BY <2>1, <3>1, TotalIs
  <2> QED BY <1>2, <2>1, <2>2, <2>3
<1>7. CASE S!CopyOpen
  <2>1. /\ pc = "copy" /\ pc' = "delete" /\ closed' = closed \union (tallied \ Holding)
        /\ UNCHANGED <<open, tallied, unsettled, refunded, raced, crashedAt>>
        /\ \A o \in Orders : calls'[o] = IF o \in tallied \intersect Holding THEN calls[o] + 1
                                         ELSE calls[o]
    BY <1>7 DEF S!CopyOpen
  <2>2. \A u : S!Undisturbed(u)' <=> S!Undisturbed(u)
    BY <2>1, Undisturbing
  <2>3. Off \subseteq Off'
    BY <2>1 DEF Off
  <2>4. \A u \in People : Back(u)' = Back(u) /\ Back(u)' <= Back(u)
    BY <1>0, <2>1 DEF Back
  <2>5. \A u \in People :
            unsettled'[u] = SumOver(CostOf, S!OrdersOf(u, tallied' \ Holding))
    BY <2>1 DEF BackInv
  <2>6. ASSUME NEW u \in People, S!Undisturbed(u)
        PROVE  (S!Unmatched(u) \ open)' \subseteq S!Unmatched(u) \ open
    <3>1. \A o \in Orders : UserOf[o] = u => (o \in open <=> o \in tallied)
      BY <2>1, <2>6, OrderFacts, ZenonT(30) DEF OpenInv, S!TypeOK
    <3> QED BY <2>1, <3>1, OrderFacts DEF S!Unmatched, S!TypeOK
  <2> QED BY <2>1, <2>2, <2>3, <2>4, <2>5, <2>6, BackFrom
<1>8. CASE S!DeleteOpen
  <2>1. /\ pc = "delete" /\ pc' = "pay" /\ (open' = IF tallied = {} THEN open ELSE {})
        /\ UNCHANGED <<calls, closed, tallied, unsettled, refunded, raced, crashedAt>>
    BY <1>8 DEF S!DeleteOpen
  <2>2. \A u : S!Undisturbed(u)' <=> S!Undisturbed(u)
    BY <2>1, Undisturbing
  <2>3. ASSUME NEW u \in People
        PROVE  Back(u)' = Back(u) + SumOver(CostOf, S!OrdersOf(u, tallied \ Holding))
    <3>1. unsettled[u] = SumOver(CostOf, S!OrdersOf(u, tallied \ Holding))
      BY <2>1 DEF BackInv
    <3>2. Back(u) = refunded[u] /\ Back(u)' = refunded[u] + unsettled[u]
      BY <1>0, <2>1 DEF Back
    <3> QED BY <3>1, <3>2
  <2>4. ASSUME NEW u \in People PROVE Back(u)' <= SumOver(CostOf, S!OrdersOf(u, Off'))
    <3>1. PICK X, Y, Z : /\ X = S!OrdersOf(u, Off) /\ Y = S!OrdersOf(u, tallied \ Holding)
                         /\ Z = S!OrdersOf(u, Off')
      OBVIOUS
    <3>2. Off \subseteq Off'
      BY <2>1 DEF Off
    <3>3. tallied \ Holding \subseteq Off'
      BY <2>1 DEF Off, OpenInv
    <3>4. Off' \subseteq Orders /\ Off \intersect tallied = {}
      BY <2>1 DEF Off, S!TypeOK
    <3>5. X \subseteq Orders /\ Y \subseteq Orders /\ Z \subseteq Orders
          /\ X \intersect Y = {} /\ X \union Y \subseteq Z
      BY <3>1, <3>2, <3>3, <3>4, OrderFacts
    <3>6. SumOver(CostOf, X \union Y) = SumOver(CostOf, X) + SumOver(CostOf, Y)
      BY <3>5, OrderFacts, OrderSums
    <3>7. SumOver(CostOf, X \union Y) <= SumOver(CostOf, Z)
      <4>1. PICK V : V = X \union Y
        OBVIOUS
      <4>2. SumOver(CostOf, V) <= SumOver(CostOf, Z)
        BY <3>5, <4>1, OrderFacts, OrderSums
      <4> QED BY <4>1, <4>2
    <3>8. SumOver(CostOf, X) \in Nat /\ SumOver(CostOf, Y) \in Nat
          /\ SumOver(CostOf, Z) \in Nat
      BY <3>5, OrderFacts
    <3>9. Back(u) <= SumOver(CostOf, X) /\ Back(u) \in Nat
      BY <1>0, <2>1, <3>1 DEF Back, BackInv
    <3>10. Back(u)' = Back(u) + SumOver(CostOf, Y)
      BY <2>3, <3>1
    <3>11. \A i, j, k, l \in Nat : i <= j /\ j + k <= l => i + k <= l
      OBVIOUS
    <3>12. Back(u) + SumOver(CostOf, Y) <= SumOver(CostOf, Z)
      BY <3>6, <3>7, <3>8, <3>9, <3>11
    <3> QED BY <3>1, <3>10, <3>12
  <2>5. ASSUME NEW u \in People, S!Undisturbed(u)', "pay" \notin crashedAt'
        PROVE  SumOver(CostOf, (S!Unmatched(u) \ open)') <= Back(u)'
    <3>1. PICK X, Y, Z : /\ X = S!Unmatched(u) \ open /\ Y = S!OrdersOf(u, tallied \ Holding)
                         /\ Z = (S!Unmatched(u) \ open)'
      OBVIOUS
    <3>2. \A o \in Orders : UserOf[o] = u => (o \in open <=> o \in tallied)
      <4>1. S!Undisturbed(u)
        BY <2>2, <2>5
      <4>2. S!OrdersOf(u, open) = S!OrdersOf(u, tallied)
        BY <2>1, <4>1 DEF OpenInv
      <4> QED BY <4>2, OrderFacts
    <3>3. X \subseteq Orders /\ Y \subseteq Orders
      BY <3>1, OffTyped
    <3>4. Z \subseteq Orders \ Holding /\ \A o \in Z : UserOf[o] = u
      BY <3>1, OrderFacts DEF S!Unmatched
    <3>5. Z \subseteq S!Unmatched(u)
      BY <2>1, <3>1, OrderFacts DEF S!Unmatched
    <3>6. Z \subseteq X \union Y
      BY <3>1, <3>2, <3>4, <3>5, OrderFacts
    <3>7. PICK V : V = X \union Y
      OBVIOUS
    <3>8. SumOver(CostOf, Z) <= SumOver(CostOf, V)
      BY <3>3, <3>6, <3>7, OrderFacts, OrderSums
    <3>9. SumOver(CostOf, X \union Y) <= SumOver(CostOf, X) + SumOver(CostOf, Y)
      BY <3>3, OrderFacts, OrderSums
    <3>10. SumOver(CostOf, X) <= Back(u)
      BY <2>1, <2>2, <2>5, <3>1 DEF BackInv
    <3>11. /\ SumOver(CostOf, X) \in Nat /\ SumOver(CostOf, Y) \in Nat
           /\ SumOver(CostOf, V) \in Nat /\ SumOver(CostOf, Z) \in Nat
      <4>1. V \subseteq Orders /\ Z \subseteq Orders
        BY <3>3, <3>4, <3>7
      <4> QED BY <3>3, <4>1, OrderFacts
    <3>12. Back(u) \in Nat
      BY <1>0 DEF Back
    <3>13. \A i, j, k, l, m \in Nat : i <= j /\ j <= k + l /\ k <= m => i <= m + l
      OBVIOUS
    <3>14. SumOver(CostOf, V) <= SumOver(CostOf, X) + SumOver(CostOf, Y)
      BY <3>7, <3>9
    <3>15. SumOver(CostOf, Z) <= Back(u) + SumOver(CostOf, Y)
      BY <3>8, <3>10, <3>11, <3>12, <3>13, <3>14
    <3> QED BY <2>3, <3>1, <3>15
  <2> QED BY <2>1, <2>4, <2>5 DEF BackInv
<1>9. ASSUME NEW v \in People, S!PayRefund(v) \/ S!PayWinnings(v) PROVE BackInv'
  <2>1. /\ pc = "pay" /\ pc' = "pay"
        /\ UNCHANGED <<calls, open, closed, raced, tallied, crashedAt>>
    BY <1>9 DEF S!PayRefund, S!PayWinnings
  <2>2. Off' = Off
    BY <2>1 DEF Off
  <2>3. ASSUME NEW u \in People PROVE Back(u)' = Back(u)
    <3>1. CASE S!PayRefund(v)
      <4>1. /\ refunded' = [refunded EXCEPT ![v] = @ + unsettled[v]]
            /\ unsettled' = [unsettled EXCEPT ![v] = 0]
        BY <3>1 DEF S!PayRefund
      <4>2. refunded \in [People -> Nat] /\ unsettled \in [People -> Nat]
        BY DEF S!TypeOK
      <4>3. refunded'[u] + unsettled'[u] = refunded[u] + unsettled[u]
        BY <1>0, <4>1, <4>2
      <4> QED BY <2>1, <4>3 DEF Back
    <3>2. CASE S!PayWinnings(v)
      BY <2>1, <3>2 DEF Back, S!PayWinnings
    <3> QED BY <1>9, <3>1, <3>2
  <2>4. \A u : S!Undisturbed(u)' <=> S!Undisturbed(u)
    BY <2>1, Undisturbing
  <2>5. \A u \in People : Back(u)' <= Back(u)
    BY <1>0, <2>3 DEF Back
  <2>6. \A u \in People : (S!Unmatched(u) \ open)' \subseteq S!Unmatched(u) \ open
    BY <2>1, OrderFacts DEF S!Unmatched
  <2> QED BY <2>1, <2>2, <2>3, <2>4, <2>5, <2>6, BackFrom
<1>10. CASE S!Finish
  <2>1. /\ pc = "pay" /\ pc' = "idle" /\ todo = {}
        /\ UNCHANGED <<calls, open, closed, raced, refunded, crashedAt>>
    BY <1>10 DEF S!Finish
  <2>2. Off' = Off
    BY <2>1 DEF Off
  <2>3. \A u \in People : Back(u)' = Back(u)
    BY <1>0, <2>1 DEF Back, StageInv
  <2> QED BY <1>2, <2>1, <2>2, <2>3
<1>11. CASE S!Crash
  <2>1. /\ pc # "idle" /\ pc' = "idle" /\ crashedAt' = crashedAt \union {pc}
        /\ UNCHANGED <<calls, open, closed, raced, refunded, unsettled>>
    BY <1>11 DEF S!Crash
  <2>2. \A u : S!Undisturbed(u)' <=> S!Undisturbed(u)
    BY <2>1, Undisturbing
  <2>3. Off \subseteq Off'
    BY <2>1 DEF Off
  <2>4. \A u \in People : Back(u)' <= Back(u) /\ (pc # "pay" => Back(u)' = Back(u))
    BY <1>0, <2>1 DEF Back
  <2>5. \A u \in People : (S!Unmatched(u) \ open)' \subseteq S!Unmatched(u) \ open
    BY <2>1, OrderFacts DEF S!Unmatched
  <2> QED BY <2>1, <2>2, <2>3, <2>4, <2>5, BackFrom
<1> QED BY <1>1, <1>4, <1>5, <1>6, <1>7, <1>8, <1>9, <1>10, <1>11 DEF S!Next, LateStep

\* What counted orders win is what the orders with a count win.
LEMMA WinningSum ==
    ASSUME S!TypeOK, NEW u,
           \A o \in Orders : calls[o] \in {0, 1}
    PROVE  SumOver([o \in Orders |-> calls[o] * ReturnOf[o]],
                   {o \in S!OrdersOf(u, Orders) : SideOf[o] = value})
             = SumOver(ReturnOf, Winning(u))
<1>1. PICK g, X, Y, Z : /\ g = [o \in Orders |-> calls[o] * ReturnOf[o]]
                        /\ X = {o \in S!OrdersOf(u, Orders) : SideOf[o] = value}
                        /\ Y = Winning(u) /\ Z = X \ Y
  OBVIOUS
<1>2. X \subseteq Orders /\ Y \subseteq X /\ Z \subseteq X /\ X = Y \union Z /\ Y \intersect Z = {}
  BY <1>1, OrderFacts DEF Winning
<1>3. \A o \in Orders : ReturnOf[o] \in Nat
  BY OrderFacts
<1>4. \A o \in Y : calls[o] = 1
  BY <1>1, <1>2 DEF Winning
<1>5. \A o \in Z : calls[o] = 0
  <2>1. \A o \in Z : ~ (calls[o] > 0)
    BY <1>1 DEF Winning
  <2> QED BY <1>2, <2>1
<1>6. \A i \in Nat : 1 * i = i /\ 0 * i = 0
  OBVIOUS
<1>7. \A o \in Y : g[o] = ReturnOf[o]
  BY <1>1, <1>2, <1>3, <1>4, <1>6
<1>8. \A o \in Z : g[o] = 0
  BY <1>1, <1>2, <1>3, <1>5, <1>6
<1>9. IsFiniteSet(Y) /\ IsFiniteSet(Z)
  BY <1>2, SettlementAssumption, FS_Subset
<1>10. SumOver(g, Y) = SumOver(ReturnOf, Y)
  BY <1>7, <1>9, SumSame
<1>11. SumOver(g, Z) = 0
  BY <1>8, <1>9, SumZero
<1>12. \A o \in Y \union Z : g[o] \in Int
  BY <1>2, <1>3, <1>7, <1>8
<1>13. SumOver(g, Y \union Z) = SumOver(g, Y) + SumOver(g, Z)
  BY <1>2, <1>9, <1>12, SumUnion
<1>14. SumOver(ReturnOf, Y) \in Nat
  BY <1>2, OrderFacts
<1>15. SumOver(g, X) = SumOver(ReturnOf, Y)
  BY <1>2, <1>10, <1>11, <1>13, <1>14
<1> QED BY <1>1, <1>15

\* A step that leaves what u won, and what has been computed and paid for him.
LEMMA WonFrom ==
    ASSUME NEW u \in People, WonOf(u), Winning(u)' = Winning(u), ForSale(u)' = ForSale(u),
           credited'[u] = credited[u],
           u \in paid' => u \in paid,
           status' = "C" => status = "C" \/ (pc = "pay" /\ ~refundOnly /\ u \notin todo),
           pc' \in {"readOpen", "copy", "delete", "pay"} /\ ~refundOnly' =>
               /\ ~refundOnly /\ won' = won /\ todo' = todo
               /\ pc' = pc \/ (pc = "delete" /\ pc' = "pay" /\ u \in todo)
    PROVE  WonOf(u)'
BY DEF WonOf

LEMMA RegularBefore ==
    ASSUME S!TypeOK, S!Next, NEW u \in People, Regular(u)'
    PROVE  Regular(u)
<1> USE DEF S!tables, S!tally, S!ledger, S!history
<1>1. ASSUME NEW o \in Orders, LateStep(o) PROVE Regular(u)
  <2>1. /\ UNCHANGED <<crashedAt, resetFailed, revalued>>
        /\ S!Undisturbed(u)' => S!Undisturbed(u)
    BY <1>1, LateFacts
  <2> QED BY <2>1 DEF Regular
<1>2. ASSUME raced' = raced, crashedAt \subseteq crashedAt', resetFailed => resetFailed',
             revalued => revalued'
      PROVE  Regular(u)
  <2>1. S!Undisturbed(u)' <=> S!Undisturbed(u)
    BY <1>2, Undisturbing
  <2> QED BY <1>2, <2>1 DEF Regular
<1>3. ASSUME NEW v \in S!Sides, S!StartSettle(v) PROVE Regular(u)
  BY <1>2, <1>3 DEF S!StartSettle
<1>4. CASE S!StartRefund \/ S!ReadMatched \/ S!ReadOpen \/ S!CopyOpen \/ S!DeleteOpen
           \/ S!Finish \/ S!Crash \/ S!Reset \/ S!ResetFails
  BY <1>2, <1>4 DEF S!StartRefund, S!ReadMatched, S!ReadOpen, S!CopyOpen, S!DeleteOpen,
     S!Finish, S!Crash, S!Reset, S!ResetFails
<1>5. ASSUME NEW v \in People, S!PayRefund(v) \/ S!PayWinnings(v) PROVE Regular(u)
  BY <1>2, <1>5 DEF S!PayRefund, S!PayWinnings
<1> QED BY <1>1, <1>3, <1>4, <1>5 DEF S!Next, LateStep

LEMMA WonStep ==
    ASSUME S!TypeOK, S!TypeOK', StageInv, StageInv', OpenInv, CallsInv, WonInv, S!Next
    PROVE  WonInv'
<1> SUFFICES ASSUME NEW u \in People, Regular(u)' PROVE WonOf(u)'
  BY DEF WonInv
<1>0. Regular(u) /\ WonOf(u)
  BY RegularBefore DEF WonInv
<1> USE DEF S!tables, S!tally, S!ledger, S!history
<1>1. ASSUME NEW o \in Orders, LateStep(o) PROVE WonOf(u)'
  <2>1. /\ UNCHANGED <<status, value, pc, refundOnly, won, todo, credited, paid>>
        /\ open' \intersect Holding = open \intersect Holding
        /\ \A x \in Orders : x # o => calls'[x] = calls[x]
        /\ UserOf[o] = u => pc \in {"idle", "start"} /\ status # "C" /\ u \notin paid
    BY <1>1, LateFacts DEF Regular
  <2>2. CASE UserOf[o] = u
    BY <2>1, <2>2 DEF WonOf
  <2>3. CASE UserOf[o] # u
    <3>1. Winning(u)' = Winning(u)
      BY <2>1, <2>3, OrderFacts DEF Winning
    <3>2. ForSale(u)' = ForSale(u)
      BY <2>1, OrderFacts DEF ForSale
    <3> QED BY <1>0, <2>1, <3>1, <3>2, WonFrom
  <2> QED BY <2>2, <2>3
<1>2. ASSUME UNCHANGED <<value, calls, open>> PROVE Winning(u)' = Winning(u) /\ ForSale(u)' = ForSale(u)
  BY <1>2, OrderFacts DEF Winning, ForSale
<1>3. ASSUME NEW v \in S!Sides, S!StartSettle(v) PROVE WonOf(u)'
  <2>1. /\ status' = "F" /\ value' = v /\ pc' = "start"
        /\ UNCHANGED <<calls, open, credited, paid>>
        /\ revalued' = (revalued \/ (paid # {} /\ v # value))
    BY <1>3 DEF S!StartSettle
  <2>2. u \in paid => value' = value
    BY <2>1 DEF Regular
  <2>3. CASE u \in paid
    BY <1>0, <1>2, <2>1, <2>2, <2>3 DEF WonOf
  <2>4. CASE u \notin paid
    BY <2>1, <2>4 DEF WonOf
  <2> QED BY <2>3, <2>4
<1>4. CASE S!StartRefund
  <2>1. /\ pc' = "readOpen" /\ refundOnly' /\ status' = status
        /\ UNCHANGED <<value, calls, open, credited, paid>>
    BY <1>4 DEF S!StartRefund
  <2> QED BY <1>0, <1>2, <2>1, WonFrom
<1>5. CASE S!ReadMatched
  <2>1. /\ pc = "start" /\ pc' = "readOpen"
        /\ UNCHANGED <<status, value, calls, open, refundOnly, credited, paid>>
    BY <1>5 DEF S!ReadMatched
  <2>2. \A o \in Orders : calls[o] \in {0, 1}
    BY <1>0, <2>1 DEF CallsInv, Regular
  <2>3. won'[u] = S!Total([o \in Orders |-> calls[o] * ReturnOf[o]],
                          {o \in S!OrdersOf(u, Orders) : SideOf[o] = value})
    BY <1>5 DEF S!ReadMatched
  <2>4. won'[u] = SumOver(ReturnOf, Winning(u))
    BY <2>2, <2>3, TotalIs, WinningSum
  <2> QED BY <1>0, <1>2, <2>1, <2>4 DEF WonOf
<1>6. CASE S!ReadOpen
  <2>1. /\ pc = "readOpen" /\ pc' = "copy"
        /\ UNCHANGED <<status, value, calls, open, refundOnly, credited, paid>>
    BY <1>6 DEF S!ReadOpen
  <2>2. ~refundOnly => won'[u] = won[u] + SumOver(ReturnOf, ForSale(u))
    <3>1. ~refundOnly => won'[u] = won[u] + S!Total(ReturnOf, ForSale(u))
      BY <1>6 DEF S!ReadOpen, ForSale
    <3> QED BY <3>1, TotalIs
  <2>3. PICK X, Y : X = Winning(u) /\ Y = ForSale(u)
    OBVIOUS
  <2>4. X \subseteq Orders /\ Y \subseteq Orders /\ X \intersect Y = {}
    <3>1. \A o \in Y : o \in open \intersect Holding /\ o \in Orders
      BY <2>3, OrderFacts DEF ForSale, S!TypeOK
    <3>2. \A o \in Y : calls[o] = 0
      BY <1>0, <2>1, <3>1 DEF CallsInv, Regular
    <3>3. \A o \in X : o \in Orders /\ calls[o] > 0
      BY <2>3, OrderFacts DEF Winning
    <3>4. \A o \in X : o \notin Y
      BY <3>2, <3>3
    <3> QED BY <3>1, <3>3, <3>4
  <2>5. SumOver(ReturnOf, X \union Y) = SumOver(ReturnOf, X) + SumOver(ReturnOf, Y)
    BY <2>4, OrderFacts, OrderSums
  <2>6. ~refundOnly => won[u] = SumOver(ReturnOf, X)
    BY <1>0, <2>1, <2>3 DEF WonOf
  <2>7. ~refundOnly => won'[u] = SumOver(ReturnOf, X \union Y)
    BY <2>2, <2>3, <2>5, <2>6
  <2> QED BY <1>0, <1>2, <2>1, <2>3, <2>7 DEF WonOf
<1>7. CASE S!CopyOpen
  <2>1. /\ pc = "copy" /\ pc' = "delete" /\ status # "C"
        /\ UNCHANGED <<status, value, open, refundOnly, credited, paid, won, todo>>
        /\ \A o \in Orders : calls'[o] = IF o \in tallied \intersect Holding THEN calls[o] + 1
                                         ELSE calls[o]
    BY <1>7 DEF S!CopyOpen, StageInv
  <2>2. open \intersect Holding = tallied \intersect Holding
    BY <2>1 DEF OpenInv
  <2>3. Winning(u)' = Winning(u) \union ForSale(u)
    <3>1. Winning(u)' = {o \in Orders : UserOf[o] = u /\ SideOf[o] = value /\ calls'[o] > 0}
      BY <2>1, OrderFacts DEF Winning
    <3>2. Winning(u) = {o \in Orders : UserOf[o] = u /\ SideOf[o] = value /\ calls[o] > 0}
      BY OrderFacts DEF Winning
    <3>3. ForSale(u) = {o \in Orders : UserOf[o] = u /\ SideOf[o] = value
                                       /\ o \in tallied \intersect Holding}
      BY <2>2, OrderFacts DEF ForSale, S!TypeOK
    <3>4. \A o \in Orders : calls[o] \in Nat
      BY DEF S!TypeOK
    <3>5. \A o \in Orders : calls'[o] > 0 <=> calls[o] > 0 \/ o \in tallied \intersect Holding
      BY <2>1, <3>4
    <3> QED BY <3>1, <3>2, <3>3, <3>5
  <2>4. u \in paid => Winning(u)' = Winning(u)
    <3>1. paid # {} => ForSale(u) = {}
      BY OrderFacts DEF OpenInv, ForSale
    <3> QED BY <2>3, <3>1
  <2> QED BY <1>0, <2>1, <2>3, <2>4 DEF WonOf
<1>8. CASE S!DeleteOpen
  <2>1. /\ pc = "delete" /\ pc' = "pay" /\ todo = People
        /\ UNCHANGED <<status, value, calls, refundOnly, credited, paid, won, todo>>
    BY <1>8 DEF S!DeleteOpen, StageInv
  <2>2. Winning(u)' = Winning(u)
    BY <2>1, OrderFacts DEF Winning
  <2> QED BY <1>0, <2>1, <2>2 DEF WonOf
<1>9. ASSUME NEW v \in People, S!PayRefund(v) PROVE WonOf(u)'
  <2>1. UNCHANGED <<status, value, pc, refundOnly, calls, open, won, todo, credited, paid>>
    BY <1>9 DEF S!PayRefund
  <2> QED BY <1>0, <1>2, <2>1, WonFrom
<1>10. ASSUME NEW v \in People, S!PayWinnings(v) PROVE WonOf(u)'
  <2>1. /\ pc = "pay" /\ pc' = "pay" /\ todo' = todo \ {v} /\ status # "C"
        /\ UNCHANGED <<status, value, refundOnly, calls, open, won>>
    BY <1>10 DEF S!PayWinnings, StageInv
  <2>2. \/ /\ won[v] > 0 /\ v \notin paid /\ paid' = paid \union {v}
           /\ credited' = [credited EXCEPT ![v] = @ + won[v]]
        \/ /\ ~(won[v] > 0 /\ v \notin paid) /\ UNCHANGED <<credited, paid>>
    BY <1>10 DEF S!PayWinnings
  <2>3. Winning(u)' = Winning(u)
    BY <1>2, <2>1
  <2>4. CASE u # v
    <3>1. credited'[u] = credited[u] /\ (u \in paid' <=> u \in paid) /\ (u \in todo' <=> u \in todo)
      BY <2>1, <2>2, <2>4 DEF S!TypeOK
    <3> QED BY <1>0, <2>1, <2>3, <3>1 DEF WonOf
  <2>5. CASE u = v
    <3>1. credited[u] \in Nat /\ won[u] \in Nat
      BY DEF S!TypeOK
    <3>2. CASE u \in paid
      <4>1. UNCHANGED <<credited, paid>>
        BY <2>2, <2>5, <3>2
      <4> QED BY <1>0, <2>1, <2>3, <3>2, <4>1 DEF WonOf
    <3>3. CASE u \notin paid
      <4>1. credited[u] = 0
        BY <3>3 DEF StageInv
      <4>2. credited'[u] = won[u]
        BY <2>2, <2>5, <3>1, <3>3, <4>1 DEF S!TypeOK
      <4>3. refundOnly => u \notin paid'
        <5>1. refundOnly => won[u] = 0
          BY <2>1 DEF StageInv
        <5> QED BY <2>2, <2>5, <3>3, <5>1
      <4>4. ~refundOnly => won[u] = SumOver(ReturnOf, Winning(u))
        BY <1>0, <2>1 DEF WonOf
      <4> QED BY <2>1, <2>3, <4>2, <4>3, <4>4 DEF WonOf
    <3> QED BY <3>2, <3>3
  <2> QED BY <2>4, <2>5
<1>11. CASE S!Finish
  <2>1. /\ pc = "pay" /\ pc' = "idle" /\ todo = {} /\ refundOnly' = refundOnly
        /\ (status' = IF refundOnly THEN status ELSE "C")
        /\ UNCHANGED <<value, calls, open, credited, paid>>
    BY <1>11 DEF S!Finish
  <2> QED BY <1>0, <1>2, <2>1, WonFrom
<1>12. CASE S!Crash
  <2>1. pc' = "idle" /\ UNCHANGED <<status, value, calls, open, credited, paid, refundOnly>>
    BY <1>12 DEF S!Crash
  <2> QED BY <1>0, <1>2, <2>1, WonFrom
<1>13. CASE S!Reset
  BY <1>13 DEF S!Reset, WonOf
<1>14. CASE S!ResetFails
  BY <1>14 DEF S!ResetFails, Regular
<1> QED BY <1>1, <1>3, <1>4, <1>5, <1>6, <1>7, <1>8, <1>9, <1>10, <1>11, <1>12, <1>13, <1>14
        DEF S!Next, LateStep

LEMMA SettlementInit == S!Init => SettlementInv
<1> SUFFICES ASSUME S!Init PROVE SettlementInv
  OBVIOUS
<1>1. S!TypeOK
  <2>1. calls \in [Orders -> Nat] /\ open \subseteq Orders
    BY DEF S!Init
  <2>2. {won, unsettled, credited, refunded} \subseteq [People -> Nat]
    BY DEF S!Init, S!Nothing
  <2>3. runs \in 0 .. Settlements
    BY SettlementAssumption DEF S!Init
  <2> QED BY <2>1, <2>2, <2>3 DEF S!Init, S!TypeOK, S!Sides
<1>2. StageInv /\ OpenInv
  BY DEF S!Init, S!Nothing, StageInv, OpenInv
<1>3. CallsInv
  <2>1. \A o \in Holding : o \in Orders /\ o \in open /\ o \notin Matched
    BY SettlementAssumption DEF S!Init
  <2> QED BY <2>1 DEF S!Init, CallsInv
<1>4. BackInv
  <2>1. /\ pc = "idle" /\ closed = {} /\ open = Orders \ (Matched \union Late)
        /\ calls = [o \in Orders |-> IF o \in Matched THEN 1 ELSE 0]
        /\ \A u \in People : refunded[u] = 0
    BY DEF S!Init, S!Nothing
  <2>2. \A u \in People : Back(u) = 0
    BY <2>1 DEF Back
  <2>3. ASSUME NEW u \in People
        PROVE  S!OrdersOf(u, Off) = {} /\ S!Unmatched(u) \ open = {}
    <3>1. S!OrdersOf(u, Off) = {}
      BY <2>1, OrderFacts DEF Off
    <3>2. \A o \in S!Unmatched(u) : o \in open
      BY <2>1, OrderFacts DEF S!Unmatched
    <3> QED BY <3>1, <3>2
  <2>4. SumOver(CostOf, {}) = 0
    BY SumEmpty
  <2> QED BY <2>1, <2>2, <2>3, <2>4 DEF BackInv
<1>5. WonInv
  BY DEF S!Init, WonInv, WonOf
<1> QED BY <1>1, <1>2, <1>3, <1>4, <1>5 DEF SettlementInv

LEMMA SettlementInvariant ==
    /\ S!Init => SettlementInv
    /\ SettlementInv /\ [S!Next]_(S!vars) => SettlementInv'
<1>1. ASSUME SettlementInv, S!Next PROVE SettlementInv'
  <2>1. S!TypeOK /\ StageInv /\ OpenInv /\ CallsInv /\ BackInv /\ WonInv
    BY <1>1 DEF SettlementInv
  <2>2. S!TypeOK' /\ StageInv' /\ OpenInv' /\ CallsInv'
    BY <1>1, <2>1, SettlementTypeStep, StageStep, OpenStep, CallsStep
  <2>3. BackInv' /\ WonInv'
    BY <1>1, <2>1, <2>2, BackStep, WonStep
  <2> QED BY <2>2, <2>3 DEF SettlementInv
<1>2. ASSUME SettlementInv, UNCHANGED S!vars PROVE SettlementInv'
  <2>1. UNCHANGED <<status, value, pc, refundOnly, calls, open, closed, won, unsettled, tallied,
                    todo, credited, paid, refunded, runs, crashedAt, raced, resetFailed,
                    revalued>>
    BY <1>2 DEF S!vars, S!tables, S!tally, S!ledger, S!history
  <2>2. S!TypeOK' /\ StageInv' /\ CallsInv'
    BY <1>2, <2>1 DEF SettlementInv, S!TypeOK, StageInv, CallsInv
  <2>3. \A u : S!Undisturbed(u)' <=> S!Undisturbed(u)
    BY <2>1, Undisturbing
  <2>4. OpenInv'
    BY <1>2, <2>1, <2>3 DEF SettlementInv, OpenInv, S!OrdersOf
  <2>5. /\ Off' = Off /\ \A u \in People : Back(u)' = Back(u)
        /\ \A u \in People : (S!Unmatched(u) \ open)' = S!Unmatched(u) \ open
    BY <2>1, OrderFacts DEF Off, Back, S!Unmatched
  <2>6. BackInv'
    BY <1>2, <2>1, <2>3, <2>5 DEF SettlementInv, BackInv
  <2>7. \A u \in People : /\ Regular(u)' <=> Regular(u)
                          /\ Winning(u)' = Winning(u) /\ ForSale(u)' = ForSale(u)
    BY <2>1, <2>3, OrderFacts DEF Regular, Winning, ForSale
  <2>8. WonInv'
    BY <1>2, <2>1, <2>7 DEF SettlementInv, WonInv, WonOf
  <2> QED BY <2>2, <2>4, <2>6, <2>8 DEF SettlementInv
<1> QED BY <1>1, <1>2, SettlementInit

LEMMA SettlementIsPart ==
    /\ Init => (part = "settlement" => SettlementInv)
    /\ (part = "settlement" => SettlementInv) /\ [Next]_vars
           => (part = "settlement" => SettlementInv)'
<1>1. Init => (part = "settlement" => SettlementInv)
  BY SettlementInvariant, OneOfThem
<1>2. ASSUME part = "settlement" => SettlementInv, [Next]_vars, part' = "settlement"
      PROVE  SettlementInv'
  <2>1. part = "settlement" /\ [S!Next]_(S!vars)
    BY <1>2, OneOfThem
  <2> QED BY <1>2, <2>1, SettlementInvariant
<1> QED BY <1>1, <1>2

\* Every variable of a settlement keeps its type.
THEOREM SettlementTyped == S!Spec => []S!TypeOK
<1>1. SettlementInv => S!TypeOK
  BY DEF SettlementInv
<1> QED BY <1>1, SettlementInvariant, PTL DEF S!Spec

\* A settled event has credited each user what his orders won, however often the
\* settlement crashed, was repeated, or was reset, but for the property's exceptions:
\* for any users, orders, sides and prices (settle, by the id of the transaction).
THEOREM WinningsPaidExactlyHolds ==
    (S!Spec => []S!WinningsPaidExactly) /\ (Spec => []WinningsPaidExactly)
<1>1. ASSUME SettlementInv PROVE S!WinningsPaidExactly
  <2>1. ASSUME status = "C", NEW u \in People, Regular(u) PROVE credited[u] = S!Due(u)
    <3>1. credited[u] = SumOver(ReturnOf, Winning(u))
      BY <1>1, <2>1 DEF SettlementInv, WonInv, WonOf
    <3>2. S!Due(u) = S!Total(ReturnOf, Winning(u))
      BY DEF S!Due, Winning
    <3> QED BY <3>1, <3>2, TotalIs
  <2> QED BY <2>1 DEF S!WinningsPaidExactly, Regular
<1>2. (part = "settlement" => SettlementInv) => WinningsPaidExactly
  BY <1>1 DEF WinningsPaidExactly
<1> QED BY <1>1, <1>2, SettlementInvariant, SettlementIsPart, PTL DEF S!Spec, Spec

\* What a user gets back for orders nothing matched is never more than those orders
\* cost, and when the event is settled not less, but for a crash while paying and the
\* orders the matching engine moved: although no refund looks for an earlier one.
THEOREM RefundedExactlyHolds ==
    (S!Spec => []S!RefundedExactly) /\ (Spec => []RefundedExactly)
<1>1. ASSUME SettlementInv PROVE S!RefundedExactly
  <2>0. \A u \in People : refunded[u] \in Nat /\ unsettled[u] \in Nat
    BY <1>1 DEF SettlementInv, S!TypeOK
  <2>1. ASSUME NEW u \in People PROVE refunded[u] <= S!Total(CostOf, S!OrdersOf(u, closed))
    <3>1. PICK X, Y : X = S!OrdersOf(u, Off) /\ Y = S!OrdersOf(u, closed)
      OBVIOUS
    <3>2. X \subseteq Y /\ Y \subseteq Orders
      BY <1>1, <3>1, OrderFacts DEF SettlementInv, Off, S!TypeOK
    <3>3. SumOver(CostOf, X) <= SumOver(CostOf, Y) /\ SumOver(CostOf, X) \in Nat
          /\ SumOver(CostOf, Y) \in Nat
      BY <3>2, OrderFacts, OrderSums
    <3>4. Back(u) <= SumOver(CostOf, X)
      BY <1>1, <3>1 DEF SettlementInv, BackInv
    <3>5. refunded[u] <= Back(u) /\ Back(u) \in Nat
      BY <2>0 DEF Back
    <3>6. \A i, j, k, l \in Nat : i <= j /\ j <= k /\ k <= l => i <= l
      OBVIOUS
    <3>7. refunded[u] <= SumOver(CostOf, Y)
      BY <2>0, <3>3, <3>4, <3>5, <3>6
    <3> QED BY <3>1, <3>7, TotalIs
  <2>2. ASSUME status = "C", "pay" \notin crashedAt, NEW u \in People, S!Undisturbed(u)
        PROVE  refunded[u] >= S!Total(CostOf, S!Unmatched(u))
    <3>1. PICK X : X = S!Unmatched(u)
      OBVIOUS
    <3>2. S!OrdersOf(u, open) = {}
      BY <1>1, <2>2 DEF SettlementInv, OpenInv
    <3>3. X \ open = X /\ X \subseteq Orders
      BY <3>1, <3>2, OrderFacts DEF S!Unmatched
    <3>4. SumOver(CostOf, X) <= Back(u)
      BY <1>1, <2>2, <3>1, <3>3 DEF SettlementInv, BackInv
    <3>5. pc = "idle"
      BY <1>1, <2>2 DEF SettlementInv, StageInv
    <3>6. Back(u) = refunded[u]
      BY <2>0, <3>5 DEF Back
    <3>7. SumOver(CostOf, X) \in Nat
      BY <3>3, OrderFacts
    <3>8. \A i, j \in Nat : i <= j => j >= i
      OBVIOUS
    <3>9. refunded[u] >= SumOver(CostOf, X)
      BY <2>0, <3>4, <3>6, <3>7, <3>8
    <3> QED BY <3>1, <3>9, TotalIs
  <2> QED BY <2>1, <2>2 DEF S!RefundedExactly, S!RefundAtMostOnce, S!RefundAtLeastOnce
<1>2. (part = "settlement" => SettlementInv) => RefundedExactly
  BY <1>1 DEF RefundedExactly
<1> QED BY <1>1, <1>2, SettlementInvariant, SettlementIsPart, PTL DEF S!Spec, Spec

-------------------------------------------------------------------------------
(* TRANSFERS.  What is in the wallets, with the partner and paid out by the  *)
(* gateway always is what was there and what the requests have done to it so *)
(* far; a request that is not midway has done what it brings.                *)

StepsOf(k) == T!HandlerOf[k].steps
ItemsOf(k) == T!HandlerOf[k].items

\* The coins that the first n items of handler k move.
CoinsOf(k, n) ==
    (IF n >= 1 THEN ItemsOf(k)[1][2] ELSE 0)
        + (IF n >= 2 THEN ItemsOf(k)[2][2] ELSE 0)
        + (IF n >= 3 THEN ItemsOf(k)[3][2] ELSE 0)

\* A step is among the first j of handler k.
Among(k, j, s) == \E i \in 1 .. j : StepsOf(k)[i] = s

\* The steps a request has made.
Made(r) == IF pc[r] = "ok" THEN at[r] ELSE at[r] - 1

\* What it takes j steps and n items of handler k to do to the sum of all.
EffectOf(k, j, n) ==
    CoinsOf(k, n) + (IF Among(k, j, "partner") THEN 1 ELSE 0)
                  + (IF Among(k, j, "confirm") THEN 1 ELSE 0)
BroughtBy(k, n) ==
    IF k \in {"bonusList", "bonus", "creditMetaOne"} THEN n
    ELSE IF k = "transferI" /\ n > 0 THEN 1 ELSE 0

Effect(r) == EffectOf(kind[r], Made(r), item[r])

\* The items come with the step that executes them.
Shape(k, j, n) ==
    /\ j \in 0 .. Len(StepsOf(k)) /\ n \in 0 .. Len(ItemsOf(k))
    /\ k = "bonusList" => n \in {j, j + 1} /\ n <= 2
    /\ k # "bonusList" =>
           /\ Among(k, j, "execute") => n = Len(ItemsOf(k))
           /\ n = 0 \/ Among(k, j, "execute")
                    \/ (j < Len(StepsOf(k)) /\ StepsOf(k)[j + 1] = "execute"
                                            /\ n < Len(ItemsOf(k)))

ShapeInv ==
    \A r \in Requests :
        /\ Shape(kind[r], Made(r), item[r])
        /\ pc[r] = "idle" => at[r] = 1 /\ item[r] = 0
        /\ pc[r] = "ok" => at[r] = Len(StepsOf(kind[r]))
        /\ pc[r] = "refused" =>
               StepsOf(kind[r])[at[r]] \in {"balance", "count", "countCrypto", "confirm"}

\* While none broke off between two effects, who broke off has done what he brings.
EvenInv ==
    ~broken => \A r \in Requests :
        pc[r] = "broken" => Effect(r) = BroughtBy(kind[r], item[r])

\* The sum of all, but for orders that were confirmed again.
SumInv ==
    /\ partner \in Nat /\ IsFiniteSet(confirmed)
    /\ ~twice => SumOver(balance, T!Purses) + partner + Cardinality(confirmed)
                     = SumOver(Balances, T!Purses)
                           + SumOver([r \in Requests |-> Effect(r)], Requests)

\* The orders confirmed, debited and made: one, unless a second was made beside it.
OrdersInv ==
    LET ids == {row.id : row \in rows}
    IN  /\ \A r \in Requests : Among(kind[r], Made(r), "confirm") => order[r] \in ids
        /\ debited \subseteq ids
        /\ ~pending => \A i, j \in ids : i = j

\* Who has passed the count has counted nothing.
CountInv ==
    /\ \A r \in Requests :
           Among(kind[r], Made(r), "count") \/ Among(kind[r], Made(r), "countCrypto") =>
               counted[r] = {}
    /\ ~raced => \A q, r \in made : q = r

TransferInv ==
    T!TypeOK /\ ShapeInv /\ EvenInv /\ SumInv /\ OrdersInv /\ CountInv

\* What the proofs use of handler k: its steps are different ones, and what comes before
\* and after some of them.
HandlerFacts(k) ==
    LET steps == StepsOf(k)
        items == ItemsOf(k)
    IN  /\ Len(steps) \in 1 .. 3 /\ DOMAIN steps = 1 .. Len(steps)
        /\ Len(items) \in 0 .. 3
        /\ \A n \in 1 .. Len(items) : items[n][1] \in T!Purses /\ items[n][2] \in Int
        /\ \A i, j \in 1 .. Len(steps) : steps[i] = steps[j] => i = j
        /\ \A i \in 1 .. Len(steps) :
               /\ steps[i] = "execute" => Len(items) > 0
               /\ steps[i] = "undefined" => i = 1 /\ Len(items) = 0
               /\ steps[i] = "err" => k = "bonusList" /\ i = 2
               /\ steps[i] = "close" => k = "confirm" /\ i = 3 /\ steps[1] = "confirm"
               /\ steps[i] \in {"count", "countCrypto"} => i = 2 /\ steps[1] = "balance"
               /\ steps[i] = "order" => i = 3 /\ steps[2] = "countCrypto"
               /\ steps[i] = "execute" /\ k = "convertToDeposit" => i = 3 /\ steps[2] = "count"
               /\ steps[i] = "execute" /\ k = "confirm" => i = 2 /\ steps[1] = "confirm"
               /\ steps[i] = "execute" /\ k = "bonusList" => i = 1
        /\ k = "bonusList" => Len(steps) = 2 /\ Len(items) = 2

\* A request that is not halfway through its effects, or is through all its steps, or
\* has been refused, has done what it brings.
Halfway(k, j, n) ==
    \/ n \in 1 .. Len(ItemsOf(k)) - 1
    \/ j > 0 /\ StepsOf(k)[j] \in {"partner", "confirm", "execute"}

Through(k, j, n) ==
    \/ ~Halfway(k, j, n)
    \/ j = Len(StepsOf(k))
    \/ k = "bonusList" /\ n = 2
    \/ StepsOf(k)[j + 1] \in {"balance", "count", "countCrypto", "confirm"}


LEMMA AmongIs ==
    ASSUME NEW k, NEW j \in 0 .. 3, NEW s
    PROVE  Among(k, j, s) <=> \/ j >= 1 /\ StepsOf(k)[1] = s
                              \/ j >= 2 /\ StepsOf(k)[2] = s
                              \/ j >= 3 /\ StepsOf(k)[3] = s
<1>1. \A i : i \in 1 .. j <=> (j >= 1 /\ i = 1) \/ (j >= 2 /\ i = 2) \/ (j >= 3 /\ i = 3)
  OBVIOUS
<1> QED BY <1>1, Zenon DEF Among

LEMMA TransferHandlers ==
    ASSUME NEW k \in DOMAIN T!HandlerOf
    PROVE  /\ HandlerFacts(k)
           /\ \A j, n \in 0 .. 3 : Shape(k, j, n) =>
                  (Through(k, j, n) => EffectOf(k, j, n) = BroughtBy(k, n))
<1> DEFINE S1 == StepsOf(k)[1]
           S2 == StepsOf(k)[2]
           S3 == StepsOf(k)[3]
<1>1. \A j \in 0 .. 3 : \A s :
          Among(k, j, s) <=> (j >= 1 /\ S1 = s) \/ (j >= 2 /\ S2 = s) \/ (j >= 3 /\ S3 = s)
  BY AmongIs
<1>2. CASE k = "convertToDeposit"
  <2>1. StepsOf(k) = <<"balance", "count", "execute">> /\ ItemsOf(k) = << <<"tokens", -1>>, <<"deposit", 1>> >>
    BY <1>2 DEF StepsOf, ItemsOf, T!HandlerOf, T!ConvertToDeposit, T!Handler
  <2>2. /\ Len(StepsOf(k)) = 3 /\ DOMAIN StepsOf(k) = 1 .. 3 /\ Len(ItemsOf(k)) = 2
        /\ S1 = "balance" /\ S2 = "count" /\ S3 = "execute"
        /\ ItemsOf(k)[1][1] = "tokens" /\ ItemsOf(k)[1][2] = -1
        /\ ItemsOf(k)[2][1] = "deposit" /\ ItemsOf(k)[2][2] = 1
    BY <2>1
  <2>3. HandlerFacts(k)
    BY <1>2, <2>2 DEF HandlerFacts, T!Purses
  <2>4. ASSUME NEW j \in 0 .. 3, NEW n \in 0 .. 3, Shape(k, j, n), Through(k, j, n)
        PROVE  EffectOf(k, j, n) = BroughtBy(k, n)
    BY <1>2, <1>1, <2>2, <2>4 DEF Shape, Through, Halfway, EffectOf, BroughtBy, CoinsOf
  <2> QED BY <2>3, <2>4
<1>3. CASE k = "convertToCrypto"
  <2>1. StepsOf(k) = <<"balance", "countCrypto", "order">> /\ ItemsOf(k) = <<>>
    BY <1>3 DEF StepsOf, ItemsOf, T!HandlerOf, T!ConvertToCrypto, T!Handler
  <2>2. /\ Len(StepsOf(k)) = 3 /\ DOMAIN StepsOf(k) = 1 .. 3 /\ Len(ItemsOf(k)) = 0
        /\ S1 = "balance" /\ S2 = "countCrypto" /\ S3 = "order"
    BY <2>1
  <2>3. HandlerFacts(k)
    BY <1>3, <2>2 DEF HandlerFacts, T!Purses
  <2>4. ASSUME NEW j \in 0 .. 3, NEW n \in 0 .. 3, Shape(k, j, n), Through(k, j, n)
        PROVE  EffectOf(k, j, n) = BroughtBy(k, n)
    BY <1>3, <1>1, <2>2, <2>4 DEF Shape, Through, Halfway, EffectOf, BroughtBy, CoinsOf
  <2> QED BY <2>3, <2>4
<1>4. CASE k = "confirm"
  <2>1. StepsOf(k) = <<"confirm", "execute", "close">> /\ ItemsOf(k) = << <<"tokens", -1>> >>
    BY <1>4 DEF StepsOf, ItemsOf, T!HandlerOf, T!ConfirmConvertToCrypto, T!Handler
  <2>2. /\ Len(StepsOf(k)) = 3 /\ DOMAIN StepsOf(k) = 1 .. 3 /\ Len(ItemsOf(k)) = 1
        /\ S1 = "confirm" /\ S2 = "execute" /\ S3 = "close"
        /\ ItemsOf(k)[1][1] = "tokens" /\ ItemsOf(k)[1][2] = -1
    BY <2>1
  <2>3. HandlerFacts(k)
    BY <1>4, <2>2, SMTT(30) DEF HandlerFacts, T!Purses
  <2>4. ASSUME NEW j \in 0 .. 3, NEW n \in 0 .. 3, Shape(k, j, n), Through(k, j, n)
        PROVE  EffectOf(k, j, n) = BroughtBy(k, n)
    BY <1>4, <1>1, <2>2, <2>4 DEF Shape, Through, Halfway, EffectOf, BroughtBy, CoinsOf
  <2> QED BY <2>3, <2>4
<1>5. CASE k = "notify"
  <2>1. StepsOf(k) = <<"undefined">> /\ ItemsOf(k) = <<>>
    BY <1>5 DEF StepsOf, ItemsOf, T!HandlerOf, T!NotifyConvertToCrypto, T!Handler
  <2>2. /\ Len(StepsOf(k)) = 1 /\ DOMAIN StepsOf(k) = 1 .. 1 /\ Len(ItemsOf(k)) = 0
        /\ S1 = "undefined"
    BY <2>1
  <2>3. HandlerFacts(k)
    BY <1>5, <2>2 DEF HandlerFacts, T!Purses
  <2>4. ASSUME NEW j \in 0 .. 3, NEW n \in 0 .. 3, Shape(k, j, n), Through(k, j, n)
        PROVE  EffectOf(k, j, n) = BroughtBy(k, n)
    BY <1>5, <1>1, <2>2, <2>4 DEF Shape, Through, Halfway, EffectOf, BroughtBy, CoinsOf
  <2> QED BY <2>3, <2>4
<1>6. CASE k = "debitMetaOne"
  <2>1. StepsOf(k) = <<"balance", "execute", "partner">> /\ ItemsOf(k) = << <<"deposit", -1>> >>
    BY <1>6 DEF StepsOf, ItemsOf, T!HandlerOf, T!DebitPartnerUserWallet, T!Handler
  <2>2. /\ Len(StepsOf(k)) = 3 /\ DOMAIN StepsOf(k) = 1 .. 3 /\ Len(ItemsOf(k)) = 1
        /\ S1 = "balance" /\ S2 = "execute" /\ S3 = "partner"
        /\ ItemsOf(k)[1][1] = "deposit" /\ ItemsOf(k)[1][2] = -1
    BY <2>1
  <2>3. HandlerFacts(k)
    BY <1>6, <2>2, SMTT(30) DEF HandlerFacts, T!Purses
  <2>4. ASSUME NEW j \in 0 .. 3, NEW n \in 0 .. 3, Shape(k, j, n), Through(k, j, n)
        PROVE  EffectOf(k, j, n) = BroughtBy(k, n)
    BY <1>6, <1>1, <2>2, <2>4 DEF Shape, Through, Halfway, EffectOf, BroughtBy, CoinsOf
  <2> QED BY <2>3, <2>4
<1>7. CASE k = "debitMyMaster"
  <2>1. StepsOf(k) = <<"balance", "partner", "execute">> /\ ItemsOf(k) = << <<"deposit", -1>> >>
    BY <1>7 DEF StepsOf, ItemsOf, T!HandlerOf, T!DebitMyMaster11, T!Handler
  <2>2. /\ Len(StepsOf(k)) = 3 /\ DOMAIN StepsOf(k) = 1 .. 3 /\ Len(ItemsOf(k)) = 1
        /\ S1 = "balance" /\ S2 = "partner" /\ S3 = "execute"
        /\ ItemsOf(k)[1][1] = "deposit" /\ ItemsOf(k)[1][2] = -1
    BY <2>1
  <2>3. HandlerFacts(k)
    BY <1>7, <2>2, SMTT(30) DEF HandlerFacts, T!Purses
  <2>4. ASSUME NEW j \in 0 .. 3, NEW n \in 0 .. 3, Shape(k, j, n), Through(k, j, n)
        PROVE  EffectOf(k, j, n) = BroughtBy(k, n)
    BY <1>7, <1>1, <2>2, <2>4 DEF Shape, Through, Halfway, EffectOf, BroughtBy, CoinsOf
  <2> QED BY <2>3, <2>4
<1>8. CASE k = "creditMetaOne"
  <2>1. StepsOf(k) = <<"execute">> /\ ItemsOf(k) = << <<"deposit", 1>> >>
    BY <1>8 DEF StepsOf, ItemsOf, T!HandlerOf, T!CreditPartnerUserWallet, T!Handler
  <2>2. /\ Len(StepsOf(k)) = 1 /\ DOMAIN StepsOf(k) = 1 .. 1 /\ Len(ItemsOf(k)) = 1
        /\ S1 = "execute"
        /\ ItemsOf(k)[1][1] = "deposit" /\ ItemsOf(k)[1][2] = 1
    BY <2>1
  <2>3. HandlerFacts(k)
    BY <1>8, <2>2 DEF HandlerFacts, T!Purses
  <2>4. ASSUME NEW j \in 0 .. 3, NEW n \in 0 .. 3, Shape(k, j, n), Through(k, j, n)
        PROVE  EffectOf(k, j, n) = BroughtBy(k, n)
    BY <1>8, <1>1, <2>2, <2>4 DEF Shape, Through, Halfway, EffectOf, BroughtBy, CoinsOf
  <2> QED BY <2>3, <2>4
<1>9. CASE k = "refunds"
  <2>1. StepsOf(k) = <<"balance", "execute">> /\ ItemsOf(k) = << <<"deposit", 1>>, <<"peer", 1>>, <<"fund", -2>> >>
    BY <1>9 DEF StepsOf, ItemsOf, T!HandlerOf, T!InitiateRefunds, T!Handler
  <2>2. /\ Len(StepsOf(k)) = 2 /\ DOMAIN StepsOf(k) = 1 .. 2 /\ Len(ItemsOf(k)) = 3
        /\ S1 = "balance" /\ S2 = "execute"
        /\ ItemsOf(k)[1][1] = "deposit" /\ ItemsOf(k)[1][2] = 1
        /\ ItemsOf(k)[2][1] = "peer" /\ ItemsOf(k)[2][2] = 1
        /\ ItemsOf(k)[3][1] = "fund" /\ ItemsOf(k)[3][2] = -2
    BY <2>1
  <2>3. HandlerFacts(k)
    BY <1>9, <2>2 DEF HandlerFacts, T!Purses
  <2>4. ASSUME NEW j \in 0 .. 3, NEW n \in 0 .. 3, Shape(k, j, n), Through(k, j, n)
        PROVE  EffectOf(k, j, n) = BroughtBy(k, n)
    <3>1. CoinsOf(k, 0) = 0 /\ CoinsOf(k, 3) = 0
      BY <2>2 DEF CoinsOf
    <3>2. n = 0 \/ n = 3
      BY <1>9, <1>1, <2>2, <2>4 DEF Shape, Through, Halfway
    <3>3. ~Among(k, j, "partner") /\ ~Among(k, j, "confirm") /\ BroughtBy(k, n) = 0
      BY <1>9, <1>1, <2>2, <2>4 DEF Shape, BroughtBy
    <3>4. EffectOf(k, j, n) = (CoinsOf(k, n) + 0) + 0
      BY <3>3 DEF EffectOf
    <3> QED BY <3>1, <3>2, <3>3, <3>4
  <2> QED BY <2>3, <2>4
<1>10. CASE k = "luckyCoins"
  <2>1. StepsOf(k) = <<"balance", "execute">> /\ ItemsOf(k) = << <<"tokens", 1>>, <<"promo", -1>> >>
    BY <1>10 DEF StepsOf, ItemsOf, T!HandlerOf, T!CreditLuckyCoins, T!Handler
  <2>2. /\ Len(StepsOf(k)) = 2 /\ DOMAIN StepsOf(k) = 1 .. 2 /\ Len(ItemsOf(k)) = 2
        /\ S1 = "balance" /\ S2 = "execute"
        /\ ItemsOf(k)[1][1] = "tokens" /\ ItemsOf(k)[1][2] = 1
        /\ ItemsOf(k)[2][1] = "promo" /\ ItemsOf(k)[2][2] = -1
    BY <2>1
  <2>3. HandlerFacts(k)
    BY <1>10, <2>2 DEF HandlerFacts, T!Purses
  <2>4. ASSUME NEW j \in 0 .. 3, NEW n \in 0 .. 3, Shape(k, j, n), Through(k, j, n)
        PROVE  EffectOf(k, j, n) = BroughtBy(k, n)
    BY <1>10, <1>1, <2>2, <2>4 DEF Shape, Through, Halfway, EffectOf, BroughtBy, CoinsOf
  <2> QED BY <2>3, <2>4
<1>11. CASE k = "transferW"
  <2>1. StepsOf(k) = <<"execute">> /\ ItemsOf(k) = << <<"deposit", -1>>, <<"peer", 1>> >>
    BY <1>11 DEF StepsOf, ItemsOf, T!HandlerOf, T!TransferFunds, T!Handler
  <2>2. /\ Len(StepsOf(k)) = 1 /\ DOMAIN StepsOf(k) = 1 .. 1 /\ Len(ItemsOf(k)) = 2
        /\ S1 = "execute"
        /\ ItemsOf(k)[1][1] = "deposit" /\ ItemsOf(k)[1][2] = -1
        /\ ItemsOf(k)[2][1] = "peer" /\ ItemsOf(k)[2][2] = 1
    BY <2>1
  <2>3. HandlerFacts(k)
    BY <1>11, <2>2 DEF HandlerFacts, T!Purses
  <2>4. ASSUME NEW j \in 0 .. 3, NEW n \in 0 .. 3, Shape(k, j, n), Through(k, j, n)
        PROVE  EffectOf(k, j, n) = BroughtBy(k, n)
    BY <1>11, <1>1, <2>2, <2>4 DEF Shape, Through, Halfway, EffectOf, BroughtBy, CoinsOf
  <2> QED BY <2>3, <2>4
<1>12. CASE k = "transferI"
  <2>1. StepsOf(k) = <<"execute">> /\ ItemsOf(k) = << <<"deposit", 1>>, <<"deposit", -1>>, <<"fund", 1>> >>
    BY <1>12 DEF StepsOf, ItemsOf, T!HandlerOf, T!TransferFundsIn, T!Handler
  <2>2. /\ Len(StepsOf(k)) = 1 /\ DOMAIN StepsOf(k) = 1 .. 1 /\ Len(ItemsOf(k)) = 3
        /\ S1 = "execute"
        /\ ItemsOf(k)[1][1] = "deposit" /\ ItemsOf(k)[1][2] = 1
        /\ ItemsOf(k)[2][1] = "deposit" /\ ItemsOf(k)[2][2] = -1
        /\ ItemsOf(k)[3][1] = "fund" /\ ItemsOf(k)[3][2] = 1
    BY <2>1
  <2>3. HandlerFacts(k)
    BY <1>12, <2>2 DEF HandlerFacts, T!Purses
  <2>4. ASSUME NEW j \in 0 .. 3, NEW n \in 0 .. 3, Shape(k, j, n), Through(k, j, n)
        PROVE  EffectOf(k, j, n) = BroughtBy(k, n)
    BY <1>12, <1>1, <2>2, <2>4 DEF Shape, Through, Halfway, EffectOf, BroughtBy, CoinsOf
  <2> QED BY <2>3, <2>4
<1>13. CASE k = "bonusList"
  <2>1. StepsOf(k) = <<"execute", "err">> /\ ItemsOf(k) = << <<"peer", 1>>, <<"deposit", 1>> >>
    BY <1>13 DEF StepsOf, ItemsOf, T!HandlerOf, T!AddBonusToList, T!Handler
  <2>2. /\ Len(StepsOf(k)) = 2 /\ DOMAIN StepsOf(k) = 1 .. 2 /\ Len(ItemsOf(k)) = 2
        /\ S1 = "execute" /\ S2 = "err"
        /\ ItemsOf(k)[1][1] = "peer" /\ ItemsOf(k)[1][2] = 1
        /\ ItemsOf(k)[2][1] = "deposit" /\ ItemsOf(k)[2][2] = 1
    BY <2>1
  <2>3. HandlerFacts(k)
    BY <1>13, <2>2 DEF HandlerFacts, T!Purses
  <2>4. ASSUME NEW j \in 0 .. 3, NEW n \in 0 .. 3, Shape(k, j, n), Through(k, j, n)
        PROVE  EffectOf(k, j, n) = BroughtBy(k, n)
    BY <1>13, <1>1, <2>2, <2>4 DEF Shape, Through, Halfway, EffectOf, BroughtBy, CoinsOf
  <2> QED BY <2>3, <2>4
<1>14. CASE k = "bonus"
  <2>1. StepsOf(k) = <<"execute">> /\ ItemsOf(k) = << <<"peer", 1>>, <<"deposit", 1>> >>
    BY <1>14 DEF StepsOf, ItemsOf, T!HandlerOf, T!AddBonus, T!Handler
  <2>2. /\ Len(StepsOf(k)) = 1 /\ DOMAIN StepsOf(k) = 1 .. 1 /\ Len(ItemsOf(k)) = 2
        /\ S1 = "execute"
        /\ ItemsOf(k)[1][1] = "peer" /\ ItemsOf(k)[1][2] = 1
        /\ ItemsOf(k)[2][1] = "deposit" /\ ItemsOf(k)[2][2] = 1
    BY <2>1
  <2>3. HandlerFacts(k)
    BY <1>14, <2>2 DEF HandlerFacts, T!Purses
  <2>4. ASSUME NEW j \in 0 .. 3, NEW n \in 0 .. 3, Shape(k, j, n), Through(k, j, n)
        PROVE  EffectOf(k, j, n) = BroughtBy(k, n)
    BY <1>14, <1>1, <2>2, <2>4 DEF Shape, Through, Halfway, EffectOf, BroughtBy, CoinsOf
  <2> QED BY <2>3, <2>4
<1> QED BY <1>2, <1>3, <1>4, <1>5, <1>6, <1>7, <1>8, <1>9, <1>10, <1>11, <1>12, <1>13, <1>14 DEF T!HandlerOf

\* One step or one item more.
LEMMA NextShape ==
    ASSUME NEW k \in DOMAIN T!HandlerOf, NEW j, NEW n, Shape(k, j, n)
    PROVE  /\ j \in 0 .. 3 /\ n \in 0 .. 3 /\ EffectOf(k, j, n) \in Int
           /\ j < Len(StepsOf(k)) =>
                  /\ StepsOf(k)[j + 1] \notin {"execute", "err"} => Shape(k, j + 1, n)
                  /\ StepsOf(k)[j + 1] = "execute" =>
                         /\ n < Len(ItemsOf(k))
                         /\ n + 1 = Len(ItemsOf(k)) \/ k = "bonusList" => Shape(k, j + 1, n + 1)
                         /\ ~(n + 1 = Len(ItemsOf(k)) \/ k = "bonusList") => Shape(k, j, n + 1)
                  /\ StepsOf(k)[j + 1] = "err" =>
                         /\ k = "bonusList" /\ j = 1 /\ Len(ItemsOf(k)) = 2
                         /\ n = 2 => Shape(k, 2, n)
                         /\ n # 2 => Shape(k, 0, n)
           /\ j < Len(StepsOf(k)) =>
                  EffectOf(k, j + 1, n) = EffectOf(k, j, n)
                      + (IF StepsOf(k)[j + 1] \in {"partner", "confirm"} THEN 1 ELSE 0)
           /\ n < Len(ItemsOf(k)) =>
                  EffectOf(k, j, n + 1) = EffectOf(k, j, n) + ItemsOf(k)[n + 1][2]
<1> DEFINE S1 == StepsOf(k)[1]
           S2 == StepsOf(k)[2]
           S3 == StepsOf(k)[3]
<1>1. HandlerFacts(k)
  BY TransferHandlers
<1>2. /\ Len(StepsOf(k)) \in 1 .. 3 /\ Len(ItemsOf(k)) \in 0 .. 3
      /\ j \in 0 .. 3 /\ n \in 0 .. 3
      /\ j <= Len(StepsOf(k)) /\ n <= Len(ItemsOf(k))
  BY <1>1 DEF HandlerFacts, Shape
<1>3. \A i \in 0 .. 3 : \A s :
          Among(k, i, s) <=> (i >= 1 /\ S1 = s) \/ (i >= 2 /\ S2 = s) \/ (i >= 3 /\ S3 = s)
  BY AmongIs
<1>4. /\ Len(StepsOf(k)) >= 2 => S1 # S2
      /\ Len(StepsOf(k)) >= 3 => S1 # S3 /\ S2 # S3
  BY <1>1 DEF HandlerFacts
<1>5. \A i \in 1 .. Len(ItemsOf(k)) : ItemsOf(k)[i][2] \in Int
  BY <1>1 DEF HandlerFacts
<1>6. \A m \in 0 .. 3 : m <= Len(ItemsOf(k)) =>
          /\ CoinsOf(k, m) \in Int
          /\ m < Len(ItemsOf(k)) => CoinsOf(k, m + 1) = CoinsOf(k, m) + ItemsOf(k)[m + 1][2]
  <2> DEFINE I1 == ItemsOf(k)[1][2]
             I2 == ItemsOf(k)[2][2]
             I3 == ItemsOf(k)[3][2]
  <2>1. /\ Len(ItemsOf(k)) >= 1 => I1 \in Int
        /\ Len(ItemsOf(k)) >= 2 => I2 \in Int
        /\ Len(ItemsOf(k)) >= 3 => I3 \in Int
    BY <1>2, <1>5
  <2>2. /\ CoinsOf(k, 0) = 0 /\ CoinsOf(k, 1) = (I1 + 0) + 0
        /\ CoinsOf(k, 2) = (I1 + I2) + 0 /\ CoinsOf(k, 3) = (I1 + I2) + I3
    BY DEF CoinsOf
  <2> HIDE DEF I1, I2, I3
  <2>3. /\ CoinsOf(k, 0) \in Int
        /\ Len(ItemsOf(k)) >= 1 => CoinsOf(k, 1) \in Int /\ CoinsOf(k, 1) = CoinsOf(k, 0) + I1
        /\ Len(ItemsOf(k)) >= 2 => CoinsOf(k, 2) \in Int /\ CoinsOf(k, 2) = CoinsOf(k, 1) + I2
        /\ Len(ItemsOf(k)) >= 3 => CoinsOf(k, 3) \in Int /\ CoinsOf(k, 3) = CoinsOf(k, 2) + I3
    BY <1>2, <2>1, <2>2
  <2> QED BY <1>2, <2>3 DEF I1, I2, I3
<1>7. EffectOf(k, j, n) \in Int
  BY <1>2, <1>6 DEF EffectOf
<1>8. ASSUME j < Len(StepsOf(k))
      PROVE  /\ j + 1 \in 0 .. 3
             /\ \A s : Among(k, j + 1, s) <=> Among(k, j, s) \/ StepsOf(k)[j + 1] = s
             /\ ~Among(k, j, StepsOf(k)[j + 1])
  <2>1. CASE j = 0
    BY <1>2, <1>3, <1>8, <2>1
  <2>2. CASE j = 1
    BY <1>2, <1>3, <1>4, <1>8, <2>2
  <2>3. CASE j = 2
    BY <1>2, <1>3, <1>4, <1>8, <2>3
  <2>4. \A l \in 1 .. 3 : j < l => j \in {0, 1, 2}
    BY <1>2
  <2>5. j \in {0, 1, 2}
    BY <1>2, <1>8, <2>4
  <2> QED BY <2>1, <2>2, <2>3, <2>5
<1>9. j < Len(StepsOf(k)) =>
          EffectOf(k, j + 1, n) = EffectOf(k, j, n)
              + (IF StepsOf(k)[j + 1] \in {"partner", "confirm"} THEN 1 ELSE 0)
  BY <1>2, <1>6, <1>8 DEF EffectOf
<1>10. n < Len(ItemsOf(k)) => EffectOf(k, j, n + 1) = EffectOf(k, j, n) + ItemsOf(k)[n + 1][2]
  <2> SUFFICES ASSUME n < Len(ItemsOf(k))
               PROVE  EffectOf(k, j, n + 1) = EffectOf(k, j, n) + ItemsOf(k)[n + 1][2]
    OBVIOUS
  <2>1. PICK c : c = ItemsOf(k)[n + 1][2]
    OBVIOUS
  <2>2. c \in Int /\ CoinsOf(k, n) \in Int /\ CoinsOf(k, n + 1) = CoinsOf(k, n) + c
    BY <1>2, <1>5, <1>6, <2>1
  <2> QED BY <2>1, <2>2, SMTT(30) DEF EffectOf
<1>11. ASSUME j < Len(StepsOf(k)), StepsOf(k)[j + 1] \notin {"execute", "err"}
       PROVE  Shape(k, j + 1, n)
  <2>1. k # "bonusList"
    <3>1. k = "bonusList" => Len(StepsOf(k)) = 2 /\ StepsOf(k)[1] = "execute" /\ StepsOf(k)[2] = "err"
      BY DEF StepsOf, T!HandlerOf, T!AddBonusToList, T!Handler
    <3> QED BY <1>2, <1>11, <3>1
  <2> QED BY <1>2, <1>8, <1>11, <2>1 DEF Shape
<1>12. ASSUME j < Len(StepsOf(k)), StepsOf(k)[j + 1] = "execute"
       PROVE  /\ n < Len(ItemsOf(k))
              /\ n + 1 = Len(ItemsOf(k)) \/ k = "bonusList" => Shape(k, j + 1, n + 1)
              /\ ~(n + 1 = Len(ItemsOf(k)) \/ k = "bonusList") => Shape(k, j, n + 1)
  <2>1. Len(ItemsOf(k)) > 0 /\ (k = "bonusList" => j = 0 /\ Len(ItemsOf(k)) = 2 /\ Len(StepsOf(k)) = 2)
    BY <1>1, <1>2, <1>12 DEF HandlerFacts
  <2>2. ~Among(k, j, "execute")
    BY <1>8, <1>12
  <2>3. CASE k = "bonusList"
    <3>1. j = 0 /\ n \in {0, 1} /\ Len(ItemsOf(k)) = 2 /\ Len(StepsOf(k)) = 2
      BY <1>2, <1>12, <2>1, <2>3 DEF Shape
    <3>2. Shape(k, 1, 1) /\ Shape(k, 1, 2)
      BY <2>3, <3>1 DEF Shape
    <3>3. n = 0 \/ n = 1
      BY <3>1
    <3>4. CASE n = 0
      BY <2>3, <3>1, <3>2, <3>4
    <3>5. CASE n = 1
      BY <2>3, <3>1, <3>2, <3>5
    <3> QED BY <3>3, <3>4, <3>5
  <2>4. CASE k # "bonusList"
    BY <1>2, <1>8, <1>12, <2>1, <2>2, <2>4 DEF Shape
  <2> QED BY <2>3, <2>4
<1>13. ASSUME j < Len(StepsOf(k)), StepsOf(k)[j + 1] = "err"
       PROVE  /\ k = "bonusList" /\ j = 1 /\ Len(ItemsOf(k)) = 2
              /\ n = 2 => Shape(k, 2, n)
              /\ n # 2 => Shape(k, 0, n)
  <2>1. k = "bonusList" /\ j = 1 /\ Len(ItemsOf(k)) = 2 /\ Len(StepsOf(k)) = 2
    BY <1>1, <1>2, <1>13 DEF HandlerFacts
  <2> QED BY <1>2, <2>1 DEF Shape
<1> QED BY <1>2, <1>7, <1>9, <1>10, <1>11, <1>12, <1>13

\* A request on its way.
LEMMA TransferFacts ==
    ASSUME T!TypeOK, ShapeInv, NEW r \in Requests
    PROVE  /\ kind[r] \in DOMAIN T!HandlerOf /\ HandlerFacts(kind[r])
           /\ T!H(r).steps = StepsOf(kind[r]) /\ T!H(r).items = ItemsOf(kind[r])
           /\ Len(StepsOf(kind[r])) \in 1 .. 3 /\ Len(ItemsOf(kind[r])) \in 0 .. 3
           /\ at[r] \in 1 .. Len(StepsOf(kind[r]))
           /\ Shape(kind[r], Made(r), item[r])
           /\ pc[r] # "ok" => Made(r) = at[r] - 1 /\ Made(r) < Len(StepsOf(kind[r]))
                                                  /\ Made(r) + 1 = at[r]
<1>1. kind[r] \in DOMAIN T!HandlerOf
  BY DEF T!TypeOK
<1>2. HandlerFacts(kind[r])
  BY <1>1, TransferHandlers
<1>3. T!H(r).steps = StepsOf(kind[r]) /\ T!H(r).items = ItemsOf(kind[r])
  BY DEF T!H, StepsOf, ItemsOf
<1>4. at[r] \in 1 .. Len(StepsOf(kind[r])) /\ Len(StepsOf(kind[r])) \in 1 .. 3
  BY <1>2, <1>3 DEF HandlerFacts, T!TypeOK
<1>5. Shape(kind[r], Made(r), item[r])
  BY DEF ShapeInv
<1>6. Len(ItemsOf(kind[r])) \in 0 .. 3
  BY <1>2 DEF HandlerFacts
<1>7. pc[r] # "ok" => Made(r) = at[r] - 1
  BY DEF Made
<1> QED BY <1>1, <1>2, <1>3, <1>4, <1>5, <1>6, <1>7

\* Where request r is when it ends in some way or goes on, and the others.
LEMMA TransferMoves ==
    ASSUME T!TypeOK, ShapeInv, NEW r \in Requests, T!Running(r)
    PROVE  /\ \A how \in {"refused", "broken"} : T!End(r, how) =>
                  /\ pc' = [pc EXCEPT ![r] = how] /\ at' = at /\ Made(r)' = Made(r)
                  /\ \A q \in Requests \ {r} : Made(q)' = Made(q)
           /\ T!Go(r) =>
                  /\ Made(r)' = Made(r) + 1 /\ at' \in [Requests -> Nat]
                  /\ at'[r] \in 1 .. Len(StepsOf(kind[r]))
                  /\ \A q \in Requests \ {r} : pc'[q] = pc[q] /\ at'[q] = at[q] /\ Made(q)' = Made(q)
                  /\ \/ pc' = pc
                     \/ pc' = [pc EXCEPT ![r] = "ok"] /\ at'[r] = Len(StepsOf(kind[r]))
<1> USE DEF T!TypeOK, T!Running, Made
<1>1. at[r] \in 1 .. Len(StepsOf(kind[r])) /\ T!H(r).steps = StepsOf(kind[r])
      /\ Len(StepsOf(kind[r])) \in 1 .. 3
  BY TransferFacts
<1>2. ASSUME NEW how \in {"refused", "broken"}, T!End(r, how)
      PROVE  /\ pc' = [pc EXCEPT ![r] = how] /\ at' = at /\ Made(r)' = Made(r)
             /\ \A q \in Requests \ {r} : Made(q)' = Made(q)
  BY <1>2 DEF T!End
<1>3. CASE at[r] = Len(StepsOf(kind[r]))
  BY <1>1, <1>2, <1>3 DEF T!Go, T!End
<1>4. CASE at[r] # Len(StepsOf(kind[r]))
  <2>1. CASE T!Go(r)
    <3>1. pc' = pc /\ at' = [at EXCEPT ![r] = @ + 1] /\ pc[r] = "run"
      BY <1>1, <1>4, <2>1 DEF T!Go
    <3>2. at'[r] = at[r] + 1 /\ at' \in [Requests -> Nat]
      BY <1>1, <3>1
    <3>3. Made(r) = at[r] - 1 /\ Made(r)' = at'[r] - 1
      BY <3>1
    <3>4. \A q \in Requests \ {r} : pc'[q] = pc[q] /\ at'[q] = at[q] /\ Made(q)' = Made(q)
      BY <3>1
    <3> QED BY <1>1, <1>2, <1>4, <3>1, <3>2, <3>3, <3>4
  <2> QED BY <1>2, <2>1
<1> QED BY <1>3, <1>4

\* The steps that leave the items alone: request r stays where it is, ends there, or goes on.
LookStep(r) ==
    \/ T!Arrive(r) \/ T!ReadBalance(r) \/ T!Count(r) \/ T!CountCrypto(r) \/ T!Order(r)
    \/ T!Confirm(r) \/ T!ExecuteRefused(r) \/ T!PayPartner(r) \/ T!Close(r) \/ T!NotDefined(r)
    \/ T!BreakOff(r)

Stays(r) ==
    /\ Made(r)' = Made(r) /\ pc' \in [Requests -> {"idle", "run", "ok", "refused", "broken"}]
    /\ pc'[r] \in {"run", "refused", "broken"} /\ at' = at
    /\ \A q \in Requests \ {r} : pc'[q] = pc[q] /\ Made(q)' = Made(q)

Advances(r) ==
    /\ pc[r] = "run" /\ Made(r)' = Made(r) + 1 /\ at' \in [Requests -> Nat]
    /\ pc' \in [Requests -> {"idle", "run", "ok", "refused", "broken"}]
    /\ at'[r] \in 1 .. Len(StepsOf(kind[r]))
    /\ \A q \in Requests \ {r} : pc'[q] = pc[q] /\ at'[q] = at[q] /\ Made(q)' = Made(q)
    /\ pc'[r] = "run" \/ (pc'[r] = "ok" /\ at'[r] = Len(StepsOf(kind[r])))

\* r is past none of its steps but the one it is at.
LEMMA LookMoves ==
    ASSUME T!TypeOK, ShapeInv, NEW r \in Requests, LookStep(r)
    PROVE  /\ item' = item /\ kind' = kind /\ refuses' = refuses
           /\ \/ Stays(r) /\ (pc'[r] = "refused" =>
                     StepsOf(kind[r])[at[r]] \in {"balance", "count", "countCrypto", "confirm"})
              \/ Advances(r) /\ StepsOf(kind[r])[at[r]] \notin {"execute", "err"}
           /\ Stays(r) \/ T!ReadBalance(r) \/ T!Count(r) \/ T!CountCrypto(r) \/ T!Order(r)
                       \/ T!Confirm(r) \/ T!PayPartner(r) \/ T!Close(r)
<1> DEFINE s == StepsOf(kind[r])[at[r]]
<1>1. T!H(r).steps = StepsOf(kind[r]) /\ pc \in [Requests -> {"idle", "run", "ok", "refused", "broken"}]
  BY TransferFacts DEF T!TypeOK
<1>2. ASSUME T!Running(r), T!Go(r) PROVE Advances(r)
  BY <1>1, <1>2, TransferMoves DEF Advances, T!Running
<1>3. ASSUME T!Running(r), NEW how \in {"refused", "broken"}, T!End(r, how)
      PROVE  Stays(r) /\ pc'[r] = how
  BY <1>1, <1>3, TransferMoves DEF Stays
<1> USE DEF T!IsAt, T!fixed
<1>4. CASE T!Arrive(r)
  <2>1. pc[r] = "idle" /\ pc' = [pc EXCEPT ![r] = "run"] /\ at' = at /\ item' = item
        /\ kind' = kind /\ refuses' = refuses
    BY <1>4 DEF T!Arrive
  <2>2. Stays(r) /\ pc'[r] = "run"
    BY <1>1, <2>1 DEF Stays, Made
  <2> QED BY <2>1, <2>2
<1>5. CASE T!ReadBalance(r)
  <2>1. item' = item /\ kind' = kind /\ refuses' = refuses /\ T!Running(r) /\ s = "balance"
        /\ (T!End(r, "refused") \/ T!Go(r))
    BY <1>1, <1>5 DEF T!ReadBalance
  <2> QED BY <1>2, <1>3, <1>5, <2>1
<1>6. CASE T!Count(r)
  <2>1. item' = item /\ kind' = kind /\ refuses' = refuses /\ T!Running(r) /\ s = "count"
        /\ (T!End(r, "refused") \/ T!Go(r))
    BY <1>1, <1>6 DEF T!Count
  <2> QED BY <1>2, <1>3, <1>6, <2>1
<1>7. CASE T!CountCrypto(r)
  <2>1. item' = item /\ kind' = kind /\ refuses' = refuses /\ T!Running(r) /\ s = "countCrypto"
        /\ (T!End(r, "refused") \/ T!Go(r))
    BY <1>1, <1>7 DEF T!CountCrypto
  <2> QED BY <1>2, <1>3, <1>7, <2>1
<1>8. CASE T!Order(r)
  <2>1. item' = item /\ kind' = kind /\ refuses' = refuses /\ T!Running(r) /\ s = "order" /\ T!Go(r)
    BY <1>1, <1>8 DEF T!Order
  <2> QED BY <1>2, <1>8, <2>1
<1>9. CASE T!Confirm(r)
  <2>1. item' = item /\ kind' = kind /\ refuses' = refuses /\ T!Running(r) /\ s = "confirm"
        /\ (T!End(r, "refused") \/ T!Go(r))
    BY <1>1, <1>9 DEF T!Confirm
  <2> QED BY <1>2, <1>3, <1>9, <2>1
<1>10. CASE T!ExecuteRefused(r)
  <2>1. item' = item /\ kind' = kind /\ refuses' = refuses /\ T!Running(r) /\ T!End(r, "broken")
    BY <1>10 DEF T!ExecuteRefused
  <2> QED BY <1>3, <2>1
<1>11. CASE T!PayPartner(r)
  <2>1. item' = item /\ kind' = kind /\ refuses' = refuses /\ T!Running(r) /\ s = "partner" /\ T!Go(r)
    BY <1>1, <1>11 DEF T!PayPartner
  <2> QED BY <1>2, <1>11, <2>1
<1>12. CASE T!Close(r)
  <2>1. item' = item /\ kind' = kind /\ refuses' = refuses /\ T!Running(r) /\ s = "close" /\ T!Go(r)
    BY <1>1, <1>12 DEF T!Close
  <2> QED BY <1>2, <1>12, <2>1
<1>13. CASE T!NotDefined(r)
  <2>1. item' = item /\ kind' = kind /\ refuses' = refuses /\ T!Running(r) /\ T!End(r, "broken")
    BY <1>13 DEF T!NotDefined
  <2> QED BY <1>3, <2>1
<1>14. CASE T!BreakOff(r)
  <2>1. item' = item /\ kind' = kind /\ refuses' = refuses /\ T!Running(r) /\ T!End(r, "broken")
    BY <1>14 DEF T!BreakOff
  <2> QED BY <1>3, <2>1
<1> QED BY <1>4, <1>5, <1>6, <1>7, <1>8, <1>9, <1>10, <1>11, <1>12, <1>13, <1>14 DEF LookStep

\* An item is executed, and the request is through with them or the next one follows.
LEMMA ExecuteMoves ==
    ASSUME T!TypeOK, ShapeInv, NEW r \in Requests, T!Execute(r)
    PROVE  /\ kind' = kind /\ refuses' = refuses
           /\ StepsOf(kind[r])[at[r]] = "execute" /\ item[r] < Len(ItemsOf(kind[r]))
           /\ item' = [item EXCEPT ![r] = item[r] + 1]
           /\ IF item[r] + 1 = Len(ItemsOf(kind[r])) \/ kind[r] = "bonusList"
              THEN Advances(r) ELSE Stays(r) /\ pc' = pc
<1> DEFINE n == item[r] + 1
<1>1. T!H(r).steps = StepsOf(kind[r]) /\ T!H(r).items = ItemsOf(kind[r])
      /\ pc \in [Requests -> {"idle", "run", "ok", "refused", "broken"}]
  BY TransferFacts DEF T!TypeOK
<1>2. T!Running(r) /\ StepsOf(kind[r])[at[r]] = "execute" /\ kind' = kind /\ refuses' = refuses
  BY <1>1 DEF T!Execute, T!IsAt, T!fixed
<1>3. item[r] < Len(ItemsOf(kind[r]))
  <2>1. /\ kind[r] \in DOMAIN T!HandlerOf /\ Shape(kind[r], Made(r), item[r])
        /\ Made(r) < Len(StepsOf(kind[r])) /\ Made(r) + 1 = at[r]
    BY <1>2, TransferFacts DEF T!Running
  <2>2. StepsOf(kind[r])[Made(r) + 1] = "execute"
    BY <1>2, <2>1
  <2> QED BY <2>1, <2>2, NextShape
<1>4. item' = [item EXCEPT ![r] = n]
  BY DEF T!Execute
<1>5. CASE n = Len(ItemsOf(kind[r])) \/ kind[r] = "bonusList"
  <2>1. T!Go(r)
    BY <1>1, <1>5 DEF T!Execute
  <2>2. Advances(r)
    BY <1>1, <1>2, <2>1, TransferMoves DEF Advances, T!Running
  <2> QED BY <1>2, <1>3, <1>4, <1>5, <2>2
<1>6. CASE ~(n = Len(ItemsOf(kind[r])) \/ kind[r] = "bonusList")
  <2>1. pc' = pc /\ at' = at
    BY <1>1, <1>6 DEF T!Execute
  <2>2. Stays(r)
    BY <1>1, <1>2, <2>1 DEF Stays, Made, T!Running
  <2> QED BY <1>2, <1>3, <1>4, <1>6, <2>1, <2>2
<1> QED BY <1>5, <1>6

\* The handler that looks at err ends, well or not, or goes back to the next receiver.
LEMMA ErrMoves ==
    ASSUME T!TypeOK, ShapeInv, NEW r \in Requests, T!LookAtErr(r)
    PROVE  /\ item' = item /\ kind' = kind /\ refuses' = refuses /\ kind[r] = "bonusList"
           /\ Made(r) = 1 /\ Len(StepsOf(kind[r])) = 2 /\ Len(ItemsOf(kind[r])) = 2
           /\ \/ Stays(r) /\ pc'[r] = "broken" /\ (~broken' => ~broken /\ item[r] = 2)
              \/ Advances(r) /\ item[r] = 2 /\ broken' = broken
              \/ /\ Made(r)' = 0 /\ at' = [at EXCEPT ![r] = 1] /\ pc' = pc /\ item[r] # 2
                 /\ pc[r] = "run" /\ broken' = broken
                 /\ \A q \in Requests \ {r} : Made(q)' = Made(q)
<1>1. T!H(r).steps = StepsOf(kind[r]) /\ T!H(r).items = ItemsOf(kind[r])
      /\ pc \in [Requests -> {"idle", "run", "ok", "refused", "broken"}]
      /\ at \in [Requests -> Nat]
  BY TransferFacts DEF T!TypeOK
<1>2. T!Running(r) /\ StepsOf(kind[r])[at[r]] = "err" /\ kind' = kind /\ refuses' = refuses
      /\ item' = item
  BY <1>1 DEF T!LookAtErr, T!IsAt, T!fixed
<1>3. /\ kind[r] = "bonusList" /\ at[r] = 2 /\ Made(r) = 1
      /\ Len(StepsOf(kind[r])) = 2 /\ Len(ItemsOf(kind[r])) = 2 /\ item[r] \in 0 .. 2
  <2>1. /\ HandlerFacts(kind[r]) /\ at[r] \in 1 .. Len(StepsOf(kind[r]))
        /\ Shape(kind[r], Made(r), item[r]) /\ Made(r) = at[r] - 1
    BY <1>2, TransferFacts DEF T!Running
  <2>2. kind[r] = "bonusList" /\ at[r] = 2
    BY <1>2, <2>1 DEF HandlerFacts
  <2> QED BY <2>1, <2>2 DEF HandlerFacts, Shape
<1>4. CASE ~errAssigned
  <2>1. T!End(r, "broken") /\ broken' = (broken \/ item[r] < 2)
    BY <1>1, <1>3, <1>4 DEF T!LookAtErr
  <2>2. Stays(r) /\ pc'[r] = "broken"
    BY <1>1, <1>2, <2>1, TransferMoves DEF Stays
  <2>3. item[r] < 2 \/ item[r] = 2
    BY <1>3
  <2>4. ~broken' => ~broken /\ item[r] = 2
    BY <2>1, <2>3
  <2> QED BY <1>2, <1>3, <2>2, <2>4
<1>5. CASE errAssigned /\ item[r] = 2
  <2>1. T!End(r, "ok") /\ broken' = broken
    BY <1>1, <1>3, <1>5 DEF T!LookAtErr
  <2>2. pc' = [pc EXCEPT ![r] = "ok"] /\ at' = at
    BY <2>1 DEF T!End
  <2>3. Advances(r)
    BY <1>1, <1>2, <1>3, <2>2 DEF Advances, Made, T!Running
  <2> QED BY <1>2, <1>3, <1>5, <2>1, <2>3
<1>6. CASE errAssigned /\ item[r] # 2
  <2>1. at' = [at EXCEPT ![r] = @ - 1] /\ pc' = pc /\ broken' = broken
    BY <1>1, <1>3, <1>6 DEF T!LookAtErr
  <2>2. at' = [at EXCEPT ![r] = 1] /\ pc[r] = "run"
    BY <1>1, <1>2, <1>3, <2>1 DEF T!Running
  <2>3. Made(r)' = 0 /\ \A q \in Requests \ {r} : Made(q)' = Made(q)
    BY <1>1, <2>1, <2>2 DEF Made
  <2> QED BY <1>2, <1>3, <1>6, <2>1, <2>2, <2>3
<1> QED BY <1>4, <1>5, <1>6

LEMMA TransferSteps ==
    ASSUME NEW r \in Requests, T!Step(r)
    PROVE  LookStep(r) \/ T!Execute(r) \/ T!LookAtErr(r)
BY DEF T!Step, LookStep

\* Shapes are kept.
LEMMA ShapeStep ==
    ASSUME T!TypeOK, ShapeInv, NEW r \in Requests, T!Step(r)
    PROVE  /\ ShapeInv' /\ kind' = kind /\ refuses' = refuses
           /\ at' \in [Requests -> Nat] /\ item' \in [Requests -> Nat]
           /\ pc' \in [Requests -> {"idle", "run", "ok", "refused", "broken"}]
           /\ \A q \in Requests : at'[q] \in 1 .. Len(StepsOf(kind[q]))
           /\ \A q \in Requests \ {r} : /\ pc'[q] = pc[q] /\ at'[q] = at[q]
                                        /\ Made(q)' = Made(q) /\ item'[q] = item[q]
<1> DEFINE k == kind[r]
<1>1. /\ k \in DOMAIN T!HandlerOf /\ HandlerFacts(k)
      /\ Shape(k, Made(r), item[r]) /\ at[r] \in 1 .. Len(StepsOf(k))
      /\ at \in [Requests -> Nat] /\ item \in [Requests -> Nat]
      /\ pc \in [Requests -> {"idle", "run", "ok", "refused", "broken"}]
  BY TransferFacts DEF T!TypeOK
<1>2. \A q \in Requests : at[q] \in 1 .. Len(StepsOf(kind[q]))
  BY TransferFacts
<1>3. pc[r] = "run" => Made(r) < Len(StepsOf(k)) /\ Made(r) + 1 = at[r]
  BY TransferFacts
<1>4. SUFFICES /\ kind' = kind /\ refuses' = refuses
               /\ at' \in [Requests -> Nat] /\ item' \in [Requests -> Nat]
               /\ pc' \in [Requests -> {"idle", "run", "ok", "refused", "broken"}]
               /\ \A q \in Requests \ {r} : /\ pc'[q] = pc[q] /\ at'[q] = at[q]
                                            /\ Made(q)' = Made(q) /\ item'[q] = item[q]
               /\ at'[r] \in 1 .. Len(StepsOf(k)) /\ Shape(k, Made(r)', item'[r])
               /\ pc'[r] # "idle" /\ (pc'[r] = "ok" => at'[r] = Len(StepsOf(k)))
               /\ pc'[r] = "refused" =>
                      StepsOf(k)[at'[r]] \in {"balance", "count", "countCrypto", "confirm"}
  <2>1. ASSUME NEW q \in Requests
        PROVE  /\ Shape(kind[q], Made(q)', item'[q]) /\ at'[q] \in 1 .. Len(StepsOf(kind[q]))
               /\ pc'[q] = "idle" => at'[q] = 1 /\ item'[q] = 0
               /\ pc'[q] = "ok" => at'[q] = Len(StepsOf(kind[q]))
               /\ pc'[q] = "refused" =>
                     StepsOf(kind[q])[at'[q]] \in {"balance", "count", "countCrypto", "confirm"}
    <3>1. CASE q = r
      BY <1>4, <3>1
    <3>2. CASE q # r
      BY <1>2, <1>4, <3>2, SMTT(30) DEF ShapeInv
    <3> QED BY <3>1, <3>2
  <2> QED BY <1>4, <2>1 DEF ShapeInv
<1> HIDE DEF k
<1>5. CASE LookStep(r)
  <2>1. item' = item /\ kind' = kind /\ refuses' = refuses
    BY <1>5, LookMoves
  <2>2. CASE Stays(r) /\ (pc'[r] = "refused" =>
                 StepsOf(k)[at[r]] \in {"balance", "count", "countCrypto", "confirm"})
    BY <1>1, <2>1, <2>2 DEF Stays
  <2>3. CASE Advances(r) /\ StepsOf(k)[at[r]] \notin {"execute", "err"}
    <3>1. Shape(k, Made(r) + 1, item[r])
      BY <1>1, <1>3, <2>3, NextShape DEF Advances
    <3> QED BY <1>1, <2>1, <2>3, <3>1 DEF Advances, k
  <2> QED BY <1>5, <2>2, <2>3, LookMoves DEF k
<1>6. CASE T!Execute(r)
  <2>1. /\ kind' = kind /\ refuses' = refuses
        /\ StepsOf(k)[at[r]] = "execute" /\ item' = [item EXCEPT ![r] = item[r] + 1]
        /\ IF item[r] + 1 = Len(ItemsOf(k)) \/ k = "bonusList"
           THEN Advances(r) ELSE Stays(r) /\ pc' = pc
    BY <1>6, ExecuteMoves DEF k
  <2>2. pc[r] = "run"
    BY <1>6 DEF T!Execute, T!IsAt, T!Running
  <2>3. item' \in [Requests -> Nat] /\ item'[r] = item[r] + 1
        /\ \A q \in Requests \ {r} : item'[q] = item[q]
    BY <1>1, <2>1
  <2>4. StepsOf(k)[Made(r) + 1] = "execute" /\ Made(r) < Len(StepsOf(k))
    BY <1>3, <2>1, <2>2
  <2>5. CASE item[r] + 1 = Len(ItemsOf(k)) \/ k = "bonusList"
    <3>1. Shape(k, Made(r) + 1, item[r] + 1)
      BY <1>1, <2>4, <2>5, NextShape
    <3> QED BY <1>1, <2>1, <2>3, <2>5, <3>1 DEF Advances, k
  <2>6. CASE ~(item[r] + 1 = Len(ItemsOf(k)) \/ k = "bonusList")
    <3>1. Shape(k, Made(r), item[r] + 1)
      BY <1>1, <2>4, <2>6, NextShape
    <3>2. Stays(r) /\ pc' = pc
      BY <2>1, <2>6
    <3> QED BY <1>1, <2>1, <2>2, <2>3, <3>1, <3>2 DEF Stays
  <2> QED BY <2>5, <2>6
<1>7. CASE T!LookAtErr(r)
  <2>1. /\ item' = item /\ kind' = kind /\ refuses' = refuses /\ k = "bonusList"
        /\ Made(r) = 1 /\ Len(StepsOf(k)) = 2 /\ Len(ItemsOf(k)) = 2
        /\ \/ Stays(r) /\ pc'[r] = "broken"
           \/ Advances(r) /\ item[r] = 2
           \/ /\ Made(r)' = 0 /\ at' = [at EXCEPT ![r] = 1] /\ pc' = pc /\ item[r] # 2
              /\ pc[r] = "run"
              /\ \A q \in Requests \ {r} : Made(q)' = Made(q)
    BY <1>7, ErrMoves DEF k
  <2>2. CASE Stays(r) /\ pc'[r] = "broken"
    BY <1>1, <2>1, <2>2 DEF Stays
  <2>3. CASE Advances(r) /\ item[r] = 2
    <3>1. Shape(k, Made(r)', item[r])
      BY <1>1, <2>1, <2>3 DEF Advances, Shape
    <3> QED BY <1>1, <2>1, <2>3, <3>1 DEF Advances, k
  <2>4. CASE /\ Made(r)' = 0 /\ at' = [at EXCEPT ![r] = 1] /\ pc' = pc /\ item[r] # 2
             /\ pc[r] = "run"
             /\ \A q \in Requests \ {r} : Made(q)' = Made(q)
    <3>1. Shape(k, 0, item[r])
      BY <1>1, <2>1, <2>4 DEF Shape
    <3>2. at' \in [Requests -> Nat] /\ at'[r] = 1 /\ \A q \in Requests \ {r} : at'[q] = at[q]
      BY <1>1, <2>4
    <3> QED BY <1>1, <2>1, <2>4, <3>1, <3>2
  <2> QED BY <2>1, <2>2, <2>3, <2>4
<1> QED BY <1>5, <1>6, <1>7, TransferSteps

\* So are the types.
LEMMA TransferTypeStep ==
    ASSUME T!TypeOK, ShapeInv, OrdersInv, NEW r \in Requests, T!Step(r)
    PROVE  T!TypeOK'
<1>1. /\ ShapeInv' /\ kind' = kind /\ refuses' = refuses
      /\ at' \in [Requests -> Nat] /\ item' \in [Requests -> Nat]
      /\ pc' \in [Requests -> {"idle", "run", "ok", "refused", "broken"}]
      /\ \A q \in Requests : at'[q] \in 1 .. Len(StepsOf(kind[q]))
  BY ShapeStep
<1>2. \A q \in Requests : (at[q] \in DOMAIN T!H(q).steps)' /\ (item[q] \in 0 .. Len(T!H(q).items))'
  <2> SUFFICES ASSUME NEW q \in Requests
               PROVE  /\ at'[q] \in DOMAIN StepsOf(kind'[q])
                      /\ item'[q] \in 0 .. Len(ItemsOf(kind'[q]))
    BY DEF T!H, StepsOf, ItemsOf
  <2>1. HandlerFacts(kind[q])
    BY TransferFacts
  <2>2. Shape(kind'[q], Made(q)', item'[q])
    BY <1>1 DEF ShapeInv
  <2> QED BY <1>1, <2>1, <2>2 DEF HandlerFacts, Shape
<1>3. SUFFICES /\ order' \in [Requests -> Requests \union {None}] /\ balance' \in [T!Purses -> Int]
               /\ made' \subseteq Requests /\ debited' \subseteq Requests /\ confirmed' \subseteq Requests
               /\ rows' \subseteq [id : Requests, status : {"A", "C"}] /\ partner' \in Nat
               /\ stale' \subseteq Requests /\ counted' \in [Requests -> SUBSET Requests]
               /\ overdrawn' \subseteq T!Purses /\ errAssigned' \in BOOLEAN
               /\ {broken, raced, pending, twice}' \subseteq BOOLEAN
  BY <1>1, <1>2, <1>3 DEF T!TypeOK
<1> USE DEF T!TypeOK, T!history, T!outside
<1>4. CASE T!Arrive(r)
  BY <1>4 DEF T!Arrive
<1>5. CASE T!ReadBalance(r)
  BY <1>5 DEF T!ReadBalance
<1>6. CASE T!Count(r)
  BY <1>6 DEF T!Count
<1>7. CASE T!CountCrypto(r)
  BY <1>7 DEF T!CountCrypto
<1>8. CASE T!Order(r)
  BY <1>8 DEF T!Order
<1>9. CASE T!Confirm(r)
  <2>1. \A row \in rows : row.id \in Requests
    OBVIOUS
  <2>2. ASSUME NEW row \in rows, order' = [order EXCEPT ![r] = row.id],
               confirmed' = confirmed \union {row.id}, twice' = (twice \/ row.id \in confirmed)
        PROVE  /\ order' \in [Requests -> Requests \union {None}] /\ confirmed' \subseteq Requests
               /\ twice' \in BOOLEAN
    BY <2>1, <2>2
  <2>3. /\ order' \in [Requests -> Requests \union {None}] /\ confirmed' \subseteq Requests
        /\ twice' \in BOOLEAN
    BY <1>9, <2>2 DEF T!Confirm
  <2> QED BY <1>9, <2>3 DEF T!Confirm
<1>10. CASE T!ExecuteRefused(r)
  BY <1>10 DEF T!ExecuteRefused
<1>11. CASE T!PayPartner(r)
  BY <1>11 DEF T!PayPartner
<1>12. CASE T!Close(r)
  <2>1. Among(kind[r], Made(r), "confirm")
    <3>1. /\ HandlerFacts(kind[r]) /\ at[r] \in 1 .. Len(StepsOf(kind[r]))
          /\ T!H(r).steps = StepsOf(kind[r]) /\ (pc[r] # "ok" => Made(r) = at[r] - 1)
      BY TransferFacts
    <3>2. StepsOf(kind[r])[at[r]] = "close" /\ pc[r] = "run"
      BY <1>12, <3>1 DEF T!Close, T!IsAt, T!Running
    <3>3. Made(r) = 2 /\ StepsOf(kind[r])[1] = "confirm"
      BY <3>1, <3>2 DEF HandlerFacts
    <3> QED BY <3>3 DEF Among
  <2>2. order[r] \in Requests
    BY <2>1 DEF OrdersInv
  <2>3. rows' = {row \in rows : row.id # order[r]} \union {[id |-> order[r], status |-> "C"]}
    BY <1>12 DEF T!Close
  <2>4. rows' \subseteq [id : Requests, status : {"A", "C"}]
    BY <2>2, <2>3
  <2> QED BY <1>12, <2>4 DEF T!Close
<1>13. CASE T!NotDefined(r)
  BY <1>13 DEF T!NotDefined
<1>14. CASE T!BreakOff(r)
  BY <1>14 DEF T!BreakOff
<1>15. CASE T!LookAtErr(r)
  BY <1>15 DEF T!LookAtErr
<1>16. CASE T!Execute(r)
  <2>1. PICK n : n = item[r] + 1
    OBVIOUS
  <2>2. PICK p : p = ItemsOf(kind[r])[n][1]
    OBVIOUS
  <2>3. PICK coins : coins = ItemsOf(kind[r])[n][2]
    OBVIOUS
  <2>4. n \in 1 .. Len(ItemsOf(kind[r])) /\ p \in T!Purses /\ coins \in Int
    <3>1. n \in 1 .. Len(ItemsOf(kind[r]))
      BY <1>16, <2>1, ExecuteMoves, TransferFacts, SMTT(30)
    <3>2. HandlerFacts(kind[r])
      BY TransferFacts
    <3> QED BY <2>2, <2>3, <3>1, <3>2 DEF HandlerFacts
  <2>5. T!H(r).items = ItemsOf(kind[r])
    BY TransferFacts
  <2>6. /\ balance' = [balance EXCEPT ![p] = @ + coins]
        /\ stale' = stale \union {q \in Requests : coins < 0 /\ T!Relies(q, p)}
        /\ overdrawn' = overdrawn \union {q \in {p} : coins < 0 /\ T!Unchecked(r, p)}
        /\ made' = made \union {q \in {r} : T!Converts(r, coins)}
        /\ raced' = (raced \/ (T!Converts(r, coins) /\ counted[r] # made))
        /\ debited' = debited \union {o \in {order[r]} : kind[r] = "confirm"}
        /\ UNCHANGED <<T!fixed, order, rows, confirmed, partner, errAssigned, counted, broken,
                       pending, twice>>
    BY <1>16, <2>1, <2>2, <2>3, <2>5 DEF T!Execute
  <2>7. kind[r] = "confirm" => order[r] \in Requests
    <3>1. /\ HandlerFacts(kind[r]) /\ at[r] \in 1 .. Len(StepsOf(kind[r]))
          /\ T!H(r).steps = StepsOf(kind[r]) /\ (pc[r] # "ok" => Made(r) = at[r] - 1)
      BY TransferFacts
    <3>2. StepsOf(kind[r])[at[r]] = "execute" /\ pc[r] = "run"
      BY <1>16, <3>1 DEF T!Execute, T!IsAt, T!Running
    <3>3. kind[r] = "confirm" => Made(r) = 1 /\ StepsOf(kind[r])[1] = "confirm"
      BY <3>1, <3>2 DEF HandlerFacts
    <3>4. kind[r] = "confirm" => Among(kind[r], Made(r), "confirm")
      BY <3>3 DEF Among
    <3> QED BY <3>4 DEF OrdersInv
  <2>8. debited' \subseteq Requests
    BY <2>6, <2>7
  <2>9. balance' \in [T!Purses -> Int]
    BY <2>4, <2>6
  <2>10. overdrawn' \subseteq T!Purses /\ stale' \subseteq Requests /\ made' \subseteq Requests
    BY <2>4, <2>6
  <2>11. raced' \in BOOLEAN
    BY <2>6
  <2> QED BY <2>6, <2>8, <2>9, <2>10, <2>11
<1> QED BY <1>4, <1>5, <1>6, <1>7, <1>8, <1>9, <1>10, <1>11, <1>12, <1>13, <1>14, <1>15, <1>16
     DEF T!Step

\* What a step of request r does to what it has done to the sum of all.
LEMMA EffectStep ==
    ASSUME T!TypeOK, ShapeInv, NEW r \in Requests, T!Step(r)
    PROVE  /\ \A q \in Requests : Effect(q) \in Int /\ Effect(q)' \in Int
           /\ \A q \in Requests \ {r} : Effect(q)' = Effect(q)
           /\ item' = item /\ Made(r)' = Made(r) => Effect(r)' = Effect(r)
           /\ pc[r] = "run" /\ item' = item /\ Made(r)' = Made(r) + 1 =>
                  Effect(r)' = Effect(r)
                      + (IF StepsOf(kind[r])[at[r]] \in {"partner", "confirm"} THEN 1 ELSE 0)
           /\ T!Execute(r) => Effect(r)' = Effect(r) + ItemsOf(kind[r])[item[r] + 1][2]
           /\ T!LookAtErr(r) => Effect(r)' = Effect(r)
<1> DEFINE k == kind[r]
<1>1. /\ ShapeInv' /\ kind' = kind
      /\ \A q \in Requests \ {r} : Made(q)' = Made(q) /\ item'[q] = item[q]
  BY ShapeStep
<1>2. /\ k \in DOMAIN T!HandlerOf /\ Shape(k, Made(r), item[r])
      /\ pc[r] = "run" => Made(r) < Len(StepsOf(k)) /\ Made(r) + 1 = at[r]
  BY TransferFacts
<1>3. \A q \in Requests : Effect(q)' = EffectOf(kind[q], Made(q)', item'[q])
  BY <1>1 DEF Effect, EffectOf, CoinsOf, Among, ItemsOf, StepsOf
<1>4. ASSUME NEW q \in Requests PROVE Effect(q) \in Int /\ Effect(q)' \in Int
  <2>1. kind[q] \in DOMAIN T!HandlerOf /\ Shape(kind[q], Made(q), item[q])
    BY TransferFacts
  <2>2. Shape(kind[q], Made(q)', item'[q])
    BY <1>1 DEF ShapeInv, Shape, StepsOf, ItemsOf, Among
  <2> QED BY <1>3, <2>1, <2>2, NextShape DEF Effect
<1>5. \A q \in Requests \ {r} : Effect(q)' = Effect(q)
  BY <1>1, <1>3 DEF Effect
<1>6. item' = item /\ Made(r)' = Made(r) => Effect(r)' = Effect(r)
  BY <1>3 DEF Effect
<1>7. ASSUME pc[r] = "run", item' = item, Made(r)' = Made(r) + 1
      PROVE  Effect(r)' = Effect(r)
                 + (IF StepsOf(k)[at[r]] \in {"partner", "confirm"} THEN 1 ELSE 0)
  BY <1>2, <1>3, <1>7, NextShape DEF Effect
<1>8. ASSUME T!Execute(r) PROVE Effect(r)' = Effect(r) + ItemsOf(k)[item[r] + 1][2]
  <2>1. /\ StepsOf(k)[at[r]] = "execute" /\ item[r] < Len(ItemsOf(k))
        /\ item' = [item EXCEPT ![r] = item[r] + 1]
        /\ IF item[r] + 1 = Len(ItemsOf(k)) \/ k = "bonusList"
           THEN Advances(r) ELSE Stays(r)
    BY <1>8, ExecuteMoves
  <2>2. item'[r] = item[r] + 1 /\ pc[r] = "run"
    BY <1>8, <2>1 DEF T!TypeOK, T!Execute, T!IsAt, T!Running
  <2>3. EffectOf(k, Made(r), item[r] + 1) = Effect(r) + ItemsOf(k)[item[r] + 1][2]
    BY <1>2, <2>1, NextShape DEF Effect
  <2>4. CASE item[r] + 1 = Len(ItemsOf(k)) \/ k = "bonusList"
    <3>1. Made(r)' = Made(r) + 1
      BY <2>1, <2>4 DEF Advances
    <3>2. Shape(k, Made(r) + 1, item[r] + 1)
      BY <1>2, <2>1, <2>2, <2>4, NextShape
    <3>3. ~Among(k, Made(r) + 1, "partner") <=> ~Among(k, Made(r), "partner")
      BY <1>2, <2>1, <2>2 DEF Among, Shape
    <3>4. ~Among(k, Made(r) + 1, "confirm") <=> ~Among(k, Made(r), "confirm")
      BY <1>2, <2>1, <2>2 DEF Among, Shape
    <3>5. EffectOf(k, Made(r) + 1, item[r] + 1) = EffectOf(k, Made(r), item[r] + 1)
      BY <3>3, <3>4 DEF EffectOf
    <3> QED BY <1>3, <2>2, <2>3, <3>1, <3>5
  <2>5. CASE ~(item[r] + 1 = Len(ItemsOf(k)) \/ k = "bonusList")
    BY <1>3, <2>1, <2>2, <2>3, <2>5 DEF Stays
  <2> QED BY <2>4, <2>5
<1>9. ASSUME T!LookAtErr(r) PROVE Effect(r)' = Effect(r)
  <2>1. /\ item' = item /\ k = "bonusList" /\ Made(r) = 1
        /\ \/ Made(r)' = Made(r) \/ Made(r)' = Made(r) + 1
           \/ Made(r)' = 0
    BY <1>9, ErrMoves DEF Stays, Advances
  <2>2. StepsOf(k) = <<"execute", "err">>
    BY <2>1 DEF StepsOf, T!HandlerOf, T!AddBonusToList, T!Handler
  <2>3. StepsOf(k)[1] = "execute" /\ StepsOf(k)[2] = "err"
    BY <2>2
  <2>4. /\ Among(k, 0, "partner") <=> FALSE
        /\ Among(k, 1, "partner") <=> FALSE
        /\ Among(k, 2, "partner") <=> FALSE
        /\ Among(k, 0, "confirm") <=> FALSE
        /\ Among(k, 1, "confirm") <=> FALSE
        /\ Among(k, 2, "confirm") <=> FALSE
    BY <2>3 DEF Among
  <2> QED BY <1>3, <2>1, <2>4 DEF Effect, EffectOf
<1> QED BY <1>4, <1>5, <1>6, <1>7, <1>8, <1>9

LEMMA PursesFinite == IsFiniteSet(T!Purses)
<1>1. \A x : IsFiniteSet({x})
  BY FS_Singleton
<1>2. \A x, y : IsFiniteSet(x) /\ IsFiniteSet(y) => IsFiniteSet(x \union y)
  BY FS_Union
<1>3. IsFiniteSet({"tokens"} \union {"deposit"}) /\ IsFiniteSet({"fund"} \union {"promo"})
  BY <1>1, <1>2
<1>4. IsFiniteSet((({"tokens"} \union {"deposit"}) \union ({"fund"} \union {"promo"}))
                      \union {"peer"})
  BY <1>1, <1>2, <1>3
<1>5. T!Purses = (({"tokens"} \union {"deposit"}) \union ({"fund"} \union {"promo"}))
                     \union {"peer"}
  BY DEF T!Purses
<1> QED BY <1>4, <1>5

\* The sum of all moves as the request says it does.
LEMMA SumStep ==
    ASSUME T!TypeOK, ShapeInv, SumInv, NEW r \in Requests, T!Step(r)
    PROVE  SumInv'
<1> DEFINE Coins == SumOver(balance, T!Purses)
           Effects == SumOver([q \in Requests |-> Effect(q)], Requests)
           Start == SumOver(Balances, T!Purses)
           Grows(d) == Effect(r)' = Effect(r) + d
<1>1. /\ IsFiniteSet(Requests) /\ IsFiniteSet(T!Purses) /\ IsFiniteSet(confirmed)
      /\ Balances \in [T!Purses -> Int] /\ balance \in [T!Purses -> Int]
      /\ partner \in Nat /\ Cardinality(confirmed) \in Nat
      /\ Coins \in Int /\ Start \in Int
  <2>1. IsFiniteSet(T!Purses)
    BY PursesFinite
  <2>2. IsFiniteSet(Requests) /\ IsFiniteSet(confirmed) /\ Cardinality(confirmed) \in Nat
    BY TransfersAssumption, FS_CardinalityType DEF SumInv
  <2>3. Balances \in [T!Purses -> Int] /\ balance \in [T!Purses -> Int] /\ partner \in Nat
    BY TransfersAssumption DEF T!TypeOK
  <2>4. Coins \in Int /\ Start \in Int
    BY <2>1, <2>3, SumType
  <2> QED BY <2>1, <2>2, <2>3, <2>4
<1>2. /\ \A q \in Requests : Effect(q) \in Int /\ Effect(q)' \in Int
      /\ \A q \in Requests \ {r} : Effect(q)' = Effect(q)
      /\ item' = item /\ Made(r)' = Made(r) => Grows(0)
      /\ pc[r] = "run" /\ item' = item /\ Made(r)' = Made(r) + 1 =>
             Grows(IF StepsOf(kind[r])[at[r]] \in {"partner", "confirm"} THEN 1 ELSE 0)
      /\ T!Execute(r) => Grows(ItemsOf(kind[r])[item[r] + 1][2])
      /\ T!LookAtErr(r) => Grows(0)
  BY EffectStep
<1>3. ASSUME NEW d \in Int, Grows(d)
      PROVE  Effects \in Int /\ Effects' = Effects + d
  <2>1. PICK f, g : /\ f = [q \in Requests |-> Effect(q)]
                    /\ g = [q \in Requests |-> Effect(q)']
    OBVIOUS
  <2>2. /\ \A q \in Requests : f[q] \in Int /\ g[q] \in Int
        /\ \A q \in Requests \ {r} : g[q] = f[q]
        /\ g[r] - f[r] = d
    BY <1>2, <1>3, <2>1
  <2>3. SumOver(f, Requests) \in Int
        /\ SumOver(g, Requests) = SumOver(f, Requests) + (g[r] - f[r])
    BY <1>1, <2>2, SumChanged
  <2>4. SumOver(g, Requests) = SumOver(f, Requests) + d
    BY <2>2, <2>3
  <2> QED BY <2>1, <2>3, <2>4
<1>4. ~twice => (Coins + partner) + Cardinality(confirmed) = Start + Effects
  BY DEF SumInv
<1> HIDE DEF Effects
<1>5. ASSUME balance' = balance, partner' = partner, confirmed' = confirmed, twice' = twice,
             Grows(0)
      PROVE  SumInv'
  <2>1. Effects' = Effects
    BY <1>3, <1>5
  <2> QED BY <1>1, <1>4, <1>5, <2>1 DEF SumInv, Effects
<1>6. T!H(r).steps = StepsOf(kind[r]) /\ T!H(r).items = ItemsOf(kind[r])
  BY TransferFacts
<1>7. ASSUME T!Running(r), T!Go(r) PROVE Made(r)' = Made(r) + 1
  BY <1>7, TransferMoves
<1>8. ASSUME LookStep(r), ~T!PayPartner(r), ~T!Confirm(r) PROVE SumInv'
  <2>1. balance' = balance /\ partner' = partner /\ confirmed' = confirmed /\ twice' = twice
    BY <1>8 DEF LookStep, T!Arrive, T!ReadBalance, T!Count, T!CountCrypto, T!Order,
         T!ExecuteRefused, T!Close, T!NotDefined, T!BreakOff, T!outside, T!history
  <2>2. item' = item
    BY <1>8, LookMoves
  <2>3. CASE Stays(r)
    BY <1>2, <1>5, <2>1, <2>2, <2>3 DEF Stays
  <2>4. CASE Advances(r) /\ ~Stays(r)
    <3>1. T!ReadBalance(r) \/ T!Count(r) \/ T!CountCrypto(r) \/ T!Order(r) \/ T!Close(r)
      BY <1>8, <2>4, LookMoves
    <3>2. StepsOf(kind[r])[at[r]] \in {"balance", "count", "countCrypto", "order", "close"}
      BY <1>6, <3>1 DEF T!ReadBalance, T!Count, T!CountCrypto, T!Order, T!Close, T!IsAt
    <3> QED BY <1>2, <1>5, <2>1, <2>2, <2>4, <3>2 DEF Advances
  <2> QED BY <1>8, <2>3, <2>4, LookMoves
<1>9. CASE T!PayPartner(r)
  <2>1. /\ StepsOf(kind[r])[at[r]] = "partner" /\ pc[r] = "run" /\ item' = item
        /\ Made(r)' = Made(r) + 1
        /\ balance' = balance /\ partner' = partner + 1 /\ confirmed' = confirmed
        /\ twice' = twice
    BY <1>6, <1>7, <1>9 DEF T!PayPartner, T!IsAt, T!Running, T!history
  <2>2. Effects \in Int /\ Effects' = Effects + 1
    BY <1>2, <1>3, <2>1
  <2> QED BY <1>1, <1>4, <2>1, <2>2 DEF SumInv, Effects
<1>10. CASE T!Confirm(r)
  <2>1. /\ StepsOf(kind[r])[at[r]] = "confirm" /\ T!Running(r) /\ pc[r] = "run"
        /\ item' = item /\ balance' = balance /\ partner' = partner
    BY <1>6, <1>10 DEF T!Confirm, T!IsAt, T!Running
  <2>2. ASSUME NEW row \in rows, confirmed' = confirmed \union {row.id},
               twice' = (twice \/ row.id \in confirmed), T!Go(r)
        PROVE  SumInv'
    <3>1. Effects \in Int /\ Effects' = Effects + 1
      BY <1>2, <1>3, <1>7, <2>1, <2>2
    <3>2. IsFiniteSet(confirmed')
      BY <1>1, <2>2, FS_AddElement
    <3>3. ~twice' => ~twice /\ Cardinality(confirmed') = Cardinality(confirmed) + 1
      BY <1>1, <2>2, FS_AddElement
    <3> QED BY <1>1, <1>4, <2>1, <3>1, <3>2, <3>3 DEF SumInv, Effects
  <2>3. CASE T!End(r, "refused") /\ confirmed' = confirmed /\ twice' = twice
    <3>1. Made(r)' = Made(r)
      BY <2>1, <2>3, TransferMoves
    <3> QED BY <1>2, <1>5, <2>1, <2>3, <3>1
  <2> QED BY <1>10, <2>2, <2>3 DEF T!Confirm
<1>11. CASE T!Execute(r)
  <2>1. PICK p, d : p = ItemsOf(kind[r])[item[r] + 1][1] /\ d = ItemsOf(kind[r])[item[r] + 1][2]
    OBVIOUS
  <2>2. p \in T!Purses /\ d \in Int
    <3>1. item[r] + 1 \in 1 .. Len(ItemsOf(kind[r])) /\ HandlerFacts(kind[r])
      BY <1>11, ExecuteMoves, TransferFacts, SMTT(30) DEF T!TypeOK
    <3> QED BY <2>1, <3>1 DEF HandlerFacts
  <2>3. /\ balance' = [balance EXCEPT ![p] = @ + d]
        /\ partner' = partner /\ confirmed' = confirmed /\ twice' = twice
    BY <1>6, <1>11, <2>1 DEF T!Execute, T!outside
  <2>4. Effects \in Int /\ Effects' = Effects + d
    BY <1>2, <1>3, <1>11, <2>1, <2>2
  <2>5. Coins' = Coins + d
    <3>1. PICK g : g = balance'
      OBVIOUS
    <3>2. /\ \A x \in T!Purses : balance[x] \in Int /\ g[x] \in Int
          /\ \A x \in T!Purses \ {p} : g[x] = balance[x]
          /\ g[p] - balance[p] = d
      BY <1>1, <2>2, <2>3, <3>1
    <3>3. SumOver(g, T!Purses) = SumOver(balance, T!Purses) + (g[p] - balance[p])
      BY <1>1, <2>2, <3>2, SumChanged
    <3>4. SumOver(g, T!Purses) = SumOver(balance, T!Purses) + d
      BY <3>2, <3>3
    <3> QED BY <3>1, <3>4
  <2>6. ~twice' => (Coins' + partner) + Cardinality(confirmed) = Start + Effects'
    <3> DEFINE Paid == Cardinality(confirmed)
    <3>1. \A i, j, l, m, n \in Int : (i + j) + l = m + n => ((i + d) + j) + l = m + (n + d)
      BY <2>2
    <3>2. Coins \in Int /\ partner \in Int /\ Paid \in Int /\ Start \in Int /\ Effects \in Int
      BY <1>1, <2>4
    <3>3. ~twice' => (Coins + partner) + Paid = Start + Effects
      BY <1>4, <2>3
    <3> HIDE DEF Coins, Paid, Start
    <3>4. ~twice' => ((Coins + d) + partner) + Paid = Start + (Effects + d)
      BY <3>1, <3>2, <3>3
    <3> QED BY <2>4, <2>5, <3>4 DEF Paid
  <2> QED BY <1>1, <2>3, <2>6 DEF SumInv, Effects
<1>12. CASE T!LookAtErr(r)
  <2>1. balance' = balance /\ partner' = partner /\ confirmed' = confirmed /\ twice' = twice
    BY <1>12 DEF T!LookAtErr, T!outside
  <2> QED BY <1>2, <1>5, <1>12, <2>1
<1> QED BY <1>8, <1>9, <1>10, <1>11, <1>12, TransferSteps

\* Who is midway is halfway; who is not, and who ended well, has done what it brings.
LEMMA ThroughIs ==
    ASSUME T!TypeOK, ShapeInv, NEW r \in Requests
    PROVE  /\ Through(kind[r], Made(r), item[r]) => Effect(r) = BroughtBy(kind[r], item[r])
           /\ T!Running(r) => (T!Midway(r) <=> Halfway(kind[r], Made(r), item[r]))
<1>1. /\ kind[r] \in DOMAIN T!HandlerOf /\ Shape(kind[r], Made(r), item[r])
      /\ T!H(r).steps = StepsOf(kind[r]) /\ T!H(r).items = ItemsOf(kind[r])
      /\ at[r] \in 1 .. Len(StepsOf(kind[r])) /\ Len(StepsOf(kind[r])) \in 1 .. 3
      /\ pc[r] # "ok" => Made(r) = at[r] - 1
  BY TransferFacts
<1>2. Made(r) \in 0 .. 3 /\ item[r] \in 0 .. 3
  BY <1>1, NextShape
<1>3. Through(kind[r], Made(r), item[r]) => Effect(r) = BroughtBy(kind[r], item[r])
  BY <1>1, <1>2, TransferHandlers DEF Effect
<1>4. ASSUME T!Running(r) PROVE T!Midway(r) <=> Halfway(kind[r], Made(r), item[r])
  <2>1. Made(r) = at[r] - 1
    BY <1>1, <1>4 DEF T!Running
  <2>2. at[r] > 1 <=> Made(r) > 0
    BY <1>1, <2>1
  <2> QED BY <1>1, <1>4, <2>1, <2>2 DEF T!Midway, Halfway
<1> QED BY <1>3, <1>4

\* A request breaks off between two of its effects, and that is recorded, or has had all.
LEMMA EvenStep ==
    ASSUME T!TypeOK, ShapeInv, EvenInv, NEW r \in Requests, T!Step(r)
    PROVE  EvenInv'
<1>1. /\ kind' = kind /\ \A q \in Requests \ {r} : pc'[q] = pc[q] /\ item'[q] = item[q]
      /\ \A q \in Requests \ {r} : Effect(q)' = Effect(q)
      /\ item' = item /\ Made(r)' = Made(r) => Effect(r)' = Effect(r)
      /\ pc \in [Requests -> {"idle", "run", "ok", "refused", "broken"}]
      /\ T!H(r).steps = StepsOf(kind[r])
  BY ShapeStep, EffectStep, TransferFacts DEF T!TypeOK
<1>2. SUFFICES ASSUME ~broken'
               PROVE  /\ ~broken
                      /\ pc'[r] = "broken" =>
                             /\ Made(r)' = Made(r) /\ item' = item
                             /\ Through(kind[r], Made(r), item[r])
  <2>1. ASSUME ~broken'
        PROVE  \A q \in Requests : pc'[q] = "broken" => Effect(q)' = BroughtBy(kind[q], item'[q])
    <3> SUFFICES ASSUME NEW q \in Requests, pc'[q] = "broken"
                 PROVE  Effect(q)' = BroughtBy(kind[q], item'[q])
      OBVIOUS
    <3>1. CASE q = r
      <4>1. Made(r)' = Made(r) /\ item' = item /\ Through(kind[r], Made(r), item[r])
        BY <1>2, <2>1, <3>1
      <4> QED BY <1>1, <3>1, <4>1, ThroughIs
    <3>2. CASE q # r
      BY <1>1, <1>2, <2>1, <3>2 DEF EvenInv
    <3> QED BY <3>1, <3>2
  <2> QED BY <1>1, <2>1 DEF EvenInv
<1>3. ASSUME T!Running(r), T!End(r, "refused") \/ T!Go(r) PROVE pc'[r] # "broken"
  BY <1>1, <1>3, TransferMoves DEF T!Running
<1>4. CASE T!Arrive(r)
  BY <1>1, <1>2, <1>4 DEF T!Arrive, T!history
<1>5. CASE T!ReadBalance(r) \/ T!Count(r) \/ T!CountCrypto(r) \/ T!Order(r) \/ T!Confirm(r)
           \/ T!PayPartner(r) \/ T!Close(r)
  <2>1. T!Running(r) /\ (T!End(r, "refused") \/ T!Go(r)) /\ broken' = broken
    BY <1>5 DEF T!ReadBalance, T!Count, T!CountCrypto, T!Order, T!Confirm, T!PayPartner,
         T!Close, T!IsAt, T!history
  <2> QED BY <1>2, <1>3, <2>1
<1>6. CASE T!Execute(r)
  <2>1. Advances(r) \/ (pc' = pc /\ pc[r] = "run")
    <3>1. pc[r] = "run"
      BY <1>6 DEF T!Execute, T!IsAt, T!Running
    <3> QED BY <1>6, <3>1, ExecuteMoves
  <2>2. pc'[r] # "broken" /\ broken' = broken
    BY <1>6, <2>1 DEF Advances, T!Execute
  <2> QED BY <1>2, <2>2
<1>7. CASE T!ExecuteRefused(r) \/ T!BreakOff(r)
  <2>1. T!Running(r) /\ T!End(r, "broken") /\ broken' = (broken \/ T!Midway(r)) /\ item' = item
    BY <1>7 DEF T!ExecuteRefused, T!BreakOff, T!IsAt
  <2>2. Made(r)' = Made(r)
    BY <2>1, TransferMoves
  <2>3. ~Halfway(kind[r], Made(r), item[r])
    BY <1>2, <2>1, ThroughIs
  <2> QED BY <1>2, <2>1, <2>2, <2>3 DEF Through
<1>8. CASE T!NotDefined(r)
  <2>1. T!Running(r) /\ T!End(r, "broken") /\ broken' = broken /\ item' = item
        /\ StepsOf(kind[r])[at[r]] = "undefined"
    BY <1>1, <1>8 DEF T!NotDefined, T!IsAt, T!history
  <2>2. Made(r)' = Made(r)
    BY <2>1, TransferMoves
  <2>3. /\ HandlerFacts(kind[r]) /\ at[r] \in 1 .. Len(StepsOf(kind[r])) /\ Made(r) = at[r] - 1
        /\ Shape(kind[r], Made(r), item[r])
    BY <2>1, TransferFacts DEF T!Running
  <2>4. Made(r) = 0 /\ Len(ItemsOf(kind[r])) = 0
    BY <2>1, <2>3 DEF HandlerFacts
  <2>5. ~Halfway(kind[r], Made(r), item[r])
    BY <2>4 DEF Halfway
  <2> QED BY <1>2, <2>1, <2>2, <2>5 DEF Through
<1>9. CASE T!LookAtErr(r)
  <2>1. item' = item /\ kind[r] = "bonusList" /\ pc[r] = "run"
    BY <1>9, ErrMoves DEF T!LookAtErr, T!IsAt, T!Running
  <2>2. CASE Stays(r) /\ (~broken' => ~broken /\ item[r] = 2)
    BY <1>2, <2>1, <2>2 DEF Stays, Through
  <2>3. CASE (Advances(r) \/ pc' = pc) /\ broken' = broken
    <3>1. pc'[r] # "broken"
      BY <2>1, <2>3 DEF Advances
    <3> QED BY <1>2, <2>3, <3>1
  <2> QED BY <1>9, <2>2, <2>3, ErrMoves
<1> QED BY <1>4, <1>5, <1>6, <1>7, <1>8, <1>9 DEF T!Step

\* What a request is past when it has made a step.
LEMMA AmongStep ==
    ASSUME T!TypeOK, ShapeInv, NEW r \in Requests, T!Step(r)
    PROVE  /\ Among(kind[r], Made(r)', "confirm") =>
                  Among(kind[r], Made(r), "confirm") \/ (T!Confirm(r) /\ Made(r)' = Made(r) + 1)
           /\ Among(kind[r], Made(r)', "count") =>
                  Among(kind[r], Made(r), "count") \/ (T!Count(r) /\ Made(r)' = Made(r) + 1)
           /\ Among(kind[r], Made(r)', "countCrypto") =>
                  Among(kind[r], Made(r), "countCrypto")
                      \/ (T!CountCrypto(r) /\ Made(r)' = Made(r) + 1)
<1> DEFINE k == kind[r]
           Passes(s) == Made(r)' = Made(r) + 1 /\ pc[r] = "run" /\ StepsOf(k)[at[r]] = s
<1>1. /\ Shape(k, Made(r), item[r]) /\ Made(r) \in 0 .. 3 /\ T!H(r).steps = StepsOf(k)
      /\ pc[r] = "run" => Made(r) + 1 = at[r]
  BY TransferFacts, NextShape
<1>2. ASSUME NEW s, Made(r)' \in {0, Made(r), Made(r) + 1}, Made(r)' = Made(r) + 1 => pc[r] = "run",
             Among(k, Made(r)', s)
      PROVE  Among(k, Made(r), s) \/ Passes(s)
  <2>1. PICK i \in 1 .. Made(r)' : StepsOf(k)[i] = s
    BY <1>2 DEF Among
  <2>2. CASE i \in 1 .. Made(r)
    BY <2>1, <2>2 DEF Among
  <2>3. CASE i \notin 1 .. Made(r)
    <3>1. Made(r)' = Made(r) + 1 /\ i = Made(r) + 1
      BY <1>1, <1>2, <2>1, <2>3
    <3> QED BY <1>1, <1>2, <2>1, <3>1
  <2> QED BY <2>2, <2>3
<1>3. CASE LookStep(r)
  <2>1. CASE Stays(r)
    BY <2>1 DEF Stays
  <2>2. CASE Advances(r) /\ ~Stays(r)
    <3>1. T!ReadBalance(r) \/ T!Count(r) \/ T!CountCrypto(r) \/ T!Order(r)
             \/ T!Confirm(r) \/ T!PayPartner(r) \/ T!Close(r)
      BY <1>3, <2>2, LookMoves
    <3>2. Made(r)' = Made(r) + 1 /\ pc[r] = "run"
      BY <2>2 DEF Advances
    <3>3. /\ T!ReadBalance(r) => StepsOf(k)[at[r]] = "balance"
          /\ T!Order(r) => StepsOf(k)[at[r]] = "order"
          /\ T!PayPartner(r) => StepsOf(k)[at[r]] = "partner"
          /\ T!Close(r) => StepsOf(k)[at[r]] = "close"
          /\ T!Confirm(r) => StepsOf(k)[at[r]] = "confirm"
          /\ T!Count(r) => StepsOf(k)[at[r]] = "count"
          /\ T!CountCrypto(r) => StepsOf(k)[at[r]] = "countCrypto"
      BY <1>1 DEF T!ReadBalance, T!Order, T!PayPartner, T!Close, T!Confirm, T!Count,
           T!CountCrypto, T!IsAt
    <3> QED BY <1>2, <3>1, <3>2, <3>3
  <2> QED BY <1>3, <2>1, <2>2, LookMoves
<1>4. CASE T!Execute(r)
  <2>1. StepsOf(k)[at[r]] = "execute" /\ (Advances(r) \/ Stays(r))
    BY <1>4, ExecuteMoves
  <2> QED BY <1>2, <2>1 DEF Advances, Stays
<1>5. CASE T!LookAtErr(r)
  <2>1. pc[r] = "run" /\ StepsOf(k)[at[r]] = "err"
    BY <1>1, <1>5 DEF T!LookAtErr, T!IsAt, T!Running
  <2>2. Made(r)' \in {0, Made(r), Made(r) + 1}
    BY <1>5, ErrMoves DEF Stays, Advances
  <2> QED BY <1>2, <2>1, <2>2
<1> QED BY <1>3, <1>4, <1>5, TransferSteps

\* Who passes the count has counted nothing, and nobody else converts meanwhile unless
\* it is recorded.
LEMMA CountStep ==
    ASSUME T!TypeOK, ShapeInv, CountInv, NEW r \in Requests, T!Step(r)
    PROVE  CountInv'
<1> DEFINE Counts(q) == Among(kind[q], Made(q), "count") \/ Among(kind[q], Made(q), "countCrypto")
<1>1. /\ kind' = kind /\ \A q \in Requests \ {r} : Made(q)' = Made(q)
      /\ T!H(r).steps = StepsOf(kind[r]) /\ HandlerFacts(kind[r])
      /\ at[r] \in 1 .. Len(StepsOf(kind[r]))
      /\ pc[r] = "run" => Made(r) = at[r] - 1
      /\ counted \in [Requests -> SUBSET Requests]
  BY ShapeStep, TransferFacts DEF T!TypeOK
<1>2. \A q \in Requests : Counts(q) => counted[q] = {}
  BY DEF CountInv
<1>3. \A q \in Requests : Counts(q)' <=> \/ Among(kind[q], Made(q)', "count")
                                         \/ Among(kind[q], Made(q)', "countCrypto")
  BY <1>1 DEF Among, StepsOf
<1> HIDE DEF Counts
<1>4. Counts(r)' => Counts(r) \/ ((T!Count(r) \/ T!CountCrypto(r)) /\ Made(r)' = Made(r) + 1)
  BY <1>3, AmongStep DEF Counts
<1>5. \A q \in Requests \ {r} : Counts(q)' => Counts(q)
  BY <1>1, <1>3 DEF Counts
<1>6. CASE T!Count(r) \/ T!CountCrypto(r)
  <2>1. /\ T!Running(r) /\ pc[r] = "run" /\ StepsOf(kind[r])[at[r]] \in {"count", "countCrypto"}
        /\ raced' = raced /\ made' = made
        /\ \A q \in Requests \ {r} : counted'[q] = counted[q]
        /\ counted'[r] # {} => T!End(r, "refused")
    BY <1>1, <1>6 DEF T!Count, T!CountCrypto, T!IsAt, T!Running
  <2>2. Made(r) = 1 /\ StepsOf(kind[r])[1] = "balance"
    BY <1>1, <2>1 DEF HandlerFacts
  <2>3. ~Counts(r)
    BY <2>2 DEF Counts, Among
  <2>4. Counts(r)' => counted'[r] = {}
    BY <1>4, <2>1, <2>2, <2>3, TransferMoves
  <2>5. \A q \in Requests : Counts(q)' => counted'[q] = {}
    BY <1>2, <1>5, <2>1, <2>4
  <2> QED BY <2>1, <2>5 DEF CountInv, Counts
<1>7. CASE ~(T!Count(r) \/ T!CountCrypto(r)) /\ ~T!Execute(r)
  <2>1. counted' = counted /\ raced' = raced /\ made' = made
    BY <1>7 DEF T!Step, T!Arrive, T!ReadBalance, T!Order, T!Confirm, T!ExecuteRefused,
         T!PayPartner, T!Close, T!LookAtErr, T!NotDefined, T!BreakOff, T!history
  <2>2. \A q \in Requests : Counts(q)' => counted'[q] = {}
    BY <1>2, <1>4, <1>5, <1>7, <2>1
  <2> QED BY <2>1, <2>2 DEF CountInv, Counts
<1>8. CASE T!Execute(r) /\ ~(T!Count(r) \/ T!CountCrypto(r))
  <2>1. counted' = counted
    BY <1>8 DEF T!Execute
  <2>2. \A q \in Requests : Counts(q)' => counted'[q] = {}
    BY <1>2, <1>4, <1>5, <1>8, <2>1
  <2>3. PICK c : /\ made' = made \union {q \in {r} : T!Converts(r, c)}
                 /\ raced' = (raced \/ (T!Converts(r, c) /\ counted[r] # made))
    BY <1>8 DEF T!Execute
  <2>4. T!Converts(r, c) => counted[r] = {}
    <3> SUFFICES ASSUME T!Converts(r, c) PROVE counted[r] = {}
      OBVIOUS
    <3>1. kind[r] = "convertToDeposit" /\ StepsOf(kind[r])[at[r]] = "execute" /\ pc[r] = "run"
      BY <1>1, <1>8 DEF T!Converts, T!Execute, T!IsAt, T!Running
    <3>2. Made(r) = 2 /\ StepsOf(kind[r])[2] = "count"
      BY <1>1, <3>1 DEF HandlerFacts
    <3>3. Counts(r)
      BY <3>2 DEF Counts, Among
    <3> QED BY <1>2, <3>3
  <2>5. ~raced' => \A p, q \in made' : p = q
    BY <2>3, <2>4 DEF CountInv
  <2> QED BY <2>2, <2>5 DEF CountInv, Counts
<1> QED BY <1>6, <1>7, <1>8

\* An order that is confirmed or debited has a row, and there is one of them unless it
\* is recorded that another was made beside it.
LEMMA OrdersStep ==
    ASSUME T!TypeOK, ShapeInv, CountInv, OrdersInv, NEW r \in Requests, T!Step(r)
    PROVE  OrdersInv'
<1> DEFINE ids == {row.id : row \in rows}
           Confirms(q) == Among(kind[q], Made(q), "confirm")
<1>1. /\ kind' = kind /\ \A q \in Requests \ {r} : Made(q)' = Made(q)
      /\ T!H(r).steps = StepsOf(kind[r]) /\ HandlerFacts(kind[r])
      /\ at[r] \in 1 .. Len(StepsOf(kind[r]))
      /\ pc[r] = "run" => Made(r) = at[r] - 1
      /\ order \in [Requests -> Requests \union {None}]
  BY ShapeStep, TransferFacts DEF T!TypeOK
<1>2. /\ \A q \in Requests : Confirms(q) => order[q] \in ids
      /\ debited \subseteq ids /\ (~pending => \A i, j \in ids : i = j)
  BY DEF OrdersInv
<1>3. \A q \in Requests : Confirms(q)' <=> Among(kind[q], Made(q)', "confirm")
  BY <1>1 DEF Among, StepsOf
<1> HIDE DEF Confirms
<1>4. Confirms(r)' => Confirms(r) \/ (T!Confirm(r) /\ Made(r)' = Made(r) + 1)
  BY <1>3, AmongStep DEF Confirms
<1>5. \A q \in Requests \ {r} : Confirms(q)' => Confirms(q)
  BY <1>1, <1>3 DEF Confirms
<1>6. SUFFICES /\ \A q \in Requests : Confirms(q)' => order'[q] \in ids'
               /\ debited' \subseteq ids' /\ (~pending' => \A i, j \in ids' : i = j)
  BY <1>6 DEF OrdersInv, Confirms
<1>7. ASSUME NEW s, T!IsAt(r, s), kind[r] = "confirm", s \in {"execute", "close"}
      PROVE  order[r] \in ids
  <2>1. StepsOf(kind[r])[at[r]] = s /\ pc[r] = "run"
    BY <1>1, <1>7 DEF T!IsAt, T!Running
  <2>2. Made(r) \in {1, 2} /\ StepsOf(kind[r])[1] = "confirm"
    BY <1>1, <1>7, <2>1 DEF HandlerFacts
  <2>3. Confirms(r)
    BY <2>2 DEF Confirms, Among
  <2> QED BY <1>2, <2>3
<1>8. ASSUME order' = order, ids' = ids, debited' = debited, pending' = pending, ~T!Confirm(r)
      PROVE  /\ \A q \in Requests : Confirms(q)' => order'[q] \in ids'
             /\ debited' \subseteq ids' /\ (~pending' => \A i, j \in ids' : i = j)
  <2>1. \A q \in Requests : Confirms(q)' => order'[q] \in ids'
    BY <1>2, <1>4, <1>5, <1>8
  <2> QED BY <1>2, <1>8, <2>1
<1>9. CASE T!Order(r) /\ ~T!Confirm(r)
  <2>1. /\ order' = order /\ debited' = debited
        /\ rows' = rows \union {[id |-> r, status |-> "A"]}
        /\ pending' = (pending \/ \E row \in rows : row.id \notin counted[r])
        /\ StepsOf(kind[r])[at[r]] = "order" /\ pc[r] = "run"
    BY <1>1, <1>9 DEF T!Order, T!IsAt, T!Running
  <2>2. ids' = ids \union {r}
    <3>1. PICK new : new = [id |-> r, status |-> "A"]
      OBVIOUS
    <3>2. new.id = r /\ rows' = rows \union {new}
      BY <2>1, <3>1
    <3> QED BY <3>2
  <2>3. Made(r) = 2 /\ StepsOf(kind[r])[2] = "countCrypto"
    BY <1>1, <2>1 DEF HandlerFacts
  <2>4. counted[r] = {}
    BY <2>3 DEF CountInv, Among
  <2>5. ~pending' => ids = {}
    BY <2>1, <2>4
  <2> HIDE DEF ids
  <2>6. ~pending' => \A i, j \in ids' : i = j
    BY <2>2, <2>5
  <2> QED BY <1>2, <1>4, <1>5, <1>9, <2>1, <2>2, <2>6
<1>10. CASE T!Confirm(r)
  <2>1. ids' = ids /\ debited' = debited /\ pending' = pending /\ T!Running(r)
    BY <1>10 DEF T!Confirm, T!IsAt
  <2>2. ASSUME NEW row \in rows, order' = [order EXCEPT ![r] = row.id]
        PROVE  \A q \in Requests : Confirms(q)' => order'[q] \in ids'
    <3>1. row.id \in ids /\ order'[r] = row.id /\ \A q \in Requests \ {r} : order'[q] = order[q]
      BY <1>1, <2>2
    <3> QED BY <1>2, <1>5, <2>1, <3>1
  <2>3. CASE T!End(r, "refused") /\ order' = order
    <3>1. Made(r)' = Made(r) /\ Made(r) + 1 # Made(r)
      BY <1>1, <2>1, <2>3, TransferMoves, TransferFacts DEF T!Running
    <3> QED BY <1>2, <1>4, <1>5, <2>1, <2>3, <3>1
  <2>4. \A q \in Requests : Confirms(q)' => order'[q] \in ids'
    BY <1>10, <2>2, <2>3 DEF T!Confirm
  <2> QED BY <1>2, <2>1, <2>4
<1>11. CASE T!Close(r)
  <2>1. /\ order' = order /\ debited' = debited /\ pending' = pending
        /\ rows' = {row \in rows : row.id # order[r]} \union {[id |-> order[r], status |-> "C"]}
        /\ T!IsAt(r, "close")
    BY <1>11 DEF T!Close, T!history
  <2>2. kind[r] = "confirm"
    BY <1>1, <2>1 DEF HandlerFacts, T!IsAt
  <2>3. order[r] \in ids
    BY <1>7, <2>1, <2>2
  <2>4. ids' = ids
    <3>1. PICK new : new = [id |-> order[r], status |-> "C"]
      OBVIOUS
    <3>2. new.id = order[r] /\ rows' = {row \in rows : row.id # order[r]} \union {new}
      BY <2>1, <3>1
    <3>3. ASSUME NEW i \in ids' PROVE i \in ids
      BY <2>3, <3>2, <3>3
    <3>4. ASSUME NEW i \in ids PROVE i \in ids'
      BY <3>2, <3>4
    <3> QED BY <3>3, <3>4
  <2>5. ~T!Confirm(r)
    BY <1>1, <2>1 DEF T!Confirm, T!IsAt
  <2> QED BY <1>8, <2>1, <2>4, <2>5
<1>12. CASE T!Execute(r)
  <2>1. /\ order' = order /\ rows' = rows /\ pending' = pending /\ T!IsAt(r, "execute")
        /\ debited' = debited \union {o \in {order[r]} : kind[r] = "confirm"}
    BY <1>12 DEF T!Execute, T!outside
  <2>2. debited' \subseteq ids'
    BY <1>2, <1>7, <2>1
  <2>3. ~T!Confirm(r)
    BY <2>1 DEF T!Confirm, T!IsAt
  <2>4. \A q \in Requests : Confirms(q)' => order'[q] \in ids'
    BY <1>2, <1>4, <1>5, <2>1, <2>3
  <2> QED BY <1>2, <2>1, <2>2, <2>4
<1>13. CASE ~(T!Order(r) \/ T!Confirm(r) \/ T!Close(r) \/ T!Execute(r))
  <2>1. order' = order /\ rows' = rows /\ debited' = debited /\ pending' = pending
    BY <1>13 DEF T!Step, T!Arrive, T!ReadBalance, T!Count, T!CountCrypto, T!ExecuteRefused,
         T!PayPartner, T!LookAtErr, T!NotDefined, T!BreakOff, T!history, T!outside
  <2> QED BY <1>8, <1>13, <2>1
<1> QED BY <1>9, <1>10, <1>11, <1>12, <1>13

LEMMA TransferInit ==
    ASSUME T!Init
    PROVE  TransferInv
<1>1. kind \in [Requests -> DOMAIN T!HandlerOf]
  <2>1. PICK mix \in Mixes : kind \in [Requests -> mix]
    BY DEF T!Init
  <2> QED BY <2>1, TransfersAssumption
<1>2. ASSUME NEW r \in Requests
      PROVE  /\ HandlerFacts(kind[r]) /\ Made(r) = 0
             /\ at[r] \in DOMAIN T!H(r).steps /\ item[r] \in 0 .. Len(T!H(r).items)
             /\ Shape(kind[r], Made(r), item[r]) /\ Effect(r) = 0
             /\ \A s : ~Among(kind[r], Made(r), s)
  <2>1. HandlerFacts(kind[r])
    BY <1>1, TransferHandlers
  <2>2. at[r] = 1 /\ item[r] = 0 /\ pc[r] = "idle"
    BY DEF T!Init
  <2>3. Made(r) = 0
    BY <2>2 DEF Made
  <2>4. T!H(r).steps = StepsOf(kind[r]) /\ T!H(r).items = ItemsOf(kind[r])
    BY DEF T!H, StepsOf, ItemsOf
  <2>5. \A s : ~Among(kind[r], Made(r), s)
    BY <2>3 DEF Among
  <2>6. Effect(r) = 0
    BY <2>2, <2>5 DEF Effect, EffectOf, CoinsOf
  <2>7. Shape(kind[r], Made(r), item[r])
    BY <2>1, <2>2, <2>3, <2>5 DEF HandlerFacts, Shape
  <2> QED BY <2>1, <2>2, <2>3, <2>4, <2>5, <2>6, <2>7 DEF HandlerFacts
<1>3. T!TypeOK
  <2>1. \A r \in Requests : at[r] \in DOMAIN T!H(r).steps /\ item[r] \in 0 .. Len(T!H(r).items)
    BY <1>2
  <2>2. Balances \in [T!Purses -> Int]
    BY TransfersAssumption
  <2> QED BY <1>1, <2>1, <2>2 DEF T!Init, T!TypeOK
<1>4. ShapeInv /\ EvenInv
  BY <1>2 DEF ShapeInv, EvenInv, T!Init
<1>5. SumInv
  <2> DEFINE f == [r \in Requests |-> Effect(r)]
  <2>1. \A r \in Requests : f[r] = 0
    BY <1>2
  <2> HIDE DEF f
  <2>2. SumOver(f, Requests) = 0
    BY <2>1, SumZero, TransfersAssumption
  <2>3. SumOver(Balances, T!Purses) \in Int
    BY TransfersAssumption, PursesFinite, SumType
  <2>4. IsFiniteSet({}) /\ Cardinality({}) = 0
    BY FS_EmptySet
  <2> QED BY <2>2, <2>3, <2>4 DEF SumInv, T!Init, f
<1>6. OrdersInv /\ CountInv
  BY <1>2 DEF OrdersInv, CountInv, T!Init
<1> QED BY <1>3, <1>4, <1>5, <1>6 DEF TransferInv

LEMMA TransferInvariant ==
    /\ T!Init => TransferInv
    /\ TransferInv /\ [T!Next]_(T!vars) => TransferInv'
<1>1. T!Init => TransferInv
  BY TransferInit
<1>2. TransferInv /\ [T!Next]_(T!vars) => TransferInv'
  <2> SUFFICES ASSUME TransferInv, [T!Next]_(T!vars) PROVE TransferInv'
    OBVIOUS
  <2>1. CASE UNCHANGED T!vars
    BY <2>1 DEF T!vars, T!fixed, T!outside, T!history, TransferInv, T!TypeOK, T!H, ShapeInv,
         EvenInv, SumInv, OrdersInv, CountInv, Made, Effect
  <2>2. ASSUME NEW r \in Requests, T!Step(r) PROVE TransferInv'
    BY <2>2, TransferTypeStep, ShapeStep, EvenStep, SumStep, OrdersStep, CountStep
       DEF TransferInv
  <2> QED BY <2>1, <2>2 DEF T!Next
<1> QED BY <1>1, <1>2

LEMMA TransferIsPart ==
    /\ Init => (part = "transfers" => TransferInv)
    /\ (part = "transfers" => TransferInv) /\ [Next]_vars => (part = "transfers" => TransferInv)'
<1>1. Init => (part = "transfers" => TransferInv)
  BY TransferInvariant, OneOfThem
<1>2. ASSUME part = "transfers" => TransferInv, [Next]_vars, part' = "transfers" PROVE TransferInv'
  <2>1. part = "transfers" /\ [T!Next]_(T!vars)
    BY <1>2, OneOfThem
  <2> QED BY <1>2, <2>1, TransferInvariant
<1> QED BY <1>1, <1>2

LEMMA PursesTotal == \A purses : T!Total(purses) = SumOver(purses, T!Purses)
BY DEF T!Total, SumOver, FoldFunctionOnSet, T!FoldFunctionOnSet, T!MapThenFoldSet,
   MapThenFoldSet

LEMMA RequestsTotal ==
    \A f : T!FoldFunctionOnSet(+, 0, f, Requests) = SumOver(f, Requests)
BY DEF SumOver, FoldFunctionOnSet, T!FoldFunctionOnSet, T!MapThenFoldSet, MapThenFoldSet

LEMMA SameCount == \A s : T!Cardinality(s) = Cardinality(s)
BY DEF T!Cardinality, Cardinality

-------------------------------------------------------------------------------
(* The theorems *)

\* Every variable of the requests that transfer coins keeps its type.
THEOREM TransferTyped == T!Spec => []T!TypeOK
<1>1. TransferInv => T!TypeOK
  BY DEF TransferInv
<1> QED BY <1>1, TransferInvariant, PTL DEF T!Spec

\* Tokens are converted once a day, to deposit unless two requests counted before
\* either had executed, to crypto unless an order was made beside another one.
LEMMA ConversionsOnce ==
    ASSUME TransferInv
    PROVE  T!OneConversionADay
<1>1. ASSUME NEW s, \A i, j \in s : i = j PROVE ~(Cardinality(s) > 1)
  <2>1. CASE s = {}
    BY <2>1, FS_EmptySet
  <2>2. CASE s # {}
    <3>1. PICK i \in s : TRUE
      BY <2>2
    <3>2. s = {i}
      BY <1>1, <3>1
    <3>3. Cardinality({i}) = 1
      BY FS_Singleton
    <3> QED BY <3>2, <3>3
  <2> QED BY <2>1, <2>2
<1>2. ~raced => \A i, j \in made : i = j
  BY DEF TransferInv, CountInv
<1>3. ~pending => \A i, j \in debited : i = j
  BY DEF TransferInv, OrdersInv
<1> QED BY <1>1, <1>2, <1>3, SameCount DEF T!OneConversionADay

\* When no request is midway, each has done what it brings, and the sum is that.
LEMMA CoinsKept ==
    ASSUME TransferInv
    PROVE  T!CoinsConserved
<1> SUFFICES ASSUME ~broken, ~twice, \A r \in Requests : ~T!Midway(r)
             PROVE  T!Total(balance) + partner + T!Cardinality(confirmed)
                        = T!Total(Balances)
                              + T!FoldFunctionOnSet(+, 0, [r \in Requests |-> T!Brought(r)],
                                                    Requests)
  BY Zenon DEF T!CoinsConserved
<1>1. T!TypeOK /\ ShapeInv /\ EvenInv /\ SumInv
  BY DEF TransferInv
<1>2. ASSUME NEW r \in Requests PROVE Effect(r) = T!Brought(r)
  <2>1. T!Brought(r) = BroughtBy(kind[r], item[r])
    BY DEF T!Brought, BroughtBy
  <2>2. pc[r] \in {"idle", "run", "ok", "refused", "broken"}
    BY <1>1 DEF T!TypeOK
  <2>3. CASE pc[r] = "broken"
    BY <1>1, <2>1, <2>3 DEF EvenInv
  <2>4. CASE pc[r] = "run"
    BY <1>1, <2>1, <2>4, ThroughIs DEF T!Running, Through
  <2>5. CASE pc[r] = "idle"
    <3>1. Made(r) = 0 /\ item[r] = 0
      BY <1>1, <2>5 DEF ShapeInv, Made
    <3>2. ~Halfway(kind[r], Made(r), item[r])
      BY <3>1 DEF Halfway
    <3> QED BY <1>1, <2>1, <3>2, ThroughIs DEF Through
  <2>6. CASE pc[r] = "ok"
    <3>1. Made(r) = Len(StepsOf(kind[r]))
      BY <1>1, <2>6 DEF ShapeInv, Made
    <3> QED BY <1>1, <2>1, <3>1, ThroughIs DEF Through
  <2>7. CASE pc[r] = "refused"
    <3>1. StepsOf(kind[r])[Made(r) + 1] \in {"balance", "count", "countCrypto", "confirm"}
      BY <1>1, <2>7, TransferFacts DEF ShapeInv
    <3> QED BY <1>1, <2>1, <3>1, ThroughIs DEF Through
  <2> QED BY <2>2, <2>3, <2>4, <2>5, <2>6, <2>7
<1>3. SumOver([r \in Requests |-> Effect(r)], Requests)
          = SumOver([r \in Requests |-> T!Brought(r)], Requests)
  <2> DEFINE f == [r \in Requests |-> Effect(r)]
             g == [r \in Requests |-> T!Brought(r)]
  <2>1. \A r \in Requests : f[r] = g[r]
    BY <1>2
  <2> HIDE DEF f, g
  <2>2. SumOver(f, Requests) = SumOver(g, Requests)
    BY <2>1, SumSame, TransfersAssumption
  <2> QED BY <2>2 DEF f, g
<1>4. SumOver(balance, T!Purses) + partner + Cardinality(confirmed)
          = SumOver(Balances, T!Purses) + SumOver([r \in Requests |-> Effect(r)], Requests)
  BY <1>1 DEF SumInv
<1>5. T!Total(balance) + partner + T!Cardinality(confirmed)
          = T!Total(Balances) + SumOver([r \in Requests |-> T!Brought(r)], Requests)
  BY <1>3, <1>4, PursesTotal, SameCount
<1>6. T!FoldFunctionOnSet(+, 0, [r \in Requests |-> T!Brought(r)], Requests)
          = SumOver([r \in Requests |-> T!Brought(r)], Requests)
  BY RequestsTotal, Zenon
<1> QED BY <1>5, <1>6, Zenon

\* However requests on the same wallets interleave, are refused and break off: tokens
\* are converted twice a day only where two requests overlapped, and what is in the
\* wallets, with the partner and paid out is what was there and what bonuses and
\* recharges brought, unless a request is midway, has broken off there, or an order is
\* confirmed again.
THEOREM TransfersHoldTogether ==
    (T!Spec => []T!TransfersHold) /\ (Spec => []TransfersHold)
<1>1. TransferInv => T!TransfersHold
  BY ConversionsOnce, CoinsKept DEF T!TransfersHold
<1>2. (part = "transfers" => TransferInv) => TransfersHold
  BY <1>1 DEF TransfersHold
<1> QED BY <1>1, <1>2, TransferInvariant, TransferIsPart, PTL DEF T!Spec, Spec
===============================================================================
