---------------------------- MODULE Operators_proofs ---------------------------
(***************************************************************************)
(* Proofs about what the operators' requests do, for any number of users   *)
(* and requests.  MCOperators has the instances: E for EventLifecycle, K   *)
(* for ContestUpdate, B for ClubEvent.  Each section is about one of them; *)
(* the theorems at the end are about each and about the module that        *)
(* composes them.                                                          *)
(***************************************************************************)
EXTENDS MCOperators, TLAPS, FiniteSetTheorems

-------------------------------------------------------------------------------
(* EVENT.  OneUpdateAtATime is not inductive: SetFlag starts an update, and  *)
(* what keeps another from being in process then is that the flag was read   *)
(* as unset under the lock.  FlagGuard adds who holds the lock and that the  *)
(* flag stays unset between reading and setting it.                          *)
Admitting == {"locked", "unset"}

\* The owner of the lock is the one request between lock and unlock, and the
\* flag it has read as unset is still unset.
FlagGuard ==
    /\ \A r \in Updates : pc[r] \in Admitting => lock = {r}
    /\ \A r \in Updates : pc[r] = "unset" => ~flag

\* Only a request that was read and not refused gets to its last write, and it
\* does not ask for C without a correct value.
TargetValid ==
    /\ \A r \in E!Requests : pc[r] \in E!Working \ {"admitted"} => target[r] # "C-"
    /\ \A c \in ContestCancels : target[c] = "CAN"

USE DEF E!Requests, E!Statuses, E!Targets, E!Working, Admitting, E!InProcess, E!money, E!history

-------------------------------------------------------------------------------
(* Type correctness *)

LEMMA EventTypeInit == E!Init => E!TypeOK /\ TargetValid
BY DEF E!Init, E!TypeOK, TargetValid

\* A step of an update keeps the types; TargetValid types the status it writes.
LEMMA EventTypeStep ==
    ASSUME E!TypeOK, TargetValid, NEW r \in Updates, E!UpdateStep(r)
    PROVE  E!TypeOK' /\ TargetValid'
<1> USE OperatorsAssumption DEF E!TypeOK, TargetValid, E!GoTo, E!End
<1>1. ASSUME NEW t \in E!Targets, E!Arrive(r, t) PROVE E!TypeOK' /\ TargetValid'
  BY <1>1 DEF E!Arrive
<1>2. CASE E!Refuse(r)
  BY <1>2 DEF E!Refuse
<1>3. CASE E!Admit(r)
  BY <1>3 DEF E!Admit
<1>4. CASE E!SetFlag(r)
  BY <1>4 DEF E!SetFlag
<1>5. CASE E!RefuseInvalid(r)
  BY <1>5 DEF E!RefuseInvalid
<1>6. CASE E!ReadEvent(r)
  BY <1>6 DEF E!ReadEvent
<1>7. CASE E!RefuseSettle(r)
  BY <1>7 DEF E!RefuseSettle
<1>8. CASE E!NothingToCancel(r)
  BY <1>8 DEF E!NothingToCancel
<1>9. CASE E!FreezeToCancel(r)
  BY <1>9 DEF E!FreezeToCancel
<1>10. CASE E!FreezeToSettle(r)
  BY <1>10 DEF E!FreezeToSettle
<1>11. CASE E!Edit(r)
  BY <1>11 DEF E!Edit
<1>12. CASE E!Reverse(r)
  BY <1>12 DEF E!Reverse
<1>13. CASE E!FinishReset(r)
  BY <1>13 DEF E!FinishReset
<1>14. CASE E!ListToSettle(r)
  BY <1>14 DEF E!ListToSettle
<1>15. CASE E!Settled(r)
  BY <1>15 DEF E!Settled
<1>16. CASE E!Write(r)
  BY <1>16 DEF E!Write
<1>17. ASSUME NEW u \in Users, E!Credit(r, u) PROVE E!TypeOK' /\ TargetValid'
  BY <1>17 DEF E!Credit
<1> QED
  BY <1>1, <1>2, <1>3, <1>4, <1>5, <1>6, <1>7, <1>8, <1>9, <1>10, <1>11, <1>12,
     <1>13, <1>14, <1>15, <1>16, <1>17 DEF E!UpdateStep

\* So do a step of cancelEvent, a failure and the operator.
LEMMA EventOtherStep ==
    ASSUME E!TypeOK, TargetValid,
           \/ \E c \in ContestCancels : E!ContestCancel(c)
           \/ \E r \in E!Requests : E!CancelStep(r) \/ E!Fail(r)
           \/ E!OperatorClearsFlag
    PROVE  E!TypeOK' /\ TargetValid'
<1> USE OperatorsAssumption DEF E!TypeOK, TargetValid, E!GoTo, E!End
<1>1. ASSUME NEW c \in ContestCancels, E!ContestCancel(c) PROVE E!TypeOK' /\ TargetValid'
  BY <1>1 DEF E!ContestCancel
<1>2. ASSUME NEW r \in E!Requests, E!ListActive(r) PROVE E!TypeOK' /\ TargetValid'
  BY <1>2 DEF E!ListActive
<1>3. ASSUME NEW r \in E!Requests, E!MarkCancelled(r) PROVE E!TypeOK' /\ TargetValid'
  BY <1>3 DEF E!MarkCancelled
<1>4. ASSUME NEW r \in E!Requests, NEW u \in Users, E!Refund(r, u)
      PROVE E!TypeOK' /\ TargetValid'
  BY <1>4 DEF E!Refund
<1>5. ASSUME NEW r \in E!Requests, E!Fail(r) PROVE E!TypeOK' /\ TargetValid'
  BY <1>5 DEF E!Fail
<1>6. CASE E!OperatorClearsFlag
  BY <1>6 DEF E!OperatorClearsFlag
<1> QED BY <1>1, <1>2, <1>3, <1>4, <1>5, <1>6 DEF E!CancelStep

LEMMA EventTypes == E!Spec => [](E!TypeOK /\ TargetValid)
<1>1. E!TypeOK /\ TargetValid /\ [E!Next]_(E!vars) => (E!TypeOK /\ TargetValid)'
  <2>1. CASE UNCHANGED E!vars
    BY <2>1 DEF E!vars, E!TypeOK, TargetValid
  <2> QED BY <2>1, EventTypeStep, EventOtherStep DEF E!Next
<1> QED BY <1>1, EventTypeInit, PTL DEF E!Spec

\* Every variable of the lifecycle keeps its type, the status included, which an
\* update copies from its request.
THEOREM EventTyped == E!Spec => []E!TypeOK
BY EventTypes, PTL

-------------------------------------------------------------------------------
(* One update at a time *)

LockInv == FlagGuard /\ E!OneUpdateAtATime

LEMMA LockInit == E!Init => LockInv
BY DEF E!Init, LockInv, FlagGuard, E!OneUpdateAtATime

LEMMA LockUpdateStep ==
    ASSUME E!TypeOK, LockInv, NEW r \in Updates, E!UpdateStep(r)
    PROVE  LockInv'
<1> USE DEF E!TypeOK, LockInv, FlagGuard, E!OneUpdateAtATime, E!GoTo, E!End
<1>1. ASSUME NEW t \in E!Targets, E!Arrive(r, t) PROVE LockInv'
  BY <1>1 DEF E!Arrive
<1>2. CASE E!Refuse(r)
  BY <1>2 DEF E!Refuse
<1>3. CASE E!Admit(r)
  BY <1>3 DEF E!Admit
<1>4. CASE E!SetFlag(r)
  BY <1>4 DEF E!SetFlag
<1>5. CASE E!RefuseInvalid(r)
  BY <1>5 DEF E!RefuseInvalid
<1>6. CASE E!ReadEvent(r)
  BY <1>6 DEF E!ReadEvent
<1>7. CASE E!RefuseSettle(r)
  BY <1>7 DEF E!RefuseSettle
<1>8. CASE E!NothingToCancel(r)
  BY <1>8 DEF E!NothingToCancel
<1>9. CASE E!FreezeToCancel(r)
  BY <1>9 DEF E!FreezeToCancel
<1>10. CASE E!FreezeToSettle(r)
  BY <1>10 DEF E!FreezeToSettle
<1>11. CASE E!Edit(r)
  BY <1>11 DEF E!Edit
<1>12. CASE E!Reverse(r)
  BY <1>12 DEF E!Reverse
<1>13. CASE E!FinishReset(r)
  BY <1>13 DEF E!FinishReset
<1>14. CASE E!ListToSettle(r)
  BY <1>14 DEF E!ListToSettle
<1>15. CASE E!Settled(r)
  BY <1>15 DEF E!Settled
<1>16. CASE E!Write(r)
  BY <1>16 DEF E!Write
<1>17. ASSUME NEW u \in Users, E!Credit(r, u) PROVE LockInv'
  BY <1>17 DEF E!Credit
<1> QED
  BY <1>1, <1>2, <1>3, <1>4, <1>5, <1>6, <1>7, <1>8, <1>9, <1>10, <1>11, <1>12,
     <1>13, <1>14, <1>15, <1>16, <1>17 DEF E!UpdateStep

\* A contest cancellation touches neither the lock nor the flag, and the operator
\* only the flag of an update that is gone.
LEMMA LockOtherStep ==
    ASSUME E!TypeOK, LockInv,
           \/ \E c \in ContestCancels : E!ContestCancel(c)
           \/ \E r \in E!Requests : E!CancelStep(r) \/ E!Fail(r)
           \/ E!OperatorClearsFlag
    PROVE  LockInv'
<1> USE OperatorsAssumption DEF E!TypeOK, LockInv, FlagGuard, E!OneUpdateAtATime, E!GoTo
<1>1. ASSUME NEW c \in ContestCancels, E!ContestCancel(c) PROVE LockInv'
  BY <1>1 DEF E!ContestCancel
<1>2. ASSUME NEW r \in E!Requests, E!ListActive(r) PROVE LockInv'
  BY <1>2 DEF E!ListActive
<1>3. ASSUME NEW r \in E!Requests, E!MarkCancelled(r) PROVE LockInv'
  BY <1>3 DEF E!MarkCancelled
<1>4. ASSUME NEW r \in E!Requests, NEW u \in Users, E!Refund(r, u) PROVE LockInv'
  BY <1>4 DEF E!Refund
<1>5. ASSUME NEW r \in E!Requests, E!Fail(r) PROVE LockInv'
  BY <1>5 DEF E!Fail
<1>6. CASE E!OperatorClearsFlag
  BY <1>6 DEF E!OperatorClearsFlag
<1> QED BY <1>1, <1>2, <1>3, <1>4, <1>5, <1>6 DEF E!CancelStep

\* However many updates of an event arrive, fail or are refused, and whatever
\* contest cancellations run beside them, at most one update is in process.
LEMMA EventOneUpdate == E!Spec => []E!OneUpdateAtATime
<1>1. E!TypeOK /\ LockInv /\ [E!Next]_(E!vars) => LockInv'
  <2>1. CASE UNCHANGED E!vars
    BY <2>1 DEF E!vars, LockInv, FlagGuard, E!OneUpdateAtATime
  <2> QED BY <2>1, LockUpdateStep, LockOtherStep DEF E!Next
<1>2. LockInv => E!OneUpdateAtATime
  BY DEF LockInv
<1> QED BY <1>1, <1>2, LockInit, EventTyped, PTL DEF E!Spec

-------------------------------------------------------------------------------
(* What a request's list, status and target tell about the money             *)

\* Where a request can be, given what it asks for.
Route ==
    \A r \in Updates :
        /\ pc[r] \in {"cancel", "refund"} => target[r] \in {"CAN", "I"}
        /\ pc[r] \in {"settle", "pay"} => target[r] = "C"

\* A cancellation still has to refund every active call; an inactive event, and
\* one about to be written as inactive, has none.
CancelInv ==
    /\ \A r \in E!Requests : pc[r] = "refund" => active \subseteq list[r]
    /\ \A r \in Updates :
          /\ pc[r] = "write" /\ target[r] \in {"CAN", "I"} => active = {}
          /\ seen[r] = "I" => active = {}
    /\ status = "I" => active = {}

\* A settlement has credited every active call or still lists it.
SettleInv ==
    /\ \A r \in Updates :
          /\ pc[r] = "pay" => active \subseteq credited \union list[r]
          /\ pc[r] = "write" /\ target[r] = "C" => active \subseteq credited
    /\ E!CompleteIsPaid

PaidInv == LockInv /\ Route /\ CancelInv /\ SettleInv

LEMMA PaidInit == E!Init => PaidInv
BY LockInit, OperatorsAssumption
   DEF PaidInv, E!Init, Route, CancelInv, SettleInv, E!CompleteIsPaid

LEMMA PaidUpdateStep ==
    ASSUME E!TypeOK, TargetValid, PaidInv, LockInv', NEW r \in Updates, E!UpdateStep(r)
    PROVE  PaidInv'
<1> USE OperatorsAssumption
        DEF E!TypeOK, TargetValid, PaidInv, LockInv, E!OneUpdateAtATime, Route,
            CancelInv, SettleInv, E!CompleteIsPaid, E!GoTo, E!End
<1>1. ASSUME NEW t \in E!Targets, E!Arrive(r, t) PROVE PaidInv'
  BY <1>1 DEF E!Arrive
<1>2. CASE E!Refuse(r)
  BY <1>2 DEF E!Refuse
<1>3. CASE E!Admit(r)
  BY <1>3 DEF E!Admit
<1>4. CASE E!SetFlag(r)
  BY <1>4 DEF E!SetFlag
<1>5. CASE E!RefuseInvalid(r)
  BY <1>5 DEF E!RefuseInvalid
<1>6. CASE E!ReadEvent(r)
  BY <1>6 DEF E!ReadEvent
<1>7. CASE E!RefuseSettle(r)
  BY <1>7 DEF E!RefuseSettle
<1>8. CASE E!NothingToCancel(r)
  BY <1>8 DEF E!NothingToCancel
<1>9. CASE E!FreezeToCancel(r)
  BY <1>9 DEF E!FreezeToCancel
<1>10. CASE E!FreezeToSettle(r)
  BY <1>10 DEF E!FreezeToSettle
<1>11. CASE E!Edit(r)
  BY <1>11 DEF E!Edit
<1>12. CASE E!Reverse(r)
  BY <1>12 DEF E!Reverse
<1>13. CASE E!FinishReset(r)
  BY <1>13 DEF E!FinishReset
<1>14. CASE E!ListToSettle(r)
  BY <1>14 DEF E!ListToSettle
<1>15. CASE E!Settled(r)
  BY <1>15 DEF E!Settled
<1>16. CASE E!Write(r)
  BY <1>16 DEF E!Write
<1>17. ASSUME NEW u \in Users, E!Credit(r, u) PROVE PaidInv'
  BY <1>17 DEF E!Credit
<1> QED
  BY <1>1, <1>2, <1>3, <1>4, <1>5, <1>6, <1>7, <1>8, <1>9, <1>10, <1>11, <1>12,
     <1>13, <1>14, <1>15, <1>16, <1>17 DEF E!UpdateStep

LEMMA PaidOtherStep ==
    ASSUME E!TypeOK, TargetValid, PaidInv, LockInv',
           \/ \E c \in ContestCancels : E!ContestCancel(c)
           \/ \E r \in E!Requests : E!CancelStep(r) \/ E!Fail(r)
           \/ E!OperatorClearsFlag
    PROVE  PaidInv'
<1> USE OperatorsAssumption
        DEF E!TypeOK, TargetValid, PaidInv, Route, CancelInv, SettleInv,
            E!CompleteIsPaid, E!GoTo
<1>1. ASSUME NEW c \in ContestCancels, E!ContestCancel(c) PROVE PaidInv'
  BY <1>1 DEF E!ContestCancel
<1>2. ASSUME NEW r \in E!Requests, E!ListActive(r) PROVE PaidInv'
  BY <1>2 DEF E!ListActive
<1>3. ASSUME NEW r \in E!Requests, E!MarkCancelled(r) PROVE PaidInv'
  BY <1>3 DEF E!MarkCancelled
<1>4. ASSUME NEW r \in E!Requests, NEW u \in Users, E!Refund(r, u) PROVE PaidInv'
  BY <1>4 DEF E!Refund
<1>5. ASSUME NEW r \in E!Requests, E!Fail(r) PROVE PaidInv'
  BY <1>5 DEF E!Fail
<1>6. CASE E!OperatorClearsFlag
  BY <1>6 DEF E!OperatorClearsFlag
<1> QED BY <1>1, <1>2, <1>3, <1>4, <1>5, <1>6 DEF E!CancelStep

\* A completed event has credited all active calls, for any number of users,
\* updates and contest cancellations.
LEMMA EventCompletePaid == E!Spec => []E!CompleteIsPaid
<1>1. E!TypeOK /\ TargetValid /\ PaidInv /\ [E!Next]_(E!vars) => PaidInv'
  <2> SUFFICES ASSUME E!TypeOK, TargetValid, PaidInv, [E!Next]_(E!vars) PROVE PaidInv'
    OBVIOUS
  <2>1. CASE UNCHANGED E!vars
    BY <2>1 DEF E!vars, PaidInv, LockInv, FlagGuard, E!OneUpdateAtATime, Route,
       CancelInv, SettleInv, E!CompleteIsPaid
  <2>2. ASSUME E!Next PROVE LockInv'
    BY <2>2, LockUpdateStep, LockOtherStep DEF E!Next, PaidInv
  <2> QED BY <2>1, <2>2, PaidUpdateStep, PaidOtherStep DEF E!Next
<1>2. PaidInv => E!CompleteIsPaid
  BY DEF PaidInv, SettleInv
<1> QED BY <1>1, <1>2, PaidInit, EventTypes, PTL DEF E!Spec

-------------------------------------------------------------------------------
(* Refunds against credits, as long as contests keep away                    *)

\* A contest cancellation and an update are in process together only if raced.
Apart ==
    ~raced => \A c \in ContestCancels : \A r \in Updates :
                 ~(E!InProcess(c) /\ E!InProcess(r))

\* What an update has read of the event still holds.
EventStatusKnown ==
    ~raced => \A r \in Updates :
        /\ pc[r] = "decide" => seen[r] = status
        /\ pc[r] \in {"settle", "pay"} => status = "F"
        /\ pc[r] = "write" /\ target[r] = "C" => status = "F"

\* Refunded calls are not active.  A settlement lists none of them, and a
\* cancellation knows all users credited before it.
OneWayInv ==
    /\ refunded \intersect active = {}
    /\ ~raced => \A r \in Updates : pc[r] = "pay" => list[r] \intersect refunded = {}
    /\ ~raced => \A r \in E!Requests : pc[r] = "refund" => credited \subseteq creditedFirst
    /\ E!PaidOneWay

ApartInv == LockInv /\ Route /\ Apart /\ EventStatusKnown /\ OneWayInv

LEMMA ApartInit == E!Init => ApartInv
BY LockInit, OperatorsAssumption
   DEF ApartInv, E!Init, Route, Apart, EventStatusKnown, OneWayInv, E!PaidOneWay

LEMMA ApartUpdateStep ==
    ASSUME E!TypeOK, ApartInv, LockInv', NEW r \in Updates, E!UpdateStep(r)
    PROVE  ApartInv'
<1> USE OperatorsAssumption
        DEF E!TypeOK, ApartInv, LockInv, E!OneUpdateAtATime, Route, Apart,
            EventStatusKnown, OneWayInv, E!PaidOneWay, E!GoTo, E!End
<1>1. ASSUME NEW t \in E!Targets, E!Arrive(r, t) PROVE ApartInv'
  BY <1>1 DEF E!Arrive
<1>2. CASE E!Refuse(r)
  BY <1>2 DEF E!Refuse
<1>3. CASE E!Admit(r)
  BY <1>3 DEF E!Admit
<1>4. CASE E!SetFlag(r)
  BY <1>4 DEF E!SetFlag
<1>5. CASE E!RefuseInvalid(r)
  BY <1>5 DEF E!RefuseInvalid
<1>6. CASE E!ReadEvent(r)
  BY <1>6 DEF E!ReadEvent
<1>7. CASE E!RefuseSettle(r)
  BY <1>7 DEF E!RefuseSettle
<1>8. CASE E!NothingToCancel(r)
  BY <1>8 DEF E!NothingToCancel
<1>9. CASE E!FreezeToCancel(r)
  BY <1>9 DEF E!FreezeToCancel
<1>10. CASE E!FreezeToSettle(r)
  BY <1>10 DEF E!FreezeToSettle
<1>11. CASE E!Edit(r)
  BY <1>11 DEF E!Edit
<1>12. CASE E!Reverse(r)
  BY <1>12 DEF E!Reverse
<1>13. CASE E!FinishReset(r)
  BY <1>13 DEF E!FinishReset
<1>14. CASE E!ListToSettle(r)
  BY <1>14 DEF E!ListToSettle
<1>15. CASE E!Settled(r)
  BY <1>15 DEF E!Settled
<1>16. CASE E!Write(r)
  BY <1>16 DEF E!Write
<1>17. ASSUME NEW u \in Users, E!Credit(r, u) PROVE ApartInv'
  BY <1>17 DEF E!Credit
<1> QED
  BY <1>1, <1>2, <1>3, <1>4, <1>5, <1>6, <1>7, <1>8, <1>9, <1>10, <1>11, <1>12,
     <1>13, <1>14, <1>15, <1>16, <1>17 DEF E!UpdateStep

LEMMA ApartOtherStep ==
    ASSUME E!TypeOK, ApartInv, LockInv',
           \/ \E c \in ContestCancels : E!ContestCancel(c)
           \/ \E r \in E!Requests : E!CancelStep(r) \/ E!Fail(r)
           \/ E!OperatorClearsFlag
    PROVE  ApartInv'
<1> USE OperatorsAssumption
        DEF E!TypeOK, ApartInv, LockInv, E!OneUpdateAtATime, Route, Apart,
            EventStatusKnown, OneWayInv, E!PaidOneWay, E!GoTo
<1>1. ASSUME NEW c \in ContestCancels, E!ContestCancel(c) PROVE ApartInv'
  BY <1>1 DEF E!ContestCancel
<1>2. ASSUME NEW r \in E!Requests, E!ListActive(r) PROVE ApartInv'
  BY <1>2 DEF E!ListActive
<1>3. ASSUME NEW r \in E!Requests, E!MarkCancelled(r) PROVE ApartInv'
  BY <1>3 DEF E!MarkCancelled
<1>4. ASSUME NEW r \in E!Requests, NEW u \in Users, E!Refund(r, u) PROVE ApartInv'
  BY <1>4 DEF E!Refund
<1>5. ASSUME NEW r \in E!Requests, E!Fail(r) PROVE ApartInv'
  BY <1>5 DEF E!Fail
<1>6. CASE E!OperatorClearsFlag
  BY <1>6 DEF E!OperatorClearsFlag
<1> QED BY <1>1, <1>2, <1>3, <1>4, <1>5, <1>6 DEF E!CancelStep

LEMMA ApartInvariant == E!Spec => []ApartInv
<1>1. E!TypeOK /\ ApartInv /\ [E!Next]_(E!vars) => ApartInv'
  <2> SUFFICES ASSUME E!TypeOK, ApartInv, [E!Next]_(E!vars) PROVE ApartInv'
    OBVIOUS
  <2>1. CASE UNCHANGED E!vars
    BY <2>1 DEF E!vars, ApartInv, LockInv, FlagGuard, E!OneUpdateAtATime, Route, Apart,
       EventStatusKnown, OneWayInv, E!PaidOneWay
  <2>2. ASSUME E!Next PROVE LockInv'
    BY <2>2, LockUpdateStep, LockOtherStep DEF E!Next, ApartInv
  <2> QED BY <2>1, <2>2, ApartUpdateStep, ApartOtherStep DEF E!Next
<1> QED BY <1>1, ApartInit, EventTyped, PTL DEF E!Spec

\* A user is both credited and refunded only if the credit came first or a contest
\* cancellation met an update.
LEMMA EventPaidOneWay == E!Spec => []E!PaidOneWay
<1>1. ApartInv => E!PaidOneWay
  BY DEF ApartInv, OneWayInv
<1> QED BY <1>1, ApartInvariant, PTL

\* No step freezes or completes a cancelled event, unless a contest cancellation
\* met an update.
THEOREM CancelledNotSettledHolds == E!Spec => E!CancelledNotSettled
<1>1. E!TypeOK /\ ApartInv /\ [E!Next]_(E!vars) =>
        [~raced /\ status = "CAN" => status' \notin {"F", "C"}]_(E!vars)
  <2> SUFFICES ASSUME E!TypeOK, ApartInv, E!Next, ~raced, status = "CAN"
               PROVE  status' \notin {"F", "C"}
    OBVIOUS
  <2> USE DEF E!TypeOK, ApartInv, EventStatusKnown
  <2>1. ASSUME NEW r \in Updates, E!UpdateStep(r) PROVE status' \notin {"F", "C"}
    <3>1. CASE E!FreezeToCancel(r) \/ E!FreezeToSettle(r)
      BY <3>1 DEF E!FreezeToCancel, E!FreezeToSettle
    <3>2. CASE E!Write(r)
      BY <3>2 DEF E!Write
    <3>3. CASE E!FinishReset(r)
      BY <3>3 DEF E!FinishReset
    <3> QED
      BY <2>1, <3>1, <3>2, <3>3
         DEF E!UpdateStep, E!Arrive, E!Refuse, E!Admit, E!SetFlag, E!RefuseInvalid, E!ReadEvent,
             E!RefuseSettle, E!NothingToCancel, E!Edit, E!Reverse, E!ListToSettle, E!Settled, E!Credit
  <2>2. ASSUME NEW r \in E!Requests, E!CancelStep(r) \/ E!Fail(r)
        PROVE  status' \notin {"F", "C"}
    BY <2>2 DEF E!CancelStep, E!ListActive, E!MarkCancelled, E!Refund, E!Fail
  <2>3. CASE (\E c \in ContestCancels : E!ContestCancel(c)) \/ E!OperatorClearsFlag
    BY <2>3 DEF E!ContestCancel, E!OperatorClearsFlag
  <2> QED BY <2>1, <2>2, <2>3 DEF E!Next
<1> QED BY <1>1, ApartInvariant, EventTyped, PTL DEF E!Spec, E!CancelledNotSettled

HIDE DEF E!Requests, E!Statuses, E!Targets, E!Working, Admitting, E!InProcess, E!money, E!history

-------------------------------------------------------------------------------
(* CONTEST.  No lock protects what is proved of it: each update carries its  *)
(* own evidence.  RefundsTraced says what a cancelling update knows at each  *)
(* step, EventsTraced what a settling one knows; ContestStatusKnown that the *)
(* status an update has read is still the contest's while none overlaps,     *)
(* PaymentsTraced who knows of payments the status does not show yet.        *)
USE DEF K!Statuses, K!Closed, K!Running, K!Active, K!Goto, K!Clear, K!contest, K!history, K!users

(* Whoever has entered without being late is on the list of every cancelling
   update that has one; an update about to write CAN has a list, and has refunded
   it when it gets there. *)
RefundsTraced ==
    /\ \A r \in Updates :
          want[r] = "CAN" /\ listed[r] # {} => entered \ late \subseteq listed[r]
    /\ \A r \in Updates : pc[r] \in {"cancelEvents", "refund", "mark"} => want[r] = "CAN"
    /\ \A r \in Updates : pc[r] \in {"pay", "checkEvents"} => want[r] = "C"
    /\ \A r \in Updates : pc[r] = "list" => want[r] \in K!Closed
    /\ \A r \in Updates :
          want[r] = "CAN" /\ pc[r] \in {"cancelEvents", "refund", "mark", "write"} =>
              listed[r] # {}
    /\ \A r \in Updates :
          want[r] = "CAN" /\ pc[r] \in {"mark", "write"} =>
              \A u \in listed[r] : refunded[u] > 0

(* A settling update past its check has seen every event closed. *)
EventsTraced ==
    \A r \in Updates : want[r] = "C" /\ pc[r] \in {"list", "pay"} => events # "A" \/ reversed

-------------------------------------------------------------------------------
(* Type correctness *)

LEMMA ContestTypeInit == K!Init => K!TypeOK
<1> SUFFICES ASSUME K!Init PROVE K!TypeOK
  OBVIOUS
<1>1. bracket \in [Updates -> 1 .. Brackets] /\ prizes \in [1 .. Brackets -> Nat]
  BY OperatorsAssumption DEF K!Init
<1>2. pc \in [Updates -> K!Running \union {"idle", "delete", "test", "done"}]
  BY DEF K!Init
<1>3. listed \in [Updates -> SUBSET Users] /\ late \in SUBSET entered /\ entered \in SUBSET Users
  BY DEF K!Init
<1>4. joining \in [Users -> {"out", "read", "in"}] /\ refunded \in [Users -> Nat]
  BY DEF K!Init
<1> QED BY <1>1, <1>2, <1>3, <1>4 DEF K!Init, K!TypeOK

\* A step of an update keeps the types.
LEMMA ContestTypeStep ==
    ASSUME K!TypeOK, NEW r \in Updates, K!UpdateStep(r)
    PROVE  K!TypeOK'
<1> USE OperatorsAssumption DEF K!TypeOK, K!FirstStep
<1>1. CASE K!Lock(r)
  BY <1>1 DEF K!Lock
<1>2. CASE K!DeleteFlag(r)
  BY <1>2 DEF K!DeleteFlag
<1>3. CASE K!TestFlag(r)
  BY <1>3 DEF K!TestFlag
<1>4. CASE K!ReadContest(r)
  BY <1>4 DEF K!ReadContest
<1>5. CASE K!CheckEvents(r)
  BY <1>5 DEF K!CheckEvents
<1>6. CASE K!ListNobody(r)
  BY <1>6 DEF K!ListNobody
<1>7. CASE K!ListUsers(r)
  BY <1>7 DEF K!ListUsers
<1>8. CASE K!NoWinners(r)
  BY <1>8 DEF K!NoWinners
<1>9. CASE K!CancelEvents(r)
  BY <1>9 DEF K!CancelEvents
<1>10. CASE K!RefundEntries(r)
  BY <1>10 DEF K!RefundEntries
<1>11. CASE K!MarkCancelled(r)
  BY <1>11 DEF K!MarkCancelled
<1>12. CASE K!PayBracket(r)
  <2>1. bracket' \in [Updates -> 1 .. Brackets]
    <3>1. CASE bracket[r] = Brackets
      BY <1>12, <3>1 DEF K!PayBracket
    <3>2. CASE bracket[r] # Brackets
      <4>1. bracket' = [bracket EXCEPT ![r] = @ + 1]
        BY <1>12, <3>2 DEF K!PayBracket
      <4>2. bracket[r] + 1 \in 1 .. Brackets
        BY <3>2
      <4> QED BY <4>1, <4>2
    <3> QED BY <3>1, <3>2
  <2>2. prizes' \in [1 .. Brackets -> Nat]
    BY <1>12 DEF K!PayBracket
  <2>3. pc' \in [Updates -> K!Running \union {"idle", "delete", "test", "done"}]
    BY <1>12 DEF K!PayBracket
  <2> QED BY <1>12, <2>1, <2>2, <2>3 DEF K!PayBracket
<1>13. CASE K!WriteContest(r)
  BY <1>13 DEF K!WriteContest
<1>14. CASE K!ClearFlag(r)
  BY <1>14 DEF K!ClearFlag
<1>15. CASE K!Fail(r)
  BY <1>15 DEF K!Fail
<1> QED
  BY <1>1, <1>2, <1>3, <1>4, <1>5, <1>6, <1>7, <1>8,
     <1>9, <1>10, <1>11, <1>12, <1>13, <1>14, <1>15 DEF K!UpdateStep

\* So does a step of a user, of the events or a crash.
LEMMA ContestOtherStep ==
    ASSUME K!TypeOK,
           \/ \E u \in Users : K!EnterRead(u) \/ K!EnterCommit(u)
           \/ K!Crash \/ K!SettleEvents \/ K!ResetEvents
    PROVE  K!TypeOK'
<1> USE OperatorsAssumption DEF K!TypeOK
<1>1. ASSUME NEW u \in Users, K!EnterRead(u) PROVE K!TypeOK'
  BY <1>1 DEF K!EnterRead
<1>2. ASSUME NEW u \in Users, K!EnterCommit(u) PROVE K!TypeOK'
  BY <1>2 DEF K!EnterCommit
<1>3. CASE K!Crash
  BY <1>3 DEF K!Crash
<1>4. CASE K!SettleEvents
  BY <1>4 DEF K!SettleEvents
<1>5. CASE K!ResetEvents
  BY <1>5 DEF K!ResetEvents
<1> QED BY <1>1, <1>2, <1>3, <1>4, <1>5

\* Every variable of a contest and its updates keeps its type: the rank bracket
\* paid next is one of the prize table.
THEOREM ContestTyped == K!Spec => []K!TypeOK
<1>1. K!TypeOK /\ [K!Next]_(K!vars) => K!TypeOK'
  <2>1. CASE UNCHANGED K!vars
    BY <2>1 DEF K!vars, K!TypeOK
  <2> QED BY <2>1, ContestTypeStep, ContestOtherStep DEF K!Next
<1> QED BY <1>1, ContestTypeInit, PTL DEF K!Spec

-------------------------------------------------------------------------------
(* Refunds *)

RefundInv == RefundsTraced /\ K!CancelledRefundsEntries

LEMMA RefundInit == K!Init => RefundInv
BY DEF K!Init, RefundInv, RefundsTraced, K!CancelledRefundsEntries

LEMMA RefundUpdateStep ==
    ASSUME K!TypeOK, RefundInv, NEW r \in Updates, K!UpdateStep(r)
    PROVE  RefundInv'
<1> USE DEF K!TypeOK, RefundInv, RefundsTraced, K!CancelledRefundsEntries, K!FirstStep
<1>1. CASE K!Lock(r)
  BY <1>1 DEF K!Lock
<1>2. CASE K!DeleteFlag(r)
  BY <1>2 DEF K!DeleteFlag
<1>3. CASE K!TestFlag(r)
  BY <1>3 DEF K!TestFlag
<1>4. CASE K!ReadContest(r)
  BY <1>4 DEF K!ReadContest
<1>5. CASE K!CheckEvents(r)
  BY <1>5 DEF K!CheckEvents
<1>6. CASE K!ListNobody(r)
  BY <1>6 DEF K!ListNobody
<1>7. CASE K!ListUsers(r)
  BY <1>7 DEF K!ListUsers
<1>8. CASE K!NoWinners(r)
  BY <1>8 DEF K!NoWinners
<1>9. CASE K!CancelEvents(r)
  BY <1>9 DEF K!CancelEvents
<1>10. CASE K!RefundEntries(r)
  <2>1. \A u \in Users : refunded[u] > 0 \/ u \in listed[r] => refunded'[u] > 0
    <3> TAKE u \in Users
    <3>1. refunded[u] \in Nat
      OBVIOUS
    <3>2. refunded'[u] = refunded[u] + IF u \in listed[r] THEN 1 ELSE 0
      BY <1>10 DEF K!RefundEntries
    <3> QED BY <3>1, <3>2
  <2>2. UNCHANGED <<status, want, listed, entered, late>>
    BY <1>10 DEF K!RefundEntries
  <2>3. pc[r] = "refund" /\ pc' = [pc EXCEPT ![r] = "mark"]
    BY <1>10 DEF K!RefundEntries
  <2>4. K!CancelledRefundsEntries'
    BY <2>1, <2>2
  <2>5. RefundsTraced'
    BY <2>1, <2>2, <2>3
  <2> QED BY <2>4, <2>5
<1>11. CASE K!MarkCancelled(r)
  BY <1>11 DEF K!MarkCancelled
<1>12. CASE K!PayBracket(r)
  BY <1>12 DEF K!PayBracket
<1>13. CASE K!WriteContest(r)
  BY <1>13 DEF K!WriteContest
<1>14. CASE K!ClearFlag(r)
  BY <1>14 DEF K!ClearFlag
<1>15. CASE K!Fail(r)
  BY <1>15 DEF K!Fail
<1> QED
  BY <1>1, <1>2, <1>3, <1>4, <1>5, <1>6, <1>7, <1>8,
     <1>9, <1>10, <1>11, <1>12, <1>13, <1>14, <1>15 DEF K!UpdateStep

LEMMA RefundOtherStep ==
    ASSUME K!TypeOK, RefundInv,
           \/ \E u \in Users : K!EnterRead(u) \/ K!EnterCommit(u)
           \/ K!Crash \/ K!SettleEvents \/ K!ResetEvents
    PROVE  RefundInv'
<1> USE DEF K!TypeOK, RefundInv, RefundsTraced, K!CancelledRefundsEntries
<1>1. ASSUME NEW u \in Users, K!EnterRead(u) PROVE RefundInv'
  BY <1>1 DEF K!EnterRead
<1>2. ASSUME NEW u \in Users, K!EnterCommit(u) PROVE RefundInv'
  BY <1>2 DEF K!EnterCommit
<1>3. CASE K!Crash
  BY <1>3 DEF K!Crash
<1>4. CASE K!SettleEvents
  BY <1>4 DEF K!SettleEvents
<1>5. CASE K!ResetEvents
  BY <1>5 DEF K!ResetEvents
<1> QED BY <1>1, <1>2, <1>3, <1>4, <1>5

LEMMA RefundInvariant == K!Spec => []RefundInv
<1>1. K!TypeOK /\ RefundInv /\ [K!Next]_(K!vars) => RefundInv'
  <2>1. CASE UNCHANGED K!vars
    BY <2>1 DEF K!vars, RefundInv, RefundsTraced, K!CancelledRefundsEntries
  <2> QED BY <2>1, RefundUpdateStep, RefundOtherStep DEF K!Next
<1> QED BY <1>1, RefundInit, ContestTyped, PTL DEF K!Spec

\* Whatever updates overlap, fail or crash, a contest marked CAN has refunded the
\* fee of everyone who entered before the refund lists were read.
LEMMA ContestCancelled == K!Spec => []K!CancelledRefundsEntries
<1>1. RefundInv => K!CancelledRefundsEntries
  BY DEF RefundInv
<1> QED BY <1>1, RefundInvariant, PTL

-------------------------------------------------------------------------------
(* Prizes *)

PrizeInv == EventsTraced /\ K!PrizesAfterEvents

LEMMA PrizeInit == K!Init => PrizeInv
BY DEF K!Init, PrizeInv, EventsTraced, K!PrizesAfterEvents

LEMMA PrizeUpdateStep ==
    ASSUME K!TypeOK, RefundsTraced, PrizeInv, NEW r \in Updates, K!UpdateStep(r)
    PROVE  PrizeInv'
<1> USE DEF K!TypeOK, RefundsTraced, PrizeInv, EventsTraced, K!PrizesAfterEvents, K!FirstStep
<1>1. CASE K!Lock(r)
  BY <1>1 DEF K!Lock
<1>2. CASE K!DeleteFlag(r)
  BY <1>2 DEF K!DeleteFlag
<1>3. CASE K!TestFlag(r)
  BY <1>3 DEF K!TestFlag
<1>4. CASE K!ReadContest(r)
  BY <1>4 DEF K!ReadContest
<1>5. CASE K!CheckEvents(r)
  BY <1>5 DEF K!CheckEvents
<1>6. CASE K!ListNobody(r)
  BY <1>6 DEF K!ListNobody
<1>7. CASE K!ListUsers(r)
  BY <1>7 DEF K!ListUsers
<1>8. CASE K!NoWinners(r)
  BY <1>8 DEF K!NoWinners
<1>9. CASE K!CancelEvents(r)
  BY <1>9 DEF K!CancelEvents
<1>10. CASE K!RefundEntries(r)
  BY <1>10 DEF K!RefundEntries
<1>11. CASE K!MarkCancelled(r)
  BY <1>11 DEF K!MarkCancelled
<1>12. CASE K!PayBracket(r)
  BY <1>12 DEF K!PayBracket
<1>13. CASE K!WriteContest(r)
  BY <1>13 DEF K!WriteContest
<1>14. CASE K!ClearFlag(r)
  BY <1>14 DEF K!ClearFlag
<1>15. CASE K!Fail(r)
  BY <1>15 DEF K!Fail
<1> QED
  BY <1>1, <1>2, <1>3, <1>4, <1>5, <1>6, <1>7, <1>8,
     <1>9, <1>10, <1>11, <1>12, <1>13, <1>14, <1>15 DEF K!UpdateStep

LEMMA PrizeOtherStep ==
    ASSUME K!TypeOK, PrizeInv,
           \/ \E u \in Users : K!EnterRead(u) \/ K!EnterCommit(u)
           \/ K!Crash \/ K!SettleEvents \/ K!ResetEvents
    PROVE  PrizeInv'
<1> USE DEF K!TypeOK, PrizeInv, EventsTraced, K!PrizesAfterEvents
<1>1. ASSUME NEW u \in Users, K!EnterRead(u) PROVE PrizeInv'
  BY <1>1 DEF K!EnterRead
<1>2. ASSUME NEW u \in Users, K!EnterCommit(u) PROVE PrizeInv'
  BY <1>2 DEF K!EnterCommit
<1>3. CASE K!Crash
  BY <1>3 DEF K!Crash
<1>4. CASE K!SettleEvents
  BY <1>4 DEF K!SettleEvents
<1>5. CASE K!ResetEvents
  BY <1>5 DEF K!ResetEvents
<1> QED BY <1>1, <1>2, <1>3, <1>4, <1>5

\* However updates interleave, prizes have been paid only when every event of the
\* contest is settled or cancelled, unless an event is reset.
LEMMA ContestPrizes == K!Spec => []K!PrizesAfterEvents
<1>1. K!TypeOK /\ RefundsTraced /\ PrizeInv /\ [K!Next]_(K!vars) => PrizeInv'
  <2>1. CASE UNCHANGED K!vars
    BY <2>1 DEF K!vars, PrizeInv, EventsTraced, K!PrizesAfterEvents
  <2> QED BY <2>1, PrizeUpdateStep, PrizeOtherStep DEF K!Next
<1>2. RefundInv => RefundsTraced
  BY DEF RefundInv
<1>3. PrizeInv => K!PrizesAfterEvents
  BY DEF PrizeInv
<1> QED BY <1>1, <1>2, <1>3, PrizeInit, RefundInvariant, ContestTyped, PTL DEF K!Spec

-------------------------------------------------------------------------------
(* One update at a time: what holds as long as no two have overlapped        *)

\* The update that runs alone still knows the status it has read.
ContestStatusKnown ==
    ~overlap =>
        /\ \A r, q \in Updates : K!Active(r) /\ K!Active(q) => r = q
        /\ \A r \in Updates :
              /\ pc[r] \in {"checkEvents", "list", "cancelEvents", "refund", "mark", "pay"} =>
                    status \notin K!Closed
              /\ pc[r] = "write" => status \notin K!Closed \/ status = want[r]

\* Only the update that has made them knows of payments before the status does.
PaymentsTraced ==
    ~overlap /\ ~broken =>
        /\ \A b \in 1 .. Brackets :
              /\ prizes[b] <= 1
              /\ prizes[b] > 0 =>
                    \/ status = "C"
                    \/ \E r \in Updates :
                          \/ pc[r] = "pay" /\ bracket[r] > b
                          \/ pc[r] = "write" /\ want[r] = "C"
        /\ \A u \in Users :
              refunded[u] > 0 => status = "CAN" \/ \E r \in Updates : pc[r] = "mark"

\* The wishes that go with an update's step, from RefundsTraced.
WantTraced ==
    /\ \A r \in Updates : pc[r] \in {"cancelEvents", "refund", "mark"} => want[r] = "CAN"
    /\ \A r \in Updates : pc[r] \in {"pay", "checkEvents"} => want[r] = "C"
    /\ \A r \in Updates : pc[r] = "list" => want[r] \in K!Closed

LEMMA StatusUpdateStep ==
    ASSUME K!TypeOK, WantTraced, ContestStatusKnown, NEW r \in Updates, K!UpdateStep(r)
    PROVE  ContestStatusKnown' /\ (status \in K!Closed => status' = status \/ overlap)
<1> USE DEF K!TypeOK, WantTraced, ContestStatusKnown, K!FirstStep
<1>1. CASE K!Lock(r)
  BY <1>1 DEF K!Lock
<1>2. CASE K!DeleteFlag(r)
  BY <1>2 DEF K!DeleteFlag
<1>3. CASE K!TestFlag(r)
  <2>1. status' = status /\ want' = want /\ (~overlap' => ~overlap)
    BY <1>3 DEF K!TestFlag
  <2>2. CASE flag
    <3>1. pc' = [pc EXCEPT ![r] = "done"]
      BY <1>3, <2>2 DEF K!TestFlag
    <3> QED BY <2>1, <3>1
  <2>3. CASE ~flag
    <3>1. pc' = [pc EXCEPT ![r] = "read"]
      BY <1>3, <2>3 DEF K!TestFlag
    <3>2. ~overlap' => \A q \in Updates \ {r} : ~K!Active(q)
      BY <1>3, <2>3 DEF K!TestFlag
    <3> QED BY <2>1, <3>1, <3>2
  <2> QED BY <2>2, <2>3
<1>4. CASE K!ReadContest(r)
  <2>1. status' = status /\ want' = want /\ overlap' = overlap /\ pc[r] = "read"
    BY <1>4 DEF K!ReadContest
  <2>2. CASE status \in K!Closed
    <3>1. pc' = [pc EXCEPT ![r] = "done"]
      BY <1>4, <2>2 DEF K!ReadContest
    <3> QED BY <2>1, <3>1
  <2>3. CASE status \notin K!Closed
    <3>1. /\ pc' = [pc EXCEPT ![r] = K!FirstStep(want[r])]
          /\ K!FirstStep(want[r]) \in {"write", "checkEvents", "list"}
      BY <1>4, <2>3 DEF K!ReadContest
    <3> QED BY <2>1, <2>3, <3>1
  <2> QED BY <2>2, <2>3
<1>5. CASE K!CheckEvents(r)
  <2>1. status' = status /\ want' = want /\ overlap' = overlap /\ pc[r] = "checkEvents"
    BY <1>5 DEF K!CheckEvents
  <2>2. \E step \in {"list", "done"} : pc' = [pc EXCEPT ![r] = step]
    BY <1>5 DEF K!CheckEvents
  <2> QED BY <2>1, <2>2
<1>6. CASE K!ListNobody(r)
  BY <1>6 DEF K!ListNobody
<1>7. CASE K!ListUsers(r)
  BY <1>7 DEF K!ListUsers
<1>8. CASE K!NoWinners(r)
  BY <1>8 DEF K!NoWinners
<1>9. CASE K!CancelEvents(r)
  BY <1>9 DEF K!CancelEvents
<1>10. CASE K!RefundEntries(r)
  BY <1>10 DEF K!RefundEntries
<1>11. CASE K!MarkCancelled(r)
  BY <1>11 DEF K!MarkCancelled
<1>12. CASE K!PayBracket(r)
  BY <1>12 DEF K!PayBracket
<1>13. CASE K!WriteContest(r)
  BY <1>13 DEF K!WriteContest
<1>14. CASE K!ClearFlag(r)
  BY <1>14 DEF K!ClearFlag
<1>15. CASE K!Fail(r)
  BY <1>15 DEF K!Fail
<1> QED
  BY <1>1, <1>2, <1>3, <1>4, <1>5, <1>6, <1>7, <1>8,
     <1>9, <1>10, <1>11, <1>12, <1>13, <1>14, <1>15 DEF K!UpdateStep

LEMMA StatusOtherStep ==
    ASSUME K!TypeOK, ContestStatusKnown,
           \/ \E u \in Users : K!EnterRead(u) \/ K!EnterCommit(u)
           \/ K!Crash \/ K!SettleEvents \/ K!ResetEvents
    PROVE  ContestStatusKnown' /\ status' = status
<1> USE DEF K!TypeOK, ContestStatusKnown
<1>1. ASSUME NEW u \in Users, K!EnterRead(u) \/ K!EnterCommit(u)
      PROVE  ContestStatusKnown' /\ status' = status
  BY <1>1 DEF K!EnterRead, K!EnterCommit
<1>2. CASE K!Crash
  BY <1>2 DEF K!Crash
<1>3. CASE K!SettleEvents \/ K!ResetEvents
  BY <1>3 DEF K!SettleEvents, K!ResetEvents
<1> QED BY <1>1, <1>2, <1>3

LEMMA PaymentsUpdateStep ==
    ASSUME K!TypeOK, WantTraced, ContestStatusKnown, PaymentsTraced, NEW r \in Updates, K!UpdateStep(r)
    PROVE  PaymentsTraced'
<1> USE DEF K!TypeOK, WantTraced, PaymentsTraced, K!FirstStep
<1>1. CASE K!Lock(r)
  BY <1>1 DEF K!Lock
<1>2. CASE K!DeleteFlag(r)
  BY <1>2 DEF K!DeleteFlag
<1>3. CASE K!TestFlag(r)
  BY <1>3 DEF K!TestFlag
<1>4. CASE K!ReadContest(r)
  BY <1>4 DEF K!ReadContest
<1>5. CASE K!CheckEvents(r)
  BY <1>5 DEF K!CheckEvents
<1>6. CASE K!ListNobody(r)
  BY <1>6 DEF K!ListNobody, ContestStatusKnown
<1>7. CASE K!ListUsers(r)
  BY <1>7 DEF K!ListUsers
<1>8. CASE K!NoWinners(r)
  BY <1>8 DEF K!NoWinners, ContestStatusKnown
<1>9. CASE K!CancelEvents(r)
  BY <1>9 DEF K!CancelEvents
<1>10. CASE K!RefundEntries(r)
  BY <1>10 DEF K!RefundEntries, ContestStatusKnown
<1>11. CASE K!MarkCancelled(r)
  BY <1>11 DEF K!MarkCancelled, ContestStatusKnown
<1>12. CASE K!PayBracket(r)
  <2> SUFFICES ASSUME ~overlap, ~broken PROVE PaymentsTraced'
    BY <1>12 DEF K!PayBracket
  <2>1. /\ pc[r] = "pay" /\ want[r] = "C" /\ status \notin K!Closed
        /\ bracket[r] \in 1 .. Brackets
        /\ UNCHANGED <<status, want, refunded, overlap, broken>>
        /\ prizes' = [prizes EXCEPT ![bracket[r]] = @ + 1]
    BY <1>12 DEF K!PayBracket, ContestStatusKnown
  <2>2. \A q \in Updates : K!Active(q) => q = r
    BY <2>1 DEF ContestStatusKnown
  <2>3. \A b \in 1 .. Brackets : prizes[b] > 0 => bracket[r] > b
    BY <2>1, <2>2
  <2>4. prizes[bracket[r]] = 0
    <3>1. PICK n \in 1 .. Brackets : n = bracket[r]
      BY <2>1
    <3>2. prizes[n] \in Nat /\ n \in Int /\ Brackets \in Int
      BY OperatorsAssumption
    <3>3. ~(n > n)
      BY <3>2
    <3>4. ~(prizes[n] > 0)
      BY <2>3, <3>1, <3>3
    <3> QED BY <3>1, <3>2, <3>4
  <2>5. \A b \in 1 .. Brackets : prizes'[b] <= 1 /\ (prizes'[b] > 0 => bracket[r] >= b)
    <3> TAKE b \in 1 .. Brackets
    <3>1. prizes[b] \in Nat /\ b \in Int /\ bracket[r] \in Int
      BY <2>1
    <3>2. CASE b = bracket[r]
      BY <2>1, <2>4, <3>1, <3>2
    <3>3. CASE b # bracket[r]
      BY <2>1, <2>3, <3>1, <3>3
    <3> QED BY <3>2, <3>3
  <2>6. \A u \in Users : ~(refunded[u] > 0)
    BY <2>1, <2>2
  <2>7. CASE bracket[r] = Brackets
    <3>1. pc' = [pc EXCEPT ![r] = "write"]
      BY <1>12, <2>7 DEF K!PayBracket
    <3> QED BY <2>1, <2>5, <2>6, <3>1
  <2>8. CASE bracket[r] # Brackets
    <3>1. pc' = pc /\ bracket' = [bracket EXCEPT ![r] = @ + 1]
      BY <1>12, <2>8 DEF K!PayBracket
    <3>2. \A b \in 1 .. Brackets : bracket[r] >= b => bracket'[r] > b
      BY <2>1, <3>1
    <3> QED BY <2>1, <2>5, <2>6, <3>1, <3>2
  <2> QED BY <2>7, <2>8
<1>13. CASE K!WriteContest(r)
  BY <1>13 DEF K!WriteContest, ContestStatusKnown
<1>14. CASE K!ClearFlag(r)
  BY <1>14 DEF K!ClearFlag
<1>15. CASE K!Fail(r)
  <2> SUFFICES ASSUME ~overlap, ~broken, ~K!HasPaid(r) PROVE PaymentsTraced'
    BY <1>15 DEF K!Fail
  <2>1. /\ pc' = [pc EXCEPT ![r] = "done"]
        /\ UNCHANGED <<status, want, refunded, prizes, bracket, overlap>>
    BY <1>15 DEF K!Fail
  <2>2. /\ pc[r] # "mark" /\ ~(pc[r] = "write" /\ want[r] = "C")
        /\ \A b \in 1 .. Brackets : ~(bracket[r] > b)
    <3>1. bracket[r] \in Int /\ ~(bracket[r] > 1)
      BY DEF K!HasPaid
    <3> QED BY <3>1 DEF K!HasPaid
  <2> QED BY <2>1, <2>2
<1> QED
  BY <1>1, <1>2, <1>3, <1>4, <1>5, <1>6, <1>7, <1>8,
     <1>9, <1>10, <1>11, <1>12, <1>13, <1>14, <1>15 DEF K!UpdateStep

LEMMA PaymentsOtherStep ==
    ASSUME K!TypeOK, ContestStatusKnown, PaymentsTraced,
           \/ \E u \in Users : K!EnterRead(u) \/ K!EnterCommit(u)
           \/ K!Crash \/ K!SettleEvents \/ K!ResetEvents
    PROVE  PaymentsTraced'
<1> USE DEF K!TypeOK, PaymentsTraced
<1>1. ASSUME NEW u \in Users, K!EnterRead(u) \/ K!EnterCommit(u)
      PROVE  PaymentsTraced'
  BY <1>1 DEF K!EnterRead, K!EnterCommit
<1>2. CASE K!Crash
  <2> SUFFICES ASSUME ~overlap, ~broken, \A r \in Updates : ~(K!Active(r) /\ K!HasPaid(r))
               PROVE  PaymentsTraced'
    BY <1>2 DEF K!Crash
  <2>1. UNCHANGED <<status, want, refunded, prizes, bracket, overlap>>
    BY <1>2 DEF K!Crash
  <2>2. \A r \in Updates :
          /\ pc[r] # "mark" /\ ~(pc[r] = "write" /\ want[r] = "C")
          /\ \A b \in 1 .. Brackets : ~(pc[r] = "pay" /\ bracket[r] > b)
    <3> TAKE r \in Updates
    <3>1. bracket[r] \in Int /\ (pc[r] = "pay" => ~(bracket[r] > 1))
      BY DEF K!HasPaid
    <3> QED BY <3>1 DEF K!HasPaid
  <2> QED BY <2>1, <2>2
<1>3. CASE K!SettleEvents \/ K!ResetEvents
  BY <1>3 DEF K!SettleEvents, K!ResetEvents
<1> QED BY <1>1, <1>2, <1>3

LEMMA OnceInvariant == K!Spec => [](ContestStatusKnown /\ PaymentsTraced)
<1>1. K!Init => ContestStatusKnown /\ PaymentsTraced
  BY DEF K!Init, ContestStatusKnown, PaymentsTraced
<1>2. K!TypeOK /\ WantTraced /\ ContestStatusKnown /\ PaymentsTraced /\ [K!Next]_(K!vars)
         => (ContestStatusKnown /\ PaymentsTraced)'
  <2>1. CASE UNCHANGED K!vars
    BY <2>1 DEF K!vars, ContestStatusKnown, PaymentsTraced
  <2> QED BY <2>1, StatusUpdateStep, StatusOtherStep, PaymentsUpdateStep, PaymentsOtherStep DEF K!Next
<1>3. RefundInv => WantTraced
  BY DEF RefundInv, RefundsTraced, WantTraced
<1> QED BY <1>1, <1>2, <1>3, RefundInvariant, ContestTyped, PTL DEF K!Spec

\* A rank bracket is paid once, for any number of updates and brackets, unless two
\* updates ran at the same time or one broke off after a payment.
LEMMA ContestPaidOnce == K!Spec => []K!PrizesPaidOnce
<1>1. K!TypeOK /\ PaymentsTraced => K!PrizesPaidOnce
  <2> SUFFICES ASSUME K!TypeOK, PaymentsTraced, NEW b \in 1 .. Brackets, prizes[b] > 1
               PROVE  overlap \/ broken
    BY DEF K!PrizesPaidOnce
  <2>1. prizes[b] \in Nat
    BY DEF K!TypeOK
  <2> QED BY <2>1 DEF PaymentsTraced
<1> QED BY <1>1, OnceInvariant, ContestTyped, PTL

\* Under the same proviso a contest pays prizes or refunds fees, not both.
THEOREM ContestPaidOneWay == K!Spec => []K!PaidOneWay
<1>1. K!TypeOK /\ ContestStatusKnown /\ PaymentsTraced /\ WantTraced => K!PaidOneWay
  BY DEF K!TypeOK, ContestStatusKnown, PaymentsTraced, WantTraced, K!PaidOneWay
<1>2. RefundInv => WantTraced
  BY DEF RefundInv, RefundsTraced, WantTraced
<1> QED BY <1>1, <1>2, OnceInvariant, RefundInvariant, ContestTyped, PTL

\* No step changes the status of a closed contest before two updates have overlapped.
LEMMA ContestClosed == K!Spec => K!ClosedStaysClosed
<1>1. K!TypeOK /\ WantTraced /\ ContestStatusKnown /\ [K!Next]_(K!vars)
         => [(status \in K!Closed) => status' = status \/ overlap]_(K!vars)
  <2> SUFFICES ASSUME K!TypeOK, WantTraced, ContestStatusKnown, K!Next
               PROVE  (status \in K!Closed) => status' = status \/ overlap
    OBVIOUS
  <2> QED BY StatusUpdateStep, StatusOtherStep DEF K!Next
<1>2. RefundInv => WantTraced
  BY DEF RefundInv, RefundsTraced, WantTraced
<1> QED BY <1>1, <1>2, OnceInvariant, RefundInvariant, ContestTyped, PTL DEF K!Spec, K!ClosedStaysClosed

HIDE DEF K!Statuses, K!Closed, K!Running, K!Active, K!Goto, K!Clear, K!contest, K!history, K!users

-------------------------------------------------------------------------------
(* CLUB EVENT.  Books are the transactions of the event as its row stands:   *)
(* those committed and those of an update that has written its status and    *)
(* not committed yet.  As long as updates are under way one at a time and    *)
(* none breaks off between its writes, the row says which winnings the books *)
(* show (BooksMatch), the update under way says which bets it has closed or  *)
(* opened again (BetsMatch), and its list of transactions is the one its     *)
(* writes call for (ListMatches).                                            *)
Closing == {"C", "CAN", "RST"}
Early == {"A", "F", "I"}

\* The updates whose status the event's row has.
Written(p) == pc[p] = "commit" \/ (pc[p] = "write" /\ want[p] \in {"CAN", "RST"})
\* The transactions that go with the event's row: those of an update that has written
\* its status count before they are committed.
Books == ledger \union UNION {txns[p] : p \in {q \in Updates : Written(q)}}

Of(S, u, kind) == {e \in S : e.user = u /\ e.kind = kind}
Standing(u) == {e \in Books : e.user = u /\ e.kind = "CLS" /\ e.at = resets}
HasBet(u) == bet[u] # "none"
Balanced(u, n) ==
    /\ IsFiniteSet(Of(Books, u, "CLS")) /\ IsFiniteSet(Of(Books, u, "CLSRST"))
    /\ Cardinality(Of(Books, u, "CLS")) = Cardinality(Of(Books, u, "CLSRST")) + n

\* What each step of an update knows.
Entries == [by : Updates, user : Users, kind : B!Kinds, pool : SUBSET Users, at : Nat]
Steps ==
    /\ txns \in [Updates -> SUBSET Entries]
    /\ \A p \in Updates :
        /\ pc[p] = "idle" => want[p] = None /\ value[p] = None /\ txns[p] = {}
        /\ value[p] # None => want[p] = "C"
        /\ B!UnderWay(p) => B!Allowed(base[p], want[p]) /\ base[p] # None
        /\ pc[p] = "list" => txns[p] = {}
        /\ B!UnderWay(p) /\ want[p] = "C" => value[p] # None
        /\ B!UnderWay(p) /\ want[p] \notin Closing => txns[p] = {}
        /\ pc[p] \in {"bets", "lost", "event"} => want[p] \in Closing
        /\ pc[p] = "lost" => want[p] = "C"
        /\ pc[p] = "event" => want[p] # "C"
        /\ \A e \in txns[p] : e.at <= resets

Types == B!TypeOK /\ Steps

Quiet == ~overlapped /\ ~torn

Solo == \A p, q \in Updates : B!HasStatus(p) /\ B!HasStatus(q) => p = q

RowFollows ==
    \A p \in Updates : B!HasStatus(p) =>
        /\ status = (IF Written(p) THEN want[p] ELSE base[p])
        /\ Written(p) /\ want[p] = "C" => correct = value[p]

BooksMatch ==
    /\ status \in Early => Books = {}
    /\ status = "RST" => \A e \in Books : e.at < resets
    /\ status \in {"RST", "C"} => \A e \in Books : e.kind = "CLS" \/ (e.kind = "CLSRST" /\ e.at < resets)
    /\ status = "RST" => \A u \in Users : Balanced(u, 0)
    /\ status = "C" => \A u \in Users :
          /\ Balanced(u, IF Standing(u) = {} THEN 0 ELSE 1)
          /\ \A e, f \in Standing(u) : e = f
          /\ u \notin late => (Standing(u) # {} <=> HasBet(u) /\ option[u] = correct)
    /\ status = "CAN" =>
          /\ \A e \in Books : e.kind = "RFCLB"
          /\ \A u \in Users \ late :
                /\ \A e, f \in Of(Books, u, "RFCLB") : e = f
                /\ Of(Books, u, "RFCLB") # {} <=> HasBet(u)

\* Where an update stands between its first write to the bets and its end.
Marking(p) == B!UnderWay(p) /\ want[p] \in Closing /\ pc[p] \in {"lost", "event", "write", "commit"}

BetsMatch ==
    /\ (\A p \in Updates : ~Marking(p)) =>
          /\ status \in Early \union {"RST"} => \A u \in Users : bet[u] \in {"none", "open"}
          /\ status = "C" => \A u \in Users \ late : bet[u] \in {"none", "closed"}
          /\ status = "CAN" => \A u \in Users \ late : bet[u] \in {"none", "cancelled"}
    /\ \A p \in Updates : Marking(p) =>
          /\ want[p] = "RST" => \A u \in Users : bet[u] \in {"none", "open"}
          /\ want[p] = "CAN" => \A u \in Users \ late : bet[u] \in {"none", "cancelled"}
          /\ want[p] = "C" => \A u \in Users \ late :
                \/ bet[u] \in {"none", "closed"}
                \/ pc[p] = "lost" /\ bet[u] = "open" /\ option[u] # value[p]

\* The transactions of an update that is not written yet.
Mine(p, u) == {e \in txns[p] : e.user = u}
ListMatches ==
    \A p \in Updates : B!HasStatus(p) /\ want[p] \in Closing /\ ~Written(p) /\ pc[p] # "list" =>
        /\ \A e, f \in txns[p] : e.user = f.user => e = f
        /\ \A e \in txns[p] : /\ e.at = resets
                              /\ e.kind = CASE want[p] = "C" -> "CLS" [] want[p] = "CAN" -> "RFCLB"
                                            [] want[p] = "RST" -> "CLSRST"
        /\ want[p] = "C" => \A u \in Users \ late :
              Mine(p, u) # {} <=> HasBet(u) /\ option[u] = value[p]
        /\ want[p] = "CAN" => \A u \in Users \ late : Mine(p, u) # {} <=> HasBet(u)
        /\ want[p] = "RST" => \A u \in Users : Mine(p, u) # {} <=> Standing(u) # {}

BooksInv == Quiet => Solo /\ RowFollows /\ BooksMatch /\ BetsMatch /\ ListMatches

-------------------------------------------------------------------------------
USE DEF B!Statuses, B!Kinds, B!Places, Closing, Early

LEMMA TypesInit == B!Init => Types
<1> SUFFICES ASSUME B!Init PROVE Types
  OBVIOUS
<1>1. B!TypeOK
  BY DEF B!Init, B!TypeOK
<1>2. Steps
  BY DEF B!Init, Steps, B!UnderWay
<1> QED BY <1>1, <1>2 DEF Types

LEMMA TypesStep ==
    ASSUME Types, [B!Next]_(B!vars)
    PROVE  Types'
<1> USE ClubEventAssumption DEF Types, B!TypeOK, Steps, B!evt, B!bets, B!request, B!history, B!Goto, B!UnderWay
<1>1. ASSUME NEW p \in Updates, B!Begin(p) PROVE Types'
  <2>1. pc[p] = "idle" /\ want[p] = None /\ value[p] = None /\ txns[p] = {}
    BY <1>1 DEF B!Begin
  <2>2. /\ base' = [base EXCEPT ![p] = status]
        /\ overlapped' \in BOOLEAN
        /\ UNCHANGED <<status, correct, resets, bet, option, ledger, txns, torn, late>>
    BY <1>1 DEF B!Begin, B!HasStatus
  <2>3. PICK w \in B!Statuses \union {None} :
            /\ want' = [want EXCEPT ![p] = w]
            /\ pc' = [pc EXCEPT ![p] = IF B!Allowed(status, w) THEN "list" ELSE "done"]
            /\ \/ w # "C" /\ value' = value
               \/ w = "C" /\ \E v \in Options : value' = [value EXCEPT ![p] = v]
    BY <1>1 DEF B!Begin
  <2>4. value' \in [Updates -> Options \union {None}]
    BY <2>3
  <2>5. /\ value'[p] # None => w = "C"
        /\ w = "C" => value'[p] # None
        /\ \A q \in Updates : q # p => value'[q] = value[q]
    BY <2>1, <2>3
  <2>6. B!TypeOK'
    BY <2>2, <2>3, <2>4
  <2>7. Steps'
    BY <2>1, <2>2, <2>3, <2>5
  <2> QED BY <2>6, <2>7
<1>2. ASSUME NEW p \in Updates, B!List(p) PROVE Types'
  <2> DEFINE new == IF B!Settles(base[p], want[p]) THEN B!Winnings(p)
                    ELSE IF B!Cancels(base[p], want[p]) THEN B!Refunds(p)
                    ELSE IF B!Resets(base[p], want[p]) THEN B!Debits(p) ELSE {}
  <2>a. \A e \in new : e \in Entries /\ e.by = p /\ e.at <= resets
    BY <1>2 DEF B!Winnings, B!Refunds, B!Debits, B!Entry, B!OpenBets, Entries
  <2>b. txns' = [txns EXCEPT ![p] = new]
    BY <1>2 DEF B!List
  <2>1. txns' \in [Updates -> SUBSET Entries] /\ \A e \in txns'[p] : e.by = p /\ e.at <= resets
    <3> HIDE DEF new
    <3> QED BY <2>a, <2>b
  <2>2. want[p] \notin Closing => txns'[p] = {}
    BY <1>2 DEF B!List, B!Settles, B!Cancels, B!Resets
  <2>3. \A e : e \in Entries => e.user \in Users
    BY DEF Entries
  <2> QED BY <1>2, <2>1, <2>2, <2>3 DEF B!List
<1>3. ASSUME NEW p \in Updates, B!Insert(p) PROVE Types'
  BY <1>3 DEF B!Insert
<1>4. ASSUME NEW p \in Updates, B!UpdateBets(p) PROVE Types'
  <2>1. bet' \in [Users -> {"none", "open", "closed", "cancelled"}]
    BY <1>4 DEF B!UpdateBets, B!CloseWon, B!CancelBets, B!OpenBetsAgain, B!Mark
  <2> QED BY <1>4, <2>1 DEF B!UpdateBets
<1>5. ASSUME NEW p \in Updates, B!CloseLost(p) PROVE Types'
  BY <1>5 DEF B!CloseLost
<1>6. ASSUME NEW p \in Updates, B!UpdateEvent(p) PROVE Types'
  <2>1. resets' \in Nat /\ resets' >= resets /\ want[p] \in Closing
    BY <1>6 DEF B!UpdateEvent
  <2>2. /\ \A e : e.at \in 0 .. resets => e.at \in 0 .. resets'
        /\ \A q \in Updates : \A e \in txns[q] : e.at <= resets'
    BY <2>1 DEF Entries
  <2> QED BY <1>6, <2>1, <2>2 DEF B!UpdateEvent
<1>7. ASSUME NEW p \in Updates, B!Write(p) PROVE Types'
  BY <1>7 DEF B!Write
<1>8. ASSUME NEW p \in Updates, B!Commit(p) PROVE Types'
  <2>1. \A e \in txns[p] : /\ e.by \in Updates /\ e.user \in Users /\ e.kind \in B!Kinds
                           /\ e.pool \subseteq Users /\ e.at \in 0 .. resets
    BY DEF Entries
  <2> QED BY <1>8, <2>1 DEF B!Commit
<1>9. ASSUME NEW p \in Updates, B!Abort(p) PROVE Types'
  BY <1>9 DEF B!Abort
<1>10. ASSUME NEW u \in Users, B!Bet(u) PROVE Types'
  <2>1. bet' \in [Users -> {"none", "open", "closed", "cancelled"}] /\ late' \subseteq Users
    BY <1>10 DEF B!Bet
  <2>2. option' \in [Users -> Options \union {None}]
    BY <1>10 DEF B!Bet
  <2> QED BY <1>10, <2>1, <2>2 DEF B!Bet
<1>11. CASE UNCHANGED B!vars
  BY <1>11 DEF B!vars
<1> QED
  BY <1>1, <1>2, <1>3, <1>4, <1>5, <1>6, <1>7, <1>8, <1>9, <1>10, <1>11 DEF B!Next, B!Step

-------------------------------------------------------------------------------

\* An update that is not written counts for nothing, whatever it lists.
LEMMA BooksKept ==
    ASSUME NEW p \in Updates, ledger' = ledger,
           \A q \in Updates \ {p} : txns'[q] = txns[q] /\ (Written(q)' <=> Written(q)),
           \/ ~Written(p) /\ ~Written(p)'
           \/ txns[p] = {} /\ txns'[p] = {}
           \/ (Written(p)' <=> Written(p)) /\ txns'[p] = txns[p]
    PROVE  Books' = Books
BY DEF Books

\* They count when the update writes the status.
LEMMA BooksGrow ==
    ASSUME NEW p \in Updates, ledger' = ledger, txns' = txns,
           \A q \in Updates \ {p} : Written(q)' <=> Written(q),
           ~Written(p), Written(p)'
    PROVE  Books' = Books \union txns[p]
BY DEF Books

\* And are committed.
LEMMA BooksCommit ==
    ASSUME NEW p \in Updates, ledger' = ledger \union txns[p], txns' = txns,
           \A q \in Updates \ {p} : Written(q)' <=> Written(q),
           Written(p), ~Written(p)'
    PROVE  Books' = Books
BY DEF Books

BooksInvHolds == Solo /\ RowFollows /\ BooksMatch /\ BetsMatch /\ ListMatches

\* What is said of the books stays true while they, the row and who has bet on what do.
LEMMA RowKept ==
    ASSUME BooksMatch, Books' = Books, UNCHANGED <<status, correct, resets, option, late>>,
           \A u \in Users : HasBet(u)' <=> HasBet(u)
    PROVE  BooksMatch' /\ \A u \in Users : Standing(u)' = Standing(u)
<1>1. \A u \in Users : Standing(u)' = Standing(u)
  BY DEF Standing
<1>2. \A u, k : Of(Books, u, k)' = Of(Books, u, k)
  BY DEF Of
<1>3. \A u, n : Balanced(u, n)' <=> Balanced(u, n)
  BY <1>2 DEF Balanced
<1>6. CASE status = "C"
  BY <1>1, <1>3, <1>6 DEF BooksMatch
<1>7. CASE status = "RST"
  BY <1>1, <1>3, <1>7 DEF BooksMatch
<1>8. CASE status \notin {"C", "RST"}
  BY <1>1, <1>2, <1>8 DEF BooksMatch
<1> QED BY <1>1, <1>6, <1>7, <1>8

LEMMA BeginKeeps ==
    ASSUME Types, BooksInv, Quiet', NEW p \in Updates, B!Begin(p)
    PROVE  BooksInvHolds'
<1> USE ClubEventAssumption DEF Types, B!TypeOK, Steps, B!UnderWay, Quiet, B!Goto, B!HasStatus
<1>1. BooksInvHolds
  BY DEF BooksInv, BooksInvHolds, B!Begin
<1>2. /\ pc[p] = "idle" /\ want[p] = None /\ value[p] = None /\ txns[p] = {}
      /\ base' = [base EXCEPT ![p] = status]
      /\ UNCHANGED <<status, correct, resets, bet, option, ledger, txns, torn, late>>
  BY DEF B!Begin, B!evt, B!bets
<1>3. PICK w \in B!Statuses \union {None} :
          /\ want' = [want EXCEPT ![p] = w]
          /\ pc' = [pc EXCEPT ![p] = IF B!Allowed(status, w) THEN "list" ELSE "done"]
          /\ overlapped' =
               (overlapped \/ (B!Allowed(status, w) /\ w # None /\ \E q \in Updates : B!HasStatus(q)))
          /\ \A q \in Updates : q # p => value'[q] = value[q]
  <2>1. PICK w \in B!Statuses \union {None} :
          /\ want' = [want EXCEPT ![p] = w]
          /\ pc' = [pc EXCEPT ![p] = IF B!Allowed(status, w) THEN "list" ELSE "done"]
          /\ overlapped' =
               (overlapped \/ (B!Allowed(status, w) /\ w # None /\ \E q \in Updates : B!HasStatus(q)))
          /\ \/ value' = value
             \/ \E v \in Options : value' = [value EXCEPT ![p] = v]
    BY DEF B!Begin
  <2>2. \A q \in Updates : q # p => value'[q] = value[q]
    BY <2>1
  <2> QED BY <2>1, <2>2
<1>4. Books' = Books
  BY <1>2, <1>3, BooksKept DEF Written
<1>5. \A q \in Updates \ {p} : pc'[q] = pc[q] /\ want'[q] = want[q] /\ base'[q] = base[q]
  BY <1>2, <1>3
<1>6. BooksMatch' /\ \A u \in Users : Standing(u)' = Standing(u)
  BY <1>1, <1>2, <1>4, RowKept DEF HasBet, B!evt, B!bets, BooksInvHolds
<1>7. pc'[p] \in {"list", "done"} /\ (pc'[p] = "list" => B!Allowed(status, w)) /\ want'[p] = w
  BY <1>2, <1>3
<1>8. Solo'
  <2>1. B!Allowed(status, w) /\ w # None => \A q \in Updates : ~B!HasStatus(q)
    BY <1>3
  <2> SUFFICES ASSUME NEW q \in Updates, NEW r \in Updates, B!HasStatus(q)', B!HasStatus(r)', q # r
               PROVE  FALSE
    BY DEF Solo
  <2>2. CASE q = p
    BY <2>1, <2>2, <1>5, <1>7
  <2>3. CASE r = p
    BY <2>1, <2>3, <1>5, <1>7
  <2> QED BY <2>2, <2>3, <1>1, <1>5 DEF Solo, BooksInvHolds
<1>9. RowFollows'
  BY <1>1, <1>2, <1>3, <1>5, <1>7 DEF RowFollows, Written, BooksInvHolds
<1>10. BetsMatch'
  BY <1>1, <1>2, <1>3, <1>5, <1>7 DEF BetsMatch, Marking, BooksInvHolds
<1>11. ListMatches'
  BY <1>1, <1>2, <1>3, <1>5, <1>6, <1>7 DEF ListMatches, Written, BooksInvHolds, Mine, HasBet
<1> QED BY <1>6, <1>8, <1>9, <1>10, <1>11 DEF BooksInvHolds

\* A list made from the open bets, or from the winnings that stand, says of each user
\* what the update then writes to his bet.
LEMMA ListKeeps ==
    ASSUME Types, BooksInv, Quiet', NEW p \in Updates, B!List(p)
    PROVE  BooksInvHolds'
<1> USE ClubEventAssumption DEF Types, B!TypeOK, Steps, B!UnderWay, Quiet, B!Goto, B!HasStatus
<1>1. BooksInvHolds
  BY DEF BooksInv, BooksInvHolds, B!List, B!history
<1>2. /\ pc[p] = "list" /\ pc' = [pc EXCEPT ![p] = "trx"]
      /\ UNCHANGED <<B!evt, B!bets, ledger, base, want, value, overlapped, torn, late>>
      /\ \A q \in Updates \ {p} : txns'[q] = txns[q]
  BY DEF B!List, B!request, B!history
<1>3. Books' = Books
  BY <1>2, BooksKept DEF Written
<1>4. BooksMatch' /\ \A u \in Users : Standing(u)' = Standing(u)
  BY <1>1, <1>2, <1>3, RowKept DEF HasBet, B!evt, B!bets, BooksInvHolds
<1>5. Solo' /\ RowFollows'
  BY <1>1, <1>2 DEF Solo, RowFollows, Written, BooksInvHolds, B!evt
<1>6. BetsMatch'
  BY <1>1, <1>2 DEF BetsMatch, Marking, BooksInvHolds, B!evt, B!bets
<1>7. ListMatches'
  <2> SUFFICES ASSUME NEW q \in Updates, B!HasStatus(q)', want[q] \in Closing, ~Written(q)', pc'[q] # "list"
               PROVE  /\ \A e, f \in txns'[q] : e.user = f.user => e = f
                      /\ \A e \in txns'[q] :
                            /\ e.at = resets
                            /\ e.kind = CASE want[q] = "C" -> "CLS" [] want[q] = "CAN" -> "RFCLB"
                                          [] want[q] = "RST" -> "CLSRST"
                      /\ want[q] = "C" => \A u \in Users \ late :
                            Mine(q, u)' # {} <=> HasBet(u) /\ option[u] = value[q]
                      /\ want[q] = "CAN" => \A u \in Users \ late : Mine(q, u)' # {} <=> HasBet(u)
                      /\ want[q] = "RST" => \A u \in Users : Mine(q, u)' # {} <=> Standing(u) # {}
    BY <1>2, <1>4 DEF ListMatches, B!evt, B!bets, HasBet
  <2>1. CASE q # p
    BY <2>1, <1>1, <1>2 DEF ListMatches, BooksInvHolds, Written, Mine
  <2>2. CASE q = p
    <3> DEFINE b == base[p]
               w == want[p]
    <3>1. txns'[p] = IF B!Settles(b, w) THEN B!Winnings(p)
                     ELSE IF B!Cancels(b, w) THEN B!Refunds(p)
                     ELSE IF B!Resets(b, w) THEN B!Debits(p) ELSE {}
      BY DEF B!List
    <3>2. B!Allowed(b, w) /\ status = b /\ b # None
      BY <2>2, <1>1, <1>2 DEF RowFollows, BooksInvHolds, Written
    <3>3. ASSUME NEW u \in Users
          PROVE  bet[u] \in {"none", "open"} \/ status \notin {"A", "RST"}
      <4>1. \A r \in Updates : Marking(r) => r = p
        BY <1>1, <2>2, <1>2 DEF Solo, BooksInvHolds, Marking
      <4>2. \A r \in Updates : ~Marking(r)
        BY <4>1, <1>2 DEF Marking
      <4> QED BY <1>1, <4>2 DEF BetsMatch, BooksInvHolds
    <3>4. CASE w = "C"
      <4>1. B!Settles(b, w)
        BY <3>2, <3>4 DEF B!Allowed, B!Settles, B!Cancels, B!Resets
      <4>2. txns'[p] = B!Winnings(p) /\ status \in {"A", "RST"}
        BY <3>1, <3>2, <4>1 DEF B!Settles
      <4>3. \A e \in txns'[p] : e.at = resets /\ e.kind = "CLS"
        BY <4>2 DEF B!Winnings, B!Entry
      <4>4. \A e, f \in txns'[p] : e.user = f.user => e = f
        <5>1. \A e \in txns'[p] : e = B!Entry(p, e.user, "CLS", B!OpenBets)
          BY <4>2 DEF B!Winnings, B!Entry
        <5> QED BY <5>1
      <4>5. ASSUME NEW u \in Users
            PROVE  Mine(p, u)' # {} <=> HasBet(u) /\ option[u] = value[p]
        <5>1. Mine(p, u)' # {} <=> bet[u] = "open" /\ option[u] = value[p]
          <6>1. bet[u] = "open" /\ option[u] = value[p] => B!Entry(p, u, "CLS", B!OpenBets) \in B!Winnings(p)
            BY DEF B!Winnings, B!OpenBets
          <6>2. \A e \in B!Winnings(p) : bet[e.user] = "open" /\ option[e.user] = value[p]
            BY DEF B!Winnings, B!OpenBets, B!Entry
          <6>3. B!Entry(p, u, "CLS", B!OpenBets).user = u
            BY DEF B!Entry
          <6> QED BY <6>1, <6>2, <6>3, <4>2 DEF Mine
        <5> QED BY <5>1, <3>3, <4>2 DEF HasBet
      <4> QED BY <2>2, <3>4, <4>3, <4>4, <4>5
    <3>5. CASE w = "CAN"
      <4>1. B!Cancels(b, w) /\ ~B!Settles(b, w)
        BY <3>2, <3>5 DEF B!Allowed, B!Settles, B!Cancels, B!Resets
      <4>2. txns'[p] = B!Refunds(p) /\ status = "A"
        BY <3>1, <3>2, <4>1 DEF B!Cancels
      <4> DEFINE Refund(v) == B!Entry(p, v, "RFCLB", {v})
      <4>a. B!Refunds(p) = {Refund(v) : v \in B!OpenBets}
        BY DEF B!Refunds
      <4>b. \A v : Refund(v).user = v /\ Refund(v).at = resets /\ Refund(v).kind = "RFCLB"
        BY DEF B!Entry
      <4> HIDE DEF Refund
      <4>3. \A e \in txns'[p] : e.at = resets /\ e.kind = "RFCLB"
        BY <4>2, <4>a, <4>b
      <4>4. \A e, f \in txns'[p] : e.user = f.user => e = f
        <5>1. \A e \in txns'[p] : e = Refund(e.user)
          BY <4>2, <4>a, <4>b
        <5> QED BY <5>1
      <4>5. ASSUME NEW u \in Users
            PROVE  Mine(p, u)' # {} <=> HasBet(u)
        <5>1. Mine(p, u)' # {} <=> bet[u] = "open"
          <6>1. bet[u] = "open" => Refund(u) \in B!Refunds(p)
            BY <4>a DEF B!OpenBets
          <6>2. \A e \in B!Refunds(p) : bet[e.user] = "open"
            BY <4>a, <4>b DEF B!OpenBets
          <6> QED BY <6>1, <6>2, <4>b, <4>2 DEF Mine
        <5> QED BY <5>1, <3>3, <4>2 DEF HasBet
      <4> QED BY <2>2, <3>5, <4>3, <4>4, <4>5
    <3>6. CASE w = "RST"
      <4>1. ~B!Settles(b, w) /\ ~B!Cancels(b, w) /\ b \in {"C", "RST"}
        BY <3>2, <3>6 DEF B!Allowed, B!Settles, B!Cancels, B!Resets
      <4>2. CASE b = "C"
        <5>1. txns'[p] = B!Debits(p)
          BY <3>1, <3>6, <4>1, <4>2 DEF B!Resets
        <5>2. Books = ledger
          <6>1. \A r \in Updates : Written(r) => txns[r] = {}
            BY <1>1, <1>2, <2>2, <3>6 DEF Solo, BooksInvHolds, Written
          <6> QED BY <6>1 DEF Books
        <5>3. \A e \in txns'[p] : /\ e.at = resets /\ e.kind = "CLSRST"
                                  /\ \E f \in Standing(e.user) : e = B!Entry(p, e.user, "CLSRST", f.pool)
          BY <5>1, <5>2 DEF B!Debits, B!Entry, Standing
        <5>4. \A e, f \in txns'[p] : e.user = f.user => e = f
          <6> SUFFICES ASSUME NEW e \in txns'[p], NEW f \in txns'[p], e.user = f.user PROVE e = f
            OBVIOUS
          <6>1. PICK x \in Standing(e.user) : e = B!Entry(p, e.user, "CLSRST", x.pool)
            BY <5>3
          <6>2. PICK y \in Standing(f.user) : f = B!Entry(p, f.user, "CLSRST", y.pool)
            BY <5>3
          <6>3. e.user \in Users
            BY <5>1 DEF B!Debits, B!Entry
          <6>4. x = y
            BY <6>1, <6>2, <6>3, <1>1, <3>2, <4>2 DEF BooksMatch, BooksInvHolds
          <6> QED BY <6>1, <6>2, <6>4
        <5>5. ASSUME NEW u \in Users
              PROVE  Mine(p, u)' # {} <=> Standing(u) # {}
          <6>1. ASSUME NEW f \in Standing(u) PROVE Mine(p, u)' # {}
            <7>1. f \in ledger /\ f.kind = "CLS" /\ f.at = resets /\ f.user = u
              BY <5>2, <6>1 DEF Standing
            <7>2. B!Entry(p, f.user, "CLSRST", f.pool) \in B!Debits(p)
              BY <7>1 DEF B!Debits
            <7>3. B!Entry(p, f.user, "CLSRST", f.pool).user = u
              BY <7>1 DEF B!Entry
            <7> QED BY <7>2, <7>3, <5>1 DEF Mine
          <6>2. ASSUME NEW e \in Mine(p, u)' PROVE Standing(u) # {}
            BY <6>2, <5>3 DEF Mine
          <6> QED BY <6>1, <6>2
        <5> QED BY <2>2, <3>6, <5>3, <5>4, <5>5
      <4>3. CASE b = "RST"
        <5>1. txns'[p] = {}
          BY <3>1, <4>1, <4>3 DEF B!Resets
        <5>2. \A u \in Users : Standing(u) = {}
          <6>1. \A e \in Books : e.at < resets
            BY <1>1, <3>2, <4>3 DEF BooksMatch, BooksInvHolds
          <6> QED BY <6>1 DEF Standing
        <5> QED BY <2>2, <3>6, <5>1, <5>2 DEF Mine
      <4> QED BY <4>1, <4>2, <4>3
    <3> QED BY <2>2, <3>4, <3>5, <3>6
  <2> QED BY <2>1, <2>2
<1> QED BY <1>4, <1>5, <1>6, <1>7 DEF BooksInvHolds

\* An update that has no status to write, or that is still before its first write,
\* changes nothing by going on or by giving up.
LEMMA PassKeeps ==
    ASSUME Types, BooksInv, Quiet', NEW p \in Updates, B!Insert(p) \/ B!Commit(p) \/ B!Abort(p)
    PROVE  BooksInvHolds'
<1> USE ClubEventAssumption DEF Types, B!TypeOK, Steps, B!UnderWay, Quiet, B!HasStatus
<1>1. BooksInvHolds
  BY DEF BooksInv, BooksInvHolds, B!Insert, B!Commit, B!Abort, B!history
<1>2. /\ UNCHANGED <<B!evt, B!bets, base, want, value, txns, late, overlapped>>
      /\ \A q \in Updates \ {p} : pc'[q] = pc[q]
      /\ pc[p] \notin {"idle", "done"}
  BY DEF B!Insert, B!Commit, B!Abort, B!request, B!history, B!Goto
<1>3. \/ /\ pc[p] = "trx" /\ pc'[p] = (IF want[p] \in Closing THEN "bets" ELSE "write")
         /\ ledger' = ledger
      \/ /\ pc[p] = "commit" /\ pc'[p] = "done"
         /\ ledger' = ledger \union txns[p]
      \/ /\ pc'[p] = "done" /\ ledger' = ledger
         /\ ~(pc[p] \in {"lost", "event"})
         /\ ~(pc[p] \in {"write", "commit"} /\ want[p] \in Closing)
  <2>1. CASE B!Insert(p)
    BY <2>1 DEF B!Insert, B!Goto
  <2>2. CASE B!Commit(p)
    BY <2>2 DEF B!Commit, B!Goto
  <2>3. CASE B!Abort(p)
    <3>1. ~torn' /\ pc'[p] = "done" /\ ledger' = ledger
      BY <2>3 DEF B!Abort, B!Goto
    <3>2. \/ torn'
          \/ /\ ~(pc[p] \in {"lost", "event"})
             /\ ~(pc[p] \in {"write", "commit"} /\ want[p] \in Closing)
      BY <2>3 DEF B!Abort
    <3> QED BY <3>1, <3>2
  <2> QED BY <2>1, <2>2, <2>3
<1>4. Books' = Books
  <2>1. CASE pc[p] = "commit" /\ ledger' = ledger \union txns[p] /\ pc'[p] = "done"
    BY <2>1, <1>2, BooksCommit DEF Written
  <2>2. CASE ledger' = ledger /\ ~(Written(p) /\ want[p] \in Closing)
    <3>1. CASE Written(p)
      <4>1. txns[p] = {}
        BY <3>1, <2>2, <1>2 DEF Written
      <4> QED BY <4>1, <2>2, <1>2, BooksKept DEF Written
    <3>2. CASE ~Written(p)
      <4>1. ~Written(p)'
        BY <3>2, <1>2, <1>3 DEF Written
      <4> QED BY <4>1, <3>2, <2>2, <1>2, BooksKept DEF Written
    <3> QED BY <3>1, <3>2
  <2> QED BY <2>1, <2>2, <1>3 DEF Written
<1>5. BooksMatch' /\ \A u \in Users : Standing(u)' = Standing(u)
  BY <1>1, <1>2, <1>4, RowKept DEF HasBet, B!evt, B!bets, BooksInvHolds
<1>6. Solo'
  BY <1>1, <1>2, <1>3 DEF Solo, BooksInvHolds
<1>7. RowFollows'
  BY <1>1, <1>2, <1>3 DEF RowFollows, Written, BooksInvHolds, B!evt
<1>8. BetsMatch'
  <2>1. \A q \in Updates \ {p} : Marking(q)' <=> Marking(q)
    BY <1>2 DEF Marking
  <2>2. ~Marking(p)'
    BY <1>2, <1>3 DEF Marking
  <2>3. UNCHANGED <<status, bet, option, late, want, value>>
    BY <1>2 DEF B!evt, B!bets
  <2>4. CASE ~Marking(p)
    BY <2>1, <2>2, <2>3, <2>4, <1>1, <1>2 DEF BetsMatch, BooksInvHolds
  <2>5. CASE Marking(p)
    <3>1. pc[p] = "commit" /\ want[p] \in Closing
      BY <2>5, <1>2, <1>3 DEF Marking
    <3>2. status = want[p]
      BY <3>1, <1>1 DEF RowFollows, BooksInvHolds, Written
    <3>3. \A q \in Updates \ {p} : ~Marking(q)
      BY <3>1, <1>1 DEF Solo, BooksInvHolds, Marking
    <3> QED BY <2>1, <2>2, <2>3, <2>5, <3>1, <3>2, <3>3, <1>1, <1>2 DEF BetsMatch, BooksInvHolds
  <2> QED BY <2>4, <2>5
<1>9. ListMatches'
  <2>1. B!UnderWay(p)' /\ want'[p] \in Closing => pc'[p] = "bets" /\ pc[p] = "trx"
    BY <1>2, <1>3
  <2>2. \A q \in Updates : B!HasStatus(q)' /\ want'[q] \in Closing /\ ~Written(q)' /\ pc'[q] # "list"
           => B!HasStatus(q) /\ want[q] \in Closing /\ ~Written(q) /\ pc[q] # "list"
    BY <2>1, <1>2 DEF Written
  <2>3. UNCHANGED <<resets, bet, option, late, want, value, txns>>
    BY <1>2 DEF B!evt, B!bets
  <2> QED BY <2>2, <2>3, <1>1, <1>5 DEF ListMatches, BooksInvHolds, Mine, HasBet
<1> QED BY <1>5, <1>6, <1>7, <1>8, <1>9 DEF BooksInvHolds

\* A late bet is one of an update that closes the bets, or comes before any.
LEMMA BetKeeps ==
    ASSUME Types, BooksInv, Quiet', NEW v \in Users, B!Bet(v)
    PROVE  BooksInvHolds'
<1> USE ClubEventAssumption DEF Types, B!TypeOK, Steps, B!UnderWay, Quiet, B!HasStatus
<1>1. BooksInvHolds
  BY DEF BooksInv, BooksInvHolds, B!Bet
<1>2. /\ bet[v] = "none" /\ status = "A"
      /\ UNCHANGED <<status, correct, resets, ledger, pc, base, want, value, txns>>
      /\ bet' = [bet EXCEPT ![v] = "open"]
      /\ \A u \in Users \ {v} : option'[u] = option[u]
  BY DEF B!Bet, B!evt, B!request
<1>3. late \subseteq late' /\ \A p \in Updates : B!Closes(p) => v \in late'
  BY DEF B!Bet
<1>4. Books' = Books /\ \A p \in Updates : Written(p)' <=> Written(p)
  BY <1>2 DEF Books, Written
<1>5. BooksMatch'
  BY <1>1, <1>2, <1>4 DEF BooksMatch, BooksInvHolds
<1>6. \A u \in Users : Standing(u)' = Standing(u)
  BY <1>2, <1>4 DEF Standing
<1>7. Solo' /\ RowFollows'
  BY <1>1, <1>2, <1>4 DEF Solo, RowFollows, BooksInvHolds
<1>8. BetsMatch'
  <2>1. \A p \in Updates : Marking(p)' <=> Marking(p)
    BY <1>2 DEF Marking
  <2>2. \A u \in Users \ {v} : bet'[u] = bet[u] /\ option'[u] = option[u]
    BY <1>2
  <2>3. bet'[v] = "open" /\ status' = "A"
    BY <1>2
  <2>4. ASSUME \A p \in Updates : ~Marking(p)
        PROVE  \A u \in Users : bet'[u] \in {"none", "open"}
    BY <1>1, <1>2, <2>2, <2>3, <2>4 DEF BetsMatch, BooksInvHolds
  <2>5. ASSUME NEW p \in Updates, Marking(p)
        PROVE  /\ want[p] = "RST" => \A u \in Users : bet'[u] \in {"none", "open"}
               /\ want[p] = "CAN" => \A u \in Users \ late' : bet'[u] \in {"none", "cancelled"}
               /\ want[p] = "C" => \A u \in Users \ late' :
                     \/ bet'[u] \in {"none", "closed"}
                     \/ pc[p] = "lost" /\ bet'[u] = "open" /\ option'[u] # value[p]
    <3>1. want[p] \in {"C", "CAN"} => v \in late'
      BY <1>3, <2>5 DEF B!Closes, Marking
    <3>2. /\ want[p] = "RST" => \A u \in Users : bet[u] \in {"none", "open"}
          /\ want[p] = "CAN" => \A u \in Users \ late : bet[u] \in {"none", "cancelled"}
          /\ want[p] = "C" => \A u \in Users \ late :
                \/ bet[u] \in {"none", "closed"}
                \/ pc[p] = "lost" /\ bet[u] = "open" /\ option[u] # value[p]
      BY <1>1, <2>5 DEF BetsMatch, BooksInvHolds
    <3> QED BY <1>3, <2>2, <2>3, <3>1, <3>2
  <2> QED BY <1>2, <2>1, <2>3, <2>4, <2>5 DEF BetsMatch
<1>9. ListMatches'
  <2> SUFFICES ASSUME NEW p \in Updates, B!HasStatus(p), want[p] \in Closing, ~Written(p), pc[p] # "list"
               PROVE  /\ \A e, f \in txns[p] : e.user = f.user => e = f
                      /\ \A e \in txns[p] :
                            /\ e.at = resets
                            /\ e.kind = CASE want[p] = "C" -> "CLS" [] want[p] = "CAN" -> "RFCLB"
                                          [] want[p] = "RST" -> "CLSRST"
                      /\ want[p] = "C" => \A u \in Users \ late' :
                            Mine(p, u) # {} <=> HasBet(u)' /\ option'[u] = value[p]
                      /\ want[p] = "CAN" => \A u \in Users \ late' : Mine(p, u) # {} <=> HasBet(u)'
                      /\ want[p] = "RST" => \A u \in Users : Mine(p, u) # {} <=> Standing(u) # {}
    BY <1>2, <1>4, <1>6 DEF ListMatches, Mine
  <2>1. want[p] \in {"C", "CAN"} => v \in late'
    BY <1>3 DEF B!Closes
  <2>2. \A u \in Users \ {v} : (HasBet(u)' <=> HasBet(u)) /\ option'[u] = option[u]
    BY <1>2 DEF HasBet
  <2> QED BY <2>1, <2>2, <1>1, <1>3 DEF ListMatches, BooksInvHolds
<1> QED BY <1>5, <1>7, <1>8, <1>9 DEF BooksInvHolds

\* The two steps that close the bets, and those that cancel or open them again: who has
\* a bet on what does not change, and the row is not written yet.
LEMMA BetsKeeps ==
    ASSUME Types, BooksInv, Quiet', NEW p \in Updates, B!UpdateBets(p) \/ B!CloseLost(p)
    PROVE  BooksInvHolds'
<1> USE ClubEventAssumption DEF Types, B!TypeOK, Steps, B!UnderWay, Quiet, B!HasStatus
<1>1. BooksInvHolds
  BY DEF BooksInv, BooksInvHolds, B!UpdateBets, B!CloseLost, B!history
<1>2. /\ UNCHANGED <<status, correct, resets, option, ledger, base, want, value, txns, late>>
      /\ \A q \in Updates \ {p} : pc'[q] = pc[q]
      /\ pc[p] \in {"bets", "lost"} /\ pc'[p] \in {"lost", "event", "write"}
      /\ pc'[p] = "write" => want[p] = "C"
  BY DEF B!UpdateBets, B!CloseLost, B!request, B!history, B!Goto, B!evt
<1>3. want[p] \in Closing /\ B!HasStatus(p) /\ ~Written(p) /\ ~Written(p)'
  BY <1>2 DEF Written
<1>4. \A u \in Users : HasBet(u)' <=> HasBet(u)
  BY DEF B!UpdateBets, B!CloseLost, HasBet, B!CloseWon, B!CancelBets, B!OpenBetsAgain, B!Mark
<1>5. Books' = Books
  BY <1>2, <1>3, BooksKept DEF Written
<1>6. BooksMatch' /\ \A u \in Users : Standing(u)' = Standing(u)
  BY <1>1, <1>2, <1>4, <1>5, RowKept DEF BooksInvHolds
<1>7. Solo' /\ RowFollows'
  BY <1>1, <1>2, <1>3 DEF Solo, RowFollows, Written, BooksInvHolds
<1>8. BetsMatch'
  <2>1. \A q \in Updates \ {p} : ~Marking(q) /\ ~Marking(q)'
    BY <1>1, <1>2, <1>3 DEF Marking, Solo, BooksInvHolds
  <2>2. Marking(p)' /\ want' = want
    BY <1>2, <1>3 DEF Marking
  <2>3. /\ want[p] = "RST" => \A u \in Users : bet'[u] \in {"none", "open"}
        /\ want[p] = "CAN" => \A u \in Users \ late : bet'[u] \in {"none", "cancelled"}
        /\ want[p] = "C" => \A u \in Users \ late :
              \/ bet'[u] \in {"none", "closed"}
              \/ pc'[p] = "lost" /\ bet'[u] = "open" /\ option[u] # value[p]
    <3>1. CASE B!UpdateBets(p)
      <4>1. CASE want[p] = "C"
        <5>1. status \in {"A", "RST"}
          BY <1>1, <1>3, <4>1 DEF RowFollows, BooksInvHolds, B!Allowed, B!Settles, B!Cancels, B!Resets
        <5>2. \A q \in Updates : ~Marking(q)
          BY <2>1, <3>1 DEF Marking, B!UpdateBets
        <5>3. \A u \in Users : bet[u] \in {"none", "open"}
          BY <5>1, <5>2, <1>1 DEF BetsMatch, BooksInvHolds
        <5>4. pc'[p] = "lost" /\ bet' = B!CloseWon(p)
          BY <3>1, <4>1 DEF B!UpdateBets, B!Goto
        <5> QED BY <4>1, <5>3, <5>4 DEF B!CloseWon
      <4>2. CASE want[p] = "CAN"
        BY <3>1, <4>2 DEF B!UpdateBets, B!CancelBets, B!Mark
      <4>3. CASE want[p] = "RST"
        BY <3>1, <4>3 DEF B!UpdateBets, B!OpenBetsAgain, B!Mark
      <4> QED BY <1>3, <4>1, <4>2, <4>3
    <3>2. CASE B!CloseLost(p)
      <4>1. Marking(p) /\ want[p] = "C"
        BY <3>2, <1>3 DEF Marking, B!CloseLost
      <4>2. \A u \in Users \ late : \/ bet[u] \in {"none", "closed"}
                                    \/ bet[u] = "open" /\ option[u] # value[p]
        BY <4>1, <1>1 DEF BetsMatch, BooksInvHolds
      <4>3. \A u \in Users : bet'[u] = IF bet[u] = "open" /\ option[u] # value[p] THEN "closed" ELSE bet[u]
        BY <3>2 DEF B!CloseLost
      <4> QED BY <4>1, <4>2, <4>3
    <3> QED BY <3>1, <3>2
  <2> QED BY <2>1, <2>2, <2>3, <1>2 DEF BetsMatch
<1>9. ListMatches'
  <2>1. \A q \in Updates : B!HasStatus(q)' /\ want'[q] \in Closing /\ ~Written(q)' /\ pc'[q] # "list"
           => B!HasStatus(q) /\ want[q] \in Closing /\ ~Written(q) /\ pc[q] # "list"
    BY <1>2, <1>3 DEF Written
  <2> QED BY <2>1, <1>1, <1>2, <1>4, <1>6 DEF ListMatches, BooksInvHolds, Mine
<1> QED BY <1>6, <1>7, <1>8, <1>9 DEF BooksInvHolds

\* One more transaction of a user: it is not among those that stand, so it counts.
LEMMA OneMore ==
    ASSUME NEW S, NEW T, NEW u, NEW k, IsFiniteSet(Of(S, u, k)),
           \A e, f \in Of(T, u, k) : e = f, \A e \in Of(T, u, k) : e \notin S
    PROVE  /\ IsFiniteSet(Of(S \union T, u, k))
           /\ Cardinality(Of(S \union T, u, k)) =
                Cardinality(Of(S, u, k)) + (IF Of(T, u, k) = {} THEN 0 ELSE 1)
<1>1. Of(S \union T, u, k) = Of(S, u, k) \union Of(T, u, k)
  BY DEF Of
<1>0. Cardinality(Of(S, u, k)) \in Nat
  BY FS_CardinalityType
<1>2. CASE Of(T, u, k) = {}
  BY <1>0, <1>1, <1>2
<1>3. CASE Of(T, u, k) # {}
  <2>1. PICK e : e \in Of(T, u, k)
    BY <1>3
  <2>2. Of(S \union T, u, k) = Of(S, u, k) \union {e}
    BY <1>1, <2>1
  <2>3. e \notin Of(S, u, k)
    BY <2>1 DEF Of
  <2>4. /\ IsFiniteSet(Of(S, u, k) \union {e})
        /\ Cardinality(Of(S, u, k) \union {e}) = Cardinality(Of(S, u, k)) + 1
    BY <2>3, FS_AddElement
  <2> QED BY <1>3, <2>2, <2>4
<1> QED BY <1>2, <1>3

LEMMA NoneOf == ASSUME NEW S, NEW u, NEW k, \A e \in S : e.kind # k PROVE Of(S, u, k) = {}
BY DEF Of

LEMMA EmptyBooks == ASSUME Books = {} PROVE \A u \in Users : Balanced(u, 0)
<1>1. \A u, k : Of(Books, u, k) = {}
  BY DEF Of
<1> QED BY <1>1, FS_EmptySet DEF Balanced

LEMMA EventKeeps ==
    ASSUME Types, BooksInv, Quiet', NEW p \in Updates, B!UpdateEvent(p)
    PROVE  BooksInvHolds'
<1> USE ClubEventAssumption DEF Types, B!TypeOK, Steps, B!UnderWay, Quiet, B!HasStatus
<1>1. BooksInvHolds
  BY DEF BooksInv, BooksInvHolds, B!UpdateEvent, B!history
<1>2. /\ UNCHANGED <<correct, bet, option, ledger, base, want, value, txns, late>>
      /\ \A q \in Updates \ {p} : pc'[q] = pc[q]
      /\ pc[p] = "event" /\ pc'[p] = "write" /\ status' = want[p]
      /\ resets' = IF want[p] = "RST" THEN resets + 1 ELSE resets
  BY DEF B!UpdateEvent, B!request, B!history, B!Goto, B!bets
<1>3. want[p] \in {"CAN", "RST"} /\ B!HasStatus(p) /\ ~Written(p) /\ Written(p)'
  BY <1>2 DEF Written
<1>4. \A q \in Updates \ {p} : ~B!HasStatus(q) /\ ~B!HasStatus(q)' /\ ~Marking(q) /\ ~Marking(q)'
  BY <1>1, <1>2, <1>3 DEF Solo, BooksInvHolds, Marking
<1>5. Books' = Books \union txns[p]
  BY <1>2, <1>3, BooksGrow DEF Written
<1>6. B!Allowed(base[p], want[p]) /\ status = base[p]
  BY <1>1, <1>3 DEF RowFollows, BooksInvHolds
<1>7. /\ \A e, f \in txns[p] : e.user = f.user => e = f
      /\ \A e \in txns[p] : e.user \in Users /\ e.at = resets
      /\ want[p] = "CAN" => /\ \A e \in txns[p] : e.kind = "RFCLB"
                            /\ \A u \in Users \ late : Mine(p, u) # {} <=> HasBet(u)
      /\ want[p] = "RST" => /\ \A e \in txns[p] : e.kind = "CLSRST"
                            /\ \A u \in Users : Mine(p, u) # {} <=> Standing(u) # {}
  BY <1>1, <1>2, <1>3 DEF ListMatches, BooksInvHolds
<1>8. BooksMatch'
  <2>1. CASE want[p] = "CAN"
    <3>1. Books' = txns[p]
      BY <1>1, <1>5, <1>6, <2>1 DEF B!Allowed, B!Settles, B!Cancels, B!Resets, BooksMatch, BooksInvHolds
    <3>2. status' = "CAN" /\ \A e \in Books' : e.kind = "RFCLB"
      BY <1>2, <1>7, <2>1, <3>1
    <3>3. \A u \in Users : Of(Books', u, "RFCLB") = Mine(p, u)
      BY <1>7, <2>1, <3>1 DEF Of, Mine
    <3>4. \A u \in Users : Of(Books, u, "RFCLB")' = Mine(p, u)
      BY <3>3 DEF Of
    <3>5. \A u \in Users : \A e, f \in Mine(p, u) : e = f
      BY <1>7 DEF Mine
    <3> QED BY <1>2, <1>7, <2>1, <3>2, <3>4, <3>5 DEF BooksMatch, HasBet
  <2>2. CASE want[p] = "RST"
    <3>1. status \in {"C", "RST"} /\ status' = "RST" /\ resets' = resets + 1
      BY <1>2, <1>6, <2>2 DEF B!Allowed, B!Settles, B!Cancels, B!Resets
    <3>2. \A e \in Books : e.at \in Nat /\ e.at <= resets
      <4>1. \A e \in ledger : e.at \in Nat /\ e.at <= resets
        OBVIOUS
      <4>2. \A q \in Updates : \A e \in txns[q] : e.at \in Nat /\ e.at <= resets
        BY DEF Entries
      <4> QED BY <4>1, <4>2 DEF Books
    <3>3. \A e \in Books' : e.at < resets'
      BY <1>5, <1>7, <3>1, <3>2
    <3>4. \A e \in Books : e.kind = "CLS" \/ (e.kind = "CLSRST" /\ e.at < resets)
      BY <1>1, <3>1 DEF BooksMatch, BooksInvHolds
    <3>5. \A e \in Books' : e.kind = "CLS" \/ (e.kind = "CLSRST" /\ e.at < resets')
      BY <1>5, <1>7, <2>2, <3>3, <3>4
    <3>6. ASSUME NEW u \in Users PROVE Balanced(u, 0)'
      <4>1. Balanced(u, IF Standing(u) = {} THEN 0 ELSE 1)
        <5>1. CASE status = "C"
          BY <1>1, <5>1 DEF BooksMatch, BooksInvHolds
        <5>2. CASE status = "RST"
          <6>1. Standing(u) = {}
            BY <1>1, <5>2 DEF BooksMatch, BooksInvHolds, Standing
          <6> QED BY <6>1, <1>1, <5>2 DEF BooksMatch, BooksInvHolds
        <5> QED BY <3>1, <5>1, <5>2
      <4>2. Of(Books', u, "CLS") = Of(Books, u, "CLS")
        BY <1>5, <1>7, <2>2 DEF Of
      <4>3. Of(txns[p], u, "CLSRST") = Mine(p, u)
        BY <1>7, <2>2 DEF Of, Mine
      <4>4. \A e \in Of(txns[p], u, "CLSRST") : e \notin Books
        BY <1>7, <2>2, <3>4 DEF Of
      <4>5. \A e, f \in Of(txns[p], u, "CLSRST") : e = f
        BY <1>7 DEF Of
      <4>6. IsFiniteSet(Of(Books, u, "CLSRST"))
        BY <4>1 DEF Balanced
      <4>7. /\ IsFiniteSet(Of(Books \union txns[p], u, "CLSRST"))
            /\ Cardinality(Of(Books \union txns[p], u, "CLSRST")) =
                 Cardinality(Of(Books, u, "CLSRST")) + (IF Standing(u) = {} THEN 0 ELSE 1)
        BY <4>3, <4>4, <4>5, <4>6, OneMore, <1>7, <2>2
      <4>8. Cardinality(Of(Books, u, "CLSRST")) \in Nat /\ Cardinality(Of(Books, u, "CLS")) \in Nat
        BY <4>1, FS_CardinalityType DEF Balanced
      <4>9. Of(Books, u, "CLS")' = Of(Books', u, "CLS") /\ Of(Books, u, "CLSRST")' = Of(Books', u, "CLSRST")
        BY DEF Of
      <4> QED BY <1>5, <4>1, <4>2, <4>7, <4>8, <4>9 DEF Balanced
    <3> QED BY <3>1, <3>3, <3>5, <3>6 DEF BooksMatch
  <2> QED BY <1>3, <2>1, <2>2
<1>9. Solo'
  BY <1>4 DEF Solo
<1>10. RowFollows'
  BY <1>2, <1>3, <1>4 DEF RowFollows
<1>11. BetsMatch'
  <2>1. Marking(p) /\ Marking(p)'
    BY <1>2, <1>3 DEF Marking
  <2>2. /\ want[p] = "RST" => \A u \in Users : bet[u] \in {"none", "open"}
        /\ want[p] = "CAN" => \A u \in Users \ late : bet[u] \in {"none", "cancelled"}
    BY <1>1, <2>1 DEF BetsMatch, BooksInvHolds
  <2> QED BY <1>2, <1>3, <1>4, <2>1, <2>2 DEF BetsMatch
<1>12. ListMatches'
  BY <1>3, <1>4 DEF ListMatches
<1> QED BY <1>8, <1>9, <1>10, <1>11, <1>12 DEF BooksInvHolds

LEMMA WriteKeeps ==
    ASSUME Types, BooksInv, Quiet', NEW p \in Updates, B!Write(p)
    PROVE  BooksInvHolds'
<1> USE ClubEventAssumption DEF Types, B!TypeOK, Steps, B!UnderWay, Quiet, B!HasStatus
<1>1. BooksInvHolds
  BY DEF BooksInv, BooksInvHolds, B!Write, B!history
<1>2. /\ UNCHANGED <<resets, bet, option, ledger, base, want, value, txns, late>>
      /\ \A q \in Updates \ {p} : pc'[q] = pc[q]
      /\ pc[p] = "write" /\ pc'[p] = "commit"
      /\ status' = IF want[p] = None THEN status ELSE want[p]
      /\ correct' = IF value[p] = None THEN correct ELSE value[p]
  BY DEF B!Write, B!request, B!history, B!Goto, B!bets
<1>3. B!UnderWay(p) /\ Written(p)' /\ B!Allowed(base[p], want[p])
  BY <1>2 DEF Written
<1>4. \A q \in Updates \ {p} : (B!HasStatus(q)' <=> B!HasStatus(q)) /\ (Written(q)' <=> Written(q))
  BY <1>2 DEF Written
<1>5. Solo'
  BY <1>1, <1>2, <1>4 DEF Solo, BooksInvHolds
<1>6. \A q \in Updates : Marking(q)' <=> Marking(q)
  BY <1>2 DEF Marking
<1>7. \A u \in Users : HasBet(u)' <=> HasBet(u)
  BY <1>2 DEF HasBet
<1>8. CASE want[p] = None \/ want[p] \in {"CAN", "RST"}
  <2>1. value[p] = None
    BY <1>8
  <2>2. status' = status /\ correct' = correct
    <3>1. want[p] \in {"CAN", "RST"} => status = want[p]
      BY <1>1, <1>2 DEF RowFollows, BooksInvHolds, Written
    <3> QED BY <1>2, <1>8, <2>1, <3>1
  <2>3. Books' = Books
    <3>1. CASE want[p] = None
      <4>1. txns[p] = {}
        BY <1>3, <3>1
      <4> QED BY <4>1, <1>2, <1>4, BooksKept
    <3>2. CASE want[p] \in {"CAN", "RST"}
      <4>1. Written(p)
        BY <3>2, <1>2 DEF Written
      <4> QED BY <4>1, <1>2, <1>3, <1>4, BooksKept
    <3> QED BY <1>8, <3>1, <3>2
  <2>4. BooksMatch' /\ \A u \in Users : Standing(u)' = Standing(u)
    BY <1>1, <1>2, <1>7, <2>2, <2>3, RowKept DEF BooksInvHolds
  <2>5. RowFollows'
    BY <1>1, <1>2, <1>4, <1>8, <2>1, <2>2 DEF RowFollows, Written, BooksInvHolds
  <2>6. BetsMatch'
    BY <1>1, <1>2, <1>6, <2>2 DEF BetsMatch, BooksInvHolds
  <2>7. ListMatches'
    BY <1>1, <1>2, <1>3, <1>4, <1>7, <2>4 DEF ListMatches, BooksInvHolds, Mine
  <2> QED BY <1>5, <2>4, <2>5, <2>6, <2>7 DEF BooksInvHolds
<1>9. CASE want[p] # None /\ want[p] \notin {"CAN", "RST"}
  <2>1. B!HasStatus(p) /\ ~Written(p) /\ status = base[p] /\ status' = want[p]
    <3>1. B!HasStatus(p) /\ ~Written(p) /\ status' = want[p]
      BY <1>2, <1>9 DEF Written
    <3> QED BY <3>1, <1>1 DEF RowFollows, BooksInvHolds
  <2>2. \A q \in Updates \ {p} : ~B!HasStatus(q) /\ ~B!HasStatus(q)' /\ ~Marking(q)
    BY <1>1, <1>4, <2>1 DEF Solo, BooksInvHolds, Marking
  <2>3. Books' = Books \union txns[p]
    BY <1>2, <1>3, <1>4, <2>1, BooksGrow
  <2>4. RowFollows'
    BY <1>2, <1>3, <2>1, <2>2 DEF RowFollows
  <2>5. ListMatches'
    BY <1>3, <2>2 DEF ListMatches
  <2>6. CASE want[p] # "C"
    <3>1. txns[p] = {} /\ want[p] \notin Closing
      BY <1>3, <1>9, <2>6
    <3>2. status \in Early /\ status' \in Early
      BY <1>3, <1>9, <2>1, <2>6 DEF B!Allowed, B!Settles, B!Cancels, B!Resets
    <3>3. Books' = {}
      BY <1>1, <2>3, <3>1, <3>2 DEF BooksMatch, BooksInvHolds
    <3>4. BooksMatch'
      BY <3>2, <3>3 DEF BooksMatch
    <3>5. \A q \in Updates : ~Marking(q)
      BY <2>2, <3>1 DEF Marking
    <3>6. \A u \in Users : bet[u] \in {"none", "open"}
      BY <1>1, <3>2, <3>5 DEF BetsMatch, BooksInvHolds
    <3>7. BetsMatch'
      BY <1>2, <1>6, <3>2, <3>5, <3>6 DEF BetsMatch
    <3> QED BY <1>5, <2>4, <2>5, <3>4, <3>7 DEF BooksInvHolds
  <2>7. CASE want[p] = "C"
    <3>1. status \in {"A", "RST"} /\ status' = "C" /\ correct' = value[p]
      BY <1>2, <1>3, <2>1, <2>7 DEF B!Allowed, B!Settles, B!Cancels, B!Resets
    <3>2. /\ \A e, f \in txns[p] : e.user = f.user => e = f
          /\ \A e \in txns[p] : e.at = resets /\ e.kind = "CLS"
          /\ \A u \in Users \ late : Mine(p, u) # {} <=> HasBet(u) /\ option[u] = value[p]
      BY <1>1, <1>2, <2>1, <2>7 DEF ListMatches, BooksInvHolds
    <3>3. \A e \in Books : (e.kind = "CLS" \/ e.kind = "CLSRST") /\ e.at < resets
      BY <1>1, <3>1 DEF BooksMatch, BooksInvHolds
    <3>4. \A u \in Users : Balanced(u, 0)
      <4>1. CASE status = "A"
        BY <1>1, <4>1, EmptyBooks DEF BooksMatch, BooksInvHolds
      <4>2. CASE status = "RST"
        BY <1>1, <4>2 DEF BooksMatch, BooksInvHolds
      <4> QED BY <3>1, <4>1, <4>2
    <3>5. resets \in Nat
      OBVIOUS
    <3>6. ASSUME NEW u \in Users
          PROVE  /\ Standing(u)' = Mine(p, u)
                 /\ \A e, f \in Mine(p, u) : e = f
                 /\ Balanced(u, IF Standing(u) = {} THEN 0 ELSE 1)'
      <4>1. Standing(u)' = {e \in Books' : e.user = u /\ e.kind = "CLS" /\ e.at = resets}
        BY <1>2 DEF Standing
      <4>2. Standing(u)' = Mine(p, u)
        BY <4>1, <2>3, <3>2, <3>3, <3>5 DEF Mine
      <4>3. \A e, f \in Mine(p, u) : e = f
        BY <3>2 DEF Mine
      <4>4. Of(txns[p], u, "CLS") = Mine(p, u) /\ Of(txns[p], u, "CLSRST") = {}
        BY <3>2 DEF Of, Mine
      <4>5. \A e \in Of(txns[p], u, "CLS") : e \notin Books
        BY <3>2, <3>3, <3>5 DEF Of
      <4>6. /\ IsFiniteSet(Of(Books, u, "CLS")) /\ IsFiniteSet(Of(Books, u, "CLSRST"))
            /\ Cardinality(Of(Books, u, "CLS")) = Cardinality(Of(Books, u, "CLSRST")) + 0
        BY <3>4 DEF Balanced
      <4>7. /\ IsFiniteSet(Of(Books', u, "CLS"))
            /\ Cardinality(Of(Books', u, "CLS")) =
                 Cardinality(Of(Books, u, "CLS")) + (IF Mine(p, u) = {} THEN 0 ELSE 1)
        <5>1. \A e, f \in Of(txns[p], u, "CLS") : e = f
          BY <4>3, <4>4
        <5>2. /\ IsFiniteSet(Of(Books \union txns[p], u, "CLS"))
              /\ Cardinality(Of(Books \union txns[p], u, "CLS")) =
                   Cardinality(Of(Books, u, "CLS")) + (IF Of(txns[p], u, "CLS") = {} THEN 0 ELSE 1)
          <6>1. IsFiniteSet(Of(Books, u, "CLS"))
            BY <4>6
          <6> QED BY ONLY <4>5, <6>1, <5>1, OneMore
        <5> QED BY <2>3, <4>4, <5>2
      <4>8. Of(Books', u, "CLSRST") = Of(Books, u, "CLSRST")
        BY <2>3, <4>4 DEF Of
      <4>9. Cardinality(Of(Books, u, "CLSRST")) \in Nat
        BY <4>6, FS_CardinalityType
      <4>10. Of(Books, u, "CLS")' = Of(Books', u, "CLS") /\ Of(Books, u, "CLSRST")' = Of(Books', u, "CLSRST")
        BY DEF Of
      <4> QED BY <4>2, <4>3, <4>6, <4>7, <4>8, <4>9, <4>10 DEF Balanced
    <3>7. \A e \in Books' : e.kind = "CLS" \/ (e.kind = "CLSRST" /\ e.at < resets')
      BY <1>2, <2>3, <3>2, <3>3
    <3>8. \A u \in Users \ late' : Standing(u)' # {} <=> HasBet(u)' /\ option'[u] = correct'
      BY <1>2, <1>7, <3>1, <3>2, <3>6
    <3>9. BooksMatch'
      BY <3>1, <3>6, <3>7, <3>8 DEF BooksMatch
    <3>10. Marking(p)
      BY <1>2, <2>7 DEF Marking
    <3>11. \A u \in Users \ late : bet[u] \in {"none", "closed"}
      BY <1>1, <1>2, <2>7, <3>10 DEF BetsMatch, BooksInvHolds
    <3>12. BetsMatch'
      BY <1>2, <1>6, <2>2, <2>7, <3>10, <3>11 DEF BetsMatch
    <3> QED BY <1>5, <2>4, <2>5, <3>9, <3>12 DEF BooksInvHolds
  <2> QED BY <2>6, <2>7
<1> QED BY <1>8, <1>9

LEMMA StutterKeeps ==
    ASSUME BooksInv, UNCHANGED B!vars PROVE BooksInv'
<1>1. UNCHANGED <<status, correct, resets, bet, option, ledger, pc, base, want, value, txns, late, overlapped, torn>>
  BY DEF B!vars, B!evt, B!bets, B!request, B!history
<1>2. Books' = Books
  BY <1>1 DEF Books, Written
<1>3. CASE ~Quiet
  BY <1>1, <1>3 DEF Quiet, BooksInv
<1>4. CASE Quiet
  <2>0. BooksInvHolds
    BY <1>4 DEF BooksInv, BooksInvHolds
  <2>1. BooksMatch' /\ \A u \in Users : Standing(u)' = Standing(u)
    BY <1>1, <1>2, <2>0, RowKept DEF BooksInvHolds, HasBet
  <2>2. Solo'
    BY <1>1, <2>0 DEF BooksInvHolds, Solo, B!HasStatus, B!UnderWay
  <2>3. RowFollows'
    BY <1>1, <2>0 DEF BooksInvHolds, RowFollows, B!HasStatus, B!UnderWay, Written
  <2>4. BetsMatch'
    BY <1>1, <2>0 DEF BooksInvHolds, BetsMatch, Marking, B!UnderWay
  <2>5. ListMatches'
    BY <1>1, <2>0, <2>1 DEF BooksInvHolds, ListMatches, B!HasStatus, B!UnderWay, Written, Mine, HasBet
  <2> QED BY <2>1, <2>2, <2>3, <2>4, <2>5 DEF BooksInv
<1> QED BY <1>3, <1>4

LEMMA BooksInit == B!Init => BooksInv
<1> SUFFICES ASSUME B!Init PROVE BooksInv
  OBVIOUS
<1>1. /\ \A p \in Updates : pc[p] = "idle"
      /\ status = "A" /\ ledger = {} /\ \A u \in Users : bet[u] = "none"
  BY DEF B!Init
<1>2. \A p \in Updates : ~B!HasStatus(p) /\ ~Written(p) /\ ~Marking(p)
  BY <1>1 DEF B!HasStatus, B!UnderWay, Written, Marking
<1>3. Books = {}
  BY <1>1, <1>2 DEF Books
<1>4. BooksMatch /\ BetsMatch
  BY <1>1, <1>2, <1>3 DEF BooksMatch, BetsMatch
<1>5. Solo /\ RowFollows /\ ListMatches
  BY <1>2 DEF Solo, RowFollows, ListMatches
<1> QED BY <1>4, <1>5 DEF BooksInv

LEMMA BooksStep ==
    ASSUME Types, BooksInv, [B!Next]_(B!vars)
    PROVE  BooksInv'
<1>1. ASSUME B!Next, Quiet' PROVE BooksInvHolds'
  BY <1>1, BeginKeeps, ListKeeps, PassKeeps, BetsKeeps, EventKeeps, WriteKeeps, BetKeeps DEF B!Next, B!Step
<1>2. CASE B!Next
  BY <1>1, <1>2 DEF BooksInv, BooksInvHolds
<1> QED BY <1>2, StutterKeeps

-------------------------------------------------------------------------------

\* Every variable of the club event has its type in every behaviour.
THEOREM ClubEventTyped == B!Spec => []B!TypeOK
<1>1. B!Init => Types
  BY TypesInit
<1>2. Types /\ [B!Next]_(B!vars) => Types'
  BY TypesStep
<1>3. Types => B!TypeOK
  BY DEF Types
<1> QED BY <1>1, <1>2, <1>3, PTL DEF B!Spec

LEMMA BooksHold == B!Spec => [](Types /\ BooksInv)
<1>1. B!Init => Types /\ BooksInv
  BY TypesInit, BooksInit
<1>2. Types /\ BooksInv /\ [B!Next]_(B!vars) => (Types /\ BooksInv)'
  BY TypesStep, BooksStep
<1> QED BY <1>1, <1>2, PTL DEF B!Spec

\* When no update is under way the books are what is committed.
LEMMA AtRest ==
    ASSUME Types, BooksInv, B!InOrder
    PROVE  /\ BooksMatch /\ BetsMatch /\ Books = ledger
           /\ \A p \in Updates : ~Marking(p)
           /\ \A u \in Users, k \in B!Kinds : B!Count(u, k) = Cardinality(Of(Books, u, k))
<1>1. Books = ledger
  BY DEF B!InOrder, B!UnderWay, Books, Written
<1>2. BooksMatch /\ BetsMatch
  BY DEF B!InOrder, BooksInv, Quiet
<1>3. \A p \in Updates : ~Marking(p)
  BY DEF B!InOrder, Marking
<1>4. \A u \in Users, k \in B!Kinds : B!Count(u, k) = Cardinality(Of(Books, u, k))
  <2>1. \A u, k : {e \in ledger : e.user = u /\ e.kind = k} = Of(Books, u, k)
    BY <1>1 DEF Of
  <2>2. \A S : B!Cardinality(S) = Cardinality(S)
    BY DEF B!Cardinality, Cardinality
  <2> QED BY <2>1, <2>2 DEF B!Count
<1> QED BY <1>1, <1>2, <1>3, <1>4

\* A complete event has credited each bet on the correct option once since its last
\* reset and closed all bets (updateClubEvent, ClubEvents.settleEvent).
LEMMA ClubEventSettled == B!Spec => []B!SettledExactly
<1>1. ASSUME Types, BooksInv, B!InOrder, status = "C", NEW u \in Users \ late
      PROVE  /\ bet[u] \in {"none", "closed"}
             /\ B!Count(u, "CLS") = B!Count(u, "CLSRST") + (IF B!Winning(u) THEN 1 ELSE 0)
  <2>1. bet[u] \in {"none", "closed"}
    BY <1>1, AtRest DEF BetsMatch
  <2>2. /\ Balanced(u, IF Standing(u) = {} THEN 0 ELSE 1)
        /\ Standing(u) # {} <=> HasBet(u) /\ option[u] = correct
    BY <1>1, AtRest DEF BooksMatch
  <2>3. Standing(u) # {} <=> B!Winning(u)
    BY <2>1, <2>2 DEF HasBet, B!Winning
  <2>4. Balanced(u, IF B!Winning(u) THEN 1 ELSE 0)
    BY <2>2, <2>3
  <2> QED BY <1>1, <2>1, <2>4, AtRest DEF Balanced
<1>2. Types /\ BooksInv => B!SettledExactly
  BY <1>1 DEF B!SettledExactly
<1> QED BY <1>2, BooksHold, PTL

\* A reset event has taken all winnings back and opened all bets, a cancelled one has
\* refunded every bet once (ClubEvents.resetEvent, ClubEvents.cancelEvent).
LEMMA ClubEventBets == B!Spec => []B!BetsComeBack
<1>1. Types /\ BooksInv => B!ResetTakesAllBack
  <2> SUFFICES ASSUME Types, BooksInv, B!InOrder, status = "RST", NEW u \in Users
               PROVE  bet[u] \in {"none", "open"} /\ B!Count(u, "CLS") = B!Count(u, "CLSRST")
    BY DEF B!ResetTakesAllBack
  <2>1. bet[u] \in {"none", "open"} /\ Balanced(u, 0)
    BY AtRest DEF BooksMatch, BetsMatch
  <2>2. Cardinality(Of(Books, u, "CLSRST")) \in Nat
    BY <2>1, FS_CardinalityType DEF Balanced
  <2> QED BY <2>1, <2>2, AtRest DEF Balanced
<1>2. Types /\ BooksInv => B!CancelRefundsAll
  <2> SUFFICES ASSUME Types, BooksInv, B!InOrder, status = "CAN", NEW u \in Users \ late
               PROVE  /\ bet[u] \in {"none", "cancelled"}
                      /\ B!Count(u, "RFCLB") = (IF bet[u] = "cancelled" THEN 1 ELSE 0)
                      /\ B!Count(u, "CLS") = B!Count(u, "CLSRST")
    BY DEF B!CancelRefundsAll
  <2>1. /\ bet[u] \in {"none", "cancelled"}
        /\ \A e \in Books : e.kind = "RFCLB"
        /\ \A e, f \in Of(Books, u, "RFCLB") : e = f
        /\ Of(Books, u, "RFCLB") # {} <=> HasBet(u)
    BY AtRest DEF BooksMatch, BetsMatch
  <2>2. Of(Books, u, "CLS") = {} /\ Of(Books, u, "CLSRST") = {}
    BY <2>1, NoneOf
  <2>3. CASE bet[u] = "cancelled"
    <3>1. PICK e : e \in Of(Books, u, "RFCLB")
      BY <2>1, <2>3 DEF HasBet
    <3>2. Of(Books, u, "RFCLB") = {e}
      BY <2>1, <3>1
    <3>3. Cardinality(Of(Books, u, "RFCLB")) = 1
      BY <3>2, FS_Singleton
    <3>4. B!Count(u, "RFCLB") = 1 /\ B!Count(u, "CLS") = B!Count(u, "CLSRST")
      BY <2>2, <3>3, AtRest
    <3> QED BY <2>1, <2>3, <3>4
  <2>4. CASE bet[u] = "none"
    BY <2>1, <2>2, <2>4, AtRest, FS_EmptySet DEF HasBet
  <2> QED BY <2>1, <2>3, <2>4
<1>3. Types /\ BooksInv => B!BetsComeBack
  BY <1>1, <1>2 DEF B!BetsComeBack
<1> QED BY <1>3, BooksHold, PTL

HIDE DEF B!Statuses, B!Kinds, B!Places, Closing, Early

-------------------------------------------------------------------------------
(* THE PARTS.  A behaviour of the module that composes the three is one of   *)
(* the part it begins with, in which the other parts' variables stay None.   *)

LEMMA EventIsPart ==
    /\ Init => (part = "event" => E!Init)
    /\ [Next]_vars => ((part = "event")' <=> part = "event")
    /\ part = "event" /\ [Next]_vars => [E!Next]_(E!vars)
BY DEF Init, Next, vars, 
   ofEventAndContestAndClubEvent, ofEventAndContest, ofEvent, ofContest,
   ofContestAndClubEvent, ofClubEvent, E!vars, E!money, E!history

LEMMA ContestIsPart ==
    /\ Init => (part = "contest" => K!Init)
    /\ [Next]_vars => ((part = "contest")' <=> part = "contest")
    /\ part = "contest" /\ [Next]_vars => [K!Next]_(K!vars)
BY DEF Init, Next, vars, 
   ofEventAndContestAndClubEvent, ofEventAndContest, ofEvent, ofContest,
   ofContestAndClubEvent, ofClubEvent, K!vars

LEMMA ClubEventIsPart ==
    /\ Init => (part = "clubEvent" => B!Init)
    /\ [Next]_vars => ((part = "clubEvent")' <=> part = "clubEvent")
    /\ part = "clubEvent" /\ [Next]_vars => [B!Next]_(B!vars)
BY DEF Init, Next, vars, 
   ofEventAndContestAndClubEvent, ofEventAndContest, ofEvent, ofContest,
   ofContestAndClubEvent, ofClubEvent, B!vars, B!evt, B!bets, B!request, B!history

\* However many updates of an event arrive, fail or are refused, and whatever
\* contest cancellations run beside them, at most one update is in process (the flag
\* PROBES_UPDATE, probe.controller.js).
THEOREM OneUpdateHolds == (E!Spec => []E!OneUpdateAtATime) /\ (Spec => []OneUpdateAtATime)
BY EventOneUpdate, EventIsPart, PTL DEF Spec, E!Spec, OneUpdateAtATime

\* A completed event has credited all active calls, for any number of users,
\* updates and contest cancellations.
THEOREM CompletePaidHolds == (E!Spec => []E!CompleteIsPaid) /\ (Spec => []CompleteIsPaid)
BY EventCompletePaid, EventIsPart, PTL DEF Spec, E!Spec, CompleteIsPaid

\* A user of an event is both credited and refunded only if the credit came first or
\* a contest cancellation met an update.
THEOREM PaidOneWayHolds == (E!Spec => []E!PaidOneWay) /\ (Spec => []PaidOneWay)
BY EventPaidOneWay, EventIsPart, PTL DEF Spec, E!Spec, PaidOneWay

\* Whatever updates overlap, fail or crash, a contest marked CAN has refunded the
\* fee of everyone who entered before the refund lists were read.
THEOREM CancelledHolds == (K!Spec => []K!CancelledRefundsEntries) /\ (Spec => []CancelledRefundsEntries)
BY ContestCancelled, ContestIsPart, PTL DEF Spec, K!Spec, CancelledRefundsEntries

\* Prizes of a contest are paid on events that are all closed, or that a reset has
\* opened again.
THEOREM PrizesHold == (K!Spec => []K!PrizesAfterEvents) /\ (Spec => []PrizesAfterEvents)
BY ContestPrizes, ContestIsPart, PTL DEF Spec, K!Spec, PrizesAfterEvents

\* A rank bracket is paid once, for any number of updates and brackets, unless two
\* updates ran at the same time or one broke off after a payment.
THEOREM PaidOnceHolds == (K!Spec => []K!PrizesPaidOnce) /\ (Spec => []PrizesPaidOnce)
BY ContestPaidOnce, ContestIsPart, PTL DEF Spec, K!Spec, PrizesPaidOnce

\* A complete club event has closed all bets and credited each one on the correct
\* option once since its last reset, for any users, options and updates, unless two
\* updates overlapped, one broke off between its writes, or the bet came late
\* (updateClubEvent, ClubEvents.settleEvent).
THEOREM SettledOnce == (B!Spec => []B!SettledExactly) /\ (Spec => []SettledExactly)
BY ClubEventSettled, ClubEventIsPart, PTL DEF Spec, B!Spec, SettledExactly

\* With the same exceptions a reset club event has taken all winnings back and
\* opened all bets, and a cancelled one has refunded every bet once
\* (ClubEvents.resetEvent, ClubEvents.cancelEvent).
THEOREM BetsAllComeBack == (B!Spec => []B!BetsComeBack) /\ (Spec => []BetsComeBack)
BY ClubEventBets, ClubEventIsPart, PTL DEF Spec, B!Spec, BetsComeBack

\* No step changes the status of a closed contest before two updates have overlapped.
THEOREM ClosedHolds == (K!Spec => K!ClosedStaysClosed) /\ (Spec => ClosedStaysClosed)
<1>1. [Next]_vars /\ part = "contest" /\ [(status \in K!Closed) => status' = status \/ overlap]_(K!vars)
         => [part = "contest" /\ status \in K!Closed => status' = status \/ overlap]_vars
  BY DEF K!vars
<1>2. part # "contest" => [part = "contest" /\ status \in K!Closed => status' = status \/ overlap]_vars
  OBVIOUS
<1> QED
  BY <1>1, <1>2, ContestClosed, ContestIsPart, PTL DEF Spec, K!Spec, ClosedStaysClosed, K!ClosedStaysClosed
===============================================================================
