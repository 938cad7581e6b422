--------------------------- MODULE PayoutProcessing ---------------------------
(***************************************************************************)
(* The payout of one withdrawal: dashboard requests (processRedeemRequests *)
(* of user.controller.js) that process it (processRedeem) through a        *)
(* payment gateway.                                                        *)
(*                                                                         *)
(* What keeps the gateway from paying twice: the lock processing_redeems   *)
(* of a batch, the key process_redeem_<id> of the withdrawal, and, when an *)
(* earlier attempt has failed, the question whether the gateway knows the  *)
(* transfer that attempt recorded.  A batch is reduced to one withdrawal;  *)
(* balance checks and notifications are left out.  The withdrawal may be   *)
(* cancelled meanwhile (cancelRedeemRequests, gateway callbacks).          *)
(***************************************************************************)
EXTENDS Naturals, FiniteSets

CONSTANTS
    Handlers,   \* dashboard requests; a handler's transferId is named after it
    None        \* no transferId yet

VARIABLES
    status,     \* of the redeem row: A(ctive), C(omplete), X (cancelled)
    transferid, \* of the redeem row
    lock,       \* the lock processing_redeems: the set of its owner, or {}
    key,        \* the key process_redeem_<id>: the set of its owner, or {}
    pc,         \* where each handler is
    seen,       \* the transferid it read
    sent,       \* gateway: transfers on their way, not decided
    accepted,   \* gateway: transfers it will pay
    visible,    \* gateway: accepted ones that have a referenceId
    keyLapsed,  \* history: the key expired under a live handler
    blind,      \* history: a handler gave up a transfer the gateway may still pay
    raced       \* history: cancelled under a handler or after an attempt

gateway == <<sent, accepted, visible>>
row == <<status, transferid>>
history == <<keyLapsed, blind, raced>>
vars == <<row, lock, key, pc, seen, gateway, history>>

Init ==
    /\ status = "A" /\ transferid = None
    /\ lock = {} /\ key = {}
    /\ pc = [h \in Handlers |-> "idle"]
    /\ seen = [h \in Handlers |-> None]
    /\ sent = {} /\ accepted = {} /\ visible = {}
    /\ keyLapsed = FALSE /\ blind = FALSE /\ raced = FALSE

Keyed == {"read", "query", "assign", "send", "answer", "complete", "giveUp"}
Step(h, from, to) == pc[h] = from /\ pc' = [pc EXCEPT ![h] = to]

-------------------------------------------------------------------------------
(* processRedeemRequests                                                     *)

\* The lock's key is looked at first; a handler that finds it is refused.
Arrive(h) ==
    /\ Step(h, "idle", IF lock = {} THEN "lock" ELSE "done")
    /\ UNCHANGED <<row, lock, key, seen, gateway, history>>

\* Mutant: withdrawals of every status are listed.
LockListsAll(h) ==
    /\ lock = {}
    /\ Step(h, "lock", "key")
    /\ lock' = {h}
    /\ UNCHANGED <<row, key, seen, gateway, history>>

\* Those that passed wait for the lock; getRedeemRequests lists active rows.
Lock(h) ==
    /\ lock = {}
    /\ Step(h, "lock", IF status = "A" THEN "key" ELSE "unlock")
    /\ lock' = {h}
    /\ UNCHANGED <<row, key, seen, gateway, history>>

Unlock(h) ==
    /\ Step(h, "unlock", "done")
    /\ lock' = lock \ {h}
    /\ UNCHANGED <<row, key, seen, gateway, history>>

\* The lock's 300 s are shared by a whole batch of transfers.
LockExpire ==
    /\ lock # {}
    /\ lock' = {}
    /\ UNCHANGED <<row, key, pc, seen, gateway, history>>

-------------------------------------------------------------------------------
(* processRedeem                                                             *)

\* "Already processing": the withdrawal is left alone.
FindKey(h) ==
    /\ key # {}
    /\ Step(h, "key", "unlock")
    /\ UNCHANGED <<row, lock, key, seen, gateway, history>>

\* Test and set, under the lock lock_process_redeem_<id> (which FindKey leaves
\* to lapse: a delay).
TakeKey(h) ==
    /\ key = {}
    /\ Step(h, "key", "read")
    /\ key' = {h}
    /\ UNCHANGED <<row, lock, seen, gateway, history>>

\* Every way out deletes the key, whoever set it.
DeleteKey(h) ==
    /\ Step(h, "giveUp", "unlock")
    /\ key' = {}
    /\ UNCHANGED <<row, lock, seen, gateway, history>>

\* Mutant: an earlier attempt is not asked after.
ReadRowOnly(h) ==
    /\ Step(h, "read", IF status = "C" THEN "giveUp" ELSE "assign")
    /\ seen' = [seen EXCEPT ![h] = transferid]
    /\ UNCHANGED <<row, lock, key, gateway, history>>

\* getRedeemById.  Only C stops it: a withdrawal cancelled since it was listed
\* is sent, and no earlier attempt is asked after.
ReadRow(h) ==
    /\ Step(h, "read", CASE status = "C" -> "giveUp"
                         [] status = "A" /\ transferid # None -> "query"
                         [] OTHER -> "assign")
    /\ seen' = [seen EXCEPT ![h] = transferid]
    /\ UNCHANGED <<row, lock, key, gateway, history>>

\* getPayoutStatusInCG: the gateway knows a referenceId, whatever became of the
\* transfer.
QueryFound(h) ==
    /\ seen[h] \in visible
    /\ Step(h, "query", "complete")
    /\ UNCHANGED <<row, lock, key, seen, gateway, history>>

\* It knows none (yet).
QueryNotFound(h) ==
    /\ seen[h] \notin visible
    /\ Step(h, "query", "assign")
    /\ blind' = (blind \/ seen[h] \in sent \union accepted)
    /\ UNCHANGED <<row, lock, key, seen, gateway, keyLapsed, raced>>

\* Mutant: the transferId of the first attempt stays.
AssignFirst(h) ==
    /\ Step(h, "assign", "send")
    /\ transferid' = IF transferid = None THEN h ELSE transferid
    /\ UNCHANGED <<status, lock, key, seen, gateway, history>>

\* The new transferId is recorded before the transfer is requested.
Assign(h) ==
    /\ Step(h, "assign", "send")
    /\ transferid' = h
    /\ UNCHANGED <<status, lock, key, seen, gateway, history>>

\* createPayoutInCG
Send(h) ==
    /\ Step(h, "send", "answer")
    /\ sent' = sent \union {h}
    /\ UNCHANGED <<row, lock, key, seen, accepted, visible, history>>

\* The answer has a referenceId.
AnswerAccepted(h) ==
    /\ h \in visible
    /\ Step(h, "answer", "complete")
    /\ UNCHANGED <<row, lock, key, seen, gateway, history>>

\* The answer has status ERROR.
AnswerError(h) ==
    /\ h \notin sent \union accepted
    /\ Step(h, "answer", "giveUp")
    /\ UNCHANGED <<row, lock, key, seen, gateway, history>>

\* No query is answered, the transfer's answer is lost or has no referenceId, or
\* an update of the row fails.
GiveUp(h) ==
    /\ pc[h] \in Keyed \ {"send", "giveUp"}
    /\ pc' = [pc EXCEPT ![h] = "giveUp"]
    /\ UNCHANGED <<row, lock, key, seen, gateway, history>>

\* Unconditional: it overwrites a cancellation.
Complete(h) ==
    /\ Step(h, "complete", "giveUp")
    /\ status' = "C"
    /\ UNCHANGED <<transferid, lock, key, seen, gateway, history>>

\* The server stops.
Crash(h) ==
    /\ pc[h] \notin {"idle", "done"}
    /\ pc' = [pc EXCEPT ![h] = "done"]
    /\ UNCHANGED <<row, lock, key, seen, gateway, history>>

\* The key's ten minutes end.
KeyExpire ==
    /\ key # {}
    /\ key' = {}
    /\ keyLapsed' = (keyLapsed \/ \E h \in Handlers : pc[h] \in Keyed)
    /\ UNCHANGED <<row, lock, pc, seen, gateway, blind, raced>>

-------------------------------------------------------------------------------
(* External: the gateway, and UserService.cancelRedeemRequest, taken to      *)
(* refund active withdrawals only                                            *)

Decide(t) ==
    /\ t \in sent
    /\ sent' = sent \ {t}
    /\ accepted' \in {accepted, accepted \union {t}}
    /\ UNCHANGED <<row, lock, key, pc, seen, visible, history>>

ShowReference(t) ==
    /\ t \in accepted
    /\ visible' = visible \union {t}
    /\ UNCHANGED <<row, lock, key, pc, seen, sent, accepted, history>>

Listed == Keyed \union {"key"}
Cancel ==
    /\ status = "A"
    /\ status' = "X"
    /\ raced' = (sent \union accepted # {} \/ \E h \in Handlers : pc[h] \in Listed)
    /\ UNCHANGED <<transferid, lock, key, pc, seen, gateway, keyLapsed, blind>>

Next ==
    \/ \E h \in Handlers :
        \/ Arrive(h) \/ Lock(h) \/ Unlock(h)
        \/ FindKey(h) \/ TakeKey(h) \/ DeleteKey(h)
        \/ ReadRow(h) \/ QueryFound(h) \/ QueryNotFound(h)
        \/ Assign(h) \/ Send(h) \/ AnswerAccepted(h) \/ AnswerError(h)
        \/ GiveUp(h) \/ Complete(h) \/ Crash(h)
        \/ Decide(h) \/ ShowReference(h)
    \/ LockExpire \/ KeyExpire \/ Cancel

Spec == Init /\ [][Next]_vars

-------------------------------------------------------------------------------
(* Properties *)

\* Every variable has its type.
TypeOK ==
    /\ status \in {"A", "C", "X"} /\ transferid \in Handlers \union {None}
    /\ lock \subseteq Handlers /\ key \subseteq Handlers
    /\ pc \in [Handlers -> Keyed \union {"idle", "lock", "key", "unlock", "done"}]
    /\ seen \in [Handlers -> Handlers \union {None}]
    /\ sent \subseteq Handlers /\ visible \subseteq accepted /\ accepted \subseteq Handlers
    /\ keyLapsed \in BOOLEAN /\ blind \in BOOLEAN /\ raced \in BOOLEAN

\* The key, not the batch's lock (which may expire), makes the handlers process a
\* withdrawal one after the other: as long as the key does not expire under a
\* handler, no two are between taking and deleting it.
OneProcessor ==
    ~keyLapsed =>
        \A g, h \in Handlers : pc[g] \in Keyed /\ pc[h] \in Keyed => g = h

\* The gateway pays a withdrawal at most once, over crashes, lost answers and
\* retries, unless the key expired under a handler, or a retry asked after a
\* transfer that was still on its way or pending and sent another one, or the
\* withdrawal was cancelled between an attempt and a retry under way.
PaidOnce == ~keyLapsed /\ ~blind /\ ~raced => Cardinality(accepted) <= 1

\* A withdrawal cancelled (refunded) before any attempt, and not under a handler
\* that had listed it, is never paid.
CancelledNotPaid == status = "X" /\ ~raced => accepted = {}

\* An accepted transfer is never lost from sight: while the withdrawal is not
\* complete, the row names it, so that the next attempt asks after it.
AcceptedIsRecorded ==
    ~keyLapsed /\ ~blind /\ status = "A" => accepted \subseteq {transferid}

\* A completed withdrawal has a transfer the gateway accepted.
CompletedHasTransfer == status = "C" => accepted # {}
===============================================================================
