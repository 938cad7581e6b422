------------------------------ MODULE Withdrawal ------------------------------
(***************************************************************************)
(* The withdrawals of one user from the request to the gateway's answer:   *)
(* rows of the table redeem, which the user's request inserts, the         *)
(* dashboard processes and cancels, the gateway's callbacks complete or    *)
(* cancel, and the app's polls bring up to date.                           *)
(*                                                                         *)
(* RequestGuard has the keys that keep withdrawals and orders apart, and   *)
(* PayoutProcessing has how one row is sent to the gateway; here a row is  *)
(* sent in one step.  The period modelled is a day.                        *)
(* UserService.cancelRedeemRequest is external: it sets CAN and refunds,   *)
(* and whether it passes over a row that is CAN already is not known, so   *)
(* both are explored (guarded).                                            *)
(***************************************************************************)
EXTENDS Naturals, Sequences, FiniteSets

CONSTANTS
    Requests,   \* requests of the user, the gateway and the dashboard
    MaxRows,    \* bound on the withdrawals of the day
    None        \* no row, no request, no status

Rows == 1 .. MaxRows
Answers == {"pending", "success", "failed"}

\* The steps of each handler, and the gateway's withdrawals it is about.
Steps ==
    [putRedeemRequests   |-> <<"key", "active", "completed", "create">>,
     paykassmaPostback   |-> <<"told", "lock", "already", "apply">>,
     d24Notification     |-> <<"told", "lock", "already", "apply">>,
     cryptoPayoutHook    |-> <<"told", "lock", "update">>,
     confirmCryptoPayout |-> <<"confirm">>,
     cancelRedeemRequests|-> <<"cancel">>,
     getLastPaymentStatus|-> <<"last", "cached", "ask", "write">>]

CallbackOf ==
    [Paykassma |-> "paykassmaPostback", Direct24 |-> "d24Notification",
     triplea |-> "cryptoPayoutHook", Cashfree |-> "getLastPaymentStatus"]

VARIABLES
    kind,       \* per request, its handler
    pg,         \* the user's gateway
    guarded,    \* cancelRedeemRequest passes over rows that are CAN
    pc, at,     \* per request: idle, run, done; and its step
    target,     \* per request, the row it is about
    said,       \* per request, the gateway's answer it goes by
    redeem,     \* the rows: [status, pgstatus], in the order of their ids
    key,        \* put_redeem_req_<user>: the request that set it or None
    lock,       \* per row, updating_payout_<id>: the request that holds it or None
    cache,      \* per row, pg_payout_status_<id> or None
    cancelling, \* rows whose cancellation a callback has started and not awaited
    outcome,    \* external: per row, unsent, unconfirmed, pending, success, failed
    refunds,    \* per row, how often it was refunded
    lapsed,     \* history: the key expired under a request
    revived,    \* history: rows that a callback completed after their cancellation
    recalled,   \* history: rows the dashboard cancelled
    left        \* history: requests that ended with the lock held

fixed == <<kind, pg, guarded>>
keys == <<key, lock, cache>>
books == <<redeem, cancelling, outcome, refunds>>
history == <<lapsed, revived, recalled, left>>
vars == <<fixed, pc, at, target, said, keys, books, history>>

Init ==
    /\ pg \in DOMAIN CallbackOf
    /\ kind \in [Requests -> {"putRedeemRequests", "cancelRedeemRequests", CallbackOf[pg]}
                             \union {k \in {"confirmCryptoPayout"} : pg = "triplea"}]
    /\ guarded \in BOOLEAN
    /\ pc = [r \in Requests |-> "idle"] /\ at = [r \in Requests |-> 1]
    /\ target = [r \in Requests |-> None] /\ said = [r \in Requests |-> None]
    /\ redeem = <<>> /\ key = None
    /\ lock = [i \in Rows |-> None] /\ cache = [i \in Rows |-> None]
    /\ cancelling = {} /\ outcome = [i \in Rows |-> "unsent"]
    /\ refunds = [i \in Rows |-> 0]
    /\ lapsed = FALSE /\ revived = {} /\ recalled = {} /\ left = {}

Running(r) == pc[r] = "run"
IsAt(r, step) == Running(r) /\ Steps[kind[r]][at[r]] = step
End(r) == pc' = [pc EXCEPT ![r] = "done"] /\ UNCHANGED at
Go(r) ==
    IF at[r] = Len(Steps[kind[r]])
    THEN End(r)
    ELSE at' = [at EXCEPT ![r] = @ + 1] /\ UNCHANGED pc

Has(status) == \E i \in DOMAIN redeem : redeem[i].status = status
Set(i, status, pgstatus) == [redeem EXCEPT ![i] = [status |-> status, pgstatus |-> pgstatus]]

-------------------------------------------------------------------------------
(* putRedeemRequests: the checks after RequestGuard's and the order.  Every   *)
(* way out deletes the key, whoever set it.                                   *)

Arrive(r) ==
    /\ pc[r] = "idle"
    /\ pc' = [pc EXCEPT ![r] = "run"]
    /\ target' \in {[target EXCEPT ![r] = i] :
                       i \in IF kind[r] = "putRedeemRequests" THEN {None} ELSE DOMAIN redeem}
    /\ UNCHANGED <<fixed, at, said, keys, books, history>>

\* REQUEST_IN_PROGRESS, or setKey
TakeKey(r) ==
    /\ IsAt(r, "key")
    /\ IF key = None THEN key' = r /\ Go(r) ELSE End(r) /\ UNCHANGED key
    /\ UNCHANGED <<fixed, target, said, lock, cache, books, history>>

RefuseIf(r, condition) ==
    /\ IF condition THEN End(r) /\ key' = None ELSE Go(r) /\ UNCHANGED key
    /\ UNCHANGED <<fixed, target, said, lock, cache, books, history>>

\* 'Your last withdrawl request is already in Progress'
CheckActive(r) == IsAt(r, "active") /\ RefuseIf(r, Has("A"))

\* 'You can only request once in a day'
CheckCompleted(r) == IsAt(r, "completed") /\ RefuseIf(r, Has("C"))

\* createPayoutOrder: the row and its debit, or a refusal (bank, KYC, balance)
Create(r) ==
    /\ IsAt(r, "create")
    /\ key' = None
    /\ End(r)
    /\ \/ /\ Len(redeem) < MaxRows
          /\ redeem' = Append(redeem, [status |-> "A", pgstatus |-> None])
          /\ outcome' = [outcome EXCEPT ![Len(redeem) + 1] =
                            IF pg = "triplea" THEN "unconfirmed" ELSE @]
       \/ UNCHANGED <<redeem, outcome>>
    /\ UNCHANGED <<fixed, target, said, lock, cache, cancelling, refunds, history>>

\* confirmPayoutOrder of triplea, with which the payout begins
Confirm(r) ==
    /\ IsAt(r, "confirm")
    /\ outcome' = [outcome EXCEPT ![target[r]] = IF @ = "unconfirmed" THEN "pending" ELSE @]
    /\ End(r)
    /\ UNCHANGED <<fixed, target, said, keys, redeem, cancelling, refunds, history>>

-------------------------------------------------------------------------------
(* The gateway's callbacks *)

\* The postback's withdrawal_status, or getCashoutStatus, before the lock is taken
HearAnswer(r) ==
    /\ IsAt(r, "told") /\ outcome[target[r]] \in Answers
    /\ said' = [said EXCEPT ![r] = outcome[target[r]]]
    /\ Go(r)
    /\ UNCHANGED <<fixed, target, keys, books, history>>

Lock(r) ==
    /\ IsAt(r, "lock") /\ lock[target[r]] = None
    /\ lock' = [lock EXCEPT ![target[r]] = r]
    /\ Go(r)
    /\ UNCHANGED <<fixed, target, said, key, cache, books, history>>

Unlocked(r) == lock' = [lock EXCEPT ![target[r]] = None] /\ UNCHANGED left

\* 'Redeem Request Already Processed': for direct24 pgstatus is a description and
\* never 1
Already(r) ==
    /\ IsAt(r, "already")
    /\ LET row == redeem[target[r]]
       IN  IF pg = "Paykassma" /\ row.status = "C" /\ row.pgstatus = "success"
           THEN End(r) /\ Unlocked(r)
           ELSE Go(r) /\ UNCHANGED <<lock, left>>
    /\ UNCHANGED <<fixed, target, said, key, cache, books, lapsed, revived, recalled>>

\* status C, whatever the row is
Complete(r) ==
    /\ IsAt(r, "apply") /\ said[r] = "success"
    /\ redeem' = Set(target[r], "C", said[r])
    /\ revived' = revived \union {i \in {target[r]} : redeem[i].status = "CAN"}
    /\ Unlocked(r)
    /\ End(r)
    /\ UNCHANGED <<fixed, target, said, key, cache, cancelling, outcome, refunds, lapsed, recalled>>

\* Mutant: any status that is not a success cancels.
CancelUnlessSuccess(r) ==
    /\ IsAt(r, "apply") /\ said[r] # "success"
    /\ cancelling' = cancelling \union {target[r]}
    /\ left' = left \union {r}
    /\ End(r)
    /\ UNCHANGED <<fixed, target, said, keys, redeem, outcome, refunds, lapsed, revived, recalled>>

\* cancelRedeemRequest is not awaited, and the return leaves the lock behind
Cancel(r) ==
    /\ IsAt(r, "apply") /\ said[r] = "failed"
    /\ cancelling' = cancelling \union {target[r]}
    /\ left' = left \union {r}
    /\ End(r)
    /\ UNCHANGED <<fixed, target, said, keys, redeem, outcome, refunds, lapsed, revived, recalled>>

\* Mutant: an unknown status returns without its unlock, too.
UnknownStatusLocked(r) ==
    /\ IsAt(r, "apply") /\ said[r] = "pending"
    /\ End(r)
    /\ UNCHANGED <<fixed, target, said, keys, books, history>>

UnknownStatus(r) ==
    /\ IsAt(r, "apply") /\ said[r] = "pending"
    /\ Unlocked(r)
    /\ End(r)
    /\ UNCHANGED <<fixed, target, said, key, cache, books, lapsed, revived, recalled>>

\* External: payoutOrderStatusUpdate, under a lock that every way out releases
UpdateCrypto(r) ==
    /\ IsAt(r, "update")
    /\ IF said[r] = "success"
       THEN redeem' = Set(target[r], "C", "success") /\ UNCHANGED cancelling
       ELSE /\ cancelling' = cancelling \union {i \in {target[r]} : said[r] = "failed"}
            /\ UNCHANGED redeem
    /\ revived' = revived \union {i \in {target[r]} : said[r] = "success" /\ redeem[i].status = "CAN"}
    /\ Unlocked(r)
    /\ End(r)
    /\ UNCHANGED <<fixed, target, said, key, cache, outcome, refunds, lapsed, recalled>>

-------------------------------------------------------------------------------
(* Cancellation *)

\* External: UserService.cancelRedeemRequest on one row
CancelRow(i) ==
    IF guarded /\ redeem[i].status = "CAN"
    THEN UNCHANGED <<redeem, refunds>>
    ELSE /\ redeem' = Set(i, "CAN", redeem[i].pgstatus)
         /\ refunds' = [refunds EXCEPT ![i] = @ + 1]

CancelFromDashboard(r) ==
    /\ IsAt(r, "cancel")
    /\ CancelRow(target[r])
    /\ recalled' = recalled \union {target[r]}
    /\ End(r)
    /\ UNCHANGED <<fixed, target, said, keys, cancelling, outcome, lapsed, revived, left>>

CancelStarted ==
    /\ \E i \in cancelling : CancelRow(i) /\ cancelling' = cancelling \ {i}
    /\ UNCHANGED <<fixed, pc, at, target, said, keys, outcome, history>>

-------------------------------------------------------------------------------
(* The app's poll.  Only a row that is C is asked after, and only at Cashfree.*)

Last(r) ==
    /\ IsAt(r, "last")
    /\ IF target[r] = Len(redeem) /\ redeem[target[r]].status = "C"
          /\ redeem[target[r]].pgstatus \notin {"success", "failed"}
       THEN Go(r) ELSE End(r)
    /\ UNCHANGED <<fixed, target, said, keys, books, history>>

Cached(r) ==
    /\ IsAt(r, "cached")
    /\ IF cache[target[r]] # None THEN End(r) ELSE Go(r)
    /\ UNCHANGED <<fixed, target, said, keys, books, history>>

\* getPayoutStatusInCG
AskCashfree(r) ==
    /\ IsAt(r, "ask") /\ outcome[target[r]] \in Answers
    /\ said' = [said EXCEPT ![r] = outcome[target[r]]]
    /\ Go(r)
    /\ UNCHANGED <<fixed, target, keys, books, history>>

\* The answer is older than the row may be by now.
WriteStatus(r) ==
    /\ IsAt(r, "write")
    /\ redeem' = Set(target[r], redeem[target[r]].status, said[r])
    /\ cache' = [cache EXCEPT ![target[r]] = said[r]]
    /\ End(r)
    /\ UNCHANGED <<fixed, target, said, key, lock, cancelling, outcome, refunds, history>>

-------------------------------------------------------------------------------
(* Failures and the outside *)

\* A query throws.  putRedeemRequests deletes the key, cryptoPayoutHook unlocks;
\* the other callbacks leave the lock behind.
Throw(r) ==
    /\ Running(r) /\ at[r] > 1
    /\ End(r)
    /\ key' = IF kind[r] = "putRedeemRequests" THEN None ELSE key
    /\ LET held == {i \in Rows : lock[i] = r}
       IN  IF kind[r] = "cryptoPayoutHook"
           THEN lock' = [i \in Rows |-> IF i \in held THEN None ELSE lock[i]] /\ UNCHANGED left
           ELSE left' = left \union {q \in {r} : held # {}} /\ UNCHANGED lock
    /\ UNCHANGED <<fixed, target, said, cache, books, lapsed, revived, recalled>>

KeyExpire ==
    /\ key # None
    /\ key' = None
    /\ lapsed' = (lapsed \/ Running(key))
    /\ UNCHANGED <<fixed, pc, at, target, said, lock, cache, books, revived, recalled, left>>

LockExpire ==
    /\ \E i \in Rows : lock[i] # None /\ lock' = [lock EXCEPT ![i] = None]
    /\ UNCHANGED <<fixed, pc, at, target, said, key, cache, books, history>>

CacheExpire ==
    /\ \E i \in Rows : cache[i] # None /\ cache' = [cache EXCEPT ![i] = None]
    /\ UNCHANGED <<fixed, pc, at, target, said, key, lock, books, history>>

\* PayoutProcessing sends an active row and marks it C.
Send ==
    /\ \E i \in DOMAIN redeem :
        /\ redeem[i].status = "A" /\ outcome[i] = "unsent"
        /\ outcome' = [outcome EXCEPT ![i] = "pending"]
        /\ redeem' = Set(i, "C", redeem[i].pgstatus)
    /\ UNCHANGED <<fixed, pc, at, target, said, keys, cancelling, refunds, history>>

\* The gateway decides.
Decide ==
    /\ \E i \in Rows : outcome[i] = "pending"
          /\ \E how \in {"success", "failed"} : outcome' = [outcome EXCEPT ![i] = how]
    /\ UNCHANGED <<fixed, pc, at, target, said, keys, redeem, cancelling, refunds, history>>

Step(r) ==
    \/ Arrive(r) \/ TakeKey(r) \/ CheckActive(r) \/ CheckCompleted(r) \/ Create(r) \/ Confirm(r)
    \/ HearAnswer(r) \/ Lock(r) \/ Already(r) \/ Complete(r) \/ Cancel(r) \/ UnknownStatus(r)
    \/ UpdateCrypto(r) \/ CancelFromDashboard(r) \/ Last(r) \/ Cached(r) \/ AskCashfree(r)
    \/ WriteStatus(r) \/ Throw(r)

Next ==
    \/ \E r \in Requests : Step(r)
    \/ CancelStarted \/ KeyExpire \/ LockExpire \/ CacheExpire \/ Send \/ Decide

Spec == Init /\ [][Next]_vars

-------------------------------------------------------------------------------
(* Properties *)

\* Every variable has its type.
TypeOK ==
    /\ kind \in [Requests -> DOMAIN Steps] /\ pg \in DOMAIN CallbackOf /\ guarded \in BOOLEAN
    /\ pc \in [Requests -> {"idle", "run", "done"}]
    /\ at \in [Requests -> Nat] /\ \A r \in Requests : at[r] \in DOMAIN Steps[kind[r]]
    /\ target \in [Requests -> Rows \union {None}]
    /\ said \in [Requests -> Answers \union {None}]
    /\ redeem \in Seq([status : {"A", "C", "CAN"}, pgstatus : Answers \union {None}])
    /\ Len(redeem) <= MaxRows
    /\ key \in Requests \union {None} /\ lock \in [Rows -> Requests \union {None}]
    /\ cache \in [Rows -> Answers \union {None}]
    /\ cancelling \subseteq Rows /\ refunds \in [Rows -> Nat]
    /\ outcome \in [Rows -> Answers \union {"unsent", "unconfirmed"}]
    /\ lapsed \in BOOLEAN /\ revived \subseteq Rows /\ recalled \subseteq Rows
    /\ left \subseteq Requests

\* A withdrawal the gateway has paid is refunded only by the dashboard: callbacks,
\* late, repeated and overlapping, do not do it.
PaidNotRefunded ==
    \A i \in DOMAIN redeem : outcome[i] = "success" /\ refunds[i] > 0 => i \in recalled

\* A failed withdrawal is refunded once, where cancelRedeemRequest passes over
\* cancelled rows: however often the gateway calls back and whatever the lock, which
\* the cancelling callback leaves behind, does.
RefundedOnce ==
    guarded => \A i \in DOMAIN redeem : refunds[i] > 1 => i \in revived

\* The lock of a withdrawal outlives the request that took it only when that request
\* cancelled the withdrawal or threw: later callbacks wait until it expires.
LockIsReleased ==
    \A i \in Rows : lock[i] # None => Running(lock[i]) \/ lock[i] \in left

\* A withdrawal is refunded when it failed and once: a late or repeated callback
\* neither refunds what was paid nor refunds twice.
RefundedWhenDue == PaidNotRefunded /\ RefundedOnce
===============================================================================
