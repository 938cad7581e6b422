----------------------------- MODULE ContestUpdate -----------------------------
(***************************************************************************)
(* One fantasy contest: users enter it for a fee (enterContest) and the    *)
(* operators close it (update, contest.controller.js), either settling it  *)
(* (C: one payment per rank bracket) or cancelling it (CAN: the events of  *)
(* the contest are cancelled and every entry fee is refunded).             *)
(*                                                                         *)
(* update means to admit one request at a time with the Redis flag         *)
(* CONTEST_UPDATE, tested under a lock, but it deletes the flag just       *)
(* before it tests it.  Nothing else tells a second request that a payment *)
(* has been made: the status is read once, at the start, and written after *)
(* the payments.  The properties say what the missing guard leaves: which  *)
(* mistakes still cannot happen, and which need overlapping or failed runs.*)
(*                                                                         *)
(* The three Redis calls under the lock take far less than its 60 s, so    *)
(* the lock does not expire here.  The read replica is taken as current.   *)
(* A failing insert (contest_history) is one of the cases of Fail.         *)
(***************************************************************************)
EXTENDS Integers, FiniteSets

CONSTANTS
    Users,
    Updates,        \* update requests the operators may send
    Brackets        \* number of rank brackets paid (format2 pays in one)

\* An update sets the status: back to A (an edit), C or CAN.
Statuses == {"A", "C", "CAN"}
Closed == {"C", "CAN"}
\* The steps of an update between setting the flag and clearing it.
Running == {"read", "list", "cancelEvents", "refund", "mark", "checkEvents", "pay",
            "write", "clear"}

VARIABLES
    status,     \* contest.status
    events,     \* status of the contest's events: A until settled or cancelled
    flag,       \* the hash field CONTEST_UPDATE of this contest is 'true'
    lock,       \* {} or the set of the update that holds the lock
    pc, want,   \* per update: its step and the status it asks for
    listed,     \* per update: the users it has read
    bracket,    \* per update: the rank bracket it pays next
    joining,    \* per user: enterContest's step
    entered,    \* contest_user
    late,       \* history: users who entered after a refund list was read
    refunded,   \* history: entry fee refunds per user
    prizes,     \* history: payments per rank bracket
    overlap,    \* history: two updates have run at the same time
    broken,     \* history: an update failed or stopped after a payment
    reversed    \* history: an event of the contest has been reset

vars == <<status, events, flag, lock, pc, want, listed, bracket, joining, entered, late,
          refunded, prizes, overlap, broken, reversed>>
contest == <<status, events>>
history == <<late, refunded, prizes, overlap, broken, reversed>>
users == <<joining, entered>>

Init ==
    /\ status = "A" /\ events = "A"
    /\ flag = FALSE /\ lock = {}
    /\ pc = [r \in Updates |-> "idle"]
    /\ want \in [Updates -> Statuses]
    /\ listed = [r \in Updates |-> {}]
    /\ bracket = [r \in Updates |-> 1]
    /\ joining = [u \in Users |-> "out"]
    /\ entered = {} /\ late = {}
    /\ refunded = [u \in Users |-> 0]
    /\ prizes = [b \in 1 .. Brackets |-> 0]
    /\ overlap = FALSE /\ broken = FALSE /\ reversed = FALSE

Active(r) == pc[r] \in Running
Goto(r, step) == pc' = [pc EXCEPT ![r] = step]
Clear(r) == flag' = FALSE /\ Goto(r, "done")

-------------------------------------------------------------------------------
(* The guard                                                                 *)

Lock(r) ==
    /\ pc[r] = "idle" /\ lock = {}
    /\ lock' = {r}
    /\ Goto(r, "delete")
    /\ UNCHANGED <<contest, flag, want, listed, bracket, users, history>>

DeleteFlag(r) ==
    /\ pc[r] = "delete"
    /\ flag' = FALSE
    /\ Goto(r, "test")
    /\ UNCHANGED <<contest, lock, want, listed, bracket, users, history>>

\* 'A request is already in process': no request meets this answer, because
\* DeleteFlag has just been taken under the same lock.
TestFlag(r) ==
    /\ pc[r] = "test"
    /\ flag' = TRUE
    /\ lock' = lock \ {r}
    /\ Goto(r, IF flag THEN "done" ELSE "read")
    /\ overlap' = (overlap \/ (~flag /\ \E q \in Updates \ {r} : Active(q)))
    /\ UNCHANGED <<contest, want, listed, bracket, users, late, refunded, prizes,
                   broken, reversed>>

-------------------------------------------------------------------------------
(* The work                                                                  *)

FirstStep(s) == IF s = "A" THEN "write" ELSE IF s = "C" THEN "checkEvents" ELSE "list"

\* Mutant: only a settled contest is refused.
ReadUnlessSettled(r) ==
    /\ pc[r] = "read"
    /\ IF status = "C" THEN Clear(r) ELSE Goto(r, FirstStep(want[r])) /\ flag' = flag
    /\ UNCHANGED <<contest, lock, want, listed, bracket, users, history>>

ReadContest(r) ==
    /\ pc[r] = "read"
    /\ IF status \in Closed THEN Clear(r) ELSE Goto(r, FirstStep(want[r])) /\ flag' = flag
    /\ UNCHANGED <<contest, lock, want, listed, bracket, users, history>>

\* Mutant: the events of the contest may still be open.
CheckNothing(r) ==
    /\ pc[r] = "checkEvents"
    /\ Goto(r, "list") /\ flag' = flag
    /\ UNCHANGED <<contest, lock, want, listed, bracket, users, history>>

\* 'Please settle all the events of this Contest first'
CheckEvents(r) ==
    /\ pc[r] = "checkEvents"
    /\ IF events = "A" THEN Clear(r) ELSE Goto(r, "list") /\ flag' = flag
    /\ UNCHANGED <<contest, lock, want, listed, bracket, users, history>>

\* Nobody to pay: the status is written at once.
ListNobody(r) ==
    /\ pc[r] = "list" /\ entered = {}
    /\ status' = want[r]
    /\ Clear(r)
    /\ UNCHANGED <<events, lock, want, listed, bracket, users, history>>

ListUsers(r) ==
    /\ pc[r] = "list" /\ entered # {}
    /\ listed' = [listed EXCEPT ![r] = entered]
    /\ Goto(r, IF want[r] = "C" THEN "pay" ELSE "cancelEvents")
    /\ UNCHANGED <<contest, flag, lock, want, bracket, users, history>>

\* Nobody has traded, or the winner percentage rounds down to no winner.
NoWinners(r) ==
    /\ pc[r] = "pay" /\ bracket[r] = 1
    /\ status' = "C"
    /\ Clear(r)
    /\ UNCHANGED <<events, lock, want, listed, bracket, users, history>>

\* Mutant: nothing is left to do when the events are closed already.
CancelOpenEvents(r) ==
    /\ pc[r] = "cancelEvents"
    /\ events' = IF events = "A" THEN "CAN" ELSE events
    /\ Goto(r, IF events = "A" THEN "refund" ELSE "mark")
    /\ UNCHANGED <<status, flag, lock, want, listed, bracket, users, history>>

\* cancelEvent (EventCancel.tla) for the events that are A, F or H
CancelEvents(r) ==
    /\ pc[r] = "cancelEvents"
    /\ events' = IF events = "A" THEN "CAN" ELSE events
    /\ Goto(r, "refund")
    /\ UNCHANGED <<status, flag, lock, want, listed, bracket, users, history>>

\* One executeTransactions call refunds the listed users.
RefundEntries(r) ==
    /\ pc[r] = "refund"
    /\ refunded' = [u \in Users |-> refunded[u] + IF u \in listed[r] THEN 1 ELSE 0]
    /\ Goto(r, "mark")
    /\ UNCHANGED <<contest, flag, lock, want, listed, bracket, users, late, prizes,
                   overlap, broken, reversed>>

\* updateContestStatus, then the flag is deleted for the first time.
MarkCancelled(r) ==
    /\ pc[r] = "mark"
    /\ status' = "CAN"
    /\ flag' = FALSE
    /\ Goto(r, "write")
    /\ UNCHANGED <<events, lock, want, listed, bracket, users, history>>

\* Mutant: the next bracket is taken after the last one, too.
PayLastAgain(r) ==
    /\ pc[r] = "pay"
    /\ prizes' = [prizes EXCEPT ![bracket[r]] = @ + 1]
    /\ IF bracket[r] = Brackets /\ prizes[Brackets] > 0
       THEN Goto(r, "write") /\ bracket' = bracket
       ELSE bracket' = [bracket EXCEPT ![r] = IF @ = Brackets THEN @ ELSE @ + 1] /\ pc' = pc
    /\ UNCHANGED <<contest, flag, lock, want, listed, users, late, refunded, overlap,
                   broken, reversed>>

\* One executeTransactions call pays the winners of a rank bracket.
PayBracket(r) ==
    /\ pc[r] = "pay"
    /\ prizes' = [prizes EXCEPT ![bracket[r]] = @ + 1]
    /\ IF bracket[r] = Brackets
       THEN Goto(r, "write") /\ bracket' = bracket
       ELSE bracket' = [bracket EXCEPT ![r] = @ + 1] /\ pc' = pc
    /\ UNCHANGED <<contest, flag, lock, want, listed, users, late, refunded, overlap,
                   broken, reversed>>

\* updateContest writes the status asked for whatever it is by now.
WriteContest(r) ==
    /\ pc[r] = "write"
    /\ status' = want[r]
    /\ Goto(r, "clear")
    /\ UNCHANGED <<events, flag, lock, want, listed, bracket, users, history>>

ClearFlag(r) ==
    /\ pc[r] = "clear"
    /\ Clear(r)
    /\ UNCHANGED <<contest, lock, want, listed, bracket, users, history>>

\* The update has paid something and not written the status.
HasPaid(r) == bracket[r] > 1 \/ pc[r] = "mark" \/ (pc[r] = "write" /\ want[r] = "C")

\* An awaited call throws: the catch clears the flag.
Fail(r) ==
    /\ Active(r)
    /\ Clear(r)
    /\ broken' = (broken \/ HasPaid(r))
    /\ UNCHANGED <<contest, lock, want, listed, bracket, users, late, refunded, prizes,
                   overlap, reversed>>

\* The process stops and the updates with it; Redis keeps the flag.
Crash ==
    /\ \E r \in Updates : pc[r] \notin {"idle", "done"}
    /\ pc' = [r \in Updates |-> IF pc[r] = "idle" THEN "idle" ELSE "done"]
    /\ lock' = {}
    /\ broken' = (broken \/ \E r \in Updates : Active(r) /\ HasPaid(r))
    /\ UNCHANGED <<contest, flag, want, listed, bracket, users, late, refunded, prizes,
                   overlap, reversed>>

-------------------------------------------------------------------------------
(* The users, and the events of the contest                                  *)

\* 'Cannot enter a closed contest': the status C is refused.
EnterRead(u) ==
    /\ joining[u] = "out" /\ status # "C"
    /\ joining' = [joining EXCEPT ![u] = "read"]
    /\ UNCHANGED <<contest, flag, lock, pc, want, listed, bracket, entered, history>>

\* A transaction debits the fee and inserts the user.
EnterCommit(u) ==
    /\ joining[u] = "read"
    /\ joining' = [joining EXCEPT ![u] = "in"]
    /\ entered' = entered \union {u}
    /\ late' = IF status = "CAN" \/ \E r \in Updates : want[r] = "CAN" /\ listed[r] # {}
               THEN late \union {u} ELSE late
    /\ UNCHANGED <<contest, flag, lock, pc, want, listed, bracket, refunded, prizes,
                   overlap, broken, reversed>>

\* The events are settled one by one (Settlement.tla), here in one step.
SettleEvents ==
    /\ events = "A" /\ events' = "C"
    /\ UNCHANGED <<status, flag, lock, pc, want, listed, bracket, users, history>>

\* A reset of a settled event (EventLifecycle.tla), once.
ResetEvents ==
    /\ events = "C" /\ ~reversed
    /\ events' = "A" /\ reversed' = TRUE
    /\ UNCHANGED <<status, flag, lock, pc, want, listed, bracket, users, late, refunded,
                   prizes, overlap, broken>>

UpdateStep(r) ==
    \/ Lock(r) \/ DeleteFlag(r) \/ TestFlag(r)
    \/ ReadContest(r) \/ CheckEvents(r) \/ ListNobody(r) \/ ListUsers(r)
    \/ NoWinners(r) \/ CancelEvents(r) \/ RefundEntries(r) \/ MarkCancelled(r)
    \/ PayBracket(r) \/ WriteContest(r) \/ ClearFlag(r) \/ Fail(r)

Next ==
    \/ \E r \in Updates : UpdateStep(r)
    \/ \E u \in Users : EnterRead(u) \/ EnterCommit(u)
    \/ Crash \/ SettleEvents \/ ResetEvents

Spec == Init /\ [][Next]_vars

-------------------------------------------------------------------------------
(* The state has its types. *)
TypeOK ==
    /\ status \in Statuses /\ events \in Statuses
    /\ flag \in BOOLEAN /\ lock \in SUBSET Updates
    /\ pc \in [Updates -> Running \union {"idle", "delete", "test", "done"}]
    /\ want \in [Updates -> Statuses]
    /\ listed \in [Updates -> SUBSET Users]
    /\ bracket \in [Updates -> 1 .. Brackets]
    /\ joining \in [Users -> {"out", "read", "in"}]
    /\ entered \in SUBSET Users /\ late \in SUBSET entered
    /\ refunded \in [Users -> Nat] /\ prizes \in [1 .. Brackets -> Nat]
    /\ overlap \in BOOLEAN /\ broken \in BOOLEAN /\ reversed \in BOOLEAN

(* A rank bracket is paid twice only when two updates ran at the same time or
   one stopped between its first payment and the end. *)
PrizesPaidOnce ==
    \A b \in 1 .. Brackets : prizes[b] > 1 => overlap \/ broken

(* Under the same proviso prizes and refunds exclude each other, although the
   status that should exclude them is read first and written last. *)
PaidOneWay ==
    (\E b \in 1 .. Brackets : prizes[b] > 0) /\ (\E u \in Users : refunded[u] > 0)
        => overlap \/ broken

(* A cancelled contest has refunded everyone who had entered when the refund
   list was read; those who enter later are never refunded. *)
CancelledRefundsEntries ==
    status = "CAN" => \A u \in entered \ late : refunded[u] > 0

(* Prizes are paid on events that are all settled or cancelled; only a reset can
   open an event of a contest that has paid, which nothing prevents. *)
PrizesAfterEvents ==
    (\E b \in 1 .. Brackets : prizes[b] > 0) => events # "A" \/ reversed

(* A closed contest keeps its status unless two updates have overlapped, in
   which case a stale edit can open it again. *)
ClosedStaysClosed == [][(status \in Closed) => status' = status \/ overlap]_vars

(* 'A request is already in process': while one update runs no other is
   admitted.  The code does not keep this. *)
OneUpdateAtATime == Cardinality({r \in Updates : Active(r)}) <= 1

(* 'Cannot enter a closed contest', with closed meaning C or CAN as in the
   query of models/contest.js: no user starts to enter a closed contest.  The code
   does not keep this for CAN. *)
NoEntryWhenClosed ==
    [][\A u \in Users : joining'[u] # joining[u] /\ joining[u] = "out" => status \notin Closed]_vars
================================================================================
