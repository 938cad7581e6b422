---------------------------- MODULE EventLifecycle ----------------------------
(***************************************************************************)
(* The update requests of one event: update() of probe.controller.js, and  *)
(* the cancellation of the event's contest (updateContest), which calls    *)
(* cancelEvent too but knows nothing of the event's update flag.           *)
(*                                                                         *)
(* A request is admitted if the flag in the Redis hash PROBES_UPDATE is    *)
(* unset; it then reads the event, and resets, cancels, settles or simply  *)
(* writes it.  The flag has no time to live: a request that fails leaves   *)
(* it set, and so do some early returns.                                   *)
(*                                                                         *)
(* Settlement.tla and EventCancel.tla model the two long operations; here  *)
(* each treats one user per step.  Positions are those of the event when   *)
(* trading ends: trading is the concern of RequestGuard.tla.               *)
(***************************************************************************)
EXTENDS FiniteSets

CONSTANTS
    Users,          \* the users with active calls on the event
    Updates,        \* update requests
    ContestCancels  \* updateContest requests with status CAN

Requests == Updates \union ContestCancels

\* A also stands for H: a halted event is frozen, settled and cancelled alike.
Statuses == {"A", "F", "C", "CAN", "I", "RST"}

\* What a request asks for; "C-" is C without a correct value, "A" stands for
\* every update that only edits the event.
Targets == {"A", "C", "C-", "CAN", "I", "RST"}

VARIABLES
    status,     \* the event's status
    flag,       \* the event's field of PROBES_UPDATE
    lock,       \* the lock probe_update_<id>: the set of its owner, or {}
    pc,         \* where each request is
    target,     \* what it asks for
    seen,       \* the status it read
    list,       \* the users it still has to credit or refund
    active,     \* users whose calls are active
    credited,   \* users with a settlement transaction
    refunded,   \* users with a cancellation refund
    raced,      \* history: a contest cancellation met an update in process
    creditedFirst, \* history: users credited when a cancellation began
    halfReset   \* history: a reset reversed the settlement and wrote no status yet

money == <<active, credited, refunded>>
history == <<raced, creditedFirst, halfReset>>
vars == <<status, flag, lock, pc, target, seen, list, money, history>>

Init ==
    /\ status = "A"
    /\ flag = FALSE
    /\ lock = {}
    /\ pc = [r \in Requests |-> "idle"]
    /\ target = [r \in Requests |-> "CAN"]
    /\ seen = [r \in Requests |-> "A"]
    /\ list = [r \in Requests |-> {}]
    /\ active = Users /\ credited = {} /\ refunded = {}
    /\ raced = FALSE /\ creditedFirst = {} /\ halfReset = FALSE

Working == {"admitted", "decide", "reset", "cancel", "refund", "settle", "pay", "write"}
InProcess(r) == pc[r] \in Working

GoTo(r, place) == pc' = [pc EXCEPT ![r] = place]

-------------------------------------------------------------------------------
(* Admission                                                                 *)

\* Mutant: the flag is read and set without the lock.
ArriveUnlocked(r, t) ==
    /\ pc[r] = "idle"
    /\ lock' = lock
    /\ target' = [target EXCEPT ![r] = t]
    /\ GoTo(r, "locked")
    /\ UNCHANGED <<status, flag, seen, list, money, history>>

\* The request takes the lock.
Arrive(r, t) ==
    /\ pc[r] = "idle" /\ lock = {}
    /\ lock' = {r}
    /\ target' = [target EXCEPT ![r] = t]
    /\ GoTo(r, "locked")
    /\ UNCHANGED <<status, flag, seen, list, money, history>>

\* "A request is already in process"
Refuse(r) ==
    /\ pc[r] = "locked" /\ flag
    /\ lock' = {}
    /\ GoTo(r, "done")
    /\ UNCHANGED <<status, flag, target, seen, list, money, history>>

\* The flag was unset.
Admit(r) ==
    /\ pc[r] = "locked" /\ ~flag
    /\ GoTo(r, "unset")
    /\ UNCHANGED <<status, flag, lock, target, seen, list, money, history>>

SetFlag(r) ==
    /\ pc[r] = "unset"
    /\ flag' = TRUE
    /\ lock' = {}
    /\ GoTo(r, "admitted")
    /\ raced' = (raced \/ \E c \in ContestCancels : InProcess(c))
    /\ UNCHANGED <<status, target, seen, list, money, creditedFirst, halfReset>>

\* The request ends and clears the flag.
End(r) == flag' = FALSE /\ GoTo(r, "done")

\* A settlement without a correct value is refused before the event is read.
RefuseInvalid(r) ==
    /\ pc[r] = "admitted" /\ target[r] = "C-"
    /\ End(r)
    /\ UNCHANGED <<status, lock, target, seen, list, money, history>>

ReadEvent(r) ==
    /\ pc[r] = "admitted" /\ target[r] # "C-"
    /\ seen' = [seen EXCEPT ![r] = status]
    /\ GoTo(r, "decide")
    /\ UNCHANGED <<status, flag, lock, target, list, money, history>>

-------------------------------------------------------------------------------
(* Deciding                                                                  *)

\* "Resettle the event first" and "Already event in status": the flag stays.
RefuseSettle(r) ==
    /\ pc[r] = "decide" /\ target[r] = "C" /\ seen[r] \in {"C", "CAN"}
    /\ GoTo(r, "done")
    /\ UNCHANGED <<status, flag, lock, target, seen, list, money, history>>

\* An event cancelled or inactive already: the answer is success.
NothingToCancel(r) ==
    /\ pc[r] = "decide" /\ target[r] \in {"CAN", "I"} /\ seen[r] \in {"CAN", "I"}
    /\ End(r)
    /\ UNCHANGED <<status, lock, target, seen, list, money, history>>

\* Probe.update with status F before the event is cancelled.
FreezeToCancel(r) ==
    /\ pc[r] = "decide" /\ target[r] \in {"CAN", "I"} /\ seen[r] \notin {"CAN", "I"}
    /\ status' = "F"
    /\ GoTo(r, "cancel")
    /\ UNCHANGED <<flag, lock, target, seen, list, money, history>>

\* Probe.update with status F before it is settled; the request waits then.
FreezeToSettle(r) ==
    /\ pc[r] = "decide" /\ target[r] = "C" /\ seen[r] \notin {"C", "CAN"}
    /\ status' = "F"
    /\ GoTo(r, "settle")
    /\ UNCHANGED <<flag, lock, target, seen, list, money, history>>

Edit(r) ==
    /\ pc[r] = "decide" /\ target[r] = "A"
    /\ GoTo(r, "write")
    /\ UNCHANGED <<status, flag, lock, target, seen, list, money, history>>

-------------------------------------------------------------------------------
(* Reset, cancellation and settlement                                        *)

\* handleEventReset: the settlement is reversed, or the reversal fails and the
\* error is logged.
Reverse(r) ==
    /\ pc[r] = "decide" /\ target[r] = "RST"
    /\ credited' \in {credited, {}}
    /\ GoTo(r, "reset")
    /\ halfReset' = TRUE
    /\ UNCHANGED <<status, flag, lock, target, seen, list, active, refunded, raced,
                   creditedFirst>>

FinishReset(r) ==
    /\ pc[r] = "reset"
    /\ status' = "RST"
    /\ End(r)
    /\ halfReset' = FALSE
    /\ UNCHANGED <<lock, target, seen, list, money, raced, creditedFirst>>

\* updateContest takes the events of status A, F or H.
ContestCancel(c) ==
    /\ pc[c] = "idle" /\ c \in ContestCancels /\ status \in {"A", "F"}
    /\ GoTo(c, "cancel")
    /\ raced' = (raced \/ \E r \in Updates : InProcess(r))
    /\ UNCHANGED <<status, flag, lock, target, seen, list, money, creditedFirst,
                   halfReset>>

\* getDistinctUsersCountInEvent
ListActive(r) ==
    /\ pc[r] = "cancel"
    /\ list' = [list EXCEPT ![r] = active]
    /\ creditedFirst' = creditedFirst \union credited
    /\ GoTo(r, "refund")
    /\ UNCHANGED <<status, flag, lock, target, seen, money, raced, halfReset>>

\* Mutant: the refunded calls stay active.
RefundUnmarked(r, u) ==
    /\ pc[r] = "refund" /\ u \in list[r]
    /\ list' = [list EXCEPT ![r] = @ \ {u}]
    /\ refunded' = refunded \union {u}
    /\ UNCHANGED <<status, flag, lock, pc, target, seen, active, credited, history>>

\* A user's calls are marked CN and refunded.
Refund(r, u) ==
    /\ pc[r] = "refund" /\ u \in list[r]
    /\ list' = [list EXCEPT ![r] = @ \ {u}]
    /\ active' = active \ {u}
    /\ refunded' = IF u \in active THEN refunded \union {u} ELSE refunded
    /\ UNCHANGED <<status, flag, lock, pc, target, seen, credited, history>>

\* updateProbeToCancel
MarkCancelled(r) ==
    /\ pc[r] = "refund" /\ list[r] = {}
    /\ status' = "CAN"
    /\ GoTo(r, IF r \in ContestCancels THEN "done" ELSE "write")
    /\ UNCHANGED <<flag, lock, target, seen, list, money, history>>

\* The forked settlement reads the active calls, none for an inactive event.
ListToSettle(r) ==
    /\ pc[r] = "settle"
    /\ list' = [list EXCEPT ![r] = IF seen[r] = "I" THEN {} ELSE active]
    /\ GoTo(r, "pay")
    /\ UNCHANGED <<status, flag, lock, target, seen, money, history>>

Credit(r, u) ==
    /\ pc[r] = "pay" /\ u \in list[r]
    /\ list' = [list EXCEPT ![r] = @ \ {u}]
    /\ credited' = credited \union {u}
    /\ UNCHANGED <<status, flag, lock, pc, target, seen, active, refunded, history>>

\* Mutant: the answer of the settlement process is not looked at.
SettledAnyway(r) ==
    /\ pc[r] = "pay"
    /\ GoTo(r, "write")
    /\ UNCHANGED <<status, flag, lock, target, seen, list, money, history>>

\* The settlement process answers without an error.
Settled(r) ==
    /\ pc[r] = "pay" /\ list[r] = {}
    /\ GoTo(r, "write")
    /\ UNCHANGED <<status, flag, lock, target, seen, list, money, history>>

\* The last Probe.update.
Write(r) ==
    /\ pc[r] = "write"
    /\ status' = target[r]
    /\ End(r)
    /\ UNCHANGED <<lock, target, seen, list, money, history>>

-------------------------------------------------------------------------------
(* Failures                                                                  *)

\* A step throws, the settlement process answers with an error, or the server
\* stops: whatever has been done stays done, and so does the flag.
Fail(r) ==
    /\ InProcess(r)
    /\ GoTo(r, "done")
    /\ UNCHANGED <<status, flag, lock, target, seen, list, money, history>>

\* External: an operator deletes the flag of a request that is gone.
OperatorClearsFlag ==
    /\ flag /\ \A r \in Updates : ~InProcess(r)
    /\ flag' = FALSE
    /\ UNCHANGED <<status, lock, pc, target, seen, list, money, history>>

UpdateStep(r) ==
    \/ \E t \in Targets : Arrive(r, t)
    \/ Refuse(r) \/ Admit(r) \/ SetFlag(r) \/ RefuseInvalid(r) \/ ReadEvent(r)
    \/ RefuseSettle(r) \/ NothingToCancel(r)
    \/ FreezeToCancel(r) \/ FreezeToSettle(r) \/ Edit(r)
    \/ Reverse(r) \/ FinishReset(r)
    \/ ListToSettle(r) \/ Settled(r) \/ Write(r)
    \/ \E u \in Users : Credit(r, u)

CancelStep(r) ==
    \/ ListActive(r) \/ MarkCancelled(r)
    \/ \E u \in Users : Refund(r, u)

Next ==
    \/ \E r \in Updates : UpdateStep(r)
    \/ \E c \in ContestCancels : ContestCancel(c)
    \/ \E r \in Requests : CancelStep(r) \/ Fail(r)
    \/ OperatorClearsFlag

Spec == Init /\ [][Next]_vars

-------------------------------------------------------------------------------
(* Properties *)

\* Every variable has its type.
TypeOK ==
    /\ status \in Statuses
    /\ flag \in BOOLEAN
    /\ lock \subseteq Updates
    /\ pc \in [Requests -> Working \union {"idle", "locked", "unset", "done"}]
    /\ target \in [Requests -> Targets]
    /\ seen \in [Requests -> Statuses]
    /\ list \in [Requests -> SUBSET Users]
    /\ active \subseteq Users /\ credited \subseteq Users /\ refunded \subseteq Users
    /\ raced \in BOOLEAN /\ creditedFirst \subseteq Users /\ halfReset \in BOOLEAN

\* At most one update of the event is in process, and the flag is set while one
\* is: nothing but the lock around two Redis calls makes reading and setting the
\* flag one step, and everything update does later relies on it.
OneUpdateAtATime ==
    /\ \A q, r \in Updates : InProcess(q) /\ InProcess(r) => q = r
    /\ (\E r \in Updates : InProcess(r)) => flag

\* A cancelled event is not frozen or completed again before it is reset or
\* edited, unless a contest cancellation met an update: the status update read
\* is still the event's when it acts on it.
CancelledNotSettled ==
    [][~raced /\ status = "CAN" => status' \notin {"F", "C"}]_vars

\* A user whose calls a cancellation refunded gets no settlement credit, however
\* the two fail and are repeated: only users credited before the cancellation
\* began (nothing keeps a settled event from being cancelled) have both, and
\* users of an event whose contest was cancelled during an update.
PaidOneWay == ~raced => credited \intersect refunded \subseteq creditedFirst

\* A completed event has credited all active calls, whatever failed and was
\* repeated on the way, unless a reset reversed the credits and failed before
\* it wrote the status.
CompleteIsPaid == status = "C" /\ ~halfReset => active \subseteq credited

\* A request answered "A request is already in process" has met one that is.
RefusedOnlyInProcess ==
    [][\A r \in Updates : Refuse(r) => \E q \in Updates : InProcess(q)]_vars
===============================================================================
