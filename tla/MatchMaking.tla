------------------------------ MODULE MatchMaking ------------------------------
(***************************************************************************)
(* The automated market makers (market.make.controller.js, version v1, and *)
(* market.maker.v2.controller.js): a scheduler outside the repository runs *)
(* them again and again; each run starts a task for every active event of  *)
(* a register, which places orders through the server's own putcall.       *)
(*                                                                         *)
(* The register is one JSON object in Redis.  The process keeps the copy   *)
(* of the last run in a global variable, which tasks change and write back *)
(* as a whole; the dashboard's requests read the object, change it and     *)
(* write it as a whole.  runningEvents, another global, is to keep a       *)
(* second task off an event.  Every order costs one unit here.             *)
(***************************************************************************)
EXTENDS Naturals, FiniteSets

CONSTANTS
    Events,     \* events of the register
    Requests,   \* requests of the dashboard
    Limits,     \* investment limits
    MaxOrders,  \* bound on the open orders a task finds
    MaxSpent,   \* bound on the orders placed for an event
    None        \* no entry, no copy

\* An event may have two tasks at most here: a run that would start a third waits.
Slots == Events \X {1, 2}
Entry == [on : BOOLEAN, limit : Limits, invested : Nat]
Free == [at |-> "free", left |-> 0, invested |-> 0, copy |-> None]
Kinds == {"add", "update", "delete"}

VARIABLES
    version,    \* v1 or v2
    stored,     \* the register in Redis: per event its entry or None
    memory,     \* eventData
    running,    \* runningEvents
    cron,       \* what a run has read and not assigned yet, or None
    task,       \* per slot: where it is, the orders left, the investment with its order
    request,    \* per request: its kind, event, step and copy of the register
    spent,      \* history: per event, the orders of v1 since it was added
    ceiling,    \* history: per event, the highest limit since then
    lost,       \* history: a copy replaced a register it had not been read from
    uncertain,  \* history: events with an order whose answer the task has not seen
    released,   \* history: events taken out of runningEvents under a task that goes on
    left        \* history: events whose task ended without clearing runningEvents

history == <<spent, ceiling, lost, uncertain, released, left>>
vars == <<version, stored, memory, running, cron, task, request, history>>

Empty == [e \in Events |-> None]

Init ==
    /\ version \in {"v1", "v2"}
    /\ stored = Empty /\ memory = Empty
    /\ running = {} /\ cron = None
    /\ task = [s \in Slots |-> Free]
    /\ request \in [Requests -> [kind : Kinds, event : Events, at : {"idle"}, copy : {None}]]
    /\ spent = [e \in Events |-> 0] /\ ceiling = [e \in Events |-> 0]
    /\ lost = FALSE /\ uncertain = {} /\ released = {} /\ left = {}

Busy(e) == {s \in Slots : s[1] = e /\ task[s].at # "free"}
Has(register, e) == register[e] # None
Put(register, e, entry) == [register EXCEPT ![e] = entry]

At(s, place) == task[s].at = place
Move(s, place) == task' = [task EXCEPT ![s].at = place]
End(s) == task' = [task EXCEPT ![s] = Free]

\* The task ends and leaves the event in runningEvents, or takes it out.
Abandon(s) == End(s) /\ left' = left \union {s[1]} /\ UNCHANGED running
Close(s) == End(s) /\ running' = running \ {s[1]} /\ UNCHANGED left

\* A copy becomes the register.
Overwrite(copy, register) ==
    /\ stored' = register
    /\ lost' = (lost \/ copy # stored)

-------------------------------------------------------------------------------
(* A run: runMatchMaking, runMarketMakerV2 *)

RunReads ==
    /\ cron = None
    /\ cron' = stored
    /\ UNCHANGED <<version, stored, memory, running, task, request, history>>

Due == {e \in Events : Has(cron, e) /\ cron[e].on /\ e \notin running}
FreeSlot(e) == IF task[<<e, 1>>].at = "free" THEN <<e, 1>> ELSE <<e, 2>>

RunStarts ==
    /\ cron # None
    /\ \A e \in Due : Cardinality(Busy(e)) < 2
    /\ memory' = cron
    /\ cron' = None
    /\ lost' = (lost \/ cron # stored)
    /\ task' = [s \in Slots |-> IF \E e \in Due : s = FreeSlot(e)
                                THEN [Free EXCEPT !.at = "list"] ELSE task[s]]
    /\ running' = running \union Due
    /\ UNCHANGED <<version, stored, request, spent, ceiling, uncertain, released, left>>

-------------------------------------------------------------------------------
(* The tasks *)

\* The open orders are listed (v1), the event's end and the active calls (v2).
List(s) ==
    /\ At(s, "list")
    /\ \E n \in 0 .. MaxOrders :
          task' = [task EXCEPT ![s].at = IF version = "v1" THEN "process" ELSE "send", ![s].left = n]
    /\ UNCHANGED <<version, stored, memory, running, cron, request, history>>

\* A query throws: the event is taken out of runningEvents.
ListFails(s) ==
    /\ At(s, "list")
    /\ Close(s)
    /\ UNCHANGED <<version, stored, memory, cron, request, spent, ceiling, lost, uncertain, released>>

\* v2: the event is closed or about to end, or that cannot be read
NotDue(s) ==
    /\ At(s, "list") /\ version = "v2"
    /\ Move(s, "forget")
    /\ UNCHANGED <<version, stored, memory, running, cron, request, history>>

\* Mutant: an order is chosen without looking at the limit.
ChooseAny(s) ==
    LET e == s[1] IN
    /\ At(s, "process") /\ Has(memory, e) /\ memory[e].on /\ task[s].left > 0
    /\ task' = [task EXCEPT ![s] = [at |-> "send", left |-> @.left - 1,
                                    invested |-> memory[e].invested + 1, copy |-> None]]
    /\ UNCHANGED <<version, stored, memory, running, cron, request, history>>

\* processOpenOrders of v1: an order within the limit is chosen and the numbers
\* with it are computed.
Choose(s) ==
    LET e == s[1] IN
    /\ At(s, "process") /\ Has(memory, e) /\ memory[e].on /\ task[s].left > 0
    /\ memory[e].invested + 1 <= memory[e].limit
    /\ task' = [task EXCEPT ![s] = [at |-> "send", left |-> @.left - 1,
                                    invested |-> memory[e].invested + 1, copy |-> None]]
    /\ UNCHANGED <<version, stored, memory, running, cron, request, history>>

\* No order, or none within the limit
NothingToDo(s) ==
    LET e == s[1] IN
    /\ At(s, "process") /\ Has(memory, e) /\ memory[e].on
    /\ task[s].left = 0 \/ memory[e].invested + 1 > memory[e].limit
    /\ Close(s)
    /\ UNCHANGED <<version, stored, memory, cron, request, spent, ceiling, lost, uncertain, released>>

\* The event is paused, or no longer there (a TypeError nobody catches): the task
\* returns with the event in runningEvents.
Paused(s) ==
    LET e == s[1] IN
    /\ At(s, "process") /\ (Has(memory, e) => ~memory[e].on)
    /\ Abandon(s)
    /\ UNCHANGED <<version, stored, memory, cron, request, spent, ceiling, lost, uncertain, released>>

Placed(e) == spent[e] < MaxSpent /\ spent' = [spent EXCEPT ![e] = @ + 1]

\* v1: the order is placed; updateNumbersForEvent changes eventData, which is stored.
SendV1(s) ==
    LET e == s[1] IN
    /\ At(s, "send") /\ version = "v1"
    /\ Placed(e)
    /\ IF Has(memory, e)
       THEN /\ memory' = Put(memory, e, [memory[e] EXCEPT !.invested = task[s].invested])
            /\ Overwrite(memory, memory')
            /\ Move(s, "process")
            /\ UNCHANGED <<running, left>>
       ELSE Abandon(s) /\ UNCHANGED <<memory, stored, lost>>
    /\ UNCHANGED <<version, cron, request, ceiling, uncertain, released>>

\* v2: one order after the other
SendV2(s) ==
    /\ At(s, "send") /\ version = "v2"
    /\ IF task[s].left = 0
       THEN Close(s)
       ELSE /\ task' = [task EXCEPT ![s].left = @ - 1]
            /\ UNCHANGED <<running, left>>
    /\ UNCHANGED <<version, stored, memory, cron, request, spent, ceiling, lost, uncertain, released>>

\* 'Request failed with status code 500': the order may be placed all the same.
SendFails(s) ==
    LET e == s[1] IN
    /\ At(s, "send")
    /\ \/ version = "v1" /\ Placed(e) /\ uncertain' = uncertain \union {e}
       \/ UNCHANGED <<spent, uncertain>>
    /\ IF version = "v1" THEN Move(s, "process") /\ UNCHANGED <<running, left>> ELSE Close(s)
    /\ UNCHANGED <<version, stored, memory, cron, request, ceiling, lost, released>>

\* MARKET_CLOSED_BUY
MarketClosed(s) ==
    /\ At(s, "send")
    /\ running' = running \ {s[1]}
    /\ Move(s, "forget")
    /\ released' = released \union {s[1]}
    /\ UNCHANGED <<version, stored, memory, cron, request, spent, ceiling, lost, uncertain, left>>

\* Any other answer pauses the event.
Pause(s) ==
    LET e == s[1] IN
    /\ At(s, "send")
    /\ IF Has(memory, e)
       THEN /\ memory' = Put(memory, e, [memory[e] EXCEPT !.on = FALSE])
            /\ Overwrite(memory, memory')
            /\ running' = running \ {e}
            /\ IF version = "v1"
               THEN Move(s, "process") /\ released' = released \union {e}
               ELSE End(s) /\ UNCHANGED released
            /\ UNCHANGED left
       ELSE /\ IF version = "v1" THEN Abandon(s) ELSE Close(s)
            /\ UNCHANGED <<stored, memory, lost, released>>
    /\ UNCHANGED <<version, cron, request, spent, ceiling, uncertain>>

Without(register, e) == Put(register, e, None)

\* deleteEventData: the register is read, and then assigned and written without e.
ForgetReads(s) ==
    /\ At(s, "forget")
    /\ task' = [task EXCEPT ![s].at = "forgotten", ![s].copy = stored]
    /\ UNCHANGED <<version, stored, memory, running, cron, request, history>>

\* v1 goes on with no orders and throws, for the event is not there.
Forget(s) ==
    LET e == s[1] IN
    /\ At(s, "forgotten")
    /\ memory' = Without(task[s].copy, e)
    /\ Overwrite(task[s].copy, memory')
    /\ running' = running \ {e}
    /\ End(s)
    /\ released' = released \union {x \in {e} : Busy(e) # {s}}
    /\ UNCHANGED <<version, cron, request, spent, ceiling, uncertain, left>>

Task(s) ==
    \/ List(s) \/ ListFails(s) \/ NotDue(s) \/ Choose(s) \/ NothingToDo(s) \/ Paused(s)
    \/ SendV1(s) \/ SendV2(s) \/ SendFails(s) \/ MarketClosed(s) \/ Pause(s)
    \/ ForgetReads(s) \/ Forget(s)

-------------------------------------------------------------------------------
(* The dashboard *)

\* getEventData; 'Duplicate Record' and NOT_FOUND
Ask(r) ==
    LET q == request[r] IN
    /\ q.at = "idle"
    /\ request' = [request EXCEPT ![r].at = IF Has(stored, q.event) = (q.kind = "add")
                                            THEN "done" ELSE "asked",
                                  ![r].copy = stored]
    /\ UNCHANGED <<version, stored, memory, running, cron, task, history>>

AddEntry(r, limit) ==
    LET e == request[r].event IN
    /\ request[r].at = "asked" /\ request[r].kind = "add"
    /\ Overwrite(request[r].copy,
                 Put(request[r].copy, e, [on |-> TRUE, limit |-> limit, invested |-> 0]))
    /\ ceiling' = [ceiling EXCEPT ![e] = limit]
    /\ spent' = [spent EXCEPT ![e] = 0]
    /\ request' = [request EXCEPT ![r].at = "done", ![r].copy = None]
    /\ UNCHANGED <<version, memory, running, cron, task, uncertain, released, left>>

\* addEventToMatchMaking
AddV1(r) == version = "v1" /\ \E limit \in Limits : AddEntry(r, limit)

\* addEventToMarketMaker: v2 has no limits.
AddV2(r) == version = "v2" /\ AddEntry(r, CHOOSE limit \in Limits : TRUE)

UpdateEntry(r, new) ==
    LET e == request[r].event IN
    /\ request[r].at = "asked" /\ request[r].kind = "update"
    /\ Overwrite(request[r].copy, Put(request[r].copy, e, new))
    /\ ceiling' = [ceiling EXCEPT ![e] = IF new.limit > @ THEN new.limit ELSE @]
    /\ request' = [request EXCEPT ![r].at = "done", ![r].copy = None]
    /\ UNCHANGED <<version, memory, running, cron, task, spent, uncertain, released, left>>

\* What the request has of its event
Mine(r) == request[r].copy[request[r].event]

\* updateMatchMakingEventData: the limit, the status or both
UpdateV1(r) ==
    /\ version = "v1" /\ request[r].at = "asked"
    /\ \E b \in BOOLEAN, l \in Limits : UpdateEntry(r, [Mine(r) EXCEPT !.on = b, !.limit = l])

\* updateMarketMakerEventData: the status (or the time to stop)
UpdateV2(r) ==
    /\ version = "v2" /\ request[r].at = "asked"
    /\ \E b \in BOOLEAN : UpdateEntry(r, [Mine(r) EXCEPT !.on = b])

\* deleteEventData again: it reads the register a second time.
DeleteReads(r) ==
    /\ request[r].at = "asked" /\ request[r].kind = "delete"
    /\ request' = [request EXCEPT ![r].at = "reread", ![r].copy = stored]
    /\ UNCHANGED <<version, stored, memory, running, cron, task, history>>

Delete(r) ==
    LET e == request[r].event IN
    /\ request[r].at = "reread"
    /\ memory' = Without(request[r].copy, e)
    /\ Overwrite(request[r].copy, memory')
    /\ running' = running \ {e}
    /\ released' = released \union {x \in {e} : Busy(e) # {}}
    /\ request' = [request EXCEPT ![r].at = "done", ![r].copy = None]
    /\ UNCHANGED <<version, cron, task, spent, ceiling, uncertain, left>>

\* The process stops: what it had in memory is gone, its orders are not.
Crash ==
    /\ memory' = Empty /\ running' = {} /\ cron' = None
    /\ task' = [s \in Slots |-> Free]
    /\ \E placed \in SUBSET {s[1] : s \in {x \in Slots : At(x, "send") /\ version = "v1"}} :
          /\ \A e \in placed : spent[e] < MaxSpent
          /\ spent' = [e \in Events |-> IF e \in placed THEN spent[e] + 1 ELSE spent[e]]
          /\ uncertain' = uncertain \union placed
    /\ request' = [r \in Requests |-> [request[r] EXCEPT !.at = "done", !.copy = None]]
    /\ UNCHANGED <<version, stored, ceiling, lost, released, left>>

Next ==
    \/ RunReads \/ RunStarts \/ Crash
    \/ \E s \in Slots : Task(s)
    \/ \E r \in Requests : Ask(r) \/ AddV1(r) \/ AddV2(r) \/ UpdateV1(r) \/ UpdateV2(r)
                           \/ DeleteReads(r) \/ Delete(r)

Spec == Init /\ [][Next]_vars

-------------------------------------------------------------------------------
(* Properties *)

\* Every variable has its type.
TypeOK ==
    /\ version \in {"v1", "v2"}
    /\ \A e \in Events : stored[e] \in Entry \union {None} /\ memory[e] \in Entry \union {None}
    /\ running \subseteq Events
    /\ \A s \in Slots : task[s].at \in {"free", "list", "process", "send", "forget", "forgotten"}
    /\ \A r \in Requests : request[r].at \in {"idle", "asked", "reread", "done"}
    /\ spent \in [Events -> 0 .. MaxSpent]

\* The market maker v1 never invests more in an event than the highest limit it has
\* had, unless an order's answer was lost, the event could get a second task, or a
\* copy of the register overwrote newer numbers.
WithinInvestmentLimit ==
    version = "v1" /\ ~lost =>
        \A e \in Events : spent[e] > ceiling[e] => e \in uncertain \union released

\* 'request is already in progress': an event has a second task only after a pause, a
\* closed market or a removal had taken it out of runningEvents under the first.
OneTaskPerEvent ==
    \A e \in Events : Cardinality(Busy(e)) > 1 => e \in released

\* A market maker invests no more than its limit and has one task per event, but for
\* the named lost updates.
InvestmentBounded == WithinInvestmentLimit /\ OneTaskPerEvent
================================================================================
