------------------------------- MODULE ClubEvent -------------------------------
(***************************************************************************)
(* One event of a club: its row, the bets on it, and the money its         *)
(* settlement, cancellation and reset move (updateClubEvent).              *)
(*                                                                         *)
(* An update reads the event's row, decides by the pair of the status read *)
(* and the status asked for, computes its transactions by a query over the *)
(* bets or the earlier transactions, and then opens a database transaction *)
(* for the transactions and the wallets.  The writes to the bets and to    *)
(* the event's row, made inside that transaction's callback, run on other  *)
(* connections: they stand at once, whether the transaction commits or     *)
(* not.  Nothing locks the event.                                          *)
(*                                                                         *)
(* A user has at most one bet.  What it wins depends on the pool of open   *)
(* bets it was computed from, and the pool stands for the amount.  The     *)
(* trading fee, the owner's commission and the tax on it go the same way   *)
(* as the winnings they are taken from and are left out, with the wallet   *)
(* updates themselves (WalletLedger).                                      *)
(***************************************************************************)
EXTENDS Naturals, FiniteSets

CONSTANTS
    Users,      \* users who may bet
    Options,    \* the options of the event
    Updates,    \* requests to updateClubEvent
    None        \* no status, no option

Statuses == {"A", "F", "I", "C", "CAN", "RST"}

VARIABLES
    status,     \* social.club_event.status
    correct,    \* social.club_event.correct_value
    resets,     \* social.club_event.last_reset, as the number of resets
    bet,        \* social.club_event_bet.status per user: none, open, closed, cancelled
    option,     \* the option each user has bet on
    ledger,     \* transactions committed for the event
    pc,         \* per update: idle, list, trx, bets, event, write, commit, done
    base,       \* per update, the status it has read
    want,       \* per update, the status asked for, None for an edit without one
    value,      \* per update, the correct_value asked for
    txns,       \* per update, the transactions to insert
    overlapped, \* history: two updates that have a status were under way
    torn,       \* history: an update ended between its first write and its commit
    late        \* history: users who bet while the event was being closed

evt == <<status, correct, resets>>
bets == <<bet, option>>
request == <<base, want, value>>
history == <<overlapped, torn, late>>
vars == <<evt, bets, ledger, pc, request, txns, history>>

Kinds == {"CLS", "CLSRST", "RFCLB"}     \* prefixes of txnid

Init ==
    /\ status = "A" /\ correct = None /\ resets = 0
    /\ bet = [u \in Users |-> "none"] /\ option = [u \in Users |-> None]
    /\ ledger = {}
    /\ pc = [p \in Updates |-> "idle"]
    /\ base = [p \in Updates |-> None] /\ want = [p \in Updates |-> None]
    /\ value = [p \in Updates |-> None]
    /\ txns = [p \in Updates |-> {}]
    /\ overlapped = FALSE /\ torn = FALSE /\ late = {}

Goto(p, place) == pc' = [pc EXCEPT ![p] = place]
UnderWay(p) == pc[p] \notin {"idle", "done"}

-------------------------------------------------------------------------------
(* What an update does, by the status it has read and the one asked for *)

Settles(b, w) == b \in {"A", "RST"} /\ w = "C"
Cancels(b, w) == b = "A" /\ w = "CAN"
Resets(b, w) == b = "C" /\ w = "RST"

\* The switch of updateClubEvent: what passes it.
Allowed(b, w) ==
    \/ Settles(b, w) \/ Cancels(b, w) \/ Resets(b, w)
    \/ b = "A" /\ w \in {"F", "I"}
    \/ w = None
    \/ w = b /\ b \notin {"C", "CAN"}

HasStatus(p) == UnderWay(p) /\ want[p] # None
Closes(p) == UnderWay(p) /\ want[p] \in {"C", "CAN"}

\* checkOption has passed: value is an option of the event.
Begin(p) ==
    /\ pc[p] = "idle"
    /\ base' = [base EXCEPT ![p] = status]
    /\ \E w \in Statuses \union {None} :
         /\ want' = [want EXCEPT ![p] = w]
         /\ IF w = "C"
            THEN \E v \in Options : value' = [value EXCEPT ![p] = v]
            ELSE UNCHANGED value
         /\ Goto(p, IF Allowed(status, w) THEN "list" ELSE "done")
         /\ overlapped' =
              (overlapped \/ (Allowed(status, w) /\ w # None /\ \E q \in Updates : HasStatus(q)))
    /\ UNCHANGED <<evt, bets, ledger, txns, torn, late>>

-------------------------------------------------------------------------------
(* The queries *)

OpenBets == {u \in Users : bet[u] = "open"}
Entry(p, u, kind, pool) ==
    [by |-> p, user |-> u, kind |-> kind, pool |-> pool, at |-> resets]

\* ClubEvents.settleEvent: the open bets on the option win
Winnings(p) ==
    {Entry(p, u, "CLS", OpenBets) : u \in {w \in OpenBets : option[w] = value[p]}}

\* ClubEvents.cancelEvent
Refunds(p) == {Entry(p, u, "RFCLB", {u}) : u \in OpenBets}

\* Mutant: last_reset is compared the other way.
DebitsBefore(p) ==
    {Entry(p, e.user, "CLSRST", e.pool) :
        e \in {f \in ledger : f.kind = "CLS" /\ f.at < resets}}

\* ClubEvents.resetEvent: winnings credited since the last reset.  UNION makes
\* one row of two winnings of one user that agree in the amount.
Debits(p) ==
    {Entry(p, e.user, "CLSRST", e.pool) :
        e \in {f \in ledger : f.kind = "CLS" /\ f.at = resets}}

List(p) ==
    /\ pc[p] = "list"
    /\ txns' = [txns EXCEPT ![p] =
                  IF Settles(base[p], want[p]) THEN Winnings(p)
                  ELSE IF Cancels(base[p], want[p]) THEN Refunds(p)
                  ELSE IF Resets(base[p], want[p]) THEN Debits(p)
                  ELSE {}]
    /\ Goto(p, "trx")
    /\ UNCHANGED <<evt, bets, ledger, request, history>>

-------------------------------------------------------------------------------
(* The callback of knex.transaction *)

\* The transactions and wallet updates, not visible before the commit.
Insert(p) ==
    /\ pc[p] = "trx"
    /\ Goto(p, IF want[p] \in {"C", "CAN", "RST"} THEN "bets" ELSE "write")
    /\ UNCHANGED <<evt, bets, ledger, request, txns, history>>

Mark(to) == [u \in Users |-> IF bet[u] = "none" THEN "none" ELSE to]

\* updateBetCancelStatus and updateBetResetStatus: every bet, in any status
CancelBets == Mark("cancelled")
OpenBetsAgain == Mark("open")

\* updateBetWinStatus: the bets on the option that are open now
CloseWon(p) ==
    [u \in Users |-> IF bet[u] = "open" /\ option[u] = value[p] THEN "closed" ELSE bet[u]]

UpdateBets(p) ==
    /\ pc[p] = "bets"
    /\ bet' = CASE want[p] = "C"   -> CloseWon(p)
                [] want[p] = "CAN" -> CancelBets
                [] want[p] = "RST" -> OpenBetsAgain
    /\ Goto(p, IF want[p] = "C" THEN "lost" ELSE "event")
    /\ UNCHANGED <<evt, option, ledger, request, txns, history>>

\* Mutant: the lost bets stay open.
CloseNone(p) ==
    /\ pc[p] = "lost"
    /\ Goto(p, "write")
    /\ UNCHANGED <<evt, bets, ledger, request, txns, history>>

\* updateBetLostStatus
CloseLost(p) ==
    /\ pc[p] = "lost"
    /\ bet' = [u \in Users |->
                 IF bet[u] = "open" /\ option[u] # value[p] THEN "closed" ELSE bet[u]]
    /\ Goto(p, "write")
    /\ UNCHANGED <<evt, option, ledger, request, txns, history>>

\* updateEventCancelStatus and updateEventResetStatus
UpdateEvent(p) ==
    /\ pc[p] = "event"
    /\ status' = want[p]
    /\ resets' = IF want[p] = "RST" THEN resets + 1 ELSE resets
    /\ Goto(p, "write")
    /\ UNCHANGED <<correct, bets, ledger, request, txns, history>>

\* ClubEvents.update(data): the status and the value, if data has them
Write(p) ==
    /\ pc[p] = "write"
    /\ status' = IF want[p] = None THEN status ELSE want[p]
    /\ correct' = IF value[p] = None THEN correct ELSE value[p]
    /\ Goto(p, "commit")
    /\ UNCHANGED <<resets, bets, ledger, request, txns, history>>

Commit(p) ==
    /\ pc[p] = "commit"
    /\ ledger' = ledger \union txns[p]
    /\ Goto(p, "done")
    /\ UNCHANGED <<evt, bets, request, txns, history>>

-------------------------------------------------------------------------------
(* Failures and the outside *)

\* An awaited call throws, or the process stops: the transaction is rolled back
\* and what its callback wrote on other connections stands.
Abort(p) ==
    /\ UnderWay(p)
    /\ torn' = (torn \/ pc[p] \in {"lost", "event"}
                     \/ (pc[p] \in {"write", "commit"} /\ want[p] \in {"C", "CAN", "RST"}))
    /\ Goto(p, "done")
    /\ UNCHANGED <<evt, bets, ledger, request, txns, overlapped, late>>

\* External: a user places a bet on an active event.
Bet(u) ==
    /\ bet[u] = "none" /\ status = "A"
    /\ bet' = [bet EXCEPT ![u] = "open"]
    /\ \E o \in Options : option' = [option EXCEPT ![u] = o]
    /\ late' = IF \E p \in Updates : Closes(p) THEN late \union {u} ELSE late
    /\ UNCHANGED <<evt, ledger, pc, request, txns, overlapped, torn>>

Step(p) ==
    \/ Begin(p) \/ List(p) \/ Insert(p) \/ UpdateBets(p) \/ CloseLost(p)
    \/ UpdateEvent(p) \/ Write(p) \/ Commit(p) \/ Abort(p)

Next == (\E p \in Updates : Step(p)) \/ (\E u \in Users : Bet(u))

Spec == Init /\ [][Next]_vars

-------------------------------------------------------------------------------
(* Properties *)

Places == {"idle", "list", "trx", "bets", "lost", "event", "write", "commit", "done"}

\* Every variable has its type.
TypeOK ==
    /\ status \in Statuses /\ correct \in Options \union {None}
    /\ resets \in Nat
    /\ bet \in [Users -> {"none", "open", "closed", "cancelled"}]
    /\ option \in [Users -> Options \union {None}]
    /\ \A e \in ledger : /\ e.by \in Updates /\ e.user \in Users /\ e.kind \in Kinds
                         /\ e.pool \subseteq Users /\ e.at \in 0 .. resets
    /\ pc \in [Updates -> Places]
    /\ base \in [Updates -> Statuses \union {None}]
    /\ want \in [Updates -> Statuses \union {None}]
    /\ value \in [Updates -> Options \union {None}]
    /\ \A p \in Updates : \A e \in txns[p] : e.by = p /\ e.user \in Users
    /\ overlapped \in BOOLEAN /\ torn \in BOOLEAN /\ late \subseteq Users

Count(u, kind) == Cardinality({e \in ledger : e.user = u /\ e.kind = kind})
Winning(u) == bet[u] = "closed" /\ option[u] = correct
InOrder == ~overlapped /\ ~torn /\ \A p \in Updates : ~UnderWay(p)

\* A complete event has closed all bets and credited each one on the correct
\* option, once since its last reset, unless two updates overlapped, one ended
\* between its writes, or the bet came while the event was being closed.
SettledExactly ==
    InOrder /\ status = "C" =>
        \A u \in Users \ late :
            /\ bet[u] \in {"none", "closed"}
            /\ Count(u, "CLS") = Count(u, "CLSRST") + (IF Winning(u) THEN 1 ELSE 0)

\* A reset event has taken back all winnings and opened all bets, unless two
\* updates overlapped or one ended between its writes.
ResetTakesAllBack ==
    InOrder /\ status = "RST" =>
        \A u \in Users : /\ bet[u] \in {"none", "open"}
                         /\ Count(u, "CLS") = Count(u, "CLSRST")

\* A cancelled event has refunded every bet once and keeps no winnings credited,
\* with the same exceptions.
CancelRefundsAll ==
    InOrder /\ status = "CAN" =>
        \A u \in Users \ late :
            /\ bet[u] \in {"none", "cancelled"}
            /\ Count(u, "RFCLB") = (IF bet[u] = "cancelled" THEN 1 ELSE 0)
            /\ Count(u, "CLS") = Count(u, "CLSRST")

\* Nobody is both refunded and paid, whatever fails half way, unless two updates
\* overlapped: no sequence of updates leads from one to the other.
PaidOneWay ==
    ~overlapped => \A u \in Users : Count(u, "RFCLB") = 0 \/ Count(u, "CLS") = 0

\* 'Cannot update event in status C' (club.events.controller.js:319): a complete
\* event is not completed again, so that no winnings are credited twice.
CompletedOnce == ~torn => \A u \in Users : Count(u, "CLS") <= Count(u, "CLSRST") + 1

\* A reset takes all winnings back, a cancellation refunds all bets.
BetsComeBack == ResetTakesAllBack /\ CancelRefundsAll
===============================================================================
