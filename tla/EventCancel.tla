------------------------------ MODULE EventCancel ------------------------------
(***************************************************************************)
(* The cancellation of one event: cancelEvent of                           *)
(* event.cancel.controller.js, here for schema public (other schemas have  *)
(* the first two phases only).  Six phases run one after the other: trades *)
(* are refunded user by user, liquidity is refunded, provider fees,        *)
(* referral fees and event referral fees are taken back, and TDS (tax) is  *)
(* refunded.  Then the event's status becomes CAN.                         *)
(*                                                                         *)
(* Every payment is one executeTransactions call of its own.  The phases   *)
(* differ in what keeps a repeated cancellation from paying again: trades  *)
(* delete or mark a user's calls before they pay, TDS deletes its rows     *)
(* after all payments, and the lists of the other phases do not exclude    *)
(* what an earlier run has paid.  The update can be sent again after a run *)
(* that failed: the event is still frozen then (EventLifecycle.tla, which  *)
(* also shows that one run is active at a time).                           *)
(***************************************************************************)
EXTENDS Integers, Sequences, FiniteSets, FiniteSetsExt

CONSTANTS
    Users,
    Owed,       \* Owed[kind]: the users a payment of this kind is owed to
    MaxRuns     \* bound on the cancellations started

Phases == <<"trade", "liquidity", "provider", "referral", "eventReferral", "tds">>
Final == Len(Phases) + 1    \* updateProbeToCancel

\* A user's trade refund covers its open calls and its matched ones.
Kinds == {"open", "matched"} \union {Phases[i] : i \in 2 .. Len(Phases)}

VARIABLES
    status,     \* F while (re)tried, CAN in the end
    phase,      \* index of the running phase, 0 when no cancellation runs
    step,       \* trade phase: what has been done for the user it treats
    todo,       \* the users of the phase's list not treated yet
    treated,    \* trade phase: the set of the user it treats, or {}
    read,       \* trade phase: the kinds of calls found for it
    rows,       \* rows[kind]: users with rows the phase's query still returns
    paid,       \* paid[kind][u]: the number of transactions executed
    runs,       \* cancellations started
    crashes,    \* history: per phase, the runs that stopped in it
    unmarked    \* history: users whose matched calls could not be marked

vars == <<status, phase, step, todo, treated, read, rows, paid, runs, crashes, unmarked>>

Init ==
    /\ status = "F"
    /\ phase = 0 /\ step = "next" /\ todo = {} /\ treated = {} /\ read = {}
    /\ rows = Owed
    /\ paid = [k \in Kinds |-> [u \in Users |-> 0]]
    /\ runs = 0
    /\ crashes = [i \in 1 .. Final |-> 0]
    /\ unmarked = {}

\* The users the query of phase i returns now.
ListOf(i) ==
    IF i = 1 THEN rows["open"] \union rows["matched"]
    ELSE IF i = Final THEN {} ELSE rows[Phases[i]]

Enter(i) == phase' = i /\ todo' = ListOf(i)

\* Mutant: trades count as done once a call of the event is cancelled.
ResumeAfterTrades ==
    /\ phase = 0 /\ status # "CAN" /\ runs < MaxRuns
    /\ Enter(IF rows["open"] = Owed["open"] THEN 1 ELSE 2)
    /\ runs' = runs + 1
    /\ UNCHANGED <<status, step, treated, read, rows, paid, crashes, unmarked>>

StartCancel ==
    /\ phase = 0 /\ status # "CAN" /\ runs < MaxRuns
    /\ Enter(1)
    /\ runs' = runs + 1
    /\ UNCHANGED <<status, step, treated, read, rows, paid, crashes, unmarked>>

-------------------------------------------------------------------------------
(* handleCancellationTrade                                                   *)

\* getAllActiveProbeCallsForUser
ReadCalls(u) ==
    /\ phase = 1 /\ step = "next" /\ u \in todo
    /\ treated' = {u}
    /\ read' = {k \in {"open", "matched"} : u \in rows[k]}
    /\ step' = "read"
    /\ UNCHANGED <<status, phase, todo, rows, paid, runs, crashes, unmarked>>

\* The open calls are copied as CN to probecalls, where nothing counts them, and
\* deleted.
DeleteOpenCalls ==
    /\ phase = 1 /\ step = "read"
    /\ rows' = [rows EXCEPT !["open"] = @ \ treated]
    /\ step' = "deleted"
    /\ UNCHANGED <<status, phase, todo, treated, read, paid, runs, crashes, unmarked>>

\* The matched calls become CN; an error of the update is ignored.
MarkMatchedCalls ==
    /\ phase = 1 /\ step = "deleted"
    /\ \/ rows' = [rows EXCEPT !["matched"] = @ \ treated] /\ unmarked' = unmarked
       \/ "matched" \in read /\ rows' = rows /\ unmarked' = unmarked \union treated
    /\ step' = "marked"
    /\ UNCHANGED <<status, phase, todo, treated, read, paid, runs, crashes>>

\* One transaction refunds all calls read.
RefundTrades ==
    /\ phase = 1 /\ step = "marked"
    /\ paid' = [k \in Kinds |-> [u \in Users |->
                  paid[k][u] + IF u \in treated /\ k \in read THEN 1 ELSE 0]]
    /\ todo' = todo \ treated
    /\ treated' = {} /\ read' = {}
    /\ step' = "next"
    /\ UNCHANGED <<status, phase, rows, runs, crashes, unmarked>>

-------------------------------------------------------------------------------
(* The other phases                                                          *)

\* updateTransactionsAndWallet executes one operation of the phase's list.
ExecuteOperation(u) ==
    /\ phase \in 2 .. Len(Phases) /\ u \in todo
    /\ paid' = [paid EXCEPT ![Phases[phase]][u] = @ + 1]
    /\ todo' = todo \ {u}
    /\ UNCHANGED <<status, phase, step, treated, read, rows, runs, crashes, unmarked>>

\* TDS rows are deleted at the end of their phase.  What the other phases mark
\* (status CN of liquidity, is_deleted of referral fees) their queries ignore.
EndPhase ==
    /\ phase \in 1 .. Len(Phases) /\ todo = {}
    /\ rows' = IF Phases[phase] = "tds" THEN [rows EXCEPT !["tds"] = {}] ELSE rows
    /\ Enter(phase + 1)
    /\ UNCHANGED <<status, step, treated, read, paid, runs, crashes, unmarked>>

\* updateProbeToCancel
FinishCancel ==
    /\ phase = Final
    /\ status' = "CAN"
    /\ phase' = 0
    /\ UNCHANGED <<step, todo, treated, read, rows, paid, runs, crashes, unmarked>>

\* A query throws, or the process stops.
Crash ==
    /\ phase # 0
    /\ phase' = 0 /\ step' = "next" /\ todo' = {} /\ treated' = {} /\ read' = {}
    /\ crashes' = [crashes EXCEPT ![phase] = @ + 1]
    /\ UNCHANGED <<status, rows, paid, runs, unmarked>>

Next ==
    \/ StartCancel \/ DeleteOpenCalls \/ MarkMatchedCalls \/ RefundTrades
    \/ EndPhase \/ FinishCancel \/ Crash
    \/ \E u \in Users : ReadCalls(u) \/ ExecuteOperation(u)

Spec == Init /\ [][Next]_vars

-------------------------------------------------------------------------------
(* Properties *)

\* Every variable has its type.
TypeOK ==
    /\ status \in {"F", "CAN"}
    /\ phase \in 0 .. Final
    /\ step \in {"next", "read", "deleted", "marked"}
    /\ todo \subseteq Users /\ treated \subseteq Users
    /\ read \subseteq {"open", "matched"}
    /\ rows \in [Kinds -> SUBSET Users]
    /\ paid \in [Kinds -> [Users -> Nat]]
    /\ runs \in 0 .. MaxRuns
    /\ crashes \in [1 .. Final -> Nat]
    /\ unmarked \subseteq Users

\* However often a cancellation fails and is repeated, a user's open calls are
\* refunded at most once, and so are its matched calls, unless the update that
\* marks them failed: the marks come before the refund.
TradesRefundedAtMostOnce ==
    \A u \in Users :
        /\ paid["open"][u] <= 1
        /\ u \notin unmarked => paid["matched"][u] <= 1

\* The price of that order: each failure in the trade phase can lose one user's
\* refund.  Nothing else is lost: a cancelled event has paid all other trades
\* and every later phase in full.
CancelledIsComplete ==
    LET unpaid(kinds) == {u \in Users : \E k \in kinds : u \in Owed[k] /\ paid[k][u] = 0}
    IN status = "CAN" =>
        /\ Cardinality(unpaid({"open", "matched"})) <= crashes[1]
        /\ unpaid(Kinds \ {"open", "matched"}) = {}

\* A cancelled event has paid back what it took, once, but for those losses.
RefundsComplete == TradesRefundedAtMostOnce /\ CancelledIsComplete

===============================================================================
