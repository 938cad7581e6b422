------------------------------ MODULE Tournament ------------------------------
(***************************************************************************)
(* A tournament: users enter it (putCall with ptype competition and        *)
(* handleTournamentPutCall of events.controller.js), a dashboard user      *)
(* completes it (the branch Competition of update, probe.controller.js)    *)
(* and may reset it.  An entry's checks and its four writes are separate   *)
(* queries, and so are the writes of the pay-out; nothing locks the        *)
(* tournament, and an entry that saw it open goes on when it is completed. *)
(*                                                                         *)
(* PrizeTable has the prizes.  Money is in units of PrizeTable's Pool.     *)
(***************************************************************************)
EXTENDS PrizeTable, FiniteSetsExt, Functions

CONSTANTS
    Users, Entries,
    User,           \* User[e]: who sends the request
    Unguarded,      \* users without the request key (CONFIG.MMIDs, APIPARTNERUSERS)
    Places,         \* values of tournament_info.max_players
    Values,         \* call values as numbers: putCall lets through Y, N and 0, and
                    \* parseFloat makes NaN of the first two
    Limit,          \* external: entries a user may have
    Fee,            \* the entry fee
    MaxEvents       \* bound on completions, failures (failing queries and requests
                    \* that break off) and counts for other tournaments, together

ASSUME TournamentAssumption ==
    /\ Users \subseteq Nat /\ IsFiniteSet(Users) /\ IsFiniteSet(Entries)
    /\ User \in [Entries -> Users] /\ Unguarded \subseteq Users
    /\ Places \subseteq Nat \ {0}
    /\ {Limit, Fee, MaxEvents} \subseteq Nat

VARIABLES
    players,    \* tournament_info.max_players
    status,     \* of the tournament
    rows,       \* probecalls, by id
    counted,    \* the users' participation counts in Redis
    participationCount, \* an undeclared, hence global, variable of the process
    debited,    \* amount of each user's entry transactions
    settled,    \* amount of his settlement transactions
    wallet,     \* what each wallet has changed by
    pc,         \* where each entry is
    run,        \* where the completion is
    mem,        \* the rows it read, with its changes
    order,      \* rankArray: indices of mem, best first
    todo,       \* ranks or users it has still to write
    due,        \* amtToReturn
    runs, failures,
    together,   \* history: two entries were past the count of places at once
    others,     \* history: how often the global was overwritten for another tournament
    stale,      \* history: rows had returns when a completion read them
    unmarked,   \* history: a row's returns were not written, the error ignored
    uncredited, \* history: credits booked by a completion that then broke off
    unreset     \* history: pay-outs begun since the settlement was last reversed

money == <<debited, settled, wallet>>
places == <<participationCount, together, others>>
entry == <<counted, pc, places>>
payout == <<run, mem, order, todo, due>>
history == <<runs, failures, stale, unmarked, uncredited, unreset>>
vars == <<players, status, rows, money, entry, payout, history>>

Init ==
    /\ players \in Places
    /\ status = "A" /\ rows = << >>
    /\ counted = [u \in Users |-> 0]
    /\ debited = [u \in Users |-> 0] /\ settled = [u \in Users |-> 0]
    /\ wallet = [u \in Users |-> 0]
    /\ pc = [e \in Entries |-> "idle"] 
    /\ participationCount = 0 /\ together = FALSE /\ others = 0
    /\ run = "idle" /\ mem = << >> /\ order = << >> /\ todo = {}
    /\ due = [u \in Users |-> 0]
    /\ runs = 0 /\ failures = 0 /\ unreset = 0
    /\ stale = FALSE /\ unmarked = FALSE /\ uncredited = [u \in Users |-> 0]

-------------------------------------------------------------------------------
(* Entering *)

Bounded == runs + failures + others < MaxEvents

Fails == Bounded /\ failures' = failures + 1

GoTo(e, where) == pc' = [pc EXCEPT ![e] = where]

Checked == {"compare", "count", "row"}
Handling == {"limit", "spots", "txn", "debit", "entered"} \union Checked

\* The tournament is open when the request looks.
Ask(e) ==
    /\ pc[e] = "idle" /\ status = "A"
    /\ User[e] \notin Unguarded =>
           \A f \in Entries \ {e} : User[f] = User[e] => pc[f] \notin Handling
    /\ GoTo(e, "limit")
    /\ UNCHANGED <<players, status, rows, money, counted, places, payout, history>>

\* canParticipate
CheckLimit(e) ==
    /\ pc[e] = "limit"
    /\ GoTo(e, IF counted[User[e]] < Limit THEN "spots" ELSE "refused")
    /\ UNCHANGED <<players, status, rows, money, counted, places, payout, history>>

\* getParticipationCountOnTournament; the request then waits for max_players.
ReadCount(e) ==
    /\ pc[e] = "spots"
    /\ participationCount' = Len(rows)
    /\ together' = (together \/ \E f \in Entries \ {e} : pc[f] \in Checked)
    /\ GoTo(e, "compare")
    /\ UNCHANGED <<players, status, rows, money, counted, others, payout, history>>

\* Meanwhile a request for another tournament reads its count into the global.
ReadOtherCount ==
    /\ Bounded /\ \E e \in Entries : pc[e] = "compare"
    /\ participationCount' \in {0, players}
    /\ others' = others + 1
    /\ UNCHANGED <<players, status, rows, money, counted, pc, together, payout, history>>

\* Mutant: one more entry than there are places.
CheckSpotsOff(e) ==
    /\ pc[e] = "compare"
    /\ GoTo(e, IF participationCount <= players THEN "count" ELSE "refused")
    /\ UNCHANGED <<players, status, rows, money, counted, places, payout, history>>

CheckSpots(e) ==
    /\ pc[e] = "compare"
    /\ GoTo(e, IF participationCount < players THEN "count" ELSE "refused")
    /\ UNCHANGED <<players, status, rows, money, counted, places, payout, history>>

\* updateParticipationCount
CountUp(e) ==
    /\ pc[e] = "count"
    /\ counted' = [counted EXCEPT ![User[e]] = @ + 1]
    /\ GoTo(e, "row")
    /\ UNCHANGED <<players, status, rows, money, places, payout, history>>

\* The request has two ids; the row gets that of handleTournamentPutCall.
ExecId(e) == <<"ex", e>>
OrderId(e) == <<"order", e>>

PutRow(e) ==
    /\ pc[e] = "row"
    /\ \E v \in Values :
           rows' = Append(rows, [userid |-> User[e], orderid |-> ExecId(e), callvalue |-> v,
                                 returns |-> 0, tournament_rank |-> 0])
    /\ GoTo(e, "txn")
    /\ UNCHANGED <<players, status, money, counted, places, payout, history>>

AddDebit(e) ==
    /\ pc[e] = "txn"
    /\ debited' = [debited EXCEPT ![User[e]] = @ + Fee]
    /\ GoTo(e, "debit")
    /\ UNCHANGED <<players, status, rows, settled, wallet, counted, places, payout, history>>

\* Mutant: the wallet is not debited.
DebitNot(e) ==
    /\ pc[e] = "debit"
    /\ GoTo(e, "entered")
    /\ UNCHANGED <<players, status, rows, money, counted, places, payout, history>>

Debit(e) ==
    /\ pc[e] = "debit"
    /\ wallet' = [wallet EXCEPT ![User[e]] = @ - Fee]
    /\ GoTo(e, "entered")
    /\ UNCHANGED <<players, status, rows, debited, settled, counted, places, payout, history>>

\* The answer depends on the rows the order's id finds (getTradeDetails).
Answer(e) ==
    /\ pc[e] = "entered"
    /\ GoTo(e, IF \E i \in DOMAIN rows : rows[i].orderid = OrderId(e)
               THEN "placed" ELSE "none placed")
    /\ UNCHANGED <<players, status, rows, money, counted, places, payout, history>>

\* A query of the handler throws or the process stops; "owing" after the debit
\* has been booked.
BreakOff(e) ==
    /\ pc[e] \in {"row", "txn", "debit"} /\ Fails
    /\ GoTo(e, IF pc[e] = "debit" THEN "owing" ELSE "failed")
    /\ UNCHANGED <<players, status, rows, money, counted, places, payout,
                   runs, stale, unmarked, uncredited, unreset>>

-------------------------------------------------------------------------------
(* Completing and resetting *)

\* The flag that a run which breaks off leaves set is external: see
\* EventLifecycle.  Here the next run waits until it is cleared.

\* When the correct value is a number too, 0 is at a distance from it and NaN is
\* not; a sort with NaN keeps the groups in the order of their first row.
Groups(rs, number) ==
    LET first(i) ==
            IF number THEN Min({j \in DOMAIN rs : rs[j].callvalue = rs[i].callvalue}) ELSE 1
        before(i, j) == first(i) < first(j) \/ (first(i) = first(j) /\ i <= j)
    IN  [k \in DOMAIN rs |->
            CHOOSE i \in DOMAIN rs : Cardinality({j \in DOMAIN rs : before(j, i)}) = k]

PayoutFrame == <<players, money, entry>>

\* update with status C: the status is written first.
Complete ==
    /\ run = "idle" /\ status # "C" /\ Bounded
    /\ run' = "read" /\ runs' = runs + 1
    /\ status' = "F"
    /\ UNCHANGED <<PayoutFrame, rows, mem, order, todo, due,
                   failures, stale, unmarked, uncredited, unreset>>

\* The rows are read and ranked.
ReadRows ==
    /\ run = "read" /\ rows # << >>
    /\ mem' = rows
    /\ \E number \in BOOLEAN : order' = Groups(rows, number)
    /\ todo' = {k \in DOMAIN rows : Prize(players, Len(rows), k - 1) > 0}
    /\ stale' = (stale \/ \E i \in DOMAIN rows : rows[i].returns > 0)
    /\ run' = "mark"
    /\ UNCHANGED <<PayoutFrame, status, rows, due, runs, failures, unmarked, uncredited, unreset>>

\* The run and its local variables are gone.
RunEnds ==
    /\ run' = "idle" /\ mem' = << >> /\ order' = << >> /\ todo' = {}
    /\ due' = [u \in Users |-> 0]

\* Without rows update answers at once; the status stays F.
NoRows ==
    /\ run = "read" /\ rows = << >>
    /\ RunEnds
    /\ UNCHANGED <<PayoutFrame, status, rows, history>>

\* Mutant: modifyProbeCall adds to what the row had.
MarkMore ==
    /\ run = "mark" /\ todo # {}
    /\ LET k == Min(todo)
           amount == mem[order[k]].returns + Prize(players, Len(mem), k - 1)
       IN  /\ mem' = [mem EXCEPT ![order[k]].returns = amount]
           /\ rows' = [rows EXCEPT ![order[k]].returns = Prize(players, Len(mem), k - 1)]
           /\ todo' = todo \ {k}
    /\ UNCHANGED <<PayoutFrame, status, run, order, due, history>>

\* modifyProbeCall, rank by rank; it ignores an error of the query.
Mark ==
    /\ run = "mark" /\ todo # {}
    /\ LET k == Min(todo)
           amount == Prize(players, Len(mem), k - 1)
       IN  /\ mem' = [mem EXCEPT ![order[k]].returns = amount]
           /\ todo' = todo \ {k}
           /\ \/ /\ rows' = [rows EXCEPT ![order[k]].returns = amount]
                 /\ UNCHANGED <<failures, unmarked>>
              \/ /\ Fails /\ unmarked' = TRUE
                 /\ UNCHANGED rows
    /\ UNCHANGED <<PayoutFrame, status, run, order, due, runs, stale, uncredited, unreset>>

\* What each user gets for all his rows.
Tally ==
    /\ run = "mark" /\ todo = {}
    /\ due' = [u \in Users |->
                 FoldFunctionOnSet(+, 0, [i \in DOMAIN mem |-> mem[i].returns],
                                   {i \in DOMAIN mem : mem[i].userid = u})]
    /\ todo' = {u \in Users : due'[u] > 0}
    /\ run' = "book"
    /\ unreset' = unreset + 1
    /\ UNCHANGED <<PayoutFrame, status, rows, mem, order, runs, failures, stale, unmarked,
                   uncredited>>

\* addTransaction for the next user, by id; updateWallet follows.
Book(u) ==
    /\ run = "book" /\ u \in todo /\ \A v \in todo : u <= v
    /\ settled' = [settled EXCEPT ![u] = @ + due[u]]
    /\ run' = "credit"
    /\ UNCHANGED <<players, status, rows, debited, wallet, entry, mem, order, todo, due, history>>

Credit(u) ==
    /\ run = "credit" /\ u \in todo /\ \A v \in todo : u <= v
    /\ wallet' = [wallet EXCEPT ![u] = @ + due[u]]
    /\ todo' = todo \ {u}
    /\ run' = "book"
    /\ UNCHANGED <<players, status, rows, debited, settled, entry, mem, order, due, history>>

\* updateCallTournamentRank, row by row in the code; only the leaderboard reads it.
Place ==
    /\ run = "book" /\ todo = {}
    /\ rows' = [i \in DOMAIN rows |->
                  IF i \in DOMAIN mem
                  THEN [rows[i] EXCEPT !.tournament_rank = CHOOSE k \in DOMAIN order : order[k] = i]
                  ELSE rows[i]]
    /\ run' = "finish"
    /\ UNCHANGED <<PayoutFrame, status, mem, order, todo, due, history>>

\* Probe.update with the status of the request
Finish ==
    /\ run = "finish"
    /\ status' = "C"
    /\ RunEnds
    /\ UNCHANGED <<PayoutFrame, rows, history>>

\* A query throws or the process stops.
RunBreaksOff ==
    /\ run # "idle" /\ Fails
    /\ uncredited' = IF run = "credit" THEN [uncredited EXCEPT ![Min(todo)] = @ + due[Min(todo)]]
                     ELSE uncredited
    /\ RunEnds
    /\ UNCHANGED <<PayoutFrame, status, rows, runs, stale, unmarked, unreset>>

\* handleEventReset: the settlement transactions are reversed; the rows of a
\* tournament keep their returns.  Its error is logged and the reset goes on.
Reset ==
    /\ run = "idle" /\ status \in {"C", "F"}
    /\ status' = "RST"
    /\ \/ /\ settled' = [u \in Users |-> 0]
          /\ wallet' = [u \in Users |-> wallet[u] - settled[u]]
          /\ unreset' = 0
          /\ UNCHANGED failures
       \/ Fails /\ UNCHANGED <<settled, wallet, unreset>>
    /\ UNCHANGED <<players, rows, debited, entry, payout, runs, stale, unmarked, uncredited>>

\* An update that only edits the tournament writes status A.
Reopen ==
    /\ run = "idle" /\ status \in {"C", "F", "RST"}
    /\ status' = "A"
    /\ UNCHANGED <<players, rows, money, entry, payout, history>>

-------------------------------------------------------------------------------
Next ==
    \/ \E e \in Entries :
         Ask(e) \/ CheckLimit(e) \/ ReadCount(e) \/ CheckSpots(e) \/ CountUp(e) \/ PutRow(e)
           \/ AddDebit(e) \/ Debit(e) \/ Answer(e) \/ BreakOff(e)
    \/ ReadOtherCount
    \/ Complete \/ ReadRows \/ NoRows \/ Mark \/ Tally
    \/ \E u \in Users : Book(u) \/ Credit(u)
    \/ Place \/ Finish \/ RunBreaksOff \/ Reset \/ Reopen

Spec == Init /\ [][Next]_vars

-------------------------------------------------------------------------------
(* Properties *)

Row == [userid : Users, orderid : {ExecId(e) : e \in Entries}, callvalue : Values,
        returns : 0 .. Pool, tournament_rank : 0 .. Cardinality(Entries)]

\* Every variable has its type; the rows that a completion holds are those of
\* the table, but for their returns and for rows that came later.
TypeOK ==
    /\ players \in Places /\ status \in {"A", "F", "C", "RST"}
    /\ rows \in Seq(Row) /\ mem \in Seq(Row) /\ Len(mem) <= Len(rows)
    /\ \A i \in DOMAIN mem : mem[i].orderid = rows[i].orderid
    /\ {order[k] : k \in DOMAIN order} = DOMAIN mem
    /\ participationCount \in 0 .. Cardinality(Entries)
    /\ {counted, debited, settled, due, uncredited} \subseteq [Users -> Nat]
    /\ pc \in [Entries -> Handling \union
                 {"idle", "refused", "placed", "none placed", "failed", "owing"}]
    /\ run \in {"idle", "read", "mark", "book", "credit", "finish"}

RowsOf(u) == {i \in DOMAIN rows : rows[i].userid = u}
EntriesIn(u, where) == {e \in Entries : User[e] = u /\ pc[e] \in where}
TotalOf(f, set) == FoldFunctionOnSet(+, 0, f, set)

\* There are more entries than places only if two requests were past the count
\* of places at once, or the count was another tournament's.
OverbookedByRace == Len(rows) > players => together \/ others > 0

\* What a wallet has changed by is what the transactions say, except for the
\* debit of an entry and the credit of a pay-out between their two writes, or
\* broken off there.
WalletIsBooked ==
    \A u \in Users :
        wallet[u] = settled[u] - debited[u]
                      + Fee * Cardinality(EntriesIn(u, {"debit", "owing"}))
                      - uncredited[u]
                      - (IF run = "credit" /\ u = Min(todo) THEN due[u] ELSE 0)

\* The prizes for the present entries together do not exceed the pool, also when
\* there are more entries than places.
PoolNotExceeded == Paid(players, Len(rows)) <= Pool

\* A tournament's first pay-out stays within the pool, also with late entries,
\* rows whose returns were not written, and breaks.
PaidFromPool == unreset <= 1 /\ ~stale => TotalOf(settled, Users) <= Pool

\* When a completion ends, a user has been paid what the returns of his rows say,
\* unless one of them could not be written or he was paid more than once.
ReturnsArePaid ==
    status = "C" /\ run = "idle" /\ unreset = 1 /\ ~unmarked =>
        \A u \in Users :
            settled[u] = TotalOf([i \in DOMAIN rows |-> rows[i].returns], RowsOf(u))

\* 'No more spots available for participation!' (messages.js): there are never
\* more entries than places.
NotOverbooked == Len(rows) <= players

\* The same message: requests that come one after the other do not overbook.
AloneNotOverbooked == ~together => Len(rows) <= players

\* 'No matching positions available' (messages.js): a user who gets this answer
\* has no entry from this request.
AnswerIsTrue ==
    \A e \in Entries :
        pc[e] = "none placed" => \A i \in DOMAIN rows : rows[i].orderid # ExecId(e)

\* 'Distribution of max_pool' (probe.controller.js): what a completion pays after
\* the settlement was reset, without a break and with every row written, is
\* within the pool.
ResetPaysPool ==
    status = "C" /\ run = "idle" /\ unreset = 1 /\ failures = 0 /\ ~unmarked =>
        TotalOf(settled, Users) <= Pool

\* What is paid comes from the pool and is what the rows say.
PaidAsBooked == PaidFromPool /\ ReturnsArePaid
===============================================================================
