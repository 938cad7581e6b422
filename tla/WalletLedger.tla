----------------------------- MODULE WalletLedger -----------------------------
(***************************************************************************)
(* The wallet table of one user as an append-only ledger.                  *)
(*                                                                         *)
(* updateWallet and updateWalletTransaction (models/user.js) lock          *)
(* updating_wallet_<user>, read the row with the largest id, and insert a  *)
(* new row computed from it.  updateWallet autocommits its row;            *)
(* updateWalletTransaction inserts inside the caller's transaction         *)
(* (settlement of a club event) but gives the lock back at once, before    *)
(* that transaction commits.  Both unlock in the body and once more in     *)
(* their finally block, and a redis-lock unlock deletes the lock's key     *)
(* whoever owns it by then.                                                *)
(*                                                                         *)
(* Each call is a process of its own, since several server processes share *)
(* the database and Redis.  Amounts are coins (coinsd), the bonus part of  *)
(* them (coinsb) and the bonus locked in trades (locked_amount).           *)
(***************************************************************************)
EXTENDS Integers, Sequences, FiniteSets

CONSTANTS
    Updates,      \* calls of updateWallet
    Settlements,  \* club event settlements: transactions of wallet updates
    Ops,          \* Ops[c]: the wallet operations of call c, in order
    InitialRow,   \* the user's last row: [d |-> coinsd, b |-> coinsb, l |-> locked]
    Nobody        \* a free lock

Calls == Updates \union Settlements

\* An operation: the sign, the order type and the amount of coins (no caller in
\* the repository passes the order type settle).
OpType ==
    {op \in [mul : {1, -1}, kind : {"none", "debit", "credit"}, amt : Nat] :
        /\ op.kind = "debit" => op.mul = -1
        /\ op.kind = "credit" => op.mul = 1}

VARIABLES
    pc,         \* where each call is
    at,         \* the index of the operation it executes
    lock,       \* redis-lock updating_wallet_<user>
    rows,       \* the rows of the user, committed or not
    nextId,     \* the id sequence of the table
    open,       \* settlements whose transaction is open
    base,       \* the row each call has read
    pending,    \* history: the coins a call has inserted and not committed
    total,      \* history: the coins all committed operations add up to
    stolen,     \* history: an unlock deleted the lock of another call
    dirty       \* history: a row was read past another's uncommitted row

vars == <<pc, at, lock, rows, nextId, open, base, pending, total, stolen, dirty>>

Labels == {"start", "locked", "read", "unlock", "unlockAgain", "failed",
           "failedAgain", "commit", "done"}

Row == [id : Nat, by : Calls \union {Nobody}, d : Int, b : Int, l : Int]

FirstRow == [id |-> 0, by |-> Nobody,
             d |-> InitialRow.d, b |-> InitialRow.b, l |-> InitialRow.l]

Init ==
    /\ pc = [c \in Calls |-> "start"]
    /\ at = [c \in Calls |-> 1]
    /\ lock = Nobody
    /\ rows = {FirstRow}
    /\ nextId = 1
    /\ open = {}
    /\ base = [c \in Calls |-> FirstRow]
    /\ pending = [c \in Calls |-> 0]
    /\ total = 0
    /\ stolen = FALSE
    /\ dirty = FALSE

\* What call c sees under READ COMMITTED: committed rows and its own.
Visible(c) == {r \in rows : r.by \in open => r.by = c}

\* SELECT * FROM wallet WHERE userid = ? ORDER BY id DESC LIMIT 1
IsLatest(r, rs) == r \in rs /\ \A s \in rs : s.id <= r.id

\* Mutant: a credit above the locked bonus turns all of it into bonus.
NewRowUncapped(r, op) ==
    LET b == CASE op.kind = "debit" /\ r.b > 0 ->
                    IF op.amt > r.b THEN r.b ELSE op.amt
               [] op.kind = "credit" /\ r.l > 0 -> op.amt
               [] OTHER -> 0
        l == CASE op.kind = "debit" /\ r.b > 0 ->
                    IF op.amt > r.b THEN r.b ELSE r.l + op.amt
               [] op.kind = "credit" /\ r.l > 0 ->
                    IF op.amt > r.l THEN 0 ELSE r.l - op.amt
               [] OTHER -> r.l
    IN  [d |-> r.d + op.mul * op.amt, b |-> r.b + op.mul * b, l |-> l]

\* The new row of an operation on row r.  A debit takes the bonus first and
\* locks it; when it takes all of the bonus the locked amount is overwritten,
\* not increased.  A credit gives back what is locked, as far as it goes.
NewRow(r, op) ==
    LET b == CASE op.kind = "debit" /\ r.b > 0 ->
                    IF op.amt > r.b THEN r.b ELSE op.amt
               [] op.kind = "credit" /\ r.l > 0 ->
                    IF op.amt > r.l THEN r.l ELSE op.amt
               [] OTHER -> 0
        l == CASE op.kind = "debit" /\ r.b > 0 ->
                    IF op.amt > r.b THEN r.b ELSE r.l + op.amt
               [] op.kind = "credit" /\ r.l > 0 ->
                    IF op.amt > r.l THEN 0 ELSE r.l - op.amt
               [] OTHER -> r.l
    IN  [d |-> r.d + op.mul * op.amt, b |-> r.b + op.mul * b, l |-> l]

Coins(c) == Ops[c][at[c]].mul * Ops[c][at[c]].amt
-------------------------------------------------------------------------------
Step(c, from, to) == pc[c] = from /\ pc' = [pc EXCEPT ![c] = to]

\* Mutant: the wallet is updated without its lock.
AcquireUnlocked(c) ==
    /\ Step(c, "start", "locked")
    /\ lock' = c
    /\ open' = IF c \in Settlements THEN open \union {c} ELSE open
    /\ UNCHANGED <<at, rows, nextId, base, pending, total, stolen, dirty>>

\* lock(updating_wallet_<user>, 300000); a settlement has opened its transaction.
Acquire(c) ==
    /\ Step(c, "start", "locked")
    /\ lock = Nobody
    /\ lock' = c
    /\ open' = IF c \in Settlements THEN open \union {c} ELSE open
    /\ UNCHANGED <<at, rows, nextId, base, pending, total, stolen, dirty>>

\* The read of the latest visible row.
Read(c) ==
    /\ Step(c, "locked", "read")
    /\ \E r \in rows : IsLatest(r, Visible(c)) /\ base' = [base EXCEPT ![c] = r]
    /\ dirty' = (dirty \/ Visible(c) # rows)
    /\ UNCHANGED <<at, lock, rows, nextId, open, pending, total, stolen>>

\* The insert: committed at once by updateWallet, with the transaction by
\* updateWalletTransaction.
Insert(c) ==
    /\ Step(c, "read", "unlock")
    /\ LET new == NewRow(base[c], Ops[c][at[c]])
       IN  rows' = rows \union
                     {[id |-> nextId, by |-> c, d |-> new.d, b |-> new.b, l |-> new.l]}
    /\ nextId' = nextId + 1
    /\ IF c \in Updates
       THEN total' = total + Coins(c) /\ UNCHANGED pending
       ELSE pending' = [pending EXCEPT ![c] = @ + Coins(c)] /\ UNCHANGED total
    /\ UNCHANGED <<at, lock, open, base, stolen, dirty>>

\* The read or the insert throws: catch unlocks and rethrows, finally unlocks.
Fail(c) ==
    /\ pc[c] \in {"locked", "read"}
    /\ pc' = [pc EXCEPT ![c] = "failed"]
    /\ UNCHANGED <<at, lock, rows, nextId, open, base, pending, total, stolen, dirty>>

\* redis-lock's unlock: DEL of the lock's key, whoever holds it.
Release(c) ==
    /\ lock' = Nobody
    /\ stolen' = (stolen \/ lock \notin {Nobody, c})

Unlock(c) ==
    /\ Step(c, "unlock", "unlockAgain") \/ Step(c, "failed", "failedAgain")
    /\ Release(c)
    /\ UNCHANGED <<at, rows, nextId, open, base, pending, total, dirty>>

\* The finally block unlocks a second time.  An update returns, a settlement
\* goes on with its next operation or leaves the loop.
UnlockAgain(c) ==
    /\ pc[c] = "unlockAgain"
    /\ Release(c)
    /\ IF c \in Settlements /\ at[c] < Len(Ops[c])
       THEN /\ pc' = [pc EXCEPT ![c] = "start"]
            /\ at' = [at EXCEPT ![c] = @ + 1]
       ELSE /\ pc' = [pc EXCEPT ![c] = IF c \in Updates THEN "done" ELSE "commit"]
            /\ UNCHANGED at
    /\ UNCHANGED <<rows, nextId, open, base, pending, total, dirty>>

Rollback(c) ==
    /\ open' = open \ {c}
    /\ rows' = {r \in rows : r.by \in open => r.by # c}
    /\ pending' = [pending EXCEPT ![c] = 0]

\* The finally block after a failure; the error rolls a settlement back.
UnlockFailed(c) ==
    /\ Step(c, "failedAgain", "done")
    /\ Release(c)
    /\ Rollback(c)
    /\ UNCHANGED <<at, nextId, base, total, dirty>>

Commit(c) ==
    /\ Step(c, "commit", "done")
    /\ open' = open \ {c}
    /\ total' = total + pending[c]
    /\ pending' = [pending EXCEPT ![c] = 0]
    /\ UNCHANGED <<at, lock, rows, nextId, base, stolen, dirty>>

\* A later query of the settlement's transaction throws, or the process of a
\* call stops: the database rolls back, the lock waits for its TTL.
Abort(c) ==
    /\ pc[c] \notin {"start", "done"} \/ c \in open
    /\ pc' = [pc EXCEPT ![c] = "done"]
    /\ Rollback(c)
    /\ UNCHANGED <<at, lock, nextId, base, total, stolen, dirty>>

\* The 300 s of the lock outlast a live call's read and insert.
LockExpire ==
    /\ lock # Nobody
    /\ pc[lock] = "done"
    /\ lock' = Nobody
    /\ UNCHANGED <<pc, at, rows, nextId, open, base, pending, total, stolen, dirty>>

CallStep(c) ==
    \/ Acquire(c) \/ Read(c) \/ Insert(c) \/ Fail(c) \/ Unlock(c)
    \/ UnlockAgain(c) \/ UnlockFailed(c) \/ Commit(c)

Next == (\E c \in Calls : CallStep(c) \/ Abort(c)) \/ LockExpire

Spec == Init /\ [][Next]_vars

-------------------------------------------------------------------------------
(* Properties *)

\* Every variable has its type.
TypeOK ==
    /\ pc \in [Calls -> Labels]
    /\ at \in [Calls -> Nat \ {0}]
    /\ \A c \in Calls : at[c] <= Len(Ops[c])
    /\ lock \in Calls \union {Nobody}
    /\ rows \in SUBSET Row
    /\ nextId \in Nat
    /\ open \in SUBSET Settlements
    /\ base \in [Calls -> Row]
    /\ pending \in [Calls -> Int]
    /\ total \in Int
    /\ stolen \in BOOLEAN
    /\ dirty \in BOOLEAN

Committed == {r \in rows : r.by \notin open}

\* The balance a reader sees is the initial one plus every committed operation,
\* whatever updates of the user interleave, fail or crash, as long as no unlock
\* released another call's lock and no row was read past an uncommitted one.
\* These two are the only ways updateWallet and updateWalletTransaction lose
\* an update.
BalanceIsSumOfOperations ==
    ~stolen /\ ~dirty =>
        \A r \in Committed :
            IsLatest(r, Committed) => r.d = InitialRow.d + total

\* Bonus is never minted: bonus and locked bonus of a row never exceed what the
\* user started with, and neither goes negative, even across lost updates.
BonusNotMinted ==
    \A r \in rows :
        /\ r.b >= 0 /\ r.l >= 0
        /\ r.b + r.l <= InitialRow.b + InitialRow.l
===============================================================================
