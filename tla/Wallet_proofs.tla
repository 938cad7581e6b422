------------------------------ MODULE Wallet_proofs -----------------------------
(***************************************************************************)
(* Proofs about the wallet's row, for any calls, operations and first row, *)
(* and about the payout of a withdrawal, for any dashboard requests.       *)
(* MCWallet has the instances: L for WalletLedger, P for PayoutProcessing. *)
(* The theorems at the end are about each and about the module that        *)
(* composes them.                                                          *)
(***************************************************************************)
EXTENDS MCWallet, TLAPS, FiniteSetTheorems

-------------------------------------------------------------------------------
(* WALLET.  BonusNotMinted needs no lock: whatever row a call has read, even *)
(* one that is rolled back or overtaken meanwhile, has a bounded bonus, and  *)
(* NewRow keeps the bound.  The invariant therefore speaks of the rows calls *)
(* hold in base as well as of those in the table.                            *)
(*                                                                           *)
(* BalanceIsSumOfOperations needs the lock: while none was stolen and no row *)
(* was read past an uncommitted one, the calls write one after the other     *)
(* (Serial), and the latest row is the first with what they added.           *)

\* A row whose bonus and locked bonus fit in what the user started with.
Bounded(r) == r.b >= 0 /\ r.l >= 0 /\ r.b + r.l <= InitialRow.b + InitialRow.l

BonusInv ==
    /\ \A r \in rows : Bounded(r)
    /\ \A c \in L!Calls : Bounded(base[c])

\* The constants as the proofs use them: a call's operations are typed.
LEMMA OperationTyped ==
    ASSUME NEW c \in L!Calls, NEW i \in Nat \ {0}, i <= Len(Ops[c])
    PROVE  Ops[c][i] \in L!OpType
BY LedgerAssumption

LEMMA OperationCount ==
    ASSUME NEW c \in L!Calls
    PROVE  Len(Ops[c]) \in Nat /\ Len(Ops[c]) >= 1
BY LedgerAssumption

LEMMA OperationFields ==
    ASSUME NEW op \in L!OpType
    PROVE  /\ op.mul \in {1, -1} /\ op.amt \in Nat
           /\ op.kind \in {"none", "debit", "credit"}
           /\ op.kind = "debit" => op.mul = -1
           /\ op.kind = "credit" => op.mul = 1
BY DEF L!OpType

\* The bonus arithmetic of updateWallet: types are kept, and a debit or a credit
\* only moves coins between bonus and locked bonus.
LEMMA NewRowBounded ==
    ASSUME NEW r \in L!Row, Bounded(r), NEW op \in L!OpType
    PROVE  /\ L!NewRow(r, op).d \in Int /\ L!NewRow(r, op).b \in Int
           /\ L!NewRow(r, op).l \in Int
           /\ Bounded(L!NewRow(r, op))
<1>1. r.d \in Int /\ r.b \in Int /\ r.l \in Int
  BY DEF L!Row
<1>2. InitialRow.b \in Nat /\ InitialRow.l \in Nat
  BY LedgerAssumption
<1>3. op.mul * op.amt \in Int
  <2>1. CASE op.mul = 1
    BY <2>1, OperationFields
  <2>2. CASE op.mul = -1
    BY <2>2, OperationFields
  <2> QED BY <2>1, <2>2, OperationFields
<1>4. CASE op.kind = "debit"
  <2>1. op.mul = -1 /\ op.amt \in Nat
    BY <1>4, OperationFields
  <2>2. CASE r.b > 0 /\ op.amt > r.b
    BY <1>1, <1>2, <1>3, <1>4, <2>1, <2>2 DEF L!NewRow, Bounded
  <2>3. CASE r.b > 0 /\ ~(op.amt > r.b)
    BY <1>1, <1>2, <1>3, <1>4, <2>1, <2>3 DEF L!NewRow, Bounded
  <2>4. CASE ~(r.b > 0)
    BY <1>1, <1>2, <1>3, <1>4, <2>1, <2>4 DEF L!NewRow, Bounded
  <2> QED BY <2>2, <2>3, <2>4
<1>5. CASE op.kind = "credit"
  <2>1. op.mul = 1 /\ op.amt \in Nat
    BY <1>5, OperationFields
  <2>2. CASE r.l > 0 /\ op.amt > r.l
    BY <1>1, <1>2, <1>3, <1>5, <2>1, <2>2 DEF L!NewRow, Bounded
  <2>3. CASE r.l > 0 /\ ~(op.amt > r.l)
    BY <1>1, <1>2, <1>3, <1>5, <2>1, <2>3 DEF L!NewRow, Bounded
  <2>4. CASE ~(r.l > 0)
    BY <1>1, <1>2, <1>3, <1>5, <2>1, <2>4 DEF L!NewRow, Bounded
  <2> QED BY <2>2, <2>3, <2>4
<1>6. CASE op.kind = "none"
  <2>1. op.mul * 0 = 0
    BY OperationFields
  <2> QED BY <1>1, <1>2, <1>3, <1>6, <2>1 DEF L!NewRow, Bounded
<1> QED BY <1>4, <1>5, <1>6, OperationFields

-------------------------------------------------------------------------------
(* The invariant *)

LedgerInv == L!TypeOK /\ BonusInv

LEMMA LedgerInit == L!Init => LedgerInv
<1> SUFFICES ASSUME L!Init PROVE LedgerInv
  OBVIOUS
<1> USE LedgerAssumption DEF L!Init
<1>1. L!FirstRow \in L!Row /\ Bounded(L!FirstRow)
  BY DEF L!FirstRow, L!Row, Bounded
<1>2. L!TypeOK
  <2>1. rows \in SUBSET L!Row /\ base \in [L!Calls -> L!Row]
    BY <1>1
  <2>2. \A c \in L!Calls : at[c] <= Len(Ops[c])
    BY OperationCount
  <2>3. pc \in [L!Calls -> L!Labels]
    BY DEF L!Labels
  <2>4. pending \in [L!Calls -> Int] /\ total \in Int /\ at \in [L!Calls -> Nat \ {0}]
    OBVIOUS
  <2> QED BY <2>1, <2>2, <2>3, <2>4 DEF L!TypeOK
<1>3. BonusInv
  BY <1>1 DEF BonusInv
<1> QED BY <1>2, <1>3 DEF LedgerInv

\* The coins of an operation are an integer: what total and pending add up.
LEMMA CoinsType ==
    ASSUME L!TypeOK, NEW c \in L!Calls
    PROVE  L!Coins(c) \in Int
<1>1. Ops[c][at[c]] \in L!OpType
  BY OperationTyped DEF L!TypeOK
<1>2. Ops[c][at[c]].mul \in {1, -1} /\ Ops[c][at[c]].amt \in Nat
  BY <1>1, OperationFields
<1>3. CASE Ops[c][at[c]].mul = 1
  BY <1>2, <1>3 DEF L!Coins
<1>4. CASE Ops[c][at[c]].mul = -1
  BY <1>2, <1>4 DEF L!Coins
<1> QED BY <1>2, <1>3, <1>4

\* The one step that writes a row.
LEMMA InsertStep ==
    ASSUME LedgerInv, NEW c \in L!Calls, L!Insert(c)
    PROVE  LedgerInv'
<1> DEFINE op == Ops[c][at[c]]
           new == L!NewRow(base[c], op)
           row == [id |-> nextId, by |-> c, d |-> new.d, b |-> new.b, l |-> new.l]
<1>1. op \in L!OpType
  BY OperationTyped DEF LedgerInv, L!TypeOK
<1>2. base[c] \in L!Row /\ Bounded(base[c])
  BY DEF LedgerInv, L!TypeOK, BonusInv
<1>3. new.d \in Int /\ new.b \in Int /\ new.l \in Int /\ Bounded(new)
  BY <1>1, <1>2, NewRowBounded
<1> HIDE DEF new, op
<1>4. row \in L!Row /\ Bounded(row)
  BY <1>3 DEF L!Row, Bounded, LedgerInv, L!TypeOK
<1>5. rows' = rows \union {row}
  BY DEF L!Insert, new, op
<1>6. total' \in Int /\ pending' \in [L!Calls -> Int]
  BY CoinsType DEF L!Insert, LedgerInv, L!TypeOK
<1>7. L!TypeOK'
  <2>1. rows' \in SUBSET L!Row /\ nextId' \in Nat
    BY <1>4, <1>5 DEF L!Insert, LedgerInv, L!TypeOK
  <2>2. pc' \in [L!Calls -> L!Labels]
    BY DEF L!Insert, L!Step, LedgerInv, L!TypeOK, L!Labels
  <2>3. UNCHANGED <<at, lock, open, base, stolen, dirty>>
    BY DEF L!Insert
  <2> QED BY <1>6, <2>1, <2>2, <2>3 DEF LedgerInv, L!TypeOK
<1>8. BonusInv'
  BY <1>4, <1>5 DEF L!Insert, LedgerInv, BonusInv, Bounded
<1> QED BY <1>7, <1>8 DEF LedgerInv

\* A settlement that goes on with its next operation has one.
LEMMA NextOperation ==
    ASSUME NEW c \in L!Calls, at \in [L!Calls -> Nat \ {0}],
           \A d \in L!Calls : at[d] <= Len(Ops[d]),
           at[c] < Len(Ops[c]), at' = [at EXCEPT ![c] = @ + 1]
    PROVE  at' \in [L!Calls -> Nat \ {0}] /\ \A d \in L!Calls : at'[d] <= Len(Ops[d])
<1>1. at[c] \in Nat /\ at[c] + 1 \in Nat \ {0}
  OBVIOUS
<1>2. at[c] + 1 <= Len(Ops[c])
  BY <1>1, OperationCount
<1>3. \A d \in L!Calls : at'[d] = IF d = c THEN at[c] + 1 ELSE at[d]
  OBVIOUS
<1> QED BY <1>1, <1>2, <1>3

\* The other steps add no row; a read copies one.
LEMMA OtherStep ==
    ASSUME LedgerInv, NEW c \in L!Calls,
           (L!CallStep(c) /\ ~L!Insert(c)) \/ L!Abort(c) \/ L!LockExpire
    PROVE  LedgerInv'
<1> USE LedgerAssumption DEF LedgerInv, L!TypeOK, BonusInv, Bounded, L!Labels, L!Step, L!Calls
<1>1. CASE L!Acquire(c)
  BY <1>1 DEF L!Acquire
<1>2. CASE L!Read(c)
  BY <1>2 DEF L!Read, L!IsLatest, L!Visible
<1>3. CASE L!Fail(c)
  BY <1>3 DEF L!Fail
<1>4. CASE L!Unlock(c)
  BY <1>4 DEF L!Unlock, L!Release
<1>5. CASE L!UnlockAgain(c)
  <2>1. CASE c \in Settlements /\ at[c] < Len(Ops[c])
    <3>1. at' = [at EXCEPT ![c] = @ + 1]
      BY <1>5, <2>1 DEF L!UnlockAgain
    <3>2. at' \in [L!Calls -> Nat \ {0}] /\ \A d \in L!Calls : at'[d] <= Len(Ops[d])
      BY <2>1, <3>1, NextOperation
    <3>3. pc' \in [L!Calls -> L!Labels] /\ lock' = Nobody /\ stolen' \in BOOLEAN
      BY <1>5, <2>1 DEF L!UnlockAgain, L!Release
    <3>4. UNCHANGED <<rows, nextId, open, base, pending, total, dirty>>
      BY <1>5 DEF L!UnlockAgain
    <3> QED BY <3>2, <3>3, <3>4
  <2>2. CASE ~(c \in Settlements /\ at[c] < Len(Ops[c]))
    BY <1>5, <2>2 DEF L!UnlockAgain, L!Release
  <2> QED BY <2>1, <2>2
<1>6. CASE L!UnlockFailed(c)
  BY <1>6 DEF L!UnlockFailed, L!Release, L!Rollback
<1>7. CASE L!Commit(c)
  <2>1. total' \in Int /\ pending' \in [L!Calls -> Int]
    BY <1>7 DEF L!Commit
  <2>2. pc' \in [L!Calls -> L!Labels] /\ open' \in SUBSET Settlements
    BY <1>7 DEF L!Commit
  <2>3. UNCHANGED <<at, lock, rows, nextId, base, stolen, dirty>>
    BY <1>7 DEF L!Commit
  <2> QED BY <2>1, <2>2, <2>3
<1>8. CASE L!Abort(c)
  BY <1>8 DEF L!Abort, L!Rollback
<1>9. CASE L!LockExpire
  BY <1>9 DEF L!LockExpire
<1> QED BY <1>1, <1>2, <1>3, <1>4, <1>5, <1>6, <1>7, <1>8, <1>9 DEF L!CallStep

LEMMA LedgerInvariant == L!Spec => []LedgerInv
<1>1. LedgerInv /\ [L!Next]_(L!vars) => LedgerInv'
  <2> SUFFICES ASSUME LedgerInv, [L!Next]_(L!vars) PROVE LedgerInv'
    OBVIOUS
  <2>1. CASE UNCHANGED L!vars
    BY <2>1 DEF L!vars, LedgerInv, L!TypeOK, BonusInv
  <2>2. ASSUME NEW c \in L!Calls, L!CallStep(c) \/ L!Abort(c) PROVE LedgerInv'
    BY <2>2, InsertStep, OtherStep
  <2>3. CASE L!LockExpire
    <3>1. PICK c \in L!Calls : lock = c
      BY <2>3 DEF L!LockExpire, LedgerInv, L!TypeOK
    <3> QED BY <2>3, OtherStep
  <2> QED BY <2>1, <2>2, <2>3 DEF L!Next
<1> QED BY <1>1, LedgerInit, PTL DEF L!Spec

\* Every variable of the ledger keeps its type for any operations.
THEOREM LedgerTyped == L!Spec => []L!TypeOK
<1>1. LedgerInv => L!TypeOK
  BY DEF LedgerInv
<1> QED BY <1>1, LedgerInvariant, PTL

\* No sequence of debits, credits, failures and lost updates makes bonus.
LEMMA LedgerBonus == L!Spec => []L!BonusNotMinted
<1>1. LedgerInv => L!BonusNotMinted
  BY DEF LedgerInv, BonusInv, Bounded, L!BonusNotMinted
<1> QED BY <1>1, LedgerInvariant, PTL

-------------------------------------------------------------------------------
(* The balance.  While no unlock stole a lock and no row was read past an    *)
(* uncommitted one, a call between its lock and its unlock is alone, at most *)
(* one transaction has rows in the table, and the last row of the table is   *)
(* the sum of what is committed and what that transaction will commit.       *)

\* Every uncommitted row is of call c: c sees the whole table.
OnlyBy(c) == \A r \in rows : r.by \in open => r.by = c

HasOpenRow(c) == c \in open /\ \E r \in rows : r.by = c

\* Ids grow; a settlement that has begun and not ended has its transaction
\* open; only rows of an open transaction are pending.
RowsInv ==
    /\ \A r \in rows : r.id < nextId
    /\ \A c \in Settlements : pc[c] \notin {"start", "done"} => c \in open
    /\ \A r \in rows : r.by \in Settlements =>
                          r.by \in open \/ pc[r.by] = "done"
    /\ \A c \in L!Calls : pending[c] # 0 => HasOpenRow(c)

\* A call between its lock and its unlock holds the lock.
LockHeld == \A c \in L!Calls : pc[c] \in {"locked", "read", "unlock", "failed"} => lock = c

\* One transaction at most has uncommitted rows.
OneWriter == \A r, s \in rows : r.by \in open /\ s.by \in open => r.by = s.by

\* The row a call will build on is still the last one, and it sees every row.
ReadFresh == \A c \in L!Calls : pc[c] = "read" => OnlyBy(c) /\ L!IsLatest(base[c], rows)

\* The last row of all is the balance the open transaction will commit.
LastRow ==
    \A r \in rows, c \in L!Calls :
        L!IsLatest(r, rows) /\ OnlyBy(c) => r.d = InitialRow.d + total + pending[c]

\* The last committed row is the balance.
LastCommitted ==
    \A r \in L!Committed : L!IsLatest(r, L!Committed) => r.d = InitialRow.d + total

Serial == LockHeld /\ OneWriter /\ ReadFresh /\ LastRow /\ LastCommitted

SerialInv == ~stolen /\ ~dirty => Serial

\* Rows of an open transaction belong to a settlement.
LEMMA OpenWriter ==
    ASSUME L!TypeOK, RowsInv, NEW r \in rows, r.by \in open
    PROVE  r.by \in Settlements /\ r.by \in L!Calls
BY DEF L!TypeOK, L!Calls

\* Ids, transactions and pending coins keep to each other at every step.
LEMMA RowsInsert ==
    ASSUME L!TypeOK, RowsInv, NEW c \in L!Calls, L!Insert(c)
    PROVE  RowsInv'
<1> DEFINE new == L!NewRow(base[c], Ops[c][at[c]])
<1>1. PICK row : /\ row = [id |-> nextId, by |-> c, d |-> new.d, b |-> new.b, l |-> new.l]
                 /\ rows' = rows \union {row}
  BY DEF L!Insert
<1> HIDE DEF new
<1>2. row.id = nextId /\ row.by = c
  BY <1>1
<1>3. pc[c] = "read" /\ pc' = [pc EXCEPT ![c] = "unlock"] /\ open' = open
  BY DEF L!Insert, L!Step
<1>4. nextId' = nextId + 1 /\ nextId \in Nat
  BY DEF L!Insert, L!TypeOK
<1>5. \A r \in rows' : r.id < nextId'
  <2>1. \A r \in rows : r.id \in Nat /\ r.id < nextId
    BY DEF L!TypeOK, L!Row, RowsInv
  <2> QED BY <1>1, <1>2, <1>4, <2>1
<1>6. \A d \in Settlements : pc'[d] \notin {"start", "done"} => d \in open'
  BY <1>3 DEF RowsInv, L!TypeOK, L!Calls
<1>7. \A r \in rows' : r.by \in Settlements => r.by \in open' \/ pc'[r.by] = "done"
  BY <1>1, <1>2, <1>3 DEF RowsInv, L!TypeOK, L!Calls
<1>8. ASSUME NEW d \in L!Calls, pending'[d] # 0
      PROVE  d \in open' /\ \E r \in rows' : r.by = d
  <2>1. CASE c \in Updates
    <3>1. pending' = pending
      BY <2>1 DEF L!Insert
    <3> QED BY <1>1, <1>3, <1>8, <3>1 DEF RowsInv, HasOpenRow
  <2>2. CASE c \notin Updates
    <3>1. pending' = [pending EXCEPT ![c] = @ + L!Coins(c)]
      BY <2>2 DEF L!Insert
    <3>2. CASE d = c
      <4>1. c \in Settlements
        BY <2>2 DEF L!Calls
      <4> QED BY <1>1, <1>2, <1>3, <3>2, <4>1 DEF RowsInv
    <3>3. CASE d # c
      BY <1>1, <1>3, <1>8, <3>1, <3>3 DEF RowsInv, HasOpenRow, L!TypeOK
    <3> QED BY <3>2, <3>3
  <2> QED BY <2>1, <2>2
<1> QED BY <1>5, <1>6, <1>7, <1>8 DEF RowsInv, HasOpenRow

LEMMA RowsRollback ==
    ASSUME L!TypeOK, RowsInv, NEW c \in L!Calls, L!Rollback(c), nextId' = nextId,
           pc' = [pc EXCEPT ![c] = "done"]
    PROVE  RowsInv'
<1> USE DEF RowsInv, HasOpenRow, L!TypeOK, L!Calls
<1>1. rows' \subseteq rows /\ open' = open \ {c}
  BY DEF L!Rollback
<1>2. \A r \in rows' : r.id < nextId'
  BY <1>1
<1>3. \A d \in Settlements : pc'[d] \notin {"start", "done"} => d \in open'
  BY <1>1
<1>4. \A r \in rows' : r.by \in Settlements => r.by \in open' \/ pc'[r.by] = "done"
  BY <1>1
<1>5. ASSUME NEW d \in L!Calls, pending'[d] # 0
      PROVE  d \in open' /\ \E r \in rows' : r.by = d
  <2>1. d # c /\ pending[d] # 0
    BY <1>5 DEF L!Rollback
  <2>2. PICK r \in rows : d \in open /\ r.by = d
    BY <2>1
  <2> QED BY <1>1, <2>1, <2>2 DEF L!Rollback
<1> QED BY <1>2, <1>3, <1>4, <1>5

LEMMA RowsOther ==
    ASSUME L!TypeOK, RowsInv, NEW c \in L!Calls,
           (L!CallStep(c) /\ ~L!Insert(c)) \/ L!Abort(c) \/ L!LockExpire
    PROVE  RowsInv'
<1> USE DEF RowsInv, HasOpenRow, L!TypeOK, L!Calls, L!Step
<1>1. CASE L!Acquire(c)
  BY <1>1 DEF L!Acquire
<1>2. CASE L!Read(c)
  BY <1>2 DEF L!Read
<1>3. CASE L!Fail(c)
  BY <1>3 DEF L!Fail
<1>4. CASE L!Unlock(c)
  BY <1>4 DEF L!Unlock
<1>5. CASE L!UnlockAgain(c)
  <2>1. UNCHANGED <<rows, nextId, open, pending>>
    BY <1>5 DEF L!UnlockAgain
  <2>2. PICK l \in {"start", "done", "commit"} :
           /\ pc' = [pc EXCEPT ![c] = l]
           /\ l = "commit" => c \in Settlements
    BY <1>5 DEF L!UnlockAgain
  <2>3. c \in Settlements => c \in open
    BY <1>5 DEF L!UnlockAgain
  <2> QED BY <2>1, <2>2, <2>3
<1>6. CASE L!UnlockFailed(c)
  BY <1>6, RowsRollback DEF L!UnlockFailed
<1>7. CASE L!Commit(c)
  BY <1>7 DEF L!Commit
<1>8. CASE L!Abort(c)
  BY <1>8, RowsRollback DEF L!Abort
<1>9. CASE L!LockExpire
  BY <1>9 DEF L!LockExpire
<1> QED BY <1>1, <1>2, <1>3, <1>4, <1>5, <1>6, <1>7, <1>8, <1>9 DEF L!CallStep

\* The insert of a call that is alone appends the new last row.
LEMMA SerialInsert ==
    ASSUME L!TypeOK, RowsInv, Serial, NEW c \in L!Calls, L!Insert(c)
    PROVE  Serial'
<1> DEFINE new == L!NewRow(base[c], Ops[c][at[c]])
<1>1. PICK row : /\ row = [id |-> nextId, by |-> c, d |-> new.d, b |-> new.b, l |-> new.l]
                 /\ rows' = rows \union {row}
  BY DEF L!Insert
<1>2. new.d = base[c].d + L!Coins(c)
  BY DEF L!NewRow, L!Coins
<1> HIDE DEF new
<1>3. row.id = nextId /\ row.by = c /\ row.d = base[c].d + L!Coins(c)
  BY <1>1, <1>2
<1>4. /\ pc[c] = "read" /\ pc' = [pc EXCEPT ![c] = "unlock"]
      /\ UNCHANGED <<open, lock, base>>
  BY DEF L!Insert, L!Step
<1>5. OnlyBy(c) /\ L!IsLatest(base[c], rows) /\ lock = c
  BY <1>4 DEF Serial, LockHeld, ReadFresh
<1>6. base[c].d = InitialRow.d + total + pending[c]
  <2>1. PICK r \in rows : r = base[c]
    BY <1>5 DEF L!IsLatest
  <2> QED BY <1>5, <2>1 DEF Serial, LastRow
<1>7. \A r \in rows : r.id \in Nat /\ r.id < nextId /\ nextId \in Nat
  BY DEF L!TypeOK, L!Row, RowsInv
<1>8. \A r \in rows' : L!IsLatest(r, rows') => r = row
  BY <1>1, <1>3, <1>7 DEF L!IsLatest
<1>9. \A r \in rows : r.by \in open => r.by = c
  BY <1>5 DEF OnlyBy
<1>10. \A d \in L!Calls : pending[d] # 0 => d = c /\ c \in open
  BY <1>9 DEF RowsInv, HasOpenRow
<1>11. InitialRow.d \in Int /\ total \in Int /\ L!Coins(c) \in Int /\ pending[c] \in Int
  BY LedgerAssumption, CoinsType DEF L!TypeOK
<1>12. LockHeld'
  BY <1>4, <1>5 DEF Serial, LockHeld, L!TypeOK
<1>13. OneWriter'
  BY <1>1, <1>3, <1>4, <1>9 DEF OneWriter
<1>14. ReadFresh'
  <2> SUFFICES ASSUME NEW d \in L!Calls, pc'[d] = "read" PROVE FALSE
    BY DEF ReadFresh
  <2>1. d # c /\ pc[d] = "read"
    BY <1>4 DEF L!TypeOK
  <2> QED BY <2>1, <1>5 DEF Serial, LockHeld
<1>15. CASE c \in Updates
  <2>1. total' = total + L!Coins(c) /\ pending' = pending
    BY <1>15 DEF L!Insert
  <2>2. c \notin open
    BY <1>15, LedgerAssumption DEF L!TypeOK
  <2>3. \A d \in L!Calls : pending[d] = 0
    BY <1>10, <2>2
  <2>4. row.d = InitialRow.d + total' + 0
    BY <1>3, <1>6, <1>11, <2>1, <2>3
  <2>5. LastRow'
    BY <1>8, <2>1, <2>3, <2>4 DEF LastRow
  <2>6. L!Committed' = rows'
    BY <1>1, <1>3, <1>4, <1>9, <2>2 DEF L!Committed
  <2>7. InitialRow.d + total' = row.d
    BY <1>11, <2>1, <2>4
  <2>8. LastCommitted'
    BY <1>8, <2>6, <2>7 DEF LastCommitted
  <2> QED BY <1>12, <1>13, <1>14, <2>5, <2>8 DEF Serial
<1>16. CASE c \notin Updates
  <2>1. total' = total /\ pending' = [pending EXCEPT ![c] = @ + L!Coins(c)]
    BY <1>16 DEF L!Insert
  <2>2. c \in open
    BY <1>4, <1>16 DEF L!Calls, RowsInv
  <2>3. row.d = InitialRow.d + total' + pending'[c]
    <3>1. pending'[c] = pending[c] + L!Coins(c)
      BY <2>1 DEF L!TypeOK
    <3> QED BY <1>3, <1>6, <1>11, <2>1, <3>1
  <2>4. LastRow'
    <3> SUFFICES ASSUME NEW r \in rows', NEW d \in L!Calls, L!IsLatest(r, rows'), OnlyBy(d)'
                 PROVE  r.d = InitialRow.d + total' + pending'[d]
      BY DEF LastRow, L!IsLatest
    <3>1. r = row
      BY <1>8
    <3>2. d = c
      BY <1>1, <1>3, <1>4, <2>2 DEF OnlyBy
    <3> QED BY <2>3, <3>1, <3>2
  <2>5. L!Committed' = L!Committed
    BY <1>1, <1>3, <1>4, <2>2 DEF L!Committed
  <2>6. LastCommitted'
    BY <2>1, <2>5 DEF Serial, LastCommitted, L!IsLatest
  <2> QED BY <1>12, <1>13, <1>14, <2>4, <2>6 DEF Serial
<1> QED BY <1>15, <1>16

\* A rollback leaves the committed rows, and the last of them is the last of all.
LEMMA SerialRollback ==
    ASSUME L!TypeOK, RowsInv, Serial, NEW c \in L!Calls, L!Rollback(c),
           pc' = [pc EXCEPT ![c] = "done"], lock' \in {lock, Nobody},
           lock' # lock => lock \in {Nobody, c}, UNCHANGED <<base, total>>
    PROVE  Serial'
<1>1. /\ open' = open \ {c}
      /\ rows' = {r \in rows : r.by \in open => r.by # c}
      /\ pending' = [pending EXCEPT ![c] = 0]
  BY DEF L!Rollback
<1>2. \A d \in L!Calls : pc'[d] \in {"locked", "read", "unlock", "failed"} =>
                         d # c /\ pc'[d] = pc[d] /\ lock' = d /\ lock = d
  BY LedgerAssumption DEF Serial, LockHeld, L!TypeOK
<1>3. LockHeld'
  BY <1>2 DEF LockHeld
<1>4. OneWriter'
  BY <1>1 DEF Serial, OneWriter
<1>5. CASE HasOpenRow(c)
  <2>1. OnlyBy(c)
    BY <1>5 DEF Serial, OneWriter, OnlyBy, HasOpenRow
  <2>2. \A d \in L!Calls : pending'[d] = 0
    BY <1>1, <2>1 DEF RowsInv, HasOpenRow, OnlyBy, L!TypeOK
  <2>3. rows' = L!Committed /\ L!Committed' = L!Committed
    BY <1>1, <1>5, <2>1 DEF OnlyBy, L!Committed, HasOpenRow
  <2>4. LastCommitted'
    BY <2>3 DEF Serial, LastCommitted, L!IsLatest
  <2>5. InitialRow.d + total' = InitialRow.d + total' + 0
    BY LedgerAssumption DEF L!TypeOK
  <2>6. LastRow'
    <3> SUFFICES ASSUME NEW r \in rows', NEW d \in L!Calls, L!IsLatest(r, rows')
                 PROVE  r.d = InitialRow.d + total' + pending'[d]
      BY DEF LastRow
    <3>1. r.d = InitialRow.d + total'
      BY <2>3 DEF Serial, LastCommitted, L!IsLatest
    <3> QED BY <2>2, <2>5, <3>1
  <2>7. ReadFresh'
    <3> SUFFICES ASSUME NEW d \in L!Calls, pc'[d] = "read" PROVE FALSE
      BY DEF ReadFresh
    <3>1. d # c /\ OnlyBy(d)
      BY <1>2 DEF Serial, ReadFresh
    <3> QED BY <1>5, <3>1 DEF OnlyBy, HasOpenRow
  <2> QED BY <1>3, <1>4, <2>4, <2>6, <2>7 DEF Serial
<1>6. CASE ~HasOpenRow(c)
  <2>1. rows' = rows /\ pending' = pending
    BY <1>1, <1>6 DEF HasOpenRow, RowsInv, L!TypeOK
  <2>2. \A r \in rows : r.by \in open' <=> r.by \in open
    BY <1>1, <1>6 DEF HasOpenRow
  <2>3. L!Committed' = L!Committed /\ \A d \in L!Calls : OnlyBy(d)' <=> OnlyBy(d)
    BY <2>1, <2>2 DEF L!Committed, OnlyBy
  <2>4. LastCommitted' /\ LastRow'
    BY <2>1, <2>3 DEF Serial, LastCommitted, LastRow, L!IsLatest
  <2>5. ReadFresh'
    BY <1>2, <2>1, <2>3 DEF Serial, ReadFresh, L!IsLatest
  <2> QED BY <1>3, <1>4, <2>4, <2>5 DEF Serial
<1> QED BY <1>5, <1>6

\* The commit of the one transaction with rows makes the last row the balance.
LEMMA SerialCommit ==
    ASSUME L!TypeOK, RowsInv, Serial, NEW c \in L!Calls, L!Commit(c)
    PROVE  Serial'
<1>1. /\ pc[c] = "commit" /\ pc' = [pc EXCEPT ![c] = "done"]
      /\ open' = open \ {c} /\ total' = total + pending[c]
      /\ pending' = [pending EXCEPT ![c] = 0]
      /\ UNCHANGED <<lock, rows, base>>
  BY DEF L!Commit, L!Step
<1>2. \A d \in L!Calls : pc'[d] \in {"locked", "read", "unlock", "failed"} =>
                         d # c /\ pc'[d] = pc[d] /\ lock' = d
  BY <1>1 DEF Serial, LockHeld, L!TypeOK
<1>3. LockHeld' /\ OneWriter'
  BY <1>1, <1>2 DEF Serial, LockHeld, OneWriter
<1>4. InitialRow.d \in Int /\ total \in Int /\ pending[c] \in Int
  BY LedgerAssumption DEF L!TypeOK
<1>5. CASE HasOpenRow(c)
  <2>1. OnlyBy(c)
    BY <1>5 DEF Serial, OneWriter, OnlyBy, HasOpenRow
  <2>2. \A d \in L!Calls : pending'[d] = 0
    BY <1>1, <2>1 DEF RowsInv, HasOpenRow, OnlyBy, L!TypeOK
  <2>3. L!Committed' = rows
    BY <1>1, <2>1 DEF OnlyBy, L!Committed
  <2>4. \A r \in rows : L!IsLatest(r, rows) =>
                          r.d = InitialRow.d + total' /\ r.d = InitialRow.d + total' + 0
    BY <1>1, <1>4, <2>1 DEF Serial, LastRow
  <2>5. LastCommitted' /\ LastRow'
    BY <1>1, <2>2, <2>3, <2>4 DEF LastCommitted, LastRow, L!IsLatest
  <2>6. ReadFresh'
    <3> SUFFICES ASSUME NEW d \in L!Calls, pc'[d] = "read" PROVE FALSE
      BY DEF ReadFresh
    <3>1. d # c /\ OnlyBy(d)
      BY <1>2 DEF Serial, ReadFresh
    <3> QED BY <1>5, <3>1 DEF OnlyBy, HasOpenRow
  <2> QED BY <1>3, <2>5, <2>6 DEF Serial
<1>6. CASE ~HasOpenRow(c)
  <2>1. pending[c] = 0 /\ pending' = pending /\ total' = total
    BY <1>1, <1>4, <1>6 DEF RowsInv, L!TypeOK
  <2>2. \A r \in rows : r.by \in open' <=> r.by \in open
    BY <1>1, <1>6 DEF HasOpenRow
  <2>3. L!Committed' = L!Committed /\ \A d \in L!Calls : OnlyBy(d)' <=> OnlyBy(d)
    BY <1>1, <2>2 DEF L!Committed, OnlyBy
  <2>4. LastCommitted' /\ LastRow'
    BY <1>1, <2>1, <2>3 DEF Serial, LastCommitted, LastRow, L!IsLatest
  <2>5. ReadFresh'
    BY <1>1, <1>2, <2>3 DEF Serial, ReadFresh, L!IsLatest
  <2> QED BY <1>3, <2>4, <2>5 DEF Serial
<1> QED BY <1>5, <1>6

\* What is left of a call: a step that changes neither rows nor sums keeps the
\* last rows; only the lock, what is open without rows, and the base may change.
LEMMA SerialStill ==
    ASSUME L!TypeOK, RowsInv, Serial, UNCHANGED <<rows, total, pending>>,
           \A r \in rows : r.by \in open' <=> r.by \in open,
           LockHeld',
           \A c \in L!Calls : pc'[c] = "read" =>
               \/ pc[c] = "read" /\ base'[c] = base[c]
               \/ OnlyBy(c) /\ L!IsLatest(base'[c], rows)
    PROVE  Serial'
<1>1. OneWriter'
  BY DEF Serial, OneWriter
<1>2. L!Committed' = L!Committed /\ \A d \in L!Calls : OnlyBy(d)' <=> OnlyBy(d)
  BY DEF L!Committed, OnlyBy
<1>3. LastCommitted' /\ LastRow'
  BY <1>2 DEF Serial, LastCommitted, LastRow, L!IsLatest
<1>4. ReadFresh'
  BY <1>2 DEF Serial, ReadFresh, L!IsLatest
<1> QED BY <1>1, <1>3, <1>4 DEF Serial

\* A call that is alone stays so through every other step, unless the step
\* steals a lock or reads past an uncommitted row.
LEMMA SerialOther ==
    ASSUME L!TypeOK, RowsInv, Serial, ~stolen', ~dirty', NEW c \in L!Calls,
           (L!CallStep(c) /\ ~L!Insert(c)) \/ L!Abort(c) \/ L!LockExpire
    PROVE  Serial'
<1> USE DEF L!Step
<1>1. CASE L!Acquire(c)
  <2>1. lock = Nobody /\ lock' = c /\ pc[c] = "start"
    BY <1>1 DEF L!Acquire
  <2>2. \A r \in rows : r.by = c => (r.by \in open' <=> r.by \in open)
    BY <1>1, <2>1 DEF L!Acquire, RowsInv
  <2>3. LockHeld'
    BY <1>1, <2>1, LedgerAssumption DEF L!Acquire, Serial, LockHeld, L!TypeOK
  <2> QED BY <1>1, <2>2, <2>3, SerialStill DEF L!Acquire, L!TypeOK
<1>2. CASE L!Read(c)
  <2>1. L!Visible(c) = rows
    BY <1>2 DEF L!Read
  <2>2. OnlyBy(c)
    BY <2>1 DEF L!Visible, OnlyBy
  <2>3. L!IsLatest(base'[c], rows)
    BY <1>2, <2>1 DEF L!Read, L!TypeOK
  <2>4. LockHeld'
    BY <1>2 DEF L!Read, Serial, LockHeld, L!TypeOK
  <2> QED BY <1>2, <2>2, <2>3, <2>4, SerialStill DEF L!Read, L!TypeOK
<1>3. CASE L!Fail(c)
  <2>1. LockHeld'
    BY <1>3 DEF L!Fail, Serial, LockHeld, L!TypeOK
  <2> QED BY <1>3, <2>1, SerialStill DEF L!Fail, L!TypeOK
<1>4. CASE L!Unlock(c)
  <2>1. LockHeld'
    BY <1>4 DEF L!Unlock, L!Release, Serial, LockHeld, L!TypeOK
  <2> QED BY <1>4, <2>1, SerialStill DEF L!Unlock, L!TypeOK
<1>5. CASE L!UnlockAgain(c)
  <2>1. lock \in {Nobody, c} /\ lock' = Nobody
    BY <1>5 DEF L!UnlockAgain, L!Release
  <2>2. PICK l \in {"start", "done", "commit"} : pc' = [pc EXCEPT ![c] = l]
    BY <1>5 DEF L!UnlockAgain
  <2>3. LockHeld'
    BY <2>1, <2>2, LedgerAssumption DEF Serial, LockHeld, L!TypeOK
  <2> QED BY <1>5, <2>2, <2>3, SerialStill DEF L!UnlockAgain, L!TypeOK
<1>6. CASE L!UnlockFailed(c)
  BY <1>6, SerialRollback DEF L!UnlockFailed, L!Release
<1>7. CASE L!Commit(c)
  BY <1>7, SerialCommit
<1>8. CASE L!Abort(c)
  BY <1>8, SerialRollback DEF L!Abort
<1>9. CASE L!LockExpire
  <2>1. LockHeld'
    BY <1>9 DEF L!LockExpire, Serial, LockHeld, L!TypeOK
  <2> QED BY <1>9, <2>1, SerialStill DEF L!LockExpire
<1> QED BY <1>1, <1>2, <1>3, <1>4, <1>5, <1>6, <1>7, <1>8, <1>9 DEF L!CallStep

\* History flags only rise.
LEMMA FlagsRise ==
    ASSUME L!TypeOK, L!Next
    PROVE  (stolen => stolen') /\ (dirty => dirty')
BY DEF L!Next, L!CallStep, L!Acquire, L!Read, L!Insert, L!Fail, L!Unlock, L!UnlockAgain,
       L!UnlockFailed, L!Commit, L!Abort, L!LockExpire, L!Release, L!TypeOK

LEMMA SerialInvariant == L!Spec => [](RowsInv /\ SerialInv)
<1>1. L!Init => RowsInv /\ SerialInv
  <2> SUFFICES ASSUME L!Init PROVE RowsInv /\ Serial
    BY DEF SerialInv
  <2> USE DEF L!Init
  <2>1. L!FirstRow.id = 0 /\ L!FirstRow.by = Nobody /\ L!FirstRow.d = InitialRow.d
    BY DEF L!FirstRow
  <2>2. RowsInv
    BY <2>1, LedgerAssumption DEF RowsInv, L!Calls
  <2>3. LockHeld /\ OneWriter /\ ReadFresh
    BY <2>1 DEF LockHeld, OneWriter, ReadFresh
  <2>4. InitialRow.d + 0 = InitialRow.d /\ InitialRow.d + 0 + 0 = InitialRow.d
    BY LedgerAssumption
  <2>5. LastRow /\ LastCommitted
    BY <2>1, <2>4 DEF LastRow, LastCommitted, L!Committed
  <2> QED BY <2>2, <2>3, <2>5 DEF Serial
<1>2. LedgerInv /\ RowsInv /\ SerialInv /\ [L!Next]_(L!vars) => (RowsInv /\ SerialInv)'
  <2> SUFFICES ASSUME L!TypeOK, RowsInv, SerialInv, [L!Next]_(L!vars)
               PROVE  (RowsInv /\ SerialInv)'
    BY DEF LedgerInv
  <2>1. CASE UNCHANGED L!vars
    BY <2>1 DEF L!vars, RowsInv, HasOpenRow, SerialInv, Serial, LockHeld, OneWriter,
                ReadFresh, LastRow, LastCommitted, OnlyBy, L!IsLatest, L!Committed
  <2>2. CASE L!Next
    <3>1. PICK c \in L!Calls : L!CallStep(c) \/ L!Abort(c) \/ L!LockExpire
      BY <2>2 DEF L!Next, L!LockExpire, L!TypeOK
    <3>2. RowsInv'
      BY <3>1, RowsInsert, RowsOther
    <3>3. SerialInv'
      <4> SUFFICES ASSUME ~stolen', ~dirty' PROVE Serial'
        BY DEF SerialInv
      <4>1. Serial
        BY <2>2, FlagsRise DEF SerialInv
      <4> QED BY <3>1, <4>1, SerialInsert, SerialOther
    <3> QED BY <3>2, <3>3
  <2> QED BY <2>1, <2>2
<1> QED BY <1>1, <1>2, LedgerInvariant, PTL DEF L!Spec

\* Whatever updates of a user interleave, fail or crash, the balance is the first
\* one plus every committed operation, as long as no unlock released another
\* call's lock and no row was read past an uncommitted one.
LEMMA LedgerBalance == L!Spec => []L!BalanceIsSumOfOperations
<1>1. SerialInv => L!BalanceIsSumOfOperations
  BY DEF SerialInv, Serial, LastCommitted, L!BalanceIsSumOfOperations
<1> QED BY <1>1, SerialInvariant, PTL

-------------------------------------------------------------------------------
(* PAYOUT.  None of the properties is inductive.  What makes them so: the    *)
(* handler between taking and deleting the key owns it (KeyIsOwned), and the *)
(* row names every attempt the gateway may have, so that a handler that has  *)
(* asked after it knows there is none left (AttemptIsRecorded).              *)

Attempts == sent \union accepted

\* The handler between taking and deleting the key is the key's owner.
KeyIsOwned == ~keyLapsed => \A h \in Handlers : pc[h] \in P!Keyed => key = {h}

\* A withdrawal cancelled in time has no attempt and no handler that lists it.
CancelledInTime ==
    status = "X" /\ ~raced =>
        Attempts = {} /\ \A h \in Handlers : pc[h] \notin P!Listed

\* The row names every attempt; a handler about to make one has made sure that
\* none is left.
AttemptIsRecorded ==
    ~keyLapsed /\ ~blind /\ ~raced =>
        /\ Attempts \subseteq {transferid}
        /\ \A h \in Handlers :
            /\ pc[h] \in {"query", "assign"} => seen[h] = transferid
            /\ pc[h] \in {"assign", "send"} => Attempts = {}
            /\ pc[h] = "send" => transferid = h

\* A handler completes only what the gateway accepted.
CompletesAccepted == \A h \in Handlers : pc[h] = "complete" => accepted # {}

\* A withdrawal once cancelled is never active again.
RacedIsOver == raced => status # "A"

Completion == CompletesAccepted /\ P!CompletedHasTransfer

USE DEF P!Keyed, P!Listed, P!row, P!gateway, P!history

-------------------------------------------------------------------------------
(* Type correctness *)

LEMMA PayoutTypeInit == P!Init => P!TypeOK
BY DEF P!Init, P!TypeOK

\* Every step keeps the types.
LEMMA PayoutTypeStep == P!TypeOK /\ [P!Next]_(P!vars) => P!TypeOK'
<1> SUFFICES ASSUME P!TypeOK, [P!Next]_(P!vars) PROVE P!TypeOK'
  OBVIOUS
<1> USE PayoutAssumption DEF P!TypeOK, P!Step
<1>1. ASSUME NEW h \in Handlers PROVE
        /\ P!Arrive(h) => P!TypeOK'
        /\ P!Lock(h) => P!TypeOK'
        /\ P!Unlock(h) => P!TypeOK'
        /\ P!FindKey(h) => P!TypeOK'
        /\ P!TakeKey(h) => P!TypeOK'
        /\ P!DeleteKey(h) => P!TypeOK'
        /\ P!ReadRow(h) => P!TypeOK'
        /\ P!QueryFound(h) => P!TypeOK'
        /\ P!QueryNotFound(h) => P!TypeOK'
        /\ P!Assign(h) => P!TypeOK'
        /\ P!Send(h) => P!TypeOK'
        /\ P!AnswerAccepted(h) => P!TypeOK'
        /\ P!AnswerError(h) => P!TypeOK'
        /\ P!GiveUp(h) => P!TypeOK'
        /\ P!Complete(h) => P!TypeOK'
        /\ P!Crash(h) => P!TypeOK'
        /\ P!Decide(h) => P!TypeOK'
        /\ P!ShowReference(h) => P!TypeOK'
  <2>1. P!Arrive(h) => P!TypeOK'
    BY DEF P!Arrive
  <2>2. P!Lock(h) => P!TypeOK'
    BY DEF P!Lock
  <2>3. P!Unlock(h) => P!TypeOK'
    BY DEF P!Unlock
  <2>4. P!FindKey(h) => P!TypeOK'
    BY DEF P!FindKey
  <2>5. P!TakeKey(h) => P!TypeOK'
    BY DEF P!TakeKey
  <2>6. P!DeleteKey(h) => P!TypeOK'
    BY DEF P!DeleteKey
  <2>7. P!ReadRow(h) => P!TypeOK'
    BY DEF P!ReadRow
  <2>8. P!QueryFound(h) => P!TypeOK'
    BY DEF P!QueryFound
  <2>9. P!QueryNotFound(h) => P!TypeOK'
    BY DEF P!QueryNotFound
  <2>10. P!Assign(h) => P!TypeOK'
    BY DEF P!Assign
  <2>11. P!Send(h) => P!TypeOK'
    BY DEF P!Send
  <2>12. P!AnswerAccepted(h) => P!TypeOK'
    BY DEF P!AnswerAccepted
  <2>13. P!AnswerError(h) => P!TypeOK'
    BY DEF P!AnswerError
  <2>14. P!GiveUp(h) => P!TypeOK'
    BY DEF P!GiveUp
  <2>15. P!Complete(h) => P!TypeOK'
    BY DEF P!Complete
  <2>16. P!Crash(h) => P!TypeOK'
    BY DEF P!Crash
  <2>17. P!Decide(h) => P!TypeOK'
    BY DEF P!Decide
  <2>18. P!ShowReference(h) => P!TypeOK'
    BY DEF P!ShowReference
  <2> QED BY <2>1, <2>2, <2>3, <2>4, <2>5, <2>6, <2>7, <2>8, <2>9, <2>10, <2>11, <2>12, <2>13, <2>14, <2>15, <2>16, <2>17, <2>18
<1>2. CASE P!LockExpire
  BY <1>2 DEF P!LockExpire
<1>3. CASE P!KeyExpire
  BY <1>3 DEF P!KeyExpire
<1>4. CASE P!Cancel
  BY <1>4 DEF P!Cancel
<1>5. CASE UNCHANGED P!vars
  BY <1>5 DEF P!vars
<1> QED BY <1>1, <1>2, <1>3, <1>4, <1>5 DEF P!Next

\* Type correctness of every reachable state.
THEOREM PayoutTyped == P!Spec => []P!TypeOK
<1>1. P!Init => P!TypeOK
  BY PayoutTypeInit
<1>2. P!TypeOK /\ [P!Next]_(P!vars) => P!TypeOK'
  BY PayoutTypeStep
<1> QED BY <1>1, <1>2, PTL DEF P!Spec

-------------------------------------------------------------------------------
(* One handler at a time *)

\* No step takes the key from its owner but its expiry, which is remembered.
LEMMA KeyStep == P!TypeOK /\ KeyIsOwned /\ [P!Next]_(P!vars) => KeyIsOwned'
<1> SUFFICES ASSUME P!TypeOK, KeyIsOwned, [P!Next]_(P!vars) PROVE KeyIsOwned'
  OBVIOUS
<1> USE PayoutAssumption DEF P!TypeOK, KeyIsOwned, P!Step
<1>1. ASSUME NEW h \in Handlers PROVE
        /\ P!Arrive(h) => KeyIsOwned'
        /\ P!Lock(h) => KeyIsOwned'
        /\ P!Unlock(h) => KeyIsOwned'
        /\ P!FindKey(h) => KeyIsOwned'
        /\ P!TakeKey(h) => KeyIsOwned'
        /\ P!DeleteKey(h) => KeyIsOwned'
        /\ P!ReadRow(h) => KeyIsOwned'
        /\ P!QueryFound(h) => KeyIsOwned'
        /\ P!QueryNotFound(h) => KeyIsOwned'
        /\ P!Assign(h) => KeyIsOwned'
        /\ P!Send(h) => KeyIsOwned'
        /\ P!AnswerAccepted(h) => KeyIsOwned'
        /\ P!AnswerError(h) => KeyIsOwned'
        /\ P!GiveUp(h) => KeyIsOwned'
        /\ P!Complete(h) => KeyIsOwned'
        /\ P!Crash(h) => KeyIsOwned'
        /\ P!Decide(h) => KeyIsOwned'
        /\ P!ShowReference(h) => KeyIsOwned'
  <2>1. P!Arrive(h) => KeyIsOwned'
    BY DEF P!Arrive
  <2>2. P!Lock(h) => KeyIsOwned'
    BY DEF P!Lock
  <2>3. P!Unlock(h) => KeyIsOwned'
    BY DEF P!Unlock
  <2>4. P!FindKey(h) => KeyIsOwned'
    BY DEF P!FindKey
  <2>5. P!TakeKey(h) => KeyIsOwned'
    BY DEF P!TakeKey
  <2>6. P!DeleteKey(h) => KeyIsOwned'
    BY DEF P!DeleteKey
  <2>7. P!ReadRow(h) => KeyIsOwned'
    BY DEF P!ReadRow
  <2>8. P!QueryFound(h) => KeyIsOwned'
    BY DEF P!QueryFound
  <2>9. P!QueryNotFound(h) => KeyIsOwned'
    BY DEF P!QueryNotFound
  <2>10. P!Assign(h) => KeyIsOwned'
    BY DEF P!Assign
  <2>11. P!Send(h) => KeyIsOwned'
    BY DEF P!Send
  <2>12. P!AnswerAccepted(h) => KeyIsOwned'
    BY DEF P!AnswerAccepted
  <2>13. P!AnswerError(h) => KeyIsOwned'
    BY DEF P!AnswerError
  <2>14. P!GiveUp(h) => KeyIsOwned'
    BY DEF P!GiveUp
  <2>15. P!Complete(h) => KeyIsOwned'
    BY DEF P!Complete
  <2>16. P!Crash(h) => KeyIsOwned'
    BY DEF P!Crash
  <2>17. P!Decide(h) => KeyIsOwned'
    BY DEF P!Decide
  <2>18. P!ShowReference(h) => KeyIsOwned'
    BY DEF P!ShowReference
  <2> QED BY <2>1, <2>2, <2>3, <2>4, <2>5, <2>6, <2>7, <2>8, <2>9, <2>10, <2>11, <2>12, <2>13, <2>14, <2>15, <2>16, <2>17, <2>18
<1>2. CASE P!LockExpire
  BY <1>2 DEF P!LockExpire
<1>3. CASE P!KeyExpire
  BY <1>3 DEF P!KeyExpire
<1>4. CASE P!Cancel
  BY <1>4 DEF P!Cancel
<1>5. CASE UNCHANGED P!vars
  BY <1>5 DEF P!vars
<1> QED BY <1>1, <1>2, <1>3, <1>4, <1>5 DEF P!Next

\* While the key does not expire under a handler, no two process the withdrawal:
\* both would own the key.
THEOREM OneProcessorHolds == P!Spec => []P!OneProcessor
<1>1. P!Init => KeyIsOwned
  BY DEF P!Init, KeyIsOwned
<1>2. P!TypeOK /\ KeyIsOwned /\ [P!Next]_(P!vars) => KeyIsOwned'
  BY KeyStep
<1>3. KeyIsOwned => P!OneProcessor
  BY DEF KeyIsOwned, P!OneProcessor
<1> QED BY <1>1, <1>2, <1>3, PayoutTyped, PTL DEF P!Spec

-------------------------------------------------------------------------------
(* Completion *)

\* A handler gets to complete only by a referenceId, and accepted transfers stay
\* accepted.
LEMMA CompletionStep == P!TypeOK /\ Completion /\ [P!Next]_(P!vars) => Completion'
<1> SUFFICES ASSUME P!TypeOK, Completion, [P!Next]_(P!vars) PROVE Completion'
  OBVIOUS
<1> USE PayoutAssumption DEF P!TypeOK, Completion, CompletesAccepted, P!CompletedHasTransfer, P!Step
<1>1. ASSUME NEW h \in Handlers PROVE
        /\ P!Arrive(h) => Completion'
        /\ P!Lock(h) => Completion'
        /\ P!Unlock(h) => Completion'
        /\ P!FindKey(h) => Completion'
        /\ P!TakeKey(h) => Completion'
        /\ P!DeleteKey(h) => Completion'
        /\ P!ReadRow(h) => Completion'
        /\ P!QueryFound(h) => Completion'
        /\ P!QueryNotFound(h) => Completion'
        /\ P!Assign(h) => Completion'
        /\ P!Send(h) => Completion'
        /\ P!AnswerAccepted(h) => Completion'
        /\ P!AnswerError(h) => Completion'
        /\ P!GiveUp(h) => Completion'
        /\ P!Complete(h) => Completion'
        /\ P!Crash(h) => Completion'
        /\ P!Decide(h) => Completion'
        /\ P!ShowReference(h) => Completion'
  <2>1. P!Arrive(h) => Completion'
    BY DEF P!Arrive
  <2>2. P!Lock(h) => Completion'
    BY DEF P!Lock
  <2>3. P!Unlock(h) => Completion'
    BY DEF P!Unlock
  <2>4. P!FindKey(h) => Completion'
    BY DEF P!FindKey
  <2>5. P!TakeKey(h) => Completion'
    BY DEF P!TakeKey
  <2>6. P!DeleteKey(h) => Completion'
    BY DEF P!DeleteKey
  <2>7. P!ReadRow(h) => Completion'
    BY DEF P!ReadRow
  <2>8. P!QueryFound(h) => Completion'
    BY DEF P!QueryFound
  <2>9. P!QueryNotFound(h) => Completion'
    BY DEF P!QueryNotFound
  <2>10. P!Assign(h) => Completion'
    BY DEF P!Assign
  <2>11. P!Send(h) => Completion'
    BY DEF P!Send
  <2>12. P!AnswerAccepted(h) => Completion'
    BY DEF P!AnswerAccepted
  <2>13. P!AnswerError(h) => Completion'
    BY DEF P!AnswerError
  <2>14. P!GiveUp(h) => Completion'
    BY DEF P!GiveUp
  <2>15. P!Complete(h) => Completion'
    BY DEF P!Complete
  <2>16. P!Crash(h) => Completion'
    BY DEF P!Crash
  <2>17. P!Decide(h) => Completion'
    BY DEF P!Decide
  <2>18. P!ShowReference(h) => Completion'
    BY DEF P!ShowReference
  <2> QED BY <2>1, <2>2, <2>3, <2>4, <2>5, <2>6, <2>7, <2>8, <2>9, <2>10, <2>11, <2>12, <2>13, <2>14, <2>15, <2>16, <2>17, <2>18
<1>2. CASE P!LockExpire
  BY <1>2 DEF P!LockExpire
<1>3. CASE P!KeyExpire
  BY <1>3 DEF P!KeyExpire
<1>4. CASE P!Cancel
  BY <1>4 DEF P!Cancel
<1>5. CASE UNCHANGED P!vars
  BY <1>5 DEF P!vars
<1> QED BY <1>1, <1>2, <1>3, <1>4, <1>5 DEF P!Next

\* Every completed withdrawal has a transfer that the gateway accepted.
THEOREM CompletedHolds == P!Spec => []P!CompletedHasTransfer
<1>1. P!Init => Completion
  BY DEF P!Init, Completion, CompletesAccepted, P!CompletedHasTransfer
<1>2. P!TypeOK /\ Completion /\ [P!Next]_(P!vars) => Completion'
  BY CompletionStep
<1>3. Completion => P!CompletedHasTransfer
  BY DEF Completion
<1> QED BY <1>1, <1>2, <1>3, PayoutTyped, PTL DEF P!Spec

-------------------------------------------------------------------------------
(* Cancellation *)

\* No handler lists a cancelled withdrawal, and none holds it listed.
LEMMA CancelStep == P!TypeOK /\ CancelledInTime /\ [P!Next]_(P!vars) => CancelledInTime'
<1> SUFFICES ASSUME P!TypeOK, CancelledInTime, [P!Next]_(P!vars) PROVE CancelledInTime'
  OBVIOUS
<1> USE PayoutAssumption DEF P!TypeOK, CancelledInTime, Attempts, P!Step
<1>1. ASSUME NEW h \in Handlers PROVE
        /\ P!Arrive(h) => CancelledInTime'
        /\ P!Lock(h) => CancelledInTime'
        /\ P!Unlock(h) => CancelledInTime'
        /\ P!FindKey(h) => CancelledInTime'
        /\ P!TakeKey(h) => CancelledInTime'
        /\ P!DeleteKey(h) => CancelledInTime'
        /\ P!ReadRow(h) => CancelledInTime'
        /\ P!QueryFound(h) => CancelledInTime'
        /\ P!QueryNotFound(h) => CancelledInTime'
        /\ P!Assign(h) => CancelledInTime'
        /\ P!Send(h) => CancelledInTime'
        /\ P!AnswerAccepted(h) => CancelledInTime'
        /\ P!AnswerError(h) => CancelledInTime'
        /\ P!GiveUp(h) => CancelledInTime'
        /\ P!Complete(h) => CancelledInTime'
        /\ P!Crash(h) => CancelledInTime'
        /\ P!Decide(h) => CancelledInTime'
        /\ P!ShowReference(h) => CancelledInTime'
  <2>1. P!Arrive(h) => CancelledInTime'
    BY DEF P!Arrive
  <2>2. P!Lock(h) => CancelledInTime'
    BY DEF P!Lock
  <2>3. P!Unlock(h) => CancelledInTime'
    BY DEF P!Unlock
  <2>4. P!FindKey(h) => CancelledInTime'
    BY DEF P!FindKey
  <2>5. P!TakeKey(h) => CancelledInTime'
    BY DEF P!TakeKey
  <2>6. P!DeleteKey(h) => CancelledInTime'
    BY DEF P!DeleteKey
  <2>7. P!ReadRow(h) => CancelledInTime'
    BY DEF P!ReadRow
  <2>8. P!QueryFound(h) => CancelledInTime'
    BY DEF P!QueryFound
  <2>9. P!QueryNotFound(h) => CancelledInTime'
    BY DEF P!QueryNotFound
  <2>10. P!Assign(h) => CancelledInTime'
    BY DEF P!Assign
  <2>11. P!Send(h) => CancelledInTime'
    BY DEF P!Send
  <2>12. P!AnswerAccepted(h) => CancelledInTime'
    BY DEF P!AnswerAccepted
  <2>13. P!AnswerError(h) => CancelledInTime'
    BY DEF P!AnswerError
  <2>14. P!GiveUp(h) => CancelledInTime'
    BY DEF P!GiveUp
  <2>15. P!Complete(h) => CancelledInTime'
    BY DEF P!Complete
  <2>16. P!Crash(h) => CancelledInTime'
    BY DEF P!Crash
  <2>17. P!Decide(h) => CancelledInTime'
    BY DEF P!Decide
  <2>18. P!ShowReference(h) => CancelledInTime'
    BY DEF P!ShowReference
  <2> QED BY <2>1, <2>2, <2>3, <2>4, <2>5, <2>6, <2>7, <2>8, <2>9, <2>10, <2>11, <2>12, <2>13, <2>14, <2>15, <2>16, <2>17, <2>18
<1>2. CASE P!LockExpire
  BY <1>2 DEF P!LockExpire
<1>3. CASE P!KeyExpire
  BY <1>3 DEF P!KeyExpire
<1>4. CASE P!Cancel
  BY <1>4 DEF P!Cancel
<1>5. CASE UNCHANGED P!vars
  BY <1>5 DEF P!vars
<1> QED BY <1>1, <1>2, <1>3, <1>4, <1>5 DEF P!Next

\* A withdrawal cancelled before any attempt and not under a handler is not paid.
LEMMA PayoutCancelled == P!Spec => []P!CancelledNotPaid
<1>1. P!Init => CancelledInTime
  BY DEF P!Init, CancelledInTime
<1>2. P!TypeOK /\ CancelledInTime /\ [P!Next]_(P!vars) => CancelledInTime'
  BY CancelStep
<1>3. CancelledInTime => P!CancelledNotPaid
  BY DEF CancelledInTime, P!CancelledNotPaid, Attempts
<1> QED BY <1>1, <1>2, <1>3, PayoutTyped, PTL DEF P!Spec

-------------------------------------------------------------------------------
(* At most one payment *)

\* Everything that is known of the attempts.
AttemptInv == KeyIsOwned /\ CancelledInTime /\ AttemptIsRecorded /\ RacedIsOver

\* The one handler that holds the key is the one that records and sends.
LEMMA AttemptStep ==
    P!TypeOK /\ AttemptInv /\ [P!Next]_(P!vars) => AttemptIsRecorded' /\ RacedIsOver'
<1> SUFFICES ASSUME P!TypeOK, AttemptInv, [P!Next]_(P!vars) PROVE (AttemptIsRecorded /\ RacedIsOver)'
  OBVIOUS
<1> USE PayoutAssumption DEF P!TypeOK, AttemptInv, KeyIsOwned, CancelledInTime,
      AttemptIsRecorded, RacedIsOver, Attempts, P!Step
<1>1. ASSUME NEW h \in Handlers PROVE
        /\ P!Arrive(h) => (AttemptIsRecorded /\ RacedIsOver)'
        /\ P!Lock(h) => (AttemptIsRecorded /\ RacedIsOver)'
        /\ P!Unlock(h) => (AttemptIsRecorded /\ RacedIsOver)'
        /\ P!FindKey(h) => (AttemptIsRecorded /\ RacedIsOver)'
        /\ P!TakeKey(h) => (AttemptIsRecorded /\ RacedIsOver)'
        /\ P!DeleteKey(h) => (AttemptIsRecorded /\ RacedIsOver)'
        /\ P!ReadRow(h) => (AttemptIsRecorded /\ RacedIsOver)'
        /\ P!QueryFound(h) => (AttemptIsRecorded /\ RacedIsOver)'
        /\ P!QueryNotFound(h) => (AttemptIsRecorded /\ RacedIsOver)'
        /\ P!Assign(h) => (AttemptIsRecorded /\ RacedIsOver)'
        /\ P!Send(h) => (AttemptIsRecorded /\ RacedIsOver)'
        /\ P!AnswerAccepted(h) => (AttemptIsRecorded /\ RacedIsOver)'
        /\ P!AnswerError(h) => (AttemptIsRecorded /\ RacedIsOver)'
        /\ P!GiveUp(h) => (AttemptIsRecorded /\ RacedIsOver)'
        /\ P!Complete(h) => (AttemptIsRecorded /\ RacedIsOver)'
        /\ P!Crash(h) => (AttemptIsRecorded /\ RacedIsOver)'
        /\ P!Decide(h) => (AttemptIsRecorded /\ RacedIsOver)'
        /\ P!ShowReference(h) => (AttemptIsRecorded /\ RacedIsOver)'
  <2>1. P!Arrive(h) => (AttemptIsRecorded /\ RacedIsOver)'
    BY DEF P!Arrive
  <2>2. P!Lock(h) => (AttemptIsRecorded /\ RacedIsOver)'
    BY DEF P!Lock
  <2>3. P!Unlock(h) => (AttemptIsRecorded /\ RacedIsOver)'
    BY DEF P!Unlock
  <2>4. P!FindKey(h) => (AttemptIsRecorded /\ RacedIsOver)'
    BY DEF P!FindKey
  <2>5. P!TakeKey(h) => (AttemptIsRecorded /\ RacedIsOver)'
    BY DEF P!TakeKey
  <2>6. P!DeleteKey(h) => (AttemptIsRecorded /\ RacedIsOver)'
    BY DEF P!DeleteKey
  <2>7. P!ReadRow(h) => (AttemptIsRecorded /\ RacedIsOver)'
    BY DEF P!ReadRow
  <2>8. P!QueryFound(h) => (AttemptIsRecorded /\ RacedIsOver)'
    BY DEF P!QueryFound
  <2>9. ASSUME P!QueryNotFound(h) PROVE (AttemptIsRecorded /\ RacedIsOver)'
    <3>1. RacedIsOver'
      BY <2>9 DEF P!QueryNotFound
    <3>2. ASSUME ~keyLapsed, ~blind', ~raced PROVE Attempts = {}
      <4>1. ~blind /\ seen[h] \notin Attempts
        BY <2>9, <3>2, Zenon DEF P!QueryNotFound
      <4>2. Attempts \subseteq {transferid} /\ seen[h] = transferid
        BY <2>9, <3>2, <4>1 DEF P!QueryNotFound
      <4> QED BY <4>1, <4>2
    <3>3. ASSUME ~keyLapsed, ~blind', ~raced PROVE ~blind
      BY <2>9, <3>3, Zenon DEF P!QueryNotFound
    <3>4. AttemptIsRecorded'
      <4> SUFFICES ASSUME ~keyLapsed, ~blind', ~raced PROVE AttemptIsRecorded'
        BY <2>9 DEF P!QueryNotFound
      <4> QED BY <2>9, <3>2, <3>3 DEF P!QueryNotFound
    <3> QED BY <3>1, <3>4
  <2>10. P!Assign(h) => (AttemptIsRecorded /\ RacedIsOver)'
    BY DEF P!Assign
  <2>11. P!Send(h) => (AttemptIsRecorded /\ RacedIsOver)'
    BY DEF P!Send
  <2>12. P!AnswerAccepted(h) => (AttemptIsRecorded /\ RacedIsOver)'
    BY DEF P!AnswerAccepted
  <2>13. P!AnswerError(h) => (AttemptIsRecorded /\ RacedIsOver)'
    BY DEF P!AnswerError
  <2>14. P!GiveUp(h) => (AttemptIsRecorded /\ RacedIsOver)'
    BY DEF P!GiveUp
  <2>15. P!Complete(h) => (AttemptIsRecorded /\ RacedIsOver)'
    BY DEF P!Complete
  <2>16. P!Crash(h) => (AttemptIsRecorded /\ RacedIsOver)'
    BY DEF P!Crash
  <2>17. P!Decide(h) => (AttemptIsRecorded /\ RacedIsOver)'
    BY DEF P!Decide
  <2>18. P!ShowReference(h) => (AttemptIsRecorded /\ RacedIsOver)'
    BY DEF P!ShowReference
  <2> QED BY <2>1, <2>2, <2>3, <2>4, <2>5, <2>6, <2>7, <2>8, <2>9, <2>10, <2>11, <2>12, <2>13, <2>14, <2>15, <2>16, <2>17, <2>18
<1>2. CASE P!LockExpire
  BY <1>2 DEF P!LockExpire
<1>3. CASE P!KeyExpire
  BY <1>3 DEF P!KeyExpire
<1>4. CASE P!Cancel
  BY <1>4 DEF P!Cancel
<1>5. CASE UNCHANGED P!vars
  BY <1>5 DEF P!vars
<1> QED BY <1>1, <1>2, <1>3, <1>4, <1>5 DEF P!Next

LEMMA AttemptHolds == P!Spec => []AttemptInv
<1>1. P!Init => AttemptInv
  BY DEF P!Init, AttemptInv, KeyIsOwned, CancelledInTime, AttemptIsRecorded,
         RacedIsOver, Attempts
<1>2. P!TypeOK /\ AttemptInv /\ [P!Next]_(P!vars) => AttemptInv'
  BY KeyStep, CancelStep, AttemptStep DEF AttemptInv
<1> QED BY <1>1, <1>2, PayoutTyped, PTL DEF P!Spec

\* While the withdrawal is active, the row names the transfer that was accepted.
LEMMA PayoutRecorded == P!Spec => []P!AcceptedIsRecorded
<1>1. AttemptInv => P!AcceptedIsRecorded
  BY DEF AttemptInv, AttemptIsRecorded, RacedIsOver, Attempts, P!AcceptedIsRecorded
<1> QED BY <1>1, AttemptHolds, PTL

\* The gateway accepts at most one transfer of a withdrawal: the recorded one.
LEMMA PayoutOnce == P!Spec => []P!PaidOnce
<1>1. P!TypeOK /\ AttemptInv => P!PaidOnce
  <2> SUFFICES ASSUME AttemptInv, ~keyLapsed, ~blind, ~raced
               PROVE  Cardinality(accepted) <= 1
    <3>1. \A S : P!Cardinality(S) = Cardinality(S)
      BY DEF P!Cardinality, Cardinality
    <3> QED BY <3>1 DEF P!PaidOnce
  <2>1. accepted \subseteq {transferid}
    BY DEF AttemptInv, AttemptIsRecorded, Attempts
  <2>2. IsFiniteSet({transferid}) /\ Cardinality({transferid}) = 1
    BY FS_Singleton
  <2> QED BY <2>1, <2>2, FS_Subset
<1> QED BY <1>1, AttemptHolds, PayoutTyped, PTL

HIDE DEF P!Keyed, P!Listed, P!row, P!gateway, P!history

-------------------------------------------------------------------------------
(* THE PARTS.  A behaviour of the module that composes the two is one of the *)
(* part it begins with, in which the other part's variables stay None.       *)

LEMMA WalletIsPart ==
    /\ Init => (part = "wallet" => L!Init)
    /\ [Next]_vars => ((part = "wallet")' <=> part = "wallet")
    /\ part = "wallet" /\ [Next]_vars => [L!Next]_(L!vars)
BY DEF Init, Next, vars, L!vars,
   ofWalletAndPayout, ofWallet, ofPayout

LEMMA PayoutIsPart ==
    /\ Init => (part = "payout" => P!Init)
    /\ [Next]_vars => ((part = "payout")' <=> part = "payout")
    /\ part = "payout" /\ [Next]_vars => [P!Next]_(P!vars)
BY DEF Init, Next, vars, P!vars, P!row, P!gateway, P!history,
   ofWalletAndPayout, ofWallet, ofPayout

\* No sequence of debits, credits, failures and lost updates makes bonus
\* (updateWallet, models/user.js).
THEOREM BonusHolds == (L!Spec => []L!BonusNotMinted) /\ (Spec => []BonusNotMinted)
BY LedgerBonus, WalletIsPart, PTL DEF Spec, L!Spec, BonusNotMinted

\* Whatever updates of a user interleave, fail or crash, the balance is the first
\* one plus every committed operation, as long as no unlock released another
\* call's lock and no row was read past an uncommitted one.
THEOREM BalanceHolds == (L!Spec => []L!BalanceIsSumOfOperations) /\ (Spec => []BalanceIsSumOfOperations)
BY LedgerBalance, WalletIsPart, PTL DEF Spec, L!Spec, BalanceIsSumOfOperations

\* A withdrawal cancelled before any attempt and not under a handler is not paid.
THEOREM CancelledHolds == (P!Spec => []P!CancelledNotPaid) /\ (Spec => []CancelledNotPaid)
BY PayoutCancelled, PayoutIsPart, PTL DEF Spec, P!Spec, CancelledNotPaid

\* While the withdrawal is active, the row names the transfer that was accepted.
THEOREM RecordedHolds == (P!Spec => []P!AcceptedIsRecorded) /\ (Spec => []AcceptedIsRecorded)
BY PayoutRecorded, PayoutIsPart, PTL DEF Spec, P!Spec, AcceptedIsRecorded

\* The gateway accepts at most one transfer of a withdrawal, the recorded one, but
\* in the named circumstances (processRedeem).
THEOREM PaidOnceHolds == (P!Spec => []P!PaidOnce) /\ (Spec => []PaidOnce)
BY PayoutOnce, PayoutIsPart, PTL DEF Spec, P!Spec, PaidOnce
===============================================================================
