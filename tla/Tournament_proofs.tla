--------------------------- MODULE Tournament_proofs ---------------------------
(***************************************************************************)
(* Proofs about the prize table, for any number of places and of entries,  *)
(* and about tournaments, however entries, completions, edits and resets   *)
(* interleave.                                                             *)
(***************************************************************************)
EXTENDS Tournament, Sums, SequenceTheorems

-------------------------------------------------------------------------------
(* The prize table                                                            *)

\* A bracket never has more entries than ranks.
LEMMA WidthBound ==
    ASSUME NEW n \in Nat
    PROVE  /\ Width(n, 1) \in 0 .. 1 /\ Width(n, 2) \in 0 .. 1 /\ Width(n, 3) \in 0 .. 1
           /\ Width(n, 4) \in 0 .. 2 /\ Width(n, 5) \in 0 .. 5 /\ Width(n, 6) \in 0 .. 10
           /\ Width(n, 7) \in 0 .. 30 /\ Width(n, 8) \in 0 .. 50
           /\ Width(n, 9) \in 0 .. 100 /\ Width(n, 10) \in 0 .. 300
  BY DEF Width, First, Ends

\* A list of at most ten shares as ten numbers, what they pay in full brackets, and that
\* none is above the one before it.
At(shares, b) == IF b \in DOMAIN shares THEN shares[b] ELSE 0

Within(shares) ==
    /\ \A b \in Brackets : At(shares, b) \in Nat
    /\ At(shares, 1) + At(shares, 2) + At(shares, 3) + 2 * At(shares, 4) + 5 * At(shares, 5)
         + 10 * At(shares, 6) + 30 * At(shares, 7) + 50 * At(shares, 8)
         + 100 * At(shares, 9) + 300 * At(shares, 10) <= Pool
    /\ \A b \in Brackets : b > 1 => At(shares, b) <= At(shares, b - 1)

\* The full brackets of every tier are within the pool, and its shares do not rise.
LEMMA TierWithin ==
    ASSUME NEW n \in Nat
    PROVE  Within(Tier(n))
<1>1. CASE n < 1
  <2>1. Tier(n) = << >>
    BY <1>1 DEF Tier, SmallTier
  <2>2. Within(<< >>)
    BY DEF Within, At, Brackets, Pool
  <2> QED
    BY <2>1, <2>2
<1>2. CASE 1 <= n /\ n < 3
  <2>1. Tier(n) = <<100000>>
    BY <1>2 DEF Tier, SmallTier
  <2>2. Within(<<100000>>)
    BY DEF Within, At, Brackets, Pool
  <2> QED
    BY <2>1, <2>2
<1>3. CASE 3 <= n /\ n < 4
  <2>1. Tier(n) = <<75000, 25000>>
    BY <1>3 DEF Tier, SmallTier
  <2>2. Within(<<75000, 25000>>)
    BY DEF Within, At, Brackets, Pool
  <2> QED
    BY <2>1, <2>2
<1>4. CASE 4 <= n /\ n < 5
  <2>1. Tier(n) = <<70000, 30000>>
    BY <1>4 DEF Tier, SmallTier
  <2>2. Within(<<70000, 30000>>)
    BY DEF Within, At, Brackets, Pool
  <2> QED
    BY <2>1, <2>2
<1>5. CASE 5 <= n /\ n < 10
  <2>1. Tier(n) = <<60000, 30000, 10000>>
    BY <1>5 DEF Tier, SmallTier
  <2>2. Within(<<60000, 30000, 10000>>)
    BY DEF Within, At, Brackets, Pool
  <2> QED
    BY <2>1, <2>2
<1>6. CASE 10 <= n /\ n < 20
  <2>1. Tier(n) = <<50000, 30000, 10000, 5000>>
    BY <1>6 DEF Tier, SmallTier
  <2>2. Within(<<50000, 30000, 10000, 5000>>)
    BY DEF Within, At, Brackets, Pool
  <2> QED
    BY <2>1, <2>2
<1>7. CASE 20 <= n /\ n < 50
  <2>1. Tier(n) = <<50000, 20000, 10000, 5000, 2000>>
    BY <1>7 DEF Tier, LargeTier
  <2>2. Within(<<50000, 20000, 10000, 5000, 2000>>)
    BY DEF Within, At, Brackets, Pool
  <2> QED
    BY <2>1, <2>2
<1>8. CASE 50 <= n /\ n < 100
  <2>1. Tier(n) = <<40000, 20000, 10000, 5000, 2000, 1000>>
    BY <1>8 DEF Tier, LargeTier
  <2>2. Within(<<40000, 20000, 10000, 5000, 2000, 1000>>)
    BY DEF Within, At, Brackets, Pool
  <2> QED
    BY <2>1, <2>2
<1>9. CASE 100 <= n /\ n < 200
  <2>1. Tier(n) = <<30000, 20000, 10000, 5000, 2000, 1000, 330>>
    BY <1>9 DEF Tier, LargeTier
  <2>2. Within(<<30000, 20000, 10000, 5000, 2000, 1000, 330>>)
    BY DEF Within, At, Brackets, Pool
  <2> QED
    BY <2>1, <2>2
<1>10. CASE 200 <= n /\ n < 500
  <2>1. Tier(n) = <<25000, 15000, 10000, 5000, 2000, 1000, 330, 200>>
    BY <1>10 DEF Tier, LargeTier
  <2>2. Within(<<25000, 15000, 10000, 5000, 2000, 1000, 330, 200>>)
    BY DEF Within, At, Brackets, Pool
  <2> QED
    BY <2>1, <2>2
<1>11. CASE 500 <= n /\ n < 1000
  <2>1. Tier(n) = <<25000, 15000, 10000, 5000, 2000, 750, 250, 150, 75>>
    BY <1>11 DEF Tier, LargeTier
  <2>2. Within(<<25000, 15000, 10000, 5000, 2000, 750, 250, 150, 75>>)
    BY DEF Within, At, Brackets, Pool
  <2> QED
    BY <2>1, <2>2
<1>12. CASE 1000 <= n
  <2>1. Tier(n) = <<25000, 15000, 7500, 3750, 1500, 750, 250, 150, 75, 15>>
    BY <1>12 DEF Tier, LargeTier
  <2>2. Within(<<25000, 15000, 7500, 3750, 1500, 750, 250, 150, 75, 15>>)
    BY DEF Within, At, Brackets, Pool
  <2> QED
    BY <2>1, <2>2
<1> QED
  BY <1>1, <1>2, <1>3, <1>4, <1>5, <1>6, <1>7, <1>8, <1>9, <1>10, <1>11, <1>12

\* So are those of the exceptions.
LEMMA CutWithin ==
    ASSUME NEW n \in Nat, NEW spots \in Nat
    PROVE  Within(Cut(n, spots))
<1>1. Within(<<75000>>)
  BY DEF Within, At, Brackets, Pool
<1>2. Within(<< >>)
  BY DEF Within, At, Brackets, Pool
<1> QED
  BY <1>1, <1>2, TierWithin DEF Cut

\* A share times the entries of its bracket is at most the share times its ranks.
LEMMA Product ==
    ASSUME NEW a \in Nat, NEW w \in Nat, NEW m \in Nat, w <= m
    PROVE  a * w \in Nat /\ a * w <= m * a
<1>1. a * w \in Nat /\ a * (m - w) \in Nat
  OBVIOUS
<1>2. m * a = a * w + a * (m - w)
  OBVIOUS
<1> QED
  BY <1>1, <1>2

\* What a tournament pays is within its pool, for any number of places and of
\* entries, also more entries than places (the switch of update).
THEOREM PaidWithinPool ==
    ASSUME NEW n \in Nat, NEW s \in Nat
    PROVE  Paid(n, s) <= Pool
<1> DEFINE a(b) == At(Cut(n, s), b)
<1> DEFINE w(b) == Width(s, b)
<1>1. Within(Cut(n, s))
  BY CutWithin
<1>2. /\ a(1) \in Nat /\ a(2) \in Nat /\ a(3) \in Nat /\ a(4) \in Nat /\ a(5) \in Nat
      /\ a(6) \in Nat /\ a(7) \in Nat /\ a(8) \in Nat /\ a(9) \in Nat /\ a(10) \in Nat
  BY <1>1 DEF Within, Brackets
<1>3. a(1) + a(2) + a(3) + 2 * a(4) + 5 * a(5) + 10 * a(6) + 30 * a(7) + 50 * a(8)
        + 100 * a(9) + 300 * a(10) <= Pool
  BY <1>1 DEF Within
<1>4. /\ w(1) \in 0 .. 1 /\ w(2) \in 0 .. 1 /\ w(3) \in 0 .. 1 /\ w(4) \in 0 .. 2
      /\ w(5) \in 0 .. 5 /\ w(6) \in 0 .. 10 /\ w(7) \in 0 .. 30 /\ w(8) \in 0 .. 50
      /\ w(9) \in 0 .. 100 /\ w(10) \in 0 .. 300
  BY WidthBound
<1> HIDE DEF a, w
<1>5. /\ a(1) * w(1) <= 1 * a(1) /\ a(1) * w(1) \in Nat
      /\ a(2) * w(2) <= 1 * a(2) /\ a(2) * w(2) \in Nat
      /\ a(3) * w(3) <= 1 * a(3) /\ a(3) * w(3) \in Nat
  BY <1>2, <1>4, Product
<1>6. /\ a(4) * w(4) <= 2 * a(4) /\ a(4) * w(4) \in Nat
      /\ a(5) * w(5) <= 5 * a(5) /\ a(5) * w(5) \in Nat
      /\ a(6) * w(6) <= 10 * a(6) /\ a(6) * w(6) \in Nat
  BY <1>2, <1>4, Product
<1>7. /\ a(7) * w(7) <= 30 * a(7) /\ a(7) * w(7) \in Nat
      /\ a(8) * w(8) <= 50 * a(8) /\ a(8) * w(8) \in Nat
  BY <1>2, <1>4, Product
<1>8. /\ a(9) * w(9) <= 100 * a(9) /\ a(9) * w(9) \in Nat
      /\ a(10) * w(10) <= 300 * a(10) /\ a(10) * w(10) \in Nat
  BY <1>2, <1>4, Product
<1>9. Paid(n, s) = a(1) * w(1) + a(2) * w(2) + a(3) * w(3) + a(4) * w(4) + a(5) * w(5)
                     + a(6) * w(6) + a(7) * w(7) + a(8) * w(8) + a(9) * w(9) + a(10) * w(10)
  BY DEF Paid, Due, Share, At, a, w
<1> QED
  BY <1>2, <1>3, <1>5, <1>6, <1>7, <1>8, <1>9 DEF Pool

\* The shares of two brackets compare as the brackets do.
LEMMA SharesFall ==
    ASSUME NEW n \in Nat, NEW s \in Nat, NEW a \in Brackets, NEW b \in Brackets, a <= b
    PROVE  Share(n, s, b) \in Nat /\ Share(n, s, b) <= Share(n, s, a)
<1> DEFINE c(i) == At(Cut(n, s), i)
<1>1. /\ \A i \in Brackets : c(i) \in Nat
      /\ \A i \in Brackets : i > 1 => c(i) <= c(i - 1)
  BY CutWithin DEF Within
<1>2. \A i \in Brackets : Share(n, s, i) = c(i)
  BY DEF Share, At
<1> HIDE DEF c
<1>3. c(b) <= c(a)
  BY <1>1 DEF Brackets
<1> QED BY <1>1, <1>2, <1>3

\* Every rank below 500 has a bracket.
LEMMA BracketOfRank ==
    ASSUME NEW k \in Nat, k < 500
    PROVE  /\ BracketOf(k) \in Brackets
           /\ First(BracketOf(k)) <= k /\ k < Ends[BracketOf(k)]
<1>1. \E b \in Brackets : First(b) <= k /\ k < Ends[b]
  <2>1. /\ First(1) = 0 /\ \A b \in 2 .. 10 : First(b) = Ends[b - 1]
    BY DEF First
  <2> QED BY <2>1 DEF Ends, Brackets
<1> QED BY <1>1 DEF BracketOf

\* A later bracket begins where the one before has ended.
LEMMA BracketsInOrder ==
    ASSUME NEW a \in Brackets, NEW b \in Brackets, b < a
    PROVE  Ends[b] <= First(a)
<1>1. Ends[b] <= Ends[a - 1]
  BY DEF Ends, Brackets
<1> QED BY <1>1 DEF First, Brackets

\* A better rank is paid no less, for any number of places and of entries: the tiers
\* that the switch of update writes out for each number of entries never rise.
THEOREM BetterRankNoLess ==
    ASSUME NEW n \in Nat, NEW s \in Nat, NEW j \in Nat, NEW k \in Nat, j <= k
    PROVE  Prize(n, s, k) <= Prize(n, s, j)
<1>1. CASE k < s /\ k < 500
  <2>1. j < s /\ j < 500 /\ s \in Int
    BY <1>1
  <2>2. PICK a, b : a = BracketOf(j) /\ b = BracketOf(k)
    OBVIOUS
  <2>3. a \in Brackets /\ b \in Brackets /\ First(a) <= j /\ k < Ends[b]
    BY <1>1, <2>1, <2>2, BracketOfRank
  <2>4. a <= b
    <3>1. ASSUME b < a PROVE FALSE
      <4>1. Ends[b] <= First(a)
        BY <2>3, <3>1, BracketsInOrder
      <4>2. Ends[b] \in Int /\ First(a) \in Int
        BY <2>3 DEF Ends, First, Brackets
      <4> QED BY <2>3, <4>1, <4>2
    <3> QED BY <2>3, <3>1 DEF Brackets
  <2>5. Share(n, s, b) <= Share(n, s, a)
    BY <2>3, <2>4, SharesFall
  <2> QED BY <1>1, <2>1, <2>2, <2>5 DEF Prize
<1>2. CASE ~(k < s /\ k < 500)
  <2>1. Prize(n, s, k) = 0
    BY <1>2 DEF Prize
  <2>2. Prize(n, s, j) \in Nat
    <3>1. CASE j < s /\ j < 500
      <4>1. PICK a : a = BracketOf(j) /\ a \in Brackets
        BY <3>1, BracketOfRank
      <4>2. a \in Brackets /\ a <= a
        BY <4>1 DEF Brackets
      <4>3. Share(n, s, a) \in Nat
        BY <4>2, SharesFall
      <4> QED BY <3>1, <4>1, <4>3 DEF Prize
    <3> QED BY <3>1 DEF Prize
  <2> QED BY <2>1, <2>2
<1> QED BY <1>1, <1>2

-------------------------------------------------------------------------------
(* Places and entries                                                         *)

\* The number of places and of entries are natural numbers.
Counts == players \in Nat /\ \E S : rows \in Seq(S)

\* A function on the indices of a sequence is a sequence.
LEMMA SameIndices ==
    ASSUME NEW S, NEW s \in Seq(S), NEW t, t = [i \in DOMAIN s |-> t[i]]
    PROVE  \E T : t \in Seq(T)
<1> DEFINE T == {t[i] : i \in DOMAIN s}
<1>1. Len(s) \in Nat /\ DOMAIN s = 1 .. Len(s)
  BY LenProperties
<1>2. t \in [1 .. Len(s) -> T]
  BY <1>1
<1>3. t \in Seq(T)
  BY <1>1, <1>2
<1> QED
  BY <1>3

LEMMA CountsInit == Init => Counts
<1>1. << >> \in Seq({})
  BY EmptySeq
<1> QED
  BY <1>1, TournamentAssumption DEF Init, Counts

\* Only PutRow, Mark and Place write rows; nothing changes the number of places.
LEMMA CountsStep == Counts /\ [Next]_vars => Counts'
<1> SUFFICES ASSUME Counts, [Next]_vars PROVE Counts'
  OBVIOUS
<1> USE DEF Counts
<1>1. PICK S : rows \in Seq(S)
  OBVIOUS
<1>2. ASSUME NEW e \in Entries, PutRow(e) PROVE Counts'
  <2>1. PICK row : rows' = Append(rows, row)
    BY <1>2 DEF PutRow
  <2>2. rows' \in Seq(S \union {row})
    BY <1>1, <2>1
  <2> QED
    BY <1>2, <2>2 DEF PutRow
<1>3. ASSUME Mark PROVE Counts'
  <2>1. rows' = rows \/ rows' = [i \in DOMAIN rows |-> rows'[i]]
    BY <1>3 DEF Mark
  <2>2. \E T : rows' \in Seq(T)
    BY <1>1, <2>1, SameIndices
  <2> QED
    BY <1>3, <2>2 DEF Mark, PayoutFrame
<1>4. ASSUME Place PROVE Counts'
  <2>1. rows' = [i \in DOMAIN rows |-> rows'[i]]
    BY <1>4 DEF Place
  <2>2. \E T : rows' \in Seq(T)
    BY <1>1, <2>1, SameIndices
  <2> QED
    BY <1>4, <2>2 DEF Place, PayoutFrame
<1>5. ASSUME NEW e \in Entries,
             \/ Ask(e) \/ CheckLimit(e) \/ ReadCount(e) \/ CheckSpots(e) \/ CountUp(e)
             \/ AddDebit(e) \/ Debit(e) \/ Answer(e) \/ BreakOff(e)
      PROVE  Counts'
  BY <1>5 DEF Ask, CheckLimit, ReadCount, CheckSpots, CountUp, AddDebit, Debit, Answer,
       BreakOff
<1>6. ASSUME \/ ReadOtherCount \/ Complete \/ ReadRows \/ NoRows \/ Tally
             \/ Finish \/ RunBreaksOff \/ Reset \/ Reopen
      PROVE  Counts'
  BY <1>6 DEF ReadOtherCount, Complete, ReadRows, NoRows, Tally, Finish, RunBreaksOff,
       Reset, Reopen, PayoutFrame
<1>7. ASSUME NEW u \in Users, Book(u) \/ Credit(u) PROVE Counts'
  BY <1>7 DEF Book, Credit
<1>8. CASE UNCHANGED vars
  BY <1>8 DEF vars
<1> QED
  BY <1>2, <1>3, <1>4, <1>5, <1>6, <1>7, <1>8 DEF Next

\* The prizes for the entries of a tournament, however many they are, stay within
\* its pool in every state (the entry handler and the switch of update).
THEOREM PoolSafe == Spec => []PoolNotExceeded
<1>1. Counts => PoolNotExceeded
  <2> SUFFICES ASSUME Counts PROVE PoolNotExceeded
    OBVIOUS
  <2>1. PICK S : rows \in Seq(S)
    BY DEF Counts
  <2>2. Len(rows) \in Nat
    BY <2>1, LenProperties
  <2> QED
    BY <2>2, PaidWithinPool DEF Counts, PoolNotExceeded
<1> QED
  BY <1>1, CountsInit, CountsStep, PTL DEF Spec

States == Handling \union {"idle", "refused", "placed", "none placed", "failed", "owing"}

\* As long as no two entries are past the count and the count is this tournament's,
\* the count read is the number of entries, and there is a place for who has passed it.
OneChecksInv ==
    /\ others \in Nat /\ pc \in [Entries -> States]
    /\ ~together /\ others = 0 =>
           /\ Len(rows) <= players
           /\ \A e, f \in Entries : pc[e] \in Checked /\ pc[f] \in Checked => e = f
           /\ \A e \in Entries : pc[e] = "compare" => participationCount = Len(rows)
           /\ \A e \in Entries : pc[e] \in {"count", "row"} => Len(rows) < players

\* What is written to rows but by PutRow keeps their number.
LEMMA SameNumber ==
    ASSUME Counts, Mark \/ Place
    PROVE  Len(rows') = Len(rows) /\ DOMAIN rows' = DOMAIN rows
<1>1. rows' = [i \in DOMAIN rows |-> rows'[i]]
  BY DEF Mark, Place, Counts
<1>2. \E T : rows' \in Seq(T)
  <2>1. PICK S : rows \in Seq(S)
    BY DEF Counts
  <2> QED BY <1>1, <2>1, SameIndices
<1>3. DOMAIN rows' = DOMAIN rows
  BY <1>1
<1>4. PICK S, T : rows \in Seq(S) /\ rows' \in Seq(T)
  BY <1>2 DEF Counts
<1>5. /\ Len(rows) \in Nat /\ DOMAIN rows = 1 .. Len(rows)
      /\ Len(rows') \in Nat /\ DOMAIN rows' = 1 .. Len(rows')
  BY <1>4, LenProperties
<1> QED BY <1>3, <1>5

LEMMA AppendLength ==
    ASSUME NEW S, NEW s \in Seq(S), NEW row
    PROVE  Len(Append(s, row)) = Len(s) + 1
<1>1. s \in Seq(S \union {row})
  OBVIOUS
<1> QED BY <1>1, AppendProperties

LEMMA OneChecksStep ==
    ASSUME Counts, OneChecksInv, [Next]_vars
    PROVE  OneChecksInv'
<1>1. Len(rows) \in Nat /\ players \in Nat
  <2>1. PICK S : rows \in Seq(S)
    BY DEF Counts
  <2> QED BY <2>1, LenProperties DEF Counts
<1>2. ASSUME NEW e \in Entries,
             Ask(e) \/ CheckLimit(e) \/ ReadCount(e) \/ CheckSpots(e) \/ CountUp(e)
      PROVE  OneChecksInv'
  <2>1. CASE Ask(e) \/ CheckLimit(e)
    BY <2>1 DEF OneChecksInv, Checked, Handling, States, Ask, CheckLimit, GoTo, places
  <2>2. CASE ReadCount(e)
    BY <2>2 DEF OneChecksInv, Checked, Handling, States, ReadCount, GoTo
  <2>3. CASE CheckSpots(e)
    BY <2>3, <1>1 DEF OneChecksInv, Checked, Handling, States, CheckSpots, GoTo, places
  <2>4. CASE CountUp(e)
    BY <2>4 DEF OneChecksInv, Checked, Handling, States, CountUp, GoTo, places
  <2> QED BY <1>2, <2>1, <2>2, <2>3, <2>4
<1>3. ASSUME NEW e \in Entries, PutRow(e) PROVE OneChecksInv'
  <2>1. PICK row : rows' = Append(rows, row)
    BY <1>3 DEF OneChecksInv, Checked, Handling, States, PutRow
  <2>2. Len(rows') = Len(rows) + 1
    <3>1. PICK S : rows \in Seq(S)
      BY DEF Counts
    <3> QED BY <2>1, <3>1, AppendLength
  <2>3. UNCHANGED <<players, others, together, participationCount>>
        /\ pc[e] = "row" /\ pc' = [pc EXCEPT ![e] = "txn"]
    BY <1>3 DEF OneChecksInv, Checked, Handling, States, PutRow, GoTo, places
  <2>4. pc' \in [Entries -> States] /\ \A f \in Entries : pc'[f] \in Checked => f # e /\ pc[f] \in Checked
    BY <2>3 DEF OneChecksInv, Checked, Handling, States
  <2>5. CASE together \/ others # 0
    BY <2>3, <2>4, <2>5 DEF OneChecksInv, Checked
  <2>6. CASE ~together /\ others = 0
    <3>1. \A f \in Entries : pc'[f] \notin Checked
      BY <2>3, <2>4, <2>6 DEF OneChecksInv, Checked
    <3>2. Len(rows) < players
      BY <2>3, <2>6 DEF OneChecksInv
    <3>3. Len(rows') <= players
      BY <1>1, <2>2, <3>2
    <3> QED BY <2>3, <2>4, <3>1, <3>3 DEF OneChecksInv, Checked
  <2> QED BY <2>5, <2>6
<1>4. ASSUME NEW e \in Entries, AddDebit(e) \/ Debit(e) \/ Answer(e) \/ BreakOff(e)
      PROVE  OneChecksInv'
  BY <1>4 DEF OneChecksInv, Checked, Handling, States, AddDebit, Debit, Answer, BreakOff,
       GoTo, places
<1>5. CASE ReadOtherCount
  <2>1. others' = others + 1 /\ pc' = pc
    BY <1>5 DEF OneChecksInv, Checked, Handling, States, ReadOtherCount
  <2>2. \A n \in Nat : n + 1 \in Nat /\ n + 1 # 0
    OBVIOUS
  <2> QED BY <2>1, <2>2 DEF OneChecksInv
<1>6. CASE Mark \/ Place
  BY <1>6, SameNumber DEF OneChecksInv, Checked, Handling, States, Mark, Place,
       PayoutFrame, entry, places
<1>7. CASE Complete \/ ReadRows \/ NoRows \/ Tally \/ Finish \/ RunBreaksOff
  BY <1>7 DEF OneChecksInv, Checked, Handling, States, Complete, ReadRows, NoRows, Tally,
       Finish, RunBreaksOff, PayoutFrame, entry, places
<1>8. CASE Reset \/ Reopen
  BY <1>8 DEF OneChecksInv, Checked, Handling, States, Reset, Reopen, entry, places
<1>9. ASSUME NEW u \in Users, Book(u) \/ Credit(u) PROVE OneChecksInv'
  BY <1>9 DEF OneChecksInv, Checked, Handling, States, Book, Credit, entry, places
<1>10. CASE UNCHANGED vars
  BY <1>10 DEF OneChecksInv, vars, entry, places
<1> QED
  BY <1>2, <1>3, <1>4, <1>5, <1>6, <1>7, <1>8, <1>9, <1>10 DEF Next

\* A tournament has more entries than places only if two requests were between the
\* count and the row at once, or the global count was another tournament's: for any
\* number of entries, whatever breaks off, and while completions and resets write the
\* same rows (handleTournamentPutCall).
THEOREM OverbookedHolds == Spec => []OverbookedByRace
<1>1. Init => OneChecksInv
  <2>1. Len(<< >>) = 0
    BY EmptySeq
  <2> QED BY <2>1, TournamentAssumption DEF Init, OneChecksInv, Checked, Handling, States
<1>2. Counts /\ OneChecksInv => OverbookedByRace
  <2> SUFFICES ASSUME Counts, OneChecksInv, Len(rows) > players, ~together PROVE others > 0
    BY DEF OverbookedByRace
  <2>1. PICK S : rows \in Seq(S)
    BY DEF Counts
  <2>2. Len(rows) \in Nat /\ players \in Nat
    BY <2>1, LenProperties DEF Counts
  <2> QED BY <2>2 DEF OneChecksInv
<1> QED
  BY <1>1, <1>2, CountsInit, CountsStep, OneChecksStep, PTL DEF Spec

-------------------------------------------------------------------------------
(* Booked and paid                                                            *)

LEMMA MinIsLeast ==
    ASSUME NEW N, N \subseteq Nat, N # {}
    PROVE  /\ Min(N) \in N /\ \A n \in N : Min(N) <= n
           /\ \A m \in N : (\A n \in N : m <= n) => m = Min(N)
<1>1. \E n \in N : \A m \in N : n <= m
  BY LeastNumber
<1>2. Min(N) \in N /\ \A n \in N : Min(N) <= n
  BY <1>1 DEF Min
<1>3. ASSUME NEW m \in N, \A n \in N : m <= n PROVE m = Min(N)
  <2>1. m <= Min(N) /\ Min(N) <= m /\ m \in Nat /\ Min(N) \in Nat
    BY <1>2, <1>3
  <2> QED BY <2>1
<1> QED BY <1>2, <1>3

LEMMA PrizeType ==
    ASSUME NEW n \in Nat, NEW spots \in Nat, NEW rank \in Nat
    PROVE  Prize(n, spots, rank) \in Nat
<1>1. CASE rank < spots /\ rank < 500
  <2>1. \E b \in Brackets : First(b) <= rank /\ rank < Ends[b]
    <3>1. /\ First(1) = 0 /\ Ends[1] = 1 /\ First(2) = 1 /\ Ends[2] = 2
          /\ First(3) = 2 /\ Ends[3] = 3 /\ First(4) = 3 /\ Ends[4] = 5
          /\ First(5) = 5 /\ Ends[5] = 10 /\ First(6) = 10 /\ Ends[6] = 20
          /\ First(7) = 20 /\ Ends[7] = 50 /\ First(8) = 50 /\ Ends[8] = 100
          /\ First(9) = 100 /\ Ends[9] = 200 /\ First(10) = 200 /\ Ends[10] = 500
      BY DEF First, Ends
    <3>2. 1 \in Brackets /\ 2 \in Brackets /\ 3 \in Brackets /\ 4 \in Brackets
          /\ 5 \in Brackets /\ 6 \in Brackets /\ 7 \in Brackets /\ 8 \in Brackets
          /\ 9 \in Brackets /\ 10 \in Brackets
      BY DEF Brackets
    <3>3. CASE rank < 5
      BY <3>1, <3>2, <3>3
    <3>4. CASE 5 <= rank /\ rank < 50
      BY <3>1, <3>2, <3>4
    <3>5. CASE 50 <= rank /\ rank < 500
      BY <3>1, <3>2, <3>5
    <3> QED BY <1>1, <3>3, <3>4, <3>5
  <2>2. BracketOf(rank) \in Brackets
    BY <2>1 DEF BracketOf
  <2>3. Share(n, spots, BracketOf(rank)) \in Nat
    BY <2>2, CutWithin DEF Within, At, Share
  <2> QED BY <1>1, <2>3 DEF Prize
<1>2. CASE ~(rank < spots /\ rank < 500)
  BY <1>2 DEF Prize
<1> QED BY <1>1, <1>2

RowIn(T) ==
    [userid : Users, orderid : {ExecId(e) : e \in Entries}, callvalue : Values,
     returns : Nat, tournament_rank : T]

\* The rows of the table and those a completion holds are rows.
TableInv ==
    /\ players \in Nat
    /\ \E T : rows \in Seq(RowIn(T)) /\ mem \in Seq(RowIn(T))
    /\ run = "mark" => todo \subseteq DOMAIN mem

\* The amounts are amounts, and a completion pays users of the tournament.
AmountsInv ==
    /\ {wallet, debited, uncredited} \subseteq [Users -> Int]
    /\ settled \in [Users -> Nat] /\ due \in [Users -> Nat]
    /\ pc \in [Entries -> States]
    /\ run \in {"book", "credit"} => todo \subseteq Users
    /\ run = "credit" => todo # {}

\* Where the rows are written, rows stay rows.
LEMMA RowChanges ==
    ASSUME NEW T, NEW s \in Seq(RowIn(T))
    PROVE  /\ \A row \in RowIn(T) : Append(s, row) \in Seq(RowIn(T))
           /\ \A i, amount \in Nat : [s EXCEPT ![i].returns = amount] \in Seq(RowIn(T))
<1>1. \A row \in RowIn(T) : Append(s, row) \in Seq(RowIn(T))
  OBVIOUS
<1>2. ASSUME NEW i \in Nat, NEW amount \in Nat
      PROVE  [s EXCEPT ![i].returns = amount] \in Seq(RowIn(T))
  <2>1. Len(s) \in Nat /\ DOMAIN s = 1 .. Len(s) /\ s \in [1 .. Len(s) -> RowIn(T)]
    BY LenProperties, ElementOfSeq
  <2>2. \A row \in RowIn(T) : [row EXCEPT !.returns = amount] \in RowIn(T)
    BY DEF RowIn
  <2>3. [s EXCEPT ![i].returns = amount] \in [1 .. Len(s) -> RowIn(T)]
    BY <2>1, <2>2
  <2> QED BY <2>1, <2>3
<1> QED BY <1>1, <1>2

LEMMA TableStep ==
    ASSUME TableInv, [Next]_vars
    PROVE  TableInv'
<1>1. PICK T : rows \in Seq(RowIn(T)) /\ mem \in Seq(RowIn(T))
  BY DEF TableInv
<1>2. ASSUME NEW e \in Entries, PutRow(e) PROVE TableInv'
  <2> DEFINE R == T \union {0}
  <2>1. rows \in Seq(RowIn(R)) /\ mem \in Seq(RowIn(R))
    <3>1. RowIn(T) \subseteq RowIn(R)
      BY DEF RowIn
    <3>2. PICK A, B : A = RowIn(T) /\ B = RowIn(R)
      OBVIOUS
    <3>3. ASSUME NEW s \in Seq(A) PROVE s \in Seq(B)
      <4>1. s \in [1 .. Len(s) -> A] /\ Len(s) \in Nat /\ A \subseteq B
        BY <3>1, <3>2, LenProperties
      <4>2. s \in [1 .. Len(s) -> B]
        BY <4>1
      <4> QED BY <4>1, <4>2
    <3> QED BY <1>1, <3>2, <3>3
  <2>2. PICK row \in RowIn(R) : rows' = Append(rows, row)
    <3>1. User[e] \in Users
      BY TournamentAssumption
    <3> QED BY <1>2, <3>1 DEF PutRow, RowIn
  <2>3. rows' \in Seq(RowIn(R)) /\ mem' = mem
    BY <1>2, <2>1, <2>2, RowChanges DEF PutRow, payout
  <2> QED BY <1>2, <2>1, <2>3 DEF TableInv, PutRow, payout
<1>3. CASE Mark
  <2>1. todo \subseteq Nat /\ todo # {} /\ run' = "mark" /\ todo' \subseteq todo
        /\ players' = players
    <3>1. todo \subseteq DOMAIN mem /\ DOMAIN mem = 1 .. Len(mem) /\ Len(mem) \in Nat
      BY <1>1, <1>3, LenProperties DEF Mark, TableInv
    <3> QED BY <1>3, <3>1 DEF Mark, PayoutFrame
  <2>2. Min(todo) \in todo
    BY <2>1, MinIsLeast
  <2>3. PICK amount \in Nat : amount = Prize(players, Len(mem), Min(todo) - 1)
    <3>1. Len(mem) \in Nat /\ Min(todo) \in 1 .. Len(mem)
      BY <1>1, <1>3, <2>2, LenProperties DEF Mark, TableInv
    <3>2. Min(todo) - 1 \in Nat
      BY <3>1
    <3> QED BY <3>1, <3>2, PrizeType DEF TableInv
  <2>4. PICK i : i = order[Min(todo)]
    OBVIOUS
  <2>5. /\ mem' = [mem EXCEPT ![i].returns = amount]
        /\ rows' = rows \/ rows' = [rows EXCEPT ![i].returns = amount]
    BY <1>3, <2>3, <2>4 DEF Mark
  <2>6. CASE i \in Nat
    <3>1. mem' \in Seq(RowIn(T)) /\ rows' \in Seq(RowIn(T))
      BY <1>1, <2>5, <2>6, RowChanges
    <3>2. DOMAIN mem' = DOMAIN mem
      BY <2>5
    <3> QED BY <1>3, <2>1, <3>1, <3>2 DEF TableInv, Mark
  <2>7. CASE i \notin Nat
    <3>1. i \notin DOMAIN mem /\ i \notin DOMAIN rows
      BY <1>1, <2>7
    <3>2. mem' = mem /\ rows' = rows
      BY <1>1, <2>5, <3>1
    <3> QED BY <1>1, <1>3, <2>1, <3>2 DEF TableInv, Mark
  <2> QED BY <2>6, <2>7
<1>4. CASE Place
  <2> DEFINE R == T \union {CHOOSE k \in DOMAIN order : order[k] = i : i \in DOMAIN mem}
  <2>1. RowIn(T) \subseteq RowIn(R)
    BY DEF RowIn
  <2>2. mem' = mem /\ mem \in Seq(RowIn(R)) /\ run' = "finish" /\ players' = players
    BY <1>1, <1>4, <2>1 DEF Place, PayoutFrame
  <2>3. Len(rows) \in Nat /\ DOMAIN rows = 1 .. Len(rows) /\ rows \in [1 .. Len(rows) -> RowIn(T)]
    BY <1>1, LenProperties, ElementOfSeq
  <2>4. ASSUME NEW i \in DOMAIN rows
        PROVE  (IF i \in DOMAIN mem
                THEN [rows[i] EXCEPT !.tournament_rank = CHOOSE k \in DOMAIN order : order[k] = i]
                ELSE rows[i]) \in RowIn(R)
    BY <2>1, <2>3 DEF RowIn
  <2>5. rows' \in [1 .. Len(rows) -> RowIn(R)]
    BY <1>4, <2>3, <2>4 DEF Place
  <2>6. rows' \in Seq(RowIn(R))
    BY <2>3, <2>5
  <2> QED BY <2>2, <2>6 DEF TableInv
<1>5. CASE ReadRows
  BY <1>1, <1>5 DEF ReadRows, PayoutFrame, TableInv
<1>6. CASE NoRows \/ Finish \/ RunBreaksOff
  <2>1. << >> \in Seq(RowIn(T))
    BY EmptySeq
  <2> QED BY <1>1, <1>6, <2>1 DEF NoRows, Finish, RunBreaksOff, RunEnds, PayoutFrame, TableInv
<1>7. CASE Complete \/ Tally \/ Reset \/ Reopen
  BY <1>1, <1>7 DEF Complete, Tally, Reset, Reopen, PayoutFrame, payout, TableInv
<1>8. ASSUME NEW e \in Entries,
             \/ Ask(e) \/ CheckLimit(e) \/ ReadCount(e) \/ CheckSpots(e) \/ CountUp(e)
             \/ AddDebit(e) \/ Debit(e) \/ Answer(e) \/ BreakOff(e)
      PROVE  TableInv'
  BY <1>1, <1>8 DEF Ask, CheckLimit, ReadCount, CheckSpots, CountUp, AddDebit, Debit, Answer,
       BreakOff, payout, TableInv
<1>9. CASE ReadOtherCount
  BY <1>1, <1>9 DEF ReadOtherCount, payout, TableInv
<1>10. ASSUME NEW u \in Users, Book(u) \/ Credit(u) PROVE TableInv'
  BY <1>1, <1>10 DEF Book, Credit, TableInv
<1>11. CASE UNCHANGED vars
  BY <1>1, <1>11 DEF vars, payout, TableInv
<1> QED
  BY <1>2, <1>3, <1>4, <1>5, <1>6, <1>7, <1>8, <1>9, <1>10, <1>11 DEF Next

\* What the rows that a completion holds return to a user, or to everyone.
Returns(s) == [i \in DOMAIN s |-> s[i].returns]
IndicesOf(s, u) == {i \in DOMAIN s : s[i].userid = u}

LEMMA ReturnsTyped ==
    ASSUME NEW T, NEW s \in Seq(RowIn(T))
    PROVE  /\ IsFiniteSet(DOMAIN s) /\ \A i \in DOMAIN s : Returns(s)[i] \in Nat
           /\ \A u : IsFiniteSet(IndicesOf(s, u)) /\ SumOver(Returns(s), IndicesOf(s, u)) \in Nat
<1>1. Len(s) \in Nat /\ DOMAIN s = 1 .. Len(s) /\ s \in [1 .. Len(s) -> RowIn(T)]
  BY LenProperties, ElementOfSeq
<1>2. IsFiniteSet(DOMAIN s)
  BY <1>1, FS_Interval
<1>3. \A i \in DOMAIN s : Returns(s)[i] \in Nat
  BY <1>1 DEF Returns, RowIn
<1>4. ASSUME NEW u
      PROVE  IsFiniteSet(IndicesOf(s, u)) /\ SumOver(Returns(s), IndicesOf(s, u)) \in Nat
  <2>1. PICK D, f : D = IndicesOf(s, u) /\ f = Returns(s)
    OBVIOUS
  <2>2. IsFiniteSet(D) /\ \A i \in D : f[i] \in Nat
    BY <1>2, <1>3, <2>1, FS_Subset DEF IndicesOf
  <2> QED BY <2>1, <2>2, SumNat
<1> QED BY <1>2, <1>3, <1>4

LEMMA AmountsStep ==
    ASSUME TableInv, AmountsInv, [Next]_vars
    PROVE  AmountsInv'
<1>1. ASSUME NEW e \in Entries,
             \/ Ask(e) \/ CheckLimit(e) \/ ReadCount(e) \/ CheckSpots(e) \/ CountUp(e)
             \/ PutRow(e) \/ AddDebit(e) \/ Debit(e) \/ Answer(e) \/ BreakOff(e)
      PROVE  AmountsInv'
  <2>1. pc' \in [Entries -> States]
    BY <1>1 DEF Ask, CheckLimit, ReadCount, CheckSpots, CountUp, PutRow, AddDebit, Debit,
         Answer, BreakOff, GoTo, AmountsInv, States, Handling, Checked
  <2>2. UNCHANGED <<settled, due, run, todo, uncredited>>
    BY <1>1 DEF Ask, CheckLimit, ReadCount, CheckSpots, CountUp, PutRow, AddDebit, Debit,
         Answer, BreakOff, payout, history, money
  <2>3. User[e] \in Users /\ Fee \in Int
    BY TournamentAssumption
  <2>4. wallet' \in [Users -> Int] /\ debited' \in [Users -> Int]
    <3>1. wallet \in [Users -> Int] /\ debited \in [Users -> Int]
          /\ debited[User[e]] + Fee \in Int /\ wallet[User[e]] - Fee \in Int
      BY <2>3 DEF AmountsInv
    <3>2. \/ UNCHANGED <<wallet, debited>>
          \/ debited' = [debited EXCEPT ![User[e]] = @ + Fee] /\ wallet' = wallet
          \/ wallet' = [wallet EXCEPT ![User[e]] = @ - Fee] /\ debited' = debited
      BY <1>1 DEF Ask, CheckLimit, ReadCount, CheckSpots, CountUp, PutRow, AddDebit, Debit,
           Answer, BreakOff, money
    <3> QED BY <2>3, <3>1, <3>2
  <2> QED BY <2>1, <2>2, <2>4 DEF AmountsInv
<1>2. CASE Tally
  <2>1. ASSUME NEW u \in Users PROVE due'[u] \in Nat
    <3>1. due'[u] = SumOver(Returns(mem), IndicesOf(mem, u))
      BY <1>2 DEF Tally, SumOver, Returns, IndicesOf
    <3>2. PICK T : mem \in Seq(RowIn(T))
      BY DEF TableInv
    <3> QED BY <3>1, <3>2, ReturnsTyped
  <2>2. due' = [u \in Users |-> due'[u]]
    BY <1>2 DEF Tally
  <2>3. due' \in [Users -> Nat]
    BY <2>1, <2>2
  <2> QED BY <1>2, <2>3 DEF Tally, PayoutFrame, money, entry, AmountsInv
<1>3. ASSUME NEW u \in Users, Book(u) \/ Credit(u) PROVE AmountsInv'
  <2>1. due[u] \in Nat /\ settled[u] + due[u] \in Nat /\ wallet[u] + due[u] \in Int
    BY DEF AmountsInv
  <2> QED BY <1>3, <2>1 DEF Book, Credit, entry, history, AmountsInv
<1>4. CASE RunBreaksOff
  <2>1. uncredited' \in [Users -> Int]
    <3>1. CASE run = "credit"
      <4>1. Min(todo) \in Users
        BY <3>1, MinIsLeast, TournamentAssumption DEF AmountsInv
      <4>2. uncredited[Min(todo)] + due[Min(todo)] \in Int
        BY <4>1 DEF AmountsInv
      <4> QED BY <1>4, <3>1, <4>1, <4>2 DEF RunBreaksOff, AmountsInv
    <3> QED BY <1>4, <3>1 DEF RunBreaksOff, AmountsInv
  <2> QED BY <1>4, <2>1 DEF RunBreaksOff, RunEnds, PayoutFrame, money, entry, AmountsInv
<1>5. CASE Reset
  <2>1. CASE settled' = settled /\ wallet' = wallet
    BY <1>5, <2>1 DEF Reset, entry, payout, AmountsInv
  <2>2. CASE /\ settled' = [u \in Users |-> 0]
             /\ wallet' = [u \in Users |-> wallet[u] - settled[u]]
    BY <1>5, <2>2 DEF Reset, entry, payout, AmountsInv
  <2> QED BY <1>5, <2>1, <2>2 DEF Reset
<1>6. CASE NoRows \/ Finish
  BY <1>6 DEF NoRows, Finish, RunEnds, PayoutFrame, money, entry, history, AmountsInv
<1>7. CASE Complete \/ ReadRows \/ Mark \/ Place
  BY <1>7 DEF Complete, ReadRows, Mark, Place, PayoutFrame, money, entry, history, AmountsInv
<1>8. CASE Reopen \/ ReadOtherCount \/ UNCHANGED vars
  BY <1>8 DEF Reopen, ReadOtherCount, vars, money, entry, payout, history, AmountsInv
<1> QED
  BY <1>1, <1>2, <1>3, <1>4, <1>5, <1>6, <1>7, <1>8 DEF Next

\* The fee of one entry more, or less.
LEMMA OneFee ==
    ASSUME NEW n \in Int
    PROVE  Fee * (n + 1) = Fee * n + Fee /\ Fee * n \in Int
<1>1. Fee \in Int
  BY TournamentAssumption
<1> QED BY <1>1

Owing == {"debit", "owing"}

\* The fees that are booked and not taken.
LEMMA OwingChanges ==
    ASSUME AmountsInv, NEW e \in Entries, NEW where \in States,
           pc' = [pc EXCEPT ![e] = where], NEW u \in Users
    PROVE  LET now == Cardinality(EntriesIn(u, Owing))
               next == Cardinality(EntriesIn(u, Owing)')
           IN  /\ now \in Int /\ next \in Int
               /\ pc[e] \notin Owing /\ where \in Owing /\ User[e] = u => next = now + 1
               /\ pc[e] \in Owing /\ where \notin Owing /\ User[e] = u => now = next + 1
               /\ (pc[e] \in Owing <=> where \in Owing) \/ User[e] # u => next = now
<1>1. PICK D, E : D = EntriesIn(u, Owing) /\ E = EntriesIn(u, Owing)'
  OBVIOUS
<1>2. IsFiniteSet(D) /\ IsFiniteSet(E)
  <2>1. D \subseteq Entries /\ E \subseteq Entries
    BY <1>1 DEF EntriesIn
  <2> QED BY <2>1, TournamentAssumption, FS_Subset
<1>3. \A f \in Entries : pc'[f] = IF f = e THEN where ELSE pc[f]
  BY DEF AmountsInv
<1>4. Cardinality(D) \in Nat /\ Cardinality(E) \in Nat
  BY <1>2, FS_CardinalityType
<1>5. D = {f \in Entries : User[f] = u /\ pc[f] \in Owing}
      /\ E = {f \in Entries : User[f] = u /\ pc'[f] \in Owing}
  BY <1>1 DEF EntriesIn, Owing
<1>6. CASE pc[e] \notin Owing /\ where \in Owing /\ User[e] = u
  <2>1. E = D \union {e} /\ e \notin D
    BY <1>3, <1>5, <1>6
  <2>2. Cardinality(E) = Cardinality(D) + 1
    BY <1>2, <2>1, FS_AddElement
  <2> QED BY <1>1, <1>4, <1>6, <2>2
<1>7. CASE pc[e] \in Owing /\ where \notin Owing /\ User[e] = u
  <2>1. D = E \union {e} /\ e \notin E
    BY <1>3, <1>5, <1>7
  <2>2. Cardinality(D) = Cardinality(E) + 1
    BY <1>2, <2>1, FS_AddElement
  <2> QED BY <1>1, <1>4, <1>7, <2>2
<1>8. CASE (pc[e] \in Owing <=> where \in Owing) \/ User[e] # u
  <2>1. D = E
    BY <1>3, <1>5, <1>8
  <2> QED BY <1>1, <1>4, <1>8, <2>1
<1> QED BY <1>6, <1>7, <1>8

LEMMA WalletStep ==
    ASSUME TableInv, AmountsInv, WalletIsBooked, [Next]_vars
    PROVE  WalletIsBooked'
<1> DEFINE Open(u) == IF run = "credit" /\ u = Min(todo) THEN due[u] ELSE 0
           Fees(u) == Cardinality(EntriesIn(u, Owing))
<1>1. ASSUME NEW u \in Users
      PROVE  /\ wallet[u] = settled[u] - debited[u] + Fee * Fees(u) - uncredited[u] - Open(u)
             /\ wallet[u] \in Int /\ settled[u] \in Int /\ debited[u] \in Int
             /\ uncredited[u] \in Int /\ due[u] \in Int /\ Open(u) \in Int /\ Fees(u) \in Int
             /\ Fee * Fees(u) \in Int /\ Fee \in Int
  <2>1. wallet[u] = settled[u] - debited[u] + Fee * Fees(u) - uncredited[u] - Open(u)
    BY DEF WalletIsBooked, Owing
  <2>2. Fees(u) \in Int
    <3>1. IsFiniteSet(EntriesIn(u, Owing))
      <4>1. EntriesIn(u, Owing) \subseteq Entries
        BY DEF EntriesIn
      <4> QED BY <4>1, TournamentAssumption, FS_Subset
    <3> QED BY <3>1, FS_CardinalityType
  <2>3. Fee * Fees(u) \in Int /\ Fee \in Int
    BY <2>2, OneFee, TournamentAssumption
  <2>4. /\ wallet[u] \in Int /\ settled[u] \in Int /\ debited[u] \in Int
        /\ uncredited[u] \in Int /\ due[u] \in Int
    BY DEF AmountsInv
  <2> QED BY <2>1, <2>2, <2>3, <2>4
<1> SUFFICES ASSUME NEW u \in Users
             PROVE  wallet'[u] = settled'[u] - debited'[u] + Fee * Fees(u)' - uncredited'[u]
                                   - Open(u)'
  BY DEF WalletIsBooked, Owing
<1>2. CASE UNCHANGED <<money, pc, run, todo, due, uncredited>>
  BY <1>1, <1>2 DEF money, EntriesIn
<1>3. ASSUME NEW e \in Entries, AddDebit(e)
      PROVE  wallet'[u] = settled'[u] - debited'[u] + Fee * Fees(u)' - uncredited'[u] - Open(u)'
  <2>1. /\ pc[e] = "txn" /\ pc' = [pc EXCEPT ![e] = "debit"]
        /\ debited' = [debited EXCEPT ![User[e]] = @ + Fee]
        /\ UNCHANGED <<wallet, settled, uncredited, run, todo, due>>
    BY <1>3 DEF AddDebit, GoTo, payout, history
  <2>2. Open(u)' = Open(u)
    BY <2>1
  <2>3. /\ User[e] = u => Fees(u)' = Fees(u) + 1
        /\ User[e] # u => Fees(u)' = Fees(u)
    BY <2>1, OwingChanges DEF Owing, States, Handling
  <2>4. debited'[u] = IF User[e] = u THEN debited[u] + Fee ELSE debited[u]
    BY <2>1 DEF AmountsInv
  <2> HIDE DEF Fees, Open
  <2>5. CASE User[e] = u
    <3>1. Fee * Fees(u)' = Fee * Fees(u) + Fee
      BY <1>1, <2>3, <2>5, OneFee
    <3> QED BY <1>1, <2>1, <2>2, <2>4, <2>5, <3>1
  <2>6. CASE User[e] # u
    BY <1>1, <2>1, <2>2, <2>3, <2>4, <2>6
  <2> QED BY <2>5, <2>6
<1>4. ASSUME NEW e \in Entries, Debit(e)
      PROVE  wallet'[u] = settled'[u] - debited'[u] + Fee * Fees(u)' - uncredited'[u] - Open(u)'
  <2>1. /\ pc[e] = "debit" /\ pc' = [pc EXCEPT ![e] = "entered"]
        /\ wallet' = [wallet EXCEPT ![User[e]] = @ - Fee]
        /\ UNCHANGED <<debited, settled, uncredited, run, todo, due>>
    BY <1>4 DEF Debit, GoTo, payout, history
  <2>2. Open(u)' = Open(u)
    BY <2>1
  <2>3. /\ Fees(u)' \in Int
        /\ User[e] = u => Fees(u) = Fees(u)' + 1
        /\ User[e] # u => Fees(u)' = Fees(u)
    BY <2>1, OwingChanges DEF Owing, States, Handling
  <2>4. wallet'[u] = IF User[e] = u THEN wallet[u] - Fee ELSE wallet[u]
    BY <2>1 DEF AmountsInv
  <2> HIDE DEF Fees, Open
  <2>5. CASE User[e] = u
    <3>1. Fee * Fees(u) = Fee * Fees(u)' + Fee /\ Fee * Fees(u)' \in Int
      BY <2>3, <2>5, OneFee
    <3> QED BY <1>1, <2>1, <2>2, <2>4, <2>5, <3>1
  <2>6. CASE User[e] # u
    BY <1>1, <2>1, <2>2, <2>3, <2>4, <2>6
  <2> QED BY <2>5, <2>6
<1>5. ASSUME NEW e \in Entries,
             \/ Ask(e) \/ CheckLimit(e) \/ ReadCount(e) \/ CheckSpots(e) \/ CountUp(e)
             \/ PutRow(e) \/ Answer(e) \/ BreakOff(e)
      PROVE  wallet'[u] = settled'[u] - debited'[u] + Fee * Fees(u)' - uncredited'[u] - Open(u)'
  <2>1. UNCHANGED <<wallet, debited, settled, uncredited, run, todo, due>>
    BY <1>5 DEF Ask, CheckLimit, ReadCount, CheckSpots, CountUp, PutRow, Answer, BreakOff,
         money, payout, history
  <2>2. PICK where \in States : /\ pc' = [pc EXCEPT ![e] = where]
                                /\ pc[e] \in Owing <=> where \in Owing
    BY <1>5 DEF Ask, CheckLimit, ReadCount, CheckSpots, CountUp, PutRow, Answer, BreakOff,
         GoTo, Owing, States, Handling, Checked
  <2>3. Open(u)' = Open(u)
    BY <2>1
  <2>4. Fees(u)' = Fees(u)
    BY <2>2, OwingChanges
  <2> HIDE DEF Fees, Open
  <2> QED BY <1>1, <2>1, <2>3, <2>4
<1>6. ASSUME NEW v \in Users, Book(v) \/ Credit(v)
      PROVE  wallet'[u] = settled'[u] - debited'[u] + Fee * Fees(u)' - uncredited'[u] - Open(u)'
  <2>1. /\ UNCHANGED <<debited, uncredited, due>> /\ Fees(u)' = Fees(u)
    BY <1>6 DEF Book, Credit, entry, history, EntriesIn
  <2>2. v = Min(todo)
    <3>1. todo \subseteq Nat
      BY <1>6, TournamentAssumption DEF Book, Credit, AmountsInv
    <3> QED BY <1>6, <3>1, MinIsLeast DEF Book, Credit
  <2>3. CASE Book(v)
    <3>1. /\ settled'[u] = IF u = v THEN settled[u] + due[u] ELSE settled[u]
          /\ wallet' = wallet /\ Open(u) = 0 /\ Open(u)' = IF u = v THEN due[u] ELSE 0
      BY <2>1, <2>2, <2>3 DEF Book, AmountsInv
    <3> HIDE DEF Fees, Open
    <3> QED BY <1>1, <2>1, <3>1
  <2>4. CASE Credit(v)
    <3>1. /\ wallet'[u] = IF u = v THEN wallet[u] + due[u] ELSE wallet[u]
          /\ settled'[u] = settled[u] /\ debited'[u] = debited[u]
          /\ uncredited'[u] = uncredited[u] /\ Fee * Fees(u)' = Fee * Fees(u)
          /\ Open(u) = (IF u = v THEN due[u] ELSE 0) /\ Open(u)' = 0
      BY <2>1, <2>2, <2>4 DEF Credit, AmountsInv
    <3>2. wallet'[u] = wallet[u] + Open(u)
      <4>1. CASE u = v
        BY <3>1, <4>1
      <4>2. CASE u # v
        <5>1. wallet'[u] = wallet[u] /\ Open(u) = 0 /\ wallet[u] \in Int
          BY <1>1, <3>1, <4>2
        <5> HIDE DEF Open
        <5> QED BY <5>1
      <4> QED BY <4>1, <4>2
    <3> HIDE DEF Fees, Open
    <3>3. wallet[u] + Open(u) = settled[u] - debited[u] + Fee * Fees(u) - uncredited[u] - 0
      BY <1>1
    <3> QED BY <3>1, <3>2, <3>3
  <2> QED BY <1>6, <2>3, <2>4
<1>7. CASE RunBreaksOff
  <2>1. UNCHANGED <<wallet, debited, settled>> /\ Fees(u)' = Fees(u) /\ Open(u)' = 0
    BY <1>7 DEF RunBreaksOff, RunEnds, PayoutFrame, money, entry, EntriesIn
  <2>2. uncredited'[u] = uncredited[u] + Open(u)
    <3>1. CASE run = "credit" /\ u = Min(todo)
      BY <1>7, <3>1 DEF RunBreaksOff, AmountsInv
    <3>2. CASE ~(run = "credit" /\ u = Min(todo))
      BY <1>1, <1>7, <3>2 DEF RunBreaksOff, AmountsInv
    <3> QED BY <3>1, <3>2
  <2> HIDE DEF Fees, Open
  <2> QED BY <1>1, <2>1, <2>2
<1>8. CASE Reset
  <2>1. /\ UNCHANGED <<debited, uncredited>> /\ Fees(u)' = Fees(u) /\ Open(u)' = Open(u)
    BY <1>8 DEF Reset, entry, payout, EntriesIn
  <2>2. \/ settled'[u] = settled[u] /\ wallet'[u] = wallet[u]
        \/ settled'[u] = 0 /\ wallet'[u] = wallet[u] - settled[u]
    BY <1>8 DEF Reset
  <2> HIDE DEF Fees, Open
  <2> QED BY <1>1, <2>1, <2>2
<1>9. CASE Complete \/ ReadRows \/ NoRows \/ Mark \/ Tally \/ Place \/ Finish
  <2>1. UNCHANGED <<money, pc, uncredited>> /\ run # "credit" /\ run' # "credit"
    BY <1>9 DEF Complete, ReadRows, NoRows, Mark, Tally, Place, Finish, RunEnds, PayoutFrame,
         entry, history
  <2>2. Fees(u)' = Fees(u) /\ Open(u)' = Open(u) /\ UNCHANGED <<wallet, settled, debited>>
    BY <2>1 DEF EntriesIn, money
  <2> HIDE DEF Fees, Open
  <2> QED BY <1>1, <2>1, <2>2
<1>10. CASE ReadOtherCount \/ Reopen \/ UNCHANGED vars
  BY <1>2, <1>10 DEF ReadOtherCount, Reopen, vars, entry, payout, history, money
<1> QED
  BY <1>3, <1>4, <1>5, <1>6, <1>7, <1>8, <1>9, <1>10 DEF Next

LEMMA AmountsInit == Init => TableInv /\ AmountsInv /\ WalletIsBooked
<1> SUFFICES ASSUME Init PROVE TableInv /\ AmountsInv /\ WalletIsBooked
  OBVIOUS
<1>1. << >> \in Seq(RowIn({}))
  BY EmptySeq
<1>2. TableInv
  BY <1>1, TournamentAssumption DEF Init, TableInv
<1>3. AmountsInv
  BY DEF Init, AmountsInv, States
<1>4. ASSUME NEW u \in Users PROVE EntriesIn(u, {"debit", "owing"}) = {}
  BY DEF Init, EntriesIn
<1>5. Fee * 0 = 0
  BY TournamentAssumption
<1>6. WalletIsBooked
  <2> SUFFICES ASSUME NEW u \in Users
               PROVE  wallet[u] = settled[u] - debited[u]
                        + Fee * Cardinality(EntriesIn(u, {"debit", "owing"})) - uncredited[u]
                        - (IF run = "credit" /\ u = Min(todo) THEN due[u] ELSE 0)
    BY DEF WalletIsBooked
  <2>1. Fee * Cardinality(EntriesIn(u, {"debit", "owing"})) = 0
    BY <1>4, <1>5, FS_EmptySet
  <2>2. (IF run = "credit" /\ u = Min(todo) THEN due[u] ELSE 0) = 0
    BY DEF Init
  <2>3. wallet[u] = 0 /\ settled[u] = 0 /\ debited[u] = 0 /\ uncredited[u] = 0
    BY DEF Init
  <2> QED BY <2>1, <2>2, <2>3
<1> QED BY <1>2, <1>3, <1>6

\* A wallet of a tournament's user has changed by what his transactions say, but for
\* a debit or a credit between its two writes or broken off there: for any number of
\* users and entries, whatever fails, is repeated and reset.
THEOREM WalletHolds == Spec => []WalletIsBooked
BY AmountsInit, TableStep, AmountsStep, WalletStep, PTL DEF Spec

\* While the prizes are marked and paid, the rows that the completion holds are the
\* first ones of the table, each has one rank, and the returns agree unless one could
\* not be written.
RanksInv ==
    run \in {"mark", "book", "credit", "finish"} =>
        /\ DOMAIN mem \subseteq DOMAIN rows
        /\ \A i \in DOMAIN mem : mem[i].userid = rows[i].userid
        /\ \A k \in DOMAIN mem : order[k] \in DOMAIN mem
        /\ \A k, l \in DOMAIN mem : order[k] = order[l] => k = l
        /\ ~unmarked => \A i \in DOMAIN rows :
               rows[i].returns = IF i \in DOMAIN mem THEN mem[i].returns ELSE 0

\* What is due to a user is what his rows say, and in the first pay-out since a reset
\* he has it or nothing.
DueInv ==
    /\ unreset \in Nat
    /\ run # "idle" => status = "F"
    /\ run = "finish" => todo = {}
    /\ unreset = 0 => \A u \in Users : settled[u] = 0
    /\ run \in {"book", "credit", "finish"} =>
           /\ unreset >= 1
           /\ \A u \in Users : due[u] = SumOver(Returns(mem), IndicesOf(mem, u))
           /\ unreset = 1 => \A u \in Users :
                  settled[u] = IF u \in todo /\ ~(run = "credit" /\ u = Min(todo))
                               THEN 0 ELSE due[u]

\* Unless rows had returns when they were read, the ranks marked have their prizes, the
\* others nothing, and what is due is within the pool.
PrizesInv ==
    ~stale =>
        /\ run = "mark" => \A k \in DOMAIN mem :
               mem[order[k]].returns = IF k \in todo THEN 0
                                       ELSE Prize(players, Len(mem), k - 1)
        /\ run \in {"book", "credit", "finish"} => SumOver(due, Users) <= Pool

\* upto has for each index those up to it, by a number and, where that is equal, by index.
Sorted(n, first, upto) ==
    /\ \A i \in 1 .. n : first[i] \in Nat /\ upto[i] \subseteq 1 .. n
    /\ \A i, j \in 1 .. n : j \in upto[i] <=>
           first[j] < first[i] \/ (first[j] = first[i] /\ j <= i)

\* Every rank is that of an index.
LEMMA Ranking ==
    ASSUME NEW n \in Nat, NEW first, NEW upto, Sorted(n, first, upto)
    PROVE  \A k \in 1 .. n : \E i \in 1 .. n : Cardinality(upto[i]) = k
<1>0. PICK D : D = 1 .. n
  OBVIOUS
<1> SUFFICES ASSUME NEW k \in D PROVE \E i \in D : Cardinality(upto[i]) = k
  BY <1>0
<1> USE <1>0 DEF Sorted
<1> DEFINE rank == [i \in D |-> Cardinality(upto[i])]
<1>1. IsFiniteSet(D) /\ Cardinality(D) = n
  <2>1. Cardinality(1 .. n) = (IF 1 > n THEN 0 ELSE n - 1 + 1) /\ IsFiniteSet(1 .. n)
    BY FS_Interval
  <2> QED BY <2>1
<1>2. ASSUME NEW i \in D
      PROVE  IsFiniteSet(upto[i]) /\ Cardinality(upto[i]) \in D
  <2>1. upto[i] \subseteq D /\ i \in upto[i]
    OBVIOUS
  <2>2. IsFiniteSet(upto[i]) /\ Cardinality(upto[i]) <= n
    BY <1>1, <2>1, FS_Subset
  <2>3. Cardinality(upto[i]) \in Nat /\ Cardinality(upto[i]) # 0
    BY <2>1, <2>2, FS_CardinalityType, FS_EmptySet
  <2> QED BY <2>2, <2>3
<1>3. ASSUME NEW i \in D, NEW j \in D, i # j PROVE rank[i] # rank[j]
  <2>1. ASSUME NEW a \in D, NEW b \in D, a # b,
               first[a] < first[b] \/ (first[a] = first[b] /\ a <= b)
        PROVE  rank[a] # rank[b]
    <3>1. /\ a \in Nat /\ b \in Nat /\ first[a] \in Nat /\ first[b] \in Nat
      OBVIOUS
    <3>2. b \in upto[b] /\ b \notin upto[a]
      BY <2>1, <3>1
    <3>3. ASSUME NEW c \in upto[a] PROVE c \in upto[b]
      <4>1. c \in D /\ c \in Nat /\ first[c] \in Nat
        OBVIOUS
      <4> QED BY <2>1, <3>1, <4>1, <3>3
    <3>4. upto[a] \in SUBSET upto[b] /\ upto[a] # upto[b]
      BY <3>2, <3>3
    <3>5. IsFiniteSet(upto[b])
      BY <1>2
    <3>6. Cardinality(upto[b]) # Cardinality(upto[a])
      BY <3>4, <3>5, FS_Subset
    <3> QED BY <3>6
  <2>2. first[i] \in Nat /\ first[j] \in Nat /\ i \in Nat /\ j \in Nat
    OBVIOUS
  <2>3. \/ first[i] < first[j] \/ (first[i] = first[j] /\ i <= j)
        \/ first[j] < first[i] \/ (first[j] = first[i] /\ j <= i)
    BY <2>2
  <2> HIDE DEF rank
  <2> QED BY <1>3, <2>1, <2>3
<1>4. rank \in Injection(D, D)
  <2>1. rank \in [D -> D]
    BY <1>2
  <2> HIDE DEF rank
  <2> QED BY <1>3, <2>1 DEF Injection, IsInjective
<1>5. rank \in Surjection(D, D)
  <2> HIDE DEF rank
  <2> QED BY <1>1, <1>4, FS_Injection
<1>6. PICK i \in D : rank[i] = k
  <2> HIDE DEF rank
  <2> QED BY <1>5 DEF Surjection
<1> QED BY <1>6

LEMMA GroupsRank ==
    ASSUME NEW T, NEW s \in Seq(RowIn(T)), NEW number \in BOOLEAN, NEW ranked,
           ranked = Groups(s, number)
    PROVE  /\ \A k \in DOMAIN s : ranked[k] \in DOMAIN s
           /\ \A k, l \in DOMAIN s : ranked[k] = ranked[l] => k = l
<1>1. Len(s) \in Nat /\ DOMAIN s = 1 .. Len(s)
  BY LenProperties
<1> DEFINE Alike(i) == {j \in DOMAIN s : s[j].callvalue = s[i].callvalue}
<1>2. PICK first : first = [i \in DOMAIN s |-> IF number THEN Min(Alike(i)) ELSE 1]
  OBVIOUS
<1>3. ASSUME NEW i \in DOMAIN s PROVE first[i] \in Nat
  <2>1. Alike(i) \subseteq Nat /\ i \in Alike(i)
    BY <1>1
  <2> HIDE DEF Alike
  <2>2. Min(Alike(i)) \in Nat
    BY <2>1, MinIsLeast
  <2> QED BY <1>2, <2>2
<1> DEFINE Value(i) == IF number THEN Min(Alike(i)) ELSE 1
           Before(j, i) == Value(j) < Value(i) \/ (Value(j) = Value(i) /\ j <= i)
<1>4. ranked = [k \in DOMAIN s |->
          CHOOSE i \in DOMAIN s : Cardinality({j \in DOMAIN s : Before(j, i)}) = k]
  BY DEF Groups
<1>5. PICK D : D = DOMAIN s
  OBVIOUS
<1>6. ASSUME NEW k \in D PROVE \E i \in D : Cardinality({j \in D : Before(j, i)}) = k
  <2>1. PICK n \in Nat : D = 1 .. n
    BY <1>1, <1>5
  <2>2. \A i \in D : first[i] \in Nat /\ first[i] = Value(i)
    BY <1>2, <1>3, <1>5
  <2> HIDE DEF Value
  <2>3. PICK upto : upto = [i \in D |-> {j \in D : Before(j, i)}]
    OBVIOUS
  <2>4. Sorted(n, first, upto)
    BY <2>1, <2>2, <2>3 DEF Sorted
  <2> HIDE DEF Before
  <2>5. \E i \in D : Cardinality(upto[i]) = k
    BY <1>6, <2>1, <2>4, Ranking
  <2> QED BY <2>3, <2>5
<1> HIDE DEF Before
<1>7. \A k \in D : ranked[k] \in D /\ Cardinality({j \in D : Before(j, ranked[k])}) = k
  <2> SUFFICES ASSUME NEW k \in D
               PROVE  ranked[k] \in D /\ Cardinality({j \in D : Before(j, ranked[k])}) = k
    OBVIOUS
  <2>1. ranked[k] = CHOOSE i \in D : Cardinality({j \in D : Before(j, i)}) = k
    BY <1>4, <1>5
  <2> QED BY <1>6, <2>1
<1>8. ASSUME NEW k \in D, NEW l \in D, ranked[k] = ranked[l] PROVE k = l
  <2>1. Cardinality({j \in D : Before(j, ranked[k])}) = k
    BY <1>7
  <2>2. Cardinality({j \in D : Before(j, ranked[l])}) = l
    BY <1>7
  <2> QED BY <1>8, <2>1, <2>2
<1> QED BY <1>5, <1>7, <1>8

\* What a row added, a prize marked and the ranks written change of the rows.
LEMMA PutChanges ==
    ASSUME TableInv, NEW e \in Entries, PutRow(e)
    PROVE  /\ DOMAIN rows \subseteq DOMAIN rows'
           /\ \A i \in DOMAIN rows : rows'[i] = rows[i]
           /\ \A i \in DOMAIN rows' \ DOMAIN rows : rows'[i].returns = 0
<1>1. PICK T : rows \in Seq(RowIn(T))
  BY DEF TableInv
<1>2. PICK v \in Values : rows' = Append(rows, [userid |-> User[e], orderid |-> ExecId(e),
          callvalue |-> v, returns |-> 0, tournament_rank |-> 0])
  BY DEF PutRow
<1>3. PICK row : /\ rows' = Append(rows, row) /\ row.returns = 0
  BY <1>2
<1>4. PICK S : rows \in Seq(S)
  BY <1>1
<1>5. Len(rows) \in Nat /\ DOMAIN rows = 1 .. Len(rows)
  BY <1>4, LenProperties
<1>6. rows \in Seq(S \union {row}) /\ row \in S \union {row}
  BY <1>4
<1>7. /\ Len(rows') = Len(rows) + 1 /\ DOMAIN rows' = 1 .. Len(rows')
      /\ \A i \in 1 .. Len(rows) : rows'[i] = rows[i]
      /\ rows'[Len(rows) + 1] = row
  <2>1. rows' \in Seq(S \union {row})
    BY <1>3, <1>6, AppendProperties
  <2> QED BY <1>3, <1>6, <2>1, AppendProperties, LenProperties
<1> QED BY <1>3, <1>5, <1>7

LEMMA MarkChanges ==
    ASSUME TableInv, RanksInv, Mark
    PROVE  \E k \in todo : \E amount \in Nat :
               /\ k = Min(todo) /\ k \in DOMAIN mem /\ order[k] \in DOMAIN mem
               /\ amount = Prize(players, Len(mem), k - 1) /\ todo' = todo \ {k}
               /\ Len(mem') = Len(mem) /\ DOMAIN mem' = DOMAIN mem
               /\ DOMAIN rows' = DOMAIN rows
               /\ \A i \in DOMAIN mem :
                      /\ mem'[i].userid = mem[i].userid
                      /\ mem'[i].returns = IF i = order[k] THEN amount ELSE mem[i].returns
               /\ \A i \in DOMAIN rows : rows'[i].userid = rows[i].userid
               /\ \/ /\ unmarked' = unmarked
                     /\ \A i \in DOMAIN rows : rows'[i].returns =
                            IF i = order[k] THEN amount ELSE rows[i].returns
                  \/ unmarked' = TRUE
<1>1. PICK T : rows \in Seq(RowIn(T)) /\ mem \in Seq(RowIn(T))
  BY DEF TableInv
<1>2. /\ Len(mem) \in Nat /\ DOMAIN mem = 1 .. Len(mem)
      /\ DOMAIN rows = 1 .. Len(rows) /\ todo \subseteq DOMAIN mem /\ todo # {}
      /\ \A i \in DOMAIN mem : mem[i] \in RowIn(T)
      /\ \A i \in DOMAIN rows : rows[i] \in RowIn(T)
  BY <1>1, LenProperties, ElementOfSeq DEF TableInv, Mark
<1>3. todo \subseteq Nat
  BY <1>2
<1>4. PICK k \in todo : k = Min(todo) /\ k \in DOMAIN mem
  BY <1>2, <1>3, MinIsLeast
<1>5. PICK i : i = order[k] /\ i \in DOMAIN mem /\ i \in DOMAIN rows
  BY <1>4 DEF RanksInv, Mark
<1>6. k - 1 \in Nat /\ players \in Nat
  BY <1>2, <1>4 DEF TableInv
<1>7. PICK amount \in Nat : amount = Prize(players, Len(mem), k - 1)
  BY <1>2, <1>6, PrizeType
<1>8. /\ todo' = todo \ {k} /\ mem' = [mem EXCEPT ![i].returns = amount]
      /\ \/ rows' = [rows EXCEPT ![i].returns = amount] /\ unmarked' = unmarked
         \/ rows' = rows /\ unmarked' = TRUE
  BY <1>4, <1>5, <1>7 DEF Mark
<1>9. /\ DOMAIN mem' = DOMAIN mem
      /\ \A j \in DOMAIN mem : /\ mem'[j].userid = mem[j].userid
                               /\ mem'[j].returns = IF j = i THEN amount ELSE mem[j].returns
  BY <1>2, <1>5, <1>8 DEF RowIn
<1>10. Len(mem') = Len(mem)
  <2>1. mem' \in Seq(RowIn(T))
    <3>1. i \in Nat /\ mem' = [mem EXCEPT ![i].returns = amount]
      BY <1>2, <1>5, <1>8
    <3> QED BY <1>1, <3>1, RowChanges
  <2>2. Len(mem') \in Nat /\ DOMAIN mem' = 1 .. Len(mem')
    BY <2>1, LenProperties
  <2> QED BY <1>2, <1>9, <2>2
<1>11. /\ DOMAIN rows' = DOMAIN rows
       /\ \A j \in DOMAIN rows : rows'[j].userid = rows[j].userid
       /\ \/ /\ unmarked' = unmarked
             /\ \A j \in DOMAIN rows :
                    rows'[j].returns = IF j = i THEN amount ELSE rows[j].returns
          \/ unmarked' = TRUE
  <2>1. CASE rows' = [rows EXCEPT ![i].returns = amount] /\ unmarked' = unmarked
    BY <1>2, <1>5, <2>1 DEF RowIn
  <2>2. CASE rows' = rows /\ unmarked' = TRUE
    BY <2>2
  <2> QED BY <1>8, <2>1, <2>2
<1> QED BY <1>4, <1>5, <1>7, <1>8, <1>9, <1>10, <1>11

LEMMA PlaceChanges ==
    ASSUME TableInv, Place
    PROVE  /\ DOMAIN rows' = DOMAIN rows
           /\ \A i \in DOMAIN rows : /\ rows'[i].userid = rows[i].userid
                                     /\ rows'[i].returns = rows[i].returns
<1>1. PICK T : rows \in Seq(RowIn(T))
  BY DEF TableInv
<1>2. \A i \in DOMAIN rows : rows[i] \in RowIn(T)
  BY <1>1, LenProperties, ElementOfSeq
<1> QED BY <1>2 DEF Place, RowIn

LEMMA RanksStep ==
    ASSUME TableInv, RanksInv, [Next]_vars
    PROVE  RanksInv'
<1>1. ASSUME NEW e \in Entries, PutRow(e) PROVE RanksInv'
  <2>1. UNCHANGED <<run, mem, order, unmarked>>
    BY <1>1 DEF PutRow, payout, history
  <2> QED BY <1>1, <2>1, PutChanges DEF RanksInv
<1>2. CASE ReadRows
  <2>1. PICK T : rows \in Seq(RowIn(T))
    BY DEF TableInv
  <2>2. PICK number \in BOOLEAN : order' = Groups(rows, number)
    BY <1>2 DEF ReadRows
  <2>3. /\ \A k \in DOMAIN rows : order'[k] \in DOMAIN rows
        /\ \A k, l \in DOMAIN rows : order'[k] = order'[l] => k = l
    <3>1. PICK ranked : ranked = order'
      OBVIOUS
    <3> QED BY <2>1, <2>2, <3>1, GroupsRank
  <2> QED BY <1>2, <2>3 DEF ReadRows, RanksInv
<1>3. CASE Mark
  <2>1. run = "mark" /\ run' = "mark" /\ order' = order
    BY <1>3 DEF Mark
  <2> QED BY <1>3, <2>1, MarkChanges DEF RanksInv
<1>4. CASE Place
  <2>1. run = "book" /\ UNCHANGED <<mem, order, unmarked>>
    BY <1>4 DEF Place, history
  <2> QED BY <1>4, <2>1, PlaceChanges DEF RanksInv
<1>5. ASSUME NEW e \in Entries,
             \/ Ask(e) \/ CheckLimit(e) \/ ReadCount(e) \/ CheckSpots(e) \/ CountUp(e)
             \/ AddDebit(e) \/ Debit(e) \/ Answer(e) \/ BreakOff(e)
      PROVE  RanksInv'
  BY <1>5 DEF Ask, CheckLimit, ReadCount, CheckSpots, CountUp, AddDebit, Debit, Answer,
       BreakOff, payout, history, RanksInv
<1>6. CASE ReadOtherCount
  BY <1>6 DEF ReadOtherCount, payout, history, RanksInv
<1>7. CASE Complete \/ NoRows \/ Finish \/ RunBreaksOff
  BY <1>7 DEF Complete, NoRows, Finish, RunBreaksOff, RunEnds, RanksInv
<1>8. CASE Tally
  BY <1>8 DEF Tally, RanksInv
<1>9. CASE Reset \/ Reopen
  BY <1>9 DEF Reset, Reopen, payout, RanksInv
<1>10. ASSUME NEW u \in Users, Book(u) \/ Credit(u) PROVE RanksInv'
  BY <1>10 DEF Book, Credit, history, RanksInv
<1>11. CASE UNCHANGED vars
  BY <1>11 DEF vars, payout, history, RanksInv
<1> QED
  BY <1>1, <1>2, <1>3, <1>4, <1>5, <1>6, <1>7, <1>8, <1>9, <1>10, <1>11 DEF Next

LEMMA DueStep ==
    ASSUME TableInv, AmountsInv, DueInv, [Next]_vars
    PROVE  DueInv'
<1>1. CASE Tally
  <2>1. /\ run' = "book" /\ unreset' = unreset + 1 /\ unreset \in Nat
        /\ UNCHANGED <<mem, settled, status>> /\ status = "F"
        /\ \A u \in Users : due'[u] = SumOver(Returns(mem), IndicesOf(mem, u))
        /\ \A u \in Users : u \notin todo' => ~(due'[u] > 0)
    BY <1>1 DEF Tally, PayoutFrame, money, DueInv, SumOver, Returns, IndicesOf
  <2>2. \A u \in Users : due'[u] \in Nat
    BY <1>1, AmountsStep DEF AmountsInv
  <2>3. unreset' \in Nat /\ unreset' >= 1 /\ (unreset' = 1 => unreset = 0)
    BY <2>1
  <2>4. ASSUME unreset' = 1, NEW u \in Users
        PROVE  settled'[u] = IF u \in todo' THEN 0 ELSE due'[u]
    <3>1. settled'[u] = 0
      BY <2>1, <2>3, <2>4 DEF DueInv
    <3>2. u \notin todo' => due'[u] = 0
      BY <2>1, <2>2
    <3> QED BY <3>1, <3>2
  <2>5. \A u \in Users : due'[u] = SumOver(Returns(mem'), IndicesOf(mem', u))
    BY <2>1
  <2> QED BY <2>1, <2>3, <2>4, <2>5 DEF DueInv
<1>2. ASSUME NEW v \in Users, Book(v) \/ Credit(v) PROVE DueInv'
  <2>1. v = Min(todo) /\ v \in todo
    <3>1. todo \subseteq Nat
      BY <1>2, TournamentAssumption DEF Book, Credit, AmountsInv
    <3> QED BY <1>2, <3>1, MinIsLeast DEF Book, Credit
  <2>2. /\ unreset' = unreset /\ unreset \in Nat /\ unreset >= 1
        /\ status' = status /\ status = "F" /\ mem' = mem /\ due' = due
        /\ run \in {"book", "credit"} /\ run' \in {"book", "credit"}
        /\ \A u \in Users : due[u] = SumOver(Returns(mem), IndicesOf(mem, u))
    BY <1>2 DEF Book, Credit, history, DueInv
  <2>3. \A u \in Users : due[u] \in Nat /\ settled[u] \in Nat
    BY DEF AmountsInv
  <2>4. ASSUME unreset = 1, NEW u \in Users
        PROVE  settled'[u] = IF u \in todo' /\ ~(run' = "credit" /\ u = Min(todo'))
                             THEN 0 ELSE due[u]
    <3>1. settled[u] = IF u \in todo /\ ~(run = "credit" /\ u = Min(todo)) THEN 0 ELSE due[u]
      BY <2>2, <2>4 DEF DueInv
    <3>2. CASE Book(v)
      <4>1. /\ run = "book" /\ run' = "credit" /\ todo' = todo
            /\ settled'[u] = IF u = v THEN settled[u] + due[u] ELSE settled[u]
        BY <3>2 DEF Book, AmountsInv
      <4>2. u = v => settled[u] = 0 /\ settled'[u] = settled[u] + due[u]
        BY <2>1, <3>1, <4>1
      <4>3. u = v => settled'[u] = due[u]
        BY <2>3, <4>2
      <4> QED BY <2>1, <3>1, <4>1, <4>3
    <3>3. CASE Credit(v)
      <4>1. run = "credit" /\ run' = "book" /\ todo' = todo \ {v} /\ settled' = settled
        BY <3>3 DEF Credit
      <4> QED BY <2>1, <3>1, <4>1
    <3> QED BY <1>2, <3>2, <3>3
  <2> QED BY <2>2, <2>4 DEF DueInv
<1>3. CASE Reset
  <2>1. /\ run = "idle" /\ run' = "idle" /\ unreset \in Nat
        /\ \/ unreset' = 0 /\ settled' = [u \in Users |-> 0]
           \/ UNCHANGED <<settled, unreset>>
    BY <1>3 DEF Reset, payout, DueInv
  <2> QED BY <2>1 DEF DueInv
<1>4. CASE Complete \/ ReadRows \/ NoRows \/ Mark \/ Finish \/ RunBreaksOff
  <2>1. UNCHANGED <<settled, unreset>>
    BY <1>4 DEF Complete, ReadRows, NoRows, Mark, Finish, RunBreaksOff, PayoutFrame, money,
         history
  <2>2. run' \in {"idle", "read", "mark"} /\ (run' # "idle" => status' = "F")
    BY <1>4 DEF Complete, ReadRows, NoRows, Mark, Finish, RunBreaksOff, RunEnds, DueInv
  <2> QED BY <2>1, <2>2 DEF DueInv
<1>5. CASE Place
  <2>1. /\ run = "book" /\ run' = "finish" /\ todo = {}
        /\ UNCHANGED <<settled, unreset, status, mem, todo, due>>
    BY <1>5 DEF Place, PayoutFrame, money, history
  <2> QED BY <2>1 DEF DueInv
<1>6. ASSUME NEW e \in Entries,
             \/ Ask(e) \/ CheckLimit(e) \/ ReadCount(e) \/ CheckSpots(e) \/ CountUp(e)
             \/ PutRow(e) \/ AddDebit(e) \/ Debit(e) \/ Answer(e) \/ BreakOff(e)
      PROVE  DueInv'
  <2>1. UNCHANGED <<settled, unreset, status, run, mem, todo, due>>
    BY <1>6 DEF Ask, CheckLimit, ReadCount, CheckSpots, CountUp, PutRow, AddDebit, Debit,
         Answer, BreakOff, payout, history, money
  <2> QED BY <2>1 DEF DueInv
<1>7. CASE ReadOtherCount \/ Reopen \/ UNCHANGED vars
  BY <1>7 DEF ReadOtherCount, Reopen, payout, history, money, vars, DueInv
<1> QED BY <1>1, <1>2, <1>3, <1>4, <1>5, <1>6, <1>7 DEF Next

\* What the rows return does not change when those that are added return nothing.
LEMMA SameReturns ==
    ASSUME NEW T, NEW s \in Seq(RowIn(T)), NEW R, NEW t \in Seq(RowIn(R)),
           DOMAIN s \subseteq DOMAIN t,
           \A i \in DOMAIN s : t[i].userid = s[i].userid /\ t[i].returns = s[i].returns,
           \A i \in DOMAIN t \ DOMAIN s : t[i].returns = 0
    PROVE  \A u : SumOver(Returns(t), IndicesOf(t, u)) = SumOver(Returns(s), IndicesOf(s, u))
<1> SUFFICES ASSUME NEW u
             PROVE  SumOver(Returns(t), IndicesOf(t, u)) = SumOver(Returns(s), IndicesOf(s, u))
  OBVIOUS
<1>1. PICK f, g : f = Returns(s) /\ g = Returns(t)
  OBVIOUS
<1>2. PICK D, E : D = IndicesOf(s, u) /\ E = IndicesOf(t, u) \ DOMAIN s
  OBVIOUS
<1>3. IndicesOf(t, u) = D \union E /\ D \intersect E = {}
  BY <1>2 DEF IndicesOf
<1>4. IsFiniteSet(D) /\ IsFiniteSet(E)
  <2>1. IsFiniteSet(IndicesOf(s, u)) /\ IsFiniteSet(IndicesOf(t, u))
    BY ReturnsTyped
  <2>2. E \in SUBSET IndicesOf(t, u)
    BY <1>2
  <2> QED BY <1>2, <2>1, <2>2, FS_Subset
<1>5. \A i \in DOMAIN t : g[i] \in Nat
  BY <1>1, ReturnsTyped
<1>6. \A i \in D \union E : g[i] \in Int
  BY <1>2, <1>5 DEF IndicesOf
<1>7. \A i \in E : g[i] = 0
  BY <1>1, <1>2 DEF Returns, IndicesOf
<1>8. \A i \in D : f[i] = g[i]
  BY <1>1, <1>2 DEF Returns, IndicesOf
<1>9. SumOver(g, D \union E) = SumOver(g, D) + SumOver(g, E)
  BY <1>3, <1>4, <1>6, SumUnion
<1>10. SumOver(g, E) = 0
  BY <1>4, <1>7, SumZero
<1>11. SumOver(f, D) = SumOver(g, D)
  BY <1>4, <1>8, SumSame
<1>12. SumOver(g, D) \in Int
  BY <1>4, <1>6, SumType
<1>13. SumOver(g, D \union E) = SumOver(f, D)
  BY <1>9, <1>10, <1>11, <1>12
<1> QED BY <1>1, <1>2, <1>3, <1>13

LEMMA ReturnsStep ==
    ASSUME TableInv, AmountsInv, RanksInv, DueInv, ReturnsArePaid, [Next]_vars
    PROVE  ReturnsArePaid'
<1>1. TableInv' /\ DueInv'
  BY TableStep, DueStep
<1>2. PICK T, R : rows \in Seq(RowIn(T)) /\ mem \in Seq(RowIn(T)) /\ rows' \in Seq(RowIn(R))
  BY <1>1 DEF TableInv
<1>3. /\ ReturnsArePaid <=>
            (status = "C" /\ run = "idle" /\ unreset = 1 /\ ~unmarked =>
                \A u \in Users : settled[u] = SumOver(Returns(rows), IndicesOf(rows, u)))
      /\ ReturnsArePaid' <=>
            (status' = "C" /\ run' = "idle" /\ unreset' = 1 /\ ~unmarked' =>
                \A u \in Users : settled'[u] = SumOver(Returns(rows'), IndicesOf(rows', u)))
  <2>1. \A u : TotalOf([i \in DOMAIN rows |-> rows[i].returns], RowsOf(u))
                 = SumOver(Returns(rows), IndicesOf(rows, u))
    BY DEF TotalOf, RowsOf, SumOver, Returns, IndicesOf
  <2>2. \A u : TotalOf([i \in DOMAIN rows' |-> rows'[i].returns], RowsOf(u)')
                 = SumOver(Returns(rows'), IndicesOf(rows', u))
    BY DEF TotalOf, RowsOf, SumOver, Returns, IndicesOf
  <2> QED BY <2>1, <2>2 DEF ReturnsArePaid
<1>4. ASSUME NEW e \in Entries, PutRow(e) PROVE ReturnsArePaid'
  <2>1. UNCHANGED <<status, run, unreset, unmarked, settled>>
    BY <1>4 DEF PutRow, payout, history, money
  <2>2. \A u : SumOver(Returns(rows'), IndicesOf(rows', u))
                 = SumOver(Returns(rows), IndicesOf(rows, u))
    <3>1. PICK s, t : s = rows /\ t = rows'
      OBVIOUS
    <3>2. /\ DOMAIN s \subseteq DOMAIN t
          /\ \A i \in DOMAIN s : t[i].userid = s[i].userid /\ t[i].returns = s[i].returns
          /\ \A i \in DOMAIN t \ DOMAIN s : t[i].returns = 0
      BY <1>4, <3>1, PutChanges
    <3>3. \A u : SumOver(Returns(t), IndicesOf(t, u)) = SumOver(Returns(s), IndicesOf(s, u))
      BY <1>2, <3>1, <3>2, SameReturns
    <3> QED BY <3>1, <3>3
  <2> QED BY <1>3, <2>1, <2>2
<1>5. CASE Finish
  <2>1. /\ run = "finish" /\ todo = {}
        /\ UNCHANGED <<rows, unreset, unmarked, settled>>
    BY <1>5 DEF Finish, PayoutFrame, history, money, DueInv
  <2>2. ASSUME unreset = 1, ~unmarked, NEW u \in Users
        PROVE  settled[u] = SumOver(Returns(rows), IndicesOf(rows, u))
    <3>1. settled[u] = SumOver(Returns(mem), IndicesOf(mem, u))
      BY <2>1, <2>2 DEF DueInv
    <3>2. /\ DOMAIN mem \subseteq DOMAIN rows
          /\ \A i \in DOMAIN mem : rows[i].userid = mem[i].userid
                                     /\ rows[i].returns = mem[i].returns
          /\ \A i \in DOMAIN rows \ DOMAIN mem : rows[i].returns = 0
      BY <2>1, <2>2 DEF RanksInv
    <3>3. SumOver(Returns(rows), IndicesOf(rows, u)) = SumOver(Returns(mem), IndicesOf(mem, u))
      BY <1>2, <3>2, SameReturns
    <3> QED BY <3>1, <3>3
  <2> QED BY <1>3, <2>1, <2>2
<1>6. CASE Complete \/ ReadRows \/ NoRows \/ Mark \/ Tally \/ Place \/ RunBreaksOff
           \/ Reset \/ Reopen
  <2>1. run' # "idle" \/ status' # "C"
    BY <1>6 DEF Complete, ReadRows, NoRows, Mark, Tally, Place, RunBreaksOff, Reset, Reopen,
         RunEnds, DueInv
  <2> QED BY <1>3, <2>1
<1>7. ASSUME NEW u \in Users, Book(u) \/ Credit(u) PROVE ReturnsArePaid'
  BY <1>3, <1>7 DEF Book, Credit
<1>8. ASSUME NEW e \in Entries,
             \/ Ask(e) \/ CheckLimit(e) \/ ReadCount(e) \/ CheckSpots(e) \/ CountUp(e)
             \/ AddDebit(e) \/ Debit(e) \/ Answer(e) \/ BreakOff(e)
      PROVE  ReturnsArePaid'
  <2>1. UNCHANGED <<status, run, unreset, unmarked, settled, rows>>
    BY <1>8 DEF Ask, CheckLimit, ReadCount, CheckSpots, CountUp, AddDebit, Debit, Answer,
         BreakOff, payout, history, money
  <2> QED BY <1>3, <2>1
<1>9. CASE ReadOtherCount \/ UNCHANGED vars
  <2>1. UNCHANGED <<status, run, unreset, unmarked, settled, rows>>
    BY <1>9 DEF ReadOtherCount, vars, payout, history, money
  <2> QED BY <1>3, <2>1
<1> QED BY <1>4, <1>5, <1>6, <1>7, <1>8, <1>9 DEF Next

\* Every rank up to 500 is in one bracket.
LEMMA BracketIs ==
    ASSUME NEW rank \in Nat, rank < 500
    PROVE  /\ BracketOf(rank) \in Brackets
           /\ \A b \in Brackets : BracketOf(rank) = b <=> First(b) <= rank /\ rank < Ends[b]
<1>1. /\ First(1) = 0 /\ Ends[1] = 1 /\ First(2) = 1 /\ Ends[2] = 2
      /\ First(3) = 2 /\ Ends[3] = 3 /\ First(4) = 3 /\ Ends[4] = 5
      /\ First(5) = 5 /\ Ends[5] = 10 /\ First(6) = 10 /\ Ends[6] = 20
      /\ First(7) = 20 /\ Ends[7] = 50 /\ First(8) = 50 /\ Ends[8] = 100
      /\ First(9) = 100 /\ Ends[9] = 200 /\ First(10) = 200 /\ Ends[10] = 500
  BY DEF First, Ends
<1>2. Brackets = {1, 2, 3, 4, 5, 6, 7, 8, 9, 10}
  BY DEF Brackets
<1>3. \E b \in Brackets : First(b) <= rank /\ rank < Ends[b]
  <2>1. CASE rank < 5
    BY <1>1, <1>2, <2>1
  <2>2. CASE 5 <= rank /\ rank < 50
    BY <1>1, <1>2, <2>2
  <2>3. CASE 50 <= rank
    BY <1>1, <1>2, <2>3
  <2> QED BY <2>1, <2>2, <2>3
<1>4. PICK c \in Brackets : /\ c = BracketOf(rank)
                            /\ First(c) <= rank /\ rank < Ends[c]
  BY <1>3 DEF BracketOf
<1>5. ASSUME NEW b \in Brackets, First(b) <= rank, rank < Ends[b] PROVE b = c
  <2>1. c \in {1, 2, 3, 4, 5, 6, 7, 8, 9, 10} /\ b \in {1, 2, 3, 4, 5, 6, 7, 8, 9, 10}
    BY <1>2
  <2>2. CASE rank < 5
    <3>1. b \in {1, 2, 3, 4} /\ c \in {1, 2, 3, 4}
      BY <1>1, <1>4, <1>5, <2>1, <2>2
    <3> QED BY <1>1, <1>4, <1>5, <3>1
  <2>3. CASE 5 <= rank /\ rank < 50
    <3>1. b \in {5, 6, 7} /\ c \in {5, 6, 7}
      BY <1>1, <1>4, <1>5, <2>1, <2>3
    <3> QED BY <1>1, <1>4, <1>5, <3>1
  <2>4. CASE 50 <= rank
    <3>1. b \in {8, 9, 10} /\ c \in {8, 9, 10}
      BY <1>1, <1>4, <1>5, <2>1, <2>4
    <3> QED BY <1>1, <1>4, <1>5, <3>1
  <2> QED BY <2>2, <2>3, <2>4
<1> QED BY <1>4, <1>5

LEMMA SumUpTo ==
    ASSUME NEW g, NEW n \in Nat, NEW m \in Nat, m = n + 1, \A b \in 1 .. m : g[b] \in Int
    PROVE  /\ SumOver(g, 1 .. m) = g[m] + SumOver(g, 1 .. n)
           /\ SumOver(g, 1 .. n) \in Int
<1>1. PICK D : D = 1 .. n
  OBVIOUS
<1>2. 1 .. m = D \union {m} /\ m \notin D /\ \A b \in D : g[b] \in Int
  BY <1>1
<1>3. IsFiniteSet(D)
  BY <1>1, FS_Interval
<1>4. g[m] \in Int
  OBVIOUS
<1>5. SumOver(g, D \union {m}) = g[m] + SumOver(g, D)
  BY <1>2, <1>3, <1>4, SumAdd
<1>6. SumOver(g, D) \in Int
  BY <1>2, <1>3, SumType
<1> QED BY <1>1, <1>2, <1>5, <1>6

\* What the ranks of a bracket are paid is its share for each of them.
LEMMA BracketPaid ==
    ASSUME NEW p \in Nat, NEW n \in Nat, NEW b \in Brackets, NEW f,
           \A k \in 1 .. n : f[k] = Prize(p, n, k - 1),
           NEW c, \A k \in c : k \in 1 .. n /\ k - 1 < 500 /\ BracketOf(k - 1) = b,
           \A k \in 1 .. n : k - 1 < 500 /\ BracketOf(k - 1) = b => k \in c
    PROVE  SumOver(f, c) = Due(p, n, b) /\ Due(p, n, b) \in Nat
<1>1. /\ First(b) \in Nat /\ Ends[b] \in Nat /\ First(b) < Ends[b] /\ Ends[b] <= 500
  BY DEF Brackets, First, Ends
<1>2. Share(p, n, b) \in Nat
  BY CutWithin DEF Within, At, Share
<1>3. PICK top \in Nat : top = IF n < Ends[b] THEN n ELSE Ends[b]
  BY <1>1
<1>4. c = (First(b) + 1) .. top
  <2>1. ASSUME NEW k \in c PROVE k \in (First(b) + 1) .. top
    <3>1. k \in 1 .. n /\ k - 1 < 500 /\ BracketOf(k - 1) = b /\ k - 1 \in Nat
      OBVIOUS
    <3>2. First(b) <= k - 1 /\ k - 1 < Ends[b]
      BY <3>1, BracketIs
    <3> QED BY <1>1, <1>3, <3>1, <3>2
  <2>2. ASSUME NEW k \in (First(b) + 1) .. top PROVE k \in c
    <3>1. k \in 1 .. n /\ k - 1 < 500 /\ k - 1 \in Nat /\ First(b) <= k - 1 /\ k - 1 < Ends[b]
      BY <1>1, <1>3
    <3>2. BracketOf(k - 1) = b
      BY <3>1, BracketIs
    <3> QED BY <3>1, <3>2
  <2> QED BY <2>1, <2>2
<1>5. IsFiniteSet(c) /\ Cardinality(c) = Width(n, b)
  <2>1. PICK low \in Nat : low = First(b) + 1
    BY <1>1
  <2>2. IsFiniteSet(low .. top)
        /\ Cardinality(low .. top) = IF low > top THEN 0 ELSE top - low + 1
    BY FS_Interval
  <2>3. (IF low > top THEN 0 ELSE top - low + 1) = Width(n, b)
    BY <1>1, <1>3, <2>1 DEF Width
  <2> QED BY <1>4, <2>1, <2>2, <2>3
<1>6. \A k \in c : f[k] = Share(p, n, b)
  BY DEF Prize
<1>7. SumOver(f, c) = Share(p, n, b) * Cardinality(c)
  BY <1>2, <1>5, <1>6, SumConstant
<1>8. Width(n, b) \in Nat
  BY <1>1 DEF Width
<1>9. Share(p, n, b) * Width(n, b) \in Nat
  BY <1>2, <1>8
<1> QED BY <1>5, <1>7, <1>9 DEF Due

\* The prizes of all ranks, added rank by rank, are what the brackets pay.
LEMMA PrizesPaid ==
    ASSUME NEW p \in Nat, NEW n \in Nat, NEW f, \A k \in 1 .. n : f[k] = Prize(p, n, k - 1)
    PROVE  SumOver(f, 1 .. n) = Paid(p, n)
<1> DEFINE C == 1 .. 11
<1>1. PICK t : t = [k \in 1 .. n |-> IF k - 1 < 500 THEN BracketOf(k - 1) ELSE 11]
  OBVIOUS
<1>2. PICK g : g = [b \in C |-> IF b = 11 THEN 0 ELSE Due(p, n, b)]
  OBVIOUS
<1>3. ASSUME NEW k \in 1 .. n PROVE f[k] \in Int /\ t[k] \in C
  <2>1. k - 1 \in Nat
    OBVIOUS
  <2>2. f[k] \in Nat
    BY <2>1, PrizeType
  <2>3. k - 1 < 500 => BracketOf(k - 1) \in C
    BY <2>1, BracketIs DEF Brackets
  <2>4. t[k] \in C
    BY <1>1, <2>3
  <2> QED BY <2>2, <2>4
<1>4. ASSUME NEW b \in C
      PROVE  g[b] = SumOver(f, {k \in 1 .. n : t[k] = b}) /\ g[b] \in Int
  <2>1. PICK c : c = {k \in 1 .. n : t[k] = b}
    OBVIOUS
  <2>2. CASE b = 11
    <3>1. ASSUME NEW k \in c PROVE f[k] = 0
      <4>1. k \in 1 .. n /\ t[k] = 11 /\ k - 1 \in Nat
        BY <2>1, <2>2
      <4>2. ~(k - 1 < 500)
        <5>1. k - 1 < 500 => BracketOf(k - 1) \in 1 .. 10
          BY <4>1, BracketIs DEF Brackets
        <5> QED BY <1>1, <4>1, <5>1
      <4> QED BY <4>1, <4>2 DEF Prize
    <3>2. IsFiniteSet(c)
      <4>1. IsFiniteSet(1 .. n) /\ c \in SUBSET (1 .. n)
        BY <2>1, FS_Interval
      <4> QED BY <4>1, FS_Subset
    <3>3. SumOver(f, c) = 0
      BY <3>1, <3>2, SumZero
    <3> QED BY <1>2, <2>1, <2>2, <3>3
  <2>3. CASE b # 11
    <3>1. b \in Brackets
      BY <2>3 DEF Brackets
    <3>2. \A k \in c : k \in 1 .. n /\ k - 1 < 500 /\ BracketOf(k - 1) = b
      BY <1>1, <2>1, <2>3
    <3>3. \A k \in 1 .. n : k - 1 < 500 /\ BracketOf(k - 1) = b => k \in c
      BY <1>1, <2>1
    <3>4. SumOver(f, c) = Due(p, n, b) /\ Due(p, n, b) \in Nat
      BY <3>1, <3>2, <3>3, BracketPaid
    <3> QED BY <1>2, <2>1, <2>3, <3>4
  <2> QED BY <2>2, <2>3
<1>5. SumOver(g, C) = SumOver(f, 1 .. n)
  <2>1. IsFiniteSet(1 .. n) /\ IsFiniteSet(C)
    <3>1. \A m \in Nat : IsFiniteSet(1 .. m)
      BY FS_Interval
    <3> QED BY <3>1
  <2>2. PICK D, U : D = 1 .. n /\ U = C
    OBVIOUS
  <2>3. \A k \in D : f[k] \in Int /\ t[k] \in U
    BY <1>3, <2>2
  <2>4. \A b \in U : g[b] = SumOver(f, {k \in D : t[k] = b})
    BY <1>4, <2>2
  <2>5. ByClass(g, U, f, D, t)
    BY <2>3, <2>4 DEF ByClass
  <2>6. SumOver(g, U) = SumOver(f, D)
    BY <2>1, <2>2, <2>5, SumByClass
  <2> QED BY <2>2, <2>6
<1>6. SumOver(g, 1 .. 11) = Paid(p, n)
  <2>1. /\ g[1] = Due(p, n, 1) /\ g[2] = Due(p, n, 2) /\ g[3] = Due(p, n, 3)
        /\ g[4] = Due(p, n, 4) /\ g[5] = Due(p, n, 5) /\ g[6] = Due(p, n, 6)
        /\ g[7] = Due(p, n, 7) /\ g[8] = Due(p, n, 8) /\ g[9] = Due(p, n, 9)
        /\ g[10] = Due(p, n, 10) /\ g[11] = 0
    BY <1>2
  <2>2. \A b \in 1 .. 11 : g[b] \in Int
    BY <1>4
  <2>3. 1 .. 0 = {}
    OBVIOUS
  <2>4. SumOver(g, 1 .. 0) = 0
    BY <2>3, SumEmpty
  <2>5. \A m \in 1 .. 11 : SumOver(g, 1 .. m) = g[m] + SumOver(g, 1 .. (m - 1))
    <3> SUFFICES ASSUME NEW m \in 1 .. 11
                 PROVE  SumOver(g, 1 .. m) = g[m] + SumOver(g, 1 .. (m - 1))
      OBVIOUS
    <3>1. PICK k \in Nat : k = m - 1 /\ m = k + 1 /\ m \in Nat
      OBVIOUS
    <3>2. \A b \in 1 .. m : g[b] \in Int
      BY <2>2
    <3>3. SumOver(g, 1 .. m) = g[m] + SumOver(g, 1 .. k)
      BY <3>1, <3>2, SumUpTo
    <3> QED BY <3>1, <3>3
  <2>6. /\ SumOver(g, 1 .. 1) = g[1] + SumOver(g, 1 .. 0)
        /\ SumOver(g, 1 .. 2) = g[2] + SumOver(g, 1 .. 1)
        /\ SumOver(g, 1 .. 3) = g[3] + SumOver(g, 1 .. 2)
        /\ SumOver(g, 1 .. 4) = g[4] + SumOver(g, 1 .. 3)
        /\ SumOver(g, 1 .. 5) = g[5] + SumOver(g, 1 .. 4)
    BY <2>5
  <2>7. /\ SumOver(g, 1 .. 6) = g[6] + SumOver(g, 1 .. 5)
        /\ SumOver(g, 1 .. 7) = g[7] + SumOver(g, 1 .. 6)
        /\ SumOver(g, 1 .. 8) = g[8] + SumOver(g, 1 .. 7)
        /\ SumOver(g, 1 .. 9) = g[9] + SumOver(g, 1 .. 8)
        /\ SumOver(g, 1 .. 10) = g[10] + SumOver(g, 1 .. 9)
        /\ SumOver(g, 1 .. 11) = g[11] + SumOver(g, 1 .. 10)
    BY <2>5
  <2>8. /\ g[1] \in Int /\ g[2] \in Int /\ g[3] \in Int /\ g[4] \in Int /\ g[5] \in Int
        /\ g[6] \in Int /\ g[7] \in Int /\ g[8] \in Int /\ g[9] \in Int /\ g[10] \in Int
    BY <2>2
  <2>9. SumOver(g, 1 .. 11) = g[1] + g[2] + g[3] + g[4] + g[5] + g[6] + g[7] + g[8] + g[9]
                                + g[10]
    BY <2>1, <2>4, <2>6, <2>7, <2>8
  <2> QED BY <2>1, <2>9 DEF Paid
<1> QED BY <1>5, <1>6

\* Where every rank has its prize, what is due to the users is within the pool.
LEMMA TallyWithin ==
    ASSUME TableInv, RanksInv, PrizesInv, ~stale, Tally
    PROVE  SumOver(due', Users) <= Pool
<1>1. PICK T : mem \in Seq(RowIn(T))
  BY DEF TableInv
<1>2. PICK n \in Nat : n = Len(mem) /\ DOMAIN mem = 1 .. n
  BY <1>1, LenProperties
<1>3. PICK D : D = DOMAIN mem
  OBVIOUS
<1>4. IsFiniteSet(D) /\ D = 1 .. n
  BY <1>2, <1>3, FS_Interval
<1>5. PICK r : r = Returns(mem)
  OBVIOUS
<1>6. PICK f : f = [k \in D |-> Prize(players, n, k - 1)]
  OBVIOUS
<1>7. \A i \in D : r[i] \in Nat /\ mem[i].userid \in Users
  <2>1. \A i \in D : mem[i] \in RowIn(T)
    BY <1>1, <1>3, LenProperties, ElementOfSeq
  <2>2. \A i \in D : mem[i].userid \in Users
    BY <2>1 DEF RowIn
  <2>3. \A i \in D : r[i] \in Nat
    BY <1>1, <1>3, <1>5, ReturnsTyped
  <2> QED BY <2>2, <2>3
<1>8. /\ run = "mark" /\ todo = {} /\ mem' = mem
      /\ \A u \in Users : due'[u] = SumOver(Returns(mem), IndicesOf(mem, u))
  BY DEF Tally, SumOver, Returns, IndicesOf
<1>9. PICK p : p = order
  OBVIOUS
<1>10. /\ \A k \in D : p[k] \in D /\ r[p[k]] = f[k]
       /\ \A k, l \in D : p[k] = p[l] => k = l
  <2>1. \A k \in D : p[k] \in D /\ mem[p[k]].returns = Prize(players, n, k - 1)
    BY <1>2, <1>3, <1>8, <1>9 DEF PrizesInv, RanksInv
  <2>2. \A k, l \in D : p[k] = p[l] => k = l
    BY <1>3, <1>8, <1>9 DEF RanksInv
  <2> QED BY <1>3, <1>5, <1>6, <2>1, <2>2 DEF Returns
<1>11. {p[k] : k \in D} = D
  <2>1. PICK q : q = [k \in D |-> p[k]]
    OBVIOUS
  <2>2. q \in Injection(D, D)
    BY <1>10, <2>1 DEF Injection, IsInjective
  <2>3. q \in Surjection(D, D)
    BY <1>4, <2>2, FS_Injection
  <2>4. \A i \in D : \E k \in D : q[k] = i
    BY <2>3 DEF Surjection
  <2> QED BY <1>10, <2>1, <2>4
<1>12. SumOver(f, D) = SumOver(r, D)
  <2>1. \A k \in D : f[k] \in Int /\ f[k] = r[p[k]]
    BY <1>7, <1>10
  <2>2. SumOver(f, D) = SumOver(r, D)
    <3>1. Renames(p, f, D, r, D)
      BY <1>10, <1>11, <2>1 DEF Renames
    <3> QED BY <1>4, <3>1, SumRenamed
  <2> QED BY <2>2
<1>13. SumOver(f, D) = Paid(players, n)
  <2>1. players \in Nat
    BY DEF TableInv
  <2>2. \A k \in 1 .. n : f[k] = Prize(players, n, k - 1)
    BY <1>4, <1>6
  <2>3. SumOver(f, 1 .. n) = Paid(players, n)
    BY <2>1, <2>2, PrizesPaid
  <2> QED BY <1>4, <2>3
<1>14. PICK g : g = due'
  OBVIOUS
<1>15. SumOver(g, Users) = SumOver(r, D)
  <2>1. PICK t : t = [i \in D |-> mem[i].userid]
    OBVIOUS
  <2>2. \A u \in Users : IndicesOf(mem, u) = {i \in D : t[i] = u}
    BY <1>3, <2>1 DEF IndicesOf
  <2>3. ByClass(g, Users, r, D, t)
    <3>1. \A i \in D : r[i] \in Int /\ t[i] \in Users
      BY <1>7, <2>1
    <3>2. \A u \in Users : g[u] = SumOver(r, {i \in D : t[i] = u})
      BY <1>5, <1>8, <1>14, <2>2
    <3> QED BY <3>1, <3>2 DEF ByClass
  <2> QED BY <1>4, <2>3, TournamentAssumption, SumByClass
<1>16. Paid(players, n) <= Pool
  BY PaidWithinPool DEF TableInv
<1> QED BY <1>12, <1>13, <1>14, <1>15, <1>16

LEMMA PrizesStep ==
    ASSUME TableInv, RanksInv, PrizesInv, [Next]_vars
    PROVE  PrizesInv'
<1>1. CASE stale'
  BY <1>1 DEF PrizesInv
<1>2. CASE ReadRows /\ ~stale'
  <2>1. PICK T : rows \in Seq(RowIn(T))
    BY DEF TableInv
  <2>2. RanksInv'
    BY RanksStep
  <2>3. /\ run' = "mark" /\ mem' = rows /\ players' = players
        /\ todo' = {k \in DOMAIN rows : Prize(players, Len(rows), k - 1) > 0}
        /\ \A i \in DOMAIN rows : ~(rows[i].returns > 0)
    BY <1>2 DEF ReadRows, PayoutFrame
  <2>4. \A i \in DOMAIN rows : rows[i].returns \in Nat
    <3>1. \A i \in DOMAIN rows : rows[i] \in RowIn(T)
      BY <2>1, LenProperties, ElementOfSeq
    <3> QED BY <3>1 DEF RowIn
  <2>5. \A i \in DOMAIN rows : rows[i].returns = 0
    BY <2>3, <2>4
  <2>6. ASSUME NEW k \in DOMAIN rows, k \notin todo'
        PROVE  Prize(players, Len(rows), k - 1) = 0
    <3>1. Len(rows) \in Nat /\ k \in 1 .. Len(rows)
      BY <2>1, LenProperties
    <3>2. k - 1 \in Nat
      BY <3>1
    <3>3. Prize(players, Len(rows), k - 1) \in Nat
      BY <3>1, <3>2, PrizeType DEF TableInv
    <3> QED BY <2>3, <2>6, <3>3
  <2>7. \A k \in DOMAIN rows : order'[k] \in DOMAIN rows
    BY <2>2, <2>3 DEF RanksInv
  <2>8. ASSUME NEW k \in DOMAIN mem'
        PROVE  mem'[order'[k]].returns = IF k \in todo' THEN 0
                                         ELSE Prize(players', Len(mem'), k - 1)
    <3>1. rows[order'[k]].returns = 0
      BY <2>3, <2>5, <2>7
    <3> QED BY <2>3, <2>6, <3>1
  <2> QED BY <2>3, <2>8 DEF PrizesInv
<1>3. CASE Mark /\ ~stale'
  <2>1. /\ run = "mark" /\ run' = "mark" /\ order' = order /\ players' = players /\ ~stale
    BY <1>3 DEF Mark, PayoutFrame
  <2>2. PICK k \in todo : \E amount \in Nat :
               /\ k = Min(todo) /\ k \in DOMAIN mem /\ order[k] \in DOMAIN mem
               /\ amount = Prize(players, Len(mem), k - 1) /\ todo' = todo \ {k}
               /\ Len(mem') = Len(mem) /\ DOMAIN mem' = DOMAIN mem
               /\ \A i \in DOMAIN mem :
                      mem'[i].returns = IF i = order[k] THEN amount ELSE mem[i].returns
    BY <1>3, MarkChanges
  <2>3. ASSUME NEW l \in DOMAIN mem
        PROVE  mem'[order[l]].returns = IF l \in todo' THEN 0
                                        ELSE Prize(players, Len(mem), l - 1)
    <3>1. /\ order[l] \in DOMAIN mem /\ (order[l] = order[k] => l = k)
      BY <2>1, <2>2 DEF RanksInv
    <3>2. mem[order[l]].returns = IF l \in todo THEN 0 ELSE Prize(players, Len(mem), l - 1)
      BY <2>1 DEF PrizesInv
    <3>3. CASE l = k
      BY <2>2, <3>1, <3>3
    <3>4. CASE l # k
      BY <2>2, <3>1, <3>2, <3>4
    <3> QED BY <3>3, <3>4
  <2> QED BY <2>1, <2>2, <2>3 DEF PrizesInv
<1>4. CASE Tally /\ ~stale'
  <2>1. ~stale /\ run' = "book"
    BY <1>4 DEF Tally
  <2> QED BY <1>4, <2>1, TallyWithin DEF PrizesInv
<1>5. ASSUME NEW u \in Users, Book(u) \/ Credit(u) PROVE PrizesInv'
  BY <1>5 DEF Book, Credit, history, PrizesInv
<1>6. CASE Place
  BY <1>6 DEF Place, history, PrizesInv
<1>7. CASE Complete \/ NoRows \/ Finish \/ RunBreaksOff \/ Reset \/ Reopen
  BY <1>7 DEF Complete, NoRows, Finish, RunBreaksOff, Reset, Reopen, RunEnds, payout, PrizesInv
<1>8. ASSUME NEW e \in Entries,
             \/ Ask(e) \/ CheckLimit(e) \/ ReadCount(e) \/ CheckSpots(e) \/ CountUp(e)
             \/ PutRow(e) \/ AddDebit(e) \/ Debit(e) \/ Answer(e) \/ BreakOff(e)
      PROVE  PrizesInv'
  <2>1. UNCHANGED <<players, run, mem, order, todo, due, stale>>
    BY <1>8 DEF Ask, CheckLimit, ReadCount, CheckSpots, CountUp, PutRow, AddDebit, Debit,
         Answer, BreakOff, payout, history
  <2> QED BY <2>1 DEF PrizesInv
<1>9. CASE ReadOtherCount \/ UNCHANGED vars
  BY <1>9 DEF ReadOtherCount, vars, payout, history, PrizesInv
<1> QED BY <1>1, <1>2, <1>3, <1>4, <1>5, <1>6, <1>7, <1>8, <1>9 DEF Next

LEMMA PoolStep ==
    ASSUME TableInv, AmountsInv, RanksInv, DueInv, PrizesInv, PaidFromPool, [Next]_vars
    PROVE  PaidFromPool'
<1>1. AmountsInv' /\ DueInv' /\ PrizesInv'
  BY AmountsStep, DueStep, PrizesStep
<1>2. /\ PaidFromPool <=> (unreset <= 1 /\ ~stale => SumOver(settled, Users) <= Pool)
      /\ PaidFromPool' <=> (unreset' <= 1 /\ ~stale' => SumOver(settled', Users) <= Pool)
  <2>1. /\ TotalOf(settled, Users) = SumOver(settled, Users)
        /\ TotalOf(settled', Users) = SumOver(settled', Users)
    BY DEF TotalOf, SumOver
  <2>2. PaidFromPool <=> (unreset <= 1 /\ ~stale => SumOver(settled, Users) <= Pool)
    BY <2>1 DEF PaidFromPool
  <2>3. PaidFromPool' <=> (unreset' <= 1 /\ ~stale' => SumOver(settled', Users) <= Pool)
    BY <2>1 DEF PaidFromPool, Pool
  <2> QED BY <2>2, <2>3
<1>3. ASSUME NEW v \in Users, Book(v) PROVE PaidFromPool'
  <2>1. unreset' >= 1 /\ unreset' \in Nat /\ run' = "credit"
    BY <1>1, <1>3 DEF Book, DueInv
  <2>2. ASSUME unreset' <= 1, ~stale' PROVE SumOver(settled', Users) <= Pool
    <3>1. PICK f, g : f = settled' /\ g = due'
      OBVIOUS
    <3>2. \A u \in Users : f[u] \in Nat /\ g[u] \in Nat
      BY <1>1, <3>1 DEF AmountsInv
    <3>3. unreset' = 1
      BY <2>1, <2>2
    <3>4. \A u \in Users : f[u] = 0 \/ f[u] = g[u]
      BY <1>1, <2>1, <3>1, <3>3 DEF DueInv
    <3>5. \A u \in Users : f[u] \in Int /\ f[u] <= g[u]
      BY <3>2, <3>4
    <3>6. SumOver(f, Users) <= SumOver(g, Users)
      BY <3>2, <3>5, TournamentAssumption, SumAtMost
    <3>7. SumOver(g, Users) <= Pool
      BY <1>1, <2>1, <2>2, <3>1 DEF PrizesInv
    <3>8. SumOver(f, Users) \in Nat /\ SumOver(g, Users) \in Nat
      BY <3>2, TournamentAssumption, SumNat
    <3> QED BY <3>1, <3>6, <3>7, <3>8 DEF Pool
  <2> QED BY <1>2, <2>2
<1>4. CASE Reset /\ settled' = [u \in Users |-> 0]
  <2>1. PICK f : f = settled' /\ \A u \in Users : f[u] = 0
    BY <1>4
  <2>2. SumOver(f, Users) = 0
    BY <2>1, TournamentAssumption, SumZero
  <2> QED BY <1>2, <2>1, <2>2 DEF Pool
<1>5. ASSUME settled' = settled, unreset' = unreset \/ unreset' = unreset + 1,
             stale => stale'
      PROVE  PaidFromPool'
  <2>1. unreset \in Nat
    BY DEF DueInv
  <2>2. unreset' <= 1 => unreset <= 1
    BY <1>5, <2>1
  <2> QED BY <1>2, <1>5, <2>2
<1>6. CASE Complete \/ ReadRows \/ NoRows \/ Mark \/ Tally \/ Place \/ Finish \/ RunBreaksOff
           \/ Reopen
  <2>1. /\ settled' = settled /\ (unreset' = unreset \/ unreset' = unreset + 1)
        /\ (stale => stale')
    <3>1. CASE Complete \/ NoRows \/ Place \/ Finish \/ RunBreaksOff \/ Reopen
      BY <3>1 DEF Complete, NoRows, Place, Finish, RunBreaksOff, RunEnds, Reopen, PayoutFrame,
           money, history
    <3>2. CASE ReadRows
      BY <3>2 DEF ReadRows, PayoutFrame, money
    <3>3. CASE Mark
      BY <3>3 DEF Mark, PayoutFrame, money
    <3>4. CASE Tally
      BY <3>4 DEF Tally, PayoutFrame, money
    <3> QED BY <1>6, <3>1, <3>2, <3>3, <3>4
  <2> QED BY <1>5, <2>1
<1>7. CASE Reset
  <2>1. \/ settled' = [u \in Users |-> 0]
        \/ UNCHANGED <<settled, unreset, stale>>
    BY <1>7 DEF Reset
  <2> QED BY <1>4, <1>5, <1>7, <2>1
<1>8. ASSUME NEW u \in Users, Credit(u) PROVE PaidFromPool'
  BY <1>5, <1>8 DEF Credit, history
<1>9. ASSUME NEW e \in Entries,
             \/ Ask(e) \/ CheckLimit(e) \/ ReadCount(e) \/ CheckSpots(e) \/ CountUp(e)
             \/ PutRow(e) \/ AddDebit(e) \/ Debit(e) \/ Answer(e) \/ BreakOff(e)
      PROVE  PaidFromPool'
  <2>1. UNCHANGED <<settled, unreset, stale>>
    BY <1>9 DEF Ask, CheckLimit, ReadCount, CheckSpots, CountUp, PutRow, AddDebit, Debit,
         Answer, BreakOff, money, history
  <2> QED BY <1>5, <2>1
<1>10. CASE ReadOtherCount \/ UNCHANGED vars
  <2>1. UNCHANGED <<settled, unreset, stale>>
    BY <1>10 DEF ReadOtherCount, vars, money, history
  <2> QED BY <1>5, <2>1
<1> QED BY <1>3, <1>6, <1>7, <1>8, <1>9, <1>10 DEF Next

PaidInv == TableInv /\ AmountsInv /\ RanksInv /\ DueInv /\ PrizesInv /\ PaidAsBooked

LEMMA PaidInit == Init => PaidInv
<1> SUFFICES ASSUME Init PROVE PaidInv
  OBVIOUS
<1>1. TableInv /\ AmountsInv
  BY AmountsInit
<1>2. RanksInv /\ DueInv /\ PrizesInv /\ ReturnsArePaid
  BY DEF Init, RanksInv, DueInv, PrizesInv, ReturnsArePaid
<1>3. PaidFromPool
  <2>1. \A u \in Users : settled[u] = 0
    BY DEF Init
  <2>2. SumOver(settled, Users) = 0
    BY <2>1, TournamentAssumption, SumZero
  <2>3. TotalOf(settled, Users) = SumOver(settled, Users)
    BY DEF TotalOf, SumOver
  <2> QED BY <2>2, <2>3 DEF PaidFromPool, Pool
<1> QED BY <1>1, <1>2, <1>3 DEF PaidInv, PaidAsBooked

\* However entries, failures, completions and resets interleave, the first pay-out
\* since a reset stays within the pool unless it read rows that had returns, and pays
\* each user what the returns of his rows say unless one could not be written: for
\* any number of users, entries and places (the branch Competition of update).
THEOREM PaidHolds == Spec => []PaidAsBooked
<1>1. PaidInv /\ [Next]_vars => PaidInv'
  <2> SUFFICES ASSUME PaidInv, [Next]_vars PROVE PaidInv'
    OBVIOUS
  <2>1. TableInv /\ AmountsInv /\ RanksInv /\ DueInv /\ PrizesInv /\ PaidFromPool
        /\ ReturnsArePaid
    BY DEF PaidInv, PaidAsBooked
  <2>2. TableInv' /\ AmountsInv' /\ RanksInv' /\ DueInv' /\ PrizesInv'
    BY <2>1, TableStep, AmountsStep, RanksStep, DueStep, PrizesStep
  <2>3. PaidFromPool' /\ ReturnsArePaid'
    BY <2>1, PoolStep, ReturnsStep
  <2> QED BY <2>2, <2>3 DEF PaidInv, PaidAsBooked
<1>2. PaidInv => PaidAsBooked
  BY DEF PaidInv
<1> QED BY <1>1, <1>2, PaidInit, PTL DEF Spec
===============================================================================
