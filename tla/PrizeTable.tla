------------------------------ MODULE PrizeTable ------------------------------
(***************************************************************************)
(* How a tournament's pool is distributed (the switch in update, case      *)
(* Competition).  A tier, chosen by the number of players the tournament   *)
(* has places for, gives each bracket of ranks a share of the pool; a rank *)
(* that nobody holds is not paid.  The code writes every tier out once per *)
(* number of places filled; what differs between those is where the list   *)
(* of brackets is cut, and the two exceptions below.                       *)
(*                                                                         *)
(* Shares are in units of a hundred-thousandth of the pool.                *)
(***************************************************************************)
EXTENDS Naturals, Sequences

Pool == 100000

\* Bracket b holds the ranks from First(b) to Ends[b] - 1, counted from 0.
Ends == <<1, 2, 3, 5, 10, 20, 50, 100, 200, 500>>
First(b) == IF b = 1 THEN 0 ELSE Ends[b - 1]
Brackets == 1 .. 10

\* Mutant: a wrong fraction in the tier for three places.
SmallTierWithTypo(players) == IF players < 3 THEN <<100000>> ELSE <<75000, 35000>>

SmallTier(players) ==
    IF players < 1 THEN << >>
    ELSE IF players < 3 THEN <<100000>>
    ELSE IF players < 4 THEN <<75000, 25000>>
    ELSE IF players < 5 THEN <<70000, 30000>>
    ELSE IF players < 10 THEN <<60000, 30000, 10000>>
    ELSE <<50000, 30000, 10000, 5000>>

LargeTier(players) ==
    IF players < 50 THEN <<50000, 20000, 10000, 5000, 2000>>
    ELSE IF players < 100 THEN <<40000, 20000, 10000, 5000, 2000, 1000>>
    ELSE IF players < 200 THEN <<30000, 20000, 10000, 5000, 2000, 1000, 330>>
    ELSE IF players < 500 THEN <<25000, 15000, 10000, 5000, 2000, 1000, 330, 200>>
    ELSE IF players < 1000 THEN <<25000, 15000, 10000, 5000, 2000, 750, 250, 150, 75>>
    ELSE <<25000, 15000, 7500, 3750, 1500, 750, 250, 150, 75, 15>>

Tier(players) == IF players < 20 THEN SmallTier(players) ELSE LargeTier(players)

\* The brackets for so many filled places: with one or two places nobody is paid
\* when there are more entries than places, and the only entry for four places
\* gets more than the first of two.
Cut(players, spots) ==
    IF players <= 2 /\ spots > players THEN << >>
    ELSE IF players = 4 /\ spots = 1 THEN <<75000>>
    ELSE Tier(players)

Share(players, spots, b) ==
    LET shares == Cut(players, spots)
    IN  IF b \in DOMAIN shares THEN shares[b] ELSE 0

BracketOf(rank) == CHOOSE b \in Brackets : First(b) <= rank /\ rank < Ends[b]

\* What the entry of this rank is paid.
Prize(players, spots, rank) ==
    IF rank < spots /\ rank < 500 THEN Share(players, spots, BracketOf(rank)) ELSE 0

-------------------------------------------------------------------------------
(* The whole pay-out, bracket by bracket *)

\* How many entries the bracket has.
Width(spots, b) ==
    IF spots <= First(b) THEN 0
    ELSE IF spots < Ends[b] THEN spots - First(b) ELSE Ends[b] - First(b)

Due(players, spots, b) == Share(players, spots, b) * Width(spots, b)

Paid(players, spots) ==
    Due(players, spots, 1) + Due(players, spots, 2) + Due(players, spots, 3)
      + Due(players, spots, 4) + Due(players, spots, 5) + Due(players, spots, 6)
      + Due(players, spots, 7) + Due(players, spots, 8) + Due(players, spots, 9)
      + Due(players, spots, 10)
===============================================================================
