---------------------------- MODULE TradeOrWithdraw ----------------------------
(***************************************************************************)
(* What the guard keys of one user are for: trades on several events may   *)
(* be under way at a time, one on each, or one withdrawal, but never both. *)
(* Any of them may end at any time.                                        *)
(***************************************************************************)
CONSTANTS
    Events,
    Puts,       \* trades
    Redeems,    \* withdrawals
    Nobody

VARIABLES
    trading,    \* per event, the trade under way or Nobody
    withdrawal  \* the withdrawal under way or Nobody

vars == <<trading, withdrawal>>

Init ==
    /\ trading = [e \in Events |-> Nobody]
    /\ withdrawal = Nobody

StartTrade(e, p) ==
    /\ withdrawal = Nobody
    /\ trading[e] = Nobody
    /\ trading' = [trading EXCEPT ![e] = p]
    /\ UNCHANGED withdrawal

EndTrade(e) ==
    /\ trading[e] # Nobody
    /\ trading' = [trading EXCEPT ![e] = Nobody]
    /\ UNCHANGED withdrawal

StartWithdrawal(r) ==
    /\ withdrawal = Nobody
    /\ \A e \in Events : trading[e] = Nobody
    /\ withdrawal' = r
    /\ UNCHANGED trading

EndWithdrawal ==
    /\ withdrawal # Nobody
    /\ withdrawal' = Nobody
    /\ UNCHANGED trading

Next ==
    \/ \E e \in Events : EndTrade(e) \/ \E p \in Puts : StartTrade(e, p)
    \/ EndWithdrawal
    \/ \E r \in Redeems : StartWithdrawal(r)

Spec == Init /\ [][Next]_vars
===============================================================================
