-------------------------------- MODULE MCWallet -------------------------------
(* The wallet's row and the payout of a withdrawal in one run.  They share no   *)
(* state and no actor, so that a behaviour is about one of them: part says      *)
(* which, and the variables of the other are None throughout.  Three updates    *)
(* and one settlement of two operations meet on the wallet.                     *)
EXTENDS Integers, Sequences, FiniteSets, TLC

CONSTANTS Updates, Settlements, Ops, InitialRow, Nobody, Handlers, None

CONSTANTS u1, u2, u3, s1

ASSUME PayoutAssumption == None \notin Handlers

VARIABLES
    part, pc, at, lock, rows, nextId, open, base, pending, total, stolen, dirty,
    status, transferid, key, seen, sent, accepted, visible, keyLapsed, blind, raced

ofWalletAndPayout == <<pc, lock>>
ofWallet == <<at, rows, nextId, open, base, pending, total, stolen, dirty>>
ofPayout == <<
    status, transferid, key, seen, sent, accepted, visible, keyLapsed, blind, raced>>

MCOps ==
    (u1 :> <<[mul |-> -1, kind |-> "none", amt |-> 3]>>) @@
    (u2 :> <<[mul |-> 1, kind |-> "none", amt |-> 5]>>) @@
    (u3 :> <<[mul |-> -1, kind |-> "debit", amt |-> 2]>>) @@
    (s1 :> <<[mul |-> -1, kind |-> "debit", amt |-> 1],
             [mul |-> 1, kind |-> "credit", amt |-> 4]>>)

MCInitialRow == [d |-> 10, b |-> 2, l |-> 1]

L == INSTANCE WalletLedger
P == INSTANCE PayoutProcessing

\* An update makes one operation, a settlement one or more.
ASSUME LedgerAssumption ==
    /\ Updates \intersect Settlements = {}
    /\ Nobody \notin L!Calls
    /\ \A c \in L!Calls : Ops[c] \in Seq(L!OpType) /\ Len(Ops[c]) >= 1
    /\ \A c \in Updates : Len(Ops[c]) = 1
    /\ InitialRow.d \in Int /\ InitialRow.b \in Nat /\ InitialRow.l \in Nat

NoWalletAndPayout ==
    /\ pc = None
    /\ lock = None

NoWallet ==
    /\ at = None
    /\ rows = None
    /\ nextId = None
    /\ open = None
    /\ base = None
    /\ pending = None
    /\ total = None
    /\ stolen = None
    /\ dirty = None

NoPayout ==
    /\ status = None
    /\ transferid = None
    /\ key = None
    /\ seen = None
    /\ sent = None
    /\ accepted = None
    /\ visible = None
    /\ keyLapsed = None
    /\ blind = None
    /\ raced = None

Init ==
    \/ /\ part = "wallet" /\ L!Init
       /\ NoPayout
    \/ /\ part = "payout" /\ P!Init
       /\ NoWallet

Next ==
    \/ /\ part = "wallet" /\ L!Next
       /\ UNCHANGED <<part, ofPayout>>
    \/ /\ part = "payout" /\ P!Next
       /\ UNCHANGED <<part, ofWallet>>

vars ==
    <<part, ofWalletAndPayout, ofWallet, ofPayout>>

Spec == Init /\ [][Next]_vars

\* Dashboard requests are interchangeable.
Symmetry == Permutations(Handlers)

\* The components' properties.
BalanceIsSumOfOperations == part = "wallet" => L!BalanceIsSumOfOperations
BonusNotMinted == part = "wallet" => L!BonusNotMinted
PaidOnce == part = "payout" => P!PaidOnce
CancelledNotPaid == part = "payout" => P!CancelledNotPaid
AcceptedIsRecorded == part = "payout" => P!AcceptedIsRecorded
===============================================================================
