------------------------------ MODULE MCOperators -----------------------------
(* What the operators' requests do to an event, to a contest and to a club      *)
(* event, in one run.  The three share no state here and no request, so that a  *)
(* behaviour is about one of them: part says which, and the variables of the    *)
(* others are None throughout.                                                  *)
EXTENDS Integers, FiniteSets, TLC

CONSTANTS Users, Updates, ContestCancels, Brackets, Options, None

\* A contest is cancelled by a request of its own; at least one bracket is paid.
ASSUME OperatorsAssumption ==
    /\ Updates \intersect ContestCancels = {}
    /\ Brackets \in Nat \ {0}

VARIABLES
    part, status, flag, lock, pc, target, seen, list, active, credited, refunded,
    raced, creditedFirst, halfReset, events, want, listed, bracket, joining,
    entered, late, prizes, overlap, broken, reversed, correct, resets, bet, option,
    ledger, base, value, txns, overlapped, torn

ofEventAndContestAndClubEvent == <<status, pc>>
ofEventAndContest == <<flag, lock, refunded>>
ofEvent == <<
    target, seen, list, active, credited, raced, creditedFirst, halfReset>>
ofContest == <<
    events, listed, bracket, joining, entered, prizes, overlap, broken, reversed>>
ofContestAndClubEvent == <<want, late>>
ofClubEvent == <<
    correct, resets, bet, option, ledger, base, value, txns, overlapped, torn>>

E == INSTANCE EventLifecycle
K == INSTANCE ContestUpdate
B == INSTANCE ClubEvent

\* None is no status, and nothing that a club event's row can say.
ASSUME ClubEventAssumption ==
    /\ None \notin Users /\ None \notin Updates /\ None \notin Options
    /\ None \notin B!Statuses /\ Options # {}

NoEventAndContestAndClubEvent ==
    /\ status = None
    /\ pc = None

NoEventAndContest ==
    /\ flag = None
    /\ lock = None
    /\ refunded = None

NoEvent ==
    /\ target = None
    /\ seen = None
    /\ list = None
    /\ active = None
    /\ credited = None
    /\ raced = None
    /\ creditedFirst = None
    /\ halfReset = None

NoContest ==
    /\ events = None
    /\ listed = None
    /\ bracket = None
    /\ joining = None
    /\ entered = None
    /\ prizes = None
    /\ overlap = None
    /\ broken = None
    /\ reversed = None

NoContestAndClubEvent ==
    /\ want = None
    /\ late = None

NoClubEvent ==
    /\ correct = None
    /\ resets = None
    /\ bet = None
    /\ option = None
    /\ ledger = None
    /\ base = None
    /\ value = None
    /\ txns = None
    /\ overlapped = None
    /\ torn = None

Init ==
    \/ /\ part = "event" /\ E!Init
       /\ NoContest /\ NoContestAndClubEvent /\ NoClubEvent
    \/ /\ part = "contest" /\ K!Init
       /\ NoEvent /\ NoClubEvent
    \/ /\ part = "clubEvent" /\ B!Init
       /\ NoEventAndContest /\ NoEvent /\ NoContest

Next ==
    \/ /\ part = "event" /\ E!Next
       /\ UNCHANGED <<part, ofContest, ofContestAndClubEvent, ofClubEvent>>
    \/ /\ part = "contest" /\ K!Next
       /\ UNCHANGED <<part, ofEvent, ofClubEvent>>
    \/ /\ part = "clubEvent" /\ B!Next
       /\ UNCHANGED <<part, ofEventAndContest, ofEvent, ofContest>>

vars ==
    <<part, ofEventAndContestAndClubEvent, ofEventAndContest, ofEvent, ofContest,
      ofContestAndClubEvent, ofClubEvent>>

Spec == Init /\ [][Next]_vars

Symmetry == Permutations(Users) \union Permutations(Updates) \union Permutations(Options)

\* The components' properties.
OneUpdateAtATime == part = "event" => E!OneUpdateAtATime
PaidOneWay == part = "event" => E!PaidOneWay
CompleteIsPaid == part = "event" => E!CompleteIsPaid
PrizesPaidOnce == part = "contest" => K!PrizesPaidOnce
CancelledRefundsEntries == part = "contest" => K!CancelledRefundsEntries
PrizesAfterEvents == part = "contest" => K!PrizesAfterEvents
ClosedStaysClosed == [][part = "contest" /\ status \in K!Closed => status' = status \/ overlap]_vars
SettledExactly == part = "clubEvent" => B!SettledExactly
BetsComeBack == part = "clubEvent" => B!BetsComeBack
===============================================================================
