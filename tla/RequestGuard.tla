----------------------------- MODULE RequestGuard -----------------------------
(***************************************************************************)
(* The Redis guard keys around one user's trades and withdrawals.          *)
(*                                                                         *)
(* putCall (events.controller.js) and putRedeemRequests                    *)
(* (user.controller.js) read the same wallet and then move money through   *)
(* slow external services (the matching engine, the payout gateway).  Each *)
(* takes a short redis-lock to test and set a "request in progress" key    *)
(* with a time to live, and then waits until the other kind of request has *)
(* no key: a trade polls put_redeem_req_<user>, a withdrawal polls         *)
(* put_call_req_<user>_*.  mergeYesNoTokens uses the trade's key but       *)
(* neither its lock nor its test.  Trades of the fantasy domain prefix      *)
(* their lock and key with the domain; a withdrawal polls unprefixed keys. *)
(*                                                                         *)
(* One user is modelled: every key and lock carries the user's id, so      *)
(* users do not interact here.  The user is an ordinary one; market makers *)
(* and API partners skip the whole guard (events.controller.js:124).       *)
(***************************************************************************)
EXTENDS FiniteSets

CONSTANTS
    Puts,      \* putCall requests of the user
    Merges,    \* mergeYesNoTokens requests of the user
    Redeems,   \* putRedeemRequests requests of the user
    Events,    \* the events (probes) they trade on
    Fantasy,   \* those of the fantasy domain: their trade keys have a prefix
    Nobody     \* an absent key, a free lock

Trades == Puts \union Merges
Requests == Trades \union Redeems

ASSUME RequestKindsDisjoint ==
    /\ Puts \intersect Merges = {}
    /\ Trades \intersect Redeems = {}
    /\ Nobody \notin Requests
    /\ Fantasy \subseteq Events

VARIABLES
    pc,          \* where each request's handler is
    event,       \* the event of each trade (req.body.probeid)
    callLock,    \* redis-lock put_call_req_<user>, per domain
    callKey,     \* key put_call_req_<user>_<event>; the value names its setter
    redeemLock,  \* redis-lock put_redeem_req_<user>
    redeemKey,   \* key put_redeem_req_<user>; the value names its setter
    matching,    \* orders handed to the matching engine, not yet answered
    lapsed       \* history: the requests whose key expired by its TTL

vars == <<pc, event, callLock, callKey, redeemLock, redeemKey, matching, lapsed>>

callVars == <<callLock, callKey>>
redeemVars == <<redeemLock, redeemKey>>

PutLabels == {"start", "locked", "admitted", "wait", "checks", "poll",
              "finally", "done"}
MergeLabels == {"start", "validated", "merging", "finally", "done"}
RedeemLabels == {"start", "locked", "admitted", "wait", "body", "done"}

Domains == {"main", "fantasy"}
DomainOf(p) == IF event[p] \in Fantasy THEN "fantasy" ELSE "main"

\* mergeYesNoTokens never prefixes its key.
Init ==
    /\ pc = [r \in Requests |-> "start"]
    /\ event \in [Trades -> Events]
    /\ \A m \in Merges : event[m] \notin Fantasy
    /\ callLock = [d \in Domains |-> Nobody]
    /\ callKey = [e \in Events |-> Nobody]
    /\ redeemLock = Nobody
    /\ redeemKey = Nobody
    /\ matching = {}
    /\ lapsed = {}

Step(r, from, to) == pc[r] = from /\ pc' = [pc EXCEPT ![r] = to]

-------------------------------------------------------------------------------
(* putCall *)

\* Mutant: the handler runs without waiting for the lock.
PutLockUnguarded(p) ==
    /\ Step(p, "start", "locked")
    /\ callLock' = [callLock EXCEPT ![DomainOf(p)] = p]
    /\ UNCHANGED <<event, callKey, redeemVars, matching, lapsed>>

PutLock(p) ==
    /\ Step(p, "start", "locked")
    /\ callLock[DomainOf(p)] = Nobody
    /\ callLock' = [callLock EXCEPT ![DomainOf(p)] = p]
    /\ UNCHANGED <<event, callKey, redeemVars, matching, lapsed>>

\* A key is there: unlock, answer 423.  The return still runs the finally block.
PutInProgress(p) ==
    /\ Step(p, "locked", "finally")
    /\ callKey[event[p]] # Nobody
    /\ callLock' = [callLock EXCEPT ![DomainOf(p)] = Nobody]
    /\ UNCHANGED <<event, callKey, redeemVars, matching, lapsed>>

PutAdmit(p) ==
    /\ Step(p, "locked", "admitted")
    /\ callKey[event[p]] = Nobody
    /\ UNCHANGED <<event, callVars, redeemVars, matching, lapsed>>

PutSetKey(p) ==
    /\ Step(p, "admitted", "wait")
    /\ callKey' = [callKey EXCEPT ![event[p]] = p]
    /\ callLock' = [callLock EXCEPT ![DomainOf(p)] = Nobody]
    /\ UNCHANGED <<event, redeemVars, matching, lapsed>>

\* Mutant: the trade does not wait for a withdrawal.
PutIgnoresRedeem(p) ==
    /\ Step(p, "wait", "checks")
    /\ UNCHANGED <<event, callVars, redeemVars, matching, lapsed>>

\* while (getKey(put_redeem_req_<user>)) wait
PutPassRedeem(p) ==
    /\ Step(p, "wait", "checks")
    /\ redeemKey = Nobody
    /\ UNCHANGED <<event, callVars, redeemVars, matching, lapsed>>

\* One of the validations returns early, or a query throws.
PutReject(p) ==
    /\ Step(p, "checks", "finally")
    /\ UNCHANGED <<event, callVars, redeemVars, matching, lapsed>>

\* ptype "bet": the order goes to the matching engine over ZeroMQ.
PutSendOrder(p) ==
    /\ Step(p, "checks", "poll")
    /\ matching' = matching \union {p}
    /\ UNCHANGED <<event, callVars, redeemVars, lapsed>>

\* ptype "competition": handleTournamentPutCall books the entry itself and
\* deletes the key.
PutTournament(p) ==
    /\ Step(p, "checks", "poll")
    /\ callKey' = [callKey EXCEPT ![event[p]] = Nobody]
    /\ UNCHANGED <<event, callLock, redeemVars, matching, lapsed>>

\* while (getKey(reqKey)) wait
PutAnswer(p) ==
    /\ Step(p, "poll", "finally")
    /\ callKey[event[p]] = Nobody
    /\ UNCHANGED <<event, callVars, redeemVars, matching, lapsed>>

\* finally { redisCaching.delKey(reqKey) }: whoever set it.
PutFinally(p) ==
    /\ Step(p, "finally", "done")
    /\ callKey' = [callKey EXCEPT ![event[p]] = Nobody]
    /\ UNCHANGED <<event, callLock, redeemVars, matching, lapsed>>

\* The matching engine finishes an order and deletes the key it was sent.
MatcherDone(p) ==
    /\ p \in matching
    /\ matching' = matching \ {p}
    /\ callKey' = [callKey EXCEPT ![event[p]] = Nobody]
    /\ UNCHANGED <<pc, event, callLock, redeemVars, lapsed>>

-------------------------------------------------------------------------------
(* mergeYesNoTokens *)

\* The holdings are read and accepted before the key is set.
MergeValidate(m) ==
    /\ Step(m, "start", "validated")
    /\ UNCHANGED <<event, callVars, redeemVars, matching, lapsed>>

\* A return before the key is set runs the finally block too.
MergeReject(m) ==
    /\ Step(m, "start", "finally")
    /\ UNCHANGED <<event, callVars, redeemVars, matching, lapsed>>

MergeSetKey(m) ==
    /\ Step(m, "validated", "merging")
    /\ callKey' = [callKey EXCEPT ![event[m]] = m]
    /\ UNCHANGED <<event, callLock, redeemVars, matching, lapsed>>

MergeTokens(m) ==
    /\ Step(m, "merging", "finally")
    /\ UNCHANGED <<event, callVars, redeemVars, matching, lapsed>>

MergeFinally(m) ==
    /\ Step(m, "finally", "done")
    /\ callKey' = [callKey EXCEPT ![event[m]] = Nobody]
    /\ UNCHANGED <<event, callLock, redeemVars, matching, lapsed>>

-------------------------------------------------------------------------------
(* putRedeemRequests *)

RedeemLock(r) ==
    /\ Step(r, "start", "locked")
    /\ redeemLock = Nobody
    /\ redeemLock' = r
    /\ UNCHANGED <<event, callVars, redeemKey, matching, lapsed>>

\* Mutant: the rejected withdrawal clears the key, as putCall's finally does.
RedeemInProgressClears(r) ==
    /\ Step(r, "locked", "done")
    /\ redeemKey # Nobody
    /\ redeemLock' = Nobody
    /\ redeemKey' = Nobody
    /\ UNCHANGED <<event, callVars, matching, lapsed>>

RedeemInProgress(r) ==
    /\ Step(r, "locked", "done")
    /\ redeemKey # Nobody
    /\ redeemLock' = Nobody
    /\ UNCHANGED <<event, callVars, redeemKey, matching, lapsed>>

RedeemAdmit(r) ==
    /\ Step(r, "locked", "admitted")
    /\ redeemKey = Nobody
    /\ UNCHANGED <<event, callVars, redeemVars, matching, lapsed>>

RedeemSetKey(r) ==
    /\ Step(r, "admitted", "wait")
    /\ redeemKey' = r
    /\ redeemLock' = Nobody
    /\ UNCHANGED <<event, callVars, matching, lapsed>>

\* Mutant: the withdrawal looks at one event's key only.
RedeemPassesOne(r) ==
    /\ Step(r, "wait", "body")
    /\ \E e \in Events : callKey[e] = Nobody
    /\ UNCHANGED <<event, callVars, redeemVars, matching, lapsed>>

\* do wait while (keys(put_call_req_<user>_*) is not empty): the pattern does not
\* match a prefixed key.
RedeemPassCalls(r) ==
    /\ Step(r, "wait", "body")
    /\ \A e \in Events \ Fantasy : callKey[e] = Nobody
    /\ UNCHANGED <<event, callVars, redeemVars, matching, lapsed>>

\* The checks fail, or the payout order is created: both delete the key.
RedeemFinish(r) ==
    /\ Step(r, "body", "done")
    /\ redeemKey' = Nobody
    /\ UNCHANGED <<event, callVars, redeemLock, matching, lapsed>>

-------------------------------------------------------------------------------
(* Redis expiry and process failure *)

\* Mutant: the trade's key is set without a TTL.
CallKeyNeverExpires(e) ==
    /\ callKey[e] # Nobody
    /\ FALSE
    /\ UNCHANGED vars

CallKeyExpire(e) ==
    /\ callKey[e] # Nobody
    /\ lapsed' = lapsed \union {callKey[e]}
    /\ callKey' = [callKey EXCEPT ![e] = Nobody]
    /\ UNCHANGED <<pc, event, callLock, redeemVars, matching>>

RedeemKeyExpire ==
    /\ redeemKey # Nobody
    /\ lapsed' = lapsed \union {redeemKey}
    /\ redeemKey' = Nobody
    /\ UNCHANGED <<pc, event, callVars, redeemLock, matching>>

\* A lock is held across one GET and one SET and lives 60 s: it expires only
\* under a holder that is gone.
LockExpire ==
    /\ UNCHANGED <<pc, event, callKey, redeemKey, matching, lapsed>>
    /\ \/ /\ \E d \in Domains :
              /\ callLock[d] # Nobody /\ pc[callLock[d]] = "done"
              /\ callLock' = [callLock EXCEPT ![d] = Nobody]
          /\ UNCHANGED redeemLock
       \/ /\ redeemLock # Nobody /\ pc[redeemLock] = "done"
          /\ redeemLock' = Nobody
          /\ UNCHANGED callLock

\* The process serving the request stops: neither finally nor unlock runs.
Crash(r) ==
    /\ pc[r] \notin {"start", "done"}
    /\ pc' = [pc EXCEPT ![r] = "done"]
    /\ UNCHANGED <<event, callVars, redeemVars, matching, lapsed>>

-------------------------------------------------------------------------------
PutStep(p) ==
    \/ PutLock(p) \/ PutInProgress(p) \/ PutAdmit(p) \/ PutSetKey(p)
    \/ PutPassRedeem(p) \/ PutReject(p) \/ PutSendOrder(p) \/ PutTournament(p)
    \/ PutAnswer(p) \/ PutFinally(p)

MergeStep(m) ==
    \/ MergeValidate(m) \/ MergeReject(m) \/ MergeSetKey(m)
    \/ MergeTokens(m) \/ MergeFinally(m)

RedeemStep(r) ==
    \/ RedeemLock(r) \/ RedeemInProgress(r) \/ RedeemAdmit(r)
    \/ RedeemSetKey(r) \/ RedeemPassCalls(r) \/ RedeemFinish(r)

Expire == (\E e \in Events : CallKeyExpire(e)) \/ RedeemKeyExpire \/ LockExpire

Next ==
    \/ \E p \in Puts : PutStep(p) \/ MatcherDone(p)
    \/ \E m \in Merges : MergeStep(m)
    \/ \E r \in Redeems : RedeemStep(r)
    \/ \E r \in Requests : Crash(r)
    \/ Expire

Spec == Init /\ [][Next]_vars

\* A running handler keeps running and Redis expires what has a TTL.  Nothing
\* is assumed of the matching engine, which may lose an order, nor that a
\* request arrives.
Fairness ==
    /\ \A p \in Puts : WF_vars(pc[p] # "start" /\ PutStep(p))
    /\ \A m \in Merges : WF_vars(pc[m] # "start" /\ MergeStep(m))
    /\ \A r \in Redeems : WF_vars(pc[r] # "start" /\ RedeemStep(r))
    /\ \A e \in Events : WF_vars(CallKeyExpire(e))
    /\ WF_vars(RedeemKeyExpire)
    /\ WF_vars(LockExpire)

FairSpec == Spec /\ Fairness

-------------------------------------------------------------------------------
(* Properties *)

\* Every variable has its type: keys and locks name a request that could have
\* taken them, and only orders that were sent are matched.
TypeOK ==
    /\ pc \in [Requests -> PutLabels \union MergeLabels \union RedeemLabels]
    /\ \A p \in Puts : pc[p] \in PutLabels
    /\ \A m \in Merges : pc[m] \in MergeLabels
    /\ \A r \in Redeems : pc[r] \in RedeemLabels
    /\ event \in [Trades -> Events]
    /\ callLock \in [Domains -> Puts \union {Nobody}]
    /\ callKey \in [Events -> Trades \union {Nobody}]
    /\ redeemLock \in Redeems \union {Nobody}
    /\ redeemKey \in Redeems \union {Nobody}
    /\ matching \in SUBSET Puts
    /\ lapsed \in SUBSET Requests

Trading(p) == pc[p] \in {"checks", "poll"}
Withdrawing(r) == pc[r] = "body"
HoldsCallKey(p) == callKey[event[p]] = p

\* A trade past its wait and a withdrawal past its wait never run together
\* while both still own the keys they set: the two polling loops of putCall
\* and putRedeemRequests exclude each other whatever the interleaving, and
\* what breaks the exclusion is only the loss of a key or a trade of the
\* fantasy domain.
TradeWithdrawalExclusion ==
    \A p \in Puts, r \in Redeems :
        ~(/\ event[p] \notin Fantasy
          /\ Trading(p) /\ HoldsCallKey(p)
          /\ Withdrawing(r) /\ redeemKey = r)

\* A trade that tested the key under the lock finds it still free of other
\* trades when it sets it: test and set of putCall are atomic towards putCall.
AdmissionIsExclusive ==
    \A p \in Puts : pc[p] = "admitted" => callKey[event[p]] \notin Puts

ActiveRedeem(r) == pc[r] \in {"wait", "body"}

\* As long as no withdrawal key expired, at most one withdrawal is past its
\* admission: a rejected duplicate of putRedeemRequests leaves the key alone.
OneWithdrawalAtATime ==
    lapsed \intersect Redeems = {} =>
        \A r, s \in Redeems : ActiveRedeem(r) /\ ActiveRedeem(s) => r = s

ActivePut(p) ==
    pc[p] \in {"wait", "checks"} \/ (pc[p] = "poll" /\ p \in matching)

\* The same for trades of one event, as the answer 'Your request already in
\* progress' of putCall says, when no trade key expired: at most one trade of
\* an event is past its admission and not yet matched.
OneTradeAtATime ==
    lapsed \intersect Trades = {} =>
        \A p, q \in Puts :
            ActivePut(p) /\ ActivePut(q) /\ event[p] = event[q] => p = q

\* Every request that arrives is answered or dies with its process, although a
\* trade and a withdrawal may each wait for the other's key and the matching
\* engine may never answer: the keys' TTLs end every wait.
EveryRequestEnds == \A r \in Requests : pc[r] # "start" ~> pc[r] = "done"

\* The trade that is past its wait and still owns the key of the event, and the
\* withdrawal that is past its wait and still owns its key.
Owner(e) ==
    LET p == callKey[e] IN
    IF p \in Puts /\ event[p] = e /\ Trading(p) THEN p ELSE Nobody
OwnTrade == [e \in Events \ Fantasy |-> Owner(e)]
OwnWithdrawal ==
    IF redeemKey \in Redeems /\ Withdrawing(redeemKey) THEN redeemKey ELSE Nobody

Abstract == INSTANCE TradeOrWithdraw
    WITH Events <- Events \ Fantasy, trading <- OwnTrade, withdrawal <- OwnWithdrawal

\* The keys of putCall and putRedeemRequests implement TradeOrWithdraw: a trade starts
\* only while no withdrawal is under way and no other trade on its event, a withdrawal
\* only while nothing is, and no step hands a key over from one request to the next.
ImplementsTradeOrWithdraw == Abstract!Spec
===============================================================================
