------------------------- MODULE RequestGuard_proofs -------------------------
(***************************************************************************)
(* What the guard keys of RequestGuard guarantee for any number of         *)
(* requests and events.                                                    *)
(***************************************************************************)
EXTENDS RequestGuard, TLAPS

\* The two redis-locks cover the whole test-and-set of their handlers.
LockCovers ==
    /\ \A p \in Puts : pc[p] \in {"locked", "admitted"} => callLock[DomainOf(p)] = p
    /\ \A r \in Redeems : pc[r] \in {"locked", "admitted"} => redeemLock = r

\* A withdrawal that passed the test finds the key still free, and owns it
\* from then on unless it expires.
RedeemKeyHeld ==
    /\ \A r \in Redeems : pc[r] = "admitted" => redeemKey = Nobody
    /\ lapsed \intersect Redeems = {} =>
           \A r \in Redeems : ActiveRedeem(r) => redeemKey = r

-------------------------------------------------------------------------------
\* Type correctness: keys and locks only ever name requests that take them.
THEOREM TypeCorrect == Spec => []TypeOK
<1>1. Init => TypeOK
  BY RequestKindsDisjoint DEF Init, TypeOK, Domains, Requests, Trades, PutLabels,
     MergeLabels, RedeemLabels
<1>2. TypeOK /\ [Next]_vars => TypeOK'
  <2> SUFFICES ASSUME TypeOK, [Next]_vars PROVE TypeOK'
    OBVIOUS
  <2> USE RequestKindsDisjoint DEF TypeOK, Step, Domains, DomainOf, Requests, Trades, PutLabels,
          MergeLabels, RedeemLabels, callVars, redeemVars
  <2>1. ASSUME NEW p \in Puts, PutStep(p) PROVE TypeOK'
    <3>1. CASE PutLock(p) BY <3>1 DEF PutLock
    <3>2. CASE PutInProgress(p) BY <3>2 DEF PutInProgress
    <3>3. CASE PutAdmit(p) BY <3>3 DEF PutAdmit
    <3>4. CASE PutSetKey(p) BY <3>4 DEF PutSetKey
    <3>5. CASE PutPassRedeem(p) BY <3>5 DEF PutPassRedeem
    <3>6. CASE PutReject(p) BY <3>6 DEF PutReject
    <3>7. CASE PutSendOrder(p) BY <3>7 DEF PutSendOrder
    <3>8. CASE PutTournament(p) BY <3>8 DEF PutTournament
    <3>9. CASE PutAnswer(p) BY <3>9 DEF PutAnswer
    <3>10. CASE PutFinally(p) BY <3>10 DEF PutFinally
    <3> QED BY <2>1, <3>1, <3>2, <3>3, <3>4, <3>5, <3>6, <3>7, <3>8, <3>9, <3>10
            DEF PutStep
  <2>2. ASSUME NEW p \in Puts, MatcherDone(p) PROVE TypeOK'
    BY <2>2 DEF MatcherDone
  <2>3. ASSUME NEW m \in Merges, MergeStep(m) PROVE TypeOK'
    <3>1. CASE MergeValidate(m) BY <3>1 DEF MergeValidate
    <3>2. CASE MergeReject(m) BY <3>2 DEF MergeReject
    <3>3. CASE MergeSetKey(m) BY <3>3 DEF MergeSetKey
    <3>4. CASE MergeTokens(m) BY <3>4 DEF MergeTokens
    <3>5. CASE MergeFinally(m) BY <3>5 DEF MergeFinally
    <3> QED BY <2>3, <3>1, <3>2, <3>3, <3>4, <3>5 DEF MergeStep
  <2>4. ASSUME NEW r \in Redeems, RedeemStep(r) PROVE TypeOK'
    <3>1. CASE RedeemLock(r) BY <3>1 DEF RedeemLock
    <3>2. CASE RedeemInProgress(r) BY <3>2 DEF RedeemInProgress
    <3>3. CASE RedeemAdmit(r) BY <3>3 DEF RedeemAdmit
    <3>4. CASE RedeemSetKey(r) BY <3>4 DEF RedeemSetKey
    <3>5. CASE RedeemPassCalls(r) BY <3>5 DEF RedeemPassCalls
    <3>6. CASE RedeemFinish(r) BY <3>6 DEF RedeemFinish
    <3> QED BY <2>4, <3>1, <3>2, <3>3, <3>4, <3>5, <3>6 DEF RedeemStep
  <2>5. ASSUME NEW r \in Requests, Crash(r) PROVE TypeOK'
    BY <2>5 DEF Crash
  <2>6. ASSUME Expire PROVE TypeOK'
    <3>1. ASSUME NEW e \in Events, CallKeyExpire(e) PROVE TypeOK'
      BY <3>1 DEF CallKeyExpire
    <3>2. CASE RedeemKeyExpire BY <3>2 DEF RedeemKeyExpire
    <3>3. CASE LockExpire BY <3>3 DEF LockExpire
    <3> QED BY <2>6, <3>1, <3>2, <3>3 DEF Expire
  <2>7. CASE UNCHANGED vars BY <2>7 DEF vars
  <2> QED BY <2>1, <2>2, <2>3, <2>4, <2>5, <2>6, <2>7 DEF Next
<1> QED BY <1>1, <1>2, PTL DEF Spec

-------------------------------------------------------------------------------
\* A trade and a withdrawal that both own their keys are never both past their
\* waits (putCall and putRedeemRequests, whatever the number of requests).
THEOREM ExclusionHolds == Spec => []TradeWithdrawalExclusion
<1>1. Init => TradeWithdrawalExclusion
  BY DEF Init, TradeWithdrawalExclusion, Trading, Requests, Trades
<1>2. TypeOK /\ TradeWithdrawalExclusion /\ [Next]_vars
          => TradeWithdrawalExclusion'
  <2> SUFFICES ASSUME TypeOK, TradeWithdrawalExclusion, [Next]_vars,
                      NEW p \in Puts, NEW r \in Redeems,
                      (event[p] \notin Fantasy)', Trading(p)', HoldsCallKey(p)',
                      Withdrawing(r)', (redeemKey = r)'
               PROVE  FALSE
    BY DEF TradeWithdrawalExclusion
  <2> USE RequestKindsDisjoint DEF TypeOK, Step, Domains, DomainOf, Requests, Trades, Trading,
          HoldsCallKey, Withdrawing, TradeWithdrawalExclusion,
          callVars, redeemVars
  <2>1. ASSUME NEW q \in Puts, PutStep(q) PROVE FALSE
    <3>1. CASE PutLock(q) BY <3>1 DEF PutLock
    <3>2. CASE PutInProgress(q) BY <3>2 DEF PutInProgress
    <3>3. CASE PutAdmit(q) BY <3>3 DEF PutAdmit
    <3>4. CASE PutSetKey(q) BY <3>4 DEF PutSetKey
    <3>5. CASE PutPassRedeem(q) BY <3>5 DEF PutPassRedeem
    <3>6. CASE PutReject(q) BY <3>6 DEF PutReject
    <3>7. CASE PutSendOrder(q) BY <3>7 DEF PutSendOrder
    <3>8. CASE PutTournament(q) BY <3>8 DEF PutTournament
    <3>9. CASE PutAnswer(q) BY <3>9 DEF PutAnswer
    <3>10. CASE PutFinally(q) BY <3>10 DEF PutFinally
    <3> QED BY <2>1, <3>1, <3>2, <3>3, <3>4, <3>5, <3>6, <3>7, <3>8, <3>9, <3>10
            DEF PutStep
  <2>2. ASSUME NEW q \in Puts, MatcherDone(q) PROVE FALSE
    BY <2>2 DEF MatcherDone
  <2>3. ASSUME NEW m \in Merges, MergeStep(m) PROVE FALSE
    BY <2>3 DEF MergeStep, MergeValidate, MergeReject, MergeSetKey,
                MergeTokens, MergeFinally
  <2>4. ASSUME NEW s \in Redeems, RedeemStep(s) PROVE FALSE
    <3>1. CASE RedeemLock(s) BY <3>1 DEF RedeemLock
    <3>2. CASE RedeemInProgress(s) BY <3>2 DEF RedeemInProgress
    <3>3. CASE RedeemAdmit(s) BY <3>3 DEF RedeemAdmit
    <3>4. CASE RedeemSetKey(s) BY <3>4 DEF RedeemSetKey
    <3>5. CASE RedeemPassCalls(s) BY <3>5 DEF RedeemPassCalls
    <3>6. CASE RedeemFinish(s) BY <3>6 DEF RedeemFinish
    <3> QED BY <2>4, <3>1, <3>2, <3>3, <3>4, <3>5, <3>6 DEF RedeemStep
  <2>5. ASSUME NEW s \in Requests, Crash(s) PROVE FALSE
    BY <2>5 DEF Crash
  <2>6. ASSUME Expire PROVE FALSE
    BY <2>6 DEF Expire, CallKeyExpire, RedeemKeyExpire, LockExpire
  <2>7. CASE UNCHANGED vars BY <2>7 DEF vars
  <2> QED BY <2>1, <2>2, <2>3, <2>4, <2>5, <2>6, <2>7 DEF Next
<1> QED BY <1>1, <1>2, TypeCorrect, PTL DEF Spec

-------------------------------------------------------------------------------
\* The locks are held from the test of a key to its setting.
LEMMA LocksCover == Spec => []LockCovers
<1>1. Init => LockCovers
  BY DEF Init, LockCovers, Requests, Trades
<1>2. TypeOK /\ LockCovers /\ [Next]_vars => LockCovers'
  <2> SUFFICES ASSUME TypeOK, LockCovers, [Next]_vars PROVE LockCovers'
    OBVIOUS
  <2> USE RequestKindsDisjoint DEF TypeOK, Step, Domains, DomainOf, Requests, Trades, LockCovers,
          callVars, redeemVars
  <2>1. ASSUME NEW p \in Puts, PutStep(p) PROVE LockCovers'
    <3>1. CASE PutLock(p) BY <3>1 DEF PutLock
    <3>2. CASE PutInProgress(p) BY <3>2 DEF PutInProgress
    <3>3. CASE PutAdmit(p) BY <3>3 DEF PutAdmit
    <3>4. CASE PutSetKey(p) BY <3>4 DEF PutSetKey
    <3>5. CASE PutPassRedeem(p) BY <3>5 DEF PutPassRedeem
    <3>6. CASE PutReject(p) BY <3>6 DEF PutReject
    <3>7. CASE PutSendOrder(p) BY <3>7 DEF PutSendOrder
    <3>8. CASE PutTournament(p) BY <3>8 DEF PutTournament
    <3>9. CASE PutAnswer(p) BY <3>9 DEF PutAnswer
    <3>10. CASE PutFinally(p) BY <3>10 DEF PutFinally
    <3> QED BY <2>1, <3>1, <3>2, <3>3, <3>4, <3>5, <3>6, <3>7, <3>8, <3>9, <3>10
            DEF PutStep
  <2>2. ASSUME NEW p \in Puts, MatcherDone(p) PROVE LockCovers'
    BY <2>2 DEF MatcherDone
  <2>3. ASSUME NEW m \in Merges, MergeStep(m) PROVE LockCovers'
    BY <2>3 DEF MergeStep, MergeValidate, MergeReject, MergeSetKey,
                MergeTokens, MergeFinally
  <2>4. ASSUME NEW r \in Redeems, RedeemStep(r) PROVE LockCovers'
    <3>1. CASE RedeemLock(r) BY <3>1 DEF RedeemLock
    <3>2. CASE RedeemInProgress(r) BY <3>2 DEF RedeemInProgress
    <3>3. CASE RedeemAdmit(r) BY <3>3 DEF RedeemAdmit
    <3>4. CASE RedeemSetKey(r) BY <3>4 DEF RedeemSetKey
    <3>5. CASE RedeemPassCalls(r) BY <3>5 DEF RedeemPassCalls
    <3>6. CASE RedeemFinish(r) BY <3>6 DEF RedeemFinish
    <3> QED BY <2>4, <3>1, <3>2, <3>3, <3>4, <3>5, <3>6 DEF RedeemStep
  <2>5. ASSUME NEW r \in Requests, Crash(r) PROVE LockCovers'
    BY <2>5 DEF Crash
  <2>6. ASSUME Expire PROVE LockCovers'
    BY <2>6 DEF Expire, CallKeyExpire, RedeemKeyExpire, LockExpire
  <2>7. CASE UNCHANGED vars BY <2>7 DEF vars
  <2> QED BY <2>1, <2>2, <2>3, <2>4, <2>5, <2>6, <2>7 DEF Next
<1> QED BY <1>1, <1>2, TypeCorrect, PTL DEF Spec

-------------------------------------------------------------------------------
\* putCall's test and set of the key are atomic towards other trades.
THEOREM AdmissionHolds == Spec => []AdmissionIsExclusive
<1>1. Init => AdmissionIsExclusive
  BY DEF Init, AdmissionIsExclusive, Requests, Trades
<1>2. TypeOK /\ LockCovers /\ AdmissionIsExclusive /\ [Next]_vars
          => AdmissionIsExclusive'
  <2> SUFFICES ASSUME TypeOK, LockCovers, AdmissionIsExclusive, [Next]_vars
               PROVE  AdmissionIsExclusive'
    OBVIOUS
  <2> USE RequestKindsDisjoint DEF TypeOK, Step, Domains, DomainOf, Requests, Trades, LockCovers,
          AdmissionIsExclusive, callVars, redeemVars
  <2>1. ASSUME NEW p \in Puts, PutStep(p) PROVE AdmissionIsExclusive'
    <3>1. CASE PutLock(p) BY <3>1 DEF PutLock
    <3>2. CASE PutInProgress(p) BY <3>2 DEF PutInProgress
    <3>3. CASE PutAdmit(p) BY <3>3 DEF PutAdmit
    <3>4. CASE PutSetKey(p) BY <3>4 DEF PutSetKey
    <3>5. CASE PutPassRedeem(p) BY <3>5 DEF PutPassRedeem
    <3>6. CASE PutReject(p) BY <3>6 DEF PutReject
    <3>7. CASE PutSendOrder(p) BY <3>7 DEF PutSendOrder
    <3>8. CASE PutTournament(p) BY <3>8 DEF PutTournament
    <3>9. CASE PutAnswer(p) BY <3>9 DEF PutAnswer
    <3>10. CASE PutFinally(p) BY <3>10 DEF PutFinally
    <3> QED BY <2>1, <3>1, <3>2, <3>3, <3>4, <3>5, <3>6, <3>7, <3>8, <3>9, <3>10
            DEF PutStep
  <2>2. ASSUME NEW p \in Puts, MatcherDone(p) PROVE AdmissionIsExclusive'
    BY <2>2 DEF MatcherDone
  <2>3. ASSUME NEW m \in Merges, MergeStep(m) PROVE AdmissionIsExclusive'
    BY <2>3 DEF MergeStep, MergeValidate, MergeReject, MergeSetKey,
                MergeTokens, MergeFinally
  <2>4. ASSUME NEW r \in Redeems, RedeemStep(r) PROVE AdmissionIsExclusive'
    BY <2>4 DEF RedeemStep, RedeemLock, RedeemInProgress, RedeemAdmit,
                RedeemSetKey, RedeemPassCalls, RedeemFinish
  <2>5. ASSUME NEW r \in Requests, Crash(r) PROVE AdmissionIsExclusive'
    BY <2>5 DEF Crash
  <2>6. ASSUME Expire PROVE AdmissionIsExclusive'
    BY <2>6 DEF Expire, CallKeyExpire, RedeemKeyExpire, LockExpire
  <2>7. CASE UNCHANGED vars BY <2>7 DEF vars
  <2> QED BY <2>1, <2>2, <2>3, <2>4, <2>5, <2>6, <2>7 DEF Next
<1> QED BY <1>1, <1>2, TypeCorrect, LocksCover, PTL DEF Spec

-------------------------------------------------------------------------------
\* While no withdrawal key expires, putRedeemRequests admits one withdrawal of
\* the user at a time.
THEOREM OneWithdrawalHolds == Spec => []OneWithdrawalAtATime
<1>1. Init => RedeemKeyHeld
  BY DEF Init, RedeemKeyHeld, ActiveRedeem, Requests, Trades
<1>2. TypeOK /\ LockCovers /\ RedeemKeyHeld /\ [Next]_vars => RedeemKeyHeld'
  <2> SUFFICES ASSUME TypeOK, LockCovers, RedeemKeyHeld, [Next]_vars
               PROVE  RedeemKeyHeld'
    OBVIOUS
  <2> USE RequestKindsDisjoint DEF TypeOK, Step, Domains, DomainOf, Requests, Trades, LockCovers,
          RedeemKeyHeld, ActiveRedeem, callVars, redeemVars
  <2>1. ASSUME NEW p \in Puts, PutStep(p) PROVE RedeemKeyHeld'
    BY <2>1 DEF PutStep, PutLock, PutInProgress, PutAdmit, PutSetKey,
                PutPassRedeem, PutReject, PutSendOrder, PutTournament,
                PutAnswer, PutFinally
  <2>2. ASSUME NEW p \in Puts, MatcherDone(p) PROVE RedeemKeyHeld'
    BY <2>2 DEF MatcherDone
  <2>3. ASSUME NEW m \in Merges, MergeStep(m) PROVE RedeemKeyHeld'
    BY <2>3 DEF MergeStep, MergeValidate, MergeReject, MergeSetKey,
                MergeTokens, MergeFinally
  <2>4. ASSUME NEW r \in Redeems, RedeemStep(r) PROVE RedeemKeyHeld'
    <3>1. CASE RedeemLock(r) BY <3>1 DEF RedeemLock
    <3>2. CASE RedeemInProgress(r) BY <3>2 DEF RedeemInProgress
    <3>3. CASE RedeemAdmit(r) BY <3>3 DEF RedeemAdmit
    <3>4. CASE RedeemSetKey(r) BY <3>4 DEF RedeemSetKey
    <3>5. CASE RedeemPassCalls(r) BY <3>5 DEF RedeemPassCalls
    <3>6. CASE RedeemFinish(r) BY <3>6 DEF RedeemFinish
    <3> QED BY <2>4, <3>1, <3>2, <3>3, <3>4, <3>5, <3>6 DEF RedeemStep
  <2>5. ASSUME NEW r \in Requests, Crash(r) PROVE RedeemKeyHeld'
    BY <2>5 DEF Crash
  <2>6. ASSUME Expire PROVE RedeemKeyHeld'
    <3>1. ASSUME NEW e \in Events, CallKeyExpire(e) PROVE RedeemKeyHeld'
      BY <3>1 DEF CallKeyExpire
    <3>2. CASE RedeemKeyExpire BY <3>2 DEF RedeemKeyExpire
    <3>3. CASE LockExpire BY <3>3 DEF LockExpire
    <3> QED BY <2>6, <3>1, <3>2, <3>3 DEF Expire
  <2>7. CASE UNCHANGED vars BY <2>7 DEF vars
  <2> QED BY <2>1, <2>2, <2>3, <2>4, <2>5, <2>6, <2>7 DEF Next
<1>3. RedeemKeyHeld => OneWithdrawalAtATime
  BY DEF RedeemKeyHeld, OneWithdrawalAtATime
<1> QED BY <1>1, <1>2, <1>3, TypeCorrect, LocksCover, PTL DEF Spec

-------------------------------------------------------------------------------
(* The refinement: every step of the guard starts or ends at most one trade *)
(* or withdrawal of TradeOrWithdraw.                                        *)

\* A step that at most ends the trade of one event maps to EndTrade or to nothing.
LEMMA TradeEnds ==
    ASSUME NEW e \in Events,
           \A f \in Events : f # e => Owner(f)' = Owner(f),
           Owner(e)' \in {Owner(e), Nobody},
           OwnWithdrawal' = OwnWithdrawal
    PROVE  [Abstract!Next]_(Abstract!vars)
<1>1. CASE e \notin Fantasy /\ Owner(e)' # Owner(e)
  <2>1. Owner(e) # Nobody /\ Owner(e)' = Nobody
    BY <1>1
  <2>2. OwnTrade' = [OwnTrade EXCEPT ![e] = Nobody]
    BY <1>1, <2>1 DEF OwnTrade
  <2>3. Abstract!EndTrade(e)
    BY <1>1, <2>1, <2>2 DEF Abstract!EndTrade, OwnTrade
  <2> QED BY <1>1, <2>3 DEF Abstract!Next
<1>2. CASE e \in Fantasy \/ Owner(e)' = Owner(e)
  <2>1. OwnTrade' = OwnTrade
    BY <1>2 DEF OwnTrade
  <2> QED BY <2>1 DEF Abstract!vars
<1> QED BY <1>1, <1>2

\* A step that at most ends the withdrawal maps to EndWithdrawal or to nothing.
LEMMA WithdrawalEnds ==
    ASSUME \A f \in Events : Owner(f)' = Owner(f),
           OwnWithdrawal' \in {OwnWithdrawal, Nobody}
    PROVE  [Abstract!Next]_(Abstract!vars)
<1>1. OwnTrade' = OwnTrade
  BY DEF OwnTrade
<1>2. CASE OwnWithdrawal' = OwnWithdrawal
  BY <1>1, <1>2 DEF Abstract!vars
<1>3. CASE OwnWithdrawal' # OwnWithdrawal
  <2>1. Abstract!EndWithdrawal
    BY <1>1, <1>3 DEF Abstract!EndWithdrawal
  <2> QED BY <2>1 DEF Abstract!Next
<1> QED BY <1>2, <1>3

\* A trade starts when it passes the withdrawal's key: nothing else is under way then
\* that could be on its event.
LEMMA TradeStarts ==
    ASSUME TypeOK, NEW p \in Puts, PutPassRedeem(p)
    PROVE  [Abstract!Next]_(Abstract!vars)
<1> USE RequestKindsDisjoint DEF TypeOK, Requests, Trades, Step, callVars, redeemVars
<1>0. PICK e \in Events : e = event[p]
  OBVIOUS
<1>1. e \in Events /\ event' = event /\ callKey' = callKey /\ redeemKey' = redeemKey
  BY <1>0 DEF PutPassRedeem
<1>2. OwnWithdrawal = Nobody /\ OwnWithdrawal' = Nobody
  BY <1>0, <1>1 DEF PutPassRedeem, OwnWithdrawal
<1>3. \A f \in Events : f # e => Owner(f)' = Owner(f)
  BY <1>0, <1>1 DEF PutPassRedeem, Owner, Trading
<1>4. CASE callKey[e] = p
  <2>1. Owner(e) = Nobody /\ Owner(e)' = p
    BY <1>0, <1>1, <1>4 DEF PutPassRedeem, Owner, Trading, PutLabels
  <2>2. CASE e \notin Fantasy
    <3>1. OwnTrade' = [OwnTrade EXCEPT ![e] = p]
      BY <1>0, <1>1, <1>3, <2>1, <2>2 DEF OwnTrade
    <3>2. Abstract!StartTrade(e, p)
      BY <1>0, <1>1, <1>2, <2>1, <2>2, <3>1 DEF Abstract!StartTrade, OwnTrade
    <3> QED BY <1>0, <1>1, <2>2, <3>2 DEF Abstract!Next
  <2>3. CASE e \in Fantasy
    <3>1. OwnTrade' = OwnTrade
      BY <1>0, <1>3, <2>3 DEF OwnTrade
    <3> QED BY <1>0, <1>2, <3>1 DEF Abstract!vars
  <2> QED BY <1>0, <2>2, <2>3
<1>5. CASE callKey[e] # p
  <2>1. Owner(e)' = Owner(e)
    BY <1>0, <1>1, <1>5 DEF PutPassRedeem, Owner, Trading
  <2> QED BY <1>1, <1>2, <1>3, <2>1, TradeEnds
<1> QED BY <1>4, <1>5

\* A withdrawal starts when no trade's key is left.
LEMMA WithdrawalStarts ==
    ASSUME TypeOK, NEW r \in Redeems, RedeemPassCalls(r)
    PROVE  [Abstract!Next]_(Abstract!vars)
<1> USE RequestKindsDisjoint DEF TypeOK, Requests, Trades, Step, callVars, redeemVars
<1>1. \A e \in Events \ Fantasy : Owner(e) = Nobody /\ Owner(e)' = Nobody
  BY DEF RedeemPassCalls, Owner
<1>2. OwnTrade' = OwnTrade
  BY <1>1 DEF OwnTrade
<1>3. CASE redeemKey = r
  <2>1. OwnWithdrawal = Nobody /\ OwnWithdrawal' = r
    BY <1>3 DEF RedeemPassCalls, OwnWithdrawal, Withdrawing, RedeemLabels
  <2>2. Abstract!StartWithdrawal(r)
    BY <1>1, <1>2, <2>1 DEF Abstract!StartWithdrawal, OwnTrade
  <2> QED BY <2>2 DEF Abstract!Next
<1>4. CASE redeemKey # r
  <2>1. OwnWithdrawal' = OwnWithdrawal
    BY <1>4 DEF RedeemPassCalls, OwnWithdrawal, Withdrawing
  <2> QED BY <1>2, <2>1 DEF Abstract!vars
<1> QED BY <1>3, <1>4

\* putCall and putRedeemRequests implement TradeOrWithdraw for any number of requests
\* and events: a user's trades and his withdrawal are under way in turn as long as they
\* own their keys.
THEOREM GuardImplements == Spec => ImplementsTradeOrWithdraw
<1>1. Init => Abstract!Init
  BY RequestKindsDisjoint DEF Init, Abstract!Init, OwnTrade, Owner, OwnWithdrawal, Requests, Trades
<1>2. TypeOK /\ [Next]_vars => [Abstract!Next]_(Abstract!vars)
  <2> SUFFICES ASSUME TypeOK, [Next]_vars PROVE [Abstract!Next]_(Abstract!vars)
    OBVIOUS
  <2> USE RequestKindsDisjoint DEF TypeOK, Step, Domains, DomainOf, Requests, Trades,
          callVars, redeemVars
  <2>1. ASSUME NEW p \in Puts, PutStep(p) PROVE [Abstract!Next]_(Abstract!vars)
    <3>1. CASE PutPassRedeem(p) BY <3>1, TradeStarts
    <3>2. CASE ~PutPassRedeem(p)
      <4>0. PICK e \in Events : e = event[p]
        OBVIOUS
      <4>1. e \in Events /\ OwnWithdrawal' = OwnWithdrawal
        BY <4>0, <2>1, <3>2 DEF PutStep, PutLock, PutInProgress, PutAdmit, PutSetKey, PutReject,
           PutSendOrder, PutTournament, PutAnswer, PutFinally, OwnWithdrawal, Withdrawing
      <4>2. \A f \in Events : f # e => Owner(f)' = Owner(f)
        BY <4>0, <2>1, <3>2 DEF PutStep, PutLock, PutInProgress, PutAdmit, PutSetKey, PutReject,
           PutSendOrder, PutTournament, PutAnswer, PutFinally, Owner, Trading
      <4>3. Owner(e)' \in {Owner(e), Nobody}
        BY <4>0, <2>1, <3>2 DEF PutStep, PutLock, PutInProgress, PutAdmit, PutSetKey, PutReject,
           PutSendOrder, PutTournament, PutAnswer, PutFinally, Owner, Trading
      <4> QED BY <4>1, <4>2, <4>3, TradeEnds
    <3> QED BY <3>1, <3>2
  <2>2. ASSUME NEW p \in Puts, MatcherDone(p) PROVE [Abstract!Next]_(Abstract!vars)
    <3>0. PICK e \in Events : e = event[p]
      OBVIOUS
    <3>1. e \in Events /\ OwnWithdrawal' = OwnWithdrawal
      BY <3>0, <2>2 DEF MatcherDone, OwnWithdrawal, Withdrawing
    <3>2. \A f \in Events : f # e => Owner(f)' = Owner(f)
      BY <3>0, <2>2 DEF MatcherDone, Owner, Trading
    <3>3. Owner(e)' \in {Owner(e), Nobody}
      BY <3>0, <2>2 DEF MatcherDone, Owner, Trading
    <3> QED BY <3>1, <3>2, <3>3, TradeEnds
  <2>3. ASSUME NEW m \in Merges, MergeStep(m) PROVE [Abstract!Next]_(Abstract!vars)
    <3>0. PICK e \in Events : e = event[m]
      OBVIOUS
    <3>1. e \in Events /\ OwnWithdrawal' = OwnWithdrawal
      BY <3>0, <2>3 DEF MergeStep, MergeValidate, MergeReject, MergeSetKey, MergeTokens, MergeFinally,
         OwnWithdrawal, Withdrawing
    <3>2. \A f \in Events : f # e => Owner(f)' = Owner(f)
      BY <3>0, <2>3 DEF MergeStep, MergeValidate, MergeReject, MergeSetKey, MergeTokens, MergeFinally,
         Owner, Trading
    <3>3. Owner(e)' \in {Owner(e), Nobody}
      BY <3>0, <2>3 DEF MergeStep, MergeValidate, MergeReject, MergeSetKey, MergeTokens, MergeFinally,
         Owner, Trading
    <3> QED BY <3>1, <3>2, <3>3, TradeEnds
  <2>4. ASSUME NEW r \in Redeems, RedeemStep(r) PROVE [Abstract!Next]_(Abstract!vars)
    <3>1. CASE RedeemPassCalls(r) BY <3>1, WithdrawalStarts
    <3>2. CASE ~RedeemPassCalls(r)
      <4>1. \A f \in Events : Owner(f)' = Owner(f)
        BY <2>4, <3>2 DEF RedeemStep, RedeemLock, RedeemInProgress, RedeemAdmit, RedeemSetKey,
           RedeemFinish, Owner, Trading
      <4>2. OwnWithdrawal' \in {OwnWithdrawal, Nobody}
        BY <2>4, <3>2 DEF RedeemStep, RedeemLock, RedeemInProgress, RedeemAdmit, RedeemSetKey,
           RedeemFinish, OwnWithdrawal, Withdrawing
      <4> QED BY <4>1, <4>2, WithdrawalEnds
    <3> QED BY <3>1, <3>2
  <2>5. ASSUME NEW r \in Requests, Crash(r) PROVE [Abstract!Next]_(Abstract!vars)
    <3>1. CASE r \in Redeems
      <4>1. \A f \in Events : Owner(f)' = Owner(f)
        BY <2>5, <3>1 DEF Crash, Owner, Trading
      <4>2. OwnWithdrawal' \in {OwnWithdrawal, Nobody}
        BY <2>5, <3>1 DEF Crash, OwnWithdrawal, Withdrawing
      <4> QED BY <4>1, <4>2, WithdrawalEnds
    <3>2. CASE r \in Trades
      <4>0. PICK e \in Events : e = event[r]
        BY <3>2
      <4>1. e \in Events /\ OwnWithdrawal' = OwnWithdrawal
        BY <4>0, <2>5, <3>2 DEF Crash, OwnWithdrawal, Withdrawing
      <4>2. \A f \in Events : f # e => Owner(f)' = Owner(f)
        BY <4>0, <2>5, <3>2 DEF Crash, Owner, Trading
      <4>3. Owner(e)' \in {Owner(e), Nobody}
        BY <4>0, <2>5, <3>2 DEF Crash, Owner, Trading
      <4> QED BY <4>1, <4>2, <4>3, TradeEnds
    <3> QED BY <3>1, <3>2
  <2>6. ASSUME Expire PROVE [Abstract!Next]_(Abstract!vars)
    <3>1. ASSUME NEW e \in Events, CallKeyExpire(e) PROVE [Abstract!Next]_(Abstract!vars)
      <4>1. OwnWithdrawal' = OwnWithdrawal /\ (\A f \in Events : f # e => Owner(f)' = Owner(f))
        BY <3>1 DEF CallKeyExpire, OwnWithdrawal, Withdrawing, Owner, Trading
      <4>2. Owner(e)' \in {Owner(e), Nobody}
        BY <3>1 DEF CallKeyExpire, Owner, Trading
      <4> QED BY <4>1, <4>2, TradeEnds
    <3>2. CASE RedeemKeyExpire \/ LockExpire
      <4>1. \A f \in Events : Owner(f)' = Owner(f)
        BY <3>2 DEF RedeemKeyExpire, LockExpire, Owner, Trading
      <4>2. OwnWithdrawal' \in {OwnWithdrawal, Nobody}
        BY <3>2 DEF RedeemKeyExpire, LockExpire, OwnWithdrawal, Withdrawing
      <4> QED BY <4>1, <4>2, WithdrawalEnds
    <3> QED BY <2>6, <3>1, <3>2 DEF Expire
  <2>7. CASE UNCHANGED vars
    <3>1. (\A f \in Events : Owner(f)' = Owner(f)) /\ OwnWithdrawal' = OwnWithdrawal
      BY <2>7 DEF vars, Owner, Trading, OwnWithdrawal, Withdrawing
    <3> QED BY <3>1, WithdrawalEnds
  <2> QED BY <2>1, <2>2, <2>3, <2>4, <2>5, <2>6, <2>7 DEF Next
<1> QED BY <1>1, <1>2, TypeCorrect, PTL DEF Spec, ImplementsTradeOrWithdraw, Abstract!Spec
===============================================================================
