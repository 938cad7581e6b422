------------------------------ MODULE BankDetails ------------------------------
(***************************************************************************)
(* The bank accounts users withdraw to (user.controller.js): a user adds   *)
(* one, with KYC or without (addBankDetailsNew, addOnlyBankDetails), and   *)
(* removes it (removeBankDetails); the dashboard approves or rejects the   *)
(* accounts whose names did not match (addBankDetailsAdmin,                *)
(* rejectKycRequest).                                                      *)
(*                                                                         *)
(* An account is known in three places that no transaction joins: the rows *)
(* of bankdetails, read from a replica; the gateway's beneficiary, one per *)
(* user, who is paid; and bank_details_verif_status, where an account is   *)
(* marked as equal to the user's PAN.  removeBankDetails keeps what it has *)
(* read in the undeclared globals bankDeets and detailsToDelete, shared by *)
(* all users' requests.                                                    *)
(***************************************************************************)
EXTENDS Naturals, FiniteSets

CONSTANTS
    Users,
    Requests,
    None        \* no account

Accounts == Users \X {1, 2}
Of(u) == {a \in Accounts : a[1] = u}
Kinds == {"add", "remove", "removeOld", "approve", "reject"}

VARIABLES
    kind,       \* per request
    account,    \* per request, the account it is about
    pc,
    seen,       \* per request, the account it has read, or None
    answer,     \* per request, the gateway's answer to a removal
    bankDeets,  \* global: the list of accounts read last
    detailsToDelete, \* global: the account found last, or None
    bank,       \* per user, the accounts in bankdetails
    replica,    \* what the replica has of them
    beneficiary, \* per user, the account the gateway pays, or None
    equal,      \* accounts marked as equal to the PAN
    verified,   \* accounts' approval: P, A or R
    kycstatus,  \* per user: I, P or C
    key,        \* per user, kyc_process_<user> is set
    withdrawing, \* users with an active withdrawal
    odd         \* history: what went wrong beside the requests, see Odds

Odds == [what : {"stale", "crossed", "broken", "lost", "overlap", "notFound", "late"}, of : Users]
globals == <<bankDeets, detailsToDelete>>
stores == <<bank, replica, beneficiary, equal, verified, kycstatus>>
vars == <<kind, account, pc, seen, answer, globals, stores, key, withdrawing, odd>>

User(r) == account[r][1]
At(r, step) == pc[r] = step
Go(r, step) == pc' = [pc EXCEPT ![r] = step]
When(what, u, cond) == IF cond THEN {[what |-> what, of |-> u]} ELSE {}
Mark(what, u, cond) == odd' = odd \union When(what, u, cond)
Went(u, whats) == \E o \in odd : o.of = u /\ o.what \in whats
\* The requests of u that are under way
Active(u) == {r \in Requests : User(r) = u /\ pc[r] \notin {"idle", "done"}}

Init ==
    /\ kind \in [Requests -> Kinds]
    /\ account \in [Requests -> Accounts]
    /\ pc = [r \in Requests |-> "idle"]
    /\ seen = [r \in Requests |-> None] /\ answer = [r \in Requests |-> "none"]
    /\ bankDeets = {} /\ detailsToDelete = None
    /\ bank \in [Users -> {{}} \union {{a} : a \in Users \X {1}}]
    /\ \A u \in Users : bank[u] \subseteq Of(u)
    /\ replica = bank
    /\ beneficiary = [u \in Users |-> IF bank[u] = {} THEN None ELSE <<u, 1>>]
    /\ equal = UNION {bank[u] : u \in Users}
    /\ verified = [a \in Accounts |-> IF a \in equal THEN "A" ELSE "P"]
    /\ kycstatus = [u \in Users |-> IF bank[u] = {} THEN "I" ELSE "C"]
    /\ key = [u \in Users |-> FALSE]
    /\ withdrawing = {}
    /\ odd = {}

\* A handler that starts while another of the user's is under way
Start(r, step) ==
    /\ At(r, "idle")
    /\ Go(r, step)
    /\ Mark("overlap", User(r), Active(User(r)) # {})

-------------------------------------------------------------------------------
(* addBankDetailsNew, addOnlyBankDetails *)

\* isReqInProgress, 423
AddInProgress(r) ==
    /\ kind[r] = "add" /\ At(r, "idle") /\ key[User(r)]
    /\ Go(r, "done")
    /\ UNCHANGED <<kind, account, seen, answer, globals, stores, key, withdrawing, odd>>

AddPass(r) ==
    /\ kind[r] = "add" /\ ~key[User(r)]
    /\ Start(r, "setKey")
    /\ UNCHANGED <<kind, account, seen, answer, globals, stores, key, withdrawing>>

AddSetKey(r) ==
    /\ At(r, "setKey")
    /\ key' = [key EXCEPT ![User(r)] = TRUE]
    /\ Go(r, "check")
    /\ UNCHANGED <<kind, account, seen, answer, globals, stores, withdrawing, odd>>

\* deleteCacheSendError: the payload, the PAN or the account is refused.
AddRefuse(r) ==
    /\ At(r, "check")
    /\ key' = [key EXCEPT ![User(r)] = FALSE]
    /\ Go(r, "done")
    /\ UNCHANGED <<kind, account, seen, answer, globals, stores, withdrawing, odd>>

\* External: compareAndAddKyc adds a first account whose names match, and leaves
\* another to the dashboard.
AddAccount(r) ==
    LET u == User(r) IN
    /\ At(r, "check") /\ bank[u] = {} /\ beneficiary[u] = None
    /\ \/ /\ bank' = [bank EXCEPT ![u] = {account[r]}]
          /\ beneficiary' = [beneficiary EXCEPT ![u] = account[r]]
          /\ equal' = equal \union {account[r]}
          /\ kycstatus' = [kycstatus EXCEPT ![u] = "C"]
          /\ UNCHANGED verified
       \/ /\ verified' = [verified EXCEPT ![account[r]] = "P"]
          /\ UNCHANGED <<bank, beneficiary, equal, kycstatus>>
    /\ key' = [key EXCEPT ![u] = FALSE]
    /\ Go(r, "done")
    /\ UNCHANGED <<kind, account, seen, answer, globals, replica, withdrawing, odd>>

-------------------------------------------------------------------------------
(* removeBankDetails *)

Removing == {"remove", "removeOld"}

RemoveRefuse(r) ==
    /\ kind[r] \in Removing /\ At(r, "idle") /\ User(r) \in withdrawing
    /\ Go(r, "done")
    /\ UNCHANGED <<kind, account, seen, answer, globals, stores, key, withdrawing, odd>>

RemovePass(r) ==
    /\ kind[r] \in Removing /\ User(r) \notin withdrawing
    /\ Start(r, "list")
    /\ UNCHANGED <<kind, account, seen, answer, globals, stores, key, withdrawing>>

\* getBankDetailsArray, into the global
RemoveList(r) ==
    /\ kind[r] = "remove" /\ At(r, "list")
    /\ bankDeets' = replica[User(r)]
    /\ Mark("stale", User(r), replica[User(r)] # bank[User(r)])
    /\ Go(r, "gateway")
    /\ UNCHANGED <<kind, account, seen, answer, detailsToDelete, stores, key, withdrawing>>

\* getBankDetails, in requests without a beneficiary's id; without a row it throws.
RemoveOldRead(r) ==
    LET u == User(r) IN
    /\ kind[r] = "removeOld" /\ At(r, "list")
    /\ IF replica[u] = {} THEN Go(r, "done") /\ UNCHANGED seen
       ELSE /\ \E a \in replica[u] : seen' = [seen EXCEPT ![r] = a]
            /\ Go(r, "gateway")
    /\ Mark("stale", u, replica[u] # bank[u])
    /\ UNCHANGED <<kind, account, answer, globals, stores, key, withdrawing>>

Answers(u) == IF beneficiary[u] = None THEN {"404", "error"} ELSE {"SUCCESS", "error"}

\* removeBeneficiaryInCG, whose answer may be lost
GatewayRemoves(r, step) ==
    LET u == User(r) IN
    /\ \E reply \in Answers(u) :
          /\ answer' = [answer EXCEPT ![r] = reply]
          /\ beneficiary' = IF reply = "SUCCESS" THEN [beneficiary EXCEPT ![u] = None] ELSE beneficiary
    /\ \/ Go(r, step) /\ UNCHANGED odd
       \/ Go(r, "done") /\ Mark("lost", u, TRUE)

RemoveAtGateway(r) ==
    /\ kind[r] \in Removing /\ At(r, "gateway")
    /\ GatewayRemoves(r, IF kind[r] = "remove" THEN "choose" ELSE "row")
    /\ UNCHANGED <<kind, account, seen, globals, bank, replica, equal, verified, kycstatus, key, withdrawing>>

\* The account is looked for in the global list; one that is not there leaves the
\* global as it was, and one that never was throws.
RemoveChoose(r) ==
    LET u == User(r)
        mine == bankDeets \intersect Of(u)
    IN
    /\ At(r, "choose")
    /\ IF mine = {} THEN UNCHANGED detailsToDelete ELSE \E a \in mine : detailsToDelete' = a
    /\ seen' = [seen EXCEPT ![r] = detailsToDelete']
    /\ IF detailsToDelete' = None THEN Go(r, "done") ELSE Go(r, "unset")
    /\ Mark("crossed", u, mine = {})
    /\ UNCHANGED <<kind, account, answer, bankDeets, stores, key, withdrawing>>

\* putBankEqPan, whose condition has the user, the account and the partner
Unset(u, a) == equal' = IF a \in Of(u) THEN equal \ {a} ELSE equal

RemoveUnset(r) ==
    /\ kind[r] = "remove" /\ At(r, "unset")
    /\ Unset(User(r), seen[r])
    /\ Go(r, "row")
    /\ UNCHANGED <<kind, account, seen, answer, globals, bank, replica, beneficiary, verified, kycstatus, key, withdrawing, odd>>

\* Mutant: the gateway's answer is not looked at.
RemoveRowAnyway(r) ==
    /\ kind[r] \in Removing /\ At(r, "row")
    /\ bank' = [bank EXCEPT ![User(r)] = {}]
    /\ Go(r, IF kind[r] = "remove" THEN "done" ELSE "unsetOld")
    /\ UNCHANGED <<kind, account, seen, answer, globals, replica, beneficiary, equal, verified, kycstatus, key, withdrawing, odd>>

\* User.removeBankDetails, after SUCCESS and 404; the old form does not unset the
\* account after 404.
RemoveRow(r) ==
    /\ kind[r] \in Removing /\ At(r, "row")
    /\ bank' = IF answer[r] = "error" THEN bank ELSE [bank EXCEPT ![User(r)] = {}]
    /\ Mark("notFound", User(r), answer[r] = "404")
    /\ Go(r, IF kind[r] = "removeOld" /\ answer[r] = "SUCCESS" THEN "unsetOld" ELSE "done")
    /\ UNCHANGED <<kind, account, seen, answer, globals, replica, beneficiary, equal, verified, kycstatus, key, withdrawing>>

RemoveOldUnset(r) ==
    /\ At(r, "unsetOld")
    /\ Unset(User(r), seen[r])
    /\ Go(r, "done")
    /\ UNCHANGED <<kind, account, seen, answer, globals, bank, replica, beneficiary, verified, kycstatus, key, withdrawing, odd>>

-------------------------------------------------------------------------------
(* The dashboard: addBankDetailsAdmin, rejectKycRequest *)

\* getBankVerif does not ask for the approval's status.
ApproveRead(r) ==
    LET u == User(r) IN
    /\ kind[r] = "approve" /\ At(r, "idle")
    /\ IF replica[u] = {} THEN UNCHANGED seen
       ELSE \E a \in replica[u] : seen' = [seen EXCEPT ![r] = a]
    /\ Go(r, IF replica[u] = {} THEN "addKyc" ELSE "removal")
    /\ odd' = odd \union When("overlap", u, Active(u) # {}) \union When("stale", u, replica[u] # bank[u])
    /\ UNCHANGED <<kind, account, answer, globals, stores, key, withdrawing>>

\* addKyc
ApproveAddKyc(r) ==
    /\ At(r, "addKyc")
    /\ kycstatus' = [kycstatus EXCEPT ![User(r)] = "P"]
    /\ Go(r, "addition")
    /\ UNCHANGED <<kind, account, seen, answer, globals, bank, replica, beneficiary, equal, verified, key, withdrawing, odd>>

ApproveRemoval(r) ==
    /\ At(r, "removal")
    /\ GatewayRemoves(r, "replaced")
    /\ UNCHANGED <<kind, account, seen, globals, bank, replica, equal, verified, kycstatus, key, withdrawing>>

\* removeBankDetails and putBankEqPan; without SUCCESS the new account is tried anyway.
ApproveReplace(r) ==
    /\ At(r, "replaced")
    /\ IF answer[r] = "SUCCESS"
       THEN bank' = [bank EXCEPT ![User(r)] = {}] /\ Unset(User(r), seen[r])
       ELSE UNCHANGED <<bank, equal>>
    /\ Go(r, "addition")
    /\ UNCHANGED <<kind, account, seen, answer, globals, replica, beneficiary, verified, kycstatus, key, withdrawing, odd>>

\* addBeneficiaryInCG: 'Beneficiary Id already exists' is as good as SUCCESS.
ApproveAddition(r) ==
    LET u == User(r) IN
    /\ At(r, "addition")
    /\ \/ /\ beneficiary' = IF beneficiary[u] = None THEN [beneficiary EXCEPT ![u] = account[r]] ELSE beneficiary
          /\ \/ Go(r, "insert") /\ UNCHANGED odd
             \/ Go(r, "done") /\ Mark("lost", u, beneficiary[u] = None)
       \/ Go(r, "done") /\ UNCHANGED <<beneficiary, odd>>
    /\ UNCHANGED <<kind, account, seen, answer, globals, bank, replica, equal, verified, kycstatus, key, withdrawing>>

\* addBankDetailsCashfree: 'Bank details already added'
ApproveDenied(r) ==
    LET u == User(r) IN
    /\ At(r, "insert") /\ replica[u] # {}
    /\ Mark("stale", u, replica[u] # bank[u])
    /\ Go(r, "done")
    /\ UNCHANGED <<kind, account, seen, answer, globals, stores, key, withdrawing>>

ApproveInsert(r) ==
    LET u == User(r) IN
    /\ At(r, "insert") /\ replica[u] = {}
    /\ bank' = [bank EXCEPT ![u] = @ \union {account[r]}]
    /\ kycstatus' = [kycstatus EXCEPT ![u] = "C"]
    /\ verified' = [verified EXCEPT ![account[r]] = "A"]
    /\ Mark("stale", u, replica[u] # bank[u])
    /\ Go(r, "done")
    /\ UNCHANGED <<kind, account, seen, answer, globals, replica, beneficiary, equal, key, withdrawing>>

Reject(r) ==
    /\ kind[r] = "reject" /\ At(r, "idle")
    /\ verified' = [verified EXCEPT ![account[r]] = "R"]
    /\ Go(r, "done")
    /\ UNCHANGED <<kind, account, seen, answer, globals, bank, replica, beneficiary, equal, kycstatus, key, withdrawing, odd>>

-------------------------------------------------------------------------------
(* Surroundings *)

Ended(r) == pc[r] \in {"idle", "done"}

\* A query throws.
BreakOff(r) ==
    /\ ~Ended(r)
    /\ Go(r, "done")
    /\ Mark("broken", User(r), TRUE)
    /\ UNCHANGED <<kind, account, seen, answer, globals, stores, key, withdrawing>>

\* The process stops: the globals are lost, the keys stay.
Crash ==
    /\ \E r \in Requests : ~Ended(r)
    /\ pc' = [r \in Requests |-> IF Ended(r) THEN pc[r] ELSE "done"]
    /\ odd' = odd \union [what : {"broken"}, of : {User(r) : r \in {q \in Requests : ~Ended(q)}}]
    /\ bankDeets' = {} /\ detailsToDelete' = None
    /\ UNCHANGED <<kind, account, seen, answer, stores, key, withdrawing>>

\* External: the replica catches up.
Replicate ==
    /\ replica' = bank
    /\ UNCHANGED <<kind, account, pc, seen, answer, globals, bank, beneficiary, equal, verified, kycstatus, key, withdrawing, odd>>

\* External: the TTL of 60 s
KeyExpire ==
    /\ \E u \in Users : key[u] /\ key' = [key EXCEPT ![u] = FALSE]
    /\ UNCHANGED <<kind, account, pc, seen, answer, globals, stores, withdrawing, odd>>

\* External: putRedeemRequests, of a user with an account.
Withdraw ==
    /\ \E u \in Users :
          /\ bank[u] # {} /\ u \notin withdrawing
          /\ withdrawing' = withdrawing \union {u}
          /\ Mark("late", u, Active(u) # {})
    /\ UNCHANGED <<kind, account, pc, seen, answer, globals, stores, key>>

Next ==
    \/ \E r \in Requests :
        \/ AddInProgress(r) \/ AddPass(r) \/ AddSetKey(r) \/ AddRefuse(r) \/ AddAccount(r)
        \/ RemoveRefuse(r) \/ RemovePass(r) \/ RemoveList(r) \/ RemoveOldRead(r) \/ RemoveAtGateway(r)
        \/ RemoveChoose(r) \/ RemoveUnset(r) \/ RemoveRow(r) \/ RemoveOldUnset(r)
        \/ ApproveRead(r) \/ ApproveAddKyc(r) \/ ApproveRemoval(r) \/ ApproveReplace(r)
        \/ ApproveAddition(r) \/ ApproveDenied(r) \/ ApproveInsert(r) \/ Reject(r) \/ BreakOff(r)
    \/ Crash \/ Replicate \/ KeyExpire \/ Withdraw

Spec == Init /\ [][Next]_vars

-------------------------------------------------------------------------------
(* Properties *)

\* Every variable has its type.
TypeOK ==
    /\ seen \in [Requests -> Accounts \union {None}]
    /\ bankDeets \subseteq Accounts /\ detailsToDelete \in Accounts \union {None}
    /\ bank \in [Users -> SUBSET Accounts] /\ replica \in [Users -> SUBSET Accounts]
    /\ beneficiary \in [Users -> Accounts \union {None}]
    /\ equal \subseteq Accounts /\ verified \in [Accounts -> {"P", "A", "R"}]
    /\ kycstatus \in [Users -> {"I", "P", "C"}] /\ odd \subseteq Odds

\* The account a user sees is the one the gateway pays, when nothing of his is under
\* way, unless a request broke off, the replica lagged, an answer was lost or two
\* requests overlapped (of the same user, or in the global list).
PaidIsShown ==
    \A u \in Users :
        Active(u) = {} /\ bank[u] # {} =>
            bank[u] = {beneficiary[u]} \/ Went(u, {"stale", "broken", "lost", "overlap", "crossed"})

\* A user without an account has none marked as equal to the PAN, unless another
\* user's removal replaced the list, or the reasons above (the old form after 404).
RemovedIsUnset ==
    \A u \in Users :
        Active(u) = {} /\ bank[u] = {} =>
            equal \intersect Of(u) = {}
                \/ Went(u, {"stale", "broken", "lost", "overlap", "crossed", "notFound"})

\* Payouts go to the account the user sees, and a removed account may be added again.
DetailsAgree == PaidIsShown /\ RemovedIsUnset
================================================================================
