-------------------------------- MODULE SignIn --------------------------------
(***************************************************************************)
(* One person signs in by mobile number or by email: a code is sent        *)
(* (sendOTP, sendOTPEmail), verified (verifyOTPLogic, verifyOTPEmail) and  *)
(* exchanged for an account (putUser); a Google token and a WhatsApp       *)
(* session (otpless.controller.js) need no code.                           *)
(*                                                                         *)
(* The code's row in tempusers is read from a replica of the database and  *)
(* written to the primary.  Sending deletes the rows of the number and     *)
(* inserts one, in two queries and under no lock; verifying holds          *)
(* request_otp_<mobile> (not by email) and putUser adding_user_<name>,     *)
(* where the name of a token is the token itself.                          *)
(***************************************************************************)
EXTENDS Naturals, Sequences, FiniteSets

CONSTANTS
    Requests,
    First,      \* the code sent before the first request
    None        \* no row, no holder, no session

RetryLimit == 3
ResendLimit == 3
MaxHooks == 2     \* bound: deliveries of a message at a time
Codes == Requests \union {First}
Row == [otp : Codes, attempt : 0 .. RetryLimit, sent : 1 .. ResendLimit, verified : BOOLEAN, age : 1 .. 4]
Locks == {"otp", "user", "approve"}

VARIABLES
    channel,    \* mobile or email
    closed,     \* the partner allows no sign-ups
    kind,       \* per request: send, verify, put, token or sid
    pc,         \* per request, the step it is at
    temp,       \* the person's rows in tempusers
    replica,    \* what the replica has of them
    copy,       \* per request, the row it has read or None
    lock,       \* per lock, its holder or None
    hooks,      \* webhooks that have read the session and not written it
    session,    \* status of the WhatsApp session, or None
    accounts,   \* per account of the person, the joining bonuses it got
    compared,   \* history: per code, the comparisons with it
    entered,    \* history: codes that were entered
    used,       \* history: per code, the sign-ins it was exchanged for
    approvals,  \* history: of the session
    odd         \* history: what went wrong beside the requests, see Odds

Odds == {"stale", "lapsed", "crossed", "unlocked", "twoNames", "twoRows", "broken", "twice"}
rows == <<temp, replica, copy>>
history == <<compared, entered, used, approvals, odd>>
vars == <<channel, closed, kind, pc, rows, lock, hooks, session, accounts, history>>

Init ==
    /\ channel \in {"mobile", "email"}
    /\ closed \in {FALSE, channel = "email"}     \* putUser does not ask by which channel
    /\ kind \in [Requests -> {"send", "verify", "put"} \union
                             (IF channel = "mobile" THEN {"sid"} ELSE {"token"})]
    /\ pc = [r \in Requests |-> "idle"]
    /\ \E a \in 0 .. 2, s \in {1, ResendLimit}, v \in BOOLEAN :
          /\ v => a = 1
          /\ temp = {[otp |-> First, attempt |-> a, sent |-> s, verified |-> v, age |-> 1]}
          /\ compared = [c \in Codes |-> IF c = First THEN a ELSE 0]
          /\ entered = {c \in {First} : v}
    /\ replica = temp
    /\ copy = [r \in Requests |-> None]
    /\ lock = [l \in Locks |-> None]
    /\ hooks = 0 /\ session = "START"
    /\ accounts = <<>>
    /\ used = [c \in Codes |-> 0] /\ approvals = 0 /\ odd = {}

At(r, step) == pc[r] = step
Go(r, step) == pc' = [pc EXCEPT ![r] = step]
Mark(what) == odd' = odd \union what
Lock(l, r) == lock[l] = None /\ lock' = [lock EXCEPT ![l] = r]
\* An unlock after the timeout does not delete the key.
Unlock(l, r) == lock' = [lock EXCEPT ![l] = IF @ = r THEN None ELSE @]

Older(row) == IF row = None THEN None ELSE [row EXCEPT !.age = IF @ = 4 THEN 4 ELSE @ + 1]
\* users[0]: any of the rows
ReadRow(r, to) ==
    /\ IF replica = {} THEN copy' = [copy EXCEPT ![r] = None]
       ELSE \E row \in replica : copy' = [copy EXCEPT ![r] = row]
    /\ Go(r, to)
    /\ Mark({o \in {"stale"} : replica # temp})

-------------------------------------------------------------------------------
(* sendOTP, sendOTPEmail *)

SendRead(r) ==
    /\ kind[r] = "send" /\ At(r, "idle")
    /\ ReadRow(r, "send")
    /\ UNCHANGED <<channel, closed, kind, hooks, temp, replica, lock, session, accounts, compared, entered, used, approvals>>

TooMany(row) == row.sent >= ResendLimit /\ row.age < 4

\* BLOCKED, RESENDBEFORETIME; a blocked user, a gateway that fails
SendRefuse(r) ==
    /\ kind[r] = "send" /\ At(r, "send")
    /\ Go(r, "done")
    /\ UNCHANGED <<channel, closed, kind, hooks, rows, lock, session, accounts, history>>

\* addToTemp, del
SendDelete(r) ==
    /\ kind[r] = "send" /\ At(r, "send")
    /\ copy[r] # None => ~TooMany(copy[r]) /\ copy[r].age > 1
    /\ temp' = {}
    /\ Go(r, "insert")
    /\ UNCHANGED <<channel, closed, kind, hooks, replica, copy, lock, session, accounts, history>>

\* addToTemp, insert
SendInsert(r) ==
    LET sent == IF copy[r] = None THEN 0 ELSE IF copy[r].sent >= ResendLimit THEN 0 ELSE copy[r].sent IN
    /\ kind[r] = "send" /\ At(r, "insert")
    /\ temp' = temp \union {[otp |-> r, attempt |-> 0, sent |-> sent + 1, verified |-> FALSE, age |-> 1]}
    /\ Mark({o \in {"twoRows"} : temp # {}})
    /\ Go(r, "done")
    /\ UNCHANGED <<channel, closed, kind, hooks, replica, copy, lock, session, accounts, compared, entered, used, approvals>>

-------------------------------------------------------------------------------
(* verifyOTPLogic, verifyOTPEmail *)

Verifying == {r \in Requests : kind[r] = "verify" /\ pc[r] \in {"read", "count", "compare", "mark"}}

VerifyLock(r) ==
    /\ kind[r] = "verify" /\ At(r, "idle")
    /\ IF channel = "mobile" THEN Lock("otp", r) /\ UNCHANGED odd
       ELSE UNCHANGED lock /\ Mark({o \in {"unlocked"} : Verifying # {}})
    /\ Go(r, "read")
    /\ UNCHANGED <<channel, closed, kind, hooks, rows, session, accounts, compared, entered, used, approvals>>

VerifyRead(r) ==
    /\ kind[r] = "verify" /\ At(r, "read")
    /\ ReadRow(r, "count")
    /\ UNCHANGED <<channel, closed, kind, hooks, temp, replica, lock, session, accounts, compared, entered, used, approvals>>

\* The attempts of a row with this one
Counted(row) == IF row.attempt = RetryLimit THEN RetryLimit ELSE row.attempt + 1

\* updateTemp counts the attempt in every row of the person.
VerifyCount(r) ==
    /\ kind[r] = "verify" /\ At(r, "count") /\ copy[r] # None
    /\ temp' = {[row EXCEPT !.attempt = Counted(copy[r])] : row \in temp}
    /\ Go(r, "compare")
    /\ UNCHANGED <<channel, closed, kind, hooks, replica, copy, lock, session, accounts, history>>

\* Mutant: the attempts may reach the limit.
ComparableLate(row) == row.attempt + 1 <= RetryLimit /\ row.age <= 2

\* Neither OTPDISABLED, BLOCKED nor OTPEXPIRE
Comparable(row) == row.attempt + 1 < RetryLimit /\ row.age <= 2

Compare(r) == compared' = [compared EXCEPT ![copy[r].otp] = @ + 1]

VerifyRefuse(r) ==
    /\ kind[r] = "verify"
    /\ \/ At(r, "count") /\ copy[r] = None /\ UNCHANGED compared
       \/ At(r, "compare") /\ IF Comparable(copy[r]) THEN Compare(r) ELSE UNCHANGED compared
    /\ Unlock("otp", r)
    /\ Go(r, "done")
    /\ UNCHANGED <<channel, closed, kind, hooks, rows, session, accounts, entered, used, approvals, odd>>

\* The code is that of the row read.
VerifyRight(r) ==
    /\ kind[r] = "verify" /\ At(r, "compare") /\ Comparable(copy[r])
    /\ Compare(r)
    /\ entered' = entered \union {copy[r].otp}
    /\ Go(r, "mark")
    /\ UNCHANGED <<channel, closed, kind, hooks, rows, lock, session, accounts, used, approvals, odd>>

\* verifyOTPEmail of a user who is logged in
VerifyDelete(r) ==
    /\ kind[r] = "verify" /\ channel = "email" /\ At(r, "mark")
    /\ temp' = {}
    /\ Go(r, "done")
    /\ UNCHANGED <<channel, closed, kind, hooks, replica, copy, lock, session, accounts, history>>

\* updateTemp again, for every row
VerifyMark(r) ==
    /\ kind[r] = "verify" /\ At(r, "mark")
    /\ temp' = {[row EXCEPT !.verified = TRUE] : row \in temp}
    /\ Mark({o \in {"crossed"} : \E row \in temp : row.otp # copy[r].otp})
    /\ Unlock("otp", r)
    /\ Go(r, "done")
    /\ UNCHANGED <<channel, closed, kind, hooks, replica, copy, session, accounts, compared, entered, used, approvals>>

-------------------------------------------------------------------------------
(* otpless.controller.js: a message starts the approval of a session *)

\* External: the person's WhatsApp message, which may be delivered twice, and
\* whatsappIncomingMessageWebhook's reading of the session.
Message ==
    /\ channel = "mobile" /\ session = "START"
    /\ hooks < MaxHooks
    /\ hooks' = hooks + 1
    /\ Mark({o \in {"twice"} : hooks = 1})
    /\ UNCHANGED <<channel, closed, kind, pc, rows, lock, session, accounts, compared, entered, used, approvals>>

\* updateSession
HookWrites ==
    /\ hooks > 0
    /\ hooks' = hooks - 1
    /\ session' = "RECEIVED"
    /\ UNCHANGED <<channel, closed, kind, pc, rows, lock, accounts, history>>

ApproveLock(r) ==
    /\ kind[r] = "sid" /\ At(r, "idle")
    /\ Lock("approve", r)
    /\ Go(r, "approve")
    /\ UNCHANGED <<channel, closed, kind, hooks, rows, session, accounts, history>>

\* A session that is not there or without a number: the latter keeps the lock.
ApproveRefuse(r) ==
    /\ At(r, "approve")
    /\ \/ session # "RECEIVED" /\ Unlock("approve", r)
       \/ session = "RECEIVED" /\ UNCHANGED lock
    /\ Go(r, "done")
    /\ UNCHANGED <<channel, closed, kind, hooks, rows, session, accounts, history>>

ApproveRead(r) ==
    /\ At(r, "approve") /\ session = "RECEIVED"
    /\ Go(r, "approved")
    /\ UNCHANGED <<channel, closed, kind, hooks, rows, lock, session, accounts, history>>

\* updateSession, unlock and next: putUser
Approve(r) ==
    /\ At(r, "approved")
    /\ session' = "APPROVED"
    /\ approvals' = approvals + 1
    /\ Unlock("approve", r)
    /\ Go(r, "put")
    /\ UNCHANGED <<channel, closed, kind, hooks, rows, accounts, compared, entered, used, odd>>

-------------------------------------------------------------------------------
(* putUser *)

Putting == {r \in Requests : pc[r] \in {"token", "row", "delete", "find", "create", "bonus"}}

PutLock(r) ==
    /\ \/ kind[r] \in {"put", "token"} /\ At(r, "idle")
       \/ kind[r] = "sid" /\ At(r, "put")
    /\ IF kind[r] = "token" THEN UNCHANGED lock ELSE Lock("user", r)
    /\ Mark({o \in {"twoNames"} : \E q \in Putting : "token" \in {kind[q], kind[r]}})
    /\ Go(r, IF kind[r] = "token" THEN "token" ELSE "row")
    /\ UNCHANGED <<channel, closed, kind, hooks, rows, session, accounts, compared, entered, used, approvals>>

\* authenticateEmail, authenticateAppleId
PutToken(r) ==
    /\ At(r, "token")
    /\ Go(r, "find") \/ Go(r, "done")
    /\ UNCHANGED <<channel, closed, kind, hooks, rows, lock, session, accounts, history>>

PutRead(r) ==
    /\ At(r, "row")
    /\ ReadRow(r, "delete")
    /\ UNCHANGED <<channel, closed, kind, hooks, temp, replica, lock, session, accounts, compared, entered, used, approvals>>

Verified(r) == IF kind[r] = "sid" THEN session = "APPROVED" ELSE copy[r] # None /\ copy[r].verified

PutRefuse(r) ==
    /\ At(r, "delete") /\ ~Verified(r)
    /\ Unlock("user", r)
    /\ Go(r, "done")
    /\ UNCHANGED <<channel, closed, kind, hooks, rows, session, accounts, history>>

\* deleteTempUser
PutDelete(r) ==
    /\ At(r, "delete") /\ Verified(r)
    /\ temp' = {}
    /\ used' = [c \in Codes |-> IF kind[r] = "put" /\ c = copy[r].otp THEN used[c] + 1 ELSE used[c]]
    /\ Go(r, "find")
    /\ UNCHANGED <<channel, closed, kind, hooks, replica, copy, lock, session, accounts, compared, entered, approvals, odd>>

\* An account that is there is logged in.
PutLogin(r) ==
    /\ At(r, "find") /\ accounts # <<>>
    /\ Unlock("user", r)
    /\ Go(r, "done")
    /\ UNCHANGED <<channel, closed, kind, hooks, rows, session, accounts, history>>

\* Signups not allowed: the lock is kept.
PutClosed(r) ==
    /\ At(r, "find") /\ accounts = <<>> /\ closed
    /\ Go(r, "done")
    /\ UNCHANGED <<channel, closed, kind, hooks, rows, lock, session, accounts, history>>

\* Mutant: an account is created without looking for one.
PutFindNot(r) ==
    /\ At(r, "find") /\ ~closed
    /\ Go(r, "create")
    /\ UNCHANGED <<channel, closed, kind, hooks, rows, lock, session, accounts, history>>

PutFind(r) ==
    /\ At(r, "find") /\ accounts = <<>> /\ ~closed
    /\ Go(r, "create")
    /\ UNCHANGED <<channel, closed, kind, hooks, rows, lock, session, accounts, history>>

PutCreate(r) ==
    /\ At(r, "create")
    /\ accounts' = Append(accounts, 0)
    /\ copy' = [copy EXCEPT ![r] = None]
    /\ Go(r, "bonus")
    /\ UNCHANGED <<channel, closed, kind, hooks, temp, replica, lock, session, history>>

\* addSignUpTransactions, for the last account created
PutBonus(r) ==
    /\ At(r, "bonus")
    /\ accounts' = [accounts EXCEPT ![Len(accounts)] = @ + 1]
    /\ Unlock("user", r)
    /\ Go(r, "done")
    /\ UNCHANGED <<channel, closed, kind, hooks, rows, session, history>>

\* A query throws, or the process stops with the lock.
PutFails(r) ==
    /\ r \in Putting
    /\ Mark({o \in {"broken"} : At(r, "bonus")})
    /\ Unlock("user", r) \/ UNCHANGED lock
    /\ Go(r, "done")
    /\ UNCHANGED <<channel, closed, kind, hooks, rows, session, accounts, compared, entered, used, approvals>>

-------------------------------------------------------------------------------
(* Time *)

\* External: the replica catches up.
Replicate ==
    /\ replica' = temp
    /\ UNCHANGED <<channel, closed, kind, hooks, pc, temp, copy, lock, session, accounts, history>>

Tick ==
    /\ temp' = {Older(row) : row \in temp}
    /\ replica' = {Older(row) : row \in replica}
    /\ copy' = [r \in Requests |-> Older(copy[r])]
    /\ UNCHANGED <<channel, closed, kind, hooks, pc, lock, session, accounts, history>>

\* 300 s and 60 s
LockExpire ==
    /\ \E l \in Locks :
          /\ lock[l] # None
          /\ lock' = [lock EXCEPT ![l] = None]
          /\ Mark({o \in {"lapsed"} : pc[lock[l]] # "done"})
    /\ UNCHANGED <<channel, closed, kind, hooks, pc, rows, session, accounts, compared, entered, used, approvals>>

Next ==
    \/ \E r \in Requests :
        \/ SendRead(r) \/ SendRefuse(r) \/ SendDelete(r) \/ SendInsert(r)
        \/ VerifyLock(r) \/ VerifyRead(r) \/ VerifyCount(r) \/ VerifyRefuse(r) \/ VerifyRight(r) \/ VerifyDelete(r) \/ VerifyMark(r)
        \/ ApproveLock(r) \/ ApproveRefuse(r) \/ ApproveRead(r) \/ Approve(r)
        \/ PutLock(r) \/ PutToken(r) \/ PutRead(r) \/ PutRefuse(r) \/ PutDelete(r) \/ PutLogin(r) \/ PutClosed(r)
        \/ PutFind(r) \/ PutCreate(r) \/ PutBonus(r) \/ PutFails(r)
    \/ Message \/ HookWrites \/ Replicate \/ Tick \/ LockExpire

Spec == Init /\ [][Next]_vars

-------------------------------------------------------------------------------
(* Properties *)

\* Every variable has its type.
TypeOK ==
    /\ temp \subseteq Row /\ replica \subseteq Row
    /\ copy \in [Requests -> Row \union {None}]
    /\ lock \in [Locks -> Requests \union {None}]
    /\ hooks \in 0 .. MaxHooks /\ accounts \in Seq(Nat) /\ odd \subseteq Odds

\* A person has one account, unless putUser's lock lapsed or did not cover the two
\* names (the email's and the token's) under which it was asked for.
OneAccount == Len(accounts) <= 1 \/ odd \intersect {"lapsed", "twoNames"} # {}

\* An account has its joining bonus, once, when no sign-up is under way, unless one
\* broke off between the account and the bonus.
BonusOnce ==
    \A i \in DOMAIN accounts :
        accounts[i] = 1 \/ odd \intersect {"lapsed", "twoNames", "broken"} # {}
            \/ (accounts[i] = 0 /\ \E r \in Requests : pc[r] = "bonus")

\* A code is compared at most twice: the third attempt is refused whatever is entered,
\* unless the attempts were counted from a replica that lagged, without a lock, or in
\* the row of another code: two sends leave two rows, and the count of the one read
\* replaces that of both.
RetriesBounded ==
    \A c \in Codes :
        compared[c] < RetryLimit \/ odd \intersect {"stale", "lapsed", "unlocked", "twoRows"} # {}

\* A row is verified when its own code was entered, unless the row compared had been
\* replaced by then.
VerifiedByOwnCode ==
    \A row \in temp : row.verified => row.otp \in entered \/ "crossed" \in odd

\* A verified code is exchanged for one sign-in, unless the replica lagged or the lock
\* lapsed.
CodeUsedOnce == \A c \in Codes : used[c] <= 1 \/ odd \intersect {"stale", "lapsed"} # {}

\* A person gets one account and one joining bonus, but for the overlaps the two
\* properties name.
SignedUpOnce == OneAccount /\ BonusOnce

\* A code is compared less often than the limit and used once, and who is verified
\* has entered one.
CodeHolds == RetriesBounded /\ CodeUsedOnce /\ VerifiedByOwnCode
===============================================================================
