------------------------------ MODULE Liquidity ------------------------------
(***************************************************************************)
(* Liquidity of one event (liquidity.provider.controller.js): users add    *)
(* and remove shares of the pool.  A request waits until the engine        *)
(* (external) deletes the key put_call_req_<user>_<event>, and reads the   *)
(* engine's answer under a key that is the user's, not the request's.      *)
(* Every way out of a handler deletes the key, the refusal of a second     *)
(* request included, which deletes that of the first.                      *)
(***************************************************************************)
EXTENDS Integers, Sequences, Functions

CONSTANTS
    Requests,
    Users,      \* liquidity providers
    Shares,     \* shares of each of them to begin with
    None        \* no request

Kinds == {"add", "remove"}

VARIABLES
    kind, user, \* of each request
    pc,         \* per request: idle, passed, set, checked, wait, read, done, refused
    shares,     \* per request, what it adds or removes
    key,        \* per user, the request that set the key or None
    inbox,      \* requests sent to the engine
    tokens,     \* per user, the shares of the pool
    resp,       \* per kind and user, the request the engine's answer is for or None
    answer,     \* per request, the request whose answer it has given or None
    freed,      \* history: requests whose key expired or was deleted by another, or that
                \* were not done when the user's next one set it
    overlapped  \* history: removals checked while another was on its way

vars == <<kind, user, pc, shares, key, inbox, tokens, resp, answer, freed, overlapped>>

Init ==
    /\ kind \in [Requests -> Kinds] /\ user \in [Requests -> Users]
    /\ pc = [r \in Requests |-> "idle"]
    /\ shares = [r \in Requests |-> 0]
    /\ key = [u \in Users |-> None]
    /\ inbox = <<>>
    /\ tokens = [u \in Users |-> Shares]
    /\ resp = [k \in Kinds |-> [u \in Users |-> None]]
    /\ answer = [r \in Requests |-> None]
    /\ freed = {} /\ overlapped = {}

Step(r, from, to) == pc[r] = from /\ pc' = [pc EXCEPT ![r] = to]

Holding == {r \in Requests : pc[r] \in {"set", "checked", "wait"}}
PutKey(u, v, r) ==
    /\ key' = [key EXCEPT ![u] = v]
    /\ freed' = freed \union {o \in {key[u]} \ {None, r} : o \in Holding}

-------------------------------------------------------------------------------
(* validateLiquidityRequest *)

\* The event is halted or closed, the user blocked, or REQUEST_IN_PROGRESS: finally
\* deletes the key, whoever has set it.
Refuse(r) ==
    /\ Step(r, "idle", "refused")
    /\ PutKey(user[r], None, r)
    /\ UNCHANGED <<kind, user, shares, inbox, tokens, resp, answer, overlapped>>

Pass(r) ==
    /\ key[user[r]] = None
    /\ Step(r, "idle", "passed")
    /\ UNCHANGED <<kind, user, shares, key, inbox, tokens, resp, answer, freed, overlapped>>

SetKey(r) ==
    /\ Step(r, "passed", "set")
    /\ key' = [key EXCEPT ![user[r]] = r]
    /\ freed' = freed \union
           {o \in Requests \ {r} : user[o] = user[r] /\ pc[o] \in {"set", "checked", "wait", "read"}}
    /\ \E n \in 1 .. Shares : shares' = [shares EXCEPT ![r] = n]
    /\ UNCHANGED <<kind, user, inbox, tokens, resp, answer, overlapped>>

Pool == FoldFunctionOnSet(+, 0, tokens, Users)

\* validateAddLiquidityRequest, and what it refuses: a wallet too small, an amount out
\* of range.
Reject(r) ==
    /\ Step(r, "set", "refused")
    /\ PutKey(user[r], None, r)
    /\ UNCHANGED <<kind, user, shares, inbox, tokens, resp, answer, overlapped>>

CheckAdd(r) ==
    /\ kind[r] = "add" /\ Step(r, "set", "checked")
    /\ UNCHANGED <<kind, user, shares, key, inbox, tokens, resp, answer, freed, overlapped>>

OnTheWay == {r \in Requests : kind[r] = "remove" /\ (pc[r] = "checked" \/ \E i \in DOMAIN inbox : inbox[i] = r)}

\* Mutant: the pool's last share can be removed.
CheckRemoveAll(r) ==
    /\ kind[r] = "remove" /\ Step(r, "set", "checked")
    /\ tokens[user[r]] >= shares[r]
    /\ overlapped' = overlapped \union {o \in {r} : OnTheWay # {}}
    /\ UNCHANGED <<kind, user, shares, key, inbox, tokens, resp, answer, freed>>

\* validateRemoveLiquidityRequest: not more than the user has, and not the whole pool.
CheckRemove(r) ==
    /\ kind[r] = "remove" /\ Step(r, "set", "checked")
    /\ tokens[user[r]] >= shares[r]
    /\ Pool > shares[r]
    /\ overlapped' = overlapped \union {o \in {r} : OnTheWay # {}}
    /\ UNCHANGED <<kind, user, shares, key, inbox, tokens, resp, answer, freed>>

-------------------------------------------------------------------------------
(* addLiquidity and removeLiquidity *)

Send(r) ==
    /\ Step(r, "checked", "wait")
    /\ inbox' = Append(inbox, r)
    /\ UNCHANGED <<kind, user, shares, key, tokens, resp, answer, freed, overlapped>>

\* A throw before the message: the key is deleted.
Fail(r) ==
    /\ Step(r, "checked", "refused")
    /\ PutKey(user[r], None, r)
    /\ UNCHANGED <<kind, user, shares, inbox, tokens, resp, answer, overlapped>>

\* A missing answer is a success, too.
ReadAnswer(r) ==
    /\ key[user[r]] = None
    /\ Step(r, "wait", "read")
    /\ answer' = [answer EXCEPT ![r] = resp[kind[r]][user[r]]]
    /\ PutKey(user[r], None, r)
    /\ UNCHANGED <<kind, user, shares, inbox, tokens, resp, overlapped>>

DropAnswer(r) ==
    /\ Step(r, "read", "done")
    /\ resp' = [resp EXCEPT ![kind[r]][user[r]] = None]
    /\ PutKey(user[r], None, r)
    /\ UNCHANGED <<kind, user, shares, inbox, tokens, answer, overlapped>>

\* External: the engine changes the shares, leaves its answer and deletes the key.
Engine ==
    /\ inbox # <<>>
    /\ inbox' = Tail(inbox)
    /\ LET r == Head(inbox) IN
       /\ tokens' = [tokens EXCEPT ![user[r]] =
                        IF kind[r] = "add" THEN @ + shares[r] ELSE @ - shares[r]]
       /\ resp' = [resp EXCEPT ![kind[r]][user[r]] = r]
       /\ PutKey(user[r], None, r)
    /\ UNCHANGED <<kind, user, pc, shares, answer, overlapped>>

\* 60 s
KeyExpire ==
    /\ \E u \in Users : key[u] # None /\ PutKey(u, None, None)
    /\ UNCHANGED <<kind, user, pc, shares, inbox, tokens, resp, answer, overlapped>>

Next ==
    \/ \E r \in Requests :
        \/ Refuse(r) \/ Pass(r) \/ SetKey(r) \/ Reject(r) \/ CheckAdd(r) \/ CheckRemove(r)
        \/ Send(r) \/ Fail(r) \/ ReadAnswer(r) \/ DropAnswer(r)
    \/ Engine \/ KeyExpire

Spec == Init /\ [][Next]_vars

-------------------------------------------------------------------------------
(* Properties *)

\* Every variable has its type.
TypeOK ==
    /\ pc \in [Requests -> {"idle", "passed", "set", "checked", "wait", "read", "done", "refused"}]
    /\ shares \in [Requests -> 0 .. Shares] /\ tokens \in [Users -> Int]
    /\ key \in [Users -> Requests \union {None}]
    /\ answer \in [Requests -> Requests \union {None}]

\* A request answers with what the engine did for it, unless a request of its user lost
\* its key, or was not done (it polls once a second) when the next one set it.
OwnAnswer ==
    \A r \in Requests :
        pc[r] \in {"read", "done"} /\ answer[r] # r => \E o \in freed : user[o] = user[r]

\* Nobody removes more shares than are his, unless two requests of his met.
OwnShares ==
    \A u \in Users : tokens[u] < 0 => \E o \in freed : user[o] = u

\* The pool keeps a share, unless a removal was checked while another was on its way.
PoolKeepsLiquidity == Pool > 0 \/ overlapped # {}

\* A user removes only shares of his own, leaves some to the pool and is told about
\* his own request.
LiquidityIsOwn == OwnAnswer /\ OwnShares /\ PoolKeepsLiquidity
===============================================================================
