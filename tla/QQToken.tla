------------------------------- MODULE QQToken -------------------------------
(***************************************************************************)
(* The access token of the QQ bot.  Each HTTP request renews a token about  *)
(* to run out before it is sent, and is sent once more with a new token     *)
(* after QQ refused the old one.  Requests of several tasks run at once and *)
(* share the token and the lock of its renewal.                             *)
(*                                                                         *)
(* Tokens are numbered in the order they are issued; 0 is none yet.         *)
(***************************************************************************)
EXTENDS Naturals, Sequences, SequencesExt

CONSTANTS
  Requesters,  \* the sender, and the WebSocket gateway of botpy
  MaxTrouble   \* bound: times a token runs out or is revoked

ASSUME TokenAssumption == MaxTrouble \in Nat

VARIABLES
  token,       \* the token in use
  due,         \* less than TOKEN_REFRESH_MARGIN_SECONDS are left of it
  revoked,     \* the tokens QQ refuses
  trouble,     \* how often that was
  tokenLock,   \* who holds _token_lock, and then who waits for it
  request      \* the request of each task

tokenVars == <<token, due, revoked, trouble, tokenLock, request>>

\* Where a request is: at the lock, in update_access_token, or on its way, for
\* the first time or again.
Request == [at: {"none", "lock", "update", "http", "again"},
            force: BOOLEAN,  \* QQ refused the token
            before: Nat,     \* the token when the renewal began
            used: Nat,       \* the token sent along
            refusedWith: Nat, \* history: the token it was refused with
            arrived: Nat]     \* history: the token when it came to the lock

NoRequest ==
  [at |-> "none", force |-> FALSE, before |-> 0, used |-> 0, refusedWith |-> 0,
   arrived |-> 0]

TokenInit ==
  /\ token = 0 /\ due = FALSE /\ revoked = {} /\ trouble = 0
  /\ tokenLock = <<>>
  /\ request = [r \in Requesters |-> NoRequest]

-----------------------------------------------------------------------------

SetRequest(r, new) == request' = [request EXCEPT ![r] = new]

\* The request is sent with the token of this moment, after the renewal it needed,
\* whose local variables are gone.
Sent(was, now) ==
  [was EXCEPT !.at = IF was.force THEN "again" ELSE "http", !.used = now,
              !.before = 0, !.arrived = 0]

\* _refresh_access_token as far as its first wait: for the lock, or, if that is
\* free, for update_access_token.
Renewing(r, was, force) ==
  /\ tokenLock' = Append(tokenLock, r)
  /\ SetRequest(r, [was EXCEPT !.force = force, !.before = token,
                               !.arrived = token,
                               !.at = IF tokenLock = <<>> THEN "update" ELSE "lock"])

\* A request begins: _refresh_token_if_expiring, then the request itself.
StartRequest(r) ==
  /\ request[r].at = "none" /\ token # 0
  /\ IF due THEN Renewing(r, NoRequest, FALSE)
            ELSE SetRequest(r, Sent(NoRequest, token)) /\ UNCHANGED tokenLock
  /\ UNCHANGED <<token, due, revoked, trouble>>

\* Without this request, which held the lock or waited for it.
Released(r) ==
  IF r \in Range(tokenLock)
    THEN RemoveAt(tokenLock, CHOOSE i \in DOMAIN tokenLock : tokenLock[i] = r)
    ELSE tokenLock

\* Fault: a request that waited for the lock takes the token for renewed.
AlreadyRenewedByHolder(q) == TRUE

\* Fault: of a refused request it is not looked at what happened during its wait.
RenewedUnlessRefused(q) == ~q.force /\ (token # q.before \/ ~due)

\* What the holder of the lock finds before it renews: another has done so, or,
\* unless QQ refused the token, it is not due any more.
AlreadyRenewed(q) == token # q.before \/ (~q.force /\ ~due)

TakeTokenLock(r) ==
  /\ request[r].at = "lock" /\ tokenLock # <<>> /\ Head(tokenLock) = r
  /\ IF AlreadyRenewed(request[r])
       THEN SetRequest(r, Sent(request[r], token)) /\ tokenLock' = Released(r)
       ELSE SetRequest(r, [request[r] EXCEPT !.at = "update"]) /\ UNCHANGED tokenLock
  /\ UNCHANGED <<token, due, revoked, trouble>>

UpdateToken(r) ==
  /\ request[r].at = "update"
  /\ token' = token + 1 /\ due' = FALSE /\ tokenLock' = Released(r)
  /\ SetRequest(r, Sent(request[r], token'))
  /\ UNCHANGED <<revoked, trouble>>

\* Fault: a request that fails or is cut off does not let go of the lock.
EndRequestHolding(r) == SetRequest(r, NoRequest) /\ UNCHANGED tokenLock

\* The request is over, answered or given up.
EndRequest(r) ==
  /\ SetRequest(r, NoRequest)
  /\ tokenLock' = Released(r)

OnItsWay(r) == request[r].at \in {"http", "again"}
Refused(r) == OnItsWay(r) /\ request[r].used \in revoked

\* QQ refuses the token of a request: once, this asks for a new one.
RefusedOnce(r) ==
  /\ Refused(r) /\ request[r].at = "http"
  /\ Renewing(r, [request[r] EXCEPT !.refusedWith = request[r].used], TRUE)
  /\ UNCHANGED <<token, due, revoked, trouble>>

-----------------------------------------------------------------------------
(* QQ, the clock and the gateway.                                           *)

\* client.start logs in and so sets the first token.
Login ==
  /\ token = 0 /\ token' = 1
  /\ UNCHANGED <<due, revoked, trouble, tokenLock, request>>

Trouble == token # 0 /\ trouble < MaxTrouble /\ trouble' = trouble + 1

RunOut ==
  /\ Trouble /\ ~due /\ due' = TRUE
  /\ UNCHANGED <<token, revoked, tokenLock, request>>

Revoke ==
  /\ Trouble /\ token \notin revoked /\ revoked' = revoked \cup {token}
  /\ UNCHANGED <<token, due, tokenLock, request>>

\* A request of the gateway ends: answered or refused again.
GatewayEnds(r) ==
  /\ OnItsWay(r) /\ ~(Refused(r) /\ request[r].at = "http")
  /\ EndRequest(r) /\ UNCHANGED <<token, due, revoked, trouble>>

GatewayFails(r) ==
  /\ request[r].at = "update"
  /\ EndRequest(r) /\ UNCHANGED <<token, due, revoked, trouble>>
=============================================================================
