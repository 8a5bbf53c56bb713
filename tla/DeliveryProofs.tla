---------------------------- MODULE DeliveryProofs ---------------------------
(***************************************************************************)
(* Proofs about the senders, for every value of the constants.              *)
(***************************************************************************)
EXTENDS DeliveryProperties, SequenceTheorems, TLAPS

-----------------------------------------------------------------------------
(* The invariants of the token.                                             *)

\* Before the first token there are no requests.
NoneBeforeLogin ==
  token = 0 => ~due /\ \A r \in Requesters : request[r].at = "none"

\* A request at the lock compares with the token there was when it came; whoever
\* renews the token found it the same, and refused or still due.
ComparesArrival ==
  \A r \in Requesters :
    /\ request[r].at \in {"lock", "update"} => request[r].before = request[r].arrived
    /\ request[r].at = "update" => request[r].before = token /\ (request[r].force \/ due)

\* Tokens a request has to do with were issued; a refused one is not newer than the
\* one it means to replace.
RequestAges ==
  \A r \in Requesters :
    LET q == request[r]
    IN  /\ q.before <= token /\ q.used <= token
        /\ q.at \in {"lock", "update"} /\ q.force => q.refusedWith <= q.before

TokenInv ==
  /\ TokenTypes /\ HolderRenews /\ NoneBeforeLogin /\ ComparesArrival
  /\ RequestAges /\ RetriedWithNewToken

-----------------------------------------------------------------------------
(* The invariants of a delivery to QQ.                                      *)

Active == send.at # "idle"

\* The part a delivery is at is one of its job's; an upload is never of a fallback.
PartPlaced ==
  Active =>
    /\ Len(accepted) = Len(Parts(job)) + 1
    /\ send.part \in 1..Len(Parts(job))
    /\ send.at = "upload" => ~send.fallback /\ ~send.link

\* Only a delivery has requests of the sender.
RequestsOfDelivery == request[Sender].at # "none" => Active

\* Before the link, the parts before the present one are shown, and none after it.
ShownSoFar ==
  Active /\ ~send.link =>
    /\ \A i \in 1..send.part - 1 : accepted[i] > 0
    /\ \A i \in send.part + 1..Len(accepted) : accepted[i] = 0

\* The place of the present part in accepted.
Current == IF send.link THEN Len(accepted) ELSE send.part

\* Without a lost answer the present part is not shown yet.
OnceSoFar ==
  ~lostAnswer =>
    /\ \A i \in DOMAIN accepted : accepted[i] <= 1
    /\ Active => accepted[Current] = 0

\* What was refused so far are uploads that were replaced, and before the link, what
\* the link stands for.
RefusedSoFar ==
  Active =>
    \A c \in audited :
      /\ c[4] = FALSE
      /\ ~send.link => /\ c[1] = "upload" /\ c[2] \in 1..send.part
                       /\ c[2] = send.part => send.fallback

SendInv ==
  /\ SendTypes /\ PartPlaced /\ RequestsOfDelivery /\ ShownSoFar /\ OnceSoFar
  /\ RefusedSoFar /\ Complete

-----------------------------------------------------------------------------
(* The invariants of the deliveries to Telegram.                            *)

\* The message of a call is the forwarder's; the call's text was marked.
CallPlaced ==
  /\ call.id \in 0..Len(chat)
  /\ call.id # 0 => call.at = "call" /\ chat[call.id].sent
  /\ call.at = "call" /\ call.first /\ call.by # Bot => call.text \in marks \cup spoiled

\* What the registry and the history say of the messages.
ChatExplained ==
  /\ answered \subseteq entries \cup forgotten
  /\ \A id \in entries : chat[id].sent
  /\ \A id \in DOMAIN chat :
       /\ chat[id].sent => chat[id].by # Person
       /\ chat[id].marked => chat[id].text \in marks \cup spoiled

TgInv == TgTypes /\ CallPlaced /\ ChatExplained

IInv == TokenInv /\ SendInv /\ TgInv

-----------------------------------------------------------------------------
(* The token.                                                               *)

\* Letting go of the lock leaves the place of whoever else is at its head.
LEMMA LockReleased ==
  ASSUME tokenLock \in Seq(Requesters), NEW r \in Requesters
  PROVE  /\ Released(r) \in Seq(Requesters)
         /\ \A q \in Requesters \ {r} :
              tokenLock # <<>> /\ Head(tokenLock) = q
                => Released(r) # <<>> /\ Head(Released(r)) = q
<1>1. Len(tokenLock) \in Nat /\ DOMAIN tokenLock = 1..Len(tokenLock)
      /\ \A i \in 1..Len(tokenLock) : tokenLock[i] \in Requesters
  BY LenProperties, ElementOfSeq
<1>2. CASE r \in Range(tokenLock)
  <2> DEFINE i == CHOOSE i \in DOMAIN tokenLock : tokenLock[i] = r
             before == SubSeq(tokenLock, 1, i - 1)
             after == SubSeq(tokenLock, i + 1, Len(tokenLock))
  <2>1. i \in 1..Len(tokenLock) /\ tokenLock[i] = r
    BY <1>1, <1>2 DEF Range
  <2> HIDE DEF i
  <2>2. before \in Seq(Requesters) /\ Len(before) = i - 1
        /\ \A k \in 1..i - 1 : before[k] = tokenLock[k]
    <3>1. \A k \in 1..i - 1 : tokenLock[k] \in Requesters
      BY <1>1, <2>1
    <3>2. i - 1 \in Int /\ 1 \in Int
      BY <2>1
    <3> QED
      BY <2>1, <3>1, <3>2, SubSeqProperties
  <2>3. after \in Seq(Requesters)
    <3>1. \A k \in i + 1..Len(tokenLock) : tokenLock[k] \in Requesters
      BY <1>1, <2>1
    <3> QED
      BY <1>1, <2>1, <3>1, SubSeqProperties
  <2>4. Released(r) = before \o after
    BY <1>2 DEF Released, RemoveAt, i
  <2> HIDE DEF before, after
  <2>5. Released(r) \in Seq(Requesters) /\ Len(before \o after) = Len(before) + Len(after)
        /\ Len(before) \in Nat /\ Len(after) \in Nat
        /\ \A k \in 1..Len(before) + Len(after) :
             (before \o after)[k] = IF k <= Len(before) THEN before[k] ELSE after[k - Len(before)]
    BY <2>2, <2>3, <2>4, ConcatProperties, LenProperties
  <2>6. ASSUME NEW q \in Requesters \ {r}, tokenLock # <<>>, Head(tokenLock) = q
        PROVE  Released(r) # <<>> /\ Head(Released(r)) = q
    <3>1. Head(tokenLock) = tokenLock[1]
      OBVIOUS
    <3>2. i # 1
      BY <2>1, <2>6, <3>1
    <3>3. 1 \in 1..Len(before) /\ before[1] = q
      BY <2>1, <2>2, <2>6, <3>1, <3>2
    <3>4. Len(Released(r)) > 0 /\ Released(r)[1] = q
      BY <2>4, <2>5, <3>3
    <3> QED
      BY <2>5, <3>4, EmptySeq
  <2> QED
    BY <2>5, <2>6
<1>3. CASE r \notin Range(tokenLock)
  BY <1>3 DEF Released
<1> QED
  BY <1>2, <1>3

\* Joining the queue at the lock leaves whoever is at its head there.
LEMMA LockJoined ==
  ASSUME tokenLock \in Seq(Requesters), NEW r \in Requesters
  PROVE  /\ Append(tokenLock, r) \in Seq(Requesters)
         /\ Append(tokenLock, r) # <<>>
         /\ tokenLock = <<>> => Head(Append(tokenLock, r)) = r
         /\ tokenLock # <<>> => Head(Append(tokenLock, r)) = Head(tokenLock)
<1>1. /\ Append(tokenLock, r) \in Seq(Requesters)
      /\ Len(Append(tokenLock, r)) = Len(tokenLock) + 1
      /\ \A i \in 1..Len(tokenLock) : Append(tokenLock, r)[i] = tokenLock[i]
      /\ Append(tokenLock, r)[Len(tokenLock) + 1] = r
      /\ Len(tokenLock) \in Nat
  BY AppendProperties, LenProperties
<1>2. tokenLock # <<>> => Len(tokenLock) \in Nat \ {0}
  BY EmptySeq
<1>3. tokenLock = <<>> => Len(tokenLock) = 0
  BY EmptySeq
<1> QED
  BY <1>1, <1>2, <1>3, EmptySeq

\* A change of one request leaves the others.
LEMMA OneRequest ==
  ASSUME request \in [Requesters -> Request], NEW r \in Requesters, NEW new \in Request,
         SetRequest(r, new)
  PROVE  /\ request' \in [Requesters -> Request] /\ request'[r] = new
         /\ \A q \in Requesters : q # r => request'[q] = request[q]
BY DEF SetRequest

\* What is sent is a request with the token in use.
LEMMA SentIs ==
  ASSUME NEW was \in Request, NEW now \in Nat
  PROVE  /\ Sent(was, now) \in Request
         /\ Sent(was, now).at = IF was.force THEN "again" ELSE "http"
         /\ Sent(was, now).used = now /\ Sent(was, now).before = 0
         /\ Sent(was, now).force = was.force
         /\ Sent(was, now).refusedWith = was.refusedWith
BY DEF Sent, Request

\* A change of one request that renews nothing keeps the invariants.
LEMMA RequestMoves ==
  ASSUME TokenInv, NEW r \in Requesters, NEW n \in Request, SetRequest(r, n),
         UNCHANGED <<token, due, revoked>>, trouble' \in 0..MaxTrouble,
         tokenLock' \in Seq(Requesters),
         \A q \in Requesters \ {r} :
           tokenLock # <<>> /\ Head(tokenLock) = q => tokenLock' # <<>> /\ Head(tokenLock') = q,
         n.at = "update" => tokenLock' # <<>> /\ Head(tokenLock') = r,
         n.at # "none" => token # 0,
         n.at = "update" => n.before = token /\ (n.force \/ due),
         n.before <= token /\ n.used <= token,
         n.at \in {"lock", "update"} /\ n.force => n.refusedWith <= n.before,
         n.at = "again" => n.used > n.refusedWith,
         n.at \in {"lock", "update"} => n.before = n.arrived
  PROVE  TokenInv'
<1>1. TokenTypes
  BY DEF TokenInv
<1>2. /\ request' \in [Requesters -> Request] /\ request'[r] = n
      /\ \A q \in Requesters : q # r => request'[q] = request[q]
  BY <1>1, OneRequest DEF TokenTypes
<1>3. TokenTypes'
  BY <1>1, <1>2 DEF TokenTypes
<1>4. HolderRenews'
  <2> SUFFICES ASSUME NEW q \in Requesters, request'[q].at = "update"
               PROVE  tokenLock' # <<>> /\ Head(tokenLock') = q
    BY DEF HolderRenews
  <2>1. CASE q = r
    BY <1>2, <2>1
  <2>2. CASE q # r
    BY <1>2, <2>2 DEF TokenInv, HolderRenews
  <2> QED
    BY <2>1, <2>2
<1>5. NoneBeforeLogin'
  BY <1>2 DEF TokenInv, NoneBeforeLogin
<1>6. ComparesArrival'
  BY <1>2 DEF TokenInv, ComparesArrival
<1>7. RequestAges'
  BY <1>2 DEF TokenInv, RequestAges
<1>8. RetriedWithNewToken'
  BY <1>2 DEF TokenInv, RetriedWithNewToken
<1> QED
  BY <1>3, <1>4, <1>5, <1>6, <1>7, <1>8 DEF TokenInv

LEMMA StartKeeps ==
  ASSUME TokenInv, NEW r \in Requesters, StartRequest(r)
  PROVE  TokenInv'
<1>1. /\ UNCHANGED <<token, due, revoked, trouble>> /\ token # 0
      /\ request[r].at = "none" /\ token \in Nat /\ tokenLock \in Seq(Requesters)
      /\ trouble \in 0..MaxTrouble /\ due \in BOOLEAN
  BY DEF StartRequest, TokenInv, TokenTypes
<1>2. /\ NoRequest \in Request /\ NoRequest.at = "none" /\ NoRequest.force = FALSE
      /\ NoRequest.before = 0 /\ NoRequest.used = 0
  BY DEF NoRequest, Request
<1>3. CASE due
  <2> DEFINE n == [NoRequest EXCEPT !.force = FALSE, !.before = token, !.arrived = token,
                     !.at = IF tokenLock = <<>> THEN "update" ELSE "lock"]
  <2>1. /\ n \in Request /\ n.force = FALSE /\ n.before = token /\ n.used = 0 /\ n.arrived = token
        /\ n.at = IF tokenLock = <<>> THEN "update" ELSE "lock"
    BY <1>1 DEF NoRequest, Request
  <2>2. SetRequest(r, n) /\ tokenLock' = Append(tokenLock, r)
    BY <1>3 DEF StartRequest, Renewing
  <2> HIDE DEF n
  <2>3. /\ tokenLock' \in Seq(Requesters) /\ tokenLock' # <<>>
        /\ tokenLock = <<>> => Head(tokenLock') = r
        /\ tokenLock # <<>> => Head(tokenLock') = Head(tokenLock)
    BY <1>1, <2>2, LockJoined
  <2> QED
    BY <1>1, <1>3, <2>1, <2>2, <2>3, RequestMoves
<1>4. CASE ~due
  <2> DEFINE n == Sent(NoRequest, token)
  <2>1. n \in Request /\ n.at = "http" /\ n.used = token /\ n.before = 0
    BY <1>1, <1>2, SentIs
  <2>2. SetRequest(r, n) /\ tokenLock' = tokenLock
    BY <1>4 DEF StartRequest
  <2> HIDE DEF n
  <2> QED
    BY <1>1, <2>1, <2>2, RequestMoves
<1> QED
  BY <1>1, <1>3, <1>4

LEMMA TakeKeeps ==
  ASSUME TokenInv, NEW r \in Requesters, TakeTokenLock(r)
  PROVE  TokenInv'
<1> DEFINE was == request[r]
<1>1. /\ UNCHANGED <<token, due, revoked, trouble>>
      /\ token \in Nat /\ tokenLock \in Seq(Requesters)
      /\ trouble \in 0..MaxTrouble /\ due \in BOOLEAN
      /\ tokenLock # <<>> /\ Head(tokenLock) = r /\ was.at = "lock" /\ was \in Request
  BY DEF TakeTokenLock, TokenInv, TokenTypes
<1>2. /\ token # 0 /\ was.before <= token /\ was.used <= token
      /\ was.force => was.refusedWith <= was.before
  BY <1>1 DEF TokenInv, NoneBeforeLogin, RequestAges
<1>3. was.before \in Nat /\ was.used \in Nat /\ was.refusedWith \in Nat /\ was.force \in BOOLEAN
  BY <1>1 DEF Request
<1>4. CASE AlreadyRenewed(was)
  <2> DEFINE n == Sent(was, token)
  <2>1. /\ n \in Request /\ n.at = IF was.force THEN "again" ELSE "http"
        /\ n.used = token /\ n.before = 0 /\ n.refusedWith = was.refusedWith
    BY <1>1, SentIs
  <2>2. SetRequest(r, n) /\ tokenLock' = Released(r)
    BY <1>4 DEF TakeTokenLock
  <2> HIDE DEF n
  <2>3. n.at = "again" => n.used > n.refusedWith
    BY <1>1, <1>2, <1>3, <1>4, <2>1 DEF AlreadyRenewed
  <2>4. tokenLock' \in Seq(Requesters)
        /\ \A q \in Requesters \ {r} :
             tokenLock # <<>> /\ Head(tokenLock) = q => tokenLock' # <<>> /\ Head(tokenLock') = q
    BY <1>1, <2>2, LockReleased
  <2>5. n.at # "update" /\ n.at # "lock"
    BY <2>1
  <2> QED
    BY <1>1, <1>2, <2>1, <2>2, <2>3, <2>4, <2>5, RequestMoves
<1>5. CASE ~AlreadyRenewed(was)
  <2> DEFINE n == [was EXCEPT !.at = "update"]
  <2>1. /\ n \in Request /\ n.at = "update" /\ n.used = was.used /\ n.before = was.before
        /\ n.force = was.force /\ n.refusedWith = was.refusedWith /\ n.arrived = was.arrived
    BY <1>1 DEF Request
  <2>2. SetRequest(r, n) /\ tokenLock' = tokenLock
    BY <1>5 DEF TakeTokenLock
  <2>3. n.before = token /\ (n.force \/ due)
    BY <1>5, <2>1 DEF AlreadyRenewed
  <2>4. n.before = n.arrived
    BY <1>1, <2>1 DEF TokenInv, ComparesArrival
  <2> HIDE DEF n, was
  <2> QED
    BY <1>1, <1>2, <2>1, <2>2, <2>3, <2>4, RequestMoves
<1> QED
  BY <1>4, <1>5

LEMMA RefusedKeeps ==
  ASSUME TokenInv, NEW r \in Requesters, RefusedOnce(r)
  PROVE  TokenInv'
<1> DEFINE was == request[r]
           n == [[was EXCEPT !.refusedWith = was.used] EXCEPT
                   !.force = TRUE, !.before = token, !.arrived = token,
                   !.at = IF tokenLock = <<>> THEN "update" ELSE "lock"]
<1>1. /\ UNCHANGED <<token, due, revoked, trouble>>
      /\ token \in Nat /\ tokenLock \in Seq(Requesters)
      /\ trouble \in 0..MaxTrouble
      /\ was.at = "http" /\ was \in Request
  BY DEF RefusedOnce, TokenInv, TokenTypes
<1>2. token # 0 /\ was.before <= token /\ was.used <= token
  BY <1>1 DEF TokenInv, NoneBeforeLogin, RequestAges
<1>3. /\ n \in Request /\ n.force = TRUE /\ n.before = token /\ n.arrived = token /\ n.used = was.used
      /\ n.refusedWith = was.used
      /\ n.at = IF tokenLock = <<>> THEN "update" ELSE "lock"
  BY <1>1 DEF Request
<1>4. SetRequest(r, n) /\ tokenLock' = Append(tokenLock, r)
  BY DEF RefusedOnce, Renewing
<1> HIDE DEF n, was
<1>5. /\ tokenLock' \in Seq(Requesters) /\ tokenLock' # <<>>
      /\ tokenLock = <<>> => Head(tokenLock') = r
      /\ tokenLock # <<>> => Head(tokenLock') = Head(tokenLock)
  BY <1>1, <1>4, LockJoined
<1>6. n.at \in {"lock", "update"}
  BY <1>3
<1> QED
  BY <1>1, <1>2, <1>3, <1>4, <1>5, <1>6, RequestMoves

LEMMA EndKeeps ==
  ASSUME TokenInv, NEW r \in Requesters, EndRequest(r),
         UNCHANGED <<token, due, revoked>>, trouble' \in 0..MaxTrouble
  PROVE  TokenInv'
<1>1. /\ NoRequest \in Request /\ NoRequest.at = "none" /\ NoRequest.force = FALSE
      /\ NoRequest.before = 0 /\ NoRequest.used = 0
  BY DEF NoRequest, Request
<1>2. token \in Nat /\ tokenLock \in Seq(Requesters)
  BY DEF TokenInv, TokenTypes
<1>3. SetRequest(r, NoRequest) /\ tokenLock' = Released(r)
  BY DEF EndRequest
<1>4. tokenLock' \in Seq(Requesters)
      /\ \A q \in Requesters \ {r} :
           tokenLock # <<>> /\ Head(tokenLock) = q => tokenLock' # <<>> /\ Head(tokenLock') = q
  BY <1>2, <1>3, LockReleased
<1> QED
  BY <1>1, <1>2, <1>3, <1>4, RequestMoves

LEMMA UpdateKeeps ==
  ASSUME TokenInv, NEW r \in Requesters, UpdateToken(r)
  PROVE  TokenInv'
<1> DEFINE was == request[r]
           n == Sent(was, token + 1)
<1>1. /\ UNCHANGED <<revoked, trouble>> /\ token' = token + 1 /\ due' = FALSE
      /\ tokenLock' = Released(r) /\ SetRequest(r, n)
      /\ token \in Nat /\ tokenLock \in Seq(Requesters)
      /\ request \in [Requesters -> Request] /\ revoked \subseteq 1..token
      /\ trouble \in 0..MaxTrouble /\ due \in BOOLEAN
      /\ was.at = "update" /\ was \in Request
  BY DEF UpdateToken, TokenInv, TokenTypes
<1>2. /\ was.before = token /\ (was.force \/ due) /\ was.used <= token
      /\ was.force => was.refusedWith <= was.before
  BY <1>1 DEF TokenInv, ComparesArrival, RequestAges
<1>3. \A q \in Requesters \ {r} : request[q].at # "update"
  BY <1>1 DEF TokenInv, HolderRenews
<1>4. was.before \in Nat /\ was.used \in Nat /\ was.refusedWith \in Nat /\ was.force \in BOOLEAN
  BY <1>1 DEF Request
<1>4a. token + 1 \in Nat
  BY <1>1
<1>4b. was \in Request
  BY <1>1
<1> HIDE DEF was
<1>5. /\ n \in Request /\ n.at = IF was.force THEN "again" ELSE "http"
      /\ n.used = token + 1 /\ n.before = 0 /\ n.refusedWith = was.refusedWith
  BY <1>4a, <1>4b, SentIs
<1> HIDE DEF n, was
<1>7. /\ request' \in [Requesters -> Request] /\ request'[r] = n
      /\ \A q \in Requesters : q # r => request'[q] = request[q]
  BY <1>1, <1>5, OneRequest
<1>8. tokenLock' \in Seq(Requesters)
  BY <1>1, LockReleased
<1>9. TokenTypes'
  <2>1. 1..token \subseteq 1..(token + 1)
    BY <1>1
  <2>2. revoked' \subseteq 1..token' /\ token' \in Nat
    BY <1>1, <2>1
  <2>3. due' \in BOOLEAN
    BY <1>1, Zenon
  <2> QED
    BY <1>1, <1>7, <1>8, <2>2, <2>3 DEF TokenTypes
<1>10. \A q \in Requesters : request'[q].at # "update"
  BY <1>3, <1>5, <1>7
<1>11. HolderRenews' /\ ComparesArrival'
  BY <1>5, <1>7, <1>10 DEF HolderRenews, ComparesArrival, TokenInv
<1>12. NoneBeforeLogin'
  BY <1>1 DEF NoneBeforeLogin
<1>13. \A q \in Requesters : request[q].before \in Nat /\ request[q].used \in Nat
  BY <1>1 DEF Request
<1>14. RequestAges'
  <2> SUFFICES ASSUME NEW q \in Requesters
               PROVE  /\ request'[q].before <= token' /\ request'[q].used <= token'
                      /\ request'[q].at \in {"lock", "update"} /\ request'[q].force
                           => request'[q].refusedWith <= request'[q].before
    BY DEF RequestAges
  <2>1. CASE q = r
    BY <1>1, <1>2, <1>4, <1>5, <1>7, <2>1
  <2>2. CASE q # r
    <3>1. /\ request[q].before <= token /\ request[q].used <= token
          /\ request[q].at \in {"lock", "update"} /\ request[q].force
               => request[q].refusedWith <= request[q].before
      BY DEF TokenInv, RequestAges
    <3> QED
      BY <1>1, <1>7, <1>13, <2>2, <3>1
  <2> QED
    BY <2>1, <2>2
<1>15. RetriedWithNewToken'
  BY <1>1, <1>2, <1>4, <1>5, <1>7 DEF TokenInv, RetriedWithNewToken
<1> QED
  BY <1>9, <1>11, <1>12, <1>14, <1>15 DEF TokenInv

LEMMA QQChangesKeep ==
  ASSUME TokenInv, Login \/ RunOut \/ Revoke
  PROVE  TokenInv'
<1>1. /\ UNCHANGED <<tokenLock, request>>
      /\ token \in Nat /\ due \in BOOLEAN /\ trouble \in 0..MaxTrouble
      /\ revoked \subseteq 1..token /\ TokenTypes
  BY DEF Login, RunOut, Revoke, TokenInv, TokenTypes
<1>2. \A q \in Requesters : request[q] \in Request
  BY <1>1 DEF TokenTypes
<1>4. CASE Login
  <2>1. /\ token = 0 /\ token' = 1 /\ UNCHANGED <<due, revoked, trouble>>
        /\ ~due /\ \A q \in Requesters : request[q].at = "none"
    BY <1>4 DEF Login, TokenInv, NoneBeforeLogin
  <2>2. TokenTypes'
    BY <1>1, <2>1 DEF TokenTypes
  <2>3. HolderRenews' /\ NoneBeforeLogin' /\ ComparesArrival' /\ RetriedWithNewToken'
    BY <1>1, <2>1 DEF HolderRenews, NoneBeforeLogin, ComparesArrival, RetriedWithNewToken
  <2>4. RequestAges'
    BY <1>1, <1>2, <2>1 DEF RequestAges, TokenInv, Request
  <2> QED
    BY <2>2, <2>3, <2>4 DEF TokenInv
<1>5. CASE RunOut \/ Revoke
  <2>1. /\ token' = token /\ token # 0 /\ trouble' \in 0..MaxTrouble
        /\ revoked' \subseteq 1..token /\ due' \in BOOLEAN /\ (due => due')
    <3>1. Trouble /\ UNCHANGED token /\ trouble' \in 0..MaxTrouble
      BY <1>1, <1>5, TokenAssumption DEF RunOut, Revoke, Trouble
    <3>2. CASE RunOut
      <4>1. ~due /\ due' /\ due' \in BOOLEAN
        BY <3>2, Zenon DEF RunOut
      <4>2. /\ token' = token /\ token # 0 /\ revoked' \subseteq 1..token
        BY <1>1, <3>1, <3>2 DEF RunOut, Trouble
      <4> QED
        BY <3>1, <4>1, <4>2, Zenon
    <3>3. CASE Revoke
      <4>1. token \in 1..token
        BY <1>1, <3>1 DEF Trouble
      <4> QED
        BY <1>1, <3>1, <3>3, <4>1 DEF Revoke, Trouble
    <3> QED
      BY <1>5, <3>2, <3>3
  <2>2. TokenTypes'
    BY <1>1, <2>1 DEF TokenTypes
  <2>3. /\ HolderRenews' /\ NoneBeforeLogin' /\ ComparesArrival' /\ RetriedWithNewToken'
        /\ RequestAges'
    BY <1>1, <2>1
       DEF TokenInv, HolderRenews, NoneBeforeLogin, ComparesArrival, RetriedWithNewToken,
           RequestAges
  <2> QED
    BY <2>2, <2>3 DEF TokenInv
<1> QED
  BY <1>4, <1>5

\* Every step of QQ and the sender, for the token.
LEMMA TokenSteps ==
  ASSUME QQNext
  PROVE  \/ \E r \in Requesters :
              \/ StartRequest(r) \/ TakeTokenLock(r) \/ UpdateToken(r) \/ RefusedOnce(r)
              \/ /\ EndRequest(r) /\ UNCHANGED <<token, due, revoked>>
                 /\ UNCHANGED trouble \/ Trouble
         \/ Login \/ RunOut \/ Revoke \/ UNCHANGED tokenVars
<1>1. Sender \in Requesters
  BY SenderAssumption
<1>2. CASE \E j \in QQJobs : Deliver(j)
  BY <1>2 DEF Deliver, tokenVars
<1>3. CASE Try
  BY <1>1, <1>3 DEF Try
<1>4. CASE Uploaded \/ Posted \/ MarkdownRefused \/ RequestFails \/ AuditRefuses \/ AnswerLost
  BY <1>1, <1>4 DEF Uploaded, Posted, MarkdownRefused, RequestFails, AuditRefuses, AnswerLost,
                    Answered, Environment
<1>5. CASE NoToken \/ QQTimeOut
  BY <1>1, <1>5 DEF NoToken, QQTimeOut, Environment
<1>6. CASE \E r \in Requesters : TokenStep(r)
  BY <1>6 DEF TokenStep, GatewayEnds, Gateway
<1>7. CASE TokenEnvironment
  BY <1>7 DEF TokenEnvironment, GatewayFails, Gateway
<1>8. CASE RememberSession \/ CleanUpMedia
  BY <1>8 DEF RememberSession, CleanUpMedia, tokenVars
<1> QED
  BY <1>2, <1>3, <1>4, <1>5, <1>6, <1>7, <1>8 DEF QQNext, SenderStep

LEMMA TokenKept ==
  ASSUME TokenInv, QQNext \/ UNCHANGED tokenVars
  PROVE  TokenInv'
<1>1. trouble \in 0..MaxTrouble /\ (UNCHANGED trouble \/ Trouble => trouble' \in 0..MaxTrouble)
  BY TokenAssumption DEF TokenInv, TokenTypes, Trouble
<1>2. CASE UNCHANGED tokenVars
  BY <1>2
     DEF tokenVars, TokenInv, TokenTypes, HolderRenews, NoneBeforeLogin, ComparesArrival,
         RequestAges, RetriedWithNewToken
<1> QED
  BY <1>1, <1>2, TokenSteps, StartKeeps, TakeKeeps, UpdateKeeps, RefusedKeeps, EndKeeps,
     QQChangesKeep

-----------------------------------------------------------------------------
(* A delivery to QQ.                                                        *)

LEMMA JobParts ==
  \A j \in QQJobs \cup {NoJob} : Len(Parts(j)) \in Nat \ {0}
<1> SUFFICES ASSUME NEW j \in QQJobs \cup {NoJob}
             PROVE  Len(Parts(j)) \in Nat \ {0}
  OBVIOUS
<1> DEFINE Kinds == {"text", "image", "file"}
<1>1. j.media \in Seq({"image", "file"})
  <2>1. CASE j = NoJob
    BY <2>1, EmptySeq DEF NoJob
  <2>2. CASE j \in QQJobs
    BY <2>2, SenderAssumption DEF QQJob
  <2> QED
    BY <2>1, <2>2
<1>2. /\ j.media \in Seq(Kinds) /\ <<"text">> \in Seq(Kinds) /\ Len(<<"text">>) = 1
      /\ Len(j.media) \in Nat /\ (j.media # <<>> => Len(j.media) # 0)
  BY <1>1, SeqMonotonic, EmptySeq, LenProperties
<1>3. Len(<<"text">> \o j.media) = 1 + Len(j.media)
  BY <1>2, ConcatProperties
<1> QED
  BY <1>2, <1>3 DEF Parts

LEMMA IdleIs ==
  /\ Idle \in Send /\ Idle.at = "idle" /\ Idle.part = 0 /\ Idle.attempt = 1
  /\ Idle.fallback = FALSE /\ Idle.link = FALSE
BY SenderAssumption DEF Idle, Send

\* The delivery turns to part p, for the first time.
Turned(p, link) ==
  /\ send' \in Send /\ send'.at \in {"upload", "post"} /\ send'.part = p
  /\ send'.link = link /\ send'.fallback = FALSE /\ (send'.at = "upload" => ~link)
  /\ result' = "none"

LEMMA TurnToIs ==
  ASSUME NEW j, NEW p \in Nat, NEW link \in BOOLEAN, TurnTo(j, p, link)
  PROVE  (send' = Idle /\ result' = "failed") \/ Turned(p, link)
<1>1. CASE j.scene = "channel" /\ ~sessionKnown /\ ~AllowWithoutMsgId
  BY <1>1 DEF TurnTo, End
<1>2. CASE ~(j.scene = "channel" /\ ~sessionKnown /\ ~AllowWithoutMsgId)
  <2> DEFINE at == IF j.scene = "group" /\ ~link /\ Parts(j)[p] # "text"
                     THEN "upload" ELSE "post"
  <2>1. /\ send' = [Idle EXCEPT !.at = at, !.part = p, !.link = link]
        /\ result' = "none"
    BY <1>2 DEF TurnTo
  <2>2. at \in {"upload", "post"} /\ (at = "upload" => ~link)
    OBVIOUS
  <2> HIDE DEF at
  <2>3. send' = [at |-> at, part |-> p, attempt |-> 1, fallback |-> FALSE, link |-> link]
    BY <2>1 DEF Idle
  <2>4. send' \in Send
    BY <2>2, <2>3, SenderAssumption DEF Send
  <2>5. send'.at = at /\ send'.part = p /\ send'.link = link /\ send'.fallback = FALSE
    BY <2>3, Zenon
  <2> QED
    BY <2>1, <2>2, <2>4, <2>5 DEF Turned
<1> QED
  BY <1>1, <1>2

\* The delivery goes on with the part it is at; replaced: with its replacement.
Stays(replaced) ==
  /\ send' \in Send /\ send'.at # "idle"
  /\ send'.part = send.part /\ send'.link = send.link /\ result' = result
  /\ send'.at = "upload" => send.at = "upload" /\ ~replaced
  /\ send'.fallback = IF replaced THEN TRUE ELSE send.fallback
  /\ replaced => send.at = "upload"

LEMMA FailIs ==
  ASSUME send \in Send, Active, NEW error, Fail(error)
  PROVE  \/ error # "audit" /\ Stays(FALSE)
         \/ Stays(TRUE)
         \/ error = "audit" /\ ~send.link /\ send.at # "upload" /\ Turned(1, TRUE)
         \/ send' = Idle /\ result' = "failed"
<1>1. /\ send.at \in {"idle", "upload", "post", "plain"} /\ send.part \in Nat
      /\ send.attempt \in 1..MaxAttempts /\ send.fallback \in BOOLEAN /\ send.link \in BOOLEAN
      /\ send.at # "idle" /\ MaxAttempts \in Nat \ {0}
  BY SenderAssumption DEF Send, Active
<1>2. CASE Retryable(error) /\ AttemptsLeft
  <2>1. send' = AnotherAttempt /\ result' = result /\ error # "audit"
    BY <1>2 DEF Fail, Retryable
  <2>2. send.attempt + 1 \in 1..MaxAttempts
    BY <1>1, <1>2 DEF AttemptsLeft
  <2> DEFINE at == IF send.at = "plain" THEN "post" ELSE send.at
  <2>3. send' = [send EXCEPT !.attempt = send.attempt + 1, !.at = at]
    BY <2>1 DEF AnotherAttempt, Send
  <2>4. at \in {"upload", "post"} /\ (at = "upload" <=> send.at = "upload")
    BY <1>1
  <2> HIDE DEF at
  <2>5. /\ send' \in Send /\ send'.at = at /\ send'.part = send.part /\ send'.link = send.link
        /\ send'.fallback = send.fallback
    BY <2>2, <2>3, <2>4 DEF Send
  <2> QED
    BY <2>1, <2>4, <2>5 DEF Stays
<1>3. CASE ~(Retryable(error) /\ AttemptsLeft) /\ send.at = "upload" /\ error \in {"server", "audit"}
  <2>1. send' = [send EXCEPT !.at = "post", !.attempt = 1, !.fallback = TRUE] /\ result' = result
    BY <1>3 DEF Fail, AfterUpload
  <2>2. send' = [at |-> "post", part |-> send.part, attempt |-> 1, fallback |-> TRUE,
                 link |-> send.link]
    BY <2>1 DEF Send
  <2>3. send' \in Send
    BY <1>1, <2>2 DEF Send
  <2>4. /\ send'.at = "post" /\ send'.part = send.part /\ send'.link = send.link
        /\ send'.fallback = TRUE
    BY <2>2, Zenon
  <2> QED
    BY <1>3, <2>1, <2>3, <2>4 DEF Stays
<1>4. CASE /\ ~(Retryable(error) /\ AttemptsLeft)
           /\ ~(send.at = "upload" /\ error \in {"server", "audit"})
  <2>1. CASE error = "audit" /\ LinkFallback /\ job.link /\ ~send.link
    <3>1. TurnTo(job, 1, TRUE)
      BY <1>4, <2>1 DEF Fail
    <3>2. (send' = Idle /\ result' = "failed") \/ Turned(1, TRUE)
      BY <3>1, TurnToIs
    <3> QED
      BY <1>4, <2>1, <3>2
  <2>2. CASE ~(error = "audit" /\ LinkFallback /\ job.link /\ ~send.link)
    BY <1>4, <2>2 DEF Fail, End
  <2> QED
    BY <2>1, <2>2
<1> QED
  BY <1>2, <1>3, <1>4

LEMMA AcceptedIs ==
  ASSUME SendInv
  PROVE  /\ Len(accepted) \in Nat /\ DOMAIN accepted = 1..Len(accepted)
         /\ \A i \in 1..Len(accepted) : accepted[i] \in Nat
         /\ Active => /\ Len(Parts(job)) \in Nat \ {0}
                      /\ Len(accepted) = Len(Parts(job)) + 1
                      /\ send.part \in 1..Len(Parts(job)) /\ Current \in 1..Len(accepted)
<1>1. /\ accepted \in Seq(Nat) /\ Len(Parts(job)) \in Nat \ {0}
  BY JobParts DEF SendInv, SendTypes
<1>2. /\ Len(accepted) \in Nat /\ DOMAIN accepted = 1..Len(accepted)
      /\ \A i \in 1..Len(accepted) : accepted[i] \in Nat
  BY <1>1, LenProperties, ElementOfSeq
<1>3. Active => Len(accepted) = Len(Parts(job)) + 1 /\ send.part \in 1..Len(Parts(job))
  BY DEF SendInv, PartPlaced
<1>4. Active => Current \in 1..Len(accepted)
  BY <1>1, <1>2, <1>3 DEF Current
<1> QED
  BY <1>1, <1>2, <1>3, <1>4

\* An accepted post counts for the present part alone.
LEMMA CountedIs ==
  ASSUME SendInv, Active, Counted
  PROVE  /\ accepted' \in Seq(Nat) /\ Len(accepted') = Len(accepted)
         /\ DOMAIN accepted' = 1..Len(accepted)
         /\ accepted'[Current] = accepted[Current] + 1
         /\ \A i \in 1..Len(accepted) : i # Current => accepted'[i] = accepted[i]
<1>1. /\ accepted \in Seq(Nat) /\ Current \in 1..Len(accepted)
      /\ accepted[Current] + 1 \in Nat
  BY AcceptedIs DEF SendInv, SendTypes
<1>2. accepted' = [accepted EXCEPT ![Current] = accepted[Current] + 1]
  BY DEF Counted, Current
<1>3. /\ accepted' \in Seq(Nat) /\ Len(accepted') = Len(accepted)
      /\ \A j \in 1..Len(accepted) :
           accepted'[j] = IF j = Current THEN accepted[Current] + 1 ELSE accepted[j]
  BY <1>1, <1>2, ExceptSeq
<1> QED
  BY <1>1, <1>3, LenProperties

\* What a step may do to the counts: nothing, or count the present part.
Grows == accepted' = accepted \/ Counted

LEMMA GrowsIs ==
  ASSUME SendInv, Active, Grows
  PROVE  /\ accepted' \in Seq(Nat) /\ Len(accepted') = Len(accepted)
         /\ DOMAIN accepted' = 1..Len(accepted)
         /\ \A i \in 1..Len(accepted) : accepted'[i] \in Nat /\ accepted'[i] >= accepted[i]
         /\ \A i \in 1..Len(accepted) : i # Current => accepted'[i] = accepted[i]
         /\ \A i \in 1..Len(accepted) - 2 : accepted'[i + 1] > 0 => accepted'[i] > 0
         /\ ~lostAnswer => \A i \in DOMAIN accepted' : accepted'[i] <= 1
<1>1. /\ Len(accepted) \in Nat /\ DOMAIN accepted = 1..Len(accepted)
      /\ \A i \in 1..Len(accepted) : accepted[i] \in Nat
      /\ Len(accepted) = Len(Parts(job)) + 1 /\ Len(Parts(job)) \in Nat \ {0}
      /\ send.part \in 1..Len(Parts(job)) /\ Current \in 1..Len(accepted)
  BY AcceptedIs
<1>2. /\ accepted' \in Seq(Nat) /\ Len(accepted') = Len(accepted)
      /\ DOMAIN accepted' = 1..Len(accepted)
      /\ \A i \in 1..Len(accepted) : i # Current => accepted'[i] = accepted[i]
      /\ accepted'[Current] = accepted[Current] \/ accepted'[Current] = accepted[Current] + 1
  <2>1. CASE accepted' = accepted
    BY <1>1, <2>1 DEF SendInv, SendTypes
  <2>2. CASE Counted
    BY <2>2, CountedIs
  <2> QED
    BY <2>1, <2>2 DEF Grows
<1>3. \A i \in 1..Len(accepted) : accepted'[i] \in Nat /\ accepted'[i] >= accepted[i]
  BY <1>1, <1>2
<1>4. ASSUME NEW i \in 1..Len(accepted) - 2, accepted'[i + 1] > 0
      PROVE  accepted'[i] > 0
  <2>1. i \in 1..Len(accepted) /\ i + 1 \in 1..Len(accepted) - 1
    BY <1>1
  <2>2. accepted[i + 1] > 0 => accepted[i] > 0
    BY <1>1 DEF SendInv, Complete
  <2>3. CASE i + 1 = Current
    <3>1. ~send.link /\ send.part = i + 1
      BY <1>1, <2>1, <2>3 DEF Current
    <3>2. accepted[i] > 0
      BY <1>1, <3>1 DEF SendInv, ShownSoFar
    <3> QED
      BY <1>1, <1>3, <2>1, <3>2
  <2>4. CASE i + 1 # Current
    <3>1. i + 1 \in 1..Len(accepted)
      BY <1>1, <2>1
    <3>2. accepted'[i + 1] = accepted[i + 1]
      BY <1>2, <2>4, <3>1
    <3>3. accepted[i] > 0
      BY <1>4, <2>2, <3>2
    <3> QED
      BY <1>1, <1>3, <2>1, <3>3
  <2> QED
    BY <2>3, <2>4
<1>5. ASSUME ~lostAnswer, NEW i \in DOMAIN accepted'
      PROVE  accepted'[i] <= 1
  <2>1. accepted[i] <= 1 /\ accepted[Current] = 0
    BY <1>1, <1>2, <1>5 DEF SendInv, OnceSoFar
  <2> QED
    BY <1>1, <1>2, <1>5, <2>1
<1> QED
  BY <1>2, <1>3, <1>4, <1>5

LEMMA DeliveryEndsKeeps ==
  ASSUME SendInv, Active, Grows, send' = Idle, result' \in Results, UNCHANGED <<job, deliveries>>,
         sessionKnown' \in BOOLEAN, gone' \in BOOLEAN, lostAnswer' \in BOOLEAN,
         request'[Sender].at = "none", ~lostAnswer' => ~lostAnswer,
         result' = "ok" => Counted /\ ~send.link /\ send.part = Len(Parts(job)),
         result' = "link" => Counted /\ send.link
  PROVE  SendInv'
<1>1. /\ Len(accepted) \in Nat /\ \A i \in 1..Len(accepted) : accepted[i] \in Nat
      /\ Len(accepted) = Len(Parts(job)) + 1 /\ Len(Parts(job)) \in Nat \ {0}
      /\ Current \in 1..Len(accepted)
  BY AcceptedIs
<1>2. /\ accepted' \in Seq(Nat) /\ Len(accepted') = Len(accepted)
      /\ DOMAIN accepted' = 1..Len(accepted)
      /\ \A i \in 1..Len(accepted) - 2 : accepted'[i + 1] > 0 => accepted'[i] > 0
      /\ ~lostAnswer => \A i \in DOMAIN accepted' : accepted'[i] <= 1
  BY GrowsIs
<1>3. ~Active'
  BY IdleIs DEF Active
<1>4. SendTypes'
  BY <1>2, IdleIs DEF SendInv, SendTypes
<1>5. /\ PartPlaced' /\ RequestsOfDelivery' /\ ShownSoFar' /\ RefusedSoFar'
  BY <1>3 DEF PartPlaced, RequestsOfDelivery, ShownSoFar, RefusedSoFar
<1>6. OnceSoFar'
  BY <1>2, <1>3 DEF OnceSoFar
<1>7. Counted => accepted'[Current] > 0
  BY <1>1, CountedIs
<1>8. Complete'
  <2>1. result' = "ok" => accepted'[Len(accepted) - 1] > 0
    BY <1>1, <1>7 DEF Current
  <2>2. result' = "link" => accepted'[Len(accepted) - 1 + 1] > 0
    BY <1>1, <1>7 DEF Current
  <2> QED
    BY <1>1, <1>2, <2>1, <2>2 DEF Complete
<1> QED
  BY <1>4, <1>5, <1>6, <1>8 DEF SendInv

\* What a step leaves to a delivery under way.
Keeps ==
  /\ UNCHANGED <<job, deliveries, sessionKnown, gone>>
  /\ lostAnswer' \in BOOLEAN /\ (~lostAnswer' => ~lostAnswer)

LEMMA StaysKeeps ==
  ASSUME SendInv, Active, NEW replaced \in BOOLEAN, Stays(replaced), Grows, Keeps,
         accepted' = accepted \/ lostAnswer',
         audited' = audited \/ (replaced /\ audited' = audited \cup {Content})
  PROVE  SendInv'
<1>1. /\ Len(accepted) \in Nat /\ \A i \in 1..Len(accepted) : accepted[i] \in Nat
      /\ DOMAIN accepted = 1..Len(accepted)
      /\ Len(accepted) = Len(Parts(job)) + 1 /\ Len(Parts(job)) \in Nat \ {0}
      /\ send.part \in 1..Len(Parts(job)) /\ Current \in 1..Len(accepted)
  BY AcceptedIs
<1>2. /\ accepted' \in Seq(Nat) /\ Len(accepted') = Len(accepted)
      /\ DOMAIN accepted' = 1..Len(accepted)
      /\ \A i \in 1..Len(accepted) : accepted'[i] \in Nat /\ accepted'[i] >= accepted[i]
      /\ \A i \in 1..Len(accepted) : i # Current => accepted'[i] = accepted[i]
      /\ \A i \in 1..Len(accepted) - 2 : accepted'[i + 1] > 0 => accepted'[i] > 0
      /\ ~lostAnswer => \A i \in DOMAIN accepted' : accepted'[i] <= 1
  BY GrowsIs
<1>3. /\ send' \in Send /\ send'.at # "idle" /\ send'.part = send.part
      /\ send'.link = send.link /\ result' = result /\ job' = job
      /\ send'.at = "upload" => send.at = "upload" /\ ~replaced
      /\ replaced => send.at = "upload"
  BY DEF Stays, Keeps
<1>4. Current' = Current /\ Active'
  BY <1>2, <1>3 DEF Current, Active
<1>5. SendTypes'
  BY <1>2, <1>3 DEF SendInv, SendTypes, Keeps
<1>6. PartPlaced'
  <2>1. send'.at = "upload" => ~send'.fallback /\ ~send'.link
    BY <1>3 DEF Stays, SendInv, PartPlaced
  <2> QED
    BY <1>1, <1>2, <1>3, <2>1 DEF PartPlaced
<1>7. RequestsOfDelivery'
  BY <1>4 DEF RequestsOfDelivery
<1>8. ShownSoFar'
  <2> SUFFICES ASSUME ~send.link
               PROVE  /\ \A i \in 1..send.part - 1 : accepted'[i] > 0
                      /\ \A i \in send.part + 1..Len(accepted) : accepted'[i] = 0
    BY <1>2, <1>3 DEF ShownSoFar
  <2>1. Current = send.part
    BY DEF Current
  <2>2. ASSUME NEW i \in 1..send.part - 1 PROVE accepted'[i] > 0
    <3>1. i \in 1..Len(accepted) /\ i # Current
      BY <1>1, <2>1
    <3>2. accepted[i] > 0
      BY DEF SendInv, ShownSoFar
    <3> QED
      BY <1>2, <3>1, <3>2
  <2>3. ASSUME NEW i \in send.part + 1..Len(accepted) PROVE accepted'[i] = 0
    <3>1. i \in 1..Len(accepted) /\ i # Current
      BY <1>1, <2>1
    <3>2. accepted[i] = 0
      BY DEF SendInv, ShownSoFar
    <3> QED
      BY <1>2, <3>1, <3>2
  <2> QED
    BY <2>2, <2>3
<1>9. OnceSoFar'
  <2> SUFFICES ASSUME ~lostAnswer'
               PROVE  /\ \A i \in DOMAIN accepted' : accepted'[i] <= 1
                      /\ accepted'[Current'] = 0
    BY DEF OnceSoFar
  <2>1. accepted' = accepted /\ ~lostAnswer
    BY DEF Keeps
  <2> QED
    BY <1>2, <1>4, <2>1 DEF SendInv, OnceSoFar
<1>10. RefusedSoFar'
  <2> SUFFICES ASSUME NEW c \in audited'
               PROVE  /\ c[4] = FALSE
                      /\ ~send.link => /\ c[1] = "upload" /\ c[2] \in 1..send.part
                                       /\ c[2] = send.part => send'.fallback
    BY <1>3 DEF RefusedSoFar
  <2>1. CASE c \in audited
    <3>1. /\ c[4] = FALSE
          /\ ~send.link => /\ c[1] = "upload" /\ c[2] \in 1..send.part
                           /\ c[2] = send.part => send.fallback
      BY <2>1 DEF SendInv, RefusedSoFar
    <3>2. send.fallback => send'.fallback
      BY DEF Stays
    <3> QED
      BY <3>1, <3>2
  <2>2. CASE c \notin audited
    <3>1. c = Content /\ replaced
      BY <2>2
    <3>2. send.at = "upload" /\ ~send.link /\ send.link \in BOOLEAN
      BY <1>3, <3>1 DEF SendInv, PartPlaced, SendTypes, Send
    <3>3. c = <<"upload", send.part, send.fallback, send.link>>
      BY <3>1, <3>2 DEF Content
    <3>4. send'.fallback
      BY <3>1 DEF Stays
    <3>5. c[1] = "upload" /\ c[2] = send.part /\ c[4] = send.link
      BY <3>3
    <3> QED
      BY <1>1, <3>2, <3>4, <3>5
  <2> QED
    BY <2>1, <2>2
<1>11. Complete'
  <2>1. result' = "ok" => accepted'[Len(accepted) - 1] > 0
    BY <1>1, <1>2, <1>3 DEF SendInv, Complete
  <2>2. result' = "link" => accepted'[Len(accepted) - 1 + 1] > 0
    BY <1>1, <1>2, <1>3 DEF SendInv, Complete
  <2> QED
    BY <1>1, <1>2, <2>1, <2>2 DEF Complete
<1> QED
  BY <1>5, <1>6, <1>7, <1>8, <1>9, <1>10, <1>11 DEF SendInv

\* The next part is turned to, or, after the audit's refusal, the link.
LEMMA TurnsKeeps ==
  ASSUME SendInv, Active, ~send.link, Keeps, NEW p, NEW link \in BOOLEAN, Turned(p, link),
         \/ ~link /\ p = send.part + 1 /\ p <= Len(Parts(job)) /\ Counted /\ audited' = audited
         \/ link /\ p = 1 /\ accepted' = accepted /\ audited' = audited \cup {Content}
  PROVE  SendInv'
<1>1. /\ Len(accepted) \in Nat /\ \A i \in 1..Len(accepted) : accepted[i] \in Nat
      /\ DOMAIN accepted = 1..Len(accepted)
      /\ Len(accepted) = Len(Parts(job)) + 1 /\ Len(Parts(job)) \in Nat \ {0}
      /\ send.part \in 1..Len(Parts(job)) /\ Current \in 1..Len(accepted)
  BY AcceptedIs
<1>2. /\ accepted' \in Seq(Nat) /\ Len(accepted') = Len(accepted)
      /\ DOMAIN accepted' = 1..Len(accepted)
      /\ \A i \in 1..Len(accepted) : accepted'[i] \in Nat /\ accepted'[i] >= accepted[i]
      /\ \A i \in 1..Len(accepted) : i # Current => accepted'[i] = accepted[i]
      /\ \A i \in 1..Len(accepted) - 2 : accepted'[i + 1] > 0 => accepted'[i] > 0
      /\ ~lostAnswer => \A i \in DOMAIN accepted' : accepted'[i] <= 1
  BY GrowsIs DEF Grows
<1>3. /\ send' \in Send /\ send'.at \in {"upload", "post"} /\ send'.part = p
      /\ send'.link = link /\ (send'.at = "upload" => ~link) /\ result' = "none" /\ job' = job
      /\ ~send'.fallback /\ p \in 1..Len(Parts(job)) /\ Active'
  BY <1>1 DEF Turned, Keeps, Active
<1>4. Current = send.part
  BY DEF Current
<1>5. SendTypes'
  BY <1>2, <1>3 DEF SendInv, SendTypes, Keeps, Results
<1>6. PartPlaced' /\ RequestsOfDelivery'
  BY <1>1, <1>2, <1>3 DEF PartPlaced, RequestsOfDelivery
<1>7. ShownSoFar'
  <2> SUFFICES ASSUME ~link
               PROVE  /\ \A i \in 1..p - 1 : accepted'[i] > 0
                      /\ \A i \in p + 1..Len(accepted) : accepted'[i] = 0
    BY <1>2, <1>3 DEF ShownSoFar
  <2>1. p = send.part + 1 /\ accepted'[Current] = accepted[Current] + 1
    BY CountedIs
  <2>2. ASSUME NEW i \in 1..p - 1 PROVE accepted'[i] > 0
    <3>1. CASE i = send.part
      BY <1>1, <1>4, <2>1, <3>1
    <3>2. CASE i # send.part
      <4>1. i \in 1..send.part - 1 /\ i \in 1..Len(accepted)
        BY <1>1, <2>1, <3>2
      <4>2. accepted[i] > 0
        BY <4>1 DEF SendInv, ShownSoFar
      <4> QED
        BY <1>2, <1>4, <3>2, <4>1, <4>2
    <3> QED
      BY <3>1, <3>2
  <2>3. ASSUME NEW i \in p + 1..Len(accepted) PROVE accepted'[i] = 0
    <3>1. i \in send.part + 1..Len(accepted) /\ i \in 1..Len(accepted) /\ i # send.part
      BY <1>1, <2>1
    <3>2. accepted[i] = 0
      BY <3>1 DEF SendInv, ShownSoFar
    <3> QED
      BY <1>2, <1>4, <3>1, <3>2
  <2> QED
    BY <2>2, <2>3
<1>8. OnceSoFar'
  <2>1. ~lostAnswer' => \A i \in DOMAIN accepted' : accepted'[i] <= 1
    BY <1>2 DEF Keeps
  <2>2. accepted'[Current'] = 0
    <3>1. Current' = (IF link THEN Len(accepted) ELSE p)
      BY <1>2, <1>3 DEF Current
    <3>2. Current' \in send.part + 1..Len(accepted)
      BY <1>1, <3>1
    <3>3. accepted[Current'] = 0
      BY <3>2 DEF SendInv, ShownSoFar
    <3>4. Current' \in 1..Len(accepted) /\ Current' # Current
      BY <1>1, <1>4, <3>2
    <3> QED
      BY <1>2, <3>3, <3>4
  <2> QED
    BY <2>1, <2>2 DEF OnceSoFar
<1>9. RefusedSoFar'
  <2> SUFFICES ASSUME NEW c \in audited'
               PROVE  /\ c[4] = FALSE
                      /\ ~link => c[1] = "upload" /\ c[2] \in 1..p /\ c[2] # p
    BY <1>3 DEF RefusedSoFar
  <2>1. CASE c \in audited
    <3>1. c[4] = FALSE /\ c[1] = "upload" /\ c[2] \in 1..send.part
      BY <2>1 DEF SendInv, RefusedSoFar
    <3> QED
      BY <1>1, <3>1
  <2>2. CASE c \notin audited
    <3>1. c = Content /\ link
      BY <2>2
    <3>2. c[4] = send.link
      BY <3>1 DEF Content
    <3>3. send.link = FALSE
      BY DEF SendInv, SendTypes, Send
    <3> QED
      BY <3>1, <3>2, <3>3
  <2> QED
    BY <2>1, <2>2
<1>10. Complete'
  BY <1>1, <1>2, <1>3 DEF Complete
<1> QED
  BY <1>5, <1>6, <1>7, <1>8, <1>9, <1>10 DEF SendInv

LEMMA DeliverKeeps ==
  ASSUME SendInv, NEW j \in QQJobs, Deliver(j)
  PROVE  SendInv'
<1> DEFINE n == Len(Parts(j))
<1>1. n \in Nat \ {0}
  BY JobParts
<1> HIDE DEF n
<1>2. /\ job' = j /\ gone' = FALSE /\ sessionKnown' = sessionKnown
      /\ deliveries' \in 0..MaxDeliveries
      /\ accepted' = [i \in 1..n + 1 |-> 0] /\ audited' = {} /\ lostAnswer' = FALSE
      /\ request' = request /\ request[Sender].at = "none"
  BY SenderAssumption DEF Deliver, SendInv, SendTypes, RequestsOfDelivery, Active, tokenVars, n
<1>3. (send' = Idle /\ result' = "failed") \/ Turned(1, FALSE)
  BY TurnToIs DEF Deliver
<1>4. /\ accepted' \in Seq(Nat) /\ Len(accepted') = n + 1 /\ DOMAIN accepted' = 1..n + 1
      /\ \A i \in 1..n + 1 : accepted'[i] = 0
  <2>1. accepted' \in [1..n + 1 -> Nat] /\ n + 1 \in Nat /\ \A i \in 1..n + 1 : accepted'[i] = 0
    BY <1>1, <1>2
  <2>2. accepted' \in Seq(Nat)
    BY <2>1
  <2> QED
    BY <2>1, <2>2, LenProperties
<1>5. send' \in Send /\ result' \in {"failed", "none"}
  BY <1>3, IdleIs DEF Turned
<1>6. SendTypes'
  <2>1. gone' \in BOOLEAN /\ lostAnswer' \in BOOLEAN
    BY <1>2, Zenon
  <2> QED
    BY <1>2, <1>4, <1>5, <2>1 DEF SendTypes, SendInv, Results
<1>7. Active' => Turned(1, FALSE)
  BY <1>3, IdleIs DEF Active
<1>8. PartPlaced'
  <2> SUFFICES ASSUME Active'
               PROVE  /\ Len(accepted') = n + 1 /\ send'.part \in 1..n
                      /\ send'.at = "upload" => ~send'.fallback /\ ~send'.link
    BY <1>2 DEF PartPlaced, n
  <2> QED
    BY <1>1, <1>4, <1>7 DEF Turned
<1>9. RequestsOfDelivery'
  BY <1>2 DEF RequestsOfDelivery
<1>10. ShownSoFar'
  BY <1>1, <1>4, <1>7 DEF ShownSoFar, Turned
<1>11. OnceSoFar'
  <2>1. Active' => Current' = 1
    BY <1>7 DEF Current, Turned
  <2> QED
    BY <1>1, <1>4, <2>1 DEF OnceSoFar
<1>12. RefusedSoFar'
  BY <1>2 DEF RefusedSoFar
<1>13. Complete'
  BY <1>1, <1>4, <1>5 DEF Complete
<1> QED
  BY <1>6, <1>8, <1>9, <1>10, <1>11, <1>12, <1>13 DEF SendInv

\* A step that leaves the delivery alone.
LEMMA RestKeeps ==
  ASSUME SendInv, UNCHANGED <<job, send, deliveries, result, accepted, audited, lostAnswer>>,
         sessionKnown' \in BOOLEAN, gone' \in BOOLEAN,
         request'[Sender].at # "none" => Active
  PROVE  SendInv'
<1>1. SendTypes' /\ Active' = Active /\ Current' = Current
  BY DEF SendInv, SendTypes, Active, Current
<1>2. PartPlaced' /\ RequestsOfDelivery' /\ ShownSoFar' /\ OnceSoFar' /\ RefusedSoFar'
  BY <1>1
     DEF SendInv, PartPlaced, RequestsOfDelivery, ShownSoFar, OnceSoFar, RefusedSoFar, Active
<1>3. Complete'
  BY DEF SendInv, Complete
<1> QED
  BY <1>1, <1>2, <1>3 DEF SendInv

\* The request of the sender is over, and nobody else's was touched.
LEMMA RequestOver ==
  ASSUME TokenTypes, NEW r \in Requesters, EndRequest(r)
  PROVE  request'[r].at = "none"
BY DEF EndRequest, SetRequest, NoRequest, TokenTypes

\* A failed attempt, whatever it leaves behind.
LEMMA FailKeeps ==
  ASSUME SendInv, Active, NEW error, Fail(error), Grows, Keeps,
         accepted' = accepted \/ lostAnswer',
         IF error = "audit" THEN audited' = audited \cup {Content} /\ accepted' = accepted
                            ELSE audited' = audited,
         request'[Sender].at = "none"
  PROVE  SendInv'
<1>1. send \in Send
  BY DEF SendInv, SendTypes
<1>2. CASE error # "audit" /\ Stays(FALSE)
  BY <1>2, StaysKeeps
<1>3. CASE Stays(TRUE)
  BY <1>3, StaysKeeps
<1>4. CASE error = "audit" /\ ~send.link /\ send.at # "upload" /\ Turned(1, TRUE)
  BY <1>4, TurnsKeeps
<1>5. CASE send' = Idle /\ result' = "failed"
  BY <1>5, DeliveryEndsKeeps DEF Keeps, SendInv, SendTypes, Results
<1> QED
  BY <1>1, <1>2, <1>3, <1>4, <1>5, FailIs

\* An answer that moves the delivery on.
LEMMA UploadedKeeps ==
  ASSUME SendInv, Active, Keeps, UNCHANGED <<accepted, audited, result>>,
         \/ send.at = "upload" /\ send' = [send EXCEPT !.at = "post", !.attempt = 1]
         \/ send.at = "post" /\ send' = [send EXCEPT !.at = "plain"]
  PROVE  SendInv'
<1>1. send \in Send /\ 1 \in 1..MaxAttempts
  BY SenderAssumption DEF SendInv, SendTypes
<1>2. /\ send' \in Send /\ send'.at \in {"post", "plain"} /\ send'.part = send.part
      /\ send'.link = send.link /\ send'.fallback = send.fallback
  BY <1>1 DEF Send
<1>3. Stays(FALSE)
  BY <1>2 DEF Stays
<1> QED
  BY <1>3, StaysKeeps DEF Grows

LEMMA PostedKeeps ==
  ASSUME SendInv, TokenTypes, Posted
  PROVE  SendInv'
<1>1. /\ Active /\ Counted /\ EndRequest(Sender) /\ UNCHANGED <<audited, lostAnswer>> /\ Keeps
  BY DEF Posted, Answered, Active, Environment, Keeps, SendInv, SendTypes
<1>2. request'[Sender].at = "none"
  BY <1>1, SenderAssumption, RequestOver
<1>3. /\ Len(Parts(job)) \in Nat \ {0} /\ send.part \in 1..Len(Parts(job))
      /\ send.link \in BOOLEAN
  BY <1>1, AcceptedIs DEF SendInv, SendTypes, Send
<1>4. CASE LastPart
  <2>1. send' = Idle /\ result' = IF send.link THEN "link" ELSE "ok"
    BY <1>4 DEF Posted, End
  <2>2. /\ result' \in Results
        /\ result' = "ok" => ~send.link /\ send.part = Len(Parts(job))
        /\ result' = "link" => send.link
    BY <1>4, <2>1 DEF LastPart, Results
  <2> QED
    BY <1>1, <1>2, <2>1, <2>2, DeliveryEndsKeeps DEF Grows, Keeps, SendInv, SendTypes
<1>5. CASE ~LastPart
  <2>1. TurnTo(job, send.part + 1, FALSE)
    BY <1>5 DEF Posted
  <2>2. ~send.link /\ send.part + 1 \in Nat /\ send.part + 1 <= Len(Parts(job))
    BY <1>3, <1>5 DEF LastPart
  <2>3. (send' = Idle /\ result' = "failed") \/ Turned(send.part + 1, FALSE)
    BY <2>1, <2>2, TurnToIs
  <2>4. CASE send' = Idle /\ result' = "failed"
    BY <1>1, <1>2, <2>4, DeliveryEndsKeeps DEF Grows, Keeps, SendInv, SendTypes, Results
  <2>5. CASE Turned(send.part + 1, FALSE)
    BY <1>1, <2>2, <2>5, TurnsKeeps
  <2> QED
    BY <2>3, <2>4, <2>5
<1> QED
  BY <1>4, <1>5

LEMMA SendKept ==
  ASSUME TokenInv, SendInv, QQNext \/ UNCHANGED qqVars
  PROVE  SendInv'
<1>1. /\ TokenTypes /\ Sender \in Requesters /\ sessionKnown \in BOOLEAN /\ gone \in BOOLEAN
      /\ lostAnswer \in BOOLEAN
      /\ (request[Sender].at # "none" => Active)
  BY SenderAssumption DEF TokenInv, SendInv, SendTypes, RequestsOfDelivery
<1>2. CASE \E j \in QQJobs : Deliver(j)
  BY <1>2, DeliverKeeps
<1>3. CASE Try
  <2>1. /\ Active /\ request[Sender].at = "none"
        /\ UNCHANGED <<job, sessionKnown, gone, deliveries, accepted, audited, lostAnswer>>
    BY <1>3 DEF Try, Active
  <2>2. ASSUME NEW error \in {"os", "hard"}, Fail(error), UNCHANGED tokenVars
        PROVE  SendInv'
    <3>1. Keeps /\ Grows /\ request'[Sender].at = "none"
      BY <1>1, <2>1, <2>2 DEF Keeps, Grows, tokenVars
    <3> QED
      BY <2>1, <2>2, <3>1, FailKeeps
  <2>3. CASE UNCHANGED <<send, result>>
    BY <1>1, <2>1, <2>3, RestKeeps
  <2> QED
    BY <1>3, <2>2, <2>3 DEF Try
<1>4. CASE Uploaded \/ MarkdownRefused
  <2>1. Active /\ Keeps /\ UNCHANGED <<accepted, audited, result>>
    BY <1>1, <1>4 DEF Uploaded, MarkdownRefused, Answered, Active, Environment, Keeps
  <2> QED
    BY <1>4, <2>1, UploadedKeeps DEF Uploaded, MarkdownRefused
<1>5. CASE Posted
  BY <1>1, <1>5, PostedKeeps
<1>6. CASE RequestFails \/ AuditRefuses \/ AnswerLost
  <2>1. Active /\ EndRequest(Sender) /\ UNCHANGED Environment
    BY <1>6 DEF RequestFails, AuditRefuses, AnswerLost, Answered, Active
  <2>2. request'[Sender].at = "none"
    BY <1>1, <2>1, RequestOver
  <2>3. CASE RequestFails
    <3>1. PICK error \in {"server", "os", "hard"} : Fail(error)
      BY <2>3 DEF RequestFails
    <3>2. UNCHANGED <<accepted, audited, lostAnswer>> /\ Grows /\ Keeps
      BY <1>1, <2>1, <2>3 DEF RequestFails, Grows, Keeps, Environment
    <3> QED
      BY <2>1, <2>2, <3>1, <3>2, FailKeeps
  <2>4. CASE AuditRefuses
    <3>1. accepted' = accepted /\ audited' = audited \cup {Content} /\ Fail("audit")
      BY <2>4 DEF AuditRefuses
    <3>2. Grows /\ Keeps
      BY <1>1, <2>1, <2>4 DEF AuditRefuses, Grows, Keeps, Environment
    <3> QED
      BY <2>1, <2>2, <3>1, <3>2, FailKeeps
  <2>5. CASE AnswerLost
    <3>1. audited' = audited /\ lostAnswer' = TRUE /\ Fail("os") /\ Counted
      BY <2>5 DEF AnswerLost
    <3>2. lostAnswer' \in BOOLEAN /\ lostAnswer'
      BY <3>1, Zenon
    <3>3. Grows /\ Keeps
      BY <1>1, <2>1, <3>1, <3>2 DEF Grows, Keeps, Environment
    <3> QED
      BY <2>1, <2>2, <3>1, <3>2, <3>3, FailKeeps
  <2> QED
    BY <1>6, <2>3, <2>4, <2>5
<1>7. CASE NoToken
  <2>1. /\ EndRequest(Sender) /\ UNCHANGED <<Environment, accepted, audited, lostAnswer>>
        /\ \E error \in {"os", "hard"} : Fail(error)
        /\ request[Sender].at # "none"
    BY <1>7 DEF NoToken
  <2>2. /\ request'[Sender].at = "none" /\ Active /\ Grows /\ Keeps
    BY <1>1, <2>1, RequestOver DEF Grows, Keeps, Environment
  <2>3. PICK error \in {"os", "hard"} : Fail(error)
    BY <2>1
  <2> QED
    BY <2>1, <2>2, <2>3, FailKeeps
<1>8. CASE QQTimeOut
  <2>1. /\ EndRequest(Sender) /\ UNCHANGED <<Environment, accepted, audited, lostAnswer>>
        /\ send' = Idle /\ result' = "timeout" /\ Active
    BY <1>8 DEF QQTimeOut, End, Active
  <2>2. request'[Sender].at = "none"
    BY <1>1, <2>1, RequestOver
  <2> QED
    BY <1>1, <2>1, <2>2, DeliveryEndsKeeps DEF Grows, Environment, Results
<1>9. CASE (\E r \in Requesters : TokenStep(r)) \/ TokenEnvironment
  <2>1. UNCHANGED sendVars
    BY <1>9 DEF TokenStep, TokenEnvironment
  <2>2. request'[Sender].at # "none" => request[Sender].at # "none"
    <3>1. request \in [Requesters -> Request]
      BY <1>1 DEF TokenTypes
    <3>2. ASSUME NEW r \in Requesters, TokenStep(r)
          PROVE  request'[Sender].at # "none" => request[Sender].at # "none"
      <4>1. TakeTokenLock(r) \/ UpdateToken(r) \/ RefusedOnce(r)
              => request[r].at # "none"
        BY DEF TakeTokenLock, UpdateToken, RefusedOnce
      <4>2. r # Sender \/ TakeTokenLock(r) \/ UpdateToken(r) \/ RefusedOnce(r)
        BY <3>2 DEF TokenStep, Gateway
      <4>3. \E new : SetRequest(r, new)
        BY <3>2 DEF TokenStep, TakeTokenLock, UpdateToken, RefusedOnce, Renewing, GatewayEnds,
                    EndRequest
      <4>4. r # Sender => request'[Sender] = request[Sender]
        BY <1>1, <3>1, <4>3 DEF SetRequest
      <4> QED
        BY <4>1, <4>2, <4>4
    <3>3. CASE TokenEnvironment
      <4>1. CASE Login \/ RunOut \/ Revoke
        BY <4>1 DEF Login, RunOut, Revoke
      <4>2. ASSUME NEW r \in Gateway, StartRequest(r) \/ GatewayFails(r)
            PROVE  request'[Sender] = request[Sender]
        <5>1. \E new : SetRequest(r, new)
          BY <4>2 DEF StartRequest, Renewing, GatewayFails, EndRequest
        <5>2. r # Sender
          BY DEF Gateway
        <5> QED
          BY <1>1, <3>1, <5>1, <5>2 DEF SetRequest
      <4> QED
        BY <3>3, <4>1, <4>2 DEF TokenEnvironment
    <3> QED
      BY <1>9, <3>2, <3>3
  <2> QED
    BY <1>1, <2>1, <2>2, RestKeeps DEF sendVars
<1>10. CASE RememberSession \/ CleanUpMedia \/ UNCHANGED qqVars
  <2>1. /\ UNCHANGED <<request, job, send, deliveries, result, accepted, audited, lostAnswer>>
        /\ sessionKnown' \in BOOLEAN /\ gone' \in BOOLEAN
    BY <1>1, <1>10 DEF RememberSession, CleanUpMedia, qqVars, sendVars, tokenVars
  <2> QED
    BY <1>1, <2>1, RestKeeps
<1> QED
  BY <1>2, <1>3, <1>4, <1>5, <1>6, <1>7, <1>8, <1>9, <1>10 DEF QQNext, SenderStep

-----------------------------------------------------------------------------
(* Deliveries to Telegram.                                                  *)

LEMMA ChatIs ==
  ASSUME TgTypes
  PROVE  /\ Len(chat) \in Nat /\ DOMAIN chat = 1..Len(chat)
         /\ \A id \in 1..Len(chat) : chat[id] \in Message
BY LenProperties, ElementOfSeq DEF TgTypes

LEMMA ChatGrows ==
  ASSUME TgTypes, NEW m \in Message, Arrive(m)
  PROVE  /\ chat' \in Seq(Message) /\ Len(chat') = Len(chat) + 1 /\ Len(chat') <= MaxPosts
         /\ DOMAIN chat' = 1..Len(chat) + 1
         /\ \A id \in 1..Len(chat) : chat'[id] = chat[id]
         /\ chat'[Len(chat) + 1] = m
<1>1. chat \in Seq(Message) /\ Len(chat) \in Nat /\ Len(chat) < MaxPosts /\ chat' = Append(chat, m)
  BY ChatIs DEF TgTypes, Arrive
<1>2. /\ chat' \in Seq(Message) /\ Len(chat') = Len(chat) + 1
      /\ \A id \in 1..Len(chat) : chat'[id] = chat[id]
      /\ chat'[Len(chat) + 1] = m
  BY <1>1, AppendProperties
<1>3. DOMAIN chat' = 1..Len(chat')
  BY <1>2, LenProperties
<1>4. DOMAIN chat' = 1..Len(chat) + 1
  BY <1>2, <1>3
<1>5. Len(chat') <= MaxPosts
  <2>1. Len(chat) \in Nat /\ Len(chat) < MaxPosts /\ MaxPosts \in Nat
    BY <1>1, OutboundAssumption
  <2>2. Len(chat') = Len(chat) + 1
    BY <1>2
  <2> QED
    BY <2>1, <2>2
<1> QED
  BY <1>2, <1>4, <1>5

\* A message arrives that, if it is the forwarder's, is not a person's, and whose
\* marked text is one of the registry or of the history.
LEMMA ArriveKeeps ==
  ASSUME TgInv, NEW m \in Message, Arrive(m), m.sent => m.by # Person,
         m.marked => m.text \in marks \cup spoiled,
         UNCHANGED <<started, heard, handedOn, registry, sends, tgHistory>>,
         \/ call' = call
         \/ call.at = "call" /\ m.sent /\ call' = [call EXCEPT !.id = Len(chat) + 1]
  PROVE  TgInv'
<1>1. TgTypes /\ call \in Call
  BY DEF TgInv, TgTypes
<1>2. /\ chat' \in Seq(Message) /\ Len(chat') = Len(chat) + 1 /\ Len(chat') <= MaxPosts
      /\ DOMAIN chat' = 1..Len(chat) + 1
      /\ \A id \in 1..Len(chat) : chat'[id] = chat[id]
      /\ chat'[Len(chat) + 1] = m
      /\ Len(chat) \in Nat /\ DOMAIN chat = 1..Len(chat)
  BY <1>1, ChatGrows, ChatIs
<1>3. /\ call' \in Call /\ call'.at = call.at /\ call'.first = call.first /\ call'.by = call.by
      /\ call'.text = call.text
      /\ \/ call'.id = call.id
         \/ call'.id = Len(chat) + 1 /\ call.at = "call" /\ m.sent
  BY <1>1, <1>2 DEF Call
<1>4. TgTypes'
  <2>1. 0..Len(chat) \subseteq 0..Len(chat') /\ 1..Len(chat) \subseteq 1..Len(chat')
    BY <1>2
  <2>2. heard \in [Accounts -> 0..Len(chat')] /\ handedOn \in [Accounts -> 0..Len(chat')]
    BY <1>1, <2>1 DEF TgTypes
  <2> QED
    BY <1>1, <1>2, <1>3, <2>1, <2>2 DEF TgTypes, registry
<1>5. CallPlaced'
  <2>1. /\ call.id \in 0..Len(chat)
        /\ call.id # 0 => call.at = "call" /\ chat[call.id].sent
        /\ call.at = "call" /\ call.first /\ call.by # Bot => call.text \in marks \cup spoiled
    BY DEF TgInv, CallPlaced
  <2>2. CASE call'.id = call.id
    <3>1. call'.id \in 0..Len(chat')
      BY <1>2, <2>1, <2>2
    <3>2. call'.id # 0 => call'.at = "call" /\ chat'[call'.id].sent
      BY <1>2, <1>3, <2>1, <2>2
    <3> QED
      BY <1>3, <2>1, <3>1, <3>2 DEF CallPlaced, registry, tgHistory
  <2>3. CASE call'.id = Len(chat) + 1 /\ call.at = "call" /\ m.sent
    <3>1. call'.id \in 0..Len(chat')
      BY <1>2, <2>3
    <3>2. call'.at = "call" /\ chat'[call'.id].sent
      BY <1>2, <1>3, <2>3
    <3> QED
      BY <1>3, <2>1, <3>1, <3>2 DEF CallPlaced, registry, tgHistory
  <2> QED
    BY <1>3, <2>2, <2>3
<1>6. ChatExplained'
  <2>1. /\ answered \subseteq entries \cup forgotten /\ entries \subseteq 1..Len(chat)
        /\ \A id \in entries : chat[id].sent
        /\ \A id \in 1..Len(chat) :
             /\ chat[id].sent => chat[id].by # Person
             /\ chat[id].marked => chat[id].text \in marks \cup spoiled
    BY <1>1, <1>2 DEF TgInv, ChatExplained, TgTypes
  <2>2. \A id \in entries : chat'[id].sent
    BY <1>2, <2>1
  <2>3. ASSUME NEW id \in 1..Len(chat) + 1
        PROVE  /\ chat'[id].sent => chat'[id].by # Person
               /\ chat'[id].marked => chat'[id].text \in marks \cup spoiled
    <3>1. CASE id = Len(chat) + 1
      BY <1>2, <3>1
    <3>2. CASE id \in 1..Len(chat)
      BY <1>2, <2>1, <3>2
    <3> QED
      BY <1>2, <3>1, <3>2
  <2> QED
    BY <1>2, <2>1, <2>2, <2>3 DEF ChatExplained, registry, tgHistory
<1> QED
  BY <1>4, <1>5, <1>6 DEF TgInv

LEMMA BeginKeeps ==
  ASSUME TgInv, NEW j \in TgJobs, SendByAccount(j) \/ SendByBot(j)
  PROVE  TgInv'
<1>1. /\ UNCHANGED <<started, chat, heard, handedOn, entries, answered, forgotten>>
      /\ TgTypes /\ sends' \in 0..MaxSends /\ j.text \in Texts /\ j.more \in Nat
      /\ started \subseteq Accounts
  <2>1. Begin
    BY DEF SendByAccount, SendByBot
  <2>2. TgTypes /\ started \subseteq Accounts /\ sends \in 0..MaxSends /\ MaxSends \in Nat
    BY OutboundAssumption DEF TgInv, TgTypes
  <2>3. sends' \in 0..MaxSends
    BY <2>1, <2>2 DEF Begin
  <2>4. j.text \in Texts /\ j.more \in Nat
    BY OutboundAssumption DEF TgJob
  <2> QED
    BY <2>1, <2>2, <2>3, <2>4 DEF Begin
<1>2. /\ marks' \subseteq Texts
      /\ marks \cup spoiled \subseteq marks' \cup spoiled'
  BY <1>1 DEF SendByAccount, SendByBot, MarkOutgoing, TgTypes
<1>3. ASSUME NEW by \in Accounts \cup {Bot}, BeginCall(by, j)
      PROVE  /\ call' \in Call /\ call'.id = 0 /\ call'.at = "call" /\ call'.by = by
             /\ call'.text = j.text
  BY <1>1, <1>3 DEF BeginCall, NoCall, Call
<1>4. \/ call' = call
      \/ /\ call' \in Call /\ call'.id = 0 /\ call'.at = "call"
         /\ call'.by # Bot => call'.text \in marks'
  <2>1. CASE SendByAccount(j) /\ Resolved(j.via) # {}
    <3>1. PICK a \in Resolved(j.via) : BeginCall(a, j)
      BY <2>1 DEF SendByAccount
    <3>2. a \in Accounts /\ j.text \in marks'
      BY <1>1, <2>1 DEF Resolved, SendByAccount, MarkOutgoing
    <3> QED
      BY <1>3, <3>1, <3>2
  <2>2. CASE SendByAccount(j) /\ Resolved(j.via) = {}
    BY <2>2 DEF SendByAccount
  <2>3. CASE SendByBot(j)
    BY <1>3, <2>3 DEF SendByBot
  <2> QED
    BY <2>1, <2>2, <2>3
<1>5. TgTypes'
  BY <1>1, <1>2, <1>4 DEF TgTypes
<1>6. CallPlaced'
  BY <1>1, <1>2, <1>4, ChatIs DEF TgInv, CallPlaced
<1>7. ChatExplained'
  BY <1>1, <1>2 DEF TgInv, ChatExplained
<1> QED
  BY <1>5, <1>6, <1>7 DEF TgInv

\* What neither sends nor receives: entries and marks move to the history, calls end.
LEMMA OtherStepsKeep ==
  ASSUME TgInv,
         \/ Return \/ TgFails \/ UNCHANGED tgVars \/ \E a \in Accounts : Hear(a) \/ Switch(a)
         \/ \E id \in entries : ForgetEntry(id)
         \/ \E t \in marks : ForgetMark(t)
  PROVE  TgInv'
<1>1. /\ TgTypes /\ call \in Call /\ DOMAIN chat = 1..Len(chat) /\ Len(chat) \in Nat
      /\ call.id \in 0..Len(chat)
      /\ call.id # 0 => call.at = "call" /\ chat[call.id].sent
      /\ heard \in [Accounts -> 0..Len(chat)] /\ handedOn \in [Accounts -> 0..Len(chat)]
  BY ChatIs DEF TgInv, TgTypes, CallPlaced
<1>2. /\ chat' = chat /\ sends' = sends
      /\ marks' \subseteq marks /\ marks \cup spoiled \subseteq marks' \cup spoiled'
  BY DEF Return, TgFails, tgVars, registry, tgHistory, Hear, SkipRemembered, SkipMarked, HandOn,
         Switch, ForgetEntry, ForgetMark
<1>3. /\ entries' \subseteq 1..Len(chat) /\ \A id \in entries' : chat[id].sent
      /\ answered' \subseteq entries' \cup forgotten'
  BY <1>1 DEF Return, Remembered, TgFails, tgVars, registry, tgHistory, Hear, Switch, ForgetEntry,
              ForgetMark, TgInv, TgTypes, ChatExplained
<1>4. /\ heard' \in [Accounts -> 0..Len(chat)] /\ handedOn' \in [Accounts -> 0..Len(chat)]
  <2>1. CASE UNCHANGED <<heard, handedOn>>
    BY <1>1, <2>1
  <2>2. ASSUME NEW a \in Accounts, Hear(a) PROVE <1>4!1
    <3>1. heard' = [heard EXCEPT ![a] = heard[a] + 1] /\ heard[a] + 1 \in 1..Len(chat)
      BY <1>1, <2>2 DEF Hear
    <3>2. handedOn' = handedOn \/ handedOn' = [handedOn EXCEPT ![a] = heard'[a]]
      BY <2>2 DEF Hear, SkipRemembered, SkipMarked, HandOn
    <3>3. heard' \in [Accounts -> 0..Len(chat)] /\ heard'[a] \in 0..Len(chat)
      BY <1>1, <3>1
    <3> QED
      BY <1>1, <3>2, <3>3
  <2> QED
    BY <2>1, <2>2 DEF Return, TgFails, tgVars, Switch, ForgetEntry, ForgetMark
<1>5. started' \subseteq Accounts
  BY <1>1 DEF Return, TgFails, tgVars, Hear, Switch, ForgetEntry, ForgetMark, TgTypes
<1>6. /\ call' \in Call /\ call'.id \in {0, call.id}
      /\ call'.id # 0 => call'.at = "call"
      /\ call'.at = "call" /\ call'.first => call' = call
  <2>1. CASE call' = call
    BY <1>1, <2>1 DEF Call
  <2>2. CASE call' = NoCall
    BY <2>2, OutboundAssumption DEF NoCall, Call
  <2>3. CASE call.more # 0 /\ call' = [call EXCEPT !.more = call.more - 1, !.first = FALSE, !.id = 0]
    <3>1. call.more - 1 \in Nat /\ call.more \in Nat
      BY <1>1, <2>3 DEF Call
    <3>2. call' \in Call /\ call'.id = 0 /\ ~call'.first
      BY <1>1, <2>3, <3>1 DEF Call
    <3> QED
      BY <3>2
  <2> QED
    BY <2>1, <2>2, <2>3
       DEF Return, TgFails, tgVars, Hear, Switch, ForgetEntry, ForgetMark
<1>7. TgTypes'
  BY <1>1, <1>2, <1>3, <1>4, <1>5, <1>6 DEF TgTypes
<1>8. CallPlaced'
  BY <1>1, <1>2, <1>6 DEF TgInv, CallPlaced
<1>9. ChatExplained'
  BY <1>2, <1>3 DEF TgInv, ChatExplained
<1> QED
  BY <1>7, <1>8, <1>9 DEF TgInv

LEMMA TgKept ==
  ASSUME TgInv, TgNext \/ UNCHANGED tgVars
  PROVE  TgInv'
<1>1. TgTypes /\ call \in Call /\ MaxPosts \in Nat
  BY OutboundAssumption DEF TgInv, TgTypes
<1>2. CASE Accept
  <2> DEFINE m == [by |-> call.by, text |-> IF call.first THEN call.text ELSE "", sent |-> TRUE,
                   marked |-> call.first /\ call.by # Bot]
  <2>1. m \in Message /\ m.sent /\ m.by # Person
    BY <1>1, OutboundAssumption DEF Call, Message
  <2>2. m.marked => m.text \in marks \cup spoiled
    BY <1>2 DEF Accept, TgInv, CallPlaced
  <2>3. /\ Arrive(m) /\ call.at = "call" /\ call' = [call EXCEPT !.id = Len(chat) + 1]
        /\ UNCHANGED <<started, heard, handedOn, registry, sends, tgHistory>>
    BY <1>2 DEF Accept
  <2> HIDE DEF m
  <2> QED
    BY <2>1, <2>2, <2>3, ArriveKeeps
<1>3. ASSUME NEW w \in Writers, Write(w[1], w[2]) PROVE TgInv'
  <2> DEFINE m == [by |-> w[1], text |-> w[2], sent |-> FALSE, marked |-> FALSE]
  <2>1. m \in Message /\ ~m.sent /\ ~m.marked
    BY OutboundAssumption DEF Message
  <2>2. /\ Arrive(m) /\ call' = call
        /\ UNCHANGED <<started, heard, handedOn, registry, sends, tgHistory>>
    BY <1>3 DEF Write
  <2> HIDE DEF m
  <2> QED
    BY <2>1, <2>2, ArriveKeeps
<1> QED
  BY <1>2, <1>3, BeginKeeps, OtherStepsKeep DEF TgNext, CallEnds

-----------------------------------------------------------------------------
(* The invariants always hold.                                              *)

LEMMA InitIInv == Init => IInv
<1> SUFFICES ASSUME Init PROVE IInv
  OBVIOUS
<1>1. TokenInv
  <2>1. /\ token = 0 /\ due = FALSE /\ revoked = {} /\ trouble = 0 /\ tokenLock = <<>>
        /\ request = [r \in Requesters |-> NoRequest]
    BY DEF Init, QQInit, TokenInit
  <2>2. NoRequest \in Request /\ NoRequest.at = "none" /\ NoRequest.before = 0 /\ NoRequest.used = 0
    BY DEF NoRequest, Request
  <2>3. due \in BOOLEAN /\ ~due
    BY <2>1, Zenon
  <2>4. TokenTypes
    BY <2>1, <2>2, <2>3, TokenAssumption DEF TokenTypes
  <2>5. \A r \in Requesters : request[r] = NoRequest
    BY <2>1
  <2>6. HolderRenews /\ NoneBeforeLogin /\ ComparesArrival /\ RequestAges /\ RetriedWithNewToken
    BY <2>1, <2>2, <2>3, <2>5
       DEF HolderRenews, NoneBeforeLogin, ComparesArrival, RequestAges, RetriedWithNewToken
  <2> QED
    BY <2>4, <2>6 DEF TokenInv
<1>2. SendInv
  <2>1. /\ job = NoJob /\ send = Idle /\ sessionKnown = FALSE /\ gone = FALSE /\ deliveries = 0
        /\ result = "none" /\ accepted = <<>> /\ audited = {} /\ lostAnswer = FALSE
        /\ request = [r \in Requesters |-> NoRequest]
    BY DEF Init, QQInit, TokenInit, SendInit
  <2>2. sessionKnown \in BOOLEAN /\ gone \in BOOLEAN /\ lostAnswer \in BOOLEAN
    BY <2>1, Zenon
  <2>3. accepted \in Seq(Nat) /\ Len(accepted) = 0 /\ DOMAIN accepted = {}
    BY <2>1, EmptySeq
  <2>4. SendTypes /\ ~Active
    BY <2>1, <2>2, <2>3, IdleIs, SenderAssumption DEF SendTypes, Results, Active
  <2>5. request[Sender].at = "none"
    BY <2>1, SenderAssumption DEF NoRequest
  <2>6. PartPlaced /\ RequestsOfDelivery /\ ShownSoFar /\ OnceSoFar /\ RefusedSoFar
    BY <2>3, <2>4, <2>5 DEF PartPlaced, RequestsOfDelivery, ShownSoFar, OnceSoFar, RefusedSoFar
  <2>7. Complete
    BY <2>1, <2>3 DEF Complete
  <2> QED
    BY <2>4, <2>6, <2>7 DEF SendInv
<1>3. TgInv
  <2>1. /\ started = Accounts /\ chat = <<>> /\ entries = {} /\ marks = {}
        /\ heard = [a \in Accounts |-> 0] /\ handedOn = [a \in Accounts |-> 0]
        /\ call = NoCall /\ sends = 0 /\ answered = {} /\ forgotten = {}
    BY DEF Init, TgInit
  <2>2. chat \in Seq(Message) /\ Len(chat) = 0 /\ DOMAIN chat = {}
    BY <2>1, EmptySeq
  <2>3. NoCall \in Call /\ NoCall.at = "idle" /\ NoCall.id = 0
    BY OutboundAssumption DEF NoCall, Call
  <2>4. TgTypes
    <3>1. 0 \in 0..Len(chat) /\ Len(chat) <= MaxPosts /\ sends \in 0..MaxSends
      <4>1. Len(chat) = 0
        BY <2>2
      <4>2. MaxPosts \in Nat /\ MaxSends \in Nat /\ sends = 0
        BY <2>1, OutboundAssumption
      <4> QED
        BY <4>1, <4>2
    <3>2. heard \in [Accounts -> 0..Len(chat)] /\ handedOn \in [Accounts -> 0..Len(chat)]
      BY <2>1, <3>1
    <3>3. call \in Call
      BY <2>1, <2>3
    <3>4. started \subseteq Accounts /\ entries \subseteq 1..Len(chat) /\ marks \subseteq Texts
      BY <2>1
    <3> QED
      BY <2>2, <3>1, <3>2, <3>3, <3>4 DEF TgTypes
  <2>5. CallPlaced /\ ChatExplained
    BY <2>1, <2>2, <2>3 DEF CallPlaced, ChatExplained
  <2> QED
    BY <2>4, <2>5 DEF TgInv
<1> QED
  BY <1>1, <1>2, <1>3 DEF IInv

LEMMA NextIInv == IInv /\ [Next]_vars => IInv'
<1> SUFFICES ASSUME IInv, [Next]_vars PROVE IInv'
  OBVIOUS
<1>1. /\ (QQNext /\ UNCHANGED tgVars) \/ (TgNext /\ UNCHANGED qqVars)
         \/ (UNCHANGED qqVars /\ UNCHANGED tgVars)
  BY DEF Next, QQStep, TelegramStep, vars
<1>2. TokenInv'
  BY <1>1, TokenKept DEF IInv, qqVars
<1>3. SendInv'
  BY <1>1, SendKept DEF IInv
<1>4. TgInv'
  BY <1>1, TgKept DEF IInv
<1> QED
  BY <1>2, <1>3, <1>4 DEF IInv

\* The invariant of the proofs holds at every moment of every behaviour.
THEOREM AlwaysIInv == Spec => []IInv
BY InitIInv, NextIInv, PTL DEF Spec

-----------------------------------------------------------------------------
(* The results.                                                             *)

\* Every variable keeps its type, no part is tried more often than _qq_retry allows,
\* and one request at a time renews the token, for any number of tasks that share
\* it, any number of attempts and any jobs (sender.py:80-85, 149).
THEOREM TypeCorrect == Spec => []TypeOK
<1>1. IInv => TypeOK
  BY DEF IInv, TokenInv, SendInv, TgInv, TypeOK
<1> QED
  BY <1>1, AlwaysIInv, PTL

\* A request refused for its token goes out again only with a newer one, however many
\* tasks ask for a new token at once (sender.py:123-158).
THEOREM RetriedNewer == Spec => []RetriedWithNewToken
<1>1. IInv => RetriedWithNewToken
  BY DEF IInv, TokenInv
<1> QED
  BY <1>1, AlwaysIInv, PTL

\* However many requests meet at the lock, refused or not, whoever renews the token
\* finds the one it came with, still refused or still due (sender.py:143-158).
THEOREM OneRenewalAlways == Spec => []OneRenewal
<1>1. IInv => OneRenewal
  BY DEF IInv, TokenInv, ComparesArrival, OneRenewal
<1> QED
  BY <1>1, AlwaysIInv, PTL

\* No request carries what QQ's audit refused, through retries, fallbacks and the
\* router's second call (sender.py:40-54, 212-219, router.py:107-129).
THEOREM AuditFinalAlways == Spec => []AuditFinal
<1>1. IInv => AuditFinal
  <2> SUFFICES ASSUME SendInv, request[Sender].at # "none" PROVE Content \notin audited
    BY DEF IInv, AuditFinal
  <2>1. Active /\ send \in Send
    BY DEF SendInv, RequestsOfDelivery, SendTypes
  <2>2. ASSUME Content \in audited PROVE FALSE
    <3>1. /\ Content[1] = IF send.at = "upload" THEN "upload" ELSE "post"
          /\ Content[2] = send.part /\ Content[4] = send.link
      BY DEF Content
    <3>2. send.link = FALSE
      BY <2>1, <2>2, <3>1 DEF SendInv, RefusedSoFar
    <3>3. Content[1] = "upload" /\ (Content[2] = send.part => send.fallback)
      BY <2>1, <2>2, <3>2 DEF SendInv, RefusedSoFar
    <3>4. send.at = "upload"
      BY <3>1, <3>3
    <3> QED
      BY <2>1, <3>1, <3>3, <3>4 DEF SendInv, PartPlaced
  <2> QED
    BY <2>2
<1> QED
  BY <1>1, AlwaysIInv, PTL

\* A part is shown twice only after a lost answer, for any job and any number of
\* attempts (sender.py:80-85, 230-250).
THEOREM OnceUnlessLost == Spec => []TwiceNeedsLostAnswer
<1>1. IInv => TwiceNeedsLostAnswer
  <2> SUFFICES ASSUME SendInv, ~lostAnswer, NEW i \in DOMAIN accepted PROVE ~(accepted[i] > 1)
    BY DEF IInv, TwiceNeedsLostAnswer
  <2>1. accepted[i] <= 1 /\ accepted[i] \in Nat
    BY AcceptedIs DEF SendInv, OnceSoFar
  <2> QED
    BY <2>1
<1> QED
  BY <1>1, AlwaysIInv, PTL

\* Parts are shown in their order, and all of them when the delivery ends well, for
\* any job (sender.py:230-250, 283-348).
THEOREM CompleteAlways == Spec => []Complete
<1>1. IInv => Complete
  BY DEF IInv, SendInv
<1> QED
  BY <1>1, AlwaysIInv, PTL

\* What a listener hands on is none of the messages the registry knows, nor a marked
\* one of its own account whose mark stands.
LEMMA HeardStep ==
  ASSUME IInv, TgNext \/ UNCHANGED tgVars, NEW a \in Accounts, NEW id \in DOMAIN chat,
         heard'[a] # heard[a] \/ handedOn'[a] # handedOn[a]
  PROVE  /\ Hear(a) /\ heard'[a] = heard[a] + 1
         /\ \/ SkipRemembered(heard'[a])
            \/ SkipMarked(a, heard'[a])
            \/ HandOn(a, heard'[a])
         /\ handedOn'[a] # handedOn[a] => HandOn(a, heard'[a]) /\ handedOn'[a] = heard'[a]
<1>1. /\ heard \in [Accounts -> 0..Len(chat)] /\ handedOn \in [Accounts -> 0..Len(chat)]
  BY DEF IInv, TgInv, TgTypes
<1>2. ASSUME NEW b \in Accounts, Hear(b)
      PROVE  /\ heard' = [heard EXCEPT ![b] = heard[b] + 1]
             /\ \/ SkipRemembered(heard'[b])
                \/ SkipMarked(b, heard'[b])
                \/ HandOn(b, heard'[b])
             /\ handedOn' = handedOn
                  \/ (HandOn(b, heard'[b]) /\ handedOn' = [handedOn EXCEPT ![b] = heard'[b]])
  BY <1>2 DEF Hear, SkipRemembered, SkipMarked, HandOn
<1>3. \E b \in Accounts : Hear(b)
  <2>1. ~UNCHANGED <<heard, handedOn>>
    OBVIOUS
  <2> QED
    BY <2>1
       DEF TgNext, SendByAccount, SendByBot, Begin, CallEnds, Accept, Return, TgFails, Write,
           ForgetEntry, ForgetMark, Switch, tgVars
<1>4. PICK b \in Accounts : Hear(b)
  BY <1>3
<1>5. b = a
  BY <1>1, <1>2, <1>4
<1> QED
  BY <1>1, <1>2, <1>4, <1>5

\* A listener hands on a message of the forwarder's own only where the registry and
\* the marks cannot know it any more or not yet, for any number of accounts,
\* messages and texts (registry.py:79-100, delivery.py:135-157).
THEOREM OwnNotForwarded == Spec => OwnIsNotForwarded
<1> DEFINE Step == \A a \in Accounts, id \in DOMAIN chat :
       handedOn'[a] = id /\ handedOn[a] # id /\ chat[id].sent =>
         /\ id \in answered => id \in forgotten
         /\ chat[id].by = a /\ chat[id].marked => chat[id].text \in spoiled
<1>1. IInv /\ [Next]_vars => [Step]_tgVars
  <2> SUFFICES ASSUME IInv, TgNext \/ UNCHANGED tgVars, NEW a \in Accounts, NEW id \in DOMAIN chat,
                      handedOn'[a] = id, handedOn[a] # id, chat[id].sent
               PROVE  /\ id \in answered => id \in forgotten
                      /\ chat[id].by = a /\ chat[id].marked => chat[id].text \in spoiled
    BY DEF Next, QQStep, TelegramStep, vars
  <2>1. HandOn(a, id)
    BY HeardStep
  <2> QED
    BY <2>1 DEF HandOn, MayBeEcho, Outgoing, IInv, TgInv, ChatExplained
<1> QED
  BY <1>1, AlwaysIInv, PTL DEF Spec, OwnIsNotForwarded

\* What others write is handed on as soon as it is heard, for any registry and marks
\* (client.py:102-107).
THEOREM OthersAlwaysHeard == Spec => OthersHeard
<1> DEFINE Step == \A a \in Accounts, id \in DOMAIN chat :
       heard'[a] = id /\ heard[a] # id /\ chat[id].by = Person => handedOn'[a] = id
<1>1. IInv /\ [Next]_vars => [Step]_tgVars
  <2> SUFFICES ASSUME IInv, TgNext \/ UNCHANGED tgVars, NEW a \in Accounts, NEW id \in DOMAIN chat,
                      heard'[a] = id, heard[a] # id, chat[id].by = Person
               PROVE  handedOn'[a] = id
    BY DEF Next, QQStep, TelegramStep, vars
  <2>1. SkipRemembered(id) \/ SkipMarked(a, id) \/ HandOn(a, id)
    BY HeardStep
  <2>2. ~chat[id].sent /\ id \notin entries
    BY DEF IInv, TgInv, ChatExplained
  <2>3. HandOn(a, id)
    BY <2>1, <2>2, OutboundAssumption DEF SkipRemembered, SkipMarked, MayBeEcho, Outgoing
  <2> QED
    BY <2>3 DEF HandOn, IInv, TgInv, TgTypes
<1> QED
  BY <1>1, AlwaysIInv, PTL DEF Spec, OthersHeard
=============================================================================
