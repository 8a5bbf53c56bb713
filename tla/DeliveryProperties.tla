-------------------------- MODULE DeliveryProperties -------------------------
(***************************************************************************)
(* What the senders promise the router and the listeners.                   *)
(***************************************************************************)
EXTENDS Delivery

TokenTypes ==
  /\ token \in Nat /\ due \in BOOLEAN /\ revoked \subseteq 1..token
  /\ trouble \in 0..MaxTrouble
  /\ request \in [Requesters -> Request] /\ tokenLock \in Seq(Requesters)

SendTypes ==
  /\ job \in QQJobs \cup {NoJob} /\ send \in Send
  /\ sessionKnown \in BOOLEAN /\ gone \in BOOLEAN
  /\ deliveries \in 0..MaxDeliveries /\ result \in Results
  /\ accepted \in Seq(Nat) /\ lostAnswer \in BOOLEAN

TgTypes ==
  /\ started \subseteq Accounts /\ chat \in Seq(Message) /\ Len(chat) <= MaxPosts
  /\ heard \in [Accounts -> 0..Len(chat)] /\ handedOn \in [Accounts -> 0..Len(chat)]
  /\ entries \subseteq 1..Len(chat) /\ marks \subseteq Texts
  /\ call \in Call /\ sends \in 0..MaxSends

\* Who renews the token holds its lock.
HolderRenews ==
  \A r \in Requesters :
    request[r].at = "update" => tokenLock # <<>> /\ Head(tokenLock) = r

\* The variables have their types, no part is tried more often than _qq_retry
\* allows, and one request at a time renews the token (sender.py:80-85, 149).
TypeOK == TokenTypes /\ SendTypes /\ TgTypes /\ HolderRenews

\* What QQ's audit refused is never sent to QQ again, by a retry, a fallback or
\* the router's second call (sender.py:40-54, 212-219, router.py:107-129).
AuditFinal == request[Sender].at # "none" => Content \notin audited

\* QQ shows a part twice only when the answer to the first post was lost: no
\* retry starts what was done before it again (sender.py:80-85, 230-250).
TwiceNeedsLostAnswer == (\E i \in DOMAIN accepted : accepted[i] > 1) => lostAnswer

\* A part is shown only after those before it, and a delivery that ends well has
\* shown them all, whatever was retried or replaced on the way
\* (sender.py:230-250, 283-348).
Complete ==
  LET n == Len(accepted) - 1
  IN  /\ \A i \in 1..n-1 : accepted[i + 1] > 0 => accepted[i] > 0
      /\ result = "ok" => accepted[n] > 0
      /\ result = "link" => accepted[n + 1] > 0

\* A request refused for its token is sent again with a newer one, or not at all,
\* whoever renewed the token meanwhile and whether it succeeded
\* (sender.py:123-158).
RetriedWithNewToken ==
  \A r \in Requesters : request[r].at = "again" => request[r].used > request[r].refusedWith

\* Requests that meet at the lock ask for one new token between them: whoever renews
\* the token renews the one in use when it came to the lock, so no other request
\* did while it waited, and was refused or finds it still due, whoever failed or was
\* cut off meanwhile (sender.py:143-158).
OneRenewal ==
  \A r \in Requesters :
    request[r].at = "update" =>
      request[r].arrived = token /\ (request[r].force \/ due)

\* A listener forwards a message of the forwarder's own only before the call that
\* sent it returned or after its entry expired; and, if it is the account's own
\* and was marked, only after its mark had expired or been used for another
\* message of the same text (registry.py:79-100, delivery.py:135-157).
OwnIsNotForwarded ==
  [][\A a \in Accounts, id \in DOMAIN chat :
       handedOn'[a] = id /\ handedOn[a] # id /\ chat[id].sent =>
         /\ id \in answered => id \in forgotten
         /\ chat[id].by = a /\ chat[id].marked => chat[id].text \in spoiled]_tgVars

\* What others write is forwarded, even with the text of something just sent
\* (client.py:102-107).
OthersHeard ==
  [][\A a \in Accounts, id \in DOMAIN chat :
       heard'[a] = id /\ heard[a] # id /\ chat[id].by = Person =>
         handedOn'[a] = id]_tgVars

\* Every delivery to QQ ends, whatever QQ answers and without the router's time-out,
\* and every request gets away from the lock, whoever held it was cut off or failed
\* (sender.py:80-85, 143-158).
DeliveryEnds ==
  /\ send.at # "idle" ~> send.at = "idle"
  /\ \A r \in Requesters : request[r].at = "lock" ~> request[r].at # "lock"
=============================================================================
