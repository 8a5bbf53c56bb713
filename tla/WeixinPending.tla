---------------------------- MODULE WeixinPending ----------------------------
(***************************************************************************)
(* Sending to Weixin contacts, parking what cannot be sent for want of a    *)
(* valid context token, and sending it later (WEIXIN_PENDING_SEND_ENABLED). *)
(*                                                                         *)
(* Two tasks send: the consumer of the forward queue (lane "direct"), one   *)
(* message after the other, and the flush of one contact's parked messages  *)
(* (lane "flush"; the flushes that new tokens and the periodic loop start   *)
(* take turns under _flush_lock).  A step of the model is the code between  *)
(* two awaits.  Every call of the server is awaited, so anything may happen *)
(* between two replies to one message.                                     *)
(***************************************************************************)
EXTENDS Integers, Sequences, FiniteSets

CONSTANTS
  Contacts,
  None,        \* no contact
  N,           \* bound: messages, numbered in the order the queue hands them over
  Target,      \* the contact each message is for
  Parts,       \* what each message is sent as: text chunks, then media
  Limit,       \* weixin_pending_send_max_per_contact
  Retries      \* number of weixin_send_retry_delays_seconds

Messages == 1..N
Kinds == {"text", "upload", "media"}

ASSUME WeixinAssumption ==
  /\ Contacts # {} /\ None \notin Contacts /\ N \in Nat
  /\ Target \in [Messages -> Contacts]
  /\ Parts \in [Messages -> Seq(Kinds) \ {<<>>}]
  /\ Limit \in Nat \ {0} /\ Retries \in Nat

VARIABLES
  loggedIn,   \* the state holds credentials
  polling,    \* a get_updates call is under way
  token,      \* the contacts whose context token is known
  file,       \* credentials.json: logged in, and tokens
  pending,    \* _pending: the parked messages of each contact, oldest first
  aged,       \* the messages parked for longer than the TTL
  lane,       \* the progress of _send_now in either task
  flushing,   \* the contact whose flush holds _flush_lock
  batch,      \* its snapshot from the message being sent on
  fate        \* history: what has become of each message

vars == <<loggedIn, polling, token, file, pending, aged, lane, flushing,
          batch, fate>>
session == <<loggedIn, polling, token, file>>

Lanes == {"direct", "flush"}
Idle == [msg |-> 0, part |-> 0, tries |-> 0, bad |-> FALSE]
Sending(m) == [msg |-> m, part |-> 1, tries |-> 0, bad |-> FALSE]

\* "late": parked while a flush of its contact was under way.
Fates == {"new", "taken", "parked", "late", "delivered", "failed", "expired",
          "overflow", "refused", "offline", "lost"}
Queued == {"parked", "late"}

Elems(q) == {q[i] : i \in DOMAIN q}

TypeOK ==
  /\ loggedIn \in BOOLEAN /\ polling \in BOOLEAN /\ token \subseteq Contacts
  /\ file \in [login: BOOLEAN, tokens: SUBSET Contacts]
  /\ pending \in [Contacts -> Seq(Messages)]
  /\ aged \subseteq Messages
  /\ lane \in [Lanes -> [msg: 0..N, part: Nat, tries: 0..Retries, bad: BOOLEAN]]
  /\ flushing \in Contacts \cup {None}
  /\ batch \in Seq(Messages)
  /\ fate \in [Messages -> Fates]

Init ==
  /\ loggedIn = FALSE /\ polling = FALSE /\ token = {}
  /\ file = [login |-> FALSE, tokens |-> {}]
  /\ pending = [u \in Contacts |-> <<>>]
  /\ aged = {}
  /\ lane = [l \in Lanes |-> Idle]
  /\ flushing = None /\ batch = <<>>
  /\ fate = [m \in Messages |-> "new"]

-----------------------------------------------------------------------------
(* _send_now and _send_items: what one reply means for the whole message.  *)

Replies == {"ok", "prepare", "expired", "refused"}

\* Fault: one retry too many.
AgainOnceMore(p, reply) == reply = "prepare" /\ p.tries <= Retries

\* errcode -2, which is tried again after a delay.
Again(p, reply) == reply = "prepare" /\ p.tries < Retries

\* An upload that fails is one more refusal, whatever its code.
Possible(p, reply) ==
  Parts[p.msg][p.part] = "upload" => reply \in {"ok", "refused"}

\* A failed text chunk ends the message with that error, a failed upload with
\* an error of no code.  A failed media item does not stop the others, but the
\* message then counts as incomplete; only -14 is passed on at once.
Verdict(p, reply) ==
  LET kind == Parts[p.msg][p.part]
  IN CASE Again(p, reply) -> "none"
       [] reply = "expired" \/ (reply # "ok" /\ kind = "text") -> reply
       [] reply # "ok" /\ kind = "upload" -> "incomplete"
       [] p.part < Len(Parts[p.msg]) -> "none"
       [] OTHER -> IF p.bad \/ reply # "ok" THEN "incomplete" ELSE "ok"

\* How the message goes on while there is no verdict.
Progress(p, reply) ==
  IF Again(p, reply) THEN [p EXCEPT !.tries = @ + 1]
  ELSE [p EXCEPT !.part = @ + 1, !.tries = 0, !.bad = @ \/ reply # "ok"]

\* The checks made before the first call of the server.
Obstacle(m) ==
  IF ~loggedIn THEN "offline"
  ELSE IF Target[m] \notin token THEN "missing" ELSE "none"

\* A response of the server may bring a token: it is kept and saved at once.
Learn(u, learns) ==
  /\ token' = IF learns THEN token \cup {u} ELSE token
  /\ file' = IF learns THEN [login |-> loggedIn, tokens |-> token'] ELSE file
  /\ UNCHANGED <<loggedIn, polling>>

-----------------------------------------------------------------------------
(* The direct lane: WeixinService.send.                                    *)

\* Fault: the limit is exceeded by one.
QueuePendingOffByOne(q, m) ==
  Append(IF Len(q) > Limit THEN Tail(q) ELSE q, m)

\* Fault: a parked message is put in front.
QueuePendingInFront(q, m) == <<m>> \o (IF Len(q) >= Limit THEN Tail(q) ELSE q)

\* _queue_pending: the oldest message makes room for the new one.
QueuePending(q, m) == Append(IF Len(q) >= Limit THEN Tail(q) ELSE q, m)

\* send() ends with this verdict.
DirectEnds(m, verdict) ==
  LET u == Target[m]
      parks == verdict \in {"missing", "prepare"}
      kept == QueuePending(pending[u], m)
  IN /\ lane' = [lane EXCEPT !.direct = Idle]
     /\ pending' = IF parks THEN [pending EXCEPT ![u] = kept] ELSE pending
     /\ fate' = [k \in Messages |->
          IF k = m
            THEN IF parks THEN IF flushing = u THEN "late" ELSE "parked"
                 ELSE IF verdict = "ok" THEN "delivered" ELSE "failed"
          ELSE IF parks /\ k \in Elems(pending[u]) \ Elems(kept)
                  /\ fate[k] \in Queued
            THEN "overflow" ELSE fate[k]]

\* The consumer takes the next message.
DirectSend(m) ==
  /\ lane["direct"] = Idle
  /\ fate[m] = "new" /\ \A k \in 1..m - 1 : fate[k] # "new"
  /\ IF Obstacle(m) = "none"
       THEN /\ lane' = [lane EXCEPT !.direct = Sending(m)]
            /\ fate' = [fate EXCEPT ![m] = "taken"]
            /\ UNCHANGED pending
       ELSE DirectEnds(m, Obstacle(m))
  /\ UNCHANGED <<session, aged, flushing, batch>>

DirectReply(reply, learns) ==
  LET p == lane["direct"]
  IN /\ p # Idle /\ Possible(p, reply) /\ (learns => reply = "ok")
     /\ Learn(Target[p.msg], learns)
     /\ IF Verdict(p, reply) = "none"
          THEN /\ lane' = [lane EXCEPT !.direct = Progress(p, reply)]
               /\ UNCHANGED <<pending, fate>>
          ELSE DirectEnds(p.msg, Verdict(p, reply))
     /\ UNCHANGED <<aged, flushing, batch>>

\* wait_for in the router cancels send() after weixin_send_timeout_seconds.
DirectTimeout ==
  /\ lane["direct"] # Idle
  /\ lane' = [lane EXCEPT !.direct = Idle]
  /\ fate' = [fate EXCEPT ![lane["direct"].msg] = "failed"]
  /\ UNCHANGED <<session, pending, aged, flushing, batch>>

-----------------------------------------------------------------------------
(* The flush lane: _flush_pending.                                         *)

\* The flush ends and writes back what it kept.
FlushEnds(u, kept, f) ==
  /\ pending' = [pending EXCEPT ![u] = kept]
  /\ flushing' = None /\ batch' = <<>>
  /\ lane' = [lane EXCEPT !.flush = Idle]
  /\ fate' = [m \in Messages |->
       IF m \in Elems(kept) /\ f[m] # "delivered" THEN "parked" ELSE f[m]]

\* Fault: messages are sent however long they were parked.
FreshOfAll(rest) == rest

\* Fault: only the first message's age is looked at.
FreshChecksFirst(rest) ==
  IF rest # <<>> /\ Head(rest) \in aged THEN Tail(rest) ELSE rest

\* What is left of the batch once the leading messages past their TTL went.
Fresh(rest) ==
  LET k == CHOOSE k \in 0..Len(rest) :
             /\ \A i \in 1..k : rest[i] \in aged
             /\ k < Len(rest) => rest[k + 1] \notin aged
  IN SubSeq(rest, k + 1, Len(rest))

\* The loop goes on with the rest of the batch, up to its next await.
FlushGoesOn(u, rest, f) ==
  LET fresh == Fresh(rest)
      left == [m \in Messages |->
                 IF m \in Elems(rest) \ Elems(fresh) THEN "expired" ELSE f[m]]
  IN IF fresh = <<>> THEN FlushEnds(u, <<>>, left)
     ELSE IF ~loggedIn
       THEN FlushEnds(u, <<>>, [m \in Messages |->
              IF m \notin Elems(fresh) THEN left[m]
              ELSE IF m \in aged THEN "expired" ELSE "offline"])
     ELSE IF u \notin token' THEN FlushEnds(u, fresh, left)
     ELSE /\ flushing' = u /\ batch' = fresh
          /\ lane' = [lane EXCEPT !.flush = Sending(Head(fresh))]
          /\ fate' = left
          /\ UNCHANGED pending

\* A flush takes the lock, because a token came or the interval has passed.
FlushStart(u) ==
  /\ flushing = None /\ pending[u] # <<>>
  /\ UNCHANGED <<session, aged>>
  /\ FlushGoesOn(u, pending[u], fate)

\* Fault: the message that met the error is not kept.
KeptWithoutFirst(rest) == Tail(rest)

\* Fault: the whole queue is kept, with what this flush has delivered.
KeptWholeQueue(rest) == pending[flushing]

\* kept.extend(items[index:]).
Kept(rest) == rest

FlushReply(reply, learns) ==
  LET p == lane["flush"]
      v == Verdict(p, reply)
      after == [fate EXCEPT ![p.msg] = IF v = "ok" THEN "delivered"
                                                   ELSE "refused"]
  IN /\ flushing # None /\ Possible(p, reply) /\ (learns => reply = "ok")
     /\ Learn(flushing, learns)
     /\ CASE v = "none" -> /\ lane' = [lane EXCEPT !.flush = Progress(p, reply)]
                           /\ UNCHANGED <<pending, flushing, batch, fate>>
          [] v \in {"prepare", "expired"} -> FlushEnds(flushing, Kept(batch), fate)
          [] OTHER -> FlushGoesOn(flushing, Tail(batch), after)
     /\ UNCHANGED aged

\* Time passes: the oldest parked messages exceed the TTL first.
Age(u, i) ==
  /\ i \in DOMAIN pending[u] /\ \A j \in 1..i - 1 : pending[u][j] \in aged
  /\ pending[u][i] \notin aged
  /\ aged' = aged \cup {pending[u][i]}
  /\ UNCHANGED <<session, pending, lane, flushing, batch, fate>>

-----------------------------------------------------------------------------
(* The session, as far as sending depends on it.                           *)

Login ==
  /\ ~loggedIn /\ ~polling
  /\ loggedIn' = TRUE
  /\ file' = [login |-> TRUE, tokens |-> token]
  /\ UNCHANGED <<polling, token, pending, aged, lane, flushing, batch, fate>>

\* By the administrator, or because a poll found the session expired.
Logout ==
  /\ loggedIn /\ loggedIn' = FALSE
  /\ polling' \in {FALSE, polling}
  /\ token' = {} /\ file' = [login |-> FALSE, tokens |-> {}]
  /\ UNCHANGED <<pending, aged, lane, flushing, batch, fate>>

Poll ==
  /\ loggedIn /\ ~polling /\ polling' = TRUE
  /\ UNCHANGED <<loggedIn, token, file, pending, aged, lane, flushing, batch,
                 fate>>

\* A message of contact u, with a context token; its flush may start now.
Inbound(u) ==
  /\ polling /\ token' = token \cup {u}
  /\ UNCHANGED <<loggedIn, polling, file, pending, aged, lane, flushing, batch,
                 fate>>

\* The poll's messages are handled: the state is saved.
PollEnds ==
  /\ polling /\ polling' = FALSE
  /\ file' = [login |-> loggedIn, tokens |-> token]
  /\ UNCHANGED <<loggedIn, token, pending, aged, lane, flushing, batch, fate>>

\* The process ends and starts again: what was parked is gone.
Restart ==
  /\ loggedIn' = file.login /\ token' = file.tokens /\ polling' = FALSE
  /\ pending' = [u \in Contacts |-> <<>>]
  /\ aged' = {} /\ flushing' = None /\ batch' = <<>>
  /\ lane' = [l \in Lanes |-> Idle]
  /\ fate' = [m \in Messages |->
       IF fate[m] \in Queued \cup {"taken"} \/ m \in Elems(batch)
         THEN "lost" ELSE fate[m]]
  /\ UNCHANGED file

-----------------------------------------------------------------------------
Reply ==
  \E reply \in Replies, learns \in BOOLEAN :
    DirectReply(reply, learns) \/ FlushReply(reply, learns)

Next ==
  \/ \E m \in Messages : DirectSend(m)
  \/ Reply \/ DirectTimeout
  \/ \E u \in Contacts : FlushStart(u) \/ Inbound(u)
                         \/ \E i \in 1..Limit : Age(u, i)
  \/ Login \/ Logout \/ Poll \/ PollEnds \/ Restart

Spec == Init /\ [][Next]_vars

(* The periodic loop visits every contact with parked messages, and an     *)
(* asyncio.Lock serves its waiters in order; each call of the server ends   *)
(* by its timeout; messages grow old.  Nothing is assumed of the replies,   *)
(* of the contacts or of the administrator.                                 *)
Fairness ==
  /\ \A u \in Contacts : /\ SF_vars(FlushStart(u))
                         /\ WF_vars(\E i \in 1..Limit : Age(u, i))
  /\ WF_vars(\E reply \in Replies, learns \in BOOLEAN : FlushReply(reply, learns))

FairSpec == Spec /\ Fairness
=============================================================================
