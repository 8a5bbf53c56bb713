--------------------------- MODULE TelegramOutbound --------------------------
(***************************************************************************)
(* Sending to Telegram, by a logged-in account or by a bot, and the registry *)
(* that keeps the listeners from forwarding what the forwarder has sent: a   *)
(* listener gets each message of a chat, the forwarder's own ones included,  *)
(* before or after the call that sent it returns.                           *)
(*                                                                         *)
(* One chat, which is both watched and sent to.  A message is known by its   *)
(* place in the chat.                                                       *)
(***************************************************************************)
EXTENDS Integers, Sequences

CONSTANTS
  Accounts,
  DefaultAccount, \* the one that get(None) takes when it is started
  NoAccount,
  Bot, Person,
  Texts,
  TgJobs,
  Writers,        \* bound: who writes what in the chat besides the forwarder
  MaxPosts,       \* bound: messages in the chat
  MaxSends        \* bound: deliveries in one behaviour

\* A delivery: by an account, the default one or the bot; its text, and how many
\* parts follow the one that carries it.
TgJob == [via: Accounts \cup {NoAccount, Bot}, text: Texts, more: Nat]

ASSUME OutboundAssumption ==
  /\ DefaultAccount \in Accounts /\ "" \in Texts
  /\ Bot # Person /\ NoAccount \notin {Bot, Person}
  /\ {NoAccount, Bot, Person} \cap Accounts = {}
  /\ TgJobs \subseteq TgJob /\ Writers \subseteq (Accounts \cup {Person}) \X Texts
  /\ MaxPosts \in Nat /\ MaxSends \in Nat

VARIABLES
  started,   \* the accounts whose listener runs
  chat,      \* the messages of the chat
  heard,     \* for each account, how many messages its listener has got, in order
  handedOn,  \* for each account, the last message its listener handed on
  entries,   \* messages in the registry
  marks,     \* texts in the registry, not older than 30 s
  call,      \* the delivery under way
  sends,     \* number of deliveries begun
  \* History:
  answered,  \* messages whose call returned
  forgotten, \* messages whose entry expired
  spoiled    \* texts whose mark was used or expired since it was last made

registry == <<entries, marks>>
tgHistory == <<answered, forgotten, spoiled>>
tgVars == <<started, chat, heard, handedOn, registry, call, sends, tgHistory>>

Message == [by: Accounts \cup {Bot, Person}, text: Texts,
            sent: BOOLEAN,   \* by the forwarder
            marked: BOOLEAN] \* with a text marked before

Call == [at: {"idle", "call"}, by: Accounts \cup {Bot}, text: Texts, more: Nat,
         first: BOOLEAN,     \* the part with the text
         id: Nat]            \* the message Telegram made of it, or 0
NoCall == [at |-> "idle", by |-> Bot, text |-> "", more |-> 0, first |-> TRUE, id |-> 0]

TgInit ==
  /\ started = Accounts /\ chat = <<>> /\ entries = {} /\ marks = {}
  /\ heard = [a \in Accounts |-> 0] /\ handedOn = [a \in Accounts |-> 0]
  /\ call = NoCall /\ sends = 0
  /\ answered = {} /\ forgotten = {} /\ spoiled = {}

-----------------------------------------------------------------------------
(* The registry.                                                            *)

\* Fault: the text is not marked before the call.
MarkLater(text) == UNCHANGED <<marks, spoiled>>

MarkOutgoing(text) ==
  marks' = marks \cup {text} /\ spoiled' = spoiled \ {text}

\* An entry expires after 900 s or when the registry is full, a mark after 30 s.
ForgetEntry(id) ==
  /\ id \in entries /\ entries' = entries \ {id} /\ forgotten' = forgotten \cup {id}
  /\ UNCHANGED <<started, chat, heard, handedOn, marks, call, sends, answered, spoiled>>

ForgetMark(text) ==
  /\ text \in marks /\ marks' = marks \ {text} /\ spoiled' = spoiled \cup {text}
  /\ UNCHANGED <<started, chat, heard, handedOn, entries, call, sends, answered, forgotten>>

-----------------------------------------------------------------------------
(* Sending.                                                                 *)

\* TelegramAccountManager.get: without an account the default one, else any.
Resolved(via) ==
  IF via \in Accounts THEN {via} \cap started
  ELSE IF DefaultAccount \in started THEN {DefaultAccount}
  ELSE started

BeginCall(by, j) ==
  call' = [NoCall EXCEPT !.at = "call", !.by = by, !.text = j.text, !.more = j.more]

Begin ==
  /\ call.at = "idle" /\ sends < MaxSends /\ sends' = sends + 1
  /\ UNCHANGED <<started, chat, heard, handedOn, entries, answered, forgotten>>

SendByAccount(j) ==
  /\ j.via # Bot /\ Begin
  /\ IF Resolved(j.via) = {} THEN UNCHANGED <<call, marks, spoiled>>
     ELSE /\ \E a \in Resolved(j.via) : BeginCall(a, j)
          /\ MarkOutgoing(j.text)

\* The bot's messages are not marked; _ensure_bot may fail.
SendByBot(j) ==
  /\ j.via = Bot /\ Begin
  /\ BeginCall(Bot, j) \/ UNCHANGED call
  /\ UNCHANGED <<marks, spoiled>>

Arrive(m) ==
  /\ Len(chat) < MaxPosts /\ chat' = Append(chat, m)

\* Telegram makes a message of the part; only the first one has the text.
Accept ==
  /\ call.at = "call" /\ call.id = 0
  /\ Arrive([by |-> call.by, text |-> IF call.first THEN call.text ELSE "", sent |-> TRUE,
             marked |-> call.first /\ call.by # Bot])
  /\ call' = [call EXCEPT !.id = Len(chat) + 1]
  /\ UNCHANGED <<started, heard, handedOn, registry, sends, tgHistory>>

\* Fault: what the bot sends is not remembered.
RememberedOfAccount(id) == IF call.by = Bot THEN entries ELSE entries \cup {id}

Remembered(id) == entries \cup {id}

\* The call returns: the message is remembered, and the next part sent.
Return ==
  /\ call.id # 0
  /\ entries' = Remembered(call.id) /\ answered' = answered \cup {call.id}
  /\ call' = IF call.more = 0 THEN NoCall
             ELSE [call EXCEPT !.more = @ - 1, !.first = FALSE, !.id = 0]
  /\ UNCHANGED <<started, chat, heard, handedOn, marks, sends, forgotten, spoiled>>

\* The call fails or the router's time-out cuts it, before or after Telegram made
\* a message of the part.
TgFails ==
  /\ call.at = "call" /\ call' = NoCall
  /\ UNCHANGED <<started, chat, heard, handedOn, registry, sends, tgHistory>>

-----------------------------------------------------------------------------
(* Listening: the check at the head of _handle_new_message.                 *)

Outgoing(a, m) == m.by = a

\* Fault: marks are looked up for every message.
MayBeEchoOfAny(a, m) == TRUE

MayBeEcho(a, m) == Outgoing(a, m)

SkipRemembered(id) ==
  /\ id \in entries
  /\ UNCHANGED <<handedOn, marks, spoiled>>

SkipMarked(a, id) ==
  LET text == chat[id].text
  IN  /\ id \notin entries /\ MayBeEcho(a, chat[id]) /\ text \in marks
      /\ marks' = marks \ {text} /\ spoiled' = spoiled \cup {text}
      /\ UNCHANGED handedOn

HandOn(a, id) ==
  /\ id \notin entries /\ ~(MayBeEcho(a, chat[id]) /\ chat[id].text \in marks)
  /\ handedOn' = [handedOn EXCEPT ![a] = id]
  /\ UNCHANGED <<marks, spoiled>>

Hear(a) ==
  /\ a \in started /\ heard[a] < Len(chat)
  /\ heard' = [heard EXCEPT ![a] = @ + 1]
  /\ LET id == heard'[a]
     IN  SkipRemembered(id) \/ SkipMarked(a, id) \/ HandOn(a, id)
  /\ UNCHANGED <<started, chat, entries, call, sends, answered, forgotten>>

\* Somebody writes in the chat: the owner of an account by hand, or another.
Write(by, text) ==
  /\ Arrive([by |-> by, text |-> text, sent |-> FALSE, marked |-> FALSE])
  /\ UNCHANGED <<started, heard, handedOn, registry, call, sends, tgHistory>>

\* An account is disconnected, or connected again.
Switch(a) ==
  /\ started' = IF a \in started THEN started \ {a} ELSE started \cup {a}
  /\ UNCHANGED <<chat, heard, handedOn, registry, call, sends, tgHistory>>

CallEnds == Accept \/ Return \/ TgFails

TgNext ==
  \/ \E j \in TgJobs : SendByAccount(j) \/ SendByBot(j)
  \/ CallEnds
  \/ \E a \in Accounts : Hear(a)
  \/ \E w \in Writers : Write(w[1], w[2])
  \/ \E id \in entries : ForgetEntry(id)
  \/ \E t \in marks : ForgetMark(t)
  \/ \E a \in Accounts : Switch(a)
=============================================================================
