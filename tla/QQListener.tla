----------------------------- MODULE QQListener ------------------------------
(***************************************************************************)
(* The QQ client's events: the id of the last message of a chat is cached    *)
(* for replies to it, and the message, its attachments downloaded, handed to *)
(* the forward queue.  QQ sends one message as several events: a mention is  *)
(* also a plain group message, and a resumed connection repeats events.      *)
(***************************************************************************)
EXTENDS RecentIds

CONSTANTS
  QQMessages, \* numbered in the order they are written
  MaxEvents   \* bound: events in one behaviour

ASSUME QQAssumption == QQMessages \subseteq Nat \ {0} /\ MaxEvents \in Nat

VARIABLES
  sessionLast, \* the msg_id cached for the chat
  qqRecent,
  downloading, \* for each message, the handlers that download its attachments
  events,
  \* History:
  qqForgotten, \* messages the filter had noted and dropped
  qqHanded     \* how often each message was handed on

qqInVars == <<sessionLast, qqRecent, downloading, events, qqForgotten, qqHanded>>

QQInInit ==
  /\ sessionLast = 0 /\ qqRecent = <<>> /\ events = 0 /\ qqForgotten = {}
  /\ downloading = [m \in QQMessages |-> 0] /\ qqHanded = [m \in QQMessages |-> 0]

\* remember_session, and _emit as far as the download.
QQEvent(m) ==
  /\ events < MaxEvents /\ events' = events + 1
  /\ sessionLast' = m
  /\ \E left \in Kept(qqRecent) :
       /\ qqRecent' = Noted(left, m)
       /\ qqForgotten' = qqForgotten \cup Dropped(qqRecent, left)
       /\ downloading' = IF m \in Range(left) THEN downloading
                         ELSE [downloading EXCEPT ![m] = @ + 1]
  /\ UNCHANGED qqHanded

EndDownload(m) ==
  /\ downloading[m] > 0 /\ downloading' = [downloading EXCEPT ![m] = @ - 1]
  /\ UNCHANGED <<sessionLast, qqRecent, events, qqForgotten>>

\* An attachment that cannot be downloaded becomes a link in the text.
QQHandOn(m) == EndDownload(m) /\ qqHanded' = [qqHanded EXCEPT ![m] = @ + 1]

\* There is nothing in the message.
QQSkipEmpty(m) == EndDownload(m) /\ UNCHANGED qqHanded

QQInNext == \E m \in QQMessages : QQEvent(m) \/ QQHandOn(m) \/ QQSkipEmpty(m)
=============================================================================
