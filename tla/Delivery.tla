------------------------------- MODULE Delivery ------------------------------
(***************************************************************************)
(* The router and the senders behind it: the forward queue's one consumer   *)
(* has one delivery made at a time, to QQ or to Telegram, and cuts it off    *)
(* after the channel's time-out.                                            *)
(*                                                                         *)
(* The two senders share nothing but the consumer, so a behaviour has one of *)
(* the channels enabled.                                                    *)
(***************************************************************************)
EXTENDS QQSender, TelegramOutbound

CONSTANT Channels \* the channels a behaviour may have enabled

ASSUME ChannelAssumption == Channels \subseteq {"qq", "telegram"}

VARIABLE channel

vars == <<channel, qqVars, tgVars>>

Init == channel \in Channels /\ QQInit /\ TgInit

QQStep(step) == channel = "qq" /\ step /\ UNCHANGED <<channel, tgVars>>
TelegramStep(step) == channel = "telegram" /\ step /\ UNCHANGED <<channel, qqVars>>

Next == QQStep(QQNext) \/ TelegramStep(TgNext)

Spec == Init /\ [][Next]_vars

\* HTTP requests end, by their own time-outs; nothing is assumed of the router's.
FairSpec ==
  /\ Spec
  /\ WF_vars(QQStep(SenderStep))
  /\ \A r \in Requesters : WF_vars(QQStep(TokenStep(r)))
=============================================================================
