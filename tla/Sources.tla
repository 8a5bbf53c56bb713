------------------------------- MODULE Sources -------------------------------
(***************************************************************************)
(* Where messages come from: the listeners of a Telegram account, the QQ     *)
(* client and the Weixin channel.  They share nothing but the forward queue, *)
(* whose enqueue does not wait, so a behaviour has one of them enabled.      *)
(***************************************************************************)
EXTENDS TelegramListener, QQListener, WeixinSession

CONSTANT Enabled \* the sources a behaviour may have enabled

ASSUME EnabledAssumption == Enabled \subseteq {"telegram", "qq", "weixin"}

VARIABLE source

vars == <<source, tgInVars, qqInVars, wxVars>>

Init == source \in Enabled /\ TgInInit /\ QQInInit /\ WxInit

TelegramStep(step) == source = "telegram" /\ step /\ UNCHANGED <<source, qqInVars, wxVars>>
QQStep(step) == source = "qq" /\ step /\ UNCHANGED <<source, tgInVars, wxVars>>
WeixinStep(step) == source = "weixin" /\ step /\ UNCHANGED <<source, tgInVars, qqInVars>>

Next == TelegramStep(TgInNext) \/ QQStep(QQInNext) \/ WeixinStep(WxNext)

Spec == Init /\ [][Next]_vars

\* Sleeps end.
FairSpec ==
  /\ Spec
  /\ \A l \in Listeners, k \in Albums : WF_vars(TelegramStep(TimerEnds(l, k)))
=============================================================================
