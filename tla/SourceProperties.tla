--------------------------- MODULE SourceProperties --------------------------
(***************************************************************************)
(* What the sources promise the forward queue and the administrator.        *)
(***************************************************************************)
EXTENDS Sources

\* The variables have their types; the QR code is refreshed so often at most, counting
\* the one more that a request of the panel, on its way meanwhile, brings.
TypeOK ==
  /\ watch \in Watch /\ created \in 0..MaxListeners /\ current \in 0..created
  /\ connected \subseteq 1..created /\ halfStarted \subseteq 1..created
  /\ written \subseteq TgMessages /\ handlers \subseteq Listeners \X TgMessages
  /\ group \in [Listeners -> [Albums -> Seq(TgMessages)]]
  /\ timers \in [Listeners -> [Albums -> SUBSET Nat]]
  /\ tgQueue \in Seq(Seq(TgMessages))
  /\ sessionLast \in QQMessages \cup {0} /\ events \in 0..MaxEvents
  /\ qqRecent \in Seq(QQMessages) /\ qqForgotten \subseteq QQMessages
  /\ downloading \in [QQMessages -> Nat] /\ qqHanded \in [QQMessages -> Nat]
  /\ {Len(qqRecent), Len(wxRecent)} \subseteq 0..RecentLimit
  /\ creds \in Tokens /\ cursor \in 0..MaxInbound
  /\ file \in [token: Tokens, cursor: 0..MaxInbound]
  /\ login \in Logins /\ expiries \in 0..MaxRefresh + 2 /\ loop \in Loop
  /\ asking \in BOOLEAN /\ wxRecent \in Seq(WxMessages)
  /\ restarts \in 0..MaxRestarts /\ wxHandled \in [WxMessages -> 0..2]
  /\ wxForgotten \subseteq WxMessages /\ wxRewound \subseteq WxMessages
  /\ savedEarly \in BOOLEAN /\ unlinkFailed \in BOOLEAN

\* In how many messages of the queue a Telegram message went.
Times(p) == Cardinality({i \in DOMAIN tgQueue : p \in Range(tgQueue[i])})

\* A message of Telegram is handed on once, alone or in an album, unless a listener
\* whose start had failed half-way went on beside the next one (client.py:66-85,
\* accounts.py:210-230, album_buffer.py:49-64).
TelegramOnce == \A p \in TgMessages : Times(p) > 1 => halfStarted # {}

QQOnce == \A m \in QQMessages : qqHanded[m] > 1 => m \in qqForgotten
WxOnce ==
  \A m \in WxMessages : wxHandled[m] > 1 => m \in wxForgotten /\ m \in wxRewound

\* A message of QQ that was sent as two events is handed on twice only when the
\* duplicate filter had forgotten it, be the first event still downloading; one of
\* Weixin only when, besides, the position in the stream had gone back behind it: at
\* a logout, or at a restart before the position was saved
\* (qq_official/client.py:262, 331-344, service.py:481-483, 508, 623-633,
\* credentials.py:107-138).
EventsOnce == QQOnce /\ WxOnce

\* A message of the queue has its parts in the order of the chat, whatever order
\* their downloads ended in, and a listener splits an album only where nothing
\* came for the whole delay or the listener was stopped (album_buffer.py:23-64).
AlbumWhole ==
  [][/\ \A i \in DOMAIN tgQueue' :
          \A j \in 1..Len(tgQueue'[i]) - 1 : tgQueue'[i][j] <= tgQueue'[i][j + 1]
     /\ \A l \in Listeners, k \in Albums :
          group[l][k] # <<>> /\ group'[l][k] = <<>> /\ current' = current =>
            Len(group[l][k]) \in timers[l][k] \ timers'[l][k]]_tgInVars

\* A restart never skips a message: those up to the saved position were handled,
\* unless a send saved the position in the middle of an answer (service.py:457-486,
\* 811, 818).
SavedIsHandled == \A m \in 1..file.cursor : wxHandled[m] > 0 \/ savedEarly

\* After a logout, by the administrator or because the token was refused, neither
\* the process nor one that starts later has the token, whatever answer was on its
\* way; unless the file could not be removed (service.py:233-239, 377-402,
\* 457-493, credentials.py:140-144).
LogoutLasts == "ended" \in {creds, file.token} => unlinkFailed

\* A part in a buffer, be it of a listener that was stopped, leaves it for the queue
\* unless the process ends, whatever timers were cancelled meanwhile
\* (album_buffer.py:23-64).
AlbumsEnd ==
  \A l \in Listeners, k \in Albums :
    group[l][k] # <<>> ~> group[l][k] = <<>> \/ ~Running
=============================================================================
