--------------------------- MODULE TelegramListener --------------------------
(***************************************************************************)
(* The listeners of one Telegram account and their album buffers.  The       *)
(* account manager starts a listener, watches its connection, and replaces   *)
(* it when that is gone.  A handler per message downloads its media, so that *)
(* the parts of an album reach the buffer in any order; the buffer waits     *)
(* until nothing has come for a while and hands the album on as one message. *)
(*                                                                         *)
(* enqueue does not wait: handing on is one step with what comes before it.  *)
(***************************************************************************)
EXTENDS Integers, Sequences, FiniteSets, SequencesExt

CONSTANTS
  TgMessages,   \* 1..n, in the order of the chat
  Albums,
  AlbumOf,      \* of each message
  NoAlbum,
  MaxListeners, \* bound: listeners created
  Reconnect     \* TELEGRAM_RECONNECT_ENABLED

ASSUME ListenerAssumption ==
  /\ TgMessages \subseteq Nat \ {0} /\ NoAlbum \notin Albums
  /\ AlbumOf \in [TgMessages -> Albums \cup {NoAlbum}]
  /\ MaxListeners \in Nat \ {0} /\ Reconnect \in BOOLEAN

Listeners == 1..MaxListeners

VARIABLES
  watch,     \* what start or _watch_account is at
  created,   \* listeners created; the last one is being started in "get_me"
  current,   \* the listener in _listeners, or 0
  connected, \* the listeners whose client gets messages
  written,   \* the messages in the chat
  handlers,  \* the handlers under way: listener and message
  group,     \* _groups of each listener, in the order of arrival
  timers,    \* its sleeping _flush_later tasks: the length of the group they were started at
  tgQueue,   \* what was handed to the forward queue
  halfStarted \* history: listeners whose start failed after the handler was added

tgInVars == <<watch, created, current, connected, written, handlers, group, timers,
              tgQueue, halfStarted>>
manager == <<watch, created, current, halfStarted>>
buffers == <<group, timers, tgQueue>>

Watch == {"first", "first_get_me", "again", "again_get_me", "listening", "pause", "over"}

TgInInit ==
  /\ watch = "first" /\ created = 0 /\ current = 0 /\ connected = {}
  /\ written = {} /\ handlers = {} /\ tgQueue = <<>> /\ halfStarted = {}
  /\ group = [l \in Listeners |-> [k \in Albums |-> <<>>]]
  /\ timers = [l \in Listeners |-> [k \in Albums |-> {}]]

Running == watch # "over"

-----------------------------------------------------------------------------
(* The album buffer.                                                        *)

\* Fault: the parts are merged in the order they arrived.
Unsorted(parts) == parts

\* _merge, after the parts are sorted by id.
Merged(parts) ==
  LET order == CHOOSE f \in Bijection(DOMAIN parts, DOMAIN parts) :
                 \A i, j \in DOMAIN parts : i < j => parts[f[i]] <= parts[f[j]]
  IN  [i \in DOMAIN parts |-> parts[order[i]]]

\* Fault: the timer of the part before goes on.
BothTimers(old, n) == old \cup {n}

\* Fault: the timer of the part before is cancelled, and no other started.
NoTimer(old, n) == IF n = 1 THEN {n} ELSE {}

\* A part cancels the timer of the one before it and starts its own.
Restarted(old, n) == {n}

\* TelegramAlbumBuffer.handle
Buffer(l, p) ==
  LET k == AlbumOf[p] IN
  IF k = NoAlbum
    THEN tgQueue' = Append(tgQueue, <<p>>) /\ UNCHANGED <<group, timers>>
    ELSE /\ group' = [group EXCEPT ![l][k] = Append(@, p)]
         /\ timers' = [timers EXCEPT ![l][k] = Restarted(@, Len(group'[l][k]))]
         /\ UNCHANGED tgQueue

\* Fault: the group is not taken out of the buffer.
GroupStays(l, k) == group

Popped(l, k) == [group EXCEPT ![l][k] = <<>>]

\* _flush_later, after the sleep.
TimerEnds(l, k) ==
  /\ Running
  /\ \E n \in timers[l][k] : timers' = [timers EXCEPT ![l][k] = @ \ {n}]
  /\ group' = Popped(l, k)
  /\ tgQueue' = IF group[l][k] = <<>> THEN tgQueue ELSE Append(tgQueue, Merged(group[l][k]))
  /\ UNCHANGED <<manager, connected, written, handlers>>

\* flush_all
FlushAll(l) ==
  LET full == SetToSeq({k \in Albums : group[l][k] # <<>>})
  IN  /\ tgQueue' = tgQueue \o [i \in DOMAIN full |-> Merged(group[l][full[i]])]
      /\ group' = [group EXCEPT ![l] = [k \in Albums |-> <<>>]]
      /\ timers' = [timers EXCEPT ![l] = [k \in Albums |-> {}]]

-----------------------------------------------------------------------------
(* Messages: each client that is connected gets each message once.          *)

WriteMessage(p) ==
  /\ Running /\ p \notin written /\ \A q \in TgMessages : q < p => q \in written
  /\ written' = written \cup {p}
  /\ handlers' = handlers \cup (connected \X {p})
  /\ UNCHANGED <<manager, connected, buffers>>

EndHandler(l, p) ==
  /\ Running /\ <<l, p>> \in handlers /\ handlers' = handlers \ {<<l, p>>}
  /\ UNCHANGED <<manager, connected, written>>

HandlerEnds(l, p) == EndHandler(l, p) /\ Buffer(l, p)

\* An error of the download, or the client cancels its handlers as it disconnects.
HandlerFails(l, p) == EndHandler(l, p) /\ UNCHANGED buffers

-----------------------------------------------------------------------------
(* The account manager.                                                     *)

\* What a start that failed leads to: the first one is not tried again.
StartFailed == watch' = IF watch \in {"first", "first_get_me"} THEN "over" ELSE "pause"

\* The client connects, is logged in, and the handler is added.
StartListener ==
  /\ watch \in {"first", "again"} /\ created < MaxListeners
  /\ watch' = IF watch = "first" THEN "first_get_me" ELSE "again_get_me"
  /\ created' = created + 1 /\ connected' = connected \cup {created'}
  /\ UNCHANGED <<current, written, handlers, buffers, halfStarted>>

ConnectFails ==
  /\ watch \in {"first", "again"} /\ StartFailed
  /\ UNCHANGED <<created, current, connected, written, handlers, buffers, halfStarted>>

ListenerStarted ==
  /\ watch \in {"first_get_me", "again_get_me"}
  /\ watch' = "listening" /\ current' = created
  /\ UNCHANGED <<created, connected, written, handlers, buffers, halfStarted>>

\* get_me fails: the client stays connected, with its handler, and is forgotten.
GetMeFails ==
  /\ watch \in {"first_get_me", "again_get_me"} /\ StartFailed
  /\ halfStarted' = halfStarted \cup {created}
  /\ UNCHANGED <<created, current, connected, written, handlers, buffers>>

ConnectionLost(l) ==
  /\ Running /\ l \in connected /\ connected' = connected \ {l}
  /\ UNCHANGED <<manager, written, handlers, buffers>>

\* The watch takes the disconnected listener out and stops it; without
\* reconnecting, the process ends.
ReplaceListener ==
  /\ watch = "listening" /\ current \notin connected
  /\ watch' = IF Reconnect THEN "pause" ELSE "over"
  /\ current' = 0 /\ FlushAll(current)
  /\ UNCHANGED <<created, connected, written, handlers, halfStarted>>

PauseEnds ==
  /\ watch = "pause" /\ watch' = "again"
  /\ UNCHANGED <<created, current, connected, written, handlers, buffers, halfStarted>>

\* The process is asked to stop: of the listeners it stops the current one.
StopProcess ==
  /\ Running /\ watch' = "over" /\ current' = 0
  /\ IF current = 0 THEN UNCHANGED <<connected, buffers>>
     ELSE connected' = connected \ {current} /\ FlushAll(current)
  /\ UNCHANGED <<created, written, handlers, halfStarted>>

TgInNext ==
  \/ \E p \in TgMessages : WriteMessage(p)
  \/ \E h \in handlers : HandlerEnds(h[1], h[2]) \/ HandlerFails(h[1], h[2])
  \/ \E l \in Listeners, k \in Albums : TimerEnds(l, k)
  \/ StartListener \/ ConnectFails \/ ListenerStarted \/ GetMeFails
  \/ \E l \in connected : ConnectionLost(l)
  \/ ReplaceListener \/ PauseEnds \/ StopProcess
=============================================================================
