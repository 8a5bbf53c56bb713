---------------------------- MODULE WeixinSession ----------------------------
(***************************************************************************)
(* Logging in to Weixin by a QR code and receiving messages: one loop asks   *)
(* for a QR code and its status while logged out, and for messages while     *)
(* logged in.  The web panel asks for a new QR code, or logs out, between    *)
(* any two steps of the loop, so also while an answer is on its way.  The    *)
(* credentials and the position in the stream of messages are saved in one   *)
(* file, which a restarted process loads.                                   *)
(*                                                                         *)
(* Of a token it matters whether a logout was to end it.  What a message     *)
(* leads to besides being handed on, and sending, are in WeixinPending.      *)
(***************************************************************************)
EXTENDS RecentIds, Integers

CONSTANTS
  MaxInbound,  \* bound: messages in the stream
  MaxRefresh,  \* WEIXIN_QR_MAX_REFRESH
  MaxRestarts  \* bound

ASSUME SessionAssumption ==
  /\ MaxInbound \in Nat /\ MaxRefresh \in Nat
  /\ MaxRestarts \in Nat

WxMessages == 1..MaxInbound

VARIABLES
  creds,      \* the token in state.credentials
  cursor,     \* get_updates_buf: the messages up to it were received
  file,       \* what load would find of these
  login,      \* the QR session: none, to be scanned or confirmed, or over, with an
              \* error or without
  expiries,   \* _qr_expired_count
  loop,       \* where _run is
  asking,     \* begin_login waits for its QR code
  wxRecent,
  restarts,
  \* History:
  wxHandled,  \* how often each message was handled, counted up to 2
  wxForgotten, \* messages the filter had noted and dropped, or lost by a restart
  wxRewound,   \* messages received before the position went back behind them
  savedEarly, \* the state was saved while messages of an answer were still to be handled
  unlinkFailed \* a logout could not remove the file

wxHistory == <<wxHandled, wxForgotten, wxRewound, savedEarly, unlinkFailed>>
inbound == <<wxRecent, wxHandled, wxForgotten, savedEarly>>
session == <<creds, cursor, file, wxRewound, unlinkFailed>>
wxVars == <<creds, cursor, file, login, expiries, loop, asking, wxRecent, restarts,
            wxHistory>>

Tokens == {"none", "valid", "ended"}
Logins == {"none", "pending", "over", "error"}

\* Where the loop is: about to start a round; in one of the requests; between
\* messages or in the download for one; in a pause, the last of them the long one.
Loop == [at: {"round", "create", "recreate", "status", "updates", "handle", "media",
              "pause", "backoff"},
         stale: BOOLEAN,       \* the session it asks about is not the current one now
         next: Nat, upto: Nat] \* the messages of the answer still to be handled
Round == [at |-> "round", stale |-> FALSE, next |-> 1, upto |-> 0]
At(where) == [Round EXCEPT !.at = where]

NoFile == [token |-> "none", cursor |-> 0]

WxInit ==
  /\ creds = "none" /\ cursor = 0 /\ file = NoFile /\ login = "none" /\ expiries = 0
  /\ loop = Round /\ asking = FALSE /\ wxRecent = <<>> /\ restarts = 0
  /\ wxHandled = [m \in WxMessages |-> 0] /\ wxForgotten = {}
  /\ wxRewound = {} /\ savedEarly = FALSE /\ unlinkFailed = FALSE

LoggedIn == creds # "none"
Pending == login = "pending"
GoTo(where) == loop' = At(where)

-----------------------------------------------------------------------------
(* The file.                                                                *)

\* _persist; an error of the disk is logged.
Persist(token, position) ==
  file' = [token |-> token, cursor |-> position] \/ UNCHANGED file

\* A token that a logout was to end and that stays.
Ended(t) == IF t = "none" THEN t ELSE "ended"

\* Fault: the file stays.
FileStays == file' = [file EXCEPT !.token = Ended(@)] /\ UNCHANGED unlinkFailed

Unlink ==
  \/ file' = NoFile /\ UNCHANGED unlinkFailed
  \/ file' = [file EXCEPT !.token = Ended(@)] /\ unlinkFailed' = TRUE

\* The session asked about is replaced while its answer is on the way.
Replaced == [loop EXCEPT !.stale = @ \/ loop.at \in {"status", "recreate"}]

\* The position becomes p: messages received after p may come again.
RewindTo(p) == wxRewound' = wxRewound \cup (p + 1..cursor)

\* logout
Logout ==
  /\ Unlink
  /\ creds' = "none" /\ cursor' = 0 /\ RewindTo(0) /\ login' = "none"

-----------------------------------------------------------------------------
(* QR codes.                                                                *)

NeedsQr == ~Pending

\* A round of _run: _login_tick or _poll_inbound as far as its first wait.
BeginRound ==
  /\ loop.at = "round"
  /\ IF LoggedIn THEN loop' = [At("updates") EXCEPT !.next = cursor + 1]
                      /\ UNCHANGED expiries
     ELSE IF NeedsQr /\ login = "error" THEN GoTo("backoff") /\ UNCHANGED expiries
     ELSE IF NeedsQr THEN GoTo("create") /\ expiries' = 0
     ELSE GoTo("status") /\ UNCHANGED expiries
  /\ UNCHANGED <<session, login, asking, inbound, restarts>>

\* The session is dropped, be it the one that failed or a newer one.
BackoffEnds ==
  /\ loop.at = "backoff" /\ GoTo("create") /\ login' = "none" /\ expiries' = 0
  /\ UNCHANGED <<session, asking, inbound, restarts>>

PauseEnd ==
  /\ loop.at = "pause" /\ GoTo("round")
  /\ UNCHANGED <<session, login, expiries, asking, inbound, restarts>>

\* _create_login_session, once the QR code is there.
LoopGetsQr ==
  /\ loop.at \in {"create", "recreate"} /\ login' = "pending"
  /\ GoTo(IF loop.at = "create" THEN "status" ELSE "pause")
  /\ UNCHANGED <<session, expiries, asking, inbound, restarts>>

\* A refresh that failed is noted in the session that had expired.
LoopGetsNoQr ==
  /\ loop.at \in {"create", "recreate"} /\ GoTo("pause")
  /\ login' = IF loop.at = "recreate" /\ ~loop.stale THEN "error" ELSE login
  /\ UNCHANGED <<session, expiries, asking, inbound, restarts>>

\* begin_login
BeginLogin(force) ==
  /\ ~asking /\ (Pending => force)
  /\ asking' = TRUE /\ expiries' = 0
  /\ UNCHANGED <<session, login, loop, inbound, restarts>>

PanelGetsQr ==
  /\ asking /\ asking' = FALSE /\ login' = "pending" /\ loop' = Replaced
  /\ UNCHANGED <<session, expiries, inbound, restarts>>

PanelGetsNoQr ==
  /\ asking /\ asking' = FALSE
  /\ UNCHANGED <<session, login, expiries, loop, inbound, restarts>>

-----------------------------------------------------------------------------
(* The status of a QR code: the answer is about the one the loop asked for,  *)
(* the session may be another by now.                                       *)

StatusAnswer == loop.at = "status" /\ UNCHANGED <<asking, inbound, restarts>>

\* Nothing new, a scan, the error that ends a session, or no answer.
StatusSeen ==
  /\ StatusAnswer /\ GoTo("pause")
  /\ UNCHANGED login \/ (~loop.stale /\ login' = "over")
  /\ UNCHANGED <<session, expiries>>

\* Fault: refreshing never stops.
RefreshedAgain(count) == "over"

\* What a session that has expired becomes.
AfterExpiry(count) == IF count > MaxRefresh THEN "error" ELSE "over"

\* _on_login_expired, which looks at the current session.
Expired ==
  /\ StatusAnswer
  /\ IF login = "none" THEN GoTo("pause") /\ UNCHANGED <<login, expiries>>
     ELSE /\ expiries' = expiries + 1 /\ login' = AfterExpiry(expiries')
          /\ GoTo(IF login' = "error" THEN "pause" ELSE "recreate")
  /\ UNCHANGED session

\* _on_login_confirmed, which also marks the current session.
Confirmed ==
  /\ StatusAnswer /\ GoTo("round")
  /\ creds' = "valid" /\ Persist(creds', cursor)
  /\ login' = IF login = "none" THEN login ELSE "over"
  /\ UNCHANGED <<cursor, wxRewound, unlinkFailed, expiries>>

\* The confirmation comes without a token.
ConfirmedEmpty ==
  /\ StatusAnswer /\ GoTo("pause")
  /\ login' = IF login = "none" THEN login ELSE "error"
  /\ UNCHANGED <<session, expiries>>

-----------------------------------------------------------------------------
(* Messages.                                                                *)

UpdatesAnswer == loop.at = "updates" /\ UNCHANGED <<expiries, asking, inbound, restarts>>

\* Fault: the new position is saved at once.
SavedAtOnce(position) == file' = [token |-> creds, cursor |-> position]

\* The position is kept in memory until the messages are handled.
KeptInMemory(position) == UNCHANGED file

\* The messages after the position that was sent along, and the new position.
Updates ==
  /\ UpdatesAnswer
  /\ \E k \in loop.next - 1..MaxInbound :
       /\ cursor' = k /\ KeptInMemory(k)
       /\ loop' = [loop EXCEPT !.at = "handle", !.upto = k]
  /\ UNCHANGED <<creds, wxRewound, unlinkFailed, login>>

\* No messages and no position, a failed request, or the token is refused.
NoUpdates ==
  /\ UpdatesAnswer
  /\ \/ (GoTo("round") \/ GoTo("pause")) /\ UNCHANGED <<session, login>>
     \/ GoTo("round") /\ Logout

Counted(m) == wxHandled' = [wxHandled EXCEPT ![m] = IF @ < 2 THEN @ + 1 ELSE @]

NextMessage == [loop EXCEPT !.at = "handle", !.next = @ + 1]

\* _handle_inbound as far as the download.
TakeMessage ==
  /\ loop.at = "handle" /\ loop.next <= loop.upto
  /\ \E left \in Kept(wxRecent) :
       /\ wxRecent' = Noted(left, loop.next)
       /\ wxForgotten' = wxForgotten \cup Dropped(wxRecent, left)
       /\ loop' = IF loop.next \in Range(left) THEN NextMessage
                  ELSE [loop EXCEPT !.at = "media"]
  /\ UNCHANGED <<session, login, expiries, asking, restarts, wxHandled, savedEarly>>

\* The message is handed on, or an exception ends its handling.
EndMessage ==
  /\ loop.at = "media" /\ loop' = NextMessage /\ Counted(loop.next)
  /\ UNCHANGED <<session, login, expiries, asking, restarts, wxRecent, wxForgotten, savedEarly>>

SaveInbound ==
  /\ loop.at = "handle" /\ loop.next > loop.upto /\ GoTo("round")
  /\ Persist(creds, cursor)
  /\ UNCHANGED <<creds, cursor, wxRewound, unlinkFailed, login, expiries, asking, inbound,
                 restarts>>

LoopStep ==
  \/ BeginRound \/ BackoffEnds \/ PauseEnd \/ LoopGetsQr \/ LoopGetsNoQr
  \/ StatusSeen \/ Expired \/ Confirmed \/ ConfirmedEmpty
  \/ Updates \/ NoUpdates \/ TakeMessage \/ EndMessage \/ SaveInbound

-----------------------------------------------------------------------------
(* The others.                                                              *)

\* The panel logs out.
PanelLogsOut ==
  /\ Logout /\ loop' = Replaced
  /\ UNCHANGED <<expiries, asking, inbound, restarts>>

Unhandled == IF loop.at \in {"handle", "media"} THEN loop.next..loop.upto ELSE {}

\* Sending saves the state, which by then has the new position.
SendSaves ==
  /\ Persist(creds, cursor) /\ savedEarly' = (savedEarly \/ Unhandled # {})
  /\ UNCHANGED <<creds, cursor, wxRewound, unlinkFailed, login, expiries, loop, asking,
                 restarts, wxRecent, wxHandled, wxForgotten>>

\* Fault: the position is not loaded.
PositionNotLoaded == 0

\* The position that load finds.
PositionLoaded == file.cursor

\* The process stops or crashes anywhere, and starts again.
Restart ==
  /\ restarts < MaxRestarts /\ restarts' = restarts + 1
  /\ creds' = file.token /\ login' = "none" /\ expiries' = 0
  /\ cursor' = PositionLoaded /\ RewindTo(file.cursor)
  /\ loop' = Round /\ asking' = FALSE /\ wxRecent' = <<>>
  /\ wxForgotten' = wxForgotten \cup Range(wxRecent)
  /\ UNCHANGED <<file, wxHandled, savedEarly, unlinkFailed>>

WxNext ==
  \/ LoopStep
  \/ \E force \in BOOLEAN : BeginLogin(force)
  \/ PanelGetsQr \/ PanelGetsNoQr \/ PanelLogsOut \/ SendSaves \/ Restart
=============================================================================
