---------------------------- MODULE SourceProofs -----------------------------
(***************************************************************************)
(* Proofs about the sources, for every value of the constants: the Weixin    *)
(* session, and the duplicate filters of Weixin and QQ.                     *)
(***************************************************************************)
EXTENDS SourceProperties, SequenceTheorems, TLAPS

-----------------------------------------------------------------------------
(* The invariants of the Weixin session.                                    *)

WxTypes ==
  /\ creds \in Tokens /\ cursor \in 0..MaxInbound
  /\ file \in [token: Tokens, cursor: 0..MaxInbound]
  /\ loop \in Loop /\ wxRecent \in Seq(WxMessages)
  /\ wxHandled \in [WxMessages -> 0..2]
  /\ savedEarly \in BOOLEAN /\ unlinkFailed \in BOOLEAN

\* The loop is at a message of the answer, or past the last one.
LoopPlaced ==
  /\ loop.next \in 1..MaxInbound + 1 /\ loop.upto \in 0..MaxInbound
  /\ loop.at = "media" => loop.next <= loop.upto

Handled(m) == wxHandled[m] > 0

\* Where the positions in memory, in the file and in the loop are, all before them was
\* handled; of an answer still being handled the position in memory may be ahead.
PositionsHandled ==
  /\ \A m \in 1..cursor : Handled(m) \/ m \in Unhandled \/ savedEarly
  /\ \A m \in 1..file.cursor : Handled(m) \/ savedEarly
  /\ loop.at \in {"updates", "handle", "media"} =>
       \A m \in 1..loop.next - 1 : Handled(m) \/ savedEarly

\* The filter holds what was handled and what is being handled; what was handled is in
\* the filter or was in it.
FilterHandled ==
  /\ \A m \in WxMessages : m \in Range(wxRecent) =>
       Handled(m) \/ (loop.at = "media" /\ m = loop.next)
  /\ \A m \in WxMessages : Handled(m) => m \in Range(wxRecent) \/ m \in wxForgotten
  /\ loop.at = "media" =>
       /\ loop.next \in Range(wxRecent)
       /\ Handled(loop.next) => loop.next \in wxForgotten

\* What was handled twice was forgotten by the filter.
ForgottenFirst == \A m \in WxMessages : wxHandled[m] > 1 => m \in wxForgotten

WxInv ==
  /\ WxTypes /\ LoopPlaced /\ PositionsHandled /\ FilterHandled /\ LogoutLasts /\ ForgottenFirst

-----------------------------------------------------------------------------
(* The invariants of the QQ client.                                         *)

\* The handlers of a message that are under way or handed it on.
Started(m) == downloading[m] + qqHanded[m]

QQInv ==
  /\ qqRecent \in Seq(QQMessages)
  /\ downloading \in [QQMessages -> Nat] /\ qqHanded \in [QQMessages -> Nat]
  /\ \A m \in QQMessages :
       /\ Started(m) > 0 => m \in Range(qqRecent) \/ m \in qqForgotten
       /\ Started(m) > 1 => m \in qqForgotten

-----------------------------------------------------------------------------
(* The duplicate filter.                                                    *)

\* What is kept of the filter was in it.
LEMMA KeptIs ==
  ASSUME NEW S, NEW recent \in Seq(S), NEW left \in Kept(recent)
  PROVE  left \in Seq(S) /\ Range(left) \subseteq Range(recent)
<1>1. PICK i \in 1..Len(recent) + 1 : left = SubSeq(recent, i, Len(recent))
  BY DEF Kept
<1>2. Len(recent) \in Nat /\ DOMAIN recent = 1..Len(recent)
  BY LenProperties
<1>3. \A k \in i..Len(recent) : recent[k] \in S
  BY <1>2, ElementOfSeq
<1>4. /\ left \in Seq(S)
      /\ Len(left) = IF i <= Len(recent) THEN Len(recent) - i + 1 ELSE 0
      /\ \A k \in 1..Len(recent) - i + 1 : left[k] = recent[i + k - 1]
  BY <1>1, <1>2, <1>3, SubSeqProperties
<1>5. DOMAIN left = 1..Len(left)
  BY <1>4, LenProperties
<1>6. ASSUME NEW k \in DOMAIN left PROVE left[k] \in Range(recent)
  <2>1. k \in 1..Len(recent) - i + 1 /\ i + k - 1 \in 1..Len(recent)
    BY <1>2, <1>4, <1>5
  <2> QED
    BY <1>2, <1>4, <2>1 DEF Range
<1> QED
  BY <1>4, <1>6 DEF Range

\* After it was asked for an id the filter holds that too.
LEMMA NotedIs ==
  ASSUME NEW S, NEW left \in Seq(S), NEW id \in S
  PROVE  Noted(left, id) \in Seq(S) /\ Range(Noted(left, id)) = Range(left) \cup {id}
<1>1. CASE id \in Range(left)
  BY <1>1 DEF Noted
<1>2. CASE id \notin Range(left)
  <2> DEFINE r == Append(left, id)
  <2>1. /\ r \in Seq(S) /\ Len(r) = Len(left) + 1
        /\ \A i \in 1..Len(left) : r[i] = left[i]
        /\ r[Len(left) + 1] = id
    BY AppendProperties
  <2>2. Len(left) \in Nat /\ DOMAIN left = 1..Len(left) /\ DOMAIN r = 1..Len(r)
    BY <2>1, LenProperties
  <2>3. Noted(left, id) = r
    BY <1>2 DEF Noted
  <2> HIDE DEF r
  <2>4. DOMAIN r = 1..Len(left) + 1
    BY <2>1, <2>2
  <2>5. Range(r) \subseteq Range(left) \cup {id}
    <3> SUFFICES ASSUME NEW i \in 1..Len(left) + 1 PROVE r[i] \in Range(left) \cup {id}
      BY <2>4 DEF Range
    <3>1. CASE i = Len(left) + 1
      BY <2>1, <3>1
    <3>2. CASE i \in 1..Len(left)
      BY <2>1, <2>2, <3>2 DEF Range
    <3> QED
      BY <2>2, <3>1, <3>2
  <2>6. Range(left) \cup {id} \subseteq Range(r)
    <3>1. \A i \in DOMAIN left : i \in DOMAIN r /\ r[i] = left[i]
      BY <2>1, <2>2, <2>4
    <3>2. Len(left) + 1 \in DOMAIN r
      BY <2>2, <2>4
    <3> QED
      BY <2>1, <3>1, <3>2 DEF Range
  <2> QED
    BY <2>1, <2>3, <2>5, <2>6
<1> QED
  BY <1>1, <1>2

-----------------------------------------------------------------------------
(* The Weixin session.                                                      *)

LEMMA AtIs ==
  \A where \in {"round", "create", "recreate", "status", "updates", "handle", "media", "pause",
                "backoff"} :
    /\ At(where) \in Loop /\ At(where).at = where /\ At(where).next = 1 /\ At(where).upto = 0
BY DEF At, Round, Loop

\* The loop after a step that sets some of its fields.
LEMMA NextIs ==
  ASSUME loop \in Loop, NEW n \in Nat, loop' = [loop EXCEPT !.at = "handle", !.next = n]
  PROVE  loop' \in Loop /\ loop'.at = "handle" /\ loop'.next = n /\ loop'.upto = loop.upto
BY DEF Loop

LEMMA AnswerIs ==
  ASSUME loop \in Loop, NEW n \in Nat, loop' = [loop EXCEPT !.at = "handle", !.upto = n]
  PROVE  loop' \in Loop /\ loop'.at = "handle" /\ loop'.next = loop.next /\ loop'.upto = n
BY DEF Loop

LEMMA DownloadIs ==
  ASSUME loop \in Loop, loop' = [loop EXCEPT !.at = "media"]
  PROVE  /\ loop' \in Loop /\ loop'.at = "media" /\ loop'.next = loop.next
         /\ loop'.upto = loop.upto
BY DEF Loop

LEMMA RoundIs == Round \in Loop /\ Round.at = "round" /\ Round.next = 1 /\ Round.upto = 0
BY DEF Round, Loop

\* What an answer still being handled is.
LEMMA UnhandledIs ==
  ASSUME WxInv
  PROVE  /\ loop.next \in Nat /\ loop.upto \in Nat /\ MaxInbound \in Nat
         /\ loop.at = "media" => Unhandled # {}
         /\ loop.at \notin {"handle", "media"} => Unhandled = {}
BY SessionAssumption DEF WxInv, LoopPlaced, Unhandled

\* A step that handles no message keeps the invariants.
LEMMA LoopMoves ==
  ASSUME WxInv, UNCHANGED inbound, loop' \in Loop, creds' \in Tokens, unlinkFailed' \in BOOLEAN,
         cursor' \in {cursor, 0}, file' \in [token: Tokens, cursor: 0..MaxInbound],
         \/ loop'.at = loop.at /\ loop'.next = loop.next /\ loop'.upto = loop.upto
         \/ /\ Unhandled = {} /\ loop'.at \notin {"handle", "media"} /\ loop'.upto = 0
            /\ loop'.next = IF loop'.at = "updates" THEN cursor + 1 ELSE 1,
         file'.cursor \in {file.cursor, 0} \/ (Unhandled = {} /\ file'.cursor = cursor),
         LogoutLasts'
  PROVE  WxInv'
<1>1. /\ cursor \in 0..MaxInbound /\ file.cursor \in 0..MaxInbound /\ MaxInbound \in Nat
      /\ wxRecent' = wxRecent /\ wxHandled' = wxHandled /\ wxForgotten' = wxForgotten
      /\ savedEarly' = savedEarly
  BY SessionAssumption DEF WxInv, WxTypes, inbound
<1>2. WxTypes'
  BY <1>1 DEF WxInv, WxTypes
<1>3. LoopPlaced'
  BY <1>1 DEF WxInv, LoopPlaced
<1>4. Unhandled' = Unhandled
  BY DEF Unhandled
<1>5. PositionsHandled'
  <2>1. /\ \A m \in 1..cursor : Handled(m) \/ m \in Unhandled \/ savedEarly
        /\ \A m \in 1..file.cursor : Handled(m) \/ savedEarly
    BY DEF WxInv, PositionsHandled
  <2>2. \A m \in 1..cursor' : Handled(m)' \/ m \in Unhandled' \/ savedEarly'
    BY <1>1, <1>4, <2>1 DEF Handled
  <2>3. \A m \in 1..file'.cursor : Handled(m)' \/ savedEarly'
    BY <1>1, <2>1 DEF Handled
  <2>4. ASSUME loop'.at \in {"updates", "handle", "media"}, NEW m \in 1..loop'.next - 1
        PROVE  Handled(m)' \/ savedEarly'
    <3>1. CASE loop'.at = loop.at /\ loop'.next = loop.next
      BY <1>1, <2>4, <3>1 DEF WxInv, PositionsHandled, Handled
    <3>2. CASE Unhandled = {} /\ loop'.at = "updates" /\ loop'.next = cursor + 1
      <4>1. m \in 1..cursor
        BY <1>1, <2>4, <3>2
      <4> QED
        BY <1>1, <2>1, <3>2, <4>1 DEF Handled
    <3> QED
      BY <2>4, <3>1, <3>2
  <2> QED
    BY <2>2, <2>3, <2>4 DEF PositionsHandled
<1>6. FilterHandled'
  <2>1. /\ loop'.at = "media" => loop.at = "media" /\ loop'.next = loop.next
        /\ loop.at = "media" => loop'.at = "media" /\ loop'.next = loop.next
    BY UnhandledIs
  <2> QED
    BY <1>1, <2>1 DEF WxInv, FilterHandled, Handled
<1>7. ForgottenFirst'
  BY <1>1 DEF WxInv, ForgottenFirst
<1> QED
  BY <1>2, <1>3, <1>5, <1>6, <1>7 DEF WxInv

\* Nobody has a token that a logout was to end, unless the file could not be removed.
LEMMA TokensKept ==
  ASSUME WxInv, creds' \in {creds, "none", "valid"}, unlinkFailed => unlinkFailed',
         file'.token \in {file.token, creds, creds', "none"} \/ unlinkFailed'
  PROVE  LogoutLasts'
BY DEF WxInv, LogoutLasts

\* What the steps about tokens and QR codes do to the loop.
LEMMA LoginMoves ==
  ASSUME loop \in Loop, cursor \in 0..MaxInbound,
         loop.at \in {"handle", "media"} \/ Unhandled = {},
         \/ BeginRound \/ BackoffEnds \/ PauseEnd \/ LoopGetsQr \/ LoopGetsNoQr
         \/ StatusSeen \/ Expired \/ ConfirmedEmpty
         \/ \E force \in BOOLEAN : BeginLogin(force)
         \/ PanelGetsQr \/ PanelGetsNoQr
  PROVE  \/ /\ loop' \in Loop
            /\ loop'.at = loop.at /\ loop'.next = loop.next /\ loop'.upto = loop.upto
         \/ /\ Unhandled = {} /\ loop' \in Loop /\ loop'.at \notin {"handle", "media"}
            /\ loop'.upto = 0 /\ loop'.next = IF loop'.at = "updates" THEN cursor + 1 ELSE 1
<1>1. CASE (\E force \in BOOLEAN : BeginLogin(force)) \/ PanelGetsNoQr
  BY <1>1 DEF BeginLogin, PanelGetsNoQr
<1>2. CASE PanelGetsQr
  <2>1. \/ loop' = [loop EXCEPT !.stale = TRUE]
        \/ loop' = [loop EXCEPT !.stale = loop.stale]
    BY <1>2 DEF PanelGetsQr, Replaced, Loop
  <2> QED
    BY <2>1 DEF Loop
<1>3. CASE BeginRound /\ LoggedIn
  <2>1. loop' = [At("updates") EXCEPT !.next = cursor + 1] /\ loop.at = "round"
    BY <1>3 DEF BeginRound
  <2>2. At("updates") \in Loop /\ At("updates").at = "updates" /\ At("updates").upto = 0
    BY AtIs
  <2>3. /\ loop' \in Loop /\ loop'.at = "updates" /\ loop'.upto = 0
        /\ loop'.next = cursor + 1
    BY <2>1, <2>2 DEF Loop
  <2> QED
    BY <2>1, <2>3
<1>4. CASE \/ (BeginRound /\ ~LoggedIn) \/ BackoffEnds \/ PauseEnd \/ LoopGetsQr \/ LoopGetsNoQr
           \/ StatusSeen \/ Expired \/ ConfirmedEmpty
  <2>1. /\ \E where \in {"round", "create", "recreate", "status", "pause", "backoff"} :
             loop' = At(where)
        /\ loop.at \notin {"handle", "media"}
    BY <1>4 DEF BeginRound, BackoffEnds, PauseEnd, LoopGetsQr, LoopGetsNoQr, StatusSeen, Expired,
                ConfirmedEmpty, StatusAnswer, GoTo
  <2>2. PICK where \in {"round", "create", "recreate", "status", "pause", "backoff"} :
          loop' = At(where)
    BY <2>1
  <2>3. loop' \in Loop /\ loop'.at = where /\ loop'.next = 1 /\ loop'.upto = 0
    BY <2>2, AtIs
  <2> QED
    BY <2>1, <2>3
<1> QED
  BY <1>1, <1>2, <1>3, <1>4

\* The steps of the loop and of the panel about tokens and QR codes.
LEMMA LoginKeeps ==
  ASSUME WxInv,
         \/ BeginRound \/ BackoffEnds \/ PauseEnd \/ LoopGetsQr \/ LoopGetsNoQr
         \/ StatusSeen \/ Expired \/ ConfirmedEmpty
         \/ \E force \in BOOLEAN : BeginLogin(force)
         \/ PanelGetsQr \/ PanelGetsNoQr
  PROVE  WxInv'
<1>1. /\ UNCHANGED <<creds, cursor, file, unlinkFailed>> /\ UNCHANGED inbound
  BY DEF BeginRound, BackoffEnds, PauseEnd, LoopGetsQr, LoopGetsNoQr, StatusSeen, StatusAnswer,
         Expired, ConfirmedEmpty, BeginLogin, PanelGetsQr, PanelGetsNoQr, session
<1>2. /\ loop \in Loop /\ creds \in Tokens /\ cursor \in 0..MaxInbound
      /\ file \in [token: Tokens, cursor: 0..MaxInbound] /\ unlinkFailed \in BOOLEAN
  BY DEF WxInv, WxTypes
<1>3. \/ /\ loop' \in Loop
         /\ loop'.at = loop.at /\ loop'.next = loop.next /\ loop'.upto = loop.upto
      \/ /\ Unhandled = {} /\ loop' \in Loop /\ loop'.at \notin {"handle", "media"}
         /\ loop'.upto = 0 /\ loop'.next = IF loop'.at = "updates" THEN cursor + 1 ELSE 1
  BY <1>2, UnhandledIs, LoginMoves
<1>4. LogoutLasts'
  BY <1>1, TokensKept
<1> QED
  BY <1>1, <1>2, <1>3, <1>4, LoopMoves

\* Writing the file: it keeps what it had, or has the token and position of memory.
LEMMA PersistIs ==
  ASSUME NEW t \in Tokens, NEW position \in 0..MaxInbound, Persist(t, position),
         file \in [token: Tokens, cursor: 0..MaxInbound]
  PROVE  /\ file' \in [token: Tokens, cursor: 0..MaxInbound]
         /\ file' = file \/ (file'.token = t /\ file'.cursor = position)
BY DEF Persist

LEMMA LogoutKeeps ==
  ASSUME WxInv, Logout, UNCHANGED inbound,
         loop' = Replaced \/ (loop' = Round /\ loop.at = "updates")
  PROVE  WxInv'
<1>1. /\ loop \in Loop /\ file \in [token: Tokens, cursor: 0..MaxInbound]
      /\ creds \in Tokens /\ cursor \in 0..MaxInbound /\ unlinkFailed \in BOOLEAN
      /\ MaxInbound \in Nat
  BY SessionAssumption DEF WxInv, WxTypes
<1>2. creds' = "none" /\ creds' \in Tokens /\ cursor' = 0
  BY DEF Logout, Tokens
<1>3. \/ file' = NoFile /\ unlinkFailed' = unlinkFailed
      \/ file' = [file EXCEPT !.token = Ended(file.token)] /\ unlinkFailed' = TRUE
  BY <1>1 DEF Logout, Unlink
<1>4. /\ file' \in [token: Tokens, cursor: 0..MaxInbound] /\ file'.cursor \in {file.cursor, 0}
      /\ file'.token = "none" \/ unlinkFailed' = TRUE
  BY <1>1, <1>3 DEF NoFile, Tokens, Ended
<1>5. unlinkFailed' \in BOOLEAN /\ (unlinkFailed => unlinkFailed')
  BY <1>1, <1>3, Zenon
<1>6. LogoutLasts'
  <2>1. unlinkFailed' = TRUE => unlinkFailed'
    BY Zenon
  <2> QED
    BY <1>2, <1>4, <1>5, <2>1, TokensKept
<1>7. \/ /\ loop' \in Loop
         /\ loop'.at = loop.at /\ loop'.next = loop.next /\ loop'.upto = loop.upto
      \/ /\ Unhandled = {} /\ loop' \in Loop /\ loop'.at \notin {"handle", "media"}
         /\ loop'.upto = 0 /\ loop'.next = IF loop'.at = "updates" THEN cursor + 1 ELSE 1
  <2>1. CASE loop' = Replaced
    <3>1. \/ loop' = [loop EXCEPT !.stale = TRUE]
          \/ loop' = [loop EXCEPT !.stale = loop.stale]
      BY <1>1, <2>1 DEF Replaced, Loop
    <3> QED
      BY <1>1, <3>1 DEF Loop
  <2>2. CASE loop' = Round /\ loop.at = "updates"
    <3>1. /\ loop' \in Loop /\ loop'.at = "round" /\ loop'.next = 1 /\ loop'.upto = 0
      BY <2>2, RoundIs
    <3> QED
      BY <2>2, <3>1, UnhandledIs
  <2> QED
    BY <2>1, <2>2
<1> QED
  BY <1>2, <1>4, <1>5, <1>6, <1>7, LoopMoves

LEMMA SavingKeeps ==
  ASSUME WxInv, Confirmed \/ SaveInbound
  PROVE  WxInv'
<1>1. /\ loop \in Loop /\ file \in [token: Tokens, cursor: 0..MaxInbound]
      /\ creds \in Tokens /\ cursor \in 0..MaxInbound /\ unlinkFailed \in BOOLEAN
  BY DEF WxInv, WxTypes
<1>2. /\ UNCHANGED inbound /\ cursor' = cursor /\ unlinkFailed' = unlinkFailed
      /\ creds' \in {creds, "valid"} /\ Persist(creds', cursor) /\ loop' = At("round")
  BY DEF Confirmed, SaveInbound, StatusAnswer, GoTo
<1>3. Unhandled = {}
  BY UnhandledIs DEF Confirmed, SaveInbound, StatusAnswer, Unhandled
<1>4. creds' \in Tokens
  BY <1>1, <1>2 DEF Tokens
<1>5. /\ file' \in [token: Tokens, cursor: 0..MaxInbound]
      /\ file' = file \/ (file'.token = creds' /\ file'.cursor = cursor)
  BY <1>1, <1>2, <1>4, PersistIs
<1>6. LogoutLasts'
  BY <1>2, <1>5, TokensKept
<1>7. loop' \in Loop /\ loop'.at = "round" /\ loop'.next = 1 /\ loop'.upto = 0
  BY <1>2, AtIs
<1>8. file'.cursor \in {file.cursor, 0} \/ (Unhandled = {} /\ file'.cursor = cursor)
  BY <1>3, <1>5
<1> QED
  BY <1>1, <1>2, <1>3, <1>4, <1>5, <1>6, <1>7, <1>8, LoopMoves

LEMMA UpdatesKeep ==
  ASSUME WxInv, Updates
  PROVE  WxInv'
<1>1. /\ loop \in Loop /\ file \in [token: Tokens, cursor: 0..MaxInbound]
      /\ loop.at = "updates" /\ loop.next \in 1..MaxInbound + 1 /\ MaxInbound \in Nat
  BY SessionAssumption DEF WxInv, WxTypes, LoopPlaced, Updates, UpdatesAnswer
<1>2. PICK k \in loop.next - 1..MaxInbound :
        /\ cursor' = k /\ file' = file
        /\ loop' = [loop EXCEPT !.at = "handle", !.upto = k]
  BY DEF Updates, KeptInMemory
<1>3. k \in 0..MaxInbound
  BY <1>1
<1>4. loop' \in Loop /\ loop'.at = "handle" /\ loop'.next = loop.next /\ loop'.upto = k
  <2>1. k \in Nat /\ loop \in Loop
    BY <1>1, <1>3
  <2> QED
    BY <1>2, <2>1, AnswerIs, Zenon
<1>5. /\ UNCHANGED <<creds, unlinkFailed>> /\ wxRecent' = wxRecent /\ wxHandled' = wxHandled
      /\ wxForgotten' = wxForgotten /\ savedEarly' = savedEarly
  BY DEF Updates, UpdatesAnswer, inbound
<1>6. WxTypes'
  BY <1>2, <1>3, <1>4, <1>5 DEF WxInv, WxTypes
<1>7. LoopPlaced'
  BY <1>1, <1>3, <1>4 DEF LoopPlaced
<1>8. PositionsHandled'
  <2>1. /\ \A m \in 1..loop.next - 1 : Handled(m) \/ savedEarly
        /\ \A m \in 1..file.cursor : Handled(m) \/ savedEarly
    BY <1>1 DEF WxInv, PositionsHandled
  <2>2. ASSUME NEW m \in 1..cursor' PROVE Handled(m)' \/ m \in Unhandled' \/ savedEarly'
    <3>1. CASE m \in 1..loop.next - 1
      BY <1>5, <2>1, <3>1 DEF Handled
    <3>2. CASE m \notin 1..loop.next - 1
      BY <1>1, <1>2, <1>4, <3>2 DEF Unhandled
    <3> QED
      BY <3>1, <3>2
  <2> QED
    BY <1>2, <1>4, <1>5, <2>1, <2>2 DEF PositionsHandled, Handled
<1>9. FilterHandled'
  BY <1>1, <1>4, <1>5 DEF WxInv, FilterHandled, Handled
<1>10. LogoutLasts' /\ ForgottenFirst'
  BY <1>2, <1>5 DEF WxInv, LogoutLasts, ForgottenFirst
<1> QED
  BY <1>6, <1>7, <1>8, <1>9, <1>10 DEF WxInv

LEMMA TakeKeeps ==
  ASSUME WxInv, TakeMessage
  PROVE  WxInv'
<1> DEFINE m == loop.next
<1>1. /\ loop \in Loop /\ loop.at = "handle" /\ m <= loop.upto /\ m \in WxMessages
      /\ loop.upto \in 0..MaxInbound /\ MaxInbound \in Nat /\ wxRecent \in Seq(WxMessages)
  BY SessionAssumption DEF WxInv, WxTypes, LoopPlaced, TakeMessage, WxMessages
<1>2. PICK left \in Kept(wxRecent) :
        /\ wxRecent' = Noted(left, m)
        /\ wxForgotten' = wxForgotten \cup Dropped(wxRecent, left)
        /\ loop' = IF m \in Range(left) THEN NextMessage ELSE [loop EXCEPT !.at = "media"]
  BY DEF TakeMessage
<1>3. left \in Seq(WxMessages) /\ Range(left) \subseteq Range(wxRecent)
  BY <1>1, KeptIs
<1>4. wxRecent' \in Seq(WxMessages) /\ Range(wxRecent') = Range(left) \cup {m}
  BY <1>1, <1>2, <1>3, NotedIs
<1>5. /\ UNCHANGED <<creds, cursor, file, unlinkFailed, wxHandled, savedEarly>>
  BY DEF TakeMessage, session
<1>6. /\ loop' \in Loop /\ loop'.upto = loop.upto
      /\ \/ loop'.at = "handle" /\ loop'.next = m + 1 /\ m \in Range(left)
         \/ loop'.at = "media" /\ loop'.next = m /\ m \notin Range(left)
  <2>1. CASE m \in Range(left)
    <3>1. m + 1 \in Nat /\ loop' = [loop EXCEPT !.at = "handle", !.next = m + 1]
      BY <1>1, <1>2, <2>1 DEF NextMessage, WxMessages
    <3>2. loop' \in Loop /\ loop'.at = "handle" /\ loop'.next = m + 1 /\ loop'.upto = loop.upto
      BY <1>1, <3>1, NextIs, Zenon
    <3> QED
      BY <2>1, <3>2
  <2>2. CASE m \notin Range(left)
    BY <1>1, <1>2, <2>2, DownloadIs
  <2> QED
    BY <2>1, <2>2
<1>7. m \in Range(left) => Handled(m)
  BY <1>1, <1>3 DEF WxInv, FilterHandled
<1>8. WxTypes'
  BY <1>4, <1>5, <1>6 DEF WxInv, WxTypes
<1>9. LoopPlaced'
  BY <1>1, <1>6 DEF LoopPlaced, WxMessages
<1>10. PositionsHandled'
  <2>1. /\ \A i \in 1..cursor : Handled(i) \/ i \in Unhandled \/ savedEarly
        /\ \A i \in 1..file.cursor : Handled(i) \/ savedEarly
        /\ \A i \in 1..m - 1 : Handled(i) \/ savedEarly
    BY <1>1 DEF WxInv, PositionsHandled
  <2>2. \A i \in Unhandled : i \in Unhandled' \/ Handled(i)
    BY <1>1, <1>6, <1>7 DEF Unhandled, WxMessages
  <2>3. \A i \in 1..loop'.next - 1 : Handled(i) \/ savedEarly
    BY <1>1, <1>6, <1>7, <2>1 DEF WxMessages
  <2> QED
    BY <1>5, <2>1, <2>2, <2>3 DEF PositionsHandled, Handled
<1>11. FilterHandled'
  <2>1. ASSUME NEW i \in WxMessages, i \in Range(wxRecent')
        PROVE  Handled(i)' \/ (loop'.at = "media" /\ i = loop'.next)
    BY <1>1, <1>3, <1>4, <1>5, <1>6, <1>7, <2>1 DEF WxInv, FilterHandled, Handled
  <2>2. ASSUME NEW i \in WxMessages, Handled(i), i \notin Range(wxRecent')
        PROVE  i \in wxForgotten'
    BY <1>2, <1>4, <2>2 DEF WxInv, FilterHandled, Dropped
  <2>3. loop'.at = "media" => /\ loop'.next \in Range(wxRecent')
                              /\ Handled(loop'.next) => loop'.next \in wxForgotten'
    <3> SUFFICES ASSUME loop'.at = "media"
                 PROVE  m \in Range(wxRecent') /\ (Handled(m) => m \in wxForgotten')
      BY <1>6
    <3>1. m \notin Range(left)
      BY <1>6
    <3>2. Handled(m) => m \in Range(wxRecent) \/ m \in wxForgotten
      BY <1>1 DEF WxInv, FilterHandled
    <3> QED
      BY <1>2, <1>4, <3>1, <3>2 DEF Dropped
  <2> QED
    BY <1>5, <2>1, <2>2, <2>3 DEF FilterHandled, Handled
<1>12. LogoutLasts' /\ ForgottenFirst'
  BY <1>2, <1>5 DEF WxInv, LogoutLasts, ForgottenFirst
<1> QED
  BY <1>8, <1>9, <1>10, <1>11, <1>12 DEF WxInv

LEMMA EndKeeps ==
  ASSUME WxInv, EndMessage
  PROVE  WxInv'
<1> DEFINE m == loop.next
<1>1. /\ loop \in Loop /\ loop.at = "media" /\ m <= loop.upto /\ m \in WxMessages
      /\ loop.upto \in 0..MaxInbound /\ MaxInbound \in Nat
      /\ wxHandled \in [WxMessages -> 0..2]
  BY SessionAssumption DEF WxInv, WxTypes, LoopPlaced, EndMessage, WxMessages
<1>2. /\ UNCHANGED <<creds, cursor, file, unlinkFailed, wxRecent, wxForgotten, savedEarly>>
      /\ loop' = [loop EXCEPT !.at = "handle", !.next = m + 1]
      /\ wxHandled' = [wxHandled EXCEPT ![m] = IF wxHandled[m] < 2 THEN wxHandled[m] + 1
                                                                 ELSE wxHandled[m]]
  BY DEF EndMessage, session, NextMessage, Counted
<1>3. loop' \in Loop /\ loop'.upto = loop.upto /\ loop'.at = "handle" /\ loop'.next = m + 1
  <2>1. m + 1 \in Nat
    BY <1>1 DEF WxMessages
  <2> QED
    BY <1>1, <1>2, <2>1, NextIs, Zenon
<1>4. /\ wxHandled' \in [WxMessages -> 0..2] /\ wxHandled'[m] > 0
      /\ \A i \in WxMessages : i # m => wxHandled'[i] = wxHandled[i]
      /\ wxHandled[m] = 0 => wxHandled'[m] = 1
  BY <1>1, <1>2
<1>5. \A i \in WxMessages : Handled(i) => wxHandled'[i] > 0
  BY <1>1, <1>4 DEF Handled
<1>6. wxHandled'[m] > 0 /\ \A i \in WxMessages : i # m => (wxHandled'[i] > 0 <=> Handled(i))
  BY <1>4 DEF Handled
<1>7. WxTypes'
  BY <1>2, <1>3, <1>4 DEF WxInv, WxTypes
<1>8. LoopPlaced'
  BY <1>1, <1>3 DEF LoopPlaced, WxMessages
<1>9. PositionsHandled'
  <2>1. /\ \A i \in 1..cursor : Handled(i) \/ i \in Unhandled \/ savedEarly
        /\ \A i \in 1..file.cursor : Handled(i) \/ savedEarly
        /\ \A i \in 1..m - 1 : Handled(i) \/ savedEarly
        /\ cursor \in 0..MaxInbound /\ file.cursor \in 0..MaxInbound
    BY <1>1 DEF WxInv, PositionsHandled, WxTypes
  <2>2. \A i \in Unhandled : i \in Unhandled' \/ i = m
    BY <1>1, <1>3 DEF Unhandled, WxMessages
  <2>3. /\ 1..cursor \subseteq WxMessages /\ 1..file.cursor \subseteq WxMessages
        /\ 1..m \subseteq WxMessages /\ m + 1 - 1 = m /\ 1..m = (1..m - 1) \cup {m}
    BY <1>1, <2>1 DEF WxMessages
  <2>4. ASSUME NEW i \in 1..cursor PROVE wxHandled'[i] > 0 \/ i \in Unhandled' \/ savedEarly
    <3>1. i \in WxMessages
      BY <2>3
    <3> QED
      BY <1>5, <1>6, <2>1, <2>2, <3>1
  <2>5. \A i \in 1..file.cursor : wxHandled'[i] > 0 \/ savedEarly
    BY <1>5, <2>1, <2>3
  <2>6. ASSUME NEW i \in 1..m PROVE wxHandled'[i] > 0 \/ savedEarly
    <3>1. i \in WxMessages /\ (i = m \/ i \in 1..m - 1)
      BY <2>3
    <3> QED
      BY <1>5, <1>6, <2>1, <3>1
  <2> QED
    BY <1>2, <1>3, <2>3, <2>4, <2>5, <2>6 DEF PositionsHandled, Handled
<1>10. FilterHandled'
  <2>1. /\ \A i \in WxMessages : i \in Range(wxRecent) => Handled(i) \/ i = m
        /\ \A i \in WxMessages : Handled(i) => i \in Range(wxRecent) \/ i \in wxForgotten
        /\ m \in Range(wxRecent)
    BY <1>1 DEF WxInv, FilterHandled
  <2>2. \A i \in WxMessages : i \in Range(wxRecent) => wxHandled'[i] > 0
    BY <1>5, <1>6, <2>1
  <2>3. \A i \in WxMessages :
          wxHandled'[i] > 0 => i \in Range(wxRecent) \/ i \in wxForgotten
    BY <1>6, <2>1
  <2> QED
    BY <1>2, <1>3, <2>2, <2>3 DEF FilterHandled, Handled
<1>11. ForgottenFirst'
  <2>1. Handled(m) => m \in wxForgotten
    BY <1>1 DEF WxInv, FilterHandled
  <2>2. wxHandled'[m] > 1 => Handled(m)
    BY <1>1, <1>4 DEF Handled
  <2> QED
    BY <1>2, <1>4, <2>1, <2>2 DEF WxInv, ForgottenFirst
<1>12. LogoutLasts'
  BY <1>2 DEF WxInv, LogoutLasts
<1> QED
  BY <1>7, <1>8, <1>9, <1>10, <1>11, <1>12 DEF WxInv

LEMMA SendSavesKeeps ==
  ASSUME WxInv, SendSaves
  PROVE  WxInv'
<1>1. /\ UNCHANGED <<creds, cursor, unlinkFailed, loop, wxRecent, wxHandled, wxForgotten>>
      /\ Persist(creds, cursor) /\ savedEarly' = (savedEarly \/ Unhandled # {})
  BY DEF SendSaves
<1>2. /\ file \in [token: Tokens, cursor: 0..MaxInbound] /\ creds \in Tokens
      /\ cursor \in 0..MaxInbound /\ savedEarly \in BOOLEAN
  BY DEF WxInv, WxTypes
<1>3. /\ file' \in [token: Tokens, cursor: 0..MaxInbound]
      /\ file' = file \/ (file'.token = creds /\ file'.cursor = cursor)
  BY <1>1, <1>2, PersistIs
<1>4. savedEarly' \in BOOLEAN
  BY <1>1, Zenon
<1>5. WxTypes'
  BY <1>1, <1>3, <1>4 DEF WxInv, WxTypes
<1>6. Unhandled' = Unhandled /\ \A m : Handled(m)' <=> Handled(m)
  BY <1>1 DEF Unhandled, Handled
<1>7. PositionsHandled'
  <2>1. /\ \A i \in 1..cursor : Handled(i) \/ i \in Unhandled \/ savedEarly
        /\ \A i \in 1..file.cursor : Handled(i) \/ savedEarly
        /\ loop.at \in {"updates", "handle", "media"} =>
             \A i \in 1..loop.next - 1 : Handled(i) \/ savedEarly
    BY DEF WxInv, PositionsHandled
  <2>2. savedEarly => savedEarly'
    BY <1>1
  <2>3. \A i \in 1..cursor : Handled(i) \/ savedEarly'
    BY <1>1, <2>1
  <2>4. \A i \in 1..file'.cursor : Handled(i) \/ savedEarly'
    BY <1>3, <2>1, <2>2, <2>3
  <2> QED
    BY <1>1, <1>6, <2>1, <2>2, <2>3, <2>4 DEF PositionsHandled
<1>8. LoopPlaced' /\ FilterHandled' /\ ForgottenFirst'
  BY <1>1, <1>6 DEF WxInv, LoopPlaced, FilterHandled, ForgottenFirst
<1>9. LogoutLasts'
  BY <1>1, <1>3, TokensKept
<1> QED
  BY <1>5, <1>7, <1>8, <1>9 DEF WxInv

LEMMA RestartKeeps ==
  ASSUME WxInv, Restart
  PROVE  WxInv'
<1>1. /\ creds' = file.token /\ cursor' = file.cursor /\ loop' = Round /\ wxRecent' = <<>>
      /\ wxForgotten' = wxForgotten \cup Range(wxRecent)
      /\ UNCHANGED <<file, wxHandled, savedEarly, unlinkFailed>>
  BY DEF Restart, PositionLoaded
<1>2. file \in [token: Tokens, cursor: 0..MaxInbound] /\ MaxInbound \in Nat
  BY SessionAssumption DEF WxInv, WxTypes
<1>3. Round \in Loop /\ Round.at = "round" /\ Round.next = 1 /\ Round.upto = 0
  BY DEF Round, Loop
<1>4. WxTypes'
  BY <1>1, <1>2, <1>3, EmptySeq DEF WxInv, WxTypes
<1>5. LoopPlaced' /\ PositionsHandled'
  BY <1>1, <1>2, <1>3 DEF WxInv, LoopPlaced, PositionsHandled, Handled
<1>6. FilterHandled'
  <2>1. Range(wxRecent') = {}
    BY <1>1, EmptySeq DEF Range
  <2> QED
    BY <1>1, <1>3, <2>1 DEF WxInv, FilterHandled, Handled
<1>7. LogoutLasts' /\ ForgottenFirst'
  BY <1>1 DEF WxInv, LogoutLasts, ForgottenFirst
<1> QED
  BY <1>4, <1>5, <1>6, <1>7 DEF WxInv

LEMMA WxKept ==
  ASSUME WxInv, WxNext \/ UNCHANGED wxVars
  PROVE  WxInv'
<1>1. CASE NoUpdates
  <2>1. /\ UNCHANGED inbound /\ loop.at = "updates"
        /\ \/ UNCHANGED session /\ loop' \in {At("round"), At("pause")}
           \/ Logout /\ loop' = At("round")
    BY <1>1 DEF NoUpdates, UpdatesAnswer, GoTo
  <2>2. Unhandled = {}
    BY <2>1, UnhandledIs
  <2>3. CASE Logout /\ loop' = At("round")
    <3>1. At("round") = Round
      BY DEF At, Round
    <3> QED
      BY <2>1, <2>3, <3>1, LogoutKeeps
  <2>4. CASE UNCHANGED session /\ loop' \in {At("round"), At("pause")}
    <3>1. loop' \in Loop /\ loop'.at \in {"round", "pause"} /\ loop'.next = 1 /\ loop'.upto = 0
      BY <2>4, AtIs
    <3>2. UNCHANGED <<creds, cursor, file, unlinkFailed>>
      BY <2>4 DEF session
    <3>3. LogoutLasts'
      BY <3>2, TokensKept
    <3> QED
      BY <2>1, <2>2, <3>1, <3>2, <3>3, LoopMoves DEF WxInv, WxTypes
  <2> QED
    BY <2>1, <2>3, <2>4
<1>2. CASE PanelLogsOut
  <2>1. Logout /\ loop' = Replaced /\ UNCHANGED inbound
    BY <1>2 DEF PanelLogsOut
  <2>2. loop.at = "updates" => Replaced # Round
    <3>1. loop \in Loop
      BY DEF WxInv, WxTypes
    <3>2. \/ Replaced = [loop EXCEPT !.stale = TRUE]
          \/ Replaced = [loop EXCEPT !.stale = loop.stale]
      BY <3>1 DEF Replaced, Loop
    <3>3. Replaced.at = loop.at
      BY <3>1, <3>2 DEF Loop
    <3> QED
      BY <3>3 DEF Round
  <2> QED
    BY <2>1, <2>2, LogoutKeeps
<1>3. CASE UNCHANGED wxVars
  <2>1. UNCHANGED <<creds, cursor, file, unlinkFailed, loop>> /\ UNCHANGED inbound
    BY <1>3 DEF wxVars, wxHistory, inbound
  <2>2. LogoutLasts'
    BY <2>1, TokensKept
  <2> QED
    BY <2>1, <2>2, LoopMoves DEF WxInv, WxTypes
<1> QED
  BY <1>1, <1>2, <1>3, LoginKeeps, SavingKeeps, UpdatesKeep, TakeKeeps, EndKeeps, SendSavesKeeps,
     RestartKeeps DEF WxNext, LoopStep

LEMMA WxStarts ==
  ASSUME WxInit
  PROVE  WxInv
<1>1. /\ creds = "none" /\ cursor = 0 /\ file = NoFile /\ loop = Round /\ wxRecent = <<>>
      /\ wxHandled = [m \in WxMessages |-> 0] /\ savedEarly = FALSE /\ unlinkFailed = FALSE
  BY DEF WxInit
<1>2. MaxInbound \in Nat
  BY SessionAssumption
<1>3. file.cursor = 0 /\ file.token = "none" /\ file \in [token: Tokens, cursor: 0..MaxInbound]
  BY <1>1, <1>2 DEF NoFile, Tokens
<1>4. wxRecent \in Seq(WxMessages) /\ Range(wxRecent) = {}
  BY <1>1, EmptySeq DEF Range
<1>5. WxTypes
  <2>1. creds \in Tokens /\ cursor \in 0..MaxInbound /\ loop \in Loop
    BY <1>1, <1>2, RoundIs DEF Tokens
  <2>2. wxHandled \in [WxMessages -> 0..2]
    BY <1>1
  <2>3. savedEarly \in BOOLEAN /\ unlinkFailed \in BOOLEAN
    BY <1>1
  <2> QED
    BY <1>3, <1>4, <2>1, <2>2, <2>3 DEF WxTypes
<1>6. LoopPlaced
  BY <1>1, <1>2, RoundIs DEF LoopPlaced
<1>7. PositionsHandled
  BY <1>1, <1>3, RoundIs DEF PositionsHandled
<1>8. FilterHandled
  BY <1>1, <1>4, RoundIs DEF FilterHandled, Handled
<1>9. LogoutLasts /\ ForgottenFirst
  BY <1>1, <1>3 DEF LogoutLasts, ForgottenFirst
<1> QED
  BY <1>5, <1>6, <1>7, <1>8, <1>9 DEF WxInv

-----------------------------------------------------------------------------
(* The position in the stream of Weixin.                                    *)

\* The position in memory covers what was received, unless it went back behind it; the
\* answer in hand covers what was handled.
RewoundInv ==
  /\ wxRewound \subseteq WxMessages
  /\ loop.at = "updates" => \A m \in 1..loop.next - 1 : m <= cursor \/ m \in wxRewound
  /\ loop.at \in {"handle", "media"} =>
       /\ \A m \in 1..loop.upto : m <= cursor \/ m \in wxRewound
       /\ loop.next <= loop.upto + 1
  /\ \A m \in WxMessages : Handled(m) =>
       \/ m \in wxRewound
       \/ IF loop.at \in {"updates", "handle", "media"} THEN m < loop.next ELSE m <= cursor
  /\ \A m \in WxMessages : wxHandled[m] > 1 => m \in wxRewound

LEMMA HandledReceived ==
  ASSUME WxInv, RewoundInv, NEW m \in WxMessages, Handled(m), m \notin wxRewound
  PROVE  m <= cursor
<1>1. /\ m \in Nat /\ m >= 1 /\ loop.next \in Nat /\ loop.upto \in Nat
      /\ loop.at \in {"handle", "media"} => loop.next <= loop.upto + 1
  BY SessionAssumption DEF WxInv, LoopPlaced, WxMessages, RewoundInv
<1>2. CASE loop.at = "updates"
  <2>1. m \in 1..loop.next - 1
    BY <1>1, <1>2 DEF RewoundInv
  <2> QED
    BY <1>2, <2>1 DEF RewoundInv
<1>3. CASE loop.at \in {"handle", "media"}
  <2>1. m < loop.next
    BY <1>3 DEF RewoundInv
  <2>2. m \in 1..loop.upto
    BY <1>1, <1>3, <2>1
  <2> QED
    BY <1>3, <2>2 DEF RewoundInv
<1>4. CASE loop.at \notin {"updates", "handle", "media"}
  BY <1>4 DEF RewoundInv
<1> QED
  BY <1>2, <1>3, <1>4

\* A step that handles no message and at most lets the position go back keeps this.
LEMMA PositionMoves ==
  ASSUME WxInv, RewoundInv, NEW p \in 0..MaxInbound, cursor' = p, wxHandled' = wxHandled,
         wxRewound' = wxRewound \cup (p + 1..cursor),
         \/ loop'.at = loop.at /\ loop'.next = loop.next /\ loop'.upto = loop.upto
         \/ loop'.at \notin {"updates", "handle", "media"}
         \/ loop'.at = "updates" /\ loop'.next = p + 1
  PROVE  RewoundInv'
<1>1. /\ cursor \in 0..MaxInbound /\ MaxInbound \in Nat /\ wxRewound \subseteq WxMessages
      /\ loop.next \in Nat /\ loop.upto \in Nat
  BY SessionAssumption DEF WxInv, WxTypes, LoopPlaced, RewoundInv
<1>2. wxRewound' \subseteq WxMessages
  <2>1. p + 1..cursor \subseteq 1..MaxInbound
    BY <1>1
  <2> QED
    BY <1>1, <2>1 DEF WxMessages
<1>3. \A m \in Nat : m <= cursor \/ m \in wxRewound => m <= cursor' \/ m \in wxRewound'
  BY <1>1
<1>4. \A m \in WxMessages : m \in Nat
  BY DEF WxMessages
<1>5. \A m \in WxMessages : Handled(m)' <=> Handled(m)
  BY DEF Handled
<1>6. \A m \in WxMessages : Handled(m) => m <= cursor' \/ m \in wxRewound'
  BY <1>3, <1>4, HandledReceived
<1>7. \A m \in WxMessages : wxHandled'[m] > 1 => m \in wxRewound'
  BY DEF RewoundInv
<1>8. CASE loop'.at \notin {"updates", "handle", "media"}
  BY <1>2, <1>5, <1>6, <1>7, <1>8 DEF RewoundInv
<1>9. CASE loop'.at = "updates" /\ loop'.next = p + 1
  <2>1. \A m \in 1..loop'.next - 1 : m <= cursor'
    BY <1>9
  <2>2. \A m \in WxMessages : m <= cursor' => m < loop'.next
    BY <1>4, <1>9
  <2> QED
    BY <1>2, <1>5, <1>6, <1>7, <1>9, <2>1, <2>2 DEF RewoundInv
<1>10. CASE loop'.at = loop.at /\ loop'.next = loop.next /\ loop'.upto = loop.upto
  <2>1. 1..loop.next - 1 \subseteq Nat /\ 1..loop.upto \subseteq Nat
    BY <1>1
  <2>2. loop'.at = "updates" =>
          \A m \in 1..loop'.next - 1 : m <= cursor' \/ m \in wxRewound'
    BY <1>3, <1>10, <2>1 DEF RewoundInv
  <2>3. loop'.at \in {"handle", "media"} =>
          /\ \A m \in 1..loop'.upto : m <= cursor' \/ m \in wxRewound'
          /\ loop'.next <= loop'.upto + 1
    BY <1>3, <1>10, <2>1 DEF RewoundInv
  <2>4. ASSUME NEW m \in WxMessages, Handled(m)
        PROVE  \/ m \in wxRewound'
               \/ IF loop'.at \in {"updates", "handle", "media"} THEN m < loop'.next
                                                                 ELSE m <= cursor'
    BY <1>6, <1>10, <2>4 DEF RewoundInv
  <2> QED
    BY <1>2, <1>5, <1>7, <2>2, <2>3, <2>4 DEF RewoundInv
<1> QED
  BY <1>8, <1>9, <1>10

\* The same for a step that leaves the position alone.
LEMMA PositionStays ==
  ASSUME WxInv, RewoundInv, cursor' = cursor, wxHandled' = wxHandled, wxRewound' = wxRewound,
         \/ loop'.at = loop.at /\ loop'.next = loop.next /\ loop'.upto = loop.upto
         \/ loop'.at \notin {"updates", "handle", "media"}
         \/ loop'.at = "updates" /\ loop'.next = cursor + 1
  PROVE  RewoundInv'
<1>1. cursor \in 0..MaxInbound /\ cursor + 1..cursor = {}
  BY SessionAssumption DEF WxInv, WxTypes
<1>2. wxRewound' = wxRewound \cup (cursor + 1..cursor)
  BY <1>1
<1> QED
  BY <1>1, <1>2, PositionMoves

LEMMA MessagesKeepPosition ==
  ASSUME WxInv, RewoundInv, Updates \/ TakeMessage \/ EndMessage
  PROVE  RewoundInv'
<1>1. /\ loop \in Loop /\ loop.next \in 1..MaxInbound + 1 /\ loop.upto \in 0..MaxInbound
      /\ MaxInbound \in Nat /\ wxHandled \in [WxMessages -> 0..2] /\ cursor \in 0..MaxInbound
      /\ wxRewound \subseteq WxMessages
  BY SessionAssumption DEF WxInv, WxTypes, LoopPlaced, RewoundInv
<1>2. CASE Updates
  <2>1. PICK k \in loop.next - 1..MaxInbound :
          cursor' = k /\ loop' = [loop EXCEPT !.at = "handle", !.upto = k]
    BY <1>2 DEF Updates
  <2>2. k \in Nat /\ loop.next - 1 <= k
    BY <1>1
  <2>3. loop'.at = "handle" /\ loop'.next = loop.next /\ loop'.upto = k
    BY <1>1, <2>1, <2>2, AnswerIs, Zenon
  <2>4. wxHandled' = wxHandled /\ wxRewound' = wxRewound /\ loop.at = "updates"
    BY <1>2 DEF Updates, UpdatesAnswer, inbound
  <2>5. loop'.next <= loop'.upto + 1 /\ \A m \in 1..loop'.upto : m <= cursor'
    BY <1>1, <2>1, <2>2, <2>3
  <2> QED
    BY <2>3, <2>4, <2>5 DEF RewoundInv, Handled
<1>3. CASE TakeMessage
  <2>1. /\ cursor' = cursor /\ wxHandled' = wxHandled /\ wxRewound' = wxRewound
        /\ loop.at = "handle" /\ loop.next <= loop.upto
        /\ loop' \in {NextMessage, [loop EXCEPT !.at = "media"]}
    BY <1>3 DEF TakeMessage, session
  <2>2. /\ loop'.upto = loop.upto /\ loop'.at \in {"handle", "media"}
        /\ loop'.next \in {loop.next, loop.next + 1}
    <3>1. CASE loop' = NextMessage
      <4>1. loop.next + 1 \in Nat /\ loop' = [loop EXCEPT !.at = "handle", !.next = loop.next + 1]
        BY <1>1, <3>1 DEF NextMessage
      <4> QED
        BY <1>1, <4>1, NextIs
    <3>2. CASE loop' = [loop EXCEPT !.at = "media"]
      BY <1>1, <3>2, DownloadIs
    <3> QED
      BY <2>1, <3>1, <3>2
  <2>3. loop'.next <= loop'.upto + 1 /\ loop.next <= loop'.next
    BY <1>1, <2>1, <2>2
  <2>4. \A m \in WxMessages : m < loop.next => m < loop'.next
    BY <1>1, <2>2, <2>3 DEF WxMessages
  <2> QED
    BY <2>1, <2>2, <2>3, <2>4 DEF RewoundInv, Handled
<1>4. CASE EndMessage
  <2> DEFINE m == loop.next
  <2>1. /\ cursor' = cursor /\ wxRewound' = wxRewound /\ loop.at = "media"
        /\ loop' = [loop EXCEPT !.at = "handle", !.next = m + 1]
        /\ wxHandled' = [wxHandled EXCEPT ![m] = IF wxHandled[m] < 2 THEN wxHandled[m] + 1
                                                                   ELSE wxHandled[m]]
    BY <1>4 DEF EndMessage, session, NextMessage, Counted
  <2>2. m \in Nat /\ m + 1 \in Nat /\ m <= loop.upto /\ m \in WxMessages
    BY <1>1, <2>1 DEF WxInv, LoopPlaced, WxMessages
  <2>3. loop'.upto = loop.upto /\ loop'.at = "handle" /\ loop'.next = m + 1
    BY <1>1, <2>1, <2>2, NextIs, Zenon
  <2>4. /\ \A i \in WxMessages : i # m => wxHandled'[i] = wxHandled[i]
        /\ wxHandled'[m] > 1 => wxHandled[m] > 0
    BY <1>1, <2>1, <2>2
  <2>5. Handled(m) => m \in wxRewound
    BY <2>1, <2>2 DEF RewoundInv
  <2>6. ASSUME NEW i \in WxMessages, wxHandled'[i] > 0, i \notin wxRewound
        PROVE  i < m + 1
    <3>1. CASE i = m
      BY <2>2, <3>1
    <3>2. CASE i # m
      <4>1. i < m
        BY <2>1, <2>4, <2>6, <3>2 DEF RewoundInv, Handled
      <4> QED
        BY <2>2, <4>1 DEF WxMessages
    <3> QED
      BY <3>1, <3>2
  <2>7. \A i \in WxMessages : wxHandled'[i] > 1 => i \in wxRewound
    BY <2>4, <2>5 DEF RewoundInv, Handled
  <2>8. loop'.next <= loop'.upto + 1
    BY <1>1, <2>2, <2>3
  <2> QED
    BY <2>1, <2>3, <2>6, <2>7, <2>8 DEF RewoundInv, Handled
<1> QED
  BY <1>2, <1>3, <1>4

LEMMA RewoundKept ==
  ASSUME WxInv, RewoundInv, WxNext \/ UNCHANGED wxVars
  PROVE  RewoundInv'
<1>1. /\ loop \in Loop /\ cursor \in 0..MaxInbound /\ file.cursor \in 0..MaxInbound
      /\ MaxInbound \in Nat
  BY SessionAssumption DEF WxInv, WxTypes
<1>2. CASE \/ BeginRound \/ BackoffEnds \/ PauseEnd \/ LoopGetsQr \/ LoopGetsNoQr
           \/ StatusSeen \/ Expired \/ ConfirmedEmpty
           \/ \E force \in BOOLEAN : BeginLogin(force)
           \/ PanelGetsQr \/ PanelGetsNoQr
  <2>1. cursor' = cursor /\ wxHandled' = wxHandled /\ wxRewound' = wxRewound
    BY <1>2 DEF BeginRound, BackoffEnds, PauseEnd, LoopGetsQr, LoopGetsNoQr, StatusSeen,
       StatusAnswer, Expired, ConfirmedEmpty, BeginLogin, PanelGetsQr, PanelGetsNoQr, session,
       inbound
  <2>2. \/ loop'.at = loop.at /\ loop'.next = loop.next /\ loop'.upto = loop.upto
        \/ /\ loop'.at \notin {"handle", "media"}
           /\ loop'.next = IF loop'.at = "updates" THEN cursor + 1 ELSE 1
    BY <1>1, <1>2, UnhandledIs, LoginMoves
  <2> QED
    BY <2>1, <2>2, PositionStays
<1>3. CASE Confirmed \/ SaveInbound
  <2>1. /\ cursor' = cursor /\ wxHandled' = wxHandled /\ wxRewound' = wxRewound
        /\ loop' = At("round")
    BY <1>3 DEF Confirmed, SaveInbound, StatusAnswer, inbound, GoTo
  <2> QED
    BY <2>1, AtIs, PositionStays
<1>4. CASE SendSaves \/ UNCHANGED wxVars
  <2>1. /\ cursor' = cursor /\ wxHandled' = wxHandled /\ wxRewound' = wxRewound /\ loop' = loop
    BY <1>4 DEF SendSaves, wxVars, wxHistory
  <2> QED
    BY <2>1, PositionStays
<1>5. CASE NoUpdates /\ ~Logout
  <2>1. /\ cursor' = cursor /\ wxHandled' = wxHandled /\ wxRewound' = wxRewound
        /\ loop' \in {At("round"), At("pause")}
    BY <1>5 DEF NoUpdates, UpdatesAnswer, session, inbound, GoTo
  <2> QED
    BY <2>1, AtIs, PositionStays
<1>6. CASE (NoUpdates \/ PanelLogsOut) /\ Logout
  <2>1. /\ cursor' = 0 /\ wxRewound' = wxRewound \cup (0 + 1..cursor) /\ wxHandled' = wxHandled
        /\ loop' \in {At("round"), At("pause"), Replaced}
    BY <1>6 DEF NoUpdates, PanelLogsOut, UpdatesAnswer, Logout, RewindTo, session, inbound, GoTo
  <2>2. \/ loop'.at = loop.at /\ loop'.next = loop.next /\ loop'.upto = loop.upto
        \/ loop'.at \notin {"updates", "handle", "media"}
    <3>1. CASE loop' = Replaced
      <4>1. \/ loop' = [loop EXCEPT !.stale = TRUE]
            \/ loop' = [loop EXCEPT !.stale = loop.stale]
        BY <1>1, <3>1 DEF Replaced, Loop
      <4> QED
        BY <1>1, <4>1 DEF Loop
    <3> QED
      BY <2>1, <3>1, AtIs
  <2> QED
    BY <1>1, <2>1, <2>2, PositionMoves
<1>7. CASE Restart
  <2>1. /\ cursor' = file.cursor /\ wxRewound' = wxRewound \cup (file.cursor + 1..cursor)
        /\ wxHandled' = wxHandled /\ loop' = Round
    BY <1>7 DEF Restart, RewindTo, PositionLoaded
  <2> QED
    BY <1>1, <2>1, RoundIs, PositionMoves
<1> QED
  BY <1>2, <1>3, <1>4, <1>5, <1>6, <1>7, MessagesKeepPosition
     DEF WxNext, LoopStep, PanelLogsOut

LEMMA RewoundStarts ==
  ASSUME WxInit
  PROVE  RewoundInv
<1>1. wxRewound = {} /\ wxHandled = [m \in WxMessages |-> 0] /\ loop.at = "round"
  BY RoundIs DEF WxInit
<1> QED
  BY <1>1 DEF RewoundInv, Handled

-----------------------------------------------------------------------------
(* The QQ client.                                                           *)

LEMMA QQStarts ==
  ASSUME QQInInit
  PROVE  QQInv
BY EmptySeq DEF QQInInit, QQInv, Started

\* A handler is started only for what the filter does not hold.
LEMMA EventKeeps ==
  ASSUME QQInv, NEW m \in QQMessages, QQEvent(m)
  PROVE  QQInv'
<1>1. PICK left \in Kept(qqRecent) :
        /\ qqRecent' = Noted(left, m)
        /\ qqForgotten' = qqForgotten \cup Dropped(qqRecent, left)
        /\ downloading' = IF m \in Range(left) THEN downloading
                          ELSE [downloading EXCEPT ![m] = @ + 1]
  BY DEF QQEvent
<1>2. /\ qqRecent \in Seq(QQMessages) /\ qqHanded' = qqHanded
      /\ downloading \in [QQMessages -> Nat] /\ qqHanded \in [QQMessages -> Nat]
      /\ \A i \in QQMessages : Started(i) > 0 => i \in Range(qqRecent) \/ i \in qqForgotten
      /\ \A i \in QQMessages : Started(i) > 1 => i \in qqForgotten
  BY DEF QQEvent, QQInv
<1>3. left \in Seq(QQMessages) /\ Range(left) \subseteq Range(qqRecent)
  BY <1>2, KeptIs
<1>4. qqRecent' \in Seq(QQMessages) /\ Range(qqRecent') = Range(left) \cup {m}
  BY <1>1, <1>3, NotedIs
<1>5. downloading' \in [QQMessages -> Nat]
  BY <1>1, <1>2
<1>6. ASSUME NEW i \in QQMessages, i # m \/ i \in Range(left)
      PROVE  Started(i)' = Started(i)
  BY <1>1, <1>2, <1>6 DEF Started
<1>7. m \notin Range(left) => Started(m)' = Started(m) + 1
  BY <1>1, <1>2 DEF Started
<1>8. \A i \in QQMessages : Started(i) \in Nat
  BY <1>2 DEF Started
<1>9. \A i \in QQMessages : Started(i) > 0 => i \in Range(left) \/ i \in qqForgotten'
  BY <1>1, <1>2 DEF Dropped
<1>10. ASSUME NEW i \in QQMessages
       PROVE  /\ Started(i)' > 0 => i \in Range(qqRecent') \/ i \in qqForgotten'
              /\ Started(i)' > 1 => i \in qqForgotten'
  <2>1. CASE i # m \/ i \in Range(left)
    <3>1. Started(i)' = Started(i)
      BY <1>6, <2>1
    <3>2. Started(i) > 1 => i \in qqForgotten'
      BY <1>1, <1>2
    <3>3. Started(i) > 0 => i \in Range(qqRecent') \/ i \in qqForgotten'
      BY <1>4, <1>9
    <3> QED
      BY <3>1, <3>2, <3>3
  <2>2. CASE i = m /\ i \notin Range(left)
    <3>1. Started(i)' > 1 => Started(i) > 0
      BY <1>7, <1>8, <2>2
    <3> QED
      BY <1>4, <1>9, <2>2, <3>1
  <2> QED
    BY <2>1, <2>2
<1> QED
  BY <1>2, <1>4, <1>5, <1>10 DEF QQInv

\* The end of a download starts no handler.
LEMMA DownloadKeeps ==
  ASSUME QQInv, NEW m \in QQMessages, QQHandOn(m) \/ QQSkipEmpty(m)
  PROVE  QQInv'
<1>1. /\ qqRecent' = qqRecent /\ qqForgotten' = qqForgotten
      /\ downloading[m] > 0 /\ downloading' = [downloading EXCEPT ![m] = @ - 1]
      /\ \/ qqHanded' = [qqHanded EXCEPT ![m] = @ + 1]
         \/ qqHanded' = qqHanded
  BY DEF QQHandOn, QQSkipEmpty, EndDownload
<1>2. downloading \in [QQMessages -> Nat] /\ qqHanded \in [QQMessages -> Nat]
  BY DEF QQInv
<1>3. downloading' \in [QQMessages -> Nat] /\ qqHanded' \in [QQMessages -> Nat]
  BY <1>1, <1>2
<1>4. ASSUME NEW i \in QQMessages PROVE Started(i) \in Nat /\ Started(i)' \in Nat
  BY <1>2, <1>3 DEF Started
<1>5. ASSUME NEW i \in QQMessages PROVE Started(i)' <= Started(i)
  BY <1>1, <1>2 DEF Started
<1>6. \A i \in QQMessages :
        /\ Started(i) > 0 => i \in Range(qqRecent) \/ i \in qqForgotten
        /\ Started(i) > 1 => i \in qqForgotten
  BY DEF QQInv
<1>7. ASSUME NEW i \in QQMessages
      PROVE  /\ Started(i)' > 0 => i \in Range(qqRecent') \/ i \in qqForgotten'
             /\ Started(i)' > 1 => i \in qqForgotten'
  <2>1. (Started(i)' > 0 => Started(i) > 0) /\ (Started(i)' > 1 => Started(i) > 1)
    BY <1>4, <1>5
  <2> QED
    BY <1>1, <1>6, <2>1
<1> QED
  BY <1>1, <1>3, <1>7 DEF QQInv

LEMMA QQKept ==
  ASSUME QQInv, QQInNext \/ UNCHANGED qqInVars
  PROVE  QQInv'
<1>1. CASE UNCHANGED qqInVars
  <2>1. /\ qqRecent' = qqRecent /\ qqForgotten' = qqForgotten
        /\ downloading' = downloading /\ qqHanded' = qqHanded
    BY <1>1 DEF qqInVars
  <2> QED
    BY <2>1 DEF QQInv, Started
<1> QED
  BY <1>1, EventKeeps, DownloadKeeps DEF QQInNext

-----------------------------------------------------------------------------
(* How often a QR code is refreshed, and the rest of the types.             *)

\* Past the limit the code to be scanned is the one a request of the panel brought, and
\* the next expiry is the last: the request is answered, and another starts the count
\* again.
QrInv ==
  /\ login \in Logins /\ asking \in BOOLEAN /\ expiries \in 0..MaxRefresh + 2
  /\ loop.at = "status" => login \in {"none", "pending"}
  /\ loop.at \in {"create", "recreate"} => expiries <= MaxRefresh
  /\ Pending /\ expiries > MaxRefresh => ~asking /\ expiries = MaxRefresh + 1
  /\ expiries = MaxRefresh + 2 => ~asking

FilterTypes ==
  /\ sessionLast \in QQMessages \cup {0} /\ events \in 0..MaxEvents
  /\ qqForgotten \subseteq QQMessages /\ Len(qqRecent) \in 0..RecentLimit
  /\ restarts \in 0..MaxRestarts
  /\ wxForgotten \subseteq WxMessages /\ Len(wxRecent) \in 0..RecentLimit

LEMMA ReplacedIs ==
  ASSUME loop \in Loop
  PROVE  Replaced.at = loop.at
<1>1. \/ Replaced = [loop EXCEPT !.stale = TRUE]
      \/ Replaced = [loop EXCEPT !.stale = loop.stale]
  BY DEF Replaced, Loop
<1> QED
  BY <1>1 DEF Loop

\* The steps of the loop while it is logged out.
LEMMA LoopKeepsQr ==
  ASSUME QrInv, loop \in Loop,
         \/ BeginRound \/ BackoffEnds \/ PauseEnd \/ LoopGetsQr \/ LoopGetsNoQr
  PROVE  QrInv'
<1>1. /\ login \in Logins /\ expiries \in 0..MaxRefresh + 2 /\ MaxRefresh \in Nat
      /\ asking \in BOOLEAN
  BY SessionAssumption DEF QrInv
<1>2. asking' = asking
  BY DEF BeginRound, BackoffEnds, PauseEnd, LoopGetsQr, LoopGetsNoQr
<1>3. /\ At("round").at = "round" /\ At("create").at = "create" /\ At("status").at = "status"
      /\ At("pause").at = "pause" /\ At("backoff").at = "backoff"
  BY AtIs
<1>4. CASE BeginRound
  <2>1. login' = login
    BY <1>4 DEF BeginRound
  <2>2. CASE LoggedIn
    <3>1. loop' = [At("updates") EXCEPT !.next = cursor + 1] /\ expiries' = expiries
      BY <1>4, <2>2 DEF BeginRound
    <3>2. At("updates") \in Loop /\ At("updates").at = "updates"
      BY AtIs
    <3>3. loop'.at = "updates"
      BY <3>1, <3>2 DEF Loop
    <3> QED
      BY <1>1, <1>2, <2>1, <3>1, <3>3 DEF QrInv, Pending
  <2>3. CASE ~LoggedIn
    <3>1. \/ loop'.at = "backoff" /\ expiries' = expiries
          \/ loop'.at = "create" /\ expiries' = 0
          \/ loop'.at = "status" /\ expiries' = expiries /\ login = "pending"
      BY <1>3, <1>4, <2>3 DEF BeginRound, GoTo, NeedsQr, Pending
    <3> QED
      BY <1>1, <1>2, <2>1, <3>1 DEF QrInv, Pending
  <2> QED
    BY <2>2, <2>3
<1>5. CASE BackoffEnds
  <2>1. loop'.at = "create" /\ login' = "none" /\ expiries' = 0
    BY <1>3, <1>5 DEF BackoffEnds, GoTo
  <2> QED
    BY <1>1, <1>2, <2>1 DEF QrInv, Pending, Logins
<1>6. CASE PauseEnd
  <2>1. loop'.at = "round" /\ login' = login /\ expiries' = expiries
    BY <1>3, <1>6 DEF PauseEnd, GoTo
  <2> QED
    BY <1>1, <1>2, <2>1 DEF QrInv, Pending
<1>7. CASE LoopGetsQr
  <2>1. /\ loop'.at \in {"status", "pause"} /\ login' = "pending" /\ expiries' = expiries
        /\ loop.at \in {"create", "recreate"}
    BY <1>3, <1>7 DEF LoopGetsQr, GoTo
  <2> QED
    BY <1>1, <1>2, <2>1 DEF QrInv, Pending, Logins
<1>8. CASE LoopGetsNoQr
  <2>1. /\ loop'.at = "pause" /\ login' \in {login, "error"} /\ expiries' = expiries
    BY <1>3, <1>8 DEF LoopGetsNoQr, GoTo
  <2> QED
    BY <1>1, <1>2, <2>1 DEF QrInv, Pending, Logins
<1> QED
  BY <1>4, <1>5, <1>6, <1>7, <1>8

\* The answers about the status of a QR code.
LEMMA StatusKeepsQr ==
  ASSUME QrInv, StatusSeen \/ Expired \/ Confirmed \/ ConfirmedEmpty
  PROVE  QrInv'
<1>1. /\ login \in Logins /\ expiries \in 0..MaxRefresh + 2 /\ MaxRefresh \in Nat
      /\ asking \in BOOLEAN
  BY SessionAssumption DEF QrInv
<1>2. asking' = asking /\ loop.at = "status"
  BY DEF StatusSeen, Expired, Confirmed, ConfirmedEmpty, StatusAnswer
<1>3. /\ At("round").at = "round" /\ At("recreate").at = "recreate" /\ At("pause").at = "pause"
  BY AtIs
<1>4. CASE StatusSeen \/ Confirmed \/ ConfirmedEmpty
  <2>1. /\ loop'.at \in {"pause", "round"} /\ login' \in {login, "over", "error"}
        /\ expiries' = expiries
    BY <1>3, <1>4 DEF StatusSeen, Confirmed, ConfirmedEmpty, GoTo
  <2> QED
    BY <1>1, <1>2, <2>1 DEF QrInv, Pending, Logins
<1>5. CASE Expired /\ login = "none"
  <2>1. loop'.at = "pause" /\ login' = login /\ expiries' = expiries
    BY <1>3, <1>5 DEF Expired, GoTo
  <2> QED
    BY <1>1, <1>2, <2>1 DEF QrInv, Pending
<1>6. CASE Expired /\ login # "none"
  <2>1. /\ expiries' = expiries + 1
        /\ login' = IF expiries' > MaxRefresh THEN "error" ELSE "over"
        /\ loop'.at = IF login' = "error" THEN "pause" ELSE "recreate"
    BY <1>3, <1>6 DEF Expired, GoTo, AfterExpiry
  <2>2. login = "pending"
    BY <1>2, <1>6 DEF QrInv
  <2>3. expiries > MaxRefresh => ~asking /\ expiries = MaxRefresh + 1
    BY <2>2 DEF QrInv, Pending
  <2>4. login' \in Logins /\ login' # "pending" /\ expiries' \in 0..MaxRefresh + 2
    BY <1>1, <2>1, <2>3 DEF Logins
  <2>5. loop'.at = "recreate" => expiries' <= MaxRefresh
    BY <1>1, <2>1
  <2>6. loop'.at \in {"pause", "recreate"}
    BY <2>1
  <2>7. expiries' = MaxRefresh + 2 => ~asking'
    BY <1>1, <1>2, <2>1, <2>3
  <2> QED
    BY <1>1, <1>2, <2>4, <2>5, <2>6, <2>7 DEF QrInv, Pending
<1> QED
  BY <1>4, <1>5, <1>6

\* The requests of the panel.
LEMMA PanelKeepsQr ==
  ASSUME QrInv, loop \in Loop,
         \/ \E force \in BOOLEAN : BeginLogin(force)
         \/ PanelGetsQr \/ PanelGetsNoQr \/ PanelLogsOut
  PROVE  QrInv'
<1>1. /\ login \in Logins /\ expiries \in 0..MaxRefresh + 2 /\ MaxRefresh \in Nat
      /\ asking \in BOOLEAN
  BY SessionAssumption DEF QrInv
<1>2. loop'.at = loop.at
  BY ReplacedIs DEF BeginLogin, PanelGetsQr, PanelGetsNoQr, PanelLogsOut
<1>3. CASE \E force \in BOOLEAN : BeginLogin(force)
  <2>1. asking' = TRUE /\ expiries' = 0 /\ login' = login
    BY <1>3 DEF BeginLogin
  <2> QED
    BY <1>1, <1>2, <2>1 DEF QrInv, Pending
<1>4. CASE PanelGetsQr
  <2>1. asking /\ asking' = FALSE /\ expiries' = expiries /\ login' = "pending"
    BY <1>4 DEF PanelGetsQr
  <2>2. expiries # MaxRefresh + 2
    <3>1. expiries = MaxRefresh + 2 => ~asking
      BY DEF QrInv
    <3>2. asking
      BY <1>4, Zenon DEF PanelGetsQr
    <3> QED
      BY <3>1, <3>2, Zenon
  <2>3. asking' \in BOOLEAN /\ ~asking'
    BY <2>1, Zenon
  <2>4. login' = "pending" /\ expiries' = expiries
    BY <2>1
  <2> QED
    BY <1>1, <1>2, <2>2, <2>3, <2>4 DEF QrInv, Pending, Logins
<1>5. CASE PanelGetsNoQr
  <2>1. asking' = FALSE /\ expiries' = expiries /\ login' = login
    BY <1>5 DEF PanelGetsNoQr
  <2> QED
    BY <1>1, <1>2, <2>1 DEF QrInv, Pending
<1>6. CASE PanelLogsOut
  <2>1. asking' = asking /\ expiries' = expiries /\ login' = "none"
    BY <1>6 DEF PanelLogsOut, Logout
  <2> QED
    BY <1>1, <1>2, <2>1 DEF QrInv, Pending, Logins
<1> QED
  BY <1>3, <1>4, <1>5, <1>6

\* Messages, sending and a restart.
LEMMA RestKeepsQr ==
  ASSUME QrInv, loop \in Loop, loop.next \in Nat,
         \/ Updates \/ NoUpdates \/ TakeMessage \/ EndMessage \/ SaveInbound
         \/ SendSaves \/ Restart \/ UNCHANGED wxVars
  PROVE  QrInv'
<1>1. /\ login \in Logins /\ expiries \in 0..MaxRefresh + 2 /\ MaxRefresh \in Nat
      /\ asking \in BOOLEAN
  BY SessionAssumption DEF QrInv
<1>2. CASE Updates \/ NoUpdates \/ TakeMessage \/ EndMessage \/ SaveInbound
  <2>1. asking' = asking /\ expiries' = expiries /\ login' \in {login, "none"}
    BY <1>2 DEF Updates, NoUpdates, UpdatesAnswer, TakeMessage, EndMessage, SaveInbound, Logout
  <2>2. loop'.at \in {"round", "pause", "handle", "media"}
    <3>1. CASE \/ loop' = [loop EXCEPT !.at = "media"] \/ loop' = NextMessage
               \/ \E k \in loop.next - 1..MaxInbound :
                    loop' = [loop EXCEPT !.at = "handle", !.upto = k]
      BY <3>1 DEF NextMessage, Loop
    <3>2. CASE loop' \in {At("round"), At("pause")}
      BY <3>2, AtIs
    <3> QED
      BY <1>2, <3>1, <3>2 DEF Updates, NoUpdates, TakeMessage, EndMessage, SaveInbound, GoTo
  <2> QED
    BY <1>1, <2>1, <2>2 DEF QrInv, Pending, Logins
<1>3. CASE SendSaves \/ UNCHANGED wxVars
  <2>1. UNCHANGED <<login, expiries, asking, loop>>
    BY <1>3 DEF SendSaves, wxVars
  <2> QED
    BY <2>1 DEF QrInv, Pending
<1>4. CASE Restart
  <2>1. login' = "none" /\ expiries' = 0 /\ asking' = FALSE /\ loop'.at = "round"
    BY <1>4, RoundIs DEF Restart
  <2>2. asking' \in BOOLEAN /\ ~asking'
    BY <2>1, Zenon
  <2> QED
    BY <1>1, <2>1, <2>2 DEF QrInv, Pending, Logins
<1> QED
  BY <1>2, <1>3, <1>4

LEMMA QrKept ==
  ASSUME WxInv, QrInv, WxNext \/ UNCHANGED wxVars
  PROVE  QrInv'
<1>1. loop \in Loop /\ loop.next \in Nat
  BY DEF WxInv, WxTypes, Loop
<1> QED
  BY <1>1, LoopKeepsQr, StatusKeepsQr, PanelKeepsQr, RestKeepsQr DEF WxNext, LoopStep

\* A filter that was asked for an id is not longer than the limit, and forgets only ids.
LEMMA FilterIs ==
  ASSUME NEW S, NEW recent \in Seq(S), NEW left \in Kept(recent), NEW id \in S
  PROVE  Len(Noted(left, id)) \in 0..RecentLimit /\ Dropped(recent, left) \subseteq S
<1>1. left \in Seq(S) /\ Len(left) < RecentLimit /\ Len(left) \in Nat
  BY KeptIs, LenProperties DEF Kept
<1>2. Len(Append(left, id)) = Len(left) + 1
  BY <1>1, AppendProperties
<1>3. Len(Noted(left, id)) \in 0..RecentLimit
  BY <1>1, <1>2, RecentAssumption DEF Noted
<1>4. Range(recent) \subseteq S
  BY RangeOfSeq
<1> QED
  BY <1>3, <1>4 DEF Dropped

LEMMA FiltersKept ==
  ASSUME WxInv, QQInv, FilterTypes, WxNext \/ UNCHANGED wxVars, QQInNext \/ UNCHANGED qqInVars
  PROVE  FilterTypes'
<1>1. /\ qqRecent \in Seq(QQMessages) /\ wxRecent \in Seq(WxMessages)
      /\ RecentLimit \in Nat /\ MaxEvents \in Nat /\ MaxRestarts \in Nat
  BY RecentAssumption, QQAssumption, SessionAssumption DEF WxInv, WxTypes, QQInv
<1>2. /\ sessionLast' \in QQMessages \cup {0} /\ events' \in 0..MaxEvents
      /\ qqForgotten' \subseteq QQMessages /\ Len(qqRecent') \in 0..RecentLimit
  <2>1. ASSUME NEW m \in QQMessages, QQEvent(m)
        PROVE  /\ sessionLast' = m /\ events' \in 0..MaxEvents
               /\ qqForgotten' \subseteq QQMessages /\ Len(qqRecent') \in 0..RecentLimit
    <3>1. PICK left \in Kept(qqRecent) :
            /\ qqRecent' = Noted(left, m)
            /\ qqForgotten' = qqForgotten \cup Dropped(qqRecent, left)
      BY <2>1 DEF QQEvent
    <3>2. Len(Noted(left, m)) \in 0..RecentLimit /\ Dropped(qqRecent, left) \subseteq QQMessages
      BY <1>1, FilterIs
    <3>3. sessionLast' = m /\ events' \in 0..MaxEvents
      BY <1>1, <2>1 DEF QQEvent, FilterTypes
    <3> QED
      BY <3>1, <3>2, <3>3 DEF FilterTypes
  <2>2. CASE UNCHANGED <<sessionLast, events, qqForgotten, qqRecent>>
    BY <2>2 DEF FilterTypes
  <2>3. UNCHANGED qqInVars => UNCHANGED <<sessionLast, events, qqForgotten, qqRecent>>
    BY DEF qqInVars
  <2>4. ASSUME NEW m \in QQMessages, QQHandOn(m) \/ QQSkipEmpty(m)
        PROVE  UNCHANGED <<sessionLast, events, qqForgotten, qqRecent>>
    BY <2>4 DEF QQHandOn, QQSkipEmpty, EndDownload
  <2> QED
    BY <2>1, <2>2, <2>3, <2>4 DEF QQInNext
<1>3. /\ restarts' \in 0..MaxRestarts
      /\ wxForgotten' \subseteq WxMessages /\ Len(wxRecent') \in 0..RecentLimit
  <2>1. CASE TakeMessage
    <3>1. PICK left \in Kept(wxRecent) :
            /\ wxRecent' = Noted(left, loop.next)
            /\ wxForgotten' = wxForgotten \cup Dropped(wxRecent, left)
      BY <2>1 DEF TakeMessage
    <3>2. loop.next \in WxMessages
      BY <2>1, SessionAssumption DEF TakeMessage, WxInv, LoopPlaced, WxMessages
    <3>3. /\ Len(Noted(left, loop.next)) \in 0..RecentLimit
          /\ Dropped(wxRecent, left) \subseteq WxMessages
      BY <1>1, <3>2, FilterIs
    <3>4. restarts' = restarts
      BY <2>1 DEF TakeMessage
    <3> QED
      BY <3>1, <3>3, <3>4 DEF FilterTypes
  <2>2. CASE Restart
    <3>1. Len(wxRecent') = 0
      BY <2>2, EmptySeq DEF Restart
    <3>2. Range(wxRecent) \subseteq WxMessages
      BY <1>1, RangeOfSeq
    <3>3. restarts' \in 0..MaxRestarts
      BY <1>1, <2>2 DEF Restart, FilterTypes
    <3> QED
      BY <1>1, <2>2, <3>1, <3>2, <3>3 DEF Restart, FilterTypes
  <2>3. CASE UNCHANGED <<restarts, wxForgotten, wxRecent>>
    BY <2>3 DEF FilterTypes
  <2>4. \/ TakeMessage \/ Restart \/ UNCHANGED <<restarts, wxForgotten, wxRecent>>
    BY DEF WxNext, LoopStep, wxVars, wxHistory, inbound, BeginRound, BackoffEnds, PauseEnd,
           LoopGetsQr, LoopGetsNoQr, StatusSeen, StatusAnswer, Expired, Confirmed, ConfirmedEmpty,
           BeginLogin, PanelGetsQr, PanelGetsNoQr, PanelLogsOut, Updates, UpdatesAnswer, NoUpdates,
           EndMessage, SaveInbound, SendSaves
  <2> QED
    BY <2>1, <2>2, <2>3, <2>4
<1> QED
  BY <1>2, <1>3 DEF FilterTypes

LEMMA QrStarts ==
  ASSUME Init
  PROVE  QrInv /\ FilterTypes
<1>1. QrInv
  <2>1. login = "none" /\ expiries = 0 /\ asking = FALSE /\ loop.at = "round"
    BY RoundIs DEF Init, WxInit
  <2>2. asking \in BOOLEAN /\ ~asking
    BY <2>1, Zenon
  <2> QED
    BY <2>1, <2>2, SessionAssumption DEF QrInv, Logins, Pending
<1>2. FilterTypes
  BY EmptySeq, RecentAssumption, QQAssumption, SessionAssumption
     DEF Init, WxInit, QQInInit, FilterTypes
<1> QED
  BY <1>1, <1>2

-----------------------------------------------------------------------------
(* The sources.                                                             *)

\* The session and the QQ client keep their invariants, whichever source takes the step
\* (Sources.tla).
THEOREM SourceInv == Spec => [](WxInv /\ RewoundInv /\ QQInv /\ QrInv /\ FilterTypes)
<1>1. Init => WxInv /\ RewoundInv /\ QQInv /\ QrInv /\ FilterTypes
  BY WxStarts, RewoundStarts, QQStarts, QrStarts DEF Init
<1>2. WxInv /\ RewoundInv /\ QQInv /\ QrInv /\ FilterTypes /\ [Next]_vars =>
        (WxInv /\ RewoundInv /\ QQInv /\ QrInv /\ FilterTypes)'
  <2> SUFFICES ASSUME WxInv, RewoundInv, QQInv, QrInv, FilterTypes, [Next]_vars
               PROVE  WxInv' /\ RewoundInv' /\ QQInv' /\ QrInv' /\ FilterTypes'
    OBVIOUS
  <2>1. WxNext \/ UNCHANGED wxVars
    BY DEF Next, TelegramStep, QQStep, WeixinStep, vars
  <2>2. QQInNext \/ UNCHANGED qqInVars
    BY DEF Next, TelegramStep, QQStep, WeixinStep, vars
  <2> QED
    BY <2>1, <2>2, WxKept, RewoundKept, QQKept, QrKept, FiltersKept
<1> QED
  BY <1>1, <1>2, PTL DEF Spec

\* An event is handed on twice only when the filter had forgotten its message and, of
\* Weixin, the position had gone back behind it (qq_official/client.py:262, 331-344,
\* service.py:481-483, 508, 623-633).
THEOREM EventsHandedOnce == Spec => []EventsOnce
<1>1. WxInv /\ RewoundInv => WxOnce
  BY DEF WxInv, ForgottenFirst, RewoundInv, WxOnce
<1>2. QQInv => QQOnce
  <2> SUFFICES ASSUME QQInv, NEW m \in QQMessages, qqHanded[m] > 1
               PROVE  m \in qqForgotten
    BY DEF QQOnce
  <2>1. downloading[m] \in Nat /\ qqHanded[m] \in Nat
    BY DEF QQInv
  <2>2. Started(m) > 1
    BY <2>1 DEF Started
  <2> QED
    BY <2>2 DEF QQInv
<1>3. WxInv /\ RewoundInv /\ QQInv => EventsOnce
  BY <1>1, <1>2 DEF EventsOnce
<1> QED
  BY <1>3, SourceInv, PTL

\* No restart skips a message of Weixin, unless a send saved the position of an answer
\* that was still being handled (service.py:457-486, 811, 818).
THEOREM RestartSkipsNone == Spec => []SavedIsHandled
<1>1. WxInv => SavedIsHandled
  BY DEF WxInv, PositionsHandled, SavedIsHandled, Handled
<1> QED
  BY <1>1, SourceInv, PTL

\* A logout is never undone by an answer that was on its way, nor by a restart, unless
\* the file could not be removed (service.py:233-239, 377-402, 457-493).
THEOREM LogoutIsFinal == Spec => []LogoutLasts
<1>1. WxInv => LogoutLasts
  BY DEF WxInv
<1> QED
  BY <1>1, SourceInv, PTL
=============================================================================
