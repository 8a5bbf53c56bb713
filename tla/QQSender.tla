------------------------------- MODULE QQSender ------------------------------
(***************************************************************************)
(* The QQ sender: one delivery is a sequence of parts, the text and the     *)
(* media; each part is posted, for groups after an upload, with retries and *)
(* fallbacks.  The router's second call after a refusal by QQ's audit, which *)
(* sends the link alone, is part of it.                                     *)
(*                                                                         *)
(* Left out: what the text says, file types beyond image or not, and the    *)
(* length of the back-offs.                                                 *)
(***************************************************************************)
EXTENDS QQToken

CONSTANTS
  MaxAttempts,         \* of _qq_retry
  QQJobs,              \* what the router may ask for
  MaxDeliveries,       \* bound: deliveries in one behaviour
  UseMarkdown,         \* QQ_USE_MARKDOWN
  AllowWithoutMsgId,   \* QQ_ALLOW_SEND_WITHOUT_CACHED_MSG_ID
  LinkFallback         \* QQ_AUDIT_LINK_FALLBACK

Sender == "sender"

\* A delivery: whether to a group or user or to a guild channel, whether the text
\* is not empty, the media, and whether the message has a link.
QQJob == [scene: {"group", "channel"}, text: BOOLEAN,
          media: Seq({"image", "file"}), link: BOOLEAN]

ASSUME SenderAssumption ==
  /\ MaxAttempts \in Nat \ {0} /\ MaxDeliveries \in Nat
  /\ Sender \in Requesters /\ QQJobs \subseteq QQJob
  /\ {UseMarkdown, AllowWithoutMsgId, LinkFallback} \subseteq BOOLEAN

VARIABLES
  job,
  send,       \* where the delivery is
  sessionKnown, \* a msg_id of the channel is cached
  gone,       \* the media files have been deleted by the cleanup
  deliveries, \* number of deliveries begun
  result,     \* of the last delivery
  \* History of the delivery:
  accepted,   \* how often QQ accepted each part, and last the link
  audited,    \* the contents QQ's audit refused
  lostAnswer  \* the answer to an accepted post was lost

sendVars == <<job, send, sessionKnown, gone, deliveries, result, accepted, audited,
              lostAnswer>>
qqVars == <<tokenVars, sendVars>>

Results == {"none", "ok", "link", "failed", "timeout"}

Send == [at: {"idle", "upload", "post", "plain"}, part: Nat, attempt: 1..MaxAttempts,
         fallback: BOOLEAN,  \* the file name in a text instead of the medium
         link: BOOLEAN]      \* the router's second call
Idle == [at |-> "idle", part |-> 0, attempt |-> 1, fallback |-> FALSE, link |-> FALSE]

\* The parts in the order they are sent: an album has its text as a part of its own.
Parts(j) ==
  IF j.media = <<>> THEN <<"text">>
  ELSE IF Len(j.media) > 1 /\ j.text THEN <<"text">> \o j.media
  ELSE j.media

PartNow == IF send.link THEN "text" ELSE Parts(job)[send.part]
LastPart == send.link \/ send.part = Len(Parts(job))

\* What is being sent: this is what the audit refuses.
Content == <<IF send.at = "upload" THEN "upload" ELSE "post",
             send.part, send.fallback, send.link>>

NoJob == [scene |-> "group", text |-> FALSE, media |-> <<>>, link |-> FALSE]

SendInit ==
  /\ job = NoJob /\ send = Idle /\ sessionKnown = FALSE /\ gone = FALSE
  /\ deliveries = 0 /\ result = "none"
  /\ accepted = <<>> /\ audited = {} /\ lostAnswer = FALSE

-----------------------------------------------------------------------------

End(how) == send' = Idle /\ result' = how

\* A part is turned to: a post to a channel needs a cached msg_id first.
TurnTo(j, part, link) ==
  IF j.scene = "channel" /\ ~sessionKnown /\ ~AllowWithoutMsgId
    THEN End("failed")
    ELSE /\ send' = [Idle EXCEPT
                       !.at = IF j.scene = "group" /\ ~link /\ Parts(j)[part] # "text"
                                THEN "upload" ELSE "post",
                       !.part = part, !.link = link]
         /\ result' = "none"

\* The router hands over a delivery.
Deliver(j) ==
  /\ send.at = "idle" /\ deliveries < MaxDeliveries
  /\ deliveries' = deliveries + 1 /\ job' = j /\ gone' = FALSE
  /\ accepted' = [i \in 1..Len(Parts(j)) + 1 |-> 0]
  /\ audited' = {} /\ lostAnswer' = FALSE
  /\ TurnTo(j, 1, FALSE)
  /\ UNCHANGED <<tokenVars, sessionKnown>>

\* Fault: what the audit refused is tried again.
RetryableWithAudit(error) == error \in {"server", "os", "audit"}

\* _is_retryable_qq_error
Retryable(error) == error \in {"server", "os"}

\* Fault: the retries start again with the first part.
AnotherAttemptFromStart ==
  [Idle EXCEPT !.at = "post", !.part = 1, !.link = send.link, !.attempt = send.attempt + 1]

AnotherAttempt ==
  [send EXCEPT !.attempt = @ + 1, !.at = IF @ = "plain" THEN "post" ELSE @]

\* Fault: a medium that cannot be uploaded is passed over.
AfterUploadSkipping ==
  IF LastPart THEN End("ok") ELSE TurnTo(job, send.part + 1, FALSE)

\* An upload that QQ refused for good becomes a text with the name of the file.
AfterUpload ==
  /\ send' = [send EXCEPT !.at = "post", !.attempt = 1, !.fallback = TRUE]
  /\ UNCHANGED result

\* Fault: one attempt too many.
OneMoreAttempt == send.attempt <= MaxAttempts

AttemptsLeft == send.attempt < MaxAttempts

\* A part cannot be sent: it is tried again, replaced or, with the delivery, given
\* up; after the audit the router sends the link instead.
Fail(error) ==
  IF Retryable(error) /\ AttemptsLeft
    THEN send' = AnotherAttempt /\ UNCHANGED result
  ELSE IF send.at = "upload" /\ error \in {"server", "audit"} THEN AfterUpload
  ELSE IF error = "audit" /\ LinkFallback /\ job.link /\ ~send.link THEN TurnTo(job, 1, TRUE)
  ELSE End("failed")

\* The file is read by the upload, or by botpy with a picture for a channel.
NeedsFile ==
  \/ send.at = "upload"
  \/ job.scene = "channel" /\ PartNow = "image"

\* One attempt: the file is read, then the request begins.  Without a first token
\* botpy raises.
Try ==
  /\ send.at # "idle" /\ request[Sender].at = "none"
  /\ IF NeedsFile /\ gone THEN Fail("os") /\ UNCHANGED tokenVars
     ELSE IF token = 0 THEN Fail("hard") /\ UNCHANGED tokenVars
     ELSE StartRequest(Sender) /\ UNCHANGED <<send, result>>
  /\ UNCHANGED <<job, sessionKnown, gone, deliveries, accepted, audited, lostAnswer>>

-----------------------------------------------------------------------------
(* How a request of the sender ends.                                        *)

Answered == send.at # "idle" /\ OnItsWay(Sender) /\ ~Refused(Sender) /\ EndRequest(Sender)
Environment == <<job, sessionKnown, gone, deliveries, token, due, revoked, trouble>>

\* QQ has the post: what was accepted, and how often.
Counted ==
  accepted' = [accepted EXCEPT ![IF send.link THEN Len(accepted) ELSE send.part] = @ + 1]

Uploaded ==
  /\ Answered /\ send.at = "upload"
  /\ send' = [send EXCEPT !.at = "post", !.attempt = 1] /\ UNCHANGED result
  /\ UNCHANGED <<Environment, accepted, audited, lostAnswer>>

Posted ==
  /\ Answered /\ send.at # "upload" /\ Counted
  /\ IF LastPart THEN End(IF send.link THEN "link" ELSE "ok")
                 ELSE TurnTo(job, send.part + 1, FALSE)
  /\ UNCHANGED <<Environment, audited, lostAnswer>>

\* QQ does not let the bot use Markdown: the attempt goes on with plain text.
MarkdownRefused ==
  /\ Answered /\ UseMarkdown /\ send.at = "post"
  /\ job.scene = "channel" \/ PartNow = "text" \/ send.fallback
  /\ send' = [send EXCEPT !.at = "plain"] /\ UNCHANGED result
  /\ UNCHANGED <<Environment, accepted, audited, lostAnswer>>

\* A server error, a network error, or an error that no retry helps.
RequestFails ==
  /\ Answered /\ \E error \in {"server", "os", "hard"} : Fail(error)
  /\ UNCHANGED <<Environment, accepted, audited, lostAnswer>>

AuditRefuses ==
  /\ Answered /\ audited' = audited \cup {Content} /\ Fail("audit")
  /\ UNCHANGED <<Environment, accepted, lostAnswer>>

\* QQ accepts the post and its answer is lost.
AnswerLost ==
  /\ Answered /\ send.at # "upload" /\ Counted /\ lostAnswer' = TRUE /\ Fail("os")
  /\ UNCHANGED <<Environment, audited>>

\* The token is refused once more, or cannot be renewed.
NoToken ==
  /\ \/ Refused(Sender) /\ request[Sender].at = "again" /\ Fail("hard")
     \/ request[Sender].at = "update" /\ \E error \in {"os", "hard"} : Fail(error)
  /\ EndRequest(Sender)
  /\ UNCHANGED <<Environment, accepted, audited, lostAnswer>>

\* The router's time-out cancels the delivery wherever it is.
QQTimeOut ==
  /\ send.at # "idle" /\ End("timeout") /\ EndRequest(Sender)
  /\ UNCHANGED <<Environment, accepted, audited, lostAnswer>>

-----------------------------------------------------------------------------
(* The surroundings: the gateway's requests and what it receives, the cleanup *)

Gateway == Requesters \ {Sender}

TokenStep(r) ==
  /\ TakeTokenLock(r) \/ UpdateToken(r) \/ RefusedOnce(r) \/ (r \in Gateway /\ GatewayEnds(r))
  /\ UNCHANGED sendVars

TokenEnvironment ==
  /\ \/ Login \/ RunOut \/ Revoke
     \/ \E r \in Gateway : StartRequest(r) \/ GatewayFails(r)
  /\ UNCHANGED sendVars

RememberSession ==
  /\ ~sessionKnown /\ sessionKnown' = TRUE
  /\ UNCHANGED <<tokenVars, job, send, gone, deliveries, result, accepted, audited,
                 lostAnswer>>

CleanUpMedia ==
  /\ send.at # "idle" /\ ~gone /\ gone' = TRUE
  /\ UNCHANGED <<tokenVars, job, send, sessionKnown, deliveries, result, accepted,
                 audited, lostAnswer>>

SenderStep ==
  \/ Try \/ Uploaded \/ Posted \/ MarkdownRefused \/ RequestFails \/ AuditRefuses
  \/ AnswerLost \/ NoToken

QQInit == TokenInit /\ SendInit
QQNext ==
  \/ \E j \in QQJobs : Deliver(j)
  \/ SenderStep \/ \E r \in Requesters : TokenStep(r)
  \/ QQTimeOut \/ TokenEnvironment \/ RememberSession \/ CleanUpMedia
=============================================================================
