--------------------------- MODULE RssProperties ----------------------------
(***************************************************************************)
(* What must hold of RssWorker, whatever the order of jobs, users, Telegram *)
(* answers and restarts.                                                   *)
(***************************************************************************)
EXTENDS RssWorker

Live(e) == row[e].status \in Queued

\* A row marked "sending" while the process runs is the row some job claimed
\* and is posting at this moment under the send lock, unchanged since.  So no
\* finished, withdrawn or failed send leaves such a row behind, and what
\* _recover_sending finds is only ever left over from a stopped process.
SendingIsOwned ==
  \A e \in EntryIds :
    (up /\ row[e].status = "sending") =>
      \E s \in SubIds : /\ sendLock = s /\ pc[s] \in Sending
                        /\ mine[s].id = e /\ SameSending(s)

\* The inductive invariant behind it: the send lock is held exactly by the job
\* between its acquisition and its release, a stopped process has no jobs, and
\* a row's subscription exists (so that the recovery of start(), which goes
\* through the subscriptions, reaches every row).
LockHeld ==
  \A s \in SubIds : pc[s] \in HoldsLock <=> sendLock = s
DownMeansIdle ==
  ~up => sendLock = 0 /\ \A s \in SubIds : pc[s] = "idle"
RowsHaveSubs ==
  \A e \in EntryIds : row[e].status # "absent" => sub[row[e].sub].live

IInv == TypeOK /\ LockHeld /\ DownMeansIdle /\ RowsHaveSubs /\ SendingIsOwned

\* An entry is in the channel twice only if the answer to one of its posts
\* was lost, to the network or to a crash (README: duplicates are possible
\* then, and de-duplication prevents them in normal operation).
DuplicateNeedsLostAnswer ==
  \A e \in EntryIds : row[e].posts = 2 => row[e].unknown

\* What waits in the queue of a subscription, or would after "retry failed",
\* comes from its current feed (README: changing the URL skips the old
\* source's unsent entries).
QueuedFromCurrentFeed ==
  \A e \in EntryIds :
    row[e].status \in Queued \cup {"failed"} =>
      sub[row[e].sub].live /\ row[e].version = sub[row[e].sub].version

\* A job only ever posts entries of its own subscription: the message goes to
\* the channel this subscription names (_send_one skips an entry that was
\* deleted before it was claimed).
OwnChannelOnly ==
  \A s \in SubIds : pc[s] \in Sending => mine[s].sub = s

\* While the process runs, a row goes back from "sending" to "pending" only
\* by its own job's transient failure, never because another pass took a live
\* send for an orphan (_recover_sending runs at the head of every pass).
RecoversOnlyOrphans ==
  [][\A e \in EntryIds :
       (up /\ row[e].status = "sending" /\ row'[e].status = "pending") =>
         \E s \in SubIds : /\ pc[s] \in Sending /\ mine[s].id = e
                           /\ pc'[s] = "gate"]_vars

\* Entries enter the table only from the feed that was current when the fetch
\* began: the answer of a URL that was replaced, or of a subscription that was
\* deleted and its id given out again, while it was on its way is dropped
\* (_same_feed after the fetch).
StaleFetchDiscarded ==
  [][\A e \in EntryIds :
       (row[e].status = "absent" /\ row'[e].status # "absent") =>
         LET s == row'[e].sub
         IN /\ pc[s] = "fetch" /\ sub[s].live /\ sub[s].born = seen[s].born
            /\ row'[e].version = seen[s].version]_vars

\* Seen from the rows alone, the subsystem is an outbox (RssOutbox).
LifeOf(status) ==
  CASE status = "absent" -> "absent" [] status = "pending" -> "queued"
    [] status = "sending" -> "taken" [] status = "sent" -> "delivered"
    [] status = "failed" -> "failed" [] status = "skipped" -> "withdrawn"

Outbox == INSTANCE RssOutbox
  WITH Ids <- EntryIds, life <- [e \in EntryIds |-> LifeOf(row[e].status)]

\* Every step of the jobs, users and restarts is a step of that outbox, or
\* changes no status: one entry in flight at a time, nothing delivered taken
\* again, nothing final revived except by an explicit request.
ImplementsOutbox == Outbox!Spec

\* A manual check is not lost: a fetch of the feed starts after it, even when
\* it comes while an older fetch is about to overwrite next_check_at, unless
\* the subscription is disabled or deleted or the process stops first.
ManualCheckHonoured ==
  \A s \in SubIds :
    (s \in asked) ~> (s \notin asked \/ ~sub[s].live \/ ~sub[s].enabled)

\* If from some time on the process runs, publishing is open and the entry's
\* subscription stays enabled, the entry does not wait for ever: it is sent,
\* fails for good or is skipped, whatever Telegram answers.
QueueDrains ==
  \A e \in EntryIds :
    <>[](up /\ open /\ sub[row[e].sub].live /\ sub[row[e].sub].enabled)
      => []<>~Live(e)
=============================================================================
