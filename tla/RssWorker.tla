----------------------------- MODULE RssWorker ------------------------------
(***************************************************************************)
(* The RSS subsystem: the CRUD operations of RssService, the scheduler and *)
(* the per-subscription jobs of RssWorker, the Telegram publisher, and     *)
(* crashes of the process.                                                 *)
(*                                                                         *)
(* Everything runs on one event loop.  A transaction made under a          *)
(* subscription lock is one action; two actions of a job are separated     *)
(* wherever the job awaits the network, a timer, the lock of another       *)
(* operation or the global send lock, and any other actor may run there.   *)
(***************************************************************************)
EXTENDS RssStore

CONSTANT UserOps    \* the operations the users of this instance perform

ASSUME UserOpsAssumption ==
  UserOps \subseteq {"create", "edit", "feed", "delete", "enable", "check",
                     "retry", "reevaluate", "pause"}

VARIABLES
  up,        \* the process runs (between two runs only the database exists)
  open,      \* can_publish: forwarding not paused and an account connected
  clock,     \* number of inserting transactions, the source of created_at
  sub,       \* table rss_subscription
  row,       \* table rss_entry
  req,       \* _check_requests
  scan,      \* ids the scheduler has read but not yet scheduled
  pc,        \* where the job of each subscription is ("idle": no live task)
  seen,      \* the subscription as the job read it, and whether to check it
  todo,      \* ids listed by _publish_pending and not yet tried
  mine,      \* the row the job claimed, as it was when claimed
  sendLock,  \* holder of _send_lock, 0 when free
  asked      \* history: checks a user asked for that have not begun

vars == <<up, open, clock, sub, row, req, scan, pc, seen, todo, mine,
          sendLock, asked>>
jobVars == <<pc, seen, todo, mine, sendLock>>

PCs == {"idle", "start", "read", "recover", "check", "fetch", "list", "gate",
        "queue", "claim", "post", "posted"}
Sending == {"post", "posted"}
HoldsLock == {"claim"} \cup Sending

NoSeen == [version |-> 0, born |-> 0, check |-> FALSE]
NoClaim == [id |-> 1, sub |-> 1, version |-> 0, item |-> NoRow.item,
            attempts |-> 0, born |-> 0]

TypeOK ==
  /\ up \in BOOLEAN /\ open \in BOOLEAN /\ clock \in Times
  /\ sub \in [SubIds -> Subscription]
  /\ row \in [EntryIds -> Row]
  /\ req \subseteq SubIds /\ scan \subseteq SubIds /\ asked \subseteq SubIds
  /\ pc \in [SubIds -> PCs]
  /\ seen \in [SubIds -> [version: Versions, born: Times, check: BOOLEAN]]
  /\ todo \in [SubIds -> SUBSET EntryIds]
  /\ mine \in [SubIds -> [id: EntryIds, sub: SubIds, version: Versions,
                          item: Items, attempts: Attempts, born: Times]]
  /\ sendLock \in 0..MaxSub

Init ==
  /\ up = TRUE /\ open = TRUE /\ clock = 0
  /\ sub = [s \in SubIds |-> NoSub]
  /\ row = [e \in EntryIds |-> NoRow]
  /\ req = {} /\ scan = {} /\ asked = {}
  /\ pc = [s \in SubIds |-> "idle"]
  /\ seen = [s \in SubIds |-> NoSeen]
  /\ todo = [s \in SubIds |-> {}]
  /\ mine = [s \in SubIds |-> NoClaim]
  /\ sendLock = 0

\* Apply Op to the rows of subscription s.
OnRows(s, Op(_)) ==
  row' = [e \in EntryIds |-> IF row[e].sub = s THEN Op(row[e]) ELSE row[e]]

\* _schedule: a live job is left alone (its wake-up only ends a sleep).
Schedule(S) ==
  pc' = [s \in SubIds |-> IF s \in S /\ pc[s] = "idle" THEN "start" ELSE pc[s]]

Goto(s, label) == pc' = [pc EXCEPT ![s] = label]

-----------------------------------------------------------------------------
(* The users: RssService and the entry points of RssWorker.                *)

May(op) == up /\ op \in UserOps

CreateSubscription(on, accepts, policy) ==
  /\ May("create") /\ clock < MaxBirths /\ clock' = clock + 1
  /\ \E s \in SubIds :
       /\ IsLargest(s - 1, {t \in SubIds : sub[t].live})
       /\ sub' = [sub EXCEPT ![s] =
            [NoSub EXCEPT !.live = TRUE, !.enabled = on, !.policy = policy,
                          !.accepts = accepts, !.due = TRUE, !.born = clock']]
  /\ UNCHANGED <<up, open, row, req, scan, asked, jobVars>>

UpdateSubscription(s, newFeed, on, accepts, policy) ==
  LET revised == Revised(sub[s], newFeed, on, accepts, policy)
      Follow(r) == RowRevised(sub[s], revised, r)
  IN /\ up /\ sub[s].live
     /\ newFeed => "feed" \in UserOps /\ sub[s].version < MaxVersion
     /\ ~newFeed => "edit" \in UserOps
     /\ sub' = [sub EXCEPT ![s] = revised]
     /\ OnRows(s, Follow)
     /\ UNCHANGED <<up, open, clock, req, scan, asked, jobVars>>

SetEnabled(s, on) ==
  /\ May("enable") /\ sub[s].live
  /\ sub' = [sub EXCEPT ![s] = 
                     [sub[s] EXCEPT !.enabled = on, !.due = @ \/ on]]
  /\ UNCHANGED <<up, open, clock, row, req, scan, asked, jobVars>>

DeleteSubscription(s) ==
  /\ May("delete") /\ sub[s].live
  /\ sub' = [sub EXCEPT ![s] = NoSub]
  /\ LET Gone(r) == NoRow IN OnRows(s, Gone)
  /\ UNCHANGED <<up, open, clock, req, scan, asked, jobVars>>

\* _require_enabled answers 409 for a disabled subscription.
TriggerCheck(s) ==
  /\ May("check") /\ sub[s].live /\ sub[s].enabled
  /\ sub' = [sub EXCEPT ![s].due = TRUE]
  /\ req' = req \cup {s}
  /\ asked' = asked \cup {s}
  /\ Schedule({s})
  /\ UNCHANGED <<up, open, clock, row, scan, seen, todo, mine, sendLock>>

RetryFailed(s) ==
  /\ May("retry") /\ sub[s].live /\ sub[s].enabled
  /\ OnRows(s, Retried)
  /\ Schedule({s})
  /\ UNCHANGED <<up, open, clock, sub, req, scan, seen, todo, mine, sendLock,
                 asked>>

ReevaluateKeywords(s) ==
  /\ May("reevaluate") /\ sub[s].live /\ sub[s].enabled
  /\ LET Again(r) == Reevaluated(sub[s], r) IN OnRows(s, Again)
  /\ IF \E e \in EntryIds : row'[e].status = "pending" /\ row[e].status = "skipped"
       THEN Schedule({s}) ELSE pc' = pc
  /\ UNCHANGED <<up, open, clock, sub, req, scan, seen, todo, mine, sendLock,
                 asked>>

\* The pause setting or the connection of the Telegram accounts changes.
ToggleOpen ==
  /\ May("pause") /\ open' = ~open
  /\ UNCHANGED <<up, clock, sub, row, req, scan, asked, jobVars>>

User ==
  \/ ToggleOpen
  \/ \E on \in BOOLEAN, f \in Filters, p \in Policies :
       \/ CreateSubscription(on, f, p)
       \/ \E s \in SubIds, newFeed \in BOOLEAN :
            UpdateSubscription(s, newFeed, on, f, p)
  \/ \E s \in SubIds :
       \/ (\E on \in BOOLEAN : SetEnabled(s, on))
       \/ DeleteSubscription(s) \/ TriggerCheck(s)
       \/ RetryFailed(s) \/ ReevaluateKeywords(s)

-----------------------------------------------------------------------------
(* The scheduler.                                                          *)

\* Fault: the query looks at next_check_at only.
DueByCheckOnly(s) == sub[s].live /\ sub[s].enabled /\ sub[s].due

Due(s) ==
  /\ sub[s].live /\ sub[s].enabled
  /\ \/ sub[s].due
     \/ \E e \in EntryIds : /\ row[e].sub = s /\ row[e].status \in Queued
                            /\ row[e].due

\* The scheduler's query, and after its session has closed the scheduling of
\* what the query returned.
ScanDue ==
  /\ up /\ scan = {}
  /\ scan' = {s \in SubIds : Due(s)}
  /\ scan' # {}
  /\ UNCHANGED <<up, open, clock, sub, row, req, asked, jobVars>>

StartJobs ==
  /\ up /\ scan # {}
  /\ Schedule(scan)
  /\ scan' = {}
  /\ UNCHANGED <<up, open, clock, sub, row, req, seen, todo, mine, sendLock,
                 asked>>

\* Time passes: a backoff or a check interval elapses.
RowDue(e) ==
  /\ row[e].status = "pending" /\ ~row[e].due
  /\ row' = [row EXCEPT ![e].due = TRUE]
  /\ UNCHANGED <<up, open, clock, sub, req, scan, asked, jobVars>>

SubDue(s) ==
  /\ sub[s].live /\ ~sub[s].due
  /\ sub' = [sub EXCEPT ![s].due = TRUE]
  /\ UNCHANGED <<up, open, clock, row, req, scan, asked, jobVars>>

-----------------------------------------------------------------------------
(* The job of one subscription: _run_job and process_subscription.         *)

JobBegin(s) ==
  /\ pc[s] = "start"
  /\ seen' = [seen EXCEPT ![s] = [NoSeen EXCEPT !.check = s \in req]]
  /\ req' = req \ {s}
  /\ Goto(s, "read")
  /\ UNCHANGED <<up, open, clock, sub, row, scan, todo, mine, sendLock, asked>>

\* Fault: requests made during the pass are not looked at.
PassDoneIgnoringRequests(s) == "idle"

\* A finished pass is followed by another when a request came in meanwhile.
PassDone(s) == IF s \in req THEN "start" ELSE "idle"

\* A deleted subscription ends the job by an exception, past the loop test.
JobRead(s) ==
  /\ pc[s] = "read"
  /\ \/ /\ ~sub[s].live
        /\ Goto(s, "idle")
        /\ seen' = [seen EXCEPT ![s] = NoSeen]
     \/ /\ sub[s].live /\ ~sub[s].enabled
        /\ Goto(s, PassDone(s))
        /\ seen' = [seen EXCEPT ![s] = NoSeen]
     \/ /\ sub[s].live /\ sub[s].enabled
        /\ Goto(s, "recover")
        /\ seen' = [seen EXCEPT ![s] =
             [version |-> sub[s].version, born |-> sub[s].born,
              check |-> @.check \/ sub[s].due]]
  /\ UNCHANGED <<up, open, clock, sub, row, req, scan, todo, mine, sendLock,
                 asked>>

\* Fault: the update lacks its subscription_id condition.
JobRecoverAll(s) ==
  /\ pc[s] = "recover"
  /\ row' = [e \in EntryIds |-> Recovered(row[e])]
  /\ Goto(s, IF seen[s].check THEN "check" ELSE "list")
  /\ UNCHANGED <<up, open, clock, sub, req, scan, seen, todo, mine, sendLock,
                 asked>>

JobRecover(s) ==
  /\ pc[s] = "recover"
  /\ OnRows(s, Recovered)
  /\ Goto(s, IF seen[s].check THEN "check" ELSE "list")
  /\ UNCHANGED <<up, open, clock, sub, req, scan, seen, todo, mine, sendLock,
                 asked>>

\* Fault: the feed version is not compared.
SameSubscription(s) ==
  sub[s].live /\ sub[s].enabled /\ sub[s].born = seen[s].born

SameFeed(s) ==
  /\ sub[s].live /\ sub[s].enabled
  /\ sub[s].version = seen[s].version
  /\ sub[s].born = seen[s].born

CheckBegin(s) ==
  /\ pc[s] = "check"
  /\ Goto(s, IF SameFeed(s) THEN "fetch" ELSE "list")
  /\ asked' = IF SameFeed(s) THEN asked \ {s} ELSE asked
  /\ UNCHANGED <<up, open, clock, sub, row, req, scan, seen, todo, mine,
                 sendLock>>

\* The fetch fails or answers 304: only the time of the next check changes.
FetchEmpty(s) ==
  /\ pc[s] = "fetch"
  /\ sub' = IF SameFeed(s) THEN [sub EXCEPT ![s].due = FALSE] ELSE sub
  /\ Goto(s, "list")
  /\ UNCHANGED <<up, open, clock, row, req, scan, seen, todo, mine, sendLock,
                 asked>>

Known(s, item) ==
  \E e \in EntryIds : /\ row[e].status # "absent" /\ row[e].sub = s
                      /\ row[e].version = sub[s].version /\ row[e].item = item

\* The feed lists these items, oldest first: the unknown ones are inserted in
\* that order, with consecutive ids after the largest in use.
FetchOk(s, feed) ==
  LET selected == {feed[i] : i \in {j \in DOMAIN feed :
                                      j > Len(feed) - InitialCount}}
      unknown == {j \in DOMAIN feed : ~Known(s, feed[j])}
      Place(j) == Cardinality({k \in unknown : k <= j})
  IN /\ pc[s] = "fetch"
     /\ IF SameFeed(s)
        THEN /\ \E m \in 0..MaxEntry - Cardinality(unknown) :
                  /\ IsLargest(m, {e \in EntryIds : row[e].status # "absent"})
                  /\ row' = [e \in EntryIds |->
                       IF e > m /\ \E j \in unknown : e = m + Place(j)
                         THEN NewRow(s, sub[s],
                                     feed[CHOOSE j \in unknown : e = m + Place(j)],
                                     selected, clock + 1)
                         ELSE row[e]]
             /\ IF unknown = {} THEN clock' = clock
                ELSE clock < MaxBirths /\ clock' = clock + 1
             /\ sub' = [sub EXCEPT ![s] = [@ EXCEPT !.due = FALSE, !.initialized = TRUE]]
        ELSE UNCHANGED <<row, clock, sub>>
     /\ Goto(s, "list")
     /\ UNCHANGED <<up, open, req, scan, seen, todo, mine, sendLock, asked>>

ListPending(s) ==
  /\ pc[s] = "list"
  /\ todo' = [todo EXCEPT ![s] =
       {e \in EntryIds : row[e].sub = s /\ row[e].status = "pending" /\ row[e].due}]
  /\ Goto(s, "gate")
  /\ UNCHANGED <<up, open, clock, sub, row, req, scan, seen, mine, sendLock,
                 asked>>

\* The head of the loop over the listed ids, with the can_publish test.
Gate(s) ==
  /\ pc[s] = "gate"
  /\ IF todo[s] # {} /\ open
       THEN Goto(s, "queue") /\ UNCHANGED <<todo, seen>>
       ELSE /\ Goto(s, PassDone(s))
            /\ todo' = [todo EXCEPT ![s] = {}]
            /\ seen' = [seen EXCEPT ![s] = NoSeen]
  /\ UNCHANGED <<up, open, clock, sub, row, req, scan, mine, sendLock, asked>>

TakeSendLock(s) ==
  /\ pc[s] = "queue" /\ sendLock = 0
  /\ sendLock' = s
  /\ Goto(s, "claim")
  /\ UNCHANGED <<up, open, clock, sub, row, req, scan, seen, todo, mine, asked>>

-----------------------------------------------------------------------------
(* _send_one, after the pause and the translation made under the lock.     *)

\* Fault: the retry limit is not tested.
ClaimedUncapped(t, r) ==
  IF ~t.live \/ ~t.enabled \/ r.status # "pending" \/ ~r.due THEN r
  ELSE IF ~Accepted(t, r)
    THEN [r EXCEPT !.status = "skipped", !.reason = "keyword"]
  ELSE [r EXCEPT !.status = "sending", !.attempts = @ + 1]

\* What claiming entry r for subscription record t does to it.
Claimed(t, r) ==
  IF ~t.live \/ ~t.enabled \/ r.status # "pending" \/ ~r.due THEN r
  ELSE IF ~Accepted(t, r)
    THEN [r EXCEPT !.status = "skipped", !.reason = "keyword"]
  ELSE IF r.attempts >= MaxAttempts THEN [r EXCEPT !.status = "failed"]
  ELSE [r EXCEPT !.status = "sending", !.attempts = @ + 1]

\* What _send_one keeps of the entry it claimed, to compare with afterwards.
ClaimOf(e, r) ==
  [id |-> e, sub |-> r.sub, version |-> r.version, item |-> r.item,
   attempts |-> r.attempts, born |-> r.born]

\* The listed ids are tried in ascending order.
Claim(s) ==
  \E e \in todo[s] :
    LET r == Claimed(sub[s], row[e])
        taken == row[e].status = "pending" /\ r.status = "sending"
    IN /\ pc[s] = "claim"
       /\ \A f \in todo[s] : e <= f
       /\ row' = [row EXCEPT ![e] = r]
       /\ todo' = [todo EXCEPT ![s] = @ \ {e}]
       /\ IF taken
          THEN /\ Goto(s, "post") /\ UNCHANGED sendLock
               /\ mine' = [mine EXCEPT ![s] = ClaimOf(e, r)]
          ELSE Goto(s, "gate") /\ sendLock' = 0 /\ UNCHANGED mine
       /\ UNCHANGED <<up, open, clock, sub, req, scan, seen, asked>>

\* The row the job claimed is still the one it claimed (created_at).
SameRow(s, e) == e = mine[s].id /\ row[e].born = mine[s].born

\* Fault: the outcome is written whatever became of the row meanwhile.
SameRowOnly(s) == SameRow(s, mine[s].id) /\ row[mine[s].id].status # "absent"

SameSending(s) ==
  LET r == row[mine[s].id]
  IN /\ r.status = "sending"
     /\ r.sub = mine[s].sub /\ r.version = mine[s].version
     /\ r.item = mine[s].item /\ r.born = mine[s].born
     /\ r.attempts = mine[s].attempts

\* Telegram accepts the message; the answer is on its way.
TelegramAccepts(s) ==
  /\ pc[s] = "post"
  /\ Goto(s, "posted")
  /\ row' = [e \in EntryIds |->
       IF SameRow(s, e)
         THEN [row[e] EXCEPT !.posts = IF @ = 2 THEN 2 ELSE @ + 1] ELSE row[e]]
  /\ UNCHANGED <<up, open, clock, sub, req, scan, seen, todo, mine, sendLock,
                 asked>>

\* The outcome is written only to the very row that was claimed; the lock is
\* released and the loop goes on.
Outcome(s, Op(_), lost) ==
  /\ row' = [e \in EntryIds |->
       LET r == IF SameRow(s, e) /\ lost
                  THEN [row[e] EXCEPT !.unknown = TRUE] ELSE row[e]
       IN IF e = mine[s].id /\ SameSending(s) THEN Op(r) ELSE r]
  /\ Goto(s, "gate")
  /\ sendLock' = 0
  /\ mine' = [mine EXCEPT ![s] = NoClaim]
  /\ UNCHANGED <<up, open, clock, sub, req, scan, seen, todo, asked>>

ConfirmSent(s) ==
  LET Sent(r) == [r EXCEPT !.status = "sent"]
  IN pc[s] = "posted" /\ Outcome(s, Sent, FALSE)

\* Rendering fails, Telegram refuses for good, or an unexpected exception.
SendRejected(s) ==
  LET Failed(r) == [r EXCEPT !.status = "failed"]
  IN pc[s] = "post" /\ Outcome(s, Failed, FALSE)

\* Network error, timeout or flood wait; from "posted" the message is in the
\* channel and only the answer is lost.
SendTransient(s) ==
  LET Backoff(r) == IF r.attempts >= MaxAttempts
                      THEN [r EXCEPT !.status = "failed"]
                      ELSE [r EXCEPT !.status = "pending", !.due = FALSE]
  IN pc[s] \in Sending /\ Outcome(s, Backoff, pc[s] = "posted")

-----------------------------------------------------------------------------
(* Stop and crash: memory is lost, rows stay as they are.  A cancelled or  *)
(* killed send leaves its row "sending"; start() recovers every such row   *)
(* before the scheduler exists.                                            *)

Crash ==
  /\ up /\ up' = FALSE
  /\ row' = [e \in EntryIds |->
       IF \E s \in SubIds : pc[s] = "posted" /\ SameRow(s, e)
         THEN [row[e] EXCEPT !.unknown = TRUE] ELSE row[e]]
  /\ req' = {} /\ scan' = {} /\ asked' = {}
  /\ pc' = [s \in SubIds |-> "idle"]
  /\ seen' = [s \in SubIds |-> NoSeen]
  /\ todo' = [s \in SubIds |-> {}]
  /\ mine' = [s \in SubIds |-> NoClaim]
  /\ sendLock' = 0
  /\ UNCHANGED <<open, clock, sub>>

Restart ==
  /\ ~up /\ up' = TRUE
  /\ row' = [e \in EntryIds |->
               IF sub[row[e].sub].live THEN Recovered(row[e]) ELSE row[e]]
  /\ UNCHANGED <<open, clock, sub, req, scan, asked, jobVars>>

-----------------------------------------------------------------------------
JobStep(s) ==
  \/ JobBegin(s) \/ JobRead(s) \/ JobRecover(s) \/ CheckBegin(s)
  \/ FetchEmpty(s) \/ (\E feed \in Feeds : FetchOk(s, feed))
  \/ ListPending(s) \/ Gate(s) \/ Claim(s)
  \/ TelegramAccepts(s) \/ ConfirmSent(s) \/ SendRejected(s) \/ SendTransient(s)

Next ==
  \/ User \/ ScanDue \/ StartJobs
  \/ \E e \in EntryIds : RowDue(e)
  \/ \E s \in SubIds : SubDue(s) \/ TakeSendLock(s) \/ JobStep(s)
  \/ Crash \/ Restart

Spec == Init /\ [][Next]_vars

(* The event loop runs every ready task, fetches and posts end by their    *)
(* timeouts, asyncio.Lock serves its waiters in order, and a backoff       *)
(* elapses.  Nothing is assumed of the users, of Telegram's answers, of    *)
(* restarts, or of the check interval, which may be a day.                 *)
Fairness ==
  /\ WF_vars(ScanDue) /\ WF_vars(StartJobs)
  /\ \A e \in EntryIds : WF_vars(RowDue(e))
  /\ \A s \in SubIds : WF_vars(JobStep(s)) /\ SF_vars(TakeSendLock(s))

FairSpec == Spec /\ Fairness
=============================================================================
