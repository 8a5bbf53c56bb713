-------------------------- MODULE RssHistoryProofs --------------------------
(***************************************************************************)
(* Proofs about where the entries of the RSS subsystem come from, to which *)
(* channel they go and how often, for every value of the constants.        *)
(***************************************************************************)
EXTENDS RssProofs

\* Row q is row r with only its status, due time, attempts, reason and what
\* Telegram answered changed.
SameItem(r, q) ==
  /\ q.sub = r.sub /\ q.version = r.version /\ q.born = r.born
  /\ q.status = "absent" <=> r.status = "absent"

\* The entry enters the table now.
Enters(e) ==
  /\ row[e].status = "absent" /\ row'[e].status \in {"pending", "skipped"}
  /\ \E s \in SubIds : /\ pc[s] = "fetch" /\ SameFeed(s)
                       /\ row'[e].sub = s /\ row'[e].version = sub[s].version
  /\ row'[e].born = clock + 1 /\ clock' = clock + 1 /\ row'[e].posts = 0

\* What a step does to one row, and which it may do to it.
Kept(e) == SameItem(row[e], row'[e])
Deleted(e) == row'[e] = NoRow /\ "delete" \in UserOps

\* The statements on one row, except deletion, keep its identity and its
\* history.
LEMMA SameItemOperators ==
  ASSUME NEW r \in Row, NEW s \in Subscription, NEW t \in Subscription
  PROVE  \A q \in {RowRevised(s, t, r), Recovered(r), Retried(r),
                   Reevaluated(s, r), Claimed(s, r), [r EXCEPT !.due = TRUE]} :
           SameItem(r, q) /\ q.posts = r.posts /\ q.unknown = r.unknown
<1> USE DEF SameItem
<1>1. /\ SameItem(r, RowRevised(s, t, r))
      /\ RowRevised(s, t, r).posts = r.posts
      /\ RowRevised(s, t, r).unknown = r.unknown
  <2>1. ASSUME NEW q \in Row
        PROVE  /\ SameItem(q, Tightened(t, q))
               /\ Tightened(t, q).posts = q.posts
               /\ Tightened(t, q).unknown = q.unknown
    BY DEF Tightened, Row
  <2>2. /\ SourceChanged(r) \in Row /\ SameItem(r, SourceChanged(r))
        /\ SourceChanged(r).posts = r.posts
        /\ SourceChanged(r).unknown = r.unknown
    BY RowOperators DEF SourceChanged, Row
  <2> QED
    BY <2>1, <2>2 DEF RowRevised
<1>2. /\ SameItem(r, Recovered(r))
      /\ Recovered(r).posts = r.posts /\ Recovered(r).unknown = r.unknown
  BY DEF Recovered, Row
<1>3. /\ SameItem(r, Retried(r))
      /\ Retried(r).posts = r.posts /\ Retried(r).unknown = r.unknown
  BY DEF Retried, Row
<1>4. /\ SameItem(r, Reevaluated(s, r))
      /\ Reevaluated(s, r).posts = r.posts
      /\ Reevaluated(s, r).unknown = r.unknown
  BY DEF Reevaluated, Row
<1>5. /\ SameItem(r, Claimed(s, r))
      /\ Claimed(s, r).posts = r.posts /\ Claimed(s, r).unknown = r.unknown
  BY DEF Claimed, Row
<1>6. /\ SameItem(r, [r EXCEPT !.due = TRUE])
      /\ [r EXCEPT !.due = TRUE].posts = r.posts
      /\ [r EXCEPT !.due = TRUE].unknown = r.unknown
  BY DEF Row
<1> QED
  BY <1>1, <1>2, <1>3, <1>4, <1>5, <1>6

-----------------------------------------------------------------------------
(* What one step may do to a row, to a claim and to a list of a job.       *)

\* Every step keeps what identifies a row, deletes the row, or is the fetch
\* that enters it.
LEMMA RowSteps ==
  ASSUME TypeOK, [Next]_vars, NEW e \in EntryIds
  PROVE  Kept(e) \/ Deleted(e) \/ Enters(e)
<1>1. /\ row[e] \in Row /\ row[e].sub \in SubIds
      /\ \A s \in SubIds : sub[s] \in Subscription
  BY DEF TypeOK, Row
<1>2. row'[e] = row[e] => Kept(e)
  BY DEF Kept, SameItem
<1> USE DEF jobVars
<1>3. CASE User
  <2>1. ASSUME NEW s \in SubIds, NEW newFeed \in BOOLEAN, NEW on \in BOOLEAN,
               NEW f \in Filters, NEW p \in Policies,
               UpdateSubscription(s, newFeed, on, f, p)
        PROVE  Kept(e)
    <3>1. Revised(sub[s], newFeed, on, f, p) \in Subscription
      BY <1>1, <2>1, RevisedType DEF UpdateSubscription
    <3>2. \/ row'[e] = row[e]
          \/ row'[e] = RowRevised(sub[s], Revised(sub[s], newFeed, on, f, p),
                                  row[e])
      BY <2>1 DEF UpdateSubscription, OnRows
    <3> QED
      BY <1>1, <1>2, <3>1, <3>2, SameItemOperators DEF Kept
  <2>2. ASSUME NEW s \in SubIds, RetryFailed(s) \/ ReevaluateKeywords(s)
        PROVE  Kept(e)
    <3>1. row'[e] \in {row[e], Retried(row[e]), Reevaluated(sub[s], row[e])}
      BY <2>2 DEF RetryFailed, ReevaluateKeywords, OnRows
    <3> QED
      BY <1>1, <1>2, <3>1, SameItemOperators DEF Kept
  <2>3. ASSUME NEW s \in SubIds, DeleteSubscription(s)
        PROVE  Kept(e) \/ Deleted(e)
    BY <1>2, <2>3 DEF DeleteSubscription, OnRows, Deleted, May
  <2>4. CASE row'[e] = row[e]
    BY <1>2, <2>4
  <2> QED
    BY <1>3, <2>1, <2>2, <2>3, <2>4
    DEF User, ToggleOpen, CreateSubscription, SetEnabled, TriggerCheck
<1>4. ASSUME NEW f \in EntryIds, RowDue(f)
      PROVE  Kept(e)
  <2>1. row'[e] \in {row[e], [row[e] EXCEPT !.due = TRUE]}
    BY <1>4 DEF RowDue, TypeOK
  <2> QED
    BY <1>1, <1>2, <2>1, SameItemOperators DEF Kept
<1>5. ASSUME NEW s \in SubIds, JobStep(s) \/ SubDue(s) \/ TakeSendLock(s)
      PROVE  Kept(e) \/ Enters(e)
  <2>1. CASE \/ JobBegin(s) \/ JobRead(s) \/ CheckBegin(s) \/ FetchEmpty(s)
             \/ ListPending(s) \/ Gate(s) \/ SubDue(s) \/ TakeSendLock(s)
    BY <1>2, <2>1 DEF JobBegin, JobRead, CheckBegin, FetchEmpty, ListPending,
       Gate, SubDue, TakeSendLock
  <2>2. CASE JobRecover(s)
    <3>1. row'[e] \in {row[e], Recovered(row[e])}
      BY <2>2 DEF JobRecover, OnRows
    <3> QED
      BY <1>1, <1>2, <3>1, SameItemOperators DEF Kept
  <2>3. ASSUME NEW feed \in Feeds, FetchOk(s, feed)
        PROVE  Kept(e) \/ Enters(e)
    <3>1. CASE row'[e] = row[e]
      BY <1>2, <3>1
    <3>2. CASE row'[e] # row[e]
      <4>1. pc[s] = "fetch"
        BY <2>3 DEF FetchOk
      <4> QED
        BY <2>3, <3>2, <4>1, FetchOkRows DEF Enters
    <3> QED
      BY <3>1, <3>2
  <2>4. CASE Claim(s)
    <3>1. row'[e] \in {row[e], Claimed(sub[s], row[e])}
      BY <2>4 DEF Claim, TypeOK
    <3> QED
      BY <1>1, <1>2, <3>1, SameItemOperators DEF Kept
  <2>5. CASE TelegramAccepts(s)
    BY <1>1, <2>5 DEF TelegramAccepts, Kept, SameItem, Row
  <2>6. CASE ConfirmSent(s) \/ SendRejected(s) \/ SendTransient(s)
    <3>1. SameSending(s) => row[mine[s].id].status = "sending"
      BY DEF SameSending
    <3>2. CASE ConfirmSent(s)
      BY <1>1, <3>1, <3>2 DEF ConfirmSent, Outcome, Kept, SameItem, Row
    <3>3. CASE SendRejected(s)
      BY <1>1, <3>1, <3>3 DEF SendRejected, Outcome, Kept, SameItem, Row
    <3>4. CASE SendTransient(s)
      BY <1>1, <3>1, <3>4 DEF SendTransient, Outcome, Kept, SameItem, Row
    <3> QED
      BY <2>6, <3>2, <3>3, <3>4
  <2> QED
    BY <1>5, <2>1, <2>2, <2>3, <2>4, <2>5, <2>6 DEF JobStep
<1>6. CASE Crash
  BY <1>1, <1>6 DEF Crash, Kept, SameItem, Row
<1>7. CASE Restart
  <2>1. row'[e] \in {row[e], Recovered(row[e])}
    BY <1>7 DEF Restart
  <2> QED
    BY <1>1, <1>2, <2>1, SameItemOperators DEF Kept
<1>8. CASE ScanDue \/ StartJobs \/ UNCHANGED vars
  BY <1>2, <1>8 DEF ScanDue, StartJobs, vars
<1> QED
  BY <1>3, <1>4, <1>5, <1>6, <1>7, <1>8 DEF Next

\* An entry appears only from the feed that was current when its fetch began,
\* whatever was edited, deleted or created again while the answer was on its
\* way.
THEOREM StaleFetchAlways == Spec => StaleFetchDiscarded
<1> DEFINE Discarded ==
      \A e \in EntryIds :
        (row[e].status = "absent" /\ row'[e].status # "absent") =>
          LET s == row'[e].sub
          IN /\ pc[s] = "fetch" /\ sub[s].live /\ sub[s].born = seen[s].born
             /\ row'[e].version = seen[s].version
<1>1. TypeOK /\ [Next]_vars => [Discarded]_vars
  <2> SUFFICES ASSUME TypeOK, [Next]_vars, NEW e \in EntryIds,
                      row[e].status = "absent", row'[e].status # "absent"
               PROVE  LET s == row'[e].sub
                      IN /\ pc[s] = "fetch" /\ sub[s].live
                         /\ sub[s].born = seen[s].born
                         /\ row'[e].version = seen[s].version
    OBVIOUS
  <2>1. ~Kept(e) /\ ~Deleted(e)
    BY DEF Kept, SameItem, Deleted, NoRow
  <2>2. Enters(e)
    BY <2>1, RowSteps
  <2> QED
    BY <2>2 DEF Enters, SameFeed
<1> QED
  BY <1>1, TypeCorrect, PTL DEF Spec, StaleFetchDiscarded

-----------------------------------------------------------------------------
(* QueuedFromCurrentFeed, where users do not re-evaluate keywords.         *)

Waiting == Queued \cup {"failed"}

\* The records of the subscriptions that rows refer to change their feed only
\* by UpdateSubscription and disappear only with their rows.
LEMMA SubSteps ==
  ASSUME TypeOK, [Next]_vars, NEW t \in SubIds, sub[t].live
  PROVE  \/ sub'[t].live /\ sub'[t].version = sub[t].version
         \/ DeleteSubscription(t)
         \/ \E on \in BOOLEAN, f \in Filters, p \in Policies :
              UpdateSubscription(t, TRUE, on, f, p)
<1>1. sub[t] \in Subscription /\ sub \in [SubIds -> Subscription]
  BY DEF TypeOK
<1> DEFINE Same == sub'[t].live /\ sub'[t].version = sub[t].version
<1>2. sub' = sub => Same
  OBVIOUS
<1> USE DEF jobVars
<1>3. ASSUME NEW on \in BOOLEAN, NEW f \in Filters, NEW p \in Policies,
             CreateSubscription(on, f, p)
      PROVE  Same
  <2>1. PICK s \in SubIds :
          /\ IsLargest(s - 1, {u \in SubIds : sub[u].live})
          /\ sub' = [sub EXCEPT ![s] =
               [NoSub EXCEPT !.live = TRUE, !.enabled = on, !.policy = p,
                             !.accepts = f, !.due = TRUE, !.born = clock']]
    BY <1>3 DEF CreateSubscription
  <2>2. t # s
    BY <2>1 DEF IsLargest, SubIds
  <2> QED
    BY <1>1, <2>1, <2>2
<1>4. ASSUME NEW s \in SubIds, NEW newFeed \in BOOLEAN, NEW on \in BOOLEAN,
             NEW f \in Filters, NEW p \in Policies,
             UpdateSubscription(s, newFeed, on, f, p), ~(newFeed /\ s = t)
      PROVE  Same
  <2>1. sub' = [sub EXCEPT ![s] = Revised(sub[s], newFeed, on, f, p)]
    BY <1>4 DEF UpdateSubscription
  <2>2. CASE s # t
    BY <1>1, <2>1, <2>2
  <2>3. CASE s = t
    <3>1. /\ Revised(sub[t], FALSE, on, f, p).live = sub[t].live
          /\ Revised(sub[t], FALSE, on, f, p).version = sub[t].version
      BY <1>1 DEF Revised, Subscription
    <3>2. newFeed = FALSE
      BY <1>4, <2>3
    <3> QED
      BY <1>1, <2>1, <2>3, <3>1, <3>2
  <2> QED
    BY <2>2, <2>3
<1>5. ASSUME NEW s \in SubIds, NEW on \in BOOLEAN, SetEnabled(s, on)
      PROVE  Same
  <2>1. \E x \in BOOLEAN :
          sub' = [sub EXCEPT ![s] = [sub[s] EXCEPT !.enabled = on, !.due = x]]
    BY <1>5 DEF SetEnabled
  <2> QED
    BY <1>1, <2>1 DEF Subscription
<1>6. ASSUME NEW s \in SubIds, DeleteSubscription(s), s # t
      PROVE  Same
  BY <1>1, <1>6 DEF DeleteSubscription
<1>7. ASSUME NEW s \in SubIds, NEW x \in BOOLEAN,
             sub' = [sub EXCEPT ![s].due = x]
      PROVE  Same
  BY <1>1, <1>7 DEF Subscription
<1>8. CASE User
  <2>1. CASE ToggleOpen \/ \E s \in SubIds : RetryFailed(s) \/ ReevaluateKeywords(s)
    BY <1>2, <2>1 DEF ToggleOpen, RetryFailed, ReevaluateKeywords
  <2>2. ASSUME NEW s \in SubIds, TriggerCheck(s)
        PROVE  Same
    BY <1>7, <2>2 DEF TriggerCheck
  <2> QED
    BY <1>3, <1>4, <1>5, <1>6, <1>8, <2>1, <2>2 DEF User
<1>9. ASSUME NEW s \in SubIds, FetchEmpty(s) \/ SubDue(s)
      PROVE  Same
  BY <1>2, <1>7, <1>9 DEF FetchEmpty, SubDue
<1>10. ASSUME NEW s \in SubIds, NEW feed \in Feeds, FetchOk(s, feed)
       PROVE  Same
  <2>1. \/ sub' = sub
        \/ sub' = [sub EXCEPT ![s] = [@ EXCEPT !.due = FALSE, !.initialized = TRUE]]
    BY <1>10, Zenon DEF FetchOk
  <2>2. \A u \in SubIds :
          /\ [sub[u] EXCEPT !.due = FALSE, !.initialized = TRUE].live = sub[u].live
          /\ [sub[u] EXCEPT !.due = FALSE, !.initialized = TRUE].version
               = sub[u].version
    BY <1>1 DEF Subscription
  <2> QED
    BY <1>1, <2>1, <2>2
<1>11. CASE \/ ScanDue \/ StartJobs \/ Crash \/ Restart \/ UNCHANGED vars
            \/ \E e \in EntryIds : RowDue(e)
  BY <1>2, <1>11 DEF ScanDue, StartJobs, Crash, Restart, RowDue, vars
<1>12. ASSUME NEW s \in SubIds,
              \/ JobBegin(s) \/ JobRead(s) \/ JobRecover(s) \/ CheckBegin(s)
              \/ ListPending(s) \/ Gate(s) \/ Claim(s) \/ TakeSendLock(s)
              \/ TelegramAccepts(s)
              \/ ConfirmSent(s) \/ SendRejected(s) \/ SendTransient(s)
       PROVE  Same
  BY <1>2, <1>12 DEF JobBegin, JobRead, JobRecover, CheckBegin, ListPending, Gate,
     Claim, TakeSendLock, TelegramAccepts, ConfirmSent, SendRejected,
     SendTransient, Outcome
<1> QED
  BY <1>8, <1>9, <1>10, <1>11, <1>12 DEF Next, JobStep

\* Only the fetch and re-evaluation make an entry wait that did not.
LEMMA WaitingSteps ==
  ASSUME TypeOK, [Next]_vars, "reevaluate" \notin UserOps,
         NEW e \in EntryIds, row'[e].status \in Waiting
  PROVE  row[e].status \in Waiting \/ Enters(e)
<1>1. /\ row[e] \in Row /\ \A s \in SubIds : sub[s] \in Subscription
  BY DEF TypeOK
<1>2. ASSUME NEW s \in SubIds, NEW newFeed \in BOOLEAN, NEW on \in BOOLEAN,
             NEW f \in Filters, NEW p \in Policies,
             UpdateSubscription(s, newFeed, on, f, p)
      PROVE  row[e].status \in Waiting
  <2>1. Revised(sub[s], newFeed, on, f, p) \in Subscription
    BY <1>1, <1>2, RevisedType DEF UpdateSubscription
  <2>2. row'[e] \in {row[e],
          RowRevised(sub[s], Revised(sub[s], newFeed, on, f, p), row[e])}
    BY <1>2 DEF UpdateSubscription, OnRows
  <2> QED
    BY <1>1, <2>1, <2>2, StatusOf DEF Waiting, Queued
<1>3. ASSUME NEW s \in SubIds,
             RetryFailed(s) \/ ReevaluateKeywords(s) \/ DeleteSubscription(s)
      PROVE  row[e].status \in Waiting
  <2>1. row'[e] \in {row[e], Retried(row[e]), NoRow}
    BY <1>3 DEF RetryFailed, ReevaluateKeywords, DeleteSubscription, OnRows, May
  <2>2. NoRow.status = "absent"
    BY DEF NoRow
  <2> QED
    BY <1>1, <2>1, <2>2, StatusOf DEF Waiting, Queued
<1>4. CASE row'[e] = row[e]
  BY <1>4
<1>5. CASE User
  BY <1>2, <1>3, <1>4, <1>5
  DEF User, ToggleOpen, CreateSubscription, SetEnabled, TriggerCheck
<1> USE DEF jobVars
<1>6. ASSUME NEW f \in EntryIds, RowDue(f)
      PROVE  row[e].status \in Waiting
  BY <1>1, <1>6 DEF RowDue, TypeOK, Row
<1>7. ASSUME NEW s \in SubIds, NEW feed \in Feeds, FetchOk(s, feed)
      PROVE  row[e].status \in Waiting \/ Enters(e)
  <2>1. CASE row'[e] # row[e]
    <3>1. pc[s] = "fetch"
      BY <1>7 DEF FetchOk
    <3> QED
      BY <1>7, <2>1, <3>1, FetchOkRows DEF Enters
  <2> QED
    BY <1>4, <2>1
<1>8. ASSUME NEW s \in SubIds, JobRecover(s) \/ Claim(s)
      PROVE  row[e].status \in Waiting
  <2>1. row'[e] \in {row[e], Recovered(row[e]), Claimed(sub[s], row[e])}
    BY <1>8 DEF JobRecover, OnRows, Claim, TypeOK
  <2> QED
    BY <1>1, <2>1, StatusOf DEF Waiting, Queued
<1>9. ASSUME NEW s \in SubIds, TelegramAccepts(s)
      PROVE  row[e].status \in Waiting
  BY <1>1, <1>9 DEF TelegramAccepts, Row
<1>10. ASSUME NEW s \in SubIds,
              ConfirmSent(s) \/ SendRejected(s) \/ SendTransient(s)
       PROVE  row[e].status \in Waiting
  <2>1. SameSending(s) => row[mine[s].id].status = "sending"
    BY DEF SameSending
  <2>2. CASE ConfirmSent(s)
    BY <1>1, <2>1, <2>2 DEF ConfirmSent, Outcome, Row, Waiting, Queued
  <2>3. CASE SendRejected(s)
    BY <1>1, <2>1, <2>3 DEF SendRejected, Outcome, Row, Waiting, Queued
  <2>4. CASE SendTransient(s)
    BY <1>1, <2>1, <2>4 DEF SendTransient, Outcome, Row, Waiting, Queued
  <2> QED
    BY <1>10, <2>2, <2>3, <2>4
<1>11. CASE Crash
  BY <1>1, <1>11 DEF Crash, Row
<1>12. CASE Restart
  <2>1. row'[e] \in {row[e], Recovered(row[e])}
    BY <1>12 DEF Restart
  <2> QED
    BY <1>1, <2>1, StatusOf, Defaults DEF Waiting, Queued
<1>13. CASE \/ ScanDue \/ StartJobs \/ UNCHANGED vars
            \/ \E s \in SubIds :
                 \/ JobBegin(s) \/ JobRead(s) \/ CheckBegin(s) \/ FetchEmpty(s)
                 \/ ListPending(s) \/ Gate(s) \/ SubDue(s) \/ TakeSendLock(s)
  BY <1>4, <1>13 DEF ScanDue, StartJobs, vars, JobBegin, JobRead, CheckBegin,
     FetchEmpty, ListPending, Gate, SubDue, TakeSendLock
<1> QED
  BY <1>5, <1>6, <1>7, <1>8, <1>9, <1>10, <1>11, <1>12, <1>13 DEF Next, JobStep

\* Nothing is ever queued, or brought back by "retry failed", from a source
\* that was replaced, in an instance where nobody re-evaluates keywords: that
\* one operation is what breaks it (run rss_old_feed).
THEOREM CurrentFeedOnly ==
  ASSUME "reevaluate" \notin UserOps
  PROVE  Spec => []QueuedFromCurrentFeed
<1>1. Init => QueuedFromCurrentFeed
  BY DEF Init, QueuedFromCurrentFeed, NoRow, Queued
<1>2. IInv /\ QueuedFromCurrentFeed /\ [Next]_vars => QueuedFromCurrentFeed'
  <2> SUFFICES ASSUME IInv, QueuedFromCurrentFeed, [Next]_vars,
                      NEW e \in EntryIds, row'[e].status \in Waiting
               PROVE  /\ sub'[row'[e].sub].live
                      /\ row'[e].version = sub'[row'[e].sub].version
    BY DEF QueuedFromCurrentFeed, Waiting
  <2>1. /\ TypeOK /\ row[e] \in Row /\ row[e].sub \in SubIds
        /\ sub[row[e].sub] \in Subscription
    BY DEF IInv, TypeOK, Row
  <2>2. CASE Enters(e)
    <3>1. PICK s \in SubIds : /\ pc[s] = "fetch" /\ SameFeed(s)
                              /\ row'[e].sub = s /\ row'[e].version = sub[s].version
      BY <2>2 DEF Enters
    <3>2. sub[s].live
      BY <3>1 DEF SameFeed
    <3>3. ~DeleteSubscription(s)
      BY <2>2 DEF DeleteSubscription, OnRows, Enters, NoRow
    <3>4. ASSUME NEW on \in BOOLEAN, NEW f \in Filters, NEW p \in Policies,
                 UpdateSubscription(s, TRUE, on, f, p)
          PROVE  FALSE
      <4>1. clock' = clock /\ clock \in Times
        BY <2>1, <3>4 DEF UpdateSubscription, TypeOK
      <4> QED
        BY <2>2, <4>1 DEF Enters, Times
    <3> QED
      BY <2>1, <3>1, <3>2, <3>3, <3>4, SubSteps
  <2>3. CASE ~Enters(e)
    <3>1. row[e].status \in Waiting
      BY <2>1, <2>3, WaitingSteps
    <3>2. Kept(e)
      <4>1. ~Deleted(e)
        BY DEF Deleted, NoRow, Waiting, Queued
      <4> QED
        BY <2>1, <2>3, <4>1, RowSteps
    <3>3. /\ sub[row[e].sub].live /\ row[e].version = sub[row[e].sub].version
          /\ row'[e].sub = row[e].sub /\ row'[e].version = row[e].version
      BY <3>1, <3>2 DEF QueuedFromCurrentFeed, Waiting, Kept, SameItem
    <3>4. ~DeleteSubscription(row[e].sub)
      BY DEF DeleteSubscription, OnRows, NoRow, Waiting, Queued
    <3>5. ASSUME NEW on \in BOOLEAN, NEW f \in Filters, NEW p \in Policies,
                 UpdateSubscription(row[e].sub, TRUE, on, f, p)
          PROVE  FALSE
      <4> DEFINE old == sub[row[e].sub]
                 new == Revised(old, TRUE, on, f, p)
      <4>1. row'[e] = RowRevised(old, new, row[e])
        BY <3>5 DEF UpdateSubscription, OnRows
      <4>2. new.version # old.version /\ new \in Subscription
        <5>1. new \in Subscription
          BY <2>1, <3>5, RevisedType DEF UpdateSubscription
        <5>2. new.version = old.version + 1 /\ old.version \in Nat
          BY <2>1 DEF Revised, Subscription, Versions
        <5> HIDE DEF old, new
        <5>3. new.version # old.version
          BY <5>2
        <5> QED
          BY <5>1, <5>3
      <4> HIDE DEF old, new
      <4>3. SourceChanged(row[e]).status = "skipped" /\ SourceChanged(row[e]) \in Row
        BY <2>1, <3>1, RowOperators DEF SourceChanged, Row, Waiting, Queued
      <4>4. row'[e].status = "skipped"
        <5>1. \A q : q.status # "pending" => Tightened(new, q) = q
          BY DEF Tightened
        <5>2. row'[e] = SourceChanged(row[e])
          BY <4>1, <4>2, <4>3, <5>1 DEF RowRevised
        <5> QED
          BY <4>3, <5>2
      <4> QED
        BY <4>4 DEF Waiting, Queued
    <3> QED
      BY <2>1, <3>3, <3>4, <3>5, SubSteps
  <2> QED
    BY <2>2, <2>3
<1> QED
  BY <1>1, <1>2, AlwaysIInv, PTL DEF Spec

-----------------------------------------------------------------------------
(* OwnChannelOnly, where no id of an entry can pass from one subscription  *)
(* to another.                                                             *)

\* SQLite gives out an id again only after its row was deleted, and another
\* subscription gets it only if there is another.
NoReuse == "delete" \notin UserOps \/ MaxSub = 1

\* Without deletions, what a job has listed stays in the table.
ListedStay ==
  \A s \in SubIds : \A e \in todo[s] : row[e].sub = s /\ row[e].status # "absent"

\* A step leaves the claims and the jobs that post as they are, or is one of
\* the few that do not.
LEMMA ClaimSteps ==
  ASSUME TypeOK, [Next]_vars
  PROVE  \/ Crash
         \/ \E s \in SubIds : \/ Claim(s) \/ TelegramAccepts(s) \/ ConfirmSent(s)
                              \/ SendRejected(s) \/ SendTransient(s)
         \/ /\ mine' = mine
            /\ \A s \in SubIds :
                 pc[s] \in Sending \/ pc'[s] \in Sending => pc'[s] = pc[s]
<1> DEFINE Quiet ==
      /\ mine' = mine
      /\ \A s \in SubIds : pc[s] \in Sending \/ pc'[s] \in Sending => pc'[s] = pc[s]
<1>1. ASSUME NEW S, Schedule(S)
      PROVE  \A s \in SubIds :
               pc[s] \in Sending \/ pc'[s] \in Sending => pc'[s] = pc[s]
  BY <1>1 DEF Schedule, Sending
<1>2. ASSUME NEW s \in SubIds, NEW label \in PCs \ Sending,
             pc[s] \notin Sending, Goto(s, label)
      PROVE  \A t \in SubIds :
               pc[t] \in Sending \/ pc'[t] \in Sending => pc'[t] = pc[t]
  BY <1>2 DEF Goto, TypeOK
<1> USE DEF jobVars
<1>3. CASE User
  BY <1>1, <1>3 DEF User, ToggleOpen, CreateSubscription, UpdateSubscription,
     SetEnabled, DeleteSubscription, TriggerCheck, RetryFailed, ReevaluateKeywords
<1>4. CASE \/ ScanDue \/ StartJobs \/ Restart \/ UNCHANGED vars
           \/ (\E e \in EntryIds : RowDue(e)) \/ \E s \in SubIds : SubDue(s)
  BY <1>1, <1>4 DEF ScanDue, StartJobs, Restart, RowDue, SubDue, vars
<1>5. ASSUME NEW s \in SubIds,
             \/ JobBegin(s) \/ JobRead(s) \/ JobRecover(s) \/ CheckBegin(s)
             \/ FetchEmpty(s) \/ (\E feed \in Feeds : FetchOk(s, feed))
             \/ ListPending(s) \/ Gate(s) \/ TakeSendLock(s)
      PROVE  Quiet
  <2>1. \E label \in PCs \ Sending : pc[s] \notin Sending /\ Goto(s, label)
    BY <1>5 DEF JobBegin, JobRead, JobRecover, CheckBegin, FetchEmpty, FetchOk,
       ListPending, Gate, TakeSendLock, PassDone, PCs, Sending
  <2>2. mine' = mine
    BY <1>5 DEF JobBegin, JobRead, JobRecover, CheckBegin, FetchEmpty, FetchOk,
       ListPending, Gate, TakeSendLock
  <2> QED
    BY <1>2, <2>1, <2>2
<1> QED
  BY <1>3, <1>4, <1>5 DEF Next, JobStep

\* Who posts after a step posted before it, with the same claim, or claims now
\* an entry of its list.
LEMMA PosterSteps ==
  ASSUME TypeOK, [Next]_vars, NEW s \in SubIds, pc'[s] \in Sending
  PROVE  \/ pc[s] \in Sending /\ mine'[s] = mine[s]
         \/ \E e \in todo[s] :
              /\ Claim(s) /\ row[e].status = "pending" /\ pc'[s] = "post"
              /\ row' = [row EXCEPT ![e] = Claimed(sub[s], row[e])]
              /\ row'[e].status = "sending"
              /\ mine'[s].id = e /\ mine'[s].sub = row[e].sub
              /\ mine'[s].born = row[e].born
<1>1. ~Crash
  BY DEF Crash, Sending
<1>2. ASSUME NEW t \in SubIds, Claim(t)
      PROVE  \/ pc[s] \in Sending /\ mine'[s] = mine[s]
             \/ \E e \in todo[s] :
                  /\ Claim(s) /\ row[e].status = "pending" /\ pc'[s] = "post"
                  /\ row' = [row EXCEPT ![e] = Claimed(sub[s], row[e])]
                  /\ row'[e].status = "sending"
                  /\ mine'[s].id = e /\ mine'[s].sub = row[e].sub
                  /\ mine'[s].born = row[e].born
  <2>1. CASE s # t
    BY <1>2, <2>1 DEF Claim, Goto, TypeOK
  <2>2. CASE s = t
    <3>1. PICK e \in todo[s] :
            LET r == Claimed(sub[s], row[e])
                taken == row[e].status = "pending" /\ r.status = "sending"
            IN /\ row' = [row EXCEPT ![e] = r]
               /\ IF taken
                    THEN /\ Goto(s, "post") /\ UNCHANGED sendLock
                         /\ mine' = [mine EXCEPT ![s] = ClaimOf(e, r)]
                    ELSE Goto(s, "gate") /\ sendLock' = 0 /\ UNCHANGED mine
      BY <1>2, <2>2 DEF Claim
    <3>2. e \in EntryIds /\ row[e] \in Row /\ sub[s] \in Subscription
      BY DEF TypeOK
    <3>3. /\ row[e].status = "pending"
          /\ Claimed(sub[s], row[e]).status = "sending"
          /\ mine' = [mine EXCEPT ![s] = ClaimOf(e, Claimed(sub[s], row[e]))]
          /\ pc' = [pc EXCEPT ![s] = "post"]
          /\ row' = [row EXCEPT ![e] = Claimed(sub[s], row[e])]
      BY <3>1 DEF Goto, Sending, TypeOK
    <3>4. SameItem(row[e], Claimed(sub[s], row[e]))
      BY <3>2, SameItemOperators
    <3>5. /\ mine'[s] = ClaimOf(e, Claimed(sub[s], row[e]))
          /\ row'[e] = Claimed(sub[s], row[e]) /\ pc'[s] = "post"
      BY <3>1, <3>2, <3>3 DEF TypeOK
    <3>6. /\ mine'[s].id = e /\ mine'[s].sub = row[e].sub
          /\ mine'[s].born = row[e].born
      BY <3>4, <3>5 DEF ClaimOf, SameItem
    <3> QED
      BY <1>2, <2>2, <3>3, <3>5, <3>6
  <2> QED
    BY <2>1, <2>2
<1>3. ASSUME NEW t \in SubIds, TelegramAccepts(t)
      PROVE  pc[s] \in Sending /\ mine'[s] = mine[s]
  BY <1>3 DEF TelegramAccepts, Goto, Sending, TypeOK
<1>4. ASSUME NEW t \in SubIds,
             ConfirmSent(t) \/ SendRejected(t) \/ SendTransient(t)
      PROVE  pc[s] \in Sending /\ mine'[s] = mine[s]
  <2>1. /\ pc' = [pc EXCEPT ![t] = "gate"]
        /\ mine' = [mine EXCEPT ![t] = NoClaim]
    BY <1>4 DEF ConfirmSent, SendRejected, SendTransient, Outcome, Goto
  <2>2. s # t
    BY <2>1 DEF TypeOK, Sending
  <2> QED
    BY <2>1, <2>2 DEF TypeOK
<1> QED
  BY <1>1, <1>2, <1>3, <1>4, ClaimSteps

\* A job's list only shrinks, but for _publish_pending, which reads it from
\* the table.
LEMMA TodoSteps ==
  ASSUME TypeOK, [Next]_vars, NEW s \in SubIds, NEW e \in todo'[s]
  PROVE  \/ e \in todo[s]
         \/ row[e].sub = s /\ row[e].status = "pending" /\ row' = row
<1> USE DEF jobVars
<1>1. CASE todo' = todo
  BY <1>1
<1>2. ASSUME NEW t \in SubIds, ListPending(t)
      PROVE  \/ e \in todo[s]
             \/ row[e].sub = s /\ row[e].status = "pending" /\ row' = row
  BY <1>2 DEF ListPending, TypeOK
<1>3. ASSUME NEW t \in SubIds, Gate(t) \/ Claim(t)
      PROVE  e \in todo[s]
  BY <1>3 DEF Gate, Claim, TypeOK
<1>4. ~Crash
  BY DEF Crash
<1>5. CASE User
  BY <1>1, <1>5 DEF User, ToggleOpen, CreateSubscription, UpdateSubscription,
     SetEnabled, DeleteSubscription, TriggerCheck, RetryFailed, ReevaluateKeywords
<1>6. CASE \/ ScanDue \/ StartJobs \/ Restart \/ UNCHANGED vars
           \/ (\E f \in EntryIds : RowDue(f)) \/ \E t \in SubIds : SubDue(t)
  BY <1>1, <1>6 DEF ScanDue, StartJobs, Restart, RowDue, SubDue, vars
<1>7. ASSUME NEW t \in SubIds,
             \/ JobBegin(t) \/ JobRead(t) \/ JobRecover(t) \/ CheckBegin(t)
             \/ FetchEmpty(t) \/ (\E feed \in Feeds : FetchOk(t, feed))
             \/ TakeSendLock(t) \/ TelegramAccepts(t)
             \/ ConfirmSent(t) \/ SendRejected(t) \/ SendTransient(t)
      PROVE  e \in todo[s]
  BY <1>1, <1>7 DEF JobBegin, JobRead, JobRecover, CheckBegin, FetchEmpty, FetchOk,
     TakeSendLock, TelegramAccepts, ConfirmSent, SendRejected, SendTransient, Outcome
<1> QED
  BY <1>2, <1>3, <1>4, <1>5, <1>6, <1>7 DEF Next, JobStep

\* A job posts only entries of its own subscription, to the channel of that
\* subscription, as long as ids cannot pass to another (run rss_reuse shows
\* what happens otherwise).
THEOREM OwnChannel ==
  ASSUME NoReuse
  PROVE  Spec => []OwnChannelOnly
<1>1. CASE "delete" \notin UserOps
  <2>1. Init => ListedStay /\ OwnChannelOnly
    BY DEF Init, ListedStay, OwnChannelOnly, Sending
  <2>2. TypeOK /\ ListedStay /\ OwnChannelOnly /\ [Next]_vars
          => ListedStay' /\ OwnChannelOnly'
    <3> SUFFICES ASSUME TypeOK, ListedStay, OwnChannelOnly, [Next]_vars
                 PROVE  ListedStay' /\ OwnChannelOnly'
      OBVIOUS
    <3>1. ASSUME NEW s \in SubIds, NEW e \in todo'[s]
          PROVE  row'[e].sub = s /\ row'[e].status # "absent"
      <4>1. row[e].sub = s /\ row[e].status # "absent"
        BY <3>1, TodoSteps DEF ListedStay
      <4>2. e \in EntryIds
        BY <3>1, StepType DEF TypeOK
      <4>3. Kept(e)
        BY <1>1, <4>1, <4>2, RowSteps DEF Deleted, Enters
      <4> QED
        BY <4>1, <4>3 DEF Kept, SameItem
    <3>2. ASSUME NEW s \in SubIds, pc'[s] \in Sending
          PROVE  mine'[s].sub = s
      BY <3>2, PosterSteps DEF ListedStay, OwnChannelOnly
    <3> QED
      BY <3>1, <3>2 DEF ListedStay, OwnChannelOnly
  <2> QED
    BY <2>1, <2>2, TypeCorrect, PTL DEF Spec
<1>2. CASE MaxSub = 1
  <2>1. TypeOK => OwnChannelOnly
    BY <1>2 DEF TypeOK, OwnChannelOnly, SubIds
  <2> QED
    BY <2>1, TypeCorrect, PTL
<1> QED
  BY <1>1, <1>2 DEF NoReuse

-----------------------------------------------------------------------------
(* RecoversOnlyOrphans and DuplicateNeedsLostAnswer.  First, what the steps *)
(* that post nothing do to a row and to what is known about its posts.     *)

SameHistory(e) ==
  row'[e].posts = row[e].posts /\ row'[e].unknown = row[e].unknown

\* The changes of a row's status outside a post: withdrawn, retried, put back.
Moved(e) ==
  LET from == row[e].status
      to == row'[e].status
  IN \/ from = to
     \/ from \in {"pending", "failed"} /\ to = "skipped"
     \/ from = "sending" /\ to = "skipped" /\ "feed" \in UserOps
     \/ from = "failed" /\ to = "pending"
     \/ from = "skipped" /\ to = "pending" /\ "reevaluate" \in UserOps

Posting(s) ==
  \/ Claim(s) \/ TelegramAccepts(s) \/ ConfirmSent(s)
  \/ SendRejected(s) \/ SendTransient(s)

Edited(e) ==
  \/ row'[e] = NoRow \/ Enters(e)
  \/ Kept(e) /\ SameHistory(e) /\ Moved(e)

\* A pass never recovers a row that is being posted: another job's row is of
\* another subscription, and its own job is not posting.
LEMMA NothingRecovered ==
  ASSUME IInv, OwnChannelOnly, NEW s \in SubIds, JobRecover(s),
         NEW e \in EntryIds, row[e].sub = s
  PROVE  row[e].status # "sending"
<1> SUFFICES ASSUME row[e].status = "sending" PROVE FALSE
  OBVIOUS
<1>1. pc[s] = "recover" /\ up
  BY DEF JobRecover, IInv, DownMeansIdle
<1>2. PICK t \in SubIds : pc[t] \in Sending /\ mine[t].id = e /\ SameSending(t)
  BY <1>1 DEF IInv, SendingIsOwned
<1>3. t = s
  BY <1>2 DEF SameSending, OwnChannelOnly
<1> QED
  BY <1>1, <1>2, <1>3 DEF Sending

LEMMA EditSteps ==
  ASSUME IInv, OwnChannelOnly, [Next]_vars, ~Crash, ~Restart,
         \A s \in SubIds : ~Posting(s),
         NEW e \in EntryIds
  PROVE  Edited(e)
<1>1. /\ row[e] \in Row /\ row[e].sub \in SubIds /\ clock \in Times
      /\ \A s \in SubIds : sub[s] \in Subscription
      /\ TypeOK
  BY DEF IInv, TypeOK, Row
<1>2. row'[e] = row[e] => Edited(e)
  BY DEF Edited, Kept, SameItem, SameHistory, Moved
<1>3. row'[e] = NoRow => Edited(e)
  BY DEF Edited
<1>4. ASSUME NEW q \in Row, row'[e] = q,
             SameItem(row[e], q), q.posts = row[e].posts,
             q.unknown = row[e].unknown, Moved(e)
      PROVE  Edited(e)
  BY <1>4 DEF Edited, Kept, SameHistory
<1> USE DEF jobVars
<1>5. CASE User
  <2>1. ASSUME NEW s \in SubIds, NEW newFeed \in BOOLEAN, NEW on \in BOOLEAN,
               NEW f \in Filters, NEW p \in Policies,
               UpdateSubscription(s, newFeed, on, f, p)
        PROVE  Edited(e)
    <3> DEFINE new == Revised(sub[s], newFeed, on, f, p)
    <3>1. new \in Subscription
      BY <1>1, <2>1, RevisedType DEF UpdateSubscription
    <3>2. row'[e] \in {row[e], RowRevised(sub[s], new, row[e])}
      BY <2>1 DEF UpdateSubscription, OnRows
    <3>3. CASE newFeed
      <4>1. "feed" \in UserOps
        BY <2>1, <3>3 DEF UpdateSubscription
      <4> HIDE DEF new
      <4>2. row'[e] = RowRevised(sub[s], new, row[e]) => Moved(e)
        BY <1>1, <3>1, <4>1, StatusOf DEF Moved
      <4> QED
        BY <1>1, <1>2, <1>4, <3>1, <3>2, <4>2, SameItemOperators, RowRevisedType
    <3>4. CASE ~newFeed
      <4>1. new.version = sub[s].version
        BY <1>1, <3>4 DEF Revised, Subscription
      <4> HIDE DEF new
      <4>2. RowRevised(sub[s], new, row[e]) \in {row[e], Tightened(new, row[e])}
        BY <4>1 DEF RowRevised
      <4>3. row'[e] = RowRevised(sub[s], new, row[e]) => Moved(e)
        <5>1. \/ Tightened(new, row[e]).status = row[e].status
              \/ /\ row[e].status = "pending"
                 /\ Tightened(new, row[e]).status = "skipped"
          BY <1>1 DEF Tightened, Row
        <5> QED
          BY <4>2, <5>1 DEF Moved
      <4> QED
        BY <1>1, <1>2, <1>4, <3>1, <3>2, <4>3, SameItemOperators, RowRevisedType
    <3> QED
      BY <3>3, <3>4
  <2>2. ASSUME NEW s \in SubIds, RetryFailed(s)
        PROVE  Edited(e)
    <3>1. row'[e] \in {row[e], Retried(row[e])}
      BY <2>2 DEF RetryFailed, OnRows
    <3>2. row'[e] = Retried(row[e]) => Moved(e)
      BY <1>1, StatusOf DEF Moved
    <3> QED
      BY <1>1, <1>2, <1>4, <3>1, <3>2, SameItemOperators, RowOperators
  <2>3. ASSUME NEW s \in SubIds, ReevaluateKeywords(s)
        PROVE  Edited(e)
    <3>1. /\ row'[e] \in {row[e], Reevaluated(sub[s], row[e])}
          /\ "reevaluate" \in UserOps
      BY <2>3 DEF ReevaluateKeywords, OnRows, May
    <3>2. row'[e] = Reevaluated(sub[s], row[e]) => Moved(e)
      BY <1>1, <3>1, StatusOf DEF Moved
    <3> QED
      BY <1>1, <1>2, <1>4, <3>1, <3>2, SameItemOperators, RowOperators
  <2>4. ASSUME NEW s \in SubIds, DeleteSubscription(s)
        PROVE  Edited(e)
    BY <1>2, <1>3, <2>4 DEF DeleteSubscription, OnRows
  <2> QED
    BY <1>2, <1>5, <2>1, <2>2, <2>3, <2>4
    DEF User, ToggleOpen, CreateSubscription, SetEnabled, TriggerCheck
<1>6. ASSUME NEW f \in EntryIds, RowDue(f)
      PROVE  Edited(e)
  <2>1. row'[e] \in {row[e], [row[e] EXCEPT !.due = TRUE]}
    BY <1>1, <1>6 DEF RowDue, TypeOK
  <2>2. /\ [row[e] EXCEPT !.due = TRUE] \in Row
        /\ [row[e] EXCEPT !.due = TRUE].status = row[e].status
    BY <1>1 DEF Row
  <2>3. row'[e] = [row[e] EXCEPT !.due = TRUE] => Moved(e)
    BY <2>2 DEF Moved
  <2> QED
    BY <1>1, <1>2, <1>4, <2>1, <2>2, <2>3, SameItemOperators
<1>7. ASSUME NEW s \in SubIds, JobRecover(s)
      PROVE  Edited(e)
  <2>1. row'[e] = row[e]
    <3>1. CASE row[e].sub = s
      BY <1>1, <1>7, <3>1, NothingRecovered DEF JobRecover, OnRows, Recovered
    <3>2. CASE row[e].sub # s
      BY <1>7, <3>2 DEF JobRecover, OnRows
    <3> QED
      BY <3>1, <3>2
  <2> QED
    BY <1>2, <2>1
<1>8. ASSUME NEW s \in SubIds, NEW feed \in Feeds, FetchOk(s, feed)
      PROVE  Edited(e)
  <2>1. CASE row'[e] # row[e]
    <3>1. pc[s] = "fetch"
      BY <1>8 DEF FetchOk
    <3> QED
      BY <1>1, <1>8, <2>1, <3>1, FetchOkRows DEF Edited, Enters
  <2> QED
    BY <1>2, <2>1
<1>9. CASE \/ ScanDue \/ StartJobs \/ UNCHANGED vars
           \/ \E s \in SubIds :
                \/ JobBegin(s) \/ JobRead(s) \/ CheckBegin(s) \/ FetchEmpty(s)
                \/ ListPending(s) \/ Gate(s) \/ SubDue(s) \/ TakeSendLock(s)
  BY <1>2, <1>9 DEF ScanDue, StartJobs, vars, JobBegin, JobRead, CheckBegin,
     FetchEmpty, ListPending, Gate, SubDue, TakeSendLock
<1> QED
  BY <1>5, <1>6, <1>7, <1>8, <1>9 DEF Next, JobStep, Posting

\* While the process runs, no pass takes a live send for an orphan: only the
\* job that posts a row puts it back into the queue.
THEOREM RecoveryIsOwn ==
  ASSUME NoReuse
  PROVE  Spec => RecoversOnlyOrphans
<1> DEFINE Own ==
      \A e \in EntryIds :
        (up /\ row[e].status = "sending" /\ row'[e].status = "pending") =>
          \E s \in SubIds : /\ pc[s] \in Sending /\ mine[s].id = e
                            /\ pc'[s] = "gate"
<1>1. IInv /\ OwnChannelOnly /\ [Next]_vars => [Own]_vars
  <2> SUFFICES ASSUME IInv, OwnChannelOnly, [Next]_vars, NEW e \in EntryIds,
                      up, row[e].status = "sending", row'[e].status = "pending"
               PROVE  \E s \in SubIds : /\ pc[s] \in Sending /\ mine[s].id = e
                                        /\ pc'[s] = "gate"
    OBVIOUS
  <2>1. /\ row[e] \in Row /\ row \in [EntryIds -> Row]
        /\ pc \in [SubIds -> PCs] /\ clock \in Times
    BY DEF IInv, TypeOK
  <2>2. PICK s \in SubIds : /\ sendLock = s /\ pc[s] \in Sending
                            /\ mine[s].id = e /\ SameSending(s)
    BY DEF IInv, SendingIsOwned
  <2>3. \A t \in SubIds : pc[t] \in HoldsLock => t = s
    BY <2>2 DEF IInv, LockHeld
  <2>4. ~Crash /\ ~Restart
    <3>1. ~Crash
      BY <2>1 DEF Crash, Row
    <3> QED
      BY <3>1 DEF Restart
  <2>5. ASSUME NEW t \in SubIds, Posting(t)
        PROVE  pc'[s] = "gate"
    <3>1. t = s /\ pc[s] # "claim"
      BY <2>2, <2>3, <2>5 DEF Posting, Claim, TelegramAccepts, ConfirmSent,
         SendRejected, SendTransient, HoldsLock, Sending
    <3>2. ~TelegramAccepts(s)
      BY <2>1 DEF TelegramAccepts, Row
    <3> QED
      BY <2>1, <2>5, <3>1, <3>2 DEF Posting, Claim, ConfirmSent, SendRejected,
         SendTransient, Outcome, Goto
  <2>6. CASE \A t \in SubIds : ~Posting(t)
    <3>1. Edited(e)
      BY <2>4, <2>6, EditSteps
    <3>2. ~Moved(e)
      BY DEF Moved
    <3>3. row'[e] # NoRow /\ ~Enters(e)
      BY DEF NoRow, Enters
    <3> QED
      BY <3>1, <3>2, <3>3 DEF Edited
  <2> QED
    BY <2>2, <2>5, <2>6
<1> QED
  BY <1>1, AlwaysIInv, OwnChannel, PTL DEF Spec, RecoversOnlyOrphans

-----------------------------------------------------------------------------
(* DuplicateNeedsLostAnswer: the inductive invariant is HInv, with IInv and *)
(* OwnChannelOnly.                                                         *)

\* What a change of the feed withdraws is not brought back as unsent.
NoRevival == ~({"feed", "reevaluate"} \subseteq UserOps)

\* created_at tells a row from every other one that had its id, so a job never
\* takes a new row for the one it claimed.
Births ==
  /\ \A e \in EntryIds :
       \/ row[e].born = 0 /\ row[e].status = "absent"
       \/ row[e].born \in 1..clock /\ row[e].status # "absent"
  /\ \A s \in SubIds : pc[s] \in Sending => mine[s].born \in 1..clock

Withdrawn(e) == row[e].status = "skipped" /\ "reevaluate" \notin UserOps

\* A row that is in the channel for certain is there once, and it will not be
\* sent again: it is final, or its job is about to write so.
PostedOnce ==
  \A e \in EntryIds :
    (row[e].posts # 0 /\ ~row[e].unknown) =>
      /\ row[e].posts = 1
      /\ \/ row[e].status = "sent" \/ Withdrawn(e)
         \/ /\ row[e].status = "sending"
            /\ \E s \in SubIds : pc[s] = "posted" /\ SameRow(s, e)

\* The row a job posts is not in the channel yet, for certain.
ClaimsUnposted ==
  \A s \in SubIds : \A e \in EntryIds :
    (pc[s] \in Sending /\ SameRow(s, e)) =>
      /\ row[e].status = "sending" \/ Withdrawn(e)
      /\ pc[s] = "post" => row[e].posts = 0 \/ row[e].unknown

HInv == IInv /\ OwnChannelOnly /\ Births /\ PostedOnce /\ ClaimsUnposted

LEMMA ClockSteps ==
  ASSUME TypeOK, [Next]_vars
  PROVE  clock' = clock \/ clock' = clock + 1
<1> USE DEF jobVars
<1>1. CASE User
  BY <1>1 DEF User, ToggleOpen, CreateSubscription, UpdateSubscription, SetEnabled,
     DeleteSubscription, TriggerCheck, RetryFailed, ReevaluateKeywords
<1>2. CASE \/ ScanDue \/ StartJobs \/ Crash \/ Restart \/ UNCHANGED vars
           \/ (\E e \in EntryIds : RowDue(e)) \/ \E s \in SubIds : SubDue(s)
  BY <1>2 DEF ScanDue, StartJobs, Crash, Restart, RowDue, SubDue, vars
<1>3. ASSUME NEW s \in SubIds, TakeSendLock(s) \/ JobStep(s)
      PROVE  clock' = clock \/ clock' = clock + 1
  <2>1. ASSUME NEW feed \in Feeds, FetchOk(s, feed)
        PROVE  clock' = clock \/ clock' = clock + 1
    BY <2>1 DEF FetchOk
  <2> QED
    BY <1>3, <2>1 DEF JobStep, TakeSendLock, JobBegin, JobRead, JobRecover,
       CheckBegin, FetchEmpty, ListPending, Gate, Claim, TelegramAccepts,
       ConfirmSent, SendRejected, SendTransient, Outcome
<1> QED
  BY <1>1, <1>2, <1>3 DEF Next

LEMMA StepBirths ==
  ASSUME TypeOK, Births, [Next]_vars
  PROVE  Births'
<1>1. clock \in Nat /\ 1..clock \subseteq 1..clock' /\ clock' \in Nat
  BY ClockSteps DEF TypeOK, Times
<1>2. ASSUME NEW e \in EntryIds
      PROVE  \/ row'[e].born = 0 /\ row'[e].status = "absent"
             \/ row'[e].born \in 1..clock' /\ row'[e].status # "absent"
  <2>1. CASE Kept(e)
    BY <1>1, <2>1 DEF Kept, SameItem, Births
  <2>2. CASE Deleted(e)
    BY <2>2 DEF Deleted, NoRow
  <2>3. CASE Enters(e)
    BY <1>1, <2>3 DEF Enters
  <2> QED
    BY <2>1, <2>2, <2>3, RowSteps
<1>3. ASSUME NEW s \in SubIds, pc'[s] \in Sending
      PROVE  mine'[s].born \in 1..clock'
  <2>1. CASE pc[s] \in Sending /\ mine'[s] = mine[s]
    BY <1>1, <2>1 DEF Births
  <2>2. ASSUME NEW e \in todo[s], row[e].status = "pending",
               mine'[s].born = row[e].born
        PROVE  mine'[s].born \in 1..clock'
    <3>1. e \in EntryIds
      BY DEF TypeOK
    <3> QED
      BY <1>1, <2>2, <3>1 DEF Births
  <2> QED
    BY <1>3, <2>1, <2>2, PosterSteps
<1> QED
  BY <1>2, <1>3 DEF Births

\* A row that is new or gone is not the one any job claimed before.
LEMMA FreshRow ==
  ASSUME TypeOK, Births, NEW e \in EntryIds, row'[e] = NoRow \/ Enters(e)
  PROVE  /\ row'[e].posts = 0
         /\ \A s \in SubIds : pc[s] \in Sending => row'[e].born # mine[s].born
<1>1. clock \in Nat
  BY DEF TypeOK, Times
<1>2. row'[e].posts = 0 /\ row'[e].born \notin 1..clock
  BY <1>1 DEF NoRow, Enters
<1> QED
  BY <1>2 DEF Births

\* A step outside a post.
LEMMA EditHistory ==
  ASSUME HInv, NoRevival, [Next]_vars, ~Crash, ~Restart,
         \A s \in SubIds : ~Posting(s)
  PROVE  PostedOnce' /\ ClaimsUnposted'
<1>1. TypeOK /\ IInv /\ OwnChannelOnly /\ Births /\ PostedOnce /\ ClaimsUnposted
  BY DEF HInv, IInv
<1>2. /\ mine' = mine
      /\ \A s \in SubIds : pc[s] \in Sending \/ pc'[s] \in Sending => pc'[s] = pc[s]
  BY <1>1, ClaimSteps DEF Posting
<1>3. \A e \in EntryIds : Edited(e)
  BY <1>1, EditSteps
<1>4. ASSUME NEW e \in EntryIds, Kept(e), NEW s \in SubIds
      PROVE  SameRow(s, e)' <=> SameRow(s, e)
  BY <1>2, <1>4 DEF SameRow, Kept, SameItem
<1>5. ASSUME NEW e \in EntryIds, row'[e].posts # 0, ~row'[e].unknown
      PROVE  /\ row'[e].posts = 1
             /\ \/ row'[e].status = "sent" \/ Withdrawn(e)'
                \/ /\ row'[e].status = "sending"
                   /\ \E s \in SubIds : pc'[s] = "posted" /\ SameRow(s, e)'
  <2>1. Kept(e) /\ SameHistory(e) /\ Moved(e)
    BY <1>1, <1>3, <1>5, FreshRow DEF Edited
  <2>2. /\ row[e].posts = 1
        /\ \/ row[e].status = "sent" \/ Withdrawn(e)
           \/ /\ row[e].status = "sending"
              /\ \E s \in SubIds : pc[s] = "posted" /\ SameRow(s, e)
    BY <1>1, <1>5, <2>1 DEF PostedOnce, SameHistory
  <2>3. CASE row[e].status = "sent"
    BY <2>1, <2>2, <2>3 DEF Moved, SameHistory
  <2>4. CASE Withdrawn(e)
    BY <2>1, <2>2, <2>4 DEF Moved, SameHistory, Withdrawn
  <2>5. CASE /\ row[e].status = "sending"
             /\ \E s \in SubIds : pc[s] = "posted" /\ SameRow(s, e)
    <3>1. PICK s \in SubIds : pc[s] = "posted" /\ SameRow(s, e)
      BY <2>5
    <3>2. pc'[s] = "posted" /\ SameRow(s, e)'
      BY <1>2, <1>4, <2>1, <3>1 DEF Sending
    <3>3. \/ row'[e].status = "sending"
          \/ row'[e].status = "skipped" /\ "feed" \in UserOps
      BY <2>1, <2>5 DEF Moved
    <3> QED
      BY <2>1, <2>2, <3>2, <3>3 DEF Withdrawn, NoRevival, SameHistory
  <2> QED
    BY <2>2, <2>3, <2>4, <2>5
<1>6. ASSUME NEW s \in SubIds, NEW e \in EntryIds,
             pc'[s] \in Sending, SameRow(s, e)'
      PROVE  /\ row'[e].status = "sending" \/ Withdrawn(e)'
             /\ pc'[s] = "post" => row'[e].posts = 0 \/ row'[e].unknown
  <2>1. pc[s] = pc'[s] /\ mine'[s] = mine[s]
    BY <1>2, <1>6
  <2>2. Kept(e) /\ SameHistory(e) /\ Moved(e)
    BY <1>1, <1>3, <1>6, <2>1, FreshRow DEF Edited, SameRow
  <2>3. /\ row[e].status = "sending" \/ Withdrawn(e)
        /\ pc[s] = "post" => row[e].posts = 0 \/ row[e].unknown
    BY <1>1, <1>4, <1>6, <2>1, <2>2 DEF ClaimsUnposted
  <2>4. row'[e].status = "sending" \/ Withdrawn(e)'
    BY <2>2, <2>3 DEF Moved, Withdrawn, NoRevival
  <2> QED
    BY <2>1, <2>2, <2>3, <2>4 DEF SameHistory
<1> QED
  BY <1>5, <1>6 DEF PostedOnce, ClaimsUnposted

\* The steps of the job that holds the send lock.
LEMMA PostHistory ==
  ASSUME HInv, [Next]_vars, NEW s \in SubIds, Posting(s)
  PROVE  PostedOnce' /\ ClaimsUnposted'
<1>1. /\ TypeOK /\ IInv /\ Births /\ PostedOnce /\ ClaimsUnposted
      /\ row \in [EntryIds -> Row]
      /\ IInv' /\ TypeOK'
  BY StepIInv DEF HInv, IInv, TypeOK
<1>2. pc[s] \in HoldsLock /\ up
  BY <1>1 DEF Posting, Claim, TelegramAccepts, ConfirmSent, SendRejected,
     SendTransient, HoldsLock, Sending, IInv, DownMeansIdle
<1>3. \A t \in SubIds : pc[t] \in Sending => t = s
  BY <1>1, <1>2 DEF IInv, LockHeld, HoldsLock
<1>4. /\ row \in [EntryIds -> Row] /\ \A e \in EntryIds : row[e] \in Row
      /\ pc \in [SubIds -> PCs] /\ sub[s] \in Subscription
  BY <1>1 DEF TypeOK
<1>5. CASE Claim(s)
  <2>1. pc[s] = "claim" /\ \A e \in EntryIds : row[e].status # "sending"
    BY <1>1, <1>2, <1>3, <1>5 DEF Claim, IInv, SendingIsOwned, Sending
  <2>2. PICK f \in todo[s] : row' = [row EXCEPT ![f] = Claimed(sub[s], row[f])]
    BY <1>5 DEF Claim
  <2>3. ASSUME NEW e \in EntryIds
        PROVE  /\ row'[e].posts = row[e].posts /\ row'[e].unknown = row[e].unknown
               /\ row[e].status # "pending" => row'[e].status = row[e].status
    <3>1. row'[e] \in {row[e], Claimed(sub[s], row[e])}
      BY <1>4, <2>2
    <3>2. /\ Claimed(sub[s], row[e]).posts = row[e].posts
          /\ Claimed(sub[s], row[e]).unknown = row[e].unknown
      BY <1>4, SameItemOperators
    <3>3. \/ Claimed(sub[s], row[e]).status = row[e].status
          \/ row[e].status = "pending"
      BY <1>4, StatusOf
    <3> QED
      BY <3>1, <3>2, <3>3
  <2>4. PostedOnce'
    BY <2>1, <2>3, <1>1 DEF PostedOnce, Withdrawn
  <2>5. ASSUME NEW t \in SubIds, NEW e \in EntryIds,
               pc'[t] \in Sending, SameRow(t, e)'
        PROVE  /\ row'[e].status = "sending" \/ Withdrawn(e)'
               /\ pc'[t] = "post" => row'[e].posts = 0 \/ row'[e].unknown
    <3>1. pc[t] \notin Sending
      BY <1>3, <2>1 DEF Sending
    <3>2. PICK g \in todo[t] : /\ row[g].status = "pending" /\ mine'[t].id = g
                               /\ row'[g].status = "sending"
      BY <1>1, <2>5, <3>1, PosterSteps
    <3>3. e = g
      BY <2>5, <3>2 DEF SameRow
    <3>4. row[e].posts = 0 \/ row[e].unknown
      BY <1>1, <3>2, <3>3 DEF PostedOnce, Withdrawn
    <3> QED
      BY <2>3, <3>2, <3>3, <3>4
  <2> QED
    BY <2>4, <2>5 DEF ClaimsUnposted
<1>6. CASE TelegramAccepts(s)
  <2>1. /\ pc[s] = "post" /\ pc' = [pc EXCEPT ![s] = "posted"] /\ mine' = mine
        /\ \A e \in EntryIds :
             row'[e] = IF SameRow(s, e)
                         THEN [row[e] EXCEPT !.posts = IF @ = 2 THEN 2 ELSE @ + 1]
                         ELSE row[e]
    BY <1>6 DEF TelegramAccepts, Goto
  <2>2. pc'[s] = "posted" /\ \A t \in SubIds : pc'[t] \in Sending => t = s
    BY <1>3, <1>4, <2>1
  <2>3. ASSUME NEW e \in EntryIds
        PROVE  /\ row'[e].status = row[e].status /\ row'[e].unknown = row[e].unknown
               /\ SameRow(s, e)' <=> SameRow(s, e)
               /\ SameRow(s, e) /\ row[e].posts = 0 => row'[e].posts = 1
               /\ ~SameRow(s, e) => row'[e].posts = row[e].posts
    <3>1. CASE SameRow(s, e)
      <4>1. \E n \in 0..2 : /\ row'[e] = [row[e] EXCEPT !.posts = n]
                            /\ row[e].posts = 0 => n = 1
        <5> DEFINE n == IF row[e].posts = 2 THEN 2 ELSE row[e].posts + 1
        <5>1. n \in 0..2 /\ (row[e].posts = 0 => n = 1)
          BY <1>4 DEF Row
        <5>2. row'[e] = [row[e] EXCEPT !.posts = n]
          BY <2>1, <3>1
        <5> QED
          BY <5>1, <5>2
      <4> QED
        BY <1>4, <2>1, <3>1, <4>1 DEF SameRow, Row
    <3>2. CASE ~SameRow(s, e)
      BY <2>1, <3>2 DEF SameRow
    <3> QED
      BY <3>1, <3>2
  <2>4. ASSUME NEW e \in EntryIds, row'[e].posts # 0, ~row'[e].unknown
        PROVE  /\ row'[e].posts = 1
               /\ \/ row'[e].status = "sent" \/ Withdrawn(e)'
                  \/ /\ row'[e].status = "sending"
                     /\ \E t \in SubIds : pc'[t] = "posted" /\ SameRow(t, e)'
    <3>1. CASE SameRow(s, e)
      <4>1. row[e].posts = 0 /\ (row[e].status = "sending" \/ Withdrawn(e))
        BY <1>1, <2>1, <2>3, <2>4, <3>1 DEF ClaimsUnposted, Sending
      <4> QED
        BY <2>2, <2>3, <3>1, <4>1 DEF Withdrawn
    <3>2. CASE ~SameRow(s, e)
      <4>1. /\ row[e].posts = 1
            /\ row[e].status = "sent" \/ Withdrawn(e)
        BY <1>1, <1>3, <2>1, <2>3, <2>4, <3>2 DEF PostedOnce, Sending
      <4> QED
        BY <2>3, <3>2, <4>1 DEF Withdrawn
    <3> QED
      BY <3>1, <3>2
  <2>5. ASSUME NEW t \in SubIds, NEW e \in EntryIds,
               pc'[t] \in Sending, SameRow(t, e)'
        PROVE  /\ row'[e].status = "sending" \/ Withdrawn(e)'
               /\ pc'[t] # "post"
    <3>1. t = s
      BY <2>2, <2>5
    <3>2. row[e].status = "sending" \/ Withdrawn(e)
      BY <1>1, <2>1, <2>3, <2>5, <3>1 DEF ClaimsUnposted, Sending
    <3> QED
      BY <2>2, <2>3, <3>1, <3>2 DEF Withdrawn
  <2> QED
    BY <2>4, <2>5 DEF PostedOnce, ClaimsUnposted
<1>7. CASE ConfirmSent(s) \/ SendRejected(s) \/ SendTransient(s)
  <2>1. pc[s] \in Sending /\ pc' = [pc EXCEPT ![s] = "gate"]
    BY <1>7 DEF ConfirmSent, SendRejected, SendTransient, Outcome, Goto, Sending
  <2>2. \A t \in SubIds : pc'[t] \notin Sending
    BY <1>3, <1>4, <2>1 DEF Sending
  <2>3. SameSending(s) => row[mine[s].id].status = "sending"
    BY DEF SameSending
  <2>4. ASSUME NEW e \in EntryIds, row'[e].posts # 0, ~row'[e].unknown
        PROVE  /\ row'[e].posts = 1
               /\ row'[e].status = "sent" \/ Withdrawn(e)'
    <3>1. /\ row'[e].posts = row[e].posts /\ ~row[e].unknown
          /\ row[e].status # "sending" => row'[e].status = row[e].status
      <4>1. CASE ConfirmSent(s)
        BY <1>4, <2>3, <2>4, <4>1 DEF ConfirmSent, Outcome, Row
      <4>2. CASE SendRejected(s)
        BY <1>4, <2>3, <2>4, <4>2 DEF SendRejected, Outcome, Row
      <4>3. CASE SendTransient(s)
        BY <1>4, <2>3, <2>4, <4>3 DEF SendTransient, Outcome, Row
      <4> QED
        BY <1>7, <4>1, <4>2, <4>3
    <3>2. CASE row[e].status # "sending"
      BY <1>1, <2>4, <3>1, <3>2 DEF PostedOnce, Withdrawn
    <3>3. CASE row[e].status = "sending"
      <4>1. row[e].posts = 1 /\ pc[s] = "posted" /\ SameRow(s, e)
        BY <1>1, <1>3, <2>4, <3>1, <3>3 DEF PostedOnce, Withdrawn, Sending
      <4>2. mine[s].id = e /\ SameSending(s)
        BY <1>1, <1>2, <1>3, <3>3 DEF IInv, SendingIsOwned
      <4>3. ~SendRejected(s)
        BY <4>1 DEF SendRejected
      <4>4. ~SendTransient(s)
        <5> DEFINE r == [row[e] EXCEPT !.unknown = TRUE]
        <5>1. ASSUME SendTransient(s)
              PROVE  row'[e] \in {[r EXCEPT !.status = "failed"],
                                  [r EXCEPT !.status = "pending", !.due = FALSE]}
          BY <4>1, <4>2, <5>1 DEF SendTransient, Outcome
        <5>2. /\ [r EXCEPT !.status = "failed"].unknown = TRUE
              /\ [r EXCEPT !.status = "pending", !.due = FALSE].unknown = TRUE
          BY <1>4 DEF Row
        <5> QED
          BY <2>4, <5>1, <5>2
      <4>5. row'[e].status = "sent"
        BY <1>4, <1>7, <4>2, <4>3, <4>4 DEF ConfirmSent, Outcome, Row
      <4> QED
        BY <3>1, <4>1, <4>5
    <3> QED
      BY <3>2, <3>3
  <2> QED
    BY <2>2, <2>4 DEF PostedOnce, ClaimsUnposted
<1> QED
  BY <1>5, <1>6, <1>7 DEF Posting

\* A crash loses the answer to the post under way, and a stopped process has
\* none.
LEMMA CrashHistory ==
  ASSUME HInv, [Next]_vars, Crash \/ Restart
  PROVE  PostedOnce' /\ ClaimsUnposted'
<1>1. /\ TypeOK /\ PostedOnce /\ \A e \in EntryIds : row[e] \in Row
      /\ DownMeansIdle
  BY DEF HInv, IInv, TypeOK
<1>2. \A s \in SubIds : pc'[s] \notin Sending
  BY <1>1 DEF Crash, Restart, jobVars, DownMeansIdle, Sending
<1>3. ASSUME NEW e \in EntryIds, row'[e].posts # 0, ~row'[e].unknown
      PROVE  /\ row'[e].posts = 1
             /\ row'[e].status = "sent" \/ Withdrawn(e)'
  <2>1. /\ row'[e].posts = row[e].posts /\ ~row[e].unknown
        /\ row[e].status # "sending" => row'[e].status = row[e].status
        /\ row[e].status = "sending" =>
             ~ \E s \in SubIds : pc[s] = "posted" /\ SameRow(s, e)
    <3>1. CASE Crash
      BY <1>1, <1>3, <3>1 DEF Crash, Row
    <3>2. CASE Restart
      <4>1. row'[e] \in {row[e], Recovered(row[e])}
        BY <3>2 DEF Restart
      <4>2. ~ \E s \in SubIds : pc[s] = "posted"
        BY <1>1, <3>2 DEF Restart, DownMeansIdle
      <4> QED
        BY <1>1, <1>3, <4>1, <4>2 DEF Recovered, Row
    <3> QED
      BY <3>1, <3>2
  <2> QED
    BY <1>1, <1>3, <2>1 DEF PostedOnce, Withdrawn
<1> QED
  BY <1>2, <1>3 DEF PostedOnce, ClaimsUnposted

\* An entry is in its channel twice only after an answer was lost, whatever
\* the jobs, the other users' operations and the restarts do, as long as no
\* id passes between subscriptions and what a change of the feed withdrew is
\* not re-evaluated (runs rss_reuse and rss_old_feed show what happens otherwise).
THEOREM DuplicatesExplained ==
  ASSUME NoReuse, NoRevival
  PROVE  Spec => []DuplicateNeedsLostAnswer
<1>1. Init => Births /\ PostedOnce /\ ClaimsUnposted
  BY DEF Init, Births, PostedOnce, ClaimsUnposted, NoRow, Sending
<1>2. HInv /\ [Next]_vars => Births' /\ PostedOnce' /\ ClaimsUnposted'
  <2> SUFFICES ASSUME HInv, [Next]_vars
               PROVE  Births' /\ PostedOnce' /\ ClaimsUnposted'
    OBVIOUS
  <2>1. Births'
    BY StepBirths DEF HInv, IInv
  <2>2. PostedOnce' /\ ClaimsUnposted'
    BY EditHistory, PostHistory, CrashHistory
  <2> QED
    BY <2>1, <2>2
<1>3. IInv /\ OwnChannelOnly /\ Births /\ PostedOnce /\ ClaimsUnposted => HInv
  BY DEF HInv
<1>4. HInv => DuplicateNeedsLostAnswer
  BY DEF HInv, PostedOnce, DuplicateNeedsLostAnswer
<1> QED
  BY <1>1, <1>2, <1>3, <1>4, AlwaysIInv, OwnChannel, PTL DEF Spec
=============================================================================
