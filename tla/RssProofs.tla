----------------------------- MODULE RssProofs ------------------------------
(***************************************************************************)
(* Proofs about the RSS subsystem, for every value of the constants.       *)
(***************************************************************************)
EXTENDS RssProperties, TLAPS

\* The smallest values of the bounded counters.
LEMMA Ranges ==
  /\ 0 \in Attempts /\ 0 \in Times /\ 0 \in Versions
  /\ 1 \in SubIds /\ 1 \in EntryIds
  /\ \A n \in Attempts : n < MaxAttempts \/ n >= MaxAttempts
  /\ \A n \in Attempts : n < MaxAttempts => n + 1 \in Attempts
  /\ \A n \in Times : n < MaxBirths => n + 1 \in Times
  /\ \A n \in Versions : n < MaxVersion => n + 1 \in Versions
  /\ \A m \in 0..MaxSub-1 : m + 1 \in SubIds
  BY BoundsAssumption, AttemptsAssumption
  DEF Attempts, Times, Versions, SubIds, EntryIds

\* The records that stand for missing rows are well formed.
LEMMA Defaults == NoSub \in Subscription /\ NoRow \in Row /\ NoRow.item \in Items
  BY Ranges, ContentAssumption
  DEF NoSub, NoRow, Subscription, Row, Statuses, Reasons

\* What the statements on one row keep: its type.
LEMMA RowOperators ==
  ASSUME NEW r \in Row, NEW s \in Subscription
  PROVE  /\ SourceChanged(r) \in Row /\ Tightened(s, r) \in Row
         /\ Recovered(r) \in Row /\ Retried(r) \in Row
         /\ Reevaluated(s, r) \in Row /\ Claimed(s, r) \in Row
<1>1. SourceChanged(r) \in Row
  BY DEF SourceChanged, Row, Statuses
<1>2. Tightened(s, r) \in Row
  BY DEF Tightened, Row, Statuses, Reasons
<1>3. Recovered(r) \in Row
  BY DEF Recovered, Row, Statuses
<1>4. Retried(r) \in Row
  BY Ranges DEF Retried, Row, Statuses
<1>5. Reevaluated(s, r) \in Row
  <2>1. [r EXCEPT !.reason = "keyword"] \in Row
    BY DEF Row, Reasons
  <2>2. [r EXCEPT !.status = "pending", !.reason = "none", !.attempts = 0,
                  !.due = TRUE] \in Row
    BY Ranges DEF Row, Statuses, Reasons
  <2> QED
    BY <2>1, <2>2 DEF Reevaluated
<1>6. Claimed(s, r) \in Row
  <2>1. [r EXCEPT !.status = "skipped", !.reason = "keyword"] \in Row
    BY DEF Row, Statuses, Reasons
  <2>2. [r EXCEPT !.status = "failed"] \in Row
    BY DEF Row, Statuses
  <2>3. r.attempts \in Attempts
    BY DEF Row
  <2>4. CASE r.attempts < MaxAttempts
    <3>1. r.attempts + 1 \in Attempts
      BY <2>3, <2>4, Ranges
    <3>2. [r EXCEPT !.status = "sending", !.attempts = @ + 1] \in Row
      BY <3>1 DEF Row, Statuses
    <3>3. ~(r.attempts >= MaxAttempts)
      BY <2>3, <2>4, AttemptsAssumption DEF Attempts
    <3> QED
      BY <2>1, <3>2, <3>3 DEF Claimed
  <2>5. CASE r.attempts >= MaxAttempts
    BY <2>1, <2>2, <2>5 DEF Claimed
  <2> QED
    BY <2>3, <2>4, <2>5, Ranges
<1> QED
  BY <1>1, <1>2, <1>3, <1>4, <1>5, <1>6

LEMMA NewRowType ==
  ASSUME NEW s \in SubIds, NEW t \in Subscription, NEW item \in Items,
         NEW selected, NEW time \in Times
  PROVE  /\ NewRow(s, t, item, selected, time) \in Row
         /\ NewRow(s, t, item, selected, time).status \in {"pending", "skipped"}
         /\ NewRow(s, t, item, selected, time).sub = s
         /\ NewRow(s, t, item, selected, time).version = t.version
         /\ NewRow(s, t, item, selected, time).born = time
         /\ NewRow(s, t, item, selected, time).posts = 0
<1>1. SkipReason(t, item, selected) \in Reasons
  BY DEF SkipReason, Reasons
<1>2. NoRow.posts = 0
  BY DEF NoRow
<1> QED
  BY <1>1, <1>2, Defaults DEF NewRow, Row, Subscription, Statuses

LEMMA RevisedType ==
  ASSUME NEW s \in Subscription, NEW newFeed \in BOOLEAN, NEW on \in BOOLEAN,
         NEW f \in Filters, NEW p \in Policies,
         newFeed => s.version < MaxVersion
  PROVE  Revised(s, newFeed, on, f, p) \in Subscription
<1>1. (IF newFeed THEN s.version + 1 ELSE s.version) \in Versions
  BY Ranges DEF Subscription
<1>2. (s.initialized /\ ~newFeed) \in BOOLEAN
  OBVIOUS
<1> QED
  BY <1>1, <1>2 DEF Revised, Subscription

LEMMA RowRevisedType ==
  ASSUME NEW s \in Subscription, NEW t \in Subscription, NEW r \in Row
  PROVE  RowRevised(s, t, r) \in Row
  BY RowOperators DEF RowRevised

-----------------------------------------------------------------------------
(* Type correctness: every action keeps TypeOK.                            *)

LEMMA InitType == Init => TypeOK
  BY Ranges, Defaults, BoundsAssumption
  DEF Init, TypeOK, NoSeen, NoClaim, PCs

LEMMA ScheduleType ==
  ASSUME TypeOK, NEW S, Schedule(S)
  PROVE  pc' \in [SubIds -> PCs]
  BY DEF TypeOK, Schedule, PCs

\* What the users do.
LEMMA UserType ==
  ASSUME TypeOK, User
  PROVE  TypeOK'
<1> USE DEF jobVars
<1>1. ASSUME NEW on \in BOOLEAN, NEW f \in Filters, NEW p \in Policies,
             CreateSubscription(on, f, p)
      PROVE  TypeOK'
  <2>1. clock' \in Times
    BY <1>1, Ranges DEF CreateSubscription, TypeOK
  <2>2. [NoSub EXCEPT !.live = TRUE, !.enabled = on, !.policy = p,
                      !.accepts = f, !.due = TRUE, !.born = clock']
          \in Subscription
    BY <2>1, Defaults DEF Subscription
  <2>3. sub' \in [SubIds -> Subscription]
    BY <1>1, <2>2 DEF CreateSubscription, TypeOK
  <2> QED
    BY <1>1, <2>1, <2>3 DEF CreateSubscription, TypeOK
<1>2. CASE ToggleOpen
  BY <1>2 DEF ToggleOpen, TypeOK
<1>3. ASSUME NEW s \in SubIds, NEW newFeed \in BOOLEAN, NEW on \in BOOLEAN,
             NEW f \in Filters, NEW p \in Policies,
             UpdateSubscription(s, newFeed, on, f, p)
      PROVE  TypeOK'
  <2>1. sub[s] \in Subscription
    BY DEF TypeOK
  <2>2. Revised(sub[s], newFeed, on, f, p) \in Subscription
    BY <1>3, <2>1, RevisedType DEF UpdateSubscription
  <2>3. sub' \in [SubIds -> Subscription]
    BY <1>3, <2>2 DEF UpdateSubscription, TypeOK
  <2>4. row' \in [EntryIds -> Row]
    BY <1>3, <2>1, <2>2, RowRevisedType DEF UpdateSubscription, OnRows, TypeOK
  <2> QED
    BY <1>3, <2>3, <2>4 DEF UpdateSubscription, TypeOK
<1>4. ASSUME NEW s \in SubIds, NEW on \in BOOLEAN, SetEnabled(s, on)
      PROVE  TypeOK'
  <2>1. sub[s] \in Subscription
    BY DEF TypeOK
  <2>2. [sub[s] EXCEPT !.enabled = on, !.due = @ \/ on] \in Subscription
    BY <2>1 DEF Subscription
  <2>3. sub' \in [SubIds -> Subscription]
    BY <1>4, <2>2 DEF SetEnabled, TypeOK
  <2> QED
    BY <1>4, <2>3 DEF SetEnabled, TypeOK
<1>5. ASSUME NEW s \in SubIds, DeleteSubscription(s)
      PROVE  TypeOK'
  BY <1>5, Defaults DEF DeleteSubscription, TypeOK, OnRows
<1>6. ASSUME NEW s \in SubIds, TriggerCheck(s)
      PROVE  TypeOK'
  <2>0. sub[s] \in Subscription
    BY DEF TypeOK
  <2>1. [sub[s] EXCEPT !.due = TRUE] \in Subscription
    BY <2>0 DEF Subscription
  <2>2. sub' \in [SubIds -> Subscription]
    BY <1>6, <2>1 DEF TriggerCheck, TypeOK
  <2>3. pc' \in [SubIds -> PCs]
    BY <1>6, ScheduleType DEF TriggerCheck
  <2> QED
    BY <1>6, <2>2, <2>3 DEF TriggerCheck, TypeOK
<1>7. ASSUME NEW s \in SubIds, RetryFailed(s)
      PROVE  TypeOK'
  <2>1. row' \in [EntryIds -> Row]
    BY <1>7, RowOperators DEF RetryFailed, OnRows, TypeOK
  <2>2. pc' \in [SubIds -> PCs]
    BY <1>7, ScheduleType DEF RetryFailed
  <2> QED
    BY <1>7, <2>1, <2>2 DEF RetryFailed, TypeOK
<1>8. ASSUME NEW s \in SubIds, ReevaluateKeywords(s)
      PROVE  TypeOK'
  <2>1. row' \in [EntryIds -> Row]
    BY <1>8, RowOperators DEF ReevaluateKeywords, OnRows, TypeOK
  <2>2. pc' \in [SubIds -> PCs]
    BY <1>8, ScheduleType DEF ReevaluateKeywords, TypeOK
  <2> QED
    BY <1>8, <2>1, <2>2 DEF ReevaluateKeywords, TypeOK
<1> QED
  BY <1>1, <1>2, <1>3, <1>4, <1>5, <1>6, <1>7, <1>8 DEF User

\* What a successful fetch does to the table: a row stays as it is, or a new
\* row of this subscription takes the place of an absent one.
LEMMA FetchOkRows ==
  ASSUME TypeOK, NEW s \in SubIds, NEW feed \in Feeds, FetchOk(s, feed)
  PROVE  /\ row' \in [EntryIds -> Row]
         /\ \A e \in EntryIds :
              \/ row'[e] = row[e]
              \/ /\ SameFeed(s)
                 /\ row[e].status = "absent"
                 /\ row'[e].status \in {"pending", "skipped"}
                 /\ row'[e].sub = s
                 /\ row'[e].version = sub[s].version
                 /\ row'[e].born = clock + 1 /\ clock' = clock + 1
                 /\ row'[e].posts = 0
<1>1. CASE ~SameFeed(s)
  BY <1>1 DEF FetchOk, TypeOK
<1>2. CASE SameFeed(s)
  <2> DEFINE selected == {feed[i] : i \in {j \in DOMAIN feed :
                                             j > Len(feed) - InitialCount}}
             unknown == {j \in DOMAIN feed : ~Known(s, feed[j])}
             Place(j) == Cardinality({k \in unknown : k <= j})
             Present == {e \in EntryIds : row[e].status # "absent"}
  <2>1. PICK m \in 0..MaxEntry - Cardinality(unknown) :
          /\ IsLargest(m, Present)
          /\ row' = [e \in EntryIds |->
               IF e > m /\ \E j \in unknown : e = m + Place(j)
                 THEN NewRow(s, sub[s],
                             feed[CHOOSE j \in unknown : e = m + Place(j)],
                             selected, clock + 1)
                 ELSE row[e]]
    BY <1>2 DEF FetchOk
  <2>2. ASSUME NEW e \in EntryIds, e > m, NEW i \in unknown, e = m + Place(i)
        PROVE  /\ row'[e] \in Row
               /\ row[e].status = "absent"
               /\ row'[e].status \in {"pending", "skipped"}
               /\ row'[e].sub = s
               /\ row'[e].version = sub[s].version
               /\ row'[e].born = clock + 1 /\ clock' = clock + 1
               /\ row'[e].posts = 0
    <3> DEFINE item == feed[CHOOSE j \in unknown : e = m + Place(j)]
    <3>1. item \in Items
      <4>1. (CHOOSE j \in unknown : e = m + Place(j)) \in unknown
        BY <2>2
      <4>2. feed \in Seq(Items)
        BY ContentAssumption
      <4> QED
        BY <4>1, <4>2
    <3>2. clock + 1 \in Times /\ clock' = clock + 1
      BY <1>2, <2>2, Ranges DEF FetchOk, TypeOK
    <3>3. row'[e] = NewRow(s, sub[s], item, selected, clock + 1)
      BY <2>1, <2>2
    <3>4. row[e].status = "absent"
      BY <2>1, <2>2 DEF IsLargest, EntryIds
    <3>5. sub[s] \in Subscription
      BY DEF TypeOK
    <3> HIDE DEF item, selected
    <3> QED
      BY <3>1, <3>2, <3>3, <3>4, <3>5, NewRowType
  <2>3. ASSUME NEW e \in EntryIds,
               ~(e > m /\ \E j \in unknown : e = m + Place(j))
        PROVE  row'[e] = row[e]
    BY <2>1, <2>3
  <2> QED
    BY <1>2, <2>1, <2>2, <2>3 DEF TypeOK
<1> QED
  BY <1>1, <1>2

LEMMA SchedulerType ==
  ASSUME TypeOK,
         \/ ScanDue \/ StartJobs
         \/ \E e \in EntryIds : RowDue(e)
         \/ \E s \in SubIds : SubDue(s)
  PROVE  TypeOK'
<1> USE DEF jobVars
<1>1. CASE ScanDue
  BY <1>1 DEF ScanDue, TypeOK
<1>2. CASE StartJobs
  <2>1. pc' \in [SubIds -> PCs]
    BY <1>2, ScheduleType DEF StartJobs
  <2> QED
    BY <1>2, <2>1 DEF StartJobs, TypeOK
<1>3. ASSUME NEW e \in EntryIds, RowDue(e)
      PROVE  TypeOK'
  <2>1. row[e] \in Row
    BY DEF TypeOK
  <2>2. [row[e] EXCEPT !.due = TRUE] \in Row
    BY <2>1 DEF Row
  <2>3. row' \in [EntryIds -> Row]
    BY <1>3, <2>2 DEF RowDue, TypeOK
  <2> QED
    BY <1>3, <2>3 DEF RowDue, TypeOK
<1>4. ASSUME NEW s \in SubIds, SubDue(s)
      PROVE  TypeOK'
  <2>1. sub[s] \in Subscription
    BY DEF TypeOK
  <2>2. [sub[s] EXCEPT !.due = TRUE] \in Subscription
    BY <2>1 DEF Subscription
  <2>3. sub' \in [SubIds -> Subscription]
    BY <1>4, <2>2 DEF SubDue, TypeOK
  <2> QED
    BY <1>4, <2>3 DEF SubDue, TypeOK
<1> QED
  BY <1>1, <1>2, <1>3, <1>4

\* The part of a job that decides whether and what to fetch.
LEMMA CheckType ==
  ASSUME TypeOK, NEW s \in SubIds,
         \/ JobBegin(s) \/ JobRead(s) \/ JobRecover(s) \/ CheckBegin(s)
         \/ FetchEmpty(s) \/ \E feed \in Feeds : FetchOk(s, feed)
  PROVE  TypeOK'
<1> USE DEF jobVars, Goto
<1>1. CASE JobBegin(s)
  <2>1. [version |-> 0, born |-> 0, check |-> s \in req]
          \in [version: Versions, born: Times, check: BOOLEAN]
    BY Ranges
  <2>2. [NoSeen EXCEPT !.check = s \in req]
          = [version |-> 0, born |-> 0, check |-> s \in req]
    BY DEF NoSeen
  <2>3. seen' \in [SubIds -> [version: Versions, born: Times, check: BOOLEAN]]
    BY <1>1, <2>1, <2>2, Zenon DEF JobBegin, TypeOK
  <2> QED
    BY <1>1, <2>3 DEF JobBegin, TypeOK, PCs
<1>2. CASE JobRead(s)
  <2>2. seen' \in [SubIds -> [version: Versions, born: Times, check: BOOLEAN]]
    <3>1. NoSeen \in [version: Versions, born: Times, check: BOOLEAN]
      BY Ranges DEF NoSeen
    <3>2. sub[s].version \in Versions /\ sub[s].born \in Times
      BY DEF TypeOK, Subscription
    <3>3. PICK c \in BOOLEAN : c = (seen[s].check \/ sub[s].due)
      OBVIOUS
    <3>4. [version |-> sub[s].version, born |-> sub[s].born, check |-> c]
            \in [version: Versions, born: Times, check: BOOLEAN]
      BY <3>2
    <3>5. \/ seen' = [seen EXCEPT ![s] = NoSeen]
          \/ seen' = [seen EXCEPT ![s] =
               [version |-> sub[s].version, born |-> sub[s].born, check |-> c]]
      BY <1>2, <3>3 DEF JobRead
    <3> QED
      BY <3>1, <3>4, <3>5 DEF TypeOK
  <2>3. pc' \in [SubIds -> PCs]
    BY <1>2 DEF JobRead, PassDone, TypeOK, PCs
  <2> QED
    BY <1>2, <2>2, <2>3 DEF JobRead, TypeOK
<1>3. CASE JobRecover(s)
  <2>1. row' \in [EntryIds -> Row]
    BY <1>3, RowOperators DEF JobRecover, OnRows, TypeOK
  <2> QED
    BY <1>3, <2>1 DEF JobRecover, TypeOK, PCs
<1>4. CASE CheckBegin(s)
  BY <1>4 DEF CheckBegin, TypeOK, PCs
<1>5. CASE FetchEmpty(s)
  <2>1. sub[s] \in Subscription
    BY DEF TypeOK
  <2>2. [sub[s] EXCEPT !.due = FALSE] \in Subscription
    BY <2>1 DEF Subscription
  <2>3. sub' \in [SubIds -> Subscription]
    BY <1>5, <2>2 DEF FetchEmpty, TypeOK
  <2> QED
    BY <1>5, <2>3 DEF FetchEmpty, TypeOK, PCs
<1>6. ASSUME NEW feed \in Feeds, FetchOk(s, feed)
      PROVE  TypeOK'
  <2>1. sub[s] \in Subscription
    BY DEF TypeOK
  <2>2. [sub[s] EXCEPT !.due = FALSE, !.initialized = TRUE] \in Subscription
    BY <2>1 DEF Subscription
  <2>3. sub' \in [SubIds -> Subscription]
    BY <1>6, <2>2 DEF FetchOk, TypeOK
  <2>4. clock' \in Times
    BY <1>6, Ranges DEF FetchOk, TypeOK
  <2>5. row' \in [EntryIds -> Row]
    BY <1>6, FetchOkRows DEF TypeOK
  <2>6. pc' \in [SubIds -> PCs]
    BY <1>6 DEF FetchOk, TypeOK, PCs
  <2> QED
    BY <1>6, <2>3, <2>4, <2>5, <2>6 DEF FetchOk, TypeOK
<1> QED
  BY <1>1, <1>2, <1>3, <1>4, <1>5, <1>6

\* Outcome changes the type of nothing, if the operation it applies does not.
LEMMA OutcomeType ==
  ASSUME TypeOK, NEW s \in SubIds,
         \/ ConfirmSent(s) \/ SendRejected(s) \/ SendTransient(s)
  PROVE  TypeOK'
<1> USE DEF Goto
<1>1. row' \in [EntryIds -> Row]
  <2>1. ASSUME NEW r \in Row
        PROVE  /\ [r EXCEPT !.unknown = TRUE] \in Row
               /\ [r EXCEPT !.status = "sent"] \in Row
               /\ [r EXCEPT !.status = "failed"] \in Row
               /\ [r EXCEPT !.status = "pending", !.due = FALSE] \in Row
    BY DEF Row, Statuses
  <2>2. CASE ConfirmSent(s)
    BY <2>1, <2>2 DEF ConfirmSent, Outcome, TypeOK
  <2>3. CASE SendRejected(s)
    BY <2>1, <2>3 DEF SendRejected, Outcome, TypeOK
  <2>4. CASE SendTransient(s)
    BY <2>1, <2>4 DEF SendTransient, Outcome, TypeOK
  <2> QED
    BY <2>2, <2>3, <2>4
<1>2. /\ pc' = [pc EXCEPT ![s] = "gate"] /\ sendLock' = 0
      /\ mine' = [mine EXCEPT ![s] = NoClaim]
      /\ UNCHANGED <<up, open, clock, sub, req, scan, seen, todo, asked>>
  BY DEF ConfirmSent, SendRejected, SendTransient, Outcome
<1>3. NoClaim \in [id: EntryIds, sub: SubIds, version: Versions, item: Items,
                   attempts: Attempts, born: Times]
  BY Ranges, Defaults DEF NoClaim
<1> QED
  BY <1>1, <1>2, <1>3, BoundsAssumption DEF TypeOK, PCs

LEMMA PublishType ==
  ASSUME TypeOK, NEW s \in SubIds,
         \/ ListPending(s) \/ Gate(s) \/ TakeSendLock(s) \/ Claim(s)
         \/ TelegramAccepts(s)
  PROVE  TypeOK'
<1> USE DEF Goto
<1>1. CASE ListPending(s)
  BY <1>1 DEF ListPending, TypeOK, PCs
<1>2. CASE Gate(s)
  <2>1. \E label \in {"queue", "start", "idle"} :
          pc' = [pc EXCEPT ![s] = label]
    BY <1>2 DEF Gate, PassDone
  <2>2. pc' \in [SubIds -> PCs]
    BY <2>1 DEF TypeOK, PCs
  <2>3. NoSeen \in [version: Versions, born: Times, check: BOOLEAN]
    BY Ranges DEF NoSeen
  <2>4. seen' = seen \/ seen' = [seen EXCEPT ![s] = NoSeen]
    BY <1>2 DEF Gate
  <2>5. seen' \in [SubIds -> [version: Versions, born: Times, check: BOOLEAN]]
    BY <2>3, <2>4 DEF TypeOK
  <2>6. todo' \in [SubIds -> SUBSET EntryIds]
    BY <1>2 DEF Gate, TypeOK
  <2> QED
    BY <1>2, <2>2, <2>5, <2>6 DEF Gate, TypeOK
<1>3. CASE TakeSendLock(s)
  BY <1>3 DEF TakeSendLock, TypeOK, PCs, SubIds
<1>4. CASE Claim(s)
  <2>1. PICK e \in todo[s] :
          /\ row' = [row EXCEPT ![e] = Claimed(sub[s], row[e])]
          /\ todo' = [todo EXCEPT ![s] = @ \ {e}]
          /\ \/ /\ pc' = [pc EXCEPT ![s] = "post"] /\ UNCHANGED sendLock
                /\ mine' = [mine EXCEPT ![s] = ClaimOf(e, Claimed(sub[s], row[e]))]
             \/ /\ pc' = [pc EXCEPT ![s] = "gate"] /\ sendLock' = 0
                /\ UNCHANGED mine
          /\ UNCHANGED <<up, open, clock, sub, req, scan, seen, asked>>
    BY <1>4 DEF Claim
  <2>2. e \in EntryIds /\ sub[s] \in Subscription /\ row[e] \in Row
    BY DEF TypeOK
  <2>3. Claimed(sub[s], row[e]) \in Row
    BY <2>2, RowOperators
  <2>4. ClaimOf(e, Claimed(sub[s], row[e]))
          \in [id: EntryIds, sub: SubIds, version: Versions, item: Items,
               attempts: Attempts, born: Times]
    BY <2>2, <2>3 DEF Row, ClaimOf
  <2>5. row' \in [EntryIds -> Row] /\ todo' \in [SubIds -> SUBSET EntryIds]
    BY <2>1, <2>3 DEF TypeOK
  <2>6. mine' \in [SubIds -> [id: EntryIds, sub: SubIds, version: Versions,
                              item: Items, attempts: Attempts, born: Times]]
    BY <2>1, <2>4 DEF TypeOK
  <2>7. pc' \in [SubIds -> PCs]
    BY <2>1 DEF TypeOK, PCs
  <2>8. sendLock' \in 0..MaxSub
    BY <2>1, BoundsAssumption DEF TypeOK
  <2> QED
    BY <2>1, <2>5, <2>6, <2>7, <2>8 DEF TypeOK
<1>5. CASE TelegramAccepts(s)
  <2>1. ASSUME NEW r \in Row
        PROVE  [r EXCEPT !.posts = IF @ = 2 THEN 2 ELSE @ + 1] \in Row
    <3>1. (IF r.posts = 2 THEN 2 ELSE r.posts + 1) \in 0..2
      BY DEF Row
    <3> QED
      BY <3>1 DEF Row
  <2>2. row' \in [EntryIds -> Row]
    BY <1>5, <2>1 DEF TelegramAccepts, TypeOK
  <2> QED
    BY <1>5, <2>2 DEF TelegramAccepts, TypeOK, PCs
<1> QED
  BY <1>1, <1>2, <1>3, <1>4, <1>5

LEMMA CrashType ==
  ASSUME TypeOK, Crash \/ Restart
  PROVE  TypeOK'
<1>1. CASE Crash
  <2>1. ASSUME NEW r \in Row
        PROVE  [r EXCEPT !.unknown = TRUE] \in Row
    BY DEF Row
  <2>2. row' \in [EntryIds -> Row]
    BY <1>1, <2>1 DEF Crash, TypeOK
  <2>3. NoSeen \in [version: Versions, born: Times, check: BOOLEAN]
    BY Ranges DEF NoSeen
  <2>4. NoClaim \in [id: EntryIds, sub: SubIds, version: Versions, item: Items,
                     attempts: Attempts, born: Times]
    BY Ranges, Defaults DEF NoClaim
  <2>5. /\ seen' \in [SubIds -> [version: Versions, born: Times, check: BOOLEAN]]
        /\ mine' \in [SubIds -> [id: EntryIds, sub: SubIds, version: Versions,
                                 item: Items, attempts: Attempts, born: Times]]
        /\ todo' \in [SubIds -> SUBSET EntryIds]
        /\ pc' \in [SubIds -> PCs]
    BY <1>1, <2>3, <2>4 DEF Crash, PCs
  <2>6. sendLock' \in 0..MaxSub
    BY <1>1, BoundsAssumption DEF Crash
  <2> QED
    BY <1>1, <2>2, <2>5, <2>6 DEF Crash, TypeOK
<1>2. CASE Restart
  <2>1. \A e \in EntryIds : Recovered(row[e]) \in Row
    BY RowOperators, Defaults DEF TypeOK
  <2>2. row' \in [EntryIds -> Row]
    BY <1>2, <2>1 DEF Restart, TypeOK
  <2> QED
    BY <1>2, <2>2 DEF Restart, TypeOK, jobVars
<1> QED
  BY <1>1, <1>2

LEMMA StepType == TypeOK /\ [Next]_vars => TypeOK'
<1> SUFFICES ASSUME TypeOK, [Next]_vars PROVE TypeOK'
  OBVIOUS
<1>1. CASE User
  BY <1>1, UserType
<1>2. CASE ScanDue \/ StartJobs \/ (\E e \in EntryIds : RowDue(e))
  BY <1>2, SchedulerType
<1>3. ASSUME NEW s \in SubIds, SubDue(s) \/ TakeSendLock(s) \/ JobStep(s)
      PROVE  TypeOK'
  BY <1>3, SchedulerType, CheckType, PublishType, OutcomeType DEF JobStep
<1>4. CASE Crash \/ Restart
  BY <1>4, CrashType
<1>5. CASE UNCHANGED vars
  BY <1>5 DEF vars, TypeOK
<1> QED
  BY <1>1, <1>2, <1>3, <1>4, <1>5 DEF Next

\* Every variable keeps its type: in particular, no entry is ever claimed
\* more than MaxAttempts times (the cap of _send_one), whatever the order of
\* jobs, restarts and requests.
THEOREM TypeCorrect == Spec => []TypeOK
  BY InitType, StepType, PTL DEF Spec

-----------------------------------------------------------------------------
(* SendingIsOwned: the inductive invariant is IInv.                        *)

\* The two rows are the same claimed entry, as far as _same_sending compares.
SameClaim(r, q) ==
  /\ r.status = q.status /\ r.sub = q.sub /\ r.version = q.version
  /\ r.item = q.item /\ r.attempts = q.attempts /\ r.born = q.born

\* Row q may follow row r without a claim: no entry becomes "sending", and
\* none appears or moves to another subscription.
Gentle(r, q) ==
  /\ q.status = "sending" => SameClaim(q, r)
  /\ q.status # "absent" => r.status # "absent" /\ q.sub = r.sub

\* The statements of the users and of the recovery are gentle.
LEMMA GentleOperators ==
  ASSUME NEW r \in Row, NEW s \in Subscription, NEW t \in Subscription
  PROVE  /\ Gentle(r, r) /\ Gentle(r, NoRow)
         /\ Gentle(r, RowRevised(s, t, r)) /\ Gentle(r, Recovered(r))
         /\ Gentle(r, Retried(r)) /\ Gentle(r, Reevaluated(s, r))
<1> USE DEF Gentle, SameClaim
<1>1. Gentle(r, r) /\ Gentle(r, NoRow)
  BY DEF NoRow
<1>2. Gentle(r, RowRevised(s, t, r))
  <2>1. ASSUME NEW q \in Row, Gentle(r, q)
        PROVE  Gentle(r, Tightened(t, q))
    BY <2>1 DEF Tightened, Row
  <2>2. SourceChanged(r) \in Row /\ Gentle(r, SourceChanged(r))
    BY RowOperators DEF SourceChanged, Row
  <2> QED
    BY <1>1, <2>1, <2>2 DEF RowRevised
<1>3. Gentle(r, Recovered(r)) /\ Gentle(r, Retried(r))
  BY DEF Recovered, Retried, Row
<1>4. Gentle(r, Reevaluated(s, r))
  BY DEF Reevaluated, Row
<1> QED
  BY <1>1, <1>2, <1>3, <1>4

\* A step outside the section of a job that holds the send lock.
LEMMA Bystander ==
  ASSUME IInv, TypeOK',
         \A e \in EntryIds : row'[e].status = "sending" => SameClaim(row'[e], row[e]),
         UNCHANGED <<up, mine, sendLock>>,
         \A s \in SubIds : pc'[s] = pc[s] \/ {pc[s], pc'[s]} \cap HoldsLock = {},
         up \/ pc' = pc
  PROVE  LockHeld' /\ DownMeansIdle' /\ SendingIsOwned'
<1>1. LockHeld'
  BY DEF IInv, LockHeld
<1>2. DownMeansIdle'
  BY DEF IInv, DownMeansIdle
<1>3. ASSUME NEW e \in EntryIds, up', row'[e].status = "sending"
      PROVE  \E s \in SubIds : /\ sendLock' = s /\ pc'[s] \in Sending
                               /\ mine'[s].id = e /\ SameSending(s)'
  <2>1. PICK s \in SubIds : /\ sendLock = s /\ pc[s] \in Sending
                            /\ mine[s].id = e /\ SameSending(s)
    BY <1>3 DEF IInv, SendingIsOwned, SameClaim
  <2>2. pc'[s] = pc[s]
    BY <2>1 DEF HoldsLock
  <2>3. SameSending(s)'
    BY <1>3, <2>1 DEF SameSending, SameClaim
  <2> QED
    BY <2>1, <2>2, <2>3
<1> QED
  BY <1>1, <1>2, <1>3 DEF SendingIsOwned

\* A step that is gentle to every row, outside that section.
LEMMA GentleStep ==
  ASSUME IInv, TypeOK',
         \A e \in EntryIds : Gentle(row[e], row'[e]),
         \A s \in SubIds : sub[s].live => sub'[s].live,
         UNCHANGED <<up, mine, sendLock>>,
         \A s \in SubIds : pc'[s] = pc[s] \/ {pc[s], pc'[s]} \cap HoldsLock = {},
         up \/ pc' = pc
  PROVE  IInv'
<1>1. RowsHaveSubs'
  BY DEF IInv, RowsHaveSubs, Gentle, TypeOK, Row
<1> QED
  BY <1>1, Bystander DEF IInv, Gentle

LEMMA ScheduleQuiet ==
  ASSUME TypeOK, NEW S, Schedule(S)
  PROVE  \A s \in SubIds : pc'[s] = pc[s] \/ {pc[s], pc'[s]} \cap HoldsLock = {}
  BY DEF TypeOK, Schedule, HoldsLock, Sending

LEMMA GotoQuiet ==
  ASSUME TypeOK, NEW s \in SubIds, NEW label,
         pc[s] \notin HoldsLock, label \notin HoldsLock, Goto(s, label)
  PROVE  \A t \in SubIds : pc'[t] = pc[t] \/ {pc[t], pc'[t]} \cap HoldsLock = {}
  BY DEF TypeOK, Goto

LEMMA UserIInv ==
  ASSUME IInv, User
  PROVE  IInv'
<1>1. TypeOK /\ TypeOK'
  BY UserType DEF IInv
<1>2. \A e \in EntryIds : row[e] \in Row
  BY <1>1 DEF TypeOK
<1>3. \A s \in SubIds : sub[s] \in Subscription
  BY <1>1 DEF TypeOK
<1>4. UNCHANGED row => \A e \in EntryIds : Gentle(row[e], row'[e])
  BY <1>2, Defaults, GentleOperators
<1> USE DEF jobVars, May
<1>5. ASSUME NEW on \in BOOLEAN, NEW f \in Filters, NEW p \in Policies,
             CreateSubscription(on, f, p)
      PROVE  IInv'
  <2>1. \A s \in SubIds : sub[s].live => sub'[s].live
    BY <1>1, <1>5, Defaults DEF CreateSubscription, TypeOK, Subscription
  <2> QED
    BY <1>1, <1>4, <1>5, <2>1, GentleStep DEF CreateSubscription
<1>6. CASE ToggleOpen
  BY <1>1, <1>4, <1>6, GentleStep DEF ToggleOpen
<1>7. ASSUME NEW s \in SubIds, NEW newFeed \in BOOLEAN, NEW on \in BOOLEAN,
             NEW f \in Filters, NEW p \in Policies,
             UpdateSubscription(s, newFeed, on, f, p)
      PROVE  IInv'
  <2>1. Revised(sub[s], newFeed, on, f, p) \in Subscription
    BY <1>3, <1>7, RevisedType DEF UpdateSubscription
  <2>2. \A e \in EntryIds : Gentle(row[e], row'[e])
    BY <1>2, <1>3, <1>7, <2>1, GentleOperators DEF UpdateSubscription, OnRows
  <2>3. \A t \in SubIds : sub[t].live => sub'[t].live
    BY <1>1, <1>7 DEF UpdateSubscription, Revised, TypeOK, Subscription
  <2> QED
    BY <1>1, <1>7, <2>2, <2>3, GentleStep DEF UpdateSubscription
<1>8. ASSUME NEW s \in SubIds, NEW on \in BOOLEAN, SetEnabled(s, on)
      PROVE  IInv'
  <2>1. \A t \in SubIds : sub[t].live => sub'[t].live
    BY <1>1, <1>8 DEF SetEnabled, TypeOK, Subscription
  <2> QED
    BY <1>1, <1>4, <1>8, <2>1, GentleStep DEF SetEnabled
<1>9. ASSUME NEW s \in SubIds, DeleteSubscription(s)
      PROVE  IInv'
  <2>1. \A e \in EntryIds : row'[e] = IF row[e].sub = s THEN NoRow ELSE row[e]
    BY <1>9 DEF DeleteSubscription, OnRows
  <2>2. RowsHaveSubs'
    <3>1. ASSUME NEW e \in EntryIds, row'[e].status # "absent"
          PROVE  sub'[row'[e].sub].live
      <4>1. row[e].sub # s /\ row'[e] = row[e]
        <5>1. NoRow.status = "absent"
          BY DEF NoRow
        <5> QED
          BY <2>1, <3>1, <5>1
      <4>2. row[e].sub \in SubIds /\ sub[row[e].sub].live
        BY <1>2, <3>1, <4>1 DEF IInv, RowsHaveSubs, Row
      <4> QED
        BY <1>1, <1>9, <4>1, <4>2 DEF DeleteSubscription, TypeOK
    <3> QED
      BY <3>1 DEF RowsHaveSubs
  <2>3. \A e \in EntryIds : Gentle(row[e], row'[e])
    BY <1>2, <2>1, Defaults, GentleOperators
  <2> QED
    BY <1>1, <1>9, <2>2, <2>3, Bystander DEF DeleteSubscription, IInv, Gentle
<1>10. ASSUME NEW s \in SubIds, TriggerCheck(s)
       PROVE  IInv'
  <2>1. \A t \in SubIds : sub[t].live => sub'[t].live
    BY <1>1, <1>10 DEF TriggerCheck, TypeOK, Subscription
  <2> QED
    BY <1>1, <1>4, <1>10, <2>1, GentleStep, ScheduleQuiet DEF TriggerCheck
<1>11. ASSUME NEW s \in SubIds, RetryFailed(s)
       PROVE  IInv'
  <2>1. \A e \in EntryIds : Gentle(row[e], row'[e])
    BY <1>2, <1>11, Defaults, GentleOperators DEF RetryFailed, OnRows
  <2> QED
    BY <1>1, <1>11, <2>1, GentleStep, ScheduleQuiet DEF RetryFailed
<1>12. ASSUME NEW s \in SubIds, ReevaluateKeywords(s)
       PROVE  IInv'
  <2>1. \A e \in EntryIds : Gentle(row[e], row'[e])
    BY <1>2, <1>3, <1>12, GentleOperators DEF ReevaluateKeywords, OnRows
  <2>2. \A t \in SubIds : pc'[t] = pc[t] \/ {pc[t], pc'[t]} \cap HoldsLock = {}
    BY <1>1, <1>12, ScheduleQuiet DEF ReevaluateKeywords
  <2> QED
    BY <1>1, <1>12, <2>1, <2>2, GentleStep DEF ReevaluateKeywords
<1> QED
  BY <1>5, <1>6, <1>7, <1>8, <1>9, <1>10, <1>11, <1>12 DEF User

LEMMA SchedulerIInv ==
  ASSUME IInv,
         \/ ScanDue \/ StartJobs
         \/ \E e \in EntryIds : RowDue(e)
         \/ \E s \in SubIds : SubDue(s)
  PROVE  IInv'
<1>1. TypeOK /\ TypeOK'
  BY SchedulerType DEF IInv
<1>2. \A e \in EntryIds : row[e] \in Row
  BY <1>1 DEF TypeOK
<1>3. UNCHANGED row => \A e \in EntryIds : Gentle(row[e], row'[e])
  BY <1>2, Defaults, GentleOperators
<1> USE DEF jobVars
<1>4. CASE ScanDue
  BY <1>1, <1>3, <1>4, GentleStep DEF ScanDue
<1>5. CASE StartJobs
  BY <1>1, <1>3, <1>5, GentleStep, ScheduleQuiet DEF StartJobs
<1>6. ASSUME NEW e \in EntryIds, RowDue(e)
      PROVE  IInv'
  <2>1. \A f \in EntryIds : Gentle(row[f], row'[f])
    BY <1>1, <1>2, <1>6 DEF RowDue, Gentle, SameClaim, TypeOK, Row
  <2> QED
    BY <1>1, <1>6, <2>1, GentleStep DEF RowDue
<1>7. ASSUME NEW s \in SubIds, SubDue(s)
      PROVE  IInv'
  <2>1. \A t \in SubIds : sub[t].live => sub'[t].live
    BY <1>1, <1>7 DEF SubDue, TypeOK, Subscription
  <2> QED
    BY <1>1, <1>3, <1>7, <2>1, GentleStep DEF SubDue
<1> QED
  BY <1>4, <1>5, <1>6, <1>7

\* The steps of a job without the send lock.
LEMMA UnlockedIInv ==
  ASSUME IInv, NEW s \in SubIds,
         \/ JobBegin(s) \/ JobRead(s) \/ JobRecover(s) \/ CheckBegin(s)
         \/ FetchEmpty(s) \/ (\E feed \in Feeds : FetchOk(s, feed))
         \/ ListPending(s) \/ Gate(s)
  PROVE  IInv'
<1>1. TypeOK /\ TypeOK'
  BY CheckType, PublishType DEF IInv
<1>2. \A e \in EntryIds : row[e] \in Row
  BY <1>1 DEF TypeOK
<1>3. UNCHANGED row => \A e \in EntryIds : Gentle(row[e], row'[e])
  BY <1>2, Defaults, GentleOperators
<1>4. \E label \in PCs \ HoldsLock :
        pc[s] \in PCs \ (HoldsLock \cup {"idle"}) /\ Goto(s, label)
  BY DEF JobBegin, JobRead, JobRecover, CheckBegin, FetchEmpty, FetchOk,
         ListPending, Gate, PassDone, PCs, HoldsLock, Sending
<1>5. \A t \in SubIds : pc'[t] = pc[t] \/ {pc[t], pc'[t]} \cap HoldsLock = {}
  BY <1>1, <1>4, GotoQuiet
<1>6. up \/ pc' = pc
  BY <1>4 DEF IInv, DownMeansIdle
<1>7. UNCHANGED <<up, mine, sendLock>>
  BY DEF JobBegin, JobRead, JobRecover, CheckBegin, FetchEmpty, FetchOk,
         ListPending, Gate
<1>8. CASE JobBegin(s) \/ JobRead(s) \/ CheckBegin(s) \/ ListPending(s) \/ Gate(s)
  <2>1. UNCHANGED <<row, sub>>
    BY <1>8 DEF JobBegin, JobRead, CheckBegin, ListPending, Gate
  <2> QED
    BY <1>1, <1>3, <1>5, <1>6, <1>7, <2>1, GentleStep
<1>9. CASE JobRecover(s)
  <2>1. \A e \in EntryIds : Gentle(row[e], row'[e])
    BY <1>2, <1>9, Defaults, GentleOperators DEF JobRecover, OnRows
  <2> QED
    BY <1>1, <1>5, <1>6, <1>7, <1>9, <2>1, GentleStep DEF JobRecover
<1>10. CASE FetchEmpty(s)
  <2>1. \A t \in SubIds : sub[t].live => sub'[t].live
    BY <1>1, <1>10 DEF FetchEmpty, TypeOK, Subscription
  <2> QED
    BY <1>1, <1>3, <1>5, <1>6, <1>7, <1>10, <2>1, GentleStep DEF FetchEmpty
<1>11. ASSUME NEW feed \in Feeds, FetchOk(s, feed)
       PROVE  IInv'
  <2>1. \A t \in SubIds : sub[t].live => sub'[t].live
    <3>1. \/ sub' = sub
          \/ sub' = [sub EXCEPT ![s] = [@ EXCEPT !.due = FALSE, !.initialized = TRUE]]
      BY <1>11, Zenon DEF FetchOk
    <3>2. sub[s] \in Subscription
      BY <1>1 DEF TypeOK
    <3>3. [sub[s] EXCEPT !.due = FALSE, !.initialized = TRUE].live = sub[s].live
      BY <3>2 DEF Subscription
    <3> QED
      BY <1>1, <3>1, <3>3 DEF TypeOK
  <2>2. ASSUME NEW e \in EntryIds, row'[e].status # "absent"
        PROVE  sub'[row'[e].sub].live
    <3>1. CASE row'[e] = row[e]
      <4>1. row[e].sub \in SubIds /\ sub[row[e].sub].live
        BY <1>2, <2>2, <3>1 DEF IInv, RowsHaveSubs, Row
      <4> QED
        BY <2>1, <3>1, <4>1
    <3>2. CASE SameFeed(s) /\ row'[e].sub = s
      BY <2>1, <3>2 DEF SameFeed
    <3> QED
      BY <1>1, <1>11, <3>1, <3>2, FetchOkRows
  <2>3. RowsHaveSubs'
    BY <2>2 DEF RowsHaveSubs
  <2>4. \A e \in EntryIds : row'[e].status = "sending" => SameClaim(row'[e], row[e])
    BY <1>1, <1>11, FetchOkRows DEF SameClaim
  <2> QED
    BY <1>1, <1>5, <1>6, <1>7, <2>3, <2>4, Bystander DEF IInv
<1> QED
  BY <1>8, <1>9, <1>10, <1>11

\* The steps of the job that holds the send lock, or takes it.  A row that is
\* "sending" can only be the one it posts.
LEMMA LockedIInv ==
  ASSUME IInv, NEW s \in SubIds,
         \/ TakeSendLock(s) \/ Claim(s) \/ TelegramAccepts(s)
         \/ ConfirmSent(s) \/ SendRejected(s) \/ SendTransient(s)
  PROVE  IInv'
<1>1. TypeOK /\ TypeOK'
  BY PublishType, OutcomeType DEF IInv
<1>2. \A e \in EntryIds : row[e] \in Row
  BY <1>1 DEF TypeOK
<1>3. s # 0 /\ s \in SubIds
  BY BoundsAssumption DEF SubIds
<1>4. up /\ pc[s] # "idle"
  BY DEF TakeSendLock, Claim, TelegramAccepts, ConfirmSent, SendRejected,
         SendTransient, Sending, IInv, DownMeansIdle
<1> USE DEF Goto
<1>5. CASE TakeSendLock(s)
  <2>1. /\ sendLock = 0 /\ sendLock' = s /\ pc' = [pc EXCEPT ![s] = "claim"]
        /\ UNCHANGED <<up, sub, row>>
    BY <1>5 DEF TakeSendLock
  <2>2. \A e \in EntryIds : row[e].status # "sending"
    BY <1>3, <1>4, <2>1 DEF IInv, SendingIsOwned, SubIds
  <2>3. LockHeld'
    BY <1>1, <1>3, <2>1 DEF IInv, LockHeld, HoldsLock, TypeOK, SubIds
  <2>4. DownMeansIdle' /\ RowsHaveSubs'
    BY <1>4, <2>1 DEF IInv, DownMeansIdle, RowsHaveSubs
  <2>5. SendingIsOwned'
    BY <2>1, <2>2 DEF SendingIsOwned
  <2> QED
    BY <1>1, <2>3, <2>4, <2>5 DEF IInv
<1>6. CASE Claim(s)
  <2>1. pc[s] = "claim"
    BY <1>6 DEF Claim
  <2>2. sendLock = s
    BY <2>1 DEF IInv, LockHeld, HoldsLock
  <2>3. \A e \in EntryIds : row[e].status # "sending"
    BY <1>4, <2>1, <2>2 DEF IInv, SendingIsOwned, Sending
  <2>4. PICK e \in todo[s] :
          /\ row' = [row EXCEPT ![e] = Claimed(sub[s], row[e])]
          /\ \/ /\ pc' = [pc EXCEPT ![s] = "post"] /\ sendLock' = sendLock
                /\ mine' = [mine EXCEPT ![s] = ClaimOf(e, Claimed(sub[s], row[e]))]
                /\ Claimed(sub[s], row[e]).status = "sending"
             \/ /\ pc' = [pc EXCEPT ![s] = "gate"] /\ sendLock' = 0
                /\ ~ (row[e].status = "pending"
                       /\ Claimed(sub[s], row[e]).status = "sending")
          /\ UNCHANGED <<up, sub>>
    BY <1>6 DEF Claim
  <2>5. e \in EntryIds /\ sub[s] \in Subscription
    BY <1>1 DEF TypeOK
  <2>6. /\ Claimed(sub[s], row[e]).status # "absent" => row[e].status # "absent"
        /\ Claimed(sub[s], row[e]).sub = row[e].sub
        /\ Claimed(sub[s], row[e]).status = "sending" => row[e].status # "absent"
        /\ row[e].status # "pending" => Claimed(sub[s], row[e]) = row[e]
    BY <1>2, <2>5 DEF Claimed, Row
  <2>7. RowsHaveSubs'
    BY <1>1, <2>4, <2>5, <2>6 DEF IInv, RowsHaveSubs, TypeOK
  <2>8. DownMeansIdle'
    BY <1>4, <2>4 DEF DownMeansIdle
  <2>9. LockHeld'
    BY <1>1, <1>3, <2>2, <2>4 DEF IInv, LockHeld, HoldsLock, Sending, TypeOK, SubIds
  <2>10. SendingIsOwned'
    <3>1. CASE /\ pc' = [pc EXCEPT ![s] = "post"] /\ sendLock' = sendLock
               /\ mine' = [mine EXCEPT ![s] = ClaimOf(e, Claimed(sub[s], row[e]))]
               /\ Claimed(sub[s], row[e]).status = "sending"
      <4>1. \A f \in EntryIds : row'[f].status = "sending" => f = e
        BY <1>1, <2>3, <2>4, <2>5 DEF TypeOK
      <4>2. row'[e] = Claimed(sub[s], row[e]) /\ mine'[s] = ClaimOf(e, row'[e])
            /\ pc'[s] = "post" /\ sendLock' = s
        BY <1>1, <2>2, <2>4, <2>5, <3>1 DEF TypeOK
      <4>3. mine'[s].id = e /\ SameSending(s)'
        BY <3>1, <4>2 DEF ClaimOf, SameSending
      <4> QED
        BY <4>1, <4>2, <4>3 DEF SendingIsOwned, Sending
    <3>2. CASE ~ (row[e].status = "pending"
                   /\ Claimed(sub[s], row[e]).status = "sending")
      <4>1. \A f \in EntryIds : row'[f].status # "sending"
        BY <1>1, <2>3, <2>4, <2>5, <2>6, <3>2 DEF TypeOK
      <4> QED
        BY <4>1 DEF SendingIsOwned
    <3> QED
      BY <2>4, <3>1, <3>2
  <2> QED
    BY <1>1, <2>7, <2>8, <2>9, <2>10 DEF IInv
<1>7. CASE TelegramAccepts(s)
  <2>1. /\ pc[s] = "post" /\ pc' = [pc EXCEPT ![s] = "posted"]
        /\ UNCHANGED <<up, sub, mine, sendLock>>
    BY <1>7 DEF TelegramAccepts
  <2>2. sendLock = s
    BY <2>1 DEF IInv, LockHeld, HoldsLock, Sending
  <2>3. \A e \in EntryIds : SameClaim(row'[e], row[e])
    BY <1>2, <1>7 DEF TelegramAccepts, SameClaim, Row
  <2>4. RowsHaveSubs'
    BY <2>1, <2>3 DEF IInv, RowsHaveSubs, SameClaim
  <2>5. LockHeld' /\ DownMeansIdle'
    BY <1>1, <1>4, <2>1, <2>2
    DEF IInv, LockHeld, DownMeansIdle, HoldsLock, Sending, TypeOK
  <2>6. SendingIsOwned'
    <3>1. ASSUME NEW e \in EntryIds, row'[e].status = "sending"
          PROVE  mine[s].id = e /\ SameSending(s)
      BY <1>4, <2>2, <2>3, <3>1 DEF IInv, SendingIsOwned, SameClaim
    <3>2. ASSUME NEW e \in EntryIds, row'[e].status = "sending"
          PROVE  SameSending(s)'
      BY <2>1, <2>3, <3>1, <3>2 DEF SameSending, SameClaim
    <3>3. pc'[s] = "posted" /\ sendLock' = s
      BY <1>1, <2>1, <2>2 DEF TypeOK
    <3> QED
      BY <2>1, <3>1, <3>2, <3>3 DEF SendingIsOwned, Sending
  <2> QED
    BY <1>1, <2>4, <2>5, <2>6 DEF IInv
<1>8. CASE ConfirmSent(s) \/ SendRejected(s) \/ SendTransient(s)
  <2>1. /\ pc[s] \in Sending /\ pc' = [pc EXCEPT ![s] = "gate"] /\ sendLock' = 0
        /\ UNCHANGED <<up, sub>>
    BY <1>8 DEF ConfirmSent, SendRejected, SendTransient, Outcome, Sending
  <2>2. sendLock = s
    BY <2>1 DEF IInv, LockHeld, HoldsLock
  <2>3. ASSUME NEW e \in EntryIds
        PROVE  /\ row'[e].sub = row[e].sub
               /\ row'[e].status = "absent" <=> row[e].status = "absent"
               /\ row'[e].status # "sending"
    <3>1. row[e].status = "sending" => e = mine[s].id /\ SameSending(s)
      BY <1>4, <2>2 DEF IInv, SendingIsOwned
    <3>2. SameSending(s) => row[mine[s].id].status = "sending"
      BY DEF SameSending
    <3>3. CASE ConfirmSent(s)
      BY <1>2, <3>1, <3>2, <3>3 DEF ConfirmSent, Outcome, Row
    <3>4. CASE SendRejected(s)
      BY <1>2, <3>1, <3>2, <3>4 DEF SendRejected, Outcome, Row
    <3>5. CASE SendTransient(s)
      BY <1>2, <3>1, <3>2, <3>5 DEF SendTransient, Outcome, Row
    <3> QED
      BY <1>8, <3>3, <3>4, <3>5
  <2>4. RowsHaveSubs' /\ SendingIsOwned'
    BY <2>1, <2>3 DEF IInv, RowsHaveSubs, SendingIsOwned
  <2>5. LockHeld' /\ DownMeansIdle'
    BY <1>1, <1>3, <1>4, <2>1, <2>2
    DEF IInv, LockHeld, DownMeansIdle, HoldsLock, Sending, TypeOK, SubIds
  <2> QED
    BY <1>1, <2>4, <2>5 DEF IInv
<1> QED
  BY <1>5, <1>6, <1>7, <1>8

LEMMA CrashIInv ==
  ASSUME IInv, Crash \/ Restart
  PROVE  IInv'
<1>1. TypeOK /\ TypeOK'
  BY CrashType DEF IInv
<1>2. \A e \in EntryIds : row[e] \in Row
  BY <1>1 DEF TypeOK
<1>3. CASE Crash
  <2>1. /\ ~up' /\ sendLock' = 0 /\ \A s \in SubIds : pc'[s] = "idle"
        /\ sub' = sub
    BY <1>3 DEF Crash
  <2>2. \A e \in EntryIds : row'[e].status = row[e].status /\ row'[e].sub = row[e].sub
    BY <1>2, <1>3 DEF Crash, Row
  <2>3. RowsHaveSubs'
    BY <2>1, <2>2 DEF IInv, RowsHaveSubs
  <2>4. LockHeld' /\ DownMeansIdle' /\ SendingIsOwned'
    BY <2>1 DEF LockHeld, DownMeansIdle, SendingIsOwned, HoldsLock, Sending, SubIds
  <2> QED
    BY <1>1, <2>3, <2>4 DEF IInv
<1>4. CASE Restart
  <2>1. UNCHANGED <<pc, sendLock, sub>> /\ up' /\ ~up
    BY <1>4 DEF Restart, jobVars
  <2>2. ASSUME NEW e \in EntryIds
        PROVE  /\ row'[e].sub = row[e].sub /\ row'[e].status # "sending"
               /\ row'[e].status # "absent" => row[e].status # "absent"
    BY <1>2, <1>4 DEF Restart, Recovered, Row, IInv, RowsHaveSubs
  <2>3. RowsHaveSubs' /\ SendingIsOwned'
    BY <2>1, <2>2 DEF IInv, RowsHaveSubs, SendingIsOwned
  <2>4. LockHeld' /\ DownMeansIdle'
    BY <2>1 DEF IInv, LockHeld, DownMeansIdle
  <2> QED
    BY <1>1, <2>3, <2>4 DEF IInv
<1> QED
  BY <1>3, <1>4

LEMMA InitIInv == Init => IInv
<1> SUFFICES ASSUME Init PROVE IInv
  OBVIOUS
<1>1. TypeOK
  BY InitType
<1>2. LockHeld
  BY DEF Init, LockHeld, HoldsLock, Sending, SubIds
<1>3. DownMeansIdle /\ RowsHaveSubs /\ SendingIsOwned
  BY DEF Init, DownMeansIdle, RowsHaveSubs, SendingIsOwned, NoRow
<1> QED
  BY <1>1, <1>2, <1>3 DEF IInv

LEMMA StepIInv == IInv /\ [Next]_vars => IInv'
<1> SUFFICES ASSUME IInv, [Next]_vars PROVE IInv'
  OBVIOUS
<1>1. CASE User
  BY <1>1, UserIInv
<1>2. CASE ScanDue \/ StartJobs \/ (\E e \in EntryIds : RowDue(e))
  BY <1>2, SchedulerIInv
<1>3. ASSUME NEW s \in SubIds, SubDue(s) \/ TakeSendLock(s) \/ JobStep(s)
      PROVE  IInv'
  BY <1>3, SchedulerIInv, UnlockedIInv, LockedIInv DEF JobStep
<1>4. CASE Crash \/ Restart
  BY <1>4, CrashIInv
<1>5. CASE UNCHANGED vars
  BY <1>5, StepType DEF vars, IInv, TypeOK, LockHeld, DownMeansIdle,
     RowsHaveSubs, SendingIsOwned, SameSending
<1> QED
  BY <1>1, <1>2, <1>3, <1>4, <1>5 DEF Next

LEMMA AlwaysIInv == Spec => []IInv
  BY InitIInv, StepIInv, PTL DEF Spec

\* A row is "sending" only while the job that claimed it posts it, in the
\* process that is running: no end of _send_one, no edit, no deletion and no
\* restart can leave an orphan behind or take a claim from its job.
THEOREM SendingOwned == Spec => []SendingIsOwned
<1>1. IInv => SendingIsOwned
  BY DEF IInv
<1> QED
  BY <1>1, AlwaysIInv, PTL

-----------------------------------------------------------------------------
(* Refinement: the table is an outbox.  First, which changes of the status *)
(* column are steps of RssOutbox, then which of them each action makes.    *)

OutboxStep ==
  Outbox!Next \/ UNCHANGED [e \in EntryIds |-> LifeOf(row[e].status)]

LEMMA LifeIn ==
  ASSUME TypeOK, NEW e \in EntryIds
  PROVE  /\ e \in Outbox!In({"absent"}) <=> row[e].status = "absent"
         /\ e \in Outbox!In({"queued"}) <=> row[e].status = "pending"
         /\ e \in Outbox!In({"taken"}) <=> row[e].status = "sending"
         /\ e \in Outbox!In({"queued", "taken"}) <=>
              row[e].status \in {"pending", "sending"}
         /\ e \in Outbox!In({"queued", "taken", "failed"}) <=>
              row[e].status \in {"pending", "sending", "failed"}
         /\ e \in Outbox!In({"failed", "withdrawn"}) <=>
              row[e].status \in {"failed", "skipped"}
<1>1. row[e].status \in Statuses
  BY DEF TypeOK, Row
<1> QED
  BY <1>1 DEF Statuses, LifeOf, Outbox!In

LEMMA InSubset == \A L : Outbox!In(L) \subseteq EntryIds
  BY DEF Outbox!In

LEMMA MapStutter ==
  ASSUME \A e \in EntryIds : row'[e].status = row[e].status
  PROVE  OutboxStep
  BY DEF OutboxStep

\* Rows of one status change to another one.
LEMMA MapMove ==
  ASSUME NEW S, NEW to \in Statuses,
         \A e \in EntryIds :
           row'[e].status = IF e \in S THEN to ELSE row[e].status
  PROVE  Outbox!Move(S, LifeOf(to))
  BY DEF Outbox!Move

LEMMA MapWithdraw ==
  ASSUME TypeOK,
         \A e \in EntryIds :
           \/ row'[e].status = row[e].status
           \/ /\ row[e].status \in {"pending", "sending", "failed"}
              /\ row'[e].status = "skipped"
  PROVE  OutboxStep
<1> DEFINE S == {e \in EntryIds : row'[e].status # row[e].status}
<1>1. S \subseteq Outbox!In({"queued", "taken", "failed"})
  BY LifeIn
<1>2. Outbox!Move(S, "withdrawn")
  <2>1. "skipped" \in Statuses /\ LifeOf("skipped") = "withdrawn"
    BY DEF Statuses, LifeOf
  <2>2. \A e \in EntryIds :
          row'[e].status = IF e \in S THEN "skipped" ELSE row[e].status
    OBVIOUS
  <2> HIDE DEF S
  <2>3. Outbox!Move(S, LifeOf("skipped"))
    BY <2>1, <2>2, MapMove
  <2> QED
    BY <2>1, <2>3
<1> QED
  BY <1>1, <1>2 DEF OutboxStep, Outbox!Next, Outbox!Withdraw

LEMMA MapRevive ==
  ASSUME TypeOK,
         \A e \in EntryIds :
           \/ row'[e].status = row[e].status
           \/ /\ row[e].status \in {"failed", "skipped"}
              /\ row'[e].status = "pending"
  PROVE  OutboxStep
<1> DEFINE S == {e \in EntryIds : row'[e].status # row[e].status}
<1>1. S \subseteq Outbox!In({"failed", "withdrawn"})
  BY LifeIn
<1>2. Outbox!Move(S, "queued")
  <2>1. "pending" \in Statuses /\ LifeOf("pending") = "queued"
    BY DEF Statuses, LifeOf
  <2>2. \A e \in EntryIds :
          row'[e].status = IF e \in S THEN "pending" ELSE row[e].status
    OBVIOUS
  <2> HIDE DEF S
  <2>3. Outbox!Move(S, LifeOf("pending"))
    BY <2>1, <2>2, MapMove
  <2> QED
    BY <2>1, <2>3
<1> QED
  BY <1>1, <1>2 DEF OutboxStep, Outbox!Next, Outbox!Revive

LEMMA MapForget ==
  ASSUME \A e \in EntryIds :
           row'[e].status = row[e].status \/ row'[e].status = "absent"
  PROVE  OutboxStep
<1> DEFINE S == {e \in EntryIds : row'[e].status = "absent"}
<1>1. Outbox!Move(S, "absent")
  <2>1. "absent" \in Statuses /\ LifeOf("absent") = "absent"
    BY DEF Statuses, LifeOf
  <2>2. \A e \in EntryIds :
          row'[e].status = IF e \in S THEN "absent" ELSE row[e].status
    OBVIOUS
  <2> HIDE DEF S
  <2>3. Outbox!Move(S, LifeOf("absent"))
    BY <2>1, <2>2, MapMove
  <2> QED
    BY <2>1, <2>3
<1>2. S \subseteq EntryIds
  OBVIOUS
<1> QED
  BY <1>1, <1>2 DEF OutboxStep, Outbox!Next, Outbox!Forget

LEMMA MapAdmit ==
  ASSUME TypeOK,
         \A e \in EntryIds :
           \/ row'[e].status = row[e].status
           \/ /\ row[e].status = "absent"
              /\ row'[e].status \in {"pending", "skipped"}
  PROVE  OutboxStep
<1> DEFINE New(st) == {e \in EntryIds : row[e].status = "absent"
                                         /\ row'[e].status = st}
<1>1. /\ New("pending") \subseteq Outbox!In({"absent"})
      /\ New("skipped") \subseteq Outbox!In({"absent"})
  BY LifeIn
<1>2. [e \in EntryIds |-> LifeOf(row'[e].status)]
        = [e \in EntryIds |->
             IF e \in New("pending") THEN "queued"
             ELSE IF e \in New("skipped") THEN "withdrawn"
             ELSE [f \in EntryIds |-> LifeOf(row[f].status)][e]]
  <2>1. LifeOf("pending") = "queued" /\ LifeOf("skipped") = "withdrawn"
    BY DEF LifeOf
  <2>2. ASSUME NEW e \in EntryIds
        PROVE  LifeOf(row'[e].status) =
                 IF e \in New("pending") THEN "queued"
                 ELSE IF e \in New("skipped") THEN "withdrawn"
                 ELSE LifeOf(row[e].status)
    BY <2>1
  <2> HIDE DEF New
  <2> QED
    BY <2>2
<1> HIDE DEF New
<1> QED
  BY <1>1, <1>2 DEF OutboxStep, Outbox!Next, Outbox!Admit

LEMMA MapPutBack ==
  ASSUME TypeOK,
         \A e \in EntryIds :
           row'[e].status =
             IF row[e].status = "sending" THEN "pending" ELSE row[e].status
  PROVE  OutboxStep
<1>1. \A e \in EntryIds : row'[e].status =
        IF e \in Outbox!In({"taken"}) THEN "pending" ELSE row[e].status
  BY LifeIn
<1>2. "pending" \in Statuses /\ LifeOf("pending") = "queued"
  BY DEF Statuses, LifeOf
<1>3. Outbox!Move(Outbox!In({"taken"}), LifeOf("pending"))
  BY <1>1, <1>2, MapMove
<1> QED
  BY <1>2, <1>3 DEF OutboxStep, Outbox!Next, Outbox!PutBack

\* One row changes its status.
LEMMA MapOne ==
  ASSUME TypeOK, NEW e \in EntryIds,
         \A f \in EntryIds : f # e => row'[f].status = row[f].status,
         \/ /\ row[e].status = "pending" /\ row'[e].status = "sending"
            /\ \A f \in EntryIds : row[f].status # "sending"
         \/ row[e].status = "sending" /\ row'[e].status = "sent"
         \/ /\ row[e].status \in {"pending", "sending"}
            /\ row'[e].status = "failed"
  PROVE  OutboxStep
<1>1. row'[e].status \in {"sending", "sent", "failed"}
  OBVIOUS
<1>2. \A f \in EntryIds :
        row'[f].status = IF f \in {e} THEN row'[e].status ELSE row[f].status
  OBVIOUS
<1>3. Outbox!Move({e}, LifeOf(row'[e].status))
  BY <1>1, <1>2, MapMove DEF Statuses
<1>4. CASE row[e].status = "pending" /\ row'[e].status = "sending"
  <2>1. Outbox!In({"taken"}) = {}
    BY <1>4, LifeIn, InSubset
  <2>2. Outbox!Move({e}, "taken")
    <3>1. LifeOf("sending") = "taken"
      BY DEF LifeOf
    <3> QED
      BY <1>3, <1>4, <3>1
  <2> QED
    BY <1>4, <2>1, <2>2, LifeIn DEF OutboxStep, Outbox!Next, Outbox!Take
<1>5. CASE row[e].status = "sending" /\ row'[e].status = "sent"
  <2>1. Outbox!Move({e}, "delivered")
    <3>1. LifeOf("sent") = "delivered"
      BY DEF LifeOf
    <3> QED
      BY <1>3, <1>5, <3>1
  <2> QED
    BY <1>5, <2>1, LifeIn DEF OutboxStep, Outbox!Next, Outbox!Deliver
<1>6. CASE row[e].status \in {"pending", "sending"} /\ row'[e].status = "failed"
  <2>1. Outbox!Move({e}, "failed")
    <3>1. LifeOf("failed") = "failed"
      BY DEF LifeOf
    <3> QED
      BY <1>3, <1>6, <3>1
  <2> QED
    BY <1>6, <2>1, LifeIn DEF OutboxStep, Outbox!Next, Outbox!GiveUp
<1> QED
  BY <1>4, <1>5, <1>6

\* What each statement does to the status of its row.
LEMMA StatusOf ==
  ASSUME NEW r \in Row, NEW s \in Subscription, NEW t \in Subscription
  PROVE  /\ \/ RowRevised(s, t, r).status = r.status
            \/ /\ r.status \in {"pending", "sending", "failed"}
               /\ RowRevised(s, t, r).status = "skipped"
         /\ Recovered(r).status =
              IF r.status = "sending" THEN "pending" ELSE r.status
         /\ \/ Retried(r).status = r.status
            \/ r.status = "failed" /\ Retried(r).status = "pending"
         /\ \/ Reevaluated(s, r).status = r.status
            \/ r.status = "skipped" /\ Reevaluated(s, r).status = "pending"
         /\ \/ Claimed(s, r).status = r.status
            \/ /\ r.status = "pending"
               /\ Claimed(s, r).status \in {"sending", "failed", "skipped"}
<1>1. \/ RowRevised(s, t, r).status = r.status
      \/ /\ r.status \in {"pending", "sending", "failed"}
         /\ RowRevised(s, t, r).status = "skipped"
  <2>1. ASSUME NEW q \in Row
        PROVE  \/ Tightened(t, q).status = q.status
               \/ q.status = "pending" /\ Tightened(t, q).status = "skipped"
    BY DEF Tightened, Row
  <2>2. /\ SourceChanged(r) \in Row
        /\ \/ SourceChanged(r) = r
           \/ /\ r.status \in {"pending", "sending", "failed"}
              /\ SourceChanged(r).status = "skipped"
    BY RowOperators DEF SourceChanged, Row
  <2> QED
    BY <2>1, <2>2 DEF RowRevised
<1>2. Recovered(r).status = IF r.status = "sending" THEN "pending" ELSE r.status
  BY DEF Recovered, Row
<1>3. \/ Retried(r).status = r.status
      \/ r.status = "failed" /\ Retried(r).status = "pending"
  BY DEF Retried, Row
<1>4. \/ Reevaluated(s, r).status = r.status
      \/ r.status = "skipped" /\ Reevaluated(s, r).status = "pending"
  BY DEF Reevaluated, Row
<1>5. \/ Claimed(s, r).status = r.status
      \/ /\ r.status = "pending"
         /\ Claimed(s, r).status \in {"sending", "failed", "skipped"}
  BY DEF Claimed, Row
<1> QED
  BY <1>1, <1>2, <1>3, <1>4, <1>5

LEMMA UserOutbox ==
  ASSUME IInv, User
  PROVE  OutboxStep
<1>1. TypeOK /\ TypeOK'
  BY UserType DEF IInv
<1>2. /\ \A e \in EntryIds : row[e] \in Row
      /\ \A s \in SubIds : sub[s] \in Subscription
  BY <1>1 DEF TypeOK
<1>3. ASSUME NEW on \in BOOLEAN, NEW f \in Filters, NEW p \in Policies,
             CreateSubscription(on, f, p)
      PROVE  OutboxStep
  BY <1>3, MapStutter DEF CreateSubscription
<1>4. CASE ToggleOpen
  BY <1>4, MapStutter DEF ToggleOpen
<1>5. ASSUME NEW s \in SubIds, NEW newFeed \in BOOLEAN, NEW on \in BOOLEAN,
             NEW f \in Filters, NEW p \in Policies,
             UpdateSubscription(s, newFeed, on, f, p)
      PROVE  OutboxStep
  <2>1. Revised(sub[s], newFeed, on, f, p) \in Subscription
    BY <1>2, <1>5, RevisedType DEF UpdateSubscription
  <2>2. \A e \in EntryIds :
          \/ row'[e].status = row[e].status
          \/ /\ row[e].status \in {"pending", "sending", "failed"}
             /\ row'[e].status = "skipped"
    BY <1>2, <1>5, <2>1, StatusOf DEF UpdateSubscription, OnRows
  <2> QED
    BY <1>1, <2>2, MapWithdraw
<1>6. ASSUME NEW s \in SubIds, NEW on \in BOOLEAN, SetEnabled(s, on)
      PROVE  OutboxStep
  BY <1>6, MapStutter DEF SetEnabled
<1>7. ASSUME NEW s \in SubIds, DeleteSubscription(s)
      PROVE  OutboxStep
  <2>1. NoRow.status = "absent"
    BY DEF NoRow
  <2>2. \A e \in EntryIds :
          row'[e].status = row[e].status \/ row'[e].status = "absent"
    BY <1>7, <2>1 DEF DeleteSubscription, OnRows
  <2> QED
    BY <2>2, MapForget
<1>8. ASSUME NEW s \in SubIds, TriggerCheck(s)
      PROVE  OutboxStep
  BY <1>8, MapStutter DEF TriggerCheck
<1>9. ASSUME NEW s \in SubIds, RetryFailed(s)
      PROVE  OutboxStep
  <2>1. \A e \in EntryIds :
          \/ row'[e].status = row[e].status
          \/ /\ row[e].status \in {"failed", "skipped"}
             /\ row'[e].status = "pending"
    BY <1>2, <1>9, StatusOf DEF RetryFailed, OnRows
  <2> QED
    BY <1>1, <2>1, MapRevive
<1>10. ASSUME NEW s \in SubIds, ReevaluateKeywords(s)
       PROVE  OutboxStep
  <2>1. \A e \in EntryIds :
          \/ row'[e].status = row[e].status
          \/ /\ row[e].status \in {"failed", "skipped"}
             /\ row'[e].status = "pending"
    BY <1>2, <1>10, StatusOf DEF ReevaluateKeywords, OnRows
  <2> QED
    BY <1>1, <2>1, MapRevive
<1> QED
  BY <1>3, <1>4, <1>5, <1>6, <1>7, <1>8, <1>9, <1>10 DEF User

LEMMA JobOutbox ==
  ASSUME IInv, NEW s \in SubIds, TakeSendLock(s) \/ JobStep(s)
  PROVE  OutboxStep
<1>1. TypeOK /\ up
  BY DEF IInv, DownMeansIdle, JobStep, TakeSendLock, JobBegin, JobRead, JobRecover,
         CheckBegin, FetchEmpty, FetchOk, ListPending, Gate, Claim,
         TelegramAccepts, ConfirmSent, SendRejected, SendTransient, Sending
<1>2. /\ \A e \in EntryIds : row[e] \in Row
      /\ sub[s] \in Subscription
  BY <1>1 DEF TypeOK
<1>3. \A e, f \in EntryIds :
        row[e].status = "sending" /\ row[f].status = "sending" => e = f
  BY <1>1 DEF IInv, SendingIsOwned
<1>4. CASE \/ JobBegin(s) \/ JobRead(s) \/ CheckBegin(s) \/ FetchEmpty(s)
           \/ ListPending(s) \/ Gate(s) \/ TakeSendLock(s)
  BY <1>4, MapStutter DEF JobBegin, JobRead, CheckBegin, FetchEmpty, ListPending,
     Gate, TakeSendLock
<1>5. CASE JobRecover(s)
  <2>1. \A e \in EntryIds : row'[e].status =
          IF row[e].sub = s /\ row[e].status = "sending"
            THEN "pending" ELSE row[e].status
    BY <1>2, <1>5, StatusOf DEF JobRecover, OnRows
  <2>2. CASE \E e \in EntryIds : row[e].sub = s /\ row[e].status = "sending"
    <3>1. \A e \in EntryIds : row'[e].status =
            IF row[e].status = "sending" THEN "pending" ELSE row[e].status
      BY <1>3, <2>1, <2>2
    <3> QED
      BY <1>1, <3>1, MapPutBack
  <2>3. CASE ~ \E e \in EntryIds : row[e].sub = s /\ row[e].status = "sending"
    BY <2>1, <2>3, MapStutter
  <2> QED
    BY <2>2, <2>3
<1>6. ASSUME NEW feed \in Feeds, FetchOk(s, feed)
      PROVE  OutboxStep
  <2>1. \A e \in EntryIds :
          \/ row'[e].status = row[e].status
          \/ /\ row[e].status = "absent"
             /\ row'[e].status \in {"pending", "skipped"}
    BY <1>1, <1>6, FetchOkRows
  <2> QED
    BY <1>1, <2>1, MapAdmit
<1>7. CASE Claim(s)
  <2>1. sendLock = s /\ pc[s] = "claim"
    BY <1>7 DEF Claim, IInv, LockHeld, HoldsLock
  <2>2. \A e \in EntryIds : row[e].status # "sending"
    BY <1>1, <2>1 DEF IInv, SendingIsOwned, Sending
  <2>3. PICK e \in todo[s] : row' = [row EXCEPT ![e] = Claimed(sub[s], row[e])]
    BY <1>7 DEF Claim
  <2>4. e \in EntryIds
    BY <1>1 DEF TypeOK
  <2>5. /\ row'[e] = Claimed(sub[s], row[e])
        /\ \A f \in EntryIds : f # e => row'[f].status = row[f].status
    BY <1>1, <2>3, <2>4 DEF TypeOK
  <2>6. \/ row'[e].status = row[e].status
        \/ /\ row[e].status = "pending"
           /\ row'[e].status \in {"sending", "failed", "skipped"}
    BY <1>2, <2>4, <2>5, StatusOf
  <2>7. CASE row'[e].status = row[e].status
    BY <2>5, <2>7, MapStutter
  <2>8. CASE row[e].status = "pending" /\ row'[e].status \in {"sending", "failed"}
    BY <1>1, <2>2, <2>4, <2>5, <2>8, MapOne
  <2>9. CASE row[e].status = "pending" /\ row'[e].status = "skipped"
    BY <1>1, <2>4, <2>5, <2>9, MapWithdraw
  <2> QED
    BY <2>6, <2>7, <2>8, <2>9
<1>8. CASE TelegramAccepts(s)
  <2>1. \A e \in EntryIds : row'[e].status = row[e].status
    BY <1>2, <1>8 DEF TelegramAccepts, Row
  <2> QED
    BY <2>1, MapStutter
<1>9. CASE ConfirmSent(s) \/ SendRejected(s) \/ SendTransient(s)
  <2>1. mine[s].id \in EntryIds
    BY <1>1 DEF TypeOK
  <2>2. \E to \in {"sent", "failed", "pending"} : \A e \in EntryIds :
          row'[e].status = IF e = mine[s].id /\ SameSending(s)
                             THEN to ELSE row[e].status
    <3>1. CASE ConfirmSent(s)
      <4>1. \A e \in EntryIds :
              row'[e].status = IF e = mine[s].id /\ SameSending(s)
                                 THEN "sent" ELSE row[e].status
        BY <1>2, <3>1 DEF ConfirmSent, Outcome, Row
      <4> QED
        BY <4>1
    <3>2. CASE SendRejected(s)
      <4>1. \A e \in EntryIds :
              row'[e].status = IF e = mine[s].id /\ SameSending(s)
                                 THEN "failed" ELSE row[e].status
        BY <1>2, <3>2 DEF SendRejected, Outcome, Row
      <4> QED
        BY <4>1
    <3>3. CASE SendTransient(s)
      <4>1. CASE row[mine[s].id].attempts >= MaxAttempts
        <5>1. \A e \in EntryIds :
                row'[e].status = IF e = mine[s].id /\ SameSending(s)
                                   THEN "failed" ELSE row[e].status
          BY <1>2, <3>3, <4>1 DEF SendTransient, Outcome, Row
        <5> QED
          BY <5>1
      <4>2. CASE ~(row[mine[s].id].attempts >= MaxAttempts)
        <5>1. \A e \in EntryIds :
                row'[e].status = IF e = mine[s].id /\ SameSending(s)
                                   THEN "pending" ELSE row[e].status
          BY <1>2, <3>3, <4>2 DEF SendTransient, Outcome, Row
        <5> QED
          BY <5>1
      <4> QED
        BY <4>1, <4>2
    <3> QED
      BY <1>9, <3>1, <3>2, <3>3
  <2>3. CASE ~SameSending(s)
    BY <2>2, <2>3, MapStutter
  <2>4. CASE SameSending(s)
    <3>1. row[mine[s].id].status = "sending"
      BY <2>4 DEF SameSending
    <3>2. PICK to \in {"sent", "failed", "pending"} : \A e \in EntryIds :
            row'[e].status = IF e = mine[s].id THEN to ELSE row[e].status
      BY <2>2, <2>4
    <3>3. CASE to \in {"sent", "failed"}
      BY <1>1, <2>1, <3>1, <3>2, <3>3, MapOne
    <3>4. CASE to = "pending"
      <4>1. \A e \in EntryIds : row'[e].status =
              IF row[e].status = "sending" THEN "pending" ELSE row[e].status
        BY <1>3, <2>1, <3>1, <3>2, <3>4
      <4> QED
        BY <1>1, <4>1, MapPutBack
    <3> QED
      BY <3>3, <3>4
  <2> QED
    BY <2>3, <2>4
<1> QED
  BY <1>4, <1>5, <1>6, <1>7, <1>8, <1>9 DEF JobStep

LEMMA StepOutbox == IInv /\ [Next]_vars => OutboxStep
<1> SUFFICES ASSUME IInv, [Next]_vars PROVE OutboxStep
  OBVIOUS
<1>1. \A e \in EntryIds : row[e] \in Row
  BY DEF IInv, TypeOK
<1>2. CASE User
  BY <1>2, UserOutbox
<1>3. CASE ScanDue \/ StartJobs \/ \E s \in SubIds : SubDue(s)
  BY <1>3, MapStutter DEF ScanDue, StartJobs, SubDue
<1>4. ASSUME NEW e \in EntryIds, RowDue(e)
      PROVE  OutboxStep
  <2>1. \A f \in EntryIds : row'[f].status = row[f].status
    BY <1>1, <1>4 DEF RowDue, Row, IInv, TypeOK
  <2> QED
    BY <2>1, MapStutter
<1>5. ASSUME NEW s \in SubIds, TakeSendLock(s) \/ JobStep(s)
      PROVE  OutboxStep
  BY <1>5, JobOutbox
<1>6. CASE Crash
  <2>1. \A e \in EntryIds : row'[e].status = row[e].status
    BY <1>1, <1>6 DEF Crash, Row
  <2> QED
    BY <2>1, MapStutter
<1>7. CASE Restart
  <2>1. \A e \in EntryIds : row'[e].status =
          IF row[e].status = "sending" THEN "pending" ELSE row[e].status
    BY <1>1, <1>7, StatusOf, Defaults DEF Restart, IInv, RowsHaveSubs
  <2> QED
    BY <2>1, MapPutBack DEF IInv
<1>8. CASE UNCHANGED vars
  BY <1>8, MapStutter DEF vars
<1> QED
  BY <1>2, <1>3, <1>4, <1>5, <1>6, <1>7, <1>8 DEF Next

\* The subsystem implements the outbox: whatever the jobs, users, Telegram
\* and restarts do, one entry is in flight at a time, a delivered entry is
\* never taken again, and what failed or was withdrawn returns only as a
\* fresh entry of the queue.
THEOREM OutboxImplemented == Spec => ImplementsOutbox
<1>1. Init => Outbox!Init
  BY DEF Init, Outbox!Init, NoRow, LifeOf
<1>2. IInv /\ [Next]_vars
        => [Outbox!Next]_[e \in EntryIds |-> LifeOf(row[e].status)]
  BY StepOutbox DEF OutboxStep
<1> QED
  BY <1>1, <1>2, AlwaysIInv, PTL DEF Spec, ImplementsOutbox, Outbox!Spec
=============================================================================
