------------------------------ MODULE RssStore ------------------------------
(***************************************************************************)
(* The two RSS tables and what one transaction may do to their rows.       *)
(*                                                                         *)
(* A subscription stands for an rss_subscription record.  The feed URL is  *)
(* represented by feed_version, which update_subscription increments each  *)
(* time the URL changes; the keyword lists by the set of items they let    *)
(* through; next_check_at and next_retry_at by the Boolean "due" (the time *)
(* is NULL or already past); created_at by the value of a counter that     *)
(* grows with every insertion.                                             *)
(***************************************************************************)
EXTENDS Integers, Sequences, FiniteSets

CONSTANTS
  MaxSub,        \* bound: subscription ids are 1..MaxSub
  MaxEntry,      \* bound: entry ids are 1..MaxEntry
  MaxVersion,    \* bound: feed URL changes of one subscription
  MaxBirths,     \* bound: inserting transactions in one behaviour
  Items,         \* the articles a feed may list
  Linked,        \* those with a usable HTTP link
  Feeds,         \* the listings a feed may return, oldest item first
  Filters,       \* keyword configurations, each the set of items it accepts
  Policies,      \* the initial_policy values in use
  InitialCount,  \* initial_count of every subscription
  MaxAttempts    \* rss_max_send_attempts

ASSUME BoundsAssumption ==
  /\ MaxSub \in Nat \ {0} /\ MaxEntry \in Nat \ {0}
  /\ MaxVersion \in Nat /\ MaxBirths \in Nat /\ InitialCount \in Nat \ {0}

\* config.py: rss_max_send_attempts is an integer, at least one.
ASSUME AttemptsAssumption == MaxAttempts \in Nat \ {0}

ASSUME ContentAssumption ==
  /\ Items # {} /\ Linked \subseteq Items /\ Feeds \subseteq Seq(Items)
  /\ Filters # {} /\ Filters \subseteq SUBSET Items
  /\ Policies # {} /\ Policies \subseteq {"skip", "latest"}

SubIds == 1..MaxSub
EntryIds == 1..MaxEntry
Times == 0..MaxBirths
Versions == 0..MaxVersion
Attempts == 0..MaxAttempts

Statuses == {"absent", "pending", "sending", "sent", "failed", "skipped"}
Reasons == {"none", "keyword", "nolink", "baseline"}
Queued == {"pending", "sending"}

Subscription ==
  [live: BOOLEAN, enabled: BOOLEAN, version: Versions, initialized: BOOLEAN,
   policy: Policies, accepts: Filters, due: BOOLEAN, born: Times]

\* posts and unknown are history: how often (0, 1, or 2 for more) Telegram has
\* accepted this entry's message, and whether the answer to one of these
\* calls was lost.
Row ==
  [status: Statuses, sub: SubIds, version: Versions, item: Items,
   attempts: Attempts, reason: Reasons, due: BOOLEAN, born: Times,
   posts: 0..2, unknown: BOOLEAN]

NoSub ==
  [live |-> FALSE, enabled |-> FALSE, version |-> 0, initialized |-> FALSE,
   policy |-> CHOOSE p \in Policies : TRUE,
   accepts |-> CHOOSE f \in Filters : TRUE, due |-> FALSE, born |-> 0]

NoRow ==
  [status |-> "absent", sub |-> 1, version |-> 0,
   item |-> CHOOSE i \in Items : TRUE, attempts |-> 0, reason |-> "none",
   due |-> TRUE, born |-> 0, posts |-> 0, unknown |-> FALSE]

\* Without AUTOINCREMENT, SQLite gives a new row the largest id in use plus
\* one: the id of a deleted row can be given out again.
IsLargest(m, used) == m \in {0} \cup used /\ \A i \in used : i <= m

-----------------------------------------------------------------------------
(* What the statements of service.py and worker.py do to one row.          *)

\* keyword_skip_reason(sub, entry) is None.
Accepted(s, r) == r.item \in s.accepts

\* Fault: entries that already failed are left for "retry failed".
SourceChangedKeepsFailed(r) ==
  IF r.status \in Queued THEN [r EXCEPT !.status = "skipped", !.due = TRUE]
                         ELSE r

\* update_subscription with another feed_url: skip_reason is left as it is.
SourceChanged(r) ==
  IF r.status \in {"pending", "sending", "failed"}
    THEN [r EXCEPT !.status = "skipped", !.due = TRUE] ELSE r

\* _tighten_pending: a queued entry the new keywords reject is withdrawn.
Tightened(s, r) ==
  IF r.status = "pending" /\ ~Accepted(s, r)
    THEN [r EXCEPT !.status = "skipped", !.reason = "keyword", !.due = TRUE]
    ELSE r

\* update_subscription writes the submitted fields; another URL is a new feed.
Revised(s, newFeed, on, accepts, policy) ==
  [s EXCEPT !.version = IF newFeed THEN @ + 1 ELSE @,
            !.initialized = @ /\ ~newFeed, !.enabled = on,
            !.accepts = accepts, !.policy = policy, !.due = TRUE]

\* What becomes of an entry when subscription s is revised to t: first the
\* old feed's entries end, then the rejected ones are withdrawn.
RowRevised(s, t, r) ==
  LET ended == IF t.version # s.version THEN SourceChanged(r) ELSE r
  IN IF t.accepts # s.accepts THEN Tightened(t, ended) ELSE ended

\* Fault: nothing is recovered.
NotRecovered(r) == r

\* _recover_sending: the outcome of the last send is unknown, queue it again.
Recovered(r) ==
  IF r.status = "sending" THEN [r EXCEPT !.status = "pending", !.due = TRUE]
                          ELSE r

\* Fault: an entry whose post is under way is reset too.
RetriedUnsent(r) ==
  IF r.status \in {"failed", "sending"}
    THEN [r EXCEPT !.status = "pending", !.attempts = 0, !.due = TRUE] ELSE r

\* retry_failed.
Retried(r) ==
  IF r.status = "failed"
    THEN [r EXCEPT !.status = "pending", !.attempts = 0, !.due = TRUE] ELSE r

\* Fault: every entry the keywords accept is put back, sent ones included.
ReevaluatedAll(s, r) ==
  IF r.status \in {"skipped", "sent"} /\ r.item \in Linked /\ Accepted(s, r)
    THEN [r EXCEPT !.status = "pending", !.reason = "none", !.attempts = 0]
    ELSE r

\* reevaluate_keywords.
Reevaluated(s, r) ==
  IF r.status # "skipped" \/ r.reason = "baseline" \/ r.item \notin Linked
    THEN r
  ELSE IF ~Accepted(s, r)
    THEN [r EXCEPT !.reason = "keyword"]
    ELSE [r EXCEPT !.status = "pending", !.reason = "none", !.attempts = 0,
                   !.due = TRUE]

\* Why _check_feed does not queue an item it sees for the first time.
SkipReason(s, item, selected) ==
  IF item \notin Linked THEN "nolink"
  ELSE IF item \notin s.accepts THEN "keyword"
  ELSE IF s.initialized \/ (s.policy = "latest" /\ item \in selected)
    THEN "none" ELSE "baseline"

NewRow(id, s, item, selected, time) ==
  LET reason == SkipReason(s, item, selected)
  IN [NoRow EXCEPT !.status = IF reason = "none" THEN "pending" ELSE "skipped",
                   !.sub = id, !.version = s.version, !.item = item,
                   !.reason = reason, !.born = time]
=============================================================================
