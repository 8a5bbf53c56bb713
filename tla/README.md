# TLA+ models and proofs of tgqq-forwarder

tgqq-forwarder reads Telegram channels with user accounts and forwards what
matches the user's rules to Telegram chats, to QQ (the official bot API) and to
Weixin contacts. It also polls RSS feeds and posts their articles into Telegram
channels. It is one Python process on one asyncio event loop with an SQLite
database: nothing runs in parallel, but every `await` is a place where another
task may change what was just read. That is what these specifications are about.

## 1. Inventory

| Part | State it keeps | Operations | Hard behaviour |
|---|---|---|---|
| RSS store (`rss/service.py`, `storage/models.py`) | tables `rss_subscription`, `rss_entry` | create, update, enable, delete | an update may replace the feed or withdraw queued entries while a job works on them; ids are given out again after deletion |
| RSS worker (`rss/worker.py`) | `_jobs`, `_locks`, `_wake`, `_check_requests`, `_send_lock`; the row states of its entries | scheduler, pass of a subscription (recover, check, publish), `trigger_check`, `retry_failed`, `reevaluate_keywords`, start, stop | fetch and post run outside every subscription lock; lost answers; crash between claim and answer; retries with back-off; one global send lock |
| RSS fetcher, formatting, translator | none (a client) | fetch with ETag, keyword test, rendering, translation with retries | redirects, timeouts |
| Forward queue (`worker/forward_queue.py`) | `asyncio.Queue`, `_recent_message_keys`, the consumer task | enqueue, process, deliver, start, stop | queue limit, errors in the consumer, the same post seen by several accounts, rules edited during a delivery |
| Rules (`rules/service.py`, `rules/matcher.py`) | tables of rules and targets, pause setting | create or merge, update, duplicate, match | a merge replaces rows that a delivery is about to read |
| Delivery router (`channels/router.py`) | none | pick the sender of a target, report readiness | a target whose channel is not ready |
| Weixin channel (`weixin/service.py`, `credentials.py`, `login.py`) | credentials on disk, context tokens, stale marks, parked messages, login session, recent ids | login, logout, poll, send, park, flush | a token lives for a few messages; the flush of parked messages awaits the network; logout races a poll in flight |
| Telegram listener (`telegram_user/client.py`, `accounts.py`) | clients of the accounts and their tasks | start, stop, reconnect, handle a message | echo of own messages; account restart |
| Album buffer (`telegram_user/album_buffer.py`) | groups and their timers | add a part, flush after a delay, flush all on stop | a part that arrives while the timer fires |
| Outbound registry (`telegram_outbound/registry.py`, `delivery.py`) | recent ids, marks of texts about to be sent | mark, consume, remember, prune | the echo arrives before the call that sent the message returns |
| QQ sender (`qq_official/`) | access token | send, refresh, upload media | refresh under concurrent sends; partial failure of media |
| Application (`main.py`) | the tasks of all the above | start, stop, `can_publish` | the order of starting and stopping |
| Web panel, admin bot, media cleanup, configuration | sessions; files | routes, commands, deletion by age | mostly I/O around the parts above |

How they interact: the Telegram listener calls `AlbumBuffer.handle`, which calls
`ForwardQueue.enqueue`; the queue's consumer asks `RuleService` for the matching
rules and `DeliveryRouter` for the sender of each target; the Telegram sender
registers what it sent with the outbound registry, which the listener consults;
the Weixin service parks what it cannot send and flushes it when the contact
writes. The RSS worker shares only the database and the Telegram user client
with these: it posts into a channel, and the listener may then forward that post
like any other.

What makes each part correct:

* RSS: an article is posted to the right channel and, unless an answer was lost,
  once; a replaced feed's articles are never posted; nothing is left in
  "sending" by a process that still runs; every queued article ends; a manual
  check leads to a fetch.
* Forward queue: every message accepted by the queue is dealt with; each target
  due to it is tried, whatever fails for the others; copies seen by several
  accounts count as one; nothing goes to a target that is switched off.
* Weixin: a parked message is sent, or dropped for one of the documented reasons
  (limit, age, hard error), and never silently; after a logout the token is gone
  from memory and disk; a restart skips no message and repeats only those whose
  position was not saved.
* Albums and echoes: each part of an album is forwarded exactly once; a message
  the service sent itself is not forwarded, and what others write is.
* QQ: what the audit refused is not sent again; a part is shown twice only when an
  answer was lost; a request refused for its token is repeated with a newer one;
  requests that meet at the lock renew the token once between them, and all of them
  get away from it.
* Rules: adding a rule, merged with others or not, loses nothing that was
  forwarded before.

The hazards of `PROJECT.json` list, at their lines, what can go wrong in each.

## 2. Plan

1. `RssStore`, `RssWorker` with the abstract `RssOutbox` and `RssProperties`
   (done: modelled, checked, refinement and safety proved).
2. `WeixinPending` (done: modelled, checked, all its safety proved): sending with
   retries, parking and flushing.
3. `ForwardRules`, `ForwardQueue` (done: modelled, checked, all its safety
   proved): the rules and every operation on them; the queue and its consumer.
4. `QQToken`, `QQSender`, `TelegramOutbound`, composed by `Delivery` (done:
   modelled, checked, all its safety proved): the senders behind the router.
5. `TelegramListener`, `QQListener`, `RecentIds`, `WeixinSession`, composed by
   `Sources` (done: modelled, checked, all its safety proved): where messages come
   from.
6. The history of the RSS entries (done): `StaleFetchDiscarded`,
   `RecoversOnlyOrphans`, and the properties that hold only without certain
   operations (`QueuedFromCurrentFeed`, `OwnChannelOnly`, `DuplicateNeedsLostAnswer`).
   With it every safety property that a passing run checks is a theorem.

## 3. The RSS modules

`RssStore` holds the two tables' records and what a transaction may do to a row;
`RssWorker` EXTENDS it with the process: one action for every stretch of code
between two awaits at which another task may run. `RssProperties` states what
must hold, `RssOutbox` is the abstract specification, `MCRss` the instances,
`RssProofs` the theorems about the state and the refinement, `RssHistoryProofs`
those about feeds, channels and posts.

| Model | Code |
|---|---|
| `sub`, `row` | the tables; a record per id, `live` / status `"absent"` for no record |
| `version` | the feed URL: incremented by each change of it |
| `born` | `created_at`: a counter of inserting transactions |
| `due` | `next_check_at` (`next_retry_at`) is NULL or past |
| `accepts` | the keyword lists, as the set of items they let through |
| `pc[s]` | where the job `_jobs[s]` stands; `"idle"`: no live task |
| `seen[s]`, `todo[s]`, `mine[s]` | local variables of the pass: the subscription it read and `check_requested`; the ids of `_publish_pending`; the claim of `_send_one` |
| `sendLock` | the holder of `_send_lock` |
| `req`, `scan` | `_check_requests`; the ids the scheduler read and has not scheduled |
| `posts`, `unknown`, `asked` | history only: how often Telegram accepted a row, whether an answer was lost, checks asked for and not begun |

`JobBegin`, `JobRead`, `JobRecover`, `CheckBegin`, `FetchOk`/`FetchEmpty`,
`ListPending`, `Gate`, `TakeSendLock`, `Claim`, `TelegramAccepts`, `ConfirmSent`,
`SendRejected`, `SendTransient` follow one pass of `process_subscription`. The
post is two steps because Telegram's acceptance and the arrival of the answer
are separate events: `SendTransient` from `"posted"` is the lost answer. The
outcome is written back only if the row still is the one that was claimed
(`_same_sending`). `Crash` stands for `stop()` (which cancels the tasks) as well as
for a killed process; `Restart` is `start()` with its recovery.

The definitions whose comment starts with "Fault:" are bugs the code does not
have. No action uses them; each shows that the property named beside it in
`PROJECT.json` would notice.

### Runs and bounds

| Run | Instance | Question | States |
|---|---|---|---|
| `rss_source` | one subscription, two entries, two items, one change of URL, two insertions, two attempts; every operation but re-evaluation | are claims owned, duplicates explained, old feeds' entries and stale fetches kept out, manual checks honoured | about 270,000 |
| `rss_revise` | the same, no change of URL, both initial policies, one item without a link; edits, retries, re-evaluation | can keyword operations post something again (that they revive nothing final is proved: `OutboxImplemented`) | about 21,000 |
| `rss_two` | two subscriptions, one attempt, users only create | does recovery touch only orphans; does the queue drain | about 180,000 |
| `rss_old_feed` | one subscription, one entry; change of URL and re-evaluation | violation, section 9 | |
| `rss_reuse` | two subscriptions, one entry id; creation and deletion | violation, section 9 | |

Two entries are needed for a pass that is in the middle of its list, and for ids
that are given out again; two items for keywords that tell them apart; two
attempts for one retry below and one at the limit; two insertions for a deletion
followed by another creation or another fetch (`rss_two` has four, two
subscriptions and a fetch for each). One change of URL separates old and new;
a second would only repeat it. `rss_source` leaves re-evaluation to `rss_revise`
because with a change of URL it violates `QueuedFromCurrentFeed` (section 9).
Every insertion counts against `MaxBirths`, so with that bound spent a fetch
cannot end with new articles (it can still fail, answer 304 or list known ones).

### Fairness

Weak fairness of the scheduler and of each job's next step: the event loop runs
every ready task, and each awaited call ends (the fetch and the post have
timeouts). Strong fairness of `TakeSendLock`: `asyncio.Lock` serves its waiters in
order, so a waiting job is served although the lock is free only now and then.
Weak fairness of `RowDue`: a back-off elapses. Nothing is assumed of users, of
Telegram's answers, of restarts, or of the check interval.

## 4. The Weixin modules

`WeixinPending` models the sending half of `weixin/service.py` with
`WEIXIN_PENDING_SEND_ENABLED` on, and as much of the session as sending depends
on. `WeixinProperties` states what must hold (and the invariant of the proofs),
`MCWeixin` the instances, `WeixinProofs` the theorems.

| Model | Code |
|---|---|
| `loggedIn`, `token`, `polling` | `_state` has credentials; the contacts with a context token; `get_updates` is awaited |
| `file` | `credentials.json`, read by `start` |
| `pending[u]` | `_pending[u]`, oldest first |
| `aged` | parked longer than the TTL; `Age` is time passing |
| `lane["direct"]`, `lane["flush"]` | the progress of `_send_now`: message, part of it, attempts made, whether a media item failed |
| `flushing`, `batch` | the contact whose flush holds `_flush_lock`, and its snapshot from the message being sent on |
| `fate` | history: what became of each message |

A message is a sequence of parts: text chunks, media to upload, media items.
`Verdict` says what one reply means for the whole message, as `_send_now` and
`_send_items` compute it: `"prepare"` is error -2 (tried again with delays, then
parked), `"expired"` is -14, `"refused"` everything else. `DirectSend`,
`DirectReply` and `DirectTimeout` are the forward queue's consumer inside
`send`; the timeout is the router's (`router.py:_call`). `FlushStart`,
`FlushReply` and the operators between them are `_flush_pending` over its
snapshot, including the write at its end; all flushes take turns under
`_flush_lock`, so there is one flush lane. `Login`, `Logout`, `Poll`, `Inbound`,
`PollEnds` and `Restart` are the session's events; a poll still under way after
a logout may report tokens. Every server call is awaited, so a step of the model
is the code between two replies.

| Run | Instance | Question | States |
|---|---|---|---|
| `weixin_pending` | one contact, three messages (text, media and both), a limit of two, one retry | are parked messages held, in order, within the limit, never sent again, never sent when too old | about 41,000 |
| `weixin_two` | two contacts, three messages, a limit of one | does every parked message end | about 103,000 |
| `weixin_lost_parked`, `weixin_offline` | one contact | violations, section 9 | |

Three messages and a limit of two are the least with which a flush is in the
middle of its batch while the limit drops a message of it; two contacts with a
limit of one compete for the lock. One retry tells the last attempt from the
others.

Fairness (only for `ParkedEnds`): strong fairness of `FlushStart` for each
contact, because the lock is served in order and the periodic loop visits every
contact; weak fairness of the replies to a flush, because every call of the
client times out; weak fairness of `Age`, because time passes. Nothing is assumed
of what the server answers, of contacts or of users.

## 5. The forward modules

`ForwardRules` holds the two tables and the operations of `ForwardRuleService`;
`ForwardQueue` EXTENDS it with the queue, its consumer and the pause setting.

| Model | Code |
|---|---|
| `rule[i]` | the row of `forwardrule` with id `i` and its rows of `forward_target`: `to` all of them, `on` those switched on, `first` the legacy columns |
| `words`, `shape` | the include pattern as a set of keywords (`{}`: none); every other field |
| `born`, `births` | tells a rule from a later one with the same id: SQLite gives ids out again |
| `queue`, `recent`, `paused` | `asyncio.Queue`, `_recent_message_keys`, the setting |
| `at` | the await at which the consumer is |
| `hand` | its local variables: the message, the rules still to do as they were read, the rule in turn, its targets left, the target of the call |
| `fate`, `handled`, `forgot`, `offered`, `steady` | history only |

A copy is a post as one account receives it; `Post` maps copies of one post to
the same value. One message goes through `Take`, `CheckPaused`, `Match`, then for
each rule `ReadTargets` and for each target `SkipTarget` (an echo, or QQ's
words) or `StartSend`, `AuditRefuses` (QQ's audit refuses the text and the link
is sent alone) and `SendEnds`; `Error` is a database error at any of the three
reads. Between any two of these, users may do anything in `RuleOp`, and the
process may end (`Restart`): nothing of the queue is stored.

The run `forward` (about 103,000 states) has two copies of one post by two
accounts, two targets, a queue of one, two rule ids, one rule besides the first,
two changes by users or restarts, and both kinds of initial rule: one from before
the target table (no rows) and one with keywords. Two copies are needed for a
duplicate and to fill the queue; two ids for a message with two rules, a merge
and an id given out again; two changes for "delete, then create". The requests
include one that merges with an old rule, one with a target switched off, and
one for a single account.

Fairness (only for `Processed`): weak fairness of the consumer: the event loop
runs it, database calls end, and each send is under the router's timeout. `Error`
has no fairness: it may happen, and then must not end the consumer.

## 6. The senders

`QQToken` is the access token with its lock; `QQSender` EXTENDS it with one
delivery at a time; `TelegramOutbound` has the two Telegram senders, the registry
and the listeners' check for own messages; `Delivery` composes them,
`DeliveryProperties` states what they promise and `DeliveryProofs` proves it. The forward
queue has one consumer, so the router has one delivery under way; the two
senders share nothing else, and a behaviour has one `channel` enabled.

| Model | Code |
|---|---|
| `token`, `due`, `revoked` | `_http._token`, numbered as issued; less than 60 s left of it; the tokens QQ refuses |
| `tokenLock` | `_token_lock`: its holder, then its waiters |
| `request[r]` | where `_request_with_token_retry` of the sender or of botpy's gateway is: at the lock, in `update_access_token`, sent, sent again; `before` and `force` of `_refresh_access_token`; `arrived` and `refusedWith` are history: the token when it came to the lock, and the one it was refused with |
| `job`, `send` | the message; the part in turn, its attempt, upload or post (`plain`: after Markdown was refused), whether the file's name replaces it, whether it is the router's second call |
| `sessionKnown`, `gone` | a `msg_id` of the channel is cached; the cleanup deleted the media files |
| `accepted`, `audited`, `lostAnswer` | history: how often QQ took each part, what its audit refused, whether an answer was lost |
| `chat`, `heard`, `handedOn` | the messages of one chat; how far each account's listener has got; what it handed on |
| `entries`, `marks` | `_entries` and `_outgoing` of `SentMessageRegistry` |
| `call` | the delivery under way: sender, parts left, the message Telegram made of the part |
| `answered`, `forgotten`, `spoiled` | history of messages and of marks |

One attempt is `Try` (the file is read, the request begins), the steps of
`QQToken`, and one of `Uploaded`, `Posted`, `MarkdownRefused`, `RequestFails`,
`AuditRefuses`, `AnswerLost`, `NoToken`. `Fail` is what an error leads to
through `_qq_retry`, the upload's fallback and `_deliver_qq`, in that order.
`Accept` and `Return` are two steps, so that a listener may hear a message
before, between and after them. Group and user messages are one scene, guild
channels and their private messages the other: they differ in whether media are
uploaded and whether a cached `msg_id` is needed.

The run `delivery` (about 501,000 states): two deliveries one after the other, each
a group message with a text and a file, for which the link may stand, or a channel
message with a file and an image and no text; two attempts; the token runs out or is
revoked twice, and every renewal by the gateway may fail besides. In Telegram: two
accounts in one chat, both watching; deliveries by the default account in two parts
and by the bot; someone else, and the owner of the account, write the same text. Two
attempts tell the last from the others. Two troubles let both requesters be refused,
or one be refused and the other find the token due, while one of them holds the
lock; the second delivery meets the lock that the first, cut off by the time-out,
held or waited for. Two messages in the chat and two deliveries make one mark serve
for two messages. The run has no account whose listener missed messages: Telegram
delivers each message to each connected client.

Fairness (only for `DeliveryEnds`): requests to QQ and renewals end, because botpy
has timeouts; a waiter at the lock gets its turn. Nothing is assumed of the router's
timeout, although it would end every delivery: the run shows that a delivery ends
without it, and that no request stays at the lock when the time-out, or a failed
renewal, ends the one before it.

## 7. The sources

`TelegramListener` is one account: its listeners one after another, their handlers
and album buffers. `QQListener` is the QQ client's events, `WeixinSession` the
receiving half of the Weixin channel with the QR login, `RecentIds` the duplicate
filter that both keep. `Sources` composes them; a behaviour has one enabled,
because all they share is `enqueue`, which does not wait. `SourceProperties`
states what they promise, `SourceProofs` proves it of QQ and Weixin and
`TelegramProofs` of Telegram.

| Model | Code |
|---|---|
| `watch`, `created`, `current` | where `start` or `_watch_account` is; listeners made; the one in `_listeners` |
| `connected`, `handlers` | the clients that get messages; the `_handle_new_message` under way |
| `group`, `timers` | `_groups` and `_tasks` of each listener's album buffer |
| `tgQueue`, `qqHanded`, `wxHandled` | what was handed to the forward queue |
| `qqRecent`, `wxRecent` | `_recent_message_ids`, `_recent_ids` |
| `creds`, `cursor`, `file` | `state.credentials`, `state.get_updates_buf`, `credentials.json` |
| `login`, `expiries` | the QR session, `_qr_expired_count` |
| `loop` | where `_run` waits; `stale`: the QR session it asks about has been replaced; the messages of the answer still to be handled |
| `asking` | the panel's `begin_login` waits for its QR code |
| `wxForgotten`, `wxRewound`, `savedEarly`, `halfStarted` | history: ids the filter dropped or lost; messages the position went back behind; a send saved the position in the middle of an answer; listeners whose start failed half-way |

`StartListener` adds the handler before `get_me` is answered; `GetMeFails` leaves
that client connected and in no table. `ReplaceListener` is the watch after a
disconnection (its `stop` flushes the buffer without a wait). A handler holds a
message from its arrival to the end of its download, so parts reach the buffer
in any order, also that of a listener already stopped. In `WeixinSession` every
wait of the loop is a place: the panel may begin a login or log out, a send may
save the state, and the process may restart at each. Answers about a QR code
that was replaced are applied as the code does, to the session that is current
by then. `Persist` may fail, and so may the removal of the file.

The run `sources` (about 534,000 states): an album of two parts with a single
message between them, and two listeners, so that one can be replaced or start
half-way beside the other; two QQ messages in up to four events with a filter of
one id, so that it forgets; two Weixin messages with the same filter, one refresh
of the QR code and two restarts, so that one which loses a position is followed by
one that finds it.

Fairness (only for `AlbumsEnd`): sleeping timers end. Nothing is assumed of the
network, of users, of the panel, or of QR codes.

Exceptions in the properties are what the code really does: `TelegramOnce` allows
doubles after a start that failed half-way, `EventsOnce` a QQ message the filter had
forgotten and a Weixin message it had forgotten *and* behind which the position had
gone back, `SavedIsHandled` a send that saved the position in the middle of an
answer, `LogoutLasts` a file that could not be removed. `wxRewound` holds the
messages that the position went back behind: at a logout those received so far, at a
restart those received after the position in the file. A restart that finds the
position saved excuses no repetition. Section 9 describes each.

## 8. What is proved

`RssProofs` proves for every number of subscriptions, entries, items, feeds and
attempts, with every operation allowed:

* `TypeCorrect`: `Spec => []TypeOK`. `attempts \in 0..MaxAttempts` is part of it:
  no sequence of retries and recoveries exceeds the limit.
* `SendingOwned`: `Spec => []SendingIsOwned`. The property is not inductive: after
  a crash nothing but the shape of the tables tells that `Restart` reaches every
  row left `"sending"`, and nothing but the lock that two jobs never claim the same
  row. `IInv` adds that the lock is held exactly between acquisition and release
  (`LockHeld`), that a stopped process has no jobs (`DownMeansIdle`) and that a
  row's subscription exists (`RowsHaveSubs`). The lemmas go by actor: what a step
  without the lock may do (`GentleStep`, `UserIInv`, `SchedulerIInv`,
  `UnlockedIInv`), the steps under the lock (`LockedIInv`), the crash (`CrashIInv`).
* `OutboxImplemented`: `Spec => ImplementsOutbox`, the refinement of `RssOutbox`,
  with one lemma per kind of step of the abstract specification.

`RssHistoryProofs` continues with what the rows have been through, again for every
number of subscriptions, entries, items, feeds and attempts:

* `StaleFetchAlways`, with every operation: a fetch whose URL was changed meanwhile
  inserts nothing and moves no check.
* `CurrentFeedOnly`: `[]QueuedFromCurrentFeed` if users do not re-evaluate. The
  property is inductive but for the jobs, which `IInv` gives.
* `OwnChannel` and `RecoveryIsOwn`: `[]OwnChannelOnly` and `RecoversOnlyOrphans` under
  `NoReuse` (nobody deletes, or there is one subscription only). A job's list of
  entries is read before it waits, so an id on it must still be of its subscription.
* `DuplicatesExplained`: `[]DuplicateNeedsLostAnswer` under `NoReuse` and `NoRevival`
  (users do not both change a feed's URL and re-evaluate). The property says
  nothing of a row that is about to be posted, so `HInv` adds that a row posted
  with no answer lost was posted once and is sent, withdrawn for good, or in the
  hands of the job that posted it (`PostedOnce`), that the claim in hand is of a row
  not posted yet (`ClaimsUnposted`), and that births tell a row from an earlier one
  of the same id (`Births`).

The hypotheses name operations because the code breaks the properties with them:
`rss_old_feed` is an instance in which users do re-evaluate after a change of URL,
`rss_reuse` one without `NoReuse` (section 9). A duplicate comes
about by deletions as well: while one job posts the entry of another
subscription, the job of that one starts, takes the entry for one left behind, and
posts it again.

`WeixinProofs` proves, for any contacts, messages, parts, limit and retries,
`TypeCorrect`, `LimitKept`, `ParkedHeld`, `OrderKept`, `DeliveredOnceAlways` and
`AgedNeverSent`. None but the type is inductive alone. A flush works on a
snapshot and writes back what is left of it, so the limit, the order and the
accounting of the queue rest on the batch: it is within the limit
(`BatchWithinLimit`), holds every message that counts as parked
(`BatchHasParked`), belongs to one contact (`Owned`), and what it and the queues
hold has not been delivered (`QueueFates`, `BatchFates`). `DirectTaken` and
`NewLast` say that messages come in the order of their numbers, without which
`Append` would not keep a queue increasing. The lemmas go by operation on a
queue, then by action. `FreshFacts` (what is left of a batch once the expired
are dropped) uses that a set of naturals has a least element.

`ForwardProofs` proves, for any messages, rules, requests and queue size and
every user operation, `TypeCorrect`, `AddingKeeps`, `OnlyOfferedAlways`,
`NothingSkippedAlways`, `DuplicatesJustified` and `PostOnceAlways`. The first two
need only types. The others rest on three invariants:

* `HandInv`: two rules never have the same birth (`BirthsUnique`), a snapshot in
  hand is of the rule that still has its id, or of one that is gone
  (`SnapshotsAgree`), what is switched on now was recorded as offered (`Watched`),
  the targets left were offered (`LeftOffered`), and each target due all the time
  is handled or still to come (`SteadyToCome`). Without births a rule created
  under a deleted rule's id could not be told from an edit.
* `FateInv`: the consumer holds the one message that is taken (`Placed`), and
  each key has a copy that explains it (`KeysExplained`).
* `KeyInv`: a post handled has its key, or had it.

`DeliveryProofs` proves, for any tasks that share the token, any jobs, attempts,
accounts, texts and messages, `TypeCorrect`, `RetriedNewer`, `OneRenewalAlways`,
`AuditFinalAlways`, `OnceUnlessLost`, `CompleteAlways`, `OwnNotForwarded` and
`OthersAlwaysHeard`. Its invariant has a part for each module:

* `TokenInv`: whoever renews the token compared it, after its wait, with the one in
  use when it came to the lock, and was refused or found it due (`ComparesArrival`);
  it is at the head of the lock (`HolderRenews`), so that nobody else renews at once
  and what it compared stays true; a refused token is not newer than the one a
  request means to replace (`RequestAges`). `RequestMoves` is the one lemma behind
  every step of a request that renews nothing.
* `SendInv`: the parts before the present one are shown and those after it are not
  (`ShownSoFar`), which is also why the link is not yet; the present one is not,
  unless an answer was lost (`OnceSoFar`); what the audit refused are uploads that
  were replaced, or what the link stands for (`RefusedSoFar`); and the request of
  the sender belongs to a delivery (`RequestsOfDelivery`). The lemmas go by what a
  step does to the delivery: it stays, it turns, it ends.
* `TgInv`: a message whose call returned is in the registry or was forgotten, and a
  marked text is among the marks or was used (`ChatExplained`, `CallPlaced`).

`SourceProofs` proves, for any filter size, numbers of messages, events, refreshes
and restarts, `EventsHandedOnce`, `RestartSkipsNone` and `LogoutIsFinal`. `QQInv`
says that every message with a handler under way or done (`Started`) is in the
filter or was forgotten, and that a second handler means forgotten: the filter
notes an id before the download, so overlapping events start one handler.
`PositionsHandled` follows the position from the loop into memory and into the
file: the position in memory runs ahead of the messages handled, but only by those
of the answer in hand (`Unhandled`), and it is saved when there are none.
`FilterHandled` is to Weixin what `QQInv` is to QQ, with the message in hand noted
but not yet handled. `RewoundInv` adds where the position was: what was handled is
before the position in memory, or, while an answer is in hand, before its next
message, all of them before that position; or the position went back behind it, and
only then does a message come again (`PositionMoves`). `LoopMoves` is the one lemma behind every step that handles
no message, `KeptIs` and `NotedIs` say what the filter does. `QrInv` bounds the
refresh count: it passes the limit at most by the expiry that makes the loop give
up and, once a request of the panel that was on its way brings another code, by
the expiry of that; the request is answered then, and any other starts the count
again.

`TelegramProofs` proves, for any messages, albums and number of listeners,
`TelegramHandedOnce`, `AlbumsStayWhole`, and with `SourceProofs` the type invariant
(`SourcesTyped`). Its invariant `TgInv` says that the manager holds the last
listener it created, or none (`WatchPlaced`); that no other listener gets messages
unless a start failed half-way (`LoneListener`), so that a message has one handler;
that it is in one place from then on, a handler, a group or a message of the
queue (`OnePlace`), also while a listener that was stopped still downloads; that a
group that waits has exactly the timer of its last part (`BuffersExact`); and that
what is in the queue is in order. `StepKinds` sorts the steps by what they do to
the buffers, `HandsOn` is what a timer and a flush have in common. What sorting an
album returns is proved too (`MergedIs`): that every sequence of numbers has a
sorting permutation would be an induction over its length; instead the least
length without one is led to a contradiction, by inserting the last element into
the sorting of those before it (`LeastIs`, `NextSorted`, `SortingExists`).
`SequenceOfSet` says what `SetToSeq` makes of a finite set.

The assumptions are those of the modules: positive bounds, `Linked` and the
filters are sets of items, feeds are sequences of items, `MaxAttempts >= 1` (the
validation in `config.py`), at least one part per message, initial rules with
birth 1.

Only model-checked: `QueueDrains`, `ManualCheckHonoured`, `ParkedEnds`, `Processed`,
`DeliveryEnds` and `AlbumsEnd`: liveness under fairness is out of the prover's
reach. What recursive definitions compute for every input, and ENABLED, cannot be
proved with the installed provers either; no module proved about uses them.

## 9. Where the code and its comments disagree

* `rss_old_feed`: changing the URL skips the old feed's entries without a reason
  (`service.py:98`, "they will not be sent to the new source's channel by
  mistake"), and `reevaluate_keywords` (`worker.py:168`) takes every skipped entry
  without the baseline reason for one that the keywords had rejected
  (`worker.py:145` says only those are sent). Create with entries queued, change
  the URL, re-evaluate: the old feed's entry is pending again. The same instance
  violates `DuplicateNeedsLostAnswer` as well: the URL is
  changed while the entry is being sent, which makes it skipped; the post succeeds,
  but is not recorded because the row no longer is the one that was claimed;
  re-evaluation puts it back and it is posted again, with no answer lost and no
  crash. The README (line 35) promises no repeated posts in normal circumstances.
* `rss_reuse`: `_send_one` loads a listed id again after its wait for the send
  lock (`worker.py:557`) and tests the status but not the subscription. Ids are
  given out again by SQLite (no AUTOINCREMENT). If the subscription is deleted
  and one is created again in the meantime, the job posts the new subscription's
  entry, to the channel read from its own. The comment at `worker.py:550` says a
  deleted entry is skipped.

* `weixin_lost_parked`: `_flush_pending` takes a snapshot of a contact's messages
  and at its end replaces the list by what it kept (`weixin/service.py:881`). A
  message that `send` appended meanwhile is gone, although its caller was told
  that it is parked. The README (line 373) says that messages that fail are not
  discarded but parked.
* `weixin_offline`: when nobody is logged in `_send_now` raises a plain
  `WeixinError`, which the flush takes for a hard error and drops the message
  (`weixin/service.py:876`). The docstring (line 846) says that they are kept as
  they are while the token is not available. An expired session, which logs out,
  leads there as well.

Remarks that no run states:

* RSS: the pause is read before the wait for the send lock, so a post may start
  after a pause was set. A first-check entry that also misses the keywords is
  stored with the keyword reason, so a later re-evaluation publishes it although
  it belongs to the baseline.
* Weixin: a message of several chunks that was delivered in part is parked and
  sent again whole. A direct message overtakes older ones still parked. A
  message with media only that meets -2 is not parked. `store.save` does not write
  the stale mark of a token nor its time.
* Weixin session: a send that saves the state in the middle of an answer saves the
  new position too, so a crash then loses the rest of the answer
  (`service.py:466`, 811, 818). The comment at `credentials.py:8` says that with the
  saved position a restart does not consume old messages again; a process that ends
  after a message was handled and before the end of its answer (`service.py:483`), or
  that could not write the file, does, with an empty filter. A logout while `get_updates` is under way is
  followed by the saving of the answer's position, which creates the file again
  with an empty token; the comment at `service.py:492` says that this residue is
  avoided. A QR code confirmed while its status was being asked logs in after a
  logout. An answer "expired" about a QR code that was replaced marks the new one
  expired (`service.py:361`). After the last refresh the loop sleeps 60 s and then
  drops the session, even one the administrator asked for meanwhile, and starts
  refreshing again (`service.py:440-445`), although the README (line 444)
  and the message at `service.py:367` say that it stops; no property says that a
  channel logged out has a code to scan, or that it stops having one. `begin_login` while logged in shows a QR code that nobody asks about. An
  error while the file is removed or saved is only logged.
* Telegram listeners: `get_me` failing after the handler was added leaves a
  client that goes on listening in no table, and the next start adds another
  (`accounts.py:34` says one listener per account). An account that fails at the
  first start is not tried again. Albums flushed by a stop are queued just before
  the queue's consumer is cancelled. `_merge` joins media paths and media types
  apart, and a part too large to download has a type and no path, so that types
  no longer belong to their paths.
* Own messages: one heard before its call returned is forwarded if a bot or
  another account sent it, or if it is a later part of a delivery (README line
  44). A mark left because the id was found first can swallow the owner's own
  message of the same text within 30 s. While the default account reconnects, a
  target without an account is served by another one.
* QQ: two requests refused with the same token renew it twice if the second fails
  after the first renewal (`sender.py:144` says once). A medium that the cleanup
  deleted is tried until the attempts are used up and then fails the delivery,
  also the parts after it. The branch for groups that retries without a `msg_id`
  (`sender.py:396-403`) is never taken: their payloads have none. The id of the
  last message of a chat is cached before the duplicate check, so a repeated old
  event makes it older.
* Start and stop: the queue and the listeners run before the Weixin channel has
  loaded its credentials, so that an early message for Weixin fails as not logged
  in.
* Forward: the key of a post is registered before the rules are matched
  (`forward_queue.py:191`), so a rule for account B alone is not applied to a post
  that account A saw first, and an error in matching loses both copies. A rule
  deleted between `matching_rules` and `targets_for` has no rows, so the message
  still goes to its legacy target, even one that was switched off
  (`rules/service.py:61-71`); if its id was given out again, the old rule's
  message goes to the new rule's targets. A merge takes the switches of the
  request. Two rules with the same target both send. A `CancelledError` raised
  from within a send would end the consumer for good: the supervisor restarts it
  only after `_run` raises something else, which it never does.

## 10. Not modelled

`test_send_latest` and `preview` write no rows and are left out, as are the cached
translation, failure counters, ETags and the settings that switch the whole RSS
subsystem off. Unexpected exceptions inside a pass (a database error) end a job
in the code; the model has only the expected one (a deleted subscription). Feed
contents are choices from a small set: parsing, rendering and HTTP are not
modelled. Of the forward queue, the text and its formatting, the forward log,
priorities and counters are left out: nothing of them is read back. Of the Weixin
channel, the stale mark of a token (it only feeds the admin page), encryption, CDN
uploads and downloads, and messages without an id (which the filter lets pass)
are left out. Of the senders: the text, its truncation, file names, media types
beyond image or not, and the length of back-offs; of the listeners: what an
event is parsed to, the list of dialogs, and `telegram_require_all_accounts`.
Several accounts appear in `TelegramOutbound`, one at a time in
`TelegramListener`: they share only the registry and the queue. The order in
which `main.py` starts and stops the parts is not modelled; what a stop does to
each of them is. The retry loop of the translator is local and shares no state.

Web authentication and rendering, schema migration, the forward log, the admin
bot's dialogs and configuration parsing are I/O or pure plumbing around these
parts and are marked `not_modelled`, or left out of a part that is modelled
partly, in `PROJECT.json`.
