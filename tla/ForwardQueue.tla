---------------------------- MODULE ForwardQueue -----------------------------
(***************************************************************************)
(* The forward queue: listeners put messages in, one consumer takes them    *)
(* out, matches them with the rules and delivers them target by target,     *)
(* while users change the rules.  The code between two awaits is one step.  *)
(*                                                                         *)
(* Left out: the text sent, and the forward log, of which nothing is read   *)
(* back here; so the await of a log write changes nothing in the model.     *)
(***************************************************************************)
EXTENDS ForwardRules, Sequences

CONSTANTS
  QueueSize,
  MaxChanges,     \* bound: what users do in one behaviour, and restarts
  Deduped,        \* the copies with a chat id, if de-duplication is on
  InitialRules,   \* the rule in the table at the start
  Echo,           \* the copy comes from the chat that is the target
  SkipsQQ,        \* the QQ words of the shape hit the text sent to that target
  QQTargets,
  Linked          \* the copies with a link to fall back on, if that is on

ASSUME QueueAssumption ==
  /\ QueueSize \in Nat \ {0} /\ MaxChanges \in Nat
  /\ Deduped \subseteq Copies /\ Linked \subseteq Copies
  /\ MaxBirths > 0 /\ InitialRules \subseteq {r \in Rule : r.live /\ r.born = 1}
  /\ Echo \subseteq Copies \X Targets
  /\ SkipsQQ \subseteq Copies \X Shapes \X QQTargets
  /\ QQTargets \subseteq Targets

VARIABLES
  changes,  \* number of changes by users, and of restarts
  paused,   \* the setting forwarding_paused
  queue,
  recent,   \* the posts in _recent_message_keys
  at,       \* the await the consumer is at
  hand,     \* what it has in hand there
  \* History:
  fate,     \* what became of each copy
  handled,  \* <<copy, birth of the rule, target>> sent to or skipped
  forgot    \* the posts whose key expired or was lost in a restart

tables == <<rule, births, changes>>
vars == <<rule, births, changes, paused, queue, recent, at, hand, fate, handled,
          forgot>>

Posts == {Post[c] : c \in Copies}
Fates == {"new", "queued", "taken", "dropped", "paused", "duplicate",
          "unmatched", "done", "error", "lost"}
Places == {"get", "is_paused", "matching_rules", "targets_for", "deliver",
           "send", "send_link"}

\* A rule as it was when it was read.
Snapshot == [id: RuleIds, was: Rule]
NoSnapshot == [id |-> 1, was |-> NoRule]
\* A message in hand, the rules still to do, the one in turn and its targets
\* left; and, as history, what is switched on at some time since the message was
\* taken, and what is due to it at all times.
Hand == [copy: Copies, todo: SUBSET Snapshot, now: Snapshot,
         left: SUBSET Targets, target: Targets,
         offered: SUBSET (Births \X Targets), steady: SUBSET (Births \X Targets)]
EmptyHand ==
  [copy |-> CHOOSE c \in Copies : TRUE, todo |-> {}, now |-> NoSnapshot,
   left |-> {}, target |-> CHOOSE t \in Targets : TRUE,
   offered |-> {}, steady |-> {}]

\* What the rules are switched on for, and what of it is due to a copy.
SwitchedOn(table) ==
  {p \in Births \X Targets :
     \E i \in RuleIds : /\ table[i].live /\ table[i].born = p[1]
                        /\ p[2] \in OnTargets(table[i])}
Due(table, c) ==
  {p \in Births \X Targets :
     \E i \in RuleIds : /\ table[i].live /\ table[i].born = p[1]
                        /\ Matches(table[i], c) /\ p[2] \in OnTargets(table[i])}

Init ==
  /\ rule \in [RuleIds -> InitialRules \cup {NoRule}]
  /\ rule[1].live /\ \A i \in RuleIds \ {1} : ~rule[i].live
  /\ births = 1 /\ changes = 0 /\ paused = FALSE
  /\ queue = <<>> /\ recent = {} /\ at = "get" /\ hand = EmptyHand
  /\ fate = [c \in Copies |-> "new"]
  /\ handled = {} /\ forgot = {}

-----------------------------------------------------------------------------
(* The queue's entry, called by the listeners.                              *)

\* Fault: one message too many fits.
HasRoomForOneMore == Len(queue) <= QueueSize

HasRoom == Len(queue) < QueueSize

Enqueue(c) ==
  /\ fate[c] = "new"
  /\ IF HasRoom
       THEN queue' = Append(queue, c) /\ fate' = [fate EXCEPT ![c] = "queued"]
       ELSE fate' = [fate EXCEPT ![c] = "dropped"] /\ UNCHANGED queue
  /\ UNCHANGED <<tables, paused, recent, at, hand, handled, forgot>>

-----------------------------------------------------------------------------
(* The consumer, await by await.                                            *)

\* A message is finished: the consumer waits for the next.
Finish(end) ==
  /\ at' = "get" /\ hand' = EmptyHand
  /\ fate' = [fate EXCEPT ![hand.copy] = end]

Take ==
  /\ at = "get" /\ queue # <<>>
  /\ queue' = Tail(queue) /\ at' = "is_paused"
  /\ hand' = [EmptyHand EXCEPT !.copy = Head(queue), !.offered = SwitchedOn(rule),
                               !.steady = Due(rule, Head(queue))]
  /\ fate' = [fate EXCEPT ![Head(queue)] = "taken"]
  /\ UNCHANGED <<tables, paused, recent, handled, forgot>>

\* _should_skip_cross_account_duplicate, which also registers the key.
IsDuplicate(c) == c \in Deduped /\ Post[c] \in recent

\* Fault: the key is looked up and not registered.
NotRegistered(c) == recent

Registered(c) == recent \cup (IF c \in Deduped THEN {Post[c]} ELSE {})

\* Fault: the key is registered before the pause is looked at.
CheckPausedAfterKey ==
  /\ at = "is_paused" /\ recent' = Registered(hand.copy)
  /\ IF IsDuplicate(hand.copy) THEN Finish("duplicate")
     ELSE IF paused THEN Finish("paused")
     ELSE at' = "matching_rules" /\ UNCHANGED <<hand, fate>>
  /\ UNCHANGED <<tables, paused, queue, handled, forgot>>

CheckPaused ==
  /\ at = "is_paused"
  /\ IF paused THEN Finish("paused") /\ UNCHANGED recent
     ELSE /\ recent' = Registered(hand.copy)
          /\ IF IsDuplicate(hand.copy) THEN Finish("duplicate")
             ELSE at' = "matching_rules" /\ UNCHANGED <<hand, fate>>
  /\ UNCHANGED <<tables, paused, queue, handled, forgot>>

\* The keys are dropped 300 s after they were registered.
Expire(p) ==
  /\ p \in recent /\ recent' = recent \ {p} /\ forgot' = forgot \cup {p}
  /\ UNCHANGED <<tables, paused, queue, at, hand, fate, handled>>

MatchingRules(c) ==
  {s \in {[id |-> i, was |-> rule[i]] : i \in RuleIds} : s.was.live /\ Matches(s.was, c)}

Match ==
  /\ at = "matching_rules"
  /\ IF MatchingRules(hand.copy) = {} THEN Finish("unmatched")
     ELSE /\ hand' = [hand EXCEPT !.todo = MatchingRules(hand.copy)]
          /\ at' = "targets_for" /\ UNCHANGED fate
  /\ UNCHANGED <<tables, paused, queue, recent, handled, forgot>>

\* The two for loops of _process_message, once a rule or a target is dealt with.
Proceed(todo, now, left) ==
  IF left # {}
    THEN /\ at' = "deliver" /\ UNCHANGED fate
         /\ hand' = [hand EXCEPT !.todo = todo, !.now = now, !.left = left]
  ELSE IF todo # {}
    THEN /\ at' = "targets_for" /\ UNCHANGED fate
         /\ hand' = [hand EXCEPT !.todo = todo, !.now = NoSnapshot, !.left = {},
                                 !.target = EmptyHand.target]
  ELSE Finish("done")

\* Fault: a rule without enabled targets ends the message.
ReadTargetsOrReturn ==
  /\ at = "targets_for"
  /\ \E s \in hand.todo :
       /\ \A r \in hand.todo : s.id <= r.id
       /\ IF TargetsFor(s.was, s.id) = {} THEN Finish("done")
          ELSE Proceed(hand.todo \ {s}, s, TargetsFor(s.was, s.id))
  /\ UNCHANGED <<tables, paused, queue, recent, handled, forgot>>

ReadTargets ==
  /\ at = "targets_for"
  /\ \E s \in hand.todo :
       /\ \A r \in hand.todo : s.id <= r.id
       /\ Proceed(hand.todo \ {s}, s, TargetsFor(s.was, s.id))
  /\ UNCHANGED <<tables, paused, queue, recent, handled, forgot>>

Skips(t) ==
  <<hand.copy, t>> \in Echo \/ <<hand.copy, hand.now.was.shape, t>> \in SkipsQQ

Handle(t) ==
  /\ at = "deliver" /\ t \in hand.left
  /\ handled' = handled \cup {<<hand.copy, hand.now.was.born, t>>}
  /\ UNCHANGED <<tables, paused, queue, recent, forgot>>

SkipTarget(t) ==
  /\ Handle(t) /\ Skips(t) /\ Proceed(hand.todo, hand.now, hand.left \ {t})

StartSend(t) ==
  /\ Handle(t) /\ ~Skips(t)
  /\ at' = "send" /\ UNCHANGED fate
  /\ hand' = [hand EXCEPT !.left = @ \ {t}, !.target = t]

\* QQ's audit refuses the text: a second call sends the link alone.
AuditRefuses ==
  /\ at = "send" /\ hand.target \in QQTargets /\ hand.copy \in Linked
  /\ at' = "send_link"
  /\ UNCHANGED <<tables, paused, queue, recent, hand, fate, handled, forgot>>

\* Sent, failed, timed out, or parked by the Weixin service: the next target.
SendEnds ==
  /\ at \in {"send", "send_link"}
  /\ Proceed(hand.todo, hand.now, hand.left)
  /\ UNCHANGED <<tables, paused, queue, recent, handled, forgot>>

\* Fault: the error ends the consumer, which then is where nothing happens.
ErrorEndsConsumer ==
  /\ at \in {"is_paused", "matching_rules", "targets_for"}
  /\ at' = "deliver" /\ fate' = [fate EXCEPT ![hand.copy] = "error"]
  /\ hand' = EmptyHand
  /\ UNCHANGED <<tables, paused, queue, recent, handled, forgot>>

\* The database fails: _run logs the error and goes on.
Error ==
  /\ at \in {"is_paused", "matching_rules", "targets_for"}
  /\ Finish("error")
  /\ UNCHANGED <<tables, paused, queue, recent, handled, forgot>>

-----------------------------------------------------------------------------
(* Users, and the end and the next start of the process.                     *)

Change == changes < MaxChanges /\ changes' = changes + 1

ChangeRules ==
  /\ RuleOp /\ Change
  /\ hand' = IF at = "get" THEN hand
             ELSE [hand EXCEPT !.offered = @ \cup SwitchedOn(rule'),
                               !.steady = @ \cap Due(rule', hand.copy)]
  /\ UNCHANGED <<paused, queue, recent, at, fate, handled, forgot>>

SetPaused ==
  /\ May("pause") /\ Change /\ paused' = ~paused
  /\ UNCHANGED <<rule, births, queue, recent, at, hand, fate, handled, forgot>>

\* Nothing of the queue is stored.
Restart ==
  /\ May("restart") /\ Change
  /\ queue' = <<>> /\ recent' = {} /\ at' = "get" /\ hand' = EmptyHand
  /\ fate' = [c \in Copies |-> IF fate[c] \in {"queued", "taken"} THEN "lost" ELSE fate[c]]
  /\ forgot' = forgot \cup recent
  /\ UNCHANGED <<rule, births, paused, handled>>

Consumer ==
  \/ Take \/ CheckPaused \/ Match \/ ReadTargets
  \/ \E t \in Targets : SkipTarget(t) \/ StartSend(t)
  \/ SendEnds

Next ==
  \/ \E c \in Copies : Enqueue(c)
  \/ Consumer \/ AuditRefuses \/ Error
  \/ \E p \in Posts : Expire(p)
  \/ ChangeRules \/ SetPaused \/ Restart

Spec == Init /\ [][Next]_vars

\* The event loop runs the consumer; database calls end and sends time out.
FairSpec == Spec /\ WF_vars(Consumer)
=============================================================================
