---------------------------- MODULE ForwardProofs ----------------------------
(***************************************************************************)
(* Proofs about the forward queue and the rules, for every value of the     *)
(* constants.                                                              *)
(***************************************************************************)
EXTENDS ForwardProperties, SequenceTheorems, WellFoundedInduction, TLAPS

-----------------------------------------------------------------------------
(* Types.                                                                  *)

LEMMA NothingTyped ==
  /\ NoRule \in Rule /\ EmptyHand \in Hand
  /\ NoRule.born = 0 /\ ~NoRule.live
<1>1. NoRule \in Rule
  BY RulesAssumption DEF NoRule, Rule, Births
<1>2. NoSnapshot \in Snapshot
  BY <1>1, RulesAssumption DEF NoSnapshot, Snapshot, RuleIds
<1>3. (CHOOSE c \in Copies : TRUE) \in Copies /\ (CHOOSE t \in Targets : TRUE) \in Targets
  BY RulesAssumption
<1> QED
  BY <1>1, <1>2, <1>3 DEF EmptyHand, Hand, NoRule

LEMMA MadeTyped ==
  ASSUME NEW q \in Requests, NEW b \in Births
  PROVE  Made(q, b) \in Rule
  BY RulesAssumption DEF Made, Rule, RuleRequests

\* A target read for a rule is a target.
LEMMA TargetsTyped ==
  ASSUME TypeOK, NEW i \in RuleIds, NEW r \in Rule
  PROVE  TargetsFor(r, i) \subseteq Targets
  BY NothingTyped DEF TargetsFor, TypeOK, Rule

\* Every nonempty set of rules has a first one.
LEMMA FirstRule ==
  ASSUME NEW S \in SUBSET RuleIds, S # {}
  PROVE  FirstOf(S) \in S /\ \A j \in S : FirstOf(S) <= j
<1>1. S \subseteq Nat
  BY RulesAssumption DEF RuleIds
<1>2. PICK i \in S : \A j \in S : ~(<<j, i>> \in OpToRel(<, Nat))
  BY <1>1, NatLessThanWellFounded, WFMin
<1>3. \A j \in S : ~(j < i)
  BY <1>1, <1>2 DEF OpToRel
<1>4. \E k \in S : \A j \in S : k <= j
  BY <1>1, <1>3
<1> QED
  BY <1>4 DEF FirstOf

\* A step of the users makes rules of rules.
LEMMA RuleOpTyped ==
  ASSUME TypeOK, RuleOp
  PROVE  rule' \in [RuleIds -> Rule] /\ births' \in Births
<1> USE DEF TypeOK
<1>1. births \in Nat /\ (births < MaxBirths => births + 1 \in Births)
  BY RulesAssumption DEF Births
<1>2. ASSUME NEW q \in Requests, CreateOrMerge(q)
      PROVE  rule' \in [RuleIds -> Rule] /\ births' \in Births
  <2>1. CASE Same(q) = {}
    BY <2>1, <1>1, <1>2, MadeTyped DEF CreateOrMerge
  <2>2. CASE Same(q) # {}
    <3> DEFINE p == FirstOf(Same(q))
               merged == [rule[p] EXCEPT !.words = MergedWords(q), !.to = q.to,
                                         !.on = q.on]
    <3>1. p \in RuleIds
      BY <2>2, FirstRule DEF Same
    <3>2. MergedWords(q) \subseteq Words
      BY <1>2, RulesAssumption DEF MergedWords, Same, Rule, RuleRequests
    <3>3. merged \in Rule
      <4>1. /\ q.to \in SUBSET Targets /\ q.on \in SUBSET Targets
            /\ q.on \subseteq q.to
        BY RulesAssumption DEF RuleRequests
      <4>2. rule[p] \in Rule
        BY <3>1
      <4> HIDE DEF p
      <4> QED
        BY <3>2, <4>1, <4>2 DEF Rule
    <3>4. /\ rule' = [i \in RuleIds |->
                 IF i = p THEN merged ELSE IF i \in Same(q) THEN NoRule ELSE rule[i]]
          /\ births' = births
      BY <1>2, <2>2 DEF CreateOrMerge
    <3> QED
      BY <3>3, <3>4, NothingTyped
  <2> QED
    BY <2>1, <2>2
<1>3. ASSUME NEW i \in RuleIds, NEW q \in Requests, UpdateRule(i, q)
      PROVE  rule' \in [RuleIds -> Rule] /\ births' \in Births
  <2>1. rule[i].born \in Births
    BY DEF Rule
  <2> QED
    BY <1>3, <2>1, MadeTyped DEF UpdateRule
<1>4. ASSUME NEW i \in RuleIds, NEW b \in BOOLEAN, SetRuleEnabled(i, b)
      PROVE  rule' \in [RuleIds -> Rule] /\ births' \in Births
  <2>1. [rule[i] EXCEPT !.enabled = b] \in Rule
    BY DEF Rule
  <2> QED
    BY <1>4, <2>1 DEF SetRuleEnabled
<1>5. ASSUME NEW i \in RuleIds, NEW s \in Shapes, NEW b \in BOOLEAN,
             DuplicateRule(i, s, b)
      PROVE  rule' \in [RuleIds -> Rule] /\ births' \in Births
  <2> DEFINE copy == [rule[i] EXCEPT !.born = births', !.shape = s, !.enabled = b,
                        !.to = TargetSet(rule[i]), !.on = OnTargets(rule[i])]
  <2>1. births' = births + 1 /\ births' \in Births
    BY <1>1, <1>5 DEF DuplicateRule
  <2>2. copy \in Rule
    BY <2>1 DEF Rule, TargetSet, OnTargets
  <2>3. PICK k \in RuleIds : rule' = [rule EXCEPT ![k] = copy]
    BY <1>5 DEF DuplicateRule
  <2> QED
    BY <2>1, <2>2, <2>3
<1>6. ASSUME NEW i \in RuleIds, DeleteRule(i)
      PROVE  rule' \in [RuleIds -> Rule] /\ births' \in Births
  BY <1>6, NothingTyped DEF DeleteRule
<1> QED
  BY <1>2, <1>3, <1>4, <1>5, <1>6 DEF RuleOp

LEMMA HandTyped ==
  ASSUME hand \in Hand, NEW todo \in SUBSET Snapshot, NEW now \in Snapshot,
         NEW left \in SUBSET Targets, fate \in [Copies -> Fates],
         Proceed(todo, now, left)
  PROVE  at' \in Places /\ hand' \in Hand /\ fate' \in [Copies -> Fates]
<1>1. NoSnapshot \in Snapshot /\ EmptyHand.target \in Targets
  BY NothingTyped, RulesAssumption DEF NoSnapshot, Snapshot, RuleIds, Hand
<1>2. CASE left # {}
  <2>1. [hand EXCEPT !.todo = todo, !.now = now, !.left = left] \in Hand
    BY DEF Hand
  <2> QED
    BY <2>1, <1>2 DEF Proceed, Places
<1>3. CASE left = {} /\ todo # {}
  <2>1. [hand EXCEPT !.todo = todo, !.now = NoSnapshot, !.left = {},
                     !.target = EmptyHand.target] \in Hand
    BY <1>1 DEF Hand
  <2> QED
    BY <2>1, <1>3 DEF Proceed, Places
<1>4. CASE left = {} /\ todo = {}
  BY <1>4, NothingTyped DEF Proceed, Finish, Places, Fates
<1> QED
  BY <1>2, <1>3, <1>4

LEMMA TypesInitially == Init => TypeOK
<1> SUFFICES ASSUME Init PROVE TypeOK
  OBVIOUS
<1>1. InitialRules \cup {NoRule} \subseteq Rule
  BY NothingTyped, QueueAssumption
<1>2. rule \in [RuleIds -> Rule]
  BY <1>1 DEF Init
<1>3. queue \in Seq(Copies) /\ Len(queue) = 0
  BY EmptySeq DEF Init
<1>4. births \in Births /\ changes \in 0..MaxChanges /\ 0 <= QueueSize
  BY RulesAssumption, QueueAssumption DEF Init, Births
<1>5. fate \in [Copies -> Fates] /\ at \in Places /\ hand \in Hand
  BY NothingTyped DEF Init, Fates, Places
<1> QED
  BY <1>2, <1>3, <1>4, <1>5 DEF Init, TypeOK

LEMMA TypesKept == TypeOK /\ [Next]_vars => TypeOK'
<1> SUFFICES ASSUME TypeOK, [Next]_vars PROVE TypeOK'
  OBVIOUS
<1> USE DEF TypeOK
<1>0. EmptyHand \in Hand /\ (\A c \in Copies : Post[c] \in Posts)
  BY NothingTyped DEF Posts
<1>1. ASSUME NEW c \in Copies, Enqueue(c) PROVE TypeOK'
  <2>1. HasRoom => /\ Append(queue, c) \in Seq(Copies)
                   /\ Len(Append(queue, c)) <= QueueSize
    BY AppendProperties, LenProperties, QueueAssumption DEF HasRoom
  <2> QED
    BY <2>1, <1>1 DEF Enqueue, tables, Fates
<1>2. CASE Take
  <2>1. /\ Tail(queue) \in Seq(Copies) /\ Head(queue) \in Copies
        /\ Len(Tail(queue)) <= QueueSize
    BY <1>2, HeadTailProperties, LenProperties, QueueAssumption DEF Take
  <2>2. SwitchedOn(rule) \subseteq Births \X Targets
        /\ Due(rule, Head(queue)) \subseteq Births \X Targets
    BY DEF SwitchedOn, Due
  <2>3. hand' \in Hand
    BY <1>2, <1>0, <2>1, <2>2 DEF Take, Hand
  <2> QED
    BY <2>1, <2>3, <1>2 DEF Take, tables, Fates, Places
<1>3. CASE CheckPaused
  <2>1. hand.copy \in Copies /\ Registered(hand.copy) \subseteq Posts
    BY <1>0 DEF Hand, Registered
  <2> QED
    BY <2>1, <1>3, <1>0 DEF CheckPaused, Finish, tables, Fates, Places
<1>4. CASE Match
  <2>1. MatchingRules(hand.copy) \subseteq Snapshot
    BY DEF MatchingRules, Snapshot
  <2>2. [hand EXCEPT !.todo = MatchingRules(hand.copy)] \in Hand
    BY <2>1 DEF Hand
  <2> QED
    BY <2>2, <1>4, <1>0 DEF Match, Finish, tables, Fates, Places
<1>5. CASE ReadTargets
  <2>1. PICK s \in hand.todo : Proceed(hand.todo \ {s}, s, TargetsFor(s.was, s.id))
    BY <1>5 DEF ReadTargets
  <2>2. hand.todo \in SUBSET Snapshot
    BY DEF Hand
  <2>3. s \in Snapshot /\ TargetsFor(s.was, s.id) \subseteq Targets
    BY <2>2, TargetsTyped DEF Snapshot
  <2>4. at' \in Places /\ hand' \in Hand /\ fate' \in [Copies -> Fates]
    BY <2>1, <2>2, <2>3, HandTyped
  <2> QED
    BY <2>4, <1>5 DEF ReadTargets, tables
<1>6. ASSUME NEW t \in Targets, SkipTarget(t) PROVE TypeOK'
  <2>1. /\ hand.todo \in SUBSET Snapshot /\ hand.now \in Snapshot
        /\ hand.left \ {t} \in SUBSET Targets
    BY DEF Hand
  <2>2. at' \in Places /\ hand' \in Hand /\ fate' \in [Copies -> Fates]
    BY <1>6, <2>1, HandTyped DEF SkipTarget
  <2>3. <<hand.copy, hand.now.was.born, t>> \in Copies \X Births \X Targets
    BY DEF Hand, Snapshot, Rule
  <2> QED
    BY <2>2, <2>3, <1>6 DEF SkipTarget, Handle, tables
<1>7. ASSUME NEW t \in Targets, StartSend(t) PROVE TypeOK'
  <2>1. <<hand.copy, hand.now.was.born, t>> \in Copies \X Births \X Targets
    BY DEF Hand, Snapshot, Rule
  <2>2. [hand EXCEPT !.left = @ \ {t}, !.target = t] \in Hand
    BY DEF Hand
  <2> QED
    BY <2>1, <2>2, <1>7 DEF StartSend, Handle, tables, Places
<1>8. CASE AuditRefuses
  BY <1>8 DEF AuditRefuses, tables, Places
<1>9. CASE SendEnds
  <2>1. /\ hand.todo \in SUBSET Snapshot /\ hand.now \in Snapshot
        /\ hand.left \in SUBSET Targets
    BY DEF Hand
  <2>2. at' \in Places /\ hand' \in Hand /\ fate' \in [Copies -> Fates]
    BY <1>9, <2>1, HandTyped DEF SendEnds
  <2> QED
    BY <2>2, <1>9 DEF SendEnds, tables
<1>10. CASE Error
  BY <1>10, <1>0 DEF Error, Finish, tables, Places, Fates
<1>11. ASSUME NEW p \in Posts, Expire(p) PROVE TypeOK'
  BY <1>11 DEF Expire, tables
<1>12. CASE ChangeRules
  <2>1. rule' \in [RuleIds -> Rule] /\ births' \in Births
    BY <1>12, RuleOpTyped DEF ChangeRules
  <2>2. SwitchedOn(rule') \subseteq Births \X Targets
    BY DEF SwitchedOn
  <2>3. hand' \in Hand
    BY <1>12, <2>2 DEF ChangeRules, Hand
  <2>4. changes' \in 0..MaxChanges
    BY <1>12, QueueAssumption DEF ChangeRules, Change
  <2> QED
    BY <2>1, <2>3, <2>4, <1>12 DEF ChangeRules
<1>13. CASE SetPaused
  BY <1>13, QueueAssumption DEF SetPaused, Change
<1>14. CASE Restart
  BY <1>14, <1>0, EmptySeq, QueueAssumption DEF Restart, Change, Places, Fates
<1>15. CASE UNCHANGED vars
  BY <1>15 DEF vars
<1> QED
  BY <1>1, <1>2, <1>3, <1>4, <1>5, <1>6, <1>7, <1>8, <1>9, <1>10, <1>11, <1>12,
     <1>13, <1>14, <1>15 DEF Next, Consumer

\* The variables always have their types, and the queue never holds more than
\* QueueSize messages (forward_queue.py:36).
THEOREM TypeCorrect == Spec => []TypeOK
<1> QED
  BY TypesInitially, TypesKept, PTL DEF Spec

-----------------------------------------------------------------------------
(* Adding a rule.                                                          *)

\* What is forwarded, rule by rule.
LEMMA CoveredFacts ==
  ASSUME NEW p \in Copies \X Targets
  PROVE  p \in Covered <=>
           \E i \in RuleIds : rule[i].live /\ Matches(rule[i], p[1]) /\ p[2] \in OnTargets(rule[i])
  BY DEF Covered, CoveredBy

LEMMA CoveredPrimeFacts ==
  ASSUME NEW p \in Copies \X Targets
  PROVE  p \in Covered' <=>
           \E i \in RuleIds : rule'[i].live /\ Matches(rule'[i], p[1]) /\ p[2] \in OnTargets(rule'[i])
  BY DEF Covered, CoveredBy

\* A rule for a source that no other has: nothing else changes.
LEMMA CreatedCovers ==
  ASSUME TypeOK, NEW q \in Requests, CreateOrMerge(q), Same(q) = {}
  PROVE  CoveredBy(Made(q, 0)) \cup Covered \subseteq Covered'
<1>1. PICK k \in RuleIds : NewId(k) /\ rule' = [rule EXCEPT ![k] = Made(q, births')]
  BY DEF CreateOrMerge
<1>2. ~rule[k].live /\ rule'[k] = Made(q, births')
      /\ \A i \in RuleIds \ {k} : rule'[i] = rule[i]
  BY <1>1 DEF NewId, TypeOK, RuleIds
<1>3. ASSUME NEW p \in Covered PROVE p \in Covered'
  <2>1. p \in Copies \X Targets
    BY <1>3 DEF Covered, CoveredBy
  <2>2. PICK i \in RuleIds : rule[i].live /\ Matches(rule[i], p[1]) /\ p[2] \in OnTargets(rule[i])
    BY <2>1, <1>3, CoveredFacts
  <2>3. rule'[i] = rule[i]
    BY <2>2, <1>2
  <2> QED
    BY <2>1, <2>2, <2>3, CoveredPrimeFacts
<1>4. ASSUME NEW p \in CoveredBy(Made(q, 0)) PROVE p \in Covered'
  <2>1. p \in Copies \X Targets /\ Matches(Made(q, 0), p[1]) /\ p[2] \in OnTargets(Made(q, 0))
    BY <1>4 DEF CoveredBy
  <2>2. /\ Made(q, births').live /\ Matches(Made(q, births'), p[1])
        /\ p[2] \in OnTargets(Made(q, births'))
    BY <2>1 DEF Made, Matches, OnTargets
  <2> QED
    BY <2>1, <2>2, <1>2, CoveredPrimeFacts
<1> QED
  BY <1>3, <1>4

\* The merged rule takes every message that one of its parts took, or the rule
\* asked for.
LEMMA MergedCovers ==
  ASSUME TypeOK, NEW q \in Requests, CreateOrMerge(q), Same(q) # {}
  PROVE  /\ CoveredBy(Made(q, 0)) \subseteq Covered'
         /\ \A p \in Covered \ Covered' : p[2] \in q.to \ q.on
<1> DEFINE f == FirstOf(Same(q))
           merged == [rule[f] EXCEPT !.words = MergedWords(q), !.to = q.to, !.on = q.on]
<1>1. f \in RuleIds /\ SameButWords(rule[f], q)
  BY FirstRule DEF Same
<1>2. /\ q.to \in SUBSET Targets /\ q.on \subseteq q.to /\ q.to # {}
      /\ q.words \in SUBSET Words
  BY RulesAssumption DEF RuleRequests
<1>3. /\ rule'[f] = merged
      /\ \A i \in RuleIds \ Same(q) : rule'[i] = rule[i]
  BY <1>1 DEF CreateOrMerge, Same
<1>4. /\ merged.live /\ merged.enabled = q.enabled /\ merged.shape = q.shape
      /\ merged.words = MergedWords(q) /\ OnTargets(merged) = q.on
  <2>1. rule[f] \in Rule
    BY <1>1 DEF TypeOK
  <2>2. merged.to = q.to /\ merged.on = q.on /\ merged.words = MergedWords(q)
        /\ merged.live = rule[f].live /\ merged.enabled = rule[f].enabled
        /\ merged.shape = rule[f].shape
    BY <2>1 DEF Rule
  <2> QED
    BY <2>2, <1>1, <1>2 DEF SameButWords, OnTargets
<1> HIDE DEF f, merged
\* The words of a part are among the merged ones.
<1>5. ASSUME NEW c \in Copies, NEW w \in SUBSET Words,
             w = q.words \/ \E i \in Same(q) : w = rule[i].words,
             c \in Accepts[q.shape], q.enabled, w # {} => w \cap Says[c] # {}
      PROVE  Matches(rule'[f], c)
  <2>1. MergedWords(q) # {} => MergedWords(q) \cap Says[c] # {}
    <3> DEFINE all == {rule[i].words : i \in Same(q)} \cup {q.words}
    <3>1. w \in all
      BY <1>5
    <3>2. CASE {} \in all
      BY <3>2 DEF MergedWords
    <3>3. CASE {} \notin all
      <4>1. w # {} /\ w \subseteq UNION all
        BY <3>1, <3>3
      <4> QED
        BY <3>3, <4>1, <1>5 DEF MergedWords
    <3> QED
      BY <3>2, <3>3
  <2> QED
    BY <2>1, <1>3, <1>4, <1>5 DEF Matches
<1>6. ASSUME NEW p \in CoveredBy(Made(q, 0)) PROVE p \in Covered'
  <2>1. p \in Copies \X Targets /\ Matches(Made(q, 0), p[1]) /\ p[2] \in OnTargets(Made(q, 0))
    BY <1>6 DEF CoveredBy
  <2>2. /\ p[1] \in Accepts[q.shape] /\ q.enabled /\ p[2] \in q.on
        /\ q.words # {} => q.words \cap Says[p[1]] # {}
    BY <2>1, <1>2 DEF Made, Matches, OnTargets
  <2>3. Matches(rule'[f], p[1])
    BY <2>1, <2>2, <1>2, <1>5
  <2> QED
    BY <2>1, <2>2, <2>3, <1>1, <1>3, <1>4, CoveredPrimeFacts
<1>7. ASSUME NEW p \in Covered, p \notin Covered' PROVE p[2] \in q.to \ q.on
  <2>1. p \in Copies \X Targets
    BY <1>7 DEF Covered, CoveredBy
  <2>2. PICK i \in RuleIds : rule[i].live /\ Matches(rule[i], p[1]) /\ p[2] \in OnTargets(rule[i])
    BY <2>1, <1>7, CoveredFacts
  <2>3. i \in Same(q)
    BY <2>1, <2>2, <1>3, <1>7, CoveredPrimeFacts
  <2>4. rule[i] \in Rule /\ SameButWords(rule[i], q)
    BY <2>3 DEF Same, TypeOK
  <2>5. p[2] \in q.to
    BY <2>2, <2>4 DEF SameButWords, OnTargets, TargetSet, Rule
  <2>6. /\ p[1] \in Accepts[q.shape] /\ q.enabled /\ rule[i].words \in SUBSET Words
        /\ rule[i].words # {} => rule[i].words \cap Says[p[1]] # {}
    BY <2>2, <2>4 DEF SameButWords, Matches, Rule
  <2>7. Matches(rule'[f], p[1])
    BY <2>1, <2>3, <2>6, <1>5
  <2>8. p[2] \notin q.on
    BY <2>1, <2>7, <1>1, <1>3, <1>4, <1>7, CoveredPrimeFacts
  <2> QED
    BY <2>5, <2>8
<1> QED
  BY <1>6, <1>7

\* Whatever rules there are: after one is added, all it asks for is forwarded,
\* and what was forwarded before still is, except to targets it switches off
\* (rules/service.py:97-174).
THEOREM AddingKeeps == Spec => AddingKeepsCoverage
<1>1. TypeOK => [\A q \in Requests : CreateOrMerge(q) =>
                   /\ CoveredBy(Made(q, 0)) \subseteq Covered'
                   /\ \A p \in Covered \ Covered' : p[2] \in q.to \ q.on]_<<rule, births>>
  BY CreatedCovers, MergedCovers
<1> QED
  BY <1>1, TypeCorrect, PTL DEF AddingKeepsCoverage

-----------------------------------------------------------------------------
(* What a message in hand may be sent to.  The consumer holds rules as they  *)
(* were when it read them.  A rule's birth tells it from another one that    *)
(* got its id later.                                                       *)

Idle ==
  /\ at = "get" => hand = EmptyHand
  /\ at \in {"is_paused", "matching_rules", "targets_for"} => hand.left = {}

Birth(b, i) == rule[i].live /\ rule[i].born = b

\* Births are given out once.
BirthsUnique ==
  \A i, j \in RuleIds : rule[i].live =>
    /\ rule[i].born \in 1..births
    /\ Birth(rule[i].born, j) => i = j

\* A rule that was read keeps its id, and its legacy target as long as it has no
\* target rows; and a rule that was deleted never comes back.
Agrees(s) ==
  /\ s.was.born <= births
  /\ \A j \in RuleIds : Birth(s.was.born, j) =>
       j = s.id /\ (rule[j].to = {} => rule[j].first = s.was.first)
SnapshotsAgree == \A s \in hand.todo \cup {hand.now} : Agrees(s)

Watched ==
  /\ at # "get" => SwitchedOn(rule) \subseteq hand.offered
  /\ hand.steady \subseteq Due(rule, hand.copy)

LeftOffered ==
  \A t \in hand.left :
    \/ <<hand.now.was.born, t>> \in hand.offered
    \/ \A i \in RuleIds : ~Birth(hand.now.was.born, i)

\* What is due at all times is done, in hand, or among the rules to do.
ToCome(p) ==
  \/ <<hand.copy, p[1], p[2]>> \in handled
  \/ \E s \in hand.todo : s.was.born = p[1]
  \/ hand.now.was.born = p[1] /\ p[2] \in hand.left
SteadyToCome ==
  at \in {"targets_for", "deliver", "send", "send_link"} =>
    \A p \in hand.steady : ToCome(p)

HandInv ==
  /\ Idle /\ BirthsUnique /\ SnapshotsAgree /\ Watched /\ LeftOffered /\ SteadyToCome

\* The next message is awaited.
LEMMA HandEmptied ==
  ASSUME TypeOK, HandInv, at' = "get", hand' = EmptyHand, UNCHANGED <<rule, births>>
  PROVE  HandInv'
<1>1. NoSnapshot.was.born = 0 /\ births \in Nat /\ 0 \notin 1..births
  BY NothingTyped DEF NoSnapshot, TypeOK, Births
<1>2. /\ hand'.todo = {} /\ hand'.now = NoSnapshot /\ hand'.left = {}
      /\ hand'.steady = {}
  BY DEF EmptyHand
<1>3. Idle' /\ BirthsUnique' /\ Watched' /\ LeftOffered' /\ SteadyToCome'
  BY <1>2 DEF HandInv, Idle, BirthsUnique, Birth, Watched, LeftOffered, SteadyToCome
<1>4. SnapshotsAgree'
  BY <1>1, <1>2 DEF HandInv, SnapshotsAgree, Agrees, Birth, BirthsUnique
<1> QED
  BY <1>3, <1>4 DEF HandInv

\* What is in hand stays the same, and no rule has been read in the step.
LEMMA HandStays ==
  ASSUME HandInv, UNCHANGED <<rule, births, hand, handled>>,
         \/ UNCHANGED at
         \/ at = "is_paused" /\ at' = "matching_rules"
         \/ at = "send" /\ at' = "send_link"
  PROVE  HandInv'
<1>1. BirthsUnique' /\ SnapshotsAgree' /\ LeftOffered'
  BY DEF HandInv, BirthsUnique, SnapshotsAgree, Agrees, Birth, LeftOffered
<1>2. Idle' /\ Watched' /\ SteadyToCome'
  BY DEF HandInv, Idle, Watched, SteadyToCome, ToCome
<1> QED
  BY <1>1, <1>2 DEF HandInv

\* The loops go on with what agrees with the tables and leaves nothing out.
LEMMA HandGoesOn ==
  ASSUME TypeOK, HandInv, at # "get", UNCHANGED <<rule, births>>,
         NEW todo \in SUBSET Snapshot, NEW now \in Snapshot, NEW left \in SUBSET Targets,
         Proceed(todo, now, left),
         \A s \in todo \cup {now} : Agrees(s),
         \A t \in left : \/ <<now.was.born, t>> \in hand.offered
                        \/ \A i \in RuleIds : ~Birth(now.was.born, i),
         \A p \in hand.steady :
           \/ <<hand.copy, p[1], p[2]>> \in handled'
           \/ \E s \in todo : s.was.born = p[1]
           \/ now.was.born = p[1] /\ p[2] \in left
  PROVE  HandInv'
<1>1. CASE left # {}
  <2>1. /\ at' = "deliver" /\ hand'.todo = todo /\ hand'.now = now /\ hand'.left = left
        /\ hand'.copy = hand.copy /\ hand'.offered = hand.offered
        /\ hand'.steady = hand.steady
    BY <1>1 DEF Proceed, TypeOK, Hand
  <2>2. Idle' /\ BirthsUnique' /\ SnapshotsAgree'
    BY <2>1 DEF HandInv, Idle, BirthsUnique, Birth, SnapshotsAgree, Agrees
  <2>3. Watched' /\ LeftOffered' /\ SteadyToCome'
    BY <2>1 DEF HandInv, Watched, LeftOffered, SteadyToCome, ToCome, Birth
  <2> QED
    BY <2>2, <2>3 DEF HandInv
<1>2. CASE left = {} /\ todo # {}
  <2>1. /\ at' = "targets_for" /\ hand'.todo = todo /\ hand'.now = NoSnapshot
        /\ hand'.left = {} /\ hand'.copy = hand.copy /\ hand'.offered = hand.offered
        /\ hand'.steady = hand.steady
    BY <1>2 DEF Proceed, TypeOK, Hand
  <2>2. NoSnapshot.was.born = 0 /\ births \in Nat /\ 0 \notin 1..births
    BY NothingTyped DEF NoSnapshot, TypeOK, Births
  <2>3. Idle' /\ BirthsUnique' /\ SnapshotsAgree'
    BY <2>1, <2>2 DEF HandInv, Idle, BirthsUnique, Birth, SnapshotsAgree, Agrees
  <2>4. Watched' /\ LeftOffered' /\ SteadyToCome'
    BY <1>2, <2>1 DEF HandInv, Watched, LeftOffered, SteadyToCome, ToCome
  <2> QED
    BY <2>3, <2>4 DEF HandInv
<1>3. CASE left = {} /\ todo = {}
  BY <1>3, HandEmptied DEF Proceed, Finish
<1> QED
  BY <1>1, <1>2, <1>3

\* A rule read earlier yields targets that were switched on meanwhile, unless it
\* has been deleted; and all those that were due all the time.
LEMMA TargetsOffered ==
  ASSUME TypeOK, HandInv, at # "get", NEW s \in hand.todo
  PROVE  /\ \A t \in TargetsFor(s.was, s.id) :
              \/ <<s.was.born, t>> \in hand.offered
              \/ \A i \in RuleIds : ~Birth(s.was.born, i)
         /\ \A p \in hand.steady :
              p[1] = s.was.born => p[2] \in TargetsFor(s.was, s.id)
<1>1. s \in Snapshot /\ Agrees(s) /\ s.was \in Rule /\ s.id \in RuleIds
  BY DEF TypeOK, Hand, Snapshot, HandInv, SnapshotsAgree
<1>2. ASSUME NEW i \in RuleIds, Birth(s.was.born, i)
      PROVE  i = s.id /\ TargetsFor(s.was, s.id) = OnTargets(rule[i])
  BY <1>1, <1>2 DEF Agrees, Birth, TargetsFor, OnTargets
<1>3. ASSUME NEW t \in TargetsFor(s.was, s.id), NEW i \in RuleIds, Birth(s.was.born, i)
      PROVE  <<s.was.born, t>> \in hand.offered
  <2>1. t \in Targets /\ t \in OnTargets(rule[i]) /\ s.was.born \in Births
    BY <1>1, <1>2, <1>3, TargetsTyped DEF Rule
  <2>2. <<s.was.born, t>> \in SwitchedOn(rule)
    BY <2>1, <1>3 DEF SwitchedOn, Birth
  <2> QED
    BY <2>2 DEF HandInv, Watched
<1>4. ASSUME NEW p \in hand.steady, p[1] = s.was.born
      PROVE  p[2] \in TargetsFor(s.was, s.id)
  <2>1. PICK i \in RuleIds : Birth(p[1], i) /\ p[2] \in OnTargets(rule[i])
    BY <1>4 DEF HandInv, Watched, Due, Birth
  <2> QED
    BY <2>1, <1>2, <1>4
<1> QED
  BY <1>3, <1>4

\* What users do to a rule: it keeps its birth and, without target rows, its
\* legacy target.
Keeps(j) ==
  rule'[j].live =>
    /\ rule[j].live /\ rule'[j].born = rule[j].born
    /\ rule'[j].to = {} => rule[j].to = {} /\ rule'[j].first = rule[j].first

\* At most one rule is new.
OneNew(k) ==
  /\ births' = births + 1 /\ rule'[k].born = births' /\ \A j \in RuleIds \ {k} : Keeps(j)

LEMMA RuleOpKeeps ==
  ASSUME TypeOK, RuleOp
  PROVE  \/ births' = births /\ \A j \in RuleIds : Keeps(j)
         \/ \E k \in RuleIds : OneNew(k)
<1> USE DEF TypeOK
<1>1. ASSUME NEW q \in Requests, CreateOrMerge(q)
      PROVE  \/ births' = births /\ \A j \in RuleIds : Keeps(j)
             \/ \E k \in RuleIds : OneNew(k)
  <2>1. CASE Same(q) = {}
    <3>1. PICK k \in RuleIds : rule' = [rule EXCEPT ![k] = Made(q, births')]
          /\ births' = births + 1
      BY <1>1, <2>1 DEF CreateOrMerge
    <3>2. OneNew(k)
      BY <3>1 DEF OneNew, Keeps, Made
    <3> QED
      BY <3>2
  <2>2. CASE Same(q) # {}
    <3> DEFINE f == FirstOf(Same(q))
               merged == [rule[f] EXCEPT !.words = MergedWords(q), !.to = q.to, !.on = q.on]
    <3>1. f \in RuleIds /\ rule[f].live /\ rule[f] \in Rule /\ q.to # {}
      BY <2>2, FirstRule, RulesAssumption DEF Same, SameButWords, RuleRequests
    <3>2. merged.born = rule[f].born /\ merged.to = q.to
      BY <3>1 DEF Rule
    <3>3. /\ rule' = [i \in RuleIds |->
                 IF i = f THEN merged ELSE IF i \in Same(q) THEN NoRule ELSE rule[i]]
          /\ births' = births
      BY <1>1, <2>2 DEF CreateOrMerge
    <3> HIDE DEF f, merged
    <3>4. ASSUME NEW j \in RuleIds PROVE Keeps(j)
      BY <3>1, <3>2, <3>3, NothingTyped DEF Keeps
    <3> QED
      BY <3>3, <3>4
  <2> QED
    BY <2>1, <2>2
<1>2. ASSUME NEW i \in RuleIds, NEW q \in Requests, UpdateRule(i, q)
      PROVE  births' = births /\ \A j \in RuleIds : Keeps(j)
  <2>1. q.to # {}
    BY RulesAssumption DEF RuleRequests
  <2> QED
    BY <1>2, <2>1 DEF UpdateRule, Made, Keeps
<1>3. ASSUME NEW i \in RuleIds, NEW b \in BOOLEAN, SetRuleEnabled(i, b)
      PROVE  births' = births /\ \A j \in RuleIds : Keeps(j)
  <2>1. rule[i] \in Rule
    OBVIOUS
  <2> QED
    BY <1>3, <2>1 DEF SetRuleEnabled, Keeps, Rule
<1>4. ASSUME NEW i \in RuleIds, NEW s \in Shapes, NEW b \in BOOLEAN,
             DuplicateRule(i, s, b)
      PROVE  \E k \in RuleIds : OneNew(k)
  <2> DEFINE copy == [rule[i] EXCEPT !.born = births', !.shape = s, !.enabled = b,
                        !.to = TargetSet(rule[i]), !.on = OnTargets(rule[i])]
  <2>1. copy.born = births'
    BY DEF Rule
  <2>2. PICK k \in RuleIds : rule' = [rule EXCEPT ![k] = copy]
    BY <1>4 DEF DuplicateRule
  <2>3. births' = births + 1
    BY <1>4 DEF DuplicateRule
  <2> HIDE DEF copy
  <2>4. OneNew(k)
    BY <2>1, <2>2, <2>3 DEF OneNew, Keeps
  <2> QED
    BY <2>4
<1>5. ASSUME NEW i \in RuleIds, DeleteRule(i)
      PROVE  births' = births /\ \A j \in RuleIds : Keeps(j)
  BY <1>5, NothingTyped DEF DeleteRule, Keeps
<1> QED
  BY <1>1, <1>2, <1>3, <1>4, <1>5 DEF RuleOp

\* A birth that was given out before a change is, after it, the birth of the
\* same rule or of none.
LEMMA BirthsKept ==
  ASSUME TypeOK, HandInv, RuleOp, NEW j \in RuleIds, NEW b \in Births,
         b <= births, Birth(b, j)'
  PROVE  Birth(b, j) /\ (rule'[j].to = {} => rule[j].to = {} /\ rule'[j].first = rule[j].first)
<1>1. births \in Nat /\ b # births + 1
  BY DEF TypeOK, Births
<1>2. rule'[j].live /\ rule'[j].born = b
  BY DEF Birth
<1>3. Keeps(j)
  BY <1>1, <1>2, RuleOpKeeps DEF OneNew
<1> QED
  BY <1>2, <1>3 DEF Keeps, Birth

LEMMA ChangeHand ==
  ASSUME TypeOK, TypeOK', HandInv, ChangeRules
  PROVE  HandInv'
<1>0. /\ births \in Nat /\ births' \in Nat /\ births <= births'
      /\ RuleOp /\ UNCHANGED <<at, handled>>
  <2>1. births \in Nat /\ births' \in Nat
    BY DEF TypeOK, Births
  <2> QED
    BY <2>1, RuleOpKeeps DEF ChangeRules, OneNew
<1>1. BirthsUnique'
  <2> SUFFICES ASSUME NEW i \in RuleIds, NEW j \in RuleIds, rule'[i].live
               PROVE  /\ rule'[i].born \in 1..births'
                      /\ Birth(rule[i].born, j)' => i = j
    BY DEF BirthsUnique
  <2>1. CASE Keeps(i)
    <3>1. rule[i].live /\ rule'[i].born = rule[i].born /\ rule[i].born \in 1..births
      BY <2>1 DEF Keeps, HandInv, BirthsUnique
    <3>2. rule[i].born \in Births /\ rule[i].born <= births
      BY <3>1 DEF TypeOK, Rule
    <3>3. Birth(rule[i].born, j)' => Birth(rule[i].born, j)
      BY <3>1, <3>2, <1>0, BirthsKept DEF Birth
    <3> QED
      BY <3>1, <3>3, <1>0 DEF HandInv, BirthsUnique
  <2>2. CASE ~Keeps(i)
    <3>1. OneNew(i)
      BY <2>2, <1>0, RuleOpKeeps DEF OneNew
    <3>2. ASSUME i # j, rule'[j].live PROVE rule'[j].born # births + 1
      BY <3>1, <3>2, <1>0 DEF OneNew, Keeps, HandInv, BirthsUnique
    <3> QED
      BY <3>1, <3>2, <1>0 DEF OneNew, Birth
  <2> QED
    BY <2>1, <2>2
<1>2. /\ hand'.todo = hand.todo /\ hand'.now = hand.now /\ hand'.left = hand.left
      /\ hand'.copy = hand.copy /\ hand.offered \subseteq hand'.offered
      /\ hand'.steady \subseteq hand.steady
      /\ at = "get" => hand' = hand
      /\ at # "get" => /\ SwitchedOn(rule') \subseteq hand'.offered
                      /\ hand'.steady \subseteq Due(rule', hand.copy)
  BY DEF ChangeRules, TypeOK, Hand
<1>3. SnapshotsAgree'
  <2> SUFFICES ASSUME NEW s \in hand.todo \cup {hand.now} PROVE Agrees(s)'
    BY <1>2 DEF SnapshotsAgree
  <2>1. s.was.born \in Births /\ Agrees(s)
    BY DEF TypeOK, Hand, Snapshot, Rule, HandInv, SnapshotsAgree
  <2>2. ASSUME NEW j \in RuleIds, Birth(s.was.born, j)'
        PROVE  j = s.id /\ (rule'[j].to = {} => rule'[j].first = s.was.first)
    BY <2>1, <2>2, <1>0, BirthsKept DEF Agrees
  <2>3. s.was.born <= births'
    BY <2>1, <1>0 DEF Agrees, Births
  <2> QED
    BY <2>2, <2>3 DEF Agrees, Birth
<1>4. LeftOffered'
  <2> SUFFICES ASSUME NEW t \in hand.left
               PROVE  \/ <<hand.now.was.born, t>> \in hand'.offered
                      \/ \A i \in RuleIds : ~Birth(hand.now.was.born, i)'
    BY <1>2 DEF LeftOffered, Birth
  <2>1. hand.now.was.born \in Births /\ hand.now.was.born <= births
    BY DEF TypeOK, Hand, Snapshot, Rule, HandInv, SnapshotsAgree, Agrees
  <2>2. ASSUME NEW i \in RuleIds, Birth(hand.now.was.born, i)'
        PROVE  Birth(hand.now.was.born, i)
    BY <2>1, <2>2, <1>0, <1>2, BirthsKept DEF Birth
  <2> QED
    BY <2>2, <1>2 DEF HandInv, LeftOffered
<1>5. Idle' /\ Watched' /\ SteadyToCome'
  <2>1. Idle'
    BY <1>0, <1>2 DEF HandInv, Idle
  <2>2. Watched'
    <3>1. at = "get" => hand'.steady = {}
      BY <1>2 DEF HandInv, Idle, EmptyHand
    <3> QED
      BY <3>1, <1>0, <1>2 DEF Watched
  <2>3. SteadyToCome'
    BY <1>0, <1>2 DEF HandInv, SteadyToCome, ToCome
  <2> QED
    BY <2>1, <2>2, <2>3
<1> QED
  BY <1>1, <1>3, <1>4, <1>5 DEF HandInv

LEMMA HandInitially == Init => HandInv
<1> SUFFICES ASSUME Init PROVE HandInv
  OBVIOUS
<1>1. /\ at = "get" /\ hand.todo = {} /\ hand.now = NoSnapshot /\ hand.left = {}
      /\ hand.steady = {} /\ births = 1 /\ NoSnapshot.was.born = 0
  BY NothingTyped DEF Init, EmptyHand, NoSnapshot
<1>2. ASSUME NEW i \in RuleIds, rule[i].live PROVE i = 1 /\ rule[i].born = 1
  <2>1. i = 1
    BY <1>2 DEF Init
  <2>2. rule[1] \in InitialRules \cup {NoRule} /\ rule[1].live
    BY <2>1 DEF Init
  <2> QED
    BY <2>1, <2>2, NothingTyped, QueueAssumption
<1>3. Idle /\ Watched /\ LeftOffered /\ SteadyToCome
  BY <1>1 DEF Init, Idle, Watched, LeftOffered, SteadyToCome
<1>4. BirthsUnique /\ SnapshotsAgree
  BY <1>1, <1>2 DEF BirthsUnique, Birth, SnapshotsAgree, Agrees
<1> QED
  BY <1>3, <1>4 DEF HandInv

LEMMA HandKept == TypeOK /\ TypeOK' /\ HandInv /\ [Next]_vars => HandInv'
<1> SUFFICES ASSUME TypeOK, TypeOK', HandInv, [Next]_vars PROVE HandInv'
  OBVIOUS
<1>0. /\ hand.todo \in SUBSET Snapshot /\ hand.now \in Snapshot
      /\ hand.left \in SUBSET Targets
  BY DEF TypeOK, Hand
<1>1. ASSUME NEW c \in Copies, Enqueue(c) PROVE HandInv'
  BY <1>1, HandStays DEF Enqueue, tables
<1>2. CASE Take
  <2>1. Head(queue) \in Copies
    BY <1>2, HeadTailProperties DEF Take, TypeOK
  <2>2. /\ at' = "is_paused" /\ hand'.copy = Head(queue) /\ hand'.todo = {}
        /\ hand'.now = NoSnapshot /\ hand'.left = {}
        /\ hand'.offered = SwitchedOn(rule) /\ hand'.steady = Due(rule, Head(queue))
        /\ UNCHANGED <<rule, births, handled>>
    BY <1>2 DEF Take, EmptyHand, tables
  <2>3. hand.now = NoSnapshot
    BY <1>2 DEF Take, HandInv, Idle, EmptyHand
  <2>4. BirthsUnique' /\ SnapshotsAgree'
    BY <2>2, <2>3 DEF HandInv, BirthsUnique, Birth, SnapshotsAgree, Agrees
  <2>5. Idle' /\ Watched' /\ LeftOffered' /\ SteadyToCome'
    BY <2>2 DEF Idle, Watched, LeftOffered, SteadyToCome
  <2> QED
    BY <2>4, <2>5 DEF HandInv
<1>3. CASE CheckPaused
  BY <1>3, HandStays, HandEmptied DEF CheckPaused, Finish, tables
<1>4. CASE Match
  <2>1. CASE MatchingRules(hand.copy) = {}
    BY <1>4, <2>1, HandEmptied DEF Match, Finish, tables
  <2>2. CASE MatchingRules(hand.copy) # {}
    <3>1. /\ at' = "targets_for" /\ hand'.todo = MatchingRules(hand.copy)
          /\ hand'.now = hand.now /\ hand'.left = hand.left /\ hand'.copy = hand.copy
          /\ hand'.offered = hand.offered /\ hand'.steady = hand.steady
          /\ UNCHANGED <<rule, births, handled>> /\ at # "get"
      BY <1>4, <2>2 DEF Match, TypeOK, Hand, tables
    <3>2. ASSUME NEW s \in MatchingRules(hand.copy) PROVE Agrees(s)
      <4>1. PICK i \in RuleIds : s.id = i /\ s.was = rule[i] /\ rule[i].live
        BY DEF MatchingRules
      <4>2. rule[i].born <= births
        BY <4>1 DEF HandInv, BirthsUnique, TypeOK, Births
      <4> QED
        BY <4>1, <4>2 DEF Agrees, HandInv, BirthsUnique
    <3>3. ASSUME NEW p \in hand.steady
          PROVE  \E s \in MatchingRules(hand.copy) : s.was.born = p[1]
      <4>1. PICK i \in RuleIds : /\ rule[i].live /\ rule[i].born = p[1]
                                /\ Matches(rule[i], hand.copy)
        BY DEF HandInv, Watched, Due
      <4>2. [id |-> i, was |-> rule[i]] \in MatchingRules(hand.copy)
        BY <4>1 DEF MatchingRules
      <4> QED
        BY <4>1, <4>2
    <3>4. BirthsUnique' /\ SnapshotsAgree'
      BY <3>1, <3>2 DEF HandInv, BirthsUnique, Birth, SnapshotsAgree, Agrees
    <3>5. Idle' /\ Watched' /\ LeftOffered'
      BY <1>4, <3>1 DEF HandInv, Idle, Watched, LeftOffered, Birth, Match
    <3>6. SteadyToCome'
      BY <3>1, <3>3 DEF SteadyToCome, ToCome
    <3> QED
      BY <3>4, <3>5, <3>6 DEF HandInv
  <2> QED
    BY <2>1, <2>2
<1>5. CASE ReadTargets
  <2>1. PICK s \in hand.todo : Proceed(hand.todo \ {s}, s, TargetsFor(s.was, s.id))
    BY <1>5 DEF ReadTargets
  <2>2. /\ at = "targets_for" /\ UNCHANGED <<rule, births, handled>>
        /\ s \in Snapshot /\ TargetsFor(s.was, s.id) \subseteq Targets
    BY <1>5, <1>0, TargetsTyped DEF ReadTargets, tables, Snapshot
  <2>3. \A r \in (hand.todo \ {s}) \cup {s} : Agrees(r)
    BY DEF HandInv, SnapshotsAgree
  <2>4. ASSUME NEW p \in hand.steady
        PROVE  \/ <<hand.copy, p[1], p[2]>> \in handled'
               \/ \E r \in hand.todo \ {s} : r.was.born = p[1]
               \/ s.was.born = p[1] /\ p[2] \in TargetsFor(s.was, s.id)
    <3>1. CASE s.was.born = p[1]
      BY <3>1, <2>2, TargetsOffered
    <3>2. CASE s.was.born # p[1]
      <4>1. ToCome(p)
        BY <2>2 DEF HandInv, SteadyToCome
      <4>2. CASE hand.now.was.born = p[1] /\ p[2] \in hand.left
        <5>1. hand.left = {}
          BY <2>2 DEF HandInv, Idle
        <5> QED
          BY <4>2, <5>1
      <4> QED
        BY <3>2, <4>1, <4>2, <2>2 DEF ToCome
    <3> QED
      BY <3>1, <3>2
  <2>5. \A t \in TargetsFor(s.was, s.id) :
          \/ <<s.was.born, t>> \in hand.offered
          \/ \A i \in RuleIds : ~Birth(s.was.born, i)
    BY <2>2, TargetsOffered
  <2> QED
    BY <2>1, <2>2, <2>3, <2>4, <2>5, <1>0, HandGoesOn
<1>6. ASSUME NEW t \in Targets, SkipTarget(t) PROVE HandInv'
  <2>1. /\ at = "deliver" /\ UNCHANGED <<rule, births>>
        /\ handled' = handled \cup {<<hand.copy, hand.now.was.born, t>>}
        /\ Proceed(hand.todo, hand.now, hand.left \ {t})
    BY <1>6 DEF SkipTarget, Handle, tables
  <2>2. /\ \A s \in hand.todo \cup {hand.now} : Agrees(s)
        /\ \A x \in hand.left \ {t} :
              \/ <<hand.now.was.born, x>> \in hand.offered
              \/ \A i \in RuleIds : ~Birth(hand.now.was.born, i)
    BY DEF HandInv, SnapshotsAgree, LeftOffered
  <2>3. \A p \in hand.steady :
          \/ <<hand.copy, p[1], p[2]>> \in handled'
          \/ \E s \in hand.todo : s.was.born = p[1]
          \/ hand.now.was.born = p[1] /\ p[2] \in hand.left \ {t}
    BY <2>1 DEF HandInv, SteadyToCome, ToCome
  <2>4. hand.left \ {t} \in SUBSET Targets
    BY <1>0
  <2> QED
    BY <2>1, <2>2, <2>3, <2>4, <1>0, HandGoesOn
<1>7. ASSUME NEW t \in Targets, StartSend(t) PROVE HandInv'
  <2>1. /\ at = "deliver" /\ at' = "send" /\ UNCHANGED <<rule, births>>
        /\ handled' = handled \cup {<<hand.copy, hand.now.was.born, t>>}
        /\ hand'.todo = hand.todo /\ hand'.now = hand.now /\ hand'.left = hand.left \ {t}
        /\ hand'.copy = hand.copy /\ hand'.offered = hand.offered
        /\ hand'.steady = hand.steady
    BY <1>7 DEF StartSend, Handle, tables, TypeOK, Hand
  <2>2. BirthsUnique' /\ SnapshotsAgree' /\ LeftOffered'
    BY <2>1 DEF HandInv, BirthsUnique, Birth, SnapshotsAgree, Agrees, LeftOffered
  <2>3. Idle' /\ Watched'
    BY <2>1 DEF HandInv, Idle, Watched
  <2>4. SteadyToCome'
    BY <2>1 DEF HandInv, SteadyToCome, ToCome
  <2> QED
    BY <2>2, <2>3, <2>4 DEF HandInv
<1>8. CASE AuditRefuses
  BY <1>8, HandStays DEF AuditRefuses, tables
<1>9. CASE SendEnds
  <2>1. /\ at \in {"send", "send_link"} /\ UNCHANGED <<rule, births, handled>>
        /\ Proceed(hand.todo, hand.now, hand.left)
    BY <1>9 DEF SendEnds, tables
  <2>2. /\ \A s \in hand.todo \cup {hand.now} : Agrees(s)
        /\ \A x \in hand.left :
              \/ <<hand.now.was.born, x>> \in hand.offered
              \/ \A i \in RuleIds : ~Birth(hand.now.was.born, i)
        /\ \A p \in hand.steady : ToCome(p)
    BY <2>1 DEF HandInv, SnapshotsAgree, LeftOffered, SteadyToCome
  <2> QED
    BY <2>1, <2>2, <1>0, HandGoesOn DEF ToCome
<1>10. CASE Error
  BY <1>10, HandEmptied DEF Error, Finish, tables
<1>11. ASSUME NEW p \in Posts, Expire(p) PROVE HandInv'
  BY <1>11, HandStays DEF Expire, tables
<1>12. CASE ChangeRules
  BY <1>12, ChangeHand
<1>13. CASE SetPaused
  BY <1>13, HandStays DEF SetPaused
<1>14. CASE Restart
  BY <1>14, HandEmptied DEF Restart
<1>15. CASE UNCHANGED vars
  BY <1>15, HandStays DEF vars
<1> QED
  BY <1>1, <1>2, <1>3, <1>4, <1>5, <1>6, <1>7, <1>8, <1>9, <1>10, <1>11, <1>12,
     <1>13, <1>14, <1>15 DEF Next, Consumer

LEMMA HandAlways == Spec => [](TypeOK /\ HandInv)
<1>1. HandInv /\ TypeOK /\ TypeOK' /\ [Next]_vars => HandInv'
  BY HandKept
<1> QED
  BY <1>1, HandInitially, TypeCorrect, PTL DEF Spec

\* However many rules, targets and changes: no target is sent to that the rule
\* had not switched on at some time since the message was taken, unless the rule
\* has been deleted (rules/service.py:61-71).
THEOREM OnlyOfferedAlways == Spec => []OnlyOffered
<1>1. TypeOK /\ HandInv => OnlyOffered
  BY DEF HandInv, LeftOffered, OnlyOffered, Birth
<1> QED
  BY <1>1, HandAlways, PTL

\* No target that is due to a message all the time is forgotten by the two loops,
\* whatever fails and is changed in between (forward_queue.py:222-252).
THEOREM NothingSkippedAlways == Spec => NothingSkipped
<1>1. ASSUME TypeOK, HandInv, [Next]_vars, NEW c \in Copies,
             fate[c] = "taken", fate'[c] \in {"unmatched", "done"}
      PROVE  \A p \in hand.steady : <<c, p[1], p[2]>> \in handled'
  <2> USE <1>1 DEF TypeOK
  \* A message that is done has no rule and no target left.
  <2>1. ASSUME NEW todo, NEW now, NEW left, Proceed(todo, now, left), at # "get",
               \A p \in hand.steady :
                 \/ <<hand.copy, p[1], p[2]>> \in handled'
                 \/ \E s \in todo : s.was.born = p[1]
                 \/ now.was.born = p[1] /\ p[2] \in left
        PROVE  \A p \in hand.steady : <<c, p[1], p[2]>> \in handled'
    <3>1. left = {} /\ todo = {} /\ c = hand.copy
      BY <1>1, <2>1 DEF Proceed, Finish
    <3> QED
      BY <3>1, <2>1
  <2>2. CASE Match
    <3>1. MatchingRules(hand.copy) = {} /\ c = hand.copy
      BY <1>1, <2>2 DEF Match, Finish
    <3>2. ASSUME NEW p \in hand.steady PROVE FALSE
      <4>1. PICK i \in RuleIds : rule[i].live /\ Matches(rule[i], hand.copy)
        BY DEF HandInv, Watched, Due
      <4>2. [id |-> i, was |-> rule[i]] \in MatchingRules(hand.copy)
        BY <4>1 DEF MatchingRules
      <4> QED
        BY <3>1, <4>2
    <3> QED
      BY <3>2
  <2>3. CASE ReadTargets
    <3>1. PICK s \in hand.todo : Proceed(hand.todo \ {s}, s, TargetsFor(s.was, s.id))
      BY <2>3 DEF ReadTargets
    <3>2. at = "targets_for" /\ handled' = handled /\ hand.left = {}
      BY <2>3 DEF ReadTargets, HandInv, Idle
    <3>3. ASSUME NEW p \in hand.steady
          PROVE  \/ <<hand.copy, p[1], p[2]>> \in handled'
                 \/ \E r \in hand.todo \ {s} : r.was.born = p[1]
                 \/ s.was.born = p[1] /\ p[2] \in TargetsFor(s.was, s.id)
      <4>1. ToCome(p)
        BY <3>2 DEF HandInv, SteadyToCome
      <4>2. s.was.born = p[1] => p[2] \in TargetsFor(s.was, s.id)
        BY <3>2, TargetsOffered
      <4> QED
        BY <4>1, <4>2, <3>2 DEF ToCome
    <3> QED
      BY <3>1, <3>2, <3>3, <2>1
  <2>4. ASSUME NEW t \in Targets, SkipTarget(t)
        PROVE  \A p \in hand.steady : <<c, p[1], p[2]>> \in handled'
    <3>1. /\ at = "deliver" /\ Proceed(hand.todo, hand.now, hand.left \ {t})
          /\ handled' = handled \cup {<<hand.copy, hand.now.was.born, t>>}
      BY <2>4 DEF SkipTarget, Handle
    <3>2. \A p \in hand.steady :
            \/ <<hand.copy, p[1], p[2]>> \in handled'
            \/ \E s \in hand.todo : s.was.born = p[1]
            \/ hand.now.was.born = p[1] /\ p[2] \in hand.left \ {t}
      BY <3>1 DEF HandInv, SteadyToCome, ToCome
    <3> QED
      BY <3>1, <3>2, <2>1
  <2>5. CASE SendEnds
    <3>1. /\ at \in {"send", "send_link"} /\ handled' = handled
          /\ Proceed(hand.todo, hand.now, hand.left)
      BY <2>5 DEF SendEnds
    <3>2. \A p \in hand.steady : ToCome(p)
      BY <3>1 DEF HandInv, SteadyToCome
    <3> QED
      BY <3>1, <3>2, <2>1 DEF ToCome
  \* The other steps end no message in this way.
  <2>6. ASSUME NEW d \in Copies, Enqueue(d) PROVE FALSE
    BY <1>1, <2>6 DEF Enqueue
  <2>7. CASE Take
    <3>1. Head(queue) \in Copies
      BY <2>7, HeadTailProperties DEF Take
    <3> QED
      BY <1>1, <2>7, <3>1 DEF Take
  <2>8. CASE CheckPaused
    BY <1>1, <2>8 DEF CheckPaused, Finish
  <2>9. CASE Error
    BY <1>1, <2>9 DEF Error, Finish
  <2>10. CASE Restart
    BY <1>1, <2>10 DEF Restart
  <2>11. CASE UNCHANGED fate
    BY <1>1, <2>11
  <2> QED
    BY <1>1, <2>2, <2>3, <2>4, <2>5, <2>6, <2>7, <2>8, <2>9, <2>10, <2>11
    DEF Next, Consumer, StartSend, AuditRefuses, Expire, ChangeRules, SetPaused, vars
<1>2. TypeOK /\ HandInv /\ [Next]_vars =>
        [\A c \in Copies :
           fate[c] = "taken" /\ fate'[c] \in {"unmatched", "done"} =>
             \A p \in hand.steady : <<c, p[1], p[2]>> \in handled']_vars
  BY <1>1
<1> QED
  BY <1>2, HandAlways, PTL DEF Spec, NothingSkipped

-----------------------------------------------------------------------------
(* Copies of one post.  A key that is registered belongs to a copy that was   *)
(* let through, and what was handled has its key registered or forgotten.    *)

Ended == {"unmatched", "done", "error", "lost"}

\* Every copy is in one place.
Placed ==
  /\ \A i \in 1..Len(queue) : fate[queue[i]] = "queued"
  /\ \A i, j \in 1..Len(queue) : queue[i] = queue[j] => i = j
  /\ \A c \in Copies : fate[c] = "taken" => at # "get" /\ c = hand.copy
  /\ at # "get" => fate[hand.copy] = "taken"

Past == at \notin {"get", "is_paused"}

KeysExplained ==
  \A p \in recent : \E d \in Copies :
    Post[d] = p /\ (fate[d] \in Ended \/ (fate[d] = "taken" /\ Past))

FateInv == Placed /\ KeysExplained /\ DuplicateJustified

Known(c) == c \in Deduped => Post[c] \in recent \cup forgot

Twins(c, d) == c # d /\ Post[c] = Post[d] /\ {c, d} \subseteq Deduped

KeyInv ==
  /\ \A x \in handled : Known(x[1])
  /\ Past => Known(hand.copy)
  /\ Past => \A x \in handled : Twins(x[1], hand.copy) => Post[x[1]] \in forgot
  /\ \A x, y \in handled : Twins(x[1], y[1]) => Post[x[1]] \in forgot

\* A consumer step that ends no message.
LEMMA FateStays ==
  ASSUME FateInv, UNCHANGED <<queue, fate>>, hand'.copy = hand.copy,
         recent' \subseteq recent, Past => Past',
         at = "get" <=> at' = "get"
  PROVE  FateInv'
<1>1. Placed'
  BY DEF FateInv, Placed
<1>2. KeysExplained'
  BY DEF FateInv, KeysExplained
<1>3. DuplicateJustified'
  BY DEF FateInv, DuplicateJustified
<1> QED
  BY <1>1, <1>2, <1>3 DEF FateInv

\* One that ends the message in hand.
LEMMA FateEnds ==
  ASSUME TypeOK, FateInv, at # "get", NEW e \in Ended, Finish(e),
         UNCHANGED <<queue, recent>>
  PROVE  FateInv'
<1>1. /\ at' = "get" /\ hand.copy \in Copies /\ fate[hand.copy] = "taken"
      /\ fate' = [fate EXCEPT ![hand.copy] = e]
      /\ \A c \in Copies : fate[c] \in Ended => fate'[c] \in Ended
      /\ e \notin {"taken", "queued", "duplicate"}
  BY DEF Finish, FateInv, Placed, TypeOK, Hand, Ended
<1>2. queue \in [1..Len(queue) -> Copies]
  BY LenProperties DEF TypeOK
<1>3. Placed'
  <2>1. \A i \in 1..Len(queue) : fate[queue[i]] = "queued" /\ queue[i] \in Copies
    BY <1>2 DEF FateInv, Placed
  <2>2. \A i \in 1..Len(queue) : fate'[queue[i]] = "queued"
    BY <1>1, <2>1 DEF TypeOK
  <2>3. \A c \in Copies : fate'[c] # "taken"
    BY <1>1 DEF FateInv, Placed, TypeOK
  <2> QED
    BY <1>1, <2>2, <2>3 DEF FateInv, Placed
<1>4. KeysExplained'
  <2> SUFFICES ASSUME NEW p \in recent
               PROVE  \E d \in Copies : Post[d] = p /\ fate'[d] \in Ended
    BY DEF KeysExplained
  <2>1. PICK d \in Copies : Post[d] = p /\ (fate[d] \in Ended \/ fate[d] = "taken")
    BY DEF FateInv, KeysExplained
  <2>2. fate'[d] \in Ended
    BY <1>1, <2>1 DEF FateInv, Placed, TypeOK
  <2> QED
    BY <2>1, <2>2
<1>5. DuplicateJustified'
  BY <1>1 DEF FateInv, DuplicateJustified, TypeOK, Ended
<1> QED
  BY <1>3, <1>4, <1>5 DEF FateInv

LEMMA FateInitially == Init => FateInv
  BY EmptySeq DEF Init, FateInv, Placed, KeysExplained, DuplicateJustified

LEMMA FateKept == TypeOK /\ TypeOK' /\ FateInv /\ [Next]_vars => FateInv'
<1> SUFFICES ASSUME TypeOK, TypeOK', FateInv, [Next]_vars PROVE FateInv'
  OBVIOUS
<1> USE DEF TypeOK
<1>0. /\ Len(queue) \in Nat /\ queue \in [1..Len(queue) -> Copies] /\ hand.copy \in Copies
      /\ \A i \in 1..Len(queue) : queue[i] \in Copies /\ fate[queue[i]] = "queued"
  BY LenProperties DEF Hand, FateInv, Placed
\* The two loops end the message or go on.
<1>g. ASSUME NEW todo, NEW now, NEW left, Proceed(todo, now, left), at # "get",
             UNCHANGED <<queue, recent>>
      PROVE  FateInv'
  <2>1. CASE left = {} /\ todo = {}
    BY <1>g, <2>1, FateEnds DEF Proceed, Ended
  <2>2. CASE ~(left = {} /\ todo = {})
    <3>1. /\ hand'.copy = hand.copy /\ at' \in {"deliver", "targets_for"}
          /\ UNCHANGED fate
      BY <1>g, <2>2 DEF Proceed, Hand
    <3> QED
      BY <1>g, <3>1, FateStays DEF Past
  <2> QED
    BY <2>1, <2>2
<1>1. ASSUME NEW c \in Copies, Enqueue(c) PROVE FateInv'
  <2>1. /\ fate[c] = "new" /\ fate'[c] \in {"queued", "dropped"}
        /\ \A d \in Copies \ {c} : fate'[d] = fate[d]
        /\ UNCHANGED <<recent, at, hand>>
    BY <1>1 DEF Enqueue
  <2>2. KeysExplained' /\ DuplicateJustified'
    <3>1. \A d \in Copies : fate[d] \in Ended \cup {"taken", "duplicate"} => d # c
      BY <2>1 DEF Ended
    <3>2. KeysExplained'
      BY <2>1, <3>1 DEF FateInv, KeysExplained, Past
    <3>3. DuplicateJustified'
      BY <2>1, <3>1 DEF FateInv, DuplicateJustified, Ended
    <3> QED
      BY <3>2, <3>3
  <2>3. CASE HasRoom
    <3>1. /\ queue' = Append(queue, c) /\ Len(queue') = Len(queue) + 1
          /\ \A i \in 1..Len(queue) : queue'[i] = queue[i]
          /\ queue'[Len(queue) + 1] = c /\ fate'[c] = "queued"
      <4>1. queue' = Append(queue, c) /\ fate'[c] = "queued"
        BY <1>1, <2>3 DEF Enqueue
      <4>2. queue \in Seq(Copies)
        OBVIOUS
      <4> QED
        BY <4>1, <4>2, AppendProperties
    <3>2. \A i \in 1..Len(queue) : queue[i] # c /\ fate'[queue[i]] = "queued"
      BY <1>0, <2>1
    <3>3. Placed'
      BY <1>0, <2>1, <3>1, <3>2 DEF FateInv, Placed
    <3> QED
      BY <2>2, <3>3 DEF FateInv
  <2>4. CASE ~HasRoom
    <3>1. queue' = queue /\ fate'[c] = "dropped"
      BY <1>1, <2>4 DEF Enqueue
    <3>2. \A i \in 1..Len(queue) : fate'[queue[i]] = "queued"
      BY <1>0, <2>1
    <3>3. Placed'
      BY <1>0, <2>1, <3>1, <3>2 DEF FateInv, Placed
    <3> QED
      BY <2>2, <3>3 DEF FateInv
  <2> QED
    BY <2>3, <2>4
<1>2. CASE Take
  <2> DEFINE h == Head(queue)
  <2>1. /\ h = queue[1] /\ h \in Copies /\ Len(queue) >= 1
        /\ Len(Tail(queue)) = Len(queue) - 1
        /\ \A i \in 1..Len(Tail(queue)) : Tail(queue)[i] = queue[i + 1]
    BY <1>2, HeadTailProperties, EmptySeq DEF Take
  <2>2. /\ at = "get" /\ at' = "is_paused" /\ hand'.copy = h /\ queue' = Tail(queue)
        /\ recent' = recent /\ fate[h] = "queued" /\ fate'[h] = "taken"
        /\ \A d \in Copies \ {h} : fate'[d] = fate[d]
    BY <1>0, <1>2, <2>1 DEF Take, EmptyHand
  <2> HIDE DEF h
  <2>3. \A d \in Copies : fate[d] \in Ended \cup {"duplicate"} => d # h
    BY <2>2 DEF Ended
  <2>4. \A d \in Copies : fate[d] # "taken"
    BY <2>2 DEF FateInv, Placed
  <2>5. KeysExplained'
    BY <2>2, <2>3, <2>4 DEF FateInv, KeysExplained
  <2>6. DuplicateJustified'
    BY <2>2, <2>3 DEF FateInv, DuplicateJustified, Ended
  <2>7. Placed'
    <3>1. ASSUME NEW i \in 1..Len(queue')
          PROVE  i + 1 \in 1..Len(queue) /\ queue'[i] = queue[i + 1] /\ queue[i + 1] # h
      <4>1. i + 1 \in 1..Len(queue) /\ 1 \in 1..Len(queue) /\ i + 1 # 1
            /\ queue'[i] = queue[i + 1]
        BY <1>0, <2>1, <2>2
      <4>2. queue[i + 1] # queue[1]
        BY <4>1 DEF FateInv, Placed
      <4> QED
        BY <4>1, <4>2, <2>1
    <3>2. \A i \in 1..Len(queue') : fate'[queue'[i]] = "queued"
      BY <1>0, <2>2, <3>1
    <3>3. \A i, j \in 1..Len(queue') : queue'[i] = queue'[j] => i = j
      <4> SUFFICES ASSUME NEW i \in 1..Len(queue'), NEW j \in 1..Len(queue'),
                          queue'[i] = queue'[j]
                   PROVE  i = j
        OBVIOUS
      <4>1. i + 1 = j + 1
        BY <3>1 DEF FateInv, Placed
      <4>2. i \in Int /\ j \in Int
        OBVIOUS
      <4> QED
        BY <4>1, <4>2
    <3> QED
      BY <2>2, <2>4, <3>2, <3>3 DEF Placed
  <2> QED
    BY <2>5, <2>6, <2>7 DEF FateInv
<1>3. CASE CheckPaused
  <2>1. /\ at = "is_paused" /\ fate[hand.copy] = "taken" /\ queue' = queue
        /\ \A p \in recent : \E d \in Copies : Post[d] = p /\ fate[d] \in Ended
    BY <1>3 DEF CheckPaused, FateInv, Placed, KeysExplained, Past
  <2>2. CASE paused \/ IsDuplicate(hand.copy)
    <3>1. PICK e \in {"paused", "duplicate"} :
            Finish(e) /\ (e = "duplicate" => IsDuplicate(hand.copy)) /\ recent' = recent
      <4>1. IsDuplicate(hand.copy) => Registered(hand.copy) = recent
        BY DEF IsDuplicate, Registered
      <4> QED
        BY <1>3, <2>2, <4>1 DEF CheckPaused
    <3>2. /\ at' = "get" /\ fate'[hand.copy] = e
          /\ \A d \in Copies \ {hand.copy} : fate'[d] = fate[d]
      BY <1>0, <3>1 DEF Finish
    <3>3. \A d \in Copies : fate[d] \in Ended => d # hand.copy
      BY <2>1 DEF Ended
    <3>4. KeysExplained'
      BY <2>1, <3>1, <3>2, <3>3 DEF KeysExplained
    <3>5. DuplicateJustified'
      <4>1. ASSUME e = "duplicate"
            PROVE  \E d \in Copies \ {hand.copy} :
                     Post[d] = Post[hand.copy] /\ fate'[d] \in Ended
        BY <4>1, <2>1, <3>1, <3>2, <3>3 DEF IsDuplicate
      <4>2. ASSUME NEW c \in Copies \ {hand.copy}, fate'[c] = "duplicate"
            PROVE  \E d \in Copies \ {c} : Post[d] = Post[c] /\ fate'[d] \in Ended
        BY <4>2, <3>2, <3>3 DEF FateInv, DuplicateJustified, Ended
      <4> QED
        BY <4>1, <4>2, <3>2 DEF DuplicateJustified, Ended
    <3>6. Placed'
      <4>1. \A i \in 1..Len(queue) : fate'[queue[i]] = "queued"
        BY <1>0, <2>1, <3>2
      <4>2. \A c \in Copies : fate'[c] # "taken"
        BY <2>1, <3>1, <3>2 DEF FateInv, Placed
      <4> QED
        BY <2>1, <3>2, <4>1, <4>2 DEF FateInv, Placed
    <3> QED
      BY <3>4, <3>5, <3>6 DEF FateInv
  <2>3. CASE ~paused /\ ~IsDuplicate(hand.copy)
    <3>1. /\ at' = "matching_rules" /\ UNCHANGED <<hand, fate>>
          /\ recent' = Registered(hand.copy)
      BY <1>3, <2>3 DEF CheckPaused
    <3>2. KeysExplained'
      BY <1>0, <2>1, <3>1 DEF KeysExplained, Registered, Past
    <3>3. Placed' /\ DuplicateJustified'
      BY <2>1, <3>1 DEF FateInv, Placed, DuplicateJustified
    <3> QED
      BY <3>2, <3>3 DEF FateInv
  <2> QED
    BY <2>2, <2>3
<1>4. CASE Match
  <2>1. CASE MatchingRules(hand.copy) = {}
    BY <1>4, <2>1, FateEnds DEF Match, Ended
  <2>2. CASE MatchingRules(hand.copy) # {}
    <3>1. hand'.copy = hand.copy
      BY <1>4, <2>2 DEF Match, Hand
    <3> QED
      BY <1>4, <2>2, <3>1, FateStays DEF Match, Past
  <2> QED
    BY <2>1, <2>2
<1>5. CASE ReadTargets
  BY <1>5, <1>g DEF ReadTargets
<1>6. ASSUME NEW t \in Targets, SkipTarget(t) PROVE FateInv'
  BY <1>6, <1>g DEF SkipTarget, Handle
<1>7. ASSUME NEW t \in Targets, StartSend(t) PROVE FateInv'
  <2>1. hand'.copy = hand.copy
    BY <1>7 DEF StartSend, Hand
  <2> QED
    BY <1>7, <2>1, FateStays DEF StartSend, Handle, Past
<1>8. CASE AuditRefuses
  BY <1>8, FateStays DEF AuditRefuses, Past
<1>9. CASE SendEnds
  BY <1>9, <1>g DEF SendEnds
<1>10. CASE Error
  BY <1>10, FateEnds DEF Error, Ended
<1>11. ASSUME NEW p \in Posts, Expire(p) PROVE FateInv'
  BY <1>11, FateStays DEF Expire, Past
<1>12. CASE ChangeRules
  <2>1. hand'.copy = hand.copy
    BY <1>12 DEF ChangeRules, Hand
  <2> QED
    BY <1>12, <2>1, FateStays DEF ChangeRules, Past
<1>13. CASE SetPaused
  BY <1>13, FateStays DEF SetPaused, Past
<1>14. CASE Restart
  <2>1. /\ queue' = <<>> /\ Len(queue') = 0 /\ recent' = {} /\ at' = "get"
        /\ \A c \in Copies : fate'[c] = IF fate[c] \in {"queued", "taken"} THEN "lost"
                                        ELSE fate[c]
    BY <1>14, EmptySeq DEF Restart
  <2>2. Placed' /\ KeysExplained'
    BY <2>1 DEF Placed, KeysExplained
  <2>3. DuplicateJustified'
    BY <2>1 DEF FateInv, DuplicateJustified, Ended
  <2> QED
    BY <2>2, <2>3 DEF FateInv
<1>15. CASE UNCHANGED vars
  BY <1>15, FateStays DEF vars, Past
<1> QED
  BY <1>1, <1>2, <1>3, <1>4, <1>5, <1>6, <1>7, <1>8, <1>9, <1>10, <1>11, <1>12,
     <1>13, <1>14, <1>15 DEF Next, Consumer

\* However many accounts and restarts: a copy is a duplicate only of one that was
\* let through (forward_queue.py:157-192).
THEOREM DuplicatesJustified == Spec => []DuplicateJustified
<1>1. FateInv /\ TypeOK /\ TypeOK' /\ [Next]_vars => FateInv'
  BY FateKept
<1>2. FateInv => DuplicateJustified
  BY DEF FateInv
<1> QED
  BY <1>1, <1>2, FateInitially, TypeCorrect, PTL DEF Spec

\* Nothing is handled, and no key is lost without being noted.
LEMMA KeyStays ==
  ASSUME KeyInv, UNCHANGED handled, recent \cup forgot \subseteq recent' \cup forgot',
         forgot \subseteq forgot',
         Past' => Past /\ hand'.copy = hand.copy
  PROVE  KeyInv'
  BY DEF KeyInv, Known

LEMMA KeyHandled ==
  ASSUME TypeOK, KeyInv, Past, NEW t \in Targets, Handle(t), hand'.copy = hand.copy \/ ~Past'
  PROVE  KeyInv'
<1>1. /\ UNCHANGED <<recent, forgot>>
      /\ \A x \in handled' : x \in handled \/ x[1] = hand.copy
  BY DEF Handle
<1>2. \A x \in handled' : Known(x[1])'
  BY <1>1 DEF KeyInv, Known
<1>3. Past' => Known(hand.copy)'
  BY <1>1 DEF KeyInv, Known
<1>4. \A x \in handled' : Twins(x[1], hand.copy) => Post[x[1]] \in forgot'
  BY <1>1 DEF KeyInv, Twins
<1>5. \A x, y \in handled' : Twins(x[1], y[1]) => Post[x[1]] \in forgot'
  <2> SUFFICES ASSUME NEW x \in handled', NEW y \in handled', Twins(x[1], y[1])
               PROVE  Post[x[1]] \in forgot'
    OBVIOUS
  <2>1. CASE x \in handled /\ y \in handled
    BY <1>1, <2>1 DEF KeyInv
  <2>2. CASE y[1] = hand.copy
    BY <1>4, <2>2
  <2>3. CASE x[1] = hand.copy
    BY <1>4, <2>3 DEF Twins
  <2> QED
    BY <1>1, <2>1, <2>2, <2>3
<1> QED
  BY <1>1, <1>2, <1>3, <1>4, <1>5 DEF KeyInv

LEMMA KeyInitially == Init => KeyInv
  BY DEF Init, KeyInv, Past

LEMMA KeyKept == TypeOK /\ TypeOK' /\ KeyInv /\ [Next]_vars => KeyInv'
<1> SUFFICES ASSUME TypeOK, TypeOK', KeyInv, [Next]_vars PROVE KeyInv'
  OBVIOUS
<1>g. ASSUME NEW todo, NEW now, NEW left, Proceed(todo, now, left)
      PROVE  hand'.copy = hand.copy \/ ~Past'
  BY <1>g DEF Proceed, Finish, Past, TypeOK, Hand
<1>1. ASSUME NEW c \in Copies, Enqueue(c) PROVE KeyInv'
  BY <1>1, KeyStays DEF Enqueue, Past
<1>2. CASE Take
  BY <1>2, KeyStays DEF Take, Past
<1>3. CASE CheckPaused
  <2>1. UNCHANGED <<handled, forgot>> /\ recent \subseteq recent'
    BY <1>3 DEF CheckPaused, Registered
  <2>2. CASE at' = "get"
    BY <2>1, <2>2, KeyStays DEF Past
  <2>3. CASE at' # "get"
    <3>1. /\ hand' = hand /\ ~IsDuplicate(hand.copy) /\ recent' = Registered(hand.copy)
      BY <1>3, <2>3 DEF CheckPaused, Finish
    <3>2. Known(hand.copy)'
      BY <3>1 DEF Known, Registered
    <3>3. ASSUME NEW x \in handled, Twins(x[1], hand.copy) PROVE Post[x[1]] \in forgot
      BY <3>1, <3>3 DEF KeyInv, Known, Twins, IsDuplicate
    <3> QED
      BY <2>1, <3>1, <3>2, <3>3 DEF KeyInv, Known
  <2> QED
    BY <2>2, <2>3
<1>4. CASE Match
  <2>1. hand'.copy = hand.copy \/ ~Past'
    BY <1>4 DEF Match, Finish, Past, TypeOK, Hand
  <2> QED
    BY <1>4, <2>1, KeyStays DEF Match, Past
<1>5. CASE ReadTargets
  <2>1. hand'.copy = hand.copy \/ ~Past'
    BY <1>5, <1>g DEF ReadTargets
  <2> QED
    BY <1>5, <2>1, KeyStays DEF ReadTargets, Past
<1>6. ASSUME NEW t \in Targets, SkipTarget(t) PROVE KeyInv'
  <2>1. hand'.copy = hand.copy \/ ~Past'
    BY <1>6, <1>g DEF SkipTarget
  <2> QED
    BY <1>6, <2>1, KeyHandled DEF SkipTarget, Handle, Past
<1>7. ASSUME NEW t \in Targets, StartSend(t) PROVE KeyInv'
  <2>1. hand'.copy = hand.copy
    BY <1>7 DEF StartSend, TypeOK, Hand
  <2> QED
    BY <1>7, <2>1, KeyHandled DEF StartSend, Handle, Past
<1>8. CASE AuditRefuses
  BY <1>8, KeyStays DEF AuditRefuses, Past
<1>9. CASE SendEnds
  <2>1. hand'.copy = hand.copy \/ ~Past'
    BY <1>9, <1>g DEF SendEnds
  <2> QED
    BY <1>9, <2>1, KeyStays DEF SendEnds, Past
<1>10. CASE Error
  BY <1>10, KeyStays DEF Error, Finish, Past
<1>11. ASSUME NEW p \in Posts, Expire(p) PROVE KeyInv'
  BY <1>11, KeyStays DEF Expire, Past
<1>12. CASE ChangeRules
  <2>1. hand'.copy = hand.copy
    BY <1>12 DEF ChangeRules, TypeOK, Hand
  <2> QED
    BY <1>12, <2>1, KeyStays DEF ChangeRules, Past
<1>13. CASE SetPaused
  BY <1>13, KeyStays DEF SetPaused, Past
<1>14. CASE Restart
  BY <1>14, KeyStays DEF Restart, Past
<1>15. CASE UNCHANGED vars
  BY <1>15, KeyStays DEF vars, Past
<1> QED
  BY <1>1, <1>2, <1>3, <1>4, <1>5, <1>6, <1>7, <1>8, <1>9, <1>10, <1>11, <1>12,
     <1>13, <1>14, <1>15 DEF Next, Consumer

\* However many accounts receive a post, one copy of it is delivered, until its
\* key expires or the process ends (forward_queue.py:157-192).
THEOREM PostOnceAlways == Spec => []PostOnce
<1>1. KeyInv /\ TypeOK /\ TypeOK' /\ [Next]_vars => KeyInv'
  BY KeyKept
<1>2. KeyInv => PostOnce
  BY DEF KeyInv, Twins, PostOnce
<1> QED
  BY <1>1, <1>2, KeyInitially, TypeCorrect, PTL DEF Spec
=============================================================================
