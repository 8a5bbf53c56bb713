---------------------------- MODULE ForwardRules -----------------------------
(***************************************************************************)
(* The forwarding rules with their targets: the tables forwardrule and      *)
(* forward_target, what users may do to them, and which messages a rule     *)
(* sends where.                                                            *)
(*                                                                         *)
(* A rule's fields fall into three: the keywords, where {} stands for a     *)
(* rule without an include pattern; the targets; and all the others, its    *)
(* shape (name, source filters, template, QQ words...).  A rule with a       *)
(* hand-written regular expression has a shape of its own.  Priorities are  *)
(* left out: rules are taken in the order of their ids, and the targets of  *)
(* one rule in any order.                                                  *)
(***************************************************************************)
EXTENDS Integers, FiniteSets

CONSTANTS
  MaxRule,      \* bound: rule ids are 1..MaxRule
  MaxBirths,    \* bound: rules created in one behaviour
  Copies,       \* messages as one account receives them
  Post,         \* the post each copy is a copy of: its chat and message id
  Shapes,
  Handwritten,  \* the shapes with a hand-written regular expression
  Accepts,      \* the copies that pass the filters of each shape
  Words,
  Says,         \* the words in the text of each copy
  Targets,
  Requests,     \* the rules that users may ask for
  UserOps       \* the operations users may perform

RuleIds == 1..MaxRule
Births == 0..MaxBirths

RuleRequests ==
  {q \in [enabled: BOOLEAN, shape: Shapes, words: SUBSET Words,
          first: Targets, to: SUBSET Targets, on: SUBSET Targets] :
     q.first \in q.to /\ q.on \subseteq q.to}

ASSUME RulesAssumption ==
  /\ MaxRule \in Nat \ {0} /\ MaxBirths \in Nat
  /\ Copies # {} /\ Shapes # {} /\ Targets # {}
  /\ Handwritten \subseteq Shapes
  /\ Accepts \in [Shapes -> SUBSET Copies]
  /\ Says \in [Copies -> SUBSET Words]
  /\ Requests \subseteq RuleRequests

\* "to" are the target rows, "on" the enabled ones, "first" the legacy columns.
\* Rules from before the target table have no rows.
Rule ==
  {r \in [live: BOOLEAN, born: Births, enabled: BOOLEAN, shape: Shapes,
          words: SUBSET Words, first: Targets, to: SUBSET Targets,
          on: SUBSET Targets] : r.on \subseteq r.to}

VARIABLES
  rule,     \* the rules by id
  births    \* number of rules created

NoRule ==
  [live |-> FALSE, born |-> 0, enabled |-> FALSE,
   shape |-> CHOOSE s \in Shapes : TRUE, words |-> {},
   first |-> CHOOSE t \in Targets : TRUE, to |-> {}, on |-> {}]

Made(q, b) ==
  [live |-> TRUE, born |-> b, enabled |-> q.enabled, shape |-> q.shape,
   words |-> q.words, first |-> q.first, to |-> q.to, on |-> q.on]

-----------------------------------------------------------------------------
(* Matching.                                                               *)

Matches(r, c) ==
  /\ r.enabled /\ c \in Accepts[r.shape]
  /\ r.words # {} => r.words \cap Says[c] # {}

\* The targets a rule is known by, and those switched on: its rows, or the
\* legacy target.
TargetSet(r) == IF r.to = {} THEN {r.first} ELSE r.to
OnTargets(r) == IF r.to = {} THEN {r.first} ELSE r.on

\* Fault: the legacy target also replaces rows that are all disabled.
TargetsForFallingBack(r, i) ==
  LET rows == IF rule[i].live THEN rule[i] ELSE NoRule
  IN IF rows.on # {} THEN rows.on ELSE {r.first}

\* targets_for, of a rule r read earlier with the id i.
TargetsFor(r, i) ==
  LET rows == IF rule[i].live THEN rule[i] ELSE NoRule
  IN IF rows.to # {} THEN rows.on ELSE {r.first}

\* What is forwarded where.
CoveredBy(r) ==
  {p \in Copies \X Targets :
     Matches(r, p[1]) /\ p[2] \in OnTargets(r)}
Covered == UNION {CoveredBy(rule[i]) : i \in {j \in RuleIds : rule[j].live}}

-----------------------------------------------------------------------------
(* The operations of ForwardRuleService; each is one transaction.           *)

May(op) == op \in UserOps

\* SQLite gives out the id after the largest one in the table.
NewId(i) ==
  /\ i - 1 \in {0} \cup {j \in RuleIds : rule[j].live}
  /\ \A j \in RuleIds : j >= i => ~rule[j].live

\* Rules that differ in their keywords only, if these can be merged.
SameButWords(r, q) ==
  /\ r.live /\ r.shape = q.shape /\ r.enabled = q.enabled /\ r.first = q.first
  /\ q.shape \notin Handwritten
  /\ TargetSet(r) = q.to

Same(q) == {i \in RuleIds : SameButWords(rule[i], q)}
FirstOf(ids) == CHOOSE i \in ids : \A j \in ids : i <= j

\* Fault: the keywords asked for replace the old ones.
MergedWordsOfRequest(q) == q.words

\* A rule without keywords takes everything, so the merged one does as well.
MergedWords(q) ==
  LET all == {rule[i].words : i \in Same(q)} \cup {q.words}
  IN IF {} \in all THEN {} ELSE UNION all

\* The first of the same rules takes the words of all and the rows asked for,
\* with their switches; the others are deleted.
CreateOrMerge(q) ==
  IF Same(q) = {}
    THEN \E i \in RuleIds :
           /\ NewId(i) /\ births < MaxBirths /\ births' = births + 1
           /\ rule' = [rule EXCEPT ![i] = Made(q, births')]
    ELSE /\ rule' = [i \in RuleIds |->
              IF i = FirstOf(Same(q))
                THEN [rule[i] EXCEPT !.words = MergedWords(q), !.to = q.to,
                                     !.on = q.on]
              ELSE IF i \in Same(q) THEN NoRule ELSE rule[i]]
         /\ UNCHANGED births

UpdateRule(i, q) ==
  /\ rule[i].live
  /\ rule' = [rule EXCEPT ![i] = Made(q, rule[i].born)]
  /\ UNCHANGED births

SetRuleEnabled(i, enabled) ==
  /\ rule[i].live /\ rule' = [rule EXCEPT ![i].enabled = enabled]
  /\ UNCHANGED births

\* The copy has a name of its own, or the old one if the user says so.
DuplicateRule(i, shape, enabled) ==
  /\ rule[i].live /\ shape \in Handwritten <=> rule[i].shape \in Handwritten
  /\ Accepts[shape] = Accepts[rule[i].shape]
  /\ births < MaxBirths /\ births' = births + 1
  /\ \E k \in RuleIds :
       /\ NewId(k)
       /\ rule' = [rule EXCEPT ![k] =
            [rule[i] EXCEPT !.born = births', !.shape = shape,
                            !.enabled = enabled, !.to = TargetSet(rule[i]),
                            !.on = OnTargets(rule[i])]]

DeleteRule(i) ==
  /\ rule[i].live /\ rule' = [rule EXCEPT ![i] = NoRule] /\ UNCHANGED births

RuleOp ==
  \/ May("create") /\ \E q \in Requests : CreateOrMerge(q)
  \/ May("update") /\ \E i \in RuleIds, q \in Requests : UpdateRule(i, q)
  \/ May("enable") /\ \E i \in RuleIds, b \in BOOLEAN : SetRuleEnabled(i, b)
  \/ May("duplicate") /\ \E i \in RuleIds, s \in Shapes, b \in BOOLEAN :
                           DuplicateRule(i, s, b)
  \/ May("delete") /\ \E i \in RuleIds : DeleteRule(i)
=============================================================================
