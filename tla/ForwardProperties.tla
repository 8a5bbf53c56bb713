-------------------------- MODULE ForwardProperties --------------------------
(***************************************************************************)
(* What the forward queue and the rules behind it promise.                  *)
(***************************************************************************)
EXTENDS ForwardQueue

\* The variables have their types, and no more messages wait than the queue
\* holds (forward_queue.py:36, 95).
TypeOK ==
  /\ rule \in [RuleIds -> Rule] /\ births \in Births /\ changes \in 0..MaxChanges /\ paused \in BOOLEAN
  /\ queue \in Seq(Copies) /\ Len(queue) <= QueueSize
  /\ recent \subseteq Posts /\ at \in Places /\ hand \in Hand
  /\ fate \in [Copies -> Fates]
  /\ handled \subseteq Copies \X Births \X Targets
  /\ forgot \subseteq Posts

\* Whatever users change between the two reads of a rule, a target that is about
\* to be sent to was switched on at some time since the message was taken, or
\* else the rule has been deleted (rules/service.py:61-71).
OnlyOffered ==
  at = "deliver" =>
    \A t \in hand.left :
      \/ <<hand.now.was.born, t>> \in hand.offered
      \/ \A i \in RuleIds : rule[i].live => rule[i].born # hand.now.was.born

\* A message leaves the consumer in the regular way only when each target that
\* was due to it all the time it was handled has been dealt with, whatever failed
\* for the targets before (forward_queue.py:222-252).
NothingSkipped ==
  [][\A c \in Copies :
       fate[c] = "taken" /\ fate'[c] \in {"unmatched", "done"} =>
         \A p \in hand.steady : <<c, p[1], p[2]>> \in handled']_vars

\* Of the copies that several accounts receive of one post, one alone is
\* delivered, until the key is forgotten (forward_queue.py:157-192).
PostOnce ==
  \A x, y \in handled :
    x[1] # y[1] /\ Post[x[1]] = Post[y[1]] /\ {x[1], y[1]} \subseteq Deduped =>
      Post[x[1]] \in forgot

\* A copy is dropped as a duplicate only after another copy of the post was
\* handled while forwarding was not paused (forward_queue.py:222-234).
DuplicateJustified ==
  \A c \in Copies : fate[c] = "duplicate" =>
    \E d \in Copies \ {c} :
      Post[d] = Post[c] /\ fate[d] \in {"unmatched", "done", "error", "lost"}

\* A rule that is added, merged with others or not, forwards what it asks for,
\* and nothing that was forwarded before is lost but what goes to the targets it
\* switches off (rules/service.py:97-174).
AddingKeepsCoverage ==
  [][\A q \in Requests : CreateOrMerge(q) =>
       /\ CoveredBy(Made(q, 0)) \subseteq Covered'
       /\ \A p \in Covered \ Covered' : p[2] \in q.to \ q.on]_<<rule, births>>

\* Every message put in the queue is dealt with in the end (forward_queue.py:131).
Processed ==
  \A c \in Copies : fate[c] = "queued" ~> fate[c] \notin {"queued", "taken"}
=============================================================================
