------------------------------ MODULE RecentIds ------------------------------
(***************************************************************************)
(* The duplicate filter that the Weixin channel and the QQ client each keep: *)
(* the ids of the last messages in the order they came, dropped after 300 s  *)
(* or when there are too many.                                              *)
(***************************************************************************)
EXTENDS Naturals, Sequences, Functions

CONSTANT RecentLimit \* RECENT_MESSAGE_LIMIT

ASSUME RecentAssumption == RecentLimit \in Nat \ {0}

\* What the filter may still hold when it is asked: the oldest ids may be too old,
\* and there is room for one more.
Kept(recent) ==
  {left \in {SubSeq(recent, i, Len(recent)) : i \in 1..Len(recent) + 1} :
     Len(left) < RecentLimit}

\* Fault: the id is not noted.
Unnoted(left, id) == left

\* The filter after it was asked for an id.
Noted(left, id) == IF id \in Range(left) THEN left ELSE Append(left, id)

\* The ids it has forgotten on the way.
Dropped(recent, left) == Range(recent) \ Range(left)
=============================================================================
