-------------------------- MODULE WeixinProperties ---------------------------
(***************************************************************************)
(* What must hold of the parked messages of WeixinPending.                 *)
(***************************************************************************)
EXTENDS WeixinPending

\* No contact has more parked messages than the limit, whatever a flush under
\* way writes back (README: at most so many per contact, the oldest go).
WithinLimit == \A u \in Contacts : Len(pending[u]) <= Limit

\* A message that counts as parked is in its contact's queue, unless it was
\* parked during a flush of that contact.  So a flush forgets nothing it read,
\* at whatever message and with whatever error it stops.
ParkedIsHeld ==
  \A m \in Messages : fate[m] = "parked" => m \in Elems(pending[Target[m]])

\* A message that was delivered in full is never sent again: it is in no lane,
\* and in a queue only until the flush that delivered it writes back the rest.
DeliveredOnce ==
  \A m \in Messages : fate[m] = "delivered" =>
    /\ \A l \in Lanes : lane[l].msg # m
    /\ m \notin Elems(batch)
    /\ m \in Elems(pending[Target[m]]) => flushing = Target[m]

\* Parked messages of a contact wait, and are flushed, in the order in which
\* they were sent (README: in the original order).
Increasing(q) == \A i, j \in DOMAIN q : i < j => q[i] < q[j]
InOrder == Increasing(batch) /\ \A u \in Contacts : Increasing(pending[u])

\* Of the messages of one contact the flush sends the oldest that is held and
\* not past its time; what is past its time is never sent to anyone.
NeverSentAged ==
  [][\A m \in Messages :
       lane'["flush"].msg = m /\ lane["flush"].msg # m => m \notin aged]_vars

\* No message is parked for ever: it is delivered or dropped in the end, even
\* if its contact never writes and the server never accepts it.
ParkedEnds ==
  \A m \in Messages :
    m \in Elems(pending[Target[m]]) ~> m \notin Elems(pending[Target[m]])

\* A message reported as parked is parked, until it is delivered or dropped for
\* its age or the limit or by an error (README: not discarded, but parked).
ParkedIsKept ==
  \A m \in Messages : fate[m] \in Queued => m \in Elems(pending[Target[m]])

\* While no token can be had, parked messages stay parked (the docstring of
\* _flush_pending: kept as they are while the token is not available).
KeptWhileOffline == \A m \in Messages : fate[m] # "offline"

\* The inductive invariant behind the first four.  A running flush is sending
\* the first message of its batch, and every message of its contact that counts
\* as parked is still in the batch; queues and batch hold messages of their own
\* contact only, in the order of their numbers, and none that is still to be
\* handled by the direct lane.
FlushShape ==
  /\ flushing = None => batch = <<>> /\ lane["flush"] = Idle
  /\ flushing # None => batch # <<>> /\ lane["flush"].msg = Head(batch)
Owned ==
  /\ \A u \in Contacts : \A m \in Elems(pending[u]) : Target[m] = u
  /\ \A m \in Elems(batch) : Target[m] = flushing
BatchWithinLimit == Len(batch) <= Limit
BatchHasParked ==
  flushing # None =>
    \A m \in Messages :
      fate[m] = "parked" /\ Target[m] = flushing => m \in Elems(batch)
QueueFates ==
  \A u \in Contacts : \A m \in Elems(pending[u]) :
    fate[m] \notin {"new", "taken"} /\ (flushing # u => fate[m] = "parked")
BatchFates == \A m \in Elems(batch) : fate[m] \in {"parked", "overflow"}
DirectTaken ==
  lane["direct"] # Idle =>
    /\ lane["direct"].msg \in Messages
    /\ fate[lane["direct"].msg] = "taken"
    /\ \A k \in Messages : k > lane["direct"].msg => fate[k] = "new"
NewLast ==
  \A m, k \in Messages : m < k /\ fate[m] = "new" => fate[k] = "new"

Safe ==
  /\ WithinLimit /\ ParkedIsHeld /\ InOrder /\ FlushShape /\ Owned
  /\ BatchWithinLimit /\ BatchHasParked /\ QueueFates /\ BatchFates
  /\ DirectTaken /\ NewLast
IInv == TypeOK /\ Safe
=============================================================================
