----------------------------- MODULE RssOutbox ------------------------------
(***************************************************************************)
(* What the RSS publisher promises about each row of its outbox, whatever  *)
(* the jobs, the users and the restarts do: entries are taken one at a     *)
(* time, a delivered entry is never taken again, and one that was given    *)
(* up or withdrawn comes back only as a fresh entry of the queue.          *)
(***************************************************************************)
CONSTANT Ids

VARIABLE life

Lives == {"absent", "queued", "taken", "delivered", "failed", "withdrawn"}

Init == life = [i \in Ids |-> "absent"]

Move(S, to) == life' = [i \in Ids |-> IF i \in S THEN to ELSE life[i]]
In(L) == {i \in Ids : life[i] \in L}

\* New entries arrive, some of them filtered out at once.
Admit ==
  \E S, T \in SUBSET In({"absent"}) :
    life' = [i \in Ids |-> IF i \in S THEN "queued"
                           ELSE IF i \in T THEN "withdrawn" ELSE life[i]]

\* Only when nothing else is being sent.
Take == /\ In({"taken"}) = {}
        /\ \E i \in In({"queued"}) : Move({i}, "taken")

Deliver == \E i \in In({"taken"}) : Move({i}, "delivered")
GiveUp == \E i \in In({"queued", "taken"}) : Move({i}, "failed")
PutBack == Move(In({"taken"}), "queued")
Withdraw == \E S \in SUBSET In({"queued", "taken", "failed"}) :
              Move(S, "withdrawn")
Revive == \E S \in SUBSET In({"failed", "withdrawn"}) : Move(S, "queued")
Forget == \E S \in SUBSET Ids : Move(S, "absent")

Next == Admit \/ Take \/ Deliver \/ GiveUp \/ PutBack \/ Withdraw \/ Revive
          \/ Forget

Spec == Init /\ [][Next]_life
=============================================================================
