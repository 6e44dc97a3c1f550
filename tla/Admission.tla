------------------------------ MODULE Admission -----------------------------
(***************************************************************************)
(* What dispatch promises, without saying how: a set of agents at work.    *)
(* An agent is admitted to a slot nobody works in, and, for a ticket slot  *)
(* in a status with a WIP limit, while fewer agents than the limit work    *)
(* there.  Agents leave whenever they like, many at once when the process  *)
(* dies.                                                                   *)
(***************************************************************************)
EXTENDS Naturals, FiniteSets

CONSTANTS Slots, TicketSlots, Instances, Statuses, Limited, WipLimit

VARIABLE agents

Agents == [slot : Slots, id : Instances, at : Statuses]

AgentsAt(s) == {a \in agents : a.slot \in TicketSlots /\ a.at = s}

Init == agents = {}

Admit(a) ==
  /\ \A b \in agents : b.slot # a.slot
  /\ a.slot \in TicketSlots /\ a.at \in Limited => Cardinality(AgentsAt(a.at)) < WipLimit[a.at]
  /\ agents' = agents \cup {a}

Leave == \E gone \in SUBSET agents : agents' = agents \ gone

Next == Leave \/ \E a \in Agents : Admit(a)

Spec == Init /\ [][Next]_agents
=============================================================================
