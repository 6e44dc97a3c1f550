------------------------------ MODULE Pipeline ------------------------------
(***************************************************************************)
(* The dispatch table: what config/pipeline.yml says and validate_config   *)
(* checks before the service starts.  Nothing here changes at run time, so *)
(* it is all constants: tickets, workflow statuses, roles, the statuses a  *)
(* role watches, label gates, queue conditions and WIP limits.             *)
(***************************************************************************)
EXTENDS Naturals, FiniteSets

CONSTANTS
  Tickets,        \* the issues of the Jira project
  Statuses,       \* the workflow statuses of the project
  TicketRoles,    \* roles with trigger type "ticket": one agent per ticket
  QueueRoles,     \* roles with trigger type "queue": one agent per queue
  Router,         \* the ticket role whose id starts with "13-"
  Watches,        \* role -> the statuses it watches
  Required,       \* ticket role -> {} or the one label that activates it
  Condition,      \* queue role -> the extra predicate on its dispatch
  Anchor,         \* role -> statuses[0]
  Limited,        \* the statuses that have a WIP limit
  WipLimit,       \* limited status -> the limit
  InProgress,     \* the status capacity_in_progress counts
  ReworkLimit,    \* rework_count above this trips the loop-breaker
  Workflow,       \* status -> the statuses Jira has a transition to
  NoTicket, NoRole, NoStatus

Roles == TicketRoles \cup QueueRoles

Conditions == {"none", "capacity", "window", "interval"}

Labels == {"needs-human", "handoff-invalid", "activate", "release-now", "deploy-now"}

FreezeLabels == {"needs-human", "handoff-invalid"}

Frozen(ls) == ls \cap FreezeLabels # {}

AgentStatuses == UNION {Watches[r] : r \in Roles}

\* Settings.roles_for_status, restricted to the ticket roles.
TicketRolesFor(s) == {r \in TicketRoles : s \in Watches[r]}

\* ToolContext.rework_status: where reject_to_rework sends a ticket.  Without a
\* router nobody reads the rejection, and the status does not matter.
ReworkStatus == IF Router \in TicketRoles THEN Anchor[Router] ELSE NoStatus

\* A slot is a key of Orchestrator.running: (role_id, ticket) for a ticket
\* role, (role_id, None) for a queue role.
TicketSlots == TicketRoles \X Tickets

QueueSlots == QueueRoles \X {NoTicket}

Slots == TicketSlots \cup QueueSlots

\* What validate_config accepts: every role watches something, every label gate
\* and condition is a known one, no status has two ticket roles, and no WIP
\* limit names a status nobody watches.
ValidConfig ==
  /\ Watches \in [Roles -> (SUBSET Statuses) \ {{}}]
  /\ Required \in [TicketRoles -> SUBSET Labels]
  /\ Condition \in [QueueRoles -> Conditions]
  /\ \A r \in Roles : Anchor[r] \in Watches[r]
  /\ \A s \in Statuses : \A r1, r2 \in TicketRolesFor(s) : r1 = r2
  /\ Limited \subseteq AgentStatuses
  /\ WipLimit \in [Limited -> Nat]

ASSUME ConfigAssumption == ValidConfig

ASSUME PipelineAssumption ==
  /\ IsFiniteSet(Tickets) /\ IsFiniteSet(TicketRoles) /\ IsFiniteSet(QueueRoles)
  /\ TicketRoles \cap QueueRoles = {}
  /\ Router \notin QueueRoles
  /\ NoTicket \notin Tickets
  /\ NoRole \notin Roles
  /\ NoStatus \notin Statuses
  /\ ReworkLimit \in Nat
  /\ Workflow \in [Statuses -> SUBSET Statuses]
=============================================================================
