------------------------------- MODULE Handoff ------------------------------
(***************************************************************************)
(* How one ticket changes hands: the tools transition_with_handoff,        *)
(* reject_to_rework and increment_rework, the comments that carry their    *)
(* payloads, the webhook that looks for the payload afterwards, and the    *)
(* retries of JiraClient._request underneath.                              *)
(*                                                                         *)
(* The lease is taken to do its work here: one run at a time is on the     *)
(* ticket (AgentRun and Orchestrator look at that).  A run may fill in its *)
(* payload as it likes and die at any await; the humans move the ticket    *)
(* and comment on it whenever they like.                                   *)
(***************************************************************************)
EXTENDS Payloads, FiniteSets

CONSTANTS
  Statuses,      \* the workflow statuses of this instance
  Workflow,      \* status -> the statuses Jira has a transition to
  ReworkStatus,  \* where reject_to_rework sends the ticket
  Start,         \* where the ticket is at first
  NoStatus,
  Summaries,     \* the texts an agent may put before its payload
  Dumps,         \* what the YAML of a payload may look like, in lines
  Recent,        \* the webhook looks at this many of the comments (10)
  PageSize,      \* get_comments fetches this many, oldest first (200)
  MaxRetries,    \* JiraClient.max_retries
  MaxComments, MaxMoves, MaxFaults   \* bounds

ASSUME HandoffAssumption ==
  /\ Workflow \in [Statuses -> SUBSET Statuses]
  /\ ReworkStatus \in Statuses /\ Start \in Statuses /\ NoStatus \notin Statuses
  /\ Summaries \subseteq Seq(Lines) /\ Summaries # {}
  /\ Dumps \subseteq Seq(Lines) /\ Dumps # {}
  /\ Recent \in Nat \ {0} /\ PageSize \in Nat \ {0} /\ MaxRetries \in Nat
  /\ MaxComments \in Nat /\ MaxMoves \in Nat /\ MaxFaults \in Nat

VARIABLES
  status,      \* the ticket's status
  comments,    \* its comments; the place in the sequence is the comment's id
  rework,      \* the sentinel.rework property
  frozen,      \* it carries needs-human or handoff-invalid
  notices,     \* agent moves whose webhook may be delivered, or delivered again
  run,         \* the run at work on it
  moves,       \* history: every transition of the ticket
  flagged,     \* history: the agent moves the webhook handler objected to
  faults       \* failed calls so far

ticket == <<status, comments, rework, frozen>>
history == <<moves, flagged>>
vars == <<ticket, notices, run, history, faults>>

\* A comment is told apart by what was posted, and whether find_payload finds
\* it there.  A payload that validate_handoff or validate_rejection refuses is
\* never posted, so every one on the ticket is complete.
Comments == [kind : {"handoff", "rework", "text"}, to : Statuses \cup {NoStatus},
             found : BOOLEAN]

Text == [kind |-> "text", to |-> NoStatus, found |-> FALSE]

\* Whether the payload of a comment is found, for what the agent may write.
Findable == {FindPayload(HandoffBody(s, d), d) : s \in Summaries, d \in Dumps}

\* work     in the LLM loop, between tool calls
\* edges    _check_transition: the status is checked, the edges not yet
\* payload  about to post the rejection payload
\* recheck  _check_transition once more, for the hand-off of a rejection
\* handoff  about to post the hand-off payload
\* lookup   transition_to: about to look up the edge by the target's name
\* fire     about to post that edge
\* count    increment_rework: the comments are read, the count not yet written
RunPcs == {"idle", "work", "edges", "payload", "recheck", "handoff", "lookup",
           "fire", "count"}

RunRecords ==
  [pc    : RunPcs,
   at    : Statuses \cup {NoStatus},    \* the status it was dispatched for
   tool  : {"none", "handoff", "reject"},
   from  : Statuses \cup {NoStatus},    \* from_status of the payload
   to    : Statuses \cup {NoStatus},    \* to_status of the payload
   edge  : Statuses \cup {NoStatus},    \* where the edge it looked up begins
   seen  : Nat,                         \* id of the rejection it counts
   tries : 0..MaxRetries]               \* retries of the current request

NoRun == [pc |-> "idle", at |-> NoStatus, tool |-> "none", from |-> NoStatus,
          to |-> NoStatus, edge |-> NoStatus, seen |-> 0, tries |-> 0]

Moves == [by : {"agent", "human"}, said : Statuses, was : Statuses, to : Statuses,
          after : Nat]   \* comments on the ticket by then

TypeOK ==
  /\ status \in Statuses
  /\ comments \in Seq(Comments) /\ Len(comments) <= MaxComments
  /\ rework \in [count : Nat, last : Nat]
  /\ frozen \in BOOLEAN
  /\ notices \subseteq DOMAIN moves
  /\ run \in RunRecords
  /\ moves \in Seq(Moves) /\ Len(moves) <= MaxMoves
  /\ flagged \subseteq DOMAIN moves
  /\ faults \in 0..MaxFaults

Init ==
  /\ status = Start /\ comments = <<>> /\ rework = [count |-> 0, last |-> 0]
  /\ frozen = FALSE /\ notices = {} /\ run = NoRun
  /\ moves = <<>> /\ flagged = {} /\ faults = 0

At(pc) == run.pc = pc

Room == Len(comments) < MaxComments

\* A tool call is over; an ERROR result and success look alike from here.
Working == [NoRun EXCEPT !.pc = "work", !.at = run.at]

(***************************************************************************)
(* JiraClient._request for a POST that does Effect.  It works; or it fails *)
(* for good, before or - the answer lost on the way - after Jira has done  *)
(* it; or the answer is 429, 502, 503 or 504 and it is sent again, though  *)
(* a proxy may answer 502 or 504 for a request that has got through.       *)
(***************************************************************************)
\* Slip: one retry more.
RetriesLeftLate(n) == n <= MaxRetries

RetriesLeft(n) == n < MaxRetries

Fault == faults < MaxFaults /\ faults' = faults + 1

Sent(Effect, NoEffect, done, failed) ==
  \/ Effect /\ run' = done /\ UNCHANGED faults
  \/ (Effect \/ NoEffect) /\ Fault /\ run' = failed
  \/ (Effect \/ NoEffect) /\ Fault /\ RetriesLeft(run.tries)
     /\ run' = [run EXCEPT !.tries = @ + 1]

Posted(c) ==
  /\ Room /\ comments' = Append(comments, c)
  /\ UNCHANGED <<status, rework, frozen, notices, history>>

NotDone == UNCHANGED <<ticket, notices, history>>

\* Slip: the error is swallowed and the hand-off goes on.
PostFailedGoesOn(next) == next

\* add_comment raised a JiraError: the tool call is over.
PostFailed(next) == Working

Post(kind, to, next) ==
  \E found \in Findable :
    Sent(Posted([kind |-> kind, to |-> to, found |-> found]), NotDone, next, PostFailed(next))

(***************************************************************************)
(* A run: from the dispatch on the ticket to its terminal call, or to its  *)
(* death at any await.                                                     *)
(***************************************************************************)
\* Dispatch and claim, whose comment takes a place among the others.
Begin ==
  /\ At("idle") /\ ~frozen /\ Room
  /\ comments' = Append(comments, Text)
  /\ run' = [NoRun EXCEPT !.pc = "work", !.at = status]
  /\ UNCHANGED <<status, rework, frozen, notices, history, faults>>

\* The run crashes or is lost; finish_run and escalate look the same here.
End ==
  /\ ~At("idle")
  /\ run' = NoRun
  /\ UNCHANGED <<ticket, notices, history, faults>>

\* transition_with_handoff and reject_to_rework begin with _check_transition: a
\* payload that names another status than the ticket's is refused.  The target
\* is one that the role's document has for that status, and a router does not
\* reject.
Call(tool, to) ==
  /\ At("work") /\ to \in Workflow[status]
  /\ tool = "reject" => to = ReworkStatus /\ run.at # ReworkStatus
  /\ run' = [run EXCEPT !.pc = "edges", !.tool = tool, !.from = status, !.to = to]
  /\ UNCHANGED <<ticket, notices, history, faults>>

\* What Jira's list_transitions offers from a status.
Edge(s, t) == t \in Workflow[s]

\* The second half of _check_transition: there is an edge to the target.
CheckEdges ==
  /\ At("edges")
  /\ run' = IF ~Edge(status, run.to) THEN Working
            ELSE [run EXCEPT !.pc = IF run.tool = "reject" THEN "payload" ELSE "handoff"]
  /\ UNCHANGED <<ticket, notices, history, faults>>

\* reject_to_rework posts its payload and goes on as transition_with_handoff,
\* which checks once more.
PostRejection ==
  /\ At("payload")
  /\ Post("rework", NoStatus,
          [run EXCEPT !.pc = "recheck", !.tool = "handoff", !.tries = 0])

Recheck ==
  /\ At("recheck")
  /\ run' = IF status = run.from THEN [run EXCEPT !.pc = "edges"] ELSE Working
  /\ UNCHANGED <<ticket, notices, history, faults>>

PostHandoff ==
  /\ At("handoff")
  /\ Post("handoff", run.to, [run EXCEPT !.pc = "lookup", !.tries = 0])

\* Slip: a transition to the target is taken to exist from everywhere.
FoundEdgeAlways(s, t) == TRUE

FoundEdge(s, t) == Edge(s, t)

\* transition_to: the edge is looked up by the name of the target, from
\* wherever the ticket is by now.
Lookup ==
  /\ At("lookup")
  /\ run' = IF FoundEdge(status, run.to) THEN [run EXCEPT !.pc = "fire", !.edge = status]
            ELSE Working
  /\ UNCHANGED <<ticket, notices, history, faults>>

Moved ==
  /\ Len(moves) < MaxMoves
  /\ status' = run.to
  /\ moves' = Append(moves, [by |-> "agent", said |-> run.from, was |-> status,
                             to |-> run.to, after |-> Len(comments)])
  /\ notices' = notices \cup {Len(moves) + 1}
  /\ UNCHANGED <<comments, rework, frozen, flagged>>

\* transition_to: Jira refuses an edge that does not begin where the ticket is.
\* Success ends the run - once the calls its message still holds are answered:
\* the loop does not stop at a terminal one, nor do they ask whose ticket it is.
Fire ==
  /\ At("fire")
  /\ \/ status = run.edge /\ \E after \in {NoRun, Working} : Sent(Moved, NotDone, after, Working)
     \/ status # run.edge /\ run' = Working /\ NotDone /\ UNCHANGED faults

(***************************************************************************)
(* increment_rework.                                                       *)
(***************************************************************************)
\* get_comments: the ids of the comments on its one page.
OnPage == {i \in DOMAIN comments : i <= PageSize}

Newest(ids) == CHOOSE i \in ids : \A j \in ids : j <= i

Rejections == {i \in OnPage : comments[i].kind = "rework" /\ comments[i].found}

\* Only the router has the tool.
ReadRejection ==
  /\ At("work") /\ run.at = ReworkStatus /\ Rejections # {}
  /\ run' = [run EXCEPT !.pc = "count", !.seen = Newest(Rejections)]
  /\ UNCHANGED <<ticket, notices, history, faults>>

\* Slip: the id of the last counted rejection is not compared.
CountedTwice(id) == [count |-> rework.count + 1, last |-> id]

\* last_counted_comment keeps a run that was started again from counting the
\* same rejection twice.
Counted(id) ==
  IF rework.last = id THEN rework ELSE [count |-> rework.count + 1, last |-> id]

\* A PUT, which is safe to repeat; its error may hide that it was done.
WriteCount ==
  /\ At("count")
  /\ run' = Working
  /\ \/ rework' = Counted(run.seen) /\ UNCHANGED faults
     \/ rework' \in {rework, Counted(run.seen)} /\ Fault
  /\ UNCHANGED <<status, comments, frozen, notices, history>>

(***************************************************************************)
(* The webhook for an agent's transition (_on_status_change).  Jira may    *)
(* deliver it late, again, or not at all.                                  *)
(***************************************************************************)
\* comments[-10:] of the page.
InView == {i \in OnPage : \A j \in OnPage : j <= i + Recent - 1}

\* Slip: the newest payload must be the one.
PayloadNewestOnly(to) ==
  LET seen == {i \in InView : comments[i].kind = "handoff" /\ comments[i].found}
  IN seen # {} /\ comments[Newest(seen)].to = to

\* A recent comment carries a payload to the status the webhook names.
PayloadFor(to) ==
  \E i \in InView : comments[i].kind = "handoff" /\ comments[i].to = to /\ comments[i].found

\* The handler in one step: nothing it reads could change what it goes on to
\* write.  (A valid payload resets the retries: Orchestrator.)
OnStatusChange(i) ==
  /\ notices' \in {notices, notices \ {i}}
  /\ IF PayloadFor(moves[i].to) THEN UNCHANGED <<comments, frozen, flagged>>
     ELSE /\ Room /\ comments' = Append(comments, Text)
          /\ frozen' = TRUE
          /\ flagged' = flagged \cup {i}
  /\ UNCHANGED <<status, rework, run, moves, faults>>

(***************************************************************************)
(* Humans.                                                                 *)
(***************************************************************************)
HumanMove(s) ==
  /\ s # status /\ Len(moves) < MaxMoves
  /\ status' = s
  /\ moves' = Append(moves, [by |-> "human", said |-> status, was |-> status, to |-> s,
                             after |-> Len(comments)])
  /\ UNCHANGED <<comments, rework, frozen, notices, run, flagged, faults>>

\* Comments without a payload; those of the add_comment tool look the same.
Comment ==
  /\ Posted(Text)
  /\ UNCHANGED <<run, faults>>

\* A human has looked into it and removes the labels.
Unfreeze ==
  /\ frozen /\ frozen' = FALSE
  /\ UNCHANGED <<status, comments, rework, notices, run, history, faults>>

\* The bound on the comments is reached: the story ends here.
Full == ~Room /\ At("idle") /\ UNCHANGED vars

Tool ==
  \/ CheckEdges \/ PostRejection \/ Recheck \/ PostHandoff
  \/ Lookup \/ Fire \/ ReadRejection \/ WriteCount
  \/ \E tool \in {"handoff", "reject"}, to \in Statuses : Call(tool, to)

Next ==
  \/ Begin \/ Tool \/ End
  \/ \E i \in notices : OnStatusChange(i)
  \/ (\E s \in Statuses : HumanMove(s)) \/ Comment \/ Unfreeze \/ Full

Spec == Init /\ [][Next]_vars

(***************************************************************************)
(* Properties.                                                             *)
(***************************************************************************)
AgentMoves == {i \in DOMAIN moves : moves[i].by = "agent"}

\* A payload for move i: it names the target and is younger than the last move
\* an agent made elsewhere.
PayloadsOf(i) ==
  {j \in 1..moves[i].after :
     /\ comments[j].kind = "handoff" /\ comments[j].to = moves[i].to
     /\ \A k \in AgentMoves : k < i /\ moves[k].to # moves[i].to => moves[k].after < j}

\* tools.py:4, "a transition is impossible without a valid handoff payload":
\* each agent transition finds a payload of its own on the ticket, whatever
\* calls failed, were repeated, or were answered and not heard.
PayloadBeforeMove == \A i \in AgentMoves : PayloadsOf(i) # {}

\* ORC-5 accuses nobody wrongly: when the webhook handler objects to an agent's
\* transition, however late or often it is told of it, and whatever other
\* hand-offs came after, the payload has moved out of its view.  (For summaries
\* that close their code blocks and label none in Markdown, and payloads without
\* a fence inside: what else hides a payload from _FENCE.)
OnlyUnseenFlagged ==
  \A i \in flagged : \A j \in PayloadsOf(i) : j \notin InView

\* Phantom bounces would trip the loop-breaker early (tools.py, at already_counted):
\* the rework count never exceeds the times the ticket came to Rework, over
\* routers that crash and start again and rejections that half failed.
Bounces == {i \in DOMAIN moves : moves[i].to = ReworkStatus}

NoPhantomBounces == rework.count <= Cardinality(Bounces)

\* Humans win as far as the workflow lets them: an agent's transition leaves
\* from the status its payload names, and not from where a human has put the
\* ticket since (where the workflow has one way into each status).
LeavesWhereItSaid == \A i \in AgentMoves : moves[i].was = moves[i].said
=============================================================================
