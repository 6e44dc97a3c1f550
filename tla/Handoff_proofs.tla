----------------------------- MODULE Handoff_proofs ---------------------------
(***************************************************************************)
(* Theorems about Handoff, for every workflow, every text an agent may     *)
(* write, every page and view of the comments, and every number of         *)
(* retries: its types, the payload before each agent transition, the       *)
(* rework count, where agents leave from, and whom the webhook accuses.    *)
(***************************************************************************)
EXTENDS Handoff, FiniteSetTheorems, SequenceTheorems, WellFoundedInduction, TLAPS

(***************************************************************************)
(* Sequences that grow at their end, and the newest of some ids.           *)
(***************************************************************************)
\* A bounded set of numbers has a greatest one.
LEMMA GreatestExists ==
  ASSUME NEW S \in SUBSET Nat, NEW n \in Nat, S # {}, \A s \in S : s <= n
  PROVE  \E i \in S : \A j \in S : j <= i
<1> DEFINE T == {t \in Nat : n - t \in S}
<1>1. T # {}
  <2>1. PICK s \in S : TRUE
    OBVIOUS
  <2>2. n - s \in Nat /\ n - (n - s) = s
    BY <2>1
  <2>3. n - s \in T
    BY <2>1, <2>2
  <2> QED BY <2>3
<1>2. PICK m \in T : \A y \in T : ~(<<y, m>> \in OpToRel(<, Nat))
  <2>1. T \subseteq Nat
    OBVIOUS
  <2> HIDE DEF T
  <2> QED BY <2>1, <1>1, WFMin, NatLessThanWellFounded, Zenon
<1>3. \A y \in T : ~(y < m)
  BY <1>2 DEF OpToRel
<1>4. m \in Nat /\ n - m \in S
  OBVIOUS
<1>5. ASSUME NEW j \in S PROVE j <= n - m
  <2>1. j \in Nat /\ j <= n
    OBVIOUS
  <2>2. n - j \in Nat /\ n - (n - j) = j
    BY <2>1
  <2>3. ~(n - j < m)
    BY <2>2, <1>3
  <2> HIDE DEF T
  <2> QED BY <2>1, <2>2, <2>3, <1>4
<1> QED BY <1>4, <1>5

\* So the newest of some ids of a sequence is one of them.
LEMMA NewestIsIn ==
  ASSUME NEW n \in Nat, NEW ids \in SUBSET (1 .. n), ids # {}
  PROVE  Newest(ids) \in ids
<1>1. ids \in SUBSET Nat /\ \A s \in ids : s <= n
  OBVIOUS
<1>2. \E i \in ids : \A j \in ids : j <= i
  BY <1>1, GreatestExists, Zenon
<1> QED BY <1>2 DEF Newest

\* What appending one element makes of a sequence.
LEMMA Appending ==
  ASSUME NEW S, NEW s \in Seq(S), NEW e \in S
  PROVE  /\ Append(s, e) \in Seq(S)
         /\ Len(Append(s, e)) = Len(s) + 1
         /\ DOMAIN s = 1 .. Len(s)
         /\ DOMAIN Append(s, e) = 1 .. Len(s) + 1
         /\ Append(s, e)[Len(s) + 1] = e
         /\ \A i \in DOMAIN s : Append(s, e)[i] = s[i]
OBVIOUS

(***************************************************************************)
(* What the steps that send a request do.                                  *)
(***************************************************************************)
\* The request goes out again.
Again == run.tries < MaxRetries /\ run' = [run EXCEPT !.tries = @ + 1]

\* A post that works is heard of, and the run goes on; otherwise the comment
\* may be there all the same.
LEMMA PostingRejection ==
  ASSUME TypeOK, PostRejection
  PROVE  /\ At("payload")
         /\ UNCHANGED <<status, rework, frozen, notices, moves, flagged>>
         /\ \/ comments' = comments
            \/ Room /\ \E found \in Findable :
                 comments' = Append(comments, [kind |-> "rework", to |-> NoStatus, found |-> found])
         /\ \/ run' = [run EXCEPT !.pc = "recheck", !.tool = "handoff", !.tries = 0]
            \/ run' = Working
            \/ Again
         /\ faults' = faults \/ Fault
BY DEF PostRejection, Post, Sent, Posted, NotDone, PostFailed, RetriesLeft, Again, ticket, history

\* The run goes on to look up its transition only behind a payload of its own.
LEMMA PostingHandoff ==
  ASSUME TypeOK, PostHandoff
  PROVE  /\ At("handoff")
         /\ UNCHANGED <<status, rework, frozen, notices, moves, flagged>>
         /\ \/ comments' = comments
            \/ Room /\ \E found \in Findable :
                 comments' = Append(comments, [kind |-> "handoff", to |-> run.to, found |-> found])
         /\ \/ comments' # comments /\ run' = [run EXCEPT !.pc = "lookup", !.tries = 0]
            \/ run' = Working
            \/ Again
         /\ faults' = faults \/ Fault
<1>1. ASSUME NEW found \in Findable,
             comments' = Append(comments, [kind |-> "handoff", to |-> run.to, found |-> found])
      PROVE  comments' # comments
  BY <1>1 DEF TypeOK
<1> QED BY <1>1 DEF PostHandoff, Post, Sent, Posted, NotDone, PostFailed, RetriesLeft, Again, ticket, history

\* A transition happens where the edge begins, or the ticket stays; unless it is
\* sent again the call is over.
LEMMA Firing ==
  ASSUME TypeOK, Fire
  PROVE  /\ At("fire")
         /\ UNCHANGED <<comments, rework, frozen, flagged>>
         /\ \/ UNCHANGED <<status, moves, notices>>
            \/ status = run.edge /\ Moved
         /\ run' \in {NoRun, Working} \/ Again
         /\ faults' = faults \/ Fault
BY DEF Fire, Sent, Moved, NotDone, RetriesLeft, Again, ticket, history

(***************************************************************************)
(* Types.                                                                  *)
(***************************************************************************)
\* What may be posted is a comment.
LEMMA PostedTypes ==
  /\ Text \in Comments
  /\ \A found \in Findable :
       [kind |-> "rework", to |-> NoStatus, found |-> found] \in Comments
  /\ \A found \in Findable, s \in Statuses \cup {NoStatus} :
       [kind |-> "handoff", to |-> s, found |-> found] \in Comments
<1>1. \A s \in Summaries, d \in Dumps : FindPayload(HandoffBody(s, d), d) \in BOOLEAN
  BY DEF FindPayload
<1>2. Findable \subseteq BOOLEAN
  BY <1>1 DEF Findable
<1> QED BY <1>2 DEF Text, Comments

LEMMA NoRetries == 0 \in 0 .. MaxRetries
BY HandoffAssumption

\* A run between calls, one at rest and one that sends again are runs.
LEMMA RunTypes ==
  ASSUME TypeOK
  PROVE  /\ NoRun \in RunRecords /\ Working \in RunRecords
         /\ Again => run' \in RunRecords
<1>1. NoRun \in RunRecords /\ Working \in RunRecords
  BY NoRetries DEF TypeOK, RunRecords, RunPcs, NoRun, Working
<1>2. ASSUME Again PROVE run' \in RunRecords
  <2>1. run.tries + 1 \in 0 .. MaxRetries
    BY <1>2, HandoffAssumption DEF TypeOK, RunRecords, Again
  <2> QED BY <1>2, <2>1 DEF TypeOK, RunRecords, Again
<1> QED BY <1>1, <1>2

\* The newest rejection is the id of a comment, so the count is typed.
LEMMA RejectionTypes ==
  ASSUME TypeOK
  PROVE  /\ Rejections \in SUBSET (1 .. Len(comments))
         /\ Rejections # {} => Newest(Rejections) \in Rejections /\ Newest(Rejections) \in Nat
<1>1. Rejections \in SUBSET (1 .. Len(comments)) /\ Len(comments) \in Nat
  BY DEF TypeOK, Rejections, OnPage
<1>2. Rejections # {} => Newest(Rejections) \in Rejections
  <2> HIDE DEF Rejections
  <2> QED BY <1>1, NewestIsIn, Zenon
<1>3. \A i \in Rejections : i \in Nat
  BY <1>1
<1> QED BY <1>1, <1>2, <1>3

\* A comment more, where there is room.
LEMMA CommentTypes ==
  ASSUME TypeOK, Room, NEW c \in Comments, comments' = Append(comments, c)
  PROVE  comments' \in Seq(Comments) /\ Len(comments') <= MaxComments
BY HandoffAssumption DEF TypeOK, Room

\* A move more.
LEMMA MoveTypes ==
  ASSUME TypeOK, Len(moves) < MaxMoves, NEW m \in Moves, moves' = Append(moves, m)
  PROVE  /\ moves' \in Seq(Moves) /\ Len(moves') <= MaxMoves
         /\ DOMAIN moves' = DOMAIN moves \cup {Len(moves) + 1}
BY HandoffAssumption DEF TypeOK

LEMMA FaultTypes ==
  ASSUME TypeOK, faults' = faults \/ Fault
  PROVE  faults' \in 0 .. MaxFaults
BY HandoffAssumption DEF TypeOK, Fault

LEMMA InitTypes ==
  ASSUME Init
  PROVE  TypeOK
<1>1. NoRun \in RunRecords
  BY NoRetries DEF NoRun, RunRecords, RunPcs
<1>2. 0 \in 0 .. MaxFaults /\ 0 <= MaxComments /\ 0 <= MaxMoves
  BY HandoffAssumption
<1>3. /\ comments \in Seq(Comments) /\ Len(comments) = 0
      /\ moves \in Seq(Moves) /\ Len(moves) = 0
  BY EmptySeq DEF Init
<1>4. rework \in [count : Nat, last : Nat]
  BY DEF Init
<1> QED BY <1>1, <1>2, <1>3, <1>4, HandoffAssumption DEF Init, TypeOK

\* A call under way leaves one status for another along an edge of the workflow,
\* and the edge it has looked up leads there too.
UnderWay == {"edges", "payload", "recheck", "handoff", "lookup", "fire"}

CallNamed ==
  /\ run.pc \in UnderWay =>
       run.from \in Statuses /\ run.to \in Statuses /\ run.to \in Workflow[run.from]
  /\ At("fire") => run.edge \in Statuses /\ run.to \in Workflow[run.edge]

LEMMA ToolTypes ==
  ASSUME TypeOK, CallNamed, Tool
  PROVE  TypeOK'
<1> USE DEF ticket, history
<1>1. CASE CheckEdges
  BY <1>1, RunTypes DEF TypeOK, CheckEdges, RunRecords, RunPcs
<1>2. CASE PostRejection
  <2>1. comments' \in Seq(Comments) /\ Len(comments') <= MaxComments
    BY <1>2, PostingRejection, CommentTypes, PostedTypes DEF TypeOK
  <2>2. run' \in RunRecords
    <3>1. [run EXCEPT !.pc = "recheck", !.tool = "handoff", !.tries = 0] \in RunRecords
      BY NoRetries DEF TypeOK, RunRecords, RunPcs
    <3> QED BY <1>2, <3>1, PostingRejection, RunTypes
  <2> QED BY <1>2, <2>1, <2>2, PostingRejection, FaultTypes DEF TypeOK
<1>3. CASE Recheck
  BY <1>3, RunTypes DEF TypeOK, Recheck, RunRecords, RunPcs
<1>4. CASE PostHandoff
  <2>1. comments' \in Seq(Comments) /\ Len(comments') <= MaxComments
    BY <1>4, PostingHandoff, CommentTypes, PostedTypes DEF TypeOK, RunRecords
  <2>2. run' \in RunRecords
    <3>1. [run EXCEPT !.pc = "lookup", !.tries = 0] \in RunRecords
      BY NoRetries DEF TypeOK, RunRecords, RunPcs
    <3> QED BY <1>4, <3>1, PostingHandoff, RunTypes
  <2> QED BY <1>4, <2>1, <2>2, PostingHandoff, FaultTypes DEF TypeOK
<1>5. CASE Lookup
  BY <1>5, RunTypes DEF TypeOK, Lookup, RunRecords, RunPcs
<1>6. CASE Fire
  <2>1. run' \in RunRecords
    BY <1>6, Firing, RunTypes
  <2>2. CASE UNCHANGED <<status, moves, notices>>
    BY <1>6, <2>1, <2>2, Firing, FaultTypes DEF TypeOK
  <2>3. CASE Moved
    <3>1. run.from \in Statuses /\ run.to \in Statuses
      BY <1>6, Firing DEF CallNamed, UnderWay, At
    <3>2. [by |-> "agent", said |-> run.from, was |-> status, to |-> run.to,
           after |-> Len(comments)] \in Moves
      BY <3>1 DEF TypeOK, Moves
    <3>3. /\ moves' \in Seq(Moves) /\ Len(moves') <= MaxMoves
          /\ DOMAIN moves' = DOMAIN moves \cup {Len(moves) + 1}
      BY <2>3, <3>2, MoveTypes DEF Moved
    <3> QED BY <1>6, <2>1, <2>3, <3>1, <3>3, Firing, FaultTypes DEF TypeOK, Moved
  <2> QED BY <1>6, <2>2, <2>3, Firing
<1>7. CASE ReadRejection
  BY <1>7, RejectionTypes DEF TypeOK, ReadRejection, RunRecords, RunPcs
<1>8. CASE WriteCount
  <2>1. Counted(run.seen) \in [count : Nat, last : Nat]
    BY DEF TypeOK, Counted, RunRecords
  <2> QED BY <1>8, <2>1, RunTypes, FaultTypes DEF TypeOK, WriteCount
<1>9. CASE \E tool \in {"handoff", "reject"}, to \in Statuses : Call(tool, to)
  BY <1>9 DEF TypeOK, Call, RunRecords, RunPcs
<1> QED BY <1>1, <1>2, <1>3, <1>4, <1>5, <1>6, <1>7, <1>8, <1>9 DEF Tool

LEMMA NextTypes ==
  ASSUME TypeOK, CallNamed, [Next]_vars
  PROVE  TypeOK'
<1> USE DEF ticket, history
<1>1. CASE Begin
  <2>1. run' \in RunRecords
    BY <1>1, NoRetries DEF TypeOK, Begin, NoRun, RunRecords, RunPcs
  <2>2. comments' \in Seq(Comments) /\ Len(comments') <= MaxComments
    BY <1>1, CommentTypes, PostedTypes DEF Begin
  <2> QED BY <1>1, <2>1, <2>2 DEF TypeOK, Begin
<1>2. CASE Tool
  BY <1>2, ToolTypes
<1>3. CASE End
  BY <1>3, RunTypes DEF TypeOK, End
<1>4. CASE \E i \in notices : OnStatusChange(i)
  <2>1. comments' \in Seq(Comments) /\ Len(comments') <= MaxComments
    BY <1>4, CommentTypes, PostedTypes DEF TypeOK, OnStatusChange
  <2> QED BY <1>4, <2>1 DEF TypeOK, OnStatusChange
<1>5. CASE \E s \in Statuses : HumanMove(s)
  <2>1. PICK s \in Statuses : HumanMove(s)
    BY <1>5
  <2>2. [by |-> "human", said |-> status, was |-> status, to |-> s,
         after |-> Len(comments)] \in Moves
    BY DEF TypeOK, Moves
  <2>3. /\ moves' \in Seq(Moves) /\ Len(moves') <= MaxMoves
        /\ DOMAIN moves' = DOMAIN moves \cup {Len(moves) + 1}
    BY <2>1, <2>2, MoveTypes DEF HumanMove
  <2> QED BY <2>1, <2>3 DEF TypeOK, HumanMove
<1>6. CASE Comment
  BY <1>6, CommentTypes, PostedTypes DEF TypeOK, Comment, Posted
<1>7. CASE Unfreeze
  BY <1>7 DEF TypeOK, Unfreeze
<1>8. CASE UNCHANGED vars
  BY <1>8 DEF TypeOK, vars
<1> QED BY <1>1, <1>2, <1>3, <1>4, <1>5, <1>6, <1>7, <1>8 DEF Next, Full

\* A call is checked against the workflow before it begins and its edge before
\* it fires; no other step touches what it names.
LEMMA NextCallNamed ==
  ASSUME TypeOK, CallNamed, [Next]_vars
  PROVE  CallNamed'
<1> USE DEF CallNamed, UnderWay, At, TypeOK, RunRecords
<1>1. CASE run' = Working \/ run' = NoRun \/ UNCHANGED run
  <2>1. Working.pc = "work" /\ NoRun.pc = "idle"
    BY DEF Working, NoRun
  <2>2. UNCHANGED run => CallNamed'
    OBVIOUS
  <2> QED BY <1>1, <2>1, <2>2
<1>2. CASE Again
  BY <1>2 DEF Again
<1>3. CASE Begin \/ ReadRejection
  BY <1>3 DEF Begin, ReadRejection, NoRun
<1>4. CASE CheckEdges \/ Recheck
  BY <1>4, <1>1 DEF CheckEdges, Recheck
<1>5. CASE PostRejection
  BY <1>1, <1>2, <1>5, PostingRejection
<1>6. CASE PostHandoff
  BY <1>1, <1>2, <1>6, PostingHandoff
<1>7. CASE Lookup
  BY <1>1, <1>7 DEF Lookup, FoundEdge, Edge
<1>8. CASE Fire
  BY <1>1, <1>2, <1>8, Firing
<1>9. CASE \E tool \in {"handoff", "reject"}, to \in Statuses : Call(tool, to)
  BY <1>9 DEF Call
<1>10. CASE \/ WriteCount \/ End \/ Comment \/ Unfreeze \/ UNCHANGED vars
            \/ \E i \in notices : OnStatusChange(i)
            \/ \E s \in Statuses : HumanMove(s)
  BY <1>1, <1>10 DEF WriteCount, End, Comment, Unfreeze, OnStatusChange, HumanMove, vars
<1> QED BY <1>3, <1>4, <1>5, <1>6, <1>7, <1>8, <1>9, <1>10 DEF Next, Tool, Full

LEMMA InitCallNamed ==
  ASSUME Init
  PROVE  CallNamed
<1>1. run.pc = "idle"
  BY DEF Init, NoRun
<1> QED BY <1>1 DEF CallNamed, UnderWay, At

LEMMA TypeInvariant == Spec => [](TypeOK /\ CallNamed)
<1>1. Init => TypeOK /\ CallNamed
  BY InitTypes, InitCallNamed
<1>2. TypeOK /\ CallNamed /\ [Next]_vars => (TypeOK /\ CallNamed)'
  BY NextTypes, NextCallNamed
<1> QED BY <1>1, <1>2, PTL DEF Spec

\* Every state is well typed: no id is read off an empty set of rejections, and
\* no request is repeated more often than max_retries allows.
THEOREM TypeCorrect == Spec => []TypeOK
BY TypeInvariant, PTL

(***************************************************************************)
(* Comments and moves only grow.                                           *)
(***************************************************************************)
\* Only the two posting steps add more than text.
LEMMA CommentsGrow ==
  ASSUME TypeOK, [Next]_vars
  PROVE  \/ comments' = comments
         \/ \E c \in Comments :
              /\ comments' = Append(comments, c)
              /\ c.kind = "text" \/ c.found \in Findable
              /\ c.kind = "rework" => PostRejection
<1>1. CASE PostRejection
  BY <1>1, PostingRejection, PostedTypes
<1>2. CASE PostHandoff
  <2>1. run.to \in Statuses \cup {NoStatus}
    BY DEF TypeOK, RunRecords
  <2> QED BY <1>2, <2>1, PostingHandoff, PostedTypes
<1>3. CASE Begin \/ Comment \/ \E i \in notices : OnStatusChange(i)
  <2>1. Text.kind = "text"
    BY DEF Text
  <2> QED BY <1>3, <2>1, PostedTypes DEF Begin, Comment, Posted, OnStatusChange
<1>4. CASE Fire
  BY <1>4, Firing
<1>5. CASE \/ CheckEdges \/ Recheck \/ Lookup \/ ReadRejection \/ WriteCount \/ End
           \/ Unfreeze \/ UNCHANGED vars
           \/ \E tool \in {"handoff", "reject"}, to \in Statuses : Call(tool, to)
           \/ \E s \in Statuses : HumanMove(s)
  BY <1>5 DEF CheckEdges, Recheck, Lookup, ReadRejection, WriteCount, End, Unfreeze,
     Call, HumanMove, vars, ticket
<1> QED BY <1>1, <1>2, <1>3, <1>4, <1>5 DEF Next, Tool, Full

LEMMA CommentsStay ==
  ASSUME TypeOK, [Next]_vars
  PROVE  /\ Len(comments) \in Nat /\ Len(comments') \in Nat
         /\ DOMAIN comments = 1 .. Len(comments) /\ DOMAIN comments' = 1 .. Len(comments')
         /\ Len(comments) <= Len(comments')
         /\ \A j \in DOMAIN comments : comments'[j] = comments[j]
BY CommentsGrow DEF TypeOK

\* A move is made by a human or by the one call under way.
LEMMA MovesGrow ==
  ASSUME TypeOK, [Next]_vars
  PROVE  \/ moves' = moves
         \/ Fire /\ Moved /\ status = run.edge
         \/ \E s \in Statuses : HumanMove(s)
<1>1. CASE Fire
  BY <1>1, Firing
<1>2. CASE PostRejection \/ PostHandoff
  BY <1>2, PostingRejection, PostingHandoff
<1>3. CASE \/ CheckEdges \/ Recheck \/ Lookup \/ ReadRejection \/ WriteCount \/ End \/ Begin
           \/ Comment \/ Unfreeze \/ UNCHANGED vars
           \/ \E tool \in {"handoff", "reject"}, to \in Statuses : Call(tool, to)
           \/ \E i \in notices : OnStatusChange(i)
  BY <1>3 DEF CheckEdges, Recheck, Lookup, ReadRejection, WriteCount, End, Begin, Unfreeze,
     Comment, Posted, Call, OnStatusChange, vars, history
<1> QED BY <1>1, <1>2, <1>3 DEF Next, Tool, Full

\* What a move leaves behind: itself at the end, and the comments as they were.
LEMMA MoveAppended ==
  ASSUME TypeOK, [Next]_vars, moves' # moves
  PROVE  \E m : /\ moves' = Append(moves, m)
                /\ m.after = Len(comments) /\ comments' = comments
                /\ status' = m.to
                /\ \/ m.by = "human"
                   \/ /\ Fire /\ status = run.edge
                      /\ m.by = "agent" /\ m.said = run.from /\ m.was = status /\ m.to = run.to
<1>1. CASE Fire /\ Moved /\ status = run.edge
  BY <1>1 DEF Moved
<1>2. CASE \E s \in Statuses : HumanMove(s)
  BY <1>2 DEF HumanMove
<1> QED BY <1>1, <1>2, MovesGrow

LEMMA MovesStay ==
  ASSUME TypeOK, [Next]_vars
  PROVE  /\ Len(moves) \in Nat /\ DOMAIN moves = 1 .. Len(moves)
         /\ DOMAIN moves' = DOMAIN moves \/ DOMAIN moves' = DOMAIN moves \cup {Len(moves) + 1}
         /\ \A k \in DOMAIN moves : moves'[k] = moves[k]
<1>1. CASE moves' = moves
  BY <1>1 DEF TypeOK
<1>2. CASE moves' # moves
  <2>1. PICK m : moves' = Append(moves, m)
    BY <1>2, MoveAppended
  <2> QED BY <2>1 DEF TypeOK
<1> QED BY <1>1, <1>2

(***************************************************************************)
(* The payload before the move.  A call that is past its post has a        *)
(* payload of its own on the ticket, younger than whatever an agent did    *)
(* elsewhere; the comments stay, so the payload is still there when the    *)
(* transition goes through - the first time, or a repeated one.            *)
(***************************************************************************)
\* A payload for a transition to `to`, younger than every agent move elsewhere.
Fresh(j, to) ==
  /\ comments[j].kind = "handoff" /\ comments[j].to = to
  /\ \A k \in AgentMoves : moves[k].to # to => moves[k].after < j

MovesAfter == \A k \in DOMAIN moves : moves[k].after <= Len(comments)

PayloadReady ==
  run.pc \in {"lookup", "fire"} => \E j \in DOMAIN comments : Fresh(j, run.to)

PayloadInv == TypeOK /\ CallNamed /\ MovesAfter /\ PayloadReady /\ PayloadBeforeMove

LEMMA MovesAfterTypes ==
  ASSUME TypeOK, MovesAfter
  PROVE  \A k \in DOMAIN moves : moves[k].after \in Nat /\ moves[k].after <= Len(comments)
<1>1. \A k \in DOMAIN moves : moves[k] \in Moves
  BY DEF TypeOK
<1> QED BY <1>1 DEF Moves, MovesAfter

LEMMA NextMovesAfter ==
  ASSUME TypeOK, MovesAfter, [Next]_vars
  PROVE  MovesAfter'
<1>1. CASE moves' = moves
  BY <1>1, MovesAfterTypes, CommentsStay DEF MovesAfter
<1>2. CASE moves' # moves
  <2>1. PICK m : moves' = Append(moves, m) /\ m.after = Len(comments) /\ comments' = comments
    BY <1>2, MoveAppended
  <2> QED BY <2>1 DEF MovesAfter, TypeOK
<1> QED BY <1>1, <1>2

\* Without an agent's move a payload stays fresh.
LEMMA FreshStays ==
  ASSUME TypeOK, [Next]_vars, NEW j \in DOMAIN comments, NEW to, Fresh(j, to),
         \A k \in DOMAIN moves' \ DOMAIN moves : moves'[k].by = "agent" => moves'[k].to = to
  PROVE  Fresh(j, to)'
BY CommentsStay, MovesStay DEF Fresh, AgentMoves

\* The call in flight is the only one, so nothing but its own transition can
\* come between its payload and its transition.
LEMMA NextPayloadReady ==
  ASSUME TypeOK, MovesAfter, PayloadReady, [Next]_vars
  PROVE  PayloadReady'
<1> SUFFICES ASSUME NEW target, run'.to = target, run'.pc \in {"lookup", "fire"}
             PROVE  \E j \in DOMAIN comments' : Fresh(j, target)'
  BY DEF PayloadReady, Fresh
<1>1. \/ PostHandoff /\ run.to = target /\ comments' # comments
      \/ run.pc \in {"lookup", "fire"} /\ run.to = target
  <2> USE DEF TypeOK, RunRecords
  <2>1. CASE run' = Working \/ run' = NoRun \/ UNCHANGED run
    <3>1. Working.pc = "work" /\ NoRun.pc = "idle"
      BY DEF Working, NoRun
    <3> QED BY <2>1, <3>1
  <2>2. CASE Again
    BY <2>2 DEF Again
  <2>3. CASE Begin \/ ReadRejection \/ CheckEdges \/ Recheck
    BY <2>1, <2>3 DEF Begin, ReadRejection, CheckEdges, Recheck, NoRun
  <2>4. CASE PostRejection
    BY <2>1, <2>2, <2>4, PostingRejection
  <2>5. CASE PostHandoff
    BY <2>1, <2>2, <2>5, PostingHandoff
  <2>6. CASE Lookup
    BY <2>1, <2>6 DEF Lookup, At
  <2>7. CASE Fire
    BY <2>1, <2>2, <2>7, Firing
  <2>8. CASE \E tool \in {"handoff", "reject"}, to \in Statuses : Call(tool, to)
    BY <2>8 DEF Call
  <2>9. CASE \/ WriteCount \/ End \/ Comment \/ Unfreeze \/ UNCHANGED vars
             \/ \E i \in notices : OnStatusChange(i)
             \/ \E s \in Statuses : HumanMove(s)
    BY <2>1, <2>9 DEF WriteCount, End, Comment, Unfreeze, OnStatusChange, HumanMove, vars
  <2> QED BY <2>3, <2>4, <2>5, <2>6, <2>7, <2>8, <2>9 DEF Next, Tool, Full
<1>2. CASE PostHandoff /\ run.to = target /\ comments' # comments
  <2>1. PICK found \in Findable :
          comments' = Append(comments, [kind |-> "handoff", to |-> target, found |-> found])
    BY <1>2, PostingHandoff
  <2>2. moves' = moves
    BY <1>2, PostingHandoff
  <2>j. PICK j \in Nat : j = Len(comments) + 1
    BY DEF TypeOK
  <2>3. /\ j \in DOMAIN comments'
        /\ comments'[j].kind = "handoff" /\ comments'[j].to = target
    BY <2>j, <2>1 DEF TypeOK
  <2>4. \A k \in DOMAIN moves : moves[k].after < j
    BY <2>j, MovesAfterTypes DEF TypeOK
  <2>5. Fresh(j, target)'
    BY <2>2, <2>3, <2>4 DEF Fresh, AgentMoves
  <2> QED BY <2>3, <2>5
<1>3. CASE run.pc \in {"lookup", "fire"} /\ run.to = target
  <2>1. PICK j \in DOMAIN comments : Fresh(j, target)
    BY <1>3 DEF PayloadReady
  <2>2. \A k \in DOMAIN moves' \ DOMAIN moves : moves'[k].by = "agent" => moves'[k].to = target
    <3>1. CASE moves' = moves
      BY <3>1
    <3>2. CASE moves' # moves
      <4>1. PICK m : moves' = Append(moves, m) /\ (m.by = "agent" => m.to = run.to)
        BY <3>2, MoveAppended
      <4> QED BY <1>3, <4>1 DEF TypeOK
    <3> QED BY <3>1, <3>2
  <2>3. Fresh(j, target)'
    BY <2>1, <2>2, FreshStays
  <2>4. j \in DOMAIN comments'
    BY CommentsStay
  <2> QED BY <2>3, <2>4
<1> QED BY <1>1, <1>2, <1>3

\* The payloads of a move that is made are what they were.
LEMMA PayloadsStay ==
  ASSUME TypeOK, MovesAfter, [Next]_vars, NEW i \in DOMAIN moves
  PROVE  PayloadsOf(i)' = PayloadsOf(i)
<1>1. moves'[i] = moves[i] /\ moves[i].after \in Nat /\ moves[i].after <= Len(comments)
  BY MovesStay, MovesAfterTypes
<1>2. \A j \in 1 .. moves[i].after : comments'[j] = comments[j]
  BY <1>1, CommentsStay
<1>3. \A k : k \in AgentMoves' /\ k < i <=> k \in AgentMoves /\ k < i
  BY MovesStay DEF AgentMoves
<1>4. \A k \in AgentMoves : moves'[k] = moves[k]
  BY MovesStay DEF AgentMoves
<1> QED BY <1>1, <1>2, <1>3, <1>4 DEF PayloadsOf

LEMMA NextPayloadBeforeMove ==
  ASSUME PayloadInv, [Next]_vars
  PROVE  PayloadBeforeMove'
<1> USE DEF PayloadInv
<1> SUFFICES ASSUME NEW i \in AgentMoves'
             PROVE  PayloadsOf(i)' # {}
  BY DEF PayloadBeforeMove
<1>1. CASE i \in DOMAIN moves
  BY <1>1, MovesStay, PayloadsStay DEF PayloadBeforeMove, AgentMoves
<1>2. CASE i \notin DOMAIN moves
  <2>1. moves' # moves
    BY <1>2 DEF AgentMoves
  <2>2. PICK m : /\ moves' = Append(moves, m) /\ m.after = Len(comments) /\ comments' = comments
                 /\ m.by = "agent" => Fire /\ m.to = run.to
    BY <2>1, MoveAppended
  <2>3. i = Len(moves) + 1 /\ moves'[i] = m /\ m.by = "agent"
    BY <1>2, <2>2 DEF AgentMoves, TypeOK
  <2>4. PICK j \in DOMAIN comments : Fresh(j, run.to)
    BY <2>2, <2>3, Firing DEF PayloadReady, At
  <2>5. j \in PayloadsOf(i)'
    BY <2>2, <2>3, <2>4, MovesStay, CommentsStay DEF PayloadsOf, Fresh, AgentMoves
  <2> QED BY <2>5
<1> QED BY <1>1, <1>2

LEMMA InitPayloadInv ==
  ASSUME Init
  PROVE  PayloadInv
<1>1. DOMAIN moves = {} /\ run.pc = "idle"
  BY DEF Init, NoRun
<1> QED BY <1>1, InitTypes, InitCallNamed
        DEF PayloadInv, MovesAfter, PayloadReady, PayloadBeforeMove, AgentMoves

LEMMA NextPayloadInv ==
  ASSUME PayloadInv, [Next]_vars
  PROVE  PayloadInv'
BY NextTypes, NextCallNamed, NextMovesAfter, NextPayloadReady, NextPayloadBeforeMove
   DEF PayloadInv

\* A transition is impossible without a valid handoff payload (tools.py:4): each
\* agent transition has a payload of its own on the ticket, whatever calls fail,
\* are repeated or get through unheard.
THEOREM EveryMoveHasItsPayload == Spec => []PayloadBeforeMove
<1>1. PayloadInv => PayloadBeforeMove
  BY DEF PayloadInv
<1> QED BY <1>1, InitPayloadInv, NextPayloadInv, PTL DEF Spec

(***************************************************************************)
(* Where agents leave from.                                                *)
(***************************************************************************)
\* One way into each status.
OneWayIn ==
  \A s, t \in Statuses : Workflow[s] \cap Workflow[t] # {} => s = t

\* An agent's transition leaves from the status its payload names, where the
\* workflow has one way into each: the edge looked up by name begins there.
THEOREM HumansWinOverAgents ==
  ASSUME OneWayIn
  PROVE  Spec => []LeavesWhereItSaid
<1>1. Init => LeavesWhereItSaid
  <2>1. Init => DOMAIN moves = {}
    BY DEF Init
  <2> QED BY <2>1 DEF LeavesWhereItSaid, AgentMoves
<1>2. TypeOK /\ CallNamed /\ LeavesWhereItSaid /\ [Next]_vars => LeavesWhereItSaid'
  <2> SUFFICES ASSUME TypeOK, CallNamed, LeavesWhereItSaid, [Next]_vars, NEW i \in AgentMoves'
               PROVE  moves'[i].was = moves'[i].said
    BY DEF LeavesWhereItSaid
  <2>1. CASE i \in DOMAIN moves
    BY <2>1, MovesStay DEF LeavesWhereItSaid, AgentMoves
  <2>2. CASE i \notin DOMAIN moves
    <3>1. moves' # moves
      BY <2>2 DEF AgentMoves
    <3>2. PICK m : /\ moves' = Append(moves, m)
                   /\ \/ m.by = "human"
                      \/ Fire /\ status = run.edge /\ m.said = run.from /\ m.was = status
      BY <3>1, MoveAppended
    <3>3. moves'[i] = m /\ m.by = "agent"
      BY <2>2, <3>2 DEF AgentMoves, TypeOK
    <3>4. /\ run.from \in Statuses /\ run.edge \in Statuses
          /\ run.to \in Workflow[run.from] \cap Workflow[run.edge]
      BY <3>2, <3>3, Firing DEF CallNamed, UnderWay, At
    <3> QED BY <3>2, <3>3, <3>4, OneWayIn DEF OneWayIn
  <2> QED BY <2>1, <2>2
<1> QED BY <1>1, <1>2, TypeInvariant, PTL DEF Spec

(***************************************************************************)
(* Whom the webhook accuses.                                               *)
(***************************************************************************)
\* Whatever the agents write around their payloads, find_payload finds them.
Readable == Findable \subseteq {TRUE}

HandoffsFound == \A j \in DOMAIN comments : comments[j].kind = "handoff" => comments[j].found

AccusedInv == PayloadInv /\ HandoffsFound /\ OnlyUnseenFlagged

LEMMA NextHandoffsFound ==
  ASSUME TypeOK, Readable, HandoffsFound, [Next]_vars
  PROVE  HandoffsFound'
<1>1. CASE comments' = comments
  BY <1>1 DEF HandoffsFound
<1>2. CASE comments' # comments
  <2>1. PICK c \in Comments : /\ comments' = Append(comments, c)
                              /\ c.kind = "text" \/ c.found \in Findable
    BY <1>2, CommentsGrow
  <2>2. c.kind = "handoff" => c.found
    BY <2>1 DEF Readable
  <2> QED BY <2>1, <2>2 DEF HandoffsFound, TypeOK
<1> QED BY <1>1, <1>2

\* A comment that is out of view does not come back: the page is read from the
\* oldest on, and the view is its end.
LEMMA ViewMovesOn ==
  ASSUME TypeOK, [Next]_vars, NEW j \in DOMAIN comments, j \in InView'
  PROVE  j \in InView
BY CommentsStay DEF InView, OnPage

LEMMA Accusing ==
  ASSUME TypeOK, [Next]_vars, NEW i \in flagged', i \notin flagged
  PROVE  i \in DOMAIN moves /\ ~PayloadFor(moves[i].to)
<1>1. CASE \E k \in notices : OnStatusChange(k)
  BY <1>1 DEF OnStatusChange, TypeOK
<1>2. CASE Fire \/ PostRejection \/ PostHandoff
  BY <1>2, Firing, PostingRejection, PostingHandoff
<1>3. CASE \/ CheckEdges \/ Recheck \/ Lookup \/ ReadRejection \/ WriteCount \/ End \/ Begin
           \/ Comment \/ Unfreeze \/ UNCHANGED vars
           \/ \E tool \in {"handoff", "reject"}, to \in Statuses : Call(tool, to)
           \/ \E s \in Statuses : HumanMove(s)
  BY <1>3 DEF CheckEdges, Recheck, Lookup, ReadRejection, WriteCount, End, Begin, Unfreeze,
     Comment, Posted, Call, HumanMove, vars, history
<1> QED BY <1>1, <1>2, <1>3 DEF Next, Tool, Full

LEMMA NextOnlyUnseenFlagged ==
  ASSUME AccusedInv, [Next]_vars
  PROVE  OnlyUnseenFlagged'
<1> USE DEF AccusedInv, PayloadInv
<1> SUFFICES ASSUME NEW i \in flagged', NEW j \in PayloadsOf(i)', j \in InView'
             PROVE  FALSE
  BY DEF OnlyUnseenFlagged
<1>1. i \in DOMAIN moves
  BY Accusing DEF TypeOK
<1>2. j \in PayloadsOf(i)
  BY <1>1, PayloadsStay
<1>3. j \in DOMAIN comments
  BY <1>1, <1>2, MovesAfterTypes, CommentsStay DEF PayloadsOf
<1>4. j \in InView
  BY <1>3, ViewMovesOn
<1>5. CASE i \in flagged
  BY <1>2, <1>4, <1>5 DEF OnlyUnseenFlagged
<1>6. CASE i \notin flagged
  BY <1>2, <1>3, <1>4, <1>6, Accusing DEF PayloadFor, PayloadsOf, HandoffsFound
<1> QED BY <1>5, <1>6

\* ORC-5 accuses nobody wrongly: an agent's transition is flagged only when its
\* payload has moved out of the handler's view, if find_payload can read what
\* the agents write.
THEOREM NobodyWronglyAccused ==
  ASSUME Readable
  PROVE  Spec => []OnlyUnseenFlagged
<1>1. Init => AccusedInv
  <2>1. Init => DOMAIN comments = {} /\ flagged = {}
    BY DEF Init
  <2> QED BY <2>1, InitPayloadInv DEF AccusedInv, HandoffsFound, OnlyUnseenFlagged
<1>2. AccusedInv /\ [Next]_vars => AccusedInv'
  BY Readable, NextPayloadInv, NextHandoffsFound, NextOnlyUnseenFlagged DEF AccusedInv, PayloadInv
<1> QED BY <1>1, <1>2, PTL DEF Spec, AccusedInv

(***************************************************************************)
(* The rework count.  A rejection that is not counted yet can be counted   *)
(* only by a router, which runs for tickets in Rework; so the invariant    *)
(* says that such a ticket has come to Rework once more than was counted.  *)
(* A router does not reject, and whoever does has found the ticket         *)
(* elsewhere: if it is in Rework now, it got there meanwhile.              *)
(***************************************************************************)
Uncounted == Rejections # {} /\ Newest(Rejections) # rework.last

Owed == rework.count < Cardinality(Bounces)

UncountedOwed == Uncounted /\ (status = ReworkStatus \/ run.at = ReworkStatus) => Owed

ReviewerOwed ==
  run.pc # "idle" /\ run.at # ReworkStatus /\ status = ReworkStatus => Owed

RouterCounts ==
  At("count") => run.at = ReworkStatus /\ Rejections # {} /\ run.seen = Newest(Rejections)

RouterRejectsNot == At("payload") \/ run.tool = "reject" => run.at # ReworkStatus

CountInv ==
  /\ TypeOK /\ CallNamed /\ NoPhantomBounces
  /\ UncountedOwed /\ ReviewerOwed /\ RouterCounts /\ RouterRejectsNot

\* A run keeps the status it was dispatched for until it ends, and only a
\* dispatch begins one.
LEMMA RunKeeps ==
  ASSUME TypeOK, [Next]_vars
  PROVE  \/ run'.at = run.at /\ (run'.pc # "idle" => run.pc # "idle")
         \/ Begin /\ run'.at = status
         \/ run'.at = NoStatus /\ run'.pc = "idle"
<1> USE DEF TypeOK, RunRecords, At
<1>1. /\ Working.pc = "work" /\ Working.at = run.at
      /\ NoRun.pc = "idle" /\ NoRun.at = NoStatus
  BY DEF Working, NoRun
<1>2. CASE Begin
  BY <1>2 DEF Begin, NoRun
<1>3. CASE Again /\ run.pc # "idle"
  BY <1>3 DEF Again
<1>4. CASE PostRejection
  BY <1>1, <1>3, <1>4, PostingRejection
<1>5. CASE PostHandoff
  BY <1>1, <1>3, <1>5, PostingHandoff
<1>6. CASE Fire
  BY <1>1, <1>3, <1>6, Firing
<1>7. CASE CheckEdges \/ Recheck \/ Lookup \/ ReadRejection \/ WriteCount
           \/ \E tool \in {"handoff", "reject"}, to \in Statuses : Call(tool, to)
  BY <1>1, <1>7 DEF CheckEdges, Recheck, Lookup, ReadRejection, WriteCount, Call
<1>8. CASE \/ End \/ Comment \/ Unfreeze \/ UNCHANGED vars
           \/ \E i \in notices : OnStatusChange(i)
           \/ \E s \in Statuses : HumanMove(s)
  BY <1>1, <1>8 DEF End, Comment, Unfreeze, OnStatusChange, HumanMove, vars
<1> QED BY <1>2, <1>4, <1>5, <1>6, <1>7, <1>8 DEF Next, Tool, Full

\* A move to Rework is one bounce more; no bounce is forgotten.
LEMMA BouncesGrow ==
  ASSUME TypeOK, [Next]_vars
  PROVE  /\ Cardinality(Bounces) \in Nat /\ Cardinality(Bounces)' \in Nat
         /\ Cardinality(Bounces) <= Cardinality(Bounces)'
         /\ moves' # moves /\ status' = ReworkStatus =>
              Cardinality(Bounces)' = Cardinality(Bounces) + 1
<1>1. IsFiniteSet(Bounces) /\ Cardinality(Bounces) \in Nat
  <2>1. Len(moves) \in Nat /\ Bounces \in SUBSET (1 .. Len(moves))
    BY DEF TypeOK, Bounces
  <2>2. IsFiniteSet(1 .. Len(moves))
    BY <2>1, FS_Interval
  <2> QED BY <2>1, <2>2, FS_Subset, FS_CardinalityType
<1>2. CASE moves' = moves
  BY <1>1, <1>2 DEF Bounces
<1>3. CASE moves' # moves
  <2>1. PICK m : moves' = Append(moves, m) /\ status' = m.to
    BY <1>3, MoveAppended
  <2>n. PICK n \in Nat : n = Len(moves) + 1
    BY DEF TypeOK
  <2>2. Bounces' = IF m.to = ReworkStatus THEN Bounces \cup {n} ELSE Bounces
    BY <2>n, <2>1 DEF TypeOK, Bounces
  <2>3. n \notin Bounces
    BY <2>n DEF TypeOK, Bounces
  <2>4. Cardinality(Bounces \cup {n}) = Cardinality(Bounces) + 1
    BY <1>1, <2>3, FS_AddElement
  <2> QED BY <1>1, <2>1, <2>2, <2>4
<1> QED BY <1>2, <1>3

\* The rejections are what they were unless one is posted.
LEMMA RejectionsStay ==
  ASSUME TypeOK, [Next]_vars, ~PostRejection
  PROVE  Rejections' = Rejections
<1>1. CASE comments' = comments
  BY <1>1 DEF Rejections, OnPage
<1>2. CASE comments' # comments
  <2>1. PICK c \in Comments : comments' = Append(comments, c) /\ c.kind # "rework"
    BY <1>2, CommentsGrow
  <2> QED BY <2>1 DEF Rejections, OnPage, TypeOK
<1> QED BY <1>1, <1>2

\* Only increment_rework writes the count, and only human and agent moves the
\* status.
LEMMA WritersOfCountAndStatus ==
  ASSUME TypeOK, [Next]_vars
  PROVE  /\ rework' = rework \/ WriteCount
         /\ status' = status \/ moves' # moves
<1>1. CASE Fire \/ PostRejection \/ PostHandoff
  <2>1. Moved => moves' # moves
    BY DEF Moved, TypeOK
  <2> QED BY <1>1, <2>1, Firing, PostingRejection, PostingHandoff
<1>2. CASE \E s \in Statuses : HumanMove(s)
  BY <1>2 DEF HumanMove, TypeOK
<1>3. CASE \/ CheckEdges \/ Recheck \/ Lookup \/ ReadRejection \/ WriteCount \/ End \/ Begin
           \/ Comment \/ Unfreeze \/ UNCHANGED vars
           \/ \E tool \in {"handoff", "reject"}, to \in Statuses : Call(tool, to)
           \/ \E i \in notices : OnStatusChange(i)
  BY <1>3 DEF CheckEdges, Recheck, Lookup, ReadRejection, WriteCount, End, Begin, Unfreeze,
     Comment, Posted, Call, OnStatusChange, vars, ticket
<1> QED BY <1>1, <1>2, <1>3 DEF Next, Tool, Full

LEMMA NextRouterRejectsNot ==
  ASSUME TypeOK, RouterRejectsNot, [Next]_vars
  PROVE  RouterRejectsNot'
<1> USE DEF TypeOK, RunRecords, At, RouterRejectsNot
<1>1. CASE run' = Working \/ run' = NoRun \/ UNCHANGED run
  <2>1. /\ Working.pc = "work" /\ Working.tool = "none"
        /\ NoRun.pc = "idle" /\ NoRun.tool = "none"
    BY DEF Working, NoRun
  <2> QED BY <1>1, <2>1
<1>2. CASE Again
  BY <1>2 DEF Again
<1>3. CASE Begin
  BY <1>3 DEF Begin, NoRun
<1>4. CASE CheckEdges \/ Recheck \/ Lookup \/ ReadRejection
  BY <1>1, <1>4 DEF CheckEdges, Recheck, Lookup, ReadRejection
<1>5. CASE PostRejection
  BY <1>1, <1>2, <1>5, PostingRejection
<1>6. CASE PostHandoff
  BY <1>1, <1>2, <1>6, PostingHandoff
<1>7. CASE Fire
  BY <1>1, <1>2, <1>7, Firing
<1>8. CASE \E tool \in {"handoff", "reject"}, to \in Statuses : Call(tool, to)
  BY <1>8 DEF Call
<1>9. CASE \/ WriteCount \/ End \/ Comment \/ Unfreeze \/ UNCHANGED vars
           \/ \E i \in notices : OnStatusChange(i)
           \/ \E s \in Statuses : HumanMove(s)
  BY <1>1, <1>9 DEF WriteCount, End, Comment, Unfreeze, OnStatusChange, HumanMove, vars
<1> QED BY <1>3, <1>4, <1>5, <1>6, <1>7, <1>8, <1>9 DEF Next, Tool, Full

\* The id a router counts stays the newest: while it is at it nobody rejects.
LEMMA NextRouterCounts ==
  ASSUME TypeOK, RouterCounts, [Next]_vars
  PROVE  RouterCounts'
<1> SUFFICES ASSUME run'.pc = "count"
             PROVE  run'.at = ReworkStatus /\ Rejections' # {} /\ run'.seen = Newest(Rejections')
  BY DEF RouterCounts, At
<1>1. ~PostRejection /\ (ReadRejection \/ run' = run)
  <2> USE DEF TypeOK, RunRecords, At
  <2>1. /\ run' # Working /\ run' # NoRun
        /\ Again => run.pc = "count"
    <3>1. Working.pc = "work" /\ NoRun.pc = "idle"
      BY DEF Working, NoRun
    <3> QED BY <3>1 DEF Again
  <2>2. ~PostRejection /\ ~PostHandoff /\ ~Fire
    BY <2>1, PostingRejection, PostingHandoff, Firing
  <2>3. ~Begin /\ ~CheckEdges /\ ~Recheck /\ ~Lookup /\ ~WriteCount /\ ~End
        /\ ~\E tool \in {"handoff", "reject"}, to \in Statuses : Call(tool, to)
    BY <2>1 DEF Begin, NoRun, CheckEdges, Recheck, Lookup, WriteCount, End, Call
  <2>4. CASE \/ Comment \/ Unfreeze \/ UNCHANGED vars
             \/ \E i \in notices : OnStatusChange(i)
             \/ \E s \in Statuses : HumanMove(s)
    BY <2>2, <2>4 DEF Comment, Unfreeze, OnStatusChange, HumanMove, vars
  <2> QED BY <2>2, <2>3, <2>4 DEF Next, Tool, Full
<1>2. CASE ReadRejection
  BY <1>1, <1>2, RejectionsStay DEF ReadRejection, TypeOK, RunRecords
<1>3. CASE run' = run
  BY <1>1, <1>3, RejectionsStay DEF RouterCounts, At
<1> QED BY <1>1, <1>2, <1>3

\* A rejection is counted where it is owed, and then no longer uncounted.
LEMMA CountingKeeps ==
  ASSUME CountInv, WriteCount, [Next]_vars
  PROVE  NoPhantomBounces' /\ UncountedOwed' /\ ReviewerOwed'
<1> USE DEF CountInv
<1>1. /\ run.at = ReworkStatus /\ Rejections # {} /\ run.seen = Newest(Rejections)
      /\ run'.at = run.at /\ UNCHANGED <<status, comments, moves>>
  BY DEF WriteCount, RouterCounts, history, Working
<1>2. Rejections' = Rejections /\ Bounces' = Bounces
  BY <1>1 DEF Rejections, OnPage, Bounces
<1>3. ReviewerOwed'
  BY <1>1 DEF ReviewerOwed
<1>4. CASE rework' = rework
  BY <1>1, <1>2, <1>3, <1>4 DEF NoPhantomBounces, UncountedOwed, Uncounted, Owed
<1>5. CASE rework.last # run.seen /\ rework' = [count |-> rework.count + 1, last |-> run.seen]
  <2>1. Owed
    BY <1>1, <1>5 DEF UncountedOwed, Uncounted
  <2>2. rework'.count = rework.count + 1 /\ rework'.last = Newest(Rejections)
    BY <1>1, <1>5
  <2>3. NoPhantomBounces'
    BY <1>2, <2>1, <2>2, BouncesGrow DEF NoPhantomBounces, Owed, TypeOK
  <2>4. UncountedOwed'
    BY <1>2, <2>2 DEF UncountedOwed, Uncounted
  <2> QED BY <1>3, <2>3, <2>4
<1>6. rework' = rework \/ rework' = Counted(run.seen)
  BY DEF WriteCount
<1> QED BY <1>4, <1>5, <1>6 DEF Counted

\* Nothing else makes the count exceed the bounces.
LEMMA OthersKeep ==
  ASSUME CountInv, ~WriteCount, [Next]_vars
  PROVE  NoPhantomBounces' /\ UncountedOwed' /\ ReviewerOwed'
<1> USE DEF CountInv
<1>1. rework' = rework /\ (status' = status \/ moves' # moves)
  BY WritersOfCountAndStatus
<1>2. rework.count \in Nat /\ NoStatus # ReworkStatus
  BY HandoffAssumption DEF TypeOK
<1>3. NoPhantomBounces' /\ (Owed => Owed')
  BY <1>1, <1>2, BouncesGrow DEF NoPhantomBounces, Owed
<1>4. CASE moves' # moves
  <2>1. status' = ReworkStatus => Owed'
    BY <1>1, <1>2, <1>4, BouncesGrow DEF NoPhantomBounces, Owed
  <2>2. ~PostRejection /\ ~Begin
    BY <1>4, PostingRejection DEF Begin, history
  <2>3. Rejections' = Rejections
    BY <2>2, RejectionsStay
  <2>4. run'.at = ReworkStatus => run.at = ReworkStatus
    BY <1>2, <2>2, RunKeeps
  <2>5. Uncounted' => Uncounted
    BY <1>1, <2>3 DEF Uncounted
  <2>6. UncountedOwed' /\ ReviewerOwed'
    BY <1>3, <2>1, <2>4, <2>5 DEF UncountedOwed, ReviewerOwed
  <2> QED BY <1>3, <2>6
<1>5. CASE PostRejection
  <2>1. status' = status /\ run.at # ReworkStatus /\ run.pc # "idle"
    BY <1>5, PostingRejection DEF RouterRejectsNot, At
  <2>2. run'.at # ReworkStatus
    BY <1>2, <1>5, <2>1, RunKeeps DEF Begin, At
  <2>3. status = ReworkStatus => Owed
    BY <2>1 DEF ReviewerOwed
  <2>4. UncountedOwed' /\ ReviewerOwed'
    BY <1>3, <2>1, <2>2, <2>3 DEF UncountedOwed, ReviewerOwed
  <2> QED BY <1>3, <2>4
<1>6. CASE moves' = moves /\ ~PostRejection
  <2>1. status' = status
    BY <1>1, <1>6
  <2>2. Rejections' = Rejections
    BY <1>6, RejectionsStay
  <2>3. Uncounted' => Uncounted
    BY <1>1, <2>2 DEF Uncounted
  <2>4. UncountedOwed'
    BY <1>2, <1>3, <2>1, <2>3, RunKeeps DEF UncountedOwed
  <2>5. ReviewerOwed'
    BY <1>2, <1>3, <2>1, RunKeeps DEF ReviewerOwed
  <2> QED BY <1>3, <2>4, <2>5
<1> QED BY <1>4, <1>5, <1>6

\* Phantom bounces would trip the loop-breaker early: the rework count never
\* exceeds the times the ticket came to Rework, for every page size, number of
\* retries and text, over routers and reviewers that die anywhere.
THEOREM EveryBounceIsReal == Spec => []NoPhantomBounces
<1>1. Init => CountInv
  <2>1. Init => /\ Bounces = {} /\ Rejections = {} /\ rework.count = 0
                /\ run.pc = "idle" /\ run.tool = "none"
    BY DEF Init, NoRun, Bounces, Rejections, OnPage
  <2> QED BY <2>1, InitTypes, InitCallNamed, FS_EmptySet
          DEF CountInv, NoPhantomBounces, UncountedOwed, Uncounted, ReviewerOwed,
              RouterCounts, RouterRejectsNot, At
<1>2. CountInv /\ [Next]_vars => CountInv'
  BY NextTypes, NextCallNamed, NextRouterRejectsNot, NextRouterCounts, CountingKeeps, OthersKeep
     DEF CountInv
<1>3. CountInv => NoPhantomBounces
  BY DEF CountInv
<1> QED BY <1>1, <1>2, <1>3, PTL DEF Spec
=============================================================================
