------------------------------ MODULE Payloads ------------------------------
(***************************************************************************)
(* How payloads.py finds a payload in the text of a comment.  A text is a  *)
(* sequence of lines, told apart by what the pattern _FENCE looks for:     *)
(*   fence    ```            yaml   ```yaml          label  ```python etc. *)
(*   code     {code}         wiki   {code:yaml} etc.                       *)
(*   payload  lines of the dumped YAML               text   anything else  *)
(***************************************************************************)
EXTENDS Naturals, Sequences

Lines == {"fence", "yaml", "label", "code", "wiki", "payload", "text"}

\* A block opens with a marker at the end of its line - so ```python opens
\* none - and closes with a line that begins with ``` or is {code}.
Opens == {"fence", "yaml", "code", "wiki"}

Closes == {"fence", "yaml", "label", "code"}

\* The closers of a block that opens at o; the pattern wants a line in between.
ClosersOf(body, o) == {c \in (o + 2)..Len(body) : body[c] \in Closes}

Openers(body) == {o \in DOMAIN body : body[o] \in Opens /\ ClosersOf(body, o) # {}}

First(places) == CHOOSE i \in places : \A j \in places : i <= j

\* _FENCE.finditer: from the left, the first opener and its first closer, and
\* on from there.
FencedBlocks(body) ==
  LET from[i \in 1..(Len(body) + 1)] ==
        LET rest == {o \in Openers(body) : o >= i}
            o == First(rest)
            c == First(ClosersOf(body, o))
        IN IF rest = {} THEN {} ELSE {SubSeq(body, o + 1, c - 1)} \cup from[c + 1]
  IN from[1]

\* find_payload: a block that is the dump and nothing else parses to it; with
\* other lines around it is no YAML mapping, and skipped.  A bare document
\* counts when the text has no block that parses.
FindPayload(body, dump) == dump \in FencedBlocks(body) \/ body = dump

\* What transition_with_handoff and reject_to_rework post.
HandoffBody(summary, dump) == summary \o <<"text", "wiki">> \o dump \o <<"code">>
=============================================================================
