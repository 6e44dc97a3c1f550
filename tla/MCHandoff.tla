------------------------------ MODULE MCHandoff -----------------------------
(***************************************************************************)
(* Handoff on the review loop of config/pipeline.yml.                      *)
(***************************************************************************)
EXTENDS Handoff, TLC

LoopStatuses == {"In Progress", "Tech Review", "Rework"}

LoopWorkflow ==
  ("In Progress" :> {"Tech Review"})
  @@ ("Tech Review" :> {"Rework"})
  @@ ("Rework" :> {"In Progress"})

\* Prose, and code blocks as the pattern expects them, up to two of them.
Pieces ==
  {<<"text">>, <<"fence", "text", "fence">>, <<"yaml", "text", "fence">>,
   <<"wiki", "text", "code">>, <<"code", "text", "text", "code">>}

Fenced == {<<>>} \cup Pieces \cup {p \o q : p \in Pieces, q \in Pieces}

\* Markdown with a language: the pattern takes its closing line for an opening.
Labelled == {<<"label", "text", "fence">>}

PlainDumps == {<<"payload">>}

\* A text with a fence of its own among the values of the payload.
DumpsWithFence == {<<"payload", "fence", "payload">>}
=============================================================================
