--------------------------- MODULE MCConversation ---------------------------
(***************************************************************************)
(* Instances of Conversation for TLC.                                      *)
(***************************************************************************)
EXTENDS ConversationRequests, TLC

CONSTANTS c1, c2, c3, t1, t2

TwoCalls == {c1, c2}
ThreeCalls == {c1, c2, c3}
OneTool == {t1}
TwoTools == {t1, t2}

Ended(text)  == [text |-> text, stop |-> "end_turn", uses |-> {}, tokens |-> 1, err |-> FALSE]
Truncated(text, k) ==
  [text |-> text, stop |-> "max_tokens", uses |-> {}, tokens |-> k, err |-> FALSE]
Broken(text) == [text |-> text, stop |-> "none", uses |-> {}, tokens |-> 0, err |-> TRUE]
LateError(text) == [Ended(text) EXCEPT !.err = TRUE]
Silent       == [text |-> "empty", stop |-> "none", uses |-> {}, tokens |-> 0, err |-> FALSE]
CallsTools(text, stop, tools) ==
  [text |-> text, stop |-> stop, uses |-> tools, tokens |-> 1, err |-> FALSE]

\* Two calls are interchangeable; so are three.
CallSymmetry == Permutations(Calls)

\* Answers that end, are cut off in the middle, break early or late
\* or stay empty.
TextOutcomes ==
  {Ended("words"), LateError("words"), Truncated("words", 1), Broken("words"), Silent}

OneAnswer == {Ended("words")}

\* The least that makes output groups.
PlainOutcomes == {Ended("words"), Truncated("words", 1)}

\* Answers that call tools, with and without text before, cut off or not.
ToolOutcomes ==
  {CallsTools("words", "tool_use", {t}) : t \in ToolIds}
  \cup {CallsTools("empty", "max_tokens", {t}) : t \in ToolIds}
  \cup {CallsTools("empty", "tool_use", ToolIds)}
  \cup {Ended("words"), Truncated("words", 1)}

\* An output group that ends in tool use.
GroupEnds == {Truncated("words", 1), CallsTools("words", "tool_use", {t1})}
=============================================================================
