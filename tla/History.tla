------------------------------- MODULE History -------------------------------
(***************************************************************************)
(* How the conversation manager turns a path of nodes into the messages of *)
(* a completion request (internal/conversation: injectSyntheticToolResults,*)
(* buildMessages, mergeContent).                                           *)
(*                                                                         *)
(* Content is a sequence of blocks [kind, from, n]:                        *)
(*   kind "text"    what call `from' wrote, piece number n (0 is the       *)
(*                  user's own message, 1, 2, ... the answer's pieces);    *)
(*   kind "use"     a tool_use block with tool id `from';                  *)
(*   kind "result"  a tool_result block for tool id `from', sent by the    *)
(*                  caller (n = 0) or synthetic (n = 1).                   *)
(* A JSON string is a sequence of text blocks, an empty string is empty.   *)
(***************************************************************************)
EXTENDS Integers, FiniteSets, Sequences, SequencesExt

NoGroup == "no-group"          \* OutputGroupID ""

Text(c, n)   == [kind |-> "text",   from |-> c, n |-> n]
Use(t)       == [kind |-> "use",    from |-> t, n |-> 0]
Result(t)    == [kind |-> "result", from |-> t, n |-> 0]
Synthetic(t) == [kind |-> "result", from |-> t, n |-> 1]

Blocks(content, kind) == {b \in ToSet(content) : b.kind = kind}
UsesIn(content)       == {b.from : b \in Blocks(content, "use")}
ResultsIn(content)    == {b.from : b \in Blocks(content, "result")}

Role(row) ==
  CASE row.type \in {"user", "tool_result"} -> "user"
    [] row.type = "assistant"               -> "assistant"
    [] OTHER                                -> "none"    \* tool_call, system

\* ORDER BY sequence ASC of the rows GetAncestors returned (a tie, which
\* SQLite may order either way, goes by age).
Path(rows) ==
  LET before(a) == {b \in DOMAIN rows :
                      \/ rows[b].seq < rows[a].seq
                      \/ rows[b].seq = rows[a].seq /\ b < a}
  IN  [i \in 1 .. Cardinality(DOMAIN rows) |->
         rows[CHOOSE a \in DOMAIN rows : Cardinality(before(a)) = i - 1]]

\* Seeded fault: every content starts a message of its own.
AddContentUnmerged(messages, role, content) ==
  Append(messages, [role |-> role, content |-> content])

\* Append content to the last message when the roles agree (mergeContent),
\* start a new message otherwise.
AddContent(messages, role, content) ==
  IF messages # <<>> /\ Last(messages).role = role
  THEN [messages EXCEPT ![Len(messages)].content = @ \o content]
  ELSE Append(messages, [role |-> role, content |-> content])

\* Seeded fault: output groups are not deduplicated.
SupersededNever(path, i) == FALSE

\* Of an output group only the last node on the path is sent.
Superseded(path, i) ==
  /\ path[i].group # NoGroup
  /\ \E j \in DOMAIN path : j > i /\ path[j].group = path[i].group

\* The content of the node injectSyntheticToolResults puts after a node whose
\* tool uses are orphaned: an error result for each of them.
SyntheticResults(row, orphans) ==
  SetToSeq({Synthetic(e.tool) : e \in {f \in orphans : f.node = row.id}})

\* What row i of the path adds to the messages: its content, unless a later
\* row of its group replaces it, and its synthetic results.
AddRow(messages, path, orphans, i) ==
  LET row     == path[i]
      said    == IF Superseded(path, i) \/ Role(row) = "none" THEN messages
                 ELSE AddContent(messages, Role(row), row.content)
      answers == SyntheticResults(row, orphans)
  IN  IF answers = <<>> THEN said ELSE AddContent(said, "user", answers)

\* The messages after each number of rows.
MessagesBy(path, orphans) ==
  LET built[i \in 0 .. Len(path)] ==
        IF i = 0 THEN <<>> ELSE AddRow(built[i - 1], path, orphans, i)
  IN  built

BuildMessages(path, orphans) == MessagesBy(path, orphans)[Len(path)]

\* Seeded fault: the orphans are found and then forgotten.
RequestWithoutRepair(rows, orphans, content) ==
  AddContent(BuildMessages(Path(rows), {}), "user", content)

\* The request PromptFrom sends: the path, the synthetic results, the new
\* message.
RequestMessages(rows, orphans, content) ==
  AddContent(BuildMessages(Path(rows), orphans), "user", content)
=============================================================================
