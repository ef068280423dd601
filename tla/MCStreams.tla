------------------------------ MODULE MCStreams ------------------------------
(***************************************************************************)
(* Answers for ProviderStreams.                                            *)
(***************************************************************************)
EXTENDS ProviderStreams

Call(id, name, args, style) ==
  [id |-> id, name |-> name, args |-> args, cut |-> FALSE, style |-> style]
Answer(api, texts, why, list) == [api |-> api, texts |-> texts, stop |-> why, calls |-> list]
CutLast(list) == IF list = <<>> THEN <<>> ELSE [list EXCEPT ![Len(list)].cut = TRUE]

Styles(api) == IF api = "responses" THEN {"pieces", "whole", "late"} ELSE {"pieces"}
ListsOf(api) ==
  {<<>>} \cup {<<Call(IF api = "gemini" THEN "" ELSE "id1", "read", 2, s),
                 Call("id2", "write", n, t)>> : s \in Styles(api), t \in Styles(api), n \in 0 .. 2}
McAnswers ==
  UNION {{Answer(api, n, "end", list) : n \in 0 .. 2, list \in ListsOf(api)} \cup
         {Answer(api, n, "length", CutLast(list)) : n \in 0 .. 1, list \in ListsOf(api)} :
           api \in {"chat", "responses", "gemini"}}
=============================================================================
