----------------------------- MODULE MCService -----------------------------
(***************************************************************************)
(* What else works on the store, for TLC: the HTTP server with its SDK,    *)
(* the LangGraph import and the migrations.  They share no state but the   *)
(* nodes, so that in a behaviour one of them runs and the others are at    *)
(* rest.                                                                   *)
(***************************************************************************)
EXTENDS ApiServer, LangGraphImport, Migrations, TLC

VARIABLE part    \* "api", "import" or "migrations"

-----------------------------------------------------------------------------
\* The server: two requests each, on a store of two nodes, or a third by then.
McUuids == <<<<"1", "1">>, <<"1", "2">>, <<"2", "1">>, <<"1", "3">>, <<"2", "2">>, <<"1", "4">>>>
Key == [apiKey |-> "key", bearer |-> ""]
Request(op, name) ==
  [op |-> op, name |-> name, alias |-> <<"w">>, stream |-> FALSE, valid |-> TRUE, pieces |-> 1,
   creds |-> Key]
Streamed(q) == [q EXCEPT !.stream = TRUE]
Prompt      == Request("prompt", <<>>)
Long(q)     == [q EXCEPT !.pieces = 2]
Ask(name)   == Request("ask", name)
Scene(first, second, stops) ==
  [key |-> "key", requests |-> <<first, second>>, stops |-> stops,
   nodes |-> (1 :> [parent |-> NoNode, root |-> 1, content |-> Said(0)] @@
              2 :> [parent |-> 1, root |-> 1, content |-> Text(0, 1)]),
   aliases |-> (<<"w">> :> 2)]
NoRequests ==
  [key |-> "", requests |-> <<>>, stops |-> FALSE, nodes |-> [n \in {} |-> 0],
   aliases |-> [a \in {} |-> 0]]
McScenes ==
  {NoRequests,
   Scene(Long(Streamed(Prompt)), Request("delete", Uuids[4]), TRUE),
   Scene(Long(Prompt), Request("delete", Uuids[4]), FALSE),
   Scene(Streamed(Ask(<<"w">>)), Request("unalias", <<>>), FALSE),
   Scene(Ask(<<"1">>), Request("delete", Uuids[1]), TRUE),
   Scene(Prompt, Ask(<<"2">>), FALSE),
   Scene([Prompt EXCEPT !.creds.bearer = "other"], [Prompt EXCEPT !.valid = FALSE], FALSE)}
  \cup {Scene(Request(op, name), [Request("alias", <<"1", "2">>) EXCEPT !.alias = alias], FALSE) :
          op \in {"tree", "aliases", "list", "unalias", "delete"}, name \in {<<"w">>, <<"1", "1">>},
          alias \in {<<"w">>, <<"1", "1">>}}

\* An export file with a system prompt, parallel tool calls, a call without
\* an id and a thread of nothing but a system prompt; a database with a
\* broken checkpoint, a subgraph and messages of several classes.
Raw(type, class, list, reply) == [type |-> type, class |-> class, calls |-> list, reply |-> reply]
Exported(role, list, reply) == [role |-> role, calls |-> list, reply |-> reply]
Plainly(role) == Exported(role, <<>>, "")
RowOf(thread, ns, messages) ==
  [thread |-> thread, ns |-> ns, broken |-> FALSE, messages |-> messages]
McExports ==
  {[threads |-> <<
      [thread |-> 1, messages |-> <<Plainly("system"), Plainly("user"),
         Exported("assistant", <<"a", "b">>, ""), Exported("tool", <<>>, "a"),
         Exported("tool", <<>>, "b"), Plainly("assistant")>>],
      [thread |-> 2, messages |-> <<Plainly("chat"), Exported("assistant", <<"">>, ""), Plainly("tool")>>],
      [thread |-> 3, messages |-> <<Plainly("system")>>]>>],
   [checkpoints |-> <<
      RowOf(2, "", <<Raw("human", "", <<>>, "")>>),
      [RowOf(1, "", <<>>) EXCEPT !.broken = TRUE],
      RowOf(2, "sub", <<>>),
      RowOf(2, "", <<Raw("human", "", <<>>, ""), Raw("", "AIMessageChunk", <<"a">>, ""),
        Raw("tool", "", <<>>, "a"), Raw("", "RemoveMessage", <<>>, ""), Raw("ai", "", <<>>, "")>>)>>]}

\* Two conversations of an older release.
McOldParent == <<0, 1, 0, 3>>

-----------------------------------------------------------------------------
\* A server without requests, no import, a database that is up to date.
ApiAtRest == ApiInit /\ setting = NoRequests
ImportAtRest ==
  /\ source = CHOOSE e \in Exports : TRUE
  /\ importer = [Idle EXCEPT !.careful = FALSE]
MigrationsAtRest ==
  LET v == Len(MigrationList) IN
  /\ schema = DoneUpTo(v) /\ versions = {v} /\ rootIds = Tops /\ deaths = 0
  /\ opener = [p \in Openers |-> [Opening EXCEPT !.pc = "ready"]]

ServiceInit ==
  \/ part = "api" /\ ApiInit /\ ImportAtRest /\ MigrationsAtRest
  \/ part = "import" /\ ImportInit /\ ApiAtRest /\ MigrationsAtRest
  \/ part = "migrations" /\ MigrationInit /\ ApiAtRest /\ ImportAtRest

onlyApi    == <<setting, server, handler, call, wire, sdk, aliases>>
onlyImport == <<source, importer>>

ServiceNext ==
  \/ part = "api" /\ ApiNext /\ UNCHANGED <<part, onlyImport, migrationVars>>
  \/ part = "import" /\ ImportNext /\ UNCHANGED <<part, onlyApi, migrationVars>>
  \/ part = "migrations" /\ MigrationNext /\ UNCHANGED <<part, apiVars, onlyImport>>

ServiceSpec ==
  ServiceInit /\ [][ServiceNext]_<<part, apiVars, onlyImport, migrationVars>> /\ ApiFairness
=============================================================================
