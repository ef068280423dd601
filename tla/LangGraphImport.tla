--------------------------- MODULE LangGraphImport ---------------------------
(***************************************************************************)
(* langdag import langgraph (internal/cli/import.go and                    *)
(* internal/migrate/langgraph): the threads of an export file, or of the   *)
(* checkpoints of a LangGraph database, become conversations, one INSERT   *)
(* for each node.  The command may die between any two of them, an INSERT  *)
(* may fail, and the command is run again.                                 *)
(*                                                                         *)
(* Of a message only what decides about its place is kept: its role or the *)
(* LangChain names it comes from, the ids of its tool calls ("" when there *)
(* is none) and the call it replies to.  origin stands for the metadata of *)
(* a node: thread, message, and tool call of the message or 0.             *)
(***************************************************************************)
EXTENDS NodeStore, SequencesExt

CONSTANTS
  Exports,    \* [threads] for a file, [checkpoints] for a database
  MaxImports, \* bound on the runs of the command
  MaxFailures \* bound on the INSERTs that fail

\* Names and ids are strings, the ids of threads and checkpoints numbers.
ExportMessage == [role : STRING, calls : Seq(STRING), reply : STRING]
RawMessage == [type : STRING, class : STRING, calls : Seq(STRING), reply : STRING]
ExportThread == [thread : Nat, messages : Seq(ExportMessage)]
Checkpoint == [thread : Nat, ns : STRING, broken : BOOLEAN, messages : Seq(RawMessage)]

\* A file lists a thread once, as what writes one does; a checkpoint that
\* can be read or not stands for one row of the database.
ASSUME ExportsAssumption ==
  \A e \in Exports :
    \/ /\ e \in [threads : Seq(ExportThread)]
       /\ \A x, y \in DOMAIN e.threads : e.threads[x].thread = e.threads[y].thread => x = y
    \/ e \in [checkpoints : Seq(Checkpoint)]

VARIABLES
  source,     \* the export that is imported
  importer    \* the command: its flags, its place, its Result

importVars == <<source, importer, nodes, nextId, toolIndex>>

-----------------------------------------------------------------------------
(***************************************************************************)
(* Reading.                                                                *)
(***************************************************************************)
langChainTypeToRole(t) ==
  CASE t \in {"human", "HumanMessage"} -> "user"
    [] t \in {"ai", "AIMessage", "assistant"} -> "assistant"
    [] t \in {"tool", "ToolMessage", "function", "FunctionMessage"} -> "tool"
    [] t \in {"system", "SystemMessage"} -> "system"
    [] OTHER -> t

langChainClassToRole(c) ==
  CASE c = "HumanMessage" -> "user"
    [] c \in {"AIMessage", "AIMessageChunk"} -> "assistant"
    [] c \in {"ToolMessage", "FunctionMessage"} -> "tool"
    [] c = "SystemMessage" -> "system"
    [] OTHER -> ""

\* The type goes before the class of the constructor; "" is an error.
RoleOf(m) == IF m.type # "" THEN langChainTypeToRole(m.type) ELSE langChainClassToRole(m.class)

\* Messages without a role are left out without a word; here they stay in
\* their place and become nothing.
ExportedMessages(raw) ==
  [i \in DOMAIN raw |->
     [role  |-> IF RoleOf(raw[i]) = "" THEN "left out" ELSE RoleOf(raw[i]),
      calls |-> raw[i].calls, reply |-> raw[i].reply]]

\* The checkpoints of a thread are in the order of their ids; the latest of
\* the root namespace is read, and a thread where it is broken is left out.
RootCheckpoints(db, t) == {i \in DOMAIN db : db[i].thread = t /\ db[i].ns = ""}
Latest(db, t) == db[CHOOSE i \in RootCheckpoints(db, t) : \A k \in RootCheckpoints(db, t) : k <= i]
Readable(db, t) == RootCheckpoints(db, t) # {} /\ ~Latest(db, t).broken

\* The code sorts the threads; nothing here depends on their order.
ReadExportData(db) ==
  LET ids == SetToSeq({t \in {db[i].thread : i \in DOMAIN db} : Readable(db, t)}) IN
  [i \in DOMAIN ids |->
     [thread |-> ids[i], messages |-> ExportedMessages(Latest(db, ids[i]).messages)]]

Threads == IF "threads" \in DOMAIN source THEN source.threads ELSE ReadExportData(source.checkpoints)

-----------------------------------------------------------------------------
(***************************************************************************)
(* importThread.  Rows are numbered within their thread; 0 is no parent.   *)
(* System messages become no row but the system prompt of a user message   *)
(* that comes before all others.                                           *)
(***************************************************************************)
Speaks(m) == m.role \in {"user", "assistant", "tool"}
FirstOfTalk(t, i) == \A k \in 1 .. i - 1 : t.messages[k].role \in {"system", "left out"}
HasSystem(t) == \E i \in DOMAIN t.messages : t.messages[i].role = "system"

ImportRow(parent, type, origin, system) ==
  [parent |-> parent, type |-> type, origin |-> origin, system |-> system]

NoCall == ""     \* a message that replies to no call, a call without an id

\* The rows of the tool calls with this id (toolCallNodeByID has the last).
CallRows(t, rows, id) ==
  {k \in DOMAIN rows :
     LET o == rows[k].origin IN
     o[3] # 0 /\ id # NoCall /\ t.messages[o[2]].calls[o[3]] = id}

Newest(S) == CHOOSE k \in S : \A l \in S : l <= k

\* The rows after message i.  lastNodeID is always the row made last.
AddMessage(t, rows, i) ==
  LET m     == t.messages[i]
      n     == Len(rows)
      named == CallRows(t, rows, m.reply)
      Plain(type, parent) ==
        Append(rows, ImportRow(parent, type, <<t.thread, i, 0>>,
                               type = "user" /\ FirstOfTalk(t, i) /\ HasSystem(t)))
  IN CASE m.role = "user" -> Plain("user", IF FirstOfTalk(t, i) THEN 0 ELSE n)
       [] m.role = "assistant" ->
            Plain("assistant", n) \o
            [j \in DOMAIN m.calls |-> ImportRow(n + 1, "tool_call", <<t.thread, i, j>>, FALSE)]
       [] m.role = "tool" ->
            Plain("tool_result", IF named = {} THEN n ELSE Newest(named))
       [] OTHER -> rows

RowsBy(t) ==
  LET by[i \in 0 .. Len(t.messages)] == IF i = 0 THEN <<>> ELSE AddMessage(t, by[i - 1], i)
  IN  by

Rows(t) == RowsBy(t)[Len(t.messages)]

-----------------------------------------------------------------------------
(***************************************************************************)
(* ImportExportData.                                                       *)
(***************************************************************************)
Idle == [pc |-> "idle", skip |-> FALSE, existing |-> {}, thread |-> 1, row |-> 1, base |-> 0,
         imported |-> {}, skipped |-> {}, failed |-> {},
         runs |-> 0, failures |-> 0, careful |-> TRUE]

ImportInit ==
  /\ source \in Exports
  /\ importer = Idle
  /\ StoreInit

ImportFrame == UNCHANGED <<source, nodes, nextId, toolIndex>>

\* The threads of the roots, by their metadata.
OriginalThreads == {nodes[n].origin[1] : n \in {m \in DOMAIN nodes : nodes[m].parent = NoNode}}

\* The command with --skip-existing, or without it.  careful: no thread that
\* is already there, in whole or in part, was imported without the flag.
StartImport ==
  /\ importer.pc \in {"idle", "done"} /\ importer.runs < MaxImports
  /\ \E skip \in BOOLEAN :
       importer' = [importer EXCEPT !.pc = "thread", !.skip = skip, !.runs = @ + 1,
         !.existing = IF skip THEN OriginalThreads ELSE {},
         !.thread = 1, !.imported = {}, !.skipped = {}, !.failed = {},
         !.careful = @ /\ (skip \/ DOMAIN nodes = {})]
  /\ ImportFrame

\* --dry-run: the summary counts every thread of the export.
DryRun ==
  /\ importer.pc \in {"idle", "done"} /\ importer.runs < MaxImports
  /\ importer' = [importer EXCEPT !.pc = "done", !.runs = @ + 1,
       !.imported = {}, !.skipped = {}, !.failed = {}]
  /\ ImportFrame

Current == Threads[importer.thread]
AtThread == importer.pc = "thread" /\ importer.thread <= Len(Threads)
NextThread(i) == [i EXCEPT !.pc = "thread", !.thread = @ + 1]
Skips == importer.skip /\ Current.thread \in importer.existing

SkipThread ==
  /\ AtThread /\ Skips
  /\ importer' = NextThread([importer EXCEPT !.skipped = @ \cup {Current.thread}])
  /\ ImportFrame

\* No message that becomes a node: imported, with nothing to show for it.
EmptyThread ==
  /\ AtThread /\ ~Skips /\ Rows(Current) = <<>>
  /\ importer' = NextThread([importer EXCEPT !.imported = @ \cup {Current.thread}])
  /\ ImportFrame

BeginThread ==
  /\ AtThread /\ ~Skips /\ Rows(Current) # <<>>
  /\ importer' = [importer EXCEPT !.pc = "row", !.row = 1, !.base = nextId - 1]
  /\ ImportFrame

Place(i, row) ==
  IF row < Len(Rows(Current)) THEN [i EXCEPT !.pc = "row", !.row = row + 1]
  ELSE NextThread([i EXCEPT !.imported = @ \cup {Current.thread}])

PutRow ==
  /\ importer.pc = "row"
  /\ LET row == Rows(Current)[importer.row] IN
     CreateNode([row EXCEPT !.parent = IF @ = 0 THEN NoNode ELSE importer.base + @])
  /\ importer' = Place(importer, importer.row)
  /\ UNCHANGED <<source, toolIndex>>

\* Seeded faults: the thread is tried again, the row is left out.
RowFailsRetries ==
  /\ importer.pc = "row" /\ importer.failures < MaxFailures
  /\ importer' = [importer EXCEPT !.failures = @ + 1, !.pc = "thread"]
  /\ ImportFrame
RowFailsGoesOn ==
  /\ importer.pc = "row" /\ importer.failures < MaxFailures
  /\ importer' = Place([importer EXCEPT !.failures = @ + 1], importer.row)
  /\ ImportFrame

\* The rest of the thread is given up, the rows before stay.
RowFails ==
  /\ importer.pc = "row" /\ importer.failures < MaxFailures
  /\ importer' = NextThread([importer EXCEPT !.failures = @ + 1, !.failed = @ \cup {Current.thread}])
  /\ ImportFrame

FinishImport ==
  /\ importer.pc = "thread" /\ importer.thread > Len(Threads)
  /\ importer' = [importer EXCEPT !.pc = "done"]
  /\ ImportFrame

\* The process is killed; it had printed nothing of its Result.
ImportDies ==
  /\ importer.pc \in {"thread", "row"}
  /\ importer' = [importer EXCEPT !.pc = "idle", !.imported = {}, !.skipped = {}, !.failed = {}]
  /\ ImportFrame

ImportNext ==
  \/ StartImport \/ DryRun \/ SkipThread \/ EmptyThread \/ BeginThread \/ PutRow \/ RowFails
  \/ FinishImport \/ ImportDies

ImportSpec == ImportInit /\ [][ImportNext]_importVars

-----------------------------------------------------------------------------
(***************************************************************************)
(* What an import promises.                                                *)
(***************************************************************************)

\* "Use --skip-existing to safely re-run an import without creating duplicate
\* threads": however often it is run, dies and fails on the way, no message
\* or tool call has two nodes.
EachMessageOnce ==
  importer.careful =>
    \A m, n \in DOMAIN nodes : nodes[m].origin = nodes[n].origin => m = n

NodesOf(origin) == {n \in DOMAIN nodes : nodes[n].origin = origin}
ParentOrigin(n) == IF nodes[n].parent = NoNode THEN <<>> ELSE nodes[nodes[n].parent].origin

\* The calls before message i that it replies to, and the messages before it.
CallsBefore(t, i) ==
  {c \in UNION {{k} \X DOMAIN t.messages[k].calls : k \in 1 .. i - 1} :
     /\ t.messages[c[1]].role = "assistant"
     /\ t.messages[c[1]].calls[c[2]] = t.messages[i].reply}
SpokenBefore(t, i) == {k \in 1 .. i - 1 : Speaks(t.messages[k])}
NewestCall(S) == CHOOSE c \in S : \A d \in S : d[1] < c[1] \/ (d[1] = c[1] /\ d[2] <= c[2])

\* What the node of message i hangs below: the call it replies to, the latest
\* one with that id, or else the last node of the message before.
Before(t, i) ==
  IF t.messages[i].role = "tool" /\ t.messages[i].reply # NoCall /\ CallsBefore(t, i) # {}
  THEN <<t.thread, NewestCall(CallsBefore(t, i))[1], NewestCall(CallsBefore(t, i))[2]>>
  ELSE IF SpokenBefore(t, i) = {} THEN <<>>
  ELSE LET k == Newest(SpokenBefore(t, i)) IN
       <<t.thread, k, IF t.messages[k].role = "assistant" THEN Len(t.messages[k].calls) ELSE 0>>

\* A thread that is reported as imported is there as a whole: every message
\* below the one before it, every tool call below its message, and every
\* result below the call it answers.
ReportedWhole ==
  \A x \in DOMAIN Threads :
    LET t == Threads[x] IN
    t.thread \in importer.imported =>
      \A i \in DOMAIN t.messages : Speaks(t.messages[i]) =>
        /\ \E n \in NodesOf(<<t.thread, i, 0>>) : ParentOrigin(n) = Before(t, i)
        /\ t.messages[i].role = "assistant" => \A j \in DOMAIN t.messages[i].calls :
             \E n \in NodesOf(<<t.thread, i, j>>) : ParentOrigin(n) = <<t.thread, i, 0>>
=============================================================================
