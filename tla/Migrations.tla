----------------------------- MODULE Migrations -----------------------------
(***************************************************************************)
(* Init of package sqlite: the migrations a database has not had are run   *)
(* when it is opened.  A migration is one string of several statements;    *)
(* they are run one after the other, each in a transaction of its own, so  *)
(* a process may die, or another one may open the file, between any two.   *)
(***************************************************************************)
EXTENDS Integers, FiniteSets, Sequences

CONSTANTS
  Openers,     \* processes that open the database
  MaxDeaths,   \* bound on the processes that die
  OldParent    \* node -> its parent, 0 for none: the nodes of older releases

VARIABLES
  rootIds,   \* node -> its root_id, 0 for NULL
  schema,    \* tables, indexes, columns and backfills that are done
  versions,  \* the rows of schema_version; 0 is never one of them
  opener,    \* process -> [pc, migration, statement]
  deaths

migrationVars == <<rootIds, schema, versions, opener, deaths>>

\* CREATE TABLE or INDEX IF NOT EXISTS, ALTER TABLE ADD COLUMN, a backfill
\* with INSERT OR IGNORE or UPDATE, INSERT OR IGNORE and UPDATE of the version.
Create(t)  == [op |-> "create", what |-> t, to |-> 0]
Add(c)     == [op |-> "add", what |-> c, to |-> 0]
Fill(c)    == [op |-> "fill", what |-> c, to |-> 0]
First      == [op |-> "first", what |-> "schema_version", to |-> 1]
Version(v) == [op |-> "version", what |-> "schema_version", to |-> v]

\* Seeded fault: the version is set before the backfills.
MigrationsVersionFirst ==
  <<<<Create("nodes"), Create("idx_nodes"), Create("schema_version"), First>>,
    <<Add("tokens_cache_read"), Add("tokens_cache_creation"), Add("tokens_reasoning"), Version(2)>>,
    <<Create("node_aliases"), Create("idx_aliases"), Version(3)>>,
    <<Add("provider"), Version(4)>>,
    <<Add("metadata"), Version(5)>>,
    <<Add("root_id"), Version(6), Fill("root_id of roots"), Fill("root_id of the rest"), Create("idx_root")>>,
    <<Create("node_tool_ids"), Create("idx_tool_ids"), Version(7), Fill("ids of uses"), Fill("ids of results")>>,
    <<Add("stop_reason"), Version(8)>>,
    <<Add("output_group_id"), Create("idx_output_group"), Version(9)>>>>

MigrationList ==
  <<<<Create("nodes"), Create("idx_nodes"), Create("schema_version"), First>>,
    <<Add("tokens_cache_read"), Add("tokens_cache_creation"), Add("tokens_reasoning"), Version(2)>>,
    <<Create("node_aliases"), Create("idx_aliases"), Version(3)>>,
    <<Add("provider"), Version(4)>>,
    <<Add("metadata"), Version(5)>>,
    <<Add("root_id"), Fill("root_id of roots"), Fill("root_id of the rest"), Create("idx_root"), Version(6)>>,
    <<Create("node_tool_ids"), Create("idx_tool_ids"), Fill("ids of uses"), Fill("ids of results"), Version(7)>>,
    <<Add("stop_reason"), Version(8)>>,
    <<Add("output_group_id"), Create("idx_output_group"), Version(9)>>>>

Changes(m) == {s.what : s \in {t \in {MigrationList[m][i] : i \in DOMAIN MigrationList[m]} :
                                 t.op \in {"create", "add", "fill"}}}
DoneUpTo(v) == UNION {Changes(m) : m \in 1 .. v}

Roots == {n \in DOMAIN OldParent : OldParent[n] = 0}
Tops ==
  LET top[n \in DOMAIN OldParent] == IF OldParent[n] = 0 THEN n ELSE top[OldParent[n]] IN top

Opening == [pc |-> "opening", migration |-> 1, statement |-> 1]

\* A database of any earlier release, or none.
MigrationInit ==
  \E v \in 0 .. Len(MigrationList) :
    /\ schema = DoneUpTo(v) /\ versions = {v} \ {0}
    /\ rootIds = IF v < 6 THEN [n \in DOMAIN OldParent |-> 0] ELSE Tops
    /\ opener = [p \in Openers |-> Opening]
    /\ deaths = 0

\* SELECT version FROM schema_version LIMIT 1; without the table, or without
\* a row, every migration is run.
ReadVersion(p) ==
  LET v == IF versions = {} THEN 0 ELSE CHOOSE w \in versions : \A x \in versions : w <= x IN
  /\ opener[p].pc = "opening"
  /\ opener' = [opener EXCEPT ![p] = [pc |-> IF v < Len(MigrationList) THEN "running" ELSE "ready",
                                      migration |-> v + 1, statement |-> 1]]
  /\ UNCHANGED <<rootIds, schema, versions, deaths>>

Statement(p) == MigrationList[opener[p].migration][opener[p].statement]
Done(p) ==
  LET o == opener[p] IN
  opener' = [opener EXCEPT ![p] =
    IF o.statement < Len(MigrationList[o.migration]) THEN [o EXCEPT !.statement = @ + 1]
    ELSE IF o.migration < Len(MigrationList) THEN [o EXCEPT !.migration = @ + 1, !.statement = 1]
    ELSE [o EXCEPT !.pc = "ready"]]

\* The two backfills of root_id.  In the second, "WHERE id = nodes.id" stands
\* inside the FROM nodes of the CTE, so that nodes is the inner one and every
\* node is its own start: the roots of all conversations are found, and the
\* scalar subquery takes the first.
Backfill(s) ==
  CASE s.what = "root_id of roots" ->
         rootIds' = [n \in DOMAIN rootIds |-> IF n \in Roots THEN n ELSE rootIds[n]]
    [] s.what = "root_id of the rest" ->
         IF Roots = {} THEN UNCHANGED rootIds
         ELSE \E first \in Roots :
                rootIds' = [n \in DOMAIN rootIds |-> IF rootIds[n] = 0 THEN first ELSE rootIds[n]]
    [] OTHER -> UNCHANGED rootIds

Execute(p) ==
  LET s == Statement(p) IN
  /\ opener[p].pc = "running"
  /\ Backfill(s)
  /\ \/ /\ s.op \in {"create", "fill"} \/ (s.op = "add" /\ s.what \notin schema)
        /\ schema' = schema \cup {s.what} /\ UNCHANGED versions
     \/ /\ s.op = "first" /\ versions' = versions \cup {s.to} /\ UNCHANGED schema
     \/ /\ s.op = "version" /\ Cardinality(versions) < 2
        /\ versions' = {s.to : v \in versions} /\ UNCHANGED schema
  /\ Done(p) /\ UNCHANGED deaths

\* "duplicate column name", or two rows that cannot both get the version.
ExecuteFails(p) ==
  LET s == Statement(p) IN
  /\ opener[p].pc = "running"
  /\ (s.op = "add" /\ s.what \in schema) \/ (s.op = "version" /\ Cardinality(versions) = 2)
  /\ opener' = [opener EXCEPT ![p].pc = "failed"]
  /\ UNCHANGED <<rootIds, schema, versions, deaths>>

\* The process dies, and another one is started.
Die(p) ==
  /\ deaths < MaxDeaths
  /\ deaths' = deaths + 1
  /\ opener' = [opener EXCEPT ![p] = Opening]
  /\ UNCHANGED <<rootIds, schema, versions>>

MigrationNext ==
  \E p \in Openers : ReadVersion(p) \/ Execute(p) \/ ExecuteFails(p) \/ Die(p)

MigrationSpec == MigrationInit /\ [][MigrationNext]_migrationVars

\* A version that is read from the database stands for all that its
\* migrations do, and a process that is let in finds the whole schema with
\* its backfills, whoever else opened the file or died on the way.
VersionMeansDone ==
  /\ \A v \in versions : (\A w \in versions : v <= w) => DoneUpTo(v) \subseteq schema
  /\ \A p \in Openers : opener[p].pc = "ready" => DoneUpTo(Len(MigrationList)) \subseteq schema

\* "Migration 6: Add root_id column for O(1) root lookup from any node": a
\* database that says it is at that version has the root of every node, also
\* of the nodes that were there before.
RootsBackfilled == (\A v \in versions : v >= 6) /\ versions # {} => rootIds = Tops
=============================================================================
