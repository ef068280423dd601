------------------------------ MODULE NodeStore ------------------------------
(***************************************************************************)
(* The SQLite node store (internal/storage/sqlite): the nodes table, the   *)
(* tool-id index (node_tool_ids) and the statements the conversation       *)
(* manager issues on them.  Every statement is one atomic step of SQLite;  *)
(* whoever calls two of them can be interrupted in between.                *)
(*                                                                         *)
(* A node id is a random UUID in the code.  Only its uniqueness is used,   *)
(* so here ids are handed out in creation order and never again.           *)
(*                                                                         *)
(* The connection string enables WAL and a busy timeout and nothing else:  *)
(* the pragma foreign_keys keeps SQLite's default (off), so REFERENCES and *)
(* ON DELETE CASCADE in the schema constrain nothing.                      *)
(***************************************************************************)
EXTENDS Integers, FiniteSets, Sequences

CONSTANT ToolIds      \* tool_use ids that providers hand out

VARIABLES
  nodes,              \* the nodes table: id -> row, for the rows that exist
  nextId,             \* the least id not yet handed out
  toolIndex           \* node_tool_ids: a set of [node, tool, role]

storeVars == <<nodes, nextId, toolIndex>>

NodeId == Nat \ {0}
NoNode == 0           \* parent_id NULL

(***************************************************************************)
(* WITH RECURSIVE computes least fixed points: the rows reachable from a   *)
(* row along parent_id (GetAncestors) or against it (GetSubtree,           *)
(* DeleteNode).  They are defined as the intersection of the closed sets.  *)
(***************************************************************************)
ParentClosed(S) ==
  \A m \in S : nodes[m].parent \in DOMAIN nodes => nodes[m].parent \in S

ChildClosed(S) ==
  \A m \in DOMAIN nodes : nodes[m].parent \in S => m \in S

AncestorIds(n) ==
  LET closed == {S \in SUBSET DOMAIN nodes : n \in S /\ ParentClosed(S)}
  IN  {m \in DOMAIN nodes : n \in DOMAIN nodes /\ \A S \in closed : m \in S}

SubtreeIds(n) ==
  LET closed == {S \in SUBSET DOMAIN nodes : n \in S /\ ChildClosed(S)}
  IN  {m \in DOMAIN nodes : n \in DOMAIN nodes /\ \A S \in closed : m \in S}

\* GetAncestors: the rows on the path from the root to n, n included; the
\* callers order them by sequence (FirstOf and LastOf, and Path of History).
GetAncestors(n) == [m \in AncestorIds(n) |-> nodes[m]]

\* ORDER BY sequence ASC, seen from its two ends.
FirstOf(rows) ==
  CHOOSE a \in DOMAIN rows : \A b \in DOMAIN rows : rows[a].seq <= rows[b].seq
LastOf(rows) ==
  CHOOSE a \in DOMAIN rows : \A b \in DOMAIN rows : rows[b].seq <= rows[a].seq

\* GetOrphanedToolUses: uses indexed on the given nodes whose tool id has no
\* result indexed on any of them.
GetOrphanedToolUses(ids) ==
  LET results == {e.tool : e \in {f \in toolIndex : f.node \in ids /\ f.role = "result"}}
  IN  {e \in toolIndex : e.node \in ids /\ e.role = "use" /\ e.tool \notin results}

-----------------------------------------------------------------------------
StoreInit ==
  /\ nodes = [n \in {} |-> NoNode]
  /\ nextId = 1
  /\ toolIndex = {}

\* Seeded fault: the id is drawn once and used for every row.
CreateNodeSameId(row) ==
  /\ nodes' = [n \in DOMAIN nodes \cup {nextId} |->
                 IF n = nextId THEN row ELSE nodes[n]]
  /\ UNCHANGED nextId

\* INSERT INTO nodes; the id was drawn with uuid.New just before.
CreateNode(row) ==
  /\ nodes' = [n \in DOMAIN nodes \cup {nextId} |->
                 IF n = nextId THEN row ELSE nodes[n]]
  /\ nextId' = nextId + 1

\* INSERT OR IGNORE INTO node_tool_ids, in one transaction.
IndexToolIDs(n, tools, role) ==
  toolIndex' = toolIndex \cup {[node |-> n, tool |-> t, role |-> role] : t \in tools}

\* Seeded fault: the WITH RECURSIVE subtree is forgotten.
DeleteRowOnly(n) ==
  /\ nodes' = [m \in DOMAIN nodes \ {n} |-> nodes[m]]
  /\ UNCHANGED <<nextId, toolIndex>>

\* DELETE FROM nodes WHERE id IN (the subtree of n), one statement; the rows
\* of node_tool_ids stay behind.
DeleteNode(n) ==
  /\ nodes' = [m \in DOMAIN nodes \ SubtreeIds(n) |-> nodes[m]]
  /\ UNCHANGED <<nextId, toolIndex>>
=============================================================================
