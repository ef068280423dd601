-------------------------- MODULE ConversationTree --------------------------
(***************************************************************************)
(* What the conversation manager promises of the stored tree, whatever     *)
(* calls run at once and whichever of them fail: an append-only tree.      *)
(*                                                                         *)
(* A row is added below a node that was stored before it and never         *)
(* changes; ids are never reused; rows leave only together with their      *)
(* stored descendants.  Answers are placed below a message, or below an    *)
(* earlier part of the same answer, never below the answer of another      *)
(* call.                                                                   *)
(***************************************************************************)
EXTENDS Integers

CONSTANTS
  NoParent,     \* the parent of a root
  NoGroup       \* the output group of a row that is in none

VARIABLES
  tree,         \* the stored rows: id -> [parent, root, seq, type, group, ...]
  used          \* every id ever stored

treeVars == <<tree, used>>

Stored(n) == n \in DOMAIN tree

TreeInit == DOMAIN tree = {} /\ used = {}

\* A root starts a tree of its own.
PlacedAsRoot(n, row) == row.root = n /\ row.seq = 0 /\ row.type = "user"

\* Another row stands one below its parent, unless the parent was deleted
\* while the row was on its way.
PlacedBelow(n, row) ==
  /\ row.parent \in used
  /\ Stored(row.parent) =>
       LET above == tree[row.parent] IN
       /\ row.seq = above.seq + 1
       /\ row.type = "assistant" =>
            \/ above.type = "user"
            \/ above.type = "assistant" /\ row.group # NoGroup /\ above.group = row.group

AppendRow ==
  \E n \in DOMAIN tree' \ used :
    /\ used' = used \cup {n}
    /\ DOMAIN tree' = DOMAIN tree \cup {n}
    /\ \A m \in DOMAIN tree : tree'[m] = tree[m]
    /\ IF tree'[n].parent = NoParent THEN PlacedAsRoot(n, tree'[n])
       ELSE PlacedBelow(n, tree'[n])

\* Rows go with everything stored below them.
Prune ==
  /\ used' = used
  /\ DOMAIN tree' \subseteq DOMAIN tree
  /\ \A m \in DOMAIN tree' : tree'[m] = tree[m]
  /\ \A m \in DOMAIN tree' : Stored(tree[m].parent) => tree[m].parent \in DOMAIN tree'

TreeNext == AppendRow \/ Prune

TreeSpec == TreeInit /\ [][TreeNext]_treeVars
=============================================================================
