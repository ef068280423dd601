----------------------------- MODULE NodeNames -----------------------------
(***************************************************************************)
(* How requests name nodes: by id, by the beginning of an id, or by an     *)
(* alias (the table node_aliases).  Every operator is one statement of     *)
(* package sqlite; ResolveNode of the conversation manager is the first    *)
(* three of them in a row, and others may run in between.                  *)
(*                                                                         *)
(* A name is a sequence of digits and letters.  LIKE also takes % and _ in *)
(* a name for wildcards and ignores case; names here have neither.         *)
(***************************************************************************)
EXTENDS NodeStore, SequencesExt

CONSTANT Uuids      \* how the ids that are handed out are spelled, in order

\* Ids are of one length, and no two are alike.
ASSUME SpellingAssumption ==
  \A m, n \in DOMAIN Uuids :
    m # n => Uuids[m] # Uuids[n] /\ ~IsPrefix(Uuids[m], Uuids[n])

VARIABLE aliases    \* node_aliases: alias -> node id

Spelled(n) == Uuids[n]

\* uuid.New gives an id to every new row.  Bound: the ids that are spelled.
HasId == nextId \in DOMAIN Uuids

GetNode(name) == {n \in DOMAIN nodes : Spelled(n) = name}

\* Mutant: names are cut to their first digit.
ByFirstDigit(name) ==
  {n \in DOMAIN nodes : name # <<>> => Head(Spelled(n)) = Head(name)}

\* id LIKE name || '%' LIMIT 1, without ORDER BY: any of these.
GetNodeByPrefix(name) == {n \in DOMAIN nodes : IsPrefix(name, Spelled(n))}

\* The JOIN leaves out aliases of nodes that are gone.
GetNodeByAlias(name) ==
  IF name \in DOMAIN aliases THEN {aliases[name]} \cap DOMAIN nodes ELSE {}

\* alias is a PRIMARY KEY.
AliasFree(alias) == alias \notin DOMAIN aliases

CreateAlias(n, alias) ==
  aliases' = [a \in DOMAIN aliases \cup {alias} |-> IF a = alias THEN n ELSE aliases[a]]

DeleteAlias(alias) == aliases' = [a \in DOMAIN aliases \ {alias} |-> aliases[a]]

ListAliases(n) == {a \in DOMAIN aliases : aliases[a] = n}

ListRootNodes == {n \in DOMAIN nodes : nodes[n].parent = NoNode}
=============================================================================
