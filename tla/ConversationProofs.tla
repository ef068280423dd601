------------------------- MODULE ConversationProofs -------------------------
(***************************************************************************)
(* Theorems about Conversation, for every set of calls and of outcomes and *)
(* every bound: types and the tree, the root of a path, and the nodes of   *)
(* an output group.                                                        *)
(***************************************************************************)
EXTENDS Conversation, TLAPS, FiniteSetTheorems, WellFoundedInduction

-----------------------------------------------------------------------------
(***************************************************************************)
(* Data.                                                                   *)
(***************************************************************************)

\* A set of naturals that is not empty has a least element.
LEMMA LeastNatural ==
  ASSUME NEW S, S \subseteq Nat, S # {}
  PROVE  \E x \in S : \A y \in S : x <= y
<1>1. PICK x \in S : \A y \in S : ~ (<<y, x>> \in OpToRel(<, Nat))
  BY NatLessThanWellFounded, WFMin
<1>2. \A y \in S : ~ (y < x)
  BY <1>1 DEF OpToRel
<1> QED BY <1>2

\* A finite set of any elements, listed.
LEMMA SetToSeqType ==
  ASSUME NEW S, IsFiniteSet(S), NEW T, S \subseteq T
  PROVE  SetToSeq(S) \in Seq(T)
<1>1. Cardinality(S) \in Nat /\ ExistsBijection(1 .. Cardinality(S), S)
  BY FS_CardinalityType
<1>2. PICK f \in [1 .. Cardinality(S) -> S] : IsInjective(f)
  BY <1>1 DEF ExistsBijection, Bijection, Injection, IsInjective
<1>3. SetToSeq(S) \in [1 .. Cardinality(S) -> S]
  BY <1>2 DEF SetToSeq
<1> QED BY <1>1, <1>3

\* The image of a finite set is finite.
LEMMA ImageFinite ==
  ASSUME NEW S, IsFiniteSet(S), NEW T, NEW f \in [S -> T]
  PROVE  IsFiniteSet({f[x] : x \in S})
<1>1. f \in Surjection(S, {f[x] : x \in S})
  BY DEF Surjection
<1> QED BY <1>1, FS_Surjection

\* The tool ids in a content are finitely many tool ids.
LEMMA ToolsInContent ==
  ASSUME NEW content \in Seq(BlockType)
  PROVE  /\ UsesIn(content) \subseteq ToolIds /\ IsFiniteSet(UsesIn(content))
         /\ ResultsIn(content) \subseteq ToolIds
<1> DEFINE f == [i \in 1 .. Len(content) |-> content[i].from]
<1>1. \A i \in 1 .. Len(content) : content[i] \in BlockType
  OBVIOUS
<1>2. ToSet(content) = {content[i] : i \in 1 .. Len(content)}
  BY DEF ToSet
<1>3. \A b \in BlockType : b.kind \in {"use", "result"} => b.from \in ToolIds
  BY DEF BlockType
<1>4. UsesIn(content) \subseteq ToolIds /\ ResultsIn(content) \subseteq ToolIds
  BY <1>1, <1>2, <1>3 DEF UsesIn, ResultsIn, Blocks
<1>5. IsFiniteSet({f[i] : i \in 1 .. Len(content)})
  <2>1. IsFiniteSet(1 .. Len(content))
    BY FS_Interval
  <2>2. f \in [1 .. Len(content) -> Calls \cup ToolIds]
    BY <1>1 DEF BlockType
  <2> HIDE DEF f
  <2> QED BY <2>1, <2>2, ImageFinite
<1>6. UsesIn(content) \subseteq {f[i] : i \in 1 .. Len(content)}
  BY <1>2 DEF UsesIn, Blocks
<1> QED BY <1>4, <1>5, <1>6, FS_Subset

\* Tool ids made into blocks are a content.
LEMMA ToolBlocks ==
  ASSUME NEW tools, tools \subseteq ToolIds, IsFiniteSet(tools)
  PROVE  /\ SetToSeq({Result(t) : t \in tools}) \in Seq(BlockType)
         /\ SetToSeq({Use(t) : t \in tools}) \in Seq(BlockType)
<1> DEFINE R == [t \in tools |-> Result(t)]
           U == [t \in tools |-> Use(t)]
<1>1. R \in [tools -> BlockType] /\ U \in [tools -> BlockType]
  BY DEF Result, Use, BlockType
<1>2. IsFiniteSet({R[t] : t \in tools}) /\ IsFiniteSet({U[t] : t \in tools})
  BY <1>1, ImageFinite, ZenonT(60)
<1>3. /\ {R[t] : t \in tools} = {Result(t) : t \in tools}
      /\ {U[t] : t \in tools} = {Use(t) : t \in tools}
  OBVIOUS
<1>4. {R[t] : t \in tools} \subseteq BlockType /\ {U[t] : t \in tools} \subseteq BlockType
  BY <1>1
<1> QED BY <1>2, <1>3, <1>4, SetToSeqType

\* What a stream delivered is an outcome, and calls finitely many tools.
LEMMA OutcomeFacts ==
  \A o \in Outcomes \cup {NoOutcome} : o \in OutcomeType /\ IsFiniteSet(o.uses)
<1>1. NoOutcome \in OutcomeType /\ NoOutcome.uses = {}
  BY DEF NoOutcome, OutcomeType
<1>2. IsFiniteSet(NoOutcome.uses)
  BY <1>1, FS_EmptySet
<1> QED BY <1>1, <1>2, OutcomesAssumption

\* The text of a round is a content.
LEMMA PieceTyped ==
  ASSUME NEW c \in Calls, NEW o, NEW n \in Nat
  PROVE  Piece(c, o, n) \in Seq(BlockType)
<1>1. Text(c, n) \in BlockType
  BY DEF Text, BlockType
<1>2. <<>> \in Seq(BlockType) /\ <<Text(c, n)>> \in Seq(BlockType)
  BY <1>1
<1> QED BY <1>2 DEF Piece

-----------------------------------------------------------------------------
(***************************************************************************)
(* The inductive invariant.  TypeOK and ChildFollowsParent are not         *)
(* inductive by themselves: a call inserts a row from what it read of the  *)
(* path earlier (ask, gen), so what it knows must still agree with the     *)
(* table, for every row it knows that is still there.                      *)
(***************************************************************************)

\* Ids are handed out in order, so a row is younger than its parent.
ParentsOlder == \A n \in DOMAIN nodes : nodes[n].parent < n

\* Between its read of the path and its first insert a call knows the path's
\* rows as they are, and that none of them is numbered after its target.
PathKnown ==
  \A c \in Calls : pc[c] = "found" =>
    LET a == ask[c].anc IN
    /\ ask[c].target \in DOMAIN a
    /\ \A n \in DOMAIN a : a[n].seq <= a[ask[c].target].seq
    /\ \A n \in DOMAIN a \cap DOMAIN nodes : nodes[n] = a[n]

Streaming == {"indexing", "checking", "opening", "streaming", "saving", "continuing"}

\* From then on it knows the node to hang the next answer from.
ParentKnown ==
  \A c \in Calls : pc[c] \in Streaming =>
    /\ gen[c].parent \in 1 .. nextId - 1
    /\ gen[c].group \in {NoGroup, c}
    /\ gen[c].parent \in DOMAIN nodes =>
         LET row == nodes[gen[c].parent] IN
         /\ row.seq = gen[c].seq
         /\ row.type = "assistant" => row.group = c /\ gen[c].group = c

\* A group that goes on has been given its id.
GroupKnown ==
  \A c \in Calls :
    pc[c] = "saving" /\ ShouldContinue(gen[c].resp, gen[c].tokens) => gen[c].group = c

\* It indexes the tools of nodes it stored.
IndexedKnown ==
  \A c \in Calls :
    /\ pc[c] = "indexing" => ask[c].user \in NodeId
    /\ pc[c] = "indexingUse" => last[c] \in NodeId

TreeInv ==
  ParentsOlder /\ ChildFollowsParent /\ PathKnown /\ ParentKnown /\ GroupKnown /\ IndexedKnown

IInv == TypeOK /\ TreeInv

-----------------------------------------------------------------------------
(***************************************************************************)
(* Paths.                                                                  *)
(***************************************************************************)

\* The path to a stored row holds the row, and no row numbered after it:
\* the rows numbered before it, with it, are closed under taking parents.
LEMMA PathEndsInTarget ==
  ASSUME StoreOK, ChildFollowsParent, NEW p \in DOMAIN nodes
  PROVE  /\ p \in AncestorIds(p)
         /\ AncestorIds(p) \subseteq DOMAIN nodes
         /\ \A m \in AncestorIds(p) : nodes[m].seq <= nodes[p].seq
<1> DEFINE below == {m \in DOMAIN nodes : m = p \/ nodes[m].seq < nodes[p].seq}
<1>1. \A m \in DOMAIN nodes : nodes[m].seq \in Nat
  BY DEF StoreOK, RowType
<1>2. below \in SUBSET DOMAIN nodes /\ p \in below
  OBVIOUS
<1>3. ParentClosed(below)
  BY <1>1 DEF ParentClosed, ChildFollowsParent
<1>4. AncestorIds(p) \subseteq below
  BY <1>2, <1>3 DEF AncestorIds
<1>5. p \in AncestorIds(p)
  BY DEF AncestorIds
<1> QED BY <1>1, <1>4, <1>5

\* A path with rows has a first one.
LEMMA FirstOfPath ==
  ASSUME NEW rows, DOMAIN rows # {}, \A n \in DOMAIN rows : rows[n].seq \in Nat
  PROVE  FirstOf(rows) \in DOMAIN rows
<1> DEFINE S == {rows[n].seq : n \in DOMAIN rows}
<1>1. S \subseteq Nat /\ S # {}
  OBVIOUS
<1>2. PICK x \in S : \A y \in S : x <= y
  <2> HIDE DEF S
  <2> QED BY <1>1, LeastNatural
<1>3. PICK a \in DOMAIN rows : rows[a].seq = x
  OBVIOUS
<1>4. \A b \in DOMAIN rows : rows[a].seq <= rows[b].seq
  BY <1>2, <1>3
<1> QED BY <1>4 DEF FirstOf

\* The last row of the path a call read is numbered like its target.
LEMMA LastOfPath ==
  ASSUME NEW rows, NEW p \in DOMAIN rows, \A n \in DOMAIN rows : rows[n].seq \in Nat,
         \A n \in DOMAIN rows : rows[n].seq <= rows[p].seq
  PROVE  LastOf(rows) \in DOMAIN rows /\ rows[LastOf(rows)].seq = rows[p].seq
<1>1. LastOf(rows) \in DOMAIN rows
      /\ \A b \in DOMAIN rows : rows[b].seq <= rows[LastOf(rows)].seq
  BY DEF LastOf
<1> QED BY <1>1

(***************************************************************************)
(* Inserts.                                                                *)
(***************************************************************************)

\* What an insert does to the table.
LEMMA Inserted ==
  ASSUME StoreOK, ParentsOlder, NEW row, CreateNode(row)
  PROVE  /\ nextId \in Nat \ {0} /\ nextId' = nextId + 1
         /\ DOMAIN nodes' = DOMAIN nodes \cup {nextId}
         /\ nextId \notin DOMAIN nodes
         /\ \A n \in DOMAIN nodes : nodes'[n] = nodes[n] /\ nodes[n].parent # nextId
         /\ nodes'[nextId] = row
<1>1. nextId \in Nat \ {0}
  BY DEF StoreOK, NodeId
<1>2. \A n \in DOMAIN nodes : n \in Nat /\ n < nextId
  BY <1>1 DEF StoreOK
<1>3. \A n \in DOMAIN nodes : nodes[n].parent \in Nat
  BY DEF StoreOK, RowType
<1> QED BY <1>1, <1>2, <1>3 DEF CreateNode, ParentsOlder

\* An insert of a row that fits below its parent keeps the table in order.
LEMMA InsertKeeps ==
  ASSUME StoreOK, ParentsOlder, ChildFollowsParent, NEW row \in RowType,
         row.parent < nextId,
         row.parent \in DOMAIN nodes => row.seq = nodes[row.parent].seq + 1,
         CreateNode(row), toolIndex' = toolIndex
  PROVE  StoreOK' /\ ParentsOlder' /\ ChildFollowsParent'
<1>1. /\ nextId \in Nat \ {0} /\ nextId' = nextId + 1
      /\ DOMAIN nodes' = DOMAIN nodes \cup {nextId}
      /\ nextId \notin DOMAIN nodes
      /\ \A n \in DOMAIN nodes : nodes'[n] = nodes[n] /\ nodes[n].parent # nextId
      /\ nodes'[nextId] = row
  BY Inserted
<1>2. StoreOK'
  BY <1>1 DEF StoreOK, NodeId
<1>3. ParentsOlder'
  BY <1>1 DEF ParentsOlder
<1>4. ChildFollowsParent'
  <2> SUFFICES ASSUME NEW n \in DOMAIN nodes', nodes'[n].parent \in DOMAIN nodes'
               PROVE  nodes'[n].seq = nodes'[nodes'[n].parent].seq + 1
    BY DEF ChildFollowsParent
  <2>1. CASE n \in DOMAIN nodes
    BY <1>1, <2>1 DEF ChildFollowsParent
  <2>2. CASE n = nextId
    BY <1>1, <2>2
  <2> QED BY <1>1, <2>1, <2>2
<1> QED BY <1>2, <1>3, <1>4

\* The rows calls insert have the types of the table.
LEMMA RowsTyped ==
  ASSUME IInv, NEW c \in Calls
  PROVE  /\ pc[c] = "idle" => RootRow(c) \in RowType
         /\ pc[c] = "found" => UserRow(c) \in RowType
         /\ pc[c] = "saving" => AssistantRow(c) \in RowType
<1>1. nextId \in NodeId /\ nextId \in Nat
  BY DEF IInv, TypeOK, StoreOK, NodeId
<1>2. pc[c] = "idle" => RootRow(c) \in RowType
  <2>1. <<Text(c, 0)>> \in Seq(BlockType)
    BY DEF Text, BlockType
  <2> QED BY <1>1, <2>1 DEF RootRow, Row, RowType, NoNode
<1>3. ASSUME pc[c] = "found" PROVE UserRow(c) \in RowType
  <2> DEFINE a == ask[c].anc
  <2>1. /\ \A n \in DOMAIN a : n \in Nat /\ a[n] \in RowType /\ a[n].seq \in Nat
        /\ ask[c].target \in DOMAIN a /\ ask[c].target \in Nat
        /\ \A n \in DOMAIN a : a[n].seq <= a[ask[c].target].seq
        /\ ask[c].msg \in Seq(BlockType)
    BY <1>1, <1>3 DEF IInv, TypeOK, AskOK, TreeInv, PathKnown, RowType
  <2>2. FirstOf(a) \in DOMAIN a
    BY <2>1, FirstOfPath
  <2>3. LastOf(a) \in DOMAIN a
    BY <2>1, LastOfPath
  <2>4. FirstOf(a) \in Nat /\ a[LastOf(a)].seq + 1 \in Nat
    BY <2>1, <2>2, <2>3
  <2> HIDE DEF a
  <2>5. [id |-> nextId, parent |-> ask[c].target, root |-> FirstOf(a),
         seq |-> a[LastOf(a)].seq + 1, type |-> "user", content |-> ask[c].msg,
         group |-> NoGroup] \in RowType
    BY <1>1, <2>1, <2>4 DEF RowType
  <2> QED BY <2>5 DEF UserRow, Row, a
<1>4. ASSUME pc[c] = "saving" PROVE AssistantRow(c) \in RowType
  <2>1. GenOK(gen[c])
    BY DEF IInv, TypeOK
  <2>2. gen[c].resp.uses \subseteq ToolIds /\ IsFiniteSet(gen[c].resp.uses)
    BY <2>1, OutcomeFacts DEF GenOK, OutcomeType
  <2>3. Piece(c, gen[c].resp, Len(gen[c].acc)) \in Seq(BlockType)
    BY <2>1, PieceTyped DEF GenOK
  <2>4. UseBlocks(gen[c].resp) \in Seq(BlockType)
    BY <2>2, ToolBlocks DEF UseBlocks
  <2>5. NodeContent(c) \in Seq(BlockType)
    BY <2>1, <2>3, <2>4 DEF NodeContent, GenOK
  <2> QED BY <1>1, <2>1, <2>5 DEF AssistantRow, Row, RowType, GenOK
<1> QED BY <1>2, <1>3, <1>4

-----------------------------------------------------------------------------
(***************************************************************************)
(* The table, step by step.                                                *)
(***************************************************************************)

\* The row a call is about to insert fits below its parent.
LEMMA RowsFit ==
  ASSUME IInv, NEW c \in Calls
  PROVE  /\ RootRow(c).parent < nextId /\ RootRow(c).parent \notin DOMAIN nodes
         /\ pc[c] = "found" =>
              /\ UserRow(c).parent < nextId
              /\ UserRow(c).parent \in DOMAIN nodes =>
                   UserRow(c).seq = nodes[UserRow(c).parent].seq + 1
         /\ pc[c] = "saving" =>
              /\ AssistantRow(c).parent < nextId
              /\ AssistantRow(c).parent \in DOMAIN nodes =>
                   AssistantRow(c).seq = nodes[AssistantRow(c).parent].seq + 1
<1>1. nextId \in Nat \ {0} /\ \A n \in DOMAIN nodes : n # 0
  BY DEF IInv, TypeOK, StoreOK, NodeId
<1>2. RootRow(c).parent = 0
  BY DEF RootRow, Row, NoNode
<1>3. ASSUME pc[c] = "found"
      PROVE  /\ UserRow(c).parent < nextId
             /\ UserRow(c).parent \in DOMAIN nodes =>
                  UserRow(c).seq = nodes[UserRow(c).parent].seq + 1
  <2> DEFINE a == ask[c].anc
  <2>1. /\ \A n \in DOMAIN a : n \in Nat /\ n < nextId /\ a[n].seq \in Nat
        /\ ask[c].target \in DOMAIN a
        /\ \A n \in DOMAIN a : a[n].seq <= a[ask[c].target].seq
        /\ \A n \in DOMAIN a \cap DOMAIN nodes : nodes[n] = a[n]
    BY <1>1, <1>3, SMTT(30) DEF IInv, TypeOK, AskOK, TreeInv, PathKnown, RowType
  <2>2. a[LastOf(a)].seq = a[ask[c].target].seq
    BY <2>1, LastOfPath
  <2>3. UserRow(c).parent = ask[c].target /\ UserRow(c).seq = a[LastOf(a)].seq + 1
    BY DEF UserRow, Row
  <2> HIDE DEF a
  <2> QED BY <2>1, <2>2, <2>3
<1>4. ASSUME pc[c] = "saving"
      PROVE  /\ AssistantRow(c).parent < nextId
             /\ AssistantRow(c).parent \in DOMAIN nodes =>
                  AssistantRow(c).seq = nodes[AssistantRow(c).parent].seq + 1
  <2>1. AssistantRow(c).parent = gen[c].parent /\ AssistantRow(c).seq = gen[c].seq + 1
    BY DEF AssistantRow, Row
  <2> QED BY <1>1, <1>4, <2>1 DEF IInv, TreeInv, ParentKnown, Streaming
<1> QED BY <1>1, <1>2, <1>3, <1>4

\* Every step leaves the table in order: it inserts a row that fits, deletes
\* a subtree, or does not touch the table.
LEMMA StepKeepsTable ==
  ASSUME IInv, [Next]_vars
  PROVE  StoreOK' /\ ParentsOlder' /\ ChildFollowsParent'
<1>1. StoreOK /\ ParentsOlder /\ ChildFollowsParent
  BY DEF IInv, TypeOK, TreeInv
<1>2. nextId \in NodeId /\ nextId \in Nat
  BY <1>1 DEF StoreOK, NodeId
<1>3. ASSUME nodes' = nodes, nextId' = nextId, toolIndex' \subseteq IndexType
      PROVE  StoreOK' /\ ParentsOlder' /\ ChildFollowsParent'
  BY <1>1, <1>3 DEF StoreOK, ParentsOlder, ChildFollowsParent
<1>4. ASSUME UNCHANGED storeVars
      PROVE  StoreOK' /\ ParentsOlder' /\ ChildFollowsParent'
  BY <1>1, <1>3, <1>4 DEF storeVars, StoreOK
<1>5. ASSUME NEW c \in Calls, Prompt(c)
      PROVE  StoreOK' /\ ParentsOlder' /\ ChildFollowsParent'
  BY <1>1, <1>5, RowsTyped, RowsFit, InsertKeeps DEF Prompt, Goto
<1>6. ASSUME NEW c \in Calls, CreateUser(c)
      PROVE  StoreOK' /\ ParentsOlder' /\ ChildFollowsParent'
  BY <1>1, <1>6, RowsTyped, RowsFit, InsertKeeps DEF CreateUser, Goto
<1>7. ASSUME NEW c \in Calls, Save(c)
      PROVE  StoreOK' /\ ParentsOlder' /\ ChildFollowsParent'
  BY <1>1, <1>7, RowsTyped, RowsFit, InsertKeeps DEF Save, Goto
<1>8. ASSUME NEW c \in Calls, IndexResults(c)
      PROVE  StoreOK' /\ ParentsOlder' /\ ChildFollowsParent'
  <2>1. ask[c].user \in NodeId /\ ResultsIn(ask[c].msg) \subseteq ToolIds
    BY <1>8, ToolsInContent DEF IndexResults, Goto, IInv, TypeOK, AskOK, TreeInv, IndexedKnown
  <2>2. toolIndex' \subseteq IndexType
    BY <1>1, <1>8, <2>1 DEF IndexResults, IndexToolIDs, IndexType, StoreOK
  <2> QED BY <1>3, <1>8, <2>2 DEF IndexResults
<1>9. ASSUME NEW c \in Calls, IndexUses(c)
      PROVE  StoreOK' /\ ParentsOlder' /\ ChildFollowsParent'
  <2>1. last[c] \in NodeId /\ gen[c].resp.uses \subseteq ToolIds
    BY <1>9, OutcomeFacts DEF IndexUses, Goto, IInv, TypeOK, GenOK, OutcomeType, TreeInv, IndexedKnown
  <2>2. toolIndex' \subseteq IndexType
    BY <1>1, <1>9, <2>1 DEF IndexUses, IndexToolIDs, IndexType, StoreOK
  <2> QED BY <1>3, <1>9, <2>2 DEF IndexUses
<1>10. ASSUME Delete
       PROVE  StoreOK' /\ ParentsOlder' /\ ChildFollowsParent'
  <2>1. PICK n \in DOMAIN nodes : DeleteNode(n)
    BY <1>10 DEF Delete
  <2>2. /\ DOMAIN nodes' \subseteq DOMAIN nodes
        /\ \A m \in DOMAIN nodes' : nodes'[m] = nodes[m]
        /\ nextId' = nextId /\ toolIndex' = toolIndex
    BY <2>1 DEF DeleteNode
  <2> QED BY <1>1, <2>2 DEF StoreOK, ParentsOlder, ChildFollowsParent
<1>11. ASSUME NEW c \in Calls,
              \/ PromptFrom(c) \/ PromptFromFails(c) \/ CreateFails(c)
              \/ CheckOrphans(c) \/ CheckFails(c) \/ OpenStream(c) \/ OpenFails(c)
              \/ DrainNothing(c) \/ Drain(c) \/ SaveFails(c)
              \/ Continue(c) \/ ContinueFails(c)
       PROVE  UNCHANGED storeVars
  BY <1>11 DEF PromptFrom, PromptFromFails, CreateFails, CheckOrphans, CheckFails, OpenStream,
       OpenFails, DrainNothing, Drain, SaveFails, Continue, ContinueFails
<1>12. CASE UNCHANGED vars
  BY <1>4, <1>12 DEF vars, storeVars
<1> QED BY <1>4, <1>5, <1>6, <1>7, <1>8, <1>9, <1>10, <1>11, <1>12 DEF Next, Work

(***************************************************************************)
(* The calls' variables, step by step.                                     *)
(***************************************************************************)

\* What a caller can reply is a content.
LEMMA RepliesTyped ==
  ASSUME StoreOK, NEW c \in Calls, NEW p \in DOMAIN nodes, NEW m \in Replies(c, p)
  PROVE  m \in Seq(BlockType)
<1>1. <<Text(c, 0)>> \in Seq(BlockType)
  BY DEF Text, BlockType
<1>2. nodes[p].content \in Seq(BlockType)
  BY DEF StoreOK, RowType
<1>3. UsesIn(nodes[p].content) \subseteq ToolIds /\ IsFiniteSet(UsesIn(nodes[p].content))
  BY <1>2, ToolsInContent
<1>4. ASSUME NEW r \in SUBSET UsesIn(nodes[p].content)
      PROVE  SetToSeq({Result(t) : t \in r}) \in Seq(BlockType)
  BY <1>3, FS_Subset, ToolBlocks
<1> QED BY <1>1, <1>4 DEF Replies

\* The path a call reads is typed, and is what PathKnown says of it.
LEMMA PathRead ==
  ASSUME StoreOK, ChildFollowsParent, NEW p \in DOMAIN nodes
  PROVE  LET a == GetAncestors(p) IN
         /\ DOMAIN a \subseteq DOMAIN nodes /\ p \in DOMAIN a
         /\ \A n \in DOMAIN a : a[n] = nodes[n] /\ a[n] \in RowType /\ a[n].seq <= a[p].seq
<1>1. /\ p \in AncestorIds(p) /\ AncestorIds(p) \subseteq DOMAIN nodes
      /\ \A m \in AncestorIds(p) : nodes[m].seq <= nodes[p].seq
  BY PathEndsInTarget
<1> QED BY <1>1 DEF GetAncestors, StoreOK

\* Every step leaves the locals of the streaming goroutines typed.
LEMMA StepKeepsGen ==
  ASSUME IInv, [Next]_vars
  PROVE  DOMAIN gen' = Calls /\ \A c \in Calls : GenOK(gen[c])'
<1>1. DOMAIN gen = Calls /\ nextId \in Nat /\ \A c \in Calls : GenOK(gen[c])
  BY DEF IInv, TypeOK, StoreOK, NodeId
<1>2. GenOK(NoGen)
  BY DEF NoGen, GenOK, NoNode
<1>3. ASSUME gen' = gen
      PROVE  DOMAIN gen' = Calls /\ \A c \in Calls : GenOK(gen[c])'
  BY <1>1, <1>3 DEF GenOK
<1>4. ASSUME NEW c \in Calls, NEW g, GenOK(g), gen' = [gen EXCEPT ![c] = g]
      PROVE  DOMAIN gen' = Calls /\ \A d \in Calls : GenOK(gen[d])'
  BY <1>1, <1>4 DEF GenOK
<1>5. ASSUME NEW c \in Calls, Prompt(c) \/ CreateUser(c)
      PROVE  DOMAIN gen' = Calls /\ \A d \in Calls : GenOK(gen[d])'
  <2>1. ASSUME NEW row \in RowType PROVE GenOK(HangFrom(row))
    BY <1>2 DEF HangFrom, GenOK, RowType, NoGen, NodeId
  <2>2. CASE Prompt(c)
    BY <1>4, <2>1, <2>2, RowsTyped DEF Prompt, Goto
  <2>3. CASE CreateUser(c)
    BY <1>4, <2>1, <2>3, RowsTyped DEF CreateUser, Goto
  <2> QED BY <1>5, <2>2, <2>3
<1>6. ASSUME NEW c \in Calls, Drain(c)
      PROVE  DOMAIN gen' = Calls /\ \A d \in Calls : GenOK(gen[d])'
  <2>1. PICK o \in Outcomes : gen' = [gen EXCEPT ![c] = Accumulate(c, o)]
    BY <1>6 DEF Drain
  <2>2. gen[c].acc \in Seq(BlockType) /\ gen[c].tokens \in Nat /\ o.tokens \in Nat
    BY <1>1, OutcomeFacts DEF GenOK, OutcomeType
  <2>3. gen[c].acc \o Piece(c, o, Len(gen[c].acc) + 1) \in Seq(BlockType)
    BY <2>2, PieceTyped
  <2>4. GenOK(Accumulate(c, o))
    BY <1>1, <2>2, <2>3 DEF Accumulate, GenOK, NoGen
  <2> QED BY <1>4, <2>1, <2>4
<1>7. ASSUME NEW c \in Calls, Save(c)
      PROVE  DOMAIN gen' = Calls /\ \A d \in Calls : GenOK(gen[d])'
  <2>1. \/ gen' = [gen EXCEPT ![c] = Advance(c)]
        \/ gen' = gen
        \/ Return(c)
    BY <1>7 DEF Save
  <2>2. GenOK(Advance(c))
    BY <1>1 DEF Advance, GenOK, NoGen
  <2> QED BY <1>2, <1>3, <1>4, <2>1, <2>2 DEF Return
<1>8. ASSUME NEW c \in Calls,
             \/ PromptFrom(c) \/ PromptFromFails(c) \/ CreateFails(c) \/ IndexResults(c)
             \/ CheckOrphans(c) \/ OpenStream(c) \/ Continue(c)
      PROVE  gen' = gen
  BY <1>8 DEF PromptFrom, PromptFromFails, CreateFails, IndexResults, CheckOrphans, OpenStream,
       Continue
<1>9. ASSUME NEW c \in Calls,
             \/ CheckFails(c) \/ OpenFails(c) \/ DrainNothing(c)
             \/ SaveFails(c) \/ IndexUses(c) \/ ContinueFails(c)
      PROVE  gen' = [gen EXCEPT ![c] = NoGen]
  BY <1>9 DEF CheckFails, OpenFails, DrainNothing, SaveFails, IndexUses, ContinueFails, Return
<1>10. ASSUME Delete \/ UNCHANGED vars PROVE gen' = gen
  BY <1>10 DEF Delete, callVars, vars
<1> QED BY <1>2, <1>3, <1>4, <1>5, <1>6, <1>7, <1>8, <1>9, <1>10 DEF Next, Work

\* Every step leaves the locals of the calling goroutines typed.
LEMMA StepKeepsAsk ==
  ASSUME IInv, [Next]_vars
  PROVE  DOMAIN ask' = Calls /\ \A c \in Calls : AskOK(ask[c])'
<1>1. /\ DOMAIN ask = Calls /\ \A c \in Calls : AskOK(ask[c])
      /\ nextId \in Nat \ {0} /\ DOMAIN nodes \subseteq 1 .. nextId - 1
  BY DEF IInv, TypeOK, StoreOK, NodeId
<1>2. nextId' \in Nat /\ nextId <= nextId'
  <2>1. ASSUME NEW c \in Calls, Prompt(c) \/ CreateUser(c) \/ Save(c)
        PROVE  nextId' = nextId + 1
    BY <2>1 DEF Prompt, CreateUser, Save, CreateNode
  <2>2. ASSUME NEW c \in Calls,
               \/ PromptFrom(c) \/ PromptFromFails(c) \/ CreateFails(c) \/ IndexResults(c)
               \/ CheckOrphans(c) \/ CheckFails(c) \/ OpenStream(c) \/ OpenFails(c)
               \/ DrainNothing(c) \/ Drain(c) \/ SaveFails(c) \/ IndexUses(c)
               \/ Continue(c) \/ ContinueFails(c)
        PROVE  nextId' = nextId
    BY <2>2 DEF PromptFrom, PromptFromFails, CreateFails, IndexResults, CheckOrphans, CheckFails,
         OpenStream, OpenFails, DrainNothing, Drain, SaveFails, IndexUses, Continue, ContinueFails,
         storeVars
  <2>3. ASSUME Delete \/ UNCHANGED vars PROVE nextId' = nextId
    BY <2>3 DEF Delete, DeleteNode, vars
  <2> QED BY <1>1, <2>1, <2>2, <2>3 DEF Next, Work
<1>3. ASSUME NEW a, AskOK(a) PROVE AskOK(a)'
  BY <1>1, <1>2, <1>3 DEF AskOK
<1>4. AskOK(NoAsk)
  BY DEF AskOK, NoAsk, NoNode
<1>5. ASSUME ask' = ask PROVE DOMAIN ask' = Calls /\ \A c \in Calls : AskOK(ask[c])'
  BY <1>1, <1>3, <1>5
<1>6. ASSUME NEW c \in Calls, NEW a, AskOK(a), ask' = [ask EXCEPT ![c] = a]
      PROVE  DOMAIN ask' = Calls /\ \A d \in Calls : AskOK(ask[d])'
  BY <1>1, <1>3, <1>6
<1>7. ASSUME NEW c \in Calls, PromptFrom(c)
      PROVE  DOMAIN ask' = Calls /\ \A d \in Calls : AskOK(ask[d])'
  <2>1. PICK p \in DOMAIN nodes : \E m \in Replies(c, p) :
          ask' = [ask EXCEPT ![c] = [NoAsk EXCEPT !.anc = GetAncestors(p), !.target = p, !.msg = m]]
    BY <1>7 DEF PromptFrom
  <2>1a. PICK m \in Replies(c, p) :
           ask' = [ask EXCEPT ![c] = [NoAsk EXCEPT !.anc = GetAncestors(p), !.target = p, !.msg = m]]
    BY <2>1
  <2>2. m \in Seq(BlockType)
    BY RepliesTyped DEF IInv, TypeOK
  <2>3. /\ DOMAIN GetAncestors(p) \subseteq DOMAIN nodes
        /\ \A n \in DOMAIN GetAncestors(p) : GetAncestors(p)[n] \in RowType
    BY PathRead DEF IInv, TypeOK, TreeInv
  <2>4. AskOK([NoAsk EXCEPT !.anc = GetAncestors(p), !.target = p, !.msg = m])
    BY <1>1, <2>2, <2>3 DEF AskOK, NoAsk, NoNode
  <2> QED BY <1>6, <2>1a, <2>4
<1>8. ASSUME NEW c \in Calls, CreateUser(c)
      PROVE  DOMAIN ask' = Calls /\ \A d \in Calls : AskOK(ask[d])'
  <2>1. AskOK([ask[c] EXCEPT !.user = nextId])
    BY <1>1 DEF AskOK, NoAsk
  <2> QED BY <1>6, <1>8, <2>1 DEF CreateUser
<1>9. ASSUME NEW c \in Calls, CheckOrphans(c)
      PROVE  DOMAIN ask' = Calls /\ \A d \in Calls : AskOK(ask[d])'
  <2>1. GetOrphanedToolUses(PathIds(c)) \subseteq IndexType
    BY DEF GetOrphanedToolUses, IInv, TypeOK, StoreOK
  <2>2. AskOK([ask[c] EXCEPT !.orphans = GetOrphanedToolUses(PathIds(c))])
    BY <1>1, <2>1 DEF AskOK, NoAsk
  <2> QED BY <1>6, <1>9, <2>2 DEF CheckOrphans
<1>10. ASSUME NEW c \in Calls,
              CreateFails(c) \/ CheckFails(c) \/ OpenStream(c) \/ OpenFails(c)
       PROVE  ask' = [ask EXCEPT ![c] = NoAsk]
  BY <1>10 DEF CreateFails, CheckFails, OpenStream, OpenFails
<1>11. ASSUME NEW c \in Calls,
              \/ Prompt(c) \/ PromptFromFails(c) \/ IndexResults(c) \/ DrainNothing(c) \/ Drain(c)
              \/ Save(c) \/ SaveFails(c) \/ IndexUses(c) \/ Continue(c) \/ ContinueFails(c)
       PROVE  ask' = ask
  BY <1>11 DEF Prompt, PromptFromFails, IndexResults, DrainNothing, Drain, Save, SaveFails,
       IndexUses, Continue, ContinueFails
<1>12. ASSUME Delete \/ UNCHANGED vars PROVE ask' = ask
  BY <1>12 DEF Delete, callVars, vars
<1> QED BY <1>4, <1>5, <1>6, <1>7, <1>8, <1>9, <1>10, <1>11, <1>12 DEF Next, Work

\* Every step of a typed state leads to a typed state.
LEMMA StepKeepsTypes ==
  ASSUME IInv, [Next]_vars
  PROVE  TypeOK'
<1>1. /\ pc \in [Calls -> Phases] /\ last \in [Calls -> Nat] /\ faults \in Nat /\ deletes \in Nat
      /\ events \in [Calls -> Seq({"saved", "error"})] /\ nextId \in Nat
  BY DEF IInv, TypeOK, StoreOK, NodeId
<1>2. StoreOK'
  BY StepKeepsTable
<1>3. /\ DOMAIN ask' = Calls /\ \A c \in Calls : AskOK(ask[c])'
      /\ DOMAIN gen' = Calls /\ \A c \in Calls : GenOK(gen[c])'
  BY StepKeepsAsk, StepKeepsGen
<1>4. pc' \in [Calls -> Phases]
  <2>1. ASSUME NEW c \in Calls, NEW from, NEW to \in Phases, Goto(c, from, to)
        PROVE  pc' \in [Calls -> Phases]
    BY <1>1, <2>1 DEF Goto
  <2>2. ASSUME NEW c \in Calls, Prompt(c) \/ PromptFrom(c) \/ PromptFromFails(c) \/ CreateUser(c)
        PROVE  pc' \in [Calls -> Phases]
    BY <2>1, <2>2 DEF Prompt, PromptFrom, PromptFromFails, CreateUser, Phases
  <2>3. ASSUME NEW c \in Calls,
               CreateFails(c) \/ IndexResults(c) \/ CheckOrphans(c) \/ CheckFails(c)
        PROVE  pc' \in [Calls -> Phases]
    BY <2>1, <2>3 DEF CreateFails, IndexResults, CheckOrphans, CheckFails, Phases
  <2>4. ASSUME NEW c \in Calls, OpenStream(c) \/ OpenFails(c) \/ DrainNothing(c) \/ Drain(c)
        PROVE  pc' \in [Calls -> Phases]
    BY <2>1, <2>4 DEF OpenStream, OpenFails, DrainNothing, Drain, Phases
  <2>5. ASSUME NEW c \in Calls, Save(c) \/ SaveFails(c) \/ IndexUses(c)
        PROVE  pc' \in [Calls -> Phases]
    BY <2>1, <2>5 DEF Save, SaveFails, IndexUses, Phases
  <2>6. ASSUME NEW c \in Calls, Continue(c) \/ ContinueFails(c)
        PROVE  pc' \in [Calls -> Phases]
    BY <2>1, <2>6 DEF Continue, ContinueFails, Phases
  <2>7. ASSUME Delete \/ UNCHANGED vars PROVE pc' \in [Calls -> Phases]
    BY <1>1, <2>7 DEF Delete, callVars, vars
  <2> QED BY <2>2, <2>3, <2>4, <2>5, <2>6, <2>7 DEF Next, Work
<1>5. last' \in [Calls -> Nat]
  <2>1. ASSUME NEW c \in Calls, Save(c) PROVE last' \in [Calls -> Nat]
    BY <1>1, <2>1 DEF Save
  <2>2. ASSUME NEW c \in Calls,
               \/ Prompt(c) \/ PromptFrom(c) \/ PromptFromFails(c) \/ CreateUser(c)
               \/ CreateFails(c) \/ IndexResults(c) \/ CheckOrphans(c) \/ CheckFails(c)
               \/ OpenStream(c) \/ OpenFails(c) \/ DrainNothing(c) \/ Drain(c) \/ SaveFails(c)
               \/ IndexUses(c) \/ Continue(c) \/ ContinueFails(c)
        PROVE  last' = last
    BY <2>2 DEF Prompt, PromptFrom, PromptFromFails, CreateUser, CreateFails, IndexResults,
         CheckOrphans, CheckFails, OpenStream, OpenFails, DrainNothing, Drain, SaveFails,
         IndexUses, Continue, ContinueFails
  <2>3. ASSUME Delete \/ UNCHANGED vars PROVE last' = last
    BY <2>3 DEF Delete, callVars, vars
  <2> QED BY <1>1, <2>1, <2>2, <2>3 DEF Next, Work
<1>6. events' \in [Calls -> Seq({"saved", "error"})]
  <2> DEFINE Kinds == Seq({"saved", "error"})
  <2>1. ASSUME NEW c \in Calls, NEW kinds \in Kinds, Emit(c, kinds)
        PROVE  events' \in [Calls -> Kinds]
    <3>1. events[c] \o kinds \in Kinds
      BY <1>1
    <3> QED BY <1>1, <2>1, <3>1 DEF Emit
  <2>2. <<>> \in Kinds /\ <<"saved">> \in Kinds /\ <<"error">> \in Kinds
    OBVIOUS
  <2>3. \A o : Errors(o) \in Kinds
    BY <2>2 DEF Errors
  <2>4. \A o : /\ Errors(o) \o <<>> \in Kinds /\ Errors(o) \o <<"saved">> \in Kinds
               /\ Errors(o) \o <<"error">> \in Kinds
    BY <2>2, <2>3
  <2> HIDE DEF Kinds
  <2>5. ASSUME NEW c \in Calls, DrainNothing(c) PROVE events' \in [Calls -> Kinds]
    <3>1. PICK o \in Outcomes :
            Emit(c, Errors(o) \o (IF last[c] # NoNode THEN <<"saved">>
                                  ELSE IF UselessStream(o) THEN <<"error">> ELSE <<>>))
      BY <2>5 DEF DrainNothing
    <3> QED BY <2>1, <2>4, <3>1
  <2>6. ASSUME NEW c \in Calls, Drain(c) PROVE events' \in [Calls -> Kinds]
    BY <2>1, <2>3, <2>6 DEF Drain
  <2>7. ASSUME NEW c \in Calls, Save(c) \/ SaveFails(c) \/ IndexUses(c) \/ ContinueFails(c)
        PROVE events' \in [Calls -> Kinds]
    BY <2>1, <2>2, <2>7 DEF Save, SaveFails, IndexUses, ContinueFails
  <2>8. ASSUME NEW c \in Calls,
               \/ Prompt(c) \/ PromptFrom(c) \/ PromptFromFails(c) \/ CreateUser(c)
               \/ CreateFails(c) \/ IndexResults(c) \/ CheckOrphans(c) \/ CheckFails(c)
               \/ OpenStream(c) \/ OpenFails(c) \/ Continue(c)
        PROVE  events' = events
    BY <2>8 DEF Prompt, PromptFrom, PromptFromFails, CreateUser, CreateFails, IndexResults,
         CheckOrphans, CheckFails, OpenStream, OpenFails, Continue
  <2>9. ASSUME Delete \/ UNCHANGED vars PROVE events' = events
    BY <2>9 DEF Delete, callVars, vars
  <2>10. events \in [Calls -> Kinds]
    BY <1>1 DEF Kinds
  <2>11. events' \in [Calls -> Kinds]
    BY <2>5, <2>6, <2>7, <2>8, <2>9, <2>10 DEF Next, Work
  <2> QED BY <2>11 DEF Kinds
<1>7. faults' \in Nat /\ deletes' \in Nat
  <2>1. ASSUME NEW c \in Calls,
               \/ PromptFromFails(c) \/ CreateFails(c) \/ IndexResults(c) \/ CheckFails(c)
               \/ SaveFails(c) \/ IndexUses(c)
        PROVE  faults' \in Nat /\ deletes' = deletes
    BY <1>1, <2>1 DEF PromptFromFails, CreateFails, IndexResults, CheckFails, SaveFails, IndexUses,
         StoreFault
  <2>2. ASSUME NEW c \in Calls,
               \/ Prompt(c) \/ PromptFrom(c) \/ CreateUser(c) \/ CheckOrphans(c) \/ OpenStream(c)
               \/ OpenFails(c) \/ DrainNothing(c) \/ Drain(c) \/ Save(c)
               \/ Continue(c) \/ ContinueFails(c)
        PROVE  faults' = faults /\ deletes' = deletes
    BY <2>2 DEF Prompt, PromptFrom, CreateUser, CheckOrphans, OpenStream, OpenFails, DrainNothing,
         Drain, Save, Continue, ContinueFails
  <2>3. ASSUME Delete PROVE faults' = faults /\ deletes' \in Nat
    BY <1>1, <2>3 DEF Delete
  <2> QED BY <1>1, <2>1, <2>2, <2>3 DEF Next, Work, vars
<1> QED BY <1>2, <1>3, <1>4, <1>5, <1>6, <1>7 DEF TypeOK

(***************************************************************************)
(* What the calls know, step by step.                                      *)
(***************************************************************************)

\* A row that was handed out is unchanged or gone.
LEMMA RowsStay ==
  ASSUME IInv, [Next]_vars
  PROVE  /\ nextId \in Nat \ {0} /\ nextId' \in {nextId, nextId + 1}
         /\ \A n \in DOMAIN nodes' :
              n # nextId => n \in DOMAIN nodes /\ nodes'[n] = nodes[n]
<1>1. nextId \in Nat \ {0} /\ StoreOK /\ ParentsOlder
  BY DEF IInv, TypeOK, TreeInv, StoreOK, NodeId
<1>2. ASSUME NEW c \in Calls, Prompt(c) \/ CreateUser(c) \/ Save(c)
      PROVE  /\ nextId' = nextId + 1
             /\ \A n \in DOMAIN nodes' :
                  n # nextId => n \in DOMAIN nodes /\ nodes'[n] = nodes[n]
  BY <1>2 DEF Prompt, CreateUser, Save, CreateNode
<1>3. ASSUME NEW c \in Calls,
             \/ PromptFrom(c) \/ PromptFromFails(c) \/ CreateFails(c) \/ IndexResults(c)
             \/ CheckOrphans(c) \/ CheckFails(c) \/ OpenStream(c) \/ OpenFails(c)
             \/ DrainNothing(c) \/ Drain(c) \/ SaveFails(c) \/ IndexUses(c)
             \/ Continue(c) \/ ContinueFails(c)
      PROVE  nextId' = nextId /\ nodes' = nodes
  BY <1>3 DEF PromptFrom, PromptFromFails, CreateFails, IndexResults, CheckOrphans, CheckFails,
       OpenStream, OpenFails, DrainNothing, Drain, SaveFails, IndexUses, Continue, ContinueFails,
       storeVars
<1>4. ASSUME Delete
      PROVE  nextId' = nextId /\ \A n \in DOMAIN nodes' : n \in DOMAIN nodes /\ nodes'[n] = nodes[n]
  BY <1>4 DEF Delete, DeleteNode
<1>5. ASSUME UNCHANGED vars PROVE nextId' = nextId /\ nodes' = nodes
  BY <1>5 DEF vars
<1> QED BY <1>1, <1>2, <1>3, <1>4, <1>5 DEF Next, Work

\* A call's own variables.
Own(d) == <<pc[d], ask[d], gen[d], last[d], events[d]>>

Step(c) ==
  \/ Prompt(c) \/ PromptFrom(c) \/ Work(c)
  \/ PromptFromFails(c) \/ CreateFails(c) \/ CheckFails(c) \/ SaveFails(c)

\* A call's own variables change by its own steps only.
LEMMA OthersKeep ==
  ASSUME TypeOK, NEW c \in Calls, Step(c), NEW d \in Calls, d # c
  PROVE  UNCHANGED Own(d)
<1>1. /\ DOMAIN pc = Calls /\ DOMAIN ask = Calls /\ DOMAIN gen = Calls
      /\ DOMAIN last = Calls /\ DOMAIN events = Calls
  BY DEF TypeOK
<1>2. ASSUME NEW from, NEW to, Goto(c, from, to) PROVE pc'[d] = pc[d]
  BY <1>1, <1>2 DEF Goto
<1>3. ASSUME NEW kinds, Emit(c, kinds) PROVE events'[d] = events[d]
  BY <1>1, <1>3 DEF Emit
<1>4. ASSUME Return(c) PROVE gen'[d] = gen[d]
  BY <1>1, <1>4 DEF Return
<1>5. ASSUME Prompt(c) \/ PromptFrom(c) \/ PromptFromFails(c) \/ CreateUser(c) \/ CreateFails(c)
      PROVE  UNCHANGED Own(d)
  BY <1>1, <1>2, <1>5 DEF Prompt, PromptFrom, PromptFromFails, CreateUser, CreateFails, Own
<1>6. ASSUME IndexResults(c) \/ CheckOrphans(c) \/ CheckFails(c) \/ OpenStream(c) \/ OpenFails(c)
      PROVE  UNCHANGED Own(d)
  BY <1>1, <1>2, <1>4, <1>6 DEF IndexResults, CheckOrphans, CheckFails, OpenStream, OpenFails, Own
<1>7. ASSUME DrainNothing(c) \/ Drain(c) \/ Continue(c) \/ ContinueFails(c)
      PROVE  UNCHANGED Own(d)
  BY <1>1, <1>2, <1>3, <1>4, <1>7 DEF DrainNothing, Drain, Continue, ContinueFails, Own
<1>8. ASSUME Save(c) \/ SaveFails(c) \/ IndexUses(c) PROVE UNCHANGED Own(d)
  BY <1>1, <1>2, <1>3, <1>4, <1>8 DEF Save, SaveFails, IndexUses, Own
<1> QED BY <1>5, <1>6, <1>7, <1>8 DEF Step, Work

\* What is known of one call.
Known(c) ==
  /\ pc[c] = "found" =>
       LET a == ask[c].anc IN
       /\ ask[c].target \in DOMAIN a
       /\ \A n \in DOMAIN a : a[n].seq <= a[ask[c].target].seq
       /\ \A n \in DOMAIN a \cap DOMAIN nodes : nodes[n] = a[n]
  /\ pc[c] \in Streaming =>
       /\ gen[c].parent \in 1 .. nextId - 1
       /\ gen[c].group \in {NoGroup, c}
       /\ gen[c].parent \in DOMAIN nodes =>
            LET row == nodes[gen[c].parent] IN
            /\ row.seq = gen[c].seq
            /\ row.type = "assistant" => row.group = c /\ gen[c].group = c
  /\ pc[c] = "saving" /\ ShouldContinue(gen[c].resp, gen[c].tokens) => gen[c].group = c
  /\ pc[c] = "indexing" => ask[c].user \in NodeId
  /\ pc[c] = "indexingUse" => last[c] \in NodeId

\* TreeInv is one fact about the table and one about each call.
LEMMA KnownOfAll ==
  (\A c \in Calls : Known(c)) <=> PathKnown /\ ParentKnown /\ GroupKnown /\ IndexedKnown
BY DEF Known, PathKnown, ParentKnown, GroupKnown, IndexedKnown

\* Knowledge survives the steps of others.
LEMMA OthersKnow ==
  ASSUME IInv, [Next]_vars, NEW d \in Calls, UNCHANGED Own(d)
  PROVE  Known(d)'
<1>1. Known(d) /\ AskOK(ask[d])
  BY KnownOfAll DEF IInv, TypeOK, TreeInv
<1>2. /\ nextId \in Nat \ {0} /\ nextId' \in {nextId, nextId + 1}
      /\ \A n \in DOMAIN nodes' :
           n # nextId => n \in DOMAIN nodes /\ nodes'[n] = nodes[n]
  BY RowsStay
<1>3. pc'[d] = pc[d] /\ ask'[d] = ask[d] /\ gen'[d] = gen[d] /\ last'[d] = last[d]
  BY DEF Own
<1>4. \A n \in DOMAIN ask[d].anc : n # nextId
  BY <1>1, <1>2 DEF AskOK
<1>5. pc[d] \in Streaming => gen[d].parent # nextId
  BY <1>1, <1>2 DEF Known
<1> QED BY <1>1, <1>2, <1>3, <1>4, <1>5 DEF Known, ShouldContinue, NonText

\* A call knows what its own steps read and store.
LEMMA ActorKnows ==
  ASSUME IInv, NEW c \in Calls, Step(c), [Next]_vars
  PROVE  Known(c)'
<1>1. /\ Known(c) /\ AskOK(ask[c]) /\ GenOK(gen[c])
      /\ DOMAIN pc = Calls /\ DOMAIN ask = Calls /\ DOMAIN gen = Calls /\ DOMAIN last = Calls
      /\ StoreOK /\ ParentsOlder /\ ChildFollowsParent
  BY KnownOfAll DEF IInv, TypeOK, TreeInv
<1>2. /\ nextId \in Nat \ {0} /\ nextId' \in {nextId, nextId + 1}
      /\ \A n \in DOMAIN nodes' :
           n # nextId => n \in DOMAIN nodes /\ nodes'[n] = nodes[n]
  BY RowsStay
<1>3. nextId \in NodeId /\ NoNode = 0
  BY <1>2 DEF NodeId, NoNode
<1>4. ASSUME NEW row, CreateNode(row)
      PROVE  nextId' = nextId + 1 /\ nextId \in 1 .. nextId' - 1 /\ nodes'[nextId] = row
  <2>1. nextId' = nextId + 1 /\ nodes'[nextId] = row
    BY <1>4 DEF CreateNode
  <2> QED BY <1>2, <2>1
<1>5. ASSUME NEW row, row.id = nextId, row.type = "user", CreateNode(row),
             gen' = [gen EXCEPT ![c] = HangFrom(row)]
      PROVE  /\ gen'[c].parent \in 1 .. nextId' - 1 /\ gen'[c].group = NoGroup
             /\ nodes'[gen'[c].parent].seq = gen'[c].seq
             /\ nodes'[gen'[c].parent].type = "user"
  <2>1. /\ gen'[c].parent = nextId /\ gen'[c].seq = row.seq /\ gen'[c].group = NoGroup
    BY <1>1, <1>5 DEF HangFrom, NoGen
  <2> QED BY <1>4, <1>5, <2>1
<1>6. CASE Prompt(c)
  <2>1. RootRow(c).id = nextId /\ RootRow(c).type = "user"
    BY DEF RootRow, Row
  <2>2. pc'[c] = "opening"
    BY <1>1, <1>6 DEF Prompt, Goto
  <2> QED BY <1>5, <1>6, <2>1, <2>2 DEF Prompt, Known
<1>7. CASE PromptFrom(c)
  <2>1. PICK p \in DOMAIN nodes : \E m \in Replies(c, p) :
          ask' = [ask EXCEPT ![c] = [NoAsk EXCEPT !.anc = GetAncestors(p), !.target = p, !.msg = m]]
    BY <1>7 DEF PromptFrom
  <2>2. ask'[c].anc = GetAncestors(p) /\ ask'[c].target = p
    BY <1>1, <2>1 DEF NoAsk
  <2>3. pc'[c] = "found" /\ nodes' = nodes
    BY <1>1, <1>7 DEF PromptFrom, Goto, storeVars
  <2>4. /\ p \in DOMAIN GetAncestors(p)
        /\ \A n \in DOMAIN GetAncestors(p) :
             /\ GetAncestors(p)[n] = nodes[n]
             /\ GetAncestors(p)[n].seq <= GetAncestors(p)[p].seq
    BY <1>1, PathRead
  <2> QED BY <2>2, <2>3, <2>4 DEF Known, Streaming
<1>8. CASE CreateUser(c)
  <2>1. UserRow(c).id = nextId /\ UserRow(c).type = "user"
    BY DEF UserRow, Row
  <2>2. pc'[c] \in {"checking", "indexing"}
    BY <1>1, <1>8 DEF CreateUser, Goto
  <2>3. ask'[c].user = nextId
    BY <1>1, <1>8 DEF CreateUser, AskOK, NoAsk
  <2> QED BY <1>3, <1>5, <1>8, <2>1, <2>2, <2>3 DEF CreateUser, Known
<1>9. CASE Drain(c)
  <2>1. PICK o \in Outcomes : gen' = [gen EXCEPT ![c] = Accumulate(c, o)]
    BY <1>9 DEF Drain
  <2>2. /\ gen'[c].parent = gen[c].parent /\ gen'[c].seq = gen[c].seq
        /\ gen'[c].tokens = gen[c].tokens + o.tokens /\ gen'[c].resp = o
        /\ gen'[c].group = IF ShouldContinue(o, gen[c].tokens + o.tokens) THEN c ELSE gen[c].group
    BY <1>1, <2>1 DEF Accumulate, GenOK, NoGen
  <2>3. pc[c] = "streaming" /\ pc'[c] = "saving" /\ nodes' = nodes /\ nextId' = nextId
    BY <1>1, <1>9 DEF Drain, Goto, storeVars
  <2>4. pc[c] \in Streaming /\ pc'[c] \in Streaming
    BY <2>3 DEF Streaming
  <2> QED BY <1>1, <2>2, <2>3, <2>4 DEF Known, ShouldContinue, NonText
<1>10. CASE Save(c)
  <2>1. pc[c] = "saving" /\ last'[c] = nextId /\ CreateNode(AssistantRow(c))
    BY <1>1, <1>10 DEF Save, Goto
  <2>2. CASE ShouldContinue(gen[c].resp, gen[c].tokens)
    <3>1. pc'[c] = "continuing" /\ gen' = [gen EXCEPT ![c] = Advance(c)]
      BY <1>1, <1>10, <2>2 DEF Save, Goto, ShouldContinue
    <3>2. /\ gen'[c].parent = nextId /\ gen'[c].seq = gen[c].seq + 1
          /\ gen'[c].group = gen[c].group
      BY <1>1, <3>1 DEF Advance, GenOK, NoGen
    <3>3. AssistantRow(c).seq = gen[c].seq + 1 /\ AssistantRow(c).group = gen[c].group
      BY DEF AssistantRow, Row
    <3>4. gen[c].group = c
      BY <1>1, <2>1, <2>2 DEF Known
    <3> QED BY <1>4, <2>1, <3>1, <3>2, <3>3, <3>4 DEF Known
  <2>3. CASE ~ ShouldContinue(gen[c].resp, gen[c].tokens)
    <3>1. pc'[c] \in {"indexingUse", "closed"}
      BY <1>1, <1>10, <2>3 DEF Save, Goto
    <3> QED BY <1>3, <2>1, <3>1 DEF Known, Streaming
  <2> QED BY <2>2, <2>3
<1>11. CASE IndexResults(c) \/ CheckOrphans(c) \/ OpenStream(c) \/ Continue(c)
  <2>1. /\ pc[c] \in {"indexing", "checking", "opening", "continuing"}
        /\ pc'[c] \in {"checking", "opening", "streaming"}
        /\ gen' = gen /\ nodes' = nodes /\ nextId' = nextId
    BY <1>1, <1>11 DEF IndexResults, CheckOrphans, OpenStream, Continue, Goto, storeVars
  <2>2. pc[c] \in Streaming
    BY <2>1 DEF Streaming
  <2> QED BY <1>1, <2>1, <2>2 DEF Known
<1>12. CASE \/ PromptFromFails(c) \/ CreateFails(c) \/ CheckFails(c) \/ OpenFails(c)
            \/ DrainNothing(c) \/ SaveFails(c) \/ IndexUses(c) \/ ContinueFails(c)
  <2>1. pc'[c] \in {"failed", "closed"}
    BY <1>1, <1>12 DEF PromptFromFails, CreateFails, CheckFails, OpenFails, DrainNothing, SaveFails,
         IndexUses, ContinueFails, Goto
  <2> QED BY <2>1 DEF Known, Streaming
<1> QED BY <1>6, <1>7, <1>8, <1>9, <1>10, <1>11, <1>12 DEF Step, Work

-----------------------------------------------------------------------------
(***************************************************************************)
(* The theorems.                                                           *)
(***************************************************************************)

\* The invariant holds of an empty store with no call made.
LEMMA InitIInv == Init => IInv
<1> SUFFICES ASSUME Init PROVE IInv
  OBVIOUS
<1>1. /\ DOMAIN nodes = {} /\ nextId = 1 /\ toolIndex = {}
      /\ pc = [c \in Calls |-> "idle"] /\ ask = [c \in Calls |-> NoAsk]
      /\ gen = [c \in Calls |-> NoGen] /\ last = [c \in Calls |-> NoNode]
      /\ events = [c \in Calls |-> <<>>] /\ faults = 0 /\ deletes = 0
  BY DEF Init, StoreInit
<1>2. StoreOK
  BY <1>1 DEF StoreOK, NodeId
<1>3. AskOK(NoAsk) /\ GenOK(NoGen)
  BY <1>1 DEF AskOK, NoAsk, GenOK, NoGen, NoNode
<1>4. TypeOK
  BY <1>1, <1>2, <1>3 DEF TypeOK, Phases, NoNode
<1>5. TreeInv
  BY <1>1 DEF TreeInv, ParentsOlder, ChildFollowsParent, PathKnown, ParentKnown, GroupKnown,
       IndexedKnown, Streaming
<1> QED BY <1>4, <1>5 DEF IInv

\* Every step preserves the invariant: the table by StepKeepsTable, what a
\* call knows by ActorKnows for its own steps and OthersKnow for the others.
LEMMA NextIInv == IInv /\ [Next]_vars => IInv'
<1> SUFFICES ASSUME IInv, [Next]_vars PROVE IInv'
  OBVIOUS
<1>1. TypeOK' /\ ParentsOlder' /\ ChildFollowsParent'
  BY StepKeepsTypes, StepKeepsTable
<1>2. \A d \in Calls : Known(d)'
  <2> TAKE d \in Calls
  <2>1. CASE UNCHANGED Own(d)
    BY <2>1, OthersKnow
  <2>2. CASE Step(d)
    BY <2>2, ActorKnows
  <2>3. ASSUME NEW c \in Calls, Step(c), c # d PROVE UNCHANGED Own(d)
    BY <2>3, OthersKeep DEF IInv
  <2>4. ASSUME Delete \/ UNCHANGED vars PROVE UNCHANGED Own(d)
    BY <2>4 DEF Delete, callVars, vars, Own
  <2> QED BY <2>1, <2>2, <2>3, <2>4 DEF Next, Step
<1>3. PathKnown' /\ ParentKnown' /\ GroupKnown' /\ IndexedKnown'
  BY <1>2 DEF Known, PathKnown, ParentKnown, GroupKnown, IndexedKnown
<1> QED BY <1>1, <1>3 DEF IInv, TreeInv

\* The invariant holds of every reachable state.
LEMMA Inductive == Spec => []IInv
<1>1. Init => IInv
  BY InitIInv
<1>2. IInv /\ [Next]_vars => IInv'
  BY NextIInv
<1> QED BY <1>1, <1>2, PTL DEF Spec

\* Every variable keeps the type the code declares it with.
THEOREM TypeCorrect == Spec => []TypeOK
<1>1. IInv => TypeOK
  BY DEF IInv
<1> QED BY <1>1, Inductive, PTL

\* The numbering of a path survives every interleaving of calls, failing
\* statements and deletions (PromptFromWithAPIProtocol reads the path and
\* inserts in two statements).
THEOREM PathNumbered == Spec => []ChildFollowsParent
<1>1. IInv => ChildFollowsParent
  BY DEF IInv, TreeInv
<1> QED BY <1>1, Inductive, PTL

-----------------------------------------------------------------------------
(***************************************************************************)
(* Refinement: the store is an append-only tree.                           *)
(***************************************************************************)

\* An insert of a row that is placed as the tree allows appends.
LEMMA InsertAppends ==
  ASSUME IInv, NEW row, CreateNode(row),
         IF row.parent = NoNode THEN AppendOnlyTree!PlacedAsRoot(nextId, row)
         ELSE AppendOnlyTree!PlacedBelow(nextId, row)
  PROVE  AppendOnlyTree!AppendRow
<1>1. /\ nextId \in Nat \ {0} /\ nextId' = nextId + 1
      /\ DOMAIN nodes' = DOMAIN nodes \cup {nextId}
      /\ \A n \in DOMAIN nodes : nodes'[n] = nodes[n]
      /\ nodes'[nextId] = row
  BY Inserted DEF IInv, TypeOK, TreeInv
<1>2. nextId \in DOMAIN nodes' \ (1 .. nextId - 1)
  BY <1>1
<1>3. 1 .. nextId' - 1 = (1 .. nextId - 1) \cup {nextId}
  BY <1>1
<1>4. IF nodes'[nextId].parent = NoNode THEN AppendOnlyTree!PlacedAsRoot(nextId, nodes'[nextId])
      ELSE AppendOnlyTree!PlacedBelow(nextId, nodes'[nextId])
  BY <1>1
<1> QED BY <1>1, <1>2, <1>3, <1>4 DEF AppendOnlyTree!AppendRow

\* Deleting the subtree of a row prunes.
LEMMA DeletePrunes ==
  ASSUME NEW n \in DOMAIN nodes, DeleteNode(n)
  PROVE  AppendOnlyTree!Prune
<1>1. /\ DOMAIN nodes' = DOMAIN nodes \ SubtreeIds(n) /\ nextId' = nextId
      /\ \A m \in DOMAIN nodes' : nodes'[m] = nodes[m]
  BY DEF DeleteNode
<1>2. ASSUME NEW m \in DOMAIN nodes, nodes[m].parent \in SubtreeIds(n)
      PROVE  m \in SubtreeIds(n)
  BY <1>2 DEF SubtreeIds, ChildClosed
<1> QED BY <1>1, <1>2 DEF AppendOnlyTree!Prune, AppendOnlyTree!Stored

\* Every step is a step of the append-only tree, or leaves it alone.
LEMMA StepAppends ==
  ASSUME IInv, [Next]_vars
  PROVE  [AppendOnlyTree!TreeNext]_(AppendOnlyTree!treeVars)
<1> USE DEF AppendOnlyTree!TreeNext
<1>1. /\ nextId \in Nat \ {0} /\ NoNode = 0
      /\ \A n \in DOMAIN nodes : nodes[n].type \in {"user", "assistant"}
  BY DEF IInv, TypeOK, StoreOK, NodeId, NoNode, RowType
<1>2. \A c \in Calls : Known(c) /\ AskOK(ask[c])
  BY KnownOfAll DEF IInv, TypeOK, TreeInv
<1>3. ASSUME NEW c \in Calls, Prompt(c) PROVE AppendOnlyTree!AppendRow
  <2>1. RootRow(c).parent = NoNode /\ AppendOnlyTree!PlacedAsRoot(nextId, RootRow(c))
    BY DEF RootRow, Row, AppendOnlyTree!PlacedAsRoot
  <2> QED BY <1>3, <2>1, InsertAppends DEF Prompt
<1>4. ASSUME NEW c \in Calls, CreateUser(c) PROVE AppendOnlyTree!AppendRow
  <2>1. pc[c] = "found"
    BY <1>4 DEF CreateUser, Goto
  <2>2. UserRow(c).parent = ask[c].target /\ UserRow(c).type = "user"
    BY DEF UserRow, Row
  <2>3. ask[c].target \in 1 .. nextId - 1
    BY <1>2, <2>1 DEF Known, AskOK
  <2>4. AppendOnlyTree!PlacedBelow(nextId, UserRow(c))
    BY <2>1, <2>2, <2>3, RowsFit DEF AppendOnlyTree!PlacedBelow, AppendOnlyTree!Stored
  <2> QED BY <1>1, <1>4, <2>2, <2>3, <2>4, InsertAppends DEF CreateUser
<1>5. ASSUME NEW c \in Calls, Save(c) PROVE AppendOnlyTree!AppendRow
  <2>1. pc[c] = "saving" /\ pc[c] \in Streaming
    BY <1>5 DEF Save, Goto, Streaming
  <2>2. AssistantRow(c).parent = gen[c].parent /\ AssistantRow(c).group = gen[c].group
    BY DEF AssistantRow, Row
  <2>3. /\ gen[c].parent \in 1 .. nextId - 1
        /\ gen[c].parent \in DOMAIN nodes /\ nodes[gen[c].parent].type = "assistant" =>
             nodes[gen[c].parent].group = c /\ gen[c].group = c
    BY <1>2, <2>1 DEF Known
  <2>4. c # NoGroup
    BY BoundsAssumption
  <2>5. AppendOnlyTree!PlacedBelow(nextId, AssistantRow(c))
    BY <1>1, <2>1, <2>2, <2>3, <2>4, RowsFit DEF AppendOnlyTree!PlacedBelow, AppendOnlyTree!Stored
  <2> QED BY <1>1, <1>5, <2>2, <2>3, <2>5, InsertAppends DEF Save
<1>6. ASSUME Delete PROVE AppendOnlyTree!Prune
  BY <1>6, DeletePrunes DEF Delete
<1>7. ASSUME NEW c \in Calls,
             \/ PromptFrom(c) \/ PromptFromFails(c) \/ CreateFails(c) \/ IndexResults(c)
             \/ CheckOrphans(c) \/ CheckFails(c) \/ OpenStream(c) \/ OpenFails(c)
             \/ DrainNothing(c) \/ Drain(c) \/ SaveFails(c) \/ IndexUses(c)
             \/ Continue(c) \/ ContinueFails(c)
      PROVE  UNCHANGED AppendOnlyTree!treeVars
  BY <1>7 DEF PromptFrom, PromptFromFails, CreateFails, IndexResults, CheckOrphans, CheckFails,
       OpenStream, OpenFails, DrainNothing, Drain, SaveFails, IndexUses, Continue, ContinueFails,
       storeVars, AppendOnlyTree!treeVars
<1>8. ASSUME UNCHANGED vars PROVE UNCHANGED AppendOnlyTree!treeVars
  BY <1>8 DEF vars, AppendOnlyTree!treeVars
<1> QED BY <1>3, <1>4, <1>5, <1>6, <1>7, <1>8 DEF Next, Work

\* Whatever the calls do together, and whatever is deleted or fails under
\* them, the store implements the append-only tree.
THEOREM TreeRefined == Spec => AppendOnly
<1>1. Init => AppendOnlyTree!TreeInit
  BY DEF Init, StoreInit, AppendOnlyTree!TreeInit
<1>2. IInv /\ [Next]_vars => [AppendOnlyTree!TreeNext]_(AppendOnlyTree!treeVars)
  BY StepAppends
<1> QED BY <1>1, <1>2, Inductive, PTL DEF Spec, AppendOnly, AppendOnlyTree!TreeSpec

-----------------------------------------------------------------------------
(***************************************************************************)
(* The root of a path.                                                     *)
(***************************************************************************)

\* root_id names whichever root the path of a row reaches.
RootKnown ==
  \A n \in DOMAIN nodes : \A m \in AncestorIds(n) :
    nodes[m].parent = NoNode => nodes[n].root = m

\* The rows numbered 0 are the roots.
RootsFirst == \A n \in DOMAIN nodes : nodes[n].seq = 0 <=> nodes[n].parent = NoNode

\* So it was when the path was read, which still holds all that is stored of
\* the path: deleting only shortens it.
PathRooted ==
  \A c \in Calls : pc[c] = "found" =>
    LET a == ask[c].anc
        t == ask[c].target IN
    /\ \A m \in DOMAIN a : a[m].seq = 0 <=> a[m].parent = NoNode
    /\ \A m \in DOMAIN a : a[m].parent = NoNode => a[t].root = m
    /\ t \in DOMAIN nodes => AncestorIds(t) \subseteq DOMAIN a

\* The goroutine that stores the answer knows the root of its parent.
GenRooted ==
  \A c \in Calls : pc[c] \in Streaming /\ gen[c].parent \in DOMAIN nodes =>
    nodes[gen[c].parent].root = gen[c].root

RootInv == RootKnown /\ RootsFirst /\ PathRooted /\ GenRooted

\* What is rooted of one call.
Rooted(c) ==
  /\ pc[c] = "found" =>
       LET a == ask[c].anc
           t == ask[c].target IN
       /\ \A m \in DOMAIN a : a[m].seq = 0 <=> a[m].parent = NoNode
       /\ \A m \in DOMAIN a : a[m].parent = NoNode => a[t].root = m
       /\ t \in DOMAIN nodes => AncestorIds(t) \subseteq DOMAIN a
  /\ pc[c] \in Streaming /\ gen[c].parent \in DOMAIN nodes =>
       nodes[gen[c].parent].root = gen[c].root

\* A path is closed under taking parents.
LEMMA PathClosed ==
  ASSUME NEW n \in DOMAIN nodes
  PROVE  /\ n \in AncestorIds(n) /\ AncestorIds(n) \in SUBSET DOMAIN nodes
         /\ ParentClosed(AncestorIds(n))
BY DEF AncestorIds, ParentClosed

\* The path to a row lies within every set of stored rows that has the row and
\* is closed under taking parents.
LEMMA PathWithin ==
  ASSUME NEW n, NEW S, S \in SUBSET DOMAIN nodes', n \in S,
         \A m \in S : nodes'[m].parent \in DOMAIN nodes' => nodes'[m].parent \in S
  PROVE  AncestorIds(n)' \subseteq S
BY DEF AncestorIds, ParentClosed

\* The path to a row that stays gets no longer as long as its rows stay as
\* they are and the rows that come are nobody's parent.
LEMMA PathShrinks ==
  ASSUME NEW n \in DOMAIN nodes, n \in DOMAIN nodes',
         \A m \in DOMAIN nodes \cap DOMAIN nodes' :
           /\ nodes'[m] = nodes[m]
           /\ nodes[m].parent \in DOMAIN nodes' => nodes[m].parent \in DOMAIN nodes
  PROVE  AncestorIds(n)' \subseteq AncestorIds(n)
<1> DEFINE S == AncestorIds(n) \cap DOMAIN nodes'
<1>1. S \in SUBSET DOMAIN nodes' /\ n \in S
  BY PathClosed
<1>2. \A m \in S : nodes'[m].parent \in DOMAIN nodes' => nodes'[m].parent \in S
  BY PathClosed DEF ParentClosed
<1> HIDE DEF S
<1>3. AncestorIds(n)' \subseteq S
  BY <1>1, <1>2, PathWithin
<1> QED BY <1>3 DEF S

\* The path to a row that was inserted: the row, behind the path to its
\* parent if that is stored.
LEMMA PathOfInserted ==
  ASSUME StoreOK, ParentsOlder, NEW row, CreateNode(row), row.parent < nextId,
         NEW u, u = nextId
  PROVE  \A m \in AncestorIds(u)' :
           m = u \/ (row.parent \in DOMAIN nodes /\ m \in AncestorIds(row.parent))
<1>1. /\ nextId \in Nat \ {0}
      /\ DOMAIN nodes' = DOMAIN nodes \cup {u} /\ u \notin DOMAIN nodes
      /\ \A n \in DOMAIN nodes : nodes'[n] = nodes[n] /\ nodes[n].parent # u
      /\ nodes'[u] = row
  BY Inserted
<1> DEFINE S == {m \in DOMAIN nodes' :
                   m = u \/ (row.parent \in DOMAIN nodes /\ m \in AncestorIds(row.parent))}
<1>2. S \in SUBSET DOMAIN nodes' /\ u \in S
  BY <1>1
<1>3. ASSUME NEW m \in S, nodes'[m].parent \in DOMAIN nodes'
      PROVE  nodes'[m].parent \in S
  <2>1. CASE m = u
    <3>1. row.parent # u /\ row.parent \in DOMAIN nodes
      BY <1>1, <1>3, <2>1
    <3>2. row.parent \in AncestorIds(row.parent)
      BY <3>1, PathClosed
    <3> QED BY <1>1, <2>1, <3>1, <3>2
  <2>2. CASE m # u
    <3>1. row.parent \in DOMAIN nodes /\ m \in AncestorIds(row.parent) /\ m \in DOMAIN nodes
      BY <1>1, <2>2
    <3>2. nodes[m].parent \in DOMAIN nodes /\ nodes'[m] = nodes[m]
      BY <1>1, <1>3, <3>1
    <3>3. nodes[m].parent \in AncestorIds(row.parent)
      BY <3>1, <3>2, PathClosed DEF ParentClosed
    <3> QED BY <1>1, <3>1, <3>2, <3>3
  <2> QED BY <2>1, <2>2
<1>4. \A m \in S : nodes'[m].parent \in DOMAIN nodes' => nodes'[m].parent \in S
  BY <1>3
<1> HIDE DEF S
<1>5. AncestorIds(u)' \subseteq S
  BY <1>2, <1>4, PathWithin
<1> QED BY <1>5 DEF S

\* The first row of a path that reaches a root is the root.
LEMMA FirstIsRoot ==
  ASSUME NEW rows, \A n \in DOMAIN rows : rows[n].seq \in Nat,
         \A n \in DOMAIN rows : rows[n].seq = 0 <=> rows[n].parent = NoNode,
         NEW m \in DOMAIN rows, rows[m].parent = NoNode
  PROVE  FirstOf(rows) \in DOMAIN rows /\ rows[FirstOf(rows)].parent = NoNode
<1>1. \A b \in DOMAIN rows : rows[m].seq <= rows[b].seq
  OBVIOUS
<1>2. FirstOf(rows) \in DOMAIN rows
      /\ \A b \in DOMAIN rows : rows[FirstOf(rows)].seq <= rows[b].seq
  BY <1>1 DEF FirstOf
<1> QED BY <1>2

\* A step makes no stored path longer.
LEMMA StepShrinks ==
  ASSUME IInv, [Next]_vars, NEW n \in DOMAIN nodes, n \in DOMAIN nodes'
  PROVE  AncestorIds(n)' \subseteq AncestorIds(n)
<1>1. /\ nextId \in Nat \ {0}
      /\ \A m \in DOMAIN nodes' : m # nextId => m \in DOMAIN nodes /\ nodes'[m] = nodes[m]
  BY RowsStay
<1>2. \A m \in DOMAIN nodes : m < nextId /\ m \in Nat /\ nodes[m].parent < m /\ nodes[m].parent \in Nat
  BY <1>1 DEF IInv, TypeOK, StoreOK, TreeInv, ParentsOlder, RowType
<1>3. \A m \in DOMAIN nodes \cap DOMAIN nodes' :
        /\ nodes'[m] = nodes[m]
        /\ nodes[m].parent \in DOMAIN nodes' => nodes[m].parent \in DOMAIN nodes
  BY <1>1, <1>2
<1> QED BY <1>3, PathShrinks

\* An insert of a row that knows its root keeps roots known.
LEMMA InsertKeepsRoots ==
  ASSUME IInv, [Next]_vars, RootKnown, RootsFirst, NEW row, CreateNode(row),
         row.parent < nextId,
         row.seq = 0 <=> row.parent = NoNode,
         row.parent = NoNode => row.root = nextId,
         row.parent \in DOMAIN nodes =>
           \A m \in AncestorIds(row.parent) : nodes[m].parent = NoNode => row.root = m
  PROVE  RootKnown' /\ RootsFirst'
<1>1. /\ nextId \in Nat \ {0}
      /\ DOMAIN nodes' = DOMAIN nodes \cup {nextId} /\ nextId \notin DOMAIN nodes
      /\ \A n \in DOMAIN nodes : nodes'[n] = nodes[n] /\ nodes[n].parent # nextId
      /\ nodes'[nextId] = row
  BY Inserted DEF IInv, TypeOK, TreeInv
<1>2. RootsFirst'
  BY <1>1 DEF RootsFirst
<1>3. ASSUME NEW n \in DOMAIN nodes', NEW m \in AncestorIds(n)', nodes'[m].parent = NoNode
      PROVE  nodes'[n].root = m
  <2>1. CASE n \in DOMAIN nodes
    <3>1. m \in AncestorIds(n)
      BY <1>3, <2>1, StepShrinks
    <3>2. m \in DOMAIN nodes
      BY <2>1, <3>1, PathClosed
    <3> QED BY <1>1, <1>3, <2>1, <3>1, <3>2 DEF RootKnown
  <2>2. CASE n = nextId
    <3>1. m = n \/ (row.parent \in DOMAIN nodes /\ m \in AncestorIds(row.parent))
      BY <1>3, <2>2, PathOfInserted DEF IInv, TypeOK, TreeInv
    <3>2. CASE m = n
      BY <1>1, <1>3, <2>2, <3>2
    <3>3. CASE row.parent \in DOMAIN nodes /\ m \in AncestorIds(row.parent)
      <4>1. m \in DOMAIN nodes
        BY <3>3, PathClosed
      <4> QED BY <1>1, <1>3, <2>2, <3>3, <4>1
    <3> QED BY <3>1, <3>2, <3>3
  <2> QED BY <1>1, <2>1, <2>2
<1>4. RootKnown'
  BY <1>3 DEF RootKnown
<1> QED BY <1>2, <1>4

\* What is known of the path gives the user's message its root.
LEMMA UserKnowsRoot ==
  ASSUME IInv, RootInv, NEW c \in Calls, pc[c] = "found"
  PROVE  /\ UserRow(c).seq # 0 /\ UserRow(c).parent # NoNode
         /\ UserRow(c).parent \in DOMAIN nodes =>
              \A m \in AncestorIds(UserRow(c).parent) :
                nodes[m].parent = NoNode => UserRow(c).root = m
<1> DEFINE a == ask[c].anc
           t == ask[c].target
<1>1. /\ \A n \in DOMAIN a : n \in NodeId /\ a[n].seq \in Nat
      /\ t \in DOMAIN a
      /\ \A n \in DOMAIN a : a[n].seq <= a[t].seq
      /\ \A n \in DOMAIN a \cap DOMAIN nodes : nodes[n] = a[n]
      /\ \A m \in DOMAIN a : a[m].seq = 0 <=> a[m].parent = NoNode
      /\ \A m \in DOMAIN a : a[m].parent = NoNode => a[t].root = m
      /\ t \in DOMAIN nodes => AncestorIds(t) \subseteq DOMAIN a
  <2>1. \A n \in DOMAIN a : n \in NodeId /\ a[n].seq \in Nat
    BY DEF IInv, TypeOK, AskOK, StoreOK, NodeId, RowType
  <2>2. /\ t \in DOMAIN a /\ \A n \in DOMAIN a : a[n].seq <= a[t].seq
        /\ \A n \in DOMAIN a \cap DOMAIN nodes : nodes[n] = a[n]
    BY DEF IInv, TreeInv, PathKnown
  <2>3. /\ \A m \in DOMAIN a : a[m].seq = 0 <=> a[m].parent = NoNode
        /\ \A m \in DOMAIN a : a[m].parent = NoNode => a[t].root = m
        /\ t \in DOMAIN nodes => AncestorIds(t) \subseteq DOMAIN a
    BY DEF RootInv, PathRooted
  <2> QED BY <2>1, <2>2, <2>3
<1>2. UserRow(c).parent = t /\ UserRow(c).root = FirstOf(a) /\ UserRow(c).seq = a[LastOf(a)].seq + 1
  BY DEF UserRow, Row
<1> HIDE DEF a, t
<1>3. LastOf(a) \in DOMAIN a
  BY <1>1, LastOfPath
<1>4. UserRow(c).seq # 0 /\ UserRow(c).parent # NoNode
  BY <1>1, <1>2, <1>3 DEF NodeId, NoNode
<1>5. ASSUME t \in DOMAIN nodes, NEW m \in AncestorIds(t), nodes[m].parent = NoNode
      PROVE  FirstOf(a) = m
  <2>1. m \in DOMAIN a /\ m \in DOMAIN nodes /\ a[m].parent = NoNode
    BY <1>1, <1>5, PathClosed
  <2>2. FirstOf(a) \in DOMAIN a /\ a[FirstOf(a)].parent = NoNode
    BY <1>1, <2>1, FirstIsRoot
  <2> QED BY <1>1, <2>1, <2>2
<1> QED BY <1>2, <1>4, <1>5

\* Every step keeps roots known.
LEMMA StepKeepsRoots ==
  ASSUME IInv, RootInv, [Next]_vars
  PROVE  RootKnown' /\ RootsFirst'
<1>1. /\ nextId \in Nat \ {0} /\ NoNode = 0
      /\ \A n \in DOMAIN nodes : n # 0
      /\ \A c \in Calls : GenOK(gen[c])
  BY DEF IInv, TypeOK, StoreOK, NodeId, NoNode
<1>2. RootKnown /\ RootsFirst
  BY DEF RootInv
<1>3. ASSUME NEW c \in Calls, Prompt(c)
      PROVE  RootKnown' /\ RootsFirst'
  <2>1. /\ RootRow(c).parent = NoNode /\ RootRow(c).seq = 0 /\ RootRow(c).root = nextId
        /\ RootRow(c).parent < nextId /\ RootRow(c).parent \notin DOMAIN nodes
    BY <1>1 DEF RootRow, Row
  <2> QED BY <1>2, <1>3, <2>1, InsertKeepsRoots DEF Prompt
<1>4. ASSUME NEW c \in Calls, CreateUser(c)
      PROVE  RootKnown' /\ RootsFirst'
  <2>1. pc[c] = "found"
    BY <1>4 DEF CreateUser, Goto
  <2> QED BY <1>2, <1>4, <2>1, UserKnowsRoot, RowsFit, InsertKeepsRoots DEF CreateUser
<1>5. ASSUME NEW c \in Calls, Save(c)
      PROVE  RootKnown' /\ RootsFirst'
  <2>1. pc[c] = "saving" /\ pc[c] \in Streaming
    BY <1>5 DEF Save, Goto, Streaming
  <2>2. /\ AssistantRow(c).parent = gen[c].parent /\ AssistantRow(c).root = gen[c].root
        /\ AssistantRow(c).seq = gen[c].seq + 1
    BY DEF AssistantRow, Row
  <2>3. gen[c].parent \in 1 .. nextId - 1 /\ gen[c].seq \in Nat
    BY <1>1, <2>1 DEF IInv, TreeInv, ParentKnown, GenOK
  <2>4. gen[c].parent \in DOMAIN nodes => nodes[gen[c].parent].root = gen[c].root
    BY <2>1 DEF RootInv, GenRooted
  <2>5. AssistantRow(c).seq # 0 /\ AssistantRow(c).parent # NoNode /\ AssistantRow(c).parent < nextId
    BY <1>1, <2>2, <2>3
  <2>6. gen[c].parent \in DOMAIN nodes =>
          \A m \in AncestorIds(gen[c].parent) : nodes[m].parent = NoNode => gen[c].root = m
    BY <1>2, <2>4 DEF RootKnown
  <2> QED BY <1>2, <1>5, <2>2, <2>5, <2>6, InsertKeepsRoots DEF Save
<1>6. ASSUME \A n \in DOMAIN nodes' : n \in DOMAIN nodes /\ nodes'[n] = nodes[n]
      PROVE  RootKnown' /\ RootsFirst'
  <2>1. RootsFirst'
    BY <1>2, <1>6 DEF RootsFirst
  <2>2. ASSUME NEW n \in DOMAIN nodes', NEW m \in AncestorIds(n)', nodes'[m].parent = NoNode
        PROVE  nodes'[n].root = m
    <3>1. m \in AncestorIds(n) /\ n \in DOMAIN nodes
      BY <1>6, <2>2, StepShrinks
    <3>2. m \in DOMAIN nodes'
      BY <2>2 DEF AncestorIds
    <3> QED BY <1>2, <1>6, <2>2, <3>1, <3>2 DEF RootKnown
  <2> QED BY <2>1, <2>2 DEF RootKnown
<1>7. ASSUME NEW c \in Calls,
             \/ PromptFrom(c) \/ PromptFromFails(c) \/ CreateFails(c) \/ IndexResults(c)
             \/ CheckOrphans(c) \/ CheckFails(c) \/ OpenStream(c) \/ OpenFails(c)
             \/ DrainNothing(c) \/ Drain(c) \/ SaveFails(c) \/ IndexUses(c)
             \/ Continue(c) \/ ContinueFails(c)
      PROVE  nodes' = nodes
  BY <1>7 DEF PromptFrom, PromptFromFails, CreateFails, IndexResults, CheckOrphans, CheckFails,
       OpenStream, OpenFails, DrainNothing, Drain, SaveFails, IndexUses, Continue, ContinueFails,
       storeVars
<1>8. ASSUME Delete
      PROVE  \A n \in DOMAIN nodes' : n \in DOMAIN nodes /\ nodes'[n] = nodes[n]
  BY <1>8 DEF Delete, DeleteNode
<1>9. ASSUME UNCHANGED vars PROVE nodes' = nodes
  BY <1>9 DEF vars
<1> QED BY <1>3, <1>4, <1>5, <1>6, <1>7, <1>8, <1>9 DEF Next, Work

\* A call's knowledge of its root survives the steps of others.
LEMMA OthersRooted ==
  ASSUME IInv, RootInv, [Next]_vars, NEW d \in Calls, UNCHANGED Own(d)
  PROVE  Rooted(d)'
<1>1. Rooted(d) /\ Known(d) /\ AskOK(ask[d])
  BY KnownOfAll DEF IInv, TypeOK, TreeInv, RootInv, PathRooted, GenRooted, Rooted
<1>2. /\ nextId \in Nat \ {0}
      /\ \A n \in DOMAIN nodes' : n # nextId => n \in DOMAIN nodes /\ nodes'[n] = nodes[n]
  BY RowsStay
<1>3. pc'[d] = pc[d] /\ ask'[d] = ask[d] /\ gen'[d] = gen[d]
  BY DEF Own
<1>4. ASSUME pc[d] = "found", ask[d].target \in DOMAIN nodes'
      PROVE  AncestorIds(ask[d].target)' \subseteq DOMAIN ask[d].anc
  <2> DEFINE t == ask[d].target
  <2>1. t \in DOMAIN nodes
    BY <1>1, <1>2, <1>4 DEF Known, AskOK
  <2>2. AncestorIds(t) \subseteq DOMAIN ask[d].anc
    BY <1>1, <1>4, <2>1 DEF Rooted
  <2>3. \A n \in DOMAIN nodes : n \in DOMAIN nodes' => AncestorIds(n)' \subseteq AncestorIds(n)
    BY StepShrinks
  <2>4. \A n \in DOMAIN nodes' : n = t => AncestorIds(n)' \subseteq DOMAIN ask[d].anc
    BY <2>1, <2>2, <2>3
  <2> QED BY <1>3, <1>4, <2>4
<1>5. pc[d] \in Streaming => gen[d].parent # nextId
  BY <1>1, <1>2 DEF Known
<1> QED BY <1>1, <1>2, <1>3, <1>4, <1>5 DEF Rooted

\* A call knows the root of what it reads and stores.
LEMMA ActorRooted ==
  ASSUME IInv, RootInv, NEW c \in Calls, Step(c), [Next]_vars
  PROVE  Rooted(c)'
<1>1. /\ Rooted(c) /\ Known(c) /\ AskOK(ask[c]) /\ GenOK(gen[c])
      /\ DOMAIN pc = Calls /\ DOMAIN ask = Calls /\ DOMAIN gen = Calls
      /\ StoreOK /\ ParentsOlder /\ ChildFollowsParent /\ RootKnown /\ RootsFirst
  BY KnownOfAll DEF IInv, TypeOK, TreeInv, RootInv, PathRooted, GenRooted, Rooted
<1>2. ASSUME NEW row, row.id = nextId, CreateNode(row), gen' = [gen EXCEPT ![c] = HangFrom(row)]
      PROVE  nodes'[gen'[c].parent].root = gen'[c].root
  <2>1. gen'[c].parent = nextId /\ gen'[c].root = row.root
    BY <1>1, <1>2 DEF HangFrom, NoGen
  <2>2. nodes'[nextId] = row
    BY <1>2 DEF CreateNode
  <2> QED BY <2>1, <2>2
<1>3. CASE Prompt(c)
  <2>1. RootRow(c).id = nextId
    BY DEF RootRow, Row
  <2>2. pc'[c] = "opening"
    BY <1>1, <1>3 DEF Prompt, Goto
  <2> QED BY <1>2, <1>3, <2>1, <2>2 DEF Prompt, Rooted
<1>4. CASE PromptFrom(c)
  <2>1. PICK p \in DOMAIN nodes : \E m \in Replies(c, p) :
          ask' = [ask EXCEPT ![c] = [NoAsk EXCEPT !.anc = GetAncestors(p), !.target = p, !.msg = m]]
    BY <1>4 DEF PromptFrom
  <2>2. ask'[c].anc = GetAncestors(p) /\ ask'[c].target = p
    BY <1>1, <2>1 DEF NoAsk
  <2>3. pc'[c] = "found" /\ nodes' = nodes
    BY <1>1, <1>4 DEF PromptFrom, Goto, storeVars
  <2>4. DOMAIN GetAncestors(p) = AncestorIds(p) /\ AncestorIds(p) \subseteq DOMAIN nodes
        /\ \A n \in AncestorIds(p) : GetAncestors(p)[n] = nodes[n]
    BY PathClosed DEF GetAncestors
  <2>5. p \in AncestorIds(p)
    BY PathClosed
  <2>6. /\ \A m \in AncestorIds(p) : nodes[m].seq = 0 <=> nodes[m].parent = NoNode
        /\ \A m \in AncestorIds(p) : nodes[m].parent = NoNode => nodes[p].root = m
    BY <1>1, <2>4 DEF RootKnown, RootsFirst
  <2>7. \A n \in DOMAIN nodes' : AncestorIds(n)' = AncestorIds(n)
    BY <2>3 DEF AncestorIds, ParentClosed
  <2>8. AncestorIds(ask[c].target)' \subseteq AncestorIds(p)
    BY <2>2, <2>3, <2>7
  <2> QED BY <2>2, <2>3, <2>4, <2>5, <2>6, <2>8 DEF Rooted, Streaming
<1>5. CASE CreateUser(c)
  <2>1. UserRow(c).id = nextId
    BY DEF UserRow, Row
  <2>2. pc'[c] \in {"checking", "indexing"}
    BY <1>1, <1>5 DEF CreateUser, Goto
  <2> QED BY <1>2, <1>5, <2>1, <2>2 DEF CreateUser, Rooted
<1>6. CASE Drain(c)
  <2>1. PICK o \in Outcomes : gen' = [gen EXCEPT ![c] = Accumulate(c, o)]
    BY <1>6 DEF Drain
  <2>2. gen'[c].parent = gen[c].parent /\ gen'[c].root = gen[c].root
    BY <1>1, <2>1 DEF Accumulate, GenOK, NoGen
  <2>3. pc[c] = "streaming" /\ pc'[c] = "saving" /\ nodes' = nodes
    BY <1>1, <1>6 DEF Drain, Goto, storeVars
  <2>4. pc[c] \in Streaming /\ pc'[c] \in Streaming
    BY <2>3 DEF Streaming
  <2> QED BY <1>1, <2>2, <2>3, <2>4 DEF Rooted
<1>7. CASE Save(c)
  <2>1. pc[c] = "saving" /\ CreateNode(AssistantRow(c))
    BY <1>1, <1>7 DEF Save, Goto
  <2>2. nodes'[nextId] = AssistantRow(c) /\ AssistantRow(c).root = gen[c].root
    BY <2>1 DEF CreateNode, AssistantRow, Row
  <2>3. CASE ShouldContinue(gen[c].resp, gen[c].tokens)
    <3>1. pc'[c] = "continuing" /\ gen' = [gen EXCEPT ![c] = Advance(c)]
      BY <1>1, <1>7, <2>3 DEF Save, Goto, ShouldContinue
    <3>2. gen'[c].parent = nextId /\ gen'[c].root = gen[c].root
      BY <1>1, <3>1 DEF Advance, GenOK, NoGen
    <3> QED BY <2>2, <3>1, <3>2 DEF Rooted
  <2>4. CASE ~ ShouldContinue(gen[c].resp, gen[c].tokens)
    <3>1. pc'[c] \in {"indexingUse", "closed"}
      BY <1>1, <1>7, <2>4 DEF Save, Goto
    <3> QED BY <3>1 DEF Rooted, Streaming
  <2> QED BY <2>3, <2>4
<1>8. CASE IndexResults(c) \/ CheckOrphans(c) \/ OpenStream(c) \/ Continue(c)
  <2>1. /\ pc[c] \in {"indexing", "checking", "opening", "continuing"}
        /\ pc'[c] \in {"checking", "opening", "streaming"}
        /\ gen' = gen /\ nodes' = nodes
    BY <1>1, <1>8 DEF IndexResults, CheckOrphans, OpenStream, Continue, Goto, storeVars
  <2>2. pc[c] \in Streaming
    BY <2>1 DEF Streaming
  <2> QED BY <1>1, <2>1, <2>2 DEF Rooted
<1>9. CASE \/ PromptFromFails(c) \/ CreateFails(c) \/ CheckFails(c) \/ OpenFails(c)
           \/ DrainNothing(c) \/ SaveFails(c) \/ IndexUses(c) \/ ContinueFails(c)
  <2>1. pc'[c] \in {"failed", "closed"}
    BY <1>1, <1>9 DEF PromptFromFails, CreateFails, CheckFails, OpenFails, DrainNothing, SaveFails,
         IndexUses, ContinueFails, Goto
  <2> QED BY <2>1 DEF Rooted, Streaming
<1> QED BY <1>3, <1>4, <1>5, <1>6, <1>7, <1>8, <1>9 DEF Step, Work

\* Roots stay known in every step, whoever takes it.
LEMMA NextRooted == IInv /\ RootInv /\ [Next]_vars => RootInv'
<1> SUFFICES ASSUME IInv, RootInv, [Next]_vars PROVE RootInv'
  OBVIOUS
<1>1. RootKnown' /\ RootsFirst'
  BY StepKeepsRoots
<1>2. \A d \in Calls : Rooted(d)'
  <2> TAKE d \in Calls
  <2>1. CASE UNCHANGED Own(d)
    BY <2>1, OthersRooted
  <2>2. CASE Step(d)
    BY <2>2, ActorRooted
  <2>3. ASSUME NEW c \in Calls, Step(c), c # d PROVE UNCHANGED Own(d)
    BY <2>3, OthersKeep DEF IInv
  <2>4. ASSUME Delete \/ UNCHANGED vars PROVE UNCHANGED Own(d)
    BY <2>4 DEF Delete, callVars, vars, Own
  <2> QED BY <2>1, <2>2, <2>3, <2>4 DEF Next, Step
<1>3. PathRooted' /\ GenRooted'
  BY <1>2 DEF Rooted, PathRooted, GenRooted
<1> QED BY <1>1, <1>3 DEF RootInv

\* A path that still reaches a root reaches the node root_id names, whatever
\* was deleted or inserted between the read of a path and the insert below it
\* (PromptFromWithAPIProtocol takes the root from the first row it read).
THEOREM RootNamed == Spec => []RootIsTopAncestor
<1>1. Init => RootInv
  BY DEF Init, StoreInit, RootInv, RootKnown, RootsFirst, PathRooted, GenRooted, Streaming
<1>2. IInv /\ RootInv /\ [Next]_vars => RootInv'
  BY NextRooted
<1>3. IInv /\ RootInv => RootIsTopAncestor
  <2> SUFFICES ASSUME IInv, RootInv, NEW n \in DOMAIN nodes,
                      GetAncestors(n)[FirstOf(GetAncestors(n))].parent = NoNode
               PROVE  nodes[n].root = FirstOf(GetAncestors(n))
    BY DEF RootIsTopAncestor
  <2> DEFINE rows == GetAncestors(n)
  <2>1. /\ DOMAIN rows = AncestorIds(n) /\ n \in DOMAIN rows
        /\ AncestorIds(n) \subseteq DOMAIN nodes
        /\ \A m \in DOMAIN rows : rows[m] = nodes[m]
    BY PathClosed DEF GetAncestors
  <2>2. \A m \in DOMAIN rows : rows[m].seq \in Nat
    BY <2>1 DEF IInv, TypeOK, StoreOK, RowType
  <2>3. FirstOf(rows) \in DOMAIN rows
    BY <2>1, <2>2, FirstOfPath
  <2> QED BY <2>1, <2>3 DEF RootInv, RootKnown
<1> QED BY <1>1, <1>2, <1>3, Inductive, PTL DEF Spec

-----------------------------------------------------------------------------
(***************************************************************************)
(* Output groups.  Each of the three invariants below says of every call,  *)
(* wherever it is, what its saved nodes have to do with the locals of its  *)
(* goroutine.                                                              *)
(***************************************************************************)

Unanswered == {"idle", "found", "indexing", "checking", "opening", "failed"}
Answering == {"streaming", "saving", "continuing"}

\* A call stores nothing of its group before its first stream.
GroupsFresh ==
  \A c \in Calls : pc[c] \in Unanswered => GroupNodes(c) = {} /\ last[c] = NoNode

\* Every node stored so far was paid with a token of the budget.
GroupsPaid ==
  \A c \in Calls :
    /\ Cardinality(GroupNodes(c)) <= GroupBudget
    /\ pc[c] \in Answering => Cardinality(GroupNodes(c)) < GroupBudget
    /\ pc[c] \in {"streaming", "continuing"} => Cardinality(GroupNodes(c)) <= gen[c].tokens
    /\ pc[c] = "saving" /\ ShouldContinue(gen[c].resp, gen[c].tokens) =>
         Cardinality(GroupNodes(c)) < gen[c].tokens

TextOnly(n) == Blocks(nodes[n].content, "use") = {}

\* What a text-only node of the group says is the start of what was
\* accumulated since.
GroupsRepeated ==
  \A c \in Calls : pc[c] \in Streaming =>
    \A m \in GroupNodes(c) : TextOnly(m) => IsPrefix(nodes[m].content, gen[c].acc)

\* As long as nothing is deleted, the node saved last ends a path that holds
\* the group so far, and the next one is hung below it.
GroupsLinked ==
  \A c \in Calls : deletes = 0 =>
    /\ last[c] = NoNode => GroupNodes(c) = {}
    /\ last[c] # NoNode =>
         /\ last[c] \in DOMAIN nodes /\ GroupNodes(c) \subseteq AncestorIds(last[c])
         /\ pc[c] \in Answering => gen[c].parent = last[c]

\* A group has finitely many nodes.
LEMMA GroupFinite ==
  ASSUME IInv, NEW c \in Calls
  PROVE  IsFiniteSet(GroupNodes(c)) /\ Cardinality(GroupNodes(c)) \in Nat
<1>1. nextId - 1 \in Int /\ GroupNodes(c) \subseteq 1 .. nextId - 1
  BY DEF IInv, TypeOK, StoreOK, NodeId, GroupNodes
<1>2. IsFiniteSet(1 .. nextId - 1)
  BY <1>1, FS_Interval
<1> QED BY <1>1, <1>2, FS_Subset, FS_CardinalityType

\* Only a call's own Save adds to its group, and it adds one node.
LEMMA GroupGrows ==
  ASSUME IInv, [Next]_vars, NEW c \in Calls
  PROVE  /\ \A m \in GroupNodes(c)' : m # nextId =>
              m \in GroupNodes(c) /\ nodes'[m] = nodes[m]
         /\ nextId \in GroupNodes(c)' => Save(c) /\ gen[c].group = c
         /\ nextId \notin GroupNodes(c)
<1>1. /\ nextId \in Nat \ {0} /\ DOMAIN nodes \subseteq 1 .. nextId - 1
      /\ \A n \in DOMAIN nodes' : n # nextId => n \in DOMAIN nodes /\ nodes'[n] = nodes[n]
  BY RowsStay DEF IInv, TypeOK, StoreOK
<1>2. \A m \in GroupNodes(c)' : m # nextId => m \in GroupNodes(c) /\ nodes'[m] = nodes[m]
  BY <1>1 DEF GroupNodes
<1>3. nextId \notin DOMAIN nodes
  BY <1>1
<1>4. ASSUME nextId \in GroupNodes(c)' PROVE Save(c) /\ gen[c].group = c
  <2>1. nextId \in DOMAIN nodes' /\ nodes'[nextId].group = c
    BY <1>4 DEF GroupNodes
  <2>2. NoGroup # c
    BY BoundsAssumption
  <2>3. ASSUME NEW d \in Calls, Prompt(d) \/ CreateUser(d) PROVE FALSE
    BY <2>1, <2>2, <2>3 DEF Prompt, CreateUser, CreateNode, RootRow, UserRow, Row
  <2>4. ASSUME NEW d \in Calls, Save(d) PROVE Save(c) /\ gen[c].group = c
    <3>1. pc[d] = "saving" /\ pc[d] \in Streaming /\ CreateNode(AssistantRow(d))
      BY <2>4 DEF Save, Goto, Streaming
    <3>2. gen[d].group \in {NoGroup, d}
      BY <3>1 DEF IInv, TreeInv, ParentKnown
    <3>3. gen[d].group = c
      BY <2>1, <3>1 DEF CreateNode, AssistantRow, Row
    <3> QED BY <2>2, <2>4, <3>2, <3>3
  <2>5. ASSUME NEW d \in Calls,
               \/ PromptFrom(d) \/ PromptFromFails(d) \/ CreateFails(d) \/ IndexResults(d)
               \/ CheckOrphans(d) \/ CheckFails(d) \/ OpenStream(d) \/ OpenFails(d)
               \/ DrainNothing(d) \/ Drain(d) \/ SaveFails(d) \/ IndexUses(d)
               \/ Continue(d) \/ ContinueFails(d)
        PROVE  nodes' = nodes
    BY <2>5 DEF PromptFrom, PromptFromFails, CreateFails, IndexResults, CheckOrphans, CheckFails,
         OpenStream, OpenFails, DrainNothing, Drain, SaveFails, IndexUses, Continue,
         ContinueFails, storeVars
  <2>6. ASSUME Delete PROVE DOMAIN nodes' \subseteq DOMAIN nodes
    BY <2>6 DEF Delete, DeleteNode
  <2>7. CASE UNCHANGED vars
    BY <1>3, <2>1, <2>7 DEF vars
  <2> QED BY <1>3, <2>1, <2>3, <2>4, <2>5, <2>6, <2>7 DEF Next, Work
<1> QED BY <1>2, <1>3, <1>4 DEF GroupNodes

\* The size of a group, after a step: one more after its Save at most.
LEMMA GroupCounted ==
  ASSUME IInv, [Next]_vars, NEW c \in Calls
  PROVE  /\ Cardinality(GroupNodes(c)) \in Nat /\ Cardinality(GroupNodes(c)') \in Nat
         /\ Cardinality(GroupNodes(c)') <= Cardinality(GroupNodes(c)) + 1
         /\ ~ Save(c) => Cardinality(GroupNodes(c)') <= Cardinality(GroupNodes(c))
<1> DEFINE G == GroupNodes(c)
           H == GroupNodes(c)'
<1>1. /\ IsFiniteSet(G) /\ Cardinality(G) \in Nat /\ nextId \notin G
      /\ \A m \in H : m # nextId => m \in G
      /\ nextId \in H => Save(c)
  BY GroupFinite, GroupGrows
<1> HIDE DEF G, H
<1>2. IsFiniteSet(G \cup {nextId}) /\ Cardinality(G \cup {nextId}) = Cardinality(G) + 1
  BY <1>1, FS_AddElement
<1>3. H \subseteq G \cup {nextId} /\ (~ Save(c) => H \subseteq G)
  BY <1>1
<1>4. Cardinality(H) \in Nat /\ Cardinality(H) <= Cardinality(G) + 1
  BY <1>2, <1>3, FS_Subset, FS_CardinalityType
<1>5. ~ Save(c) => Cardinality(H) <= Cardinality(G)
  BY <1>1, <1>3, FS_Subset
<1> QED BY <1>1, <1>4, <1>5 DEF G, H

\* In a step a call moves by itself, or all that is its own stays.
LEMMA MovesOrStays ==
  ASSUME TypeOK, [Next]_vars, NEW c \in Calls
  PROVE  Step(c) \/ (UNCHANGED Own(c) /\ ~ Save(c))
<1>1. DOMAIN pc = Calls
  BY DEF TypeOK
<1>2. ASSUME NEW d \in Calls, Step(d), d # c
      PROVE  UNCHANGED Own(c)
  BY <1>2, OthersKeep
<1>3. ASSUME Delete \/ UNCHANGED vars PROVE UNCHANGED Own(c)
  BY <1>3 DEF Delete, callVars, vars, Own
<1>4. ASSUME UNCHANGED Own(c) PROVE ~ Save(c)
  BY <1>1, <1>4 DEF Own, Save, Goto
<1> QED BY <1>2, <1>3, <1>4 DEF Next, Step

\* A call stores nothing before its first stream.
LEMMA NextFresh == IInv /\ GroupsFresh /\ [Next]_vars => GroupsFresh'
<1> SUFFICES ASSUME IInv, GroupsFresh, [Next]_vars, NEW c \in Calls, pc'[c] \in Unanswered
             PROVE  GroupNodes(c)' = {} /\ last'[c] = NoNode
  BY DEF GroupsFresh
<1>1. DOMAIN pc = Calls /\ DOMAIN last = Calls /\ TypeOK
  BY DEF IInv, TypeOK
<1>2. pc[c] \in Unanswered /\ last'[c] = last[c] /\ ~ Save(c)
  <2>1. CASE Step(c)
    BY <1>1, <2>1 DEF Step, Work, Prompt, PromptFrom, CreateUser, IndexResults, CheckOrphans,
         OpenStream, OpenFails, DrainNothing, Drain, Save, IndexUses, Continue, ContinueFails,
         PromptFromFails, CreateFails, CheckFails, SaveFails, Goto, Unanswered
  <2>2. CASE UNCHANGED Own(c) /\ ~ Save(c)
    BY <2>2 DEF Own
  <2> QED BY <1>1, <2>1, <2>2, MovesOrStays
<1>3. GroupNodes(c) = {} /\ last[c] = NoNode
  BY <1>2 DEF GroupsFresh
<1> QED BY <1>2, <1>3, GroupGrows

-----------------------------------------------------------------------------
(***************************************************************************)
(* The budget.                                                             *)
(***************************************************************************)

\* What the budget counts on: a truncated text reports a token or more.
TruncatedCounts ==
  \A o \in Outcomes : o.stop = "max_tokens" /\ o.uses = {} => o.tokens >= 1

\* Every round of a group pays for the node it stores.
LEMMA NextPaid ==
  TruncatedCounts /\ IInv /\ GroupsFresh /\ GroupsPaid /\ [Next]_vars => GroupsPaid'
<1> SUFFICES ASSUME TruncatedCounts, IInv, GroupsFresh, GroupsPaid, [Next]_vars, NEW c \in Calls
             PROVE  /\ Cardinality(GroupNodes(c)') <= GroupBudget
                    /\ pc'[c] \in Answering => Cardinality(GroupNodes(c)') < GroupBudget
                    /\ pc'[c] \in {"streaming", "continuing"} =>
                         Cardinality(GroupNodes(c)') <= gen'[c].tokens
                    /\ pc'[c] = "saving" /\ ShouldContinue(gen'[c].resp, gen'[c].tokens) =>
                         Cardinality(GroupNodes(c)') < gen'[c].tokens
  BY DEF GroupsPaid, ShouldContinue, NonText
<1> DEFINE k == Cardinality(GroupNodes(c))
           l == Cardinality(GroupNodes(c)')
<1>1. /\ DOMAIN pc = Calls /\ DOMAIN gen = Calls /\ TypeOK
      /\ GenOK(gen[c]) /\ gen[c].tokens \in Nat /\ GroupBudget \in Nat \ {0}
  BY BoundsAssumption DEF IInv, TypeOK, GenOK
<1>2. k \in Nat /\ l \in Nat /\ l <= k + 1 /\ (~ Save(c) => l <= k)
  BY GroupCounted
<1>3. /\ k <= GroupBudget
      /\ pc[c] \in Answering => k < GroupBudget
      /\ pc[c] \in {"streaming", "continuing"} => k <= gen[c].tokens
      /\ pc[c] = "saving" /\ ShouldContinue(gen[c].resp, gen[c].tokens) => k < gen[c].tokens
  BY DEF GroupsPaid
<1>4. pc[c] \in Unanswered => k = 0
  BY FS_EmptySet DEF GroupsFresh
<1> HIDE DEF k, l
<1> SUFFICES /\ l <= GroupBudget
             /\ pc'[c] \in Answering => l < GroupBudget
             /\ pc'[c] \in {"streaming", "continuing"} => l <= gen'[c].tokens
             /\ pc'[c] = "saving" /\ ShouldContinue(gen'[c].resp, gen'[c].tokens) =>
                  l < gen'[c].tokens
  BY DEF l
<1>5. CASE Save(c)
  <2>1. pc[c] = "saving"
    BY <1>5 DEF Save, Goto
  <2>2. CASE ShouldContinue(gen[c].resp, gen[c].tokens)
    <3>1. pc'[c] = "continuing" /\ gen' = [gen EXCEPT ![c] = Advance(c)]
      BY <1>1, <1>5, <2>2 DEF Save, Goto, ShouldContinue
    <3>2. gen'[c].tokens = gen[c].tokens
      BY <1>1, <3>1 DEF Advance, GenOK, NoGen
    <3>3. gen[c].tokens < GroupBudget
      BY <2>2 DEF ShouldContinue
    <3> QED BY <1>1, <1>2, <1>3, <2>1, <2>2, <3>1, <3>2, <3>3
  <2>3. CASE ~ ShouldContinue(gen[c].resp, gen[c].tokens)
    <3>1. pc'[c] \in {"indexingUse", "closed"}
      BY <1>1, <1>5, <2>3 DEF Save, Goto
    <3> QED BY <1>1, <1>2, <1>3, <2>1, <3>1 DEF Answering
  <2> QED BY <2>2, <2>3
<1>6. CASE Drain(c)
  <2>1. PICK o \in Outcomes : gen' = [gen EXCEPT ![c] = Accumulate(c, o)]
    BY <1>6 DEF Drain
  <2>2. pc[c] = "streaming" /\ pc'[c] = "saving" /\ ~ Save(c)
    BY <1>1, <1>6 DEF Drain, Save, Goto
  <2>3. gen'[c].tokens = gen[c].tokens + o.tokens /\ gen'[c].resp = o
    BY <1>1, <2>1 DEF Accumulate, GenOK, NoGen
  <2>4. o.tokens \in Nat /\ (o.stop = "max_tokens" /\ o.uses = {} => o.tokens >= 1)
    BY OutcomesAssumption DEF TruncatedCounts, OutcomeType
  <2>5. ShouldContinue(gen'[c].resp, gen'[c].tokens) => o.tokens >= 1
    BY <2>3, <2>4 DEF ShouldContinue, NonText
  <2> QED BY <1>1, <1>2, <1>3, <2>2, <2>3, <2>4, <2>5 DEF Answering
<1>7. CASE OpenStream(c)
  <2>1. pc[c] = "opening" /\ pc'[c] = "streaming" /\ gen' = gen /\ ~ Save(c)
    BY <1>1, <1>7 DEF OpenStream, Save, Goto
  <2> QED BY <1>1, <1>2, <1>4, <2>1 DEF Unanswered
<1>8. CASE Continue(c)
  <2>1. pc[c] = "continuing" /\ pc'[c] = "streaming" /\ gen' = gen /\ ~ Save(c)
    BY <1>1, <1>8 DEF Continue, Save, Goto
  <2> QED BY <1>1, <1>2, <1>3, <2>1 DEF Answering
<1>9. CASE \/ Prompt(c) \/ PromptFrom(c) \/ CreateUser(c) \/ IndexResults(c)
           \/ CheckOrphans(c) \/ OpenFails(c) \/ DrainNothing(c) \/ IndexUses(c)
           \/ ContinueFails(c) \/ PromptFromFails(c) \/ CreateFails(c) \/ CheckFails(c)
           \/ SaveFails(c)
  <2>1. /\ pc'[c] \in {"found", "indexing", "checking", "opening", "closed", "failed"}
        /\ pc[c] = "saving" => pc'[c] = "closed" /\ SaveFails(c)
    BY <1>1, <1>9 DEF Prompt, PromptFrom, CreateUser, IndexResults, CheckOrphans, OpenFails,
         DrainNothing, IndexUses, ContinueFails, PromptFromFails, CreateFails, CheckFails,
         SaveFails, Goto
  <2>2. SaveFails(c) => nodes' = nodes /\ nextId' = nextId
    BY DEF SaveFails, storeVars
  <2>3. Save(c) => pc[c] = "saving" /\ nextId' = nextId + 1
    BY DEF Save, CreateNode, Goto
  <2>4. ~ Save(c)
    BY <2>1, <2>2, <2>3 DEF IInv, TypeOK, StoreOK, NodeId
  <2> QED BY <1>1, <1>2, <1>3, <2>1, <2>4 DEF Answering
<1>10. CASE UNCHANGED Own(c) /\ ~ Save(c)
  <2>1. pc'[c] = pc[c] /\ gen'[c] = gen[c]
    BY <1>10 DEF Own
  <2> QED BY <1>1, <1>2, <1>3, <1>10, <2>1
<1> QED BY <1>1, <1>5, <1>6, <1>7, <1>8, <1>9, <1>10, MovesOrStays DEF Step, Work

\* The budget bounds the nodes of an output group, if a response that is cut
\* off reports the tokens it spent (streamResponse adds OutputTokens up and
\* goes on while the sum is below maxOutputGroupTokens).
THEOREM GroupBounded == TruncatedCounts /\ Spec => []GroupWithinBudget
<1> SUFFICES ASSUME TruncatedCounts PROVE Spec => []GroupWithinBudget
  OBVIOUS
<1>1. Init => GroupsFresh /\ GroupsPaid
  <2> SUFFICES ASSUME Init PROVE GroupsFresh /\ GroupsPaid
    OBVIOUS
  <2>1. /\ \A c \in Calls : GroupNodes(c) = {} /\ pc[c] = "idle" /\ last[c] = NoNode
        /\ GroupBudget \in Nat \ {0}
    BY BoundsAssumption DEF Init, StoreInit, GroupNodes
  <2>2. \A c \in Calls : Cardinality(GroupNodes(c)) = 0
    BY <2>1, FS_EmptySet
  <2> QED BY <2>1, <2>2 DEF GroupsFresh, GroupsPaid, Answering
<1>2. IInv /\ GroupsFresh /\ GroupsPaid /\ [Next]_vars => GroupsFresh' /\ GroupsPaid'
  BY NextFresh, NextPaid
<1>3. GroupsPaid => GroupWithinBudget
  BY DEF GroupsPaid, GroupWithinBudget
<1> QED BY <1>1, <1>2, <1>3, Inductive, PTL DEF Spec

-----------------------------------------------------------------------------
(***************************************************************************)
(* The texts of a group.                                                   *)
(***************************************************************************)

\* A content starts with itself, and what it starts with stays its start when
\* it grows.
LEMMA PrefixGrows ==
  ASSUME NEW T, NEW s \in Seq(T), NEW t \in Seq(T), NEW more \in Seq(T), IsPrefix(s, t)
  PROVE  IsPrefix(s, s) /\ IsPrefix(s, t \o more)
<1>1. Len(s) \in Nat /\ Len(t) \in Nat /\ Len(s) <= Len(t) /\ SubSeq(s, 1, Len(s)) = SubSeq(t, 1, Len(s))
  BY DEF IsPrefix
<1>2. Len(t \o more) = Len(t) + Len(more) /\ Len(more) \in Nat
  OBVIOUS
<1>3. \A i \in 1 .. Len(s) : (t \o more)[i] = t[i]
  BY <1>1
<1>4. SubSeq(t \o more, 1, Len(s)) = SubSeq(t, 1, Len(s))
  BY <1>1, <1>2, <1>3
<1> QED BY <1>1, <1>2, <1>4 DEF IsPrefix

\* Finitely many tools make finitely many tool_use blocks.
LEMMA UseBlocksFinite ==
  ASSUME NEW tools, tools \subseteq ToolIds, IsFiniteSet(tools)
  PROVE  IsFiniteSet({Use(t) : t \in tools})
<1> DEFINE f == [t \in tools |-> Use(t)]
<1>1. f \in [tools -> BlockType]
  BY DEF Use, BlockType
<1>2. IsFiniteSet({f[t] : t \in tools})
  BY <1>1, ImageFinite
<1>3. {f[t] : t \in tools} = {Use(t) : t \in tools}
  OBVIOUS
<1> QED BY <1>2, <1>3

\* An answer with tool uses is stored with a tool_use block.
LEMMA UsesStored ==
  ASSUME IInv, NEW c \in Calls, NonText(gen[c].resp)
  PROVE  Blocks(NodeContent(c), "use") # {}
<1> DEFINE o == gen[c].resp
           S == {Use(t) : t \in o.uses}
           p == Piece(c, o, Len(gen[c].acc))
           u == UseBlocks(o)
<1>1. GenOK(gen[c]) /\ IsFiniteSet(o.uses) /\ o.uses # {} /\ o.uses \subseteq ToolIds
  BY OutcomeFacts DEF IInv, TypeOK, GenOK, NonText, OutcomeType
<1>2. p \in Seq(BlockType)
  BY <1>1, PieceTyped DEF GenOK
<1>3. IsFiniteSet(S) /\ S # {}
  BY <1>1, UseBlocksFinite
<1>4. u \in Seq(S)
  BY <1>3, SetToSeqType DEF UseBlocks
<1>5. Len(u) >= 1
  <2> HIDE DEF S
  <2>1. Cardinality(S) \in Nat /\ Cardinality(S) # 0 /\ ExistsBijection(1 .. Cardinality(S), S)
    BY <1>3, FS_CardinalityType, FS_EmptySet
  <2>2. PICK f \in [1 .. Cardinality(S) -> S] : IsInjective(f)
    BY <2>1 DEF ExistsBijection, Bijection, Injection, IsInjective
  <2>3. SetToSeq(S) \in [1 .. Cardinality(S) -> S]
    BY <2>2 DEF SetToSeq
  <2>4. u \in [1 .. Cardinality(S) -> S]
    BY <2>3 DEF UseBlocks, S
  <2> QED BY <2>1, <2>4
<1>6. u[1] \in S /\ u[1].kind = "use"
  BY <1>4, <1>5 DEF Use
<1>7. u \in Seq(BlockType)
  BY <1>1, ToolBlocks DEF UseBlocks
<1> HIDE DEF p, u, S
<1>8. Len(p) + 1 \in 1 .. Len(p \o u) /\ (p \o u)[Len(p) + 1] = u[1]
  BY <1>2, <1>5, <1>7
<1>9. NodeContent(c) = p \o u /\ p \o u \in Seq(BlockType)
  BY <1>2, <1>7 DEF NodeContent, p, u
<1>10. u[1] \in ToSet(NodeContent(c))
  BY <1>8, <1>9 DEF ToSet
<1> QED BY <1>6, <1>10 DEF Blocks

\* The texts of a group stay prefixes of what follows.
LEMMA NextRepeated ==
  IInv /\ GroupsFresh /\ GroupsRepeated /\ TextGroupSelfContained /\ [Next]_vars =>
    GroupsRepeated' /\ TextGroupSelfContained'
<1> SUFFICES ASSUME IInv, GroupsFresh, GroupsRepeated, TextGroupSelfContained, [Next]_vars,
                    NEW c \in Calls
             PROVE  /\ pc'[c] \in Streaming =>
                         \A m \in GroupNodes(c)' : Blocks(nodes'[m].content, "use") = {} =>
                           IsPrefix(nodes'[m].content, gen'[c].acc)
                    /\ \A m, n \in GroupNodes(c)' :
                         /\ m < n
                         /\ Blocks(nodes'[m].content, "use") = {}
                         /\ Blocks(nodes'[n].content, "use") = {}
                         => IsPrefix(nodes'[m].content, nodes'[n].content)
  BY DEF GroupsRepeated, TextGroupSelfContained, TextOnly
<1> DEFINE G == GroupNodes(c)
           H == GroupNodes(c)'
<1>1. /\ DOMAIN pc = Calls /\ DOMAIN gen = Calls /\ TypeOK
      /\ GenOK(gen[c]) /\ gen[c].acc \in Seq(BlockType)
      /\ \A m \in G : nodes[m].content \in Seq(BlockType) /\ m \in Nat /\ m < nextId
      /\ nextId \in Nat
  BY DEF IInv, TypeOK, StoreOK, NodeId, RowType, GenOK, GroupNodes
<1>2. /\ \A m \in H : m # nextId => m \in G /\ nodes'[m] = nodes[m]
      /\ nextId \in H => Save(c)
  BY GroupGrows
<1>3. /\ pc[c] \in Streaming =>
           \A m \in G : Blocks(nodes[m].content, "use") = {} =>
             IsPrefix(nodes[m].content, gen[c].acc)
      /\ \A m, n \in G :
           /\ m < n
           /\ Blocks(nodes[m].content, "use") = {}
           /\ Blocks(nodes[n].content, "use") = {}
           => IsPrefix(nodes[m].content, nodes[n].content)
      /\ pc[c] \in Unanswered => G = {}
  BY DEF GroupsFresh, GroupsRepeated, TextGroupSelfContained, TextOnly
<1> HIDE DEF G, H
<1> SUFFICES /\ pc'[c] \in Streaming =>
                  \A m \in H : Blocks(nodes'[m].content, "use") = {} =>
                    IsPrefix(nodes'[m].content, gen'[c].acc)
             /\ \A m, n \in H :
                  /\ m < n
                  /\ Blocks(nodes'[m].content, "use") = {}
                  /\ Blocks(nodes'[n].content, "use") = {}
                  => IsPrefix(nodes'[m].content, nodes'[n].content)
  BY DEF H
<1>4. CASE Save(c)
  <2>1. pc[c] = "saving" /\ pc[c] \in Streaming
    BY <1>4 DEF Save, Goto, Streaming
  <2>2. nodes'[nextId].content = NodeContent(c)
    BY <1>4 DEF Save, CreateNode, AssistantRow, Row
  <2>3. Blocks(nodes'[nextId].content, "use") = {} =>
          ~ NonText(gen[c].resp) /\ nodes'[nextId].content = gen[c].acc
    BY <2>2, UsesStored DEF NodeContent
  <2>4. pc'[c] \in Streaming => gen'[c].acc = gen[c].acc
    <3>1. CASE ShouldContinue(gen[c].resp, gen[c].tokens)
      BY <1>1, <1>4, <3>1 DEF Save, Advance, GenOK, NoGen
    <3>2. CASE ~ ShouldContinue(gen[c].resp, gen[c].tokens)
      <4>1. pc'[c] \in {"indexingUse", "closed"}
        BY <1>1, <1>4, <3>2 DEF Save, Goto
      <4> QED BY <4>1 DEF Streaming
    <3> QED BY <3>1, <3>2
  <2>5. IsPrefix(gen[c].acc, gen[c].acc)
    BY <1>1 DEF IsPrefix
  <2>6. ASSUME NEW m \in H, Blocks(nodes'[m].content, "use") = {}
        PROVE  IsPrefix(nodes'[m].content, gen[c].acc)
    BY <1>2, <1>3, <2>1, <2>3, <2>5, <2>6
  <2>7. ASSUME NEW m \in H, NEW n \in H, m < n, Blocks(nodes'[m].content, "use") = {},
               Blocks(nodes'[n].content, "use") = {}
        PROVE  IsPrefix(nodes'[m].content, nodes'[n].content)
    <3>1. CASE n = nextId
      BY <2>3, <2>6, <2>7, <3>1
    <3>2. CASE n # nextId
      <4>1. m # nextId
        BY <1>1, <1>2, <2>7, <3>2
      <4> QED BY <1>2, <1>3, <2>7, <3>2, <4>1
    <3> QED BY <3>1, <3>2
  <2> QED BY <2>4, <2>6, <2>7
<1>5. ASSUME ~ Save(c)
      PROVE  /\ \A m \in H : m \in G /\ nodes'[m] = nodes[m]
             /\ \A m, n \in H :
                  /\ m < n
                  /\ Blocks(nodes'[m].content, "use") = {}
                  /\ Blocks(nodes'[n].content, "use") = {}
                  => IsPrefix(nodes'[m].content, nodes'[n].content)
  BY <1>2, <1>3, <1>5
<1>6. CASE Drain(c)
  <2>1. PICK o \in Outcomes : gen' = [gen EXCEPT ![c] = Accumulate(c, o)]
    BY <1>6 DEF Drain
  <2>2. pc[c] = "streaming" /\ ~ Save(c)
    BY <1>6 DEF Drain, Save, Goto
  <2>3. Len(gen[c].acc) + 1 \in Nat
    BY <1>1
  <2>4. Piece(c, o, Len(gen[c].acc) + 1) \in Seq(BlockType)
    BY <2>3, PieceTyped
  <2>5. gen'[c].acc = gen[c].acc \o Piece(c, o, Len(gen[c].acc) + 1)
    BY <1>1, <2>1 DEF Accumulate, GenOK, NoGen
  <2>6. ASSUME NEW m \in G, Blocks(nodes[m].content, "use") = {}
        PROVE  IsPrefix(nodes[m].content, gen'[c].acc)
    <3>1. IsPrefix(nodes[m].content, gen[c].acc)
      BY <1>3, <2>2, <2>6 DEF Streaming
    <3> QED BY <1>1, <2>4, <2>5, <3>1, PrefixGrows
  <2> QED BY <1>5, <2>2, <2>6
<1>7. CASE \/ Prompt(c) \/ PromptFrom(c) \/ CreateUser(c) \/ IndexResults(c) \/ CheckOrphans(c)
           \/ OpenStream(c) \/ OpenFails(c) \/ PromptFromFails(c) \/ CreateFails(c)
           \/ CheckFails(c)
  <2>1. pc[c] \in Unanswered /\ ~ Save(c)
    BY <1>7 DEF Prompt, PromptFrom, CreateUser, IndexResults, CheckOrphans, OpenStream, OpenFails,
         PromptFromFails, CreateFails, CheckFails, Save, Goto, Unanswered
  <2> QED BY <1>3, <1>5, <2>1
<1>8. CASE \/ DrainNothing(c) \/ IndexUses(c) \/ Continue(c) \/ ContinueFails(c) \/ SaveFails(c)
  <2>1. /\ pc'[c] = "closed" \/ (pc[c] = "continuing" /\ gen' = gen /\ pc'[c] = "streaming")
        /\ nextId' = nextId
    BY <1>1, <1>8 DEF DrainNothing, IndexUses, Continue, ContinueFails, SaveFails, Goto, storeVars
  <2>2. Save(c) => nextId' = nextId + 1
    BY DEF Save, CreateNode
  <2>3. ~ Save(c)
    BY <1>1, <2>1, <2>2
  <2> QED BY <1>3, <1>5, <2>1, <2>3 DEF Streaming
<1>9. CASE UNCHANGED Own(c) /\ ~ Save(c)
  <2>1. pc'[c] = pc[c] /\ gen'[c] = gen[c]
    BY <1>9 DEF Own
  <2> QED BY <1>3, <1>5, <1>9, <2>1
<1> QED BY <1>1, <1>4, <1>6, <1>7, <1>8, <1>9, MovesOrStays DEF Step, Work

\* Nothing of a group is stored at the start.
LEMMA InitGroups ==
  Init => GroupsFresh /\ \A c \in Calls : GroupNodes(c) = {} /\ pc[c] = "idle"
BY DEF Init, StoreInit, GroupNodes, GroupsFresh

\* A later text of an output group repeats the earlier ones (streamResponse
\* stores accumulatedText, so that buildMessages may drop the earlier nodes),
\* whatever the calls, deletions and failures around it.
THEOREM GroupTextsNest == Spec => []TextGroupSelfContained
<1>1. Init => GroupsFresh /\ GroupsRepeated /\ TextGroupSelfContained
  BY InitGroups DEF GroupsRepeated, TextGroupSelfContained
<1>2. IInv /\ GroupsFresh /\ GroupsRepeated /\ TextGroupSelfContained /\ [Next]_vars =>
        GroupsFresh' /\ GroupsRepeated' /\ TextGroupSelfContained'
  BY NextFresh, NextRepeated
<1> QED BY <1>1, <1>2, Inductive, PTL DEF Spec

-----------------------------------------------------------------------------
(***************************************************************************)
(* The announced node.                                                     *)
(***************************************************************************)

\* A path keeps its rows while no row goes.
LEMMA PathKept ==
  ASSUME NEW n \in DOMAIN nodes, DOMAIN nodes \subseteq DOMAIN nodes',
         \A m \in DOMAIN nodes : nodes'[m] = nodes[m]
  PROVE  AncestorIds(n) \subseteq AncestorIds(n)'
<1> DEFINE S == AncestorIds(n)' \cap DOMAIN nodes
<1>1. n \in AncestorIds(n)'
  BY DEF AncestorIds
<1>2. \A m \in AncestorIds(n)' :
        nodes'[m].parent \in DOMAIN nodes' => nodes'[m].parent \in AncestorIds(n)'
  BY DEF AncestorIds, ParentClosed
<1>3. S \in SUBSET DOMAIN nodes /\ n \in S
  BY <1>1
<1>4. \A m \in S : nodes[m].parent \in DOMAIN nodes => nodes[m].parent \in S
  BY <1>2
<1> HIDE DEF S
<1>5. AncestorIds(n) \subseteq S
  BY <1>3, <1>4 DEF AncestorIds, ParentClosed
<1> QED BY <1>5 DEF S

\* The path to an inserted row holds the row and the path to its parent.
LEMMA PathExtended ==
  ASSUME NEW u \in DOMAIN nodes', NEW p \in DOMAIN nodes, nodes'[u].parent = p,
         DOMAIN nodes \subseteq DOMAIN nodes',
         \A m \in DOMAIN nodes : nodes'[m] = nodes[m]
  PROVE  AncestorIds(p) \subseteq AncestorIds(u)'
<1>1. u \in AncestorIds(u)' /\ AncestorIds(u)' \subseteq DOMAIN nodes'
  BY DEF AncestorIds
<1>2. \A m \in AncestorIds(u)' :
        nodes'[m].parent \in DOMAIN nodes' => nodes'[m].parent \in AncestorIds(u)'
  BY DEF AncestorIds, ParentClosed
<1> DEFINE S == AncestorIds(u)' \cap DOMAIN nodes
<1>3. S \in SUBSET DOMAIN nodes /\ p \in S
  BY <1>1, <1>2
<1>4. \A m \in S : nodes[m].parent \in DOMAIN nodes => nodes[m].parent \in S
  BY <1>2
<1> HIDE DEF S
<1>5. AncestorIds(p) \subseteq S
  BY <1>3, <1>4 DEF AncestorIds, ParentClosed
<1> QED BY <1>5 DEF S

\* A step that deletes nothing keeps every row and every path.
LEMMA NothingLost ==
  ASSUME IInv, [Next]_vars, deletes' = 0
  PROVE  /\ deletes = 0 /\ DOMAIN nodes \subseteq DOMAIN nodes'
         /\ \A n \in DOMAIN nodes : nodes'[n] = nodes[n] /\ AncestorIds(n) \subseteq AncestorIds(n)'
<1>1. deletes \in Nat /\ StoreOK /\ ParentsOlder
  BY DEF IInv, TypeOK, TreeInv
<1>2. /\ deletes = 0 /\ DOMAIN nodes \subseteq DOMAIN nodes'
      /\ \A n \in DOMAIN nodes : nodes'[n] = nodes[n]
  <2>1. ASSUME NEW c \in Calls, Prompt(c) \/ CreateUser(c) \/ Save(c)
        PROVE  deletes' = deletes /\ \E row : CreateNode(row)
    BY <2>1 DEF Prompt, CreateUser, Save
  <2>2. ASSUME NEW c \in Calls,
               \/ PromptFrom(c) \/ PromptFromFails(c) \/ CreateFails(c) \/ IndexResults(c)
               \/ CheckOrphans(c) \/ CheckFails(c) \/ OpenStream(c) \/ OpenFails(c)
               \/ DrainNothing(c) \/ Drain(c) \/ SaveFails(c) \/ IndexUses(c)
               \/ Continue(c) \/ ContinueFails(c)
        PROVE  deletes' = deletes /\ nodes' = nodes
    BY <2>2 DEF PromptFrom, PromptFromFails, CreateFails, IndexResults, CheckOrphans, CheckFails,
         OpenStream, OpenFails, DrainNothing, Drain, SaveFails, IndexUses, Continue,
         ContinueFails, storeVars
  <2>3. ~ Delete
    BY <1>1 DEF Delete
  <2>4. CASE UNCHANGED vars
    BY <2>4 DEF vars
  <2>5. ASSUME NEW row, CreateNode(row)
        PROVE  DOMAIN nodes \subseteq DOMAIN nodes' /\ \A n \in DOMAIN nodes : nodes'[n] = nodes[n]
    BY <1>1, <2>5, Inserted
  <2> QED BY <2>1, <2>2, <2>3, <2>4, <2>5 DEF Next, Work
<1> QED BY <1>2, PathKept

\* The nodes of a group stay on the path to the one saved last.
LEMMA StepLinks ==
  ASSUME IInv, GroupsFresh, GroupsLinked, [Next]_vars, NEW c \in Calls, deletes' = 0,
         NEW l, l = last'[c]
  PROVE  /\ l = NoNode => GroupNodes(c)' = {}
         /\ l # NoNode =>
              /\ l \in DOMAIN nodes' /\ GroupNodes(c)' \subseteq AncestorIds(l)'
              /\ pc'[c] \in Answering => gen'[c].parent = l
<1>1. /\ DOMAIN pc = Calls /\ DOMAIN gen = Calls /\ DOMAIN last = Calls /\ TypeOK
      /\ GenOK(gen[c]) /\ nextId \in Nat \ {0}
  BY DEF IInv, TypeOK, StoreOK, NodeId
<1>2. /\ deletes = 0 /\ DOMAIN nodes \subseteq DOMAIN nodes'
      /\ \A n \in DOMAIN nodes : nodes'[n] = nodes[n] /\ AncestorIds(n) \subseteq AncestorIds(n)'
  BY NothingLost
<1>3. /\ \A m \in GroupNodes(c)' : m # nextId => m \in GroupNodes(c)
      /\ nextId \in GroupNodes(c)' => Save(c)
  BY GroupGrows
<1>4. /\ last[c] = NoNode => GroupNodes(c) = {}
      /\ last[c] # NoNode =>
           /\ last[c] \in DOMAIN nodes /\ GroupNodes(c) \subseteq AncestorIds(last[c])
           /\ pc[c] \in Answering => gen[c].parent = last[c]
  BY <1>2 DEF GroupsLinked
<1>5. CASE Save(c)
  <2>1. pc[c] \in Answering /\ CreateNode(AssistantRow(c)) /\ l = nextId
    BY <1>1, <1>5 DEF Save, Goto, Answering
  <2>2. /\ l \in DOMAIN nodes' /\ nodes'[l] = AssistantRow(c)
        /\ nodes'[l].parent = gen[c].parent
    BY <2>1 DEF CreateNode, AssistantRow, Row
  <2>3. l \in AncestorIds(l)'
    BY <2>2 DEF AncestorIds
  <2>4. GroupNodes(c) \subseteq AncestorIds(l)'
    <3>1. CASE last[c] = NoNode
      BY <1>4, <3>1
    <3>2. CASE last[c] # NoNode
      BY <1>2, <1>4, <2>1, <2>2, <3>2, PathExtended
    <3> QED BY <3>1, <3>2
  <2>5. pc'[c] \in Answering => gen'[c].parent = l
    <3>1. CASE ShouldContinue(gen[c].resp, gen[c].tokens)
      <4>1. gen' = [gen EXCEPT ![c] = Advance(c)]
        BY <1>5, <3>1 DEF Save, ShouldContinue
      <4> QED BY <1>1, <2>1, <4>1 DEF Advance, GenOK, NoGen
    <3>2. CASE ~ ShouldContinue(gen[c].resp, gen[c].tokens)
      <4>1. pc'[c] \in {"indexingUse", "closed"}
        BY <1>1, <1>5, <3>2 DEF Save, Goto
      <4> QED BY <4>1 DEF Answering
    <3> QED BY <3>1, <3>2
  <2> QED BY <1>1, <1>3, <2>1, <2>2, <2>3, <2>4, <2>5 DEF NoNode
<1>6. ASSUME ~ Save(c), last'[c] = last[c],
             pc'[c] \in Answering => \/ pc[c] \in Unanswered
                                     \/ pc[c] \in Answering /\ gen'[c].parent = gen[c].parent
      PROVE  /\ l = NoNode => GroupNodes(c)' = {}
             /\ l # NoNode =>
                  /\ l \in DOMAIN nodes' /\ GroupNodes(c)' \subseteq AncestorIds(l)'
                  /\ pc'[c] \in Answering => gen'[c].parent = l
  <2>1. GroupNodes(c)' \subseteq GroupNodes(c)
    BY <1>3, <1>6
  <2>2. pc[c] \in Unanswered => l = NoNode
    BY <1>6 DEF GroupsFresh
  <2>3. l \in DOMAIN nodes => AncestorIds(l) \subseteq AncestorIds(l)' /\ l \in DOMAIN nodes'
    BY <1>2
  <2>4. l # NoNode => l \in DOMAIN nodes /\ GroupNodes(c) \subseteq AncestorIds(l)
    BY <1>4, <1>6
  <2> QED BY <1>4, <1>6, <2>1, <2>2, <2>3, <2>4
<1>7. CASE Drain(c)
  <2>1. PICK o \in Outcomes : gen' = [gen EXCEPT ![c] = Accumulate(c, o)]
    BY <1>7 DEF Drain
  <2>2. pc[c] = "streaming" /\ ~ Save(c) /\ last'[c] = last[c]
    BY <1>7 DEF Drain, Save, Goto
  <2>3. gen'[c].parent = gen[c].parent
    BY <1>1, <2>1 DEF Accumulate, GenOK, NoGen
  <2> QED BY <1>6, <2>2, <2>3 DEF Answering
<1>8. CASE \/ Prompt(c) \/ PromptFrom(c) \/ CreateUser(c) \/ IndexResults(c) \/ CheckOrphans(c)
           \/ OpenStream(c) \/ OpenFails(c) \/ PromptFromFails(c) \/ CreateFails(c)
           \/ CheckFails(c)
  <2>1. pc[c] \in Unanswered /\ ~ Save(c) /\ last'[c] = last[c]
    BY <1>8 DEF Prompt, PromptFrom, CreateUser, IndexResults, CheckOrphans, OpenStream, OpenFails,
         PromptFromFails, CreateFails, CheckFails, Save, Goto, Unanswered
  <2> QED BY <1>6, <2>1
<1>9. CASE \/ DrainNothing(c) \/ IndexUses(c) \/ Continue(c) \/ ContinueFails(c) \/ SaveFails(c)
  <2>1. /\ pc'[c] = "closed" \/ (pc[c] = "continuing" /\ gen' = gen /\ pc'[c] = "streaming")
        /\ nextId' = nextId /\ last' = last
    BY <1>1, <1>9 DEF DrainNothing, IndexUses, Continue, ContinueFails, SaveFails, Goto, storeVars
  <2>2. Save(c) => nextId' = nextId + 1
    BY DEF Save, CreateNode
  <2>3. ~ Save(c)
    BY <1>1, <2>1, <2>2
  <2> QED BY <1>6, <2>1, <2>3 DEF Answering
<1>10. CASE UNCHANGED Own(c) /\ ~ Save(c)
  <2>1. pc'[c] = pc[c] /\ gen'[c] = gen[c] /\ last'[c] = last[c]
    BY <1>10 DEF Own
  <2> QED BY <1>6, <1>10, <2>1
<1> QED BY <1>1, <1>5, <1>7, <1>8, <1>9, <1>10, MovesOrStays DEF Step, Work

\* A step of any call keeps every group on one path.
LEMMA NextLinked ==
  IInv /\ GroupsFresh /\ GroupsLinked /\ [Next]_vars => GroupsLinked'
<1> SUFFICES ASSUME IInv, GroupsFresh, GroupsLinked, [Next]_vars PROVE GroupsLinked'
  OBVIOUS
<1>1. ASSUME NEW c \in Calls, deletes' = 0, NEW l, l = last'[c]
      PROVE  /\ l = NoNode => GroupNodes(c)' = {}
             /\ l # NoNode =>
                  /\ l \in DOMAIN nodes' /\ GroupNodes(c)' \subseteq AncestorIds(l)'
                  /\ pc'[c] \in Answering => gen'[c].parent = l
  BY <1>1, StepLinks
<1> QED BY <1>1 DEF GroupsLinked, AncestorIds, ParentClosed

\* While nothing is deleted, the path to the node a call announced holds its
\* whole output group (streamResponse sends NodeSaved once, after the last
\* insert, and hangs every node below the one before).
THEOREM AnnouncedHoldsGroup == Spec => []AnnouncedIsWhole
<1>1. Init => GroupsFresh /\ GroupsLinked
  <2> SUFFICES ASSUME Init PROVE GroupsLinked
    BY InitGroups
  <2>1. \A c \in Calls : GroupNodes(c) = {} /\ last[c] = NoNode
    BY InitGroups DEF Init
  <2> QED BY <2>1 DEF GroupsLinked
<1>2. IInv /\ GroupsFresh /\ GroupsLinked /\ [Next]_vars => GroupsFresh' /\ GroupsLinked'
  BY NextFresh, NextLinked
<1>3. GroupsLinked => AnnouncedIsWhole
  BY DEF GroupsLinked, AnnouncedIsWhole
<1> QED BY <1>1, <1>2, <1>3, Inductive, PTL DEF Spec
=============================================================================
