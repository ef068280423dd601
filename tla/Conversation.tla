---------------------------- MODULE Conversation ----------------------------
(***************************************************************************)
(* The conversation manager (internal/conversation/conversation.go):       *)
(* concurrent Prompt and PromptFrom calls, the goroutines that stream      *)
(* their answers, and node deletion, over one node store.                  *)
(*                                                                         *)
(* A call goes through                                                     *)
(*   idle       -> opening                        Prompt                   *)
(*   idle       -> found -> indexing -> checking -> opening   PromptFrom   *)
(*   opening    -> streaming                      Provider.Stream          *)
(*   streaming  -> saving -> indexingUse          one provider stream      *)
(*   saving     -> continuing -> streaming        output group             *)
(* and ends closed (its event channel is closed) or failed (the call       *)
(* returned an error and no channel).  Every action is at most one         *)
(* statement on the store, so calls interleave wherever the code can be    *)
(* interrupted.                                                            *)
(***************************************************************************)
EXTENDS NodeStore, History

CONSTANTS
  Calls,            \* the calls of the run; a call is made once
  Outcomes,         \* what one provider stream can deliver, see OutcomeType
  GroupBudget,      \* maxOutputGroupTokens, or 4 * maxTokens
  AnyNode,          \* TRUE: callers continue from every stored node (the tree
                    \* endpoints list them); FALSE: from announced nodes only
  FreshToolIds,     \* TRUE: providers never repeat a tool id
  MaxFaults,        \* bound on failing store statements
  MaxDeletes        \* bound on DeleteNode calls

VARIABLES
  pc,               \* where each call is
  ask,              \* the locals of the calling goroutine, see NoAsk
  gen,              \* the locals of the streaming goroutine, see NoGen
  last,             \* lastSavedNodeID, the node a NodeSaved event names
  events,           \* the NodeSaved and Error events sent to the caller
  faults,           \* store statements that failed so far
  deletes           \* DeleteNode calls so far

callVars == <<pc, ask, gen, last, events>>
vars == <<nodes, nextId, toolIndex, pc, ask, gen, last, events, faults, deletes>>

(***************************************************************************)
(* An outcome of one provider stream, drained by streamResponse:           *)
(*   text    the concatenated deltas: "empty", "blank" (white space) or    *)
(*           "words";                                                      *)
(*   stop    the StopReason of the Done event, "none" when the stream      *)
(*           ended without one;                                            *)
(*   uses    the tool ids of the tool_use blocks of the response;          *)
(*   tokens  its OutputTokens;                                             *)
(*   err     whether the stream carried an Error event.                    *)
(***************************************************************************)
OutcomeType ==
  [text : {"empty", "blank", "words"},
   stop : {"none", "end_turn", "tool_use", "max_tokens"},
   uses : SUBSET ToolIds, tokens : Nat, err : BOOLEAN]

\* What a provider can deliver: an early end has no response, and tool_use
\* blocks come with the stop reasons that can carry them.  An error can
\* follow the Done event.
ASSUME OutcomesAssumption ==
  /\ Outcomes \subseteq OutcomeType
  /\ \A o \in Outcomes :
       /\ IsFiniteSet(o.uses)
       /\ o.stop = "none" => o.uses = {} /\ o.tokens = 0
       /\ o.uses # {} => o.stop \in {"tool_use", "max_tokens"}

ASSUME BoundsAssumption ==
  /\ GroupBudget \in Nat \ {0}
  /\ MaxFaults \in Nat
  /\ MaxDeletes \in Nat
  /\ AnyNode \in BOOLEAN
  /\ FreshToolIds \in BOOLEAN
  /\ NoGroup \notin Calls

NoOutcome == [text |-> "empty", stop |-> "none", uses |-> {}, tokens |-> 0, err |-> FALSE]

(***************************************************************************)
(* anc      ancestors, the rows PromptFrom read                            *)
(* target   parentNodeID                                                   *)
(* user     the user node it stored                                        *)
(* msg      the content of that node                                       *)
(* orphans  what GetOrphanedToolUses answered                              *)
(***************************************************************************)
NoAsk == [anc |-> [n \in {} |-> NoNode], target |-> NoNode, user |-> NoNode,
          msg |-> <<>>, orphans |-> {}]

(***************************************************************************)
(* parent, root, seq   currentParent, of which these fields are used       *)
(* acc                 accumulatedText                                     *)
(* tokens              cumulativeOutputToks                                *)
(* group               groupID; a call has one group at most               *)
(* resp                the provider stream drained last                    *)
(***************************************************************************)
NoGen == [parent |-> NoNode, root |-> NoNode, seq |-> 0, acc |-> <<>>,
          tokens |-> 0, group |-> NoGroup, resp |-> NoOutcome]

Row(type, par, root, seq, content, grp) ==
  [id |-> nextId, parent |-> par, root |-> root, seq |-> seq, type |-> type,
   content |-> content, group |-> grp]

-----------------------------------------------------------------------------
Init ==
  /\ StoreInit
  /\ pc = [c \in Calls |-> "idle"]
  /\ ask = [c \in Calls |-> NoAsk]
  /\ gen = [c \in Calls |-> NoGen]
  /\ last = [c \in Calls |-> NoNode]
  /\ events = [c \in Calls |-> <<>>]
  /\ faults = 0
  /\ deletes = 0

Goto(c, from, to) == pc[c] = from /\ pc' = [pc EXCEPT ![c] = to]

Emit(c, kinds) == events' = [events EXCEPT ![c] = @ \o kinds]

\* The goroutine returns and its locals are gone.
Return(c) == gen' = [gen EXCEPT ![c] = NoGen]

StoreFault == faults < MaxFaults /\ faults' = faults + 1

-----------------------------------------------------------------------------
(***************************************************************************)
(* The calling goroutine.                                                  *)
(***************************************************************************)
RootRow(c) == Row("user", NoNode, nextId, 0, <<Text(c, 0)>>, NoGroup)

HangFrom(row) == [NoGen EXCEPT !.parent = row.id, !.root = row.root, !.seq = row.seq]

\* Prompt: store the root node; the request is its message alone.
Prompt(c) ==
  /\ Goto(c, "idle", "opening")
  /\ CreateNode(RootRow(c))
  /\ gen' = [gen EXCEPT ![c] = HangFrom(RootRow(c))]
  /\ UNCHANGED <<toolIndex, ask, last, events, faults, deletes>>

\* Nodes a caller can name: those a NodeSaved event or the tree endpoints
\* told it of.  A deleted node can still be named.
Announced == {last[c] : c \in {d \in Calls : "saved" \in ToSet(events[d])}}
Targets == IF AnyNode THEN DOMAIN nodes \cup Announced ELSE Announced

\* A caller answers any part of the tool uses of the node it continues
\* from, or just writes text.
Replies(c, p) ==
  {<<Text(c, 0)>>} \cup
  {SetToSeq({Result(t) : t \in r}) : r \in SUBSET UsesIn(nodes[p].content) \ {{}}}

\* PromptFrom, its first statement: GetAncestors of the node p.
PromptFrom(c) ==
  /\ Goto(c, "idle", "found")
  /\ \E p \in Targets \cap DOMAIN nodes : \E m \in Replies(c, p) :
       ask' = [ask EXCEPT ![c] = [NoAsk EXCEPT !.anc = GetAncestors(p), !.target = p, !.msg = m]]
  /\ UNCHANGED <<storeVars, gen, last, events, faults, deletes>>

\* No rows ("node not found"), or the statement fails.
PromptFromFails(c) ==
  /\ Goto(c, "idle", "failed")
  /\ \/ Targets \ DOMAIN nodes # {} /\ UNCHANGED faults
     \/ Targets # {} /\ StoreFault
  /\ UNCHANGED <<storeVars, ask, gen, last, events, deletes>>

\* Seeded fault: numbered from the root instead of from the parent.
UserRowAfterRoot(c) ==
  LET a == ask[c].anc
  IN  Row("user", ask[c].target, FirstOf(a), a[FirstOf(a)].seq + 1, ask[c].msg, NoGroup)

\* Seeded fault: the parent taken for the root.
UserRowOwnTree(c) ==
  LET a == ask[c].anc
  IN  Row("user", ask[c].target, LastOf(a), a[LastOf(a)].seq + 1, ask[c].msg, NoGroup)

\* userNode: below the node the path was read for, in the tree of the first
\* row of the path, one after its last row.
UserRow(c) ==
  LET a == ask[c].anc
  IN  Row("user", ask[c].target, FirstOf(a), a[LastOf(a)].seq + 1, ask[c].msg, NoGroup)

CreateUser(c) ==
  /\ Goto(c, "found", IF ResultsIn(ask[c].msg) = {} THEN "checking" ELSE "indexing")
  /\ CreateNode(UserRow(c))
  /\ ask' = [ask EXCEPT ![c].user = nextId]
  /\ gen' = [gen EXCEPT ![c] = HangFrom(UserRow(c))]
  /\ UNCHANGED <<toolIndex, last, events, faults, deletes>>

\* Creating the root or the user node fails: the call returns an error.
CreateFails(c) ==
  /\ Goto(c, "idle", "failed") \/ Goto(c, "found", "failed")
  /\ StoreFault
  /\ ask' = [ask EXCEPT ![c] = NoAsk]
  /\ UNCHANGED <<storeVars, gen, last, events, deletes>>

\* Index the tool results of the new message; a failure is ignored.
IndexResults(c) ==
  /\ Goto(c, "indexing", "checking")
  /\ \/ IndexToolIDs(ask[c].user, ResultsIn(ask[c].msg), "result") /\ UNCHANGED faults
     \/ StoreFault /\ UNCHANGED toolIndex
  /\ UNCHANGED <<nodes, nextId, ask, gen, last, events, deletes>>

\* Ids of the ancestors and of the new user node.
PathIds(c) == DOMAIN ask[c].anc \cup {ask[c].user}

CheckOrphans(c) ==
  /\ Goto(c, "checking", "opening")
  /\ ask' = [ask EXCEPT ![c].orphans = GetOrphanedToolUses(PathIds(c))]
  /\ UNCHANGED <<storeVars, gen, last, events, faults, deletes>>

\* The query fails: the call returns an error, the user node stays.
CheckFails(c) ==
  /\ Goto(c, "checking", "failed") /\ StoreFault
  /\ ask' = [ask EXCEPT ![c] = NoAsk] /\ Return(c)
  /\ UNCHANGED <<storeVars, last, events, deletes>>

\* The first Provider.Stream.
OpenStream(c) ==
  /\ Goto(c, "opening", "streaming")
  /\ ask' = [ask EXCEPT ![c] = NoAsk]
  /\ UNCHANGED <<storeVars, gen, last, events, faults, deletes>>

\* It fails: the call returns an error, the user node stays unanswered.
OpenFails(c) ==
  /\ Goto(c, "opening", "failed")
  /\ ask' = [ask EXCEPT ![c] = NoAsk] /\ Return(c)
  /\ UNCHANGED <<storeVars, last, events, faults, deletes>>

-----------------------------------------------------------------------------
(***************************************************************************)
(* The streaming goroutine of streamResponse.                              *)
(***************************************************************************)
Errors(o) == IF o.err THEN <<"error">> ELSE <<>>
Piece(c, o, n) == IF o.text = "empty" THEN <<>> ELSE <<Text(c, n)>>
UseBlocks(o) == SetToSeq({Use(t) : t \in o.uses})

\* hasUsableContent and hasNonTextBlocks
Usable(o) == o.text = "words" \/ o.uses # {}
NonText(o) == o.uses # {}

\* Nothing arrived at all.
EmptyStream(o) == o.stop = "none" /\ o.text = "empty"
\* Truncated before anything usable arrived.
UselessStream(o) == o.stop = "max_tokens" /\ ~Usable(o)

\* Seeded fault: only the tokens of the last response are held against the
\* budget.
ContinueByResponse(o, total) ==
  o.stop = "max_tokens" /\ ~NonText(o) /\ o.tokens < GroupBudget

\* max_tokens, text only, and the group still within its budget.
ShouldContinue(o, total) ==
  o.stop = "max_tokens" /\ ~NonText(o) /\ total < GroupBudget

UsedToolIds ==
  {e.tool : e \in toolIndex}
  \cup (UNION {UsesIn(nodes[n].content) \cup ResultsIn(nodes[n].content) : n \in DOMAIN nodes})
  \cup (UNION {ResultsIn(ask[d].msg) : d \in Calls})
  \cup (UNION {gen[d].resp.uses : d \in Calls})

Delivers(c, o) ==
  /\ pc[c] = "streaming"
  /\ FreshToolIds => \A t \in o.uses : t \notin UsedToolIds

\* Seeded fault: the return is forgotten, and the loop goes round again.
DrainNothingLoops(c) ==
  \E o \in Outcomes :
    /\ Delivers(c, o) /\ (EmptyStream(o) \/ UselessStream(o))
    /\ Goto(c, "streaming", "continuing")
    /\ UNCHANGED <<storeVars, ask, gen, last, events, faults, deletes>>

\* The stream delivered nothing to save: end with the node saved by an
\* earlier round, or with nothing (empty) or an Error event (truncated).
DrainNothing(c) ==
  \E o \in Outcomes :
    /\ Delivers(c, o) /\ (EmptyStream(o) \/ UselessStream(o))
    /\ Goto(c, "streaming", "closed")
    /\ Emit(c, Errors(o) \o (IF last[c] # NoNode THEN <<"saved">>
                             ELSE IF UselessStream(o) THEN <<"error">> ELSE <<>>))
    /\ Return(c)
    /\ UNCHANGED <<storeVars, ask, last, faults, deletes>>

\* accumulatedText, cumulativeOutputToks and groupID after a round.
Accumulate(c, o) ==
  [gen[c] EXCEPT !.acc = @ \o Piece(c, o, Len(@) + 1),
                 !.tokens = @ + o.tokens,
                 !.group = IF ShouldContinue(o, gen[c].tokens + o.tokens) THEN c ELSE @,
                 !.resp = o]

Drain(c) ==
  \E o \in Outcomes :
    /\ Delivers(c, o) /\ ~EmptyStream(o) /\ ~UselessStream(o)
    /\ Goto(c, "streaming", "saving")
    /\ Emit(c, Errors(o))
    /\ gen' = [gen EXCEPT ![c] = Accumulate(c, o)]
    /\ UNCHANGED <<storeVars, ask, last, faults, deletes>>

\* Seeded fault: every round stores its own text only.
ContentOfRound(c) ==
  Piece(c, gen[c].resp, Len(gen[c].acc)) \o UseBlocks(gen[c].resp)

\* nodeContent: with tool_use blocks the blocks of this response, otherwise
\* all text accumulated in the call.
NodeContent(c) ==
  IF NonText(gen[c].resp)
  THEN Piece(c, gen[c].resp, Len(gen[c].acc)) \o UseBlocks(gen[c].resp)
  ELSE gen[c].acc

\* Seeded fault: currentParent is not moved on.
AssistantRowBelowRoot(c) ==
  Row("assistant", gen[c].root, gen[c].root, gen[c].seq + 1, NodeContent(c), gen[c].group)

\* assistantNode
AssistantRow(c) ==
  Row("assistant", gen[c].parent, gen[c].root, gen[c].seq + 1, NodeContent(c), gen[c].group)

\* currentParent = assistantNode
Advance(c) == [gen[c] EXCEPT !.parent = nextId, !.seq = @ + 1]

Save(c) ==
  LET g == gen[c]
      cont == ShouldContinue(g.resp, g.tokens) IN
  /\ Goto(c, "saving", IF NonText(g.resp) THEN "indexingUse"
                       ELSE IF cont THEN "continuing" ELSE "closed")
  /\ CreateNode(AssistantRow(c))
  /\ last' = [last EXCEPT ![c] = nextId]
  /\ CASE cont -> gen' = [gen EXCEPT ![c] = Advance(c)]
       [] NonText(g.resp) -> UNCHANGED gen
       [] OTHER -> Return(c)
  /\ Emit(c, IF NonText(g.resp) \/ cont THEN <<>> ELSE <<"saved">>)
  /\ UNCHANGED <<toolIndex, ask, faults, deletes>>

SaveFails(c) ==
  /\ Goto(c, "saving", "closed") /\ StoreFault
  /\ Emit(c, <<"error">>) /\ Return(c)
  /\ UNCHANGED <<storeVars, ask, last, deletes>>

\* Index the tool uses of the saved node; a failure is ignored.
IndexUses(c) ==
  /\ Goto(c, "indexingUse", "closed")
  /\ \/ IndexToolIDs(last[c], gen[c].resp.uses, "use") /\ UNCHANGED faults
     \/ StoreFault /\ UNCHANGED toolIndex
  /\ Emit(c, <<"saved">>) /\ Return(c)
  /\ UNCHANGED <<nodes, nextId, ask, last, deletes>>

\* The next round of the output group.
Continue(c) ==
  /\ Goto(c, "continuing", "streaming")
  /\ UNCHANGED <<storeVars, ask, gen, last, events, faults, deletes>>

\* Its Provider.Stream fails: the node saved last is the answer.
ContinueFails(c) ==
  /\ Goto(c, "continuing", "closed")
  /\ Emit(c, <<"saved">>) /\ Return(c)
  /\ UNCHANGED <<storeVars, ask, last, faults, deletes>>

-----------------------------------------------------------------------------
\* Client.DeleteNode or DELETE /nodes/{id}.  Resolving the id first changes
\* nothing: deleting a node that has gone meanwhile deletes no row.
Delete ==
  /\ deletes < MaxDeletes /\ deletes' = deletes + 1
  /\ \E n \in DOMAIN nodes : DeleteNode(n)
  /\ UNCHANGED <<callVars, faults>>

\* What runs by itself once the call was made.
Work(c) ==
  \/ CreateUser(c) \/ IndexResults(c) \/ CheckOrphans(c) \/ OpenStream(c) \/ OpenFails(c)
  \/ DrainNothing(c) \/ Drain(c) \/ Save(c) \/ IndexUses(c) \/ Continue(c) \/ ContinueFails(c)

Next ==
  \/ \E c \in Calls : \/ Prompt(c) \/ PromptFrom(c) \/ Work(c)
                      \/ PromptFromFails(c) \/ CreateFails(c) \/ CheckFails(c) \/ SaveFails(c)
  \/ Delete

Spec == Init /\ [][Next]_vars

\* Calls are made or not, statements fail or not, nodes are deleted or not;
\* but a goroutine that can run does, and a provider stream ends.
FairSpec == Spec /\ \A c \in Calls : WF_vars(Work(c))

-----------------------------------------------------------------------------
(***************************************************************************)
(* Types.                                                                  *)
(***************************************************************************)
BlockType == [kind : {"text"}, from : Calls, n : Nat]
             \cup [kind : {"use", "result"}, from : ToolIds, n : {0, 1}]
RowType == [id : NodeId, parent : Nat, root : Nat, seq : Nat,
            type : {"user", "assistant"}, content : Seq(BlockType),
            group : Calls \cup {NoGroup}]
IndexType == [node : NodeId, tool : ToolIds, role : {"use", "result"}]
Phases == {"idle", "found", "indexing", "checking", "opening", "streaming",
           "saving", "indexingUse", "continuing", "closed", "failed"}

StoreOK ==
  /\ nextId \in NodeId
  /\ DOMAIN nodes \subseteq 1 .. nextId - 1
  /\ \A n \in DOMAIN nodes : nodes[n] \in RowType
  /\ toolIndex \subseteq IndexType

GenOK(g) ==
  /\ DOMAIN g = DOMAIN NoGen
  /\ g.parent \in Nat /\ g.root \in Nat /\ g.seq \in Nat
  /\ g.acc \in Seq(BlockType)
  /\ g.tokens \in Nat
  /\ g.group \in Calls \cup {NoGroup}
  /\ g.resp \in Outcomes \cup {NoOutcome}

AskOK(a) ==
  /\ DOMAIN a = DOMAIN NoAsk
  /\ DOMAIN a.anc \subseteq 1 .. nextId - 1
  /\ \A n \in DOMAIN a.anc : a.anc[n] \in RowType
  /\ a.target \in Nat /\ a.user \in Nat
  /\ a.msg \in Seq(BlockType) /\ a.orphans \subseteq IndexType

\* The values of every variable are of the kind the code declares.
TypeOK ==
  /\ StoreOK
  /\ pc \in [Calls -> Phases]
  /\ DOMAIN ask = Calls /\ \A c \in Calls : AskOK(ask[c])
  /\ DOMAIN gen = Calls /\ \A c \in Calls : GenOK(gen[c])
  /\ last \in [Calls -> Nat]
  /\ events \in [Calls -> Seq({"saved", "error"})]
  /\ faults \in Nat
  /\ deletes \in Nat

(***************************************************************************)
(* The tree.                                                               *)
(***************************************************************************)

\* A node's sequence number is its parent's plus one as long as the parent
\* is stored, whatever was deleted or created between the read of the path
\* and the insert: this is what makes ORDER BY sequence in GetAncestors list
\* a path root first.
ChildFollowsParent ==
  \A n \in DOMAIN nodes :
    nodes[n].parent \in DOMAIN nodes => nodes[n].seq = nodes[nodes[n].parent].seq + 1

\* Whatever the calls do together, the store is an append-only tree (see
\* ConversationTree).
AppendOnlyTree ==
  INSTANCE ConversationTree WITH tree <- nodes, used <- 1 .. nextId - 1, NoParent <- NoNode

AppendOnly == AppendOnlyTree!TreeSpec

\* A path that still reaches a root node reaches the node root_id names: a
\* concurrent deletion never makes the O(1) root lookup name a node of
\* another tree.
RootIsTopAncestor ==
  \A n \in DOMAIN nodes :
    LET rows == GetAncestors(n)
    IN  rows[FirstOf(rows)].parent = NoNode => nodes[n].root = FirstOf(rows)

\* handleGetTree: "returns the full conversation tree containing the given
\* node", found through root_id.
TreeContainsNode ==
  \A n \in DOMAIN nodes : n \in SubtreeIds(nodes[n].root)

(***************************************************************************)
(* Output groups.                                                          *)
(***************************************************************************)
GroupNodes(c) == {n \in DOMAIN nodes : nodes[n].group = c}

\* Of two text-only nodes of one output group the later one starts with all
\* the text of the earlier one, so that dropping the earlier one from the
\* history loses nothing.
TextGroupSelfContained ==
  \A c \in Calls : \A m, n \in GroupNodes(c) :
    /\ m < n
    /\ Blocks(nodes[m].content, "use") = {}
    /\ Blocks(nodes[n].content, "use") = {}
    => IsPrefix(nodes[m].content, nodes[n].content)

\* buildMessages: "each continuation node stores all accumulated content, so
\* it is self-contained", whatever ends the group.
GroupSelfContained ==
  \A c \in Calls : \A m, n \in GroupNodes(c) :
    m < n => ToSet(nodes[m].content) \subseteq ToSet(nodes[n].content)

\* With at least one output token per truncated response, the budget bounds
\* how many nodes a group stores.
GroupWithinBudget ==
  \A c \in Calls : Cardinality(GroupNodes(c)) <= GroupBudget

\* A client that continues from the node a call announced continues the
\* whole answer: every node of the call's group is on the path to it, and
\* none is stored later.
AnnouncedIsWhole ==
  \A c \in Calls :
    "saved" \in ToSet(events[c]) /\ deletes = 0 => GroupNodes(c) \subseteq AncestorIds(last[c])

(***************************************************************************)
(* The request of a call that continues a conversation.                    *)
(***************************************************************************)
Request(c) == RequestMessages(ask[c].anc, ask[c].orphans, ask[c].msg)
Sent(c) == pc[c] = "opening" /\ ask[c] # NoAsk

\* Roles alternate, the user speaks last, and first if the path reaches the
\* root.
RolesAlternate ==
  \A c \in Calls : Sent(c) =>
    LET r == Request(c) IN
    /\ \A i \in 1 .. Len(r) - 1 : r[i].role # r[i + 1].role
    /\ r[Len(r)].role = "user"
    /\ ask[c].anc[FirstOf(ask[c].anc)].parent = NoNode => r[1].role = "user"

\* Everything said on the path is sent exactly once, except the text of an
\* output group that ends in tool use.
EachPieceOnce ==
  \A c \in Calls : Sent(c) =>
    LET r    == Request(c)
        sent == FlattenSeq([i \in DOMAIN r |-> r[i].content])
        said == (UNION {ToSet(ask[c].anc[n].content) : n \in DOMAIN ask[c].anc}) \cup ToSet(ask[c].msg)
        lost == said \ ToSet(sent)
    IN  /\ \A i, j \in DOMAIN sent : sent[i] = sent[j] => i = j
        /\ \A b \in lost : \E n \in DOMAIN ask[c].anc :
             ask[c].anc[n].group = b.from /\ UsesIn(ask[c].anc[n].content) # {}

\* Every tool_use block is answered in the message right after it: by the
\* caller's tool_result or by a synthetic one, and by one of them only.
ToolUsesAnswered ==
  \A c \in Calls : Sent(c) =>
    LET r == Request(c) IN
    \A i \in DOMAIN r : r[i].role = "assistant" =>
      \A t \in UsesIn(r[i].content) :
        Cardinality({j \in DOMAIN r[i + 1].content :
                       r[i + 1].content[j] \in {Result(t), Synthetic(t)}}) = 1

(***************************************************************************)
(* What the caller sees.                                                   *)
(***************************************************************************)

\* Every call that was made ends: its channel is closed or it returned an
\* error.
EveryCallEnds ==
  \A c \in Calls : pc[c] # "idle" ~> pc[c] \in {"closed", "failed"}

=============================================================================
