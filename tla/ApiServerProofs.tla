--------------------------- MODULE ApiServerProofs ---------------------------
(***************************************************************************)
(* A theorem about ApiServer, for every set of scenes and any number of    *)
(* requests: a client that is given a node has what its own call stored.   *)
(*                                                                         *)
(* A call's pieces of text are in its feed or with its handler (FeedKnown),*)
(* the row it saved stays as it is (SavedKnown), the handler answers for   *)
(* that row when it has heard everything (HandlerKnown), and a message     *)
(* with a node is the last that has text (WireKnown, SdkKnown).            *)
(***************************************************************************)
EXTENDS ApiServer, TLAPS, FiniteSetTheorems

IsList(s) == s \in Seq(ToSet(s))

\* Every request has its handler, its call, its connection and its client.
ApiShape ==
  /\ setting \in Scenes
  /\ DOMAIN handler = Requests /\ DOMAIN call = Requests
  /\ DOMAIN wire = Requests /\ DOMAIN sdk = Requests
  /\ \A r \in Requests :
       /\ DOMAIN handler[r] = {"pc", "name", "then", "content", "node"}
       /\ DOMAIN call[r] = {"pc", "pieces", "feed", "node", "content"}
       /\ DOMAIN wire[r] = {"msgs", "state"}
       /\ DOMAIN sdk[r] = {"pc", "content", "node", "error", "status"}

\* Ids are handed out in order, and only aliases somebody asked for exist.
TablesKnown ==
  /\ nextId \in NodeId
  /\ DOMAIN setting.nodes \subseteq 1 .. nextId - 1
  /\ DOMAIN nodes \subseteq 1 .. nextId - 1 /\ DOMAIN nodes \subseteq DOMAIN Uuids
  /\ DOMAIN aliases \subseteq AliasesOf(setting)

\* The pieces of text a handler has heard, and those still in the feed.
Listened(r) == handler[r].content[3]
Unheard(r)  == call[r].pieces - Listened(r)

\* What a call has to say are its pieces, in front, and the node it saved, last.
FeedKnown(r) ==
  LET feed == call[r].feed
  IN /\ call[r].pc \in {"none", "open", "closed"} /\ call[r].pieces \in Nat
     /\ Listened(r) \in Nat /\ handler[r].content = Text(r, Listened(r))
     /\ IsList(feed) /\ Unheard(r) \in 0 .. Len(feed)
     /\ \A i \in 1 .. Len(feed) :
          /\ feed[i].type = "delta" <=> i <= Unheard(r)
          /\ feed[i].type = "saved" =>
               i = Len(feed) /\ feed[i].node = call[r].node /\ call[r].content # Nothing
     /\ call[r].pc = "none" => feed = <<>> /\ call[r].pieces = 0
     /\ call[r].pc = "open" => Len(feed) = Unheard(r)

\* What a call saved is stored until it is deleted, under an id that is new.
SavedKnown(r) ==
  LET id == call[r].node
  IN call[r].content # Nothing =>
       /\ call[r].pc = "closed"
       /\ id \in 1 .. nextId - 1 /\ id \in DOMAIN Uuids /\ id \notin DOMAIN setting.nodes
       /\ id \in DOMAIN nodes => nodes[id].content = call[r].content

\* A handler drains the call it has started.  It answers when all of that was
\* heard, and for the node that was saved.
HandlerKnown(r) ==
  LET h == handler[r]
  IN /\ h.then \in {"act", "answer"}
     /\ h.pc \in {"new", "call", "act"} => call[r].pc = "none"
     /\ h.pc \in {"exact", "prefix", "alias"} /\ h.then = "act" => call[r].pc = "none"
     /\ h.pc = "drain" => call[r].pc # "none"
     /\ (h.pc = "drain" \/ h.then = "answer") /\ h.node # NoNode =>
          h.node = call[r].node /\ call[r].content # Nothing
     /\ h.then = "answer" =>
          /\ call[r].pc = "closed" /\ call[r].feed = <<>>
          /\ Req(r).stream => h.node # NoNode
          /\ h.node # NoNode => h.name = Spelled(h.node)

\* The node a call saved, with all of its content.
Own(r, node, content) ==
  /\ call[r].content # Nothing /\ call[r].feed = <<>>
  /\ node = call[r].node /\ content \in {call[r].content, Text(r, call[r].pieces)}

\* A message that names a node gives the call's own answer, and no piece of
\* the text comes after it.
WireKnown(r) ==
  LET m == wire[r].msgs
  IN /\ IsList(m)
     /\ \A i \in 1 .. Len(m) :
          /\ m[i].node # NoNode => Own(r, m[i].node, m[i].content)
          /\ m[i].type = "done" => m[i].node # NoNode
          /\ m[i].type = "delta" => Listened(r) # 0 /\ \A j \in 1 .. i : m[j].node = NoNode

\* So does the client once it has a node; before, it has what it has read.
SdkKnown(r) ==
  /\ sdk[r].node # NoNode =>
       /\ Own(r, sdk[r].node, sdk[r].content)
       /\ \A i \in 1 .. Len(wire[r].msgs) : wire[r].msgs[i].type # "delta"
  /\ sdk[r].pc = "sent" /\ sdk[r].node = NoNode /\ Listened(r) = 0 => sdk[r].content = Nothing

Kept(r) == FeedKnown(r) /\ SavedKnown(r) /\ HandlerKnown(r) /\ WireKnown(r) /\ SdkKnown(r)

ApiInv == ApiShape /\ TablesKnown /\ \A r \in Requests : Prompts(r) => Kept(r)

-----------------------------------------------------------------------------
(***************************************************************************)
(* Lists and texts.                                                        *)
(***************************************************************************)
\* The members of a list.
LEMMA ListFacts ==
  ASSUME NEW s, IsList(s)
  PROVE  /\ Len(s) \in Nat /\ DOMAIN s = 1 .. Len(s)
         /\ s = <<>> <=> Len(s) = 0
         /\ s # <<>> => Head(s) = s[1] /\ 1 \in 1 .. Len(s)
BY DEF IsList

\* The empty list.
LEMMA EmptyList == IsList(<<>>) /\ Len(<<>>) = 0
<1>1. \A T : <<>> \in Seq(T)
  OBVIOUS
<1> QED BY <1>1 DEF IsList

\* A list with one more member.
LEMMA ListAppend ==
  ASSUME NEW s, IsList(s), NEW e
  PROVE  LET t == Append(s, e) IN
         /\ IsList(t) /\ Len(t) = Len(s) + 1 /\ t # <<>>
         /\ t[Len(s) + 1] = e /\ \A i \in 1 .. Len(s) : t[i] = s[i]
<1> DEFINE T == ToSet(s) \cup {e}
           t == Append(s, e)
<1>1. s \in Seq(T) /\ e \in T
  BY DEF IsList
<1> HIDE DEF T
<1>2. /\ t \in Seq(T) /\ Len(t) = Len(s) + 1 /\ Len(s) \in Nat
      /\ t[Len(s) + 1] = e /\ \A i \in 1 .. Len(s) : t[i] = s[i]
  BY <1>1
<1> HIDE DEF t
<1>3. t \in Seq(ToSet(t)) /\ t # <<>>
  BY <1>2 DEF ToSet
<1> QED BY <1>2, <1>3 DEF t, IsList

\* A list without its first member.
LEMMA ListTail ==
  ASSUME NEW s, IsList(s), s # <<>>
  PROVE  LET t == Tail(s) IN
         /\ IsList(t) /\ Len(s) = Len(t) + 1 /\ Len(t) \in Nat
         /\ \A i \in 1 .. Len(t) : t[i] = s[i + 1]
<1> DEFINE T == ToSet(s)
           t == Tail(s)
<1>1. s \in Seq(T)
  BY DEF IsList
<1> HIDE DEF T
<1>2. /\ t \in Seq(T) /\ Len(s) = Len(t) + 1 /\ Len(t) \in Nat
      /\ \A i \in 1 .. Len(t) : t[i] = s[i + 1]
  BY <1>1
<1> HIDE DEF t
<1>3. t \in Seq(ToSet(t))
  BY <1>2 DEF ToSet
<1> QED BY <1>2, <1>3 DEF t, IsList

\* The beginning of a list.
LEMMA ListFront ==
  ASSUME NEW s, IsList(s), NEW k \in 0 .. Len(s)
  PROVE  LET t == SubSeq(s, 1, k) IN
         IsList(t) /\ Len(t) = k /\ \A i \in 1 .. k : t[i] = s[i]
<1> DEFINE T == ToSet(s)
           t == SubSeq(s, 1, k)
<1>1. s \in Seq(T)
  BY DEF IsList
<1> HIDE DEF T
<1>2. t \in Seq(T) /\ Len(t) = k /\ \A i \in 1 .. k : t[i] = s[i]
  BY <1>1
<1> HIDE DEF t
<1>3. t \in Seq(ToSet(t))
  BY <1>2 DEF ToSet
<1> QED BY <1>2, <1>3 DEF t, IsList

\* A list of one member behind another.
LEMMA ListConcatOne ==
  ASSUME NEW s, NEW e, IsList(s)
  PROVE  s \o <<e>> = Append(s, e)
<1> DEFINE T == ToSet(s) \cup {e}
<1>1. s \in Seq(T) /\ e \in T
  BY DEF IsList
<1> HIDE DEF T
<1> QED BY <1>1

\* The empty list behind another.
LEMMA ListEmpty ==
  ASSUME NEW s, IsList(s)
  PROVE  s \o <<>> = s
BY DEF IsList

\* The length of a text can be read off it.
LEMMA TextLength ==
  ASSUME NEW r, NEW n \in Nat
  PROVE  Text(r, n)[3] = n /\ (Text(r, n) = Nothing <=> n = 0) /\ Blocks(r) # Nothing
BY DEF Text, Nothing, Blocks

\* Of the messages only an answer and a piece of text have more than a status.
LEMMA MessageFields ==
  /\ \A type, node, content :
       LET m == Message(type, node, content) IN
       m.type = type /\ m.node = node /\ m.content = content
  /\ \A status : Failure(status).node = NoNode /\ Failure(status).type = "reply"
  /\ \A node, list : Listing(node, list).node = node /\ Listing(node, list).type = "reply"
BY DEF Message, Failure, Listing

-----------------------------------------------------------------------------
(***************************************************************************)
(* What a step leaves alone.                                               *)
(***************************************************************************)
\* Rows are added and deleted, and no id is given twice.
RowsStay ==
  /\ nextId' \in NodeId /\ nextId <= nextId' /\ setting' = setting
  /\ \A n \in 1 .. nextId - 1 : n \in DOMAIN nodes' => n \in DOMAIN nodes /\ nodes'[n] = nodes[n]

\* Of everything only what belongs to one request has changed.
OthersStay(r) ==
  \A q \in Requests \ {r} :
    handler'[q] = handler[q] /\ call'[q] = call[q] /\ wire'[q] = wire[q] /\ sdk'[q] = sdk[q]

\* No step of the tables touches a row that is there, but to delete it.
LEMMA TablesStep ==
  ASSUME setting \in Scenes, TablesKnown, setting' = setting,
         \/ (\E row : CreateNode(row)) /\ HasId
         \/ \E n : DeleteNode(n)
         \/ UNCHANGED <<nodes, nextId>>,
         \/ UNCHANGED aliases
         \/ \E r \in Requests : \E n : CreateAlias(n, Req(r).alias)
         \/ \E a : DeleteAlias(a)
  PROVE  TablesKnown' /\ RowsStay
<1>1. DOMAIN aliases' \subseteq AliasesOf(setting)
  <2>1. ASSUME NEW r \in Requests, NEW n, CreateAlias(n, Req(r).alias)
        PROVE  DOMAIN aliases' \subseteq DOMAIN aliases \cup {Req(r).alias}
    BY <2>1 DEF CreateAlias
  <2>2. \A r \in Requests : Req(r).alias \in AliasesOf(setting)
    BY DEF AliasesOf, Requests, Req
  <2>3. ASSUME NEW a, DeleteAlias(a) PROVE DOMAIN aliases' \subseteq DOMAIN aliases
    BY <2>3 DEF DeleteAlias
  <2> QED BY <2>1, <2>2, <2>3 DEF TablesKnown
<1>2. CASE (\E row : CreateNode(row)) /\ HasId
  BY <1>1, <1>2 DEF CreateNode, HasId, TablesKnown, RowsStay, NodeId
<1>3. CASE \E n : DeleteNode(n)
  <2>1. PICK n : DeleteNode(n)
    BY <1>3
  <2>2. /\ DOMAIN nodes' \subseteq DOMAIN nodes
        /\ \A m \in DOMAIN nodes' : nodes'[m] = nodes[m]
        /\ nextId' = nextId
    BY <2>1 DEF DeleteNode
  <2> QED BY <1>1, <2>2 DEF TablesKnown, RowsStay, NodeId
<1>4. CASE UNCHANGED <<nodes, nextId>>
  BY <1>1, <1>4 DEF TablesKnown, RowsStay, NodeId
<1> QED BY <1>2, <1>3, <1>4

\* What is known of a request stays when only other requests do something.
LEMMA UntouchedKept ==
  ASSUME NEW r, Kept(r), RowsStay, nextId \in NodeId, call'[r] = call[r],
         handler'[r] = handler[r], wire'[r].msgs = wire[r].msgs, sdk'[r] = sdk[r]
  PROVE  Kept(r)'
<1>1. FeedKnown(r)'
  BY DEF Kept, FeedKnown, Listened, Unheard
<1>2. SavedKnown(r)'
  BY DEF Kept, SavedKnown, RowsStay, NodeId
<1>3. HandlerKnown(r)'
  BY DEF Kept, HandlerKnown, RowsStay, Req, Spelled
<1>4. WireKnown(r)' /\ SdkKnown(r)'
  BY DEF Kept, WireKnown, SdkKnown, Own, Listened
<1> QED BY <1>1, <1>2, <1>3, <1>4 DEF Kept

\* What is left to show of a step of one request.
LEMMA OneMoves ==
  ASSUME ApiInv, NEW r \in Requests, ApiShape', TablesKnown', RowsStay, OthersStay(r),
         Prompts(r) => Kept(r)'
  PROVE  ApiInv'
<1>1. Requests' = Requests /\ \A q \in Requests : Prompts(q)' <=> Prompts(q)
  BY DEF RowsStay, Requests, Prompts, Req
<1>2. ASSUME NEW q \in Requests, Prompts(q), q # r PROVE Kept(q)'
  <2>1. Kept(q) /\ nextId \in NodeId
    BY <1>2 DEF ApiInv, TablesKnown
  <2> QED BY <1>2, <2>1, UntouchedKept DEF OthersStay
<1> QED BY <1>1, <1>2 DEF ApiInv

\* A statement writes at most one message.
LEMMA WritesGrow ==
  ASSUME ApiShape, NEW r \in Requests, NEW m, Writes(r, m) \/ WritesLast(r, m)
  PROVE  /\ DOMAIN wire' = Requests /\ \A q \in Requests : DOMAIN wire'[q] = {"msgs", "state"}
         /\ \A q \in Requests \ {r} : wire'[q] = wire[q]
         /\ wire'[r].msgs \in {wire[r].msgs, Append(wire[r].msgs, m)}
BY DEF ApiShape, Writes, WritesLast, Connected

-----------------------------------------------------------------------------
(***************************************************************************)
(* What a handler writes.                                                  *)
(***************************************************************************)
\* A message that may be written now.
MayWrite(r, m) ==
  /\ m.node # NoNode => Own(r, m.node, m.content)
  /\ m.type = "done" => m.node # NoNode
  /\ m.type # "delta"

\* One more message leaves what is known of the connection and of the client.
LEMMA MessageKept ==
  ASSUME NEW r, WireKnown(r), SdkKnown(r), NEW m, sdk'[r] = sdk[r],
         wire'[r].msgs \in {wire[r].msgs, Append(wire[r].msgs, m)},
         \A n, c : Own(r, n, c) => Own(r, n, c)',
         Listened(r) # 0 => Listened(r)' # 0,
         m.node # NoNode => Own(r, m.node, m.content)',
         m.type = "done" => m.node # NoNode,
         m.type = "delta" => Listened(r)' # 0 /\ m.node = NoNode /\ \A n, c : ~ Own(r, n, c)
  PROVE  WireKnown(r)' /\ SdkKnown(r)'
<1> DEFINE msgs == wire[r].msgs
<1>1. IsList(msgs) /\ Len(msgs) \in Nat
  BY ListFacts DEF WireKnown
<1>2. CASE msgs' = msgs
  BY <1>2 DEF WireKnown, SdkKnown
<1>3. CASE msgs' = Append(msgs, m)
  <2>1. /\ IsList(msgs') /\ Len(msgs') = Len(msgs) + 1 /\ msgs'[Len(msgs) + 1] = m
        /\ \A i \in 1 .. Len(msgs) : msgs'[i] = msgs[i]
    <3> HIDE DEF msgs
    <3> QED BY <1>1, <1>3, ListAppend
  <2>2. WireKnown(r)'
    <3>1. ASSUME NEW i \in 1 .. Len(msgs)
          PROVE  /\ \A n, c : n = msgs[i].node /\ c = msgs[i].content /\ n # NoNode => Own(r, n, c)'
                 /\ msgs[i].type = "done" => msgs[i].node # NoNode
                 /\ msgs[i].type = "delta" =>
                      Listened(r)' # 0 /\ \A j \in 1 .. i : msgs[j].node = NoNode
      BY DEF WireKnown
    <3>2. m.type = "delta" => \A j \in 1 .. Len(msgs) : msgs[j].node = NoNode
      BY DEF WireKnown
    <3>3. ASSUME NEW i \in 1 .. Len(msgs')
          PROVE  /\ msgs'[i].node # NoNode => Own(r, msgs[i].node, msgs[i].content)'
                 /\ msgs'[i].type = "done" => msgs'[i].node # NoNode
                 /\ msgs'[i].type = "delta" =>
                      Listened(r)' # 0 /\ \A j \in 1 .. i : msgs'[j].node = NoNode
      <4>1. CASE i \in 1 .. Len(msgs)
        <5>1. msgs'[i] = msgs[i] /\ \A j \in 1 .. i : msgs'[j] = msgs[j]
          BY <1>1, <2>1, <4>1
        <5> QED BY <3>1, <4>1, <5>1
      <4>2. CASE i = Len(msgs) + 1
        <5>1. msgs'[i] = m
          BY <2>1, <4>2
        <5>2. ASSUME m.type = "delta", NEW j \in 1 .. i PROVE msgs'[j].node = NoNode
          <6>1. CASE j = i
            BY <5>1, <5>2, <6>1
          <6>2. CASE j \in 1 .. Len(msgs)
            BY <2>1, <3>2, <5>2, <6>2
          <6> QED BY <1>1, <4>2, <6>1, <6>2
        <5> QED BY <5>1, <5>2
      <4>3. i \in 1 .. Len(msgs) \/ i = Len(msgs) + 1
        <5> HIDE DEF msgs
        <5> QED BY <1>1, <2>1
      <4> QED BY <4>1, <4>2, <4>3
    <3> QED BY <2>1, <3>3 DEF WireKnown
  <2>3. sdk[r].node # NoNode => \A i \in 1 .. Len(msgs') : msgs'[i].type # "delta"
    <3>1. sdk[r].node # NoNode =>
            m.type # "delta" /\ \A i \in 1 .. Len(msgs) : msgs[i].type # "delta"
      BY DEF SdkKnown
    <3> HIDE DEF msgs
    <3> QED BY <1>1, <2>1, <3>1
  <2> QED BY <2>2, <2>3 DEF SdkKnown
<1> QED BY <1>2, <1>3

\* A row was added, and no alias.
RowStored == (\E row : CreateNode(row)) /\ HasId /\ UNCHANGED aliases

\* A handler that goes on, and writes a message at most.
LEMMA HandlerStep ==
  ASSUME ApiInv, NEW r \in Requests, HandlerFrame, UNCHANGED call, UNCHANGED nameVars \/ RowStored,
         NEW m, wire' = wire \/ Writes(r, m) \/ WritesLast(r, m),
         DOMAIN handler' = Requests, DOMAIN handler'[r] = DOMAIN handler[r],
         \A q \in Requests \ {r} : handler'[q] = handler[q],
         handler'[r].content = handler[r].content,
         Prompts(r) => HandlerKnown(r)' /\ (wire' = wire \/ MayWrite(r, m))
  PROVE  ApiInv'
<1>1. ApiShape /\ TablesKnown /\ setting \in Scenes
  BY DEF ApiInv, ApiShape
<1>2. TablesKnown' /\ RowsStay
  BY <1>1, TablesStep DEF HandlerFrame, nameVars, RowStored
<1>3. /\ DOMAIN wire' = Requests /\ \A q \in Requests : DOMAIN wire'[q] = {"msgs", "state"}
      /\ \A q \in Requests \ {r} : wire'[q] = wire[q]
      /\ wire'[r].msgs \in {wire[r].msgs, Append(wire[r].msgs, m)}
  BY <1>1, WritesGrow DEF ApiShape
<1>4. ApiShape' /\ OthersStay(r)
  BY <1>1, <1>3 DEF ApiShape, OthersStay, HandlerFrame, Requests
<1>5. ASSUME Prompts(r) PROVE Kept(r)'
  <2>1. Kept(r)
    BY <1>5 DEF ApiInv
  <2>2. FeedKnown(r)' /\ SavedKnown(r)'
    <3>1. nextId \in NodeId
      BY <1>1 DEF TablesKnown
    <3>2. FeedKnown(r)'
      BY <2>1 DEF Kept, FeedKnown, Listened, Unheard, HandlerFrame
    <3>3. SavedKnown(r)'
      BY <1>2, <2>1, <3>1 DEF Kept, SavedKnown, RowsStay, NodeId
    <3> QED BY <3>2, <3>3
  <2>3. /\ \A n, c : Own(r, n, c)' <=> Own(r, n, c)
        /\ Listened(r)' = Listened(r) /\ sdk'[r] = sdk[r]
    BY DEF Own, Listened, HandlerFrame
  <2>4. WireKnown(r)' /\ SdkKnown(r)'
    <3>1. CASE wire' = wire
      BY <2>1, <2>3, <3>1 DEF Kept, WireKnown, SdkKnown
    <3>2. CASE MayWrite(r, m)
      BY <1>3, <2>1, <2>3, <3>2, MessageKept DEF Kept, MayWrite
    <3> QED BY <1>5, <3>1, <3>2
  <2> QED BY <1>5, <2>2, <2>4 DEF Kept
<1> QED BY <1>2, <1>4, <1>5, OneMoves

\* The name of a node that was saved finds that node or, once it was deleted,
\* none.
LEMMA FindsOwn ==
  ASSUME ApiShape, TablesKnown, NEW r, SavedKnown(r), call[r].content # Nothing,
         NEW name, name = Spelled(call[r].node),
         NEW found \in GetNode(name) \cup GetNodeByPrefix(name) \cup GetNodeByAlias(name)
  PROVE  found = call[r].node /\ nodes[found].content = call[r].content
<1>1. /\ call[r].node \in DOMAIN Uuids /\ call[r].node \notin DOMAIN setting.nodes
      /\ call[r].node \in DOMAIN nodes => nodes[call[r].node].content = call[r].content
  BY DEF SavedKnown
<1>2. DOMAIN nodes \subseteq DOMAIN Uuids
  BY DEF TablesKnown
<1>3. CASE found \in GetNode(name) \cup GetNodeByPrefix(name)
  <2>1. found \in DOMAIN nodes /\ (Uuids[found] = name \/ IsPrefix(name, Uuids[found]))
    BY <1>3 DEF GetNode, GetNodeByPrefix, Spelled
  <2>2. found = call[r].node
    BY <1>1, <1>2, <2>1, SpellingAssumption, Zenon DEF Spelled
  <2> QED BY <1>1, <2>1, <2>2
<1>4. CASE found \in GetNodeByAlias(name)
  <2>1. name \in DOMAIN aliases
    BY <1>4 DEF GetNodeByAlias
  <2>2. Uuids[call[r].node] \in AliasesOf(setting) /\ setting \in Scenes
    BY <2>1 DEF Spelled, TablesKnown, ApiShape
  <2> QED BY <1>1, <2>2, ScenesAssumption
<1> QED BY <1>3, <1>4

\* An answer names no node, or gives what the call stored.
LEMMA AnswerOwn ==
  ASSUME ApiShape, TablesKnown, NEW r, FeedKnown(r), SavedKnown(r), HandlerKnown(r),
         handler[r].then = "answer", NEW name, name = handler[r].name, NEW found,
         \/ found = NoNode
         \/ found \in GetNode(name) \cup GetNodeByPrefix(name) \cup GetNodeByAlias(name)
  PROVE  MayWrite(r, Answer(r, found))
<1> DEFINE m == Answer(r, found)
           held == handler[r].content
           content == IF held # Nothing \/ found = NoNode THEN held ELSE nodes[found].content
<1>1. /\ m.type = IF Req(r).stream THEN "done" ELSE "reply"
      /\ m.node = handler[r].node /\ m.content = content
  BY MessageFields DEF Answer
<1>2. /\ Req(r).stream => m.node # NoNode
      /\ m.node # NoNode => /\ m.node = call[r].node /\ call[r].content # Nothing
                            /\ name = Spelled(call[r].node) /\ call[r].feed = <<>>
  BY <1>1 DEF HandlerKnown
<1>3. held = Text(r, call[r].pieces)
  <2>1. call[r].feed = <<>>
    BY DEF HandlerKnown
  <2> QED BY <2>1, EmptyList DEF FeedKnown, Unheard, Listened
<1>4. m.node # NoNode => content \in {call[r].content, Text(r, call[r].pieces)}
  <2>1. ASSUME m.node # NoNode, found # NoNode PROVE nodes[found].content = call[r].content
    BY <1>2, <2>1, FindsOwn
  <2> QED BY <1>3, <2>1
<1> QED BY <1>1, <1>2, <1>4 DEF MayWrite, Own

-----------------------------------------------------------------------------
(***************************************************************************)
(* The steps of a handler.                                                 *)
(***************************************************************************)
\* A handler in another place.
LEMMA GoesTo ==
  ASSUME ApiShape, NEW r \in Requests, NEW pc, Goes(r, pc)
  PROVE  /\ DOMAIN handler' = Requests /\ DOMAIN handler'[r] = DOMAIN handler[r]
         /\ \A q \in Requests \ {r} : handler'[q] = handler[q]
         /\ handler'[r].pc = pc /\ handler'[r].content = handler[r].content
         /\ handler'[r].then = handler[r].then /\ handler'[r].node = handler[r].node
         /\ handler'[r].name = handler[r].name
BY DEF ApiShape, Goes

\* What is known of a prompt.
LEMMA PromptKept ==
  ASSUME ApiInv, NEW r \in Requests, Prompts(r)
  PROVE  FeedKnown(r) /\ SavedKnown(r) /\ HandlerKnown(r) /\ WireKnown(r) /\ SdkKnown(r)
BY DEF ApiInv, Kept

\* A handler that goes to another place, with nothing new to remember.
LEMMA GoesOn ==
  ASSUME ApiInv, NEW r \in Requests, HandlerFrame, UNCHANGED call, UNCHANGED nameVars \/ RowStored,
         NEW pc, Goes(r, pc),
         pc \in {"over", "call", "act", "exact", "prefix", "alias", "drain"},
         Prompts(r) => \/ pc = "over"
                       \/ call[r].pc = "none" /\ pc # "drain"
                       \/ handler[r].then = "answer" /\ pc \notin {"call", "act"},
         NEW m, wire' = wire \/ Writes(r, m) \/ WritesLast(r, m),
         Prompts(r) => wire' = wire \/ MayWrite(r, m)
  PROVE  ApiInv'
<1>1. ApiShape
  BY DEF ApiInv
<1>2. ASSUME Prompts(r) PROVE HandlerKnown(r)'
  <2>1. HandlerKnown(r) /\ call' = call /\ setting' = setting
    BY <1>2, PromptKept DEF HandlerFrame
  <2> QED BY <1>1, <1>2, <2>1, GoesTo DEF HandlerKnown, Req, Spelled
<1>3. /\ DOMAIN handler' = Requests /\ DOMAIN handler'[r] = DOMAIN handler[r]
      /\ \A q \in Requests \ {r} : handler'[q] = handler[q]
      /\ handler'[r].content = handler[r].content
  BY <1>1, GoesTo
<1> QED BY <1>2, <1>3, HandlerStep

\* The end of a request.
LEMMA ReplyStep ==
  ASSUME ApiInv, NEW r \in Requests, HandlerFrame, UNCHANGED <<call, nameVars>>, NEW m, Reply(r, m),
         Prompts(r) => MayWrite(r, m)
  PROVE  ApiInv'
BY GoesOn DEF Reply

\* An error may always be told.
LEMMA FailureMay == \A r, status : MayWrite(r, Failure(status))
BY MessageFields DEF MayWrite

\* The call of a handler that has not started it.
LEMMA NotStarted ==
  ASSUME ApiInv, NEW r \in Requests, Prompts(r)
  PROVE  /\ handler[r].pc \in {"new", "call", "act"} => call[r].pc = "none" /\ handler[r].then = "act"
         /\ handler[r].pc \in {"exact", "prefix", "alias"} =>
              handler[r].then = "answer" \/ call[r].pc = "none"
BY PromptKept DEF HandlerKnown

\* A request reaches its handler.
LEMMA ArriveStep == ASSUME ApiInv, NEW r \in Requests, Arrive(r) PROVE ApiInv'
<1>1. HandlerFrame /\ UNCHANGED <<call, nameVars>> /\ handler[r].pc = "new"
  BY DEF Arrive, Running
<1>2. CASE ~ Authorized(r)
  BY <1>1, <1>2, ReplyStep, FailureMay DEF Arrive
<1>3. CASE Authorized(r) /\ Prompts(r) /\ ~ Req(r).valid
  BY <1>1, <1>3, ReplyStep, FailureMay DEF Arrive
<1>4. CASE Authorized(r) /\ ~ (Prompts(r) /\ ~ Req(r).valid)
  <2>1. Goes(r, FirstStep(r)) /\ wire' = wire
    BY <1>4 DEF Arrive
  <2>2. FirstStep(r) \in {"call", "act", "exact"}
    BY DEF FirstStep
  <2>3. Prompts(r) => call[r].pc = "none"
    BY <1>1, NotStarted
  <2> QED BY <1>1, <2>1, <2>2, <2>3, GoesOn
<1> QED BY <1>2, <1>3, <1>4

\* What was found is answered with, or worked on.
LEMMA ResolvedStep ==
  ASSUME ApiInv, NEW r \in Requests, HandlerFrame, UNCHANGED <<call, nameVars>>,
         handler[r].pc \in {"exact", "prefix", "alias"}, NEW name, name = handler[r].name, NEW found,
         \/ found = NoNode
         \/ found \in GetNode(name) \cup GetNodeByPrefix(name) \cup GetNodeByAlias(name),
         Resolved(r, found)
  PROVE  ApiInv'
<1>1. ApiShape /\ TablesKnown
  BY DEF ApiInv
<1>2. CASE handler[r].then = "answer"
  <2>1. Prompts(r) => MayWrite(r, Answer(r, found))
    <3>1. Prompts(r) => FeedKnown(r) /\ SavedKnown(r) /\ HandlerKnown(r)
      BY PromptKept
    <3> QED BY <1>1, <1>2, <3>1, AnswerOwn
  <2>2. CASE Req(r).stream
    <3>1. Goes(r, "drain") /\ Writes(r, Answer(r, found))
      BY <1>2, <2>2 DEF Resolved
    <3> QED BY <1>2, <2>1, <3>1, GoesOn
  <2>3. CASE ~ Req(r).stream
    <3>1. Reply(r, Answer(r, found))
      BY <1>2, <2>3 DEF Resolved
    <3> QED BY <2>1, <3>1, ReplyStep
  <2> QED BY <2>2, <2>3
<1>3. CASE handler[r].then # "answer" /\ found = NoNode
  BY <1>3, ReplyStep, FailureMay DEF Resolved
<1>4. CASE handler[r].then # "answer" /\ found # NoNode
  <2>1. /\ handler' = [handler EXCEPT
             ![r].pc = IF Req(r).op = "ask" THEN "call" ELSE "act", ![r].node = found]
        /\ wire' = wire
    BY <1>4, Zenon DEF Resolved
  <2>2. /\ DOMAIN handler' = Requests /\ DOMAIN handler'[r] = DOMAIN handler[r]
        /\ \A q \in Requests \ {r} : handler'[q] = handler[q]
        /\ handler'[r].content = handler[r].content /\ handler'[r].then = handler[r].then
        /\ handler'[r].pc \in {"call", "act"}
    BY <1>1, <2>1 DEF ApiShape
  <2>3. ASSUME Prompts(r) PROVE HandlerKnown(r)'
    <3>1. HandlerKnown(r) /\ call[r].pc = "none" /\ call' = call
      BY <1>4, <2>3, PromptKept, NotStarted
    <3> QED BY <1>4, <2>2, <3>1 DEF HandlerKnown
  <2> QED BY <2>1, <2>2, <2>3, HandlerStep
<1> QED BY <1>2, <1>3, <1>4

\* One statement of ResolveNode, or none of them.
LEMMA LookupStep ==
  ASSUME ApiInv, NEW r \in Requests,
         \/ ResolveExact(r) \/ ResolvePrefix(r) \/ ResolveAlias(r) \/ ResolveFails(r)
  PROVE  ApiInv'
<1> DEFINE name == handler[r].name
           all  == GetNode(name) \cup GetNodeByPrefix(name) \cup GetNodeByAlias(name)
<1>1. ASSUME NEW pc \in {"exact", "prefix", "alias"}, NEW matches \in SUBSET all,
             NEW next \in {"prefix", "alias", "none"}, Lookup(r, pc, matches, next)
      PROVE  ApiInv'
  <2>1. HandlerFrame /\ UNCHANGED <<call, nameVars>> /\ handler[r].pc = pc
    BY <1>1 DEF Lookup, Running
  <2>2. CASE \E n \in matches : Resolved(r, n)
    <3>1. PICK n \in matches : Resolved(r, n)
      BY <2>2
    <3>2. n \in all
      BY <1>1
    <3> QED BY <2>1, <3>1, <3>2, ResolvedStep
  <2>3. CASE next # "none" /\ Goes(r, next) /\ UNCHANGED wire
    <3>1. Prompts(r) => handler[r].then = "answer" \/ call[r].pc = "none"
      BY <2>1, NotStarted
    <3> QED BY <2>1, <2>3, <3>1, GoesOn
  <2>4. CASE Resolved(r, NoNode)
    BY <2>1, <2>4, ResolvedStep
  <2> QED BY <1>1, <2>2, <2>3, <2>4 DEF Lookup
<1>2. ASSUME ResolveFails(r) PROVE ApiInv'
  <2>1. /\ HandlerFrame /\ UNCHANGED <<call, nameVars>>
        /\ handler[r].pc \in {"exact", "prefix", "alias"}
    BY <1>2 DEF ResolveFails, Running
  <2>2. CASE handler[r].then = "answer"
    BY <1>2, <2>1, <2>2, ResolvedStep DEF ResolveFails
  <2>3. CASE handler[r].then # "answer"
    BY <1>2, <2>1, <2>3, ReplyStep, FailureMay DEF ResolveFails
  <2> QED BY <2>2, <2>3
<1>3. /\ GetNode(name) \in SUBSET all /\ GetNodeByPrefix(name) \in SUBSET all
      /\ GetNodeByAlias(name) \in SUBSET all
  OBVIOUS
<1> HIDE DEF all
<1> QED BY <1>1, <1>2, <1>3 DEF ResolveExact, ResolvePrefix, ResolveAlias

\* A statement that fails, or a prompt that cannot be started.
LEMMA FailsStep ==
  ASSUME ApiInv, NEW r \in Requests, ActFails(r) \/ StartFails(r)
  PROVE  ApiInv'
<1>1. CASE ActFails(r)
  BY <1>1, ReplyStep, FailureMay DEF ActFails
<1>2. CASE StartFails(r)
  <2>1. HandlerFrame /\ UNCHANGED call /\ (UNCHANGED nameVars \/ RowStored) /\ Goes(r, "over")
    BY <1>2, Zenon DEF StartFails, RowStored, nameVars
  <2>2. MayWrite(r, Message("error", NoNode, Nothing)) /\ MayWrite(r, Failure(500))
    BY MessageFields DEF MayWrite
  <2>3. WritesLast(r, Message("error", NoNode, Nothing)) \/ WritesLast(r, Failure(500))
    BY <1>2 DEF StartFails, Fails
  <2> QED BY <2>1, <2>2, <2>3, GoesOn
<1> QED BY <1>1, <1>2

\* The statement a request is for; a prompt is for none of these.
LEMMA ActStep == ASSUME ApiInv, NEW r \in Requests, Act(r) PROVE ApiInv'
<1>1. ApiShape /\ TablesKnown /\ setting \in Scenes /\ setting' = setting
  BY DEF ApiInv, ApiShape, Act, HandlerFrame
<1>2. TablesKnown' /\ RowsStay
  <2>1. \/ \E n : DeleteNode(n)
        \/ UNCHANGED <<nodes, nextId>>
    BY DEF Act, nameVars
  <2>2. \/ UNCHANGED aliases
        \/ \E q \in Requests : \E n : CreateAlias(n, Req(q).alias)
        \/ \E a : DeleteAlias(a)
    BY DEF Act, nameVars
  <2> QED BY <1>1, <2>1, <2>2, TablesStep
<1>3. \E m : Goes(r, "over") /\ WritesLast(r, m)
  BY Zenon DEF Act, Reply
<1>4. ApiShape' /\ OthersStay(r)
  <2>1. /\ DOMAIN handler' = Requests /\ DOMAIN handler'[r] = DOMAIN handler[r]
        /\ \A q \in Requests \ {r} : handler'[q] = handler[q]
    BY <1>1, <1>3, GoesTo
  <2>2. /\ DOMAIN wire' = Requests /\ \A q \in Requests : DOMAIN wire'[q] = {"msgs", "state"}
        /\ \A q \in Requests \ {r} : wire'[q] = wire[q]
    BY <1>1, <1>3, WritesGrow
  <2>3. UNCHANGED <<call, sdk>>
    BY DEF Act, HandlerFrame
  <2> QED BY <1>1, <2>1, <2>2, <2>3 DEF ApiShape, OthersStay, Requests
<1>5. ~ Prompts(r)
  BY DEF Act, Prompts
<1> QED BY <1>2, <1>4, <1>5, OneMoves

\* Nobody was told of a node before one was saved, nor before all was heard.
LEMMA NothingOwned ==
  ASSUME NEW r, \A n, c : ~ Own(r, n, c), WireKnown(r), SdkKnown(r)
  PROVE  sdk[r].node = NoNode /\ \A i \in 1 .. Len(wire[r].msgs) : wire[r].msgs[i].node = NoNode
BY DEF WireKnown, SdkKnown

\* A prompt is started: its user's row is stored, and nothing was said yet.
LEMMA StartStep == ASSUME ApiInv, NEW r \in Requests, StartCall(r) PROVE ApiInv'
<1> DEFINE m == Message("start", NoNode, Nothing)
<1>1. ApiShape /\ TablesKnown /\ setting \in Scenes /\ setting' = setting /\ UNCHANGED sdk
  BY DEF ApiInv, ApiShape, StartCall, HandlerFrame
<1>2. TablesKnown' /\ RowsStay
  BY <1>1, TablesStep, Zenon DEF StartCall
<1>3. /\ DOMAIN call' = Requests /\ DOMAIN call'[r] = DOMAIN call[r]
      /\ \A q \in Requests \ {r} : call'[q] = call[q]
      /\ call'[r].pc = "open" /\ call'[r].pieces = call[r].pieces /\ call'[r].feed = call[r].feed
      /\ call'[r].content = call[r].content
  BY <1>1 DEF StartCall, ApiShape
<1>4. /\ DOMAIN handler' = Requests /\ DOMAIN handler'[r] = DOMAIN handler[r]
      /\ \A q \in Requests \ {r} : handler'[q] = handler[q]
      /\ handler'[r].pc = "drain" /\ handler'[r].node = NoNode
      /\ handler'[r].then = handler[r].then /\ handler'[r].content = handler[r].content
  BY <1>1 DEF StartCall, ApiShape
<1>5. /\ DOMAIN wire' = Requests /\ \A q \in Requests : DOMAIN wire'[q] = {"msgs", "state"}
      /\ \A q \in Requests \ {r} : wire'[q] = wire[q]
      /\ wire'[r].msgs \in {wire[r].msgs, Append(wire[r].msgs, m)}
  <2>1. wire' = wire \/ Writes(r, m)
    BY DEF StartCall
  <2> HIDE DEF m
  <2> QED BY <1>1, <2>1, WritesGrow DEF ApiShape
<1>6. ApiShape' /\ OthersStay(r)
  BY <1>1, <1>3, <1>4, <1>5 DEF ApiShape, OthersStay, Requests
<1>7. ASSUME Prompts(r) PROVE Kept(r)'
  <2>1. FeedKnown(r) /\ SavedKnown(r) /\ HandlerKnown(r) /\ WireKnown(r) /\ SdkKnown(r)
    BY <1>7, PromptKept
  <2>2. call[r].pc = "none" /\ handler[r].then = "act"
    BY <1>7, NotStarted DEF StartCall, Running
  <2>3. call[r].content = Nothing
    BY <2>1, <2>2 DEF SavedKnown
  <2>4. FeedKnown(r)'
    <3>1. Listened(r)' = Listened(r) /\ Unheard(r)' = Unheard(r)
      BY <1>3, <1>4 DEF Listened, Unheard
    <3>2. /\ call[r].feed = <<>> /\ call[r].pieces = 0 /\ Unheard(r) = 0
          /\ Listened(r) \in Nat /\ handler[r].content = Text(r, Listened(r))
      BY <2>1, <2>2, EmptyList DEF FeedKnown
    <3> QED BY <1>3, <1>4, <3>1, <3>2, EmptyList DEF FeedKnown
  <2>5. SavedKnown(r)' /\ HandlerKnown(r)'
    BY <1>3, <1>4, <2>2, <2>3 DEF SavedKnown, HandlerKnown
  <2>6. \A n, c : ~ Own(r, n, c)
    BY <2>3 DEF Own
  <2>7. m.node = NoNode /\ m.type = "start"
    BY MessageFields
  <2>8. Listened(r)' = Listened(r) /\ sdk'[r] = sdk[r]
    BY <1>1, <1>4 DEF Listened
  <2> HIDE DEF m
  <2>9. WireKnown(r)' /\ SdkKnown(r)'
    BY <1>5, <2>1, <2>6, <2>7, <2>8, MessageKept
  <2> QED BY <2>4, <2>5, <2>9 DEF Kept
<1> QED BY <1>2, <1>6, <1>7, OneMoves

-----------------------------------------------------------------------------
(***************************************************************************)
(* The steps of a call.                                                    *)
(***************************************************************************)
\* A call that says something more, or saves its node.
LEMMA CallStep ==
  ASSUME ApiInv, NEW r \in Requests, Calling(r), UNCHANGED <<setting, handler, wire, sdk>>,
         TablesKnown', RowsStay, DOMAIN call' = Requests, DOMAIN call'[r] = DOMAIN call[r],
         \A q \in Requests \ {r} : call'[q] = call[q],
         Prompts(r) => FeedKnown(r)' /\ SavedKnown(r)' /\ call'[r].pc # "none"
  PROVE  ApiInv'
<1>1. ApiShape
  BY DEF ApiInv
<1>2. ApiShape' /\ OthersStay(r)
  BY <1>1 DEF ApiShape, OthersStay, Requests
<1>3. ASSUME Prompts(r) PROVE Kept(r)'
  <2>1. FeedKnown(r) /\ SavedKnown(r) /\ HandlerKnown(r) /\ WireKnown(r) /\ SdkKnown(r)
    BY <1>3, PromptKept
  <2>2. call[r].pc = "open"
    BY DEF Calling
  <2>3. \A n, c : ~ Own(r, n, c)
    BY <2>1, <2>2 DEF Own, SavedKnown
  <2>4. sdk[r].node = NoNode /\ \A i \in 1 .. Len(wire[r].msgs) : wire[r].msgs[i].node = NoNode
    BY <2>1, <2>3, NothingOwned
  <2>5. HandlerKnown(r)'
    BY <1>3, <2>1, <2>2 DEF HandlerKnown, SavedKnown
  <2>6. WireKnown(r)' /\ SdkKnown(r)'
    BY <2>1, <2>4 DEF WireKnown, SdkKnown, Listened
  <2> QED BY <1>3, <2>5, <2>6 DEF Kept
<1> QED BY <1>2, <1>3, OneMoves

\* A piece of text.
LEMMA CallDeltaStep == ASSUME ApiInv, NEW r \in Requests, CallDelta(r) PROVE ApiInv'
<1> DEFINE e == Event("delta", NoNode)
<1>1. /\ ApiShape /\ TablesKnown /\ setting \in Scenes /\ Calling(r)
      /\ UNCHANGED <<setting, handler, wire, sdk, aliases, nodes, nextId>>
  BY DEF ApiInv, ApiShape, CallDelta, CallFrame
<1>2. TablesKnown' /\ RowsStay
  BY <1>1, TablesStep
<1>3. /\ DOMAIN call' = Requests /\ DOMAIN call'[r] = DOMAIN call[r]
      /\ \A q \in Requests \ {r} : call'[q] = call[q]
      /\ call'[r].pc = call[r].pc /\ call'[r].pieces = call[r].pieces + 1
      /\ call'[r].feed = Append(call[r].feed, e)
      /\ call'[r].content = call[r].content /\ call'[r].node = call[r].node
  BY <1>1 DEF CallDelta, ApiShape
<1>4. e.type = "delta"
  BY DEF Event
<1> HIDE DEF e
<1>5. ASSUME Prompts(r) PROVE FeedKnown(r)' /\ SavedKnown(r)'
  <2>1. FeedKnown(r) /\ SavedKnown(r) /\ call[r].pc = "open"
    BY <1>1, <1>5, PromptKept DEF Calling
  <2> DEFINE feed == call[r].feed
  <2>2. /\ IsList(feed) /\ Len(feed) \in Nat /\ Unheard(r) = Len(feed)
        /\ call[r].pieces \in Nat /\ Listened(r) \in Nat
        /\ \A i \in 1 .. Len(feed) : feed[i].type = "delta"
    BY <2>1, ListFacts DEF FeedKnown
  <2>3. /\ IsList(feed') /\ Len(feed') = Len(feed) + 1
        /\ \A i \in 1 .. Len(feed') : feed'[i].type = "delta"
    <3>1. feed' = Append(feed, e)
      BY <1>3
    <3> HIDE DEF feed
    <3>2. /\ IsList(feed') /\ Len(feed') = Len(feed) + 1 /\ feed'[Len(feed) + 1] = e
          /\ \A i \in 1 .. Len(feed) : feed'[i] = feed[i]
      BY <2>2, <3>1, ListAppend
    <3>3. \A i \in 1 .. Len(feed) : feed'[i].type = "delta"
      BY <2>2, <3>2
    <3> QED BY <1>4, <2>2, <3>2, <3>3
  <2>4. Listened(r)' = Listened(r) /\ Unheard(r)' = Unheard(r) + 1
    <3>1. Listened(r)' = Listened(r)
      BY <1>1 DEF Listened
    <3>2. /\ Unheard(r) = call[r].pieces - Listened(r)
          /\ Unheard(r)' = call'[r].pieces - Listened(r)'
      BY DEF Unheard
    <3>3. call'[r].pieces = call[r].pieces + 1
      BY <1>3
    <3> QED BY <2>2, <3>1, <3>2, <3>3
  <2>5. handler'[r].content = Text(r, Listened(r)) /\ call'[r].pieces \in Nat /\ call'[r].pc = "open"
    BY <1>1, <1>3, <2>1, <2>2 DEF FeedKnown
  <2> HIDE DEF feed
  <2>6. \A i \in 1 .. Len(feed') : feed'[i].type = "delta" /\ i <= Unheard(r)'
    BY <2>2, <2>3, <2>4
  <2>7. Unheard(r)' \in 0 .. Len(feed') /\ Len(feed') = Unheard(r)'
    BY <2>2, <2>3, <2>4
  <2>8. FeedKnown(r)'
    BY <2>2, <2>3, <2>4, <2>5, <2>6, <2>7 DEF FeedKnown, feed
  <2>9. SavedKnown(r)'
    BY <1>3, <2>1 DEF SavedKnown
  <2> QED BY <2>8, <2>9
<1>6. call'[r].pc # "none"
  BY <1>1, <1>3 DEF Calling
<1> QED BY <1>1, <1>2, <1>3, <1>5, <1>6, CallStep

\* The last words of a call come behind its pieces.
LEMMA FeedEnds ==
  ASSUME NEW r, FeedKnown(r), call[r].pc = "open", handler'[r] = handler[r],
         call'[r].pieces = call[r].pieces, call'[r].pc = "closed", NEW feed, call'[r].feed = feed,
         IsList(feed), Len(feed) >= Len(call[r].feed),
         \A i \in 1 .. Len(call[r].feed) : feed[i] = call[r].feed[i],
         \A i \in 1 .. Len(feed) : i > Len(call[r].feed) =>
           /\ feed[i].type # "delta"
           /\ feed[i].type = "saved" =>
                i = Len(feed) /\ feed[i].node = call'[r].node /\ call'[r].content # Nothing
  PROVE  FeedKnown(r)'
<1> DEFINE old == call[r].feed
<1>1. /\ IsList(old) /\ Len(old) \in Nat /\ Unheard(r) = Len(old) /\ Len(feed) \in Nat
      /\ \A i \in 1 .. Len(old) : old[i].type = "delta"
  BY ListFacts DEF FeedKnown
<1>2. Listened(r)' = Listened(r) /\ Unheard(r)' = Len(old)
  BY <1>1 DEF Listened, Unheard
<1> HIDE DEF old
<1>3. \A i \in 1 .. Len(feed) :
        /\ feed[i].type = "delta" <=> i <= Len(old)
        /\ feed[i].type = "saved" =>
             i = Len(feed) /\ feed[i].node = call'[r].node /\ call'[r].content # Nothing
  BY <1>1 DEF old
<1>4. Len(old) \in 0 .. Len(feed)
  BY <1>1 DEF old
<1>5. /\ call'[r].pieces \in Nat /\ Listened(r) \in Nat
      /\ handler'[r].content = Text(r, Listened(r))
  BY DEF FeedKnown
<1> QED BY <1>2, <1>3, <1>4, <1>5 DEF FeedKnown

\* The answer is stored under a new id.
LEMMA CallSavesStep == ASSUME ApiInv, NEW r \in Requests, CallSaves(r) PROVE ApiInv'
<1>1. /\ ApiShape /\ TablesKnown /\ setting \in Scenes /\ Calling(r)
      /\ UNCHANGED <<setting, handler, wire, sdk, aliases>>
  BY DEF ApiInv, ApiShape, CallSaves, CallFrame
<1>2. PICK broken \in BOOLEAN, tools \in BOOLEAN :
        LET content == IF tools /\ ~broken THEN Blocks(r) ELSE Text(r, call[r].pieces) IN
        /\ call[r].pieces > 0 \/ (tools /\ ~broken)
        /\ CreateNode(Row(call[r].node, content))
        /\ call' = [call EXCEPT ![r].pc = "closed", ![r].node = nextId, ![r].content = content,
             ![r].feed = @ \o (IF broken THEN <<Event("error", NoNode)>> ELSE <<>>)
                           \o <<Event("saved", nextId)>>]
  BY DEF CallSaves
<1> DEFINE content == IF tools /\ ~broken THEN Blocks(r) ELSE Text(r, call[r].pieces)
           row  == Row(call[r].node, content)
           old  == call[r].feed
           said == IF broken THEN <<Event("error", NoNode)>> ELSE <<>>
           last == Event("saved", nextId)
           feed == old \o said \o <<last>>
<1>3. TablesKnown' /\ RowsStay
  <2>1. (\E any : CreateNode(any)) /\ HasId
    BY <1>2, Zenon DEF CallSaves
  <2> QED BY <1>1, <2>1, TablesStep
<1>4. nextId \in DOMAIN nodes' /\ nodes'[nextId].content = content /\ nextId' = nextId + 1
  <2>1. row.content = content
    BY DEF Row
  <2>2. CreateNode(row)
    BY <1>2
  <2> HIDE DEF row, content
  <2> QED BY <2>1, <2>2 DEF CreateNode
<1>5. /\ DOMAIN call' = Requests /\ DOMAIN call'[r] = DOMAIN call[r]
      /\ \A q \in Requests \ {r} : call'[q] = call[q]
      /\ call'[r].pc = "closed" /\ call'[r].pieces = call[r].pieces
      /\ call'[r].feed = feed /\ call'[r].content = content /\ call'[r].node = nextId
  <2>1. call' = [call EXCEPT ![r].pc = "closed", ![r].node = nextId, ![r].content = content,
                   ![r].feed = feed]
    BY <1>2
  <2> HIDE DEF feed, content
  <2> QED BY <1>1, <2>1 DEF ApiShape
<1>6. ASSUME Prompts(r) PROVE FeedKnown(r)' /\ SavedKnown(r)'
  <2>1. FeedKnown(r) /\ SavedKnown(r) /\ call[r].pc = "open"
    BY <1>1, <1>6, PromptKept DEF Calling
  <2>2. IsList(old) /\ Len(old) \in Nat /\ call[r].pieces \in Nat
    BY <2>1, ListFacts DEF FeedKnown
  <2>3. content # Nothing
    BY <1>2, <2>2, TextLength
  <2>4. last.type = "saved" /\ last.node = nextId
    BY DEF Event
  <2>5. /\ IsList(feed) /\ Len(feed) >= Len(old) /\ \A i \in 1 .. Len(old) : feed[i] = old[i]
        /\ \A i \in 1 .. Len(feed) : i > Len(old) =>
             /\ feed[i].type # "delta"
             /\ feed[i].type = "saved" => i = Len(feed) /\ feed[i].node = nextId
    <3> DEFINE mid == old \o said
    <3>1. feed = mid \o <<last>>
      OBVIOUS
    <3> HIDE DEF feed, last, old
    <3>2. CASE broken
      <4> DEFINE e == Event("error", NoNode)
      <4>1. e.type = "error"
        BY DEF Event
      <4>2. said = <<e>>
        BY <3>2
      <4> HIDE DEF e
      <4>3. mid = Append(old, e)
        BY <2>2, <4>2, ListConcatOne
      <4> HIDE DEF mid
      <4>4. IsList(mid) /\ Len(mid) = Len(old) + 1 /\ mid[Len(old) + 1] = e
            /\ \A i \in 1 .. Len(old) : mid[i] = old[i]
        BY <2>2, <4>3, ListAppend
      <4>5. feed = Append(mid, last)
        BY <3>1, <4>4, ListConcatOne
      <4>6. IsList(feed) /\ Len(feed) = Len(mid) + 1 /\ feed[Len(mid) + 1] = last
            /\ \A i \in 1 .. Len(mid) : feed[i] = mid[i]
        BY <4>4, <4>5, ListAppend
      <4>7. feed[Len(old) + 1] = e /\ feed[Len(old) + 2] = last /\ Len(feed) = Len(old) + 2
        BY <2>2, <4>4, <4>6
      <4>8. \A i \in 1 .. Len(feed) : i > Len(old) => i = Len(old) + 1 \/ i = Len(old) + 2
        BY <2>2, <4>7
      <4> QED BY <2>2, <2>4, <4>1, <4>4, <4>6, <4>7, <4>8
    <3>3. CASE ~ broken
      <4>1. mid = old
        BY <2>2, <3>3, ListEmpty
      <4> HIDE DEF mid
      <4>2. feed = Append(old, last)
        BY <2>2, <3>1, <4>1, ListConcatOne
      <4>3. IsList(feed) /\ Len(feed) = Len(old) + 1 /\ feed[Len(old) + 1] = last
            /\ \A i \in 1 .. Len(old) : feed[i] = old[i]
        BY <2>2, <4>2, ListAppend
      <4>4. \A i \in 1 .. Len(feed) : i > Len(old) => i = Len(old) + 1
        BY <2>2, <4>3
      <4> QED BY <2>2, <2>4, <4>3, <4>4
    <3> QED BY <3>2, <3>3
  <2> HIDE DEF feed, content
  <2>6. FeedKnown(r)'
    BY <1>1, <1>5, <2>1, <2>3, <2>5, FeedEnds
  <2>7. SavedKnown(r)'
    <3>1. nextId \in DOMAIN Uuids /\ nextId \notin DOMAIN setting.nodes /\ nextId \in 1 .. nextId' - 1
      BY <1>1, <1>4 DEF CallSaves, HasId, TablesKnown, NodeId
    <3> QED BY <1>1, <1>4, <1>5, <3>1 DEF SavedKnown
  <2> QED BY <2>6, <2>7
<1> QED BY <1>1, <1>3, <1>5, <1>6, CallStep

\* The call fails, or ends without a word.
LEMMA CallEndsStep ==
  ASSUME ApiInv, NEW r \in Requests, CallFails(r) \/ CallEmpty(r)
  PROVE  ApiInv'
<1>1. /\ ApiShape /\ TablesKnown /\ setting \in Scenes /\ Calling(r)
      /\ UNCHANGED <<setting, handler, wire, sdk, aliases, nodes, nextId>>
  BY DEF ApiInv, ApiShape, CallFails, CallEmpty, CallFrame
<1>2. TablesKnown' /\ RowsStay
  BY <1>1, TablesStep
<1> DEFINE old == call[r].feed
           e   == Event("error", NoNode)
<1>3. \/ Feeds(r, <<e>>)
      \/ Feeds(r, <<>>)
  BY DEF CallFails, CallEmpty
<1>4. e.type = "error"
  BY DEF Event
<1> HIDE DEF e
<1>5. /\ DOMAIN call' = Requests /\ DOMAIN call'[r] = DOMAIN call[r]
      /\ \A q \in Requests \ {r} : call'[q] = call[q]
      /\ call'[r].pc = "closed" /\ call'[r].pieces = call[r].pieces
      /\ call'[r].feed \in {old \o <<e>>, old \o <<>>}
      /\ call'[r].content = call[r].content /\ call'[r].node = call[r].node
  BY <1>1, <1>3 DEF Feeds, ApiShape
<1>6. ASSUME Prompts(r) PROVE FeedKnown(r)' /\ SavedKnown(r)'
  <2>1. FeedKnown(r) /\ SavedKnown(r) /\ call[r].pc = "open"
    BY <1>1, <1>6, PromptKept DEF Calling
  <2>2. IsList(old) /\ Len(old) \in Nat
    BY <2>1, ListFacts DEF FeedKnown
  <2>3. call'[r].feed \in {Append(old, e), old}
    BY <1>5, <2>2, ListConcatOne, ListEmpty
  <2>4. FeedKnown(r)'
    <3>1. CASE call'[r].feed = old
      BY <1>1, <1>5, <2>1, <2>2, <3>1, FeedEnds
    <3>2. CASE call'[r].feed = Append(old, e)
      <4> DEFINE feed == Append(old, e)
      <4>1. /\ IsList(feed) /\ Len(feed) = Len(old) + 1 /\ feed[Len(old) + 1] = e
            /\ \A i \in 1 .. Len(old) : feed[i] = old[i]
        BY <2>2, ListAppend
      <4>2. call'[r].feed = feed
        BY <3>2
      <4> HIDE DEF feed
      <4>3. \A i \in 1 .. Len(feed) : i > Len(old) => feed[i] = e
        BY <2>2, <4>1
      <4>4. Len(feed) >= Len(old)
        BY <2>2, <4>1
      <4> QED BY <1>1, <1>4, <1>5, <2>1, <4>1, <4>2, <4>3, <4>4, FeedEnds
    <3> QED BY <2>3, <3>1, <3>2
  <2>5. SavedKnown(r)'
    BY <1>5, <2>1 DEF SavedKnown
  <2> QED BY <2>4, <2>5
<1> QED BY <1>1, <1>2, <1>5, <1>6, CallStep

-----------------------------------------------------------------------------
(***************************************************************************)
(* The handler drains the feed of its call.                                *)
(***************************************************************************)
\* An event is heard: what is left of the feed is known as before.
LEMMA FeedHeard ==
  ASSUME NEW r, FeedKnown(r), call[r].feed # <<>>, call'[r].feed = Tail(call[r].feed),
         call'[r].pc = call[r].pc, call'[r].pieces = call[r].pieces,
         call'[r].node = call[r].node, call'[r].content = call[r].content,
         handler'[r].content = IF Head(call[r].feed).type = "delta" THEN Text(r, Listened(r) + 1)
                               ELSE handler[r].content
  PROVE  /\ FeedKnown(r)'
         /\ Listened(r)' = IF Head(call[r].feed).type = "delta" THEN Listened(r) + 1 ELSE Listened(r)
         /\ Head(call[r].feed).type = "saved" =>
              /\ Tail(call[r].feed) = <<>> /\ Head(call[r].feed).node = call[r].node
              /\ call[r].content # Nothing
<1> DEFINE old  == call[r].feed
           feed == Tail(old)
           piece == Head(old).type = "delta"
<1>1. /\ IsList(old) /\ Len(old) \in Nat /\ Len(old) >= 1 /\ Head(old) = old[1]
      /\ Unheard(r) \in 0 .. Len(old) /\ Listened(r) \in Nat
      /\ handler[r].content = Text(r, Listened(r))
  BY ListFacts DEF FeedKnown
<1>2. \A i \in 1 .. Len(old) :
        /\ old[i].type = "delta" <=> i <= Unheard(r)
        /\ old[i].type = "saved" =>
             i = Len(old) /\ old[i].node = call[r].node /\ call[r].content # Nothing
  BY DEF FeedKnown
<1>3. /\ IsList(feed) /\ Len(feed) = Len(old) - 1
      /\ \A i \in 1 .. Len(feed) : feed[i] = old[i + 1]
  <2> HIDE DEF old
  <2> QED BY <1>1, ListTail DEF old
<1>4. Listened(r)' = IF piece THEN Listened(r) + 1 ELSE Listened(r)
  BY <1>1, TextLength DEF Listened
<1>5. handler'[r].content = Text(r, Listened(r)')
  BY <1>1, <1>4
<1>6. Unheard(r)' = IF piece THEN Unheard(r) - 1 ELSE Unheard(r)
  <2>1. call[r].pieces \in Nat
    BY DEF FeedKnown
  <2>2. /\ Unheard(r) = call[r].pieces - Listened(r)
        /\ Unheard(r)' = call[r].pieces - Listened(r)'
    BY DEF Unheard
  <2> HIDE DEF piece, feed, old
  <2> QED BY <1>1, <1>4, <2>1, <2>2
<1>7. piece <=> 1 <= Unheard(r)
  BY <1>1, <1>2
<1>8. call[r].pieces \in Nat /\ call[r].pc \in {"none", "open", "closed"} /\ call[r].pc # "none"
  BY <1>1 DEF FeedKnown
<1>9. call[r].pc = "open" => Len(old) = Unheard(r)
  BY DEF FeedKnown
<1> HIDE DEF feed, old, piece
<1>10. /\ Unheard(r)' \in 0 .. Len(feed) /\ Listened(r)' \in Nat
       /\ call[r].pc = "open" => Len(feed) = Unheard(r)'
  BY <1>1, <1>3, <1>4, <1>6, <1>7, <1>9
<1>11. ASSUME NEW i \in 1 .. Len(feed)
       PROVE  /\ feed[i].type = "delta" <=> i <= Unheard(r)'
              /\ feed[i].type = "saved" =>
                   i = Len(feed) /\ feed[i].node = call[r].node /\ call[r].content # Nothing
  <2>1. i + 1 \in 1 .. Len(old) /\ feed[i] = old[i + 1]
    BY <1>1, <1>3
  <2>2. i + 1 <= Unheard(r) <=> i <= Unheard(r)'
    BY <1>1, <1>6, <1>7
  <2>3. i + 1 = Len(old) <=> i = Len(feed)
    BY <1>1, <1>3
  <2> QED BY <1>2, <2>1, <2>2, <2>3
<1>12. call'[r].feed = feed
  BY DEF feed, old
<1>13. FeedKnown(r)'
  BY <1>3, <1>5, <1>8, <1>10, <1>11, <1>12 DEF FeedKnown
<1>14. Head(old).type = "saved" =>
         feed = <<>> /\ Head(old).node = call[r].node /\ call[r].content # Nothing
  BY <1>1, <1>2, <1>3, ListFacts
<1> QED BY <1>4, <1>13, <1>14 DEF feed, old, piece

\* A handler that has heard an event, and writes a message at most.
LEMMA HearStep ==
  ASSUME ApiInv, NEW r \in Requests, NEW type, Heard(r, type),
         NEW m, wire' = wire \/ Writes(r, m) \/ WritesLast(r, m),
         m.node = NoNode, m.type # "done", m.type = "delta" => type = "delta",
         DOMAIN handler' = Requests, DOMAIN handler'[r] = DOMAIN handler[r],
         \A q \in Requests \ {r} : handler'[q] = handler[q],
         Prompts(r) =>
           handler'[r].content = IF type = "delta" THEN Text(r, Listened(r) + 1)
                                 ELSE handler[r].content,
         Prompts(r) /\ FeedKnown(r)' => HandlerKnown(r)'
  PROVE  ApiInv'
<1>1. /\ ApiShape /\ TablesKnown /\ setting \in Scenes /\ setting' = setting /\ UNCHANGED sdk
      /\ UNCHANGED nameVars
  BY DEF ApiInv, ApiShape, Heard, HandlerFrame
<1>2. TablesKnown' /\ RowsStay
  BY <1>1, TablesStep DEF nameVars
<1>3. /\ DOMAIN wire' = Requests /\ \A q \in Requests : DOMAIN wire'[q] = {"msgs", "state"}
      /\ \A q \in Requests \ {r} : wire'[q] = wire[q]
      /\ wire'[r].msgs \in {wire[r].msgs, Append(wire[r].msgs, m)}
  BY <1>1, WritesGrow DEF ApiShape
<1>4. /\ DOMAIN call' = Requests /\ DOMAIN call'[r] = DOMAIN call[r]
      /\ \A q \in Requests \ {r} : call'[q] = call[q]
      /\ call'[r].feed = Tail(call[r].feed) /\ call'[r].pc = call[r].pc
      /\ call'[r].pieces = call[r].pieces /\ call'[r].node = call[r].node
      /\ call'[r].content = call[r].content
  BY <1>1 DEF Heard, ApiShape
<1>5. ApiShape' /\ OthersStay(r)
  BY <1>1, <1>3, <1>4 DEF ApiShape, OthersStay, Requests
<1>6. ASSUME Prompts(r) PROVE Kept(r)'
  <2>1. FeedKnown(r) /\ SavedKnown(r) /\ HandlerKnown(r) /\ WireKnown(r) /\ SdkKnown(r)
    BY <1>6, PromptKept
  <2>2. call[r].feed # <<>> /\ Head(call[r].feed).type = type
    BY DEF Heard
  <2>3. FeedKnown(r)' /\ Listened(r)' = IF type = "delta" THEN Listened(r) + 1 ELSE Listened(r)
    BY <1>4, <1>6, <2>1, <2>2, FeedHeard
  <2>4. SavedKnown(r)'
    BY <1>1, <1>4, <2>1 DEF SavedKnown, nameVars
  <2>5. \A n, c : ~ Own(r, n, c)
    BY <2>2 DEF Own
  <2>6. Listened(r) \in Nat
    BY <2>1 DEF FeedKnown
  <2>7. /\ Listened(r) # 0 => Listened(r)' # 0
        /\ m.type = "delta" => Listened(r)' # 0
    BY <2>3, <2>6
  <2>8. WireKnown(r)' /\ SdkKnown(r)'
    BY <1>1, <1>3, <2>1, <2>5, <2>7, MessageKept
  <2> QED BY <1>6, <2>3, <2>4, <2>8 DEF Kept
<1> QED BY <1>2, <1>5, <1>6, OneMoves

\* A piece of text.
LEMMA HearDeltaStep == ASSUME ApiInv, NEW r \in Requests, HearDelta(r) PROVE ApiInv'
<1> DEFINE m == Message("delta", NoNode, Nothing)
<1>1. ApiShape /\ Heard(r, "delta") /\ (wire' = wire \/ Writes(r, m))
  BY DEF ApiInv, HearDelta
<1>2. m.node = NoNode /\ m.type = "delta"
  BY MessageFields
<1> HIDE DEF m
<1>3. /\ DOMAIN handler' = Requests /\ DOMAIN handler'[r] = DOMAIN handler[r]
      /\ \A q \in Requests \ {r} : handler'[q] = handler[q]
      /\ handler'[r].content = Text(r, Listened(r) + 1) /\ handler'[r].pc = handler[r].pc
      /\ handler'[r].then = handler[r].then /\ handler'[r].node = handler[r].node
  BY <1>1 DEF HearDelta, ApiShape, Listened
<1>4. ASSUME Prompts(r) PROVE HandlerKnown(r)'
  <2>1. HandlerKnown(r) /\ handler[r].pc = "drain" /\ call[r].feed # <<>>
    BY <1>1, <1>4, PromptKept DEF Heard, Running
  <2>2. /\ call'[r].pc = call[r].pc /\ call'[r].node = call[r].node
        /\ call'[r].content = call[r].content
    BY <1>1 DEF Heard, ApiShape
  <2> QED BY <1>3, <2>1, <2>2 DEF HandlerKnown
<1> QED BY <1>1, <1>2, <1>3, <1>4, HearStep

\* An error: for JSON it is the answer.
LEMMA HearErrorStep == ASSUME ApiInv, NEW r \in Requests, HearError(r) PROVE ApiInv'
<1>1. ApiShape /\ Heard(r, "error")
  BY DEF ApiInv, HearError
<1>2. ASSUME Prompts(r)
      PROVE  /\ HandlerKnown(r) /\ handler[r].pc = "drain" /\ handler[r].then = "act"
             /\ call'[r].pc = call[r].pc /\ call'[r].node = call[r].node
             /\ call'[r].content = call[r].content
  <2>1. HandlerKnown(r) /\ handler[r].pc = "drain" /\ call[r].feed # <<>>
    BY <1>1, <1>2, PromptKept DEF Heard, Running
  <2> QED BY <1>1, <2>1 DEF Heard, ApiShape, HandlerKnown
<1>3. CASE Req(r).stream
  <2> DEFINE m == Message("error", NoNode, Nothing)
  <2>1. Writes(r, m) /\ handler' = handler /\ m.node = NoNode /\ m.type = "error"
    BY <1>3, MessageFields DEF HearError
  <2> HIDE DEF m
  <2>2. Prompts(r) => HandlerKnown(r)'
    BY <1>2, <2>1 DEF HandlerKnown
  <2>3. DOMAIN handler' = Requests /\ DOMAIN handler'[r] = DOMAIN handler[r]
    BY <1>1, <2>1 DEF ApiShape
  <2>4. wire' = wire \/ Writes(r, m) \/ WritesLast(r, m)
    BY <2>1
  <2> QED BY <1>1, <2>1, <2>2, <2>3, <2>4, HearStep
<1>4. CASE ~ Req(r).stream
  <2>1. Goes(r, "over") /\ WritesLast(r, Failure(500))
    BY <1>4 DEF HearError, Reply
  <2>2. Failure(500).node = NoNode /\ Failure(500).type = "reply"
    BY MessageFields
  <2>3. Prompts(r) => HandlerKnown(r)'
    BY <1>1, <1>2, <2>1, GoesTo DEF HandlerKnown
  <2>4. /\ DOMAIN handler' = Requests /\ DOMAIN handler'[r] = DOMAIN handler[r]
        /\ \A q \in Requests \ {r} : handler'[q] = handler[q]
        /\ handler'[r].content = handler[r].content
    BY <1>1, <2>1, GoesTo
  <2>5. wire' = wire \/ Writes(r, Failure(500)) \/ WritesLast(r, Failure(500))
    BY <2>1
  <2> QED BY <1>1, <2>2, <2>3, <2>4, <2>5, HearStep
<1> QED BY <1>3, <1>4

\* The handler looks the node up that it will answer with.
LEMMA ResolvingTo ==
  ASSUME ApiShape, NEW r \in Requests, NEW node, Resolving(r, node)
  PROVE  /\ DOMAIN handler' = Requests /\ DOMAIN handler'[r] = DOMAIN handler[r]
         /\ \A q \in Requests \ {r} : handler'[q] = handler[q]
         /\ handler'[r].pc = "exact" /\ handler'[r].content = handler[r].content
         /\ handler'[r].then = "answer" /\ handler'[r].node = node
         /\ node # NoNode => handler'[r].name = Spelled(node)
BY DEF ApiShape, Resolving

\* The node that was saved.
LEMMA HearSavedStep == ASSUME ApiInv, NEW r \in Requests, HearSaved(r) PROVE ApiInv'
<1> DEFINE id == Head(call[r].feed).node
<1>1. ApiShape /\ TablesKnown /\ Heard(r, "saved") /\ wire' = wire /\ setting' = setting
  BY DEF ApiInv, HearSaved, Heard, HandlerFrame
<1>2. ASSUME Prompts(r)
      PROVE  /\ HandlerKnown(r) /\ handler[r].pc = "drain" /\ handler[r].then = "act"
             /\ call[r].pc = "closed" /\ id = call[r].node /\ call[r].content # Nothing /\ id # NoNode
             /\ call'[r].pc = call[r].pc /\ call'[r].node = call[r].node
             /\ call'[r].content = call[r].content /\ call'[r].feed = <<>>
  <2>1. /\ FeedKnown(r) /\ SavedKnown(r) /\ HandlerKnown(r) /\ handler[r].pc = "drain"
        /\ call[r].feed # <<>>
    BY <1>1, <1>2, PromptKept DEF Heard, Running
  <2>2. /\ call'[r].pc = call[r].pc /\ call'[r].node = call[r].node
        /\ call'[r].content = call[r].content /\ call'[r].feed = Tail(call[r].feed)
    BY <1>1 DEF Heard, ApiShape
  <2>3. /\ IsList(call[r].feed) /\ Len(call[r].feed) >= 1
        /\ Head(call[r].feed) = call[r].feed[1] /\ Len(call[r].feed) \in Nat
    BY <2>1, ListFacts DEF FeedKnown
  <2>4. call[r].feed[1].type = "saved"
    BY <1>1, <2>3 DEF Heard
  <2>5. Len(call[r].feed) = 1 /\ id = call[r].node /\ call[r].content # Nothing
    <3>1. \A i \in 1 .. Len(call[r].feed) : call[r].feed[i].type = "saved" =>
            /\ i = Len(call[r].feed) /\ call[r].feed[i].node = call[r].node
            /\ call[r].content # Nothing
      BY <2>1 DEF FeedKnown
    <3>2. 1 \in 1 .. Len(call[r].feed)
      BY <2>3
    <3> QED BY <2>3, <2>4, <3>1, <3>2
  <2>6. Tail(call[r].feed) = <<>>
    <3> DEFINE old == call[r].feed
               new == Tail(old)
    <3>1. IsList(old) /\ old # <<>> /\ Len(old) = 1
      BY <2>1, <2>3, <2>5
    <3> HIDE DEF old
    <3>2. IsList(new) /\ Len(new) = 0
      BY <3>1, ListTail
    <3> HIDE DEF new
    <3>3. new = <<>>
      BY <3>2, ListFacts
    <3> QED BY <3>3 DEF new, old
  <2>7. id # NoNode
    BY <1>1, <2>1, <2>5 DEF SavedKnown, NoNode, TablesKnown, NodeId
  <2>8. handler[r].then = "act" /\ call[r].pc = "closed"
    BY <2>1, <2>5 DEF HandlerKnown, SavedKnown
  <2> QED BY <2>1, <2>2, <2>5, <2>6, <2>7, <2>8
<1> HIDE DEF id
<1>3. /\ DOMAIN handler' = Requests /\ DOMAIN handler'[r] = DOMAIN handler[r]
      /\ \A q \in Requests \ {r} : handler'[q] = handler[q]
      /\ handler'[r].content = handler[r].content /\ handler'[r].node = id
      /\ \/ /\ Req(r).stream /\ handler'[r].pc = "exact" /\ handler'[r].then = "answer"
            /\ id # NoNode => handler'[r].name = Spelled(id)
         \/ /\ ~ Req(r).stream /\ handler'[r].pc = handler[r].pc /\ handler'[r].then = handler[r].then
  <2>1. CASE Req(r).stream
    <3>1. Resolving(r, id)
      BY <2>1 DEF HearSaved, id
    <3> QED BY <1>1, <2>1, <3>1, ResolvingTo
  <2>2. CASE ~ Req(r).stream
    <3>1. handler' = [handler EXCEPT ![r].node = id]
      BY <2>2 DEF HearSaved, id
    <3> QED BY <1>1, <2>2, <3>1 DEF ApiShape
  <2> QED BY <2>1, <2>2
<1>4. ASSUME Prompts(r) PROVE HandlerKnown(r)'
  BY <1>1, <1>2, <1>3, <1>4 DEF HandlerKnown, Req, Spelled
<1> DEFINE m == Failure(500)
<1>5. m.node = NoNode /\ m.type = "reply"
  BY MessageFields
<1> HIDE DEF m
<1> QED BY <1>1, <1>3, <1>4, <1>5, HearStep

\* The end of the feed: a stream ends, JSON is answered.
LEMMA HearEndStep == ASSUME ApiInv, NEW r \in Requests, HearEnd(r) PROVE ApiInv'
<1>1. /\ ApiShape /\ TablesKnown /\ setting \in Scenes /\ setting' = setting
      /\ UNCHANGED <<call, sdk, nameVars>> /\ HandlerFrame
      /\ handler[r].pc = "drain" /\ call[r].feed = <<>> /\ call[r].pc = "closed"
  BY DEF ApiInv, ApiShape, HearEnd, HandlerFrame, Running
<1>2. CASE ~ Req(r).stream
  <2>1. Resolving(r, handler[r].node) /\ wire' = wire
    BY <1>2 DEF HearEnd
  <2>2. ASSUME Prompts(r) PROVE HandlerKnown(r)'
    <3>1. HandlerKnown(r) /\ call' = call
      BY <1>1, <2>2, PromptKept
    <3> QED BY <1>1, <1>2, <2>1, <3>1, ResolvingTo DEF HandlerKnown, Req, Spelled
  <2>3. /\ DOMAIN handler' = Requests /\ DOMAIN handler'[r] = DOMAIN handler[r]
        /\ \A q \in Requests \ {r} : handler'[q] = handler[q]
        /\ handler'[r].content = handler[r].content
    BY <1>1, <2>1, ResolvingTo
  <2> QED BY <1>1, <2>1, <2>2, <2>3, HandlerStep
<1>3. CASE Req(r).stream
  <2>1. /\ Goes(r, "over")
        /\ wire' = IF Connected(r) THEN [wire EXCEPT ![r].state = "ended"] ELSE wire
    BY <1>3 DEF HearEnd
  <2>2. /\ DOMAIN wire' = Requests /\ \A q \in Requests : DOMAIN wire'[q] = {"msgs", "state"}
        /\ \A q \in Requests \ {r} : wire'[q] = wire[q]
        /\ wire'[r].msgs = wire[r].msgs
    BY <1>1, <2>1 DEF ApiShape
  <2>3. /\ DOMAIN handler' = Requests /\ DOMAIN handler'[r] = DOMAIN handler[r]
        /\ \A q \in Requests \ {r} : handler'[q] = handler[q]
        /\ handler'[r].pc = "over" /\ handler'[r].content = handler[r].content
        /\ handler'[r].then = handler[r].then /\ handler'[r].node = handler[r].node
        /\ handler'[r].name = handler[r].name
    BY <1>1, <2>1, GoesTo
  <2>4. TablesKnown' /\ RowsStay
    BY <1>1, TablesStep DEF nameVars
  <2>5. ApiShape' /\ OthersStay(r)
    BY <1>1, <2>2, <2>3 DEF ApiShape, OthersStay, Requests
  <2>6. ASSUME Prompts(r) PROVE Kept(r)'
    <3>1. FeedKnown(r) /\ SavedKnown(r) /\ HandlerKnown(r) /\ WireKnown(r) /\ SdkKnown(r)
      BY <2>6, PromptKept
    <3>2. FeedKnown(r)' /\ SavedKnown(r)'
      BY <1>1, <2>3, <3>1 DEF FeedKnown, SavedKnown, Listened, Unheard, nameVars
    <3>3. HandlerKnown(r)'
      BY <1>1, <2>3, <3>1 DEF HandlerKnown, Req, Spelled
    <3>4. Listened(r)' = Listened(r) /\ \A n, c : Own(r, n, c)' <=> Own(r, n, c)
      BY <1>1, <2>3 DEF Listened, Own
    <3>5. WireKnown(r)'
      BY <2>2, <3>1, <3>4 DEF WireKnown
    <3>6. SdkKnown(r)'
      BY <1>1, <2>2, <3>1, <3>4 DEF SdkKnown, Own
    <3> QED BY <3>2, <3>3, <3>5, <3>6 DEF Kept
  <2> QED BY <2>4, <2>5, <2>6, OneMoves
<1> QED BY <1>2, <1>3

-----------------------------------------------------------------------------
(***************************************************************************)
(* The client, its connection, and the end of the server.                  *)
(***************************************************************************)
\* A message is taken off the connection.
LEMMA WireRead ==
  ASSUME NEW r, WireKnown(r), wire[r].msgs # <<>>, wire'[r].msgs = Tail(wire[r].msgs),
         call'[r] = call[r], handler'[r] = handler[r]
  PROVE  LET m == Head(wire[r].msgs) IN
         /\ WireKnown(r)'
         /\ m.node # NoNode => Own(r, m.node, m.content)
         /\ m.node # NoNode => \A i \in 1 .. Len(wire[r].msgs)' : wire'[r].msgs[i].type # "delta"
         /\ m.type = "done" => m.node # NoNode
         /\ m.type = "delta" => Listened(r) # 0
         /\ (\A i \in 1 .. Len(wire[r].msgs) : wire[r].msgs[i].type # "delta") =>
              /\ m.type # "delta"
              /\ \A i \in 1 .. Len(wire[r].msgs)' : wire'[r].msgs[i].type # "delta"
<1> DEFINE msgs == wire[r].msgs
           rest == Tail(msgs)
<1>1. /\ IsList(msgs) /\ Len(msgs) \in Nat /\ Len(msgs) >= 1 /\ Head(msgs) = msgs[1]
  BY ListFacts DEF WireKnown
<1>2. /\ \A i \in 1 .. Len(msgs) :
           /\ msgs[i].node # NoNode => Own(r, msgs[i].node, msgs[i].content)
           /\ msgs[i].type = "done" => msgs[i].node # NoNode
           /\ msgs[i].type = "delta" => Listened(r) # 0 /\ \A j \in 1 .. i : msgs[j].node = NoNode
  BY DEF WireKnown
<1>3. msgs' = rest /\ Listened(r)' = Listened(r) /\ \A n, c : Own(r, n, c)' <=> Own(r, n, c)
  BY DEF Listened, Own
<1>4. msgs # <<>>
  OBVIOUS
<1> HIDE DEF msgs
<1>5. /\ IsList(rest) /\ Len(msgs) = Len(rest) + 1 /\ Len(rest) \in Nat
      /\ \A i \in 1 .. Len(rest) : rest[i] = msgs[i + 1]
  BY <1>1, <1>4, ListTail
<1> HIDE DEF rest
<1>6. 1 \in 1 .. Len(msgs) /\ \A i \in 1 .. Len(rest) : i + 1 \in 1 .. Len(msgs)
  BY <1>1, <1>5
<1>7. ASSUME NEW i \in 1 .. Len(rest)
      PROVE  /\ rest[i].node # NoNode => Own(r, rest[i].node, rest[i].content)
             /\ rest[i].type = "done" => rest[i].node # NoNode
             /\ rest[i].type = "delta" =>
                  /\ Listened(r) # 0 /\ msgs[1].node = NoNode
                  /\ \A j \in 1 .. i : rest[j].node = NoNode
  <2>1. rest[i] = msgs[i + 1] /\ i + 1 \in 1 .. Len(msgs) /\ 1 \in 1 .. i + 1
    BY <1>5, <1>6
  <2>2. rest[i].type = "delta" => \A j \in 1 .. i + 1 : msgs[j].node = NoNode
    BY <1>2, <2>1
  <2>3. \A j \in 1 .. i : j + 1 \in 1 .. i + 1 /\ rest[j] = msgs[j + 1]
    BY <1>5
  <2>4. rest[i].type = "delta" => Listened(r) # 0 /\ msgs[1].node = NoNode
    BY <1>2, <2>1, <2>2
  <2>5. rest[i].type = "delta" => \A j \in 1 .. i : rest[j].node = NoNode
    BY <2>2, <2>3
  <2>6. /\ rest[i].node # NoNode => Own(r, rest[i].node, rest[i].content)
        /\ rest[i].type = "done" => rest[i].node # NoNode
    BY <1>2, <2>1
  <2> QED BY <2>4, <2>5, <2>6
<1>8. WireKnown(r)'
  <2>1. \A i \in 1 .. Len(msgs') :
          /\ msgs'[i].node # NoNode => Own(r, msgs[i].node, msgs[i].content)'
          /\ msgs'[i].type = "done" => msgs'[i].node # NoNode
          /\ msgs'[i].type = "delta" =>
               Listened(r)' # 0 /\ \A j \in 1 .. i : msgs'[j].node = NoNode
    BY <1>3, <1>7 DEF Own
  <2>2. IsList(msgs')
    BY <1>3, <1>5
  <2> QED BY <2>1, <2>2 DEF WireKnown, msgs
<1>9. msgs[1].node # NoNode => \A i \in 1 .. Len(msgs') : msgs'[i].type # "delta"
  BY <1>3, <1>7
<1>10. (\A i \in 1 .. Len(msgs) : msgs[i].type # "delta") =>
         msgs[1].type # "delta" /\ \A i \in 1 .. Len(msgs') : msgs'[i].type # "delta"
  BY <1>3, <1>5, <1>6
<1> QED BY <1>1, <1>2, <1>6, <1>8, <1>9, <1>10 DEF msgs

\* A step of a client or of its connection.
LEMMA SdkStep ==
  ASSUME ApiInv, NEW r \in Requests, SdkFrame,
         DOMAIN wire' = Requests, DOMAIN wire'[r] = DOMAIN wire[r],
         DOMAIN sdk' = Requests, DOMAIN sdk'[r] = DOMAIN sdk[r],
         \A q \in Requests \ {r} : wire'[q] = wire[q] /\ sdk'[q] = sdk[q],
         Prompts(r) => WireKnown(r)' /\ SdkKnown(r)'
  PROVE  ApiInv'
<1>1. /\ ApiShape /\ TablesKnown /\ setting \in Scenes /\ setting' = setting
      /\ UNCHANGED <<call, handler, nameVars>>
  BY DEF ApiInv, ApiShape, SdkFrame
<1>2. TablesKnown' /\ RowsStay
  BY <1>1, TablesStep DEF nameVars
<1>3. ApiShape' /\ OthersStay(r)
  BY <1>1 DEF ApiShape, OthersStay, Requests
<1>4. ASSUME Prompts(r) PROVE Kept(r)'
  <2>1. FeedKnown(r) /\ SavedKnown(r) /\ HandlerKnown(r)
    BY <1>4, PromptKept
  <2>2. FeedKnown(r)' /\ SavedKnown(r)' /\ HandlerKnown(r)'
    BY <1>1, <2>1 DEF FeedKnown, SavedKnown, HandlerKnown, Listened, Unheard, Req, Spelled, nameVars
  <2> QED BY <1>4, <2>2 DEF Kept
<1> QED BY <1>2, <1>3, <1>4, OneMoves

\* The reply is read.
LEMMA SdkReplyStep == ASSUME ApiInv, NEW r \in Requests, SdkReply(r) PROVE ApiInv'
<1> DEFINE m == Head(wire[r].msgs)
<1>1. /\ ApiShape /\ SdkFrame /\ wire[r].msgs # <<>> /\ Read(r) /\ UNCHANGED <<call, handler>>
      /\ sdk' = [sdk EXCEPT ![r] = [pc |-> "done", content |-> m.content, node |-> m.node,
                   error |-> m.status >= 400, status |-> m.status]]
  BY DEF ApiInv, SdkReply, Reading, SdkFrame
<1> HIDE DEF m
<1>2. /\ DOMAIN wire' = Requests /\ DOMAIN wire'[r] = DOMAIN wire[r]
      /\ \A q \in Requests \ {r} : wire'[q] = wire[q]
      /\ wire'[r].msgs = Tail(wire[r].msgs)
  BY <1>1 DEF ApiShape, Read
<1>3. /\ DOMAIN sdk' = Requests /\ DOMAIN sdk'[r] = DOMAIN sdk[r]
      /\ \A q \in Requests \ {r} : sdk'[q] = sdk[q]
      /\ sdk'[r].pc = "done" /\ sdk'[r].content = m.content /\ sdk'[r].node = m.node
  BY <1>1 DEF ApiShape
<1>4. ASSUME Prompts(r) PROVE WireKnown(r)' /\ SdkKnown(r)'
  <2>1. WireKnown(r)
    BY <1>4, PromptKept
  <2>2. /\ WireKnown(r)'
        /\ m.node # NoNode => Own(r, m.node, m.content)
        /\ m.node # NoNode => \A i \in 1 .. Len(wire[r].msgs)' : wire'[r].msgs[i].type # "delta"
    BY <1>1, <1>2, <2>1, WireRead DEF m
  <2> QED BY <1>1, <1>3, <2>2 DEF SdkKnown, Own
<1> QED BY <1>1, <1>2, <1>3, <1>4, SdkStep

\* An event is read.
LEMMA SdkEventStep == ASSUME ApiInv, NEW r \in Requests, SdkEvent(r) PROVE ApiInv'
<1> DEFINE m == Head(wire[r].msgs)
<1>1. /\ ApiShape /\ SdkFrame /\ wire[r].msgs # <<>> /\ Read(r) /\ UNCHANGED <<call, handler>>
      /\ sdk[r].pc = "sent"
      /\ sdk' = CASE m.type = "delta" -> [sdk EXCEPT ![r].content = Text(r, @[3] + 1)]
                  [] m.type = "done"  -> [sdk EXCEPT ![r].node = m.node,
                                            ![r].content = IF m.content = Nothing THEN @ ELSE m.content]
                  [] m.type = "error" -> [sdk EXCEPT ![r].error = TRUE]
                  [] OTHER -> sdk
  BY DEF ApiInv, SdkEvent, Reading, SdkFrame
<1> HIDE DEF m
<1>2. /\ DOMAIN wire' = Requests /\ DOMAIN wire'[r] = DOMAIN wire[r]
      /\ \A q \in Requests \ {r} : wire'[q] = wire[q]
      /\ wire'[r].msgs = Tail(wire[r].msgs)
  BY <1>1 DEF ApiShape, Read
<1>3. CASE m.type = "done"
  <2>1. sdk' = [sdk EXCEPT ![r].node = m.node,
                           ![r].content = IF m.content = Nothing THEN @ ELSE m.content]
    BY <1>1, <1>3
  <2>2. /\ DOMAIN sdk' = Requests /\ DOMAIN sdk'[r] = DOMAIN sdk[r]
        /\ \A q \in Requests \ {r} : sdk'[q] = sdk[q]
        /\ sdk'[r].content = IF m.content = Nothing THEN sdk[r].content ELSE m.content
    BY <1>1, <2>1 DEF ApiShape
  <2>3. sdk'[r].node = m.node
    BY <1>1, <2>1 DEF ApiShape
  <2>4. ASSUME Prompts(r) PROVE WireKnown(r)' /\ SdkKnown(r)'
    <3>1. FeedKnown(r) /\ WireKnown(r) /\ SdkKnown(r)
      BY <2>4, PromptKept
    <3>2. /\ WireKnown(r)' /\ m.node # NoNode /\ Own(r, m.node, m.content)
          /\ \A i \in 1 .. Len(wire[r].msgs)' : wire'[r].msgs[i].type # "delta"
      BY <1>1, <1>2, <1>3, <3>1, WireRead DEF m
    <3>3. Own(r, m.node, sdk'[r].content)
      <4>1. CASE m.content # Nothing
        BY <2>2, <3>2, <4>1
      <4>2. CASE m.content = Nothing /\ sdk[r].node # NoNode
        BY <2>2, <3>1, <3>2, <4>2 DEF SdkKnown, Own
      <4>3. CASE m.content = Nothing /\ sdk[r].node = NoNode
        <5>1. Text(r, call[r].pieces) = Nothing /\ call[r].pieces \in Nat
          BY <3>1, <3>2, <4>3 DEF Own, FeedKnown
        <5>2. call[r].pieces = 0
          BY <5>1, TextLength
        <5>3. Listened(r) = 0
          BY <3>1, <5>2 DEF FeedKnown, Unheard
        <5>4. sdk[r].content = Nothing
          BY <1>1, <3>1, <4>3, <5>3 DEF SdkKnown
        <5> QED BY <2>2, <3>2, <4>3, <5>4
      <4> QED BY <4>1, <4>2, <4>3
    <3>4. Own(r, sdk[r].node, sdk[r].content)'
      BY <1>1, <2>3, <3>3 DEF Own
    <3>5. sdk'[r].node # NoNode
      BY <2>3, <3>2
    <3> QED BY <3>2, <3>4, <3>5 DEF SdkKnown
  <2> QED BY <1>1, <1>2, <2>2, <2>4, SdkStep
<1>4. CASE m.type # "done"
  <2>1. /\ DOMAIN sdk' = Requests /\ DOMAIN sdk'[r] = DOMAIN sdk[r]
        /\ \A q \in Requests \ {r} : sdk'[q] = sdk[q]
        /\ sdk'[r].node = sdk[r].node /\ sdk'[r].pc = sdk[r].pc
        /\ m.type # "delta" => sdk'[r].content = sdk[r].content
    BY <1>1, <1>4 DEF ApiShape
  <2>2. ASSUME Prompts(r) PROVE WireKnown(r)' /\ SdkKnown(r)'
    <3>1. WireKnown(r) /\ SdkKnown(r)
      BY <2>2, PromptKept
    <3>2. /\ WireKnown(r)'
          /\ m.type = "delta" => Listened(r) # 0
          /\ (\A i \in 1 .. Len(wire[r].msgs) : wire[r].msgs[i].type # "delta") =>
               /\ m.type # "delta"
               /\ \A i \in 1 .. Len(wire[r].msgs)' : wire'[r].msgs[i].type # "delta"
      BY <1>1, <1>2, <3>1, WireRead DEF m
    <3> QED BY <1>1, <2>1, <3>1, <3>2 DEF SdkKnown, Own, Listened
  <2> QED BY <1>1, <1>2, <2>1, <2>2, SdkStep
<1> QED BY <1>3, <1>4

\* The client stops reading: the line is too long, the body ends, it gives up.
LEMMA SdkEndsStep ==
  ASSUME ApiInv, NEW r \in Requests, SdkTooLong(r) \/ SdkEnd(r) \/ GiveUp(r)
  PROVE  ApiInv'
<1>1. ApiShape /\ SdkFrame /\ UNCHANGED <<call, handler, wire>> /\ \E error : Ends(r, error)
  BY DEF ApiInv, SdkTooLong, SdkEnd, GiveUp, SdkFrame
<1>2. /\ DOMAIN sdk' = Requests /\ DOMAIN sdk'[r] = DOMAIN sdk[r]
      /\ \A q \in Requests \ {r} : sdk'[q] = sdk[q]
      /\ sdk'[r].node = sdk[r].node /\ sdk'[r].content = sdk[r].content /\ sdk'[r].pc = "done"
  BY <1>1 DEF ApiShape, Ends
<1>3. ASSUME Prompts(r) PROVE WireKnown(r)' /\ SdkKnown(r)'
  <2>1. WireKnown(r) /\ SdkKnown(r)
    BY <1>3, PromptKept
  <2> QED BY <1>1, <1>2, <2>1 DEF WireKnown, SdkKnown, Own, Listened
<1>4. DOMAIN wire' = Requests /\ DOMAIN wire'[r] = DOMAIN wire[r]
  BY <1>1 DEF ApiShape
<1> QED BY <1>1, <1>2, <1>3, <1>4, SdkStep

\* The connection breaks.
LEMMA BreakStep == ASSUME ApiInv, NEW r \in Requests, Break(r) PROVE ApiInv'
<1>1. ApiShape /\ SdkFrame /\ UNCHANGED <<call, handler, sdk>>
  BY DEF ApiInv, Break, SdkFrame
<1>2. PICK k \in 0 .. Len(wire[r].msgs) :
        wire' = [wire EXCEPT ![r] = [msgs |-> SubSeq(@.msgs, 1, k), state |-> "broken"]]
  BY DEF Break
<1>3. /\ DOMAIN wire' = Requests /\ DOMAIN wire'[r] = DOMAIN wire[r]
      /\ \A q \in Requests \ {r} : wire'[q] = wire[q]
      /\ wire'[r].msgs = SubSeq(wire[r].msgs, 1, k)
  BY <1>1, <1>2 DEF ApiShape
<1>4. ASSUME Prompts(r) PROVE WireKnown(r)' /\ SdkKnown(r)'
  <2> DEFINE msgs == wire[r].msgs
  <2>1. WireKnown(r) /\ SdkKnown(r) /\ IsList(msgs) /\ Len(msgs) \in Nat
    BY <1>4, PromptKept, ListFacts DEF WireKnown
  <2>2. IsList(msgs') /\ Len(msgs') = k /\ \A i \in 1 .. k : i \in 1 .. Len(msgs) /\ msgs'[i] = msgs[i]
    <3>1. msgs' = SubSeq(msgs, 1, k)
      BY <1>3
    <3> HIDE DEF msgs
    <3>2. k \in 0 .. Len(msgs)
      BY DEF msgs
    <3> QED BY <2>1, <3>1, <3>2, ListFront
  <2>3. ASSUME NEW i \in 1 .. Len(msgs')
        PROVE  /\ msgs'[i].node # NoNode => Own(r, msgs[i].node, msgs[i].content)'
               /\ msgs'[i].type = "done" => msgs'[i].node # NoNode
               /\ msgs'[i].type = "delta" =>
                    Listened(r)' # 0 /\ \A j \in 1 .. i : msgs'[j].node = NoNode
    <3>1. i \in 1 .. Len(msgs) /\ msgs'[i] = msgs[i] /\ \A j \in 1 .. i : msgs'[j] = msgs[j]
      BY <2>1, <2>2
    <3>2. /\ msgs[i].node # NoNode => Own(r, msgs[i].node, msgs[i].content)
          /\ msgs[i].type = "done" => msgs[i].node # NoNode
          /\ msgs[i].type = "delta" =>
               Listened(r) # 0 /\ \A j \in 1 .. i : msgs[j].node = NoNode
      BY <2>1, <3>1 DEF WireKnown
    <3>3. Listened(r)' = Listened(r) /\ call' = call
      BY <1>1 DEF Listened
    <3> HIDE DEF msgs
    <3> QED BY <3>1, <3>2, <3>3 DEF Own
  <2>4. WireKnown(r)'
    BY <2>2, <2>3 DEF WireKnown
  <2>5. SdkKnown(r)'
    BY <1>1, <2>1, <2>2 DEF SdkKnown, Own, Listened
  <2> QED BY <2>4, <2>5
<1>5. DOMAIN sdk' = Requests /\ DOMAIN sdk'[r] = DOMAIN sdk[r]
  BY <1>1 DEF ApiShape
<1> QED BY <1>1, <1>3, <1>4, <1>5, SdkStep

\* The store is closed, or the process ends and every connection with it.
LEMMA ServerStep == ASSUME ApiInv, CloseStore \/ Exit PROVE ApiInv'
<1>1. /\ ApiShape /\ TablesKnown /\ setting \in Scenes /\ setting' = setting
      /\ UNCHANGED <<handler, call, sdk, nameVars>>
  BY DEF ApiInv, ApiShape, CloseStore, Exit
<1>2. /\ DOMAIN wire' = Requests
      /\ \A r \in Requests : DOMAIN wire'[r] = DOMAIN wire[r] /\ wire'[r].msgs = wire[r].msgs
  BY <1>1 DEF ApiShape, CloseStore, Exit
<1>3. TablesKnown' /\ RowsStay
  BY <1>1, TablesStep DEF nameVars
<1>4. ApiShape'
  BY <1>1, <1>2 DEF ApiShape, Requests
<1>5. \A r \in Requests : Prompts(r) => Kept(r)'
  <2>1. ASSUME NEW r \in Requests, Prompts(r) PROVE Kept(r)'
    <3>1. Kept(r) /\ nextId \in NodeId
      BY <2>1 DEF ApiInv, TablesKnown
    <3> QED BY <1>1, <1>2, <1>3, <3>1, UntouchedKept
  <2> QED BY <2>1
<1> QED BY <1>1, <1>3, <1>4, <1>5 DEF ApiInv, Requests, Prompts, Req

-----------------------------------------------------------------------------
(***************************************************************************)
(* The invariant, and what follows from it.                                *)
(***************************************************************************)
\* Before any request nothing was said.
LEMMA InvAtStart == ApiInit => ApiInv
<1> SUFFICES ASSUME ApiInit PROVE ApiInv
  OBVIOUS
<1>1. setting \in Scenes
  BY DEF ApiInit
<1>2. ApiShape
  BY DEF ApiInit, ApiShape
<1>3. TablesKnown
  <2>1. /\ nextId = Cardinality(DOMAIN setting.nodes) + 1 /\ nodes = setting.nodes
        /\ aliases = setting.aliases
    BY DEF ApiInit
  <2>2. /\ Cardinality(DOMAIN setting.nodes) \in Nat
        /\ DOMAIN setting.nodes = 1 .. Cardinality(DOMAIN setting.nodes)
        /\ DOMAIN setting.nodes \subseteq DOMAIN Uuids
    BY <1>1, ScenesAssumption, FS_CardinalityType
  <2> QED BY <2>1, <2>2 DEF TablesKnown, AliasesOf, NodeId
<1>4. ASSUME NEW r \in Requests PROVE Kept(r)
  <2>1. /\ call[r].pc = "none" /\ call[r].pieces = 0 /\ call[r].feed = <<>> /\ call[r].content = Nothing
        /\ handler[r].pc = "new" /\ handler[r].then = "act" /\ handler[r].content = Nothing
        /\ wire[r].msgs = <<>> /\ sdk[r].node = NoNode /\ sdk[r].content = Nothing
    BY DEF ApiInit
  <2>2. Listened(r) = 0 /\ Text(r, 0) = Nothing
    BY <2>1 DEF Listened, Nothing, Text
  <2>3. FeedKnown(r)
    BY <2>1, <2>2, EmptyList DEF FeedKnown, Unheard
  <2>4. SavedKnown(r) /\ HandlerKnown(r)
    BY <2>1 DEF SavedKnown, HandlerKnown
  <2>5. WireKnown(r) /\ SdkKnown(r)
    BY <2>1, EmptyList DEF WireKnown, SdkKnown
  <2> QED BY <2>3, <2>4, <2>5 DEF Kept
<1> QED BY <1>2, <1>3, <1>4 DEF ApiInv

\* Every step keeps it.
LEMMA InvKept == ApiInv /\ [ApiNext]_apiVars => ApiInv'
<1> SUFFICES ASSUME ApiInv, [ApiNext]_apiVars PROVE ApiInv'
  OBVIOUS
<1>1. ASSUME NEW r \in Requests, Handle(r) PROVE ApiInv'
  BY <1>1, ArriveStep, LookupStep, ActStep, FailsStep, StartStep, HearDeltaStep, HearErrorStep,
     HearSavedStep, HearEndStep DEF Handle
<1>2. ASSUME NEW r \in Requests, Converse(r) PROVE ApiInv'
  BY <1>2, CallDeltaStep, CallSavesStep, CallEndsStep DEF Converse
<1>3. ASSUME NEW r \in Requests, Sdk(r) \/ Break(r) \/ GiveUp(r) PROVE ApiInv'
  BY <1>3, SdkReplyStep, SdkEventStep, SdkEndsStep, BreakStep DEF Sdk
<1>4. CASE UNCHANGED apiVars
  <2>1. /\ ApiShape /\ TablesKnown /\ setting \in Scenes /\ setting' = setting
        /\ UNCHANGED <<handler, call, wire, sdk, nodes, nextId, aliases>>
    BY <1>4 DEF ApiInv, ApiShape, apiVars, nameVars
  <2>2. TablesKnown' /\ RowsStay
    BY <2>1, TablesStep
  <2>3. ApiShape'
    BY <2>1 DEF ApiShape, Requests
  <2>4. ASSUME NEW r \in Requests, Prompts(r) PROVE Kept(r)'
    <3>1. Kept(r) /\ nextId \in NodeId
      BY <2>4 DEF ApiInv, TablesKnown
    <3> QED BY <2>1, <2>2, <3>1, UntouchedKept
  <2> QED BY <2>1, <2>2, <2>3, <2>4 DEF ApiInv, Requests, Prompts, Req
<1> QED BY <1>1, <1>2, <1>3, <1>4, ServerStep DEF ApiNext

\* The invariant of every behaviour.
LEMMA InvAlways == ApiSpec => []ApiInv
<1> QED BY InvAtStart, InvKept, PTL DEF ApiSpec

\* A client that is given a node without an error has the node its own call
\* stored, and all of its content: for any requests, whatever connections
\* break, nodes are deleted, aliases come and go, and whenever the server is
\* shut down.
THEOREM AnswersAreOwn == ApiSpec => []NamedAnswerIsOwn
<1>1. ApiInv => NamedAnswerIsOwn
  <2> SUFFICES ASSUME ApiInv, NEW r \in Requests, Prompts(r), sdk[r].node # NoNode
               PROVE  /\ sdk[r].node = call[r].node
                      /\ sdk[r].content \in {call[r].content, Text(r, call[r].pieces)}
    BY DEF NamedAnswerIsOwn
  <2>1. Own(r, sdk[r].node, sdk[r].content)
    BY PromptKept DEF SdkKnown
  <2> QED BY <2>1 DEF Own
<1> QED BY <1>1, InvAlways, PTL

=============================================================================
