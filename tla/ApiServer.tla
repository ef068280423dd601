----------------------------- MODULE ApiServer -----------------------------
(***************************************************************************)
(* The HTTP server (internal/api) between its clients, here the Go SDK     *)
(* (sdks/go), and the store, until it is shut down (cli/serve.go).         *)
(*                                                                         *)
(* A request is a goroutine of the server that resolves a name, one        *)
(* statement at a time, and acts on the node, or that drains the events    *)
(* of a call of the conversation manager and answers with JSON or with     *)
(* server-sent events.  Of the call only its events and the rows it writes *)
(* are kept; Conversation and StreamPipe have the rest.                    *)
(***************************************************************************)
EXTENDS NodeNames

CONSTANTS
  Scenes,     \* [key, requests, nodes, aliases, stops]: the server's API key,
              \* the requests (pieces bounds the deltas of an answer), what the
              \* store holds, whether a signal comes
  LineLimit   \* pieces of text in the longest line bufio.Scanner takes (64 KiB)

\* What the store holds was given ids before, and nobody names an alias that
\* is spelled as the id of a row still to come.
AliasesOf(s) == DOMAIN s.aliases \cup {s.requests[r].alias : r \in DOMAIN s.requests}
ASSUME ScenesAssumption ==
  \A s \in Scenes :
    /\ IsFiniteSet(DOMAIN s.nodes) /\ DOMAIN s.nodes = 1 .. Cardinality(DOMAIN s.nodes)
    /\ DOMAIN s.nodes \subseteq DOMAIN Uuids
    /\ \A n \in DOMAIN Uuids : Uuids[n] \in AliasesOf(s) => n \in DOMAIN s.nodes

VARIABLES
  setting,   \* the scene
  server,    \* "up", "closing" once the store is closed, "gone"
  handler,   \* request -> [pc, name, then, content, node]
  call,      \* request -> its call: [pc, pieces, feed, node, content]
  wire,      \* request -> the response: [msgs, state]
  sdk        \* request -> what its client has: [pc, content, node, error, status]

nameVars == <<nodes, nextId, toolIndex, aliases>>
apiVars == <<setting, server, handler, call, wire, sdk, nameVars>>

Requests == DOMAIN setting.requests
Req(r)   == setting.requests[r]
Prompts(r) == Req(r).op \in {"prompt", "ask"}

\* Contents: text of an answer, its tool blocks, what a user said.
Nothing    == <<"nothing", 0, 0>>
Text(r, n) == IF n = 0 THEN Nothing ELSE <<"text", r, n>>
Blocks(r)  == <<"blocks", r, 0>>
Said(r)    == <<"said", r, 0>>

Message(type, node, content) ==
  [type |-> type, node |-> node, content |-> content, list |-> {}, status |-> 200]
Failure(status) == [Message("reply", NoNode, Nothing) EXCEPT !.status = status]
Listing(node, list) == [Message("reply", node, Nothing) EXCEPT !.list = list]

ApiInit ==
  /\ setting \in Scenes
  /\ nodes = setting.nodes /\ nextId = Cardinality(DOMAIN nodes) + 1 /\ toolIndex = {}
  /\ aliases = setting.aliases
  /\ server = "up"
  /\ handler = [r \in Requests |->
       [pc |-> "new", name |-> Req(r).name, then |-> "act", content |-> Nothing, node |-> NoNode]]
  /\ call = [r \in Requests |->
       [pc |-> "none", pieces |-> 0, feed |-> <<>>, node |-> NoNode, content |-> Nothing]]
  /\ wire = [r \in Requests |-> [msgs |-> <<>>, state |-> "open"]]
  /\ sdk = [r \in Requests |->
       [pc |-> "sent", content |-> Nothing, node |-> NoNode, error |-> FALSE, status |-> 0]]

-----------------------------------------------------------------------------
(***************************************************************************)
(* The handlers.                                                           *)
(***************************************************************************)
Running(r, pc) == server # "gone" /\ handler[r].pc = pc
StoreOpen == server = "up"
\* r.Context() is cancelled some time after the client is gone or the handler
\* returned; until then statements may still come through.
StoreFails(r) ==
  ~StoreOpen \/ sdk[r].pc = "done" \/ wire[r].state = "broken" \/ handler[r].pc = "over"

Goes(r, pc) == handler' = [handler EXCEPT ![r].pc = pc]
\* What is written to a broken connection is lost.
Connected(r) == wire[r].state = "open"
Writes(r, m) ==
  wire' = IF Connected(r) THEN [wire EXCEPT ![r].msgs = Append(@, m)] ELSE wire
WritesLast(r, m) ==
  wire' = IF Connected(r)
          THEN [wire EXCEPT ![r] = [msgs |-> Append(@.msgs, m), state |-> "ended"]] ELSE wire
Reply(r, m) == Goes(r, "over") /\ WritesLast(r, m)
HandlerFrame == UNCHANGED <<setting, server, sdk>>

\* authMiddleware: the Authorization header, if there is one, hides X-API-Key.
Authorized(r) ==
  LET sent == Req(r).creds IN
  setting.key = "" \/ setting.key = IF sent.bearer # "" THEN sent.bearer ELSE sent.apiKey

FirstStep(r) ==
  CASE Req(r).op = "prompt" -> "call"
    [] Req(r).op \in {"unalias", "list"} -> "act"
    [] OTHER -> "exact"

\* A request reaches its handler; a body that is no prompt is refused.
Arrive(r) ==
  /\ Running(r, "new") /\ sdk[r].pc = "sent"
  /\ IF ~Authorized(r) THEN Reply(r, Failure(401))
     ELSE IF Prompts(r) /\ ~Req(r).valid THEN Reply(r, Failure(400))
     ELSE Goes(r, FirstStep(r)) /\ UNCHANGED wire
  /\ HandlerFrame /\ UNCHANGED <<call, nameVars>>

\* promptResponseFromNode: the text that was streamed, or else the content
\* of the node that was found.
Answer(r, found) ==
  LET content == IF handler[r].content # Nothing \/ found = NoNode THEN handler[r].content
                 ELSE nodes[found].content
  IN  Message(IF Req(r).stream THEN "done" ELSE "reply", handler[r].node, content)

\* What follows ResolveNode: the handler's own work, or the answer to a
\* prompt, which takes an error for a node that is not there.
Resolved(r, found) ==
  IF handler[r].then = "answer"
  THEN IF Req(r).stream THEN Goes(r, "drain") /\ Writes(r, Answer(r, found))
       ELSE Reply(r, Answer(r, found))
  ELSE IF found = NoNode THEN Reply(r, Failure(404))
  ELSE /\ handler' = [handler EXCEPT
                        ![r].pc = IF Req(r).op = "ask" THEN "call" ELSE "act", ![r].node = found]
       /\ UNCHANGED wire

Lookup(r, pc, matches, next) ==
  /\ Running(r, pc) /\ StoreOpen
  /\ \/ \E n \in matches : Resolved(r, n)
     \/ matches = {} /\ next # "none" /\ Goes(r, next) /\ UNCHANGED wire
     \/ matches = {} /\ next = "none" /\ Resolved(r, NoNode)
  /\ HandlerFrame /\ UNCHANGED <<call, nameVars>>

ResolveExact(r)  == Lookup(r, "exact", GetNode(handler[r].name), "prefix")
ResolvePrefix(r) == Lookup(r, "prefix", GetNodeByPrefix(handler[r].name), "alias")
ResolveAlias(r)  == Lookup(r, "alias", GetNodeByAlias(handler[r].name), "none")

ResolveFails(r) ==
  /\ \E pc \in {"exact", "prefix", "alias"} : Running(r, pc)
  /\ StoreFails(r)
  /\ IF handler[r].then = "answer" THEN Resolved(r, NoNode) ELSE Reply(r, Failure(500))
  /\ HandlerFrame /\ UNCHANGED <<call, nameVars>>

\* handleGetTree goes by the root_id of the row it resolved.
TreeRoot(n) == IF n \in DOMAIN nodes THEN nodes[n].root ELSE NoNode

\* The statement a handler is for; each reply names the node it resolved.
Act(r) ==
  /\ Running(r, "act") /\ StoreOpen
  /\ \/ /\ Req(r).op = "delete" /\ DeleteNode(handler[r].node)
        /\ Reply(r, Message("reply", handler[r].node, Nothing)) /\ UNCHANGED aliases
     \/ /\ Req(r).op = "alias" /\ AliasFree(Req(r).alias) /\ CreateAlias(handler[r].node, Req(r).alias)
        /\ Reply(r, Message("reply", handler[r].node, Nothing))
        /\ UNCHANGED <<nodes, nextId, toolIndex>>
     \/ /\ Req(r).op = "alias" /\ ~AliasFree(Req(r).alias)
        /\ Reply(r, Failure(409)) /\ UNCHANGED nameVars
     \/ /\ Req(r).op = "unalias" /\ DeleteAlias(Req(r).alias)
        /\ Reply(r, Message("reply", NoNode, Nothing)) /\ UNCHANGED <<nodes, nextId, toolIndex>>
     \/ /\ Req(r).op = "aliases"
        /\ Reply(r, Listing(handler[r].node, ListAliases(handler[r].node)))
        /\ UNCHANGED nameVars
     \/ /\ Req(r).op = "tree"
        /\ Reply(r, Listing(handler[r].node, SubtreeIds(TreeRoot(handler[r].node))))
        /\ UNCHANGED nameVars
     \/ /\ Req(r).op = "list"
        /\ Reply(r, Listing(NoNode, ListRootNodes)) /\ UNCHANGED nameVars
  /\ HandlerFrame /\ UNCHANGED call

ActFails(r) ==
  /\ Running(r, "act") /\ StoreFails(r)
  /\ Reply(r, Failure(500))
  /\ HandlerFrame /\ UNCHANGED <<call, nameVars>>

-----------------------------------------------------------------------------
(***************************************************************************)
(* Prompts: the call and the handler that drains its events.               *)
(***************************************************************************)
\* A root is its own root_id.
Row(parent, content) ==
  [parent |-> parent, content |-> content,
   root |-> IF parent \in DOMAIN nodes THEN nodes[parent].root ELSE nextId]
Fails(r) == IF Req(r).stream THEN WritesLast(r, Message("error", NoNode, Nothing))
            ELSE WritesLast(r, Failure(500))

\* Prompt, PromptFrom: the user's node is stored and a stream opened.
StartCall(r) ==
  /\ Running(r, "call") /\ StoreOpen /\ HasId
  /\ Req(r).op = "ask" => handler[r].node \in DOMAIN nodes
  /\ CreateNode(Row(handler[r].node, Said(r)))
  /\ call' = [call EXCEPT ![r].pc = "open", ![r].node = nextId]
  /\ handler' = [handler EXCEPT ![r].pc = "drain", ![r].node = NoNode]
  /\ IF Req(r).stream THEN Writes(r, Message("start", NoNode, Nothing)) ELSE UNCHANGED wire
  /\ HandlerFrame /\ UNCHANGED <<aliases, toolIndex>>

\* The store fails or the node is gone; or the provider refuses the request,
\* once the user's node is stored.
StartFails(r) ==
  /\ Running(r, "call")
  /\ \/ UNCHANGED <<nodes, nextId>>
     \/ /\ StoreOpen /\ HasId
        /\ Req(r).op = "ask" => handler[r].node \in DOMAIN nodes
        /\ CreateNode(Row(handler[r].node, Said(r)))
  /\ Goes(r, "over") /\ Fails(r)
  /\ HandlerFrame /\ UNCHANGED <<call, toolIndex, aliases>>

Calling(r) == server # "gone" /\ call[r].pc = "open"
CallFrame == UNCHANGED <<setting, server, handler, wire, sdk, aliases>>
Event(type, node) == [type |-> type, node |-> node]
\* Seeded fault: the channel is not closed.
FeedsUnclosed(r, more) == call' = [call EXCEPT ![r].feed = @ \o more, ![r].pc = "returned"]
\* The last events, and close(events).
Feeds(r, more) == call' = [call EXCEPT ![r].feed = @ \o more, ![r].pc = "closed"]

CallDelta(r) ==
  /\ Calling(r) /\ call[r].pieces < Req(r).pieces
  /\ call' = [call EXCEPT ![r].pieces = @ + 1, ![r].feed = Append(@, Event("delta", NoNode))]
  /\ CallFrame /\ UNCHANGED <<nodes, nextId, toolIndex>>

\* The answer is stored below the user's node, with tools as blocks; of a
\* broken one the text there is, after the error was passed on.
CallSaves(r) ==
  /\ Calling(r) /\ StoreOpen /\ HasId
  /\ \E broken, tools \in BOOLEAN :
       /\ call[r].pieces > 0 \/ (tools /\ ~broken)
       /\ LET content == IF tools /\ ~broken THEN Blocks(r) ELSE Text(r, call[r].pieces) IN
          /\ CreateNode(Row(call[r].node, content))
          /\ call' = [call EXCEPT ![r].pc = "closed", ![r].node = nextId, ![r].content = content,
               ![r].feed = @ \o (IF broken THEN <<Event("error", NoNode)>> ELSE <<>>)
                             \o <<Event("saved", nextId)>>]
  /\ CallFrame /\ UNCHANGED toolIndex

\* The provider failed before any text, or the answer could not be stored.
CallFails(r) ==
  /\ Calling(r)
  /\ call[r].pieces = 0 \/ StoreFails(r)
  /\ Feeds(r, <<Event("error", NoNode)>>)
  /\ CallFrame /\ UNCHANGED <<nodes, nextId, toolIndex>>

\* The stream ended without an event: nothing to store, nothing to say.
CallEmpty(r) ==
  /\ Calling(r) /\ call[r].pieces = 0
  /\ Feeds(r, <<>>)
  /\ CallFrame /\ UNCHANGED <<nodes, nextId, toolIndex>>

Heard(r, type) ==
  /\ Running(r, "drain") /\ call[r].feed # <<>> /\ Head(call[r].feed).type = type
  /\ call' = [call EXCEPT ![r].feed = Tail(@)]
  /\ HandlerFrame /\ UNCHANGED nameVars

HearDelta(r) ==
  /\ Heard(r, "delta")
  /\ LET held == handler[r].content IN
     handler' = [handler EXCEPT ![r].content = Text(r, held[3] + 1)]
  /\ IF Req(r).stream THEN Writes(r, Message("delta", NoNode, Nothing)) ELSE UNCHANGED wire

\* collectEvents returns at once, streamPromptResponse goes on.
HearError(r) ==
  /\ Heard(r, "error")
  /\ IF Req(r).stream THEN Writes(r, Message("error", NoNode, Nothing)) /\ UNCHANGED handler
     ELSE Reply(r, Failure(500))

Resolving(r, node) ==
  handler' = [handler EXCEPT ![r].pc = "exact", ![r].then = "answer", ![r].node = node,
                ![r].name = IF node = NoNode THEN <<>> ELSE Spelled(node)]

\* A stream is answered when the node is known, JSON when there are no more
\* events.
HearSaved(r) ==
  /\ Heard(r, "saved")
  /\ IF Req(r).stream THEN Resolving(r, Head(call[r].feed).node)
     ELSE handler' = [handler EXCEPT ![r].node = Head(call[r].feed).node]
  /\ UNCHANGED wire

HearEnd(r) ==
  /\ Running(r, "drain") /\ call[r].feed = <<>> /\ call[r].pc = "closed"
  /\ IF Req(r).stream
     THEN /\ Goes(r, "over")
          /\ wire' = IF Connected(r) THEN [wire EXCEPT ![r].state = "ended"] ELSE wire
     ELSE Resolving(r, handler[r].node) /\ UNCHANGED wire
  /\ HandlerFrame /\ UNCHANGED <<call, nameVars>>

Handle(r) ==
  \/ Arrive(r) \/ ResolveExact(r) \/ ResolvePrefix(r) \/ ResolveAlias(r) \/ ResolveFails(r)
  \/ Act(r) \/ ActFails(r) \/ StartCall(r) \/ StartFails(r)
  \/ HearDelta(r) \/ HearError(r) \/ HearSaved(r) \/ HearEnd(r)

Converse(r) == CallDelta(r) \/ CallSaves(r) \/ CallFails(r) \/ CallEmpty(r)

-----------------------------------------------------------------------------
(***************************************************************************)
(* Shutdown: the signal handler closes the store and then calls            *)
(* http.Server.Shutdown, which makes ListenAndServe return, and with it    *)
(* main; whatever still runs ends with the process.                        *)
(***************************************************************************)
CloseStore ==
  /\ setting.stops /\ server = "up" /\ server' = "closing"
  /\ UNCHANGED <<setting, handler, call, wire, sdk, nameVars>>

Exit ==
  /\ server = "closing" /\ server' = "gone"
  /\ wire' = [r \in Requests |->
       IF wire[r].state = "open" THEN [wire[r] EXCEPT !.state = "broken"] ELSE wire[r]]
  /\ UNCHANGED <<setting, handler, call, sdk, nameVars>>

-----------------------------------------------------------------------------
(***************************************************************************)
(* The SDK: doRequest, and the goroutine of a Stream.                      *)
(***************************************************************************)
SdkFrame == UNCHANGED <<setting, server, handler, call, nameVars>>
Read(r) == wire' = [wire EXCEPT ![r].msgs = Tail(@)]
Reading(r) == sdk[r].pc = "sent" /\ wire[r].msgs # <<>>
Ends(r, error) == sdk' = [sdk EXCEPT ![r].pc = "done", ![r].error = @ \/ error]

\* doRequest, parseError
SdkReply(r) ==
  LET m == Head(wire[r].msgs) IN
  /\ Reading(r) /\ m.type = "reply" /\ Read(r)
  /\ sdk' = [sdk EXCEPT ![r] = [pc |-> "done", content |-> m.content, node |-> m.node,
               error |-> m.status >= 400, status |-> m.status]]
  /\ SdkFrame

TooLong(m) == m.type = "done" /\ m.content[3] > LineLimit

\* One event, parsed and sent on.
SdkEvent(r) ==
  LET m == Head(wire[r].msgs) IN
  /\ Reading(r) /\ m.type # "reply" /\ ~TooLong(m) /\ Read(r)
  /\ sdk' = CASE m.type = "delta" -> [sdk EXCEPT ![r].content = Text(r, @[3] + 1)]
              [] m.type = "done"  -> [sdk EXCEPT ![r].node = m.node,
                                        ![r].content = IF m.content = Nothing THEN @ ELSE m.content]
              [] m.type = "error" -> [sdk EXCEPT ![r].error = TRUE]
              [] OTHER -> sdk
  /\ SdkFrame

\* bufio.ErrTooLong: the scanner stops, the body is closed.
SdkTooLong(r) ==
  /\ Reading(r) /\ TooLong(Head(wire[r].msgs))
  /\ Ends(r, TRUE) /\ SdkFrame /\ UNCHANGED wire

\* The end of the body; of one that broke off the transport may tell.
SdkEnd(r) ==
  /\ sdk[r].pc = "sent" /\ wire[r].msgs = <<>>
  /\ \/ wire[r].state = "ended" /\ Ends(r, FALSE)
     \/ wire[r].state = "broken" /\ \E told \in BOOLEAN : Ends(r, told \/ ~Req(r).stream)
  /\ SdkFrame /\ UNCHANGED wire

\* The connection breaks: what was not read is lost, the half of an event
\* that came is no JSON and is parsed to an event without content.
Break(r) ==
  /\ sdk[r].pc = "sent" /\ wire[r].state # "broken" /\ handler[r].pc # "new"
  /\ \E k \in 0 .. Len(wire[r].msgs) :
       wire' = [wire EXCEPT ![r] = [msgs |-> SubSeq(@.msgs, 1, k), state |-> "broken"]]
  /\ SdkFrame /\ UNCHANGED sdk

\* The caller's context ends, or the 30 seconds of the client are over.
GiveUp(r) ==
  /\ sdk[r].pc = "sent"
  /\ Ends(r, TRUE) /\ SdkFrame /\ UNCHANGED wire

Sdk(r) == SdkReply(r) \/ SdkEvent(r) \/ SdkTooLong(r) \/ SdkEnd(r)

ApiNext ==
  \/ \E r \in Requests : Handle(r) \/ Converse(r) \/ Sdk(r) \/ Break(r) \/ GiveUp(r)
  \/ CloseStore \/ Exit

\* Goroutines that can run do, provider streams end, clients read; nobody
\* has to send a signal, break a connection or give up.
ApiFairness ==
  /\ WF_apiVars(Exit)
  /\ \A r \in {1, 2} :
       /\ WF_apiVars(r \in Requests /\ Handle(r))
       /\ WF_apiVars(r \in Requests /\ Converse(r))
       /\ WF_apiVars(r \in Requests /\ Sdk(r))

ApiSpec == ApiInit /\ [][ApiNext]_apiVars /\ ApiFairness

-----------------------------------------------------------------------------
(***************************************************************************)
(* What a client can rely on.                                              *)
(***************************************************************************)
\* Prompt and PromptStream with Node: no error, and a node id for a stream.
Succeeded(r) ==
  sdk[r].pc = "done" /\ ~sdk[r].error /\ (Req(r).stream => sdk[r].node # NoNode)

\* A client that is given a node without an error has the node its own call
\* stored and, unless that was deleted before it was looked up, the whole
\* content: however connections break, whatever is deleted, named or shut
\* down meanwhile.
NamedAnswerIsOwn ==
  \A r \in Requests : Prompts(r) /\ Succeeded(r) /\ sdk[r].node # NoNode =>
    /\ sdk[r].node = call[r].node
    /\ sdk[r].content \in {call[r].content, Text(r, call[r].pieces)}

\* Every request ends for its client, and its handler returns.
RequestsEnd ==
  <>[](\A r \in Requests : sdk[r].pc = "done" /\ (server = "gone" \/ handler[r].pc \in {"new", "over"}))

\* openapi.yaml: the content of a PromptResponse is the "Response content".
\* What a prompt returns is of its own call, whether or not a node was saved.
ContentIsOwn ==
  \A r \in Requests : Prompts(r) /\ Succeeded(r) =>
    sdk[r].content = Nothing \/ sdk[r].content[2] = r
=============================================================================
