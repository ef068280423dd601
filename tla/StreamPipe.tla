----------------------------- MODULE StreamPipe -----------------------------
(***************************************************************************)
(* How an answer reaches the user of the Go client: three goroutines and a *)
(* consumer, connected by bounded channels.                                *)
(*                                                                         *)
(*   provider --src--> conversation --events--> client --chunks--> consumer*)
(*                                                                         *)
(* The provider goroutine parses one HTTP stream (processStreamEvents of   *)
(* internal/provider/anthropic; the other providers send the same events). *)
(* The conversation goroutine (streamResponse) forwards its events, saves  *)
(* a node when the stream ends, and may open another stream.  The client   *)
(* goroutine (buildResult) turns events into chunks and fills in the       *)
(* PromptResult.  A goroutine that has taken an event out of one channel   *)
(* holds it until there is room in the next: `todo' is what it still has   *)
(* to send before it looks at its input again.                             *)
(***************************************************************************)
EXTENDS Integers, FiniteSets, Sequences, SequencesExt

CONSTANTS
  Cap,          \* capacity of a channel (100 in the code)
  MaxDeltas,    \* bound on the deltas of one provider stream
  MaxRounds,    \* bound on the provider streams of one call
  BlockIds       \* ids of tool_use blocks

ASSUME PipeAssumption ==
  Cap \in Nat \ {0} /\ MaxDeltas \in Nat /\ MaxRounds \in Nat \ {0} /\ IsFiniteSet(BlockIds)

VARIABLES
  src, events, chunks,  \* the channels: [buf, open]
  prov,                 \* the provider goroutine and its current stream
  conv,                 \* the locals of the conversation goroutine
  client,               \* the locals of the client goroutine
  result,               \* the PromptResult: [node, content]
  got,                  \* the chunks the consumer received
  stored                \* how many assistant nodes were saved

pipeVars == <<src, events, chunks, prov, conv, client, result, got, stored>>

\* Events and chunks.  Pieces of text are numbered over the whole call.
Delta(n)     == [type |-> "delta", n |-> n]
Block(t)     == [type |-> "content_done", tool |-> t]
DoneEvent(r) == [type |-> "done", response |-> r]
ErrorEvent   == [type |-> "error"]
NodeSaved(n) == [type |-> "node_saved", node |-> n]
End(n, err)  == [type |-> "end", node |-> n, error |-> err]   \* Done = true

NoResponse == [stop |-> "none", uses |-> {}]
Responses  == {r \in [stop : {"end_turn", "tool_use", "max_tokens"}, uses : SUBSET BlockIds] :
                 IF r.uses = {} THEN r.stop # "tool_use" ELSE r.stop # "end_turn"}

NewChannel == [buf |-> <<>>, open |-> TRUE]
Room(ch)    == Len(ch.buf) < Cap
Put(ch, e)  == [ch EXCEPT !.buf = Append(@, e)]
Drop(ch)    == [ch EXCEPT !.buf = Tail(@)]
Close(ch)   == [ch EXCEPT !.open = FALSE]
Drained(ch) == ch.buf = <<>> /\ ~ch.open

\* A fresh provider stream: its state, the pieces sent so far over the call,
\* and the blocks it sent.
FreshStream(pieces) == [pc |-> "streaming", first |-> pieces, pieces |-> pieces, blocks |-> {}]

PipeInit ==
  /\ src = NewChannel /\ events = NewChannel /\ chunks = NewChannel
  /\ prov = FreshStream(0)
  /\ conv = [pc |-> "reading", todo |-> <<>>, text |-> FALSE, response |-> NoResponse,
             round |-> 1, last |-> 0]
  /\ client = [pc |-> "reading", todo |-> <<>>, accumulated |-> <<>>,
               emitted |-> {}, response |-> NoResponse, terminated |-> FALSE]
  /\ result = [node |-> 0, content |-> <<>>]
  /\ got = <<>>
  /\ stored = 0

-----------------------------------------------------------------------------
(***************************************************************************)
(* The provider goroutine.                                                 *)
(***************************************************************************)
ProviderFrame == UNCHANGED <<events, chunks, conv, client, result, got, stored>>

SendDelta ==
  /\ prov.pc = "streaming" /\ prov.pieces < prov.first + MaxDeltas /\ Room(src)
  /\ src' = Put(src, Delta(prov.pieces + 1))
  /\ prov' = [prov EXCEPT !.pieces = @ + 1]
  /\ ProviderFrame

\* content_block_stop of a tool_use block.
SendBlock ==
  /\ prov.pc = "streaming" /\ Room(src)
  /\ \E t \in BlockIds \ prov.blocks :
       /\ src' = Put(src, Block(t))
       /\ prov' = [prov EXCEPT !.blocks = @ \cup {t}]
  /\ ProviderFrame

\* message_stop; the response has the blocks that were streamed, and others
\* with a provider that streams none.
SendDone ==
  /\ prov.pc = "streaming" /\ Room(src)
  /\ \E r \in Responses : prov.blocks \subseteq r.uses /\ src' = Put(src, DoneEvent(r))
  /\ prov' = [prov EXCEPT !.pc = "done"]
  /\ ProviderFrame

\* stream.Err() after the loop.
SendError ==
  /\ prov.pc \in {"streaming", "done"} /\ Room(src)
  /\ src' = Put(src, ErrorEvent)
  /\ prov' = [prov EXCEPT !.pc = "failed"]
  /\ ProviderFrame

\* Seeded fault: the close is not deferred, the error path misses it.
CloseSourceAfterDone ==
  /\ prov.pc = "done"
  /\ src' = Close(src)
  /\ prov' = [prov EXCEPT !.pc = "closed"]
  /\ ProviderFrame

\* defer close(events): after Done, after an error, or because the stream
\* just ended.
CloseSource ==
  /\ prov.pc # "closed"
  /\ src' = Close(src)
  /\ prov' = [prov EXCEPT !.pc = "closed"]
  /\ ProviderFrame

Provider == SendDelta \/ SendBlock \/ SendDone \/ SendError \/ CloseSource

-----------------------------------------------------------------------------
(***************************************************************************)
(* The conversation goroutine.                                             *)
(***************************************************************************)

\* events <- event
ConvSend ==
  /\ conv.todo # <<>> /\ Room(events)
  /\ events' = Put(events, Head(conv.todo))
  /\ conv' = [conv EXCEPT !.todo = Tail(@)]
  /\ UNCHANGED <<src, chunks, prov, client, result, got, stored>>

ConvTake ==
  /\ conv.pc = "reading" /\ conv.todo = <<>> /\ src.buf # <<>>
  /\ LET e == Head(src.buf) IN
     conv' = [conv EXCEPT !.todo = <<e>>,
                          !.text = @ \/ e.type = "delta",
                          !.response = IF e.type = "done" THEN e.response ELSE @]
  /\ src' = Drop(src)
  /\ UNCHANGED <<events, chunks, prov, client, result, got, stored>>

StreamEnded == conv.pc = "reading" /\ conv.todo = <<>> /\ Drained(src)

\* The NodeSaved event of an earlier round, if one saved a node.
Named == IF conv.last = 0 THEN <<>> ELSE <<NodeSaved(conv.last)>>

EmptyStream   == conv.response = NoResponse /\ ~conv.text
UselessStream == conv.response.stop = "max_tokens" /\ ~conv.text /\ conv.response.uses = {}

\* Nothing to save: name the node of an earlier round, if there is one.
EndUseless ==
  /\ StreamEnded /\ (EmptyStream \/ UselessStream)
  /\ conv' = [conv EXCEPT !.pc = "returning",
                !.todo = IF conv.last = 0 /\ UselessStream THEN <<ErrorEvent>> ELSE Named]
  /\ UNCHANGED <<src, events, chunks, prov, client, result, got, stored>>

Usable == StreamEnded /\ ~EmptyStream /\ ~UselessStream

EndSaveFails ==
  /\ Usable
  /\ conv' = [conv EXCEPT !.pc = "returning", !.todo = <<ErrorEvent>>]
  /\ UNCHANGED <<src, events, chunks, prov, client, result, got, stored>>

\* The node is saved and named; with max_tokens this is the budget reached
\* or a continuation that could not be opened.
EndSaved ==
  /\ Usable
  /\ stored' = stored + 1
  /\ conv' = [conv EXCEPT !.pc = "returning", !.todo = <<NodeSaved(stored')>>, !.last = stored']
  /\ UNCHANGED <<src, events, chunks, prov, client, result, got>>

\* The node is saved and the output group goes on with another stream.
EndContinued ==
  /\ Usable /\ conv.response.stop = "max_tokens" /\ conv.response.uses = {}
  /\ conv.round < MaxRounds
  /\ stored' = stored + 1
  /\ conv' = [conv EXCEPT !.text = FALSE, !.response = NoResponse, !.round = @ + 1,
                          !.last = stored']
  /\ src' = NewChannel
  /\ prov' = FreshStream(prov.pieces)
  /\ UNCHANGED <<events, chunks, client, result, got>>

\* Seeded fault: the channel stays open.
ConvReturnOpen ==
  /\ conv.pc = "returning" /\ conv.todo = <<>>
  /\ conv' = [conv EXCEPT !.pc = "returned"]
  /\ UNCHANGED <<src, events, chunks, prov, client, result, got, stored>>

\* defer close(events)
ConvReturn ==
  /\ conv.pc = "returning" /\ conv.todo = <<>>
  /\ conv' = [conv EXCEPT !.pc = "returned"]
  /\ events' = Close(events)
  /\ UNCHANGED <<src, chunks, prov, client, result, got, stored>>

Conversation ==
  \/ ConvSend \/ ConvTake \/ EndUseless \/ EndSaveFails \/ EndSaved \/ EndContinued \/ ConvReturn

-----------------------------------------------------------------------------
(***************************************************************************)
(* The client goroutine.                                                   *)
(***************************************************************************)

\* ch <- chunk
ClientSend ==
  /\ client.todo # <<>> /\ Room(chunks)
  /\ chunks' = Put(chunks, Head(client.todo))
  /\ client' = [client EXCEPT !.todo = Tail(@)]
  /\ UNCHANGED <<src, events, prov, conv, result, got, stored>>

\* Seeded fault: blocks that were streamed are sent again.
MissingBlocksAll(r) == SetToSeq({Block(t) : t \in r.uses})

\* emitMissingDoneContentBlocks: the tool_use blocks of the response that no
\* content_done event carried.
MissingBlocks(r) == SetToSeq({Block(t) : t \in r.uses \ client.emitted})

Reads(type) ==
  /\ client.pc = "reading" /\ client.todo = <<>>
  /\ events.buf # <<>> /\ Head(events.buf).type = type
  /\ events' = Drop(events)

ReadDelta ==
  /\ Reads("delta")
  /\ LET e == Head(events.buf) IN
     client' = [client EXCEPT !.accumulated = Append(@, e.n), !.todo = <<e>>]
  /\ UNCHANGED <<src, chunks, prov, conv, result, got, stored>>

ReadBlock ==
  /\ Reads("content_done")
  /\ LET e == Head(events.buf) IN
     client' = [client EXCEPT !.emitted = @ \cup {e.tool}, !.todo = <<e>>]
  /\ UNCHANGED <<src, chunks, prov, conv, result, got, stored>>

ReadDone ==
  /\ Reads("done")
  /\ client' = [client EXCEPT !.response = Head(events.buf).response]
  /\ UNCHANGED <<src, chunks, prov, conv, result, got, stored>>

\* The error ends the stream for the consumer, whatever is still to come.
ReadError ==
  /\ Reads("error")
  /\ client' = [client EXCEPT !.pc = "returning", !.todo = <<End(0, TRUE)>>]
  /\ UNCHANGED <<src, chunks, prov, conv, result, got, stored>>

ReadNodeSaved ==
  /\ Reads("node_saved")
  /\ LET e == Head(events.buf) IN
     /\ result' = [node |-> e.node, content |-> client.accumulated]
     /\ client' = [client EXCEPT !.terminated = TRUE,
                     !.emitted = @ \cup client.response.uses,
                     !.todo = MissingBlocks(client.response) \o <<End(e.node, FALSE)>>]
  /\ UNCHANGED <<src, chunks, prov, conv, got, stored>>

\* Seeded fault: terminated is not looked at.
ReadClosedAlways ==
  /\ client.pc = "reading" /\ client.todo = <<>> /\ Drained(events)
  /\ client' = [client EXCEPT !.pc = "returning", !.todo = <<End(0, TRUE)>>]
  /\ result' = [result EXCEPT !.content = client.accumulated]
  /\ UNCHANGED <<src, events, chunks, prov, conv, got, stored>>

\* The channel was closed: a Done chunk if none was sent.
ReadClosed ==
  /\ client.pc = "reading" /\ client.todo = <<>> /\ Drained(events)
  /\ client' = [client EXCEPT !.pc = "returning",
                  !.todo = IF client.terminated THEN <<>> ELSE <<End(0, TRUE)>>]
  /\ result' = IF client.terminated THEN result
               ELSE [result EXCEPT !.content = client.accumulated]
  /\ UNCHANGED <<src, events, chunks, prov, conv, got, stored>>

\* defer close(ch)
ClientReturn ==
  /\ client.pc = "returning" /\ client.todo = <<>>
  /\ client' = [client EXCEPT !.pc = "returned"]
  /\ chunks' = Close(chunks)
  /\ UNCHANGED <<src, events, prov, conv, result, got, stored>>

Client ==
  \/ ClientSend \/ ReadDelta \/ ReadBlock \/ ReadDone \/ ReadError \/ ReadNodeSaved
  \/ ReadClosed \/ ClientReturn

-----------------------------------------------------------------------------
\* The user ranges over PromptResult.Stream.
Consume ==
  /\ chunks.buf # <<>>
  /\ got' = Append(got, Head(chunks.buf))
  /\ chunks' = Drop(chunks)
  /\ UNCHANGED <<src, events, prov, conv, client, result, stored>>

PipeNext == Provider \/ Conversation \/ Client \/ Consume

\* Goroutines that can run do, a provider stream ends, and the consumer
\* drains the channel, as PromptResult.Stream asks it to.
PipeFairness ==
  /\ WF_pipeVars(Provider) /\ WF_pipeVars(Conversation) /\ WF_pipeVars(Client)
  /\ WF_pipeVars(Consume)

PipeSpec == PipeInit /\ [][PipeNext]_pipeVars /\ PipeFairness

-----------------------------------------------------------------------------
(***************************************************************************)
(* What the consumer can rely on.                                          *)
(***************************************************************************)
Deltas(seq) == {i \in DOMAIN seq : seq[i].type = "delta"}
Terminals   == {i \in DOMAIN got : got[i].type = "end"}
Delivered(b) == {i \in DOMAIN got : got[i] = b}

\* The text in a list is the pieces after lo up to hi, in order.
HoldsText(seq, lo, hi) ==
  /\ {seq[i].n : i \in Deltas(seq)} = lo + 1 .. hi
  /\ \A i, j \in Deltas(seq) : i < j => seq[i].n < seq[j].n

\* A Done chunk is the last chunk, and so the only one.
OneTerminalChunk == \A i \in Terminals : i = Len(got)

\* When the consumer sees the Done chunk of a saved answer, that node is the
\* one saved last; PromptResult already names it and holds exactly the text
\* of all rounds, which was delivered before; and every tool_use block of the
\* final response was delivered once, streamed or not.
NamedAnswerIsWhole ==
  \A i \in Terminals : ~got[i].error =>
    /\ result = [node |-> stored, content |-> [k \in 1 .. prov.pieces |-> k]]
    /\ got[i].node = stored
    /\ HoldsText(got, 0, prov.pieces)
    /\ \A t \in conv.response.uses : Cardinality(Delivered(Block(t))) = 1

\* "a Done chunk so consumers never hang waiting for one": a consumer that
\* drains the channel gets its Done chunk and sees the channel closed.
ConsumerEnds == <>(Terminals # {} /\ Drained(chunks))

\* The goroutines of the call return.  One case is left open: after an Error
\* nobody reads events, so a group that goes on after the error can fill the
\* channel and stay behind for ever.
Abandoned == client.pc = "returned" /\ conv.round > 1 /\ ~Room(events)
GoroutinesReturn ==
  <>[](client.pc = "returned" /\ (Abandoned \/ (conv.pc = "returned" /\ prov.pc = "closed")))

\* StreamChunk: "NodeID is set when Done=true and the assistant node has been
\* saved to storage".  No Done chunk made after a save leaves the node out.
DoneNamesSaved ==
  [][\A e \in ToSet(client'.todo) \ ToSet(client.todo) :
       e.type = "end" /\ stored > 0 => e.node # 0]_pipeVars

=============================================================================
