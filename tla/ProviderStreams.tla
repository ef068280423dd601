--------------------------- MODULE ProviderStreams ---------------------------
(***************************************************************************)
(* How the providers read the body of a streamed answer: parseSSEStream    *)
(* and parseResponsesSSEStream of package openai, parseSSEStream of        *)
(* package gemini.  A step is one line of the body and all that the loop   *)
(* does for it.                                                            *)
(*                                                                         *)
(* The service sends one answer, cut into lines; lines of different calls  *)
(* may come in any order.  The body may end or break after any line.       *)
(***************************************************************************)
EXTENDS Integers, FiniteSets, Sequences, SequencesExt

CONSTANT Answers
  \* what services answer: [api, texts, calls, stop], where api is "chat",
  \* "responses" or "gemini", texts a number of pieces, stop "end" or "length",
  \* and a call is [id, name, args, cut, style]: args pieces of arguments,
  \* which are not the whole JSON if the limit cut them; id "" where the
  \* service gives none.  Of the Responses API, style says which events a call
  \* comes with: "pieces", "whole" (arguments in the first one) or "late"
  \* (the last one only).

\* Gemini calls without an id go by their name.
CallId(call) == IF call.id = "" THEN call.name ELSE call.id

\* Services name the calls of an answer, Gemini perhaps by the function only,
\* and send no two that look the same.
ASSUME AnswersAssumption ==
  \A a \in Answers :
    /\ a.api \in {"chat", "responses", "gemini"} /\ a.texts \in Nat /\ a.stop \in {"end", "length"}
    /\ a.calls \in Seq([id : STRING, name : STRING, args : Nat, cut : BOOLEAN,
                        style : {"pieces", "whole", "late"}])
    /\ a.api # "gemini" => \A i \in DOMAIN a.calls : a.calls[i].id # ""
    /\ \A i, j \in DOMAIN a.calls :
         /\ a.calls[i].args = 0 /\ a.calls[j].args = 0
         /\ CallId(a.calls[i]) = CallId(a.calls[j]) /\ a.calls[i].name = a.calls[j].name
         => i = j

VARIABLES
  served,  \* the answer
  wire,    \* what was sent: [texts, calls: call -> lines, finished]
  calls,   \* currentToolCalls, currentFunctionCalls, toolUseBlocks
  emitted, \* calls with a content_done event (emittedFunctionCalls)
  stop,    \* finalStopReason, finishReason
  channel  \* what the channel got: [log, text, blocks, response]

streamVars == <<served, wire, calls, emitted, stop, channel>>

Api       == served.api
Sent(i)   == wire.calls[i]
CallOf(i) == served.calls[i]
Calls     == DOMAIN served.calls
Args(i, n) == [k \in 1 .. n |-> <<i, k>>]
ToolUse(id, name, args) == [id |-> id, name |-> name, args |-> args]
\* A call as it should arrive.
Whole(i)  == ToolUse(CallId(CallOf(i)), CallOf(i).name, Args(i, CallOf(i).args))
NoBlock == ToolUse("", "", <<>>)
NoAnswer == [text |-> FALSE, calls |-> <<>>, stop |-> "none"]

StreamInit ==
  /\ served \in Answers
  /\ wire = [texts |-> 0, calls |-> [i \in Calls |-> 0], finished |-> FALSE]
  /\ calls = [i \in {} |-> NoBlock] /\ emitted = {} /\ stop = ""
  /\ channel = [log |-> <<"start">>, text |-> 0, blocks |-> <<>>, response |-> NoAnswer]

Open == Last(channel.log) \notin {"done", "error"}
Line == Open /\ ~wire.finished
WithCall(i, block) == IF i \in DOMAIN calls THEN [calls EXCEPT ![i] = block]
                      ELSE [j \in DOMAIN calls \cup {i} |-> IF j = i THEN block ELSE calls[j]]
\* Mutant of Held: pieces go to the call that came last.
HeldLast(i) == IF calls = <<>> THEN NoBlock ELSE calls[Max(DOMAIN calls)]
Held(i) == IF i \in DOMAIN calls THEN calls[i] ELSE NoBlock
Emit(blocks) ==
  channel' = [channel EXCEPT !.log = @ \o [i \in DOMAIN blocks |-> "content_done"],
                             !.blocks = @ \o blocks]
Finish(type, response) ==
  channel' = [channel EXCEPT !.log = Append(@, type), !.response = response]
CallLine(i) == wire' = [wire EXCEPT !.calls[i] = @ + 1]

\* A piece of text, in all three.
TextLine ==
  /\ Line /\ wire.texts < served.texts
  /\ wire' = [wire EXCEPT !.texts = @ + 1]
  /\ channel' = [channel EXCEPT !.log = Append(@, "delta"), !.text = @ + 1]
  /\ UNCHANGED <<served, calls, emitted, stop>>

-----------------------------------------------------------------------------
(***************************************************************************)
(* Chat completions.                                                       *)
(***************************************************************************)
\* The first line of a call has its id and name, the others a piece of its
\* arguments each.
ChatCallLine(i) ==
  LET header == Sent(i) = 0
      block  == IF header
                THEN [Held(i) EXCEPT !.id = CallOf(i).id, !.name = CallOf(i).name]
                ELSE [Held(i) EXCEPT !.args = Append(@, <<i, Sent(i)>>)]
  IN /\ Api = "chat" /\ Line /\ Sent(i) <= CallOf(i).args
     /\ CallLine(i) /\ calls' = WithCall(i, block)
     /\ UNCHANGED <<served, emitted, stop, channel>>

AllSent == /\ wire.texts = served.texts
           /\ \A i \in Calls : Sent(i) = CallOf(i).args + 1

\* The finish reason: unless the limit cut the answer the calls are emitted,
\* in the order of a Go map.
ChatFinish ==
  /\ Api = "chat" /\ Line /\ AllSent
  /\ wire' = [wire EXCEPT !.finished = TRUE]
  /\ stop' = IF served.stop = "length" THEN "max_tokens"
             ELSE IF Calls # {} THEN "tool_calls" ELSE "stop"
  /\ IF served.stop = "length" THEN UNCHANGED <<emitted, channel>>
     ELSE /\ emitted' = DOMAIN calls
          /\ \E order \in SetToSeqs(DOMAIN calls) : Emit([k \in DOMAIN order |-> calls[order[k]]])
  /\ UNCHANGED <<served, calls>>

-----------------------------------------------------------------------------
(***************************************************************************)
(* The Responses API.                                                      *)
(***************************************************************************)
Styled(i, styles) == Api = "responses" /\ Line /\ CallOf(i).style \in styles

\* response.output_item.added
ItemAdded(i) ==
  /\ Styled(i, {"pieces", "whole"}) /\ Sent(i) = 0
  /\ CallLine(i)
  /\ calls' = WithCall(i, ToolUse(CallOf(i).id, CallOf(i).name,
                           IF CallOf(i).style = "whole" THEN Args(i, CallOf(i).args) ELSE <<>>))
  /\ UNCHANGED <<served, emitted, stop, channel>>

\* response.function_call_arguments.delta, response.custom_tool_call_input.delta
ArgumentsDelta(i) ==
  /\ Styled(i, {"pieces"}) /\ Sent(i) \in 1 .. CallOf(i).args
  /\ CallLine(i)
  /\ calls' = WithCall(i, [Held(i) EXCEPT !.args = Append(@, <<i, Sent(i)>>)])
  /\ UNCHANGED <<served, emitted, stop, channel>>

\* Mutant of EmitOnce: emits for every event that ends a call.
EmitAlways(i, block) == emitted' = emitted \cup {i} /\ Emit(<<block>>)

\* emitResponsesToolCallDone
EmitOnce(i, block) ==
  IF i \in emitted THEN UNCHANGED <<emitted, channel>>
  ELSE emitted' = emitted \cup {i} /\ Emit(<<block>>)

\* response.function_call_arguments.done, response.custom_tool_call_input.done:
\* the arguments again, unless there are none.
ArgumentsDone(i) ==
  LET block == IF CallOf(i).args = 0 THEN Held(i)
               ELSE [Held(i) EXCEPT !.args = Args(i, CallOf(i).args)]
  IN /\ Styled(i, {"pieces"}) /\ Sent(i) = CallOf(i).args + 1
     /\ CallLine(i)
     /\ IF i \in DOMAIN calls THEN calls' = WithCall(i, block) /\ EmitOnce(i, block)
        ELSE UNCHANGED <<calls, emitted, channel>>
     /\ UNCHANGED <<served, stop>>

LinesBeforeLast(i) == CASE CallOf(i).style = "pieces" -> CallOf(i).args + 2
                        [] CallOf(i).style = "whole"  -> 1
                        [] OTHER -> 0

\* response.output_item.done: what was known before goes first.
ItemDone(i) ==
  LET item  == ToolUse(CallOf(i).id, CallOf(i).name, Args(i, CallOf(i).args))
      known == Held(i)
      block == ToolUse(IF known.id # "" THEN known.id ELSE item.id,
                     IF known.name # "" THEN known.name ELSE item.name,
                     IF item.args = <<>> THEN known.args ELSE item.args)
  IN /\ Api = "responses" /\ Line /\ Sent(i) = LinesBeforeLast(i)
     /\ CallLine(i) /\ calls' = WithCall(i, block) /\ EmitOnce(i, block)
     /\ UNCHANGED <<served, stop>>

AllDone == wire.texts = served.texts /\ \A i \in Calls : Sent(i) = LinesBeforeLast(i) + 1

\* Seeded fault: the calls are looked at only where the status is.
ResponsesResultStopped ==
  [text |-> served.texts > 0, calls |-> [i \in Calls |-> Whole(i)], stop |-> "stop"]

\* convertResponsesResult, of a response that is not incomplete.
ResponsesResult ==
  [text |-> served.texts > 0, calls |-> [i \in Calls |-> Whole(i)],
   stop |-> IF Calls # {} THEN "tool_calls" ELSE "stop"]

\* response.completed
ResponseCompleted ==
  /\ Api = "responses" /\ Line /\ AllDone /\ served.stop = "end"
  /\ wire' = [wire EXCEPT !.finished = TRUE]
  /\ Finish("done", ResponsesResult)
  /\ UNCHANGED <<served, calls, emitted, stop>>

\* response.incomplete, which no case of the switch is for.
ResponseIncomplete ==
  /\ Api = "responses" /\ Line /\ AllDone /\ served.stop = "length"
  /\ wire' = [wire EXCEPT !.finished = TRUE]
  /\ UNCHANGED <<served, calls, emitted, stop, channel>>

\* error, response.failed
ResponseFailed ==
  /\ Api = "responses" /\ Line
  /\ Finish("error", NoAnswer)
  /\ UNCHANGED <<served, wire, calls, emitted, stop>>

-----------------------------------------------------------------------------
(***************************************************************************)
(* Gemini: calls come whole and in order.                                  *)
(***************************************************************************)
GeminiCallLine(i) ==
  /\ Api = "gemini" /\ Line /\ Sent(i) = 0 /\ \A j \in Calls : j < i => Sent(j) = 1
  /\ CallLine(i) /\ calls' = WithCall(i, Whole(i)) /\ emitted' = emitted \cup {i}
  /\ Emit(<<Whole(i)>>)
  /\ UNCHANGED <<served, stop>>

GeminiFinish ==
  /\ Api = "gemini" /\ Line /\ wire.texts = served.texts /\ \A i \in Calls : Sent(i) = 1
  /\ wire' = [wire EXCEPT !.finished = TRUE]
  /\ stop' = IF served.stop = "length" THEN "max_tokens" ELSE "stop"
  /\ UNCHANGED <<served, calls, emitted, channel>>

-----------------------------------------------------------------------------
(***************************************************************************)
(* The end of the body.                                                    *)
(***************************************************************************)
\* The response is made of what was collected, in the order of a Go map.
\* Only Gemini's has the text.
CollectedRest(order) ==      \* mutant: only calls that were not emitted
  [text  |-> Api = "gemini" /\ channel.text > 0,
   calls |-> LET rest == SelectSeq(order, LAMBDA i : i \notin emitted)
             IN [k \in DOMAIN rest |-> calls[rest[k]]],
   stop  |-> IF Api # "responses" THEN stop
             ELSE IF DOMAIN calls # {} THEN "tool_calls" ELSE "stop"]
Collected(order) ==
  [text  |-> Api = "gemini" /\ channel.text > 0,
   calls |-> [k \in DOMAIN order |-> calls[order[k]]],
   stop  |-> IF Api # "responses" THEN stop
             ELSE IF DOMAIN calls # {} THEN "tool_calls" ELSE "stop"]

\* A Go map has no order; Gemini's calls are kept as they came.
Orders == IF Api = "gemini" THEN {[i \in DOMAIN calls |-> i]} ELSE SetToSeqs(DOMAIN calls)

\* [DONE], or the end of the body, wherever it comes.
BodyEnds ==
  /\ Open
  /\ \E order \in Orders : Finish("done", Collected(order))
  /\ UNCHANGED <<served, wire, calls, emitted, stop>>

\* Mutant of BodyBreaks: the loop goes on to the response.
BreakThenEnd ==
  /\ Open
  /\ \E order \in Orders :
       channel' = [channel EXCEPT !.log = @ \o <<"error", "done">>, !.response = Collected(order)]
  /\ UNCHANGED <<served, wire, calls, emitted, stop>>

\* The body cannot be read on, or a line is too long.  The Gemini parser does
\* not look at the scanner's error.
BodyBreaks ==
  /\ Open
  /\ IF Api = "gemini" THEN \E order \in Orders : Finish("done", Collected(order))
     ELSE Finish("error", NoAnswer)
  /\ UNCHANGED <<served, wire, calls, emitted, stop>>

-----------------------------------------------------------------------------
StreamNext ==
  \/ TextLine \/ ChatFinish \/ GeminiFinish
  \/ ResponseCompleted \/ ResponseIncomplete \/ ResponseFailed
  \/ \E i \in Calls : \/ ChatCallLine(i) \/ GeminiCallLine(i)
                      \/ ItemAdded(i) \/ ArgumentsDelta(i) \/ ArgumentsDone(i) \/ ItemDone(i)
  \/ BodyEnds \/ BodyBreaks

StreamSpec == StreamInit /\ [][StreamNext]_streamVars

-----------------------------------------------------------------------------
(***************************************************************************)
(* What becomes of it: the conversation manager stores the blocks of a     *)
(* response with calls if they can be encoded, the text it saw otherwise,  *)
(* and indexes the calls of the response (streamResponse).                 *)
(***************************************************************************)
Done    == Last(channel.log) = "done"
IsWhole(block) == \E i \in Calls : ~CallOf(i).cut /\ block = Whole(i)
Encodes(response) == \A k \in DOMAIN response.calls :
                       response.calls[k].args = <<>> \/ IsWhole(response.calls[k])
Stored(response, text) ==
  IF response.calls # <<>> /\ Encodes(response)
  THEN [text |-> response.text, calls |-> ToSet(response.calls)]
  ELSE [text |-> text > 0, calls |-> {}]

\* What Complete returns for the same answer (convertResponse of both
\* packages, convertResponsesResult).
CompleteResponse ==
  [text |-> served.texts > 0, calls |-> [i \in Calls |-> Whole(i)],
   stop |-> IF Calls # {} /\ (Api = "responses" \/ (Api = "chat" /\ served.stop # "length"))
            THEN "tool_calls" ELSE IF served.stop = "length" THEN "max_tokens" ELSE "stop"]

-----------------------------------------------------------------------------
(***************************************************************************)
(* Properties.                                                             *)
(***************************************************************************)
Promise == INSTANCE ProviderEvents WITH log <- channel.log

\* Every parser keeps the promise of a provider's channel, whatever it reads
\* and wherever the body ends or breaks.
OneFinalEvent == Promise!EventsSpec

\* However the lines of parallel calls interleave, a finished call is emitted
\* whole, under its own id, and once; an answer that came to its end brings
\* all of its calls, and none twice, in the response.
CallsComeWholeOnce ==
  /\ \A k \in DOMAIN channel.blocks : \E i \in Calls : channel.blocks[k] = Whole(i)
  /\ \A k, l \in DOMAIN channel.blocks : channel.blocks[k] = channel.blocks[l] => k = l
  /\ Done /\ wire.finished =>
       LET got == channel.response.calls
       IN /\ ToSet(got) = {Whole(i) : i \in Calls} /\ Len(got) = Len(served.calls)
          /\ ToSet(channel.blocks) \subseteq ToSet(got)

\* What was emitted before a body ended early is in the response as well, so
\* that a caller that answers a call finds it stored with its node.
EmittedIsInResponse ==
  Done => ToSet(channel.blocks) \subseteq ToSet(channel.response.calls)

\* A streamed answer is stored as the answer of Complete would be: its text,
\* its calls, and whether the limit cut it.  Two cases are left open, which
\* the code misses: chat answers with calls lose the text that came before
\* them, and a Responses answer that the limit cut counts as a complete one.
StoredLikeComplete ==
  Done /\ wire.finished /\ ~(Api = "responses" /\ served.stop = "length") =>
    /\ channel.response.stop = CompleteResponse.stop
    /\ \/ Api = "chat" /\ Calls # {}
       \/ Stored(channel.response, channel.text) = Stored(CompleteResponse, served.texts)
=============================================================================
