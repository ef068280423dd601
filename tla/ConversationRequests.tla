------------------------- MODULE ConversationRequests -------------------------
(***************************************************************************)
(* The conversation manager together with the providers: the requests of   *)
(* Conversation as they leave the program.                                 *)
(***************************************************************************)
EXTENDS Conversation, ProviderRequests

\* Where a chat service accepts a list of messages: the results of the calls
\* of a message come right after it, all of them, and no others ("order
\* expected by the Responses API", responses.go).
ResultsFollowCalls(items) ==
  \A i \in DOMAIN items :
    LET calls == {b.from : b \in Blocks(items[i].blocks, "use")}
        after == {j \in i + 1 .. Len(items) :
                    \A k \in i + 1 .. j : items[k].role = "tool"}
    IN /\ calls # {} => calls = {items[j].blocks[1].from : j \in after}
       /\ items[i].role = "tool" => i > 1 /\ items[i - 1].role \in {"tool", "assistant"}

\* The same where every call is an item.
OutputsFollowCalls(items) ==
  \A i \in DOMAIN items :
    /\ items[i].role = "tool" =>
         \E j \in 1 .. i - 1 : items[j].blocks = <<Use(items[i].blocks[1].from)>>
    /\ items[i].role = "call" =>
         \E j \in i + 1 .. Len(items) :
           items[j].role = "tool" /\ items[j].blocks[1].from = items[i].blocks[1].from

\* Whatever calls were left open in a branch, what is sent to a provider of
\* any protocol answers every call, and answers nothing that was not called;
\* Gemini finds the name of every call that is answered (convertMessages,
\* convertResponsesMessages after injectSyntheticToolResults).
CallsAnsweredOnWire ==
  \A c \in Calls : Sent(c) =>
    LET gemini == GeminiRequest(Request(c))
    IN /\ ResultsFollowCalls(ChatRequest(Request(c)))
       /\ OutputsFollowCalls(ResponsesRequest(Request(c)))
       /\ \A b \in SentBlocks(gemini) :
            b.kind = "result" => Named(gemini, b)

\* "It creates a user child node, builds message history by walking to the
\* root, sends to the LLM" (PromptFrom): what the user just said is part of
\* what is sent, whatever the protocol.
PromptReachesModel ==
  \A c \in Calls : Sent(c) =>
    /\ ToSet(ask[c].msg) \subseteq SentBlocks(ChatRequest(Request(c)))
    /\ ToSet(ask[c].msg) \subseteq SentBlocks(ResponsesRequest(Request(c)))
=============================================================================
