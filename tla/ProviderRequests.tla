-------------------------- MODULE ProviderRequests --------------------------
(***************************************************************************)
(* How the providers turn the messages of a request into the items of      *)
(* their own protocols: convertMessages of the packages anthropic, openai  *)
(* and gemini, convertResponsesMessages.                                   *)
(*                                                                         *)
(* Beside the blocks of History a message may hold attachments: a block of *)
(* kind "image" or "document" whose n says how it is given: 0 not at all,  *)
(* 1 as data, 2 by URL, 3 as plain text.  An item is [role, blocks].       *)
(***************************************************************************)
EXTENDS History

OfKind(content, kinds) == SelectSeq(content, LAMBDA b : b.kind \in kinds)
Item(role, blocks) == [role |-> role, blocks |-> blocks]
ItemOfEach(role, blocks) == [i \in DOMAIN blocks |-> Item(role, <<blocks[i]>>)]

\* What the OpenAI protocols can show of attachments: images, plain text.
Visible(b) == \/ b.kind = "text"
              \/ b.kind = "image" /\ b.n # 0
              \/ b.kind = "document" /\ b.n = 3
Shown(content) == SelectSeq(content, Visible)
ShownText(content) == SelectSeq(Shown(content), LAMBDA b : b.kind # "image")

-----------------------------------------------------------------------------
\* Seeded fault: the text of a message goes before its results.
ChatItemsTextFirst(m) ==
  LET uses    == OfKind(m.content, {"use"})
      results == ItemOfEach("tool", OfKind(m.content, {"result"}))
  IN IF uses \o ShownText(m.content) # <<>>
     THEN <<Item(m.role, ShownText(m.content) \o uses)>> \o results ELSE results

\* Chat completions: the calls are part of an assistant's message, each
\* result is a message of its own; a message with calls or results keeps
\* nothing else but the text before its calls.
ChatItems(m) ==
  LET uses    == OfKind(m.content, {"use"})
      results == ItemOfEach("tool", OfKind(m.content, {"result"}))
  IN IF uses # <<>> THEN <<Item("assistant", ShownText(m.content) \o uses)>> \o results
     ELSE IF results # <<>> THEN results
     ELSE IF OfKind(m.content, {"image"}) # <<>> THEN <<Item(m.role, Shown(m.content))>>
     ELSE <<Item(m.role, ShownText(m.content))>>
ChatRequest(messages) == FlattenSeq([i \in DOMAIN messages |-> ChatItems(messages[i])])

\* The Responses API: every call and every result is an item of its own.
\* Without an image only the text blocks themselves are kept.
ResponsesItems(m) ==
  LET uses    == ItemOfEach("call", OfKind(m.content, {"use"}))
      results == ItemOfEach("tool", OfKind(m.content, {"result"}))
      parts   == Shown(m.content)
  IN IF uses # <<>>
     THEN (IF parts = <<>> THEN <<>> ELSE <<Item("assistant", parts)>>) \o uses \o results
     ELSE IF results # <<>> THEN results
     ELSE IF OfKind(m.content, {"image"}) # <<>> THEN <<Item(m.role, parts)>>
     ELSE <<Item(m.role, OfKind(m.content, {"text"}))>>
ResponsesRequest(messages) == FlattenSeq([i \in DOMAIN messages |-> ResponsesItems(messages[i])])

-----------------------------------------------------------------------------
\* Gemini: parts in their order; a message without parts is left out.  A
\* result is sent under the name of its call, which is looked up among the
\* calls before it, or under its id if there is none.
GeminiItems(m) ==
  LET parts == SelectSeq(m.content, LAMBDA b : b.kind \in {"image", "document"} => b.n # 0)
  IN IF parts = <<>> THEN <<>>
     ELSE <<Item(IF m.role = "assistant" THEN "model" ELSE "user", parts)>>
GeminiRequest(messages) == FlattenSeq([i \in DOMAIN messages |-> GeminiItems(messages[i])])
Named(items, result) ==
  \E i \in DOMAIN items : \E k \in DOMAIN items[i].blocks :
    items[i].blocks[k] = Use(result.from)

\* Anthropic: blocks in their order; a message that is left with none is left
\* out, which rejects nothing but may put two messages of a role in a row.
AnthropicItems(m) ==
  LET parts == SelectSeq(m.content, LAMBDA b : b.kind \in {"image", "document"} => b.n # 0)
  IN IF parts = <<>> THEN <<>> ELSE <<Item(m.role, parts)>>
AnthropicRequest(messages) == FlattenSeq([i \in DOMAIN messages |-> AnthropicItems(messages[i])])

SentBlocks(items) == UNION {ToSet(items[i].blocks) : i \in DOMAIN items}
=============================================================================
