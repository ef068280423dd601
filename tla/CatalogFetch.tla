---------------------------- MODULE CatalogFetch ----------------------------
(***************************************************************************)
(* FetchLatestV1 (internal/models/update.go, providers.go): four           *)
(* goroutines read the pages of the providers, two of them with goroutines *)
(* of their own for the pages of single models; their results are joined   *)
(* into one catalog.  What is on a page does not change; whether it can be *)
(* read does.  Requests share a deadline.                                  *)
(***************************************************************************)
EXTENDS LegacyCatalog

CONSTANTS
  Sites,      \* what the pages can hold, as records:
              \*   openai: models of each page that the index has a link to,
              \*   all with price and window, index: models of its own text,
              \*   api: each cursor -> [models, more, last], html: models,
              \*   prices: models of the Gemini price list, spec: id -> context,
              \*   shutdown: ids that were shut down, gemma, grok: models,
              \*   builtIn: id -> <<input, output>>, prices of the program
  Slots,      \* requests to OpenAI at the same time, 6 in the code
  MaxBadReplies \* bound: requests that fail before the deadline

ASSUME FetchAssumption == Slots \in Nat \ {0}

VARIABLES
  site,     \* what the pages hold
  reply,    \* request -> "none", "ok" or "failed"
  holding,  \* pages of OpenAI whose goroutine holds a slot
  cursor,   \* the paging of Anthropic's API: where it is and what it found; pc is "skipped" without a key, required when the
            \* environment insists on this API
  expired,  \* whether the deadline has passed
  results   \* provider -> set with its result [err, models] once it is there

fetchVars == <<site, reply, holding, cursor, expired, results>>

Pages == DOMAIN site.openai
Specs == {m.id : m \in Range(site.prices)}
Requests ==
  {<<"openai">>, <<"html">>, <<"prices">>, <<"shutdown">>, <<"grok">>}
    \cup {<<"page", i>> : i \in Pages} \cup {<<"spec", id>> : id \in Specs}

FetchInit ==
  /\ site \in Sites
  /\ reply = [r \in Requests |-> "none"] /\ holding = {}
  /\ cursor \in [at : {""}, models : {<<>>}, pc : {"asking", "skipped"},
                 required : BOOLEAN]
  /\ expired = FALSE /\ results = [p \in Fetchers |-> {}]

Ok(r)      == reply[r] = "ok"
Failed(r)  == reply[r] = "failed"
Over(r)    == reply[r] # "none"
NoResult   == [err |-> TRUE, models |-> <<>>]
Found(seq) == [err |-> FALSE, models |-> seq]

\* The requests that are on their way.
Asked(r) ==
  CASE r[1] = "page" -> r[2] \in holding
    [] r[1] = "html" -> cursor.pc = "done" \/ (cursor.pc \in {"skipped", "failed"} /\ ~cursor.required)
    [] r[1] \in {"spec", "shutdown"} -> Ok(<<"prices">>)
    [] OTHER -> TRUE

\* providerHTTPGet: any other status than 200 is an error, and so is
\* everything once the deadline has passed.
Reply(r, how) ==
  /\ site' = site /\ Asked(r) /\ ~Over(r)
  /\ IF how = "ok" THEN ~expired
     ELSE expired \/ Cardinality({q \in Requests : Failed(q)}) < MaxBadReplies
  /\ reply' = [reply EXCEPT ![r] = how]
  /\ holding' = IF r[1] = "page" THEN holding \ {r[2]} ELSE holding
  /\ UNCHANGED <<cursor, expired, results>>

Expire == ~expired /\ expired' = TRUE /\ UNCHANGED <<site, reply, holding, cursor, results>>

\* fetchOpenAIModelDetails: a goroutine for each page waits for a slot.
TakeSlot(i) ==
  /\ Ok(<<"openai">>) /\ ~Over(<<"page", i>>) /\ i \notin holding
  /\ Cardinality(holding) < Slots
  /\ holding' = holding \cup {i}
  /\ UNCHANGED <<site, reply, cursor, expired, results>>

\* Mutant of Unlisted: a price is needed.
UnlistedPriced(list) ==
  SelectSeq(list, LAMBDA m : m.id \notin {n.id : n \in Range(cursor.models)})

\* What a page of the API adds; its models need no price.
Unlisted(list) ==
  LET new == SelectSeq(list, LAMBDA m : m.id \notin {n.id : n \in Range(cursor.models)})
  IN [i \in DOMAIN new |-> [new[i] EXCEPT !.unpriced = TRUE]]

\* Mutant of NextApiPage: no deadline on a page.
NextApiPageAnyway ==
  LET page == site.api[cursor.at]
      next == cursor.models \o Unlisted(page.models)
  IN /\ cursor.pc = "asking"
     /\ cursor' =
          [cursor EXCEPT !.models = next,
             !.pc = IF page.more /\ page.last \notin {"", cursor.at} THEN "asking"
                    ELSE IF page.more \/ next = <<>> THEN "failed" ELSE "done",
             !.at = IF page.more THEN page.last ELSE @]
     /\ UNCHANGED <<site, reply, holding, expired, results>>

\* fetchAnthropicModelsAPI: page after page; a page that names itself as the
\* next, or none, is an error.  (A model that was there before is not used.)
NextApiPage ==
  LET page == site.api[cursor.at]
      next == cursor.models \o Unlisted(page.models)
  IN /\ cursor.pc = "asking" /\ ~expired
     /\ cursor' =
          [cursor EXCEPT !.models = next,
             !.pc = IF page.more /\ page.last \notin {"", cursor.at} THEN "asking"
                    ELSE IF page.more \/ next = <<>> THEN "failed" ELSE "done",
             !.at = IF page.more THEN page.last ELSE @]
     /\ UNCHANGED <<site, reply, holding, expired, results>>

ApiPageFails ==
  /\ cursor.pc = "asking" /\ cursor' = [cursor EXCEPT !.pc = "failed"]
  /\ UNCHANGED <<site, reply, holding, expired, results>>

-----------------------------------------------------------------------------
(***************************************************************************)
(* What each fetcher returns when its requests are over.                   *)
(***************************************************************************)
\* One model for each id, that of the last page that has it.
LastOfEach(seq) ==
  SetToSeq({seq[i] : i \in {k \in DOMAIN seq :
                             \A j \in DOMAIN seq : j > k => seq[j].id # seq[k].id}})

\* fetchOpenAIModels: an index without links is read as a price list.
OpenAIModels == LastOfEach(IF site.openai = <<>> THEN site.index ELSE FlattenSeq(site.openai))
OpenAIOver   == Failed(<<"openai">>) \/ (Ok(<<"openai">>) /\ \A i \in Pages : Over(<<"page", i>>))
OpenAIResult ==
  IF Failed(<<"openai">>) \/ OpenAIModels = <<>> \/ \E i \in Pages : Failed(<<"page", i>>)
  THEN NoResult ELSE Found(OpenAIModels)

\* applyAnthropicDirectPriceOverride.
Overridden(m) ==
  IF (m.input > 0 /\ m.output > 0) \/ m.id \notin DOMAIN site.builtIn THEN m
  ELSE [m EXCEPT !.input = site.builtIn[m.id][1], !.output = site.builtIn[m.id][2]]

\* Mutant of Merged: only what the API lists.
MergedApi(api, html) == [i \in DOMAIN api |-> Overridden(api[i])]

\* mergeAnthropicAPIAndHTML: the prices of the page, the limits of the API.
Merged(api, html) ==
  LET page(m) == {h \in Range(html) : h.id = m.id}
      with(m) == IF page(m) = {} THEN m
                 ELSE LET h == CHOOSE x \in page(m) : TRUE
                          priced == h.input > 0 \/ h.output > 0
                      IN [m EXCEPT !.input   = IF priced THEN h.input ELSE @,
                                   !.output  = IF priced THEN h.output ELSE @,
                                   !.context = IF @ = 0 THEN h.context ELSE @]
      rest == SelectSeq(html, LAMBDA h : h.id \notin {m.id : m \in Range(api)})
  IN [i \in DOMAIN api |-> Overridden(with(api[i]))] \o [i \in DOMAIN rest |-> Overridden(rest[i])]

\* fetchAnthropicModels: the page alone when the API cannot be used and needs
\* not be, the API alone when the page cannot be read.
AnthropicOver == (cursor.pc \in {"skipped", "failed"} /\ cursor.required)
                   \/ (cursor.pc # "asking" /\ Over(<<"html">>))
AnthropicResult ==
  LET html == IF Ok(<<"html">>) THEN site.html ELSE <<>>
  IN IF cursor.pc = "done" THEN Found(Merged(cursor.models, html))
     ELSE IF cursor.required \/ Failed(<<"html">>) THEN NoResult ELSE Found(Merged(<<>>, html))

\* fetchGeminiModels, fetchGeminiAndGemmaModels: without its page a model has
\* no context window; without the list of shutdowns all models stay.
GeminiOver == Failed(<<"prices">>) \/ (Ok(<<"prices">>) /\ Over(<<"shutdown">>)
                                       /\ \A id \in Specs : Over(<<"spec", id>>))
WithSpec(m) == [m EXCEPT !.context = site.spec[m.id]]
ShutDown == IF Ok(<<"shutdown">>) THEN site.shutdown ELSE {}
GeminiResult ==
  LET found == [i \in DOMAIN site.prices |->
                  LET m == site.prices[i]
                  IN IF Ok(<<"spec", m.id>>) THEN WithSpec(m) ELSE m]
  IN IF Failed(<<"prices">>) THEN NoResult
     ELSE Found(SelectSeq(found, LAMBDA m : m.id \notin ShutDown) \o site.gemma)

GrokResult == IF Failed(<<"grok">>) THEN NoResult ELSE Found(site.grok)

Return(p, over, result) ==
  /\ results[p] = {} /\ over
  /\ results' = [results EXCEPT ![p] = {result}]
  /\ UNCHANGED <<site, reply, holding, cursor, expired>>

-----------------------------------------------------------------------------
Work ==
  \/ \E r \in Requests : Reply(r, "ok") \/ Reply(r, "failed")
  \/ \E i \in Pages : TakeSlot(i)
  \/ Return("openai", OpenAIOver, OpenAIResult)
  \/ Return("anthropic", AnthropicOver, AnthropicResult)
  \/ Return("gemini", GeminiOver, GeminiResult)
  \/ Return("grok", Over(<<"grok">>), GrokResult)

FetchNext == Work \/ NextApiPage \/ ApiPageFails \/ Expire

\* Goroutines run, requests end, at the latest with the deadline, which is
\* that of a timer.
FetchFairness ==
  /\ WF_fetchVars(Work) /\ WF_fetchVars(Expire)
  /\ WF_fetchVars(NextApiPage \/ (expired /\ ApiPageFails))

FetchSpec == FetchInit /\ [][FetchNext]_fetchVars /\ FetchFairness

-----------------------------------------------------------------------------
(***************************************************************************)
(* Properties.                                                             *)
(***************************************************************************)
AllBack  == \A p \in Fetchers : results[p] # {}
ResultOf == [p \in Fetchers |-> CHOOSE r \in results[p] : TRUE]

\* The join ends, however the pages of the API point at each other: every
\* goroutine comes back (WaitGroup and semaphore of fetchOpenAIModelDetails,
\* paging of fetchAnthropicModelsAPI).
FetchEnds == <>AllBack

\* When all fetchers succeed the generated catalog is valid, and every model
\* with a price and a context window on pages that could be read is offered by
\* the deployment of its provider at the price of the page, by Bedrock and
\* Vertex if it is Anthropic's, by Vertex if it is a Gemini model, and as an
\* Azure template if it is OpenAI's.  The models of Anthropic's API need no
\* price for that.  What was shut down is not offered
\* (CatalogV1FromLegacyCatalog, addDerivedDeploymentOfferingsV1).
PricedModelsOffered ==
  AllBack /\ JoinOk(ResultOf) =>
    LET cs == FetchLatest(ResultOf)
        Usable(set) == {m \in set : Priced(m)}
        Offered(c, d, m) == \E o \in Compiled(c).offerings :
                              /\ o.deployment = d /\ o.native = m.id
                              /\ o.pricing = LegacyPricing(m)
        At(c, d, model) == \E o \in Compiled(c).offerings : o.deployment = d /\ o.model = model
        Clouds(c, m) == \A d \in {"anthropic-bedrock", "anthropic-vertex"} :
                          At(c, d, <<"anthropic">> \o m.id)
        gemini == {WithSpec(m) : m \in {n \in Range(site.prices) : Ok(<<"spec", n.id>>)}}
    IN /\ cs # {}
       /\ \A c \in cs :
            /\ \A m \in Usable(Range(OpenAIModels)) :
                 /\ Offered(c, "openai-direct", m)
                 /\ \E t \in Compiled(c).templates : t.model = <<"openai">> \o m.id
            /\ \A m \in Usable(IF Ok(<<"html">>) THEN Range(site.html) ELSE {}) :
                 Offered(c, "anthropic-direct", m) /\ Clouds(c, m)
            /\ \A m \in Range(cursor.models) : cursor.pc = "done" /\ m.context > 0 =>
                 At(c, "anthropic-direct", <<"anthropic">> \o m.id) /\ Clouds(c, m)
            /\ \A m \in Usable(Range(site.grok)) : Offered(c, "grok-direct", m)
            /\ \A m \in Usable(gemini \cup Range(site.gemma)) : m.id \notin ShutDown =>
                 /\ Offered(c, "gemini-direct", m)
                 /\ m.id \in GeminiNamed => At(c, "gemini-vertex", <<"google">> \o m.id)
            /\ \A o \in Compiled(c).offerings :
                 o.deployment \in {"gemini-direct", "gemini-vertex"} => o.native \notin ShutDown
=============================================================================
