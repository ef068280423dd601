------------------------------ MODULE MCCatalog ------------------------------
(***************************************************************************)
(* The catalog for TLC: documents for CatalogCache, a small catalog with   *)
(* up to two defects and older catalogs, and two small sites for           *)
(* CatalogFetch.  What is fetched is published by hand, so that in a       *)
(* behaviour one of the two runs and the other is at rest.                 *)
(***************************************************************************)
EXTENDS CatalogCache, CatalogFetch

VARIABLE part    \* "cache" or "fetch"

Base ==
  [schema |-> "model-catalog/v1", generated |-> 1, staleAfter |-> 2,
   providers |-> [p \in {"anthropic", "openai"} |-> Sound(p)],
   protocols |-> [p \in {"anthropic-messages", "openai-responses", "openai-chat-completions"} |-> Sound(p)],
   deployments |-> [d \in {"anthropic-direct", "openai-direct", "openai-azure"} |-> DeploymentFromBinding(d)],
   models |-> [m \in {<<"anthropic", "claude">>, <<"openai", "gpt">>} |->
                 [sound |-> TRUE, provider |-> m[1], aliases |-> {}]],
   offerings |-> <<OfferingOf("anthropic-direct", <<"anthropic", "claude">>, <<"claude">>, UnknownPrice),
                   [OfferingOf("openai-direct", <<"openai", "gpt">>, <<"gpt">>,
                       Price("known", [d \in {"input_tokens"} |-> 2], {})) EXCEPT
                      !.protocol = "openai-chat-completions"]>>,
   templates |-> <<TemplateOf("openai-azure", <<"openai", "gpt">>, UnknownPrice)>>,
   aliases |-> [a \in {<<"latest">>} |-> <<"openai", "gpt">>]]

AddO(c, o) == [c EXCEPT !.offerings = Append(@, o)]
AddT(c, t) == [c EXCEPT !.templates = Append(@, t)]
Defects == 1..28
Defect(n, c) ==
  CASE n = 1  -> [c EXCEPT !.schema = "model-catalog/v2"]
    [] n = 2  -> [c EXCEPT !.staleAfter = 1]
    [] n = 3  -> [c EXCEPT !.staleAfter = 0]
    [] n = 4  -> [c EXCEPT !.providers["openai"].sound = FALSE]
    [] n = 5  -> [c EXCEPT !.protocols["openai-responses"].sound = FALSE]
    [] n = 6  -> [c EXCEPT !.deployments["openai-azure"].sound = FALSE]
    [] n = 7  -> [c EXCEPT !.deployments["openai-azure"].provider = "azure"]
    [] n = 8  -> [c EXCEPT !.deployments["openai-azure"].protocol = "none"]
    [] n = 9  -> [c EXCEPT !.deployments["openai-direct"].protocols = {"openai-chat-completions"}]
    [] n = 10 -> [c EXCEPT !.deployments["openai-direct"].protocols = @ \cup {"none"}]
    [] n = 11 -> [c EXCEPT !.models[<<"openai", "gpt">>].sound = FALSE]
    [] n = 12 -> [c EXCEPT !.models[<<"openai", "gpt">>].provider = "anthropic"]
    [] n = 13 -> [c EXCEPT !.offerings[1].id = <<"claude">>]
    [] n = 14 -> [c EXCEPT !.offerings[1].id = <<>>]
    [] n = 15 -> [c EXCEPT !.offerings[1].native = <<"opus">>]
    [] n = 16 -> [c EXCEPT !.offerings[1].model = <<"anthropic", "opus">>]
    [] n = 17 -> [c EXCEPT !.offerings[1].deployment = "anthropic-bedrock", !.offerings[1].id[1] = "anthropic-bedrock"]
    [] n = 18 -> [c EXCEPT !.offerings[1].protocol = "openai-responses"]
    [] n = 19 -> [c EXCEPT !.offerings[2].caps = {<<"web_search", "maybe">>}]
    [] n = 20 -> [c EXCEPT !.offerings[2].pricing.rates = NoRates]
    [] n = 21 -> [c EXCEPT !.offerings[2].pricing.rates = [d \in {"input_tokens"} |-> -2]]
    [] n = 22 -> AddO(c, [c.offerings[2] EXCEPT !.pricing = FreePrice])
    [] n = 23 -> AddO(c, OfferingOf("openai-direct", <<"openai", "gpt">>, <<"gpt-2">>, FreePrice))
    [] n = 24 -> AddT(c, TemplateOf("openai-direct", <<"openai", "gpt">>, UnknownPrice))
    [] n = 25 -> AddT(c, [c.templates[1] EXCEPT !.id = <<"openai-azure", <<"again">>>>])
    [] n = 26 -> [c EXCEPT !.templates[1].mapped = FALSE]
    [] n = 27 -> [c EXCEPT !.aliases[<<"latest">>] = <<"openai", "gpt-9">>]
    [] n = 28 -> [c EXCEPT !.templates[1].source = "catalog_known"]
OneDefect  == {Defect(n, Base) : n \in Defects}
TwoDefects == {Defect(n, Defect(k, Base)) : n \in Defects, k \in {9, 10, 13, 16, 20, 22, 23, 24, 25}}

Legacy(providers) == [kind |-> "legacy", legacy |-> [updated |-> 1, providers |-> providers]]
Old(id) == LegacyModel(id, 1, 2, 1000)
LegacyDocs ==
  {Legacy([p \in {"anthropic", "anthropic-bedrock"} |->
      IF p = "anthropic" THEN <<Old(<<"claude-sonnet">>), Old(<<"claude-dated">>)>>
      ELSE <<Old(<<"anthropic.", "claude-sonnet">>)>>]),
   \* Vertex lists the undated name itself: two offerings on one route
   Legacy([p \in {"anthropic", "anthropic-vertex"} |-> <<Old(<<"claude-dated">>)>>]),
   Legacy([p \in {"gemini", "gemma", "nobody"} |->
      <<[Old(<<"gemini-pro">>) EXCEPT !.tools = {"web_search"}],
        [Old(<<"gemma">>) EXCEPT !.free = TRUE], LegacyModel(<<"gemini-new">>, 0, 0, 0)>>]),
   Legacy([p \in {"openai", "openrouter", "ollama"} |->
      CASE p = "openai" -> <<Old(<<"gpt">>), Old(<<>>)>>
        [] p = "openrouter" -> <<Old(<<"openai", "gpt">>), Old(<<"Nous", "hermes">>), Old(<<"auto">>),
                                 Old(<<"z-ai", "glm-4.5-air:free">>), Old(<<"gpt">>)>>
        [] OTHER -> <<Old(<<"llama3.1:8b">>)>>]),
   \* the same model with and without its owner
   Legacy([p \in {"openrouter"} |-> <<Old(<<"openrouter", "auto">>), Old(<<"auto">>)>>]),
   Legacy([p \in {"grok"} |-> <<LegacyModel(<<"grok">>, -1, 2, 1)>>]),
   Legacy([p \in {"grok"} |-> <<Old(<<" ">>)>>]),
   Legacy([p \in {"grok"} |-> <<Old(<<"grok">>), Old(<<" ">>)>>]),
   Legacy([p \in {"nobody"} |-> <<Old(<<"grok">>)>>])}

Later == [Base EXCEPT !.generated = 2, !.staleAfter = 4]
Doc(cat) == [kind |-> "catalog", strict |-> TRUE, cat |-> cat]
\* Defective catalogs are refreshed from once, or only looked at.
McStarts == {<<Doc(Base), Missing, 0>>, <<[Doc(Base) EXCEPT !.strict = FALSE], Doc(Defect(9, Base)), 0>>}
              \cup {<<Doc(c), Missing, 1>> : c \in OneDefect}
              \cup {<<Doc(c), Missing, 2>> : c \in TwoDefects}
              \cup {<<Doc(Base), d, 2>> : d \in LegacyDocs \cup {Torn}}
              \cup {<<d, Doc(Base), 1>> : d \in LegacyDocs}
McPublications == {Doc(Later), Torn}
McEmbedded == Normalized(Base)
McDated == {<<"claude-dated">>}
McGemini == {<<"gemini-pro">>, <<"gemini-new">>}
McNotTokens == {"Nous"}

-----------------------------------------------------------------------------
Claude(i, o, c) == LegacyModel(<<"claude-dated">>, i, o, c)
\* A model of OpenAI is on two pages with two prices; the pages of
\* Anthropic's API go round in circles.
RoundSite ==
  [openai   |-> <<<<LegacyModel(<<"gpt">>, 1, 2, 1000)>>, <<LegacyModel(<<"gpt">>, 2, 3, 1000)>>>>,
   index    |-> <<>>,
   api      |-> [c \in {"", "a", "b"} |->
                  CASE c = ""  -> [models |-> <<Claude(0, 0, 1000)>>, more |-> TRUE, last |-> "a"]
                    [] c = "a" -> [models |-> <<LegacyModel(<<"claude-new">>, 0, 0, 1000)>>, more |-> TRUE, last |-> "b"]
                    [] OTHER   -> [models |-> <<>>, more |-> TRUE, last |-> "a"]],
   html     |-> <<Claude(3, 4, 500), LegacyModel(<<"claude-old">>, 5, 6, 1000)>>,
   prices   |-> <<LegacyModel(<<"gemini-pro">>, 1, 1, 0)>>,
   spec     |-> (<<"gemini-pro">> :> 1000),
   shutdown |-> {<<"gemini-1">>},
   gemma    |-> <<[LegacyModel(<<"gemma">>, 0, 0, 1000) EXCEPT !.free = TRUE]>>,
   grok     |-> <<LegacyModel(<<"grok">>, 1, 2, 1000)>>,
   builtIn  |-> (<<"claude-new">> :> <<7, 8>>)]

\* The index of OpenAI is the price list; Anthropic's API lists models on two
\* pages, of which the price page, the program or nobody knows the price; one of
\* two Gemini models was shut down.
FlatSite ==
  [RoundSite EXCEPT
    !.openai   = <<>>,
    !.index    = <<LegacyModel(<<"gpt">>, 1, 2, 1000), LegacyModel(<<"gpt-beta">>, 0, 0, 1000)>>,
    !.api      = [c \in {"", "a"} |->
                   IF c = "" THEN [models |-> <<Claude(0, 0, 1000), LegacyModel(<<"claude-new">>, 0, 0, 1000)>>,
                                   more |-> TRUE, last |-> "a"]
                   ELSE [models |-> <<Claude(0, 0, 1000), LegacyModel(<<"claude-odd">>, 0, 0, 1000)>>,
                         more |-> FALSE, last |-> ""]],
    !.prices   = <<LegacyModel(<<"gemini-pro">>, 1, 1, 0), LegacyModel(<<"gemini-new">>, 1, 3, 0)>>,
    !.spec     = [id \in {<<"gemini-pro">>, <<"gemini-new">>} |-> 1000],
    !.shutdown = {<<"gemini-new">>}]
McSites == {RoundSite, FlatSite}

-----------------------------------------------------------------------------
\* Nothing published and nothing cached, a join that is over.
CacheAtRest ==
  /\ published = Torn /\ refreshes = 0 /\ file = [doc |-> Missing, by |-> 0, asked |-> 0]
  /\ now = 1 /\ temps = {} /\ refresher = [p \in Refreshers |-> Idle]
  /\ loaded = [source |-> "none", cat |-> Embedded]
  /\ crashes = 0 /\ failures = 0
FetchAtRest ==
  /\ site = FlatSite /\ reply = [r \in Requests |-> "failed"] /\ holding = {} /\ expired = TRUE
  /\ cursor = [at |-> "", models |-> <<>>, pc |-> "failed", required |-> TRUE]
  /\ results = [p \in Fetchers |-> {NoResult}]

CatalogInit ==
  \/ part = "cache" /\ CacheInit /\ FetchAtRest
  \/ part = "fetch" /\ FetchInit /\ CacheAtRest

CatalogNext ==
  \/ part = "cache" /\ CacheNext /\ UNCHANGED <<part, fetchVars>>
  \/ part = "fetch" /\ FetchNext /\ UNCHANGED <<part, cacheVars>>

CatalogSpec ==
  CatalogInit /\ [][CatalogNext]_<<part, cacheVars, fetchVars>> /\ FetchFairness
=============================================================================
