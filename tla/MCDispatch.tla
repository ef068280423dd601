----------------------------- MODULE MCDispatch -----------------------------
(***************************************************************************)
(* Configurations and requests for Dispatch.                               *)
(***************************************************************************)
EXTENDS Dispatch

Claude == <<"anthropic", "claude">>
Gpt    == <<"openai", "gpt">>
Auto   == <<"openrouter", "auto">>
Search == [name |-> "web_search", client |-> FALSE]
Lookup == [name |-> "lookup", client |-> TRUE]

\* Two models; one has an alias, a second deployment that needs a mapping and
\* an offering the compiler dropped.
SmallCatalog ==
  LET offerings == {Offering(Claude, "anthropic-direct", <<"claude">>, {"web_search"}),
                    Offering(Claude, "anthropic-bedrock", <<"bedrock-claude">>, {}),
                    Offering(Gpt, "openai-direct", <<"gpt">>, {"web_search"})}
  IN [models    |-> {Claude, Gpt},
      aliases   |-> {<<<<"latest">>, Gpt>>},
      offerings |-> offerings,
      listed    |-> offerings \cup {Offering(Gpt, "openrouter", <<"gpt-or">>, {})},
      templates |-> {[model |-> Gpt, deployment |-> "openai-azure", tools |-> {}]},
      deployments |-> [d \in Deployments |->
        [owner  |-> CASE d \in {"anthropic-direct", "anthropic-bedrock", "anthropic-vertex"} -> "anthropic"
                      [] d \in {"openai-direct", "openai-azure"} -> "openai"
                      [] d \in {"gemini-direct", "gemini-vertex"} -> "google"
                      [] d = "grok-direct" -> "xai"
                      [] OTHER -> SectionOf(d),
         native |-> CASE d \in {"openrouter", "ollama-local", "apple-local"} -> "discovered"
                      [] d = "openai-azure" -> "user_configured"
                      [] OTHER -> "catalog_known"]]]

Choice(d, w) == [deployment |-> d, weight |-> w]
File == [default |-> "anthropic", fields |-> {<<"anthropic", "key">>}, own |-> <<>>,
         hasPolicy |-> FALSE, policy |-> NoPolicy, routing |-> <<>>, fallback |-> <<>>,
         retries |-> 0]
Env  == [default |-> "", fields |-> {}, routing |-> <<>>, fallback |-> <<>>]
Entry(p, w, r) == [provider |-> p, weight |-> w, retries |-> r]
Own(d, fields) == [x \in {d} |-> fields]

\* An entry of weight zero, one without credentials, a chain that names the
\* primaries again.
RoutingFile == [File EXCEPT
  !.fields = @ \cup {<<"openai", "key">>, <<"gemini", "key">>},
  !.routing = <<Entry("anthropic", 80, 0), Entry("openai", 20, 2), Entry("grok", 10, 0)>>,
  !.fallback = <<"anthropic", "gemma", "openai-azure">>]
OneOfTwo == [RoutingFile EXCEPT !.routing = <<Entry("openai", 0, 0), Entry("ollama", 0, 0)>>]

\* Two stages: weighted deployments that need a mapping or miss tools, then a
\* deployment of discovered models.
PolicyFile == [File EXCEPT
  !.fields = @ \cup {<<"openai", "key">>, <<"openai-azure", "key">>,
                     <<"openai-azure", "endpoint">>, <<"openrouter", "key">>},
  !.hasPolicy = TRUE,
  !.policy = [given |-> TRUE, default |-> <<Stage(<<Choice("openrouter", 100)>>, 0)>>,
              providers |-> [p \in {"openai", "grok"} |->
                 <<Stage(<<Choice("openai-direct", 70), Choice("openai-azure", 30)>>, 1),
                   Stage(<<Choice("openrouter", 1)>>, 0)>>],
              models |-> [m \in {Claude} |->
                 <<Stage(<<Choice("anthropic-direct", 1), Choice("anthropic-bedrock", 1),
                           Choice("openai-direct", 0), Choice("gemini-direct", 5)>>, 0)>>]]]
\* An empty list of default stages: nothing is left for other models.
NoDefaults == [PolicyFile EXCEPT !.policy.default = <<>>]
LocalFile == [File EXCEPT !.own = [d \in {"ollama-local", "apple-local"} |-> {}],
                          !.fallback = <<"openai">>]
BothVertex == [File EXCEPT
  !.fields = {s \in {"anthropic-vertex", "gemini-vertex"} \X {"project", "region"} : TRUE},
  !.own = [d \in {"anthropic-vertex", "gemini-vertex"} |-> {}]]

Scene(front, file, env, op, model, tools) ==
  [front |-> front, app |-> LoadConfig(file, env), op |-> op, model |-> model, tools |-> tools,
   listed |-> {<<"ollama-local", [id |-> <<"llama">>, tools |-> {"web_search"}]>>,
               <<"openrouter", [id |-> <<"gpt-oss">>, tools |-> {}]>>,
               <<"openrouter", [id |-> <<"openrouter", "auto">>, tools |-> {}]>>,
               <<"openrouter", [id |-> <<"z-ai", "glm">>, tools |-> {}]>>,
               <<"anthropic", [id |-> <<"claude">>, tools |-> {"web_search"}]>>},
   mappings |-> {<<"openai-azure", <<Gpt, <<"gpt-prod">>>>>>}]

Fronts == {"cli", "server"}
AllTools == {Search, Lookup}
GoodScenes ==
  {Scene("server", File, Env, "stream", <<"claude">>, AllTools),
   Scene("cli", File, Env, "stream", <<"claude-9">>, {}),
   Scene("cli", File, [Env EXCEPT !.default = "gemma", !.fields = {<<"gemini", "key">>}],
         "complete", <<"gemini-3">>, AllTools),
   Scene("cli", BothVertex, Env, "complete", <<"google", "gemini-3">>, {}),
   Scene("cli", NoDefaults, Env, "stream", <<"z-ai", "glm">>, {}),
   Scene("server", OneOfTwo, [Env EXCEPT !.fallback = <<"openai", "ollama">>], "complete", Gpt, {})}
  \cup {Scene(f, RoutingFile, Env, op, <<"claude">>, AllTools) : f \in Fronts, op \in {"stream", "complete"}}
  \cup {Scene("server", PolicyFile, Env, "stream", m, t) :
          m \in {Claude, <<"latest">>, <<"z-ai", "glm">>, <<"nobody">>, <<>>}, t \in {{}, AllTools}}
  \cup {Scene("server", PolicyFile, Env, "stream", m, {}) : m \in {<<"gpt-oss">>, Auto}}
  \cup {Scene("cli", PolicyFile, Env, "complete", m, AllTools) : m \in {Gpt, <<"gpt">>, <<"gpt-or">>}}
  \cup {Scene(f, LocalFile, Env, "stream", m, AllTools) :
          f \in Fronts, m \in {<<"llama">>, <<"ollama", "llama">>, <<"nobody">>}}
=============================================================================
