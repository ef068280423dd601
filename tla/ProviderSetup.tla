--------------------------- MODULE ProviderSetup ---------------------------
(***************************************************************************)
(* How a configuration becomes a provider.  The same file is read by two   *)
(* front ends: the command line converts it to the configuration of the    *)
(* Go client (internal/cli/chat.go) and langdag.New builds the provider;   *)
(* the HTTP server builds it by itself (internal/api/server.go).  Both     *)
(* build, from parts that may be missing, a weighted router or a           *)
(* deployment router over providers wrapped with retries.                  *)
(*                                                                         *)
(* Only the presence and the origin of a credential matter here, not its   *)
(* value.                                                                  *)
(***************************************************************************)
EXTENDS Integers, Sequences, FiniteSets, SequencesExt, FiniteSetsExt

CONSTANT DefaultRetries   \* MaxRetries of DefaultRetryConfig, 3 in the code

ASSUME SetupAssumption == DefaultRetries \in Nat

\* Deployments and the section of the configuration file that belongs to each.
DeploymentSections ==
  {<<"anthropic-direct", "anthropic">>, <<"openai-direct", "openai">>,
   <<"gemini-direct", "gemini">>, <<"grok-direct", "grok">>,
   <<"ollama-local", "ollama">>, <<"apple-local", "apple">>,
   <<"openrouter", "openrouter">>, <<"anthropic-vertex", "anthropic-vertex">>,
   <<"gemini-vertex", "gemini-vertex">>, <<"anthropic-bedrock", "anthropic-bedrock">>,
   <<"openai-azure", "openai-azure">>}
Deployments  == {p[1] : p \in DeploymentSections}
SectionOf(d) == (CHOOSE p \in DeploymentSections : p[1] = d)[2]

\* A provider name of the configuration, as a deployment; "" when unknown.
DeploymentForProvider(name) ==
  LET named == {p[1] : p \in {q \in DeploymentSections : name \in {q[1], q[2]}}}
  IN IF name = "" THEN "anthropic-direct"
     ELSE IF name = "gemma" THEN "gemini-direct"
     ELSE IF named # {} THEN CHOOSE d \in named : TRUE ELSE ""

\* The fields a provider cannot be constructed without.
RequiredFields(d) ==
  CASE d \in {"anthropic-vertex", "gemini-vertex"} -> {"project", "region"}
    [] d = "openai-azure" -> {"key", "endpoint"}
    [] d \in {"anthropic-bedrock", "ollama-local", "apple-local"} -> {}
    [] OTHER -> {"key"}

\* A stage of a route, and what a configuration without a policy has.  given:
\* whether there is a list of default stages, be it an empty one.
Stage(choices, retries) == [choices |-> choices, retries |-> retries]
NoPolicy == [given |-> FALSE, default |-> <<>>, providers |-> <<>>, models |-> <<>>]
StagesOf(policy) ==
  Range(policy.default)
    \cup (UNION {Range(policy.providers[k]) : k \in DOMAIN policy.providers})
    \cup (UNION {Range(policy.models[k]) : k \in DOMAIN policy.models})
DeploymentsIn(policy) ==
  {c.deployment : c \in UNION {Range(s.choices) : s \in StagesOf(policy)}} \ {""}

\* resolveRetryConfig, parseRetryConfig: zero is "not set", never "no retries".
RetriesOr(set, default) == IF set > 0 THEN set ELSE default

-----------------------------------------------------------------------------
(***************************************************************************)
(* The application's configuration: the file and the environment, which    *)
(* overrides it.  fields is a set of <<section, field>>; own gives the     *)
(* fields set in the `deployments' section; routing is a sequence of       *)
(* [provider, weight, retries].                                            *)
(***************************************************************************)
LoadConfig(file, env) ==
  [default   |-> IF env.default # "" THEN env.default
                 ELSE IF file.default # "" THEN file.default ELSE "anthropic",
   fields    |-> file.fields \cup env.fields,
   env       |-> env.fields,
   own       |-> file.own,
   hasPolicy |-> file.hasPolicy,
   policy    |-> file.policy,
   routing   |-> IF env.routing # <<>> THEN env.routing ELSE file.routing,
   fallback  |-> IF env.fallback # <<>> THEN env.fallback ELSE file.fallback,
   retries   |-> file.retries]

OwnFields(cfg, d) == IF d \in DOMAIN cfg.own THEN cfg.own[d] ELSE {}

(***************************************************************************)
(* What the library is given by the command line: keys of three providers, *)
(* one Vertex section for both Vertex deployments, the Azure section, and  *)
(* the environment, which the library reads by itself.  Retries of single  *)
(* routing entries are not passed on.                                      *)
(***************************************************************************)
LibraryConfig(app) ==
  [provider  |-> app.default,
   keys      |-> {s \in {"anthropic", "openai", "gemini"} : <<s, "key">> \in app.fields},
   vertex    |-> IF <<"anthropic-vertex", "project">> \in app.fields THEN "anthropic-vertex"
                 ELSE IF <<"gemini-vertex", "project">> \in app.fields THEN "gemini-vertex"
                 ELSE "",
   azure     |-> <<"openai-azure", "key">> \in app.fields,
   fields    |-> app.fields,
   env       |-> app.env,
   own       |-> app.own,
   hasPolicy |-> app.hasPolicy,
   policy    |-> app.policy,
   routing   |-> [i \in DOMAIN app.routing |-> [app.routing[i] EXCEPT !.retries = 0]],
   fallback  |-> app.fallback,
   retries   |-> app.retries]

\* Where the library finds a field of a legacy section: the section it was
\* copied from, or "".
LegacyOrigin(lib, d, f) ==
  LET s == SectionOf(d)
      from == IF s \in {"anthropic-vertex", "gemini-vertex"} THEN lib.vertex
              ELSE IF s = "openai-azure" THEN IF lib.azure THEN s ELSE ""
              ELSE IF s \in lib.keys /\ f = "key" THEN s ELSE ""
  IN IF <<from, f>> \in lib.fields THEN from ELSE ""

\* deploymentConfigForID: the deployment's own field, the legacy section, the
\* environment.
FieldOrigin(lib, d, f) ==
  IF f \in OwnFields(lib, d) THEN "deployments"
  ELSE IF LegacyOrigin(lib, d, f) # "" THEN LegacyOrigin(lib, d, f)
  ELSE IF <<SectionOf(d), f>> \in lib.env THEN "environment" ELSE ""

\* createDeploymentAdapter of the library.
AdapterAvailable(lib, d) ==
  /\ d \in Deployments
  /\ \A f \in RequiredFields(d) : FieldOrigin(lib, d, f) # ""

\* createSingleProvider, for the weighted router: the legacy sections, and
\* keys from the environment; Vertex and Azure only from their sections.
SingleAvailable(lib, name) ==
  LET d == DeploymentForProvider(name)
  IN /\ name # "" /\ d # "" /\ name \in {SectionOf(d), "gemma"}
     /\ \A f \in RequiredFields(d) :
          \/ LegacyOrigin(lib, d, f) # ""
          \/ f = "key" /\ d # "openai-azure" /\ <<SectionOf(d), f>> \in lib.env

-----------------------------------------------------------------------------
(***************************************************************************)
(* The provider: a weighted router over [name, weight, retries] entries    *)
(* and a fallback chain, a deployment router, a single provider, or no     *)
(* provider because construction failed.                                   *)
(***************************************************************************)
NoProvider == [kind |-> "none"]
\* Name() of the provider that a configured name constructs.
ProviderName(name) == IF name = "gemma" THEN "gemini" ELSE name

WeightedRouter(entries, fallback) ==
  IF entries = <<>> /\ fallback = <<>> THEN NoProvider
  ELSE [kind |-> "router", entries |-> entries, fallback |-> fallback]

\* buildRouter: unavailable providers are left out of entries and chain.
BuildRouter(lib, retries) ==
  LET Available(name) == SingleAvailable(lib, name)
      entries  == SelectSeq(lib.routing, LAMBDA e : Available(e.provider))
      fallback == SelectSeq(lib.fallback, Available)
  IN WeightedRouter(
       [i \in DOMAIN entries |->
          [name |-> ProviderName(entries[i].provider), weight |-> entries[i].weight,
           retries |-> RetriesOr(entries[i].retries, DefaultRetries)]],
       [i \in DOMAIN fallback |->
          [name |-> ProviderName(fallback[i]), weight |-> 0, retries |-> retries]])

\* deploymentIDsForConfig.
ConfiguredDeployments(lib) ==
  LET Ids(names) == {DeploymentForProvider(n) : n \in names} \ {""}
      listed == DOMAIN lib.own
                  \cup (IF lib.hasPolicy THEN DeploymentsIn(lib.policy) ELSE {})
                  \cup Ids({e.provider : e \in Range(lib.routing)})
                  \cup (IF lib.routing # <<>> \/ DOMAIN lib.own # {}
                        THEN Ids(Range(lib.fallback)) ELSE {})
  IN IF listed # {} THEN listed ELSE Ids({lib.provider})

\* legacyRoutingPolicyFromConfig: the routing entries make one stage, each
\* name of the fallback order one more.
LegacyPolicy(lib, retries) ==
  LET known(name) == DeploymentForProvider(name) # ""
      entries  == SelectSeq(lib.routing, LAMBDA e : known(e.provider))
      fallback == SelectSeq(lib.fallback, known)
      most     == Max({e.retries : e \in Range(entries)} \cup {0})
      main     == Stage([i \in DOMAIN entries |->
                           [deployment |-> DeploymentForProvider(entries[i].provider),
                            weight |-> entries[i].weight]], RetriesOr(most, retries))
      Only(name) == Stage(<<[deployment |-> DeploymentForProvider(name), weight |-> 100]>>,
                          retries)
      stages   == (IF entries = <<>> THEN <<>> ELSE <<main>>)
                    \o [i \in DOMAIN fallback |-> Only(fallback[i])]
  IN [NoPolicy EXCEPT !.given = stages # <<>>, !.default = stages]

\* defaultStagesForDeployments: one stage with every adapter; adapters have
\* no retries of their own.
AutomaticStages(adapters) ==
  <<Stage(SetToSeq({[deployment |-> d, weight |-> 100] : d \in adapters}), 0)>>

\* NewDeploymentRouter.
DeploymentRouterOf(adapters, policy, retries) ==
  IF adapters = {} THEN NoProvider
  ELSE [kind |-> "deployments", adapters |-> adapters, retries |-> retries,
        default |-> IF policy.given THEN policy.default ELSE AutomaticStages(adapters),
        providers |-> policy.providers, models |-> policy.models]

\* buildDeploymentAwareProvider.  (A failure of the only deployment is
\* returned as it is, any other leaves a deployment out.)
BuildDeployments(lib, retries) ==
  DeploymentRouterOf(
    {d \in ConfiguredDeployments(lib) : AdapterAvailable(lib, d)},
    IF lib.hasPolicy THEN lib.policy
    ELSE IF lib.routing # <<>> \/ lib.fallback # <<>> THEN LegacyPolicy(lib, retries)
    ELSE NoPolicy,
    retries)

\* buildProvider (with the embedded catalog).
BuildLibraryProvider(lib) ==
  LET retries == RetriesOr(lib.retries, DefaultRetries)
  IN IF ~lib.hasPolicy /\ DOMAIN lib.own = {} /\ lib.routing # <<>>
     THEN BuildRouter(lib, retries)
     ELSE BuildDeployments(lib, retries)

-----------------------------------------------------------------------------
(***************************************************************************)
(* The server.                                                             *)
(***************************************************************************)
\* apiDeploymentConfigForID; the environment is part of the sections.
ServerFieldOrigin(app, d, f) ==
  IF f \in OwnFields(app, d) THEN "deployments"
  ELSE IF <<SectionOf(d), f>> \in app.fields THEN SectionOf(d) ELSE ""

\* createDeploymentAdapter of the server.
ServerAdapterAvailable(app, d) ==
  /\ d \in Deployments
  /\ \A f \in RequiredFields(d) : ServerFieldOrigin(app, d, f) # ""

\* providerRegistry, and the construction of a registered provider.
Registered(name) == name = "gemma" \/ \E p \in DeploymentSections : p[2] = name
RegisteredAvailable(app, name) ==
  LET d == DeploymentForProvider(name)
  IN \A f \in RequiredFields(d) : <<SectionOf(d), f>> \in app.fields

\* createRouter: an unknown name is an error, an unavailable one is left out.
ServerRouter(app, retries) ==
  LET names == {e.provider : e \in Range(app.routing)} \cup Range(app.fallback)
      Available(name) == RegisteredAvailable(app, name)
      entries  == SelectSeq(app.routing, LAMBDA e : Available(e.provider))
      fallback == SelectSeq(app.fallback, Available)
  IN IF \E n \in names : ~Registered(n) THEN NoProvider
     ELSE WeightedRouter(
       [i \in DOMAIN entries |->
          [name |-> ProviderName(entries[i].provider), weight |-> entries[i].weight,
           retries |-> RetriesOr(entries[i].retries, retries)]],
       [i \in DOMAIN fallback |->
          [name |-> ProviderName(fallback[i]), weight |-> 0, retries |-> retries]])

\* apiDeploymentIDsForConfig.
ServerDeployments(app) ==
  DOMAIN app.own \cup (IF app.hasPolicy THEN DeploymentsIn(app.policy) ELSE {})

\* createDeploymentAwareProvider.
ServerDeploymentRouter(app, retries) ==
  DeploymentRouterOf(
    {d \in ServerDeployments(app) : ServerAdapterAvailable(app, d)},
    IF app.hasPolicy THEN app.policy ELSE NoPolicy, retries)

\* createProvider.
BuildServerProvider(app) ==
  LET retries == RetriesOr(app.retries, DefaultRetries)
  IN IF DOMAIN app.own # {} \/ app.hasPolicy THEN ServerDeploymentRouter(app, retries)
     ELSE IF app.routing # <<>> THEN ServerRouter(app, retries)
     ELSE IF Registered(app.default) /\ RegisteredAvailable(app, app.default)
     THEN [kind |-> "single", name |-> ProviderName(app.default), retries |-> retries]
     ELSE NoProvider
=============================================================================
