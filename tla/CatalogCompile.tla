--------------------------- MODULE CatalogCompile ---------------------------
(***************************************************************************)
(* The model catalog as data (internal/models): what a valid catalog is,   *)
(* what the compiler keeps of one, how documents are parsed and how the    *)
(* older catalogs, keyed by provider, become catalogs.                     *)
(*                                                                         *)
(* Names of models are sequences of their parts between slashes.  An entry *)
(* that is malformed by itself (nil, under a key that is not its id, with  *)
(* an id or a name that is not allowed) is one that is not `sound'.  The   *)
(* id of an offering is the pair of its deployment and its native name,    *)
(* <<>> when missing and a sequence of one when it has no colon.  A date   *)
(* is a number, zero when missing.                                         *)
(***************************************************************************)
EXTENDS Integers, Sequences, FiniteSets, SequencesExt, FiniteSetsExt, Functions

Known(f, key) == key \in DOMAIN f
\* `f', with the entries of `others' under every key of `keys' that it lacks.
Completed(f, keys, others) ==
  [k \in DOMAIN f \cup keys |-> IF Known(f, k) THEN f[k] ELSE others[k]]

-----------------------------------------------------------------------------
\* deploymentSupportsProtocolV1.
SupportsProtocol(deployment, protocol) ==
  IF deployment.protocols = {} THEN deployment.protocol = protocol
  ELSE protocol \in deployment.protocols

\* collectCapabilityProblemsV1; caps is a set of <<tool, state>>.
CapabilitiesOk(caps) ==
  \A c \in caps : c[1] # "" /\ c[2] \in {"", "supported", "unsupported", "unknown"}

\* collectPricingProblemsV1; rates is a function from dimensions.
PricingOk(p) ==
  /\ p.status \in {"known", "partial", "unknown", "free"}
  /\ p.status # "unknown" => p.currency
  /\ p.status \in {"known", "partial"} => DOMAIN p.rates # {}
  /\ p.status = "partial" => p.missing # {}
  /\ p.status = "unknown" => DOMAIN p.rates = {}
  /\ p.status = "free" => \A dim \in DOMAIN p.rates : p.rates[dim] = 0
  /\ \A dim \in DOMAIN p.rates : dim # "" /\ p.rates[dim] >= 0

RouteOf(o) == <<o.model, o.deployment>>

\* validateCatalogV1CompileEnvelope; ValidateCatalogV1 begins with the same.
EnvelopeOk(cat) ==
  /\ cat.schema = "model-catalog/v1"
  /\ cat.generated # 0 /\ cat.staleAfter > cat.generated
  /\ DOMAIN cat.providers # {} /\ DOMAIN cat.protocols # {} /\ DOMAIN cat.deployments # {}
  /\ DOMAIN cat.models # {} /\ cat.offerings # <<>>

EntriesOk(cat) ==
  /\ \A id \in DOMAIN cat.providers : cat.providers[id].sound
  /\ \A id \in DOMAIN cat.protocols : cat.protocols[id].sound
  /\ \A id \in DOMAIN cat.deployments :
       LET d == cat.deployments[id]
       IN /\ d.sound
          /\ Known(cat.providers, d.provider) /\ Known(cat.protocols, d.protocol)
          /\ d.protocols # {} => d.protocol \in d.protocols
          /\ \A p \in d.protocols : Known(cat.protocols, p)
  /\ \A id \in DOMAIN cat.models :
       LET m == cat.models[id]
       IN m.sound /\ Known(cat.providers, m.provider) /\ Len(id) > 1 /\ id[1] = m.provider

-----------------------------------------------------------------------------
(***************************************************************************)
(* ValidateCatalogV1: one answer for the whole catalog.                    *)
(***************************************************************************)
ProtocolOk(cat, o) ==
  o.protocol = "" \/
    /\ Known(cat.protocols, o.protocol)
    /\ Known(cat.deployments, o.deployment) =>
         SupportsProtocol(cat.deployments[o.deployment], o.protocol)

ValidOffering(cat, o) ==
  /\ o.id # <<>>
  /\ Len(o.id) = 2 /\ o.id = <<o.deployment, o.native>>
  /\ Known(cat.models, o.model) /\ Known(cat.deployments, o.deployment)
  /\ ProtocolOk(cat, o) /\ CapabilitiesOk(o.caps) /\ PricingOk(o.pricing)

ValidTemplate(cat, t) ==
  /\ t.id # <<>>
  /\ Known(cat.models, t.model) /\ Known(cat.deployments, t.deployment)
  /\ cat.deployments[t.deployment].mapped
  /\ t.source = "user_configured" /\ t.mapped
  /\ ProtocolOk(cat, t) /\ CapabilitiesOk(t.caps) /\ PricingOk(t.pricing)

AllDifferent(keys) == \A i, j \in DOMAIN keys : keys[i] = keys[j] => i = j

Valid(cat) ==
  /\ EnvelopeOk(cat) /\ EntriesOk(cat)
  /\ \A o \in Range(cat.offerings) : ValidOffering(cat, o)
  /\ \A t \in Range(cat.templates) : ValidTemplate(cat, t)
  /\ \A list \in {cat.offerings, cat.templates} :
       /\ AllDifferent([i \in DOMAIN list |-> list[i].id])
       /\ AllDifferent([i \in DOMAIN list |-> RouteOf(list[i])])
  /\ \A a \in DOMAIN cat.aliases : /\ a # <<>> /\ cat.aliases[a] # <<>>
                                   /\ Known(cat.models, cat.aliases[a])

-----------------------------------------------------------------------------
(***************************************************************************)
(* CompileCatalogV1: unsound entries are errors, offerings and templates   *)
(* that do not fit are dropped.                                            *)
(***************************************************************************)
\* Mutant of OfferingFits: the protocol needs not be one of the deployment.
FitsAnyProtocol(cat, o) ==
  /\ o.id # <<>>
  /\ Len(o.id) = 2 /\ o.id[1] = o.deployment /\ o.id[2] = o.native
  /\ Known(cat.models, o.model) /\ Known(cat.deployments, o.deployment)
  /\ o.protocol # "" => Known(cat.protocols, o.protocol)
  /\ CapabilitiesOk(o.caps) /\ PricingOk(o.pricing)

\* compileOfferingProblemsV1 and compileOfferingTemplateProblemsV1.
OfferingFits(cat, o) ==
  /\ o.id # <<>>
  /\ Len(o.id) = 2 /\ o.id[1] = o.deployment /\ o.id[2] = o.native
  /\ Known(cat.models, o.model) /\ Known(cat.deployments, o.deployment)
  /\ o.protocol # "" => /\ Known(cat.protocols, o.protocol)
                        /\ SupportsProtocol(cat.deployments[o.deployment], o.protocol)
  /\ CapabilitiesOk(o.caps) /\ PricingOk(o.pricing)

TemplateFits(cat, t) ==
  /\ t.id # <<>>
  /\ Known(cat.models, t.model) /\ Known(cat.deployments, t.deployment)
  /\ cat.deployments[t.deployment].mapped
  /\ t.source = "user_configured"
  /\ t.protocol # "" => /\ Known(cat.protocols, t.protocol)
                        /\ SupportsProtocol(cat.deployments[t.deployment], t.protocol)
  /\ t.mapped /\ CapabilitiesOk(t.caps) /\ PricingOk(t.pricing)

\* The places of a list before the i-th.
Before(list, i) == DOMAIN list \cap (1..(i - 1))

\* Mutant of KeptPlaces: several offerings on one route.
KeptIds(list, fitting) ==
  {i \in fitting : \A j \in Before(list, i) : list[j].id # list[i].id}

\* The places of a list that are kept, of those that fit: of those with the
\* same id the first, if it fits, and of those the first of each route.
KeptPlaces(list, fitting) ==
  LET candidates == {i \in fitting : \A j \in Before(list, i) : list[j].id # list[i].id}
  IN {i \in candidates :
        \A j \in candidates \cap Before(list, i) : RouteOf(list[j]) # RouteOf(list[i])}

\* linkOfferingV1: the protocol of the deployment unless the offering has one.
Linked(cat, o) ==
  [o EXCEPT !.protocol = IF o.protocol # "" THEN o.protocol
                         ELSE cat.deployments[o.deployment].protocol]

Compilable(cat) == EnvelopeOk(cat) /\ EntriesOk(cat)

Compiled(cat) ==
  LET kept      == KeptPlaces(cat.offerings,
                     {i \in DOMAIN cat.offerings : OfferingFits(cat, cat.offerings[i])})
      templates == KeptPlaces(cat.templates,
                     {i \in DOMAIN cat.templates : TemplateFits(cat, cat.templates[i])})
  IN [catalog   |-> cat,
      offerings |-> {Linked(cat, cat.offerings[i]) : i \in kept},
      templates |-> {Linked(cat, cat.templates[i]) : i \in templates},
      dropped   |-> (DOMAIN cat.offerings \ kept) \cup (DOMAIN cat.templates \ templates)]

\* OfferingForDeployment.
OfferingsFor(compiled, model, deployment) ==
  {o \in compiled.offerings : RouteOf(o) = <<model, deployment>>}

-----------------------------------------------------------------------------
(***************************************************************************)
(* Reference data and normalisation.                                       *)
(***************************************************************************)
\* DeploymentBindingsV1: id, owner, protocol, source of native names.
Bindings ==
  {<<"anthropic-direct",  "anthropic",  "anthropic-messages",      "catalog_known">>,
   <<"anthropic-bedrock", "anthropic",  "anthropic-messages",      "catalog_known">>,
   <<"anthropic-vertex",  "anthropic",  "anthropic-messages",      "catalog_known">>,
   <<"openai-direct",     "openai",     "openai-responses",        "catalog_known">>,
   <<"openai-azure",      "openai",     "openai-chat-completions", "user_configured">>,
   <<"gemini-direct",     "google",     "gemini-generate-content", "catalog_known">>,
   <<"gemini-vertex",     "google",     "gemini-generate-content", "catalog_known">>,
   <<"grok-direct",       "xai",        "openai-responses",        "catalog_known">>,
   <<"openrouter",        "openrouter", "openai-chat-completions", "discovered">>,
   <<"ollama-local",      "ollama",     "openai-chat-completions", "discovered">>,
   <<"apple-local",       "apple",      "openai-chat-completions", "discovered">>}
BindingIds == {b[1] : b \in Bindings}

\* deploymentFromBindingV1.
DeploymentFromBinding(id) ==
  LET b == CHOOSE x \in Bindings : x[1] = id
  IN [sound |-> TRUE, provider |-> b[2], protocol |-> b[3], source |-> b[4],
      protocols |-> IF id = "openai-direct" THEN {"openai-responses", "openai-chat-completions"}
                    ELSE {},
      mapped |-> b[4] = "user_configured"]

Sound(id) == [sound |-> TRUE]
NoRates == [d \in {} |-> 0]
Price(status, rates, missing) ==
  [status |-> status, currency |-> TRUE, rates |-> rates, missing |-> missing]
Dimensions   == {"input_tokens", "output_tokens"}
FreePrice    == Price("free", [d \in Dimensions |-> 0], {})
UnknownPrice == Price("unknown", NoRates, Dimensions)
UnknownTools == {<<"web_search", "unknown">>}

OfferingOf(deployment, model, native, price) ==
  [id |-> <<deployment, native>>, model |-> model, deployment |-> deployment,
   native |-> native, protocol |-> "", caps |-> UnknownTools, pricing |-> price]
TemplateOf(deployment, model, price) ==
  [id |-> <<deployment, model>>, model |-> model, deployment |-> deployment,
   protocol |-> "", source |-> "user_configured", mapped |-> TRUE, caps |-> UnknownTools,
   pricing |-> price]

\* Materialize: an error unless the user mapped the model to a name.
Materialized(t, native) ==
  IF native = <<>> THEN {}
  ELSE {[OfferingOf(t.deployment, t.model, native, t.pricing) EXCEPT
           !.protocol = t.protocol, !.caps = t.caps]}

ReferenceProviders ==
  {"anthropic", "openai", "google", "xai", "z-ai", "openrouter", "ollama", "apple"}
ReferenceProtocols ==
  {"anthropic-messages", "openai-chat-completions", "openai-responses", "gemini-generate-content"}

\* ReferenceCatalogV1; of its models and offerings those that other catalogs
\* are completed with.
ReferenceCatalog ==
  LET glm == <<"z-ai", "glm-4.5-air:free">>
      llama == <<"ollama", "llama3.1:8b">>
      At(id) == [sound |-> TRUE, provider |-> id[1], aliases |-> {}]
  IN [schema |-> "model-catalog/v1", generated |-> 1, staleAfter |-> 31,
      providers   |-> [p \in ReferenceProviders |-> Sound(p)],
      protocols   |-> [p \in ReferenceProtocols |-> Sound(p)],
      deployments |-> [d \in BindingIds |-> DeploymentFromBinding(d)],
      models      |-> [m \in {glm, llama, <<"apple", "system">>, <<"apple", "pcc">>} |-> At(m)],
      offerings   |-> <<OfferingOf("ollama-local", llama, Tail(llama), FreePrice),
                        OfferingOf("openrouter", glm, glm, FreePrice)>>,
      templates   |-> <<>>,
      aliases     |-> [a \in {<<"openrouter">> \o glm} |-> glm]]

\* mergeReferenceRuntimePlaceholdersV1 (owners = {"apple"}), and the part of
\* mergeReferenceDynamicPlaceholdersV1 that it shares with it.
WithReference(cat, owners) ==
  LET ref == ReferenceCatalog
      models == {m \in DOMAIN ref.models : ref.models[m].provider \in owners}
  IN [cat EXCEPT
       !.providers   = Completed(@, DOMAIN ref.providers, ref.providers),
       !.protocols   = Completed(@, DOMAIN ref.protocols, ref.protocols),
       !.deployments = Completed(@, DOMAIN ref.deployments, ref.deployments),
       !.models      = Completed(@, models, ref.models)]

\* normalizeKnownDeploymentProtocolsV1: OpenAI answers through Responses.
WithResponses(d) ==
  [d EXCEPT !.protocol = "openai-responses",
            !.protocols = (@ \ {""}) \cup {"openai-responses", "openai-chat-completions"}]
WithOpenAIProtocols(cat) ==
  IF ~Known(cat.deployments, "openai-direct") THEN cat
  ELSE [cat EXCEPT !.deployments["openai-direct"] = WithResponses(@)]

\* NormalizeCatalogV1.  It also sorts the lists, which matters to no catalog
\* that is valid.
Normalized(cat) == WithOpenAIProtocols(WithReference(cat, {"apple"}))
=============================================================================
