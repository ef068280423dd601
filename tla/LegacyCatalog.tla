---------------------------- MODULE LegacyCatalog ----------------------------
(***************************************************************************)
(* Catalogs that are not documents of the current schema: those keyed by   *)
(* provider, as older caches hold them and as the fetchers of provider     *)
(* pages produce them (update.go, catalog_v1.go), their conversion, and    *)
(* the two parsers.                                                        *)
(*                                                                         *)
(* The conversion goes over Go maps, whose order is not determined: its    *)
(* result is a set.  The parts of names that string operations look at are *)
(* pieces of their own; a blank name is <<" ">>.                           *)
(***************************************************************************)
EXTENDS CatalogCompile

CONSTANTS
  NotTokens,    \* owner parts that are not valid identifiers
  Dated,        \* native names that end in a date of eight digits
  GeminiNamed   \* native names that begin with "gemini-"

\* legacyDeploymentAndOwnerV1, legacyProviderDeploymentsV1.
LegacyDeployments ==
  {<<"anthropic", "anthropic-direct">>, <<"anthropic-bedrock", "anthropic-bedrock">>,
   <<"anthropic-vertex", "anthropic-vertex">>, <<"openai", "openai-direct">>,
   <<"openai-azure", "openai-azure">>, <<"gemini", "gemini-direct">>,
   <<"gemma", "gemini-direct">>, <<"gemini-vertex", "gemini-vertex">>,
   <<"grok", "grok-direct">>, <<"openrouter", "openrouter">>,
   <<"ollama", "ollama-local">>, <<"apple", "apple-local">>}
LegacyProviders == {p[1] : p \in LegacyDeployments}
DeploymentOf(provider) == (CHOOSE p \in LegacyDeployments : p[1] = provider)[2]

\* A model of such a catalog.
LegacyModel(id, input, output, context) ==
  [id |-> id, input |-> input, output |-> output, free |-> FALSE, unpriced |-> FALSE,
   context |-> context, tools |-> {}]

\* legacyCatalogV1HasMigratableModel.
Migratable(legacy) ==
  \E p \in DOMAIN legacy.providers \cap LegacyProviders :
    \E m \in Range(legacy.providers[p]) : m.id \notin {<<>>, <<" ">>}

LegacyPricing(m) ==
  IF m.free THEN FreePrice
  ELSE IF m.input = 0 /\ m.output = 0 THEN UnknownPrice
  ELSE Price("known", [d \in Dimensions |-> IF d = "input_tokens" THEN m.input ELSE m.output], {})

HasOffering(list, id) == \E o \in Range(list) : o.id = id
\* Mutant of AddOffering: known by its native name.
AddByName(list, o) ==
  IF \E q \in Range(list) : q.native = o.native THEN list ELSE Append(list, o)
AddOffering(list, o) == IF HasOffering(list, o.id) THEN list ELSE Append(list, o)
IfMissing(f, key, value) == IF Known(f, key) THEN f ELSE f @@ (key :> value)

\* SourceFromLegacyCatalog for one model of one provider.  OpenRouter names
\* its models with their owner, which becomes a provider.
WithLegacyModel(cat, provider, m) ==
  LET d == DeploymentOf(provider)
      owned == provider = "openrouter" /\ Len(m.id) > 1 /\ m.id[1] \notin NotTokens
      owner == IF owned THEN m.id[1] ELSE cat.deployments[d].provider
      canonical == IF owned THEN m.id ELSE <<owner>> \o m.id
      offering == [OfferingOf(d, canonical, m.id, LegacyPricing(m)) EXCEPT
                     !.caps = IF m.tools = {} THEN UnknownTools
                              ELSE {<<t, "supported">> : t \in m.tools}]
  IN IF m.id = <<>> THEN cat
     ELSE [cat EXCEPT
            !.providers = IfMissing(@, owner, Sound(owner)),
            !.models    = IfMissing(@, canonical, [sound |-> " " \notin Range(m.id),
                                                   provider |-> owner, aliases |-> {m.id}]),
            !.offerings = AddOffering(@, offering),
            !.aliases   = IfMissing(@, m.id, canonical)]

WithLegacyProviders(cat, legacy, order) ==
  FoldLeft(LAMBDA c, p : FoldLeft(LAMBDA k, m : WithLegacyModel(k, p, m), c, legacy.providers[p]),
           cat, order)

\* anthropicBedrockNativeModelIDV1, anthropicVertexNativeModelIDV1, the rule
\* for Vertex names of Gemini models.
BedrockName(n) == IF n[1] = "anthropic." THEN n ELSE <<"anthropic.">> \o n
VertexName(n)  == IF n \in Dated THEN Append(n, "@date") ELSE n
DerivedOf(o) ==
  LET At(d, n) == OfferingOf(d, o.model, n, UnknownPrice)
  IN CASE o.deployment = "anthropic-direct" ->
            <<At("anthropic-bedrock", BedrockName(o.native)),
              At("anthropic-vertex", VertexName(o.native))>>
       [] o.deployment = "gemini-direct" /\ o.native \in GeminiNamed ->
            <<At("gemini-vertex", o.native)>>
       [] OTHER -> <<>>

\* addDerivedDeploymentOfferingsV1.
WithDerived(cat) ==
  LET derived == FlattenSeq([i \in DOMAIN cat.offerings |-> DerivedOf(cat.offerings[i])])
      openai  == {m \in DOMAIN cat.models : cat.models[m].provider = "openai"}
      azure   == {TemplateOf("openai-azure", m, UnknownPrice) : m \in openai}
  IN [cat EXCEPT !.offerings = FoldLeft(AddOffering, @, derived),
                 !.templates = @ \o SetToSeq({t \in azure : ~HasOffering(@, t.id)})]

\* mergeReferenceDynamicPlaceholdersV1.
WithPlaceholders(cat) ==
  LET full == WithReference(cat, {"z-ai", "ollama", "apple"})
      ref  == ReferenceCatalog
      aliases == {a \in DOMAIN ref.aliases : Known(full.models, ref.aliases[a])}
  IN [full EXCEPT !.offerings = FoldLeft(AddOffering, @, ref.offerings),
                  !.aliases   = Completed(@, aliases, ref.aliases)]

\* CatalogV1FromLegacyCatalog, for every order of the providers.
FromLegacy(legacy) ==
  LET base == [ReferenceCatalog EXCEPT
                 !.models = [m \in {} |-> <<>>], !.offerings = <<>>,
                 !.aliases = [a \in {} |-> <<>>],
                 !.generated  = IF legacy.updated # 0 THEN legacy.updated ELSE @,
                 !.staleAfter = IF legacy.updated # 0 THEN legacy.updated + 30 ELSE @]
      known  == DOMAIN legacy.providers \cap LegacyProviders
      Convert(order) ==
        Normalized(WithPlaceholders(WithDerived(WithLegacyProviders(base, legacy, order))))
  IN IF DOMAIN legacy.providers = {} THEN {ReferenceCatalog}
     ELSE {Convert(order) : order \in SetToSeqs(known)}

-----------------------------------------------------------------------------
(***************************************************************************)
(* A document: [kind, strict, cat | legacy].  kind is "catalog" when it    *)
(* names a schema, "legacy" when it does not, "garbage" when it is no JSON;*)
(* strict when it has no unknown field and nothing behind it.  The parsers *)
(* give the set of possible results, empty for an error.                   *)
(***************************************************************************)
Accepted(catalogs) == {c \in catalogs : Valid(c)}

\* Mutant of Parse: older catalogs are not validated.
ParseUnchecked(doc) ==
  CASE doc.kind = "catalog" -> IF doc.strict THEN Accepted({Normalized(doc.cat)}) ELSE {}
    [] doc.kind = "legacy"  -> IF Migratable(doc.legacy) THEN FromLegacy(doc.legacy) ELSE {}
    [] OTHER -> {}

\* ParseCatalogV1, for local files.
Parse(doc) ==
  CASE doc.kind = "catalog" -> IF doc.strict THEN Accepted({Normalized(doc.cat)}) ELSE {}
    [] doc.kind = "legacy"  -> IF Migratable(doc.legacy) THEN Accepted(FromLegacy(doc.legacy)) ELSE {}
    [] OTHER -> {}

\* ParseRemoteCatalogV1.
ParseRemote(doc) ==
  IF doc.kind = "catalog" /\ doc.cat.schema = "model-catalog/v1" /\ doc.strict
  THEN Accepted({Normalized(doc.cat)}) ELSE {}

-----------------------------------------------------------------------------
(***************************************************************************)
(* FetchLatestV1: what four fetchers found, joined.  A result is [err,     *)
(* models].                                                                *)
(***************************************************************************)
Fetchers == {"openai", "anthropic", "gemini", "grok"}

JoinOk(results) == \A p \in Fetchers : ~results[p].err /\ results[p].models # <<>>
Priced(m) == (m.free \/ m.input > 0 \/ m.output > 0 \/ m.unpriced) /\ m.context > 0
SearchesWeb(p, m) == p # "gemini" \/ m.id \in GeminiNamed

\* fetchLatestLegacy, once all have succeeded.
Joined(results) ==
  [updated |-> 1,
   providers |-> [p \in Fetchers |->
     LET found == SelectSeq(results[p].models, Priced)
     IN [i \in DOMAIN found |->
          [found[i] EXCEPT !.tools = IF SearchesWeb(p, found[i]) THEN {"web_search"} ELSE @]]]]

FetchLatest(results) ==
  IF JoinOk(results) THEN Accepted(FromLegacy(Joined(results))) ELSE {}

-----------------------------------------------------------------------------
(***************************************************************************)
(* Views for callers that know providers only.                             *)
(***************************************************************************)
\* ForProvider; LookupModel takes the first provider that has the model.
OfferingsForProvider(compiled, provider) ==
  {o \in compiled.offerings : provider \in LegacyProviders /\ o.deployment = DeploymentOf(provider)}

\* OfferingForLegacyProviderModel: the first that matches, of all offerings of
\* the catalog when the provider is not known.
OfferingsNamed(compiled, provider, name) ==
  {o \in (IF provider \in LegacyProviders THEN OfferingsForProvider(compiled, provider)
          ELSE Range(compiled.catalog.offerings)) : name # <<>> /\ name \in {o.native, o.model}}

\* MetadataForLegacyProviderModel: what the response says goes before what was
\* requested.
MetadataOffering(compiled, provider, requested, response) ==
  LET answered == OfferingsNamed(compiled, provider, response)
  IN IF answered # {} THEN answered ELSE OfferingsNamed(compiled, provider, requested)
=============================================================================
