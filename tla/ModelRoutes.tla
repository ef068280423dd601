---------------------------- MODULE ModelRoutes ----------------------------
(***************************************************************************)
(* What the deployment router (internal/provider/deployment_router.go)     *)
(* makes of the name of a model: which canonical model it means, which     *)
(* stages are tried for it, which deployments of a stage can serve it and  *)
(* under which native name, and which tools the request keeps.             *)
(*                                                                         *)
(* A name is the sequence of its parts between slashes: <<"gpt">> or       *)
(* <<"openai", "gpt">>; <<>> is the empty name.  A compiled catalog `cat'  *)
(* has models (canonical names), aliases (a set of <<name, model>>),       *)
(* listed and offerings (sets of [model, deployment, native, tools]; only  *)
(* the offerings were kept by the compiler), templates (without native),   *)
(* and deployments, a function to [owner, native].  `ads' gives for each   *)
(* configured deployment its model mappings (a set of <<model, native>>)   *)
(* and the models its provider lists ([id, tools]).                        *)
(***************************************************************************)
EXTENDS Integers, Sequences, FiniteSets, SequencesExt

Qualified(name) == Len(name) > 1          \* strings.Contains(name, "/")
CanonicalProvider(p) == CASE p = "gemini" -> "google" [] p = "grok" -> "xai" [] OTHER -> p

\* The names made up for models that the catalog does not know.
SyntheticCanonical(cat, d, native) ==
  IF d # "openrouter" THEN <<cat.deployments[d].owner>> \o native
  ELSE IF Qualified(native) THEN native ELSE <<"openrouter">> \o native

StripPrefix(name, prefix) ==
  IF Qualified(name) /\ name[1] = prefix THEN Tail(name) ELSE name
SyntheticNative(cat, d, name) ==
  StripPrefix(name, IF d = "openrouter" THEN d ELSE cat.deployments[d].owner)

-----------------------------------------------------------------------------
\* A target: the canonical model, the native name to use if the catalog has
\* none, and the only deployment that may serve it, or Anywhere.
Anywhere == ""
Target(canonical, hint, only) == [canonical |-> canonical, hint |-> hint, only |-> only]
NoTarget == Target(<<>>, <<>>, Anywhere)

Discovered(cat, ads, name) ==
  {d \in DOMAIN ads : /\ cat.deployments[d].native = "discovered"
                      /\ \E m \in ads[d].models : m.id = name}

\* CanonicalModelForAliasOrID; one of several when models share an alias.
CanonicalNamed(cat, name) ==
  IF name \in cat.models THEN {name}
  ELSE {a[2] : a \in {b \in cat.aliases : b[1] = name /\ b[2] \in cat.models}}

\* Models with an offering or a mapping of this native name, whether or not
\* the compiler kept the offering.
NativelyNamed(cat, ads, name) ==
  {o.model : o \in {p \in cat.listed : p.native = name}}
    \cup UNION {{m[1] : m \in {n \in ads[d].mappings : n[2] = name}} : d \in DOMAIN ads}

\* resolveModelTarget, as the set of its possible results.
ResolveTarget(cat, ads, name) ==
  LET known == CanonicalNamed(cat, name)
      native == NativelyNamed(cat, ads, name)
      found == Discovered(cat, ads, name)
      At(d, n) == Target(SyntheticCanonical(cat, d, n), n, d)
  IN IF name = <<>> THEN {NoTarget}
     ELSE IF known # {} THEN {Target(c, <<>>, Anywhere) : c \in known}
     ELSE IF native # {}
          THEN IF Cardinality(native) = 1 THEN {Target(c, <<>>, Anywhere) : c \in native} ELSE {NoTarget}
     ELSE IF found # {}
          THEN IF Cardinality(found) = 1 THEN {At(d, name) : d \in found} ELSE {NoTarget}
     ELSE IF Cardinality(DOMAIN ads) = 1
          THEN {At(d, SyntheticNative(cat, d, name)) : d \in DOMAIN ads}
     ELSE IF Qualified(name) THEN {Target(name, name, Anywhere)} ELSE {NoTarget}

-----------------------------------------------------------------------------
Offering(model, d, native, tools) ==
  [model |-> model, deployment |-> d, native |-> native, tools |-> tools]

\* discoveredOfferings for one canonical model (<<>> for all of them).
DiscoveredOfferings(cat, ads, d, model, hint) ==
  IF cat.deployments[d].native # "discovered" THEN {}
  ELSE IF d = "openrouter" /\ Qualified(model)
  THEN {Offering(model, d, IF hint = <<>> \/ model[1] = d THEN StripPrefix(model, d) ELSE hint, {})}
  ELSE {Offering(SyntheticCanonical(cat, d, m.id), d, m.id, m.tools) :
          m \in {n \in ads[d].models :
                   \/ model = <<>> \/ d = "openrouter"
                   \/ model \in {n.id, SyntheticCanonical(cat, d, n.id)}}}

\* deploymentCanServeUnknownCanonical.
ServesUnknown(cat, d, model) ==
  /\ cat.deployments[d].native = "catalog_known"
  /\ Qualified(model) /\ CanonicalProvider(model[1]) = cat.deployments[d].owner

\* Of offerings or templates, those of a model at a deployment.
OfferedAt(set, model, d) == {o \in set : o.model = model /\ o.deployment = d}

\* resolveOffering, as a set: empty when the deployment cannot serve.
ResolveOffering(cat, ads, target, d) ==
  LET offerings == OfferedAt(cat.offerings, target.canonical, d)
      templates == OfferedAt(cat.templates, target.canonical, d)
      mapped == {m[2] : m \in {n \in ads[d].mappings : n[1] = target.canonical}}
      found == {o \in DiscoveredOfferings(cat, ads, d, target.canonical, target.hint) :
                  o.model = target.canonical}
  IN IF d \notin DOMAIN ads THEN {}
     ELSE IF offerings # {} THEN offerings
     ELSE IF templates # {}
          THEN {Offering(t.model, d, n, t.tools) : t \in templates, n \in mapped}
     ELSE IF found # {} \/ target.hint = <<>> THEN found
     ELSE IF target.only = d THEN {Offering(target.canonical, d, target.hint, {})}
     ELSE IF target.only = Anywhere /\ ServesUnknown(cat, d, target.canonical)
          THEN {Offering(target.canonical, d, SyntheticNative(cat, d, target.canonical), {})}
     ELSE {}

\* The server tools that are known to work with an offering.  Ollama models
\* list theirs when the offering has none.
SupportedTools(ads, o) ==
  IF o.deployment = "ollama-local" /\ o.tools = {}
  THEN UNION {m.tools : m \in {n \in ads["ollama-local"].models : n.id = o.native}}
  ELSE o.tools

AnyTools(ads, o, tools) == tools     \* mutant of KeptTools: nothing is filtered

\* filterToolsForOffering: client tools stay, of the server tools those that
\* are known to be supported.
KeptTools(ads, o, tools) == {t \in tools : t.client \/ t.name \in SupportedTools(ads, o)}
ServerTools(tools) == {t.name : t \in {u \in tools : ~u.client}}

-----------------------------------------------------------------------------
\* providerIDForCanonical.
OwnerOf(cat, model) ==
  IF model \in cat.models THEN model[1]
  ELSE IF Qualified(model) THEN CanonicalProvider(model[1]) ELSE ""

\* routeFor: the stages of the model, of its owner, or the default ones.
RouteFor(cat, router, model) ==
  LET owner == OwnerOf(cat, model)
      alike == {k \in DOMAIN router.providers : CanonicalProvider(k) = owner}
  IN IF model \in DOMAIN router.models THEN {router.models[model]}
     ELSE IF owner = "" THEN {router.default}
     ELSE IF owner \in DOMAIN router.providers THEN {router.providers[owner]}
     ELSE IF alike # {} THEN {router.providers[k] : k \in alike} ELSE {router.default}

\* Mutant of EligibleChoices: whatever tools they support.
AbleChoices(cat, ads, target, stage, tools) ==
  {d \in {c.deployment : c \in {e \in Range(stage.choices) : e.weight > 0}} :
     ResolveOffering(cat, ads, target, d) # {}}

\* eligibleChoices: deployments that can serve the target, and of them those
\* that support the server tools asked for, if there are any.
EligibleChoices(cat, ads, target, stage, tools) ==
  LET required == ServerTools(tools)
      able == {d \in {c.deployment : c \in {e \in Range(stage.choices) : e.weight > 0}} :
                 ResolveOffering(cat, ads, target, d) # {}}
      capable == {d \in able : \A o \in ResolveOffering(cat, ads, target, d) :
                                 required \subseteq SupportedTools(ads, o)}
  IN IF required # {} /\ capable # {} THEN capable ELSE able

\* Models: every offering that one of the configured deployments lists.
ListedOfferings(cat, ads) ==
  {o \in cat.offerings : o.deployment \in DOMAIN ads}
    \cup (UNION {{Offering(t.model, t.deployment, m[2], t.tools) :
                    m \in {n \in ads[t.deployment].mappings : n[1] = t.model}} :
                  t \in {u \in cat.templates : u.deployment \in DOMAIN ads}})
    \cup (UNION {DiscoveredOfferings(cat, ads, d, <<>>, <<>>) : d \in DOMAIN ads})
=============================================================================
