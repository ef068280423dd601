--------------------------- MODULE CatalogProofs ---------------------------
(***************************************************************************)
(* Theorems about the catalog and its cache.                               *)
(***************************************************************************)
EXTENDS CatalogCache, TLAPS, FiniteSetTheorems, WellFoundedInduction

-----------------------------------------------------------------------------
(***************************************************************************)
(* Which places of a list are kept.                                        *)
(***************************************************************************)
IdsOf(list) == [i \in DOMAIN list |-> list[i].id]
RoutesOf(list) == [i \in DOMAIN list |-> RouteOf(list[i])]
Candidates(list, fitting) ==
  {i \in fitting : \A j \in Before(list, i) : list[j].id # list[i].id}

\* A place is not before itself.
LEMMA BeforeIsOther ==
  ASSUME NEW list, NEW i, NEW j \in Before(list, i)
  PROVE  j # i /\ j \in DOMAIN list
BY DEF Before

\* Of two places of a list one is before the other.
LEMMA OneIsBefore ==
  ASSUME NEW list, IsList(list), NEW i \in DOMAIN list, NEW j \in DOMAIN list, i # j
  PROVE  i \in Before(list, j) \/ j \in Before(list, i)
<1>1. DOMAIN list = 1..Len(list)
  BY DEF IsList
<1> QED
  BY <1>1 DEF Before

\* Where ids and routes are all different, whatever fits is kept.
LEMMA AllAreKept ==
  ASSUME NEW list, AllDifferent(IdsOf(list)), AllDifferent(RoutesOf(list))
  PROVE  KeptPlaces(list, DOMAIN list) = DOMAIN list
<1>1. ASSUME NEW i \in DOMAIN list, NEW j \in Before(list, i)
      PROVE  list[j].id # list[i].id /\ RouteOf(list[j]) # RouteOf(list[i])
  BY <1>1, BeforeIsOther DEF AllDifferent, IdsOf, RoutesOf
<1> QED
  BY <1>1 DEF KeptPlaces

\* Where all places are kept, all fit, and ids and routes are different.
LEMMA KeptAreDifferent ==
  ASSUME NEW list, IsList(list), NEW fitting, KeptPlaces(list, fitting) = DOMAIN list
  PROVE  /\ DOMAIN list \subseteq fitting
         /\ AllDifferent(IdsOf(list)) /\ AllDifferent(RoutesOf(list))
<1>1. /\ DOMAIN list \subseteq fitting
      /\ \A i \in DOMAIN list : \A j \in Before(list, i) : list[j].id # list[i].id
      /\ \A i \in DOMAIN list : \A j \in DOMAIN list \cap Before(list, i) :
           RouteOf(list[j]) # RouteOf(list[i])
  BY DEF KeptPlaces
<1>2. ASSUME NEW i \in DOMAIN list, NEW j \in DOMAIN list, i # j
      PROVE  list[i].id # list[j].id /\ RouteOf(list[i]) # RouteOf(list[j])
  BY <1>1, <1>2, OneIsBefore
<1> QED
  BY <1>1, <1>2 DEF AllDifferent, IdsOf, RoutesOf

\* One place is kept for a route.
LEMMA OneKeptPerRoute ==
  ASSUME NEW list, IsList(list), NEW fitting, fitting \subseteq DOMAIN list,
         NEW i \in KeptPlaces(list, fitting), NEW j \in KeptPlaces(list, fitting),
         RouteOf(list[i]) = RouteOf(list[j])
  PROVE  i = j
<1>1. i \in DOMAIN list /\ j \in DOMAIN list
  BY DEF KeptPlaces
<1>2. i \notin Before(list, j) /\ j \notin Before(list, i)
  BY DEF KeptPlaces
<1> QED
  BY <1>1, <1>2, OneIsBefore

\* A set of numbers that is not empty has a least element.
LEMMA LeastExists ==
  ASSUME NEW T, T \subseteq Nat, T # {}
  PROVE  \E x \in T : \A y \in T : ~ (y < x)
<1>1. PICK x \in T : \A y \in T : ~ (<<y, x>> \in OpToRel(<, Nat))
  BY WFMin, NatLessThanWellFounded, Zenon
<1>2. \A y \in T : y < x => <<y, x>> \in OpToRel(<, Nat)
  BY Zenon DEF OpToRel
<1> QED
  BY <1>1, <1>2, Zenon

\* The route of a place that fits and has no other with its id before it is
\* kept: the first such place of the route is.
LEMMA RouteIsKept ==
  ASSUME NEW list, IsList(list), NEW fitting, fitting \subseteq DOMAIN list,
         NEW i \in Candidates(list, fitting)
  PROVE  \E k \in KeptPlaces(list, fitting) : RouteOf(list[k]) = RouteOf(list[i])
<1> DEFINE same == {k \in Candidates(list, fitting) : RouteOf(list[k]) = RouteOf(list[i])}
<1>1. same \subseteq Nat /\ same # {}
  <2>1. DOMAIN list \subseteq Nat
    BY DEF IsList
  <2> QED
    BY <2>1 DEF Candidates
<1>3. PICK k \in same : \A y \in same : ~ (y < k)
  <2> HIDE DEF same
  <2> QED
    BY <1>1, LeastExists
<1>4. k \in Nat
  BY <1>1, <1>3
<1>5. ASSUME NEW j \in Candidates(list, fitting) \cap Before(list, k)
      PROVE  RouteOf(list[j]) # RouteOf(list[k])
  <2>1. j < k
    BY <1>4, <1>5 DEF Before
  <2>2. j \notin same
    BY <1>3, <2>1
  <2> QED
    BY <1>3, <2>2
<1>6. k \in KeptPlaces(list, fitting)
  BY <1>3, <1>5 DEF KeptPlaces, Candidates
<1> QED
  BY <1>3, <1>6

-----------------------------------------------------------------------------
(***************************************************************************)
(* The compiler and the validator.                                         *)
(***************************************************************************)
FittingOfferings(c) == {i \in DOMAIN c.offerings : OfferingFits(c, c.offerings[i])}
FittingTemplates(c) == {i \in DOMAIN c.templates : TemplateFits(c, c.templates[i])}
KeptOfferings(c) == KeptPlaces(c.offerings, FittingOfferings(c))
KeptTemplates(c) == KeptPlaces(c.templates, FittingTemplates(c))

\* What is not kept of one of the lists is dropped.
LEMMA DroppedIsRest ==
  ASSUME NEW c
  PROVE  Compiled(c).dropped =
           (DOMAIN c.offerings \ KeptOfferings(c)) \cup (DOMAIN c.templates \ KeptTemplates(c))
BY DEF Compiled, KeptOfferings, KeptTemplates, FittingOfferings, FittingTemplates

\* An offering that is valid fits.
LEMMA ValidOfferingFits ==
  ASSUME NEW c, NEW o, ValidOffering(c, o)
  PROVE  OfferingFits(c, o)
<1>1. o.id[1] = o.deployment /\ o.id[2] = o.native
  BY DEF ValidOffering
<1>2. o.protocol # "" => /\ Known(c.protocols, o.protocol)
                        /\ SupportsProtocol(c.deployments[o.deployment], o.protocol)
  BY Zenon DEF ValidOffering, ProtocolOk
<1> QED
  BY <1>1, <1>2, Zenon DEF ValidOffering, OfferingFits

\* An offering that fits is valid.
LEMMA FittingIsValid ==
  ASSUME NEW c, NEW o, IsList(o.id), OfferingFits(c, o)
  PROVE  ValidOffering(c, o)
<1>1. o.id = <<o.deployment, o.native>>
  <2>1. Len(o.id) = 2 /\ o.id[1] = o.deployment /\ o.id[2] = o.native
    BY Zenon DEF OfferingFits
  <2>2. o.id = [i \in 1..2 |-> o.id[i]]
    BY <2>1, Zenon DEF IsList
  <2> QED
    BY <2>1, <2>2
<1>2. ProtocolOk(c, o)
  BY Zenon DEF OfferingFits, ProtocolOk
<1> QED
  BY <1>1, <1>2, Zenon DEF ValidOffering, OfferingFits

\* The same of templates.
LEMMA TemplateFitsIfValid ==
  ASSUME NEW c, NEW t
  PROVE  ValidTemplate(c, t) <=> TemplateFits(c, t)
BY Zenon DEF ValidTemplate, TemplateFits, ProtocolOk

\* Nothing of a valid catalog is dropped.
LEMMA ValidIsWhole ==
  ASSUME NEW c, Valid(c)
  PROVE  Compilable(c) /\ Compiled(c).dropped = {}
<1>1. Compilable(c)
  BY DEF Valid, Compilable
<1>2. KeptOfferings(c) = DOMAIN c.offerings
  <2>1. FittingOfferings(c) = DOMAIN c.offerings
    BY ValidOfferingFits DEF Valid, Range, FittingOfferings
  <2>2. AllDifferent(IdsOf(c.offerings)) /\ AllDifferent(RoutesOf(c.offerings))
    BY Zenon DEF Valid, IdsOf, RoutesOf
  <2> QED
    BY <2>1, <2>2, AllAreKept DEF KeptOfferings
<1>3. KeptTemplates(c) = DOMAIN c.templates
  <2>1. FittingTemplates(c) = DOMAIN c.templates
    BY TemplateFitsIfValid DEF Valid, Range, FittingTemplates
  <2>2. AllDifferent(IdsOf(c.templates)) /\ AllDifferent(RoutesOf(c.templates))
    BY Zenon DEF Valid, IdsOf, RoutesOf
  <2> QED
    BY <2>1, <2>2, AllAreKept DEF KeptTemplates
<1> QED
  BY <1>1, <1>2, <1>3, DroppedIsRest

AliasesOk(c) == \A a \in DOMAIN c.aliases : a # <<>> /\ Known(c.models, c.aliases[a])

\* A catalog of which nothing is dropped is valid, but for its aliases.
LEMMA WholeIsValid ==
  ASSUME NEW c, IsCatalog(c), Compilable(c), Compiled(c).dropped = {}, AliasesOk(c)
  PROVE  Valid(c)
<1>1. KeptOfferings(c) = DOMAIN c.offerings /\ KeptTemplates(c) = DOMAIN c.templates
  <2>1. DOMAIN c.offerings \subseteq KeptOfferings(c) /\ DOMAIN c.templates \subseteq KeptTemplates(c)
    BY DroppedIsRest
  <2>2. KeptOfferings(c) \subseteq DOMAIN c.offerings /\ KeptTemplates(c) \subseteq DOMAIN c.templates
    BY DEF KeptOfferings, KeptTemplates, KeptPlaces, FittingOfferings, FittingTemplates
  <2> QED
    BY <2>1, <2>2
<1>2. IsList(c.offerings) /\ IsList(c.templates)
  BY DEF IsCatalog, AreOffers
<1>3. /\ DOMAIN c.offerings \subseteq FittingOfferings(c)
      /\ AllDifferent(IdsOf(c.offerings)) /\ AllDifferent(RoutesOf(c.offerings))
  BY <1>1, <1>2, KeptAreDifferent DEF KeptOfferings
<1>4. /\ DOMAIN c.templates \subseteq FittingTemplates(c)
      /\ AllDifferent(IdsOf(c.templates)) /\ AllDifferent(RoutesOf(c.templates))
  BY <1>1, <1>2, KeptAreDifferent DEF KeptTemplates
<1>5. \A o \in Range(c.offerings) : ValidOffering(c, o)
  BY <1>3, FittingIsValid DEF FittingOfferings, Range, IsCatalog, AreOffers
<1>6. \A t \in Range(c.templates) : ValidTemplate(c, t)
  BY <1>4, TemplateFitsIfValid DEF FittingTemplates, Range
<1>7. \A a \in DOMAIN c.aliases : c.aliases[a] # <<>>
  <2>1. \A m \in DOMAIN c.models : m # <<>>
    BY DEF Compilable, EntriesOk
  <2> QED
    BY <2>1 DEF AliasesOk, Known
<1>8. \A list \in {c.offerings, c.templates} :
        /\ AllDifferent([i \in DOMAIN list |-> list[i].id])
        /\ AllDifferent([i \in DOMAIN list |-> RouteOf(list[i])])
  BY <1>3, <1>4, Zenon DEF IdsOf, RoutesOf
<1> QED
  BY <1>5, <1>6, <1>7, <1>8, Zenon DEF Valid, Compilable, AliasesOk

-----------------------------------------------------------------------------
(***************************************************************************)
(* What the compiler keeps of a catalog that may not be valid.             *)
(***************************************************************************)
\* Linking changes the protocol only.
LEMMA LinkedKeeps ==
  ASSUME NEW c, NEW o, NEW fields, IsRecord(o, fields),
         {"model", "deployment", "protocol"} \subseteq fields
  PROVE  /\ Linked(c, o).model = o.model /\ Linked(c, o).deployment = o.deployment
         /\ RouteOf(Linked(c, o)) = RouteOf(o)
         /\ Linked(c, o).protocol = IF o.protocol # "" THEN o.protocol
                                    ELSE c.deployments[o.deployment].protocol
<1> DEFINE p == IF o.protocol # "" THEN o.protocol ELSE c.deployments[o.deployment].protocol
<1>1. Linked(c, o) = [o EXCEPT !.protocol = p]
  BY Zenon DEF Linked
<1> HIDE DEF p
<1>3. /\ Linked(c, o).model = o.model /\ Linked(c, o).deployment = o.deployment
      /\ Linked(c, o).protocol = p
  BY <1>1 DEF IsRecord
<1> QED
  BY <1>3, Zenon DEF RouteOf, p

\* An offering or template of known parts is linked to known parts.
LEMMA LinkedIsUsable ==
  ASSUME NEW c, Compilable(c), NEW o, NEW fields, IsRecord(o, fields),
         {"model", "deployment", "protocol"} \subseteq fields,
         Known(c.models, o.model), Known(c.deployments, o.deployment),
         o.protocol # "" => Known(c.protocols, o.protocol)
  PROVE  LET k == Linked(c, o)
         IN /\ Known(c.models, k.model) /\ Known(c.providers, c.models[k.model].provider)
            /\ Known(c.deployments, k.deployment) /\ Known(c.protocols, k.protocol)
<1>1. Known(c.providers, c.models[o.model].provider)
  BY Zenon DEF Compilable, EntriesOk, Known
<1>2. Known(c.protocols, c.deployments[o.deployment].protocol)
  BY Zenon DEF Compilable, EntriesOk, Known
<1>3. Linked(c, o).model = o.model /\ Linked(c, o).deployment = o.deployment
  BY LinkedKeeps, Zenon
<1>4. Linked(c, o).protocol = IF o.protocol # "" THEN o.protocol
                               ELSE c.deployments[o.deployment].protocol
  BY LinkedKeeps, Zenon
<1>5. CASE o.protocol = ""
  BY <1>1, <1>2, <1>3, <1>4, <1>5, Zenon
<1>6. CASE o.protocol # ""
  BY <1>1, <1>3, <1>4, <1>6, Zenon
<1> QED
  BY <1>5, <1>6, Zenon

OfferingFields == {"id", "model", "deployment", "native", "protocol", "caps", "pricing"}
TemplateFields == {"id", "model", "deployment", "protocol", "source", "mapped", "caps", "pricing"}

\* The lists of a catalog as data.
LEMMA CatalogLists ==
  ASSUME NEW c, IsCatalog(c)
  PROVE  /\ IsList(c.offerings) /\ IsList(c.templates)
         /\ \A i \in DOMAIN c.offerings : IsRecord(c.offerings[i], OfferingFields)
         /\ \A i \in DOMAIN c.templates : IsRecord(c.templates[i], TemplateFields)
         /\ {"model", "deployment", "protocol"} \subseteq OfferingFields
         /\ {"model", "deployment", "protocol"} \subseteq TemplateFields
<1>1. AreOffers(c.offerings, OfferingFields) /\ AreOffers(c.templates, TemplateFields)
  BY Zenon DEF IsCatalog, OfferingFields, TemplateFields
<1>2. /\ {"model", "deployment", "protocol"} \subseteq OfferingFields
      /\ {"model", "deployment", "protocol"} \subseteq TemplateFields
  BY DEF OfferingFields, TemplateFields
<1> QED
  BY <1>1, <1>2, Zenon DEF AreOffers

\* What the compiler keeps is what is at the places that are kept, linked.
LEMMA CompiledOffers ==
  ASSUME NEW c
  PROVE  /\ Compiled(c).offerings = {Linked(c, c.offerings[i]) : i \in KeptOfferings(c)}
         /\ Compiled(c).templates = {Linked(c, c.templates[i]) : i \in KeptTemplates(c)}
BY DEF Compiled, KeptOfferings, KeptTemplates, FittingOfferings, FittingTemplates

\* All that is kept can be used.
LEMMA KeptAreUsable ==
  ASSUME NEW c, IsCatalog(c), Compilable(c),
         NEW o \in Compiled(c).offerings \cup Compiled(c).templates
  PROVE  /\ Known(c.models, o.model) /\ Known(c.providers, c.models[o.model].provider)
         /\ Known(c.deployments, o.deployment) /\ Known(c.protocols, o.protocol)
<1>1. CASE o \in Compiled(c).offerings
  <2>1. PICK i \in KeptOfferings(c) : o = Linked(c, c.offerings[i])
    BY <1>1, CompiledOffers
  <2>2. i \in DOMAIN c.offerings /\ OfferingFits(c, c.offerings[i])
    BY <2>1, Zenon DEF KeptOfferings, KeptPlaces, FittingOfferings
  <2> DEFINE f == c.offerings[i]
  <2>3. /\ Known(c.models, f.model) /\ Known(c.deployments, f.deployment)
        /\ f.protocol # "" => Known(c.protocols, f.protocol)
    BY <2>2, Zenon DEF OfferingFits
  <2>4. IsRecord(f, OfferingFields) /\ {"model", "deployment", "protocol"} \subseteq OfferingFields
    BY <2>2, CatalogLists, Zenon
  <2> HIDE DEF f
  <2> QED
    BY <2>1, <2>3, <2>4, LinkedIsUsable, Zenon DEF f
<1>2. CASE o \in Compiled(c).templates
  <2>1. PICK i \in KeptTemplates(c) : o = Linked(c, c.templates[i])
    BY <1>2, CompiledOffers
  <2>2. i \in DOMAIN c.templates /\ TemplateFits(c, c.templates[i])
    BY <2>1, Zenon DEF KeptTemplates, KeptPlaces, FittingTemplates
  <2> DEFINE f == c.templates[i]
  <2>3. /\ Known(c.models, f.model) /\ Known(c.deployments, f.deployment)
        /\ f.protocol # "" => Known(c.protocols, f.protocol)
    BY <2>2, Zenon DEF TemplateFits
  <2>4. IsRecord(f, TemplateFields) /\ {"model", "deployment", "protocol"} \subseteq TemplateFields
    BY <2>2, CatalogLists, Zenon
  <2> HIDE DEF f
  <2> QED
    BY <2>1, <2>3, <2>4, LinkedIsUsable, Zenon DEF f
<1> QED
  BY <1>1, <1>2

\* An offering that is kept has the route of its place.
LEMMA KeptRoute ==
  ASSUME NEW c, IsCatalog(c), NEW i \in KeptOfferings(c)
  PROVE  i \in DOMAIN c.offerings /\ RouteOf(Linked(c, c.offerings[i])) = RouteOf(c.offerings[i])
<1>1. i \in DOMAIN c.offerings
  BY Zenon DEF KeptOfferings, KeptPlaces, FittingOfferings
<1> QED
  BY <1>1, CatalogLists, LinkedKeeps, Zenon

\* One offering at most is kept for a model at a deployment.
LEMMA RoutesAreUnique ==
  ASSUME NEW c, IsCatalog(c), NEW o \in Compiled(c).offerings, NEW q \in Compiled(c).offerings,
         RouteOf(o) = RouteOf(q)
  PROVE  o = q
<1>1. PICK i \in KeptOfferings(c) : o = Linked(c, c.offerings[i])
  BY CompiledOffers
<1>2. PICK j \in KeptOfferings(c) : q = Linked(c, c.offerings[j])
  BY CompiledOffers
<1>3. RouteOf(c.offerings[i]) = RouteOf(c.offerings[j])
  BY <1>1, <1>2, KeptRoute
<1>4. IsList(c.offerings) /\ FittingOfferings(c) \subseteq DOMAIN c.offerings
  BY CatalogLists DEF FittingOfferings
<1>5. i = j
  BY <1>3, <1>4, OneKeptPerRoute DEF KeptOfferings
<1> QED
  BY <1>1, <1>2, <1>5

\* The route of an offering that fits is kept, unless an earlier offering has
\* its id.
LEMMA FittingRouteIsKept ==
  ASSUME NEW c, IsCatalog(c), NEW i \in DOMAIN c.offerings, OfferingFits(c, c.offerings[i]),
         \A j \in Before(c.offerings, i) : c.offerings[j].id # c.offerings[i].id
  PROVE  Cardinality(OfferingsFor(Compiled(c), c.offerings[i].model,
                                  c.offerings[i].deployment)) = 1
<1>1. IsList(c.offerings) /\ FittingOfferings(c) \subseteq DOMAIN c.offerings
  BY CatalogLists DEF FittingOfferings
<1>2. i \in Candidates(c.offerings, FittingOfferings(c))
  BY Zenon DEF Candidates, FittingOfferings
<1>3. PICK k \in KeptOfferings(c) : RouteOf(c.offerings[k]) = RouteOf(c.offerings[i])
  BY <1>1, <1>2, RouteIsKept DEF KeptOfferings
<1> DEFINE o == Linked(c, c.offerings[k])
           r == RouteOf(c.offerings[i])
<1>4. o \in Compiled(c).offerings /\ RouteOf(o) = r
  BY <1>3, CompiledOffers, KeptRoute
<1>5. {x \in Compiled(c).offerings : RouteOf(x) = r} = {o}
  <2> HIDE DEF o, r
  <2> QED
    BY <1>4, RoutesAreUnique
<1>6. OfferingsFor(Compiled(c), c.offerings[i].model, c.offerings[i].deployment) = {o}
  BY <1>5, Zenon DEF OfferingsFor, RouteOf
<1> QED
  BY <1>6, FS_Singleton, Zenon

-----------------------------------------------------------------------------
(***************************************************************************)
(* What is normalised stays as it is when it is normalised again.          *)
(***************************************************************************)
CatalogFields ==
  {"schema", "generated", "staleAfter", "providers", "protocols", "deployments", "models",
   "offerings", "templates", "aliases"}
ReferenceModels(owners) ==
  {m \in DOMAIN ReferenceCatalog.models : ReferenceCatalog.models[m].provider \in owners}

\* A function that has the keys already.
Holds(f, keys) == f = [k \in DOMAIN f |-> f[k]] /\ keys \subseteq DOMAIN f

\* A catalog that has all of the reference data.
HasReference(c, owners) ==
  /\ IsRecord(c, CatalogFields)
  /\ Holds(c.providers, DOMAIN ReferenceCatalog.providers)
  /\ Holds(c.protocols, DOMAIN ReferenceCatalog.protocols)
  /\ Holds(c.deployments, DOMAIN ReferenceCatalog.deployments)
  /\ Holds(c.models, ReferenceModels(owners))

\* What is completed holds the keys, and what holds them is complete.
LEMMA CompletedHolds ==
  ASSUME NEW f, NEW keys, NEW others
  PROVE  Holds(Completed(f, keys, others), keys)
BY DEF Holds, Completed

LEMMA HeldIsComplete ==
  ASSUME NEW f, NEW keys, NEW others, Holds(f, keys)
  PROVE  Completed(f, keys, others) = f
BY DEF Holds, Completed, Known

\* After the merge a catalog has the reference data, and lists as before.
LEMMA ReferenceIsMerged ==
  ASSUME NEW c, IsRecord(c, CatalogFields), NEW owners
  PROVE  /\ HasReference(WithReference(c, owners), owners)
         /\ WithReference(c, owners).offerings = c.offerings
         /\ WithReference(c, owners).templates = c.templates
<1> DEFINE ref == ReferenceCatalog
           ps == Completed(c.providers, DOMAIN ref.providers, ref.providers)
           os == Completed(c.protocols, DOMAIN ref.protocols, ref.protocols)
           ds == Completed(c.deployments, DOMAIN ref.deployments, ref.deployments)
           ms == Completed(c.models, ReferenceModels(owners), ref.models)
           r  == WithReference(c, owners)
<1>1. r = [c EXCEPT !.providers = ps, !.protocols = os, !.deployments = ds, !.models = ms]
  BY DEF WithReference, ReferenceModels
<1>2. /\ Holds(ps, DOMAIN ref.providers) /\ Holds(os, DOMAIN ref.protocols)
      /\ Holds(ds, DOMAIN ref.deployments) /\ Holds(ms, ReferenceModels(owners))
  BY CompletedHolds
<1> HIDE DEF ps, os, ds, ms, ref, r
<1>3. /\ IsRecord(r, CatalogFields)
      /\ r.providers = ps /\ r.protocols = os /\ r.deployments = ds /\ r.models = ms
      /\ r.offerings = c.offerings /\ r.templates = c.templates
  BY <1>1 DEF IsRecord, CatalogFields
<1>4. HasReference(r, owners)
  BY <1>2, <1>3, Zenon DEF HasReference, ref
<1> QED
  BY <1>3, <1>4 DEF r

\* A catalog that has the reference data is not changed by the merge.
LEMMA MergeAddsNothing ==
  ASSUME NEW c, NEW owners, HasReference(c, owners)
  PROVE  WithReference(c, owners) = c
<1> DEFINE ref == ReferenceCatalog
<1>1. /\ Completed(c.providers, DOMAIN ref.providers, ref.providers) = c.providers
      /\ Completed(c.protocols, DOMAIN ref.protocols, ref.protocols) = c.protocols
      /\ Completed(c.deployments, DOMAIN ref.deployments, ref.deployments) = c.deployments
      /\ Completed(c.models, ReferenceModels(owners), ref.models) = c.models
  BY HeldIsComplete, Zenon DEF HasReference
<1>2. WithReference(c, owners) =
        [c EXCEPT !.providers = c.providers, !.protocols = c.protocols,
                  !.deployments = c.deployments, !.models = c.models]
  BY <1>1 DEF WithReference, ReferenceModels
<1>3. IsRecord(c, CatalogFields)
  BY DEF HasReference
<1> QED
  BY <1>2, <1>3 DEF IsRecord, CatalogFields

\* Taking elements out of a set and adding others is done once.
LEMMA SetOnce ==
  ASSUME NEW a, NEW b, NEW S
  PROVE  LET T == (S \ a) \cup b IN (T \ a) \cup b = T
OBVIOUS

\* Setting the protocols of OpenAI's deployment is done once.
LEMMA ResponsesOnce ==
  ASSUME NEW d
  PROVE  WithResponses(WithResponses(d)) = WithResponses(d)
<1> DEFINE out == {""}
           in  == {"openai-responses", "openai-chat-completions"}
           w   == WithResponses(d)
           set(S) == (S \ out) \cup in
           both == set(d.protocols)
<1>1. \A x : WithResponses(x) = [x EXCEPT !.protocol = "openai-responses", !.protocols = set(x.protocols)]
  BY DEF WithResponses
<1>2. set(both) = both
  BY SetOnce
<1> HIDE DEF out, in, set
<1>3. w = [d EXCEPT !.protocol = "openai-responses", !.protocols = both]
  BY <1>1
<1>4. WithResponses(w) = [w EXCEPT !.protocol = "openai-responses", !.protocols = set(w.protocols)]
  BY <1>1
<1> HIDE DEF both, w
<1>5. "protocols" \in DOMAIN d => w.protocols = both
  BY <1>3
<1> QED
  BY <1>2, <1>3, <1>4, <1>5 DEF w

\* OpenAI's deployment is set among the others: the reference data stays.
LEMMA ResponsesKeepReference ==
  ASSUME NEW c, NEW owners, HasReference(c, owners)
  PROVE  /\ HasReference(WithOpenAIProtocols(c), owners)
         /\ WithOpenAIProtocols(c).offerings = c.offerings
         /\ WithOpenAIProtocols(c).templates = c.templates
<1>1. CASE ~Known(c.deployments, "openai-direct")
  BY <1>1 DEF WithOpenAIProtocols
<1>2. CASE Known(c.deployments, "openai-direct")
  <2> DEFINE ds == [c.deployments EXCEPT !["openai-direct"] = WithResponses(@)]
             n  == WithOpenAIProtocols(c)
  <2>1. n = [c EXCEPT !.deployments = ds]
    BY <1>2 DEF WithOpenAIProtocols
  <2>2. IsRecord(c, CatalogFields)
    BY DEF HasReference
  <2>3. Holds(ds, DOMAIN ReferenceCatalog.deployments)
    BY DEF HasReference, Holds
  <2> HIDE DEF ds, n
  <2>4. /\ IsRecord(n, CatalogFields) /\ n.deployments = ds
        /\ n.providers = c.providers /\ n.protocols = c.protocols /\ n.models = c.models
        /\ n.offerings = c.offerings /\ n.templates = c.templates
    BY <2>1, <2>2 DEF IsRecord, CatalogFields
  <2>5. HasReference(n, owners)
    BY <2>3, <2>4, Zenon DEF HasReference
  <2> QED
    BY <2>4, <2>5 DEF n
<1> QED
  BY <1>1, <1>2

\* Setting it again changes nothing.
LEMMA OpenAIOnce ==
  ASSUME NEW c, IsRecord(c, CatalogFields), Holds(c.deployments, {})
  PROVE  WithOpenAIProtocols(WithOpenAIProtocols(c)) = WithOpenAIProtocols(c)
<1>1. CASE ~Known(c.deployments, "openai-direct")
  BY <1>1 DEF WithOpenAIProtocols
<1>2. CASE Known(c.deployments, "openai-direct")
  <2> DEFINE d  == WithResponses(c.deployments["openai-direct"])
             ds == [c.deployments EXCEPT !["openai-direct"] = d]
             n  == WithOpenAIProtocols(c)
  <2>1. n = [c EXCEPT !.deployments = ds]
    BY <1>2 DEF WithOpenAIProtocols
  <2>2. WithResponses(d) = d
    BY ResponsesOnce
  <2> HIDE DEF n, d
  <2>3. n.deployments = ds /\ IsRecord(n, CatalogFields)
    BY <2>1 DEF IsRecord, CatalogFields
  <2>4. Known(ds, "openai-direct") /\ ds["openai-direct"] = d
    BY <1>2 DEF Known
  <2>5. [ds EXCEPT !["openai-direct"] = WithResponses(@)] = ds
    BY <2>2, <2>4 DEF Known
  <2> HIDE DEF ds
  <2>6. WithOpenAIProtocols(n) = [n EXCEPT !.deployments = ds]
    BY <2>3, <2>4, <2>5 DEF WithOpenAIProtocols
  <2>7. [n EXCEPT !.deployments = ds] = n
    BY <2>3 DEF IsRecord, CatalogFields
  <2> QED
    BY <2>6, <2>7 DEF n
<1> QED
  BY <1>1, <1>2

\* A normalised document is a document, and normalising it again gives itself.
LEMMA NormalizedOnce ==
  ASSUME NEW c, IsCatalog(c)
  PROVE  IsCatalog(Normalized(c)) /\ Normalized(Normalized(c)) = Normalized(c)
<1> DEFINE apple == {"apple"}
           r == WithReference(c, apple)
           n == WithOpenAIProtocols(r)
<1>1. Normalized(c) = n /\ Normalized(n) = WithOpenAIProtocols(WithReference(n, apple))
  BY DEF Normalized
<1>2. IsRecord(c, CatalogFields)
  BY Zenon DEF IsCatalog, CatalogFields
<1> HIDE DEF apple
<1>3. /\ HasReference(r, apple) /\ r.offerings = c.offerings /\ r.templates = c.templates
  BY <1>2, ReferenceIsMerged
<1> HIDE DEF r
<1>4. HasReference(n, apple) /\ n.offerings = r.offerings /\ n.templates = r.templates
  BY <1>3, ResponsesKeepReference
<1>5. WithOpenAIProtocols(n) = n
  <2>1. IsRecord(r, CatalogFields) /\ Holds(r.deployments, {})
    BY <1>3 DEF HasReference, Holds
  <2> QED
    BY <2>1, OpenAIOnce
<1> HIDE DEF n
<1>6. WithReference(n, apple) = n
  BY <1>4, MergeAddsNothing
<1>7. IsCatalog(n)
  <2>1. IsRecord(n, CatalogFields)
    BY <1>4 DEF HasReference
  <2> QED
    BY <1>3, <1>4, <2>1, Zenon DEF IsCatalog, CatalogFields
<1> QED
  BY <1>1, <1>5, <1>6, <1>7, Zenon

-----------------------------------------------------------------------------
(***************************************************************************)
(* The inductive invariant of the cache.                                   *)
(***************************************************************************)
\* A whole catalog that was not stale when it was asked for.
Whole(cat, asked) ==
  IsCatalog(cat) /\ Normalized(cat) = cat /\ Valid(cat) /\ ~Stale(cat, asked)

\* Refreshers are records, at a known place.
RefresherShape ==
  /\ refresher = [p \in Refreshers |-> refresher[p]]
  /\ \A p \in Refreshers :
       /\ IsRecord(refresher[p], {"pc", "cat", "asked", "temp", "reports"})
       /\ refresher[p].pc \in {"idle", "asking", "save", "write", "replace"}
\* What is being saved was accepted.
SavesWhole ==
  \A p \in Refreshers : refresher[p].pc \in {"save", "write", "replace"} =>
    Whole(refresher[p].cat, refresher[p].asked)
\* What a refresh wrote is what it was saving.
FileWhole ==
  file.by # 0 => file.doc = Saved(file.doc.cat) /\ Whole(file.doc.cat, file.asked)
\* Temporary files that nobody is going to remove.
Writing == {p \in Refreshers : refresher[p].pc \in {"write", "replace"}}
Orphans == temps \ {refresher[p].temp : p \in Writing}
OrphansCrashed ==
  IsFiniteSet(temps) /\ crashes \in Nat /\ Cardinality(Orphans) <= crashes

CacheInv ==
  /\ published \in Documents /\ RefresherShape /\ SavesWhole /\ FileWhole
  /\ Valid(loaded.cat) /\ OrphansCrashed

\* It holds at first.
LEMMA InitCacheInv == CacheInit => CacheInv
<1> SUFFICES ASSUME CacheInit PROVE CacheInv
  OBVIOUS
<1>1. published \in Documents /\ file.by = 0
  BY DEF CacheInit, Documents
<1>2. RefresherShape /\ \A p \in Refreshers : refresher[p].pc = "idle"
  BY DEF CacheInit, RefresherShape, Idle, IsRecord
<1>3. SavesWhole
  BY <1>2 DEF SavesWhole
<1>4. Valid(loaded.cat)
  BY EmbeddedAssumption DEF CacheInit
<1>5. OrphansCrashed
  <2>1. temps = {} /\ Orphans = {} /\ crashes = 0
    BY DEF CacheInit, Orphans
  <2> QED
    BY <2>1, FS_EmptySet DEF OrphansCrashed
<1> QED
  BY <1>1, <1>2, <1>3, <1>4, <1>5 DEF CacheInv, FileWhole

\* What is published remains a document.
LEMMA PublishedIsDocument ==
  ASSUME published \in Documents, CacheNext
  PROVE  published' \in Documents
BY DEF CacheNext, Tick, Publish, Load, Begin, NoAnswer, Answer, Create, Write, Replace,
       SaveFails, Crash, Documents

\* A step of a process moves it, and nobody else.
MovesTo(p, pc, cat, asked, temp) ==
  /\ refresher' = [refresher EXCEPT ![p] = refresher'[p]]
  /\ IsRecord(refresher'[p], {"pc", "cat", "asked", "temp", "reports"})
  /\ refresher'[p].pc = pc /\ refresher'[p].cat = cat
  /\ refresher'[p].asked = asked /\ refresher'[p].temp = temp

\* Where a step leads its process.
LEMMA Moves ==
  ASSUME RefresherShape, NEW p \in Refreshers
  PROVE  LET r == refresher[p]
         IN /\ Begin(p) => MovesTo(p, "asking", Embedded, now, refreshes + 1)
            /\ NoAnswer(p) => MovesTo(p, "idle", r.cat, r.asked, r.temp)
            /\ Answer(p) =>
                 \/ MovesTo(p, "idle", r.cat, r.asked, r.temp)
                 \/ \E c \in Fetched(published, r.asked) : MovesTo(p, "save", c, r.asked, r.temp)
            /\ Create(p) =>
                 \/ MovesTo(p, "idle", r.cat, r.asked, r.temp) /\ UNCHANGED temps
                 \/ /\ MovesTo(p, "write", Normalized(r.cat), r.asked, r.temp)
                    /\ temps' = temps \cup {r.temp}
            /\ Write(p) => MovesTo(p, "replace", r.cat, r.asked, r.temp)
            /\ Replace(p) => MovesTo(p, "idle", r.cat, r.asked, r.temp)
            /\ SaveFails(p) => MovesTo(p, "idle", r.cat, r.asked, r.temp)
            /\ Crash(p) => MovesTo(p, "idle", Embedded, 0, 0)
<1> DEFINE fields == {"pc", "cat", "asked", "temp", "reports"}
           r == refresher[p]
<1>1. refresher = [q \in Refreshers |-> refresher[q]] /\ IsRecord(r, fields)
  BY DEF RefresherShape
<1>2. ASSUME NEW to, refresher' = [refresher EXCEPT ![p] = to], IsRecord(to, fields)
      PROVE  MovesTo(p, to.pc, to.cat, to.asked, to.temp)
  BY <1>1, <1>2 DEF MovesTo
<1>3. ASSUME Fails(p) PROVE MovesTo(p, "idle", r.cat, r.asked, r.temp)
  <2> DEFINE to == [r EXCEPT !.pc = "idle", !.reports = "error"]
  <2>1. refresher' = [refresher EXCEPT ![p] = to]
    BY <1>1, <1>3 DEF Fails
  <2>2. /\ IsRecord(to, fields) /\ to.pc = "idle"
        /\ to.cat = r.cat /\ to.asked = r.asked /\ to.temp = r.temp
    BY <1>1 DEF IsRecord
  <2> HIDE DEF to, r
  <2> QED
    BY <1>2, <2>1, <2>2
<1>4. ASSUME NEW pc, Goes(p, pc) PROVE MovesTo(p, pc, r.cat, r.asked, r.temp)
  <2> DEFINE to == [r EXCEPT !.pc = pc]
  <2>1. refresher' = [refresher EXCEPT ![p] = to]
    BY <1>1, <1>4 DEF Goes
  <2>2. /\ IsRecord(to, fields) /\ to.pc = pc
        /\ to.cat = r.cat /\ to.asked = r.asked /\ to.temp = r.temp
    BY <1>1 DEF IsRecord
  <2> HIDE DEF to, r
  <2> QED
    BY <1>2, <2>1, <2>2
<1>5. ASSUME NEW pc, NEW c, refresher' = [refresher EXCEPT ![p].pc = pc, ![p].cat = c]
      PROVE  MovesTo(p, pc, c, r.asked, r.temp)
  <2> DEFINE to == [r EXCEPT !.pc = pc, !.cat = c]
  <2>1. refresher' = [refresher EXCEPT ![p] = to]
    BY <1>1, <1>5
  <2>2. /\ IsRecord(to, fields) /\ to.pc = pc
        /\ to.cat = c /\ to.asked = r.asked /\ to.temp = r.temp
    BY <1>1 DEF IsRecord
  <2> HIDE DEF to, r
  <2> QED
    BY <1>2, <2>1, <2>2
<1>6. Begin(p) => MovesTo(p, "asking", Embedded, now, refreshes + 1)
  <2> DEFINE to == [Idle EXCEPT !.pc = "asking", !.asked = now, !.temp = refreshes + 1]
  <2>1. /\ IsRecord(to, fields) /\ to.pc = "asking"
        /\ to.cat = Embedded /\ to.asked = now /\ to.temp = refreshes + 1
    BY DEF IsRecord, Idle
  <2>2. Begin(p) => refresher' = [refresher EXCEPT ![p] = to]
    BY DEF Begin
  <2> HIDE DEF to, r
  <2> QED
    BY <1>2, <2>1, <2>2
<1>7. Crash(p) => MovesTo(p, "idle", Embedded, 0, 0)
  <2>1. /\ IsRecord(Idle, fields) /\ Idle.pc = "idle"
        /\ Idle.cat = Embedded /\ Idle.asked = 0 /\ Idle.temp = 0
    BY DEF IsRecord, Idle
  <2>2. Crash(p) => refresher' = [refresher EXCEPT ![p] = Idle]
    BY DEF Crash
  <2> HIDE DEF r
  <2> QED
    BY <1>2, <2>1, <2>2
<1>8. Replace(p) => MovesTo(p, "idle", r.cat, r.asked, r.temp)
  <2> DEFINE to == [r EXCEPT !.pc = "idle", !.reports = "replaced"]
  <2>1. Replace(p) => refresher' = [refresher EXCEPT ![p] = to]
    BY <1>1 DEF Replace
  <2>2. /\ IsRecord(to, fields) /\ to.pc = "idle"
        /\ to.cat = r.cat /\ to.asked = r.asked /\ to.temp = r.temp
    BY <1>1 DEF IsRecord
  <2> HIDE DEF to, r
  <2> QED
    BY <1>2, <2>1, <2>2
<1> HIDE DEF r
<1>9. NoAnswer(p) \/ SaveFails(p) => MovesTo(p, "idle", r.cat, r.asked, r.temp)
  BY <1>3 DEF NoAnswer, SaveFails
<1>10. Write(p) => MovesTo(p, "replace", r.cat, r.asked, r.temp)
  BY <1>4 DEF Write
<1>11. Answer(p) => \/ MovesTo(p, "idle", r.cat, r.asked, r.temp)
                    \/ \E c \in Fetched(published, r.asked) :
                         MovesTo(p, "save", c, r.asked, r.temp)
  BY <1>3, <1>5 DEF Answer, r
<1>12. Create(p) => \/ MovesTo(p, "idle", r.cat, r.asked, r.temp) /\ UNCHANGED temps
                    \/ /\ MovesTo(p, "write", Normalized(r.cat), r.asked, r.temp)
                       /\ temps' = temps \cup {r.temp}
  BY <1>3, <1>5 DEF Create, r
<1> QED
  BY <1>6, <1>7, <1>8, <1>9, <1>10, <1>11, <1>12 DEF r

Places == {"idle", "asking", "save", "write", "replace"}

\* A process that moves to a known place keeps the shape; the others stay.
LEMMA MoveKeepsShape ==
  ASSUME RefresherShape, NEW p \in Refreshers, NEW pc \in Places, NEW cat, NEW asked, NEW temp,
         MovesTo(p, pc, cat, asked, temp)
  PROVE  /\ RefresherShape'
         /\ \A q \in Refreshers : q # p => refresher'[q] = refresher[q]
BY DEF RefresherShape, MovesTo, Places

\* What is fetched from a document is whole.
LEMMA FetchedIsWhole ==
  ASSUME NEW doc \in Documents, NEW asked, NEW c \in Fetched(doc, asked)
  PROVE  Whole(c, asked)
<1>1. c \in ParseRemote(doc) /\ ~Stale(c, asked)
  BY DEF Fetched
<1>2. doc.kind = "catalog" /\ c = Normalized(doc.cat) /\ Valid(c)
  BY <1>1, Zenon DEF ParseRemote, Accepted
<1> QED
  BY <1>1, <1>2, DocumentsAssumption, NormalizedOnce, Zenon DEF Whole

\* Whatever is read from a local file is valid.
LEMMA ParsedIsValid ==
  ASSUME NEW doc, NEW c \in Parse(doc)
  PROVE  Valid(c)
<1>1. CASE doc.kind = "catalog"
  BY <1>1 DEF Parse, Accepted
<1>2. CASE doc.kind = "legacy"
  BY <1>2 DEF Parse, Accepted
<1>3. CASE doc.kind \notin {"catalog", "legacy"}
  BY <1>3 DEF Parse
<1> QED
  BY <1>1, <1>2, <1>3

\* A step of a process is one of the actions of CacheNext.
LEMMA StepOf ==
  ASSUME CacheNext
  PROVE  \/ Tick \/ Publish \/ Load
         \/ \E p \in Refreshers :
              \/ Begin(p) \/ NoAnswer(p) \/ Answer(p) \/ Create(p)
              \/ Write(p) \/ Replace(p) \/ SaveFails(p) \/ Crash(p)
BY DEF CacheNext

\* The others leave the processes, the file and its directory alone.
LEMMA OthersChangeNoFile ==
  ASSUME Tick \/ Publish \/ Load
  PROVE  UNCHANGED <<file, temps, refresher, crashes>>
BY DEF Tick, Publish, Load

\* Every step keeps the shape, and lets processes save whole catalogs only.
LEMMA NextSavesWhole ==
  ASSUME published \in Documents, RefresherShape, SavesWhole, CacheNext
  PROVE  RefresherShape' /\ SavesWhole'
<1>1. CASE Tick \/ Publish \/ Load
  BY <1>1, OthersChangeNoFile DEF RefresherShape, SavesWhole
<1>2. ASSUME NEW p \in Refreshers, NEW pc \in Places, NEW cat, NEW asked, NEW temp,
             MovesTo(p, pc, cat, asked, temp),
             pc \in {"save", "write", "replace"} => Whole(cat, asked)
      PROVE  RefresherShape' /\ SavesWhole'
  <2>1. RefresherShape' /\ \A q \in Refreshers : q # p => refresher'[q] = refresher[q]
    BY <1>2, MoveKeepsShape
  <2>2. /\ refresher'[p].pc = pc /\ refresher'[p].cat = cat
        /\ refresher'[p].asked = asked
    BY <1>2 DEF MovesTo
  <2> QED
    BY <1>2, <2>1, <2>2 DEF SavesWhole
<1>3. ASSUME NEW p \in Refreshers,
             \/ Begin(p) \/ NoAnswer(p) \/ Answer(p) \/ Create(p)
             \/ Write(p) \/ Replace(p) \/ SaveFails(p) \/ Crash(p)
      PROVE  RefresherShape' /\ SavesWhole'
  <2> DEFINE r == refresher[p]
  <2>1. CASE \E cat, asked, temp :
               MovesTo(p, "idle", cat, asked, temp) \/ MovesTo(p, "asking", cat, asked, temp)
    BY <1>2, <2>1 DEF Places
  <2>2. CASE \E c \in Fetched(published, r.asked) : MovesTo(p, "save", c, r.asked, r.temp)
    BY <1>2, <2>2, FetchedIsWhole DEF Places
  <2>3. CASE Create(p) /\ MovesTo(p, "write", Normalized(r.cat), r.asked, r.temp)
    <3>1. Whole(r.cat, r.asked)
      BY <2>3 DEF Create, SavesWhole
    <3>2. Whole(Normalized(r.cat), r.asked)
      BY <3>1, Zenon DEF Whole
    <3> QED
      BY <1>2, <2>3, <3>2 DEF Places
  <2>4. CASE Write(p) /\ MovesTo(p, "replace", r.cat, r.asked, r.temp)
    <3>1. Whole(r.cat, r.asked)
      BY <2>4 DEF Write, SavesWhole
    <3> QED
      BY <1>2, <2>4, <3>1 DEF Places
  <2> QED
    BY <1>3, <2>1, <2>2, <2>3, <2>4, Moves
<1> QED
  BY <1>1, <1>3, StepOf

\* The file is written by Replace only.
LEMMA NextFileWhole ==
  ASSUME SavesWhole, FileWhole, CacheNext
  PROVE  FileWhole'
<1>1. CASE UNCHANGED file
  BY <1>1 DEF FileWhole
<1>2. ASSUME NEW p \in Refreshers, Replace(p)
      PROVE  FileWhole'
  <2>1. Whole(refresher[p].cat, refresher[p].asked)
    BY <1>2 DEF Replace, SavesWhole
  <2>2. /\ file'.doc = Saved(refresher[p].cat) /\ file'.asked = refresher[p].asked
        /\ file'.doc.cat = refresher[p].cat
    BY <1>2 DEF Replace, Saved
  <2> QED
    BY <2>1, <2>2 DEF FileWhole
<1>3. UNCHANGED file \/ \E p \in Refreshers : Replace(p)
  BY DEF CacheNext, Tick, Publish, Load, Begin, NoAnswer, Answer, Create, Write, SaveFails, Crash
<1> QED
  BY <1>1, <1>2, <1>3

\* What a load returns is valid.
LEMMA NextLoadsValid ==
  ASSUME Valid(loaded.cat), CacheNext
  PROVE  Valid(loaded'.cat)
<1>1. CASE UNCHANGED loaded
  BY <1>1
<1>2. CASE Load
  <2>1. \/ \E c \in Parse(file.doc) : loaded' = [source |-> "cache", cat |-> c]
        \/ loaded' = [source |-> "embedded", cat |-> Embedded]
    BY <1>2 DEF Load
  <2> QED
    BY <2>1, ParsedIsValid, EmbeddedAssumption
<1>3. UNCHANGED loaded \/ Load
  BY DEF CacheNext, Tick, Publish, Begin, NoAnswer, Answer, Create, Write, Replace, SaveFails, Crash
<1> QED
  BY <1>1, <1>2, <1>3

\* A set that grows by one element at most, with a bound that grows too.
LEMMA OneMore ==
  ASSUME NEW S, IsFiniteSet(S), NEW n \in Nat, Cardinality(S) <= n, NEW x, NEW T, T \subseteq S \cup {x}
  PROVE  Cardinality(T) <= n + 1
<1>1. /\ IsFiniteSet(S \cup {x})
      /\ Cardinality(S \cup {x}) = IF x \in S THEN Cardinality(S) ELSE Cardinality(S) + 1
  BY FS_AddElement
<1>2. Cardinality(T) <= Cardinality(S \cup {x})
  BY <1>1, FS_Subset
<1>3. IsFiniteSet(T)
  BY <1>1, FS_Subset
<1> QED
  BY <1>1, <1>2, <1>3, FS_CardinalityType

\* A set that does not grow.
LEMMA NoMore ==
  ASSUME NEW S, IsFiniteSet(S), NEW n \in Nat, Cardinality(S) <= n, NEW T, T \subseteq S
  PROVE  Cardinality(T) <= n
<1>1. IsFiniteSet(T) /\ Cardinality(T) <= Cardinality(S)
  BY FS_Subset
<1> QED
  BY <1>1, FS_CardinalityType

\* A temporary file is left behind by a crash only: of a process that goes on
\* or gives up, the file is kept in mind or removed.
LEMMA NextOrphansCrashed ==
  ASSUME RefresherShape, OrphansCrashed, CacheNext
  PROVE  OrphansCrashed'
<1>1. IsFiniteSet(Orphans)
  BY FS_Subset DEF OrphansCrashed, Orphans
<1>2. ASSUME IsFiniteSet(temps'), UNCHANGED crashes, Orphans' \subseteq Orphans
      PROVE  OrphansCrashed'
  BY <1>1, <1>2, NoMore DEF OrphansCrashed
<1>3. CASE Tick \/ Publish \/ Load
  BY <1>3, OthersChangeNoFile DEF OrphansCrashed, Orphans, Writing
<1>4. ASSUME NEW p \in Refreshers, NEW pc \in Places, NEW cat, NEW asked, NEW temp,
             MovesTo(p, pc, cat, asked, temp)
      PROVE  /\ \A q \in Refreshers : q # p =>
                  (q \in Writing' <=> q \in Writing) /\ refresher'[q].temp = refresher[q].temp
             /\ (p \in Writing') <=> pc \in {"write", "replace"}
             /\ refresher'[p].temp = temp
  <2>1. \A q \in Refreshers : q # p => refresher'[q] = refresher[q]
    BY <1>4, MoveKeepsShape
  <2> QED
    BY <1>4, <2>1 DEF Writing, MovesTo
<1>5. ASSUME NEW p \in Refreshers,
             \/ Begin(p) \/ NoAnswer(p) \/ Answer(p) \/ Create(p)
             \/ Write(p) \/ Replace(p) \/ SaveFails(p) \/ Crash(p)
      PROVE  OrphansCrashed'
  <2> DEFINE r == refresher[p]
  <2>1. /\ p \in Writing <=> r.pc \in {"write", "replace"}
        /\ IsFiniteSet(temps)
    BY DEF Writing, OrphansCrashed
  <2>2. CASE Begin(p) \/ NoAnswer(p) \/ Answer(p)
    <3>1. p \notin Writing /\ UNCHANGED <<temps, crashes>>
      BY <2>1, <2>2 DEF Begin, NoAnswer, Answer
    <3>2. PICK pc \in Places : \E cat, asked, temp : MovesTo(p, pc, cat, asked, temp)
      BY <2>2, Moves DEF Places
    <3>3. Orphans' \subseteq Orphans
      BY <1>4, <3>1, <3>2 DEF Orphans, Writing
    <3> QED
      BY <1>2, <2>1, <3>1, <3>3
  <2>3. CASE Create(p)
    <3>1. p \notin Writing /\ UNCHANGED crashes
      BY <2>1, <2>3 DEF Create
    <3>2. CASE MovesTo(p, "idle", r.cat, r.asked, r.temp) /\ UNCHANGED temps
      <4>1. Orphans' \subseteq Orphans
        BY <1>4, <3>1, <3>2 DEF Orphans, Writing, Places
      <4> QED
        BY <1>2, <2>1, <3>1, <3>2, <4>1
    <3>3. CASE MovesTo(p, "write", Normalized(r.cat), r.asked, r.temp) /\ temps' = temps \cup {r.temp}
      <4>1. Orphans' \subseteq Orphans
        BY <1>4, <3>1, <3>3 DEF Orphans, Writing, Places
      <4>2. IsFiniteSet(temps')
        BY <2>1, <3>3, FS_AddElement
      <4> QED
        BY <1>2, <3>1, <4>1, <4>2
    <3> QED
      BY <2>3, <3>2, <3>3, Moves
  <2>4. CASE Write(p)
    <3>1. MovesTo(p, "replace", r.cat, r.asked, r.temp) /\ UNCHANGED <<temps, crashes>>
      BY <2>4, Moves DEF Write
    <3>2. Orphans' \subseteq Orphans
      BY <1>4, <3>1 DEF Orphans, Writing, Places
    <3> QED
      BY <1>2, <2>1, <3>1, <3>2
  <2>5. CASE Replace(p) \/ SaveFails(p)
    <3>1. /\ MovesTo(p, "idle", r.cat, r.asked, r.temp)
          /\ temps' = temps \ {r.temp} /\ UNCHANGED crashes
      BY <2>5, Moves DEF Replace, SaveFails
    <3>2. Orphans' \subseteq Orphans
      BY <1>4, <3>1 DEF Orphans, Writing, Places
    <3>3. IsFiniteSet(temps')
      BY <2>1, <3>1, FS_RemoveElement
    <3> QED
      BY <1>2, <3>1, <3>2, <3>3
  <2>6. CASE Crash(p)
    <3>1. MovesTo(p, "idle", Embedded, 0, 0) /\ UNCHANGED temps /\ crashes' = crashes + 1
      BY <2>6, Moves DEF Crash
    <3>2. Orphans' \subseteq Orphans \cup {r.temp}
      BY <1>4, <3>1 DEF Orphans, Writing, Places
    <3>3. Cardinality(Orphans') <= crashes + 1
      BY <1>1, <3>2, OneMore DEF OrphansCrashed
    <3> QED
      BY <2>1, <3>1, <3>3 DEF OrphansCrashed
  <2> QED
    BY <1>5, <2>2, <2>3, <2>4, <2>5, <2>6
<1> QED
  BY <1>3, <1>5, StepOf

\* CacheInv is inductive.
LEMMA NextCacheInv == CacheInv /\ [CacheNext]_cacheVars => CacheInv'
<1>1. ASSUME CacheInv, CacheNext PROVE CacheInv'
  <2>1. /\ published \in Documents /\ RefresherShape /\ SavesWhole /\ FileWhole
        /\ Valid(loaded.cat) /\ OrphansCrashed
    BY <1>1 DEF CacheInv
  <2> QED
    BY <1>1, <2>1, PublishedIsDocument, NextSavesWhole, NextFileWhole, NextLoadsValid,
       NextOrphansCrashed DEF CacheInv
<1>2. ASSUME CacheInv, UNCHANGED cacheVars PROVE CacheInv'
  BY <1>2 DEF CacheInv, cacheVars, RefresherShape, SavesWhole, FileWhole, OrphansCrashed,
              Orphans, Writing
<1> QED
  BY <1>1, <1>2

\* CacheInv holds in every behaviour.
LEMMA CacheInvHolds == CacheSpec => []CacheInv
BY InitCacheInv, NextCacheInv, PTL DEF CacheSpec

-----------------------------------------------------------------------------
(***************************************************************************)
(* Theorems.                                                               *)
(***************************************************************************)
\* A cache that was refreshed is loaded back whole as it was saved, and was
\* not stale when its refresh began, whatever crashed or failed (SaveCatalog,
\* ParseCatalogV1).
THEOREM RefreshLoads == CacheSpec => []RefreshedCacheLoads
<1>1. CacheInv => RefreshedCacheLoads
  <2> SUFFICES ASSUME CacheInv, file.by # 0
               PROVE  /\ file.doc.kind = "catalog" /\ Parse(file.doc) = {file.doc.cat}
                      /\ Compiled(file.doc.cat).dropped = {}
                      /\ ~Stale(file.doc.cat, file.asked)
    BY DEF RefreshedCacheLoads
  <2> DEFINE cat == file.doc.cat
  <2>1. file.doc = Saved(cat) /\ Whole(cat, file.asked)
    BY DEF CacheInv, FileWhole
  <2>2. Compiled(cat).dropped = {} /\ ~Stale(cat, file.asked)
    BY <2>1, ValidIsWhole DEF Whole
  <2> HIDE DEF cat
  <2>3. file.doc.kind = "catalog"
    BY <2>1 DEF Saved
  <2>4. Parse(Saved(cat)) = {cat}
    BY <2>1 DEF Parse, Saved, Accepted, Whole
  <2> QED
    BY <2>1, <2>2, <2>3, <2>4 DEF cat
<1> QED
  BY <1>1, CacheInvHolds, PTL

\* Only a crash leaves a temporary file behind, one each (SaveCatalog).
THEOREM CrashLeavesTemp == CacheSpec => []TempsRemoved
<1>1. CacheInv => TempsRemoved
  <2> SUFFICES ASSUME CacheInv PROVE Cardinality(temps) <= crashes + Cardinality(Writing)
    BY DEF TempsRemoved, Writing
  <2> DEFINE held == {refresher[p].temp : p \in Writing}
             f == [p \in Writing |-> refresher[p].temp]
  <2>1. IsFiniteSet(Writing) /\ f \in Surjection(Writing, held)
    <3>1. IsFiniteSet(Writing)
      BY RefreshersAssumption, FS_Subset DEF Writing
    <3>2. f \in Surjection(Writing, held)
      BY DEF Surjection
    <3> QED
      BY <3>1, <3>2
  <2>2. IsFiniteSet(held) /\ Cardinality(held) <= Cardinality(Writing)
    <3> HIDE DEF f, held
    <3> QED
      BY <2>1, FS_Surjection
  <2>3. /\ IsFiniteSet(temps) /\ crashes \in Nat /\ Cardinality(Orphans) <= crashes
    BY DEF CacheInv, OrphansCrashed
  <2>4. IsFiniteSet(Orphans) /\ temps \subseteq Orphans \cup held
    BY <2>3, FS_Subset DEF Orphans
  <2> HIDE DEF held
  <2>5. /\ IsFiniteSet(Orphans \cup held)
        /\ Cardinality(Orphans \cup held) =
             Cardinality(Orphans) + Cardinality(held) - Cardinality(Orphans \cap held)
    BY <2>2, <2>4, FS_Union
  <2>6. Cardinality(temps) <= Cardinality(Orphans \cup held)
    BY <2>4, <2>5, FS_Subset
  <2>7. IsFiniteSet(Orphans \cap held)
    BY <2>4, FS_Subset
  <2>8. /\ Cardinality(temps) \in Nat /\ Cardinality(Orphans) \in Nat
        /\ Cardinality(held) \in Nat /\ Cardinality(Writing) \in Nat
        /\ Cardinality(Orphans \cap held) \in Nat
    BY <2>1, <2>2, <2>3, <2>4, <2>7, FS_CardinalityType
  <2> QED
    BY <2>2, <2>3, <2>5, <2>6, <2>8
<1> QED
  BY <1>1, CacheInvHolds, PTL

\* A load gives a catalog that compiles with all of its offerings, whether it
\* comes from a new cache, an old one or the embedded document
\* (LoadCatalogWithOptions).
THEOREM LoadsAreWhole == CacheSpec => []LoadedIsWhole
<1>1. CacheInv => LoadedIsWhole
  BY ValidIsWhole DEF CacheInv, LoadedIsWhole
<1> QED
  BY <1>1, CacheInvHolds, PTL

\* The validator and the compiler agree on every document, valid or not
\* (ValidateCatalogV1, CompileCatalogV1).
THEOREM CompilerAgrees == CacheSpec => []ValidatorAgrees
<1>1. CacheInv => ValidatorAgrees
  <2> SUFFICES ASSUME CacheInv, published.kind = "catalog", NEW c, c = published.cat
               PROVE  Valid(c) <=> Compilable(c) /\ Compiled(c).dropped = {} /\ AliasesOk(c)
    BY Zenon DEF ValidatorAgrees, AliasesOk
  <2>1. IsCatalog(c)
    BY DocumentsAssumption DEF CacheInv
  <2>2. Valid(c) => AliasesOk(c)
    BY Zenon DEF Valid, AliasesOk
  <2> QED
    BY <2>1, <2>2, ValidIsWhole, WholeIsValid, Zenon
<1> QED
  BY <1>1, CacheInvHolds, PTL

\* What is kept of any document can be used, and of those that fit no route is
\* lost (CompileCatalogV1).
THEOREM CompiledCloses == CacheSpec => []CompiledIsClosed
<1>1. CacheInv => CompiledIsClosed
  <2> SUFFICES ASSUME CacheInv, published.kind = "catalog", Compilable(published.cat),
                      NEW c, c = published.cat
               PROVE  LET k == Compiled(c)
                      IN /\ \A o \in k.offerings \cup k.templates :
                              /\ Known(c.models, o.model)
                              /\ Known(c.providers, c.models[o.model].provider)
                              /\ Known(c.deployments, o.deployment)
                              /\ Known(c.protocols, o.protocol)
                         /\ \A o, q \in k.offerings : RouteOf(o) = RouteOf(q) => o = q
                         /\ \A i \in DOMAIN c.offerings :
                              OfferingFits(c, c.offerings[i]) =>
                                \E j \in 1..i :
                                   \/ j < i /\ c.offerings[j].id = c.offerings[i].id
                                   \/ Cardinality(OfferingsFor(k, c.offerings[i].model,
                                                              c.offerings[i].deployment)) = 1
    BY Zenon DEF CompiledIsClosed
  <2>1. IsCatalog(c)
    BY DocumentsAssumption DEF CacheInv
  <2>2. ASSUME NEW i \in DOMAIN c.offerings, OfferingFits(c, c.offerings[i])
        PROVE  \E j \in 1..i : \/ j < i /\ c.offerings[j].id = c.offerings[i].id
                               \/ Cardinality(OfferingsFor(Compiled(c), c.offerings[i].model,
                                                          c.offerings[i].deployment)) = 1
    <3>1. i \in Nat \ {0}
      <4>1. IsList(c.offerings)
        BY <2>1, CatalogLists
      <4>2. DOMAIN c.offerings = 1..Len(c.offerings)
        BY <4>1 DEF IsList
      <4> QED
        BY <4>2
    <3>2. CASE \E j \in Before(c.offerings, i) : c.offerings[j].id = c.offerings[i].id
      <4>1. PICK j \in 1..i : j < i /\ c.offerings[j].id = c.offerings[i].id
        BY <3>1, <3>2 DEF Before
      <4> QED
        BY <4>1
    <3>3. CASE \A j \in Before(c.offerings, i) : c.offerings[j].id # c.offerings[i].id
      <4>1. i \in 1..i
        BY <3>1
      <4> QED
        BY <2>1, <2>2, <3>3, <4>1, FittingRouteIsKept
    <3> QED
      BY <3>2, <3>3
  <2> QED
    BY <2>1, <2>2, KeptAreUsable, RoutesAreUnique, Zenon
<1> QED
  BY <1>1, CacheInvHolds, PTL
=============================================================================
