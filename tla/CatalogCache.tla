---------------------------- MODULE CatalogCache ----------------------------
(***************************************************************************)
(* The cache file of the catalog (internal/models/catalog.go): processes   *)
(* that refresh it from the published document, and loads that read it and *)
(* fall back to the embedded catalog.  A process may crash between any two *)
(* steps; steps on the file system may fail.                               *)
(***************************************************************************)
EXTENDS LegacyCatalog

CONSTANTS
  Refreshers,   \* processes that refresh the cache
  Starts,       \* what is published and cached at first, and refreshes made before
  Publications, \* documents that may be published later
  Embedded,     \* the embedded catalog
  MaxTime, MaxCrashes, MaxFailures, MaxRefreshes  \* bounds

\* What decoding gives of a document of the current schema (CatalogV1): all
\* fields are there, and lists are lists, whatever they hold.
IsRecord(r, fields) == r = [f \in fields |-> r[f]]
IsList(s) == s = [i \in 1..Len(s) |-> s[i]]
AreOffers(list, fields) ==
  IsList(list) /\ \A i \in DOMAIN list : IsRecord(list[i], fields) /\ IsList(list[i].id)
IsCatalog(c) ==
  /\ IsRecord(c, {"schema", "generated", "staleAfter", "providers", "protocols",
                  "deployments", "models", "offerings", "templates", "aliases"})
  /\ AreOffers(c.offerings,
       {"id", "model", "deployment", "native", "protocol", "caps", "pricing"})
  /\ AreOffers(c.templates,
       {"id", "model", "deployment", "protocol", "source", "mapped", "caps", "pricing"})

Documents == {s[1] : s \in Starts} \cup Publications
ASSUME DocumentsAssumption == \A d \in Documents : d.kind = "catalog" => IsCatalog(d.cat)
\* The embedded catalog is read by the same parser (DefaultCatalog).
ASSUME EmbeddedAssumption == Valid(Embedded)
ASSUME RefreshersAssumption == IsFiniteSet(Refreshers)

VARIABLES
  now,       \* the time
  published, \* the document at the endpoint
  file,      \* the cache file: [doc, by, asked]; by is 0 unless a refresh wrote it
  temps,     \* temporary files in its directory, by the refresh that made them
  refresher, \* process -> [pc, cat, asked, temp, reports]
  loaded,    \* the last catalog a load returned: [source, cat]
  crashes, failures, refreshes

cacheVars == <<now, published, file, temps, refresher, loaded, crashes, failures, refreshes>>

Missing == [kind |-> "missing"]
Torn    == [kind |-> "garbage"]
Saved(cat) == [kind |-> "catalog", strict |-> TRUE, cat |-> cat]
Idle == [pc |-> "idle", cat |-> Embedded, asked |-> 0, temp |-> 0, reports |-> "nothing"]

CacheInit ==
  /\ \E s \in Starts : /\ published = s[1] /\ refreshes = s[3]
                       /\ file = [doc |-> s[2], by |-> 0, asked |-> 0]
  /\ now = 1 /\ temps = {} /\ refresher = [p \in Refreshers |-> Idle]
  /\ loaded = [source |-> "none", cat |-> Embedded]
  /\ crashes = 0 /\ failures = 0

Tick == /\ now < MaxTime /\ now' = now + 1
        /\ UNCHANGED <<published, file, temps, refresher, loaded, crashes, failures, refreshes>>

Publish == /\ published' \in Publications
           /\ UNCHANGED <<now, file, temps, refresher, loaded, crashes, failures, refreshes>>

-----------------------------------------------------------------------------
(***************************************************************************)
(* RefreshCatalogCache.                                                    *)
(***************************************************************************)
Stale(cat, time) == time > cat.staleAfter       \* catalogIsStale

\* fetchRemoteCatalog, of a document that came with status 200 within the
\* limit: parsed, compiled whole, not stale.
Fetched(doc, asked) ==
  {c \in ParseRemote(doc) : Compilable(c) /\ Compiled(c).dropped = {} /\ ~Stale(c, asked)}

Goes(p, pc) == refresher' = [refresher EXCEPT ![p].pc = pc]
Fails(p) == refresher' = [refresher EXCEPT ![p].pc = "idle", ![p].reports = "error"]

\* The time is read before the request.
Begin(p) ==
  /\ refresher[p].pc = "idle" /\ refreshes < MaxRefreshes
  /\ refresher' = [refresher EXCEPT ![p] = [Idle EXCEPT !.pc = "asking", !.asked = now,
                                                      !.temp = refreshes + 1]]
  /\ refreshes' = refreshes + 1
  /\ UNCHANGED <<now, published, file, temps, loaded, crashes, failures>>

\* A time-out, another status, or a body over the limit.
NoAnswer(p) ==
  /\ refresher[p].pc = "asking" /\ failures < MaxFailures
  /\ Fails(p) /\ failures' = failures + 1
  /\ UNCHANGED <<now, published, file, temps, loaded, crashes, refreshes>>

Answer(p) ==
  LET fetched == Fetched(published, refresher[p].asked)
  IN /\ refresher[p].pc = "asking"
     /\ IF fetched = {} THEN Fails(p)
        ELSE \E c \in fetched :
               refresher' = [refresher EXCEPT ![p].pc = "save", ![p].cat = c]
     /\ UNCHANGED <<now, published, file, temps, loaded, crashes, failures, refreshes>>

\* SaveCatalog: normalised and validated again, written to a temporary file
\* of its own, which then replaces the cache.
Create(p) ==
  LET c == Normalized(refresher[p].cat)
  IN /\ refresher[p].pc = "save"
     /\ IF Valid(c)
        THEN /\ refresher' = [refresher EXCEPT ![p].pc = "write", ![p].cat = c]
             /\ temps' = temps \cup {refresher[p].temp}
        ELSE Fails(p) /\ UNCHANGED temps
     /\ UNCHANGED <<now, published, file, loaded, crashes, failures, refreshes>>

\* Mutant of Write: the cache file itself is written.
WriteInPlace(p) ==
  /\ refresher[p].pc = "write" /\ Goes(p, "replace")
  /\ file' = [doc |-> Torn, by |-> refresher[p].temp, asked |-> refresher[p].asked]
  /\ UNCHANGED <<now, published, temps, loaded, crashes, failures, refreshes>>

Write(p) ==
  /\ refresher[p].pc = "write" /\ Goes(p, "replace")
  /\ UNCHANGED <<now, published, file, temps, loaded, crashes, failures, refreshes>>

\* Rename replaces the file in one step.
Replace(p) ==
  /\ refresher[p].pc = "replace"
  /\ file' = [doc |-> Saved(refresher[p].cat), by |-> refresher[p].temp, asked |-> refresher[p].asked]
  /\ temps' = temps \ {refresher[p].temp}
  /\ refresher' = [refresher EXCEPT ![p].pc = "idle", ![p].reports = "replaced"]
  /\ UNCHANGED <<now, published, loaded, crashes, failures, refreshes>>

\* Mutant of SaveFails: the temporary file stays.
LeavesTemp(p) ==
  /\ refresher[p].pc \in {"write", "replace"} /\ failures < MaxFailures
  /\ Fails(p) /\ failures' = failures + 1
  /\ UNCHANGED <<now, published, file, temps, loaded, crashes, refreshes>>

\* Any step of SaveCatalog that fails: the temporary file is removed.
SaveFails(p) ==
  /\ refresher[p].pc \in {"write", "replace"} /\ failures < MaxFailures
  /\ temps' = temps \ {refresher[p].temp}
  /\ Fails(p) /\ failures' = failures + 1
  /\ UNCHANGED <<now, published, file, loaded, crashes, refreshes>>

Crash(p) ==
  /\ refresher[p].pc # "idle" /\ crashes < MaxCrashes
  /\ refresher' = [refresher EXCEPT ![p] = Idle] /\ crashes' = crashes + 1
  /\ UNCHANGED <<now, published, file, temps, loaded, failures, refreshes>>

\* LoadCatalogWithOptions.
Load ==
  LET parsed == Parse(file.doc)
  IN /\ loaded' \in IF parsed # {} THEN {[source |-> "cache", cat |-> c] : c \in parsed}
                    ELSE {[source |-> "embedded", cat |-> Embedded]}
     /\ UNCHANGED <<now, published, file, temps, refresher, crashes, failures, refreshes>>

CacheNext ==
  \/ Tick \/ Publish \/ Load
  \/ \E p \in Refreshers :
       \/ Begin(p) \/ NoAnswer(p) \/ Answer(p) \/ Create(p) \/ Write(p) \/ Replace(p)
       \/ SaveFails(p) \/ Crash(p)

CacheSpec == CacheInit /\ [][CacheNext]_cacheVars

-----------------------------------------------------------------------------
(***************************************************************************)
(* Properties.                                                             *)
(***************************************************************************)
\* Whenever it is read, a cache that was refreshed is one whole catalog: it is
\* loaded back as it was saved, nothing of it is dropped, and it was not stale
\* when the refresh began, whatever crashed or failed ("Invalid, stale, or
\* partial remote data never overwrites an existing cache", catalog.go).
RefreshedCacheLoads ==
  file.by # 0 =>
    /\ file.doc.kind = "catalog" /\ Parse(file.doc) = {file.doc.cat}
    /\ Compiled(file.doc.cat).dropped = {}
    /\ ~Stale(file.doc.cat, file.asked)

\* Only a crash leaves a temporary file behind (SaveCatalog).
TempsRemoved ==
  Cardinality(temps) <= crashes + Cardinality({p \in Refreshers : refresher[p].pc \in {"write", "replace"}})

\* A load never fails and never gives less than a catalog that compiles with
\* all of its offerings, from the cache or embedded (LoadCatalogWithOptions).
LoadedIsWhole ==
  Compilable(loaded.cat) /\ Compiled(loaded.cat).dropped = {}

\* The two halves of the package agree on documents of the current schema:
\* the compiler drops nothing of a catalog exactly when the validator has
\* nothing to say, but for aliases, which only the validator looks at
\* (ValidateCatalogV1 against CompileCatalogV1).
ValidatorAgrees ==
  published.kind = "catalog" =>
    LET c == published.cat
        aliasesOk == \A a \in DOMAIN c.aliases : a # <<>> /\ Known(c.models, c.aliases[a])
    IN Valid(c) <=> Compilable(c) /\ Compiled(c).dropped = {} /\ aliasesOk

\* What the compiler keeps of any catalog, valid or not, can be used: there
\* is one offering or none for a model at a deployment, and its deployment,
\* the owner of its model and its protocol exist (compileOfferingProblemsV1).
CompiledIsClosed ==
  published.kind = "catalog" /\ Compilable(published.cat) =>
    LET c == published.cat
        k == Compiled(c)
    IN /\ \A o \in k.offerings \cup k.templates :
            /\ Known(c.models, o.model) /\ Known(c.providers, c.models[o.model].provider)
            /\ Known(c.deployments, o.deployment) /\ Known(c.protocols, o.protocol)
       /\ \A o, q \in k.offerings : RouteOf(o) = RouteOf(q) => o = q
       /\ \A i \in DOMAIN c.offerings :
            OfferingFits(c, c.offerings[i]) =>
              \E j \in 1..i : \/ j < i /\ c.offerings[j].id = c.offerings[i].id
                             \/ Cardinality(OfferingsFor(k, c.offerings[i].model,
                                                        c.offerings[i].deployment)) = 1

\* Every model of an older cache that is accepted can still be asked for: its
\* own deployment offers it under its old name, at its old price if it had
\* one, and a caller that knows only the provider finds that offering
\* (SourceFromLegacyCatalog, OfferingForLegacyProviderModel).
LegacyModelsKept ==
  file.doc.kind = "legacy" =>
    \A c \in Parse(file.doc) : \A p \in DOMAIN file.doc.legacy.providers \cap LegacyProviders :
      \A m \in {n \in Range(file.doc.legacy.providers[p]) : n.id # <<>>} :
        LET found == {o \in MetadataOffering(Compiled(c), p, m.id, <<>>) : o.native = m.id}
        IN /\ found # {}
           /\ \A o \in found : /\ o.deployment = DeploymentOf(p)
                              /\ \E q \in DOMAIN file.doc.legacy.providers \cap LegacyProviders :
                                   /\ DeploymentOf(q) = o.deployment
                                   /\ \E n \in Range(file.doc.legacy.providers[q]) :
                                        n.id = m.id /\ o.pricing = LegacyPricing(n)
=============================================================================
