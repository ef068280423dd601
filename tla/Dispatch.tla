------------------------------ MODULE Dispatch ------------------------------
(***************************************************************************)
(* One request on its way to a provider: through the weighted router       *)
(* (internal/provider/router.go), the deployment router                    *)
(* (deployment_router.go) or neither, as ProviderSetup built it, then      *)
(* through the retry wrapper of the chosen provider (retry.go).            *)
(*                                                                         *)
(* The provider may refuse a request, for good or for now, or answer it;   *)
(* an answer is a stream of events that may break at any point.  The       *)
(* caller may cancel its context at any time.                              *)
(***************************************************************************)
EXTENDS ProviderSetup, ModelRoutes

CONSTANTS
  Scenarios,    \* what may be called: records with the fields of `scene'
  Catalog,      \* the compiled catalog
  MaxEvents     \* bound on the events of one provider stream

ASSUME DispatchAssumption == MaxEvents \in Nat \ {0}

VARIABLES
  scene,     \* the scenario: [front, app, listed, mappings, op, model, tools]
  built,     \* the provider built from its configuration
  route,     \* the stages, or the providers to try in order, chosen for the call
  at,        \* where the call is: [pc, step, tries, name, offering, waits, cause]
  cancelled, \* whether the caller's context is cancelled
  stream,    \* the provider stream being read: [sent, buffered, output]
  answer,    \* what the caller has: [events, end]
  requests   \* the requests that reached a provider

dispatchVars == <<scene, built, route, at, cancelled, stream, answer, requests>>

\* What the adapters of a deployment router know.
Adapters(s, b) ==
  [d \in b.adapters |-> [mappings |-> {m[2] : m \in {n \in s.mappings : n[1] = d}},
                         models   |-> {m[2] : m \in {n \in s.listed : n[1] = d}}]]

BuiltFor(s) == IF s.front = "server" THEN BuildServerProvider(s.app)
               ELSE BuildLibraryProvider(LibraryConfig(s.app))

\* selectProvider: one of the entries with a weight.
Primaries(b) == {e \in Range(b.entries) : e.weight > 0}

\* completeFallback, streamFallback: the provider that failed is skipped, by
\* name.
Chain(b, primary) == SelectSeq(b.fallback, LAMBDA f : f.name # primary)

\* The routes the call may take.
Routes(s, b) ==
  CASE b.kind = "single" -> {<<b>>}
    [] b.kind = "router" ->
         IF Primaries(b) = {} THEN {Chain(b, "")}
         ELSE {<<e>> \o Chain(b, e.name) : e \in Primaries(b)}
    [] b.kind = "deployments" ->
         UNION {IF t = NoTarget THEN {<<>>}
                ELSE {[i \in DOMAIN r |-> [target |-> t, stage |-> r[i]]] :
                        r \in RouteFor(Catalog, b, t.canonical)} :
                t \in ResolveTarget(Catalog, Adapters(s, b), s.model)}
    [] OTHER -> {<<>>}

\* A route is a list, and the retries of its stages are numbers.
ASSUME RoutesAssumption ==
  \A s \in Scenarios : \A r \in Routes(s, BuiltFor(s)) :
    /\ r \in Seq(ToSet(r))
    /\ BuiltFor(s).kind = "deployments" => \A i \in DOMAIN r : r[i].stage.retries \in Int

\* Names are lists of their parts, and every deployment has a name.
ASSUME NamesAssumption ==
  \A s \in Scenarios :
    /\ s.model \in Seq(STRING) /\ \A m \in s.listed : m[2].id \in Seq(STRING)
    /\ BuiltFor(s).kind = "deployments" => Anywhere \notin BuiltFor(s).adapters

NoOffering == Offering(<<>>, "", <<>>, {})
NewStream  == [sent |-> 0, buffered |-> <<>>, output |-> FALSE]
Start == [pc |-> "next", step |-> 1, tries |-> 0, name |-> "", offering |-> NoOffering,
          waits |-> 0, cause |-> "none"]

DispatchInit ==
  /\ scene \in Scenarios
  /\ built = BuiltFor(scene)
  /\ route \in Routes(scene, built)
  /\ at = Start
  /\ cancelled = FALSE
  /\ stream = NewStream
  /\ answer = [events |-> <<>>, end |-> "none"]
  /\ requests = <<>>

InCall == UNCHANGED <<scene, built, route>>
Staged == built.kind = "deployments"

-----------------------------------------------------------------------------
(***************************************************************************)
(* The routers: the next provider to ask, or the end.                      *)
(***************************************************************************)
\* The call ends with the last error.
GiveUp(cause) ==
  /\ at' = [at EXCEPT !.pc = "over", !.cause = cause]
  /\ answer' = [answer EXCEPT !.end = "error"]

\* The weighted router and the single provider: the next of the chain.
AskNext ==
  /\ at.pc = "next" /\ ~Staged /\ at.step <= Len(route)
  /\ at' = [at EXCEPT !.pc = "ask", !.step = @ + 1, !.waits = 0, !.name = route[at.step].name]
  /\ InCall /\ UNCHANGED <<cancelled, stream, answer, requests>>

StageAt     == route[at.step]
ChoicesAt   == EligibleChoices(Catalog, Adapters(scene, built), StageAt.target, StageAt.stage,
                               scene.tools)
RetriesAsAttempts == Max({StageAt.stage.retries, 1})   \* mutant: the first attempt counted as a retry
AttemptsAt  == Max({StageAt.stage.retries + 1, 1})

\* Mutant of AskDeployment: the offering is resolved for the first attempt only.
AskFirstName ==
  /\ at.pc = "next" /\ Staged /\ at.step <= Len(route)
  /\ ChoicesAt # {} /\ at.tries < AttemptsAt
  /\ \E d \in ChoicesAt :
       \E o \in ResolveOffering(Catalog, Adapters(scene, built), StageAt.target, d) :
         at' = [at EXCEPT !.pc = "ask", !.tries = @ + 1, !.waits = 0, !.name = d,
                  !.offering = IF @ = NoOffering THEN o ELSE @]
  /\ InCall /\ UNCHANGED <<cancelled, stream, answer, requests>>

\* A stage with an eligible deployment and attempts left asks one of them, at
\* random.
AskDeployment ==
  /\ at.pc = "next" /\ Staged /\ at.step <= Len(route)
  /\ ChoicesAt # {} /\ at.tries < AttemptsAt
  /\ \E d \in ChoicesAt :
       \E o \in ResolveOffering(Catalog, Adapters(scene, built), StageAt.target, d) :
         at' = [at EXCEPT !.pc = "ask", !.tries = @ + 1, !.waits = 0, !.name = d, !.offering = o]
  /\ InCall /\ UNCHANGED <<cancelled, stream, answer, requests>>

\* Mutant of NextStage: the stage is tried again from the start.
StageAgain ==
  /\ at.pc = "next" /\ Staged /\ at.step <= Len(route)
  /\ ChoicesAt = {} \/ at.tries >= AttemptsAt
  /\ at' = [at EXCEPT !.tries = 0]
  /\ InCall /\ UNCHANGED <<cancelled, stream, answer, requests>>

\* A stage that can serve nothing, or whose attempts are used up.
NextStage ==
  /\ at.pc = "next" /\ Staged /\ at.step <= Len(route)
  /\ ChoicesAt = {} \/ at.tries >= AttemptsAt
  /\ at' = [at EXCEPT !.step = @ + 1, !.tries = 0]
  /\ InCall /\ UNCHANGED <<cancelled, stream, answer, requests>>

AllFailed ==
  /\ at.pc = "next" /\ at.step > Len(route)
  /\ GiveUp(at.cause)
  /\ InCall /\ UNCHANGED <<cancelled, stream, requests>>

-----------------------------------------------------------------------------
(***************************************************************************)
(* The retry wrapper of the provider at hand.                              *)
(***************************************************************************)
WrapperRetries ==
  IF Staged \/ built.kind = "single" THEN built.retries
  ELSE route[at.step - 1].retries

ToolsSent ==
  IF Staged THEN KeptTools(Adapters(scene, built), at.offering, scene.tools)
  ELSE {t \in scene.tools :      \* WithServerToolFilter
          t.client \/ \E m \in scene.listed : /\ m[1] = at.name /\ m[2].id = scene.model
                                              /\ t.name \in m[2].tools}

Request(accepted) ==
  [step |-> IF Staged THEN at.step ELSE at.step - 1, name |-> at.name,
   model |-> IF Staged THEN at.offering.native ELSE scene.model, tools |-> ToolsSent,
   first |-> at.waits = 0, late |-> cancelled, accepted |-> accepted]

\* The provider accepts the request: the answer of Complete, or a stream.
Accepted ==
  /\ at.pc = "ask" /\ ~cancelled
  /\ requests' = Append(requests, Request(TRUE))
  /\ IF scene.op = "complete"
     THEN /\ at' = [at EXCEPT !.pc = "over"]
          /\ answer' = [events |-> <<[type |-> "done", from |-> Len(requests'), n |-> 1]>>,
                        end |-> "done"]
          /\ UNCHANGED stream
     ELSE /\ at' = [at EXCEPT !.pc = "reading"]
          /\ stream' = NewStream
          /\ UNCHANGED answer
  /\ InCall /\ UNCHANGED cancelled

\* It refuses: a permanent error ends the attempts, a transient one is
\* retried until the wrapper's retries are used up.
Refused(cause) ==
  /\ at.pc = "ask"
  /\ requests' = Append(requests, Request(FALSE))
  /\ at' = [at EXCEPT !.cause = cause,
              !.pc = IF cause = "transient" /\ at.waits < WrapperRetries THEN "waiting" ELSE "next"]
  /\ InCall /\ UNCHANGED <<cancelled, stream, answer>>

\* Mutant of WaitOver: sleeps without watching the context.
SleepOver ==
  /\ at.pc = "waiting"
  /\ at' = [at EXCEPT !.pc = "ask", !.waits = @ + 1]
  /\ InCall /\ UNCHANGED <<cancelled, stream, answer, requests>>

\* The timer fires after the back-off, or the delay the server asked for; a
\* context that is cancelled is seen before a timer that still runs.
WaitOver ==
  /\ at.pc = "waiting" /\ ~cancelled
  /\ at' = [at EXCEPT !.pc = "ask", !.waits = @ + 1]
  /\ InCall /\ UNCHANGED <<cancelled, stream, answer, requests>>

WaitCancelled ==
  /\ at.pc = "waiting" /\ cancelled
  /\ at' = [at EXCEPT !.pc = "next", !.cause = "cancelled"]
  /\ InCall /\ UNCHANGED <<cancelled, stream, answer, requests>>

Cancel ==
  /\ ~cancelled /\ at.pc # "over"
  /\ cancelled' = TRUE
  /\ InCall /\ UNCHANGED <<at, stream, answer, requests>>

-----------------------------------------------------------------------------
(***************************************************************************)
(* The stream of events.  The deployment router keeps events back until    *)
(* one of them is output; the other two pass every event on.               *)
(***************************************************************************)
Event(type) == [type |-> type, from |-> Len(requests), n |-> stream.sent + 1]
IsOutput(e) == e.type \in {"delta", "content_done"}

\* A delta, an empty delta, or a finished block.
StreamEvent(type) ==
  LET e == Event(type)
      open == ~Staged \/ stream.output \/ IsOutput(e)
  IN /\ at.pc = "reading" /\ stream.sent < MaxEvents
     /\ stream' = [stream EXCEPT !.sent = @ + 1, !.output = @ \/ IsOutput(e),
                     !.buffered = IF open THEN <<>> ELSE Append(@, e)]
     /\ answer' = IF open THEN [answer EXCEPT !.events = @ \o Append(stream.buffered, e)]
                  ELSE answer
     /\ InCall /\ UNCHANGED <<at, cancelled, requests>>

\* The final event, behind what was kept back.  The deployment router reads
\* nothing after it; without it the caller gets all that comes until the
\* provider closes the channel.
StreamDone ==
  /\ at.pc = "reading"
  /\ answer' = [events |-> answer.events \o Append(stream.buffered, Event("done")),
                end |-> IF Staged THEN "done" ELSE "none"]
  /\ stream' = [stream EXCEPT !.buffered = <<>>]
  /\ at' = [at EXCEPT !.pc = IF Staged THEN "over" ELSE "ending"]
  /\ InCall /\ UNCHANGED <<cancelled, requests>>

\* Behind the final event comes the end of the channel, or the error of a
\* connection that broke after it (processStreamEvents of Anthropic).
StreamEnds(how) ==
  /\ at.pc = "ending"
  /\ at' = [at EXCEPT !.pc = "over", !.cause = how]
  /\ answer' = [answer EXCEPT !.end = IF how = "error" THEN "error" ELSE "done"]
  /\ InCall /\ UNCHANGED <<cancelled, stream, requests>>

\* Mutant of StreamBroken: a stream that broke after output is replaced.
AlwaysReplaced(how) ==
  /\ at.pc = "reading"
  /\ stream' = NewStream
  /\ IF Staged
     THEN at' = [at EXCEPT !.pc = "next", !.cause = how] /\ UNCHANGED answer
     ELSE /\ at' = [at EXCEPT !.pc = "over", !.cause = how]
          /\ answer' = [answer EXCEPT !.end =
               IF ~Staged /\ how = "closed" THEN "closed" ELSE "error"]
  /\ InCall /\ UNCHANGED <<cancelled, requests>>

\* An error event, or the end of the channel without a final event.  The
\* weighted router passes both on; the deployment router tries again unless
\* there was output.
StreamBroken(how) ==
  /\ at.pc = "reading"
  /\ stream' = NewStream
  /\ IF Staged /\ ~stream.output
     THEN at' = [at EXCEPT !.pc = "next", !.cause = how] /\ UNCHANGED answer
     ELSE /\ at' = [at EXCEPT !.pc = "over", !.cause = how]
          /\ answer' = [answer EXCEPT !.end =
               IF ~Staged /\ how = "closed" THEN "closed" ELSE "error"]
  /\ InCall /\ UNCHANGED <<cancelled, requests>>

-----------------------------------------------------------------------------
DispatchNext ==
  \/ AskNext \/ AskDeployment \/ NextStage \/ AllFailed
  \/ Accepted \/ Refused("transient") \/ Refused("permanent")
  \/ WaitOver \/ WaitCancelled \/ Cancel
  \/ \E type \in {"delta", "empty_delta", "content_done"} : StreamEvent(type)
  \/ StreamDone \/ StreamBroken("error") \/ StreamBroken("closed")
  \/ StreamEnds("error") \/ StreamEnds("closed")

\* Requests are answered or refused, timers fire, streams end, and the
\* routers are plain loops.
DispatchFairness ==
  /\ WF_dispatchVars(AskNext \/ AskDeployment \/ NextStage \/ AllFailed)
  /\ WF_dispatchVars(Accepted \/ Refused("transient") \/ Refused("permanent"))
  /\ WF_dispatchVars(WaitOver \/ WaitCancelled)
  /\ WF_dispatchVars(StreamDone \/ StreamBroken("error") \/ StreamBroken("closed")
                       \/ StreamEnds("error") \/ StreamEnds("closed"))

DispatchSpec == DispatchInit /\ [][DispatchNext]_dispatchVars /\ DispatchFairness

-----------------------------------------------------------------------------
(***************************************************************************)
(* Properties.                                                             *)
(***************************************************************************)
Abstract == INSTANCE AnswerStream
  WITH events <- answer.events, end <- answer.end, guarded <- Staged

\* The caller gets the events of one stream only, from its first event on, and
\* then one end, whatever was tried before and wherever streams break: events
\* of a deployment that failed are dropped, events kept back come before the
\* output, and no event follows a final one.  Behind a deployment router
\* nothing follows it at all (streamWithDeployment); the weighted router and
\* a single provider may hand on an error behind it (tagStreamProvider).
OneAnswer == Abstract!AnswerSpec

FirstRequests(step) == {i \in DOMAIN requests : requests[i].step = step /\ requests[i].first}
StagePossible(step) ==
  EligibleChoices(Catalog, Adapters(scene, built), route[step].target, route[step].stage,
                  scene.tools) # {}

\* A call that no provider answered has tried every provider of its chain, and
\* as many attempts as every stage that can serve the model allows, even if
\* the caller gave up meanwhile (Router.Complete, DeploymentRouter.Stream).
FailsAfterAll ==
  answer.end = "error" /\ answer.events = <<>>
    /\ (Staged \/ \A i \in DOMAIN requests : ~requests[i].accepted) =>
    \A step \in DOMAIN route :
      Cardinality(FirstRequests(step)) =
        IF ~Staged THEN 1
        ELSE IF StagePossible(step) THEN Max({route[step].stage.retries + 1, 1}) ELSE 0

\* Once a request was made with a cancelled context no wrapper retries, that
\* one or a later one: the attempts left in the route, which the routers go on
\* making, are of one request each (retryProvider.Stream).
NoRetryAfterCancel ==
  \A i, j \in DOMAIN requests : i < j /\ requests[i].late => requests[j].first

\* Whether the provider of a request is known to support a server tool with
\* the model the request names.
KnownToWork(tool, r) ==
  IF Staged
  THEN \E o \in ResolveOffering(Catalog, Adapters(scene, built), route[r.step].target, r.name) :
         o.native = r.model /\ tool \in SupportedTools(Adapters(scene, built), o)
  ELSE \E m \in scene.listed : m[1] = r.name /\ m[2].id = r.model /\ tool \in m[2].tools

\* Client tools always reach a provider, and server tools only where they are
\* known to work with the model asked for (filterToolsForOffering,
\* filterTools).  A deployment is asked with fewer server tools than the
\* caller wanted only when no deployment of its stage supports them all
\* (eligibleChoices).
ToolsHonoured ==
  \A i \in DOMAIN requests :
    LET r == requests[i]
        stage == route[r.step]
        Full(d) == \A o \in ResolveOffering(Catalog, Adapters(scene, built), stage.target, d) :
                     ServerTools(scene.tools) \subseteq SupportedTools(Adapters(scene, built), o)
    IN /\ {t \in scene.tools : t.client} \subseteq r.tools
       /\ \A t \in r.tools : t.client \/ KnownToWork(t.name, r)
       /\ Staged =>
            /\ (r.tools # scene.tools) =>
                 \A c \in Range(stage.stage.choices) :
                   c.weight > 0 /\ ResolveOffering(Catalog, Adapters(scene, built), stage.target,
                                                   c.deployment) # {} => ~Full(c.deployment)
            /\ Full(r.name) => r.tools = scene.tools

\* The native names under which the deployment of a request lists the model
\* the call is for.
NamesListed(r) ==
  {o.native : o \in {p \in ListedOfferings(Catalog, Adapters(scene, built)) :
                       p.deployment = r.name /\ p.model = route[r.step].target.canonical}}

\* Whichever attempt and stage a deployment is reached by, it is asked for a
\* model it lists by the native name it lists it under (resolveOffering
\* against Models), with two exceptions at OpenRouter: its own models, whose
\* prefix is cut off, and a name that was found at another deployment.
AskedByNativeName ==
  Staged => \A i \in DOMAIN requests :
    LET r == requests[i]
        target == route[r.step].target
    IN NamesListed(r) # {} =>
         \/ r.model \in NamesListed(r)
         \/ r.name = "openrouter" /\ (target.canonical[1] = "openrouter"
                                       \/ target.only \notin {Anywhere, "openrouter"})

\* Every call ends: with a final event, an error, or a closed stream.
EveryRequestEnds == <>(at.pc = "over")
=============================================================================
