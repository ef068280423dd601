# LangDAG in TLA+

LangDAG stores conversations with language models as trees of nodes.  A call
stores the user's message, asks a provider through a stream of events, stores
the answer and announces the stored node; the next call continues from any node
of the tree.  Around that core are the routers that choose a provider, the
parsers that read its stream, a catalog of models that is refreshed while it is
read, an HTTP server with its SDKs, and an importer.  Calls run concurrently,
streams break, answers are cut off and continued, subtrees are deleted while an
answer is on its way, processes die between two statements.  These modules
model that system, check it with TLC and prove main invariants of its core with
TLAPS.  Paths below are relative to the repository.

Contents: [inventory](#inventory), [modules](#the-modules),
[correspondence](#correspondence-with-the-code), [runs](#runs-and-bounds),
[fairness](#fairness), [proofs](#proofs), [findings](#findings),
[hazards without a property](#hazards-without-a-property),
[not modelled](#not-modelled), [plan](#plan).

## Inventory

### Conversation manager (`internal/conversation/conversation.go`)

- *State*: none of its own; the locals of the calling goroutine (the path it
  read, the user node) and of the streaming goroutine (`currentParent`,
  `accumulatedText`, `cumulativeOutputToks`, `groupID`, `lastSavedNodeID`).
- *Operations*: `Prompt`, `PromptFrom`, `streamResponse` (one goroutine per
  call), `buildMessages`, `injectSyntheticToolResults`, `ResolveNode`, aliases,
  `UpdateTitle`, `DeleteNode`.
- *Interaction*: reads and writes the store one statement at a time, with no
  transaction around a call; reads provider events, forwards them and adds
  `NodeSaved` or `Error`.
- *Hard*: everything between two statements can be done by other calls or by a
  deletion; a truncated answer becomes an *output group* of several nodes
  produced by several provider streams; tool uses may be answered in part, not
  at all, or in another branch; every statement and every stream can fail.
- *Correct when*: sequence numbers and root ids agree with parents; a request
  sends everything said on its path once, in alternating roles, with every tool
  use answered, in the protocol of any provider; an announced node is the whole
  answer; every call ends.

### Node store (`internal/storage`, `internal/storage/sqlite`)

- *State*: tables `nodes`, `node_tool_ids`, `node_aliases`, `schema_version`.
- *Operations*: `CreateNode`, `GetNode`, `GetNodeByPrefix`, `GetAncestors`,
  `GetSubtree`, `UpdateNode`, `DeleteNode`, `IndexToolIDs`,
  `GetOrphanedToolUses`, alias operations, `Init` (migrations).
- *Hard*: foreign keys are declared and not enforced (`sqlite.go:31`), so rows
  that refer to deleted rows stay; migrations run outside a transaction, and
  several processes may open one file.
- *Correct when*: the stored rows are an append-only forest from which only
  whole subtrees are removed; paths are listed root first; a version number
  stands for everything its migrations do.

### Go client (`langdag.go`)

- *State*: configuration, store, provider; one `PromptResult` per call, written
  by a goroutine and read by the caller.
- *Operations*: `New` (builds providers, retry, routers), `Prompt`,
  `PromptFrom`, `buildResult`, thin delegates to the manager.
- *Hard*: three goroutines connected by channels of 100 places; sends do not
  watch the context; a stream may end without its last event; tool blocks come
  in stream events, in the final response or in both.
- *Correct when*: a consumer that drains gets every piece once and exactly one
  Done chunk, and finds the result complete when it sees it; goroutines return.

### Providers (`internal/provider/anthropic`, `openai`, `gemini`, `mock`)

- *State*: an HTTP client; per stream the calls under construction and the
  response so far.
- *Operations*: `Complete`, `Stream`, `Models`; each stream is a goroutine that
  turns server events into `StreamEvent`s; conversion of messages.
- *Hard*: accumulation of tool calls from pieces that arrive interleaved,
  bodies that end without their terminator, tool ids made from function names
  (Gemini), three protocols with three shapes for calls and results.
- *Correct when*: the channel gets exactly one final event; a finished call is
  emitted whole and once and is in the response; a streamed answer is stored as
  the same answer would be without streaming.

### Retry wrapper and weighted router (`internal/provider/retry.go`, `router.go`, `filter.go`)

- *State*: attempts and the last error of one request; weighted entries and the
  fallback order, fixed at construction.
- *Operations*: `Complete` and `Stream` with back-off; weighted choice, then the
  fallback chain without the provider that failed.
- *Hard*: cancellation while waiting; attempts that multiply; the failed
  provider is known by its name only.
- *Correct when*: a request fails only after every provider of its chain had
  its turn; nothing is retried once the caller gave up.

### Deployment router (`internal/provider/deployment_router.go`)

- *State*: deployments, routing stages, the catalog; per stream the buffered
  events, whether output was emitted and whether Done was seen.
- *Operations*: resolution of a name to a model and an offering, `Complete`,
  `Stream` with stages, attempts and fallback, `Models`.
- *Hard*: fallback is allowed until output was emitted; buffered events must be
  dropped with the deployment that failed or flushed in order; the tables a
  name is looked up in differ from those a request is routed over.
- *Correct when*: the caller gets the events of one stream, then one end; an
  error only when every possible stage was used up; a listed model can be asked
  for; tools fit the deployment that was chosen.

### Model catalog (`internal/models/catalog*.go`) and fetchers (`providers.go`, `update.go`)

- *State*: the embedded catalog, the cache file, the compiled catalog; per fetch
  the results of four goroutines.
- *Operations*: load, refresh (fetch, validate, write a temporary file, rename),
  validate, compile, convert older catalogs, resolve names; fetch and join.
- *Hard*: refreshes of several processes race each other and loads; defective,
  stale or older documents; a crash between write and rename; pages that cannot
  be read, page in circles or contradict each other.
- *Correct when*: what was refreshed loads back whole; validator and compiler
  agree; what is kept of any catalog can be used; no model of an older cache or
  of a page with a price gets lost.

### HTTP API server (`internal/api`) and SDKs (`sdks`)

- *State*: store, manager, HTTP server; per request a handler goroutine, on the
  other side a client with, for a stream, a reading goroutine.
- *Operations*: prompt handlers (server-sent events or one JSON answer), tree,
  list, delete and alias handlers, `Shutdown`.
- *Hard*: `ResolveNode` is three statements with others in between; clients
  disconnect; connections break in the middle of an event; `Shutdown` closes
  the store before the handlers are done.
- *Correct when*: a client that is given an answer has its own, whole; every
  request ends for its client.

### LangGraph importer (`internal/migrate/langgraph`, `internal/cli/import.go`)

- *State*: per thread the parent and sequence under construction, and the map of
  tool call ids.
- *Operations*: read an export file or a LangGraph database, build rows, insert
  them one by one, skip threads already imported.
- *Hard*: a failure or crash half way leaves rows behind, and the import is run
  again.
- *Correct when*: no message is imported twice; a thread that is reported as
  imported is there as a whole, every message in its place.

### Configuration (`internal/config`, `internal/cli`)

- *State*: what the file and the environment say.
- *Operations*: load, convert to the configuration of the Go client (command
  line) or build the provider directly (server).
- *Hard*: two constructions of the same thing; credentials and fields that come
  from four places; parts that are missing are left out silently.

### The rest

Cost and usage types (`types`), the mock provider, the Python and TypeScript
SDKs, the exporter and the mock server (`tools`): sequential front ends, data
conversion or test tools.

`PROJECT.json` lists every component with its status, and the hazards of the
code at their lines, each with the properties that would catch it.

## The modules

| module | models |
| --- | --- |
| `NodeStore` | tables `nodes` and `node_tool_ids`, one operator per SQL statement |
| `NodeNames` | ids, prefixes and the table `node_aliases`, over `NodeStore` |
| `Migrations` | `Init` of the store: the statements of nine migrations, several processes, crashes |
| `History` | the request of a continued conversation: synthetic tool results, output groups, roles (pure operators) |
| `Conversation` | concurrent calls and deletions over the store, one action per statement |
| `ConversationTree` | abstract specification: an append-only forest, `AppendRow` a leaf or `Prune` a subtree |
| `ConversationProofs` | theorems: types, numbers, refinement, roots and output groups of `Conversation` |
| `RequestProofs` | theorems: the requests of continued conversations, over `ConversationProofs` |
| `ProviderRequests` | conversion of messages to the four protocols (pure operators) |
| `ConversationRequests` | `Conversation` with `ProviderRequests`: requests as they leave the program |
| `ProviderSetup` | from a configuration, by either front end, to a provider (pure operators) |
| `ModelRoutes` | name resolution, stages, eligible deployments, tools (pure operators) |
| `Dispatch` | one request through routers and retries; refusals, broken streams, cancellation |
| `DispatchProofs` | theorems about `Dispatch`, with the refinement of `AnswerStream` |
| `AnswerStream` | abstract specification of the answer a caller gets |
| `ProviderStreams` | the parsers of streamed bodies, line by line |
| `ProviderEvents` | abstract specification of a provider's channel |
| `ProviderStreamsProofs` | theorems about `ProviderStreams`, with the refinement of `ProviderEvents` |
| `StreamPipe` | provider, conversation and client goroutine and the consumer, connected by bounded channels |
| `StreamPipeProofs` | theorems about `StreamPipe` |
| `CatalogCompile` | validation, compilation and reference data of catalogs (pure operators) |
| `LegacyCatalog` | documents, older catalogs and their conversion, the join of fetched results (pure operators) |
| `CatalogCache` | refreshes, loads and crashes over the cache file |
| `CatalogProofs` | theorems about `CatalogCompile` and `CatalogCache` |
| `CatalogFetch` | the goroutines of `FetchLatestV1` |
| `ApiServer` | handlers, calls, shutdown and the Go SDK's client, over `NodeNames` |
| `ApiServerProofs` | a theorem about `ApiServer` |
| `LangGraphImport` | reading, building and inserting threads; failures, crashes, repetition |
| `StorageProofs` | theorems about `Migrations` and `LangGraphImport` |
| `MCConversation`, `MCDispatch`, `MCStreams`, `MCStreamPipe`, `MCRequest`, `MCCatalog`, `MCService` | the instances TLC checks |

How they fit together: `Conversation` extends `NodeStore` and `History` and
instantiates `ConversationTree`; `ConversationRequests` puts the provider's
conversion behind it.  `Dispatch` extends `ProviderSetup` and `ModelRoutes` and
instantiates `AnswerStream`; what it calls a provider's stream is what
`ProviderStreams` produces, which instantiates `ProviderEvents`; what those
promise is what the provider of `StreamPipe` does.  `CatalogCache` and
`CatalogFetch` work on the catalogs of `CatalogCompile` and `LegacyCatalog`.
`ApiServer` works on the nodes of `NodeStore`, by the names of `NodeNames`; of a
call it keeps the events and rows, which `Conversation` and `StreamPipe` have in
detail.

`MCRequest`, `MCCatalog` and `MCService` put modules side by side that run one
after another or independently: a variable `part` says which one runs in a
behaviour, the others are in a state of rest, and so one run checks all of
their properties without the product of their states.  Every property of such a
run holds of each part at rest, so what it says is about the part it belongs to.

## Correspondence with the code

*NodeStore.*  `nodes` is a function from ids to rows, `toolIndex` the set of
rows of `node_tool_ids`.  Ids are numbers in order of creation where the code
draws UUIDs: all that is used of them is that they differ and are never drawn
again.  `GetAncestors` walks parents that are still stored, as the recursive
query does, and the first and last row in the order of `sequence` are `FirstOf`
and `LastOf`.  `DeleteNode` removes the subtree in one step (one SQL
statement in the code) and leaves the tool ids of the removed nodes, as SQLite does
without enforced foreign keys.

*History.*  Content is a sequence of blocks `[kind, from, n]`: a text block is
named by the call and the round that produced it, so that losing, repeating or
swapping text is visible; tool blocks are named by their tool id.
`RequestMessages` is what `PromptFrom` sends: repair by synthetic results, drop
of superseded nodes of an output group, merge of neighbours of one role.  The
loop of `buildMessages` is a recursive function: `MessagesBy` has the messages
after each number of rows, `AddRow` what one row adds.

*Conversation.*  A call `c` has a program counter `pc[c]`, the locals of the
calling goroutine `ask[c]`, those of the streaming goroutine `gen[c]`,
`last[c]` (`lastSavedNodeID`) and `events[c]`, the `NodeSaved` and `Error`
events it sent.  Each action is at most one statement on the store, so any
interleaving of statements the program can show is a behaviour.  One provider
stream is drained in a single step, `Drain` or `DrainNothing`, with an outcome
from `Outcomes` (text, stop reason, tool uses, output tokens, error): while it
drains a stream the goroutine touches only its own locals and its channel, and
`StreamPipe` models that part event by event.  Failing statements are separate
actions counted by `faults`; failing providers (`OpenFails`, `ContinueFails`)
are not bounded.  The locals of a goroutine that has returned are reset, which
only merges states.

*ProviderRequests.*  Each conversion maps a message to the items of a protocol:
what becomes an item of its own, what is merged into one, what is left out.
Attachments are there by the way they are given (data, URL, plain text), as the
conversions tell them apart by that.

*ProviderSetup.*  A configuration is which fields are set in which section, the
routing entries, the fallback order and the policy; a credential is present or
not, and where it came from.  `BuildLibraryProvider(LibraryConfig(app))` is the
command line's way, `BuildServerProvider(app)` the server's.  Both end in a
record that `Dispatch` runs: a weighted router, a deployment router, a single
provider, or none.

*ModelRoutes.*  A name is the sequence of its parts between slashes, so
prefixes are stripped as `strings.TrimPrefix` does.  A compiled catalog has two
sets of offerings, those listed in the document and those the compiler kept,
because the code reads now one, now the other.  Where the code looks up an
alias by iterating over a map the result is a set.

*Dispatch.*  `route` is what the call may try, in order; `at` says where it is:
before a choice, asking, waiting in the retry wrapper, reading a stream, over.
A step of the loops of the three files is an action; a weighted choice is any
choice with a weight.  The provider's answer is nondeterministic: refused for
now or for good, or accepted, with a stream of deltas, empty deltas and blocks
that ends in Done, in an error or by closing, after any event.  Behind a Done
the deployment router reads nothing more (`deployment_router.go:295-297`); the
weighted router and a single provider hand on whatever comes until the channel
closes, and that may be an error (`StreamEnds`: Anthropic's parser sends one when
the connection breaks after the last message).  `Complete` is a request without
a stream.  The caller may cancel at any time; what a cancelled
request returns is then up to the provider, as the routers do not look.

*ProviderStreams.*  The service sends one of `Answers`; a step is one line of
the body and everything the loop does with it, so lines of parallel calls
interleave in every way and the body ends or breaks after any line.  Arguments
of a call are the pieces they were sent in.  A call goes by its id, and one of
Gemini's that has none by the name of its function (`CallId`).  `Stored` is what the conversation
manager makes of the events, `CompleteResponse` what `Complete` makes of the
same answer.  Where the code ranges over a Go map every order is possible.

*StreamPipe.*  `src`, `events`, `chunks` are the channels with their contents
and whether they are open; `prov`, `conv`, `client` are the goroutines.  A
goroutine that received an event and has still to send something holds it in
`todo`, and takes nothing else meanwhile: that is a Go send that blocks.  The
provider follows `processStreamEvents` of the Anthropic package; the stream may
end at any moment, with or without an error, and an error may follow Done.
`Start` events, which every consumer ignores, are left out.

*CatalogCompile, LegacyCatalog.*  A catalog is a record of its tables.  An entry
whose own fields are malformed is one that is not `sound`; everything that
relates entries to each other (keys, owners, protocols, routes, mappings,
templates, prices, aliases) is translated condition by condition, once for the
validator (`Valid`) and once for the compiler (`Compiled`), as the code has
both.  The conversion of older catalogs ranges over maps, so its result is the
set of catalogs for every order.

*CatalogCache.*  A refresh is the steps between which its process may die or
fail: begin (the time is read), answer, create a temporary file, write, rename.
Documents are published at any time, also older and defective ones; loads read
whatever is there.  Time counts in units of staleness.

*CatalogFetch.*  `reply` says which pages could be read; the goroutines, the
semaphore of `fetchOpenAIModelDetails` (`Slots`, 6 in the code), the paging of
Anthropic's API and the deadline are actions, what each fetcher returns and how
results are joined are operators.  What the pages hold is chosen once, from the
constant `Sites`, and kept in `site`: the regular expressions that read pages
are not modelled.  An index of OpenAI without links is read as a price list
itself; models of Anthropic's API are kept without a price (`Unlisted`); a
Gemini model gets its window from a page of its own (`WithSpec`).

*NodeNames, ApiServer.*  Ids are spelled as short sequences, so that one may be
the beginning of another's alias; a row can be inserted as long as there is a
spelled id left (`HasId`), and the run has as many as its requests can use.  A handler does one statement per step.  A
call of the manager is a small process that adds deltas to a feed and ends in
one of the ways `Conversation` has; one that cannot start has stored nothing or,
when the provider refuses the request, the user's row (`StartFails`).  `wire` is what was written to the
connection and not yet read; when it breaks the rest is lost and a cut event
may come.  `Shutdown` is two steps, `CloseStore` and `Exit`, as `main` returns
as soon as `ListenAndServe` does.

*LangGraphImport.*  Of a message its role (or the LangChain names it is derived
from), tool calls and the call it replies to are kept.  `Rows` is the loop of
`importThread`; inserting is one action per row, and the process may die or the
statement fail at any of them.  Then the command is run again, with or without
`--skip-existing`.

*Migrations.*  Each migration is its list of statements, and each statement a
step: SQLite commits them one by one.  A process that opens the file reads the
version once and then runs what it thinks is missing; others do the same, and
any may die.  The file may come from any earlier release, or be new.

*Seeded faults.*  Definitions commented "Seeded fault" or "Mutant" are not part
of any specification.  Each is the form a plausible slip would give to a
definition next to it (the wrong row, a missing reset, a forgotten return), and
substituting it makes the property named with it in `PROJECT.json` fail: this is
how we know that the property looks at the code.

## Runs and bounds

| run | question | states | result |
| --- | --- | --- | --- |
| `tree` | do sequence numbers, root ids and the append-only order survive concurrent calls, faults and deletions? | 60,000 | holds |
| `groups` | do output groups store and announce what was said, within budget, is it sent once, does every call end? | 300,000 | holds |
| `tools` | is every tool use of a request answered once, in all branches and all protocols? | 730,000 | holds |
| `request` | from configuration to last chunk: does the caller get one whole answer or one error, and does everything end? | 315,000 | holds |
| `catalog` | is what is cached, loaded, compiled, converted and generated whole? | 180,000 | holds |
| `service` | do clients get their own answers, imports place each message once, versions mean what they say? | 310,000 | holds |
| `selfcontained` | is every continuation node self-contained? | - | violated |
| `detached` | does the tree endpoint return the tree that contains the node? | - | violated |
| `prompt` | does what the caller said reach the model? | - | violated |
| `pipe_named` | does a Done chunk name the node that was saved? | - | violated |
| `own` | is the content of an answer that of the call? | - | violated |
| `roots` | does migration 6 give every node its root? | - | violated |

*Calls.*  `tree` and `tools` have three calls, the others two.  A violation of a
tree property needs a reader and a writer of one path and something that removes
rows: two calls and a deletion.  The third lets a conversation exist before
two others race on it, which `tools` needs for answers in two branches.

*Deletions and faults.*  Two deletions in `tree` (a subtree under a running
call, then what remains above it), one in `groups`.  One failing
statement: after it the call has ended, and what it left behind meets the
other calls.

*Outcomes.*  Each run gives the provider the outcomes its question turns on:
complete, truncated, broken before or after Done and silent streams in `groups`;
one or two tools in a response, with and without text, complete or truncated, in
`tools`.

*Budgets.*  `GroupBudget` 3 with one token per truncated response allows groups
of three nodes, so that there is a first, an inner and a last one.  In the code
it is 4 * `maxTokens`.

*Who continues from what.*  `AnyNode = TRUE` lets callers continue from every
stored node, which the tree endpoints list; `tools` restricts them to announced
nodes: in the moment between the insert of a node and the index of its tool ids
another caller would find no open tool use, and nothing documents that it should.
`FreshToolIds = TRUE` excludes providers that repeat a tool id; with repeated
ids, which `GetOrphanedToolUses` matches over the whole path, a use can go
unanswered.  Both are hazards in `PROJECT.json`.

*Configurations.*  `MCDispatch` has a plain file, a file with weights, a
fallback chain that names primaries and unavailable providers again, a policy
of two stages with retries and weights of zero, local deployments, both Vertex
deployments and an explicitly empty default, each through the front ends and for
model names of every kind (canonical, alias, native, qualified, unknown, empty,
and one of OpenRouter's own, `openrouter/auto`).  Of two tools one is a server
tool that one deployment supports and others do not.
`DefaultRetries` 1 (3 in the code) and `MaxEvents` 2: a wait and a second
attempt, an event kept back and one after it.

*Answers.*  Up to two pieces of text and two parallel calls with up to two
pieces of arguments, in each of the three styles of the Responses API, complete
or cut by the limit: two calls are needed to mix them, two pieces to break a
body in between.

*Channels.*  Capacity 2 where the code has 100, at most 2 deltas per stream, 2
streams per call and 2 tools: each channel is filled, so every send blocks in
some behaviour, and a call sends several times more events than a channel holds.

*Catalogs.*  A catalog of two models, three deployments, offerings and a
template, with each of 28 defects and each pair of one of them with nine that
take entries away; nine older catalogs.  Two refreshing processes, two
refreshes, one crash and one failing step, time up to 3: enough for a refresh
that is overtaken, one that dies, and a document that becomes stale between.
For the pages two sites.  In one, paging goes in circles and a model is on two
pages with two prices; in the other, the index of OpenAI has no links, paging
ends, models of the API have their price from the page, from the program or
from nowhere, and one of two Gemini models was shut down.  One reply fails
before the deadline (after it, all do).

*Services.*  Two requests per scene: every handler meets one that deletes,
names or adds what it is about to use.  Three imports of a file with parallel
calls, a call without id and a thread of nothing but a system prompt, one
failing row and any number of deaths up to the number of imports; two processes
migrate two old conversations from any version, and two of them die.

*Stopping.*  Deadlock is not checked because calls are made once: a run ends
when they have ended.  That nothing hangs before is `EveryCallEnds`,
`EveryRequestEnds`, `ConsumerEnds`, `GoroutinesReturn`, `FetchEnds` and
`RequestsEnd`.

*Symmetry.*  The runs with only invariants and action properties over calls
(`tree`, `tools`) use the permutations of the calls; no run with a liveness
property does.

What the less obvious properties say:

- `RootIsTopAncestor`: `root_id` is written from a path read earlier; whenever
  the path of a node still reaches a root, it is that node.
- `TextGroupSelfContained`: the later of two text nodes of a group starts with
  the content of the earlier one, so dropping the earlier from the history loses
  nothing.  For groups that end in tool use this is false (see findings), and
  `EachPieceOnce` excepts exactly those.
- `GroupWithinBudget`: the number of nodes of a group is at most the budget, if
  truncated responses report at least one token each.  If a provider reports
  none the code has no bound either.
- `AnnouncedIsWhole`: a client that continues from the announced node has all
  nodes of the group on its path, and no later one is stored.
- `OneAnswer` and `OneFinalEvent` are refinements: `Dispatch` implements
  `AnswerStream` and `ProviderStreams` implements `ProviderEvents`.  The answer
  is one stream's, without a gap, and no event follows the final one.  Only
  behind a deployment router (`guarded`) is it also certain that no error comes
  after it.
- `FailsAfterAll`: an error is only returned when the chain, or every attempt of
  every stage that can serve the model, was used up, unless a request failed
  after output.
- `NoRetryAfterCancel`: no request is a retry of one made after cancellation.
  Providers left in the chain are still asked, once each: the routers do not
  look at the context.
- `ToolsHonoured` bounds the tools of every request from both sides: all client
  tools and no server tool but those `KnownToWork` with the model it names, at
  the deployment (`filterToolsForOffering`) or, without a deployment router, in
  the provider's own list (`filterTools`); and all tools wherever a deployment of
  the stage supports them all.
- `AskedByNativeName`: a deployment that lists the model of a call is asked for
  it by a name it lists it under, on every attempt.  Two exceptions are in the
  code, both at OpenRouter: for its own models, whose prefix is cut off, and for
  a native name that was found at another deployment.  The request for
  `openrouter/auto` is among the run's; without the first exception it violates
  the property.
- `StoredLikeComplete` leaves two cases open, in which streaming does differ:
  text before calls of a chat answer is not in the response, and
  `response.incomplete` is no event the parser knows, so a cut answer counts as
  complete and is not continued.
- `GoroutinesReturn` has one exception, `Abandoned`: after an Error event
  nobody reads the conversation goroutine's channel, and an output group that
  goes on behind the error can fill it.  The goroutine and its provider stream
  then stay for ever.  Without the exception TLC finds this behaviour.
- `PricedModelsOffered` has a conjunct for each of the four fetchers: what was
  read with a price and a window is offered at the price of the page, models of
  Anthropic's API also without a price, and no Gemini model that was shut down.
  It is about pages that were read: a Gemini model whose own page fails is not
  in the join (see below).
- `RefreshedCacheLoads` compares the cache with the time its own refresh began:
  an overtaken refresh may replace a newer cache.
- `NamedAnswerIsOwn` holds because a client that is told a node was stored is
  told after it was; a node deleted between that and the lookup has no content.
- `EachMessageOnce` is claimed for importers that always pass `--skip-existing`
  once something of a thread is there, as the documentation advises.
- `VersionMeansDone` is about what is in the file, not about `Init` succeeding:
  after a crash between `ALTER TABLE` and the version, `Init` fails for ever.

## Fairness

`FairSpec` of `Conversation` asks weak fairness of what runs by itself once a
call was made: a goroutine that can run runs, and a provider stream that was
opened ends (the HTTP client's time-outs).  Making calls, deleting and failing
are never fair.  `PipeFairness` asks weak fairness of each of the three
goroutines and of the consumer, which is told to drain the stream
(`langdag.go:468-470`).  `DispatchFairness`: the routers are loops that go on,
a request is answered or refused and a stream ends in some way (the HTTP
client's time-outs), the timer of a wait fires.  `FetchFairness`: goroutines
that can run do, requests get a reply and the deadline, a timer, expires.
`ApiFairness`: handlers, calls and clients that can run do; nobody has to send a
signal, break a connection, give up, cancel or delete.  Fairness is on a
goroutine as a whole: it is not assumed that a provider sends anything, or that
a group, a chain or a paging stops by itself; it is the budget, the list of
stages, the deadline, or a named bound, that stops it.

## Proofs

TLC checks the instances above; the theorems hold for every set of calls,
processes, documents, answers and every bound, under the assumptions named with
them.  TLC evaluates every assumption that is an `ASSUME` in the runs of its
module, and each inductive invariant below was an invariant of a TLC run before
it was proved.

| module | theorem | property |
| --- | --- | --- |
| `ConversationProofs` | `TypeCorrect` | `TypeOK` |
| | `PathNumbered` | `ChildFollowsParent` |
| | `TreeRefined` | `AppendOnly`: `Conversation` implements `ConversationTree` |
| | `RootNamed` | `RootIsTopAncestor` |
| | `GroupBounded` | `GroupWithinBudget` |
| | `GroupTextsNest` | `TextGroupSelfContained` |
| | `AnnouncedHoldsGroup` | `AnnouncedIsWhole` |
| `RequestProofs` | `RolesTakeTurns` | `RolesAlternate` |
| | `PiecesSentOnce` | `EachPieceOnce` |
| | `ToolsAnswered` | `ToolUsesAnswered` |
| `DispatchProofs` | `OneAnswerGiven` | `OneAnswer`: `Dispatch` implements `AnswerStream` |
| | `CancelEndsRetries` | `NoRetryAfterCancel` |
| | `ToolsAreHonoured` | `ToolsHonoured` |
| | `FailureTriedAll` | `FailsAfterAll` |
| | `NativeNamesAsked` | `AskedByNativeName` |
| `ProviderStreamsProofs` | `CallsAreWhole` | `CallsComeWholeOnce` |
| | `EmittedIsStored` | `EmittedIsInResponse` |
| | `StreamsLikeComplete` | `StoredLikeComplete` |
| | `OneEnd` | `OneFinalEvent`: `ProviderStreams` implements `ProviderEvents` |
| `StreamPipeProofs` | `OneDoneChunk` | `OneTerminalChunk` |
| | `NamedIsWhole` | `NamedAnswerIsWhole` |
| `CatalogProofs` | `RefreshLoads` | `RefreshedCacheLoads` |
| | `CrashLeavesTemp` | `TempsRemoved` |
| | `LoadsAreWhole` | `LoadedIsWhole` |
| | `CompilerAgrees` | `ValidatorAgrees` |
| | `CompiledCloses` | `CompiledIsClosed` |
| `ApiServerProofs` | `AnswersAreOwn` | `NamedAnswerIsOwn` |
| `StorageProofs` | `VersionsAreDone` | `VersionMeansDone` |
| | `ImportsOnce` | `EachMessageOnce` |
| | `ImportsWhole` | `ReportedWhole` |

### Assumptions

- `OutcomesAssumption`, `BoundsAssumption` (`Conversation`): outcomes have the
  right form and finitely many tool uses, no response is without a stop reason;
  budgets and bounds are numbers, `NoGroup` is not a call.
- `TruncatedCounts`, a hypothesis of `GroupBounded` alone: a truncated text
  reports a token or more.  Without it the code has no bound (a hazard).
- `FreshToolIds`, a hypothesis of `PiecesSentOnce` and `ToolsAnswered`: no
  provider repeats a tool id.  The code matches uses and results by id over the
  whole path (a hazard at `sqlite.go:376`).
- `~AnyNode` and `MaxFaults = 0`, hypotheses of `ToolsAnswered` alone: callers
  continue from nodes that were announced, and statements do not fail.  A node
  is stored before its tool ids are indexed (a hazard at `conversation.go:375`),
  and an index that could not be written is passed over (`:117`); in both cases
  an open use is not found, or an answered one is answered again.  The run
  `tools` sets these constants in the same way; the theorem has any number of
  calls, tools and deletions.
- `RoutesAssumption`, `NamesAssumption` (`Dispatch`): routes are lists and the
  retries of stages numbers; names are lists of parts, and no deployment has the
  empty name, which stands for "any" in a target (`Anywhere`).
- `AnswersAssumption` (`ProviderStreams`): pieces are counted, calls are lists;
  OpenAI's services give calls an id, and an answer has no two calls with one
  id, one name and no arguments, which no reader could tell apart.
- `PipeAssumption` (`StreamPipe`): channels have a capacity, and a response
  finitely many blocks.
- `DocumentsAssumption`, `EmbeddedAssumption`, `RefreshersAssumption`
  (`CatalogCache`): a document of the current schema decodes to all fields of
  `CatalogV1`, with lists for lists, whatever is in them; the embedded catalog is
  valid, as `DefaultCatalog` reads it with the same parser and a load that
  cannot fails instead; there are finitely many processes.
- `SpellingAssumption` (`NodeNames`), `ScenesAssumption` (`ApiServer`): no id is
  another or begins with another, the store at the start holds ids handed out
  before, and no alias is spelled as an id still to be handed out.  The last is
  needed, not only for the proof: the code takes any text for an alias, so a
  client that gives another node an alias spelled as the id of a new answer, and
  then deletes that answer before it is looked up, makes the server return the
  other node's content under the answer's id.  An id is random, so nobody knows
  it before the row is there.
- `ExportsAssumption` (`LangGraphImport`): a file lists a thread once, as what
  writes one does, and its messages have the fields the reader decodes; a row
  of the database is one checkpoint.

### Conversation: `IInv`

`ChildFollowsParent` is not inductive: the row a call inserts is numbered from a
path it read earlier, and in between its parent may be deleted.  If the id of
the parent could come back as another row, the number would be wrong.  `IInv`
adds to `TypeOK`:

- `ParentsOlder`: a row's parent has a smaller id, so no insert adopts a row
  that exists;
- `PathKnown`: until a call inserts its message, the rows of the path it read
  that are still stored are as it read them, and the last one has the highest
  number;
- `ParentKnown`: the id of `currentParent` has been handed out, so it can never
  be drawn again; if the row is stored, the call knows its number, and if it is
  an answer it belongs to the call's own group;
- `GroupKnown`: a round that will be continued has its group;
- `IndexedKnown`: tools are indexed for nodes that were stored.

A deletion only takes rows away and disturbs none of these; an insert uses a
fresh id.  `InitIInv` and `NextIInv` show that `IInv` is inductive.  The step is
split by what it does to the table (`StepKeepsTable`, with `InsertKeeps` for the
inserts), to the types (`StepKeepsTypes`), to what the acting call knows
(`ActorKnows`) and to what all others know (`OthersKnow`, which needs of the
step only that stored rows stay as they are: `RowsStay`).  The refinement
follows: an insert maps to `AppendRow` (`InsertAppends`), a deletion to `Prune`
(`DeletePrunes`: the removed rows include all stored below them), everything
else to a stutter.

### Conversation: roots and groups

`RootInv` strengthens the root of a row to every row of its path: whichever root
a path reaches is the one its row names.  A path is a least fixed point and not
a recursion, so an insert extends it by one row and a deletion shortens it
(`PathWithin`, `PathClosed`); what is left of a path that a call read is within
what it read, and the root it took from there stays right (`PathRooted`,
`GenRooted`).

The group invariants relate the nodes of a group to the locals of the goroutine
that stores them.  `GroupsPaid`: the nodes stored so far are at most the tokens
spent, and fewer than the budget as long as another may come.  `GroupsRepeated`:
the content of a node with text only is the beginning of the text accumulated
since, which only grows; so the next text that is stored begins with it.
`GroupsLinked`: as long as nothing is deleted, the node saved last ends a path
with the whole group, and the next one is hung below it.  `GroupsFresh`: nothing
is in a group before its first stream.

### Conversation: requests

A request is built from the path read earlier, the tool index read later and
the new message.  The three theorems follow it from the table to the messages.

*The path in order.*  `Path` sorts the rows by number and id.  The place of a
row is one more than the number of rows before it; different rows have different
places, and by counting there is one for each place (`EarlierCounted`,
`EveryPlaceTaken`, `PathListed`).  What is sent is a fold over this list.  The
induction it needs is done by the least counterexample: if something fails after
some number of rows, take the least such number (`EveryPlace`); it is not 0, and
`AddRow` carries the fact over from the number before.  The same argument
handles `FlattenSeq` and the functions of `LangGraphImport`.

*`RolesAlternate`* needs little of the table.  `TurnInv`: a row with no parent is
the user's (`RootsAsk`), so the path in a caller's hands begins with one
(`PathAsks`); the rest is in `AddContent`, which merges neighbours of one role.

*`EachPieceOnce`* relates what all rows and all calls hold.  `PieceInv` says that
what two rows say both is text of their group or the answer to one use in two
branches, that a result hangs below its use, and that a row with tool uses ends
its group (`SaidOnce`, `ResultsBelow`, `UsesEndGroup`); that what calls hold and
have not stored yet is in no row (`TextFresh`, `UsesFresh`); and that the path a
call read is a chain of such rows, none of which the new message repeats
(`HeldPaths`).  Then a row that is left out of the request has its text in the one that replaces it,
since the texts of a group nest (`GroupTextsNest`), and nothing is in two
messages.

*`ToolUsesAnswered`* depends on the index, which is written by another statement
than the row and read by one more.  `IndexInv` says that the index is what the
rows say except for the node a call is about to index (`StoreFits`), and that
nobody but this call gets to that node (`Untouched`): it has no children, it is
on no path in hand, it was not announced.  So on the path of a request the index
says what the rows say (`HeldFits`), and the orphans are exactly the uses that
neither the path nor the new message answers (`OrphansFit`), even when nodes are
deleted between the statements.  The fold then keeps `AllButOpen`: after each row
all uses have their answer in the message behind them, except those of the row
itself that the next row, or the new message, answers.  A result and a synthetic
result of one use are never both there (`OneOfTwo`).  TLC checked `IndexInv` with
two and three calls before it was proved.

### Dispatch

`AnswerKnown`: what the caller has, followed by what is kept back, is the
beginning of the stream at hand, in order, and without a stream the caller has
nothing; so a next attempt never follows output, and the refinement maps each
event passed on to one of `AnswerStream`.  `LateKnown`: behind a request made
with a cancelled context the wrapper does not wait.  `ChoiceKnown`, with
`RouteChosen`: the deployment at hand is one of the eligible choices of its
stage, which are the capable ones if there are any.  `AskedAsCounted`,
`TriesBounded` and `FailedAtEnd`: the requests recorded for a stage are as many
as the loop counted, and a call that failed without a word went through its
whole route.

`NativeNamesAsked` follows from `ChoiceKnown` alone, which says of every request
that it was made for the target of its stage and names what `ResolveOffering`
gave.  The rest is about names, for any catalog, configuration and listings: a
target has one of three forms (`TargetForms`), an offering is one the compiler
kept, a template with a mapping (`ResolvedByOffering`, `ResolvedByTemplate`) or a
discovered model, and what it is asked for is in each case a native name of
`ListedOfferings` (`NativeListed`).

### ProviderStreams

`CallsKept`: what the parser holds of a call is what its lines so far said, under
its own id (`KnownAfter`), however the lines of others come in between.
`BlocksEmitted`: what was emitted is whole, once, and nothing more of it will be
sent.  `EndKnown` and `ResponseKnown`: an answer that came to its end was sent
whole, and the response then has every call once; before that it has what was
emitted.  The three styles of the Responses API, the chat deltas and Gemini's
parts are cases of the same invariant.

### StreamPipe

Nothing that is in flight is ever lost or overtaken: `TextFlows`, `BlocksFlow`
and `ResponseFlows` say of the text, the blocks and the response that what the
provider produced is what is downstream, followed by what each goroutine holds
in `todo` and each channel in its buffer.  `LastWords`: a Done chunk is the last
thing the client sends, and the saved node the last thing the conversation
says.  `ProviderFirst` and `NamedKnown` tie the node that is named to the
response that was stored.  Lists are compared by `IsList`, sequences as functions
on `1..n`, so that the lemmas on appending and taking are the provers'.

### Catalog

`ValidIsWhole` and `WholeIsValid` compare the two halves of the package by the
places of the lists: where ids and routes are all different and all offerings
fit every place is kept, and the other way round.  `FittingRouteIsKept` finds
the offering that is kept for a route as the first candidate of that route (the
least element of a set of numbers).  `NormalizedOnce`: normalising a normalised
catalog gives itself, since the reference data it would add is there and
OpenAI's protocols are set already; so what `SaveCatalog` writes is read back as
it is.  The invariant `CacheInv` says that what a process is saving (`SavesWhole`)
and what a refresh wrote (`FileWhole`) is normalised, valid and was not stale
when it was asked for, that what a load returned is valid, and that temporary
files of nobody (`Orphans`) are at most as many as the crashes.

### ApiServer

An answer goes through a feed, a handler, a connection and a client, each of
which may end early.  `FeedKnown` counts: the pieces of text the handler has
heard and those still in the feed are all that the call has said, and a saved
node is the last thing in it.  `SavedKnown`: the saved row is as it was stored,
or deleted, and its id is no older one's.  `HandlerKnown`: a handler answers
when the feed is drained, and for the node that was saved; so its text is the
whole one.  `FindsOwn`: the three lookups, each of which may run between any
statements of others, find that node or none, and never the row of another
request.  `WireKnown` and `SdkKnown`: a message that names a node carries its
call's answer (`Own`) and no piece of text follows it, so that what the client
has accumulated is replaced once and never added to.  `OneMoves` reduces a step
to the request it belongs to; of the others only the tables can change, where
`RowsStay` holds.

### Storage

*Migrations.*  `MigrationInv`: each version in the file stands for all statements
up to it (`VersionsDone`), and a process that runs a migration has done, or found
done by others, all that comes before its statement (`OpenersDone`), whoever else
died where.

*Import.*  `RowsOK` describes what the loop over the messages builds, after each
of them: a list in which each row stands for one message that speaks or one tool
call, in their order, no two for the same, and none missing; a call's row hangs below its message's, which hangs
below the row of what came `Before`.  It is proved of any thread by the
least counterexample on the number of messages.  `ImportInv` follows the command:
the rows stored so far of the thread at hand are the first of this list, under
the last ids (`UnderWay`), a thread that was reported is stored whole
(`ReportedStored`), a thread that has a node has a root with its name, so that
the next run finds it (`RootOfEach`), and, if the importer always skips what
exists, a thread still to come has no node yet (`StillToCome`).  Deaths and failed
statements leave a beginning of a thread, which `RootOfEach` makes the next run
skip: messages are never there twice, and a thread that is not whole is never
reported.

### Only model-checked

- Liveness: `EveryCallEnds`, `EveryRequestEnds`, `ConsumerEnds`,
  `GoroutinesReturn`, `FetchEnds`, `RequestsEnd`.  The prover does not reach
  temporal reasoning with fairness and `ENABLED`.
- `CallsAnsweredOnWire` and `PricedModelsOffered`.  What is converted and what is
  priced is selected with `SelectSeq`, which the standard module defines by a
  recursive operator that the provers know nothing of.
- `LegacyModelsKept`: the conversion folds over a list of every order of a map,
  through operators (`FoldLeft`) that take the step as a parameter.

## Findings

The six runs that end in a violation show where the code does other than a
document or comment of the repository says.

1. `selfcontained`: an output group whose last response has tool use stores only
   that response (`conversation.go:330`); `buildMessages` then drops the earlier
   nodes as if the last one contained them (`:218-219`, `:507-508`), and the
   text of the earlier rounds is not sent again.
2. `detached`: a conversation deleted while its answer streams gets the answer
   stored below a missing root; the tree endpoint then finds the node but
   answers with a tree that does not contain it (`internal/api/dags.go:71`).
3. `prompt`: a caller that says something instead of answering an open tool call
   has a synthetic result put into the same message as its text; the conversions
   for OpenAI keep only the results of such a message
   (`internal/provider/openai/protocol.go:272`, `responses.go:353`), so what was
   said is not sent, against `conversation.go:72-74`.
4. `pipe_named`: after an Error event the partial answer is saved, but the Go
   client has already sent its Done chunk, without a node id (`langdag.go:637`,
   against `:513`).  For the same reason the server's stream has a `done` after
   an `error`, where `sdks/SSE_FORMAT.md:79` ends with `error`.
5. `own`: a prompt whose stream ends with neither a Done nor an Error event saves
   no node, the server then looks up the node "" and finds any (`internal/api/chat.go:69`), and returns its
   content and usage, against `api/openapi.yaml:501` and `:23`.
6. `roots`: the backfill of migration 6 compares a table with itself
   (`migrations.go:77`), so that every non-root node of a database older than
   that migration gets the root of one and the same conversation, against `:71`.
   `GET /nodes/{id}/tree` goes by that root.

## Hazards without a property

`PROJECT.json` lists the hazards with a note where no property covers one.  They
are of two kinds: the code does go wrong and nothing documents otherwise (a
truncated answer that reports no tokens, tool ids that repeat, tool ids indexed
after the node, `Init` after a crash between two statements of a migration, a
thread half imported that `--skip-existing` passes over, an overtaken refresh,
the two constructions of a provider); or the behaviour is outside the modelled
inputs (negative weights, a consumer that stops reading).

Met while modelling, and in the models as they are, without a run of their own:

- With `Provider` and `FallbackOrder` but no `Routing`, the Go client asks the
  chain only, never the default provider (`langdag.go:1043-1053`, against
  `README.md:142`).
- The command line has one Vertex section for two deployments, passes on keys of
  three providers only and drops the retries and delays of routing entries
  (`internal/cli/chat.go:131-141`, `:180-186`); the server does neither.
- `retries: 0` means the default, and attempts of a stage multiply with those of
  the wrapper around its provider.
- The deployment router resolves native names over offerings the compiler
  dropped (`deployment_router.go:316`), and an alias that two models share by
  the order of a map (`catalog_v1.go:1310`).
- OpenRouter lists `openrouter/auto` (`openai/openrouter.go:124-131`), and
  `Models` offers it by that name; a request for it has the prefix cut off
  (`deployment_router.go:511`) and asks for `auto`, against `:150-151`.
- The page of a Gemini model that cannot be read is no error of its fetcher
  (`models/providers.go:775`) and leaves the model without a window, so the join
  succeeds without it (`update.go:98-104`), against `update.go:26`.
- One bad entry makes the whole older cache unusable; a crash leaves a temporary
  file; paging of Anthropic's API that goes in circles ends with the deadline.
- The Gemini parser does not look at the scanner's error, so a body that breaks
  there ends as if it were complete.  A chat stream cut inside the arguments of
  a call stores the text only, although the call's id is indexed
  (`conversation.go:330`, `:367`).
- Without a deployment router a caller may get an error after the final event.
- A 500 is answered although the partial answer was stored; an alias that is the
  beginning of an id is never found; an alias of a deleted node stays taken;
  `X-API-Key` is ignored when there is an `Authorization` header.
- A LangGraph message whose `type` (not class) is `AIMessageChunk`, an
  unreadable thread and a system prompt that is not followed by a user message
  are left out silently; `--dry-run` counts threads that would be skipped.

## Not modelled

Cost, usage and latency metadata and titles: they are copied and never decide
anything in the modelled code.  `UpdateNode` and `UpdateTitle`, which nothing
calls.  Cancellation of the context of a conversation call: every statement and
stream that would fail because of it can fail in `Conversation`, but the model
does not tie the failures together (`Dispatch` and `ApiServer` do).  The request
of a continuation round (original messages plus the text so far) is not kept,
since nothing reads it back.  Crashes of the process during a call: each action
is one committed statement, so a crash leaves a store that is a state of the
model in which the calls never go on; recovery does nothing but run the
migrations (`Migrations`).

HTTP, JSON, MessagePack and the regular expressions over provider pages: their
results are inputs of the models.  The semantic comparison of catalogs
(`catalog_semantic.go`), which is a build tool.  Wildcards of `LIKE` and its
ignoring of case in `GetNodeByPrefix`.  Lengths of waits in the retry wrapper.
The Python and TypeScript SDKs, which read the same protocol as the Go SDK
without a goroutine.  Text of messages to users, printing and flags of the
command line.

## Limits

The modules of the system are written, and the safety properties the provers can
reach are theorems.  What remains with TLC is listed above.  The theorem
`ToolsAnswered` has the narrowest hypotheses; each of them names a hazard, and a
change of the code that indexes the tool ids in the transaction that stores the
node, or reports a failing index, would let one go.
