------------------------------ MODULE MCRequest ------------------------------
(***************************************************************************)
(* The way of a request and its answer, for TLC: the routers that choose a *)
(* provider (Dispatch), the parsers that read its answer (ProviderStreams) *)
(* and the channels that carry it to the caller (StreamPipe).  Each stands *)
(* for the next one by what it may do, so that in a behaviour one of them  *)
(* runs and the others are at rest.                                        *)
(***************************************************************************)
EXTENDS MCDispatch, MCStreams, MCStreamPipe

VARIABLE part    \* "dispatch", "streams" or "pipe"

\* A request that is over, an answer nobody reads, a call that is over.
DispatchAtRest ==
  /\ scene = CHOOSE s \in Scenarios : BuiltFor(s).kind # "deployments"
  /\ built = BuiltFor(scene) /\ route = <<>>
  /\ at = [Start EXCEPT !.pc = "over"] /\ cancelled = FALSE
  /\ stream = NewStream /\ answer = [events |-> <<>>, end |-> "none"] /\ requests = <<>>
StreamsAtRest == StreamInit /\ served = Answer("chat", 0, "end", <<>>)
PipeAtRest ==
  /\ src = Close(NewChannel) /\ events = Close(NewChannel) /\ chunks = Close(NewChannel)
  /\ prov = [FreshStream(0) EXCEPT !.pc = "closed"]
  /\ conv = [pc |-> "returned", todo |-> <<>>, text |-> FALSE, response |-> NoResponse,
             round |-> 1, last |-> 0]
  /\ client = [pc |-> "returned", todo |-> <<>>, accumulated |-> <<>>,
               emitted |-> {}, response |-> NoResponse, terminated |-> FALSE]
  /\ result = [node |-> 0, content |-> <<>>] /\ got = <<End(0, TRUE)>> /\ stored = 0

RequestInit ==
  \/ part = "dispatch" /\ DispatchInit /\ StreamsAtRest /\ PipeAtRest
  \/ part = "streams" /\ StreamInit /\ DispatchAtRest /\ PipeAtRest
  \/ part = "pipe" /\ PipeInit /\ DispatchAtRest /\ StreamsAtRest

RequestNext ==
  \/ part = "dispatch" /\ DispatchNext /\ UNCHANGED <<part, streamVars, pipeVars>>
  \/ part = "streams" /\ StreamNext /\ UNCHANGED <<part, dispatchVars, pipeVars>>
  \/ part = "pipe" /\ PipeNext /\ UNCHANGED <<part, dispatchVars, streamVars>>

RequestSpec ==
  /\ RequestInit /\ [][RequestNext]_<<part, dispatchVars, streamVars, pipeVars>>
  /\ DispatchFairness /\ PipeFairness
=============================================================================
