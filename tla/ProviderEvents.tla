--------------------------- MODULE ProviderEvents ---------------------------
(***************************************************************************)
(* What every provider promises of the channel that Stream returns: a      *)
(* start, pieces of text and finished tool calls, then one final event,    *)
(* with a response or an error, and nothing after it.                      *)
(***************************************************************************)
EXTENDS Integers, Sequences, SequencesExt

VARIABLE log    \* the types of the events so far

Final == {"done", "error"}
EventsInit == log = <<"start">>
EventsNext ==
  /\ Last(log) \notin Final
  /\ IsStrictPrefix(log, log')
  /\ \A i \in Len(log) + 1 .. Len(log') :
       \/ log'[i] \in {"delta", "content_done"}
       \/ log'[i] \in Final /\ i = Len(log')
EventsSpec == EventsInit /\ [][EventsNext]_log
=============================================================================
