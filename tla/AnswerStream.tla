---------------------------- MODULE AnswerStream ----------------------------
(***************************************************************************)
(* What a caller is promised about the answer to one request, however many *)
(* providers were asked for it: the events of a single stream, from its    *)
(* first one, none missing or repeated, then one end.                      *)
(***************************************************************************)
EXTENDS Integers, Sequences

VARIABLES
  events,   \* the events received, each [type, from, n]: the n-th of stream `from'
  end,      \* "none" while the answer goes on
  guarded   \* whether a deployment router hands the events on

answerVars == <<events, end, guarded>>

Final(list) == list # <<>> /\ list[Len(list)].type = "done"

\* More events of the same stream; a final event is the last one.
Continues(old, new) ==
  /\ Len(new) >= Len(old) /\ SubSeq(new, 1, Len(old)) = old
  /\ \A i \in DOMAIN new : /\ new[i].n = i /\ new[i].from = new[1].from
                           /\ new[i].type = "done" => i = Len(new)

AnswerInit == events = <<>> /\ end = "none" /\ guarded \in BOOLEAN

Receive == /\ end = "none" /\ end' = "none"
           /\ Continues(events, events') /\ (guarded => ~Final(events'))

Finish  == /\ end = "none" /\ end' = "done"
           /\ Continues(events, events') /\ Final(events')

\* Without the router a channel may close before its final event, and an
\* error may follow that event.
Fail    == /\ end = "none" /\ UNCHANGED events
           /\ end' \in IF Final(events) \/ guarded THEN {"error"} ELSE {"error", "closed"}

AnswerNext == (Receive \/ Finish \/ Fail) /\ UNCHANGED guarded
AnswerSpec == AnswerInit /\ [][AnswerNext]_answerVars
=============================================================================
