--------------------------- MODULE DispatchProofs ---------------------------
(***************************************************************************)
(* Theorems about Dispatch, for every catalog, every set of scenarios and  *)
(* every bound.                                                            *)
(***************************************************************************)
EXTENDS Dispatch, TLAPS, FiniteSetTheorems

-----------------------------------------------------------------------------
(***************************************************************************)
(* Types.                                                                  *)
(***************************************************************************)
Places == {"next", "ask", "waiting", "reading", "ending", "over"}
EventType == [type : {"delta", "empty_delta", "content_done", "done"}, from : Nat, n : Nat]

AtTyped ==
  /\ DOMAIN at = DOMAIN Start /\ at.pc \in Places
  /\ at.step \in Nat \ {0} /\ at.tries \in Nat /\ at.waits \in Nat

StreamTyped ==
  /\ DOMAIN stream = DOMAIN NewStream /\ stream.sent \in Nat /\ stream.output \in BOOLEAN
  /\ stream.buffered \in Seq(EventType)

AnswerTyped ==
  /\ DOMAIN answer = {"events", "end"} /\ answer.events \in Seq(EventType)
  /\ answer.end \in {"none", "done", "error", "closed"}

\* The kinds of the variables that change.
DispatchTyped ==
  /\ AtTyped /\ StreamTyped /\ AnswerTyped
  /\ cancelled \in BOOLEAN /\ requests \in Seq(ToSet(requests))


\* A list of requests, one longer.
LEMMA Appended ==
  ASSUME NEW s, s \in Seq(ToSet(s)), NEW e
  PROVE  LET t == Append(s, e) IN
         /\ t \in Seq(ToSet(t)) /\ Len(t) = Len(s) + 1 /\ Len(s) \in Nat
         /\ t[Len(t)] = e /\ \A i \in 1 .. Len(s) : t[i] = s[i]
         /\ DOMAIN t = 1 .. Len(t) /\ DOMAIN s = 1 .. Len(s)
<1> DEFINE T == ToSet(s) \cup {e}
           t == Append(s, e)
<1>1. s \in Seq(T) /\ e \in T
  OBVIOUS
<1> HIDE DEF T
<1>2. /\ t \in Seq(T) /\ Len(t) = Len(s) + 1 /\ Len(s) \in Nat
      /\ t[Len(t)] = e /\ \A i \in 1 .. Len(s) : t[i] = s[i]
      /\ DOMAIN t = 1 .. Len(t) /\ DOMAIN s = 1 .. Len(s)
  BY <1>1
<1> HIDE DEF t
<1>3. t \in Seq(ToSet(t))
  BY <1>2 DEF ToSet
<1> QED BY <1>2, <1>3 DEF t

\* An event has its type.
LEMMA EventTyped ==
  ASSUME DispatchTyped, NEW type \in {"delta", "empty_delta", "content_done", "done"}
  PROVE  Event(type) \in EventType /\ Len(requests) \in Nat
BY DEF DispatchTyped, StreamTyped, Event, EventType

\* The call goes from place to place.
LEMMA AtKept ==
  ASSUME AtTyped, [DispatchNext]_dispatchVars
  PROVE  AtTyped'
<1>1. CASE AskNext
  BY <1>1 DEF AskNext, AtTyped, Start, Places
<1>2. CASE AskDeployment
  BY <1>2 DEF AskDeployment, AtTyped, Start, Places
<1>3. CASE NextStage
  BY <1>3 DEF NextStage, AtTyped, Start, Places
<1>10. CASE AllFailed
  BY <1>10 DEF AllFailed, GiveUp, AtTyped, Start, Places
<1>4. CASE Accepted
  BY <1>4 DEF Accepted, AtTyped, Start, Places
<1>5. ASSUME NEW cause, Refused(cause) PROVE AtTyped'
  BY <1>5 DEF Refused, AtTyped, Start, Places
<1>6. CASE WaitOver
  BY <1>6 DEF WaitOver, AtTyped, Start, Places
<1>11. CASE WaitCancelled
  BY <1>11 DEF WaitCancelled, AtTyped, Start, Places
<1>7. CASE StreamDone
  BY <1>7 DEF StreamDone, AtTyped, Start, Places
<1>8. ASSUME NEW how, StreamBroken(how) PROVE AtTyped'
  BY <1>8 DEF StreamBroken, AtTyped, Start, Places
<1>12. ASSUME NEW how, StreamEnds(how) PROVE AtTyped'
  BY <1>12 DEF StreamEnds, AtTyped, Start, Places
<1>9. CASE UNCHANGED at
  BY <1>9 DEF AtTyped
<1> QED BY <1>1, <1>2, <1>3, <1>4, <1>5, <1>6, <1>7, <1>8, <1>9, <1>10, <1>11, <1>12
     DEF DispatchNext, dispatchVars, Cancel, StreamEvent

\* What is read and what is handed on are events.
LEMMA EventsKept ==
  ASSUME DispatchTyped, [DispatchNext]_dispatchVars
  PROVE  StreamTyped' /\ AnswerTyped'
<1>1. StreamTyped /\ AnswerTyped
  BY DEF DispatchTyped
<1>2. StreamTyped /\ AnswerTyped /\ UNCHANGED <<stream, answer>> => StreamTyped' /\ AnswerTyped'
  BY DEF StreamTyped, AnswerTyped
<1>3. stream' = stream => StreamTyped'
  BY <1>1 DEF StreamTyped
<1>4. answer' = answer => AnswerTyped'
  BY <1>1 DEF AnswerTyped
<1>5. stream' = NewStream => StreamTyped'
  <2>1. <<>> \in Seq(EventType)
    OBVIOUS
  <2> QED BY <2>1 DEF StreamTyped, NewStream
<1>6. \A how \in {"none", "done", "error", "closed"} :
        answer' = [answer EXCEPT !.end = how] => AnswerTyped'
  BY <1>1 DEF AnswerTyped
<1>7. CASE AllFailed
  BY <1>3, <1>6, <1>7 DEF AllFailed, GiveUp
<1>8. CASE Accepted
  <2>1. Len(requests') \in Nat
    BY <1>8, Appended DEF Accepted, DispatchTyped
  <2>2. [type |-> "done", from |-> Len(requests'), n |-> 1] \in EventType
    BY <2>1 DEF EventType
  <2>3. scene.op = "complete" => AnswerTyped' /\ stream' = stream
    <3> SUFFICES ASSUME scene.op = "complete" PROVE AnswerTyped' /\ stream' = stream
      OBVIOUS
    <3>1. answer' = [events |-> <<[type |-> "done", from |-> Len(requests'), n |-> 1]>>,
                     end |-> "done"] /\ stream' = stream
      BY <1>8 DEF Accepted
    <3>2. <<[type |-> "done", from |-> Len(requests'), n |-> 1]>> \in Seq(EventType)
      BY <2>2
    <3> QED BY <3>1, <3>2 DEF AnswerTyped
  <2>4. scene.op # "complete" => stream' = NewStream /\ answer' = answer
    BY <1>8 DEF Accepted
  <2> QED BY <1>3, <1>4, <1>5, <2>3, <2>4
<1>9. ASSUME NEW type \in {"delta", "empty_delta", "content_done"}, StreamEvent(type)
      PROVE  StreamTyped' /\ AnswerTyped'
  <2>1. Event(type) \in EventType
    BY EventTyped
  <2>2. /\ answer.events \o Append(stream.buffered, Event(type)) \in Seq(EventType)
        /\ Append(stream.buffered, Event(type)) \in Seq(EventType)
        /\ <<>> \in Seq(EventType)
    BY <1>1, <2>1 DEF StreamTyped, AnswerTyped
  <2>3. (stream.output \/ IsOutput(Event(type))) \in BOOLEAN
    BY DEF IsOutput
  <2>4. StreamTyped'
    BY <1>1, <1>9, <2>2, <2>3 DEF StreamEvent, StreamTyped, NewStream
  <2>5. AnswerTyped'
    BY <1>1, <1>9, <2>2 DEF StreamEvent, AnswerTyped
  <2> QED BY <2>4, <2>5
<1>10. CASE StreamDone
  <2>1. Event("done") \in EventType
    BY EventTyped
  <2>2. answer.events \o Append(stream.buffered, Event("done")) \in Seq(EventType)
    BY <1>1, <2>1 DEF StreamTyped, AnswerTyped
  <2>3. AnswerTyped'
    BY <1>10, <2>2 DEF StreamDone, AnswerTyped
  <2>4. StreamTyped'
    BY <1>1, <1>10 DEF StreamDone, StreamTyped, NewStream
  <2> QED BY <2>3, <2>4
<1>11. ASSUME NEW how \in {"error", "closed"}, StreamBroken(how)
       PROVE  StreamTyped' /\ AnswerTyped'
  BY <1>4, <1>5, <1>6, <1>11 DEF StreamBroken
<1>12. ASSUME NEW how, StreamEnds(how) PROVE StreamTyped' /\ AnswerTyped'
  BY <1>3, <1>6, <1>12 DEF StreamEnds
<1> QED BY <1>2, <1>1, <1>7, <1>8, <1>9, <1>10, <1>11, <1>12
     DEF DispatchNext, dispatchVars, AskNext, AskDeployment, NextStage, Refused, WaitOver,
         WaitCancelled, Cancel

\* Every step keeps the types.
LEMMA StepKeepsDispatchTypes ==
  ASSUME DispatchTyped, [DispatchNext]_dispatchVars
  PROVE  DispatchTyped'
<1>1. requests' = requests \/ \E r : requests' = Append(requests, r)
  BY DEF DispatchNext, dispatchVars, AskNext, AskDeployment, NextStage, AllFailed, Accepted,
     Refused, WaitOver, WaitCancelled, Cancel, StreamEvent, StreamDone, StreamEnds, StreamBroken
<1>2. requests' \in Seq(ToSet(requests'))
  <2>1. CASE requests' = requests
    BY <2>1 DEF DispatchTyped
  <2>2. ASSUME NEW r, requests' = Append(requests, r) PROVE requests' \in Seq(ToSet(requests'))
    BY <2>2, Appended DEF DispatchTyped
  <2> QED BY <1>1, <2>1, <2>2
<1>3. cancelled' \in {cancelled, TRUE}
  BY DEF DispatchNext, dispatchVars, AskNext, AskDeployment, NextStage, AllFailed, Accepted,
     Refused, WaitOver, WaitCancelled, Cancel, StreamEvent, StreamDone, StreamEnds, StreamBroken
<1>4. AtTyped' /\ StreamTyped' /\ AnswerTyped'
  BY AtKept, EventsKept DEF DispatchTyped
<1> QED BY <1>2, <1>3, <1>4 DEF DispatchTyped

\* A call begins with the right types.
LEMMA InitDispatchTyped == DispatchInit => DispatchTyped
<1> SUFFICES ASSUME DispatchInit PROVE DispatchTyped
  OBVIOUS
<1>1. AtTyped
  <2>1. at = Start
    BY DEF DispatchInit
  <2>2. at.pc = "next" /\ at.step = 1 /\ at.tries = 0 /\ at.waits = 0
    BY <2>1 DEF Start
  <2>3. DOMAIN at = DOMAIN Start
    BY <2>1
  <2> QED BY <2>2, <2>3 DEF AtTyped, Places
<1>2. StreamTyped /\ AnswerTyped
  BY DEF DispatchInit, StreamTyped, AnswerTyped, NewStream
<1>3. requests \in Seq(ToSet(requests)) /\ cancelled \in BOOLEAN
  <2>1. requests = <<>> /\ cancelled = FALSE
    BY DEF DispatchInit
  <2>2. \A T : <<>> \in Seq(T)
    OBVIOUS
  <2> QED BY <2>1, <2>2
<1> QED BY <1>1, <1>2, <1>3 DEF DispatchTyped

-----------------------------------------------------------------------------
(***************************************************************************)
(* One answer.                                                             *)
(***************************************************************************)
\* No event of a list is a final one.
NoneFinal(list) == \A i \in DOMAIN list : list[i].type # "done"

\* What the caller has and what is kept back are the events of the stream at
\* hand, in order; without a stream the caller has nothing, and at its end the
\* last event is the final one.
AnswerKnown ==
  /\ answer.end = "none" <=> at.pc # "over"
  /\ at.pc \in {"next", "ask", "waiting"} => answer.events = <<>>
  /\ at.pc = "reading" =>
       /\ NoneFinal(answer.events) /\ NoneFinal(stream.buffered)
       /\ Len(answer.events) + Len(stream.buffered) = stream.sent
       /\ \A i \in DOMAIN answer.events :
            answer.events[i].n = i /\ answer.events[i].from = Len(requests)
       /\ \A i \in DOMAIN stream.buffered :
            /\ stream.buffered[i].n = Len(answer.events) + i
            /\ stream.buffered[i].from = Len(requests)
       /\ Staged => (stream.output <=> answer.events # <<>>)
  /\ at.pc = "ending" => ~ Staged /\ Abstract!Continues(answer.events, answer.events)
                         /\ Abstract!Final(answer.events)


\* The next event goes behind the events the caller has and those kept back.
Extended(type) == answer.events \o Append(stream.buffered, Event(type))

\* It is a list of events that is one longer than what was read so far.
LEMMA NextEvent ==
  ASSUME DispatchTyped, AnswerKnown, at.pc = "reading",
         NEW type \in {"delta", "empty_delta", "content_done", "done"}
  PROVE  LET all == Extended(type) IN
         /\ all \in Seq(EventType) /\ Len(all) = stream.sent + 1
         /\ Len(all) > Len(answer.events) /\ Len(answer.events) \in Nat
         /\ \A i \in 1 .. Len(answer.events) : all[i] = answer.events[i]
         /\ \A i \in DOMAIN all : all[i].n = i /\ all[i].from = Len(requests)
         /\ all[Len(all)].type = type
         /\ \A i \in DOMAIN all : i # Len(all) => all[i].type # "done"
<1> DEFINE e == Event(type)
           a == answer.events
           b == stream.buffered
           all == Extended(type)
<1>1. /\ e \in EventType /\ e.type = type /\ e.from = Len(requests) /\ e.n = stream.sent + 1
      /\ a \in Seq(EventType) /\ b \in Seq(EventType)
  BY EventTyped DEF Event, DispatchTyped, StreamTyped, AnswerTyped
<1>2. /\ Len(a) + Len(b) = stream.sent
      /\ \A i \in DOMAIN a : a[i].n = i /\ a[i].from = Len(requests)
      /\ \A i \in DOMAIN b : b[i].n = Len(a) + i /\ b[i].from = Len(requests)
      /\ \A i \in DOMAIN a : a[i].type # "done"
      /\ \A i \in DOMAIN b : b[i].type # "done"
  BY DEF AnswerKnown, NoneFinal
<1>3. all = a \o Append(b, e)
  BY DEF Extended
<1> HIDE DEF e, a, b, all
<1>4. /\ Append(b, e) \in Seq(EventType) /\ Len(Append(b, e)) = Len(b) + 1
      /\ \A i \in 1 .. Len(b) : Append(b, e)[i] = b[i]
      /\ Append(b, e)[Len(b) + 1] = e
      /\ Len(a) \in Nat /\ Len(b) \in Nat
      /\ DOMAIN a = 1 .. Len(a) /\ DOMAIN b = 1 .. Len(b)
  BY <1>1
<1>5. /\ all \in Seq(EventType) /\ Len(all) = Len(a) + Len(b) + 1
      /\ \A i \in 1 .. Len(a) : all[i] = a[i]
      /\ \A i \in 1 .. Len(b) + 1 : all[Len(a) + i] = Append(b, e)[i]
      /\ DOMAIN all = 1 .. Len(all)
  BY <1>1, <1>3, <1>4
<1>6. ASSUME NEW i \in 1 .. Len(a) + Len(b) + 1
      PROVE  /\ all[i].n = i /\ all[i].from = Len(requests)
             /\ i # Len(a) + Len(b) + 1 => all[i].type # "done"
  <2>1. CASE i \in 1 .. Len(a)
    BY <1>2, <1>4, <1>5, <2>1
  <2>2. CASE i \in Len(a) + 1 .. Len(a) + Len(b)
    <3>1. i - Len(a) \in 1 .. Len(b) /\ i = Len(a) + (i - Len(a))
      BY <1>4, <2>2
    <3>2. PICK j \in 1 .. Len(b) : i = Len(a) + j
      BY <3>1
    <3>3. j \in 1 .. Len(b) + 1
      BY <1>4
    <3>4. all[i] = b[j]
      BY <1>4, <1>5, <3>2, <3>3
    <3>5. b[j].n = Len(a) + j /\ b[j].from = Len(requests) /\ b[j].type # "done"
      BY <1>2, <1>4
    <3> QED BY <3>2, <3>4, <3>5
  <2>3. CASE i = Len(a) + Len(b) + 1
    <3>1. Len(b) + 1 \in 1 .. Len(b) + 1 /\ i = Len(a) + (Len(b) + 1)
      BY <1>4, <2>3
    <3>2. all[i] = e
      BY <1>4, <1>5, <3>1
    <3> QED BY <1>1, <1>2, <1>4, <2>3, <3>2
  <2>4. i \in 1 .. Len(a) \/ i \in Len(a) + 1 .. Len(a) + Len(b) \/ i = Len(a) + Len(b) + 1
    BY <1>4
  <2> QED BY <2>1, <2>2, <2>3, <2>4
<1>7. all[Len(all)].type = type
  <2>1. Len(b) + 1 \in 1 .. Len(b) + 1 /\ Len(all) = Len(a) + (Len(b) + 1)
    BY <1>4, <1>5
  <2> QED BY <1>1, <1>4, <1>5, <2>1
<1>8. /\ Len(all) = stream.sent + 1 /\ Len(all) > Len(a)
      /\ \A i \in DOMAIN all : all[i].n = i /\ all[i].from = Len(requests)
      /\ \A i \in DOMAIN all : i # Len(all) => all[i].type # "done"
  <2>1. Len(all) = stream.sent + 1 /\ Len(all) > Len(a)
    BY <1>2, <1>4, <1>5
  <2>2. DOMAIN all = 1 .. Len(a) + Len(b) + 1
    BY <1>5
  <2> QED BY <1>5, <1>6, <2>1, <2>2
<1> QED BY <1>4, <1>5, <1>7, <1>8 DEF a, all

\* Scene, provider and route stay.
LEMMA RouteStays ==
  ASSUME [DispatchNext]_dispatchVars
  PROVE  InCall
BY DEF DispatchNext, dispatchVars, AskNext, AskDeployment, NextStage, AllFailed, Accepted,
   Refused, WaitOver, WaitCancelled, Cancel, StreamEvent, StreamDone, StreamEnds, StreamBroken, InCall

\* A step of the abstract answer: nothing, more of the stream, or its end.
AnswerStep == [Abstract!AnswerNext]_(Abstract!answerVars)

\* The events that come out at the end of those the caller has continue them.
LEMMA EventsContinue ==
  ASSUME DispatchTyped, AnswerKnown, at.pc = "reading",
         NEW type \in {"delta", "empty_delta", "content_done", "done"},
         answer'.events = answer.events \o Append(stream.buffered, Event(type))
  PROVE  /\ Abstract!Continues(answer.events, answer'.events)
         /\ Abstract!Continues(answer'.events, answer'.events) /\ answer'.events # <<>>
         /\ answer'.events[Len(answer'.events)].type = type
<1> DEFINE old == answer.events
           new == answer'.events
<1>0. new = Extended(type)
  BY DEF Extended
<1> HIDE DEF new
<1>1. /\ new \in Seq(EventType) /\ Len(new) > Len(old) /\ Len(old) \in Nat
      /\ \A i \in 1 .. Len(old) : new[i] = old[i]
      /\ \A i \in DOMAIN new : new[i].n = i /\ new[i].from = Len(requests)
      /\ new[Len(new)].type = type
      /\ \A i \in DOMAIN new : new[i].type = "done" => i = Len(new)
  BY <1>0, NextEvent
<1>2. old \in Seq(EventType)
  BY DEF DispatchTyped, AnswerTyped
<1> HIDE DEF old, new
<1>3. SubSeq(new, 1, Len(old)) = old
  BY <1>1, <1>2
<1>4. 1 \in DOMAIN new /\ new # <<>>
  BY <1>1
<1>5. \A i \in DOMAIN new : new[i].n = i /\ new[i].from = new[1].from
  BY <1>1, <1>4
<1>6. Abstract!Continues(old, new)
  BY <1>1, <1>3, <1>5 DEF Abstract!Continues
<1>7. SubSeq(new, 1, Len(new)) = new /\ Len(new) >= Len(new)
  BY <1>1
<1>8. Abstract!Continues(new, new)
  BY <1>1, <1>5, <1>7 DEF Abstract!Continues
<1> QED BY <1>1, <1>4, <1>6, <1>8 DEF old, new

\* What the caller sees changes as the abstract answer allows.
LEMMA StepAnswers ==
  ASSUME DispatchTyped, AnswerKnown, [DispatchNext]_dispatchVars
  PROVE  AnswerStep
<1> USE DEF AnswerStep, Abstract!AnswerNext, Abstract!answerVars
<1>0. Staged' = Staged
  BY RouteStays DEF InCall, Staged
<1>1. /\ DOMAIN answer = {"events", "end"}
      /\ at.pc # "over" => answer.end = "none"
      /\ at.pc = "ask" => answer.events = <<>>
  BY DEF DispatchTyped, AnswerTyped, AnswerKnown
<1>2. ASSUME answer' = answer PROVE AnswerStep
  BY <1>0, <1>2
<1>3. ASSUME NEW how \in {"error", "closed"}, answer' = [answer EXCEPT !.end = how], at.pc # "over",
             how = "closed" => ~ Staged /\ ~ Abstract!Final(answer.events)
      PROVE  AnswerStep
  BY <1>0, <1>1, <1>3 DEF Abstract!Fail
<1>4. CASE AllFailed
  BY <1>3, <1>4 DEF AllFailed, GiveUp
<1>5. CASE Accepted
  <2>1. CASE scene.op = "complete"
    <3> DEFINE e == [type |-> "done", from |-> Len(requests'), n |-> 1]
    <3>1. /\ answer'.events = <<e>> /\ answer'.end = "done"
          /\ answer.events = <<>> /\ answer.end = "none"
      BY <1>1, <1>5, <2>1 DEF Accepted
    <3>2. e.n = 1 /\ e.type = "done"
      OBVIOUS
    <3> HIDE DEF e
    <3>3. Abstract!Continues(<<>>, <<e>>)
      BY <3>2 DEF Abstract!Continues
    <3>4. Abstract!Finish
      BY <3>1, <3>2, <3>3 DEF Abstract!Finish, Abstract!Final
    <3> QED BY <1>0, <3>4
  <2>2. CASE scene.op # "complete"
    BY <1>2, <1>5, <2>2 DEF Accepted
  <2> QED BY <2>1, <2>2
<1>6. ASSUME NEW type \in {"delta", "empty_delta", "content_done"}, StreamEvent(type)
      PROVE  AnswerStep
  <2>1. at.pc = "reading" /\ answer.end = "none"
    BY <1>1, <1>6 DEF StreamEvent
  <2>2. CASE answer' = answer
    BY <1>2, <2>2
  <2>3. CASE answer' # answer
    <3>1. /\ answer'.events = answer.events \o Append(stream.buffered, Event(type))
          /\ answer'.end = answer.end
      BY <1>1, <1>6, <2>3 DEF StreamEvent
    <3>2. /\ Abstract!Continues(answer.events, answer'.events)
          /\ answer'.events[Len(answer'.events)].type = type
      BY <2>1, <3>1, EventsContinue
    <3>3. ~ Abstract!Final(answer'.events)
      BY <3>2 DEF Abstract!Final
    <3> QED BY <1>0, <2>1, <3>1, <3>2, <3>3 DEF Abstract!Receive
  <2> QED BY <2>2, <2>3
<1>7. CASE StreamDone
  <2>1. /\ at.pc = "reading" /\ answer.end = "none"
        /\ answer'.events = answer.events \o Append(stream.buffered, Event("done"))
        /\ answer'.end = IF Staged THEN "done" ELSE "none"
    BY <1>1, <1>7 DEF StreamDone
  <2>2. /\ Abstract!Continues(answer.events, answer'.events)
        /\ Abstract!Final(answer'.events)
    BY <2>1, EventsContinue DEF Abstract!Final
  <2>3. CASE Staged
    BY <1>0, <2>1, <2>2, <2>3 DEF Abstract!Finish
  <2>4. CASE ~ Staged
    BY <1>0, <2>1, <2>2, <2>4 DEF Abstract!Receive
  <2> QED BY <2>3, <2>4
<1>8. ASSUME NEW how \in {"error", "closed"}, StreamBroken(how)
      PROVE  AnswerStep
  <2>1. at.pc = "reading" /\ NoneFinal(answer.events) /\ answer.events \in Seq(EventType)
    BY <1>8 DEF StreamBroken, AnswerKnown, DispatchTyped, AnswerTyped
  <2>2. ~ Abstract!Final(answer.events)
    BY <2>1 DEF NoneFinal, Abstract!Final
  <2>3. \/ answer' = answer
        \/ answer' = [answer EXCEPT !.end = IF ~Staged /\ how = "closed" THEN "closed" ELSE "error"]
    BY <1>8 DEF StreamBroken
  <2>4. CASE ~Staged /\ how = "closed"
    BY <1>2, <1>3, <2>1, <2>2, <2>3, <2>4
  <2>5. CASE ~ (~Staged /\ how = "closed")
    BY <1>2, <1>3, <2>1, <2>3, <2>5
  <2> QED BY <2>4, <2>5
<1>9. ASSUME NEW how, StreamEnds(how) PROVE AnswerStep
  <2>1. /\ at.pc = "ending" /\ answer.end = "none" /\ answer'.events = answer.events
        /\ answer' = [answer EXCEPT !.end = IF how = "error" THEN "error" ELSE "done"]
    BY <1>1, <1>9 DEF StreamEnds
  <2>2. Abstract!Continues(answer.events, answer.events) /\ Abstract!Final(answer.events)
    BY <2>1 DEF AnswerKnown
  <2>3. CASE how = "error"
    BY <1>3, <2>1, <2>3
  <2>4. CASE how # "error"
    BY <1>0, <1>1, <2>1, <2>2, <2>4 DEF Abstract!Finish
  <2> QED BY <2>3, <2>4
<1> QED BY <1>2, <1>4, <1>5, <1>6, <1>7, <1>8, <1>9
     DEF DispatchNext, dispatchVars, AskNext, AskDeployment, NextStage, Refused, WaitOver,
         WaitCancelled, Cancel

\* What is known of the answer stays known.
LEMMA StepKnowsAnswer ==
  ASSUME DispatchTyped, AnswerKnown, [DispatchNext]_dispatchVars
  PROVE  AnswerKnown'
<1>1. /\ DispatchTyped' /\ Staged' = Staged
      /\ DOMAIN at = DOMAIN Start /\ DOMAIN answer = {"events", "end"}
      /\ answer.events \in Seq(EventType)
  BY StepKeepsDispatchTypes DEF DispatchTyped, AtTyped, AnswerTyped, DispatchNext, dispatchVars,
     AskNext, AskDeployment, NextStage, AllFailed, Accepted, Refused, WaitOver, WaitCancelled,
     Cancel, StreamEvent, StreamDone, StreamEnds, StreamBroken, InCall, Staged
<1>2. ASSUME answer' = answer, at.pc \in {"next", "ask", "waiting"},
             at'.pc \in {"next", "ask", "waiting"}
      PROVE  AnswerKnown'
  BY <1>2 DEF AnswerKnown
<1>3. ASSUME at'.pc = "over", answer'.end # "none" PROVE AnswerKnown'
  BY <1>3 DEF AnswerKnown
<1>4. CASE AskNext
  BY <1>1, <1>2, <1>4 DEF AskNext, Start
<1>5. CASE AskDeployment
  BY <1>1, <1>2, <1>5 DEF AskDeployment, Start
<1>6. CASE NextStage
  BY <1>1, <1>2, <1>6 DEF NextStage, Start
<1>7. CASE AllFailed
  BY <1>1, <1>3, <1>7 DEF AllFailed, GiveUp, Start
<1>8. CASE Accepted
  <2>1. CASE scene.op = "complete"
    BY <1>1, <1>3, <1>8, <2>1 DEF Accepted, Start
  <2>2. CASE scene.op # "complete"
    <3>1. /\ at.pc = "ask" /\ at'.pc = "reading" /\ answer' = answer
          /\ stream' = NewStream
      BY <1>1, <1>8, <2>2 DEF Accepted, Start
    <3>2. answer.events = <<>> /\ answer.end = "none"
      BY <3>1 DEF AnswerKnown
    <3>3. stream'.sent = 0 /\ stream'.buffered = <<>> /\ stream'.output = FALSE
      BY <3>1 DEF NewStream
    <3> QED BY <3>1, <3>2, <3>3 DEF AnswerKnown, NoneFinal
  <2> QED BY <2>1, <2>2
<1>9. ASSUME NEW cause, Refused(cause) PROVE AnswerKnown'
  BY <1>1, <1>2, <1>9 DEF Refused, Start
<1>10. CASE WaitOver
  BY <1>1, <1>2, <1>10 DEF WaitOver, Start
<1>11. CASE WaitCancelled
  BY <1>1, <1>2, <1>11 DEF WaitCancelled, Start
<1>12. CASE Cancel \/ UNCHANGED dispatchVars
  <2>1. at' = at /\ answer' = answer /\ stream' = stream /\ requests' = requests
    BY <1>12 DEF Cancel, dispatchVars
  <2>2. /\ Abstract!Continues(answer'.events, answer'.events)
             <=> Abstract!Continues(answer.events, answer.events)
        /\ Abstract!Final(answer'.events) <=> Abstract!Final(answer.events)
        /\ NoneFinal(answer'.events) <=> NoneFinal(answer.events)
        /\ NoneFinal(stream'.buffered) <=> NoneFinal(stream.buffered)
    BY <2>1
  <2> QED BY <1>1, <2>1, <2>2 DEF AnswerKnown
<1>13. ASSUME NEW type \in {"delta", "empty_delta", "content_done"}, StreamEvent(type)
       PROVE  AnswerKnown'
  <2> DEFINE e == Event(type)
             opens == ~Staged \/ stream.output \/ IsOutput(e)
             all == Extended(type)
  <2>1. /\ at.pc = "reading" /\ at' = at /\ requests' = requests /\ answer.end = "none"
        /\ stream.buffered \in Seq(EventType) /\ stream.sent \in Nat
        /\ DOMAIN stream = DOMAIN NewStream /\ stream.output \in BOOLEAN
    BY <1>13 DEF StreamEvent, AnswerKnown, DispatchTyped, StreamTyped
  <2>2. /\ all \in Seq(EventType) /\ Len(all) = stream.sent + 1
        /\ Len(all) > Len(answer.events)
        /\ \A i \in DOMAIN all : all[i].n = i /\ all[i].from = Len(requests)
        /\ NoneFinal(all)
    BY <2>1, NextEvent DEF NoneFinal
  <2>3. stream'.sent = stream.sent + 1
        /\ stream'.output = (stream.output \/ IsOutput(e))
    BY <1>13, <2>1 DEF StreamEvent, NewStream
  <2>4. CASE opens
    <3>1. stream'.buffered = <<>> /\ answer'.events = all /\ answer'.end = answer.end
      BY <1>1, <1>13, <2>1, <2>4 DEF StreamEvent, NewStream, Extended
    <3> HIDE DEF all
    <3>2. all # <<>> /\ (Staged => stream'.output)
      <4>1. Len(answer.events) \in Nat
        BY <1>1
      <4>2. all # <<>>
        BY <2>2, <4>1
      <4>3. Staged => stream'.output
        BY <2>3, <2>4, Zenon
      <4> QED BY <4>2, <4>3
    <3>3. NoneFinal(stream'.buffered)
      BY <3>1 DEF NoneFinal
    <3> QED BY <1>1, <2>1, <2>2, <2>3, <3>1, <3>2, <3>3 DEF AnswerKnown
  <2>5. CASE ~ opens
    <3>1. stream'.buffered = Append(stream.buffered, e) /\ answer' = answer
      BY <1>13, <2>1, <2>5 DEF StreamEvent, NewStream
    <3>2. stream'.output = FALSE /\ stream.output = FALSE
      BY <2>1, <2>3, <2>5
    <3>3. /\ Len(answer.events) + Len(stream.buffered) = stream.sent
          /\ \A i \in DOMAIN answer.events :
               answer.events[i].n = i /\ answer.events[i].from = Len(requests)
          /\ \A i \in DOMAIN stream.buffered :
               /\ stream.buffered[i].n = Len(answer.events) + i
               /\ stream.buffered[i].from = Len(requests)
          /\ Staged => (stream.output <=> answer.events # <<>>)
          /\ NoneFinal(answer.events) /\ NoneFinal(stream.buffered)
      BY <2>1 DEF AnswerKnown
    <3>4. /\ e.n = stream.sent + 1 /\ e.from = Len(requests) /\ e \in EventType
          /\ e.type # "done"
      BY EventTyped DEF Event
    <3> HIDE DEF e
    <3> DEFINE b == stream.buffered
    <3>7. /\ Len(Append(b, e)) = Len(b) + 1 /\ Len(b) \in Nat
          /\ DOMAIN Append(b, e) = 1 .. Len(b) + 1 /\ DOMAIN b = 1 .. Len(b)
          /\ \A i \in 1 .. Len(b) : Append(b, e)[i] = b[i]
          /\ Append(b, e)[Len(b) + 1] = e
      BY <2>1, <3>4
    <3>8. ASSUME NEW i \in DOMAIN Append(b, e)
          PROVE  /\ Append(b, e)[i].n = Len(answer.events) + i
                 /\ Append(b, e)[i].from = Len(requests)
                 /\ Append(b, e)[i].type # "done"
      <4>1. CASE i \in DOMAIN b
        BY <3>3, <3>7, <4>1 DEF NoneFinal
      <4>2. CASE i = Len(b) + 1
        BY <1>1, <3>3, <3>4, <3>7, <4>2
      <4> QED BY <3>7, <4>1, <4>2
    <3>5. /\ Len(stream'.buffered) = Len(stream.buffered) + 1
          /\ \A i \in DOMAIN stream'.buffered :
               /\ stream'.buffered[i].n = Len(answer.events) + i
               /\ stream'.buffered[i].from = Len(requests)
          /\ NoneFinal(stream'.buffered)
      BY <3>1, <3>7, <3>8 DEF NoneFinal
    <3>6. Len(answer.events) + Len(stream'.buffered) = stream'.sent
      BY <1>1, <2>1, <2>3, <3>3, <3>5
    <3> QED BY <1>1, <2>1, <3>1, <3>2, <3>3, <3>5, <3>6 DEF AnswerKnown
  <2> QED BY <2>4, <2>5
<1>14. CASE StreamDone
  <2>1. /\ at.pc = "reading" /\ answer'.events = answer.events \o Append(stream.buffered, Event("done"))
        /\ Staged => at'.pc = "over" /\ answer'.end # "none"
        /\ ~ Staged => at'.pc = "ending" /\ answer'.end = "none"
    BY <1>1, <1>14 DEF StreamDone, Start
  <2>2. Abstract!Continues(answer'.events, answer'.events) /\ Abstract!Final(answer'.events)
    BY <2>1, EventsContinue DEF Abstract!Final
  <2>3. CASE Staged
    BY <1>3, <2>1, <2>3
  <2>4. CASE ~ Staged
    BY <1>1, <2>1, <2>2, <2>4 DEF AnswerKnown, Abstract!Continues, Abstract!Final
  <2> QED BY <2>3, <2>4
<1>16. ASSUME NEW how, StreamEnds(how) PROVE AnswerKnown'
  BY <1>1, <1>3, <1>16 DEF StreamEnds, Start
<1>15. ASSUME NEW how \in {"error", "closed"}, StreamBroken(how) PROVE AnswerKnown'
  <2>1. at.pc = "reading"
    BY <1>15 DEF StreamBroken
  <2>2. CASE Staged /\ ~stream.output
    <3>1. at'.pc = "next" /\ answer' = answer
      BY <1>1, <1>15, <2>2 DEF StreamBroken, Start
    <3>2. answer.events = <<>> /\ answer.end = "none"
      BY <2>1, <2>2 DEF AnswerKnown
    <3> QED BY <3>1, <3>2 DEF AnswerKnown
  <2>3. CASE ~(Staged /\ ~stream.output)
    <3>1. at'.pc = "over" /\ answer'.end # "none"
      BY <1>1, <1>15, <2>3 DEF StreamBroken, Start
    <3> QED BY <1>3, <3>1
  <2> QED BY <2>2, <2>3
<1> QED BY <1>4, <1>5, <1>6, <1>7, <1>8, <1>9, <1>10, <1>11, <1>12, <1>13, <1>14, <1>15, <1>16
     DEF DispatchNext

\* The types and the answer are known in every state.
LEMMA AnswerInductive == DispatchSpec => [](DispatchTyped /\ AnswerKnown)
<1>1. DispatchInit => DispatchTyped /\ AnswerKnown
  <2> SUFFICES ASSUME DispatchInit PROVE AnswerKnown
    BY InitDispatchTyped
  <2>1. at = Start /\ answer = [events |-> <<>>, end |-> "none"]
    BY DEF DispatchInit
  <2>2. at.pc = "next"
    BY <2>1 DEF Start
  <2> QED BY <2>1, <2>2 DEF AnswerKnown
<1>2. DispatchTyped /\ AnswerKnown /\ [DispatchNext]_dispatchVars => (DispatchTyped /\ AnswerKnown)'
  BY StepKeepsDispatchTypes, StepKnowsAnswer
<1> QED BY <1>1, <1>2, PTL DEF DispatchSpec

\* The caller is told one answer: the events of one stream from its first one
\* on, with no event behind a final one, then one end, whichever providers and
\* stages failed before; behind a deployment router the final event is that
\* end (streamWithDeployment, tagStreamProvider).
THEOREM OneAnswerGiven == DispatchSpec => OneAnswer
<1>1. DispatchInit => Abstract!AnswerInit
  BY DEF DispatchInit, Abstract!AnswerInit, Staged
<1>2. DispatchTyped /\ AnswerKnown /\ [DispatchNext]_dispatchVars =>
        [Abstract!AnswerNext]_(Abstract!answerVars)
  BY StepAnswers DEF AnswerStep
<1> QED BY <1>1, <1>2, AnswerInductive, PTL DEF DispatchSpec, OneAnswer, Abstract!AnswerSpec

-----------------------------------------------------------------------------
(***************************************************************************)
(* Requests.                                                               *)
(***************************************************************************)

\* A step sends one request, from where the call is, or none.
LEMMA StepRequests ==
  ASSUME DispatchTyped, [DispatchNext]_dispatchVars
  PROVE  \/ requests' = requests
         \/ /\ at.pc = "ask" /\ UNCHANGED cancelled
            /\ \E accepted \in BOOLEAN :
                 /\ requests' = Append(requests, Request(accepted))
                 /\ accepted => at'.pc \in {"over", "reading"}
                 /\ ~accepted => at'.pc \in {"waiting", "next"}
                 /\ accepted /\ Staged => at'.step = at.step
                 /\ at'.waits = at.waits
<1>1. DOMAIN at = DOMAIN Start
  BY DEF DispatchTyped, AtTyped
<1>2. CASE Accepted
  <2>1. requests' = Append(requests, Request(TRUE)) /\ at.pc = "ask" /\ UNCHANGED cancelled
    BY <1>2 DEF Accepted
  <2>2. at' = [at EXCEPT !.pc = "over"] \/ at' = [at EXCEPT !.pc = "reading"]
    BY <1>2 DEF Accepted
  <2>3. at'.pc \in {"over", "reading"} /\ at'.step = at.step /\ at'.waits = at.waits
    BY <1>1, <2>2 DEF Start
  <2> QED BY <2>1, <2>3
<1>3. ASSUME NEW cause, Refused(cause)
      PROVE  /\ at.pc = "ask" /\ UNCHANGED cancelled
             /\ requests' = Append(requests, Request(FALSE))
             /\ at'.pc \in {"waiting", "next"} /\ at'.waits = at.waits
  BY <1>1, <1>3 DEF Refused, Start
<1> QED BY <1>2, <1>3 DEF DispatchNext, dispatchVars, AskNext, AskDeployment, NextStage, AllFailed,
     WaitOver, WaitCancelled, Cancel, StreamEvent, StreamDone, StreamEnds, StreamBroken

\* Behind a request made with a cancelled context there is no waiting.
LateKnown ==
  /\ \A i \in DOMAIN requests : requests[i].late =>
       cancelled /\ (at.pc = "ask" => at.waits = 0)
  /\ NoRetryAfterCancel

\* A request counts as late only if the wait before it was cancelled.
LEMMA StepKnowsLate ==
  ASSUME DispatchTyped, LateKnown, [DispatchNext]_dispatchVars
  PROVE  LateKnown'
<1>1. /\ requests \in Seq(ToSet(requests)) /\ DOMAIN at = DOMAIN Start
      /\ cancelled \in BOOLEAN
  BY DEF DispatchTyped, AtTyped
<1>2. cancelled => cancelled'
  BY DEF DispatchNext, dispatchVars, AskNext, AskDeployment, NextStage, AllFailed, Accepted,
     Refused, WaitOver, WaitCancelled, Cancel, StreamEvent, StreamDone, StreamEnds, StreamBroken
<1>3. cancelled /\ at'.pc = "ask" => at'.waits = 0 \/ at' = at
  <2>1. CASE AskNext
    BY <1>1, <2>1 DEF AskNext, Start
  <2>2. CASE AskDeployment
    BY <1>1, <2>2 DEF AskDeployment, Start
  <2>3. CASE WaitOver
    BY <2>3 DEF WaitOver
  <2>4. CASE NextStage
    BY <1>1, <2>4 DEF NextStage, Start
  <2>5. CASE AllFailed
    BY <1>1, <2>5 DEF AllFailed, GiveUp, Start
  <2>6. CASE Accepted
    BY <1>1, <2>6 DEF Accepted, Start
  <2>7. ASSUME NEW cause, Refused(cause) PROVE at'.pc # "ask"
    BY <1>1, <2>7 DEF Refused, Start
  <2>8. CASE WaitCancelled
    BY <1>1, <2>8 DEF WaitCancelled, Start
  <2>9. CASE StreamDone
    BY <1>1, <2>9 DEF StreamDone, Start
  <2>10. ASSUME NEW how, StreamBroken(how) PROVE at'.pc # "ask"
    <3>1. \/ at' = [at EXCEPT !.pc = "next", !.cause = how]
          \/ at' = [at EXCEPT !.pc = "over", !.cause = how]
      BY <2>10 DEF StreamBroken
    <3> QED BY <1>1, <3>1 DEF Start
  <2>11. CASE Cancel \/ UNCHANGED dispatchVars
    BY <2>11 DEF Cancel, dispatchVars
  <2>12. ASSUME NEW type, StreamEvent(type) PROVE at' = at
    BY <2>12 DEF StreamEvent
  <2>13. ASSUME NEW how, StreamEnds(how) PROVE at'.pc # "ask"
    BY <1>1, <2>13 DEF StreamEnds, Start
  <2> QED BY <2>1, <2>2, <2>3, <2>4, <2>5, <2>6, <2>7, <2>8, <2>9, <2>10, <2>11, <2>12, <2>13
          DEF DispatchNext
<1>4. \A i, j \in DOMAIN requests : i < j /\ requests[i].late => requests[j].first
  BY DEF LateKnown, NoRetryAfterCancel
<1>5. CASE requests' = requests
  BY <1>1, <1>2, <1>3, <1>5 DEF LateKnown, NoRetryAfterCancel
<1>6. ASSUME NEW accepted \in BOOLEAN, at.pc = "ask", UNCHANGED cancelled,
             requests' = Append(requests, Request(accepted)), at'.pc # "ask"
      PROVE  LateKnown'
  <2> DEFINE r == Request(accepted)
  <2>1. r.first = (at.waits = 0) /\ r.late = cancelled
    BY DEF Request
  <2>2. \A i \in DOMAIN requests : requests[i].late => cancelled /\ at.waits = 0
    BY <1>6 DEF LateKnown
  <2> HIDE DEF r
  <2>3. /\ Len(requests) \in Nat /\ DOMAIN requests = 1 .. Len(requests)
        /\ DOMAIN requests' = 1 .. Len(requests) + 1
        /\ \A i \in 1 .. Len(requests) : requests'[i] = requests[i]
        /\ requests'[Len(requests) + 1] = r
    BY <1>1, <1>6, Appended DEF r
  <2>4. \A i \in DOMAIN requests' : requests'[i].late => cancelled'
    BY <1>6, <2>1, <2>2, <2>3
  <2>5. ASSUME NEW i \in DOMAIN requests', NEW j \in DOMAIN requests', i < j, requests'[i].late
        PROVE  requests'[j].first
    <3>1. i \in DOMAIN requests /\ requests'[i] = requests[i]
      BY <2>3, <2>5
    <3>2. CASE j \in DOMAIN requests
      BY <1>4, <2>3, <2>5, <3>1, <3>2
    <3>3. CASE j = Len(requests) + 1
      BY <2>1, <2>2, <2>3, <2>5, <3>1, <3>3
    <3> QED BY <2>3, <3>2, <3>3
  <2> QED BY <1>6, <2>4, <2>5 DEF LateKnown, NoRetryAfterCancel
<1> QED BY <1>5, <1>6, StepRequests

\* Behind a request made with a cancelled context there is no retry, by its
\* wrapper or by a later one: a wrapper that waits sees the context cancelled,
\* and the attempts the routers go on making are first requests
\* (retryProvider.Complete, retryProvider.Stream).
THEOREM CancelEndsRetries == DispatchSpec => []NoRetryAfterCancel
<1>1. DispatchInit => LateKnown
  BY DEF DispatchInit, LateKnown, NoRetryAfterCancel
<1>2. DispatchTyped /\ LateKnown /\ [DispatchNext]_dispatchVars => LateKnown'
  BY StepKnowsLate
<1>3. LateKnown => NoRetryAfterCancel
  BY DEF LateKnown
<1> QED BY <1>1, <1>2, <1>3, AnswerInductive, PTL DEF DispatchSpec

-----------------------------------------------------------------------------
(***************************************************************************)
(* The route and the deployments.                                          *)
(***************************************************************************)

\* The route was chosen for the provider that was built.
RouteChosen ==
  scene \in Scenarios /\ built = BuiltFor(scene) /\ route \in Routes(scene, built)

\* It is a list, with numbers of retries.
LEMMA RouteShape ==
  ASSUME RouteChosen
  PROVE  /\ DOMAIN route = 1 .. Len(route) /\ Len(route) \in Nat
         /\ Staged => \A i \in DOMAIN route : route[i].stage.retries \in Int
<1>1. route \in Seq(ToSet(route)) /\ (Staged => \A i \in DOMAIN route : route[i].stage.retries \in Int)
  BY RoutesAssumption DEF RouteChosen, Staged
<1> QED BY <1>1

\* A route is never changed.
LEMMA RouteInductive == DispatchSpec => []RouteChosen
<1>1. DispatchInit => RouteChosen
  BY DEF DispatchInit, RouteChosen
<1>2. RouteChosen /\ [DispatchNext]_dispatchVars => RouteChosen'
  BY RouteStays DEF InCall, RouteChosen
<1> QED BY <1>1, <1>2, PTL DEF DispatchSpec

\* The deployment asked was chosen for its stage, with an offering of its own.
Chosen(name, offering, step) ==
  /\ step \in DOMAIN route
  /\ name \in EligibleChoices(Catalog, Adapters(scene, built), route[step].target,
                              route[step].stage, scene.tools)
  /\ offering \in ResolveOffering(Catalog, Adapters(scene, built), route[step].target, name)

\* The request was made for an offering of a chosen deployment.
MadeFor(r, o) ==
  /\ Chosen(r.name, o, r.step) /\ r.model = o.native
  /\ r.tools = KeptTools(Adapters(scene, built), o, scene.tools)

ChoiceKnown ==
  Staged =>
    /\ at.pc \in {"ask", "waiting"} => Chosen(at.name, at.offering, at.step)
    /\ \A i \in DOMAIN requests : \E o : MadeFor(requests[i], o)

\* Without a deployment router the tools are those of the filter, for the
\* model the caller named.
FilterKnown ==
  ~ Staged => \A i \in DOMAIN requests :
    /\ requests[i].model = scene.model
    /\ requests[i].tools = {t \in scene.tools :
         t.client \/ \E m \in scene.listed : /\ m[1] = requests[i].name
                                             /\ m[2].id = scene.model /\ t.name \in m[2].tools}

\* A deployment is asked after it was chosen.
LEMMA StepKnowsChoice ==
  ASSUME DispatchTyped, RouteChosen, ChoiceKnown, [DispatchNext]_dispatchVars, Staged
  PROVE  ChoiceKnown'
<1>1. /\ DOMAIN at = DOMAIN Start /\ requests \in Seq(ToSet(requests)) /\ at.step \in Nat \ {0}
      /\ UNCHANGED <<scene, built, route>>
  BY RouteStays DEF DispatchTyped, AtTyped, InCall
<1>2. \A name, o, step : Chosen(name, o, step)' <=> Chosen(name, o, step)
  BY <1>1 DEF Chosen
<1>3. \A r, o : MadeFor(r, o)' <=> MadeFor(r, o)
  BY <1>1, <1>2 DEF MadeFor
<1> DEFINE Asking == at.pc \in {"ask", "waiting"}
<1>4. /\ Asking => Chosen(at.name, at.offering, at.step)
      /\ \A i \in DOMAIN requests : \E o : MadeFor(requests[i], o)
  BY DEF ChoiceKnown
<1>5. Asking' => Chosen(at'.name, at'.offering, at'.step)
  <2>1. CASE AskDeployment
    <3>1. PICK d \in ChoicesAt :
            \E o \in ResolveOffering(Catalog, Adapters(scene, built), StageAt.target, d) :
              at' = [at EXCEPT !.pc = "ask", !.tries = @ + 1, !.waits = 0, !.name = d, !.offering = o]
      BY <2>1 DEF AskDeployment
    <3>2. PICK o \in ResolveOffering(Catalog, Adapters(scene, built), StageAt.target, d) :
            at' = [at EXCEPT !.pc = "ask", !.tries = @ + 1, !.waits = 0, !.name = d, !.offering = o]
      BY <3>1
    <3>3. at'.name = d /\ at'.offering = o /\ at'.step = at.step
      BY <1>1, <3>2 DEF Start
    <3>4. at.step \in DOMAIN route
      BY <1>1, <2>1, RouteShape DEF AskDeployment
    <3> QED BY <3>1, <3>2, <3>3, <3>4 DEF Chosen, ChoicesAt, StageAt
  <2>2. CASE AskNext
    BY <2>2 DEF AskNext
  <2>3. ASSUME Asking, at'.name = at.name, at'.offering = at.offering, at'.step = at.step
        PROVE  Chosen(at'.name, at'.offering, at'.step)
    BY <1>4, <2>3
  <2>4. CASE WaitOver
    BY <1>1, <2>3, <2>4 DEF WaitOver, Start
  <2>5. ASSUME NEW cause, Refused(cause) PROVE Chosen(at'.name, at'.offering, at'.step)
    <3>1. \E place : at' = [at EXCEPT !.cause = cause, !.pc = place]
      BY <2>5 DEF Refused
    <3>2. at'.name = at.name /\ at'.offering = at.offering /\ at'.step = at.step
      BY <1>1, <3>1 DEF Start
    <3> QED BY <2>3, <2>5, <3>2 DEF Refused
  <2>6. CASE at' = at
    BY <2>3, <2>6
  <2>7. CASE NextStage \/ AllFailed
    <3>1. CASE NextStage
      BY <1>1, <3>1 DEF NextStage, Start
    <3>2. CASE AllFailed
      BY <1>1, <3>2 DEF AllFailed, GiveUp, Start
    <3> QED BY <2>7, <3>1, <3>2
  <2>8. CASE Accepted
    BY <1>1, <2>8 DEF Accepted, Start
  <2>9. CASE WaitCancelled
    BY <1>1, <2>9 DEF WaitCancelled, Start
  <2>10. CASE StreamDone
    BY <1>1, <2>10 DEF StreamDone, Start
  <2>11. ASSUME NEW how, StreamBroken(how) PROVE ~ Asking'
    <3>1. \/ at' = [at EXCEPT !.pc = "next", !.cause = how]
          \/ at' = [at EXCEPT !.pc = "over", !.cause = how]
      BY <2>11 DEF StreamBroken
    <3> QED BY <1>1, <3>1 DEF Start
  <2>12. ASSUME NEW how, StreamEnds(how) PROVE ~ Asking'
    BY <1>1, <2>12 DEF StreamEnds, Start
  <2> QED BY <2>1, <2>2, <2>4, <2>5, <2>6, <2>7, <2>8, <2>9, <2>10, <2>11, <2>12
          DEF DispatchNext, dispatchVars, Cancel, StreamEvent
<1>6. ASSUME NEW accepted \in BOOLEAN, at.pc = "ask",
             requests' = Append(requests, Request(accepted)), NEW i \in DOMAIN requests'
      PROVE  \E o : MadeFor(requests'[i], o)
  <2> DEFINE r == Request(accepted)
  <2>1. MadeFor(r, at.offering)
    <3>1. /\ r.name = at.name /\ r.step = at.step /\ r.model = at.offering.native
          /\ r.tools = KeptTools(Adapters(scene, built), at.offering, scene.tools)
      BY DEF Request, ToolsSent
    <3> QED BY <1>4, <1>6, <3>1 DEF MadeFor
  <2> HIDE DEF r
  <2>2. /\ DOMAIN requests = 1 .. Len(requests) /\ Len(requests) \in Nat
        /\ DOMAIN requests' = 1 .. Len(requests) + 1
        /\ \A j \in 1 .. Len(requests) : requests'[j] = requests[j]
        /\ requests'[Len(requests) + 1] = r
    BY <1>1, <1>6, Appended DEF r
  <2>3. CASE i \in DOMAIN requests
    BY <1>4, <2>2, <2>3
  <2>4. CASE i = Len(requests) + 1
    BY <2>1, <2>2, <2>4
  <2> QED BY <2>2, <2>3, <2>4
<1>7. \A i \in DOMAIN requests' : \E o : MadeFor(requests'[i], o)
  BY <1>4, <1>6, StepRequests
<1>8. (Asking => Chosen(at.name, at.offering, at.step))'
  BY <1>1, <1>5 DEF Chosen
<1>9. (\A i \in DOMAIN requests : \E o : MadeFor(requests[i], o))'
  BY <1>1, <1>7 DEF MadeFor, Chosen
<1> QED BY <1>8, <1>9 DEF ChoiceKnown

\* The filter sees every request.
LEMMA StepKnowsFilter ==
  ASSUME DispatchTyped, FilterKnown, [DispatchNext]_dispatchVars
  PROVE  FilterKnown'
<1>1. requests \in Seq(ToSet(requests)) /\ UNCHANGED <<scene, built, route>> /\ Staged' = Staged
  BY RouteStays DEF DispatchTyped, InCall, Staged
<1> SUFFICES ASSUME ~ Staged, NEW i \in DOMAIN requests'
             PROVE  /\ requests'[i].model = scene.model
                    /\ requests'[i].tools = {t \in scene.tools :
                         t.client \/ \E m \in scene.listed : /\ m[1] = requests'[i].name
                                       /\ m[2].id = scene.model /\ t.name \in m[2].tools}
  BY <1>1 DEF FilterKnown
<1>2. CASE requests' = requests
  BY <1>2 DEF FilterKnown
<1>3. ASSUME NEW accepted \in BOOLEAN, requests' = Append(requests, Request(accepted))
      PROVE  /\ requests'[i].model = scene.model
             /\ requests'[i].tools = {t \in scene.tools :
                  t.client \/ \E m \in scene.listed : /\ m[1] = requests'[i].name
                                /\ m[2].id = scene.model /\ t.name \in m[2].tools}
  <2> DEFINE r == Request(accepted)
  <2>1. /\ r.model = scene.model
        /\ r.tools = {t \in scene.tools :
             t.client \/ \E m \in scene.listed : /\ m[1] = r.name
                           /\ m[2].id = scene.model /\ t.name \in m[2].tools}
    BY DEF Request, ToolsSent
  <2> HIDE DEF r
  <2>2. /\ DOMAIN requests = 1 .. Len(requests) /\ Len(requests) \in Nat
        /\ DOMAIN requests' = 1 .. Len(requests) + 1
        /\ \A j \in 1 .. Len(requests) : requests'[j] = requests[j]
        /\ requests'[Len(requests) + 1] = r
    BY <1>1, <1>3, Appended DEF r
  <2>3. CASE i \in DOMAIN requests
    BY <2>2, <2>3 DEF FilterKnown
  <2>4. CASE i = Len(requests) + 1
    BY <2>1, <2>2, <2>4
  <2> QED BY <2>2, <2>3, <2>4
<1> QED BY <1>2, <1>3, StepRequests

\* A set of tools that is supported is kept whole.
LEMMA SupportedKept ==
  ASSUME NEW ads, NEW o, NEW tools, ServerTools(tools) \subseteq SupportedTools(ads, o)
  PROVE  KeptTools(ads, o, tools) = tools
BY DEF KeptTools, ServerTools

\* A deployment that supports all the server tools of a request.
SupportsAll(ads, target, tools, d) ==
  \A p \in ResolveOffering(Catalog, ads, target, d) :
    ServerTools(tools) \subseteq SupportedTools(ads, p)

\* What a chosen deployment is sent of the tools the caller wanted.
LEMMA ToolsOfChoice ==
  ASSUME NEW ads, NEW target, NEW stage, NEW tools,
         NEW name \in EligibleChoices(Catalog, ads, target, stage, tools),
         NEW o \in ResolveOffering(Catalog, ads, target, name)
  PROVE  LET kept == KeptTools(ads, o, tools) IN
         /\ {t \in tools : t.client} \subseteq kept
         /\ \A t \in kept : t.client \/ t.name \in SupportedTools(ads, o)
         /\ (kept # tools) =>
              \A c \in Range(stage.choices) :
                c.weight > 0 /\ ResolveOffering(Catalog, ads, target, c.deployment) # {}
                  => ~ SupportsAll(ads, target, tools, c.deployment)
         /\ SupportsAll(ads, target, tools, name) => kept = tools
<1> DEFINE required == ServerTools(tools)
           able == {d \in {c.deployment : c \in {e \in Range(stage.choices) : e.weight > 0}} :
                      ResolveOffering(Catalog, ads, target, d) # {}}
           capable == {d \in able : \A p \in ResolveOffering(Catalog, ads, target, d) :
                                      required \subseteq SupportedTools(ads, p)}
<1>1. name \in IF required # {} /\ capable # {} THEN capable ELSE able
  BY DEF EligibleChoices
<1>2. /\ {t \in tools : t.client} \subseteq KeptTools(ads, o, tools)
      /\ \A t \in KeptTools(ads, o, tools) : t.client \/ t.name \in SupportedTools(ads, o)
  BY DEF KeptTools
<1>3. SupportsAll(ads, target, tools, name) => KeptTools(ads, o, tools) = tools
  BY SupportedKept DEF SupportsAll
<1>4. ASSUME NEW c \in Range(stage.choices), c.weight > 0,
             ResolveOffering(Catalog, ads, target, c.deployment) # {}, SupportsAll(ads, target, tools, c.deployment)
      PROVE  KeptTools(ads, o, tools) = tools
  <2>1. c.deployment \in capable
    BY <1>4 DEF SupportsAll
  <2>2. required = {} \/ name \in capable
    BY <1>1, <2>1
  <2>3. required \subseteq SupportedTools(ads, o)
    BY <2>2
  <2> QED BY <2>3, SupportedKept
<1> QED BY <1>2, <1>3, <1>4

\* Server tools are sent only where they are known to work with the model
\* asked for, client tools always, and behind a deployment router a tool is
\* dropped only at a stage without a deployment that supports them all
\* (filterToolsForOffering, filterTools, eligibleChoices).
THEOREM ToolsAreHonoured == DispatchSpec => []ToolsHonoured
<1>1. DispatchInit => ChoiceKnown /\ FilterKnown
  <2> SUFFICES ASSUME DispatchInit PROVE ChoiceKnown /\ FilterKnown
    OBVIOUS
  <2>1. at = Start /\ requests = <<>>
    BY DEF DispatchInit
  <2>2. at.pc = "next"
    BY <2>1 DEF Start
  <2> QED BY <2>1, <2>2 DEF ChoiceKnown, FilterKnown
<1>2. DispatchTyped /\ RouteChosen /\ ChoiceKnown /\ FilterKnown /\ [DispatchNext]_dispatchVars
        => ChoiceKnown' /\ FilterKnown'
  BY StepKnowsChoice, StepKnowsFilter, RouteStays DEF InCall, Staged, ChoiceKnown
<1>3. ChoiceKnown /\ FilterKnown => ToolsHonoured
  <2> SUFFICES ASSUME ChoiceKnown, FilterKnown PROVE ToolsHonoured
    OBVIOUS
  <2> DEFINE ads == Adapters(scene, built)
  <2>1. ASSUME ~ Staged, NEW i \in DOMAIN requests
        PROVE  /\ {t \in scene.tools : t.client} \subseteq requests[i].tools
               /\ \A t \in requests[i].tools : t.client \/ KnownToWork(t.name, requests[i])
    <3>1. /\ requests[i].model = scene.model
          /\ requests[i].tools = {t \in scene.tools :
               t.client \/ \E m \in scene.listed : /\ m[1] = requests[i].name
                             /\ m[2].id = scene.model /\ t.name \in m[2].tools}
      BY <2>1 DEF FilterKnown
    <3> QED BY <2>1, <3>1 DEF KnownToWork
  <2>2. ASSUME Staged, NEW i \in DOMAIN requests
        PROVE  LET r == requests[i]
                   target == route[r.step].target
                   stage == route[r.step].stage
               IN /\ {t \in scene.tools : t.client} \subseteq r.tools
                  /\ \A t \in r.tools : t.client \/ KnownToWork(t.name, r)
                  /\ (r.tools # scene.tools) =>
                       \A c \in Range(stage.choices) :
                         c.weight > 0 /\ ResolveOffering(Catalog, ads, target, c.deployment) # {}
                           => ~ SupportsAll(ads, target, scene.tools, c.deployment)
                  /\ SupportsAll(ads, target, scene.tools, r.name) => r.tools = scene.tools
    <3> DEFINE r == requests[i]
               target == route[r.step].target
               stage == route[r.step].stage
    <3>1. PICK o : MadeFor(r, o)
      BY <2>2 DEF ChoiceKnown
    <3>2. /\ r.name \in EligibleChoices(Catalog, ads, target, stage, scene.tools)
          /\ o \in ResolveOffering(Catalog, ads, target, r.name)
          /\ r.model = o.native /\ r.tools = KeptTools(ads, o, scene.tools)
      BY <3>1 DEF MadeFor, Chosen
    <3>3. \A tool : tool \in SupportedTools(ads, o) => KnownToWork(tool, r)
      BY <2>2, <3>2 DEF KnownToWork
    <3> HIDE DEF r, ads, target, stage
    <3> DEFINE kept == KeptTools(ads, o, scene.tools)
    <3>4. /\ {t \in scene.tools : t.client} \subseteq kept
          /\ \A t \in kept : t.client \/ t.name \in SupportedTools(ads, o)
          /\ (kept # scene.tools) =>
               \A c \in Range(stage.choices) :
                 c.weight > 0 /\ ResolveOffering(Catalog, ads, target, c.deployment) # {}
                   => ~ SupportsAll(ads, target, scene.tools, c.deployment)
          /\ SupportsAll(ads, target, scene.tools, r.name) => kept = scene.tools
      <4> DEFINE name == r.name
                 tools == scene.tools
      <4>1. /\ name \in EligibleChoices(Catalog, ads, target, stage, tools)
            /\ o \in ResolveOffering(Catalog, ads, target, name)
        BY <3>2
      <4> HIDE DEF name, tools
      <4>2. LET sent == KeptTools(ads, o, tools) IN
            /\ {t \in tools : t.client} \subseteq sent
            /\ \A t \in sent : t.client \/ t.name \in SupportedTools(ads, o)
            /\ (sent # tools) =>
                 \A c \in Range(stage.choices) :
                   c.weight > 0 /\ ResolveOffering(Catalog, ads, target, c.deployment) # {}
                     => ~ SupportsAll(ads, target, tools, c.deployment)
            /\ SupportsAll(ads, target, tools, name) => sent = tools
        BY <4>1, ToolsOfChoice
      <4> QED BY <4>2 DEF name, tools
    <3>5. r.tools = kept
      BY <3>2
    <3> HIDE DEF kept
    <3> QED BY <3>3, <3>4, <3>5 DEF r, ads, target, stage
  <2> QED BY <2>1, <2>2 DEF ToolsHonoured, SupportsAll
<1> QED BY <1>1, <1>2, <1>3, AnswerInductive, RouteInductive, PTL DEF DispatchSpec

-----------------------------------------------------------------------------
(***************************************************************************)
(* The native names.                                                       *)
(***************************************************************************)
\* What resolving a name can give: a model of the catalog, a deployment's own
\* name under a canonical one, or the name as it is.
LEMMA TargetForms ==
  ASSUME NEW cat, NEW ads, NEW name, NEW t, t \in ResolveTarget(cat, ads, name), t # NoTarget
  PROVE  \/ \E c : t = Target(c, <<>>, Anywhere)
         \/ \E d \in DOMAIN ads : \E n \in {name, SyntheticNative(cat, d, name)} :
              t = Target(SyntheticCanonical(cat, d, n), n, d)
         \/ t = Target(name, name, Anywhere)
<1> DEFINE known == CanonicalNamed(cat, name)
           native == NativelyNamed(cat, ads, name)
           found == Discovered(cat, ads, name)
           Named(set) == {Target(c, <<>>, Anywhere) : c \in set}
           At(d, n) == Target(SyntheticCanonical(cat, d, n), n, d)
           Here == {At(d, name) : d \in found}
           Only == {At(d, SyntheticNative(cat, d, name)) : d \in DOMAIN ads}
<1> HIDE DEF known, native, found, Here, Only, Named
<1>1. ResolveTarget(cat, ads, name)
        \in {{NoTarget}, Named(known), Named(native), Here, Only, {Target(name, name, Anywhere)}}
  BY DEF ResolveTarget, known, native, found, Here, Only, Named
<1>2. found \subseteq DOMAIN ads
  BY DEF found, Discovered
<1>3. t \in Here => \E d \in DOMAIN ads : t = At(d, name)
  BY <1>2 DEF Here
<1>4. t \in Only => \E d \in DOMAIN ads : t = At(d, SyntheticNative(cat, d, name))
  BY DEF Only
<1>5. t \in Named(known) \/ t \in Named(native) => \E c : t = Target(c, <<>>, Anywhere)
  BY DEF Named
<1>6. \/ t \in Here \/ t \in Only \/ t \in Named(known) \/ t \in Named(native)
      \/ t = Target(name, name, Anywhere)
  BY <1>1
<1> QED BY <1>3, <1>4, <1>5, <1>6

\* OpenRouter asks for the canonical name of a model that is not its own: the
\* name a target brings along is that name, or comes from another deployment.
LEMMA HintIsCanonical ==
  ASSUME NEW cat, NEW ads, NEW name, name \in Seq(STRING), Anywhere \notin DOMAIN ads,
         NEW t, t \in ResolveTarget(cat, ads, name), t # NoTarget,
         t.only \in {Anywhere, "openrouter"}, t.canonical[1] # "openrouter"
  PROVE  t.hint \in {<<>>, t.canonical}
<1> DEFINE At(d, n) == Target(SyntheticCanonical(cat, d, n), n, d)
<1>1. \/ \E c : t = Target(c, <<>>, Anywhere)
      \/ \E d \in DOMAIN ads : t = At(d, name) \/ t = At(d, SyntheticNative(cat, d, name))
      \/ t = Target(name, name, Anywhere)
  BY TargetForms
<1>2. \A c, h, o : LET u == Target(c, h, o) IN u.canonical = c /\ u.hint = h /\ u.only = o
  BY DEF Target
<1>3. ASSUME NEW d \in DOMAIN ads, NEW n, n \in Seq(STRING), t = At(d, n)
      PROVE  t.hint = t.canonical
  <2>1. t.canonical = SyntheticCanonical(cat, d, n) /\ t.hint = n /\ t.only = d
    BY <1>2, <1>3
  <2>2. d = "openrouter"
    BY <2>1
  <2>3. (<<"openrouter">> \o n)[1] = "openrouter"
    BY <1>3
  <2> QED BY <2>1, <2>2, <2>3 DEF SyntheticCanonical
<1>4. \A d : SyntheticNative(cat, d, name) \in Seq(STRING)
  <2>1. Qualified(name) => name # <<>>
    BY DEF Qualified
  <2>2. name # <<>> => Tail(name) \in Seq(STRING)
    OBVIOUS
  <2> QED BY <2>1, <2>2 DEF SyntheticNative, StripPrefix
<1> HIDE DEF At
<1> QED BY <1>1, <1>2, <1>3, <1>4

\* What an adapter maps a model to, and what its provider lists of it.
Mapped(ads, t, d) == {m[2] : m \in {n \in ads[d].mappings : n[1] = t.canonical}}
Found(cat, ads, t, d) ==
  {o \in DiscoveredOfferings(cat, ads, d, t.canonical, t.hint) : o.model = t.canonical}
Templated(cat, ads, t, d) ==
  {Offering(u.model, d, n, u.tools) :
     u \in OfferedAt(cat.templates, t.canonical, d), n \in Mapped(ads, t, d)}

\* A model the catalog has an offering of.
LEMMA ResolvedByOffering ==
  ASSUME NEW cat, NEW ads, NEW t, NEW d, d \in DOMAIN ads,
         OfferedAt(cat.offerings, t.canonical, d) # {}
  PROVE  ResolveOffering(cat, ads, t, d) = OfferedAt(cat.offerings, t.canonical, d)
BY DEF ResolveOffering

\* A model the catalog has no offering of, but a template.
LEMMA ResolvedByTemplate ==
  ASSUME NEW cat, NEW ads, NEW t, NEW d, d \in DOMAIN ads,
         OfferedAt(cat.offerings, t.canonical, d) = {}, OfferedAt(cat.templates, t.canonical, d) # {}
  PROVE  ResolveOffering(cat, ads, t, d) = Templated(cat, ads, t, d)
BY DEF ResolveOffering, Templated, Mapped

\* Where a resolved offering comes from.
LEMMA Resolved ==
  ASSUME NEW cat, NEW ads, NEW t, NEW d, NEW o, o \in ResolveOffering(cat, ads, t, d)
  PROVE  /\ d \in DOMAIN ads
         /\ \/ o \in OfferedAt(cat.offerings, t.canonical, d)
            \/ o \in Templated(cat, ads, t, d)
            \/ /\ OfferedAt(cat.offerings, t.canonical, d) = {}
               /\ OfferedAt(cat.templates, t.canonical, d) = {}
               /\ Found(cat, ads, t, d) # {} => o \in Found(cat, ads, t, d)
<1> DEFINE all == ResolveOffering(cat, ads, t, d)
           offerings == OfferedAt(cat.offerings, t.canonical, d)
           templates == OfferedAt(cat.templates, t.canonical, d)
<1>1. d \notin DOMAIN ads => all = {}
  BY DEF ResolveOffering
<1>2. d \in DOMAIN ads /\ offerings # {} => all = offerings
  BY ResolvedByOffering
<1>3. d \in DOMAIN ads /\ offerings = {} /\ templates # {} => all = Templated(cat, ads, t, d)
  BY ResolvedByTemplate
<1>4. d \in DOMAIN ads /\ offerings = {} /\ templates = {} /\ Found(cat, ads, t, d) # {}
        => all = Found(cat, ads, t, d)
  BY DEF ResolveOffering, Found
<1> HIDE DEF all, offerings, templates
<1>5. o \in all
  BY DEF all
<1>6. d \in DOMAIN ads /\ (\/ o \in offerings \/ o \in Templated(cat, ads, t, d)
                         \/ /\ offerings = {} /\ templates = {}
                            /\ Found(cat, ads, t, d) # {} => o \in Found(cat, ads, t, d))
  BY <1>1, <1>2, <1>3, <1>4, <1>5
<1> QED BY <1>6 DEF offerings, templates

\* The parts of an offering.
LEMMA OfferingParts ==
  ASSUME NEW m, NEW d, NEW n, NEW tools
  PROVE  LET o == Offering(m, d, n, tools) IN o.model = m /\ o.deployment = d /\ o.native = n
BY DEF Offering

\* Everything a deployment's provider lists, under canonical names.
LEMMA DiscoveredAll ==
  ASSUME NEW cat, NEW ads, NEW d
  PROVE  DiscoveredOfferings(cat, ads, d, <<>>, <<>>) =
           IF cat.deployments[d].native # "discovered" THEN {}
           ELSE {Offering(SyntheticCanonical(cat, d, m.id), d, m.id, m.tools) : m \in ads[d].models}
<1>1. ~ Qualified(<<>>)
  BY DEF Qualified
<1> QED BY <1>1 DEF DiscoveredOfferings

\* What an adapter maps a template's model to.
ByTemplate(ads, u) ==
  {Offering(u.model, u.deployment, m[2], u.tools) :
     m \in {n \in ads[u.deployment].mappings : n[1] = u.model}}

\* What is listed, in three parts.
LEMMA ListedParts ==
  ASSUME NEW cat, NEW ads, NEW p
  PROVE  p \in ListedOfferings(cat, ads) <=>
           \/ p \in cat.offerings /\ p.deployment \in DOMAIN ads
           \/ \E u \in cat.templates : u.deployment \in DOMAIN ads /\ p \in ByTemplate(ads, u)
           \/ \E e \in DOMAIN ads : p \in DiscoveredOfferings(cat, ads, e, <<>>, <<>>)
<1> DEFINE Offered == {o \in cat.offerings : o.deployment \in DOMAIN ads}
           Templates == {w \in cat.templates : w.deployment \in DOMAIN ads}
           Here(e) == DiscoveredOfferings(cat, ads, e, <<>>, <<>>)
           Made == UNION {ByTemplate(ads, v) : v \in Templates}
           Everywhere == UNION {Here(e) : e \in DOMAIN ads}
<1>1. ListedOfferings(cat, ads) = Offered \cup Made \cup Everywhere
  BY DEF ListedOfferings, ByTemplate
<1>2. p \in Everywhere <=> \E e \in DOMAIN ads : p \in Here(e)
  <2> HIDE DEF Here
  <2> QED OBVIOUS
<1>3. p \in Made <=> \E u \in Templates : p \in ByTemplate(ads, u)
  <2> HIDE DEF Templates
  <2> QED OBVIOUS
<1>4. p \in Offered <=> p \in cat.offerings /\ p.deployment \in DOMAIN ads
  OBVIOUS
<1>5. \A u : u \in Templates <=> u \in cat.templates /\ u.deployment \in DOMAIN ads
  OBVIOUS
<1> HIDE DEF Offered, Templates, Here, Made, Everywhere
<1>6. p \in ListedOfferings(cat, ads) <=> p \in Offered \/ p \in Made \/ p \in Everywhere
  BY <1>1
<1>7. p \in Everywhere <=> \E e \in DOMAIN ads : p \in DiscoveredOfferings(cat, ads, e, <<>>, <<>>)
  BY <1>2 DEF Here
<1>8. p \in Made <=>
        \E u \in cat.templates : u.deployment \in DOMAIN ads /\ p \in ByTemplate(ads, u)
  BY <1>3, <1>5
<1> QED BY <1>4, <1>6, <1>7, <1>8

\* What is listed for a model comes from the catalog, a template or the
\* provider.
LEMMA Listed ==
  ASSUME NEW cat, NEW ads, NEW p, p \in ListedOfferings(cat, ads), NEW d, p.deployment = d
  PROVE  \/ p \in OfferedAt(cat.offerings, p.model, d)
         \/ OfferedAt(cat.templates, p.model, d) # {}
         \/ /\ cat.deployments[d].native = "discovered"
            /\ \E m \in ads[d].models :
                 p.model = SyntheticCanonical(cat, d, m.id) /\ p.native = m.id
<1>1. CASE p \in cat.offerings
  BY <1>1 DEF OfferedAt
<1>2. CASE \E e \in DOMAIN ads : p \in DiscoveredOfferings(cat, ads, e, <<>>, <<>>)
  <2>1. PICK e \in DOMAIN ads : p \in DiscoveredOfferings(cat, ads, e, <<>>, <<>>)
    BY <1>2
  <2>2. /\ cat.deployments[e].native = "discovered"
        /\ \E m \in ads[e].models : p = Offering(SyntheticCanonical(cat, e, m.id), e, m.id, m.tools)
    BY <2>1, DiscoveredAll
  <2>3. PICK m \in ads[e].models : p = Offering(SyntheticCanonical(cat, e, m.id), e, m.id, m.tools)
    BY <2>2
  <2>4. p.deployment = e /\ p.model = SyntheticCanonical(cat, e, m.id) /\ p.native = m.id
    BY <2>3, OfferingParts
  <2> QED BY <2>2, <2>4
<1>3. CASE \E u \in cat.templates : \E n : p = Offering(u.model, u.deployment, n, u.tools)
  <2>1. PICK u \in cat.templates : \E n : p = Offering(u.model, u.deployment, n, u.tools)
    BY <1>3
  <2>2. p.model = u.model /\ p.deployment = u.deployment
    BY <2>1, OfferingParts
  <2> QED BY <2>1, <2>2 DEF OfferedAt
<1>4. \/ p \in cat.offerings
      \/ \E u \in cat.templates : \E n : p = Offering(u.model, u.deployment, n, u.tools)
      \/ \E e \in DOMAIN ads : p \in DiscoveredOfferings(cat, ads, e, <<>>, <<>>)
  <2>1. \A u : p \in ByTemplate(ads, u) => \E n : p = Offering(u.model, u.deployment, n, u.tools)
    BY DEF ByTemplate
  <2> QED BY <2>1, ListedParts
<1> QED BY <1>1, <1>2, <1>3, <1>4

\* What the catalog has, a template with its mapping, or a provider is listed.
LEMMA IsListed ==
  ASSUME NEW cat, NEW ads, NEW t, NEW d \in DOMAIN ads
  PROVE  /\ \A o \in OfferedAt(cat.offerings, t.canonical, d) : o \in ListedOfferings(cat, ads)
         /\ \A o \in Templated(cat, ads, t, d) : o \in ListedOfferings(cat, ads)
         /\ DiscoveredOfferings(cat, ads, d, <<>>, <<>>) \subseteq ListedOfferings(cat, ads)
<1>1. \A o \in OfferedAt(cat.offerings, t.canonical, d) : o \in ListedOfferings(cat, ads)
  BY ListedParts DEF OfferedAt
<1>2. ASSUME NEW u \in OfferedAt(cat.templates, t.canonical, d), NEW n \in Mapped(ads, t, d)
      PROVE  Offering(u.model, d, n, u.tools) \in ListedOfferings(cat, ads)
  <2>1. u \in cat.templates /\ u.deployment = d /\ u.model = t.canonical
    BY <1>2 DEF OfferedAt
  <2>2. PICK m \in ads[d].mappings : m[1] = t.canonical /\ n = m[2]
    BY <1>2 DEF Mapped
  <2>3. m \in {x \in ads[u.deployment].mappings : x[1] = u.model}
    BY <2>1, <2>2
  <2>4. Offering(u.model, u.deployment, m[2], u.tools) \in ByTemplate(ads, u)
    BY <2>3 DEF ByTemplate
  <2>5. Offering(u.model, d, n, u.tools) \in ByTemplate(ads, u)
    BY <2>1, <2>2, <2>4
  <2> QED BY <2>1, <2>5, ListedParts
<1>3. DiscoveredOfferings(cat, ads, d, <<>>, <<>>) \subseteq ListedOfferings(cat, ads)
  BY ListedParts
<1>4. ASSUME NEW o \in Templated(cat, ads, t, d) PROVE o \in ListedOfferings(cat, ads)
  <2>1. PICK u \in OfferedAt(cat.templates, t.canonical, d), n \in Mapped(ads, t, d) :
          o = Offering(u.model, d, n, u.tools)
    BY <1>4 DEF Templated
  <2> QED BY <1>2, <2>1
<1> QED BY <1>1, <1>3, <1>4

\* A deployment that lists offerings of the target's model is asked for one of
\* them by its native name.
LEMMA NativeListed ==
  ASSUME NEW cat, NEW ads, NEW name, name \in Seq(STRING), Anywhere \notin DOMAIN ads,
         \A e \in DOMAIN ads : \A m \in ads[e].models : m.id \in Seq(STRING),
         NEW t, t \in ResolveTarget(cat, ads, name), t # NoTarget,
         NEW d, NEW o, o \in ResolveOffering(cat, ads, t, d),
         NEW p, p \in ListedOfferings(cat, ads), p.deployment = d, p.model = t.canonical,
         ~ (d = "openrouter" /\ (t.canonical[1] = "openrouter" \/ t.only \notin {Anywhere, "openrouter"}))
  PROVE  \E q \in ListedOfferings(cat, ads) :
           q.deployment = d /\ q.model = t.canonical /\ q.native = o.native
<1>1. d \in DOMAIN ads
  BY Resolved
<1>2. CASE o \in OfferedAt(cat.offerings, t.canonical, d)
  <2>1. o.deployment = d /\ o.model = t.canonical
    BY <1>2 DEF OfferedAt
  <2> QED BY <1>1, <1>2, <2>1, IsListed
<1>3. CASE o \in Templated(cat, ads, t, d)
  <2>1. PICK u \in OfferedAt(cat.templates, t.canonical, d), n \in Mapped(ads, t, d) :
          o = Offering(u.model, d, n, u.tools)
    BY <1>3 DEF Templated
  <2>2. u.model = t.canonical
    BY DEF OfferedAt
  <2>3. o.deployment = d /\ o.model = t.canonical
    BY <2>1, <2>2, OfferingParts
  <2> QED BY <1>1, <1>3, <2>3, IsListed
<1>4. CASE /\ OfferedAt(cat.offerings, t.canonical, d) = {}
           /\ OfferedAt(cat.templates, t.canonical, d) = {}
           /\ Found(cat, ads, t, d) # {} => o \in Found(cat, ads, t, d)
  <2>1. cat.deployments[d].native = "discovered"
    BY <1>4, Listed
  <2>2. PICK m \in ads[d].models : t.canonical = SyntheticCanonical(cat, d, m.id) /\ p.native = m.id
    BY <1>4, Listed
  <2> DEFINE discovered == DiscoveredOfferings(cat, ads, d, t.canonical, t.hint)
  <2>3. CASE d = "openrouter" /\ Qualified(t.canonical)
    <3>1. t.hint \in {<<>>, t.canonical} /\ t.canonical[1] # "openrouter"
      BY <2>3, HintIsCanonical
    <3>2. discovered = {Offering(t.canonical, d, IF t.hint = <<>> \/ t.canonical[1] = d
                                                 THEN StripPrefix(t.canonical, d) ELSE t.hint, {})}
      BY <2>1, <2>3 DEF DiscoveredOfferings
    <3>3. StripPrefix(t.canonical, d) = t.canonical
      BY <2>3, <3>1 DEF StripPrefix
    <3>4. discovered = {Offering(t.canonical, d, t.canonical, {})}
      BY <3>1, <3>2, <3>3
    <3>5. Offering(t.canonical, d, t.canonical, {}) \in Found(cat, ads, t, d)
      BY <3>4, OfferingParts DEF Found
    <3>6. o.native = t.canonical
      BY <1>4, <3>4, <3>5, OfferingParts DEF Found
    <3>7. m.id = t.canonical
      <4>1. m.id \in Seq(STRING)
        BY <1>1
      <4>2. (<<"openrouter">> \o m.id)[1] = "openrouter"
        BY <4>1
      <4> QED BY <2>2, <2>3, <3>1, <4>2 DEF SyntheticCanonical
    <3> QED BY <2>2, <3>6, <3>7
  <2>4. CASE ~ (d = "openrouter" /\ Qualified(t.canonical))
    <3>1. discovered =
            {Offering(SyntheticCanonical(cat, d, x.id), d, x.id, x.tools) :
               x \in {n \in ads[d].models :
                        \/ t.canonical = <<>> \/ d = "openrouter"
                        \/ t.canonical \in {n.id, SyntheticCanonical(cat, d, n.id)}}}
      BY <2>1, <2>4 DEF DiscoveredOfferings
    <3>2. Offering(t.canonical, d, m.id, m.tools) \in discovered
      BY <2>2, <3>1
    <3>3. Found(cat, ads, t, d) # {}
      BY <3>2, OfferingParts DEF Found
    <3>4. o \in discovered /\ o.model = t.canonical
      BY <1>4, <3>3 DEF Found
    <3>5. PICK x \in ads[d].models : o = Offering(SyntheticCanonical(cat, d, x.id), d, x.id, x.tools)
      BY <3>1, <3>4
    <3>6. o.deployment = d
      BY <3>5, OfferingParts
    <3>7. o \in DiscoveredOfferings(cat, ads, d, <<>>, <<>>)
      BY <2>1, <3>5, DiscoveredAll
    <3>8. o \in ListedOfferings(cat, ads)
      BY <1>1, <3>7, IsListed
    <3> QED BY <3>4, <3>6, <3>8
  <2> QED BY <2>3, <2>4
<1> QED BY <1>2, <1>3, <1>4, Resolved

\* The target of a stage is what the name of the call means.
LEMMA TargetResolved ==
  ASSUME RouteChosen, Staged, NEW step \in DOMAIN route
  PROVE  /\ route[step].target \in ResolveTarget(Catalog, Adapters(scene, built), scene.model)
         /\ route[step].target # NoTarget
<1>1. PICK t \in ResolveTarget(Catalog, Adapters(scene, built), scene.model) :
        route \in IF t = NoTarget THEN {<<>>}
                  ELSE {[i \in DOMAIN r |-> [target |-> t, stage |-> r[i]]] :
                          r \in RouteFor(Catalog, built, t.canonical)}
  BY DEF RouteChosen, Staged, Routes
<1>2. t # NoTarget
  BY <1>1
<1>3. PICK r : route = [i \in DOMAIN r |-> [target |-> t, stage |-> r[i]]]
  BY <1>1, <1>2
<1>4. route[step].target = t
  BY <1>3
<1> QED BY <1>1, <1>2, <1>4

\* What the adapters know is what their providers list, under lists as names.
LEMMA AdaptersNamed ==
  ASSUME RouteChosen, Staged
  PROVE  LET ads == Adapters(scene, built) IN
         /\ scene.model \in Seq(STRING) /\ Anywhere \notin DOMAIN ads
         /\ \A d \in DOMAIN ads : \A m \in ads[d].models : m.id \in Seq(STRING)
BY NamesAssumption DEF RouteChosen, Staged, Adapters

\* Every deployment is asked by a native name it lists the model under, except
\* OpenRouter for its own models and for a name found elsewhere
\* (resolveModelTarget, resolveOffering and discoveredOfferings against
\* Models).
THEOREM NativeNamesAsked == DispatchSpec => []AskedByNativeName
<1>1. DispatchInit => ChoiceKnown
  <2> SUFFICES ASSUME DispatchInit PROVE ChoiceKnown
    OBVIOUS
  <2>1. at = Start /\ requests = <<>>
    BY DEF DispatchInit
  <2>2. at.pc = "next"
    BY <2>1 DEF Start
  <2> QED BY <2>1, <2>2 DEF ChoiceKnown
<1>2. DispatchTyped /\ RouteChosen /\ ChoiceKnown /\ [DispatchNext]_dispatchVars => ChoiceKnown'
  BY StepKnowsChoice, RouteStays DEF InCall, Staged, ChoiceKnown
<1>3. RouteChosen /\ ChoiceKnown => AskedByNativeName
  <2> SUFFICES ASSUME RouteChosen, ChoiceKnown, Staged, NEW i \in DOMAIN requests,
                      NamesListed(requests[i]) # {},
                      LET target == route[requests[i].step].target IN
                        ~ (requests[i].name = "openrouter"
                             /\ (target.canonical[1] = "openrouter"
                                   \/ target.only \notin {Anywhere, "openrouter"}))
               PROVE  requests[i].model \in NamesListed(requests[i])
    BY DEF AskedByNativeName
  <2> DEFINE r == requests[i]
             ads == Adapters(scene, built)
             t == route[r.step].target
  <2>1. PICK o : MadeFor(r, o)
    BY DEF ChoiceKnown
  <2>2. r.step \in DOMAIN route /\ o \in ResolveOffering(Catalog, ads, t, r.name) /\ r.model = o.native
    BY <2>1 DEF MadeFor, Chosen
  <2>3. t \in ResolveTarget(Catalog, ads, scene.model) /\ t # NoTarget
    BY <2>2, TargetResolved
  <2>4. /\ scene.model \in Seq(STRING) /\ Anywhere \notin DOMAIN ads
        /\ \A d \in DOMAIN ads : \A m \in ads[d].models : m.id \in Seq(STRING)
    BY AdaptersNamed
  <2>5. PICK p \in ListedOfferings(Catalog, ads) : p.deployment = r.name /\ p.model = t.canonical
    BY DEF NamesListed
  <2>6. ~ (r.name = "openrouter" /\ (t.canonical[1] = "openrouter"
                                       \/ t.only \notin {Anywhere, "openrouter"}))
    OBVIOUS
  <2>7. NamesListed(r) = {q.native : q \in {x \in ListedOfferings(Catalog, ads) :
                                              x.deployment = r.name /\ x.model = t.canonical}}
    BY DEF NamesListed
  <2> HIDE DEF r, ads, t
  <2>8. \E q \in ListedOfferings(Catalog, ads) :
          q.deployment = r.name /\ q.model = t.canonical /\ q.native = o.native
    BY <2>2, <2>3, <2>4, <2>5, <2>6, NativeListed
  <2>9. r.model \in NamesListed(r)
    BY <2>2, <2>7, <2>8
  <2> QED BY <2>9 DEF r
<1> QED BY <1>1, <1>2, <1>3, AnswerInductive, RouteInductive, PTL DEF DispatchSpec

-----------------------------------------------------------------------------
(***************************************************************************)
(* The attempts.                                                           *)
(***************************************************************************)
\* The attempts a stage allows.
Attempts(step) == Max({route[step].stage.retries + 1, 1})

\* The wrapper is about to send its first request.
Pending == at.pc = "ask" /\ at.waits = 0

\* The first requests that were sent for a step of the route, now that the
\* call is where it is: the one about to be sent does not count yet.
Asked(step) ==
  LET pending == IF Pending THEN 1 ELSE 0
  IN IF Staged
     THEN IF step < at.step THEN IF StagePossible(step) THEN Attempts(step) ELSE 0
          ELSE IF step = at.step THEN at.tries - pending ELSE 0
     ELSE IF step < at.step - 1 THEN 1
          ELSE IF step = at.step - 1 THEN 1 - pending ELSE 0

AskedAsCounted == \A step \in DOMAIN route : Cardinality(FirstRequests(step)) = Asked(step)

\* The attempts made are within what the stage allows.
TriesBounded ==
  Staged /\ at.step \in DOMAIN route =>
    /\ at.tries <= Attempts(at.step)
    /\ ~ StagePossible(at.step) => at.tries = 0

\* A call that failed without a word has left its whole route, unless a
\* provider of the weighted router accepted it.
FailedAtEnd ==
  /\ ~ Staged /\ at.pc = "reading" => \E i \in DOMAIN requests : requests[i].accepted
  /\ answer.end = "error" /\ answer.events = <<>> =>
       at.step > Len(route) \/ (~ Staged /\ \E i \in DOMAIN requests : requests[i].accepted)

AttemptsKnown == AskedAsCounted /\ TriesBounded /\ FailedAtEnd

\* A stage allows at least one attempt.
LEMMA AttemptsPositive ==
  ASSUME RouteChosen, Staged, NEW step \in DOMAIN route
  PROVE  Attempts(step) \in Nat \ {0}
<1> DEFINE n == route[step].stage.retries + 1
           S == {n, 1}
<1>1. n \in Int
  BY RouteShape
<1>2. \E x \in S : \A y \in S : x >= y
  BY <1>1
<1>3. Max(S) \in S /\ \A y \in S : Max(S) >= y
  BY <1>2 DEF Max
<1> QED BY <1>1, <1>3 DEF Attempts

\* Counting the first requests of a step when one more request is made.
LEMMA OneMoreRequest ==
  ASSUME requests \in Seq(ToSet(requests)), NEW r, requests' = Append(requests, r), NEW step
  PROVE  /\ Cardinality(FirstRequests(step)) \in Nat
         /\ r.step = step /\ r.first =>
              Cardinality(FirstRequests(step)') = Cardinality(FirstRequests(step)) + 1
         /\ ~ (r.step = step /\ r.first) => FirstRequests(step)' = FirstRequests(step)
<1>1. /\ Len(requests) \in Nat /\ DOMAIN requests = 1 .. Len(requests)
      /\ DOMAIN requests' = 1 .. Len(requests) + 1
      /\ \A i \in 1 .. Len(requests) : requests'[i] = requests[i]
      /\ requests'[Len(requests) + 1] = r
  BY Appended
<1>2. IsFiniteSet(FirstRequests(step))
  <2>1. FirstRequests(step) \subseteq 1 .. Len(requests) /\ IsFiniteSet(1 .. Len(requests))
    BY <1>1, FS_Interval DEF FirstRequests
  <2> QED BY <2>1, FS_Subset
<1>3. Cardinality(FirstRequests(step)) \in Nat
  BY <1>2, FS_CardinalityType
<1>4. ASSUME r.step = step, r.first
      PROVE  Cardinality(FirstRequests(step)') = Cardinality(FirstRequests(step)) + 1
  <2>1. FirstRequests(step)' = FirstRequests(step) \cup {Len(requests) + 1}
    BY <1>1, <1>4 DEF FirstRequests
  <2>2. Len(requests) + 1 \notin FirstRequests(step)
    BY <1>1 DEF FirstRequests
  <2> QED BY <1>2, <2>1, <2>2, FS_AddElement
<1>5. ASSUME ~ (r.step = step /\ r.first) PROVE FirstRequests(step)' = FirstRequests(step)
  BY <1>1, <1>5 DEF FirstRequests
<1> QED BY <1>3, <1>4, <1>5

\* Where a step takes the call, as far as the count of the attempts goes.
Stays ==
  /\ requests' = requests /\ at'.step = at.step /\ at'.tries = at.tries
  /\ Pending' <=> Pending
Sends ==
  /\ at.pc = "ask" /\ ~ Pending' /\ at'.step = at.step /\ at'.tries = at.tries
  /\ \E accepted \in BOOLEAN : requests' = Append(requests, Request(accepted))
MovesOn ==
  /\ ~ Staged /\ ~ Pending /\ Pending' /\ at'.step = at.step + 1 /\ requests' = requests
TriesStage ==
  /\ Staged /\ ~ Pending /\ Pending' /\ at'.step = at.step /\ at'.tries = at.tries + 1
  /\ at.step \in DOMAIN route /\ StagePossible(at.step) /\ at.tries < Attempts(at.step)
  /\ requests' = requests
LeavesStage ==
  /\ Staged /\ ~ Pending /\ ~ Pending' /\ at'.step = at.step + 1 /\ at'.tries = 0
  /\ at.step \in DOMAIN route /\ (StagePossible(at.step) => at.tries >= Attempts(at.step))
  /\ requests' = requests

\* Every step is one of these five.
LEMMA StepCounts ==
  ASSUME DispatchTyped, RouteChosen, [DispatchNext]_dispatchVars
  PROVE  Stays \/ Sends \/ MovesOn \/ TriesStage \/ LeavesStage
<1>1. /\ DOMAIN at = DOMAIN Start /\ at.step \in Nat \ {0} /\ at.tries \in Nat /\ at.waits \in Nat
      /\ DOMAIN route = 1 .. Len(route) /\ Len(route) \in Nat
  BY RouteShape DEF DispatchTyped, AtTyped
<1>2. CASE AskNext
  BY <1>1, <1>2 DEF AskNext, MovesOn, Pending, Start
<1>3. CASE AskDeployment
  <2>1. /\ at.pc = "next" /\ Staged /\ at.step \in DOMAIN route /\ requests' = requests
        /\ ChoicesAt # {} /\ at.tries < AttemptsAt
    BY <1>1, <1>3 DEF AskDeployment
  <2>2. PICK d, o : at' = [at EXCEPT !.pc = "ask", !.tries = @ + 1, !.waits = 0, !.name = d,
                                     !.offering = o]
    BY <1>3 DEF AskDeployment
  <2>3. /\ at'.pc = "ask" /\ at'.waits = 0 /\ at'.step = at.step /\ at'.tries = at.tries + 1
    BY <1>1, <2>2 DEF Start
  <2>4. StagePossible(at.step) /\ at.tries < Attempts(at.step)
    BY <2>1 DEF StagePossible, ChoicesAt, StageAt, AttemptsAt, Attempts
  <2> QED BY <2>1, <2>3, <2>4 DEF TriesStage, Pending
<1>4. CASE NextStage
  <2>1. /\ at.pc = "next" /\ Staged /\ at.step \in DOMAIN route /\ requests' = requests
        /\ ChoicesAt = {} \/ at.tries >= AttemptsAt
        /\ at' = [at EXCEPT !.step = @ + 1, !.tries = 0]
    BY <1>1, <1>4 DEF NextStage
  <2>2. /\ at'.pc = "next" /\ at'.step = at.step + 1 /\ at'.tries = 0
    BY <1>1, <2>1 DEF Start
  <2>3. StagePossible(at.step) => at.tries >= Attempts(at.step)
    BY <2>1 DEF StagePossible, ChoicesAt, StageAt, AttemptsAt, Attempts
  <2> QED BY <2>1, <2>2, <2>3 DEF LeavesStage, Pending
<1>5. CASE AllFailed
  BY <1>1, <1>5 DEF AllFailed, GiveUp, Stays, Pending, Start
<1>6. CASE Accepted
  <2>1. at.pc = "ask" /\ requests' = Append(requests, Request(TRUE))
    BY <1>6 DEF Accepted
  <2>2. at' = [at EXCEPT !.pc = "over"] \/ at' = [at EXCEPT !.pc = "reading"]
    BY <1>6 DEF Accepted
  <2>3. at'.pc # "ask" /\ at'.step = at.step /\ at'.tries = at.tries
    BY <1>1, <2>2 DEF Start
  <2> QED BY <2>1, <2>3 DEF Sends, Pending
<1>7. ASSUME NEW cause, Refused(cause) PROVE Sends
  <2>1. at.pc = "ask" /\ requests' = Append(requests, Request(FALSE))
    BY <1>7 DEF Refused
  <2>2. at'.pc \in {"waiting", "next"} /\ at'.step = at.step /\ at'.tries = at.tries
    BY <1>1, <1>7 DEF Refused, Start
  <2> QED BY <2>1, <2>2 DEF Sends, Pending
<1>8. CASE WaitOver
  BY <1>1, <1>8 DEF WaitOver, Stays, Pending, Start
<1>9. CASE WaitCancelled
  BY <1>1, <1>9 DEF WaitCancelled, Stays, Pending, Start
<1>10. CASE Cancel \/ UNCHANGED dispatchVars
  BY <1>10 DEF Cancel, dispatchVars, Stays, Pending
<1>11. ASSUME NEW type, StreamEvent(type) PROVE Stays
  BY <1>11 DEF StreamEvent, Stays, Pending
<1>12. CASE StreamDone
  BY <1>1, <1>12 DEF StreamDone, Stays, Pending, Start
<1>13. ASSUME NEW how, StreamBroken(how) PROVE Stays
  <2>1. \/ at' = [at EXCEPT !.pc = "next", !.cause = how]
        \/ at' = [at EXCEPT !.pc = "over", !.cause = how]
    BY <1>13 DEF StreamBroken
  <2>2. at.pc = "reading" /\ requests' = requests
    BY <1>13 DEF StreamBroken
  <2> QED BY <1>1, <2>1, <2>2 DEF Stays, Pending, Start
<1>14. ASSUME NEW how, StreamEnds(how) PROVE Stays
  BY <1>1, <1>14 DEF StreamEnds, Stays, Pending, Start
<1> QED BY <1>2, <1>3, <1>4, <1>5, <1>6, <1>7, <1>8, <1>9, <1>10, <1>11, <1>12, <1>13, <1>14
        DEF DispatchNext

\* A call that is over stays over.
LEMMA OverIsEnd ==
  ASSUME at.pc = "over", [DispatchNext]_dispatchVars
  PROVE  UNCHANGED dispatchVars
BY DEF DispatchNext, AskNext, AskDeployment, NextStage, AllFailed, Accepted, Refused, WaitOver,
   WaitCancelled, Cancel, StreamEvent, StreamDone, StreamEnds, StreamBroken

\* The counts follow the steps.
LEMMA StepKnowsCounts ==
  ASSUME DispatchTyped, RouteChosen, AskedAsCounted, TriesBounded, [DispatchNext]_dispatchVars
  PROVE  AskedAsCounted' /\ TriesBounded'
<1>1. /\ DOMAIN at = DOMAIN Start /\ at.step \in Nat \ {0} /\ at.tries \in Nat
      /\ at'.step \in Nat \ {0} /\ at'.tries \in Nat /\ requests \in Seq(ToSet(requests))
  BY StepKeepsDispatchTypes DEF DispatchTyped, AtTyped
<1>2. /\ route' = route /\ (Staged' <=> Staged)
      /\ \A step : Attempts(step)' = Attempts(step) /\ (StagePossible(step)' <=> StagePossible(step))
  BY RouteStays DEF InCall, Staged, Attempts, StagePossible
<1>3. DOMAIN route = 1 .. Len(route) /\ Len(route) \in Nat
  BY RouteShape
<1>4. Staged => \A step \in DOMAIN route : Attempts(step) \in Nat \ {0}
  BY AttemptsPositive
<1>5. requests' = requests => \A step : FirstRequests(step)' = FirstRequests(step)
  BY DEF FirstRequests
<1>6. TriesBounded'
  <2>1. CASE Stays \/ Sends
    BY <1>2, <2>1 DEF Stays, Sends, TriesBounded
  <2>2. CASE MovesOn
    BY <1>2, <2>2 DEF MovesOn, TriesBounded
  <2>3. CASE TriesStage
    BY <1>1, <1>2, <1>4, <2>3 DEF TriesStage, TriesBounded
  <2>4. CASE LeavesStage
    BY <1>1, <1>2, <1>4, <2>4 DEF LeavesStage, TriesBounded
  <2> QED BY <2>1, <2>2, <2>3, <2>4, StepCounts
<1>7. ASSUME NEW step \in DOMAIN route
      PROVE  Cardinality(FirstRequests(step)') = Asked(step)'
  <2> DEFINE n == Cardinality(FirstRequests(step))
  <2>1. n = Asked(step) /\ step \in Nat
    BY <1>3, <1>7 DEF AskedAsCounted
  <2>2. CASE Stays
    BY <1>2, <1>5, <2>1, <2>2 DEF Stays, Asked
  <2>3. CASE Sends
    <3>1. PICK accepted \in BOOLEAN : requests' = Append(requests, Request(accepted))
      BY <2>3 DEF Sends
    <3> DEFINE r == Request(accepted)
    <3>2. /\ r.step = IF Staged THEN at.step ELSE at.step - 1
          /\ r.first = (at.waits = 0)
      BY DEF Request
    <3> HIDE DEF r
    <3>3. /\ n \in Nat
          /\ r.step = step /\ r.first => Cardinality(FirstRequests(step)') = n + 1
          /\ ~ (r.step = step /\ r.first) => Cardinality(FirstRequests(step)') = n
      BY <1>1, <3>1, OneMoreRequest DEF r
    <3>4. r.first <=> Pending
      BY <2>3, <3>2 DEF Sends, Pending
    <3>5. at'.step = at.step /\ at'.tries = at.tries /\ ~ Pending'
      BY <2>3 DEF Sends
    <3> HIDE DEF n
    <3>6. CASE r.step = step /\ r.first
      <4>1. Asked(step)' = Asked(step) + 1
        BY <1>1, <1>2, <2>1, <3>2, <3>4, <3>5, <3>6 DEF Asked
      <4> QED BY <2>1, <3>3, <3>6, <4>1
    <3>7. CASE ~ (r.step = step /\ r.first)
      <4>1. Asked(step)' = Asked(step)
        BY <1>1, <1>2, <2>1, <3>2, <3>4, <3>5, <3>7 DEF Asked
      <4> QED BY <2>1, <3>3, <3>7, <4>1
    <3> QED BY <3>6, <3>7
  <2>4. CASE MovesOn
    BY <1>1, <1>2, <1>5, <2>1, <2>4 DEF MovesOn, Asked
  <2>5. CASE TriesStage
    BY <1>1, <1>2, <1>5, <2>1, <2>5 DEF TriesStage, Asked
  <2>6. CASE LeavesStage
    <3>1. StagePossible(at.step) => at.tries = Attempts(at.step)
      BY <1>1, <1>4, <2>6 DEF LeavesStage, TriesBounded
    <3>2. ~ StagePossible(at.step) => at.tries = 0
      BY <2>6 DEF LeavesStage, TriesBounded
    <3> QED BY <1>1, <1>2, <1>5, <2>1, <2>6, <3>1, <3>2 DEF LeavesStage, Asked
  <2> QED BY <2>2, <2>3, <2>4, <2>5, <2>6, StepCounts
<1> QED BY <1>2, <1>6, <1>7 DEF AskedAsCounted

\* A silent failure comes at the end of the route.
LEMMA StepKnowsEnd ==
  ASSUME DispatchTyped, RouteChosen, AnswerKnown, FailedAtEnd, [DispatchNext]_dispatchVars
  PROVE  FailedAtEnd'
<1>1. /\ DOMAIN at = DOMAIN Start /\ DOMAIN answer = {"events", "end"}
      /\ requests \in Seq(ToSet(requests)) /\ at.step \in Nat
  BY DEF DispatchTyped, AtTyped, AnswerTyped
<1>2. route' = route /\ (Staged' <=> Staged)
  BY RouteStays DEF InCall, Staged
<1>3. DOMAIN route = 1 .. Len(route) /\ Len(route) \in Nat
  BY RouteShape
<1>4. CASE at.pc = "over"
  <2>1. at' = at /\ answer' = answer /\ requests' = requests
    BY <1>4, OverIsEnd DEF dispatchVars
  <2> QED BY <1>2, <2>1 DEF FailedAtEnd
<1>5. CASE at.pc # "over"
  <2>1. answer.end = "none"
    BY <1>5 DEF AnswerKnown
  <2>2. CASE AllFailed
    <3>1. at.step > Len(route) /\ at'.step = at.step /\ at'.pc = "over"
      BY <1>1, <2>2 DEF AllFailed, GiveUp, Start
    <3> QED BY <1>2, <3>1 DEF FailedAtEnd
  <2>3. CASE Accepted
    <3>1. requests' = Append(requests, Request(TRUE)) /\ answer'.end # "error"
      BY <1>1, <2>1, <2>3 DEF Accepted
    <3> DEFINE r == Request(TRUE)
    <3>2. r.accepted = TRUE
      BY DEF Request
    <3> HIDE DEF r
    <3>3. \E i \in DOMAIN requests' : requests'[i].accepted
      <4>1. requests' = Append(requests, r)
        BY <3>1 DEF r
      <4>2. /\ DOMAIN requests' = 1 .. Len(requests) + 1 /\ Len(requests) \in Nat
            /\ requests'[Len(requests) + 1] = r
        BY <1>1, <4>1, Appended
      <4> QED BY <3>2, <4>2
    <3> QED BY <3>1, <3>3 DEF FailedAtEnd
  <2>4. ASSUME NEW how, StreamBroken(how) PROVE FailedAtEnd'
    <3>1. at.pc = "reading" /\ requests' = requests
      BY <2>4 DEF StreamBroken
    <3>2. CASE Staged /\ ~ stream.output
      BY <1>1, <1>2, <2>1, <2>4, <3>2 DEF StreamBroken, FailedAtEnd, Start
    <3>3. CASE ~ (Staged /\ ~ stream.output)
      <4>1. at' = [at EXCEPT !.pc = "over", !.cause = how] /\ answer'.events = answer.events
        BY <1>1, <2>4, <3>3 DEF StreamBroken
      <4>2. at'.pc = "over"
        BY <1>1, <4>1 DEF Start
      <4>3. Staged => answer'.events # <<>>
        BY <3>1, <3>3, <4>1 DEF AnswerKnown
      <4>4. ~ Staged => \E i \in DOMAIN requests : requests[i].accepted
        BY <3>1 DEF FailedAtEnd
      <4> QED BY <1>2, <3>1, <4>2, <4>3, <4>4 DEF FailedAtEnd
    <3> QED BY <3>2, <3>3
  <2>5. ASSUME at'.pc = "reading" => at.pc = "reading", requests' = requests,
               answer'.end # "error"
        PROVE  FailedAtEnd'
    BY <1>2, <2>5 DEF FailedAtEnd
  <2>6. CASE AskNext
    BY <1>1, <2>1, <2>5, <2>6 DEF AskNext, Start
  <2>7. CASE AskDeployment
    <3>1. at'.pc = "ask" /\ requests' = requests /\ answer' = answer
      BY <1>1, <2>7 DEF AskDeployment, Start
    <3> QED BY <2>1, <2>5, <3>1
  <2>8. CASE NextStage
    BY <1>1, <2>1, <2>5, <2>8 DEF NextStage, Start
  <2>9. ASSUME NEW cause, Refused(cause) PROVE FailedAtEnd'
    <3>1. at'.pc \in {"waiting", "next"} /\ answer' = answer
      BY <1>1, <2>9 DEF Refused, Start
    <3> QED BY <2>1, <3>1 DEF FailedAtEnd
  <2>10. CASE WaitOver
    BY <1>1, <2>1, <2>5, <2>10 DEF WaitOver, Start
  <2>11. CASE WaitCancelled
    BY <1>1, <2>1, <2>5, <2>11 DEF WaitCancelled, Start
  <2>12. CASE Cancel \/ UNCHANGED dispatchVars
    BY <2>1, <2>5, <2>12 DEF Cancel, dispatchVars
  <2>13. ASSUME NEW type, StreamEvent(type) PROVE FailedAtEnd'
    <3>1. at' = at /\ requests' = requests /\ answer'.end = answer.end
      BY <1>1, <2>13 DEF StreamEvent
    <3> QED BY <2>1, <2>5, <3>1
  <2>14. CASE StreamDone
    <3>1. at'.pc # "reading" /\ requests' = requests /\ answer'.end # "error"
      BY <1>1, <2>14 DEF StreamDone, Start
    <3> QED BY <2>5, <3>1
  <2>15. ASSUME NEW how, StreamEnds(how) PROVE FailedAtEnd'
    <3>1. at'.pc = "over" /\ answer'.events = answer.events /\ at.pc = "ending"
      BY <1>1, <2>15 DEF StreamEnds, Start
    <3>2. answer.events # <<>>
      BY <3>1 DEF AnswerKnown, Abstract!Final
    <3> QED BY <3>1, <3>2 DEF FailedAtEnd
  <2> QED BY <2>2, <2>3, <2>4, <2>6, <2>7, <2>8, <2>9, <2>10, <2>11, <2>12, <2>13, <2>14, <2>15
          DEF DispatchNext
<1> QED BY <1>4, <1>5

\* A call ends with an error and no output only after every provider of the
\* chain, or every attempt of every stage that can serve the model, was asked
\* (Router.Complete, DeploymentRouter.Complete and their streams).
THEOREM FailureTriedAll == DispatchSpec => []FailsAfterAll
<1>1. DispatchInit /\ RouteChosen => AttemptsKnown
  <2> SUFFICES ASSUME DispatchInit, RouteChosen PROVE AttemptsKnown
    OBVIOUS
  <2>1. at = Start /\ requests = <<>> /\ answer = [events |-> <<>>, end |-> "none"]
    BY DEF DispatchInit
  <2>2. at.pc = "next" /\ at.step = 1 /\ at.tries = 0 /\ ~ Pending
    BY <2>1 DEF Start, Pending
  <2>3. DOMAIN route = 1 .. Len(route) /\ Len(route) \in Nat
    BY RouteShape
  <2>4. \A step : Cardinality(FirstRequests(step)) = 0
    <3>1. \A step : FirstRequests(step) = {}
      BY <2>1 DEF FirstRequests
    <3> QED BY <3>1, FS_EmptySet
  <2>5. \A step \in DOMAIN route : Asked(step) = 0
    <3> SUFFICES ASSUME NEW step \in DOMAIN route PROVE Asked(step) = 0
      OBVIOUS
    <3>1. step \in Nat \ {0} /\ ~ (step < at.step) /\ ~ (step <= at.step - 1)
      BY <2>2, <2>3
    <3>2. CASE Staged
      <4> DEFINE left == at.tries - IF Pending THEN 1 ELSE 0
      <4>1. left = 0
        <5>1. left = 0 - 0
          BY <2>2, Zenon
        <5> QED BY <5>1
      <4>2. Asked(step) = IF step < at.step THEN IF StagePossible(step) THEN Attempts(step) ELSE 0
                          ELSE IF step = at.step THEN left ELSE 0
        BY <3>2 DEF Asked
      <4> HIDE DEF left
      <4> QED BY <3>1, <4>1, <4>2
    <3>3. CASE ~ Staged
      BY <2>2, <3>1, <3>3 DEF Asked
    <3> QED BY <3>2, <3>3
  <2>6. TriesBounded
    BY <2>2, AttemptsPositive DEF TriesBounded
  <2> QED BY <2>1, <2>2, <2>4, <2>5, <2>6 DEF AttemptsKnown, AskedAsCounted, FailedAtEnd
<1>2. DispatchTyped /\ RouteChosen /\ AnswerKnown /\ AttemptsKnown
        /\ [DispatchNext]_dispatchVars => AttemptsKnown'
  BY StepKnowsCounts, StepKnowsEnd DEF AttemptsKnown
<1>3. DispatchTyped /\ RouteChosen /\ AnswerKnown /\ AttemptsKnown => FailsAfterAll
  <2> SUFFICES ASSUME DispatchTyped, RouteChosen, AnswerKnown, AttemptsKnown,
                      answer.end = "error", answer.events = <<>>,
                      Staged \/ \A i \in DOMAIN requests : ~ requests[i].accepted,
                      NEW step \in DOMAIN route
               PROVE  Cardinality(FirstRequests(step)) =
                        IF ~ Staged THEN 1
                        ELSE IF StagePossible(step) THEN Attempts(step) ELSE 0
    BY DEF FailsAfterAll, Attempts
  <2>1. at.step > Len(route) /\ at.pc = "over"
    BY DEF AttemptsKnown, FailedAtEnd, AnswerKnown
  <2>2. step \in 1 .. Len(route) /\ Len(route) \in Nat /\ at.step \in Nat
    BY RouteShape DEF DispatchTyped, AtTyped
  <2>3. Asked(step) = IF ~ Staged THEN 1
                      ELSE IF StagePossible(step) THEN Attempts(step) ELSE 0
    BY <2>1, <2>2 DEF Asked, Pending
  <2> QED BY <2>3 DEF AttemptsKnown, AskedAsCounted
<1> QED BY <1>1, <1>2, <1>3, AnswerInductive, RouteInductive, PTL DEF DispatchSpec
=============================================================================
