------------------------ MODULE ProviderStreamsProofs ------------------------
(***************************************************************************)
(* Theorems about ProviderStreams, for answers of any length and any number*)
(* of calls whose lines come in any order.                                 *)
(***************************************************************************)
EXTENDS ProviderStreams, TLAPS, FiniteSetTheorems

\* The lines of a call, and the pieces of its arguments known after n of them.
LinesOf(i) ==
  IF Api = "chat" THEN CallOf(i).args + 1
  ELSE IF Api = "responses" THEN LinesBeforeLast(i) + 1 ELSE 1
PiecesAfter(i, n) ==
  IF Api = "chat" \/ (Api = "responses" /\ CallOf(i).style = "pieces" /\ n <= CallOf(i).args)
  THEN n - 1 ELSE CallOf(i).args
KnownAfter(i, n) == ToolUse(Whole(i).id, Whole(i).name, Args(i, PiecesAfter(i, n)))

Events == {"start", "delta", "content_done", "done", "error"}
Wholes == {Whole(i) : i \in Calls}

-----------------------------------------------------------------------------
(***************************************************************************)
(* The inductive invariant.                                                *)
(***************************************************************************)
StreamShape ==
  /\ served \in Answers
  /\ DOMAIN wire = {"texts", "calls", "finished"} /\ wire.texts \in Nat
  /\ wire.calls \in [Calls -> Nat] /\ wire.finished \in BOOLEAN
  /\ DOMAIN channel = {"log", "text", "blocks", "response"}
  /\ channel.text = wire.texts /\ channel.blocks \in Seq(Wholes)
  /\ channel.log \in Seq(Events) /\ channel.log # <<>>

\* The parser keeps of every call what was sent of it.
CallsKept ==
  /\ DOMAIN calls = {i \in Calls : Sent(i) > 0}
  /\ \A i \in Calls : Sent(i) <= LinesOf(i)
  /\ \A i \in DOMAIN calls : calls[i] = KnownAfter(i, Sent(i))

\* What was emitted is whole, and nothing more of it comes.
BlocksEmitted ==
  /\ emitted \subseteq DOMAIN calls
  /\ \A i \in emitted : /\ Api = "chat" => wire.finished
                        /\ Api = "responses" /\ CallOf(i).style = "pieces" => Sent(i) > CallOf(i).args
  /\ \A k \in DOMAIN channel.blocks : \E i \in emitted : channel.blocks[k] = Whole(i)
  /\ \A k, l \in DOMAIN channel.blocks : channel.blocks[k] = channel.blocks[l] => k = l

\* An answer has come to its end when all of it was sent.
EndKnown ==
  wire.finished =>
    /\ wire.texts = served.texts /\ \A i \in Calls : Sent(i) = LinesOf(i)
    /\ Api # "responses" => stop = CompleteResponse.stop
    /\ Api = "responses" /\ served.stop = "end" => Done

\* The response has what was emitted, and that of a whole answer all of it.
ResponseKnown ==
  Done =>
    /\ EmittedIsInResponse /\ StoredLikeComplete
    /\ wire.finished => /\ ToSet(channel.response.calls) = Wholes
                        /\ Len(channel.response.calls) = Len(served.calls)

StreamInv ==
  StreamShape /\ CallsKept /\ BlocksEmitted /\ EndKnown /\ ResponseKnown

-----------------------------------------------------------------------------
(***************************************************************************)
(* Data.                                                                   *)
(***************************************************************************)
\* What the answers are.
LEMMA AnswerFacts ==
  ASSUME StreamShape
  PROVE  /\ Api \in {"chat", "responses", "gemini"} /\ served.texts \in Nat
         /\ served.stop \in {"end", "length"}
         /\ Len(served.calls) \in Nat /\ Calls = 1 .. Len(served.calls)
         /\ IsFiniteSet(Calls) /\ Cardinality(Calls) = Len(served.calls)
         /\ \A i \in Calls : /\ CallOf(i).args \in Nat
                             /\ CallOf(i).style \in {"pieces", "whole", "late"}
                             /\ Api # "gemini" => CallOf(i).id # ""
<1>1. served \in Answers
  BY DEF StreamShape
<1>2. /\ served.api \in {"chat", "responses", "gemini"} /\ served.texts \in Nat
      /\ served.stop \in {"end", "length"}
      /\ served.calls \in Seq([id : STRING, name : STRING, args : Nat, cut : BOOLEAN,
                               style : {"pieces", "whole", "late"}])
      /\ served.api # "gemini" => \A i \in DOMAIN served.calls : served.calls[i].id # ""
  BY <1>1, AnswersAssumption
<1>3. /\ Len(served.calls) \in Nat /\ Calls = 1 .. Len(served.calls)
      /\ \A i \in Calls : served.calls[i] \in
           [id : STRING, name : STRING, args : Nat, cut : BOOLEAN, style : {"pieces", "whole", "late"}]
  <2> DEFINE T == [id : STRING, name : STRING, args : Nat, cut : BOOLEAN,
                   style : {"pieces", "whole", "late"}]
  <2>1. served.calls \in Seq(T)
    BY <1>2
  <2> HIDE DEF T
  <2>2. /\ Len(served.calls) \in Nat /\ Calls = 1 .. Len(served.calls)
        /\ \A i \in Calls : served.calls[i] \in T
    BY <2>1 DEF Calls
  <2> QED BY <2>2 DEF T
<1>4. IsFiniteSet(Calls) /\ Cardinality(Calls) = Len(served.calls)
  BY <1>3, FS_Interval
<1>5. \A i \in Calls : /\ CallOf(i).args \in Nat
                       /\ CallOf(i).style \in {"pieces", "whole", "late"}
  BY <1>3 DEF CallOf
<1> QED BY <1>2, <1>3, <1>4, <1>5 DEF Api, Calls, CallOf

\* The fields of a call.
LEMMA ToolUseFields ==
  ASSUME NEW id, NEW name, NEW args, NEW b, b = ToolUse(id, name, args), NEW new
  PROVE  /\ b.id = id /\ b.name = name /\ b.args = args
         /\ [b EXCEPT !.args = new] = ToolUse(id, name, new)
         /\ [b EXCEPT !.args = Append(@, new)] = ToolUse(id, name, Append(args, new))
BY DEF ToolUse

\* The first line of a call names it.
LEMMA ToolUseNamed ==
  ASSUME NEW id, NEW name
  PROVE  [NoBlock EXCEPT !.id = id, !.name = name] = ToolUse(id, name, <<>>)
<1> DEFINE none == ""
           b == ToolUse(none, none, <<>>)
           c == [b EXCEPT !.id = id]
           d == [b EXCEPT !.id = id, !.name = name]
<1> HIDE DEF none
<1>1. c = ToolUse(id, none, <<>>)
  BY DEF ToolUse
<1>2. [c EXCEPT !.name = name] = ToolUse(id, name, <<>>)
  <2> HIDE DEF c
  <2> QED BY <1>1 DEF ToolUse
<1>3. d = [c EXCEPT !.name = name]
  OBVIOUS
<1> QED BY <1>2, <1>3 DEF NoBlock, none

\* A whole call by its parts.
LEMMA WholeParts ==
  ASSUME NEW i
  PROVE  /\ Whole(i) = ToolUse(Whole(i).id, Whole(i).name, Args(i, CallOf(i).args))
         /\ Whole(i).args = Args(i, CallOf(i).args) /\ Whole(i).name = CallOf(i).name
         /\ CallOf(i).id # "" => Whole(i).id = CallOf(i).id
BY DEF Whole, CallId, ToolUse

\* The pieces of the arguments of a call, one by one.
LEMMA PiecesGrow ==
  ASSUME NEW i, NEW n \in Nat
  PROVE  /\ Args(i, 0) = <<>> /\ DOMAIN Args(i, n) = 1 .. n
         /\ Append(Args(i, n), <<i, n + 1>>) = Args(i, n + 1)
         /\ Args(i, n) = <<>> => n = 0
<1> DEFINE T == {<<i, k>> : k \in Nat}
           a == Args(i, n)
<1>1. /\ Args(i, 0) = <<>> /\ a \in Seq(T) /\ Len(a) = n /\ DOMAIN a = 1 .. n
      /\ \A k \in 1 .. n : a[k] = <<i, k>>
  BY DEF Args
<1>2. Append(a, <<i, n + 1>>) = Args(i, n + 1)
  <2> DEFINE e == <<i, n + 1>>
             b == Append(a, e)
             c == Args(i, n + 1)
  <2>1. e \in T
    OBVIOUS
  <2>2. DOMAIN c = 1 .. n + 1 /\ \A k \in 1 .. n + 1 : c[k] = <<i, k>>
    BY DEF Args
  <2>3. c = [k \in 1 .. n + 1 |-> c[k]]
    BY DEF Args
  <2>4. c[n + 1] = e
    BY <2>2
  <2> HIDE DEF a, e, T
  <2>5. /\ DOMAIN b = 1 .. n + 1 /\ b[n + 1] = e /\ \A k \in 1 .. n : b[k] = a[k]
        /\ b = [k \in 1 .. n + 1 |-> b[k]]
    <3>1. b \in Seq(T) /\ Len(b) = n + 1 /\ b[n + 1] = e /\ \A k \in 1 .. n : b[k] = a[k]
      <4>1. a \in Seq(T) /\ Len(a) = n
        BY <1>1
      <4> QED BY <4>1, <2>1
    <3> HIDE DEF b
    <3>2. DOMAIN b = 1 .. n + 1
      BY <3>1
    <3>3. b = [k \in DOMAIN b |-> b[k]]
      <4>1. \E m \in Nat : b \in [1 .. m -> T]
        BY <3>1
      <4> QED BY <4>1
    <3> QED BY <3>1, <3>2, <3>3
  <2> HIDE DEF b, c
  <2>6. \A k \in 1 .. n + 1 : k \in 1 .. n \/ k = n + 1
    OBVIOUS
  <2>7. \A k \in 1 .. n + 1 : b[k] = c[k]
    BY <1>1, <2>2, <2>4, <2>5, <2>6
  <2> QED BY <2>3, <2>5, <2>7 DEF a, b, c, e
<1>3. a = <<>> => n = 0
  BY <1>1
<1> QED BY <1>1, <1>2, <1>3

\* Different calls look different when they are whole.
LEMMA WholeDiffers ==
  ASSUME StreamShape, NEW i \in Calls, NEW j \in Calls, Whole(i) = Whole(j)
  PROVE  i = j
<1> DEFINE m == CallOf(i).args
           n == CallOf(j).args
<1>1. m \in Nat /\ n \in Nat
  BY AnswerFacts
<1>2. Args(i, m) = Args(j, n) /\ CallOf(i).name = CallOf(j).name
  BY WholeParts
<1>3. m = n
  <2> HIDE DEF m, n
  <2>1. 1 .. m = 1 .. n
    BY <1>1, <1>2, PiecesGrow
  <2>2. \A k \in Nat : k # 0 => k \in 1 .. k
    OBVIOUS
  <2>3. m \in 1 .. n \/ m = 0
    <3>1. m \in 1 .. m \/ m = 0
      BY <1>1, <2>2
    <3> QED BY <2>1, <3>1
  <2>4. n \in 1 .. m \/ n = 0
    <3>1. n \in 1 .. n \/ n = 0
      BY <1>1, <2>2
    <3> QED BY <2>1, <3>1
  <2> QED BY <1>1, <2>3, <2>4
<1>4. CASE m # 0
  <2> HIDE DEF m, n
  <2>1. 1 \in 1 .. m /\ 1 \in 1 .. n
    BY <1>1, <1>3, <1>4
  <2>2. Args(i, m)[1] = <<i, 1>> /\ Args(j, n)[1] = <<j, 1>>
    BY <2>1 DEF Args
  <2> QED BY <1>2, <2>2
<1>5. CASE m = 0
  <2>1. CallId(CallOf(i)) = CallId(CallOf(j))
    BY DEF Whole, ToolUse
  <2>2. i \in DOMAIN served.calls /\ j \in DOMAIN served.calls /\ served \in Answers
    BY DEF StreamShape, Calls
  <2>3. /\ served.calls[i].args = 0 /\ served.calls[j].args = 0
        /\ CallId(served.calls[i]) = CallId(served.calls[j])
        /\ served.calls[i].name = served.calls[j].name
    BY <1>2, <1>3, <1>5, <2>1 DEF CallOf
  <2> QED BY <2>2, <2>3, AnswersAssumption
<1> QED BY <1>4, <1>5

\* A sequence with one more element.
LEMMA OneMore ==
  ASSUME NEW T, NEW s \in Seq(T), NEW e \in T
  PROVE  LET t == Append(s, e) IN
         /\ t \in Seq(T) /\ t # <<>> /\ Len(t) = Len(s) + 1 /\ DOMAIN t = 1 .. Len(s) + 1
         /\ t[Len(s) + 1] = e /\ Last(t) = e /\ \A k \in 1 .. Len(s) : t[k] = s[k]
<1> DEFINE t == Append(s, e)
<1>1. /\ t \in Seq(T) /\ Len(t) = Len(s) + 1 /\ DOMAIN t = 1 .. Len(s) + 1 /\ Len(s) \in Nat
      /\ t[Len(s) + 1] = e /\ \A k \in 1 .. Len(s) : t[k] = s[k]
  OBVIOUS
<1> HIDE DEF t
<1>2. t # <<>>
  BY <1>1
<1> QED BY <1>1, <1>2 DEF t, Last

\* What depends on the answer only.
LEMMA SameAnswer ==
  ASSUME served' = served
  PROVE  /\ Api' = Api /\ Calls' = Calls /\ Wholes' = Wholes /\ CompleteResponse' = CompleteResponse
         /\ \A i : /\ CallOf(i)' = CallOf(i) /\ Whole(i)' = Whole(i)
                   /\ LinesOf(i)' = LinesOf(i) /\ LinesBeforeLast(i)' = LinesBeforeLast(i)
                   /\ \A n : PiecesAfter(i, n)' = PiecesAfter(i, n) /\ KnownAfter(i, n)' = KnownAfter(i, n)
BY DEF Api, Calls, Wholes, CompleteResponse, CallOf, Whole, LinesOf, LinesBeforeLast, PiecesAfter,
       KnownAfter

-----------------------------------------------------------------------------
(***************************************************************************)
(* The lines of a call.                                                    *)
(***************************************************************************)
CallStep(i, block) == CallLine(i) /\ calls' = WithCall(i, block) /\ served' = served

\* A line of a call that leaves of it what is known after that line keeps
\* what is kept of all calls.
LEMMA CallStepKeeps ==
  ASSUME StreamShape, CallsKept, NEW i \in Calls, NEW block, Sent(i) < LinesOf(i),
         CallStep(i, block), block = KnownAfter(i, Sent(i) + 1)
  PROVE  /\ CallsKept' /\ DOMAIN calls \subseteq DOMAIN calls' /\ i \in DOMAIN calls'
         /\ DOMAIN wire' = DOMAIN wire /\ wire'.texts = wire.texts /\ wire'.finished = wire.finished
         /\ wire'.calls \in [Calls -> Nat] /\ Sent(i)' = Sent(i) + 1
         /\ \A j \in Calls : j # i => Sent(j)' = Sent(j)
<1>1. /\ Calls' = Calls
      /\ \A j : /\ LinesOf(j)' = LinesOf(j)
                /\ \A n : KnownAfter(j, n)' = KnownAfter(j, n)
  BY SameAnswer DEF CallStep
<1>2. \A j \in Calls : Sent(j) \in Nat /\ LinesOf(j) \in Nat
  <2> TAKE j \in Calls
  <2>1. /\ CallOf(j).args \in Nat
        /\ CallOf(j).style = "pieces" \/ CallOf(j).style = "whole" \/ CallOf(j).style = "late"
    BY AnswerFacts
  <2>2. LinesBeforeLast(j) \in Nat
    BY <2>1 DEF LinesBeforeLast
  <2>3. LinesOf(j) \in Nat
    BY <2>1, <2>2 DEF LinesOf
  <2> QED BY <2>3 DEF StreamShape, Sent
<1>3. /\ wire'.texts = wire.texts /\ wire'.finished = wire.finished /\ DOMAIN wire' = DOMAIN wire
      /\ wire'.calls = [wire.calls EXCEPT ![i] = @ + 1]
  BY DEF CallStep, CallLine, StreamShape
<1>4. /\ wire'.calls \in [Calls -> Nat] /\ Sent(i)' = Sent(i) + 1
      /\ \A j \in Calls : j # i => Sent(j)' = Sent(j)
  BY <1>3 DEF StreamShape, Sent
<1>5. /\ DOMAIN calls' = DOMAIN calls \cup {i} /\ calls'[i] = block
      /\ \A j \in DOMAIN calls : j # i => calls'[j] = calls[j]
  <2>1. CASE i \in DOMAIN calls
    BY <2>1 DEF CallStep, WithCall
  <2>2. CASE i \notin DOMAIN calls
    BY <2>2 DEF CallStep, WithCall
  <2> QED BY <2>1, <2>2
<1>6. DOMAIN calls' = {j \in Calls : Sent(j)' > 0}
  <2>1. \A j \in Calls : j \in DOMAIN calls' <=> Sent(j)' > 0
    <3> TAKE j \in Calls
    <3>1. CASE j = i
      BY <3>1, <1>2, <1>4, <1>5
    <3>2. CASE j # i
      BY <3>2, <1>4, <1>5 DEF CallsKept
    <3> QED BY <3>1, <3>2
  <2>2. DOMAIN calls' \subseteq Calls
    BY <1>5 DEF CallsKept
  <2> QED BY <2>1, <2>2
<1>7. \A j \in Calls : Sent(j)' <= LinesOf(j)
  BY <1>2, <1>4 DEF CallsKept
<1>8. \A j \in DOMAIN calls' : calls'[j] = KnownAfter(j, Sent(j)')
  <2> TAKE j \in DOMAIN calls'
  <2>1. CASE j = i
    BY <2>1, <1>4, <1>5
  <2>2. CASE j # i
    <3>1. j \in DOMAIN calls /\ j \in Calls
      BY <2>2, <1>5, <1>6
    <3> QED BY <2>2, <3>1, <1>4, <1>5 DEF CallsKept
  <2> QED BY <2>1, <2>2
<1>9. CallsKept'
  BY <1>1, <1>6, <1>7, <1>8 DEF CallsKept
<1> QED BY <1>3, <1>4, <1>5, <1>9

\* A call before its first line, after some, and when it is known whole.
LEMMA HeldKnown ==
  ASSUME StreamShape, CallsKept, NEW i \in Calls
  PROVE  /\ Sent(i) \in Nat /\ CallOf(i).args \in Nat
         /\ Sent(i) = 0 <=> i \notin DOMAIN calls
         /\ Sent(i) = 0 => Held(i) = NoBlock
         /\ Sent(i) > 0 => Held(i) = KnownAfter(i, Sent(i)) /\ calls[i] = Held(i)
         /\ \A n : PiecesAfter(i, n) = CallOf(i).args => KnownAfter(i, n) = Whole(i)
<1>1. Sent(i) \in Nat /\ CallOf(i).args \in Nat
  BY AnswerFacts DEF StreamShape, Sent
<1>2. i \in DOMAIN calls <=> Sent(i) > 0
  BY DEF CallsKept
<1>3. \A n : PiecesAfter(i, n) = CallOf(i).args => KnownAfter(i, n) = Whole(i)
  BY WholeParts DEF KnownAfter
<1> QED BY <1>1, <1>2, <1>3 DEF CallsKept, Held

\* A line of a call before it is finished.
LEMMA QuietLine ==
  ASSUME StreamInv, Line, NEW i \in Calls, NEW block, Sent(i) < LinesOf(i),
         CallStep(i, block), block = KnownAfter(i, Sent(i) + 1),
         UNCHANGED <<emitted, stop, channel>>
  PROVE  StreamInv'
<1> USE DEF StreamInv
<1>1. /\ CallsKept' /\ DOMAIN calls \subseteq DOMAIN calls'
      /\ DOMAIN wire' = DOMAIN wire /\ wire'.texts = wire.texts /\ wire'.finished = wire.finished
      /\ wire'.calls \in [Calls -> Nat] /\ Sent(i)' = Sent(i) + 1
      /\ \A j \in Calls : j # i => Sent(j)' = Sent(j)
  BY CallStepKeeps
<1>2. /\ served' = served /\ Api' = Api /\ Calls' = Calls /\ Wholes' = Wholes
      /\ \A j : CallOf(j)' = CallOf(j) /\ Whole(j)' = Whole(j)
  BY SameAnswer DEF CallStep
<1>3. StreamShape'
  BY <1>1, <1>2 DEF StreamShape
<1>4. BlocksEmitted'
  <2>1. \A j \in emitted : Api = "responses" /\ CallOf(j).style = "pieces" => Sent(j)' > CallOf(j).args
    <3> SUFFICES ASSUME NEW j \in emitted, Api = "responses" /\ CallOf(j).style = "pieces"
                 PROVE  Sent(j)' > CallOf(j).args
      OBVIOUS
    <3>1. j \in Calls /\ Sent(j) > CallOf(j).args
      BY DEF BlocksEmitted, CallsKept
    <3>2. Sent(j) \in Nat /\ CallOf(j).args \in Nat
      BY <3>1, HeldKnown
    <3> QED BY <3>1, <3>2, <1>1
  <2> QED BY <1>1, <1>2, <2>1 DEF BlocksEmitted
<1>5. EndKnown' /\ ResponseKnown'
  <2>1. ~ wire'.finished /\ ~ Done'
    BY <1>1 DEF Line, Open, Done
  <2> QED BY <2>1 DEF EndKnown, ResponseKnown
<1> QED BY <1>1, <1>3, <1>4, <1>5

\* A line that finishes a call, which is emitted unless it was.
LEMMA FinishedCall ==
  ASSUME StreamInv, Line, NEW i \in Calls, Sent(i) < LinesOf(i), CallStep(i, Whole(i)),
         PiecesAfter(i, Sent(i) + 1) = CallOf(i).args, Api # "chat",
         Api = "responses" /\ CallOf(i).style = "pieces" => Sent(i) + 1 > CallOf(i).args,
         EmitOnce(i, Whole(i)), stop' = stop
  PROVE  StreamInv'
<1> USE DEF StreamInv
<1>1. KnownAfter(i, Sent(i) + 1) = Whole(i)
  BY HeldKnown
<1>2. CASE i \in emitted
  BY <1>1, <1>2, QuietLine DEF EmitOnce
<1>3. CASE i \notin emitted
  <2>1. /\ CallsKept' /\ DOMAIN calls \subseteq DOMAIN calls' /\ i \in DOMAIN calls'
        /\ DOMAIN wire' = DOMAIN wire /\ wire'.texts = wire.texts /\ wire'.finished = wire.finished
        /\ wire'.calls \in [Calls -> Nat] /\ Sent(i)' = Sent(i) + 1
        /\ \A j \in Calls : j # i => Sent(j)' = Sent(j)
    BY <1>1, CallStepKeeps
  <2>2. /\ served' = served /\ Api' = Api /\ Calls' = Calls /\ Wholes' = Wholes
        /\ \A j : CallOf(j)' = CallOf(j) /\ Whole(j)' = Whole(j)
    BY SameAnswer DEF CallStep
  <2>3. emitted' = emitted \cup {i} /\ Emit(<<Whole(i)>>)
    BY <1>3 DEF EmitOnce
  <2>4. /\ DOMAIN channel' = DOMAIN channel /\ channel'.text = channel.text
        /\ channel'.blocks = Append(channel.blocks, Whole(i))
        /\ channel'.log = Append(channel.log, "content_done")
    <3> DEFINE w == Whole(i)
               one == <<w>>
    <3>1. /\ DOMAIN channel' = DOMAIN channel /\ channel'.text = channel.text
          /\ channel'.blocks = channel.blocks \o one
          /\ channel'.log = channel.log \o [k \in DOMAIN one |-> "content_done"]
      BY <2>3 DEF Emit, StreamShape
    <3>2. [k \in DOMAIN one |-> "content_done"] = <<"content_done">>
      OBVIOUS
    <3>3. w \in Wholes
      BY DEF Wholes
    <3> HIDE DEF w
    <3>4. channel.blocks \o one = Append(channel.blocks, w)
      BY <3>3 DEF StreamShape
    <3>5. channel.log \o <<"content_done">> = Append(channel.log, "content_done")
      BY DEF StreamShape, Events
    <3> QED BY <3>1, <3>2, <3>4, <3>5 DEF w
  <2> DEFINE b == channel.blocks
             n == Len(b)
  <2>5. /\ b \in Seq(Wholes) /\ Whole(i) \in Wholes /\ n \in Nat /\ DOMAIN b = 1 .. n
    BY DEF StreamShape, Wholes
  <2>6. /\ channel'.blocks \in Seq(Wholes) /\ DOMAIN channel'.blocks = 1 .. n + 1
        /\ channel'.blocks[n + 1] = Whole(i) /\ \A k \in 1 .. n : channel'.blocks[k] = b[k]
    BY <2>4, <2>5, OneMore
  <2>7. /\ channel'.log \in Seq(Events) /\ channel'.log # <<>> /\ Last(channel'.log) = "content_done"
    BY <2>4, OneMore DEF StreamShape, Events
  <2>8. StreamShape'
    BY <2>1, <2>2, <2>4, <2>6, <2>7 DEF StreamShape
  <2>9. \A j \in emitted' : /\ Api = "chat" => wire'.finished
                            /\ Api = "responses" /\ CallOf(j).style = "pieces" => Sent(j)' > CallOf(j).args
    <3> SUFFICES ASSUME NEW j \in emitted', Api = "responses" /\ CallOf(j).style = "pieces"
                 PROVE  Sent(j)' > CallOf(j).args
      OBVIOUS
    <3>1. CASE j = i
      BY <3>1, <2>1
    <3>2. CASE j # i
      <4>1. j \in emitted /\ j \in Calls /\ Sent(j) > CallOf(j).args
        BY <2>3, <3>2 DEF BlocksEmitted, CallsKept
      <4> QED BY <2>1, <3>2, <4>1
    <3> QED BY <3>1, <3>2
  <2> HIDE DEF n, b
  <2>10. \A k \in 1 .. n + 1 : k \in 1 .. n \/ k = n + 1
    BY <2>5
  <2>11. \A k \in 1 .. n : \E j \in emitted : j \in Calls /\ b[k] = Whole(j)
    BY <2>5 DEF BlocksEmitted, CallsKept, b
  <2>12. \A k \in 1 .. n : b[k] # Whole(i)
    BY <1>3, <2>11, WholeDiffers
  <2>13. \A k \in DOMAIN channel'.blocks : \E j \in emitted' : channel'.blocks[k] = Whole(j)
    BY <2>3, <2>6, <2>10, <2>11
  <2>14. \A k, l \in DOMAIN channel'.blocks : channel'.blocks[k] = channel'.blocks[l] => k = l
    <3>1. \A k, l \in 1 .. n : b[k] = b[l] => k = l
      BY <2>5 DEF BlocksEmitted, b
    <3> QED BY <3>1, <2>6, <2>10, <2>12
  <2>15. BlocksEmitted'
    <3>1. emitted' \subseteq DOMAIN calls'
      BY <2>1, <2>3 DEF BlocksEmitted
    <3> QED BY <3>1, <2>2, <2>9, <2>13, <2>14 DEF BlocksEmitted
  <2>16. EndKnown' /\ ResponseKnown'
    <3>1. ~ wire'.finished /\ ~ Done'
      BY <2>1, <2>7 DEF Line, Done
    <3> QED BY <3>1 DEF EndKnown, ResponseKnown
  <2> QED BY <2>1, <2>8, <2>15, <2>16
<1> QED BY <1>2, <1>3

-----------------------------------------------------------------------------
(***************************************************************************)
(* The lines of calls, by API.                                             *)
(***************************************************************************)
\* A chat answer brings a call piece by piece.
LEMMA ChatCallLineKeeps ==
  ASSUME StreamInv, NEW i \in Calls, ChatCallLine(i)
  PROVE  StreamInv'
<1> DEFINE n == CallOf(i).args
           block == IF Sent(i) = 0
                    THEN [Held(i) EXCEPT !.id = CallOf(i).id, !.name = CallOf(i).name]
                    ELSE [Held(i) EXCEPT !.args = Append(@, <<i, Sent(i)>>)]
<1>1. /\ Api = "chat" /\ Line /\ Sent(i) <= n
      /\ CallStep(i, block) /\ UNCHANGED <<emitted, stop, channel>>
  BY DEF ChatCallLine, CallStep
<1>2. /\ Sent(i) \in Nat /\ n \in Nat
      /\ Sent(i) = 0 => Held(i) = NoBlock
      /\ Sent(i) > 0 => Held(i) = KnownAfter(i, Sent(i))
  BY HeldKnown DEF StreamInv
<1>3. Sent(i) < LinesOf(i)
  BY <1>1, <1>2 DEF LinesOf
<1>4. PiecesAfter(i, Sent(i)) = Sent(i) - 1 /\ PiecesAfter(i, Sent(i) + 1) = Sent(i)
  BY <1>1, <1>2 DEF PiecesAfter
<1>5. block = KnownAfter(i, Sent(i) + 1)
  <2>1. CASE Sent(i) = 0
    <3>1. Whole(i).id = CallOf(i).id /\ Whole(i).name = CallOf(i).name
      BY <1>1, WholeParts, AnswerFacts DEF StreamInv
    <3>2. Args(i, Sent(i)) = <<>>
      BY <2>1, PiecesGrow, <1>2
    <3>3. block = ToolUse(CallOf(i).id, CallOf(i).name, <<>>)
      <4>1. block = [NoBlock EXCEPT !.id = CallOf(i).id, !.name = CallOf(i).name]
        BY <1>2, <2>1
      <4>2. \A id, name : [NoBlock EXCEPT !.id = id, !.name = name] = ToolUse(id, name, <<>>)
        BY ToolUseNamed
      <4> QED BY <4>1, <4>2
    <3> QED BY <1>4, <3>1, <3>2, <3>3 DEF KnownAfter
  <2>2. CASE Sent(i) > 0
    <3>1. Append(Args(i, Sent(i) - 1), <<i, Sent(i)>>) = Args(i, Sent(i))
      <4>1. Sent(i) - 1 \in Nat /\ (Sent(i) - 1) + 1 = Sent(i)
        BY <1>2, <2>2
      <4> QED BY <4>1, PiecesGrow
    <3>2. Held(i) = ToolUse(Whole(i).id, Whole(i).name, Args(i, Sent(i) - 1))
      BY <1>2, <1>4, <2>2 DEF KnownAfter
    <3>3. block = [Held(i) EXCEPT !.args = Append(@, <<i, Sent(i)>>)]
      BY <1>2, <2>2
    <3>4. block = ToolUse(Whole(i).id, Whole(i).name, Args(i, Sent(i)))
      <4> DEFINE h == Held(i)
                 e == <<i, Sent(i)>>
      <4> HIDE DEF h, e
      <4>1. [h EXCEPT !.args = Append(@, e)]
              = ToolUse(Whole(i).id, Whole(i).name, Append(Args(i, Sent(i) - 1), e))
        BY <3>2, ToolUseFields DEF h
      <4> QED BY <3>1, <3>3, <4>1 DEF h, e
    <3> QED BY <1>4, <3>4 DEF KnownAfter
  <2> QED BY <1>2, <2>1, <2>2
<1> HIDE DEF block
<1> QED BY <1>1, <1>3, <1>5, QuietLine

\* The first event of a call of a Responses answer.
LEMMA ItemAddedKeeps ==
  ASSUME StreamInv, NEW i \in Calls, ItemAdded(i)
  PROVE  StreamInv'
<1> DEFINE block == ToolUse(CallOf(i).id, CallOf(i).name,
                      IF CallOf(i).style = "whole" THEN Args(i, CallOf(i).args) ELSE <<>>)
<1>1. /\ Api = "responses" /\ Line /\ CallOf(i).style \in {"pieces", "whole"} /\ Sent(i) = 0
      /\ CallStep(i, block) /\ UNCHANGED <<emitted, stop, channel>>
  BY DEF ItemAdded, Styled, CallStep
<1>2. CallOf(i).args \in Nat
  BY AnswerFacts DEF StreamInv
<1>3. Sent(i) < LinesOf(i)
  <2>1. CallOf(i).style = "pieces" \/ CallOf(i).style = "whole"
    BY <1>1
  <2>2. LinesBeforeLast(i) \in Nat
    BY <1>2, <2>1 DEF LinesBeforeLast
  <2>3. LinesOf(i) = LinesBeforeLast(i) + 1 /\ Sent(i) = 0
    BY <1>1 DEF LinesOf
  <2> QED BY <2>2, <2>3
<1>4. Whole(i).id = CallOf(i).id /\ Whole(i).name = CallOf(i).name
  BY <1>1, AnswerFacts, WholeParts DEF StreamInv
<1>5. Args(i, 0) = <<>>
  BY PiecesGrow
<1>6. block = KnownAfter(i, Sent(i) + 1)
  <2>1. CASE CallOf(i).style = "whole"
    <3>1. PiecesAfter(i, Sent(i) + 1) = CallOf(i).args
      BY <1>1, <2>1 DEF PiecesAfter
    <3> QED BY <2>1, <3>1, <1>4 DEF KnownAfter
  <2>2. CASE CallOf(i).style = "pieces"
    <3>1. PiecesAfter(i, Sent(i) + 1) = 0
      <4>1. Sent(i) = 0 /\ Api = "responses"
        BY <1>1
      <4> QED BY <4>1, <1>2, <2>2 DEF PiecesAfter
    <3> QED BY <2>2, <3>1, <1>4, <1>5 DEF KnownAfter
  <2> QED BY <1>1, <2>1, <2>2
<1> HIDE DEF block
<1> QED BY <1>1, <1>3, <1>6, QuietLine

\* A piece of the arguments.
LEMMA ArgumentsDeltaKeeps ==
  ASSUME StreamInv, NEW i \in Calls, ArgumentsDelta(i)
  PROVE  StreamInv'
<1> DEFINE n == CallOf(i).args
           block == [Held(i) EXCEPT !.args = Append(@, <<i, Sent(i)>>)]
<1>1. /\ Api = "responses" /\ Line /\ CallOf(i).style = "pieces" /\ Sent(i) \in 1 .. n
      /\ CallStep(i, block) /\ UNCHANGED <<emitted, stop, channel>>
  BY DEF ArgumentsDelta, Styled, CallStep
<1>2. n \in Nat /\ Sent(i) \in Nat /\ Held(i) = KnownAfter(i, Sent(i))
  BY <1>1, HeldKnown DEF StreamInv
<1>3. Sent(i) < LinesOf(i)
  BY <1>1, <1>2 DEF LinesOf, LinesBeforeLast
<1>4. PiecesAfter(i, Sent(i)) = Sent(i) - 1 /\ PiecesAfter(i, Sent(i) + 1) = Sent(i)
  BY <1>1, <1>2 DEF PiecesAfter
<1>5. block = KnownAfter(i, Sent(i) + 1)
  <2>1. Append(Args(i, Sent(i) - 1), <<i, Sent(i)>>) = Args(i, Sent(i))
    <3>1. Sent(i) - 1 \in Nat /\ (Sent(i) - 1) + 1 = Sent(i)
      BY <1>1, <1>2
    <3> QED BY <3>1, PiecesGrow
  <2>2. Held(i) = ToolUse(Whole(i).id, Whole(i).name, Args(i, Sent(i) - 1))
    BY <1>2, <1>4 DEF KnownAfter
  <2>3. block = ToolUse(Whole(i).id, Whole(i).name, Args(i, Sent(i)))
    <3> DEFINE h == Held(i)
               e == <<i, Sent(i)>>
    <3> HIDE DEF h, e
    <3>1. [h EXCEPT !.args = Append(@, e)]
            = ToolUse(Whole(i).id, Whole(i).name, Append(Args(i, Sent(i) - 1), e))
      BY <2>2, ToolUseFields DEF h
    <3> QED BY <2>1, <3>1 DEF h, e
  <2> QED BY <1>4, <2>3 DEF KnownAfter
<1> HIDE DEF block
<1> QED BY <1>1, <1>3, <1>5, QuietLine

\* The end of the arguments.
LEMMA ArgumentsDoneKeeps ==
  ASSUME StreamInv, NEW i \in Calls, ArgumentsDone(i)
  PROVE  StreamInv'
<1> DEFINE n == CallOf(i).args
           block == IF n = 0 THEN Held(i) ELSE [Held(i) EXCEPT !.args = Args(i, n)]
<1>1. /\ Api = "responses" /\ Line /\ CallOf(i).style = "pieces" /\ Sent(i) = n + 1
      /\ CallLine(i) /\ served' = served /\ stop' = stop
      /\ i \in DOMAIN calls => calls' = WithCall(i, block) /\ EmitOnce(i, block)
  BY DEF ArgumentsDone, Styled
<1>2. /\ n \in Nat /\ Sent(i) \in Nat /\ i \in DOMAIN calls
      /\ Held(i) = KnownAfter(i, Sent(i))
      /\ \A m : PiecesAfter(i, m) = n => KnownAfter(i, m) = Whole(i)
  <2>1. n \in Nat /\ Sent(i) \in Nat
    BY HeldKnown DEF StreamInv
  <2>2. Sent(i) > 0
    BY <1>1, <2>1
  <2> QED BY <2>1, <2>2, HeldKnown DEF StreamInv
<1>3. Sent(i) < LinesOf(i) /\ Sent(i) + 1 > n
  BY <1>1, <1>2 DEF LinesOf, LinesBeforeLast
<1>4. PiecesAfter(i, Sent(i)) = n /\ PiecesAfter(i, Sent(i) + 1) = n
  BY <1>1, <1>2 DEF PiecesAfter
<1>5. block = Whole(i)
  <2>1. Held(i) = Whole(i)
    BY <1>2, <1>4
  <2>2. Whole(i) = ToolUse(Whole(i).id, Whole(i).name, Args(i, n))
    BY WholeParts
  <2> DEFINE w == Whole(i)
             id == Whole(i).id
             name == Whole(i).name
             args == Args(i, n)
  <2> HIDE DEF w, id, name, args
  <2>3. [w EXCEPT !.args = args] = w
    <3>1. w = ToolUse(id, name, args)
      BY <2>2 DEF w, id, name, args
    <3>2. [w EXCEPT !.args = args] = ToolUse(id, name, args)
      BY <3>1 DEF ToolUse
    <3> QED BY <3>1, <3>2
  <2> QED BY <2>1, <2>3 DEF w, args
<1>6. CallStep(i, Whole(i)) /\ EmitOnce(i, Whole(i))
  BY <1>1, <1>2, <1>5 DEF CallStep
<1> QED BY <1>1, <1>3, <1>4, <1>6, FinishedCall

\* The last event of a call.
LEMMA ItemDoneKeeps ==
  ASSUME StreamInv, NEW i \in Calls, ItemDone(i)
  PROVE  StreamInv'
<1> DEFINE n == CallOf(i).args
           item  == ToolUse(CallOf(i).id, CallOf(i).name, Args(i, n))
           known == Held(i)
           block == ToolUse(IF known.id # "" THEN known.id ELSE item.id,
                            IF known.name # "" THEN known.name ELSE item.name,
                            IF item.args = <<>> THEN known.args ELSE item.args)
<1>1. /\ Api = "responses" /\ Line /\ Sent(i) = LinesBeforeLast(i)
      /\ CallStep(i, block) /\ EmitOnce(i, block) /\ stop' = stop
  BY DEF ItemDone, CallStep
<1>2. /\ n \in Nat
      /\ CallOf(i).style = "pieces" \/ CallOf(i).style = "whole" \/ CallOf(i).style = "late"
  BY AnswerFacts DEF StreamInv
<1>3. /\ Sent(i) \in Nat /\ Sent(i) = 0 => known = NoBlock
      /\ Sent(i) > 0 => known = KnownAfter(i, Sent(i))
      /\ \A m : PiecesAfter(i, m) = n => KnownAfter(i, m) = Whole(i)
  BY HeldKnown DEF StreamInv
<1>4. Sent(i) < LinesOf(i)
  <2>1. Api = "responses" /\ Sent(i) = LinesBeforeLast(i)
    BY <1>1
  <2>2. LinesOf(i) = Sent(i) + 1
    BY <2>1 DEF LinesOf
  <2>3. Sent(i) \in Nat
    BY HeldKnown DEF StreamInv
  <2> QED BY <2>2, <2>3
<1>5. /\ CallOf(i).style = "pieces" => Sent(i) = n + 2
      /\ CallOf(i).style = "whole" => Sent(i) = 1
      /\ CallOf(i).style = "late" => Sent(i) = 0
  BY <1>1 DEF LinesBeforeLast
<1> HIDE DEF n
<1>6. PiecesAfter(i, Sent(i) + 1) = n
  <2>1. Api = "responses"
    BY <1>1
  <2>2. CallOf(i).style = "pieces" => Sent(i) + 1 > n
    BY <1>2, <1>5
  <2>3. Sent(i) \in Nat
    BY HeldKnown DEF StreamInv
  <2> QED BY <2>1, <2>2, <2>3, <1>2 DEF PiecesAfter, n
<1>7. item = Whole(i)
  BY <1>1, AnswerFacts, WholeParts DEF n, StreamInv
<1>8. known = NoBlock \/ known = Whole(i)
  <2>1. CASE CallOf(i).style = "late"
    BY <1>3, <1>5, <2>1
  <2>2. CASE CallOf(i).style # "late"
    <3>1. Sent(i) > 0 /\ (CallOf(i).style = "pieces" => Sent(i) > n)
      BY <1>2, <1>5, <2>2
    <3>2. PiecesAfter(i, Sent(i)) = n
      <4>1. Api = "responses"
        BY <1>1
      <4>2. Sent(i) \in Nat
        BY HeldKnown DEF StreamInv
      <4> QED BY <3>1, <4>1, <4>2, <1>2 DEF PiecesAfter, n
    <3> QED BY <1>3, <3>1, <3>2
  <2> QED BY <2>1, <2>2
<1>9. block = Whole(i)
  <2>1. Whole(i) = ToolUse(Whole(i).id, Whole(i).name, Whole(i).args)
    BY WholeParts
  <2>2. NoBlock.id = "" /\ NoBlock.name = "" /\ NoBlock.args = <<>>
    BY DEF NoBlock, ToolUse
  <2>3. CASE known = Whole(i)
    BY <1>7, <2>1, <2>3
  <2>4. CASE known = NoBlock
    <3>1. /\ (IF known.id # "" THEN known.id ELSE item.id) = Whole(i).id
          /\ (IF known.name # "" THEN known.name ELSE item.name) = Whole(i).name
          /\ (IF item.args = <<>> THEN known.args ELSE item.args) = Whole(i).args
      BY <1>7, <2>2, <2>4
    <3> QED BY <2>1, <3>1
  <2> QED BY <1>8, <2>3, <2>4
<1>10. CallStep(i, Whole(i)) /\ EmitOnce(i, Whole(i))
  BY <1>1, <1>9
<1>11. CallOf(i).style = "pieces" => Sent(i) + 1 > n
  BY <1>2, <1>5
<1> QED BY <1>1, <1>4, <1>6, <1>10, <1>11, FinishedCall DEF n

\* A call of a Gemini answer.
LEMMA GeminiCallLineKeeps ==
  ASSUME StreamInv, NEW i \in Calls, GeminiCallLine(i)
  PROVE  StreamInv'
<1>1. /\ Api = "gemini" /\ Line /\ Sent(i) = 0 /\ CallStep(i, Whole(i)) /\ stop' = stop
      /\ emitted' = emitted \cup {i} /\ Emit(<<Whole(i)>>)
  BY DEF GeminiCallLine, CallStep
<1>2. i \notin emitted
  BY <1>1, HeldKnown DEF StreamInv, BlocksEmitted
<1>3. EmitOnce(i, Whole(i))
  BY <1>1, <1>2 DEF EmitOnce
<1>4. Sent(i) < LinesOf(i) /\ PiecesAfter(i, Sent(i) + 1) = CallOf(i).args
  BY <1>1 DEF LinesOf, PiecesAfter
<1> QED BY <1>1, <1>3, <1>4, FinishedCall

-----------------------------------------------------------------------------
(***************************************************************************)
(* The other lines and the end of the body.                                *)
(***************************************************************************)
\* A line that is of no call leaves what is known of the calls.
LEMMA CallsStay ==
  ASSUME CallsKept, BlocksEmitted, UNCHANGED <<served, calls, emitted>>,
         wire'.calls = wire.calls, channel'.blocks = channel.blocks, wire.finished => wire'.finished
  PROVE  CallsKept' /\ BlocksEmitted'
<1>1. /\ Api' = Api /\ Calls' = Calls
      /\ \A i : /\ CallOf(i)' = CallOf(i) /\ Whole(i)' = Whole(i) /\ LinesOf(i)' = LinesOf(i)
                /\ \A n : KnownAfter(i, n)' = KnownAfter(i, n)
  BY SameAnswer
<1>2. \A i : Sent(i)' = Sent(i)
  BY DEF Sent
<1>3. calls' = calls /\ emitted' = emitted
  OBVIOUS
<1>4. CallsKept'
  BY <1>1, <1>2, <1>3 DEF CallsKept
<1>5. BlocksEmitted'
  BY <1>1, <1>2, <1>3 DEF BlocksEmitted
<1> QED BY <1>4, <1>5

\* When all was sent, all calls are known whole.
LEMMA AllWhole ==
  ASSUME StreamShape, CallsKept, \A i \in Calls : Sent(i) = LinesOf(i)
  PROVE  DOMAIN calls = Calls /\ \A i \in Calls : calls[i] = Whole(i)
<1>1. ASSUME NEW i \in Calls
      PROVE  Sent(i) > 0 /\ PiecesAfter(i, Sent(i)) = CallOf(i).args
  <2>1. /\ CallOf(i).args \in Nat
        /\ CallOf(i).style = "pieces" \/ CallOf(i).style = "whole" \/ CallOf(i).style = "late"
    BY AnswerFacts
  <2>2. /\ LinesBeforeLast(i) \in Nat
        /\ CallOf(i).style = "pieces" => LinesBeforeLast(i) = CallOf(i).args + 2
    BY <2>1 DEF LinesBeforeLast
  <2>3. LinesOf(i) > 0
    BY <2>1, <2>2 DEF LinesOf
  <2>4. PiecesAfter(i, LinesOf(i)) = CallOf(i).args
    BY <2>1, <2>2 DEF LinesOf, PiecesAfter
  <2> QED BY <2>3, <2>4
<1>2. DOMAIN calls = Calls
  BY <1>1 DEF CallsKept
<1>3. \A i \in Calls : calls[i] = KnownAfter(i, Sent(i))
  BY <1>2 DEF CallsKept
<1> QED BY <1>1, <1>2, <1>3, HeldKnown

\* What was emitted is known whole.
LEMMA EmittedWhole ==
  ASSUME StreamInv, NEW i \in emitted
  PROVE  i \in DOMAIN calls /\ i \in Calls /\ calls[i] = Whole(i)
<1>1. i \in DOMAIN calls /\ i \in Calls
  BY DEF StreamInv, BlocksEmitted, CallsKept
<1>2. CASE Api = "chat"
  <2>1. \A j \in Calls : Sent(j) = LinesOf(j)
    BY <1>2 DEF StreamInv, BlocksEmitted, EndKnown
  <2> QED BY <1>1, <2>1, AllWhole DEF StreamInv
<1>3. CASE Api # "chat"
  <2>1. Api = "responses" /\ CallOf(i).style = "pieces" => Sent(i) > CallOf(i).args
    BY DEF StreamInv, BlocksEmitted
  <2>2. Sent(i) \in Nat /\ CallOf(i).args \in Nat
    BY <1>1, HeldKnown DEF StreamInv
  <2>3. PiecesAfter(i, Sent(i)) = CallOf(i).args
    BY <1>3, <2>1, <2>2 DEF PiecesAfter
  <2>4. calls[i] = KnownAfter(i, Sent(i))
    BY <1>1 DEF StreamInv, CallsKept
  <2> QED BY <1>1, <2>3, <2>4, HeldKnown DEF StreamInv
<1> QED BY <1>2, <1>3

\* A piece of text.
LEMMA TextLineKeeps ==
  ASSUME StreamInv, TextLine
  PROVE  StreamInv'
<1> USE DEF StreamInv
<1>1. /\ Line /\ UNCHANGED <<served, calls, emitted, stop>>
      /\ DOMAIN wire' = DOMAIN wire /\ wire'.texts = wire.texts + 1
      /\ wire'.calls = wire.calls /\ wire'.finished = wire.finished
      /\ DOMAIN channel' = DOMAIN channel /\ channel'.text = channel.text + 1
      /\ channel'.log = Append(channel.log, "delta") /\ channel'.blocks = channel.blocks
  BY DEF TextLine, StreamShape
<1>2. CallsKept' /\ BlocksEmitted'
  BY <1>1, CallsStay
<1>3. channel'.log \in Seq(Events) /\ channel'.log # <<>> /\ Last(channel'.log) = "delta"
  BY <1>1, OneMore DEF StreamShape, Events
<1>4. StreamShape'
  <2>1. Calls' = Calls /\ Wholes' = Wholes
    BY <1>1, SameAnswer
  <2> QED BY <1>1, <1>3, <2>1 DEF StreamShape
<1>5. EndKnown' /\ ResponseKnown'
  <2>1. ~ wire'.finished /\ ~ Done'
    BY <1>1, <1>3 DEF Line, Done
  <2> QED BY <2>1 DEF EndKnown, ResponseKnown
<1> QED BY <1>2, <1>4, <1>5

\* The answer is over, and nothing is sent for that.
LEMMA QuietEnd ==
  ASSUME StreamInv, Line, UNCHANGED <<served, calls, emitted, channel>>,
         wire' = [wire EXCEPT !.finished = TRUE],
         wire.texts = served.texts, \A i \in Calls : Sent(i) = LinesOf(i),
         Api # "responses" => stop' = CompleteResponse.stop,
         Api = "responses" => served.stop # "end"
  PROVE  StreamInv'
<1> USE DEF StreamInv
<1>1. /\ DOMAIN wire' = DOMAIN wire /\ wire'.texts = wire.texts
      /\ wire'.calls = wire.calls /\ wire'.finished = TRUE
  BY DEF StreamShape
<1>2. CallsKept' /\ BlocksEmitted'
  BY <1>1, CallsStay
<1>3. /\ Calls' = Calls /\ Wholes' = Wholes /\ Api' = Api /\ CompleteResponse' = CompleteResponse
      /\ \A i : LinesOf(i)' = LinesOf(i)
  BY SameAnswer
<1>4. StreamShape'
  BY <1>1, <1>3 DEF StreamShape
<1>5. ~ Done'
  BY DEF Line, Open, Done
<1>6. EndKnown'
  BY <1>1, <1>3 DEF EndKnown, Sent
<1> QED BY <1>2, <1>4, <1>5, <1>6 DEF ResponseKnown

\* A Gemini answer is over.
LEMMA GeminiFinishKeeps ==
  ASSUME StreamInv, GeminiFinish
  PROVE  StreamInv'
<1>1. /\ Api = "gemini" /\ Line /\ wire.texts = served.texts
      /\ \A i \in Calls : Sent(i) = LinesOf(i)
      /\ wire' = [wire EXCEPT !.finished = TRUE]
      /\ UNCHANGED <<served, calls, emitted, channel>>
  BY DEF GeminiFinish, LinesOf
<1>2. stop' = CompleteResponse.stop
  BY <1>1 DEF GeminiFinish, CompleteResponse
<1> QED BY <1>1, <1>2, QuietEnd

\* A Responses answer that the limit cut is over.
LEMMA ResponseIncompleteKeeps ==
  ASSUME StreamInv, ResponseIncomplete
  PROVE  StreamInv'
<1>1. /\ Api = "responses" /\ Line /\ wire.texts = served.texts
      /\ \A i \in Calls : Sent(i) = LinesOf(i)
      /\ wire' = [wire EXCEPT !.finished = TRUE] /\ served.stop # "end"
      /\ UNCHANGED <<served, calls, emitted, channel>>
  BY DEF ResponseIncomplete, AllDone, LinesOf
<1> QED BY <1>1, QuietEnd

\* The final event.
LEMMA FinishFacts ==
  ASSUME StreamShape, NEW type \in {"done", "error"}, NEW r, Finish(type, r)
  PROVE  /\ DOMAIN channel' = DOMAIN channel /\ channel'.text = channel.text
         /\ channel'.blocks = channel.blocks /\ channel'.response = r
         /\ channel'.log = Append(channel.log, type)
         /\ channel'.log \in Seq(Events) /\ channel'.log # <<>> /\ Last(channel'.log) = type
<1>1. /\ DOMAIN channel' = DOMAIN channel /\ channel'.text = channel.text
      /\ channel'.blocks = channel.blocks /\ channel'.response = r
      /\ channel'.log = Append(channel.log, type)
  BY DEF Finish, StreamShape
<1>2. channel'.log \in Seq(Events) /\ channel'.log # <<>> /\ Last(channel'.log) = type
  BY <1>1, OneMore DEF StreamShape, Events
<1> QED BY <1>1, <1>2

\* What is stored depends on the answer and on what the channel got.
LEMMA StoredSame ==
  ASSUME served' = served
  PROVE  /\ Stored(channel.response, channel.text)' = Stored(channel'.response, channel'.text)
         /\ Stored(CompleteResponse, served.texts)' = Stored(CompleteResponse, served.texts)
BY SameAnswer DEF Stored, Encodes, IsWhole

\* What a response must have.
Holds(r) ==
  /\ ToSet(channel.blocks) \subseteq ToSet(r.calls)
  /\ wire.finished => ToSet(r.calls) = Wholes /\ Len(r.calls) = Len(served.calls)
  /\ wire.finished /\ ~(Api = "responses" /\ served.stop = "length") =>
       /\ r.stop = CompleteResponse.stop
       /\ \/ Api = "chat" /\ Calls # {}
          \/ Stored(r, channel.text) = Stored(CompleteResponse, served.texts)

\* The body is over, with a response that has what it must.
LEMMA EndsWith ==
  ASSUME StreamInv, Open, NEW r, Finish("done", r), Holds(r),
         UNCHANGED <<served, wire, calls, emitted, stop>>
  PROVE  StreamInv'
<1> USE DEF StreamInv
<1>1. /\ DOMAIN channel' = DOMAIN channel /\ channel'.text = channel.text
      /\ channel'.blocks = channel.blocks /\ channel'.response = r
      /\ channel'.log \in Seq(Events) /\ channel'.log # <<>> /\ Last(channel'.log) = "done"
  BY FinishFacts
<1>2. CallsKept' /\ BlocksEmitted'
  BY <1>1, CallsStay
<1>3. /\ Calls' = Calls /\ Wholes' = Wholes /\ Api' = Api /\ CompleteResponse' = CompleteResponse
      /\ \A i : LinesOf(i)' = LinesOf(i)
  BY SameAnswer
<1>4. StreamShape'
  BY <1>1, <1>3 DEF StreamShape
<1>5. Done'
  BY <1>1 DEF Done
<1>6. EndKnown'
  BY <1>3, <1>5 DEF EndKnown, Sent
<1>7. ResponseKnown'
  <2>1. EmittedIsInResponse'
    BY <1>1 DEF Holds, EmittedIsInResponse
  <2>2. StoredLikeComplete'
    BY <1>1, <1>3, StoredSame DEF Holds, StoredLikeComplete
  <2> QED BY <1>1, <1>3, <2>1, <2>2 DEF Holds, ResponseKnown
<1> QED BY <1>2, <1>4, <1>6, <1>7

\* The body is over, with an error.
LEMMA EndsBroken ==
  ASSUME StreamInv, Open, Finish("error", NoAnswer), ~ (wire.finished /\ Api = "responses" /\ served.stop = "end"),
         UNCHANGED <<served, wire, calls, emitted, stop>>
  PROVE  StreamInv'
<1> USE DEF StreamInv
<1>1. /\ DOMAIN channel' = DOMAIN channel /\ channel'.text = channel.text
      /\ channel'.blocks = channel.blocks
      /\ channel'.log \in Seq(Events) /\ channel'.log # <<>> /\ Last(channel'.log) = "error"
  BY FinishFacts
<1>2. CallsKept' /\ BlocksEmitted'
  BY <1>1, CallsStay
<1>3. /\ Calls' = Calls /\ Wholes' = Wholes /\ Api' = Api /\ CompleteResponse' = CompleteResponse
      /\ \A i : LinesOf(i)' = LinesOf(i)
  BY SameAnswer
<1>4. StreamShape'
  BY <1>1, <1>3 DEF StreamShape
<1>5. EndKnown'
  BY <1>3 DEF EndKnown, Sent
<1>6. ~ Done'
  BY <1>1 DEF Done
<1> QED BY <1>2, <1>4, <1>5, <1>6 DEF ResponseKnown

\* The length of a list given by its domain.
LEMMA ListLength ==
  ASSUME NEW n \in Nat, NEW f, f = [k \in 1 .. n |-> f[k]]
  PROVE  Len(f) = n /\ ToSet(f) = {f[k] : k \in 1 .. n} /\ f \in Seq(ToSet(f))
<1> DEFINE T == {f[k] : k \in 1 .. n}
<1>1. f \in [1 .. n -> T]
  OBVIOUS
<1>2. DOMAIN f = 1 .. n
  BY <1>1
<1>3. ToSet(f) = T
  BY <1>2 DEF ToSet
<1> HIDE DEF T
<1>4. f \in Seq(T)
  BY <1>1
<1>5. Len(f) = n
  BY <1>2, <1>4
<1> QED BY <1>3, <1>4, <1>5 DEF T

\* An order of the calls has each of them once.
LEMMA OrderFacts ==
  ASSUME StreamShape, CallsKept, NEW order \in Orders
  PROVE  /\ order \in [DOMAIN order -> DOMAIN calls]
         /\ \A i \in DOMAIN calls : \E k \in DOMAIN order : order[k] = i
         /\ \A k, l \in DOMAIN order : order[k] = order[l] => k = l
         /\ DOMAIN calls = Calls => DOMAIN order = Calls
         /\ Api = "gemini" => order = [i \in DOMAIN calls |-> i]
         /\ Api # "gemini" => \E n \in Nat : DOMAIN order = 1 .. n
<1>1. CASE Api = "gemini"
  BY <1>1 DEF Orders
<1>2. CASE Api # "gemini"
  <2> DEFINE S == DOMAIN calls
             n == Cardinality(S)
  <2>1. IsFiniteSet(S) /\ n \in Nat
    <3>1. IsFiniteSet(Calls) /\ S \in SUBSET Calls
      BY AnswerFacts DEF CallsKept
    <3> QED BY <3>1, FS_Subset, FS_CardinalityType
  <2>2. /\ order \in [1 .. n -> S] /\ DOMAIN order = 1 .. n
        /\ \A k, l \in 1 .. n : k # l => order[k] # order[l]
    BY <1>2 DEF Orders, SetToSeqs
  <2> HIDE DEF S, n
  <2>3. order \in Injection(1 .. n, S)
    BY <2>2 DEF Injection, IsInjective
  <2>4. Cardinality(1 .. n) = Cardinality(S)
    BY <2>1, FS_Interval DEF n
  <2>5. order \in Surjection(1 .. n, S)
    BY <2>1, <2>3, <2>4, FS_Injection
  <2>6. \A i \in S : \E k \in 1 .. n : order[k] = i
    BY <2>5 DEF Surjection
  <2>7. S = Calls => 1 .. n = Calls
    BY AnswerFacts DEF n
  <2> QED BY <1>2, <2>1, <2>2, <2>6, <2>7 DEF S
<1> QED BY <1>1, <1>2

\* What is collected has what a response must have.
LEMMA CollectedHolds ==
  ASSUME StreamInv, Open, NEW order \in Orders
  PROVE  Holds(Collected(order))
<1> DEFINE r == Collected(order)
           D == DOMAIN order
<1> USE DEF StreamInv
<1>1. /\ r.calls = [k \in D |-> calls[order[k]]]
      /\ r.text = (Api = "gemini" /\ channel.text > 0)
      /\ Api # "responses" => r.stop = stop
  BY DEF Collected
<1>2. /\ order \in [D -> DOMAIN calls]
      /\ \A i \in DOMAIN calls : \E k \in D : order[k] = i
      /\ DOMAIN calls = Calls => D = Calls
      /\ Api = "gemini" => order = [i \in DOMAIN calls |-> i]
  BY OrderFacts
<1> HIDE DEF r
<1>3. ToSet(r.calls) = {calls[i] : i \in DOMAIN calls}
  <2>1. ToSet(r.calls) = {calls[order[k]] : k \in D}
    BY <1>1 DEF ToSet
  <2> QED BY <1>2, <2>1
<1>4. ToSet(channel.blocks) \subseteq ToSet(r.calls)
  <2>1. \A k \in DOMAIN channel.blocks : \E i \in emitted : channel.blocks[k] = Whole(i)
    BY DEF BlocksEmitted
  <2>2. \A i \in emitted : i \in DOMAIN calls /\ Whole(i) = calls[i]
    BY EmittedWhole
  <2> QED BY <1>3, <2>1, <2>2 DEF ToSet
<1>5. ASSUME wire.finished
      PROVE  /\ DOMAIN calls = Calls /\ \A i \in Calls : calls[i] = Whole(i)
             /\ ToSet(r.calls) = Wholes /\ Len(r.calls) = Len(served.calls)
  <2>1. DOMAIN calls = Calls /\ \A i \in Calls : calls[i] = Whole(i)
    BY <1>5, AllWhole DEF EndKnown
  <2>2. ToSet(r.calls) = Wholes
    BY <1>3, <2>1 DEF Wholes
  <2>3. D = 1 .. Len(served.calls) /\ Len(served.calls) \in Nat
    BY <1>2, <2>1, AnswerFacts
  <2>4. r.calls = [k \in 1 .. Len(served.calls) |-> r.calls[k]]
    BY <1>1, <2>3
  <2> QED BY <2>1, <2>2, <2>3, <2>4, ListLength
<1>6. ASSUME wire.finished, ~(Api = "responses" /\ served.stop = "length")
      PROVE  /\ r.stop = CompleteResponse.stop
             /\ \/ Api = "chat" /\ Calls # {}
                \/ Stored(r, channel.text) = Stored(CompleteResponse, served.texts)
  <2>1. Api # "responses"
    <3>1. served.stop \in {"end", "length"}
      BY AnswerFacts
    <3>2. ~ Done
      BY DEF Open, Done
    <3> QED BY <1>6, <3>1, <3>2 DEF EndKnown
  <2>2. r.stop = CompleteResponse.stop
    BY <1>1, <1>6, <2>1 DEF EndKnown
  <2>3. channel.text = served.texts
    BY <1>6 DEF EndKnown, StreamShape
  <2>4. CompleteResponse.calls = [i \in Calls |-> Whole(i)] /\ CompleteResponse.text = (served.texts > 0)
    BY DEF CompleteResponse
  <2>5. CASE Api = "gemini"
    <3>1. D = Calls /\ \A i \in Calls : order[i] = i
      BY <1>2, <1>5, <1>6, <2>5
    <3>2. r.calls = CompleteResponse.calls
      BY <1>1, <1>5, <1>6, <2>4, <3>1
    <3>3. r.text = CompleteResponse.text
      BY <1>1, <2>3, <2>4, <2>5
    <3>4. Encodes(r) = Encodes(CompleteResponse)
      BY <3>2 DEF Encodes
    <3> QED BY <2>2, <2>3, <3>2, <3>3, <3>4 DEF Stored
  <2>6. CASE Api = "chat" /\ Calls = {}
    <3>1. D = {}
      BY <1>2, <1>5, <1>6, <2>6
    <3>2. r.calls = <<>> /\ CompleteResponse.calls = <<>>
      BY <1>1, <2>4, <2>6, <3>1
    <3> QED BY <2>2, <2>3, <3>2 DEF Stored
  <2> QED BY <2>1, <2>2, <2>5, <2>6, AnswerFacts
<1> QED BY <1>4, <1>5, <1>6 DEF Holds, r

\* The end of the body.
LEMMA BodyEndsKeeps ==
  ASSUME StreamInv, BodyEnds
  PROVE  StreamInv'
<1>1. PICK order \in Orders : Finish("done", Collected(order))
  BY DEF BodyEnds
<1>2. Open /\ UNCHANGED <<served, wire, calls, emitted, stop>>
  BY DEF BodyEnds
<1> QED BY <1>1, <1>2, CollectedHolds, EndsWith

\* The body breaks off.
LEMMA BodyBreaksKeeps ==
  ASSUME StreamInv, BodyBreaks
  PROVE  StreamInv'
<1>1. Open /\ UNCHANGED <<served, wire, calls, emitted, stop>>
  BY DEF BodyBreaks
<1>2. CASE Api = "gemini"
  <2>1. PICK order \in Orders : Finish("done", Collected(order))
    BY <1>2 DEF BodyBreaks
  <2> QED BY <1>1, <2>1, CollectedHolds, EndsWith
<1>3. CASE Api # "gemini"
  <2>1. Finish("error", NoAnswer)
    BY <1>3 DEF BodyBreaks
  <2>2. ~ (wire.finished /\ Api = "responses" /\ served.stop = "end")
    BY <1>1 DEF StreamInv, EndKnown, Open, Done
  <2> QED BY <1>1, <2>1, <2>2, EndsBroken
<1> QED BY <1>2, <1>3

\* The Responses API reports an error.
LEMMA ResponseFailedKeeps ==
  ASSUME StreamInv, ResponseFailed
  PROVE  StreamInv'
BY EndsBroken DEF ResponseFailed, Line

\* The Responses API completes the answer.
LEMMA ResponseCompletedKeeps ==
  ASSUME StreamInv, ResponseCompleted
  PROVE  StreamInv'
<1> DEFINE r == ResponsesResult
<1> USE DEF StreamInv
<1>1. /\ Api = "responses" /\ Line /\ AllDone /\ served.stop = "end"
      /\ wire' = [wire EXCEPT !.finished = TRUE] /\ Finish("done", r)
      /\ UNCHANGED <<served, calls, emitted, stop>>
  BY DEF ResponseCompleted
<1>2. /\ DOMAIN channel' = DOMAIN channel /\ channel'.text = channel.text
      /\ channel'.blocks = channel.blocks /\ channel'.response = r
      /\ channel'.log \in Seq(Events) /\ channel'.log # <<>> /\ Last(channel'.log) = "done"
  BY <1>1, FinishFacts
<1>3. /\ DOMAIN wire' = DOMAIN wire /\ wire'.texts = wire.texts
      /\ wire'.calls = wire.calls /\ wire'.finished = TRUE
  BY <1>1 DEF StreamShape
<1>4. CallsKept' /\ BlocksEmitted'
  BY <1>1, <1>2, <1>3, CallsStay
<1>5. /\ Calls' = Calls /\ Wholes' = Wholes /\ Api' = Api /\ CompleteResponse' = CompleteResponse
      /\ \A i : LinesOf(i)' = LinesOf(i)
  BY <1>1, SameAnswer
<1>6. StreamShape'
  BY <1>1, <1>2, <1>3, <1>5 DEF StreamShape
<1>7. Done'
  BY <1>2 DEF Done
<1>8. EndKnown'
  <2>1. wire.texts = served.texts /\ \A i \in Calls : Sent(i) = LinesOf(i)
    BY <1>1 DEF AllDone, LinesOf
  <2> QED BY <1>1, <1>3, <1>5, <1>7, <2>1 DEF EndKnown, Sent
<1>9. r = CompleteResponse
  BY <1>1 DEF ResponsesResult, CompleteResponse
<1>10. CompleteResponse.calls = [i \in Calls |-> Whole(i)]
  BY DEF CompleteResponse
<1>11. ToSet(CompleteResponse.calls) = Wholes /\ Len(CompleteResponse.calls) = Len(served.calls)
  <2> DEFINE c == CompleteResponse.calls
  <2>1. Calls = 1 .. Len(served.calls) /\ Len(served.calls) \in Nat
    BY AnswerFacts
  <2>2. c = [k \in 1 .. Len(served.calls) |-> c[k]]
    BY <1>10, <2>1
  <2>3. ToSet(c) = Wholes
    BY <1>10 DEF ToSet, Wholes
  <2> QED BY <2>1, <2>2, <2>3, ListLength
<1>12. EmittedIsInResponse'
  <2>1. ToSet(channel.blocks) \subseteq Wholes
    BY DEF StreamShape, ToSet
  <2> QED BY <1>2, <1>9, <1>11, <2>1 DEF EmittedIsInResponse
<1>13. StoredLikeComplete'
  <2>1. channel'.text = served.texts
    BY <1>1, <1>2 DEF AllDone, StreamShape
  <2> QED BY <1>1, <1>2, <1>5, <1>9, <2>1, StoredSame DEF StoredLikeComplete
<1>14. ResponseKnown'
  BY <1>1, <1>2, <1>5, <1>9, <1>11, <1>12, <1>13 DEF ResponseKnown
<1> QED BY <1>4, <1>6, <1>8, <1>14

\* The finish reason of a chat answer.
LEMMA ChatFinishKeeps ==
  ASSUME StreamInv, ChatFinish
  PROVE  StreamInv'
<1> USE DEF StreamInv
<1>1. /\ Api = "chat" /\ Line /\ wire.texts = served.texts
      /\ \A i \in Calls : Sent(i) = LinesOf(i)
      /\ wire' = [wire EXCEPT !.finished = TRUE] /\ UNCHANGED <<served, calls>>
  BY DEF ChatFinish, AllSent, LinesOf
<1>2. stop' = CompleteResponse.stop
  <2>1. stop' = IF served.stop = "length" THEN "max_tokens"
                ELSE IF Calls # {} THEN "tool_calls" ELSE "stop"
    BY DEF ChatFinish
  <2>2. CompleteResponse.stop =
          IF Calls # {} /\ (Api = "responses" \/ (Api = "chat" /\ served.stop # "length"))
          THEN "tool_calls" ELSE IF served.stop = "length" THEN "max_tokens" ELSE "stop"
    BY DEF CompleteResponse
  <2>3. Api = "chat"
    BY <1>1
  <2> QED BY <2>1, <2>2, <2>3
<1>3. CASE served.stop = "length"
  <2>1. UNCHANGED <<emitted, channel>>
    BY <1>3 DEF ChatFinish
  <2> QED BY <1>1, <1>2, <2>1, QuietEnd
<1>4. CASE served.stop # "length"
  <2>1. PICK order \in SetToSeqs(DOMAIN calls) : Emit([k \in DOMAIN order |-> calls[order[k]]])
    BY <1>4 DEF ChatFinish
  <2> DEFINE D == DOMAIN order
             list == [k \in D |-> calls[order[k]]]
             said == [k \in DOMAIN list |-> "content_done"]
  <2>2. emitted' = DOMAIN calls
    BY <1>4 DEF ChatFinish
  <2>3. DOMAIN calls = Calls /\ \A i \in Calls : calls[i] = Whole(i)
    BY <1>1, AllWhole
  <2>4. order \in Orders
    BY <1>1 DEF Orders
  <2>5. /\ order \in [D -> Calls] /\ D = Calls
        /\ \A k, l \in D : order[k] = order[l] => k = l
    BY <2>3, <2>4, OrderFacts
  <2>6. channel.blocks = <<>>
    <3>1. emitted = {}
      BY <1>1 DEF BlocksEmitted, Line
    <3>2. DOMAIN channel.blocks = {}
      BY <3>1 DEF BlocksEmitted
    <3> DEFINE b == channel.blocks
    <3>3. b \in Seq(Wholes) /\ DOMAIN b = {}
      BY <3>2 DEF StreamShape
    <3> HIDE DEF b
    <3>4. Len(b) \in Nat /\ DOMAIN b = 1 .. Len(b)
      BY <3>3
    <3>5. Len(b) = 0
      <4>1. Len(b) > 0 => 1 \in DOMAIN b
        BY <3>4
      <4> QED BY <3>3, <3>4, <4>1
    <3>6. b = <<>>
      BY <3>3, <3>5
    <3> QED BY <3>6 DEF b
  <2>7. /\ DOMAIN wire' = DOMAIN wire /\ wire'.texts = wire.texts
        /\ wire'.calls = wire.calls /\ wire'.finished = TRUE
    BY <1>1 DEF StreamShape
  <2>8. /\ DOMAIN channel' = DOMAIN channel /\ channel'.text = channel.text
        /\ channel'.blocks = channel.blocks \o list /\ channel'.log = channel.log \o said
    BY <2>1 DEF Emit, StreamShape
  <2>9. Len(served.calls) \in Nat /\ Calls = 1 .. Len(served.calls)
    BY AnswerFacts
  <2> DEFINE n == Len(served.calls)
  <2>10. D = 1 .. n /\ n \in Nat
    BY <2>5, <2>9
  <2>11. /\ \A k \in D : list[k] = Whole(order[k]) /\ order[k] \in Calls
         /\ \A k \in D : list[k] \in Wholes
    BY <2>3, <2>5 DEF Wholes
  <2>12. /\ list \in Seq(Wholes) /\ DOMAIN list = D
         /\ said \in Seq(Events) /\ DOMAIN said = D /\ Len(said) = n
         /\ \A k \in D : said[k] = "content_done"
    <3>1. list \in [1 .. n -> Wholes] /\ DOMAIN list = D
      BY <2>10, <2>11
    <3>2. said \in [1 .. n -> Events] /\ \A k \in D : said[k] = "content_done"
      BY <2>10 DEF Events
    <3> HIDE DEF list, said, n
    <3>3. list \in Seq(Wholes)
      BY <2>10, <3>1
    <3>4. said \in Seq(Events) /\ DOMAIN said = 1 .. n /\ Len(said) = n
      BY <2>10, <3>2
    <3> QED BY <2>10, <3>1, <3>2, <3>3, <3>4
  <2> HIDE DEF list, said, n
  <2>13. channel'.blocks = list
    BY <2>6, <2>8, <2>12
  <2>14. /\ channel'.log \in Seq(Events) /\ channel'.log # <<>>
         /\ Last(channel'.log) \in {Last(channel.log), "content_done"}
    <3> DEFINE l == channel.log
               m == channel'.log
    <3>1. l \in Seq(Events) /\ l # <<>> /\ m = l \o said
      BY <2>8 DEF StreamShape
    <3> HIDE DEF l, m
    <3>2. /\ m \in Seq(Events) /\ m # <<>> /\ Len(m) = Len(l) + n /\ Len(l) \in Nat
          /\ \A k \in 1 .. Len(l) : m[k] = l[k]
          /\ \A k \in Len(l) + 1 .. Len(l) + n : m[k] = said[k - Len(l)]
      <4>1. said \in Seq(Events) /\ Len(said) = n
        BY <2>12
      <4>2. Len(l) \in Nat
        BY <3>1
      <4> HIDE DEF n
      <4>3. l \in Seq(Events) /\ m = l \o said
        BY <3>1
      <4>4. m # <<>>
        BY <3>1, <4>1, <4>2
      <4>5. /\ m \in Seq(Events) /\ Len(m) = Len(l) + Len(said)
            /\ \A k \in 1 .. Len(l) : m[k] = l[k]
            /\ \A k \in Len(l) + 1 .. Len(l) + Len(said) : m[k] = said[k - Len(l)]
        BY <4>1, <4>3
      <4> QED BY <4>1, <4>2, <4>4, <4>5
    <3>3. Last(m) \in {Last(l), "content_done"}
      <4>1. CASE n = 0
        <5>1. Len(m) = Len(l) /\ Len(l) \in 1 .. Len(l)
          BY <3>1, <3>2, <4>1
        <5> QED BY <3>2, <5>1 DEF Last
      <4>2. CASE n # 0
        <5>1. Len(m) \in Len(l) + 1 .. Len(l) + n /\ Len(m) - Len(l) = n /\ n \in 1 .. n
          BY <2>10, <3>2, <4>2
        <5>2. m[Len(m)] = said[n] /\ said[n] = "content_done"
          <6>1. n \in D
            BY <2>10, <5>1
          <6>2. m[Len(m)] = said[Len(m) - Len(l)]
            BY <3>2, <5>1
          <6> QED BY <2>12, <5>1, <6>1, <6>2
        <5> QED BY <5>2 DEF Last
      <4> QED BY <4>1, <4>2
    <3> QED BY <3>2, <3>3 DEF l, m
  <2>15. /\ Calls' = Calls /\ Wholes' = Wholes /\ Api' = Api /\ CompleteResponse' = CompleteResponse
         /\ \A i : /\ CallOf(i)' = CallOf(i) /\ Whole(i)' = Whole(i) /\ LinesOf(i)' = LinesOf(i)
                   /\ \A k : KnownAfter(i, k)' = KnownAfter(i, k)
    BY <1>1, SameAnswer
  <2>16. StreamShape'
    BY <1>1, <2>7, <2>8, <2>12, <2>13, <2>14, <2>15 DEF StreamShape
  <2>17. CallsKept'
    <3>1. calls' = calls /\ \A i : Sent(i)' = Sent(i)
      BY <1>1, <2>7 DEF Sent
    <3> QED BY <2>15, <3>1 DEF CallsKept
  <2>18. BlocksEmitted'
    <3>1. emitted' = Calls /\ DOMAIN calls' = Calls /\ wire'.finished /\ Api' = "chat"
      BY <1>1, <2>2, <2>3, <2>7, <2>15
    <3>2. \A k \in D : \E i \in Calls : list[k] = Whole(i)
      BY <2>11
    <3>3. \A k, l \in D : list[k] = list[l] => k = l
      <4>1. \A k, l \in D : list[k] = list[l] => order[k] = order[l]
        BY <2>11, WholeDiffers
      <4> QED BY <4>1, <2>5
    <3>4. DOMAIN channel'.blocks = D
      BY <2>12, <2>13
    <3> QED BY <2>13, <2>15, <3>1, <3>2, <3>3, <3>4 DEF BlocksEmitted
  <2>19. ~ Done'
    BY <1>1, <2>14 DEF Line, Open, Done
  <2>20. EndKnown'
    BY <1>1, <1>2, <2>7, <2>15 DEF EndKnown, Sent
  <2> QED BY <2>16, <2>17, <2>18, <2>19, <2>20 DEF ResponseKnown
<1> QED BY <1>3, <1>4

-----------------------------------------------------------------------------
(***************************************************************************)
(* The invariant, and what follows from it.                                *)
(***************************************************************************)
\* The first state.
LEMMA InvAtStart == StreamInit => StreamInv
<1> SUFFICES ASSUME StreamInit PROVE StreamInv
  OBVIOUS
<1>1. /\ served \in Answers /\ DOMAIN wire = {"texts", "calls", "finished"}
      /\ wire.texts = 0 /\ wire.calls = [i \in Calls |-> 0] /\ wire.finished = FALSE
      /\ DOMAIN calls = {} /\ emitted = {}
      /\ DOMAIN channel = {"log", "text", "blocks", "response"}
      /\ channel.log = <<"start">> /\ channel.text = 0 /\ channel.blocks = <<>>
  BY DEF StreamInit
<1>2. channel.log \in Seq(Events) /\ channel.log # <<>> /\ Last(channel.log) = "start"
  BY <1>1 DEF Events, Last
<1>3. StreamShape
  <2>1. wire.calls \in [Calls -> Nat] /\ wire.texts \in Nat /\ wire.finished \in BOOLEAN
    <3>1. wire = [texts |-> 0, calls |-> [i \in Calls |-> 0], finished |-> FALSE]
      BY DEF StreamInit
    <3> QED BY <3>1
  <2>2. channel.blocks \in Seq(Wholes)
    <3>1. <<>> \in Seq(Wholes)
      OBVIOUS
    <3> QED BY <1>1, <3>1
  <2> QED BY <1>1, <1>2, <2>1, <2>2 DEF StreamShape
<1>4. \A i \in Calls : Sent(i) = 0 /\ Sent(i) <= LinesOf(i)
  <2> TAKE i \in Calls
  <2>1. Sent(i) = 0
    BY <1>1 DEF Sent
  <2>2. /\ CallOf(i).args \in Nat
        /\ CallOf(i).style = "pieces" \/ CallOf(i).style = "whole" \/ CallOf(i).style = "late"
    BY <1>3, AnswerFacts
  <2>3. LinesBeforeLast(i) \in Nat
    BY <2>2 DEF LinesBeforeLast
  <2> QED BY <2>1, <2>2, <2>3 DEF LinesOf
<1>5. CallsKept
  BY <1>1, <1>4 DEF CallsKept
<1>6. BlocksEmitted
  BY <1>1 DEF BlocksEmitted
<1>7. ~ Done
  BY <1>2 DEF Done
<1> QED BY <1>1, <1>3, <1>5, <1>6, <1>7 DEF StreamInv, EndKnown, ResponseKnown

\* Every step keeps the invariant.
LEMMA InvKept == StreamInv /\ [StreamNext]_streamVars => StreamInv'
<1> SUFFICES ASSUME StreamInv, [StreamNext]_streamVars PROVE StreamInv'
  OBVIOUS
<1>1. CASE StreamNext
  BY <1>1, TextLineKeeps, ChatFinishKeeps, GeminiFinishKeeps, ResponseCompletedKeeps,
     ResponseIncompleteKeeps, ResponseFailedKeeps, ChatCallLineKeeps, GeminiCallLineKeeps,
     ItemAddedKeeps, ArgumentsDeltaKeeps, ArgumentsDoneKeeps, ItemDoneKeeps, BodyEndsKeeps,
     BodyBreaksKeeps DEF StreamNext
<1>2. CASE UNCHANGED streamVars
  <2>1. /\ Api' = Api /\ Calls' = Calls /\ Wholes' = Wholes /\ CompleteResponse' = CompleteResponse
        /\ \A i : /\ CallOf(i)' = CallOf(i) /\ Whole(i)' = Whole(i) /\ LinesOf(i)' = LinesOf(i)
                  /\ \A n : KnownAfter(i, n)' = KnownAfter(i, n)
    BY <1>2, SameAnswer DEF streamVars
  <2>2. UNCHANGED <<served, wire, calls, emitted, stop, channel>> /\ \A i : Sent(i)' = Sent(i)
    BY <1>2 DEF streamVars, Sent
  <2>3. StreamShape' /\ CallsKept' /\ BlocksEmitted'
    BY <2>1, <2>2 DEF StreamInv, StreamShape, CallsKept, BlocksEmitted
  <2>4. Done' = Done /\ EndKnown'
    BY <2>1, <2>2 DEF StreamInv, EndKnown, Done
  <2>5. ResponseKnown'
    <3>1. EmittedIsInResponse' = EmittedIsInResponse
      BY <2>2, <2>4 DEF EmittedIsInResponse
    <3>2. StoredLikeComplete' = StoredLikeComplete
      BY <2>1, <2>2, <2>4, StoredSame DEF StoredLikeComplete
    <3> QED BY <2>1, <2>2, <2>4, <3>1, <3>2 DEF StreamInv, ResponseKnown
  <2> QED BY <2>3, <2>4, <2>5 DEF StreamInv
<1> QED BY <1>1, <1>2

\* The invariant holds in all states.
LEMMA InvAlways == StreamSpec => []StreamInv
BY InvAtStart, InvKept, PTL DEF StreamSpec

\* However the lines of the calls of an answer interleave, the parsers emit a
\* finished call whole, under its own id, and once, and an answer that came to
\* its end brings all of them once in its response (parseSSEStream,
\* parseResponsesSSEStream).
THEOREM CallsAreWhole == StreamSpec => []CallsComeWholeOnce
<1>1. StreamInv => CallsComeWholeOnce
  <2> SUFFICES ASSUME StreamInv PROVE CallsComeWholeOnce
    OBVIOUS
  <2> USE DEF StreamInv
  <2>1. \A k \in DOMAIN channel.blocks : \E i \in Calls : channel.blocks[k] = Whole(i)
    BY DEF BlocksEmitted, CallsKept
  <2>2. \A k, l \in DOMAIN channel.blocks : channel.blocks[k] = channel.blocks[l] => k = l
    BY DEF BlocksEmitted
  <2>3. Done /\ wire.finished =>
          /\ ToSet(channel.response.calls) = Wholes
          /\ Len(channel.response.calls) = Len(served.calls)
          /\ ToSet(channel.blocks) \subseteq ToSet(channel.response.calls)
    BY DEF ResponseKnown, EmittedIsInResponse
  <2> QED BY <2>1, <2>2, <2>3 DEF CallsComeWholeOnce, Wholes
<1> QED BY <1>1, InvAlways, PTL

\* Wherever the body ends, a call that was emitted is in the response too, so
\* that the node stored for it has the call a result will name.
THEOREM EmittedIsStored == StreamSpec => []EmittedIsInResponse
<1>1. StreamInv => EmittedIsInResponse
  BY DEF StreamInv, ResponseKnown, EmittedIsInResponse
<1> QED BY <1>1, InvAlways, PTL

\* A streamed answer is stored as the answer of Complete is, but for the two
\* cases the property names.
THEOREM StreamsLikeComplete == StreamSpec => []StoredLikeComplete
<1>1. StreamInv => StoredLikeComplete
  BY DEF StreamInv, ResponseKnown, StoredLikeComplete
<1> QED BY <1>1, InvAlways, PTL

-----------------------------------------------------------------------------
(***************************************************************************)
(* The promise of a provider's channel.                                    *)
(***************************************************************************)
\* What a step may add to the events.
Addition(more) ==
  /\ more \in Seq(Events) /\ more # <<>>
  /\ \A k \in DOMAIN more : \/ more[k] \in {"delta", "content_done"}
                            \/ more[k] \in {"done", "error"} /\ k = Len(more)

LogGrows == \/ channel'.log = channel.log
            \/ Open /\ \E more : Addition(more) /\ channel'.log = channel.log \o more

\* Events that were added come after those that were there.
LEMMA AddedAfter ==
  ASSUME NEW s \in Seq(Events), NEW more, Addition(more)
  PROVE  LET t == s \o more IN
         /\ IsStrictPrefix(s, t)
         /\ \A i \in Len(s) + 1 .. Len(t) :
              \/ t[i] \in {"delta", "content_done"}
              \/ t[i] \in {"done", "error"} /\ i = Len(t)
<1> DEFINE t == s \o more
<1>1. more \in Seq(Events) /\ more # <<>>
  BY DEF Addition
<1>2. /\ t \in Seq(Events) /\ Len(t) = Len(s) + Len(more) /\ Len(s) \in Nat
      /\ Len(more) \in Nat /\ DOMAIN more = 1 .. Len(more)
      /\ \A k \in 1 .. Len(s) : t[k] = s[k]
      /\ \A k \in Len(s) + 1 .. Len(s) + Len(more) : t[k] = more[k - Len(s)]
  BY <1>1
<1>3. Len(more) > 0
  BY <1>1
<1> HIDE DEF t
<1>4. SubSeq(t, 1, Len(s)) = SubSeq(s, 1, Len(s))
  BY <1>2
<1>5. s # t
  BY <1>2, <1>3
<1>6. IsStrictPrefix(s, t)
  BY <1>2, <1>4, <1>5 DEF IsStrictPrefix, IsPrefix
<1>7. ASSUME NEW i \in Len(s) + 1 .. Len(t)
      PROVE  \/ t[i] \in {"delta", "content_done"}
             \/ t[i] \in {"done", "error"} /\ i = Len(t)
  <2> DEFINE k == i - Len(s)
  <2>1. k \in DOMAIN more /\ t[i] = more[k] /\ (k = Len(more) => i = Len(t))
    BY <1>2
  <2> QED BY <2>1 DEF Addition
<1> QED BY <1>6, <1>7 DEF t

\* One event is an addition.
LEMMA OneAdded ==
  ASSUME StreamShape, NEW e \in {"delta", "content_done", "done", "error"}
  PROVE  Addition(<<e>>) /\ Append(channel.log, e) = channel.log \o <<e>>
<1>1. /\ <<e>> \in Seq(Events) /\ <<e>> # <<>> /\ Len(<<e>>) = 1 /\ DOMAIN <<e>> = {1}
      /\ <<e>>[1] = e
  BY DEF Events
<1>2. Append(channel.log, e) = channel.log \o <<e>>
  BY DEF StreamShape, Events
<1> QED BY <1>1, <1>2 DEF Addition

\* A step adds nothing to the events, or adds to them while the channel is
\* open.
LEMMA StepAdds ==
  ASSUME StreamInv, [StreamNext]_streamVars
  PROVE  LogGrows
<1> USE DEF StreamInv
<1>1. ASSUME NEW type \in {"done", "error"}, NEW r, Open, Finish(type, r)
      PROVE  LogGrows
  <2>1. channel'.log = Append(channel.log, type)
    BY <1>1, FinishFacts
  <2> QED BY <1>1, <2>1, OneAdded DEF LogGrows
<1>2. ASSUME NEW i, NEW block, Open, EmitOnce(i, block)
      PROVE  LogGrows
  <2>1. CASE i \in emitted
    BY <1>2, <2>1 DEF EmitOnce, LogGrows
  <2>2. CASE i \notin emitted
    <3>1. Emit(<<block>>)
      BY <1>2, <2>2 DEF EmitOnce
    <3>2. channel'.log = channel.log \o [k \in DOMAIN <<block>> |-> "content_done"]
      BY <3>1 DEF Emit, StreamShape
    <3>3. [k \in DOMAIN <<block>> |-> "content_done"] = <<"content_done">>
      OBVIOUS
    <3> QED BY <1>2, <3>2, <3>3, OneAdded DEF LogGrows
  <2> QED BY <2>1, <2>2
<1>3. CASE TextLine
  <2>1. Open /\ channel'.log = Append(channel.log, "delta")
    BY <1>3 DEF TextLine, Line, StreamShape
  <2> QED BY <2>1, OneAdded DEF LogGrows
<1>4. CASE ChatFinish
  <2>1. Open
    BY <1>4 DEF ChatFinish, Line
  <2>2. CASE served.stop = "length"
    BY <1>4, <2>2 DEF ChatFinish, LogGrows
  <2>3. CASE served.stop # "length"
    <3>1. PICK order \in SetToSeqs(DOMAIN calls) : Emit([k \in DOMAIN order |-> calls[order[k]]])
      BY <1>4, <2>3 DEF ChatFinish
    <3> DEFINE n == Cardinality(DOMAIN calls)
               said == [k \in 1 .. n |-> "content_done"]
    <3>2. channel'.log = channel.log \o said
      <4>1. DOMAIN order = 1 .. n
        BY DEF SetToSeqs
      <4>2. DOMAIN [k \in DOMAIN order |-> calls[order[k]]] = 1 .. n
        BY <4>1
      <4> QED BY <3>1, <4>2 DEF Emit, StreamShape
    <3>3. n \in Nat
      <4>1. IsFiniteSet(Calls) /\ DOMAIN calls \in SUBSET Calls
        BY AnswerFacts DEF CallsKept
      <4> QED BY <4>1, FS_Subset, FS_CardinalityType
    <3>4. said \in [1 .. n -> Events] /\ \A k \in 1 .. n : said[k] = "content_done"
      BY DEF Events
    <3> HIDE DEF n, said
    <3>5. said \in Seq(Events) /\ DOMAIN said = 1 .. n
      BY <3>3, <3>4
    <3>6. CASE said = <<>>
      <4>1. channel.log \o <<>> = channel.log
        BY DEF StreamShape
      <4> QED BY <3>2, <3>6, <4>1 DEF LogGrows
    <3>7. CASE said # <<>>
      BY <2>1, <3>2, <3>4, <3>5, <3>7 DEF Addition, LogGrows
    <3> QED BY <3>6, <3>7
  <2> QED BY <2>2, <2>3
<1>5. CASE GeminiFinish \/ ResponseIncomplete
  BY <1>5 DEF GeminiFinish, ResponseIncomplete, LogGrows
<1>6. CASE ResponseCompleted \/ ResponseFailed
  BY <1>1, <1>6 DEF ResponseCompleted, ResponseFailed, Line
<1>7. ASSUME NEW i \in Calls, ChatCallLine(i) \/ ItemAdded(i) \/ ArgumentsDelta(i)
      PROVE  LogGrows
  BY <1>7 DEF ChatCallLine, ItemAdded, ArgumentsDelta, LogGrows
<1>8. ASSUME NEW i \in Calls, GeminiCallLine(i)
      PROVE  LogGrows
  <2>1. Sent(i) = 0 /\ Open /\ Emit(<<Whole(i)>>) /\ emitted' = emitted \cup {i}
    BY <1>8 DEF GeminiCallLine, Line
  <2>2. i \notin emitted
    BY <2>1, HeldKnown DEF BlocksEmitted
  <2>3. EmitOnce(i, Whole(i))
    BY <2>1, <2>2 DEF EmitOnce
  <2> QED BY <1>2, <2>1, <2>3
<1>9. ASSUME NEW i \in Calls, ArgumentsDone(i)
      PROVE  LogGrows
  <2>1. Open
    BY <1>9 DEF ArgumentsDone, Styled, Line
  <2>2. channel' = channel \/ \E block : EmitOnce(i, block)
    BY <1>9 DEF ArgumentsDone
  <2> QED BY <1>2, <2>1, <2>2 DEF LogGrows
<1>10. ASSUME NEW i \in Calls, ItemDone(i)
       PROVE  LogGrows
  <2>1. Open
    BY <1>10 DEF ItemDone, Line
  <2>2. \E block : EmitOnce(i, block)
    BY <1>10 DEF ItemDone
  <2> QED BY <1>2, <2>1, <2>2 DEF LogGrows
<1>11. CASE BodyEnds
  <2>1. Open /\ \E r : Finish("done", r)
    BY <1>11 DEF BodyEnds
  <2> QED BY <1>1, <2>1
<1>12. CASE BodyBreaks
  <2>1. Open /\ \E r : Finish("done", r) \/ Finish("error", r)
    BY <1>12 DEF BodyBreaks
  <2> QED BY <1>1, <2>1
<1>13. CASE UNCHANGED streamVars
  BY <1>13 DEF streamVars, LogGrows
<1>14. CASE StreamNext
  <2>1. ASSUME NEW i \in Calls,
               \/ ChatCallLine(i) \/ GeminiCallLine(i)
               \/ ItemAdded(i) \/ ArgumentsDelta(i) \/ ArgumentsDone(i) \/ ItemDone(i)
        PROVE  LogGrows
    BY <2>1, <1>7, <1>8, <1>9, <1>10
  <2> QED BY <2>1, <1>14, <1>3, <1>4, <1>5, <1>6, <1>11, <1>12 DEF StreamNext
<1> QED BY <1>13, <1>14

\* Every parser keeps the promise of a provider's channel: one final event,
\* and nothing after it, whatever it reads and wherever the body ends.
THEOREM OneEnd == StreamSpec => OneFinalEvent
<1>1. StreamInit => Promise!EventsInit
  <2>1. StreamInit => channel.log = <<"start">>
    <3>1. StreamInit => channel = [log |-> <<"start">>, text |-> 0, blocks |-> <<>>, response |-> NoAnswer]
      BY DEF StreamInit
    <3> QED BY <3>1
  <2> QED BY <2>1 DEF Promise!EventsInit
<1>2. StreamInv /\ [StreamNext]_streamVars => [Promise!EventsNext]_(channel.log)
  <2> SUFFICES ASSUME StreamInv, [StreamNext]_streamVars, channel'.log # channel.log
               PROVE  Promise!EventsNext
    OBVIOUS
  <2>1. PICK more : Open /\ Addition(more) /\ channel'.log = channel.log \o more
    BY StepAdds DEF LogGrows
  <2>2. channel.log \in Seq(Events)
    BY DEF StreamInv, StreamShape
  <2>3. /\ IsStrictPrefix(channel.log, channel'.log)
        /\ \A i \in Len(channel.log) + 1 .. Len(channel'.log) :
             \/ channel'.log[i] \in {"delta", "content_done"}
             \/ channel'.log[i] \in {"done", "error"} /\ i = Len(channel'.log)
    BY <2>1, <2>2, AddedAfter
  <2>4. Promise!IsStrictPrefix(channel.log, channel'.log)
    BY <2>3 DEF IsStrictPrefix, IsPrefix, Promise!IsStrictPrefix, Promise!IsPrefix
  <2>5. Promise!Last(channel.log) \notin {"done", "error"}
    BY <2>1 DEF Open, Last, Promise!Last
  <2> QED BY <2>3, <2>4, <2>5 DEF Promise!EventsNext, Promise!Final
<1> QED BY <1>1, <1>2, InvAlways, PTL DEF StreamSpec, OneFinalEvent, Promise!EventsSpec
=============================================================================
