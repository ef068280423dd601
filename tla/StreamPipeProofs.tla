------------------------- MODULE StreamPipeProofs -------------------------
(***************************************************************************)
(* Theorems about StreamPipe, for channels of any capacity, streams of any *)
(* length, any number of rounds and any finite set of blocks.              *)
(*                                                                         *)
(* The buffers and what the goroutines hold make two lists: what the       *)
(* client has read and passes on (Down), and what it has still to read     *)
(* (Up).  Moving an element from one buffer to the next changes neither.   *)
(***************************************************************************)
EXTENDS StreamPipe, TLAPS, FiniteSetTheorems

IsList(s) == s \in Seq(ToSet(s))

Taken == events.buf \o conv.todo
Up    == Taken \o src.buf
Down  == (got \o chunks.buf) \o client.todo

Tools(s) == {t \in BlockIds : \E i \in DOMAIN s : s[i] = Block(t)}
NoBlockTwice(s) == \A i, j \in DOMAIN s : s[i] = s[j] /\ s[i].type = "content_done" => i = j

-----------------------------------------------------------------------------
(***************************************************************************)
(* The inductive invariant.                                                *)
(***************************************************************************)
PipeShape ==
  /\ DOMAIN src = {"buf", "open"} /\ DOMAIN events = {"buf", "open"}
  /\ DOMAIN chunks = {"buf", "open"} /\ src.open \in BOOLEAN
  /\ DOMAIN prov = {"pc", "first", "pieces", "blocks"} /\ prov.pieces \in Nat
  /\ prov.blocks \subseteq BlockIds
  /\ DOMAIN conv = {"pc", "todo", "text", "response", "round", "last"}
  /\ DOMAIN client = {"pc", "todo", "accumulated", "emitted", "response", "terminated"}
  /\ client.terminated \in BOOLEAN /\ DOMAIN result = {"node", "content"} /\ stored \in Nat
  /\ IsList(src.buf) /\ IsList(events.buf) /\ IsList(chunks.buf) /\ IsList(conv.todo)
  /\ IsList(client.todo) /\ IsList(got)

\* The provider goroutine is done before the conversation ends.
ProviderFirst ==
  /\ ~ src.open <=> prov.pc = "closed"
  /\ conv.pc # "reading" => src.buf = <<>> /\ prov.pc = "closed"

\* The node that is named is the last thing the conversation says, and a Done
\* chunk the last one the client sends.
LastWords ==
  /\ \A i \in DOMAIN src.buf : src.buf[i].type \in {"delta", "content_done", "done", "error"}
  /\ \A i \in DOMAIN Up : Up[i].type = "node_saved" =>
       i = Len(Up) /\ conv.pc # "reading" /\ Up[i].node = stored
  /\ client.terminated => Up = <<>> /\ conv.pc # "reading"
  /\ \A i \in DOMAIN Down : Down[i].type = "end" =>
       i = Len(Down) /\ (client.terminated \/ client.pc # "reading")

\* The text is passed on piece by piece.
TextFlows ==
  LET c == Len(client.accumulated) IN
  /\ c \in Nat /\ c <= prov.pieces /\ client.accumulated = [k \in 1 .. c |-> k]
  /\ HoldsText(Down, 0, c) /\ HoldsText(Up, c, prov.pieces)

\* The blocks of a stream are passed on once each.
BlocksFlow ==
  /\ Tools(Down) = client.emitted /\ NoBlockTwice(Down) /\ NoBlockTwice(Up)
  /\ \A i \in DOMAIN Up : Up[i].type = "content_done" => \E t \in BlockIds : Up[i] = Block(t)
  /\ ~ client.terminated =>
       Tools(Up) \cap client.emitted = {} /\ Tools(Up) \cup client.emitted \subseteq prov.blocks

\* The response that uses tools is that of the last stream, and the client
\* gets it after all others.
ResponseFlows ==
  /\ conv.response \in Responses \cup {NoResponse} /\ client.response \in Responses \cup {NoResponse}
  /\ \A i \in DOMAIN Up : Up[i].type = "done" => Up[i].response \in Responses
  /\ prov.pc = "streaming" => conv.response = NoResponse
  /\ \A i \in DOMAIN src.buf : src.buf[i].type = "done" =>
       /\ prov.pc # "streaming" /\ conv.response = NoResponse
       /\ prov.blocks \subseteq src.buf[i].response.uses
       /\ \A j \in DOMAIN src.buf : src.buf[j].type = "done" => j = i
  /\ conv.response # NoResponse => prov.blocks \subseteq conv.response.uses
  /\ \A i \in DOMAIN Taken : Taken[i].type = "done" =>
       Taken[i].response.uses = {} \/ Taken[i].response = conv.response
  /\ client.response.uses = {} \/ client.response = conv.response
  /\ conv.response.uses # {} =>
       \/ client.response = conv.response /\ \A i \in DOMAIN Taken : Taken[i].type # "done"
       \/ \E i \in DOMAIN Taken :
            /\ Taken[i].type = "done" /\ Taken[i].response = conv.response
            /\ \A j \in DOMAIN Taken : j > i => Taken[j].type # "done"

\* A Done chunk without an error names the node saved last.
NamedKnown ==
  /\ conv.last = stored
  /\ \A i \in DOMAIN Down : Down[i].type = "end" /\ ~ Down[i].error =>
       /\ client.terminated /\ Down[i].node = stored
       /\ result = [node |-> stored, content |-> client.accumulated]
       /\ conv.response.uses \subseteq client.emitted

PipeInv ==
  PipeShape /\ ProviderFirst /\ LastWords /\ TextFlows /\ BlocksFlow /\ ResponseFlows /\ NamedKnown

-----------------------------------------------------------------------------
(***************************************************************************)
(* Lists.                                                                  *)
(***************************************************************************)
\* The members of a list.
LEMMA ListFacts ==
  ASSUME NEW s, IsList(s)
  PROVE  /\ Len(s) \in Nat /\ DOMAIN s = 1 .. Len(s) /\ s = [i \in 1 .. Len(s) |-> s[i]]
         /\ s = <<>> <=> Len(s) = 0
         /\ s # <<>> => Head(s) = s[1] /\ 1 \in DOMAIN s
BY DEF IsList

\* The empty list and lists of one member.
LEMMA ShortLists == IsList(<<>>) /\ \A e : IsList(<<e>>)
<1>1. \A T : <<>> \in Seq(T)
  OBVIOUS
<1>2. ASSUME NEW e PROVE IsList(<<e>>)
  <2>1. <<e>> \in Seq({e}) /\ ToSet(<<e>>) = {e}
    BY DEF ToSet
  <2> QED BY <2>1 DEF IsList
<1> QED BY <1>1, <1>2 DEF IsList

\* A list with one more member.
LEMMA ListAppend ==
  ASSUME NEW s, IsList(s), NEW e
  PROVE  LET t == Append(s, e) IN
         /\ IsList(t) /\ Len(t) = Len(s) + 1 /\ t # <<>>
         /\ DOMAIN t = 1 .. Len(s) + 1 /\ t[Len(s) + 1] = e
         /\ \A i \in 1 .. Len(s) : t[i] = s[i]
<1> DEFINE T == ToSet(s) \cup {e}
           t == Append(s, e)
<1>1. s \in Seq(T) /\ e \in T
  BY DEF IsList
<1> HIDE DEF T
<1>2. /\ t \in Seq(T) /\ Len(t) = Len(s) + 1 /\ Len(s) \in Nat
      /\ DOMAIN t = 1 .. Len(s) + 1 /\ t[Len(s) + 1] = e
      /\ \A i \in 1 .. Len(s) : t[i] = s[i]
  BY <1>1
<1> HIDE DEF t
<1>3. t \in Seq(ToSet(t))
  BY <1>2 DEF ToSet
<1>4. t # <<>>
  BY <1>2
<1> QED BY <1>2, <1>3, <1>4 DEF t, IsList

\* A list without its first member.
LEMMA ListTail ==
  ASSUME NEW s, IsList(s), s # <<>>
  PROVE  LET t == Tail(s) IN
         /\ IsList(t) /\ Len(s) = Len(t) + 1 /\ Len(t) \in Nat /\ DOMAIN t = 1 .. Len(t)
         /\ \A i \in 1 .. Len(t) : t[i] = s[i + 1]
<1> DEFINE T == ToSet(s)
           t == Tail(s)
<1>1. s \in Seq(T)
  BY DEF IsList
<1> HIDE DEF T
<1>2. /\ t \in Seq(T) /\ Len(s) = Len(t) + 1 /\ Len(t) \in Nat /\ DOMAIN t = 1 .. Len(t)
      /\ \A i \in 1 .. Len(t) : t[i] = s[i + 1]
  BY <1>1
<1> HIDE DEF t
<1>3. t \in Seq(ToSet(t))
  BY <1>2 DEF ToSet
<1> QED BY <1>2, <1>3 DEF t, IsList

\* One list behind the other.
LEMMA ListConcat ==
  ASSUME NEW s, NEW t, IsList(s), IsList(t)
  PROVE  LET u == s \o t IN
         /\ IsList(u) /\ Len(u) = Len(s) + Len(t)
         /\ DOMAIN u = 1 .. Len(s) + Len(t)
         /\ \A i \in 1 .. Len(s) : u[i] = s[i]
         /\ \A i \in 1 .. Len(t) : u[Len(s) + i] = t[i]
<1> DEFINE T == ToSet(s) \cup ToSet(t)
           u == s \o t
<1>1. s \in Seq(T) /\ t \in Seq(T)
  BY DEF IsList
<1> HIDE DEF T
<1>2. /\ u \in Seq(T) /\ Len(u) = Len(s) + Len(t) /\ Len(s) \in Nat /\ Len(t) \in Nat
      /\ DOMAIN u = 1 .. Len(s) + Len(t)
      /\ \A i \in 1 .. Len(s) : u[i] = s[i]
      /\ \A i \in 1 .. Len(t) : u[Len(s) + i] = t[i]
  BY <1>1
<1> HIDE DEF u
<1>3. u \in Seq(ToSet(u))
  BY <1>2 DEF ToSet
<1> QED BY <1>2, <1>3 DEF u, IsList

\* Two lists with the same members are the same.
LEMMA ListEqual ==
  ASSUME NEW s, NEW t, IsList(s), IsList(t), Len(s) = Len(t), \A i \in 1 .. Len(s) : s[i] = t[i]
  PROVE  s = t
BY ListFacts

\* A list and the empty list.
LEMMA ListEmpty ==
  ASSUME NEW s, IsList(s)
  PROVE  s \o <<>> = s /\ <<>> \o s = s
BY DEF IsList

\* Three lists.
LEMMA ListThree ==
  ASSUME NEW s, NEW t, NEW u, IsList(s), IsList(t), IsList(u)
  PROVE  (s \o t) \o u = s \o (t \o u)
<1> DEFINE T == ToSet(s) \cup ToSet(t) \cup ToSet(u)
<1>1. s \in Seq(T) /\ t \in Seq(T) /\ u \in Seq(T)
  BY DEF IsList
<1> HIDE DEF T
<1> QED BY <1>1

\* A list in front of one that grows.
LEMMA ListConcatAppend ==
  ASSUME NEW s, NEW t, NEW e, IsList(s), IsList(t)
  PROVE  s \o Append(t, e) = Append(s \o t, e)
<1> DEFINE T == ToSet(s) \cup ToSet(t) \cup {e}
<1>1. s \in Seq(T) /\ t \in Seq(T) /\ e \in T
  BY DEF IsList
<1> HIDE DEF T
<1> QED BY <1>1

\* A list of one member behind another.
LEMMA ListConcatOne ==
  ASSUME NEW s, NEW e, IsList(s)
  PROVE  s \o <<e>> = Append(s, e)
<1> DEFINE T == ToSet(s) \cup {e}
<1>1. s \in Seq(T) /\ e \in T
  BY DEF IsList
<1> HIDE DEF T
<1> QED BY <1>1

\* A list that loses its head in front of another.
LEMMA ListConcatTail ==
  ASSUME NEW s, NEW t, IsList(s), IsList(t), s # <<>>
  PROVE  Tail(s) \o t = Tail(s \o t) /\ Head(s \o t) = Head(s) /\ s \o t # <<>>
<1> DEFINE T == ToSet(s) \cup ToSet(t)
<1>1. s \in Seq(T) /\ t \in Seq(T)
  BY DEF IsList
<1> HIDE DEF T
<1> QED BY <1>1

\* A member that moves from the head of a list to the end of the one before.
LEMMA ListMove ==
  ASSUME NEW s, NEW t, IsList(s), IsList(t), t # <<>>
  PROVE  Append(s, Head(t)) \o Tail(t) = s \o t
<1> DEFINE h == <<Head(t)>>
<1>1. IsList(h) /\ IsList(Tail(t))
  BY ShortLists, ListTail
<1>2. Append(s, Head(t)) = s \o h
  BY ListConcatOne
<1>3. h \o Tail(t) = t
  <2> DEFINE T == ToSet(t)
  <2>1. t \in Seq(T)
    BY DEF IsList
  <2> HIDE DEF T
  <2> QED BY <2>1
<1> HIDE DEF h
<1>4. (s \o h) \o Tail(t) = s \o (h \o Tail(t))
  <2> DEFINE v == Tail(t)
  <2>1. IsList(v) /\ IsList(h)
    BY <1>1
  <2> HIDE DEF v
  <2>2. (s \o h) \o v = s \o (h \o v)
    BY <2>1, ListThree
  <2> QED BY <2>2 DEF v
<1> QED BY <1>2, <1>3, <1>4

-----------------------------------------------------------------------------
(***************************************************************************)
(* The text and the blocks in a list.                                      *)
(***************************************************************************)
\* A piece, or something else, behind a list.
LEMMA TextAppend ==
  ASSUME NEW s, NEW e, NEW lo \in Nat, NEW hi \in Nat, lo <= hi, IsList(s), HoldsText(s, lo, hi)
  PROVE  /\ e.type = "delta" /\ e.n = hi + 1 => HoldsText(Append(s, e), lo, hi + 1)
         /\ e.type # "delta" => HoldsText(Append(s, e), lo, hi)
<1> DEFINE t == Append(s, e)
           n == Len(s)
<1>1. /\ n \in Nat /\ DOMAIN s = 1 .. n /\ DOMAIN t = 1 .. n + 1 /\ t[n + 1] = e
      /\ \A i \in 1 .. n : t[i] = s[i]
  BY ListAppend, ListFacts
<1> HIDE DEF t, n
<1>2. /\ \A i \in Deltas(s) : s[i].n \in lo + 1 .. hi
      /\ \A k \in lo + 1 .. hi : \E i \in Deltas(s) : s[i].n = k
      /\ \A i, j \in Deltas(s) : i < j => s[i].n < s[j].n
  BY DEF HoldsText
<1>3. ASSUME e.type = "delta", e.n = hi + 1 PROVE HoldsText(t, lo, hi + 1)
  <2>1. Deltas(t) = Deltas(s) \cup {n + 1} /\ n + 1 \notin Deltas(s)
    BY <1>1, <1>3 DEF Deltas
  <2>2. Deltas(s) \subseteq 1 .. n
    BY <1>1 DEF Deltas
  <2>3. \A i \in Deltas(t) : t[i].n \in lo + 1 .. hi + 1
    BY <1>1, <1>2, <1>3, <2>1, <2>2
  <2>4. \A k \in lo + 1 .. hi + 1 : \E i \in Deltas(t) : t[i].n = k
    <3> SUFFICES ASSUME NEW k \in lo + 1 .. hi + 1 PROVE \E i \in Deltas(t) : t[i].n = k
      OBVIOUS
    <3>1. CASE k = hi + 1
      BY <1>1, <1>3, <2>1, <3>1
    <3>2. CASE k \in lo + 1 .. hi
      BY <1>1, <1>2, <2>1, <2>2, <3>2
    <3> QED BY <3>1, <3>2
  <2>5. ASSUME NEW i \in Deltas(t), NEW j \in Deltas(t), i < j PROVE t[i].n < t[j].n
    <3>1. i \in Deltas(s) /\ t[i] = s[i] /\ s[i].n \in lo + 1 .. hi
      BY <1>1, <1>2, <2>1, <2>2, <2>5
    <3>2. CASE j \in Deltas(s)
      BY <1>1, <1>2, <2>2, <2>5, <3>1, <3>2
    <3>3. CASE j = n + 1
      BY <1>1, <1>3, <3>1, <3>3
    <3> QED BY <2>1, <3>2, <3>3
  <2>6. {t[i].n : i \in Deltas(t)} = lo + 1 .. hi + 1
    BY <2>3, <2>4
  <2> QED BY <2>5, <2>6 DEF HoldsText
<1>4. ASSUME e.type # "delta" PROVE HoldsText(t, lo, hi)
  <2>1. Deltas(t) = Deltas(s) /\ \A i \in Deltas(s) : t[i] = s[i]
    BY <1>1, <1>4 DEF Deltas
  <2> QED BY <2>1 DEF HoldsText
<1> QED BY <1>3, <1>4 DEF t

\* A list without its head.
LEMMA TextTail ==
  ASSUME NEW s, NEW lo \in Nat, NEW hi \in Nat, IsList(s), s # <<>>, HoldsText(s, lo, hi)
  PROVE  /\ Head(s).type = "delta" =>
              Head(s).n = lo + 1 /\ lo + 1 <= hi /\ HoldsText(Tail(s), lo + 1, hi)
         /\ Head(s).type # "delta" => HoldsText(Tail(s), lo, hi)
<1> DEFINE t == Tail(s)
           n == Len(t)
<1>1. /\ n \in Nat /\ DOMAIN t = 1 .. n /\ DOMAIN s = 1 .. n + 1 /\ Head(s) = s[1]
      /\ \A i \in 1 .. n : t[i] = s[i + 1]
  BY ListTail, ListFacts
<1> HIDE DEF t, n
<1>2. /\ \A i \in Deltas(s) : s[i].n \in lo + 1 .. hi
      /\ \A k \in lo + 1 .. hi : \E i \in Deltas(s) : s[i].n = k
      /\ \A i, j \in Deltas(s) : i < j => s[i].n < s[j].n
  BY DEF HoldsText
<1>3. /\ \A i \in Deltas(t) : i + 1 \in Deltas(s) /\ t[i] = s[i + 1] /\ i \in 1 .. n
      /\ \A i \in Deltas(s) : i = 1 \/ \E j \in Deltas(t) : i = j + 1
  <2>1. \A i \in 2 .. n + 1 : \E j \in 1 .. n : i = j + 1
    <3> SUFFICES ASSUME NEW i \in 2 .. n + 1 PROVE i - 1 \in 1 .. n /\ i = (i - 1) + 1
      OBVIOUS
    <3> QED BY <1>1
  <2>2. \A i \in Deltas(t) : i + 1 \in Deltas(s) /\ t[i] = s[i + 1] /\ i \in 1 .. n
    BY <1>1 DEF Deltas
  <2>3. \A i \in DOMAIN s : i = 1 \/ i \in 2 .. n + 1
    BY <1>1
  <2>4. \A i \in Deltas(s) : i = 1 \/ \E j \in Deltas(t) : i = j + 1
    <3> SUFFICES ASSUME NEW i \in Deltas(s), i # 1 PROVE \E j \in Deltas(t) : i = j + 1
      OBVIOUS
    <3>1. i \in DOMAIN s /\ s[i].type = "delta"
      BY DEF Deltas
    <3>2. PICK j \in 1 .. n : i = j + 1
      BY <2>1, <2>3, <3>1
    <3>3. t[j] = s[i] /\ j \in DOMAIN t
      BY <1>1, <3>2
    <3> QED BY <3>1, <3>2, <3>3 DEF Deltas
  <2> QED BY <2>2, <2>4
<1>4. \A i, j \in Deltas(t) : i < j => t[i].n < t[j].n
  BY <1>2, <1>3
<1>5. ASSUME Head(s).type = "delta"
      PROVE  Head(s).n = lo + 1 /\ lo + 1 <= hi /\ HoldsText(t, lo + 1, hi)
  <2>1. 1 \in Deltas(s) /\ \A j \in Deltas(t) : s[1].n < t[j].n
    <3>1. 1 \in DOMAIN s
      BY <1>1
    <3>2. 1 \in Deltas(s)
      BY <1>1, <1>5, <3>1 DEF Deltas
    <3>3. \A j \in Deltas(t) : j + 1 \in Deltas(s) /\ 1 < j + 1 /\ t[j] = s[j + 1]
      BY <1>3
    <3> QED BY <1>2, <3>2, <3>3
  <2>2. s[1].n \in lo + 1 .. hi
    BY <1>2, <2>1
  <2>3. s[1].n = lo + 1
    <3>1. lo + 1 \in lo + 1 .. hi
      BY <2>2
    <3>2. PICK i \in Deltas(s) : s[i].n = lo + 1
      BY <1>2, <3>1
    <3>3. CASE i = 1
      BY <3>2, <3>3
    <3>4. CASE i # 1
      <4>1. PICK j \in Deltas(t) : i = j + 1
        BY <1>3, <3>4
      <4>2. t[j] = s[i]
        BY <1>3, <4>1
      <4> QED BY <2>1, <2>2, <3>2, <4>2
    <3> QED BY <3>3, <3>4
  <2>4. \A j \in Deltas(t) : t[j].n \in (lo + 1) + 1 .. hi
    <3> SUFFICES ASSUME NEW j \in Deltas(t) PROVE t[j].n \in (lo + 1) + 1 .. hi
      OBVIOUS
    <3>1. t[j].n \in lo + 1 .. hi /\ lo + 1 < t[j].n
      BY <1>2, <1>3, <2>1, <2>3
    <3> QED BY <3>1
  <2>5. \A k \in (lo + 1) + 1 .. hi : \E j \in Deltas(t) : t[j].n = k
    <3> SUFFICES ASSUME NEW k \in (lo + 1) + 1 .. hi PROVE \E j \in Deltas(t) : t[j].n = k
      OBVIOUS
    <3>1. k \in lo + 1 .. hi /\ k # lo + 1
      OBVIOUS
    <3>2. PICK i \in Deltas(s) : s[i].n = k
      BY <1>2, <3>1
    <3>3. i # 1
      BY <2>3, <3>1, <3>2
    <3> QED BY <1>3, <3>2, <3>3
  <2>6. {t[j].n : j \in Deltas(t)} = (lo + 1) + 1 .. hi
    BY <2>4, <2>5
  <2> QED BY <1>1, <1>4, <2>2, <2>3, <2>6 DEF HoldsText
<1>6. ASSUME Head(s).type # "delta" PROVE HoldsText(t, lo, hi)
  <2>1. 1 \notin Deltas(s)
    BY <1>1, <1>6 DEF Deltas
  <2>2. \A j \in Deltas(t) : t[j].n \in lo + 1 .. hi
    BY <1>2, <1>3
  <2>3. \A k \in lo + 1 .. hi : \E j \in Deltas(t) : t[j].n = k
    BY <1>2, <1>3, <2>1
  <2>4. {t[j].n : j \in Deltas(t)} = lo + 1 .. hi
    BY <2>2, <2>3
  <2> QED BY <1>4, <2>4 DEF HoldsText
<1> QED BY <1>5, <1>6 DEF t

\* A list without text, behind a list or alone.
LEMMA TextSilent ==
  ASSUME NEW s, NEW t, NEW lo \in Nat, NEW hi \in Nat, IsList(s), IsList(t),
         \A i \in DOMAIN t : t[i].type # "delta", HoldsText(s, lo, hi)
  PROVE  HoldsText(s \o t, lo, hi)
<1> DEFINE u == s \o t
           m == Len(s)
           n == Len(t)
<1>1. /\ m \in Nat /\ n \in Nat /\ DOMAIN s = 1 .. m /\ DOMAIN t = 1 .. n /\ DOMAIN u = 1 .. m + n
      /\ \A i \in 1 .. m : u[i] = s[i]
      /\ \A i \in 1 .. n : u[m + i] = t[i]
  BY ListConcat, ListFacts
<1> HIDE DEF u, m, n
<1>2. \A i \in 1 .. m + n : i \in 1 .. m \/ \E j \in 1 .. n : i = m + j
  <2> SUFFICES ASSUME NEW i \in 1 .. m + n, i \notin 1 .. m PROVE i - m \in 1 .. n /\ i = m + (i - m)
    OBVIOUS
  <2> QED BY <1>1
<1>3. Deltas(u) = Deltas(s) /\ \A i \in Deltas(s) : u[i] = s[i]
  <2>1. \A i \in 1 .. m : i \in 1 .. m + n
    BY <1>1
  <2>2. \A j \in 1 .. n : u[m + j].type # "delta"
    BY <1>1
  <2>3. \A i \in 1 .. m + n : u[i].type = "delta" => i \in 1 .. m
    BY <1>2, <2>2
  <2> QED BY <1>1, <2>1, <2>3 DEF Deltas
<1>4. HoldsText(u, lo, hi)
  BY <1>3 DEF HoldsText
<1> QED BY <1>4 DEF u

\* The empty list holds no text.
LEMMA TextEmpty ==
  ASSUME NEW lo \in Nat, NEW hi \in Nat
  PROVE  lo = hi => HoldsText(<<>>, lo, hi)
BY DEF HoldsText, Deltas

\* When nothing is left to read, nothing of the text is.
LEMMA TextGone ==
  ASSUME NEW lo \in Nat, NEW hi \in Nat, lo <= hi, HoldsText(<<>>, lo, hi)
  PROVE  lo = hi
<1>1. lo + 1 .. hi = {}
  BY DEF HoldsText, Deltas
<1>2. lo < hi => hi \in lo + 1 .. hi
  OBVIOUS
<1> QED BY <1>1, <1>2

\* A block, or something else, behind a list.
LEMMA BlockAppend ==
  ASSUME NEW s, NEW e, IsList(s), NoBlockTwice(s)
  PROVE  /\ \A t \in BlockIds \ Tools(s) : e = Block(t) =>
              Tools(Append(s, e)) = Tools(s) \cup {t} /\ NoBlockTwice(Append(s, e))
         /\ e.type # "content_done" => Tools(Append(s, e)) = Tools(s) /\ NoBlockTwice(Append(s, e))
<1> DEFINE u == Append(s, e)
           n == Len(s)
<1>1. /\ n \in Nat /\ DOMAIN s = 1 .. n /\ DOMAIN u = 1 .. n + 1 /\ u[n + 1] = e
      /\ \A i \in 1 .. n : u[i] = s[i]
  BY ListAppend, ListFacts
<1> HIDE DEF u, n
<1>2. \A t : Block(t).type = "content_done"
  BY DEF Block
<1>3. \A t, v : Block(t) = Block(v) => t = v
  BY DEF Block
<1>4. \A b : (\E i \in DOMAIN u : u[i] = b) <=> ((\E i \in DOMAIN s : s[i] = b) \/ b = e)
  BY <1>1
<1>5. ASSUME NEW t \in BlockIds \ Tools(s), e = Block(t)
      PROVE  Tools(u) = Tools(s) \cup {t} /\ NoBlockTwice(u)
  <2>1. \A v \in BlockIds : v \in Tools(u) <=> v \in Tools(s) \/ v = t
    BY <1>3, <1>4, <1>5 DEF Tools
  <2>2. Tools(u) \subseteq BlockIds /\ Tools(s) \subseteq BlockIds
    BY DEF Tools
  <2>3. \A i \in DOMAIN s : s[i] # e
    BY <1>5 DEF Tools
  <2>4. NoBlockTwice(u)
    BY <1>1, <2>3 DEF NoBlockTwice
  <2> QED BY <2>1, <2>2, <2>4
<1>6. ASSUME e.type # "content_done" PROVE Tools(u) = Tools(s) /\ NoBlockTwice(u)
  <2>1. \A v \in BlockIds : v \in Tools(u) <=> v \in Tools(s)
    BY <1>2, <1>4, <1>6 DEF Tools
  <2>2. Tools(u) \subseteq BlockIds /\ Tools(s) \subseteq BlockIds
    BY DEF Tools
  <2>3. NoBlockTwice(u)
    BY <1>1, <1>6 DEF NoBlockTwice
  <2> QED BY <2>1, <2>2, <2>3
<1> QED BY <1>5, <1>6 DEF u

\* A list without its head.
LEMMA BlockTail ==
  ASSUME NEW s, IsList(s), s # <<>>, NoBlockTwice(s)
  PROVE  /\ NoBlockTwice(Tail(s)) /\ Tools(Tail(s)) \subseteq Tools(s)
         /\ \A t \in BlockIds : Head(s) = Block(t) => t \in Tools(s) /\ t \notin Tools(Tail(s))
<1> DEFINE u == Tail(s)
           n == Len(u)
<1>1. /\ n \in Nat /\ DOMAIN u = 1 .. n /\ DOMAIN s = 1 .. n + 1 /\ Head(s) = s[1]
      /\ \A i \in 1 .. n : u[i] = s[i + 1]
  BY ListTail, ListFacts
<1> HIDE DEF u, n
<1>2. \A i \in DOMAIN u : i + 1 \in DOMAIN s /\ u[i] = s[i + 1] /\ i \in Nat /\ i # 0
  BY <1>1
<1>3. 1 \in DOMAIN s
  BY <1>1
<1>4. NoBlockTwice(u)
  BY <1>2 DEF NoBlockTwice
<1>5. Tools(u) \subseteq Tools(s)
  BY <1>2 DEF Tools
<1>6. ASSUME NEW t \in BlockIds, Head(s) = Block(t) PROVE t \in Tools(s) /\ t \notin Tools(u)
  <2>1. t \in Tools(s)
    BY <1>1, <1>3, <1>6 DEF Tools
  <2>2. ASSUME NEW i \in DOMAIN u, u[i] = Block(t) PROVE FALSE
    <3>1. i + 1 \in DOMAIN s /\ s[i + 1] = s[1] /\ s[1].type = "content_done" /\ i + 1 # 1
      BY <1>1, <1>2, <1>6, <2>2 DEF Block
    <3> QED BY <1>3, <3>1 DEF NoBlockTwice
  <2> QED BY <2>1, <2>2 DEF Tools
<1> QED BY <1>4, <1>5, <1>6 DEF u

\* A finite set as a list.
LEMMA SetAsList ==
  ASSUME NEW B, IsFiniteSet(B)
  PROVE  LET b == SetToSeq(B) IN
         /\ IsList(b) /\ \A i \in DOMAIN b : b[i] \in B
         /\ \A v \in B : \E i \in DOMAIN b : b[i] = v
         /\ \A i, j \in DOMAIN b : b[i] = b[j] => i = j
<1> DEFINE n == Cardinality(B)
           b == SetToSeq(B)
<1>1. n \in Nat /\ ExistsBijection(1 .. n, B)
  BY FS_CardinalityType
<1>2. \E f \in [1 .. n -> B] : IsInjective(f)
  BY <1>1 DEF ExistsBijection, Bijection, Injection
<1>3. b \in [1 .. n -> B] /\ IsInjective(b)
  BY <1>2 DEF SetToSeq
<1>4. IsFiniteSet(1 .. n) /\ Cardinality(1 .. n) = n
  BY <1>1, FS_Interval
<1> HIDE DEF b
<1>5. b \in Surjection(1 .. n, B)
  <2>1. b \in Injection(1 .. n, B)
    BY <1>3 DEF Injection
  <2> QED BY <1>4, <2>1, FS_Injection
<1> HIDE DEF n
<1>6. b \in Seq(B) /\ DOMAIN b = 1 .. n
  BY <1>1, <1>3
<1>7. \A v \in B : \E i \in DOMAIN b : b[i] = v
  BY <1>5, <1>6 DEF Surjection
<1>8. ToSet(b) = B
  BY <1>3, <1>6, <1>7 DEF ToSet
<1>9. \A i, j \in DOMAIN b : b[i] = b[j] => i = j
  BY <1>3 DEF IsInjective
<1>10. IsList(b) /\ \A i \in DOMAIN b : b[i] \in B
  BY <1>3, <1>6, <1>8 DEF IsList
<1> QED BY <1>7, <1>9, <1>10 DEF b

\* The blocks of a response that were not streamed.
LEMMA MissingList ==
  ASSUME NEW r, r.uses \subseteq BlockIds
  PROVE  LET b == MissingBlocks(r) IN
         /\ IsList(b) /\ NoBlockTwice(b) /\ Tools(b) = r.uses \ client.emitted
         /\ \A i \in DOMAIN b : \E t \in BlockIds : b[i] = Block(t)
<1> DEFINE M == r.uses \ client.emitted
           B == {Block(t) : t \in M}
           f == [t \in M |-> Block(t)]
           b == SetToSeq(B)
<1>1. IsFiniteSet(M) /\ M \subseteq BlockIds
  <2>1. M \subseteq BlockIds
    OBVIOUS
  <2> QED BY <2>1, PipeAssumption, FS_Subset
<1>2. f \in Surjection(M, B)
  BY DEF Surjection
<1>3. IsFiniteSet(B)
  <2> HIDE DEF M, B, f
  <2> QED BY <1>1, <1>2, FS_Surjection
<1>4. /\ IsList(b) /\ \A i \in DOMAIN b : b[i] \in B
      /\ \A v \in B : \E i \in DOMAIN b : b[i] = v
      /\ \A i, j \in DOMAIN b : b[i] = b[j] => i = j
  <2> HIDE DEF B
  <2> QED BY <1>3, SetAsList
<1>5. MissingBlocks(r) = b
  BY DEF MissingBlocks
<1> HIDE DEF b
<1>6. NoBlockTwice(b)
  BY <1>4 DEF NoBlockTwice
<1>7. \A t, v : Block(t) = Block(v) => t = v
  BY DEF Block
<1>8. Tools(b) = M
  <2>1. \A t \in M : Block(t) \in B
    OBVIOUS
  <2>2. \A t : Block(t) \in B => t \in M
    BY <1>7
  <2>3. \A t \in BlockIds : t \in Tools(b) <=> t \in M
    BY <1>4, <2>1, <2>2 DEF Tools
  <2> QED BY <1>1, <2>3 DEF Tools
<1>9. \A i \in DOMAIN b : \E t \in BlockIds : b[i] = Block(t)
  <2>1. \A v \in B : \E t \in BlockIds : v = Block(t)
    BY <1>1
  <2> QED BY <1>4, <2>1
<1> QED BY <1>4, <1>5, <1>6, <1>8, <1>9

\* Blocks behind a list that has none of them.
LEMMA BlockConcat ==
  ASSUME NEW s, NEW b, IsList(s), IsList(b), NoBlockTwice(s), NoBlockTwice(b),
         Tools(s) \cap Tools(b) = {}, \A i \in DOMAIN b : \E t \in BlockIds : b[i] = Block(t)
  PROVE  NoBlockTwice(s \o b) /\ Tools(s \o b) = Tools(s) \cup Tools(b)
<1> DEFINE u == s \o b
           m == Len(s)
           n == Len(b)
<1>1. /\ m \in Nat /\ n \in Nat /\ DOMAIN s = 1 .. m /\ DOMAIN b = 1 .. n /\ DOMAIN u = 1 .. m + n
      /\ \A i \in 1 .. m : u[i] = s[i]
      /\ \A i \in 1 .. n : u[m + i] = b[i]
  BY ListConcat, ListFacts
<1> HIDE DEF u, m, n
<1>2. \A i \in DOMAIN u : (i \in DOMAIN s /\ u[i] = s[i]) \/ \E j \in DOMAIN b : i = m + j /\ u[i] = b[j]
  <2>1. ASSUME NEW i \in 1 .. m + n, i \notin 1 .. m PROVE \E j \in 1 .. n : i = m + j
    <3>1. i - m \in 1 .. n /\ i = m + (i - m)
      BY <1>1, <2>1
    <3> QED BY <3>1
  <2>2. ASSUME NEW i \in DOMAIN u, i \notin DOMAIN s
        PROVE  \E j \in DOMAIN b : i = m + j /\ u[i] = b[j]
    <3>1. i \in 1 .. m + n /\ i \notin 1 .. m
      BY <1>1, <2>2
    <3>2. PICK j \in 1 .. n : i = m + j
      BY <2>1, <3>1
    <3> QED BY <1>1, <3>2
  <2>3. \A i \in DOMAIN s : u[i] = s[i]
    BY <1>1
  <2> QED BY <2>2, <2>3
<1>3. /\ \A i \in DOMAIN s : i \in DOMAIN u /\ u[i] = s[i]
      /\ \A j \in DOMAIN b : m + j \in DOMAIN u /\ u[m + j] = b[j]
  BY <1>1
<1>4. \A i \in DOMAIN s, j \in DOMAIN b : s[i] # b[j]
  BY DEF Tools
<1>5. NoBlockTwice(u)
  <2> SUFFICES ASSUME NEW i \in DOMAIN u, NEW j \in DOMAIN u, u[i] = u[j],
                      u[i].type = "content_done"
               PROVE  i = j
    BY DEF NoBlockTwice
  <2>1. CASE i \in DOMAIN s /\ u[i] = s[i] /\ j \in DOMAIN s /\ u[j] = s[j]
    BY <2>1 DEF NoBlockTwice
  <2>2. ASSUME NEW k \in DOMAIN b, NEW l \in DOMAIN b, i = m + k, u[i] = b[k], j = m + l, u[j] = b[l]
        PROVE  i = j
    BY <2>2 DEF NoBlockTwice
  <2> QED BY <1>2, <1>4, <2>1, <2>2
<1>6. Tools(u) = Tools(s) \cup Tools(b)
  <2>1. \A t \in BlockIds : t \in Tools(u) <=> t \in Tools(s) \/ t \in Tools(b)
    BY <1>2, <1>3 DEF Tools
  <2> QED BY <2>1 DEF Tools
<1> QED BY <1>5, <1>6 DEF u

-----------------------------------------------------------------------------
(***************************************************************************)
(* What the steps do to the lists.                                         *)
(***************************************************************************)
LEMMA UpLists ==
  ASSUME PipeShape
  PROVE  IsList(Taken) /\ IsList(Up) /\ IsList(Down)
BY ListConcat DEF PipeShape, Taken, Up, Down

\* The provider sends.
LEMMA UpGrows ==
  ASSUME PipeShape, NEW e, src' = Put(src, e), events' = events, conv' = conv
  PROVE  /\ Up' = Append(Up, e) /\ Taken' = Taken /\ src'.buf = Append(src.buf, e)
         /\ IsList(src'.buf) /\ src'.open = src.open /\ DOMAIN src' = {"buf", "open"}
<1>1. src'.buf = Append(src.buf, e) /\ src'.open = src.open /\ DOMAIN src' = {"buf", "open"}
  BY DEF PipeShape, Put
<1>2. IsList(src'.buf)
  BY <1>1, ListAppend DEF PipeShape
<1>3. Taken' = Taken
  BY DEF Taken
<1>4. Up' = Append(Up, e)
  BY <1>1, <1>3, UpLists, ListConcatAppend DEF Up, PipeShape
<1> QED BY <1>1, <1>2, <1>3, <1>4

\* The conversation passes an event on.
LEMMA UpPassed ==
  ASSUME PipeShape, conv.todo # <<>>, src' = src, events' = Put(events, Head(conv.todo)),
         conv'.todo = Tail(conv.todo)
  PROVE  /\ Up' = Up /\ Taken' = Taken /\ DOMAIN events' = {"buf", "open"}
         /\ IsList(events'.buf) /\ IsList(conv'.todo)
<1>1. events'.buf = Append(events.buf, Head(conv.todo)) /\ DOMAIN events' = {"buf", "open"}
  BY DEF PipeShape, Put
<1>2. IsList(events'.buf) /\ IsList(conv'.todo)
  <2>1. IsList(events.buf) /\ IsList(conv.todo)
    BY DEF PipeShape
  <2>2. IsList(Append(events.buf, Head(conv.todo)))
    BY <2>1, ListAppend
  <2>3. IsList(Tail(conv.todo))
    BY <2>1, ListTail
  <2> QED BY <1>1, <2>2, <2>3
<1>3. Taken' = Taken
  <2>1. IsList(events.buf) /\ IsList(conv.todo)
    BY DEF PipeShape
  <2>2. Append(events.buf, Head(conv.todo)) \o Tail(conv.todo) = events.buf \o conv.todo
    BY <2>1, ListMove
  <2> QED BY <1>1, <2>2 DEF Taken
<1> QED BY <1>1, <1>2, <1>3 DEF Up

\* The conversation takes an event.
LEMMA UpTaken ==
  ASSUME PipeShape, conv.todo = <<>>, src.buf # <<>>, src' = Drop(src), events' = events,
         conv'.todo = <<Head(src.buf)>>
  PROVE  /\ Up' = Up /\ Taken' = Append(Taken, Head(src.buf)) /\ src'.buf = Tail(src.buf)
         /\ IsList(src'.buf) /\ IsList(conv'.todo) /\ src'.open = src.open
         /\ DOMAIN src' = {"buf", "open"}
<1>1. src'.buf = Tail(src.buf) /\ src'.open = src.open /\ DOMAIN src' = {"buf", "open"}
  BY DEF PipeShape, Drop
<1>2. IsList(src'.buf) /\ IsList(conv'.todo)
  BY <1>1, ListTail, ShortLists DEF PipeShape
<1>3. Taken = events.buf
  BY ListEmpty DEF Taken, PipeShape
<1>4. Taken' = Append(Taken, Head(src.buf))
  BY <1>3, ListConcatOne DEF Taken, PipeShape
<1>5. Up' = Up
  <2>1. IsList(Taken) /\ IsList(src.buf)
    BY UpLists DEF PipeShape
  <2>2. Append(Taken, Head(src.buf)) \o Tail(src.buf) = Taken \o src.buf
    BY <2>1, ListMove
  <2> QED BY <1>1, <1>4, <2>2 DEF Up
<1> QED BY <1>1, <1>2, <1>4, <1>5

\* The client reads an event.
LEMMA UpRead ==
  ASSUME PipeShape, events.buf # <<>>, events' = Drop(events), conv' = conv, src' = src
  PROVE  /\ Up # <<>> /\ Up' = Tail(Up) /\ Head(Up) = Head(events.buf)
         /\ Taken # <<>> /\ Taken' = Tail(Taken) /\ Head(Taken) = Head(events.buf)
         /\ IsList(events'.buf) /\ DOMAIN events' = {"buf", "open"}
<1>1. events'.buf = Tail(events.buf) /\ DOMAIN events' = {"buf", "open"}
  BY DEF PipeShape, Drop
<1>2. IsList(events'.buf)
  BY <1>1, ListTail DEF PipeShape
<1>3. Taken # <<>> /\ Taken' = Tail(Taken) /\ Head(Taken) = Head(events.buf)
  BY <1>1, ListConcatTail DEF Taken, PipeShape
<1>4. Up # <<>> /\ Up' = Tail(Up) /\ Head(Up) = Head(Taken)
  BY <1>3, UpLists, ListConcatTail DEF Up, PipeShape
<1> QED BY <1>1, <1>2, <1>3, <1>4

\* The conversation has a last word when the stream has ended, or nothing.
LEMMA UpEnds ==
  ASSUME PipeShape, conv.todo = <<>>, src.buf = <<>>, src' = src, events' = events
  PROVE  /\ Up = events.buf /\ Taken = events.buf
         /\ \A e : conv'.todo = <<e>> => Up' = Append(Up, e) /\ Taken' = Append(Taken, e)
         /\ conv'.todo = <<>> => Up' = Up /\ Taken' = Taken
<1>1. IsList(events.buf)
  BY DEF PipeShape
<1>2. Taken = events.buf /\ Up = events.buf
  BY <1>1, ListEmpty DEF Taken, Up
<1>3. ASSUME NEW e, conv'.todo = <<e>> PROVE Up' = Append(Up, e) /\ Taken' = Append(Taken, e)
  <2>1. Taken' = Append(events.buf, e)
    BY <1>1, <1>3, ListConcatOne DEF Taken
  <2>2. IsList(Append(events.buf, e))
    BY <1>1, ListAppend
  <2>3. Up' = Append(events.buf, e)
    BY <2>1, <2>2, ListEmpty DEF Up
  <2> QED BY <1>2, <2>1, <2>3
<1>4. conv'.todo = <<>> => Up' = Up /\ Taken' = Taken
  BY DEF Taken, Up
<1> QED BY <1>2, <1>3, <1>4

\* The client passes a chunk on.
LEMMA DownPassed ==
  ASSUME PipeShape, client.todo # <<>>, got' = got, chunks' = Put(chunks, Head(client.todo)),
         client'.todo = Tail(client.todo)
  PROVE  /\ Down' = Down /\ IsList(chunks'.buf) /\ IsList(client'.todo)
         /\ DOMAIN chunks' = {"buf", "open"}
<1>1. chunks'.buf = Append(chunks.buf, Head(client.todo)) /\ DOMAIN chunks' = {"buf", "open"}
  BY DEF PipeShape, Put
<1>2. IsList(chunks'.buf) /\ IsList(client'.todo)
  <2>1. IsList(chunks.buf) /\ IsList(client.todo)
    BY DEF PipeShape
  <2>2. IsList(Append(chunks.buf, Head(client.todo)))
    BY <2>1, ListAppend
  <2>3. IsList(Tail(client.todo))
    BY <2>1, ListTail
  <2> QED BY <1>1, <2>2, <2>3
<1>3. got' \o chunks'.buf = Append(got \o chunks.buf, Head(client.todo))
  <2>1. IsList(got) /\ IsList(chunks.buf)
    BY DEF PipeShape
  <2>2. got \o Append(chunks.buf, Head(client.todo)) = Append(got \o chunks.buf, Head(client.todo))
    BY <2>1, ListConcatAppend
  <2> QED BY <1>1, <2>2
<1>4. IsList(got \o chunks.buf)
  BY ListConcat DEF PipeShape
<1>5. Down' = Down
  <2> DEFINE p == got \o chunks.buf
  <2>1. IsList(p) /\ IsList(client.todo)
    BY <1>4 DEF PipeShape
  <2>2. Down' = Append(p, Head(client.todo)) \o Tail(client.todo) /\ Down = p \o client.todo
    BY <1>3 DEF Down
  <2> HIDE DEF p
  <2> QED BY <2>1, <2>2, ListMove
<1> QED BY <1>1, <1>2, <1>5

\* The consumer takes a chunk.
LEMMA DownConsumed ==
  ASSUME PipeShape, chunks.buf # <<>>, got' = Append(got, Head(chunks.buf)),
         chunks' = Drop(chunks), client' = client
  PROVE  Down' = Down /\ IsList(chunks'.buf) /\ IsList(got') /\ DOMAIN chunks' = {"buf", "open"}
<1>1. chunks'.buf = Tail(chunks.buf) /\ DOMAIN chunks' = {"buf", "open"}
  BY DEF PipeShape, Drop
<1>2. IsList(chunks'.buf) /\ IsList(got')
  BY <1>1, ListAppend, ListTail DEF PipeShape
<1>3. got' \o chunks'.buf = got \o chunks.buf
  BY <1>1, ListMove DEF PipeShape
<1> QED BY <1>1, <1>2, <1>3 DEF Down

\* The client has new chunks to send.
LEMMA DownGrows ==
  ASSUME PipeShape, client.todo = <<>>, got' = got, chunks' = chunks
  PROVE  /\ Down' = Down \o client'.todo
         /\ \A e : client'.todo = <<e>> => Down' = Append(Down, e)
         /\ client'.todo = <<>> => Down' = Down
<1>1. IsList(got \o chunks.buf)
  BY ListConcat DEF PipeShape
<1>2. Down = got \o chunks.buf
  BY <1>1, ListEmpty DEF Down
<1>3. Down' = Down \o client'.todo
  BY <1>2 DEF Down
<1>4. \A e : client'.todo = <<e>> => Down' = Append(Down, e)
  BY <1>1, <1>2, <1>3, ListConcatOne
<1>5. client'.todo = <<>> => Down' = Down
  BY <1>1, <1>2, <1>3, ListEmpty
<1> QED BY <1>3, <1>4, <1>5

-----------------------------------------------------------------------------
(***************************************************************************)
(* The provider.                                                           *)
(***************************************************************************)
ProviderSays(e) ==
  /\ src' = Put(src, e) /\ ProviderFrame
  /\ prov.pc # "closed" /\ prov'.pc # "closed"
  /\ DOMAIN prov' = {"pc", "first", "pieces", "blocks"} /\ prov'.pieces \in Nat
  /\ prov'.blocks \subseteq BlockIds
  /\ e.type \in {"delta", "content_done", "done", "error"}

\* An event of the provider is not the last word of the conversation.
LEMMA SayKeepsRest ==
  ASSUME PipeInv, NEW e, ProviderSays(e)
  PROVE  /\ PipeShape' /\ ProviderFirst' /\ LastWords' /\ NamedKnown'
         /\ Up' = Append(Up, e) /\ Down' = Down /\ Taken' = Taken /\ src'.buf = Append(src.buf, e)
         /\ ~ client.terminated /\ conv.pc = "reading"
<1>1. /\ src' = Put(src, e) /\ events' = events /\ conv' = conv /\ chunks' = chunks
      /\ client' = client /\ result' = result /\ got' = got /\ stored' = stored
  BY DEF ProviderSays, ProviderFrame
<1>2. /\ Up' = Append(Up, e) /\ Taken' = Taken /\ src'.buf = Append(src.buf, e)
      /\ IsList(src'.buf) /\ src'.open = src.open /\ DOMAIN src' = {"buf", "open"}
  BY <1>1, UpGrows DEF PipeInv
<1>3. Down' = Down
  BY <1>1 DEF Down
<1>4. conv.pc = "reading" /\ ~ client.terminated
  BY DEF PipeInv, ProviderFirst, LastWords, ProviderSays
<1>5. PipeShape'
  BY <1>1, <1>2 DEF PipeInv, PipeShape, ProviderSays
<1>6. ProviderFirst'
  BY <1>1, <1>2, <1>4 DEF PipeInv, ProviderFirst, ProviderSays
<1>7. LastWords'
  <2>1. IsList(src.buf) /\ IsList(Up)
    BY UpLists DEF PipeInv, PipeShape
  <2>2. \A i \in DOMAIN src'.buf : src'.buf[i].type \in {"delta", "content_done", "done", "error"}
    <3>1. /\ DOMAIN src'.buf = 1 .. Len(src.buf) + 1 /\ src'.buf[Len(src.buf) + 1] = e
          /\ \A i \in 1 .. Len(src.buf) : src'.buf[i] = src.buf[i]
          /\ DOMAIN src.buf = 1 .. Len(src.buf) /\ Len(src.buf) \in Nat
      BY <1>2, <2>1, ListAppend, ListFacts
    <3>2. \A i \in 1 .. Len(src.buf) : src.buf[i].type \in {"delta", "content_done", "done", "error"}
      BY <3>1 DEF PipeInv, LastWords
    <3>3. \A i \in 1 .. Len(src.buf) + 1 : i \in 1 .. Len(src.buf) \/ i = Len(src.buf) + 1
      BY <3>1
    <3> QED BY <3>1, <3>2, <3>3 DEF ProviderSays
  <2>3. \A i \in DOMAIN Up' : Up'[i].type # "node_saved"
    <3>1. /\ DOMAIN Up' = 1 .. Len(Up) + 1 /\ Up'[Len(Up) + 1] = e
          /\ \A i \in 1 .. Len(Up) : Up'[i] = Up[i]
          /\ DOMAIN Up = 1 .. Len(Up) /\ Len(Up) \in Nat
      BY <1>2, <2>1, ListAppend, ListFacts
    <3>2. \A i \in 1 .. Len(Up) : Up[i].type # "node_saved"
      BY <1>4, <3>1 DEF PipeInv, LastWords
    <3>3. \A i \in 1 .. Len(Up) + 1 : i \in 1 .. Len(Up) \/ i = Len(Up) + 1
      BY <3>1
    <3> QED BY <3>1, <3>2, <3>3 DEF ProviderSays
  <2>4. \A i \in DOMAIN Down : Down[i].type = "end" => i = Len(Down) /\ client.pc # "reading"
    BY <1>4 DEF PipeInv, LastWords
  <2> QED BY <1>1, <1>3, <1>4, <2>2, <2>3, <2>4 DEF LastWords
<1>8. NamedKnown'
  BY <1>1, <1>3 DEF PipeInv, NamedKnown
<1> QED BY <1>2, <1>3, <1>4, <1>5, <1>6, <1>7, <1>8

\* A done event says what the provider streamed; nothing else changes what is
\* known of the responses.
LEMMA SayKeepsResponse ==
  ASSUME PipeInv, NEW e, ProviderSays(e),
         e.type = "done" => /\ e.response \in Responses /\ prov.pc = "streaming"
                            /\ prov'.pc # "streaming" /\ prov'.blocks \subseteq e.response.uses,
         e.type # "done" => (prov'.pc = "streaming" => prov.pc = "streaming"),
         prov'.blocks = prov.blocks \/ prov.pc = "streaming",
         prov.pc # "streaming" => prov'.pc # "streaming"
  PROVE  ResponseFlows'
<1>1. /\ Up' = Append(Up, e) /\ Taken' = Taken /\ src'.buf = Append(src.buf, e)
      /\ conv' = conv /\ client' = client
  BY SayKeepsRest DEF ProviderSays, ProviderFrame
<1>2. IsList(src.buf) /\ IsList(Up)
  BY UpLists DEF PipeInv, PipeShape
<1> DEFINE m == Len(src.buf)
           n == Len(Up)
<1>3. /\ DOMAIN src'.buf = 1 .. m + 1 /\ src'.buf[m + 1] = e
      /\ \A i \in 1 .. m : src'.buf[i] = src.buf[i]
      /\ DOMAIN src.buf = 1 .. m /\ m \in Nat
  BY <1>1, <1>2, ListAppend, ListFacts
<1>4. /\ DOMAIN Up' = 1 .. n + 1 /\ Up'[n + 1] = e
      /\ \A i \in 1 .. n : Up'[i] = Up[i]
      /\ DOMAIN Up = 1 .. n /\ n \in Nat
  BY <1>1, <1>2, ListAppend, ListFacts
<1> HIDE DEF m, n
<1>5. ResponseFlows
  BY DEF PipeInv
<1>6. \A i \in DOMAIN Up' : Up'[i].type = "done" => Up'[i].response \in Responses
  <2>1. \A i \in 1 .. n + 1 : i \in 1 .. n \/ i = n + 1
    BY <1>4
  <2> QED BY <1>4, <1>5, <2>1 DEF ResponseFlows
<1>7. prov.pc = "streaming" => conv.response = NoResponse /\ \A i \in DOMAIN src.buf : src.buf[i].type # "done"
  BY <1>5 DEF ResponseFlows
<1>8. \A i \in DOMAIN src'.buf : src'.buf[i].type = "done" =>
        /\ prov'.pc # "streaming" /\ conv.response = NoResponse
        /\ prov'.blocks \subseteq src'.buf[i].response.uses
        /\ \A j \in DOMAIN src'.buf : src'.buf[j].type = "done" => j = i
  <2> SUFFICES ASSUME NEW i \in DOMAIN src'.buf, src'.buf[i].type = "done"
               PROVE  /\ prov'.pc # "streaming" /\ conv.response = NoResponse
                      /\ prov'.blocks \subseteq src'.buf[i].response.uses
                      /\ \A j \in DOMAIN src'.buf : src'.buf[j].type = "done" => j = i
    OBVIOUS
  <2>0. \A j \in 1 .. m + 1 : j \in 1 .. m \/ j = m + 1
    BY <1>3
  <2>1. CASE i = m + 1
    <3>1. e.type = "done"
      BY <1>3, <2>1
    <3>2. \A j \in 1 .. m : src'.buf[j].type # "done"
      BY <1>3, <1>7, <3>1
    <3> QED BY <1>3, <1>7, <2>0, <2>1, <3>1, <3>2
  <2>2. CASE i \in 1 .. m
    <3>1. src.buf[i].type = "done" /\ src'.buf[i] = src.buf[i] /\ i \in DOMAIN src.buf
      BY <1>3, <2>2
    <3>2. /\ prov.pc # "streaming" /\ conv.response = NoResponse
          /\ prov.blocks \subseteq src.buf[i].response.uses
          /\ \A j \in DOMAIN src.buf : src.buf[j].type = "done" => j = i
      BY <1>5, <3>1 DEF ResponseFlows
    <3>3. e.type # "done" /\ prov'.blocks = prov.blocks /\ prov'.pc # "streaming"
      BY <3>2
    <3> QED BY <1>3, <2>0, <3>1, <3>2, <3>3
  <2> QED BY <1>3, <2>0, <2>1, <2>2
<1>9. conv.response # NoResponse => prov'.blocks \subseteq conv.response.uses
  BY <1>5, <1>7 DEF ResponseFlows
<1>10. prov'.pc = "streaming" => conv.response = NoResponse
  BY <1>7
<1> QED BY <1>1, <1>5, <1>6, <1>8, <1>9, <1>10 DEF ResponseFlows

\* Every event of the provider keeps the invariant.
LEMMA ProviderKeeps ==
  ASSUME PipeInv, Provider
  PROVE  PipeInv'
<1>1. PipeShape /\ ProviderFirst /\ TextFlows /\ BlocksFlow /\ ResponseFlows
  BY DEF PipeInv
<1>2. /\ IsList(Up) /\ Len(client.accumulated) \in Nat
      /\ DOMAIN prov = {"pc", "first", "pieces", "blocks"} /\ prov.pieces \in Nat
      /\ prov.blocks \subseteq BlockIds
  BY <1>1, UpLists DEF PipeShape, TextFlows
<1>3. ASSUME NEW e, ProviderSays(e), e.type # "delta", prov'.pieces = prov.pieces PROVE TextFlows'
  <2>1. Up' = Append(Up, e) /\ Down' = Down /\ client' = client
    BY <1>3, SayKeepsRest DEF ProviderSays, ProviderFrame
  <2>2. HoldsText(Append(Up, e), Len(client.accumulated), prov.pieces)
    BY <1>1, <1>2, <1>3, TextAppend DEF TextFlows
  <2> QED BY <1>1, <1>3, <2>1, <2>2 DEF TextFlows
<1>4. ASSUME NEW e, ProviderSays(e), e.type # "content_done", prov'.blocks = prov.blocks PROVE BlocksFlow'
  <2>1. Up' = Append(Up, e) /\ Down' = Down /\ client' = client
    BY <1>4, SayKeepsRest DEF ProviderSays, ProviderFrame
  <2>2. NoBlockTwice(Up)
    BY <1>1 DEF BlocksFlow
  <2>3. Tools(Up') = Tools(Up) /\ NoBlockTwice(Up')
    BY <1>2, <1>4, <2>1, <2>2, BlockAppend
  <2>4. \A i \in DOMAIN Up' : Up'[i].type = "content_done" => \E t \in BlockIds : Up'[i] = Block(t)
    <3>1. /\ DOMAIN Up' = 1 .. Len(Up) + 1 /\ Up'[Len(Up) + 1] = e
          /\ \A i \in 1 .. Len(Up) : Up'[i] = Up[i]
          /\ DOMAIN Up = 1 .. Len(Up) /\ Len(Up) \in Nat
      BY <1>2, <2>1, ListAppend, ListFacts
    <3>2. \A i \in 1 .. Len(Up) + 1 : i \in 1 .. Len(Up) \/ i = Len(Up) + 1
      BY <3>1
    <3> QED BY <1>1, <1>4, <3>1, <3>2 DEF BlocksFlow
  <2> QED BY <1>1, <1>4, <2>1, <2>3, <2>4 DEF BlocksFlow
<1>5. CASE SendDelta
  <2> DEFINE e == Delta(prov.pieces + 1)
  <2>1. e.type = "delta" /\ e.n = prov.pieces + 1
    BY DEF Delta
  <2>2. /\ src' = Put(src, e) /\ ProviderFrame /\ prov.pc = "streaming"
        /\ prov' = [prov EXCEPT !.pieces = @ + 1]
    BY <1>5 DEF SendDelta
  <2> HIDE DEF e
  <2>3. /\ DOMAIN prov' = {"pc", "first", "pieces", "blocks"} /\ prov'.pc = "streaming"
        /\ prov'.pieces = prov.pieces + 1 /\ prov'.blocks = prov.blocks
    BY <1>2, <2>2
  <2>4. ProviderSays(e)
    BY <1>2, <2>1, <2>2, <2>3 DEF ProviderSays
  <2>5. Up' = Append(Up, e) /\ Down' = Down /\ client' = client
    BY <2>4, SayKeepsRest DEF ProviderSays, ProviderFrame
  <2>6. TextFlows'
    <3>1. HoldsText(Append(Up, e), Len(client.accumulated), prov.pieces + 1)
      BY <1>1, <1>2, <2>1, TextAppend DEF TextFlows
    <3> QED BY <1>1, <1>2, <2>3, <2>5, <3>1 DEF TextFlows
  <2>7. ResponseFlows'
    BY <2>1, <2>2, <2>3, <2>4, SayKeepsResponse
  <2>8. BlocksFlow'
    BY <1>4, <2>1, <2>3, <2>4
  <2> QED BY <2>4, <2>6, <2>7, <2>8, SayKeepsRest DEF PipeInv
<1>6. CASE SendBlock
  <2>1. PICK t \in BlockIds \ prov.blocks :
          src' = Put(src, Block(t)) /\ prov' = [prov EXCEPT !.blocks = @ \cup {t}]
    BY <1>6 DEF SendBlock
  <2> DEFINE e == Block(t)
  <2>2. e.type = "content_done"
    BY DEF Block
  <2>3. src' = Put(src, e) /\ ProviderFrame /\ prov.pc = "streaming"
    BY <1>6, <2>1 DEF SendBlock
  <2>4. /\ DOMAIN prov' = {"pc", "first", "pieces", "blocks"} /\ prov'.pc = "streaming"
        /\ prov'.pieces = prov.pieces /\ prov'.blocks = prov.blocks \cup {t}
    BY <1>2, <2>1, <2>3
  <2> HIDE DEF e
  <2>5. ProviderSays(e)
    BY <1>2, <2>2, <2>3, <2>4 DEF ProviderSays
  <2>6. Up' = Append(Up, e) /\ Down' = Down /\ client' = client /\ ~ client.terminated
    BY <2>5, SayKeepsRest DEF ProviderSays, ProviderFrame
  <2>7. BlocksFlow'
    <3>1. t \in BlockIds \ Tools(Up) /\ t \notin client.emitted
      BY <1>1, <2>6 DEF BlocksFlow
    <3>2. Tools(Up') = Tools(Up) \cup {t} /\ NoBlockTwice(Up')
      <4>1. NoBlockTwice(Up)
        BY <1>1 DEF BlocksFlow
      <4> QED BY <1>2, <2>6, <3>1, <4>1, BlockAppend DEF e
    <3>3. \A i \in DOMAIN Up' : Up'[i].type = "content_done" => \E v \in BlockIds : Up'[i] = Block(v)
      <4>1. /\ DOMAIN Up' = 1 .. Len(Up) + 1 /\ Up'[Len(Up) + 1] = e
            /\ \A i \in 1 .. Len(Up) : Up'[i] = Up[i]
            /\ DOMAIN Up = 1 .. Len(Up) /\ Len(Up) \in Nat
        BY <1>2, <2>6, ListAppend, ListFacts
      <4>2. \A i \in 1 .. Len(Up) + 1 : i \in 1 .. Len(Up) \/ i = Len(Up) + 1
        BY <4>1
      <4>3. \A i \in 1 .. Len(Up) : Up[i].type = "content_done" => \E v \in BlockIds : Up[i] = Block(v)
        BY <1>1, <4>1 DEF BlocksFlow
      <4> QED BY <4>1, <4>2, <4>3 DEF e
    <3>4. Tools(Down) = client.emitted /\ NoBlockTwice(Down)
      BY <1>1 DEF BlocksFlow
    <3>5. Tools(Up) \cap client.emitted = {} /\ Tools(Up) \cup client.emitted \subseteq prov.blocks
      BY <1>1, <2>6 DEF BlocksFlow
    <3>6. Tools(Up') \cap client.emitted = {} /\ Tools(Up') \cup client.emitted \subseteq prov'.blocks
      BY <2>4, <3>1, <3>2, <3>5
    <3> QED BY <2>6, <3>2, <3>3, <3>4, <3>6 DEF BlocksFlow
  <2>8. ResponseFlows'
    BY <2>2, <2>3, <2>4, <2>5, SayKeepsResponse
  <2>9. TextFlows'
    BY <1>3, <2>2, <2>4, <2>5
  <2> QED BY <2>5, <2>7, <2>8, <2>9, SayKeepsRest DEF PipeInv
<1>7. CASE SendDone
  <2>1. PICK r \in Responses : prov.blocks \subseteq r.uses /\ src' = Put(src, DoneEvent(r))
    BY <1>7 DEF SendDone
  <2> DEFINE e == DoneEvent(r)
  <2>2. e.type = "done" /\ e.response = r
    BY DEF DoneEvent
  <2>3. /\ src' = Put(src, e) /\ ProviderFrame /\ prov.pc = "streaming"
        /\ prov' = [prov EXCEPT !.pc = "done"]
    BY <1>7, <2>1 DEF SendDone
  <2>4. /\ DOMAIN prov' = {"pc", "first", "pieces", "blocks"} /\ prov'.pc = "done"
        /\ prov'.pieces = prov.pieces /\ prov'.blocks = prov.blocks
    BY <1>2, <2>3
  <2> HIDE DEF e
  <2>5. ProviderSays(e)
    BY <1>2, <2>2, <2>3, <2>4 DEF ProviderSays
  <2>6. ResponseFlows'
    BY <2>1, <2>2, <2>3, <2>4, <2>5, SayKeepsResponse
  <2>7. BlocksFlow' /\ TextFlows'
    BY <1>3, <1>4, <2>2, <2>4, <2>5
  <2> QED BY <2>5, <2>6, <2>7, SayKeepsRest DEF PipeInv
<1>8. CASE SendError
  <2> DEFINE e == ErrorEvent
  <2>1. e.type = "error"
    BY DEF ErrorEvent
  <2>2. /\ src' = Put(src, e) /\ ProviderFrame /\ prov.pc \in {"streaming", "done"}
        /\ prov' = [prov EXCEPT !.pc = "failed"]
    BY <1>8 DEF SendError
  <2>3. /\ DOMAIN prov' = {"pc", "first", "pieces", "blocks"} /\ prov'.pc = "failed"
        /\ prov'.pieces = prov.pieces /\ prov'.blocks = prov.blocks
    BY <1>2, <2>2
  <2> HIDE DEF e
  <2>4. ProviderSays(e)
    BY <1>2, <2>1, <2>2, <2>3 DEF ProviderSays
  <2>5. ResponseFlows'
    BY <2>1, <2>3, <2>4, SayKeepsResponse
  <2>6. BlocksFlow' /\ TextFlows'
    BY <1>3, <1>4, <2>1, <2>3, <2>4
  <2> QED BY <2>4, <2>5, <2>6, SayKeepsRest DEF PipeInv
<1>9. CASE CloseSource
  <2>1. /\ src'.buf = src.buf /\ src'.open = FALSE /\ DOMAIN src' = {"buf", "open"}
        /\ DOMAIN prov' = {"pc", "first", "pieces", "blocks"} /\ prov'.pc = "closed"
        /\ prov'.pieces = prov.pieces /\ prov'.blocks = prov.blocks
    BY <1>1, <1>2, <1>9 DEF CloseSource, Close, PipeShape
  <2>2. /\ events' = events /\ conv' = conv /\ chunks' = chunks
        /\ client' = client /\ result' = result /\ got' = got /\ stored' = stored
    BY <1>9 DEF CloseSource, ProviderFrame
  <2>3. Up' = Up /\ Taken' = Taken /\ Down' = Down
    BY <2>1, <2>2 DEF Up, Taken, Down
  <2>4. PipeShape'
    BY <1>1, <2>1, <2>2 DEF PipeShape
  <2>5. ProviderFirst'
    BY <1>1, <2>1, <2>2 DEF ProviderFirst
  <2>6. LastWords'
    BY <2>1, <2>2, <2>3 DEF PipeInv, LastWords
  <2>7. TextFlows'
    BY <1>1, <2>1, <2>2, <2>3 DEF TextFlows
  <2>8. BlocksFlow'
    BY <1>1, <2>1, <2>2, <2>3 DEF BlocksFlow
  <2>9. ResponseFlows'
    BY <1>1, <2>1, <2>2, <2>3 DEF ResponseFlows
  <2>10. NamedKnown'
    BY <2>2, <2>3 DEF PipeInv, NamedKnown
  <2> QED BY <2>4, <2>5, <2>6, <2>7, <2>8, <2>9, <2>10 DEF PipeInv
<1> QED BY <1>5, <1>6, <1>7, <1>8, <1>9 DEF Provider

-----------------------------------------------------------------------------
(***************************************************************************)
(* The conversation.                                                       *)
(***************************************************************************)
ConvDomain == {"pc", "todo", "text", "response", "round", "last"}

\* An event is passed on.
LEMMA ConvSendKeeps ==
  ASSUME PipeInv, ConvSend
  PROVE  PipeInv'
<1>1. /\ conv.todo # <<>> /\ src' = src /\ events' = Put(events, Head(conv.todo))
      /\ conv' = [conv EXCEPT !.todo = Tail(@)]
      /\ chunks' = chunks /\ prov' = prov /\ client' = client /\ result' = result
      /\ got' = got /\ stored' = stored /\ PipeShape
  BY DEF ConvSend, PipeInv
<1>2. /\ DOMAIN conv' = ConvDomain /\ conv'.pc = conv.pc /\ conv'.todo = Tail(conv.todo)
      /\ conv'.response = conv.response /\ conv'.last = conv.last
  BY <1>1 DEF PipeShape, ConvDomain
<1>3. /\ Up' = Up /\ Taken' = Taken /\ DOMAIN events' = {"buf", "open"}
      /\ IsList(events'.buf) /\ IsList(conv'.todo)
  BY <1>1, <1>2, UpPassed
<1>4. Down' = Down
  BY <1>1 DEF Down
<1>5. PipeShape'
  BY <1>1, <1>2, <1>3 DEF PipeShape, ConvDomain
<1>6. ProviderFirst'
  BY <1>1, <1>2 DEF PipeInv, ProviderFirst
<1>7. LastWords'
  BY <1>1, <1>2, <1>3, <1>4 DEF PipeInv, LastWords
<1>8. TextFlows' /\ BlocksFlow'
  BY <1>1, <1>3, <1>4 DEF PipeInv, TextFlows, BlocksFlow
<1>9. ResponseFlows'
  BY <1>1, <1>2, <1>3 DEF PipeInv, ResponseFlows
<1>10. NamedKnown'
  BY <1>1, <1>2, <1>4 DEF PipeInv, NamedKnown
<1> QED BY <1>5, <1>6, <1>7, <1>8, <1>9, <1>10 DEF PipeInv

\* What is known of the responses when the conversation takes an event.
LEMMA TakeKeepsResponse ==
  ASSUME ResponseFlows, IsList(src.buf), IsList(Taken), IsList(Up), src.buf # <<>>, Up' = Up,
         Taken' = Append(Taken, Head(src.buf)), src'.buf = Tail(src.buf),
         prov' = prov, client' = client,
         conv'.response = IF Head(src.buf).type = "done" THEN Head(src.buf).response ELSE conv.response
  PROVE  ResponseFlows'
<1> DEFINE e == Head(src.buf)
           m == Len(Tail(src.buf))
           n == Len(Taken)
<1>1. /\ m \in Nat /\ DOMAIN src.buf = 1 .. m + 1 /\ DOMAIN src'.buf = 1 .. m /\ e = src.buf[1]
      /\ \A i \in 1 .. m : src'.buf[i] = src.buf[i + 1]
  BY ListTail, ListFacts
<1>2. /\ n \in Nat /\ DOMAIN Taken = 1 .. n /\ DOMAIN Taken' = 1 .. n + 1 /\ Taken'[n + 1] = e
      /\ \A i \in 1 .. n : Taken'[i] = Taken[i]
  BY ListAppend, ListFacts
<1>3. \A i \in 1 .. n + 1 : i \in 1 .. n \/ i = n + 1
  BY <1>2
<1>4. conv'.response = IF e.type = "done" THEN e.response ELSE conv.response
  OBVIOUS
<1>5. e.type = "done" => e \in {src.buf[i] : i \in DOMAIN src.buf}
  BY <1>1
<1>6. \A i \in DOMAIN src'.buf : i + 1 \in DOMAIN src.buf /\ src'.buf[i] = src.buf[i + 1]
                                 /\ i \in Nat /\ i + 1 # 1
  BY <1>1
<1>7. 1 \in DOMAIN src.buf
  BY <1>1
<1> HIDE DEF e, m, n
<1>8. CASE e.type = "done"
  <2>1. /\ prov.pc # "streaming" /\ conv.response = NoResponse
        /\ prov.blocks \subseteq e.response.uses
        /\ \A j \in DOMAIN src.buf : src.buf[j].type = "done" => j = 1
    BY <1>1, <1>7, <1>8 DEF ResponseFlows
  <2>2. NoResponse.uses = {}
    BY DEF NoResponse
  <2>3. \A i \in DOMAIN src'.buf : src'.buf[i].type # "done"
    BY <1>6, <2>1
  <2>4. conv'.response = e.response
    BY <1>4, <1>8
  <2>5. e.response \in Responses
    <3>1. Len(Taken) + 1 \in DOMAIN Up /\ Up[Len(Taken) + 1] = e
      <4>1. /\ DOMAIN Up = 1 .. Len(Taken) + Len(src.buf)
            /\ \A i \in 1 .. Len(src.buf) : Up[Len(Taken) + i] = src.buf[i]
            /\ Len(Taken) \in Nat /\ Len(src.buf) \in Nat /\ DOMAIN src.buf = 1 .. Len(src.buf)
        BY ListConcat, ListFacts DEF Up
      <4>2. 1 \in 1 .. Len(src.buf) /\ Len(Taken) + 1 \in 1 .. Len(Taken) + Len(src.buf)
        BY <1>7, <4>1
      <4> QED BY <1>1, <4>1, <4>2
    <3> QED BY <1>8, <3>1 DEF ResponseFlows
  <2>6. \A i \in DOMAIN Taken' : Taken'[i].type = "done" =>
          Taken'[i].response.uses = {} \/ Taken'[i].response = e.response
    BY <1>2, <1>3, <2>1, <2>2 DEF ResponseFlows
  <2>7. client.response.uses = {} \/ client.response = e.response
    BY <2>1, <2>2 DEF ResponseFlows
  <2>8. \E i \in DOMAIN Taken' :
          /\ Taken'[i].type = "done" /\ Taken'[i].response = e.response
          /\ \A j \in DOMAIN Taken' : j > i => Taken'[j].type # "done"
    BY <1>2, <1>8
  <2>9. client.response \in Responses \cup {NoResponse}
        /\ \A i \in DOMAIN Up : Up[i].type = "done" => Up[i].response \in Responses
    BY DEF ResponseFlows
  <2> QED BY <2>1, <2>3, <2>4, <2>5, <2>6, <2>7, <2>8, <2>9 DEF ResponseFlows
<1>9. CASE e.type # "done"
  <2>1. conv'.response = conv.response
    BY <1>4, <1>9
  <2>2. \A i \in DOMAIN src'.buf : src'.buf[i].type = "done" =>
           /\ prov.pc # "streaming" /\ conv.response = NoResponse
           /\ prov.blocks \subseteq src'.buf[i].response.uses
           /\ \A j \in DOMAIN src'.buf : src'.buf[j].type = "done" => j = i
    BY <1>6 DEF ResponseFlows
  <2>3. \A i \in DOMAIN Taken' : Taken'[i].type = "done" =>
          Taken'[i].response.uses = {} \/ Taken'[i].response = conv.response
    BY <1>2, <1>3, <1>9 DEF ResponseFlows
  <2>4. conv.response.uses # {} =>
          \/ client.response = conv.response /\ \A i \in DOMAIN Taken' : Taken'[i].type # "done"
          \/ \E i \in DOMAIN Taken' :
               /\ Taken'[i].type = "done" /\ Taken'[i].response = conv.response
               /\ \A j \in DOMAIN Taken' : j > i => Taken'[j].type # "done"
    BY <1>2, <1>3, <1>9 DEF ResponseFlows
  <2> QED BY <2>1, <2>2, <2>3, <2>4 DEF ResponseFlows
<1> QED BY <1>8, <1>9

\* An event is taken from the provider.
LEMMA ConvTakeKeeps ==
  ASSUME PipeInv, ConvTake
  PROVE  PipeInv'
<1> DEFINE e == Head(src.buf)
<1>1. /\ conv.pc = "reading" /\ conv.todo = <<>> /\ src.buf # <<>> /\ src' = Drop(src)
      /\ events' = events
      /\ chunks' = chunks /\ prov' = prov /\ client' = client /\ result' = result
      /\ got' = got /\ stored' = stored /\ PipeShape
  BY DEF ConvTake, PipeInv
<1>2. conv' = [conv EXCEPT !.todo = <<e>>, !.text = @ \/ e.type = "delta",
                           !.response = IF e.type = "done" THEN e.response ELSE @]
  BY DEF ConvTake
<1>3. /\ DOMAIN conv' = ConvDomain /\ conv'.pc = conv.pc /\ conv'.todo = <<e>>
      /\ conv'.response = (IF e.type = "done" THEN e.response ELSE conv.response)
      /\ conv'.last = conv.last
  <2> HIDE DEF e
  <2> QED BY <1>1, <1>2 DEF PipeShape, ConvDomain
<1>4. /\ Up' = Up /\ Taken' = Append(Taken, e) /\ src'.buf = Tail(src.buf)
      /\ IsList(src'.buf) /\ IsList(conv'.todo) /\ src'.open = src.open
      /\ DOMAIN src' = {"buf", "open"}
  BY <1>1, <1>3, UpTaken
<1>5. Down' = Down
  BY <1>1 DEF Down
<1>6. IsList(src.buf) /\ IsList(Taken) /\ IsList(Up)
  BY <1>1, UpLists DEF PipeShape
<1>7. PipeShape'
  BY <1>1, <1>3, <1>4 DEF PipeShape, ConvDomain
<1>8. ProviderFirst'
  BY <1>1, <1>3, <1>4 DEF PipeInv, ProviderFirst
<1>9. LastWords'
  <2>1. \A i \in DOMAIN src'.buf : i + 1 \in DOMAIN src.buf /\ src'.buf[i] = src.buf[i + 1]
    <3>1. /\ DOMAIN src'.buf = 1 .. Len(Tail(src.buf)) /\ Len(Tail(src.buf)) \in Nat
          /\ DOMAIN src.buf = 1 .. Len(Tail(src.buf)) + 1
          /\ \A i \in 1 .. Len(Tail(src.buf)) : src'.buf[i] = src.buf[i + 1]
      BY <1>1, <1>4, <1>6, ListTail, ListFacts
    <3> QED BY <3>1
  <2> QED BY <1>1, <1>3, <1>4, <1>5, <2>1 DEF PipeInv, LastWords
<1>10. TextFlows' /\ BlocksFlow'
  BY <1>1, <1>4, <1>5 DEF PipeInv, TextFlows, BlocksFlow
<1>11. ResponseFlows'
  BY <1>1, <1>3, <1>4, <1>6, TakeKeepsResponse DEF PipeInv
<1>12. NamedKnown'
  <2>1. \A i \in DOMAIN Down : ~ (Down[i].type = "end" /\ ~ Down[i].error)
    BY <1>1 DEF PipeInv, NamedKnown, LastWords
  <2> QED BY <1>1, <1>3, <1>5, <2>1 DEF PipeInv, NamedKnown
<1> QED BY <1>7, <1>8, <1>9, <1>10, <1>11, <1>12 DEF PipeInv

\* The conversation ends: its last word is an error, or names the node that
\* was saved last.
LEMMA ConvEndKeeps ==
  ASSUME PipeInv, StreamEnded, UNCHANGED <<src, events, chunks, prov, client, result, got>>,
         DOMAIN conv' = ConvDomain, conv'.pc = "returning", conv'.response = conv.response,
         conv'.last = stored', stored' \in Nat,
         NEW e, e.type = "error" \/ (e.type = "node_saved" /\ e.node = stored'),
         conv'.todo = <<>> \/ conv'.todo = <<e>>
  PROVE  PipeInv'
<1>1. /\ conv.pc = "reading" /\ conv.todo = <<>> /\ src.buf = <<>> /\ src.open = FALSE
      /\ PipeShape
  BY DEF StreamEnded, Drained, PipeInv, PipeShape
<1>2. /\ Up = events.buf /\ Taken = events.buf
      /\ conv'.todo = <<e>> => Up' = Append(Up, e) /\ Taken' = Append(Taken, e)
      /\ conv'.todo = <<>> => Up' = Up /\ Taken' = Taken
  BY <1>1, UpEnds
<1>3. Down' = Down
  BY DEF Down
<1>4. IsList(Up) /\ IsList(conv'.todo) /\ Up = Taken
  BY <1>1, <1>2, UpLists, ShortLists
<1>5. ~ client.terminated /\ prov.pc = "closed"
      /\ \A i \in DOMAIN Up : Up[i].type # "node_saved"
  BY <1>1 DEF PipeInv, LastWords, ProviderFirst
<1> DEFINE n == Len(Up)
<1>6. /\ n \in Nat /\ DOMAIN Up = 1 .. n /\ Taken' = Up'
      /\ \/ Up' = Up
         \/ /\ Up' = Append(Up, e) /\ DOMAIN Up' = 1 .. n + 1 /\ Len(Up') = n + 1 /\ Up'[n + 1] = e
            /\ \A i \in 1 .. n : Up'[i] = Up[i]
  <2>1. n \in Nat /\ DOMAIN Up = 1 .. n
    BY <1>4, ListFacts
  <2>2. Taken' = Up' /\ (Up' = Up \/ Up' = Append(Up, e))
    BY <1>2
  <2>3. LET t == Append(Up, e) IN
        /\ DOMAIN t = 1 .. n + 1 /\ Len(t) = n + 1 /\ t[n + 1] = e
        /\ \A i \in 1 .. n : t[i] = Up[i]
    BY <1>4, ListAppend
  <2> HIDE DEF n
  <2> QED BY <2>1, <2>2, <2>3
<1> HIDE DEF n
<1>7. \A i \in DOMAIN Up' : (i \in DOMAIN Up /\ Up'[i] = Up[i]) \/ (i = Len(Up') /\ Up'[i] = e)
  <2>1. \A i \in 1 .. n + 1 : i \in 1 .. n \/ i = n + 1
    BY <1>6
  <2> QED BY <1>6, <2>1
<1>8. PipeShape'
  BY <1>1, <1>4 DEF PipeShape, ConvDomain
<1>9. ProviderFirst'
  BY <1>1, <1>5 DEF PipeInv, ProviderFirst
<1>10. LastWords'
  <2>1. \A i \in DOMAIN Up' : Up'[i].type = "node_saved" => i = Len(Up') /\ Up'[i].node = stored'
    BY <1>5, <1>7
  <2> QED BY <1>1, <1>3, <1>5, <2>1 DEF PipeInv, LastWords
<1>11. TextFlows'
  <2>1. TextFlows
    BY DEF PipeInv
  <2>2. HoldsText(Append(Up, e), Len(client.accumulated), prov.pieces)
    BY <1>1, <1>4, <2>1, TextAppend DEF TextFlows, PipeShape
  <2> QED BY <1>3, <1>6, <2>1, <2>2 DEF TextFlows
<1>12. BlocksFlow'
  <2>1. BlocksFlow
    BY DEF PipeInv
  <2>2. Tools(Append(Up, e)) = Tools(Up) /\ NoBlockTwice(Append(Up, e))
    BY <1>4, <2>1, BlockAppend DEF BlocksFlow
  <2>3. \A i \in DOMAIN Up' : Up'[i].type = "content_done" => \E t \in BlockIds : Up'[i] = Block(t)
    BY <1>7, <2>1 DEF BlocksFlow
  <2>4. Tools(Up') = Tools(Up) /\ NoBlockTwice(Up')
    BY <1>6, <2>1, <2>2 DEF BlocksFlow
  <2> QED BY <1>3, <2>1, <2>3, <2>4 DEF BlocksFlow
<1>13. ResponseFlows'
  <2>1. ResponseFlows
    BY DEF PipeInv
  <2>2. \A i \in DOMAIN Up' : Up'[i].type = "done" => i \in DOMAIN Up /\ Up'[i] = Up[i]
    BY <1>7
  <2>3. \A i \in DOMAIN Up : i \in DOMAIN Up' /\ Up'[i] = Up[i]
    BY <1>6
  <2>4. \A i \in DOMAIN Up' : Up'[i].type = "done" => Up'[i].response \in Responses
    BY <2>1, <2>2 DEF ResponseFlows
  <2>5. \A i \in DOMAIN Taken' : Taken'[i].type = "done" =>
          Taken'[i].response.uses = {} \/ Taken'[i].response = conv.response
    BY <1>4, <1>6, <2>1, <2>2 DEF ResponseFlows
  <2>6. conv.response.uses # {} =>
          \/ client.response = conv.response /\ \A i \in DOMAIN Taken' : Taken'[i].type # "done"
          \/ \E i \in DOMAIN Taken' :
               /\ Taken'[i].type = "done" /\ Taken'[i].response = conv.response
               /\ \A j \in DOMAIN Taken' : j > i => Taken'[j].type # "done"
    BY <1>4, <1>6, <2>1, <2>2, <2>3 DEF ResponseFlows
  <2> QED BY <2>1, <2>4, <2>5, <2>6 DEF ResponseFlows
<1>14. NamedKnown'
  <2>1. \A i \in DOMAIN Down : ~ (Down[i].type = "end" /\ ~ Down[i].error)
    BY <1>5 DEF PipeInv, NamedKnown
  <2> QED BY <1>3, <2>1 DEF NamedKnown
<1> QED BY <1>8, <1>9, <1>10, <1>11, <1>12, <1>13, <1>14 DEF PipeInv

\* Every step of the conversation keeps the invariant.
LEMMA ConversationKeeps ==
  ASSUME PipeInv, Conversation
  PROVE  PipeInv'
<1>1. /\ DOMAIN conv = ConvDomain /\ conv.last = stored /\ stored \in Nat
      /\ DOMAIN prov = {"pc", "first", "pieces", "blocks"} /\ PipeShape
  BY DEF PipeInv, PipeShape, NamedKnown, ConvDomain
<1>2. CASE EndUseless
  <2>1. /\ StreamEnded /\ UNCHANGED <<src, events, chunks, prov, client, result, got, stored>>
    BY <1>2 DEF EndUseless
  <2>2. \/ conv' = [conv EXCEPT !.pc = "returning", !.todo = <<ErrorEvent>>]
        \/ conv' = [conv EXCEPT !.pc = "returning", !.todo = Named]
    BY <1>2 DEF EndUseless
  <2>3. ErrorEvent.type = "error" /\ NodeSaved(conv.last).type = "node_saved"
        /\ NodeSaved(conv.last).node = conv.last
    BY DEF ErrorEvent, NodeSaved
  <2>4. Named = <<>> \/ Named = <<NodeSaved(conv.last)>>
    BY DEF Named
  <2>5. /\ DOMAIN conv' = ConvDomain /\ conv'.pc = "returning" /\ conv'.response = conv.response
        /\ conv'.last = conv.last
        /\ conv'.todo = <<ErrorEvent>> \/ conv'.todo = Named
    BY <1>1, <2>2 DEF ConvDomain
  <2>6. CASE conv'.todo = <<ErrorEvent>>
    BY <1>1, <2>1, <2>3, <2>5, <2>6, ConvEndKeeps
  <2>7. CASE conv'.todo = Named
    BY <1>1, <2>1, <2>3, <2>4, <2>5, <2>7, ConvEndKeeps
  <2> QED BY <2>5, <2>6, <2>7
<1>3. CASE EndSaveFails
  <2>1. /\ StreamEnded /\ UNCHANGED <<src, events, chunks, prov, client, result, got, stored>>
        /\ conv' = [conv EXCEPT !.pc = "returning", !.todo = <<ErrorEvent>>]
    BY <1>3 DEF EndSaveFails, Usable
  <2>2. ErrorEvent.type = "error"
    BY DEF ErrorEvent
  <2>3. /\ DOMAIN conv' = ConvDomain /\ conv'.pc = "returning" /\ conv'.response = conv.response
        /\ conv'.last = conv.last /\ conv'.todo = <<ErrorEvent>>
    BY <1>1, <2>1 DEF ConvDomain
  <2> QED BY <1>1, <2>1, <2>2, <2>3, ConvEndKeeps
<1>4. CASE EndSaved
  <2>1. /\ StreamEnded /\ UNCHANGED <<src, events, chunks, prov, client, result, got>>
        /\ stored' = stored + 1
        /\ conv' = [conv EXCEPT !.pc = "returning", !.todo = <<NodeSaved(stored')>>, !.last = stored']
    BY <1>4 DEF EndSaved, Usable
  <2>2. NodeSaved(stored').type = "node_saved" /\ NodeSaved(stored').node = stored'
    BY DEF NodeSaved
  <2>3. /\ DOMAIN conv' = ConvDomain /\ conv'.pc = "returning" /\ conv'.response = conv.response
        /\ conv'.last = stored' /\ conv'.todo = <<NodeSaved(stored')>> /\ stored' \in Nat
    BY <1>1, <2>1 DEF ConvDomain
  <2> QED BY <2>1, <2>2, <2>3, ConvEndKeeps
<1>5. CASE EndContinued
  <2>1. /\ StreamEnded /\ conv.response.stop = "max_tokens" /\ conv.response.uses = {}
        /\ stored' = stored + 1
        /\ conv' = [conv EXCEPT !.text = FALSE, !.response = NoResponse, !.round = @ + 1,
                                !.last = stored']
        /\ src' = NewChannel /\ prov' = FreshStream(prov.pieces)
        /\ UNCHANGED <<events, chunks, client, result, got>>
    BY <1>5 DEF EndContinued, Usable
  <2>2. /\ DOMAIN conv' = ConvDomain /\ conv'.pc = conv.pc /\ conv'.todo = conv.todo
        /\ conv'.response = NoResponse /\ conv'.last = stored' /\ stored' \in Nat
    BY <1>1, <2>1 DEF ConvDomain
  <2>3. /\ DOMAIN prov' = {"pc", "first", "pieces", "blocks"} /\ prov'.pc = "streaming"
        /\ prov'.pieces = prov.pieces /\ prov'.blocks = {}
    BY <2>1 DEF FreshStream
  <2>4. src'.buf = <<>> /\ src'.open = TRUE /\ DOMAIN src' = {"buf", "open"}
    BY <2>1 DEF NewChannel
  <2>5. conv.pc = "reading" /\ conv.todo = <<>> /\ src.buf = <<>>
    BY <2>1 DEF StreamEnded, Drained
  <2>6. Taken' = Taken /\ Up' = Up /\ Down' = Down
    BY <2>1, <2>2, <2>4, <2>5 DEF Taken, Up, Down
  <2>7. PipeShape'
    BY <1>1, <2>1, <2>2, <2>3, <2>4, ShortLists DEF PipeShape, ConvDomain
  <2>8. ProviderFirst'
    BY <2>2, <2>3, <2>4, <2>5 DEF ProviderFirst
  <2>9. ~ client.terminated /\ \A i \in DOMAIN Up : Up[i].type # "node_saved"
    BY <2>5 DEF PipeInv, LastWords
  <2>10. LastWords'
    BY <2>1, <2>2, <2>4, <2>5, <2>6, <2>9 DEF PipeInv, LastWords
  <2>11. TextFlows'
    BY <2>1, <2>3, <2>6 DEF PipeInv, TextFlows
  <2>12. NoResponse.uses = {} /\ NoResponse.stop # "max_tokens"
    BY DEF NoResponse
  <2>13. BlocksFlow'
    <3>1. prov.blocks = {}
      BY <2>1, <2>12 DEF PipeInv, ResponseFlows
    <3> QED BY <2>1, <2>3, <2>6, <3>1 DEF PipeInv, BlocksFlow
  <2>14. ResponseFlows'
    <3>1. ResponseFlows
      BY DEF PipeInv
    <3>2. \A i \in DOMAIN Taken : Taken[i].type = "done" => Taken[i].response.uses = {}
      BY <2>1, <3>1 DEF ResponseFlows
    <3>3. client.response.uses = {}
      BY <2>1, <3>1 DEF ResponseFlows
    <3> QED BY <2>1, <2>2, <2>3, <2>4, <2>6, <2>12, <3>1, <3>2, <3>3 DEF ResponseFlows
  <2>15. NamedKnown'
    <3>1. \A i \in DOMAIN Down : ~ (Down[i].type = "end" /\ ~ Down[i].error)
      BY <2>9 DEF PipeInv, NamedKnown
    <3> QED BY <2>2, <2>6, <3>1 DEF NamedKnown
  <2> QED BY <2>7, <2>8, <2>10, <2>11, <2>13, <2>14, <2>15 DEF PipeInv
<1>6. CASE ConvReturn
  <2>1. /\ conv.pc = "returning" /\ conv' = [conv EXCEPT !.pc = "returned"]
        /\ events' = Close(events)
        /\ UNCHANGED <<src, chunks, prov, client, result, got, stored>>
    BY <1>6 DEF ConvReturn
  <2>2. /\ DOMAIN conv' = ConvDomain /\ conv'.pc = "returned" /\ conv'.todo = conv.todo
        /\ conv'.response = conv.response /\ conv'.last = conv.last
    BY <1>1, <2>1 DEF ConvDomain
  <2>3. events'.buf = events.buf /\ DOMAIN events' = {"buf", "open"}
    BY <1>1, <2>1 DEF Close, PipeShape
  <2>4. Taken' = Taken /\ Up' = Up /\ Down' = Down
    BY <2>1, <2>2, <2>3 DEF Taken, Up, Down
  <2>5. PipeShape'
    BY <1>1, <2>1, <2>2, <2>3 DEF PipeShape, ConvDomain
  <2>6. ProviderFirst' /\ LastWords'
    BY <2>1, <2>2, <2>4 DEF PipeInv, ProviderFirst, LastWords
  <2>7. TextFlows' /\ BlocksFlow'
    BY <2>1, <2>4 DEF PipeInv, TextFlows, BlocksFlow
  <2>8. ResponseFlows'
    BY <2>1, <2>2, <2>4 DEF PipeInv, ResponseFlows
  <2>9. NamedKnown'
    BY <2>1, <2>2, <2>4 DEF PipeInv, NamedKnown
  <2> QED BY <2>5, <2>6, <2>7, <2>8, <2>9 DEF PipeInv
<1> QED BY <1>2, <1>3, <1>4, <1>5, <1>6, ConvSendKeeps, ConvTakeKeeps DEF Conversation

-----------------------------------------------------------------------------
(***************************************************************************)
(* The client.                                                             *)
(***************************************************************************)
ClientDomain == {"pc", "todo", "accumulated", "emitted", "response", "terminated"}
ClientFrame  == UNCHANGED <<src, chunks, prov, conv, got, stored>>

\* What is left when the client has read an event.
LEMMA ReadFacts ==
  ASSUME PipeInv, NEW type, Reads(type), ClientFrame
  PROVE  /\ Up # <<>> /\ Up' = Tail(Up) /\ Head(Up) = Head(events.buf) /\ Head(Up).type = type
         /\ Taken # <<>> /\ Taken' = Tail(Taken) /\ Head(Taken) = Head(Up)
         /\ IsList(events'.buf) /\ DOMAIN events' = {"buf", "open"}
         /\ IsList(Up) /\ IsList(Taken) /\ IsList(Down)
         /\ Head(Up) = Up[1] /\ 1 \in DOMAIN Up
         /\ \A i \in DOMAIN Up' : i + 1 \in DOMAIN Up /\ Up'[i] = Up[i + 1]
         /\ Len(Up) = Len(Up') + 1 /\ Len(Up') \in Nat
         /\ client.pc = "reading" /\ client.todo = <<>> /\ ~ client.terminated
         /\ \A i \in DOMAIN Down : Down[i].type # "end"
         /\ Down' = Down \o client'.todo
<1>1. /\ events.buf # <<>> /\ events' = Drop(events) /\ Head(events.buf).type = type
      /\ client.pc = "reading" /\ client.todo = <<>> /\ PipeShape
      /\ src' = src /\ conv' = conv /\ got' = got /\ chunks' = chunks
  BY DEF Reads, ClientFrame, PipeInv
<1>2. /\ Up # <<>> /\ Up' = Tail(Up) /\ Head(Up) = Head(events.buf)
      /\ Taken # <<>> /\ Taken' = Tail(Taken) /\ Head(Taken) = Head(events.buf)
      /\ IsList(events'.buf) /\ DOMAIN events' = {"buf", "open"}
  BY <1>1, UpRead
<1>3. IsList(Up) /\ IsList(Taken) /\ IsList(Down)
  BY <1>1, UpLists
<1>4. /\ Head(Up) = Up[1] /\ 1 \in DOMAIN Up
      /\ \A i \in DOMAIN Up' : i + 1 \in DOMAIN Up /\ Up'[i] = Up[i + 1]
      /\ Len(Up) = Len(Up') + 1 /\ Len(Up') \in Nat
  <2> DEFINE t == Tail(Up)
  <2>1. /\ Len(Up) = Len(t) + 1 /\ Len(t) \in Nat /\ DOMAIN t = 1 .. Len(t)
        /\ \A i \in 1 .. Len(t) : t[i] = Up[i + 1]
    BY <1>2, <1>3, ListTail
  <2>2. DOMAIN Up = 1 .. Len(Up) /\ Head(Up) = Up[1] /\ 1 \in DOMAIN Up
    BY <1>2, <1>3, ListFacts
  <2> HIDE DEF t
  <2>3. Up' = t
    BY <1>2 DEF t
  <2>4. \A i \in 1 .. Len(t) : i + 1 \in 1 .. Len(t) + 1
    BY <2>1
  <2> QED BY <2>1, <2>2, <2>3, <2>4
<1>5. ~ client.terminated /\ \A i \in DOMAIN Down : Down[i].type # "end"
  BY <1>1, <1>2 DEF PipeInv, LastWords
<1>6. Down' = Down \o client'.todo
  BY <1>1, DownGrows
<1> QED BY <1>1, <1>2, <1>3, <1>4, <1>5, <1>6

\* What the client knows of the responses when it has read an event.
LEMMA ReadKeepsResponse ==
  ASSUME PipeInv, NEW type, Reads(type), ClientFrame,
         client'.response = IF type = "done" THEN Head(events.buf).response ELSE client.response
  PROVE  ResponseFlows'
<1> DEFINE e == Head(Up)
           n == Len(Tail(Taken))
<1>1. /\ Up # <<>> /\ Up' = Tail(Up) /\ e.type = type /\ e = Up[1] /\ 1 \in DOMAIN Up
      /\ \A i \in DOMAIN Up' : i + 1 \in DOMAIN Up /\ Up'[i] = Up[i + 1]
      /\ Taken # <<>> /\ Taken' = Tail(Taken) /\ e = Head(Taken) /\ IsList(Taken)
      /\ client'.response = IF type = "done" THEN e.response ELSE client.response
  BY ReadFacts
<1>2. src' = src /\ conv' = conv /\ prov' = prov
  BY DEF ClientFrame
<1>3. /\ n \in Nat /\ DOMAIN Taken' = 1 .. n /\ DOMAIN Taken = 1 .. n + 1 /\ e = Taken[1]
      /\ \A i \in 1 .. n : Taken'[i] = Taken[i + 1]
  <2>1. /\ n \in Nat /\ DOMAIN Tail(Taken) = 1 .. n /\ Len(Taken) = n + 1
        /\ \A i \in 1 .. n : Tail(Taken)[i] = Taken[i + 1]
    BY <1>1, ListTail
  <2>2. DOMAIN Taken = 1 .. Len(Taken) /\ Head(Taken) = Taken[1]
    BY <1>1, ListFacts
  <2> QED BY <1>1, <2>1, <2>2
<1> HIDE DEF e, n
<1>4. /\ \A i \in DOMAIN Taken' : i + 1 \in DOMAIN Taken /\ Taken'[i] = Taken[i + 1]
      /\ \A i \in DOMAIN Taken : i = 1 \/ \E j \in DOMAIN Taken' : i = j + 1
      /\ 1 \in DOMAIN Taken
  <2>1. \A i \in 1 .. n : i + 1 \in 1 .. n + 1
    BY <1>3
  <2>2. \A i \in 1 .. n + 1 : i = 1 \/ \E j \in 1 .. n : i = j + 1
    <3> SUFFICES ASSUME NEW i \in 1 .. n + 1, i # 1 PROVE \E j \in 1 .. n : i = j + 1
      OBVIOUS
    <3>1. i - 1 \in 1 .. n /\ i = (i - 1) + 1
      BY <1>3
    <3> QED BY <3>1
  <2>3. 1 \in 1 .. n + 1
    BY <1>3
  <2> QED BY <1>3, <2>1, <2>2, <2>3
<1>5. ResponseFlows
  BY DEF PipeInv
<1>6. \A i \in DOMAIN Up' : Up'[i].type = "done" => Up'[i].response \in Responses
  BY <1>1, <1>5 DEF ResponseFlows
<1>7. \A i \in DOMAIN Taken' : Taken'[i].type = "done" =>
        Taken'[i].response.uses = {} \/ Taken'[i].response = conv.response
  BY <1>4, <1>5 DEF ResponseFlows
<1>8. client'.response \in Responses \cup {NoResponse}
  BY <1>1, <1>5 DEF ResponseFlows
<1>9. client'.response.uses = {} \/ client'.response = conv.response
  BY <1>1, <1>3, <1>4, <1>5 DEF ResponseFlows
<1>10. conv.response.uses # {} =>
         \/ client'.response = conv.response /\ \A i \in DOMAIN Taken' : Taken'[i].type # "done"
         \/ \E i \in DOMAIN Taken' :
              /\ Taken'[i].type = "done" /\ Taken'[i].response = conv.response
              /\ \A j \in DOMAIN Taken' : j > i => Taken'[j].type # "done"
  <2> SUFFICES ASSUME conv.response.uses # {}
               PROVE  \/ client'.response = conv.response /\ \A i \in DOMAIN Taken' : Taken'[i].type # "done"
                      \/ \E i \in DOMAIN Taken' :
                           /\ Taken'[i].type = "done" /\ Taken'[i].response = conv.response
                           /\ \A j \in DOMAIN Taken' : j > i => Taken'[j].type # "done"
    OBVIOUS
  <2>1. CASE client.response = conv.response /\ \A i \in DOMAIN Taken : Taken[i].type # "done"
    <3>1. type # "done"
      BY <1>1, <1>3, <1>4, <2>1
    <3> QED BY <1>1, <1>4, <2>1, <3>1
  <2>2. ASSUME NEW i \in DOMAIN Taken, Taken[i].type = "done", Taken[i].response = conv.response,
               \A j \in DOMAIN Taken : j > i => Taken[j].type # "done"
        PROVE  \/ client'.response = conv.response /\ \A k \in DOMAIN Taken' : Taken'[k].type # "done"
               \/ \E k \in DOMAIN Taken' :
                    /\ Taken'[k].type = "done" /\ Taken'[k].response = conv.response
                    /\ \A j \in DOMAIN Taken' : j > k => Taken'[j].type # "done"
    <3>1. CASE i = 1
      <4>1. client'.response = conv.response
        BY <1>1, <1>3, <2>2, <3>1
      <4>2. \A k \in DOMAIN Taken' : k + 1 > 1
        BY <1>3
      <4> QED BY <1>4, <2>2, <3>1, <4>1, <4>2
    <3>2. CASE i # 1
      <4>1. PICK k \in DOMAIN Taken' : i = k + 1
        BY <1>4, <3>2
      <4>2. \A j \in DOMAIN Taken' : j > k => j + 1 > i
        BY <1>3, <4>1
      <4>3. Taken'[k] = Taken[i]
        BY <1>4, <4>1
      <4> QED BY <1>4, <2>2, <4>2, <4>3
    <3> QED BY <3>1, <3>2
  <2> QED BY <1>5, <2>1, <2>2 DEF ResponseFlows
<1> QED BY <1>2, <1>5, <1>6, <1>7, <1>8, <1>9, <1>10 DEF ResponseFlows

\* The client reads an event that is not the last, and passes on at most one
\* chunk for it.
LEMMA ReadKeeps ==
  ASSUME PipeInv, NEW type, Reads(type), ClientFrame, result' = result,
         DOMAIN client' = ClientDomain, client'.terminated = client.terminated,
         client'.response = IF type = "done" THEN Head(events.buf).response ELSE client.response,
         NEW c, client'.todo = <<>> \/ client'.todo = <<c>>,
         c.type = "end" => client'.pc # "reading" /\ c.error,
         type # "node_saved",
         TextFlows', BlocksFlow'
  PROVE  PipeInv'
<1>1. /\ Up # <<>> /\ Up' = Tail(Up)
      /\ \A i \in DOMAIN Up' : i + 1 \in DOMAIN Up /\ Up'[i] = Up[i + 1]
      /\ Len(Up) = Len(Up') + 1 /\ Len(Up') \in Nat
      /\ ~ client.terminated /\ IsList(Down) /\ IsList(Up)
      /\ \A i \in DOMAIN Down : Down[i].type # "end"
      /\ IsList(events'.buf) /\ DOMAIN events' = {"buf", "open"}
      /\ Down' = Down \o client'.todo
  BY ReadFacts
<1>2. /\ src' = src /\ chunks' = chunks /\ prov' = prov /\ conv' = conv /\ got' = got
      /\ stored' = stored /\ PipeShape
  BY DEF ClientFrame, PipeInv
<1>3. IsList(client'.todo)
  BY ShortLists
<1>4. PipeShape'
  BY <1>1, <1>2, <1>3 DEF PipeShape, ClientDomain
<1>5. \A i \in DOMAIN Down' : Down'[i].type = "end" => i = Len(Down') /\ Down'[i] = c
  <2>1. CASE client'.todo = <<>>
    BY <1>1, <2>1, ListEmpty
  <2>2. CASE client'.todo = <<c>>
    <3>1. Down' = Append(Down, c)
      BY <1>1, <2>2, ListConcatOne
    <3>2. /\ DOMAIN Down' = 1 .. Len(Down) + 1 /\ Len(Down') = Len(Down) + 1
          /\ Down'[Len(Down) + 1] = c /\ \A i \in 1 .. Len(Down) : Down'[i] = Down[i]
          /\ DOMAIN Down = 1 .. Len(Down) /\ Len(Down) \in Nat
      BY <1>1, <3>1, ListAppend, ListFacts
    <3>3. \A i \in 1 .. Len(Down) + 1 : i \in 1 .. Len(Down) \/ i = Len(Down) + 1
      BY <3>2
    <3> QED BY <1>1, <3>2, <3>3
  <2> QED BY <2>1, <2>2
<1>6. ProviderFirst'
  BY <1>2 DEF PipeInv, ProviderFirst
<1>7. LastWords'
  <2>1. \A i \in DOMAIN Up' : Up'[i].type = "node_saved" =>
          i = Len(Up') /\ conv.pc # "reading" /\ Up'[i].node = stored
    <3> SUFFICES ASSUME NEW i \in DOMAIN Up', Up'[i].type = "node_saved"
                 PROVE  i = Len(Up') /\ conv.pc # "reading" /\ Up'[i].node = stored
      OBVIOUS
    <3>1. i + 1 = Len(Up) /\ conv.pc # "reading" /\ Up[i + 1].node = stored
      BY <1>1 DEF PipeInv, LastWords
    <3>2. i \in Nat
      <4>1. IsList(Tail(Up)) /\ DOMAIN Tail(Up) = 1 .. Len(Tail(Up))
        BY <1>1, ListTail
      <4> QED BY <1>1, <4>1
    <3> QED BY <1>1, <3>1, <3>2
  <2> QED BY <1>1, <1>2, <1>5, <2>1 DEF PipeInv, LastWords
<1>8. ResponseFlows'
  BY ReadKeepsResponse
<1>9. NamedKnown'
  BY <1>2, <1>5 DEF PipeInv, NamedKnown
<1> QED BY <1>4, <1>6, <1>7, <1>8, <1>9 DEF PipeInv

\* The text is passed on when a piece is read, and kept when something else is.
LEMMA ReadKeepsText ==
  ASSUME PipeInv, NEW type, Reads(type), ClientFrame,
         type = "delta" => /\ client'.accumulated = Append(client.accumulated, Head(Up).n)
                           /\ client'.todo = <<Head(Up)>>,
         type # "delta" => /\ client'.accumulated = client.accumulated
                           /\ IsList(client'.todo)
                           /\ \A i \in DOMAIN client'.todo : client'.todo[i].type # "delta"
  PROVE  TextFlows'
<1> DEFINE c == Len(client.accumulated)
<1>1. /\ Up # <<>> /\ Up' = Tail(Up) /\ Head(Up).type = type
      /\ IsList(Up) /\ IsList(Down) /\ Down' = Down \o client'.todo
  BY ReadFacts
<1>2. prov' = prov /\ prov.pieces \in Nat
  BY DEF ClientFrame, PipeInv, PipeShape
<1>3. /\ c \in Nat /\ c <= prov.pieces /\ client.accumulated = [k \in 1 .. c |-> k]
      /\ HoldsText(Down, 0, c) /\ HoldsText(Up, c, prov.pieces)
  BY DEF PipeInv, TextFlows
<1>4. /\ Head(Up).type = "delta" =>
           Head(Up).n = c + 1 /\ c + 1 <= prov.pieces /\ HoldsText(Tail(Up), c + 1, prov.pieces)
      /\ Head(Up).type # "delta" => HoldsText(Tail(Up), c, prov.pieces)
  <2> HIDE DEF c
  <2> QED BY <1>1, <1>2, <1>3, TextTail
<1>5. CASE type = "delta"
  <2>1. Down' = Append(Down, Head(Up))
    <3>1. Down' = Down \o <<Head(Up)>> /\ IsList(Down)
      BY <1>1, <1>5
    <3> QED BY <3>1, ListConcatOne
  <2>2. HoldsText(Append(Down, Head(Up)), 0, c + 1)
    <3> HIDE DEF c
    <3>1. 0 <= c /\ 0 \in Nat
      BY <1>3
    <3> QED BY <1>1, <1>3, <1>4, <1>5, <3>1, TextAppend
  <2>3. client'.accumulated = [k \in 1 .. c + 1 |-> k] /\ Len(client'.accumulated) = c + 1
    <3>1. client'.accumulated = Append([k \in 1 .. c |-> k], c + 1)
      BY <1>1, <1>3, <1>4, <1>5
    <3> HIDE DEF c
    <3>2. c \in Nat
      BY <1>3
    <3>3. [k \in 1 .. c |-> k] \in Seq(Nat) /\ Len([k \in 1 .. c |-> k]) = c
      BY <3>2
    <3>4. Append([k \in 1 .. c |-> k], c + 1) = [k \in 1 .. c + 1 |-> k]
      BY <3>2, <3>3
    <3>5. Len([k \in 1 .. c + 1 |-> k]) = c + 1
      BY <3>2
    <3> QED BY <3>1, <3>4, <3>5
  <2> QED BY <1>1, <1>2, <1>3, <1>4, <1>5, <2>1, <2>2, <2>3 DEF TextFlows
<1>6. CASE type # "delta"
  <2>1. HoldsText(Down \o client'.todo, 0, c)
    <3>1. c \in Nat /\ 0 \in Nat
      BY <1>3
    <3> HIDE DEF c
    <3> QED BY <1>1, <1>3, <1>6, <3>1, TextSilent
  <2> QED BY <1>1, <1>2, <1>3, <1>4, <1>6, <2>1 DEF TextFlows
<1> QED BY <1>5, <1>6

\* A block is passed on when it is read, and nothing else is taken for one.
LEMMA ReadKeepsBlocks ==
  ASSUME PipeInv, NEW type, Reads(type), ClientFrame, client'.terminated = client.terminated,
         type = "content_done" => /\ client'.emitted = client.emitted \cup {Head(Up).tool}
                                  /\ client'.todo = <<Head(Up)>>,
         type # "content_done" => client'.emitted = client.emitted,
         NEW e, e.type # "content_done",
         type # "content_done" => client'.todo = <<>> \/ client'.todo = <<e>>
  PROVE  BlocksFlow'
<1>1. /\ Up # <<>> /\ Up' = Tail(Up) /\ Head(Up).type = type /\ Head(Up) = Up[1] /\ 1 \in DOMAIN Up
      /\ \A i \in DOMAIN Up' : i + 1 \in DOMAIN Up /\ Up'[i] = Up[i + 1]
      /\ IsList(Up) /\ IsList(Down) /\ Down' = Down \o client'.todo /\ ~ client.terminated
  BY ReadFacts
<1>2. prov' = prov /\ BlocksFlow
  BY DEF ClientFrame, PipeInv
<1>3. /\ Tools(Down) = client.emitted /\ NoBlockTwice(Down) /\ NoBlockTwice(Up)
      /\ \A i \in DOMAIN Up : Up[i].type = "content_done" => \E t \in BlockIds : Up[i] = Block(t)
      /\ Tools(Up) \cap client.emitted = {} /\ Tools(Up) \cup client.emitted \subseteq prov.blocks
  BY <1>1, <1>2 DEF BlocksFlow
<1>4. /\ NoBlockTwice(Tail(Up)) /\ Tools(Tail(Up)) \subseteq Tools(Up)
      /\ \A t \in BlockIds : Head(Up) = Block(t) => t \in Tools(Up) /\ t \notin Tools(Tail(Up))
  BY <1>1, <1>3, BlockTail
<1>5. \A i \in DOMAIN Up' : Up'[i].type = "content_done" => \E t \in BlockIds : Up'[i] = Block(t)
  BY <1>1, <1>3
<1>6. CASE type = "content_done"
  <2>1. PICK t \in BlockIds : Head(Up) = Block(t)
    BY <1>1, <1>3, <1>6
  <2>2. Head(Up).tool = t
    BY <2>1 DEF Block
  <2>3. Down' = Append(Down, Head(Up))
    <3>1. Down' = Down \o <<Head(Up)>> /\ IsList(Down)
      BY <1>1, <1>6
    <3> QED BY <3>1, ListConcatOne
  <2>4. t \in Tools(Up) /\ t \notin Tools(Tail(Up)) /\ t \notin Tools(Down)
    BY <1>3, <1>4, <2>1
  <2>5. Tools(Down') = Tools(Down) \cup {t} /\ NoBlockTwice(Down')
    BY <1>1, <1>3, <2>1, <2>3, <2>4, BlockAppend
  <2> QED BY <1>1, <1>2, <1>3, <1>4, <1>5, <1>6, <2>2, <2>4, <2>5 DEF BlocksFlow
<1>7. CASE type # "content_done"
  <2>1. Tools(Down') = Tools(Down) /\ NoBlockTwice(Down')
    <3>1. CASE client'.todo = <<>>
      BY <1>1, <1>3, <3>1, ListEmpty
    <3>2. CASE client'.todo = <<e>>
      <4>1. Down' = Append(Down, e)
        BY <1>1, <3>2, ListConcatOne
      <4> QED BY <1>1, <1>3, <4>1, BlockAppend
    <3> QED BY <1>7, <3>1, <3>2
  <2> QED BY <1>1, <1>2, <1>3, <1>4, <1>5, <1>7, <2>1 DEF BlocksFlow
<1> QED BY <1>6, <1>7

\* A piece of text is read: it is accumulated and passed on.
LEMMA ReadDeltaKeeps ==
  ASSUME PipeInv, ReadDelta
  PROVE  PipeInv'
<1> DEFINE e == Head(events.buf)
<1>1. /\ Reads("delta") /\ ClientFrame /\ result' = result /\ DOMAIN client = ClientDomain
      /\ client' = [client EXCEPT !.accumulated = Append(@, e.n), !.todo = <<e>>]
  BY DEF ReadDelta, ClientFrame, PipeInv, PipeShape, ClientDomain
<1>2. Head(Up) = e /\ e.type = "delta"
  BY <1>1, ReadFacts
<1> HIDE DEF e
<1>3. /\ DOMAIN client' = ClientDomain /\ client'.terminated = client.terminated
      /\ client'.response = client.response /\ client'.emitted = client.emitted
      /\ client'.todo = <<e>> /\ client'.accumulated = Append(client.accumulated, e.n)
  BY <1>1 DEF ClientDomain
<1>4. TextFlows'
  BY <1>1, <1>2, <1>3, ReadKeepsText
<1>5. BlocksFlow'
  BY <1>1, <1>2, <1>3, ReadKeepsBlocks
<1> QED BY <1>1, <1>2, <1>3, <1>4, <1>5, ReadKeeps

\* A block is read: the client knows that it has passed it on.
LEMMA ReadBlockKeeps ==
  ASSUME PipeInv, ReadBlock
  PROVE  PipeInv'
<1> DEFINE e == Head(events.buf)
<1>1. /\ Reads("content_done") /\ ClientFrame /\ result' = result /\ DOMAIN client = ClientDomain
      /\ client' = [client EXCEPT !.emitted = @ \cup {e.tool}, !.todo = <<e>>]
  BY DEF ReadBlock, ClientFrame, PipeInv, PipeShape, ClientDomain
<1>2. Head(Up) = e /\ e.type = "content_done"
  BY <1>1, ReadFacts
<1> HIDE DEF e
<1>3. /\ DOMAIN client' = ClientDomain /\ client'.terminated = client.terminated
      /\ client'.response = client.response /\ client'.emitted = client.emitted \cup {e.tool}
      /\ client'.todo = <<e>> /\ client'.accumulated = client.accumulated
  BY <1>1 DEF ClientDomain
<1>4. IsList(<<e>>) /\ \A i \in DOMAIN <<e>> : <<e>>[i] = e
  BY ShortLists
<1>5. TextFlows'
  BY <1>1, <1>2, <1>3, <1>4, ReadKeepsText
<1>6. ErrorEvent.type # "content_done"
  BY DEF ErrorEvent
<1>7. BlocksFlow'
  BY <1>1, <1>2, <1>3, <1>6, ReadKeepsBlocks
<1> QED BY <1>1, <1>2, <1>3, <1>5, <1>7, ReadKeeps

\* The response is read: the client keeps it and passes nothing on.
LEMMA ReadDoneKeeps ==
  ASSUME PipeInv, ReadDone
  PROVE  PipeInv'
<1> DEFINE r == Head(events.buf).response
<1>1. /\ Reads("done") /\ ClientFrame /\ result' = result /\ DOMAIN client = ClientDomain
      /\ client' = [client EXCEPT !.response = r]
  BY DEF ReadDone, ClientFrame, PipeInv, PipeShape, ClientDomain
<1> HIDE DEF r
<1>2. client.todo = <<>>
  BY <1>1, ReadFacts
<1>3. /\ DOMAIN client' = ClientDomain /\ client'.terminated = client.terminated
      /\ client'.response = r /\ client'.emitted = client.emitted
      /\ client'.todo = <<>> /\ client'.accumulated = client.accumulated
  BY <1>1, <1>2 DEF ClientDomain
<1>4. IsList(<<>>) /\ DOMAIN <<>> = {}
  BY ShortLists
<1>5. TextFlows'
  BY <1>1, <1>3, <1>4, ReadKeepsText
<1>6. ErrorEvent.type = "error"
  BY DEF ErrorEvent
<1>7. BlocksFlow'
  BY <1>1, <1>3, <1>6, ReadKeepsBlocks
<1> QED BY <1>1, <1>3, <1>5, <1>6, <1>7, ReadKeeps DEF r

\* An error is read: the client says so and reads no further.
LEMMA ReadErrorKeeps ==
  ASSUME PipeInv, ReadError
  PROVE  PipeInv'
<1> DEFINE e == End(0, TRUE)
<1>1. /\ Reads("error") /\ ClientFrame /\ result' = result /\ DOMAIN client = ClientDomain
      /\ client' = [client EXCEPT !.pc = "returning", !.todo = <<e>>]
  BY DEF ReadError, ClientFrame, PipeInv, PipeShape, ClientDomain
<1>2. e.type = "end" /\ e.error
  BY DEF End
<1> HIDE DEF e
<1>3. /\ DOMAIN client' = ClientDomain /\ client'.terminated = client.terminated
      /\ client'.response = client.response /\ client'.emitted = client.emitted
      /\ client'.todo = <<e>> /\ client'.accumulated = client.accumulated
      /\ client'.pc = "returning"
  BY <1>1 DEF ClientDomain
<1>4. IsList(<<e>>) /\ \A i \in DOMAIN <<e>> : <<e>>[i] = e
  BY ShortLists
<1>5. TextFlows'
  BY <1>1, <1>2, <1>3, <1>4, ReadKeepsText
<1>6. BlocksFlow'
  BY <1>1, <1>2, <1>3, ReadKeepsBlocks
<1> QED BY <1>1, <1>2, <1>3, <1>5, <1>6, ReadKeeps

\* The node is named: nothing is left to read, and the chunks are complete.
LEMMA ReadNodeSavedKeeps ==
  ASSUME PipeInv, ReadNodeSaved
  PROVE  PipeInv'
<1> DEFINE e == Head(events.buf)
           b == MissingBlocks(client.response)
           d == End(e.node, FALSE)
<1>1. /\ Reads("node_saved") /\ ClientFrame /\ DOMAIN client = ClientDomain
      /\ result' = [node |-> e.node, content |-> client.accumulated]
      /\ client' = [client EXCEPT !.terminated = TRUE,
                      !.emitted = @ \cup client.response.uses, !.todo = b \o <<d>>]
  BY DEF ReadNodeSaved, ClientFrame, PipeInv, PipeShape, ClientDomain
<1>2. Head(Up) = e /\ e.type = "node_saved" /\ d.type = "end" /\ ~ d.error /\ d.node = e.node
  BY <1>1, ReadFacts DEF End
<1>3. client.response.uses \subseteq BlockIds
  BY DEF PipeInv, ResponseFlows, Responses, NoResponse
<1>4. /\ IsList(b) /\ NoBlockTwice(b) /\ Tools(b) = client.response.uses \ client.emitted
      /\ \A i \in DOMAIN b : \E t \in BlockIds : b[i] = Block(t)
  BY <1>3, MissingList
<1> HIDE DEF e, b, d
<1>5. /\ Up # <<>> /\ Up' = Tail(Up) /\ IsList(Up) /\ IsList(Down) /\ IsList(Taken)
      /\ Head(Up) = Up[1] /\ 1 \in DOMAIN Up /\ Len(Up) = Len(Up') + 1 /\ Len(Up') \in Nat
      /\ ~ client.terminated /\ \A i \in DOMAIN Down : Down[i].type # "end"
      /\ Down' = Down \o client'.todo /\ Head(Taken) = Head(Up)
      /\ IsList(events'.buf) /\ DOMAIN events' = {"buf", "open"}
  BY <1>1, ReadFacts
<1>6. /\ src' = src /\ chunks' = chunks /\ prov' = prov /\ conv' = conv /\ got' = got
      /\ stored' = stored /\ PipeShape
  BY <1>1 DEF ClientFrame, PipeInv
<1>7. /\ DOMAIN client' = ClientDomain /\ client'.terminated = TRUE
      /\ client'.response = client.response
      /\ client'.emitted = client.emitted \cup client.response.uses
      /\ client'.todo = b \o <<d>> /\ client'.accumulated = client.accumulated
  BY <1>1 DEF ClientDomain
<1>8. Len(Up) = 1 /\ conv.pc # "reading" /\ e.node = stored
  BY <1>2, <1>5 DEF PipeInv, LastWords
<1>9. Up' = <<>>
  <2>1. IsList(Tail(Up))
    BY <1>5, ListTail
  <2>2. Len(Up') = 0
    <3> DEFINE n == Len(Up')
    <3>1. n \in Nat /\ 1 = n + 1
      BY <1>5, <1>8
    <3> HIDE DEF n
    <3>2. n = 0
      BY <3>1
    <3> QED BY <3>2 DEF n
  <2> QED BY <1>5, <2>1, <2>2, ListFacts
<1>10. IsList(<<d>>) /\ IsList(client'.todo)
  BY <1>4, <1>7, ShortLists, ListConcat
<1>11. Down' = Append(Down \o b, d) /\ IsList(Down \o b)
  <2>1. (Down \o b) \o <<d>> = Down \o (b \o <<d>>)
    <3> DEFINE h == <<d>>
    <3>1. IsList(h) /\ IsList(b) /\ IsList(Down)
      BY <1>4, <1>5, <1>10
    <3> HIDE DEF h
    <3>2. (Down \o b) \o h = Down \o (b \o h)
      BY <3>1, ListThree
    <3> QED BY <3>2 DEF h
  <2>2. IsList(Down \o b)
    BY <1>4, <1>5, ListConcat
  <2>3. (Down \o b) \o <<d>> = Append(Down \o b, d)
    BY <2>2, ListConcatOne
  <2> QED BY <1>5, <1>7, <2>1, <2>2, <2>3
<1>12. \A i \in DOMAIN b : b[i].type = "content_done"
  BY <1>4 DEF Block
<1>13. \A i \in DOMAIN Down' : Down'[i].type = "end" => i = Len(Down') /\ Down'[i] = d
  <2> DEFINE p == Down \o b
             m == Len(p)
  <2>1. \A i \in DOMAIN p : p[i].type # "end"
    <3> HIDE DEF p
    <3>1. /\ Len(Down) \in Nat /\ Len(b) \in Nat /\ DOMAIN Down = 1 .. Len(Down)
          /\ DOMAIN b = 1 .. Len(b) /\ DOMAIN p = 1 .. Len(Down) + Len(b)
          /\ \A i \in 1 .. Len(Down) : p[i] = Down[i]
          /\ \A i \in 1 .. Len(b) : p[Len(Down) + i] = b[i]
      <4>1. IsList(Down) /\ IsList(b)
        BY <1>4, <1>5
      <4>2. /\ Len(Down) \in Nat /\ Len(b) \in Nat /\ DOMAIN Down = 1 .. Len(Down)
            /\ DOMAIN b = 1 .. Len(b)
        BY <4>1, ListFacts
      <4>3. /\ DOMAIN p = 1 .. Len(Down) + Len(b)
            /\ \A i \in 1 .. Len(Down) : p[i] = Down[i]
            /\ \A i \in 1 .. Len(b) : p[Len(Down) + i] = b[i]
        BY <4>1, ListConcat DEF p
      <4> QED BY <4>2, <4>3
    <3>2. ASSUME NEW i \in DOMAIN p, i \notin 1 .. Len(Down)
          PROVE  \E j \in 1 .. Len(b) : i = Len(Down) + j
      <4>1. i - Len(Down) \in 1 .. Len(b) /\ i = Len(Down) + (i - Len(Down))
        BY <3>1, <3>2
      <4> QED BY <4>1
    <3>3. \A i \in 1 .. Len(Down) : p[i].type # "end"
      BY <1>5, <3>1
    <3>4. \A j \in 1 .. Len(b) : p[Len(Down) + j].type # "end"
      BY <1>12, <3>1
    <3> QED BY <3>2, <3>3, <3>4
  <2>2. IsList(p) /\ Down' = Append(p, d)
    BY <1>11
  <2> HIDE DEF p
  <2>3. /\ m \in Nat /\ DOMAIN p = 1 .. m /\ DOMAIN Down' = 1 .. m + 1 /\ Len(Down') = m + 1
        /\ Down'[m + 1] = d /\ \A i \in 1 .. m : Down'[i] = p[i]
    BY <2>2, ListAppend, ListFacts
  <2> HIDE DEF m
  <2>4. \A i \in 1 .. m + 1 : i \in 1 .. m \/ i = m + 1
    BY <2>3
  <2> QED BY <2>1, <2>3, <2>4
<1>14. PipeShape'
  <2>1. DOMAIN result' = {"node", "content"}
    BY <1>1
  <2> QED BY <1>5, <1>6, <1>7, <1>10, <2>1 DEF PipeShape, ClientDomain
<1>15. ProviderFirst'
  BY <1>6 DEF PipeInv, ProviderFirst
<1>16. LastWords'
  <2>1. \A i \in DOMAIN src'.buf :
          src'.buf[i].type \in {"delta", "content_done", "done", "error"}
    BY <1>6 DEF PipeInv, LastWords
  <2>2. DOMAIN Up' = {}
    BY <1>9
  <2> QED BY <1>6, <1>7, <1>8, <1>9, <1>13, <2>1, <2>2 DEF LastWords
<1>17. TextFlows'
  <2>1. \A i \in DOMAIN client'.todo : client'.todo[i].type # "delta"
    <3>1. b \o <<d>> = Append(b, d)
      BY <1>4, ListConcatOne
    <3>2. /\ DOMAIN Append(b, d) = 1 .. Len(b) + 1 /\ Append(b, d)[Len(b) + 1] = d
          /\ \A i \in 1 .. Len(b) : Append(b, d)[i] = b[i]
          /\ Len(b) \in Nat /\ DOMAIN b = 1 .. Len(b)
      BY <1>4, ListAppend, ListFacts
    <3>3. \A i \in 1 .. Len(b) + 1 : i \in 1 .. Len(b) \/ i = Len(b) + 1
      BY <3>2
    <3>4. \A i \in DOMAIN Append(b, d) : Append(b, d)[i].type # "delta"
      BY <1>2, <1>12, <3>2, <3>3
    <3> QED BY <1>7, <3>1, <3>4
  <2> QED BY <1>1, <1>7, <1>10, <2>1, ReadKeepsText
<1>18. BlocksFlow'
  <2>1. /\ Tools(Down) = client.emitted /\ NoBlockTwice(Down)
    BY DEF PipeInv, BlocksFlow
  <2>2. NoBlockTwice(Down \o b) /\ Tools(Down \o b) = Tools(Down) \cup Tools(b)
    <3>1. Tools(Down) \cap Tools(b) = {}
      BY <1>4, <2>1
    <3> QED BY <1>4, <1>5, <2>1, <3>1, BlockConcat
  <2>3. NoBlockTwice(Down') /\ Tools(Down') = Tools(Down \o b)
    BY <1>2, <1>11, <2>2, BlockAppend
  <2>4. Tools(Down') = client'.emitted
    BY <1>4, <1>7, <2>1, <2>2, <2>3
  <2>5. NoBlockTwice(Up') /\ DOMAIN Up' = {}
    BY <1>9 DEF NoBlockTwice
  <2> QED BY <1>7, <2>3, <2>4, <2>5 DEF BlocksFlow
<1>19. ResponseFlows'
  BY <1>1, <1>7, ReadKeepsResponse
<1>20. conv.response.uses \subseteq client'.emitted
  <2>1. Taken = Up
    <3>1. src.buf = <<>>
      BY <1>8 DEF PipeInv, ProviderFirst
    <3> QED BY <1>5, <3>1, ListEmpty DEF Up
  <2>2. \A i \in DOMAIN Taken : Taken[i].type # "done"
    <3>1. DOMAIN Up = 1 .. 1
      BY <1>5, <1>8, ListFacts
    <3>2. \A i \in 1 .. 1 : i = 1
      OBVIOUS
    <3> QED BY <1>2, <1>5, <2>1, <3>1, <3>2
  <2>3. conv.response.uses # {} => client.response = conv.response
    BY <2>2 DEF PipeInv, ResponseFlows
  <2> QED BY <1>7, <2>3
<1>21. NamedKnown'
  <2>1. conv'.last = stored' /\ conv'.response = conv.response
    BY <1>6 DEF PipeInv, NamedKnown
  <2>2. result' = [node |-> stored', content |-> client'.accumulated]
    BY <1>1, <1>6, <1>7, <1>8
  <2> QED BY <1>2, <1>6, <1>7, <1>8, <1>13, <1>20, <2>1, <2>2 DEF NamedKnown
<1> QED BY <1>14, <1>15, <1>16, <1>17, <1>18, <1>19, <1>21 DEF PipeInv

\* The events channel is closed: an error ends the chunks if nothing else did.
LEMMA ReadClosedKeeps ==
  ASSUME PipeInv, ReadClosed
  PROVE  PipeInv'
<1> DEFINE d == End(0, TRUE)
<1>1. /\ client.pc = "reading" /\ client.todo = <<>> /\ DOMAIN client = ClientDomain
      /\ client' = [client EXCEPT !.pc = "returning",
                      !.todo = IF client.terminated THEN <<>> ELSE <<d>>]
      /\ result' = IF client.terminated THEN result ELSE [result EXCEPT !.content = client.accumulated]
      /\ UNCHANGED <<src, events, chunks, prov, conv, got, stored>> /\ PipeShape
  BY DEF ReadClosed, PipeInv, PipeShape, ClientDomain
<1>2. d.type = "end" /\ d.error
  BY DEF End
<1> HIDE DEF d
<1>3. /\ DOMAIN client' = ClientDomain /\ client'.terminated = client.terminated
      /\ client'.response = client.response /\ client'.emitted = client.emitted
      /\ client'.todo = (IF client.terminated THEN <<>> ELSE <<d>>)
      /\ client'.accumulated = client.accumulated /\ client'.pc = "returning"
  BY <1>1 DEF ClientDomain
<1>4. Taken' = Taken /\ Up' = Up
  BY <1>1 DEF Taken, Up
<1>5. IsList(Up) /\ IsList(Down) /\ Down' = Down \o client'.todo
  BY <1>1, UpLists, DownGrows
<1>6. PipeShape'
  <2>1. IsList(client'.todo)
    BY <1>3, ShortLists
  <2>2. DOMAIN result' = {"node", "content"}
    BY <1>1 DEF PipeShape
  <2> QED BY <1>1, <1>3, <2>1, <2>2 DEF PipeShape, ClientDomain
<1>7. ProviderFirst' /\ ResponseFlows'
  BY <1>1, <1>3, <1>4 DEF PipeInv, ProviderFirst, ResponseFlows
<1>8. CASE client.terminated
  <2>1. Down' = Down /\ result' = result
    BY <1>1, <1>3, <1>5, <1>8, ListEmpty
  <2>2. LastWords' /\ TextFlows' /\ BlocksFlow' /\ NamedKnown'
    BY <1>1, <1>3, <1>4, <2>1 DEF PipeInv, LastWords, TextFlows, BlocksFlow, NamedKnown
  <2> QED BY <1>6, <1>7, <2>2 DEF PipeInv
<1>9. CASE ~ client.terminated
  <2>1. Down' = Append(Down, d)
    BY <1>3, <1>5, <1>9, ListConcatOne
  <2>2. \A i \in DOMAIN Down : Down[i].type # "end"
    BY <1>1, <1>9 DEF PipeInv, LastWords
  <2>3. \A i \in DOMAIN Down' : Down'[i].type = "end" => i = Len(Down') /\ Down'[i] = d
    <3>1. /\ DOMAIN Down' = 1 .. Len(Down) + 1 /\ Len(Down') = Len(Down) + 1
          /\ Down'[Len(Down) + 1] = d /\ \A i \in 1 .. Len(Down) : Down'[i] = Down[i]
          /\ DOMAIN Down = 1 .. Len(Down) /\ Len(Down) \in Nat
      BY <1>5, <2>1, ListAppend, ListFacts
    <3>2. \A i \in 1 .. Len(Down) + 1 : i \in 1 .. Len(Down) \/ i = Len(Down) + 1
      BY <3>1
    <3> QED BY <2>2, <3>1, <3>2
  <2>4. LastWords'
    BY <1>1, <1>3, <1>4, <2>3 DEF PipeInv, LastWords
  <2>5. TextFlows'
    <3> DEFINE c == Len(client.accumulated)
    <3>1. c \in Nat /\ 0 \in Nat /\ 0 <= c /\ HoldsText(Down, 0, c)
      BY DEF PipeInv, TextFlows
    <3>2. HoldsText(Append(Down, d), 0, c)
      <4> HIDE DEF c
      <4> QED BY <1>2, <1>5, <3>1, TextAppend
    <3> QED BY <1>1, <1>3, <1>4, <2>1, <3>2 DEF PipeInv, TextFlows
  <2>6. BlocksFlow'
    <3>1. NoBlockTwice(Down)
      BY DEF PipeInv, BlocksFlow
    <3>2. Tools(Down') = Tools(Down) /\ NoBlockTwice(Down')
      BY <1>2, <1>5, <2>1, <3>1, BlockAppend
    <3> QED BY <1>1, <1>3, <1>4, <3>2 DEF PipeInv, BlocksFlow
  <2>7. NamedKnown'
    BY <1>1, <1>2, <2>3 DEF PipeInv, NamedKnown
  <2> QED BY <1>6, <1>7, <2>4, <2>5, <2>6, <2>7 DEF PipeInv
<1> QED BY <1>8, <1>9

\* Steps that change neither list.
LEMMA SameListsKeep ==
  ASSUME PipeInv, PipeShape', Up' = Up, Taken' = Taken, Down' = Down,
         UNCHANGED <<src, prov, conv, result, stored>>,
         client'.accumulated = client.accumulated, client'.emitted = client.emitted,
         client'.response = client.response, client'.terminated = client.terminated,
         client.pc # "reading" => client'.pc # "reading"
  PROVE  PipeInv'
<1>1. ProviderFirst' /\ LastWords'
  BY DEF PipeInv, ProviderFirst, LastWords
<1>2. TextFlows' /\ BlocksFlow'
  BY DEF PipeInv, TextFlows, BlocksFlow
<1>3. ResponseFlows'
  BY DEF PipeInv, ResponseFlows
<1>4. NamedKnown'
  BY DEF PipeInv, NamedKnown
<1> QED BY <1>1, <1>2, <1>3, <1>4 DEF PipeInv

\* The steps of the client and of the consumer.
LEMMA ClientKeeps ==
  ASSUME PipeInv, Client \/ Consume
  PROVE  PipeInv'
<1>1. PipeShape /\ DOMAIN client = ClientDomain
  BY DEF PipeInv, PipeShape, ClientDomain
<1>2. CASE ClientSend
  <2>1. /\ client.todo # <<>> /\ chunks' = Put(chunks, Head(client.todo))
        /\ client' = [client EXCEPT !.todo = Tail(@)]
        /\ UNCHANGED <<src, events, prov, conv, result, got, stored>>
    BY <1>2 DEF ClientSend
  <2>2. /\ DOMAIN client' = ClientDomain /\ client'.todo = Tail(client.todo)
        /\ client'.accumulated = client.accumulated /\ client'.emitted = client.emitted
        /\ client'.response = client.response /\ client'.terminated = client.terminated
        /\ client'.pc = client.pc
    BY <1>1, <2>1 DEF ClientDomain
  <2>3. /\ Down' = Down /\ IsList(chunks'.buf) /\ IsList(client'.todo)
        /\ DOMAIN chunks' = {"buf", "open"}
    BY <1>1, <2>1, <2>2, DownPassed
  <2>4. Taken' = Taken /\ Up' = Up
    BY <2>1 DEF Taken, Up
  <2>5. PipeShape'
    BY <1>1, <2>1, <2>2, <2>3 DEF PipeShape, ClientDomain
  <2> QED BY <2>1, <2>2, <2>3, <2>4, <2>5, SameListsKeep
<1>3. CASE ClientReturn
  <2>1. /\ client' = [client EXCEPT !.pc = "returned"] /\ chunks' = Close(chunks)
        /\ UNCHANGED <<src, events, prov, conv, result, got, stored>>
    BY <1>3 DEF ClientReturn
  <2>2. /\ DOMAIN client' = ClientDomain /\ client'.todo = client.todo
        /\ client'.accumulated = client.accumulated /\ client'.emitted = client.emitted
        /\ client'.response = client.response /\ client'.terminated = client.terminated
        /\ client'.pc = "returned"
    BY <1>1, <2>1 DEF ClientDomain
  <2>3. chunks'.buf = chunks.buf /\ DOMAIN chunks' = {"buf", "open"}
    BY <1>1, <2>1 DEF Close, PipeShape
  <2>4. Taken' = Taken /\ Up' = Up /\ Down' = Down
    BY <2>1, <2>2, <2>3 DEF Taken, Up, Down
  <2>5. PipeShape'
    BY <1>1, <2>1, <2>2, <2>3 DEF PipeShape, ClientDomain
  <2> QED BY <2>1, <2>2, <2>4, <2>5, SameListsKeep
<1>4. CASE Consume
  <2>1. /\ chunks.buf # <<>> /\ got' = Append(got, Head(chunks.buf)) /\ chunks' = Drop(chunks)
        /\ UNCHANGED <<src, events, prov, conv, client, result, stored>>
    BY <1>4 DEF Consume
  <2>2. Down' = Down /\ IsList(chunks'.buf) /\ IsList(got') /\ DOMAIN chunks' = {"buf", "open"}
    BY <1>1, <2>1, DownConsumed
  <2>3. Taken' = Taken /\ Up' = Up
    BY <2>1 DEF Taken, Up
  <2>4. PipeShape'
    BY <1>1, <2>1, <2>2 DEF PipeShape
  <2> QED BY <2>1, <2>2, <2>3, <2>4, SameListsKeep
<1> QED
  BY <1>2, <1>3, <1>4, ReadDeltaKeeps, ReadBlockKeeps, ReadDoneKeeps, ReadErrorKeeps,
     ReadNodeSavedKeeps, ReadClosedKeeps DEF Client

-----------------------------------------------------------------------------
(***************************************************************************)
(* The invariant holds of the specification, and what follows from it.     *)
(***************************************************************************)
\* Nothing was said yet.
LEMMA InitPipe == PipeInit => PipeInv
<1> SUFFICES ASSUME PipeInit PROVE PipeInv
  OBVIOUS
<1>1. /\ src = [buf |-> <<>>, open |-> TRUE] /\ events = [buf |-> <<>>, open |-> TRUE]
      /\ chunks = [buf |-> <<>>, open |-> TRUE] /\ got = <<>> /\ stored = 0
      /\ prov = [pc |-> "streaming", first |-> 0, pieces |-> 0, blocks |-> {}]
      /\ conv = [pc |-> "reading", todo |-> <<>>, text |-> FALSE, response |-> NoResponse,
                 round |-> 1, last |-> 0]
      /\ client = [pc |-> "reading", todo |-> <<>>, accumulated |-> <<>>,
                   emitted |-> {}, response |-> NoResponse, terminated |-> FALSE]
      /\ result = [node |-> 0, content |-> <<>>]
  BY DEF PipeInit, NewChannel, FreshStream
<1>2. IsList(<<>>) /\ DOMAIN <<>> = {} /\ Len(<<>>) = 0
  BY ShortLists
<1>3. Taken = <<>> /\ Up = <<>> /\ Down = <<>>
  BY <1>1, <1>2, ListEmpty DEF Taken, Up, Down
<1>4. PipeShape
  BY <1>1, <1>2 DEF PipeShape
<1>5. ProviderFirst /\ LastWords
  BY <1>1, <1>2, <1>3 DEF ProviderFirst, LastWords
<1>6. TextFlows
  <2>1. HoldsText(<<>>, 0, 0)
    BY TextEmpty
  <2>2. <<>> = [k \in 1 .. 0 |-> k]
    OBVIOUS
  <2> QED BY <1>1, <1>2, <1>3, <2>1, <2>2 DEF TextFlows
<1>7. BlocksFlow
  BY <1>1, <1>2, <1>3 DEF BlocksFlow, Tools, NoBlockTwice
<1>8. ResponseFlows
  BY <1>1, <1>2, <1>3 DEF ResponseFlows, NoResponse
<1>9. NamedKnown
  BY <1>1, <1>2, <1>3 DEF NamedKnown
<1> QED BY <1>4, <1>5, <1>6, <1>7, <1>8, <1>9 DEF PipeInv

\* Every step keeps the invariant.
LEMMA StepPipe == PipeInv /\ [PipeNext]_pipeVars => PipeInv'
<1> SUFFICES ASSUME PipeInv, [PipeNext]_pipeVars PROVE PipeInv'
  OBVIOUS
<1>1. CASE UNCHANGED pipeVars
  <2>1. UNCHANGED <<src, events, chunks, prov, conv, client, result, got, stored>>
    BY <1>1 DEF pipeVars
  <2>2. Taken' = Taken /\ Up' = Up /\ Down' = Down
    BY <2>1 DEF Taken, Up, Down
  <2>3. PipeShape'
    BY <2>1 DEF PipeInv, PipeShape
  <2> QED BY <2>1, <2>2, <2>3, SameListsKeep
<1> QED BY <1>1, ProviderKeeps, ConversationKeeps, ClientKeeps DEF PipeNext

\* The invariant holds in every reachable state.
LEMMA PipeInvariant == PipeSpec => []PipeInv
BY InitPipe, StepPipe, PTL DEF PipeSpec

\* What the consumer has is a beginning of the chunks, and all of them once
\* it has a Done chunk.
LEMMA GotIsPrefix ==
  ASSUME PipeInv
  PROVE  \A i \in DOMAIN got : /\ i \in DOMAIN Down /\ Down[i] = got[i]
                               /\ i = Len(Down) => i = Len(got) /\ got = Down
<1>1. IsList(got) /\ IsList(chunks.buf) /\ IsList(client.todo)
  BY DEF PipeInv, PipeShape
<1> DEFINE p == got \o chunks.buf
<1>2. /\ IsList(p) /\ Len(p) = Len(got) + Len(chunks.buf)
      /\ \A i \in 1 .. Len(got) : p[i] = got[i]
  BY <1>1, ListConcat
<1> HIDE DEF p
<1>3. /\ IsList(Down) /\ Len(Down) = Len(p) + Len(client.todo)
      /\ DOMAIN Down = 1 .. Len(p) + Len(client.todo)
      /\ \A i \in 1 .. Len(p) : Down[i] = p[i]
  <2>1. Down = p \o client.todo /\ IsList(p) /\ IsList(client.todo)
    BY <1>1, <1>2 DEF Down, p
  <2> QED BY <2>1, ListConcat
<1>4. /\ Len(got) \in Nat /\ Len(chunks.buf) \in Nat /\ Len(client.todo) \in Nat /\ Len(p) \in Nat
      /\ DOMAIN got = 1 .. Len(got)
  BY <1>1, <1>2, ListFacts
<1> DEFINE g == Len(got)
           q == Len(chunks.buf)
           w == Len(client.todo)
           m == Len(p)
           n == Len(Down)
<1>5. /\ g \in Nat /\ q \in Nat /\ w \in Nat /\ m = g + q /\ n = m + w
      /\ DOMAIN got = 1 .. g /\ DOMAIN Down = 1 .. m + w
      /\ \A i \in 1 .. g : p[i] = got[i]
      /\ \A i \in 1 .. m : Down[i] = p[i]
  BY <1>2, <1>3, <1>4
<1> HIDE DEF g, q, w, m, n
<1>6. \A i \in 1 .. g : i \in DOMAIN Down /\ Down[i] = got[i]
  <2>1. \A i \in 1 .. g : i \in 1 .. m /\ i \in 1 .. m + w
    BY <1>5
  <2> QED BY <1>5, <2>1
<1>7. ASSUME NEW i \in DOMAIN got, i = n PROVE i = g /\ got = Down
  <2>1. i = g /\ g = n
    BY <1>5, <1>7
  <2> QED BY <1>1, <1>3, <1>6, <2>1, ListEqual DEF g, n
<1> QED BY <1>5, <1>6, <1>7 DEF g, n

\* The consumer gets one Done chunk at most, and nothing after it
\* (buildResult: the terminated flag, and the return after an error).
THEOREM OneDoneChunk == PipeSpec => []OneTerminalChunk
<1>1. ASSUME PipeInv PROVE OneTerminalChunk
  BY <1>1, GotIsPrefix DEF PipeInv, LastWords, OneTerminalChunk, Terminals
<1> QED BY <1>1, PipeInvariant, PTL

\* The Done chunk of a saved answer comes after all of its text and
\* every block of its response, and names the node saved last.
THEOREM NamedIsWhole == PipeSpec => []NamedAnswerIsWhole
<1>1. ASSUME PipeInv PROVE NamedAnswerIsWhole
  <2> SUFFICES ASSUME NEW i \in Terminals, ~ got[i].error
               PROVE  /\ result = [node |-> stored, content |-> [k \in 1 .. prov.pieces |-> k]]
                      /\ got[i].node = stored
                      /\ HoldsText(got, 0, prov.pieces)
                      /\ \A t \in conv.response.uses : Cardinality(Delivered(Block(t))) = 1
    BY DEF NamedAnswerIsWhole
  <2> USE <1>1
  <2>1. i \in DOMAIN got /\ got[i].type = "end"
    BY DEF Terminals
  <2>2. i \in DOMAIN Down /\ Down[i] = got[i] /\ got = Down
    BY <2>1, GotIsPrefix DEF PipeInv, LastWords
  <2>3. /\ client.terminated /\ got[i].node = stored
        /\ result = [node |-> stored, content |-> client.accumulated]
        /\ conv.response.uses \subseteq client.emitted
    BY <2>1, <2>2 DEF PipeInv, NamedKnown
  <2>4. Up = <<>>
    BY <2>3 DEF PipeInv, LastWords
  <2> DEFINE c == Len(client.accumulated)
  <2>5. /\ c \in Nat /\ c <= prov.pieces /\ client.accumulated = [k \in 1 .. c |-> k]
        /\ HoldsText(got, 0, c) /\ HoldsText(<<>>, c, prov.pieces) /\ prov.pieces \in Nat
    BY <2>2, <2>4 DEF PipeInv, TextFlows, PipeShape
  <2> HIDE DEF c
  <2>6. c = prov.pieces
    BY <2>5, TextGone
  <2>7. ASSUME NEW t \in conv.response.uses PROVE Cardinality(Delivered(Block(t))) = 1
    <3>1. t \in Tools(got) /\ NoBlockTwice(got)
      BY <2>2, <2>3 DEF PipeInv, BlocksFlow
    <3>2. PICK j \in DOMAIN got : got[j] = Block(t)
      BY <3>1 DEF Tools
    <3>3. Block(t).type = "content_done"
      BY DEF Block
    <3>4. \A k \in DOMAIN got : got[k] = Block(t) => k = j
      BY <3>1, <3>2, <3>3 DEF NoBlockTwice
    <3>5. Delivered(Block(t)) = {j}
      BY <3>2, <3>4 DEF Delivered
    <3> QED BY <3>5, FS_Singleton
  <2> QED BY <2>3, <2>5, <2>6, <2>7
<1> QED BY <1>1, PipeInvariant, PTL
=============================================================================
