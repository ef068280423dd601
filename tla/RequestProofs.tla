--------------------------- MODULE RequestProofs ---------------------------
(***************************************************************************)
(* Theorems about the request of a call that continues a conversation: its *)
(* messages alternate, carry each piece once, and answer every tool use.   *)
(***************************************************************************)
EXTENDS ConversationProofs, SequenceTheorems

-----------------------------------------------------------------------------
(***************************************************************************)
(* The order of a path.                                                    *)
(***************************************************************************)

\* Row a is read before row b.
Precedes(rows, a, b) ==
  \/ rows[a].seq < rows[b].seq
  \/ rows[a].seq = rows[b].seq /\ a < b

\* The rows read before row a.
Earlier(rows, a) == {b \in DOMAIN rows : Precedes(rows, b, a)}

\* A table of rows with numbers, of which there are finitely many.
FiniteRows(rows) ==
  /\ IsFiniteSet(DOMAIN rows)
  /\ \A a \in DOMAIN rows : a \in Nat /\ rows[a].seq \in Nat

\* How many rows precede a row says where it comes.
LEMMA EarlierCounted ==
  ASSUME NEW rows, FiniteRows(rows)
  PROVE  /\ Cardinality(DOMAIN rows) \in Nat
         /\ \A a \in DOMAIN rows :
              Cardinality(Earlier(rows, a)) \in 0 .. Cardinality(DOMAIN rows) - 1
         /\ \A a, b \in DOMAIN rows :
              Precedes(rows, a, b) => Cardinality(Earlier(rows, a)) < Cardinality(Earlier(rows, b))
<1>1. IsFiniteSet(DOMAIN rows) /\ \A a \in DOMAIN rows : a \in Nat /\ rows[a].seq \in Nat
  BY DEF FiniteRows
<1>2. Cardinality(DOMAIN rows) \in Nat
  BY <1>1, FS_CardinalityType
<1>3. ASSUME NEW a \in DOMAIN rows
      PROVE  /\ IsFiniteSet(Earlier(rows, a)) /\ Cardinality(Earlier(rows, a)) \in Nat
             /\ Cardinality(Earlier(rows, a)) < Cardinality(DOMAIN rows)
  <2>1. Earlier(rows, a) \subseteq DOMAIN rows /\ a \notin Earlier(rows, a)
    BY <1>1 DEF Earlier, Precedes
  <2>2. IsFiniteSet(Earlier(rows, a)) /\ Cardinality(Earlier(rows, a)) <= Cardinality(DOMAIN rows)
        /\ (Cardinality(Earlier(rows, a)) = Cardinality(DOMAIN rows) =>
              Earlier(rows, a) = DOMAIN rows)
    BY <1>1, <2>1, FS_Subset
  <2>3. Cardinality(Earlier(rows, a)) \in Nat
    BY <2>2, FS_CardinalityType
  <2>4. Cardinality(Earlier(rows, a)) # Cardinality(DOMAIN rows)
    BY <2>1, <2>2
  <2> QED BY <1>2, <2>2, <2>3, <2>4
<1>4. ASSUME NEW a \in DOMAIN rows, NEW b \in DOMAIN rows, Precedes(rows, a, b)
      PROVE  Cardinality(Earlier(rows, a)) < Cardinality(Earlier(rows, b))
  <2>1. Earlier(rows, a) \subseteq Earlier(rows, b)
    BY <1>1, <1>4 DEF Earlier, Precedes
  <2>2. a \in Earlier(rows, b) /\ a \notin Earlier(rows, a)
    BY <1>1, <1>4 DEF Earlier, Precedes
  <2>3. IsFiniteSet(Earlier(rows, b)) /\ Cardinality(Earlier(rows, b)) \in Nat
        /\ Cardinality(Earlier(rows, a)) \in Nat
    BY <1>3
  <2>4. Cardinality(Earlier(rows, a)) <= Cardinality(Earlier(rows, b))
        /\ (Cardinality(Earlier(rows, a)) = Cardinality(Earlier(rows, b)) =>
              Earlier(rows, a) = Earlier(rows, b))
    BY <2>1, <2>3, FS_Subset
  <2>5. Cardinality(Earlier(rows, a)) # Cardinality(Earlier(rows, b))
    BY <2>2, <2>4
  <2> QED BY <2>3, <2>4, <2>5
<1>5. \A a \in DOMAIN rows : Cardinality(Earlier(rows, a)) \in 0 .. Cardinality(DOMAIN rows) - 1
  BY <1>2, <1>3
<1> QED BY <1>2, <1>4, <1>5

\* Some row has i rows before it, for every i below their number: the counts
\* are pairwise different.
LEMMA EveryPlaceTaken ==
  ASSUME NEW rows, FiniteRows(rows), NEW i \in 0 .. Cardinality(DOMAIN rows) - 1
  PROVE  \E a \in DOMAIN rows : Cardinality(Earlier(rows, a)) = i
<1> DEFINE N == Cardinality(DOMAIN rows)
           D == DOMAIN rows
           f == [a \in D |-> Cardinality(Earlier(rows, a))]
           T == (0 .. N - 1) \ {i}
<1>1. /\ N \in Nat /\ \A a \in D : f[a] \in 0 .. N - 1
      /\ \A a, b \in D : Precedes(rows, a, b) => f[a] < f[b]
  BY EarlierCounted
<1>2. IsFiniteSet(0 .. N - 1) /\ Cardinality(0 .. N - 1) = N
  BY <1>1, FS_Interval
<1>3. IsFiniteSet(T) /\ Cardinality(T) = N - 1
  BY <1>2, FS_RemoveElement
<1>4. SUFFICES ASSUME \A a \in D : f[a] # i PROVE FALSE
  OBVIOUS
<1>5. f \in [D -> T]
  BY <1>1, <1>4
<1>6. IsFiniteSet(D) /\ \A a \in D : a \in Nat /\ rows[a].seq \in Nat
  BY DEF FiniteRows
<1> HIDE DEF f, T
<1>7. PICK a \in D, b \in D : a # b /\ f[a] = f[b]
  BY <1>1, <1>3, <1>5, <1>6, FS_PigeonHole
<1>8. Precedes(rows, a, b) \/ Precedes(rows, b, a)
  BY <1>6, <1>7 DEF Precedes
<1>9. f[a] \in 0 .. N - 1 /\ f[b] \in 0 .. N - 1
  BY <1>1
<1> QED BY <1>1, <1>7, <1>8, <1>9

\* The row at each place of the path.
At(rows) ==
  [i \in 1 .. Cardinality(DOMAIN rows) |->
     CHOOSE a \in DOMAIN rows : Cardinality(Earlier(rows, a)) = i - 1]

\* Path lists every row once, the earlier ones first.
LEMMA PathListed ==
  ASSUME NEW rows, FiniteRows(rows)
  PROVE  LET N == Cardinality(DOMAIN rows) IN
         /\ N \in Nat /\ At(rows) \in [1 .. N -> DOMAIN rows]
         /\ Path(rows) = [i \in 1 .. N |-> rows[At(rows)[i]]]
         /\ \A a \in DOMAIN rows : \E i \in 1 .. N : At(rows)[i] = a
         /\ \A i, j \in 1 .. N : i < j <=> Precedes(rows, At(rows)[i], At(rows)[j])
<1> DEFINE N == Cardinality(DOMAIN rows)
           D == DOMAIN rows
           rank(a) == Cardinality(Earlier(rows, a))
<1>1. /\ N \in Nat /\ \A a \in D : rank(a) \in 0 .. N - 1
      /\ \A a, b \in D : Precedes(rows, a, b) => rank(a) < rank(b)
  BY EarlierCounted
<1>2. \A a \in D : a \in Nat /\ rows[a].seq \in Nat
  BY DEF FiniteRows
<1>3. \A a, b \in D : a = b \/ Precedes(rows, a, b) \/ Precedes(rows, b, a)
  BY <1>2 DEF Precedes
<1>4. ASSUME NEW i \in 1 .. N
      PROVE  At(rows)[i] \in D /\ rank(At(rows)[i]) = i - 1
  <2>1. i - 1 \in 0 .. N - 1
    BY <1>1
  <2>2. \E a \in D : rank(a) = i - 1
    BY <2>1, EveryPlaceTaken
  <2> QED BY <2>2 DEF At
<1>5. Path(rows) = [i \in 1 .. N |-> rows[At(rows)[i]]]
  BY DEF Path, At, Earlier, Precedes
<1>6. At(rows) \in [1 .. N -> D]
  BY <1>4 DEF At
<1> HIDE DEF rank, D
<1>7. ASSUME NEW a \in D
      PROVE  \E i \in 1 .. N : At(rows)[i] = a
  <2>1. rank(a) \in 0 .. N - 1
    BY <1>1
  <2>2. rank(a) + 1 \in 1 .. N /\ (rank(a) + 1) - 1 = rank(a)
    BY <1>1, <2>1
  <2>3. PICK i \in 1 .. N : i - 1 = rank(a)
    BY <2>2
  <2>4. At(rows)[i] \in D /\ rank(At(rows)[i]) = rank(a)
    BY <1>4, <2>3
  <2>5. ~ (rank(a) < rank(a))
    BY <2>1
  <2>6. At(rows)[i] = a
    BY <1>1, <1>3, <2>4, <2>5
  <2> QED BY <2>6
<1>8. ASSUME NEW i \in 1 .. N, NEW j \in 1 .. N
      PROVE  i < j <=> Precedes(rows, At(rows)[i], At(rows)[j])
  <2>1. /\ At(rows)[i] \in D /\ rank(At(rows)[i]) = i - 1
        /\ At(rows)[j] \in D /\ rank(At(rows)[j]) = j - 1
    BY <1>4
  <2>2. i < j <=> rank(At(rows)[i]) < rank(At(rows)[j])
    BY <1>1, <2>1
  <2>3. rank(At(rows)[i]) < rank(At(rows)[j]) =>
          At(rows)[i] # At(rows)[j] /\ ~ (rank(At(rows)[j]) < rank(At(rows)[i]))
    BY <1>1, <2>1
  <2> QED BY <1>1, <1>3, <2>1, <2>2, <2>3
<1> QED BY <1>1, <1>5, <1>6, <1>7, <1>8 DEF D

-----------------------------------------------------------------------------
(***************************************************************************)
(* The messages of a path.                                                 *)
(***************************************************************************)

Message == [role : {"user", "assistant"}, content : Seq(BlockType)]

\* No two messages in a row of one role.
Alternates(messages) == \A i \in 1 .. Len(messages) - 1 : messages[i].role # messages[i + 1].role

\* What messages r are after content was added.
Merged(messages, role, content, r) ==
  LET n == Len(messages) IN
  /\ n >= 1 /\ messages[n].role = role /\ Len(r) = n
  /\ \A i \in 1 .. n - 1 : r[i] = messages[i]
  /\ r[n] = [role |-> role, content |-> messages[n].content \o content]

Started(messages, role, content, r) ==
  LET n == Len(messages) IN
  /\ n >= 1 => messages[n].role # role
  /\ Len(r) = n + 1
  /\ \A i \in 1 .. n : r[i] = messages[i]
  /\ r[n + 1] = [role |-> role, content |-> content]

\* Content is added to the last message, or makes a message of its own.
LEMMA ContentAdded ==
  ASSUME NEW messages \in Seq(Message), NEW role \in {"user", "assistant"},
         NEW content \in Seq(BlockType)
  PROVE  LET r == AddContent(messages, role, content) IN
         /\ r \in Seq(Message)
         /\ Merged(messages, role, content, r) \/ Started(messages, role, content, r)
<1> DEFINE n == Len(messages)
           r == AddContent(messages, role, content)
<1>1. n \in Nat /\ (messages # <<>> <=> n >= 1) /\ \A i \in 1 .. n : messages[i] \in Message
  OBVIOUS
<1>2. CASE messages # <<>> /\ messages[n].role = role
  <2>1. r = [messages EXCEPT ![n].content = messages[n].content \o content]
    BY <1>2 DEF AddContent, Last
  <2>2. n \in 1 .. n
    BY <1>1, <1>2
  <2>3. messages[n] \in Message
    BY <1>1, <2>2
  <2>4. messages[n].content \o content \in Seq(BlockType)
    BY <2>3 DEF Message
  <2>5. [messages[n] EXCEPT !.content = messages[n].content \o content]
          = [role |-> role, content |-> messages[n].content \o content]
    <3>1. \A x : \A y \in Message : [y EXCEPT !.content = x] = [role |-> y.role, content |-> x]
      BY DEF Message
    <3> QED BY <1>2, <2>3, <3>1
  <2>6. [role |-> role, content |-> messages[n].content \o content] \in Message
    BY <2>4 DEF Message
  <2> DEFINE m == [role |-> role, content |-> messages[n].content \o content]
  <2>7. r = [messages EXCEPT ![n] = m]
    BY <1>1, <2>1, <2>2, <2>5
  <2>8. m \in Message /\ m.role = role
    BY <2>6
  <2> HIDE DEF m, r
  <2>9. r \in Seq(Message) /\ Len(r) = n /\ r[n] = m /\ \A i \in 1 .. n - 1 : r[i] = messages[i]
    BY <2>7, <2>8, <2>2, <1>1
  <2> QED BY <1>1, <1>2, <2>8, <2>9 DEF m, r, Merged
<1>3. CASE ~ (messages # <<>> /\ messages[n].role = role)
  <2> DEFINE m == [role |-> role, content |-> content]
  <2>1. r = Append(messages, m)
    BY <1>3 DEF AddContent, Last
  <2>2. m \in Message /\ m.role = role
    BY DEF Message
  <2> HIDE DEF m, r
  <2>3. r \in Seq(Message) /\ Len(r) = n + 1 /\ r[n + 1] = m /\ \A i \in 1 .. n : r[i] = messages[i]
    BY <2>1, <2>2, <1>1
  <2> QED BY <1>1, <1>3, <2>2, <2>3 DEF m, r, Started
<1> QED BY <1>2, <1>3

\* Adding content keeps the messages alternating, and the first one's role.
LEMMA AddedAlternates ==
  ASSUME NEW messages \in Seq(Message), NEW role \in {"user", "assistant"},
         NEW content \in Seq(BlockType), Alternates(messages)
  PROVE  LET r == AddContent(messages, role, content) IN
         /\ r \in Seq(Message) /\ Len(r) \in Nat /\ Len(r) >= 1 /\ r[Len(r)].role = role
         /\ Alternates(r)
         /\ Len(messages) >= 1 => r[1].role = messages[1].role
         /\ ~ (Len(messages) >= 1) => r[1].role = role
<1> DEFINE n == Len(messages)
           r == AddContent(messages, role, content)
<1>0. /\ r \in Seq(Message)
      /\ Merged(messages, role, content, r) \/ Started(messages, role, content, r)
  BY ContentAdded
<1> HIDE DEF r
<1>1. /\ n \in Nat /\ Len(r) \in Nat /\ Len(r) >= 1
      /\ r[Len(r)].role = role
  BY <1>0 DEF Merged, Started
<1>2. \A i \in 1 .. n - 1 : messages[i].role # messages[i + 1].role
  BY DEF Alternates
<1>3. \/ /\ n >= 1 /\ messages[n].role = role /\ Len(r) = n
         /\ \A i \in 1 .. n : r[i].role = messages[i].role
      \/ /\ n >= 1 => messages[n].role # role
         /\ Len(r) = n + 1 /\ r[n + 1].role = role
         /\ \A i \in 1 .. n : r[i].role = messages[i].role
  <2>1. \/ /\ n >= 1 /\ messages[n].role = role /\ Len(r) = n
           /\ \A i \in 1 .. n - 1 : r[i] = messages[i]
           /\ r[n].role = role
        \/ /\ n >= 1 => messages[n].role # role
           /\ Len(r) = n + 1
           /\ \A i \in 1 .. n : r[i] = messages[i]
           /\ r[n + 1].role = role
    BY <1>0 DEF Merged, Started
  <2>2. \A i \in 1 .. n : i \in 1 .. n - 1 \/ i = n
    BY <1>1
  <2> QED BY <2>1, <2>2
<1> HIDE DEF n
<1>4. CASE /\ n >= 1 /\ messages[n].role = role /\ Len(r) = n
           /\ \A i \in 1 .. n : r[i].role = messages[i].role
  <2>1. \A i \in 1 .. n - 1 : i \in 1 .. n /\ i + 1 \in 1 .. n
    BY <1>1
  <2>2. 1 \in 1 .. n
    BY <1>1, <1>4
  <2> QED BY <1>0, <1>1, <1>2, <1>4, <2>1, <2>2 DEF Alternates, n, r
<1>5. CASE /\ n >= 1 => messages[n].role # role
           /\ Len(r) = n + 1 /\ r[n + 1].role = role
           /\ \A i \in 1 .. n : r[i].role = messages[i].role
  <2>1. \A i \in 1 .. n : i = n \/ (i \in 1 .. n - 1 /\ i + 1 \in 1 .. n)
    BY <1>1
  <2>2. \A i \in 1 .. n : r[i].role # r[i + 1].role
    <3> TAKE i \in 1 .. n
    <3>1. n >= 1
      BY <1>1
    <3>2. CASE i = n
      BY <1>5, <3>1, <3>2
    <3>3. CASE i # n
      BY <1>2, <1>5, <2>1, <3>3
    <3> QED BY <3>2, <3>3
  <2>3. Len(r) - 1 = n
    BY <1>1, <1>5
  <2>4. Alternates(r)
    BY <2>2, <2>3 DEF Alternates
  <2>5. n >= 1 => 1 \in 1 .. n
    BY <1>1
  <2>6. ~ (n >= 1) => n + 1 = 1
    BY <1>1
  <2> QED BY <1>0, <1>1, <1>5, <2>4, <2>5, <2>6 DEF n, r
<1> QED BY <1>3, <1>4, <1>5 DEF n, r

\* SetToSeq lists every element of a finite set, once.
LEMMA SetListed ==
  ASSUME NEW T, NEW S \in SUBSET T, IsFiniteSet(S)
  PROVE  /\ SetToSeq(S) \in Seq(T) /\ ToSet(SetToSeq(S)) = S /\ IsInjective(SetToSeq(S))
<1> DEFINE n == Cardinality(S)
           q == SetToSeq(S)
<1>1. n \in Nat /\ ExistsBijection(1 .. n, S)
  BY FS_CardinalityType
<1>2. PICK f \in [1 .. n -> S] : IsInjective(f)
  BY <1>1 DEF ExistsBijection, Bijection, Injection, IsInjective
<1>3. q \in [1 .. n -> S] /\ IsInjective(q)
  BY <1>2 DEF SetToSeq
<1>4. q \in Seq(T) /\ DOMAIN q = 1 .. n
  BY <1>1, <1>3
<1>5. ASSUME NEW x \in S, x \notin ToSet(q) PROVE FALSE
  <2>1. q \in [1 .. n -> S \ {x}]
    BY <1>3, <1>5 DEF ToSet
  <2>2. IsFiniteSet(S \ {x}) /\ Cardinality(S \ {x}) = n - 1
    BY <1>5, FS_RemoveElement
  <2>3. IsFiniteSet(1 .. n) /\ Cardinality(1 .. n) = n
    BY <1>1, FS_Interval
  <2>4. n - 1 < n
    BY <1>1
  <2> HIDE DEF n, q
  <2>5. PICK i \in 1 .. n, j \in 1 .. n : i # j /\ q[i] = q[j]
    BY <2>1, <2>2, <2>3, <2>4, FS_PigeonHole, ZenonT(60)
  <2> QED BY <1>3, <1>4, <2>5 DEF IsInjective
<1>6. ToSet(q) \subseteq S
  BY <1>3 DEF ToSet
<1> QED BY <1>3, <1>4, <1>5, <1>6

\* The synthetic results of a row: error results for its orphaned uses, each
\* once.
LEMMA SyntheticListed ==
  ASSUME NEW row, NEW orphans \in SUBSET IndexType, IsFiniteSet(orphans)
  PROVE  /\ SyntheticResults(row, orphans) \in Seq(BlockType)
         /\ ToSet(SyntheticResults(row, orphans))
              = {Synthetic(e.tool) : e \in {f \in orphans : f.node = row.id}}
         /\ IsInjective(SyntheticResults(row, orphans))
<1> DEFINE O == {f \in orphans : f.node = row.id}
           g == [e \in O |-> Synthetic(e.tool)]
           S == {Synthetic(e.tool) : e \in O}
<1>1. IsFiniteSet(O)
  BY FS_Subset
<1>2. g \in [O -> BlockType]
  BY DEF Synthetic, BlockType, IndexType
<1>3. S = {g[e] : e \in O}
  OBVIOUS
<1>4. S \subseteq BlockType
  BY <1>2, <1>3
<1>5. IsFiniteSet({g[e] : e \in O})
  <2> HIDE DEF g, O
  <2> QED BY <1>1, <1>2, ImageFinite
<1> HIDE DEF S
<1>6. SetToSeq(S) \in Seq(BlockType) /\ ToSet(SetToSeq(S)) = S /\ IsInjective(SetToSeq(S))
  <2>1. IsFiniteSet(S)
    BY <1>3, <1>5
  <2> QED BY <1>4, <2>1, SetListed
<1> QED BY <1>6 DEF SyntheticResults, S, O

\* MessagesBy satisfies its recursive definition, for a path of any length:
\* there is no least length up to which no function does.
LEMMA MessagesByDef ==
  ASSUME NEW path, NEW orphans, Len(path) \in Nat
  PROVE  MessagesBy(path, orphans)
           = [i \in 0 .. Len(path) |->
                IF i = 0 THEN <<>> ELSE AddRow(MessagesBy(path, orphans)[i - 1], path, orphans, i)]
<1> DEFINE N == Len(path)
           By(g, n) == g = [i \in 0 .. n |-> IF i = 0 THEN <<>> ELSE AddRow(g[i - 1], path, orphans, i)]
           None == {n \in 0 .. N : ~ \E g : By(g, n)}
<1>1. None = {}
  <2> SUFFICES ASSUME None # {} PROVE FALSE
    OBVIOUS
  <2>1. PICK n \in None : \A k \in None : n <= k
    <3>1. None \subseteq Nat
      OBVIOUS
    <3> HIDE DEF None
    <3> QED BY <3>1, LeastNatural
  <2>2. n # 0
    <3>1. By([i \in 0 .. 0 |-> <<>>], 0)
      OBVIOUS
    <3> HIDE DEF By
    <3> QED BY <3>1
  <2>3. n - 1 \in 0 .. N /\ n - 1 \notin None
    <3>1. n \in 0 .. N
      BY <2>1
    <3>2. \A k \in None : n <= k
      BY <2>1
    <3> HIDE DEF None
    <3> QED BY <2>2, <3>1, <3>2
  <2>4. PICK g : By(g, n - 1)
    BY <2>3
  <2> DEFINE h == [i \in 0 .. n |-> IF i = n THEN AddRow(g[n - 1], path, orphans, n) ELSE g[i]]
  <2>5. n \in 1 .. N
    BY <2>1, <2>2
  <2>6. By(h, n)
    <3>1. \A i \in 0 .. n - 1 : g[i] = IF i = 0 THEN <<>> ELSE AddRow(g[i - 1], path, orphans, i)
      BY <2>4
    <3>2. \A i \in 0 .. n : i # n => i \in 0 .. n - 1 /\ (i # 0 => i - 1 \in 0 .. n /\ i - 1 # n)
      BY <2>5
    <3>3. n - 1 \in 0 .. n /\ n - 1 # n
      BY <2>5
    <3>4. \A i \in 0 .. n : h[i] = IF i = 0 THEN <<>> ELSE AddRow(h[i - 1], path, orphans, i)
      BY <2>5, <3>1, <3>2, <3>3
    <3> QED BY <3>4
  <2> HIDE DEF By
  <2> QED BY <2>1, <2>6
<1>2. \E g : By(g, N)
  BY <1>1
<1>3. By(CHOOSE g : By(g, N), N)
  BY <1>2
<1> QED BY <1>3 DEF MessagesBy

\* The messages before the first row, and after one more row.
LEMMA BuiltByRow ==
  ASSUME NEW path, NEW orphans, Len(path) \in Nat
  PROVE  /\ MessagesBy(path, orphans)[0] = <<>>
         /\ \A i \in 1 .. Len(path) :
              MessagesBy(path, orphans)[i] = AddRow(MessagesBy(path, orphans)[i - 1], path, orphans, i)
<1> DEFINE B == MessagesBy(path, orphans)
           N == Len(path)
<1>1. B = [i \in 0 .. N |-> IF i = 0 THEN <<>> ELSE AddRow(B[i - 1], path, orphans, i)]
  BY MessagesByDef
<1> HIDE DEF B
<1>2. 0 \in 0 .. N /\ \A i \in 1 .. N : i \in 0 .. N /\ i # 0
  OBVIOUS
<1>3. B[0] = <<>> /\ \A i \in 1 .. N : B[i] = AddRow(B[i - 1], path, orphans, i)
  BY <1>1, <1>2
<1> QED BY <1>3 DEF B

\* A set of places with 0, and with i whenever it has i - 1, has all of them.
LEMMA EveryPlace ==
  ASSUME NEW N \in Nat, NEW S, 0 \in S, \A i \in 1 .. N : i - 1 \in S => i \in S
  PROVE  0 .. N \subseteq S
<1> DEFINE Bad == {i \in 0 .. N : i \notin S}
<1> SUFFICES ASSUME Bad # {} PROVE FALSE
  OBVIOUS
<1>1. Bad \subseteq Nat /\ \A i \in Bad : i \in 0 .. N /\ i \notin S
  OBVIOUS
<1>2. \A i \in 0 .. N : i \in S \/ i \in Bad
  OBVIOUS
<1> HIDE DEF Bad
<1>3. PICK i \in Bad : \A k \in Bad : i <= k
  BY <1>1, LeastNatural
<1>4. i # 0 /\ i \in 0 .. N
  BY <1>1
<1>5. i \in 1 .. N /\ i - 1 \in 0 .. N /\ ~ (i <= i - 1)
  BY <1>4
<1>6. i - 1 \in S
  BY <1>2, <1>3, <1>5
<1> QED BY <1>1, <1>5, <1>6

\* What the rows so far have said is a list of messages that alternate and
\* starts with the role of the first row.
BuiltInTurn(path, messages, i) ==
  /\ messages \in Seq(Message) /\ Alternates(messages)
  /\ i = 0 => messages = <<>>
  /\ i > 0 /\ ~ Superseded(path, 1) =>
       Len(messages) >= 1 /\ messages[1].role = Role(path[1])

\* A row keeps it so.
LEMMA RowInTurn ==
  ASSUME NEW path \in Seq(RowType), NEW orphans \in SUBSET IndexType, IsFiniteSet(orphans),
         NEW i \in 1 .. Len(path), NEW messages, BuiltInTurn(path, messages, i - 1)
  PROVE  BuiltInTurn(path, AddRow(messages, path, orphans, i), i)
<1> DEFINE row     == path[i]
           said    == IF Superseded(path, i) \/ Role(row) = "none" THEN messages
                      ELSE AddContent(messages, Role(row), row.content)
           answers == SyntheticResults(row, orphans)
           r       == IF answers = <<>> THEN said ELSE AddContent(said, "user", answers)
<1>1. row \in RowType /\ messages \in Seq(Message) /\ Alternates(messages)
  BY DEF BuiltInTurn
<1>2. Role(row) \in {"user", "assistant"} /\ row.content \in Seq(BlockType) /\ Role(row) # "none"
  BY <1>1 DEF RowType, Role
<1>3. answers \in Seq(BlockType)
  BY SyntheticListed
<1>4. r = AddRow(messages, path, orphans, i)
  BY DEF AddRow
<1>5. /\ said \in Seq(Message) /\ Alternates(said) /\ Len(said) \in Nat
      /\ Len(messages) >= 1 => Len(said) >= 1 /\ said[1].role = messages[1].role
      /\ ~ Superseded(path, i) /\ messages = <<>> => Len(said) >= 1 /\ said[1].role = Role(row)
  <2>1. CASE Superseded(path, i)
    BY <1>1, <2>1
  <2>2. CASE ~ Superseded(path, i)
    <3>1. said = AddContent(messages, Role(row), row.content)
      BY <1>2, <2>2
    <3>0. PICK rl \in {"user", "assistant"}, ct \in Seq(BlockType) : rl = Role(row) /\ ct = row.content
      BY <1>2
    <3> HIDE DEF said, row
    <3>1a. said = AddContent(messages, rl, ct)
      BY <3>0, <3>1
    <3>1b. messages \in Seq(Message) /\ Alternates(messages)
      BY <1>1
    <3>1c. /\ said \in Seq(Message) /\ Len(said) \in Nat /\ Len(said) >= 1 /\ Alternates(said)
           /\ Len(messages) >= 1 => said[1].role = messages[1].role
           /\ ~ (Len(messages) >= 1) => said[1].role = rl
      BY <3>1a, <3>1b, AddedAlternates, ZenonT(60)
    <3>2. /\ said \in Seq(Message) /\ Len(said) \in Nat /\ Len(said) >= 1 /\ Alternates(said)
          /\ Len(messages) >= 1 => said[1].role = messages[1].role
          /\ ~ (Len(messages) >= 1) => said[1].role = Role(row)
      BY <3>0, <3>1c
    <3>3. messages = <<>> => ~ (Len(messages) >= 1)
      OBVIOUS
    <3> QED BY <3>2, <3>3
  <2> QED BY <2>1, <2>2
<1>6. /\ r \in Seq(Message) /\ Alternates(r) /\ Len(r) \in Nat
      /\ Len(said) >= 1 => Len(r) >= 1 /\ r[1].role = said[1].role
  <2>1. CASE answers = <<>>
    BY <1>5, <2>1
  <2>2. CASE answers # <<>>
    <3>1. r = AddContent(said, "user", answers)
      BY <2>2
    <3> HIDE DEF said, r, answers
    <3>2. /\ r \in Seq(Message) /\ Len(r) \in Nat /\ Len(r) >= 1 /\ Alternates(r)
          /\ Len(said) >= 1 => r[1].role = said[1].role
      BY <1>3, <1>5, <3>1, AddedAlternates
    <3> QED BY <3>2
  <2> QED BY <2>1, <2>2
<1> HIDE DEF said, r, answers
<1>7. ASSUME ~ Superseded(path, 1) PROVE Len(r) >= 1 /\ r[1].role = Role(path[1])
  <2>1. CASE i = 1
    <3>1. messages = <<>>
      BY <2>1 DEF BuiltInTurn
    <3> QED BY <1>5, <1>6, <1>7, <2>1, <3>1
  <2>2. CASE i # 1
    <3>1. i - 1 > 0
      BY <2>2
    <3>2. Len(messages) >= 1 /\ messages[1].role = Role(path[1])
      BY <1>7, <3>1 DEF BuiltInTurn
    <3> QED BY <1>5, <1>6, <3>2
  <2> QED BY <2>1, <2>2
<1>8. i # 0
  OBVIOUS
<1> QED BY <1>4, <1>6, <1>7, <1>8 DEF BuiltInTurn

\* The messages of a path alternate and start with the role of its first row.
LEMMA MessagesInTurn ==
  ASSUME NEW path \in Seq(RowType), NEW orphans \in SUBSET IndexType, IsFiniteSet(orphans)
  PROVE  BuiltInTurn(path, BuildMessages(path, orphans), Len(path))
<1> DEFINE B == MessagesBy(path, orphans)
           N == Len(path)
           S == {i \in 0 .. N : BuiltInTurn(path, B[i], i)}
<1>1. N \in Nat
  OBVIOUS
<1>2. B[0] = <<>> /\ \A i \in 1 .. N : B[i] = AddRow(B[i - 1], path, orphans, i)
  BY <1>1, BuiltByRow
<1> HIDE DEF B
<1>3. 0 \in S
  <2>1. <<>> \in Seq(Message) /\ Alternates(<<>>)
    BY DEF Alternates
  <2>2. BuiltInTurn(path, <<>>, 0)
    BY <2>1 DEF BuiltInTurn
  <2> QED BY <1>1, <1>2, <2>2
<1>4. ASSUME NEW i \in 1 .. N, i - 1 \in S PROVE i \in S
  <2>1. BuiltInTurn(path, B[i - 1], i - 1) /\ i \in 0 .. N
    BY <1>4
  <2>2. BuiltInTurn(path, AddRow(B[i - 1], path, orphans, i), i)
    BY <2>1, RowInTurn
  <2> QED BY <1>2, <2>1, <2>2
<1> HIDE DEF S
<1>5. 0 .. N \subseteq S
  BY <1>1, <1>3, <1>4, EveryPlace
<1>6. N \in S
  BY <1>1, <1>5
<1> QED BY <1>6 DEF S, B, BuildMessages

-----------------------------------------------------------------------------
(***************************************************************************)
(* What the steps do to the table, the index and the path a call has read. *)
(***************************************************************************)

\* A row that is new was inserted by a call.
LEMMA NewRow ==
  ASSUME IInv, [Next]_vars, nextId \in DOMAIN nodes'
  PROVE  \E c \in Calls :
           \/ Prompt(c) /\ nodes'[nextId] = RootRow(c)
           \/ CreateUser(c) /\ nodes'[nextId] = UserRow(c)
           \/ Save(c) /\ nodes'[nextId] = AssistantRow(c)
<1>1. nextId \notin DOMAIN nodes
  BY DEF IInv, TypeOK, StoreOK, NodeId
<1>2. ASSUME NEW c \in Calls, Prompt(c) \/ CreateUser(c) \/ Save(c)
      PROVE  \/ Prompt(c) /\ nodes'[nextId] = RootRow(c)
             \/ CreateUser(c) /\ nodes'[nextId] = UserRow(c)
             \/ Save(c) /\ nodes'[nextId] = AssistantRow(c)
  BY <1>2 DEF Prompt, CreateUser, Save, CreateNode
<1>3. ASSUME NEW c \in Calls,
             \/ PromptFrom(c) \/ PromptFromFails(c) \/ CreateFails(c) \/ IndexResults(c)
             \/ CheckOrphans(c) \/ CheckFails(c) \/ OpenStream(c) \/ OpenFails(c)
             \/ DrainNothing(c) \/ Drain(c) \/ SaveFails(c) \/ IndexUses(c)
             \/ Continue(c) \/ ContinueFails(c)
      PROVE  nodes' = nodes
  BY <1>3 DEF PromptFrom, PromptFromFails, CreateFails, IndexResults, CheckOrphans, CheckFails,
       OpenStream, OpenFails, DrainNothing, Drain, SaveFails, IndexUses, Continue, ContinueFails,
       storeVars
<1>4. ASSUME Delete PROVE DOMAIN nodes' \subseteq DOMAIN nodes
  BY <1>4 DEF Delete, DeleteNode
<1>5. ASSUME UNCHANGED vars PROVE nodes' = nodes
  BY <1>5 DEF vars
<1> QED BY <1>1, <1>2, <1>3, <1>4, <1>5 DEF Next, Work

\* The index entries of a node.
Entries(n, tools, role) == {[node |-> n, tool |-> t, role |-> role] : t \in tools}

\* The index gains the results of a message, or the uses of a response.
LEMMA IndexGrows ==
  ASSUME [Next]_vars
  PROVE  \/ toolIndex' = toolIndex
         \/ \E c \in Calls :
              /\ IndexResults(c)
              /\ toolIndex' = toolIndex \cup
                   Entries(ask[c].user, ResultsIn(ask[c].msg), "result")
         \/ \E c \in Calls :
              /\ IndexUses(c)
              /\ toolIndex' = toolIndex \cup
                   Entries(last[c], gen[c].resp.uses, "use")
<1>1. ASSUME NEW c \in Calls, IndexResults(c)
      PROVE  \/ toolIndex' = toolIndex
             \/ toolIndex' = toolIndex \cup
                  Entries(ask[c].user, ResultsIn(ask[c].msg), "result")
  BY <1>1 DEF IndexResults, IndexToolIDs, Entries
<1>2. ASSUME NEW c \in Calls, IndexUses(c)
      PROVE  \/ toolIndex' = toolIndex
             \/ toolIndex' = toolIndex \cup
                  Entries(last[c], gen[c].resp.uses, "use")
  BY <1>2 DEF IndexUses, IndexToolIDs, Entries
<1>3. ASSUME NEW c \in Calls,
             \/ Prompt(c) \/ CreateUser(c) \/ Save(c)
             \/ PromptFrom(c) \/ PromptFromFails(c) \/ CreateFails(c)
             \/ CheckOrphans(c) \/ CheckFails(c) \/ OpenStream(c) \/ OpenFails(c)
             \/ DrainNothing(c) \/ Drain(c) \/ SaveFails(c)
             \/ Continue(c) \/ ContinueFails(c)
      PROVE  toolIndex' = toolIndex
  BY <1>3 DEF Prompt, CreateUser, Save, PromptFrom, PromptFromFails, CreateFails, CheckOrphans,
       CheckFails, OpenStream, OpenFails, DrainNothing, Drain, SaveFails, Continue, ContinueFails,
       storeVars
<1>4. ASSUME Delete \/ UNCHANGED vars PROVE toolIndex' = toolIndex
  BY <1>4 DEF Delete, DeleteNode, vars
<1> QED BY <1>1, <1>2, <1>3, <1>4 DEF Next, Work

\* Between the read of the path and the first stream a call holds the path.
Asking == {"found", "indexing", "checking", "opening"}
Asked(c) == pc[c] \in Asking /\ ask[c] # NoAsk

\* A call that was not made has read nothing, one that looks for orphans has.
AskHeld ==
  \A c \in Calls :
    /\ pc[c] = "idle" => ask[c] = NoAsk
    /\ pc[c] \in {"found", "indexing", "checking"} => ask[c] # NoAsk

\* What a call has read and was asked stays as it is.
LEMMA AskStays ==
  ASSUME IInv, AskHeld, [Next]_vars, NEW c \in Calls, pc'[c] \in Asking, ask'[c] # NoAsk
  PROVE  \/ PromptFrom(c)
         \/ /\ Asked(c) /\ ask'[c].anc = ask[c].anc
            /\ ask'[c].target = ask[c].target /\ ask'[c].msg = ask[c].msg
<1>1. DOMAIN pc = Calls /\ DOMAIN ask = Calls /\ AskOK(ask[c]) /\ TypeOK
  BY DEF IInv, TypeOK
<1>2. CASE Prompt(c)
  BY <1>1, <1>2 DEF Prompt, Goto, AskHeld
<1>3. CASE CreateUser(c)
  <2>1. ask'[c] = [ask[c] EXCEPT !.user = nextId] /\ pc[c] = "found"
    BY <1>1, <1>3 DEF CreateUser, Goto
  <2>2. /\ ask'[c].anc = ask[c].anc /\ ask'[c].target = ask[c].target /\ ask'[c].msg = ask[c].msg
    BY <1>1, <2>1 DEF AskOK, NoAsk
  <2>3. ask[c] # NoAsk
    BY <2>1 DEF AskHeld
  <2> QED BY <2>1, <2>2, <2>3 DEF Asked, Asking
<1>4. CASE IndexResults(c)
  BY <1>1, <1>4 DEF IndexResults, Goto, Asked, Asking
<1>5. CASE CheckOrphans(c)
  <2>1. /\ ask'[c] = [ask[c] EXCEPT !.orphans = GetOrphanedToolUses(PathIds(c))]
        /\ pc[c] = "checking"
    BY <1>1, <1>5 DEF CheckOrphans, Goto
  <2>2. /\ ask'[c].anc = ask[c].anc /\ ask'[c].target = ask[c].target /\ ask'[c].msg = ask[c].msg
        /\ ask'[c].user = ask[c].user
    BY <1>1, <2>1 DEF AskOK, NoAsk
  <2>3. ask[c] # NoAsk
    BY <2>1 DEF AskHeld
  <2> QED BY <2>1, <2>2, <2>3 DEF Asked, Asking
<1>6. CASE \/ PromptFromFails(c) \/ CreateFails(c) \/ CheckFails(c) \/ OpenStream(c) \/ OpenFails(c)
           \/ DrainNothing(c) \/ Drain(c) \/ Save(c) \/ SaveFails(c) \/ IndexUses(c)
           \/ Continue(c) \/ ContinueFails(c)
  <2>1. pc'[c] \in {"failed", "streaming", "closed", "saving", "indexingUse", "continuing"}
    BY <1>1, <1>6 DEF PromptFromFails, CreateFails, CheckFails, OpenStream, OpenFails,
         DrainNothing, Drain, Save, SaveFails, IndexUses, Continue, ContinueFails, Goto
  <2> QED BY <2>1 DEF Asking
<1>7. CASE UNCHANGED Own(c)
  BY <1>7 DEF Own, Asked
<1>8. ASSUME NEW d \in Calls, Step(d), d # c PROVE UNCHANGED Own(c)
  BY <1>1, <1>8, OthersKeep
<1>9. ASSUME Delete \/ UNCHANGED vars PROVE UNCHANGED Own(c)
  BY <1>9 DEF Delete, callVars, vars, Own
<1>10. CASE Step(c)
  BY <1>2, <1>3, <1>4, <1>5, <1>6, <1>10 DEF Step, Work
<1> QED BY <1>7, <1>8, <1>9, <1>10 DEF Next, Step

\* That goes on: only a call's own steps touch what it has read.
LEMMA NextHeld == IInv /\ AskHeld /\ [Next]_vars => AskHeld'
<1> SUFFICES ASSUME IInv, AskHeld, [Next]_vars, NEW c \in Calls
             PROVE  /\ pc'[c] = "idle" => ask'[c] = NoAsk
                    /\ pc'[c] \in {"found", "indexing", "checking"} => ask'[c] # NoAsk
  BY DEF AskHeld
<1>1. /\ DOMAIN pc = Calls /\ DOMAIN ask = Calls /\ AskOK(ask[c]) /\ TypeOK
      /\ nextId \in Nat /\ nextId # 0
      /\ \A n \in DOMAIN nodes : n # 0
  BY DEF IInv, TypeOK, StoreOK, NodeId
<1>2. CASE PromptFrom(c)
  <2>1. PICK p \in DOMAIN nodes : \E m \in Replies(c, p) :
          ask' = [ask EXCEPT ![c] = [NoAsk EXCEPT !.anc = GetAncestors(p), !.target = p, !.msg = m]]
    BY <1>2 DEF PromptFrom
  <2>2. ask'[c].target = p
    BY <1>1, <2>1 DEF NoAsk
  <2>3. pc'[c] = "found"
    BY <1>1, <1>2 DEF PromptFrom, Goto
  <2> QED BY <1>1, <2>2, <2>3 DEF NoAsk, NoNode
<1>3. CASE CreateUser(c)
  <2>1. ask'[c] = [ask[c] EXCEPT !.user = nextId] /\ pc'[c] \in {"indexing", "checking"}
    BY <1>1, <1>3 DEF CreateUser, Goto
  <2>2. ask'[c].user = nextId
    BY <1>1, <2>1 DEF AskOK, NoAsk
  <2> QED BY <1>1, <2>1, <2>2 DEF NoAsk, NoNode
<1>4. CASE IndexResults(c)
  BY <1>1, <1>4 DEF IndexResults, Goto, AskHeld
<1>5. CASE \/ Prompt(c) \/ PromptFromFails(c) \/ CreateFails(c) \/ CheckFails(c) \/ OpenStream(c)
           \/ OpenFails(c) \/ CheckOrphans(c)
           \/ DrainNothing(c) \/ Drain(c) \/ Save(c) \/ SaveFails(c) \/ IndexUses(c)
           \/ Continue(c) \/ ContinueFails(c)
  <2>1. pc'[c] \in {"failed", "streaming", "closed", "saving", "indexingUse", "continuing", "opening"}
    BY <1>1, <1>5 DEF Prompt, PromptFromFails, CreateFails, CheckFails, OpenStream, OpenFails,
         CheckOrphans, DrainNothing, Drain, Save, SaveFails, IndexUses, Continue, ContinueFails, Goto
  <2> QED BY <2>1
<1>6. CASE UNCHANGED Own(c)
  BY <1>6 DEF Own, AskHeld
<1>7. ASSUME NEW d \in Calls, Step(d), d # c PROVE UNCHANGED Own(c)
  BY <1>1, <1>7, OthersKeep
<1>8. ASSUME Delete \/ UNCHANGED vars PROVE UNCHANGED Own(c)
  BY <1>8 DEF Delete, callVars, vars, Own
<1>9. CASE Step(c)
  BY <1>2, <1>3, <1>4, <1>5, <1>9 DEF Step, Work
<1> QED BY <1>6, <1>7, <1>8, <1>9 DEF Next, Step

\* What PromptFrom reads.
LEMMA PathTaken ==
  ASSUME IInv, NEW c \in Calls, PromptFrom(c)
  PROVE  \E p \in DOMAIN nodes \cap Targets : \E m \in Replies(c, p) :
           /\ ask'[c].anc = GetAncestors(p) /\ ask'[c].target = p /\ ask'[c].msg = m
           /\ ask'[c].orphans = {} /\ pc[c] = "idle" /\ pc'[c] = "found"
           /\ nodes' = nodes /\ nextId' = nextId /\ toolIndex' = toolIndex
           /\ gen' = gen /\ last' = last /\ events' = events
<1>1. DOMAIN pc = Calls /\ DOMAIN ask = Calls
  BY DEF IInv, TypeOK
<1>2. PICK p \in Targets \cap DOMAIN nodes : \E m \in Replies(c, p) :
        ask' = [ask EXCEPT ![c] = [NoAsk EXCEPT !.anc = GetAncestors(p), !.target = p, !.msg = m]]
  BY DEF PromptFrom
<1>3. PICK m \in Replies(c, p) :
        ask' = [ask EXCEPT ![c] = [NoAsk EXCEPT !.anc = GetAncestors(p), !.target = p, !.msg = m]]
  BY <1>2
<1>4. /\ ask'[c].anc = GetAncestors(p) /\ ask'[c].target = p /\ ask'[c].msg = m
      /\ ask'[c].orphans = {}
  BY <1>1, <1>3 DEF NoAsk
<1>5. /\ pc[c] = "idle" /\ pc'[c] = "found" /\ nodes' = nodes /\ nextId' = nextId
      /\ toolIndex' = toolIndex /\ gen' = gen /\ last' = last /\ events' = events
  BY <1>1 DEF PromptFrom, Goto, storeVars
<1> QED BY <1>2, <1>4, <1>5

\* What the orphans of a call are: those of before, none, or those on its path.
LEMMA OrphansFound ==
  ASSUME IInv, [Next]_vars, NEW c \in Calls
  PROVE  \/ ask'[c].orphans = ask[c].orphans
         \/ ask'[c].orphans = {}
         \/ CheckOrphans(c) /\ ask'[c].orphans = GetOrphanedToolUses(PathIds(c))
<1>1. DOMAIN pc = Calls /\ DOMAIN ask = Calls /\ AskOK(ask[c]) /\ TypeOK
  BY DEF IInv, TypeOK
<1>2. CASE PromptFrom(c)
  BY <1>2, PathTaken
<1>3. CASE CreateUser(c)
  <2>1. ask'[c] = [ask[c] EXCEPT !.user = nextId]
    BY <1>1, <1>3 DEF CreateUser
  <2> QED BY <1>1, <2>1 DEF AskOK, NoAsk
<1>4. CASE CheckOrphans(c)
  <2>1. ask'[c] = [ask[c] EXCEPT !.orphans = GetOrphanedToolUses(PathIds(c))]
    BY <1>1, <1>4 DEF CheckOrphans
  <2>2. ask'[c].orphans = GetOrphanedToolUses(PathIds(c))
    BY <1>1, <2>1 DEF AskOK, NoAsk
  <2> QED BY <1>4, <2>2
<1>5. CASE CreateFails(c) \/ CheckFails(c) \/ OpenStream(c) \/ OpenFails(c)
  <2>1. ask'[c] = NoAsk
    BY <1>1, <1>5 DEF CreateFails, CheckFails, OpenStream, OpenFails
  <2> QED BY <2>1 DEF NoAsk
<1>6. CASE \/ Prompt(c) \/ PromptFromFails(c) \/ IndexResults(c) \/ DrainNothing(c) \/ Drain(c)
           \/ Save(c) \/ SaveFails(c) \/ IndexUses(c) \/ Continue(c) \/ ContinueFails(c)
  BY <1>6 DEF Prompt, PromptFromFails, IndexResults, DrainNothing, Drain, Save, SaveFails,
       IndexUses, Continue, ContinueFails
<1>7. CASE UNCHANGED Own(c)
  BY <1>7 DEF Own
<1>8. ASSUME NEW d \in Calls, Step(d), d # c PROVE UNCHANGED Own(c)
  BY <1>1, <1>8, OthersKeep
<1>9. ASSUME Delete \/ UNCHANGED vars PROVE UNCHANGED Own(c)
  BY <1>9 DEF Delete, callVars, vars, Own
<1>10. CASE Step(c)
  BY <1>2, <1>3, <1>4, <1>5, <1>6, <1>10 DEF Step, Work
<1> QED BY <1>7, <1>8, <1>9, <1>10 DEF Next, Step

\* A content answers finitely many tools.
LEMMA ResultsFinite ==
  ASSUME NEW content \in Seq(BlockType)
  PROVE  IsFiniteSet(ResultsIn(content))
<1> DEFINE f == [i \in 1 .. Len(content) |-> content[i].from]
<1>1. \A i \in 1 .. Len(content) : content[i] \in BlockType
  OBVIOUS
<1>2. ToSet(content) = {content[i] : i \in 1 .. Len(content)}
  BY DEF ToSet
<1>3. IsFiniteSet({f[i] : i \in 1 .. Len(content)})
  <2>1. IsFiniteSet(1 .. Len(content))
    BY FS_Interval
  <2>2. f \in [1 .. Len(content) -> Calls \cup ToolIds]
    BY <1>1 DEF BlockType
  <2> HIDE DEF f
  <2> QED BY <2>1, <2>2, ImageFinite
<1>4. ResultsIn(content) \subseteq {f[i] : i \in 1 .. Len(content)}
  BY <1>2 DEF ResultsIn, Blocks
<1> QED BY <1>3, <1>4, FS_Subset

\* The index is finite, and so is what a call found in it.
IndexFinite == IsFiniteSet(toolIndex) /\ \A c \in Calls : IsFiniteSet(ask[c].orphans)

\* A step adds finitely many entries.
LEMMA NextFinite == IInv /\ IndexFinite /\ [Next]_vars => IndexFinite'
<1> SUFFICES ASSUME IInv, IndexFinite, [Next]_vars PROVE IndexFinite'
  OBVIOUS
<1>1. \A c \in Calls : AskOK(ask[c]) /\ GenOK(gen[c])
  BY DEF IInv, TypeOK
<1>2. ASSUME NEW tools, IsFiniteSet(tools), NEW n, NEW role
      PROVE  IsFiniteSet(toolIndex \cup Entries(n, tools, role))
  <2> DEFINE f == [t \in tools |-> [node |-> n, tool |-> t, role |-> role]]
  <2>1. f \in [tools -> Entries(n, tools, role)]
    BY DEF Entries
  <2>2. Entries(n, tools, role) = {f[t] : t \in tools}
    BY DEF Entries
  <2> HIDE DEF f
  <2>3. IsFiniteSet({f[t] : t \in tools})
    BY <1>2, <2>1, ImageFinite
  <2> QED BY <2>2, <2>3, FS_Union DEF IndexFinite
<1>3. IsFiniteSet(toolIndex')
  <2>1. ASSUME NEW c \in Calls
        PROVE  IsFiniteSet(toolIndex \cup Entries(ask[c].user, ResultsIn(ask[c].msg), "result"))
    <3>1. IsFiniteSet(ResultsIn(ask[c].msg))
      BY <1>1, ResultsFinite DEF AskOK
    <3> QED BY <1>2, <3>1
  <2>2. ASSUME NEW c \in Calls
        PROVE  IsFiniteSet(toolIndex \cup Entries(last[c], gen[c].resp.uses, "use"))
    <3>1. IsFiniteSet(gen[c].resp.uses)
      BY <1>1, OutcomeFacts DEF GenOK
    <3> QED BY <1>2, <3>1
  <2> QED BY <2>1, <2>2, IndexGrows DEF IndexFinite
<1>4. ASSUME NEW c \in Calls PROVE IsFiniteSet(ask'[c].orphans)
  <2>1. GetOrphanedToolUses(PathIds(c)) \subseteq toolIndex
    BY DEF GetOrphanedToolUses
  <2>2. IsFiniteSet(GetOrphanedToolUses(PathIds(c)))
    BY <2>1, FS_Subset DEF IndexFinite
  <2> QED BY <2>2, OrphansFound, FS_EmptySet DEF IndexFinite
<1> QED BY <1>3, <1>4 DEF IndexFinite

\* The rows that are roots, and the rows users wrote.
RootsAsk ==
  \A n \in DOMAIN nodes :
    /\ nodes[n].type = "user" => nodes[n].group = NoGroup
    /\ nodes[n].parent = NoNode => nodes[n].type = "user"

\* So it is on the path a call read.
PathAsks ==
  \A c \in Calls : Asked(c) =>
    LET a == ask[c].anc IN
    /\ ask[c].target \in DOMAIN a
    /\ \A m \in DOMAIN a :
         /\ a[m].seq = 0 <=> a[m].parent = NoNode
         /\ a[m].parent = NoNode => a[m].type = "user" /\ a[m].group = NoGroup

TurnInv == AskHeld /\ IndexFinite /\ RootsAsk /\ PathAsks

\* Answers are never roots.
LEMMA NextAsks == IInv /\ RootInv /\ TurnInv /\ [Next]_vars => RootsAsk' /\ PathAsks'
<1> SUFFICES ASSUME IInv, RootInv, TurnInv, [Next]_vars PROVE RootsAsk' /\ PathAsks'
  OBVIOUS
<1>1. /\ AskHeld /\ RootsAsk /\ PathAsks /\ RootsFirst
      /\ nextId \in Nat \ {0} /\ \A n \in DOMAIN nodes : n # 0
  BY DEF TurnInv, RootInv, IInv, TypeOK, StoreOK, NodeId
<1>2. \A n \in DOMAIN nodes' : n # nextId => n \in DOMAIN nodes /\ nodes'[n] = nodes[n]
  BY RowsStay
<1>3. ASSUME nextId \in DOMAIN nodes'
      PROVE  /\ nodes'[nextId].type = "user" => nodes'[nextId].group = NoGroup
             /\ nodes'[nextId].parent = NoNode => nodes'[nextId].type = "user"
  <2>1. PICK c \in Calls :
           \/ Prompt(c) /\ nodes'[nextId] = RootRow(c)
           \/ CreateUser(c) /\ nodes'[nextId] = UserRow(c)
           \/ Save(c) /\ nodes'[nextId] = AssistantRow(c)
    BY <1>3, NewRow
  <2>2. CASE nodes'[nextId] = RootRow(c) \/ nodes'[nextId] = UserRow(c)
    BY <2>2 DEF RootRow, UserRow, Row
  <2>3. CASE Save(c) /\ nodes'[nextId] = AssistantRow(c)
    <3>1. pc[c] = "saving" /\ pc[c] \in Streaming
      BY <2>3 DEF Save, Goto, Streaming
    <3>2. gen[c].parent # 0
      BY <1>1, <3>1 DEF IInv, TreeInv, ParentKnown
    <3>3. nodes'[nextId].parent = gen[c].parent /\ nodes'[nextId].type = "assistant"
      BY <2>3 DEF AssistantRow, Row
    <3> QED BY <3>2, <3>3 DEF NoNode
  <2> QED BY <2>1, <2>2, <2>3
<1>4. RootsAsk'
  BY <1>1, <1>2, <1>3 DEF RootsAsk
<1>5. ASSUME NEW c \in Calls, pc'[c] \in Asking, ask'[c] # NoAsk, NEW a, a = ask'[c].anc
      PROVE  /\ ask'[c].target \in DOMAIN a
             /\ \A m \in DOMAIN a :
                  /\ a[m].seq = 0 <=> a[m].parent = NoNode
                  /\ a[m].parent = NoNode => a[m].type = "user" /\ a[m].group = NoGroup
  <2>1. CASE PromptFrom(c)
    <3>1. PICK p \in DOMAIN nodes : ask'[c].anc = GetAncestors(p) /\ ask'[c].target = p
      BY <2>1, PathTaken
    <3>2. p \in DOMAIN GetAncestors(p) /\ DOMAIN GetAncestors(p) \subseteq DOMAIN nodes
          /\ \A m \in DOMAIN GetAncestors(p) : GetAncestors(p)[m] = nodes[m]
      BY PathRead DEF IInv, TypeOK, TreeInv
    <3> QED BY <1>1, <1>5, <3>1, <3>2 DEF RootsAsk, RootsFirst
  <2>2. CASE Asked(c) /\ ask'[c].anc = ask[c].anc /\ ask'[c].target = ask[c].target
    BY <1>1, <1>5, <2>2 DEF PathAsks
  <2> QED BY <1>1, <1>5, <2>1, <2>2, AskStays
<1>6. PathAsks'
  BY <1>5 DEF PathAsks, Asked
<1> QED BY <1>4, <1>6

\* What a call holds makes a request whose roles alternate.
LEMMA RequestInTurn ==
  ASSUME IInv, TurnInv, NEW c \in Calls, Asked(c), NEW r, r = Request(c)
  PROVE  /\ r \in Seq(Message) /\ Len(r) >= 1 /\ Alternates(r)
         /\ r[Len(r)].role = "user"
         /\ ask[c].anc[FirstOf(ask[c].anc)].parent = NoNode => r[1].role = "user"
<1> DEFINE a == ask[c].anc
           N == Cardinality(DOMAIN a)
           path == Path(a)
           orphans == ask[c].orphans
           ms == BuildMessages(path, orphans)
<1>1. /\ AskOK(ask[c]) /\ nextId \in Nat
      /\ IsFiniteSet(orphans) /\ orphans \in SUBSET IndexType
  BY DEF IInv, TypeOK, StoreOK, NodeId, AskOK, TurnInv, IndexFinite
<1>2. /\ \A m \in DOMAIN a : a[m] \in RowType /\ a[m].seq \in Nat /\ m \in Nat
      /\ DOMAIN a \subseteq 1 .. nextId - 1 /\ ask[c].msg \in Seq(BlockType)
  BY <1>1 DEF AskOK, RowType
<1>3. FiniteRows(a)
  <2>1. IsFiniteSet(1 .. nextId - 1)
    BY <1>1, FS_Interval
  <2> QED BY <1>2, <2>1, FS_Subset DEF FiniteRows
<1>4. /\ N \in Nat /\ At(a) \in [1 .. N -> DOMAIN a]
      /\ path = [i \in 1 .. N |-> a[At(a)[i]]]
      /\ \A m \in DOMAIN a : \E i \in 1 .. N : At(a)[i] = m
      /\ \A i, j \in 1 .. N : i < j <=> Precedes(a, At(a)[i], At(a)[j])
  BY <1>3, PathListed
<1>5. path \in Seq(RowType) /\ Len(path) = N
  BY <1>2, <1>4
<1>6. BuiltInTurn(path, ms, N)
  BY <1>1, <1>5, MessagesInTurn
<1>7. r = AddContent(ms, "user", ask[c].msg)
  BY DEF Request, RequestMessages
<1>8. /\ ask[c].target \in DOMAIN a
      /\ \A m \in DOMAIN a :
           /\ a[m].seq = 0 <=> a[m].parent = NoNode
           /\ a[m].parent = NoNode => a[m].type = "user" /\ a[m].group = NoGroup
  BY DEF TurnInv, PathAsks
<1> HIDE DEF a, N, path, orphans, ms
<1>9. /\ r \in Seq(Message) /\ Len(r) >= 1 /\ Alternates(r) /\ r[Len(r)].role = "user"
      /\ Len(ms) >= 1 => r[1].role = ms[1].role
      /\ ~ (Len(ms) >= 1) => r[1].role = "user"
  <2>1. ms \in Seq(Message) /\ Alternates(ms)
    BY <1>6 DEF BuiltInTurn
  <2>2. PICK m \in Seq(BlockType) : m = ask[c].msg
    BY <1>2
  <2>3. r = AddContent(ms, "user", m)
    BY <1>7, <2>2
  <2> DEFINE q == AddContent(ms, "user", m)
  <2>4. /\ q \in Seq(Message) /\ Len(q) >= 1 /\ Alternates(q) /\ q[Len(q)].role = "user"
        /\ Len(ms) >= 1 => q[1].role = ms[1].role
        /\ ~ (Len(ms) >= 1) => q[1].role = "user"
    BY <2>1, AddedAlternates
  <2> QED BY <2>3, <2>4
<1>10. ASSUME a[FirstOf(a)].parent = NoNode PROVE r[1].role = "user"
  <2>1. FirstOf(a) \in DOMAIN a
    BY <1>2, <1>8, FirstOfPath
  <2>2. PICK k \in 1 .. N : At(a)[k] = FirstOf(a)
    BY <1>4, <2>1
  <2>3. 1 \in 1 .. N
    BY <1>4, <2>2
  <2>4. At(a)[1] \in DOMAIN a /\ path[1] = a[At(a)[1]]
    BY <1>4, <2>3
  <2>5. a[At(a)[1]].seq = 0
    <3>1. 1 = k \/ 1 < k
      BY <2>2
    <3>2. 1 = k \/ Precedes(a, At(a)[1], FirstOf(a))
      BY <1>4, <2>2, <2>3, <3>1
    <3>3. a[FirstOf(a)].seq = 0
      BY <1>8, <1>10, <2>1
    <3> QED BY <1>2, <2>1, <2>2, <2>4, <3>2, <3>3 DEF Precedes
  <2>6. path[1].type = "user" /\ path[1].group = NoGroup
    BY <1>8, <2>4, <2>5
  <2>7. ~ Superseded(path, 1) /\ Role(path[1]) = "user"
    BY <2>6 DEF Superseded, Role
  <2>8. N > 0
    BY <1>4, <2>3
  <2>9. Len(ms) >= 1 /\ ms[1].role = "user"
    BY <1>6, <2>7, <2>8 DEF BuiltInTurn
  <2> QED BY <1>9, <2>9
<1> QED BY <1>9, <1>10 DEF a

\* At the start there is nothing to be rooted.
LEMMA RootedAtFirst == Init => RootInv
BY DEF Init, StoreInit, RootInv, RootKnown, RootsFirst, PathRooted, GenRooted, Streaming

\* At the start nothing was asked.
LEMMA InitTurn == Init => TurnInv
<1> SUFFICES ASSUME Init PROVE TurnInv
  OBVIOUS
<1>1. \A c \in Calls : pc[c] = "idle" /\ ask[c] = NoAsk
  BY DEF Init
<1>2. toolIndex = {} /\ DOMAIN nodes = {}
  BY DEF Init, StoreInit
<1>3. NoAsk.orphans = {}
  BY DEF NoAsk
<1> QED BY <1>1, <1>2, <1>3, FS_EmptySet
    DEF TurnInv, AskHeld, IndexFinite, RootsAsk, PathAsks, Asked

\* The roles of a request alternate, the user speaks last, and first when the
\* path reaches its root (buildMessages merges, the loop over ancestors skips),
\* whichever rows were deleted, superseded or repaired.
THEOREM RolesTakeTurns == Spec => []RolesAlternate
<1>1. Init => RootInv /\ TurnInv
  BY InitTurn, RootedAtFirst
<1>2. IInv /\ RootInv /\ TurnInv /\ [Next]_vars => RootInv' /\ TurnInv'
  BY NextRooted, NextHeld, NextFinite, NextAsks DEF TurnInv
<1>3. IInv /\ TurnInv => RolesAlternate
  <2> SUFFICES ASSUME IInv, TurnInv, NEW c \in Calls, Sent(c), NEW r, r = Request(c)
               PROVE  /\ \A i \in 1 .. Len(r) - 1 : r[i].role # r[i + 1].role
                      /\ r[Len(r)].role = "user"
                      /\ ask[c].anc[FirstOf(ask[c].anc)].parent = NoNode => r[1].role = "user"
    BY DEF RolesAlternate
  <2>1. Asked(c)
    BY DEF Sent, Asked, Asking
  <2> QED BY <2>1, RequestInTurn DEF Alternates
<1> QED BY <1>1, <1>2, <1>3, Inductive, PTL DEF Spec

-----------------------------------------------------------------------------
(***************************************************************************)
(* A path is a chain: each row is the parent of the next one.              *)
(***************************************************************************)

Chain(a, t) ==
  /\ t \in DOMAIN a
  /\ \A m \in DOMAIN a : a[m].seq <= a[t].seq
  /\ \A m \in DOMAIN a \ {t} : \E k \in DOMAIN a : a[k].parent = m /\ a[k].seq = a[m].seq + 1
  /\ \A m, n \in DOMAIN a : a[m].seq = a[n].seq => m = n
  /\ \A m, n \in DOMAIN a : a[m].parent = a[n].parent => m = n
  /\ \A m, n \in DOMAIN a : a[m].seq < a[n].seq => m < n

\* Every row of a path but its target has a child on it: without such a child
\* the rest of the path would be closed under taking parents.
LEMMA ChildOnPath ==
  ASSUME IInv, NEW t \in DOMAIN nodes, NEW m \in AncestorIds(t), m # t
  PROVE  \E k \in AncestorIds(t) : nodes[k].parent = m /\ nodes[k].seq = nodes[m].seq + 1
<1>1. /\ t \in AncestorIds(t) /\ AncestorIds(t) \in SUBSET DOMAIN nodes
      /\ ParentClosed(AncestorIds(t))
  BY PathClosed
<1>2. SUFFICES ASSUME \A k \in AncestorIds(t) : nodes[k].parent # m PROVE FALSE
  BY <1>1 DEF IInv, TreeInv, ChildFollowsParent
<1> DEFINE S == AncestorIds(t) \ {m}
<1>3. S \in SUBSET DOMAIN nodes /\ t \in S /\ ParentClosed(S)
  BY <1>1, <1>2 DEF ParentClosed
<1>4. AncestorIds(t) \subseteq S
  BY <1>3 DEF AncestorIds
<1> QED BY <1>4

\* No two rows of a path have one number: the highest such number would have
\* one row after each of them.
LEMMA NumbersDiffer ==
  ASSUME IInv, NEW t \in DOMAIN nodes, NEW m \in AncestorIds(t), NEW n \in AncestorIds(t),
         nodes[m].seq = nodes[n].seq
  PROVE  m = n
<1> DEFINE A == AncestorIds(t)
           last1(k) == nodes[t].seq - nodes[k].seq
           D == {k \in A : \E l \in A : l # k /\ nodes[l].seq = nodes[k].seq}
           S == {last1(k) : k \in D}
<1>1. /\ t \in A /\ A \in SUBSET DOMAIN nodes
      /\ \A k \in A : nodes[k].seq \in Nat /\ nodes[k].seq <= nodes[t].seq
      /\ \A k \in A : k # t => nodes[k].seq < nodes[t].seq
  <2>1. t \in A /\ A \in SUBSET DOMAIN nodes
    BY PathClosed
  <2>2. \A k \in A : nodes[k].seq \in Nat
    BY <2>1 DEF IInv, TypeOK, StoreOK, RowType
  <2>3. \A k \in A : nodes[k].seq <= nodes[t].seq
    BY PathEndsInTarget DEF IInv, TypeOK, TreeInv
  <2>4. \A k \in A : k # t => \E l \in A : nodes[l].seq = nodes[k].seq + 1
    BY ChildOnPath
  <2> HIDE DEF A
  <2> QED BY <2>1, <2>2, <2>3, <2>4
<1>2. SUFFICES ASSUME D # {} PROVE FALSE
  OBVIOUS
<1>3. S \subseteq Nat /\ S # {}
  <2>1. \A k \in A : last1(k) \in Nat
    BY <1>1
  <2> HIDE DEF last1, A
  <2> QED BY <1>2, <2>1
<1>4. PICK x \in S : \A y \in S : x <= y
  <2> HIDE DEF S
  <2> QED BY <1>3, LeastNatural
<1>5. PICK k \in D : x = last1(k)
  OBVIOUS
<1>6. PICK l \in A : l # k /\ nodes[l].seq = nodes[k].seq
  BY <1>5
<1>7. k \in A /\ k # t /\ l # t
  BY <1>1, <1>5, <1>6
<1>8. PICK k2 \in A : nodes[k2].parent = k /\ nodes[k2].seq = nodes[k].seq + 1
  BY <1>7, ChildOnPath
<1>9. PICK l2 \in A : nodes[l2].parent = l /\ nodes[l2].seq = nodes[l].seq + 1
  BY <1>6, <1>7, ChildOnPath
<1>10. k2 \in D /\ last1(k2) \in S
  BY <1>6, <1>8, <1>9
<1>11. last1(k2) < last1(k)
  BY <1>1, <1>7, <1>8
<1>12. x <= last1(k2)
  BY <1>4, <1>10
<1>13. last1(k) \in Int /\ last1(k2) \in Int
  BY <1>1, <1>7
<1> HIDE DEF last1
<1> QED BY <1>5, <1>11, <1>12, <1>13

\* Only the first row of a path has its parent outside.
LEMMA OneTop ==
  ASSUME IInv, NEW t \in DOMAIN nodes, NEW n \in AncestorIds(t),
         nodes[n].parent \notin DOMAIN nodes, NEW m \in AncestorIds(t)
  PROVE  nodes[n].seq <= nodes[m].seq
<1> DEFINE A == AncestorIds(t)
           S == {k \in A : nodes[n].seq <= nodes[k].seq}
<1>1. t \in A /\ A \in SUBSET DOMAIN nodes /\ ParentClosed(A)
  BY PathClosed
<1>2. \A k \in A : nodes[k].seq \in Nat
  BY <1>1 DEF IInv, TypeOK, StoreOK, RowType
<1>3. nodes[n].seq <= nodes[t].seq
  BY PathEndsInTarget DEF IInv, TypeOK, TreeInv
<1>4. S \in SUBSET DOMAIN nodes /\ t \in S
  BY <1>1, <1>3
<1>5. ASSUME NEW k \in S, nodes[k].parent \in DOMAIN nodes PROVE nodes[k].parent \in S
  <2>1. nodes[k].parent \in A /\ k \in A
    BY <1>1, <1>5 DEF ParentClosed
  <2>2. nodes[k].seq = nodes[nodes[k].parent].seq + 1
    BY <1>1, <1>5 DEF IInv, TreeInv, ChildFollowsParent
  <2>3. nodes[k].seq # nodes[n].seq
    BY <1>5, <2>1, NumbersDiffer
  <2>4. nodes[n].seq <= nodes[k].seq
    BY <1>5
  <2>5. nodes[nodes[k].parent].seq \in Nat /\ nodes[k].seq \in Nat /\ nodes[n].seq \in Nat
    BY <1>2, <2>1
  <2> QED BY <2>1, <2>2, <2>3, <2>4, <2>5
<1>6. ParentClosed(S)
  BY <1>5 DEF ParentClosed
<1>7. A \subseteq S
  BY <1>4, <1>6 DEF AncestorIds
<1> QED BY <1>7

\* Rows of a path that come later are younger.
LEMMA LaterIsYounger ==
  ASSUME IInv, NEW t \in DOMAIN nodes, NEW m \in AncestorIds(t), NEW n \in AncestorIds(t),
         nodes[m].seq < nodes[n].seq
  PROVE  m < n
<1> DEFINE A == AncestorIds(t)
           B == {k \in A : nodes[m].seq < nodes[k].seq /\ k <= m}
<1>1. t \in A /\ A \in SUBSET DOMAIN nodes /\ ParentClosed(A)
  BY PathClosed
<1>2. \A k \in A : nodes[k].seq \in Nat /\ k \in Nat /\ nodes[k].parent < k /\ nodes[k].parent \in Nat
  <2>1. \A k \in A : nodes[k].seq \in Nat /\ nodes[k].parent \in Nat
    BY <1>1 DEF IInv, TypeOK, StoreOK, RowType
  <2>2. \A k \in A : nodes[k].parent < k
    BY <1>1 DEF IInv, TreeInv, ParentsOlder
  <2>3. nextId \in Nat /\ DOMAIN nodes \subseteq 1 .. nextId - 1
    BY DEF IInv, TypeOK, StoreOK, NodeId
  <2>4. A \subseteq Nat
    BY <1>1, <2>3
  <2> HIDE DEF A
  <2> QED BY <2>1, <2>2, <2>4
<1>3. SUFFICES ASSUME B # {} PROVE FALSE
  BY <1>2
<1>4. B \subseteq Nat /\ \A k \in B : k \in A /\ nodes[m].seq < nodes[k].seq /\ k <= m
  BY <1>2
<1>5. PICK k \in B : \A y \in B : k <= y
  <2> HIDE DEF B
  <2> QED BY <1>3, <1>4, LeastNatural
<1>6. k \in A /\ nodes[m].seq < nodes[k].seq /\ k <= m
  BY <1>4
<1>7. nodes[k].parent \in DOMAIN nodes
  <2>1. nodes[k].parent \notin DOMAIN nodes => nodes[k].seq <= nodes[m].seq
    BY <1>6, OneTop
  <2> QED BY <1>2, <1>6, <2>1
<1>8. nodes[k].parent \in A
  BY <1>1, <1>6, <1>7 DEF ParentClosed
<1>9. nodes[k].seq = nodes[nodes[k].parent].seq + 1
  BY <1>1, <1>6, <1>7 DEF IInv, TreeInv, ChildFollowsParent
<1>10. nodes[k].parent # m
  BY <1>2, <1>6
<1>11. nodes[nodes[k].parent].seq # nodes[m].seq
  BY <1>8, <1>10, NumbersDiffer
<1>12. nodes[m].seq < nodes[nodes[k].parent].seq
  <2>1. nodes[nodes[k].parent].seq \in Nat /\ nodes[m].seq \in Nat /\ nodes[k].seq \in Nat
    BY <1>2, <1>6, <1>8
  <2> QED BY <1>6, <1>9, <1>11, <2>1
<1>13. nodes[k].parent < k /\ nodes[k].parent \in Nat /\ k \in Nat /\ m \in Nat
  BY <1>2, <1>6
<1>14. nodes[k].parent <= m
  BY <1>6, <1>13
<1>15. nodes[k].parent \in B
  BY <1>8, <1>12, <1>14
<1> HIDE DEF B
<1> QED BY <1>5, <1>13, <1>15

\* The path to a stored row is a chain of stored rows.
LEMMA PathIsChain ==
  ASSUME IInv, NEW t \in DOMAIN nodes
  PROVE  Chain(GetAncestors(t), t)
<1> DEFINE A == AncestorIds(t)
<1>1. t \in A /\ A \in SUBSET DOMAIN nodes /\ ParentClosed(A)
  BY PathClosed
<1>2. \A m \in A : nodes[m].seq <= nodes[t].seq /\ nodes[m].seq \in Nat
  BY <1>1, PathEndsInTarget DEF IInv, TypeOK, StoreOK, RowType, TreeInv
<1>3. \A m \in A \ {t} : \E k \in A : nodes[k].parent = m /\ nodes[k].seq = nodes[m].seq + 1
  BY ChildOnPath
<1>4. \A m, n \in A : nodes[m].seq = nodes[n].seq => m = n
  BY NumbersDiffer
<1>5. ASSUME NEW m \in A, NEW n \in A, nodes[m].parent = nodes[n].parent PROVE m = n
  <2>1. CASE nodes[m].parent \in DOMAIN nodes
    <3>1. nodes[m].seq = nodes[n].seq
      BY <1>1, <1>5, <2>1 DEF IInv, TreeInv, ChildFollowsParent
    <3> QED BY <1>4, <3>1
  <2>2. CASE nodes[m].parent \notin DOMAIN nodes
    <3>1. nodes[m].seq <= nodes[n].seq /\ nodes[n].seq <= nodes[m].seq
      BY <1>5, <2>2, OneTop
    <3>2. nodes[m].seq = nodes[n].seq
      BY <1>2, <3>1
    <3> QED BY <1>4, <3>2
  <2> QED BY <2>1, <2>2
<1>6. \A m, n \in A : nodes[m].seq < nodes[n].seq => m < n
  BY LaterIsYounger
<1>7. DOMAIN GetAncestors(t) = A /\ \A m \in A : GetAncestors(t)[m] = nodes[m]
  BY DEF GetAncestors
<1> HIDE DEF A
<1> QED BY <1>1, <1>2, <1>3, <1>4, <1>5, <1>6, <1>7 DEF Chain

-----------------------------------------------------------------------------
(***************************************************************************)
(* The steps of a call.                                                    *)
(***************************************************************************)

\* From where to where a call goes, and by which of the steps that matter
\* below.
PhaseMoves ==
  {<<"idle", "opening">>, <<"idle", "found">>, <<"idle", "failed">>,
   <<"found", "indexing">>, <<"found", "checking">>, <<"found", "failed">>,
   <<"indexing", "checking">>, <<"checking", "opening">>, <<"checking", "failed">>,
   <<"opening", "streaming">>, <<"opening", "failed">>,
   <<"streaming", "saving">>, <<"streaming", "closed">>,
   <<"saving", "indexingUse">>, <<"saving", "continuing">>, <<"saving", "closed">>,
   <<"indexingUse", "closed">>, <<"continuing", "streaming">>, <<"continuing", "closed">>}

\* A call stays where it is or goes on, by the steps that lead there.
LEMMA PhasesMove ==
  ASSUME TypeOK, [Next]_vars, NEW c \in Calls
  PROVE  /\ pc'[c] = pc[c] \/ <<pc[c], pc'[c]>> \in PhaseMoves
         /\ pc[c] = "idle" /\ pc'[c] = "found" => PromptFrom(c)
         /\ pc[c] = "streaming" /\ pc'[c] = "saving" => Drain(c)
<1>1. DOMAIN pc = Calls
  BY DEF TypeOK
<1>2. CASE UNCHANGED Own(c)
  BY <1>2 DEF Own
<1>3. CASE \/ Prompt(c) \/ PromptFrom(c) \/ CreateUser(c) \/ IndexResults(c) \/ CheckOrphans(c)
           \/ OpenStream(c) \/ OpenFails(c) \/ PromptFromFails(c) \/ CreateFails(c)
           \/ CheckFails(c)
  BY <1>1, <1>3 DEF Prompt, PromptFrom, CreateUser, IndexResults, CheckOrphans, OpenStream,
       OpenFails, PromptFromFails, CreateFails, CheckFails, Goto, PhaseMoves
<1>4. CASE \/ DrainNothing(c) \/ Drain(c) \/ SaveFails(c) \/ IndexUses(c) \/ Continue(c)
           \/ ContinueFails(c)
  BY <1>1, <1>4 DEF DrainNothing, Drain, SaveFails, IndexUses, Continue, ContinueFails, Goto,
       PhaseMoves
<1>5. CASE Save(c)
  BY <1>1, <1>5 DEF Save, Goto, PhaseMoves
<1> QED BY <1>2, <1>3, <1>4, <1>5, MovesOrStays DEF Step, Work

\* The message a call was given stays while it has one.
LEMMA MessageStays ==
  ASSUME IInv, [Next]_vars, NEW c \in Calls
  PROVE  \/ ask'[c].msg = ask[c].msg
         \/ ask'[c].msg = <<>>
         \/ PromptFrom(c)
<1>1. DOMAIN pc = Calls /\ DOMAIN ask = Calls /\ AskOK(ask[c]) /\ TypeOK
  BY DEF IInv, TypeOK
<1>2. CASE CreateUser(c)
  <2>1. ask'[c] = [ask[c] EXCEPT !.user = nextId]
    BY <1>1, <1>2 DEF CreateUser
  <2> QED BY <1>1, <2>1 DEF AskOK, NoAsk
<1>3. CASE CheckOrphans(c)
  <2>1. ask'[c] = [ask[c] EXCEPT !.orphans = GetOrphanedToolUses(PathIds(c))]
    BY <1>1, <1>3 DEF CheckOrphans
  <2> QED BY <1>1, <2>1 DEF AskOK, NoAsk
<1>4. CASE CreateFails(c) \/ CheckFails(c) \/ OpenStream(c) \/ OpenFails(c)
  <2>1. ask'[c] = NoAsk
    BY <1>1, <1>4 DEF CreateFails, CheckFails, OpenStream, OpenFails
  <2> QED BY <2>1 DEF NoAsk
<1>5. CASE \/ Prompt(c) \/ PromptFromFails(c) \/ IndexResults(c) \/ DrainNothing(c) \/ Drain(c)
           \/ Save(c) \/ SaveFails(c) \/ IndexUses(c) \/ Continue(c) \/ ContinueFails(c)
  BY <1>5 DEF Prompt, PromptFromFails, IndexResults, DrainNothing, Drain, Save, SaveFails,
       IndexUses, Continue, ContinueFails
<1>6. CASE UNCHANGED Own(c)
  BY <1>6 DEF Own
<1> QED BY <1>1, <1>2, <1>3, <1>4, <1>5, <1>6, MovesOrStays DEF Step, Work

\* What a call has accumulated stays, is cleared, or grows by what a stream
\* delivered.
Kept(g, h) == h.acc = g.acc /\ h.group = g.group /\ h.resp = g.resp
Cleared(g) == g.acc = <<>> /\ g.group = NoGroup /\ g.resp = NoOutcome
Delivered(c, g, h) ==
  /\ Delivers(c, h.resp) /\ h.resp \in Outcomes
  /\ h.acc = g.acc \o Piece(c, h.resp, Len(g.acc) + 1)
  /\ h.group \in {g.group, c}

\* No step of any call does anything else to it.
LEMMA AnswerGrows ==
  ASSUME IInv, [Next]_vars, NEW c \in Calls
  PROVE  \/ Kept(gen[c], gen'[c]) /\ ~ Drain(c)
         \/ Cleared(gen'[c]) /\ ~ Drain(c) /\ pc'[c] \notin Answering \cup {"indexingUse"}
         \/ Drain(c) /\ Delivered(c, gen[c], gen'[c]) /\ nodes' = nodes /\ ask' = ask
            /\ toolIndex' = toolIndex
<1>1. DOMAIN pc = Calls /\ DOMAIN gen = Calls /\ GenOK(gen[c]) /\ TypeOK
  BY DEF IInv, TypeOK
<1>2. pc[c] # "streaming" \/ pc'[c] # "saving" => ~ Drain(c)
  BY <1>1 DEF Drain, Goto
<1>3. CASE Drain(c)
  <2>1. PICK o \in Outcomes : Delivers(c, o) /\ gen' = [gen EXCEPT ![c] = Accumulate(c, o)]
    BY <1>3 DEF Drain
  <2>2. gen'[c] = Accumulate(c, o)
    BY <1>1, <2>1
  <2>3. /\ gen'[c].acc = gen[c].acc \o Piece(c, o, Len(gen[c].acc) + 1)
        /\ gen'[c].resp = o /\ gen'[c].group \in {gen[c].group, c}
    BY <1>1, <2>2 DEF Accumulate, GenOK, NoGen
  <2> QED BY <1>3, <2>1, <2>3 DEF Delivered, Drain, storeVars
<1>4. CASE Prompt(c)
  <2>1. gen'[c] = HangFrom(RootRow(c)) /\ pc[c] = "idle" /\ pc'[c] = "opening"
    BY <1>1, <1>4 DEF Prompt, Goto
  <2> QED BY <1>2, <2>1 DEF HangFrom, NoGen, Cleared, Answering
<1>5. CASE CreateUser(c)
  <2>1. gen'[c] = HangFrom(UserRow(c)) /\ pc[c] = "found" /\ pc'[c] \in {"indexing", "checking"}
    BY <1>1, <1>5 DEF CreateUser, Goto
  <2> QED BY <1>2, <2>1 DEF HangFrom, NoGen, Cleared, Answering
<1>6. CASE Save(c)
  <2>1. pc[c] = "saving"
    BY <1>6 DEF Save, Goto
  <2>2. CASE ShouldContinue(gen[c].resp, gen[c].tokens)
    <3>1. gen'[c] = Advance(c)
      BY <1>1, <1>6, <2>2 DEF Save, ShouldContinue
    <3> QED BY <1>1, <1>2, <2>1, <3>1 DEF Advance, GenOK, NoGen, Kept
  <2>3. CASE ~ ShouldContinue(gen[c].resp, gen[c].tokens)
    <3>1. gen' = gen \/ (gen'[c] = NoGen /\ pc'[c] = "closed")
      BY <1>1, <1>6, <2>3 DEF Save, Return, Goto
    <3> QED BY <1>2, <2>1, <3>1 DEF Kept, Cleared, NoGen, Answering
  <2> QED BY <2>2, <2>3
<1>7. CASE CheckFails(c) \/ OpenFails(c) \/ DrainNothing(c) \/ SaveFails(c) \/ IndexUses(c)
           \/ ContinueFails(c)
  <2>1. gen'[c] = NoGen /\ pc'[c] \in {"failed", "closed"}
    BY <1>1, <1>7 DEF CheckFails, OpenFails, DrainNothing, SaveFails, IndexUses, ContinueFails,
         Return, Goto
  <2> QED BY <1>2, <2>1 DEF NoGen, Cleared, Answering
<1>8. CASE \/ PromptFrom(c) \/ PromptFromFails(c) \/ CreateFails(c) \/ IndexResults(c)
           \/ CheckOrphans(c) \/ OpenStream(c) \/ Continue(c)
  <2>1. gen' = gen /\ pc'[c] # "saving"
    BY <1>1, <1>8 DEF PromptFrom, PromptFromFails, CreateFails, IndexResults, CheckOrphans,
         OpenStream, Continue, Goto
  <2> QED BY <1>2, <2>1 DEF Kept
<1>9. CASE UNCHANGED Own(c)
  <2>1. gen'[c] = gen[c] /\ pc'[c] = pc[c]
    BY <1>9 DEF Own
  <2> QED BY <1>2, <2>1 DEF Kept
<1> QED BY <1>1, <1>3, <1>4, <1>5, <1>6, <1>7, <1>8, <1>9, MovesOrStays DEF Step, Work

-----------------------------------------------------------------------------
(***************************************************************************)
(* What the rows say, and to whom the tools of a response are new.         *)
(***************************************************************************)

\* What a user says, and what an answer says: texts of the call that wrote
\* it, and tool uses.
UserBlock(b) == b.kind \in {"text", "result"} /\ b.n = 0
AnswerBlock(row, b) ==
  \/ b.kind = "text" /\ b.n >= 1 /\ row.group \in {NoGroup, b.from}
  \/ b = Use(b.from)

\* A row says nothing twice.
RowShape(row) ==
  /\ IsInjective(row.content)
  /\ row.type = "user" => row.group = NoGroup /\ \A b \in ToSet(row.content) : UserBlock(b)
  /\ row.type = "assistant" => \A b \in ToSet(row.content) : AnswerBlock(row, b)

\* What two rows say both is text of their output group, or the answer to
\* one tool use below one row.
SaidOnce(rows) ==
  \A m \in DOMAIN rows : \A n \in DOMAIN rows :
    \A b \in ToSet(rows[m].content) \cap ToSet(rows[n].content) :
      \/ m = n
      \/ b.kind = "text" /\ b.n >= 1 /\ rows[m].group = b.from /\ rows[n].group = b.from
      \/ b.kind = "result" /\ rows[m].parent = rows[n].parent

\* A tool result hangs below the row with its tool use.
ResultsBelow(rows) ==
  \A m \in DOMAIN rows : \A n \in DOMAIN rows :
    \A t \in UsesIn(rows[m].content) \cap ResultsIn(rows[n].content) : rows[n].parent = m

\* A row with tool uses is the last of its output group.
UsesEndGroup(rows) ==
  \A m \in DOMAIN rows : \A n \in DOMAIN rows :
    /\ rows[m].group = rows[n].group /\ rows[m].group # NoGroup
    /\ UsesIn(rows[m].content) # {}
    => n <= m

RowsGood(rows) ==
  /\ \A n \in DOMAIN rows : rows[n].id = n /\ RowShape(rows[n])
  /\ SaidOnce(rows) /\ ResultsBelow(rows) /\ UsesEndGroup(rows)

Table == RowsGood(nodes)

\* The text a call accumulates is numbered, and a response with text added
\* some of it.
Pieces ==
  \A c \in Calls :
    /\ \A i \in DOMAIN gen[c].acc : gen[c].acc[i] = Text(c, i)
    /\ pc[c] = "saving" /\ gen[c].resp.text # "empty" => Len(gen[c].acc) >= 1

\* A caller's message says nothing twice.
Messages ==
  \A c \in Calls :
    /\ IsInjective(ask[c].msg)
    /\ \A b \in ToSet(ask[c].msg) : UserBlock(b) /\ (b.kind = "text" => b.from = c)

\* A call's text is not in the store before the call stores it, and its
\* answer is only in the rows of its group, which have no tool uses, as long
\* as the call goes on.
Before == {"idle", "found", "indexing", "checking", "opening"}

TextFresh ==
  /\ \A c \in Calls : \A n \in DOMAIN nodes : \A b \in ToSet(nodes[n].content) :
       b.kind = "text" /\ b.from = c =>
         /\ pc[c] \in {"idle", "found"} => b.n # 0
         /\ pc[c] \in Before => b.n = 0
         /\ pc[c] \in Answering /\ b.n # 0 => nodes[n].group = c /\ gen[c].group = c
  /\ \A c \in Calls : pc[c] \in Answering =>
       \A n \in GroupNodes(c) : UsesIn(nodes[n].content) = {}

\* The tool ids of a response are in no other response; until it is stored,
\* in no row and no message; until they are indexed, not in the index.
UsesFresh ==
  /\ \A c \in Calls : \A d \in Calls : c # d => gen[c].resp.uses \cap gen[d].resp.uses = {}
  /\ \A c \in Calls : pc[c] = "saving" => \A t \in gen[c].resp.uses :
       /\ \A n \in DOMAIN nodes :
            t \notin UsesIn(nodes[n].content) /\ t \notin ResultsIn(nodes[n].content)
       /\ \A d \in Calls : t \notin ResultsIn(ask[d].msg)
  /\ \A c \in Calls : pc[c] \in {"saving", "indexingUse"} =>
       \A e \in toolIndex : e.role = "use" => e.tool \notin gen[c].resp.uses
  /\ \A e \in toolIndex : \A f \in toolIndex :
       e.role = "use" /\ f.role = "use" /\ e.tool = f.tool => e = f

\* A message about to be stored answers uses of the row it continues from,
\* and other answers to them hang below that row too.
AnswersFit ==
  \A c \in Calls : pc[c] = "found" => \A t \in ResultsIn(ask[c].msg) :
    /\ \A m \in DOMAIN nodes : t \in UsesIn(nodes[m].content) => m = ask[c].target
    /\ \A n \in DOMAIN nodes :
         t \in ResultsIn(nodes[n].content) => nodes[n].parent = ask[c].target
    /\ \A d \in Calls :
         pc[d] = "found" /\ t \in ResultsIn(ask[d].msg) => ask[d].target = ask[c].target

\* A reply says nothing twice, and answers uses of the row it continues from.
LEMMA ReplySays ==
  ASSUME IInv, NEW c \in Calls, NEW p \in DOMAIN nodes, NEW m \in Replies(c, p)
  PROVE  /\ m \in Seq(BlockType) /\ IsInjective(m)
         /\ \A b \in ToSet(m) : UserBlock(b) /\ (b.kind = "text" => b.from = c)
         /\ ResultsIn(m) \subseteq UsesIn(nodes[p].content)
         /\ Text(c, 0) \in ToSet(m) \/ \A b \in ToSet(m) : b.kind = "result"
<1>1. m \in Seq(BlockType) /\ nodes[p].content \in Seq(BlockType)
  BY RepliesTyped DEF IInv, TypeOK, StoreOK, RowType
<1>2. CASE m = <<Text(c, 0)>>
  <2>1. ToSet(m) = {Text(c, 0)}
    BY <1>2 DEF ToSet
  <2>2. IsInjective(m)
    BY <1>2 DEF IsInjective
  <2>3. ResultsIn(m) = {}
    BY <2>1 DEF ResultsIn, Blocks, Text
  <2>4. \A b \in ToSet(m) : UserBlock(b) /\ b.from = c
    BY <2>1 DEF UserBlock, Text
  <2> QED BY <1>1, <2>1, <2>2, <2>3, <2>4
<1>3. ASSUME NEW r \in SUBSET UsesIn(nodes[p].content), m = SetToSeq({Result(t) : t \in r})
      PROVE  /\ IsInjective(m)
             /\ \A b \in ToSet(m) : UserBlock(b) /\ b.kind = "result"
             /\ ResultsIn(m) \subseteq UsesIn(nodes[p].content)
  <2> DEFINE S == {Result(t) : t \in r}
             f == [t \in r |-> Result(t)]
  <2>1. IsFiniteSet(r)
    BY <1>1, ToolsInContent, FS_Subset
  <2>2. IsFiniteSet({f[t] : t \in r})
    <3>1. f \in [r -> S]
      OBVIOUS
    <3> HIDE DEF f, S
    <3> QED BY <2>1, <3>1, ImageFinite
  <2>3. {f[t] : t \in r} = S
    OBVIOUS
  <2>4. IsFiniteSet(S)
    BY <2>2, <2>3
  <2>5. ToSet(SetToSeq(S)) = S /\ IsInjective(SetToSeq(S))
    <3> HIDE DEF S
    <3> QED BY <2>4, SetListed
  <2>6. ToSet(m) = S /\ IsInjective(m)
    BY <1>3, <2>5
  <2> QED BY <2>6 DEF Result, UserBlock, ResultsIn, Blocks
<1> QED BY <1>1, <1>2, <1>3 DEF Replies

\* What a row to be stored says.
LEMMA AnswerSays ==
  ASSUME IInv, Pieces, NEW c \in Calls, pc[c] = "saving", NEW s, s = NodeContent(c)
  PROVE  /\ IsInjective(s)
         /\ \A b \in ToSet(s) :
              \/ b.kind = "text" /\ b.from = c /\ b.n >= 1
              \/ \E t \in gen[c].resp.uses : b = Use(t)
         /\ UsesIn(s) # {} => NonText(gen[c].resp)
<1> DEFINE o == gen[c].resp
           a == gen[c].acc
           S == {Use(t) : t \in o.uses}
           p == Piece(c, o, Len(a))
           u == UseBlocks(o)
<1>1. /\ GenOK(gen[c]) /\ a \in Seq(BlockType) /\ Len(a) \in Nat
      /\ IsFiniteSet(o.uses) /\ o.uses \subseteq ToolIds
  BY OutcomeFacts DEF IInv, TypeOK, GenOK, OutcomeType
<1>2. (\A i \in DOMAIN a : a[i] = Text(c, i)) /\ (o.text # "empty" => Len(a) >= 1)
  BY DEF Pieces
<1>3. CASE NonText(o)
  <2>1. s = p \o u
    BY <1>3 DEF NodeContent
  <2>2. p \in Seq(BlockType) /\ (p = <<>> \/ (p = <<Text(c, Len(a))>> /\ Len(a) >= 1))
    BY <1>1, <1>2, PieceTyped DEF Piece
  <2>3. IsFiniteSet(S) /\ S \subseteq BlockType
    <3>1. IsFiniteSet(S)
      BY <1>1, UseBlocksFinite
    <3>2. S \subseteq BlockType
      BY <1>1 DEF Use, BlockType
    <3> QED BY <3>1, <3>2
  <2>4. u \in Seq(BlockType) /\ ToSet(u) = S /\ IsInjective(u)
    <3>1. u = SetToSeq(S)
      BY DEF UseBlocks
    <3> HIDE DEF S, u
    <3> QED BY <2>3, <3>1, SetListed
  <2>5. \A j \in DOMAIN u : \E t \in o.uses : u[j] = Use(t)
    BY <2>4 DEF ToSet
  <2> HIDE DEF p, u
  <2>6. CASE p = <<>>
    <3>1. s = u
      BY <2>1, <2>4, <2>6
    <3> QED BY <1>3, <2>4, <3>1
  <2>7. CASE p = <<Text(c, Len(a))>> /\ Len(a) >= 1
    <3>1. /\ Len(s) = Len(u) + 1 /\ s[1] = Text(c, Len(a)) /\ s \in Seq(BlockType)
          /\ \A j \in 2 .. Len(s) : s[j] = u[j - 1] /\ j - 1 \in 1 .. Len(u)
      BY <2>1, <2>2, <2>4, <2>7
    <3>2. \A j \in 2 .. Len(s) : \E t \in o.uses : s[j] = Use(t)
      BY <2>4, <2>5, <3>1
    <3>3. \A i, j \in 2 .. Len(s) : s[i] = s[j] => i = j
      BY <2>4, <3>1 DEF IsInjective
    <3>4. \A j \in 2 .. Len(s) : s[j] # s[1]
      <4>1. s[1].kind = "text" /\ \A t \in o.uses : Use(t).kind = "use"
        BY <3>1 DEF Text, Use
      <4> QED BY <3>2, <4>1
    <3>5. DOMAIN s = 1 .. Len(s) /\ Len(s) \in Nat
      BY <3>1
    <3>6. \A i, j \in 1 .. Len(s) : s[i] = s[j] => i = j
      BY <3>3, <3>4, <3>5
    <3>7. IsInjective(s)
      BY <3>5, <3>6 DEF IsInjective
    <3>8. \A b \in ToSet(s) : b = Text(c, Len(a)) \/ \E t \in o.uses : b = Use(t)
      BY <3>1, <3>2, <3>5 DEF ToSet
    <3> QED BY <1>3, <2>7, <3>7, <3>8 DEF Text
  <2> QED BY <2>2, <2>6, <2>7
<1>4. CASE ~ NonText(o)
  <2>1. s = a
    BY <1>4 DEF NodeContent
  <2>2. IsInjective(s)
    <3>1. \A i \in DOMAIN a : a[i].n = i
      <4>1. \A i : Text(c, i).n = i
        BY DEF Text
      <4> QED BY <1>2, <4>1
    <3> QED BY <2>1, <3>1 DEF IsInjective
  <2>3. \A b \in ToSet(s) : \E i \in 1 .. Len(a) : b = Text(c, i)
    BY <1>1, <1>2, <2>1 DEF ToSet
  <2>4. \A b \in ToSet(s) : b.kind = "text" /\ b.from = c /\ b.n >= 1
    BY <2>3 DEF Text
  <2>5. UsesIn(s) = {}
    BY <2>4 DEF UsesIn, Blocks
  <2> QED BY <2>2, <2>4, <2>5
<1> QED BY <1>3, <1>4

\* What a new row says, by the call that stored it.
RootSays(c, row) ==
  /\ pc[c] = "idle" /\ pc'[c] = "opening"
  /\ row.content = <<Text(c, 0)>> /\ row.type = "user" /\ row.group = NoGroup
UserSays(c, row) ==
  /\ pc[c] = "found" /\ pc'[c] \in {"indexing", "checking"}
  /\ row.content = ask[c].msg /\ row.type = "user" /\ row.group = NoGroup
  /\ row.parent = ask[c].target
AnswerIs(c, row) ==
  /\ pc[c] = "saving" /\ pc'[c] \in {"indexingUse", "continuing", "closed"}
  /\ row.content = NodeContent(c) /\ row.type = "assistant" /\ row.group = gen[c].group
  /\ row.group \in {NoGroup, c}
  /\ pc'[c] = "continuing" =>
       gen[c].group = c /\ gen'[c].group = c /\ ~ NonText(gen[c].resp)

\* A row is new by one of these.
LEMMA NewRowSays ==
  ASSUME IInv, [Next]_vars, nextId \in DOMAIN nodes', NEW row, row = nodes'[nextId]
  PROVE  /\ row.id = nextId
         /\ \E c \in Calls : RootSays(c, row) \/ UserSays(c, row) \/ AnswerIs(c, row)
<1>1. DOMAIN pc = Calls /\ DOMAIN gen = Calls
  BY DEF IInv, TypeOK
<1>2. PICK c \in Calls :
           \/ Prompt(c) /\ nodes'[nextId] = RootRow(c)
           \/ CreateUser(c) /\ nodes'[nextId] = UserRow(c)
           \/ Save(c) /\ nodes'[nextId] = AssistantRow(c)
  BY NewRow
<1>3. CASE Prompt(c) /\ row = RootRow(c)
  BY <1>1, <1>3 DEF Prompt, Goto, RootRow, Row, RootSays
<1>4. CASE CreateUser(c) /\ row = UserRow(c)
  BY <1>1, <1>4 DEF CreateUser, Goto, UserRow, Row, UserSays
<1>5. CASE Save(c) /\ row = AssistantRow(c)
  <2>1. /\ row.id = nextId /\ row.content = NodeContent(c) /\ row.type = "assistant"
        /\ row.group = gen[c].group
    BY <1>5 DEF AssistantRow, Row
  <2>2. /\ pc[c] = "saving" /\ pc[c] \in Streaming
        /\ pc'[c] = IF NonText(gen[c].resp) THEN "indexingUse"
                    ELSE IF ShouldContinue(gen[c].resp, gen[c].tokens) THEN "continuing" ELSE "closed"
    BY <1>1, <1>5 DEF Save, Goto, Streaming
  <2>3. gen[c].group \in {NoGroup, c}
    BY <2>2 DEF IInv, TreeInv, ParentKnown
  <2>4. ASSUME pc'[c] = "continuing"
        PROVE  gen[c].group = c /\ gen'[c].group = c /\ ~ NonText(gen[c].resp)
    <3>1. ~ NonText(gen[c].resp) /\ ShouldContinue(gen[c].resp, gen[c].tokens)
      BY <2>2, <2>4
    <3>2. gen[c].group = c
      BY <2>2, <3>1 DEF IInv, TreeInv, GroupKnown
    <3>3. gen'[c] = Advance(c)
      BY <1>1, <1>5, <3>1 DEF Save
    <3>4. gen'[c].group = gen[c].group
      <4>1. GenOK(gen[c])
        BY DEF IInv, TypeOK
      <4> QED BY <3>3, <4>1 DEF Advance, GenOK, NoGen
    <3> QED BY <3>1, <3>2, <3>4
  <2>5. pc'[c] \in {"indexingUse", "continuing", "closed"}
    BY <2>2
  <2> QED BY <2>1, <2>2, <2>3, <2>4, <2>5 DEF AnswerIs
<1> QED BY <1>2, <1>3, <1>4, <1>5

\* What a new row says, block by block.
LEMMA NewRowBlocks ==
  ASSUME IInv, Pieces, Messages, NEW c \in Calls, NEW row
  PROVE  /\ RootSays(c, row) =>
              RowShape(row) /\ \A b \in ToSet(row.content) : b = Text(c, 0)
         /\ UserSays(c, row) =>
              /\ RowShape(row)
              /\ \A b \in ToSet(row.content) :
                   UserBlock(b) /\ (b.kind = "text" => b.from = c)
         /\ AnswerIs(c, row) =>
              /\ RowShape(row)
              /\ \A b \in ToSet(row.content) :
                   \/ b.kind = "text" /\ b.from = c /\ b.n >= 1
                   \/ \E t \in gen[c].resp.uses : b = Use(t)
              /\ UsesIn(row.content) # {} => NonText(gen[c].resp)
<1>1. ASSUME RootSays(c, row)
      PROVE  RowShape(row) /\ \A b \in ToSet(row.content) : b = Text(c, 0)
  <2>1. ToSet(row.content) = {Text(c, 0)} /\ IsInjective(row.content)
    BY <1>1 DEF RootSays, ToSet, IsInjective
  <2>2. UserBlock(Text(c, 0))
    BY DEF Text, UserBlock
  <2> QED BY <1>1, <2>1, <2>2 DEF RowShape, RootSays
<1>2. ASSUME UserSays(c, row)
      PROVE  /\ RowShape(row)
             /\ \A b \in ToSet(row.content) : UserBlock(b) /\ (b.kind = "text" => b.from = c)
  BY <1>2 DEF RowShape, UserSays, Messages
<1>3. ASSUME AnswerIs(c, row)
      PROVE  /\ RowShape(row)
             /\ \A b \in ToSet(row.content) :
                   \/ b.kind = "text" /\ b.from = c /\ b.n >= 1
                   \/ \E t \in gen[c].resp.uses : b = Use(t)
             /\ UsesIn(row.content) # {} => NonText(gen[c].resp)
  <2>1. /\ IsInjective(row.content)
        /\ \A b \in ToSet(row.content) :
              \/ b.kind = "text" /\ b.from = c /\ b.n >= 1
              \/ \E t \in gen[c].resp.uses : b = Use(t)
        /\ UsesIn(row.content) # {} => NonText(gen[c].resp)
    BY <1>3, AnswerSays DEF AnswerIs
  <2>2. \A t : Use(t) = Use(Use(t).from)
    BY DEF Use
  <2>3. row.type = "assistant" /\ row.group \in {NoGroup, c}
    BY <1>3 DEF AnswerIs
  <2>4. \A b \in ToSet(row.content) : AnswerBlock(row, b)
    BY <2>1, <2>2, <2>3 DEF AnswerBlock
  <2> QED BY <2>1, <2>3, <2>4 DEF RowShape
<1> QED BY <1>1, <1>2, <1>3

\* The pieces stay numbered.
LEMMA NextPieces == IInv /\ Pieces /\ [Next]_vars => Pieces'
<1> SUFFICES ASSUME IInv, Pieces, [Next]_vars, NEW c \in Calls,
                    NEW g, g = gen[c], NEW h, h = gen'[c]
             PROVE  /\ \A i \in DOMAIN h.acc : h.acc[i] = Text(c, i)
                    /\ pc'[c] = "saving" /\ h.resp.text # "empty" => Len(h.acc) >= 1
  BY DEF Pieces
<1>1. GenOK(g) /\ TypeOK
  BY DEF IInv, TypeOK
<1>2. \A i \in DOMAIN g.acc : g.acc[i] = Text(c, i)
  BY DEF Pieces
<1>3. CASE Kept(g, h) /\ ~ Drain(c)
  <2>1. pc'[c] = "saving" => pc[c] = "saving"
    BY <1>1, <1>3, PhasesMove DEF PhaseMoves
  <2>2. \A i \in DOMAIN h.acc : h.acc[i] = Text(c, i)
    BY <1>2, <1>3 DEF Kept
  <2>3. pc[c] = "saving" /\ g.resp.text # "empty" => Len(g.acc) >= 1
    BY DEF Pieces
  <2> QED BY <1>3, <2>1, <2>2, <2>3 DEF Kept
<1>4. CASE Cleared(h)
  BY <1>4 DEF Cleared, NoOutcome
<1>5. CASE Delivered(c, g, h)
  <2> DEFINE p == Piece(c, h.resp, Len(g.acc) + 1)
  <2>1. g.acc \in Seq(BlockType) /\ Len(g.acc) \in Nat /\ h.acc = g.acc \o p
    BY <1>1, <1>5 DEF GenOK, Delivered
  <2>2. p \in Seq(BlockType) /\ (h.resp.text # "empty" => p = <<Text(c, Len(g.acc) + 1)>>)
        /\ (p = <<>> \/ p = <<Text(c, Len(g.acc) + 1)>>)
    BY <2>1, PieceTyped DEF Piece
  <2> HIDE DEF p
  <2>3. CASE p = <<>>
    BY <1>2, <2>1, <2>2, <2>3
  <2>4. CASE p = <<Text(c, Len(g.acc) + 1)>>
    <3>1. Len(h.acc) = Len(g.acc) + 1 /\ h.acc[Len(g.acc) + 1] = Text(c, Len(g.acc) + 1)
          /\ DOMAIN h.acc = 1 .. Len(g.acc) + 1
          /\ \A i \in 1 .. Len(g.acc) : h.acc[i] = g.acc[i]
      BY <2>1, <2>2, <2>4
    <3>2. \A i \in 1 .. Len(g.acc) : g.acc[i] = Text(c, i)
      BY <1>2, <2>1
    <3>3. ASSUME NEW i \in 1 .. Len(g.acc) + 1 PROVE h.acc[i] = Text(c, i)
      <4>1. CASE i \in 1 .. Len(g.acc)
        BY <3>1, <3>2, <4>1
      <4>2. CASE i = Len(g.acc) + 1
        BY <3>1, <4>2
      <4>3. Len(g.acc) \in Nat
        BY <2>1
      <4>4. i \in 1 .. Len(g.acc) \/ i = Len(g.acc) + 1
        BY <4>3
      <4> QED BY <4>1, <4>2, <4>4
    <3>4. Len(h.acc) >= 1
      BY <2>1, <3>1
    <3> QED BY <3>1, <3>3, <3>4
  <2> QED BY <2>2, <2>3, <2>4
<1> QED BY <1>3, <1>4, <1>5, AnswerGrows

\* What callers write stays as it was written.
LEMMA NextMessages == IInv /\ Messages /\ [Next]_vars => Messages'
<1> SUFFICES ASSUME IInv, Messages, [Next]_vars, NEW c \in Calls, NEW m, m = ask'[c].msg
             PROVE  /\ IsInjective(m)
                    /\ \A b \in ToSet(m) : UserBlock(b) /\ (b.kind = "text" => b.from = c)
  BY DEF Messages
<1>1. CASE m = ask[c].msg
  BY <1>1 DEF Messages
<1>2. CASE m = <<>>
  BY <1>2 DEF IsInjective, ToSet
<1>3. CASE PromptFrom(c)
  <2>1. PICK p \in DOMAIN nodes : m \in Replies(c, p)
    BY <1>3, PathTaken
  <2> QED BY <2>1, ReplySays
<1> QED BY <1>1, <1>2, <1>3, MessageStays

\* Only a call stores its own text, and only as it says.
LEMMA NextTextFresh ==
  IInv /\ GroupsFresh /\ Pieces /\ Messages /\ TextFresh /\ [Next]_vars => TextFresh'
<1> SUFFICES ASSUME IInv, GroupsFresh, Pieces, Messages, TextFresh, [Next]_vars PROVE TextFresh'
  OBVIOUS
<1>1. /\ nextId \notin DOMAIN nodes /\ TypeOK
      /\ \A n \in DOMAIN nodes' : n # nextId => n \in DOMAIN nodes /\ nodes'[n] = nodes[n]
  BY RowsStay DEF IInv, TypeOK, StoreOK, NodeId
<1>2. ASSUME NEW c \in Calls
      PROVE  /\ pc'[c] \in {"idle", "found"} => pc[c] \in {"idle", "found"}
             /\ pc'[c] \in Before => pc[c] \in Before
             /\ pc'[c] \in Answering =>
                  \/ pc[c] \in Before
                  \/ pc[c] \in Answering /\ (gen[c].group = c => gen'[c].group = c)
  <2>1. pc'[c] = pc[c] \/ <<pc[c], pc'[c]>> \in PhaseMoves
    BY <1>1, PhasesMove
  <2>2. /\ pc'[c] \in {"idle", "found"} => pc[c] \in {"idle", "found"}
        /\ pc'[c] \in Before => pc[c] \in Before
        /\ pc'[c] \in Answering => pc[c] \in Before \/ pc[c] \in Answering
    BY <2>1 DEF PhaseMoves, Before, Answering
  <2>3. pc'[c] \in Answering => gen'[c].group \in {gen[c].group, c}
    BY AnswerGrows DEF Kept, Delivered
  <2> QED BY <2>2, <2>3
<1>3. ASSUME NEW c \in Calls, NEW n \in DOMAIN nodes', NEW row, row = nodes'[n],
             NEW b \in ToSet(row.content), b.kind = "text", b.from = c
      PROVE  /\ pc'[c] \in {"idle", "found"} => b.n # 0
             /\ pc'[c] \in Before => b.n = 0
             /\ pc'[c] \in Answering /\ b.n # 0 => row.group = c /\ gen'[c].group = c
  <2>1. CASE n # nextId
    <3>1. n \in DOMAIN nodes /\ row = nodes[n]
      BY <1>1, <1>3, <2>1
    <3>2. /\ pc[c] \in {"idle", "found"} => b.n # 0
          /\ pc[c] \in Before => b.n = 0
          /\ pc[c] \in Answering /\ b.n # 0 => row.group = c /\ gen[c].group = c
      BY <1>3, <3>1 DEF TextFresh
    <3> QED BY <1>2, <3>2
  <2>2. CASE n = nextId
    <3>1. PICK d \in Calls : RootSays(d, row) \/ UserSays(d, row) \/ AnswerIs(d, row)
      BY <1>3, <2>2, NewRowSays
    <3>2. CASE RootSays(d, row)
      <4>1. b = Text(d, 0) /\ pc'[d] = "opening"
        BY <1>3, <3>2, NewRowBlocks DEF RootSays
      <4>2. c = d /\ b.n = 0
        BY <1>3, <4>1 DEF Text
      <4> QED BY <4>1, <4>2
    <3>3. CASE UserSays(d, row)
      <4>1. UserBlock(b) /\ b.from = d /\ pc'[d] \in {"indexing", "checking"}
        BY <1>3, <3>3, NewRowBlocks DEF UserSays
      <4>2. c = d /\ b.n = 0
        BY <1>3, <4>1 DEF UserBlock
      <4> QED BY <4>1, <4>2
    <3>4. CASE AnswerIs(d, row)
      <4>1. b.from = d /\ b.n >= 1
        BY <1>3, <3>4, NewRowBlocks DEF Use
      <4>2. /\ pc'[d] \in {"indexingUse", "continuing", "closed"} /\ row.group = gen[d].group
            /\ pc'[d] = "continuing" => gen[d].group = d /\ gen'[d].group = d
        BY <3>4 DEF AnswerIs
      <4> QED BY <1>3, <4>1, <4>2 DEF Before, Answering
    <3> QED BY <3>1, <3>2, <3>3, <3>4
  <2> QED BY <2>1, <2>2
<1>4. ASSUME NEW c \in Calls, pc'[c] \in Answering, NEW n \in GroupNodes(c)'
      PROVE  UsesIn(nodes'[n].content) = {}
  <2>1. pc[c] \in Answering \/ (pc[c] \in Before /\ pc[c] # pc'[c])
    BY <1>2, <1>4 DEF Before, Answering
  <2>2. CASE n # nextId
    <3>1. n \in GroupNodes(c) /\ nodes'[n] = nodes[n]
      BY <1>4, <2>2, GroupGrows
    <3>2. CASE pc[c] \in Answering
      BY <3>1, <3>2 DEF TextFresh
    <3>3. CASE pc[c] \in Before
      BY <3>1, <3>3 DEF GroupsFresh, Before, Unanswered
    <3> QED BY <2>1, <3>2, <3>3
  <2>3. CASE n = nextId
    <3>1. n \in DOMAIN nodes' /\ nodes'[n].group = c
      BY <1>4 DEF GroupNodes
    <3>2. PICK d \in Calls : RootSays(d, nodes'[n]) \/ UserSays(d, nodes'[n]) \/ AnswerIs(d, nodes'[n])
      BY <2>3, <3>1, NewRowSays
    <3>3. c # NoGroup
      BY BoundsAssumption
    <3>4. AnswerIs(d, nodes'[n]) /\ d = c
      BY <3>1, <3>2, <3>3 DEF RootSays, UserSays, AnswerIs
    <3>5. ~ NonText(gen[c].resp)
      BY <1>4, <3>4 DEF AnswerIs, Answering
    <3> QED BY <3>4, <3>5, NewRowBlocks
  <2> QED BY <2>2, <2>3
<1> QED BY <1>3, <1>4 DEF TextFresh

\* What the blocks of a content make of its tools.
LEMMA ToolsSaid ==
  ASSUME NEW content
  PROVE  /\ \A t \in UsesIn(content) : \E b \in ToSet(content) : b.kind = "use" /\ b.from = t
         /\ \A t \in ResultsIn(content) :
              \E b \in ToSet(content) : b.kind = "result" /\ b.from = t
  BY DEF UsesIn, ResultsIn, Blocks

\* The tools of a new row are those of the message or the response stored.
LEMMA NewRowTools ==
  ASSUME IInv, Pieces, Messages, NEW c \in Calls, NEW row
  PROVE  /\ RootSays(c, row) => UsesIn(row.content) = {} /\ ResultsIn(row.content) = {}
         /\ UserSays(c, row) =>
              UsesIn(row.content) = {} /\ ResultsIn(row.content) = ResultsIn(ask[c].msg)
         /\ AnswerIs(c, row) =>
              UsesIn(row.content) \subseteq gen[c].resp.uses /\ ResultsIn(row.content) = {}
<1>1. /\ \A t : Use(t).kind = "use" /\ Use(t).from = t
      /\ Text(c, 0).kind = "text"
  BY DEF Use, Text
<1>2. ASSUME RootSays(c, row) PROVE UsesIn(row.content) = {} /\ ResultsIn(row.content) = {}
  <2>1. \A b \in ToSet(row.content) : b.kind = "text"
    BY <1>1, <1>2, NewRowBlocks
  <2> QED BY <2>1 DEF UsesIn, ResultsIn, Blocks
<1>3. ASSUME UserSays(c, row)
      PROVE  UsesIn(row.content) = {} /\ ResultsIn(row.content) = ResultsIn(ask[c].msg)
  <2>1. \A b \in ToSet(row.content) : b.kind # "use"
    BY <1>3, NewRowBlocks DEF UserBlock
  <2> QED BY <1>3, <2>1 DEF UsesIn, Blocks, UserSays
<1>4. ASSUME AnswerIs(c, row)
      PROVE  UsesIn(row.content) \subseteq gen[c].resp.uses /\ ResultsIn(row.content) = {}
  <2>1. \A b \in ToSet(row.content) :
          b.kind = "text" \/ (b.kind = "use" /\ b.from \in gen[c].resp.uses)
    BY <1>1, <1>4, NewRowBlocks
  <2> QED BY <2>1 DEF UsesIn, ResultsIn, Blocks
<1> QED BY <1>2, <1>3, <1>4

\* The tool ids a new response brings were never seen before.
LEMMA NewUses ==
  ASSUME FreshToolIds, NEW c \in Calls, NEW g, NEW h, Delivered(c, g, h), NEW t \in h.resp.uses
  PROVE  /\ \A e \in toolIndex : e.tool # t
         /\ \A n \in DOMAIN nodes :
              t \notin UsesIn(nodes[n].content) /\ t \notin ResultsIn(nodes[n].content)
         /\ \A d \in Calls : t \notin ResultsIn(ask[d].msg) /\ t \notin gen[d].resp.uses
<1>1. \A x \in h.resp.uses : x \notin UsedToolIds
  BY DEF Delivered, Delivers
<1>2. t \notin UsedToolIds
  BY <1>1
<1>3. \A e \in toolIndex : e.tool \in UsedToolIds
  BY DEF UsedToolIds
<1> DEFINE U(n) == UsesIn(nodes[n].content) \cup ResultsIn(nodes[n].content)
           R(d) == ResultsIn(ask[d].msg)
           G(d) == gen[d].resp.uses
           I == {e.tool : e \in toolIndex}
           Us == UNION {U(n) : n \in DOMAIN nodes}
           Rs == UNION {R(d) : d \in Calls}
           Gs == UNION {G(d) : d \in Calls}
<1>a. UsedToolIds = I \cup Us \cup Rs \cup Gs
  BY DEF UsedToolIds
<1>b. t \notin Us /\ t \notin Rs /\ t \notin Gs
  <2> HIDE DEF I, Us, Rs, Gs
  <2> QED BY <1>2, <1>a
<1> HIDE DEF U, R, G
<1>4. ASSUME NEW n \in DOMAIN nodes PROVE t \notin U(n)
  BY <1>b
<1>5. ASSUME NEW d \in Calls PROVE t \notin R(d)
  BY <1>b
<1>6. ASSUME NEW d \in Calls PROVE t \notin G(d)
  BY <1>b
<1> USE DEF U, R, G
<1> QED BY <1>2, <1>3, <1>4, <1>5, <1>6

\* They stay so until they are stored and indexed.
LEMMA NextUsesFresh ==
  FreshToolIds /\ IInv /\ Pieces /\ Messages /\ UsesFresh /\ [Next]_vars => UsesFresh'
<1> SUFFICES ASSUME FreshToolIds, IInv, Pieces, Messages, UsesFresh, [Next]_vars PROVE UsesFresh'
  OBVIOUS
<1>1. /\ nextId \notin DOMAIN nodes /\ TypeOK
      /\ \A n \in DOMAIN nodes' : n # nextId => n \in DOMAIN nodes /\ nodes'[n] = nodes[n]
  BY RowsStay DEF IInv, TypeOK, StoreOK, NodeId
<1>2. ASSUME NEW c \in Calls
      PROVE  /\ pc'[c] = "saving" => pc[c] = "saving" \/ Drain(c)
             /\ pc'[c] = "indexingUse" => pc[c] \in {"saving", "indexingUse"}
  <2>1. pc'[c] = pc[c] \/ <<pc[c], pc'[c]>> \in PhaseMoves
    BY <1>1, PhasesMove
  <2>2. pc'[c] = "saving" => pc[c] = "saving" \/ (pc[c] = "streaming" /\ pc'[c] = "saving")
    BY <2>1 DEF PhaseMoves
  <2>3. pc'[c] = "indexingUse" => pc[c] \in {"saving", "indexingUse"}
    BY <2>1 DEF PhaseMoves
  <2> QED BY <1>1, <2>2, <2>3, PhasesMove
<1>3. ASSUME NEW c \in Calls, Drain(c), NEW d \in Calls, d # c
      PROVE  gen'[d] = gen[d] /\ gen'[c].resp.uses \cap gen[d].resp.uses = {}
  <2>1. Step(c)
    BY <1>3 DEF Step, Work
  <2>2. gen'[d] = gen[d]
    BY <1>1, <1>3, <2>1, OthersKeep DEF Own
  <2>3. Delivered(c, gen[c], gen'[c])
    BY <1>3, AnswerGrows
  <2> QED BY <2>2, <2>3, NewUses
<1>4. ASSUME NEW c \in Calls
      PROVE  Drain(c) \/ gen'[c].resp.uses \subseteq gen[c].resp.uses
  <2>1. NoOutcome.uses = {}
    BY DEF NoOutcome
  <2> QED BY <2>1, AnswerGrows DEF Kept, Cleared
<1>5. ASSUME NEW c \in Calls, NEW d \in Calls, c # d
      PROVE  gen'[c].resp.uses \cap gen'[d].resp.uses = {}
  <2>1. gen[c].resp.uses \cap gen[d].resp.uses = {}
    BY <1>5 DEF UsesFresh
  <2>2. CASE Drain(c) \/ Drain(d)
    BY <1>3, <1>5, <2>2
  <2>3. CASE ~ Drain(c) /\ ~ Drain(d)
    BY <1>4, <2>1, <2>3
  <2> QED BY <2>2, <2>3
<1>6. ASSUME NEW c \in Calls, pc'[c] \in {"saving", "indexingUse"}
      PROVE  \/ Drain(c) /\ Delivered(c, gen[c], gen'[c]) /\ nodes' = nodes /\ ask' = ask
                /\ toolIndex' = toolIndex
             \/ /\ gen'[c].resp = gen[c].resp /\ pc[c] \in {"saving", "indexingUse"}
                /\ pc'[c] = "saving" => pc[c] = "saving"
  <2>1. CASE Drain(c)
    BY <2>1, AnswerGrows
  <2>2. CASE ~ Drain(c)
    <3>1. Kept(gen[c], gen'[c])
      BY <1>6, <2>2, AnswerGrows DEF Answering
    <3> QED BY <1>2, <1>6, <2>2, <3>1 DEF Kept
  <2> QED BY <2>1, <2>2
<1>7. ASSUME NEW c \in Calls, pc'[c] = "saving", NEW t \in gen'[c].resp.uses,
             NEW n \in DOMAIN nodes', NEW row, row = nodes'[n]
      PROVE  t \notin UsesIn(row.content) /\ t \notin ResultsIn(row.content)
  <2>1. CASE Drain(c) /\ Delivered(c, gen[c], gen'[c]) /\ nodes' = nodes
    BY <1>7, <2>1, NewUses
  <2>2. CASE gen'[c].resp = gen[c].resp /\ pc[c] = "saving"
    <3>1. /\ t \in gen[c].resp.uses
          /\ \A k \in DOMAIN nodes :
               t \notin UsesIn(nodes[k].content) /\ t \notin ResultsIn(nodes[k].content)
          /\ \A d \in Calls : t \notin ResultsIn(ask[d].msg)
      BY <1>7, <2>2 DEF UsesFresh
    <3>2. CASE n # nextId
      BY <1>1, <1>7, <3>1, <3>2
    <3>3. CASE n = nextId
      <4>1. PICK d \in Calls : RootSays(d, row) \/ UserSays(d, row) \/ AnswerIs(d, row)
        BY <1>7, <3>3, NewRowSays
      <4>2. AnswerIs(d, row) => t \notin gen[d].resp.uses
        <5>1. AnswerIs(d, row) => c # d
          BY <1>7 DEF AnswerIs
        <5> QED BY <3>1, <5>1 DEF UsesFresh
      <4> QED BY <3>1, <4>1, <4>2, NewRowTools
    <3> QED BY <3>2, <3>3
  <2> QED BY <1>6, <1>7, <2>1, <2>2
<1>8. ASSUME NEW c \in Calls, pc'[c] = "saving", NEW t \in gen'[c].resp.uses, NEW d \in Calls
      PROVE  t \notin ResultsIn(ask'[d].msg)
  <2>1. CASE Drain(c) /\ Delivered(c, gen[c], gen'[c]) /\ ask' = ask
    BY <1>8, <2>1, NewUses
  <2>2. CASE gen'[c].resp = gen[c].resp /\ pc[c] = "saving"
    <3>1. /\ \A k \in DOMAIN nodes : t \notin UsesIn(nodes[k].content)
          /\ t \notin ResultsIn(ask[d].msg)
      BY <1>8, <2>2 DEF UsesFresh
    <3>2. CASE PromptFrom(d)
      <4>1. PICK p \in DOMAIN nodes : ask'[d].msg \in Replies(d, p)
        BY <3>2, PathTaken
      <4> QED BY <3>1, <4>1, ReplySays
    <3>3. ResultsIn(<<>>) = {}
      BY DEF ResultsIn, Blocks, ToSet
    <3> QED BY <3>1, <3>2, <3>3, MessageStays
  <2> QED BY <1>6, <1>8, <2>1, <2>2
<1>9. ASSUME NEW c \in Calls, pc'[c] \in {"saving", "indexingUse"}, NEW e \in toolIndex',
             e.role = "use"
      PROVE  e.tool \notin gen'[c].resp.uses
  <2>1. CASE Drain(c) /\ Delivered(c, gen[c], gen'[c]) /\ toolIndex' = toolIndex
    BY <1>9, <2>1, NewUses
  <2>2. CASE gen'[c].resp = gen[c].resp /\ pc[c] \in {"saving", "indexingUse"}
    <3>1. e \in toolIndex => e.tool \notin gen[c].resp.uses
      BY <1>9, <2>2 DEF UsesFresh
    <3>2. ASSUME NEW d \in Calls, IndexUses(d), e \in Entries(last[d], gen[d].resp.uses, "use")
          PROVE  e.tool \notin gen[c].resp.uses
      <4>1. pc'[d] = "closed"
        BY <1>1, <3>2 DEF IndexUses, Goto, TypeOK
      <4>2. d # c /\ e.tool \in gen[d].resp.uses
        BY <1>9, <3>2, <4>1 DEF Entries
      <4> QED BY <4>2 DEF UsesFresh
    <3>3. ASSUME NEW d \in Calls PROVE e \notin Entries(ask[d].user, ResultsIn(ask[d].msg), "result")
      BY <1>9 DEF Entries
    <3> QED BY <1>9, <2>2, <3>1, <3>2, <3>3, IndexGrows
  <2> QED BY <1>6, <1>9, <2>1, <2>2
<1>10. ASSUME NEW e \in toolIndex', NEW f \in toolIndex', e.role = "use", f.role = "use",
              e.tool = f.tool
       PROVE  e = f
  <2>1. e \in toolIndex /\ f \in toolIndex => e = f
    BY <1>10 DEF UsesFresh
  <2>2. CASE \E d \in Calls : IndexUses(d)
                /\ toolIndex' = toolIndex \cup Entries(last[d], gen[d].resp.uses, "use")
    <3>1. PICK d \in Calls : IndexUses(d)
                /\ toolIndex' = toolIndex \cup Entries(last[d], gen[d].resp.uses, "use")
      BY <2>2
    <3>2. pc[d] = "indexingUse"
      BY <3>1 DEF IndexUses, Goto
    <3>3. \A k \in toolIndex : k.role = "use" => k.tool \notin gen[d].resp.uses
      BY <3>2 DEF UsesFresh
    <3>4. \A k \in Entries(last[d], gen[d].resp.uses, "use") :
            k.tool \in gen[d].resp.uses /\ k = [node |-> last[d], tool |-> k.tool, role |-> "use"]
      BY DEF Entries
    <3> QED BY <1>10, <2>1, <3>1, <3>3, <3>4
  <2>3. ASSUME NEW d \in Calls, NEW k \in Entries(ask[d].user, ResultsIn(ask[d].msg), "result")
        PROVE  k.role = "result"
    BY <2>3 DEF Entries
  <2> QED BY <1>10, <2>1, <2>2, <2>3, IndexGrows
<1> QED BY <1>5, <1>7, <1>8, <1>9, <1>10 DEF UsesFresh

\* The message of a call that found its path stays, or was just written.
LEMMA FoundStays ==
  ASSUME IInv, AskHeld, [Next]_vars, NEW c \in Calls, pc'[c] = "found"
  PROVE  \/ /\ pc[c] = "found" /\ ask'[c].msg = ask[c].msg /\ ask'[c].target = ask[c].target
            /\ ask'[c].anc = ask[c].anc
         \/ /\ PromptFrom(c) /\ nodes' = nodes /\ ask'[c].target \in DOMAIN nodes
            /\ ResultsIn(ask'[c].msg) \subseteq UsesIn(nodes[ask'[c].target].content)
            /\ \A d \in Calls : d # c => UNCHANGED Own(d)
<1>1. TypeOK /\ ask'[c] # NoAsk
  <2>1. AskHeld'
    BY NextHeld
  <2> QED BY <2>1 DEF AskHeld, IInv
<1>2. CASE PromptFrom(c)
  <2>1. PICK p \in DOMAIN nodes : \E m \in Replies(c, p) :
          ask'[c].target = p /\ ask'[c].msg = m /\ nodes' = nodes
    BY <1>2, PathTaken
  <2>2. ResultsIn(ask'[c].msg) \subseteq UsesIn(nodes[p].content)
    BY <2>1, ReplySays
  <2>3. Step(c)
    BY <1>2 DEF Step
  <2> QED BY <1>1, <1>2, <2>1, <2>2, <2>3, OthersKeep
<1>3. CASE ~ PromptFrom(c)
  <2>1. /\ ask'[c].msg = ask[c].msg /\ ask'[c].target = ask[c].target
        /\ ask'[c].anc = ask[c].anc
    BY <1>1, <1>3, AskStays DEF Asking
  <2>2. pc[c] = "found"
    <3>1. pc'[c] = pc[c] \/ <<pc[c], pc'[c]>> \in PhaseMoves
      BY <1>1, PhasesMove
    <3>2. pc[c] \in {"idle", "found"}
      BY <3>1 DEF PhaseMoves
    <3> QED BY <1>1, <1>3, <3>2, PhasesMove
  <2> QED BY <2>1, <2>2
<1> QED BY <1>2, <1>3

\* Answers about to be stored keep hanging below the use they answer.
LEMMA NextAnswersFit ==
  IInv /\ AskHeld /\ Pieces /\ Messages /\ UsesFresh /\ Table /\ AnswersFit /\ [Next]_vars
    => AnswersFit'
<1> SUFFICES ASSUME IInv, AskHeld, Pieces, Messages, UsesFresh, Table, AnswersFit, [Next]_vars,
                    NEW c \in Calls, pc'[c] = "found", NEW t \in ResultsIn(ask'[c].msg),
                    NEW p, p = ask'[c].target
             PROVE  /\ \A m \in DOMAIN nodes' : t \in UsesIn(nodes'[m].content) => m = p
                    /\ \A n \in DOMAIN nodes' :
                         t \in ResultsIn(nodes'[n].content) => nodes'[n].parent = p
                    /\ \A d \in Calls : pc'[d] = "found" /\ t \in ResultsIn(ask'[d].msg) =>
                         ask'[d].target = p
  BY DEF AnswersFit
<1>1. /\ nextId \notin DOMAIN nodes
      /\ \A n \in DOMAIN nodes' : n # nextId => n \in DOMAIN nodes /\ nodes'[n] = nodes[n]
  BY RowsStay DEF IInv, TypeOK, StoreOK, NodeId
<1>2. CASE /\ pc[c] = "found" /\ ask'[c].msg = ask[c].msg /\ ask'[c].target = ask[c].target
  <2>1. /\ \A m \in DOMAIN nodes : t \in UsesIn(nodes[m].content) => m = p
        /\ \A n \in DOMAIN nodes : t \in ResultsIn(nodes[n].content) => nodes[n].parent = p
        /\ \A d \in Calls : pc[d] = "found" /\ t \in ResultsIn(ask[d].msg) => ask[d].target = p
    BY <1>2 DEF AnswersFit
  <2>2. ASSUME nextId \in DOMAIN nodes', NEW row, row = nodes'[nextId]
        PROVE  t \notin UsesIn(row.content) /\ (t \in ResultsIn(row.content) => row.parent = p)
    <3>1. PICK d \in Calls : RootSays(d, row) \/ UserSays(d, row) \/ AnswerIs(d, row)
      BY <2>2, NewRowSays
    <3>2. CASE RootSays(d, row)
      BY <3>2, NewRowTools
    <3>3. CASE UserSays(d, row)
      BY <2>1, <3>3, NewRowTools DEF UserSays
    <3>4. CASE AnswerIs(d, row)
      <4>1. t \notin gen[d].resp.uses
        BY <1>2, <3>4 DEF AnswerIs, UsesFresh
      <4> QED BY <3>4, <4>1, NewRowTools
    <3> QED BY <3>1, <3>2, <3>3, <3>4
  <2>3. ASSUME NEW d \in Calls, pc'[d] = "found", t \in ResultsIn(ask'[d].msg)
        PROVE  ask'[d].target = p
    <3>1. CASE pc[d] = "found" /\ ask'[d].msg = ask[d].msg /\ ask'[d].target = ask[d].target
      BY <2>1, <2>3, <3>1
    <3>2. CASE /\ ask'[d].target \in DOMAIN nodes
               /\ ResultsIn(ask'[d].msg) \subseteq UsesIn(nodes[ask'[d].target].content)
      BY <2>1, <2>3, <3>2
    <3> QED BY <2>3, <3>1, <3>2, FoundStays
  <2> QED BY <1>1, <2>1, <2>2, <2>3
<1>3. CASE /\ nodes' = nodes /\ p \in DOMAIN nodes
           /\ ResultsIn(ask'[c].msg) \subseteq UsesIn(nodes[p].content)
           /\ \A d \in Calls : d # c => UNCHANGED Own(d)
  <2>1. t \in UsesIn(nodes[p].content)
    BY <1>3
  <2>2. ASSUME NEW m \in DOMAIN nodes, t \in UsesIn(nodes[m].content) PROVE m = p
    <3>1. PICK b \in ToSet(nodes[m].content) : b.kind = "use" /\ b.from = t
      BY <2>2, ToolsSaid
    <3>2. PICK k \in ToSet(nodes[p].content) : k.kind = "use" /\ k.from = t
      BY <2>1, ToolsSaid
    <3>3. b = Use(t) /\ k = Use(t)
      <4>1. \A n \in DOMAIN nodes : \A j \in ToSet(nodes[n].content) :
              j.kind = "use" => j = Use(j.from)
        <5>1. \A n \in DOMAIN nodes : RowShape(nodes[n]) /\ nodes[n].type \in {"user", "assistant"}
          BY DEF Table, RowsGood, IInv, TypeOK, StoreOK, RowType
        <5> QED BY <5>1 DEF RowShape, UserBlock, AnswerBlock
      <4> QED BY <1>3, <3>1, <3>2, <4>1
    <3>4. b \in ToSet(nodes[m].content) \cap ToSet(nodes[p].content)
      BY <3>1, <3>2, <3>3
    <3> QED BY <1>3, <3>1, <3>4 DEF Table, RowsGood, SaidOnce
  <2>3. ASSUME NEW n \in DOMAIN nodes, t \in ResultsIn(nodes[n].content)
        PROVE  nodes[n].parent = p
    BY <1>3, <2>1, <2>3 DEF Table, RowsGood, ResultsBelow
  <2>4. ASSUME NEW d \in Calls, pc'[d] = "found", t \in ResultsIn(ask'[d].msg)
        PROVE  ask'[d].target = p
    <3>1. CASE d = c
      BY <3>1
    <3>2. CASE d # c
      <4>1. pc[d] = "found" /\ ask'[d] = ask[d]
        BY <1>3, <2>4, <3>2 DEF Own
      <4> QED BY <1>3, <2>1, <2>4, <4>1 DEF AnswersFit
    <3> QED BY <3>1, <3>2
  <2> QED BY <1>3, <2>2, <2>3, <2>4
<1> QED BY <1>2, <1>3, FoundStays

\* The table stays in order.
LEMMA NextTable ==
  IInv /\ GroupsFresh /\ Pieces /\ Messages /\ TextFresh /\ UsesFresh /\ AnswersFit /\ Table
    /\ [Next]_vars => Table'
<1> SUFFICES ASSUME IInv, GroupsFresh, Pieces, Messages, TextFresh, UsesFresh, AnswersFit, Table,
                    [Next]_vars, NEW rows, rows = nodes'
             PROVE  RowsGood(rows)
  BY DEF Table
<1>1. /\ nextId \notin DOMAIN nodes /\ DOMAIN nodes \subseteq 1 .. nextId - 1
      /\ \A n \in DOMAIN rows : n # nextId => n \in DOMAIN nodes /\ rows[n] = nodes[n]
  BY RowsStay DEF IInv, TypeOK, StoreOK, NodeId
<1>2. /\ \A n \in DOMAIN nodes : nodes[n].id = n /\ RowShape(nodes[n])
      /\ SaidOnce(nodes) /\ ResultsBelow(nodes) /\ UsesEndGroup(nodes)
  BY DEF Table, RowsGood
<1>3. ASSUME nextId \in DOMAIN rows, NEW row, row = rows[nextId]
      PROVE  /\ row.id = nextId /\ RowShape(row)
             /\ \A n \in DOMAIN nodes : \A b \in ToSet(row.content) \cap ToSet(nodes[n].content) :
                  \/ b.kind = "text" /\ b.n >= 1 /\ row.group = b.from /\ nodes[n].group = b.from
                  \/ b.kind = "result" /\ row.parent = nodes[n].parent
             /\ \A n \in DOMAIN nodes : \A t \in UsesIn(row.content) :
                  t \notin ResultsIn(nodes[n].content)
             /\ \A n \in DOMAIN nodes : \A t \in ResultsIn(row.content) :
                  t \in UsesIn(nodes[n].content) => row.parent = n
             /\ UsesIn(row.content) = {} \/ ResultsIn(row.content) = {}
             /\ \A n \in DOMAIN nodes :
                  nodes[n].group = row.group /\ row.group # NoGroup =>
                    UsesIn(nodes[n].content) = {}
  <2>1. row.id = nextId
    BY <1>3, NewRowSays
  <2>2. PICK c \in Calls : RootSays(c, row) \/ UserSays(c, row) \/ AnswerIs(c, row)
    BY <1>3, NewRowSays
  <2>3. CASE RootSays(c, row)
    <3>1. RowShape(row) /\ UsesIn(row.content) = {} /\ ResultsIn(row.content) = {}
          /\ row.group = NoGroup /\ pc[c] = "idle"
          /\ \A b \in ToSet(row.content) : b = Text(c, 0)
      BY <2>3, NewRowBlocks, NewRowTools DEF RootSays
    <3>2. \A n \in DOMAIN nodes : Text(c, 0) \notin ToSet(nodes[n].content)
      BY <3>1 DEF TextFresh, Text
    <3> QED BY <2>1, <3>1, <3>2
  <2>4. CASE UserSays(c, row)
    <3>1. RowShape(row) /\ UsesIn(row.content) = {} /\ ResultsIn(row.content) = ResultsIn(ask[c].msg)
          /\ row.group = NoGroup /\ pc[c] = "found" /\ row.parent = ask[c].target
          /\ \A b \in ToSet(row.content) : UserBlock(b) /\ (b.kind = "text" => b.from = c)
      BY <2>4, NewRowBlocks, NewRowTools DEF UserSays
    <3>2. ASSUME NEW n \in DOMAIN nodes, NEW b \in ToSet(row.content) \cap ToSet(nodes[n].content)
          PROVE  b.kind = "result" /\ row.parent = nodes[n].parent
      <4>1. b.kind # "text"
        <5>1. b.kind = "text" => b.from = c /\ b.n = 0
          BY <3>1 DEF UserBlock
        <5>2. b.kind = "text" => b.n # 0
          BY <3>1, <5>1 DEF TextFresh
        <5> QED BY <5>1, <5>2
      <4>2. b.kind = "result"
        BY <3>1, <4>1 DEF UserBlock
      <4>3. b.from \in ResultsIn(row.content) /\ b.from \in ResultsIn(nodes[n].content)
        BY <4>2 DEF ResultsIn, Blocks
      <4> QED BY <3>1, <4>2, <4>3 DEF AnswersFit
    <3>3. \A n \in DOMAIN nodes : \A t \in ResultsIn(row.content) :
             t \in UsesIn(nodes[n].content) => row.parent = n
      BY <3>1 DEF AnswersFit
    <3> QED BY <2>1, <3>1, <3>2, <3>3
  <2>5. CASE AnswerIs(c, row)
    <3>1. /\ RowShape(row) /\ UsesIn(row.content) \subseteq gen[c].resp.uses
          /\ ResultsIn(row.content) = {} /\ pc[c] = "saving" /\ pc[c] \in Answering
          /\ row.group = gen[c].group /\ row.group \in {NoGroup, c}
          /\ \A b \in ToSet(row.content) :
               \/ b.kind = "text" /\ b.from = c /\ b.n >= 1
               \/ \E t \in gen[c].resp.uses : b = Use(t)
      BY <2>5, NewRowBlocks, NewRowTools DEF AnswerIs, Answering
    <3>2. \A t \in gen[c].resp.uses : \A n \in DOMAIN nodes :
            t \notin UsesIn(nodes[n].content) /\ t \notin ResultsIn(nodes[n].content)
      BY <3>1 DEF UsesFresh
    <3>3. ASSUME NEW n \in DOMAIN nodes, NEW b \in ToSet(row.content) \cap ToSet(nodes[n].content)
          PROVE  b.kind = "text" /\ b.n >= 1 /\ row.group = b.from /\ nodes[n].group = b.from
      <4>1. CASE b.kind = "text" /\ b.from = c /\ b.n >= 1
        <5>1. b.n # 0
          BY <4>1
        <5>2. nodes[n].group = c /\ gen[c].group = c
          BY <3>1, <4>1, <5>1 DEF TextFresh
        <5> QED BY <3>1, <4>1, <5>2
      <4>2. ASSUME NEW t \in gen[c].resp.uses, b = Use(t) PROVE FALSE
        <5>1. b.kind = "use" /\ b.from = t
          BY <4>2 DEF Use
        <5>2. t \in UsesIn(nodes[n].content)
          BY <5>1 DEF UsesIn, Blocks
        <5> QED BY <3>2, <5>2
      <4> QED BY <3>1, <4>1, <4>2
    <3>4. ASSUME NEW n \in DOMAIN nodes, nodes[n].group = row.group, row.group # NoGroup
          PROVE  UsesIn(nodes[n].content) = {}
      <4>1. n \in GroupNodes(c)
        BY <3>1, <3>4 DEF GroupNodes
      <4> QED BY <3>1, <4>1 DEF TextFresh
    <3> QED BY <2>1, <3>1, <3>2, <3>3, <3>4
  <2> QED BY <2>2, <2>3, <2>4, <2>5
<1>4. \A n \in DOMAIN rows : rows[n].id = n /\ RowShape(rows[n])
  BY <1>1, <1>2, <1>3
<1>5. SaidOnce(rows)
  <2> SUFFICES ASSUME NEW m \in DOMAIN rows, NEW n \in DOMAIN rows,
                      NEW b \in ToSet(rows[m].content) \cap ToSet(rows[n].content), m # n
               PROVE  \/ b.kind = "text" /\ b.n >= 1 /\ rows[m].group = b.from /\ rows[n].group = b.from
                      \/ b.kind = "result" /\ rows[m].parent = rows[n].parent
    BY DEF SaidOnce
  <2>1. CASE m # nextId /\ n # nextId
    BY <1>1, <1>2, <2>1 DEF SaidOnce
  <2>2. CASE m = nextId
    BY <1>1, <1>3, <2>2
  <2>3. CASE n = nextId
    BY <1>1, <1>3, <2>3
  <2> QED BY <2>1, <2>2, <2>3
<1>6. ResultsBelow(rows)
  <2> SUFFICES ASSUME NEW m \in DOMAIN rows, NEW n \in DOMAIN rows,
                      NEW t, t \in UsesIn(rows[m].content), t \in ResultsIn(rows[n].content)
               PROVE  rows[n].parent = m
    BY DEF ResultsBelow
  <2>1. CASE m # nextId /\ n # nextId
    BY <1>1, <1>2, <2>1 DEF ResultsBelow
  <2>2. CASE m = nextId /\ n # nextId
    BY <1>1, <1>3, <2>2
  <2>3. CASE m # nextId /\ n = nextId
    BY <1>1, <1>3, <2>3
  <2>4. CASE m = nextId /\ n = nextId
    BY <1>3, <2>4
  <2> QED BY <2>1, <2>2, <2>3, <2>4
<1>7. UsesEndGroup(rows)
  <2> SUFFICES ASSUME NEW m \in DOMAIN rows, NEW n \in DOMAIN rows,
                      rows[m].group = rows[n].group, rows[m].group # NoGroup,
                      UsesIn(rows[m].content) # {}
               PROVE  n <= m
    BY DEF UsesEndGroup
  <2>1. CASE m # nextId /\ n # nextId
    BY <1>1, <1>2, <2>1 DEF UsesEndGroup
  <2>2. CASE m = nextId
    <3>1. nextId \in Nat /\ (n = nextId \/ n \in 1 .. nextId - 1)
      BY <1>1 DEF IInv, TypeOK, StoreOK, NodeId
    <3> QED BY <2>2, <3>1
  <2>3. CASE m # nextId /\ n = nextId
    BY <1>1, <1>3, <2>3
  <2> QED BY <2>1, <2>2, <2>3
<1> QED BY <1>4, <1>5, <1>6, <1>7 DEF RowsGood

-----------------------------------------------------------------------------
(***************************************************************************)
(* What a call read.                                                       *)
(***************************************************************************)

\* Of two text-only rows of a group the later one says what the earlier says.
TextsNest(rows) ==
  \A m \in DOMAIN rows : \A n \in DOMAIN rows :
    /\ rows[m].group = rows[n].group /\ rows[m].group # NoGroup /\ m < n
    /\ UsesIn(rows[m].content) = {} /\ UsesIn(rows[n].content) = {}
    => ToSet(rows[m].content) \subseteq ToSet(rows[n].content)

\* The path is a chain of such rows, and the message repeats none of them.
HeldPaths ==
  \A c \in Calls : Asked(c) =>
    LET a == ask[c].anc IN
    /\ Chain(a, ask[c].target) /\ RowsGood(a) /\ TextsNest(a)
    /\ \A n \in DOMAIN a : ToSet(a[n].content) \cap ToSet(ask[c].msg) = {}

\* An orphaned tool use is found once.
OrphansOnce ==
  \A c \in Calls : \A e \in ask[c].orphans : \A f \in ask[c].orphans : e.tool = f.tool => e = f

PieceInv ==
  /\ Table /\ Pieces /\ Messages /\ TextFresh /\ UsesFresh /\ AnswersFit
  /\ HeldPaths /\ OrphansOnce

\* Part of a table in order is in order.
LEMMA PartGood ==
  ASSUME NEW rows, NEW S \in SUBSET DOMAIN rows, RowsGood(rows),
         NEW a, a = [m \in S |-> rows[m]]
  PROVE  RowsGood(a)
<1>1. DOMAIN a = S /\ \A m \in S : a[m] = rows[m] /\ m \in DOMAIN rows
  OBVIOUS
<1>2. /\ \A n \in DOMAIN rows : rows[n].id = n /\ RowShape(rows[n])
      /\ SaidOnce(rows) /\ ResultsBelow(rows) /\ UsesEndGroup(rows)
  BY DEF RowsGood
<1> HIDE DEF RowsGood
<1>3. SaidOnce(a)
  BY <1>1, <1>2 DEF SaidOnce
<1>4. ResultsBelow(a)
  BY <1>1, <1>2 DEF ResultsBelow
<1>5. UsesEndGroup(a)
  BY <1>1, <1>2 DEF UsesEndGroup
<1>6. \A n \in DOMAIN a : a[n].id = n /\ RowShape(a[n])
  BY <1>1, <1>2
<1> QED BY <1>3, <1>4, <1>5, <1>6 DEF RowsGood

\* A prefix says nothing more.
LEMMA PrefixSays ==
  ASSUME NEW T, NEW s \in Seq(T), NEW t \in Seq(T), IsPrefix(s, t)
  PROVE  ToSet(s) \subseteq ToSet(t)
  BY DEF IsPrefix, ToSet

\* The groups of the store nest.
LEMMA StoreNests ==
  ASSUME IInv, TextGroupSelfContained
  PROVE  TextsNest(nodes)
<1> SUFFICES ASSUME NEW m \in DOMAIN nodes, NEW n \in DOMAIN nodes,
                    nodes[m].group = nodes[n].group, nodes[m].group # NoGroup, m < n,
                    UsesIn(nodes[m].content) = {}, UsesIn(nodes[n].content) = {}
             PROVE  ToSet(nodes[m].content) \subseteq ToSet(nodes[n].content)
  BY DEF TextsNest
<1>1. /\ nodes[m].content \in Seq(BlockType) /\ nodes[n].content \in Seq(BlockType)
      /\ nodes[m].group \in Calls
  BY DEF IInv, TypeOK, StoreOK, RowType
<1>2. m \in GroupNodes(nodes[m].group) /\ n \in GroupNodes(nodes[m].group)
  BY DEF GroupNodes
<1>3. Blocks(nodes[m].content, "use") = {} /\ Blocks(nodes[n].content, "use") = {}
  BY DEF UsesIn
<1>4. IsPrefix(nodes[m].content, nodes[n].content)
  BY <1>1, <1>2, <1>3 DEF TextGroupSelfContained
<1> QED BY <1>1, <1>4, PrefixSays

\* What a call reads is so, and stays as it was read.
LEMMA NextHeldPaths ==
  IInv /\ AskHeld /\ TextGroupSelfContained /\ PieceInv /\ [Next]_vars => HeldPaths'
<1> SUFFICES ASSUME IInv, AskHeld, TextGroupSelfContained, PieceInv, [Next]_vars,
                    NEW c \in Calls, pc'[c] \in Asking, ask'[c] # NoAsk,
                    NEW a, a = ask'[c].anc, NEW t, t = ask'[c].target, NEW m, m = ask'[c].msg
             PROVE  /\ Chain(a, t) /\ RowsGood(a) /\ TextsNest(a)
                    /\ \A n \in DOMAIN a : ToSet(a[n].content) \cap ToSet(m) = {}
  BY DEF HeldPaths, Asked
<1>1. CASE PromptFrom(c)
  <2>1. PICK p \in DOMAIN nodes : m \in Replies(c, p) /\ a = GetAncestors(p) /\ t = p /\ pc[c] = "idle"
    BY <1>1, PathTaken
  <2>2. Chain(a, t)
    BY <2>1, PathIsChain
  <2>3. /\ AncestorIds(p) \in SUBSET DOMAIN nodes
        /\ \A n \in AncestorIds(p) : nodes[n].seq <= nodes[p].seq /\ nodes[n].seq \in Nat
    BY PathEndsInTarget DEF IInv, TypeOK, TreeInv, StoreOK, RowType
  <2>4. a = [n \in AncestorIds(p) |-> nodes[n]]
    BY <2>1 DEF GetAncestors
  <2>5. RowsGood(a)
    BY <2>3, <2>4, PartGood DEF PieceInv, Table
  <2>6. TextsNest(a)
    <3>1. DOMAIN a = AncestorIds(p) /\ \A n \in DOMAIN a : n \in DOMAIN nodes /\ a[n] = nodes[n]
      BY <2>3, <2>4
    <3> QED BY <3>1, StoreNests DEF TextsNest
  <2>7. ASSUME NEW n \in AncestorIds(p), NEW b \in ToSet(nodes[n].content), b \in ToSet(m)
        PROVE  FALSE
    <3>1. UserBlock(b) /\ (b.kind = "text" => b.from = c)
      BY <2>1, <2>7, ReplySays
    <3>2. n \in DOMAIN nodes
      BY <2>3
    <3>3. CASE b.kind = "text"
      BY <2>1, <2>7, <3>1, <3>2, <3>3 DEF PieceInv, TextFresh, UserBlock
    <3>4. CASE b.kind = "result"
      <4>1. b.from \in ResultsIn(m) /\ b.from \in ResultsIn(nodes[n].content)
        BY <2>7, <3>4 DEF ResultsIn, Blocks
      <4>2. b.from \in UsesIn(nodes[p].content)
        BY <2>1, <4>1, ReplySays
      <4>3. nodes[n].parent = p
        BY <3>2, <4>1, <4>2 DEF PieceInv, Table, RowsGood, ResultsBelow
      <4>4. nodes[n].seq = nodes[p].seq + 1
        BY <3>2, <4>3 DEF IInv, TreeInv, ChildFollowsParent
      <4>5. nodes[p].seq \in Nat /\ nodes[n].seq <= nodes[p].seq
        BY <2>3 DEF IInv, TypeOK, StoreOK, RowType
      <4> QED BY <4>4, <4>5
    <3> QED BY <3>1, <3>3, <3>4 DEF UserBlock
  <2>8. \A n \in DOMAIN a : ToSet(a[n].content) \cap ToSet(m) = {}
    BY <2>4, <2>7
  <2> QED BY <2>2, <2>5, <2>6, <2>8
<1>2. CASE Asked(c) /\ a = ask[c].anc /\ t = ask[c].target /\ m = ask[c].msg
  BY <1>2 DEF PieceInv, HeldPaths
<1> QED BY <1>1, <1>2, AskStays

\* Orphans are uses of the index, in which a tool has one use.
LEMMA NextOrphansOnce == IInv /\ PieceInv /\ [Next]_vars => OrphansOnce'
<1> SUFFICES ASSUME IInv, PieceInv, [Next]_vars, NEW c \in Calls,
                    NEW e \in ask'[c].orphans, NEW f \in ask'[c].orphans, e.tool = f.tool
             PROVE  e = f
  BY DEF OrphansOnce
<1>1. CASE ask'[c].orphans = ask[c].orphans
  BY <1>1 DEF PieceInv, OrphansOnce
<1>2. CASE ask'[c].orphans = GetOrphanedToolUses(PathIds(c))
  <2>1. e \in toolIndex /\ f \in toolIndex /\ e.role = "use" /\ f.role = "use"
    BY <1>2 DEF GetOrphanedToolUses
  <2> QED BY <2>1 DEF PieceInv, UsesFresh
<1> QED BY <1>1, <1>2, OrphansFound

\* All of it goes on.
LEMMA NextPiece ==
  FreshToolIds /\ IInv /\ AskHeld /\ GroupsFresh /\ TextGroupSelfContained /\ PieceInv
    /\ [Next]_vars => PieceInv'
<1> SUFFICES ASSUME FreshToolIds, IInv, AskHeld, GroupsFresh, TextGroupSelfContained, PieceInv,
                    [Next]_vars
             PROVE  PieceInv'
  OBVIOUS
<1>1. Table /\ Pieces /\ Messages /\ TextFresh /\ UsesFresh /\ AnswersFit
  BY DEF PieceInv
<1>2. Table' /\ Pieces' /\ Messages' /\ TextFresh' /\ UsesFresh' /\ AnswersFit'
  BY <1>1, NextTable, NextPieces, NextMessages, NextTextFresh, NextUsesFresh, NextAnswersFit
<1>3. HeldPaths' /\ OrphansOnce'
  BY NextHeldPaths, NextOrphansOnce
<1> QED BY <1>2, <1>3 DEF PieceInv

\* At the start nothing is said.
LEMMA InitPiece == Init => PieceInv
<1> SUFFICES ASSUME Init PROVE PieceInv
  OBVIOUS
<1>1. /\ DOMAIN nodes = {} /\ toolIndex = {}
      /\ \A c \in Calls : pc[c] = "idle" /\ ask[c] = NoAsk /\ gen[c] = NoGen
  BY DEF Init, StoreInit
<1>2. \A c \in Calls : ask[c].msg = <<>> /\ ask[c].orphans = {} /\ gen[c].acc = <<>>
        /\ gen[c].resp.uses = {}
  BY <1>1 DEF NoAsk, NoGen, NoOutcome
<1>3. ToSet(<<>>) = {} /\ IsInjective(<<>>) /\ ResultsIn(<<>>) = {}
  BY DEF ToSet, IsInjective, ResultsIn, Blocks
<1>4. Table
  BY <1>1 DEF Table, RowsGood, SaidOnce, ResultsBelow, UsesEndGroup
<1>5. Pieces /\ Messages
  BY <1>1, <1>2, <1>3 DEF Pieces, Messages
<1>6. TextFresh
  BY <1>1 DEF TextFresh, Answering
<1>7. UsesFresh
  BY <1>1, <1>2 DEF UsesFresh
<1>8. AnswersFit /\ HeldPaths /\ OrphansOnce
  BY <1>1, <1>2 DEF AnswersFit, HeldPaths, OrphansOnce, Asked
<1> QED BY <1>4, <1>5, <1>6, <1>7, <1>8 DEF PieceInv

-----------------------------------------------------------------------------
(***************************************************************************)
(* All that the messages say, one after the other.                         *)
(***************************************************************************)

\* FlattenSeq, up to each place.
FlattenBy(seqs) ==
  LET flatten[i \in 1 .. Len(seqs)] ==
        IF i = 1 THEN seqs[i] ELSE flatten[i-1] \o seqs[i]
  IN  flatten

\* It satisfies its recursive definition: there is no least length up to
\* which no function does.
LEMMA FlattenByDef ==
  ASSUME NEW seqs, Len(seqs) \in Nat
  PROVE  FlattenBy(seqs) = [i \in 1 .. Len(seqs) |->
                              IF i = 1 THEN seqs[i] ELSE FlattenBy(seqs)[i - 1] \o seqs[i]]
<1> DEFINE N == Len(seqs)
           By(g, n) == g = [i \in 1 .. n |-> IF i = 1 THEN seqs[i] ELSE g[i - 1] \o seqs[i]]
           None == {n \in 0 .. N : ~ \E g : By(g, n)}
<1>1. None = {}
  <2> SUFFICES ASSUME None # {} PROVE FALSE
    OBVIOUS
  <2>1. PICK n \in None : \A k \in None : n <= k
    <3> HIDE DEF By
    <3>1. None \subseteq Nat
      OBVIOUS
    <3> HIDE DEF None
    <3> QED BY <3>1, LeastNatural
  <2>2. n # 0
    <3>1. \A i \in 1 .. 0 : FALSE
      <4>1. \A i \in Int : ~ (1 <= i /\ i <= 0)
        OBVIOUS
      <4> QED BY <4>1
    <3>2. PICK g : g = [i \in 1 .. 0 |-> <<>>]
      OBVIOUS
    <3>3. g = [i \in 1 .. 0 |-> IF i = 1 THEN seqs[i] ELSE g[i - 1] \o seqs[i]]
      <4>1. \A i \in 1 .. 0 : <<>> = IF i = 1 THEN seqs[i] ELSE g[i - 1] \o seqs[i]
        BY <3>1
      <4> QED BY <3>2, <4>1
    <3>4. By(g, 0)
      BY <3>3
    <3> HIDE DEF By
    <3> QED BY <3>4
  <2>3. n - 1 \in 0 .. N /\ n - 1 \notin None
    <3>1. n \in 0 .. N
      BY <2>1
    <3>2. \A k \in None : n <= k
      BY <2>1
    <3> HIDE DEF None
    <3> QED BY <2>2, <3>1, <3>2
  <2>4. PICK g : By(g, n - 1)
    BY <2>3
  <2> DEFINE h == [i \in 1 .. n |->
                     IF i = n THEN (IF n = 1 THEN seqs[n] ELSE g[n - 1] \o seqs[n]) ELSE g[i]]
  <2>5. n \in 1 .. N
    BY <2>1, <2>2
  <2>6. By(h, n)
    <3>1. \A i \in 1 .. n - 1 : g[i] = IF i = 1 THEN seqs[i] ELSE g[i - 1] \o seqs[i]
      BY <2>4
    <3>2. \A i \in 1 .. n : i # n => i \in 1 .. n - 1 /\ (i # 1 => i - 1 \in 1 .. n /\ i - 1 # n)
      BY <2>5
    <3>3. n # 1 => n - 1 \in 1 .. n /\ n - 1 # n
      BY <2>5
    <3>4. \A i \in 1 .. n : h[i] = IF i = 1 THEN seqs[i] ELSE h[i - 1] \o seqs[i]
      BY <2>5, <3>1, <3>2, <3>3
    <3> QED BY <3>4
  <2> HIDE DEF By
  <2> QED BY <2>1, <2>6
<1>2. \E g : By(g, N)
  <2>1. N \in 0 .. N
    OBVIOUS
  <2> HIDE DEF By
  <2> QED BY <1>1, <2>1
<1>3. By(CHOOSE g : By(g, N), N)
  BY <1>2
<1> QED BY <1>3 DEF FlattenBy

\* What FlattenSeq makes of sequences of sequences, place by place.
LEMMA FlattenedBy ==
  ASSUME NEW T, NEW seqs \in Seq(Seq(T))
  PROVE  /\ Len(seqs) \in Nat
         /\ FlattenSeq(seqs) = IF Len(seqs) = 0 THEN <<>> ELSE FlattenBy(seqs)[Len(seqs)]
         /\ Len(seqs) >= 1 => FlattenBy(seqs)[1] = seqs[1]
         /\ \A i \in 2 .. Len(seqs) : FlattenBy(seqs)[i] = FlattenBy(seqs)[i - 1] \o seqs[i]
         /\ \A i \in 1 .. Len(seqs) : FlattenBy(seqs)[i] \in Seq(T)
<1> DEFINE F == FlattenBy(seqs)
           N == Len(seqs)
<1>1. N \in Nat /\ (N = 0 => seqs = <<>>) /\ \A i \in 1 .. N : seqs[i] \in Seq(T)
  OBVIOUS
<1>2. F = [i \in 1 .. N |-> IF i = 1 THEN seqs[i] ELSE F[i - 1] \o seqs[i]]
  BY <1>1, FlattenByDef
<1>3. FlattenSeq(seqs) = IF N = 0 THEN <<>> ELSE F[N]
  BY <1>1 DEF FlattenSeq, FlattenBy
<1> HIDE DEF F, N
<1>4. N >= 1 => F[1] = seqs[1]
  <2>1. N >= 1 => 1 \in 1 .. N
    BY <1>1
  <2> QED BY <1>2, <2>1
<1>5. \A i \in 2 .. N : F[i] = F[i - 1] \o seqs[i]
  <2>1. \A i \in 2 .. N : i \in 1 .. N /\ i # 1
    BY <1>1
  <2> QED BY <1>2, <2>1
<1>6. \A i \in 1 .. N : F[i] \in Seq(T)
  <2> DEFINE S == {i \in 0 .. N : i = 0 \/ F[i] \in Seq(T)}
  <2>1. 0 \in S
    BY <1>1
  <2>2. ASSUME NEW i \in 1 .. N, i - 1 \in S PROVE i \in S
    <3>1. i \in 0 .. N /\ (i = 1 \/ (i \in 2 .. N /\ i - 1 # 0)) /\ seqs[i] \in Seq(T)
      BY <1>1
    <3>2. CASE i = 1
      BY <1>1, <1>4, <3>1, <3>2
    <3>3. CASE i \in 2 .. N /\ i - 1 # 0
      <4>1. F[i - 1] \in Seq(T)
        BY <2>2, <3>3
      <4>2. F[i - 1] \o seqs[i] \in Seq(T)
        BY <3>1, <4>1
      <4> QED BY <1>5, <3>1, <3>3, <4>2
    <3> QED BY <3>1, <3>2, <3>3
  <2> HIDE DEF S
  <2>3. 0 .. N \subseteq S
    BY <1>1, <2>1, <2>2, EveryPlace
  <2>4. \A i \in 1 .. N : i \in 0 .. N /\ i # 0
    BY <1>1
  <2> QED BY <2>3, <2>4 DEF S
<1> QED BY <1>1, <1>3, <1>4, <1>5, <1>6 DEF F, N

\* Sequences that agree up to a place are concatenated alike up to there.
LEMMA FlattenAgrees ==
  ASSUME NEW T, NEW s \in Seq(Seq(T)), NEW t \in Seq(Seq(T)), NEW k \in Nat,
         k <= Len(s), k <= Len(t), \A i \in 1 .. k : s[i] = t[i]
  PROVE  \A i \in 1 .. k : FlattenBy(s)[i] = FlattenBy(t)[i]
<1> DEFINE F == FlattenBy(s)
           G == FlattenBy(t)
           S == {i \in 0 .. k : i = 0 \/ F[i] = G[i]}
<1>1. /\ Len(s) >= 1 => F[1] = s[1]
      /\ \A i \in 2 .. Len(s) : F[i] = F[i - 1] \o s[i]
      /\ Len(t) >= 1 => G[1] = t[1]
      /\ \A i \in 2 .. Len(t) : G[i] = G[i - 1] \o t[i]
      /\ Len(s) \in Nat /\ Len(t) \in Nat
  BY FlattenedBy
<1> HIDE DEF F, G
<1>2. ASSUME NEW i \in 1 .. k, i - 1 \in S PROVE i \in S
  <2>1. /\ i \in 0 .. k /\ i \in Nat /\ i - 1 \in 0 .. k
        /\ i = 1 \/ (i \in 2 .. Len(s) /\ i \in 2 .. Len(t) /\ i - 1 # 0)
        /\ Len(s) >= 1 /\ Len(t) >= 1
    BY <1>1
  <2>2. s[i] = t[i]
    OBVIOUS
  <2>3. CASE i = 1
    BY <1>1, <2>1, <2>2, <2>3
  <2>4. CASE i # 1
    <3>1. F[i - 1] = G[i - 1]
      BY <1>2, <2>1, <2>4
    <3> QED BY <1>1, <2>1, <2>2, <2>4, <3>1
  <2> QED BY <2>3, <2>4
<1>3. 0 \in S
  OBVIOUS
<1> HIDE DEF S
<1>4. 0 .. k \subseteq S
  BY <1>2, <1>3, EveryPlace
<1>5. \A i \in 1 .. k : i \in 0 .. k /\ i # 0
  OBVIOUS
<1> QED BY <1>4, <1>5 DEF S, F, G

\* All that messages say.
Contents(messages) == [i \in DOMAIN messages |-> messages[i].content]
AllSaid(messages) == FlattenSeq(Contents(messages))

\* Three contents one after the other.
LEMMA ThreeParts ==
  ASSUME NEW x \in Seq(BlockType), NEW y \in Seq(BlockType), NEW z \in Seq(BlockType)
  PROVE  x \o (y \o z) = (x \o y) \o z
<1> DEFINE l == x \o (y \o z)
           r == (x \o y) \o z
<1>1. x \o y \in Seq(BlockType) /\ y \o z \in Seq(BlockType)
  OBVIOUS
<1>2. l \in Seq(BlockType) /\ r \in Seq(BlockType)
  BY <1>1
<1>3. Len(l) = Len(x) + Len(y) + Len(z) /\ Len(r) = Len(x) + Len(y) + Len(z)
  BY <1>1
<1>4. \A i \in 1 .. Len(l) : l[i] = r[i]
  BY <1>1, <1>3
<1> QED BY <1>2, <1>3, <1>4, SeqEqual

\* Adding content adds it to the end of all that is said.
LEMMA SaidAdded ==
  ASSUME NEW messages \in Seq(Message), NEW role \in {"user", "assistant"},
         NEW content \in Seq(BlockType)
  PROVE  /\ AllSaid(messages) \in Seq(BlockType)
         /\ AllSaid(AddContent(messages, role, content)) = AllSaid(messages) \o content
<1> DEFINE q == AddContent(messages, role, content)
<1>1. q \in Seq(Message) /\ (Merged(messages, role, content, q) \/ Started(messages, role, content, q))
  BY ContentAdded
<1>2. PICK r : r = q
  OBVIOUS
<1> HIDE DEF q
<1> DEFINE M == Contents(messages)
           R == Contents(r)
           n == Len(messages)
<1>3. /\ n \in Nat /\ Len(r) \in Nat /\ M \in Seq(Seq(BlockType)) /\ R \in Seq(Seq(BlockType))
      /\ Len(M) = n /\ Len(R) = Len(r)
      /\ \A i \in 1 .. n : M[i] = messages[i].content /\ M[i] \in Seq(BlockType)
      /\ \A i \in 1 .. Len(r) : R[i] = r[i].content
  <2>1. /\ n \in Nat /\ Len(r) \in Nat /\ DOMAIN messages = 1 .. n /\ DOMAIN r = 1 .. Len(r)
        /\ \A i \in 1 .. n : messages[i].content \in Seq(BlockType)
        /\ \A i \in 1 .. Len(r) : r[i].content \in Seq(BlockType)
    <3>1. r \in Seq(Message)
      BY <1>1, <1>2
    <3>2. \A x \in Message : x.content \in Seq(BlockType)
      BY DEF Message
    <3>3. \A i \in 1 .. Len(r) : r[i] \in Message
      BY <3>1
    <3>4. \A i \in 1 .. n : messages[i] \in Message
      OBVIOUS
    <3> QED BY <3>1, <3>2, <3>3, <3>4
  <2>2. M = [i \in 1 .. n |-> messages[i].content] /\ R = [i \in 1 .. Len(r) |-> r[i].content]
    BY <2>1 DEF Contents
  <2> HIDE DEF M, R
  <2> QED BY <2>1, <2>2
<1> HIDE DEF M, R
<1>4. /\ AllSaid(messages) = IF n = 0 THEN <<>> ELSE FlattenBy(M)[n]
      /\ n >= 1 => FlattenBy(M)[1] = M[1]
      /\ \A i \in 2 .. n : FlattenBy(M)[i] = FlattenBy(M)[i - 1] \o M[i]
      /\ \A i \in 1 .. n : FlattenBy(M)[i] \in Seq(BlockType)
  BY <1>3, FlattenedBy DEF AllSaid, M
<1>5. /\ AllSaid(r) = IF Len(r) = 0 THEN <<>> ELSE FlattenBy(R)[Len(r)]
      /\ Len(r) >= 1 => FlattenBy(R)[1] = R[1]
      /\ \A i \in 2 .. Len(r) : FlattenBy(R)[i] = FlattenBy(R)[i - 1] \o R[i]
  BY <1>3, FlattenedBy DEF AllSaid, R
<1>6. AllSaid(messages) \in Seq(BlockType)
  <2>1. <<>> \in Seq(BlockType)
    OBVIOUS
  <2> QED BY <1>3, <1>4, <2>1
<1>7. CASE Merged(messages, role, content, r)
  <2>1. /\ n >= 1 /\ Len(r) = n
        /\ \A i \in 1 .. n - 1 : r[i] = messages[i]
        /\ r[n].content = messages[n].content \o content
    <3>1. \A x : [role |-> role, content |-> x].content = x
      OBVIOUS
    <3> QED BY <1>7, <3>1 DEF Merged
  <2>2. /\ \A i \in 1 .. n - 1 : R[i] = M[i]
        /\ R[n] = M[n] \o content /\ M[n] \in Seq(BlockType)
    <3>1. n \in 1 .. n /\ \A i \in 1 .. n - 1 : i \in 1 .. n
      BY <1>3, <2>1
    <3> QED BY <1>3, <2>1, <3>1
  <2>3. CASE n = 1
    <3>1. AllSaid(r) = R[1] /\ AllSaid(messages) = M[1]
      BY <1>4, <1>5, <2>1, <2>3
    <3> QED BY <1>2, <1>6, <2>2, <2>3, <3>1 DEF q
  <2>4. CASE n # 1
    <3>1. n - 1 \in Nat /\ n - 1 \in 1 .. n - 1 /\ n - 1 \in 1 .. n /\ n - 1 <= Len(M) /\ n - 1 <= Len(R)
          /\ n \in 2 .. n /\ n \in 2 .. Len(r)
      BY <1>3, <2>1, <2>4
    <3>2. FlattenBy(R)[n - 1] = FlattenBy(M)[n - 1]
      BY <1>3, <2>2, <3>1, FlattenAgrees, ZenonT(60)
    <3>3. PICK f \in Seq(BlockType), m \in Seq(BlockType) : f = FlattenBy(M)[n - 1] /\ m = M[n]
      BY <1>4, <2>2, <3>1
    <3>4. FlattenBy(R)[n] = f \o (m \o content) /\ FlattenBy(M)[n] = f \o m
      BY <1>4, <1>5, <2>1, <2>2, <3>1, <3>2, <3>3
    <3>5. f \o (m \o content) = (f \o m) \o content
      BY ThreeParts
    <3>6. AllSaid(r) = FlattenBy(R)[n] /\ AllSaid(messages) = FlattenBy(M)[n]
      BY <1>3, <1>4, <1>5, <2>1
    <3> QED BY <1>2, <1>6, <3>4, <3>5, <3>6 DEF q
  <2> QED BY <1>2, <1>6, <2>1, <2>2, <2>3, <2>4, <1>4, <1>5 DEF q
<1>8. CASE Started(messages, role, content, r)
  <2>1. /\ Len(r) = n + 1
        /\ \A i \in 1 .. n : r[i] = messages[i]
        /\ r[n + 1].content = content
    BY <1>8 DEF Started
  <2>2. (\A i \in 1 .. n : R[i] = M[i]) /\ R[n + 1] = content
    BY <1>3, <2>1, SMTT(30)
  <2>3. CASE n = 0
    <3>1. AllSaid(r) = content /\ AllSaid(messages) = <<>>
      BY <1>4, <1>5, <2>1, <2>2, <2>3
    <3> QED BY <1>2, <1>6, <3>1 DEF q
  <2>4. CASE n # 0
    <3>1. n \in 1 .. n /\ n + 1 \in 2 .. Len(r) /\ n <= Len(M) /\ n <= Len(R) /\ Len(r) # 0
      BY <1>3, <2>1, <2>4
    <3>2. FlattenBy(R)[n] = FlattenBy(M)[n]
      BY <1>3, <2>2, <3>1, FlattenAgrees, ZenonT(60)
    <3>3. (n + 1) - 1 = n
      BY <1>3
    <3>4. FlattenBy(R)[n + 1] = FlattenBy(R)[n] \o R[n + 1]
      BY <1>5, <3>1, <3>3
    <3>5. AllSaid(r) = FlattenBy(R)[n + 1] /\ AllSaid(messages) = FlattenBy(M)[n]
      BY <1>4, <1>5, <2>1, <2>4, <3>1
    <3> QED BY <1>2, <1>6, <2>2, <3>2, <3>4, <3>5 DEF q
  <2> QED BY <2>3, <2>4
<1> QED BY <1>1, <1>2, <1>7, <1>8

\* Two contents without a common block, each without repetition, have none
\* together.
LEMMA ConcatOnce ==
  ASSUME NEW T, NEW s \in Seq(T), NEW t \in Seq(T), ToSet(s) \cap ToSet(t) = {}
  PROVE  /\ ToSet(s \o t) = ToSet(s) \cup ToSet(t)
         /\ IsInjective(s) /\ IsInjective(t) => IsInjective(s \o t)
<1> DEFINE m == Len(s)
           n == Len(t)
           u == s \o t
<1>1. /\ m \in Nat /\ n \in Nat /\ DOMAIN s = 1 .. m /\ DOMAIN t = 1 .. n
      /\ DOMAIN u = 1 .. m + n
      /\ \A i \in 1 .. m : u[i] = s[i]
      /\ \A i \in m + 1 .. m + n : u[i] = t[i - m] /\ i - m \in 1 .. n
      /\ \A i \in 1 .. n : u[i + m] = t[i] /\ i + m \in 1 .. m + n
      /\ \A i \in 1 .. m : i \in 1 .. m + n
      /\ \A i \in 1 .. m + n : i \in 1 .. m \/ i \in m + 1 .. m + n
  OBVIOUS
<1> HIDE DEF u, m, n
<1>2. ToSet(u) = ToSet(s) \cup ToSet(t)
  <2>1. \A x \in ToSet(u) : x \in ToSet(s) \/ x \in ToSet(t)
    BY <1>1 DEF ToSet
  <2>2. \A x \in ToSet(s) : x \in ToSet(u)
    BY <1>1 DEF ToSet
  <2>3. \A x \in ToSet(t) : x \in ToSet(u)
    BY <1>1 DEF ToSet
  <2> QED BY <2>1, <2>2, <2>3
<1>3. ASSUME IsInjective(s), IsInjective(t), NEW i \in 1 .. m + n, NEW j \in 1 .. m + n, u[i] = u[j]
      PROVE  i = j
  <2>1. \A k \in 1 .. m : \A l \in m + 1 .. m + n : u[k] # u[l]
    BY <1>1 DEF ToSet
  <2>2. CASE i \in 1 .. m /\ j \in 1 .. m
    BY <1>1, <1>3, <2>2 DEF IsInjective
  <2>3. CASE i \in m + 1 .. m + n /\ j \in m + 1 .. m + n
    <3>0. i - m \in DOMAIN t /\ j - m \in DOMAIN t /\ u[i] = t[i - m] /\ u[j] = t[j - m]
      BY <1>1, <2>3
    <3>1. i - m = j - m
      BY <1>3, <3>0 DEF IsInjective
    <3>2. i \in Int /\ j \in Int /\ m \in Int
      BY <1>1, <2>3
    <3> QED BY <3>1, <3>2
  <2> QED BY <1>1, <1>3, <2>1, <2>2, <2>3
<1> QED BY <1>1, <1>2, <1>3 DEF u, IsInjective

\* What a row adds to what is said.
Part(path, orphans, i) ==
  (IF Superseded(path, i) THEN {} ELSE ToSet(path[i].content))
  \cup ToSet(SyntheticResults(path[i], orphans))

\* So far all is said once.
SaidSoFar(path, orphans, messages, i) ==
  /\ messages \in Seq(Message) /\ IsInjective(AllSaid(messages))
  /\ ToSet(AllSaid(messages)) = UNION {Part(path, orphans, k) : k \in 1 .. i}

\* Messages to which a content is added say it too.
LEMMA ContentSaidOnce ==
  ASSUME NEW messages \in Seq(Message), NEW role \in {"user", "assistant"},
         NEW content \in Seq(BlockType), NEW said, said = AddContent(messages, role, content),
         IsInjective(AllSaid(messages)), IsInjective(content),
         ToSet(AllSaid(messages)) \cap ToSet(content) = {}
  PROVE  /\ said \in Seq(Message) /\ IsInjective(AllSaid(said))
         /\ ToSet(AllSaid(said)) = ToSet(AllSaid(messages)) \cup ToSet(content)
<1> DEFINE q == AddContent(messages, role, content)
<1>1. q \in Seq(Message)
  BY ContentAdded
<1>2. AllSaid(messages) \in Seq(BlockType) /\ AllSaid(q) = AllSaid(messages) \o content
  BY SaidAdded
<1> HIDE DEF q
<1>3. PICK s \in Seq(BlockType) : s = AllSaid(messages)
  BY <1>2
<1>4. ToSet(s \o content) = ToSet(s) \cup ToSet(content) /\ IsInjective(s \o content)
  BY <1>3, ConcatOnce
<1> QED BY <1>1, <1>2, <1>3, <1>4 DEF q

\* A row whose part is new keeps it so.
LEMMA RowSaidOnce ==
  ASSUME NEW path \in Seq(RowType), NEW orphans \in SUBSET IndexType, IsFiniteSet(orphans),
         NEW i \in 1 .. Len(path), NEW messages, SaidSoFar(path, orphans, messages, i - 1),
         IsInjective(path[i].content),
         ToSet(path[i].content) \cap ToSet(SyntheticResults(path[i], orphans)) = {},
         \A k \in 1 .. i - 1 : Part(path, orphans, k) \cap Part(path, orphans, i) = {}
  PROVE  SaidSoFar(path, orphans, AddRow(messages, path, orphans, i), i)
<1> DEFINE row     == path[i]
           said    == IF Superseded(path, i) \/ Role(row) = "none" THEN messages
                      ELSE AddContent(messages, Role(row), row.content)
           answers == SyntheticResults(row, orphans)
           r       == IF answers = <<>> THEN said ELSE AddContent(said, "user", answers)
           told(ms) == ToSet(AllSaid(ms))
           P       == IF Superseded(path, i) THEN {} ELSE ToSet(row.content)
<1>1. row \in RowType /\ messages \in Seq(Message) /\ IsInjective(AllSaid(messages))
  BY DEF SaidSoFar
<1>2. Role(row) \in {"user", "assistant"} /\ row.content \in Seq(BlockType) /\ Role(row) # "none"
  BY <1>1 DEF RowType, Role
<1>3. answers \in Seq(BlockType) /\ IsInjective(answers)
  BY SyntheticListed
<1>4. r = AddRow(messages, path, orphans, i)
  BY DEF AddRow
<1>5. told(messages) \cap (P \cup ToSet(answers)) = {}
  <2>1. told(messages) = UNION {Part(path, orphans, k) : k \in 1 .. i - 1}
    BY DEF SaidSoFar
  <2>2. Part(path, orphans, i) = P \cup ToSet(answers)
    BY DEF Part
  <2>3. PICK p : p = P \cup ToSet(answers)
    OBVIOUS
  <2>4. \A k \in 1 .. i - 1 : Part(path, orphans, k) \cap p = {}
    BY <2>2, <2>3
  <2> HIDE DEF P, answers, told
  <2> QED BY <2>1, <2>3, <2>4
<1>6. /\ said \in Seq(Message) /\ IsInjective(AllSaid(said))
      /\ told(said) = told(messages) \cup P
  <2>1. CASE Superseded(path, i)
    BY <1>1, <2>1
  <2>2. CASE ~ Superseded(path, i)
    <3>0. PICK rl \in {"user", "assistant"}, ct \in Seq(BlockType) : rl = Role(row) /\ ct = row.content
      BY <1>2
    <3>1. said = AddContent(messages, rl, ct) /\ P = ToSet(ct) /\ IsInjective(ct)
      BY <1>2, <2>2, <3>0
    <3>2. ToSet(AllSaid(messages)) \cap ToSet(ct) = {}
      BY <1>5, <3>1
    <3> HIDE DEF said, P
    <3>3. /\ said \in Seq(Message) /\ IsInjective(AllSaid(said))
          /\ ToSet(AllSaid(said)) = ToSet(AllSaid(messages)) \cup ToSet(ct)
      BY <1>1, <3>1, <3>2, ContentSaidOnce
    <3> QED BY <3>1, <3>3
  <2> QED BY <2>1, <2>2
<1>7. P \cap ToSet(answers) = {}
  OBVIOUS
<1>8. /\ r \in Seq(Message) /\ IsInjective(AllSaid(r))
      /\ told(r) = told(messages) \cup P \cup ToSet(answers)
  <2>1. CASE answers = <<>>
    <3>1. ToSet(answers) = {}
      BY <2>1 DEF ToSet
    <3>2. r = said
      BY <2>1
    <3> HIDE DEF said, r, answers, P
    <3> QED BY <1>6, <3>1, <3>2
  <2>2. CASE answers # <<>>
    <3>1. r = AddContent(said, "user", answers)
      BY <2>2
    <3>2. ToSet(AllSaid(said)) \cap ToSet(answers) = {}
      <4> HIDE DEF said, r, answers, P
      <4> QED BY <1>5, <1>6, <1>7
    <3> HIDE DEF said, r, answers, P
    <3>3. /\ r \in Seq(Message) /\ IsInjective(AllSaid(r))
          /\ ToSet(AllSaid(r)) = ToSet(AllSaid(said)) \cup ToSet(answers)
      BY <1>3, <1>6, <3>1, <3>2, ContentSaidOnce
    <3> QED BY <1>6, <3>3
  <2> QED BY <2>1, <2>2
<1>9. told(messages) \cup P \cup ToSet(answers) = UNION {Part(path, orphans, k) : k \in 1 .. i}
  <2>1. told(messages) = UNION {Part(path, orphans, k) : k \in 1 .. i - 1}
    BY DEF SaidSoFar
  <2>2. Part(path, orphans, i) = P \cup ToSet(answers)
    BY DEF Part
  <2>3. i \in 1 .. i /\ (\A k \in 1 .. i : k \in 1 .. i - 1 \/ k = i) /\ \A k \in 1 .. i - 1 : k \in 1 .. i
    OBVIOUS
  <2>4. PICK U : U = told(messages) \cup P \cup ToSet(answers)
    OBVIOUS
  <2>5. U = told(messages) \cup Part(path, orphans, i)
    BY <2>2, <2>4
  <2> HIDE DEF P, answers, told
  <2>6. U = UNION {Part(path, orphans, k) : k \in 1 .. i}
    BY <2>1, <2>3, <2>5
  <2> QED BY <2>4, <2>6
<1> QED BY <1>4, <1>8, <1>9 DEF SaidSoFar

\* A path whose parts are apart is said once.
LEMMA PathSaidOnce ==
  ASSUME NEW path \in Seq(RowType), NEW orphans \in SUBSET IndexType, IsFiniteSet(orphans),
         \A i \in 1 .. Len(path) : IsInjective(path[i].content),
         \A i \in 1 .. Len(path) :
           ToSet(path[i].content) \cap ToSet(SyntheticResults(path[i], orphans)) = {},
         \A i \in 1 .. Len(path) : \A k \in 1 .. i - 1 :
           Part(path, orphans, k) \cap Part(path, orphans, i) = {}
  PROVE  SaidSoFar(path, orphans, BuildMessages(path, orphans), Len(path))
<1> DEFINE B == MessagesBy(path, orphans)
           N == Len(path)
           S == {i \in 0 .. N : SaidSoFar(path, orphans, B[i], i)}
<1>1. N \in Nat
  OBVIOUS
<1>2. B[0] = <<>> /\ \A i \in 1 .. N : B[i] = AddRow(B[i - 1], path, orphans, i)
  BY <1>1, BuiltByRow
<1> HIDE DEF B
<1>3. 0 \in S
  <2>1. Contents(<<>>) = <<>>
    BY DEF Contents
  <2>2. AllSaid(<<>>) = <<>>
    BY <2>1 DEF AllSaid, FlattenSeq
  <2>3. IsInjective(<<>>) /\ ToSet(<<>>) = {}
    BY DEF IsInjective, ToSet
  <2>4. UNION {Part(path, orphans, k) : k \in 1 .. 0} = {}
    <3>1. \A k \in 1 .. 0 : FALSE
      <4>1. \A k \in Int : ~ (1 <= k /\ k <= 0)
        OBVIOUS
      <4> QED BY <4>1
    <3> QED BY <3>1
  <2>5. SaidSoFar(path, orphans, <<>>, 0)
    BY <2>2, <2>3, <2>4 DEF SaidSoFar
  <2> QED BY <1>1, <1>2, <2>5
<1>4. ASSUME NEW i \in 1 .. N, i - 1 \in S PROVE i \in S
  <2>1. SaidSoFar(path, orphans, B[i - 1], i - 1) /\ i \in 0 .. N
    BY <1>4
  <2>2. SaidSoFar(path, orphans, AddRow(B[i - 1], path, orphans, i), i)
    BY <2>1, RowSaidOnce
  <2> QED BY <1>2, <2>1, <2>2
<1> HIDE DEF S
<1>5. 0 .. N \subseteq S
  BY <1>1, <1>3, <1>4, EveryPlace
<1>6. N \in S
  BY <1>1, <1>5
<1> QED BY <1>6 DEF S, B, BuildMessages

-----------------------------------------------------------------------------
(***************************************************************************)
(* The parts of a path.                                                    *)
(***************************************************************************)

\* Places of a path are in the order of the rows' numbers and ages.
LEMMA PlacesOrdered ==
  ASSUME NEW a, NEW t, Chain(a, t), FiniteRows(a),
         NEW m \in DOMAIN a, NEW n \in DOMAIN a, Precedes(a, m, n)
  PROVE  m < n
<1>1. a[m].seq < a[n].seq => m < n
  BY DEF Chain
<1> QED BY <1>1 DEF Precedes

\* Two rows of a path add nothing in common.
LEMMA PartsDiffer ==
  ASSUME NEW a, NEW t, Chain(a, t), FiniteRows(a), RowsGood(a),
         \A n \in DOMAIN a : a[n] \in RowType,
         NEW orphans \in SUBSET IndexType, IsFiniteSet(orphans),
         \A e \in orphans : \A f \in orphans : e.tool = f.tool => e = f,
         NEW path, path = Path(a), NEW N, N = Cardinality(DOMAIN a)
  PROVE  /\ \A i \in 1 .. N : ToSet(path[i].content) \cap ToSet(SyntheticResults(path[i], orphans)) = {}
         /\ \A i \in 1 .. N : \A k \in 1 .. i - 1 :
              Part(path, orphans, k) \cap Part(path, orphans, i) = {}
<1>1. /\ N \in Nat /\ At(a) \in [1 .. N -> DOMAIN a]
      /\ path = [i \in 1 .. N |-> a[At(a)[i]]]
      /\ \A i, j \in 1 .. N : i < j <=> Precedes(a, At(a)[i], At(a)[j])
  BY PathListed
<1>2. /\ \A n \in DOMAIN a : a[n].id = n /\ RowShape(a[n]) /\ a[n].type \in {"user", "assistant"}
      /\ SaidOnce(a)
  BY DEF RowsGood, RowType
<1>3. \A i \in 1 .. N : ToSet(SyntheticResults(path[i], orphans))
                          = {Synthetic(e.tool) : e \in {f \in orphans : f.node = path[i].id}}
  BY SyntheticListed
<1>4. \A n \in DOMAIN a : \A b \in ToSet(a[n].content) : \A x : b # Synthetic(x)
  <2> SUFFICES ASSUME NEW n \in DOMAIN a, NEW b \in ToSet(a[n].content), NEW x, b = Synthetic(x)
               PROVE  FALSE
    OBVIOUS
  <2>1. b.kind = "result" /\ b.n = 1
    BY DEF Synthetic
  <2>2. UserBlock(b) \/ AnswerBlock(a[n], b)
    BY <1>2 DEF RowShape
  <2>3. Use(b.from).kind = "use"
    BY DEF Use
  <2> QED BY <2>1, <2>2, <2>3 DEF UserBlock, AnswerBlock
<1>5. \A i \in 1 .. N : path[i] = a[At(a)[i]] /\ At(a)[i] \in DOMAIN a /\ path[i].id = At(a)[i]
  BY <1>1, <1>2
<1>6. ASSUME NEW i \in 1 .. N
      PROVE  ToSet(path[i].content) \cap ToSet(SyntheticResults(path[i], orphans)) = {}
  BY <1>3, <1>4, <1>5
<1>7. ASSUME NEW i \in 1 .. N, NEW k \in 1 .. i - 1, NEW b, b \in Part(path, orphans, k),
             b \in Part(path, orphans, i)
      PROVE  FALSE
  <2> DEFINE m == At(a)[k]
             n == At(a)[i]
  <2>1. k \in 1 .. N /\ k < i /\ path \in [1 .. N -> RowType]
    BY <1>1, <1>5
  <2>2. /\ m \in DOMAIN a /\ n \in DOMAIN a /\ path[k] = a[m] /\ path[i] = a[n]
        /\ path[k].id = m /\ path[i].id = n
    BY <1>5, <2>1
  <2>3. m # n
    <3>1. Precedes(a, m, n)
      BY <1>1, <2>1
    <3>2. m < n
      BY <2>2, <3>1, PlacesOrdered
    <3>3. m \in Nat /\ n \in Nat
      BY <2>2 DEF FiniteRows
    <3> QED BY <3>2, <3>3
  <2>4. CASE b \in ToSet(a[m].content) /\ b \in ToSet(a[n].content) /\ ~ Superseded(path, k)
    <3>1. \/ b.kind = "text" /\ b.n >= 1 /\ a[m].group = b.from /\ a[n].group = b.from
          \/ b.kind = "result" /\ a[m].parent = a[n].parent
      BY <1>2, <2>2, <2>3, <2>4 DEF SaidOnce
    <3>2. a[m].parent # a[n].parent
      BY <2>2, <2>3 DEF Chain
    <3>3. b.kind = "text" /\ a[m].group = b.from /\ a[n].group = b.from
      BY <3>1, <3>2
    <3>4. a[m].group # NoGroup
      <4>1. a[m].type = "user" => UserBlock(b)
        BY <1>2, <2>2, <2>4 DEF RowShape
      <4>2. b.n >= 1
        BY <3>1, <3>2
      <4>3. ~ UserBlock(b)
        BY <4>2 DEF UserBlock
      <4>4. b \in BlockType
        <5>1. a[m].content \in Seq(BlockType)
          BY <2>2 DEF RowType
        <5> QED BY <2>4, <5>1 DEF ToSet
      <4>5. b.from \in Calls
        BY <3>3, <4>4 DEF BlockType
      <4> QED BY <3>3, <4>5, BoundsAssumption
    <3>5. Superseded(path, k)
      <4>1. i \in DOMAIN path /\ i > k
        BY <2>1
      <4> QED BY <2>2, <3>3, <3>4, <4>1 DEF Superseded
    <3> QED BY <2>4, <3>5
  <2>5. CASE \E e \in orphans : e.node = m /\ b = Synthetic(e.tool)
    <3>1. PICK e \in orphans : e.node = m /\ b = Synthetic(e.tool)
      BY <2>5
    <3>2. b \notin ToSet(a[n].content)
      BY <1>4, <2>2, <3>1
    <3>3. b \in ToSet(SyntheticResults(path[i], orphans))
      BY <1>7, <2>2, <3>2 DEF Part
    <3>4. PICK f \in orphans : f.node = n /\ b = Synthetic(f.tool)
      BY <1>3, <2>2, <3>3
    <3>5. e.tool = f.tool
      BY <3>1, <3>4 DEF Synthetic
    <3> QED BY <2>3, <3>1, <3>4, <3>5
  <2>6. CASE \E e \in orphans : e.node = n /\ b = Synthetic(e.tool)
    <3>1. PICK e \in orphans : e.node = n /\ b = Synthetic(e.tool)
      BY <2>6
    <3>2. b \notin ToSet(a[m].content)
      BY <1>4, <2>2, <3>1
    <3>3. b \in ToSet(SyntheticResults(path[k], orphans))
      BY <1>7, <2>2, <3>2 DEF Part
    <3>4. PICK f \in orphans : f.node = m /\ b = Synthetic(f.tool)
      BY <1>3, <2>1, <2>2, <3>3
    <3>5. e.tool = f.tool
      BY <3>1, <3>4 DEF Synthetic
    <3> QED BY <2>3, <3>1, <3>4, <3>5
  <2>7. b \in Part(path, orphans, k) =>
          \/ b \in ToSet(a[m].content) /\ ~ Superseded(path, k)
          \/ \E e \in orphans : e.node = m /\ b = Synthetic(e.tool)
    BY <1>3, <2>1, <2>2 DEF Part
  <2>8. b \in Part(path, orphans, i) =>
          \/ b \in ToSet(a[n].content)
          \/ \E e \in orphans : e.node = n /\ b = Synthetic(e.tool)
    BY <1>3, <2>2 DEF Part
  <2> QED BY <1>7, <2>4, <2>5, <2>6, <2>7, <2>8
<1> QED BY <1>6, <1>7

-----------------------------------------------------------------------------
\* A block of the path that no part of it says is text of a group that ends
\* in tool use.
LEMMA LostInGroup ==
  ASSUME NEW a, NEW t, Chain(a, t), FiniteRows(a), RowsGood(a), TextsNest(a),
         \A n \in DOMAIN a : a[n] \in RowType,
         NEW orphans, NEW m \in DOMAIN a, NEW b \in ToSet(a[m].content),
         \A k \in 1 .. Cardinality(DOMAIN a) : b \notin Part(Path(a), orphans, k)
  PROVE  \E n \in DOMAIN a : a[n].group = b.from /\ UsesIn(a[n].content) # {}
<1> DEFINE N == Cardinality(DOMAIN a)
           path == Path(a)
           g == a[m].group
<1>1. /\ N \in Nat /\ At(a) \in [1 .. N -> DOMAIN a]
      /\ path = [i \in 1 .. N |-> a[At(a)[i]]]
      /\ \A i, j \in 1 .. N : i < j <=> Precedes(a, At(a)[i], At(a)[j])
      /\ \E i \in 1 .. N : At(a)[i] = m
  BY PathListed
<1>2. PICK i \in 1 .. N : At(a)[i] = m
  BY <1>1
<1>3. /\ \A k \in 1 .. N : path[k] = a[At(a)[k]] /\ At(a)[k] \in DOMAIN a
      /\ DOMAIN path = 1 .. N
  BY <1>1
<1>4. \A k \in 1 .. N : b \notin Part(path, orphans, k)
  OBVIOUS
<1> HIDE DEF N, path
<1>5. Superseded(path, i)
  BY <1>2, <1>3, <1>4 DEF Part
<1>6. g # NoGroup /\ \E j \in 1 .. N : j > i /\ path[j].group = g
  BY <1>2, <1>3, <1>5 DEF Superseded
<1>7. PICK l \in 1 .. N : l > i /\ path[l].group = g /\ \A k \in 1 .. N : path[k].group = g => k <= l
  <2> DEFINE S == {N - k : k \in {j \in 1 .. N : j > i /\ path[j].group = g}}
  <2>1. \A k \in 1 .. N : N - k \in Nat /\ k \in Nat
    BY <1>1
  <2>2. S \subseteq Nat /\ S # {}
    BY <1>6, <2>1
  <2>3. PICK x \in S : \A y \in S : x <= y
    <3> HIDE DEF S
    <3> QED BY <2>2, LeastNatural
  <2>4. PICK l \in 1 .. N : l > i /\ path[l].group = g /\ x = N - l
    BY <2>3
  <2>5. ASSUME NEW k \in 1 .. N, path[k].group = g PROVE k <= l
    <3>1. CASE k > i
      <4>1. N - l <= N - k
        BY <2>3, <2>4, <2>5, <3>1
      <4> QED BY <1>1, <4>1
    <3>2. CASE ~ (k > i)
      BY <2>4, <3>2
    <3> QED BY <3>1, <3>2
  <2> QED BY <2>4, <2>5
<1>8. PICK n \in DOMAIN a : n = At(a)[l]
  BY <1>3
<1>9. ~ Superseded(path, l) /\ path[l] = a[n] /\ a[n].group = g
  <2>1. \A k \in 1 .. N : k > l => path[k].group # g
    BY <1>1, <1>7
  <2>2. ~ \E k \in DOMAIN path : k > l /\ path[k].group = path[l].group
    BY <1>3, <1>7, <2>1
  <2> QED BY <1>3, <1>7, <1>8, <2>2 DEF Superseded
<1>10. m < n /\ m \in Nat /\ n \in Nat
  <2>1. i < l
    BY <1>7
  <2>2. Precedes(a, m, n)
    BY <1>1, <1>2, <1>8, <2>1
  <2> QED BY <2>2, PlacesOrdered DEF FiniteRows
<1>11. UsesIn(a[m].content) = {}
  <2>1. UsesIn(a[m].content) # {} => n <= m
    BY <1>6, <1>9 DEF RowsGood, UsesEndGroup
  <2> QED BY <1>10, <2>1
<1>12. b.from = g
  <2>1. a[m].type = "assistant" /\ AnswerBlock(a[m], b)
    <3>1. a[m].type \in {"user", "assistant"}
      BY DEF RowType
    <3> QED BY <1>6, <3>1 DEF RowsGood, RowShape
  <2>2. b # Use(b.from)
    <3>1. b = Use(b.from) => b.kind = "use"
      BY DEF Use
    <3>2. b.kind = "use" => b.from \in UsesIn(a[m].content)
      BY DEF UsesIn, Blocks
    <3> QED BY <1>11, <3>1, <3>2
  <2> QED BY <1>6, <2>1, <2>2 DEF AnswerBlock
<1>13. UsesIn(a[n].content) # {}
  <2> SUFFICES ASSUME UsesIn(a[n].content) = {} PROVE FALSE
    OBVIOUS
  <2>1. ToSet(a[m].content) \subseteq ToSet(a[n].content)
    BY <1>6, <1>9, <1>10, <1>11 DEF TextsNest
  <2>2. b \in Part(path, orphans, l)
    BY <1>9, <2>1 DEF Part
  <2> QED BY <1>4, <2>2
<1> QED BY <1>9, <1>12, <1>13

\* The path of rows is a sequence of them.
LEMMA PathOfRows ==
  ASSUME NEW a, FiniteRows(a), \A m \in DOMAIN a : a[m] \in RowType,
         NEW path, path = Path(a), NEW N, N = Cardinality(DOMAIN a)
  PROVE  /\ path \in Seq(RowType) /\ Len(path) = N /\ N \in Nat
         /\ \A i \in 1 .. N : \E m \in DOMAIN a : path[i] = a[m]
<1>1. /\ N \in Nat /\ At(a) \in [1 .. N -> DOMAIN a]
      /\ path = [i \in 1 .. N |-> a[At(a)[i]]]
  BY PathListed
<1>2. \A i \in 1 .. N : At(a)[i] \in DOMAIN a /\ path[i] = a[At(a)[i]]
  BY <1>1
<1>3. path \in Seq(RowType) /\ Len(path) = N
  BY <1>1
<1>4. ASSUME NEW i \in 1 .. N PROVE \E m \in DOMAIN a : path[i] = a[m]
  BY <1>2
<1> QED BY <1>1, <1>3, <1>4

\* A path of rows that repeat nothing, with a message that repeats none of
\* them, says every part and the message once.
LEMMA PathAndMessageOnce ==
  ASSUME NEW a, NEW t, Chain(a, t), FiniteRows(a), RowsGood(a),
         \A m \in DOMAIN a : a[m] \in RowType,
         NEW orphans \in SUBSET IndexType, IsFiniteSet(orphans),
         \A e \in orphans : \A f \in orphans : e.tool = f.tool => e = f,
         NEW msg \in Seq(BlockType), IsInjective(msg), \A b \in ToSet(msg) : b.n = 0,
         \A n \in DOMAIN a : ToSet(a[n].content) \cap ToSet(msg) = {},
         NEW path, path = Path(a), NEW N, N = Cardinality(DOMAIN a),
         NEW r, r = AddContent(BuildMessages(path, orphans), "user", msg)
  PROVE  /\ r \in Seq(Message) /\ IsInjective(AllSaid(r))
         /\ ToSet(AllSaid(r)) = (UNION {Part(path, orphans, k) : k \in 1 .. N}) \cup ToSet(msg)
<1>1. /\ path \in Seq(RowType) /\ Len(path) = N /\ N \in Nat
      /\ \A i \in 1 .. N : \E m \in DOMAIN a : path[i] = a[m]
  BY PathOfRows
<1>2. /\ \A i \in 1 .. N : ToSet(path[i].content) \cap ToSet(SyntheticResults(path[i], orphans)) = {}
      /\ \A i \in 1 .. N : \A k \in 1 .. i - 1 :
           Part(path, orphans, k) \cap Part(path, orphans, i) = {}
  BY PartsDiffer
<1>3. \A i \in 1 .. N : /\ IsInjective(path[i].content)
                        /\ ToSet(path[i].content) \cap ToSet(msg) = {}
  BY <1>1 DEF RowsGood, RowShape
<1>4. PICK ms : ms = BuildMessages(path, orphans)
  OBVIOUS
<1>5. SaidSoFar(path, orphans, ms, N)
  BY <1>1, <1>2, <1>3, <1>4, PathSaidOnce
<1>6. \A k \in 1 .. N : Part(path, orphans, k) \cap ToSet(msg) = {}
  <2> SUFFICES ASSUME NEW k \in 1 .. N, NEW b, b \in Part(path, orphans, k), b \in ToSet(msg)
               PROVE  FALSE
    OBVIOUS
  <2>1. b \in ToSet(SyntheticResults(path[k], orphans))
    BY <1>3 DEF Part
  <2>2. PICK e : b = Synthetic(e)
    BY <2>1, SyntheticListed
  <2>3. b.n = 1
    BY <2>2 DEF Synthetic
  <2> QED BY <2>3
<1>7. /\ ms \in Seq(Message) /\ IsInjective(AllSaid(ms))
      /\ ToSet(AllSaid(ms)) = UNION {Part(path, orphans, k) : k \in 1 .. N}
  BY <1>5 DEF SaidSoFar
<1>8. ToSet(AllSaid(ms)) \cap ToSet(msg) = {}
  BY <1>6, <1>7
<1>9. r = AddContent(ms, "user", msg)
  BY <1>4
<1>10. /\ r \in Seq(Message) /\ IsInjective(AllSaid(r))
       /\ ToSet(AllSaid(r)) = ToSet(AllSaid(ms)) \cup ToSet(msg)
  BY <1>7, <1>8, <1>9, ContentSaidOnce
<1> QED BY <1>7, <1>10

\* What a call reads is a path of rows.
LEMMA AskedRows ==
  ASSUME IInv, TurnInv, NEW c \in Calls, Asked(c), NEW a, a = ask[c].anc,
         NEW orphans, orphans = ask[c].orphans, NEW msg, msg = ask[c].msg
  PROVE  /\ FiniteRows(a) /\ \A m \in DOMAIN a : a[m] \in RowType
         /\ msg \in Seq(BlockType)
         /\ orphans \in SUBSET IndexType /\ IsFiniteSet(orphans)
<1>1. /\ AskOK(ask[c]) /\ nextId \in Nat
      /\ IsFiniteSet(orphans) /\ orphans \in SUBSET IndexType
  BY DEF IInv, TypeOK, StoreOK, NodeId, AskOK, TurnInv, IndexFinite
<1>2. /\ \A m \in DOMAIN a : a[m] \in RowType /\ a[m].seq \in Nat /\ m \in Nat
      /\ DOMAIN a \subseteq 1 .. nextId - 1 /\ msg \in Seq(BlockType)
  BY <1>1, SMTT(30) DEF AskOK, RowType
<1>3. FiniteRows(a)
  <2>1. IsFiniteSet(1 .. nextId - 1)
    BY <1>1, FS_Interval
  <2> QED BY <1>2, <2>1, FS_Subset DEF FiniteRows
<1> QED BY <1>1, <1>2, <1>3

\* Whatever was deleted, superseded or repaired, a request says everything on
\* its path once, but for texts of an output group that ends in tool use
\* (buildMessages, lastInGroup, injectSyntheticToolResults): if providers
\* repeat no tool id.
THEOREM PiecesSentOnce == FreshToolIds /\ Spec => []EachPieceOnce
<1> SUFFICES ASSUME FreshToolIds PROVE Spec => []EachPieceOnce
  OBVIOUS
<1> DEFINE Turns == RootInv /\ TurnInv
           Groups == GroupsFresh /\ GroupsRepeated /\ TextGroupSelfContained
<1>1. Init => Turns /\ Groups /\ PieceInv
  BY RootedAtFirst, InitTurn, InitGroups, InitPiece
     DEF GroupsRepeated, TextGroupSelfContained
<1>2. IInv /\ Turns /\ Groups /\ PieceInv /\ [Next]_vars => Turns' /\ Groups' /\ PieceInv'
  <2>1. IInv /\ Turns /\ [Next]_vars => Turns'
    BY NextRooted, NextHeld, NextFinite, NextAsks DEF TurnInv
  <2>2. IInv /\ Groups /\ [Next]_vars => Groups'
    BY NextFresh, NextRepeated
  <2>3. IInv /\ Turns /\ Groups /\ PieceInv /\ [Next]_vars => PieceInv'
    BY NextPiece DEF TurnInv
  <2> QED BY <2>1, <2>2, <2>3
<1>3. IInv /\ Turns /\ PieceInv => EachPieceOnce
  <2> SUFFICES ASSUME IInv, TurnInv, PieceInv, NEW c \in Calls, Sent(c)
               PROVE  LET r    == Request(c)
                          sent == FlattenSeq([i \in DOMAIN r |-> r[i].content])
                          said == (UNION {ToSet(ask[c].anc[n].content) : n \in DOMAIN ask[c].anc}) \cup ToSet(ask[c].msg)
                          lost == said \ ToSet(sent)
                      IN  /\ \A i, j \in DOMAIN sent : sent[i] = sent[j] => i = j
                          /\ \A b \in lost : \E n \in DOMAIN ask[c].anc :
                               ask[c].anc[n].group = b.from /\ UsesIn(ask[c].anc[n].content) # {}
    BY DEF EachPieceOnce
  <2>1. PICK a, N, path, orphans, msg, r, sent, t :
          /\ a = ask[c].anc /\ N = Cardinality(DOMAIN a) /\ path = Path(a)
          /\ orphans = ask[c].orphans /\ msg = ask[c].msg /\ r = Request(c) /\ sent = AllSaid(r)
          /\ t = ask[c].target
    OBVIOUS
  <2>2. Asked(c)
    BY DEF Sent, Asked, Asking
  <2>3. /\ FiniteRows(a) /\ \A m \in DOMAIN a : a[m] \in RowType
        /\ msg \in Seq(BlockType) /\ orphans \in SUBSET IndexType /\ IsFiniteSet(orphans)
    BY <2>1, <2>2, AskedRows
  <2>4. Chain(a, t) /\ RowsGood(a) /\ TextsNest(a)
        /\ \A n \in DOMAIN a : ToSet(a[n].content) \cap ToSet(msg) = {}
    BY <2>1, <2>2 DEF PieceInv, HeldPaths
  <2>5. /\ IsInjective(sent)
        /\ ToSet(sent) = (UNION {Part(path, orphans, k) : k \in 1 .. N}) \cup ToSet(msg)
    <3>1. /\ \A e \in orphans : \A f \in orphans : e.tool = f.tool => e = f
          /\ IsInjective(msg) /\ \A b \in ToSet(msg) : b.n = 0
      BY <2>1 DEF PieceInv, OrphansOnce, Messages, UserBlock
    <3>2. r = AddContent(BuildMessages(path, orphans), "user", msg)
      BY <2>1 DEF Request, RequestMessages
    <3>3. /\ IsInjective(AllSaid(r))
          /\ ToSet(AllSaid(r)) = (UNION {Part(path, orphans, k) : k \in 1 .. N}) \cup ToSet(msg)
      <4>1. path = Path(a) /\ N = Cardinality(DOMAIN a)
        BY <2>1
      <4> QED BY <2>3, <2>4, <3>1, <3>2, <4>1, PathAndMessageOnce
    <3> QED BY <2>1, <3>3
  <2>6. ASSUME NEW n \in DOMAIN a, NEW b \in ToSet(a[n].content), b \notin ToSet(sent)
        PROVE  \E k \in DOMAIN a : a[k].group = b.from /\ UsesIn(a[k].content) # {}
    <3>1. \A k \in 1 .. Cardinality(DOMAIN a) : b \notin Part(Path(a), orphans, k)
      BY <2>1, <2>5, <2>6
    <3> QED BY <2>3, <2>4, <3>1, LostInGroup
  <2>7. \A i, j \in DOMAIN sent : sent[i] = sent[j] => i = j
    BY <2>5 DEF IsInjective
  <2>8. \A b \in ToSet(msg) : b \in ToSet(sent)
    BY <2>5
  <2>9. \A b \in (UNION {ToSet(a[n].content) : n \in DOMAIN a}) \cup ToSet(msg) :
          b \in ToSet(sent) \/ \E n \in DOMAIN a : a[n].group = b.from /\ UsesIn(a[n].content) # {}
    BY <2>6, <2>8
  <2>10. sent = FlattenSeq([i \in DOMAIN Request(c) |-> Request(c)[i].content])
    BY <2>1 DEF AllSaid, Contents
  <2> QED BY <2>1, <2>7, <2>9, <2>10
<1> QED BY <1>1, <1>2, <1>3, Inductive, PTL DEF Spec

-----------------------------------------------------------------------------
(***************************************************************************)
(* The uses in the messages of a path, and what answers them.              *)
(***************************************************************************)

\* What two contents say together.
LEMMA ConcatSays ==
  ASSUME NEW s \in Seq(BlockType), NEW t \in Seq(BlockType)
  PROVE  /\ ToSet(s) \subseteq ToSet(s \o t) /\ ToSet(t) \subseteq ToSet(s \o t)
         /\ UsesIn(s \o t) = UsesIn(s) \cup UsesIn(t)
         /\ IsInjective(s \o t) => IsInjective(s) /\ IsInjective(t)
<1> DEFINE m == Len(s)
           n == Len(t)
           u == s \o t
<1>1. /\ m \in Nat /\ n \in Nat /\ DOMAIN s = 1 .. m /\ DOMAIN t = 1 .. n
      /\ DOMAIN u = 1 .. m + n
      /\ \A i \in 1 .. m : u[i] = s[i]
      /\ \A i \in 1 .. n : u[m + i] = t[i]
  BY ConcatProperties
<1> HIDE DEF m, n, u
<1>2. /\ \A i \in 1 .. m : i \in 1 .. m + n
      /\ \A i \in 1 .. n : m + i \in 1 .. m + n
      /\ \A i \in 1 .. m + n : i \in 1 .. m \/ \E j \in 1 .. n : i = m + j
  <2>1. \A i \in 1 .. m + n : i \in 1 .. m \/ (i - m \in 1 .. n /\ i = m + (i - m))
    BY <1>1
  <2> QED BY <1>1, <2>1
<1>3. /\ ToSet(u) = {u[i] : i \in 1 .. m + n} /\ ToSet(s) = {s[i] : i \in 1 .. m}
      /\ ToSet(t) = {t[i] : i \in 1 .. n}
  BY <1>1 DEF ToSet
<1>4. ToSet(s) \subseteq ToSet(u) /\ ToSet(t) \subseteq ToSet(u)
  BY <1>1, <1>2, <1>3
<1>5. ToSet(u) \subseteq ToSet(s) \cup ToSet(t)
  BY <1>1, <1>2, <1>3
<1>6. ToSet(u) = ToSet(s) \cup ToSet(t)
  BY <1>4, <1>5
<1>7. UsesIn(u) = UsesIn(s) \cup UsesIn(t)
  BY <1>6 DEF UsesIn, Blocks
<1>8. ASSUME IsInjective(u) PROVE IsInjective(s) /\ IsInjective(t)
  <2>1. \A i \in 1 .. m + n : \A j \in 1 .. m + n : u[i] = u[j] => i = j
    BY <1>1, <1>8 DEF IsInjective
  <2>2. \A i \in 1 .. m : \A j \in 1 .. m : s[i] = s[j] => i = j
    BY <1>1, <1>2, <2>1
  <2>3. \A i \in 1 .. n : \A j \in 1 .. n : m + i = m + j => i = j
    BY <1>1
  <2>4. \A i \in 1 .. n : \A j \in 1 .. n : t[i] = t[j] => i = j
    BY <1>1, <1>2, <2>1, <2>3
  <2> QED BY <1>1, <2>2, <2>4 DEF IsInjective
<1> QED BY <1>4, <1>7, <1>8 DEF u

\* Messages r are the messages with content of a user behind the last answer.
UserBehind(messages, content, r) ==
  /\ Len(r) \in {Len(messages), Len(messages) + 1} /\ r[Len(r)].role = "user"
  /\ \A q \in 1 .. Len(r) : r[q].role = "assistant" =>
       /\ q \in 1 .. Len(messages) /\ r[q] = messages[q] /\ q + 1 \in 1 .. Len(r)
       /\ q + 1 \in 1 .. Len(messages) =>
            ToSet(messages[q + 1].content) \subseteq ToSet(r[q + 1].content)
       /\ q \in {Len(messages) - 1, Len(messages)} =>
            ToSet(content) \subseteq ToSet(r[q + 1].content)

\* They are the messages with content of an answer behind the last user
\* message.
AnswerBehind(messages, content, r) ==
  /\ Len(r) \in Nat /\ r[Len(r)].role = "assistant"
  /\ \A q \in 1 .. Len(r) - 1 : r[q].role = "assistant" =>
       q \in 1 .. Len(messages) - 1 /\ r[q] = messages[q] /\ r[q + 1] = messages[q + 1]
  /\ \A t \in UsesIn(r[Len(r)].content) :
       \/ t \in UsesIn(content)
       \/ /\ Len(messages) >= 1 /\ messages[Len(messages)].role = "assistant"
          /\ t \in UsesIn(messages[Len(messages)].content)

\* AddContent does that.
LEMMA UserAdded ==
  ASSUME NEW messages \in Seq(Message), NEW content \in Seq(BlockType), Alternates(messages),
         NEW r, r = AddContent(messages, "user", content)
  PROVE  r \in Seq(Message) /\ Alternates(r) /\ UserBehind(messages, content, r)
<1>0. PICK n : n = Len(messages)
  OBVIOUS
<1> SUFFICES /\ n \in Nat /\ r \in Seq(Message) /\ Alternates(r)
             /\ Len(r) \in {n, n + 1} /\ r[Len(r)].role = "user"
             /\ \A q \in 1 .. Len(r) : r[q].role = "assistant" =>
                  /\ q \in 1 .. n /\ r[q] = messages[q] /\ q + 1 \in 1 .. Len(r)
                  /\ q + 1 \in 1 .. n => ToSet(messages[q + 1].content) \subseteq ToSet(r[q + 1].content)
                  /\ q \in {n - 1, n} => ToSet(content) \subseteq ToSet(r[q + 1].content)
  BY <1>0 DEF UserBehind
<1>1. /\ n \in Nat /\ r \in Seq(Message)
      /\ Merged(messages, "user", content, r) \/ Started(messages, "user", content, r)
  BY <1>0, ContentAdded
<1>2. /\ Alternates(r) /\ Len(r) >= 1 /\ r[Len(r)].role = "user" /\ Len(r) \in Nat
  BY AddedAlternates
<1>3. \A i \in 1 .. n - 1 : messages[i].role # messages[i + 1].role
  BY <1>0 DEF Alternates
<1>a. \A i \in 1 .. n : messages[i] \in Message
  BY <1>0
<1>4. \A i \in 1 .. n : /\ messages[i].content \in Seq(BlockType)
                       /\ messages[i].role \in {"user", "assistant"}
  BY <1>a DEF Message
<1>5. CASE Merged(messages, "user", content, r)
  <2>1. /\ n >= 1 /\ messages[n].role = "user" /\ Len(r) = n
        /\ \A i \in 1 .. n - 1 : r[i] = messages[i]
        /\ r[n].role = "user" /\ r[n].content = messages[n].content \o content
    BY <1>0, <1>5 DEF Merged
  <2>2. messages[n].content \in Seq(BlockType)
    BY <1>1, <1>4, <2>1
  <2>3. /\ ToSet(messages[n].content) \subseteq ToSet(r[n].content)
        /\ ToSet(content) \subseteq ToSet(r[n].content)
    BY <2>1, <2>2, ConcatSays
  <2> SUFFICES ASSUME NEW q \in 1 .. Len(r), r[q].role = "assistant"
               PROVE  /\ q \in 1 .. n /\ r[q] = messages[q] /\ q + 1 \in 1 .. Len(r)
                      /\ q + 1 \in 1 .. n => ToSet(messages[q + 1].content) \subseteq ToSet(r[q + 1].content)
                      /\ q \in {n - 1, n} => ToSet(content) \subseteq ToSet(r[q + 1].content)
    BY <1>1, <1>2, <2>1
  <2>4. q # n
    BY <2>1
  <2>5. q \in 1 .. n - 1 /\ q + 1 \in 1 .. n
    BY <1>1, <2>1, <2>4
  <2>6. CASE q + 1 = n
    BY <1>1, <2>1, <2>3, <2>5, <2>6
  <2>7. CASE q + 1 # n
    <3>1. q + 1 \in 1 .. n - 1 /\ q # n - 1
      BY <1>1, <2>5, <2>7
    <3> QED BY <2>1, <2>4, <2>5, <3>1
  <2> QED BY <2>6, <2>7
<1>6. CASE Started(messages, "user", content, r)
  <2>1. /\ n >= 1 => messages[n].role # "user"
        /\ Len(r) = n + 1 /\ \A i \in 1 .. n : r[i] = messages[i]
        /\ r[n + 1].role = "user" /\ r[n + 1].content = content
    BY <1>0, <1>6 DEF Started
  <2> SUFFICES ASSUME NEW q \in 1 .. Len(r), r[q].role = "assistant"
               PROVE  /\ q \in 1 .. n /\ r[q] = messages[q] /\ q + 1 \in 1 .. Len(r)
                      /\ q + 1 \in 1 .. n => ToSet(messages[q + 1].content) \subseteq ToSet(r[q + 1].content)
                      /\ q \in {n - 1, n} => ToSet(content) \subseteq ToSet(r[q + 1].content)
    BY <1>1, <1>2, <2>1
  <2>2. q # n + 1
    BY <2>1
  <2>3. q \in 1 .. n /\ q + 1 \in 1 .. Len(r) /\ r[q] = messages[q] /\ n \in 1 .. n
    BY <1>1, <2>1, <2>2
  <2>4. q # n - 1
    <3> SUFFICES ASSUME q = n - 1 PROVE FALSE
      OBVIOUS
    <3>1. q \in 1 .. n - 1 /\ q + 1 = n
      BY <1>1, <2>3
    <3>2. messages[n].role \in {"user", "assistant"}
      BY <1>4, <2>3
    <3>3. messages[q].role # messages[n].role
      BY <1>3, <3>1
    <3> QED BY <1>1, <2>1, <2>3, <3>2, <3>3
  <2>5. q = n => ToSet(content) \subseteq ToSet(r[q + 1].content)
    BY <2>1
  <2> QED BY <2>1, <2>3, <2>4, <2>5
<1> QED BY <1>1, <1>5, <1>6

\* So it does with an answer.
LEMMA AnswerAdded ==
  ASSUME NEW messages \in Seq(Message), NEW content \in Seq(BlockType), Alternates(messages),
         NEW r, r = AddContent(messages, "assistant", content)
  PROVE  r \in Seq(Message) /\ Alternates(r) /\ AnswerBehind(messages, content, r)
<1>0. PICK n : n = Len(messages)
  OBVIOUS
<1> SUFFICES /\ r \in Seq(Message) /\ Alternates(r)
             /\ Len(r) \in Nat /\ r[Len(r)].role = "assistant"
             /\ \A q \in 1 .. Len(r) - 1 : r[q].role = "assistant" =>
                  q \in 1 .. n - 1 /\ r[q] = messages[q] /\ r[q + 1] = messages[q + 1]
             /\ \A t \in UsesIn(r[Len(r)].content) :
                  \/ t \in UsesIn(content)
                  \/ n >= 1 /\ messages[n].role = "assistant" /\ t \in UsesIn(messages[n].content)
  BY <1>0 DEF AnswerBehind
<1>1. /\ n \in Nat /\ r \in Seq(Message)
      /\ Merged(messages, "assistant", content, r) \/ Started(messages, "assistant", content, r)
  BY <1>0, ContentAdded
<1>2. /\ Alternates(r) /\ Len(r) >= 1 /\ r[Len(r)].role = "assistant" /\ Len(r) \in Nat
  BY AddedAlternates
<1>3. \A i \in 1 .. n - 1 : messages[i].role # messages[i + 1].role
  BY <1>0 DEF Alternates
<1>4. \A i \in 1 .. n : messages[i] \in Message
  BY <1>0
<1>5. CASE Merged(messages, "assistant", content, r)
  <2>1. /\ n >= 1 /\ messages[n].role = "assistant" /\ Len(r) = n
        /\ \A i \in 1 .. n - 1 : r[i] = messages[i]
        /\ r[n].content = messages[n].content \o content
    BY <1>0, <1>5 DEF Merged
  <2>2. n \in 1 .. n
    BY <1>1, <2>1
  <2>3. messages[n].content \in Seq(BlockType)
    BY <1>4, <2>2 DEF Message
  <2>4. UsesIn(r[n].content) = UsesIn(messages[n].content) \cup UsesIn(content)
    <3>1. PICK x \in Seq(BlockType) : x = messages[n].content
      BY <2>3
    <3>2. UsesIn(x \o content) = UsesIn(x) \cup UsesIn(content)
      BY ConcatSays
    <3> QED BY <2>1, <3>1, <3>2
  <2>5. ASSUME NEW q \in 1 .. Len(r) - 1, r[q].role = "assistant"
        PROVE  q \in 1 .. n - 1 /\ r[q] = messages[q] /\ r[q + 1] = messages[q + 1]
    <3>1. q \in 1 .. n - 1 /\ r[q] = messages[q]
      BY <2>1, <2>5
    <3>2. q + 1 # n
      BY <1>3, <2>1, <2>5, <3>1, ZenonT(60)
    <3>3. q + 1 \in 1 .. n - 1
      BY <1>1, <3>1, <3>2
    <3> QED BY <2>1, <3>1, <3>3
  <2> QED BY <1>1, <1>2, <2>1, <2>2, <2>4, <2>5
<1>6. CASE Started(messages, "assistant", content, r)
  <2>1. /\ n >= 1 => messages[n].role # "assistant"
        /\ Len(r) = n + 1 /\ \A i \in 1 .. n : r[i] = messages[i]
        /\ r[n + 1].content = content
    BY <1>0, <1>6 DEF Started
  <2>2. ASSUME NEW q \in 1 .. Len(r) - 1, r[q].role = "assistant"
        PROVE  q \in 1 .. n - 1 /\ r[q] = messages[q] /\ r[q + 1] = messages[q + 1]
    <3>1. q \in 1 .. n /\ r[q] = messages[q] /\ n >= 1
      BY <1>1, <2>1, <2>2
    <3>2. q # n
      BY <2>1, <2>2, <3>1
    <3>3. q \in 1 .. n - 1 /\ q + 1 \in 1 .. n
      BY <1>1, <3>1, <3>2
    <3> QED BY <2>1, <3>1, <3>3
  <2>3. UsesIn(r[Len(r)].content) = UsesIn(content)
    BY <2>1
  <2> QED BY <1>1, <1>2, <2>2, <2>3
<1> QED BY <1>1, <1>5, <1>6

\* A use in message q is answered by the message behind it.
AnsweredAt(messages, q, t) ==
  /\ q + 1 \in 1 .. Len(messages)
  /\ {Result(t), Synthetic(t)} \cap ToSet(messages[q + 1].content) # {}

AllAnswered(messages) ==
  \A q \in 1 .. Len(messages) : messages[q].role = "assistant" =>
    \A t \in UsesIn(messages[q].content) : AnsweredAt(messages, q, t)

\* A use of row i that has no synthetic result.
OpenUse(path, orphans, i, t) ==
  t \in UsesIn(path[i].content) /\ Synthetic(t) \notin ToSet(SyntheticResults(path[i], orphans))

\* After i rows a use is answered, or row i has left it to the next row.
AllButOpen(path, orphans, messages, i) ==
  \A q \in 1 .. Len(messages) : messages[q].role = "assistant" =>
    \A t \in UsesIn(messages[q].content) :
      \/ AnsweredAt(messages, q, t)
      \/ q \in {Len(messages) - 1, Len(messages)} /\ i # 0 /\ OpenUse(path, orphans, i, t)

\* The next row takes up what a row leaves open.
RowsAnswer(path, orphans) ==
  /\ \A i \in 1 .. Len(path) : path[i].type = "user" =>
       path[i].group = NoGroup /\ UsesIn(path[i].content) = {}
  /\ \A i \in 1 .. Len(path) - 1 : \A t : OpenUse(path, orphans, i, t) =>
       path[i + 1].type = "user" /\ Result(t) \in ToSet(path[i + 1].content)

\* User content answers what it holds the results of, and leaves no use of
\* those answered before.
LEMMA UserAnswers ==
  ASSUME NEW messages \in Seq(Message), NEW content \in Seq(BlockType), Alternates(messages),
         NEW r, r = AddContent(messages, "user", content),
         \A q \in 1 .. Len(messages) : messages[q].role = "assistant" =>
           \A t \in UsesIn(messages[q].content) :
             \/ AnsweredAt(messages, q, t)
             \/ /\ q \in {Len(messages) - 1, Len(messages)}
                /\ {Result(t), Synthetic(t)} \cap ToSet(content) # {}
  PROVE  r \in Seq(Message) /\ Alternates(r) /\ AllAnswered(r)
<1>1. PICK n : n = Len(messages)
  OBVIOUS
<1>2a. n \in Nat /\ r \in Seq(Message) /\ Alternates(r) /\ UserBehind(messages, content, r)
  BY <1>1, UserAdded
<1>2. /\ \A q \in 1 .. Len(r) : r[q].role = "assistant" =>
           /\ q \in 1 .. n /\ r[q] = messages[q] /\ q + 1 \in 1 .. Len(r)
           /\ q + 1 \in 1 .. n => ToSet(messages[q + 1].content) \subseteq ToSet(r[q + 1].content)
           /\ q \in {n - 1, n} => ToSet(content) \subseteq ToSet(r[q + 1].content)
  BY <1>1, <1>2a DEF UserBehind
<1>3. ASSUME NEW q \in 1 .. Len(r), r[q].role = "assistant", NEW t \in UsesIn(r[q].content)
      PROVE  AnsweredAt(r, q, t)
  <2>1. /\ q \in 1 .. n /\ r[q] = messages[q] /\ q + 1 \in 1 .. Len(r)
        /\ q + 1 \in 1 .. n => ToSet(messages[q + 1].content) \subseteq ToSet(r[q + 1].content)
        /\ q \in {n - 1, n} => ToSet(content) \subseteq ToSet(r[q + 1].content)
    BY <1>2, <1>3
  <2>2. \/ AnsweredAt(messages, q, t)
        \/ q \in {n - 1, n} /\ {Result(t), Synthetic(t)} \cap ToSet(content) # {}
    BY <1>1, <1>3, <2>1
  <2>3. CASE AnsweredAt(messages, q, t)
    <3>1. q + 1 \in 1 .. n /\ {Result(t), Synthetic(t)} \cap ToSet(messages[q + 1].content) # {}
      BY <1>1, <2>3 DEF AnsweredAt
    <3> QED BY <2>1, <3>1 DEF AnsweredAt
  <2>4. CASE q \in {n - 1, n} /\ {Result(t), Synthetic(t)} \cap ToSet(content) # {}
    BY <2>1, <2>4 DEF AnsweredAt
  <2> QED BY <2>2, <2>3, <2>4
<1> QED BY <1>2a, <1>3 DEF AllAnswered

\* Nothing is left open.
LEMMA NoneOpen ==
  ASSUME NEW messages \in Seq(Message), NEW content \in Seq(BlockType), Alternates(messages),
         NEW r, r = AddContent(messages, "user", content), AllAnswered(messages)
  PROVE  r \in Seq(Message) /\ Alternates(r) /\ AllAnswered(r)
<1>1. \A q \in 1 .. Len(messages) : messages[q].role = "assistant" =>
        \A t \in UsesIn(messages[q].content) : AnsweredAt(messages, q, t)
  BY DEF AllAnswered
<1> QED BY <1>1, UserAnswers

\* A row of the caller answers what the row before left open.
LEMMA UserRowAnswers ==
  ASSUME NEW path \in Seq(RowType), NEW orphans \in SUBSET IndexType, IsFiniteSet(orphans),
         NEW i \in 1 .. Len(path), NEW messages \in Seq(Message), Alternates(messages),
         AllButOpen(path, orphans, messages, i - 1), RowsAnswer(path, orphans),
         path[i].type = "user",
         NEW r, r = AddRow(messages, path, orphans, i)
  PROVE  r \in Seq(Message) /\ Alternates(r) /\ AllAnswered(r)
<1>1. PICK said, content, answers :
        /\ content = path[i].content /\ said = AddContent(messages, "user", content)
        /\ answers = SyntheticResults(path[i], orphans)
  OBVIOUS
<1>2. path[i] \in RowType /\ Role(path[i]) = "user" /\ path[i].group = NoGroup
  BY DEF RowsAnswer, Role
<1>3. content \in Seq(BlockType)
  BY <1>1, <1>2 DEF RowType
<1>4. answers \in Seq(BlockType)
  BY <1>1, SyntheticListed
<1>5. ~ Superseded(path, i)
  BY <1>2 DEF Superseded
<1>6. r = IF answers = <<>> THEN said ELSE AddContent(said, "user", answers)
  BY <1>1, <1>2, <1>5 DEF AddRow
<1>7. ASSUME NEW q \in 1 .. Len(messages), messages[q].role = "assistant",
             NEW t \in UsesIn(messages[q].content)
      PROVE  \/ AnsweredAt(messages, q, t)
             \/ /\ q \in {Len(messages) - 1, Len(messages)}
                /\ {Result(t), Synthetic(t)} \cap ToSet(content) # {}
  <2>1. \/ AnsweredAt(messages, q, t)
        \/ /\ q \in {Len(messages) - 1, Len(messages)} /\ i - 1 # 0
           /\ OpenUse(path, orphans, i - 1, t)
    BY <1>7 DEF AllButOpen
  <2>2. i - 1 # 0 => i - 1 \in 1 .. Len(path) - 1 /\ (i - 1) + 1 = i
    OBVIOUS
  <2>3. ASSUME i - 1 # 0, OpenUse(path, orphans, i - 1, t) PROVE Result(t) \in ToSet(content)
    BY <1>1, <2>2, <2>3 DEF RowsAnswer
  <2> QED BY <2>1, <2>3
<1>8. said \in Seq(Message) /\ Alternates(said) /\ AllAnswered(said)
  BY <1>1, <1>3, <1>7, UserAnswers
<1>9. CASE answers = <<>>
  BY <1>6, <1>8, <1>9
<1>10. CASE answers # <<>>
  BY <1>4, <1>6, <1>8, <1>10, NoneOpen
<1> QED BY <1>9, <1>10

\* A row of the model finds nothing open, and leaves open what has no
\* synthetic result.
LEMMA AnswerRowOpens ==
  ASSUME NEW path \in Seq(RowType), NEW orphans \in SUBSET IndexType, IsFiniteSet(orphans),
         NEW i \in 1 .. Len(path), NEW messages \in Seq(Message), Alternates(messages),
         AllButOpen(path, orphans, messages, i - 1), RowsAnswer(path, orphans),
         path[i].type # "user",
         NEW r, r = AddRow(messages, path, orphans, i)
  PROVE  r \in Seq(Message) /\ Alternates(r) /\ AllButOpen(path, orphans, r, i)
<1>1. PICK said, content, answers :
        /\ content = path[i].content
        /\ said = IF Superseded(path, i) THEN messages ELSE AddContent(messages, "assistant", content)
        /\ answers = SyntheticResults(path[i], orphans)
  OBVIOUS
<1>2. path[i] \in RowType /\ i # 0 /\ i \in Nat
  OBVIOUS
<1>3. Role(path[i]) = "assistant" /\ content \in Seq(BlockType)
  BY <1>1, <1>2 DEF RowType, Role
<1>4. answers \in Seq(BlockType)
  BY <1>1, SyntheticListed
<1>6. r = IF answers = <<>> THEN said ELSE AddContent(said, "user", answers)
  BY <1>1, <1>3 DEF AddRow
<1>7. AllAnswered(messages)
  <2> SUFFICES ASSUME NEW q \in 1 .. Len(messages), messages[q].role = "assistant",
                      NEW t \in UsesIn(messages[q].content)
               PROVE  AnsweredAt(messages, q, t)
    BY DEF AllAnswered
  <2>1. \/ AnsweredAt(messages, q, t)
        \/ i - 1 # 0 /\ OpenUse(path, orphans, i - 1, t)
    BY DEF AllButOpen
  <2>2. i - 1 # 0 => i - 1 \in 1 .. Len(path) - 1 /\ (i - 1) + 1 = i
    OBVIOUS
  <2> QED BY <2>1, <2>2 DEF RowsAnswer
<1>8. /\ said \in Seq(Message) /\ Alternates(said)
      /\ \A q \in 1 .. Len(said) : said[q].role = "assistant" =>
           \A t \in UsesIn(said[q].content) :
             \/ AnsweredAt(said, q, t)
             \/ q = Len(said) /\ t \in UsesIn(content)
  <2>1. CASE Superseded(path, i)
    BY <1>1, <1>7, <2>1 DEF AllAnswered
  <2>2. CASE ~ Superseded(path, i)
    <3>1. PICK n : n = Len(messages)
      OBVIOUS
    <3>2. said = AddContent(messages, "assistant", content)
      BY <1>1, <2>2
    <3>a. n \in Nat /\ said \in Seq(Message) /\ Alternates(said)
      BY <1>3, <3>1, <3>2, AnswerAdded
    <3>b. AnswerBehind(messages, content, said)
      BY <1>3, <3>2, AnswerAdded
    <3>3. /\ Len(said) \in Nat /\ said[Len(said)].role = "assistant"
          /\ \A q \in 1 .. Len(said) - 1 : said[q].role = "assistant" =>
               q \in 1 .. n - 1 /\ said[q] = messages[q] /\ said[q + 1] = messages[q + 1]
          /\ \A t \in UsesIn(said[Len(said)].content) :
               \/ t \in UsesIn(content)
               \/ n >= 1 /\ messages[n].role = "assistant" /\ t \in UsesIn(messages[n].content)
      BY <3>1, <3>b DEF AnswerBehind
    <3>4. ASSUME NEW q \in 1 .. Len(said), said[q].role = "assistant",
                 NEW t \in UsesIn(said[q].content)
          PROVE  AnsweredAt(said, q, t) \/ (q = Len(said) /\ t \in UsesIn(content))
      <4>1. CASE q = Len(said)
        <5>1. CASE n >= 1 /\ messages[n].role = "assistant" /\ t \in UsesIn(messages[n].content)
          <6>1. AnsweredAt(messages, n, t)
            <7>1. n \in 1 .. n
              BY <3>a, <5>1
            <7> QED BY <1>7, <3>1, <5>1, <7>1 DEF AllAnswered
          <6>2. n + 1 \in 1 .. n
            BY <3>1, <6>1 DEF AnsweredAt
          <6> QED BY <3>a, <6>2
        <5> QED BY <3>3, <3>4, <4>1, <5>1
      <4>2. CASE q # Len(said)
        <5>1. q \in 1 .. Len(said) - 1 /\ q + 1 \in 1 .. Len(said)
          BY <3>3, <4>2
        <5>2. q \in 1 .. n - 1 /\ said[q] = messages[q] /\ said[q + 1] = messages[q + 1]
          BY <3>3, <3>4, <5>1
        <5>3. q \in 1 .. n
          BY <3>a, <5>2
        <5>4. AnsweredAt(messages, q, t)
          BY <1>7, <3>1, <3>4, <5>2, <5>3 DEF AllAnswered
        <5> QED BY <5>1, <5>2, <5>4 DEF AnsweredAt
      <4> QED BY <4>1, <4>2
    <3> QED BY <3>a, <3>4
  <2> QED BY <2>1, <2>2
<1>9. CASE answers = <<>>
  <2>1. r = said /\ ToSet(answers) = {}
    BY <1>6, <1>9 DEF ToSet
  <2>2. ASSUME NEW q \in 1 .. Len(r), r[q].role = "assistant", NEW t \in UsesIn(r[q].content)
        PROVE  AnsweredAt(r, q, t) \/ (q = Len(r) /\ OpenUse(path, orphans, i, t))
    BY <1>1, <1>8, <2>1, <2>2 DEF OpenUse
  <2> QED BY <1>2, <1>8, <2>1, <2>2 DEF AllButOpen
<1>10. CASE answers # <<>>
  <2>1. PICK n : n = Len(said)
    OBVIOUS
  <2>2. r = AddContent(said, "user", answers)
    BY <1>6, <1>10
  <2>a. n \in Nat /\ r \in Seq(Message) /\ Alternates(r)
    BY <1>4, <1>8, <2>1, <2>2, UserAdded
  <2>b. UserBehind(said, answers, r)
    BY <1>4, <1>8, <2>2, UserAdded
  <2>3. /\ Len(r) \in {n, n + 1} /\ r[Len(r)].role = "user"
        /\ \A q \in 1 .. Len(r) : r[q].role = "assistant" =>
             /\ q \in 1 .. n /\ r[q] = said[q] /\ q + 1 \in 1 .. Len(r)
             /\ q + 1 \in 1 .. n => ToSet(said[q + 1].content) \subseteq ToSet(r[q + 1].content)
             /\ q \in {n - 1, n} => ToSet(answers) \subseteq ToSet(r[q + 1].content)
    BY <2>1, <2>b DEF UserBehind
  <2>4. ASSUME NEW q \in 1 .. Len(r), r[q].role = "assistant", NEW t \in UsesIn(r[q].content)
        PROVE  \/ AnsweredAt(r, q, t)
               \/ q \in {Len(r) - 1, Len(r)} /\ OpenUse(path, orphans, i, t)
    <3>1. /\ q \in 1 .. n /\ r[q] = said[q] /\ q + 1 \in 1 .. Len(r)
          /\ q + 1 \in 1 .. n => ToSet(said[q + 1].content) \subseteq ToSet(r[q + 1].content)
          /\ q \in {n - 1, n} => ToSet(answers) \subseteq ToSet(r[q + 1].content)
      BY <2>3, <2>4
    <3>2. AnsweredAt(said, q, t) \/ (q = n /\ t \in UsesIn(content))
      BY <1>8, <2>1, <2>4, <3>1
    <3>3. CASE AnsweredAt(said, q, t)
      <4>1. q + 1 \in 1 .. n /\ {Result(t), Synthetic(t)} \cap ToSet(said[q + 1].content) # {}
        BY <2>1, <3>3 DEF AnsweredAt
      <4> QED BY <3>1, <4>1 DEF AnsweredAt
    <3>4. CASE q = n /\ t \in UsesIn(content) /\ Synthetic(t) \in ToSet(answers)
      <4>1. q \in {n - 1, n}
        BY <3>4
      <4>2. Synthetic(t) \in ToSet(r[q + 1].content)
        BY <3>1, <3>4, <4>1
      <4> QED BY <3>1, <4>2 DEF AnsweredAt
    <3>5. CASE q = n /\ t \in UsesIn(content) /\ Synthetic(t) \notin ToSet(answers)
      <4>1. OpenUse(path, orphans, i, t)
        BY <1>1, <3>5 DEF OpenUse
      <4>2. q = Len(r) - 1
        BY <2>a, <2>3, <3>1, <3>5
      <4> QED BY <4>1, <4>2
    <3> QED BY <3>2, <3>3, <3>4, <3>5
  <2> QED BY <1>2, <2>a, <2>4 DEF AllButOpen
<1> QED BY <1>9, <1>10

\* So after any number of rows.
LEMMA PathAnswers ==
  ASSUME NEW path \in Seq(RowType), NEW orphans \in SUBSET IndexType, IsFiniteSet(orphans),
         RowsAnswer(path, orphans), NEW ms, ms = BuildMessages(path, orphans)
  PROVE  ms \in Seq(Message) /\ Alternates(ms) /\ AllButOpen(path, orphans, ms, Len(path))
<1> DEFINE B == MessagesBy(path, orphans)
           N == Len(path)
           Good(messages, i) ==
             /\ messages \in Seq(Message) /\ Alternates(messages)
             /\ AllButOpen(path, orphans, messages, i)
           S == {i \in 0 .. N : Good(B[i], i)}
<1>1. N \in Nat
  OBVIOUS
<1>2. B[0] = <<>> /\ \A i \in 1 .. N : B[i] = AddRow(B[i - 1], path, orphans, i)
  BY <1>1, BuiltByRow
<1> HIDE DEF B
<1>3. 0 \in S
  <2>1. <<>> \in Seq(Message) /\ Alternates(<<>>)
    BY DEF Alternates
  <2>2. AllButOpen(path, orphans, <<>>, 0)
    BY DEF AllButOpen
  <2>3. Good(B[0], 0) /\ 0 \in 0 .. N
    BY <1>1, <1>2, <2>1, <2>2
  <2> HIDE DEF Good
  <2> QED BY <2>3
<1>4. ASSUME NEW i \in 1 .. N, i - 1 \in S PROVE i \in S
  <2>1. PICK b : b = B[i - 1]
    OBVIOUS
  <2>2. /\ b \in Seq(Message) /\ Alternates(b) /\ AllButOpen(path, orphans, b, i - 1)
        /\ i \in 0 .. N
    BY <1>4, <2>1
  <2>3. PICK r : r = AddRow(b, path, orphans, i)
    OBVIOUS
  <2>4. r \in Seq(Message) /\ Alternates(r) /\ AllButOpen(path, orphans, r, i)
    <3>1. CASE path[i].type = "user"
      <4>1. r \in Seq(Message) /\ Alternates(r) /\ AllAnswered(r)
        BY <2>2, <2>3, <3>1, UserRowAnswers
      <4> QED BY <4>1 DEF AllAnswered, AllButOpen
    <3>2. CASE path[i].type # "user"
      BY <2>2, <2>3, <3>2, AnswerRowOpens
    <3> QED BY <3>1, <3>2
  <2>5. r = B[i]
    BY <1>2, <2>1, <2>3
  <2> QED BY <2>2, <2>4, <2>5
<1> HIDE DEF S
<1>5. 0 .. N \subseteq S
  BY <1>1, <1>3, <1>4, EveryPlace
<1>6. N \in S
  BY <1>1, <1>5
<1> QED BY <1>6 DEF S, B, BuildMessages

\* Each message says a part of all that is said.
LEMMA SaidParts ==
  ASSUME NEW messages \in Seq(Message), NEW k \in 1 .. Len(messages)
  PROVE  /\ messages[k].content \in Seq(BlockType)
         /\ ToSet(messages[k].content) \subseteq ToSet(AllSaid(messages))
         /\ IsInjective(AllSaid(messages)) => IsInjective(messages[k].content)
<1> DEFINE s == Contents(messages)
           n == Len(messages)
           F == FlattenBy(s)
<1>1. n \in Nat /\ n >= 1 /\ DOMAIN messages = 1 .. n /\ \A i \in 1 .. n : messages[i] \in Message
  OBVIOUS
<1>2. \A i \in 1 .. n : messages[i].content \in Seq(BlockType)
  BY <1>1 DEF Message
<1>3. s \in Seq(Seq(BlockType)) /\ Len(s) = n /\ \A i \in 1 .. n : s[i] = messages[i].content
  BY <1>1, <1>2 DEF Contents
<1> HIDE DEF s
<1>4. /\ FlattenSeq(s) = IF Len(s) = 0 THEN <<>> ELSE F[Len(s)]
      /\ Len(s) >= 1 => F[1] = s[1]
      /\ \A i \in 2 .. Len(s) : F[i] = F[i - 1] \o s[i]
      /\ \A i \in 1 .. Len(s) : F[i] \in Seq(BlockType)
  BY <1>3, FlattenedBy
<1>5. AllSaid(messages) = F[n]
  BY <1>1, <1>3, <1>4 DEF AllSaid, s
<1> HIDE DEF F, n
<1> DEFINE Within(x, y) == ToSet(x) \subseteq ToSet(y) /\ (IsInjective(y) => IsInjective(x))
           S == {j \in 0 .. n - 1 : Within(F[n - j], F[n])}
<1>6. ASSUME NEW i \in 2 .. n PROVE Within(F[i - 1], F[i]) /\ Within(s[i], F[i])
  <2>0. i - 1 \in 1 .. n /\ i \in 1 .. n /\ i \in 2 .. Len(s)
    BY <1>1, <1>3
  <2>1. F[i] = F[i - 1] \o s[i] /\ i - 1 \in 1 .. n /\ i \in 1 .. n
    BY <1>4, <2>0
  <2>2. F[i - 1] \in Seq(BlockType) /\ s[i] \in Seq(BlockType)
    BY <1>3, <1>4, <2>1
  <2>3. PICK x \in Seq(BlockType), y \in Seq(BlockType) : x = F[i - 1] /\ y = s[i]
    BY <2>2
  <2>4. /\ ToSet(x) \subseteq ToSet(x \o y) /\ ToSet(y) \subseteq ToSet(x \o y)
        /\ IsInjective(x \o y) => IsInjective(x) /\ IsInjective(y)
    BY ConcatSays
  <2> QED BY <2>1, <2>3, <2>4
<1>7. 0 \in S
  <2>1. 0 \in 0 .. n - 1 /\ n - 0 = n
    BY <1>1
  <2> QED BY <2>1
<1>8. ASSUME NEW j \in 1 .. n - 1, j - 1 \in S PROVE j \in S
  <2>1. Within(F[n - (j - 1)], F[n])
    BY <1>8
  <2>2. n - (j - 1) \in 2 .. n /\ (n - (j - 1)) - 1 = n - j /\ j \in 0 .. n - 1
    BY <1>1
  <2>3. Within(F[n - j], F[n - (j - 1)])
    BY <1>6, <2>2
  <2> QED BY <2>1, <2>2, <2>3
<1> HIDE DEF S
<1>9. 0 .. n - 1 \subseteq S
  <2>1. n - 1 \in Nat
    BY <1>1
  <2> QED BY <1>7, <1>8, <2>1, EveryPlace
<1>10. ASSUME NEW i \in 1 .. n PROVE Within(F[i], F[n])
  <2>1. n - i \in 0 .. n - 1 /\ n - (n - i) = i
    BY <1>1
  <2>2. n - i \in S
    BY <1>9, <2>1
  <2> QED BY <2>1, <2>2 DEF S
<1>11. k \in 1 .. n
  BY DEF n
<1>12. Within(s[k], F[k])
  <2>1. CASE k = 1
    BY <1>1, <1>3, <1>4, <2>1
  <2>2. CASE k # 1
    <3>1. k \in 2 .. n
      BY <1>11, <2>2
    <3> QED BY <1>6, <3>1
  <2> QED BY <2>1, <2>2
<1>13. Within(s[k], F[n])
  BY <1>10, <1>11, <1>12
<1> QED BY <1>2, <1>3, <1>5, <1>11, <1>13

\* Row after row, each is the parent of the next; the last is the target.
LEMMA NextIsChild ==
  ASSUME NEW a, NEW t, Chain(a, t), FiniteRows(a), RowsGood(a),
         NEW path, path = Path(a), NEW N, N = Cardinality(DOMAIN a)
  PROVE  /\ N \in 1 .. N /\ path[N] = a[t]
         /\ \A i \in 1 .. N : path[i].id \in DOMAIN a /\ path[i] = a[path[i].id]
         /\ \A i \in 1 .. N - 1 : path[i + 1].parent = path[i].id
         /\ \A i, j \in 1 .. N : path[i].id = path[j].id => i = j
<1>1. /\ N \in Nat /\ At(a) \in [1 .. N -> DOMAIN a]
      /\ path = [i \in 1 .. N |-> a[At(a)[i]]]
      /\ \A m \in DOMAIN a : \E i \in 1 .. N : At(a)[i] = m
      /\ \A i, j \in 1 .. N : i < j <=> Precedes(a, At(a)[i], At(a)[j])
  BY PathListed
<1>2. PICK at : at = At(a)
  OBVIOUS
<1>3. \A i \in 1 .. N : at[i] \in DOMAIN a /\ path[i] = a[at[i]] /\ path[i].id = at[i]
  BY <1>1, <1>2 DEF RowsGood
<1>4. /\ \A m \in DOMAIN a : a[m].seq \in Nat /\ m \in Nat /\ a[m].seq <= a[t].seq
      /\ t \in DOMAIN a
      /\ \A m, n \in DOMAIN a : a[m].seq = a[n].seq => m = n
      /\ \A m \in DOMAIN a \ {t} : \E k \in DOMAIN a : a[k].parent = m /\ a[k].seq = a[m].seq + 1
  BY DEF Chain, FiniteRows
<1>5. PICK l \in 1 .. N : at[l] = t
  BY <1>1, <1>2, <1>4
<1>6. N >= 1 /\ N \in 1 .. N
  BY <1>1, <1>5
<1>7. \A i \in 1 .. N : \A j \in 1 .. N : i < j <=> a[at[i]].seq < a[at[j]].seq
  <2> SUFFICES ASSUME NEW i \in 1 .. N, NEW j \in 1 .. N
               PROVE  i < j <=> a[at[i]].seq < a[at[j]].seq
    OBVIOUS
  <2>1. i < j <=> Precedes(a, at[i], at[j])
    BY <1>1, <1>2
  <2>2. at[i] \in DOMAIN a /\ at[j] \in DOMAIN a
    BY <1>3
  <2>3. ~ (at[i] = at[j] /\ at[i] < at[j])
    BY <1>4, <2>2
  <2> QED BY <1>4, <2>1, <2>2, <2>3 DEF Precedes
<1>8. at[N] = t
  <2>1. l = N \/ l < N
    BY <1>1, <1>5
  <2>2. ASSUME l < N PROVE FALSE
    <3>1. a[t].seq < a[at[N]].seq /\ at[N] \in DOMAIN a
      BY <1>3, <1>5, <1>6, <1>7, <2>2
    <3> QED BY <1>4, <3>1
  <2> QED BY <1>5, <2>1, <2>2
<1>9. ASSUME NEW i \in 1 .. N - 1 PROVE path[i + 1].parent = path[i].id
  <2>1. i \in 1 .. N /\ i + 1 \in 1 .. N /\ i < N /\ i < i + 1
    BY <1>1
  <2>2. PICK m, x : m = at[i] /\ x = at[i + 1]
    OBVIOUS
  <2>3. m \in DOMAIN a /\ x \in DOMAIN a
    BY <1>3, <2>1, <2>2
  <2>4. m # t
    BY <1>3, <1>4, <1>6, <1>7, <1>8, <2>1, <2>2
  <2>5. PICK k \in DOMAIN a : a[k].parent = m /\ a[k].seq = a[m].seq + 1
    BY <1>4, <2>3, <2>4
  <2>6. PICK j \in 1 .. N : at[j] = k
    BY <1>1, <1>2
  <2>7. a[m].seq < a[x].seq
    BY <1>7, <2>1, <2>2
  <2>8. ~ (a[k].seq < a[x].seq)
    <3> SUFFICES ASSUME a[k].seq < a[x].seq PROVE FALSE
      OBVIOUS
    <3>1. j < i + 1
      BY <1>7, <2>1, <2>2, <2>6
    <3>2. a[m].seq < a[k].seq
      BY <1>4, <2>3, <2>5
    <3>3. i < j
      BY <1>7, <2>1, <2>2, <2>6, <3>2
    <3> QED BY <2>1, <3>1, <3>3
  <2>9. a[k].seq = a[x].seq
    BY <1>4, <2>3, <2>5, <2>7, <2>8
  <2>10. k = x
    BY <1>4, <2>3, <2>9
  <2> QED BY <1>3, <2>1, <2>2, <2>5, <2>10
<1>10. path[N] = a[t]
  BY <1>3, <1>6, <1>8
<1>11. ASSUME NEW i \in 1 .. N, NEW j \in 1 .. N, path[i].id = path[j].id PROVE i = j
  <2>1. at[i] = at[j] /\ at[i] \in DOMAIN a
    BY <1>3, <1>11
  <2>2. ~ (i < j) /\ ~ (j < i)
    BY <1>4, <1>7, <2>1
  <2> QED BY <1>1, <2>2
<1> QED BY <1>3, <1>6, <1>9, <1>10, <1>11

\* The blocks of tools are named by their ids.
LEMMA UseBlockIs ==
  ASSUME NEW row \in RowType, RowShape(row), NEW b \in ToSet(row.content), b.kind = "use"
  PROVE  b = Use(b.from)
<1>1. row.type \in {"user", "assistant"}
  BY DEF RowType
<1> QED BY <1>1 DEF RowShape, UserBlock, AnswerBlock

\* So are those of results that the caller sent.
LEMMA ResultBlockIs ==
  ASSUME NEW s \in Seq(BlockType), NEW b \in ToSet(s), UserBlock(b), b.kind = "result"
  PROVE  b = Result(b.from)
<1>1. b \in BlockType
  BY DEF ToSet
<1>2. b \in [kind : {"use", "result"}, from : ToolIds, n : {0, 1}]
  BY <1>1 DEF BlockType
<1> QED BY <1>2 DEF UserBlock, Result

\* A tool id has a result on the path or in the message.
AnsweredOn(a, msg, u) ==
  u \in ResultsIn(msg) \/ \E m \in DOMAIN a : u \in ResultsIn(a[m].content)

\* The orphans are the uses on the path that have none.
OrphansRight(a, orphans, msg) ==
  /\ \A e \in orphans :
       /\ e.role = "use" /\ e.node \in DOMAIN a /\ e.tool \in UsesIn(a[e.node].content)
       /\ ~ AnsweredOn(a, msg, e.tool)
  /\ \A n \in DOMAIN a : \A u \in UsesIn(a[n].content) :
       ~ AnsweredOn(a, msg, u) => [node |-> n, tool |-> u, role |-> "use"] \in orphans

\* A use without a synthetic result has a result.
LEMMA OpenIsAnswered ==
  ASSUME NEW a, NEW orphans \in SUBSET IndexType, IsFiniteSet(orphans), NEW msg,
         OrphansRight(a, orphans, msg),
         NEW path, NEW i, path[i].id \in DOMAIN a, path[i] = a[path[i].id],
         NEW u, OpenUse(path, orphans, i, u)
  PROVE  AnsweredOn(a, msg, u)
<1> SUFFICES ASSUME ~ AnsweredOn(a, msg, u) PROVE FALSE
  OBVIOUS
<1> DEFINE e == [node |-> path[i].id, tool |-> u, role |-> "use"]
<1>1. e \in orphans
  BY DEF OrphansRight, OpenUse
<1>2. e.node = path[i].id /\ e.tool = u
  OBVIOUS
<1> HIDE DEF e
<1>3. Synthetic(u) \in {Synthetic(f.tool) : f \in {g \in orphans : g.node = path[i].id}}
  BY <1>1, <1>2
<1> QED BY <1>3, SyntheticListed DEF OpenUse

\* So the next row takes up what a row leaves open.
LEMMA ChainAnswers ==
  ASSUME NEW a, NEW t, Chain(a, t), FiniteRows(a), RowsGood(a),
         \A m \in DOMAIN a : a[m] \in RowType,
         NEW orphans \in SUBSET IndexType, IsFiniteSet(orphans),
         NEW msg, ResultsIn(msg) \subseteq UsesIn(a[t].content), OrphansRight(a, orphans, msg),
         NEW path, path = Path(a), NEW N, N = Cardinality(DOMAIN a)
  PROVE  RowsAnswer(path, orphans)
<1>1. /\ path \in Seq(RowType) /\ Len(path) = N /\ N \in Nat
  BY PathOfRows
<1>2. /\ N \in 1 .. N /\ path[N] = a[t]
      /\ \A i \in 1 .. N : path[i].id \in DOMAIN a /\ path[i] = a[path[i].id]
      /\ \A i \in 1 .. N - 1 : path[i + 1].parent = path[i].id
      /\ \A i, j \in 1 .. N : path[i].id = path[j].id => i = j
  BY NextIsChild
<1>3. /\ \A m \in DOMAIN a : RowShape(a[m]) /\ a[m].id = m
      /\ SaidOnce(a) /\ ResultsBelow(a)
      /\ \A m, n \in DOMAIN a : a[m].parent = a[n].parent => m = n
      /\ \A m, n \in DOMAIN a : a[m].seq = a[n].seq => m = n
  BY DEF RowsGood, Chain
<1>4. ASSUME NEW i \in 1 .. N, path[i].type = "user"
      PROVE  path[i].group = NoGroup /\ UsesIn(path[i].content) = {}
  <2>1. RowShape(path[i])
    BY <1>2, <1>3
  <2>2. path[i].group = NoGroup /\ \A b \in ToSet(path[i].content) : b.kind # "use"
    BY <1>4, <2>1 DEF RowShape, UserBlock
  <2> QED BY <2>2 DEF UsesIn, Blocks
<1>5. ASSUME NEW i \in 1 .. N - 1, NEW u, OpenUse(path, orphans, i, u)
      PROVE  path[i + 1].type = "user" /\ Result(u) \in ToSet(path[i + 1].content)
  <2>1. i \in 1 .. N /\ i + 1 \in 1 .. N /\ i # N
    BY <1>1
  <2>2. PICK m, k : m = path[i].id /\ k = path[i + 1].id
    OBVIOUS
  <2>3. /\ m \in DOMAIN a /\ path[i] = a[m] /\ k \in DOMAIN a /\ path[i + 1] = a[k]
        /\ a[k].parent = m /\ u \in UsesIn(a[m].content)
    BY <1>2, <1>5, <2>1, <2>2 DEF OpenUse
  <2>4. AnsweredOn(a, msg, u)
    BY <1>2, <1>5, <2>1, OpenIsAnswered
  <2>5. u \notin ResultsIn(msg)
    <3> SUFFICES ASSUME u \in UsesIn(a[t].content) PROVE FALSE
      OBVIOUS
    <3>1. PICK x \in ToSet(a[m].content), y \in ToSet(a[t].content) :
            x.kind = "use" /\ x.from = u /\ y.kind = "use" /\ y.from = u
      BY <2>3, ToolsSaid
    <3>2. t \in DOMAIN a
      BY DEF Chain
    <3>3. x = Use(u) /\ y = Use(u)
      <4>1. a[m] \in RowType /\ a[t] \in RowType /\ RowShape(a[m]) /\ RowShape(a[t])
        BY <1>3, <2>3, <3>2
      <4> QED BY <3>1, <4>1, UseBlockIs
    <3>4. m = t
      <4>1. Use(u) \in ToSet(a[m].content) \cap ToSet(a[t].content) /\ Use(u).kind = "use"
        BY <3>1, <3>3 DEF Use
      <4> QED BY <1>3, <2>3, <3>2, <4>1 DEF SaidOnce
    <3>5. path[N].id = t
      BY <1>2, <1>3, <3>2
    <3> QED BY <1>2, <2>1, <2>2, <3>4, <3>5, ZenonT(60)
  <2>6. PICK n \in DOMAIN a : u \in ResultsIn(a[n].content)
    BY <2>4, <2>5 DEF AnsweredOn
  <2>7. a[n].parent = m
    BY <1>3, <2>3, <2>6 DEF ResultsBelow
  <2>8. n = k
    BY <1>3, <2>3, <2>6, <2>7
  <2>9. PICK b \in ToSet(a[k].content) : b.kind = "result" /\ b.from = u
    BY <2>6, <2>8, ToolsSaid
  <2>10. a[k].type = "user"
    <3>1. a[k].type \in {"user", "assistant"}
      BY <2>3 DEF RowType
    <3>2. ASSUME a[k].type = "assistant" PROVE FALSE
      <4>1. AnswerBlock(a[k], b)
        BY <1>3, <2>3, <2>9, <3>2 DEF RowShape
      <4> QED BY <2>9, <4>1 DEF AnswerBlock, Use
    <3> QED BY <3>1, <3>2
  <2>11. b = Result(u)
    <3>1. UserBlock(b)
      BY <1>3, <2>3, <2>9, <2>10 DEF RowShape
    <3>2. a[k].content \in Seq(BlockType)
      BY <2>3 DEF RowType
    <3> QED BY <2>9, <3>1, <3>2, ResultBlockIs
  <2> QED BY <2>3, <2>9, <2>10, <2>11
<1> QED BY <1>1, <1>4, <1>5 DEF RowsAnswer

\* What parts and message say of a tool: a result of the caller, or a
\* synthetic one where there is none.
LEMMA NeverBoth ==
  ASSUME NEW a, FiniteRows(a), RowsGood(a), \A m \in DOMAIN a : a[m] \in RowType,
         NEW orphans \in SUBSET IndexType, IsFiniteSet(orphans),
         NEW msg, \A b \in ToSet(msg) : UserBlock(b), OrphansRight(a, orphans, msg),
         NEW path, path = Path(a), NEW N, N = Cardinality(DOMAIN a),
         NEW said, said = (UNION {Part(path, orphans, k) : k \in 1 .. N}) \cup ToSet(msg),
         NEW u, Synthetic(u) \in said
  PROVE  Result(u) \notin said
<1>1. \A i \in 1 .. N : \E m \in DOMAIN a : path[i] = a[m]
  BY PathOfRows
<1>2. /\ Synthetic(u).n = 1 /\ Result(u).n = 0 /\ Result(u).kind = "result" /\ Result(u).from = u
      /\ Synthetic(u).kind = "result"
      /\ \A x : Synthetic(x).n = 1 /\ Synthetic(x).from = x
  BY DEF Synthetic, Result
<1>3. ASSUME NEW k \in 1 .. N, NEW b \in ToSet(path[k].content) PROVE b.kind = "result" => b.n = 0
  <2>1. PICK m \in DOMAIN a : path[k] = a[m]
    BY <1>1
  <2>2. RowShape(a[m]) /\ a[m].type \in {"user", "assistant"}
    BY DEF RowsGood, RowType
  <2> QED BY <1>3, <2>1, <2>2 DEF RowShape, UserBlock, AnswerBlock, Use
<1>4. \A k \in 1 .. N : ToSet(SyntheticResults(path[k], orphans))
        = {Synthetic(e.tool) : e \in {f \in orphans : f.node = path[k].id}}
  BY SyntheticListed
<1>5. PICK e \in orphans : e.tool = u
  <2>1. Synthetic(u) \notin ToSet(msg)
    BY <1>2 DEF UserBlock
  <2>2. PICK k \in 1 .. N : Synthetic(u) \in Part(path, orphans, k)
    BY <2>1
  <2>3. Synthetic(u) \in ToSet(SyntheticResults(path[k], orphans))
    BY <1>2, <1>3, <2>2 DEF Part
  <2>4. PICK e \in orphans : Synthetic(u) = Synthetic(e.tool)
    BY <1>4, <2>3
  <2> QED BY <1>2, <2>4
<1>6. ~ AnsweredOn(a, msg, u)
  BY <1>5 DEF OrphansRight
<1>7. Result(u) \notin ToSet(msg)
  BY <1>2, <1>6 DEF AnsweredOn, ResultsIn, Blocks
<1>8. ASSUME NEW k \in 1 .. N, Result(u) \in Part(path, orphans, k) PROVE FALSE
  <2>1. Result(u) \notin ToSet(SyntheticResults(path[k], orphans))
    BY <1>2, <1>4
  <2>2. Result(u) \in ToSet(path[k].content)
    BY <1>8, <2>1 DEF Part
  <2>3. PICK m \in DOMAIN a : path[k] = a[m]
    BY <1>1
  <2>4. u \in ResultsIn(a[m].content)
    BY <1>2, <2>2, <2>3 DEF ResultsIn, Blocks
  <2> QED BY <1>6, <2>4 DEF AnsweredOn
<1> QED BY <1>7, <1>8

\* So the request answers every use, and never twice.
LEMMA RequestAnswers ==
  ASSUME NEW a, NEW t, Chain(a, t), FiniteRows(a), RowsGood(a),
         \A m \in DOMAIN a : a[m] \in RowType,
         NEW orphans \in SUBSET IndexType, IsFiniteSet(orphans),
         \A e \in orphans : \A f \in orphans : e.tool = f.tool => e = f,
         NEW msg \in Seq(BlockType), IsInjective(msg), \A b \in ToSet(msg) : UserBlock(b),
         \A n \in DOMAIN a : ToSet(a[n].content) \cap ToSet(msg) = {},
         ResultsIn(msg) \subseteq UsesIn(a[t].content), \A n \in DOMAIN a : a[n].parent # t,
         OrphansRight(a, orphans, msg),
         NEW path, path = Path(a), NEW N, N = Cardinality(DOMAIN a),
         NEW r, r = AddContent(BuildMessages(path, orphans), "user", msg)
  PROVE  /\ r \in Seq(Message) /\ AllAnswered(r)
         /\ \A q \in 1 .. Len(r) :
              /\ r[q].content \in Seq(BlockType) /\ IsInjective(r[q].content)
              /\ \A u : Synthetic(u) \in ToSet(r[q].content) => Result(u) \notin ToSet(r[q].content)
<1>1. path \in Seq(RowType) /\ Len(path) = N /\ N \in Nat
  BY PathOfRows
<1>2. PICK ms : ms = BuildMessages(path, orphans)
  OBVIOUS
<1>3. RowsAnswer(path, orphans)
  BY ChainAnswers
<1>4. ms \in Seq(Message) /\ Alternates(ms) /\ AllButOpen(path, orphans, ms, N)
  BY <1>1, <1>2, <1>3, PathAnswers
<1>5. ASSUME NEW q \in 1 .. Len(ms), ms[q].role = "assistant", NEW u \in UsesIn(ms[q].content)
      PROVE  \/ AnsweredAt(ms, q, u)
             \/ /\ q \in {Len(ms) - 1, Len(ms)}
                /\ {Result(u), Synthetic(u)} \cap ToSet(msg) # {}
  <2>1. \/ AnsweredAt(ms, q, u)
        \/ q \in {Len(ms) - 1, Len(ms)} /\ N # 0 /\ OpenUse(path, orphans, N, u)
    BY <1>4, <1>5 DEF AllButOpen
  <2>2. ASSUME OpenUse(path, orphans, N, u) PROVE Result(u) \in ToSet(msg)
    <3>1. /\ N \in 1 .. N /\ path[N] = a[t] /\ path[N].id \in DOMAIN a /\ path[N] = a[path[N].id]
      BY NextIsChild
    <3>2. AnsweredOn(a, msg, u)
      BY <2>2, <3>1, OpenIsAnswered
    <3>3. \A n \in DOMAIN a : u \notin ResultsIn(a[n].content)
      <4> SUFFICES ASSUME NEW n \in DOMAIN a, u \in ResultsIn(a[n].content) PROVE FALSE
        OBVIOUS
      <4>1. u \in UsesIn(a[t].content) /\ t \in DOMAIN a
        BY <2>2, <3>1 DEF OpenUse, Chain
      <4>2. a[n].parent = t
        BY <4>1 DEF RowsGood, ResultsBelow
      <4> QED BY <4>2
    <3>4. u \in ResultsIn(msg)
      BY <3>2, <3>3 DEF AnsweredOn
    <3>5. PICK b \in ToSet(msg) : b.kind = "result" /\ b.from = u
      BY <3>4, ToolsSaid
    <3> QED BY <3>5, ResultBlockIs
  <2> QED BY <2>1, <2>2
<1>6. r = AddContent(ms, "user", msg)
  BY <1>2
<1>7. r \in Seq(Message) /\ AllAnswered(r)
  BY <1>4, <1>5, <1>6, UserAnswers
<1>8. PICK said : said = (UNION {Part(path, orphans, k) : k \in 1 .. N}) \cup ToSet(msg)
  OBVIOUS
<1>9. IsInjective(AllSaid(r)) /\ ToSet(AllSaid(r)) = said
  <2>1. \A b \in ToSet(msg) : b.n = 0
    BY DEF UserBlock
  <2> QED BY <1>8, <2>1, PathAndMessageOnce
<1>10. ASSUME NEW q \in 1 .. Len(r)
       PROVE  /\ r[q].content \in Seq(BlockType) /\ IsInjective(r[q].content)
              /\ \A u : Synthetic(u) \in ToSet(r[q].content) => Result(u) \notin ToSet(r[q].content)
  <2>1. /\ r[q].content \in Seq(BlockType)
        /\ ToSet(r[q].content) \subseteq said /\ IsInjective(r[q].content)
    BY <1>7, <1>9, SaidParts
  <2>2. \A u : Synthetic(u) \in said => Result(u) \notin said
    BY <1>8, NeverBoth
  <2> QED BY <2>1, <2>2
<1> QED BY <1>7, <1>10

\* One of two blocks in a content that holds one of them and repeats none.
LEMMA OneOfTwo ==
  ASSUME NEW s \in Seq(BlockType), IsInjective(s), NEW x, NEW y,
         {x, y} \cap ToSet(s) # {}, ~ (x \in ToSet(s) /\ y \in ToSet(s)) \/ x = y
  PROVE  Cardinality({j \in DOMAIN s : s[j] \in {x, y}}) = 1
<1> DEFINE J == {j \in DOMAIN s : s[j] \in {x, y}}
<1>1. PICK i \in DOMAIN s : s[i] \in {x, y}
  BY DEF ToSet
<1>2. ASSUME NEW j \in J PROVE j = i
  <2>1. j \in DOMAIN s /\ s[j] \in {x, y} /\ s[j] \in ToSet(s) /\ s[i] \in ToSet(s)
    BY DEF ToSet
  <2>2. s[j] = s[i]
    BY <1>1, <2>1
  <2> QED BY <2>1, <2>2 DEF IsInjective
<1>3. J = {i}
  BY <1>1, <1>2
<1> QED BY <1>3, FS_Singleton

-----------------------------------------------------------------------------
(***************************************************************************)
(* The tool index, as long as no statement fails.                          *)
(***************************************************************************)

\* The steps that matter to the index, by what they do to the call.
Writes(c) ==
  /\ pc[c] = "found"
  /\ pc'[c] = IF ResultsIn(ask[c].msg) = {} THEN "checking" ELSE "indexing"
  /\ ask'[c].user = nextId /\ ask'[c].target = ask[c].target /\ ask'[c].anc = ask[c].anc
  /\ ask'[c].msg = ask[c].msg
  /\ gen'[c].parent = nextId /\ last'[c] = last[c] /\ events'[c] = events[c]
  /\ nextId' = nextId + 1 /\ toolIndex' = toolIndex

FilesResults(c) ==
  /\ pc[c] = "indexing" /\ pc'[c] = "checking"
  /\ ask' = ask /\ gen' = gen /\ last' = last /\ events' = events /\ nodes' = nodes
  /\ toolIndex' = toolIndex \cup Entries(ask[c].user, ResultsIn(ask[c].msg), "result")

Looks(c) ==
  /\ pc[c] = "checking" /\ pc'[c] = "opening"
  /\ ask'[c].user = ask[c].user /\ ask'[c].target = ask[c].target /\ ask'[c].anc = ask[c].anc
  /\ ask'[c].msg = ask[c].msg /\ ask'[c].orphans = GetOrphanedToolUses(PathIds(c))
  /\ gen' = gen /\ last' = last /\ events' = events /\ nodes' = nodes /\ toolIndex' = toolIndex

StoresAnswer(c) ==
  /\ pc[c] = "saving" /\ pc'[c] \in {"indexingUse", "continuing", "closed"}
  /\ NonText(gen[c].resp) => pc'[c] = "indexingUse" /\ gen'[c] = gen[c]
  /\ ~ NonText(gen[c].resp) => pc'[c] # "indexingUse"
  /\ ask' = ask /\ last'[c] = nextId /\ nextId' = nextId + 1 /\ toolIndex' = toolIndex
  /\ gen'[c].parent \in {gen[c].parent, NoNode, nextId}
  /\ pc'[c] # "closed" => events'[c] = events[c]

FilesUses(c) ==
  /\ pc[c] = "indexingUse" /\ pc'[c] = "closed"
  /\ ask' = ask /\ last' = last /\ nodes' = nodes /\ gen'[c].parent = NoNode
  /\ toolIndex' = toolIndex \cup Entries(last[c], gen[c].resp.uses, "use")

OtherStep(c) ==
  /\ pc[c] \notin {"indexing", "indexingUse"}
  /\ pc'[c] \notin {"indexing", "checking", "indexingUse"}
  /\ pc'[c] = "opening" => pc[c] = "idle" /\ ask' = ask
  /\ ask'[c] = ask[c] \/ ask'[c] = NoAsk
  /\ last' = last /\ toolIndex' = toolIndex
  /\ gen'[c].parent \in {gen[c].parent, NoNode} \/ (gen'[c].parent = nextId /\ nextId' = nextId + 1)
  /\ pc'[c] # "closed" => events'[c] \in {events[c], events[c] \o <<"error">>}

\* A call stays or takes one of them.
LEMMA CallMoves ==
  ASSUME MaxFaults = 0, IInv, [Next]_vars, NEW c \in Calls
  PROVE  \/ UNCHANGED Own(c)
         \/ /\ Step(c)
            /\ \/ PromptFrom(c) \/ Writes(c) \/ FilesResults(c) \/ Looks(c) \/ StoresAnswer(c)
               \/ FilesUses(c) \/ OtherStep(c)
<1>1. /\ DOMAIN pc = Calls /\ DOMAIN ask = Calls /\ DOMAIN gen = Calls /\ DOMAIN last = Calls
      /\ DOMAIN events = Calls /\ AskOK(ask[c]) /\ GenOK(gen[c]) /\ TypeOK
      /\ events[c] \in Seq({"saved", "error"})
  BY DEF IInv, TypeOK
<1>2. ~ StoreFault
  BY DEF StoreFault, IInv, TypeOK
<1>3. NoGen.parent = NoNode
  BY DEF NoGen
<1>4. CASE CreateUser(c)
  <2>1. /\ pc[c] = "found"
        /\ pc'[c] = IF ResultsIn(ask[c].msg) = {} THEN "checking" ELSE "indexing"
        /\ ask'[c] = [ask[c] EXCEPT !.user = nextId] /\ gen'[c] = HangFrom(UserRow(c))
        /\ last' = last /\ events' = events /\ toolIndex' = toolIndex /\ nextId' = nextId + 1
    BY <1>1, <1>4 DEF CreateUser, Goto, CreateNode
  <2>2. /\ ask'[c].user = nextId /\ ask'[c].target = ask[c].target /\ ask'[c].anc = ask[c].anc
        /\ ask'[c].msg = ask[c].msg
    BY <1>1, <2>1 DEF AskOK, NoAsk
  <2>3. gen'[c].parent = nextId
    BY <2>1 DEF HangFrom, NoGen, UserRow, Row
  <2> QED BY <1>4, <2>1, <2>2, <2>3 DEF Writes, Step, Work
<1>5. CASE IndexResults(c)
  <2>1. IndexToolIDs(ask[c].user, ResultsIn(ask[c].msg), "result")
    BY <1>2, <1>5 DEF IndexResults
  <2> QED BY <1>1, <1>5, <2>1 DEF IndexResults, Goto, IndexToolIDs, Entries, FilesResults, Step, Work
<1>6. CASE CheckOrphans(c)
  <2>1. /\ ask'[c] = [ask[c] EXCEPT !.orphans = GetOrphanedToolUses(PathIds(c))]
        /\ pc[c] = "checking" /\ pc'[c] = "opening"
        /\ gen' = gen /\ last' = last /\ events' = events /\ nodes' = nodes /\ toolIndex' = toolIndex
    BY <1>1, <1>6 DEF CheckOrphans, Goto, storeVars
  <2>2. /\ ask'[c].user = ask[c].user /\ ask'[c].target = ask[c].target /\ ask'[c].anc = ask[c].anc
        /\ ask'[c].msg = ask[c].msg /\ ask'[c].orphans = GetOrphanedToolUses(PathIds(c))
    BY <1>1, <2>1 DEF AskOK, NoAsk
  <2> QED BY <1>6, <2>1, <2>2 DEF Looks, Step, Work
<1>7. CASE Save(c)
  <2>1. /\ pc[c] = "saving" /\ ask' = ask /\ last'[c] = nextId /\ nextId' = nextId + 1
        /\ toolIndex' = toolIndex
        /\ pc'[c] = IF NonText(gen[c].resp) THEN "indexingUse"
                    ELSE IF ShouldContinue(gen[c].resp, gen[c].tokens) THEN "continuing" ELSE "closed"
    BY <1>1, <1>7 DEF Save, Goto, CreateNode
  <2>2. NonText(gen[c].resp) => ~ ShouldContinue(gen[c].resp, gen[c].tokens)
    BY DEF ShouldContinue
  <2>3. CASE ShouldContinue(gen[c].resp, gen[c].tokens)
    <3>1. gen'[c] = Advance(c)
      BY <1>1, <1>7, <2>3 DEF Save, ShouldContinue
    <3>2. gen'[c].parent = nextId
      BY <1>1, <3>1 DEF Advance, GenOK, NoGen
    <3>3. events'[c] = events[c]
      BY <1>1, <1>7, <2>3 DEF Save, Emit
    <3> QED BY <1>7, <2>1, <2>2, <2>3, <3>2, <3>3 DEF StoresAnswer, Step, Work
  <2>4. CASE ~ ShouldContinue(gen[c].resp, gen[c].tokens) /\ NonText(gen[c].resp)
    <3>1. gen' = gen
      BY <1>7, <2>4 DEF Save
    <3>2. events'[c] = events[c]
      BY <1>1, <1>7, <2>4 DEF Save, Emit
    <3> QED BY <1>7, <2>1, <2>4, <3>1, <3>2 DEF StoresAnswer, Step, Work
  <2>5. CASE ~ ShouldContinue(gen[c].resp, gen[c].tokens) /\ ~ NonText(gen[c].resp)
    <3>1. gen'[c] = NoGen
      BY <1>1, <1>7, <2>5 DEF Save, Return
    <3> QED BY <1>3, <1>7, <2>1, <2>5, <3>1 DEF StoresAnswer, Step, Work
  <2> QED BY <2>2, <2>3, <2>4, <2>5
<1>8. CASE IndexUses(c)
  <2>1. IndexToolIDs(last[c], gen[c].resp.uses, "use")
    BY <1>2, <1>8 DEF IndexUses
  <2>2. gen'[c].parent = NoNode
    BY <1>1, <1>3, <1>8 DEF IndexUses, Return
  <2> QED BY <1>1, <1>8, <2>1, <2>2 DEF IndexUses, Goto, IndexToolIDs, Entries, FilesUses, Step, Work
<1>9. CASE Prompt(c)
  <2>1. /\ pc[c] = "idle" /\ pc'[c] = "opening" /\ gen'[c] = HangFrom(RootRow(c))
        /\ ask' = ask /\ last' = last /\ events' = events /\ toolIndex' = toolIndex /\ nextId' = nextId + 1
    BY <1>1, <1>9 DEF Prompt, Goto, CreateNode
  <2>2. gen'[c].parent = nextId
    BY <2>1 DEF HangFrom, NoGen, RootRow, Row
  <2> QED BY <1>9, <2>1, <2>2 DEF OtherStep, Step
<1>10. CASE OpenStream(c) \/ OpenFails(c) \/ CreateFails(c) \/ CheckFails(c) \/ PromptFromFails(c)
  <2>1. /\ pc[c] \in {"idle", "found", "checking", "opening"} /\ pc'[c] \in {"streaming", "failed"}
        /\ ask'[c] = ask[c] \/ ask'[c] = NoAsk
        /\ last' = last /\ events' = events /\ toolIndex' = toolIndex
        /\ gen'[c] \in {gen[c], NoGen}
    BY <1>1, <1>10 DEF OpenStream, OpenFails, CreateFails, CheckFails, PromptFromFails, Goto, Return,
         storeVars
  <2> QED BY <1>3, <1>10, <2>1 DEF OtherStep, Step, Work
<1>11. CASE Drain(c)
  <2>1. PICK o \in Outcomes : /\ Emit(c, Errors(o)) /\ gen' = [gen EXCEPT ![c] = Accumulate(c, o)]
    BY <1>11 DEF Drain
  <2>2. /\ pc[c] = "streaming" /\ pc'[c] = "saving" /\ ask' = ask /\ last' = last
        /\ toolIndex' = toolIndex
    BY <1>1, <1>11 DEF Drain, Goto, storeVars
  <2>3. gen'[c].parent = gen[c].parent
    BY <1>1, <2>1 DEF Accumulate, GenOK, NoGen
  <2>4. events'[c] = events[c] \o Errors(o) /\ Errors(o) \in {<<>>, <<"error">>}
    BY <1>1, <2>1 DEF Emit, Errors
  <2>5. events[c] \o <<>> = events[c]
    BY <1>1
  <2>6. events'[c] \in {events[c], events[c] \o <<"error">>}
    BY <2>4, <2>5
  <2> QED BY <1>11, <2>2, <2>3, <2>6 DEF OtherStep, Step, Work
<1>12. CASE DrainNothing(c) \/ SaveFails(c) \/ ContinueFails(c)
  <2>1. /\ pc[c] \in {"streaming", "saving", "continuing"} /\ pc'[c] = "closed"
        /\ ask' = ask /\ last' = last /\ toolIndex' = toolIndex /\ gen'[c] = NoGen
    BY <1>1, <1>12 DEF DrainNothing, SaveFails, ContinueFails, Goto, Return, storeVars
  <2> QED BY <1>3, <1>12, <2>1 DEF OtherStep, Step, Work
<1>13. CASE Continue(c)
  <2>1. /\ pc[c] = "continuing" /\ pc'[c] = "streaming"
        /\ ask' = ask /\ last' = last /\ toolIndex' = toolIndex /\ gen' = gen /\ events' = events
    BY <1>1, <1>13 DEF Continue, Goto, storeVars
  <2> QED BY <1>13, <2>1 DEF OtherStep, Step, Work
<1>14. CASE PromptFrom(c)
  BY <1>14 DEF Step
<1> QED BY <1>1, <1>4, <1>5, <1>6, <1>7, <1>8, <1>9, <1>10, <1>11, <1>12, <1>13, <1>14, MovesOrStays
    DEF Step, Work
-----------------------------------------------------------------------------
(***************************************************************************)
(* The index says of the rows what they say, but for the node a call has   *)
(* stored and not indexed yet; and nobody reads that one.                  *)
(***************************************************************************)
Storing == {"indexing", "checking", "indexingUse"}
Pending(c) == pc[c] \in {"indexing", "indexingUse"}

\* The node a call indexes.
Stored(c) == IF pc[c] = "indexingUse" THEN last[c] ELSE ask[c].user

\* Ids in use were handed out.
IdsUsed ==
  /\ \A e \in toolIndex : e.node < nextId
  /\ \A c \in Calls : gen[c].parent < nextId /\ last[c] < nextId /\ ask[c].target < nextId
  /\ \A c \in Calls : pc[c] \in Storing => Stored(c) \in 1 .. nextId - 1

\* A node is announced by a call that has ended.
SavedLast == \A c \in Calls : "saved" \in ToSet(events[c]) => pc[c] = "closed"

NodesApart ==
  \A c \in Calls : \A d \in Calls :
    c # d /\ pc[c] \in Storing /\ pc[d] \in Storing => Stored(c) # Stored(d)

\* Nothing hangs from a node that is not indexed, and no other call has it.
Untouched ==
  \A c \in Calls : Pending(c) =>
    /\ \A m \in DOMAIN nodes : nodes[m].parent # Stored(c)
    /\ \A d \in Calls :
         /\ ask[d].target # Stored(c) /\ Stored(c) \notin DOMAIN ask[d].anc
         /\ gen[d].parent = Stored(c) => d = c
         /\ last[d] = Stored(c) => d = c /\ pc[c] = "indexingUse"

Tools(row, role) == IF role = "use" THEN UsesIn(row.content) ELSE ResultsIn(row.content)

\* What a call is about to index is what its node says.
StoredSays ==
  \A c \in Calls : Pending(c) /\ Stored(c) \in DOMAIN nodes =>
    /\ UsesIn(nodes[Stored(c)].content)
         = (IF pc[c] = "indexingUse" THEN gen[c].resp.uses ELSE {})
    /\ ResultsIn(nodes[Stored(c)].content)
         = (IF pc[c] = "indexing" THEN ResultsIn(ask[c].msg) ELSE {})

EntriesFit(rows) ==
  \A e \in toolIndex : e.node \in DOMAIN rows => e.tool \in Tools(rows[e.node], e.role)

Indexed(n, row) == \A role \in {"use", "result"} : Entries(n, Tools(row, role), role) \subseteq toolIndex

StoreFits ==
  /\ EntriesFit(nodes)
  /\ \A n \in DOMAIN nodes : Indexed(n, nodes[n]) \/ \E c \in Calls : Pending(c) /\ n = Stored(c)

\* So does what a call has read.
HeldFits ==
  \A c \in Calls : Asked(c) =>
    /\ EntriesFit(ask[c].anc)
    /\ \A n \in DOMAIN ask[c].anc : Indexed(n, ask[c].anc[n])

\* Of its own node the index has the results it sends, and nothing else.
OwnFits ==
  \A c \in Calls :
    /\ pc[c] \in {"indexing", "checking"} =>
         \A e \in toolIndex : e.node = ask[c].user =>
           e.role = "result" /\ e.tool \in ResultsIn(ask[c].msg)
    /\ pc[c] = "checking" => Entries(ask[c].user, ResultsIn(ask[c].msg), "result") \subseteq toolIndex

\* Results answer uses of the last row.
RepliesFit ==
  \A c \in Calls : Asked(c) =>
    /\ ResultsIn(ask[c].msg) \subseteq UsesIn(ask[c].anc[ask[c].target].content)
    /\ \A n \in DOMAIN ask[c].anc : ask[c].anc[n].parent # ask[c].target

\* So the orphans are the uses that nothing answers.
OrphansFit ==
  \A c \in Calls : Asked(c) /\ pc[c] = "opening" =>
    OrphansRight(ask[c].anc, ask[c].orphans, ask[c].msg)

IndexInv ==
  /\ IdsUsed /\ SavedLast /\ NodesApart /\ Untouched /\ StoredSays /\ StoreFits
  /\ HeldFits /\ OwnFits /\ RepliesFit /\ OrphansFit

\* A call comes to have a node to index by storing it.
LEMMA StoringComes ==
  ASSUME MaxFaults = 0, IInv, [Next]_vars, NEW c \in Calls, pc'[c] \in Storing
  PROVE  \/ /\ pc[c] \in Storing /\ Stored(c)' = Stored(c)
            /\ pc'[c] # "checking" => UNCHANGED Own(c)
            /\ pc'[c] = "checking" => pc[c] \in {"indexing", "checking"}
         \/ /\ pc[c] \notin Storing /\ Stored(c)' = nextId /\ nextId' = nextId + 1
            /\ Step(c) /\ (Writes(c) \/ StoresAnswer(c)) /\ toolIndex' = toolIndex
<1>1. CASE UNCHANGED Own(c)
  <2>1. pc'[c] = pc[c] /\ ask'[c] = ask[c] /\ last'[c] = last[c]
    BY <1>1 DEF Own
  <2> QED BY <1>1, <2>1 DEF Stored, Storing
<1>2. CASE Writes(c) /\ Step(c)
  <2>1. pc'[c] # "indexingUse" /\ ask'[c].user = nextId /\ nextId' = nextId + 1
        /\ toolIndex' = toolIndex /\ pc[c] = "found"
    BY <1>2 DEF Writes
  <2> QED BY <1>2, <2>1 DEF Stored, Storing
<1>3. CASE StoresAnswer(c) /\ Step(c)
  <2>1. pc'[c] = "indexingUse" /\ last'[c] = nextId /\ nextId' = nextId + 1
        /\ toolIndex' = toolIndex /\ pc[c] = "saving"
    BY <1>3 DEF StoresAnswer, Storing
  <2> QED BY <1>3, <2>1 DEF Stored, Storing
<1>4. CASE FilesResults(c)
  BY <1>4 DEF FilesResults, Stored, Storing
<1>5. CASE PromptFrom(c)
  <2>1. pc'[c] = "found"
    BY <1>5, PathTaken
  <2> QED BY <2>1 DEF Storing
<1>6. CASE Looks(c) \/ FilesUses(c) \/ OtherStep(c)
  BY <1>6 DEF Looks, FilesUses, OtherStep, Storing
<1> QED BY <1>1, <1>2, <1>3, <1>4, <1>5, <1>6, CallMoves

\* The index grows by what a call files for its node.
LEMMA IndexFiles ==
  ASSUME MaxFaults = 0, IInv, [Next]_vars, NEW e \in toolIndex', e \notin toolIndex
  PROVE  \E c \in Calls :
           /\ Pending(c) /\ e.node = Stored(c) /\ nodes' = nodes /\ nextId' = nextId
           /\ pc'[c] \in {"checking", "closed"}
           /\ pc[c] = "indexing" => e.role = "result" /\ e.tool \in ResultsIn(ask[c].msg)
           /\ pc[c] = "indexingUse" => e.role = "use" /\ e.tool \in gen[c].resp.uses
           /\ \A d \in Calls : d # c => UNCHANGED Own(d)
<1>0. DOMAIN pc = Calls /\ TypeOK
  BY DEF IInv, TypeOK
<1>1. CASE \E c \in Calls :
             /\ IndexResults(c)
             /\ toolIndex' = toolIndex \cup Entries(ask[c].user, ResultsIn(ask[c].msg), "result")
  <2>1. PICK c \in Calls :
          /\ IndexResults(c)
          /\ toolIndex' = toolIndex \cup Entries(ask[c].user, ResultsIn(ask[c].msg), "result")
    BY <1>1
  <2>2. e.node = ask[c].user /\ e.role = "result" /\ e.tool \in ResultsIn(ask[c].msg)
    BY <2>1 DEF Entries
  <2>3. pc[c] = "indexing" /\ pc'[c] = "checking" /\ nodes' = nodes /\ nextId' = nextId /\ Step(c)
    BY <1>0, <2>1 DEF IndexResults, Goto, Step, Work
  <2>4. \A d \in Calls : d # c => UNCHANGED Own(d)
    BY <1>0, <2>3, OthersKeep
  <2> QED BY <2>2, <2>3, <2>4 DEF Pending, Stored
<1>2. CASE \E c \in Calls :
             /\ IndexUses(c)
             /\ toolIndex' = toolIndex \cup Entries(last[c], gen[c].resp.uses, "use")
  <2>1. PICK c \in Calls :
          /\ IndexUses(c)
          /\ toolIndex' = toolIndex \cup Entries(last[c], gen[c].resp.uses, "use")
    BY <1>2
  <2>2. e.node = last[c] /\ e.role = "use" /\ e.tool \in gen[c].resp.uses
    BY <2>1 DEF Entries
  <2>3. pc[c] = "indexingUse" /\ pc'[c] = "closed" /\ nodes' = nodes /\ nextId' = nextId /\ Step(c)
    BY <1>0, <2>1 DEF IndexUses, Goto, Step, Work
  <2>4. \A d \in Calls : d # c => UNCHANGED Own(d)
    BY <1>0, <2>3, OthersKeep
  <2> QED BY <2>2, <2>3, <2>4 DEF Pending, Stored
<1> QED BY <1>1, <1>2, IndexGrows

\* The index never shrinks.
LEMMA IndexStays ==
  ASSUME [Next]_vars
  PROVE  toolIndex \subseteq toolIndex'
  BY IndexGrows

\* A new row is of the call that moved.
LEMMA RowOfMover ==
  ASSUME IInv, [Next]_vars, NEW c \in Calls, Step(c), nextId \in DOMAIN nodes',
         NEW row, row = nodes'[nextId]
  PROVE  RootSays(c, row) \/ UserSays(c, row) \/ AnswerIs(c, row)
<1>1. PICK d \in Calls : RootSays(d, row) \/ UserSays(d, row) \/ AnswerIs(d, row)
  BY NewRowSays
<1>2. pc'[d] # pc[d]
  BY <1>1 DEF RootSays, UserSays, AnswerIs
<1>3. ASSUME d # c PROVE FALSE
  <2>1. UNCHANGED Own(d)
    BY <1>3, OthersKeep DEF IInv
  <2> QED BY <1>2, <2>1 DEF Own
<1> QED BY <1>1, <1>3

\* How a call comes by the ids it holds.
LEMMA FieldsMove ==
  ASSUME MaxFaults = 0, IInv, AskHeld, [Next]_vars, NEW c \in Calls
  PROVE  /\ gen'[c].parent \in {gen[c].parent, NoNode} \/ (gen'[c].parent = nextId /\ nextId' = nextId + 1)
         /\ last'[c] = last[c] \/ (last'[c] = nextId /\ nextId' = nextId + 1)
         /\ \/ PromptFrom(c)
            \/ ask'[c] = NoAsk
            \/ /\ ask'[c].target = ask[c].target /\ ask'[c].anc = ask[c].anc
               /\ ask'[c].msg = ask[c].msg
<1>1. CASE UNCHANGED Own(c)
  <2>1. gen'[c] = gen[c] /\ last'[c] = last[c] /\ ask'[c] = ask[c]
    BY <1>1 DEF Own
  <2> QED BY <2>1
<1>2. CASE PromptFrom(c)
  <2>1. gen' = gen /\ last' = last
    BY <1>2, PathTaken
  <2> QED BY <1>2, <2>1
<1>3. CASE Writes(c)
  BY <1>3 DEF Writes
<1>4. CASE FilesResults(c)
  BY <1>4 DEF FilesResults
<1>5. CASE Looks(c)
  BY <1>5 DEF Looks
<1>6. CASE StoresAnswer(c)
  <2>1. gen'[c].parent \in {gen[c].parent, NoNode, nextId} /\ nextId' = nextId + 1 /\ last'[c] = nextId
    BY <1>6 DEF StoresAnswer
  <2>2. ask' = ask
    BY <1>6 DEF StoresAnswer
  <2> QED BY <2>1, <2>2
<1>7. CASE FilesUses(c)
  BY <1>7 DEF FilesUses
<1>8. CASE OtherStep(c)
  <2>1. \/ gen'[c].parent \in {gen[c].parent, NoNode}
        \/ (gen'[c].parent = nextId /\ nextId' = nextId + 1)
    BY <1>8 DEF OtherStep
  <2>2. last' = last /\ (ask'[c] = ask[c] \/ ask'[c] = NoAsk)
    BY <1>8 DEF OtherStep
  <2> QED BY <2>1, <2>2
<1> QED BY <1>1, <1>2, <1>3, <1>4, <1>5, <1>6, <1>7, <1>8, CallMoves

\* Ids in use stay below those to come.
LEMMA NextIdsUsed == MaxFaults = 0 /\ IInv /\ AskHeld /\ IdsUsed /\ [Next]_vars => IdsUsed'
<1> SUFFICES ASSUME MaxFaults = 0, IInv, AskHeld, IdsUsed, [Next]_vars PROVE IdsUsed'
  OBVIOUS
<1>1. nextId \in Nat \ {0} /\ nextId' \in {nextId, nextId + 1}
  BY RowsStay
<1>2. ASSUME NEW e \in toolIndex' PROVE e.node < nextId'
  <2>0. e \in IndexType
    BY StepKeepsTable, <1>2 DEF StoreOK
  <2>1. e.node \in Nat
    BY <2>0 DEF IndexType, NodeId
  <2>2. CASE e \in toolIndex
    BY <1>1, <2>1, <2>2 DEF IdsUsed
  <2>3. CASE e \notin toolIndex
    <3>1. PICK c \in Calls : pc[c] \in Storing /\ e.node = Stored(c)
      BY <2>3, IndexFiles DEF Pending, Storing
    <3>2. e.node \in 1 .. nextId - 1
      BY <3>1 DEF IdsUsed
    <3> QED BY <1>1, <3>2
  <2> QED BY <2>2, <2>3
<1>3. ASSUME NEW c \in Calls
      PROVE  gen'[c].parent < nextId' /\ last'[c] < nextId' /\ ask'[c].target < nextId'
  <2>1. PICK g, l, t : g = gen[c].parent /\ l = last[c] /\ t = ask[c].target
    OBVIOUS
  <2>2. PICK h, k, u : h = gen'[c].parent /\ k = last'[c] /\ u = ask'[c].target
    OBVIOUS
  <2>3. g \in Nat /\ l \in Nat /\ t \in Nat
    BY <2>1 DEF IInv, TypeOK, GenOK, AskOK
  <2>4. g < nextId /\ l < nextId /\ t < nextId
    BY <2>1 DEF IdsUsed
  <2>5. NoGen.parent = 0 /\ NoAsk.target = 0 /\ NoNode = 0
    BY DEF NoGen, NoAsk, NoNode
  <2>6. (h \in {g, 0} \/ (h = nextId /\ nextId' = nextId + 1))
        /\ (k = l \/ (k = nextId /\ nextId' = nextId + 1))
        /\ (u \in {t, 0} \/ u \in DOMAIN nodes)
    <3>1. PromptFrom(c) => ask'[c].target \in DOMAIN nodes
      BY PathTaken
    <3>2. ask'[c] = NoAsk => u = 0
      BY <2>2, <2>5
    <3> QED BY <2>1, <2>2, <2>5, <3>1, <3>2, FieldsMove
  <2>7. \A n \in DOMAIN nodes : n \in Nat /\ n < nextId
    BY <1>1 DEF IInv, TypeOK, StoreOK
  <2> QED BY <1>1, <2>2, <2>3, <2>4, <2>6, <2>7
<1>4. ASSUME NEW c \in Calls, pc'[c] \in Storing PROVE Stored(c)' \in 1 .. nextId' - 1
  <2>1. CASE pc[c] \in Storing /\ Stored(c)' = Stored(c)
    <3>1. Stored(c) \in 1 .. nextId - 1
      BY <2>1 DEF IdsUsed
    <3> QED BY <1>1, <2>1, <3>1
  <2>2. CASE Stored(c)' = nextId /\ nextId' = nextId + 1
    BY <1>1, <2>2
  <2> QED BY <1>4, <2>1, <2>2, StoringComes
<1> QED BY <1>2, <1>3, <1>4 DEF IdsUsed

\* What a call announces it announces at its end.
LEMMA NextSavedLast == MaxFaults = 0 /\ IInv /\ SavedLast /\ [Next]_vars => SavedLast'
<1> SUFFICES ASSUME MaxFaults = 0, IInv, SavedLast, [Next]_vars,
                    NEW c \in Calls, "saved" \in ToSet(events'[c]), pc'[c] # "closed"
             PROVE  FALSE
  BY DEF SavedLast
<1>1. events[c] \in Seq({"saved", "error"})
  BY DEF IInv, TypeOK
<1>2. ASSUME pc[c] # "closed", events'[c] \in {events[c], events[c] \o <<"error">>} PROVE FALSE
  <2>1. "saved" \notin ToSet(events[c])
    BY <1>2 DEF SavedLast
  <2>2. "saved" \notin ToSet(events[c] \o <<"error">>)
    <3>1. PICK s \in Seq({"saved", "error"}) : s = events[c]
      BY <1>1
    <3>2. "saved" \notin ToSet(s)
      BY <2>1, <3>1
    <3>3. \A i \in DOMAIN (s \o <<"error">>) :
            (s \o <<"error">>)[i] = "error" \/ (i \in DOMAIN s /\ (s \o <<"error">>)[i] = s[i])
      OBVIOUS
    <3>4. "saved" \notin ToSet(s \o <<"error">>)
      BY <3>2, <3>3 DEF ToSet
    <3> QED BY <3>1, <3>4
  <2> QED BY <1>2, <2>1, <2>2
<1>3. CASE UNCHANGED Own(c)
  <2>1. pc'[c] = pc[c] /\ events'[c] = events[c]
    BY <1>3 DEF Own
  <2> QED BY <2>1 DEF SavedLast
<1>4. CASE PromptFrom(c)
  <2>1. pc[c] = "idle" /\ events' = events
    BY <1>4, PathTaken
  <2> QED BY <1>2, <2>1
<1>5. CASE Writes(c)
  BY <1>2, <1>5 DEF Writes
<1>6. CASE FilesResults(c)
  BY <1>2, <1>6 DEF FilesResults
<1>7. CASE Looks(c)
  BY <1>2, <1>7 DEF Looks
<1>8. CASE StoresAnswer(c)
  BY <1>2, <1>8 DEF StoresAnswer
<1>9. CASE FilesUses(c)
  BY <1>9 DEF FilesUses
<1>10. CASE OtherStep(c)
  <2>1. pc[c] = "closed" => pc'[c] = "closed"
    BY PhasesMove DEF PhaseMoves, IInv
  <2> QED BY <1>2, <1>10, <2>1 DEF OtherStep
<1> QED BY <1>3, <1>4, <1>5, <1>6, <1>7, <1>8, <1>9, <1>10, CallMoves

\* Two calls never index one node.
LEMMA NextApart == MaxFaults = 0 /\ IInv /\ IdsUsed /\ NodesApart /\ [Next]_vars => NodesApart'
<1> SUFFICES ASSUME MaxFaults = 0, IInv, IdsUsed, NodesApart, [Next]_vars,
                    NEW c \in Calls, NEW d \in Calls, c # d,
                    pc'[c] \in Storing, pc'[d] \in Storing, Stored(c)' = Stored(d)'
             PROVE  FALSE
  BY DEF NodesApart
<1>1. nextId \in Nat
  BY DEF IInv, TypeOK, StoreOK, NodeId
<1>2. \A x \in Calls : pc[x] \in Storing => Stored(x) # nextId
  BY <1>1 DEF IdsUsed
<1>3. CASE pc[c] \in Storing /\ Stored(c)' = Stored(c) /\ pc[d] \in Storing /\ Stored(d)' = Stored(d)
  BY <1>3 DEF NodesApart
<1>4. CASE pc[c] \in Storing /\ Stored(c)' = Stored(c) /\ Stored(d)' = nextId
  BY <1>2, <1>4
<1>5. CASE Stored(c)' = nextId /\ pc[d] \in Storing /\ Stored(d)' = Stored(d)
  BY <1>2, <1>5
<1>6. CASE Step(c) /\ Step(d) /\ pc[c] \notin Storing
  <2>1. UNCHANGED Own(c)
    BY <1>6, OthersKeep DEF IInv
  <2> QED BY <1>6, <2>1 DEF Own
<1> QED BY <1>3, <1>4, <1>5, <1>6, StoringComes

\* A caller continues from a node whose path is indexed.
LEMMA ReadsIndexed ==
  ASSUME ~ AnyNode, IInv, SavedLast, Untouched,
         NEW p \in DOMAIN nodes \cap Targets, NEW c \in Calls, Pending(c)
  PROVE  p # Stored(c) /\ Stored(c) \notin DOMAIN GetAncestors(p)
<1>1. PICK s : s = Stored(c)
  OBVIOUS
<1>2. PICK e \in Calls : p = last[e] /\ "saved" \in ToSet(events[e])
  BY DEF Targets, Announced
<1>3. pc[e] = "closed"
  BY <1>2 DEF SavedLast
<1>4. p # s
  BY <1>1, <1>2, <1>3 DEF Untouched, Pending
<1>5. \A m \in DOMAIN nodes : nodes[m].parent # s
  BY <1>1 DEF Untouched
<1>6. ASSUME s \in AncestorIds(p) PROVE FALSE
  <2>1. PICK k \in AncestorIds(p) : nodes[k].parent = s
    BY <1>4, <1>6, ChildOnPath
  <2>2. k \in DOMAIN nodes
    BY DEF AncestorIds
  <2> QED BY <1>5, <2>1, <2>2
<1>7. DOMAIN GetAncestors(p) = AncestorIds(p)
  BY DEF GetAncestors
<1> QED BY <1>1, <1>4, <1>6, <1>7

\* Nobody but its call gets to a node that is not indexed.
LEMMA NextUntouched ==
  MaxFaults = 0 /\ ~ AnyNode /\ IInv /\ AskHeld /\ IdsUsed /\ SavedLast /\ Untouched /\ [Next]_vars
    => Untouched'
<1> SUFFICES ASSUME MaxFaults = 0, ~ AnyNode, IInv, AskHeld, IdsUsed, SavedLast, Untouched,
                    [Next]_vars, NEW c \in Calls, pc'[c] \in {"indexing", "indexingUse"},
                    NEW s, s = Stored(c)'
             PROVE  /\ \A m \in DOMAIN nodes' : nodes'[m].parent # s
                    /\ \A d \in Calls :
                         /\ ask'[d].target # s /\ s \notin DOMAIN ask'[d].anc
                         /\ gen'[d].parent = s => d = c
                         /\ last'[d] = s => d = c /\ pc'[c] = "indexingUse"
  BY DEF Untouched, Pending
<1>1. /\ nextId \in Nat \ {0} /\ nextId' \in {nextId, nextId + 1}
      /\ \A n \in DOMAIN nodes' : n # nextId => n \in DOMAIN nodes /\ nodes'[n] = nodes[n]
  BY RowsStay
<1>2. \A d \in Calls :
        /\ gen[d].parent < nextId /\ last[d] < nextId /\ ask[d].target < nextId
        /\ gen[d].parent \in Nat /\ last[d] \in Nat /\ ask[d].target \in Nat
        /\ DOMAIN ask[d].anc \subseteq 1 .. nextId - 1
  BY DEF IdsUsed, IInv, TypeOK, GenOK, AskOK
<1>3. DOMAIN NoAsk.anc = {} /\ NoAsk.target = 0 /\ NoNode = 0
  BY DEF NoAsk, NoNode
<1>4. CASE /\ pc[c] \notin Storing /\ s = nextId /\ nextId' = nextId + 1
           /\ Step(c) /\ (Writes(c) \/ StoresAnswer(c))
  <2>1. ASSUME NEW m \in DOMAIN nodes' PROVE nodes'[m].parent # s
    <3>1. ParentsOlder' /\ StoreOK'
      BY StepKeepsTable
    <3>2. nodes'[m].parent < m /\ m \in 1 .. nextId' - 1 /\ nodes'[m].parent \in Nat
      BY <3>1 DEF ParentsOlder, StoreOK, RowType
    <3> QED BY <1>1, <1>4, <3>2
  <2>2. ASSUME NEW d \in Calls
        PROVE  /\ ask'[d].target # s /\ s \notin DOMAIN ask'[d].anc
               /\ gen'[d].parent = s => d = c
               /\ last'[d] = s => d = c /\ pc'[c] = "indexingUse"
    <3>1. ~ (nextId < nextId) /\ nextId \notin 1 .. nextId - 1
      BY <1>1
    <3>2. CASE d # c
      <4>1. UNCHANGED Own(d)
        BY <1>4, <3>2, OthersKeep DEF IInv
      <4>2. ask'[d] = ask[d] /\ gen'[d] = gen[d] /\ last'[d] = last[d]
        BY <4>1 DEF Own
      <4> QED BY <1>2, <1>4, <3>1, <4>2
    <3>3. CASE d = c
      <4>1. ask'[c].target = ask[c].target /\ ask'[c].anc = ask[c].anc
        BY <1>4 DEF Writes, StoresAnswer
      <4>2. last'[c] = last[c] \/ pc'[c] = "indexingUse"
        BY <1>4 DEF Writes, StoresAnswer
      <4> QED BY <1>2, <1>4, <3>1, <3>3, <4>1, <4>2
    <3> QED BY <3>2, <3>3
  <2> QED BY <2>1, <2>2
<1>5. CASE UNCHANGED Own(c) /\ pc[c] \in Storing /\ s = Stored(c)
  <2>1. pc[c] = pc'[c] /\ Pending(c)
    BY <1>5 DEF Own, Pending
  <2>2. s \in 1 .. nextId - 1
    BY <1>5 DEF IdsUsed
  <2>3. s # 0 /\ s # nextId
    BY <1>1, <2>2
  <2>4. /\ \A m \in DOMAIN nodes : nodes[m].parent # s
        /\ \A d \in Calls :
             /\ ask[d].target # s /\ s \notin DOMAIN ask[d].anc
             /\ gen[d].parent = s => d = c
             /\ last[d] = s => d = c /\ pc[c] = "indexingUse"
    BY <1>5, <2>1 DEF Untouched
  <2>5. ASSUME NEW m \in DOMAIN nodes' PROVE nodes'[m].parent # s
    <3>1. CASE m # nextId
      BY <1>1, <2>4, <3>1
    <3>2. CASE m = nextId
      <4>1. PICK d \in Calls :
              \/ Prompt(d) /\ nodes'[nextId] = RootRow(d)
              \/ CreateUser(d) /\ nodes'[nextId] = UserRow(d)
              \/ Save(d) /\ nodes'[nextId] = AssistantRow(d)
        BY <3>2, NewRow
      <4>2. RootRow(d).parent = 0 /\ UserRow(d).parent = ask[d].target
            /\ AssistantRow(d).parent = gen[d].parent
        BY DEF RootRow, UserRow, AssistantRow, Row, NoNode
      <4>3. CASE Save(d) /\ nodes'[nextId] = AssistantRow(d)
        <5>1. pc[d] = "saving"
          BY <4>3 DEF Save, Goto
        <5>2. d # c
          BY <2>1, <5>1 DEF Pending
        <5> QED BY <2>4, <3>2, <4>2, <4>3, <5>2
      <4> QED BY <2>3, <2>4, <3>2, <4>1, <4>2, <4>3
    <3> QED BY <3>1, <3>2
  <2>6. ASSUME NEW d \in Calls, PromptFrom(d)
        PROVE  ask'[d].target # s /\ s \notin DOMAIN ask'[d].anc
    <3>1. PICK p \in DOMAIN nodes \cap Targets : ask'[d].anc = GetAncestors(p) /\ ask'[d].target = p
      BY <2>6, PathTaken
    <3>2. p # s /\ s \notin DOMAIN GetAncestors(p)
      BY <1>5, <2>1, ReadsIndexed
    <3> QED BY <3>1, <3>2
  <2>7. ASSUME NEW d \in Calls
        PROVE  /\ ask'[d].target # s /\ s \notin DOMAIN ask'[d].anc
               /\ gen'[d].parent = s => d = c
               /\ last'[d] = s => d = c /\ pc'[c] = "indexingUse"
    <3>1. /\ gen'[d].parent \in {gen[d].parent, 0, nextId} /\ last'[d] \in {last[d], nextId}
          /\ \/ PromptFrom(d)
             \/ ask'[d] = NoAsk
             \/ ask'[d].target = ask[d].target /\ ask'[d].anc = ask[d].anc
      BY <1>3, FieldsMove
    <3>2. ask'[d].target # s /\ s \notin DOMAIN ask'[d].anc
      BY <1>3, <2>3, <2>4, <2>6, <3>1
    <3> QED BY <2>1, <2>3, <2>4, <3>1, <3>2
  <2> QED BY <2>5, <2>7
<1>6. pc'[c] \in Storing /\ pc'[c] # "checking"
  BY DEF Storing
<1> QED BY <1>4, <1>5, <1>6, StoringComes

\* The tools of a response are in the content that is stored of it.
LEMMA AnswerUses ==
  ASSUME IInv, NEW c \in Calls, NonText(gen[c].resp)
  PROVE  gen[c].resp.uses \subseteq UsesIn(NodeContent(c))
<1> DEFINE S == {Use(t) : t \in gen[c].resp.uses}
<1>1. PICK p, u : p = Piece(c, gen[c].resp, Len(gen[c].acc)) /\ u = UseBlocks(gen[c].resp)
  OBVIOUS
<1>2. /\ gen[c].acc \in Seq(BlockType) /\ Len(gen[c].acc) \in Nat
      /\ IsFiniteSet(gen[c].resp.uses) /\ gen[c].resp.uses \subseteq ToolIds
  BY OutcomeFacts DEF IInv, TypeOK, GenOK, OutcomeType
<1>3. p \in Seq(BlockType)
  BY <1>1, <1>2, PieceTyped
<1>4. IsFiniteSet(S) /\ S \in SUBSET BlockType
  <2>1. IsFiniteSet(S)
    BY <1>2, UseBlocksFinite
  <2>2. S \in SUBSET BlockType
    BY <1>2 DEF Use, BlockType
  <2> QED BY <2>1, <2>2
<1>5. u \in Seq(BlockType) /\ ToSet(u) = S
  <2>1. u = SetToSeq(S)
    BY <1>1 DEF UseBlocks
  <2> HIDE DEF S
  <2> QED BY <1>4, <2>1, SetListed
<1>6. NodeContent(c) = p \o u
  BY <1>1 DEF NodeContent
<1>7. S \subseteq ToSet(p \o u)
  BY <1>3, <1>5, ConcatSays
<1>8. \A t \in gen[c].resp.uses : Use(t) \in ToSet(p \o u) /\ Use(t).kind = "use" /\ Use(t).from = t
  BY <1>7 DEF Use
<1> QED BY <1>6, <1>8 DEF UsesIn, Blocks

\* What a call stores is what it will index.
LEMMA NextStoredSays ==
  MaxFaults = 0 /\ IInv /\ Pieces /\ Messages /\ IdsUsed /\ StoredSays /\ [Next]_vars => StoredSays'
<1> SUFFICES ASSUME MaxFaults = 0, IInv, Pieces, Messages, IdsUsed, StoredSays, [Next]_vars,
                    NEW c \in Calls, pc'[c] \in {"indexing", "indexingUse"},
                    NEW s, s = Stored(c)', s \in DOMAIN nodes',
                    NEW row, row = nodes'[s]
             PROVE  /\ UsesIn(row.content) = (IF pc'[c] = "indexingUse" THEN gen'[c].resp.uses ELSE {})
                    /\ ResultsIn(row.content)
                         = (IF pc'[c] = "indexing" THEN ResultsIn(ask'[c].msg) ELSE {})
  BY DEF StoredSays, Pending
<1>1. /\ nextId \in Nat \ {0}
      /\ \A n \in DOMAIN nodes' : n # nextId => n \in DOMAIN nodes /\ nodes'[n] = nodes[n]
  BY RowsStay
<1>2. CASE UNCHANGED Own(c) /\ pc[c] \in Storing /\ s = Stored(c)
  <2>1. pc'[c] = pc[c] /\ gen'[c] = gen[c] /\ ask'[c] = ask[c] /\ Pending(c)
    BY <1>2 DEF Own, Pending
  <2>2. s \in 1 .. nextId - 1
    BY <1>2 DEF IdsUsed
  <2>3. s # nextId
    BY <1>1, <2>2
  <2>4. s \in DOMAIN nodes /\ row = nodes[s]
    BY <1>1, <2>3
  <2> QED BY <1>2, <2>1, <2>4 DEF StoredSays
<1>3. CASE s = nextId /\ Step(c) /\ Writes(c)
  <2>1. RootSays(c, row) \/ UserSays(c, row) \/ AnswerIs(c, row)
    BY <1>3, RowOfMover
  <2>2. pc[c] = "found" /\ ask'[c].msg = ask[c].msg /\ pc'[c] = "indexing"
    BY <1>3 DEF Writes
  <2>3. UserSays(c, row)
    BY <2>1, <2>2 DEF RootSays, AnswerIs
  <2> QED BY <2>2, <2>3, NewRowTools
<1>4. CASE s = nextId /\ Step(c) /\ StoresAnswer(c)
  <2>1. RootSays(c, row) \/ UserSays(c, row) \/ AnswerIs(c, row)
    BY <1>4, RowOfMover
  <2>2. pc[c] = "saving" /\ pc'[c] = "indexingUse" /\ gen'[c] = gen[c] /\ NonText(gen[c].resp)
    BY <1>4 DEF StoresAnswer
  <2>3. AnswerIs(c, row)
    BY <2>1, <2>2 DEF RootSays, UserSays
  <2>4. UsesIn(row.content) \subseteq gen[c].resp.uses /\ ResultsIn(row.content) = {}
    BY <2>3, NewRowTools
  <2>5. gen[c].resp.uses \subseteq UsesIn(row.content)
    BY <2>2, <2>3, AnswerUses DEF AnswerIs
  <2> QED BY <2>2, <2>4, <2>5
<1>5. pc'[c] \in Storing /\ pc'[c] # "checking"
  BY DEF Storing
<1> QED BY <1>2, <1>3, <1>4, <1>5, StoringComes

\* The index says of a row what the row says.
LEMMA NextEntriesFit ==
  MaxFaults = 0 /\ IInv /\ IdsUsed /\ StoredSays /\ EntriesFit(nodes) /\ [Next]_vars
    => EntriesFit(nodes)'
<1> SUFFICES ASSUME MaxFaults = 0, IInv, IdsUsed, StoredSays, EntriesFit(nodes), [Next]_vars,
                    NEW e \in toolIndex', e.node \in DOMAIN nodes'
             PROVE  e.tool \in Tools(nodes'[e.node], e.role)
  BY DEF EntriesFit
<1>1. CASE e \in toolIndex
  <2>1. e.node < nextId /\ nextId \in Nat
    BY <1>1, RowsStay DEF IdsUsed
  <2>2. e.node # nextId
    BY <2>1
  <2>3. e.node \in DOMAIN nodes /\ nodes'[e.node] = nodes[e.node]
    BY <2>2, RowsStay
  <2> QED BY <1>1, <2>3 DEF EntriesFit
<1>2. CASE e \notin toolIndex
  <2>1. PICK c \in Calls :
          /\ Pending(c) /\ e.node = Stored(c) /\ nodes' = nodes
          /\ pc[c] = "indexing" => e.role = "result" /\ e.tool \in ResultsIn(ask[c].msg)
          /\ pc[c] = "indexingUse" => e.role = "use" /\ e.tool \in gen[c].resp.uses
    BY <1>2, IndexFiles
  <2>2. /\ UsesIn(nodes[e.node].content) = (IF pc[c] = "indexingUse" THEN gen[c].resp.uses ELSE {})
        /\ ResultsIn(nodes[e.node].content)
             = (IF pc[c] = "indexing" THEN ResultsIn(ask[c].msg) ELSE {})
    BY <2>1 DEF StoredSays
  <2>3. pc[c] \in {"indexing", "indexingUse"}
    BY <2>1 DEF Pending
  <2> QED BY <2>1, <2>2, <2>3 DEF Tools
<1> QED BY <1>1, <1>2

\* A new row without tools has nothing to index; the others wait for it.
LEMMA NewRowWaits ==
  ASSUME MaxFaults = 0, IInv, Pieces, Messages, [Next]_vars, nextId \in DOMAIN nodes',
         NEW row, row = nodes'[nextId]
  PROVE  \/ UsesIn(row.content) = {} /\ ResultsIn(row.content) = {}
         \/ \E c \in Calls : pc'[c] \in {"indexing", "indexingUse"} /\ nextId = Stored(c)'
<1>1. PICK c \in Calls : \/ Prompt(c) /\ row = RootRow(c)
                         \/ CreateUser(c) /\ row = UserRow(c)
                         \/ Save(c) /\ row = AssistantRow(c)
  BY NewRow
<1>2. Step(c) /\ DOMAIN pc = Calls /\ DOMAIN ask = Calls /\ DOMAIN last = Calls /\ AskOK(ask[c])
  BY <1>1 DEF Step, Work, IInv, TypeOK
<1>3. RootSays(c, row) \/ UserSays(c, row) \/ AnswerIs(c, row)
  BY <1>2, RowOfMover
<1>4. CASE Prompt(c)
  <2>1. pc[c] = "idle"
    BY <1>4 DEF Prompt, Goto
  <2>2. RootSays(c, row)
    BY <1>3, <2>1 DEF UserSays, AnswerIs
  <2> QED BY <2>2, NewRowTools
<1>5. CASE CreateUser(c)
  <2>1. /\ pc[c] = "found" /\ ask'[c] = [ask[c] EXCEPT !.user = nextId]
        /\ pc'[c] = IF ResultsIn(ask[c].msg) = {} THEN "checking" ELSE "indexing"
    BY <1>2, <1>5 DEF CreateUser, Goto
  <2>2. ask'[c].user = nextId
    BY <1>2, <2>1 DEF AskOK, NoAsk
  <2>3. UserSays(c, row)
    BY <1>3, <2>1 DEF RootSays, AnswerIs
  <2>4. UsesIn(row.content) = {} /\ ResultsIn(row.content) = ResultsIn(ask[c].msg)
    BY <2>3, NewRowTools
  <2>5. pc'[c] = "indexing" => Stored(c)' = nextId
    BY <2>2 DEF Stored
  <2> QED BY <2>1, <2>4, <2>5
<1>6. CASE Save(c)
  <2>1. /\ pc[c] = "saving" /\ last'[c] = nextId
        /\ NonText(gen[c].resp) => pc'[c] = "indexingUse"
    BY <1>2, <1>6 DEF Save, Goto
  <2>2. AnswerIs(c, row)
    BY <1>3, <2>1 DEF RootSays, UserSays
  <2>3. UsesIn(row.content) \subseteq gen[c].resp.uses /\ ResultsIn(row.content) = {}
    BY <2>2, NewRowTools
  <2>4. pc'[c] = "indexingUse" => Stored(c)' = nextId
    BY <2>1 DEF Stored
  <2> QED BY <2>1, <2>3, <2>4 DEF NonText
<1> QED BY <1>1, <1>4, <1>5, <1>6

\* A row that was about to be indexed is, or still waits.
LEMMA PendingFiled ==
  ASSUME MaxFaults = 0, IInv, StoredSays, [Next]_vars,
         NEW c \in Calls, Pending(c), NEW n, n = Stored(c), n \in DOMAIN nodes,
         NEW row, row = nodes[n]
  PROVE  \/ pc'[c] \in {"indexing", "indexingUse"} /\ n = Stored(c)'
         \/ \A role \in {"use", "result"} : Entries(n, Tools(row, role), role) \subseteq toolIndex'
<1>1. /\ UsesIn(row.content) = (IF pc[c] = "indexingUse" THEN gen[c].resp.uses ELSE {})
      /\ ResultsIn(row.content) = (IF pc[c] = "indexing" THEN ResultsIn(ask[c].msg) ELSE {})
      /\ pc[c] \in {"indexing", "indexingUse"}
  BY DEF StoredSays, Pending
<1>2. \A role : Entries(n, {}, role) = {}
  BY DEF Entries
<1>3. Tools(row, "use") = UsesIn(row.content) /\ Tools(row, "result") = ResultsIn(row.content)
  BY DEF Tools
<1>4. CASE UNCHANGED Own(c)
  <2>1. pc'[c] = pc[c] /\ ask'[c] = ask[c] /\ last'[c] = last[c]
    BY <1>4 DEF Own
  <2> QED BY <1>1, <2>1 DEF Stored
<1>5. CASE FilesResults(c)
  <2>1. pc[c] = "indexing" /\ n = ask[c].user
    BY <1>5 DEF FilesResults, Stored
  <2>2. Entries(n, ResultsIn(ask[c].msg), "result") \subseteq toolIndex'
    BY <1>5, <2>1 DEF FilesResults
  <2> QED BY <1>1, <1>2, <1>3, <2>1, <2>2
<1>6. CASE FilesUses(c)
  <2>1. pc[c] = "indexingUse" /\ n = last[c]
    BY <1>6 DEF FilesUses, Stored
  <2>2. Entries(n, gen[c].resp.uses, "use") \subseteq toolIndex'
    BY <1>6, <2>1 DEF FilesUses
  <2> QED BY <1>1, <1>2, <1>3, <2>1, <2>2
<1>7. ~ PromptFrom(c)
  BY <1>1, PathTaken
<1>8. ~ Writes(c) /\ ~ Looks(c) /\ ~ StoresAnswer(c) /\ ~ OtherStep(c)
  BY <1>1 DEF Writes, Looks, StoresAnswer, OtherStep
<1> QED BY <1>4, <1>5, <1>6, <1>7, <1>8, CallMoves

\* The index and the table fit.
LEMMA NextStoreFits ==
  MaxFaults = 0 /\ IInv /\ Pieces /\ Messages /\ IdsUsed /\ StoredSays /\ StoreFits /\ [Next]_vars
    => StoreFits'
<1> SUFFICES ASSUME MaxFaults = 0, IInv, Pieces, Messages, IdsUsed, StoredSays, StoreFits,
                    [Next]_vars
             PROVE  StoreFits'
  OBVIOUS
<1>1. EntriesFit(nodes)'
  BY NextEntriesFit DEF StoreFits
<1>2. ASSUME NEW n \in DOMAIN nodes', NEW row, row = nodes'[n]
      PROVE  \/ \A role \in {"use", "result"} : Entries(n, Tools(row, role), role) \subseteq toolIndex'
             \/ \E c \in Calls : pc'[c] \in {"indexing", "indexingUse"} /\ n = Stored(c)'
  <2>1. CASE n # nextId
    <3>1. n \in DOMAIN nodes /\ row = nodes[n]
      BY <1>2, <2>1, RowsStay
    <3>2. ASSUME Indexed(n, nodes[n])
          PROVE  \A role \in {"use", "result"} :
                   Entries(n, Tools(row, role), role) \subseteq toolIndex'
      BY <3>1, <3>2, IndexStays DEF Indexed
    <3>3. ASSUME NEW c \in Calls, Pending(c), n = Stored(c)
          PROVE  \/ pc'[c] \in {"indexing", "indexingUse"} /\ n = Stored(c)'
                 \/ \A role \in {"use", "result"} :
                      Entries(n, Tools(row, role), role) \subseteq toolIndex'
      BY <3>1, <3>3, PendingFiled
    <3> QED BY <3>1, <3>2, <3>3 DEF StoreFits
  <2>2. CASE n = nextId
    <3>1. ASSUME UsesIn(row.content) = {}, ResultsIn(row.content) = {}
          PROVE  \A role \in {"use", "result"} :
                   Entries(n, Tools(row, role), role) \subseteq toolIndex'
      BY <3>1 DEF Tools, Entries
    <3> QED BY <1>2, <2>2, <3>1, NewRowWaits
  <2> QED BY <2>1, <2>2
<1> QED BY <1>1, <1>2 DEF StoreFits, Indexed, Pending

\* What a call read fits too.
LEMMA NextHeldFits ==
  MaxFaults = 0 /\ ~ AnyNode /\ IInv /\ AskHeld /\ SavedLast /\ Untouched /\ StoreFits /\ HeldFits
    /\ [Next]_vars => HeldFits'
<1> SUFFICES ASSUME MaxFaults = 0, ~ AnyNode, IInv, AskHeld, SavedLast, Untouched, StoreFits,
                    HeldFits, [Next]_vars, NEW c \in Calls, pc'[c] \in Asking, ask'[c] # NoAsk,
                    NEW a, a = ask'[c].anc
             PROVE  /\ \A e \in toolIndex' : e.node \in DOMAIN a => e.tool \in Tools(a[e.node], e.role)
                    /\ \A n \in DOMAIN a : \A role \in {"use", "result"} :
                         Entries(n, Tools(a[n], role), role) \subseteq toolIndex'
  BY DEF HeldFits, Asked, EntriesFit, Indexed
<1>1. CASE PromptFrom(c)
  <2>1. PICK p \in DOMAIN nodes \cap Targets : a = GetAncestors(p) /\ toolIndex' = toolIndex
    BY <1>1, PathTaken
  <2>2. /\ DOMAIN a \subseteq DOMAIN nodes /\ \A n \in DOMAIN a : a[n] = nodes[n]
    BY <2>1 DEF GetAncestors, AncestorIds
  <2>3. \A e \in toolIndex : e.node \in DOMAIN a => e.tool \in Tools(a[e.node], e.role)
    BY <2>2 DEF StoreFits, EntriesFit
  <2>4. ASSUME NEW n \in DOMAIN a PROVE Indexed(n, nodes[n])
    <3>1. \A d \in Calls : Pending(d) => n # Stored(d)
      BY <2>1, ReadsIndexed
    <3> QED BY <2>2, <3>1 DEF StoreFits
  <2> QED BY <2>1, <2>2, <2>3, <2>4 DEF Indexed
<1>2. CASE Asked(c) /\ a = ask[c].anc
  <2>1. /\ EntriesFit(a) /\ \A n \in DOMAIN a : Indexed(n, a[n])
    BY <1>2 DEF HeldFits
  <2>2. ASSUME NEW e \in toolIndex', e.node \in DOMAIN a PROVE e \in toolIndex
    <3> SUFFICES ASSUME e \notin toolIndex PROVE FALSE
      OBVIOUS
    <3>1. PICK d \in Calls : Pending(d) /\ e.node = Stored(d)
      BY IndexFiles
    <3> QED BY <1>2, <2>2, <3>1 DEF Untouched
  <2> QED BY <2>1, <2>2, IndexStays DEF EntriesFit, Indexed
<1> QED BY <1>1, <1>2, AskStays

\* So does what it has filed itself.
LEMMA NextOwnFits ==
  MaxFaults = 0 /\ IInv /\ IdsUsed /\ NodesApart /\ OwnFits /\ [Next]_vars => OwnFits'
<1> SUFFICES ASSUME MaxFaults = 0, IInv, IdsUsed, NodesApart, OwnFits, [Next]_vars,
                    NEW c \in Calls, pc'[c] \in {"indexing", "checking"},
                    NEW u, u = ask'[c].user, NEW R, R = ResultsIn(ask'[c].msg)
             PROVE  /\ \A e \in toolIndex' : e.node = u => e.role = "result" /\ e.tool \in R
                    /\ pc'[c] = "checking" => Entries(u, R, "result") \subseteq toolIndex'
  BY DEF OwnFits
<1>1. CASE UNCHANGED Own(c)
  <2>1. pc'[c] = pc[c] /\ u = ask[c].user /\ R = ResultsIn(ask[c].msg)
    BY <1>1 DEF Own
  <2>2. pc[c] \in Storing /\ u = Stored(c) /\ ~ (pc'[c] = "closed")
    BY <2>1 DEF Stored, Storing
  <2>3. ASSUME NEW e \in toolIndex', e.node = u PROVE e \in toolIndex
    <3> SUFFICES ASSUME e \notin toolIndex PROVE FALSE
      OBVIOUS
    <3>1. PICK d \in Calls : Pending(d) /\ e.node = Stored(d) /\ pc'[d] \in {"checking", "closed"}
      BY IndexFiles
    <3>2. pc[d] \in Storing /\ pc[d] \in {"indexing", "indexingUse"}
      BY <3>1 DEF Pending, Storing
    <3>3. d = c
      BY <2>2, <2>3, <3>1, <3>2 DEF NodesApart
    <3> QED BY <2>1, <3>1, <3>2, <3>3
  <2> QED BY <2>1, <2>3, IndexStays DEF OwnFits
<1>2. CASE Writes(c)
  <2>1. /\ u = nextId /\ toolIndex' = toolIndex /\ R = ResultsIn(ask[c].msg)
        /\ pc'[c] = "checking" => R = {}
    BY <1>2 DEF Writes
  <2>2. \A e \in toolIndex : e.node < nextId
    BY DEF IdsUsed
  <2>3. nextId \in Nat
    BY RowsStay
  <2>4. \A e \in toolIndex : e.node # nextId
    BY <2>2, <2>3
  <2>5. Entries(u, {}, "result") = {}
    BY DEF Entries
  <2> QED BY <2>1, <2>4, <2>5
<1>3. CASE FilesResults(c)
  <2>1. /\ pc[c] = "indexing" /\ u = ask[c].user /\ R = ResultsIn(ask[c].msg)
        /\ toolIndex' = toolIndex \cup Entries(u, R, "result")
    BY <1>3 DEF FilesResults
  <2>2. \A e \in Entries(u, R, "result") : e.role = "result" /\ e.tool \in R
    BY DEF Entries
  <2> QED BY <2>1, <2>2 DEF OwnFits
<1>4. ~ PromptFrom(c)
  BY PathTaken
<1>5. ~ Looks(c) /\ ~ StoresAnswer(c) /\ ~ FilesUses(c) /\ ~ OtherStep(c)
  BY DEF Looks, StoresAnswer, FilesUses, OtherStep
<1> QED BY <1>1, <1>2, <1>3, <1>4, <1>5, CallMoves

\* A reply answers the last row of the path, which has no row below it there.
LEMMA NextRepliesFit == IInv /\ AskHeld /\ RepliesFit /\ [Next]_vars => RepliesFit'
<1> SUFFICES ASSUME IInv, AskHeld, RepliesFit, [Next]_vars,
                    NEW c \in Calls, pc'[c] \in Asking, ask'[c] # NoAsk,
                    NEW a, a = ask'[c].anc, NEW t, t = ask'[c].target, NEW m, m = ask'[c].msg
             PROVE  /\ ResultsIn(m) \subseteq UsesIn(a[t].content)
                    /\ \A n \in DOMAIN a : a[n].parent # t
  BY DEF RepliesFit, Asked
<1>1. CASE PromptFrom(c)
  <2>1. PICK p \in DOMAIN nodes : a = GetAncestors(p) /\ t = p /\ m \in Replies(c, p)
    BY <1>1, PathTaken
  <2>2. /\ DOMAIN a \subseteq DOMAIN nodes /\ \A n \in DOMAIN a : a[n] = nodes[n]
    BY <2>1 DEF GetAncestors, AncestorIds
  <2>3. p \in DOMAIN a /\ \A n \in DOMAIN a : a[n].seq <= a[p].seq
    BY <2>1, PathIsChain DEF Chain
  <2>4. ResultsIn(m) \subseteq UsesIn(a[t].content)
    BY <2>1, <2>2, <2>3, ReplySays
  <2>5. ASSUME NEW n \in DOMAIN a, a[n].parent = p PROVE FALSE
    <3>1. ChildFollowsParent /\ StoreOK
      BY DEF IInv, TypeOK, TreeInv
    <3>2. nodes[n].seq = nodes[p].seq + 1
      BY <2>2, <2>5, <3>1 DEF ChildFollowsParent
    <3>3. nodes[p].seq \in Nat /\ nodes[n].seq <= nodes[p].seq
      BY <2>2, <2>3, <3>1 DEF StoreOK, RowType
    <3> QED BY <3>2, <3>3
  <2> QED BY <2>1, <2>4, <2>5
<1>2. CASE Asked(c) /\ a = ask[c].anc /\ t = ask[c].target /\ m = ask[c].msg
  BY <1>2 DEF RepliesFit
<1> QED BY <1>1, <1>2, AskStays

\* On an index that fits the path and the message, the orphans are the uses
\* that nothing answers.
LEMMA OrphansOfPath ==
  ASSUME NEW a, NEW msg, NEW u, EntriesFit(a), \A n \in DOMAIN a : Indexed(n, a[n]),
         \A e \in toolIndex : e.node = u => e.role = "result" /\ e.tool \in ResultsIn(msg),
         Entries(u, ResultsIn(msg), "result") \subseteq toolIndex
  PROVE  OrphansRight(a, GetOrphanedToolUses(DOMAIN a \cup {u}), msg)
<1> DEFINE ids == DOMAIN a \cup {u}
           found == {e.tool : e \in {f \in toolIndex : f.node \in ids /\ f.role = "result"}}
<1>1. GetOrphanedToolUses(ids) = {e \in toolIndex : e.node \in ids /\ e.role = "use" /\ e.tool \notin found}
  BY DEF GetOrphanedToolUses
<1>2. ASSUME NEW x PROVE AnsweredOn(a, msg, x) <=> x \in found
  <2>1. ASSUME NEW s, x \in ResultsIn(msg) \/ (s \in DOMAIN a /\ x \in ResultsIn(a[s].content))
        PROVE  x \in found
    <3>1. CASE x \in ResultsIn(msg)
      <4>1. [node |-> u, tool |-> x, role |-> "result"] \in toolIndex
        BY <3>1 DEF Entries
      <4> QED BY <4>1
    <3>2. CASE s \in DOMAIN a /\ x \in ResultsIn(a[s].content)
      <4>1. [node |-> s, tool |-> x, role |-> "result"] \in Entries(s, Tools(a[s], "result"), "result")
        BY <3>2 DEF Entries, Tools
      <4>2. [node |-> s, tool |-> x, role |-> "result"] \in toolIndex
        BY <3>2, <4>1 DEF Indexed
      <4> QED BY <3>2, <4>2
    <3> QED BY <2>1, <3>1, <3>2
  <2>2. ASSUME x \in found PROVE AnsweredOn(a, msg, x)
    <3>1. PICK e \in toolIndex : e.node \in ids /\ e.role = "result" /\ e.tool = x
      BY <2>2
    <3>2. e.node \in DOMAIN a => x \in ResultsIn(a[e.node].content)
      BY <3>1 DEF EntriesFit, Tools
    <3>3. e.node = u => x \in ResultsIn(msg)
      BY <3>1
    <3> QED BY <3>1, <3>2, <3>3 DEF AnsweredOn
  <2> QED BY <2>1, <2>2 DEF AnsweredOn
<1>3. ASSUME NEW e \in GetOrphanedToolUses(ids)
      PROVE  /\ e.role = "use" /\ e.node \in DOMAIN a /\ e.tool \in UsesIn(a[e.node].content)
             /\ ~ AnsweredOn(a, msg, e.tool)
  <2>1. e \in toolIndex /\ e.node \in ids /\ e.role = "use" /\ e.tool \notin found
    BY <1>1, <1>3
  <2>2. e.node \in DOMAIN a
    BY <2>1
  <2>3. e.tool \in UsesIn(a[e.node].content)
    BY <2>1, <2>2 DEF EntriesFit, Tools
  <2>4. ~ AnsweredOn(a, msg, e.tool)
    BY <1>2, <2>1
  <2> QED BY <2>1, <2>2, <2>3, <2>4
<1>4. ASSUME NEW n \in DOMAIN a, NEW x \in UsesIn(a[n].content), ~ AnsweredOn(a, msg, x)
      PROVE  [node |-> n, tool |-> x, role |-> "use"] \in GetOrphanedToolUses(ids)
  <2>1. [node |-> n, tool |-> x, role |-> "use"] \in Entries(n, Tools(a[n], "use"), "use")
    BY <1>4 DEF Entries, Tools
  <2>2. [node |-> n, tool |-> x, role |-> "use"] \in toolIndex
    BY <1>4, <2>1 DEF Indexed
  <2>3. x \notin found
    BY <1>2, <1>4
  <2> HIDE DEF found
  <2> QED BY <1>1, <1>4, <2>2, <2>3
<1> QED BY <1>3, <1>4 DEF OrphansRight

\* And such orphans a call holds.
LEMMA NextOrphansFit ==
  MaxFaults = 0 /\ IInv /\ AskHeld /\ HeldFits /\ OwnFits /\ OrphansFit /\ [Next]_vars
    => OrphansFit'
<1> SUFFICES ASSUME MaxFaults = 0, IInv, AskHeld, HeldFits, OwnFits, OrphansFit, [Next]_vars,
                    NEW c \in Calls, ask'[c] # NoAsk, pc'[c] = "opening"
             PROVE  OrphansRight(ask'[c].anc, ask'[c].orphans, ask'[c].msg)
  BY DEF OrphansFit, Asked
<1>1. CASE UNCHANGED Own(c)
  <2>1. pc'[c] = pc[c] /\ ask'[c] = ask[c]
    BY <1>1 DEF Own
  <2>2. Asked(c)
    BY <2>1 DEF Asked, Asking
  <2> QED BY <2>1, <2>2 DEF OrphansFit
<1>2. CASE Looks(c)
  <2>1. PICK a, msg, u : a = ask[c].anc /\ msg = ask[c].msg /\ u = ask[c].user
    OBVIOUS
  <2>2. /\ pc[c] = "checking" /\ ask'[c].anc = a /\ ask'[c].msg = msg
        /\ ask'[c].orphans = GetOrphanedToolUses(DOMAIN a \cup {u})
    BY <1>2, <2>1 DEF Looks, PathIds
  <2>3. Asked(c)
    BY <2>2 DEF Asked, Asking, AskHeld
  <2>4. EntriesFit(a) /\ \A n \in DOMAIN a : Indexed(n, a[n])
    BY <2>1, <2>3 DEF HeldFits
  <2>5. /\ \A e \in toolIndex : e.node = u => e.role = "result" /\ e.tool \in ResultsIn(msg)
        /\ Entries(u, ResultsIn(msg), "result") \subseteq toolIndex
    BY <2>1, <2>2 DEF OwnFits
  <2>6. OrphansRight(a, GetOrphanedToolUses(DOMAIN a \cup {u}), msg)
    BY <2>4, <2>5, OrphansOfPath
  <2> QED BY <2>2, <2>6
<1>3. CASE OtherStep(c)
  BY <1>3 DEF OtherStep, AskHeld
<1>4. ~ PromptFrom(c)
  BY PathTaken
<1>5. ~ Writes(c) /\ ~ FilesResults(c) /\ ~ StoresAnswer(c) /\ ~ FilesUses(c)
  BY DEF Writes, FilesResults, StoresAnswer, FilesUses
<1> QED BY <1>1, <1>2, <1>3, <1>4, <1>5, CallMoves

\* All of it goes on.
LEMMA NextIndexInv ==
  MaxFaults = 0 /\ ~ AnyNode /\ IInv /\ AskHeld /\ PieceInv /\ IndexInv /\ [Next]_vars => IndexInv'
<1> SUFFICES ASSUME MaxFaults = 0, ~ AnyNode, IInv, AskHeld, PieceInv, IndexInv, [Next]_vars
             PROVE  IndexInv'
  OBVIOUS
<1>1. /\ IdsUsed /\ SavedLast /\ NodesApart /\ Untouched /\ StoredSays /\ StoreFits
      /\ HeldFits /\ OwnFits /\ RepliesFit /\ OrphansFit
  BY DEF IndexInv
<1>2. Pieces /\ Messages
  BY DEF PieceInv
<1>3. IdsUsed' /\ SavedLast' /\ NodesApart' /\ Untouched'
  BY <1>1, NextIdsUsed, NextSavedLast, NextApart, NextUntouched
<1>4. StoredSays' /\ StoreFits'
  BY <1>1, <1>2, NextStoredSays, NextStoreFits
<1>5. HeldFits' /\ OwnFits'
  BY <1>1, NextHeldFits, NextOwnFits
<1>6. RepliesFit' /\ OrphansFit'
  BY <1>1, NextRepliesFit, NextOrphansFit
<1> QED BY <1>3, <1>4, <1>5, <1>6 DEF IndexInv

\* At the start there is nothing to index.
LEMMA InitIndexInv == Init => IndexInv
<1> SUFFICES ASSUME Init PROVE IndexInv
  OBVIOUS
<1>1. /\ DOMAIN nodes = {} /\ toolIndex = {} /\ nextId = 1
      /\ \A c \in Calls : /\ pc[c] = "idle" /\ ask[c] = NoAsk /\ gen[c] = NoGen
                         /\ last[c] = NoNode /\ events[c] = <<>>
  BY DEF Init, StoreInit
<1>2. \A c \in Calls : gen[c].parent = 0 /\ last[c] = 0 /\ ask[c].target = 0
  BY <1>1 DEF NoAsk, NoGen, NoNode
<1>3. ToSet(<<>>) = {}
  BY DEF ToSet
<1>4. IdsUsed /\ NodesApart
  BY <1>1, <1>2 DEF IdsUsed, NodesApart, Storing
<1>5. SavedLast
  BY <1>1, <1>3 DEF SavedLast
<1>6. Untouched /\ StoredSays /\ OwnFits
  BY <1>1 DEF Untouched, StoredSays, OwnFits, Pending
<1>7. StoreFits /\ HeldFits /\ RepliesFit /\ OrphansFit
  BY <1>1 DEF StoreFits, EntriesFit, HeldFits, RepliesFit, OrphansFit, Asked
<1> QED BY <1>4, <1>5, <1>6, <1>7 DEF IndexInv

\* Every tool use of a request is answered in the message behind it, by the
\* caller or for it, and once (injectSyntheticToolResults): if providers
\* repeat no tool id, calls continue from announced nodes, and the database
\* fails no statement, whatever is deleted meanwhile.
THEOREM ToolsAnswered ==
  FreshToolIds /\ ~ AnyNode /\ MaxFaults = 0 /\ Spec => []ToolUsesAnswered
<1> SUFFICES ASSUME FreshToolIds, ~ AnyNode, MaxFaults = 0 PROVE Spec => []ToolUsesAnswered
  OBVIOUS
<1> DEFINE Turns == RootInv /\ TurnInv
           Groups == GroupsFresh /\ GroupsRepeated /\ TextGroupSelfContained
<1>1. Init => Turns /\ Groups /\ PieceInv /\ IndexInv
  BY RootedAtFirst, InitTurn, InitGroups, InitPiece, InitIndexInv
     DEF GroupsRepeated, TextGroupSelfContained
<1>2. IInv /\ Turns /\ Groups /\ PieceInv /\ IndexInv /\ [Next]_vars
        => Turns' /\ Groups' /\ PieceInv' /\ IndexInv'
  <2>1. IInv /\ Turns /\ [Next]_vars => Turns'
    BY NextRooted, NextHeld, NextFinite, NextAsks DEF TurnInv
  <2>2. IInv /\ Groups /\ [Next]_vars => Groups'
    BY NextFresh, NextRepeated
  <2>3. IInv /\ Turns /\ Groups /\ PieceInv /\ [Next]_vars => PieceInv'
    BY NextPiece DEF TurnInv
  <2>4. IInv /\ Turns /\ PieceInv /\ IndexInv /\ [Next]_vars => IndexInv'
    BY NextIndexInv DEF TurnInv
  <2> QED BY <2>1, <2>2, <2>3, <2>4
<1>3. IInv /\ Turns /\ PieceInv /\ IndexInv => ToolUsesAnswered
  <2> SUFFICES ASSUME IInv, TurnInv, PieceInv, IndexInv, NEW c \in Calls, Sent(c),
                      NEW r, r = Request(c), NEW i \in DOMAIN r, r[i].role = "assistant",
                      NEW u \in UsesIn(r[i].content)
               PROVE  Cardinality({j \in DOMAIN r[i + 1].content :
                                     r[i + 1].content[j] \in {Result(u), Synthetic(u)}}) = 1
    BY DEF ToolUsesAnswered
  <2>1. PICK a, N, path, orphans, msg, t :
          /\ a = ask[c].anc /\ N = Cardinality(DOMAIN a) /\ path = Path(a)
          /\ orphans = ask[c].orphans /\ msg = ask[c].msg /\ t = ask[c].target
    OBVIOUS
  <2>2. Asked(c) /\ pc[c] = "opening"
    BY DEF Sent, Asked, Asking
  <2>3. /\ FiniteRows(a) /\ \A m \in DOMAIN a : a[m] \in RowType
        /\ msg \in Seq(BlockType) /\ orphans \in SUBSET IndexType /\ IsFiniteSet(orphans)
    BY <2>1, <2>2, AskedRows
  <2>4. /\ Chain(a, t) /\ RowsGood(a)
        /\ \A n \in DOMAIN a : ToSet(a[n].content) \cap ToSet(msg) = {}
    BY <2>1, <2>2 DEF PieceInv, HeldPaths
  <2>5. /\ \A e \in orphans : \A f \in orphans : e.tool = f.tool => e = f
        /\ IsInjective(msg) /\ \A b \in ToSet(msg) : UserBlock(b)
    BY <2>1 DEF PieceInv, OrphansOnce, Messages
  <2>6. /\ ResultsIn(msg) \subseteq UsesIn(a[t].content) /\ \A n \in DOMAIN a : a[n].parent # t
        /\ OrphansRight(a, orphans, msg)
    BY <2>1, <2>2 DEF IndexInv, RepliesFit, OrphansFit
  <2>7. r = AddContent(BuildMessages(path, orphans), "user", msg)
    BY <2>1 DEF Request, RequestMessages
  <2>8. path = Path(a) /\ N = Cardinality(DOMAIN a)
    BY <2>1
  <2>9. /\ r \in Seq(Message) /\ AllAnswered(r)
        /\ \A q \in 1 .. Len(r) :
             /\ r[q].content \in Seq(BlockType) /\ IsInjective(r[q].content)
             /\ \A x : Synthetic(x) \in ToSet(r[q].content) => Result(x) \notin ToSet(r[q].content)
    BY <2>3, <2>4, <2>5, <2>6, <2>7, <2>8, RequestAnswers
  <2>10. AnsweredAt(r, i, u)
    BY <2>9 DEF AllAnswered
  <2>11. PICK s : s = r[i + 1].content
    OBVIOUS
  <2>12. /\ s \in Seq(BlockType) /\ IsInjective(s) /\ {Result(u), Synthetic(u)} \cap ToSet(s) # {}
         /\ ~ (Result(u) \in ToSet(s) /\ Synthetic(u) \in ToSet(s))
    BY <2>9, <2>10, <2>11 DEF AnsweredAt
  <2>13. Cardinality({j \in DOMAIN s : s[j] \in {Result(u), Synthetic(u)}}) = 1
    BY <2>12, OneOfTwo
  <2> QED BY <2>11, <2>13
<1> QED BY <1>1, <1>2, <1>3, Inductive, PTL DEF Spec
=============================================================================
