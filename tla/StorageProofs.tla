--------------------------- MODULE StorageProofs ---------------------------
(***************************************************************************)
(* Theorems about what is done to the node store besides conversations:    *)
(* about Migrations, for any number of processes that open the database or *)
(* die, and about LangGraphImport, for any exports and any number of runs, *)
(* deaths and failures of the import.                                      *)
(***************************************************************************)
EXTENDS LangGraphImport, Migrations, TLAPS, FiniteSetTheorems, WellFoundedInduction


-----------------------------------------------------------------------------
(***************************************************************************)
(* The list of the migrations.                                             *)
(***************************************************************************)
Changing == {"create", "add", "fill"}

\* A migration writes the version, its own number, in its last statement only.
EndsWithVersion(l, m) ==
  /\ DOMAIN l = 1 .. Len(l) /\ Len(l) \in Nat \ {0}
  /\ \A i \in DOMAIN l : l[i].op \notin Changing => i = Len(l) /\ l[i].to = m

\* A migration of two statements.
LEMMA TwoStatements ==
  ASSUME NEW m, NEW a, NEW z, a.op \in Changing, z.to = m
  PROVE  EndsWithVersion(<<a, z>>, m)
BY DEF EndsWithVersion

\* A migration of three statements.
LEMMA ThreeStatements ==
  ASSUME NEW m, NEW a, NEW b, NEW z, a.op \in Changing, b.op \in Changing, z.to = m
  PROVE  EndsWithVersion(<<a, b, z>>, m)
BY DEF EndsWithVersion

\* A migration of four statements.
LEMMA FourStatements ==
  ASSUME NEW m, NEW a, NEW b, NEW c, NEW z,
         a.op \in Changing, b.op \in Changing, c.op \in Changing, z.to = m
  PROVE  EndsWithVersion(<<a, b, c, z>>, m)
BY DEF EndsWithVersion

\* A migration of five statements.
LEMMA FiveStatements ==
  ASSUME NEW m, NEW a, NEW b, NEW c, NEW d, NEW z,
         a.op \in Changing, b.op \in Changing, c.op \in Changing, d.op \in Changing, z.to = m
  PROVE  EndsWithVersion(<<a, b, c, d, z>>, m)
BY DEF EndsWithVersion

\* What the statements are.
LEMMA StatementFacts ==
  /\ \A x : Create(x).op \in Changing /\ Add(x).op \in Changing /\ Fill(x).op \in Changing
  /\ \A v : Version(v).to = v
  /\ First.to = 1
BY DEF Create, Add, Fill, Version, First, Changing

\* The migrations of the code end with their version (migrations.go).
LEMMA ListShape ==
  /\ Len(MigrationList) = 9
  /\ \A m \in 1 .. 9 : EndsWithVersion(MigrationList[m], m)
<1>1. Len(MigrationList) = 9
  BY DEF MigrationList
<1>2. EndsWithVersion(MigrationList[1], 1)
  BY StatementFacts, FourStatements DEF MigrationList
<1>3. EndsWithVersion(MigrationList[2], 2)
  BY StatementFacts, FourStatements DEF MigrationList
<1>4. EndsWithVersion(MigrationList[3], 3)
  BY StatementFacts, ThreeStatements DEF MigrationList
<1>5. EndsWithVersion(MigrationList[4], 4)
  BY StatementFacts, TwoStatements DEF MigrationList
<1>6. EndsWithVersion(MigrationList[5], 5)
  BY StatementFacts, TwoStatements DEF MigrationList
<1>7. EndsWithVersion(MigrationList[6], 6)
  BY StatementFacts, FiveStatements DEF MigrationList
<1>8. EndsWithVersion(MigrationList[7], 7)
  BY StatementFacts, FiveStatements DEF MigrationList
<1>9. EndsWithVersion(MigrationList[8], 8)
  BY StatementFacts, TwoStatements DEF MigrationList
<1>10. EndsWithVersion(MigrationList[9], 9)
  BY StatementFacts, ThreeStatements DEF MigrationList
<1>11. \A m \in 1 .. 9 : m = 1 \/ m = 2 \/ m = 3 \/ m = 4 \/ m = 5 \/ m = 6 \/ m = 7 \/ m = 8 \/ m = 9
  OBVIOUS
<1> QED BY <1>1, <1>2, <1>3, <1>4, <1>5, <1>6, <1>7, <1>8, <1>9, <1>10, <1>11

-----------------------------------------------------------------------------
(***************************************************************************)
(* The inductive invariant.                                                *)
(***************************************************************************)
\* What the statements of a migration before the given one change.
DoneBefore(m, s) == {MigrationList[m][i].what :
                   i \in {j \in 1 .. s - 1 : MigrationList[m][j].op \in Changing}}

\* The rows of schema_version stand for what is done.
VersionsDone ==
  /\ versions \subseteq 1 .. 9
  /\ \A v \in versions : DoneUpTo(v) \subseteq schema

\* A process has done, or found done, all that comes before its statement.
OpenersDone ==
  /\ opener \in [Openers -> [pc : {"opening", "running", "ready", "failed"},
                             migration : Nat, statement : Nat]]
  /\ \A p \in Openers : LET o == opener[p] IN
       /\ o.pc = "running" =>
            /\ o.migration \in 1 .. 9 /\ o.statement \in 1 .. Len(MigrationList[o.migration])
            /\ DoneUpTo(o.migration - 1) \subseteq schema
            /\ DoneBefore(o.migration, o.statement) \subseteq schema
       /\ o.pc = "ready" => DoneUpTo(9) \subseteq schema

MigrationInv == VersionsDone /\ OpenersDone

\* One more statement of a migration.
LEMMA BeforeNext ==
  ASSUME NEW m \in 1 .. 9, NEW s \in 1 .. Len(MigrationList[m]), NEW done,
         DoneBefore(m, s) \subseteq done,
         MigrationList[m][s].op \in Changing => MigrationList[m][s].what \in done
  PROVE  DoneBefore(m, s + 1) \subseteq done
<1>1. Len(MigrationList[m]) \in Nat
  BY ListShape DEF EndsWithVersion
<1>2. 1 .. (s + 1) - 1 = 1 .. s /\ \A j \in 1 .. s : j \in 1 .. s - 1 \/ j = s
  BY <1>1
<1> QED BY <1>2 DEF DoneBefore

\* A migration has a first statement.
LEMMA FirstStatement ==
  ASSUME NEW m \in 1 .. 9
  PROVE  1 \in 1 .. Len(MigrationList[m])
<1>1. Len(MigrationList[m]) \in Nat \ {0}
  BY ListShape DEF EndsWithVersion
<1> QED BY <1>1

\* All the statements of a migration.
LEMMA BeforeEnd ==
  ASSUME NEW m \in 1 .. 9, NEW done,
         DoneUpTo(m - 1) \subseteq done, DoneBefore(m, Len(MigrationList[m]) + 1) \subseteq done
  PROVE  DoneUpTo(m) \subseteq done
<1>1. Changes(m) \subseteq DoneBefore(m, Len(MigrationList[m]) + 1)
  <2>1. DOMAIN MigrationList[m] = 1 .. (Len(MigrationList[m]) + 1) - 1
    BY ListShape DEF EndsWithVersion
  <2> QED BY <2>1 DEF Changes, DoneBefore, Changing
<1>2. \A k \in 1 .. m : k \in 1 .. m - 1 \/ k = m
  OBVIOUS
<1> QED BY <1>1, <1>2 DEF DoneUpTo

\* Nothing comes before the first statement, nor before the first migration.
LEMMA BeforeStart == DoneUpTo(0) = {} /\ \A m : DoneBefore(m, 1) = {}
BY DEF DoneUpTo, DoneBefore

\* What is done stays done.
LEMMA DoneStays ==
  ASSUME OpenersDone, NEW done, schema \subseteq done, NEW p \in Openers
  PROVE  LET o == opener[p] IN
         /\ o.pc = "running" =>
              /\ DoneUpTo(o.migration - 1) \subseteq done
              /\ DoneBefore(o.migration, o.statement) \subseteq done
         /\ o.pc = "ready" => DoneUpTo(9) \subseteq done
BY DEF OpenersDone

\* The version that is read is one of the rows.
LEMMA VersionRead ==
  ASSUME VersionsDone, versions # {}
  PROVE  (CHOOSE w \in versions : \A x \in versions : w <= x) \in versions
<1>1. \A x \in versions : x \in 1 .. 9
  BY DEF VersionsDone
<1>2. \E w \in versions : \A x \in versions : w <= x
  <2> DEFINE From(n) == \A x \in versions : n <= x
  <2>1. SUFFICES ASSUME \A w \in versions : ~ From(w) PROVE FALSE
    OBVIOUS
  <2>2. From(1)
    BY <1>1
  <2>3. \A n \in 1 .. 9 : From(n) => From(n + 1)
    BY <1>1, <2>1
  <2>4. From(10)
    <3>1. From(4)
      BY <2>2, <2>3
    <3>2. From(7)
      BY <2>3, <3>1
    <3> QED BY <2>3, <3>2
  <2> QED BY <1>1, <2>4
<1> QED BY <1>2

\* A process reads the version.
LEMMA ReadKeeps ==
  ASSUME MigrationInv, NEW p \in Openers, ReadVersion(p)
  PROVE  MigrationInv'
<1> DEFINE v == IF versions = {} THEN 0
                ELSE CHOOSE w \in versions : \A x \in versions : w <= x
<1>1. v \in 0 .. 9 /\ DoneUpTo(v) \subseteq schema
  <2>1. CASE versions = {}
    BY <2>1, BeforeStart
  <2>2. CASE versions # {}
    <3>1. v \in versions
      BY <2>2, VersionRead DEF MigrationInv
    <3> HIDE DEF v
    <3> QED BY <3>1 DEF MigrationInv, VersionsDone
  <2> QED BY <2>1, <2>2
<1>2. /\ opener' = [opener EXCEPT ![p] = [pc |-> IF v < Len(MigrationList) THEN "running" ELSE "ready",
                                         migration |-> v + 1, statement |-> 1]]
      /\ schema' = schema /\ versions' = versions
  BY DEF ReadVersion
<1> HIDE DEF v
<1>3. VersionsDone'
  BY <1>2 DEF MigrationInv, VersionsDone
<1>4. /\ opener \in [Openers -> [pc : {"opening", "running", "ready", "failed"},
                                 migration : Nat, statement : Nat]]
      /\ Len(MigrationList) = 9
  BY ListShape DEF MigrationInv, OpenersDone
<1>5. opener' \in [Openers -> [pc : {"opening", "running", "ready", "failed"},
                               migration : Nat, statement : Nat]]
  BY <1>1, <1>2, <1>4
<1>6. ASSUME NEW q \in Openers
      PROVE  LET o == opener'[q] IN
             /\ o.pc = "running" =>
                  /\ o.migration \in 1 .. 9 /\ o.statement \in 1 .. Len(MigrationList[o.migration])
                  /\ DoneUpTo(o.migration - 1) \subseteq schema
                  /\ DoneBefore(o.migration, o.statement) \subseteq schema
             /\ o.pc = "ready" => DoneUpTo(9) \subseteq schema
  <2>1. CASE q # p
    BY <1>2, <1>4, <2>1 DEF MigrationInv, OpenersDone
  <2>2. CASE q = p
    <3>1. opener'[q] = [pc |-> IF v < Len(MigrationList) THEN "running" ELSE "ready",
                        migration |-> v + 1, statement |-> 1]
      BY <1>2, <1>4, <2>2
    <3>2. CASE v < 9
      <4>1. v + 1 \in 1 .. 9 /\ (v + 1) - 1 = v
        BY <1>1, <3>2
      <4>2. 1 \in 1 .. Len(MigrationList[v + 1])
        BY <4>1, FirstStatement
      <4>3. DoneUpTo((v + 1) - 1) \subseteq schema /\ DoneBefore(v + 1, 1) \subseteq schema
        BY <1>1, <4>1, BeforeStart
      <4> QED BY <1>4, <3>1, <3>2, <4>1, <4>2, <4>3
    <3>3. CASE v = 9
      BY <1>1, <1>4, <3>1, <3>3
    <3> QED BY <1>1, <3>2, <3>3
  <2> QED BY <2>1, <2>2
<1>7. OpenersDone'
  BY <1>2, <1>5, <1>6 DEF OpenersDone
<1> QED BY <1>3, <1>7 DEF MigrationInv

\* The effect of a statement on the schema and on the version.
LEMMA StatementDone ==
  ASSUME MigrationInv, NEW p \in Openers, Execute(p)
  PROVE  LET o == opener[p]
             last == Len(MigrationList[o.migration])
         IN /\ schema \subseteq schema'
            /\ DoneBefore(o.migration, o.statement + 1) \subseteq schema'
            /\ o.statement = last => DoneUpTo(o.migration) \subseteq schema'
            /\ VersionsDone'
<1> DEFINE m == opener[p].migration
           s == opener[p].statement
           st == MigrationList[m][s]
<1>1. /\ m \in 1 .. 9 /\ s \in 1 .. Len(MigrationList[m])
      /\ DoneUpTo(m - 1) \subseteq schema /\ DoneBefore(m, s) \subseteq schema
  BY DEF MigrationInv, OpenersDone, Execute
<1>2. \/ /\ st.op \in Changing /\ schema' = schema \cup {st.what} /\ versions' = versions
      \/ /\ st.op = "first" /\ versions' = versions \cup {st.to} /\ schema' = schema
      \/ /\ st.op = "version" /\ versions' = {st.to : v \in versions} /\ schema' = schema
  BY DEF Execute, Statement, Changing
<1>3. /\ EndsWithVersion(MigrationList[m], m)
      /\ s \in DOMAIN MigrationList[m]
  BY <1>1, ListShape DEF EndsWithVersion
<1> HIDE DEF m, s, st
<1>4. schema \subseteq schema' /\ (st.op \in Changing => st.what \in schema')
  BY <1>2 DEF Changing
<1>5. DoneBefore(m, s + 1) \subseteq schema'
  BY <1>1, <1>4, BeforeNext DEF st
<1>6. s = Len(MigrationList[m]) => DoneUpTo(m) \subseteq schema'
  BY <1>1, <1>4, <1>5, BeforeEnd
<1>7. VersionsDone'
  <2>1. versions \subseteq 1 .. 9 /\ \A v \in versions : DoneUpTo(v) \subseteq schema'
    BY <1>4 DEF MigrationInv, VersionsDone
  <2>2. CASE st.op \in Changing
    BY <1>2, <2>1, <2>2 DEF VersionsDone, Changing
  <2>3. CASE st.op \notin Changing
    <3>1. s = Len(MigrationList[m]) /\ st.to = m
      BY <1>3, <2>3 DEF EndsWithVersion, st
    <3>2. versions' \subseteq versions \cup {m}
      BY <1>2, <2>3, <3>1
    <3> QED BY <1>1, <1>6, <2>1, <3>1, <3>2 DEF VersionsDone
  <2> QED BY <2>2, <2>3
<1> QED BY <1>4, <1>5, <1>6, <1>7 DEF m, s

\* A process executes a statement.
LEMMA ExecuteKeeps ==
  ASSUME MigrationInv, NEW p \in Openers, Execute(p)
  PROVE  MigrationInv'
<1> DEFINE o == opener[p]
           next == opener'[p]
<1>1. /\ opener \in [Openers -> [pc : {"opening", "running", "ready", "failed"},
                                 migration : Nat, statement : Nat]]
      /\ Len(MigrationList) = 9
      /\ o.pc = "running" /\ o.migration \in 1 .. 9
      /\ o.statement \in 1 .. Len(MigrationList[o.migration])
  BY ListShape DEF MigrationInv, OpenersDone, Execute
<1>2. /\ schema \subseteq schema'
      /\ DoneBefore(o.migration, o.statement + 1) \subseteq schema'
      /\ o.statement = Len(MigrationList[o.migration]) => DoneUpTo(o.migration) \subseteq schema'
      /\ VersionsDone'
  BY StatementDone
<1>3. Len(MigrationList[o.migration]) \in Nat
  BY <1>1, ListShape DEF EndsWithVersion
<1>4. Done(p)
  BY DEF Execute
<1>5. \A q \in Openers \ {p} : opener'[q] = opener[q]
  BY <1>1, <1>4 DEF Done
<1>6. CASE o.statement < Len(MigrationList[o.migration])
  <2>1. opener' = [opener EXCEPT ![p] = [o EXCEPT !.statement = @ + 1]]
    BY <1>4, <1>6 DEF Done
  <2>2. /\ next.pc = "running" /\ next.migration = o.migration /\ next.statement = o.statement + 1
        /\ next \in [pc : {"opening", "running", "ready", "failed"}, migration : Nat, statement : Nat]
    BY <1>1, <2>1
  <2>3. /\ DoneUpTo(next.migration - 1) \subseteq schema'
        /\ DoneBefore(next.migration, next.statement) \subseteq schema'
        /\ next.migration \in 1 .. 9 /\ next.statement \in 1 .. Len(MigrationList[next.migration])
    BY <1>1, <1>2, <1>3, <1>6, <2>2, DoneStays DEF MigrationInv
  <2>4. opener' \in [Openers -> [pc : {"opening", "running", "ready", "failed"},
                                 migration : Nat, statement : Nat]]
    BY <1>1, <2>1, <2>2
  <2>5. OpenersDone'
    BY <1>2, <1>5, <2>2, <2>3, <2>4, DoneStays DEF MigrationInv, OpenersDone
  <2> QED BY <1>2, <2>5 DEF MigrationInv
<1>7. CASE o.statement >= Len(MigrationList[o.migration]) /\ o.migration < 9
  <2>0. ~ (o.statement < Len(MigrationList[o.migration])) /\ o.migration < Len(MigrationList)
    BY <1>1, <1>3, <1>7
  <2>1. opener' = [opener EXCEPT ![p] = [o EXCEPT !.migration = @ + 1, !.statement = 1]]
    BY <1>4, <2>0 DEF Done
  <2>2. /\ next.pc = "running" /\ next.migration = o.migration + 1 /\ next.statement = 1
        /\ next \in [pc : {"opening", "running", "ready", "failed"}, migration : Nat, statement : Nat]
    <3>1. o \in [pc : {"opening", "running", "ready", "failed"}, migration : Nat, statement : Nat]
      BY <1>1
    <3>2. next = [o EXCEPT !.migration = @ + 1, !.statement = 1]
      BY <1>1, <2>1
    <3> HIDE DEF o, next
    <3>3. next = [pc |-> o.pc, migration |-> o.migration + 1, statement |-> 1]
      BY <3>1, <3>2
    <3> QED BY <1>1, <3>1, <3>3 DEF o
  <2>3. /\ DoneUpTo(next.migration - 1) \subseteq schema'
        /\ DoneBefore(next.migration, next.statement) \subseteq schema'
        /\ next.migration \in 1 .. 9 /\ next.statement \in 1 .. Len(MigrationList[next.migration])
    <3>1. next.migration = o.migration + 1 /\ next.statement = 1
      BY <2>2
    <3>2. o.statement = Len(MigrationList[o.migration]) /\ o.migration \in 1 .. 8
      BY <1>1, <1>3, <1>7
    <3>3. DoneUpTo(o.migration) \subseteq schema'
      BY <1>2, <3>2
    <3> HIDE DEF o, next
    <3>4. next.migration - 1 = o.migration /\ next.migration \in 1 .. 9
      BY <3>1, <3>2
    <3>5. 1 \in 1 .. Len(MigrationList[next.migration])
      BY <3>4, FirstStatement
    <3>6. DoneBefore(next.migration, 1) = {}
      BY BeforeStart
    <3> QED BY <3>1, <3>3, <3>4, <3>5, <3>6
  <2>4. opener' \in [Openers -> [pc : {"opening", "running", "ready", "failed"},
                                 migration : Nat, statement : Nat]]
    BY <1>1, <2>1, <2>2
  <2>5. OpenersDone'
    BY <1>2, <1>5, <2>2, <2>3, <2>4, DoneStays DEF MigrationInv, OpenersDone
  <2> QED BY <1>2, <2>5 DEF MigrationInv
<1>8. CASE o.statement >= Len(MigrationList[o.migration]) /\ o.migration = 9
  <2>0. ~ (o.statement < Len(MigrationList[o.migration])) /\ ~ (o.migration < Len(MigrationList))
    BY <1>1, <1>3, <1>8
  <2>1. opener' = [opener EXCEPT ![p] = [o EXCEPT !.pc = "ready"]]
    BY <1>4, <2>0 DEF Done
  <2>2. /\ next.pc = "ready"
        /\ next \in [pc : {"opening", "running", "ready", "failed"}, migration : Nat, statement : Nat]
    BY <1>1, <2>1
  <2>3. DoneUpTo(9) \subseteq schema'
    BY <1>1, <1>2, <1>3, <1>8
  <2>4. opener' \in [Openers -> [pc : {"opening", "running", "ready", "failed"},
                                 migration : Nat, statement : Nat]]
    BY <1>1, <2>1, <2>2
  <2>5. OpenersDone'
    BY <1>2, <1>5, <2>2, <2>3, <2>4, DoneStays DEF MigrationInv, OpenersDone
  <2> QED BY <1>2, <2>5 DEF MigrationInv
<1> QED BY <1>1, <1>3, <1>6, <1>7, <1>8

\* Every step keeps the invariant.
LEMMA MigrationStep ==
  ASSUME MigrationInv, [MigrationNext]_migrationVars
  PROVE  MigrationInv'
<1>1. ASSUME NEW p \in Openers, ExecuteFails(p) \/ Die(p) PROVE MigrationInv'
  <2>1. /\ schema' = schema /\ versions' = versions
        /\ \/ opener' = [opener EXCEPT ![p].pc = "failed"]
           \/ opener' = [opener EXCEPT ![p] = [pc |-> "opening", migration |-> 1, statement |-> 1]]
    BY <1>1 DEF ExecuteFails, Die, Opening
  <2>2. VersionsDone'
    BY <2>1 DEF MigrationInv, VersionsDone
  <2>3. OpenersDone
    BY DEF MigrationInv
  <2>4. opener' \in [Openers -> [pc : {"opening", "running", "ready", "failed"},
                                 migration : Nat, statement : Nat]]
    BY <2>1, <2>3 DEF OpenersDone
  <2>5. \A q \in Openers : opener'[q] = opener[q] \/ opener'[q].pc \in {"failed", "opening"}
    BY <2>1, <2>3 DEF OpenersDone
  <2>6. OpenersDone'
    BY <2>1, <2>3, <2>4, <2>5 DEF OpenersDone
  <2> QED BY <2>2, <2>6 DEF MigrationInv
<1>2. CASE UNCHANGED migrationVars
  BY <1>2 DEF migrationVars, MigrationInv, VersionsDone, OpenersDone
<1> QED BY <1>1, <1>2, ReadKeeps, ExecuteKeeps DEF MigrationNext

\* A version that is read stands for all that its migrations do, and a process
\* that is let in finds the whole schema, whoever else opened the file or died
\* on the way (Init, runMigrations).
THEOREM VersionsAreDone == MigrationSpec => []VersionMeansDone
<1>1. MigrationInit => MigrationInv
  <2> SUFFICES ASSUME MigrationInit PROVE MigrationInv
    OBVIOUS
  <2>1. PICK v \in 0 .. Len(MigrationList) :
          schema = DoneUpTo(v) /\ versions = {v} \ {0} /\ opener = [p \in Openers |-> Opening]
    BY DEF MigrationInit
  <2> QED BY <2>1, ListShape DEF MigrationInv, VersionsDone, OpenersDone, Opening
<1>2. MigrationInv => VersionMeansDone
  BY ListShape DEF MigrationInv, VersionsDone, OpenersDone, VersionMeansDone
<1> QED BY <1>1, <1>2, MigrationStep, PTL DEF MigrationSpec


-----------------------------------------------------------------------------
(***************************************************************************)
(* The rows of a thread.                                                   *)
(***************************************************************************)
IsList(s) == s \in Seq(ToSet(s))

\* A set of naturals that is not empty has a least element.
LEMMA LeastNatural ==
  ASSUME NEW S, S \subseteq Nat, S # {}
  PROVE  \E x \in S : \A y \in S : x <= y
<1>1. PICK x \in S : \A y \in S : ~ (<<y, x>> \in OpToRel(<, Nat))
  BY NatLessThanWellFounded, WFMin
<1>2. \A y \in S : ~ (y < x)
  BY <1>1 DEF OpToRel
<1> QED BY <1>2

\* The members of a list.
LEMMA ListFacts ==
  ASSUME NEW s, IsList(s)
  PROVE  /\ Len(s) \in Nat /\ DOMAIN s = 1 .. Len(s) /\ s = [i \in 1 .. Len(s) |-> s[i]]
         /\ s = <<>> <=> Len(s) = 0
         /\ s # <<>> => Head(s) = s[1] /\ 1 \in DOMAIN s
BY DEF IsList

\* A list with one more member.
LEMMA ListAppend ==
  ASSUME NEW s, IsList(s), NEW e
  PROVE  LET t == Append(s, e) IN
         /\ IsList(t) /\ Len(t) = Len(s) + 1 /\ t # <<>>
         /\ DOMAIN t = 1 .. Len(s) + 1 /\ t[Len(s) + 1] = e
         /\ \A i \in 1 .. Len(s) : t[i] = s[i]
<1> DEFINE T == ToSet(s) \cup {e}
           t == Append(s, e)
<1>1. s \in Seq(T) /\ e \in T
  BY DEF IsList
<1> HIDE DEF T
<1>2. /\ t \in Seq(T) /\ Len(t) = Len(s) + 1 /\ Len(s) \in Nat
      /\ DOMAIN t = 1 .. Len(s) + 1 /\ t[Len(s) + 1] = e
      /\ \A i \in 1 .. Len(s) : t[i] = s[i]
  BY <1>1
<1> HIDE DEF t
<1>3. t \in Seq(ToSet(t))
  BY <1>2 DEF ToSet
<1>4. t # <<>>
  BY <1>2
<1> QED BY <1>2, <1>3, <1>4 DEF t, IsList

\* One list behind the other.
LEMMA ListConcat ==
  ASSUME NEW s, NEW t, IsList(s), IsList(t)
  PROVE  LET u == s \o t IN
         /\ IsList(u) /\ Len(u) = Len(s) + Len(t)
         /\ DOMAIN u = 1 .. Len(s) + Len(t)
         /\ \A i \in 1 .. Len(s) : u[i] = s[i]
         /\ \A i \in 1 .. Len(t) : u[Len(s) + i] = t[i]
<1> DEFINE T == ToSet(s) \cup ToSet(t)
           u == s \o t
<1>1. s \in Seq(T) /\ t \in Seq(T)
  BY DEF IsList
<1> HIDE DEF T
<1>2. /\ u \in Seq(T) /\ Len(u) = Len(s) + Len(t) /\ Len(s) \in Nat /\ Len(t) \in Nat
      /\ DOMAIN u = 1 .. Len(s) + Len(t)
      /\ \A i \in 1 .. Len(s) : u[i] = s[i]
      /\ \A i \in 1 .. Len(t) : u[Len(s) + i] = t[i]
  BY <1>1
<1> HIDE DEF u
<1>3. u \in Seq(ToSet(u))
  BY <1>2 DEF ToSet
<1> QED BY <1>2, <1>3 DEF u, IsList

ThreadOK(t) ==
  /\ IsList(t.messages)
  /\ \A i \in DOMAIN t.messages : IsList(t.messages[i].calls)

\* Messages and their calls in the order they are listed.
Sooner(o, p) == o[2] < p[2] \/ (o[2] = p[2] /\ o[3] < p[3])

\* A row after the first i messages: the node of a message that speaks, or of
\* one of its calls, below what Before says.
RowOK(t, i, rows, r) ==
  LET o == rows[r].origin
      p == rows[r].parent IN
  /\ DOMAIN rows[r] = {"parent", "type", "origin", "system"}
  /\ o \in {t.thread} \X (1 .. i) \X Nat
  /\ Speaks(t.messages[o[2]])
  /\ o[3] # 0 => t.messages[o[2]].role = "assistant" /\ o[3] \in DOMAIN t.messages[o[2]].calls
  /\ p \in 0 .. r - 1
  /\ o[3] = 0 /\ p = 0 => Before(t, o[2]) = <<>>
  /\ o[3] = 0 /\ p # 0 => Before(t, o[2]) = rows[p].origin
  /\ o[3] # 0 => p # 0 /\ rows[p].origin = <<t.thread, o[2], 0>>

Listed(rows, o) == \E r \in 1 .. Len(rows) : rows[r].origin = o

\* After the first i messages there is one row for each message that speaks
\* and one for each call, in their order.
RowsOK(t, i, rows) ==
  /\ IsList(rows)
  /\ \A r \in 1 .. Len(rows) : RowOK(t, i, rows, r)
  /\ \A q, r \in 1 .. Len(rows) : q < r => Sooner(rows[q].origin, rows[r].origin)
  /\ \A k \in 1 .. i : Speaks(t.messages[k]) =>
       /\ Listed(rows, <<t.thread, k, 0>>)
       /\ t.messages[k].role = "assistant" => \A j \in DOMAIN t.messages[k].calls :
            Listed(rows, <<t.thread, k, j>>)

\* The rows of a thread are those before its last message and what that adds.
LEMMA RowsByDef ==
  ASSUME NEW t, Len(t.messages) \in Nat
  PROVE  RowsBy(t) = [i \in 0 .. Len(t.messages) |->
                        IF i = 0 THEN <<>> ELSE AddMessage(t, RowsBy(t)[i - 1], i)]
<1> DEFINE N == Len(t.messages)
           By(g, n) == g = [i \in 0 .. n |-> IF i = 0 THEN <<>> ELSE AddMessage(t, g[i - 1], i)]
           None == {n \in 0 .. N : ~ \E g : By(g, n)}
<1>1. None = {}
  <2> SUFFICES ASSUME None # {} PROVE FALSE
    OBVIOUS
  <2>1. PICK n \in None : \A k \in None : n <= k
    <3>1. None \subseteq Nat
      OBVIOUS
    <3> HIDE DEF None
    <3> QED BY <3>1, LeastNatural
  <2>2. n # 0
    <3>1. By([i \in 0 .. 0 |-> <<>>], 0)
      OBVIOUS
    <3> HIDE DEF By
    <3> QED BY <3>1
  <2>3. n - 1 \in 0 .. N /\ n - 1 \notin None
    <3>1. n \in 0 .. N
      BY <2>1
    <3>2. \A k \in None : n <= k
      BY <2>1
    <3> HIDE DEF None
    <3> QED BY <2>2, <3>1, <3>2
  <2>4. PICK g : By(g, n - 1)
    BY <2>3
  <2> DEFINE h == [i \in 0 .. n |-> IF i = n THEN AddMessage(t, g[n - 1], n) ELSE g[i]]
  <2>5. n \in 1 .. N
    BY <2>1, <2>2
  <2>6. By(h, n)
    <3>1. \A i \in 0 .. n - 1 : g[i] = IF i = 0 THEN <<>> ELSE AddMessage(t, g[i - 1], i)
      BY <2>4
    <3>2. \A i \in 0 .. n : i # n => i \in 0 .. n - 1 /\ (i # 0 => i - 1 \in 0 .. n /\ i - 1 # n)
      BY <2>5
    <3>3. n - 1 \in 0 .. n /\ n - 1 # n
      BY <2>5
    <3>4. \A i \in 0 .. n : h[i] = IF i = 0 THEN <<>> ELSE AddMessage(t, h[i - 1], i)
      BY <2>5, <3>1, <3>2, <3>3
    <3> QED BY <3>4
  <2> HIDE DEF By
  <2> QED BY <2>1, <2>6
<1>2. \E g : By(g, N)
  BY <1>1
<1>3. RowsBy(t) = CHOOSE g : By(g, N)
  BY DEF RowsBy
<1>4. By(RowsBy(t), N)
  <2> HIDE DEF By
  <2> QED BY <1>2, <1>3
<1> QED BY <1>4

\* Where the next message goes that replies to no call: below the last row.
LEMMA LastBefore ==
  ASSUME NEW t, ThreadOK(t), NEW i \in DOMAIN t.messages, NEW rows, RowsOK(t, i - 1, rows)
  PROVE  /\ rows = <<>> <=> SpokenBefore(t, i) = {}
         /\ rows # <<>> =>
              LET k == Newest(SpokenBefore(t, i)) IN
              /\ k \in SpokenBefore(t, i)
              /\ rows[Len(rows)].origin =
                   <<t.thread, k, IF t.messages[k].role = "assistant" THEN Len(t.messages[k].calls) ELSE 0>>
<1> DEFINE n == Len(rows)
           S == SpokenBefore(t, i)
           o == rows[n].origin
<1>1. /\ i \in Nat \ {0} /\ i - 1 \in Nat /\ i - 1 \in 0 .. Len(t.messages)
      /\ Len(t.messages) \in Nat /\ DOMAIN t.messages = 1 .. Len(t.messages)
      /\ \A k \in 1 .. i - 1 : k \in DOMAIN t.messages
  BY ListFacts DEF ThreadOK
<1>2. n \in Nat /\ (rows = <<>> <=> n = 0)
  BY ListFacts DEF RowsOK
<1>3. \A k \in S : k \in 1 .. i - 1 /\ Speaks(t.messages[k]) /\ Listed(rows, <<t.thread, k, 0>>)
  BY DEF SpokenBefore, RowsOK
<1>4. \A r \in 1 .. n : /\ rows[r].origin \in {t.thread} \X (1 .. i - 1) \X Nat
                        /\ rows[r].origin[2] \in S
  BY DEF RowsOK, RowOK, SpokenBefore
<1>5. rows = <<>> <=> S = {}
  <2>1. S # {} => n # 0
    BY <1>2, <1>3 DEF Listed
  <2>2. n # 0 => 1 \in 1 .. n
    BY <1>2
  <2> QED BY <1>2, <1>4, <2>1, <2>2
<1>6. ASSUME rows # <<>>
      PROVE  /\ Newest(S) \in S
             /\ o = <<t.thread, Newest(S),
                      IF t.messages[Newest(S)].role = "assistant" THEN Len(t.messages[Newest(S)].calls) ELSE 0>>
  <2>1. n \in 1 .. n
    BY <1>2, <1>6
  <2>2. \A r \in 1 .. n : r = n \/ Sooner(rows[r].origin, o)
    BY <1>2, <2>1 DEF RowsOK
  <2>3. o \in {t.thread} \X (1 .. i - 1) \X Nat /\ o[2] \in S /\ RowOK(t, i - 1, rows, n)
    BY <1>4, <2>1 DEF RowsOK
  <2>4. \A k \in S : k <= o[2]
    <3> TAKE k \in S
    <3>1. PICK r \in 1 .. n : rows[r].origin = <<t.thread, k, 0>>
      BY <1>3 DEF Listed
    <3>2. o[2] \in 1 .. i - 1 /\ k \in 1 .. i - 1
      BY <1>3, <2>3
    <3>3. CASE r = n
      BY <3>1, <3>2, <3>3
    <3>4. CASE Sooner(rows[r].origin, o)
      BY <3>1, <3>2, <3>4, <1>1 DEF Sooner
    <3> QED BY <2>2, <3>3, <3>4
  <2>5. Newest(S) = o[2]
    <3>1. \A k \in S : k \in Int
      <4>1. i - 1 \in Nat /\ \A k \in S : k \in 1 .. i - 1
        BY <1>1, <1>3
      <4> HIDE DEF S
      <4> QED BY <4>1
    <3>2. \A k \in S : (\A l \in S : l <= k) => k = o[2]
      BY <2>3, <2>4, <3>1
    <3> HIDE DEF S, o
    <3> QED BY <2>3, <2>4, <3>2 DEF Newest
  <2>6. o[3] = IF t.messages[o[2]].role = "assistant" THEN Len(t.messages[o[2]].calls) ELSE 0
    <3> DEFINE m == t.messages[o[2]]
    <3>1. /\ o[3] \in Nat
          /\ o[3] # 0 => m.role = "assistant" /\ o[3] \in DOMAIN m.calls
      BY <2>3 DEF RowOK
    <3>2. Len(m.calls) \in Nat /\ DOMAIN m.calls = 1 .. Len(m.calls)
      BY <1>1, <2>3, ListFacts DEF ThreadOK
    <3>3. ASSUME m.role = "assistant", Len(m.calls) # 0
          PROVE  Len(m.calls) <= o[3]
      <4>1. Len(m.calls) \in DOMAIN m.calls
        BY <3>2, <3>3
      <4>2. o[2] \in 1 .. i - 1 /\ Speaks(m)
        BY <1>3, <2>3
      <4>3. Listed(rows, <<t.thread, o[2], Len(m.calls)>>)
        BY <3>3, <4>1, <4>2 DEF RowsOK
      <4>4. PICK r \in 1 .. n : rows[r].origin = <<t.thread, o[2], Len(m.calls)>>
        BY <4>3 DEF Listed
      <4>5. CASE r = n
        BY <3>2, <4>4, <4>5
      <4>6. CASE Sooner(rows[r].origin, o)
        <5>1. rows[r].origin[2] = o[2] /\ rows[r].origin[3] = Len(m.calls)
          BY <4>4
        <5>2. o[2] < o[2] \/ Len(m.calls) < o[3]
          BY <4>6, <5>1 DEF Sooner
        <5>3. o[2] \in Nat
          BY <1>1, <4>2
        <5> HIDE DEF m, o
        <5> QED BY <3>1, <3>2, <5>2, <5>3
      <4> QED BY <2>2, <4>5, <4>6
    <3> HIDE DEF m, o
    <3>4. CASE m.role = "assistant"
      <4>1. o[3] <= Len(m.calls)
        BY <3>1, <3>2
      <4>2. Len(m.calls) <= o[3]
        BY <3>1, <3>2, <3>3, <3>4
      <4> QED BY <3>1, <3>2, <3>4, <4>1, <4>2 DEF m
    <3> QED BY <3>1, <3>4 DEF m
  <2>7. o = <<o[1], o[2], o[3]>> /\ o[1] = t.thread
    BY <2>3
  <2> QED BY <2>3, <2>5, <2>6, <2>7
<1> QED BY <1>5, <1>6

\* Where a message goes that replies to a call: below the row of the latest
\* call with that id.
LEMMA CallBefore ==
  ASSUME NEW t, ThreadOK(t), NEW i \in DOMAIN t.messages, NEW rows, RowsOK(t, i - 1, rows)
  PROVE  LET named == CallRows(t, rows, t.messages[i].reply)
             S == CallsBefore(t, i) IN
         /\ named # {} <=> t.messages[i].reply # NoCall /\ S # {}
         /\ named # {} =>
              /\ Newest(named) \in 1 .. Len(rows)
              /\ rows[Newest(named)].origin = <<t.thread, NewestCall(S)[1], NewestCall(S)[2]>>
<1> DEFINE n     == Len(rows)
           id    == t.messages[i].reply
           named == CallRows(t, rows, id)
           S     == CallsBefore(t, i)
<1>1. /\ i \in Nat \ {0} /\ i - 1 \in Nat
      /\ \A k \in 1 .. i - 1 : k \in DOMAIN t.messages /\ k \in Nat /\ IsList(t.messages[k].calls)
  BY ListFacts DEF ThreadOK
<1>2. n \in Nat /\ DOMAIN rows = 1 .. n
  BY ListFacts DEF RowsOK
<1>3. \A r \in named :
        /\ r \in 1 .. n /\ rows[r].origin \in {t.thread} \X (1 .. i - 1) \X Nat
        /\ <<rows[r].origin[2], rows[r].origin[3]>> \in S /\ id # NoCall
  <2> TAKE r \in named
  <2> DEFINE o == rows[r].origin
  <2>1. r \in 1 .. n /\ RowOK(t, i - 1, rows, r) /\ o[3] # 0 /\ id # NoCall
        /\ t.messages[o[2]].calls[o[3]] = id
    BY <1>2 DEF CallRows, RowsOK
  <2>2. o \in {t.thread} \X (1 .. i - 1) \X Nat
        /\ t.messages[o[2]].role = "assistant" /\ o[3] \in DOMAIN t.messages[o[2]].calls
    BY <2>1 DEF RowOK
  <2>3. o[2] \in 1 .. i - 1
    BY <2>2
  <2> HIDE DEF o
  <2>4. <<o[2], o[3]>> \in {o[2]} \X DOMAIN t.messages[o[2]].calls
    BY <2>2
  <2>5. <<o[2], o[3]>> \in UNION {{k} \X DOMAIN t.messages[k].calls : k \in 1 .. i - 1}
    BY <2>3, <2>4
  <2>6. <<o[2], o[3]>> \in S
    BY <2>1, <2>2, <2>5 DEF CallsBefore
  <2> QED BY <2>1, <2>2, <2>6 DEF o
<1>4. \A c \in S : /\ c = <<c[1], c[2]>> /\ c[1] \in 1 .. i - 1 /\ c[2] \in DOMAIN t.messages[c[1]].calls
                   /\ t.messages[c[1]].role = "assistant" /\ t.messages[c[1]].calls[c[2]] = id
  BY DEF CallsBefore
<1>5. ASSUME id # NoCall
      PROVE  \A c \in S : \E r \in named : rows[r].origin = <<t.thread, c[1], c[2]>>
  <2> TAKE c \in S
  <2>1. Speaks(t.messages[c[1]])
    BY <1>4 DEF Speaks
  <2>2. Listed(rows, <<t.thread, c[1], c[2]>>)
    BY <1>4, <2>1 DEF RowsOK
  <2>3. PICK r \in 1 .. n : rows[r].origin = <<t.thread, c[1], c[2]>>
    BY <2>2 DEF Listed
  <2>4. c[2] # 0
    BY <1>1, <1>4, ListFacts
  <2>5. r \in named
    BY <1>2, <1>4, <1>5, <2>3, <2>4 DEF CallRows
  <2> QED BY <2>3, <2>5
<1>6. named # {} <=> id # NoCall /\ S # {}
  BY <1>3, <1>5
<1>7. ASSUME named # {}
      PROVE  Newest(named) \in named /\ \A r \in named : r <= Newest(named)
  <2> DEFINE T == {n - r : r \in named}
  <2>1. T \subseteq Nat /\ T # {}
    <3>1. \A r \in named : r \in 1 .. n
      BY <1>3
    <3> HIDE DEF named, n
    <3> QED BY <1>2, <1>7, <3>1
  <2>2. PICK x \in T : \A y \in T : x <= y
    <3> HIDE DEF T
    <3> QED BY <2>1, LeastNatural
  <2>3. PICK r \in named : x = n - r
    BY <2>2
  <2>4. \A q \in named : q <= r
    <3> TAKE q \in named
    <3>1. n - r <= n - q
      BY <2>2, <2>3
    <3>2. r \in 1 .. n /\ q \in 1 .. n
      BY <1>3
    <3> HIDE DEF named, n
    <3> QED BY <1>2, <3>1, <3>2
  <2> HIDE DEF named
  <2> QED BY <2>3, <2>4 DEF Newest
<1>8. ASSUME named # {}
      PROVE  rows[Newest(named)].origin = <<t.thread, NewestCall(S)[1], NewestCall(S)[2]>>
  <2> DEFINE r == Newest(named)
             o == rows[r].origin
             c == <<o[2], o[3]>>
             Later(d, e) == d[1] < e[1] \/ (d[1] = e[1] /\ d[2] <= e[2])
  <2>1. r \in named /\ r \in 1 .. n /\ o \in {t.thread} \X (1 .. i - 1) \X Nat /\ c \in S /\ id # NoCall
    BY <1>3, <1>7, <1>8
  <2>2. \A d \in S : d[1] \in Nat /\ d[2] \in Nat
    BY <1>1, <1>4, ListFacts
  <2>3. \A d \in S : Later(d, c)
    <3> TAKE d \in S
    <3>1. PICK q \in named : rows[q].origin = <<t.thread, d[1], d[2]>>
      BY <2>1, <1>5
    <3>2. q \in 1 .. n /\ q <= r
      BY <1>3, <1>7, <1>8
    <3>3. CASE q = r
      BY <2>2, <3>1, <3>3
    <3>4. CASE q < r
      <4>1. Sooner(rows[q].origin, o)
        BY <2>1, <3>2, <3>4 DEF RowsOK
      <4>2. d[1] < o[2] \/ (d[1] = o[2] /\ d[2] < o[3])
        BY <3>1, <4>1 DEF Sooner
      <4>3. o[2] \in Nat /\ o[3] \in Nat
        BY <1>1, <2>1
      <4> HIDE DEF o
      <4> QED BY <2>2, <4>2, <4>3
    <3>5. q = r \/ q < r
      <4>1. q \in 1 .. n /\ r \in 1 .. n /\ q <= r
        BY <2>1, <3>2
      <4> HIDE DEF r, n
      <4> QED BY <1>2, <4>1
    <3> QED BY <3>3, <3>4, <3>5
  <2>4. \A e \in S : (\A d \in S : Later(d, e)) => e = c
    <3> TAKE e \in S
    <3> HAVE \A d \in S : Later(d, e)
    <3>1. Later(c, e) /\ Later(e, c)
      BY <2>1, <2>3
    <3>2. c[1] \in Nat /\ c[2] \in Nat /\ e[1] \in Nat /\ e[2] \in Nat
      BY <2>1, <2>2
    <3>3. c[1] = e[1] /\ c[2] = e[2]
      <4> HIDE DEF c
      <4> QED BY <3>1, <3>2
    <3>4. e = <<e[1], e[2]>> /\ c = <<c[1], c[2]>>
      BY <1>4
    <3> HIDE DEF c
    <3> QED BY <3>3, <3>4
  <2>5. NewestCall(S) = c
    <3> HIDE DEF S, c
    <3> QED BY <2>1, <2>3, <2>4 DEF NewestCall
  <2>6. o = <<t.thread, o[2], o[3]>>
    <3> HIDE DEF c, o
    <3> QED BY <2>1
  <2>7. NewestCall(S)[1] = o[2] /\ NewestCall(S)[2] = o[3]
    <3> HIDE DEF S, o
    <3> QED BY <2>5
  <2> HIDE DEF S, o, c
  <2>8. o = <<t.thread, NewestCall(S)[1], NewestCall(S)[2]>>
    BY <2>6, <2>7
  <2> QED BY <2>8 DEF o
<1>9. named # {} => Newest(named) \in 1 .. n
  BY <1>3, <1>7
<1> QED BY <1>6, <1>8, <1>9

\* The places behind n others.
LEMMA Places ==
  ASSUME NEW n \in Nat, NEW more \in Nat
  PROVE  /\ \A r \in 1 .. n + 1 + more : r \in 1 .. n \/ \E j \in 0 .. more : r = n + 1 + j
         /\ \A j \in 0 .. more : /\ j \in Nat /\ n + 1 + j \in 1 .. n + 1 + more /\ n + 1 + j \in Nat
                                 /\ n + 1 + j > n /\ (j # 0 => n + 1 + j > n + 1)
                                 /\ (j = 0 => n + 1 + j = n + 1)
                                 /\ 0 .. n \subseteq 0 .. n + 1 + j - 1
                                 /\ (j # 0 => n + 1 \in 0 .. n + 1 + j - 1)
         /\ \A p \in 0 .. n : p # 0 => p \in 1 .. n
         /\ \A r \in 1 .. n : r \in 1 .. n + 1 + more
<1>1. \A r \in 1 .. n + 1 + more : ~ (r \in 1 .. n) => r - n - 1 \in 0 .. more /\ r = n + 1 + (r - n - 1)
  OBVIOUS
<1> QED BY <1>1

\* What a message that speaks adds to the rows: one for it, one for each of its
\* calls.
Adds(t, i, rows, new, more) ==
  LET n == Len(rows)
      p == new[n + 1].parent IN
  /\ Len(new) = n + 1 + more
  /\ \A r \in 1 .. n : new[r] = rows[r]
  /\ \A j \in 0 .. more :
       /\ DOMAIN new[n + 1 + j] = {"parent", "type", "origin", "system"}
       /\ new[n + 1 + j].origin = <<t.thread, i, j>>
       /\ j # 0 => new[n + 1 + j].parent = n + 1
  /\ p \in 0 .. n
  /\ p = 0 => Before(t, i) = <<>>
  /\ p # 0 => Before(t, i) = rows[p].origin

\* That keeps the rows in order.
LEMMA RowsExtend ==
  ASSUME NEW t, ThreadOK(t), NEW i \in DOMAIN t.messages, NEW rows, RowsOK(t, i - 1, rows),
         Speaks(t.messages[i]), NEW new, IsList(new),
         NEW more, more = IF t.messages[i].role = "assistant" THEN Len(t.messages[i].calls) ELSE 0,
         Adds(t, i, rows, new, more)
  PROVE  RowsOK(t, i, new)
<1> DEFINE n == Len(rows)
           m == t.messages[i]
<1>1. /\ i \in Nat \ {0} /\ i - 1 \in Nat
      /\ \A k \in 1 .. i : k # i => k \in 1 .. i - 1
      /\ \A k \in 1 .. i - 1 : k \in 1 .. i
      /\ i \in 1 .. i
  BY ListFacts DEF ThreadOK
<1>2. n \in Nat
  BY ListFacts DEF RowsOK
<1>3. /\ more \in Nat /\ \A j \in 1 .. more : m.role = "assistant" /\ j \in DOMAIN m.calls
      /\ m.role = "assistant" => \A j \in DOMAIN m.calls : j \in 1 .. more
  <2>1. Len(m.calls) \in Nat /\ DOMAIN m.calls = 1 .. Len(m.calls)
    BY ListFacts DEF ThreadOK
  <2> HIDE DEF m
  <2>2. more = IF m.role = "assistant" THEN Len(m.calls) ELSE 0
    BY DEF m
  <2> QED BY <2>1, <2>2
<1> DEFINE p == new[n + 1].parent
<1>0. Len(new) = n + 1 + more /\ more \in Nat /\ p \in 0 .. n
  BY <1>3 DEF Adds
<1>4. \A r \in 1 .. Len(new) : r \in 1 .. n \/ \E j \in 0 .. more : r = n + 1 + j
  <2> HIDE DEF n, m, p
  <2>1. \A k \in Nat, l \in Nat : \A r \in 1 .. k + 1 + l : r \in 1 .. k \/ \E j \in 0 .. l : r = k + 1 + j
    BY Places
  <2>2. \A r \in 1 .. n + 1 + more : r \in 1 .. n \/ \E j \in 0 .. more : r = n + 1 + j
    BY <1>0, <1>2, <2>1
  <2> QED BY <1>0, <2>2
<1>5. \A j \in 0 .. more : /\ j \in Nat /\ n + 1 + j \in 1 .. Len(new) /\ n + 1 + j \in Nat
                           /\ n + 1 + j > n /\ (j # 0 => n + 1 + j > n + 1)
                           /\ (j = 0 => n + 1 + j = n + 1)
                           /\ 0 .. n \subseteq 0 .. n + 1 + j - 1
                           /\ (j # 0 => n + 1 \in 0 .. n + 1 + j - 1)
  <2> HIDE DEF n, m, p
  <2>1. \A j \in 0 .. more : /\ j \in Nat /\ n + 1 + j \in 1 .. n + 1 + more /\ n + 1 + j \in Nat
                           /\ n + 1 + j > n /\ (j # 0 => n + 1 + j > n + 1)
                           /\ (j = 0 => n + 1 + j = n + 1)
    BY <1>0, <1>2
  <2>2. \A j \in 0 .. more : /\ 0 .. n \subseteq 0 .. n + 1 + j - 1
                           /\ (j # 0 => n + 1 \in 0 .. n + 1 + j - 1)
    BY <1>0, <1>2
  <2> QED BY <1>0, <2>1, <2>2
<1>6. \A r \in 1 .. n : r \in 1 .. Len(new) /\ new[r] = rows[r]
  <2>1. \A r \in 1 .. n : new[r] = rows[r]
    BY DEF Adds
  <2> HIDE DEF n, m, p
  <2> QED BY <1>0, <1>2, <2>1, Places, ZenonT(30)
<1>7. ASSUME NEW r \in 1 .. n PROVE RowOK(t, i, new, r)
  <2> DEFINE o == rows[r].origin
             q == rows[r].parent
  <2>1. /\ DOMAIN rows[r] = {"parent", "type", "origin", "system"}
        /\ o \in {t.thread} \X (1 .. i - 1) \X Nat
        /\ Speaks(t.messages[o[2]])
        /\ o[3] # 0 => t.messages[o[2]].role = "assistant" /\ o[3] \in DOMAIN t.messages[o[2]].calls
        /\ q \in 0 .. r - 1
        /\ o[3] = 0 /\ q = 0 => Before(t, o[2]) = <<>>
        /\ o[3] = 0 /\ q # 0 => Before(t, o[2]) = rows[q].origin
        /\ o[3] # 0 => q # 0 /\ rows[q].origin = <<t.thread, o[2], 0>>
    BY DEF RowsOK, RowOK
  <2>2. o \in {t.thread} \X (1 .. i) \X Nat
    BY <1>1, <2>1
  <2>3. q # 0 => new[q] = rows[q]
    <3>1. q # 0 => q \in 1 .. n
      BY <1>2, <2>1
    <3> QED BY <1>6, <3>1
  <2>4. new[r].origin = o /\ new[r].parent = q /\ DOMAIN new[r] = DOMAIN rows[r]
    BY <1>6
  <2> HIDE DEF o, q
  <2> QED BY <2>1, <2>2, <2>3, <2>4 DEF RowOK
<1>8. ASSUME NEW j \in 0 .. more PROVE RowOK(t, i, new, n + 1 + j)
  <2> DEFINE r == n + 1 + j
  <2>1. /\ DOMAIN new[r] = {"parent", "type", "origin", "system"} /\ new[r].origin = <<t.thread, i, j>>
        /\ j # 0 => new[r].parent = n + 1
    BY DEF Adds
  <2>2. /\ j \in Nat /\ r \in Nat /\ r > n /\ (j # 0 => r > n + 1) /\ (j = 0 => r = n + 1)
        /\ 0 .. n \subseteq 0 .. r - 1 /\ (j # 0 => n + 1 \in 0 .. r - 1)
    BY <1>5
  <2>3. new[n + 1].origin = <<t.thread, i, 0>> /\ new[n + 1].parent = p
    <3>1. 0 \in 0 .. more /\ n + 1 + 0 = n + 1
      BY <1>0, <1>2
    <3>2. new[n + 1 + 0].origin = <<t.thread, i, 0>>
      BY <3>1 DEF Adds
    <3> QED BY <3>1, <3>2
  <2>4. j # 0 => m.role = "assistant" /\ j \in DOMAIN m.calls
    BY <1>3
  <2>5. new[r].parent \in 0 .. r - 1
    <3>1. j = 0 => new[r].parent = p
      BY <2>2, <2>3
    <3> HIDE DEF r, n, p
    <3> QED BY <1>0, <2>1, <2>2, <3>1
  <2>6. j = 0 /\ p # 0 => new[p] = rows[p]
    <3>1. p # 0 => p \in 1 .. n
      <4> HIDE DEF n, p
      <4> QED BY <1>0, <1>2, Places
    <3> QED BY <1>6, <3>1
  <2>7. <<t.thread, i, j>> \in {t.thread} \X (1 .. i) \X Nat
    BY <1>1, <2>2
  <2>8. n + 1 # 0
    BY <1>2
  <2>9. Speaks(t.messages[i]) /\ (p = 0 => Before(t, i) = <<>>) /\ (p # 0 => Before(t, i) = rows[p].origin)
    BY DEF Adds
  <2> HIDE DEF r, n, p
  <2>10. RowOK(t, i, new, r)
    <3>1. CASE j = 0
      <4>1. r = n + 1 /\ new[r].parent = p /\ new[r].origin = <<t.thread, i, 0>>
        BY <2>1, <2>2, <2>3, <3>1
      <4>2. p # 0 => Before(t, i) = new[p].origin
        BY <2>6, <2>9, <3>1
      <4>3. <<t.thread, i, 0>> \in {t.thread} \X (1 .. i) \X Nat
        BY <2>7, <3>1
      <4>4. new[r].origin[2] = i /\ new[r].origin[3] = 0
        BY <4>1
      <4> QED BY <2>1, <2>5, <2>9, <4>1, <4>2, <4>3, <4>4 DEF RowOK
    <3>2. CASE j # 0
      <4>1. new[r].parent = n + 1 /\ new[n + 1].origin = <<t.thread, i, 0>> /\ m.role = "assistant"
            /\ j \in DOMAIN m.calls
        BY <2>1, <2>3, <2>4, <3>2
      <4> QED BY <2>1, <2>5, <2>7, <2>8, <2>9, <3>2, <4>1 DEF RowOK
    <3> QED BY <3>1, <3>2
  <2> QED BY <2>10 DEF r
<1>9. \A r \in 1 .. Len(new) : RowOK(t, i, new, r)
  BY <1>4, <1>7, <1>8
<1>10. ASSUME NEW q \in 1 .. Len(new), NEW r \in 1 .. Len(new), q < r
       PROVE  Sooner(new[q].origin, new[r].origin)
  <2>1. CASE r \in 1 .. n
    <3>1. q \in 1 .. n
      BY <1>2, <1>10, <2>1
    <3> QED BY <1>6, <1>10, <2>1, <3>1 DEF RowsOK
  <2>2. ASSUME NEW j \in 0 .. more, r = n + 1 + j
        PROVE  Sooner(new[q].origin, new[r].origin)
    <3>1. new[r].origin = <<t.thread, i, j>>
      BY <2>2 DEF Adds
    <3>2. CASE q \in 1 .. n
      <4>1. new[q].origin \in {t.thread} \X (1 .. i - 1) \X Nat
        BY <1>6, <3>2 DEF RowsOK, RowOK
      <4>2. new[q].origin[2] < i
        BY <1>1, <4>1
      <4> QED BY <3>1, <4>2 DEF Sooner
    <3>3. ASSUME NEW k \in 0 .. more, q = n + 1 + k
          PROVE  Sooner(new[q].origin, new[r].origin)
      <4>1. k < j
        BY <1>2, <1>3, <1>10, <2>2, <3>3
      <4>2. new[q].origin = <<t.thread, i, k>>
        BY <3>3 DEF Adds
      <4> QED BY <3>1, <4>1, <4>2 DEF Sooner
    <3> QED BY <1>4, <3>2, <3>3
  <2> QED BY <1>4, <2>1, <2>2
<1>11. ASSUME NEW k \in 1 .. i, Speaks(t.messages[k])
       PROVE  /\ Listed(new, <<t.thread, k, 0>>)
              /\ t.messages[k].role = "assistant" => \A j \in DOMAIN t.messages[k].calls :
                   Listed(new, <<t.thread, k, j>>)
  <2>1. \A o : Listed(rows, o) => Listed(new, o)
    BY <1>6 DEF Listed
  <2>2. CASE k # i
    BY <1>1, <1>11, <2>1, <2>2 DEF RowsOK
  <2>3. CASE k = i
    <3>1. \A j \in 0 .. more : Listed(new, <<t.thread, i, j>>)
      <4> TAKE j \in 0 .. more
      <4>1. n + 1 + j \in 1 .. Len(new)
        BY <1>5
      <4>2. new[n + 1 + j].origin = <<t.thread, i, j>>
        BY DEF Adds
      <4> HIDE DEF n
      <4> QED BY <4>1, <4>2 DEF Listed
    <3>2. 0 \in 0 .. more /\ \A j \in 1 .. more : j \in 0 .. more
      BY <1>3
    <3>3. Listed(new, <<t.thread, i, 0>>)
      BY <3>1, <3>2
    <3>4. m.role = "assistant" => \A j \in DOMAIN m.calls : Listed(new, <<t.thread, i, j>>)
      BY <1>3, <3>1, <3>2
    <3> QED BY <2>3, <3>3, <3>4
  <2> QED BY <2>2, <2>3
<1> QED BY <1>9, <1>10, <1>11 DEF RowsOK

\* A message that does not speak adds nothing.
LEMMA RowsStand ==
  ASSUME NEW t, ThreadOK(t), NEW i \in DOMAIN t.messages, NEW rows, RowsOK(t, i - 1, rows),
         ~ Speaks(t.messages[i])
  PROVE  RowsOK(t, i, rows)
<1>1. /\ \A k \in 1 .. i : k # i => k \in 1 .. i - 1
      /\ 1 .. i - 1 \subseteq 1 .. i
  BY ListFacts DEF ThreadOK
<1>2. \A r \in 1 .. Len(rows) : RowOK(t, i, rows, r)
  <2> TAKE r \in 1 .. Len(rows)
  <2>1. RowOK(t, i - 1, rows, r)
    BY DEF RowsOK
  <2>2. rows[r].origin \in {t.thread} \X (1 .. i) \X Nat
    BY <1>1, <2>1 DEF RowOK
  <2> QED BY <2>1, <2>2 DEF RowOK
<1>3. \A k \in 1 .. i : Speaks(t.messages[k]) => k \in 1 .. i - 1
  BY <1>1
<1> QED BY <1>2, <1>3 DEF RowsOK

\* Before names the last row if the message replies to no call.
LEMMA BelowLast ==
  ASSUME NEW t, ThreadOK(t), NEW i \in DOMAIN t.messages, NEW rows, RowsOK(t, i - 1, rows),
         ~ (t.messages[i].role = "tool" /\ t.messages[i].reply # NoCall /\ CallsBefore(t, i) # {})
  PROVE  /\ Len(rows) \in 0 .. Len(rows)
         /\ Len(rows) = 0 => Before(t, i) = <<>>
         /\ Len(rows) # 0 => Before(t, i) = rows[Len(rows)].origin
<1>1. Len(rows) \in Nat /\ (rows = <<>> <=> Len(rows) = 0)
  BY ListFacts DEF RowsOK
<1>2. Before(t, i) = IF SpokenBefore(t, i) = {} THEN <<>>
                     ELSE LET k == Newest(SpokenBefore(t, i)) IN
                       <<t.thread, k, IF t.messages[k].role = "assistant" THEN Len(t.messages[k].calls) ELSE 0>>
  BY DEF Before
<1> QED BY <1>1, <1>2, LastBefore

\* A row behind the others, without more.
LEMMA PlainAdds ==
  ASSUME NEW t, NEW i, NEW rows, IsList(rows), NEW p \in 0 .. Len(rows), NEW type, NEW system,
         p = 0 => Before(t, i) = <<>>,
         p # 0 => Before(t, i) = rows[p].origin
  PROVE  LET new == Append(rows, ImportRow(p, type, <<t.thread, i, 0>>, system)) IN
         IsList(new) /\ Adds(t, i, rows, new, 0)
<1> DEFINE row == ImportRow(p, type, <<t.thread, i, 0>>, system)
           new == Append(rows, row)
           n   == Len(rows)
<1>1. /\ DOMAIN row = {"parent", "type", "origin", "system"}
      /\ row.parent = p /\ row.origin = <<t.thread, i, 0>>
  BY DEF ImportRow
<1> HIDE DEF row
<1>2. IsList(new) /\ n \in Nat /\ Len(new) = n + 1 /\ new[n + 1] = row /\ \A r \in 1 .. n : new[r] = rows[r]
  BY ListFacts, ListAppend
<1> HIDE DEF new, n
<1>3. \A j \in 0 .. 0 : j = 0 /\ n + 1 + j = n + 1
  BY <1>2
<1>4. Len(new) = n + 1 + 0
  BY <1>2
<1>5. \A j \in 0 .. 0 : new[n + 1 + j] = row
  BY <1>2, <1>3
<1>6. Adds(t, i, rows, new, 0)
  BY <1>1, <1>2, <1>3, <1>4, <1>5 DEF Adds, n
<1> QED BY <1>2, <1>6 DEF new, row

\* A row behind the others, and one below it for each call.
LEMMA CallsAdd ==
  ASSUME NEW t, NEW i, NEW rows, IsList(rows), NEW calls, IsList(calls), NEW type, NEW system,
         Len(rows) = 0 => Before(t, i) = <<>>,
         Len(rows) # 0 => Before(t, i) = rows[Len(rows)].origin
  PROVE  LET n   == Len(rows)
             new == Append(rows, ImportRow(n, type, <<t.thread, i, 0>>, system)) \o
                    [j \in DOMAIN calls |-> ImportRow(n + 1, "tool_call", <<t.thread, i, j>>, FALSE)] IN
         IsList(new) /\ Adds(t, i, rows, new, Len(calls))
<1> DEFINE n    == Len(rows)
           row  == ImportRow(n, type, <<t.thread, i, 0>>, system)
           head == Append(rows, row)
           c(j) == ImportRow(n + 1, "tool_call", <<t.thread, i, j>>, FALSE)
           tail == [j \in DOMAIN calls |-> c(j)]
           new  == head \o tail
           k    == Len(calls)
<1>1. /\ DOMAIN row = {"parent", "type", "origin", "system"}
      /\ row.parent = n /\ row.origin = <<t.thread, i, 0>>
  BY DEF ImportRow
<1>2. \A j : /\ DOMAIN c(j) = {"parent", "type", "origin", "system"}
             /\ c(j).origin = <<t.thread, i, j>> /\ c(j).parent = n + 1
  BY DEF ImportRow
<1> HIDE DEF row, c
<1>3. n \in Nat /\ k \in Nat /\ DOMAIN calls = 1 .. k
  BY ListFacts
<1>4. IsList(head) /\ Len(head) = n + 1 /\ head[n + 1] = row /\ \A r \in 1 .. n : head[r] = rows[r]
  BY ListAppend
<1>5. IsList(tail) /\ Len(tail) = k /\ \A j \in 1 .. k : tail[j] = c(j)
  <2>1. DOMAIN tail = 1 .. k /\ \A j \in 1 .. k : tail[j] = c(j)
    BY <1>3
  <2>2. tail \in Seq(ToSet(tail))
    <3>1. ToSet(tail) = {tail[j] : j \in 1 .. k}
      BY <2>1 DEF ToSet
    <3>2. tail = [j \in 1 .. k |-> tail[j]]
      BY <2>1
    <3> HIDE DEF tail, k
    <3>3. tail \in [1 .. k -> ToSet(tail)]
      BY <3>1, <3>2
    <3> QED BY <1>3, <3>3
  <2>3. Len(tail) = k
    <3> HIDE DEF tail, k
    <3> QED BY <1>3, <2>1, <2>2
  <2> QED BY <2>1, <2>2, <2>3 DEF IsList
<1> HIDE DEF head, tail
<1>6. /\ IsList(new) /\ Len(new) = Len(head) + Len(tail)
      /\ \A r \in 1 .. Len(head) : new[r] = head[r]
      /\ \A j \in 1 .. Len(tail) : new[Len(head) + j] = tail[j]
  BY <1>4, <1>5, ListConcat
<1> HIDE DEF new, n, k
<1>7. Len(new) = n + 1 + k
  BY <1>3, <1>4, <1>5, <1>6
<1>8. \A r \in 1 .. n : new[r] = rows[r]
  <2>1. \A r \in 1 .. n : r \in 1 .. n + 1
    BY <1>3
  <2> QED BY <1>4, <1>6, <2>1
<1>9. new[n + 1] = row
  <2>1. n + 1 \in 1 .. n + 1
    BY <1>3
  <2> QED BY <1>4, <1>6, <2>1
<1>10. \A j \in 1 .. k : new[n + 1 + j] = c(j)
  BY <1>4, <1>5, <1>6
<1>11. ASSUME NEW j \in 0 .. k
       PROVE  /\ DOMAIN new[n + 1 + j] = {"parent", "type", "origin", "system"}
              /\ new[n + 1 + j].origin = <<t.thread, i, j>>
              /\ j # 0 => new[n + 1 + j].parent = n + 1
  <2>1. CASE j = 0
    <3>1. n + 1 + j = n + 1
      BY <1>3, <2>1
    <3> QED BY <1>1, <1>9, <2>1, <3>1
  <2>2. CASE j # 0
    <3>1. j \in 1 .. k
      BY <1>3, <2>2
    <3> QED BY <1>2, <1>10, <3>1
  <2> QED BY <2>1, <2>2
<1>12. n \in 0 .. n /\ new[n + 1].parent = n
  BY <1>1, <1>3, <1>9
<1>13. (n = 0 => Before(t, i) = <<>>) /\ (n # 0 => Before(t, i) = rows[n].origin)
  BY DEF n
<1>14. Adds(t, i, rows, new, k)
  BY <1>7, <1>8, <1>11, <1>12, <1>13 DEF Adds, n
<1> QED BY <1>6, <1>14 DEF new, head, tail, row, c, n, k

\* One more message.
LEMMA MessageAdds ==
  ASSUME NEW t, ThreadOK(t), NEW i \in DOMAIN t.messages, NEW rows, RowsOK(t, i - 1, rows)
  PROVE  RowsOK(t, i, AddMessage(t, rows, i))
<1> DEFINE m     == t.messages[i]
           n     == Len(rows)
           named == CallRows(t, rows, m.reply)
           sys(type) == type = "user" /\ FirstOfTalk(t, i) /\ HasSystem(t)
           Plain(type, parent) == Append(rows, ImportRow(parent, type, <<t.thread, i, 0>>, sys(type)))
           new   == AddMessage(t, rows, i)
<1>1. IsList(rows) /\ IsList(m.calls) /\ n \in Nat /\ (rows = <<>> <=> n = 0)
  BY ListFacts DEF RowsOK, ThreadOK
<1>2. CASE m.role = "user"
  <2>1. new = Plain("user", IF FirstOfTalk(t, i) THEN 0 ELSE n)
    BY <1>2 DEF AddMessage
  <2>2. n \in 0 .. n /\ (n = 0 => Before(t, i) = <<>>) /\ (n # 0 => Before(t, i) = rows[n].origin)
    BY <1>2, BelowLast
  <2>3. FirstOfTalk(t, i) => n = 0
    <3>1. FirstOfTalk(t, i) => SpokenBefore(t, i) = {}
      BY DEF FirstOfTalk, SpokenBefore, Speaks
    <3> QED BY <1>1, <3>1, LastBefore
  <2>4. new = Plain("user", n)
    BY <2>1, <2>3
  <2> HIDE DEF sys, new
  <2>5. IsList(new) /\ Adds(t, i, rows, new, 0)
    BY <1>1, <2>2, <2>4, PlainAdds
  <2> QED BY <1>2, <2>5, RowsExtend DEF Speaks, new
<1>3. CASE m.role = "assistant"
  <2>1. new = Plain("assistant", n) \o
              [j \in DOMAIN m.calls |-> ImportRow(n + 1, "tool_call", <<t.thread, i, j>>, FALSE)]
    BY <1>3 DEF AddMessage
  <2>2. n \in 0 .. n /\ (n = 0 => Before(t, i) = <<>>) /\ (n # 0 => Before(t, i) = rows[n].origin)
    BY <1>3, BelowLast
  <2> HIDE DEF sys, new
  <2>3. IsList(new) /\ Adds(t, i, rows, new, Len(m.calls))
    BY <1>1, <2>1, <2>2, CallsAdd
  <2> QED BY <1>3, <2>3, RowsExtend DEF Speaks, new
<1>4. CASE m.role = "tool"
  <2> DEFINE p == IF named = {} THEN n ELSE Newest(named)
  <2>1. new = Plain("tool_result", p)
    BY <1>4 DEF AddMessage
  <2>2. p \in 0 .. n /\ (p = 0 => Before(t, i) = <<>>) /\ (p # 0 => Before(t, i) = rows[p].origin)
    <3>1. CASE named = {}
      BY <3>1, CallBefore, BelowLast
    <3>2. CASE named # {}
      <4>1. /\ p = Newest(named) /\ p \in 1 .. n
            /\ m.reply # NoCall /\ CallsBefore(t, i) # {}
            /\ rows[p].origin = <<t.thread, NewestCall(CallsBefore(t, i))[1], NewestCall(CallsBefore(t, i))[2]>>
        BY <3>2, CallBefore
      <4>2. Before(t, i) = rows[p].origin
        BY <1>4, <4>1 DEF Before
      <4>3. p \in 0 .. n /\ p # 0
        <5> HIDE DEF p, n
        <5> QED BY <1>1, <4>1
      <4> QED BY <4>2, <4>3
    <3> QED BY <3>1, <3>2
  <2> HIDE DEF sys, new, p
  <2>3. IsList(new) /\ Adds(t, i, rows, new, 0)
    BY <1>1, <2>1, <2>2, PlainAdds
  <2> QED BY <1>4, <2>3, RowsExtend DEF Speaks, new
<1>5. CASE m.role \notin {"user", "assistant", "tool"}
  <2>1. new = rows /\ ~ Speaks(m)
    BY <1>5 DEF AddMessage, Speaks
  <2> QED BY <2>1, RowsStand
<1> QED BY <1>2, <1>3, <1>4, <1>5

\* The rows of a thread.
LEMMA RowsRight ==
  ASSUME NEW t, ThreadOK(t)
  PROVE  RowsOK(t, Len(t.messages), Rows(t))
<1> DEFINE N == Len(t.messages)
           B == RowsBy(t)
           Bad == {i \in 0 .. N : ~ RowsOK(t, i, B[i])}
<1>1. N \in Nat /\ DOMAIN t.messages = 1 .. N
  BY ListFacts DEF ThreadOK
<1>2. \A i \in 0 .. N : B[i] = IF i = 0 THEN <<>> ELSE AddMessage(t, B[i - 1], i)
  BY <1>1, RowsByDef
<1> HIDE DEF B
<1>3. RowsOK(t, 0, B[0])
  <2>1. B[0] = <<>>
    BY <1>1, <1>2
  <2>2. IsList(<<>>) /\ Len(<<>>) = 0
    BY DEF IsList
  <2> QED BY <2>1, <2>2 DEF RowsOK
<1>4. \A i \in 1 .. N : RowsOK(t, i - 1, B[i - 1]) => RowsOK(t, i, B[i])
  <2> TAKE i \in 1 .. N
  <2>1. i \in 0 .. N /\ i # 0
    BY <1>1
  <2>2. B[i] = AddMessage(t, B[i - 1], i)
    BY <1>2, <2>1
  <2> QED BY <1>1, <2>2, MessageAdds
<1>5. Bad = {}
  <2> SUFFICES ASSUME Bad # {} PROVE FALSE
    OBVIOUS
  <2>1. \A i \in Bad : i \in 0 .. N /\ ~ RowsOK(t, i, B[i])
    OBVIOUS
  <2>2. \A i \in 0 .. N : i \notin Bad => RowsOK(t, i, B[i])
    OBVIOUS
  <2> HIDE DEF Bad
  <2>3. Bad \subseteq Nat
    BY <1>1, <2>1
  <2>4. PICK i \in Bad : \A k \in Bad : i <= k
    BY <2>3, LeastNatural
  <2>5. i # 0 /\ i \in 0 .. N
    BY <1>3, <2>1
  <2>6. i \in 1 .. N /\ i - 1 \in 0 .. N /\ ~ (i <= i - 1)
    BY <1>1, <2>5
  <2>7. RowsOK(t, i - 1, B[i - 1])
    BY <2>2, <2>4, <2>6
  <2> QED BY <1>4, <2>1, <2>6, <2>7
<1>6. N \in 0 .. N
  BY <1>1
<1> QED BY <1>5, <1>6 DEF Rows, B

\* The messages of a checkpoint, as the thread lists them.
LEMMA MessagesRead ==
  ASSUME NEW raw \in Seq(RawMessage), NEW id
  PROVE  ThreadOK([thread |-> id, messages |-> ExportedMessages(raw)])
<1> DEFINE role(i) == IF RoleOf(raw[i]) = "" THEN "left out" ELSE RoleOf(raw[i])
           ms == [i \in DOMAIN raw |-> [role |-> role(i), calls |-> raw[i].calls, reply |-> raw[i].reply]]
           t  == [thread |-> id, messages |-> ms]
<1>1. ExportedMessages(raw) = ms
  BY DEF ExportedMessages
<1> HIDE DEF role
<1>2. /\ Len(raw) \in Nat /\ DOMAIN raw = 1 .. Len(raw)
      /\ \A i \in DOMAIN raw : raw[i].calls \in Seq(STRING)
  <2>1. Len(raw) \in Nat /\ DOMAIN raw = 1 .. Len(raw) /\ \A i \in DOMAIN raw : raw[i] \in RawMessage
    OBVIOUS
  <2>2. \A m \in RawMessage : m.calls \in Seq(STRING)
    BY DEF RawMessage
  <2> QED BY <2>1, <2>2
<1>3. \A i \in DOMAIN raw : IsList(raw[i].calls)
  <2> SUFFICES ASSUME NEW s \in Seq(STRING) PROVE IsList(s)
    BY <1>2
  <2>1. s \in [1 .. Len(s) -> ToSet(s)] /\ Len(s) \in Nat
    BY DEF ToSet
  <2> QED BY <2>1 DEF IsList
<1>4. DOMAIN ms = 1 .. Len(raw) /\ \A i \in DOMAIN ms : IsList(ms[i].calls)
  BY <1>2, <1>3
<1>5. IsList(ms)
  <2>1. ms = [i \in 1 .. Len(raw) |-> ms[i]]
    BY <1>2
  <2> HIDE DEF ms
  <2>2. ms \in [1 .. Len(raw) -> ToSet(ms)]
    BY <1>4, <2>1 DEF ToSet
  <2> QED BY <1>2, <2>2 DEF IsList
<1> HIDE DEF ms
<1>6. t.messages = ms
  OBVIOUS
<1> HIDE DEF t
<1>7. ThreadOK(t)
  BY <1>4, <1>5, <1>6 DEF ThreadOK
<1> QED BY <1>1, <1>7 DEF t

\* The threads of a database: each once, with messages in order.
LEMMA DatabaseRead ==
  ASSUME NEW db \in Seq(Checkpoint)
  PROVE  LET ts == ReadExportData(db) IN
         /\ Len(ts) \in Nat /\ DOMAIN ts = 1 .. Len(ts)
         /\ \A x \in DOMAIN ts : ThreadOK(ts[x])
         /\ \A x, y \in DOMAIN ts : ts[x].thread = ts[y].thread => x = y
<1> DEFINE N   == Len(db)
           T   == {db[i].thread : i \in DOMAIN db}
           S   == {t \in T : Readable(db, t)}
           ids == SetToSeq(S)
           ts  == ReadExportData(db)
<1>1. N \in Nat /\ DOMAIN db = 1 .. N /\ \A i \in DOMAIN db : db[i] \in Checkpoint
  OBVIOUS
<1>2. IsFiniteSet(S)
  <2> DEFINE f == [i \in DOMAIN db |-> db[i].thread]
  <2>1. f \in Surjection(DOMAIN db, T)
    BY DEF Surjection
  <2>2. IsFiniteSet(DOMAIN db)
    BY <1>1, FS_Interval
  <2> HIDE DEF f, T
  <2>3. IsFiniteSet(T)
    BY <2>1, <2>2, FS_Surjection
  <2>4. S \in SUBSET T
    OBVIOUS
  <2> QED BY <2>3, <2>4, FS_Subset
<1>3. /\ Cardinality(S) \in Nat /\ ids \in [1 .. Cardinality(S) -> S] /\ IsInjective(ids)
  <2> HIDE DEF S
  <2>1. Cardinality(S) \in Nat /\ ExistsBijection(1 .. Cardinality(S), S)
    BY <1>2, FS_CardinalityType
  <2>2. PICK f \in [1 .. Cardinality(S) -> S] : IsInjective(f)
    BY <2>1 DEF ExistsBijection, Bijection, Injection, IsInjective
  <2> QED BY <2>1, <2>2 DEF SetToSeq
<1>4. ASSUME NEW t \in S
      PROVE  Latest(db, t).messages \in Seq(RawMessage)
  <2> DEFINE R == RootCheckpoints(db, t)
             D == {N - i : i \in R}
  <2>1. R # {} /\ \A i \in R : i \in 1 .. N
    BY <1>1, <1>4 DEF Readable, RootCheckpoints
  <2>2. D \subseteq Nat /\ D # {}
    <3> HIDE DEF R, N
    <3> QED BY <1>1, <2>1
  <2>3. PICK d \in D : \A y \in D : d <= y
    <3> HIDE DEF D
    <3> QED BY <2>2, LeastNatural
  <2>4. PICK i \in R : d = N - i
    BY <2>3
  <2>5. \A k \in R : k <= i
    <3> TAKE k \in R
    <3>1. N - i <= N - k
      BY <2>3, <2>4
    <3>2. k \in 1 .. N /\ i \in 1 .. N
      BY <2>1
    <3> HIDE DEF R, N
    <3> QED BY <1>1, <3>1, <3>2
  <2>6. PICK k \in R : Latest(db, t) = db[k]
    <3> HIDE DEF R
    <3>1. \E k \in R : \A l \in R : l <= k
      BY <2>5
    <3> QED BY <3>1 DEF Latest, R
  <2>7. db[k] \in Checkpoint
    BY <1>1, <2>1, <2>6
  <2> QED BY <2>6, <2>7 DEF Checkpoint
<1> HIDE DEF S
<1>5. ts = [x \in DOMAIN ids |->
              [thread |-> ids[x], messages |-> ExportedMessages(Latest(db, ids[x]).messages)]]
  BY DEF ReadExportData, S
<1>6. DOMAIN ids = 1 .. Cardinality(S) /\ \A x \in DOMAIN ids : ids[x] \in S
  BY <1>3
<1>7. \A x \in DOMAIN ts : ThreadOK(ts[x]) /\ ts[x].thread = ids[x]
  BY <1>4, <1>5, <1>6, MessagesRead
<1>8. DOMAIN ts = DOMAIN ids
  BY <1>5
<1>9. Len(ts) = Cardinality(S)
  <2> HIDE DEF ts, ids
  <2> QED BY <1>3, <1>6, <1>8
<1> HIDE DEF ts, ids
<1> QED BY <1>3, <1>6, <1>7, <1>8, <1>9 DEF IsInjective, ts

\* Whatever is imported: each thread once, with messages in order.
LEMMA ThreadsRead ==
  ASSUME source \in Exports
  PROVE  /\ Len(Threads) \in Nat /\ DOMAIN Threads = 1 .. Len(Threads)
         /\ \A x \in DOMAIN Threads : ThreadOK(Threads[x])
         /\ \A x, y \in DOMAIN Threads : Threads[x].thread = Threads[y].thread => x = y
<1>1. CASE /\ source \in [threads : Seq(ExportThread)]
           /\ \A x, y \in DOMAIN source.threads :
                source.threads[x].thread = source.threads[y].thread => x = y
  <2>1. Threads = source.threads /\ source.threads \in Seq(ExportThread)
    BY <1>1 DEF Threads
  <2>2. ASSUME NEW t \in ExportThread PROVE ThreadOK(t)
    <3>1. /\ t.messages \in Seq(ExportMessage)
          /\ \A i \in DOMAIN t.messages : t.messages[i].calls \in Seq(STRING)
      <4>1. t.messages \in Seq(ExportMessage)
        BY DEF ExportThread
      <4>2. \A m \in ExportMessage : m.calls \in Seq(STRING)
        BY DEF ExportMessage
      <4>3. \A i \in DOMAIN t.messages : t.messages[i] \in ExportMessage
        BY <4>1
      <4> QED BY <4>1, <4>2, <4>3
    <3>2. ASSUME NEW S, NEW s \in Seq(S) PROVE IsList(s)
      <4>1. s \in [1 .. Len(s) -> ToSet(s)] /\ Len(s) \in Nat
        BY DEF ToSet
      <4> QED BY <4>1 DEF IsList
    <3> QED BY <3>1, <3>2 DEF ThreadOK
  <2>3. \A x \in DOMAIN Threads : ThreadOK(Threads[x])
    BY <2>1, <2>2
  <2>4. Len(Threads) \in Nat /\ DOMAIN Threads = 1 .. Len(Threads)
    BY <2>1
  <2> QED BY <1>1, <2>1, <2>3, <2>4
<1>2. CASE source \in [checkpoints : Seq(Checkpoint)]
  <2>1. Threads = ReadExportData(source.checkpoints) /\ source.checkpoints \in Seq(Checkpoint)
    BY <1>2 DEF Threads
  <2> QED BY <2>1, DatabaseRead
<1> QED BY <1>1, <1>2, ExportsAssumption

-----------------------------------------------------------------------------
(***************************************************************************)
(* The import.                                                             *)
(***************************************************************************)
CommandOK ==
  /\ DOMAIN importer = DOMAIN Idle
  /\ importer.pc \in {"idle", "thread", "row", "done"}
  /\ importer.thread \in Nat \ {0} /\ importer.row \in Nat \ {0} /\ importer.base \in Nat
  /\ ~ importer.skip => importer.existing = {}

ImportTypeOK ==
  /\ CommandOK
  /\ nextId \in NodeId /\ DOMAIN nodes \subseteq 1 .. nextId - 1

\* Row r of a thread as it is stored from base on.
StoredRow(t, base, r) ==
  [Rows(t)[r] EXCEPT !.parent = IF @ = 0 THEN NoNode ELSE base + @]
StoredUpTo(t, base, r) ==
  \A k \in 1 .. r : base + k \in DOMAIN nodes /\ nodes[base + k] = StoredRow(t, base, k)

\* The thread at hand is stored up to the row to come, under the last ids.
UnderWay ==
  importer.pc = "row" =>
    /\ importer.thread <= Len(Threads)
    /\ importer.row \in 1 .. Len(Rows(Current))
    /\ nextId = importer.base + importer.row
    /\ StoredUpTo(Current, importer.base, importer.row - 1)

\* A thread that is reported has all of its rows somewhere.
ReportedStored ==
  \A x \in DOMAIN Threads : Threads[x].thread \in importer.imported =>
    \E base \in Nat : StoredUpTo(Threads[x], base, Len(Rows(Threads[x])))

\* A thread that has a node has a root.
RootOfEach == \A n \in DOMAIN nodes : nodes[n].origin[1] \in OriginalThreads

OfThread(t) == {n \in DOMAIN nodes : nodes[n].origin[1] = t}

\* The threads still to come are skipped or have no node, and the nodes of
\* the thread at hand are those this run stored.
StillToCome ==
  importer.careful =>
    /\ importer.pc = "thread" =>
         \A x \in DOMAIN Threads : x >= importer.thread /\ Threads[x].thread \notin importer.existing =>
           OfThread(Threads[x].thread) = {}
    /\ importer.pc = "row" =>
         /\ \A x \in DOMAIN Threads : x > importer.thread /\ Threads[x].thread \notin importer.existing =>
              OfThread(Threads[x].thread) = {}
         /\ \A n \in OfThread(Current.thread) : n > importer.base

ImportInv ==
  /\ source \in Exports
  /\ ImportTypeOK /\ UnderWay /\ ReportedStored /\ RootOfEach /\ StillToCome /\ EachMessageOnce

\* The first row of a thread is a root, and its rows are rows of one thread,
\* no two of the same message or call.
LEMMA RowsOfThread ==
  ASSUME NEW t, ThreadOK(t)
  PROVE  /\ Len(Rows(t)) \in Nat
         /\ Rows(t) = <<>> <=> Len(Rows(t)) = 0
         /\ \A r \in 1 .. Len(Rows(t)) :
              /\ DOMAIN Rows(t)[r] = {"parent", "type", "origin", "system"}
              /\ Rows(t)[r].origin[1] = t.thread
              /\ Rows(t)[r].parent \in 0 .. r - 1
         /\ \A q, r \in 1 .. Len(Rows(t)) : Rows(t)[q].origin = Rows(t)[r].origin => q = r
<1> DEFINE rows == Rows(t)
           n == Len(t.messages)
<1>1. RowsOK(t, n, rows)
  BY RowsRight
<1>2. n \in Nat
  BY ListFacts DEF ThreadOK
<1> HIDE DEF rows, n
<1>3. Len(rows) \in Nat /\ (rows = <<>> <=> Len(rows) = 0)
  BY <1>1, ListFacts DEF RowsOK
<1>4. \A r \in 1 .. Len(rows) :
        /\ DOMAIN rows[r] = {"parent", "type", "origin", "system"}
        /\ rows[r].origin \in {t.thread} \X (1 .. n) \X Nat
        /\ rows[r].parent \in 0 .. r - 1
  BY <1>1 DEF RowsOK, RowOK
<1>5. \A r \in 1 .. Len(rows) :
        rows[r].origin[1] = t.thread /\ rows[r].origin[2] \in Nat /\ rows[r].origin[3] \in Nat
  BY <1>2, <1>4
<1>6. \A q, r \in 1 .. Len(rows) : rows[q].origin = rows[r].origin => q = r
  <2> SUFFICES ASSUME NEW q \in 1 .. Len(rows), NEW r \in 1 .. Len(rows),
                      rows[q].origin = rows[r].origin, q < r
               PROVE  FALSE
    BY <1>3
  <2>1. Sooner(rows[q].origin, rows[r].origin)
    BY <1>1 DEF RowsOK
  <2> QED BY <1>5, <2>1 DEF Sooner
<1> QED BY <1>3, <1>4, <1>5, <1>6 DEF rows

\* A row as it is stored.
LEMMA RowStored ==
  ASSUME NEW t, ThreadOK(t), NEW r \in 1 .. Len(Rows(t)), NEW base
  PROVE  /\ StoredRow(t, base, r).origin = Rows(t)[r].origin
         /\ StoredRow(t, base, r).parent =
              IF Rows(t)[r].parent = 0 THEN NoNode ELSE base + Rows(t)[r].parent
<1>1. DOMAIN Rows(t)[r] = {"parent", "type", "origin", "system"}
  BY RowsOfThread
<1> QED BY <1>1 DEF StoredRow

\* What a step leaves alone that stores nothing.
LEMMA NothingStored ==
  ASSUME ImportFrame
  PROVE  /\ source' = source /\ nodes' = nodes /\ nextId' = nextId
         /\ Threads' = Threads /\ OriginalThreads' = OriginalThreads
         /\ \A t : OfThread(t)' = OfThread(t)
         /\ \A t, base, r : StoredUpTo(t, base, r)' <=> StoredUpTo(t, base, r)
         /\ RootOfEach' <=> RootOfEach
BY DEF ImportFrame, Threads, OriginalThreads, OfThread, StoredUpTo, StoredRow, RootOfEach

LEMMA ImportInitOK == ImportInit => ImportInv
<1> SUFFICES ASSUME ImportInit PROVE ImportInv
  OBVIOUS
<1> USE DEF ImportInit, StoreInit, Idle
<1>1. DOMAIN nodes = {}
  OBVIOUS
<1>2. ImportTypeOK
  BY <1>1 DEF ImportTypeOK, CommandOK, NodeId
<1>3. UnderWay /\ ReportedStored /\ StillToCome
  BY DEF UnderWay, ReportedStored, StillToCome
<1>4. RootOfEach /\ EachMessageOnce
  BY <1>1 DEF RootOfEach, EachMessageOnce
<1> QED BY <1>2, <1>3, <1>4 DEF ImportInv

Whole(t) == \E base \in Nat : StoredUpTo(t, base, Len(Rows(t)))

\* What holds after a step that stores nothing, reports only threads that are
\* stored as a whole, and keeps UnderWay and StillToCome.
LEMMA QuietStep ==
  ASSUME ImportInv, ImportFrame, CommandOK', UnderWay', StillToCome',
         importer'.careful => importer.careful,
         \A x \in DOMAIN Threads : Threads[x].thread \in importer'.imported =>
           Threads[x].thread \in importer.imported \/ Whole(Threads[x])
  PROVE  ImportInv'
<1>1. source' \in Exports /\ ImportTypeOK'
  BY NothingStored DEF ImportInv, ImportTypeOK
<1>2. ReportedStored'
  BY NothingStored DEF ImportInv, ReportedStored, Whole
<1>3. RootOfEach'
  BY NothingStored DEF ImportInv
<1>4. EachMessageOnce'
  BY NothingStored DEF ImportInv, EachMessageOnce
<1> QED BY <1>1, <1>2, <1>3, <1>4 DEF ImportInv

LEMMA StartImportKeeps == ImportInv /\ StartImport => ImportInv'
<1> SUFFICES ASSUME ImportInv, StartImport PROVE ImportInv'
  OBVIOUS
<1>1. ImportFrame /\ CommandOK
  BY DEF StartImport, ImportInv, ImportTypeOK
<1>2. PICK skip \in BOOLEAN :
        importer' = [importer EXCEPT !.pc = "thread", !.skip = skip, !.runs = @ + 1,
         !.existing = IF skip THEN OriginalThreads ELSE {},
         !.thread = 1, !.imported = {}, !.skipped = {}, !.failed = {},
         !.careful = @ /\ (skip \/ DOMAIN nodes = {})]
  BY DEF StartImport
<1>3. /\ DOMAIN importer' = DOMAIN Idle
      /\ importer'.pc = "thread" /\ importer'.skip = skip /\ importer'.thread = 1
      /\ importer'.row = importer.row /\ importer'.base = importer.base
      /\ importer'.existing = IF skip THEN OriginalThreads ELSE {}
      /\ importer'.imported = {}
      /\ importer'.careful = (importer.careful /\ (skip \/ DOMAIN nodes = {}))
  BY <1>1, <1>2 DEF CommandOK, Idle
<1>4. CommandOK' /\ UnderWay'
  BY <1>1, <1>3 DEF CommandOK, UnderWay
<1>5. StillToCome'
  <2>1. ASSUME importer'.careful, NEW t, t \notin importer'.existing
        PROVE  OfThread(t) = {}
    <3>1. CASE skip
      BY <1>3, <2>1, <3>1 DEF OfThread, ImportInv, RootOfEach
    <3>2. CASE ~ skip
      BY <1>3, <2>1, <3>2 DEF OfThread
    <3> QED BY <3>1, <3>2
  <2> QED BY <1>1, <1>3, <2>1, NothingStored DEF StillToCome
<1> QED BY <1>1, <1>3, <1>4, <1>5, QuietStep

LEMMA DryRunKeeps == ImportInv /\ DryRun => ImportInv'
<1> SUFFICES ASSUME ImportInv, DryRun PROVE ImportInv'
  OBVIOUS
<1>1. ImportFrame /\ CommandOK
  BY DEF DryRun, ImportInv, ImportTypeOK
<1>2. /\ DOMAIN importer' = DOMAIN Idle
      /\ importer'.pc = "done" /\ importer'.skip = importer.skip /\ importer'.thread = importer.thread
      /\ importer'.row = importer.row /\ importer'.base = importer.base
      /\ importer'.existing = importer.existing
      /\ importer'.imported = {} /\ importer'.careful = importer.careful
  BY <1>1 DEF DryRun, CommandOK, Idle
<1>3. CommandOK' /\ UnderWay' /\ StillToCome'
  BY <1>1, <1>2 DEF CommandOK, UnderWay, StillToCome
<1> QED BY <1>1, <1>2, <1>3, QuietStep

LEMMA FinishImportKeeps == ImportInv /\ FinishImport => ImportInv'
<1> SUFFICES ASSUME ImportInv, FinishImport PROVE ImportInv'
  OBVIOUS
<1>1. ImportFrame /\ CommandOK
  BY DEF FinishImport, ImportInv, ImportTypeOK
<1>2. /\ DOMAIN importer' = DOMAIN Idle
      /\ importer'.pc = "done" /\ importer'.skip = importer.skip /\ importer'.thread = importer.thread
      /\ importer'.row = importer.row /\ importer'.base = importer.base
      /\ importer'.existing = importer.existing
      /\ importer'.imported = importer.imported /\ importer'.careful = importer.careful
  BY <1>1 DEF FinishImport, CommandOK, Idle
<1>3. CommandOK' /\ UnderWay' /\ StillToCome'
  BY <1>1, <1>2 DEF CommandOK, UnderWay, StillToCome
<1> QED BY <1>1, <1>2, <1>3, QuietStep

LEMMA ImportDiesKeeps == ImportInv /\ ImportDies => ImportInv'
<1> SUFFICES ASSUME ImportInv, ImportDies PROVE ImportInv'
  OBVIOUS
<1>1. ImportFrame /\ CommandOK
  BY DEF ImportDies, ImportInv, ImportTypeOK
<1>2. /\ DOMAIN importer' = DOMAIN Idle
      /\ importer'.pc = "idle" /\ importer'.skip = importer.skip /\ importer'.thread = importer.thread
      /\ importer'.row = importer.row /\ importer'.base = importer.base
      /\ importer'.existing = importer.existing
      /\ importer'.imported = {} /\ importer'.careful = importer.careful
  BY <1>1 DEF ImportDies, CommandOK, Idle
<1>3. CommandOK' /\ UnderWay' /\ StillToCome'
  BY <1>1, <1>2 DEF CommandOK, UnderWay, StillToCome
<1> QED BY <1>1, <1>2, <1>3, QuietStep

\* The step to the next thread.
LEMMA NextThreadIs ==
  ASSUME NEW i, DOMAIN i = DOMAIN Idle
  PROVE  LET j == NextThread(i) IN
         /\ DOMAIN j = DOMAIN Idle /\ j.pc = "thread" /\ j.thread = i.thread + 1
         /\ j.skip = i.skip /\ j.row = i.row /\ j.base = i.base
         /\ j.existing = i.existing /\ j.imported = i.imported /\ j.careful = i.careful
BY DEF NextThread, Idle

\* What is still to come when a thread is done with.
LEMMA ThreadOver ==
  ASSUME ImportInv, AtThread \/ importer.pc = "row", importer'.pc = "thread",
         importer'.thread = importer.thread + 1, importer'.existing = importer.existing,
         importer'.careful = importer.careful, ImportFrame
  PROVE  StillToCome'
<1>1. importer.thread \in Nat
  BY DEF ImportInv, ImportTypeOK, CommandOK
<1>2. \A x \in DOMAIN Threads : x >= importer.thread + 1 => x >= importer.thread /\ x > importer.thread
  <2>1. DOMAIN Threads \subseteq Nat
    BY ThreadsRead DEF ImportInv
  <2> QED BY <1>1, <2>1
<1> QED BY <1>2, NothingStored DEF ImportInv, StillToCome, AtThread

LEMMA SkipThreadKeeps == ImportInv /\ SkipThread => ImportInv'
<1> SUFFICES ASSUME ImportInv, SkipThread PROVE ImportInv'
  OBVIOUS
<1>1. ImportFrame /\ CommandOK /\ AtThread
  BY DEF SkipThread, ImportInv, ImportTypeOK
<1> DEFINE i == [importer EXCEPT !.skipped = @ \cup {Current.thread}]
<1>2. /\ DOMAIN i = DOMAIN Idle /\ i.thread = importer.thread
      /\ i.skip = importer.skip /\ i.row = importer.row /\ i.base = importer.base
      /\ i.existing = importer.existing /\ i.imported = importer.imported /\ i.careful = importer.careful
  BY <1>1 DEF CommandOK, Idle
<1>3. importer' = NextThread(i)
  BY DEF SkipThread
<1> HIDE DEF i
<1>4. /\ DOMAIN importer' = DOMAIN Idle
      /\ importer'.pc = "thread" /\ importer'.skip = importer.skip /\ importer'.thread = importer.thread + 1
      /\ importer'.row = importer.row /\ importer'.base = importer.base
      /\ importer'.existing = importer.existing
      /\ importer'.imported = importer.imported /\ importer'.careful = importer.careful
  BY <1>2, <1>3, NextThreadIs
<1>5. CommandOK' /\ UnderWay'
  BY <1>1, <1>4 DEF CommandOK, UnderWay
<1>6. StillToCome'
  BY <1>1, <1>4, ThreadOver
<1> QED BY <1>1, <1>4, <1>5, <1>6, QuietStep

LEMMA RowFailsKeeps == ImportInv /\ RowFails => ImportInv'
<1> SUFFICES ASSUME ImportInv, RowFails PROVE ImportInv'
  OBVIOUS
<1>1. ImportFrame /\ CommandOK /\ importer.pc = "row"
  BY DEF RowFails, ImportInv, ImportTypeOK
<1> DEFINE i == [importer EXCEPT !.failures = @ + 1, !.failed = @ \cup {Current.thread}]
<1>2. /\ DOMAIN i = DOMAIN Idle /\ i.thread = importer.thread
      /\ i.skip = importer.skip /\ i.row = importer.row /\ i.base = importer.base
      /\ i.existing = importer.existing /\ i.imported = importer.imported /\ i.careful = importer.careful
  BY <1>1 DEF CommandOK, Idle
<1>3. importer' = NextThread(i)
  BY DEF RowFails
<1> HIDE DEF i
<1>4. /\ DOMAIN importer' = DOMAIN Idle
      /\ importer'.pc = "thread" /\ importer'.skip = importer.skip /\ importer'.thread = importer.thread + 1
      /\ importer'.row = importer.row /\ importer'.base = importer.base
      /\ importer'.existing = importer.existing
      /\ importer'.imported = importer.imported /\ importer'.careful = importer.careful
  BY <1>2, <1>3, NextThreadIs
<1>5. CommandOK' /\ UnderWay'
  BY <1>1, <1>4 DEF CommandOK, UnderWay
<1>6. StillToCome'
  BY <1>1, <1>4, ThreadOver
<1> QED BY <1>1, <1>4, <1>5, <1>6, QuietStep

\* The thread at hand.
LEMMA CurrentIs ==
  ASSUME ImportInv, importer.thread <= Len(Threads)
  PROVE  /\ importer.thread \in DOMAIN Threads /\ ThreadOK(Current)
         /\ \A x \in DOMAIN Threads : Threads[x].thread = Current.thread => x = importer.thread
BY ThreadsRead DEF ImportInv, ImportTypeOK, CommandOK, Current

LEMMA EmptyThreadKeeps == ImportInv /\ EmptyThread => ImportInv'
<1> SUFFICES ASSUME ImportInv, EmptyThread PROVE ImportInv'
  OBVIOUS
<1>1. /\ ImportFrame /\ CommandOK /\ AtThread /\ Rows(Current) = <<>>
      /\ importer.thread <= Len(Threads)
  BY DEF EmptyThread, AtThread, ImportInv, ImportTypeOK
<1> DEFINE i == [importer EXCEPT !.imported = @ \cup {Current.thread}]
<1>2. /\ DOMAIN i = DOMAIN Idle /\ i.thread = importer.thread
      /\ i.skip = importer.skip /\ i.row = importer.row /\ i.base = importer.base
      /\ i.existing = importer.existing /\ i.imported = importer.imported \cup {Current.thread}
      /\ i.careful = importer.careful
  BY <1>1 DEF CommandOK, Idle
<1>3. importer' = NextThread(i)
  BY DEF EmptyThread
<1> HIDE DEF i
<1>4. /\ DOMAIN importer' = DOMAIN Idle
      /\ importer'.pc = "thread" /\ importer'.skip = importer.skip /\ importer'.thread = importer.thread + 1
      /\ importer'.row = importer.row /\ importer'.base = importer.base
      /\ importer'.existing = importer.existing
      /\ importer'.imported = importer.imported \cup {Current.thread}
      /\ importer'.careful = importer.careful
  BY <1>2, <1>3, NextThreadIs
<1>5. CommandOK' /\ UnderWay'
  BY <1>1, <1>4 DEF CommandOK, UnderWay
<1>6. StillToCome'
  BY <1>1, <1>4, ThreadOver
<1>7. \A x \in DOMAIN Threads : Threads[x].thread \in importer'.imported =>
           Threads[x].thread \in importer.imported \/ Whole(Threads[x])
  <2>1. Whole(Current)
    <3>1. Len(Rows(Current)) = 0
      BY <1>1, CurrentIs, RowsOfThread
    <3>2. StoredUpTo(Current, 0, 0)
      BY DEF StoredUpTo
    <3> QED BY <3>1, <3>2 DEF Whole
  <2> QED BY <1>1, <1>4, <2>1, CurrentIs DEF Current
<1> QED BY <1>1, <1>4, <1>5, <1>6, <1>7, QuietStep

LEMMA BeginThreadKeeps == ImportInv /\ BeginThread => ImportInv'
<1> SUFFICES ASSUME ImportInv, BeginThread PROVE ImportInv'
  OBVIOUS
<1>1. /\ ImportFrame /\ CommandOK /\ AtThread /\ Rows(Current) # <<>>
      /\ importer.thread <= Len(Threads) /\ nextId \in Nat \ {0} /\ ~ Skips
  BY DEF BeginThread, AtThread, ImportInv, ImportTypeOK, NodeId
<1>2. /\ DOMAIN importer' = DOMAIN Idle
      /\ importer'.pc = "row" /\ importer'.skip = importer.skip /\ importer'.thread = importer.thread
      /\ importer'.row = 1 /\ importer'.base = nextId - 1
      /\ importer'.existing = importer.existing
      /\ importer'.imported = importer.imported /\ importer'.careful = importer.careful
  BY <1>1 DEF BeginThread, CommandOK, Idle
<1>3. CommandOK'
  BY <1>1, <1>2 DEF CommandOK
<1>4. Current' = Current
  BY <1>1, <1>2, NothingStored DEF Current
<1>5. UnderWay'
  <2>1. Len(Rows(Current)) \in Nat /\ Len(Rows(Current)) # 0
    BY <1>1, CurrentIs, RowsOfThread
  <2>2. 1 \in 1 .. Len(Rows(Current)) /\ nextId = (nextId - 1) + 1
    BY <1>1, <2>1
  <2>3. StoredUpTo(Current, nextId - 1, 1 - 1)
    BY DEF StoredUpTo
  <2> QED BY <1>1, <1>2, <1>4, <2>2, <2>3, NothingStored DEF UnderWay
<1>6. StillToCome'
  <2> SUFFICES ASSUME importer.careful
               PROVE  /\ \A x \in DOMAIN Threads :
                             x > importer.thread /\ Threads[x].thread \notin importer.existing =>
                               OfThread(Threads[x].thread) = {}
                      /\ OfThread(Current.thread) = {}
    BY <1>1, <1>2, <1>4, NothingStored DEF StillToCome
  <2>1. Current.thread \notin importer.existing
    BY <1>1 DEF Skips, CommandOK
  <2>2. importer.thread \in DOMAIN Threads /\ Current = Threads[importer.thread]
    BY <1>1, CurrentIs DEF Current
  <2>3. \A x \in DOMAIN Threads : x \in Nat
    BY ThreadsRead DEF ImportInv
  <2>4. importer.thread \in Nat
    BY <1>1 DEF CommandOK
  <2>5. \A x \in DOMAIN Threads : x >= importer.thread /\ Threads[x].thread \notin importer.existing =>
          OfThread(Threads[x].thread) = {}
    BY <1>1 DEF ImportInv, StillToCome, AtThread
  <2>6. \A x \in DOMAIN Threads : x > importer.thread => x >= importer.thread
    BY <2>3, <2>4
  <2>7. importer.thread >= importer.thread
    BY <2>4
  <2>8. OfThread(Current.thread) = {}
    BY <2>1, <2>2, <2>5, <2>7
  <2> QED BY <2>5, <2>6, <2>8
<1> QED BY <1>1, <1>2, <1>3, <1>5, <1>6, QuietStep

\* The step to the next row, or to the next thread after the last one.
LEMMA PlaceIs ==
  ASSUME NEW i, DOMAIN i = DOMAIN Idle, NEW row
  PROVE  LET j == Place(i, row) IN
         /\ DOMAIN j = DOMAIN Idle /\ j.skip = i.skip /\ j.base = i.base
         /\ j.existing = i.existing /\ j.careful = i.careful
         /\ row < Len(Rows(Current)) =>
              j.pc = "row" /\ j.row = row + 1 /\ j.thread = i.thread /\ j.imported = i.imported
         /\ ~ (row < Len(Rows(Current))) =>
              /\ j.pc = "thread" /\ j.row = i.row /\ j.thread = i.thread + 1
              /\ j.imported = i.imported \cup {Current.thread}
<1>1. CASE row < Len(Rows(Current))
  BY <1>1 DEF Place, Idle
<1>2. CASE ~ (row < Len(Rows(Current)))
  <2> DEFINE k == [i EXCEPT !.imported = @ \cup {Current.thread}]
  <2>1. /\ DOMAIN k = DOMAIN Idle /\ k.thread = i.thread /\ k.skip = i.skip /\ k.row = i.row
        /\ k.base = i.base /\ k.existing = i.existing /\ k.careful = i.careful
        /\ k.imported = i.imported \cup {Current.thread}
    BY DEF Idle
  <2>2. Place(i, row) = NextThread(k)
    BY <1>2 DEF Place
  <2> HIDE DEF k
  <2> QED BY <1>2, <2>1, <2>2, NextThreadIs
<1> QED BY <1>1, <1>2

LEMMA PutRowKeeps == ImportInv /\ PutRow => ImportInv'
<1> SUFFICES ASSUME ImportInv, PutRow PROVE ImportInv'
  OBVIOUS
<1>t. PICK t : t = Current
  OBVIOUS
<1>b. PICK base : base = importer.base
  OBVIOUS
<1>r. PICK r : r = importer.row
  OBVIOUS
<1> DEFINE n    == Len(Rows(t))
           new  == StoredRow(t, base, r)
<1>1. /\ CommandOK /\ importer.pc = "row" /\ importer.thread <= Len(Threads)
      /\ r \in 1 .. n /\ nextId = base + r /\ StoredUpTo(t, base, r - 1)
      /\ base \in Nat /\ nextId \in Nat \ {0} /\ DOMAIN nodes \subseteq 1 .. nextId - 1
  BY <1>t, <1>b, <1>r DEF PutRow, ImportInv, UnderWay, ImportTypeOK, CommandOK, NodeId
<1>2. /\ ThreadOK(t) /\ importer.thread \in DOMAIN Threads /\ t = Threads[importer.thread]
      /\ \A x \in DOMAIN Threads : Threads[x].thread = t.thread => x = importer.thread
  BY <1>t, <1>1, CurrentIs DEF Current
<1>3. n \in Nat
  BY <1>2, RowsOfThread
<1>4. /\ source' = source /\ nextId' = nextId + 1
      /\ nodes' = [k \in DOMAIN nodes \cup {nextId} |-> IF k = nextId THEN new ELSE nodes[k]]
      /\ importer' = Place(importer, r)
  BY <1>t, <1>b, <1>r DEF PutRow, CreateNode, StoredRow
<1>5. Threads' = Threads
  BY <1>4 DEF Threads
<1>6. /\ DOMAIN importer' = DOMAIN Idle /\ importer'.skip = importer.skip /\ importer'.base = base
      /\ importer'.existing = importer.existing /\ importer'.careful = importer.careful
      /\ r < n =>
              /\ importer'.pc = "row" /\ importer'.row = r + 1 /\ importer'.thread = importer.thread
              /\ importer'.imported = importer.imported
      /\ ~ (r < n) =>
              /\ importer'.pc = "thread" /\ importer'.row = r /\ importer'.thread = importer.thread + 1
              /\ importer'.imported = importer.imported \cup {t.thread}
  <2>1. DOMAIN importer = DOMAIN Idle
    BY <1>1 DEF CommandOK
  <2> DEFINE j == Place(importer, r)
  <2>2. /\ DOMAIN j = DOMAIN Idle /\ j.skip = importer.skip /\ j.base = importer.base
        /\ j.existing = importer.existing /\ j.careful = importer.careful
        /\ r < Len(Rows(Current)) =>
             j.pc = "row" /\ j.row = r + 1 /\ j.thread = importer.thread /\ j.imported = importer.imported
        /\ ~ (r < Len(Rows(Current))) =>
             /\ j.pc = "thread" /\ j.row = importer.row /\ j.thread = importer.thread + 1
             /\ j.imported = importer.imported \cup {Current.thread}
    BY <2>1, PlaceIs
  <2>3. importer' = j
    BY <1>4
  <2> HIDE DEF j
  <2> QED BY <1>t, <1>b, <1>r, <2>2, <2>3
<1>7. new.origin = Rows(t)[r].origin /\ new.origin[1] = t.thread
  <2>1. new.origin = Rows(t)[r].origin
    BY <1>1, <1>2, RowStored
  <2>2. Rows(t)[r].origin[1] = t.thread
    BY <1>1, <1>2, RowsOfThread
  <2> QED BY <2>1, <2>2
<1>8. /\ DOMAIN nodes' = DOMAIN nodes \cup {nextId} /\ nodes'[nextId] = new
      /\ nextId \notin DOMAIN nodes
      /\ \A k \in DOMAIN nodes : nodes'[k] = nodes[k]
  BY <1>1, <1>4
<1> HIDE DEF n, new
<1>9. ImportTypeOK'
  <2>1. CommandOK'
    BY <1>b, <1>r, <1>1, <1>3, <1>6 DEF CommandOK
  <2>2. nextId' \in NodeId /\ DOMAIN nodes' \subseteq 1 .. nextId' - 1
    BY <1>1, <1>4, <1>8 DEF NodeId
  <2> QED BY <2>1, <2>2 DEF ImportTypeOK
<1>10. \A s, b, k : StoredUpTo(s, b, k) => StoredUpTo(s, b, k)'
  BY <1>8 DEF StoredUpTo, StoredRow
<1>11. StoredUpTo(t, base, r)'
  <2>1. \A k \in 1 .. r : k \in 1 .. r - 1 \/ k = r
    BY <1>1, <1>3
  <2>2. base + r \in DOMAIN nodes' /\ nodes'[base + r] = StoredRow(t, base, r)
    BY <1>1, <1>8 DEF new
  <2>3. \A k \in 1 .. r - 1 : base + k \in DOMAIN nodes' /\ nodes'[base + k] = StoredRow(t, base, k)
    BY <1>1, <1>8 DEF StoredUpTo
  <2> QED BY <2>1, <2>2, <2>3 DEF StoredUpTo, StoredRow
<1>12. UnderWay'
  <2> SUFFICES ASSUME importer'.pc = "row" PROVE UnderWay'
    BY DEF UnderWay
  <2>1. r < n
    BY <1>6
  <2>2. Current' = t
    BY <1>t, <1>5, <1>6, <2>1 DEF Current
  <2>3. r + 1 \in 1 .. n /\ nextId + 1 = base + (r + 1) /\ (r + 1) - 1 = r
    BY <1>1, <1>3, <2>1
  <2>4. importer'.base = base /\ importer'.row - 1 = r
    BY <1>6, <2>1, <2>3
  <2>5. StoredUpTo(Current, importer.base, importer.row - 1)'
    BY <1>11, <2>2, <2>4 DEF StoredUpTo
  <2>6. importer'.thread <= Len(Threads')
    BY <1>1, <1>5, <1>6, <2>1
  <2>7. importer'.row \in 1 .. Len(Rows(t)) /\ nextId' = importer'.base + importer'.row
    BY <1>1, <1>4, <1>6, <2>1, <2>3 DEF n
  <2> QED BY <2>2, <2>5, <2>6, <2>7 DEF UnderWay
<1>13. ReportedStored'
  <2> SUFFICES ASSUME NEW x \in DOMAIN Threads, NEW s, s = Threads[x], s.thread \in importer'.imported
               PROVE  \E b \in Nat : StoredUpTo(s, b, Len(Rows(s)))'
    BY <1>5 DEF ReportedStored, StoredUpTo
  <2>1. CASE s.thread \in importer.imported
    <3>1. PICK b \in Nat : StoredUpTo(s, b, Len(Rows(s)))
      BY <2>1 DEF ImportInv, ReportedStored
    <3> QED BY <1>10, <3>1
  <2>2. CASE s.thread \notin importer.imported
    <3>1. ~ (r < n) /\ s.thread = t.thread
      BY <1>6, <2>2
    <3>2. s = t
      BY <1>2, <3>1
    <3>3. r = Len(Rows(s))
      BY <1>1, <1>3, <3>1, <3>2 DEF n
    <3> QED BY <1>1, <1>11, <3>2, <3>3
  <2> QED BY <2>1, <2>2
<1>14. \A id : OfThread(id)' = IF id = t.thread THEN OfThread(id) \cup {nextId} ELSE OfThread(id)
  BY <1>7, <1>8 DEF OfThread
<1>15. RootOfEach'
  <2>1. OriginalThreads \subseteq OriginalThreads'
    BY <1>8 DEF OriginalThreads
  <2>2. t.thread \in OriginalThreads'
    <3>1. 1 \in 1 .. r /\ 1 \in 1 .. n
      BY <1>1, <1>3
    <3>2. base + 1 \in DOMAIN nodes' /\ nodes'[base + 1] = StoredRow(t, base, 1)
      BY <1>11, <3>1 DEF StoredUpTo, StoredRow
    <3>3. /\ StoredRow(t, base, 1).origin[1] = t.thread
          /\ StoredRow(t, base, 1).parent = NoNode
      <4>1. Rows(t)[1].parent \in 0 .. 1 - 1 /\ Rows(t)[1].origin[1] = t.thread
        BY <1>2, <3>1, RowsOfThread DEF n
      <4>2. Rows(t)[1].parent = 0
        BY <4>1
      <4> QED BY <1>2, <3>1, <4>1, <4>2, RowStored DEF n
    <3> QED BY <3>2, <3>3 DEF OriginalThreads
  <2> QED BY <1>7, <1>8, <2>1, <2>2 DEF ImportInv, RootOfEach
<1>16. StillToCome'
  <2> SUFFICES ASSUME importer.careful
               PROVE  StillToCome'
    BY <1>6 DEF StillToCome
  <2>1. \A x \in DOMAIN Threads : \A id :
          x > importer.thread /\ id = Threads[x].thread /\ id \notin importer.existing => OfThread(id)' = {}
    <3>1. \A x \in DOMAIN Threads : x > importer.thread => Threads[x].thread # t.thread
      BY <1>1, <1>2 DEF CommandOK
    <3>2. \A x \in DOMAIN Threads : x > importer.thread /\ Threads[x].thread \notin importer.existing =>
            OfThread(Threads[x].thread) = {}
      BY <1>1 DEF ImportInv, StillToCome
    <3> QED BY <1>14, <3>1, <3>2
  <2>2. \A k \in OfThread(t.thread)' : k > base
    <3>1. \A k \in OfThread(t.thread) : k > base
      BY <1>t, <1>b, <1>1 DEF ImportInv, StillToCome
    <3>2. nextId > base
      BY <1>1, <1>3
    <3> QED BY <1>14, <3>1, <3>2
  <2>3. CASE r < n
    <3>1. Current' = t
      BY <1>t, <1>5, <1>6, <2>3 DEF Current
    <3> QED BY <1>5, <1>6, <2>1, <2>2, <2>3, <3>1 DEF StillToCome, OfThread
  <2>4. CASE ~ (r < n)
    <3>1. \A x \in DOMAIN Threads : x >= importer.thread + 1 => x > importer.thread
      <4>1. DOMAIN Threads \subseteq Nat
        BY ThreadsRead DEF ImportInv
      <4>2. importer.thread \in Nat
        BY <1>1 DEF CommandOK
      <4> QED BY <4>1, <4>2
    <3> QED BY <1>5, <1>6, <2>1, <2>4, <3>1 DEF StillToCome, OfThread
  <2> QED BY <2>3, <2>4
<1>17. EachMessageOnce'
  <2> SUFFICES ASSUME importer.careful, NEW k \in DOMAIN nodes, nodes[k].origin = new.origin
               PROVE  FALSE
    BY <1>6, <1>8 DEF EachMessageOnce, ImportInv
  <2>1. k \in OfThread(t.thread)
    BY <1>7 DEF OfThread
  <2>2. k > base
    BY <1>t, <1>b, <1>1, <2>1 DEF ImportInv, StillToCome
  <2>3. k - base \in 1 .. r - 1 /\ k = base + (k - base)
    BY <1>1, <1>3, <2>2
  <2>4. nodes[k] = StoredRow(t, base, k - base)
    BY <1>1, <2>3 DEF StoredUpTo
  <2>5. k - base \in 1 .. n /\ k - base # r
    BY <1>1, <1>3, <2>3
  <2>6. nodes[k].origin = Rows(t)[k - base].origin
    BY <1>2, <2>4, <2>5, RowStored DEF n
  <2> QED BY <1>1, <1>2, <1>7, <2>5, <2>6, RowsOfThread DEF n
<1> QED BY <1>4, <1>9, <1>12, <1>13, <1>15, <1>16, <1>17 DEF ImportInv

\* ImportInv is inductive.
LEMMA ImportInvKept == ImportInv /\ [ImportNext]_importVars => ImportInv'
<1> SUFFICES ASSUME ImportInv, [ImportNext]_importVars PROVE ImportInv'
  OBVIOUS
<1>1. CASE UNCHANGED importVars
  <2>1. ImportFrame /\ importer' = importer
    BY <1>1 DEF importVars, ImportFrame
  <2>2. CommandOK' /\ UnderWay' /\ StillToCome'
    BY <2>1, NothingStored
       DEF ImportInv, ImportTypeOK, CommandOK, UnderWay, StillToCome, StoredUpTo, OfThread, Current
  <2> QED BY <2>1, <2>2, QuietStep
<1>2. CASE StartImport
  BY <1>2, StartImportKeeps
<1>3. CASE DryRun
  BY <1>3, DryRunKeeps
<1>4. CASE SkipThread
  BY <1>4, SkipThreadKeeps
<1>5. CASE EmptyThread
  BY <1>5, EmptyThreadKeeps
<1>6. CASE BeginThread
  BY <1>6, BeginThreadKeeps
<1>7. CASE PutRow
  BY <1>7, PutRowKeeps
<1>8. CASE RowFails
  BY <1>8, RowFailsKeeps
<1>9. CASE FinishImport
  BY <1>9, FinishImportKeeps
<1>10. CASE ImportDies
  BY <1>10, ImportDiesKeeps
<1> QED BY <1>1, <1>2, <1>3, <1>4, <1>5, <1>6, <1>7, <1>8, <1>9, <1>10 DEF ImportNext

\* A thread that is stored as a whole hangs together as its messages say.
LEMMA StoredWhole == ImportInv => ReportedWhole
<1> SUFFICES ASSUME ImportInv, NEW x \in DOMAIN Threads, NEW t, t = Threads[x],
                    t.thread \in importer.imported,
                    NEW i \in DOMAIN t.messages, Speaks(t.messages[i])
             PROVE  /\ \E n \in NodesOf(<<t.thread, i, 0>>) : ParentOrigin(n) = Before(t, i)
                    /\ t.messages[i].role = "assistant" => \A j \in DOMAIN t.messages[i].calls :
                         \E n \in NodesOf(<<t.thread, i, j>>) : ParentOrigin(n) = <<t.thread, i, 0>>
  BY DEF ReportedWhole
<1> DEFINE rows == Rows(t)
<1>1. ThreadOK(t) /\ i \in 1 .. Len(t.messages)
  <2>1. ThreadOK(t)
    BY ThreadsRead DEF ImportInv
  <2> QED BY <2>1, ListFacts DEF ThreadOK
<1>2. PICK base \in Nat : StoredUpTo(t, base, Len(Rows(t)))
  BY DEF ImportInv, ReportedStored
<1>3. RowsOK(t, Len(t.messages), rows)
  BY <1>1, RowsRight
<1>4. Len(rows) \in Nat
  BY <1>1, RowsOfThread
<1>5. ASSUME NEW r \in 1 .. Len(rows)
      PROVE  /\ base + r \in NodesOf(rows[r].origin)
             /\ rows[r].parent = 0 => ParentOrigin(base + r) = <<>>
             /\ rows[r].parent # 0 => ParentOrigin(base + r) = rows[rows[r].parent].origin
  <2>1. base + r \in DOMAIN nodes /\ nodes[base + r] = StoredRow(t, base, r)
    BY <1>2 DEF StoredUpTo
  <2>2. /\ nodes[base + r].origin = rows[r].origin
        /\ nodes[base + r].parent = IF rows[r].parent = 0 THEN NoNode ELSE base + rows[r].parent
    BY <1>1, <2>1, RowStored
  <2>3. rows[r].parent \in 0 .. r - 1
    BY <1>1, RowsOfThread
  <2>4. CASE rows[r].parent = 0
    BY <2>1, <2>2, <2>4 DEF NodesOf, ParentOrigin
  <2>5. CASE rows[r].parent # 0
    <3> DEFINE p == rows[r].parent
    <3>1. p \in 1 .. Len(rows) /\ base + p # 0
      BY <1>4, <2>3, <2>5
    <3>2. nodes[base + p] = StoredRow(t, base, p)
      BY <1>2, <3>1 DEF StoredUpTo
    <3>3. nodes[base + p].origin = rows[p].origin
      BY <1>1, <3>1, <3>2, RowStored
    <3>4. nodes[base + r].parent = base + p /\ base + p # NoNode
      BY <2>2, <2>5, <3>1 DEF NoNode
    <3> HIDE DEF p, rows
    <3> QED BY <2>1, <2>2, <2>5, <3>3, <3>4 DEF NodesOf, ParentOrigin, p
  <2> QED BY <2>4, <2>5
<1> HIDE DEF rows
<1>6. \E n \in NodesOf(<<t.thread, i, 0>>) : ParentOrigin(n) = Before(t, i)
  <2>1. PICK r \in 1 .. Len(rows) : rows[r].origin = <<t.thread, i, 0>>
    BY <1>1, <1>3 DEF RowsOK, Listed
  <2>2. RowOK(t, Len(t.messages), rows, r)
    BY <1>3 DEF RowsOK
  <2>3. /\ rows[r].parent = 0 => Before(t, i) = <<>>
        /\ rows[r].parent # 0 => Before(t, i) = rows[rows[r].parent].origin
    BY <2>1, <2>2 DEF RowOK
  <2> QED BY <1>5, <2>1, <2>3
<1>7. ASSUME t.messages[i].role = "assistant", NEW j \in DOMAIN t.messages[i].calls
      PROVE  \E n \in NodesOf(<<t.thread, i, j>>) : ParentOrigin(n) = <<t.thread, i, 0>>
  <2>1. PICK r \in 1 .. Len(rows) : rows[r].origin = <<t.thread, i, j>>
    BY <1>1, <1>3, <1>7 DEF RowsOK, Listed
  <2>2. RowOK(t, Len(t.messages), rows, r)
    BY <1>3 DEF RowsOK
  <2>3. j # 0
    BY <1>1, <1>7, ListFacts DEF ThreadOK
  <2>4. rows[r].parent # 0 /\ rows[rows[r].parent].origin = <<t.thread, i, 0>>
    BY <2>1, <2>2, <2>3 DEF RowOK
  <2> QED BY <1>5, <2>1, <2>4
<1> QED BY <1>6, <1>7

\* However often the command is run with --skip-existing, dies or fails on the
\* way, no message and no tool call of any export gets two nodes
\* (internal/cli/import.go, importer.go).
THEOREM ImportsOnce == ImportSpec => []EachMessageOnce
<1>1. ImportInv => EachMessageOnce
  BY DEF ImportInv
<1> QED BY <1>1, ImportInitOK, ImportInvKept, PTL DEF ImportSpec

\* A thread in the Result's list of imported threads has a node for every
\* message and tool call, each below the one it belongs to (importThread).
THEOREM ImportsWhole == ImportSpec => []ReportedWhole
BY ImportInitOK, ImportInvKept, StoredWhole, PTL DEF ImportSpec
=============================================================================
