---------------------------- MODULE StackProofs ----------------------------
(* Machine-checked theorems about RuntimeStack, for all knowledges, cells,   *)
(* lineages, requests and mishaps.                                           *)
EXTENDS RuntimeStack, SequenceTheorems, FiniteSums, TLAPS

Value == Knowledge \union {Base}
Row == [id : Knowledge, why : {"kept", "chat", "verify"}]

\* Lists of knowledges, and of rows, that name none twice.
IdList(ids) ==
  /\ ids \in Seq(Knowledge)
  /\ \A i, j \in 1..Len(ids) : ids[i] = ids[j] => i = j
Rows(rows) ==
  /\ rows \in Seq(Row)
  /\ \A i, j \in 1..Len(rows) : rows[i].id = rows[j].id => i = j

-----------------------------------------------------------------------------
(* Lists *)

\* The list without what is gone, element by element.
Left(ids, gone, f) ==
  f = [i \in 0..Len(ids) |->
         IF i = 0 THEN <<>> ELSE IF ids[i] \in gone THEN f[i - 1] ELSE Append(f[i - 1], ids[i])]

\* Induction up to a number, in the form of a set that holds what was reached.
LEMMA Upwards ==
  ASSUME NEW n \in Nat, NEW G, 0 \in G, \A i \in 0..(n - 1) : i \in G => i + 1 \in G
  PROVE  \A i \in 0..n : i \in G
<1> DEFINE Bad == {i \in 0..n : i \notin G}
<1> SUFFICES ASSUME Bad # {} PROVE FALSE
  OBVIOUS
<1>1. PICK i \in Bad : \A m \in Bad : i <= m
  <2> HIDE DEF Bad
  <2>1. Bad \in SUBSET Nat
    BY DEF Bad
  <2> QED
    BY <2>1, LeastNumber
<1>2. i # 0 /\ i - 1 \in 0..(n - 1) /\ ~ (i <= i - 1)
  BY <1>1
<1>3. i - 1 \in G
  BY <1>1, <1>2
<1> QED
  BY <1>1, <1>2, <1>3

LEMMA LeftExists ==
  ASSUME NEW ids \in Seq(Knowledge), NEW gone
  PROVE  \E f : Left(ids, gone, f)
<1> DEFINE Step(f, i) == IF i = 0 THEN <<>> ELSE IF ids[i] \in gone THEN f[i - 1] ELSE Append(f[i - 1], ids[i])
           G == {n \in Nat : \E f : f = [i \in 0..n |-> Step(f, i)]}
<1>1. 0 \in G
  <2> DEFINE g == [i \in 0..0 |-> <<>>]
  <2>1. g = [i \in 0..0 |-> Step(g, i)]
    OBVIOUS
  <2> QED
    BY <2>1
<1>2. ASSUME NEW n \in Nat, n \in G PROVE n + 1 \in G
  <2>1. PICK f : f = [i \in 0..n |-> Step(f, i)]
    BY <1>2
  <2> DEFINE g == [i \in 0..(n + 1) |-> IF i <= n THEN f[i]
                     ELSE IF ids[n + 1] \in gone THEN f[n] ELSE Append(f[n], ids[n + 1])]
  <2>2. ASSUME NEW i \in 0..(n + 1) PROVE g[i] = Step(g, i)
    <3>1. i # 0 => i - 1 \in 0..(n + 1) /\ i - 1 <= n /\ g[i - 1] = f[i - 1]
      OBVIOUS
    <3>2. CASE i <= n
      <4>1. i \in 0..n /\ g[i] = f[i]
        BY <3>2
      <4>2. f[i] = Step(f, i)
        BY <2>1, <4>1
      <4> HIDE DEF g
      <4> QED
        BY <3>1, <4>1, <4>2
    <3>3. CASE ~ (i <= n)
      <4>1. i = n + 1 /\ i # 0 /\ i - 1 = n
        BY <3>3
      <4>2. g[n + 1] = IF ids[n + 1] \in gone THEN f[n] ELSE Append(f[n], ids[n + 1])
        OBVIOUS
      <4> HIDE DEF g
      <4> QED
        BY <3>1, <4>1, <4>2
    <3> QED
      BY <3>2, <3>3
  <2>3. g = [i \in 0..(n + 1) |-> g[i]]
    OBVIOUS
  <2>4. g = [i \in 0..(n + 1) |-> Step(g, i)]
    <3> HIDE DEF g, Step
    <3> QED
      BY <2>2, <2>3
  <2>5. \E h : h = [i \in 0..(n + 1) |-> Step(h, i)]
    <3> HIDE DEF g, Step
    <3> QED
      BY <2>4
  <2> QED
    <3> HIDE DEF g, Step
    <3> QED
      BY <2>5
<1>3. Len(ids) \in Nat
  BY LenProperties
<1>4. Len(ids) \in G
  <2> HIDE DEF G
  <2>1. \A i \in 0..Len(ids) : i \in G
    BY <1>1, <1>2, <1>3, Upwards
  <2> QED
    BY <1>3, <2>1
<1>5. PICK f : f = [i \in 0..Len(ids) |-> Step(f, i)]
  BY <1>4
<1> QED
  BY <1>5 DEF Left

\* Without keeps of a list exactly what is not gone, each once.
LEMMA WithoutIsLeft ==
  ASSUME NEW ids \in Seq(Knowledge), NEW gone
  PROVE  \E f : Left(ids, gone, f) /\ Without(ids, gone) = f[Len(ids)]
<1> DEFINE f == CHOOSE g : Left(ids, gone, g)
<1>1. Left(ids, gone, f)
  BY LeftExists
<1>2. Without(ids, gone) = f[Len(ids)]
  BY DEF Without, Left
<1> QED
  BY <1>1, <1>2

LEMMA WithoutList ==
  ASSUME NEW ids, IdList(ids), NEW gone
  PROVE  /\ IdList(Without(ids, gone))
         /\ \A a \in 1..Len(Without(ids, gone)) :
              \E b \in 1..Len(ids) : Without(ids, gone)[a] = ids[b] /\ ids[b] \notin gone
         /\ \A b \in 1..Len(ids) : ids[b] \notin gone =>
              \E a \in 1..Len(Without(ids, gone)) : Without(ids, gone)[a] = ids[b]
<1>1. /\ ids \in Seq(Knowledge) /\ Len(ids) \in Nat
      /\ \A i \in 1..Len(ids) : ids[i] \in Knowledge
      /\ \A i, j \in 1..Len(ids) : ids[i] = ids[j] => i = j
  BY LenProperties, ElementOfSeq DEF IdList
<1>2. PICK f : Left(ids, gone, f) /\ Without(ids, gone) = f[Len(ids)]
  BY <1>1, WithoutIsLeft
<1> DEFINE From(n) == \A a \in 1..Len(f[n]) : \E b \in 1..n : f[n][a] = ids[b] /\ ids[b] \notin gone
           All(n)  == \A b \in 1..n : ids[b] \notin gone => \E a \in 1..Len(f[n]) : f[n][a] = ids[b]
           G == {n \in 0..Len(ids) : IdList(f[n]) /\ From(n) /\ All(n)}
<1>3. 0 \in G
  <2>1. f[0] = <<>>
    BY <1>1, <1>2 DEF Left
  <2>2. IdList(<<>>) /\ Len(<<>>) = 0
    BY EmptySeq DEF IdList
  <2> QED
    BY <1>1, <2>1, <2>2
<1>4. ASSUME NEW n \in 0..(Len(ids) - 1), n \in G PROVE n + 1 \in G
  <2>1. n + 1 \in 1..Len(ids) /\ n + 1 \in 0..Len(ids) /\ (n + 1) - 1 = n /\ n + 1 # 0 /\ n \in Nat
    BY <1>1
  <2>2. f[n + 1] = IF ids[n + 1] \in gone THEN f[n] ELSE Append(f[n], ids[n + 1])
    BY <1>2, <2>1 DEF Left
  <2>3. IdList(f[n]) /\ From(n) /\ All(n)
    BY <1>4
  <2>4. CASE ids[n + 1] \in gone
    <3>1. f[n + 1] = f[n]
      BY <2>2, <2>4
    <3>2. ASSUME NEW a \in 1..Len(f[n + 1])
          PROVE  \E b \in 1..(n + 1) : f[n + 1][a] = ids[b] /\ ids[b] \notin gone
      <4>1. PICK b \in 1..n : f[n][a] = ids[b] /\ ids[b] \notin gone
        BY <2>3, <3>1
      <4>2. b \in 1..(n + 1)
        BY <2>1
      <4> QED
        BY <3>1, <4>1, <4>2
    <3>3. ASSUME NEW b \in 1..(n + 1), ids[b] \notin gone
          PROVE  \E a \in 1..Len(f[n + 1]) : f[n + 1][a] = ids[b]
      <4>1. b \in 1..n
        BY <2>1, <2>4, <3>3
      <4> QED
        BY <2>3, <3>1, <3>3, <4>1
    <3> QED
      BY <2>1, <2>3, <3>1, <3>2, <3>3
  <2>5. CASE ids[n + 1] \notin gone
    <3> DEFINE old == f[n]  new == Append(old, ids[n + 1])
    <3>1. f[n + 1] = new
      BY <2>2, <2>5
    <3>2. old \in Seq(Knowledge) /\ ids[n + 1] \in Knowledge /\ Len(old) \in Nat
      BY <1>1, <2>1, <2>3, LenProperties DEF IdList
    <3>3. /\ new \in Seq(Knowledge) /\ Len(new) = Len(old) + 1
          /\ \A i \in 1..Len(old) : new[i] = old[i]
          /\ new[Len(old) + 1] = ids[n + 1]
      BY <3>2, AppendProperties
    <3>4. /\ \A i, j \in 1..Len(old) : old[i] = old[j] => i = j
          /\ \A a \in 1..Len(old) : \E b \in 1..n : old[a] = ids[b] /\ ids[b] \notin gone
          /\ \A b \in 1..n : ids[b] \notin gone => \E a \in 1..Len(old) : old[a] = ids[b]
      BY <2>3 DEF IdList
    <3> HIDE DEF old, new
    <3>5. \A a \in 1..Len(old) : old[a] # ids[n + 1]
      BY <1>1, <2>1, <3>4
    <3>6. ASSUME NEW i \in 1..Len(new), NEW j \in 1..Len(new), new[i] = new[j] PROVE i = j
      <4>1. (i \in 1..Len(old) \/ i = Len(old) + 1) /\ (j \in 1..Len(old) \/ j = Len(old) + 1)
        BY <3>2, <3>3
      <4> QED
        BY <3>3, <3>4, <3>5, <3>6, <4>1
    <3>7. ASSUME NEW a \in 1..Len(new)
          PROVE  \E b \in 1..(n + 1) : new[a] = ids[b] /\ ids[b] \notin gone
      <4>1. a \in 1..Len(old) \/ a = Len(old) + 1
        BY <3>2, <3>3
      <4>2. CASE a \in 1..Len(old)
        BY <2>1, <3>3, <3>4, <4>2
      <4>3. CASE a = Len(old) + 1
        BY <2>1, <2>5, <3>3, <4>3
      <4> QED
        BY <4>1, <4>2, <4>3
    <3>8. ASSUME NEW b \in 1..(n + 1), ids[b] \notin gone
          PROVE  \E a \in 1..Len(new) : new[a] = ids[b]
      <4>1. CASE b \in 1..n
        <5>1. PICK a \in 1..Len(old) : old[a] = ids[b]
          BY <3>4, <3>8, <4>1
        <5> QED
          BY <3>2, <3>3, <5>1
      <4>2. CASE b = n + 1
        <5>1. Len(old) + 1 \in 1..Len(new)
          BY <3>2, <3>3
        <5> QED
          BY <3>3, <4>2, <5>1
      <4> QED
        BY <2>1, <4>1, <4>2
    <3>9. IdList(new)
      BY <3>3, <3>6 DEF IdList
    <3> QED
      BY <2>1, <3>1, <3>7, <3>8, <3>9
  <2> QED
    BY <2>4, <2>5
<1>5. Len(ids) \in G
  <2> HIDE DEF G
  <2>1. \A i \in 0..Len(ids) : i \in G
    BY <1>1, <1>3, <1>4, Upwards
  <2> QED
    BY <1>1, <2>1
<1> QED
  BY <1>2, <1>5

LEMMA AsList ==
  ASSUME NEW S, NEW n \in Nat, NEW f \in [1..n -> S]
  PROVE  f \in Seq(S) /\ Len(f) = n
<1>1. f \in Seq(S)
  BY SeqDef
<1>2. DOMAIN f = 1..n /\ DOMAIN f = 1..Len(f) /\ Len(f) \in Nat
  BY <1>1, LenProperties
<1> QED
  BY <1>1, <1>2

LEMMA ListFacts ==
  ASSUME NEW ids, IdList(ids)
  PROVE  /\ Len(ids) \in Nat /\ DOMAIN ids = 1..Len(ids)
         /\ \A i \in 1..Len(ids) : ids[i] \in Knowledge
         /\ \A i, j \in 1..Len(ids) : ids[i] = ids[j] => i = j
BY LenProperties, ElementOfSeq DEF IdList

LEMMA RowsFacts ==
  ASSUME NEW rows, Rows(rows)
  PROVE  /\ Len(rows) \in Nat /\ DOMAIN rows = 1..Len(rows)
         /\ \A i \in 1..Len(rows) : rows[i] \in Row /\ rows[i].id \in Knowledge
         /\ \A i, j \in 1..Len(rows) : rows[i].id = rows[j].id => i = j
         /\ IdList(Ids(rows)) /\ Len(Ids(rows)) = Len(rows)
         /\ \A i \in 1..Len(rows) : Ids(rows)[i] = rows[i].id
<1>1. /\ Len(rows) \in Nat /\ DOMAIN rows = 1..Len(rows)
      /\ \A i \in 1..Len(rows) : rows[i] \in Row
      /\ \A i, j \in 1..Len(rows) : rows[i].id = rows[j].id => i = j
  BY LenProperties, ElementOfSeq DEF Rows
<1>2. \A i \in 1..Len(rows) : rows[i].id \in Knowledge
  BY <1>1 DEF Row
<1>3. Ids(rows) \in [1..Len(rows) -> Knowledge] /\ \A i \in 1..Len(rows) : Ids(rows)[i] = rows[i].id
  BY <1>1, <1>2 DEF Ids
<1>4. Ids(rows) \in Seq(Knowledge) /\ Len(Ids(rows)) = Len(rows)
  BY <1>1, <1>3, AsList
<1>5. IdList(Ids(rows))
  BY <1>1, <1>3, <1>4 DEF IdList
<1> QED
  BY <1>1, <1>2, <1>3, <1>4, <1>5

\* Rows made for a list have its ids.
LEMMA RowsFor ==
  ASSUME NEW ids, IdList(ids), NEW rows \in [1..Len(ids) -> Row],
         \A i \in 1..Len(ids) : rows[i].id = ids[i]
  PROVE  Rows(rows) /\ Len(rows) = Len(ids) /\ Ids(rows) = ids
<1>1. /\ Len(ids) \in Nat /\ DOMAIN ids = 1..Len(ids)
      /\ \A i, j \in 1..Len(ids) : ids[i] = ids[j] => i = j
  BY ListFacts
<1>2. rows \in Seq(Row) /\ Len(rows) = Len(ids)
  BY <1>1, AsList
<1>3. Rows(rows)
  BY <1>1, <1>2 DEF Rows
<1>4. Ids(rows) = ids
  <2>1. DOMAIN rows = 1..Len(ids) /\ ids = [i \in 1..Len(ids) |-> ids[i]]
    BY <1>1 DEF IdList
  <2> QED
    BY <2>1 DEF Ids
<1> QED
  BY <1>2, <1>3, <1>4

LEMMA ExactRows ==
  ASSUME Rows(applied), NEW ids, IdList(ids)
  PROVE  Rows(Exact(ids)) /\ Len(Exact(ids)) = Len(ids) /\ Ids(Exact(ids)) = ids
<1>1. DOMAIN ids = 1..Len(ids) /\ \A i \in 1..Len(ids) : ids[i] \in Knowledge
  BY ListFacts
<1>2. ASSUME NEW i \in 1..Len(ids) PROVE Exact(ids)[i] \in Row /\ Exact(ids)[i].id = ids[i]
  <2>1. CASE Loaded(ids[i])
    <3> DEFINE j == CHOOSE x \in DOMAIN applied : applied[x].id = ids[i]
    <3>1. j \in DOMAIN applied /\ applied[j].id = ids[i]
      BY <2>1 DEF Loaded
    <3>2. Exact(ids)[i] = applied[j]
      BY <1>1, <2>1 DEF Exact
    <3>3. applied[j] \in Row
      BY <3>1, RowsFacts
    <3> QED
      BY <3>1, <3>2, <3>3
  <2>2. CASE ~ Loaded(ids[i])
    <3>1. Exact(ids)[i] = [id |-> ids[i], why |-> "kept"]
      BY <1>1, <2>2 DEF Exact
    <3> QED
      BY <1>1, <3>1 DEF Row
  <2> QED
    BY <2>1, <2>2
<1>3. Exact(ids) \in [1..Len(ids) -> Row]
  <2>1. Exact(ids) = [i \in 1..Len(ids) |-> Exact(ids)[i]]
    BY <1>1 DEF Exact
  <2> QED
    BY <1>2, <2>1
<1> QED
  BY <1>2, <1>3, RowsFor

LEMMA LayersRows ==
  ASSUME NEW ids, IdList(ids), NEW why \in {"kept", "chat", "verify"}
  PROVE  Rows(Layers(ids, why)) /\ Len(Layers(ids, why)) = Len(ids) /\ Ids(Layers(ids, why)) = ids
<1>1. DOMAIN ids = 1..Len(ids) /\ \A i \in 1..Len(ids) : ids[i] \in Knowledge
  BY ListFacts
<1>2. /\ Layers(ids, why) \in [1..Len(ids) -> Row]
      /\ \A i \in 1..Len(ids) : Layers(ids, why)[i].id = ids[i]
  BY <1>1 DEF Layers, Row
<1> QED
  BY <1>2, RowsFor

\* Two lists of rows, one on top of the other.
LEMMA OnTop ==
  ASSUME NEW low, Rows(low), NEW high, Rows(high),
         \A i \in 1..Len(low), j \in 1..Len(high) : low[i].id # high[j].id
  PROVE  /\ Rows(low \o high) /\ Len(low \o high) = Len(low) + Len(high)
         /\ \A i \in 1..Len(low) : (low \o high)[i] = low[i]
<1> DEFINE rows == low \o high
<1>1. /\ rows \in Seq(Row) /\ Len(rows) = Len(low) + Len(high)
      /\ \A i \in 1..Len(low) + Len(high) :
           rows[i] = IF i <= Len(low) THEN low[i] ELSE high[i - Len(low)]
  BY ConcatProperties DEF Rows
<1>2. /\ Len(low) \in Nat /\ Len(high) \in Nat
      /\ \A i, j \in 1..Len(low) : low[i].id = low[j].id => i = j
      /\ \A i, j \in 1..Len(high) : high[i].id = high[j].id => i = j
  BY RowsFacts
<1> HIDE DEF rows
<1>3. ASSUME NEW i \in 1..Len(rows), NEW j \in 1..Len(rows), rows[i].id = rows[j].id PROVE i = j
  <2>1. /\ i <= Len(low) => i \in 1..Len(low) /\ rows[i] = low[i]
        /\ ~ (i <= Len(low)) => i - Len(low) \in 1..Len(high) /\ rows[i] = high[i - Len(low)]
    BY <1>1, <1>2
  <2>2. /\ j <= Len(low) => j \in 1..Len(low) /\ rows[j] = low[j]
        /\ ~ (j <= Len(low)) => j - Len(low) \in 1..Len(high) /\ rows[j] = high[j - Len(low)]
    BY <1>1, <1>2
  <2>3. CASE i <= Len(low) /\ j <= Len(low)
    BY <1>2, <1>3, <2>1, <2>2, <2>3
  <2>4. CASE ~ (i <= Len(low)) /\ ~ (j <= Len(low))
    <3>1. i - Len(low) = j - Len(low)
      BY <1>2, <1>3, <2>1, <2>2, <2>4
    <3> QED
      BY <1>2, <3>1
  <2>5. CASE (i <= Len(low)) # (j <= Len(low))
    BY <1>3, <2>1, <2>2, <2>5
  <2> QED
    BY <2>3, <2>4, <2>5
<1>4. Rows(rows)
  BY <1>1, <1>3 DEF Rows
<1>5. \A i \in 1..Len(low) : rows[i] = low[i]
  BY <1>1, <1>2
<1> QED
  BY <1>1, <1>4, <1>5 DEF rows

\* What lies under a knowledge, and the knowledge on top of it.
LEMMA LineageLists ==
  ASSUME NEW k \in Knowledge
  PROVE  /\ IdList(Under[k]) /\ IdList(Resolve(k))
         /\ \A i \in 1..Len(Under[k]) : Under[k][i] # k
<1>1. Under[k] \in Seq(Knowledge)
  BY StackAssumption DEF StackAssumption
<1>2. Len(Under[k]) \in Nat /\ DOMAIN Under[k] = 1..Len(Under[k])
  BY <1>1, LenProperties
<1>3. /\ \A i, j \in 1..Len(Under[k]) : Under[k][i] = Under[k][j] => i = j
      /\ \A i \in 1..Len(Under[k]) : Under[k][i] # k
  BY <1>2, LineageAssumption DEF LineageAssumption
<1> DEFINE all == Append(Under[k], k)
<1>4. /\ all \in Seq(Knowledge) /\ Len(all) = Len(Under[k]) + 1
      /\ \A i \in 1..Len(Under[k]) : all[i] = Under[k][i]
      /\ all[Len(Under[k]) + 1] = k
  BY <1>1, AppendProperties
<1> HIDE DEF all
<1>5. ASSUME NEW i \in 1..Len(all), NEW j \in 1..Len(all), all[i] = all[j] PROVE i = j
  <2>1. (i \in 1..Len(Under[k]) \/ i = Len(Under[k]) + 1) /\ (j \in 1..Len(Under[k]) \/ j = Len(Under[k]) + 1)
    BY <1>2, <1>4
  <2> QED
    BY <1>3, <1>4, <1>5, <2>1
<1>6. IdList(all)
  BY <1>4, <1>5 DEF IdList
<1> QED
  BY <1>1, <1>3, <1>6 DEF IdList, Resolve, all

-----------------------------------------------------------------------------
(* Tables *)

\* A layer on top changes what its own cells show, and nothing else.
LEMMA ShowsUp ==
  ASSUME NEW ids, NEW n \in Nat, NEW c
  PROVE  /\ c \in Writes[ids[n + 1]] => Shows(ids, n + 1, c, ids[n + 1])
         /\ c \notin Writes[ids[n + 1]] =>
              \A v : Shows(ids, n, c, v) <=> Shows(ids, n + 1, c, v)
<1>1. n + 1 \in 1..(n + 1) /\ (n + 1) + 1 > n + 1
  OBVIOUS
<1>2. c \in Writes[ids[n + 1]] => Shows(ids, n + 1, c, ids[n + 1])
  BY <1>1 DEF Shows
<1>3. ASSUME c \notin Writes[ids[n + 1]], NEW v, Shows(ids, n, c, v) PROVE Shows(ids, n + 1, c, v)
  <2>1. CASE v = Base /\ \A i \in 1..n : c \notin Writes[ids[i]]
    <3>1. \A i \in 1..(n + 1) : c \notin Writes[ids[i]]
      BY <1>3, <2>1
    <3> QED
      BY <2>1, <3>1 DEF Shows
  <2>2. CASE ~ (v = Base /\ \A i \in 1..n : c \notin Writes[ids[i]])
    <3>1. PICK i \in 1..n : /\ v = ids[i] /\ c \in Writes[ids[i]]
                            /\ \A j \in (i + 1)..n : c \notin Writes[ids[j]]
      BY <1>3, <2>2 DEF Shows
    <3>2. i \in 1..(n + 1) /\ \A j \in (i + 1)..(n + 1) : c \notin Writes[ids[j]]
      BY <1>3, <3>1
    <3> QED
      BY <3>1, <3>2 DEF Shows
  <2> QED
    BY <2>1, <2>2
<1>4. ASSUME c \notin Writes[ids[n + 1]], NEW v, Shows(ids, n + 1, c, v) PROVE Shows(ids, n, c, v)
  <2>1. CASE v = Base /\ \A i \in 1..(n + 1) : c \notin Writes[ids[i]]
    <3>1. \A i \in 1..n : c \notin Writes[ids[i]]
      BY <2>1
    <3> QED
      BY <2>1, <3>1 DEF Shows
  <2>2. CASE ~ (v = Base /\ \A i \in 1..(n + 1) : c \notin Writes[ids[i]])
    <3>1. PICK i \in 1..(n + 1) : /\ v = ids[i] /\ c \in Writes[ids[i]]
                                  /\ \A j \in (i + 1)..(n + 1) : c \notin Writes[ids[j]]
      BY <1>4, <2>2 DEF Shows
    <3>2. i \in 1..n /\ \A j \in (i + 1)..n : c \notin Writes[ids[j]]
      BY <1>4, <3>1
    <3> QED
      BY <3>1, <3>2 DEF Shows
  <2> QED
    BY <2>1, <2>2
<1> QED
  BY <1>2, <1>3, <1>4

\* What the lowest n layers show depends on them alone.
LEMMA ShowsSame ==
  ASSUME NEW ids, NEW other, NEW n \in Nat, \A i \in 1..n : other[i] = ids[i], NEW c, NEW v
  PROVE  Shows(ids, n, c, v) <=> Shows(other, n, c, v)
<1>1. \A i \in 1..n : \A j \in (i + 1)..n : j \in 1..n
  OBVIOUS
<1> QED
  BY <1>1 DEF Shows

LEMMA RightSame ==
  ASSUME NEW ids, NEW other, NEW n \in Nat, \A i \in 1..n : other[i] = ids[i],
         NEW t, NEW jr, Right(ids, n, t, jr),
         NEW u, \A c \in Cells : u[c] = t[c], NEW kr, \A i \in 1..n : kr[ids[i]] = jr[ids[i]]
  PROVE  Right(other, n, u, kr)
<1>1. \A c \in Cells : Shows(other, n, c, u[c])
  BY ShowsSame DEF Right
<1>2. ASSUME NEW i \in 1..n
      PROVE  /\ kr[other[i]] # None
             /\ \A c \in Writes[other[i]] : Shows(other, i - 1, c, kr[other[i]][c])
  <2>1. /\ jr[ids[i]] # None /\ \A c \in Writes[ids[i]] : Shows(ids, i - 1, c, jr[ids[i]][c])
    BY DEF Right
  <2>2. i - 1 \in Nat /\ \A j \in 1..(i - 1) : other[j] = ids[j]
    OBVIOUS
  <2>3. \A c \in Writes[ids[i]] : Shows(other, i - 1, c, jr[ids[i]][c])
    BY <2>1, <2>2, ShowsSame
  <2> QED
    BY <2>1, <2>3
<1> QED
  BY <1>1, <1>2 DEF Right

\* One layer more: its body is written, its journal taken; one less: it is replayed.
Put(ids, n, t, jr, u, kr) ==
  /\ \A c \in Cells : u[c] = IF c \in Writes[ids[n + 1]] THEN ids[n + 1] ELSE t[c]
  /\ \A i \in 1..n : kr[ids[i]] = jr[ids[i]]
  /\ kr[ids[n + 1]] # None /\ \A c \in Writes[ids[n + 1]] : kr[ids[n + 1]][c] = t[c]
Taken(ids, n, t, jr, u, kr) ==
  /\ \A c \in Cells : u[c] = IF c \in Writes[ids[n + 1]] THEN jr[ids[n + 1]][c] ELSE t[c]
  /\ \A i \in 1..n : kr[ids[i]] = jr[ids[i]]

LEMMA RightPut ==
  ASSUME NEW ids, IdList(ids), NEW n \in Nat, n + 1 \in 1..Len(ids),
         NEW t, NEW jr, Right(ids, n, t, jr), NEW u, NEW kr, Put(ids, n, t, jr, u, kr)
  PROVE  Right(ids, n + 1, u, kr)
<1>1. Writes[ids[n + 1]] \subseteq Cells
  BY ListFacts, StackAssumption DEF StackAssumption
<1>2. ASSUME NEW c \in Cells PROVE Shows(ids, n + 1, c, u[c])
  BY ShowsUp DEF Right, Put
<1>3. ASSUME NEW i \in 1..(n + 1)
      PROVE  kr[ids[i]] # None /\ \A c \in Writes[ids[i]] : Shows(ids, i - 1, c, kr[ids[i]][c])
  <2>1. CASE i \in 1..n
    BY <2>1 DEF Right, Put
  <2>2. CASE i = n + 1
    <3>1. i - 1 = n
      BY <2>2
    <3>2. \A c \in Writes[ids[n + 1]] : Shows(ids, n, c, kr[ids[n + 1]][c])
      BY <1>1 DEF Right, Put
    <3> QED
      BY <2>2, <3>1, <3>2 DEF Put
  <2> QED
    BY <2>1, <2>2
<1> QED
  BY <1>2, <1>3 DEF Right

LEMMA RightTake ==
  ASSUME NEW ids, NEW n \in Nat, NEW t, NEW jr, Right(ids, n + 1, t, jr),
         NEW u, NEW kr, Taken(ids, n, t, jr, u, kr)
  PROVE  Right(ids, n, u, kr)
<1>1. n + 1 \in 1..(n + 1) /\ (n + 1) - 1 = n
  OBVIOUS
<1>2. \A c \in Writes[ids[n + 1]] : Shows(ids, n, c, jr[ids[n + 1]][c])
  BY <1>1 DEF Right
<1>3. ASSUME NEW c \in Cells PROVE Shows(ids, n, c, u[c])
  <2>1. Shows(ids, n + 1, c, t[c])
    BY DEF Right
  <2> QED
    BY <1>2, <2>1, ShowsUp DEF Taken
<1>4. \A i \in 1..n : i \in 1..(n + 1)
  OBVIOUS
<1>5. ASSUME NEW i \in 1..n
      PROVE  kr[ids[i]] # None /\ \A c \in Writes[ids[i]] : Shows(ids, i - 1, c, kr[ids[i]][c])
  BY <1>4 DEF Right, Taken
<1> QED
  BY <1>3, <1>5 DEF Right

\* What a body says its cells held before it is what its own stack shows.
LEMMA BeforeShows ==
  ASSUME NEW k \in Knowledge, NEW c
  PROVE  Shows(Under[k], Len(Under[k]), c, Before(k, c)) /\ Before(k, c) \in Value
<1> DEFINE below == IF k \in Deltas THEN Under[k] ELSE <<>>
           n == Len(Under[k])
           W == {i \in 1..n : c \in Writes[Under[k][i]]}
<1>1. below = Under[k]
  BY LineageAssumption DEF LineageAssumption
<1>2. n \in Nat /\ \A i \in 1..n : Under[k][i] \in Knowledge
  BY LineageLists, ListFacts
<1>3. \E v \in Value : Shows(Under[k], n, c, v)
  <2>1. CASE W = {}
    <3>1. Shows(Under[k], n, c, Base)
      BY <2>1 DEF Shows
    <3> QED
      BY <3>1 DEF Value
  <2>2. CASE W # {}
    <3> DEFINE D == {m \in Nat : \E i \in W : m = n - i}
    <3>1. D \in SUBSET Nat /\ D # {}
      <4>1. PICK i \in W : TRUE
        BY <2>2
      <4>2. n - i \in D
        BY <1>2, <4>1
      <4> QED
        BY <4>2
    <3>2. PICK m \in D : \A x \in D : m <= x
      <4> HIDE DEF D
      <4> QED
        BY <3>1, LeastNumber
    <3>3. PICK i \in W : m = n - i
      BY <3>2
    <3>4. ASSUME NEW j \in (i + 1)..n PROVE j \notin W
      <4>1. n - j \in Nat /\ ~ (n - i <= n - j)
        BY <1>2, <3>3
      <4> QED
        BY <3>2, <3>3, <4>1
    <3>5. Shows(Under[k], n, c, Under[k][i])
      <4>1. \A j \in (i + 1)..n : j \in 1..n
        BY <1>2, <3>3
      <4> QED
        BY <3>3, <3>4, <4>1 DEF Shows
    <3> QED
      BY <1>2, <3>3, <3>5 DEF Value
  <2> QED
    BY <2>1, <2>2
<1>4. Before(k, c) = CHOOSE v \in Value : Shows(Under[k], n, c, v)
  BY <1>1 DEF Before, Value
<1> QED
  BY <1>3, <1>4

-----------------------------------------------------------------------------
(* What holds all along *)

Requests == {"apply", "remove", "watchdog", "recover"}
Stages == {"free", "stack", "below", "base", "test", "restore", "again",
           "clean", "load", "measure", "unmark"}
IdLists == {ids \in Seq(Knowledge) : IdList(ids)}
RowLists == {rows \in Seq(Row) : Rows(rows)}

Sections ==
  [by : Callers \union {None}, op : Requests \union {"idle", "verify", "chat", "compare"},
   k : Knowledge \union {None}, stage : Stages, target : RowLists,
   rebuild : BOOLEAN, pinned : IdLists, dirty : SUBSET Knowledge]
Asked == [op : Requests, k : Knowledge \union {None}, target : RowLists, saw : IdLists]

\* Types: the table holds who wrote it or the model's own, a journal a value for each
\* cell of its body, and no list of ids or rows names a knowledge twice.
TablesTyped ==
  /\ table \in [Cells -> Value]
  /\ DOMAIN journal = Knowledge
  /\ \A k \in Knowledge : journal[k] # None => journal[k] \in [Writes[k] -> Value]
RowsTyped ==
  /\ Rows(applied)
  /\ restore \in IdLists \union {None}
  /\ call \in [Callers -> Asked \union {Idle}]
  /\ sec \in Sections
  /\ wanted \in IdLists

\* What a section knows of its own stage.
Staged ==
  /\ \A c \in Callers : call[c].op \in {"apply", "remove"} => call[c].k \in Knowledge
  /\ sec.op \in {"apply", "remove", "verify", "chat", "compare"} => sec.k \in Knowledge
  /\ sec.op = "idle" => sec.stage = "free"
  /\ sec.stage \in {"clean", "base", "test"} => sec.op \in {"chat", "compare"}
  /\ sec.stage = "base" =>
       \A i \in 1..Len(sec.target), j \in 1..Len(Resolve(sec.k)) : sec.target[i].id # Resolve(sec.k)[j]
  /\ sec.stage = "below" => sec.op = "verify" /\ Ids(sec.target) = Under[sec.k]
  /\ sec.stage \in {"load", "measure", "unmark"} =>
       /\ sec.op = "verify" /\ applied # <<>> /\ Last(applied).id = sec.k
  /\ sec.stage = "unmark" => journal[sec.k] = None
  /\ sec.stage = "restore" => Ids(sec.target) = sec.pinned

StackTyped == TablesTyped /\ RowsTyped /\ Staged

\* Until somebody else touched the table, a journal belongs to a row, and a body that is
\* about to be measured has none yet.
Journaled ==
  hurt \subseteq {"restart"} =>
    /\ \A k \in Knowledge : journal[k] # None => Loaded(k)
    /\ sec.stage = "load" => journal[sec.k] = None

\* The top row marks a candidate whose body is not on the table: everything below it is
\* right, and what the body says its cells held before is what they hold.
Half ==
  /\ applied # <<>> /\ Last(applied).id = sec.k
  /\ journal[sec.k] = None
  /\ Right(Ids(applied), Len(applied) - 1, table, journal)
  /\ \A c \in Writes[sec.k] : Shows(Ids(applied), Len(applied) - 1, c, Before(sec.k, c))
\* Such a row is still there after a failed load, and goes first when the stack found at
\* the start is put back.
Ghost == sec.op = "verify" /\ sec.stage = "restore" /\ ~Contains(sec.pinned, sec.k) /\ Half

\* The table, seen from inside a section.
Served ==
  hurt = {} =>
    /\ sec.stage = "load" => Half
    /\ sec.stage = "unmark" => Right(Ids(applied), Len(applied) - 1, table, journal)
    /\ sec.stage \notin {"load", "unmark"} => Consistent \/ Ghost
    /\ sec.stage = "clean" => \A d \in sec.dirty : Writes[d] = {}

LEMMA ListTypes ==
  /\ \A ids : ids \in IdLists <=> IdList(ids)
  /\ \A rows : rows \in RowLists <=> Rows(rows)
BY DEF IdLists, RowLists, IdList, Rows

LEMMA NoIds == IdList(<<>>) /\ Rows(<<>>) /\ Ids(<<>>) = <<>> /\ Len(<<>>) = 0
<1>1. <<>> \in Seq(Knowledge) /\ <<>> \in Seq(Row) /\ Len(<<>>) = 0
  BY EmptySeq
<1> QED
  BY <1>1 DEF IdList, Rows, Ids

\* The rows without the top one, and with one more.
LEMMA FrontRows ==
  ASSUME NEW rows, Rows(rows), rows # <<>>
  PROVE  /\ Len(rows) \in Nat /\ Len(rows) - 1 \in Nat /\ Len(rows) \in 1..Len(rows)
         /\ Last(rows) = rows[Len(rows)] /\ Last(rows).id \in Knowledge
         /\ Rows(Front(rows)) /\ Len(Front(rows)) = Len(rows) - 1
         /\ \A i \in 1..(Len(rows) - 1) : Front(rows)[i] = rows[i] /\ rows[i].id # Last(rows).id
<1>1. /\ rows \in Seq(Row) /\ Len(rows) \in Nat
      /\ \A i \in 1..Len(rows) : rows[i] \in Row /\ rows[i].id \in Knowledge
      /\ \A i, j \in 1..Len(rows) : rows[i].id = rows[j].id => i = j
  BY RowsFacts DEF Rows
<1>2. Len(rows) # 0
  BY <1>1, EmptySeq, SeqEqual
<1>3. Len(rows) - 1 \in Nat /\ Len(rows) \in 1..Len(rows)
  BY <1>1, <1>2
<1>4. Last(rows) = rows[Len(rows)] /\ Last(rows).id \in Knowledge
  BY <1>1, <1>3 DEF Last
<1> DEFINE m == Len(rows) - 1
<1>5. \A i \in 1..m : i \in 1..Len(rows) /\ rows[i] \in Row
  BY <1>1, <1>3
<1>6. /\ Front(rows) \in Seq(Row) /\ Len(Front(rows)) = m
      /\ \A i \in 1..m : Front(rows)[i] = rows[i]
  <2>1. m \in Nat /\ m \in Int /\ m - 1 + 1 = m /\ (~ (1 <= m) => m = 0)
    BY <1>3
  <2>2. /\ SubSeq(rows, 1, m) \in Seq(Row) /\ Len(SubSeq(rows, 1, m)) = m
        /\ \A i \in 1..m : SubSeq(rows, 1, m)[i] = rows[1 + i - 1]
    BY <1>5, <2>1, SubSeqProperties
  <2>3. \A i \in 1..m : 1 + i - 1 = i
    OBVIOUS
  <2> QED
    BY <2>2, <2>3 DEF Front
<1>7. \A i \in 1..m : rows[i].id # Last(rows).id
  BY <1>1, <1>3, <1>4, <1>5
<1>8. Rows(Front(rows))
  BY <1>1, <1>5, <1>6 DEF Rows
<1> QED
  BY <1>1, <1>3, <1>4, <1>6, <1>7, <1>8

LEMMA AppendRows ==
  ASSUME NEW rows, Rows(rows), NEW r \in Row, \A i \in 1..Len(rows) : rows[i].id # r.id
  PROVE  /\ Rows(Append(rows, r)) /\ Len(Append(rows, r)) = Len(rows) + 1
         /\ \A i \in 1..Len(rows) : Append(rows, r)[i] = rows[i]
         /\ Append(rows, r)[Len(rows) + 1] = r /\ Append(rows, r) # <<>> /\ Last(Append(rows, r)) = r
<1> DEFINE new == Append(rows, r)
<1>1. /\ rows \in Seq(Row) /\ Len(rows) \in Nat
      /\ \A i, j \in 1..Len(rows) : rows[i].id = rows[j].id => i = j
  BY RowsFacts DEF Rows
<1>2. /\ new \in Seq(Row) /\ Len(new) = Len(rows) + 1 /\ new # <<>>
      /\ \A i \in 1..Len(rows) : new[i] = rows[i]
      /\ new[Len(rows) + 1] = r
  BY <1>1, AppendProperties
<1> HIDE DEF new
<1>3. ASSUME NEW i \in 1..Len(new), NEW j \in 1..Len(new), new[i].id = new[j].id PROVE i = j
  <2>1. (i \in 1..Len(rows) \/ i = Len(rows) + 1) /\ (j \in 1..Len(rows) \/ j = Len(rows) + 1)
    BY <1>1, <1>2
  <2> QED
    BY <1>1, <1>2, <1>3, <2>1
<1>4. Rows(new)
  BY <1>2, <1>3 DEF Rows
<1>5. Last(new) = r
  BY <1>2 DEF Last
<1> QED
  BY <1>2, <1>4, <1>5 DEF new

\* A stack that is a prefix of its target agrees with it row by row.
LEMMA KeptRows ==
  ASSUME NEW low, NEW high, Rows(low), Rows(high), IsPrefix(Ids(low), Ids(high))
  PROVE  Len(low) <= Len(high) /\ \A i \in 1..Len(low) : low[i].id = high[i].id
<1>1. /\ Len(Ids(low)) = Len(low) /\ Len(Ids(high)) = Len(high) /\ Len(low) \in Nat /\ Len(high) \in Nat
      /\ \A i \in 1..Len(low) : Ids(low)[i] = low[i].id
      /\ \A i \in 1..Len(high) : Ids(high)[i] = high[i].id
      /\ \A i \in 1..Len(low) : Ids(low)[i] \in Knowledge
      /\ \A i \in 1..Len(high) : Ids(high)[i] \in Knowledge
  BY RowsFacts, ListFacts
<1> DEFINE n == Len(low)
<1>2. n <= Len(high) /\ SubSeq(Ids(low), 1, n) = SubSeq(Ids(high), 1, n)
  BY <1>1 DEF IsPrefix
<1>3. n \in Int /\ n - 1 + 1 = n /\ \A i \in 1..n : 1 + i - 1 = i /\ i \in 1..Len(high)
  BY <1>1, <1>2
<1>4. \A i \in 1..n : SubSeq(Ids(low), 1, n)[i] = Ids(low)[i]
  BY <1>1, <1>3, SubSeqProperties
<1>5. \A i \in 1..n : SubSeq(Ids(high), 1, n)[i] = Ids(high)[i]
  BY <1>1, <1>3, SubSeqProperties
<1> QED
  BY <1>1, <1>2, <1>3, <1>4, <1>5

\* What is left of a list without another shares nothing with that other.
LEMMA Apart ==
  ASSUME NEW ids, IdList(ids), NEW other, IdList(other)
  PROVE  \A i \in 1..Len(Without(ids, Range(other))), j \in 1..Len(other) :
           Without(ids, Range(other))[i] # other[j]
<1>1. \A j \in 1..Len(other) : other[j] \in Range(other)
  BY ListFacts DEF Range
<1> QED
  BY <1>1, WithoutList

\* Layers put on top of rows that name none of them.
LEMMA MoreRows ==
  ASSUME NEW low, Rows(low), NEW ids, IdList(ids), NEW why \in {"kept", "chat", "verify"},
         \A i \in 1..Len(low), j \in 1..Len(ids) : low[i].id # ids[j]
  PROVE  Rows(low \o Layers(ids, why))
<1>1. /\ Rows(Layers(ids, why)) /\ Len(Layers(ids, why)) = Len(ids)
      /\ Ids(Layers(ids, why)) = ids
  BY LayersRows
<1>2. \A j \in 1..Len(ids) : Layers(ids, why)[j].id = ids[j]
  BY <1>1, RowsFacts
<1>3. \A i \in 1..Len(low), j \in 1..Len(Layers(ids, why)) : low[i].id # Layers(ids, why)[j].id
  BY <1>1, <1>2
<1> QED
  BY <1>1, <1>3, OnTop

-----------------------------------------------------------------------------
(* Types *)

LEMMA FreeTyped == Free \in Sections /\ Free.stage = "free" /\ Free.op = "idle"
BY NoIds, ListTypes DEF Free, Sections, Requests, Stages

LEMMA TypedInit ==
  ASSUME StackInit
  PROVE  StackTyped
<1>1. TablesTyped
  BY DEF StackInit, TablesTyped, Value
<1>2. RowsTyped
  BY FreeTyped, NoIds, ListTypes DEF StackInit, RowsTyped
<1>3. Staged
  BY FreeTyped DEF StackInit, Staged, Idle
<1> QED
  BY <1>1, <1>2, <1>3 DEF StackTyped

\* Steps that leave the table, the journals, the rows and the section alone.
LEMMA TypedQuiet ==
  ASSUME StackTyped, UNCHANGED <<table, journal, applied, sec, wanted>>,
         call' \in [Callers -> Asked \union {Idle}], restore' \in IdLists \union {None},
         \A c \in Callers : call'[c].op \in {"apply", "remove"} => call'[c].k \in Knowledge
  PROVE  StackTyped'
<1>1. TablesTyped'
  BY DEF StackTyped, TablesTyped
<1>2. RowsTyped'
  BY DEF StackTyped, RowsTyped
<1>3. Staged'
  BY DEF StackTyped, Staged
<1> QED
  BY <1>1, <1>2, <1>3 DEF StackTyped

LEMMA TypedDecide ==
  ASSUME StackTyped, NEW c \in Calls, NEW op \in {"apply", "remove"}, NEW k \in Knowledge,
         NEW target, Rows(target), Decide(c, op, k, target)
  PROVE  StackTyped'
<1> DEFINE r == [op |-> op, k |-> k, target |-> target, saw |-> Ids(applied)]
<1>1. r \in Asked
  <2>1. IdList(Ids(applied))
    BY RowsFacts DEF StackTyped, RowsTyped
  <2> QED
    BY <2>1, ListTypes DEF Asked, Requests
<1>2. c \in Callers /\ call' = [call EXCEPT ![c] = r] /\ UNCHANGED <<table, journal, applied, restore, sec, wanted>>
  BY DEF Decide, Callers
<1>3. call \in [Callers -> Asked \union {Idle}] /\ restore \in IdLists \union {None}
  BY DEF StackTyped, RowsTyped
<1>4. \A x \in Callers : call[x].op \in {"apply", "remove"} => call[x].k \in Knowledge
  BY DEF StackTyped, Staged
<1>5. r.k \in Knowledge
  OBVIOUS
<1> HIDE DEF r
<1>6. call' \in [Callers -> Asked \union {Idle}]
  BY <1>1, <1>2, <1>3
<1>7. \A x \in Callers : call'[x].op \in {"apply", "remove"} => call'[x].k \in Knowledge
  BY <1>2, <1>3, <1>4, <1>5
<1> QED
  BY <1>2, <1>3, <1>6, <1>7, TypedQuiet

LEMMA TypedAsk ==
  ASSUME StackTyped, NEW c \in Calls, NEW k \in Knowledge, AskApply(c, k) \/ AskRemove(c, k)
  PROVE  StackTyped'
<1>1. Rows(applied) /\ IdList(Ids(applied)) /\ IdList(Resolve(k))
  BY RowsFacts, LineageLists DEF StackTyped, RowsTyped
<1>2. Rows(Exact(Ids(applied))) /\ Ids(Exact(Ids(applied))) = Ids(applied)
  BY <1>1, ExactRows
<1>3. CASE AskApply(c, k)
  <2> DEFINE new == Without(Resolve(k), Range(Ids(applied)))
             low == Exact(Ids(applied))
  <2>1. IdList(new) /\ \A i \in 1..Len(new), j \in 1..Len(Ids(applied)) : new[i] # Ids(applied)[j]
    BY <1>1, WithoutList, Apart
  <2>2. Len(low) = Len(Ids(applied)) /\ \A i \in 1..Len(low) : low[i].id = Ids(applied)[i]
    BY <1>2, RowsFacts
  <2>3. Decide(c, "apply", k, low \o Layers(new, "kept"))
    BY <1>3 DEF AskApply
  <2> HIDE DEF new, low
  <2>4. Rows(low)
    BY <1>2 DEF low
  <2>5. Rows(low \o Layers(new, "kept"))
    BY <2>1, <2>2, <2>4, MoreRows
  <2> QED
    BY <2>3, <2>5, TypedDecide
<1>4. CASE AskRemove(c, k)
  <2>1. PICK gone : Decide(c, "remove", k, Exact(Without(Ids(applied), gone)))
    BY <1>4 DEF AskRemove
  <2>2. Rows(Exact(Without(Ids(applied), gone)))
    BY <1>1, WithoutList, ExactRows
  <2> QED
    BY <2>1, <2>2, TypedDecide
<1> QED
  BY <1>3, <1>4

LEMMA TypedTick ==
  ASSUME StackTyped, Tick
  PROVE  StackTyped'
<1>1. Rows(applied) /\ IdList(Ids(applied)) /\ call \in [Callers -> Asked \union {Idle}]
      /\ restore \in IdLists \union {None}
  BY RowsFacts DEF StackTyped, RowsTyped
<1>2. \A x \in Callers : call[x].op \in {"apply", "remove"} => call[x].k \in Knowledge
  BY DEF StackTyped, Staged
<1>3. Watchdog \in Callers /\ UNCHANGED <<table, journal, applied, restore, sec, wanted>>
  BY DEF Tick, Callers, past
<1>4. PICK r : call' = [call EXCEPT ![Watchdog] = r] /\ r \in Asked /\ r.op \in {"recover", "watchdog"}
  <2>1. CASE call' = [call EXCEPT ![Watchdog] =
                       [op |-> "recover", k |-> None, target |-> <<>>, saw |-> Ids(applied)]]
    <3> DEFINE r == [op |-> "recover", k |-> None, target |-> <<>>, saw |-> Ids(applied)]
    <3>1. r \in Asked
      BY <1>1, NoIds, ListTypes DEF Asked, Requests
    <3>2. r.op = "recover" /\ call' = [call EXCEPT ![Watchdog] = r]
      BY <2>1
    <3> HIDE DEF r
    <3> QED
      BY <3>1, <3>2
  <2>2. CASE /\ applied # <<>>
             /\ call' = [call EXCEPT ![Watchdog] = [op |-> "watchdog", k |-> Last(applied).id,
                           target |-> Exact(Ids(applied)), saw |-> Ids(applied)]]
    <3>1. Rows(Exact(Ids(applied))) /\ Last(applied).id \in Knowledge
      BY <1>1, <2>2, ExactRows, FrontRows
    <3> DEFINE r == [op |-> "watchdog", k |-> Last(applied).id,
                     target |-> Exact(Ids(applied)), saw |-> Ids(applied)]
    <3>2. r \in Asked
      BY <1>1, <3>1, ListTypes DEF Asked, Requests
    <3>3. r.op = "watchdog" /\ call' = [call EXCEPT ![Watchdog] = r]
      BY <2>2
    <3> HIDE DEF r
    <3> QED
      BY <3>2, <3>3
  <2> QED
    BY <2>1, <2>2 DEF Tick
<1>5. call' \in [Callers -> Asked \union {Idle}]
  BY <1>1, <1>4
<1>6. \A x \in Callers : call'[x].op \in {"apply", "remove"} => call'[x].k \in Knowledge
  BY <1>1, <1>2, <1>4
<1> QED
  BY <1>1, <1>3, <1>5, <1>6, TypedQuiet

\* A section that starts: the rows, the journals and the table stay as they are.
LEMMA TypedEnter ==
  ASSUME StackTyped, sec' \in Sections, sec'.stage \in {"stack", "below", "clean"}, sec'.op # "idle",
         sec'.op \in {"apply", "remove", "verify", "chat", "compare"} => sec'.k \in Knowledge,
         sec'.stage = "clean" => sec'.op \in {"chat", "compare"},
         sec'.stage = "below" => sec'.op = "verify" /\ Ids(sec'.target) = Under[sec'.k],
         UNCHANGED <<table, journal, applied, call, wanted>>, restore' \in IdLists \union {None}
  PROVE  StackTyped'
<1>1. TablesTyped'
  BY DEF StackTyped, TablesTyped
<1>2. RowsTyped'
  BY DEF StackTyped, RowsTyped
<1>3. Staged'
  <2>1. \A x \in Callers : call'[x].op \in {"apply", "remove"} => call'[x].k \in Knowledge
    BY DEF StackTyped, Staged
  <2> QED
    BY <2>1 DEF Staged
<1> QED
  BY <1>1, <1>2, <1>3 DEF StackTyped

\* What a request holds when it asked for something.
LEMMA AskedFacts ==
  ASSUME StackTyped, NEW c \in Callers, call[c].op \in Requests
  PROVE  /\ call[c] \in Asked /\ Rows(call[c].target) /\ call[c].k \in Knowledge \union {None}
         /\ call[c].op \in {"apply", "remove"} => call[c].k \in Knowledge
<1>1. call[c] \in Asked \union {Idle} /\ (call[c].op \in {"apply", "remove"} => call[c].k \in Knowledge)
  BY DEF StackTyped, RowsTyped, Staged
<1>2. call[c] # Idle
  BY DEF Idle, Requests
<1> QED
  BY <1>1, <1>2, ListTypes DEF Asked

LEMMA TypedEnters ==
  ASSUME StackTyped,
         \/ \E c \in Calls : EnterSection(c)
         \/ \E k \in Knowledge : EnterChat(k) \/ EnterVerify(k)
         \/ EnterWatchdog \/ EnterRecover
  PROVE  StackTyped'
<1>1. Rows(applied) /\ IdList(Ids(applied)) /\ restore \in IdLists \union {None}
  BY RowsFacts DEF StackTyped, RowsTyped
<1>2. Ids(applied) \in IdLists
  BY <1>1, ListTypes
<1>3. ASSUME NEW c \in Calls, EnterSection(c) PROVE StackTyped'
  <2> DEFINE op == call[c].op  k == call[c].k  target == call[c].target
  <2>1. c \in Callers /\ op \in {"apply", "remove"} /\ op \in Requests
    BY <1>3 DEF EnterSection, Callers, Requests
  <2>2. Rows(target) /\ k \in Knowledge
    BY <2>1, AskedFacts
  <2>3. /\ sec' = Section(c, op, k, "stack", target, FALSE)
        /\ UNCHANGED <<table, journal, applied, call, wanted, restore>>
    BY <1>3 DEF EnterSection
  <2> HIDE DEF op, k, target
  <2>4. target \in RowLists /\ c \in Callers \union {None} /\ k \in Knowledge \union {None}
    BY <2>1, <2>2, ListTypes
  <2>5. sec' \in Sections /\ sec'.stage = "stack" /\ sec'.op = op /\ sec'.k = k
    BY <1>2, <2>1, <2>3, <2>4 DEF Section, Sections, Stages
  <2> QED
    BY <1>1, <2>1, <2>2, <2>3, <2>5, TypedEnter
<1>4. ASSUME NEW k \in Knowledge, EnterChat(k) PROVE StackTyped'
  <2> DEFINE left == {d \in Range(Resolve(k)) : ~Loaded(d) /\ OnTable(d)}
  <2>1. left \in SUBSET Knowledge
    BY LineageLists, ListFacts DEF Range
  <2> HIDE DEF left
  <2>2. PICK op \in {"chat", "compare"} :
          sec' = [Section(None, op, k, "clean", <<>>, FALSE) EXCEPT !.dirty = left]
    BY <1>4 DEF EnterChat, left
  <2>3. UNCHANGED <<table, journal, applied, call, wanted>> /\ restore' = Ids(applied)
    BY <1>4 DEF EnterChat
  <2>4. <<>> \in RowLists
    BY NoIds, ListTypes
  <2>5. sec' \in Sections /\ sec'.stage = "clean" /\ sec'.op = op /\ sec'.k = k
    BY <1>2, <2>1, <2>2, <2>4 DEF Section, Sections, Stages
  <2> QED
    BY <1>2, <2>2, <2>3, <2>5, TypedEnter
<1>5. ASSUME NEW k \in Knowledge, EnterVerify(k) PROVE StackTyped'
  <2> DEFINE target == Layers(Under[k], "verify")
  <2>1. Rows(target) /\ Ids(target) = Under[k]
    BY LineageLists, LayersRows
  <2>2. /\ sec' = Section(None, "verify", k, "below", target, FALSE)
        /\ UNCHANGED <<table, journal, applied, call, wanted>> /\ restore' = Ids(applied)
    BY <1>5 DEF EnterVerify
  <2> HIDE DEF target
  <2>3. target \in RowLists
    BY <2>1, ListTypes
  <2>4. /\ sec' \in Sections /\ sec'.stage = "below" /\ sec'.op = "verify" /\ sec'.k = k
        /\ sec'.target = target
    BY <1>2, <2>2, <2>3 DEF Section, Sections, Stages
  <2> QED
    BY <1>2, <2>1, <2>2, <2>4, TypedEnter
<1>6. ASSUME EnterWatchdog \/ EnterRecover, call' = [call EXCEPT ![Watchdog] = Idle], UNCHANGED sec
      PROVE  StackTyped'
  <2>1. UNCHANGED <<table, journal, applied, restore, wanted>>
    BY <1>6 DEF EnterWatchdog, EnterRecover, past
  <2>2. /\ call \in [Callers -> Asked \union {Idle}]
        /\ \A x \in Callers : call[x].op \in {"apply", "remove"} => call[x].k \in Knowledge
    BY DEF StackTyped, RowsTyped, Staged
  <2>3. call' \in [Callers -> Asked \union {Idle}]
    BY <1>6, <2>2
  <2>4. \A x \in Callers : call'[x].op \in {"apply", "remove"} => call'[x].k \in Knowledge
    BY <1>6, <2>2 DEF Idle
  <2> QED
    BY <1>1, <1>6, <2>1, <2>3, <2>4, TypedQuiet
<1>7. ASSUME EnterWatchdog PROVE StackTyped'
  <2> DEFINE k == call[Watchdog].k  target == call[Watchdog].target
  <2>1. call[Watchdog].op = "watchdog" /\ Watchdog \in Callers
    BY <1>7 DEF EnterWatchdog, Callers
  <2>2. Rows(target) /\ k \in Knowledge \union {None}
    BY <2>1, AskedFacts DEF Requests
  <2>3. \/ call' = [call EXCEPT ![Watchdog] = Idle] /\ UNCHANGED sec
        \/ sec' = Section(Watchdog, "watchdog", k, "stack", target, TRUE) /\ UNCHANGED call
    BY <1>7 DEF EnterWatchdog
  <2>4. UNCHANGED <<table, journal, applied, restore, wanted>>
    BY <1>7 DEF EnterWatchdog
  <2> HIDE DEF k, target
  <2>5. CASE sec' = Section(Watchdog, "watchdog", k, "stack", target, TRUE) /\ UNCHANGED call
    <3>1. target \in RowLists /\ Watchdog \in Callers \union {None}
      BY <2>1, <2>2, ListTypes
    <3>2. sec' \in Sections /\ sec'.stage = "stack" /\ sec'.op = "watchdog"
      BY <1>2, <2>2, <2>5, <3>1 DEF Section, Sections, Stages, Requests
    <3> QED
      BY <1>1, <2>4, <2>5, <3>2, TypedEnter
  <2> QED
    BY <1>6, <1>7, <2>3, <2>5
<1>8. ASSUME EnterRecover PROVE StackTyped'
  <2>1. IdList(ToPutBack)
    BY <1>1, ListTypes, WithoutList DEF ToPutBack
  <2>2. Rows(Exact(ToPutBack))
    BY <1>1, <2>1, ExactRows
  <2> DEFINE target == Exact(ToPutBack)  again == (applied # <<>> /\ ~OnTable(Last(applied).id))
  <2>3. \/ call' = [call EXCEPT ![Watchdog] = Idle] /\ UNCHANGED sec
        \/ sec' = Section(Watchdog, "recover", None, "stack", target, again) /\ UNCHANGED call
    BY <1>8 DEF EnterRecover
  <2>4. UNCHANGED <<table, journal, applied, restore, wanted>> /\ Watchdog \in Callers
    BY <1>8 DEF EnterRecover, past, Callers
  <2>5. again \in BOOLEAN
    OBVIOUS
  <2> HIDE DEF again, target
  <2>6. CASE sec' = Section(Watchdog, "recover", None, "stack", target, again) /\ UNCHANGED call
    <3>1. target \in RowLists /\ Watchdog \in Callers \union {None}
      BY <2>2, <2>4, ListTypes DEF target
    <3>2. sec' \in Sections /\ sec'.stage = "stack" /\ sec'.op = "recover"
      BY <1>2, <2>5, <2>6, <3>1 DEF Section, Sections, Stages, Requests
    <3> QED
      BY <1>1, <2>4, <2>6, <3>2, TypedEnter
  <2> QED
    BY <1>6, <1>8, <2>3, <2>6
<1> QED
  BY <1>3, <1>4, <1>5, <1>7, <1>8

\* Steps in a section that is stacking: the section stays as it is.
LEMMA TypedStacking ==
  ASSUME StackTyped, TablesTyped', Rows(applied'), sec.stage \notin {"load", "measure", "unmark"},
         UNCHANGED <<restore, call, sec, wanted>>
  PROVE  StackTyped'
<1>1. RowsTyped'
  BY DEF StackTyped, RowsTyped
<1>2. Staged'
  BY DEF StackTyped, Staged
<1> QED
  BY <1>1, <1>2 DEF StackTyped

\* The lock is free.
LEMMA TypedFree ==
  ASSUME TablesTyped', Rows(applied'), restore' \in IdLists \union {None}, wanted' \in IdLists, sec' = Free,
         call' \in [Callers -> Asked \union {Idle}],
         \A c \in Callers : call'[c].op \in {"apply", "remove"} => call'[c].k \in Knowledge
  PROVE  StackTyped'
<1>1. RowsTyped'
  BY FreeTyped DEF RowsTyped
<1>2. Staged'
  BY FreeTyped DEF Staged
<1> QED
  BY <1>1, <1>2 DEF StackTyped

LEMMA StopTyped ==
  ASSUME StackTyped, Stop
  PROVE  /\ sec' = Free /\ call' \in [Callers -> Asked \union {Idle}]
         /\ \A c \in Callers : call'[c].op \in {"apply", "remove"} => call'[c].k \in Knowledge
<1>1. /\ call \in [Callers -> Asked \union {Idle}]
      /\ \A c \in Callers : call[c].op \in {"apply", "remove"} => call[c].k \in Knowledge
  BY DEF StackTyped, RowsTyped, Staged
<1>2. sec' = Free /\ (call' = call \/ call' = [call EXCEPT ![sec.by] = Idle])
  BY DEF Stop
<1>3. CASE call' = call
  BY <1>1, <1>2, <1>3
<1>4. CASE call' = [call EXCEPT ![sec.by] = Idle]
  BY <1>1, <1>2, <1>4 DEF Idle
<1> QED
  BY <1>2, <1>3, <1>4

\* What the scripts leave on the table and in the journals.
LEMMA WrittenTyped ==
  ASSUME TablesTyped, NEW k \in Knowledge
  PROVE  Written(k, table) \in [Cells -> Value]
BY DEF TablesTyped, Written, Value

LEMMA UndoneTyped ==
  ASSUME TablesTyped, NEW k \in Knowledge
  PROVE  Undone(k, table) \in [Cells -> Value]
<1>1. ASSUME NEW c \in Cells
      PROVE  (IF c \notin Writes[k] THEN table[c]
              ELSE IF journal[k] = None THEN Before(k, c) ELSE journal[k][c]) \in Value
  <2>1. table[c] \in Value /\ (journal[k] # None => journal[k] \in [Writes[k] -> Value])
    BY DEF TablesTyped
  <2>2. Before(k, c) \in Value
    BY BeforeShows
  <2> QED
    BY <2>1, <2>2
<1> QED
  BY <1>1 DEF Undone

LEMMA JournalsTyped ==
  ASSUME TablesTyped, table' \in [Cells -> Value], NEW k \in Knowledge,
         \/ journal' = journal
         \/ journal' = [journal EXCEPT ![k] = None]
         \/ journal' = [journal EXCEPT ![k] = [c \in Writes[k] |-> table[c]]]
  PROVE  TablesTyped'
<1>1. DOMAIN journal = Knowledge /\ \A x \in Knowledge : journal[x] # None => journal[x] \in [Writes[x] -> Value]
  BY DEF TablesTyped
<1>2. [c \in Writes[k] |-> table[c]] \in [Writes[k] -> Value]
  <2>1. Writes[k] \subseteq Cells /\ table \in [Cells -> Value]
    BY StackAssumption DEF StackAssumption, TablesTyped
  <2> QED
    BY <2>1
<1> DEFINE shown == [c \in Writes[k] |-> table[c]]
<1>3. \/ journal' = journal
      \/ journal' = [journal EXCEPT ![k] = None]
      \/ journal' = [journal EXCEPT ![k] = shown]
  OBVIOUS
<1> HIDE DEF shown
<1>4. shown \in [Writes[k] -> Value]
  BY <1>2 DEF shown
<1>5. DOMAIN journal' = Knowledge
  BY <1>1, <1>3
<1>6. ASSUME NEW x \in Knowledge, journal'[x] # None PROVE journal'[x] \in [Writes[x] -> Value]
  BY <1>1, <1>3, <1>4, <1>6
<1> QED
  BY <1>5, <1>6 DEF TablesTyped

\* A journal that was taken is no empty journal.
LEMMA TakenIsSome ==
  ASSUME TablesTyped, NEW k \in Knowledge
  PROVE  [c \in Writes[k] |-> table[c]] # None
<1>1. Writes[k] \subseteq Cells /\ table \in [Cells -> Value]
  BY StackAssumption DEF StackAssumption, TablesTyped
<1>2. [c \in Writes[k] |-> table[c]] \in [Writes[k] -> Value]
  BY <1>1
<1> QED
  BY <1>2, StackAssumption DEF StackAssumption, Value

\* A stack that is not a prefix of its target has a top.
LEMMA NotKept ==
  ASSUME StackTyped, ~Kept
  PROVE  applied # <<>>
<1>1. /\ Rows(sec.target) /\ Len(Ids(sec.target)) \in Nat
  BY ListTypes, RowsFacts DEF StackTyped, RowsTyped, Sections
<1>2. SubSeq(<<>>, 1, 0) = <<>> /\ SubSeq(Ids(sec.target), 1, 0) = <<>>
  BY SubSeqEmpty
<1>3. IsPrefix(<<>>, Ids(sec.target))
  BY <1>1, <1>2, NoIds DEF IsPrefix
<1> QED
  BY <1>3, NoIds DEF Kept

LEMMA TargetFacts ==
  ASSUME StackTyped
  PROVE  /\ Rows(applied) /\ Rows(sec.target) /\ IdList(sec.pinned) /\ IdList(wanted)
         /\ Len(applied) \in Nat /\ sec.rebuild \in BOOLEAN /\ sec.dirty \subseteq Knowledge
         /\ restore \in IdLists \union {None}
BY ListTypes, RowsFacts DEF StackTyped, RowsTyped, Sections

\* The row that a load books: the next of the target, which is not there yet.
LEMMA NextRow ==
  ASSUME StackTyped, Kept, Len(applied) < Len(sec.target)
  PROVE  /\ sec.target[Len(applied) + 1] \in Row
         /\ sec.target[Len(applied) + 1].id \in Knowledge
         /\ \A i \in 1..Len(applied) : applied[i].id # sec.target[Len(applied) + 1].id
<1>1. Rows(applied) /\ Rows(sec.target)
  BY TargetFacts
<1>2. \A i \in 1..Len(applied) : applied[i].id = sec.target[i].id
  BY <1>1, KeptRows DEF Kept
<1>3. Len(applied) + 1 \in 1..Len(sec.target) /\ Len(applied) \in Nat
  BY <1>1, RowsFacts
<1>4. \A i \in 1..Len(applied) : i \in 1..Len(sec.target) /\ i # Len(applied) + 1
  BY <1>3
<1> QED
  BY <1>1, <1>2, <1>3, <1>4, RowsFacts

LEMMA TypedScripts ==
  ASSUME StackTyped, NEW booked \in BOOLEAN, Unwind(booked) \/ Load(booked)
  PROVE  TablesTyped' /\ Rows(applied')
<1>1. TablesTyped /\ Rows(applied)
  BY TargetFacts DEF StackTyped
<1>2. CASE Unwind(booked)
  <2>1. applied # <<>>
    BY <1>2, NotKept DEF Unwind
  <2>2. Last(applied).id \in Knowledge /\ Rows(Front(applied))
    BY <1>1, <2>1, FrontRows
  <2> DEFINE k == Last(applied).id
  <2>3. table' = Undone(k, table) /\ journal' = [journal EXCEPT ![k] = None]
        /\ (applied' = Front(applied) \/ applied' = applied)
    BY <1>2 DEF Unwind
  <2> HIDE DEF k
  <2>4. k \in Knowledge
    BY <2>2 DEF k
  <2>5. TablesTyped'
    BY <1>1, <2>3, <2>4, UndoneTyped, JournalsTyped
  <2> QED
    BY <1>1, <2>2, <2>3, <2>5
<1>3. CASE Load(booked)
  <2> DEFINE next == sec.target[Len(applied) + 1]
  <2>1. next \in Row /\ next.id \in Knowledge /\ \A i \in 1..Len(applied) : applied[i].id # next.id
    BY <1>3, NextRow DEF Load
  <2>2. /\ journal' = [journal EXCEPT ![next.id] = [c \in Writes[next.id] |-> table[c]]]
        /\ table' = Written(next.id, table)
        /\ applied' = Append(applied, next) \/ applied' = applied
    BY <1>3 DEF Load
  <2> HIDE DEF next
  <2>3. TablesTyped'
    BY <1>1, <2>1, <2>2, WrittenTyped, JournalsTyped
  <2>4. Rows(Append(applied, next))
    BY <1>1, <2>1, AppendRows
  <2> QED
    BY <1>1, <2>2, <2>3, <2>4
<1> QED
  BY <1>2, <1>3

LEMMA IdsOnTop ==
  ASSUME NEW low, IdList(low), NEW high, IdList(high),
         \A i \in 1..Len(high), j \in 1..Len(low) : high[i] # low[j]
  PROVE  IdList(low \o high)
<1> DEFINE ids == low \o high
<1>1. /\ ids \in Seq(Knowledge) /\ Len(ids) = Len(low) + Len(high)
      /\ \A i \in 1..Len(low) + Len(high) :
           ids[i] = IF i <= Len(low) THEN low[i] ELSE high[i - Len(low)]
  BY ConcatProperties DEF IdList
<1>2. /\ Len(low) \in Nat /\ Len(high) \in Nat
      /\ \A i, j \in 1..Len(low) : low[i] = low[j] => i = j
      /\ \A i, j \in 1..Len(high) : high[i] = high[j] => i = j
  BY ListFacts
<1> HIDE DEF ids
<1>3. ASSUME NEW i \in 1..Len(ids), NEW j \in 1..Len(ids), ids[i] = ids[j] PROVE i = j
  <2>1. /\ i <= Len(low) => i \in 1..Len(low) /\ ids[i] = low[i]
        /\ ~ (i <= Len(low)) => i - Len(low) \in 1..Len(high) /\ ids[i] = high[i - Len(low)]
    BY <1>1, <1>2
  <2>2. /\ j <= Len(low) => j \in 1..Len(low) /\ ids[j] = low[j]
        /\ ~ (j <= Len(low)) => j - Len(low) \in 1..Len(high) /\ ids[j] = high[j - Len(low)]
    BY <1>1, <1>2
  <2>3. CASE i <= Len(low) /\ j <= Len(low)
    BY <1>2, <1>3, <2>1, <2>2, <2>3
  <2>4. CASE ~ (i <= Len(low)) /\ ~ (j <= Len(low))
    <3>1. i - Len(low) = j - Len(low)
      BY <1>2, <1>3, <2>1, <2>2, <2>4
    <3> QED
      BY <1>2, <3>1
  <2>5. CASE (i <= Len(low)) # (j <= Len(low))
    BY <1>3, <2>1, <2>2, <2>5
  <2> QED
    BY <2>3, <2>4, <2>5
<1>4. IdList(ids)
  BY <1>1, <1>3 DEF IdList
<1> QED
  BY <1>4 DEF ids

LEMMA TypedScript ==
  ASSUME StackTyped, Script
  PROVE  StackTyped'
<1>1. TablesTyped' /\ Rows(applied')
  BY TypedScripts DEF Script
<1>2. UNCHANGED <<restore, call, sec, wanted>> /\ sec.stage \notin {"load", "measure", "unmark"}
  BY DEF Script, past, Unwind, Load, Stacking
<1> QED
  BY <1>1, <1>2, TypedStacking

LEMMA TypedClear ==
  ASSUME StackTyped, Clear
  PROVE  StackTyped'
<1>1. TablesTyped'
  <2>1. /\ journal' = [k \in Knowledge |-> IF Loaded(k) THEN None ELSE journal[k]] /\ table' = table
    BY DEF Clear
  <2> QED
    BY <2>1 DEF StackTyped, TablesTyped
<1>2. /\ applied' = <<>> /\ sec' = [sec EXCEPT !.rebuild = FALSE]
      /\ UNCHANGED <<restore, call, wanted>> /\ sec.stage \notin {"load", "measure", "unmark"}
  BY DEF Clear, Stacking
<1>3. sec \in Sections
  BY DEF StackTyped, RowsTyped
<1>4. /\ sec' \in Sections /\ sec'.stage = sec.stage /\ sec'.op = sec.op /\ sec'.k = sec.k
      /\ sec'.target = sec.target /\ sec'.pinned = sec.pinned
  BY <1>2, <1>3 DEF Sections
<1>5. RowsTyped'
  BY <1>2, <1>4, NoIds DEF StackTyped, RowsTyped
<1>6. Staged'
  BY <1>2, <1>4 DEF StackTyped, Staged
<1> QED
  BY <1>1, <1>5, <1>6 DEF StackTyped

LEMMA TypedDone ==
  ASSUME StackTyped, Done
  PROVE  StackTyped'
<1>1. sec' = Free /\ call' \in [Callers -> Asked \union {Idle}]
      /\ \A c \in Callers : call'[c].op \in {"apply", "remove"} => call'[c].k \in Knowledge
  BY StopTyped DEF Done, Leave
<1>2. UNCHANGED <<table, journal, applied>> /\ (restore' = restore \/ restore' = None)
  BY DEF Done
<1>3. TablesTyped'
  BY <1>2 DEF StackTyped, TablesTyped
<1>4. IdList(wanted)
  BY TargetFacts
<1>5. IdList(wanted')
  <2>1. CASE sec.op = "apply"
    <3>1. IdList(Resolve(sec.k))
      BY <2>1, LineageLists DEF StackTyped, Staged
    <3> DEFINE new == Without(Resolve(sec.k), Range(wanted))
    <3>2. wanted' = wanted \o new
      BY <2>1 DEF Done
    <3>3. IdList(new) /\ \A i \in 1..Len(new), j \in 1..Len(wanted) : new[i] # wanted[j]
      BY <1>4, <3>1, WithoutList, Apart
    <3> HIDE DEF new
    <3> QED
      BY <1>4, <3>2, <3>3, IdsOnTop
  <2>2. CASE sec.op = "remove"
    <3>1. wanted' = Without(wanted, Range(sec.pinned) \ Range(Ids(applied)))
      BY <2>2 DEF Done
    <3> QED
      BY <1>4, <3>1, WithoutList
  <2>3. CASE sec.op \notin {"apply", "remove"}
    BY <1>4, <2>3 DEF Done
  <2> QED
    BY <2>1, <2>2, <2>3
<1> QED
  BY <1>1, <1>2, <1>3, <1>5, TargetFacts, ListTypes, TypedFree

\* What a section's stage becomes.
LEMMA StageTyped ==
  ASSUME sec \in Sections, NEW stage \in Stages, NEW target, Rows(target), Stage(stage, target, FALSE)
  PROVE  /\ sec' \in Sections /\ sec'.stage = stage /\ sec'.target = target
         /\ sec'.op = sec.op /\ sec'.k = sec.k /\ sec'.pinned = sec.pinned /\ sec'.by = sec.by
         /\ sec'.dirty = sec.dirty /\ ~ sec'.rebuild
<1>1. target \in RowLists
  BY ListTypes
<1> QED
  BY <1>1 DEF Stage, Sections

\* Steps that move a section from one stage to the next.
LEMMA TypedMove ==
  ASSUME StackTyped, TablesTyped', Rows(applied'), sec' \in Sections, UNCHANGED <<restore, call, wanted>>,
         sec'.op = sec.op, sec'.k = sec.k, sec'.pinned = sec.pinned,
         sec'.stage # "free", sec.op # "idle",
         sec'.stage \in {"clean", "base", "test"} => sec.op \in {"chat", "compare"},
         sec'.stage = "base" =>
           \A i \in 1..Len(sec'.target), j \in 1..Len(Resolve(sec.k)) : sec'.target[i].id # Resolve(sec.k)[j],
         sec'.stage # "below",
         sec'.stage \in {"load", "measure", "unmark"} =>
           sec.op = "verify" /\ applied' # <<>> /\ Last(applied').id = sec.k,
         sec'.stage = "unmark" => journal'[sec.k] = None,
         sec'.stage = "restore" => Ids(sec'.target) = sec.pinned
  PROVE  StackTyped'
<1>1. RowsTyped'
  BY DEF StackTyped, RowsTyped
<1>2. Staged'
  BY DEF StackTyped, Staged
<1> QED
  BY <1>1, <1>2 DEF StackTyped

\* What is tested is not among the rows that were served without it.
LEMMA BelowTest ==
  ASSUME StackTyped, sec.k \in Knowledge
  PROVE  /\ Rows(Exact(Without(sec.pinned, Range(Resolve(sec.k)))))
         /\ \A i \in 1..Len(Exact(Without(sec.pinned, Range(Resolve(sec.k))))), j \in 1..Len(Resolve(sec.k)) :
              Exact(Without(sec.pinned, Range(Resolve(sec.k))))[i].id # Resolve(sec.k)[j]
<1> DEFINE ids == Without(sec.pinned, Range(Resolve(sec.k)))
<1>1. Rows(applied) /\ IdList(sec.pinned) /\ IdList(Resolve(sec.k))
  BY TargetFacts, LineageLists
<1>2. IdList(ids) /\ \A i \in 1..Len(ids), j \in 1..Len(Resolve(sec.k)) : ids[i] # Resolve(sec.k)[j]
  BY <1>1, WithoutList, Apart
<1> HIDE DEF ids
<1>3. Rows(Exact(ids)) /\ Len(Exact(ids)) = Len(ids) /\ Ids(Exact(ids)) = ids
  BY <1>1, <1>2, ExactRows
<1>4. \A i \in 1..Len(Exact(ids)) : Exact(ids)[i].id = ids[i]
  BY <1>3, RowsFacts
<1>5. /\ Rows(Exact(ids))
      /\ \A i \in 1..Len(Exact(ids)), j \in 1..Len(Resolve(sec.k)) : Exact(ids)[i].id # Resolve(sec.k)[j]
  BY <1>2, <1>3, <1>4
<1> QED
  BY <1>5 DEF ids

LEMMA SecIsTyped ==
  ASSUME StackTyped
  PROVE  sec \in Sections /\ TablesTyped
BY DEF StackTyped, RowsTyped

LEMMA TypedClean ==
  ASSUME StackTyped, Clean
  PROVE  StackTyped'
<1> DEFINE below == Exact(Without(sec.pinned, Range(Resolve(sec.k))))
           full == below \o Layers(Resolve(sec.k), "chat")
<1>1. sec.stage = "clean" /\ sec.op \in {"chat", "compare"} /\ sec.k \in Knowledge
  BY DEF Clean, StackTyped, Staged
<1>2. /\ Rows(below)
      /\ \A i \in 1..Len(below), j \in 1..Len(Resolve(sec.k)) : below[i].id # Resolve(sec.k)[j]
  BY <1>1, BelowTest
<1>3. \/ sec.op = "compare" /\ Stage("base", below, FALSE)
      \/ sec.op # "compare" /\ Stage("test", full, FALSE)
  BY DEF Clean
<1>4. UNCHANGED <<journal, applied, restore, call, wanted>>
  BY DEF Clean, past
<1>5. TablesTyped'
  <2> DEFINE who(c) == CHOOSE k \in sec.dirty : c \in Writes[k]
  <2>1. table' = [c \in Cells |-> IF \E k \in sec.dirty : c \in Writes[k]
                                  THEN Before(who(c), c) ELSE table[c]]
    BY DEF Clean
  <2>2. ASSUME NEW c \in Cells, \E k \in sec.dirty : c \in Writes[k] PROVE Before(who(c), c) \in Value
    <3>1. who(c) \in Knowledge
      BY <2>2, TargetFacts
    <3> QED
      BY <3>1, BeforeShows
  <2>3. TablesTyped
    BY SecIsTyped
  <2> HIDE DEF who
  <2>4. table' \in [Cells -> Value]
    BY <2>1, <2>2, <2>3 DEF TablesTyped
  <2> QED
    BY <1>4, <2>3, <2>4 DEF TablesTyped
<1>6. Rows(applied')
  BY <1>4, TargetFacts
<1>7. CASE sec.op = "compare" /\ Stage("base", below, FALSE)
  <2> HIDE DEF below
  <2>1. /\ sec' \in Sections /\ sec'.stage = "base" /\ sec'.target = below
        /\ sec'.op = sec.op /\ sec'.k = sec.k /\ sec'.pinned = sec.pinned
    BY <1>2, <1>7, SecIsTyped, StageTyped DEF Stages
  <2> QED
    BY <1>1, <1>2, <1>4, <1>5, <1>6, <2>1, TypedMove
<1>8. CASE Stage("test", full, FALSE)
  <2>1. Rows(full)
    BY <1>1, <1>2, LineageLists, MoreRows
  <2> HIDE DEF full
  <2>2. /\ sec' \in Sections /\ sec'.stage = "test"
        /\ sec'.op = sec.op /\ sec'.k = sec.k /\ sec'.pinned = sec.pinned
    BY <1>8, <2>1, SecIsTyped, StageTyped DEF Stages
  <2> QED
    BY <1>1, <1>4, <1>5, <1>6, <2>2, TypedMove
<1> QED
  BY <1>3, <1>7, <1>8

\* The stack found at the start, as the target of a restore.
LEMMA TypedBack ==
  ASSUME StackTyped, Stage("restore", Exact(sec.pinned), FALSE), sec.op # "idle",
         UNCHANGED <<table, journal, applied, restore, call, wanted>>
  PROVE  /\ StackTyped'
         /\ sec'.stage = "restore" /\ sec'.op = sec.op /\ sec'.k = sec.k /\ sec'.pinned = sec.pinned
<1>1. Rows(Exact(sec.pinned)) /\ Ids(Exact(sec.pinned)) = sec.pinned
  BY TargetFacts, ExactRows
<1> DEFINE target == Exact(sec.pinned)
<1>2. Stage("restore", target, FALSE) /\ Rows(target) /\ Ids(target) = sec.pinned
  BY <1>1
<1> HIDE DEF target
<1>3. /\ sec' \in Sections /\ sec'.stage = "restore" /\ sec'.target = target
      /\ sec'.op = sec.op /\ sec'.k = sec.k /\ sec'.pinned = sec.pinned
  BY <1>2, SecIsTyped, StageTyped DEF Stages
<1>4. TablesTyped' /\ Rows(applied')
  BY TargetFacts, SecIsTyped DEF TablesTyped
<1>5. StackTyped'
  BY <1>2, <1>3, <1>4, TypedMove
<1> QED
  BY <1>3, <1>5

LEMMA TypedAnswered ==
  ASSUME StackTyped, Answered
  PROVE  StackTyped'
<1>1. sec.stage \in {"base", "test"} /\ sec.op \in {"chat", "compare"} /\ sec.k \in Knowledge
  BY DEF Answered, StackTyped, Staged
<1>2. UNCHANGED <<table, journal, applied, restore, call, wanted>>
  BY DEF Answered, past
<1>3. CASE sec.stage = "base"
  <2> DEFINE full == sec.target \o Layers(Resolve(sec.k), "chat")
  <2>1. Stage("test", full, FALSE)
    BY <1>3 DEF Answered
  <2>2. \A i \in 1..Len(sec.target), j \in 1..Len(Resolve(sec.k)) : sec.target[i].id # Resolve(sec.k)[j]
    BY <1>3 DEF StackTyped, Staged
  <2>3. Rows(full)
    BY <1>1, <2>2, TargetFacts, LineageLists, MoreRows
  <2> HIDE DEF full
  <2>4. /\ sec' \in Sections /\ sec'.stage = "test"
        /\ sec'.op = sec.op /\ sec'.k = sec.k /\ sec'.pinned = sec.pinned
    BY <2>1, <2>3, SecIsTyped, StageTyped DEF Stages
  <2>5. TablesTyped' /\ Rows(applied')
    BY <1>2, TargetFacts, SecIsTyped DEF TablesTyped
  <2> QED
    BY <1>1, <1>2, <2>4, <2>5, TypedMove
<1>4. CASE sec.stage # "base"
  <2>1. Stage("restore", Exact(sec.pinned), FALSE)
    BY <1>4 DEF Answered
  <2> QED
    BY <1>1, <1>2, <2>1, TypedBack
<1> QED
  BY <1>3, <1>4

\* A verification stands on its candidate's own bases, without the candidate.
LEMMA StandsBelow ==
  ASSUME StackTyped, Standing, sec.stage = "below"
  PROVE  /\ sec.op = "verify" /\ sec.k \in Knowledge /\ Ids(applied) = Under[sec.k]
         /\ \A i \in 1..Len(applied) : applied[i].id # sec.k
<1>1. sec.op = "verify" /\ sec.k \in Knowledge /\ Ids(sec.target) = Under[sec.k]
  BY DEF StackTyped, Staged
<1>2. Ids(applied) = Under[sec.k]
  BY <1>1 DEF Standing
<1>3. \A i \in 1..Len(applied) : Ids(applied)[i] = applied[i].id /\ Len(Ids(applied)) = Len(applied)
  BY TargetFacts, RowsFacts
<1> QED
  BY <1>1, <1>2, <1>3, LineageLists

LEMMA TypedMark ==
  ASSUME StackTyped, Mark
  PROVE  StackTyped'
<1> DEFINE r == [id |-> sec.k, why |-> "verify"]
<1>1. sec.op = "verify" /\ r \in Row /\ \A i \in 1..Len(applied) : applied[i].id # r.id
  BY StandsBelow DEF Mark, Row
<1>2. applied' = Append(applied, r) /\ Stage("load", <<>>, FALSE) /\ UNCHANGED <<table, journal, restore, call, wanted>>
  BY DEF Mark, past
<1>3. r.id = sec.k
  OBVIOUS
<1> HIDE DEF r
<1>4. Rows(applied') /\ applied' # <<>> /\ Last(applied').id = sec.k
  BY <1>1, <1>2, <1>3, TargetFacts, AppendRows
<1>5. /\ sec' \in Sections /\ sec'.stage = "load"
      /\ sec'.op = sec.op /\ sec'.k = sec.k /\ sec'.pinned = sec.pinned
  BY <1>2, NoIds, SecIsTyped, StageTyped DEF Stages
<1>6. TablesTyped'
  BY <1>2, SecIsTyped DEF TablesTyped
<1> QED
  BY <1>1, <1>2, <1>4, <1>5, <1>6, TypedMove

\* While a candidate is measured its row is on top.
LEMMA OnTrial ==
  ASSUME StackTyped, sec.stage \in {"load", "measure", "unmark"}
  PROVE  /\ sec.op = "verify" /\ sec.k \in Knowledge /\ applied # <<>> /\ Last(applied).id = sec.k
         /\ Rows(applied)
BY TargetFacts DEF StackTyped, Staged

LEMMA TypedMeasure ==
  ASSUME StackTyped, Measure
  PROVE  StackTyped'
<1>1. sec.stage \in {"load", "measure"} /\ UNCHANGED <<applied, restore, call, wanted>>
  BY DEF Measure, past
<1>2. /\ sec.op = "verify" /\ sec.k \in Knowledge /\ applied' # <<>> /\ Last(applied').id = sec.k
      /\ Rows(applied') /\ TablesTyped /\ sec \in Sections
  BY <1>1, OnTrial, SecIsTyped
<1>3. CASE /\ journal' = [journal EXCEPT ![sec.k] = [c \in Writes[sec.k] |-> table[c]]]
           /\ table' = Written(sec.k, table) /\ Stage("measure", <<>>, FALSE)
  <2>1. TablesTyped'
    BY <1>2, <1>3, WrittenTyped, JournalsTyped
  <2>2. /\ sec' \in Sections /\ sec'.stage = "measure"
        /\ sec'.op = sec.op /\ sec'.k = sec.k /\ sec'.pinned = sec.pinned
    BY <1>2, <1>3, NoIds, StageTyped DEF Stages
  <2> QED
    BY <1>1, <1>2, <2>1, <2>2, TypedMove
<1>4. CASE sec.stage = "measure" /\ table' = Written(sec.k, table) /\ UNCHANGED <<journal, sec>>
  <2>1. TablesTyped'
    BY <1>2, <1>4, WrittenTyped, JournalsTyped
  <2> QED
    BY <1>1, <1>2, <1>4, <2>1, TypedMove
<1>5. CASE /\ table' = Undone(sec.k, table) /\ journal' = [journal EXCEPT ![sec.k] = None]
           /\ Stage("unmark", <<>>, FALSE)
  <2>1. TablesTyped'
    BY <1>2, <1>5, UndoneTyped, JournalsTyped
  <2>2. /\ sec' \in Sections /\ sec'.stage = "unmark"
        /\ sec'.op = sec.op /\ sec'.k = sec.k /\ sec'.pinned = sec.pinned
    BY <1>2, <1>5, NoIds, StageTyped DEF Stages
  <2>3. journal'[sec.k] = None
    BY <1>2, <1>5 DEF TablesTyped
  <2> QED
    BY <1>1, <1>2, <2>1, <2>2, <2>3, TypedMove
<1> QED
  BY <1>3, <1>4, <1>5 DEF Measure

\* The rows that are put back once the candidate's own row has gone.
LEMMA TypedUnmark ==
  ASSUME StackTyped, Unmark
  PROVE  /\ StackTyped'
         /\ sec'.stage = "restore" /\ sec'.op = sec.op /\ sec'.k = sec.k /\ sec'.pinned = sec.pinned
<1> DEFINE kept == {i \in DOMAIN applied : i < Len(applied)}
           row(i) == IF \E j \in kept : applied[j].id = sec.pinned[i]
                     THEN applied[CHOOSE j \in kept : applied[j].id = sec.pinned[i]]
                     ELSE [id |-> sec.pinned[i], why |-> "kept"]
           back == [i \in DOMAIN sec.pinned |-> row(i)]
<1>1. sec.stage = "unmark" /\ applied' = Front(applied) /\ UNCHANGED <<table, journal, restore, call, wanted>>
  BY DEF Unmark, past
<1>2. sec.op = "verify" /\ sec.k \in Knowledge /\ Rows(applied) /\ Rows(applied') /\ IdList(sec.pinned)
  BY <1>1, OnTrial, FrontRows, TargetFacts
<1>3. sec' = [sec EXCEPT !.stage = "restore", !.target = back]
  BY DEF Unmark
<1>4. ASSUME NEW i \in 1..Len(sec.pinned) PROVE row(i) \in Row /\ row(i).id = sec.pinned[i]
  <2>1. sec.pinned[i] \in Knowledge
    BY <1>2, ListFacts
  <2>2. CASE \E j \in kept : applied[j].id = sec.pinned[i]
    <3> DEFINE j == CHOOSE x \in kept : applied[x].id = sec.pinned[i]
    <3>1. j \in DOMAIN applied /\ applied[j].id = sec.pinned[i]
      BY <2>2
    <3>2. applied[j] \in Row
      BY <1>2, <3>1, RowsFacts
    <3> QED
      BY <2>2, <3>1, <3>2
  <2>3. CASE ~ \E j \in kept : applied[j].id = sec.pinned[i]
    <3>1. row(i) = [id |-> sec.pinned[i], why |-> "kept"]
      BY <2>3
    <3> QED
      BY <2>1, <3>1 DEF Row
  <2> QED
    BY <2>2, <2>3
<1>5. Rows(back) /\ Ids(back) = sec.pinned
  <2> HIDE DEF row
  <2>1. DOMAIN sec.pinned = 1..Len(sec.pinned)
    BY <1>2, ListFacts
  <2>2. back \in [1..Len(sec.pinned) -> Row] /\ \A i \in 1..Len(sec.pinned) : back[i].id = sec.pinned[i]
    BY <1>4, <2>1
  <2> HIDE DEF back
  <2> QED
    BY <1>2, <2>2, RowsFor
<1> HIDE DEF back
<1>6. /\ sec' \in Sections /\ sec'.stage = "restore" /\ sec'.target = back
      /\ sec'.op = sec.op /\ sec'.k = sec.k /\ sec'.pinned = sec.pinned
  <2>1. back \in RowLists
    BY <1>5, ListTypes
  <2> QED
    BY <1>3, <2>1, SecIsTyped DEF Sections, Stages
<1>7. TablesTyped'
  BY <1>1, SecIsTyped DEF TablesTyped
<1>8. StackTyped'
  BY <1>1, <1>2, <1>5, <1>6, <1>7, TypedMove
<1> QED
  BY <1>6, <1>8

LEMMA TypedRestored ==
  ASSUME StackTyped, Restored
  PROVE  StackTyped'
<1>1. UNCHANGED <<table, journal, applied, wanted>> /\ sec # Free /\ sec.stage = "restore"
  BY DEF Restored, Standing, Stacking
<1>2. TablesTyped' /\ Rows(applied') /\ IdList(wanted')
  BY <1>1, TargetFacts, SecIsTyped DEF TablesTyped
<1>3. CASE Leave /\ restore' = None
  <2>1. sec' = Free /\ call' \in [Callers -> Asked \union {Idle}]
        /\ \A c \in Callers : call'[c].op \in {"apply", "remove"} => call'[c].k \in Knowledge
    BY <1>3, StopTyped DEF Leave
  <2> QED
    BY <1>2, <1>3, <2>1, ListTypes, TypedFree
<1>4. CASE Stage("again", sec.target, TRUE) /\ UNCHANGED <<call, restore>>
  <2>1. /\ sec' \in Sections /\ sec'.stage = "again" /\ sec'.op = sec.op /\ sec'.k = sec.k
        /\ sec'.pinned = sec.pinned
    BY <1>4, SecIsTyped DEF Stage, Sections, Stages
  <2>2. sec.op # "idle"
    BY <1>1 DEF StackTyped, Staged
  <2> QED
    BY <1>1, <1>2, <1>4, <2>1, <2>2, TypedMove
<1> QED
  BY <1>3, <1>4 DEF Restored

\* A section that throws: it goes on to restore, or ends.
LEMMA TypedThrow ==
  ASSUME StackTyped, Throw
  PROVE  StackTyped'
<1>1. UNCHANGED <<table, journal, applied, wanted>>
  BY DEF Throw
<1>2. \/ /\ sec.op \in {"chat", "compare", "verify"} /\ Stage("restore", Exact(sec.pinned), FALSE)
         /\ UNCHANGED <<call, restore>>
      \/ Stop /\ (restore' = None \/ restore' = restore)
  BY DEF Throw
<1>3. CASE /\ sec.op \in {"chat", "compare", "verify"} /\ Stage("restore", Exact(sec.pinned), FALSE)
           /\ UNCHANGED <<call, restore>>
  BY <1>1, <1>3, TypedBack
<1>4. CASE Stop /\ (restore' = None \/ restore' = restore)
  <2>1. sec' = Free /\ call' \in [Callers -> Asked \union {Idle}]
        /\ \A c \in Callers : call'[c].op \in {"apply", "remove"} => call'[c].k \in Knowledge
    BY <1>4, StopTyped
  <2>2. TablesTyped' /\ Rows(applied') /\ IdList(wanted')
    BY <1>1, TargetFacts, SecIsTyped DEF TablesTyped
  <2>3. restore' \in IdLists \union {None}
    BY <1>4, TargetFacts
  <2> QED
    BY <2>1, <2>2, <2>3, ListTypes, TypedFree
<1> QED
  BY <1>2, <1>3, <1>4

LEMMA TypedOutside ==
  ASSUME StackTyped, ModelRestart \/ Boot \/ \E k \in Knowledge : Foreign(k)
  PROVE  StackTyped'
<1>1. UNCHANGED <<journal, applied, restore, call, sec, wanted>>
  BY DEF ModelRestart, Boot, Foreign, past
<1>2. table' \in [Cells -> Value]
  <2>1. CASE Boot
    BY <2>1, SecIsTyped DEF Boot, TablesTyped
  <2>2. CASE ModelRestart
    BY <2>2 DEF ModelRestart, Value
  <2>3. CASE \E k \in Knowledge : Foreign(k)
    BY <2>3, SecIsTyped, WrittenTyped DEF Foreign
  <2> QED
    BY <2>1, <2>2, <2>3
<1>3. TablesTyped'
  BY <1>1, <1>2, SecIsTyped DEF TablesTyped
<1>4. RowsTyped'
  BY <1>1 DEF StackTyped, RowsTyped
<1>5. Staged'
  BY <1>1 DEF StackTyped, Staged
<1> QED
  BY <1>3, <1>4, <1>5 DEF StackTyped

LEMMA TypedCrash ==
  ASSUME StackTyped, Crash
  PROVE  StackTyped' /\ sec' = Free
<1>1. sec' = Free /\ call' = [c \in Callers |-> Idle] /\ UNCHANGED <<restore, wanted>>
  BY DEF Crash, Down
<1>2. TablesTyped' /\ Rows(applied')
  <2>1. CASE UNCHANGED <<table, journal, applied>>
    BY <2>1, TargetFacts, SecIsTyped DEF TablesTyped
  <2>2. CASE Unwind(FALSE) \/ Load(FALSE)
    BY <2>2, TypedScripts
  <2> QED
    BY <2>1, <2>2 DEF Crash
<1>3. /\ call' \in [Callers -> Asked \union {Idle}]
      /\ \A c \in Callers : call'[c].op \in {"apply", "remove"} => call'[c].k \in Knowledge
  BY <1>1 DEF Idle
<1> QED
  BY <1>1, <1>2, <1>3, TargetFacts, ListTypes, TypedFree

LEMMA TypedNext ==
  ASSUME StackTyped, [StackNext]_stackVars
  PROVE  StackTyped'
<1>1. ASSUME NEW c \in Calls, NEW k \in Knowledge, AskApply(c, k) \/ AskRemove(c, k) PROVE StackTyped'
  BY <1>1, TypedAsk
<1>2. CASE \/ \E c \in Calls : EnterSection(c)
           \/ \E k \in Knowledge : EnterChat(k) \/ EnterVerify(k)
           \/ EnterWatchdog \/ EnterRecover
  BY <1>2, TypedEnters
<1>3. CASE Tick
  BY <1>3, TypedTick
<1>4. CASE Clear
  BY <1>4, TypedClear
<1>5. CASE Script
  BY <1>5, TypedScript
<1>6. CASE Done
  BY <1>6, TypedDone
<1>7. CASE Clean
  BY <1>7, TypedClean
<1>8. CASE Answered
  BY <1>8, TypedAnswered
<1>9. CASE Mark
  BY <1>9, TypedMark
<1>10. CASE Measure
  BY <1>10, TypedMeasure
<1>11. CASE Unmark
  BY <1>11, TypedUnmark
<1>12. CASE Restored
  BY <1>12, TypedRestored
<1>13. CASE Refuse \/ Fault
  BY <1>13, TypedThrow DEF Refuse, Fault
<1>14. CASE ModelRestart \/ Boot \/ \E k \in Knowledge : Foreign(k)
  BY <1>14, TypedOutside
<1>15. CASE Crash
  BY <1>15, TypedCrash
<1>16. CASE UNCHANGED stackVars
  BY <1>16 DEF stackVars, StackTyped, TablesTyped, RowsTyped, Staged
<1> QED
  BY <1>1, <1>2, <1>3, <1>4, <1>5, <1>6, <1>7, <1>8, <1>9, <1>10, <1>11, <1>12, <1>13, <1>14, <1>15, <1>16
     DEF StackNext, Within

\* Types: the table only ever holds what some body wrote or the model's own values,
\* every journal fits its body, and no stack, target or snapshot names a knowledge
\* twice, through every failed script and every stop of the node.
THEOREM StackTyping == StackSpec => []StackTyped
<1>1. StackInit => StackTyped
  BY TypedInit
<1>2. StackTyped /\ [StackNext]_stackVars => StackTyped'
  BY TypedNext
<1> QED
  BY <1>1, <1>2, PTL DEF StackSpec

-----------------------------------------------------------------------------
(* Journals belong to rows *)

\* Steps that leave the rows and the journals alone and begin no measurement.
LEMMA JournaledQuiet ==
  ASSUME Journaled, UNCHANGED <<journal, applied>>, hurt \subseteq hurt',
         sec'.stage # "load" \/ sec' = sec
  PROVE  Journaled'
<1>1. \A k : Loaded(k)' <=> Loaded(k)
  BY DEF Loaded
<1> QED
  BY <1>1 DEF Journaled

LEMMA JournaledEnter ==
  ASSUME StackTyped, Journaled,
         \/ \E c \in Calls : EnterSection(c)
         \/ \E k \in Knowledge : EnterChat(k) \/ EnterVerify(k)
         \/ EnterWatchdog \/ EnterRecover
  PROVE  Journaled'
<1>1. UNCHANGED <<journal, applied>>
  BY DEF EnterSection, EnterChat, EnterVerify, EnterWatchdog, EnterRecover
<1>2. hurt \subseteq hurt'
  <2>1. hurt' = hurt \/ hurt' = Over
    BY DEF EnterSection, EnterChat, EnterVerify, EnterWatchdog, EnterRecover, past
  <2> QED
    BY <2>1 DEF Over
<1>3. sec' = sec \/ sec'.stage \in {"stack", "clean", "below"}
  <2>1. ASSUME NEW c \in Calls, EnterSection(c) PROVE sec'.stage = "stack"
    BY <2>1 DEF EnterSection, Section
  <2>2. ASSUME NEW k \in Knowledge, EnterChat(k) PROVE sec'.stage = "clean"
    BY <2>2 DEF EnterChat, Section
  <2>3. ASSUME NEW k \in Knowledge, EnterVerify(k) PROVE sec'.stage = "below"
    BY <2>3 DEF EnterVerify, Section
  <2>4. CASE EnterWatchdog
    BY <2>4 DEF EnterWatchdog, Section
  <2>5. CASE EnterRecover
    BY <2>5 DEF EnterRecover, Section
  <2> QED
    BY <2>1, <2>2, <2>3, <2>4, <2>5
<1> QED
  BY <1>1, <1>2, <1>3, JournaledQuiet

LEMMA JournaledClear ==
  ASSUME StackTyped, Journaled, Clear
  PROVE  Journaled'
<1>1. /\ journal' = [k \in Knowledge |-> IF Loaded(k) THEN None ELSE journal[k]]
      /\ sec'.stage # "load" /\ (hurt' \subseteq {"restart"} => hurt \subseteq {"restart"})
  <2>1. sec \in Sections /\ sec.stage # "load" /\ sec' = [sec EXCEPT !.rebuild = FALSE]
    BY SecIsTyped DEF Clear, Stacking
  <2>2. sec'.stage = sec.stage
    BY <2>1 DEF Sections
  <2>3. hurt' = hurt \union {"discarded"} \/ hurt = {"restart"} \/ hurt' = hurt
    BY DEF Clear
  <2> QED
    BY <2>1, <2>2, <2>3 DEF Clear
<1>2. ASSUME hurt' \subseteq {"restart"}, NEW k \in Knowledge PROVE journal'[k] = None
  <2>1. journal[k] # None => Loaded(k)
    BY <1>1, <1>2 DEF Journaled
  <2> QED
    BY <1>1, <2>1
<1> QED
  BY <1>1, <1>2 DEF Journaled

\* Without its top row, whose journal is gone, every journal still has its row.
LEMMA JournaledFront ==
  ASSUME StackTyped, Journaled, applied # <<>>, hurt \subseteq hurt', sec'.stage # "load",
         applied' = Front(applied), journal'[Last(applied).id] = None,
         \A k \in Knowledge : k # Last(applied).id => journal'[k] = journal[k]
  PROVE  Journaled'
<1>1. /\ DOMAIN applied = 1..Len(applied) /\ Len(applied) - 1 \in Nat
      /\ Last(applied) = applied[Len(applied)] /\ Last(applied).id \in Knowledge
      /\ Rows(Front(applied)) /\ Len(Front(applied)) = Len(applied) - 1
      /\ \A i \in 1..(Len(applied) - 1) : Front(applied)[i] = applied[i]
  BY TargetFacts, RowsFacts, FrontRows
<1>2. DOMAIN applied' = 1..(Len(applied) - 1)
  BY <1>1, RowsFacts
<1>3. ASSUME hurt' \subseteq {"restart"}, NEW k \in Knowledge, journal'[k] # None PROVE Loaded(k)'
  <2>1. k # Last(applied).id /\ journal[k] # None
    BY <1>3
  <2>2. PICK i \in DOMAIN applied : applied[i].id = k
    BY <1>3, <2>1 DEF Journaled, Loaded
  <2>3. i \in 1..(Len(applied) - 1)
    BY <1>1, <2>1, <2>2
  <2>4. applied'[i].id = k /\ i \in DOMAIN applied'
    BY <1>1, <1>2, <2>2, <2>3
  <2> QED
    BY <2>4 DEF Loaded
<1> QED
  BY <1>3 DEF Journaled

\* With a row on top, its journal taken or still missing.
LEMMA JournaledAppend ==
  ASSUME StackTyped, Journaled, hurt \subseteq hurt',
         NEW r \in Row, \A i \in 1..Len(applied) : applied[i].id # r.id, applied' = Append(applied, r),
         \A k \in Knowledge : k # r.id => journal'[k] = journal[k],
         sec'.stage = "load" => journal'[sec'.k] = None
  PROVE  Journaled'
<1>1. /\ DOMAIN applied = 1..Len(applied) /\ Len(applied) \in Nat /\ Rows(applied)
  BY TargetFacts, RowsFacts
<1>2. /\ Rows(applied') /\ Len(applied') = Len(applied) + 1
      /\ \A i \in 1..Len(applied) : applied'[i] = applied[i]
      /\ applied'[Len(applied) + 1] = r
  BY <1>1, AppendRows
<1>3. DOMAIN applied' = 1..(Len(applied) + 1)
  BY <1>2, RowsFacts
<1>4. ASSUME hurt' \subseteq {"restart"}, NEW k \in Knowledge, journal'[k] # None PROVE Loaded(k)'
  <2>1. CASE k = r.id
    <3>1. Len(applied) + 1 \in DOMAIN applied' /\ applied'[Len(applied) + 1].id = k
      BY <1>1, <1>2, <1>3, <2>1
    <3> QED
      BY <3>1 DEF Loaded
  <2>2. CASE k # r.id
    <3>1. PICK i \in DOMAIN applied : applied[i].id = k
      BY <1>4, <2>2 DEF Journaled, Loaded
    <3>2. i \in DOMAIN applied' /\ applied'[i].id = k
      BY <1>1, <1>2, <1>3, <3>1
    <3> QED
      BY <3>2 DEF Loaded
  <2> QED
    BY <2>1, <2>2
<1> QED
  BY <1>4 DEF Journaled

LEMMA JournaledScript ==
  ASSUME StackTyped, Journaled, Script
  PROVE  Journaled'
<1>1. UNCHANGED <<sec, hurt>> /\ sec.stage # "load"
  BY DEF Script, past, Unwind, Load, Stacking
<1>2. CASE Unwind(TRUE)
  <2>1. applied # <<>>
    BY <1>2, NotKept DEF Unwind
  <2>2. applied' = Front(applied) /\ journal' = [journal EXCEPT ![Last(applied).id] = None]
    BY <1>2 DEF Unwind
  <2>3. DOMAIN journal = Knowledge /\ Last(applied).id \in Knowledge
    BY <2>1, TargetFacts, FrontRows, SecIsTyped DEF TablesTyped
  <2>4. /\ journal'[Last(applied).id] = None
        /\ \A k \in Knowledge : k # Last(applied).id => journal'[k] = journal[k]
    BY <2>2, <2>3
  <2> QED
    BY <1>1, <2>1, <2>2, <2>4, JournaledFront
<1>3. CASE Load(TRUE)
  <2> DEFINE next == sec.target[Len(applied) + 1]
  <2>1. next \in Row /\ next.id \in Knowledge /\ \A i \in 1..Len(applied) : applied[i].id # next.id
    BY <1>3, NextRow DEF Load
  <2>2. /\ journal' = [journal EXCEPT ![next.id] = [c \in Writes[next.id] |-> table[c]]]
        /\ applied' = Append(applied, next)
    BY <1>3 DEF Load
  <2> HIDE DEF next
  <2>3. \A k \in Knowledge : k # next.id => journal'[k] = journal[k]
    BY <2>2, SecIsTyped DEF TablesTyped
  <2> QED
    BY <1>1, <2>1, <2>2, <2>3, JournaledAppend
<1> QED
  BY <1>2, <1>3 DEF Script

LEMMA JournaledMark ==
  ASSUME StackTyped, Journaled, Mark
  PROVE  Journaled'
<1> DEFINE r == [id |-> sec.k, why |-> "verify"]
<1>1. r \in Row /\ sec.k \in Knowledge /\ \A i \in 1..Len(applied) : applied[i].id # sec.k
  BY StandsBelow DEF Mark, Row
<1>2. applied' = Append(applied, r) /\ UNCHANGED <<journal, hurt>> /\ Stage("load", <<>>, FALSE)
  BY DEF Mark, past
<1>3. r.id = sec.k
  OBVIOUS
<1> HIDE DEF r
<1>4. sec'.k = sec.k
  BY <1>2, NoIds, SecIsTyped, StageTyped DEF Stages
<1>5. ~Loaded(sec.k)
  BY <1>1, TargetFacts, RowsFacts DEF Loaded
<1>6. CASE hurt \subseteq {"restart"}
  <2>1. journal'[sec'.k] = None
    BY <1>1, <1>2, <1>4, <1>5, <1>6 DEF Journaled
  <2> QED
    BY <1>1, <1>2, <1>3, <2>1, JournaledAppend
<1>7. CASE ~ (hurt \subseteq {"restart"})
  BY <1>2, <1>7 DEF Journaled
<1> QED
  BY <1>6, <1>7

LEMMA JournaledMeasure ==
  ASSUME StackTyped, Journaled, Measure
  PROVE  Journaled'
<1>1. sec.stage \in {"load", "measure"} /\ UNCHANGED <<applied, hurt>>
  BY DEF Measure, past
<1>2. /\ sec.k \in Knowledge /\ applied # <<>> /\ Last(applied).id = sec.k /\ Rows(applied)
  BY <1>1, OnTrial
<1>3. Loaded(sec.k)
  <2>1. Len(applied) \in DOMAIN applied /\ applied[Len(applied)].id = sec.k
    BY <1>2, RowsFacts, FrontRows
  <2> QED
    BY <2>1 DEF Loaded
<1>4. /\ \A k \in Knowledge : k # sec.k => journal'[k] = journal[k]
      /\ sec'.stage # "load"
  <2>1. (sec.stage = "measure" /\ UNCHANGED <<journal, sec>>) \/ Stage("measure", <<>>, FALSE) \/ Stage("unmark", <<>>, FALSE)
    BY DEF Measure
  <2>2. sec'.stage # "load"
    BY <2>1, NoIds, SecIsTyped, StageTyped DEF Stages
  <2>3. DOMAIN journal = Knowledge
    BY SecIsTyped DEF TablesTyped
  <2>4. \/ journal' = journal \/ journal' = [journal EXCEPT ![sec.k] = None]
        \/ journal' = [journal EXCEPT ![sec.k] = [c \in Writes[sec.k] |-> table[c]]]
    BY DEF Measure
  <2> QED
    BY <2>2, <2>3, <2>4
<1>5. \A k : Loaded(k)' <=> Loaded(k)
  BY <1>1 DEF Loaded
<1> QED
  BY <1>1, <1>3, <1>4, <1>5 DEF Journaled

LEMMA JournaledNext ==
  ASSUME StackTyped, Journaled, [StackNext]_stackVars
  PROVE  Journaled'
<1>1. ASSUME NEW c \in Calls, NEW k \in Knowledge, AskApply(c, k) \/ AskRemove(c, k) PROVE Journaled'
  BY <1>1, JournaledQuiet DEF AskApply, AskRemove, Decide
<1>2. CASE \/ \E c \in Calls : EnterSection(c)
           \/ \E k \in Knowledge : EnterChat(k) \/ EnterVerify(k)
           \/ EnterWatchdog \/ EnterRecover
  BY <1>2, JournaledEnter
<1>3. CASE Tick \/ Boot \/ UNCHANGED stackVars
  BY <1>3, JournaledQuiet DEF Tick, Boot, past, stackVars
<1>4. CASE Clear
  BY <1>4, JournaledClear
<1>5. CASE Script
  BY <1>5, JournaledScript
<1>6. CASE Done
  BY <1>6, JournaledQuiet, FreeTyped DEF Done, Leave, Stop
<1>7. CASE Clean
  <2>1. UNCHANGED <<journal, applied, hurt>> /\ sec'.stage \in {"base", "test"}
    BY <1>7, SecIsTyped DEF Clean, past, Stage, Sections
  <2> QED
    BY <2>1, JournaledQuiet
<1>8. CASE Answered
  <2>1. UNCHANGED <<journal, applied, hurt>> /\ sec'.stage \in {"test", "restore"}
    BY <1>8, SecIsTyped DEF Answered, past, Stage, Sections
  <2> QED
    BY <2>1, JournaledQuiet
<1>9. CASE Mark
  BY <1>9, JournaledMark
<1>10. CASE Measure
  BY <1>10, JournaledMeasure
<1>11. CASE Unmark
  <2>1. /\ sec.stage = "unmark" /\ applied' = Front(applied) /\ UNCHANGED <<journal, hurt>>
        /\ sec'.stage = "restore"
    BY <1>11, TypedUnmark DEF Unmark, past
  <2>2. applied # <<>> /\ Last(applied).id = sec.k /\ journal[sec.k] = None
    BY <2>1, OnTrial DEF StackTyped, Staged
  <2> QED
    BY <2>1, <2>2, JournaledFront
<1>12. CASE Restored
  <2>1. UNCHANGED <<journal, applied, hurt>> /\ sec'.stage \in {"again", "free"}
    BY <1>12, SecIsTyped, FreeTyped DEF Restored, Leave, Stop, Stage, Sections
  <2> QED
    BY <2>1, JournaledQuiet
<1>13. CASE Refuse \/ Fault
  <2>1. UNCHANGED <<journal, applied>> /\ hurt \subseteq hurt' /\ sec'.stage \in {"restore", "free"}
    BY <1>13, SecIsTyped, FreeTyped DEF Refuse, Fault, Throw, Stop, Stage, Sections
  <2> QED
    BY <2>1, JournaledQuiet
<1>14. CASE ModelRestart \/ \E k \in Knowledge : Foreign(k)
  BY <1>14, JournaledQuiet DEF ModelRestart, Foreign
<1>15. CASE Crash
  <2>1. sec'.stage = "free"
    BY <1>15, TypedCrash, FreeTyped
  <2>2. CASE "cut" \in hurt'
    BY <2>2 DEF Journaled
  <2>3. CASE "cut" \notin hurt'
    BY <1>15, <2>1, <2>3, JournaledQuiet DEF Crash
  <2> QED
    BY <2>2, <2>3
<1> QED
  BY <1>1, <1>2, <1>3, <1>4, <1>5, <1>6, <1>7, <1>8, <1>9, <1>10, <1>11, <1>12, <1>13, <1>14, <1>15
     DEF StackNext, Within

-----------------------------------------------------------------------------
(* The rows are right about the table *)

LEMMA NoGhost ==
  ASSUME Served, hurt = {}, sec.stage \notin {"load", "unmark", "restore"}
  PROVE  Consistent
BY DEF Served, Ghost

\* A right stack whose rows and tables stay is right still.
LEMMA StaysRight ==
  ASSUME Consistent, UNCHANGED <<table, journal, applied>>
  PROVE  Consistent'
BY DEF Consistent, Right

LEMMA ServedRight ==
  ASSUME hurt' = {} => Consistent', sec'.stage \notin {"load", "unmark", "clean"}
  PROVE  Served'
BY DEF Served

\* The top of a right stack is on the table.
LEMMA TopIsOn ==
  ASSUME StackTyped, Consistent, applied # <<>>
  PROVE  OnTable(Last(applied).id) /\ journal[Last(applied).id] # None
<1> DEFINE ids == Ids(applied)  n == Len(applied)
<1>1. n \in Nat /\ n \in 1..n /\ ids[n] = Last(applied).id /\ Last(applied).id \in Knowledge
  BY TargetFacts, RowsFacts, FrontRows
<1>2. Right(ids, n, table, journal)
  BY DEF Consistent
<1>3. \A i \in 1..n : ids[i] \in Knowledge
  BY TargetFacts, RowsFacts
<1> HIDE DEF ids, n
<1>4. ASSUME NEW c \in Writes[ids[n]] PROVE table[c] = ids[n]
  <2>1. c \in Cells
    BY <1>1, StackAssumption DEF StackAssumption
  <2>2. Shows(ids, n, c, table[c])
    BY <1>2, <2>1 DEF Right
  <2>3. PICK i \in 1..n : table[c] = ids[i] /\ \A j \in (i + 1)..n : c \notin Writes[ids[j]]
    BY <1>1, <2>2 DEF Shows
  <2>4. ~ (n \in (i + 1)..n)
    BY <2>3
  <2>5. i = n
    BY <1>1, <2>4
  <2> QED
    BY <2>3, <2>5
<1>5. journal[ids[n]] # None
  BY <1>1, <1>2 DEF Right
<1> QED
  BY <1>1, <1>4, <1>5 DEF OnTable

\* Only what is loaded shows on the table of a right stack.
LEMMA OnlyLoadedShows ==
  ASSUME StackTyped, Consistent, NEW d \in Knowledge, ~Loaded(d), OnTable(d)
  PROVE  Writes[d] = {}
<1> SUFFICES ASSUME NEW c \in Writes[d] PROVE FALSE
  OBVIOUS
<1> DEFINE ids == Ids(applied)  n == Len(applied)
<1>1. DOMAIN applied = 1..n /\ \A i \in 1..n : ids[i] = applied[i].id
  BY TargetFacts, RowsFacts
<1>2. c \in Cells /\ d # Base /\ table[c] = d
  BY StackAssumption DEF StackAssumption, OnTable
<1>3. Shows(ids, n, c, d)
  BY <1>2 DEF Consistent, Right
<1>4. PICK i \in 1..n : d = ids[i]
  BY <1>2, <1>3 DEF Shows
<1> QED
  BY <1>1, <1>4 DEF Loaded

\* The row of a body that is off the table goes.
LEMMA FrontRight ==
  ASSUME StackTyped, applied # <<>>, applied' = Front(applied),
         Right(Ids(applied), Len(applied) - 1, table', journal')
  PROVE  Consistent'
<1> DEFINE ids == Ids(applied)  n == Len(applied) - 1  other == Ids(applied')
<1>1. Rows(applied) /\ Rows(applied')
  BY TargetFacts, FrontRows
<1>2. n \in Nat /\ Len(applied') = n /\ \A i \in 1..n : applied'[i] = applied[i] /\ i \in 1..Len(applied)
  BY <1>1, FrontRows
<1>3. \A i \in 1..n : other[i] = ids[i]
  <2>1. \A i \in 1..Len(applied) : ids[i] = applied[i].id
    BY <1>1, RowsFacts
  <2>2. \A i \in 1..Len(applied') : other[i] = applied'[i].id
    BY <1>1, RowsFacts
  <2> HIDE DEF ids, other
  <2> QED
    BY <1>2, <2>1, <2>2
<1>4. Right(ids, n, table', journal')
  OBVIOUS
<1> HIDE DEF ids, n, other
<1>5. Right(other, n, table', journal')
  BY <1>2, <1>3, <1>4, RightSame
<1> QED
  BY <1>2, <1>5 DEF Consistent, other

\* The top body comes off the table through its journal.
LEMMA TakenOff ==
  ASSUME StackTyped, Consistent, applied # <<>>, table' = Undone(Last(applied).id, table),
         journal' = [journal EXCEPT ![Last(applied).id] = None]
  PROVE  Right(Ids(applied), Len(applied) - 1, table', journal')
<1> DEFINE ids == Ids(applied)  n == Len(applied) - 1  k == Last(applied).id
<1>1. /\ n \in Nat /\ n + 1 = Len(applied) /\ ids[n + 1] = k /\ k \in Knowledge
      /\ \A i \in 1..n : ids[i] # k /\ ids[i] \in Knowledge
  <2>1. Rows(applied) /\ Len(applied) - 1 \in Nat /\ Len(applied) \in 1..Len(applied)
    BY TargetFacts, FrontRows
  <2>2. n \in Nat /\ n + 1 = Len(applied) /\ \A i \in 1..n : i \in 1..Len(applied)
    BY <2>1
  <2>3. /\ \A i \in 1..Len(applied) : ids[i] = applied[i].id /\ applied[i].id \in Knowledge
        /\ Last(applied) = applied[Len(applied)] /\ \A i \in 1..n : applied[i].id # k
    BY <2>1, RowsFacts, FrontRows
  <2> QED
    BY <2>1, <2>2, <2>3
<1>2. Right(ids, n + 1, table, journal)
  BY <1>1 DEF Consistent
<1>3. journal[k] # None /\ DOMAIN journal = Knowledge
  BY TopIsOn, SecIsTyped DEF TablesTyped
<1>4. table' = Undone(k, table) /\ journal' = [journal EXCEPT ![k] = None]
  OBVIOUS
<1> HIDE DEF ids, n, k
<1>5. Taken(ids, n, table, journal, table', journal')
  <2>1. \A c \in Cells : table'[c] = IF c \in Writes[k] THEN journal[k][c] ELSE table[c]
    BY <1>3, <1>4 DEF Undone
  <2>2. \A i \in 1..n : journal'[ids[i]] = journal[ids[i]]
    BY <1>1, <1>3, <1>4
  <2> QED
    BY <1>1, <2>1, <2>2 DEF Taken
<1>6. Right(ids, n, table', journal')
  BY <1>1, <1>2, <1>5, RightTake
<1> QED
  BY <1>6 DEF ids, n

\* A marked body that never got on the table is written over with what it says was there.
LEMMA GhostGoes ==
  ASSUME StackTyped, Half, table' = Undone(sec.k, table), journal' = [journal EXCEPT ![sec.k] = None]
  PROVE  Right(Ids(applied), Len(applied) - 1, table', journal')
<1> DEFINE ids == Ids(applied)  n == Len(applied) - 1  k == sec.k
<1>1. /\ applied # <<>> /\ Last(applied).id = k /\ journal[k] = None
      /\ Right(ids, n, table, journal) /\ \A c \in Writes[k] : Shows(ids, n, c, Before(k, c))
  BY DEF Half
<1>2. Rows(applied)
  BY TargetFacts
<1>3. \A i \in 1..n : i \in 1..Len(applied) /\ applied[i].id # k
  BY <1>1, <1>2, FrontRows
<1>4. \A i \in 1..n : ids[i] # k /\ ids[i] \in Knowledge
  BY <1>2, <1>3, RowsFacts
<1>5. table' = Undone(k, table) /\ journal' = [journal EXCEPT ![k] = None] /\ DOMAIN journal = Knowledge
  BY SecIsTyped DEF TablesTyped
<1> HIDE DEF ids, n, k
<1>6. ASSUME NEW c \in Cells PROVE Shows(ids, n, c, table'[c])
  <2>1. table'[c] = IF c \in Writes[k] THEN Before(k, c) ELSE table[c]
    BY <1>1, <1>5 DEF Undone
  <2> QED
    BY <1>1, <2>1 DEF Right
<1>7. \A i \in 1..n : journal'[ids[i]] = journal[ids[i]]
  BY <1>4, <1>5
<1>8. Right(ids, n, table', journal')
  BY <1>1, <1>6, <1>7 DEF Right
<1> QED
  BY <1>8 DEF ids, n

\* While a marked row without its body is there, nothing is loaded and nothing stands.
LEMMA GhostIsInTheWay ==
  ASSUME StackTyped, Ghost
  PROVE  ~Kept /\ Ids(applied) # Ids(sec.target)
<1>1. /\ Rows(applied) /\ Rows(sec.target) /\ IdList(sec.pinned) /\ applied # <<>> /\ Last(applied).id = sec.k
      /\ Ids(sec.target) = sec.pinned /\ ~Contains(sec.pinned, sec.k)
  BY TargetFacts DEF Ghost, Half, StackTyped, Staged
<1>2. Len(applied) \in 1..Len(applied) /\ Last(applied) = applied[Len(applied)] /\ Len(applied) \in Nat
  BY <1>1, FrontRows
<1>3. \A i \in 1..Len(sec.target) : sec.target[i].id # sec.k
  <2>1. Len(sec.target) = Len(sec.pinned) /\ \A i \in 1..Len(sec.target) : sec.pinned[i] = sec.target[i].id
    BY <1>1, RowsFacts
  <2> QED
    BY <1>1, <2>1 DEF Contains
<1>4. ASSUME Kept PROVE FALSE
  <2>1. Len(applied) <= Len(sec.target) /\ \A i \in 1..Len(applied) : applied[i].id = sec.target[i].id
    BY <1>1, <1>4, KeptRows DEF Kept
  <2>2. Len(applied) \in 1..Len(sec.target) /\ Len(sec.target) \in Nat
    BY <1>1, <1>2, <2>1, RowsFacts
  <2> QED
    BY <1>1, <1>2, <1>3, <2>1, <2>2
<1>5. ASSUME Ids(applied) = Ids(sec.target) PROVE FALSE
  <2>1. Len(applied) = Len(sec.target) /\ \A i \in 1..Len(applied) : applied[i].id = sec.target[i].id
    BY <1>1, <1>5, RowsFacts
  <2> QED
    BY <1>1, <1>2, <1>3, <2>1
<1> QED
  BY <1>4, <1>5

LEMMA ServedUnwind ==
  ASSUME StackTyped, Served, Unwind(TRUE), UNCHANGED <<sec, hurt>>
  PROVE  Served'
<1>1. applied # <<>> /\ sec.stage \notin {"load", "unmark", "clean"}
  BY NotKept DEF Unwind, Stacking
<1>2. /\ table' = Undone(Last(applied).id, table) /\ applied' = Front(applied)
      /\ journal' = [journal EXCEPT ![Last(applied).id] = None]
  BY DEF Unwind
<1>3. ASSUME hurt = {} PROVE Consistent'
  <2>1. Consistent \/ Ghost
    BY <1>1, <1>3 DEF Served
  <2>2. CASE Consistent
    BY <1>1, <1>2, <2>2, TakenOff, FrontRight
  <2>3. CASE Ghost
    <3>1. Half /\ Last(applied).id = sec.k
      BY <2>3 DEF Ghost, Half
    <3> QED
      BY <1>1, <1>2, <3>1, GhostGoes, FrontRight
  <2> QED
    BY <2>1, <2>2, <2>3
<1> QED
  BY <1>1, <1>3, ServedRight

\* A body that is loaded on top of a right stack.
LEMMA PutOn ==
  ASSUME TablesTyped, NEW ids, IdList(ids), NEW n \in Nat, n + 1 \in 1..Len(ids),
         Right(ids, n, table, journal), table' = Written(ids[n + 1], table),
         journal' = [journal EXCEPT ![ids[n + 1]] = [c \in Writes[ids[n + 1]] |-> table[c]]]
  PROVE  Right(ids, n + 1, table', journal')
<1>1. /\ \A i \in 1..Len(ids) : ids[i] \in Knowledge /\ Len(ids) \in Nat
      /\ \A i, j \in 1..Len(ids) : ids[i] = ids[j] => i = j
  BY ListFacts
<1>2. ids[n + 1] \in Knowledge /\ \A i \in 1..n : ids[i] \in Knowledge /\ ids[i] # ids[n + 1]
  BY <1>1
<1> DEFINE k == ids[n + 1]  shown == [c \in Writes[k] |-> table[c]]
<1>3. journal' = [journal EXCEPT ![k] = shown] /\ DOMAIN journal = Knowledge /\ table' = Written(k, table)
  BY DEF TablesTyped
<1>4. shown # None /\ \A c \in Writes[k] : shown[c] = table[c]
  BY <1>2, TakenIsSome
<1> HIDE DEF shown
<1>5. journal'[k] = shown /\ \A i \in 1..n : journal'[ids[i]] = journal[ids[i]]
  BY <1>2, <1>3
<1>6. \A c \in Cells : table'[c] = IF c \in Writes[k] THEN k ELSE table[c]
  BY <1>3 DEF Written
<1>7. Put(ids, n, table, journal, table', journal')
  BY <1>4, <1>5, <1>6 DEF Put
<1> QED
  BY <1>7, RightPut

LEMMA ServedLoad ==
  ASSUME StackTyped, Served, Load(TRUE), UNCHANGED <<sec, hurt>>
  PROVE  Served'
<1> DEFINE next == sec.target[Len(applied) + 1]
           ids == Ids(applied')
           n == Len(applied)
<1>1. /\ next \in Row /\ \A i \in 1..Len(applied) : applied[i].id # next.id
      /\ Kept /\ sec.stage \notin {"load", "unmark", "clean"} /\ Rows(applied)
  BY NextRow, TargetFacts DEF Load, Stacking
<1>2. /\ table' = Written(next.id, table) /\ applied' = Append(applied, next)
      /\ journal' = [journal EXCEPT ![next.id] = [c \in Writes[next.id] |-> table[c]]]
  BY DEF Load
<1> HIDE DEF next
<1>3. /\ Rows(applied') /\ Len(applied') = n + 1 /\ n \in Nat
      /\ \A i \in 1..n : applied'[i] = applied[i]
  BY <1>1, <1>2, AppendRows, RowsFacts
<1>4. applied'[n + 1] = next
  BY <1>1, <1>2, AppendRows
<1>5. /\ IdList(ids) /\ Len(ids) = n + 1 /\ n + 1 \in 1..Len(ids) /\ ids[n + 1] = next.id
      /\ \A i \in 1..n : ids[i] = Ids(applied)[i]
  <2>1. \A i \in 1..(n + 1) : ids[i] = applied'[i].id
    BY <1>3, RowsFacts
  <2>2. \A i \in 1..n : Ids(applied)[i] = applied[i].id
    BY <1>1, RowsFacts
  <2>3. IdList(ids) /\ Len(ids) = n + 1
    BY <1>3, RowsFacts
  <2> HIDE DEF ids
  <2> QED
    BY <1>3, <1>4, <2>1, <2>2, <2>3
<1>6. ASSUME hurt = {} PROVE Consistent'
  <2>1. Consistent
    BY <1>1, <1>6, GhostIsInTheWay DEF Served
  <2>2. Right(Ids(applied), n, table, journal)
    BY <2>1 DEF Consistent
  <2> HIDE DEF ids
  <2>3. Right(ids, n, table, journal)
    BY <1>3, <1>5, <2>2, RightSame
  <2>4. /\ table' = Written(ids[n + 1], table)
        /\ journal' = [journal EXCEPT ![ids[n + 1]] = [c \in Writes[ids[n + 1]] |-> table[c]]]
    BY <1>2, <1>5
  <2>5. Right(ids, n + 1, table', journal')
    BY <1>3, <1>5, <2>3, <2>4, SecIsTyped, PutOn
  <2> QED
    BY <1>3, <2>5 DEF Consistent, ids
<1> QED
  BY <1>1, <1>6, ServedRight

LEMMA ServedClear ==
  ASSUME StackTyped, Served, Clear
  PROVE  Served'
<1>1. sec'.stage = sec.stage /\ sec.stage \notin {"load", "unmark", "clean"}
  BY SecIsTyped DEF Clear, Stacking, Sections
<1>2. ASSUME hurt' = {} PROVE Consistent'
  <2>1. table = [c \in Cells |-> Base] /\ table' = table /\ applied' = <<>>
    BY <1>2 DEF Clear
  <2>2. Ids(applied') = <<>> /\ Len(applied') = 0
    BY <2>1, NoIds
  <2>3. ASSUME NEW c \in Cells PROVE Shows(<<>>, 0, c, table'[c])
    BY <2>1 DEF Shows
  <2>4. Right(<<>>, 0, table', journal')
    BY <2>3 DEF Right
  <2> QED
    BY <2>2, <2>4 DEF Consistent
<1> QED
  BY <1>1, <1>2, ServedRight

\* A section that starts on a right stack.
LEMMA ServedEnter ==
  ASSUME StackTyped, Served,
         \/ \E c \in Calls : EnterSection(c)
         \/ \E k \in Knowledge : EnterChat(k) \/ EnterVerify(k)
         \/ EnterWatchdog \/ EnterRecover
  PROVE  Served'
<1>1. UNCHANGED <<table, journal, applied>> /\ sec = Free
  BY DEF EnterSection, EnterChat, EnterVerify, EnterWatchdog, EnterRecover
<1>2. hurt' = {} => hurt = {}
  <2>1. hurt' = hurt \/ hurt' = Over
    BY DEF EnterSection, EnterChat, EnterVerify, EnterWatchdog, EnterRecover, past
  <2> QED
    BY <2>1 DEF Over
<1>3. hurt' = {} => Consistent /\ Consistent'
  BY <1>1, <1>2, FreeTyped, NoGhost, StaysRight
<1>4. ASSUME NEW c \in Calls, EnterSection(c) PROVE sec'.stage = "stack"
  BY <1>4 DEF EnterSection, Section
<1>5. ASSUME NEW k \in Knowledge, EnterVerify(k) PROVE sec'.stage = "below"
  BY <1>5 DEF EnterVerify, Section
<1>6. CASE EnterWatchdog \/ EnterRecover
  <2>1. sec'.stage = "stack" \/ sec' = Free
    BY <1>1, <1>6 DEF EnterWatchdog, EnterRecover, Section
  <2> QED
    BY <1>3, <2>1, FreeTyped, ServedRight
<1>7. ASSUME NEW k \in Knowledge, EnterChat(k) PROVE Served'
  <2>1. sec'.stage = "clean" /\ sec'.dirty = {d \in Range(Resolve(k)) : ~Loaded(d) /\ OnTable(d)}
    BY <1>7 DEF EnterChat, Section
  <2>2. Range(Resolve(k)) \subseteq Knowledge
    BY LineageLists, ListFacts DEF Range
  <2>3. hurt' = {} => \A d \in sec'.dirty : Writes[d] = {}
    BY <1>3, <2>1, <2>2, OnlyLoadedShows
  <2> QED
    BY <1>3, <2>1, <2>3 DEF Served
<1> QED
  BY <1>3, <1>4, <1>5, <1>6, <1>7, ServedRight

LEMMA ServedClean ==
  ASSUME StackTyped, Served, Clean
  PROVE  Served'
<1>1. sec.stage = "clean" /\ UNCHANGED <<journal, applied, hurt>> /\ sec'.stage \in {"base", "test"}
  BY SecIsTyped DEF Clean, past, Stage, Sections
<1>2. ASSUME hurt = {} PROVE Consistent'
  <2>1. Consistent /\ \A d \in sec.dirty : Writes[d] = {}
    BY <1>1, <1>2, NoGhost DEF Served
  <2>2. table' = table
    <3>1. table' = [c \in Cells |-> table[c]]
      BY <2>1 DEF Clean
    <3>2. table \in [Cells -> Value]
      BY SecIsTyped DEF TablesTyped
    <3> QED
      BY <3>1, <3>2
  <2> QED
    BY <1>1, <2>1, <2>2, StaysRight
<1> QED
  BY <1>1, <1>2, ServedRight

LEMMA ServedMark ==
  ASSUME StackTyped, Journaled, Served, Mark
  PROVE  Served'
<1> DEFINE r == [id |-> sec.k, why |-> "verify"]  ids == Ids(applied')  n == Len(applied)
<1>1. /\ sec.k \in Knowledge /\ Ids(applied) = Under[sec.k] /\ r \in Row /\ Rows(applied) /\ n \in Nat
      /\ \A i \in 1..n : applied[i].id # sec.k
  BY StandsBelow, TargetFacts DEF Mark, Row
<1>2. applied' = Append(applied, r) /\ UNCHANGED <<table, journal, hurt>> /\ sec.stage = "below"
  BY DEF Mark, past
<1>3. r.id = sec.k
  OBVIOUS
<1>4. sec'.k = sec.k /\ sec'.stage = "load"
  BY NoIds, SecIsTyped, StageTyped DEF Mark, Stages
<1> HIDE DEF r
<1>5. /\ Rows(applied') /\ Len(applied') = n + 1 /\ \A i \in 1..n : applied'[i] = applied[i]
      /\ applied' # <<>> /\ Last(applied') = r
  BY <1>1, <1>2, <1>3, AppendRows
<1>6. \A i \in 1..n : ids[i] = Ids(applied)[i]
  <2>1. \A i \in 1..(n + 1) : ids[i] = applied'[i].id
    BY <1>5, RowsFacts
  <2>2. \A i \in 1..n : Ids(applied)[i] = applied[i].id
    BY <1>1, RowsFacts
  <2> HIDE DEF ids
  <2> QED
    BY <1>1, <1>5, <2>1, <2>2
<1>7. ASSUME hurt = {} PROVE Half'
  <2>1. Consistent
    BY <1>2, <1>7, NoGhost
  <2>2. Right(Ids(applied), n, table, journal)
    BY <2>1 DEF Consistent
  <2>3. \A i \in 1..n : applied[i].id \in Knowledge
    BY <1>1, RowsFacts
  <2> HIDE DEF ids
  <2>4. Right(ids, n, table', journal')
    BY <1>1, <1>2, <1>6, <2>2, RightSame
  <2>5. ~Loaded(sec.k)
    BY <1>1, RowsFacts DEF Loaded
  <2>6. journal'[sec.k] = None
    BY <1>1, <1>2, <1>7, <2>5 DEF Journaled
  <2>7. ASSUME NEW c \in Writes[sec.k] PROVE Shows(ids, n, c, Before(sec.k, c))
    <3>1. Len(Under[sec.k]) = n
      BY <1>1, RowsFacts
    <3>2. Shows(Under[sec.k], n, c, Before(sec.k, c))
      BY <1>1, <3>1, BeforeShows
    <3> QED
      BY <1>1, <1>6, <3>2, ShowsSame
  <2>8. Len(applied') - 1 = n
    BY <1>1, <1>5
  <2> QED
    BY <1>3, <1>4, <1>5, <2>4, <2>6, <2>7, <2>8 DEF Half, ids
<1> QED
  BY <1>2, <1>4, <1>7 DEF Served

LEMMA ServedMeasure ==
  ASSUME StackTyped, Served, Measure
  PROVE  Served'
<1> DEFINE ids == Ids(applied)  n == Len(applied) - 1
<1>1. UNCHANGED <<applied, hurt>> /\ sec.stage \in {"load", "measure"}
  BY DEF Measure, past
<1>2. /\ Rows(applied) /\ applied # <<>> /\ Last(applied).id = sec.k /\ sec.k \in Knowledge
  BY <1>1, OnTrial
<1>3. n \in Nat /\ n + 1 = Len(applied) /\ n + 1 \in 1..Len(ids) /\ ids[n + 1] = sec.k /\ IdList(ids)
  <2>1. Len(applied) \in 1..Len(applied) /\ Len(applied) - 1 \in Nat /\ Last(applied) = applied[Len(applied)]
    BY <1>2, FrontRows
  <2>2. Len(ids) = Len(applied) /\ IdList(ids) /\ \A i \in 1..Len(applied) : ids[i] = applied[i].id
    BY <1>2, RowsFacts
  <2>3. n + 1 = Len(applied)
    BY <2>1
  <2> HIDE DEF ids
  <2> QED
    BY <1>2, <2>1, <2>2, <2>3
<1>4. CASE /\ sec.stage = "load" /\ Stage("measure", <<>>, FALSE)
           /\ journal' = [journal EXCEPT ![sec.k] = [c \in Writes[sec.k] |-> table[c]]]
           /\ table' = Written(sec.k, table)
  <2>1. sec'.stage = "measure"
    BY <1>4, NoIds, SecIsTyped, StageTyped DEF Stages
  <2>2. ASSUME hurt = {} PROVE Consistent'
    <3>1. Right(ids, n, table, journal)
      BY <1>4, <2>2 DEF Served, Half
    <3> HIDE DEF ids, n
    <3>2. /\ table' = Written(ids[n + 1], table)
          /\ journal' = [journal EXCEPT ![ids[n + 1]] = [c \in Writes[ids[n + 1]] |-> table[c]]]
      BY <1>3, <1>4
    <3>3. Right(ids, n + 1, table', journal')
      BY <1>3, <3>1, <3>2, SecIsTyped, PutOn
    <3> QED
      BY <1>1, <1>3, <3>3 DEF Consistent, ids
  <2> QED
    BY <1>1, <2>1, <2>2, ServedRight
<1>5. CASE sec.stage = "measure" /\ ~OnTable(sec.k) /\ UNCHANGED sec
  <2>1. hurt # {}
    BY <1>2, <1>5, NoGhost, TopIsOn
  <2> QED
    BY <1>1, <2>1 DEF Served
<1>6. CASE /\ sec.stage = "measure" /\ Stage("unmark", <<>>, FALSE)
           /\ table' = Undone(sec.k, table) /\ journal' = [journal EXCEPT ![sec.k] = None]
  <2>1. sec'.stage = "unmark"
    BY <1>6, NoIds, SecIsTyped, StageTyped DEF Stages
  <2>2. ASSUME hurt = {} PROVE Right(Ids(applied), Len(applied) - 1, table', journal')
    BY <1>2, <1>6, <2>2, NoGhost, TakenOff
  <2> QED
    BY <1>1, <2>1, <2>2 DEF Served
<1> QED
  BY <1>4, <1>5, <1>6 DEF Measure

\* A section that throws leaves a right stack, or a marked row that the restore takes off
\* first; where the code gives that up, the history says so.
LEMMA ServedThrow ==
  ASSUME StackTyped, Journaled, Served, Refuse \/ Fault
  PROVE  Served'
<1>1. Throw /\ sec # Free /\ sec.stage \notin {"unmark", "clean"}
  BY DEF Refuse, Fault, Stacking, Standing
<1>2. UNCHANGED <<table, journal, applied>> /\ hurt \subseteq hurt'
  BY <1>1 DEF Throw
<1>3. CASE /\ sec.op \in {"chat", "compare", "verify"} /\ sec.stage \notin {"restore", "again"}
           /\ Stage("restore", Exact(sec.pinned), FALSE) /\ UNCHANGED <<call, restore>>
           /\ hurt' = IF sec.stage = "load" /\ Contains(sec.pinned, sec.k) THEN hurt \union {"marked"} ELSE hurt
  <2>1. sec'.stage = "restore" /\ sec'.op = sec.op /\ sec'.k = sec.k /\ sec'.pinned = sec.pinned
    <3>1. UNCHANGED wanted
      BY <1>1 DEF Throw
    <3> QED
      BY <1>2, <1>3, <3>1, TypedBack
  <2>2. CASE sec.stage = "load"
    <3>1. ASSUME hurt' = {} PROVE Ghost'
      <4>1. Half /\ ~Contains(sec.pinned, sec.k) /\ sec.op = "verify"
        BY <1>2, <1>3, <2>2, <3>1, OnTrial DEF Served
      <4>2. Half'
        BY <1>2, <2>1, <4>1 DEF Half, Right
      <4> QED
        BY <2>1, <4>1, <4>2 DEF Ghost
    <3> QED
      BY <2>1, <3>1 DEF Served
  <2>3. CASE sec.stage # "load"
    <3>1. hurt' = {} => Consistent
      BY <1>1, <1>2, <1>3, <2>3, NoGhost
    <3> QED
      BY <1>2, <2>1, <3>1, StaysRight, ServedRight
  <2> QED
    BY <2>2, <2>3
<1>4. CASE /\ ~ (sec.op \in {"chat", "compare", "verify"} /\ sec.stage \notin {"restore", "again"})
           /\ Stop /\ hurt' = IF MarkedOnly THEN hurt \union {"marked"} ELSE hurt
  <2>1. sec.stage # "load"
    BY <1>4, OnTrial
  <2>2. ASSUME hurt' = {} PROVE Consistent
    <3>1. Consistent \/ Ghost
      BY <1>1, <1>2, <2>1, <2>2 DEF Served
    <3>2. Ghost => MarkedOnly
      BY DEF Ghost, Half, MarkedOnly
    <3> QED
      BY <1>4, <2>2, <3>1, <3>2
  <2>3. sec'.stage = "free"
    BY <1>4, FreeTyped DEF Stop
  <2> QED
    BY <1>2, <2>2, <2>3, StaysRight, ServedRight
<1> QED
  BY <1>1, <1>3, <1>4 DEF Throw

\* Steps that change neither rows nor table, nor where a section is.
LEMMA ServedQuiet ==
  ASSUME Served, UNCHANGED <<table, journal, applied, sec, hurt>>
  PROVE  Served'
BY DEF Served, Half, Ghost, Consistent, Right

LEMMA ServedNext ==
  ASSUME StackTyped, Journaled, Served, [StackNext]_stackVars
  PROVE  Served'
<1>1. ASSUME NEW c \in Calls, NEW k \in Knowledge, AskApply(c, k) \/ AskRemove(c, k) PROVE Served'
  BY <1>1, ServedQuiet DEF AskApply, AskRemove, Decide
<1>2. CASE \/ \E c \in Calls : EnterSection(c)
           \/ \E k \in Knowledge : EnterChat(k) \/ EnterVerify(k)
           \/ EnterWatchdog \/ EnterRecover
  BY <1>2, ServedEnter
<1>3. CASE Tick \/ Boot \/ UNCHANGED stackVars
  BY <1>3, ServedQuiet DEF Tick, Boot, past, stackVars
<1>4. CASE Clear
  BY <1>4, ServedClear
<1>5. CASE Script
  BY <1>5, ServedUnwind, ServedLoad DEF Script, past
<1>6. CASE Done
  <2>1. UNCHANGED <<table, journal, applied, hurt>> /\ sec.stage \in {"stack", "again"} /\ sec' = Free
    BY <1>6 DEF Done, Leave, Stop
  <2> QED
    BY <2>1, FreeTyped, NoGhost, StaysRight, ServedRight
<1>7. CASE Clean
  BY <1>7, ServedClean
<1>8. CASE Answered
  <2>1. /\ UNCHANGED <<table, journal, applied, hurt>> /\ sec.stage \in {"base", "test"}
        /\ sec'.stage \in {"test", "restore"}
    BY <1>8, SecIsTyped DEF Answered, past, Stage, Sections
  <2> QED
    BY <2>1, NoGhost, StaysRight, ServedRight
<1>9. CASE Mark
  BY <1>9, ServedMark
<1>10. CASE Measure
  BY <1>10, ServedMeasure
<1>11. CASE Unmark
  <2>1. /\ sec.stage = "unmark" /\ applied' = Front(applied) /\ UNCHANGED <<table, journal, hurt>>
        /\ sec'.stage = "restore"
    BY <1>11, TypedUnmark DEF Unmark, past
  <2>2. hurt = {} => Right(Ids(applied), Len(applied) - 1, table', journal')
    BY <2>1 DEF Served
  <2>3. hurt' = {} => Consistent'
    BY <2>1, <2>2, OnTrial, FrontRight
  <2> QED
    BY <2>1, <2>3, ServedRight
<1>12. CASE Restored
  <2>1. /\ UNCHANGED <<table, journal, applied, hurt>> /\ Standing /\ sec.stage = "restore"
        /\ sec'.stage \in {"again", "free"}
    BY <1>12, SecIsTyped, FreeTyped DEF Restored, Leave, Stop, Stage, Sections
  <2>2. hurt = {} => Consistent
    BY <2>1, GhostIsInTheWay DEF Served, Standing
  <2> QED
    BY <2>1, <2>2, StaysRight, ServedRight
<1>13. CASE Refuse \/ Fault
  BY <1>13, ServedThrow
<1>14. CASE ModelRestart \/ \E k \in Knowledge : Foreign(k)
  <2>1. hurt' # {}
    BY <1>14 DEF ModelRestart, Foreign
  <2> QED
    BY <2>1 DEF Served
<1>15. CASE Crash
  <2>1. sec'.stage = "free"
    BY <1>15, TypedCrash, FreeTyped
  <2>2. hurt' = {} => Consistent /\ UNCHANGED <<table, journal, applied>>
    BY <1>15 DEF Crash
  <2> QED
    BY <2>1, <2>2, StaysRight, ServedRight
<1> QED
  BY <1>1, <1>2, <1>3, <1>4, <1>5, <1>6, <1>7, <1>8, <1>9, <1>10, <1>11, <1>12, <1>13, <1>14, <1>15
     DEF StackNext, Within

\* RecordIsTable holds of every state: whatever a node applied, removed, tested, verified,
\* failed at half way and put back, as long as nobody else touched the model and the node
\* did not stop inside a section, the rows it keeps are what is on the table, and taking
\* them off through their journals ends at the bare model.
THEOREM RecordStaysTrue == StackSpec => []RecordIsTable
<1>1. StackInit => Journaled /\ Served
  <2> SUFFICES ASSUME StackInit PROVE Journaled /\ Served
    OBVIOUS
  <2>2. Journaled
    BY FreeTyped DEF StackInit, Journaled
  <2>3. Consistent
    <3>1. applied = <<>> /\ table = [c \in Cells |-> Base]
      BY DEF StackInit
    <3>2. Ids(applied) = <<>> /\ Len(applied) = 0
      BY <3>1, NoIds
    <3>3. \A c \in Cells : Shows(<<>>, 0, c, table[c])
      BY <3>1 DEF Shows
    <3> QED
      BY <3>2, <3>3 DEF Consistent, Right
  <2>4. Served
    BY <2>3, FreeTyped DEF StackInit, Served
  <2> QED
    BY <2>2, <2>4
<1>2. StackTyped /\ Journaled /\ Served /\ [StackNext]_stackVars => Journaled' /\ Served'
  BY JournaledNext, ServedNext
<1>3. StackTyped /\ Served => RecordIsTable
  BY FreeTyped, NoGhost DEF RecordIsTable
<1> QED
  BY <1>1, <1>2, <1>3, StackTyping, PTL DEF StackSpec

-----------------------------------------------------------------------------
(* The rows are what was asked for *)

LEMMA SameList ==
  ASSUME NEW ids \in Seq(Knowledge), NEW other \in Seq(Knowledge), Len(ids) = Len(other),
         \A i \in 1..Len(ids) : ids[i] = other[i]
  PROVE  ids = other
BY SeqEqual

\* Lists that lose the same elements are left with the same.
LEMMA WithoutSame ==
  ASSUME NEW ids, IdList(ids), NEW gone, NEW other,
         \A i \in 1..Len(ids) : ids[i] \in gone <=> ids[i] \in other
  PROVE  Without(ids, gone) = Without(ids, other)
<1>1. ids \in Seq(Knowledge) /\ Len(ids) \in Nat
  BY ListFacts DEF IdList
<1>2. PICK f : Left(ids, gone, f) /\ Without(ids, gone) = f[Len(ids)]
  BY <1>1, WithoutIsLeft
<1>3. PICK g : Left(ids, other, g) /\ Without(ids, other) = g[Len(ids)]
  BY <1>1, WithoutIsLeft
<1> DEFINE G == {n \in 0..Len(ids) : f[n] = g[n]}
<1>4. 0 \in G
  BY <1>1, <1>2, <1>3 DEF Left
<1>5. ASSUME NEW n \in 0..(Len(ids) - 1), n \in G PROVE n + 1 \in G
  <2>1. n + 1 \in 1..Len(ids) /\ n + 1 \in 0..Len(ids) /\ (n + 1) - 1 = n /\ n + 1 # 0
    BY <1>1
  <2>2. f[n + 1] = IF ids[n + 1] \in gone THEN f[n] ELSE Append(f[n], ids[n + 1])
    BY <1>2, <2>1 DEF Left
  <2>3. g[n + 1] = IF ids[n + 1] \in other THEN g[n] ELSE Append(g[n], ids[n + 1])
    BY <1>3, <2>1 DEF Left
  <2>4. f[n] = g[n] /\ (ids[n + 1] \in gone <=> ids[n + 1] \in other)
    BY <1>5, <2>1
  <2> QED
    BY <2>1, <2>2, <2>3, <2>4
<1>6. Len(ids) \in G
  <2> HIDE DEF G
  <2>1. \A i \in 0..Len(ids) : i \in G
    BY <1>1, <1>4, <1>5, Upwards
  <2> QED
    BY <1>1, <2>1
<1> QED
  BY <1>2, <1>3, <1>6

\* A list that loses nothing is left as it is.
LEMMA WithoutNone ==
  ASSUME NEW ids, IdList(ids), NEW gone, \A i \in 1..Len(ids) : ids[i] \notin gone
  PROVE  Without(ids, gone) = ids
<1>1. ids \in Seq(Knowledge) /\ Len(ids) \in Nat /\ \A i \in 1..Len(ids) : ids[i] \in Knowledge
  BY ListFacts DEF IdList
<1>2. PICK f : Left(ids, gone, f) /\ Without(ids, gone) = f[Len(ids)]
  BY <1>1, WithoutIsLeft
<1> DEFINE Same(n) == f[n] \in Seq(Knowledge) /\ Len(f[n]) = n /\ \A i \in 1..n : f[n][i] = ids[i]
           G == {n \in 0..Len(ids) : Same(n)}
<1>3. 0 \in G
  <2>1. f[0] = <<>>
    BY <1>1, <1>2 DEF Left
  <2>2. <<>> \in Seq(Knowledge) /\ Len(<<>>) = 0
    BY EmptySeq
  <2>3. Same(0)
    BY <2>1, <2>2
  <2> HIDE DEF Same
  <2> QED
    BY <1>1, <2>3
<1>4. ASSUME NEW n \in 0..(Len(ids) - 1), n \in G PROVE n + 1 \in G
  <2>1. n + 1 \in 1..Len(ids) /\ n + 1 \in 0..Len(ids) /\ (n + 1) - 1 = n /\ n + 1 # 0 /\ n \in Nat
    BY <1>1
  <2>2. f[n + 1] = Append(f[n], ids[n + 1])
    BY <1>2, <2>1 DEF Left
  <2> DEFINE old == f[n]
  <2>3. old \in Seq(Knowledge) /\ Len(old) = n /\ \A i \in 1..n : old[i] = ids[i]
    BY <1>4
  <2>4. f[n + 1] = Append(old, ids[n + 1]) /\ ids[n + 1] \in Knowledge
    BY <1>1, <2>1, <2>2
  <2> HIDE DEF old
  <2>5. /\ f[n + 1] \in Seq(Knowledge) /\ Len(f[n + 1]) = n + 1
        /\ \A i \in 1..n : f[n + 1][i] = old[i]
        /\ f[n + 1][n + 1] = ids[n + 1]
    BY <2>3, <2>4, AppendProperties
  <2>6. \A i \in 1..(n + 1) : f[n + 1][i] = ids[i]
    BY <2>1, <2>3, <2>5
  <2> QED
    BY <2>1, <2>5, <2>6
<1>5. Len(ids) \in G
  <2> HIDE DEF G
  <2>1. \A i \in 0..Len(ids) : i \in G
    BY <1>1, <1>3, <1>4, Upwards
  <2> QED
    BY <1>1, <2>1
<1>6. f[Len(ids)] \in Seq(Knowledge) /\ Len(f[Len(ids)]) = Len(ids) /\ \A i \in 1..Len(ids) : f[Len(ids)][i] = ids[i]
  BY <1>5
<1> QED
  BY <1>1, <1>2, <1>6, SameList

\* What a removal left says what it removed.
LEMMA WithoutAgain ==
  ASSUME NEW ids, IdList(ids), NEW gone
  PROVE  Without(ids, gone) = Without(ids, Range(ids) \ Range(Without(ids, gone)))
<1> DEFINE left == Without(ids, gone)
<1>1. /\ IdList(left)
      /\ \A a \in 1..Len(left) : \E b \in 1..Len(ids) : left[a] = ids[b] /\ ids[b] \notin gone
      /\ \A b \in 1..Len(ids) : ids[b] \notin gone => \E a \in 1..Len(left) : left[a] = ids[b]
  BY WithoutList
<1> HIDE DEF left
<1>2. DOMAIN left = 1..Len(left) /\ DOMAIN ids = 1..Len(ids)
  BY <1>1, ListFacts
<1>3. ASSUME NEW i \in 1..Len(ids) PROVE ids[i] \in gone <=> ids[i] \in Range(ids) \ Range(left)
  <2>1. ids[i] \in Range(ids)
    BY <1>2 DEF Range
  <2>2. ASSUME ids[i] \in gone PROVE ids[i] \notin Range(left)
    BY <1>1, <1>2, <2>2 DEF Range
  <2>3. ASSUME ids[i] \notin gone PROVE ids[i] \in Range(left)
    <3>1. PICK a \in 1..Len(left) : left[a] = ids[i]
      BY <1>1, <2>3
    <3> QED
      BY <1>2, <3>1 DEF Range
  <2> QED
    BY <2>1, <2>2, <2>3
<1>4. Without(ids, gone) = Without(ids, Range(ids) \ Range(left))
  BY <1>3, WithoutSame
<1> QED
  BY <1>4 DEF left

LEMMA IdsOf ==
  ASSUME NEW low, Rows(low), NEW high, Rows(high), Rows(low \o high)
  PROVE  Ids(low \o high) = Ids(low) \o Ids(high)
<1> DEFINE rows == low \o high  both == Ids(low) \o Ids(high)  n == Len(low)  m == Len(high)
<1>1. /\ n \in Nat /\ m \in Nat /\ Len(rows) = n + m
      /\ \A i \in 1..(n + m) : rows[i] = IF i <= n THEN low[i] ELSE high[i - n]
  BY ConcatProperties, RowsFacts DEF Rows
<1>2. /\ Ids(low) \in Seq(Knowledge) /\ Ids(high) \in Seq(Knowledge) /\ Len(Ids(low)) = n /\ Len(Ids(high)) = m
      /\ \A i \in 1..n : Ids(low)[i] = low[i].id
      /\ \A i \in 1..m : Ids(high)[i] = high[i].id
  BY RowsFacts DEF IdList
<1>3. /\ both \in Seq(Knowledge) /\ Len(both) = n + m
      /\ \A i \in 1..(n + m) : both[i] = IF i <= n THEN Ids(low)[i] ELSE Ids(high)[i - n]
  <2> DEFINE s == Ids(low)  t == Ids(high)
  <2>1. s \in Seq(Knowledge) /\ t \in Seq(Knowledge) /\ Len(s) = n /\ Len(t) = m
    BY <1>2
  <2> HIDE DEF s, t, n, m
  <2>2. /\ s \o t \in Seq(Knowledge) /\ Len(s \o t) = n + m
        /\ \A i \in 1..(n + m) : (s \o t)[i] = IF i <= n THEN s[i] ELSE t[i - n]
    BY <2>1, ConcatProperties
  <2> QED
    BY <2>2 DEF s, t
<1>4. /\ Ids(rows) \in Seq(Knowledge) /\ Len(Ids(rows)) = Len(rows)
      /\ \A i \in 1..Len(rows) : Ids(rows)[i] = rows[i].id
  BY RowsFacts DEF IdList
<1> HIDE DEF rows, both, n, m
<1>5. ASSUME NEW i \in 1..(n + m) PROVE Ids(rows)[i] = both[i]
  <2>1. Ids(rows)[i] = rows[i].id
    BY <1>1, <1>4
  <2>2. CASE i <= n
    <3>1. i \in 1..n
      BY <1>1, <2>2
    <3> QED
      BY <1>1, <1>2, <1>3, <2>1, <2>2, <3>1
  <2>3. CASE ~ (i <= n)
    <3>1. i - n \in 1..m
      BY <1>1, <2>3
    <3> QED
      BY <1>1, <1>2, <1>3, <2>1, <2>3, <3>1
  <2> QED
    BY <2>2, <2>3
<1>6. Ids(rows) = both
  BY <1>1, <1>3, <1>4, <1>5, SameList
<1> QED
  BY <1>6 DEF rows, both

\* What a request, and the section it runs, ask for.
AskedFor(r) ==
  /\ r.op = "apply" => Ids(r.target) = r.saw \o Without(Resolve(r.k), Range(r.saw))
  /\ r.op = "remove" => \E gone : Ids(r.target) = Without(r.saw, gone)
  /\ r.op = "watchdog" => Ids(r.target) = r.saw
Told ==
  /\ \A c \in Callers : AskedFor(call[c])
  /\ call[Watchdog].op = "watchdog" => recovered
  /\ \A c \in Calls : call[c].op \notin {"watchdog", "recover"}
  /\ sec.op \in Requests => sec.stage = "stack"
  /\ sec.op \in {"verify", "chat", "compare"} => sec.stage # "stack"
  /\ sec.stage = "again" => Ids(sec.target) = sec.pinned

\* No row bears the reason of a test.
NoneTransient == \A i \in 1..Len(applied) : applied[i].why \notin Transient
\* Between two sections the rows are what was asked for, or an interrupted run left a
\* snapshot that gives it back and the recovery is still to come; a test keeps the
\* snapshot, and a section that changes the stack for good starts without one.
Meant ==
  astray = {} =>
    /\ sec.op = "idle" /\ restore = None => Ids(applied) = wanted /\ NoneTransient
    /\ sec.op = "idle" /\ restore # None => ToPutBack = wanted /\ (~recovered \/ call[Watchdog].op = "recover")
    /\ sec.op \in {"verify", "chat", "compare"} => restore = wanted /\ sec.pinned = wanted
    /\ sec.op \in {"apply", "remove", "watchdog"} => restore = None /\ sec.pinned = wanted
    /\ sec.op = "apply" => Ids(sec.target) = wanted \o Without(Resolve(sec.k), Range(wanted))
    /\ sec.op = "remove" => \E gone : Ids(sec.target) = Without(wanted, gone)
    /\ sec.op \in {"watchdog", "recover"} => Ids(sec.target) = wanted

LEMMA AskedForIdle == AskedFor(Idle)
BY DEF AskedFor, Idle

\* Steps that answer a request or none.
LEMMA ToldStep ==
  ASSUME StackTyped, Told, call' = call \/ \E b \in Callers : call' = [call EXCEPT ![b] = Idle],
         recovered' = recovered,
         sec'.op \in Requests => sec'.stage = "stack",
         sec'.op \in {"verify", "chat", "compare"} => sec'.stage # "stack",
         sec'.stage = "again" => Ids(sec'.target) = sec'.pinned
  PROVE  Told'
<1>1. call \in [Callers -> Asked \union {Idle}] /\ Calls \subseteq Callers /\ Watchdog \in Callers
  BY DEF StackTyped, RowsTyped, Callers
<1>2. \A c \in Callers : call'[c] = call[c] \/ call'[c] = Idle
  BY <1>1
<1>3. Idle.op = "idle"
  BY DEF Idle
<1>4. \A c \in Callers : AskedFor(call'[c])
  BY <1>2, AskedForIdle DEF Told
<1>5. /\ call'[Watchdog].op = "watchdog" => recovered'
      /\ \A c \in Calls : call'[c].op \notin {"watchdog", "recover"}
  BY <1>1, <1>2, <1>3 DEF Told
<1> QED
  BY <1>4, <1>5 DEF Told

\* A request that is made.
LEMMA ToldAsk ==
  ASSUME StackTyped, Told, UNCHANGED sec, NEW c \in Callers, NEW r, AskedFor(r),
         call' = [call EXCEPT ![c] = r],
         c = Watchdog => recovered', c # Watchdog => r.op \notin {"watchdog", "recover"} /\ recovered' = recovered
  PROVE  Told'
<1>1. call \in [Callers -> Asked \union {Idle}] /\ Calls \subseteq Callers /\ Watchdog \in Callers /\ Watchdog \notin Calls
  BY StackAssumption DEF StackTyped, RowsTyped, Callers, StackAssumption
<1>2. \A x \in Callers : call'[x] = IF x = c THEN r ELSE call[x]
  BY <1>1
<1>3. \A x \in Callers : AskedFor(call'[x])
  BY <1>2 DEF Told
<1>4. /\ call'[Watchdog].op = "watchdog" => recovered'
      /\ \A x \in Calls : call'[x].op \notin {"watchdog", "recover"}
  BY <1>1, <1>2 DEF Told
<1> QED
  BY <1>3, <1>4 DEF Told

LEMMA AskedApply ==
  ASSUME StackTyped, NEW c \in Calls, NEW k \in Knowledge, AskApply(c, k)
  PROVE  \E r : AskedFor(r) /\ call' = [call EXCEPT ![c] = r] /\ r.op = "apply"
<1> DEFINE ids == Ids(applied)  new == Without(Resolve(k), Range(ids))  low == Exact(ids)
           high == Layers(new, "kept")  r == [op |-> "apply", k |-> k, target |-> low \o high, saw |-> ids]
<1>1. Rows(applied) /\ IdList(ids) /\ IdList(Resolve(k))
  BY TargetFacts, RowsFacts, LineageLists
<1>2. Rows(low) /\ Ids(low) = ids /\ Len(low) = Len(ids)
  BY <1>1, ExactRows
<1>3. IdList(new) /\ \A i \in 1..Len(new), j \in 1..Len(ids) : new[i] # ids[j]
  BY <1>1, WithoutList, Apart
<1>4. call' = [call EXCEPT ![c] = r]
  BY DEF AskApply, Decide
<1>5. \A i \in 1..Len(low) : low[i].id = ids[i]
  BY <1>2, RowsFacts
<1> HIDE DEF ids, new, low
<1>6. Rows(high) /\ Ids(high) = new
  BY <1>3, LayersRows
<1>7. Rows(low \o high)
  BY <1>2, <1>3, <1>5, MoreRows
<1> HIDE DEF high
<1>8. Ids(low \o high) = ids \o new
  BY <1>2, <1>6, <1>7, IdsOf
<1>9. r.op = "apply" /\ r.k = k /\ r.saw = ids /\ r.target = low \o high
  OBVIOUS
<1> HIDE DEF r
<1>10. AskedFor(r)
  BY <1>8, <1>9 DEF AskedFor, new
<1> QED
  BY <1>4, <1>9, <1>10

LEMMA AskedRemove ==
  ASSUME StackTyped, NEW c \in Calls, NEW k \in Knowledge, AskRemove(c, k)
  PROVE  \E r : AskedFor(r) /\ call' = [call EXCEPT ![c] = r] /\ r.op = "remove"
<1>1. PICK gone : Decide(c, "remove", k, Exact(Without(Ids(applied), gone)))
  BY DEF AskRemove
<1> DEFINE ids == Ids(applied)  target == Exact(Without(ids, gone))
           r == [op |-> "remove", k |-> k, target |-> target, saw |-> ids]
<1>2. IdList(ids) /\ Rows(applied)
  BY TargetFacts, RowsFacts
<1>3. Ids(target) = Without(ids, gone)
  BY <1>2, WithoutList, ExactRows
<1>4. call' = [call EXCEPT ![c] = r]
  BY <1>1 DEF Decide
<1> HIDE DEF target, ids
<1>5. r.op = "remove" /\ r.saw = ids /\ r.target = target
  OBVIOUS
<1> HIDE DEF r
<1>6. AskedFor(r)
  BY <1>3, <1>5 DEF AskedFor
<1> QED
  BY <1>4, <1>5, <1>6

LEMMA ToldTick ==
  ASSUME StackTyped, Told, Tick
  PROVE  Told'
<1>1. recovered' /\ UNCHANGED sec /\ Watchdog \in Callers
  BY DEF Tick, Callers
<1>2. PICK r : AskedFor(r) /\ call' = [call EXCEPT ![Watchdog] = r]
  <2>1. CASE call' = [call EXCEPT ![Watchdog] =
                       [op |-> "recover", k |-> None, target |-> <<>>, saw |-> Ids(applied)]]
    <3> DEFINE r == [op |-> "recover", k |-> None, target |-> <<>>, saw |-> Ids(applied)]
    <3>1. AskedFor(r) /\ call' = [call EXCEPT ![Watchdog] = r]
      BY <2>1 DEF AskedFor
    <3> HIDE DEF r
    <3> QED
      BY <3>1
  <2>2. CASE call' = [call EXCEPT ![Watchdog] = [op |-> "watchdog", k |-> Last(applied).id,
                       target |-> Exact(Ids(applied)), saw |-> Ids(applied)]]
    <3> DEFINE r == [op |-> "watchdog", k |-> Last(applied).id,
                     target |-> Exact(Ids(applied)), saw |-> Ids(applied)]
    <3>1. Ids(Exact(Ids(applied))) = Ids(applied)
      BY TargetFacts, RowsFacts, ExactRows
    <3>2. AskedFor(r) /\ call' = [call EXCEPT ![Watchdog] = r]
      BY <2>2, <3>1 DEF AskedFor
    <3> HIDE DEF r
    <3> QED
      BY <3>2
  <2> QED
    BY <2>1, <2>2 DEF Tick
<1> QED
  BY <1>1, <1>2, ToldAsk

LEMMA StopAnswers ==
  ASSUME StackTyped, Stop
  PROVE  /\ sec'.op = "idle" /\ sec'.stage = "free"
         /\ call' = call \/ \E b \in Callers : call' = [call EXCEPT ![b] = Idle]
<1>1. sec.by \in Callers \union {None}
  BY SecIsTyped DEF Sections
<1> QED
  BY <1>1, FreeTyped DEF Stop

\* A section of a test moves on: its own request, target and snapshot stay.
LEMMA TestMoves ==
  ASSUME StackTyped, Clean \/ Answered \/ Mark \/ Measure \/ Unmark
  PROVE  /\ sec.op \in {"verify", "chat", "compare"} /\ sec'.op = sec.op /\ sec'.pinned = sec.pinned
         /\ sec'.stage \notin {"stack", "again", "free"}
         /\ UNCHANGED <<call, recovered, restore, wanted, astray>>
<1>1. UNCHANGED <<call, recovered, restore, wanted, astray>>
  BY DEF Clean, Answered, Mark, Measure, Unmark, past
<1>2. sec \in Sections
  BY SecIsTyped
<1>3. CASE Clean \/ Answered
  <2>1. sec.stage \in {"clean", "base", "test"}
    BY <1>3 DEF Clean, Answered
  <2>2. sec'.op = sec.op /\ sec'.pinned = sec.pinned /\ sec'.stage \in {"base", "test", "restore"}
    BY <1>2, <1>3 DEF Clean, Answered, Stage, Sections
  <2> QED
    BY <1>1, <2>1, <2>2 DEF StackTyped, Staged
<1>4. CASE Mark \/ Measure
  <2>1. sec.stage \in {"below", "load", "measure"}
    BY <1>4 DEF Mark, Measure
  <2>2. sec'.op = sec.op /\ sec'.pinned = sec.pinned /\ sec'.stage \in {"load", "measure", "unmark"}
    BY <1>2, <1>4 DEF Mark, Measure, Stage, Sections
  <2> QED
    BY <1>1, <2>1, <2>2 DEF StackTyped, Staged
<1>5. CASE Unmark
  <2>1. sec.op = "verify"
    BY <1>5, OnTrial DEF Unmark
  <2> QED
    BY <1>1, <1>5, <2>1, TypedUnmark
<1> QED
  BY <1>3, <1>4, <1>5

LEMMA ToldEnter ==
  ASSUME StackTyped, Told,
         \/ \E c \in Calls : EnterSection(c)
         \/ \E k \in Knowledge : EnterChat(k) \/ EnterVerify(k)
         \/ EnterWatchdog \/ EnterRecover
  PROVE  Told'
<1>1. /\ recovered' = recovered /\ Watchdog \in Callers
      /\ call' = call \/ call' = [call EXCEPT ![Watchdog] = Idle]
  BY DEF EnterSection, EnterChat, EnterVerify, EnterWatchdog, EnterRecover, Callers
<1>2. \/ sec' = sec
      \/ sec'.op \in Requests /\ sec'.stage = "stack"
      \/ sec'.op \in {"verify", "chat", "compare"} /\ sec'.stage \in {"below", "clean"}
  <2>1. ASSUME NEW c \in Calls, EnterSection(c) PROVE sec'.op \in Requests /\ sec'.stage = "stack"
    BY <2>1 DEF EnterSection, Section, Requests
  <2>2. ASSUME NEW k \in Knowledge, EnterChat(k) PROVE sec'.op \in {"chat", "compare"} /\ sec'.stage = "clean"
    BY <2>2 DEF EnterChat, Section
  <2>3. ASSUME NEW k \in Knowledge, EnterVerify(k) PROVE sec'.op = "verify" /\ sec'.stage = "below"
    BY <2>3 DEF EnterVerify, Section
  <2>4. ASSUME EnterWatchdog, sec' # sec PROVE sec'.op = "watchdog" /\ sec'.stage = "stack"
    BY <2>4 DEF EnterWatchdog, Section
  <2>5. ASSUME EnterRecover, sec' # sec PROVE sec'.op = "recover" /\ sec'.stage = "stack"
    BY <2>5 DEF EnterRecover, Section
  <2> QED
    BY <2>1, <2>2, <2>3, <2>4, <2>5 DEF Requests
<1>3. CASE sec' = sec
  BY <1>1, <1>3, ToldStep DEF Told
<1>4. CASE \/ sec'.op \in Requests /\ sec'.stage = "stack"
           \/ sec'.op \in {"verify", "chat", "compare"} /\ sec'.stage \in {"below", "clean"}
  BY <1>1, <1>4, ToldStep DEF Requests
<1> QED
  BY <1>2, <1>3, <1>4

LEMMA ToldNext ==
  ASSUME StackTyped, Told, [StackNext]_stackVars
  PROVE  Told'
<1>1. ASSUME NEW c \in Calls, NEW k \in Knowledge, AskApply(c, k) \/ AskRemove(c, k) PROVE Told'
  <2>1. PICK r : AskedFor(r) /\ call' = [call EXCEPT ![c] = r] /\ r.op \in {"apply", "remove"}
    BY <1>1, AskedApply, AskedRemove
  <2>2. UNCHANGED <<sec, recovered>> /\ c # Watchdog /\ c \in Callers
    BY <1>1, StackAssumption DEF AskApply, AskRemove, Decide, StackAssumption, Callers
  <2> QED
    BY <2>1, <2>2, ToldAsk
<1>2. CASE \/ \E c \in Calls : EnterSection(c)
           \/ \E k \in Knowledge : EnterChat(k) \/ EnterVerify(k)
           \/ EnterWatchdog \/ EnterRecover
  BY <1>2, ToldEnter
<1>3. CASE Tick
  BY <1>3, ToldTick
<1>4. CASE Clear
  <2>1. /\ UNCHANGED <<call, recovered>> /\ sec'.op = sec.op /\ sec'.stage = sec.stage
        /\ sec'.target = sec.target /\ sec'.pinned = sec.pinned
    BY <1>4, SecIsTyped DEF Clear, Sections
  <2> QED
    BY <2>1, ToldStep DEF Told
<1>5. CASE Script \/ Boot \/ ModelRestart \/ (\E k \in Knowledge : Foreign(k)) \/ UNCHANGED stackVars
  <2>1. UNCHANGED <<call, recovered, sec>>
    BY <1>5 DEF Script, Boot, ModelRestart, Foreign, past, stackVars
  <2> QED
    BY <2>1, ToldStep DEF Told
<1>6. CASE Done
  BY <1>6, StopAnswers, ToldStep DEF Done, Leave, Requests
<1>7. CASE Clean \/ Answered \/ Mark \/ Measure \/ Unmark
  BY <1>7, TestMoves, ToldStep DEF Requests
<1>8. CASE Restored
  <2>1. recovered' = recovered /\ sec.stage = "restore"
    BY <1>8 DEF Restored
  <2>2. CASE Leave
    BY <2>1, <2>2, StopAnswers, ToldStep DEF Leave, Requests
  <2>3. CASE Stage("again", sec.target, TRUE) /\ UNCHANGED call
    <3>1. sec'.stage = "again" /\ sec'.op = sec.op /\ sec'.target = sec.target /\ sec'.pinned = sec.pinned
      BY <2>3, SecIsTyped DEF Stage, Sections
    <3>2. Ids(sec.target) = sec.pinned /\ sec.op \notin Requests
      BY <2>1 DEF StackTyped, Staged, Told
    <3> QED
      BY <2>1, <2>3, <3>1, <3>2, ToldStep
  <2> QED
    BY <1>8, <2>2, <2>3 DEF Restored
<1>9. CASE Refuse \/ Fault
  <2>1. Throw /\ recovered' = recovered
    BY <1>9 DEF Refuse, Fault, Throw
  <2>2. CASE Stop
    BY <2>1, <2>2, StopAnswers, ToldStep DEF Requests
  <2>3. CASE sec.op \in {"chat", "compare", "verify"} /\ Stage("restore", Exact(sec.pinned), FALSE) /\ UNCHANGED call
    <3>1. sec'.stage = "restore" /\ sec'.op = sec.op
      BY <2>3, SecIsTyped DEF Stage, Sections
    <3> QED
      BY <2>1, <2>3, <3>1, ToldStep DEF Requests
  <2> QED
    BY <2>1, <2>2, <2>3 DEF Throw
<1>10. CASE Crash
  <2>1. call' = [c \in Callers |-> Idle] /\ sec' = Free /\ Calls \subseteq Callers /\ Watchdog \in Callers
    BY <1>10 DEF Crash, Down, Callers
  <2>2. \A c \in Callers : AskedFor(call'[c]) /\ call'[c].op = "idle"
    BY <2>1, AskedForIdle DEF Idle
  <2>3. sec'.op = "idle" /\ sec'.stage = "free"
    BY <2>1, FreeTyped
  <2> QED
    BY <2>1, <2>2, <2>3 DEF Told, Requests
<1> QED
  BY <1>1, <1>2, <1>3, <1>4, <1>5, <1>6, <1>7, <1>8, <1>9, <1>10 DEF StackNext, Within

\* Steps of a section that go on with the same request.
LEMMA MeantSection ==
  ASSUME StackTyped, Meant, sec.op # "idle", sec'.op = sec.op, sec'.pinned = sec.pinned,
         UNCHANGED <<restore, wanted, astray>>,
         sec.op \in {"verify", "chat", "compare"} \/ (sec'.k = sec.k /\ sec'.target = sec.target)
  PROVE  Meant'
BY DEF Meant

\* Steps between two sections, or that end none.
LEMMA MeantQuiet ==
  ASSUME Meant, UNCHANGED <<sec, restore, wanted, applied>>, astray \subseteq astray',
         sec.op = "idle" /\ restore # None /\ astray = {} =>
           ~recovered' \/ call'[Watchdog].op = "recover"
  PROVE  Meant'
<1>1. ToPutBack' = ToPutBack /\ NoneTransient' = NoneTransient
  BY DEF ToPutBack, NoneTransient
<1>2. astray' = {} => astray = {}
  OBVIOUS
<1> QED
  BY <1>1, <1>2 DEF Meant

LEMMA MeantEnter ==
  ASSUME StackTyped, Told, Meant,
         \/ \E c \in Calls : EnterSection(c)
         \/ \E k \in Knowledge : EnterChat(k) \/ EnterVerify(k)
         \/ EnterWatchdog \/ EnterRecover
  PROVE  Meant'
<1>1. sec = Free /\ sec.op = "idle" /\ UNCHANGED <<applied, wanted>>
  BY FreeTyped DEF EnterSection, EnterChat, EnterVerify, EnterWatchdog, EnterRecover, past
<1>2. /\ astray = {} /\ restore = None => Ids(applied) = wanted /\ NoneTransient
      /\ astray = {} /\ restore # None => ToPutBack = wanted /\ (~recovered \/ call[Watchdog].op = "recover")
  BY <1>1 DEF Meant
<1>3. ASSUME NEW c \in Calls, EnterSection(c), astray' = {} PROVE Meant'
  <2>1. astray = {} /\ restore = None /\ restore' = None /\ call[c].saw = Ids(applied)
    BY <1>3 DEF EnterSection, Astray, Early
  <2>2. /\ sec'.op = call[c].op /\ sec'.op \in {"apply", "remove"} /\ sec'.pinned = Ids(applied)
        /\ sec'.k = call[c].k /\ sec'.target = call[c].target
    BY <1>3 DEF EnterSection, Section
  <2>3. AskedFor(call[c])
    BY DEF Told, Callers
  <2>4. Ids(applied) = wanted /\ wanted' = wanted
    BY <1>1, <1>2, <2>1
  <2> QED
    BY <2>1, <2>2, <2>3, <2>4 DEF Meant, AskedFor
<1>4. ASSUME NEW k \in Knowledge, EnterChat(k) \/ EnterVerify(k), astray' = {} PROVE Meant'
  <2>1. astray = {} /\ restore = None /\ restore' = Ids(applied)
    BY <1>4 DEF EnterChat, EnterVerify, Astray, Early
  <2>2. sec'.op \in {"verify", "chat", "compare"} /\ sec'.pinned = Ids(applied)
    <3>1. CASE EnterChat(k)
      BY <3>1 DEF EnterChat, Section
    <3>2. CASE EnterVerify(k)
      BY <3>2 DEF EnterVerify, Section
    <3> QED
      BY <1>4, <3>1, <3>2
  <2>3. Ids(applied) = wanted /\ wanted' = wanted
    BY <1>1, <1>2, <2>1
  <2> QED
    BY <2>1, <2>2, <2>3 DEF Meant
<1>5. ASSUME EnterWatchdog PROVE Meant'
  <2>1. call[Watchdog].op = "watchdog" /\ recovered /\ restore' = restore /\ Watchdog \in Callers
    BY <1>5 DEF EnterWatchdog, Told, Callers
  <2>2. CASE UNCHANGED <<sec, astray>>
    BY <1>1, <1>2, <2>1, <2>2, MeantQuiet
  <2>3. ASSUME sec' = Section(Watchdog, "watchdog", call[Watchdog].k, "stack", call[Watchdog].target, TRUE),
               Astray(IF call[Watchdog].saw # Ids(applied) THEN {"stale"} ELSE {}), astray' = {}
        PROVE  Meant'
    <3>1. astray = {} /\ call[Watchdog].saw = Ids(applied)
      BY <2>3 DEF Astray
    <3>2. sec'.op = "watchdog" /\ sec'.pinned = Ids(applied) /\ sec'.target = call[Watchdog].target
      BY <2>3 DEF Section
    <3>3. Ids(call[Watchdog].target) = Ids(applied)
      BY <2>1, <3>1 DEF Told, AskedFor
    <3>4. restore = None /\ Ids(applied) = wanted
      BY <1>2, <2>1, <3>1
    <3> QED
      BY <1>1, <2>1, <3>2, <3>3, <3>4 DEF Meant
  <2>4. CASE astray' # {}
    BY <2>4 DEF Meant
  <2> QED
    BY <1>5, <2>2, <2>3, <2>4 DEF EnterWatchdog
<1>6. ASSUME EnterRecover PROVE Meant'
  <2>1. UNCHANGED <<restore, astray, recovered>>
    BY <1>6 DEF EnterRecover, past
  <2>2. CASE UNCHANGED sec /\ restore = None
    BY <1>1, <2>1, <2>2, MeantQuiet
  <2>3. ASSUME astray = {}, sec' = Section(Watchdog, "recover", None, "stack", Exact(ToPutBack),
                                            applied # <<>> /\ ~OnTable(Last(applied).id)),
               restore # None \/ \E r \in Range(applied) : r.why \in Transient
        PROVE  Meant'
    <3>1. DOMAIN applied = 1..Len(applied) /\ Rows(applied) /\ IdList(Ids(applied)) /\ restore \in IdLists \union {None}
      BY TargetFacts, RowsFacts
    <3>2. restore # None
      <4>1. ASSUME NEW r \in Range(applied), r.why \in Transient PROVE ~NoneTransient
        BY <3>1, <4>1 DEF NoneTransient, Range
      <4> QED
        BY <1>2, <2>3, <4>1
    <3>3. IdList(ToPutBack)
      BY <3>1, ListTypes, WithoutList DEF ToPutBack
    <3>4. Ids(Exact(ToPutBack)) = ToPutBack
      BY <3>1, <3>3, ExactRows
    <3>5. sec'.op = "recover" /\ sec'.target = Exact(ToPutBack)
      BY <2>3 DEF Section
    <3>6. Ids(sec'.target) = wanted
      BY <1>2, <2>3, <3>2, <3>4, <3>5
    <3> QED
      BY <1>1, <3>5, <3>6 DEF Meant
  <2>4. CASE astray' # {}
    BY <2>4 DEF Meant
  <2> QED
    BY <1>6, <2>1, <2>2, <2>3, <2>4 DEF EnterRecover
<1>7. CASE astray' # {}
  BY <1>7 DEF Meant
<1> QED
  BY <1>3, <1>4, <1>5, <1>6, <1>7

\* A section that ends without leaving a test's reason on a served row.
LEMMA NoReasonLeft ==
  ASSUME StackTyped, Relabelled = {}, sec.stage = "stack" \/ Ids(applied) = sec.pinned
  PROVE  NoneTransient
<1>1. DOMAIN applied = 1..Len(applied) /\ Rows(applied)
  BY TargetFacts, RowsFacts
<1>2. ASSUME NEW i \in 1..Len(applied), applied[i].why \in Transient PROVE FALSE
  <2>1. applied[i] \in Range(applied)
    BY <1>1 DEF Range
  <2>2. sec.stage # "stack" => Contains(sec.pinned, applied[i].id)
    <3>1. Ids(applied)[i] = applied[i].id /\ Len(Ids(applied)) = Len(applied)
      BY <1>1, RowsFacts
    <3> QED
      BY <3>1 DEF Contains
  <2> QED
    BY <1>2, <2>1, <2>2 DEF Relabelled
<1> QED
  BY <1>2 DEF NoneTransient

LEMMA MeantDone ==
  ASSUME StackTyped, Told, Meant, Done
  PROVE  Meant'
<1> SUFFICES ASSUME astray' = {} PROVE Meant'
  BY DEF Meant
<1>1. astray = {} /\ Relabelled = {} /\ sec'.op = "idle" /\ applied' = applied
  BY FreeTyped DEF Done, Leave, Astray, Stop
<1>2. /\ Ids(applied) = Ids(sec.target) /\ sec.stage \in {"stack", "again"}
      /\ sec.op # "idle" /\ sec.stage # "free"
  BY DEF Done, Standing, StackTyped, Staged
<1>3. IdList(wanted) /\ IdList(sec.pinned)
  BY TargetFacts
<1>4. NoneTransient
  BY <1>1, <1>2, NoReasonLeft DEF Told
<1>5. NoneTransient'
  BY <1>1, <1>4 DEF NoneTransient
<1>6. CASE sec.op = "apply"
  <2>1. restore' = None /\ wanted' = wanted \o Without(Resolve(sec.k), Range(wanted))
    BY <1>1, <1>6 DEF Done, Meant
  <2>2. Ids(applied) = wanted'
    BY <1>1, <1>2, <1>6, <2>1 DEF Meant
  <2> QED
    BY <1>1, <1>5, <2>1, <2>2 DEF Meant
<1>7. CASE sec.op = "remove"
  <2>1. PICK gone : Ids(sec.target) = Without(wanted, gone)
    BY <1>1, <1>7 DEF Meant
  <2>2. restore' = None /\ wanted' = Without(wanted, Range(wanted) \ Range(Ids(applied)))
    BY <1>1, <1>7 DEF Done, Meant
  <2>3. Ids(applied) = wanted'
    BY <1>2, <1>3, <2>1, <2>2, WithoutAgain
  <2> QED
    BY <1>1, <1>5, <2>2, <2>3 DEF Meant
<1>8. CASE sec.op \in {"watchdog", "recover"}
  <2>1. restore' = None /\ wanted' = wanted /\ Ids(applied) = wanted
    BY <1>1, <1>2, <1>8 DEF Done, Meant
  <2> QED
    BY <1>1, <1>5, <2>1 DEF Meant
<1>9. CASE sec.op \in {"verify", "chat", "compare"}
  <2>1. restore' = None /\ wanted' = wanted /\ sec.pinned = wanted
    BY <1>1, <1>9 DEF Done, Meant
  <2>2. Ids(applied) = sec.pinned
    BY <1>2, <1>9 DEF Told
  <2> QED
    BY <1>1, <1>5, <2>1, <2>2 DEF Meant
<1>10. sec.op \in Requests \union {"idle", "verify", "chat", "compare"}
  BY SecIsTyped DEF Sections
<1> QED
  BY <1>2, <1>6, <1>7, <1>8, <1>9, <1>10 DEF Requests

LEMMA MeantRestored ==
  ASSUME StackTyped, Told, Meant, Restored
  PROVE  Meant'
<1> SUFFICES ASSUME astray' = {} PROVE Meant'
  BY DEF Meant
<1>1. /\ Standing /\ sec.stage = "restore" /\ applied' = applied /\ wanted' = wanted
  BY DEF Restored
<1>2. sec.op \in {"verify", "chat", "compare"}
  <2>1. sec.op \in Requests \union {"idle", "verify", "chat", "compare"}
    BY SecIsTyped DEF Sections
  <2> QED
    BY <1>1, <2>1 DEF Told, StackTyped, Staged
<1>3. Ids(applied) = sec.pinned
  BY <1>1 DEF Standing, StackTyped, Staged
<1>4. CASE Stage("again", sec.target, TRUE) /\ UNCHANGED <<call, restore, astray>>
  <2>1. sec'.op = sec.op /\ sec'.pinned = sec.pinned
    BY <1>4, SecIsTyped DEF Stage, Sections
  <2> QED
    BY <1>1, <1>2, <1>4, <2>1, MeantSection
<1>5. CASE Leave /\ restore' = None
  <2>1. astray = {} /\ Relabelled = {} /\ sec'.op = "idle"
    BY <1>5, FreeTyped DEF Leave, Astray, Stop
  <2>2. NoneTransient
    BY <1>3, <2>1, NoReasonLeft
  <2>3. NoneTransient'
    BY <1>1, <2>2 DEF NoneTransient
  <2>4. Ids(applied) = wanted
    BY <1>2, <1>3, <2>1 DEF Meant
  <2> QED
    BY <1>1, <1>5, <2>1, <2>3, <2>4 DEF Meant
<1> QED
  BY <1>4, <1>5 DEF Restored

LEMMA MeantThrow ==
  ASSUME StackTyped, Told, Meant, Throw
  PROVE  Meant'
<1> SUFFICES ASSUME astray' = {} PROVE Meant'
  BY DEF Meant
<1>1. wanted' = wanted
  BY DEF Throw
<1>2. /\ sec.op \in {"chat", "compare", "verify"}
      /\ Stage("restore", Exact(sec.pinned), FALSE) /\ UNCHANGED <<call, restore, astray>>
  BY DEF Throw, Astray
<1>3. sec'.op = sec.op /\ sec'.pinned = sec.pinned
  BY <1>2, SecIsTyped DEF Stage, Sections
<1> QED
  BY <1>1, <1>2, <1>3, MeantSection

\* A node that stops in a test leaves the snapshot, and the reasons of its rows say which
\* of the snapshot's ids the recovery must not put back: none.
LEMMA MeantCrash ==
  ASSUME StackTyped, Told, Meant, Crash
  PROVE  Meant'
<1> SUFFICES ASSUME astray' = {} PROVE Meant'
  BY DEF Meant
<1>1. /\ sec' = Free /\ sec'.op = "idle" /\ recovered' = FALSE
      /\ UNCHANGED <<restore, wanted>> /\ astray = {}
  BY FreeTyped DEF Crash, Down, Astray
<1>2. sec.op = "idle" \/ sec.op \in {"verify", "chat", "compare"}
  <2>1. sec.op \in Requests \union {"idle", "verify", "chat", "compare"}
    BY SecIsTyped DEF Sections
  <2>2. sec.op \in Requests => sec # Free
    BY FreeTyped DEF Requests
  <2> QED
    BY <2>1, <2>2 DEF Crash, Down, Astray, Requests
<1>3. applied' = applied
  BY DEF Crash, Unwind, Load
<1>4. ToPutBack' = ToPutBack /\ NoneTransient' = NoneTransient
  BY <1>1, <1>3 DEF ToPutBack, NoneTransient
<1>5. CASE sec.op = "idle"
  BY <1>1, <1>3, <1>4, <1>5 DEF Meant
<1>6. CASE sec.op \in {"verify", "chat", "compare"}
  <2>1. restore = wanted /\ sec.pinned = wanted
    BY <1>1, <1>6 DEF Meant
  <2>2. IdList(wanted) /\ restore # None
    BY <2>1, TargetFacts, StackAssumption DEF IdList, StackAssumption
  <2>3. sec # Free /\ sec.stage # "stack" /\ Relabelled = {}
    BY <1>1, <1>6, FreeTyped DEF Told, Crash, Down, Astray
  <2> DEFINE gone == {r.id : r \in {x \in Range(applied) : x.why \in Transient}}
  <2>4. \A i \in 1..Len(wanted) : wanted[i] \notin gone
    <3>1. DOMAIN wanted = 1..Len(wanted)
      BY <2>2, ListFacts
    <3> SUFFICES ASSUME NEW i \in 1..Len(wanted), NEW r \in Range(applied), r.why \in Transient, r.id = wanted[i]
                 PROVE  FALSE
      OBVIOUS
    <3>2. Contains(sec.pinned, r.id)
      BY <2>1, <3>1 DEF Contains
    <3> QED
      BY <2>3, <3>2 DEF Relabelled
  <2> HIDE DEF gone
  <2>5. Without(wanted, gone) = wanted
    BY <2>2, <2>4, WithoutNone
  <2>6. ToPutBack = wanted
    BY <2>1, <2>2, <2>5 DEF ToPutBack, gone
  <2> QED
    BY <1>1, <1>4, <2>2, <2>1, <2>6 DEF Meant
<1> QED
  BY <1>2, <1>5, <1>6

LEMMA MeantNext ==
  ASSUME StackTyped, Told, Meant, [StackNext]_stackVars
  PROVE  Meant'
<1>1. ASSUME NEW c \in Calls, NEW k \in Knowledge, AskApply(c, k) \/ AskRemove(c, k) PROVE Meant'
  <2>1. PICK r : call' = [call EXCEPT ![c] = r]
    BY <1>1, AskedApply, AskedRemove
  <2>2. UNCHANGED <<sec, restore, wanted, applied, astray, recovered>> /\ c # Watchdog
    BY <1>1, StackAssumption DEF AskApply, AskRemove, Decide, StackAssumption
  <2>3. call'[Watchdog] = call[Watchdog]
    BY <2>1, <2>2 DEF StackTyped, RowsTyped, Callers
  <2>4. sec.op = "idle" /\ restore # None /\ astray = {} => ~recovered' \/ call'[Watchdog].op = "recover"
    BY <2>2, <2>3 DEF Meant
  <2> QED
    BY <2>2, <2>4, MeantQuiet
<1>2. CASE \/ \E c \in Calls : EnterSection(c)
           \/ \E k \in Knowledge : EnterChat(k) \/ EnterVerify(k)
           \/ EnterWatchdog \/ EnterRecover
  BY <1>2, MeantEnter
<1>3. CASE Tick
  <2>1. UNCHANGED <<sec, restore, wanted, applied, astray>> /\ call[Watchdog] = Idle
    BY <1>3 DEF Tick, past
  <2>2. sec.op = "idle" /\ restore # None /\ astray = {} => ~recovered
    BY <2>1 DEF Meant, Idle
  <2>3. ~recovered => call'[Watchdog].op = "recover"
    BY <1>3 DEF Tick, StackTyped, RowsTyped, Callers
  <2> QED
    BY <2>1, <2>2, <2>3, MeantQuiet
<1>4. CASE Clear \/ Script
  <2>1. UNCHANGED <<restore, wanted, astray>> /\ Stacking
    BY <1>4 DEF Clear, Script, Unwind, Load, past
  <2>2. sec'.op = sec.op /\ sec'.pinned = sec.pinned /\ sec'.k = sec.k /\ sec'.target = sec.target
    BY <1>4, SecIsTyped DEF Clear, Script, Sections
  <2>3. sec.op # "idle"
    BY <2>1 DEF Stacking, StackTyped, Staged
  <2> QED
    BY <2>1, <2>2, <2>3, MeantSection
<1>5. CASE Boot \/ ModelRestart \/ (\E k \in Knowledge : Foreign(k)) \/ UNCHANGED stackVars
  <2>1. UNCHANGED <<sec, restore, wanted, applied, astray, recovered, call>>
    BY <1>5 DEF Boot, ModelRestart, Foreign, past, stackVars
  <2>2. sec.op = "idle" /\ restore # None /\ astray = {} => ~recovered' \/ call'[Watchdog].op = "recover"
    BY <2>1 DEF Meant
  <2> QED
    BY <2>1, <2>2, MeantQuiet
<1>6. CASE Done
  BY <1>6, MeantDone
<1>7. CASE Clean \/ Answered \/ Mark \/ Measure \/ Unmark
  BY <1>7, TestMoves, MeantSection
<1>8. CASE Restored
  BY <1>8, MeantRestored
<1>9. CASE Refuse \/ Fault
  BY <1>9, MeantThrow DEF Refuse, Fault
<1>10. CASE Crash
  BY <1>10, MeantCrash
<1> QED
  BY <1>1, <1>2, <1>3, <1>4, <1>5, <1>6, <1>7, <1>8, <1>9, <1>10 DEF StackNext, Within

(* Live tests, verifications, the watchdog and the recovery of an interrupted run leave
   the rows the finished applies and removes ask for, in their order, unless `astray`
   names one of the four ways the code departs from it (market.ts 3640-3674, 3681-3720,
   3926-3931).  Told says what each request asks of its section, Meant what the section
   and the snapshot it keeps in runtime.restore know of the wanted stack.               *)
THEOREM StackStaysWanted == StackSpec => []StackIsWanted
<1>1. StackInit => Told /\ Meant
  <2> SUFFICES ASSUME StackInit PROVE Told /\ Meant
    OBVIOUS
  <2>1. /\ call = [c \in Callers |-> Idle] /\ sec = Free /\ applied = <<>> /\ wanted = <<>> /\ restore = None
        /\ Calls \subseteq Callers /\ Watchdog \in Callers
    BY DEF StackInit, Callers
  <2>2. \A c \in Callers : AskedFor(call[c]) /\ call[c].op = "idle"
    BY <2>1, AskedForIdle DEF Idle
  <2>3. sec.op = "idle" /\ sec.stage = "free"
    BY <2>1, FreeTyped
  <2>4. Told
    BY <2>1, <2>2, <2>3 DEF Told, Requests
  <2>5. Ids(applied) = wanted /\ NoneTransient
    BY <2>1, NoIds DEF NoneTransient
  <2> QED
    BY <2>1, <2>3, <2>4, <2>5 DEF Meant
<1>2. StackTyped /\ Told /\ Meant /\ [StackNext]_stackVars => Told' /\ Meant'
  BY ToldNext, MeantNext
<1>3. Meant => StackIsWanted
  BY FreeTyped DEF Meant, StackIsWanted
<1> QED
  BY <1>1, <1>2, <1>3, StackTyping, PTL DEF StackSpec

=============================================================================
