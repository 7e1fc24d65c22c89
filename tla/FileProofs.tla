---------------------------- MODULE FileProofs -----------------------------
(***************************************************************************)
(* Proofs about the programs that read a file from its start to its end:   *)
(* the archive reader HW1, the word counter's reader HW3 and the encoder   *)
(* HW2.  What each one finds there is a list of positions in their order.  *)
(***************************************************************************)
EXTENDS Programs, Ascending, Naturals, Sequences, FiniteSets,
        SequenceTheorems, FiniteSetTheorems, WellFoundedInduction, TLAPS

(* q goes through the numbers of A in their order.                         *)
Lists(q, A) ==
  /\ q \in Seq(Nat)
  /\ \A j, k \in DOMAIN q : j < k => q[j] < q[k]
  /\ \A k \in DOMAIN q : q[k] \in A
  /\ \A x \in A : \E k \in DOMAIN q : q[k] = x

-----------------------------------------------------------------------------
(* A set of numbers that is not empty has a smallest element.              *)
LEMMA LeastNatural ==
  ASSUME NEW A \in SUBSET Nat, A # {}
  PROVE  \E m \in A : \A l \in A : m <= l
  <1> DEFINE R == OpToRel(<, Nat)
  <1>1. IsWellFoundedOn(R, Nat)
    BY NatLessThanWellFounded, Zenon
  <1> HIDE DEF R
  <1>2. PICK m \in A : \A l \in A : ~ (<<l, m>> \in R)
    BY <1>1, WFMin
  <1>3. \A l \in A : ~ (l < m)
    BY <1>2 DEF R, OpToRel
  <1> QED BY <1>3

LEMMA ListedCount ==
  ASSUME NEW q \in Seq(Nat), NEW n \in 0 .. Len(q), NEW A,
         \A j, k \in DOMAIN q : j < k => q[j] < q[k],
         A = {q[k] : k \in 1 .. n}
  PROVE  Cardinality(A) = n
  <1>1. Len(q) \in Nat /\ DOMAIN q = 1 .. Len(q) /\ n \in Nat
    BY LenProperties
  <1>2. \A k \in 1 .. n : k \in DOMAIN q /\ q[k] \in Nat
    BY <1>1, ElementOfSeq
  <1> DEFINE f == [k \in 1 .. n |-> q[k]]
  <1>3. f \in [1 .. n -> A]
    OBVIOUS
  <1>4. ASSUME NEW j \in 1 .. n, NEW k \in 1 .. n, f[j] = f[k]
        PROVE  j = k
    <2>1. q[j] = q[k] /\ ~(q[j] < q[k]) /\ ~(q[k] < q[j])
      BY <1>2, <1>4
    <2>2. ~(j < k) /\ ~(k < j)
      BY <1>2, <2>1
    <2> QED BY <2>2
  <1>5. \A x \in A : \E k \in 1 .. n : f[k] = x
    OBVIOUS
  <1>6. f \in Bijection(1 .. n, A)
    BY <1>3, <1>4, <1>5 DEF Bijection, Injection, Surjection, IsInjective
  <1> QED BY <1>1, <1>6, FS_CountingElements DEF ExistsBijection

(* Ascending() is the only such sequence.                                  *)
LEMMA AscendingIs ==
  ASSUME NEW q, NEW A, Lists(q, A)
  PROVE  Ascending(A) = q
  <1>1. /\ q \in Seq(Nat) /\ Len(q) \in Nat /\ DOMAIN q = 1 .. Len(q)
        /\ q \in [1 .. Len(q) -> Nat]
    BY LenProperties DEF Lists
  <1>a. \A k \in 1 .. Len(q) : q[k] \in Nat /\ q[k] \in A
    BY <1>1 DEF Lists
  <1>2. A = {q[k] : k \in 1 .. Len(q)}
    BY <1>1 DEF Lists
  <1>3. Cardinality(A) = Len(q)
    <2>1. Len(q) \in 0 .. Len(q)
      BY <1>1
    <2> QED BY <1>1, <1>2, <2>1, ListedCount DEF Lists
  <1>4. ASSUME NEW k \in 1 .. Len(q)
        PROVE  Rank(A, q[k]) = k - 1
    <2>1. k - 1 \in 0 .. Len(q)
      BY <1>1
    <2>2. ASSUME NEW j \in 1 .. Len(q)
          PROVE  q[j] < q[k] <=> j < k
      <3>1. j < k => q[j] < q[k]
        BY <1>1 DEF Lists
      <3>2. k < j => q[k] < q[j]
        BY <1>1 DEF Lists
      <3>3. j \in Nat /\ k \in Nat /\ q[j] \in Nat /\ q[k] \in Nat
        BY <1>1
      <3> QED BY <3>1, <3>2, <3>3
    <2>3. {y \in A : y < q[k]} = {q[j] : j \in 1 .. k - 1}
      <3>1. \A j : j \in 1 .. k - 1 <=> j \in 1 .. Len(q) /\ j < k
        BY <1>1
      <3> QED BY <1>2, <2>2, <3>1
    <2> QED BY <1>1, <2>1, <2>3, ListedCount DEF Rank, Lists
  <1>5. ASSUME NEW k \in 1 .. Len(q)
        PROVE  (CHOOSE x \in A : Rank(A, x) = k - 1) = q[k]
    <2>1. q[k] \in A /\ Rank(A, q[k]) = k - 1
      BY <1>4, <1>a
    <2>2. ASSUME NEW x \in A, Rank(A, x) = k - 1 PROVE x = q[k]
      <3>1. PICK j \in 1 .. Len(q) : x = q[j]
        BY <1>2
      <3>2. j - 1 = k - 1
        BY <1>4, <2>2, <3>1
      <3>3. j = k
        BY <1>1, <3>2
      <3> QED BY <3>1, <3>3
    <2> QED BY <2>1, <2>2
  <1>6. Ascending(A) = [k \in 1 .. Len(q) |-> q[k]]
    BY <1>3, <1>5 DEF Ascending
  <1> QED BY <1>1, <1>6

LEMMA ListsNothing == Lists(<<>>, {})
  <1>1. <<>> \in Seq(Nat) /\ DOMAIN <<>> = 1 .. 0
    BY EmptySeq, LenProperties
  <1> QED BY <1>1 DEF Lists

LEMMA ListsMore ==
  ASSUME NEW q, NEW A, Lists(q, A), NEW x \in Nat, \A y \in A : y < x
  PROVE  Lists(Append(q, x), A \cup {x})
  <1>1. /\ q \in Seq(Nat) /\ Len(q) \in Nat /\ DOMAIN q = 1 .. Len(q)
    BY LenProperties DEF Lists
  <1>2. /\ Append(q, x) \in Seq(Nat) /\ Len(Append(q, x)) = Len(q) + 1
        /\ \A k \in 1 .. Len(q) : Append(q, x)[k] = q[k]
        /\ Append(q, x)[Len(q) + 1] = x
    BY <1>1, AppendProperties
  <1>3. DOMAIN Append(q, x) = 1 .. Len(q) + 1
    BY <1>2, LenProperties
  <1>4. \A k \in 1 .. Len(q) + 1 : k \in 1 .. Len(q) \/ k = Len(q) + 1
    BY <1>1
  <1>5. ASSUME NEW j \in 1 .. Len(q) + 1, NEW k \in 1 .. Len(q) + 1, j < k
        PROVE  Append(q, x)[j] < Append(q, x)[k]
    <2>1. j \in 1 .. Len(q)
      BY <1>1, <1>5
    <2>2. CASE k = Len(q) + 1
      BY <1>1, <1>2, <2>1, <2>2 DEF Lists
    <2>3. CASE k \in 1 .. Len(q)
      BY <1>1, <1>2, <1>5, <2>1, <2>3 DEF Lists
    <2> QED BY <1>4, <2>2, <2>3
  <1>6. \A k \in 1 .. Len(q) + 1 : Append(q, x)[k] \in A \cup {x}
    BY <1>1, <1>2, <1>4 DEF Lists
  <1>7. \A y \in A \cup {x} : \E k \in 1 .. Len(q) + 1 : Append(q, x)[k] = y
    <2>1. Len(q) + 1 \in 1 .. Len(q) + 1 /\ \A k \in 1 .. Len(q) : k \in 1 .. Len(q) + 1
      BY <1>1
    <2> QED BY <1>1, <1>2, <2>1 DEF Lists
  <1> QED BY <1>2, <1>3, <1>5, <1>6, <1>7 DEF Lists

-----------------------------------------------------------------------------
(* The sequences that FlattenSeq() puts together one by one.               *)
Joining(f, ss, T, n) ==
  /\ f \in [0 .. n -> Seq(T)] /\ f[0] = <<>>
  /\ \A i \in 1 .. n : f[i] = f[i - 1] \o ss[i]

LEMMA JoiningExists ==
  ASSUME NEW T, NEW ss \in Seq(Seq(T))
  PROVE  \E f : Joining(f, ss, T, Len(ss))
  <1>1. Len(ss) \in Nat /\ \A i \in 1 .. Len(ss) : ss[i] \in Seq(T)
    BY LenProperties, ElementOfSeq
  <1> DEFINE Bad == {m \in Nat : m <= Len(ss) /\ ~ \E f : Joining(f, ss, T, m)}
  <1>2. ASSUME Bad # {} PROVE FALSE
    <2>1. PICK m \in Bad : \A l \in Bad : m <= l
      BY <1>2, LeastNatural
    <2>2. m # 0
      <3>1. [i \in 0 .. 0 |-> <<>>] \in [0 .. 0 -> Seq(T)]
        BY EmptySeq
      <3>2. Joining([i \in 0 .. 0 |-> <<>>], ss, T, 0)
        BY <3>1 DEF Joining
      <3> QED BY <2>1, <3>2
    <2>3. PICK n \in Nat : m = n + 1
      <3>1. m - 1 \in Nat /\ m = (m - 1) + 1
        BY <2>2
      <3> QED BY <3>1
    <2>4. n <= Len(ss) /\ m \in 1 .. Len(ss) /\ ~(m <= n)
      BY <1>1, <2>1, <2>3
    <2>a. n \notin Bad
      BY <2>1, <2>4
    <2>b. PICK f : Joining(f, ss, T, n)
      BY <2>3, <2>4, <2>a
    <2>5. /\ f \in [0 .. n -> Seq(T)] /\ f[0] = <<>>
          /\ \A i \in 1 .. n : f[i] = f[i - 1] \o ss[i]
      BY <2>b DEF Joining
    <2> DEFINE g == [i \in 0 .. m |-> IF i = m THEN f[n] \o ss[m] ELSE f[i]]
    <2>6. f[n] \o ss[m] \in Seq(T)
      <3>1. f[n] \in Seq(T)
        BY <2>3, <2>5
      <3> QED BY <1>1, <2>4, <3>1, ConcatProperties
    <2>7. /\ \A i \in 0 .. m : i = m \/ i \in 0 .. n
          /\ \A i \in 1 .. m : i = m \/ i \in 1 .. n
          /\ \A i \in 1 .. n : i - 1 \in 0 .. n /\ i - 1 # m /\ i # m /\ i - 1 \in 0 .. m
          /\ 0 \in 0 .. m /\ 0 # m /\ m - 1 = n /\ n \in 0 .. m /\ n # m
          /\ m \in 0 .. m /\ \A i \in 1 .. m : i \in 0 .. m
      BY <2>2, <2>3
    <2>8. g \in [0 .. m -> Seq(T)]
      BY <2>5, <2>6, <2>7
    <2>9. g[0] = <<>> /\ g[m] = g[m - 1] \o ss[m]
      BY <2>5, <2>7
    <2>10. \A i \in 1 .. n : g[i] = g[i - 1] \o ss[i]
      <3>1. ASSUME NEW i \in 1 .. n PROVE g[i] = g[i - 1] \o ss[i]
        <4>1. i \in 0 .. m /\ i # m /\ i - 1 \in 0 .. m /\ i - 1 # m
          BY <2>7
        <4>2. g[i] = f[i] /\ g[i - 1] = f[i - 1]
          BY <4>1
        <4> QED BY <2>5, <4>2
      <3> QED BY <3>1
    <2>11. Joining(g, ss, T, m)
      <3> HIDE DEF g
      <3> QED BY <2>7, <2>8, <2>9, <2>10 DEF Joining
    <2> QED BY <2>1, <2>11
  <1>3. Len(ss) \notin Bad
    BY <1>2
  <1> QED BY <1>1, <1>3

LEMMA Flattened ==
  ASSUME NEW T, NEW ss \in Seq(Seq(T)), NEW f, Joining(f, ss, T, Len(ss))
  PROVE  Archive!FlattenSeq(ss) = f[Len(ss)]
  <1>1. /\ Len(ss) \in Nat /\ \A i \in 1 .. Len(ss) : ss[i] \in Seq(T)
        /\ f \in [0 .. Len(ss) -> Seq(T)] /\ f[0] = <<>>
        /\ \A i \in 1 .. Len(ss) : f[i] = f[i - 1] \o ss[i]
    BY LenProperties, ElementOfSeq DEF Joining
  <1>a. 1 - 1 = 0
    OBVIOUS
  <1>2. CASE Len(ss) = 0
    <2>1. ss = <<>>
      BY <1>2, EmptySeq
    <2> QED BY <1>1, <1>2, <2>1 DEF Archive!FlattenSeq
  <1>3. CASE Len(ss) # 0
    <2> DEFINE R(h) == [i \in 1 .. Len(ss) |-> IF i = 1 THEN ss[i] ELSE h[i - 1] \o ss[i]]
               flatten == CHOOSE h : h = R(h)
               h0 == [i \in 1 .. Len(ss) |-> f[i]]
    <2>1. h0 = R(h0)
      <3>1. ASSUME NEW i \in 1 .. Len(ss)
            PROVE  f[i] = IF i = 1 THEN ss[i] ELSE h0[i - 1] \o ss[i]
        <4>1. CASE i = 1
          <5>1. f[1] = <<>> \o ss[1] /\ ss[1] \in Seq(T)
            BY <1>1, <1>a, <4>1
          <5> QED BY <4>1, <5>1, ConcatEmptySeq
        <4>2. CASE i # 1
          <5>1. i - 1 \in 1 .. Len(ss)
            BY <1>1, <4>2
          <5> QED BY <1>1, <4>2, <5>1
        <4> QED BY <4>1, <4>2
      <3> QED BY <3>1
    <2>2. flatten = R(flatten)
      BY <2>1
    <2> HIDE DEF h0
    <2>3. \A i \in 1 .. Len(ss) :
            flatten[i] = IF i = 1 THEN ss[i] ELSE flatten[i - 1] \o ss[i]
      <3> HIDE DEF flatten
      <3> QED BY <2>2
    <2> HIDE DEF flatten
    <2> DEFINE Bad == {m \in 1 .. Len(ss) : flatten[m] # f[m]}
    <2>4. ASSUME Bad # {} PROVE FALSE
      <3>1. PICK m \in Bad : \A l \in Bad : m <= l
        <4>1. Bad \in SUBSET Nat
          BY <1>1
        <4> QED BY <2>4, <4>1, LeastNatural
      <3>2. CASE m = 1
        <4>1. f[1] = <<>> \o ss[1] /\ ss[1] \in Seq(T)
          BY <1>1, <1>a, <3>1, <3>2
        <4> QED BY <2>3, <3>1, <3>2, <4>1, ConcatEmptySeq
      <3>3. CASE m # 1
        <4>1. m - 1 \in 1 .. Len(ss) /\ ~(m <= m - 1)
          BY <1>1, <3>1, <3>3
        <4>2. flatten[m - 1] = f[m - 1]
          BY <3>1, <4>1
        <4> QED BY <1>1, <2>3, <3>1, <3>3, <4>2
      <3> QED BY <3>2, <3>3
    <2>5. Len(ss) \in 1 .. Len(ss)
      BY <1>1, <1>3
    <2>6. flatten[Len(ss)] = f[Len(ss)]
      BY <2>4, <2>5
    <2> QED BY <1>3, <2>6 DEF Archive!FlattenSeq, flatten
  <1> QED BY <1>2, <1>3

(* What is behind a sequence does not change it.                           *)
LEMMA Behind ==
  ASSUME NEW T, NEW d \in Seq(T), NEW u \in Seq(T)
  PROVE  /\ d \o u \in Seq(T) /\ Len(d \o u) = Len(d) + Len(u)
         /\ Len(d) \in Nat /\ Len(u) \in Nat
         /\ \A j \in 1 .. Len(d) : (d \o u)[j] = d[j]
         /\ \A j \in 1 .. Len(u) : (d \o u)[Len(d) + j] = u[j]
  <1> DEFINE b == d \o u
  <1>1. Len(d) \in Nat /\ Len(u) \in Nat
    BY LenProperties
  <1>2. /\ b \in Seq(T) /\ Len(b) = Len(d) + Len(u)
        /\ \A j \in 1 .. Len(d) + Len(u) :
             b[j] = IF j <= Len(d) THEN d[j] ELSE u[j - Len(d)]
    BY ConcatProperties
  <1> HIDE DEF b
  <1>3. ASSUME NEW j \in 1 .. Len(d) PROVE b[j] = d[j]
    <2>1. j \in 1 .. Len(d) + Len(u) /\ j <= Len(d)
      BY <1>1
    <2> QED BY <1>2, <2>1
  <1>4. ASSUME NEW j \in 1 .. Len(u) PROVE b[Len(d) + j] = u[j]
    <2>1. Len(d) + j \in 1 .. Len(d) + Len(u)
      BY <1>1
    <2>2. ~(Len(d) + j <= Len(d)) /\ Len(d) + j - Len(d) = j
      BY <1>1
    <2> QED BY <1>2, <2>1, <2>2
  <1> QED BY <1>1, <1>2, <1>3, <1>4 DEF b

(***************************************************************************)
(* Rarjpeg: for any archives with any pictures, entries and ends, and any  *)
(* sizes of the records.                                                   *)
(***************************************************************************)
Unit == {"entry", "end", "byte"} \X Nat
File == [picture : Seq(Unit), entries : Seq([name : Seq(Unit), extra : Seq(Unit)]),
         tail : Seq(Unit)]

Offsets(d, kind) == {i \in 0 .. Len(d) - 1 : d[i + 1][1] = kind}

(* The record at offset i comes with this name.                            *)
NamedAt(d, i, name) ==
  /\ i \in Nat /\ i + HeaderSize + Len(name) <= Len(d)
  /\ d[i + 1][2] = Len(name)
  /\ \A j \in 1 .. Len(name) : d[i + HeaderSize + j] = name[j]

(* A picture and the first n entries, whose records are at the offsets q.  *)
Directory(d, entries, n, q) ==
  /\ d \in Seq(Unit) /\ q \in Seq(Nat) /\ Len(q) = n
  /\ Lists(q, Offsets(d, "entry")) /\ Offsets(d, "end") = {}
  /\ \A k \in 1 .. n : NamedAt(d, q[k], entries[k].name)

LEMMA Header ==
  ASSUME Archive!WellFormed
  PROVE  HeaderSize \in Nat /\ HeaderSize >= 1 /\ EocdSize \in Nat /\ EocdSize >= 1
         /\ MaxComment \in Nat
  BY DEF Archive!WellFormed

LEMMA EntryBytes ==
  ASSUME Archive!WellFormed, NEW e \in [name : Seq(Unit), extra : Seq(Unit)],
         Archive!Plain(e.name), Archive!Plain(e.extra)
  PROVE  LET u == Archive!EntryUnits(e) IN
         /\ u \in Seq(Unit) /\ Len(u) \in Nat /\ HeaderSize + Len(e.name) <= Len(u)
         /\ u[1] = <<"entry", Len(e.name)>>
         /\ \A j \in 2 .. Len(u) : u[j][1] = "byte"
         /\ \A j \in 1 .. Len(e.name) : u[HeaderSize + j] = e.name[j]
  <1> DEFINE first == <<"entry", Len(e.name)>>
             rest == [k \in 1 .. HeaderSize - 1 |-> <<"byte", 0>>]
             a == <<first>> \o rest
             b == a \o e.name
             u == b \o e.extra
  <1>1. /\ e.name \in Seq(Unit) /\ e.extra \in Seq(Unit)
        /\ Len(e.name) \in Nat /\ Len(e.extra) \in Nat
        /\ DOMAIN e.name = 1 .. Len(e.name) /\ DOMAIN e.extra = 1 .. Len(e.extra)
    BY LenProperties
  <1>2. HeaderSize \in Nat /\ HeaderSize >= 1 /\ HeaderSize - 1 \in Nat
    BY Header
  <1>3. first \in Unit /\ <<"byte", 0>> \in Unit /\ first[1] = "entry"
    BY <1>1 DEF Unit
  <1> HIDE DEF first
  <1>4. <<first>> \in Seq(Unit) /\ Len(<<first>>) = 1 /\ <<first>>[1] = first
    BY <1>3
  <1>5. /\ rest \in Seq(Unit) /\ Len(rest) = HeaderSize - 1
        /\ \A j \in 1 .. HeaderSize - 1 : rest[j][1] = "byte"
    <2>1. <<"byte", 0>>[1] = "byte"
      OBVIOUS
    <2> QED BY <1>2, <1>3, <2>1
  <1> HIDE DEF rest
  <1>6. /\ a \in Seq(Unit) /\ Len(a) = HeaderSize /\ a[1] = first
        /\ \A j \in 2 .. HeaderSize : a[j][1] = "byte"
    <2>1. /\ a \in Seq(Unit) /\ Len(a) = 1 + (HeaderSize - 1)
          /\ \A j \in 1 .. 1 + (HeaderSize - 1) :
               a[j] = IF j <= 1 THEN <<first>>[j] ELSE rest[j - 1]
      BY <1>4, <1>5, ConcatProperties
    <2>2. 1 + (HeaderSize - 1) = HeaderSize /\ 1 \in 1 .. HeaderSize /\ 1 <= 1
      BY <1>2
    <2>3. ASSUME NEW j \in 2 .. HeaderSize PROVE a[j][1] = "byte"
      <3>1. j \in 1 .. HeaderSize /\ ~(j <= 1) /\ j - 1 \in 1 .. HeaderSize - 1
        BY <1>2
      <3>2. a[j] = rest[j - 1]
        BY <2>1, <2>2, <3>1
      <3> HIDE DEF a
      <3> QED BY <1>5, <3>1, <3>2
    <2> QED BY <1>4, <2>1, <2>2, <2>3
  <1> HIDE DEF a
  <1>7. /\ b \in Seq(Unit) /\ Len(b) = HeaderSize + Len(e.name)
        /\ \A j \in 1 .. HeaderSize : b[j] = a[j]
        /\ \A j \in 1 .. Len(e.name) : b[HeaderSize + j] = e.name[j]
    <2>1. a \in Seq(Unit) /\ e.name \in Seq(Unit)
      BY <1>1, <1>6
    <2>2. /\ b \in Seq(Unit) /\ Len(b) = Len(a) + Len(e.name)
          /\ \A j \in 1 .. Len(a) : b[j] = a[j]
          /\ \A j \in 1 .. Len(e.name) : b[Len(a) + j] = e.name[j]
      BY <2>1, Behind
    <2> HIDE DEF b
    <2> QED BY <1>6, <2>2
  <1> HIDE DEF b
  <1>8. /\ u \in Seq(Unit) /\ Len(u) = HeaderSize + Len(e.name) + Len(e.extra)
        /\ \A j \in 1 .. HeaderSize + Len(e.name) : u[j] = b[j]
        /\ \A j \in 1 .. Len(e.extra) : u[HeaderSize + Len(e.name) + j] = e.extra[j]
    <2>1. b \in Seq(Unit) /\ e.extra \in Seq(Unit)
      BY <1>1, <1>7
    <2>2. /\ u \in Seq(Unit) /\ Len(u) = Len(b) + Len(e.extra)
          /\ \A j \in 1 .. Len(b) : u[j] = b[j]
          /\ \A j \in 1 .. Len(e.extra) : u[Len(b) + j] = e.extra[j]
      BY <2>1, Behind
    <2> HIDE DEF u
    <2> QED BY <1>7, <2>2
  <1> HIDE DEF u
  <1>9. ASSUME NEW j \in 2 .. Len(u) PROVE u[j][1] = "byte"
    <2>1. CASE j <= HeaderSize
      <3>1. j \in 1 .. HeaderSize + Len(e.name) /\ j \in 1 .. HeaderSize /\ j \in 2 .. HeaderSize
        BY <1>1, <1>2, <2>1
      <3> QED BY <1>6, <1>7, <1>8, <3>1
    <2>2. CASE j > HeaderSize /\ j <= HeaderSize + Len(e.name)
      <3>1. PICK k \in 1 .. Len(e.name) : j = HeaderSize + k
        <4>1. j - HeaderSize \in 1 .. Len(e.name) /\ j = HeaderSize + (j - HeaderSize)
          BY <1>1, <1>2, <2>2
        <4> QED BY <4>1
      <3>2. j \in 1 .. HeaderSize + Len(e.name)
        BY <1>1, <1>2, <2>2
      <3>3. u[j] = e.name[k]
        BY <1>7, <1>8, <3>1, <3>2
      <3> QED BY <1>1, <3>1, <3>3 DEF Archive!Plain
    <2>3. CASE j > HeaderSize + Len(e.name)
      <3>1. PICK k \in 1 .. Len(e.extra) : j = HeaderSize + Len(e.name) + k
        <4>1. /\ j - (HeaderSize + Len(e.name)) \in 1 .. Len(e.extra)
              /\ j = HeaderSize + Len(e.name) + (j - (HeaderSize + Len(e.name)))
          BY <1>1, <1>2, <1>8, <2>3
        <4> QED BY <4>1
      <3>3. u[j] = e.extra[k]
        BY <1>8, <3>1
      <3> QED BY <1>1, <3>1, <3>3 DEF Archive!Plain
    <2> QED BY <1>1, <1>2, <2>1, <2>2, <2>3
  <1>10. \A j \in 1 .. Len(e.name) : u[HeaderSize + j] = e.name[j]
    <2>1. \A j \in 1 .. Len(e.name) : HeaderSize + j \in 1 .. HeaderSize + Len(e.name)
      BY <1>1, <1>2
    <2> QED BY <1>7, <1>8, <2>1
  <1>11. u[1] = first
    <2>1. 1 \in 1 .. HeaderSize /\ 1 \in 1 .. HeaderSize + Len(e.name)
      BY <1>1, <1>2
    <2> QED BY <1>6, <1>7, <1>8, <2>1
  <1>12. Len(u) \in Nat /\ HeaderSize + Len(e.name) <= Len(u)
    BY <1>1, <1>2, <1>8
  <1>13. Archive!EntryUnits(e) = u
    BY DEF Archive!EntryUnits, u, b, a, rest, first
  <1> QED BY <1>8, <1>9, <1>10, <1>11, <1>12, <1>13 DEF first

LEMMA NamedStill ==
  ASSUME Archive!WellFormed, NEW d \in Seq(Unit), NEW u \in Seq(Unit), NEW i,
         NEW name \in Seq(Unit), NamedAt(d, i, name)
  PROVE  NamedAt(d \o u, i, name)
  <1> DEFINE b == d \o u
  <1>1. /\ Len(b) = Len(d) + Len(u) /\ Len(d) \in Nat /\ Len(u) \in Nat
        /\ \A j \in 1 .. Len(d) : b[j] = d[j]
    BY Behind
  <1> HIDE DEF b
  <1>2. /\ i \in Nat /\ Len(name) \in Nat /\ HeaderSize \in Nat /\ HeaderSize >= 1
        /\ i + HeaderSize + Len(name) <= Len(d)
    BY Header, LenProperties DEF NamedAt
  <1>3. i + 1 \in 1 .. Len(d) /\ \A j \in 1 .. Len(name) : i + HeaderSize + j \in 1 .. Len(d)
    BY <1>1, <1>2
  <1>4. i + HeaderSize + Len(name) <= Len(b)
    BY <1>1, <1>2
  <1>5. NamedAt(b, i, name)
    BY <1>1, <1>2, <1>3, <1>4 DEF NamedAt
  <1> QED BY <1>5 DEF b

(* One more entry in the directory.                                        *)
LEMMA EntryAdded ==
  ASSUME Archive!WellFormed, NEW d, NEW entries, NEW n \in Nat, NEW q,
         Directory(d, entries, n, q), NEW u \in Seq(Unit),
         \A k \in 1 .. n + 1 : entries[k].name \in Seq(Unit),
         HeaderSize + Len(entries[n + 1].name) <= Len(u),
         u[1] = <<"entry", Len(entries[n + 1].name)>>,
         \A j \in 2 .. Len(u) : u[j][1] = "byte",
         \A j \in 1 .. Len(entries[n + 1].name) :
           u[HeaderSize + j] = entries[n + 1].name[j]
  PROVE  Directory(d \o u, entries, n + 1, Append(q, Len(d)))
  <1> DEFINE b == d \o u
             name == entries[n + 1].name
  <1>0. n + 1 \in 1 .. n + 1
    OBVIOUS
  <1>1. /\ d \in Seq(Unit) /\ q \in Seq(Nat) /\ Len(q) = n
        /\ Lists(q, Offsets(d, "entry")) /\ Offsets(d, "end") = {}
        /\ \A k \in 1 .. n : NamedAt(d, q[k], entries[k].name)
        /\ name \in Seq(Unit) /\ Len(name) \in Nat
    BY <1>0, LenProperties DEF Directory
  <1> HIDE DEF name
  <1>2. /\ b \in Seq(Unit) /\ Len(b) = Len(d) + Len(u)
        /\ Len(d) \in Nat /\ Len(u) \in Nat
        /\ \A j \in 1 .. Len(d) : b[j] = d[j]
        /\ \A j \in 1 .. Len(u) : b[Len(d) + j] = u[j]
    BY <1>1, Behind
  <1> HIDE DEF b
  <1>3. HeaderSize \in Nat /\ HeaderSize >= 1 /\ HeaderSize + Len(name) <= Len(u)
    BY Header DEF name
  <1>4. b[Len(d) + 1] = <<"entry", Len(name)>> /\ 1 \in 1 .. Len(u)
    <2>1. 1 \in 1 .. Len(u)
      BY <1>1, <1>2, <1>3
    <2> QED BY <1>2, <2>1 DEF name
  <1>5. ASSUME NEW i \in 0 .. Len(b) - 1
        PROVE  \/ i \in 0 .. Len(d) - 1 /\ b[i + 1] = d[i + 1]
               \/ i = Len(d)
               \/ i > Len(d) /\ b[i + 1][1] = "byte"
    <2>1. CASE i < Len(d)
      <3>1. i \in 0 .. Len(d) - 1 /\ i + 1 \in 1 .. Len(d)
        BY <1>2, <2>1
      <3> QED BY <1>2, <3>1
    <2>2. CASE i > Len(d)
      <3>1. PICK j \in 2 .. Len(u) : i + 1 = Len(d) + j
        <4>1. i + 1 - Len(d) \in 2 .. Len(u) /\ i + 1 = Len(d) + (i + 1 - Len(d))
          BY <1>2, <2>2
        <4> QED BY <4>1
      <3>2. j \in 1 .. Len(u) /\ u[j][1] = "byte"
        BY <1>2
      <3>3. b[i + 1] = u[j]
        BY <1>2, <3>1, <3>2
      <3> QED BY <2>2, <3>2, <3>3
    <2> QED BY <1>2, <2>1, <2>2
  <1>6. Len(d) \in 0 .. Len(b) - 1 /\ \A i \in 0 .. Len(d) - 1 : i \in 0 .. Len(b) - 1
    BY <1>1, <1>2, <1>3
  <1>7. Offsets(b, "entry") = Offsets(d, "entry") \cup {Len(d)}
    <2>1. ASSUME NEW i \in Offsets(b, "entry")
          PROVE  i \in Offsets(d, "entry") \cup {Len(d)}
      BY <1>5, <2>1 DEF Offsets
    <2>2. Len(d) \in Offsets(b, "entry")
      BY <1>4, <1>6 DEF Offsets
    <2>3. ASSUME NEW i \in Offsets(d, "entry") PROVE i \in Offsets(b, "entry")
      <3>1. i \in 0 .. Len(d) - 1 /\ i + 1 \in 1 .. Len(d) /\ d[i + 1][1] = "entry"
        BY <1>2, <2>3 DEF Offsets
      <3> QED BY <1>2, <1>6, <3>1 DEF Offsets
    <2> QED BY <2>1, <2>2, <2>3
  <1>8. Offsets(b, "end") = {}
    <2> SUFFICES ASSUME NEW i \in Offsets(b, "end") PROVE FALSE
      OBVIOUS
    <2>1. i \in 0 .. Len(b) - 1 /\ b[i + 1][1] = "end"
      BY DEF Offsets
    <2>2. CASE i = Len(d)
      BY <1>4, <2>1, <2>2
    <2>3. CASE i \in 0 .. Len(d) - 1 /\ b[i + 1] = d[i + 1]
      <3>1. i \in Offsets(d, "end")
        BY <2>1, <2>3 DEF Offsets
      <3> QED BY <1>1, <3>1
    <2> QED BY <1>5, <2>1, <2>2, <2>3
  <1>9. Lists(Append(q, Len(d)), Offsets(b, "entry"))
    <2>1. \A i \in Offsets(d, "entry") : i < Len(d)
      BY <1>2 DEF Offsets
    <2>2. Lists(q, Offsets(d, "entry")) /\ Len(d) \in Nat
      BY <1>1, <1>2
    <2>3. Lists(Append(q, Len(d)), Offsets(d, "entry") \cup {Len(d)})
      BY <2>1, <2>2, ListsMore
    <2> QED BY <1>7, <2>3
  <1>10. /\ Append(q, Len(d)) \in Seq(Nat) /\ Len(Append(q, Len(d))) = n + 1
         /\ \A k \in 1 .. n : Append(q, Len(d))[k] = q[k]
         /\ Append(q, Len(d))[n + 1] = Len(d)
    BY <1>1, <1>2, AppendProperties
  <1>11. NamedAt(b, Len(d), name)
    <2>1. Len(d) + HeaderSize + Len(name) <= Len(b)
      BY <1>1, <1>2, <1>3
    <2>2. b[Len(d) + 1][2] = Len(name)
      BY <1>4
    <2>3. ASSUME NEW j \in 1 .. Len(name)
          PROVE  b[Len(d) + HeaderSize + j] = name[j]
      <3>1. PICK k \in 1 .. Len(u) : k = HeaderSize + j
        BY <1>1, <1>2, <1>3
      <3>2. Len(d) + HeaderSize + j = Len(d) + k
        BY <1>1, <1>2, <1>3, <3>1
      <3>3. u[k] = name[j]
        BY <3>1 DEF name
      <3> QED BY <1>2, <3>1, <3>2, <3>3
    <2> QED BY <1>2, <2>1, <2>2, <2>3 DEF NamedAt
  <1>12. \A k \in 1 .. n + 1 : NamedAt(b, Append(q, Len(d))[k], entries[k].name)
    <2>1. ASSUME NEW k \in 1 .. n
          PROVE  NamedAt(b, Append(q, Len(d))[k], entries[k].name)
      <3>1. entries[k].name \in Seq(Unit)
        OBVIOUS
      <3> QED BY <1>1, <1>10, <3>1, NamedStill DEF b
    <2>2. NamedAt(b, Append(q, Len(d))[n + 1], entries[n + 1].name)
      BY <1>10, <1>11 DEF name
    <2>3. \A k \in 1 .. n + 1 : k \in 1 .. n \/ k = n + 1
      OBVIOUS
    <2> QED BY <2>1, <2>2, <2>3
  <1> QED BY <1>2, <1>8, <1>9, <1>10, <1>12 DEF Directory, b

(* A file without accidental signatures: its directory and its tail.       *)
LEMMA DirectoryRead ==
  ASSUME Archive!WellFormed, NEW f \in File, Archive!Plain(f.picture),
         Archive!PlainEntries(f)
  PROVE  \E d, q : /\ Archive!Units(f) = d \o f.tail
                   /\ Directory(d, f.entries, Len(f.entries), q)
  <1> DEFINE n == Len(f.entries)
             ss == [k \in DOMAIN f.entries |-> Archive!EntryUnits(f.entries[k])]
  <1>1. /\ f.picture \in Seq(Unit) /\ f.tail \in Seq(Unit)
        /\ f.entries \in Seq([name : Seq(Unit), extra : Seq(Unit)])
    BY DEF File
  <1>2. n \in Nat /\ DOMAIN f.entries = 1 .. n
    BY <1>1, LenProperties
  <1>3. \A k \in 1 .. n : f.entries[k] \in [name : Seq(Unit), extra : Seq(Unit)]
    BY <1>1, ElementOfSeq
  <1>4. ASSUME NEW k \in 1 .. n
        PROVE  /\ ss[k] \in Seq(Unit)
               /\ f.entries[k].name \in Seq(Unit)
               /\ HeaderSize + Len(f.entries[k].name) <= Len(ss[k])
               /\ ss[k][1] = <<"entry", Len(f.entries[k].name)>>
               /\ \A j \in 2 .. Len(ss[k]) : ss[k][j][1] = "byte"
               /\ \A j \in 1 .. Len(f.entries[k].name) :
                    ss[k][HeaderSize + j] = f.entries[k].name[j]
    <2>1. ss[k] = Archive!EntryUnits(f.entries[k])
      BY <1>2
    <2>2. Archive!Plain(f.entries[k].name) /\ Archive!Plain(f.entries[k].extra)
      BY <1>2 DEF Archive!PlainEntries
    <2>3. PICK e \in [name : Seq(Unit), extra : Seq(Unit)] : e = f.entries[k]
      BY <1>3
    <2> HIDE DEF ss
    <2> QED BY <2>1, <2>2, <2>3, EntryBytes
  <1>5. ss \in Seq(Seq(Unit)) /\ Len(ss) = n
    <2>1. ss = [k \in 1 .. n |-> Archive!EntryUnits(f.entries[k])]
      BY <1>2
    <2>2. \A k \in 1 .. n : Archive!EntryUnits(f.entries[k]) \in Seq(Unit)
      BY <1>2, <1>4
    <2> QED BY <1>2, <2>1, <2>2
  <1> HIDE DEF ss
  <1>6. PICK g : Joining(g, ss, Unit, n)
    BY <1>5, JoiningExists
  <1>7. Archive!FlattenSeq(ss) = g[n]
    BY <1>5, <1>6, Flattened
  <1>8. /\ g \in [0 .. n -> Seq(Unit)] /\ g[0] = <<>>
        /\ \A i \in 1 .. n : g[i] = g[i - 1] \o ss[i]
    BY <1>6 DEF Joining
  <1> DEFINE Bad == {i \in 0 .. n : ~ \E q : Directory(f.picture \o g[i], f.entries, i, q)}
  <1>9. 0 \notin Bad
    <2>1. f.picture \o g[0] = f.picture
      BY <1>1, <1>8, ConcatEmptySeq
    <2>2. /\ Offsets(f.picture, "entry") = {} /\ Offsets(f.picture, "end") = {}
      <3>1. \A i \in 0 .. Len(f.picture) - 1 : f.picture[i + 1][1] = "byte"
        <4>1. DOMAIN f.picture = 1 .. Len(f.picture) /\ Len(f.picture) \in Nat
          BY <1>1, LenProperties
        <4>2. \A i \in 0 .. Len(f.picture) - 1 : i + 1 \in 1 .. Len(f.picture)
          BY <4>1
        <4> QED BY <4>1, <4>2 DEF Archive!Plain
      <3> QED BY <3>1 DEF Offsets
    <2>3. <<>> \in Seq(Nat) /\ Len(<<>>) = 0 /\ 1 .. 0 = {}
      BY EmptySeq
    <2>4. Directory(f.picture, f.entries, 0, <<>>)
      BY <1>1, <2>2, <2>3, ListsNothing DEF Directory
    <2> QED BY <2>1, <2>4
  <1>10. ASSUME NEW i \in 0 .. n - 1, i \notin Bad PROVE i + 1 \notin Bad
    <2>1. i \in 0 .. n /\ i + 1 \in 1 .. n /\ i + 1 - 1 = i /\ i \in Nat
      BY <1>2
    <2>2. PICK q : Directory(f.picture \o g[i], f.entries, i, q)
      BY <1>10, <2>1
    <2>3. f.picture \o g[i + 1] = (f.picture \o g[i]) \o ss[i + 1]
      <3>1. g[i] \in Seq(Unit) /\ ss[i + 1] \in Seq(Unit) /\ g[i + 1] = g[i] \o ss[i + 1]
        <4>1. PICK k \in 1 .. n : k = i + 1 /\ k - 1 = i
          BY <2>1
        <4>2. g[k] = g[k - 1] \o ss[k] /\ ss[k] \in Seq(Unit)
          BY <1>4, <1>8
        <4> QED BY <1>8, <2>1, <4>1, <4>2
      <3>2. PICK x, y, z \in Seq(Unit) :
              x = f.picture /\ y = g[i] /\ z = ss[i + 1]
        BY <1>1, <3>1
      <3>3. x \o (y \o z) = (x \o y) \o z
        BY ConcatAssociative
      <3> QED BY <3>1, <3>2, <3>3
    <2>4. \A k \in 1 .. i + 1 : f.entries[k].name \in Seq(Unit)
      <3>1. \A k \in 1 .. i + 1 : k \in 1 .. n
        BY <1>2, <2>1
      <3> QED BY <1>4, <3>1
    <2>5. PICK u \in Seq(Unit) : u = ss[i + 1]
      BY <1>4, <2>1
    <2>6. /\ HeaderSize + Len(f.entries[i + 1].name) <= Len(u)
          /\ u[1] = <<"entry", Len(f.entries[i + 1].name)>>
          /\ \A j \in 2 .. Len(u) : u[j][1] = "byte"
          /\ \A j \in 1 .. Len(f.entries[i + 1].name) :
               u[HeaderSize + j] = f.entries[i + 1].name[j]
      BY <1>4, <2>1, <2>5
    <2>7. Directory((f.picture \o g[i]) \o u, f.entries, i + 1,
                    Append(q, Len(f.picture \o g[i])))
      BY <2>1, <2>2, <2>4, <2>6, EntryAdded
    <2> QED BY <2>3, <2>5, <2>7
  <1>11. ASSUME Bad # {} PROVE FALSE
    <2>1. PICK m \in Bad : \A l \in Bad : m <= l
      <3>1. Bad \in SUBSET Nat
        BY <1>2
      <3> QED BY <1>11, <3>1, LeastNatural
    <2>2. m \in 0 .. n /\ m # 0
      BY <1>9, <2>1
    <2>3. m - 1 \in 0 .. n - 1 /\ ~(m <= m - 1) /\ (m - 1) + 1 = m
      BY <1>2, <2>2
    <2>4. m - 1 \notin Bad
      BY <2>1, <2>3
    <2> HIDE DEF Bad
    <2> QED BY <1>10, <2>1, <2>3, <2>4
  <1>12. \E q : Directory(f.picture \o g[n], f.entries, n, q)
    <2>1. n \in 0 .. n
      BY <1>2
    <2> QED BY <1>11, <2>1
  <1>13. Archive!Units(f) = (f.picture \o g[n]) \o f.tail
    BY <1>7 DEF Archive!Units, ss
  <1> QED BY <1>12, <1>13

(* The records that the reader finds in such a file.                       *)
LEMMA FoundEntries ==
  ASSUME Archive!WellFormed, NEW d, NEW es, NEW n, NEW q, Directory(d, es, n, q),
         NEW tail \in Seq(Unit), \A j \in 1 .. Len(tail) : tail[j][1] # "entry"
  PROVE  Archive!Found(d \o tail, "entry", HeaderSize) = Offsets(d, "entry")
  <1> DEFINE b == d \o tail
  <1>1. /\ d \in Seq(Unit) /\ Lists(q, Offsets(d, "entry")) /\ DOMAIN q = 1 .. n
        /\ \A k \in 1 .. n : NamedAt(d, q[k], es[k].name)
    BY LenProperties DEF Directory
  <1>2. /\ Len(b) = Len(d) + Len(tail) /\ Len(d) \in Nat /\ Len(tail) \in Nat
        /\ \A j \in 1 .. Len(d) : b[j] = d[j]
        /\ \A j \in 1 .. Len(tail) : b[Len(d) + j] = tail[j]
    BY <1>1, Behind
  <1> HIDE DEF b
  <1>3. HeaderSize \in Nat
    BY Header
  <1>4. ASSUME NEW i \in 0 .. Len(b) - 1, b[i + 1][1] = "entry"
        PROVE  i \in Offsets(d, "entry")
    <2>1. CASE i < Len(d)
      <3>1. i \in 0 .. Len(d) - 1 /\ i + 1 \in 1 .. Len(d)
        BY <1>2, <2>1
      <3>2. b[i + 1] = d[i + 1]
        BY <1>2, <3>1
      <3> QED BY <1>4, <3>1, <3>2 DEF Offsets
    <2>2. CASE i >= Len(d)
      <3>1. PICK j \in 1 .. Len(tail) : i + 1 = Len(d) + j
        <4>1. i + 1 - Len(d) \in 1 .. Len(tail) /\ i + 1 = Len(d) + (i + 1 - Len(d))
          BY <1>2, <2>2
        <4> QED BY <4>1
      <3>2. b[i + 1] = tail[j]
        BY <1>2, <3>1
      <3> QED BY <1>4, <3>2
    <2> QED BY <1>2, <2>1, <2>2
  <1>5. ASSUME NEW i \in Offsets(d, "entry")
        PROVE  /\ i \in 0 .. Len(b) - 1 /\ i + HeaderSize <= Len(b)
               /\ b[i + 1][1] = "entry"
    <2>1. i \in 0 .. Len(d) - 1 /\ i + 1 \in 1 .. Len(d) /\ d[i + 1][1] = "entry"
      BY <1>2 DEF Offsets
    <2>2. PICK k \in 1 .. n : q[k] = i
      BY <1>1 DEF Lists
    <2>3. NamedAt(d, i, es[k].name)
      BY <1>1, <2>2
    <2>4. d[i + 1][2] \in Nat
      <3>1. d[i + 1] \in Unit
        BY <1>1, <2>1, ElementOfSeq
      <3> QED BY <3>1 DEF Unit
    <2>5. PICK len \in Nat : len = Len(es[k].name) /\ i + HeaderSize + len <= Len(d)
      BY <2>3, <2>4 DEF NamedAt
    <2>6. i + HeaderSize <= Len(b) /\ i \in 0 .. Len(b) - 1
      <3>1. PICK x, y, h \in Nat : x = Len(d) /\ y = Len(tail) /\ h = HeaderSize
        BY <1>2, <1>3
      <3>2. i + h + len <= x /\ Len(b) = x + y /\ i \in 0 .. x - 1
        BY <1>2, <2>1, <2>5, <3>1
      <3>3. i + h <= x + y /\ i \in 0 .. (x + y) - 1
        BY <3>2
      <3> QED BY <3>1, <3>2, <3>3
    <2> QED BY <1>2, <2>1, <2>6
  <1>6. Archive!Found(b, "entry", HeaderSize) = Offsets(d, "entry")
    BY <1>4, <1>5 DEF Archive!Found
  <1> QED BY <1>6 DEF b

LEMMA FoundEnds ==
  ASSUME Archive!WellFormed, NEW d, NEW es, NEW n, NEW q, Directory(d, es, n, q),
         NEW tail \in Seq(Unit)
  PROVE  LET ends == Archive!Found(d \o tail, "end", EocdSize) IN
         /\ \A i \in ends : \E j \in 1 .. Len(tail) :
              tail[j][1] = "end" /\ i + 1 = Len(d) + j
         /\ tail # <<>> /\ tail[1][1] = "end" /\ EocdSize <= Len(tail) =>
              Len(d) \in ends
         /\ Len(d \o tail) = Len(d) + Len(tail) /\ Len(d) \in Nat
         /\ Len(tail) \in Nat
  <1> DEFINE b == d \o tail
  <1>1. d \in Seq(Unit) /\ Offsets(d, "end") = {}
    BY DEF Directory
  <1>2. /\ Len(b) = Len(d) + Len(tail) /\ Len(d) \in Nat /\ Len(tail) \in Nat
        /\ \A j \in 1 .. Len(d) : b[j] = d[j]
        /\ \A j \in 1 .. Len(tail) : b[Len(d) + j] = tail[j]
    BY <1>1, Behind
  <1> HIDE DEF b
  <1>3. EocdSize \in Nat /\ EocdSize >= 1
    BY Header
  <1>4. ASSUME NEW i \in Archive!Found(b, "end", EocdSize)
        PROVE  \E j \in 1 .. Len(tail) : tail[j][1] = "end" /\ i + 1 = Len(d) + j
    <2>0. i \in 0 .. Len(b) - 1 /\ b[i + 1][1] = "end"
      BY DEF Archive!Found
    <2>1. CASE i < Len(d)
      <3>1. i \in 0 .. Len(d) - 1 /\ i + 1 \in 1 .. Len(d)
        BY <1>2, <2>0, <2>1
      <3>2. b[i + 1] = d[i + 1]
        BY <1>2, <3>1
      <3> QED BY <1>1, <2>0, <3>1, <3>2 DEF Offsets
    <2>2. CASE i >= Len(d)
      <3>1. PICK j \in 1 .. Len(tail) : i + 1 = Len(d) + j
        <4>1. i + 1 - Len(d) \in 1 .. Len(tail) /\ i + 1 = Len(d) + (i + 1 - Len(d))
          BY <1>2, <2>0, <2>2
        <4> QED BY <4>1
      <3>2. b[i + 1] = tail[j]
        BY <1>2, <3>1
      <3> QED BY <2>0, <3>1, <3>2
    <2> QED BY <1>2, <2>0, <2>1, <2>2
  <1>5. ASSUME tail[1][1] = "end", EocdSize <= Len(tail)
        PROVE  Len(d) \in Archive!Found(b, "end", EocdSize)
    <2>1. 1 \in 1 .. Len(tail) /\ Len(d) \in 0 .. Len(b) - 1 /\ Len(d) + EocdSize <= Len(b)
      BY <1>2, <1>3, <1>5
    <2>2. b[Len(d) + 1] = tail[1]
      BY <1>2, <2>1
    <2> QED BY <1>5, <2>1, <2>2 DEF Archive!Found
  <1> QED BY <1>2, <1>4, <1>5 DEF b

LEMMA ArchiveAscending == \A A : Archive!Ascending(A) = Ascending(A)
  BY DEF Ascending, Rank, Cardinality, Archive!Ascending, Archive!Rank,
         Archive!Cardinality

(* The names are printed in full, in their order.                          *)
LEMMA NamesListed ==
  ASSUME Archive!WellFormed, NEW d, NEW es, NEW n \in Nat, NEW q,
         Directory(d, es, n, q), \A k \in 1 .. n : es[k].name \in Seq(Unit),
         NEW tail \in Seq(Unit), \A j \in 1 .. Len(tail) : tail[j][1] # "entry",
         NEW rest
  PROVE  Archive!NamesOf(d \o tail, rest) = [k \in 1 .. n |-> es[k].name]
  <1> DEFINE b == d \o tail
  <1>1. /\ d \in Seq(Unit) /\ Lists(q, Offsets(d, "entry")) /\ DOMAIN q = 1 .. n
        /\ \A k \in 1 .. n : NamedAt(d, q[k], es[k].name)
    BY LenProperties DEF Directory
  <1>2. b \in Seq(Unit)
    BY <1>1, Behind
  <1>3. Archive!Ascending(Archive!Found(b, "entry", HeaderSize)) = q
    <2>1. Ascending(Offsets(d, "entry")) = q
      BY <1>1, AscendingIs
    <2>2. Archive!Found(b, "entry", HeaderSize) = Offsets(d, "entry")
      BY FoundEntries
    <2> HIDE DEF b
    <2> QED BY <2>1, <2>2, ArchiveAscending
  <1>4. ASSUME NEW k \in 1 .. n
        PROVE  Archive!NameAt(b, q[k], rest) = es[k].name
    <2> DEFINE name == es[k].name
    <2>1. NamedAt(b, q[k], name) /\ name \in Seq(Unit)
      BY <1>1, NamedStill
    <2> HIDE DEF name, b
    <2>2. PICK i \in Nat, len \in Nat, h \in Nat :
            /\ i = q[k] /\ len = Len(name) /\ h = HeaderSize
            /\ b[i + 1][2] = len /\ i + h + len <= Len(b)
            /\ \A j \in 1 .. len : b[i + h + j] = name[j]
      <3>1. HeaderSize \in Nat /\ Len(name) \in Nat
        BY <2>1, Header, LenProperties
      <3>2. /\ q[k] \in Nat /\ b[q[k] + 1][2] = Len(name)
            /\ q[k] + HeaderSize + Len(name) <= Len(b)
            /\ \A j \in 1 .. Len(name) : b[q[k] + HeaderSize + j] = name[j]
        BY <2>1 DEF NamedAt
      <3> QED BY <3>1, <3>2
    <2>3. Archive!NameAt(b, i, rest) = SubSeq(b, i + h + 1, i + h + len)
      BY <2>2 DEF Archive!NameAt
    <2>4. PICK m \in Nat, l \in Nat : m = i + h + 1 /\ l = i + h + len
      OBVIOUS
    <2>5. \A j \in m .. l : j \in 1 .. Len(b)
      <3>1. PICK x \in Nat : x = Len(b)
        BY <1>2, LenProperties
      <3>2. i + h + len <= x
        BY <2>2, <3>1
      <3>3. \A j \in i + h + 1 .. i + h + len : j \in 1 .. x
        BY <3>2
      <3> QED BY <2>4, <3>1, <3>3
    <2>6. \A j \in m .. l : b[j] \in Unit
      BY <1>2, <2>5, ElementOfSeq
    <2>7. /\ SubSeq(b, m, l) \in Seq(Unit)
          /\ Len(SubSeq(b, m, l)) = IF m <= l THEN l - m + 1 ELSE 0
          /\ \A j \in 1 .. l - m + 1 : SubSeq(b, m, l)[j] = b[m + j - 1]
      <3>1. m \in Int /\ l \in Int
        OBVIOUS
      <3> QED BY <2>6, <3>1, SubSeqProperties
    <2>8. l - m + 1 = len /\ (~(m <= l) => len = 0)
          /\ \A j \in 1 .. len : m + j - 1 = i + h + j
      BY <2>4
    <2>9. /\ Len(SubSeq(b, m, l)) = Len(name)
          /\ \A j \in 1 .. len : SubSeq(b, m, l)[j] = name[j]
      BY <2>2, <2>7, <2>8
    <2>10. SubSeq(b, m, l) = name
      BY <2>1, <2>2, <2>7, <2>9, SeqEqual
    <2> QED BY <2>2, <2>3, <2>4, <2>10 DEF name
  <1>5. Archive!NamesOf(b, rest) = [k \in 1 .. n |-> Archive!NameAt(b, q[k], rest)]
    BY <1>1, <1>3 DEF Archive!NamesOf
  <1> HIDE DEF b
  <1>6. Archive!NamesOf(b, rest) = [k \in 1 .. n |-> es[k].name]
    BY <1>4, <1>5
  <1> QED BY <1>6 DEF b

-----------------------------------------------------------------------------
(* What may be said of a file of the command line, and of its line of the  *)
(* output.                                                                 *)
Correct(f, line) ==
  LET fits == line.result # "unreadable" IN
  /\ fits /\ Archive!Intact(f) =>
       line = [result |-> "Rarjpeg",
               names |-> [e \in DOMAIN f.entries |-> f.entries[e].name]]
  /\ /\ fits /\ Archive!Plain(f.picture) /\ Archive!PlainEntries(f)
     /\ \/ Archive!Plain(f.tail)
        \/ Archive!Plain(Tail(f.tail)) /\ Len(f.tail) > EocdSize + MaxComment
     => line.result = "non-Rarjpeg"

ArchiveInv ==
  /\ input \in RarjpegInputs /\ local \in [i : Nat \ {0}]
  /\ \E T : output \in Seq(T)
  /\ Len(output) = local.i - 1
  /\ step \in {"open", "check", "print"} => local.i <= Len(input)
  /\ step = "print" => Archive!IsRarjpegFile(Archive!Units(input[local.i]))
  /\ \A k \in 1 .. Len(output) : Correct(input[k], output[k])

LEMMA TailBytes ==
  ASSUME NEW s \in Seq(Unit), s # <<>>, Archive!Plain(Tail(s))
  PROVE  \A j \in 2 .. Len(s) : s[j][1] = "byte"
  <1>1. Len(s) \in Nat /\ Tail(s) \in Seq(Unit) /\ Len(Tail(s)) = Len(s) - 1
        /\ \A i \in 1 .. Len(Tail(s)) : Tail(s)[i] = s[i + 1]
    BY HeadTailProperties, LenProperties
  <1>2. DOMAIN Tail(s) = 1 .. Len(s) - 1
    BY <1>1, LenProperties
  <1>3. ASSUME NEW j \in 2 .. Len(s) PROVE s[j][1] = "byte"
    <2>1. PICK i \in 1 .. Len(s) - 1 : i + 1 = j
      <3>1. j - 1 \in 1 .. Len(s) - 1 /\ (j - 1) + 1 = j
        BY <1>1
      <3> QED BY <3>1
    <2>2. Tail(s)[i][1] = "byte"
      BY <1>2, <2>1 DEF Archive!Plain
    <2> QED BY <1>1, <2>1, <2>2
  <1> QED BY <1>3

(* An archive is recognised, and listed.                                   *)
LEMMA IntactListed ==
  ASSUME Archive!WellFormed, NEW f \in File, Archive!Intact(f), NEW rest
  PROVE  /\ Archive!IsRarjpegFile(Archive!Units(f))
         /\ Archive!NamesOf(Archive!Units(f), rest)
              = [e \in DOMAIN f.entries |-> f.entries[e].name]
  <1>1. /\ f.tail # <<>> /\ f.tail[1][1] = "end"
        /\ Len(f.tail) \in EocdSize .. EocdSize + MaxComment
        /\ Archive!Plain(f.picture) /\ Archive!PlainEntries(f)
        /\ Archive!Plain(Tail(f.tail))
    BY DEF Archive!Intact
  <1>2. f.tail \in Seq(Unit) /\ f.entries \in Seq([name : Seq(Unit), extra : Seq(Unit)])
    BY DEF File
  <1>3. PICK d, q : /\ Archive!Units(f) = d \o f.tail
                    /\ Directory(d, f.entries, Len(f.entries), q)
    BY <1>1, DirectoryRead
  <1>4. /\ EocdSize \in Nat /\ MaxComment \in Nat /\ Len(f.tail) \in Nat
        /\ Len(f.entries) \in Nat /\ DOMAIN f.entries = 1 .. Len(f.entries)
    BY <1>2, Header, LenProperties
  <1>5. /\ Len(d) \in Archive!Found(d \o f.tail, "end", EocdSize)
        /\ Len(d \o f.tail) = Len(d) + Len(f.tail) /\ Len(d) \in Nat
    <2>1. EocdSize <= Len(f.tail)
      BY <1>1, <1>4
    <2> QED BY <1>1, <1>2, <1>3, <2>1, FoundEnds
  <1>6. Len(d) + Len(f.tail) - Len(d) - EocdSize \in 0 .. MaxComment
    BY <1>1, <1>4, <1>5
  <1>7. Archive!IsRarjpegFile(Archive!Units(f))
    <2>1. Len(d \o f.tail) - Len(d) - EocdSize \in Archive!Comments
      <3>1. PICK x \in Nat : x = Len(d \o f.tail) /\ x = Len(d) + Len(f.tail)
        BY <1>4, <1>5
      <3>2. x - Len(d) - EocdSize \in 0 .. MaxComment
        BY <1>4, <1>5, <1>6, <3>1
      <3> QED BY <3>1, <3>2 DEF Archive!Comments
    <2> QED BY <1>3, <1>5, <2>1 DEF Archive!IsRarjpegFile
  <1>8. \A j \in 1 .. Len(f.tail) : f.tail[j][1] # "entry"
    <2>1. \A j \in 1 .. Len(f.tail) : j = 1 \/ j \in 2 .. Len(f.tail)
      BY <1>4
    <2> QED BY <1>1, <1>2, <2>1, TailBytes
  <1>9. \A k \in 1 .. Len(f.entries) : f.entries[k].name \in Seq(Unit)
    <2>1. \A k \in 1 .. Len(f.entries) :
            f.entries[k] \in [name : Seq(Unit), extra : Seq(Unit)]
      BY <1>2, ElementOfSeq
    <2> QED BY <2>1
  <1>10. Archive!NamesOf(d \o f.tail, rest)
           = [k \in 1 .. Len(f.entries) |-> f.entries[k].name]
    <2>0. PICK es : es = f.entries
      OBVIOUS
    <2>1. PICK n \in Nat, t \in Seq(Unit) :
            es = f.entries /\ n = Len(f.entries) /\ t = f.tail
      BY <1>2, <1>4, <2>0
    <2>2. /\ Directory(d, es, n, q) /\ \A k \in 1 .. n : es[k].name \in Seq(Unit)
          /\ \A j \in 1 .. Len(t) : t[j][1] # "entry"
      BY <1>3, <1>8, <1>9, <2>1
    <2>3. Archive!NamesOf(d \o t, rest) = [k \in 1 .. n |-> es[k].name]
      BY <2>2, NamesListed
    <2> QED BY <2>1, <2>3
  <1> QED BY <1>3, <1>4, <1>7, <1>10

(* A file without an end record, or with more behind it than a comment, is *)
(* not taken for one.                                                      *)
LEMMA OtherRejected ==
  ASSUME Archive!WellFormed, NEW f \in File,
         Archive!Plain(f.picture), Archive!PlainEntries(f),
         \/ Archive!Plain(f.tail)
         \/ Archive!Plain(Tail(f.tail)) /\ Len(f.tail) > EocdSize + MaxComment
  PROVE  ~Archive!IsRarjpegFile(Archive!Units(f))
  <1>2. f.tail \in Seq(Unit)
    BY DEF File
  <1>3. PICK d, q : /\ Archive!Units(f) = d \o f.tail
                    /\ Directory(d, f.entries, Len(f.entries), q)
    BY DirectoryRead
  <1>4. /\ EocdSize \in Nat /\ MaxComment \in Nat /\ Len(f.tail) \in Nat
        /\ DOMAIN f.tail = 1 .. Len(f.tail)
    BY <1>2, Header, LenProperties
  <1>5. SUFFICES ASSUME NEW i \in Archive!Found(d \o f.tail, "end", EocdSize),
                        Len(d \o f.tail) - i - EocdSize \in 0 .. MaxComment
                 PROVE  FALSE
    BY <1>3 DEF Archive!IsRarjpegFile, Archive!Comments
  <1>6. /\ Len(d \o f.tail) = Len(d) + Len(f.tail) /\ Len(d) \in Nat
        /\ \E j \in 1 .. Len(f.tail) : f.tail[j][1] = "end" /\ i + 1 = Len(d) + j
    BY <1>2, <1>3, FoundEnds
  <1>7. PICK j \in 1 .. Len(f.tail) : f.tail[j][1] = "end" /\ i + 1 = Len(d) + j
    BY <1>6
  <1>8. ~Archive!Plain(f.tail)
    BY <1>4, <1>7 DEF Archive!Plain
  <1>9. f.tail # <<>>
    BY <1>4, <1>7, EmptySeq
  <1>10. j = 1
    <2>1. j \notin 2 .. Len(f.tail)
      BY <1>2, <1>7, <1>8, <1>9, TailBytes
    <2> QED BY <1>4, <2>1
  <1>11. i \in Nat
    BY DEF Archive!Found
  <1>12. i = Len(d)
    BY <1>6, <1>7, <1>10, <1>11
  <1>13. Len(f.tail) > EocdSize + MaxComment
    BY <1>8
  <1>14. PICK x, y, e, m \in Nat :
           x = Len(d) /\ y = Len(f.tail) /\ e = EocdSize /\ m = MaxComment
    BY <1>4, <1>6
  <1>15. x + y - x - e \in 0 .. m /\ y > e + m
    BY <1>5, <1>6, <1>12, <1>13, <1>14
  <1> QED BY <1>15

LEMMA RarjpegInputType ==
  ASSUME Archive!WellFormed, NEW files \in RarjpegInputs
  PROVE  /\ files \in Seq(File) /\ Len(files) \in Nat /\ Len(files) >= 1
         /\ \A k \in 1 .. Len(files) : files[k] \in File
  <1>1. files \in Seq(File) /\ files # <<>>
    BY DEF Archive!WellFormed, Archive!Bytes, File, Unit
  <1>2. Len(files) \in Nat \ {0}
    BY <1>1, EmptySeq
  <1> QED BY <1>1, <1>2, ElementOfSeq

LEMMA RarjpegInitial == ASSUME Archive!WellFormed, Archive!Init PROVE ArchiveInv
  <1>1. /\ step = "open" /\ input \in RarjpegInputs /\ local = [i |-> 1]
        /\ output = <<>>
    BY DEF Archive!Init
  <1>2. Len(output) = 0 /\ output \in Seq(Nat)
    BY <1>1, EmptySeq
  <1>3. local \in [i : Nat \ {0}] /\ local.i = 1
    BY <1>1
  <1>4. local.i <= Len(input)
    BY <1>1, <1>3, RarjpegInputType
  <1> QED BY <1>1, <1>2, <1>3, <1>4 DEF ArchiveInv

(* The result of a file is right if it is right for this file.             *)
LEMMA FileDone ==
  ASSUME Archive!WellFormed, ArchiveInv, step \in {"open", "check", "print"},
         NEW result, NEW names, Archive!NextFile(result, names),
         input' = input,
         Correct(input[local.i], [result |-> result, names |-> names])
  PROVE  ArchiveInv'
  <1> DEFINE line == [result |-> result, names |-> names]
  <1>1. /\ input \in RarjpegInputs /\ local.i \in Nat \ {0} /\ local \in [i : Nat \ {0}]
        /\ Len(output) = local.i - 1 /\ local.i <= Len(input)
        /\ \A k \in 1 .. Len(output) : Correct(input[k], output[k])
    BY DEF ArchiveInv
  <1>2. /\ output' = Append(output, line)
        /\ local' = [local EXCEPT !.i = local.i + 1]
        /\ step' = IF local.i = Len(input) THEN "done" ELSE "open"
    BY DEF Archive!NextFile
  <1> HIDE DEF line
  <1>3. PICK T : output \in Seq(T)
    BY DEF ArchiveInv
  <1>4. output \in Seq(T \cup {line}) /\ line \in T \cup {line}
    BY <1>3, SeqMonotonic
  <1>5. /\ output' \in Seq(T \cup {line}) /\ Len(output') = Len(output) + 1
        /\ \A k \in 1 .. Len(output) : output'[k] = output[k]
        /\ output'[Len(output) + 1] = line
    BY <1>2, <1>4, AppendProperties
  <1>6. PICK n \in Nat : n + 1 = local.i /\ n = Len(output)
    <2>1. Len(output) \in Nat
      BY <1>3, LenProperties
    <2> QED BY <1>1, <2>1
  <1>7. local' \in [i : Nat \ {0}] /\ local'.i = local.i + 1
    BY <1>1, <1>2
  <1>8. Len(output') = local'.i - 1
    BY <1>1, <1>5, <1>6, <1>7
  <1>9. step' = "open" => local'.i <= Len(input)
    <2>1. Len(input) \in Nat
      BY <1>1, RarjpegInputType
    <2>2. step' = "open" => local.i # Len(input)
      BY <1>2
    <2> QED BY <1>1, <1>7, <2>1, <2>2
  <1>10. ASSUME NEW k \in 1 .. n + 1 PROVE Correct(input[k], output'[k])
    <2>1. CASE k \in 1 .. n
      BY <1>1, <1>5, <1>6, <2>1
    <2>2. CASE k = n + 1
      BY <1>5, <1>6, <2>2 DEF line
    <2> QED BY <2>1, <2>2
  <1>11. \A k \in 1 .. Len(output') : Correct(input'[k], output'[k])
    BY <1>5, <1>6, <1>10
  <1>12. step' \in {"open", "done"}
    BY <1>2
  <1> QED BY <1>1, <1>5, <1>7, <1>8, <1>9, <1>11, <1>12 DEF ArchiveInv

LEMMA RarjpegStep ==
  ASSUME Archive!WellFormed, ArchiveInv, [Archive!Next]_(Archive!vars)
  PROVE  ArchiveInv'
  <1>1. ASSUME step \in {"open", "check", "print"}
        PROVE  input[local.i] \in File
    <2>1. input \in RarjpegInputs /\ local.i \in Nat \ {0} /\ local.i <= Len(input)
      BY <1>1 DEF ArchiveInv
    <2>2. Len(input) \in Nat
      BY <2>1, RarjpegInputType
    <2>3. local.i \in 1 .. Len(input)
      BY <2>1, <2>2
    <2> QED BY <2>1, <2>3, RarjpegInputType
  <1>2. CASE Archive!Open
    <2>1. step = "open" /\ input' = input
      BY <1>2 DEF Archive!Open
    <2>2. CASE step' = "check" /\ UNCHANGED <<local, output>>
      BY <2>1, <2>2 DEF ArchiveInv
    <2>3. CASE Archive!NextFile("unreadable", <<>>)
      <3>1. Correct(input[local.i], [result |-> "unreadable", names |-> <<>>])
        BY DEF Correct
      <3> QED BY <2>1, <2>3, <3>1, FileDone
    <2> QED BY <1>2, <2>2, <2>3 DEF Archive!Open
  <1>3. CASE Archive!Check
    <2>1. step = "check" /\ input' = input
      BY <1>3 DEF Archive!Check
    <2>2. CASE Archive!IsRarjpegFile(Archive!Units(input[local.i]))
      <3>1. step' = "print" /\ UNCHANGED <<local, output>>
        BY <1>3, <2>2 DEF Archive!Check
      <3>2. local.i <= Len(input)
        BY <2>1 DEF ArchiveInv
      <3> QED BY <2>1, <2>2, <3>1, <3>2 DEF ArchiveInv
    <2>3. CASE ~Archive!IsRarjpegFile(Archive!Units(input[local.i]))
      <3>1. Archive!NextFile("non-Rarjpeg", <<>>)
        BY <1>3, <2>3 DEF Archive!Check
      <3>2. ~Archive!Intact(input[local.i])
        BY <1>1, <2>1, <2>3, IntactListed
      <3>3. Correct(input[local.i], [result |-> "non-Rarjpeg", names |-> <<>>])
        BY <3>2 DEF Correct
      <3> QED BY <2>1, <3>1, <3>3, FileDone
    <2> QED BY <2>2, <2>3
  <1>4. CASE Archive!PrintCont
    <2>1. step = "print" /\ input' = input
      BY <1>4 DEF Archive!PrintCont
    <2>2. PICK rest \in {<<>>, <<Junk>>} :
            Archive!NextFile("Rarjpeg", Archive!NamesOf(Archive!Units(input[local.i]), rest))
      BY <1>4 DEF Archive!PrintCont
    <2> DEFINE names == Archive!NamesOf(Archive!Units(input[local.i]), rest)
    <2>3. Archive!IsRarjpegFile(Archive!Units(input[local.i]))
      BY <2>1 DEF ArchiveInv
    <2>4. PICK f \in File : f = input[local.i]
      BY <1>1, <2>1
    <2>5. Archive!Intact(f) => names = [e \in DOMAIN f.entries |-> f.entries[e].name]
      BY <2>4, IntactListed
    <2>6. ~ (/\ Archive!Plain(f.picture) /\ Archive!PlainEntries(f)
             /\ \/ Archive!Plain(f.tail)
                \/ Archive!Plain(Tail(f.tail)) /\ Len(f.tail) > EocdSize + MaxComment)
      BY <2>3, <2>4, OtherRejected
    <2> HIDE DEF names
    <2>7. Correct(f, [result |-> "Rarjpeg", names |-> names])
      BY <2>5, <2>6 DEF Correct
    <2> QED BY <2>1, <2>2, <2>4, <2>7, FileDone DEF names
  <1>5. CASE UNCHANGED Archive!vars
    BY <1>5 DEF Archive!vars, ArchiveInv
  <1> QED BY <1>2, <1>3, <1>4, <1>5 DEF Archive!Next

(* HW1: every archive on the command line is listed, all of its entries by *)
(* their names and in their order, and no file is taken for one that has   *)
(* no end record near its end.                                             *)
THEOREM EntriesAreListed == ProgramSpec => []ListsEntries
  <1> DEFINE Inv == program = "rarjpeg" => ArchiveInv
  <1>1. ProgramInit => Inv
    BY RarjpegInitial, InputsAreWellFormed DEF ProgramInit
  <1>2. Inv /\ [ProgramNext]_programVars => Inv'
    <2> SUFFICES ASSUME Inv, [ProgramNext]_programVars, program' = "rarjpeg"
                 PROVE  ArchiveInv'
      OBVIOUS
    <2>1. program = "rarjpeg" /\ [Archive!Next]_(Archive!vars)
      BY DEF ProgramNext, programVars, Archive!vars
    <2> QED BY <2>1, RarjpegStep, InputsAreWellFormed
  <1>3. Inv => ListsEntries
    <2> SUFFICES ASSUME ArchiveInv PROVE Archive!ListsEntries
      BY DEF ListsEntries
    <2>1. DOMAIN output = 1 .. Len(output)
      BY LenProperties DEF ArchiveInv
    <2>2. \A k \in DOMAIN output : Correct(input[k], output[k])
      BY <2>1 DEF ArchiveInv
    <2> QED BY <2>2 DEF Correct, Archive!ListsEntries
  <1> QED BY <1>1, <1>2, <1>3, PTL DEF ProgramSpec

(***************************************************************************)
(* WordReader: for any files, read failures at any point included.         *)
(***************************************************************************)
LEMMA ListsLast ==
  ASSUME NEW q, NEW A, Lists(q, A), NEW m \in A, \A y \in A : y <= m,
         NEW x \in Nat, m < x
  PROVE  LET r == [q EXCEPT ![Len(q)] = x] IN
         /\ Lists(r, (A \ {m}) \cup {x}) /\ Len(r) = Len(q) /\ Len(q) \in Nat
         /\ Len(q) > 0 /\ q[Len(q)] = m
         /\ \A k \in 1 .. Len(q) : r[k] = IF k = Len(q) THEN x ELSE q[k]
  <1> DEFINE r == [q EXCEPT ![Len(q)] = x]
  <1>1. /\ q \in Seq(Nat) /\ Len(q) \in Nat /\ DOMAIN q = 1 .. Len(q)
    BY LenProperties DEF Lists
  <1>2. PICK n \in Nat : n = Len(q)
    BY <1>1
  <1>3. /\ \A j, k \in 1 .. n : j < k => q[j] < q[k]
        /\ \A k \in 1 .. n : q[k] \in A /\ q[k] \in Nat
        /\ \A y \in A : \E k \in 1 .. n : q[k] = y
    BY <1>1, <1>2, ElementOfSeq DEF Lists
  <1>4. PICK k0 \in 1 .. n : q[k0] = m
    BY <1>3
  <1>5. n > 0 /\ n \in 1 .. n
    BY <1>4
  <1>6. k0 = n
    <2>1. q[n] <= m /\ q[n] \in Nat /\ q[k0] \in Nat
      BY <1>3, <1>5
    <2>2. ~(k0 < n)
      BY <1>3, <1>4, <1>5, <2>1
    <2> QED BY <2>2
  <1>7. /\ r \in Seq(Nat) /\ Len(r) = n
        /\ \A k \in 1 .. n : r[k] = IF k = n THEN x ELSE q[k]
    BY <1>1, <1>2, <1>5, ExceptSeq
  <1>8. DOMAIN r = 1 .. n
    BY <1>7, LenProperties
  <1> HIDE DEF r
  <1>9. ASSUME NEW j \in 1 .. n, NEW k \in 1 .. n, j < k PROVE r[j] < r[k]
    <2>1. r[j] = q[j] /\ q[j] < q[k] /\ q[j] \in Nat /\ q[k] \in Nat
      <3>1. j # n
        BY <1>9
      <3> QED BY <1>3, <1>7, <1>9, <3>1
    <2>2. CASE k = n
      <3>1. r[k] = x /\ q[k] = m
        BY <1>4, <1>6, <1>7, <2>2
      <3> QED BY <2>1, <3>1
    <2>3. CASE k # n
      BY <1>7, <2>1, <2>3
    <2> QED BY <2>2, <2>3
  <1>10. ASSUME NEW k \in 1 .. n PROVE r[k] \in (A \ {m}) \cup {x}
    <2>1. CASE k = n
      BY <1>7, <2>1
    <2>2. CASE k # n
      <3>1. q[k] < q[n] /\ q[n] = m /\ q[k] \in Nat /\ q[n] \in Nat
        BY <1>3, <1>4, <1>5, <1>6, <2>2
      <3>2. q[k] # m
        BY <3>1
      <3> QED BY <1>3, <1>7, <2>2, <3>2
    <2> QED BY <2>1, <2>2
  <1>11. ASSUME NEW y \in (A \ {m}) \cup {x} PROVE \E k \in 1 .. n : r[k] = y
    <2>1. CASE y = x
      BY <1>5, <1>7, <2>1
    <2>2. CASE y \in A /\ y # m
      <3>1. PICK k \in 1 .. n : q[k] = y
        BY <1>3, <2>2
      <3>2. k # n
        BY <1>4, <1>6, <2>2, <3>1
      <3> QED BY <1>7, <3>1, <3>2
    <2> QED BY <2>1, <2>2
  <1>12. Lists(r, (A \ {m}) \cup {x})
    BY <1>7, <1>8, <1>9, <1>10, <1>11 DEF Lists
  <1> QED BY <1>2, <1>4, <1>5, <1>6, <1>7, <1>12 DEF r

(* A part of a sequence, and of the sequence with one element more.        *)
LEMMA PartOfMore ==
  ASSUME NEW T, NEW s \in Seq(T), NEW c \in T, NEW a \in 1 .. Len(s),
         NEW b \in 1 .. Len(s)
  PROVE  SubSeq(Append(s, c), a, b) = SubSeq(s, a, b)
  <1>1. Append(s, c) = s \o <<c>> /\ <<c>> \in Seq(T)
    BY AppendIsConcat
  <1> QED BY <1>1, SubSeqOfConcat1

LEMMA PartWithLast ==
  ASSUME NEW T, NEW s \in Seq(T), NEW c \in T, NEW a \in 1 .. Len(s)
  PROVE  /\ SubSeq(Append(s, c), a, Len(s) + 1) = Append(SubSeq(s, a, Len(s)), c)
         /\ SubSeq(s, a, Len(s)) \in Seq(T)
  <1> DEFINE t == Append(s, c)
  <1>1. /\ t \in Seq(T) /\ Len(t) = Len(s) + 1 /\ Len(s) \in Nat
        /\ t[Len(s) + 1] = c
    BY AppendProperties, LenProperties
  <1>2. SubSeq(t, a, Len(s)) = SubSeq(s, a, Len(s))
    <2>1. Len(s) \in 1 .. Len(s)
      BY <1>1
    <2> QED BY <2>1, PartOfMore
  <1> HIDE DEF t
  <1>3. PICK n \in Nat : n = Len(s) + 1 /\ n = Len(t) /\ n - 1 = Len(s) /\ a \in 1 .. n
    BY <1>1
  <1>4. SubSeq(t, a, n) = SubSeq(t, a, n - 1) \o <<t[n]>>
    <2>1. a \in 1 .. Len(t) /\ n \in a .. Len(t)
      BY <1>3
    <2> QED BY <1>1, <2>1, SubSeqRecursiveSecond
  <1>5. SubSeq(s, a, Len(s)) \in Seq(T)
    <2>1. \A i \in a .. Len(s) : i \in 1 .. Len(s)
      BY <1>1
    <2>2. \A i \in a .. Len(s) : s[i] \in T
      BY <2>1, ElementOfSeq
    <2>3. a \in Int /\ Len(s) \in Int
      BY <1>1
    <2> QED BY <2>2, <2>3, SubSeqProperties
  <1>6. Append(SubSeq(s, a, Len(s)), c) = SubSeq(s, a, Len(s)) \o <<c>>
    BY <1>5, AppendIsConcat
  <1> QED BY <1>1, <1>2, <1>3, <1>4, <1>5, <1>6 DEF t

LEMMA PartIsLast ==
  ASSUME NEW T, NEW s \in Seq(T), NEW c \in T
  PROVE  SubSeq(Append(s, c), Len(s) + 1, Len(s) + 1) = <<c>>
  <1> DEFINE t == Append(s, c)
  <1>1. /\ t \in Seq(T) /\ Len(t) = Len(s) + 1 /\ Len(s) \in Nat
        /\ t[Len(s) + 1] = c
    BY AppendProperties, LenProperties
  <1> HIDE DEF t
  <1>2. PICK n \in Nat : n = Len(s) + 1 /\ n = Len(t) /\ n >= 1
    BY <1>1
  <1>3. SubSeq(t, n, n) = SubSeq(t, n, n - 1) \o <<t[n]>>
    <2>1. n \in 1 .. Len(t) /\ n \in n .. Len(t)
      BY <1>2
    <2> QED BY <1>1, <2>1, SubSeqRecursiveSecond
  <1>4. SubSeq(t, n, n - 1) = <<>>
    <2>1. n \in Int /\ n - 1 \in Int /\ n - 1 < n
      OBVIOUS
    <2> QED BY <2>1, SubSeqEmpty
  <1>5. <<c>> \in Seq(T) /\ <<>> \o <<c>> = <<c>>
    <2>1. <<c>> \in Seq(T)
      OBVIOUS
    <2> QED BY <2>1, ConcatEmptySeq
  <1> QED BY <1>1, <1>2, <1>3, <1>4, <1>5 DEF t

(* How the first and last positions of the runs change with one element    *)
(* more.                                                                   *)
Ended(s, S) == s = <<>> \/ s[Len(s)] \in S

LEMMA RunEnds ==
  ASSUME NEW T, NEW s \in Seq(T), NEW c \in T, NEW S
  PROVE  LET t == Append(s, c)
             n == Len(s)
             F(x) == Reader!Firsts(x, S)
             L(x) == Reader!Lasts(x, S)
         IN /\ c \in S => F(t) = F(s) /\ L(t) = L(s)
            /\ c \notin S /\ Ended(s, S) =>
                 F(t) = F(s) \cup {n + 1} /\ L(t) = L(s) \cup {n + 1}
            /\ c \notin S /\ ~Ended(s, S) =>
                 /\ F(t) = F(s) /\ L(t) = (L(s) \ {n}) \cup {n + 1}
                 /\ n \in L(s)
            /\ F(s) \subseteq 1 .. n /\ L(s) \subseteq 1 .. n /\ n \in Nat
            /\ Ended(t, S) <=> c \in S
  <1> DEFINE t == Append(s, c)
  <1>1. /\ t \in Seq(T) /\ Len(t) = Len(s) + 1 /\ t # <<>>
        /\ \A i \in 1 .. Len(s) : t[i] = s[i]
        /\ t[Len(s) + 1] = c
    BY AppendProperties
  <1>2. PICK n \in Nat : n = Len(s)
    BY LenProperties
  <1>3. /\ DOMAIN s = 1 .. n /\ DOMAIN t = 1 .. n + 1 /\ Len(t) = n + 1
        /\ \A i \in 1 .. n : t[i] = s[i]
        /\ t[n + 1] = c
    BY <1>1, <1>2, LenProperties
  <1>4. s = <<>> <=> n = 0
    BY <1>2, EmptySeq
  <1> HIDE DEF t
  <1>5. \A i : i \in 1 .. n + 1 <=> i \in 1 .. n \/ i = n + 1
    OBVIOUS
  <1>6. ASSUME NEW i \in 1 .. n
        PROVE  /\ i \in Reader!Firsts(t, S) <=> i \in Reader!Firsts(s, S)
               /\ i # n => (i \in Reader!Lasts(t, S) <=> i \in Reader!Lasts(s, S))
               /\ n \in Reader!Lasts(t, S) <=> n # 0 /\ s[n] \notin S /\ c \in S
               /\ n \in Reader!Lasts(s, S) <=> n # 0 /\ s[n] \notin S
    <2>1. i # 1 => i - 1 \in 1 .. n
      OBVIOUS
    <2>2. i # n => i + 1 \in 1 .. n /\ i # n + 1
      OBVIOUS
    <2>3. i \in Reader!Firsts(t, S) <=> i \in Reader!Firsts(s, S)
      BY <1>3, <1>5, <2>1 DEF Reader!Firsts
    <2>4. i # n => (i \in Reader!Lasts(t, S) <=> i \in Reader!Lasts(s, S))
      BY <1>2, <1>3, <1>5, <2>2 DEF Reader!Lasts
    <2>5. n \in 1 .. n /\ n # 0 /\ n # n + 1
      OBVIOUS
    <2>6. n \in Reader!Lasts(t, S) <=> n # 0 /\ s[n] \notin S /\ c \in S
      BY <1>2, <1>3, <1>5, <2>5 DEF Reader!Lasts
    <2>7. n \in Reader!Lasts(s, S) <=> n # 0 /\ s[n] \notin S
      BY <1>2, <1>3, <2>5 DEF Reader!Lasts
    <2> QED BY <2>3, <2>4, <2>6, <2>7
  <1>7. /\ n + 1 \in Reader!Firsts(t, S) <=> c \notin S /\ (n = 0 \/ s[n] \in S)
        /\ n + 1 \in Reader!Lasts(t, S) <=> c \notin S
    <2>1. n + 1 = 1 <=> n = 0
      OBVIOUS
    <2>2. n # 0 => n \in 1 .. n /\ n + 1 - 1 = n
      OBVIOUS
    <2>3. n # 0 => t[n + 1 - 1] = s[n]
      BY <1>3, <2>2
    <2> QED BY <1>3, <1>5, <2>1, <2>3 DEF Reader!Firsts, Reader!Lasts
  <1>8. /\ Reader!Firsts(s, S) \subseteq 1 .. n /\ Reader!Lasts(s, S) \subseteq 1 .. n
        /\ Reader!Firsts(t, S) \subseteq 1 .. n + 1
        /\ Reader!Lasts(t, S) \subseteq 1 .. n + 1
    BY <1>3 DEF Reader!Firsts, Reader!Lasts
  <1>9. n + 1 \notin 1 .. n
    OBVIOUS
  <1>10. Ended(s, S) <=> n = 0 \/ s[n] \in S
    BY <1>2, <1>4 DEF Ended
  <1>11. n # 0 => n \in 1 .. n
    OBVIOUS
  <1>12. CASE c \in S
    <2>1. Reader!Firsts(t, S) = Reader!Firsts(s, S)
      BY <1>5, <1>6, <1>7, <1>8, <1>12
    <2>2. Reader!Lasts(t, S) = Reader!Lasts(s, S)
      <3>1. \A i \in 1 .. n : i \in Reader!Lasts(t, S) <=> i \in Reader!Lasts(s, S)
        BY <1>6, <1>12
      <3> QED BY <1>5, <1>7, <1>8, <1>12, <3>1
    <2>3. Ended(t, S)
      BY <1>3, <1>12 DEF Ended
    <2> QED BY <1>2, <1>8, <1>12, <2>1, <2>2, <2>3 DEF t
  <1>13. CASE c \notin S /\ Ended(s, S)
    <2>1. Reader!Firsts(t, S) = Reader!Firsts(s, S) \cup {n + 1}
      BY <1>5, <1>6, <1>7, <1>8, <1>9, <1>10, <1>13
    <2>2. Reader!Lasts(t, S) = Reader!Lasts(s, S) \cup {n + 1}
      <3>1. \A i \in 1 .. n : i \in Reader!Lasts(t, S) <=> i \in Reader!Lasts(s, S)
        BY <1>6, <1>10, <1>13
      <3> QED BY <1>5, <1>7, <1>8, <1>9, <1>13, <3>1
    <2>3. ~Ended(t, S)
      BY <1>1, <1>3, <1>13 DEF Ended
    <2> QED BY <1>2, <1>8, <1>13, <2>1, <2>2, <2>3 DEF t
  <1>14. CASE c \notin S /\ ~Ended(s, S)
    <2>1. Reader!Firsts(t, S) = Reader!Firsts(s, S)
      BY <1>5, <1>6, <1>7, <1>8, <1>10, <1>14
    <2>2. n \in 1 .. n /\ n \in Reader!Lasts(s, S) /\ n \notin Reader!Lasts(t, S)
      BY <1>6, <1>10, <1>11, <1>14
    <2>3. Reader!Lasts(t, S) = (Reader!Lasts(s, S) \ {n}) \cup {n + 1}
      <3>1. \A i \in 1 .. n : i \in Reader!Lasts(t, S) <=> i \in Reader!Lasts(s, S) \ {n}
        BY <1>6, <2>2
      <3> QED BY <1>5, <1>7, <1>8, <1>9, <1>14, <3>1
    <2>4. ~Ended(t, S)
      BY <1>1, <1>3, <1>14 DEF Ended
    <2> QED BY <1>2, <1>8, <1>14, <2>1, <2>2, <2>3, <2>4 DEF t
  <1> QED BY <1>12, <1>13, <1>14

(* The runs rs of s go from fs to ls.                                      *)
Positions(s, S, rs, fs, ls) ==
  /\ Lists(fs, Reader!Firsts(s, S)) /\ Lists(ls, Reader!Lasts(s, S))
  /\ Len(fs) = Len(rs) /\ Len(ls) = Len(rs)
  /\ \A k \in 1 .. Len(rs) : rs[k] = SubSeq(s, fs[k], ls[k])

(* The runs of s are ws and, unless s ends with a separator, then w.       *)
Split(s, S, ws, w, T) ==
  /\ s \in Seq(T) /\ ws \in Seq(Seq(T)) /\ w \in Seq(T)
  /\ w = <<>> <=> Ended(s, S)
  /\ \E fs, ls : Positions(s, S, ws \o Reader!Counted(w), fs, ls)

LEMMA CountedType ==
  ASSUME NEW T, NEW ws \in Seq(Seq(T)), NEW w \in Seq(T)
  PROVE  LET rs == ws \o Reader!Counted(w) IN
         /\ Reader!Counted(w) \in Seq(Seq(T)) /\ rs \in Seq(Seq(T))
         /\ w = <<>> => rs = ws
         /\ w # <<>> => rs = Append(ws, w)
  <1>1. CASE w = <<>>
    <2>1. Reader!Counted(w) = <<>>
      BY <1>1 DEF Reader!Counted
    <2> QED BY <1>1, <2>1, EmptySeq, ConcatEmptySeq
  <1>2. CASE w # <<>>
    <2>1. Reader!Counted(w) = <<w>> /\ <<w>> \in Seq(Seq(T))
      BY <1>2 DEF Reader!Counted
    <2>2. ws \o <<w>> = Append(ws, w) /\ Append(ws, w) \in Seq(Seq(T))
      BY AppendIsConcat, AppendProperties
    <2> QED BY <1>2, <2>1, <2>2
  <1> QED BY <1>1, <1>2

LEMMA ReaderAscending == \A A : Reader!Ascending(A) = Ascending(A)
  BY DEF Ascending, Rank, Cardinality, Reader!Ascending, Reader!Rank,
         Reader!Cardinality

LEMMA SplitRuns ==
  ASSUME NEW s, NEW S, NEW ws, NEW w, NEW T, Split(s, S, ws, w, T)
  PROVE  Reader!Runs(s, S) = ws \o Reader!Counted(w)
  <1> DEFINE rs == ws \o Reader!Counted(w)
  <1>1. PICK fs, ls :
          /\ Lists(fs, Reader!Firsts(s, S)) /\ Lists(ls, Reader!Lasts(s, S))
          /\ Len(fs) = Len(rs) /\ Len(ls) = Len(rs)
          /\ \A k \in 1 .. Len(rs) : rs[k] = SubSeq(s, fs[k], ls[k])
    BY DEF Split, Positions
  <1>2. rs \in Seq(Seq(T))
    BY CountedType DEF Split
  <1> HIDE DEF rs
  <1>3. DOMAIN fs = 1 .. Len(rs)
    BY <1>1, LenProperties DEF Lists
  <1>4. /\ Reader!Ascending(Reader!Firsts(s, S)) = fs
        /\ Reader!Ascending(Reader!Lasts(s, S)) = ls
    BY <1>1, AscendingIs, ReaderAscending
  <1>5. Reader!Runs(s, S) = [k \in 1 .. Len(rs) |-> SubSeq(s, fs[k], ls[k])]
    BY <1>3, <1>4 DEF Reader!Runs
  <1>6. rs = [k \in 1 .. Len(rs) |-> rs[k]]
    BY <1>2, LenProperties
  <1>7. Reader!Runs(s, S) = rs
    BY <1>1, <1>5, <1>6
  <1> QED BY <1>7 DEF rs

LEMMA SplitEmpty == ASSUME NEW S, NEW T PROVE Split(<<>>, S, <<>>, <<>>, T)
  <1>1. /\ <<>> \in Seq(T) /\ <<>> \in Seq(Seq(T)) /\ Len(<<>>) = 0
        /\ DOMAIN <<>> = 1 .. 0 /\ 1 .. 0 = {}
    BY EmptySeq, LenProperties
  <1>2. <<>> \o Reader!Counted(<<>>) = <<>>
    BY <1>1, CountedType
  <1>3. Reader!Firsts(<<>>, S) = {} /\ Reader!Lasts(<<>>, S) = {}
    BY <1>1 DEF Reader!Firsts, Reader!Lasts
  <1>4. Ended(<<>>, S)
    BY DEF Ended
  <1>5. Positions(<<>>, S, <<>>, <<>>, <<>>)
    BY <1>1, <1>3, ListsNothing DEF Positions
  <1> QED BY <1>1, <1>2, <1>4, <1>5 DEF Split

LEMMA SplitSeparator ==
  ASSUME NEW s, NEW S, NEW ws, NEW w, NEW T, Split(s, S, ws, w, T),
         NEW c \in T, c \in S
  PROVE  Split(Append(s, c), S, ws \o Reader!Counted(w), <<>>, T)
  <1> DEFINE rs == ws \o Reader!Counted(w)
             t == Append(s, c)
  <1>1. PICK fs, ls :
          /\ Lists(fs, Reader!Firsts(s, S)) /\ Lists(ls, Reader!Lasts(s, S))
          /\ Len(fs) = Len(rs) /\ Len(ls) = Len(rs)
          /\ \A k \in 1 .. Len(rs) : rs[k] = SubSeq(s, fs[k], ls[k])
    BY DEF Split, Positions
  <1>2. rs \in Seq(Seq(T)) /\ s \in Seq(T) /\ <<>> \in Seq(T)
    BY CountedType, EmptySeq DEF Split
  <1>3. /\ Reader!Firsts(t, S) = Reader!Firsts(s, S)
        /\ Reader!Lasts(t, S) = Reader!Lasts(s, S) /\ Ended(t, S)
        /\ Reader!Firsts(s, S) \subseteq 1 .. Len(s)
        /\ Reader!Lasts(s, S) \subseteq 1 .. Len(s)
    BY <1>2, RunEnds
  <1>4. t \in Seq(T)
    BY <1>2, AppendProperties
  <1> HIDE DEF rs
  <1>5. rs \o Reader!Counted(<<>>) = rs
    BY <1>2, CountedType
  <1>6. DOMAIN fs = 1 .. Len(rs) /\ DOMAIN ls = 1 .. Len(rs)
    BY <1>1, LenProperties DEF Lists
  <1>7. ASSUME NEW k \in 1 .. Len(rs) PROVE rs[k] = SubSeq(t, fs[k], ls[k])
    <2>1. fs[k] \in 1 .. Len(s) /\ ls[k] \in 1 .. Len(s)
      BY <1>1, <1>3, <1>6 DEF Lists
    <2>2. SubSeq(t, fs[k], ls[k]) = SubSeq(s, fs[k], ls[k])
      BY <1>2, <2>1, PartOfMore
    <2> QED BY <1>1, <2>2
  <1> HIDE DEF t
  <1>8. Split(t, S, rs, <<>>, T)
    <2>1. Positions(t, S, rs, fs, ls)
      BY <1>1, <1>3, <1>7 DEF Positions
    <2>2. \E f, l : Positions(t, S, rs \o Reader!Counted(<<>>), f, l)
      BY <1>5, <2>1
    <2> QED BY <1>2, <1>3, <1>4, <2>2 DEF Split
  <1> QED BY <1>8 DEF t, rs

(* A letter that begins a run.                                             *)
LEMMA SplitFirstLetter ==
  ASSUME NEW s, NEW S, NEW ws, NEW T, Split(s, S, ws, <<>>, T),
         NEW c \in T, c \notin S
  PROVE  Split(Append(s, c), S, ws, <<c>>, T)
  <1> DEFINE t == Append(s, c)
             n == Len(s)
             rs == Append(ws, <<c>>)
  <1>1. /\ s \in Seq(T) /\ ws \in Seq(Seq(T)) /\ <<>> \in Seq(T) /\ Ended(s, S)
        /\ <<c>> \in Seq(T) /\ <<c>> # <<>>
    BY DEF Split
  <1>2. ws \o Reader!Counted(<<>>) = ws /\ ws \o Reader!Counted(<<c>>) = rs
    BY <1>1, CountedType
  <1>3. PICK fs, ls :
          /\ Lists(fs, Reader!Firsts(s, S)) /\ Lists(ls, Reader!Lasts(s, S))
          /\ Len(fs) = Len(ws) /\ Len(ls) = Len(ws)
          /\ \A k \in 1 .. Len(ws) : ws[k] = SubSeq(s, fs[k], ls[k])
    BY <1>2 DEF Split, Positions
  <1>4. /\ Reader!Firsts(t, S) = Reader!Firsts(s, S) \cup {n + 1}
        /\ Reader!Lasts(t, S) = Reader!Lasts(s, S) \cup {n + 1}
        /\ Reader!Firsts(s, S) \subseteq 1 .. n
        /\ Reader!Lasts(s, S) \subseteq 1 .. n /\ n \in Nat /\ ~Ended(t, S)
    BY <1>1, RunEnds
  <1>5. t \in Seq(T)
    BY <1>1, AppendProperties
  <1> DEFINE gs == Append(fs, n + 1)
             hs == Append(ls, n + 1)
  <1>6. /\ Lists(gs, Reader!Firsts(t, S)) /\ Lists(hs, Reader!Lasts(t, S))
    <2>1. /\ \A i \in Reader!Firsts(s, S) : i < n + 1
          /\ \A i \in Reader!Lasts(s, S) : i < n + 1
          /\ n + 1 \in Nat
      BY <1>4
    <2>2. PICK m \in Nat : m = n + 1
      BY <2>1
    <2>3. Lists(Append(fs, m), Reader!Firsts(s, S) \cup {m})
      BY <1>3, <2>1, <2>2, ListsMore
    <2>4. Lists(Append(ls, m), Reader!Lasts(s, S) \cup {m})
      BY <1>3, <2>1, <2>2, ListsMore
    <2> QED BY <1>4, <2>2, <2>3, <2>4
  <1>7. /\ fs \in Seq(Nat) /\ ls \in Seq(Nat) /\ Len(fs) \in Nat
        /\ DOMAIN fs = 1 .. Len(ws) /\ DOMAIN ls = 1 .. Len(ws)
        /\ n + 1 \in Nat /\ Len(ws) \in Nat
    BY <1>1, <1>3, <1>4, LenProperties DEF Lists
  <1>8. /\ Len(gs) = Len(ws) + 1 /\ Len(hs) = Len(ws) + 1
        /\ \A k \in 1 .. Len(ws) : gs[k] = fs[k] /\ hs[k] = ls[k]
        /\ gs[Len(ws) + 1] = n + 1 /\ hs[Len(ws) + 1] = n + 1
    BY <1>3, <1>7, AppendProperties
  <1>9. /\ Len(rs) = Len(ws) + 1
        /\ \A k \in 1 .. Len(ws) : rs[k] = ws[k]
        /\ rs[Len(ws) + 1] = <<c>>
    BY <1>1, AppendProperties
  <1>10. ASSUME NEW k \in 1 .. Len(ws) + 1
         PROVE  rs[k] = SubSeq(t, gs[k], hs[k])
    <2>1. CASE k \in 1 .. Len(ws)
      <3>1. fs[k] \in 1 .. n /\ ls[k] \in 1 .. n
        BY <1>3, <1>4, <1>7, <2>1 DEF Lists
      <3>2. SubSeq(t, fs[k], ls[k]) = SubSeq(s, fs[k], ls[k])
        BY <1>1, <3>1, PartOfMore
      <3> QED BY <1>3, <1>8, <1>9, <2>1, <3>2
    <2>2. CASE k = Len(ws) + 1
      <3>1. SubSeq(t, n + 1, n + 1) = <<c>>
        BY <1>1, PartIsLast
      <3> QED BY <1>8, <1>9, <2>2, <3>1
    <2>3. k \in 1 .. Len(ws) \/ k = Len(ws) + 1
      BY <1>7
    <2> QED BY <2>1, <2>2, <2>3
  <1> HIDE DEF t, rs, gs, hs
  <1>11. Split(t, S, ws, <<c>>, T)
    <2>1. Positions(t, S, rs, gs, hs)
      BY <1>6, <1>8, <1>9, <1>10 DEF Positions
    <2>2. \E f, l : Positions(t, S, ws \o Reader!Counted(<<c>>), f, l)
      BY <1>2, <2>1
    <2> QED BY <1>1, <1>4, <1>5, <2>2 DEF Split
  <1> QED BY <1>11 DEF t

(* A letter that goes on with one.                                         *)
LEMMA SplitLetter ==
  ASSUME NEW s, NEW S, NEW ws, NEW w, NEW T, Split(s, S, ws, w, T),
         w # <<>>, NEW c \in T, c \notin S
  PROVE  Split(Append(s, c), S, ws, Append(w, c), T)
  <1> DEFINE t == Append(s, c)
             rs == Append(ws, w)
             us == Append(ws, Append(w, c))
  <1>1. /\ s \in Seq(T) /\ ws \in Seq(Seq(T)) /\ w \in Seq(T) /\ ~Ended(s, S)
        /\ Append(w, c) \in Seq(T) /\ Append(w, c) # <<>>
    BY AppendProperties DEF Split
  <1>2. /\ ws \o Reader!Counted(w) = rs
        /\ ws \o Reader!Counted(Append(w, c)) = us
    BY <1>1, CountedType
  <1>n. PICK n, m \in Nat : n = Len(s) /\ m = Len(ws) + 1
    <2>1. Len(s) \in Nat /\ Len(ws) + 1 \in Nat
      BY <1>1, LenProperties
    <2> QED BY <2>1
  <1>9. /\ Len(rs) = m /\ Len(us) = m
        /\ \A k \in 1 .. Len(ws) : rs[k] = ws[k] /\ us[k] = ws[k]
        /\ rs[m] = w /\ us[m] = Append(w, c)
        /\ Len(ws) \in Nat
    BY <1>1, <1>n, AppendProperties, LenProperties
  <1>3. PICK fs, ls :
          /\ Lists(fs, Reader!Firsts(s, S)) /\ Lists(ls, Reader!Lasts(s, S))
          /\ Len(fs) = m /\ Len(ls) = m
          /\ \A k \in 1 .. m : rs[k] = SubSeq(s, fs[k], ls[k])
    <2>1. PICK fs, ls : Positions(s, S, rs, fs, ls)
      BY <1>2 DEF Split
    <2> QED BY <1>9, <2>1 DEF Positions
  <1>4. /\ Reader!Firsts(t, S) = Reader!Firsts(s, S)
        /\ Reader!Lasts(t, S) = (Reader!Lasts(s, S) \ {n}) \cup {n + 1}
        /\ n \in Reader!Lasts(s, S)
        /\ Reader!Firsts(s, S) \subseteq 1 .. n
        /\ Reader!Lasts(s, S) \subseteq 1 .. n /\ n \in Nat /\ ~Ended(t, S)
    BY <1>1, <1>n, RunEnds
  <1>5. t \in Seq(T)
    BY <1>1, AppendProperties
  <1> DEFINE hs == [ls EXCEPT ![Len(ls)] = n + 1]
  <1>6. /\ Lists(hs, Reader!Lasts(t, S)) /\ Len(hs) = m /\ ls[m] = n
        /\ \A k \in 1 .. m : hs[k] = IF k = m THEN n + 1 ELSE ls[k]
    <2>1. /\ \A i \in Reader!Lasts(s, S) : i <= n
          /\ n + 1 \in Nat /\ n < n + 1
      BY <1>4
    <2>2. PICK x \in Nat : x = n + 1
      BY <2>1
    <2> DEFINE gs == [ls EXCEPT ![Len(ls)] = x]
    <2>3. n < x
      BY <2>1, <2>2
    <2>4. /\ Lists(gs, (Reader!Lasts(s, S) \ {n}) \cup {x})
          /\ Len(gs) = Len(ls) /\ ls[Len(ls)] = n
          /\ \A k \in 1 .. Len(ls) : gs[k] = IF k = Len(ls) THEN x ELSE ls[k]
      <3>1. PICK A : A = Reader!Lasts(s, S)
        OBVIOUS
      <3>2. Lists(ls, A) /\ n \in A /\ \A y \in A : y <= n
        BY <1>3, <1>4, <2>1, <3>1
      <3>3. /\ Lists(gs, (A \ {n}) \cup {x})
            /\ Len(gs) = Len(ls) /\ ls[Len(ls)] = n
            /\ \A k \in 1 .. Len(ls) : gs[k] = IF k = Len(ls) THEN x ELSE ls[k]
        BY <2>3, <3>2, ListsLast
      <3> HIDE DEF gs
      <3> QED BY <3>1, <3>3
    <2>5. gs = hs
      BY <2>2
    <2> HIDE DEF hs, gs
    <2> QED BY <1>3, <1>4, <2>2, <2>4, <2>5
  <1>7. /\ DOMAIN fs = 1 .. m /\ DOMAIN ls = 1 .. m
        /\ \A k \in 1 .. m : fs[k] \in 1 .. n /\ ls[k] \in 1 .. n
    <2>1. DOMAIN fs = 1 .. m /\ DOMAIN ls = 1 .. m
      BY <1>3, LenProperties DEF Lists
    <2> QED BY <1>3, <1>4, <2>1 DEF Lists
  <1> HIDE DEF hs
  <1>10. ASSUME NEW k \in 1 .. m
         PROVE  us[k] = SubSeq(t, fs[k], hs[k])
    <2>1. CASE k \in 1 .. Len(ws)
      <3>1. SubSeq(t, fs[k], ls[k]) = SubSeq(s, fs[k], ls[k])
        BY <1>1, <1>n, <1>7, PartOfMore
      <3>2. hs[k] = ls[k]
        BY <1>6, <1>9, <2>1
      <3> QED BY <1>3, <1>9, <2>1, <3>1, <3>2
    <2>2. CASE k = m
      <3>1. SubSeq(t, fs[m], n + 1) = Append(SubSeq(s, fs[m], n), c)
        <4>1. fs[m] \in 1 .. Len(s)
          BY <1>n, <1>7, <2>2
        <4>2. SubSeq(t, fs[m], Len(s) + 1) = Append(SubSeq(s, fs[m], Len(s)), c)
          BY <1>1, <4>1, PartWithLast
        <4> QED BY <1>n, <4>2
      <3>2. w = SubSeq(s, fs[m], n)
        BY <1>3, <1>6, <1>9, <2>2
      <3> QED BY <1>6, <1>9, <2>2, <3>1, <3>2
    <2>3. k \in 1 .. Len(ws) \/ k = m
      BY <1>n, <1>9
    <2> QED BY <2>1, <2>2, <2>3
  <1> HIDE DEF t, rs, us
  <1>11. Split(t, S, ws, Append(w, c), T)
    <2>1. Positions(t, S, us, fs, hs)
      BY <1>3, <1>4, <1>6, <1>9, <1>10 DEF Positions
    <2>2. \E f, l : Positions(t, S, ws \o Reader!Counted(Append(w, c)), f, l)
      BY <1>2, <2>1
    <2> QED BY <1>1, <1>4, <1>5, <2>2 DEF Split
  <1> QED BY <1>11 DEF t

LEMMA Prefix ==
  ASSUME NEW T, NEW s \in Seq(T), NEW n \in 1 .. Len(s)
  PROVE  /\ SubSeq(s, 1, n) = Append(SubSeq(s, 1, n - 1), s[n])
         /\ s[n] \in T /\ SubSeq(s, 1, n - 1) \in Seq(T)
  <1>1. Len(s) \in Nat
    BY LenProperties
  <1>2. 1 \in 1 .. Len(s) /\ n \in 1 .. Len(s) /\ n - 1 \in Int /\ 1 \in Int
    BY <1>1
  <1>3. SubSeq(s, 1, n) = SubSeq(s, 1, n - 1) \o <<s[n]>>
    BY <1>2, SubSeqRecursiveSecond
  <1>4. \A i \in 1 .. n - 1 : i \in 1 .. Len(s)
    BY <1>1
  <1>5. SubSeq(s, 1, n - 1) \in Seq(T)
    <2>1. \A i \in 1 .. n - 1 : s[i] \in T
      BY <1>4, ElementOfSeq
    <2> QED BY <1>2, <2>1, SubSeqProperties
  <1>6. s[n] \in T
    BY ElementOfSeq
  <1> QED BY <1>3, <1>5, <1>6, AppendIsConcat

(* t is s without its newlines.                                            *)
Kept(s) == {i \in DOMAIN s : s[i] # "nl"}

Joint(s, t, T) ==
  /\ s \in Seq(T) /\ t \in Seq(T)
  /\ \E q : /\ Lists(q, Kept(s)) /\ Len(q) = Len(t)
            /\ \A k \in 1 .. Len(t) : t[k] = s[q[k]]

LEMMA JointIs ==
  ASSUME NEW s, NEW t, NEW T, Joint(s, t, T)
  PROVE  Reader!Joined(s) = t
  <1>1. PICK q : /\ Lists(q, Kept(s)) /\ Len(q) = Len(t)
                 /\ \A k \in 1 .. Len(t) : t[k] = s[q[k]]
    BY DEF Joint
  <1>2. DOMAIN q = 1 .. Len(t) /\ t = [k \in 1 .. Len(t) |-> t[k]]
    BY <1>1, LenProperties DEF Lists, Joint
  <1>3. Reader!Ascending(Kept(s)) = q
    BY <1>1, AscendingIs, ReaderAscending
  <1>4. Reader!Joined(s) = [k \in 1 .. Len(t) |-> s[q[k]]]
    BY <1>2, <1>3 DEF Reader!Joined, Kept
  <1> QED BY <1>1, <1>2, <1>4

LEMMA JointEmpty == ASSUME NEW T PROVE Joint(<<>>, <<>>, T)
  <1>1. <<>> \in Seq(T) /\ DOMAIN <<>> = 1 .. 0 /\ 1 .. 0 = {} /\ Len(<<>>) = 0
    BY EmptySeq, LenProperties
  <1>2. Kept(<<>>) = {}
    BY <1>1 DEF Kept
  <1> QED BY <1>1, <1>2, ListsNothing DEF Joint

LEMMA JointMore ==
  ASSUME NEW s, NEW t, NEW T, Joint(s, t, T), NEW c \in T
  PROVE  Joint(Append(s, c), IF c = "nl" THEN t ELSE Append(t, c), T)
  <1> DEFINE u == Append(s, c)
  <1>1. s \in Seq(T) /\ t \in Seq(T)
    BY DEF Joint
  <1>2. PICK q : /\ Lists(q, Kept(s)) /\ Len(q) = Len(t)
                 /\ \A k \in 1 .. Len(t) : t[k] = s[q[k]]
    BY DEF Joint
  <1>3. PICK n, m \in Nat : n = Len(s) /\ m = Len(t)
    BY <1>1, LenProperties
  <1>4. /\ u \in Seq(T) /\ DOMAIN u = 1 .. n + 1 /\ DOMAIN s = 1 .. n
        /\ \A i \in 1 .. n : u[i] = s[i]
        /\ u[n + 1] = c
    BY <1>1, <1>3, AppendProperties, LenProperties
  <1> HIDE DEF u
  <1>5. \A i : i \in 1 .. n + 1 <=> i \in 1 .. n \/ i = n + 1
    OBVIOUS
  <1>6. DOMAIN q = 1 .. m /\ q \in Seq(Nat) /\ \A k \in 1 .. m : q[k] \in 1 .. n
    <2>1. DOMAIN q = 1 .. m /\ q \in Seq(Nat)
      BY <1>2, <1>3, LenProperties DEF Lists
    <2> QED BY <1>2, <1>4, <2>1 DEF Lists, Kept
  <1>7. CASE c = "nl"
    <2>1. Kept(u) = Kept(s)
      <3>1. \A i \in 1 .. n : i \in Kept(u) <=> i \in Kept(s)
        BY <1>4, <1>5 DEF Kept
      <3>2. n + 1 \notin Kept(u) /\ n + 1 \notin 1 .. n
        BY <1>4, <1>7 DEF Kept
      <3>3. Kept(u) \subseteq 1 .. n + 1 /\ Kept(s) \subseteq 1 .. n
        BY <1>4 DEF Kept
      <3> QED BY <1>5, <3>1, <3>2, <3>3
    <2>2. \A k \in 1 .. m : t[k] = u[q[k]]
      BY <1>2, <1>3, <1>4, <1>6
    <2>3. Joint(u, t, T)
      BY <1>1, <1>2, <1>3, <1>4, <2>1, <2>2 DEF Joint
    <2> QED BY <1>7, <2>3 DEF u
  <1>8. CASE c # "nl"
    <2>1. Kept(u) = Kept(s) \cup {n + 1}
      <3>1. \A i \in 1 .. n : i \in Kept(u) <=> i \in Kept(s)
        BY <1>4, <1>5 DEF Kept
      <3>2. n + 1 \in Kept(u) /\ n + 1 \notin 1 .. n
        BY <1>4, <1>5, <1>8 DEF Kept
      <3>3. Kept(u) \subseteq 1 .. n + 1 /\ Kept(s) \subseteq 1 .. n
        BY <1>4 DEF Kept
      <3> QED BY <1>5, <3>1, <3>2, <3>3
    <2>2. PICK x \in Nat : x = n + 1 /\ \A y \in Kept(s) : y < x
      BY <1>4 DEF Kept
    <2>3. Lists(Append(q, x), Kept(u))
      BY <1>2, <2>1, <2>2, ListsMore
    <2>4. /\ Len(Append(q, x)) = m + 1
          /\ \A k \in 1 .. m : Append(q, x)[k] = q[k]
          /\ Append(q, x)[m + 1] = x
      BY <1>2, <1>3, <1>6, AppendProperties
    <2>5. /\ Append(t, c) \in Seq(T) /\ Len(Append(t, c)) = m + 1
          /\ \A k \in 1 .. m : Append(t, c)[k] = t[k]
          /\ Append(t, c)[m + 1] = c
      BY <1>1, <1>3, AppendProperties
    <2>6. ASSUME NEW k \in 1 .. m + 1
          PROVE  Append(t, c)[k] = u[Append(q, x)[k]]
      <3>1. CASE k \in 1 .. m
        BY <1>2, <1>3, <1>4, <1>6, <2>4, <2>5, <3>1
      <3>2. CASE k = m + 1
        BY <1>4, <2>2, <2>4, <2>5, <3>2
      <3>3. k \in 1 .. m \/ k = m + 1
        OBVIOUS
      <3> QED BY <3>1, <3>2, <3>3
    <2>7. \E p : /\ Lists(p, Kept(u)) /\ Len(p) = Len(Append(t, c))
                /\ \A k \in 1 .. Len(Append(t, c)) : Append(t, c)[k] = u[p[k]]
      BY <2>3, <2>4, <2>5, <2>6
    <2>8. Joint(u, Append(t, c), T)
      BY <1>4, <2>5, <2>7 DEF Joint
    <2> QED BY <1>8, <2>8 DEF u
  <1> QED BY <1>7, <1>8

(* m is the length of the longest word of ws.                              *)
IsLongest(ws, m) ==
  /\ m \in Nat /\ \A k \in DOMAIN ws : Len(ws[k]) <= m
  /\ IF ws = <<>> THEN m = 0 ELSE \E k \in DOMAIN ws : Len(ws[k]) = m

LEMMA LongestIs ==
  ASSUME NEW T, NEW ws \in Seq(Seq(T)), NEW m, IsLongest(ws, m)
  PROVE  Reader!Longest(ws) = m
  <1>1. CASE ws = <<>>
    BY <1>1 DEF IsLongest, Reader!Longest
  <1>2. CASE ws # <<>>
    <2> DEFINE lens == {Len(ws[k]) : k \in DOMAIN ws}
    <2>1. m \in lens /\ \A k \in DOMAIN ws : Len(ws[k]) <= m
      BY <1>2 DEF IsLongest
    <2>2. \A k \in DOMAIN ws : Len(ws[k]) \in Nat
      BY LenProperties, ElementOfSeq
    <2>3. ASSUME NEW l \in lens, \A k \in DOMAIN ws : Len(ws[k]) <= l
          PROVE  l = m
      <3>1. l \in Nat /\ m \in Nat
        BY <2>1, <2>2
      <3>2. l <= m /\ m <= l
        BY <2>1, <2>3
      <3> QED BY <3>1, <3>2
    <2>4. (CHOOSE l \in lens : \A k \in DOMAIN ws : Len(ws[k]) <= l) = m
      BY <2>1, <2>3
    <2> QED BY <1>2, <2>4 DEF Reader!Longest
  <1> QED BY <1>1, <1>2

LEMMA LongestMore ==
  ASSUME NEW T, NEW ws \in Seq(Seq(T)), NEW w \in Seq(T), NEW m, IsLongest(ws, m)
  PROVE  IsLongest(ws \o Reader!Counted(w), Reader!Larger(m, Len(w)))
  <1>1. Len(w) \in Nat /\ m \in Nat
    BY LenProperties DEF IsLongest
  <1>2. CASE w = <<>>
    <2>1. ws \o Reader!Counted(w) = ws
      BY <1>2, CountedType
    <2>2. Reader!Larger(m, Len(w)) = m
      BY <1>1, <1>2, EmptySeq DEF Reader!Larger
    <2> QED BY <2>1, <2>2
  <1>3. CASE w # <<>>
    <2> DEFINE rs == Append(ws, w)
    <2>1. ws \o Reader!Counted(w) = rs
      BY <1>3, CountedType
    <2>2. PICK n \in Nat : n = Len(ws)
      BY LenProperties
    <2>3. /\ DOMAIN ws = 1 .. n /\ DOMAIN rs = 1 .. n + 1 /\ rs # <<>>
          /\ \A k \in 1 .. n : rs[k] = ws[k]
          /\ rs[n + 1] = w
      BY <2>2, AppendProperties, LenProperties
    <2> HIDE DEF rs
    <2>4. /\ \A k \in 1 .. n + 1 : k \in 1 .. n \/ k = n + 1
          /\ \A k \in 1 .. n : k \in 1 .. n + 1
          /\ n + 1 \in 1 .. n + 1
      OBVIOUS
    <2>5. \A k \in 1 .. n : Len(ws[k]) \in Nat /\ Len(ws[k]) <= m
      <3>1. \A k \in 1 .. n : ws[k] \in Seq(T)
        BY <2>2, ElementOfSeq
      <3> QED BY <2>3, <3>1, LenProperties DEF IsLongest
    <2>6. CASE m > Len(w)
      <3>1. Reader!Larger(m, Len(w)) = m
        BY <2>6 DEF Reader!Larger
      <3>2. ws # <<>>
        BY <1>1, <2>6 DEF IsLongest
      <3>3. PICK k \in 1 .. n : Len(ws[k]) = m
        BY <2>3, <3>2 DEF IsLongest
      <3>4. \A j \in 1 .. n + 1 : Len(rs[j]) <= m
        BY <1>1, <2>3, <2>4, <2>5, <2>6
      <3>5. \E j \in 1 .. n + 1 : Len(rs[j]) = m
        BY <2>3, <2>4, <3>3
      <3>6. IsLongest(rs, m)
        BY <1>1, <2>3, <3>4, <3>5 DEF IsLongest
      <3> QED BY <2>1, <3>1, <3>6
    <2>7. CASE ~(m > Len(w))
      <3>1. Reader!Larger(m, Len(w)) = Len(w)
        BY <2>7 DEF Reader!Larger
      <3>2. ASSUME NEW j \in 1 .. n + 1
            PROVE  Len(rs[j]) <= Len(w)
        <4>1. CASE j \in 1 .. n
          BY <1>1, <2>3, <2>5, <2>7, <4>1
        <4>2. CASE j = n + 1
          BY <1>1, <2>3, <4>2
        <4> QED BY <2>4, <4>1, <4>2
      <3>3. \E j \in 1 .. n + 1 : Len(rs[j]) = Len(w)
        BY <2>3, <2>4
      <3>4. IsLongest(rs, Len(w))
        BY <1>1, <2>3, <3>2, <3>3 DEF IsLongest
      <3> QED BY <2>1, <3>1, <3>4
    <2> QED BY <2>6, <2>7
  <1> QED BY <1>2, <1>3

LEMMA SplitOther ==
  ASSUME NEW s, NEW S, NEW ws, NEW w, NEW T, Split(s, S, ws, w, T),
         NEW c \in T, c \notin S
  PROVE  Split(Append(s, c), S, ws, Append(w, c), T)
  <1>1. CASE w = <<>>
    <2>1. Append(w, c) = <<c>>
      BY <1>1
    <2> QED BY <1>1, <2>1, SplitFirstLetter
  <1>2. CASE w # <<>>
    BY <1>2, SplitLetter
  <1> QED BY <1>1, <1>2

(* The words that the second pass has found, and the one it is in, when it *)
(* has read c.                                                             *)
NextWords(ws, w, c) == IF c = "sp" THEN ws \o Reader!Counted(w) ELSE ws
NextWord(w, c) ==
  IF c = "sp" THEN <<>> ELSE IF c = "nl" THEN w ELSE Append(w, c)

LEMMA Advance ==
  ASSUME NEW s, NEW t, NEW ws, NEW w, NEW T, NEW c \in T,
         Joint(s, t, T), Split(t, {"sp"}, ws, w, T)
  PROVE  \E u : /\ Joint(Append(s, c), u, T)
                /\ Split(u, {"sp"}, NextWords(ws, w, c), NextWord(w, c), T)
  <1>1. CASE c = "nl"
    <2>1. Joint(Append(s, c), t, T)
      BY <1>1, JointMore
    <2> QED BY <1>1, <2>1 DEF NextWords, NextWord
  <1>2. CASE c = "sp"
    <2>1. Joint(Append(s, c), Append(t, c), T)
      BY <1>2, JointMore
    <2>2. Split(Append(t, c), {"sp"}, ws \o Reader!Counted(w), <<>>, T)
      BY <1>2, SplitSeparator
    <2> QED BY <1>2, <2>1, <2>2 DEF NextWords, NextWord
  <1>3. CASE c # "nl" /\ c # "sp"
    <2>1. Joint(Append(s, c), Append(t, c), T)
      BY <1>3, JointMore
    <2>2. Split(Append(t, c), {"sp"}, ws, Append(w, c), T)
      BY <1>3, SplitOther
    <2> QED BY <1>3, <2>1, <2>2 DEF NextWords, NextWord
  <1> QED BY <1>1, <1>2, <1>3

(* No word is longer than m.                                               *)
Fit(ws, m) == \A k \in DOMAIN ws : Len(ws[k]) <= m

LEMMA FitParts ==
  ASSUME NEW T, NEW ws \in Seq(Seq(T)), NEW w \in Seq(T), NEW m \in Nat
  PROVE  Fit(ws \o Reader!Counted(w), m) <=> Fit(ws, m) /\ Len(w) <= m
  <1>1. CASE w = <<>>
    <2>1. ws \o Reader!Counted(w) = ws
      BY <1>1, CountedType
    <2>2. Len(w) = 0
      BY <1>1
    <2>3. Len(w) <= m
      BY <2>2
    <2> QED BY <2>1, <2>3
  <1>2. CASE w # <<>>
    <2> DEFINE rs == Append(ws, w)
    <2>1. ws \o Reader!Counted(w) = rs
      BY <1>2, CountedType
    <2>2. PICK n \in Nat : n = Len(ws)
      BY LenProperties
    <2>3. /\ DOMAIN ws = 1 .. n /\ DOMAIN rs = 1 .. n + 1
          /\ \A k \in 1 .. n : rs[k] = ws[k]
          /\ rs[n + 1] = w
      BY <2>2, AppendProperties, LenProperties
    <2> HIDE DEF rs
    <2>4. /\ \A k \in 1 .. n + 1 : k \in 1 .. n \/ k = n + 1
          /\ \A k \in 1 .. n : k \in 1 .. n + 1
          /\ n + 1 \in 1 .. n + 1
      OBVIOUS
    <2>5. ASSUME Fit(rs, m) PROVE Fit(ws, m) /\ Len(w) <= m
      BY <2>3, <2>4, <2>5, Zenon DEF Fit
    <2>6. ASSUME Fit(ws, m), Len(w) <= m PROVE Fit(rs, m)
      BY <2>3, <2>4, <2>6, Zenon DEF Fit
    <2> QED BY <2>1, <2>5, <2>6
  <1> QED BY <1>1, <1>2

LEMMA FitBefore ==
  ASSUME NEW T, NEW ws \in Seq(Seq(T)), NEW w \in Seq(T), NEW m \in Nat,
         NEW c \in T,
         Fit(NextWords(ws, w, c), m), Len(NextWord(w, c)) <= m
  PROVE  Fit(ws, m) /\ Len(w) <= m
  <1>1. CASE c = "sp"
    BY <1>1, FitParts DEF NextWords, NextWord
  <1>2. CASE c = "nl"
    BY <1>2 DEF NextWords, NextWord
  <1>3. CASE c # "sp" /\ c # "nl"
    <2>1. Len(Append(w, c)) = Len(w) + 1 /\ Len(w) \in Nat
      BY AppendProperties, LenProperties
    <2>2. Len(Append(w, c)) <= m /\ Fit(ws, m)
      BY <1>3 DEF NextWords, NextWord
    <2>3. Len(w) <= m
      BY <2>1, <2>2
    <2> QED BY <2>2, <2>3
  <1> QED BY <1>1, <1>2, <1>3

LEMMA Bounds ==
  ASSUME NEW s, NEW S, NEW ws, NEW w, NEW T, Split(s, S, ws, w, T)
  PROVE  ws \in Seq(Seq(T)) /\ w \in Seq(T) /\ s \in Seq(T)
  BY DEF Split

LEMMA Whole ==
  ASSUME NEW T, NEW s \in Seq(T)
  PROVE  SubSeq(s, 1, Len(s)) = s /\ SubSeq(s, 1, 0) = <<>> /\ Len(s) \in Nat
  <1>1. Len(s) \in Nat
    BY LenProperties
  <1>2. SubSeq(s, 1, 0) = <<>>
    BY SubSeqEmpty
  <1> QED BY <1>1, <1>2, SubSeqFull

(* When the words of the whole file fit, those of what has been read do.   *)
LEMMA FitAll ==
  ASSUME NEW T, NEW s \in Seq(T), NEW m \in Nat,
         Fit(Reader!Runs(Reader!Joined(s), {"sp"}), m),
         NEW n \in 0 .. Len(s), NEW t, NEW ws, NEW w,
         Joint(SubSeq(s, 1, n), t, T), Split(t, {"sp"}, ws, w, T)
  PROVE  Fit(ws, m) /\ Len(w) <= m
  <1> DEFINE P(k) == \A u, vs, v :
        Joint(SubSeq(s, 1, k), u, T) /\ Split(u, {"sp"}, vs, v, T)
          => Fit(vs, m) /\ Len(v) <= m
  <1>1. PICK len \in Nat : len = Len(s)
    BY LenProperties
  <1>2. P(len)
    <2> SUFFICES ASSUME NEW u, NEW vs, NEW v,
                        Joint(SubSeq(s, 1, len), u, T), Split(u, {"sp"}, vs, v, T)
                 PROVE  Fit(vs, m) /\ Len(v) <= m
      OBVIOUS
    <2>1. Reader!Joined(s) = u
      BY <1>1, Whole, JointIs
    <2>2. Reader!Runs(u, {"sp"}) = vs \o Reader!Counted(v)
      BY SplitRuns
    <2>3. Fit(vs \o Reader!Counted(v), m)
      BY <2>1, <2>2
    <2> QED BY <2>3, Bounds, FitParts
  <1>3. ASSUME NEW k \in Nat, k < len, P(k + 1) PROVE P(k)
    <2> SUFFICES ASSUME NEW u, NEW vs, NEW v,
                        Joint(SubSeq(s, 1, k), u, T), Split(u, {"sp"}, vs, v, T)
                 PROVE  Fit(vs, m) /\ Len(v) <= m
      OBVIOUS
    <2>1. PICK j : j = k + 1
      OBVIOUS
    <2>2. j \in 1 .. Len(s) /\ j - 1 = k
      BY <1>1, <1>3, <2>1
    <2>3. /\ SubSeq(s, 1, j) = Append(SubSeq(s, 1, k), s[j])
          /\ s[j] \in T
      BY <2>2, Prefix
    <2>4. PICK u2 : /\ Joint(SubSeq(s, 1, j), u2, T)
                    /\ Split(u2, {"sp"}, NextWords(vs, v, s[j]), NextWord(v, s[j]), T)
      BY <2>3, Advance
    <2>5. Fit(NextWords(vs, v, s[j]), m) /\ Len(NextWord(v, s[j])) <= m
      BY <1>3, <2>1, <2>4
    <2> QED BY <2>3, <2>5, Bounds, FitBefore
  <1> HIDE DEF P
  <1>4. ASSUME NEW k \in 0 .. len, ~P(k) PROVE FALSE
    <2> DEFINE A == {d \in 0 .. len : ~P(len - d)}
    <2>1. A \subseteq Nat /\ A # {}
      <3>1. PICK d : d = len - k
        OBVIOUS
      <3>2. d \in 0 .. len /\ len - d = k
        BY <1>1, <3>1
      <3>3. d \in A
        BY <1>4, <3>2
      <3>4. A \subseteq Nat
        BY <1>1
      <3> QED BY <3>3, <3>4
    <2>2. PICK d \in A : \A e \in A : d <= e
      BY <2>1, LeastNatural
    <2>3. d \in 0 .. len /\ ~P(len - d)
      BY <2>2
    <2>4. d # 0
      <3>1. len - 0 = len
        OBVIOUS
      <3> QED BY <1>2, <2>3, <3>1
    <2>5. PICK e : e = d - 1
      OBVIOUS
    <2>6. e \in 0 .. len /\ ~(d <= e)
      BY <2>3, <2>4, <2>5
    <2>7. P(len - e)
      BY <2>2, <2>6
    <2>8. PICK i : i = len - d
      OBVIOUS
    <2>9. i \in Nat /\ i < len /\ i + 1 = len - e
      BY <2>3, <2>4, <2>5, <2>8
    <2>10. P(i)
      BY <1>3, <2>7, <2>9
    <2> QED BY <2>3, <2>8, <2>10
  <1>5. P(n)
    BY <1>1, <1>4
  <1> QED BY <1>5 DEF P

-----------------------------------------------------------------------------
(* The inductive invariant of WordReader, part by part.                    *)
Letters == Reader!ToSet(input)

ReaderTypes ==
  /\ input \in ReaderInputs
  /\ step \in {"open", "measure", "read", "done", "failed", "undefined"}
  /\ local \in [at : Nat \ {0}, currWordSize : Nat, maxWordSize : Nat,
                bufWord : Seq(Letters), top : Nat, cut : BOOLEAN]
  /\ local.at <= Len(input) + 1

(* What the second pass works on is untouched until it starts.             *)
Fresh ==
  /\ output = <<>> /\ local.bufWord = <<>> /\ local.top = 0
  /\ step = "open" =>
       local.at = 1 /\ local.currWordSize = 0 /\ local.maxWordSize = 0

(* The first pass has seen the runs ws whole, and is in w.                 *)
Behold(at) ==
  \E ws, w : /\ Split(SubSeq(input, 1, at - 1), {"nl", "sp"}, ws, w, Letters)
             /\ Len(w) = local.currWordSize
             /\ IsLongest(ws, local.maxWordSize)

(* The longest run of a file that both passes read alike is known.         *)
Sized ==
  ~local.cut /\ Reader!Alike(input) =>
    /\ Reader!Runs(input, {"nl", "sp"}) \in Seq(Seq(Letters))
    /\ IsLongest(Reader!Runs(input, {"nl", "sp"}), local.maxWordSize)

(* The second pass has handed out the words of what it read, and is in the *)
(* one that bufWord holds.                                                 *)
Collected(at) ==
  \E t : /\ Joint(SubSeq(input, 1, at - 1), t, Letters)
         /\ Split(t, {"sp"}, output, local.bufWord, Letters)

(* It wrote no further than behind the longest of them.                    *)
Within ==
  \A m \in Nat :
    Fit(output, m) /\ Len(local.bufWord) <= m => local.top <= m + 1

Finished ==
  /\ output = Reader!Runs(Reader!Joined(input), {"sp"})
  /\ ~local.cut /\ Reader!Alike(input) => local.top <= local.maxWordSize + 1

ReaderInv ==
  /\ ReaderTypes
  /\ step \in {"open", "measure"} => Fresh
  /\ step = "measure" => Behold(local.at)
  /\ step \in {"read", "done"} => Sized
  /\ step = "read" => Collected(local.at) /\ Within
  /\ step = "done" => Finished

LEMMA ReaderInputType ==
  ASSUME Reader!WellFormed, input \in ReaderInputs
  PROVE  input \in Seq(Letters) /\ Len(input) \in Nat
  BY LenProperties DEF Reader!WellFormed, Letters

LEMMA ReaderInitial ==
  ASSUME Reader!WellFormed, Reader!Init
  PROVE  ReaderInv
  <1>1. <<>> \in Seq(Letters) /\ Len(input) \in Nat
    BY ReaderInputType, EmptySeq DEF Reader!Init
  <1>2. ReaderTypes
    BY <1>1 DEF Reader!Init, ReaderTypes
  <1>3. Fresh /\ step = "open"
    BY DEF Reader!Init, Fresh
  <1> QED BY <1>2, <1>3 DEF ReaderInv

(* What the last word of a file alike can be.                              *)
LEMMA MeasuredAll ==
  ASSUME Reader!WellFormed, input \in ReaderInputs, Reader!Alike(input),
         Behold(Len(input) + 1)
  PROVE  /\ Reader!Runs(input, {"nl", "sp"}) \in Seq(Seq(Letters))
         /\ IsLongest(Reader!Runs(input, {"nl", "sp"}), local.maxWordSize)
  <1>1. input \in Seq(Letters) /\ Len(input) \in Nat
    BY ReaderInputType
  <1>2. SubSeq(input, 1, (Len(input) + 1) - 1) = input
    <2>1. (Len(input) + 1) - 1 = Len(input)
      BY <1>1
    <2> QED BY <1>1, <2>1, Whole
  <1>3. PICK ws, w : /\ Split(input, {"nl", "sp"}, ws, w, Letters)
                     /\ IsLongest(ws, local.maxWordSize)
    BY <1>2 DEF Behold
  <1>4. Ended(input, {"nl", "sp"})
    BY DEF Reader!Alike, Ended
  <1>5. w = <<>>
    BY <1>3, <1>4 DEF Split
  <1>6. ws \in Seq(Seq(Letters)) /\ w \in Seq(Letters)
    BY <1>3, Bounds
  <1>7. Reader!Runs(input, {"nl", "sp"}) = ws
    <2>1. Reader!Runs(input, {"nl", "sp"}) = ws \o Reader!Counted(w)
      BY <1>3, SplitRuns
    <2>2. ws \o Reader!Counted(w) = ws
      BY <1>5, <1>6, CountedType
    <2> QED BY <2>1, <2>2
  <1> QED BY <1>3, <1>6, <1>7

LEMMA ReaderMeasures ==
  ASSUME Reader!WellFormed, ReaderInv,
         Reader!Open \/ Reader!Measure \/ Reader!Measured
  PROVE  ReaderInv'
  <1>1. input \in Seq(Letters) /\ Len(input) \in Nat /\ <<>> \in Seq(Letters)
    BY ReaderInputType, EmptySeq DEF ReaderInv, ReaderTypes
  <1>2. ReaderTypes
    BY DEF ReaderInv
  <1>3. input' = input /\ output' = output /\ Letters' = Letters
    BY DEF Reader!Open, Reader!Measure, Reader!Measured, Letters
  <1>4. CASE Reader!Open
    <2>1. step = "open" /\ step' \in {"measure", "failed"} /\ local' = local
      BY <1>4 DEF Reader!Open
    <2>2. ReaderTypes'
      BY <1>2, <1>3, <2>1 DEF ReaderTypes
    <2>3. Fresh
      BY <2>1 DEF ReaderInv
    <2>4. Fresh'
      BY <1>3, <2>1, <2>3 DEF Fresh
    <2>5. Behold(local.at)'
      <3>1. Split(<<>>, {"nl", "sp"}, <<>>, <<>>, Letters)
        BY SplitEmpty
      <3>2. SubSeq(input, 1, local.at - 1) = <<>>
        <4>1. local.at - 1 = 0
          BY <2>1, <2>3 DEF Fresh
        <4> QED BY <1>1, <4>1, Whole
      <3>3. IsLongest(<<>>, 0) /\ Len(<<>>) = 0
        BY DEF IsLongest
      <3>4. Behold(local.at)
        BY <2>1, <2>3, <3>1, <3>2, <3>3 DEF Behold, Fresh
      <3> QED BY <1>3, <2>1, <3>4 DEF Behold
    <2> QED BY <2>1, <2>2, <2>4, <2>5 DEF ReaderInv
  <1>5. CASE Reader!Measure
    <2>1. /\ step = "measure" /\ step' = "measure" /\ local.at <= Len(input)
          /\ local' = IF Reader!EndsWord(input[local.at])
                      THEN [local EXCEPT !.at = @ + 1, !.currWordSize = 0,
                              !.maxWordSize = Reader!Larger(@, local.currWordSize)]
                      ELSE [local EXCEPT !.at = @ + 1, !.currWordSize = @ + 1]
      BY <1>5 DEF Reader!Measure
    <2>2. PICK n : n = local.at
      OBVIOUS
    <2>3. n \in 1 .. Len(input) /\ n \in Nat \ {0} /\ (n + 1) - 1 = n
      BY <1>1, <1>2, <2>1, <2>2 DEF ReaderTypes
    <2>4. PICK c : c = input[n]
      OBVIOUS
    <2>5. /\ SubSeq(input, 1, n) = Append(SubSeq(input, 1, n - 1), c)
          /\ c \in Letters
      BY <1>1, <2>3, <2>4, Prefix
    <2>6. PICK ws, w : /\ Split(SubSeq(input, 1, n - 1), {"nl", "sp"}, ws, w, Letters)
                       /\ Len(w) = local.currWordSize
                       /\ IsLongest(ws, local.maxWordSize)
      BY <2>1, <2>2 DEF ReaderInv, Behold
    <2>7. ws \in Seq(Seq(Letters)) /\ w \in Seq(Letters) /\ Len(w) \in Nat
      BY <2>6, Bounds, LenProperties
    <2>8. /\ local'.at = n + 1 /\ local'.bufWord = local.bufWord
          /\ local'.top = local.top
          /\ c \in {"nl", "sp"} =>
               /\ local'.currWordSize = 0
               /\ local'.maxWordSize = Reader!Larger(local.maxWordSize, Len(w))
          /\ c \notin {"nl", "sp"} =>
               /\ local'.currWordSize = Len(w) + 1
               /\ local'.maxWordSize = local.maxWordSize
      BY <1>2, <2>1, <2>2, <2>4, <2>6 DEF Reader!EndsWord, ReaderTypes
    <2>9. ReaderTypes'
      <3>1. n + 1 \in Nat \ {0} /\ n + 1 <= Len(input) + 1
        BY <1>1, <2>3
      <3>2. Reader!Larger(local.maxWordSize, local.currWordSize) \in Nat
        BY <1>2 DEF Reader!Larger, ReaderTypes
      <3>3. local' \in [at : Nat \ {0}, currWordSize : Nat, maxWordSize : Nat,
                        bufWord : Seq(Letters), top : Nat, cut : BOOLEAN]
        <4>1. CASE Reader!EndsWord(input[local.at])
          BY <1>2, <2>1, <2>2, <3>1, <3>2, <4>1 DEF ReaderTypes
        <4>2. CASE ~Reader!EndsWord(input[local.at])
          <5>1. local.currWordSize + 1 \in Nat
            BY <1>2 DEF ReaderTypes
          <5> QED BY <1>2, <2>1, <2>2, <3>1, <4>2, <5>1 DEF ReaderTypes
        <4> QED BY <4>1, <4>2
      <3> QED BY <1>2, <1>3, <2>1, <2>8, <3>1, <3>3 DEF ReaderTypes
    <2>10. Fresh'
      BY <1>3, <2>1, <2>8 DEF ReaderInv, Fresh
    <2>11. \E vs, v : /\ Split(SubSeq(input, 1, n), {"nl", "sp"}, vs, v, Letters)
                      /\ Len(v) = local'.currWordSize
                      /\ IsLongest(vs, local'.maxWordSize)
      <3>1. CASE c \in {"nl", "sp"}
        <4>1. Split(SubSeq(input, 1, n), {"nl", "sp"}, ws \o Reader!Counted(w),
                    <<>>, Letters)
          BY <2>5, <2>6, <3>1, SplitSeparator
        <4>2. IsLongest(ws \o Reader!Counted(w), local'.maxWordSize)
          BY <2>6, <2>7, <2>8, <3>1, LongestMore
        <4>3. Len(<<>>) = local'.currWordSize
          BY <2>8, <3>1
        <4> QED BY <4>1, <4>2, <4>3
      <3>2. CASE c \notin {"nl", "sp"}
        <4>1. Split(SubSeq(input, 1, n), {"nl", "sp"}, ws, Append(w, c), Letters)
          BY <2>5, <2>6, <3>2, SplitOther
        <4>2. Len(Append(w, c)) = local'.currWordSize
          BY <2>5, <2>7, <2>8, <3>2, AppendProperties
        <4> QED BY <2>6, <2>8, <3>2, <4>1, <4>2
      <3> QED BY <3>1, <3>2
    <2>12. Behold(local.at)'
      <3>1. local'.at - 1 = n
        BY <2>3, <2>8
      <3> QED BY <1>3, <2>11, <3>1 DEF Behold
    <2> QED BY <2>1, <2>9, <2>10, <2>12 DEF ReaderInv
  <1>6. CASE Reader!Measured
    <2>1. PICK cut \in BOOLEAN :
            /\ cut \/ local.at = Len(input) + 1
            /\ local' = [local EXCEPT !.at = 1, !.cut = cut]
      BY <1>6 DEF Reader!Measured
    <2>2. step = "measure" /\ step' = "read" /\ Fresh
      BY <1>6 DEF Reader!Measured, ReaderInv
    <2>3. /\ local'.at = 1 /\ local'.cut = cut /\ local'.bufWord = <<>>
          /\ local'.top = 0 /\ local'.maxWordSize = local.maxWordSize
          /\ output' = <<>>
      BY <1>2, <1>3, <2>1, <2>2 DEF ReaderTypes, Fresh
    <2>4. ReaderTypes'
      <3>1. 1 \in Nat \ {0} /\ 1 <= Len(input) + 1
        BY <1>1
      <3>2. local' \in [at : Nat \ {0}, currWordSize : Nat, maxWordSize : Nat,
                        bufWord : Seq(Letters), top : Nat, cut : BOOLEAN]
        BY <1>2, <2>1, <3>1 DEF ReaderTypes
      <3> QED BY <1>2, <1>3, <2>2, <2>3, <3>1, <3>2 DEF ReaderTypes
    <2>5. Sized'
      <3>1. ASSUME ~cut, Reader!Alike(input)
            PROVE  /\ Reader!Runs(input, {"nl", "sp"}) \in Seq(Seq(Letters))
                   /\ IsLongest(Reader!Runs(input, {"nl", "sp"}), local.maxWordSize)
        <4>1. Behold(local.at) /\ local.at = Len(input) + 1
          BY <2>1, <2>2, <3>1 DEF ReaderInv
        <4>2. input \in ReaderInputs
          BY <1>2 DEF ReaderTypes
        <4> QED BY <3>1, <4>1, <4>2, MeasuredAll
      <3>2. ~cut /\ Reader!Alike(input) =>
              /\ Reader!Runs(input, {"nl", "sp"}) \in Seq(Seq(Letters))
              /\ IsLongest(Reader!Runs(input, {"nl", "sp"}), local'.maxWordSize)
        BY <2>3, <3>1
      <3> QED BY <1>3, <2>3, <3>2 DEF Sized
    <2>6. Collected(local.at)'
      <3>1. Joint(<<>>, <<>>, Letters) /\ Split(<<>>, {"sp"}, <<>>, <<>>, Letters)
        BY JointEmpty, SplitEmpty
      <3>2. local'.at - 1 = 0 /\ SubSeq(input, 1, 0) = <<>>
        BY <1>1, <2>3, Whole
      <3> QED BY <1>3, <2>3, <3>1, <3>2 DEF Collected
    <2>7. Within'
      BY <2>3 DEF Within
    <2> QED BY <2>2, <2>4, <2>5, <2>6, <2>7 DEF ReaderInv
  <1> QED BY <1>4, <1>5, <1>6

(* A character of the second pass: what it does to the array and the words *)
(* that follow from it.                                                    *)
LEMMA ReaderCollects ==
  ASSUME Reader!WellFormed, ReaderInv,
         Reader!Letter \/ Reader!Newline \/ Reader!Space
  PROVE  ReaderInv'
  <1>1. input \in Seq(Letters) /\ Len(input) \in Nat /\ <<>> \in Seq(Letters)
    BY ReaderInputType, EmptySeq DEF ReaderInv, ReaderTypes
  <1>2. ReaderTypes /\ Sized /\ Collected(local.at) /\ Within /\ step = "read"
    BY DEF ReaderInv, Reader!Letter, Reader!Newline, Reader!Space
  <1>3. input' = input /\ Letters' = Letters
    BY DEF Reader!Letter, Reader!Newline, Reader!Space, Letters
  <1>4. PICK n : n = local.at
    OBVIOUS
  <1>5. n \in 1 .. Len(input) /\ n \in Nat \ {0} /\ (n + 1) - 1 = n
    <2>1. local.at <= Len(input)
      BY DEF Reader!Letter, Reader!Newline, Reader!Space
    <2> QED BY <1>1, <1>2, <1>4, <2>1 DEF ReaderTypes
  <1>6. PICK c : c = input[n]
    OBVIOUS
  <1>7. /\ SubSeq(input, 1, n) = Append(SubSeq(input, 1, n - 1), c)
        /\ c \in Letters
    BY <1>1, <1>5, <1>6, Prefix
  <1>8. PICK t : /\ Joint(SubSeq(input, 1, n - 1), t, Letters)
                 /\ Split(t, {"sp"}, output, local.bufWord, Letters)
    BY <1>2, <1>4 DEF Collected
  <1>9. /\ output \in Seq(Seq(Letters)) /\ local.bufWord \in Seq(Letters)
        /\ Len(local.bufWord) \in Nat
    BY <1>8, Bounds, LenProperties
  <1> DEFINE top == Reader!Larger(local.top, Len(local.bufWord) + 1)
  <1>10. top \in Nat /\ Len(local.bufWord) + 1 \in Nat
    BY <1>2, <1>9 DEF Reader!Larger, ReaderTypes
  <1>11. /\ step' \in {"read", "undefined"}
         /\ output' = NextWords(output, local.bufWord, c)
         /\ local' = [local EXCEPT !.at = @ + 1,
                        !.bufWord = NextWord(@, c),
                        !.top = IF c = "nl" THEN @ ELSE top]
    <2>1. CASE Reader!Letter
      <3>1. c # "nl" /\ c # "sp"
        BY <1>4, <1>6, <2>1 DEF Reader!Letter
      <3>2. step' \in {"read", "undefined"}
        BY <2>1 DEF Reader!Letter, Reader!Write
      <3>3. local' = [local EXCEPT !.at = @ + 1, !.bufWord = Append(@, c),
                                   !.top = top]
        BY <1>2, <1>4, <1>6, <2>1 DEF Reader!Letter, ReaderTypes
      <3>4. NextWord(local.bufWord, c) = Append(local.bufWord, c)
        BY <3>1 DEF NextWord
      <3>5. output' = output
        BY <2>1 DEF Reader!Letter
      <3> HIDE DEF top
      <3> QED BY <1>2, <3>1, <3>2, <3>3, <3>4, <3>5 DEF NextWords, ReaderTypes
    <2>2. CASE Reader!Newline
      <3>1. c = "nl" /\ c # "sp"
        BY <1>4, <1>6, <2>2 DEF Reader!Newline
      <3>2. step' = "read" /\ output' = output /\ local' = [local EXCEPT !.at = @ + 1]
        BY <1>2, <2>2 DEF Reader!Newline
      <3>3. NextWord(local.bufWord, c) = local.bufWord
        BY <3>1 DEF NextWord
      <3> HIDE DEF top
      <3> QED BY <1>2, <3>1, <3>2, <3>3 DEF NextWords, ReaderTypes
    <2>3. CASE Reader!Space
      <3>1. c # "nl" /\ c = "sp"
        BY <1>4, <1>6, <2>3 DEF Reader!Space
      <3>2. step' \in {"read", "undefined"}
        BY <2>3 DEF Reader!Space, Reader!Write
      <3>3. local' = [local EXCEPT !.at = @ + 1, !.bufWord = <<>>, !.top = top]
        BY <1>2, <2>3 DEF Reader!Space, ReaderTypes
      <3>4. NextWord(local.bufWord, c) = <<>>
        BY <3>1 DEF NextWord
      <3>5. output' = output \o Reader!Counted(local.bufWord)
        BY <2>3 DEF Reader!Space
      <3> HIDE DEF top
      <3> QED BY <1>2, <3>1, <3>2, <3>3, <3>4, <3>5 DEF NextWords, ReaderTypes
    <2> QED BY <2>1, <2>2, <2>3
  <1> HIDE DEF top
  <1>12. PICK u : /\ Joint(SubSeq(input, 1, n), u, Letters)
                  /\ Split(u, {"sp"}, output', NextWord(local.bufWord, c), Letters)
    BY <1>7, <1>8, <1>11, Advance
  <1>13. /\ local'.at = n + 1 /\ local'.bufWord = NextWord(local.bufWord, c)
         /\ local'.top = IF c = "nl" THEN local.top ELSE top
         /\ local'.cut = local.cut /\ local'.maxWordSize = local.maxWordSize
    BY <1>2, <1>4, <1>11 DEF ReaderTypes
  <1>14. ReaderTypes'
    <2>1. n + 1 \in Nat \ {0} /\ n + 1 <= Len(input) + 1
      BY <1>1, <1>5
    <2>2. NextWord(local.bufWord, c) \in Seq(Letters)
      BY <1>12, Bounds
    <2>3. local' \in [at : Nat \ {0}, currWordSize : Nat, maxWordSize : Nat,
                      bufWord : Seq(Letters), top : Nat, cut : BOOLEAN]
      <3>1. PICK tp \in Nat : tp = IF c = "nl" THEN local.top ELSE top
        BY <1>2, <1>10 DEF ReaderTypes
      <3>2. local' = [local EXCEPT !.at = n + 1,
                                   !.bufWord = NextWord(local.bufWord, c),
                                   !.top = tp]
        BY <1>2, <1>4, <1>11, <3>1 DEF ReaderTypes
      <3> QED BY <1>2, <2>1, <2>2, <3>2 DEF ReaderTypes
    <2> QED BY <1>2, <1>3, <1>11, <1>13, <2>1, <2>3 DEF ReaderTypes
  <1>15. Sized'
    BY <1>2, <1>3, <1>13 DEF Sized
  <1>16. Collected(local.at)'
    BY <1>3, <1>5, <1>12, <1>13 DEF Collected
  <1>17. Within'
    <2> SUFFICES ASSUME NEW m \in Nat, Fit(output', m), Len(local'.bufWord) <= m
                 PROVE  local'.top <= m + 1
      BY DEF Within
    <2>1. Fit(output, m) /\ Len(local.bufWord) <= m
      BY <1>7, <1>9, <1>11, <1>13, FitBefore
    <2>2. local.top <= m + 1 /\ local.top \in Nat
      BY <1>2, <2>1 DEF Within, ReaderTypes
    <2>3. top <= m + 1
      BY <1>9, <2>1, <2>2 DEF top, Reader!Larger
    <2> QED BY <1>13, <2>2, <2>3
  <1> QED BY <1>11, <1>14, <1>15, <1>16, <1>17 DEF ReaderInv

LEMMA ReaderFinishes ==
  ASSUME Reader!WellFormed, ReaderInv, Reader!EndOfFile
  PROVE  ReaderInv'
  <1>1. input \in Seq(Letters) /\ Len(input) \in Nat
    BY ReaderInputType DEF ReaderInv, ReaderTypes
  <1>2. ReaderTypes /\ Sized /\ Collected(local.at) /\ Within
    BY DEF ReaderInv, Reader!EndOfFile
  <1>3. input' = input /\ Letters' = Letters /\ local.at = Len(input) + 1
    BY DEF Reader!EndOfFile, Letters
  <1>4. SubSeq(input, 1, local.at - 1) = input
    <2>1. (Len(input) + 1) - 1 = Len(input)
      BY <1>1
    <2> QED BY <1>1, <1>3, <2>1, Whole
  <1>5. PICK t : /\ Joint(input, t, Letters)
                 /\ Split(t, {"sp"}, output, local.bufWord, Letters)
    BY <1>2, <1>4 DEF Collected
  <1>6. /\ output \in Seq(Seq(Letters)) /\ local.bufWord \in Seq(Letters)
        /\ Len(local.bufWord) \in Nat
    BY <1>5, Bounds, LenProperties
  <1>7. output' = Reader!Runs(Reader!Joined(input), {"sp"})
    <2>1. output' = output \o Reader!Counted(local.bufWord)
      BY DEF Reader!EndOfFile, Reader!LastWord
    <2> QED BY <1>5, <2>1, JointIs, SplitRuns
  <1> DEFINE top == Reader!Larger(local.top, Len(local.bufWord) + 1)
  <1>8. top \in Nat
    BY <1>2, <1>6 DEF Reader!Larger, ReaderTypes
  <1>9. /\ step' \in {"done", "undefined"}
        /\ \/ local' = local
           \/ local' = [local EXCEPT !.top = top]
    BY DEF Reader!EndOfFile, Reader!Write
  <1>10. /\ local'.at = local.at /\ local'.maxWordSize = local.maxWordSize
         /\ local'.cut = local.cut /\ local'.top \in {local.top, top}
    <2> HIDE DEF top
    <2> QED BY <1>2, <1>9 DEF ReaderTypes
  <1>11. ReaderTypes'
    <2> HIDE DEF top
    <2>1. local' \in [at : Nat \ {0}, currWordSize : Nat, maxWordSize : Nat,
                      bufWord : Seq(Letters), top : Nat, cut : BOOLEAN]
      BY <1>2, <1>8, <1>9 DEF ReaderTypes
    <2> QED BY <1>2, <1>3, <1>9, <1>10, <2>1 DEF ReaderTypes
  <1>12. Sized'
    BY <1>2, <1>3, <1>10 DEF Sized
  <1>13. ASSUME ~local.cut, Reader!Alike(input)
         PROVE  local'.top <= local.maxWordSize + 1
    <2>1. PICK m \in Nat : m = local.maxWordSize
      BY <1>2 DEF ReaderTypes
    <2>2. Fit(Reader!Runs(input, {"nl", "sp"}), m)
      BY <1>2, <1>13, <2>1 DEF Sized, IsLongest, Fit
    <2>3. Fit(output \o Reader!Counted(local.bufWord), m)
      BY <1>7, <1>13, <2>2 DEF Reader!Alike, Reader!EndOfFile, Reader!LastWord
    <2>4. Fit(output, m) /\ Len(local.bufWord) <= m
      BY <1>6, <2>3, FitParts
    <2>5. local.top <= m + 1 /\ local.top \in Nat
      BY <1>2, <2>4 DEF Within, ReaderTypes
    <2>6. top <= m + 1
      BY <1>6, <2>4, <2>5 DEF Reader!Larger
    <2> HIDE DEF top
    <2> QED BY <1>10, <2>1, <2>5, <2>6
  <1>14. Finished'
    BY <1>3, <1>7, <1>10, <1>13 DEF Finished
  <1> QED BY <1>9, <1>11, <1>12, <1>14 DEF ReaderInv

LEMMA ReaderStep ==
  ASSUME Reader!WellFormed, ReaderInv, [Reader!Next]_(Reader!vars)
  PROVE  ReaderInv'
  <1>1. CASE Reader!Open \/ Reader!Measure \/ Reader!Measured
    BY <1>1, ReaderMeasures
  <1>2. CASE Reader!Letter \/ Reader!Newline \/ Reader!Space
    BY <1>2, ReaderCollects
  <1>3. CASE Reader!EndOfFile
    BY <1>3, ReaderFinishes
  <1>4. CASE Reader!ReadFails
    BY <1>4 DEF Reader!ReadFails, ReaderInv, ReaderTypes, Letters
  <1>5. CASE UNCHANGED Reader!vars
    BY <1>5 DEF Reader!vars, ReaderInv, ReaderTypes, Letters, Fresh, Behold,
                Sized, Collected, Within, Finished
  <1> QED BY <1>1, <1>2, <1>3, <1>4, <1>5 DEF Reader!Next

(* What the run checks follows from the invariant.                         *)
LEMMA ReaderKnows ==
  ASSUME Reader!WellFormed, ReaderInv
  PROVE  Reader!CountedWords /\ Reader!PassesAgree
  <1>1. Reader!CountedWords
    BY DEF ReaderInv, Finished, Reader!CountedWords
  <1>2. ASSUME step \in {"read", "done"}, Reader!Alike(input), ~local.cut
        PROVE  /\ local.maxWordSize = Reader!Longest(Reader!Runs(input, {"nl", "sp"}))
               /\ local.top <= local.maxWordSize + 1
    <2>1. /\ Reader!Runs(input, {"nl", "sp"}) \in Seq(Seq(Letters))
          /\ IsLongest(Reader!Runs(input, {"nl", "sp"}), local.maxWordSize)
      BY <1>2 DEF ReaderInv, Sized
    <2>2. local.maxWordSize = Reader!Longest(Reader!Runs(input, {"nl", "sp"}))
      BY <2>1, LongestIs
    <2>3. CASE step = "done"
      BY <1>2, <2>2, <2>3 DEF ReaderInv, Finished
    <2>4. CASE step = "read"
      <3>1. PICK m \in Nat : m = local.maxWordSize
        BY DEF ReaderInv, ReaderTypes
      <3>2. Fit(Reader!Runs(input, {"nl", "sp"}), m)
        BY <2>1, <3>1 DEF IsLongest, Fit
      <3>3. Fit(Reader!Runs(Reader!Joined(input), {"sp"}), m)
        BY <1>2, <3>2 DEF Reader!Alike
      <3>4. input \in Seq(Letters) /\ Len(input) \in Nat
        BY ReaderInputType DEF ReaderInv, ReaderTypes
      <3>5. PICK n : n = local.at - 1
        OBVIOUS
      <3>6. n \in 0 .. Len(input)
        BY <3>4, <3>5 DEF ReaderInv, ReaderTypes
      <3>7. PICK t : /\ Joint(SubSeq(input, 1, n), t, Letters)
                     /\ Split(t, {"sp"}, output, local.bufWord, Letters)
        BY <2>4, <3>5 DEF ReaderInv, Collected
      <3>8. Fit(output, m) /\ Len(local.bufWord) <= m
        BY <3>3, <3>4, <3>6, <3>7, FitAll
      <3>9. local.top <= m + 1
        BY <2>4, <3>8 DEF ReaderInv, Within
      <3> QED BY <2>2, <3>1, <3>9
    <2> QED BY <1>2, <2>3, <2>4
  <1>3. Reader!PassesAgree
    BY <1>2 DEF Reader!PassesAgree
  <1> QED BY <1>1, <1>3

LEMMA ReaderAlways == ProgramSpec => [](program = "word reader" => ReaderInv)
  <1> DEFINE Inv == program = "word reader" => ReaderInv
  <1>1. ProgramInit => Inv
    BY ReaderInitial, InputsAreWellFormed DEF ProgramInit
  <1>2. Inv /\ [ProgramNext]_programVars => Inv'
    <2> SUFFICES ASSUME Inv, [ProgramNext]_programVars, program' = "word reader"
                 PROVE  ReaderInv'
      OBVIOUS
    <2>1. program = "word reader" /\ [Reader!Next]_(Reader!vars)
      BY DEF ProgramNext, programVars, Reader!vars
    <2> QED BY <2>1, ReaderStep, InputsAreWellFormed
  <1> QED BY <1>1, <1>2, PTL DEF ProgramSpec

(* The table is given the runs of characters between the spaces of the     *)
(* file without its newlines, in their order and as often as they occur,   *)
(* the one at the end of the file included, whatever the file.             *)
THEOREM WordsAreCounted == ProgramSpec => []CountedWords
  <1>1. (program = "word reader" => ReaderInv) => CountedWords
    BY ReaderKnows, InputsAreWellFormed DEF CountedWords
  <1> QED BY <1>1, ReaderAlways, PTL

(* Where both passes see the same words and the first read the whole file, *)
(* it found the length of the longest, and the second writes no further    *)
(* than one character behind it.                                           *)
THEOREM BothPassesAgree == ProgramSpec => []PassesAgree
  <1>1. (program = "word reader" => ReaderInv) => PassesAgree
    BY ReaderKnows, InputsAreWellFormed DEF PassesAgree
  <1> QED BY <1>1, ReaderAlways, PTL

(***************************************************************************)
(* Encoder: for any texts and names of encodings.                          *)
(***************************************************************************)
(* The bytes that start a character.                                       *)
Leads(s) == {i \in DOMAIN s : i = 1 \/ s[i] \notin Encoded!Continuation}

LEMMA EncodedAscending == \A A : Encoded!Ascending(A) = Ascending(A)
  BY DEF Ascending, Rank, Cardinality, Encoded!Ascending, Encoded!Rank,
         Encoded!Cardinality

(* The bytes s are read as the characters v.                               *)
CharEnd(s, q, k) == IF k = Len(q) THEN Len(s) ELSE q[k + 1] - 1

Decodes(s, v) ==
  /\ s \in Seq(Nat) /\ v \in Seq(Nat)
  /\ \E q : /\ Lists(q, Leads(s)) /\ Len(q) = Len(v)
            /\ \A k \in 1 .. Len(v) :
                 v[k] = Encoded!Character(SubSeq(s, q[k], CharEnd(s, q, k)))

LEMMA DecodesIs ==
  ASSUME NEW s, NEW v, Decodes(s, v)
  PROVE  Encoded!Decoded(s) = v
  <1>1. PICK q : /\ Lists(q, Leads(s)) /\ Len(q) = Len(v)
                 /\ \A k \in 1 .. Len(v) :
                      v[k] = Encoded!Character(SubSeq(s, q[k], CharEnd(s, q, k)))
    BY DEF Decodes
  <1>2. DOMAIN q = 1 .. Len(v)
    BY <1>1, LenProperties DEF Lists
  <1>3. Encoded!Ascending({i \in DOMAIN s : i = 1 \/ s[i] \notin Encoded!Continuation})
          = q
    BY <1>1, EncodedAscending, AscendingIs DEF Leads
  <1>4. v = [k \in 1 .. Len(v) |-> v[k]]
    BY LenProperties DEF Decodes
  <1>5. Encoded!Decoded(s)
          = [k \in 1 .. Len(v) |-> Encoded!Character(SubSeq(s, q[k], CharEnd(s, q, k)))]
    BY <1>2, <1>3 DEF Encoded!Decoded, CharEnd
  <1> QED BY <1>1, <1>4, <1>5

(* c is the character x: one byte that starts it and those that go on.     *)
Writes(c, x) ==
  /\ c \in Seq(Nat) /\ c # <<>> /\ x \in Nat
  /\ c[1] \notin Encoded!Continuation
  /\ \A j \in 2 .. Len(c) : c[j] \in Encoded!Continuation
  /\ Encoded!Character(c) = x

LEMMA DecodesMore ==
  ASSUME NEW s, NEW v, Decodes(s, v), NEW c, NEW x, Writes(c, x)
  PROVE  Decodes(s \o c, Append(v, x))
  <1>1. PICK q : /\ Lists(q, Leads(s)) /\ Len(q) = Len(v)
                 /\ \A k \in 1 .. Len(v) :
                      v[k] = Encoded!Character(SubSeq(s, q[k], CharEnd(s, q, k)))
    BY DEF Decodes
  <1>2. /\ s \in Seq(Nat) /\ v \in Seq(Nat) /\ c \in Seq(Nat) /\ x \in Nat
        /\ c # <<>>
    BY DEF Decodes, Writes
  <1> DEFINE t == s \o c
             r == Append(q, Len(s) + 1)
             u == Append(v, x)
  <1>3. PICK n \in Nat, l \in Nat, m \in Nat : n = Len(s) /\ l = Len(c) /\ m = Len(v)
    BY <1>2, LenProperties
  <1>4. l >= 1
    BY <1>2, <1>3, EmptySeq
  <1>5. /\ t \in Seq(Nat) /\ Len(t) = n + l
        /\ DOMAIN t = 1 .. n + l /\ DOMAIN s = 1 .. n
        /\ \A j \in 1 .. n : t[j] = s[j]
        /\ \A j \in 1 .. l : t[n + j] = c[j]
    <2>1. /\ t \in Seq(Nat) /\ Len(t) = n + l
          /\ \A j \in 1 .. n : t[j] = s[j]
          /\ \A j \in 1 .. l : t[n + j] = c[j]
      BY <1>2, <1>3, Behind
    <2> QED BY <1>2, <1>3, <2>1, LenProperties
  <1>6. Leads(t) = Leads(s) \cup {n + 1}
    <2>1. ASSUME NEW i \in 1 .. n
          PROVE  i \in Leads(t) <=> i \in Leads(s)
      BY <1>3, <1>5 DEF Leads
    <2>2. n + 1 \in Leads(t)
      BY <1>4, <1>5 DEF Leads, Writes
    <2>3. ASSUME NEW i \in Leads(t), i \notin 1 .. n
          PROVE  i = n + 1
      <3>1. i \in n + 1 .. n + l
        BY <1>5, <2>3 DEF Leads
      <3>2. PICK j \in 1 .. l : i = n + j
        <4>1. i - n \in 1 .. l /\ i = n + (i - n)
          BY <3>1
        <4> QED BY <4>1
      <3>3. CASE j = 1
        BY <3>2, <3>3
      <3>4. CASE j # 1
        <4>1. j \in 2 .. Len(c)
          BY <1>3, <3>2, <3>4
        <4>2. t[i] \in Encoded!Continuation
          BY <1>5, <3>2, <4>1 DEF Writes
        <4>3. i # 1
          BY <3>1, <3>2, <3>4
        <4> QED BY <2>3, <4>2, <4>3 DEF Leads
      <3> QED BY <3>3, <3>4
    <2>4. Leads(s) \subseteq 1 .. n
      BY <1>5 DEF Leads
    <2> QED BY <2>1, <2>2, <2>3, <2>4
  <1> HIDE DEF t
  <1>7. Lists(r, Leads(t))
    <2>1. PICK y \in Nat : y = n + 1 /\ \A i \in Leads(s) : i < y
      BY <1>5 DEF Leads
    <2>2. Lists(Append(q, y), Leads(s) \cup {y})
      BY <1>1, <2>1, ListsMore
    <2> QED BY <1>3, <1>6, <2>1, <2>2
  <1>8. /\ DOMAIN q = 1 .. m /\ q \in Seq(Nat)
        /\ \A k \in 1 .. m : q[k] \in 1 .. n /\ q[k] \in Nat
        /\ \A j, k \in 1 .. m : j < k => q[j] < q[k]
    <2>1. DOMAIN q = 1 .. m /\ q \in Seq(Nat)
      BY <1>1, <1>3, LenProperties DEF Lists
    <2>2. Leads(s) \subseteq 1 .. n
      BY <1>5 DEF Leads
    <2>3. /\ \A k \in 1 .. m : q[k] \in Leads(s)
          /\ \A j, k \in 1 .. m : j < k => q[j] < q[k]
      BY <1>1, <2>1 DEF Lists
    <2> QED BY <2>1, <2>2, <2>3
  <1>9. /\ Len(r) = m + 1 /\ r[m + 1] = n + 1
        /\ \A k \in 1 .. m : r[k] = q[k]
    <2>1. PICK y \in Nat : y = Len(s) + 1 /\ y = n + 1
      BY <1>3
    <2>2. Len(q) = m
      BY <1>1, <1>3
    <2>3. /\ Len(Append(q, y)) = m + 1 /\ Append(q, y)[m + 1] = y
          /\ \A k \in 1 .. m : Append(q, y)[k] = q[k]
      BY <1>8, <2>1, <2>2, AppendProperties
    <2> QED BY <2>1, <2>3
  <1>10. /\ u \in Seq(Nat) /\ Len(u) = m + 1 /\ u[m + 1] = x
         /\ \A k \in 1 .. m : u[k] = v[k]
    BY <1>2, <1>3, AppendProperties
  <1> HIDE DEF r, u
  <1>11. ASSUME NEW k \in 1 .. m
         PROVE  u[k] = Encoded!Character(SubSeq(t, r[k], CharEnd(t, r, k)))
    <2>1. PICK a, e : a = q[k] /\ e = CharEnd(s, q, k)
      OBVIOUS
    <2>2. CharEnd(t, r, k) = e /\ e \in 1 .. n
      <3>1. k # Len(r) /\ CharEnd(t, r, k) = r[k + 1] - 1
        BY <1>9 DEF CharEnd
      <3>2. CASE k = m
        <4>1. r[k + 1] = n + 1 /\ e = n
          BY <1>1, <1>3, <1>9, <2>1, <3>2 DEF CharEnd
        <4>2. n \in 1 .. n
          BY <1>8
        <4> QED BY <3>1, <4>1, <4>2
      <3>3. CASE k # m
        <4>1. k + 1 \in 1 .. m /\ k < k + 1
          BY <3>3
        <4>2. e = q[k + 1] - 1
          BY <1>1, <1>3, <2>1, <3>3 DEF CharEnd
        <4>3. q[k] < q[k + 1] /\ q[k] \in 1 .. n /\ q[k + 1] \in 1 .. n
          BY <1>8, <4>1
        <4>4. r[k + 1] = q[k + 1]
          BY <1>9, <4>1
        <4> QED BY <3>1, <4>2, <4>3, <4>4
      <3> QED BY <3>2, <3>3
    <2>3. a \in 1 .. n /\ r[k] = a
      BY <1>8, <1>9, <2>1
    <2>4. SubSeq(t, a, e) = SubSeq(s, a, e)
      BY <1>2, <1>3, <2>2, <2>3, SubSeqOfConcat1 DEF t
    <2>5. v[k] = Encoded!Character(SubSeq(s, a, e))
      BY <1>1, <1>3, <2>1
    <2> QED BY <1>10, <2>2, <2>3, <2>4, <2>5
  <1>12. u[m + 1] = Encoded!Character(SubSeq(t, r[m + 1], CharEnd(t, r, m + 1)))
    <2>1. CharEnd(t, r, m + 1) = n + l
      BY <1>5, <1>9 DEF CharEnd
    <2>2. SubSeq(t, n + 1, n + l) = c
      <3>1. PICK a, e : a = n + 1 /\ e = n + l
        OBVIOUS
      <3>2. /\ a \in Len(s) + 1 .. Len(s) + Len(c)
            /\ e \in Len(s) + 1 .. Len(s) + Len(c)
            /\ a - Len(s) = 1 /\ e - Len(s) = Len(c)
        BY <1>3, <1>4, <3>1
      <3>3. SubSeq(t, a, e) = SubSeq(c, a - Len(s), e - Len(s))
        BY <1>2, <3>2, SubSeqOfConcat2 DEF t
      <3>4. SubSeq(c, 1, Len(c)) = c
        BY <1>2, SubSeqFull
      <3> QED BY <3>1, <3>2, <3>3, <3>4
    <2> QED BY <1>9, <1>10, <2>1, <2>2 DEF Writes
  <1>13. ASSUME NEW k \in 1 .. m + 1
         PROVE  u[k] = Encoded!Character(SubSeq(t, r[k], CharEnd(t, r, k)))
    <2>1. k \in 1 .. m \/ k = m + 1
      OBVIOUS
    <2> QED BY <1>11, <1>12, <2>1
  <1>14. \E p : /\ Lists(p, Leads(t)) /\ Len(p) = Len(u)
                /\ \A k \in 1 .. Len(u) :
                     u[k] = Encoded!Character(SubSeq(t, p[k], CharEnd(t, p, k)))
    BY <1>7, <1>9, <1>10, <1>13
  <1>15. Decodes(t, u)
    BY <1>5, <1>10, <1>14 DEF Decodes
  <1> QED BY <1>15 DEF t, u

LEMMA DecodesNothing == Decodes(<<>>, <<>>)
  <1>1. <<>> \in Seq(Nat) /\ Len(<<>>) = 0 /\ DOMAIN <<>> = {}
    BY EmptySeq, LenProperties
  <1>2. Leads(<<>>) = {}
    BY <1>1 DEF Leads
  <1>3. Lists(<<>>, Leads(<<>>))
    BY <1>2, ListsNothing
  <1> QED BY <1>1, <1>3 DEF Decodes

-----------------------------------------------------------------------------
(* The characters of the tables are of these two ranges.                   *)
Coded(x) == 128 <= x /\ x <= 12287 /\ (x <= 2047 \/ 8192 <= x)

LEMMA AsciiWritten ==
  ASSUME NEW x \in Nat, x < 128
  PROVE  Writes(<<x>>, x)
  <1>1. /\ <<x>> \in Seq(Nat) /\ <<x>> # <<>> /\ Len(<<x>>) = 1 /\ <<x>>[1] = x
    OBVIOUS
  <1>2. x \notin Encoded!Continuation
    BY DEF Encoded!Continuation
  <1>3. Encoded!Character(<<x>>) = x
    BY <1>1 DEF Encoded!Character
  <1>4. \A j \in 2 .. Len(<<x>>) : FALSE
    BY <1>1
  <1> QED BY <1>1, <1>2, <1>3, <1>4 DEF Writes

LEMMA EndWritten == Writes(<<255>>, Encoded!Invalid)
  <1>1. /\ <<255>> \in Seq(Nat) /\ <<255>> # <<>> /\ Len(<<255>>) = 1
        /\ <<255>>[1] = 255
    OBVIOUS
  <1>2. 255 \notin Encoded!Continuation
    BY DEF Encoded!Continuation
  <1>3. Encoded!Character(<<255>>) = Encoded!Invalid
    BY <1>1 DEF Encoded!Character
  <1>4. \A j \in 2 .. Len(<<255>>) : FALSE
    BY <1>1
  <1> QED BY <1>1, <1>2, <1>3, <1>4 DEF Writes, Encoded!Invalid

LEMMA TwoBytes ==
  ASSUME NEW x \in Nat, 128 <= x, x <= 2047
  PROVE  Writes(Encoded!PrintUtf8Char(x), x)
  <1>1. PICK h \in Nat, l \in Nat : h = x \div 64 /\ l = x % 64
    OBVIOUS
  <1>2. l < 64 /\ x = 64 * h + l
    BY <1>1
  <1>3. 2 <= h /\ h < 32
    BY <1>2
  <1>4. h % 64 = h /\ l % 128 = l
    BY <1>2, <1>3
  <1>5. PICK b \in Nat, e \in Nat : b = 192 + h /\ e = 128 + l
    OBVIOUS
  <1>6. Encoded!Or(192, h) = b /\ Encoded!Or(128, l) = e
    BY <1>4, <1>5 DEF Encoded!Or
  <1>7. x < 2048
    OBVIOUS
  <1>8. Encoded!PrintUtf8Char(x) = <<b, e>>
    <2>1. Encoded!LastByte(x) = e
      BY <1>1, <1>6 DEF Encoded!LastByte
    <2>2. Encoded!PrintUtf8Char(x)
            = <<Encoded!Or(192, x \div 64), Encoded!LastByte(x)>>
      BY <1>7, SMT DEF Encoded!PrintUtf8Char
    <2> QED BY <1>1, <1>6, <2>1, <2>2
  <1>9. /\ <<b, e>> \in Seq(Nat) /\ <<b, e>> # <<>> /\ Len(<<b, e>>) = 2
        /\ <<b, e>>[1] = b /\ <<b, e>>[2] = e
    OBVIOUS
  <1>10. b \in 194 .. 223 /\ b \notin 128 .. 191 /\ e \in 128 .. 191
    BY <1>2, <1>3, <1>5
  <1>11. (b - 192) * 64 + e - 128 = x
    BY <1>2, <1>5
  <1>12. Encoded!Character(<<b, e>>) = x
    BY <1>9, <1>10, <1>11 DEF Encoded!Character
  <1>13. \A j \in 2 .. Len(<<b, e>>) : <<b, e>>[j] \in 128 .. 191
    <2>1. \A j \in 2 .. Len(<<b, e>>) : j = 2
      BY <1>9
    <2> QED BY <1>9, <1>10, <2>1
  <1> QED BY <1>8, <1>9, <1>10, <1>12, <1>13 DEF Writes, Encoded!Continuation

LEMMA ThreeBytes ==
  ASSUME NEW x \in Nat, 8192 <= x, x <= 12287
  PROVE  Writes(Encoded!PrintUtf8Char(x), x)
  <1>1. PICK h \in Nat, l \in Nat : h = x \div 64 /\ l = x % 64
    OBVIOUS
  <1>2. l < 64 /\ x = 64 * h + l
    BY <1>1
  <1>3. 128 <= h /\ h <= 191
    BY <1>2
  <1>4. l % 128 = l
    BY <1>2
  <1>5. h % 128 = h - 128
    BY <1>3
  <1>6. x \div 4096 = 2
    OBVIOUS
  <1>7. PICK b \in Nat, d \in Nat, e \in Nat : b = 226 /\ d = h /\ e = 128 + l
    OBVIOUS
  <1>8. Encoded!Or(128, h) = d
    <2>1. 128 + (h - 128) = h
      BY <1>3
    <2> QED BY <1>5, <1>7, <2>1 DEF Encoded!Or
  <1>9. Encoded!Or(128, l) = e
    BY <1>4, <1>7 DEF Encoded!Or
  <1>10. Encoded!Or(224, 2) = b
    BY <1>7 DEF Encoded!Or
  <1>12. Encoded!PrintUtf8Char(x) = <<b, d, e>>
    <2>1. Encoded!LastByte(x) = e
      BY <1>1, <1>9 DEF Encoded!LastByte
    <2>2. Encoded!PrintUtf8Char(x)
            = <<Encoded!Or(224, x \div 4096), Encoded!Or(128, x \div 64),
                Encoded!LastByte(x)>>
      BY SMT DEF Encoded!PrintUtf8Char
    <2> QED BY <1>1, <1>6, <1>8, <1>10, <2>1, <2>2
  <1>13. /\ <<b, d, e>> \in Seq(Nat) /\ <<b, d, e>> # <<>> /\ Len(<<b, d, e>>) = 3
         /\ <<b, d, e>>[1] = b /\ <<b, d, e>>[2] = d /\ <<b, d, e>>[3] = e
    OBVIOUS
  <1>14. /\ b \in 224 .. 239 /\ b # 224 /\ b \notin 128 .. 191
         /\ d \in 128 .. 191 /\ e \in 128 .. 191
    BY <1>2, <1>3, <1>7
  <1>15. (b - 224) * 4096 + (d - 128) * 64 + e - 128 = x
    BY <1>2, <1>3, <1>7
  <1>16. Encoded!Character(<<b, d, e>>) = x
    BY <1>13, <1>14, <1>15 DEF Encoded!Character
  <1>17. \A j \in 2 .. Len(<<b, d, e>>) : <<b, d, e>>[j] \in 128 .. 191
    <2>1. \A j \in 2 .. Len(<<b, d, e>>) : j = 2 \/ j = 3
      BY <1>13
    <2> QED BY <1>13, <1>14, <2>1
  <1> QED BY <1>12, <1>13, <1>14, <1>16, <1>17 DEF Writes, Encoded!Continuation

LEMMA CodedWritten ==
  ASSUME NEW x \in Nat, Coded(x)
  PROVE  Writes(Encoded!PrintUtf8Char(x), x)
  BY TwoBytes, ThreeBytes DEF Coded

-----------------------------------------------------------------------------
(* What the tables hold.                                                   *)
LEMMA CyrillicTable ==
  ASSUME NEW i \in 1 .. 128
  PROVE  /\ i # 25 => Encoded!cp1251[i] \in Nat /\ Coded(Encoded!cp1251[i])
         /\ i >= 65 => Encoded!cp1251[i] = i + 975
  <1>1. i # 25 => Encoded!cp1251[i] \in Nat
    BY DEF Encoded!cp1251
  <1>2. i # 25 => 128 <= Encoded!cp1251[i]
    BY DEF Encoded!cp1251
  <1>3. Encoded!cp1251[i] <= 12287
    BY DEF Encoded!cp1251
  <1>4. Encoded!cp1251[i] <= 2047 \/ 8192 <= Encoded!cp1251[i]
    BY DEF Encoded!cp1251
  <1>5. i >= 65 => Encoded!cp1251[i] = i + 975
    BY DEF Encoded!cp1251
  <1> QED BY <1>1, <1>2, <1>3, <1>4, <1>5 DEF Coded

LEMMA IsoTable ==
  ASSUME NEW i \in 1 .. 128
  PROVE  /\ Encoded!iso8859[i] \in Nat /\ Coded(Encoded!iso8859[i])
         /\ 49 <= i /\ i <= 112 => Encoded!iso8859[i] = i + 991
  <1>1. Encoded!iso8859[i] \in Nat
    BY DEF Encoded!iso8859
  <1>2. 128 <= Encoded!iso8859[i] /\ Encoded!iso8859[i] <= 12287
    BY DEF Encoded!iso8859
  <1>3. Encoded!iso8859[i] <= 2047 \/ 8192 <= Encoded!iso8859[i]
    BY DEF Encoded!iso8859
  <1>4. 49 <= i /\ i <= 112 => Encoded!iso8859[i] = i + 991
    BY DEF Encoded!iso8859
  <1> QED BY <1>1, <1>2, <1>3, <1>4 DEF Coded

LEMMA KoiTable ==
  ASSUME NEW i \in 1 .. 128
  PROVE  /\ Encoded!koi8[i] \in Nat /\ Coded(Encoded!koi8[i])
         /\ 65 <= i /\ i <= 96 =>
              Encoded!koi8[i] = 1072 + Encoded!KoiOrder[i - 64]
         /\ 97 <= i => Encoded!koi8[i] = 1040 + Encoded!KoiOrder[i - 96]
  <1>1. Encoded!koi8[i] \in Nat
    BY DEF Encoded!koi8
  <1>2. 128 <= Encoded!koi8[i] /\ Encoded!koi8[i] <= 12287
    BY DEF Encoded!koi8
  <1>3. Encoded!koi8[i] <= 2047 \/ 8192 <= Encoded!koi8[i]
    BY DEF Encoded!koi8
  <1>4. 65 <= i /\ i <= 96 => Encoded!koi8[i] = 1072 + Encoded!KoiOrder[i - 64]
    BY DEF Encoded!koi8, Encoded!KoiOrder
  <1>5. 97 <= i => Encoded!koi8[i] = 1040 + Encoded!KoiOrder[i - 96]
    BY DEF Encoded!koi8, Encoded!KoiOrder
  <1> QED BY <1>1, <1>2, <1>3, <1>4, <1>5 DEF Coded

-----------------------------------------------------------------------------
(* What the program writes for a byte is its character.                    *)
LEMMA ByteWritten ==
  ASSUME NEW encoding \in DOMAIN Encoded!charsets, NEW b \in 0 .. 255,
         encoding # "cp1251" \/ b # 152
  PROVE  /\ Encoded!Meaning(encoding, b) \in Nat
         /\ b < 128 => Encoded!Meaning(encoding, b) = b
         /\ b >= 128 => LET x == Encoded!charsets[encoding][b - 128 + 1] IN
              Writes(Encoded!PrintUtf8Char(x), Encoded!Meaning(encoding, b))
  <1>1. CASE b < 128
    BY <1>1 DEF Encoded!Meaning
  <1>2. CASE b >= 128
    <2>1. PICK i : i = b - 127
      OBVIOUS
    <2>2. i \in 1 .. 128 /\ b - 128 + 1 = i /\ b - 127 = i
      BY <1>2, <2>1
    <2>3. /\ b >= 192 <=> i >= 65
          /\ b >= 224 <=> i >= 97
          /\ b \in 176 .. 239 <=> 49 <= i /\ i <= 112
          /\ b \in 192 .. 223 <=> 65 <= i /\ i <= 96
          /\ b - 191 = i - 64 /\ b - 223 = i - 96
          /\ ~(b < 128) /\ (b # 152 => i # 25)
          /\ 1040 + b - 192 = i + 975 /\ 1040 + b - 176 = i + 991
      BY <1>2, <2>1
    <2>4. PICK x : x = Encoded!charsets[encoding][i]
      OBVIOUS
    <2>5. encoding \in {"cp1251", "koi8", "iso8859"}
      BY DEF Encoded!charsets
    <2>6. x \in Nat /\ Coded(x) /\ Encoded!Meaning(encoding, b) = x
      <3>1. CASE encoding = "cp1251"
        <4>1. x = Encoded!cp1251[i]
          BY <2>4, <3>1 DEF Encoded!charsets
        <4>2. x \in Nat /\ Coded(x) /\ (i >= 65 => x = i + 975)
          BY <2>2, <2>3, <3>1, <4>1, CyrillicTable
        <4>3. Encoded!Meaning(encoding, b) = x
          BY <2>2, <2>3, <2>4, <3>1, <4>2 DEF Encoded!Meaning
        <4> QED BY <4>2, <4>3
      <3>2. CASE encoding = "iso8859"
        <4>1. x = Encoded!iso8859[i]
          BY <2>4, <3>2 DEF Encoded!charsets
        <4>2. x \in Nat /\ Coded(x) /\ (49 <= i /\ i <= 112 => x = i + 991)
          BY <2>2, <4>1, IsoTable
        <4>3. Encoded!Meaning(encoding, b) = x
          BY <2>2, <2>3, <2>4, <3>2, <4>2 DEF Encoded!Meaning
        <4> QED BY <4>2, <4>3
      <3>3. CASE encoding = "koi8"
        <4>1. x = Encoded!koi8[i]
          BY <2>4, <3>3 DEF Encoded!charsets
        <4>2. /\ x \in Nat /\ Coded(x)
              /\ 65 <= i /\ i <= 96 => x = 1072 + Encoded!KoiOrder[i - 64]
              /\ 97 <= i => x = 1040 + Encoded!KoiOrder[i - 96]
          BY <2>2, <4>1, KoiTable
        <4>3. Encoded!Meaning(encoding, b) = x
          BY <2>2, <2>3, <2>4, <3>3, <4>2 DEF Encoded!Meaning
        <4> QED BY <4>2, <4>3
      <3> QED BY <2>5, <3>1, <3>2, <3>3
    <2>7. Writes(Encoded!PrintUtf8Char(x), x)
      BY <2>6, CodedWritten
    <2> QED BY <1>2, <2>2, <2>3, <2>4, <2>6, <2>7
  <1> QED BY <1>1, <1>2

-----------------------------------------------------------------------------
(* The inductive invariant of Encoder.                                     *)
Means(n) == [k \in 1 .. n |-> Encoded!Meaning(input.encoding, input.text[k])]

EncoderTypes ==
  /\ input \in EncoderInputs
  /\ step \in {"args", "open", "copy", "usage", "failed", "done"}
  /\ local \in [at : Nat] /\ local.at <= Len(input.text)

EncoderInv ==
  /\ EncoderTypes
  /\ step \in {"args", "open"} => local.at = 0 /\ output = <<>>
  /\ step \in {"open", "copy"} => input.encoding \in DOMAIN Encoded!charsets
  /\ step = "copy" /\ Encoded!Defined(input) => Decodes(output, Means(local.at))
  /\ step = "done" /\ Encoded!Defined(input) =>
       Decodes(output, Means(local.at) \o <<Encoded!Invalid>>)

LEMMA EncoderInputType ==
  ASSUME Encoded!WellFormed, input \in EncoderInputs
  PROVE  /\ input.text \in Seq(0 .. 255) /\ Len(input.text) \in Nat
         /\ \A k \in 1 .. Len(input.text) : input.text[k] \in 0 .. 255
         /\ DOMAIN input.text = 1 .. Len(input.text)
  <1>1. input.text \in Seq(0 .. 255)
    BY DEF Encoded!WellFormed
  <1> QED BY <1>1, LenProperties

LEMMA MeansMore ==
  ASSUME NEW n \in Nat, Means(n) \in Seq(Nat),
         Encoded!Meaning(input.encoding, input.text[n + 1]) \in Nat
  PROVE  Append(Means(n), Encoded!Meaning(input.encoding, input.text[n + 1]))
           = Means(n + 1)
  <1> DEFINE x == Encoded!Meaning(input.encoding, input.text[n + 1])
             v == Append(Means(n), x)
  <1>1. Len(Means(n)) = n /\ \A k \in 1 .. n : Means(n)[k] =
          Encoded!Meaning(input.encoding, input.text[k])
    <2>1. DOMAIN Means(n) = 1 .. n
      BY DEF Means
    <2> QED BY <2>1, LenProperties DEF Means
  <1>2. /\ v \in Seq(Nat) /\ Len(v) = n + 1 /\ v[n + 1] = x
        /\ \A k \in 1 .. n : v[k] = Means(n)[k]
    BY <1>1, AppendProperties
  <1>3. v = [k \in 1 .. n + 1 |-> v[k]]
    BY <1>2, LenProperties
  <1>4. ASSUME NEW k \in 1 .. n + 1
        PROVE  v[k] = Encoded!Meaning(input.encoding, input.text[k])
    <2>1. k \in 1 .. n \/ k = n + 1
      OBVIOUS
    <2> QED BY <1>1, <1>2, <2>1
  <1> HIDE DEF v
  <1>5. v = Means(n + 1)
    BY <1>3, <1>4 DEF Means
  <1> QED BY <1>5 DEF v

LEMMA EncoderInitial ==
  ASSUME Encoded!WellFormed, Encoded!Init
  PROVE  EncoderInv
  <1>1. Len(input.text) \in Nat
    BY EncoderInputType DEF Encoded!Init
  <1>2. local \in [at : Nat] /\ local.at = 0 /\ step = "args" /\ output = <<>>
    BY DEF Encoded!Init
  <1> QED BY <1>1, <1>2 DEF Encoded!Init, EncoderInv, EncoderTypes

LEMMA EncoderCopies ==
  ASSUME Encoded!WellFormed, EncoderInv, Encoded!Copy
  PROVE  EncoderInv'
  <1>1. /\ input.text \in Seq(0 .. 255) /\ Len(input.text) \in Nat
        /\ \A k \in 1 .. Len(input.text) : input.text[k] \in 0 .. 255
        /\ DOMAIN input.text = 1 .. Len(input.text)
    BY EncoderInputType DEF EncoderInv, EncoderTypes
  <1>2. /\ step = "copy" /\ step' = "copy" /\ input' = input
        /\ local.at < Len(input.text) /\ local' = [local EXCEPT !.at = @ + 1]
        /\ input.encoding \in DOMAIN Encoded!charsets
    BY DEF Encoded!Copy, EncoderInv
  <1>3. PICK n \in Nat : n = local.at
    BY DEF EncoderInv, EncoderTypes
  <1>4. /\ local'.at = n + 1 /\ local' \in [at : Nat]
        /\ n + 1 \in 1 .. Len(input.text) /\ n + 1 <= Len(input.text)
    <2>1. local \in [at : Nat]
      BY DEF EncoderInv, EncoderTypes
    <2>2. n + 1 \in 1 .. Len(input.text) /\ n + 1 <= Len(input.text)
      BY <1>1, <1>2, <1>3
    <2> QED BY <1>2, <1>3, <2>1, <2>2
  <1>5. EncoderTypes'
    BY <1>2, <1>4 DEF EncoderInv, EncoderTypes
  <1>6. ASSUME Encoded!Defined(input)
        PROVE  Decodes(output', Means(n + 1))
    <2>1. PICK b : b = input.text[n + 1]
      OBVIOUS
    <2>2. b \in 0 .. 255 /\ (input.encoding # "cp1251" \/ b # 152)
      BY <1>1, <1>4, <1>6, <2>1 DEF Encoded!Defined
    <2>3. PICK x : x = Encoded!Meaning(input.encoding, b)
      OBVIOUS
    <2>4. Decodes(output, Means(n))
      BY <1>2, <1>3, <1>6 DEF EncoderInv
    <2>5. \E c : Writes(c, x) /\ output' = output \o c
      <3>1. output \in Seq(Nat)
        BY <2>4 DEF Decodes
      <3>2. CASE b < 128
        <4>1. output' = Append(output, b)
          BY <1>3, <2>1, <3>2 DEF Encoded!Copy, Encoded!ASCII_CONSTANT
        <4>2. output' = output \o <<b>>
          BY <2>2, <3>1, <4>1, AppendIsConcat
        <4>3. x = b
          BY <1>2, <2>2, <2>3, <3>2, ByteWritten
        <4>4. Writes(<<b>>, x)
          BY <2>2, <3>2, <4>3, AsciiWritten
        <4> QED BY <4>2, <4>4
      <3>3. CASE b >= 128
        <4>1. ~(b < 128)
          BY <2>2, <3>3
        <4>2. output' = output \o Encoded!PrintUtf8Char(
                            Encoded!charsets[input.encoding][b - 128 + 1])
          BY <1>3, <2>1, <4>1 DEF Encoded!Copy, Encoded!ASCII_CONSTANT
        <4>3. Writes(Encoded!PrintUtf8Char(
                       Encoded!charsets[input.encoding][b - 128 + 1]), x)
          BY <1>2, <2>2, <2>3, <3>3, ByteWritten
        <4> QED BY <4>2, <4>3
      <3>4. b < 128 \/ b >= 128
        BY <2>2
      <3> QED BY <3>2, <3>3, <3>4
    <2>6. Decodes(output', Append(Means(n), x))
      BY <2>4, <2>5, DecodesMore
    <2>7. Means(n) \in Seq(Nat) /\ x \in Nat
      BY <1>2, <2>2, <2>3, <2>4, ByteWritten DEF Decodes
    <2>8. Append(Means(n), x) = Means(n + 1)
      BY <2>1, <2>3, <2>7, MeansMore
    <2> QED BY <2>6, <2>8
  <1>7. step' = "copy" /\ Encoded!Defined(input') => Decodes(output', Means(local.at)')
    BY <1>2, <1>4, <1>6 DEF Means
  <1> QED BY <1>2, <1>5, <1>7 DEF EncoderInv

LEMMA EncoderEnds ==
  ASSUME Encoded!WellFormed, EncoderInv, Encoded!EndOfFile
  PROVE  EncoderInv'
  <1>1. /\ step = "copy" /\ step' = "done" /\ input' = input /\ local' = local
        /\ output' = Append(output, 255)
    BY DEF Encoded!EndOfFile
  <1>2. EncoderTypes'
    BY <1>1 DEF EncoderInv, EncoderTypes
  <1>3. ASSUME Encoded!Defined(input)
        PROVE  Decodes(output', Means(local.at) \o <<Encoded!Invalid>>)
    <2>1. Decodes(output, Means(local.at))
      BY <1>1, <1>3 DEF EncoderInv
    <2>2. output \in Seq(Nat) /\ Means(local.at) \in Seq(Nat)
      BY <2>1 DEF Decodes
    <2>3. output' = output \o <<255>>
      BY <1>1, <2>2, AppendIsConcat
    <2>4. Encoded!Invalid \in Nat
      BY DEF Encoded!Invalid
    <2>5. Append(Means(local.at), Encoded!Invalid)
            = Means(local.at) \o <<Encoded!Invalid>>
      BY <2>2, <2>4, AppendIsConcat
    <2> QED BY <2>1, <2>3, <2>5, EndWritten, DecodesMore
  <1>4. step' = "done" /\ Encoded!Defined(input') =>
          Decodes(output', Means(local.at)' \o <<Encoded!Invalid>>)
    BY <1>1, <1>3 DEF Means
  <1> QED BY <1>1, <1>2, <1>4 DEF EncoderInv

LEMMA EncoderStep ==
  ASSUME Encoded!WellFormed, EncoderInv, [Encoded!Next]_(Encoded!vars)
  PROVE  EncoderInv'
  <1>1. CASE Encoded!Arguments
    <2>1. /\ step = "args" /\ UNCHANGED <<input, local, output>>
          /\ step' = IF input.encoding \in DOMAIN Encoded!charsets
                     THEN "open" ELSE "usage"
      BY <1>1 DEF Encoded!Arguments
    <2>2. EncoderTypes'
      BY <2>1 DEF EncoderInv, EncoderTypes
    <2> QED BY <2>1, <2>2 DEF EncoderInv
  <1>2. CASE Encoded!Open
    <2>1. /\ step = "open" /\ UNCHANGED <<input, local, output>>
          /\ step' \in {"copy", "failed"} /\ local.at = 0 /\ output = <<>>
          /\ input.encoding \in DOMAIN Encoded!charsets
      BY <1>2 DEF Encoded!Open, EncoderInv
    <2>2. EncoderTypes'
      BY <2>1 DEF EncoderInv, EncoderTypes
    <2>3. Decodes(output, Means(local.at))'
      <3>1. Means(0) = <<>>
        <4>1. 1 .. 0 = {}
          OBVIOUS
        <4> QED BY <4>1 DEF Means
      <3>2. Decodes(output, Means(local.at))
        BY <2>1, <3>1, DecodesNothing
      <3> QED BY <2>1, <3>2 DEF Means
    <2> QED BY <2>1, <2>2, <2>3 DEF EncoderInv
  <1>3. CASE Encoded!Copy
    BY <1>3, EncoderCopies
  <1>4. CASE Encoded!EndOfFile
    BY <1>4, EncoderEnds
  <1>5. CASE UNCHANGED Encoded!vars
    BY <1>5 DEF Encoded!vars, EncoderInv, EncoderTypes, Means
  <1> QED BY <1>1, <1>2, <1>3, <1>4, <1>5 DEF Encoded!Next

(* Whatever the text and the encoding: the file that comes out is UTF-8,   *)
(* in shortest form, of what the bytes read stand for, and a byte 0xFF     *)
(* that is none; only a byte the encoding leaves undefined is excepted.    *)
THEOREM TextIsUtf8 == ProgramSpec => []OutputIsUtf8
  <1> DEFINE Inv == program = "encoder" => EncoderInv
  <1>1. ProgramInit => Inv
    BY EncoderInitial, InputsAreWellFormed DEF ProgramInit
  <1>2. Inv /\ [ProgramNext]_programVars => Inv'
    <2> SUFFICES ASSUME Inv, [ProgramNext]_programVars, program' = "encoder"
                 PROVE  EncoderInv'
      OBVIOUS
    <2>1. program = "encoder" /\ [Encoded!Next]_(Encoded!vars)
      BY DEF ProgramNext, programVars, Encoded!vars
    <2> QED BY <2>1, EncoderStep, InputsAreWellFormed
  <1>3. Inv => OutputIsUtf8
    <2> SUFFICES ASSUME EncoderInv, step = "done", Encoded!Defined(input)
                 PROVE  Encoded!Decoded(output) =
                          [k \in 1 .. local.at |->
                             Encoded!Meaning(input.encoding, input.text[k])]
                            \o <<Encoded!Invalid>>
      BY DEF OutputIsUtf8, Encoded!OutputIsUtf8
    <2>1. Decodes(output, Means(local.at) \o <<Encoded!Invalid>>)
      BY DEF EncoderInv
    <2> QED BY <2>1, DecodesIs DEF Means
  <1> QED BY <1>1, <1>2, <1>3, PTL DEF ProgramSpec
=============================================================================
