------------------------- MODULE LogAnalyzerProofs -------------------------
(***************************************************************************)
(* Proofs about LogAnalyzer, for any directory, number of threads and      *)
(* width of an int.                                                        *)
(***************************************************************************)
EXTENDS LogAnalyzer, SequenceTheorems, FunctionTheorems, FiniteSetTheorems,
        WellFoundedInduction, TLAPS

-----------------------------------------------------------------------------
(* The inductive invariant.                                                *)

(* Where main() is tells where the threads are.                            *)
Phases ==
  /\ pc = "readdir" => k = 0 /\ \A t \in Threads : tpc[t] = "none"
  /\ pc = "create" => \A t \in Threads : t >= k => tpc[t] = "none"
  /\ pc = "join" => \A t \in Threads : t < k => tpc[t] = "done"
  /\ pc \in {"union", "print", "free", "done"} => \A t \in Threads : tpc[t] = "done"
  /\ pc \notin {"readdir", "dead"} => unread = {}

(* The files returned so far are in one place each, and the lists of the   *)
(* slots before the one whose turn it is have one file more.               *)
Kept == pc \notin {"free", "done"}
Has(t, j, f) == j \in 1 .. Len(file_path[t]) /\ file_path[t][j] = f
Even(q) ==
  \A t \in Threads :
    Len(file_path[t]) = IF t < threadNum % CountThreads THEN q + 1 ELSE q
Dealt ==
  /\ threadNum + Cardinality(unread) = Cardinality(Files)
  /\ Kept =>
       /\ \A t \in Threads : Len(file_path[t]) <= threadNum
       /\ \E q \in Nat : Even(q)
       /\ \A f \in Files : f \in unread <=> ~ \E t \in Threads, j \in Nat : Has(t, j, f)
       /\ \A f \in Files, s, t \in Threads, i, j \in Nat :
            Has(s, i, f) /\ Has(t, j, f) => s = t /\ i = j

(* A thread works on its own slot, through the end of its list.            *)
Started(t) == tpc[t] \notin {"none", "start"}
Past(t) == Len(file_path[t]) - Len(todo[t])
Queued(t) ==
  /\ Len(todo[t]) <= Len(file_path[t])
  /\ \A j \in 1 .. Len(todo[t]) : todo[t][j] = file_path[t][Past(t) + j]
Working ==
  \A t \in Threads :
    /\ num[t] = t /\ line[t] >= 1
    /\ tpc[t] = "line" => todo[t] # <<>> /\ Head(todo[t]) \notin Bad
    /\ tpc[t] = "done" => todo[t] = <<>>
    /\ Kept /\ Started(t) => Queued(t)

(* The lines that count and a thread has read, and those of the threads    *)
(* that are merged.                                                        *)
HasRead(t, x) ==
  /\ Started(t)
  /\ \/ \E j \in 1 .. Past(t) : file_path[t][j] = x[1]
     \/ tpc[t] = "line" /\ x[1] = Head(todo[t]) /\ x[2] < line[t]
LinesOf(t) == {x \in GoodLines : HasRead(t, x)}
Below(n) == {x \in GoodLines : \E t \in Threads : t < n /\ HasRead(t, x)}
MergedSlots == IF pc = "union" THEN k ELSE IF pc = "print" THEN CountThreads ELSE 0

ByUrl(S) == [u \in Urls |-> Volume({x \in S : At(x).url = u})]
ByRef(S) == [r \in Refs |-> Cardinality({x \in S : At(x).ref = r})]

(* A table that is not merged has what its thread has read; a key of the   *)
(* total leads to the sum of those that are.                               *)
Tallied(of, table, n, own, sum) ==
  /\ \A t \in Threads : t >= n => table[t] = own[t]
  /\ \A x \in DOMAIN of :
       IF of[x] = None THEN sum[x] = 0
       ELSE of[x] \in 0 .. n - 1 /\ table[of[x]][x] = sum[x]

Sums ==
  Kept =>
    /\ \A t \in Threads : byte_count[t] = Volume(LinesOf(t))
    /\ byte_count[CountThreads] = Volume(Below(MergedSlots))
    /\ Tallied(urlOf, url, MergedSlots, [t \in Threads |-> ByUrl(LinesOf(t))],
               ByUrl(Below(MergedSlots)))
    /\ Tallied(refOf, ref, MergedSlots, [t \in Threads |-> ByRef(LinesOf(t))],
               ByRef(Below(MergedSlots)))

IInv == TypeOK /\ Phases /\ Dealt /\ Working /\ Sums /\ ReportIsTotal

-----------------------------------------------------------------------------
(* Sums over finite sets of lines.                                         *)

Bytes(x) == ParseLine(At(x))

LEMMA ParseLineTyped == \A l \in Lines : ParseLine(l) \in Int
  <1>1. \A b \in Int : ToInt(b) \in Int
    <2>1. \A b \in Int : b % IntMod \in Int
      BY LogAssumption
    <2> QED BY <2>1, LogAssumption DEF ToInt
  <1> QED BY <1>1 DEF ParseLine, Lines

LEMMA ContentTyped ==
  ASSUME NEW f \in Files
  PROVE  /\ Content[f] \in Seq(Lines) /\ Len(Content[f]) \in Nat
         /\ \A j \in 1 .. Len(Content[f]) : Content[f][j] \in Lines
  <1>1. PICK c : c = Content[f]
    OBVIOUS
  <1>2. c \in Seq(Lines)
    BY <1>1, LogAssumption
  <1>3. Len(c) \in Nat /\ \A j \in 1 .. Len(c) : c[j] \in Lines
    BY <1>2, LenProperties, ElementOfSeq
  <1> QED BY <1>1, <1>2, <1>3

LEMMA GoodLineIs ==
  ASSUME NEW x \in GoodLines
  PROVE  /\ x[1] \in Files \ Bad /\ x[2] \in 1 .. Len(Content[x[1]])
         /\ x[2] \in Nat /\ x = <<x[1], x[2]>>
         /\ At(x) \in Lines /\ Bytes(x) \in Nat /\ Bytes(x) >= 1
  <1>1. PICK f \in Files \ Bad :
          x \in {f} \X {j \in 1 .. Len(Content[f]) : ParseLine(Content[f][j]) >= 1}
    BY DEF GoodLines
  <1>2. /\ x[1] = f /\ x[2] \in 1 .. Len(Content[f]) /\ x = <<x[1], x[2]>>
        /\ ParseLine(Content[f][x[2]]) >= 1
    BY <1>1
  <1>3. Len(Content[f]) \in Nat /\ Content[f][x[2]] \in Lines
    BY <1>2, ContentTyped
  <1>4. ParseLine(Content[f][x[2]]) \in Int
    BY <1>3, ParseLineTyped
  <1> QED BY <1>2, <1>3, <1>4 DEF At, Bytes

LEMMA GoodLineWhen ==
  ASSUME NEW f \in Files \ Bad, NEW j \in 1 .. Len(Content[f]),
         ParseLine(Content[f][j]) >= 1
  PROVE  <<f, j>> \in GoodLines
  BY DEF GoodLines

(* The files are finitely many, and each has finitely many lines.          *)
LEMMA GoodLinesFinite == IsFiniteSet(GoodLines)
  <1> DEFINE Of(f) == {f} \X {j \in 1 .. Len(Content[f]) : ParseLine(Content[f][j]) >= 1}
             g == [f \in Files \ Bad |-> Of(f)]
  <1>1. ASSUME NEW f \in Files \ Bad
        PROVE  IsFiniteSet(Of(f))
    <2>1. Len(Content[f]) \in Int /\ 1 \in Int
      BY ContentTyped
    <2>2. IsFiniteSet(1 .. Len(Content[f]))
      BY <2>1, FS_Interval
    <2>3. IsFiniteSet({j \in 1 .. Len(Content[f]) : ParseLine(Content[f][j]) >= 1})
      BY <2>2, FS_Subset
    <2>4. IsFiniteSet({f})
      BY FS_Singleton
    <2> QED BY <2>3, <2>4, FS_Product
  <1>2. IsFiniteSet(Files \ Bad)
    BY LogAssumption, FS_Difference
  <1>3. PICK T : T = {g[f] : f \in Files \ Bad}
    OBVIOUS
  <1>4. g \in Surjection(Files \ Bad, T)
    BY <1>3 DEF Surjection
  <1>5. IsFiniteSet(T)
    BY <1>2, <1>4, FS_Surjection
  <1>6. \A S \in T : IsFiniteSet(S)
    BY <1>1, <1>3
  <1>7. GoodLines = UNION T
    BY <1>3 DEF GoodLines
  <1> QED BY <1>5, <1>6, <1>7, FS_UNION

LEMMA GoodSubset ==
  ASSUME NEW S \in SUBSET GoodLines
  PROVE  IsFiniteSet(S) /\ Cardinality(S) \in Nat
  BY GoodLinesFinite, FS_Subset, FS_CardinalityType

LEMMA LeastNatural ==
  ASSUME NEW A \in SUBSET Nat, A # {}
  PROVE  \E m \in A : \A l \in A : m <= l
  <1> DEFINE R == OpToRel(<, Nat)
  <1>1. IsWellFoundedOn(R, Nat)
    BY NatLessThanWellFounded, Zenon
  <1> HIDE DEF R
  <1>2. PICK m \in A : \A l \in A : ~ (<<l, m>> \in R)
    BY <1>1, WFMin
  <1>3. \A l \in A : ~ (l < m)
    BY <1>2 DEF R, OpToRel
  <1> QED BY <1>3

(* The function that Volume defines by recursion exists and is unique.     *)
Pick(T) == CHOOSE x \in T : TRUE
Folds(g, D) ==
  g = [T \in D |-> IF T = {} THEN 0 ELSE Bytes(Pick(T)) + g[T \ {Pick(T)}]]
Summing(g, S) == Folds(g, SUBSET S)
Level(S, n) == {T \in SUBSET S : Cardinality(T) <= n}

LEMMA PickIs ==
  ASSUME NEW T \in SUBSET GoodLines, T # {}
  PROVE  /\ Pick(T) \in T /\ T \ {Pick(T)} \in SUBSET GoodLines
         /\ Cardinality(T \ {Pick(T)}) = Cardinality(T) - 1
         /\ Cardinality(T) \in Nat \ {0}
  <1>1. Pick(T) \in T
    BY DEF Pick
  <1>2. IsFiniteSet(T) /\ Cardinality(T) \in Nat
    BY GoodSubset
  <1>3. Cardinality(T) # 0
    BY <1>2, FS_EmptySet
  <1>4. Cardinality(T \ {Pick(T)}) = Cardinality(T) - 1
    BY <1>1, <1>2, FS_RemoveElement
  <1> QED BY <1>1, <1>2, <1>3, <1>4

LEMMA FoldingExists ==
  ASSUME NEW S \in SUBSET GoodLines, NEW n \in Nat
  PROVE  \E g \in [Level(S, n) -> Nat] : Folds(g, Level(S, n))
  <1> DEFINE A == {l \in Nat : ~ \E g \in [Level(S, l) -> Nat] : Folds(g, Level(S, l))}
  <1>1. SUFFICES ASSUME A # {} PROVE FALSE
    OBVIOUS
  <1>2. PICK m \in A : \A l \in A : m <= l
    <2>1. A \in SUBSET Nat
      OBVIOUS
    <2> HIDE DEF A
    <2> QED BY <1>1, <2>1, LeastNatural
  <1>3. m \in Nat
    OBVIOUS
  <1>4. \A l \in Nat : \A T \in Level(S, l) :
          /\ T \in SUBSET GoodLines /\ Cardinality(T) \in Nat
          /\ T # {} => /\ T \ {Pick(T)} \in SUBSET S /\ l # 0
                       /\ Cardinality(T \ {Pick(T)}) <= l - 1
                       /\ Bytes(Pick(T)) \in Nat
    <2> TAKE l \in Nat
    <2> TAKE T \in Level(S, l)
    <2>1. T \in SUBSET S /\ T \in SUBSET GoodLines /\ Cardinality(T) <= l
      BY DEF Level
    <2>2. Cardinality(T) \in Nat
      BY <2>1, GoodSubset
    <2>3. ASSUME T # {}
          PROVE  /\ T \ {Pick(T)} \in SUBSET S /\ l # 0
                 /\ Cardinality(T \ {Pick(T)}) <= l - 1
                 /\ Bytes(Pick(T)) \in Nat
      <3>1. /\ Pick(T) \in T /\ Cardinality(T \ {Pick(T)}) = Cardinality(T) - 1
            /\ Cardinality(T) # 0
        BY <2>1, <2>3, PickIs
      <3>2. Bytes(Pick(T)) \in Nat
        BY <2>1, <3>1, GoodLineIs
      <3> QED BY <2>1, <2>2, <3>1, <3>2
    <2> QED BY <2>1, <2>2, <2>3
  <1>5. CASE m = 0
    <2> DEFINE g == [T \in Level(S, 0) |-> 0]
    <2>1. \A T \in Level(S, 0) : T = {}
      BY <1>4
    <2>2. Folds(g, Level(S, 0)) /\ g \in [Level(S, 0) -> Nat]
      BY <2>1 DEF Folds
    <2> QED BY <1>5, <2>2
  <1>6. CASE m # 0
    <2>1. m - 1 \in Nat /\ m - 1 \notin A
      <3>1. m - 1 \in Nat /\ ~ (m <= m - 1)
        BY <1>3, <1>6
      <3> HIDE DEF A
      <3> QED BY <1>2, <3>1
    <2>2. PICK g \in [Level(S, m - 1) -> Nat] : Folds(g, Level(S, m - 1))
      BY <2>1
    <2> DEFINE V(T) == IF T = {} THEN 0 ELSE Bytes(Pick(T)) + g[T \ {Pick(T)}]
               h == [T \in Level(S, m) |-> V(T)]
    <2>3. ASSUME NEW T \in Level(S, m), T # {}
          PROVE  T \ {Pick(T)} \in Level(S, m - 1) /\ T \ {Pick(T)} \in Level(S, m)
      <3>1. /\ T \ {Pick(T)} \in SUBSET S /\ Cardinality(T \ {Pick(T)}) <= m - 1
            /\ T \ {Pick(T)} \in SUBSET GoodLines
        BY <1>3, <1>4, <2>3
      <3>2. Cardinality(T \ {Pick(T)}) \in Nat
        BY <3>1, GoodSubset
      <3> QED BY <1>3, <3>1, <3>2 DEF Level
    <2>4. \A T \in Level(S, m) : V(T) \in Nat
      <3> TAKE T \in Level(S, m)
      <3>1. CASE T = {}
        BY <3>1
      <3>2. CASE T # {}
        <4>1. g[T \ {Pick(T)}] \in Nat /\ Bytes(Pick(T)) \in Nat
          BY <1>3, <1>4, <2>3, <3>2
        <4> QED BY <3>2, <4>1
      <3> QED BY <3>1, <3>2
    <2>5. \A T \in Level(S, m - 1) : T \in Level(S, m) /\ g[T] = h[T]
      <3> TAKE T \in Level(S, m - 1)
      <3>1. T \in Level(S, m)
        <4>1. T \in SUBSET S /\ Cardinality(T) <= m - 1
          BY DEF Level
        <4>2. Cardinality(T) \in Nat
          BY <4>1, GoodSubset
        <4>3. Cardinality(T) <= m
          BY <1>3, <4>1, <4>2
        <4> QED BY <4>1, <4>3 DEF Level
      <3>2. g[T] = V(T)
        BY <2>2 DEF Folds
      <3> QED BY <3>1, <3>2
    <2>6. ASSUME NEW T \in Level(S, m)
          PROVE  h[T] = IF T = {} THEN 0 ELSE Bytes(Pick(T)) + h[T \ {Pick(T)}]
      <3>1. h[T] = V(T)
        OBVIOUS
      <3>2. T # {} => g[T \ {Pick(T)}] = h[T \ {Pick(T)}]
        BY <2>3, <2>5
      <3> HIDE DEF h
      <3> QED BY <3>1, <3>2
    <2>7. h \in [Level(S, m) -> Nat]
      BY <2>4
    <2>8. Folds(h, Level(S, m))
      <3> HIDE DEF h
      <3> QED BY <2>6, <2>7 DEF Folds
    <2> HIDE DEF h
    <2> QED BY <1>2, <2>7, <2>8
  <1> QED BY <1>5, <1>6

LEMMA FoldingsAgree ==
  ASSUME NEW S \in SUBSET GoodLines, NEW R \in SUBSET GoodLines,
         NEW f, Summing(f, S), NEW g, Summing(g, R)
  PROVE  \A T : T \subseteq S /\ T \subseteq R => f[T] = g[T]
  <1> DEFINE D == {T \in (SUBSET S) \cap (SUBSET R) : f[T] # g[T]}
             A == {Cardinality(T) : T \in D}
  <1>1. SUFFICES ASSUME D # {} PROVE FALSE
    OBVIOUS
  <1>2. \A T \in D : T \in SUBSET GoodLines /\ Cardinality(T) \in Nat
    BY GoodSubset
  <1>3. PICK m \in A : \A l \in A : m <= l
    <2>1. A \in SUBSET Nat /\ A # {}
      BY <1>1, <1>2
    <2> HIDE DEF A
    <2> QED BY <2>1, LeastNatural
  <1>4. PICK T \in D : m = Cardinality(T)
    OBVIOUS
  <1>5. T \in SUBSET S /\ T \in SUBSET R /\ f[T] # g[T]
    OBVIOUS
  <1>6. /\ f[T] = IF T = {} THEN 0 ELSE Bytes(Pick(T)) + f[T \ {Pick(T)}]
        /\ g[T] = IF T = {} THEN 0 ELSE Bytes(Pick(T)) + g[T \ {Pick(T)}]
    BY <1>5 DEF Summing, Folds
  <1>7. T # {}
    BY <1>5, <1>6
  <1>8. T \ {Pick(T)} \in (SUBSET S) \cap (SUBSET R) /\ T \ {Pick(T)} \notin D
    <2>1. /\ Cardinality(T \ {Pick(T)}) = Cardinality(T) - 1
          /\ Cardinality(T) \in Nat
      BY <1>2, <1>4, <1>7, PickIs
    <2>2. ~ (m <= Cardinality(T \ {Pick(T)}))
      BY <1>4, <2>1
    <2> QED BY <1>3, <1>5, <2>2
  <1> QED BY <1>5, <1>6, <1>7, <1>8

LEMMA VolumeUnfolds ==
  ASSUME NEW S \in SUBSET GoodLines
  PROVE  \E f \in [SUBSET S -> Nat] : Summing(f, S) /\ Volume(S) = f[S]
  <1> DEFINE f == CHOOSE g : g = [T \in SUBSET S |->
                    IF T = {} THEN 0
                    ELSE ParseLine(At(CHOOSE x \in T : TRUE))
                         + g[T \ {CHOOSE x \in T : TRUE}]]
  <1>1. Volume(S) = f[S]
    BY DEF Volume, MapThenSumSet, MapThenFoldSet
  <1>2. PICK n \in Nat : n = Cardinality(S)
    BY GoodSubset
  <1>3. Level(S, n) = SUBSET S
    <2>1. \A T \in SUBSET S : Cardinality(T) <= n
      BY <1>2, GoodSubset, FS_Subset
    <2> QED BY <2>1 DEF Level
  <1>4. PICK g \in [SUBSET S -> Nat] : Summing(g, S)
    <2>1. \E g \in [Level(S, n) -> Nat] : Folds(g, Level(S, n))
      BY FoldingExists
    <2> QED BY <1>3, <2>1 DEF Summing
  <1>5. Summing(f, S)
    BY <1>4 DEF Summing, Folds, Pick, Bytes
  <1> HIDE DEF f
  <1>6. f = g
    <2>1. \A T \in SUBSET S : f[T] = g[T]
      BY <1>4, <1>5, FoldingsAgree
    <2>2. f = [T \in SUBSET S |-> f[T]] /\ g = [T \in SUBSET S |-> g[T]]
      BY <1>4, <1>5 DEF Summing, Folds
    <2> QED BY <2>1, <2>2
  <1> QED BY <1>1, <1>4, <1>6

LEMMA VolumeOfNone == Volume({}) = 0
  <1>1. {} \in SUBSET GoodLines /\ {} \in SUBSET {}
    OBVIOUS
  <1> QED BY <1>1, VolumeUnfolds DEF Summing, Folds

LEMMA VolumeTyped ==
  ASSUME NEW S \in SUBSET GoodLines
  PROVE  Volume(S) \in Nat
  <1>1. PICK f \in [SUBSET S -> Nat] : Volume(S) = f[S]
    BY VolumeUnfolds
  <1>2. S \in SUBSET S
    OBVIOUS
  <1> QED BY <1>1, <1>2

LEMMA VolumeOfPicked ==
  ASSUME NEW S \in SUBSET GoodLines, S # {}
  PROVE  Volume(S) = Bytes(Pick(S)) + Volume(S \ {Pick(S)})
  <1>1. PICK R : R = S \ {Pick(S)}
    OBVIOUS
  <1>2. R \in SUBSET GoodLines /\ R \in SUBSET S /\ R \in SUBSET R /\ S \in SUBSET S
    BY <1>1
  <1>3. PICK f : Summing(f, S) /\ Volume(S) = f[S]
    BY VolumeUnfolds
  <1>4. PICK g : Summing(g, R) /\ Volume(R) = g[R]
    BY <1>2, VolumeUnfolds
  <1>5. f[R] = g[R]
    <2>1. \A T : T \subseteq S /\ T \subseteq R => f[T] = g[T]
      BY <1>2, <1>3, <1>4, FoldingsAgree
    <2> QED BY <1>2, <2>1
  <1>6. f[S] = Bytes(Pick(S)) + f[S \ {Pick(S)}]
    BY <1>2, <1>3 DEF Summing, Folds
  <1> QED BY <1>1, <1>3, <1>4, <1>5, <1>6

(* One line more adds its bytes, whatever order the sum is taken in.       *)
LEMMA VolumeOfOneMore ==
  ASSUME NEW S \in SUBSET GoodLines, NEW x \in GoodLines, x \notin S
  PROVE  Volume(S \cup {x}) = Volume(S) + Bytes(x)
  <1> DEFINE D == {T \in SUBSET GoodLines : \E y \in GoodLines \ T :
                     Volume(T \cup {y}) # Volume(T) + Bytes(y)}
             A == {Cardinality(T) : T \in D}
  <1>1. SUFFICES ASSUME D # {} PROVE FALSE
    OBVIOUS
  <1>2. PICK m \in A : \A l \in A : m <= l
    <2>1. A \in SUBSET Nat /\ A # {}
      BY <1>1, GoodSubset
    <2> HIDE DEF A
    <2> QED BY <2>1, LeastNatural
  <1>3. PICK T \in D : m = Cardinality(T)
    OBVIOUS
  <1>4. PICK y \in GoodLines \ T : Volume(T \cup {y}) # Volume(T) + Bytes(y)
    OBVIOUS
  <1>5. PICK U, p : U = T \cup {y} /\ p = Pick(U)
    OBVIOUS
  <1>6. /\ U \in SUBSET GoodLines /\ U # {} /\ T \in SUBSET GoodLines
        /\ IsFiniteSet(T) /\ Cardinality(T) \in Nat
    BY <1>3, <1>4, <1>5, GoodSubset
  <1>7. p \in U /\ Volume(U) = Bytes(p) + Volume(U \ {p})
    BY <1>5, <1>6, PickIs, VolumeOfPicked
  <1>8. CASE p = y
    <2>1. U \ {p} = T
      BY <1>4, <1>5, <1>8
    <2>2. Bytes(y) \in Nat /\ Volume(T) \in Nat
      BY <1>4, <1>6, GoodLineIs, VolumeTyped
    <2> QED BY <1>4, <1>5, <1>7, <1>8, <2>1, <2>2
  <1>9. CASE p # y
    <2>1. PICK R : R = T \ {p}
      OBVIOUS
    <2>2. /\ p \in T /\ R \in SUBSET GoodLines /\ p \notin R /\ y \notin R
          /\ p \in GoodLines /\ R \cup {y} = U \ {p} /\ R \cup {p} = T
      BY <1>4, <1>5, <1>6, <1>7, <1>9, <2>1
    <2>3. Cardinality(R) = Cardinality(T) - 1
      BY <1>6, <2>1, <2>2, FS_RemoveElement
    <2>4. R \notin D
      <3>1. ~ (m <= Cardinality(R))
        BY <1>3, <1>6, <2>3
      <3> HIDE DEF D
      <3> QED BY <1>2, <3>1
    <2>5. /\ Volume(R \cup {y}) = Volume(R) + Bytes(y)
          /\ Volume(R \cup {p}) = Volume(R) + Bytes(p)
      BY <1>4, <2>2, <2>4
    <2>6. Bytes(y) \in Nat /\ Bytes(p) \in Nat /\ Volume(R) \in Nat
      BY <1>4, <2>2, GoodLineIs, VolumeTyped
    <2>7. Volume(U \ {p}) = Volume(R) + Bytes(y) /\ Volume(T) = Volume(R) + Bytes(p)
      BY <2>2, <2>5
    <2> QED BY <1>4, <1>5, <1>7, <2>6, <2>7
  <1> QED BY <1>8, <1>9

LEMMA VolumeOfUnion ==
  ASSUME NEW S \in SUBSET GoodLines, NEW R \in SUBSET GoodLines, S \cap R = {}
  PROVE  Volume(S \cup R) = Volume(S) + Volume(R)
  <1> DEFINE D == {T \in SUBSET R : Volume(S \cup T) # Volume(S) + Volume(T)}
             A == {Cardinality(T) : T \in D}
  <1>1. SUFFICES ASSUME D # {} PROVE FALSE
    OBVIOUS
  <1>2. PICK m \in A : \A l \in A : m <= l
    <2>1. A \in SUBSET Nat /\ A # {}
      BY <1>1, GoodSubset
    <2> HIDE DEF A
    <2> QED BY <2>1, LeastNatural
  <1>3. PICK T \in D : m = Cardinality(T)
    OBVIOUS
  <1>4. T \in SUBSET GoodLines /\ T \in SUBSET R
    OBVIOUS
  <1>5. T # {}
    <2>1. S \cup {} = S /\ Volume(S) \in Nat
      BY VolumeTyped
    <2>2. {} \notin D
      BY <2>1, VolumeOfNone
    <2> HIDE DEF D
    <2> QED BY <1>3, <2>2
  <1>6. PICK y, U : y \in T /\ U = T \ {y}
    BY <1>5
  <1>7. /\ U \in SUBSET GoodLines /\ U \in SUBSET R /\ y \notin U /\ y \in GoodLines
        /\ S \cup U \in SUBSET GoodLines /\ y \notin S \cup U
        /\ U \cup {y} = T /\ (S \cup U) \cup {y} = S \cup T
    BY <1>4, <1>6
  <1>8. U \notin D
    <2>1. Cardinality(T) \in Nat /\ Cardinality(U) = Cardinality(T) - 1
      BY <1>4, <1>6, GoodSubset, FS_RemoveElement
    <2>2. ~ (m <= Cardinality(U))
      BY <1>3, <2>1
    <2> HIDE DEF D
    <2> QED BY <1>2, <2>2
  <1>9. Volume(S \cup U) = Volume(S) + Volume(U)
    BY <1>7, <1>8
  <1>10. /\ Volume(T) = Volume(U) + Bytes(y)
         /\ Volume(S \cup T) = Volume(S \cup U) + Bytes(y)
    <2>1. /\ Volume(U \cup {y}) = Volume(U) + Bytes(y)
          /\ Volume((S \cup U) \cup {y}) = Volume(S \cup U) + Bytes(y)
      BY <1>7, VolumeOfOneMore
    <2> QED BY <1>7, <2>1
  <1>11. Volume(S) \in Nat /\ Volume(U) \in Nat /\ Bytes(y) \in Nat
    BY <1>7, VolumeTyped, GoodLineIs
  <1>12. Volume(S \cup T) # Volume(S) + Volume(T)
    OBVIOUS
  <1> QED BY <1>9, <1>10, <1>11, <1>12

-----------------------------------------------------------------------------
(* Types.                                                                  *)

LEMMA Counts ==
  /\ CountThreads \in Nat \ {0}
  /\ \A t : t \in Threads <=> t \in Nat /\ t < CountThreads
  /\ Slots = Threads \cup {CountThreads} /\ CountThreads \notin Threads
  /\ None \notin Threads /\ IsFiniteSet(Threads)
  <1>1. CountThreads \in 1 .. 50
    BY LogAssumption DEF CountThreads
  <1>2. IsFiniteSet(0 .. CountThreads - 1)
    BY <1>1, FS_Interval
  <1> QED BY <1>1, <1>2, LogAssumption DEF Threads, Slots

LEMMA Index ==
  /\ 0 \in Slots /\ CountThreads \in Slots /\ CountThreads \in Nat
  /\ \A i \in Slots : i \in Nat /\ i <= CountThreads
  /\ \A i \in Slots : i < CountThreads => i \in Threads /\ i + 1 \in Slots
  BY Counts DEF Slots, Threads

(* qsort() gives a sequence of keys, each once.                            *)
LEMMA PermutationIs ==
  ASSUME NEW D, IsFiniteSet(D), NEW S \in SUBSET D, NEW s \in SetToSeqs(S)
  PROVE  /\ s \in Seq(S) /\ s \in Seq(D) /\ Len(s) = Cardinality(S) /\ Len(s) \in Nat
         /\ \A i, j \in 1 .. Len(s) : i # j => s[i] # s[j]
         /\ \A x \in S : \E i \in 1 .. Len(s) : s[i] = x
  <1>1. IsFiniteSet(S)
    BY FS_Subset
  <1>2. PICK n : n = Cardinality(S)
    OBVIOUS
  <1>3. n \in Nat
    BY <1>1, <1>2, FS_CardinalityType
  <1>4. s \in [1 .. n -> S] /\ \A i, j \in 1 .. n : i # j => s[i] # s[j]
    BY <1>2 DEF SetToSeqs
  <1>5. s \in Seq(S)
    BY <1>3, <1>4
  <1>6. Len(s) = n
    <2>1. PICK l \in Nat : l = Len(s) /\ DOMAIN s = 1 .. l
      BY <1>5, LenProperties
    <2>2. \A i : i \in 1 .. l <=> i \in 1 .. n
      BY <1>4, <2>1
    <2>3. (l # 0 => l \in 1 .. n) /\ (n # 0 => n \in 1 .. l)
      BY <1>3, <2>1, <2>2
    <2> QED BY <1>3, <2>1, <2>3
  <1>7. ASSUME NEW x \in S
        PROVE  \E i \in 1 .. n : s[i] = x
    <2>1. IsFiniteSet(1 .. n) /\ Cardinality(1 .. n) = n
      BY <1>3, FS_Interval
    <2>2. s \in Injection(1 .. n, S)
      BY <1>4 DEF Injection, IsInjective
    <2>3. s \in Surjection(1 .. n, S)
      BY <1>1, <1>2, <2>1, <2>2, FS_Injection
    <2> QED BY <2>3 DEF Surjection
  <1> QED BY <1>2, <1>3, <1>4, <1>5, <1>6, <1>7, SeqMonotonic

LEMMA TopIs ==
  ASSUME NEW D, IsFiniteSet(D), NEW S \in SUBSET D, NEW value,
         NEW s \in Tops(S, value)
  PROVE  /\ s \in Seq(D)
         /\ \E q \in Sorted(S, value) :
              /\ q \in SetToSeqs(S) /\ Len(s) <= Len(q)
              /\ Len(s) = IF Len(q) < TopCount THEN Len(q) ELSE TopCount
              /\ \A i \in 1 .. Len(s) : s[i] = q[i]
  <1>1. PICK q \in Sorted(S, value) :
          s = SubSeq(q, 1, IF Len(q) < TopCount THEN Len(q) ELSE TopCount)
    BY DEF Tops
  <1>2. q \in SetToSeqs(S)
    BY DEF Sorted
  <1>3. q \in Seq(D) /\ Len(q) \in Nat
    BY <1>2, PermutationIs
  <1>4. PICK n : n = IF Len(q) < TopCount THEN Len(q) ELSE TopCount
    OBVIOUS
  <1>5. n \in Nat /\ n \in 0 .. Len(q)
    BY <1>3, <1>4, LogAssumption
  <1>6. \A i \in 1 .. n : q[i] \in D
    BY <1>3, <1>5, ElementOfSeq
  <1>7. /\ SubSeq(q, 1, n) \in Seq(D)
        /\ Len(SubSeq(q, 1, n)) = IF 1 <= n THEN n - 1 + 1 ELSE 0
        /\ \A i \in 1 .. n - 1 + 1 : SubSeq(q, 1, n)[i] = q[1 + i - 1]
    BY <1>5, <1>6, SubSeqProperties
  <1>8. s = SubSeq(q, 1, n)
    BY <1>1, <1>4
  <1>9. s \in Seq(D) /\ Len(s) = n /\ \A i \in 1 .. n : s[i] = q[i]
    BY <1>5, <1>7, <1>8
  <1> QED BY <1>2, <1>4, <1>5, <1>9

(* The entry of a table in a list of files, and what a longer list has.    *)
LEMMA Longer ==
  ASSUME NEW q \in Seq(Files), NEW f \in Files
  PROVE  /\ Cons(f, q) \in Seq(Files) /\ Len(Cons(f, q)) = Len(q) + 1
         /\ Cons(f, q)[1] = f /\ Len(q) \in Nat
         /\ \A i \in 1 .. Len(q) : Cons(f, q)[i + 1] = q[i]
  <1>1. <<f>> \in Seq(Files) /\ Len(<<f>>) = 1 /\ <<f>>[1] = f /\ Len(q) \in Nat
    BY LenProperties
  <1>2. /\ <<f>> \o q \in Seq(Files) /\ Len(<<f>> \o q) = Len(<<f>>) + Len(q)
        /\ \A i \in 1 .. Len(<<f>>) + Len(q) :
             (<<f>> \o q)[i] = IF i <= Len(<<f>>) THEN <<f>>[i] ELSE q[i - Len(<<f>>)]
    BY <1>1, ConcatProperties
  <1>3. \A i \in 1 .. Len(q) : i + 1 \in 1 .. 1 + Len(q) /\ ~ (i + 1 <= 1) /\ (i + 1) - 1 = i
    BY <1>1
  <1> QED BY <1>1, <1>2, <1>3 DEF Cons

LEMMA Shorter ==
  ASSUME NEW q \in Seq(Files), q # <<>>
  PROVE  /\ Head(q) \in Files /\ Head(q) = q[1] /\ Len(q) \in Nat \ {0}
         /\ Tail(q) \in Seq(Files) /\ Len(Tail(q)) = Len(q) - 1
         /\ \A i \in 1 .. Len(Tail(q)) : Tail(q)[i] = q[i + 1]
  BY HeadTailProperties, EmptySeq

LEMMA SlotForTyped == \A c \in Nat : SlotFor(c) \in Threads /\ SlotFor(c) \in Nat
  <1>1. \A c \in Nat : c % CountThreads \in 0 .. CountThreads - 1
    BY Counts
  <1> QED BY <1>1, Counts DEF SlotFor, Threads

LEMMA TypeInit == Init => TypeOK
  <1>1. Cardinality(Files) \in Nat
    BY LogAssumption, FS_CardinalityType
  <1>2. <<>> \in Seq(Files) /\ <<>> \in Seq(Urls) /\ <<>> \in Seq(Refs)
    BY EmptySeq
  <1> QED BY <1>1, <1>2, Counts DEF Init, TypeOK, NoReport

(* The table of the total reads through keys that lead to a thread.        *)
LEMMA ValueTyped ==
  ASSUME NEW D, NEW of \in [D -> Threads \cup {None}],
         NEW table \in [Threads -> [D -> Nat]]
  PROVE  /\ ValueOf(of, table) \in [D -> Nat]
         /\ KeysOf(of) \in SUBSET D
         /\ \A t \in Threads : /\ Owners(of, table, t) \in [D -> Threads \cup {None}]
                               /\ Merged(of, table, t) \in [Threads -> [D -> Nat]]
  <1>1. DOMAIN of = D
    OBVIOUS
  <1>2. ASSUME NEW x \in D
        PROVE  (IF of[x] = None THEN 0 ELSE table[of[x]][x]) \in Nat
    BY <1>2
  <1>3. ValueOf(of, table) \in [D -> Nat]
    BY <1>1, <1>2 DEF ValueOf
  <1>4. ASSUME NEW t \in Threads
        PROVE  /\ Owners(of, table, t) \in [D -> Threads \cup {None}]
               /\ Merged(of, table, t) \in [Threads -> [D -> Nat]]
    <2>1. Owners(of, table, t) \in [D -> Threads \cup {None}]
      BY <1>1, <1>4 DEF Owners
    <2>2. \A s \in Threads, x \in D : table[s][x] \in Nat /\ table[t][x] \in Nat
      OBVIOUS
    <2>3. \A s \in Threads, x \in D :
            (IF of[x] = s /\ s # t THEN table[s][x] + table[t][x] ELSE table[s][x]) \in Nat
      BY <2>2
    <2>4. Merged(of, table, t) \in [Threads -> [D -> Nat]]
      BY <1>1, <2>3 DEF Merged
    <2> QED BY <2>1, <2>4
  <1> QED BY <1>1, <1>3, <1>4 DEF KeysOf

(* What main() does without touching the slots.                            *)
Moves ==
  \/ EndOfDirectory \/ AllCreated \/ Join \/ AllJoined \/ AllMerged \/ Fail

LEMMA TypeMain == TypeOK /\ Dealt /\ Main => TypeOK'
  <1> SUFFICES ASSUME TypeOK, Dealt, Main PROVE TypeOK'
    OBVIOUS
  <1>1. ASSUME NEW f \in Files, Deal(f)
        PROVE  TypeOK'
    <2>1. file_path' \in [Threads -> Seq(Files)]
      <3>1. PICK s \in Threads : s = SlotFor(threadNum)
        BY SlotForTyped DEF TypeOK
      <3>2. PICK q : q = Cons(f, file_path[s])
        OBVIOUS
      <3>3. q \in Seq(Files)
        BY <3>1, <3>2, Longer DEF TypeOK
      <3>4. file_path' = [file_path EXCEPT ![s] = q]
        BY <1>1, <3>1, <3>2 DEF Deal
      <3> QED BY <3>1, <3>3, <3>4 DEF TypeOK
    <2>2. threadNum' \in 0 .. Cardinality(Files)
      <3>1. IsFiniteSet(unread) /\ unread # {} /\ Cardinality(Files) \in Nat
        BY <1>1, LogAssumption, FS_Subset, FS_CardinalityType DEF Deal, TypeOK
      <3>2. Cardinality(unread) \in Nat /\ Cardinality(unread) # 0
        BY <3>1, FS_EmptySet, FS_CardinalityType
      <3> QED BY <1>1, <3>1, <3>2 DEF Deal, TypeOK, Dealt
    <2>3. unread' \subseteq Files
      BY <1>1 DEF Deal, TypeOK
    <2> QED BY <1>1, <2>1, <2>2, <2>3 DEF Deal, TypeOK, threadVars, data
  <1>2. CASE EndOfDirectory
    BY <1>2 DEF EndOfDirectory, TypeOK, threadVars, data
  <1>3. CASE Create
    <2>1. k \in Threads /\ k + 1 \in Slots
      BY <1>3, Index DEF Create, TypeOK
    <2>2. tpc' \in [Threads -> {"none", "start", "file", "line", "done"}]
      BY <1>3, <2>1 DEF Create, TypeOK
    <2> QED BY <1>3, <2>1, <2>2 DEF Create, TypeOK, data
  <1>4. CASE AllCreated
    BY <1>4, Index DEF AllCreated, TypeOK, threadVars, data
  <1>5. CASE Join
    <2>1. k + 1 \in Slots
      BY <1>5, Index DEF Join, TypeOK
    <2> QED BY <1>5, <2>1 DEF Join, TypeOK, threadVars, data
  <1>6. CASE AllJoined
    BY <1>6, Index DEF AllJoined, TypeOK, threadVars, data
  <1>7. CASE Union
    <2>1. k \in Threads /\ k + 1 \in Slots /\ k \in Slots /\ CountThreads \in Slots
      BY <1>7, Index DEF Union, TypeOK
    <2>2. byte_count' \in [Slots -> Nat]
      <3>1. byte_count[CountThreads] \in Nat /\ byte_count[k] \in Nat
        BY <2>1 DEF TypeOK
      <3> QED BY <1>7, <2>1, <3>1 DEF Union, TypeOK
    <2>3. /\ urlOf' \in [Urls -> Threads \cup {None}]
          /\ url' \in [Threads -> [Urls -> Nat]]
      BY <1>7, <2>1, ValueTyped DEF Union, TypeOK
    <2>4. /\ refOf' \in [Refs -> Threads \cup {None}]
          /\ ref' \in [Threads -> [Refs -> Nat]]
      BY <1>7, <2>1, ValueTyped DEF Union, TypeOK
    <2> QED BY <1>7, <2>1, <2>2, <2>3, <2>4 DEF Union, TypeOK, threadVars
  <1>8. CASE AllMerged
    BY <1>8 DEF AllMerged, TypeOK, threadVars, data
  <1>9. CASE Report
    <2>1. PICK us, rs : us = ValueOf(urlOf, url) /\ rs = ValueOf(refOf, ref)
      OBVIOUS
    <2>2. PICK tu, tr :
            /\ tu \in Tops(KeysOf(urlOf), us) /\ tr \in Tops(KeysOf(refOf), rs)
            /\ report' = [bytes |-> byte_count[CountThreads], urls |-> tu,
                          refs |-> tr, urlSum |-> us, refSum |-> rs]
      BY <1>9, <2>1 DEF Report
    <2>3. /\ us \in [Urls -> Nat] /\ KeysOf(urlOf) \in SUBSET Urls
          /\ rs \in [Refs -> Nat] /\ KeysOf(refOf) \in SUBSET Refs
      BY <2>1, ValueTyped DEF TypeOK
    <2>4. tu \in Seq(Urls) /\ tr \in Seq(Refs)
      BY <2>2, <2>3, TopIs, LogAssumption
    <2>5. byte_count[CountThreads] \in Nat
      BY Counts DEF TypeOK
    <2>6. /\ report'.bytes \in Nat
          /\ report'.urls \in Seq(Urls) /\ report'.refs \in Seq(Refs)
          /\ report'.urlSum \in [Urls -> Nat] /\ report'.refSum \in [Refs -> Nat]
      BY <2>2, <2>3, <2>4, <2>5
    <2> QED BY <1>9, <2>6, Index DEF Report, TypeOK, threadVars, data
  <1>10. CASE FreeThreadData
    <2>1. CASE k < CountThreads
      <3>1. k \in Threads /\ k + 1 \in Slots
        BY <2>1, Index DEF TypeOK
      <3>2. <<>> \in Seq(Files)
        BY EmptySeq
      <3>3. file_path' \in [Threads -> Seq(Files)]
        BY <1>10, <2>1, <3>1, <3>2 DEF FreeThreadData, TypeOK
      <3>4. /\ url' \in [Threads -> [Urls -> Nat]]
            /\ ref' \in [Threads -> [Refs -> Nat]]
        <4>1. [u \in Urls |-> 0] \in [Urls -> Nat] /\ [r \in Refs |-> 0] \in [Refs -> Nat]
          OBVIOUS
        <4>2. PICK zu, zr : zu = [u \in Urls |-> 0] /\ zr = [r \in Refs |-> 0]
          OBVIOUS
        <4>3. url' = [url EXCEPT ![k] = zu] /\ ref' = [ref EXCEPT ![k] = zr]
          BY <1>10, <2>1, <4>2 DEF FreeThreadData
        <4> QED BY <3>1, <4>1, <4>2, <4>3 DEF TypeOK
      <3> QED BY <1>10, <2>1, <3>1, <3>3, <3>4
            DEF FreeThreadData, TypeOK, threadVars
    <2>2. CASE ~ (k < CountThreads)
      BY <1>10, <2>2 DEF FreeThreadData, TypeOK, threadVars
    <2> QED BY <2>1, <2>2
  <1> QED BY <1>1, <1>2, <1>3, <1>4, <1>5, <1>6, <1>7, <1>8, <1>9, <1>10 DEF Main

(* The line a thread reads.                                                *)
LEMMA LineIs ==
  ASSUME TypeOK, Working, NEW t \in Threads, tpc[t] = "line"
  PROVE  /\ Head(todo[t]) \in Files \ Bad /\ line[t] \in Nat \ {0}
         /\ todo[t] \in Seq(Files) /\ todo[t] # <<>> /\ num[t] = t
         /\ line[t] <= Len(Content[Head(todo[t])]) =>
              /\ Content[Head(todo[t])][line[t]] \in Lines
              /\ ParseLine(Content[Head(todo[t])][line[t]]) \in Int
  <1>1. todo[t] \in Seq(Files) /\ todo[t] # <<>> /\ num[t] = t /\ line[t] \in Nat \ {0}
    BY DEF TypeOK, Working
  <1>2. PICK f : f = Head(todo[t])
    OBVIOUS
  <1>3. f \in Files \ Bad
    <2>1. f \in Files
      BY <1>1, <1>2, Shorter
    <2> QED BY <1>2, <2>1 DEF Working
  <1>4. ASSUME line[t] <= Len(Content[f])
        PROVE  Content[f][line[t]] \in Lines /\ ParseLine(Content[f][line[t]]) \in Int
    <2>1. Content[f][line[t]] \in Lines
      BY <1>1, <1>3, <1>4, ContentTyped
    <2> QED BY <2>1, ParseLineTyped
  <1> QED BY <1>1, <1>2, <1>3, <1>4

(* What a line does to the slot of the thread: nothing, or the byte count  *)
(* and an entry of each table grow.                                        *)
LEMMA LineCounted ==
  ASSUME TypeOK, Working, NEW t \in Threads, ReadLine(t)
  PROVE  \E l \in Lines, f \in Files \ Bad, j \in Nat, b \in Int :
           /\ tpc[t] = "line" /\ f = Head(todo[t]) /\ j = line[t]
           /\ j \in 1 .. Len(Content[f]) /\ l = Content[f][j] /\ b = ParseLine(l)
           /\ b < 1 => UNCHANGED data
           /\ b >= 1 =>
                 /\ byte_count' = [byte_count EXCEPT ![t] = @ + b]
                 /\ url' = [url EXCEPT ![t] = [url[t] EXCEPT ![l.url] = url[t][l.url] + b]]
                 /\ ref' = [ref EXCEPT ![t] = [ref[t] EXCEPT ![l.ref] = ref[t][l.ref] + 1]]
  <1>1. PICK f : f = Head(todo[t])
    OBVIOUS
  <1>2. PICK l, b : l = Content[f][line[t]] /\ b = ParseLine(l)
    OBVIOUS
  <1>3. line[t] <= Len(Content[f]) /\ tpc[t] = "line"
    BY <1>1 DEF ReadLine
  <1>4. /\ f \in Files \ Bad /\ line[t] \in Nat \ {0} /\ num[t] = t
        /\ l \in Lines /\ b \in Int
    BY <1>1, <1>2, <1>3, LineIs
  <1>5. line[t] \in 1 .. Len(Content[f])
    BY <1>3, <1>4, ContentTyped
  <1>6. b < 1 => UNCHANGED data
    BY <1>1, <1>2, <1>4 DEF ReadLine, Counted
  <1>7. b >= 1 =>
          /\ byte_count' = [byte_count EXCEPT ![t] = @ + b]
          /\ url' = [url EXCEPT ![t] = [url[t] EXCEPT ![l.url] = url[t][l.url] + b]]
          /\ ref' = [ref EXCEPT ![t] = [ref[t] EXCEPT ![l.ref] = ref[t][l.ref] + 1]]
    BY <1>1, <1>2, <1>4 DEF ReadLine, Counted
  <1>8. PICK j : j = line[t]
    OBVIOUS
  <1>9. j \in Nat
    BY <1>4, <1>8
  <1> QED BY <1>1, <1>2, <1>3, <1>4, <1>5, <1>6, <1>7, <1>8, <1>9

LEMMA TypeThread ==
  ASSUME TypeOK, Working, NEW t \in Threads, Thread(t)
  PROVE  TypeOK'
  <1>1. CASE StartThread(t)
    BY <1>1, SlotForTyped DEF StartThread, NumOf, TypeOK, mainVars, data
  <1>2. CASE OpenFile(t)
    BY <1>2 DEF OpenFile, TypeOK, mainVars, data
  <1>3. ASSUME todo[t] # <<>>
        PROVE  [todo EXCEPT ![t] = Tail(@)] \in [Threads -> Seq(Files)]
    <2>1. PICK q : q = Tail(todo[t])
      OBVIOUS
    <2>2. q \in Seq(Files)
      BY <1>3, <2>1, Shorter DEF TypeOK
    <2>3. [todo EXCEPT ![t] = Tail(@)] = [todo EXCEPT ![t] = q]
      BY <2>1
    <2> QED BY <2>2, <2>3 DEF TypeOK
  <1>4. CASE CannotOpen(t)
    BY <1>3, <1>4 DEF CannotOpen, TypeOK, data
  <1>5. CASE ReadLine(t)
    <2>1. PICK l \in Lines, b \in Int :
            \/ UNCHANGED data
            \/ /\ b >= 1
               /\ byte_count' = [byte_count EXCEPT ![t] = @ + b]
               /\ url' = [url EXCEPT ![t] = [url[t] EXCEPT ![l.url] = url[t][l.url] + b]]
               /\ ref' = [ref EXCEPT ![t] = [ref[t] EXCEPT ![l.ref] = ref[t][l.ref] + 1]]
      BY <1>5, LineCounted
    <2>2. l.url \in Urls /\ l.ref \in Refs /\ t \in Slots
      BY Counts DEF Lines
    <2>3. byte_count' \in [Slots -> Nat]
      <3>1. byte_count[t] \in Nat
        BY <2>2 DEF TypeOK
      <3> QED BY <2>1, <2>2, <3>1 DEF TypeOK, data
    <2>4. url' \in [Threads -> [Urls -> Nat]]
      <3>1. CASE UNCHANGED data
        BY <3>1 DEF TypeOK, data
      <3>2. CASE ~ UNCHANGED data
        <4>1. PICK g : g = [url[t] EXCEPT ![l.url] = url[t][l.url] + b]
          OBVIOUS
        <4>2. g \in [Urls -> Nat]
          <5>1. url[t] \in [Urls -> Nat] /\ url[t][l.url] \in Nat /\ b \in Nat
            BY <2>1, <2>2, <3>2 DEF TypeOK
          <5> QED BY <2>2, <4>1, <5>1
        <4>3. url' = [url EXCEPT ![t] = g]
          BY <2>1, <3>2, <4>1
        <4> QED BY <4>2, <4>3 DEF TypeOK
      <3> QED BY <3>1, <3>2
    <2>5. ref' \in [Threads -> [Refs -> Nat]]
      <3>1. CASE UNCHANGED data
        BY <3>1 DEF TypeOK, data
      <3>2. CASE ~ UNCHANGED data
        <4>1. PICK g : g = [ref[t] EXCEPT ![l.ref] = ref[t][l.ref] + 1]
          OBVIOUS
        <4>2. g \in [Refs -> Nat]
          <5>1. ref[t] \in [Refs -> Nat] /\ ref[t][l.ref] \in Nat
            BY <2>2 DEF TypeOK
          <5> QED BY <2>2, <4>1, <5>1
        <4>3. ref' = [ref EXCEPT ![t] = g]
          BY <2>1, <3>2, <4>1
        <4> QED BY <4>2, <4>3 DEF TypeOK
      <3> QED BY <3>1, <3>2
    <2>6. line' \in [Threads -> Nat]
      BY <1>5 DEF ReadLine, NextLine, TypeOK
    <2> QED BY <1>5, <2>3, <2>4, <2>5, <2>6 DEF ReadLine, TypeOK, mainVars
  <1>6. CASE EndOfFile(t)
    <2>1. todo[t] # <<>>
      BY <1>6 DEF EndOfFile, Working
    <2> QED BY <1>3, <1>6, <2>1 DEF EndOfFile, TypeOK, mainVars, data
  <1>7. CASE EndThread(t)
    BY <1>7 DEF EndThread, TypeOK, mainVars, data
  <1> QED BY <1>1, <1>2, <1>4, <1>5, <1>6, <1>7 DEF Thread

LEMMA TypeStep == TypeOK /\ Dealt /\ Working /\ [Next]_vars => TypeOK'
  <1> SUFFICES ASSUME TypeOK, Dealt, Working, [Next]_vars PROVE TypeOK'
    OBVIOUS
  <1>1. CASE Fail
    BY <1>1 DEF Fail, TypeOK, threadVars, data
  <1>2. CASE UNCHANGED vars
    BY <1>2 DEF TypeOK, vars, mainVars, threadVars, data
  <1> QED BY <1>1, <1>2, TypeMain, TypeThread DEF Next

(* A step of a thread, for main() and the other threads.                   *)
LEMMA ThreadEffect ==
  ASSUME TypeOK, NEW t \in Threads, Thread(t)
  PROVE  /\ tpc[t] \notin {"none", "done"} /\ tpc'[t] # "none"
         /\ \A s \in Threads \ {t} : tpc'[s] = tpc[s] /\ todo'[s] = todo[s]
                                     /\ line'[s] = line[s] /\ num'[s] = num[s]
         /\ pc # "dead" /\ pc' \in {pc, "dead"}
         /\ UNCHANGED <<k, unread, threadNum, file_path, urlOf, refOf, report>>
  BY DEF TypeOK, Thread, StartThread, OpenFile, CannotOpen, ReadLine, EndOfFile,
         EndThread, mainVars, data

(* What main() does without touching a list.                               *)
LEMMA MainEffect ==
  ASSUME Main \/ Fail
  PROVE  /\ (\E f \in Files : Deal(f)) \/ UNCHANGED <<unread, threadNum>>
         /\ \/ \E f \in Files : Deal(f)
            \/ Report
            \/ FreeThreadData
            \/ /\ UNCHANGED file_path
               /\ pc \notin {"free", "done"} /\ pc' \notin {"free", "done"}
         /\ Report => UNCHANGED file_path
         /\ UNCHANGED <<num, todo, line>>
         /\ Create \/ UNCHANGED tpc
  BY DEF Main, Fail, Deal, EndOfDirectory, Create, AllCreated, Join, AllJoined, Union,
         AllMerged, Report, FreeThreadData, threadVars, data

-----------------------------------------------------------------------------
(* Where main() is and where the threads are.                              *)

LEMMA PhasesInit == Init => Phases
  BY DEF Init, Phases

LEMMA PhasesStep == TypeOK /\ Phases /\ [Next]_vars => Phases'
  <1> SUFFICES ASSUME TypeOK, Phases, [Next]_vars PROVE Phases'
    OBVIOUS
  <1>0. \A t \in Threads : t \in Nat /\ t < CountThreads
    BY Counts
  <1>1. ASSUME NEW f \in Files, Deal(f)
        PROVE  Phases'
    BY <1>1 DEF Deal, Phases, threadVars
  <1>2. CASE EndOfDirectory
    BY <1>2 DEF EndOfDirectory, Phases, threadVars
  <1>3. CASE Create
    <2>1. k \in Nat
      BY Index DEF TypeOK
    <2>2. \A t \in Threads : t >= k + 1 => tpc'[t] = tpc[t] /\ t >= k
      BY <1>0, <1>3, <2>1 DEF Create, TypeOK
    <2> QED BY <1>3, <2>2 DEF Create, Phases
  <1>4. CASE AllCreated
    BY <1>0, <1>4 DEF AllCreated, Phases, threadVars
  <1>5. CASE Join
    <2>1. k \in Nat
      BY Index DEF TypeOK
    <2>2. \A t \in Threads : t < k + 1 => t < k \/ t = k
      BY <1>0, <2>1
    <2> QED BY <1>5, <2>2 DEF Join, Ended, Phases, threadVars
  <1>6. CASE AllJoined
    BY <1>0, <1>6 DEF AllJoined, Phases, threadVars
  <1>7. CASE Union
    BY <1>7 DEF Union, Phases, threadVars
  <1>8. CASE AllMerged
    BY <1>8 DEF AllMerged, Phases, threadVars
  <1>9. CASE Report
    BY <1>9 DEF Report, Phases, threadVars
  <1>10. CASE FreeThreadData
    BY <1>10 DEF FreeThreadData, Phases, threadVars
  <1>11. CASE Fail
    BY <1>11 DEF Fail, Phases, threadVars
  <1>12. ASSUME NEW t \in Threads, Thread(t)
         PROVE  Phases'
    <2>1. /\ tpc[t] \notin {"none", "done"}
          /\ \A s \in Threads \ {t} : tpc'[s] = tpc[s]
          /\ pc # "dead" /\ pc' \in {pc, "dead"} /\ UNCHANGED <<k, unread>>
      BY <1>12, ThreadEffect
    <2>2. pc' = "dead" => Phases'
      BY DEF Phases
    <2>3. ASSUME pc' = pc
          PROVE  Phases'
      BY <1>12, <2>1, <2>3 DEF Phases
    <2> QED BY <2>1, <2>2, <2>3
  <1>13. CASE UNCHANGED vars
    BY <1>13 DEF Phases, vars, mainVars, threadVars
  <1> QED BY <1>1, <1>2, <1>3, <1>4, <1>5, <1>6, <1>7, <1>8, <1>9, <1>10, <1>11,
            <1>12, <1>13 DEF Next, Main

-----------------------------------------------------------------------------
(* The lists of files.                                                     *)

LEMMA NextTurn ==
  ASSUME NEW c \in Nat
  PROVE  /\ c % CountThreads \in 0 .. CountThreads - 1
         /\ (c + 1) % CountThreads = IF c % CountThreads = CountThreads - 1 THEN 0
                                     ELSE (c % CountThreads) + 1
  <1>1. PICK n \in 1 .. 50 : n = CountThreads
    BY LogAssumption DEF CountThreads
  <1>2. /\ c % n \in 0 .. n - 1
        /\ (c + 1) % n = IF c % n = n - 1 THEN 0 ELSE (c % n) + 1
    OBVIOUS
  <1> QED BY <1>1, <1>2

LEMMA DealtInit == Init => Dealt
  <1> SUFFICES ASSUME Init PROVE Dealt
    OBVIOUS
  <1>1. unread = Files /\ threadNum = 0 /\ \A t \in Threads : file_path[t] = <<>>
    BY DEF Init
  <1>2. Cardinality(Files) \in Nat /\ Len(<<>>) = 0
    BY LogAssumption, FS_CardinalityType, EmptySeq
  <1>3. Even(0)
    <2>1. 0 % CountThreads \in 0 .. CountThreads - 1 /\ 0 % CountThreads = 0
      BY Counts
    <2> QED BY <1>1, <1>2, <2>1, Counts DEF Even
  <1>4. \A t \in Threads, j \in Nat, f \in Files : ~ Has(t, j, f)
    BY <1>1, <1>2 DEF Has
  <1> QED BY <1>1, <1>2, <1>3, <1>4 DEF Dealt

(* A file goes to the front of the list of the slot whose turn it is.      *)
LEMMA DealPlaces ==
  ASSUME TypeOK, NEW f \in Files, Deal(f), NEW s, s = SlotFor(threadNum)
  PROVE  /\ s \in Threads /\ Len(file_path'[s]) = Len(file_path[s]) + 1
         /\ \A t \in Threads \ {s} : file_path'[t] = file_path[t]
         /\ \A t \in Threads, j \in Nat, g \in Files :
              Has(t, j, g)' <=> IF t = s THEN (j = 1 /\ g = f) \/ (j > 1 /\ Has(t, j - 1, g))
                                ELSE Has(t, j, g)
  <1>1. s \in Threads
    BY SlotForTyped DEF TypeOK
  <1>2. PICK q, r : q = file_path[s] /\ r = Cons(f, q)
    OBVIOUS
  <1>3. /\ Len(q) \in Nat /\ Len(r) = Len(q) + 1 /\ r[1] = f
        /\ \A i \in 1 .. Len(q) : r[i + 1] = q[i]
    <2>1. q \in Seq(Files)
      BY <1>1, <1>2 DEF TypeOK
    <2> QED BY <1>2, <2>1, Longer
  <1>4. file_path'[s] = r /\ \A t \in Threads \ {s} : file_path'[t] = file_path[t]
    BY <1>1, <1>2 DEF Deal, TypeOK
  <1>5. ASSUME NEW j \in Nat, NEW g \in Files
        PROVE  Has(s, j, g)' <=> (j = 1 /\ g = f) \/ (j > 1 /\ Has(s, j - 1, g))
    <2>1. Has(s, j, g)' <=> j \in 1 .. Len(r) /\ r[j] = g
      BY <1>4 DEF Has
    <2>2. Has(s, j - 1, g) <=> j - 1 \in 1 .. Len(q) /\ q[j - 1] = g
      BY <1>2 DEF Has
    <2>3. CASE j <= 1
      BY <1>3, <2>1, <2>3
    <2>4. CASE j > 1
      <3>1. j \in 1 .. Len(r) <=> j - 1 \in 1 .. Len(q)
        BY <1>3, <2>4
      <3>2. j - 1 \in 1 .. Len(q) => r[(j - 1) + 1] = q[j - 1]
        BY <1>3
      <3> QED BY <2>1, <2>2, <2>4, <3>1, <3>2
    <2> QED BY <2>3, <2>4
  <1>6. \A t \in Threads \ {s}, j \in Nat, g \in Files : Has(t, j, g)' <=> Has(t, j, g)
    BY <1>4 DEF Has
  <1> QED BY <1>1, <1>2, <1>3, <1>4, <1>5, <1>6

LEMMA DealtDeal ==
  ASSUME TypeOK, Dealt, NEW f \in Files, Deal(f)
  PROVE  Dealt'
  <1>1. /\ pc = "readdir" /\ Kept /\ f \in unread /\ unread' = unread \ {f}
        /\ unread \subseteq Files
        /\ threadNum \in Nat /\ threadNum' = threadNum + 1
    <2>1. Cardinality(Files) \in Nat
      BY LogAssumption, FS_CardinalityType
    <2> QED BY <2>1 DEF Deal, TypeOK, Kept
  <1>2. PICK s : s = SlotFor(threadNum)
    OBVIOUS
  <1>3. /\ s \in Threads /\ Len(file_path'[s]) = Len(file_path[s]) + 1
        /\ \A t \in Threads \ {s} : file_path'[t] = file_path[t]
    BY <1>2, DealPlaces
  <1>4. \A t \in Threads, j \in Nat, g \in Files :
          Has(t, j, g)' <=> IF t = s THEN (j = 1 /\ g = f) \/ (j > 1 /\ Has(t, j - 1, g))
                            ELSE Has(t, j, g)
    BY <1>2, DealPlaces
  <1>5. \A t \in Threads : Len(file_path[t]) \in Nat
    BY LenProperties DEF TypeOK
  <1>6. threadNum' + Cardinality(unread') = Cardinality(Files)
    <2>1. IsFiniteSet(unread) /\ Cardinality(unread) \in Nat
      BY <1>1, LogAssumption, FS_Subset, FS_CardinalityType
    <2>2. Cardinality(unread') = Cardinality(unread) - 1
      BY <1>1, <2>1, FS_RemoveElement
    <2> QED BY <1>1, <2>1, <2>2 DEF Dealt
  <1>7. \A t \in Threads : Len(file_path'[t]) <= threadNum'
    BY <1>1, <1>3, <1>5 DEF Dealt
  <1>8. \E q \in Nat : Even(q)'
    <2>1. PICK q \in Nat : Even(q)
      BY <1>1 DEF Dealt
    <2>2. PICK r, r1 : r = threadNum % CountThreads /\ r1 = threadNum' % CountThreads
      OBVIOUS
    <2>3. /\ r \in 0 .. CountThreads - 1 /\ s = r
          /\ r1 = IF r = CountThreads - 1 THEN 0 ELSE r + 1
      BY <1>1, <1>2, <2>2, NextTurn DEF SlotFor
    <2>4. \A t \in Threads : /\ t \in Nat /\ t < CountThreads
                             /\ Len(file_path[t]) = IF t < r THEN q + 1 ELSE q
      BY <2>1, <2>2, Counts DEF Even
    <2>5. \A t \in Threads : Len(file_path'[t]) = IF t <= r THEN q + 1 ELSE q
      <3> TAKE t \in Threads
      <3>1. CASE t = s
        <4>1. Len(file_path'[t]) = q + 1
          BY <1>3, <2>3, <2>4, <3>1
        <4> QED BY <2>3, <2>4, <3>1, <4>1
      <3>2. CASE t # s
        <4>1. Len(file_path'[t]) = Len(file_path[t]) /\ t \in Nat
          BY <1>3, <2>4, <3>2
        <4> QED BY <2>3, <2>4, <3>2, <4>1
      <3> QED BY <3>1, <3>2
    <2>6. CASE r = CountThreads - 1
      <3>1. \A t \in Threads : Len(file_path'[t]) = IF t < r1 THEN (q + 1) + 1 ELSE q + 1
        BY <2>3, <2>4, <2>5, <2>6, Counts
      <3>2. Even(q + 1)'
        BY <2>2, <3>1 DEF Even
      <3> QED BY <3>2
    <2>7. CASE r # CountThreads - 1
      <3>1. \A t \in Threads : Len(file_path'[t]) = IF t < r1 THEN q + 1 ELSE q
        BY <2>3, <2>4, <2>5, <2>7
      <3>2. Even(q)'
        BY <2>2, <3>1 DEF Even
      <3> QED BY <3>2
    <2> QED BY <2>6, <2>7
  <1>9. ASSUME NEW g \in Files
        PROVE  g \in unread' <=> ~ \E t \in Threads, j \in Nat : Has(t, j, g)'
    <2>1. g \in unread <=> ~ \E t \in Threads, j \in Nat : Has(t, j, g)
      BY <1>1 DEF Dealt
    <2>2. CASE g = f
      BY <1>1, <1>3, <1>4, <2>2
    <2>3. ASSUME g # f, NEW t \in Threads, NEW j \in Nat, Has(t, j, g)
          PROVE  \E i \in Nat : Has(t, i, g)'
      <3>1. CASE t = s
        <4>1. j >= 1
          BY <1>5, <2>3 DEF Has
        <4>2. j + 1 \in Nat /\ j + 1 > 1 /\ (j + 1) - 1 = j
          BY <4>1
        <4> QED BY <1>4, <2>3, <3>1, <4>2
      <3>2. CASE t # s
        BY <1>4, <2>3, <3>2
      <3> QED BY <3>1, <3>2
    <2>4. ASSUME g # f, NEW t \in Threads, NEW j \in Nat, Has(t, j, g)'
          PROVE  \E i \in Nat : Has(t, i, g)
      <3>1. CASE t = s
        <4>1. j > 1 /\ Has(t, j - 1, g)
          BY <1>4, <2>4, <3>1
        <4>2. j - 1 \in Nat
          BY <4>1
        <4> QED BY <4>1, <4>2
      <3>2. CASE t # s
        BY <1>4, <2>4, <3>2
      <3> QED BY <3>1, <3>2
    <2> QED BY <1>1, <2>1, <2>2, <2>3, <2>4
  <1>10. ASSUME NEW g \in Files, NEW t \in Threads, NEW u \in Threads,
                NEW i \in Nat, NEW j \in Nat, Has(t, i, g)', Has(u, j, g)'
         PROVE  t = u /\ i = j
    <2>1. /\ g = f => \A v \in Threads, l \in Nat : ~ Has(v, l, g)
          /\ \A v, w \in Threads, l, m \in Nat :
               Has(v, l, g) /\ Has(w, m, g) => v = w /\ l = m
      BY <1>1 DEF Dealt
    <2>2. CASE g = f
      <3>1. \A v \in Threads, l \in Nat : Has(v, l, g)' => v = s /\ l = 1
        <4> TAKE v \in Threads, l \in Nat
        <4>1. l > 1 => l - 1 \in Nat
          OBVIOUS
        <4> QED BY <1>4, <2>1, <2>2, <4>1
      <3> QED BY <1>10, <3>1
    <2>3. CASE g # f
      <3>1. \A v \in Threads, l \in Nat :
              Has(v, l, g)' => IF v = s THEN l - 1 \in Nat /\ Has(v, l - 1, g)
                               ELSE Has(v, l, g)
        BY <1>4, <2>3
      <3>2. CASE t = s /\ u = s
        <4>1. i - 1 = j - 1
          BY <1>10, <2>1, <3>1, <3>2
        <4> QED BY <3>2, <4>1
      <3>3. CASE ~ (t = s /\ u = s)
        BY <1>10, <2>1, <3>1, <3>3
      <3> QED BY <3>2, <3>3
    <2> QED BY <2>2, <2>3
  <1> QED BY <1>6, <1>7, <1>8, <1>9, <1>10 DEF Dealt

LEMMA DealtStep == TypeOK /\ Phases /\ Dealt /\ [Next]_vars => Dealt'
  <1> SUFFICES ASSUME TypeOK, Phases, Dealt, [Next]_vars PROVE Dealt'
    OBVIOUS
  <1>1. ASSUME UNCHANGED <<unread, threadNum, file_path>>, Kept' => Kept
        PROVE  Dealt'
    BY <1>1 DEF Dealt, Even, Has
  <1>2. ASSUME UNCHANGED <<unread, threadNum>>, ~ Kept'
        PROVE  Dealt'
    BY <1>2 DEF Dealt
  <1>3. CASE Main \/ Fail
    <2>1. CASE Report \/ FreeThreadData
      <3>1. ~ Kept' /\ UNCHANGED <<unread, threadNum>>
        BY <2>1 DEF Report, FreeThreadData, Kept
      <3> QED BY <1>2, <3>1
    <2>2. CASE ~ (Report \/ FreeThreadData) /\ ~ \E f \in Files : Deal(f)
      BY <1>1, <1>3, <2>2, MainEffect DEF Kept
    <2> QED BY <2>1, <2>2, DealtDeal
  <1>4. ASSUME NEW t \in Threads, Thread(t)
        PROVE  Dealt'
    <2>1. UNCHANGED <<unread, threadNum, file_path>> /\ Kept
      BY <1>4, ThreadEffect DEF Phases, Kept
    <2> QED BY <1>1, <2>1
  <1>5. CASE UNCHANGED vars
    BY <1>1, <1>5 DEF vars, mainVars, Kept
  <1> QED BY <1>3, <1>4, <1>5 DEF Next

-----------------------------------------------------------------------------
(* The threads at work.                                                    *)

LEMMA WorkingInit == Init => Working
  <1> SUFFICES ASSUME Init, NEW t \in Threads
               PROVE  /\ num[t] = t /\ line[t] >= 1
                      /\ tpc[t] = "none"
    BY DEF Working, Started
  <1> QED BY DEF Init

(* The head of the list that is left is the next of all files.             *)
LEMMA NextFile ==
  ASSUME TypeOK, NEW t \in Threads, todo[t] # <<>>, Queued(t)
  PROVE  /\ Past(t) \in Nat /\ Past(t) + 1 \in 1 .. Len(file_path[t])
         /\ Head(todo[t]) = file_path[t][Past(t) + 1]
  <1>1. PICK q, r : q = todo[t] /\ r = file_path[t]
    OBVIOUS
  <1>2. q \in Seq(Files) /\ r \in Seq(Files) /\ q # <<>>
    BY <1>1 DEF TypeOK
  <1>3. Head(q) = q[1] /\ Len(q) \in Nat \ {0} /\ Len(r) \in Nat
    BY <1>2, Shorter, LenProperties
  <1>4. /\ Past(t) = Len(r) - Len(q) /\ Len(q) <= Len(r)
        /\ \A j \in 1 .. Len(q) : q[j] = r[Past(t) + j]
    BY <1>1 DEF Queued, Past
  <1>5. PICK l, m, n : l = Len(q) /\ m = Len(r) /\ n = Past(t)
    OBVIOUS
  <1>6. l \in Nat \ {0} /\ m \in Nat /\ n = m - l /\ l <= m
    BY <1>3, <1>4, <1>5
  <1>7. n \in Nat /\ n + 1 \in 1 .. m /\ 1 \in 1 .. l
    BY <1>6
  <1> QED BY <1>1, <1>3, <1>4, <1>5, <1>7

LEMMA PastTyped ==
  ASSUME TypeOK, NEW t \in Threads, Queued(t)
  PROVE  /\ Past(t) \in 0 .. Len(file_path[t]) /\ Len(file_path[t]) \in Nat
         /\ todo[t] = <<>> => Past(t) = Len(file_path[t])
  <1>1. /\ Len(todo[t]) \in Nat /\ Len(file_path[t]) \in Nat
        /\ todo[t] = <<>> => Len(todo[t]) = 0
    BY LenProperties, EmptySeq DEF TypeOK
  <1>2. PICK l, m, n : l = Len(todo[t]) /\ m = Len(file_path[t]) /\ n = Past(t)
    OBVIOUS
  <1>3. l \in Nat /\ m \in Nat /\ n = m - l /\ l <= m
    BY <1>1, <1>2 DEF Past, Queued
  <1>4. n \in 0 .. m /\ (l = 0 => n = m)
    BY <1>3
  <1> QED BY <1>1, <1>2, <1>3, <1>4

LEMMA QueuedStays ==
  ASSUME NEW t, todo'[t] = todo[t], file_path'[t] = file_path[t]
  PROVE  (Queued(t)' <=> Queued(t)) /\ Past(t)' = Past(t)
  <1>1. Past(t)' = Past(t)
    BY DEF Past
  <1> QED BY <1>1 DEF Queued

LEMMA TailQueued ==
  ASSUME TypeOK, NEW t \in Threads, todo[t] # <<>>, Queued(t), UNCHANGED file_path,
         todo'[t] = Tail(todo[t])
  PROVE  Queued(t)' /\ Past(t)' = Past(t) + 1
  <1>1. PICK q, r, p : q = todo[t] /\ r = Tail(q) /\ p = file_path[t]
    OBVIOUS
  <1>2. q \in Seq(Files) /\ p \in Seq(Files) /\ q # <<>>
    BY <1>1 DEF TypeOK
  <1>3. /\ Len(q) \in Nat \ {0} /\ Len(r) = Len(q) - 1 /\ Len(p) \in Nat
        /\ \A i \in 1 .. Len(r) : r[i] = q[i + 1]
    BY <1>1, <1>2, Shorter, LenProperties
  <1>4. /\ Past(t) = Len(p) - Len(q) /\ Len(q) <= Len(p)
        /\ \A j \in 1 .. Len(q) : q[j] = p[Past(t) + j]
    BY <1>1 DEF Queued, Past
  <1>5. todo'[t] = r /\ file_path'[t] = p
    BY <1>1
  <1>6. Past(t)' = Len(p) - Len(r)
    BY <1>5 DEF Past
  <1>7. Past(t)' = Past(t) + 1
    BY <1>3, <1>4, <1>6
  <1>8. \A j \in 1 .. Len(r) : r[j] = p[Past(t)' + j]
    <2> TAKE j \in 1 .. Len(r)
    <2>1. PICK l, m, n, n1 :
            l = Len(q) /\ m = Len(p) /\ n = Past(t) /\ n1 = Past(t)'
      OBVIOUS
    <2>2. l \in Nat /\ m \in Nat /\ n = m - l /\ j \in 1 .. l - 1 /\ n1 = n + 1
      BY <1>3, <1>4, <1>7, <2>1
    <2>3. j + 1 \in 1 .. l /\ n + (j + 1) = n1 + j
      BY <2>2
    <2> QED BY <1>3, <1>4, <2>1, <2>3
  <1>9. Len(r) <= Len(p)
    BY <1>3, <1>4
  <1> QED BY <1>5, <1>7, <1>8, <1>9 DEF Queued

LEMMA WorkingStep == TypeOK /\ Phases /\ Working /\ [Next]_vars => Working'
  <1> SUFFICES ASSUME TypeOK, Phases, Working, [Next]_vars PROVE Working'
    OBVIOUS
  <1>1. CASE UNCHANGED vars
    <2>1. /\ UNCHANGED <<num, line, tpc, todo, file_path, pc>>
          /\ \A t \in Threads : Queued(t)' <=> Queued(t)
      BY <1>1, QueuedStays DEF vars, mainVars, threadVars
    <2> QED BY <2>1 DEF Working, Kept, Started
  <1>2. CASE Main \/ Fail
    <2>1. UNCHANGED <<num, todo, line>>
      BY <1>2, MainEffect
    <2>2. \A t \in Threads : tpc'[t] = tpc[t] \/ tpc'[t] = "start"
      <3>1. CASE Create
        BY <3>1 DEF Create, TypeOK
      <3>2. CASE ~ Create
        BY <1>2, <3>2, MainEffect
      <3> QED BY <3>1, <3>2
    <2>3. ASSUME NEW t \in Threads, Kept', Started(t)'
          PROVE  Queued(t)'
      <3>1. tpc'[t] = tpc[t] /\ Started(t)
        BY <2>2, <2>3 DEF Started
      <3>2. pc # "readdir"
        BY <3>1 DEF Phases, Started
      <3>3. UNCHANGED file_path /\ Kept
        BY <1>2, <2>3, <3>2, MainEffect DEF Deal, Report, FreeThreadData, Kept
      <3>4. Queued(t)
        BY <3>1, <3>3 DEF Working
      <3> QED BY <2>1, <3>3, <3>4, QueuedStays
    <2> QED BY <2>1, <2>2, <2>3 DEF Working
  <1>3. ASSUME NEW t \in Threads, Thread(t)
        PROVE  Working'
    <2>1. /\ \A s \in Threads \ {t} : tpc'[s] = tpc[s] /\ todo'[s] = todo[s]
                                      /\ line'[s] = line[s] /\ num'[s] = num[s]
          /\ UNCHANGED file_path
          /\ Kept
      BY <1>3, ThreadEffect DEF Phases, Kept
    <2>2. ASSUME NEW s \in Threads \ {t}
          PROVE  /\ num'[s] = s /\ line'[s] >= 1
                 /\ tpc'[s] = "line" => todo'[s] # <<>> /\ Head(todo'[s]) \notin Bad
                 /\ tpc'[s] = "done" => todo'[s] = <<>>
                 /\ Kept' /\ Started(s)' => Queued(s)'
      <3>1. Queued(s)' <=> Queued(s)
        BY <2>1, QueuedStays
      <3> QED BY <2>1, <3>1 DEF Working, Started
    <2>3. /\ num[t] = t /\ line[t] >= 1 /\ line[t] \in Nat
          /\ tpc[t] = "line" => todo[t] # <<>> /\ Head(todo[t]) \notin Bad
          /\ tpc[t] = "done" => todo[t] = <<>>
          /\ Started(t) => Queued(t)
      BY <2>1 DEF Working, TypeOK
    <2>4. /\ num'[t] = t /\ line'[t] >= 1
          /\ tpc'[t] = "line" => todo'[t] # <<>> /\ Head(todo'[t]) \notin Bad
          /\ tpc'[t] = "done" => todo'[t] = <<>>
          /\ Kept' /\ Started(t)' => Queued(t)'
      <3>1. CASE StartThread(t)
        <4>1. /\ num'[t] = t /\ line'[t] = line[t] /\ tpc'[t] = "file"
              /\ todo'[t] = file_path[t] /\ file_path'[t] = file_path[t]
          BY <3>1 DEF StartThread, NumOf, TypeOK, mainVars
        <4>2. Len(file_path[t]) \in Nat
          BY LenProperties DEF TypeOK
        <4>3. Queued(t)'
          <5>1. Past(t)' = 0
            BY <4>1, <4>2 DEF Past
          <5> QED BY <4>1, <4>2, <5>1 DEF Queued
        <4> QED BY <2>3, <4>1, <4>3
      <3>2. CASE OpenFile(t)
        <4>1. /\ num'[t] = num[t] /\ line'[t] = 1 /\ tpc'[t] = "line"
              /\ todo' = todo /\ todo[t] # <<>> /\ Head(todo[t]) \notin Bad
              /\ tpc[t] = "file"
          BY <3>2 DEF OpenFile, TypeOK
        <4> QED BY <2>1, <2>3, <4>1, QueuedStays DEF Started
      <3>3. CASE CannotOpen(t)
        <4>1. /\ num' = num /\ line' = line /\ tpc' = tpc /\ tpc[t] = "file"
              /\ todo[t] # <<>>
              /\ todo'[t] = Tail(todo[t]) \/ todo' = todo
          BY <3>3 DEF CannotOpen, TypeOK
        <4>2. Queued(t)
          BY <2>3, <4>1 DEF Started
        <4>3. Queued(t)'
          BY <2>1, <4>1, <4>2, TailQueued, QueuedStays
        <4> QED BY <2>3, <4>1, <4>3
      <3>4. CASE ReadLine(t)
        <4>1. /\ num' = num /\ line'[t] = line[t] + 1 /\ tpc' = tpc /\ tpc[t] = "line"
              /\ todo' = todo
          BY <3>4 DEF ReadLine, NextLine, TypeOK
        <4> QED BY <2>1, <2>3, <4>1, QueuedStays DEF Started
      <3>5. CASE EndOfFile(t)
        <4>1. /\ num' = num /\ line' = line /\ tpc'[t] = "file" /\ tpc[t] = "line"
              /\ todo'[t] = Tail(todo[t])
          BY <3>5 DEF EndOfFile, TypeOK
        <4>2. Queued(t)
          BY <2>3, <4>1 DEF Started
        <4>3. Queued(t)'
          BY <2>1, <2>3, <4>1, <4>2, TailQueued
        <4> QED BY <2>3, <4>1, <4>3
      <3>6. CASE EndThread(t)
        <4>1. /\ num' = num /\ line' = line /\ tpc'[t] = "done" /\ tpc[t] = "file"
              /\ todo' = todo /\ todo[t] = <<>>
          BY <3>6 DEF EndThread, TypeOK
        <4> QED BY <2>1, <2>3, <4>1, QueuedStays DEF Started
      <3> QED BY <1>3, <3>1, <3>2, <3>3, <3>4, <3>5, <3>6 DEF Thread
    <2> QED BY <2>2, <2>4 DEF Working
  <1> QED BY <1>1, <1>2, <1>3 DEF Next

-----------------------------------------------------------------------------
(* What has been read, and how a step changes it.                          *)

LEMMA ReadIsDealt ==
  ASSUME TypeOK, Working, Kept, NEW t \in Threads, NEW x \in GoodLines, HasRead(t, x)
  PROVE  \E j \in Nat :
           /\ Has(t, j, x[1])
           /\ \/ j \in 1 .. Past(t)
              \/ j = Past(t) + 1 /\ tpc[t] = "line" /\ x[1] = Head(todo[t]) /\ x[2] < line[t]
  <1>1. Queued(t)
    BY DEF Working, HasRead
  <1>2. Past(t) \in 0 .. Len(file_path[t]) /\ Len(file_path[t]) \in Nat
    BY <1>1, PastTyped
  <1>3. CASE \E j \in 1 .. Past(t) : file_path[t][j] = x[1]
    BY <1>2, <1>3 DEF Has
  <1>4. CASE tpc[t] = "line" /\ x[1] = Head(todo[t]) /\ x[2] < line[t]
    <2>1. /\ Past(t) + 1 \in 1 .. Len(file_path[t])
          /\ Head(todo[t]) = file_path[t][Past(t) + 1]
      BY <1>1, <1>4, NextFile DEF Working
    <2>2. Has(t, Past(t) + 1, x[1]) /\ Past(t) + 1 \in Nat
      BY <1>2, <1>4, <2>1 DEF Has
    <2> QED BY <1>4, <2>2
  <1> QED BY <1>3, <1>4 DEF HasRead

(* No two threads read the same line.                                      *)
LEMMA ReadersDiffer ==
  ASSUME TypeOK, Dealt, Working, Kept, NEW s \in Threads, NEW t \in Threads, s # t
  PROVE  LinesOf(s) \cap LinesOf(t) = {}
  <1>1. SUFFICES ASSUME NEW x \in GoodLines, HasRead(s, x), HasRead(t, x)
                 PROVE  FALSE
    BY DEF LinesOf
  <1>2. x[1] \in Files
    BY GoodLineIs
  <1>3. /\ \E i \in Nat : Has(s, i, x[1])
        /\ \E j \in Nat : Has(t, j, x[1])
    BY <1>1, ReadIsDealt
  <1> QED BY <1>2, <1>3 DEF Dealt

(* When the threads have ended, all lines that count are read.             *)
LEMMA AllRead ==
  ASSUME TypeOK, Phases, Dealt, Working, pc = "print"
  PROVE  Below(CountThreads) = GoodLines
  <1>1. Kept /\ unread = {} /\ \A t \in Threads : tpc[t] = "done"
    BY DEF Phases, Kept
  <1>2. ASSUME NEW x \in GoodLines
        PROVE  \E t \in Threads : HasRead(t, x)
    <2>1. x[1] \in Files
      BY GoodLineIs
    <2>2. PICK t \in Threads, j \in Nat : Has(t, j, x[1])
      BY <1>1, <2>1 DEF Dealt
    <2>3. Started(t) /\ Queued(t) /\ todo[t] = <<>>
      BY <1>1 DEF Started, Working
    <2>4. Past(t) = Len(file_path[t])
      BY <2>3, PastTyped
    <2>5. j \in 1 .. Past(t) /\ file_path[t][j] = x[1]
      BY <2>2, <2>4 DEF Has
    <2> QED BY <2>3, <2>5 DEF HasRead
  <1>3. \A t \in Threads : t < CountThreads
    BY Counts
  <1> QED BY <1>2, <1>3 DEF Below

(* Only a step of thread t changes what t has read.                        *)
LEMMA ReadStays ==
  ASSUME NEW t, tpc'[t] = tpc[t] \/ (~ Started(t) /\ ~ Started(t)'),
         todo'[t] = todo[t], line'[t] = line[t], file_path'[t] = file_path[t]
  PROVE  \A x : HasRead(t, x)' <=> HasRead(t, x)
  <1>1. Past(t)' = Past(t)
    BY DEF Past
  <1> QED BY <1>1 DEF HasRead, Started

LEMMA ReadOfMain ==
  ASSUME TypeOK, Phases, Main \/ Fail, Kept', NEW t \in Threads
  PROVE  \A x : HasRead(t, x)' <=> HasRead(t, x)
  <1>1. todo' = todo /\ line' = line
    BY MainEffect
  <1>2. CASE \E f \in Files : Deal(f)
    <2>1. ~ Started(t) /\ ~ Started(t)'
      BY <1>2 DEF Deal, Phases, Started, threadVars
    <2> QED BY <2>1 DEF HasRead
  <1>3. CASE Create
    <2>1. tpc'[t] = tpc[t] \/ (~ Started(t) /\ ~ Started(t)')
      BY <1>3, Counts DEF Create, TypeOK, Phases, Started
    <2>2. file_path' = file_path
      BY <1>3 DEF Create
    <2> QED BY <1>1, <2>1, <2>2, ReadStays
  <1>4. CASE ~ Create /\ ~ \E f \in Files : Deal(f)
    <2>1. tpc' = tpc /\ file_path' = file_path
      BY <1>4, MainEffect DEF Report, FreeThreadData, Kept
    <2> QED BY <1>1, <2>1, ReadStays
  <1> QED BY <1>2, <1>3, <1>4

LEMMA PastIndex ==
  ASSUME NEW n \in Nat, NEW r, NEW y
  PROVE  (\E j \in 1 .. n + 1 : r[j] = y) <=> (\E j \in 1 .. n : r[j] = y) \/ r[n + 1] = y
  <1>1. \A j : j \in 1 .. n + 1 <=> j \in 1 .. n \/ j = n + 1
    OBVIOUS
  <1> QED BY <1>1

(* A thread that does not read a line has read what it had.                *)
LEMMA ReadOfOthers ==
  ASSUME TypeOK, Working, Kept, NEW t \in Threads, Thread(t), ~ ReadLine(t),
         UNCHANGED file_path, NEW x \in GoodLines
  PROVE  HasRead(t, x)' <=> HasRead(t, x)
  <1>1. x[1] \in Files \ Bad /\ x[2] \in 1 .. Len(Content[x[1]]) /\ x[2] \in Nat
    BY GoodLineIs
  <1>2. CASE StartThread(t)
    <2>1. /\ tpc[t] = "start" /\ tpc'[t] = "file" /\ todo'[t] = file_path[t]
      BY <1>2 DEF StartThread, NumOf, TypeOK
    <2>2. Past(t)' = 0
      <3>1. Len(file_path[t]) \in Nat
        BY LenProperties DEF TypeOK
      <3> QED BY <2>1, <3>1 DEF Past
    <2> QED BY <2>1, <2>2 DEF HasRead, Started
  <1>3. CASE OpenFile(t)
    <2>1. /\ tpc[t] = "file" /\ tpc'[t] = "line" /\ todo' = todo /\ line'[t] = 1
      BY <1>3 DEF OpenFile, TypeOK
    <2>2. Past(t)' = Past(t)
      BY <2>1 DEF Past
    <2> QED BY <1>1, <2>1, <2>2 DEF HasRead, Started
  <1>4. ASSUME Started(t), todo[t] # <<>>, todo'[t] = Tail(todo[t])
        PROVE  /\ Past(t)' = Past(t) + 1
               /\ (\E j \in 1 .. Past(t)' : file_path'[t][j] = x[1])
                    <=> (\E j \in 1 .. Past(t) : file_path[t][j] = x[1])
                        \/ x[1] = Head(todo[t])
    <2>1. Queued(t)
      BY <1>4 DEF Working
    <2>2. Past(t)' = Past(t) + 1
      BY <1>4, <2>1, TailQueued
    <2>3. Past(t) \in Nat /\ Head(todo[t]) = file_path[t][Past(t) + 1]
      BY <1>4, <2>1, NextFile
    <2>4. PICK n, r, y : n = Past(t) /\ r = file_path[t] /\ y = x[1]
      OBVIOUS
    <2>5. (\E j \in 1 .. n + 1 : r[j] = y) <=> (\E j \in 1 .. n : r[j] = y) \/ r[n + 1] = y
      BY <2>3, <2>4, PastIndex
    <2> QED BY <2>2, <2>3, <2>4, <2>5
  <1>5. CASE CannotOpen(t)
    <2>1. /\ tpc[t] = "file" /\ tpc' = tpc /\ line' = line /\ todo[t] # <<>>
          /\ Head(todo[t]) \in Bad
          /\ todo' = todo \/ todo'[t] = Tail(todo[t])
      BY <1>5 DEF CannotOpen, TypeOK
    <2>2. CASE todo' = todo
      BY <2>1, <2>2, ReadStays
    <2>3. CASE todo'[t] = Tail(todo[t])
      BY <1>1, <1>4, <2>1, <2>3 DEF HasRead, Started
    <2> QED BY <2>1, <2>2, <2>3
  <1>6. CASE EndOfFile(t)
    <2>1. /\ tpc[t] = "line" /\ tpc'[t] = "file" /\ line' = line
          /\ todo'[t] = Tail(todo[t]) /\ line[t] > Len(Content[Head(todo[t])])
          /\ todo[t] # <<>> /\ line[t] \in Nat
      BY <1>6 DEF EndOfFile, TypeOK, Working
    <2>2. x[1] = Head(todo[t]) => x[2] < line[t]
      <3>1. Len(Content[x[1]]) \in Nat
        BY <1>1, ContentTyped
      <3> QED BY <1>1, <2>1, <3>1
    <2> QED BY <1>4, <2>1, <2>2 DEF HasRead, Started
  <1>7. CASE EndThread(t)
    <2>1. /\ tpc[t] = "file" /\ tpc'[t] = "done" /\ line' = line /\ todo' = todo
      BY <1>7 DEF EndThread, TypeOK
    <2>2. Past(t)' = Past(t)
      BY <2>1 DEF Past
    <2> QED BY <2>1, <2>2 DEF HasRead, Started
  <1> QED BY <1>2, <1>3, <1>5, <1>6, <1>7 DEF Thread

(* One that reads a line has read it, and had not.                         *)
LEMMA ReadOfLine ==
  ASSUME TypeOK, Dealt, Working, Kept, NEW t \in Threads, ReadLine(t)
  PROVE  LET y == <<Head(todo[t]), line[t]>> IN
         /\ \A x \in GoodLines : HasRead(t, x)' <=> HasRead(t, x) \/ x = y
         /\ y \in GoodLines => ~ HasRead(t, y)
  <1>1. PICK y : y = <<Head(todo[t]), line[t]>>
    OBVIOUS
  <1>2. /\ tpc[t] = "line" /\ tpc' = tpc /\ todo' = todo /\ file_path' = file_path
        /\ line'[t] = line[t] + 1 /\ line[t] \in Nat
    BY DEF ReadLine, NextLine, TypeOK, mainVars
  <1>3. Past(t)' = Past(t)
    BY <1>2 DEF Past
  <1>4. ASSUME NEW x \in GoodLines
        PROVE  HasRead(t, x)' <=> HasRead(t, x) \/ x = y
    <2>1. x[2] \in Nat /\ x = <<x[1], x[2]>>
      BY GoodLineIs
    <2>2. x[2] < line'[t] <=> x[2] < line[t] \/ x[2] = line[t]
      BY <1>2, <2>1
    <2>3. x = y <=> x[1] = Head(todo[t]) /\ x[2] = line[t]
      BY <1>1, <2>1
    <2> QED BY <1>2, <1>3, <2>2, <2>3 DEF HasRead, Started
  <1>5. ASSUME y \in GoodLines, HasRead(t, y)
        PROVE  FALSE
    <2>1. y[1] = Head(todo[t]) /\ y[2] = line[t] /\ y[1] \in Files
      BY <1>1, <1>5, GoodLineIs
    <2>2. Queued(t) /\ todo[t] # <<>>
      BY <1>2 DEF Working, Started
    <2>3. /\ Past(t) \in Nat /\ Past(t) + 1 \in 1 .. Len(file_path[t])
          /\ Head(todo[t]) = file_path[t][Past(t) + 1]
      BY <2>2, NextFile
    <2>4. Has(t, Past(t) + 1, y[1]) /\ Past(t) + 1 \in Nat
      BY <2>1, <2>3 DEF Has
    <2>5. PICK j \in Nat : Has(t, j, y[1]) /\ (j \in 1 .. Past(t) \/ y[2] < line[t])
      BY <1>5, ReadIsDealt
    <2>6. j = Past(t) + 1
      BY <2>1, <2>4, <2>5 DEF Dealt
    <2> QED BY <1>2, <2>1, <2>3, <2>5, <2>6
  <1> QED BY <1>1, <1>4, <1>5

-----------------------------------------------------------------------------
(* The tables.                                                             *)

LEMMA ByTyped ==
  ASSUME NEW S \in SUBSET GoodLines
  PROVE  ByUrl(S) \in [Urls -> Nat] /\ ByRef(S) \in [Refs -> Nat]
  <1>1. ASSUME NEW u
        PROVE  Volume({x \in S : At(x).url = u}) \in Nat
    <2>1. {x \in S : At(x).url = u} \in SUBSET GoodLines
      OBVIOUS
    <2> QED BY <2>1, VolumeTyped
  <1>2. ASSUME NEW r
        PROVE  Cardinality({x \in S : At(x).ref = r}) \in Nat
    <2>1. {x \in S : At(x).ref = r} \in SUBSET GoodLines
      OBVIOUS
    <2> QED BY <2>1, GoodSubset
  <1> QED BY <1>1, <1>2 DEF ByUrl, ByRef

LEMMA ByOfNone ==
  /\ \A u \in Urls : ByUrl({})[u] = 0
  /\ \A r \in Refs : ByRef({})[r] = 0
  <1>1. \A u : {x \in {} : At(x).url = u} = {}
    OBVIOUS
  <1>2. \A r : {x \in {} : At(x).ref = r} = {}
    OBVIOUS
  <1> QED BY <1>1, <1>2, VolumeOfNone, FS_EmptySet DEF ByUrl, ByRef

LEMMA ByOfOneMore ==
  ASSUME NEW S \in SUBSET GoodLines, NEW x \in GoodLines, x \notin S
  PROVE  /\ ByUrl(S \cup {x}) = [ByUrl(S) EXCEPT ![At(x).url] = @ + Bytes(x)]
         /\ ByRef(S \cup {x}) = [ByRef(S) EXCEPT ![At(x).ref] = @ + 1]
  <1>1. At(x).url \in Urls /\ At(x).ref \in Refs
    BY GoodLineIs DEF Lines
  <1>2. ASSUME NEW u \in Urls
        PROVE  ByUrl(S \cup {x})[u] = IF u = At(x).url THEN ByUrl(S)[u] + Bytes(x)
                                      ELSE ByUrl(S)[u]
    <2>1. PICK T : T = {y \in S : At(y).url = u}
      OBVIOUS
    <2>2. T \in SUBSET GoodLines /\ x \notin T
      BY <2>1
    <2>3. {y \in S \cup {x} : At(y).url = u} = IF u = At(x).url THEN T \cup {x} ELSE T
      BY <2>1
    <2>4. Volume(T \cup {x}) = Volume(T) + Bytes(x)
      BY <2>2, VolumeOfOneMore
    <2> QED BY <2>1, <2>3, <2>4 DEF ByUrl
  <1>3. ASSUME NEW r \in Refs
        PROVE  ByRef(S \cup {x})[r] = IF r = At(x).ref THEN ByRef(S)[r] + 1 ELSE ByRef(S)[r]
    <2>1. PICK T : T = {y \in S : At(y).ref = r}
      OBVIOUS
    <2>2. T \in SUBSET GoodLines /\ x \notin T
      BY <2>1
    <2>3. {y \in S \cup {x} : At(y).ref = r} = IF r = At(x).ref THEN T \cup {x} ELSE T
      BY <2>1
    <2>4. Cardinality(T \cup {x}) = Cardinality(T) + 1
      BY <2>2, GoodSubset, FS_AddElement
    <2> QED BY <2>1, <2>3, <2>4 DEF ByRef
  <1>4. PICK b : b = Bytes(x)
    OBVIOUS
  <1>5. /\ ByUrl(S \cup {x}) = [u \in Urls |-> ByUrl(S \cup {x})[u]]
        /\ [ByUrl(S) EXCEPT ![At(x).url] = @ + b]
             = [u \in Urls |-> IF u = At(x).url THEN ByUrl(S)[u] + b ELSE ByUrl(S)[u]]
    BY <1>1 DEF ByUrl
  <1>6. /\ ByRef(S \cup {x}) = [r \in Refs |-> ByRef(S \cup {x})[r]]
        /\ [ByRef(S) EXCEPT ![At(x).ref] = @ + 1]
             = [r \in Refs |-> IF r = At(x).ref THEN ByRef(S)[r] + 1 ELSE ByRef(S)[r]]
    BY <1>1 DEF ByRef
  <1> QED BY <1>2, <1>3, <1>4, <1>5, <1>6

LEMMA ByOfUnion ==
  ASSUME NEW S \in SUBSET GoodLines, NEW R \in SUBSET GoodLines, S \cap R = {}
  PROVE  /\ \A u \in Urls : ByUrl(S \cup R)[u] = ByUrl(S)[u] + ByUrl(R)[u]
         /\ \A r \in Refs : ByRef(S \cup R)[r] = ByRef(S)[r] + ByRef(R)[r]
  <1>1. ASSUME NEW u \in Urls
        PROVE  ByUrl(S \cup R)[u] = ByUrl(S)[u] + ByUrl(R)[u]
    <2>1. PICK A, B : A = {y \in S : At(y).url = u} /\ B = {y \in R : At(y).url = u}
      OBVIOUS
    <2>2. A \in SUBSET GoodLines /\ B \in SUBSET GoodLines /\ A \cap B = {}
      BY <2>1
    <2>3. {y \in S \cup R : At(y).url = u} = A \cup B
      BY <2>1
    <2>4. Volume(A \cup B) = Volume(A) + Volume(B)
      BY <2>2, VolumeOfUnion
    <2> QED BY <2>1, <2>3, <2>4 DEF ByUrl
  <1>2. ASSUME NEW r \in Refs
        PROVE  ByRef(S \cup R)[r] = ByRef(S)[r] + ByRef(R)[r]
    <2>1. PICK A, B : A = {y \in S : At(y).ref = r} /\ B = {y \in R : At(y).ref = r}
      OBVIOUS
    <2>2. A \in SUBSET GoodLines /\ B \in SUBSET GoodLines /\ A \cap B = {}
      BY <2>1
    <2>3. {y \in S \cup R : At(y).ref = r} = A \cup B
      BY <2>1
    <2>4. Cardinality(A \cup B) = Cardinality(A) + Cardinality(B)
      <3>1. Cardinality(A \cup B) = Cardinality(A) + Cardinality(B) - Cardinality(A \cap B)
        BY <2>2, GoodSubset, FS_Union
      <3> QED BY <2>2, <3>1, GoodSubset, FS_EmptySet
    <2> QED BY <2>1, <2>3, <2>4 DEF ByRef
  <1> QED BY <1>1, <1>2

(* One more table is merged.                                               *)
LEMMA TallyMerged ==
  ASSUME NEW D, NEW of \in [D -> Threads \cup {None}],
         NEW table \in [Threads -> [D -> Nat]], NEW n \in Threads,
         NEW own, own[n] \in [D -> Nat], NEW sum, NEW more,
         \A x \in D : more[x] = sum[x] + own[n][x],
         Tallied(of, table, n, own, sum)
  PROVE  Tallied(Owners(of, table, n), Merged(of, table, n), n + 1, own, more)
  <1>1. PICK of1, table1 : of1 = Owners(of, table, n) /\ table1 = Merged(of, table, n)
    OBVIOUS
  <1>2. DOMAIN of = D /\ n \in Nat /\ \A t \in Threads : t \in Nat
    BY Counts
  <1>3. /\ DOMAIN of1 = D
        /\ \A x \in D : of1[x] = IF of[x] = None /\ table[n][x] > 0 THEN n ELSE of[x]
    BY <1>1, <1>2 DEF Owners
  <1>4. /\ table1 = [s \in Threads |-> table1[s]]
        /\ \A s \in Threads : table1[s] = [x \in D |-> table1[s][x]]
        /\ \A s \in Threads, x \in D :
             table1[s][x] = IF of[x] = s /\ s # n THEN table[s][x] + table[n][x]
                            ELSE table[s][x]
    BY <1>1, <1>2 DEF Merged
  <1>5. /\ \A t \in Threads : t >= n => table[t] = own[t]
        /\ \A x \in D : IF of[x] = None THEN sum[x] = 0
                        ELSE of[x] \in 0 .. n - 1 /\ table[of[x]][x] = sum[x]
    BY <1>2 DEF Tallied
  <1>6. ASSUME NEW t \in Threads, t >= n + 1
        PROVE  table1[t] = own[t]
    <2>1. t >= n /\ \A x \in D : of[x] # t
      BY <1>2, <1>5, <1>6, Counts
    <2>2. \A x \in D : table1[t][x] = table[t][x]
      BY <1>4, <2>1
    <2>3. table[t] = [x \in D |-> table[t][x]]
      OBVIOUS
    <2> QED BY <1>4, <1>5, <2>1, <2>2, <2>3
  <1>7. ASSUME NEW x \in D
        PROVE  IF of1[x] = None THEN more[x] = 0
               ELSE of1[x] \in 0 .. (n + 1) - 1 /\ table1[of1[x]][x] = more[x]
    <2>1. table[n][x] = own[n][x] /\ own[n][x] \in Nat /\ more[x] = sum[x] + own[n][x]
      BY <1>2, <1>5
    <2>2. CASE of[x] = None
      <3>1. sum[x] = 0 /\ more[x] = own[n][x] /\ None # n
        BY <1>5, <2>1, <2>2, Counts
      <3>2. CASE table[n][x] > 0
        BY <1>2, <1>3, <1>4, <2>1, <2>2, <3>1, <3>2
      <3>3. CASE ~ (table[n][x] > 0)
        BY <1>3, <2>1, <2>2, <3>1, <3>3
      <3> QED BY <3>2, <3>3
    <2>3. CASE of[x] # None
      <3>1. /\ of[x] \in Threads /\ of[x] \in 0 .. n - 1 /\ of1[x] = of[x] /\ of[x] # n
            /\ table[of[x]][x] = sum[x]
        BY <1>2, <1>3, <1>5, <2>3
      <3>2. table1[of[x]][x] = table[of[x]][x] + table[n][x]
        BY <1>4, <3>1
      <3>3. of1[x] \in 0 .. (n + 1) - 1
        BY <1>2, <3>1
      <3> QED BY <2>1, <2>3, <3>1, <3>2, <3>3
    <2> QED BY <2>2, <2>3
  <1> QED BY <1>1, <1>3, <1>6, <1>7 DEF Tallied

LEMMA SumsInit == Init => Sums
  <1> SUFFICES ASSUME Init PROVE Sums
    OBVIOUS
  <1>1. MergedSlots = 0 /\ \A t \in Threads : ~ Started(t)
    BY DEF Init, MergedSlots, Started
  <1>2. Below(0) = {} /\ \A t \in Threads : LinesOf(t) = {}
    BY <1>1, Counts DEF Below, LinesOf, HasRead
  <1>3. ByUrl({}) = [u \in Urls |-> 0] /\ ByRef({}) = [r \in Refs |-> 0]
    <2>1. /\ ByUrl({}) = [u \in Urls |-> ByUrl({})[u]]
          /\ ByRef({}) = [r \in Refs |-> ByRef({})[r]]
      BY DEF ByUrl, ByRef
    <2> QED BY <2>1, ByOfNone
  <1>4. Tallied(urlOf, url, 0, [t \in Threads |-> ByUrl(LinesOf(t))], ByUrl(Below(0)))
    BY <1>2, <1>3 DEF Init, Tallied
  <1>5. Tallied(refOf, ref, 0, [t \in Threads |-> ByRef(LinesOf(t))], ByRef(Below(0)))
    BY <1>2, <1>3 DEF Init, Tallied
  <1>6. \A t \in Slots : byte_count[t] = 0
    BY DEF Init
  <1> QED BY <1>1, <1>2, <1>4, <1>5, <1>6, VolumeOfNone, Counts DEF Sums

LEMMA ReadSets ==
  ASSUME NEW S \in SUBSET Threads,
         \A t \in S, x \in GoodLines : HasRead(t, x)' <=> HasRead(t, x)
  PROVE  /\ \A t \in S : LinesOf(t)' = LinesOf(t)
         /\ S = Threads => \A n : Below(n)' = Below(n)
  BY DEF LinesOf, Below

LEMMA SumsStay ==
  ASSUME Sums, Kept, UNCHANGED <<byte_count, url, ref, urlOf, refOf>>,
         MergedSlots' = MergedSlots,
         \A t \in Threads, x \in GoodLines : HasRead(t, x)' <=> HasRead(t, x)
  PROVE  Sums'
  <1>1. /\ \A t \in Threads : LinesOf(t)' = LinesOf(t)
        /\ Below(MergedSlots)' = Below(MergedSlots)
    BY ReadSets
  <1>2. PICK n, b, own, sum, own1, sum1 :
          /\ n = MergedSlots /\ b = Below(n)
          /\ own = [t \in Threads |-> ByUrl(LinesOf(t))] /\ sum = ByUrl(b)
          /\ own1 = [t \in Threads |-> ByRef(LinesOf(t))] /\ sum1 = ByRef(b)
    OBVIOUS
  <1>3. /\ \A t \in Threads : byte_count[t] = Volume(LinesOf(t))
        /\ byte_count[CountThreads] = Volume(b)
        /\ Tallied(urlOf, url, n, own, sum) /\ Tallied(refOf, ref, n, own1, sum1)
    BY <1>2 DEF Sums
  <1>4. /\ MergedSlots' = n /\ Below(MergedSlots)' = b
        /\ [t \in Threads |-> ByUrl(LinesOf(t))]' = own /\ ByUrl(Below(MergedSlots))' = sum
        /\ [t \in Threads |-> ByRef(LinesOf(t))]' = own1 /\ ByRef(Below(MergedSlots))' = sum1
    BY <1>1, <1>2 DEF ByUrl, ByRef
  <1>5. /\ Tallied(urlOf', url', n, own, sum) /\ Tallied(refOf', ref', n, own1, sum1)
        /\ \A t \in Threads : byte_count'[t] = Volume(LinesOf(t)')
        /\ byte_count'[CountThreads] = Volume(b)
    BY <1>1, <1>3
  <1> QED BY <1>4, <1>5 DEF Sums

LEMMA SumsUnion ==
  ASSUME TypeOK, Phases, Dealt, Working, Sums, Union
  PROVE  Sums'
  <1>1. /\ pc = "union" /\ pc' = "union" /\ Kept /\ k \in Threads /\ k' = k + 1
        /\ k \in Nat /\ k # CountThreads
        /\ MergedSlots = k /\ MergedSlots' = k + 1 /\ UNCHANGED <<tpc, todo, line, file_path>>
    BY Index DEF Union, Kept, MergedSlots, TypeOK, threadVars
  <1>2. \A t \in Threads : \A x : HasRead(t, x)' <=> HasRead(t, x)
    BY <1>1, ReadStays
  <1>3. /\ \A t \in Threads : LinesOf(t)' = LinesOf(t)
        /\ \A n : Below(n)' = Below(n)
    BY <1>2, ReadSets
  <1>4. PICK own, own1, A, B, C :
          /\ own = [t \in Threads |-> ByUrl(LinesOf(t))]
          /\ own1 = [t \in Threads |-> ByRef(LinesOf(t))]
          /\ A = Below(k) /\ B = LinesOf(k) /\ C = Below(k + 1)
    OBVIOUS
  <1>5. C = A \cup B /\ A \cap B = {}
    <2>1. \A t \in Threads : t < k + 1 <=> t < k \/ t = k
      BY <1>1, Counts
    <2>2. C = A \cup B
      BY <1>1, <1>4, <2>1 DEF Below, LinesOf
    <2>3. \A x \in A : \E t \in Threads : t # k /\ x \in LinesOf(t)
      BY <1>1, <1>4, Counts DEF Below, LinesOf
    <2>4. \A t \in Threads : t # k => LinesOf(t) \cap B = {}
      BY <1>1, <1>4, ReadersDiffer
    <2> QED BY <2>2, <2>3, <2>4
  <1>6. A \in SUBSET GoodLines /\ B \in SUBSET GoodLines
    BY <1>4 DEF Below, LinesOf
  <1>7. /\ \A t \in Threads : byte_count[t] = Volume(LinesOf(t))
        /\ byte_count[CountThreads] = Volume(A)
        /\ Tallied(urlOf, url, k, own, ByUrl(A)) /\ Tallied(refOf, ref, k, own1, ByRef(A))
    BY <1>1, <1>4 DEF Sums
  <1>8. own[k] = ByUrl(B) /\ own1[k] = ByRef(B)
    BY <1>1, <1>4
  <1>9. Tallied(urlOf', url', k + 1, own, ByUrl(C))
    <2>1. \A u \in Urls : ByUrl(C)[u] = ByUrl(A)[u] + own[k][u]
      <3>1. \A u \in Urls : ByUrl(A \cup B)[u] = ByUrl(A)[u] + ByUrl(B)[u]
        BY <1>5, <1>6, ByOfUnion
      <3> QED BY <1>5, <1>8, <3>1
    <2>2. own[k] \in [Urls -> Nat]
      BY <1>6, <1>8, ByTyped
    <2>3. Tallied(Owners(urlOf, url, k), Merged(urlOf, url, k), k + 1, own, ByUrl(C))
      BY <1>1, <1>7, <2>1, <2>2, TallyMerged DEF TypeOK
    <2> QED BY <2>3 DEF Union
  <1>10. Tallied(refOf', ref', k + 1, own1, ByRef(C))
    <2>1. \A r \in Refs : ByRef(C)[r] = ByRef(A)[r] + own1[k][r]
      <3>1. \A r \in Refs : ByRef(A \cup B)[r] = ByRef(A)[r] + ByRef(B)[r]
        BY <1>5, <1>6, ByOfUnion
      <3> QED BY <1>5, <1>8, <3>1
    <2>2. own1[k] \in [Refs -> Nat]
      BY <1>6, <1>8, ByTyped
    <2>3. Tallied(Owners(refOf, ref, k), Merged(refOf, ref, k), k + 1, own1, ByRef(C))
      BY <1>1, <1>7, <2>1, <2>2, TallyMerged DEF TypeOK
    <2> QED BY <2>3 DEF Union
  <1>11. /\ byte_count'[CountThreads] = Volume(C)
         /\ \A t \in Threads : byte_count'[t] = Volume(LinesOf(t))
    <2>1. /\ byte_count'[CountThreads] = byte_count[CountThreads] + byte_count[k]
          /\ \A t \in Threads : byte_count'[t] = byte_count[t]
      BY Counts DEF Union, TypeOK
    <2>2. byte_count[k] = Volume(B)
      BY <1>1, <1>4, <1>7
    <2>3. Volume(C) = Volume(A) + Volume(B)
      BY <1>5, <1>6, VolumeOfUnion
    <2> QED BY <1>7, <2>1, <2>2, <2>3
  <1>12. /\ [t \in Threads |-> ByUrl(LinesOf(t))]' = own
         /\ [t \in Threads |-> ByRef(LinesOf(t))]' = own1
         /\ Below(MergedSlots)' = C
    BY <1>1, <1>3, <1>4 DEF ByUrl, ByRef
  <1>13. ByUrl(Below(MergedSlots))' = ByUrl(C) /\ ByRef(Below(MergedSlots))' = ByRef(C)
    BY <1>12 DEF ByUrl, ByRef
  <1> QED BY <1>1, <1>3, <1>9, <1>10, <1>11, <1>12, <1>13 DEF Sums

LEMMA SumsReadLine ==
  ASSUME TypeOK, Phases, Dealt, Working, Sums, NEW t \in Threads, Thread(t), ReadLine(t)
  PROVE  Sums'
  <1>1. /\ tpc[t] \notin {"none", "done"} /\ pc' = pc /\ UNCHANGED <<urlOf, refOf, k, file_path>>
        /\ \A s \in Threads \ {t} : tpc'[s] = tpc[s] /\ todo'[s] = todo[s]
                                    /\ line'[s] = line[s]
    BY ThreadEffect DEF ReadLine, mainVars
  <1>2. Kept /\ MergedSlots = 0 /\ MergedSlots' = 0
    BY <1>1 DEF Phases, Kept, MergedSlots
  <1>3. Below(0) = {} /\ Below(0)' = {}
    <2>1. \A s \in Threads : ~ (s < 0)
      BY Counts
    <2> QED BY <2>1 DEF Below
  <1>4. \A s \in Threads \ {t} : LinesOf(s)' = LinesOf(s)
    <2>1. \A s \in Threads \ {t} : \A x : HasRead(s, x)' <=> HasRead(s, x)
      BY <1>1, ReadStays
    <2> QED BY <2>1, ReadSets
  <1>5. PICK l, f, j, b :
          /\ l \in Lines /\ f \in Files \ Bad /\ b \in Int
          /\ f = Head(todo[t]) /\ j = line[t]
          /\ j \in 1 .. Len(Content[f]) /\ l = Content[f][j] /\ b = ParseLine(l)
          /\ b < 1 => UNCHANGED data
          /\ b >= 1 =>
                /\ byte_count' = [byte_count EXCEPT ![t] = @ + b]
                /\ url' = [url EXCEPT ![t] = [url[t] EXCEPT ![l.url] = url[t][l.url] + b]]
                /\ ref' = [ref EXCEPT ![t] = [ref[t] EXCEPT ![l.ref] = ref[t][l.ref] + 1]]
    BY LineCounted
  <1>6. PICK y : y = <<f, j>>
    OBVIOUS
  <1>7. /\ \A x \in GoodLines : HasRead(t, x)' <=> HasRead(t, x) \/ x = y
        /\ y \in GoodLines => ~ HasRead(t, y)
    BY <1>2, <1>5, <1>6, ReadOfLine
  <1>8. At(y) = l /\ Bytes(y) = b
    BY <1>5, <1>6 DEF At, Bytes
  <1>9. PICK S, own, own1, new, new1 :
          /\ S = LinesOf(t)
          /\ own = [s \in Threads |-> ByUrl(LinesOf(s))]
          /\ own1 = [s \in Threads |-> ByRef(LinesOf(s))]
          /\ new = [s \in Threads |-> ByUrl(LinesOf(s))]'
          /\ new1 = [s \in Threads |-> ByRef(LinesOf(s))]'
    OBVIOUS
  <1>10. /\ \A s \in Threads : byte_count[s] = Volume(LinesOf(s))
         /\ byte_count[CountThreads] = Volume({})
         /\ Tallied(urlOf, url, 0, own, ByUrl({})) /\ Tallied(refOf, ref, 0, own1, ByRef({}))
    BY <1>2, <1>3, <1>9 DEF Sums
  <1>11. /\ \A s \in Threads : url[s] = own[s] /\ ref[s] = own1[s]
         /\ own[t] = ByUrl(S) /\ own1[t] = ByRef(S)
    BY <1>9, <1>10, Counts DEF Tallied
  <1>12. \A s \in Threads \ {t} : new[s] = own[s] /\ new1[s] = own1[s]
    BY <1>4, <1>9 DEF ByUrl, ByRef
  <1>13. /\ new[t] = ByUrl(LinesOf(t)') /\ new1[t] = ByRef(LinesOf(t)')
    BY <1>9 DEF ByUrl, ByRef
  <1>14. /\ \A s \in Threads : byte_count'[s] = Volume(LinesOf(s)')
         /\ byte_count'[CountThreads] = Volume({})
         /\ \A s \in Threads : url'[s] = new[s] /\ ref'[s] = new1[s]
    <2>1. CASE b < 1
      <3>1. y \notin GoodLines
        BY <1>8, <2>1, GoodLineIs
      <3>2. LinesOf(t)' = S
        BY <1>7, <1>9, <3>1 DEF LinesOf
      <3>3. \A s \in Threads : new[s] = own[s] /\ new1[s] = own1[s]
        BY <1>11, <1>12, <1>13, <3>2
      <3>4. UNCHANGED <<byte_count, url, ref>>
        BY <1>5, <2>1 DEF data
      <3> QED BY <1>4, <1>9, <1>10, <1>11, <3>2, <3>3, <3>4
    <2>2. CASE b >= 1
      <3>1. y \in GoodLines
        BY <1>5, <1>6, <2>2, GoodLineWhen
      <3>2. LinesOf(t)' = S \cup {y} /\ y \notin S /\ S \in SUBSET GoodLines
        BY <1>7, <1>9, <3>1 DEF LinesOf
      <3>3. /\ Volume(S \cup {y}) = Volume(S) + b
            /\ ByUrl(S \cup {y}) = [ByUrl(S) EXCEPT ![l.url] = @ + b]
            /\ ByRef(S \cup {y}) = [ByRef(S) EXCEPT ![l.ref] = @ + 1]
        BY <1>8, <3>1, <3>2, VolumeOfOneMore, ByOfOneMore
      <3>4. /\ byte_count' = [byte_count EXCEPT ![t] = @ + b]
            /\ url' = [url EXCEPT ![t] = [url[t] EXCEPT ![l.url] = url[t][l.url] + b]]
            /\ ref' = [ref EXCEPT ![t] = [ref[t] EXCEPT ![l.ref] = ref[t][l.ref] + 1]]
        BY <1>5, <2>2
      <3>5. /\ byte_count'[t] = byte_count[t] + b
            /\ \A s \in Slots \ {t} : byte_count'[s] = byte_count[s]
        BY <3>4, Counts DEF TypeOK
      <3>6. /\ url'[t] = [url[t] EXCEPT ![l.url] = url[t][l.url] + b]
            /\ ref'[t] = [ref[t] EXCEPT ![l.ref] = ref[t][l.ref] + 1]
            /\ \A s \in Threads \ {t} : url'[s] = url[s] /\ ref'[s] = ref[s]
        BY <3>4 DEF TypeOK
      <3>7. url'[t] = new[t] /\ ref'[t] = new1[t]
        BY <1>11, <1>13, <3>2, <3>3, <3>6
      <3>8. \A s \in Threads : byte_count'[s] = Volume(LinesOf(s)')
        <4>1. byte_count'[t] = Volume(LinesOf(t)')
          BY <1>9, <1>10, <3>2, <3>3, <3>5
        <4>2. \A s \in Threads \ {t} : byte_count'[s] = Volume(LinesOf(s)')
          BY <1>4, <1>10, <3>5, Counts
        <4> QED BY <4>1, <4>2
      <3> QED BY <1>10, <1>11, <1>12, <3>5, <3>6, <3>7, <3>8, Counts
    <2> QED BY <1>5, <2>1, <2>2
  <1>15. Tallied(urlOf', url', 0, new, ByUrl({})) /\ Tallied(refOf', ref', 0, new1, ByRef({}))
    <2>1. \A z : z \notin 0 .. 0 - 1
      OBVIOUS
    <2> QED BY <1>1, <1>10, <1>14, <2>1 DEF Tallied
  <1>16. /\ Below(MergedSlots)' = {}
         /\ ByUrl(Below(MergedSlots))' = ByUrl({}) /\ ByRef(Below(MergedSlots))' = ByRef({})
    BY <1>2, <1>3 DEF ByUrl, ByRef
  <1> QED BY <1>2, <1>9, <1>14, <1>15, <1>16 DEF Sums

LEMMA SumsStep ==
  TypeOK /\ Phases /\ Dealt /\ Working /\ Sums /\ [Next]_vars => Sums'
  <1> SUFFICES ASSUME TypeOK, Phases, Dealt, Working, Sums, [Next]_vars PROVE Sums'
    OBVIOUS
  <1>1. CASE UNCHANGED vars
    <2>1. CASE Kept
      <3>1. \A t \in Threads : \A x : HasRead(t, x)' <=> HasRead(t, x)
        BY <1>1, ReadStays DEF vars, mainVars, threadVars
      <3>2. /\ UNCHANGED <<byte_count, url, ref, urlOf, refOf>>
            /\ MergedSlots' = MergedSlots
        BY <1>1 DEF vars, mainVars, data, MergedSlots
      <3> QED BY <2>1, <3>1, <3>2, SumsStay
    <2>2. CASE ~ Kept
      BY <1>1, <2>2 DEF Sums, Kept, vars, mainVars
    <2> QED BY <2>1, <2>2
  <1>2. CASE Main \/ Fail
    <2>1. CASE Report \/ FreeThreadData
      BY <2>1 DEF Report, FreeThreadData, Sums, Kept
    <2>2. CASE Union
      BY <2>2, SumsUnion
    <2>3. CASE ~ Report /\ ~ FreeThreadData /\ ~ Union
      <3>1. /\ UNCHANGED <<byte_count, url, ref, urlOf, refOf>> /\ Kept /\ Kept'
            /\ MergedSlots' = MergedSlots
        BY <1>2, <2>3 DEF Main, Fail, Deal, EndOfDirectory, Create, AllCreated, Join,
                          AllJoined, AllMerged, data, Kept, MergedSlots
      <3>2. \A t \in Threads : \A x : HasRead(t, x)' <=> HasRead(t, x)
        BY <1>2, <3>1, ReadOfMain
      <3> QED BY <3>1, <3>2, SumsStay
    <2> QED BY <2>1, <2>2, <2>3
  <1>3. ASSUME NEW t \in Threads, Thread(t)
        PROVE  Sums'
    <2>1. CASE ReadLine(t)
      BY <1>3, <2>1, SumsReadLine
    <2>2. CASE ~ ReadLine(t)
      <3>1. /\ UNCHANGED <<byte_count, url, ref>>
        BY <1>3, <2>2 DEF Thread, StartThread, OpenFile, CannotOpen, EndOfFile, EndThread,
                          data
      <3>2. /\ tpc[t] \notin {"none", "done"} /\ pc' \in {pc, "dead"}
            /\ \A s \in Threads \ {t} : tpc'[s] = tpc[s] /\ todo'[s] = todo[s]
                                        /\ line'[s] = line[s]
            /\ UNCHANGED <<k, urlOf, refOf, file_path>>
        BY <1>3, ThreadEffect
      <3>3. Kept /\ MergedSlots' = MergedSlots
        BY <3>2 DEF Phases, Kept, MergedSlots
      <3>4. \A s \in Threads, x \in GoodLines : HasRead(s, x)' <=> HasRead(s, x)
        <4> TAKE s \in Threads, x \in GoodLines
        <4>1. CASE s = t
          BY <1>3, <2>2, <3>2, <3>3, <4>1, ReadOfOthers
        <4>2. CASE s # t
          BY <3>2, <4>2, ReadStays
        <4> QED BY <4>1, <4>2
      <3> QED BY <3>1, <3>2, <3>3, <3>4, SumsStay
    <2> QED BY <2>1, <2>2
  <1> QED BY <1>1, <1>2, <1>3 DEF Next

-----------------------------------------------------------------------------
(* The report.                                                             *)

LEMMA MergedValue ==
  ASSUME NEW D, NEW of \in [D -> Threads \cup {None}], NEW table, NEW own, NEW sum,
         NEW n, Tallied(of, table, n, own, sum)
  PROVE  \A x \in D : ValueOf(of, table)[x] = sum[x]
  BY DEF Tallied, ValueOf

LEMMA Reported ==
  ASSUME TypeOK, Phases, Dealt, Working, Sums, Report
  PROVE  ReportIsTotal'
  <1>1. pc = "print" /\ Kept /\ MergedSlots = CountThreads
    BY DEF Report, Kept, MergedSlots
  <1>2. Below(CountThreads) = GoodLines
    BY <1>1, AllRead
  <1>3. PICK own, own1 :
          /\ byte_count[CountThreads] = Volume(GoodLines)
          /\ Tallied(urlOf, url, CountThreads, own, ByUrl(GoodLines))
          /\ Tallied(refOf, ref, CountThreads, own1, ByRef(GoodLines))
    BY <1>1, <1>2 DEF Sums
  <1>4. /\ \A u \in Urls : ValueOf(urlOf, url)[u] = ByUrl(GoodLines)[u]
        /\ \A r \in Refs : ValueOf(refOf, ref)[r] = ByRef(GoodLines)[r]
    <2>1. urlOf \in [Urls -> Threads \cup {None}] /\ refOf \in [Refs -> Threads \cup {None}]
      BY DEF TypeOK
    <2>2. \A u \in Urls : ValueOf(urlOf, url)[u] = ByUrl(GoodLines)[u]
      BY <1>3, <2>1, MergedValue
    <2>3. \A r \in Refs : ValueOf(refOf, ref)[r] = ByRef(GoodLines)[r]
      BY <1>3, <2>1, MergedValue
    <2> QED BY <2>2, <2>3
  <1>5. /\ report'.bytes = byte_count[CountThreads]
        /\ report'.urlSum = ValueOf(urlOf, url) /\ report'.refSum = ValueOf(refOf, ref)
    BY DEF Report
  <1>6. /\ \A u \in Urls :
             ByUrl(GoodLines)[u] = Volume({x \in GoodLines : At(x).url = u})
        /\ \A r \in Refs :
             ByRef(GoodLines)[r] = Cardinality({x \in GoodLines : At(x).ref = r})
    BY DEF ByUrl, ByRef
  <1> QED BY <1>3, <1>4, <1>5, <1>6 DEF ReportIsTotal

LEMMA ReportStep ==
  TypeOK /\ Phases /\ Dealt /\ Working /\ Sums /\ ReportIsTotal /\ [Next]_vars => ReportIsTotal'
  <1> SUFFICES ASSUME TypeOK, Phases, Dealt, Working, Sums, ReportIsTotal, [Next]_vars
               PROVE  ReportIsTotal'
    OBVIOUS
  <1>1. CASE Report
    BY <1>1, Reported
  <1>2. ASSUME UNCHANGED report, pc' \in {"free", "done"} => pc \in {"free", "done"}
        PROVE  ReportIsTotal'
    BY <1>2 DEF ReportIsTotal
  <1>3. CASE (Main \/ Fail) /\ ~ Report
    <2>1. UNCHANGED report /\ (pc' \in {"free", "done"} => pc \in {"free", "done"})
      BY <1>3 DEF Main, Fail, Deal, EndOfDirectory, Create, AllCreated, Join, AllJoined,
                  Union, AllMerged, FreeThreadData
    <2> QED BY <1>2, <2>1
  <1>4. ASSUME NEW t \in Threads, Thread(t)
        PROVE  ReportIsTotal'
    <2>1. UNCHANGED report /\ pc' \in {pc, "dead"}
      BY <1>4, ThreadEffect
    <2> QED BY <1>2, <2>1
  <1>5. CASE UNCHANGED vars
    BY <1>2, <1>5 DEF vars, mainVars
  <1> QED BY <1>1, <1>3, <1>4, <1>5 DEF Next

LEMMA Inductive == Spec => []IInv
  <1>1. Init => IInv
    <2>1. Init => ReportIsTotal
      BY DEF Init, ReportIsTotal
    <2> QED BY <2>1, TypeInit, PhasesInit, DealtInit, WorkingInit, SumsInit DEF IInv
  <1>2. IInv /\ [Next]_vars => IInv'
    BY TypeStep, PhasesStep, DealtStep, WorkingStep, SumsStep, ReportStep DEF IInv
  <1> QED BY <1>1, <1>2, PTL DEF Spec

(* Every variable keeps its type: the byte counts and the entries of the   *)
(* tables never fall below zero and no list holds what is not a file.      *)
THEOREM TypeCorrect == Spec => []TypeOK
  <1>1. IInv => TypeOK
    BY DEF IInv
  <1> QED BY <1>1, Inductive, PTL

(* main() adds the tables up, prints them and frees them when no thread    *)
(* can write them any more.                                                *)
THEOREM MergesAfterJoin == Spec => []MergeAfterJoin
  <1>1. IInv => MergeAfterJoin
    BY DEF IInv, Phases, MergeAfterJoin
  <1> QED BY <1>1, Inductive, PTL

(* When the threads are started every file of the directory is in one      *)
(* list, once, and the lists differ by one file at most.                   *)
THEOREM FilesAreDealt == Spec => []FilesDealt
  <1>1. ASSUME IInv
        PROVE  FilesDealt
    <2>1. SUFFICES ASSUME pc \in {"create", "join", "union", "print"}
                   PROVE  /\ \A f \in Files : Cardinality(Places(f)) = 1
                          /\ \A s, t \in Threads :
                               Len(file_path[s]) <= Len(file_path[t]) + 1
      BY DEF FilesDealt
    <2>2. /\ TypeOK /\ Kept /\ unread = {} /\ threadNum \in Nat
          /\ Cardinality(Files) \in Nat
      BY <1>1, <2>1, LogAssumption, FS_CardinalityType DEF IInv, Phases, Kept, TypeOK
    <2>3. /\ \A t \in Threads : Len(file_path[t]) <= threadNum
          /\ \E q \in Nat : Even(q)
          /\ \A f \in Files : \E t \in Threads, j \in Nat : Has(t, j, f)
          /\ \A f \in Files, s, t \in Threads, i, j \in Nat :
               Has(s, i, f) /\ Has(t, j, f) => s = t /\ i = j
      BY <1>1, <2>2 DEF IInv, Dealt
    <2>4. threadNum <= Cardinality(Files)
      BY <2>2 DEF TypeOK
    <2>5. \A t \in Threads : Len(file_path[t]) \in Nat
      BY <2>2, LenProperties DEF TypeOK
    <2>6. ASSUME NEW f \in Files
          PROVE  Cardinality(Places(f)) = 1
      <3>1. PICK t \in Threads, j \in Nat : Has(t, j, f)
        BY <2>3
      <3>2. j \in 1 .. Cardinality(Files)
        BY <2>2, <2>3, <2>4, <2>5, <3>1 DEF Has
      <3>3. <<t, j>> \in Places(f)
        BY <2>5, <3>1, <3>2 DEF Places, Has
      <3>4. ASSUME NEW p \in Places(f)
            PROVE  p = <<t, j>>
        <4>1. /\ p = <<p[1], p[2]>> /\ p[1] \in Threads /\ p[2] \in 1 .. Cardinality(Files)
              /\ p[2] <= Len(file_path[p[1]]) /\ file_path[p[1]][p[2]] = f
          BY DEF Places
        <4>2. Has(p[1], p[2], f) /\ p[2] \in Nat
          BY <2>2, <2>5, <4>1 DEF Has
        <4> QED BY <2>3, <3>1, <4>1, <4>2
      <3>5. Places(f) = {<<t, j>>}
        BY <3>3, <3>4
      <3> QED BY <3>5, FS_Singleton
    <2>7. \A s, t \in Threads : Len(file_path[s]) <= Len(file_path[t]) + 1
      <3>1. PICK q \in Nat : Even(q)
        BY <2>3
      <3>2. \A t \in Threads : Len(file_path[t]) \in {q, q + 1}
        BY <3>1 DEF Even
      <3> QED BY <3>2
    <2> QED BY <2>6, <2>7
  <1> QED BY <1>1, Inductive, PTL

(* What is printed is what one pass over the readable files would count:   *)
(* for any number of threads, any order of the directory and any schedule, *)
(* and though the tables of the total share cells with those of the        *)
(* threads.                                                                *)
THEOREM ReportsTotal == Spec => []ReportIsTotal
  <1>1. IInv => ReportIsTotal
    BY DEF IInv
  <1> QED BY <1>1, Inductive, PTL

-----------------------------------------------------------------------------
(* The order of the report, when no volume passes the greatest int.        *)

LEMMA ToIntFits ==
  ASSUME NEW x \in Int, -(IntMod \div 2) < x, x < IntMod \div 2
  PROVE  ToInt(x) = x
  <1>1. PICK M, h : M = IntMod /\ h = IntMod \div 2
    OBVIOUS
  <1>2. M \in Nat \ {0} /\ h \in Nat /\ M = 2 * h
    <2>1. M \in Nat \ {0} /\ M % 2 = 0 /\ h = M \div 2
      BY <1>1, LogAssumption
    <2> QED BY <2>1
  <1>3. x % M = IF x < 0 THEN x + M ELSE x
    <2>1. CASE x < 0
      <3>1. -M <= x
        BY <1>1, <1>2
      <3> QED BY <1>2, <2>1, <3>1
    <2>2. CASE x >= 0
      <3>1. x < M
        BY <1>1, <1>2, <2>2
      <3> QED BY <1>2, <2>2, <3>1
    <2> QED BY <2>1, <2>2
  <1>4. ToInt(x) = LET r == x % M IN IF r >= h THEN r - M ELSE r
    BY <1>1 DEF ToInt
  <1>5. x < h /\ -h < x
    BY <1>1
  <1>6. CASE x < 0
    BY <1>2, <1>3, <1>4, <1>5, <1>6
  <1>7. CASE x >= 0
    BY <1>2, <1>3, <1>4, <1>5, <1>7
  <1> QED BY <1>6, <1>7

(* Then compare() tells which of two values is the greater.                *)
Fits(value, S) == \A x \in S : value[x] \in Nat /\ value[x] < IntMod \div 2

LEMMA CompareTells ==
  ASSUME NEW a \in Nat, NEW b \in Nat, a < IntMod \div 2, b < IntMod \div 2
  PROVE  Compare(a, b) <= 0 <=> a >= b
  <1>1. PICK h : h = IntMod \div 2
    OBVIOUS
  <1>2. h \in Int
    BY <1>1, LogAssumption
  <1>3. b - a \in Int /\ -h < b - a /\ b - a < h
    BY <1>1, <1>2
  <1>4. ToInt(b - a) = b - a
    BY <1>1, <1>3, ToIntFits
  <1> QED BY <1>4 DEF Compare

LEMMA LeastValue ==
  ASSUME NEW S, S # {}, NEW value, Fits(value, S)
  PROVE  \E y \in S : \A x \in S : value[y] <= value[x]
  <1> DEFINE A == {value[x] : x \in S}
  <1>1. A \in SUBSET Nat /\ A # {}
    BY DEF Fits
  <1>2. PICK m \in A : \A l \in A : m <= l
    <2> HIDE DEF A
    <2> QED BY <1>1, LeastNatural
  <1> QED BY <1>2

(* An order that qsort() may leave exists.                                 *)
LEMMA OrderExists ==
  ASSUME NEW S, IsFiniteSet(S), NEW value, Fits(value, S)
  PROVE  \E q \in SetToSeqs(S) : InOrder(q, value)
  <1> DEFINE D == {T \in SUBSET S : ~ \E q \in SetToSeqs(T) : InOrder(q, value)}
             A == {Cardinality(T) : T \in D}
  <1>1. SUFFICES ASSUME D # {} PROVE FALSE
    OBVIOUS
  <1>2. \A T \in SUBSET S : IsFiniteSet(T) /\ Cardinality(T) \in Nat
    BY FS_Subset, FS_CardinalityType
  <1>3. PICK m \in A : \A l \in A : m <= l
    <2>1. A \in SUBSET Nat /\ A # {}
      BY <1>1, <1>2
    <2> HIDE DEF A
    <2> QED BY <2>1, LeastNatural
  <1>4. PICK T \in D : m = Cardinality(T)
    OBVIOUS
  <1>5. T \in SUBSET S
    OBVIOUS
  <1>6. T # {}
    <2>1. Cardinality({}) = 0
      BY FS_EmptySet
    <2>2. <<>> \in SetToSeqs({})
      BY <2>1 DEF SetToSeqs
    <2>3. InOrder(<<>>, value)
      BY EmptySeq DEF InOrder
    <2>4. {} \notin D
      BY <2>2, <2>3
    <2> HIDE DEF D
    <2> QED BY <1>4, <2>4
  <1>7. PICK y \in T : \A x \in T : value[y] <= value[x]
    BY <1>5, <1>6, LeastValue DEF Fits
  <1>8. PICK R, n : R = T \ {y} /\ n = Cardinality(R)
    OBVIOUS
  <1>9. /\ n \in Nat /\ Cardinality(T) = n + 1 /\ R \in SUBSET S /\ IsFiniteSet(R)
        /\ R \notin D
    <2>1. R \in SUBSET S
      BY <1>5, <1>8
    <2>2. n \in Nat /\ IsFiniteSet(R) /\ Cardinality(T) = n + 1
      <3>1. Cardinality(R) = Cardinality(T) - 1
        BY <1>2, <1>5, <1>7, <1>8, FS_RemoveElement
      <3> QED BY <1>2, <1>5, <1>8, <2>1, <3>1
    <2>3. ~ (m <= Cardinality(R))
      BY <1>4, <1>8, <2>2
    <2> HIDE DEF D
    <2> QED BY <1>3, <2>1, <2>2, <2>3
  <1>10. PICK q \in SetToSeqs(R) : InOrder(q, value)
    BY <1>9
  <1>11. /\ q \in [1 .. n -> R] /\ \A i, j \in 1 .. n : i # j => q[i] # q[j]
    BY <1>8 DEF SetToSeqs
  <1>12. q \in Seq(R) /\ Len(q) = n
    BY <1>8, <1>9, PermutationIs
  <1> DEFINE r == [i \in 1 .. n + 1 |-> IF i = n + 1 THEN y ELSE q[i]]
  <1>13. ASSUME NEW i \in 1 .. n + 1
         PROVE  /\ r[i] \in T
                /\ i = n + 1 => r[i] = y
                /\ i # n + 1 => i \in 1 .. n /\ r[i] = q[i] /\ r[i] \in R
    <2>1. CASE i = n + 1
      BY <1>7, <2>1
    <2>2. CASE i # n + 1
      <3>1. i \in 1 .. n
        BY <1>9, <2>2
      <3>2. r[i] = q[i]
        BY <2>2
      <3>3. q[i] \in R
        BY <1>11, <3>1
      <3> QED BY <1>8, <2>2, <3>1, <3>2, <3>3
    <2> QED BY <2>1, <2>2
  <1>14. r \in SetToSeqs(T)
    <2>1. r \in [1 .. n + 1 -> T]
      BY <1>13
    <2>2. \A i, j \in 1 .. n + 1 : i # j => r[i] # r[j]
      <3> HIDE DEF r
      <3>1. y \notin R
        BY <1>8
      <3> TAKE i, j \in 1 .. n + 1
      <3>2. CASE i # n + 1 /\ j # n + 1
        <4>1. i \in 1 .. n /\ j \in 1 .. n /\ r[i] = q[i] /\ r[j] = q[j]
          BY <1>13, <3>2
        <4> QED BY <1>11, <4>1
      <3>3. CASE i = n + 1
        <4>1. r[i] = y /\ (j # n + 1 => r[j] \in R)
          BY <1>13, <3>3
        <4> QED BY <3>1, <3>3, <4>1
      <3>4. CASE j = n + 1
        <4>1. r[j] = y /\ (i # n + 1 => r[i] \in R)
          BY <1>13, <3>4
        <4> QED BY <3>1, <3>4, <4>1
      <3> QED BY <3>2, <3>3, <3>4
    <2> HIDE DEF r
    <2> QED BY <1>9, <2>1, <2>2 DEF SetToSeqs
  <1>15. Len(r) = n + 1
    <2> HIDE DEF r
    <2>1. IsFiniteSet(T) /\ T \in SUBSET T
      BY <1>2, <1>5
    <2> QED BY <1>9, <1>14, <2>1, PermutationIs
  <1>16. InOrder(r, value)
    <2> HIDE DEF r
    <2>1. ASSUME NEW j \in 1 .. n
          PROVE  Compare(value[r[j]], value[r[j + 1]]) <= 0
      <3>1. j \in 1 .. n + 1 /\ j + 1 \in 1 .. n + 1 /\ j # n + 1
        BY <1>9
      <3>2. r[j] = q[j] /\ r[j] \in T /\ r[j + 1] \in T
        BY <1>13, <3>1
      <3>3. CASE j = n
        <4>1. r[j + 1] = y
          BY <1>13, <3>1, <3>3
        <4>2. value[r[j]] >= value[r[j + 1]]
          BY <1>5, <1>7, <3>2, <4>1 DEF Fits
        <4> QED BY <1>5, <3>2, <4>2, CompareTells DEF Fits
      <3>4. CASE j # n
        <4>1. j \in 1 .. n - 1 /\ j + 1 # n + 1
          BY <1>9, <3>4
        <4>2. r[j + 1] = q[j + 1]
          BY <1>13, <3>1, <4>1
        <4> QED BY <1>10, <1>12, <3>2, <4>1, <4>2 DEF InOrder
      <3> QED BY <3>3, <3>4
    <2>2. Len(r) - 1 = n
      BY <1>9, <1>15
    <2> QED BY <2>1, <2>2 DEF InOrder
  <1> HIDE DEF r
  <1> QED BY <1>4, <1>14, <1>16

(* Neighbours that are in order put the whole sequence in order.           *)
LEMMA OrderIsTotal ==
  ASSUME NEW S, IsFiniteSet(S), NEW value, Fits(value, S),
         NEW q \in SetToSeqs(S), InOrder(q, value)
  PROVE  \A i, j \in 1 .. Len(q) : i < j => value[q[i]] >= value[q[j]]
  <1> DEFINE A == {j \in 1 .. Len(q) : \E i \in 1 .. Len(q) :
                     i < j /\ ~ (value[q[i]] >= value[q[j]])}
  <1>1. SUFFICES ASSUME A # {} PROVE FALSE
    OBVIOUS
  <1>2. /\ Len(q) \in Nat
        /\ \A i \in 1 .. Len(q) : q[i] \in S /\ value[q[i]] \in Nat
                                  /\ value[q[i]] < IntMod \div 2
    <2>1. q \in Seq(S) /\ Len(q) \in Nat
      BY PermutationIs
    <2>2. \A i \in 1 .. Len(q) : q[i] \in S
      BY <2>1, ElementOfSeq
    <2> QED BY <2>1, <2>2 DEF Fits
  <1>3. PICK m \in A : \A l \in A : m <= l
    <2>1. A \in SUBSET Nat
      BY <1>2
    <2> HIDE DEF A
    <2> QED BY <1>1, <2>1, LeastNatural
  <1>4. PICK i \in 1 .. Len(q) : i < m /\ ~ (value[q[i]] >= value[q[m]])
    OBVIOUS
  <1>5. m \in 1 .. Len(q) /\ m - 1 \in 1 .. Len(q) /\ m - 1 \in 1 .. Len(q) - 1
    BY <1>2, <1>4
  <1>6. value[q[m - 1]] >= value[q[m]]
    <2>1. Compare(value[q[m - 1]], value[q[(m - 1) + 1]]) <= 0
      BY <1>5 DEF InOrder
    <2>2. (m - 1) + 1 = m
      BY <1>2, <1>5
    <2> QED BY <1>2, <1>5, <2>1, <2>2, CompareTells
  <1>7. value[q[i]] >= value[q[m - 1]]
    <2>1. CASE i = m - 1
      BY <1>2, <1>5, <2>1
    <2>2. CASE i # m - 1
      <3>1. i < m - 1
        BY <1>2, <1>4, <1>5, <2>2
      <3>2. m - 1 \notin A
        <4>1. ~ (m <= m - 1)
          BY <1>2, <1>5
        <4> HIDE DEF A
        <4> QED BY <1>3, <4>1
      <3> QED BY <1>4, <1>5, <3>1, <3>2
    <2> QED BY <2>1, <2>2
  <1> QED BY <1>2, <1>4, <1>5, <1>6, <1>7

(* Where compare() is sound: two volumes below half of the int's range      *)
(* differ by an int of the right sign.                                      *)
VolumesFit == \A u \in Urls : ByUrl(GoodLines)[u] < IntMod \div 2

LEMMA TopReported ==
  ASSUME VolumesFit, IInv, Report, NEW s, NEW v, s = report'.urls, v = report'.urlSum
  PROVE  /\ \A i, j \in DOMAIN s : i < j => v[s[i]] >= v[s[j]]
         /\ \A i \in DOMAIN s, u \in Urls \ ToSet(s) : v[s[i]] >= v[u]
  <1>1. PICK keys : keys = KeysOf(urlOf)
    OBVIOUS
  <1>2. v = ValueOf(urlOf, url) /\ s \in Tops(keys, v)
    BY <1>1 DEF Report
  <1>3. v \in [Urls -> Nat] /\ keys \in SUBSET Urls
    <2>1. urlOf \in [Urls -> Threads \cup {None}] /\ url \in [Threads -> [Urls -> Nat]]
      BY DEF IInv, TypeOK
    <2> QED BY <1>1, <1>2, <2>1, ValueTyped
  <1>4. \A u \in Urls : v[u] = ByUrl(GoodLines)[u]
    <2>1. ReportIsTotal' /\ pc' = "free"
      BY Reported DEF IInv, Report
    <2> QED BY <2>1 DEF ReportIsTotal, ByUrl
  <1>5. Fits(v, Urls) /\ Fits(v, keys)
    BY <1>3, <1>4 DEF VolumesFit, Fits
  <1>6. IsFiniteSet(Urls) /\ IsFiniteSet(keys)
    BY <1>3, LogAssumption, FS_Subset
  <1>7. PICK q : /\ q \in Sorted(keys, v) /\ q \in SetToSeqs(keys) /\ Len(s) <= Len(q)
                 /\ \A i \in 1 .. Len(s) : s[i] = q[i]
    BY <1>2, <1>3, <1>6, TopIs
  <1>8. InOrder(q, v)
    <2>1. \E r \in SetToSeqs(keys) : InOrder(r, v)
      BY <1>5, <1>6, OrderExists
    <2>2. {r \in SetToSeqs(keys) : InOrder(r, v)} # {}
      BY <2>1
    <2>3. q \in {r \in SetToSeqs(keys) : InOrder(r, v)}
      BY <1>7, <2>2 DEF Sorted
    <2> QED BY <2>3
  <1>9. \A i, j \in 1 .. Len(q) : i < j => v[q[i]] >= v[q[j]]
    BY <1>5, <1>6, <1>7, <1>8, OrderIsTotal
  <1>10. /\ s \in Seq(Urls) /\ Len(q) \in Nat /\ q \in Seq(keys)
         /\ \A x \in keys : \E i \in 1 .. Len(q) : q[i] = x
    BY <1>2, <1>3, <1>6, <1>7, TopIs, PermutationIs
  <1>11. Len(s) \in Nat /\ DOMAIN s = 1 .. Len(s) /\ \A i \in 1 .. Len(s) : i \in 1 .. Len(q)
    BY <1>7, <1>10, LenProperties
  <1>12. \A i, j \in DOMAIN s : i < j => v[s[i]] >= v[s[j]]
    BY <1>7, <1>9, <1>11
  <1>13. ASSUME NEW i \in DOMAIN s, NEW u \in Urls \ ToSet(s)
         PROVE  v[s[i]] >= v[u]
    <2>1. i \in 1 .. Len(s) /\ i \in 1 .. Len(q) /\ s[i] = q[i] /\ s[i] \in Urls
      BY <1>7, <1>10, <1>11, ElementOfSeq
    <2>2. v[s[i]] \in Nat
      BY <1>3, <2>1
    <2>3. CASE u \in keys
      <3>1. PICK j \in 1 .. Len(q) : q[j] = u
        BY <1>10, <2>3
      <3>2. j \notin 1 .. Len(s)
        BY <1>7, <1>11, <3>1 DEF ToSet
      <3>3. i < j
        BY <1>10, <1>11, <2>1, <3>2
      <3> QED BY <1>9, <2>1, <3>1, <3>3
    <2>4. CASE u \notin keys
      <3>1. urlOf[u] = None
        BY <1>1, <1>3, <2>4 DEF KeysOf, IInv, TypeOK
      <3>2. v[u] = 0
        BY <1>2, <3>1 DEF ValueOf, IInv, TypeOK
      <3> QED BY <2>2, <3>2
    <2> QED BY <2>3, <2>4
  <1> QED BY <1>12, <1>13

(* The URLs are printed from the heaviest down and none that is left out   *)
(* is heavier, in every directory where no URL has more bytes than an int  *)
(* can hold; where one has, the run log_overflow shows what happens.       *)
THEOREM TopIsInOrder == ASSUME VolumesFit PROVE Spec => []TopIsHeaviest
  <1>1. Init => TopIsHeaviest
    BY DEF Init, TopIsHeaviest
  <1>2. ASSUME IInv, TopIsHeaviest, [Next]_vars
        PROVE  TopIsHeaviest'
    <2>1. CASE Report
      <3>1. PICK s, v : s = report'.urls /\ v = report'.urlSum
        OBVIOUS
      <3>2. /\ \A i, j \in DOMAIN s : i < j => v[s[i]] >= v[s[j]]
            /\ \A i \in DOMAIN s, u \in Urls \ ToSet(s) : v[s[i]] >= v[u]
        BY <1>2, <2>1, <3>1, TopReported
      <3> QED BY <3>1, <3>2 DEF TopIsHeaviest
    <2>2. ASSUME UNCHANGED report, pc' \in {"free", "done"} => pc \in {"free", "done"}
          PROVE  TopIsHeaviest'
      BY <1>2, <2>2 DEF TopIsHeaviest
    <2>3. CASE (Main \/ Fail) /\ ~ Report
      <3>1. UNCHANGED report /\ (pc' \in {"free", "done"} => pc \in {"free", "done"})
        BY <2>3 DEF Main, Fail, Deal, EndOfDirectory, Create, AllCreated, Join, AllJoined,
                    Union, AllMerged, FreeThreadData
      <3> QED BY <2>2, <3>1
    <2>4. ASSUME NEW t \in Threads, Thread(t)
          PROVE  TopIsHeaviest'
      <3>1. UNCHANGED report /\ pc' \in {pc, "dead"}
        BY <1>2, <2>4, ThreadEffect DEF IInv
      <3> QED BY <2>2, <3>1
    <2>5. CASE UNCHANGED vars
      BY <2>2, <2>5 DEF vars, mainVars
    <2> QED BY <1>2, <2>1, <2>3, <2>4, <2>5 DEF Next
  <1> QED BY <1>1, <1>2, Inductive, PTL DEF Spec
=============================================================================
