--------------------------- MODULE HashMapProofs ---------------------------
(***************************************************************************)
(* Proofs about HashMap, for every set of words, hash function and initial *)
(* size.                                                                   *)
(***************************************************************************)
EXTENDS HashMap, FiniteSetTheorems, TLAPS

(* Probing: the home is a slot, and no two slots are as far from it.       *)
LEMMA HomeIsSlot ==
  ASSUME NEW w \in Words, NEW k \in Nat, k > 1
  PROVE  Home(w, k) \in 0 .. k - 1
  <1>1. Hash[w] \in Nat
    BY HashMapAssumption DEF HashMapAssumption
  <1> QED BY <1>1 DEF Home

LEMMA DistInjective ==
  ASSUME NEW w \in Words, NEW k \in Nat, k > 1,
         NEW j \in 0 .. k - 1, NEW l \in 0 .. k - 1
  PROVE  /\ Dist(w, j, k) \in 0 .. k - 1
         /\ Dist(w, j, k) = Dist(w, l, k) => j = l
  <1>1. Home(w, k) \in 0 .. k - 1
    BY HomeIsSlot
  <1> QED BY <1>1 DEF Dist

(* A cell put where the search for its word found the first free slot      *)
(* breaks no probe.                                                        *)
LEMMA PutUnbroken ==
  ASSUME NEW k \in Nat, k > 1, NEW t \in Tables(k), Unbroken(t, k),
         NEW c \in Cells, NEW j \in Free(t),
         \A l \in Free(t) : Dist(c.key, j, k) <= Dist(c.key, l, k)
  PROVE  Unbroken([t EXCEPT ![j] = c], k)
  <1> DEFINE u == [t EXCEPT ![j] = c]
  <1>1. u \in Tables(k) /\ DOMAIN t = 0 .. k - 1 /\ DOMAIN u = 0 .. k - 1
    BY DEF Tables
  <1>2. c # NULL /\ j \in 0 .. k - 1 /\ c.key \in Words
    BY <1>1, HashMapAssumption DEF HashMapAssumption, Cells, Free
  <1>3. ASSUME NEW m \in Used(u), NEW l \in 0 .. k - 1,
               Dist(u[m].key, l, k) < Dist(u[m].key, m, k)
        PROVE  u[l] # NULL
    <2>1. CASE m = j
      <3>1. u[m] = c
        BY <1>1, <1>2, <2>1 DEF Tables
      <3>2. l \notin Free(t)
        BY <1>2, <1>3, <2>1, <3>1, DistInjective
      <3> QED BY <1>1, <1>2, <3>2 DEF Free, Tables
    <2>2. CASE m # j
      <3>1. m \in Used(t) /\ u[m] = t[m]
        BY <1>1, <2>2 DEF Used, Tables
      <3>2. t[l] # NULL
        BY <1>1, <1>3, <3>1 DEF Unbroken
      <3> QED BY <1>1, <1>2, <3>2 DEF Tables
    <2> QED BY <2>1, <2>2
  <1> QED BY <1>1, <1>3 DEF Unbroken

(* ... and is the only one of its word if the table had none.              *)
LEMMA PutDistinct ==
  ASSUME NEW k \in Nat, NEW t \in Tables(k), Distinct(t),
         NEW c \in Cells, NEW j \in Free(t),
         \A l \in Used(t) : t[l].key # c.key
  PROVE  Distinct([t EXCEPT ![j] = c])
  BY DEF Tables, Distinct, Free, Used

(* When the search for a word stops at a free slot, no cell has the word:  *)
(* its probe would pass that slot.                                         *)
LEMMA FreeMeansNew ==
  ASSUME NEW k \in Nat, k > 1, NEW t \in Tables(k), Unbroken(t, k),
         NEW w \in Words, NEW j, StopsAt(Fits(t, w), w, j, k), j \in Free(t),
         NEW l \in Used(t)
  PROVE  t[l].key # w
  <1>1. DOMAIN t = 0 .. k - 1 /\ j \in 0 .. k - 1 /\ l \in 0 .. k - 1
    BY DEF Tables, Free, Used
  <1>2. t[j] = NULL /\ t[l] # NULL /\ j # l
    BY DEF Free, Used
  <1>3. SUFFICES ASSUME t[l].key = w PROVE FALSE
    OBVIOUS
  <1>4. l \in Fits(t, w) \cap Visited(w, k)
    BY <1>1, <1>3 DEF Fits, Visited
  <1>5. Dist(w, j, k) < Dist(w, l, k)
    BY <1>1, <1>2, <1>4, DistInjective DEF StopsAt
  <1> QED BY <1>1, <1>2, <1>3, <1>5 DEF Unbroken

(* A search that has a slot to stop at does stop.                          *)
LEMMA LeastNatural ==
  ASSUME NEW A \in SUBSET Nat, A # {}
  PROVE  \E m \in A : \A l \in A : m <= l
  <1> DEFINE R == OpToRel(<, Nat)
  <1>1. IsWellFoundedOn(R, Nat)
    BY NatLessThanWellFounded, Zenon
  <1> HIDE DEF R
  <1>2. PICK m \in A : \A l \in A : ~ (<<l, m>> \in R)
    BY <1>1, WFMin
  <1>3. \A l \in A : ~ (l < m)
    BY <1>2 DEF R, OpToRel
  <1> QED BY <1>3

LEMMA SearchStops ==
  ASSUME NEW w \in Words, NEW k \in Nat, k > 1, NEW S \in SUBSET (0 .. k - 1), S # {}
  PROVE  \E j \in S : StopsAt(S, w, j, k)
  <1> DEFINE A == {Dist(w, j, k) : j \in S}
  <1>1. \A j \in S : Dist(w, j, k) \in Nat
    BY DistInjective
  <1>2. A \in SUBSET Nat /\ A # {}
    BY <1>1
  <1>3. PICK j \in S : \A d \in A : Dist(w, j, k) <= d
    BY <1>2, LeastNatural
  <1> QED BY <1>3 DEF StopsAt, Visited

-----------------------------------------------------------------------------
(* Type correctness.                                                       *)

LEMMA TypeInit == Init => TypeOK
  BY HashMapAssumption DEF Init, TypeOK, HashMapAssumption, Tables, Blank

LEMMA TypeStep == TypeOK /\ [Next]_vars => TypeOK'
  <1> SUFFICES ASSUME TypeOK, [Next]_vars PROVE TypeOK'
    OBVIOUS
  <1>1. CASE UNCHANGED vars
    BY <1>1 DEF TypeOK, vars
  <1>2. ASSUME NEW w \in Words, Call(w) PROVE TypeOK'
    BY <1>2 DEF TypeOK, Call
  <1>3. CASE InsertKey
    <2>1. PICK j \in DOMAIN table : table' = [table EXCEPT ![j] = Stored(j)]
      BY <1>3 DEF InsertKey
    <2>2. Stored(j) \in Cells
      BY <1>3, <2>1 DEF InsertKey, Stored, TypeOK, Tables, Cells
    <2>3. table' \in Tables(size)
      BY <1>3, <2>1, <2>2 DEF InsertKey, TypeOK, Tables
    <2> QED BY <1>3, <2>3 DEF TypeOK, InsertKey
  <1>4. CASE RebaseKey
    BY <1>4 DEF TypeOK, RebaseKey, Doubled, Blank, Tables
  <1>5. CASE Rehash
    <2>1. table[i] \in Cells
      BY <1>5 DEF Rehash, TypeOK, Tables
    <2>2. new' \in Tables(size)
      BY <1>5, <2>1 DEF Rehash, TypeOK, Tables
    <2> QED BY <1>5, <2>2 DEF TypeOK, Rehash
  <1>6. CASE Swap
    BY <1>6 DEF TypeOK, Swap, Retried
  <1> QED BY <1>1, <1>2, <1>3, <1>4, <1>5, <1>6 DEF Next

(* TypeOK holds of every instance.                                         *)
THEOREM TypeCorrect == Spec => []TypeOK
  BY TypeInit, TypeStep, PTL DEF Spec

-----------------------------------------------------------------------------
(* Counting: more slots than there are values for them.                    *)
LEMMA TwoSlotsAlike ==
  ASSUME NEW a \in Nat, NEW b \in Nat, a < b, NEW f \in [0 .. b - 1 -> 0 .. a - 1]
  PROVE  \E j, l \in 0 .. b - 1 : j # l /\ f[j] = f[l]
  <1> DEFINE S == 0 .. b - 1
             T == 0 .. a - 1
  <1>1. 0 \in Int /\ a - 1 \in Int /\ b - 1 \in Int
    OBVIOUS
  <1>2. IsFiniteSet(T) /\ Cardinality(T) = IF 0 > a - 1 THEN 0 ELSE a - 1 - 0 + 1
    BY <1>1, FS_Interval
  <1>3. IsFiniteSet(S) /\ Cardinality(S) = IF 0 > b - 1 THEN 0 ELSE b - 1 - 0 + 1
    BY <1>1, FS_Interval
  <1>4. Cardinality(T) < Cardinality(S)
    BY <1>2, <1>3
  <1>5. f \in [S -> T]
    OBVIOUS
  <1> HIDE DEF S, T
  <1>6. \E j, l \in S : j # l /\ f[j] = f[l]
    BY <1>2, <1>3, <1>4, <1>5, FS_PigeonHole
  <1> QED BY <1>6 DEF S

(* While the table is doubled the new one has a slot left: it holds only   *)
(* cells of the i that have been placed, each once, and has 2 * n slots.   *)
LEMMA RoomInNew ==
  ASSUME TypeOK, OneCellPerWord, NoCellLost, pc = "rehash", i < n
  PROVE  Free(new) # {}
  <1> SUFFICES ASSUME Free(new) = {} PROVE FALSE
    OBVIOUS
  <1>1. /\ size \in Nat /\ n \in Nat /\ i \in Nat /\ size = 2 * n /\ n > 1
        /\ new \in Tables(size) /\ Distinct(new)
        /\ {new[j] : j \in Used(new)} = {table[j] : j \in 0 .. i - 1}
    BY DEF TypeOK, OneCellPerWord, NoCellLost
  <1>2. Used(new) = 0 .. size - 1
    BY <1>1 DEF Used, Free, Tables
  <1> DEFINE From(j) == CHOOSE l \in 0 .. i - 1 : new[j] = table[l]
             f == [j \in 0 .. size - 1 |-> From(j)]
  <1>3. \A j \in 0 .. size - 1 : From(j) \in 0 .. i - 1 /\ new[j] = table[From(j)]
    BY <1>1, <1>2
  <1> HIDE DEF From
  <1>4. f \in [0 .. size - 1 -> 0 .. i - 1]
    BY <1>3
  <1>5. i < size
    BY <1>1
  <1> HIDE DEF f
  <1>6. PICK j, l \in 0 .. size - 1 : j # l /\ f[j] = f[l]
    BY <1>1, <1>4, <1>5, TwoSlotsAlike
  <1>7. new[j] = new[l]
    BY <1>3, <1>6 DEF f
  <1> QED BY <1>1, <1>2, <1>6, <1>7 DEF Distinct

IInv == TypeOK /\ OneCellPerWord /\ ProbesUnbroken /\ NoCellLost

LEMMA IInvInit == Init => IInv
  BY TypeInit
  DEF Init, IInv, OneCellPerWord, ProbesUnbroken, NoCellLost, Distinct, Unbroken, Used, Blank

LEMMA InsertStep ==
  ASSUME IInv, InsertKey
  PROVE  OneCellPerWord' /\ ProbesUnbroken'
  <1>1. /\ size \in Nat /\ size > 1 /\ str \in Words /\ table \in Tables(size)
        /\ Distinct(table) /\ Unbroken(table, size)
        /\ DOMAIN table = 0 .. size - 1
    BY DEF IInv, TypeOK, InsertKey, OneCellPerWord, ProbesUnbroken, TableSize, Tables
  <1>2. PICK j \in DOMAIN table : /\ StopsAt(Fits(table, str), str, j, size)
                                  /\ table' = [table EXCEPT ![j] = Stored(j)]
    BY DEF InsertKey
  <1>3. Stored(j) \in Cells /\ Stored(j).key = str
    BY <1>1, <1>2 DEF Stored, Tables, Cells
  <1>4. CASE j \in Free(table)
    <2>1. \A l \in Used(table) : table[l].key # str
      BY <1>1, <1>2, <1>4, FreeMeansNew
    <2>2. \A l \in Free(table) : Dist(str, j, size) <= Dist(str, l, size)
      BY <1>1, <1>2 DEF StopsAt, Fits, Visited, Free
    <2>3. Distinct(table') /\ Unbroken(table', size)
      BY <1>1, <1>2, <1>3, <1>4, <2>1, <2>2, PutDistinct, PutUnbroken
    <2> QED BY <2>3 DEF InsertKey, OneCellPerWord, ProbesUnbroken, TableSize
  <1>5. CASE j \notin Free(table)
    <2>1. j \in Used(table) /\ table[j].key = str
      BY <1>2, <1>5 DEF StopsAt, Fits
    <2>2. /\ DOMAIN table' = DOMAIN table
          /\ Used(table') = Used(table)
          /\ \A l \in Used(table) : table'[l].key = table[l].key
      BY <1>1, <1>2, <1>3, <2>1, HashMapAssumption DEF HashMapAssumption, Cells, Used, Tables
    <2>3. Distinct(table')
      BY <1>1, <2>2 DEF Distinct
    <2>4. Unbroken(table', size)
      BY <1>1, <2>2 DEF Unbroken, Used
    <2> QED BY <2>3, <2>4 DEF InsertKey, OneCellPerWord, ProbesUnbroken, TableSize
  <1> QED BY <1>4, <1>5

LEMMA RehashStep ==
  ASSUME IInv, Rehash
  PROVE  OneCellPerWord' /\ ProbesUnbroken' /\ NoCellLost'
  <1>1. /\ size \in Nat /\ size > 1 /\ new \in Tables(size) /\ table \in Tables(n)
        /\ n \in Nat /\ i \in 0 .. n - 1 /\ table[i] \in Cells
        /\ Distinct(table) /\ Unbroken(table, n) /\ Distinct(new) /\ Unbroken(new, size)
    BY DEF IInv, TypeOK, Rehash, OneCellPerWord, ProbesUnbroken, TableSize, Tables
  <1>2. Free(new) \in SUBSET (0 .. size - 1) /\ table[i].key \in Words
    BY <1>1 DEF Free, Tables, Cells
  <1>3. \E j \in DOMAIN new : Placed(j)
    BY <1>1, <1>2, RoomInNew, SearchStops DEF IInv, Rehash, Placed, Free
  <1>4. PICK j \in DOMAIN new : Placed(j) /\ new' = [new EXCEPT ![j] = table[i]]
    BY <1>3 DEF Rehash
  <1>5. j \in Free(new) /\ DOMAIN new = 0 .. size - 1
    BY <1>1, <1>4 DEF Placed, StopsAt, Tables
  <1>6. \A l \in Free(new) : Dist(table[i].key, j, size) <= Dist(table[i].key, l, size)
    BY <1>4, <1>5 DEF Placed, StopsAt, Visited, Free
  <1>7. \A l \in Used(new) : new[l].key # table[i].key
    <2> SUFFICES ASSUME NEW l \in Used(new) PROVE new[l].key # table[i].key
      OBVIOUS
    <2>1. PICK m \in 0 .. i - 1 : new[l] = table[m]
      BY DEF IInv, NoCellLost, Rehash
    <2>2. m \in Used(table) /\ i \in Used(table) /\ m # i
      BY <1>1, <2>1 DEF IInv, NoCellLost, Rehash, Used, Tables
    <2> QED BY <1>1, <2>1, <2>2 DEF Distinct
  <1>8. Distinct(new') /\ Unbroken(new', size)
    BY <1>1, <1>4, <1>5, <1>6, <1>7, PutDistinct, PutUnbroken
  <1>9. {new'[m] : m \in Used(new')} = {table[m] : m \in 0 .. i}
    <2>1. Used(new') = Used(new) \cup {j}
      BY <1>1, <1>4, <1>5 DEF Used, Free, Tables, Rehash
    <2>2. new'[j] = table[i] /\ \A m \in Used(new) : new'[m] = new[m]
      BY <1>1, <1>4, <1>5 DEF Used, Free, Tables
    <2>3. {new'[m] : m \in Used(new')} = {new[m] : m \in Used(new)} \cup {table[i]}
      BY <2>1, <2>2
    <2>4. 0 .. i = (0 .. i - 1) \cup {i}
      BY <1>1
    <2>5. {new[m] : m \in Used(new)} = {table[m] : m \in 0 .. i - 1}
      BY DEF IInv, NoCellLost, Rehash
    <2> QED BY <2>3, <2>4, <2>5
  <1>10. i' - 1 = i
    BY <1>1 DEF Rehash
  <1> QED BY <1>1, <1>8, <1>9, <1>10
          DEF IInv, Rehash, OneCellPerWord, ProbesUnbroken, NoCellLost, TableSize

LEMMA IInvStep == IInv /\ [Next]_vars => IInv'
  <1> SUFFICES ASSUME IInv, [Next]_vars PROVE IInv'
    OBVIOUS
  <1>1. TypeOK'
    BY TypeStep DEF IInv
  <1> USE DEF IInv, OneCellPerWord, ProbesUnbroken, NoCellLost, TableSize
  <1>2. CASE UNCHANGED vars
    BY <1>1, <1>2 DEF vars
  <1>3. ASSUME NEW w \in Words, Call(w) PROVE IInv'
    BY <1>1, <1>3 DEF Call
  <1>4. CASE InsertKey
    BY <1>1, <1>4, InsertStep DEF InsertKey
  <1>5. CASE RebaseKey
    <2>1. \A j \in 0 .. size - 1 : table[j] # NULL
      BY <1>5 DEF RebaseKey, Fits, Free, Visited, TypeOK, Tables
    <2>2. Used(new') = {}
      BY <1>5 DEF RebaseKey, Used, Blank
    <2> QED BY <1>1, <1>5, <2>1, <2>2 DEF RebaseKey, Distinct, Unbroken
  <1>6. CASE Rehash
    BY <1>1, <1>6, RehashStep
  <1>7. CASE Swap
    BY <1>1, <1>7 DEF Swap, Retried
  <1> QED BY <1>2, <1>3, <1>4, <1>5, <1>6, <1>7 DEF Next

(* A word never has two cells, whatever the hash function.                 *)
THEOREM WordsHaveOneCell == Spec => []OneCellPerWord
  <1>1. IInv => OneCellPerWord
    BY DEF IInv
  <1> QED BY <1>1, IInvInit, IInvStep, PTL DEF Spec

(* Every cell is found from the home of its word, also after any number of *)
(* doublings.                                                              *)
THEOREM CellsAreFound == Spec => []ProbesUnbroken
  <1>1. IInv => ProbesUnbroken
    BY DEF IInv
  <1> QED BY <1>1, IInvInit, IInvStep, PTL DEF Spec

(* While the table is doubled no cell is lost, doubled or made up, so that *)
(* rebaseKey() may read table[i]->key with no test for NULL.               *)
THEOREM CellsAreMoved == Spec => []NoCellLost
  <1>1. IInv => NoCellLost
    BY DEF IInv
  <1> QED BY <1>1, IInvInit, IInvStep, PTL DEF Spec

-----------------------------------------------------------------------------
(* The table counts words: HashMap implements WordCount.                   *)

(* What a table t says of a word.                                          *)
CountIn(t, w) ==
  IF \E j \in Used(t) : t[j].key = w
  THEN t[CHOOSE j \in Used(t) : t[j].key = w].value
  ELSE 0

LEMMA CountOfCell ==
  ASSUME NEW t, Distinct(t), NEW j \in Used(t)
  PROVE  CountIn(t, t[j].key) = t[j].value
  BY DEF Distinct, CountIn

(* Tables with the same cells, in whatever slots, count the same.          *)
LEMMA SameCellsCountTheSame ==
  ASSUME NEW t, NEW u, Distinct(t), Distinct(u), NEW w,
         {u[j] : j \in Used(u)} = {t[j] : j \in Used(t)}
  PROVE  CountIn(u, w) = CountIn(t, w)
  <1>1. CASE \E j \in Used(t) : t[j].key = w
    <2>1. PICK j \in Used(t) : t[j].key = w
      BY <1>1
    <2>2. PICK l \in Used(u) : u[l] = t[j]
      BY <2>1
    <2>3. CountIn(t, w) = t[j].value /\ CountIn(u, w) = u[l].value
      BY <2>1, <2>2, CountOfCell
    <2> QED BY <2>2, <2>3
  <1>2. CASE \A j \in Used(t) : t[j].key # w
    <2>1. \A l \in Used(u) : u[l].key # w
      BY <1>2
    <2> QED BY <1>2, <2>1 DEF CountIn
  <1> QED BY <1>1, <1>2

(* insertKey() adds 1 to the count of its word and leaves the others.      *)
LEMMA InsertCounts ==
  ASSUME IInv, InsertKey, NEW w \in Words
  PROVE  CountIn(table', w) = IF w = str THEN CountIn(table, w) + 1 ELSE CountIn(table, w)
  <1>1. /\ size \in Nat /\ size > 1 /\ str \in Words /\ table \in Tables(size)
        /\ Distinct(table) /\ Unbroken(table, size) /\ DOMAIN table = 0 .. size - 1
    BY DEF IInv, TypeOK, InsertKey, OneCellPerWord, ProbesUnbroken, TableSize, Tables
  <1>2. Distinct(table')
    BY InsertStep DEF OneCellPerWord
  <1>3. PICK j \in DOMAIN table : /\ StopsAt(Fits(table, str), str, j, size)
                                  /\ table' = [table EXCEPT ![j] = Stored(j)]
    BY DEF InsertKey
  <1>4. Stored(j) \in Cells /\ Stored(j).key = str
    BY <1>1, <1>3 DEF Stored, Tables, Cells
  <1>5. Stored(j) # NULL /\ table'[j] = Stored(j) /\ Used(table') = Used(table) \cup {j}
    BY <1>1, <1>3, <1>4, HashMapAssumption DEF HashMapAssumption, Cells, Used, Tables
  <1>6. CountIn(table', str) = Stored(j).value
    BY <1>2, <1>4, <1>5, CountOfCell
  <1>7. CASE w = str
    <2>1. CASE j \in Free(table)
      <3>1. \A l \in Used(table) : table[l].key # str
        BY <1>1, <1>3, <2>1, FreeMeansNew
      <3>2. CountIn(table, str) = 0
        BY <3>1 DEF CountIn
      <3> QED BY <1>6, <1>7, <2>1, <3>2 DEF Stored, Free
    <2>2. CASE j \notin Free(table)
      <3>1. j \in Used(table) /\ table[j].key = str
        BY <1>3, <2>2 DEF StopsAt, Fits
      <3>2. CountIn(table, str) = table[j].value
        BY <1>1, <3>1, CountOfCell
      <3> QED BY <1>6, <1>7, <3>1, <3>2 DEF Stored, Used
    <2> QED BY <2>1, <2>2
  <1>8. CASE w # str
    <2>1. \A l \in Used(table) : table[l].key = w => l # j
      BY <1>3, <1>8 DEF StopsAt, Fits, Used, Free
    <2>2. CASE \E l \in Used(table) : table[l].key = w
      <3>1. PICK l \in Used(table) : table[l].key = w
        BY <2>2
      <3>2. l \in Used(table') /\ table'[l] = table[l]
        BY <1>1, <1>3, <1>5, <2>1, <3>1 DEF Used
      <3>3. CountIn(table, w) = table[l].value /\ CountIn(table', w) = table'[l].value
        BY <1>1, <1>2, <3>1, <3>2, CountOfCell
      <3> QED BY <1>8, <3>2, <3>3
    <2>3. CASE \A l \in Used(table) : table[l].key # w
      <3>1. \A l \in Used(table') : table'[l].key # w
        <4> SUFFICES ASSUME NEW l \in Used(table') PROVE table'[l].key # w
          OBVIOUS
        <4>1. CASE l = j
          BY <1>4, <1>5, <1>8, <4>1
        <4>2. CASE l # j
          BY <1>1, <1>3, <1>5, <2>3, <4>2 DEF Used
        <4> QED BY <4>1, <4>2
      <3> QED BY <1>8, <2>3, <3>1 DEF CountIn
    <2> QED BY <2>2, <2>3
  <1> QED BY <1>7, <1>8

(* The abstract variables.                                                 *)
Counted == [w \in Words |-> CountOf(w)]
Pending == IF pc = "main" THEN NULL ELSE str

LEMMA CountedStays ==
  ASSUME \A w \in Words : CountIn(table', w) = CountIn(table, w)
  PROVE  Counted' = Counted
  <1>1. Counted = [w \in Words |-> CountIn(table, w)]
    BY DEF Counted, CountOf, CountIn
  <1>2. Counted' = [w \in Words |-> CountIn(table', w)]
    BY DEF Counted, CountOf, CountIn
  <1> QED BY <1>1, <1>2

LEMMA StartsEmpty == Init => Counts!Init
  BY DEF Init, Counts!Init, CountOf, Used, Blank

(* Each step asks for a count, counts, or does neither.                    *)
LEMMA StepCounts == IInv /\ IInv' /\ [Next]_vars => [Counts!Next]_(Counts!vars)
  <1> SUFFICES ASSUME IInv, IInv', [Next]_vars
               PROVE  Counts!Next \/ (Counted' = Counted /\ Pending' = Pending)
    BY DEF Counts!vars, Counted, Pending
  <1>1. CASE UNCHANGED vars
    BY <1>1, CountedStays DEF vars, Pending
  <1>2. ASSUME NEW w \in Words, Call(w) PROVE Counts!Next
    <2>1. Counted' = Counted
      BY <1>2, CountedStays DEF Call
    <2>2. Counts!Request(w)
      BY <1>2, <2>1 DEF Call, Counts!Request, Counted
    <2> QED BY <2>2 DEF Counts!Next
  <1>3. CASE InsertKey
    <2>1. Pending = str /\ str \in Words /\ str # NULL /\ Pending' = NULL
      BY <1>3, HashMapAssumption DEF IInv, TypeOK, InsertKey, Pending, HashMapAssumption
    <2>2. Counted' = [Counted EXCEPT ![str] = @ + 1]
      <3>1. Counted' = [w \in Words |-> CountIn(table', w)]
        BY DEF Counted, CountOf, CountIn
      <3>2. Counted = [w \in Words |-> CountIn(table, w)]
        BY DEF Counted, CountOf, CountIn
      <3>3. \A w \in Words :
              CountIn(table', w) = IF w = str THEN CountIn(table, w) + 1 ELSE CountIn(table, w)
        BY <1>3, InsertCounts
      <3> QED BY <2>1, <3>1, <3>2, <3>3
    <2>3. Counts!Count
      BY <2>1, <2>2 DEF Counts!Count, Counted, Pending
    <2> QED BY <2>3 DEF Counts!Next
  <1>4. CASE RebaseKey
    BY <1>4, CountedStays DEF RebaseKey, Pending
  <1>5. CASE Rehash
    BY <1>5, CountedStays DEF Rehash, Pending
  <1>6. CASE Swap
    <2>1. /\ Distinct(table) /\ Distinct(new) /\ DOMAIN table = 0 .. n - 1
          /\ \A j \in 0 .. n - 1 : table[j] # NULL
          /\ {new[j] : j \in Used(new)} = {table[j] : j \in 0 .. n - 1}
      BY <1>6 DEF IInv, TypeOK, OneCellPerWord, NoCellLost, Swap, Tables
    <2>2. Used(table) = 0 .. n - 1
      BY <2>1 DEF Used
    <2>3. \A w \in Words : CountIn(table', w) = CountIn(table, w)
      BY <1>6, <2>1, <2>2, SameCellsCountTheSame DEF Swap
    <2>4. Counted' = Counted
      BY <2>3, CountedStays
    <2> QED BY <1>6, <2>4 DEF Swap, Retried, Pending
  <1> QED BY <1>1, <1>2, <1>3, <1>4, <1>5, <1>6 DEF Next

(* Every word passed to insertKey() is counted, once and before the next   *)
(* is taken, whatever slots words collide in and however often the table   *)
(* is doubled.                                                             *)
THEOREM CountsWords == Spec => ImplementsWordCount
  BY StartsEmpty, StepCounts, IInvInit, IInvStep, PTL
  DEF Spec, ImplementsWordCount, Counts!Spec
=============================================================================
