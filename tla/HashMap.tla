------------------------------ MODULE HashMap ------------------------------
(***************************************************************************)
(* HW3_Hashmap: an open-addressing hash table that counts words.  A word   *)
(* is looked for from its home slot to the end of the table and then from  *)
(* the start; a full table is doubled and every cell placed again, one     *)
(* step of the loop at a time here.                                        *)
(*                                                                         *)
(* Words are the non-empty strings: insertKey() ignores the empty one.     *)
(* OnlyToTheEnd, AnyWord, PlusTwo, SameSlot and Forgotten are faulty       *)
(* variants of the operators that follow them; no action uses them.        *)
(***************************************************************************)
EXTENDS Naturals

CONSTANTS
  Words,
  Hash,        \* thash of a word, before "% hash->size"
  InitSize,    \* 10 in main.c
  NULL,
  MaxSize,     \* bound on the size of the table
  MaxInserts   \* bound on the number of insertions

ASSUME HashMapAssumption ==
  /\ Hash \in [Words -> Nat]
  /\ InitSize \in Nat /\ InitSize > 1
  /\ MaxSize \in Nat /\ MaxInserts \in Nat
  /\ NULL \notin [key : Words, value : Nat]
  /\ NULL \notin Words

VARIABLES
  pc,         \* "main", in insertKey(): "insert", in rebaseKey(): "rehash"
  str,        \* the word being inserted
  table, size,
  new,        \* new_hash_table
  n, i,       \* size of the old table, next of its cells to place
  inserts     \* counter for the bound

vars == <<pc, str, table, size, new, n, i, inserts>>

Cells == [key : Words, value : Nat]
Tables(k) == [0 .. k - 1 -> Cells \cup {NULL}]
Blank(k) == [j \in 0 .. k - 1 |-> NULL]

TypeOK ==
  /\ pc \in {"main", "insert", "rehash"}
  /\ str \in Words \cup {NULL}
  /\ pc # "main" => str \in Words
  /\ size \in Nat /\ size > 1
  /\ n \in Nat /\ i \in Nat /\ inserts \in Nat
  /\ pc = "rehash" => n > 1 /\ i <= n /\ size = 2 * n /\ new \in Tables(size)
  /\ table \in Tables(IF pc = "rehash" THEN n ELSE size)

Init ==
  /\ pc = "main" /\ str = NULL
  /\ size = InitSize
  /\ table = Blank(InitSize)
  /\ new = NULL /\ n = 0 /\ i = 0
  /\ inserts = 0

-----------------------------------------------------------------------------
(* hashCode(): the slot where the search for a word starts.                *)
Home(w, k) == Hash[w] % k

(* The slots a search visits, and how many it visits before slot j: from   *)
(* the home to the end, then from 0 up to the home (red_line).             *)
OnlyToTheEnd(w, k) == Home(w, k) .. k - 1
Visited(w, k) == 0 .. k - 1

Dist(w, j, k) ==
  IF j >= Home(w, k) THEN j - Home(w, k) ELSE j + k - Home(w, k)

(* The search for w stops at j, the first slot of S that it visits.        *)
StopsAt(S, w, j, k) ==
  /\ j \in S \cap Visited(w, k)
  /\ \A l \in S \cap Visited(w, k) : Dist(w, j, k) <= Dist(w, l, k)

Free(t) == {j \in DOMAIN t : t[j] = NULL}
Used(t) == {j \in DOMAIN t : t[j] # NULL}
AnyWord(t, w) == Free(t)
Fits(t, w) == Free(t) \cup {j \in Used(t) : t[j].key = w}

-----------------------------------------------------------------------------
(* main() passes a word of the file to insertKey().                        *)
Call(w) ==
  /\ pc = "main"
  /\ inserts < MaxInserts
  /\ pc' = "insert" /\ str' = w
  /\ inserts' = inserts + 1
  /\ UNCHANGED <<table, size, new, n, i>>

(* createCellHash(), or value++ of the cell that is there.                 *)
Stored(j) ==
  [key |-> str, value |-> IF table[j] = NULL THEN 1 ELSE table[j].value + 1]

InsertKey ==
  /\ pc = "insert"
  /\ \E j \in DOMAIN table :
       /\ StopsAt(Fits(table, str), str, j, size)
       /\ table' = [table EXCEPT ![j] = Stored(j)]
  /\ pc' = "main" /\ str' = NULL
  /\ UNCHANGED <<size, new, n, i, inserts>>

(* No slot fits: rebaseKey() doubles the size.                             *)
PlusTwo == size + 2
Doubled == 2 * size

RebaseKey ==
  /\ pc = "insert"
  /\ Fits(table, str) \cap Visited(str, size) = {}
  /\ Doubled <= MaxSize
  /\ n' = size /\ size' = Doubled
  /\ new' = Blank(Doubled)
  /\ i' = 0
  /\ pc' = "rehash"
  /\ UNCHANGED <<str, table, inserts>>

(* One turn of the outer loop: table[i] goes to the first free slot, and   *)
(* is dropped if there is none.                                            *)
SameSlot(j) == j = i
Placed(j) == StopsAt(Free(new), table[i].key, j, size)

Rehash ==
  /\ pc = "rehash" /\ i < n
  /\ table[i] # NULL
  /\ \/ \E j \in DOMAIN new : Placed(j) /\ new' = [new EXCEPT ![j] = table[i]]
     \/ (\A j \in DOMAIN new : ~Placed(j)) /\ UNCHANGED new
  /\ i' = i + 1
  /\ UNCHANGED <<pc, str, table, size, n, inserts>>

(* The new table takes the place of the old; rebaseKey() then calls        *)
(* insertKey() again for the word that did not fit.                        *)
Forgotten == "main"
Retried == "insert"

Swap ==
  /\ pc = "rehash" /\ i = n
  /\ table' = new
  /\ pc' = Retried
  /\ new' = NULL /\ n' = 0 /\ i' = 0
  /\ UNCHANGED <<str, size, inserts>>

Next ==
  \/ \E w \in Words : Call(w)
  \/ InsertKey \/ RebaseKey \/ Rehash \/ Swap

Spec == Init /\ [][Next]_vars

-----------------------------------------------------------------------------
Distinct(t) == \A j, l \in Used(t) : t[j].key = t[l].key => j = l

Unbroken(t, k) ==
  \A j \in Used(t), l \in DOMAIN t :
    Dist(t[j].key, l, k) < Dist(t[j].key, j, k) => t[l] # NULL

TableSize == IF pc = "rehash" THEN n ELSE size

(* A word has one cell, in the table and in the one being filled.  A       *)
(* second cell would split its count between two lines of the report.      *)
OneCellPerWord == Distinct(table) /\ (pc = "rehash" => Distinct(new))

(* No empty slot lies between the home of a word and its cell, so that     *)
(* insertKey() finds it; doubling the table must restore this for every    *)
(* cell, in whatever order they were inserted.                             *)
ProbesUnbroken ==
  /\ Unbroken(table, TableSize)
  /\ pc = "rehash" => Unbroken(new, size)

(* rebaseKey() reads table[i]->key with no test for NULL and moves each    *)
(* cell exactly once: only a full table is doubled, and the new one holds  *)
(* just the cells placed so far.                                           *)
NoCellLost ==
  pc = "rehash" =>
    /\ \A j \in 0 .. n - 1 : table[j] # NULL
    /\ {new[j] : j \in Used(new)} = {table[j] : j \in 0 .. i - 1}

(* Whatever slots words collide in and however often the table is doubled, *)
(* every word passed to insertKey() is counted, once.                      *)
CountOf(w) ==
  IF \E j \in Used(table) : table[j].key = w
  THEN table[CHOOSE j \in Used(table) : table[j].key = w].value
  ELSE 0
Counts == INSTANCE WordCount
            WITH counts <- [w \in Words |-> CountOf(w)],
                 pending <- IF pc = "main" THEN NULL ELSE str
ImplementsWordCount == Counts!Spec
=============================================================================
