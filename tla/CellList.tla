------------------------------ MODULE CellList ------------------------------
(***************************************************************************)
(* HW7_ASM: a linked list of heap cells [value, next], built from an       *)
(* array, printed, filtered into a second list, and freed.  malloc() may   *)
(* fail; add_element() then returns NULL for a list, and what was in the   *)
(* list is lost.  After is a faulty variant of the operator that follows.  *)
(***************************************************************************)
EXTENDS Naturals, Sequences, SequencesExt

VARIABLES
  pc,      \* "add", "print", "copy", "print copy", "free", "free copy", "done"
  local,   \* [len, s1, s2, at, failed, wild]: main()'s variables; the cell
           \* that m() or f() has come to; whether malloc() has failed, and
           \* whether a cell was used or freed after its free().  An address
           \* is an index of heap, or 0 for NULL
  heap,    \* the cells malloc() returned: [value, next, live]
  output   \* the two lines printed

vars == <<pc, local, heap, output>>

data == <<4, 8, 15, 16, 23, 42>>

p(v) == v % 2 = 1

Init ==
  /\ pc = "add" /\ heap = <<>>
  /\ local = [len |-> Len(data), s1 |-> 0, s2 |-> 0, at |-> 0,
              failed |-> FALSE, wild |-> FALSE]
  /\ output = [print |-> <<>>, copy |-> <<>>]

(* add_element(prev, value), returned to the variable called list.         *)
AddElement(list, value, loc) ==
  \/ /\ heap' = Append(heap, [value |-> value, next |-> local[list], live |-> TRUE])
     /\ local' = [loc EXCEPT ![list] = Len(heap) + 1]
  \/ /\ UNCHANGED heap
     /\ local' = [loc EXCEPT ![list] = 0, !.failed = TRUE]

Add ==
  /\ pc = "add" /\ local.len > 0
  /\ AddElement("s1", data[local.len], [local EXCEPT !.len = @ - 1])
  /\ UNCHANGED <<pc, output>>

(* The heap that m() reads p[1] from: as it is before the call of func.    *)
After(before, after) == after
Before(before, after) == before

(* The locals once the list has moved on from a cell that was read.        *)
MovedOn(cell) ==
  [local EXCEPT !.at = cell.next,
     !.wild = @ \/ ~cell.live \/ ~heap[local.at].live]

(* m() of print_int and of free_p.                                         *)
PrintCell ==
  \E line \in {"print", "copy"} :
    /\ pc = IF line = "print" THEN "print" ELSE "print copy"
    /\ local.at # 0
    /\ output' = [output EXCEPT ![line] = Append(@, heap[local.at].value)]
    /\ local' = MovedOn(heap[local.at])
    /\ UNCHANGED <<pc, heap>>

FreeCell ==
  /\ pc \in {"free", "free copy"} /\ local.at # 0
  /\ heap' = [heap EXCEPT ![local.at].live = FALSE]
  /\ local' = MovedOn(Before(heap, heap')[local.at])
  /\ UNCHANGED <<pc, output>>

(* f() of p.                                                               *)
Copy ==
  /\ pc = "copy" /\ local.at # 0
  /\ LET cell == heap[local.at] IN
       IF p(cell.value)
       THEN AddElement("s2", cell.value, MovedOn(cell))
       ELSE local' = MovedOn(cell) /\ UNCHANGED heap
  /\ UNCHANGED <<pc, output>>

(* main() goes on when the loop or the recursion has come to its end.      *)
Then(from, next, first) ==
  /\ pc = from /\ local.at = 0
  /\ pc' = next /\ local' = [local EXCEPT !.at = first]
  /\ UNCHANGED <<heap, output>>

Proceed ==
  \/ local.len = 0 /\ Then("add", "print", local.s1)
  \/ Then("print", "copy", local.s1)
  \/ Then("copy", "print copy", local.s2)
  \/ Then("print copy", "free", local.s1)
  \/ Then("free", "free copy", local.s2)
  \/ Then("free copy", "done", 0)

Next == Add \/ PrintCell \/ Copy \/ FreeCell \/ Proceed

Spec == Init /\ [][Next]_vars

-----------------------------------------------------------------------------
(* No cell is used after it is freed or freed twice, although m() frees    *)
(* the list it walks; and unless memory runs out the program ends with all *)
(* cells freed and the output that the source quotes.  When it does run    *)
(* out, elements are missing at the end of the first line.                 *)
HeapSafe ==
  /\ ~local.wild
  /\ pc = "done" => IsPrefix(output.print, data)
  /\ pc = "done" /\ ~local.failed =>
       /\ output = [print |-> <<4, 8, 15, 16, 23, 42>>, copy |-> <<23, 15>>]
       /\ \A a \in DOMAIN heap : ~heap[a].live
=============================================================================
