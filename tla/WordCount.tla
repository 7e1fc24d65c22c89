----------------------------- MODULE WordCount -----------------------------
(***************************************************************************)
(* What the hash table of HW3_Hashmap is for: counting words.  A word that *)
(* is passed in stays pending until it has been counted, once.             *)
(***************************************************************************)
EXTENDS Naturals

CONSTANTS Words, NULL
VARIABLES counts, pending

vars == <<counts, pending>>

Init == counts = [w \in Words |-> 0] /\ pending = NULL

Request(w) ==
  /\ pending = NULL
  /\ pending' = w
  /\ UNCHANGED counts

Count ==
  /\ pending # NULL
  /\ counts' = [counts EXCEPT ![pending] = @ + 1]
  /\ pending' = NULL

Next == Count \/ \E w \in Words : Request(w)

Spec == Init /\ [][Next]_vars
=============================================================================
