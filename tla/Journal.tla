------------------------------ MODULE Journal ------------------------------
(***************************************************************************)
(* What HW6_LOGGER promises the program that logs.  A thread asks for a    *)
(* record in the stream that is set, and cannot ask again before the       *)
(* record is in the file; there it is once, and it stays until the program *)
(* opens the file anew.  Records of several threads may come together.     *)
(***************************************************************************)
EXTENDS Sequences, SequencesExt

CONSTANTS Threads, Streams, None

VARIABLES
  asked,    \* the stream a thread waits for its record in, or None
  written   \* the threads whose records are in the file of a stream, in order

vars == <<asked, written>>

Init ==
  /\ asked = [t \in Threads |-> None]
  /\ written = [s \in Streams |-> <<>>]

Ask(t, s) ==
  /\ asked[t] = None
  /\ asked' = [asked EXCEPT ![t] = s]
  /\ UNCHANGED written

Publish(s) ==
  \E S \in (SUBSET {t \in Threads : asked[t] = s}) \ {{}} :
    /\ \E q \in SetToSeqs(S) : written' = [written EXCEPT ![s] = @ \o q]
    /\ asked' = [t \in Threads |-> IF t \in S THEN None ELSE asked[t]]

Truncate(s) ==
  /\ \A t \in Threads : asked[t] = None
  /\ written' = [written EXCEPT ![s] = <<>>]
  /\ UNCHANGED asked

Next ==
  \E s \in Streams : Publish(s) \/ Truncate(s) \/ \E t \in Threads : Ask(t, s)

Spec == Init /\ [][Next]_vars
=============================================================================
