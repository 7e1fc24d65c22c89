--------------------------- MODULE MCLogAnalyzer ---------------------------
(***************************************************************************)
(* Instances of LogAnalyzer for TLC: a directory where URLs and referers   *)
(* repeat within a file and across files, with lines that count for        *)
(* nothing and a file that cannot be mapped, and one whose volumes do not  *)
(* fit in an int.                                                          *)
(***************************************************************************)
EXTENDS LogAnalyzer, TLC

CONSTANTS f1, f2, f3, f4, a, b, root, x, y, noRef

L(u, r, n) == [url |-> u, ref |-> r, bytes |-> n]

mcContent ==
  f1 :> <<L(a, x, 3), L(b, x, 2), L(a, y, 4)>> @@
  f2 :> <<L(b, y, 7), L(root, x, 9)>> @@
  f3 :> <<L(a, x, 0), L(a, noRef, 5), L(b, x, 1)>> @@
  f4 :> <<L(b, y, 6)>>

mcHeavy == f1 :> <<L(a, x, 7), L(a, x, 6)>> @@ f2 :> <<L(b, x, 1)>>
=============================================================================
