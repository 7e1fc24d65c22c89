----------------------------- MODULE Aggregates -----------------------------
(***************************************************************************)
(* HW14_db_Integration: asks a database for five aggregates of a column,   *)
(* one after the other, each through the same static buffer.  A value is   *)
(* copied with the full length of the buffer, whatever its own, and cut by *)
(* a NUL afterwards; what lies behind a short value in libpq's memory is   *)
(* read with it.                                                           *)
(*                                                                         *)
(* The database is modelled from its use: a query fails or gives no row,   *)
(* as it may for a table name with a condition behind it, or a value.      *)
(* Kept is a faulty variant of the operator that follows it.               *)
(***************************************************************************)
EXTENDS Naturals, Sequences

CONSTANTS
  Inputs,   \* the answers to the queries: each is <<>> or <<value>>
  Size,     \* sizeof(glob_val), 1024
  NUL, Junk

VARIABLES
  pc,      \* "open", "query", "print", and the ends "done", "failed", and
           \* "undefined" after a read of somebody else's memory
  input,
  local,   \* [query, glob_val]
  output   \* the values printed

vars == <<pc, input, local, output>>

Init ==
  /\ pc = "open" /\ input \in Inputs
  /\ local = [query |-> 1, glob_val |-> [i \in 0 .. Size - 1 |-> NUL]]
  /\ output = <<>>

(* malloc(), and PQconnectdb().  A malloc() that has failed is not noticed.*)
Connect ==
  /\ pc = "open"
  /\ pc' \in {"query", "failed", "undefined"}
  /\ UNCHANGED <<input, local, output>>

(* getValue(): the query fails, for lack of memory or in the database.     *)
QueryFails ==
  /\ pc = "query"
  /\ pc' = "failed"
  /\ UNCHANGED <<input, local, output>>

Kept(buf) == buf
Emptied(buf) == [buf EXCEPT ![0] = NUL]

NoRow ==
  /\ pc = "query" /\ input[local.query] = <<>>
  /\ local' = [local EXCEPT !.glob_val = Emptied(@)]
  /\ pc' = "print"
  /\ UNCHANGED <<input, output>>

(* memcpy() of all but the last byte, from a value and its NUL and, where  *)
(* they are shorter, from what is behind them.                             *)
Copied(buf, val) ==
  [i \in DOMAIN buf |->
     IF i = Size - 1 THEN buf[i]
     ELSE IF i < Len(val) THEN val[i + 1]
     ELSE IF i = Len(val) THEN NUL ELSE Junk]

Cut(buf, val) ==
  [buf EXCEPT ![IF Len(val) <= Size - 1 THEN Len(val) ELSE Size - 1] = NUL]

Row ==
  /\ pc = "query" /\ input[local.query] # <<>>
  /\ LET val == input[local.query][1] IN
       /\ local' = [local EXCEPT !.glob_val = Cut(Copied(Emptied(@), val), val)]
       /\ pc' \in {"print"} \cup IF Len(val) < Size - 2 THEN {"undefined"} ELSE {}
  /\ UNCHANGED <<input, output>>

(* printf("%s"), which would go on behind a buffer without a NUL.          *)
Shown(buf) ==
  LET ends == {i \in DOMAIN buf : buf[i] = NUL} IN
    IF ends = {} THEN <<Junk>>
    ELSE LET len == CHOOSE i \in ends : \A j \in ends : i <= j
         IN [k \in 1 .. len |-> buf[k - 1]]

Show ==
  /\ pc = "print"
  /\ output' = Append(output, Shown(local.glob_val))
  /\ local' = [local EXCEPT !.query = @ + 1]
  /\ pc' = IF local.query = Len(input) THEN "done" ELSE "query"
  /\ UNCHANGED input

Next == Connect \/ QueryFails \/ NoRow \/ Row \/ Show

Spec == Init /\ [][Next]_vars

-----------------------------------------------------------------------------
(* What the proofs assume of the constants: there is a query, no value has *)
(* a NUL in it, and the buffer has room for one.                           *)
Values == Seq(Nat \ {NUL})

WellFormed ==
  /\ Inputs \subseteq Seq(Seq(Values)) /\ <<>> \notin Inputs
  /\ Size \in Nat \ {0}
  /\ Junk # NUL

(* Each line shows the answer to its own query, cut to what the buffer     *)
(* holds, and nothing for no row: nothing of an earlier value and nothing  *)
(* from behind this one, whatever lengths follow each other.               *)
ShowsOwnValue ==
  \A k \in DOMAIN output :
    output[k] = IF input[k] = <<>> THEN <<>>
                ELSE SubSeq(input[k][1], 1,
                            IF Len(input[k][1]) < Size THEN Len(input[k][1])
                            ELSE Size - 1)
=============================================================================
