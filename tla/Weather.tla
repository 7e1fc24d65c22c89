------------------------------ MODULE Weather ------------------------------
(***************************************************************************)
(* HW4_Library: asks wttr.in for the weather at a place, collects the      *)
(* reply from a callback of libcurl, and prints from its JSON the          *)
(* conditions and the descriptions of each.  Every allocation may fail     *)
(* and every write is held against the size of its block; one outside may  *)
(* do no harm, or anything.                                                *)
(*                                                                         *)
(* libcurl and json-c are modelled from their use: the reply comes in      *)
(* pieces of any size and may break off, a part of it is not JSON, and     *)
(* json_object_array_length() aborts on what is no array.  NoRoomForNul is *)
(* a faulty variant of the operator that follows it.                       *)
(***************************************************************************)
EXTENDS Naturals, Sequences

CONSTANT Inputs
  \* [place, bytes, json, conditions]: the place, of "valid" and "other"
  \* characters; the size of the reply, whether it is JSON with an array
  \* "current_condition", and of each element <<number of descriptions>>, or
  \* <<>> when it has no array "weatherDesc"

VARIABLES
  pc,      \* "url", "start", "get", "got", "parse", "area", "desc", and
           \* the ends "done", "failed", "killed" by the library or for a NULL, and
           \* "undefined", after a use of somebody else's memory
  input,
  local,   \* [size, i, j]: MemoryStruct's size, parse_weather_json()'s loops
  heap     \* the blocks that are allocated

vars == <<pc, input, local, heap>>

Init ==
  /\ pc = "url" /\ input \in Inputs
  /\ local = [size |-> 0, i |-> 1, j |-> 0]
  /\ heap = {}

(* The first "end" bytes or elements of a block of "room" are used.        *)
Use(end, room, next) ==
  pc' \in IF end <= room THEN {next} ELSE {next, "undefined"}

-----------------------------------------------------------------------------
(* sanitize_place(): the length of the place, cut at the first character   *)
(* that is not allowed.                                                    *)
SanitizePlace(s) ==
  CHOOSE n \in 0 .. Len(s) :
    /\ \A k \in 1 .. n : s[k] = "valid"
    /\ n < Len(s) => s[n + 1] # "valid"

(* make_url(): 16 characters, the location, 10 more and a NUL.             *)
MakeUrl ==
  /\ pc = "url"
  /\ LET len == SanitizePlace(input.place) IN
       \/ pc' = "failed" /\ UNCHANGED heap
       \/ len > 0 /\ Use(16 + len + 10 + 1, len + 27, "start") /\ heap' = {"url"}
  /\ UNCHANGED <<input, local>>

-----------------------------------------------------------------------------
(* do_get(): malloc(0), which may fail without being noticed.              *)
StartGet ==
  /\ pc = "start"
  /\ pc' = "get"
  /\ heap' \in {heap, heap \cup {"resp"}}
  /\ UNCHANGED <<input, local>>

(* WriteMemoryCallback() appends k bytes and a NUL.                        *)
NoRoomForNul(k) == local.size + k
Grown(k) == local.size + k + 1

WriteMemory(k) ==
  /\ pc = "get" /\ local.size + k <= input.bytes
  /\ Use(local.size + k + 1, Grown(k), "get")
  /\ heap' = heap \cup {"resp"}
  /\ local' = [local EXCEPT !.size = @ + k]
  /\ UNCHANGED input

(* The reply is complete, has broken off, or realloc() has failed; main()  *)
(* is told none of that.                                                   *)
Performed ==
  /\ pc = "get"
  /\ pc' = "got"
  /\ UNCHANGED <<input, local, heap>>

Got ==
  /\ pc = "got"
  /\ heap' = heap \ {"url"}
  /\ pc' = IF "resp" \in heap THEN "parse" ELSE "failed"
  /\ UNCHANGED <<input, local>>

-----------------------------------------------------------------------------
(* parse_weather_json().  Of a reply of no bytes nothing was written, not  *)
(* even a NUL, and json_tokener_parse() reads what is behind the block.    *)
Parse ==
  /\ pc = "parse"
  /\ IF local.size = input.bytes /\ input.json
     THEN \/ pc' = "area" /\ heap' = heap \cup {"areas"}
          \/ pc' = "failed" /\ heap' = heap \ {"resp"}
     ELSE Use(1, local.size, "killed") /\ UNCHANGED heap
  /\ UNCHANGED <<input, local>>

Conditions == Len(input.conditions)
Descriptions == input.conditions[local.i][1]

(* parse_string(): after a calloc() that failed it copies to NULL.         *)
NoMemory == "killed"

(* A condition: parse_string() of winddir16Point; weatherDesc, which may   *)
(* be no array; and calloc() for the descriptions, whose failure shows     *)
(* when the first one is stored.                                           *)
Area ==
  /\ pc = "area" /\ local.i <= Conditions
  /\ \/ pc' = NoMemory /\ UNCHANGED heap
     \/ /\ input.conditions[local.i] = <<>>
        /\ pc' = "killed" /\ UNCHANGED heap
     \/ /\ input.conditions[local.i] # <<>>
        /\ \/ heap' = heap \cup {"winddir", "descs"} /\ pc' = "desc"
           \/ /\ heap' = heap \cup {"winddir"}
              /\ pc' = IF Descriptions = 0 THEN "desc" ELSE "killed"
  /\ local' = [local EXCEPT !.j = 0]
  /\ UNCHANGED input

(* A description: parse_string() into weatherDescs[j], and free() of it.   *)
(* The array has one element for each condition.                           *)
Desc ==
  /\ pc = "desc" /\ local.j < Descriptions
  /\ \E next \in {"desc", NoMemory} : Use(local.j + 1, Conditions, next)
  /\ local' = [local EXCEPT !.j = @ + 1]
  /\ UNCHANGED <<input, heap>>

NextArea ==
  /\ pc = "desc" /\ local.j = Descriptions
  /\ heap' = heap \ {"winddir", "descs"}
  /\ local' = [local EXCEPT !.i = @ + 1]
  /\ pc' = "area"
  /\ UNCHANGED input

Finish ==
  /\ pc = "area" /\ local.i = Conditions + 1
  /\ heap' = heap \ {"areas", "resp"}
  /\ pc' = "done"
  /\ UNCHANGED <<input, local>>

Next ==
  \/ MakeUrl \/ StartGet \/ Performed \/ Got \/ Parse
  \/ \E k \in 1 .. input.bytes : WriteMemory(k)
  \/ Area \/ Desc \/ NextArea \/ Finish

Spec == Init /\ [][Next]_vars

-----------------------------------------------------------------------------
(* What the proofs assume of the constant.                                 *)
WellFormed ==
  Inputs \subseteq [place : Seq({"valid", "other"}), bytes : Nat,
                   json : BOOLEAN, conditions : Seq(Seq(Nat))]

(* However the reply is cut into pieces and whichever allocation fails,    *)
(* the program uses memory outside its blocks only for a reply of nothing, *)
(* or for a condition with more descriptions than there are conditions in  *)
(* the reply; and where it ends by itself it has freed all it allocated.   *)
DescsInBounds ==
  /\ pc = "undefined" =>
       \/ local.size = 0
       \/ \E i \in 1 .. Conditions :
            /\ input.conditions[i] # <<>>
            /\ input.conditions[i][1] > Conditions
  /\ pc \in {"done", "failed"} => heap = {}
=============================================================================
