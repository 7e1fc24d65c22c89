----------------------------- MODULE WordReader -----------------------------
(***************************************************************************)
(* HW3_Hashmap, main(): how a file becomes the words that HashMap counts.  *)
(* A first pass over the file finds how long a word gets, a second one     *)
(* collects each word in an array of that size and hands it to insertKey().*)
(* The two do not agree on what a word is: a newline ends one in the first *)
(* pass and is left out of one in the second, and only the second knows of *)
(* a word at the end of the file.                                          *)
(*                                                                         *)
(* The passes take one character at a time: how read() cuts the file makes *)
(* no difference, but where it fails does.  A write behind bufWord may do  *)
(* no harm, or anything.  A file has no NUL in it.  OverNewline and        *)
(* NoLastWord are faulty variants of the operators that follow them.       *)
(***************************************************************************)
EXTENDS Naturals, Sequences, SequencesExt, Ascending

CONSTANT Inputs   \* files: sequences of "nl", of "sp" for any other space, and
                  \* of other characters

VARIABLES
  pc,      \* "open", "measure", "read", and the ends "done", "failed" and
           \* "undefined", after a write to somebody else's memory
  input,
  local,   \* [at, currWordSize, maxWordSize, bufWord, top, cut]: position in
           \* the file; bufWord[0 .. currIndWord - 1]; the first index behind
           \* all writes to bufWord; whether the first pass ended too early
  output   \* the words given to insertKey(), without the empty ones

vars == <<pc, input, local, output>>

Init ==
  /\ pc = "open" /\ input \in Inputs
  /\ local = [at |-> 1, currWordSize |-> 0, maxWordSize |-> 0, bufWord |-> <<>>,
              top |-> 0, cut |-> FALSE]
  /\ output = <<>>

Larger(a, b) == IF a > b THEN a ELSE b

(* open() and calloc(), which may fail.                                    *)
Open ==
  /\ pc = "open"
  /\ pc' \in {"measure", "failed"}
  /\ UNCHANGED <<input, local, output>>

(* findMaxWordSize(): a character.                                         *)
OverNewline(c) == c = "sp"
EndsWord(c) == c \in {"nl", "sp"}

Measure ==
  /\ pc = "measure" /\ local.at <= Len(input)
  /\ local' = IF EndsWord(input[local.at])
              THEN [local EXCEPT !.at = @ + 1, !.currWordSize = 0,
                      !.maxWordSize = Larger(@, local.currWordSize)]
              ELSE [local EXCEPT !.at = @ + 1, !.currWordSize = @ + 1]
  /\ UNCHANGED <<pc, input, output>>

(* The end of the file; or read() fails, be it for an open() that failed,  *)
(* and the size found so far has to do.                                    *)
Measured ==
  /\ pc = "measure"
  /\ \E cut \in BOOLEAN :
       /\ cut \/ local.at = Len(input) + 1
       /\ local' = [local EXCEPT !.at = 1, !.cut = cut]
  /\ pc' = "read"
  /\ UNCHANGED <<input, output>>

(* bufWord[ind] is written, and the program goes on with pc = next.        *)
Write(ind, next) ==
  pc' \in IF ind < local.maxWordSize THEN {next} ELSE {next, "undefined"}

Counted(w) == IF w = <<>> THEN <<>> ELSE <<w>>

Letter ==
  /\ pc = "read" /\ local.at <= Len(input)
  /\ input[local.at] \notin {"nl", "sp"}
  /\ Write(Len(local.bufWord), "read")
  /\ local' = [local EXCEPT !.at = @ + 1,
                 !.bufWord = Append(@, input[local.at]),
                 !.top = Larger(@, Len(local.bufWord) + 1)]
  /\ UNCHANGED <<input, output>>

Newline ==
  /\ pc = "read" /\ local.at <= Len(input) /\ input[local.at] = "nl"
  /\ local' = [local EXCEPT !.at = @ + 1]
  /\ UNCHANGED <<pc, input, output>>

Space ==
  /\ pc = "read" /\ local.at <= Len(input) /\ input[local.at] = "sp"
  /\ Write(Len(local.bufWord), "read")
  /\ output' = output \o Counted(local.bufWord)
  /\ local' = [local EXCEPT !.at = @ + 1, !.bufWord = <<>>,
                 !.top = Larger(@, Len(local.bufWord) + 1)]
  /\ UNCHANGED input

ReadFails ==
  /\ pc = "read"
  /\ pc' = "failed"
  /\ UNCHANGED <<input, local, output>>

(* The word that no separator follows.  With no character of it, bufWord   *)
(* is empty, or never written: then it may be ended at index 0, to no      *)
(* effect on the words.                                                    *)
NoLastWord(w) == <<>>
LastWord(w) == Counted(w)

EndOfFile ==
  /\ pc = "read" /\ local.at = Len(input) + 1
  /\ IF local.bufWord = <<>> /\ "sp" \in ToSet(input)
     THEN pc' = "done" /\ UNCHANGED local
     ELSE /\ Write(Len(local.bufWord), "done")
          /\ local' = [local EXCEPT !.top = Larger(@, Len(local.bufWord) + 1)]
  /\ output' = output \o LastWord(local.bufWord)
  /\ UNCHANGED input

Next ==
  \/ Open \/ Measure \/ Measured
  \/ Letter \/ Newline \/ Space \/ ReadFails \/ EndOfFile

Spec == Init /\ [][Next]_vars

-----------------------------------------------------------------------------
(* What the proofs assume of the constant: the files are sequences.        *)
WellFormed == \A file \in Inputs : file \in Seq(ToSet(file))

(* The maximal runs of a sequence without a separator of S, in order: they *)
(* go from one of the first positions to the last position in its place.   *)
Firsts(s, S) ==
  {i \in DOMAIN s : s[i] \notin S /\ (i = 1 \/ s[i - 1] \in S)}
Lasts(s, S) ==
  {i \in DOMAIN s : s[i] \notin S /\ (i = Len(s) \/ s[i + 1] \in S)}

Runs(s, S) ==
  LET first == Ascending(Firsts(s, S))
      last == Ascending(Lasts(s, S))
  IN [k \in DOMAIN first |-> SubSeq(s, first[k], last[k])]

(* The sequence without its newlines.                                      *)
Joined(s) ==
  LET kept == Ascending({i \in DOMAIN s : s[i] # "nl"})
  IN [k \in DOMAIN kept |-> s[kept[k]]]

(* The words counted are the runs of characters between spaces of the file *)
(* taken without its newlines, each as often as it occurs, the last one    *)
(* with them whether or not a separator follows it.                        *)
CountedWords ==
  pc = "done" =>
    output = Runs(Joined(input), {"sp"})

(* Both passes find the same words: no newline is between two characters   *)
(* of words, and no word at the end of the file.                           *)
Alike(s) ==
  /\ Runs(s, {"nl", "sp"}) = Runs(Joined(s), {"sp"})
  /\ s # <<>> => s[Len(s)] \in {"nl", "sp"}

Longest(ws) ==
  IF ws = <<>> THEN 0
  ELSE CHOOSE m \in {Len(ws[k]) : k \in DOMAIN ws} :
         \A k \in DOMAIN ws : Len(ws[k]) <= m

(* For such a file the array has room for every word, though not for the   *)
(* NUL after the longest: nothing is written further than that one byte.   *)
PassesAgree ==
  pc \in {"read", "done"} /\ Alike(input) /\ ~local.cut =>
    /\ local.maxWordSize = Longest(Runs(input, {"nl", "sp"}))
    /\ local.top <= local.maxWordSize + 1
=============================================================================
