----------------------------- MODULE MCPrograms -----------------------------
(***************************************************************************)
(* One instance for TLC of the programs that stand alone: those of         *)
(* Programs, the table of the word counter HW3 and the checksum HW10.      *)
(***************************************************************************)
EXTENDS HashMap, Programs, Sequences, TLC

CONSTANTS w1, w2, w3, w4, w5, w6

(* Six words that collide in tables of 2, 4 and 8 slots and wrap round the *)
(* end of each.                                                            *)
mcHash == w1 :> 7 @@ w2 :> 3 @@ w3 :> 11 @@ w4 :> 6 @@ w5 :> 15 @@ w6 :> 2

UpTo(k, S) == UNION {[1 .. m -> S] : m \in 0 .. k}

-----------------------------------------------------------------------------
(* HW3: all texts of five symbols, and one with words of several lengths.  *)
mcReaderInputs ==
  UpTo(5, {"a", "sp", "nl"})
    \cup {<<"a", "b", "sp", "a", "a", "b", "nl", "sp", "b", "nl">>}

(* HW2: every byte in every encoding, and some pairs.                      *)
mcEncoderInputs ==
  [encoding : {"cp1251", "koi8", "iso8859", "utf8"},
   text : UpTo(1, 0 .. 255) \cup {<<65, 192>>, <<240, 128>>, <<255, 10>>}]

(* HW10: every file of one byte, which is every word of the table, and     *)
(* longer ones, among them the nine digits of the usual test.              *)
mcCrcInputs ==
  {<<>>, <<0, 0>>, <<255, 1>>, <<49, 50, 51, 52, 53, 54, 55, 56, 57>>}
    \cup [1 .. 1 -> 0 .. 255]

Crc == INSTANCE Crc32 WITH pc <- step, Inputs <- mcCrcInputs

(* HW4: places that are cut or empty; replies with as many descriptions as *)
(* conditions, with more, with none and with no array of them.             *)
mcWeatherInputs ==
  [place : {<<"valid", "valid">>, <<"valid", "other", "valid">>, <<"other">>},
   bytes : {3}, json : BOOLEAN,
   conditions : {<<>>, << <<1>> >>, << <<2>> >>, << <<2>>, <<0>> >>,
                 << <<1>>, <<>> >>, << <<1>>, <<3>>, <<2>> >>}]

(* HW1: archives of up to two entries with names of up to two characters;  *)
(* signatures in the picture and in the comment, records cut by the end of *)
(* the file, comments up to the longest and longer; alone or after a file  *)
(* that is none.                                                           *)
b == <<"byte", 1>>
e == <<"end", 0>>
FileNames == {<<>>, <<b>>, << <<"byte", 2>>, b>>}
Files ==
  [picture : {<<>>, <<b>>, << <<"entry", 1>>, b, b>>, <<e, b>>},
   entries : {<<>>} \cup {<<[name |-> x, extra |-> <<>>]>> : x \in FileNames}
             \cup {<<[name |-> x, extra |-> <<b>>], [name |-> y, extra |-> <<>>]>> :
                     x, y \in FileNames},
   tail : {<<>>, <<b>>, <<e>>, <<e, b>>, <<e, b, b>>, <<e, b, b, b, b>>,
           <<e, b, <<"entry", 2>>, b>>, <<e, b, <<"entry", 2>>, b, b>>,
           <<e, b, b, b, b, b>>}]
Picture == [picture |-> <<b>>, entries |-> <<>>, tail |-> <<>>]
mcRarjpegInputs == {<<x>> : x \in Files} \cup {<<Picture, x>> : x \in Files}

(* HW14: five answers in a row of no row or a value, which is empty, short,*)
(* one less than the buffer, as long as it and longer.                     *)
mcAggregateInputs ==
  [1 .. 5 -> {<<>>, << <<1>> >>, << <<2, 2, 2>> >>}]
    \cup [1 .. 5 -> {<< <<>> >>, << <<3, 3, 3, 3>> >>, << <<4, 4, 4, 4, 4>> >>}]

(* HW12: one or two addresses; texts that end with a prompt, that have one *)
(* at the start or in the middle, that have none, and that fill the buffer.*)
mcTelnetInputs ==
  LET x == "x" nl == "nl" dot == "dot" IN
    [addresses : {1, 2},
     banner : {<<x, nl, dot>>, <<x, dot, nl, dot>>, <<nl, dot>>,
               <<x, x, x, nl, dot>>, <<x, nl, dot, x>>, <<x, x>>},
     reply : {<<nl, dot>>, <<x, nl, dot>>, <<x, x, nl, dot>>,
              <<nl, dot, x, nl, dot>>, <<dot, x, dot>>, <<dot>>}]

-----------------------------------------------------------------------------
mcInit ==
  /\ Init
  /\ \/ ProgramInit
     \/ /\ program = "hash map" /\ input = <<>> /\ other = <<>>
        /\ step = "none" /\ local = <<>> /\ output = <<>>
     \/ program = "crc32" /\ Crc!Init /\ other = <<>>

mcNext ==
  \/ program = "hash map" /\ Next /\ UNCHANGED programVars
  \/ ProgramNext /\ UNCHANGED vars
  \/ program = "crc32" /\ Crc!Next /\ UNCHANGED <<program, other, vars>>

(* Only the client is asked to come to an end; no other program is ever in *)
(* one of the states in which its actions or the server's are enabled.     *)
mcSpec == mcInit /\ [][mcNext]_<<programVars, vars>> /\ Tel!Fairness

-----------------------------------------------------------------------------
(* HW10: the sum is the remainder of the division that defines it.         *)
CrcIsDivision == program = "crc32" => Crc!CrcIsDivision
=============================================================================
