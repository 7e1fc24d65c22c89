------------------------------ MODULE Encoder ------------------------------
(***************************************************************************)
(* HW2_Character_Encoding: rewrites a text from one of three single-byte   *)
(* encodings as UTF-8, byte by byte.                                       *)
(*                                                                         *)
(* A byte is a number below 256, a character its Unicode number.  The      *)
(* results of fputc() and fclose() are not looked at; here they succeed.   *)
(* Uncut is a faulty variant of the operator that follows it.              *)
(***************************************************************************)
EXTENDS Naturals, Sequences, Ascending

CONSTANT Inputs   \* runs: [encoding, text], the second argument and the file

VARIABLES
  pc,      \* "args", "open", "copy", and the ends "usage", "failed", "done"
  input,
  local,   \* [at]: how much fgetc() has read
  output   \* the bytes of outfile

vars == <<pc, input, local, output>>

(* Characters of the bytes from 0x80 on.  One is undefined in cp1251, and  *)
(* written down as 0.                                                      *)
cp1251 == <<
  1026, 1027, 8218, 1107, 8222, 8230, 8224, 8225, 8364, 8240, 1033, 8249,
  1034, 1036, 1035, 1039, 1106, 8216, 8217, 8220, 8221, 8226, 8211, 8212,
  0, 8482, 1113, 8250, 1114, 1116, 1115, 1119, 160, 1038, 1118, 1032,
  164, 1168, 166, 167, 1025, 169, 1028, 171, 172, 173, 174, 1031,
  176, 177, 1030, 1110, 1169, 181, 182, 183, 1105, 8470, 1108, 187,
  1112, 1029, 1109, 1111, 1040, 1041, 1042, 1043, 1044, 1045, 1046, 1047,
  1048, 1049, 1050, 1051, 1052, 1053, 1054, 1055, 1056, 1057, 1058, 1059,
  1060, 1061, 1062, 1063, 1064, 1065, 1066, 1067, 1068, 1069, 1070, 1071,
  1072, 1073, 1074, 1075, 1076, 1077, 1078, 1079, 1080, 1081, 1082, 1083,
  1084, 1085, 1086, 1087, 1088, 1089, 1090, 1091, 1092, 1093, 1094, 1095,
  1096, 1097, 1098, 1099, 1100, 1101, 1102, 1103 >>

iso8859 == <<
  128, 129, 130, 131, 132, 133, 134, 135, 136, 137, 138, 139,
  140, 141, 142, 143, 144, 145, 146, 147, 148, 149, 150, 151,
  152, 153, 154, 155, 156, 157, 158, 159, 160, 1025, 1026, 1027,
  1028, 1029, 1030, 1031, 1032, 1033, 1034, 1035, 1036, 173, 1038, 1039,
  1040, 1041, 1042, 1043, 1044, 1045, 1046, 1047, 1048, 1049, 1050, 1051,
  1052, 1053, 1054, 1055, 1056, 1057, 1058, 1059, 1060, 1061, 1062, 1063,
  1064, 1065, 1066, 1067, 1068, 1069, 1070, 1071, 1072, 1073, 1074, 1075,
  1076, 1077, 1078, 1079, 1080, 1081, 1082, 1083, 1084, 1085, 1086, 1087,
  1088, 1089, 1090, 1091, 1092, 1093, 1094, 1095, 1096, 1097, 1098, 1099,
  1100, 1101, 1102, 1103, 8470, 1105, 1106, 1107, 1108, 1109, 1110, 1111,
  1112, 1113, 1114, 1115, 1116, 167, 1118, 1119 >>

koi8 == <<
  9472, 9474, 9484, 9488, 9492, 9496, 9500, 9508, 9516, 9524, 9532, 9600,
  9604, 9608, 9612, 9616, 9617, 9618, 9619, 8992, 9632, 8729, 8730, 8776,
  8804, 8805, 160, 8993, 176, 178, 183, 247, 9552, 9553, 9554, 1105,
  9555, 9556, 9557, 9558, 9559, 9560, 9561, 9562, 9563, 9564, 9565, 9566,
  9567, 9568, 9569, 1025, 9570, 9571, 9572, 9573, 9574, 9575, 9576, 9577,
  9578, 9579, 9580, 169, 1102, 1072, 1073, 1094, 1076, 1077, 1092, 1075,
  1093, 1080, 1081, 1082, 1083, 1084, 1085, 1086, 1087, 1103, 1088, 1089,
  1090, 1091, 1078, 1074, 1100, 1099, 1079, 1096, 1101, 1097, 1095, 1098,
  1070, 1040, 1041, 1062, 1044, 1045, 1060, 1043, 1061, 1048, 1049, 1050,
  1051, 1052, 1053, 1054, 1055, 1071, 1056, 1057, 1058, 1059, 1046, 1042,
  1068, 1067, 1047, 1064, 1069, 1065, 1063, 1066 >>

(* getCurrCode(), which returns NULL for any other name.  The names are    *)
(* those it compares, after its tolower() of the first letter.             *)
charsets == [encoding \in {"cp1251", "koi8", "iso8859"} |->
               CASE encoding = "cp1251" -> cp1251
                 [] encoding = "koi8" -> koi8
                 [] encoding = "iso8859" -> iso8859]

ASCII_CONSTANT == 128

(* n | bits, of a byte, for 0x80, 0xC0, 0xE0 and 0xF0.                     *)
Or(bits, n) ==
  CASE bits = 128 -> 128 + (n % 128)
    [] bits = 192 -> 192 + (n % 64)
    [] bits = 224 -> 224 + (n % 32)
    [] bits = 240 -> 240 + (n % 16)

(* The last byte of a character, cut to six bits.                          *)
Uncut(symbol) == Or(128, symbol)
LastByte(symbol) == Or(128, symbol % 64)

(* printUtf8Char().  fputc() keeps the low eight bits of what it is given. *)
PrintUtf8Char(symbol) ==
  CASE symbol < 2048 ->
         <<Or(192, symbol \div 64), LastByte(symbol)>>
    [] 2048 <= symbol /\ symbol < 65536 ->
         <<Or(224, symbol \div 4096), Or(128, symbol \div 64),
           LastByte(symbol)>>
    [] 65536 <= symbol ->
         <<Or(240, symbol \div 262144), Or(128, symbol \div 4096),
           Or(128, symbol \div 64), LastByte(symbol)>>

Init ==
  /\ input \in Inputs
  /\ pc = "args" /\ local = [at |-> 0] /\ output = <<>>

Arguments ==
  /\ pc = "args"
  /\ pc' = IF input.encoding \in DOMAIN charsets THEN "open" ELSE "usage"
  /\ UNCHANGED <<input, local, output>>

Open ==
  /\ pc = "open"
  /\ pc' \in {"copy", "failed"}
  /\ UNCHANGED <<input, local, output>>

Copy ==
  /\ pc = "copy" /\ local.at < Len(input.text)
  /\ LET chr == input.text[local.at + 1] IN
       IF chr < ASCII_CONSTANT
       THEN output' = Append(output, chr)
       ELSE output' = output \o PrintUtf8Char(charsets[input.encoding][chr - ASCII_CONSTANT + 1])
  /\ local' = [local EXCEPT !.at = @ + 1]
  /\ UNCHANGED <<pc, input>>

(* feof() is only true after fgetc() has returned EOF, which is -1 and     *)
(* goes to outfile as a byte.  A read that fails, at any point, looks the  *)
(* same.                                                                   *)
EndOfFile ==
  /\ pc = "copy" /\ local.at <= Len(input.text)
  /\ output' = Append(output, 255)
  /\ pc' = "done"
  /\ UNCHANGED <<input, local>>

Next == Arguments \/ Open \/ Copy \/ EndOfFile

Spec == Init /\ [][Next]_vars

-----------------------------------------------------------------------------
(* What the proofs assume of the constant.                                 *)
WellFormed == Inputs \subseteq [encoding : STRING, text : Seq(0 .. 255)]

(* UTF-8 by its definition: a character is a byte and the continuations    *)
(* that follow it, in the shortest form that holds it.                     *)
Invalid == 1114112
Continuation == 128 .. 191

Character(s) ==
  CASE Len(s) = 1 /\ s[1] < 128 -> s[1]
    [] Len(s) = 2 /\ s[1] \in 194 .. 223 -> (s[1] - 192) * 64 + s[2] - 128
    [] Len(s) = 3 /\ s[1] \in 224 .. 239 /\ (s[1] = 224 => s[2] >= 160) ->
         (s[1] - 224) * 4096 + (s[2] - 128) * 64 + s[3] - 128
    [] OTHER -> Invalid

Decoded(s) ==
  LET first == Ascending({i \in DOMAIN s : i = 1 \/ s[i] \notin Continuation})
      Last(k) == IF k = Len(first) THEN Len(s) ELSE first[k + 1] - 1
  IN [k \in DOMAIN first |-> Character(SubSeq(s, first[k], Last(k)))]

(* What a byte stands for.  The Russian letters run in the order of the    *)
(* alphabet in two of the encodings and in that of the Latin one in the    *)
(* third; U+0410 is the first capital, U+0430 the first small letter.      *)
KoiOrder == << 30, 0, 1, 22, 4, 5, 20, 3, 21, 8, 9, 10, 11, 12, 13, 14,
               15, 31, 16, 17, 18, 19, 6, 2, 28, 27, 7, 24, 29, 25, 23, 26 >>

Meaning(encoding, chr) ==
  CASE chr < 128 -> chr
    [] encoding = "cp1251" /\ chr >= 192 -> 1040 + chr - 192
    [] encoding = "iso8859" /\ chr \in 176 .. 239 -> 1040 + chr - 176
    [] encoding = "koi8" /\ chr \in 192 .. 223 -> 1072 + KoiOrder[chr - 191]
    [] encoding = "koi8" /\ chr >= 224 -> 1040 + KoiOrder[chr - 223]
    [] OTHER -> charsets[encoding][chr - 127]

Defined(i) == \A k \in DOMAIN i.text : i.encoding # "cp1251" \/ i.text[k] # 152

(* The file that comes out is UTF-8, in shortest form, of the text that    *)
(* was read, followed by one byte 0xFF that is no UTF-8: three bytes hold   *)
(* every character of the tables although the middle one is not cut to six *)
(* bits, and a letter comes out the same from all encodings.               *)
OutputIsUtf8 ==
  pc = "done" /\ Defined(input) =>
    Decoded(output) =
      [k \in 1 .. local.at |-> Meaning(input.encoding, input.text[k])]
        \o <<Invalid>>
=============================================================================
