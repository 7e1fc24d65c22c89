------------------------------ MODULE Rarjpeg ------------------------------
(***************************************************************************)
(* HW1_Rarjpeg_Reader: lists the files of a ZIP archive appended to a      *)
(* picture.  It does not follow the archive's own structure: it looks for  *)
(* the signature of the end record near the end of the file, and then      *)
(* takes every signature of a directory entry, wherever it is, for one.    *)
(*                                                                         *)
(* A file is a sequence of units <<kind, n>>: "entry" and "end" are the    *)
(* two signatures, the first with the filenameLength its record holds;     *)
(* "byte" is any other content.  BelowMaximum is a faulty variant of the   *)
(* operator that follows it.                                               *)
(***************************************************************************)
EXTENDS Naturals, Sequences, SequencesExt, Ascending

CONSTANTS
  Inputs,       \* command lines: sequences of files [picture, entries, tail],
                \* an entry being a [name, extra]
  HeaderSize,   \* sizeof(struct CentralDirectoryFileHeader), 46
  EocdSize,     \* sizeof(struct EOCD), 22
  MaxComment,   \* UINT16_MAX
  Junk          \* what is printed behind a name that is cut off

VARIABLES
  pc,      \* "open", "check" and "print" for a file, and "done"
  input,
  local,   \* [i]: the argument being read
  output   \* for each file [result, names]

vars == <<pc, input, local, output>>

(* The bytes of a file.  Of a directory entry they are its record, name and *)
(* extra field; behind the directory, in the tail, is the end record.      *)
EntryUnits(e) ==
  <<<<"entry", Len(e.name)>>>> \o [k \in 1 .. HeaderSize - 1 |-> <<"byte", 0>>]
    \o e.name \o e.extra

Units(f) ==
  f.picture \o FlattenSeq([k \in DOMAIN f.entries |-> EntryUnits(f.entries[k])])
    \o f.tail

(* The offsets at which fseek() and fread() find a record of this size     *)
(* with this signature.                                                    *)
Found(file, kind, size) ==
  {i \in 0 .. Len(file) - 1 : i + size <= Len(file) /\ file[i + 1][1] = kind}

(* isRarjpegFile(): the record may be followed by a comment.               *)
BelowMaximum == 0 .. MaxComment - 1
Comments == 0 .. MaxComment

IsRarjpegFile(file) ==
  \E i \in Found(file, "end", EocdSize) : Len(file) - i - EocdSize \in Comments

(* printCont(): the name behind an entry's record.  When the file ends in  *)
(* the middle of it the rest of the buffer is not initialised.             *)
NameAt(file, i, rest) ==
  LET first == i + HeaderSize + 1
      last == i + HeaderSize + file[i + 1][2]
  IN IF last <= Len(file) THEN SubSeq(file, first, last)
     ELSE SubSeq(file, first, Len(file)) \o rest

NamesOf(file, rest) ==
  LET offsets == Ascending(Found(file, "entry", HeaderSize))
  IN [k \in DOMAIN offsets |-> NameAt(file, offsets[k], rest)]

-----------------------------------------------------------------------------
Init ==
  /\ input \in Inputs
  /\ pc = "open" /\ local = [i |-> 1] /\ output = <<>>

(* The loop of main() goes on to the next argument.                        *)
NextFile(result, names) ==
  /\ output' = Append(output, [result |-> result, names |-> names])
  /\ local' = [local EXCEPT !.i = @ + 1]
  /\ pc' = IF local.i = Len(input) THEN "done" ELSE "open"

(* fopen() and stat() of the file.                                         *)
Open ==
  /\ pc = "open"
  /\ \/ pc' = "check" /\ UNCHANGED <<local, output>>
     \/ NextFile("unreadable", <<>>)
  /\ UNCHANGED input

Check ==
  /\ pc = "check"
  /\ IF IsRarjpegFile(Units(input[local.i]))
     THEN pc' = "print" /\ UNCHANGED <<local, output>>
     ELSE NextFile("non-Rarjpeg", <<>>)
  /\ UNCHANGED input

PrintCont ==
  /\ pc = "print"
  /\ \E rest \in {<<>>, <<Junk>>} :
       NextFile("Rarjpeg", NamesOf(Units(input[local.i]), rest))
  /\ UNCHANGED input

Next == Open \/ Check \/ PrintCont

Spec == Init /\ [][Next]_vars

-----------------------------------------------------------------------------
(* What the proofs assume of the constants.                                *)
Bytes == Seq({"entry", "end", "byte"} \X Nat)

WellFormed ==
  /\ Inputs \subseteq
       Seq([picture : Bytes, entries : Seq([name : Bytes, extra : Bytes]),
            tail : Bytes]) \ {<<>>}
  /\ HeaderSize \in Nat \ {0} /\ EocdSize \in Nat \ {0} /\ MaxComment \in Nat

(* An archive's end record comes with a comment that may be as long as its *)
(* length field can tell, and no signature occurs by accident.             *)
Plain(s) == \A k \in DOMAIN s : s[k][1] = "byte"

PlainEntries(f) ==
  \A k \in DOMAIN f.entries : Plain(f.entries[k].name) /\ Plain(f.entries[k].extra)

Intact(f) ==
  /\ f.tail # <<>> /\ f.tail[1][1] = "end"
  /\ Len(f.tail) \in EocdSize .. EocdSize + MaxComment
  /\ Plain(f.picture) /\ PlainEntries(f) /\ Plain(Tail(f.tail))

(* The entries of such an archive are listed, all by their names and in    *)
(* their order, whatever picture is in front and whatever files were       *)
(* before it on the command line; and a file with no end record, or with   *)
(* more behind it than a comment, is not taken for an archive.             *)
ListsEntries ==
  \A k \in DOMAIN output :
    LET f == input[k]
        fits == output[k].result # "unreadable"
    IN /\ fits /\ Intact(f) =>
            output[k] = [result |-> "Rarjpeg",
                         names |-> [e \in DOMAIN f.entries |-> f.entries[e].name]]
       /\ /\ fits /\ Plain(f.picture) /\ PlainEntries(f)
          /\ \/ Plain(f.tail)
             \/ Plain(Tail(f.tail)) /\ Len(f.tail) > EocdSize + MaxComment
          => output[k].result = "non-Rarjpeg"
=============================================================================
