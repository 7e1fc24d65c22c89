------------------------------ MODULE Programs ------------------------------
(***************************************************************************)
(* The programs that stand alone, for any inputs: the word counter's       *)
(* reader of HW3, the sequential programs HW1, HW2, HW4, HW7 and HW14, and *)
(* the client HW12.  They share nothing; each behaviour is one of one of   *)
(* them, chosen in the initial state.                                      *)
(***************************************************************************)
CONSTANTS
  ReaderInputs, EncoderInputs, WeatherInputs, RarjpegInputs, AggregateInputs,
  TelnetInputs,                          \* what each program may be given
  HeaderSize, EocdSize, MaxComment,      \* of Rarjpeg
  Size,                                  \* of Aggregates
  BUF_SIZE,                              \* of Telnet
  NUL, Junk     \* the end of a string, and what lies behind a buffer

VARIABLES
  program,      \* the program of this behaviour
  step, input, local, output,   \* the variables of its module, "step" for pc
  other         \* net in Telnet, heap in CellList and Weather

programVars == <<program, step, input, local, output, other>>

Reader == INSTANCE WordReader WITH pc <- step, Inputs <- ReaderInputs
Encoded == INSTANCE Encoder WITH pc <- step, Inputs <- EncoderInputs
Linked == INSTANCE CellList WITH pc <- step, heap <- other
Forecast == INSTANCE Weather WITH pc <- step, heap <- other,
                                  Inputs <- WeatherInputs
Archive == INSTANCE Rarjpeg WITH pc <- step, Inputs <- RarjpegInputs
Queries == INSTANCE Aggregates WITH pc <- step, Inputs <- AggregateInputs
Tel == INSTANCE Telnet WITH pc <- step, net <- other,
                                 Inputs <- TelnetInputs

ASSUME InputsAreWellFormed ==
  /\ Reader!WellFormed /\ Encoded!WellFormed /\ Forecast!WellFormed
  /\ Archive!WellFormed /\ Queries!WellFormed /\ Tel!WellFormed

-----------------------------------------------------------------------------
ProgramInit ==
  \/ program = "word reader" /\ Reader!Init /\ other = <<>>
  \/ program = "encoder" /\ Encoded!Init /\ other = <<>>
  \/ program = "cell list" /\ Linked!Init /\ input = <<>>
  \/ program = "weather" /\ Forecast!Init /\ output = <<>>
  \/ program = "rarjpeg" /\ Archive!Init /\ other = <<>>
  \/ program = "aggregates" /\ Queries!Init /\ other = <<>>
  \/ program = "telnet" /\ Tel!Init

ProgramNext ==
  /\ \/ program = "word reader" /\ Reader!Next /\ UNCHANGED other
     \/ program = "encoder" /\ Encoded!Next /\ UNCHANGED other
     \/ program = "cell list" /\ Linked!Next /\ UNCHANGED input
     \/ program = "weather" /\ Forecast!Next /\ UNCHANGED output
     \/ program = "rarjpeg" /\ Archive!Next /\ UNCHANGED other
     \/ program = "aggregates" /\ Queries!Next /\ UNCHANGED other
     \/ program = "telnet" /\ Tel!Next
  /\ UNCHANGED program

ProgramSpec == ProgramInit /\ [][ProgramNext]_programVars

-----------------------------------------------------------------------------
(* The properties of each module, for the behaviours of its program.       *)

(* HW3: the words handed to the table are those of the file.               *)
CountedWords == program = "word reader" => Reader!CountedWords

(* HW3: both passes over a file agree where they can.                      *)
PassesAgree == program = "word reader" => Reader!PassesAgree

(* HW2: what comes out is the text in UTF-8.                               *)
OutputIsUtf8 == program = "encoder" => Encoded!OutputIsUtf8

(* HW7: no use of freed memory, and the output that the source promises.   *)
HeapSafe == program = "cell list" => Linked!HeapSafe

(* HW4: memory is left alone but for the replies that are known to break   *)
(* it, and it is freed.                                                    *)
DescsInBounds == program = "weather" => Forecast!DescsInBounds

(* HW1: the entries of an archive are listed.                              *)
ListsEntries == program = "rarjpeg" => Archive!ListsEntries

(* HW14: each line shows the value of its own query.                       *)
ShowsOwnValue == program = "aggregates" => Queries!ShowsOwnValue

(* HW12: the reply is printed, all of it and no more.                      *)
PrintsReply == program = "telnet" => Tel!PrintsReply

(* HW12: the client comes to an end.                                       *)
ClientEnds == Tel!Ends
=============================================================================
