\* The programs that stand alone.  For the hash map: six colliding words, at
\* most eight insertions, tables of 2, 4 and 8 slots.
SPECIFICATION mcSpec
CONSTANTS
  w1 = w1  w2 = w2  w3 = w3  w4 = w4  w5 = w5  w6 = w6
  Words = {w1, w2, w3, w4, w5, w6}
  Hash <- mcHash
  InitSize = 2
  NULL = NULL
  MaxSize = 8
  MaxInserts = 8
  ReaderInputs <- mcReaderInputs
  EncoderInputs <- mcEncoderInputs
  WeatherInputs <- mcWeatherInputs
  RarjpegInputs <- mcRarjpegInputs
  HeaderSize = 2  EocdSize = 2  MaxComment = 3
  AggregateInputs <- mcAggregateInputs
  Size = 4
  TelnetInputs <- mcTelnetInputs
  BUF_SIZE = 4
  NUL = NUL  Junk = Junk
CHECK_DEADLOCK FALSE
INVARIANTS
  TypeOK OneCellPerWord ProbesUnbroken NoCellLost
  CountedWords PassesAgree OutputIsUtf8 CrcIsDivision HeapSafe DescsInBounds
  ListsEntries ShowsOwnValue PrintsReply
PROPERTIES ImplementsWordCount ClientEnds
