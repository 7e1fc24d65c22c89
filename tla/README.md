# Verification of OTUS-C-Learning

The repository is a set of independent C programs, the exercises HW1 to HW17 of
a course. They share no code at run time, so there is one model per program and
nothing that composes them; `Programs` only puts the smaller ones into one
specification. This directory holds TLA+ models of the programs
with state worth checking, TLC configurations, and TLAPS proofs.

## Inventory

| Part | State it keeps | What is hard | Model |
|---|---|---|---|
| HW9_daemon, `daemon_stat` service | configuration names, lock file, socket, signal dispositions, the accepted client | races between starts, crashes that leave a socket, handlers that run between any two steps, clients that vanish | `Daemon`, `SingleService` |
| HW3_Hashmap, word counter | open-addressing table, doubled when full; two passes over a file | search order after doubling, lost or doubled cells, two notions of a word | `HashMap`, `WordCount`, `WordReader` |
| HW11_threads, log analyzer | list of files and tables per thread, tables of the total | schedule of the threads, cells shared by the merge, integers in the sort | `LogAnalyzer` |
| HW6_LOGGER, logging library | stream, ownership of it, mutex, verbosity | flush and stack trace outside of the mutex, set-up calls in any order | `Logger`, `Journal` |
| HW17 Taxi, price monitor | timer, reply, row in a database, icon | failures between the steps of a callback, result of a timer callback | `Taxi` |
| HW12 telnet client | one connection, one buffer | a stream cut anywhere, a server that hangs up, a full buffer | `Telnet` |
| HW2 encoder | position in a file | tables, boundaries of UTF-8, end of file | `Encoder` |
| HW10 CRC32 | the word so far | a table of 256 words | `Crc32` |
| HW7 list | two lists on the heap | next pointer read around a `free()`, `malloc()` that fails | `CellList` |
| HW4 weather client | reply of a service, blocks on the heap | replies in pieces, allocations that fail, an array with the size of another | `Weather` |
| HW1 Rarjpeg reader | position in a file | signatures by accident, records cut by the end of the file, the longest comment | `Rarjpeg` |
| HW14 aggregates | one static buffer for five values | what is left in it of an earlier value, values longer than it | `Aggregates` |
| HW15 cube, HW8 | none | drawing, no source | not modelled |

The programs interact with the outside only: kernel (files, locks, sockets,
signals, threads), stdio, GLib, GTK, libcurl, json-c and libpq. These are
modelled by how the programs use them; the definitions for them are marked
external in `PROJECT.json`, which also lists every hazard with its line.

What makes each part correct:

- daemon: one daemon at a time; a pid file that names it; a socket that can be
  reached; every client served or cut off; a start that ends; SIGQUIT that stops;
- hash map: the counts are those of the words inserted;
- log analyzer: the report does not depend on schedule, order or threads;
- logger: whole records, each in its file, once, when the call returns; usable
  mutex; no file left open;
- taxi: one timer for ever, an icon that agrees with the stored row;
- word reader, encoder, CRC, archive lister, aggregates: the output that the definition of
  the format asks for, and a statement of the inputs where it is not;
- telnet client: the reply and nothing else, and an end, however the network
  cuts the stream;
- list, weather client: no use of memory outside a live block, but for the
  cases named, and none left behind.

## Modules

Each component module holds CONSTANTS with a named assumption, VARIABLES, one
type invariant, one action per step or handler, `Spec`, a `FairSpec` where
liveness is checked, and the properties. The sequential programs are smaller:
their constants are inputs (`WellFormed` says of which kind), and their type
invariants are in the proofs. `MC*` modules and `*.cfg` files give the
instances; `*Proofs` modules hold the theorems. Operators that stand just
before another one and that no action uses (`LockTakenIgnored`, `SameSlot`,
`NoLock`, ...) are faulty variants: a run with the variant in place of the
operator has to break the property that the list below names.

### Daemon and SingleService (HW9_daemon)

An element of `Procs` is one run of the program. `pc` walks through `main()`:
`Start` (arguments, first `read_conf()`), `Daemonize`, `TakeLock` or
`AlreadyRunning`, `Truncate`, `WritePid`, `InstallHup`, `InstallQuit`,
`Socket`, `Bind` or `BindFails`, `Listen`, then `Accept`, `Stat`, `Format`,
`Send` for ever. The last three are separate because a reload can come between
them. `SigHup` and `SigQuit` are whole handlers, since `sa_mask` keeps the other
signals out; both return into `main()`, and `Resume` lets a blocked `accept()`
fail with EINTR (`sa_flags` has no SA_RESTART). `ReadConf` is the reading of
the three keys in order, with its early returns and with GLib's rule that the
first error stays, which makes a bad value after a missing key count as missing.
`Die` is what the kernel does at the end of a process, however it comes about:
locks are freed, the socket file stays as "stale".

The file system maps a path to nothing, a file, the socket of a run or a stale
socket. The lock is the `fcntl` lock of a path: unlinking the path takes the
lock out of the way of later starts, which is how SIGQUIT could break it. An
administrator edits the ini file and removes stale sockets.

`SingleService` is the abstract promise: one owner at a time, who starts, serves
and perhaps closes, and answers clients once it has begun to serve. `Daemon`
implements it (`ImplementsService`, proved in `RunsAreOneService`) with the run that is past
`already_running()` as the owner.

Properties hold under `Sane`: all runs are daemons (`-test` takes no lock), the
readable ini files agree on the lock file and never use its path for the
socket. `read_conf()` gives all three names the same default, so without `Sane`
two daemons can run: with SocketName and LockFile both missing SIGQUIT unlinks
the lock file. TLC finds that run when the instance has such a file.

### HashMap and WordCount (HW3_Hashmap)

`Call` is `main()` handing a word over, `InsertKey` a whole search that finds
the word or an empty slot, `RebaseKey` the start of a doubling, `Rehash` one
turn of its outer loop, `Swap` its end and the repeated `insertKey()`. The loop
over slots with its `red_line` is not replayed: `StopsAt` says which slot it
stops at, by distance from the home slot. The hash function is a constant, so
any collisions are covered. `WordCount` counts each word that is passed in,
once; `HashMap` implements it, which is proved.

### WordReader (HW3_Hashmap)

`Measure` and `Measured` are `findMaxWordSize()`, `Letter`, `Newline`, `Space`
and `EndOfFile` the loop of `main()`; a `read()` may fail in either pass, and a
failed first pass goes unnoticed. A write behind `bufWord` may do no harm or end
in "undefined", of which nothing is claimed; `top` follows how far the writes
go, those of a NUL included. `CountedWords` gives the words without replaying
the loop: the runs between spaces of the file without its newlines. `Runs` and
`Joined` say which positions of the file count and put them in order with
`Ascending`, a module of its own that `Rarjpeg` and `Encoder` share: a
definition by positions needs no recursion, so that proofs can use it. `PassesAgree` says for which files the array is long enough, and that
even then the NUL of the longest word is one byte behind it.

### LogAnalyzer (HW11_threads)

`Deal` is one turn of the `readdir()` loop, in any order of the directory; then
`Create`, `Join`, `Union` per index, `Report`, `FreeThreadData`, beside the
threads, which read a line per step. `urlOf` and `refOf` are the tables of the
total: they map a key to the thread whose cell the total has taken over, so
that adding to the total changes that thread's table (`Merged`), as
`union_hash_func()` does through the pointer. `thread_print_error()` is declared
noreturn and returns; after it the model allows a crash or a thread that comes
out with no line read. `Compare` returns an int and `Sorted` is every result
that `qsort()` may leave: any order, when `compare()` is consistent with none.

### Logger (HW6_LOGGER)

Streams have a buffer and a file. `Lock`, `Record` (three pieces), `Unlock`,
`Flush` are `print_level_msg()`; `Header`, `HeaderFlush` and `Frames` are
`print_backtrace()`, whose frames go past the buffer. The set-up calls
`InitFileLog`, `CloseInstead` (the same function with a file open),
`InitFstream`, `ClearSrc` and `SetVerbosity` happen while no thread logs, as in
`test/main.c`. After `CloseInstead` the library holds a closed stream; any use
of it is undefined and left out, and a new stream can be set.

`Journal` is the abstract promise: a thread asks for a record in the stream that
is set, the records asked for reach the file of that stream, perhaps several at
once, and only then their threads go on; a file loses records only when it is
opened anew. `Logger` implements it (`ImplementsJournal`): a record is in the
journal from its newline on, and its thread waits while the newline is not yet
written or still in the buffer, whoever flushes it. `RecordsWhole` compares each
piece of a record with the one before it in its stream, whatever headings and
frames lie between; `TraceUnderHeader` asks for a heading of the same thread
before the frames, with no other frames of that thread between.

### Taxi (HW17_FinishProject_Taxi)

`Dispatch` is the GTK loop calling the timer; `DoGet`, `NoPrice` or `Parse` or
`ParseAborts`, `InsertPrice` or `InsertError`, `SetIcon`, `Return` are the
callback. A result of 0 removes the timer, any other keeps it (`Kept`). Prices
are in quarters of a rouble, so that the rounding of `%.0f` and its ties occur.
A reply without options makes the program read outside of an array: the model
lets it read any price (`wild`). A run may end at every step and a new one
start; the row stays in the table.

### The programs that stand alone

- `Telnet` (HW12): `Recv` returns any number of the bytes that the server has
  sent, `RecvNothing` is a hang-up or a full buffer, which the code cannot tell
  apart. `AtPrompt` reads `buffer[len - 2]`, which for one byte is outside of
  the array: either answer is possible. The server and the network are external.
- `Encoder` (HW2): the tables of `chars.h`, as numbers, and `printUtf8Char()`
  with the cuts that its types and `fputc()` make. `Decoded` is UTF-8 by its
  definition, and `Meaning` gives the Russian letters by the alphabet, not by
  the tables. The end of the file puts a byte 0xFF behind the text (`main.c:41`).
- `Crc32` (HW10): the table and `getCrc32()` on pairs of 16-bit halves;
  `CrcIsDivision` divides polynomials, given as sets of exponents.
- `CellList` (HW7): `m()`, `f()` and `add_element()` on a heap whose cells are
  live or freed.
- `Weather` (HW4): which blocks are allocated, how long they are and how far
  they are used; the reply counts bytes, conditions and descriptions only.
- `Rarjpeg` (HW1): a file is a sequence of units with the two signatures among
  them. `Units` builds archives by the layout of ZIP; `IsRarjpegFile` and
  `NamesOf` scan for signatures as the code does.
- `Aggregates` (HW14): `Copied` is the `memcpy()` of all but the last byte of
  the buffer, `Cut` the NUL after it; `libpq` gives a row, no row or an error.

They have the variables `pc`, `input`, `local` (the locals of the C functions),
`output`, and one for the network or the heap. `Programs` chooses a program in
the initial state and instantiates its module; its constants are what the
modules ask for, under the assumption `InputsAreWellFormed`. It covers the
programs of this list, `WordReader` among them, except `Crc32`, whose module uses
bitwise operators. `MCPrograms` gives the constants their values for TLC and adds
`Crc32` and `HashMap` to the same run.

## Runs

All runs end within a minute on two workers.

| Run | Checks | Instance |
|---|---|---|
| `daemon_safety` | `TypeOK`, `SingleDaemon`, `PidFileTruth`, `ServingReachable`, `WaitingIsHeld`, `ImplementsService` | 2 runs, 2 clients, 5 ini files, 2 signals, 1 edit; 492 000 states up to symmetry |
| `daemon_liveness` | `ClientServed`, `StartupEnds` | 2 runs, fairness; 30 000 states |
| `daemon_reply` | `ReplyNamesMeasuredFile`, violated | a reload during a reply |
| `daemon_quit` | `QuitStops`, violated | SIGQUIT, fairness |
| `daemon_unlink` | `QuitRemovesSocket`, violated | a reload before SIGQUIT |
| `programs` | `TypeOK`, `OneCellPerWord`, `ProbesUnbroken`, `NoCellLost`, `ImplementsWordCount` | hash map: 6 words, 8 insertions, tables of 2, 4, 8; 124 000 of the 191 000 states |
| | `CountedWords`, `PassesAgree` | all texts of up to 5 symbols |
| | `OutputIsUtf8`, `CrcIsDivision` | every byte in every encoding; every file of one byte |
| | `HeapSafe`, `DescsInBounds` | every allocation may fail |
| | `ListsEntries` | 468 files, alone or after another |
| | `ShowsOwnValue` | 486 series of five answers, a buffer of 4 |
| | `PrintsReply`, `ClientEnds` | 72 dialogues, a buffer of 4, every cut; fairness |
| `log_analyzer` | `TypeOK`, `FilesDealt`, `MergeAfterJoin`, `ReportIsTotal`, `TopIsHeaviest`, `Finishes` | 3 threads, 4 files, one unreadable; 49 000 states |
| `log_overflow` | `TopIsHeaviest`, violated | totals that differ by more than an int |
| `logger` | `TypeOK`, `RecordsWhole`, `TraceUnderHeader`, `MutexUsable`, `NoFileLeaked`, `RecordsFinish`, `ImplementsJournal` | 2 threads, 3 records, 3 set-up calls; 308 000 states |
| `logger_reopen` | `TrueMeansOpen`, violated | the same, a second `init_file_log()` |
| `taxi` | `TypeOK`, `OneTimer`, `IconAgreesWithRow`, `RequestsAgain` | 3 configurations, 7 replies; 1 068 states, no bound |
| `taxi_config` | `ConfigComplete`, violated | a key missing |

Why the bounds are enough. Two runs of the daemon are what a race for the lock
takes; a third only repeats one of their roles. Two signals allow a reload
followed by a SIGQUIT, in one run or in both, and one edit allows the reload to
change something; the five ini files reach each branch of `read_conf()`. A queue
of one place is full with the second client. Six words fill tables of 2 and 4
and come round the end of each; the doubling is done twice, once from a table
that was itself rehashed. Three threads with four files give one thread two
files, and URLs and referers repeat within a file and across threads, which is
when the shared cells matter. `IntMod` stands for 2^32; the totals of the
passing instance stay below half of it and those of `log_overflow` do not. Three
records of two threads give one thread two records around one of the other;
three set-up calls give any order of open, switch and clear after a first
stream. `Taxi` needs no bound. One byte per encoding is every character of the
tables, since a byte is translated by itself; one byte per file is every word of
the CRC table, since the index of the first byte takes all 256 values, and the
longer files combine words. Texts of five symbols hold two words with any
separators between and around them; one more text has words of three lengths. A
telnet buffer of four bytes is filled by the longest banner, and texts end with
a prompt, have one at the start or in the middle, or none. Sizes of records and
of the longest comment are scaled down in `Rarjpeg` (2, 2, 3 for 46, 22, 65535),
and the buffer of `Aggregates` to 4 for 1024; only their sums and comparisons
matter. The inputs are `ReaderInputs` to `TelnetInputs`. `MaxSignals`,
`MaxEdits`, `MaxInserts`, `MaxSize`, `MaxRecords` and `MaxCalls` are all the
bounds there are.

The runs allow a stop (CHECK_DEADLOCK FALSE) where the system stops: all runs of
the daemon are dead or wait for clients, the words are all inserted, the
analyzer and the programs of `programs` have ended, the records are written. `Taxi` never stops.

### Fairness

- `Daemon`: weak fairness of `main()` of each run, since the kernel schedules
  every process that can take a step. None is assumed of signals, clients, the
  administrator or crashes.
- `LogAnalyzer` and `Logger`: weak fairness of `main()` and of each thread, for
  the same reason. For a mutex weak fairness is enough here because the number
  of records is bounded.
- `Telnet`: weak fairness of the client, which the kernel schedules, and of
  `Answer`: the server says what it has to say, unless it hangs up or the
  connection breaks, which the client is told. Without `Answer` it would wait
  for ever, since it sets no time limit. The claim is for dialogues whose texts
  end with their only prompts and fit the buffer; a server that sends a prompt
  with more text behind it and waits leaves the client waiting.
- `Taxi`: weak fairness of `Dispatch` only, the GTK loop running a timer that is
  due. Nothing is assumed of the service or the database: `do_get()` sets no
  time limit and may wait for ever.

### What the violations show

- `ReplyNamesMeasuredFile`: `main.c:103` and `main.c:110` read `file_name` twice;
  a reload in between gives the size of one file under the name of another.
- `QuitStops`: `daemon_stat.service:9` stops the service with SIGQUIT, whose
  handler returns into an accept loop that nothing ends.
- `QuitRemovesSocket`: the handler unlinks what `socket_name` is now, not what
  was bound (`main.c:28-30`).
- `TopIsHeaviest`: `hash.c:22` returns the difference of two `size_t` as an int.
- `TrueMeansOpen`: `sLogger.c:12-16` returns the stream it has just closed.
- `ConfigComplete`: `db_config.c:49-66` only and-s into a flag that starts false,
  so the error of line 69 is never reported.

### Which faulty variant breaks what

| Module | Variant, the slip it stands for | Broken property |
|---|---|---|
| Daemon | `ValueOfUnchecked`, a bad value missed after a missing key | `TypeOK` |
| | `LockTakenIgnored`, result of `lockfile()` not looked at | `SingleDaemon`, `ImplementsService` |
| | `UnlinkedLock`, SIGQUIT removes the lock file | `PidFileTruth` |
| | `ClosedNot`, SIGQUIT unlinks without closing | `ServingReachable` |
| | `AfterSendUnclosed`, `close(msgsock)` left out | `WaitingIsHeld`, `ClientServed` |
| | `AlreadyRunningWaits`, a lock call that blocks | `StartupEnds` |
| HashMap | `PlusTwo`, "increase by 2" read literally | `TypeOK` |
| | `AnyWord`, keys not compared | `OneCellPerWord` |
| | `SameSlot`, cells copied to the slot they had | `ProbesUnbroken` |
| | `OnlyToTheEnd`, no second half of the search | `NoCellLost` |
| | `Forgotten`, no `insertKey()` after the doubling | `ImplementsWordCount` |
| WordReader | `NoLastWord`, the word at the end of the file forgotten | `CountedWords` |
| | `OverNewline`, a newline measured as a part of a word | `PassesAgree` |
| Encoder | `Uncut`, `& 0x3F` left out for the last byte | `OutputIsUtf8` |
| Crc32 | `Zero`, the word not inverted at the start | `CrcIsDivision` |
| CellList | `After`, the next pointer read after the call | `HeapSafe` |
| Weather | `NoRoomForNul`, `+ 1` left out in `realloc()` | `DescsInBounds` |
| Rarjpeg | `BelowMaximum`, `<` for `<=` | `ListsEntries` |
| Aggregates | `Kept`, the buffer not emptied first | `ShowsOwnValue` |
| Telnet | `AnyDot`, the newline before the dot not looked at | `PrintsReply` |
| | `PromptInPiece`, the prompt looked for in the new bytes only | `ClientEnds` |
| LogAnalyzer | `Everything`, result of the parser not looked at | `TypeOK` |
| | `Turn`, a wrong index for the next file | `FilesDealt` |
| | `FirstOnly`, only the first thread joined | `MergeAfterJoin` |
| | `LoopIndex`, the address of the loop variable passed | `ReportIsTotal` |
| | `Ascending`, operands swapped | `TopIsHeaviest` |
| | `Stuck`, `continue` before the line is left behind | `Finishes` |
| Logger | `Mixed`, the wrong variable cleared into `fs` | `TypeOK` |
| | `NoLock`, no `mtx_lock()` | `RecordsWhole` |
| | `NoFlush`, `Unflushed`, an `fflush()` left out | `ImplementsJournal`, `TraceUnderHeader` |
| | `BareReset`, no `mtx_init()` | `MutexUsable` |
| | `KeepFile`, no `fclose()` on a switch | `NoFileLeaked` |
| | `Held`, no `mtx_unlock()` | `RecordsFinish` |
| Taxi | `Narrow`, the price printed as a byte | `TypeOK` |
| | `OneToo`, `return 1` beside a new timer | `OneTimer` |
| | `ZeroToo`, a failure returned as 0 | `RequestsAgain` |
| | `AnyStatus`, result of the insertion not looked at | `IconAgreesWithRow` |

## Proofs

Most theorems are of the form `Spec => []Inv`, proved from `Init => IInv`,
`IInv /\ [Next]_vars => IInv'` and `IInv => Inv`, with one lemma or step per
action; three are refinements, `Spec => Abstract!Spec`, proved from an initial
state that maps to an initial state and steps that map to a step or a stutter.
They hold for all values of the constants that satisfy the named assumption of
the module (`DaemonAssumption`, `HashMapAssumption`, ...), which TLC evaluates
in the runs; a further hypothesis is part of the theorem and named below. Every
property that a run checks and that holds, other than liveness and
`CrcIsDivision`, is stated by a theorem.

| Module | Theorems and the property each states |
|---|---|
| `DaemonProofs` | `TypeCorrect`, `OneDaemonAtATime` (`SingleDaemon`), `PidFileNamesDaemon` (`PidFileTruth`), `ListenerReachable` (`ServingReachable`), `ClientsAreHeld` (`WaitingIsHeld`), `RunsAreOneService` (`ImplementsService`) |
| `HashMapProofs` | `TypeCorrect`, `WordsHaveOneCell` (`OneCellPerWord`), `CellsAreFound` (`ProbesUnbroken`), `CellsAreMoved` (`NoCellLost`), `CountsWords` (`ImplementsWordCount`) |
| `LogAnalyzerProofs` | `TypeCorrect`, `MergesAfterJoin` (`MergeAfterJoin`), `FilesAreDealt` (`FilesDealt`), `ReportsTotal` (`ReportIsTotal`), `TopIsInOrder` (`TopIsHeaviest`) |
| `LoggerProofs` | `TypeCorrect`, `MutexStaysUsable` (`MutexUsable`), `FilesAreClosed` (`NoFileLeaked`), `RecordsStayWhole` (`RecordsWhole`), `TracesUnderHeadings` (`TraceUnderHeader`), `LogIsAJournal` (`ImplementsJournal`) |
| `TaxiProofs` | `TypeCorrect`, `TimerStaysSingle` (`OneTimer`), `IconMatchesRow` (`IconAgreesWithRow`) |
| `TelnetProofs` | `ReplyIsPrinted` (`PrintsReply`) |
| `MemoryProofs` | `BlocksAreRespected` (`DescsInBounds`), `LinesAreOwn` (`ShowsOwnValue`), `CellsAreSafe` (`HeapSafe`) |
| `FileProofs` | `EntriesAreListed` (`ListsEntries`), `WordsAreCounted` (`CountedWords`), `BothPassesAgree` (`PassesAgree`), `TextIsUtf8` (`OutputIsUtf8`) |

### Daemon

`TypeCorrect` and `ClientsAreHeld` need `DaemonAssumption` only; the others also
assume `Sane`. `SingleDaemon` is not inductive: it speaks of runs past the lock
and not of the lock. `IInv` adds that each run past it holds the lock of the one
lock path (`LockHeld`), that the names a run has read come from the ini files,
so that no socket name is the lock file (`NamesKnown`: this is what keeps a
SIGQUIT from unlinking the lock), that runs are daemons (`Daemons`), and that
the path of a bound, open socket names its run (`SocketNamed`).

`WaitingIsHeld` counts places with a cardinality. `Held` says the same with a
witness and uniqueness, and also that a client that has not connected, or has
been answered, is in no place at all: without that a new connection could be the
second place of its client. The refinement needs both invariants and
`SocketStage`, which ties the state of a socket to the step of `main()`: the
abstract owner goes from starting to serving at `listen()` and at no other step.
Each of the daemon's actions is then a step of the owner, of a client, or none;
a death hands the service to nobody, since `OneDaemonAtATime` leaves no second
run past the lock.

### Hash map

The properties hold together: a word without a cell is stored where its search
stops, so every slot nearer to its home is taken by another word
(`ProbesUnbroken`), and a word with a cell is met before any empty slot
(`OneCellPerWord` needs `ProbesUnbroken`). While a table is doubled, the words
still to be placed are not yet in the new table, and the cells placed are those
of the slots passed (`NoCellLost`). `CountsWords` follows: `CountOf` chooses a
cell, and `OneCellPerWord` makes the choice the cell that `insertKey()` changed;
the swap leaves every count as it was because the new table holds the cells of
the old one. The word that waits for a doubling is counted by the repeated
`insertKey()`, which finds room, since the table is twice as large.

### Log analyzer

`IInv` is `TypeOK`, `Phases` (the step of `main()` tells which threads run:
`MergeAfterJoin` is a part of it), `Dealt` (lists differ by what one turn of the
deal explains, `Even`, and no file is in two places), `Working` (a thread's
queue is the end of its own list), `Sums` and `ReportIsTotal`. `Sums` is what
the report needs: each thread's byte count and tables are those of the good
lines it has read, and after n merges every cell of the total points to a
merged thread's cell that holds the sum over all merged threads, while the
tables not merged yet are as their threads left them (`Tallied`). The total has
no cells of its own, so nothing weaker survives a merge. The lemmas
before it show that a sum over a finite set of lines splits over disjoint parts.
`TopIsInOrder` assumes `VolumesFit`, that every URL's bytes stay below half of
`IntMod`, which is where the int of `compare()` keeps its sign; the run
`log_analyzer` satisfies it and `log_overflow`, where the property is violated,
does not. `LogAssumption` asks for finite sets of files, URLs and referers: what
a directory can hold.

### Logger

`Opened`, `Locked`: the mutex belongs to the one thread between `mtx_lock()` and
`mtx_unlock()`, and a stream changes only while no thread logs. `RecordsWhole`
says of each piece of a record what the piece before it in its stream is
(`Following` read backwards); it is inductive with what the current writer put last
(`Reached`) and that a stream nobody writes ends with a newline (`Ended`).
Pieces of a stack trace may lie anywhere between them, since headings and frames
are written outside of the mutex: lemma `Spliced`. `Traces` follows a heading
from the buffer to the file before its frames, which bypass the buffer.
`LogIsAJournal` maps a file to the authors of its newlines, in order. It needs `Fresh`: the newlines
still in a buffer are of different threads, all between their newline and their
flush, so that a flush by any of them publishes each record once.

### Taxi

`Timers` counts the timer at every step of the callback, `RowStored` and
`IconSet` tie the row and the icon to the price parsed last; `RoundedNear` says
that rounding moves a price by half a rouble at most. `TypeOK` alone is not
inductive: that a row is a number needs the order of parse and insert.

### Programs that stand alone

The theorems are about `ProgramSpec` of `Programs`, for any constants with
`InputsAreWellFormed`: the inputs are texts, replies, archives and values of the
right shape, of any length. Each theorem proves the invariant of one module
under the condition that its program is the one chosen, which no step changes.

- `Telnet`: while it reads, the buffer is the part of the text that was taken
  since the text began, and never a complete one (`InBanner`, `InReply`): by
  `PromptAtEnd` the client stops at the end of a text and nowhere else, also
  when a piece is one symbol and `buffer[len - 2]` lies before the array. The
  third case, `HungUp`, is a server that left before it had the query; nothing
  can come in any more.
- `Weather`: `Blocks` says which blocks exist at each step and `Loops` that the
  loops stay in their arrays, so that a use outside of one is a description
  beyond the number of conditions.
- `Aggregates`: whatever the buffer held, after `memcpy()` and the NUL the first
  NUL is where the value ends or the buffer does (`ValueShown`), and after no
  row it is at the start (`NothingShown`).
- `CellList`: `Shape` says that the heap is two lists, the cells of the second
  behind those of the first, that a cell is freed when the walk has passed it
  and not before, so none is used after that (`HeapSafe` speaks of the past
  only, by `wild`). `Elements` ties the first list to the array; `Complete` gives
  the heap cell by cell at each step as long as `malloc()` has not failed.
- `Rarjpeg`: `DirectoryRead` builds a file from its picture entry by entry and
  keeps the offsets of the records that are in it (`Directory`); `FoundEntries`
  shows that these are all the offsets at which a signature is found with room
  for a record, and `NamesListed` that the names behind them are whole, since
  the tail follows. `OtherRejected` is the second half: whatever end record
  there is lies too far from the end.
- `WordReader`: `Split` relates a part of the file to the runs that are complete
  in it and to the run it ends in, `Joint` to the same part without newlines;
  one lemma each for a separator, a first letter and a further letter extends
  them by a character. The invariant says that the first pass is in the middle
  of the runs for both separators (`Behold`), the second in those of the joined
  text (`Collected`), and that the writes reach just behind the longest word so
  far (`Within`). `PassesAgree` also needs that a word in the middle of the file
  fits when those of the whole file do (`FitAll`): the words of a part are words
  of the whole, but for the last, which may still grow.
- `Encoder`: `Decodes` says that bytes are read as certain characters, by the
  positions of the bytes that start one; `DecodesMore` adds what is written for
  one character. `CyrillicTable`, `IsoTable` and `KoiTable` go through the
  tables of `chars.h`, and `ByteWritten` shows that each byte is written in the
  shortest form of its character.

A statement about every length is proved along the steps of the program, whose
invariant covers the part of the file read so far, or, where no step goes
through the data, from the least length at which it could fail (`LeastNatural`).

### Only model-checked

- Liveness: `ClientServed`, `StartupEnds`, `Finishes`, `RecordsFinish`,
  `RequestsAgain`, `ClientEnds`: fairness and ENABLED are out of the prover's
  reach.
- `CrcIsDivision`: the word is computed by bitwise operators and the division is
  recursive over the data; the prover reasons about neither. The run checks every
  file of one byte, so every word of the table, and some longer ones.
- The six properties that are violated. `TopIsHeaviest` is among them for totals
  that do not fit, and proved for those that do.

## Not modelled

- HW15 draws a cube and turns it: OpenGL calls and an angle that grows.
- HW8 is a diff against sources that are not in the repository.
- `original.asm` of HW7, which the C program was rewritten from.
- Memory that is never freed at the end of a program (rows and JSON trees of
  HW17, the address list and failed sockets of HW12), calls that are unsafe in
  signal handlers, `clear_src()` while threads log, bytes and formats of log
  lines and JSON, printed texts around the results.
- `-test` runs of the daemon are in the model (`Modes`) but not in the checked
  instance, which is `Sane`.
- Undefined behaviour beyond what is named: a write behind an array either does
  no harm or leads to a state of which nothing is claimed.

## Plan

1. Done: all models above, and as theorems the safety properties and the three
   refinements that the runs check, except `CrcIsDivision`.
2. An abstract specification of the analyzer's result, in place of
   `ReportIsTotal`.
3. `Crc32` with the bits of a word as a set, in which the division could be
   followed bit by bit.
