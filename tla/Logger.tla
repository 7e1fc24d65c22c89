------------------------------- MODULE Logger -------------------------------
(***************************************************************************)
(* HW6_LOGGER: a logging library.  Threads write records to one stream,    *)
(* each in several calls of stdio under a mutex; the program that owns the *)
(* threads opens, switches and closes the stream while none of them logs,  *)
(* as test/main.c does.                                                    *)
(*                                                                         *)
(* A stream has a buffer in the program and a file; backtrace_symbols_fd() *)
(* writes to the file past the buffer.  BareReset, KeepFile, Mixed,        *)
(* NoLock, Held, NoFlush and Unflushed are faulty variants of the          *)
(* operators that follow them; no action uses them.                        *)
(***************************************************************************)
EXTENDS Naturals, SequencesExt

CONSTANTS
  Threads,
  Paths,       \* files for init_file_log()
  Std,         \* a stream the program hands to init_fstream()
  NULL,
  MaxRecords,  \* bound on the number of records
  MaxCalls     \* bound on the number of calls that change the set-up

Streams == Paths \cup {Std}
Levels == {"info", "error"}

ASSUME LoggerAssumption ==
  /\ Std \notin Paths /\ NULL \notin Streams \cup Threads
  /\ Threads \cap {"none", "free"} = {}
  /\ MaxRecords \in Nat /\ MaxCalls \in Nat

VARIABLES
  fs,                \* the stream, or NULL
  need_to_close_fs,
  verbose,           \* the levels that are written
  mutex,             \* "none" before mtx_init(), "free", or its holder
  open,              \* whether a stream is open
  buffer, file,      \* what has been written to a stream: still in the
                     \* buffer of stdio, and in the file
  pc, level,         \* of a thread in print_level_msg()
  ret,               \* the last result of init_file_log()
  records, calls     \* counters for the bounds

setup == <<fs, need_to_close_fs, verbose, open, ret, calls>>
vars == <<setup, mutex, buffer, file, pc, level, records>>

Parts == {"prefix", "text", "newline", "header", "frames"}
Pieces == [thread : Threads, part : Parts]

TypeOK ==
  /\ fs \in Streams \cup {NULL}
  /\ need_to_close_fs \in BOOLEAN /\ ret \in BOOLEAN
  /\ verbose \subseteq Levels
  /\ mutex \in {"none", "free"} \cup Threads
  /\ open \in [Streams -> BOOLEAN]
  /\ buffer \in [Streams -> Seq(Pieces)] /\ file \in [Streams -> Seq(Pieces)]
  /\ pc \in [Threads -> {"idle", "lock", "prefix", "text", "newline", "unlock",
                         "flush", "header", "headerflush", "frames"}]
  /\ level \in [Threads -> Levels]
  /\ records \in Nat /\ calls \in Nat

Init ==
  /\ fs = NULL /\ need_to_close_fs = FALSE /\ ret = FALSE
  /\ verbose = Levels
  /\ mutex = "none"
  /\ open = [s \in Streams |-> s = Std]
  /\ buffer = [s \in Streams |-> <<>>] /\ file = [s \in Streams |-> <<>>]
  /\ pc = [t \in Threads |-> "idle"]
  /\ level = [t \in Threads |-> "info"]
  /\ records = 0 /\ calls = 0

-----------------------------------------------------------------------------
(* stdio.                                                                  *)

Write(s, t, part) ==
  /\ buffer' = [buffer EXCEPT ![s] = Append(@, [thread |-> t, part |-> part])]
  /\ UNCHANGED file

Drain(s) ==
  /\ file' = [file EXCEPT ![s] = @ \o buffer[s]]
  /\ buffer' = [buffer EXCEPT ![s] = <<>>]

-----------------------------------------------------------------------------
(* The program that owns the threads.                                      *)

SetUp ==
  /\ calls < MaxCalls
  /\ \A t \in Threads : pc[t] = "idle"
  /\ calls' = calls + 1
  /\ UNCHANGED <<pc, level, records>>

(* init_file_log() with a file log open: closes it and returns fs, which   *)
(* still is the address of what it has closed.  What a use of that stream  *)
(* does is undefined and not modelled: Call and ClearSrc wait until        *)
(* another one has been set.                                               *)
CloseInstead ==
  /\ SetUp
  /\ fs # NULL /\ need_to_close_fs
  /\ open' = [open EXCEPT ![fs] = FALSE]
  /\ Drain(fs)
  /\ need_to_close_fs' = FALSE
  /\ ret' = TRUE
  /\ UNCHANGED <<fs, verbose, mutex>>

(* init_file_log(): mtx_init() for the first stream, then fopen(), which   *)
(* truncates the file if the program asks for it and may fail.             *)
BareReset == mutex
Initialized == IF fs = NULL THEN "free" ELSE mutex

InitFileLog(path, need_create_log) ==
  /\ SetUp
  /\ fs = NULL \/ ~need_to_close_fs
  /\ mutex' = Initialized
  /\ need_to_close_fs' = TRUE
  /\ \/ /\ fs' = path /\ ret' = TRUE
        /\ open' = [open EXCEPT ![path] = TRUE]
        /\ file' = [file EXCEPT ![path] = IF need_create_log THEN <<>> ELSE @]
        /\ buffer' = [buffer EXCEPT ![path] = <<>>]
     \/ /\ fs' = NULL /\ ret' = FALSE
        /\ UNCHANGED <<open, file, buffer>>
  /\ UNCHANGED verbose

(* init_fstream(), which closes a file that the library opened.            *)
KeepFile == UNCHANGED <<open, buffer, file>>
CloseFile ==
  IF fs # NULL /\ need_to_close_fs
  THEN open' = [open EXCEPT ![fs] = FALSE] /\ Drain(fs)
  ELSE UNCHANGED <<open, buffer, file>>

InitFstream ==
  /\ SetUp
  /\ CloseFile
  /\ mutex' = Initialized
  /\ fs' = Std
  /\ need_to_close_fs' = FALSE
  /\ UNCHANGED <<verbose, ret>>

(* clear_src(): need_to_close_fs keeps its value.                          *)
Mixed == need_to_close_fs
Cleared == NULL

ClearSrc ==
  /\ SetUp
  /\ fs # NULL /\ open[fs]
  /\ mutex' = "none"
  /\ Drain(fs)
  /\ open' = [open EXCEPT ![fs] = @ /\ ~need_to_close_fs]
  /\ fs' = Cleared
  /\ UNCHANGED <<need_to_close_fs, verbose, ret>>

SetVerbosity(levels) ==
  /\ SetUp
  /\ levels # verbose
  /\ verbose' = levels
  /\ UNCHANGED <<fs, need_to_close_fs, open, ret, mutex, buffer, file>>

-----------------------------------------------------------------------------
(* print_level_msg(), called by the threads.                               *)

Goto(t, from, to) ==
  /\ pc[t] = from
  /\ pc' = [pc EXCEPT ![t] = to]

Call(t, l) ==
  /\ records < MaxRecords
  /\ l \in verbose /\ fs # NULL /\ open[fs]
  /\ Goto(t, "idle", "lock")
  /\ level' = [level EXCEPT ![t] = l]
  /\ records' = records + 1
  /\ UNCHANGED <<setup, mutex, buffer, file>>

NoLock(t) == mutex # "none"
CanLock(t) == mutex = "free"

Lock(t) ==
  /\ Goto(t, "lock", "prefix")
  /\ CanLock(t)
  /\ mutex' = t
  /\ UNCHANGED <<setup, buffer, file, level, records>>

(* print_prefix(), vfprintf() and the newline.                             *)
Record(t) ==
  /\ \/ Goto(t, "prefix", "text") \/ Goto(t, "text", "newline")
     \/ Goto(t, "newline", "unlock")
  /\ Write(fs, t, pc[t])
  /\ UNCHANGED <<setup, mutex, level, records>>

Held(t) == t
Released(t) == "free"

Unlock(t) ==
  /\ Goto(t, "unlock", "flush")
  /\ mutex' = Released(t)
  /\ UNCHANGED <<setup, buffer, file, level, records>>

(* fflush(), after the mutex is free again.                                *)
NoFlush(t) == UNCHANGED <<buffer, file>>
Flushed(t) == Drain(fs)

Flush(t) ==
  /\ Goto(t, "flush", IF level[t] = "error" THEN "header" ELSE "idle")
  /\ Flushed(t)
  /\ UNCHANGED <<setup, mutex, level, records>>

(* print_backtrace(), without the mutex.                                   *)
Header(t) ==
  /\ Goto(t, "header", "headerflush")
  /\ Write(fs, t, "header")
  /\ UNCHANGED <<setup, mutex, level, records>>

Unflushed(t) == UNCHANGED <<buffer, file>>
HeaderOut(t) == Drain(fs)

HeaderFlush(t) ==
  /\ Goto(t, "headerflush", "frames")
  /\ HeaderOut(t)
  /\ UNCHANGED <<setup, mutex, level, records>>

Frames(t) ==
  /\ Goto(t, "frames", "idle")
  /\ file' = [file EXCEPT ![fs] = Append(@, [thread |-> t, part |-> "frames"])]
  /\ UNCHANGED <<setup, mutex, buffer, level, records>>

-----------------------------------------------------------------------------
Log(t) ==
  \/ Lock(t) \/ Record(t) \/ Unlock(t) \/ Flush(t)
  \/ Header(t) \/ HeaderFlush(t) \/ Frames(t)

Program ==
  \/ CloseInstead \/ InitFstream \/ ClearSrc
  \/ \E path \in Paths, create \in BOOLEAN : InitFileLog(path, create)
  \/ \E levels \in SUBSET Levels : SetVerbosity(levels)

Next == Program \/ \E t \in Threads : Log(t) \/ \E l \in Levels : Call(t, l)

Spec == Init /\ [][Next]_vars

(* The kernel runs every thread that can take a step.                      *)
FairSpec == Spec /\ \A t \in Threads : WF_vars(Log(t))

-----------------------------------------------------------------------------
IsRecord(piece) == piece.part \in {"prefix", "text", "newline"}
Following == [prefix |-> "text", text |-> "newline", newline |-> "prefix"]

(* Piece i is the last one of a record before piece j.                     *)
Precedes(m, i, j) == IsRecord(m[i]) /\ \A k \in i + 1 .. j - 1 : ~IsRecord(m[k])

(* A prefix comes first or after a newline; the text and the newline come  *)
(* after a prefix and a text of the same thread.                           *)
InPlace(m, j) ==
  \/ /\ m[j].part = "prefix"
     /\ \A i \in 1 .. j - 1 : Precedes(m, i, j) => m[i].part = "newline"
  \/ /\ m[j].part # "prefix"
     /\ \E i \in 1 .. j - 1 :
          /\ Precedes(m, i, j)
          /\ m[j] = [thread |-> m[i].thread, part |-> Following[m[i].part]]
Whole(m) == \A j \in DOMAIN m : IsRecord(m[j]) => InPlace(m, j)

(* The records of several threads do not mix in a stream, even while       *)
(* buffers are flushed without the mutex: leaving backtraces aside, each   *)
(* prefix is followed by the text and the newline of its own thread.       *)
RecordsWhole == \A s \in Streams : Whole(file[s] \o buffer[s])

(* Every stack trace comes under a heading of its own in the file, though  *)
(* the frames are written past the buffer that the heading goes through:   *)
(* no other frames of the thread stand between the two.                    *)
Is(piece, t, part) == piece = [thread |-> t, part |-> part]
Headed(q, t, n) ==
  \E j \in 1 .. n : /\ Is(q[j], t, "header")
                   /\ \A k \in j + 1 .. n : ~Is(q[k], t, "frames")
TraceUnderHeader ==
  \A s \in Streams, t \in Threads : \A i \in DOMAIN file[s] :
    Is(file[s][i], t, "frames") => Headed(file[s], t, i - 1)

(* A thread that logs finds the mutex initialised, in whatever order       *)
(* streams have been set, replaced, refused and cleared before.            *)
MutexUsable == \A t \in Threads : pc[t] # "idle" => mutex # "none"

(* A stream the program still owns a file for is the current one: nothing  *)
(* the library opened is left open without a way to close it.              *)
NoFileLeaked ==
  \A path \in Paths : open[path] => fs = path /\ need_to_close_fs

(* Each record is written in the end: no thread keeps the mutex.           *)
RecordsFinish == \A t \in Threads : pc[t] = "lock" ~> pc[t] = "idle"

(* Seen from outside, the library is a journal: every record asked for is  *)
(* in the file of the stream it was asked for, once, before its thread     *)
(* goes on, whichever thread flushed it, and no change of streams between  *)
(* them loses one.  A record counts from its newline on.                   *)
Authors(pieces) ==
  LET upTo[n \in 0 .. Len(pieces)] ==
        IF n = 0 THEN <<>>
        ELSE IF pieces[n].part = "newline"
        THEN Append(upTo[n - 1], pieces[n].thread)
        ELSE upTo[n - 1]
  IN upTo[Len(pieces)]

InWork(t) ==
  \/ pc[t] \in {"lock", "prefix", "text", "newline"}
  \/ pc[t] \in {"unlock", "flush"} /\ t \in ToSet(Authors(buffer[fs]))

Lines == INSTANCE Journal
           WITH None <- NULL,
                asked <- [t \in Threads |-> IF InWork(t) THEN fs ELSE NULL],
                written <- [s \in Streams |-> Authors(file[s])]
ImplementsJournal == Lines!Spec

(* sLogger.h:17-19: init_file_log() returns false if the file could not be *)
(* opened for writing, so after true there is an open stream.              *)
TrueMeansOpen == ret /\ fs # NULL => open[fs]
=============================================================================
