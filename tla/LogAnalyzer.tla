---------------------------- MODULE LogAnalyzer ----------------------------
(***************************************************************************)
(* HW11_threads: main() deals the files of a directory to its threads,     *)
(* starts them, joins them, adds their tables up and prints the byte total *)
(* and the heaviest URLs and most frequent referers.  Each thread writes   *)
(* its own element of thread_data_array; the last element, the total, has  *)
(* tables that share the cells of the threads' tables.                     *)
(*                                                                         *)
(* A line is what parse_log_string() finds in it.  Integers of type int    *)
(* have 2^32 values in the program and IntMod here.  Turn, FirstOnly,      *)
(* Ascending, LoopIndex, Everything and Stuck are faulty variants of the   *)
(* operators that follow them; no action uses them.                        *)
(***************************************************************************)
EXTENDS Integers, FiniteSets, FiniteSetsExt, SequencesExt

CONSTANTS
  Files,      \* the files of the directory
  Bad,        \* those that cannot be opened or mapped
  Content,    \* the lines of a file
  Urls, Refs, \* those that occur in them
  Root,       \* a URL of one character
  NoRef,      \* an empty referer
  Arg,        \* the number of threads asked for
  IntMod,     \* number of values of an int
  TopCount,   \* how many entries are printed, 10
  None

Lines == [url : Urls, ref : Refs, bytes : Int]

(* main(): count_threads.                                                  *)
CountThreads == IF Arg < 1 \/ Arg > 50 THEN 1 ELSE Arg
Threads == 0 .. CountThreads - 1
Slots == 0 .. CountThreads   \* elements of thread_data_array

ASSUME LogAssumption ==
  /\ IsFiniteSet(Files) /\ Bad \subseteq Files
  /\ IsFiniteSet(Urls) /\ IsFiniteSet(Refs)
  /\ Content \in [Files -> Seq(Lines)]
  /\ Arg \in Int
  /\ IntMod \in Nat \ {0} /\ IntMod % 2 = 0
  /\ TopCount \in Nat
  /\ None \notin Threads

VARIABLES
  pc, k,         \* of main(): where it is, its loop index
  unread,        \* files readdir() has not returned yet
  threadNum,     \* number of files dealt
  file_path,     \* list of files of each slot
  byte_count,    \* of each slot
  url, ref,      \* tables of the threads; 0 for no entry
  urlOf, refOf,  \* tables of the total: the slot whose cell a key points to
  tpc, num,      \* of a thread: where it is, the slot it works on
  todo, line,    \* its files, the current one first, and the next line
  report         \* what main() has printed

mainVars == <<pc, k, unread, threadNum, file_path, urlOf, refOf, report>>
threadVars == <<tpc, num, todo, line>>
data == <<byte_count, url, ref>>
vars == <<mainVars, threadVars, data>>

NoReport == [bytes |-> 0, urls |-> <<>>, refs |-> <<>>,
             urlSum |-> [u \in Urls |-> 0], refSum |-> [r \in Refs |-> 0]]

TypeOK ==
  /\ pc \in {"readdir", "create", "join", "union", "print", "free", "done", "dead"}
  /\ k \in Slots
  /\ unread \subseteq Files
  /\ threadNum \in 0 .. Cardinality(Files)
  /\ file_path \in [Threads -> Seq(Files)]
  /\ byte_count \in [Slots -> Nat]
  /\ url \in [Threads -> [Urls -> Nat]]
  /\ ref \in [Threads -> [Refs -> Nat]]
  /\ urlOf \in [Urls -> Threads \cup {None}]
  /\ refOf \in [Refs -> Threads \cup {None}]
  /\ tpc \in [Threads -> {"none", "start", "file", "line", "done"}]
  /\ num \in [Threads -> Threads]
  /\ todo \in [Threads -> Seq(Files)]
  /\ line \in [Threads -> Nat]
  /\ report.bytes \in Nat
  /\ report.urls \in Seq(Urls) /\ report.refs \in Seq(Refs)
  /\ report.urlSum \in [Urls -> Nat] /\ report.refSum \in [Refs -> Nat]

(* new_thread_data().                                                      *)
Init ==
  /\ pc = "readdir" /\ k = 0
  /\ unread = Files /\ threadNum = 0
  /\ file_path = [t \in Threads |-> <<>>]
  /\ byte_count = [t \in Slots |-> 0]
  /\ url = [t \in Threads |-> [u \in Urls |-> 0]]
  /\ ref = [t \in Threads |-> [r \in Refs |-> 0]]
  /\ urlOf = [u \in Urls |-> None]
  /\ refOf = [r \in Refs |-> None]
  /\ tpc = [t \in Threads |-> "none"]
  /\ num = [t \in Threads |-> t]
  /\ todo = [t \in Threads |-> <<>>]
  /\ line = [t \in Threads |-> 1]
  /\ report = NoReport

-----------------------------------------------------------------------------
(* main().                                                                 *)

(* add_file_path_thread_data(): the next file, to the front of a list.     *)
Turn(c) == (c \div 2) % CountThreads
SlotFor(c) == c % CountThreads

Deal(f) ==
  /\ pc = "readdir" /\ f \in unread
  /\ unread' = unread \ {f}
  /\ file_path' = [file_path EXCEPT ![SlotFor(threadNum)] = Cons(f, @)]
  /\ threadNum' = threadNum + 1
  /\ UNCHANGED <<pc, k, urlOf, refOf, report, threadVars, data>>

EndOfDirectory ==
  /\ pc = "readdir" /\ unread = {}
  /\ pc' = "create"
  /\ UNCHANGED <<k, unread, threadNum, file_path, urlOf, refOf, report,
                 threadVars, data>>

Create ==
  /\ pc = "create" /\ k < CountThreads
  /\ tpc' = [tpc EXCEPT ![k] = "start"]
  /\ k' = k + 1
  /\ UNCHANGED <<pc, unread, threadNum, file_path, urlOf, refOf, report, num,
                 todo, line, data>>

AllCreated ==
  /\ pc = "create" /\ k = CountThreads
  /\ pc' = "join" /\ k' = 0
  /\ UNCHANGED <<unread, threadNum, file_path, urlOf, refOf, report,
                 threadVars, data>>

(* pthread_join() returns when the thread has ended.                       *)
FirstOnly(t) == tpc[0] = "done"
Ended(t) == tpc[t] = "done"

Join ==
  /\ pc = "join" /\ k < CountThreads
  /\ Ended(k)
  /\ k' = k + 1
  /\ UNCHANGED <<pc, unread, threadNum, file_path, urlOf, refOf, report,
                 threadVars, data>>

AllJoined ==
  /\ pc = "join" /\ k = CountThreads
  /\ pc' = "union" /\ k' = 0
  /\ UNCHANGED <<unread, threadNum, file_path, urlOf, refOf, report,
                 threadVars, data>>

(* union_hash_func() on every entry of the table of thread t: the total    *)
(* takes over a cell it has no key for, and adds to the cell it has.       *)
Owners(of, table, t) ==
  [x \in DOMAIN of |-> IF of[x] = None /\ table[t][x] > 0 THEN t ELSE of[x]]

Merged(of, table, t) ==
  [s \in Threads |-> [x \in DOMAIN of |->
     IF of[x] = s /\ s # t THEN table[s][x] + table[t][x] ELSE table[s][x]]]

Union ==
  /\ pc = "union" /\ k < CountThreads
  /\ byte_count' = [byte_count EXCEPT ![CountThreads] = @ + byte_count[k]]
  /\ urlOf' = Owners(urlOf, url, k) /\ url' = Merged(urlOf, url, k)
  /\ refOf' = Owners(refOf, ref, k) /\ ref' = Merged(refOf, ref, k)
  /\ k' = k + 1
  /\ UNCHANGED <<pc, unread, threadNum, file_path, report, threadVars>>

AllMerged ==
  /\ pc = "union" /\ k = CountThreads
  /\ pc' = "print"
  /\ UNCHANGED <<k, unread, threadNum, file_path, urlOf, refOf, report,
                 threadVars, data>>

(* compare(): the difference of two size_t, returned as an int.            *)
ToInt(x) ==
  LET r == x % IntMod IN IF r >= IntMod \div 2 THEN r - IntMod ELSE r

Ascending(a, b) == ToInt(a - b)
Compare(a, b) == ToInt(b - a)

(* print_top_by_value(): qsort() leaves no neighbours that compare() says  *)
(* are out of order, whatever order the table is walked in; where no such  *)
(* order exists anything may come out.                                     *)
InOrder(s, value) ==
  \A j \in 1 .. Len(s) - 1 : Compare(value[s[j]], value[s[j + 1]]) <= 0
Sorted(keys, value) ==
  LET all == SetToSeqs(keys)
      good == {s \in all : InOrder(s, value)}
  IN IF good = {} THEN all ELSE good
Tops(keys, value) == {SubSeq(s, 1, IF Len(s) < TopCount THEN Len(s) ELSE TopCount) :
                      s \in Sorted(keys, value)}

ValueOf(of, table) == [x \in DOMAIN of |-> IF of[x] = None THEN 0 ELSE table[of[x]][x]]
KeysOf(of) == {x \in DOMAIN of : of[x] # None}

Report ==
  /\ pc = "print"
  /\ LET us == ValueOf(urlOf, url)
         rs == ValueOf(refOf, ref) IN
       \E tu \in Tops(KeysOf(urlOf), us), tr \in Tops(KeysOf(refOf), rs) :
         report' = [bytes |-> byte_count[CountThreads], urls |-> tu, refs |-> tr,
                    urlSum |-> us, refSum |-> rs]
  /\ pc' = "free" /\ k' = 0
  /\ UNCHANGED <<unread, threadNum, file_path, urlOf, refOf, threadVars, data>>

(* free_thread_data(): the lists and the cells of each thread, then the    *)
(* tables of the total, which free no cell; main() returns.                *)
FreeThreadData ==
  /\ pc = "free"
  /\ IF k < CountThreads
     THEN /\ file_path' = [file_path EXCEPT ![k] = <<>>]
          /\ url' = [url EXCEPT ![k] = [u \in Urls |-> 0]]
          /\ ref' = [ref EXCEPT ![k] = [r \in Refs |-> 0]]
          /\ k' = k + 1
          /\ UNCHANGED <<pc, urlOf, refOf>>
     ELSE /\ urlOf' = [u \in Urls |-> None]
          /\ refOf' = [r \in Refs |-> None]
          /\ pc' = "done"
          /\ UNCHANGED <<file_path, url, ref, k>>
  /\ UNCHANGED <<unread, threadNum, report, threadVars, byte_count>>

(* opendir(), chdir(), pthread_create() or pthread_join() fails:           *)
(* print_error() ends the process and its threads.                         *)
Fail ==
  /\ pc \in {"readdir", "create", "join"} \/ (pc = "union" /\ k = 0)
  /\ pc' = "dead"
  /\ UNCHANGED <<k, unread, threadNum, file_path, urlOf, refOf, report,
                 threadVars, data>>

-----------------------------------------------------------------------------
(* parse_logs(), the threads.                                              *)

(* num_t = *arg, where main() has passed &thread_data_array[i].num.        *)
LoopIndex(t) == IF k < CountThreads THEN k ELSE 0
NumOf(t) == t

StartThread(t) ==
  /\ tpc[t] = "start"
  /\ tpc' = [tpc EXCEPT ![t] = "file"]
  /\ num' = [num EXCEPT ![t] = NumOf(t)]
  /\ todo' = [todo EXCEPT ![t] = file_path[NumOf(t)]]
  /\ UNCHANGED <<mainVars, line, data>>

OpenFile(t) ==
  /\ tpc[t] = "file"
  /\ todo[t] # <<>> /\ Head(todo[t]) \notin Bad
  /\ tpc' = [tpc EXCEPT ![t] = "line"]
  /\ line' = [line EXCEPT ![t] = 1]
  /\ UNCHANGED <<mainVars, num, todo, data>>

(* open(), fstat() or mmap() fails.  thread_print_error() is declared      *)
(* noreturn and returns, so what runs next is undefined: the process       *)
(* crashes, or the thread comes out of it with no line read.               *)
CannotOpen(t) ==
  /\ tpc[t] = "file"
  /\ todo[t] # <<>> /\ Head(todo[t]) \in Bad
  /\ \/ pc' = "dead" /\ UNCHANGED todo
     \/ todo' = [todo EXCEPT ![t] = Tail(@)] /\ UNCHANGED pc
  /\ UNCHANGED <<k, unread, threadNum, file_path, urlOf, refOf, report, tpc, num,
                 line, data>>

(* parse_log_string(): -1 for a URL of one character or no referer, else   *)
(* the bytes, made an int.                                                 *)
ParseLine(l) == IF l.url = Root \/ l.ref = NoRef THEN -1 ELSE ToInt(l.bytes)

Everything(ans) == TRUE
Counted(ans) == ans >= 1

Stuck(t) == IF ParseLine(Content[Head(todo[t])][line[t]]) < 1 THEN line[t] ELSE line[t] + 1
NextLine(t) == line[t] + 1

(* One line: skipped when parse_log_string() gives less than 1, else added *)
(* to the byte count and, by ht_insert_dupkey_with_increment(), to the     *)
(* tables.                                                                 *)
ReadLine(t) ==
  /\ tpc[t] = "line"
  /\ line[t] <= Len(Content[Head(todo[t])])
  /\ LET l == Content[Head(todo[t])][line[t]]
         s == num[t]
         ans == ParseLine(l) IN
       IF ~Counted(ans)
       THEN UNCHANGED data
       ELSE /\ byte_count' = [byte_count EXCEPT ![s] = @ + ans]
            /\ url' = [url EXCEPT ![s][l.url] = @ + ans]
            /\ ref' = [ref EXCEPT ![s][l.ref] = @ + 1]
  /\ line' = [line EXCEPT ![t] = NextLine(t)]
  /\ UNCHANGED <<mainVars, tpc, num, todo>>

EndOfFile(t) ==
  /\ tpc[t] = "line"
  /\ line[t] > Len(Content[Head(todo[t])])
  /\ tpc' = [tpc EXCEPT ![t] = "file"]
  /\ todo' = [todo EXCEPT ![t] = Tail(@)]
  /\ UNCHANGED <<mainVars, num, line, data>>

EndThread(t) ==
  /\ tpc[t] = "file" /\ todo[t] = <<>>
  /\ tpc' = [tpc EXCEPT ![t] = "done"]
  /\ UNCHANGED <<mainVars, num, todo, line, data>>

-----------------------------------------------------------------------------
Main ==
  \/ \E f \in Files : Deal(f)
  \/ EndOfDirectory \/ Create \/ AllCreated \/ Join \/ AllJoined
  \/ Union \/ AllMerged \/ Report \/ FreeThreadData

Thread(t) ==
  /\ pc # "dead"
  /\ \/ StartThread(t) \/ OpenFile(t) \/ CannotOpen(t) \/ ReadLine(t)
     \/ EndOfFile(t) \/ EndThread(t)

Next == Main \/ Fail \/ \E t \in Threads : Thread(t)

Spec == Init /\ [][Next]_vars

(* The kernel runs main() and every thread that can take a step.           *)
FairSpec == Spec /\ WF_vars(Main) /\ \A t \in Threads : WF_vars(Thread(t))

-----------------------------------------------------------------------------
(* Properties.                                                             *)

(* Where the lists have f.                                                 *)
Places(f) == {p \in Threads \X (1 .. Cardinality(Files)) :
                p[2] <= Len(file_path[p[1]]) /\ file_path[p[1]][p[2]] = f}

(* Every file of the directory is in one list, once, and no list is more   *)
(* than one file longer than another.                                      *)
FilesDealt ==
  pc \in {"create", "join", "union", "print"} =>
    /\ \A f \in Files : Cardinality(Places(f)) = 1
    /\ \A s, t \in Threads : Len(file_path[s]) <= Len(file_path[t]) + 1

(* main() merges, prints and frees the tables of the threads when no       *)
(* thread can write them any more: nothing else protects them.             *)
MergeAfterJoin ==
  pc \in {"union", "print", "free", "done"} => \A t \in Threads : tpc[t] = "done"

(* The lines that count: of a file that can be read, with bytes, URL and   *)
(* referer, and the bytes of such lines.                                   *)
GoodLines ==
  UNION {{f} \X {j \in 1 .. Len(Content[f]) : ParseLine(Content[f][j]) >= 1} :
           f \in Files \ Bad}
At(x) == Content[x[1]][x[2]]
Volume(S) == MapThenSumSet(LAMBDA x : ParseLine(At(x)), S)

(* What is printed is what one pass over all readable files would count,   *)
(* whatever the number of threads, the order of the directory and the      *)
(* schedule, and though the total shares cells with the tables it adds up. *)
ReportIsTotal ==
  pc \in {"free", "done"} =>
    /\ report.bytes = Volume(GoodLines)
    /\ \A u \in Urls :
         report.urlSum[u] = Volume({x \in GoodLines : At(x).url = u})
    /\ \A r \in Refs :
         report.refSum[r] = Cardinality({x \in GoodLines : At(x).ref = r})

(* The URLs are printed from the heaviest down and none that is left out   *)
(* is heavier than one that is printed, as main.c:97 announces.            *)
TopIsHeaviest ==
  pc \in {"free", "done"} =>
    LET s == report.urls
        v == report.urlSum IN
    /\ \A i, j \in DOMAIN s : i < j => v[s[i]] >= v[s[j]]
    /\ \A i \in DOMAIN s, u \in Urls \ ToSet(s) : v[s[i]] >= v[u]

(* main() ends: every thread gets through its files, also past lines that  *)
(* count for nothing, and is joined.                                       *)
Finishes == <>(pc \in {"done", "dead"})
=============================================================================
