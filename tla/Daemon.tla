------------------------------- MODULE Daemon -------------------------------
(***************************************************************************)
(* HW9_daemon: the daemon_stat service.  A run of the program reads an ini *)
(* file, becomes a daemon, takes a lock file so that one daemon runs at a  *)
(* time, installs its signal handlers, binds a Unix socket and tells every *)
(* client the size of the watched file.                                    *)
(*                                                                         *)
(* An element of Procs is one run of the program; a restart is another     *)
(* element.  The steps of main() of several runs interleave with signals,  *)
(* kills, clients, edits of the ini file and removals of dead sockets.  A  *)
(* signal handler interrupts main() between two steps and runs to its end, *)
(* as sa_mask blocks the other signals meanwhile.                          *)
(*                                                                         *)
(* Some operators stand beside a faulty variant of theirs, defined just    *)
(* before, that no action uses: the README says which property would       *)
(* notice each.                                                            *)
(***************************************************************************)
EXTENDS Naturals, Sequences, FiniteSets

CONSTANTS
  Procs,       \* runs of the program
  Clients,     \* clients, each connects at most once
  Paths,       \* paths that ini files name
  Inis,        \* contents the ini file may have
  Modes,       \* how runs are started: "daemon" and/or "test" (argument -test)
  Backlog,     \* length of the queue of listen()
  MaxSignals,  \* bound on the number of signals sent
  MaxEdits,    \* bound on the number of edits of the ini file
  Empty,       \* the empty string, a name before it is read
  Default,     \* the path "default-value"
  Missing,     \* a key the ini file does not have
  Bad,         \* a key whose value is not valid text
  Unreadable,  \* an ini file that cannot be loaded
  None

Fields == {"file", "sock", "lock"}
Before(k) == CASE k = "file" -> {}
               [] k = "sock" -> {"file"}
               [] k = "lock" -> {"file", "sock"}

ASSUME DaemonAssumption ==
  /\ Default \in Paths /\ Empty \notin Paths /\ None \notin Paths
  /\ Missing \notin Paths /\ Bad \notin Paths /\ Bad # Missing
  /\ Inis \subseteq [Fields -> Paths \cup {Missing, Bad}] \cup {Unreadable}
  /\ Unreadable \notin [Fields -> Paths \cup {Missing, Bad}]
  /\ None \notin Procs \cup Clients
  /\ Procs \cap {"none", "file", "stale"} = {}
  /\ Modes \subseteq {"daemon", "test"}
  /\ {Backlog, MaxSignals, MaxEdits} \subseteq Nat

VARIABLES
  ini,      \* contents of the ini file
  fs,       \* what a path names: "none", a regular "file", the socket of a
            \* run, or a "stale" socket that no run holds open any more
  pidOf,    \* the run whose pid is written in the file at a path, or None
  pc,       \* next step of main()
  mode,     \* how the run was started
  conf,     \* file_name, socket_name and lock_file
  hup,      \* disposition of SIGHUP: "default", "ignore" or "handler"
  quit,     \* disposition of SIGQUIT: "default" or "handler"
  locked,   \* path of the file on which the run holds the fcntl lock, or None
  sock,     \* state of the descriptor sock; "unset" while it still is 0
  queue,    \* connections accept() has not returned yet
  msgsock,  \* the accepted client, None for a descriptor of -1
  buf,      \* statbuf and buf: the file measured, the file name printed
  conn,     \* a client: "idle", "waiting", "gone", "reset" or "answered"
  answer,   \* the answer a client has got
  signals, edits   \* counters for the bounds

procVars == <<pc, mode, conf, hup, quit, locked, sock, queue, msgsock, buf>>
bounds == <<signals, edits>>
vars == <<ini, fs, pidOf, procVars, conn, answer, bounds>>

Names == [Fields -> Paths \cup {Empty}]
Blank == [k \in Fields |-> Empty]
Answers == [measured : Paths \cup {Empty}, name : Paths \cup {Empty}]
NoAnswer == [measured |-> Empty, name |-> Empty]

TypeOK ==
  /\ ini \in Inis
  /\ fs \in [Paths -> {"none", "file", "stale"} \cup Procs]
  /\ pidOf \in [Paths -> Procs \cup {None}]
  /\ pc \in [Procs -> {"new", "daemonize", "lock", "truncate", "writepid",
                       "sighup", "sigquit", "socket", "bind", "listen",
                       "accept", "stat", "format", "send", "dead"}]
  /\ mode \in [Procs -> {"daemon", "test"}]
  /\ conf \in [Procs -> Names]
  /\ hup \in [Procs -> {"default", "ignore", "handler"}]
  /\ quit \in [Procs -> {"default", "handler"}]
  /\ locked \in [Procs -> Paths \cup {None}]
  /\ sock \in [Procs -> {"unset", "open", "listening", "closed"}]
  /\ queue \in [Procs -> Seq(Clients)]
  /\ msgsock \in [Procs -> Clients \cup {None}]
  /\ buf \in [Procs -> Answers]
  /\ conn \in [Clients -> {"idle", "waiting", "gone", "reset", "answered"}]
  /\ answer \in [Clients -> Answers]
  /\ signals \in Nat /\ edits \in Nat

Init ==
  /\ ini \in Inis
  /\ fs = [s \in Paths |-> "none"]
  /\ pidOf = [s \in Paths |-> None]
  /\ pc = [p \in Procs |-> "new"]
  /\ mode = [p \in Procs |-> "daemon"]
  /\ conf = [p \in Procs |-> Blank]
  /\ hup = [p \in Procs |-> "default"]
  /\ quit = [p \in Procs |-> "default"]
  /\ locked = [p \in Procs |-> None]
  /\ sock = [p \in Procs |-> "unset"]
  /\ queue = [p \in Procs |-> <<>>]
  /\ msgsock = [p \in Procs |-> None]
  /\ buf = [p \in Procs |-> NoAnswer]
  /\ conn = [c \in Clients |-> "idle"]
  /\ answer = [c \in Clients |-> NoAnswer]
  /\ signals = 0 /\ edits = 0

-----------------------------------------------------------------------------
(***************************************************************************)
(* read_conf().  The keys are read in order.  A value that is not text     *)
(* ends the reading and leaves this name and the later ones as they were,  *)
(* unless an earlier key was missing: GLib keeps the first error, the code *)
(* takes it for another missing key and falls back to the default.         *)
(***************************************************************************)
Halts(i, k) == i[k] = Bad /\ \A j \in Before(k) : i[j] # Missing
ValueOfUnchecked(i, k) == IF i[k] = Bad THEN Default ELSE i[k]
ValueOf(i, k) == IF i[k] \in {Missing, Bad} THEN Default ELSE i[k]

ReadConf(old, i) ==
  IF i = Unreadable
  THEN old
  ELSE [k \in Fields |-> IF \E j \in Before(k) \cup {k} : Halts(i, j)
                         THEN old[k]
                         ELSE ValueOf(i, k)]

Goto(p, from, to) ==
  /\ pc[p] = from
  /\ pc' = [pc EXCEPT ![p] = to]

Alive(p) == pc[p] \notin {"new", "dead"}

(* The clients in S are cut off: their connections are closed unanswered. *)
Reset(S) ==
  [c \in Clients |-> IF c \in S /\ conn[c] = "waiting" THEN "reset" ELSE conn[c]]

Queued(p) == {queue[p][i] : i \in DOMAIN queue[p]}

(* The end of a run, at whatever step: exit(), a fatal signal, a crash.    *)
(* The kernel closes its descriptors and so frees its lock; nothing takes  *)
(* the socket out of the file system.                                      *)
Die(p) ==
  /\ pc' = [pc EXCEPT ![p] = "dead"]
  /\ locked' = [locked EXCEPT ![p] = None]
  /\ sock' = [sock EXCEPT ![p] = "closed"]
  /\ fs' = [s \in Paths |-> IF fs[s] = p THEN "stale" ELSE fs[s]]
  /\ queue' = [queue EXCEPT ![p] = <<>>]
  /\ msgsock' = [msgsock EXCEPT ![p] = None]
  /\ conn' = Reset(Queued(p) \cup {msgsock[p]})
  /\ UNCHANGED <<ini, pidOf, mode, conf, hup, quit, buf, answer>>

-----------------------------------------------------------------------------
(* main() up to the accept loop.                                           *)

(* Arguments and the first read_conf().  With -test the program stays in   *)
(* the foreground: no lock file and no handlers.                           *)
Start(p) ==
  /\ pc[p] = "new"
  /\ \E m \in Modes :
       /\ mode' = [mode EXCEPT ![p] = m]
       /\ pc' = [pc EXCEPT ![p] = IF m = "daemon" THEN "daemonize" ELSE "socket"]
  /\ conf' = [conf EXCEPT ![p] = ReadConf(Blank, ini)]
  /\ UNCHANGED <<ini, fs, pidOf, hup, quit, locked, sock, queue, msgsock, buf,
                 conn, answer, bounds>>

(* daemonize() ignores SIGHUP half-way; when a call before that fails it   *)
(* returns false, which main() does not look at.                           *)
Daemonize(p) ==
  /\ Goto(p, "daemonize", "lock")
  /\ \E h \in {"default", "ignore"} : hup' = [hup EXCEPT ![p] = h]
  /\ UNCHANGED <<ini, fs, pidOf, mode, conf, quit, locked, sock, queue,
                 msgsock, buf, conn, answer, bounds>>

(* already_running(): open the lock file, creating it, and lock it; the    *)
(* run ends when the file cannot be opened or another run has the lock.    *)
CanOpenLock(p) == conf[p].lock \in Paths /\ fs[conf[p].lock] \in {"none", "file"}
LockTakenIgnored(p) == FALSE
LockTaken(p) == \E q \in Procs : q # p /\ locked[q] = conf[p].lock

TakeLock(p) ==
  /\ Goto(p, "lock", "truncate")
  /\ CanOpenLock(p)
  /\ ~LockTaken(p)
  /\ fs' = [fs EXCEPT ![conf[p].lock] = "file"]
  /\ locked' = [locked EXCEPT ![p] = conf[p].lock]
  /\ UNCHANGED <<ini, pidOf, mode, conf, hup, quit, sock, queue, msgsock, buf,
                 conn, answer, bounds>>

AlreadyRunningWaits(p) == FALSE
AlreadyRunning(p) ==
  /\ pc[p] = "lock"
  /\ ~CanOpenLock(p) \/ LockTaken(p)
  /\ Die(p)
  /\ UNCHANGED bounds

(* ftruncate() and write() of the pid.                                     *)
Truncate(p) ==
  /\ Goto(p, "truncate", "writepid")
  /\ pidOf' = [s \in Paths |-> IF s = locked[p] THEN None ELSE pidOf[s]]
  /\ UNCHANGED <<ini, fs, mode, conf, hup, quit, locked, sock, queue, msgsock,
                 buf, conn, answer, bounds>>

WritePid(p) ==
  /\ Goto(p, "writepid", "sighup")
  /\ pidOf' = [s \in Paths |-> IF s = locked[p] THEN p ELSE pidOf[s]]
  /\ UNCHANGED <<ini, fs, mode, conf, hup, quit, locked, sock, queue, msgsock,
                 buf, conn, answer, bounds>>

InstallHup(p) ==
  /\ Goto(p, "sighup", "sigquit")
  /\ hup' = [hup EXCEPT ![p] = "handler"]
  /\ UNCHANGED <<ini, fs, pidOf, mode, conf, quit, locked, sock, queue,
                 msgsock, buf, conn, answer, bounds>>

InstallQuit(p) ==
  /\ Goto(p, "sigquit", "socket")
  /\ quit' = [quit EXCEPT ![p] = "handler"]
  /\ UNCHANGED <<ini, fs, pidOf, mode, conf, hup, locked, sock, queue,
                 msgsock, buf, conn, answer, bounds>>

Socket(p) ==
  /\ Goto(p, "socket", "bind")
  /\ sock' = [sock EXCEPT ![p] = "open"]
  /\ UNCHANGED <<ini, fs, pidOf, mode, conf, hup, quit, locked, queue,
                 msgsock, buf, conn, answer, bounds>>

(* bind() creates the socket file and fails when the path exists, whoever  *)
(* left it there, or when sig_quit has closed the descriptor.  An empty    *)
(* name binds outside the file system.                                     *)
CanBind(p) ==
  sock[p] = "open" /\ (conf[p].sock = Empty \/ fs[conf[p].sock] = "none")

Bind(p) ==
  /\ Goto(p, "bind", "listen")
  /\ CanBind(p)
  /\ fs' = [s \in Paths |-> IF s = conf[p].sock THEN p ELSE fs[s]]
  /\ UNCHANGED <<ini, pidOf, mode, conf, hup, quit, locked, sock, queue,
                 msgsock, buf, conn, answer, bounds>>

BindFails(p) ==
  /\ pc[p] = "bind"
  /\ ~CanBind(p)
  /\ Die(p)
  /\ UNCHANGED bounds

(* The result of listen() is not looked at.                                *)
Listen(p) ==
  /\ Goto(p, "listen", "accept")
  /\ sock' = [sock EXCEPT ![p] = IF @ = "open" THEN "listening" ELSE @]
  /\ UNCHANGED <<ini, fs, pidOf, mode, conf, hup, quit, locked, queue,
                 msgsock, buf, conn, answer, bounds>>

-----------------------------------------------------------------------------
(* The accept loop.  A failing accept() gives -1, which main() uses.       *)

Accept(p) ==
  /\ Goto(p, "accept", "stat")
  /\ \/ /\ queue[p] # <<>>
        /\ msgsock' = [msgsock EXCEPT ![p] = Head(queue[p])]
        /\ queue' = [queue EXCEPT ![p] = Tail(@)]
     \/ /\ sock[p] = "closed"
        /\ msgsock' = [msgsock EXCEPT ![p] = None]
        /\ UNCHANGED queue
  /\ UNCHANGED <<ini, fs, pidOf, mode, conf, hup, quit, locked, sock, buf,
                 conn, answer, bounds>>

Stat(p) ==
  /\ Goto(p, "stat", "format")
  /\ buf' = [buf EXCEPT ![p] = [measured |-> conf[p].file, name |-> @.name]]
  /\ UNCHANGED <<ini, fs, pidOf, mode, conf, hup, quit, locked, sock, queue,
                 msgsock, conn, answer, bounds>>

(* snprintf() names the file that file_name holds by now.                  *)
Format(p) ==
  /\ Goto(p, "format", "send")
  /\ buf' = [buf EXCEPT ![p] = [measured |-> @.measured, name |-> conf[p].file]]
  /\ UNCHANGED <<ini, fs, pidOf, mode, conf, hup, quit, locked, sock, queue,
                 msgsock, conn, answer, bounds>>

(* send() and close(msgsock); on -1 both fail unnoticed.                   *)
AfterSendUnclosed(p) == conn
AfterSend(p) ==
  [c \in Clients |-> IF c = msgsock[p] THEN "answered" ELSE conn[c]]

Send(p) ==
  /\ Goto(p, "send", "accept")
  /\ msgsock[p] # None => conn[msgsock[p]] = "waiting"
  /\ conn' = AfterSend(p)
  /\ answer' = [c \in Clients |-> IF c = msgsock[p] THEN buf[p] ELSE answer[c]]
  /\ msgsock' = [msgsock EXCEPT ![p] = None]
  /\ UNCHANGED <<ini, fs, pidOf, mode, conf, hup, quit, locked, sock, queue,
                 buf, bounds>>

(* A client that has closed its end: send() raises SIGPIPE, which kills.   *)
BrokenPipe(p) ==
  /\ pc[p] = "send"
  /\ msgsock[p] # None /\ conn[msgsock[p]] = "gone"
  /\ Die(p)
  /\ UNCHANGED bounds

-----------------------------------------------------------------------------
(* Signals.                                                                *)

(* A handler returns into main(); accept(), when it was blocked in it,     *)
(* fails with EINTR since sa_flags has no SA_RESTART.                      *)
Resume(p) ==
  \/ UNCHANGED <<pc, msgsock>>
  \/ /\ Goto(p, "accept", "stat")
     /\ queue[p] = <<>>
     /\ msgsock' = [msgsock EXCEPT ![p] = None]

(* sig_hup: read_conf() again, into the names main() uses.                 *)
SigHup(p) ==
  /\ hup[p] = "handler"
  /\ conf' = [conf EXCEPT ![p] = ReadConf(@, ini)]
  /\ Resume(p)
  /\ UNCHANGED <<ini, fs, pidOf, mode, hup, quit, locked, sock, queue, buf, conn,
                 answer>>

(* sig_quit: close the socket, unlink what socket_name names by now, and   *)
(* return.  While sock is 0 the close() hits standard input.               *)
ClosedNot(p) == sock[p]
Closed(p) == IF sock[p] = "unset" THEN sock[p] ELSE "closed"

UnlinkedLock(p) == conf[p].lock
Unlinked(p) == conf[p].sock

SigQuit(p) ==
  LET victim == Unlinked(p) IN
  /\ quit[p] = "handler"
  /\ sock' = [sock EXCEPT ![p] = Closed(p)]
  /\ fs' = [s \in Paths |-> IF s = victim THEN "none"
                            ELSE IF fs[s] = p THEN "stale" ELSE fs[s]]
  /\ pidOf' = [s \in Paths |-> IF s = victim THEN None ELSE pidOf[s]]
  /\ locked' = [q \in Procs |-> IF locked[q] = victim THEN None ELSE locked[q]]
  /\ queue' = [queue EXCEPT ![p] = <<>>]
  /\ conn' = Reset(Queued(p))
  /\ Resume(p)
  /\ UNCHANGED <<ini, mode, conf, hup, quit, buf, answer>>

SigDefault(p) ==
  /\ hup[p] = "default" \/ quit[p] = "default"
  /\ Die(p)

Signal(p) ==
  /\ Alive(p)
  /\ signals < MaxSignals
  /\ signals' = signals + 1
  /\ UNCHANGED edits
  /\ SigHup(p) \/ SigQuit(p) \/ SigDefault(p)

(* SIGKILL, a crash, or a call of main() that fails and ends in exit().    *)
Kill(p) ==
  /\ Alive(p)
  /\ Die(p)
  /\ UNCHANGED bounds

-----------------------------------------------------------------------------
(* Clients, and the administrator of the machine.                          *)

Connect(c, s) ==
  /\ conn[c] = "idle"
  /\ fs[s] \in Procs
  /\ LET p == fs[s] IN
       /\ sock[p] = "listening"
       /\ Len(queue[p]) < Backlog
       /\ queue' = [queue EXCEPT ![p] = Append(@, c)]
  /\ conn' = [conn EXCEPT ![c] = "waiting"]
  /\ UNCHANGED <<ini, fs, pidOf, pc, mode, conf, hup, quit, locked, sock,
                 msgsock, buf, answer, bounds>>

HangUp(c) ==
  /\ conn[c] = "waiting"
  /\ conn' = [conn EXCEPT ![c] = "gone"]
  /\ UNCHANGED <<ini, fs, pidOf, procVars, answer, bounds>>

Edit(i) ==
  /\ edits < MaxEdits /\ i # ini
  /\ ini' = i
  /\ edits' = edits + 1
  /\ UNCHANGED <<fs, pidOf, procVars, conn, answer, signals>>

RemoveStale(s) ==
  /\ fs[s] = "stale"
  /\ fs' = [fs EXCEPT ![s] = "none"]
  /\ UNCHANGED <<ini, pidOf, procVars, conn, answer, bounds>>

-----------------------------------------------------------------------------
Main(p) ==
  \/ Start(p) \/ Daemonize(p) \/ TakeLock(p) \/ AlreadyRunning(p)
  \/ Truncate(p) \/ WritePid(p) \/ InstallHup(p) \/ InstallQuit(p)
  \/ Socket(p) \/ Bind(p) \/ BindFails(p) \/ Listen(p)
  \/ Accept(p) \/ Stat(p) \/ Format(p) \/ Send(p) \/ BrokenPipe(p)

Next ==
  \/ \E p \in Procs : Main(p) \/ Signal(p) \/ Kill(p)
  \/ \E c \in Clients : HangUp(c) \/ \E s \in Paths : Connect(c, s)
  \/ \E i \in Inis : Edit(i)
  \/ \E s \in Paths : RemoveStale(s)

Spec == Init /\ [][Next]_vars

(* The scheduler runs every process that can take a step; nothing obliges  *)
(* signals, clients or the administrator to act.                           *)
FairSpec == Spec /\ \A p \in Procs : WF_vars(Main(p))

-----------------------------------------------------------------------------
(***************************************************************************)
(* Properties.  They hold of an installation where every run is a daemon   *)
(* and the ini files agree on the lock file and never use its path for the *)
(* socket.                                                                 *)
(***************************************************************************)
Named(k) == {ValueOf(i, k) : i \in Inis \ {Unreadable}}

Sane ==
  /\ Modes = {"daemon"}
  /\ \A s, t \in Named("lock") : s = t
  /\ Named("lock") \cap Named("sock") = {}

(* The steps main() takes once already_running() has returned 0.           *)
Past(p) ==
  /\ mode[p] = "daemon"
  /\ pc[p] \in {"truncate", "writepid", "sighup", "sigquit", "socket", "bind",
               "listen", "accept", "stat", "format", "send"}

(* One daemon at a time, which is what already_running() is for: whatever  *)
(* the interleaving of starts, crashes, reloads and SIGQUITs that unlink   *)
(* files, no two runs are past it.                                         *)
SingleDaemon == \A p, q \in Procs : Past(p) /\ Past(q) => p = q

(* The lock file holds the pid of the daemon that runs: no run that loses  *)
(* the race for the lock truncates or overwrites it.                       *)
PidFileTruth ==
  \A p \in Procs :
    Past(p) /\ pc[p] \notin {"truncate", "writepid"}
      => locked[p] \in Paths /\ pidOf[locked[p]] = p

(* A daemon that listens can be reached under some path, though a reload   *)
(* may have changed socket_name and SIGQUIT unlinks whatever that names.   *)
ServingReachable ==
  \A p \in Procs : sock[p] = "listening" => \E s \in Paths : fs[s] = p

(* No connection is leaked or held twice: a client that waits is in one    *)
(* place of one queue, or is the one accepted client of one run.           *)
Holders(c) ==
  {<<p, 0>> : p \in {q \in Procs : msgsock[q] = c}}
    \cup UNION {{<<p, i>> : i \in {j \in DOMAIN queue[p] : queue[p][j] = c}}
                : p \in Procs}
WaitingIsHeld ==
  \A c \in Clients : conn[c] = "waiting" => Cardinality(Holders(c)) = 1

(* What the clients and the administrator see of all runs together: one    *)
(* service that changes hands only when its holder has ended.              *)
Owner == IF \E p \in Procs : Past(p) THEN CHOOSE p \in Procs : Past(p) ELSE None
Phase == IF Owner = None THEN "idle"
         ELSE CASE sock[Owner] \in {"unset", "open"} -> "starting"
                [] sock[Owner] = "listening" -> "serving"
                [] sock[Owner] = "closed" -> "closed"
Service == INSTANCE SingleService
             WITH owner <- Owner, phase <- Phase,
                  answered <- {c \in Clients : conn[c] = "answered"}
ImplementsService == Service!Spec

(* Every client that connects is answered, hangs up or is cut off: the     *)
(* accept loop gets to it however signals interrupt accept().              *)
ClientServed == \A c \in Clients : conn[c] = "waiting" ~> conn[c] # "waiting"

(* A run that starts serves or ends: it never hangs on the lock another    *)
(* run holds, nor on a socket it cannot bind.                              *)
StartupEnds == \A p \in Procs : pc[p] = "daemonize" ~> pc[p] \in {"accept", "dead"}

(* What the documents say and the code does not do.                        *)

(* main.c:107-110 prints the size of the file it names.                    *)
ReplyNamesMeasuredFile ==
  \A c \in Clients : answer[c].name = answer[c].measured

(* daemon_stat.service:9 stops the service with SIGQUIT: a run that has    *)
(* handled one (its socket is closed) ends.                                *)
QuitStops == \A p \in Procs : sock[p] = "closed" ~> pc[p] = "dead"

(* main.c:28 says that the handler of SIGQUIT removes the socket: the one  *)
(* it has just closed is no longer in the file system.                     *)
QuitRemovesSocket ==
  [][\A p \in Procs, s \in Paths :
       fs[s] = p /\ pc[p] # "dead" /\ pc'[p] # "dead" => fs'[s] # "stale"]_vars
=============================================================================
