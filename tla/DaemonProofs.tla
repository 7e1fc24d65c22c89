---------------------------- MODULE DaemonProofs ----------------------------
(***************************************************************************)
(* Proofs about Daemon, for every value of its constants.                  *)
(***************************************************************************)
EXTENDS Daemon, SequenceTheorems, FiniteSetTheorems, TLAPS

-----------------------------------------------------------------------------
(* What read_conf() can leave in the names.                                *)

(* A value read from the ini file is a path, never the empty name.         *)
LEMMA ValueIsPath ==
  ASSUME NEW i \in Inis \ {Unreadable}, NEW k \in Fields
  PROVE  ValueOf(i, k) \in Paths /\ ValueOf(i, k) \in Named(k)
  <1>1. i \in [Fields -> Paths \cup {Missing, Bad}]
    BY DaemonAssumption DEF DaemonAssumption
  <1>2. ValueOf(i, k) \in Paths
    BY <1>1, DaemonAssumption DEF DaemonAssumption, ValueOf
  <1>3. ValueOf(i, k) \in Named(k)
    BY DEF Named
  <1> QED BY <1>2, <1>3

(* read_conf() (utils.c:20-70) leaves each name as it was or gives it a    *)
(* value of the ini file; it never sets the lock file without having set   *)
(* the socket name.                                                        *)
LEMMA ReadConfEffect ==
  ASSUME NEW i \in Inis, NEW old \in Names
  PROVE  /\ ReadConf(old, i) \in Names
         /\ \A k \in Fields : \/ ReadConf(old, i)[k] = old[k]
                              \/ /\ ReadConf(old, i)[k] \in Named(k)
                                 /\ ReadConf(old, i)[k] \in Paths
         /\ \/ ReadConf(old, i)["lock"] = old["lock"]
            \/ ReadConf(old, i)["sock"] \in Paths
  <1>1. CASE i = Unreadable
    BY <1>1 DEF ReadConf
  <1>2. CASE i # Unreadable
    <2>1. \A k \in Fields : ValueOf(i, k) \in Paths /\ ValueOf(i, k) \in Named(k)
      BY <1>2, ValueIsPath
    <2>2. ReadConf(old, i) =
            [k \in Fields |-> IF \E j \in Before(k) \cup {k} : Halts(i, j)
                              THEN old[k] ELSE ValueOf(i, k)]
      BY <1>2 DEF ReadConf
    <2>3. ReadConf(old, i) \in Names
      BY <2>1, <2>2 DEF Names
    <2>4. \A k \in Fields : \/ ReadConf(old, i)[k] = old[k]
                            \/ ReadConf(old, i)[k] = ValueOf(i, k)
      BY <2>2
    <2>5. Before("sock") \cup {"sock"} \subseteq Before("lock") \cup {"lock"}
      BY DEF Before
    <2>6. \/ ReadConf(old, i)["lock"] = old["lock"]
          \/ ReadConf(old, i)["sock"] = ValueOf(i, "sock")
      BY <2>2, <2>5 DEF Fields
    <2> QED BY <2>1, <2>3, <2>4, <2>6 DEF Fields
  <1> QED BY <1>1, <1>2

-----------------------------------------------------------------------------
(* Changing a function at a point keeps its type.                          *)
LEMMA ExceptType ==
  ASSUME NEW D, NEW R, NEW f \in [D -> R], NEW d, NEW r \in R
  PROVE  [f EXCEPT ![d] = r] \in [D -> R]
  OBVIOUS

(* Every variable keeps its type, whatever the constants are.              *)

LEMMA TypeInit == Init => TypeOK
  BY DaemonAssumption
  DEF Init, TypeOK, DaemonAssumption, Names, Blank, Answers, NoAnswer, Fields

(* The end of a run keeps the types.                                       *)
LEMMA TypeDie ==
  ASSUME TypeOK, NEW p \in Procs, Die(p), UNCHANGED <<signals, edits>>
         \/ (signals' \in Nat /\ edits' \in Nat)
  PROVE  TypeOK'
  BY DaemonAssumption DEF TypeOK, Die, Reset, DaemonAssumption

LEMMA TypeStep == TypeOK /\ [Next]_vars => TypeOK'
  <1> SUFFICES ASSUME TypeOK, [Next]_vars PROVE TypeOK'
    OBVIOUS
  <1> USE DaemonAssumption DEF DaemonAssumption
  <1>1. CASE UNCHANGED vars
    BY <1>1 DEF TypeOK, vars, procVars, bounds
  <1>2. ASSUME NEW p \in Procs, Main(p) PROVE TypeOK'
    <2>1. CASE Start(p)
      <3>1. Blank \in Names
        BY DEF Blank, Names
      <3>2. ReadConf(Blank, ini) \in Names
        BY <3>1, ReadConfEffect DEF TypeOK
      <3> QED BY <2>1, <3>2 DEF TypeOK, Start, bounds
    <2>2. CASE Daemonize(p)
      BY <2>2 DEF TypeOK, Daemonize, Goto, bounds
    <2>3. CASE TakeLock(p)
      BY <2>3 DEF TypeOK, TakeLock, CanOpenLock, Goto, bounds
    <2>4. CASE AlreadyRunning(p)
      BY <2>4, TypeDie DEF AlreadyRunning, bounds
    <2>5. CASE Truncate(p)
      BY <2>5 DEF TypeOK, Truncate, Goto, bounds
    <2>6. CASE WritePid(p)
      BY <2>6 DEF TypeOK, WritePid, Goto, bounds
    <2>7. CASE InstallHup(p)
      BY <2>7 DEF TypeOK, InstallHup, Goto, bounds
    <2>8. CASE InstallQuit(p)
      BY <2>8 DEF TypeOK, InstallQuit, Goto, bounds
    <2>9. CASE Socket(p)
      BY <2>9 DEF TypeOK, Socket, Goto, bounds
    <2>10. CASE Bind(p)
      BY <2>10 DEF TypeOK, Bind, Goto, bounds
    <2>11. CASE BindFails(p)
      BY <2>11, TypeDie DEF BindFails, bounds
    <2>12. CASE Listen(p)
      BY <2>12 DEF TypeOK, Listen, Goto, bounds
    <2>13. CASE Accept(p)
      <3>1. queue \in [Procs -> Seq(Clients)] /\ queue[p] \in Seq(Clients)
        BY DEF TypeOK
      <3>2. CASE queue[p] # <<>> /\ msgsock' = [msgsock EXCEPT ![p] = Head(queue[p])]
                                /\ queue' = [queue EXCEPT ![p] = Tail(queue[p])]
        <4>1. Head(queue[p]) \in Clients \cup {None} /\ Tail(queue[p]) \in Seq(Clients)
          BY <3>1, <3>2, HeadTailProperties
        <4>2. msgsock' \in [Procs -> Clients \cup {None}]
          BY <3>2, <4>1, ExceptType, Zenon DEF TypeOK
        <4>3. queue' \in [Procs -> Seq(Clients)]
          BY <3>1, <3>2, <4>1, ExceptType, Zenon
        <4> QED BY <2>13, <4>2, <4>3 DEF TypeOK, Accept, Goto, bounds
      <3>3. CASE msgsock' = [msgsock EXCEPT ![p] = None] /\ UNCHANGED queue
        BY <2>13, <3>3 DEF TypeOK, Accept, Goto, bounds
      <3> QED BY <2>13, <3>2, <3>3 DEF Accept
    <2>14. CASE Stat(p)
      <3>1. conf[p].file \in Paths \cup {Empty}
        BY DEF TypeOK, Names, Fields
      <3>2. buf' \in [Procs -> Answers]
        BY <2>14, <3>1 DEF TypeOK, Stat, Answers
      <3> QED BY <2>14, <3>2 DEF TypeOK, Stat, Goto, bounds
    <2>15. CASE Format(p)
      <3>1. conf[p].file \in Paths \cup {Empty}
        BY DEF TypeOK, Names, Fields
      <3>2. buf' \in [Procs -> Answers]
        BY <2>15, <3>1 DEF TypeOK, Format, Answers
      <3> QED BY <2>15, <3>2 DEF TypeOK, Format, Goto, bounds
    <2>16. CASE Send(p)
      BY <2>16 DEF TypeOK, Send, AfterSend, Goto, bounds
    <2>17. CASE BrokenPipe(p)
      BY <2>17, TypeDie DEF BrokenPipe, bounds
    <2> QED BY <1>2, <2>1, <2>2, <2>3, <2>4, <2>5, <2>6, <2>7, <2>8, <2>9, <2>10,
               <2>11, <2>12, <2>13, <2>14, <2>15, <2>16, <2>17 DEF Main
  <1>3. ASSUME NEW p \in Procs, Signal(p) PROVE TypeOK'
    <2>1. signals' \in Nat /\ edits' \in Nat
      BY <1>3 DEF Signal, TypeOK
    <2>2. CASE SigHup(p)
      <3>1. ReadConf(conf[p], ini) \in Names
        BY ReadConfEffect DEF TypeOK
      <3> QED BY <2>1, <2>2, <3>1 DEF TypeOK, SigHup, Resume, Goto
    <2>3. CASE SigQuit(p)
      <3>1. pc' \in [Procs -> {"new", "daemonize", "lock", "truncate", "writepid",
                               "sighup", "sigquit", "socket", "bind", "listen",
                               "accept", "stat", "format", "send", "dead"}]
            /\ msgsock' \in [Procs -> Clients \cup {None}]
        BY <2>3 DEF TypeOK, SigQuit, Resume, Goto
      <3>2. /\ sock' \in [Procs -> {"unset", "open", "listening", "closed"}]
            /\ fs' \in [Paths -> {"none", "file", "stale"} \cup Procs]
            /\ pidOf' \in [Paths -> Procs \cup {None}]
            /\ locked' \in [Procs -> Paths \cup {None}]
        BY <2>3 DEF TypeOK, SigQuit, Closed
      <3>3. /\ queue' \in [Procs -> Seq(Clients)]
            /\ conn' \in [Clients -> {"idle", "waiting", "gone", "reset", "answered"}]
        BY <2>3 DEF TypeOK, SigQuit, Reset
      <3> QED BY <2>1, <2>3, <3>1, <3>2, <3>3 DEF TypeOK, SigQuit
    <2>4. CASE SigDefault(p)
      BY <2>1, <2>4, TypeDie DEF SigDefault
    <2> QED BY <1>3, <2>2, <2>3, <2>4 DEF Signal
  <1>4. ASSUME NEW p \in Procs, Kill(p) PROVE TypeOK'
    BY <1>4, TypeDie DEF Kill, bounds
  <1>5. ASSUME NEW c \in Clients, HangUp(c) PROVE TypeOK'
    BY <1>5 DEF TypeOK, HangUp, procVars, bounds
  <1>6. ASSUME NEW c \in Clients, NEW s \in Paths, Connect(c, s) PROVE TypeOK'
    BY <1>6 DEF TypeOK, Connect, bounds
  <1>7. ASSUME NEW i \in Inis, Edit(i) PROVE TypeOK'
    BY <1>7 DEF TypeOK, Edit, procVars, bounds
  <1>8. ASSUME NEW s \in Paths, RemoveStale(s) PROVE TypeOK'
    BY <1>8 DEF TypeOK, RemoveStale, procVars, bounds
  <1> QED BY <1>1, <1>2, <1>3, <1>4, <1>5, <1>6, <1>7, <1>8 DEF Next

(* TypeOK is an invariant of every instance.                               *)
THEOREM TypeCorrect == Spec => []TypeOK
  <1> QED BY TypeInit, TypeStep, PTL DEF Spec

-----------------------------------------------------------------------------
(***************************************************************************)
(* The inductive invariant behind the safety properties of a Sane          *)
(* installation.                                                           *)
(***************************************************************************)

(* Every run is a daemon, and only one past its lock can have handlers or  *)
(* an open socket.                                                         *)
Daemons ==
  \A p \in Procs :
    /\ mode[p] = "daemon"
    /\ quit[p] = "handler" => Past(p) \/ pc[p] = "dead"
    /\ sock[p] \in {"open", "listening"} => Past(p)

(* The names a run holds are empty or come from an ini file; past the lock *)
(* neither the lock file nor the socket name is empty.                     *)
NamesKnown ==
  \A p \in Procs :
    /\ conf[p].lock \in Named("lock") \cup {Empty}
    /\ conf[p].sock \in Named("sock") \cup {Empty}
    /\ conf[p].lock # Empty => conf[p].sock # Empty
    /\ Past(p) => conf[p].lock # Empty

(* A run past the lock holds it, on a lock file, and nobody else does.     *)
LockHeld ==
  \A p \in Procs :
    /\ Past(p) => locked[p] # None
    /\ locked[p] # None => locked[p] \in Named("lock")
    /\ \A q \in Procs : locked[p] = locked[q] /\ locked[p] # None => p = q

(* From bind() until SIGQUIT or the end the socket is in the file system.  *)
SocketNamed ==
  \A p \in Procs :
    sock[p] = "listening" \/ (sock[p] = "open" /\ pc[p] = "listen")
      => \E s \in Paths : fs[s] = p

IInv ==
  TypeOK /\ Daemons /\ NamesKnown /\ LockHeld /\ PidFileTruth /\ SocketNamed

LEMMA IInvInit == Init => IInv
  BY TypeInit, DaemonAssumption
  DEF Init, IInv, Daemons, NamesKnown, LockHeld, PidFileTruth, SocketNamed,
      Past, Blank, Fields, DaemonAssumption

(* Lock files and socket names are paths, and no path is both.             *)
LEMMA NamedPaths ==
  ASSUME Sane
  PROVE  /\ Named("lock") \subseteq Paths /\ Named("sock") \subseteq Paths
         /\ Empty \notin Named("lock") /\ None \notin Named("lock")
         /\ Empty \notin Paths /\ None \notin Paths
         /\ \A s, t \in Named("lock") : s = t
         /\ Named("lock") \cap Named("sock") = {}
  BY ValueIsPath, DaemonAssumption DEF Named, Sane, Fields, DaemonAssumption

(***************************************************************************)
(* Most steps touch nothing the invariant speaks of: they leave files,     *)
(* locks, names and sockets alone and take no run past its lock.           *)
(***************************************************************************)
Quiet ==
  /\ UNCHANGED <<fs, pidOf, mode, conf, quit, locked, sock>>
  /\ \A p \in Procs :
       /\ Past(p)' <=> Past(p)
       /\ pc'[p] = "dead" <=> pc[p] = "dead"
       /\ pc'[p] = "listen" => pc[p] = "listen"
       /\ pc[p] \in {"truncate", "writepid"} => pc'[p] \in {"truncate", "writepid"}

Effect(p) ==
  \/ Start(p) \/ TakeLock(p) \/ Truncate(p) \/ WritePid(p) \/ InstallQuit(p)
  \/ Socket(p) \/ Bind(p) \/ Listen(p) \/ SigHup(p)
  \/ (Alive(p) /\ SigQuit(p)) \/ Die(p)

LEMMA StepCases ==
  ASSUME TypeOK, [Next]_vars
  PROVE  \/ Quiet
         \/ \E p \in Procs : Effect(p)
         \/ \E s \in Paths : RemoveStale(s)
  <1> USE DEF TypeOK, Quiet, Past
  <1>1. CASE UNCHANGED vars
    BY <1>1 DEF vars, procVars
  <1>2. ASSUME NEW p \in Procs, Main(p)
        PROVE  Quiet \/ Effect(p)
    <2>1. CASE Daemonize(p)
      BY <2>1 DEF Daemonize, Goto
    <2>2. CASE InstallHup(p)
      BY <2>2 DEF InstallHup, Goto
    <2>3. CASE Accept(p)
      BY <2>3 DEF Accept, Goto
    <2>4. CASE Stat(p)
      BY <2>4 DEF Stat, Goto
    <2>5. CASE Format(p)
      BY <2>5 DEF Format, Goto
    <2>6. CASE Send(p)
      BY <2>6 DEF Send, Goto
    <2> QED BY <1>2, <2>1, <2>2, <2>3, <2>4, <2>5, <2>6
            DEF Main, Effect, AlreadyRunning, BindFails, BrokenPipe
  <1>3. ASSUME NEW p \in Procs, Signal(p) \/ Kill(p) PROVE Effect(p)
    BY <1>3 DEF Signal, Kill, SigDefault, Effect
  <1>4. ASSUME NEW c \in Clients, HangUp(c) \/ \E s \in Paths : Connect(c, s)
        PROVE  Quiet
    <2>1. CASE HangUp(c)
      BY <2>1 DEF HangUp, procVars
    <2>2. ASSUME NEW s \in Paths, Connect(c, s) PROVE Quiet
      BY <2>2 DEF Connect
    <2> QED BY <1>4, <2>1, <2>2
  <1>5. ASSUME NEW i \in Inis, Edit(i) PROVE Quiet
    BY <1>5 DEF Edit, procVars
  <1> QED BY <1>1, <1>2, <1>3, <1>4, <1>5 DEF Next

(* Modes and handlers: a step moves Past(p) only at TakeLock, and at the   *)
(* end of a run, which closes the socket too.                              *)
LEMMA DaemonsStep ==
  ASSUME Sane, IInv, [Next]_vars
  PROVE  Daemons'
  <1> USE DEF IInv, TypeOK, Daemons, Past
  <1>1. CASE Quiet
    BY <1>1 DEF Quiet
  <1>2. ASSUME NEW p \in Procs, Effect(p) PROVE Daemons'
    <2>1. CASE Start(p)
      BY <2>1 DEF Start, Sane
    <2>2. CASE TakeLock(p)
      BY <2>2 DEF TakeLock, Goto
    <2>3. CASE Truncate(p)
      BY <2>3 DEF Truncate, Goto
    <2>4. CASE WritePid(p)
      BY <2>4 DEF WritePid, Goto
    <2>5. CASE InstallQuit(p)
      BY <2>5 DEF InstallQuit, Goto
    <2>6. CASE Socket(p)
      BY <2>6 DEF Socket, Goto
    <2>7. CASE Bind(p)
      BY <2>7 DEF Bind, Goto
    <2>8. CASE Listen(p)
      BY <2>8 DEF Listen, Goto
    <2>9. CASE SigHup(p)
      BY <2>9 DEF SigHup, Resume, Goto
    <2>10. CASE Alive(p) /\ SigQuit(p)
      BY <2>10 DEF SigQuit, Closed, Resume, Goto
    <2>11. CASE Die(p)
      BY <2>11 DEF Die
    <2> QED BY <1>2, <2>1, <2>2, <2>3, <2>4, <2>5, <2>6, <2>7, <2>8, <2>9, <2>10,
               <2>11 DEF Effect
  <1>3. ASSUME NEW s \in Paths, RemoveStale(s) PROVE Daemons'
    BY <1>3 DEF RemoveStale, procVars
  <1> QED BY <1>1, <1>2, <1>3, StepCases

(* Names: only Start and a reload set them, both through read_conf().      *)
LEMMA NamesStep ==
  ASSUME Sane, IInv, [Next]_vars
  PROVE  NamesKnown'
  <1> USE NamedPaths DEF IInv, TypeOK, NamesKnown, Past
  <1>1. CASE Quiet
    BY <1>1 DEF Quiet
  <1>2. ASSUME NEW p \in Procs, Effect(p) PROVE NamesKnown'
    <2>1. CASE Start(p)
      <3>1. Blank \in Names /\ Blank["lock"] = Empty /\ Blank["sock"] = Empty
        BY DEF Blank, Names, Fields
      <3>2. /\ ReadConf(Blank, ini)["lock"] \in Named("lock") \cup {Empty}
            /\ ReadConf(Blank, ini)["sock"] \in Named("sock") \cup {Empty}
            /\ ReadConf(Blank, ini)["lock"] # Empty => ReadConf(Blank, ini)["sock"] # Empty
        BY <3>1, ReadConfEffect DEF Fields
      <3> QED BY <2>1, <3>2 DEF Start, Sane
    <2>2. CASE TakeLock(p)
      BY <2>2 DEF TakeLock, CanOpenLock, Goto
    <2>3. CASE Truncate(p)
      BY <2>3 DEF Truncate, Goto
    <2>4. CASE WritePid(p)
      BY <2>4 DEF WritePid, Goto
    <2>5. CASE InstallQuit(p)
      BY <2>5 DEF InstallQuit, Goto
    <2>6. CASE Socket(p)
      BY <2>6 DEF Socket, Goto
    <2>7. CASE Bind(p)
      BY <2>7 DEF Bind, Goto
    <2>8. CASE Listen(p)
      BY <2>8 DEF Listen, Goto
    <2>9. CASE SigHup(p)
      <3>1. LET new == ReadConf(conf[p], ini) IN
              /\ new["lock"] = conf[p]["lock"] \/ new["lock"] \in Named("lock")
              /\ new["sock"] = conf[p]["sock"] \/ new["sock"] \in Named("sock")
              /\ new["lock"] = conf[p]["lock"] \/ new["sock"] \in Paths
        BY ReadConfEffect DEF Fields
      <3>2. conf' = [conf EXCEPT ![p] = ReadConf(conf[p], ini)]
        BY <2>9 DEF SigHup
      <3>3. \A q \in Procs : Past(q)' => Past(q)
        BY <2>9 DEF SigHup, Resume, Goto
      <3> QED BY <3>1, <3>2, <3>3
    <2>10. CASE Alive(p) /\ SigQuit(p)
      BY <2>10 DEF SigQuit, Resume, Goto
    <2>11. CASE Die(p)
      BY <2>11 DEF Die
    <2> QED BY <1>2, <2>1, <2>2, <2>3, <2>4, <2>5, <2>6, <2>7, <2>8, <2>9, <2>10,
               <2>11 DEF Effect
  <1>3. ASSUME NEW s \in Paths, RemoveStale(s) PROVE NamesKnown'
    BY <1>3 DEF RemoveStale, procVars
  <1> QED BY <1>1, <1>2, <1>3, StepCases

(* Locks: taken at TakeLock when nobody has it, freed by the end of the    *)
(* run; SIGQUIT unlinks a socket name, which is no lock file.              *)
LEMMA LockStep ==
  ASSUME Sane, IInv, [Next]_vars
  PROVE  LockHeld'
  <1> USE NamedPaths DEF IInv, TypeOK, LockHeld, Past
  <1>1. CASE Quiet
    BY <1>1 DEF Quiet
  <1>2. ASSUME NEW p \in Procs, Effect(p) PROVE LockHeld'
    <2>1. CASE Start(p)
      BY <2>1 DEF Start, Sane
    <2>2. CASE TakeLock(p)
      <3>1. conf[p].lock \in Named("lock")
        BY <2>2 DEF TakeLock, CanOpenLock, NamesKnown
      <3> QED BY <2>2, <3>1 DEF TakeLock, LockTaken, Goto
    <2>3. CASE Truncate(p)
      BY <2>3 DEF Truncate, Goto
    <2>4. CASE WritePid(p)
      BY <2>4 DEF WritePid, Goto
    <2>5. CASE InstallQuit(p)
      BY <2>5 DEF InstallQuit, Goto
    <2>6. CASE Socket(p)
      BY <2>6 DEF Socket, Goto
    <2>7. CASE Bind(p)
      BY <2>7 DEF Bind, Goto
    <2>8. CASE Listen(p)
      BY <2>8 DEF Listen, Goto
    <2>9. CASE SigHup(p)
      BY <2>9 DEF SigHup, Resume, Goto
    <2>10. CASE Alive(p) /\ SigQuit(p)
      <3>1. \A q \in Procs : locked[q] # None => locked[q] # Unlinked(p)
        BY DEF Unlinked, NamesKnown
      <3>2. locked' = locked
        BY <2>10, <3>1 DEF SigQuit
      <3>3. \A q \in Procs : Past(q)' => Past(q)
        BY <2>10 DEF SigQuit, Resume, Goto
      <3> QED BY <3>2, <3>3
    <2>11. CASE Die(p)
      BY <2>11 DEF Die
    <2> QED BY <1>2, <2>1, <2>2, <2>3, <2>4, <2>5, <2>6, <2>7, <2>8, <2>9, <2>10,
               <2>11 DEF Effect
  <1>3. ASSUME NEW s \in Paths, RemoveStale(s) PROVE LockHeld'
    BY <1>3 DEF RemoveStale, procVars
  <1> QED BY <1>1, <1>2, <1>3, StepCases

(* Two runs past the lock hold it on the one lock file there is, so they   *)
(* are one run.                                                            *)
LEMMA OneDaemon ==
  ASSUME Sane, IInv
  PROVE  SingleDaemon
  BY NamedPaths DEF IInv, LockHeld, SingleDaemon

(* The pid file: only the holder of the lock writes the file it has        *)
(* locked, and SIGQUIT unlinks no lock file.                               *)
LEMMA PidStep ==
  ASSUME Sane, IInv, [Next]_vars
  PROVE  PidFileTruth'
  <1> USE NamedPaths, OneDaemon DEF IInv, TypeOK, PidFileTruth, SingleDaemon, Past
  <1>1. CASE Quiet
    BY <1>1 DEF Quiet
  <1>2. ASSUME NEW p \in Procs, Effect(p) PROVE PidFileTruth'
    <2>1. CASE Start(p)
      BY <2>1 DEF Start, Sane
    <2>2. CASE TakeLock(p)
      BY <2>2 DEF TakeLock, Goto
    <2>3. CASE Truncate(p)
      BY <2>3 DEF Truncate, Goto, LockHeld, Daemons
    <2>4. CASE WritePid(p)
      BY <2>4 DEF WritePid, Goto, LockHeld, Daemons
    <2>5. CASE InstallQuit(p)
      BY <2>5 DEF InstallQuit, Goto
    <2>6. CASE Socket(p)
      BY <2>6 DEF Socket, Goto
    <2>7. CASE Bind(p)
      BY <2>7 DEF Bind, Goto
    <2>8. CASE Listen(p)
      BY <2>8 DEF Listen, Goto
    <2>9. CASE SigHup(p)
      BY <2>9 DEF SigHup, Resume, Goto
    <2>10. CASE Alive(p) /\ SigQuit(p)
      <3>1. \A q \in Procs : locked[q] # None => locked[q] # Unlinked(p)
        BY DEF Unlinked, NamesKnown, LockHeld
      <3>2. locked' = locked
        BY <2>10, <3>1 DEF SigQuit
      <3>3. \A s \in Paths : s # Unlinked(p) => pidOf'[s] = pidOf[s]
        BY <2>10 DEF SigQuit
      <3>4. \A q \in Procs : /\ Past(q)' => Past(q)
                             /\ pc[q] \in {"truncate", "writepid"} => pc'[q] = pc[q]
        BY <2>10 DEF SigQuit, Resume, Goto
      <3>5. ASSUME NEW q \in Procs, Past(q)', pc'[q] \notin {"truncate", "writepid"}
            PROVE  locked'[q] \in Paths /\ pidOf'[locked'[q]] = q
        <4>1. locked[q] \in Paths /\ pidOf[locked[q]] = q
          BY <3>4, <3>5
        <4> QED BY <4>1, <3>1, <3>2, <3>3
      <3> QED BY <3>5
    <2>11. CASE Die(p)
      BY <2>11 DEF Die
    <2> QED BY <1>2, <2>1, <2>2, <2>3, <2>4, <2>5, <2>6, <2>7, <2>8, <2>9, <2>10,
               <2>11 DEF Effect
  <1>3. ASSUME NEW s \in Paths, RemoveStale(s) PROVE PidFileTruth'
    BY <1>3 DEF RemoveStale, procVars
  <1> QED BY <1>1, <1>2, <1>3, StepCases

(* Sockets: bind() and the lock file only ever take a path no run's socket *)
(* has, and the one run that may unlink its socket is the one closing it.  *)
LEMMA SocketStep ==
  ASSUME Sane, IInv, [Next]_vars
  PROVE  SocketNamed'
  <1> USE NamedPaths, OneDaemon, DaemonAssumption
      DEF IInv, TypeOK, SocketNamed, DaemonAssumption
  <1>1. CASE Quiet
    BY <1>1 DEF Quiet
  <1>2. ASSUME NEW p \in Procs, Effect(p) PROVE SocketNamed'
    <2>1. CASE Start(p)
      BY <2>1 DEF Start
    <2>2. CASE TakeLock(p)
      BY <2>2 DEF TakeLock, CanOpenLock, Goto
    <2>3. CASE Truncate(p)
      BY <2>3 DEF Truncate, Goto
    <2>4. CASE WritePid(p)
      BY <2>4 DEF WritePid, Goto
    <2>5. CASE InstallQuit(p)
      BY <2>5 DEF InstallQuit, Goto
    <2>6. CASE Socket(p)
      BY <2>6 DEF Socket, Goto
    <2>7. CASE Bind(p)
      <3>1. conf[p].sock \in Paths /\ fs[conf[p].sock] = "none"
        BY <2>7 DEF Bind, CanBind, NamesKnown, Daemons, Past, Goto
      <3>2. fs'[conf[p].sock] = p
        BY <2>7, <3>1 DEF Bind
      <3>3. \A q \in Procs, s \in Paths : fs[s] = q => fs'[s] = q
        BY <2>7, <3>1 DEF Bind
      <3>4. pc' = [pc EXCEPT ![p] = "listen"] /\ sock' = sock
        BY <2>7 DEF Bind, Goto
      <3> QED BY <3>1, <3>2, <3>3, <3>4
    <2>8. CASE Listen(p)
      BY <2>8 DEF Listen, Goto
    <2>9. CASE SigHup(p)
      BY <2>9 DEF SigHup, Resume, Goto
    <2>10. CASE Alive(p) /\ SigQuit(p)
      <3>1. Past(p)
        BY <2>10 DEF SigQuit, Daemons, Alive
      <3>2. \A q \in Procs : sock[q] \in {"open", "listening"} => q = p
        BY <3>1 DEF Daemons, SingleDaemon
      <3>3. sock'[p] \notin {"open", "listening"}
        BY <2>10 DEF SigQuit, Closed
      <3>4. \A q \in Procs : q # p => sock'[q] = sock[q]
        BY <2>10 DEF SigQuit
      <3> QED BY <3>2, <3>3, <3>4
    <2>11. CASE Die(p)
      BY <2>11 DEF Die
    <2> QED BY <1>2, <2>1, <2>2, <2>3, <2>4, <2>5, <2>6, <2>7, <2>8, <2>9, <2>10,
               <2>11 DEF Effect
  <1>3. ASSUME NEW s \in Paths, RemoveStale(s) PROVE SocketNamed'
    BY <1>3 DEF RemoveStale, procVars
  <1> QED BY <1>1, <1>2, <1>3, StepCases

(* IInv is inductive.                                                      *)
THEOREM Inductive ==
  ASSUME Sane
  PROVE  Spec => []IInv
  <1>1. IInv /\ [Next]_vars => IInv'
    <2> SUFFICES ASSUME IInv, [Next]_vars PROVE IInv'
      OBVIOUS
    <2>1. TypeOK'
      BY TypeStep DEF IInv
    <2> QED BY <2>1, DaemonsStep, NamesStep, LockStep, PidStep, SocketStep DEF IInv
  <1> QED BY IInvInit, <1>1, PTL DEF Spec

(* already_running() lets one daemon past at a time.                       *)
THEOREM OneDaemonAtATime ==
  ASSUME Sane
  PROVE  Spec => []SingleDaemon
  <1>1. IInv => SingleDaemon
    BY OneDaemon
  <1> QED BY <1>1, Inductive, PTL

(* The lock file names the daemon that runs.                               *)
THEOREM PidFileNamesDaemon ==
  ASSUME Sane
  PROVE  Spec => []PidFileTruth
  <1>1. IInv => PidFileTruth
    BY DEF IInv
  <1> QED BY <1>1, Inductive, PTL

(* A listening daemon keeps a path to its socket.                          *)
THEOREM ListenerReachable ==
  ASSUME Sane
  PROVE  Spec => []ServingReachable
  <1>1. IInv => ServingReachable
    BY DEF IInv, SocketNamed, ServingReachable
  <1> QED BY <1>1, Inductive, PTL

-----------------------------------------------------------------------------
(***************************************************************************)
(* Connections.  These hold of any installation.  Client c is held at      *)
(* place i of run p: accepted for i = 0, the i-th in its queue otherwise.  *)
(***************************************************************************)
Holds(c, p, i) ==
  \/ i = 0 /\ msgsock[p] = c
  \/ i \in DOMAIN queue[p] /\ queue[p][i] = c

(* A client that is held has connected and has had no answer, it is held   *)
(* in one place, and one that waits is held; main() has accepted a client  *)
(* only between accept() and send().                                       *)
Held ==
  /\ \A p \in Procs : msgsock[p] # None => pc[p] \in {"stat", "format", "send"}
  /\ \A c \in Clients :
       /\ conn[c] = "waiting" => \E p \in Procs, i \in Nat : Holds(c, p, i)
       /\ \A p, q \in Procs, i, j \in Nat : Holds(c, p, i) /\ Holds(c, q, j) => p = q /\ i = j
       /\ \A p \in Procs, i \in Nat : Holds(c, p, i) => conn[c] \in {"waiting", "gone"}

LEMMA HeldInit == Init => Held
  BY DaemonAssumption DEF Init, Held, Holds, DaemonAssumption

(* Steps that move no client.                                              *)
LEMMA HeldStays ==
  ASSUME Held, UNCHANGED <<queue, msgsock, conn>>,
         \A p \in Procs : pc[p] \in {"stat", "format", "send"}
                            => pc'[p] \in {"stat", "format", "send"}
  PROVE  Held'
  BY DEF Held, Holds

(* Steps that only let go of clients, and leave none of those waiting.     *)
LEMMA HeldLess ==
  ASSUME Held,
         \A p \in Procs : msgsock'[p] # None => pc'[p] \in {"stat", "format", "send"},
         \A c \in Clients, p \in Procs, i \in Nat : Holds(c, p, i)' =>
            Holds(c, p, i) /\ conn'[c] \in {"waiting", "gone"},
         \A c \in Clients, p \in Procs, i \in Nat :
            conn'[c] = "waiting" /\ Holds(c, p, i) => Holds(c, p, i)',
         \A c \in Clients : conn'[c] = "waiting" => conn[c] = "waiting"
  PROVE  Held'
  BY DEF Held

LEMMA HeldDie ==
  ASSUME TypeOK, Held, NEW r \in Procs, Die(r)
  PROVE  Held'
  <1> USE DEF TypeOK
  <1>1. \A p \in Procs : msgsock'[p] # None => pc'[p] \in {"stat", "format", "send"}
    BY DEF Held, Die
  <1>2. ASSUME NEW c \in Clients, NEW p \in Procs, NEW i \in Nat, Holds(c, p, i)'
        PROVE  Holds(c, p, i) /\ p # r
    <2>1. queue'[r] = <<>> /\ msgsock'[r] = None
      BY DEF Die
    <2>2. p # r
      BY <1>2, <2>1, DaemonAssumption DEF Holds, DaemonAssumption
    <2> QED BY <1>2, <2>2 DEF Die, Holds
  <1>3. \A c \in Clients, p \in Procs, i \in Nat : p # r /\ Holds(c, p, i) => Holds(c, p, i)'
    BY DEF Die, Holds
  <1>4. ASSUME NEW c \in Clients, NEW i \in Nat, Holds(c, r, i)
        PROVE  conn'[c] # "waiting"
    <2>1. c \in Queued(r) \cup {msgsock[r]}
      BY <1>4 DEF Holds, Queued
    <2> QED BY <2>1 DEF Die, Reset
  <1>5. ASSUME NEW c \in Clients
        PROVE  /\ conn'[c] = "waiting" => conn[c] = "waiting"
               /\ \/ conn'[c] = conn[c]
                  \/ \E i \in Nat : Holds(c, r, i)
    <2>1. queue[r] \in Seq(Clients)
      OBVIOUS
    <2>2. c \in Queued(r) \cup {msgsock[r]} => \E i \in Nat : Holds(c, r, i)
      BY <2>1, 0 \in Nat, DOMAIN queue[r] \subseteq Nat DEF Queued, Holds
    <2> QED BY <2>2 DEF Die, Reset
  <1> QED BY <1>1, <1>2, <1>3, <1>4, <1>5, HeldLess DEF Held

(* No client is held by accept() itself, so that a signal that ends it     *)
(* loses none.                                                             *)
LEMMA NoneInAccept ==
  ASSUME TypeOK, Held, NEW r \in Procs, pc[r] = "accept"
  PROVE  msgsock[r] = None /\ [msgsock EXCEPT ![r] = None] = msgsock
  <1>1. msgsock[r] = None
    BY DEF Held
  <1>2. msgsock \in [Procs -> Clients \cup {None}]
    BY DEF TypeOK
  <1> QED BY <1>1, <1>2

LEMMA ResumeMovesNone ==
  ASSUME TypeOK, Held, NEW r \in Procs, Resume(r)
  PROVE  /\ msgsock' = msgsock
         /\ \A p \in Procs : pc[p] \in {"stat", "format", "send"}
                              => pc'[p] \in {"stat", "format", "send"}
  BY NoneInAccept DEF Resume, Goto, TypeOK

LEMMA HeldQuit ==
  ASSUME TypeOK, Held, NEW r \in Procs, SigQuit(r)
  PROVE  Held'
  <1> USE DEF TypeOK
  <1>1. /\ \A p \in Procs : msgsock'[p] # None => pc'[p] \in {"stat", "format", "send"}
        /\ msgsock' = msgsock
    BY ResumeMovesNone DEF Held, SigQuit
  <1>2. /\ queue'[r] = <<>> /\ \A p \in Procs \ {r} : queue'[p] = queue[p]
        /\ conn' = Reset(Queued(r))
    BY DEF SigQuit
  <1>3. ASSUME NEW c \in Clients, NEW i \in DOMAIN queue[r], queue[r][i] = c
        PROVE  conn'[c] # "waiting"
    BY <1>2, <1>3 DEF Reset, Queued
  <1>4. ASSUME NEW c \in Clients
        PROVE  \/ conn'[c] = conn[c]
               \/ /\ conn[c] = "waiting" /\ conn'[c] = "reset"
                  /\ \E i \in Nat \ {0} : Holds(c, r, i)
    <2>1. queue[r] \in Seq(Clients)
      OBVIOUS
    <2>2. c \in Queued(r) => \E i \in Nat \ {0} : Holds(c, r, i)
      BY <2>1, DOMAIN queue[r] = 1 .. Len(queue[r]) DEF Queued, Holds
    <2> QED BY <1>2, <2>2 DEF Reset
  <1>5. ASSUME NEW c \in Clients, NEW p \in Procs, NEW i \in Nat, Holds(c, p, i)'
        PROVE  Holds(c, p, i) /\ (p = r => i = 0)
    BY <1>1, <1>2, <1>5 DEF Holds
  <1>6. ASSUME NEW c \in Clients, NEW p \in Procs, NEW i \in Nat,
               Holds(c, p, i), conn'[c] = "waiting"
        PROVE  Holds(c, p, i)'
    BY <1>1, <1>2, <1>3, <1>6 DEF Holds
  <1>7. ASSUME NEW c \in Clients, NEW p \in Procs, NEW i \in Nat, Holds(c, p, i)'
        PROVE  conn'[c] \in {"waiting", "gone"}
    <2>1. Holds(c, p, i) /\ conn[c] \in {"waiting", "gone"}
      BY <1>5, <1>7 DEF Held
    <2>2. \A j \in Nat \ {0} : ~ Holds(c, r, j)
      BY <1>5, <1>7, <2>1 DEF Held
    <2> QED BY <1>4, <2>1, <2>2
  <1> QED BY <1>1, <1>4, <1>5, <1>6, <1>7, HeldLess

(* accept() moves every place of the queue one down.                       *)
LEMMA HeldAccept ==
  ASSUME TypeOK, Held, NEW r \in Procs, Accept(r)
  PROVE  Held'
  <1> USE DEF TypeOK
  <1>1. /\ msgsock[r] = None /\ conn' = conn
        /\ \A p \in Procs \ {r} : pc'[p] = pc[p] /\ msgsock'[p] = msgsock[p]
        /\ pc'[r] = "stat"
    BY NoneInAccept DEF Accept, Goto
  <1>2. CASE msgsock' = [msgsock EXCEPT ![r] = None] /\ UNCHANGED queue
    <2>1. msgsock' = msgsock
      BY <1>2, NoneInAccept DEF Accept, Goto
    <2> QED BY <1>1, <1>2, <2>1, HeldStays
  <1>3. CASE /\ queue[r] # <<>>
             /\ msgsock' = [msgsock EXCEPT ![r] = Head(queue[r])]
             /\ queue' = [queue EXCEPT ![r] = Tail(queue[r])]
    <2>1. /\ queue[r] \in Seq(Clients) /\ Len(queue[r]) \in Nat /\ Len(queue[r]) > 0
          /\ Len(Tail(queue[r])) = Len(queue[r]) - 1
          /\ \A i \in 1 .. Len(queue[r]) - 1 : Tail(queue[r])[i] = queue[r][i + 1]
          /\ Head(queue[r]) = queue[r][1]
      BY <1>3
    <2>2. \A c \in Clients, i \in Nat : Holds(c, r, i)' <=> Holds(c, r, i + 1)
      <3> SUFFICES ASSUME NEW c \in Clients, NEW i \in Nat
                   PROVE  Holds(c, r, i)' <=> Holds(c, r, i + 1)
        OBVIOUS
      <3>1. msgsock'[r] = queue[r][1] /\ queue'[r] = Tail(queue[r])
        BY <1>3, <2>1
      <3>2. /\ DOMAIN queue[r] = 1 .. Len(queue[r])
            /\ DOMAIN queue'[r] = 1 .. Len(queue[r]) - 1
        BY <2>1, <3>1
      <3>3. CASE i = 0
        BY <2>1, <3>1, <3>2, <3>3 DEF Holds
      <3>4. CASE i # 0
        BY <2>1, <3>1, <3>2, <3>4 DEF Holds
      <3> QED BY <3>3, <3>4
    <2>3. \A c \in Clients : ~ Holds(c, r, 0)
      BY <1>1, <2>1, DaemonAssumption DEF Holds, DaemonAssumption
    <2>4. \A c \in Clients, p \in Procs \ {r}, i \in Nat : Holds(c, p, i)' <=> Holds(c, p, i)
      BY <1>3 DEF Holds
    <2> DEFINE From(p, i) == IF p = r THEN i + 1 ELSE i
    <2>5. \A c \in Clients, p \in Procs, i \in Nat : Holds(c, p, i)' <=> Holds(c, p, From(p, i))
      <3> SUFFICES ASSUME NEW c \in Clients, NEW p \in Procs, NEW i \in Nat
                   PROVE  Holds(c, p, i)' <=> Holds(c, p, From(p, i))
        OBVIOUS
      <3>1. CASE p = r
        BY <2>2, <3>1
      <3>2. CASE p # r
        BY <2>4, <3>2
      <3> QED BY <3>1, <3>2
    <2>6. \A c \in Clients, p \in Procs, i \in Nat :
            Holds(c, p, i) => \E j \in Nat : i = From(p, j)
      <3>1. \A i \in Nat : i = 0 \/ (i - 1 \in Nat /\ i = (i - 1) + 1)
        OBVIOUS
      <3> QED BY <2>3, <3>1
    <2>7. \A p \in Procs, i, j \in Nat : From(p, i) \in Nat /\ (From(p, i) = From(p, j) => i = j)
      OBVIOUS
    <2> HIDE DEF From
    <2>8. ASSUME NEW c \in Clients
          PROVE  /\ conn[c] = "waiting" => \E p \in Procs, i \in Nat : Holds(c, p, i)'
                 /\ \A p, q \in Procs, i, j \in Nat :
                      Holds(c, p, i)' /\ Holds(c, q, j)' => p = q /\ i = j
                 /\ \A p \in Procs, i \in Nat : Holds(c, p, i)' => conn[c] \in {"waiting", "gone"}
      <3>1. ASSUME conn[c] = "waiting" PROVE \E p \in Procs, i \in Nat : Holds(c, p, i)'
        <4>1. PICK p \in Procs, i \in Nat : Holds(c, p, i)
          BY <3>1 DEF Held
        <4>2. PICK j \in Nat : i = From(p, j)
          BY <2>6, <4>1
        <4> QED BY <2>5, <4>1, <4>2
      <3>2. ASSUME NEW p \in Procs, NEW q \in Procs, NEW i \in Nat, NEW j \in Nat,
                   Holds(c, p, i)', Holds(c, q, j)'
            PROVE  p = q /\ i = j
        <4>1. Holds(c, p, From(p, i)) /\ Holds(c, q, From(q, j))
          BY <2>5, <3>2
        <4>2. From(p, i) \in Nat /\ From(q, j) \in Nat
          BY <2>7
        <4>3. p = q /\ From(p, i) = From(q, j)
          BY <4>1, <4>2 DEF Held
        <4> QED BY <2>7, <4>3
      <3>3. \A p \in Procs, i \in Nat : Holds(c, p, i)' => conn[c] \in {"waiting", "gone"}
        BY <2>5, <2>7 DEF Held
      <3> QED BY <3>1, <3>2, <3>3
    <2>9. \A p \in Procs : msgsock'[p] # None => pc'[p] \in {"stat", "format", "send"}
      BY <1>1 DEF Held
    <2> QED BY <1>1, <2>8, <2>9 DEF Held
  <1> QED BY <1>2, <1>3 DEF Accept

(* A new client gets a place that no client had.                           *)
LEMMA HeldConnect ==
  ASSUME TypeOK, Held, NEW d \in Clients, NEW s \in Paths, Connect(d, s)
  PROVE  Held'
  <1> USE DEF TypeOK
  <1> DEFINE r == fs[s]
             k == Len(queue[r]) + 1
  <1>1. /\ r \in Procs /\ conn[d] = "idle" /\ queue' = [queue EXCEPT ![r] = Append(@, d)]
        /\ conn' = [conn EXCEPT ![d] = "waiting"] /\ msgsock' = msgsock /\ pc' = pc
    BY DEF Connect
  <1>2. /\ queue[r] \in Seq(Clients) /\ k \in Nat /\ k # 0
        /\ DOMAIN queue[r] = 1 .. k - 1 /\ DOMAIN queue'[r] = 1 .. k
        /\ \A i \in 1 .. k - 1 : queue'[r][i] = queue[r][i]
        /\ queue'[r][k] = d
    BY <1>1
  <1> HIDE DEF r, k
  <1>3. ASSUME NEW c \in Clients, NEW p \in Procs, NEW i \in Nat
        PROVE  Holds(c, p, i)' <=> Holds(c, p, i) \/ (c = d /\ p = r /\ i = k)
    <2>1. CASE p # r
      BY <1>1, <2>1 DEF Holds
    <2>2. CASE p = r
      BY <1>1, <1>2, <2>2 DEF Holds
    <2> QED BY <2>1, <2>2
  <1>4. \A p \in Procs, i \in Nat : ~ Holds(d, p, i)
    BY <1>1 DEF Held
  <1>5. ASSUME NEW c \in Clients
        PROVE  /\ conn'[c] = "waiting" => \E p \in Procs, i \in Nat : Holds(c, p, i)'
               /\ \A p, q \in Procs, i, j \in Nat :
                    Holds(c, p, i)' /\ Holds(c, q, j)' => p = q /\ i = j
               /\ \A p \in Procs, i \in Nat : Holds(c, p, i)' => conn'[c] \in {"waiting", "gone"}
    <2>1. CASE c = d
      BY <1>1, <1>2, <1>3, <1>4, <2>1
    <2>2. CASE c # d
      BY <1>1, <1>3, <2>2 DEF Held
    <2> QED BY <2>1, <2>2
  <1> QED BY <1>1, <1>5 DEF Held

LEMMA HeldStep == TypeOK /\ Held /\ [Next]_vars => Held'
  <1> SUFFICES ASSUME TypeOK, Held, [Next]_vars PROVE Held'
    OBVIOUS
  <1>1. CASE UNCHANGED vars
    BY <1>1, HeldStays DEF vars, procVars
  <1>2. ASSUME NEW p \in Procs, Main(p) PROVE Held'
    <2> USE DEF TypeOK
    <2>1. CASE Start(p)
      BY <2>1, HeldStays DEF Start
    <2>2. CASE Daemonize(p) \/ TakeLock(p) \/ Truncate(p) \/ WritePid(p)
      BY <2>2, HeldStays DEF Daemonize, TakeLock, Truncate, WritePid, Goto
    <2>3. CASE InstallHup(p) \/ InstallQuit(p) \/ Socket(p) \/ Bind(p) \/ Listen(p)
      BY <2>3, HeldStays DEF InstallHup, InstallQuit, Socket, Bind, Listen, Goto
    <2>4. CASE Stat(p) \/ Format(p)
      BY <2>4, HeldStays DEF Stat, Format, Goto
    <2>5. CASE Accept(p)
      BY <2>5, HeldAccept
    <2>6. CASE Send(p)
      <3>1. \A q \in Procs : msgsock'[q] # None => pc'[q] \in {"stat", "format", "send"}
        BY <2>6 DEF Held, Send, Goto
      <3>2. /\ msgsock' = [msgsock EXCEPT ![p] = None] /\ queue' = queue
            /\ conn' = [c \in Clients |-> IF c = msgsock[p] THEN "answered" ELSE conn[c]]
        BY <2>6 DEF Send, AfterSend
      <3>3. \A c \in Clients, q \in Procs, i \in Nat : Holds(c, q, i)' => Holds(c, q, i)
        BY <3>2, DaemonAssumption DEF Holds, DaemonAssumption
      <3>4. \A c \in Clients, q \in Procs, i \in Nat :
              c # msgsock[p] /\ Holds(c, q, i) => Holds(c, q, i)'
        BY <3>2 DEF Holds
      <3>5. ASSUME NEW c \in Clients, NEW q \in Procs, NEW i \in Nat, Holds(c, q, i)',
                   c = msgsock[p]
            PROVE  FALSE
        <4>1. Holds(c, p, 0) /\ Holds(c, q, i)
          BY <3>3, <3>5 DEF Holds
        <4>2. q = p /\ i = 0
          BY <4>1, 0 \in Nat DEF Held
        <4>3. queue[p] \in Seq(Clients)
          OBVIOUS
        <4>4. 0 \notin DOMAIN queue[p]
          BY <4>3
        <4>5. c # None
          BY DaemonAssumption DEF DaemonAssumption
        <4> QED BY <3>2, <3>5, <4>2, <4>4, <4>5 DEF Holds
      <3>6. \A c \in Clients, q \in Procs, i \in Nat :
              Holds(c, q, i)' => Holds(c, q, i) /\ c # msgsock[p]
        BY <3>3, <3>5
      <3>7. \A c \in Clients, q \in Procs, i \in Nat :
              Holds(c, q, i)' => conn'[c] \in {"waiting", "gone"}
        BY <3>2, <3>6 DEF Held
      <3>8. \A c \in Clients : conn'[c] = "waiting" => conn[c] = "waiting" /\ c # msgsock[p]
        BY <3>2
      <3> QED BY <3>1, <3>4, <3>6, <3>7, <3>8, HeldLess
    <2>7. CASE AlreadyRunning(p) \/ BindFails(p) \/ BrokenPipe(p)
      BY <2>7, HeldDie DEF AlreadyRunning, BindFails, BrokenPipe
    <2> QED BY <1>2, <2>1, <2>2, <2>3, <2>4, <2>5, <2>6, <2>7 DEF Main
  <1>3. ASSUME NEW p \in Procs, Signal(p) PROVE Held'
    <2>1. CASE SigHup(p)
      BY <2>1, ResumeMovesNone, HeldStays DEF SigHup
    <2>2. CASE SigQuit(p)
      BY <2>2, HeldQuit
    <2>3. CASE SigDefault(p)
      BY <2>3, HeldDie DEF SigDefault
    <2> QED BY <1>3, <2>1, <2>2, <2>3 DEF Signal
  <1>4. ASSUME NEW p \in Procs, Kill(p) PROVE Held'
    BY <1>4, HeldDie DEF Kill
  <1>5. ASSUME NEW c \in Clients, HangUp(c) PROVE Held'
    <2>1. /\ conn' = [conn EXCEPT ![c] = "gone"]
          /\ UNCHANGED <<queue, msgsock, pc>>
      BY <1>5 DEF HangUp, procVars
    <2> QED BY <2>1, HeldLess DEF Held, Holds, TypeOK
  <1>6. ASSUME NEW c \in Clients, NEW s \in Paths, Connect(c, s) PROVE Held'
    BY <1>6, HeldConnect
  <1>7. ASSUME NEW i \in Inis, Edit(i) PROVE Held'
    BY <1>7, HeldStays DEF Edit, procVars
  <1>8. ASSUME NEW s \in Paths, RemoveStale(s) PROVE Held'
    BY <1>8, HeldStays DEF RemoveStale, procVars
  <1> QED BY <1>1, <1>2, <1>3, <1>4, <1>5, <1>6, <1>7, <1>8 DEF Next

LEMMA OneHolder == TypeOK /\ Held => WaitingIsHeld
  <1> SUFFICES ASSUME TypeOK, Held, NEW c \in Clients, conn[c] = "waiting"
               PROVE  Cardinality(Holders(c)) = 1
    BY DEF WaitingIsHeld
  <1>1. PICK p \in Procs, i \in Nat : Holds(c, p, i)
    BY DEF Held
  <1>2. Holders(c) = {<<p, i>>}
    <2>1. <<p, i>> \in Holders(c)
      BY <1>1 DEF Holds, Holders
    <2>2. ASSUME NEW x \in Holders(c) PROVE x = <<p, i>>
      <3>1. \A q \in Procs : DOMAIN queue[q] \subseteq Nat
        <4> SUFFICES ASSUME NEW q \in Procs PROVE DOMAIN queue[q] \subseteq Nat
          OBVIOUS
        <4>1. queue[q] \in Seq(Clients)
          BY DEF TypeOK
        <4> QED BY <4>1
      <3>2. PICK q \in Procs, j \in Nat : x = <<q, j>> /\ Holds(c, q, j)
        BY <2>2, <3>1 DEF Holders, Holds
      <3> QED BY <1>1, <3>2 DEF Held
    <2> QED BY <2>1, <2>2
  <1> QED BY <1>2, FS_Singleton

(* No connection is lost by the program or served twice: whatever signals, *)
(* deaths and hang-ups do to the queues, a client that waits is in one     *)
(* place, of one run.                                                      *)
THEOREM ClientsAreHeld == Spec => []WaitingIsHeld
  <1>1. Init => TypeOK /\ Held
    BY TypeInit, HeldInit
  <1>2. TypeOK /\ Held /\ [Next]_vars => TypeOK' /\ Held'
    BY TypeStep, HeldStep
  <1> QED BY <1>1, <1>2, OneHolder, PTL DEF Spec

-----------------------------------------------------------------------------
(***************************************************************************)
(* The runs together are one service: Daemon implements SingleService.     *)
(***************************************************************************)

(* What a run's socket is at each step of main().                          *)
Unopened == {"new", "daemonize", "lock", "truncate", "writepid", "sighup", "sigquit", "socket"}
Serving == {"accept", "stat", "format", "send"}

SocketStage ==
  \A p \in Procs :
    /\ pc[p] \in Unopened => sock[p] = "unset"
    /\ pc[p] \in {"bind", "listen"} => sock[p] \in {"open", "closed"}
    /\ pc[p] \in Serving => sock[p] \in {"listening", "closed"}

LEMMA StageInit == Init => SocketStage
  BY DEF Init, SocketStage, Unopened, Serving

LEMMA StageStays ==
  ASSUME SocketStage, UNCHANGED sock,
         \A p \in Procs : \/ pc'[p] = pc[p]
                          \/ pc[p] \in Unopened /\ pc'[p] \in Unopened
                          \/ pc[p] \in Serving /\ pc'[p] \in Serving
                          \/ pc[p] \in {"bind", "listen"} /\ pc'[p] \in {"bind", "listen"}
  PROVE  SocketStage'
  BY DEF SocketStage, Unopened, Serving

LEMMA StageStep == Modes = {"daemon"} /\ TypeOK /\ SocketStage /\ [Next]_vars => SocketStage'
  <1> SUFFICES ASSUME Modes = {"daemon"}, TypeOK, SocketStage, [Next]_vars
               PROVE  SocketStage'
    OBVIOUS
  <1> USE DEF TypeOK
  <1>1. CASE UNCHANGED vars
    BY <1>1, StageStays DEF vars, procVars
  <1>2. ASSUME NEW p \in Procs, Die(p) PROVE SocketStage'
    BY <1>2 DEF Die, SocketStage, Unopened, Serving
  <1>3. ASSUME NEW p \in Procs, Main(p) PROVE SocketStage'
    <2>1. CASE Start(p) \/ Daemonize(p) \/ TakeLock(p) \/ Truncate(p)
      BY <2>1, StageStays DEF Start, Daemonize, TakeLock, Truncate, Goto, Unopened
    <2>2. CASE WritePid(p) \/ InstallHup(p) \/ InstallQuit(p)
      BY <2>2, StageStays DEF WritePid, InstallHup, InstallQuit, Goto, Unopened
    <2>3. CASE Socket(p)
      BY <2>3 DEF Socket, Goto, SocketStage, Unopened, Serving
    <2>4. CASE Bind(p)
      BY <2>4, StageStays DEF Bind, Goto
    <2>5. CASE Listen(p)
      BY <2>5 DEF Listen, Goto, SocketStage, Unopened, Serving
    <2>6. CASE Accept(p) \/ Stat(p) \/ Format(p) \/ Send(p)
      BY <2>6, StageStays DEF Accept, Stat, Format, Send, Goto, Serving
    <2>7. CASE AlreadyRunning(p) \/ BindFails(p) \/ BrokenPipe(p)
      BY <2>7, <1>2 DEF AlreadyRunning, BindFails, BrokenPipe
    <2> QED BY <1>3, <2>1, <2>2, <2>3, <2>4, <2>5, <2>6, <2>7 DEF Main
  <1>4. ASSUME NEW p \in Procs, Resume(p)
        PROVE  \A q \in Procs : pc'[q] = pc[q] \/ (pc[q] \in Serving /\ pc'[q] \in Serving)
    BY <1>4 DEF Resume, Goto, Serving
  <1>5. ASSUME NEW p \in Procs, Signal(p) PROVE SocketStage'
    <2>1. CASE SigHup(p)
      BY <2>1, <1>4, StageStays DEF SigHup
    <2>2. CASE SigQuit(p)
      <3>1. /\ \A q \in Procs : pc'[q] = pc[q] \/ (pc[q] \in Serving /\ pc'[q] \in Serving)
            /\ sock' = [sock EXCEPT ![p] = Closed(p)]
        BY <2>2, <1>4 DEF SigQuit
      <3> QED BY <3>1 DEF SocketStage, Closed, Unopened, Serving
    <2>3. CASE SigDefault(p)
      BY <2>3, <1>2 DEF SigDefault
    <2> QED BY <1>5, <2>1, <2>2, <2>3 DEF Signal
  <1>6. ASSUME NEW p \in Procs, Kill(p) PROVE SocketStage'
    BY <1>6, <1>2 DEF Kill
  <1>7. ASSUME NEW c \in Clients, HangUp(c) PROVE SocketStage'
    BY <1>7, StageStays DEF HangUp, procVars
  <1>8. ASSUME NEW c \in Clients, NEW s \in Paths, Connect(c, s) PROVE SocketStage'
    BY <1>8, StageStays DEF Connect
  <1>9. ASSUME NEW i \in Inis, Edit(i) PROVE SocketStage'
    BY <1>9, StageStays DEF Edit, procVars
  <1>10. ASSUME NEW s \in Paths, RemoveStale(s) PROVE SocketStage'
    BY <1>10, StageStays DEF RemoveStale, procVars
  <1> QED BY <1>1, <1>3, <1>5, <1>6, <1>7, <1>8, <1>9, <1>10 DEF Next

-----------------------------------------------------------------------------
(* The owner is the one run past the lock.                                 *)
Answered == {c \in Clients : conn[c] = "answered"}

LEMMA OwnerIs ==
  ASSUME SingleDaemon
  PROVE  /\ \A p \in Procs : Past(p) => Owner = p
         /\ (\A p \in Procs : ~ Past(p)) => Owner = None
  BY DEF SingleDaemon, Owner

LEMMA NextOwnerIs ==
  ASSUME SingleDaemon'
  PROVE  /\ \A p \in Procs : Past(p)' => Owner' = p
         /\ (\A p \in Procs : ~ Past(p)') => Owner' = None
  BY DEF SingleDaemon, Owner

(* A step that takes no run past the lock or out of the service and leaves *)
(* the owner's socket alone keeps owner and phase.                         *)
LEMMA ServiceStays ==
  ASSUME TypeOK, SingleDaemon, SingleDaemon', \A p \in Procs : Past(p)' <=> Past(p),
         \A p \in Procs : Past(p) => sock'[p] = sock[p]
  PROVE  Owner' = Owner /\ Phase' = Phase
  <1>1. CASE \A p \in Procs : ~ Past(p)
    BY <1>1, OwnerIs, NextOwnerIs DEF Phase
  <1>2. CASE \E p \in Procs : Past(p)
    <2>1. PICK p \in Procs : Past(p)
      BY <1>2
    <2>2. Owner = p /\ Owner' = p /\ sock'[p] = sock[p]
      BY <2>1, OwnerIs, NextOwnerIs
    <2> QED BY <2>2 DEF Phase
  <1> QED BY <1>1, <1>2

(* The phase that the owner's socket stands for.                           *)
LEMMA PhaseIs ==
  ASSUME Owner \in Procs
  PROVE  /\ sock[Owner] \in {"unset", "open"} => Phase = "starting"
         /\ sock[Owner] = "listening" => Phase = "serving"
         /\ sock[Owner] = "closed" => Phase = "closed"
  BY DaemonAssumption DEF Phase, DaemonAssumption

LEMMA NextPhaseIs ==
  ASSUME Owner' \in Procs
  PROVE  /\ sock'[Owner'] \in {"unset", "open"} => Phase' = "starting"
         /\ sock'[Owner'] = "listening" => Phase' = "serving"
         /\ sock'[Owner'] = "closed" => Phase' = "closed"
  BY DaemonAssumption DEF Phase, DaemonAssumption

LEMMA ServiceInit == Init => Service!Init
  BY DEF Init, Service!Init, Owner, Phase, Past

(* Cutting clients off answers none of them.                               *)
LEMMA ResetAnswersNone ==
  ASSUME NEW S, conn' = Reset(S)
  PROVE  Answered' = Answered
  BY DEF Reset, Answered

(* The end of a run releases the service or does not touch it.             *)
LEMMA ServiceDie ==
  ASSUME TypeOK, SingleDaemon, SingleDaemon', NEW p \in Procs, Die(p)
  PROVE  Service!Next \/ (Owner' = Owner /\ Phase' = Phase /\ Answered' = Answered)
  <1> USE DEF TypeOK
  <1>1. Answered' = Answered
    BY ResetAnswersNone DEF Die
  <1>2. ~ Past(p)' /\ \A q \in Procs \ {p} : (Past(q)' <=> Past(q)) /\ sock'[q] = sock[q]
    BY DEF Die, Past
  <1>3. CASE Past(p)
    <2>1. \A q \in Procs : ~ Past(q)'
      BY <1>2, <1>3 DEF SingleDaemon
    <2>2. Owner = p /\ Owner' = None
      BY <1>3, <2>1, OwnerIs, NextOwnerIs
    <2>3. Phase' = "idle" /\ p # None
      BY <2>2, DaemonAssumption DEF Phase, DaemonAssumption
    <2>4. Service!Release
      BY <1>1, <2>2, <2>3 DEF Service!Release, Answered
    <2> QED BY <2>4 DEF Service!Next
  <1>4. CASE ~ Past(p)
    <2>1. Owner' = Owner /\ Phase' = Phase
      BY <1>2, <1>4, ServiceStays
    <2> QED BY <1>1, <2>1
  <1> QED BY <1>3, <1>4

LEMMA ServiceStep ==
  ASSUME Sane, IInv, IInv', SocketStage, SocketStage', [Next]_vars
  PROVE  Service!Next \/ (Owner' = Owner /\ Phase' = Phase /\ Answered' = Answered)
  <1>0. SingleDaemon /\ SingleDaemon'
    <2>1. SingleDaemon
      BY OneDaemon
    <2>2. SingleDaemon'
      BY NamedPaths DEF IInv, LockHeld, SingleDaemon
    <2> QED BY <2>1, <2>2
  <1> DEFINE Same == Owner' = Owner /\ Phase' = Phase /\ Answered' = Answered
  <1> USE DEF IInv, TypeOK, Past
  <1>1. ASSUME \A p \in Procs : Past(p)' <=> Past(p),
               \A p \in Procs : Past(p) => sock'[p] = sock[p],
               Answered' = Answered
        PROVE  Same
    <2>1. Owner' = Owner /\ Phase' = Phase
      BY <1>0, <1>1, ServiceStays
    <2> QED BY <1>1, <2>1
  <1> HIDE DEF Same
  <1>2. CASE UNCHANGED vars
    BY <1>1, <1>2 DEF vars, procVars, Answered, Same
  <1>3. ASSUME NEW p \in Procs, Main(p) PROVE Service!Next \/ Same
    <2>1. CASE Start(p) \/ Daemonize(p) \/ Truncate(p) \/ WritePid(p)
      BY <1>1, <2>1 DEF Start, Sane, Daemonize, Truncate, WritePid, Goto, Answered
    <2>2. CASE InstallHup(p) \/ InstallQuit(p) \/ Bind(p)
      BY <1>1, <2>2 DEF InstallHup, InstallQuit, Bind, Goto, Answered
    <2>3. CASE Accept(p) \/ Stat(p) \/ Format(p)
      BY <1>1, <2>3 DEF Accept, Stat, Format, Goto, Answered
    <2>4. CASE AlreadyRunning(p) \/ BindFails(p) \/ BrokenPipe(p)
      BY <1>0, <2>4, ServiceDie DEF AlreadyRunning, BindFails, BrokenPipe, Same
    <2>5. CASE TakeLock(p)
      <3>1. \A q \in Procs : ~ Past(q)
        <4>1. conf[p].lock \in Named("lock")
          BY <2>5, NamedPaths DEF TakeLock, CanOpenLock, NamesKnown
        <4>2. \A q \in Procs : Past(q) => locked[q] = conf[p].lock
          BY <4>1, NamedPaths DEF LockHeld
        <4>3. ~ Past(p)
          BY <2>5 DEF TakeLock, Goto
        <4> QED BY <2>5, <4>2, <4>3 DEF TakeLock, LockTaken
      <3>2. Past(p)' /\ sock'[p] = "unset" /\ conn' = conn
        BY <2>5 DEF TakeLock, Goto, Daemons, SocketStage, Unopened
      <3>3. Owner = None /\ Phase = "idle" /\ Owner' = p
        BY <1>0, <3>1, <3>2, OwnerIs, NextOwnerIs DEF Phase
      <3>4. Phase' = "starting"
        BY <3>2, <3>3, NextPhaseIs
      <3>5. Service!Acquire(p)
        BY <3>2, <3>3, <3>4 DEF Service!Acquire
      <3> QED BY <3>5 DEF Service!Next
    <2>6. CASE Socket(p)
      <3>1. /\ Past(p) /\ Past(p)' /\ sock[p] = "unset" /\ sock'[p] = "open" /\ conn' = conn
        BY <2>6 DEF Socket, Goto, Daemons, SocketStage, Unopened
      <3>2. Owner = p /\ Owner' = p
        BY <1>0, <3>1, OwnerIs, NextOwnerIs
      <3>3. Phase = "starting" /\ Phase' = "starting"
        BY <3>1, <3>2, PhaseIs, NextPhaseIs
      <3> QED BY <3>1, <3>2, <3>3 DEF Same, Answered
    <2>7. CASE Listen(p)
      <3>1. /\ Past(p) /\ Past(p)' /\ conn' = conn
            /\ \/ sock[p] = "open" /\ sock'[p] = "listening"
               \/ sock[p] = "closed" /\ sock'[p] = "closed"
        BY <2>7 DEF Listen, Goto, Daemons, SocketStage
      <3>2. Owner = p /\ Owner' = p
        BY <1>0, <3>1, OwnerIs, NextOwnerIs
      <3>3. CASE sock[p] = "open" /\ sock'[p] = "listening"
        <4>1. Phase = "starting" /\ Phase' = "serving"
          BY <3>2, <3>3, PhaseIs, NextPhaseIs
        <4>2. Service!Serve
          BY <3>1, <3>2, <4>1 DEF Service!Serve
        <4> QED BY <4>2 DEF Service!Next
      <3>4. CASE sock[p] = "closed" /\ sock'[p] = "closed"
        <4>1. Phase = "closed" /\ Phase' = "closed"
          BY <3>2, <3>4, PhaseIs, NextPhaseIs
        <4> QED BY <3>1, <3>2, <4>1 DEF Same, Answered
      <3> QED BY <3>1, <3>3, <3>4
    <2>8. CASE Send(p)
      <3>1. /\ Past(p) /\ sock[p] \in {"listening", "closed"} /\ sock' = sock
            /\ \A q \in Procs : Past(q)' <=> Past(q)
            /\ Answered' = Answered \cup ({msgsock[p]} \cap Clients)
        BY <2>8 DEF Send, Goto, AfterSend, Daemons, SocketStage, Serving, Answered
      <3>2. Owner = p /\ Owner' = Owner /\ Phase' = Phase
        BY <1>0, <3>1, OwnerIs, ServiceStays
      <3>3. Phase \in {"serving", "closed"}
        BY <3>1, <3>2, PhaseIs
      <3>4. CASE msgsock[p] \in Clients
        <4>1. PICK c \in Clients : c = msgsock[p]
          BY <3>4
        <4>2. Service!Answer(c)
          BY <3>1, <3>2, <3>3, <4>1 DEF Service!Answer, Answered
        <4> QED BY <4>2 DEF Service!Next
      <3>5. CASE msgsock[p] \notin Clients
        BY <3>1, <3>2, <3>5 DEF Same
      <3> QED BY <3>4, <3>5
    <2> QED BY <1>3, <2>1, <2>2, <2>3, <2>4, <2>5, <2>6, <2>7, <2>8 DEF Main
  <1>4. ASSUME NEW p \in Procs, Signal(p) PROVE Service!Next \/ Same
    <2>1. CASE SigHup(p)
      BY <1>1, <2>1 DEF SigHup, Resume, Goto, Answered
    <2>2. CASE SigQuit(p)
      <3>1. /\ Past(p) /\ Past(p)' /\ \A q \in Procs : Past(q)' <=> Past(q)
        BY <1>4, <2>2 DEF SigQuit, Signal, Alive, Resume, Goto, Daemons
      <3>2. Answered' = Answered
        BY <2>2, ResetAnswersNone DEF SigQuit
      <3>3. Owner = p /\ Owner' = p
        BY <1>0, <3>1, OwnerIs, NextOwnerIs
      <3>4. CASE sock[p] \in {"unset", "closed"}
        <4>1. sock'[p] = sock[p]
          BY <2>2, <3>4 DEF SigQuit, Closed
        <4> QED BY <1>1, <3>1, <3>2, <3>3, <4>1, OwnerIs, <1>0
      <3>5. CASE sock[p] \in {"open", "listening"}
        <4>1. sock'[p] = "closed"
          BY <2>2, <3>5 DEF SigQuit, Closed
        <4>2. Phase \in {"starting", "serving"} /\ Phase' = "closed"
          BY <3>3, <3>5, <4>1, PhaseIs, NextPhaseIs
        <4>3. Service!Close
          BY <3>2, <3>3, <4>2 DEF Service!Close, Answered
        <4> QED BY <4>3 DEF Service!Next
      <3> QED BY <3>4, <3>5
    <2>3. CASE SigDefault(p)
      BY <1>0, <2>3, ServiceDie DEF SigDefault, Same
    <2> QED BY <1>4, <2>1, <2>2, <2>3 DEF Signal
  <1>5. ASSUME NEW p \in Procs, Kill(p) PROVE Service!Next \/ Same
    BY <1>0, <1>5, ServiceDie DEF Kill, Same
  <1>6. ASSUME NEW c \in Clients, HangUp(c) \/ \E s \in Paths : Connect(c, s)
        PROVE  Same
    <2>1. UNCHANGED <<mode, pc, sock>>
      BY <1>6 DEF HangUp, Connect, procVars
    <2>2. Answered' = Answered
      <3>1. conn[c] \in {"waiting", "idle"} /\ \E x \in {"gone", "waiting"} : conn' = [conn EXCEPT ![c] = x]
        BY <1>6 DEF HangUp, Connect
      <3> QED BY <3>1 DEF Answered
    <2> QED BY <1>1, <2>1, <2>2
  <1>7. ASSUME NEW i \in Inis, Edit(i) PROVE Same
    BY <1>1, <1>7 DEF Edit, procVars, Answered
  <1>8. ASSUME NEW s \in Paths, RemoveStale(s) PROVE Same
    BY <1>1, <1>8 DEF RemoveStale, procVars, Answered
  <1> QED BY <1>2, <1>3, <1>4, <1>5, <1>6, <1>7, <1>8 DEF Next, Same

(* Whatever the interleaving of runs, signals, deaths and clients, the     *)
(* runs of a Sane installation behave as one service that changes hands    *)
(* only when its holder has ended.                                         *)
THEOREM RunsAreOneService ==
  ASSUME Sane
  PROVE  Spec => ImplementsService
  <1>1. SocketStage /\ IInv /\ [Next]_vars => SocketStage'
    BY StageStep DEF Sane, IInv
  <1>2. IInv /\ IInv' /\ SocketStage /\ SocketStage' /\ [Next]_vars
          => [Service!Next]_(Service!vars)
    BY ServiceStep DEF Service!vars, Answered
  <1> QED BY <1>1, <1>2, Inductive, StageInit, ServiceInit, PTL
          DEF Spec, ImplementsService, Service!Spec
=============================================================================
