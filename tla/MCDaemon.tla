------------------------------ MODULE MCDaemon ------------------------------
(***************************************************************************)
(* Instances of Daemon for TLC.  Runs are interchangeable, so safety runs  *)
(* use their symmetry.                                                     *)
(***************************************************************************)
EXTENDS Daemon, TLC

CONSTANTS p1, p2, p3, c1, c2, fileA, fileB, sockA, sockB, lockPath

mcPaths == {fileA, fileB, sockA, sockB, lockPath, Default}
Conf(f, s, l) == [file |-> f, sock |-> s, lock |-> l]

(* A complete file, one that renames file and socket, one whose SocketName *)
(* is not text (reading stops there), the same with FileName missing       *)
(* (reading goes on with defaults), and one that does not load.            *)
mcInis == {Conf(fileA, sockA, lockPath), Conf(fileB, sockB, lockPath),
           Conf(fileB, Bad, lockPath), Conf(Missing, Bad, lockPath), Unreadable}
mcTwoInis == {Conf(fileA, sockA, lockPath), Conf(fileB, sockB, lockPath)}

Symmetry == Permutations(Procs) \cup Permutations(Clients)

ASSUME MCSane == Sane
=============================================================================
