--------------------------- MODULE SingleService ---------------------------
(***************************************************************************)
(* What the runs of HW9_daemon promise together.  At most one run owns the *)
(* service.  It starts, serves and perhaps closes its socket, never to     *)
(* serve again; clients are answered by the owner and only once it has     *)
(* begun to serve; the next owner comes when this one has ended.           *)
(***************************************************************************)
CONSTANTS Procs, Clients, None

VARIABLES owner, phase, answered

vars == <<owner, phase, answered>>

Init ==
  /\ owner = None
  /\ phase = "idle"
  /\ answered = {}

Acquire(p) ==
  /\ owner = None
  /\ owner' = p
  /\ phase' = "starting"
  /\ UNCHANGED answered

Serve ==
  /\ phase = "starting"
  /\ phase' = "serving"
  /\ UNCHANGED <<owner, answered>>

Close ==
  /\ phase \in {"starting", "serving"}
  /\ phase' = "closed"
  /\ UNCHANGED <<owner, answered>>

Answer(c) ==
  /\ phase \in {"serving", "closed"}
  /\ answered' = answered \cup {c}
  /\ UNCHANGED <<owner, phase>>

Release ==
  /\ owner # None
  /\ owner' = None
  /\ phase' = "idle"
  /\ UNCHANGED answered

Next ==
  \/ \E p \in Procs : Acquire(p)
  \/ Serve \/ Close \/ Release
  \/ \E c \in Clients : Answer(c)

Spec == Init /\ [][Next]_vars
=============================================================================
