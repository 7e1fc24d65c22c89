------------------------------- MODULE Telnet -------------------------------
(***************************************************************************)
(* HW12_telnet: connects to telehack.com, reads the banner up to the       *)
(* prompt, sends a query, reads the reply up to the next prompt and prints *)
(* it.  A prompt is a dot at the start of a line, and the client only      *)
(* notices it at the end of what a recv() returned.                        *)
(*                                                                         *)
(* The server is not part of the repository: it sends the banner, and the  *)
(* reply once it has the query, and may hang up at any point.  The network *)
(* cuts the stream anywhere and may break the connection.  AnyDot and      *)
(* PromptInPiece are faulty variants of the operator that follows them.    *)
(***************************************************************************)
EXTENDS Naturals, Sequences, SequencesExt

CONSTANTS
  Inputs,     \* [addresses, banner, reply]: how many addresses the name has,
              \* and what the server says, of "x", "nl" and "dot"
  BUF_SIZE,
  Junk        \* what puts() finds behind a buffer that is full

VARIABLES
  pc,      \* "resolve", "connect", "banner", "send", "reply", "done", "failed"
  input,
  local,   \* [tried, buffer]: addresses tried, and buffer[0 .. len - 1]
  net,     \* [sent, taken, asked, closed, broken]: how much of its text the
           \* server has sent and recv() returned; whether the server has the
           \* query, has hung up, and whether the connection is broken
  output   \* what puts() has printed

vars == <<pc, input, local, net, output>>

Text == input.banner \o input.reply

Init ==
  /\ pc = "resolve" /\ input \in Inputs
  /\ local = [tried |-> 0, buffer |-> <<>>]
  /\ net = [sent |-> 0, taken |-> 0, asked |-> FALSE, closed |-> FALSE,
            broken |-> FALSE]
  /\ output = <<>>

-----------------------------------------------------------------------------
(* createConnect(): getaddrinfo(), then socket() and connect() for each    *)
(* address until one answers.                                              *)
Resolve ==
  /\ pc = "resolve"
  /\ pc' \in {"connect", "failed"}
  /\ UNCHANGED <<input, local, net, output>>

TryAddress ==
  /\ pc = "connect" /\ local.tried < input.addresses
  /\ local' = [local EXCEPT !.tried = @ + 1]
  /\ pc' \in {"connect", "banner"}
  /\ UNCHANGED <<input, net, output>>

NoAddress ==
  /\ pc = "connect" /\ local.tried = input.addresses
  /\ pc' = "failed"
  /\ UNCHANGED <<input, local, net, output>>

(* The end of the text received, of which the last k symbols are new.  For *)
(* a single symbol buffer[len - 2] lies before the array.                  *)
AnyDot(s, k) == {s[Len(s)] = "dot"}
PromptInPiece(s, k) == {k > 1 /\ s[Len(s)] = "dot" /\ s[Len(s) - 1] = "nl"}
AtPrompt(s, k) ==
  IF Len(s) = 1 THEN {FALSE, s[1] = "dot"}
  ELSE {s[Len(s)] = "dot" /\ s[Len(s) - 1] = "nl"}

(* What puts() prints: a full buffer has no terminator.                    *)
Printed(s) == IF Len(s) < BUF_SIZE THEN {s} ELSE {s, Append(s, Junk)}

(* receivedDataSocket() returns, and main() goes on with what it has got.  *)
Received(s) ==
  /\ local' = [local EXCEPT !.buffer = IF pc = "banner" THEN <<>> ELSE s]
  /\ pc' = IF pc = "banner" THEN "send" ELSE "done"
  /\ IF pc = "banner" THEN UNCHANGED output ELSE output' \in Printed(s)

(* One recv() that returns k symbols.                                      *)
Recv(k) ==
  /\ pc \in {"banner", "reply"} /\ ~net.broken
  /\ k \in 1 .. net.sent - net.taken
  /\ Len(local.buffer) + k <= BUF_SIZE
  /\ net' = [net EXCEPT !.taken = @ + k]
  /\ LET s == local.buffer \o SubSeq(Text, net.taken + 1, net.taken + k) IN
       \E end \in AtPrompt(s, k) :
         IF end
         THEN Received(s)
         ELSE local' = [local EXCEPT !.buffer = s] /\ UNCHANGED <<pc, output>>
  /\ UNCHANGED input

(* recv() returns 0, for a server that has hung up and, in the same way,   *)
(* for a buffer with no room left.                                         *)
RecvNothing ==
  /\ pc \in {"banner", "reply"} /\ ~net.broken
  /\ \/ net.closed /\ net.taken = net.sent
     \/ Len(local.buffer) = BUF_SIZE
  /\ Received(local.buffer)
  /\ UNCHANGED <<input, net>>

RecvFails ==
  /\ pc \in {"banner", "reply"} /\ net.broken
  /\ pc' = "failed"
  /\ UNCHANGED <<input, local, net, output>>

(* A server that has hung up may still take the query or break the         *)
(* connection, and SIGPIPE may end the program.                            *)
Send ==
  /\ pc = "send"
  /\ \/ ~net.broken /\ pc' = "reply" /\ net' = [net EXCEPT !.asked = ~net.closed]
     \/ (net.broken \/ net.closed) /\ pc' = "failed" /\ UNCHANGED net
  /\ UNCHANGED <<input, local, output>>

Client ==
  \/ Resolve \/ TryAddress \/ NoAddress \/ RecvNothing \/ RecvFails \/ Send
  \/ \E k \in 1 .. BUF_SIZE : Recv(k)

-----------------------------------------------------------------------------
(* The server and the network.                                             *)

Connected == pc \in {"banner", "send", "reply"}
Due == Len(IF net.asked THEN Text ELSE input.banner)

Answer ==
  /\ Connected /\ ~net.closed /\ ~net.broken
  /\ net.sent < Due
  /\ net' = [net EXCEPT !.sent = Due]
  /\ UNCHANGED <<pc, input, local, output>>

HangUp ==
  /\ Connected /\ ~net.closed /\ ~net.broken
  /\ \E n \in net.sent .. Due : net' = [net EXCEPT !.sent = n, !.closed = TRUE]
  /\ UNCHANGED <<pc, input, local, output>>

Break ==
  /\ Connected /\ ~net.broken
  /\ net' = [net EXCEPT !.broken = TRUE]
  /\ UNCHANGED <<pc, input, local, output>>

Next == Client \/ Answer \/ HangUp \/ Break

(* The client and the server get on with it; nobody has to hang up.        *)
Fairness == WF_vars(Client) /\ WF_vars(Answer)

Spec == Init /\ [][Next]_vars
FairSpec == Spec /\ Fairness

-----------------------------------------------------------------------------
(* What the proofs assume of the constants.                                *)
WellFormed ==
  /\ Inputs \subseteq [addresses : Nat, banner : Seq({"x", "nl", "dot"}),
                       reply : Seq({"x", "nl", "dot"})]
  /\ BUF_SIZE \in Nat

(* A text that ends with a prompt, has none before and fits with n bytes   *)
(* to spare.                                                               *)
Framed(s, n) ==
  /\ Len(s) \in 2 .. BUF_SIZE - n
  /\ \A i \in DOMAIN s :
       (s[i] = "dot" /\ (i = 1 \/ s[i - 1] = "nl")) <=> i = Len(s)

Usual(i) == Framed(i.banner, 0) /\ Framed(i.reply, 1)

(* However the network cuts a stream whose two texts end with their only   *)
(* prompts, the program prints the reply: nothing of the banner, no rest   *)
(* of the buffer, and all of it unless the server hung up before.          *)
PrintsReply ==
  pc = "done" /\ Usual(input) =>
    /\ IsPrefix(output, input.reply)
    /\ net.sent = Len(Text) => output = input.reply

(* The client ends: it never misses a prompt that a cut of the stream has  *)
(* put at the start of a segment or across two of them.                    *)
Ends == (pc = "resolve" /\ Usual(input)) ~> pc \in {"done", "failed"}
=============================================================================
