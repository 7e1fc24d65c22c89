---------------------------- MODULE TelnetProofs ----------------------------
(***************************************************************************)
(* Proofs about Telnet, for any texts, any size of the buffer, and         *)
(* whatever the network and the server do.                                 *)
(***************************************************************************)
EXTENDS Programs, Naturals, Sequences, SequenceTheorems, TLAPS

Symbols == {"x", "nl", "dot"}
B == Len(input.banner)
R == Len(input.reply)

(* s is the text from behind position p on.                                *)
IsPart(s, p) == \A i \in 1 .. Len(s) : s[i] = Tel!Text[p + i]

TypeOK ==
  /\ step \in {"resolve", "connect", "banner", "send", "reply", "done", "failed"}
  /\ input \in TelnetInputs
  /\ local \in [tried : Nat, buffer : Seq(Symbols)]
  /\ other \in [sent : Nat, taken : Nat, asked : BOOLEAN, closed : BOOLEAN,
                broken : BOOLEAN]
  /\ Len(local.buffer) <= BUF_SIZE

(* The server is never ahead of what it was asked for.                     *)
Sent ==
  /\ other.taken <= other.sent /\ other.sent <= B + R
  /\ ~other.asked => other.sent <= B
  /\ step \in {"resolve", "connect"} => other.sent = 0
  /\ step \in {"resolve", "connect", "banner", "send"} => ~other.asked

(* The buffer is what has been taken of the text that is being read, and   *)
(* the client never sits on a complete one.                                *)
InBanner ==
  /\ Len(local.buffer) = other.taken /\ other.taken < B
  /\ IsPart(local.buffer, 0)
InReply ==
  /\ Len(local.buffer) = other.taken - B
  /\ other.taken >= B /\ other.taken < B + R
  /\ IsPart(local.buffer, B)
HungUp ==
  /\ other.closed /\ other.taken = other.sent
  /\ local.buffer = <<>>

Read ==
  /\ step \in {"resolve", "connect"} => local.buffer = <<>> /\ other.taken = 0
  /\ step = "banner" => InBanner
  /\ step = "send" => local.buffer = <<>> /\ (HungUp \/ other.taken = B)
  /\ step = "reply" => IF other.asked THEN InReply ELSE HungUp

Out == step # "done" => output = <<>>

IInv ==
  /\ TypeOK /\ Sent /\ Out
  /\ Tel!Usual(input) => Read /\ Tel!PrintsReply

-----------------------------------------------------------------------------
LEMMA TextProperties ==
  ASSUME Tel!WellFormed, input \in TelnetInputs
  PROVE  /\ input.banner \in Seq(Symbols) /\ input.reply \in Seq(Symbols)
         /\ B \in Nat /\ R \in Nat
         /\ Tel!Text \in Seq(Symbols) /\ Len(Tel!Text) = B + R
         /\ \A i \in 1 .. B : Tel!Text[i] = input.banner[i]
         /\ \A i \in 1 .. R : Tel!Text[B + i] = input.reply[i]
  <1>1. input.banner \in Seq(Symbols) /\ input.reply \in Seq(Symbols)
    BY DEF Tel!WellFormed, Symbols
  <1>2. B \in Nat /\ R \in Nat
    BY <1>1, LenProperties DEF B, R
  <1>3. Tel!Text \in Seq(Symbols) /\ Len(Tel!Text) = B + R
    BY <1>1, ConcatProperties DEF Tel!Text, B, R
  <1>4. \A i \in 1 .. B + R :
          Tel!Text[i] = IF i <= B THEN input.banner[i] ELSE input.reply[i - B]
    BY <1>1, ConcatProperties DEF Tel!Text, B, R
  <1>5. \A i \in 1 .. R : Tel!Text[B + i] = input.reply[i]
    <2>1. TAKE i \in 1 .. R
    <2>2. /\ B + i \in 1 .. B + R
          /\ ~(B + i <= B) /\ (B + i) - B = i
      BY <1>2, <2>1
    <2> QED BY <1>4, <2>2
  <1> QED BY <1>1, <1>2, <1>3, <1>4, <1>5

(* One recv(): the buffer grows by k symbols of the text.                  *)
LEMMA Taken ==
  ASSUME Tel!WellFormed, TypeOK, other.sent <= B + R,
         NEW k \in 1 .. other.sent - other.taken, NEW s,
         s = local.buffer \o SubSeq(Tel!Text, other.taken + 1, other.taken + k)
  PROVE  /\ s \in Seq(Symbols) /\ Len(s) = Len(local.buffer) + k
         /\ \A i \in 1 .. Len(local.buffer) + k :
              s[i] = IF i <= Len(local.buffer) THEN local.buffer[i]
                     ELSE Tel!Text[other.taken + 1 + (i - Len(local.buffer)) - 1]
  <1> DEFINE b == local.buffer
             piece == SubSeq(Tel!Text, other.taken + 1, other.taken + k)
  <1>1. /\ b \in Seq(Symbols) /\ Len(b) \in Nat
        /\ other.taken \in Nat /\ other.sent \in Nat
    BY LenProperties DEF TypeOK
  <1>2. Tel!Text \in Seq(Symbols) /\ Len(Tel!Text) = B + R /\ B + R \in Nat
    BY TextProperties DEF TypeOK
  <1>3. /\ other.taken + 1 \in 1 .. Len(Tel!Text) /\ other.taken + k \in 1 .. Len(Tel!Text)
        /\ (other.taken + k) - (other.taken + 1) + 1 = k /\ k \in Nat
    <2>1. PICK z \in Nat : z = Len(Tel!Text) /\ other.sent <= z
      BY <1>2
    <2>2. PICK x \in Nat : x = other.taken
      BY <1>1
    <2>3. PICK y \in Nat : y = other.sent /\ y <= z
      BY <1>1, <2>1
    <2>4. k \in Nat /\ k >= 1 /\ x + k <= y
      BY <2>2, <2>3
    <2>5. x + 1 \in 1 .. z /\ x + k \in 1 .. z
      BY <2>3, <2>4
    <2>6. (x + k) - (x + 1) + 1 = k
      BY <2>4
    <2> QED BY <2>1, <2>2, <2>4, <2>5, <2>6
  <1>4. /\ piece \in Seq(Symbols) /\ Len(piece) = k
        /\ \A i \in 1 .. k : piece[i] = Tel!Text[other.taken + 1 + i - 1]
    BY <1>2, <1>3, SubSeqProperties
  <1>5. /\ s \in Seq(Symbols) /\ Len(s) = Len(b) + k
        /\ \A i \in 1 .. Len(b) + k :
             s[i] = IF i <= Len(b) THEN b[i] ELSE piece[i - Len(b)]
    <2> HIDE DEF b, piece
    <2>1. s = b \o piece
      BY DEF b, piece
    <2>2. b \in Seq(Symbols) /\ piece \in Seq(Symbols) /\ Len(piece) = k
      BY <1>1, <1>4
    <2>3. /\ b \o piece \in Seq(Symbols)
          /\ Len(b \o piece) = Len(b) + Len(piece)
          /\ \A i \in 1 .. Len(b) + Len(piece) :
               (b \o piece)[i] = IF i <= Len(b) THEN b[i] ELSE piece[i - Len(b)]
      BY <2>2, ConcatProperties
    <2> QED BY <2>1, <2>2, <2>3
  <1>6. ASSUME NEW i \in 1 .. Len(b) + k, ~(i <= Len(b))
        PROVE  i - Len(b) \in 1 .. k
    <2>1. \A j, c, d \in Nat : j \in 1 .. c + d /\ ~(j <= c) => j - c \in 1 .. d
      OBVIOUS
    <2> QED BY <1>1, <1>6, <2>1
  <1> QED BY <1>4, <1>5, <1>6

(* It is still a part of the text.                                         *)
LEMMA Appended ==
  ASSUME Tel!WellFormed, TypeOK, NEW p \in Nat, IsPart(local.buffer, p),
         other.taken = p + Len(local.buffer), other.sent <= B + R,
         NEW k \in 1 .. other.sent - other.taken, NEW s,
         s = local.buffer \o SubSeq(Tel!Text, other.taken + 1, other.taken + k)
  PROVE  IsPart(s, p)
  <1> SUFFICES ASSUME NEW i \in 1 .. Len(s) PROVE s[i] = Tel!Text[p + i]
    BY DEF IsPart
  <1>1. /\ Len(local.buffer) \in Nat /\ k \in Nat /\ i \in Nat
        /\ i \in 1 .. Len(local.buffer) + k
    BY Taken, LenProperties DEF TypeOK
  <1>2. CASE i <= Len(local.buffer)
    BY <1>1, <1>2, Taken DEF IsPart
  <1>3. CASE ~(i <= Len(local.buffer))
    <2>1. s[i] = Tel!Text[other.taken + 1 + (i - Len(local.buffer)) - 1]
      BY <1>1, <1>3, Taken
    <2>2. \A q, c, j \in Nat : (q + c) + 1 + (j - c) - 1 = q + j
      OBVIOUS
    <2>3. (p + Len(local.buffer)) + 1 + (i - Len(local.buffer)) - 1 = p + i
      BY <1>1, <2>2
    <2> QED BY <2>1, <2>3
  <1> QED BY <1>2, <1>3

(* Of a text whose only prompt is at its end the client takes no other     *)
(* symbol for a prompt, nor misses that one, whatever the length k of the  *)
(* last piece.                                                             *)
LEMMA PromptAtEnd ==
  ASSUME NEW m \in Seq(Symbols), NEW n \in Nat, BUF_SIZE \in Nat, Tel!Framed(m, n),
         NEW s \in Seq(Symbols), Len(s) \in 1 .. Len(m),
         \A i \in 1 .. Len(s) : s[i] = m[i],
         NEW k, NEW end \in Tel!AtPrompt(s, k)
  PROVE  end <=> Len(s) = Len(m)
  <1>1. /\ Len(m) \in Nat /\ Len(m) >= 2 /\ DOMAIN m = 1 .. Len(m)
        /\ Len(s) \in Nat /\ Len(s) >= 1 /\ Len(s) <= Len(m)
    BY LenProperties DEF Tel!Framed
  <1>2. \A i \in 1 .. Len(m) :
          (m[i] = "dot" /\ (i = 1 \/ m[i - 1] = "nl")) <=> i = Len(m)
    BY <1>1 DEF Tel!Framed
  <1>3. CASE Len(s) = 1
    <2>1. s[1] = m[1] /\ 1 \in 1 .. Len(m) /\ 1 # Len(m)
      BY <1>1, <1>3
    <2>2. m[1] # "dot"
      BY <1>2, <2>1
    <2>3. end = FALSE
      BY <1>3, <2>1, <2>2 DEF Tel!AtPrompt
    <2> QED BY <1>3, <2>1, <2>3
  <1>4. CASE Len(s) # 1
    <2>1. Len(s) - 1 \in 1 .. Len(s) /\ Len(s) \in 1 .. Len(s)
      <3>1. \A a \in Nat : a >= 1 /\ a # 1 => a - 1 \in 1 .. a /\ a \in 1 .. a
        OBVIOUS
      <3> QED BY <1>1, <1>4, <3>1
    <2>2. s[Len(s)] = m[Len(s)] /\ s[Len(s) - 1] = m[Len(s) - 1]
      BY <2>1
    <2>3. end <=> (s[Len(s)] = "dot" /\ s[Len(s) - 1] = "nl")
      BY <1>4 DEF Tel!AtPrompt
    <2> QED BY <1>2, <1>4, <2>2, <2>3
  <1> QED BY <1>3, <1>4

LEMMA Prefix ==
  ASSUME NEW S, NEW s \in Seq(S), NEW t \in Seq(S), Len(s) <= Len(t),
         \A i \in 1 .. Len(s) : s[i] = t[i]
  PROVE  Tel!IsPrefix(s, t) /\ (Len(s) = Len(t) => s = t)
  <1>1. Len(s) \in Nat /\ Len(t) \in Nat
    BY LenProperties
  <1>2. SubSeq(s, 1, Len(s)) = SubSeq(t, 1, Len(s))
    <2>1. CASE Len(s) = 0
      BY <2>1, SubSeqProperties, <1>1
    <2>2. CASE Len(s) # 0
      <3> DEFINE a == SubSeq(s, 1, Len(s))
                 b == SubSeq(t, 1, Len(s))
      <3>1. 1 \in 1 .. Len(s) + 1 /\ Len(s) \in 1 .. Len(s) /\ Len(s) - 1 + 1 = Len(s)
        BY <1>1, <2>2
      <3>2. /\ a \in Seq(S) /\ Len(a) = Len(s)
            /\ \A i \in 1 .. Len(s) : a[i] = s[1 + i - 1]
        BY <1>1, <3>1, SubSeqProperties
      <3>3. /\ b \in Seq(S) /\ Len(b) = Len(s)
            /\ \A i \in 1 .. Len(s) : b[i] = t[1 + i - 1]
        BY <1>1, <3>1, SubSeqProperties
      <3>4. \A i \in 1 .. Len(s) : a[i] = b[i]
        <4>1. TAKE i \in 1 .. Len(s)
        <4>2. 1 + i - 1 = i
          BY <1>1
        <4> QED BY <3>2, <3>3, <4>2
      <3> QED BY <3>2, <3>3, <3>4, SeqEqual
    <2> QED BY <2>1, <2>2
  <1>3. Len(s) = Len(t) => s = t
    BY SeqEqual
  <1> QED BY <1>1, <1>2, <1>3 DEF Tel!IsPrefix

-----------------------------------------------------------------------------
LEMMA TypeInitial == ASSUME Tel!WellFormed, Tel!Init PROVE TypeOK /\ Sent /\ Out
  <1>1. <<>> \in Seq(Symbols) /\ Len(<<>>) = 0
    OBVIOUS
  <1>2. input \in TelnetInputs
    BY DEF Tel!Init
  <1> QED BY <1>1, <1>2, TextProperties
             DEF Tel!Init, TypeOK, Sent, Out, Tel!WellFormed

Nets == [sent : Nat, taken : Nat, asked : BOOLEAN, closed : BOOLEAN,
         broken : BOOLEAN]

LEMMA NetType ==
  ASSUME other \in Nets, NEW n \in Nat, NEW k \in Nat
  PROVE  /\ other.sent \in Nat /\ other.taken \in Nat
         /\ LET m == [other EXCEPT !.taken = @ + k] IN
              m \in Nets /\ m.taken = other.taken + k /\ m.sent = other.sent
              /\ m.asked = other.asked /\ m.closed = other.closed
         /\ \A m \in {[other EXCEPT !.sent = n], [other EXCEPT !.sent = n, !.closed = TRUE]} :
              m \in Nets /\ m.taken = other.taken /\ m.sent = n /\ m.asked = other.asked
  <1>1. other.sent \in Nat /\ other.taken \in Nat /\ other.taken + k \in Nat
    BY DEF Nets
  <1>2. \A i \in Nat : LET m == [other EXCEPT !.taken = i] IN
          m \in Nets /\ m.taken = i /\ m.sent = other.sent
          /\ m.asked = other.asked /\ m.closed = other.closed
    BY DEF Nets
  <1>3. [other EXCEPT !.taken = @ + k] = [other EXCEPT !.taken = other.taken + k]
    OBVIOUS
  <1>4. \A m \in {[other EXCEPT !.sent = n], [other EXCEPT !.sent = n, !.closed = TRUE]} :
          m \in Nets /\ m.taken = other.taken /\ m.sent = n /\ m.asked = other.asked
    BY DEF Nets
  <1> QED BY <1>1, <1>2, <1>3, <1>4

LEMMA ReceivedType ==
  ASSUME Tel!WellFormed, TypeOK, Out, step \in {"banner", "reply"},
         NEW s \in Seq(Symbols), Len(s) <= BUF_SIZE, Tel!Received(s)
  PROVE  /\ step' = IF step = "banner" THEN "send" ELSE "done"
         /\ local' \in [tried : Nat, buffer : Seq(Symbols)]
         /\ local'.buffer = IF step = "banner" THEN <<>> ELSE s
         /\ Len(local'.buffer) <= BUF_SIZE
         /\ Out'
  <1>1. <<>> \in Seq(Symbols) /\ Len(<<>>) = 0 /\ BUF_SIZE \in Nat
    BY DEF Tel!WellFormed
  <1>2. CASE step = "banner"
    <2>1. local' = [local EXCEPT !.buffer = <<>>] /\ step' = "send" /\ output' = output
      BY <1>2 DEF Tel!Received
    <2>2. local' \in [tried : Nat, buffer : Seq(Symbols)] /\ local'.buffer = <<>>
      BY <1>1, <2>1 DEF TypeOK
    <2> QED BY <1>1, <1>2, <2>1, <2>2 DEF TypeOK, Out
  <1>3. CASE step = "reply"
    <2>1. local' = [local EXCEPT !.buffer = s] /\ step' = "done"
      BY <1>3 DEF Tel!Received
    <2> QED BY <1>3, <2>1 DEF TypeOK, Out
  <1> QED BY <1>2, <1>3

LEMMA TypeStep ==
  ASSUME Tel!WellFormed, TypeOK, Sent, Out, [Tel!Next]_(Tel!vars)
  PROVE  TypeOK' /\ Sent' /\ Out'
  <1> USE DEF TypeOK, Sent, Out
  <1>a. B \in Nat /\ R \in Nat /\ Len(Tel!Text) = B + R /\ Len(input.banner) = B
    BY TextProperties DEF B
  <1>b. input' = input => B' = B /\ R' = R
    BY DEF B, R
  <1>1. CASE Tel!Resolve
    BY <1>1, <1>b DEF Tel!Resolve
  <1>2. CASE Tel!TryAddress
    <2>1. /\ input' = input /\ other' = other /\ output' = output
          /\ local' = [local EXCEPT !.tried = @ + 1]
          /\ step = "connect" /\ step' \in {"connect", "banner"}
      BY <1>2, <1>b DEF Tel!TryAddress
    <2>2. /\ local'.tried = local.tried + 1 /\ local'.buffer = local.buffer
          /\ local' \in [tried : Nat, buffer : Seq(Symbols)]
      BY <2>1
    <2> QED BY <1>b, <2>1, <2>2
  <1>3. CASE Tel!NoAddress
    BY <1>3, <1>b DEF Tel!NoAddress
  <1>4. CASE Tel!RecvNothing
    <2>1. /\ step \in {"banner", "reply"} /\ input' = input /\ other' = other
          /\ Tel!Received(local.buffer)
      BY <1>4, <1>b DEF Tel!RecvNothing
    <2>2. /\ step' = IF step = "banner" THEN "send" ELSE "done"
          /\ local' \in [tried : Nat, buffer : Seq(Symbols)]
          /\ Len(local'.buffer) <= BUF_SIZE /\ Out'
      BY <2>1, ReceivedType
    <2> QED BY <1>b, <2>1, <2>2
  <1>5. CASE Tel!RecvFails
    BY <1>5, <1>b DEF Tel!RecvFails
  <1>6. CASE Tel!Send
    BY <1>6, <1>b DEF Tel!Send
  <1>7. ASSUME NEW k \in 1 .. BUF_SIZE, Tel!Recv(k) PROVE TypeOK' /\ Sent' /\ Out'
    <2> DEFINE s == local.buffer \o SubSeq(Tel!Text, other.taken + 1, other.taken + k)
    <2>1. s \in Seq(Symbols) /\ Len(s) = Len(local.buffer) + k
      BY <1>7, Taken DEF Tel!Recv
    <2>2. k \in 1 .. other.sent - other.taken /\ Len(local.buffer) + k <= BUF_SIZE
      BY <1>7, <1>b DEF Tel!Recv
    <2>3. <<>> \in Seq(Symbols) /\ Len(<<>>) = 0
      OBVIOUS
    <2> HIDE DEF s
    <2>4. \/ UNCHANGED <<step, output>> /\ local' = [local EXCEPT !.buffer = s]
          \/ Tel!Received(s)
      BY <1>7, <1>b DEF Tel!Recv, s
    <2>5. other' = [other EXCEPT !.taken = @ + k] /\ input' = input
          /\ step \in {"banner", "reply"}
      BY <1>7, <1>b DEF Tel!Recv
    <2>6. /\ step' = step \/ step' = IF step = "banner" THEN "send" ELSE "done"
          /\ local' \in [tried : Nat, buffer : Seq(Symbols)]
          /\ Len(local'.buffer) <= BUF_SIZE
          /\ Out'
      <3>1. CASE Tel!Received(s)
        BY <2>1, <2>2, <2>5, <3>1, ReceivedType
      <3>2. CASE UNCHANGED <<step, output>> /\ local' = [local EXCEPT !.buffer = s]
        <4>1. local' \in [tried : Nat, buffer : Seq(Symbols)] /\ local'.buffer = s
          BY <2>1, <3>2
        <4> QED BY <2>1, <2>2, <3>2, <4>1
      <3> QED BY <2>4, <3>1, <3>2
    <2>7. k \in Nat /\ other.taken + k <= other.sent
      <3>1. other.sent \in Nat /\ other.taken \in Nat
        OBVIOUS
      <3>2. \A x, y \in Nat : \A d \in 1 .. y - x : d \in Nat /\ x + d <= y
        OBVIOUS
      <3> QED BY <2>2, <3>1, <3>2
    <2>8. /\ other' \in Nets /\ other'.sent = other.sent /\ other'.asked = other.asked
          /\ other'.taken = other.taken + k
      BY <2>5, <2>7, NetType DEF Nets
    <2> HIDE DEF Out
    <2> QED BY <1>b, <2>5, <2>6, <2>7, <2>8 DEF Nets
  <1>8. CASE Tel!Answer
    <2>1. /\ UNCHANGED <<step, input, local, output>>
          /\ step \in {"banner", "send", "reply"} /\ other.sent < Tel!Due
          /\ other' = [other EXCEPT !.sent = Tel!Due]
      BY <1>8, <1>b DEF Tel!Answer, Tel!Connected
    <2>2. Tel!Due = IF other.asked THEN B + R ELSE B
      BY <1>a DEF Tel!Due
    <2>3. Tel!Due \in Nat /\ other \in Nets
      <3> HIDE DEF TypeOK, Sent, Out
      <3>1. Tel!Due \in Nat
        BY <1>a, <2>2
      <3> QED BY <3>1 DEF TypeOK, Nets
    <2>4. /\ other' \in Nets /\ other'.sent = Tel!Due /\ other'.asked = other.asked
          /\ other'.taken = other.taken
      BY <2>1, <2>3, NetType
    <2> QED BY <1>a, <1>b, <2>1, <2>2, <2>4 DEF Nets
  <1>9. CASE Tel!HangUp
    <2>1. /\ UNCHANGED <<step, input, local, output>>
          /\ step \in {"banner", "send", "reply"}
      BY <1>9, <1>b DEF Tel!HangUp, Tel!Connected
    <2>2. PICK n \in other.sent .. Tel!Due : other' = [other EXCEPT !.sent = n, !.closed = TRUE]
      BY <1>9, <1>b DEF Tel!HangUp
    <2>3. Tel!Due = IF other.asked THEN B + R ELSE B
      BY <1>a DEF Tel!Due
    <2>4. Tel!Due \in Nat /\ other \in Nets /\ other.sent \in Nat
      <3> HIDE DEF TypeOK, Sent, Out
      <3>1. Tel!Due \in Nat
        BY <1>a, <2>3
      <3> QED BY <3>1 DEF TypeOK, Nets
    <2>5. n \in Nat /\ n >= other.sent /\ n <= Tel!Due
      BY <2>4
    <2>6. /\ other' \in Nets /\ other'.sent = n /\ other'.asked = other.asked
          /\ other'.taken = other.taken
      BY <2>2, <2>4, <2>5, NetType
    <2> QED BY <1>a, <1>b, <2>1, <2>3, <2>5, <2>6 DEF Nets
  <1>10. CASE Tel!Break
    BY <1>10, <1>b DEF Tel!Break
  <1>11. CASE UNCHANGED Tel!vars
    BY <1>11, <1>b DEF Tel!vars
  <1> QED BY <1>1, <1>2, <1>3, <1>4, <1>5, <1>6, <1>7, <1>8, <1>9, <1>10, <1>11
          DEF Tel!Next, Tel!Client

-----------------------------------------------------------------------------
LEMMA UsualBounds ==
  ASSUME Tel!WellFormed, input \in TelnetInputs, Tel!Usual(input)
  PROVE  /\ BUF_SIZE \in Nat
         /\ B \in Nat /\ B >= 2 /\ B <= BUF_SIZE
         /\ R \in Nat /\ R >= 2 /\ R < BUF_SIZE
         /\ Tel!Framed(input.banner, 0) /\ Tel!Framed(input.reply, 1)
         /\ Len(Tel!Text) = B + R
  <1>1. BUF_SIZE \in Nat /\ B \in Nat /\ R \in Nat /\ Len(Tel!Text) = B + R
    BY TextProperties DEF Tel!WellFormed
  <1>2. B \in 2 .. BUF_SIZE - 0 /\ R \in 2 .. BUF_SIZE - 1
    BY DEF Tel!Usual, Tel!Framed, B, R
  <1> QED BY <1>1, <1>2 DEF Tel!Usual

(* What Read says of the next state, in terms of this input.               *)
LEMMA ReadNext ==
  ASSUME input' = input,
         step' \in {"resolve", "connect"} => local'.buffer = <<>> /\ other'.taken = 0,
         step' = "banner" => /\ Len(local'.buffer) = other'.taken /\ other'.taken < B
                             /\ IsPart(local'.buffer, 0),
         step' = "send" => /\ local'.buffer = <<>>
                           /\ \/ other'.closed /\ other'.taken = other'.sent
                              \/ other'.taken = B,
         step' = "reply" => IF other'.asked
                          THEN /\ Len(local'.buffer) = other'.taken - B
                               /\ other'.taken >= B /\ other'.taken < B + R
                               /\ IsPart(local'.buffer, B)
                          ELSE /\ other'.closed /\ other'.taken = other'.sent
                               /\ local'.buffer = <<>>
  PROVE  Read'
  <1>1. B' = B /\ R' = R /\ Tel!Text' = Tel!Text
    BY DEF B, R, Tel!Text
  <1> QED BY <1>1 DEF Read, InBanner, InReply, HungUp, IsPart

(* What is printed when it is a part of the reply, and all of it if the    *)
(* server has sent everything.                                             *)
LEMMA PrintedRight ==
  ASSUME Tel!WellFormed, TypeOK, Tel!Usual(input), NEW s \in Seq(Symbols),
         IsPart(s, B), Len(s) <= R, input' = input, output' \in Tel!Printed(s),
         other'.sent = B + R => Len(s) = R
  PROVE  Tel!PrintsReply'
  <1>1. s \in Seq(Symbols) /\ input.reply \in Seq(Symbols) /\ Len(s) \in Nat
    BY TextProperties, LenProperties DEF TypeOK
  <1>2. \A i \in 1 .. R : Tel!Text[B + i] = input.reply[i]
    BY TextProperties DEF TypeOK
  <1>3. R \in Nat /\ R < BUF_SIZE /\ BUF_SIZE \in Nat /\ Len(Tel!Text) = B + R
    BY UsualBounds DEF TypeOK
  <1>4. \A i \in 1 .. Len(s) : s[i] = input.reply[i]
    BY <1>1, <1>2, <1>3 DEF IsPart
  <1>5. Tel!IsPrefix(s, input.reply) /\ (Len(s) = R => s = input.reply)
    BY <1>1, <1>4, Prefix DEF R
  <1>6. output' = s
    BY <1>1, <1>3 DEF Tel!Printed
  <1>7. Tel!Text' = Tel!Text
    BY DEF Tel!Text
  <1> QED BY <1>3, <1>5, <1>6, <1>7 DEF Tel!PrintsReply

LEMMA NothingRead ==
  /\ <<>> \in Seq(Symbols) /\ Len(<<>>) = 0
  /\ \A p : IsPart(<<>>, p)
  BY DEF IsPart

(* A recv() with data, while the banner is read.                           *)
LEMMA RecvBanner ==
  ASSUME Tel!WellFormed, TypeOK, Sent, Tel!Usual(input), Read, step = "banner",
         NEW k \in 1 .. BUF_SIZE, Tel!Recv(k)
  PROVE  Read' /\ Tel!PrintsReply'
  <1> DEFINE s == local.buffer \o SubSeq(Tel!Text, other.taken + 1, other.taken + k)
  <1>1. /\ B \in Nat /\ B >= 2 /\ R \in Nat /\ BUF_SIZE \in Nat
        /\ Tel!Framed(input.banner, 0)
        /\ input.banner \in Seq(Symbols) /\ Len(input.banner) = B
        /\ \A i \in 1 .. B : Tel!Text[i] = input.banner[i]
    BY UsualBounds, TextProperties DEF TypeOK, B
  <1>2. /\ Len(local.buffer) = other.taken /\ other.taken < B
        /\ IsPart(local.buffer, 0) /\ ~other.asked /\ other.sent <= B
        /\ other.taken \in Nat /\ other.sent \in Nat
    BY DEF Read, InBanner, Sent, TypeOK
  <1>3. /\ input' = input /\ k \in 1 .. other.sent - other.taken
        /\ other' = [other EXCEPT !.taken = @ + k]
        /\ \E end \in Tel!AtPrompt(s, k) :
             IF end THEN Tel!Received(s)
             ELSE local' = [local EXCEPT !.buffer = s] /\ UNCHANGED <<step, output>>
    BY DEF Tel!Recv
  <1>4. /\ k \in Nat /\ k >= 1 /\ other.taken + k <= B
        /\ other.taken = 0 + Len(local.buffer) /\ other.sent <= B + R
    <2>1. \A x, y, z \in Nat : y <= z => \A d \in 1 .. y - x :
            d \in Nat /\ d >= 1 /\ x + d <= z
      OBVIOUS
    <2> QED BY <1>1, <1>2, <1>3, <2>1
  <1>5. s \in Seq(Symbols) /\ Len(s) = other.taken + k /\ IsPart(s, 0)
    BY <1>2, <1>3, <1>4, Taken, Appended
  <1>6. other'.taken = other.taken + k
    BY <1>2, <1>3, <1>4, NetType DEF TypeOK, Nets
  <1> HIDE DEF s
  <1>7. Len(s) \in 1 .. Len(input.banner)
        /\ \A i \in 1 .. Len(s) : s[i] = input.banner[i]
    <2>1. Len(s) \in 1 .. B
      BY <1>1, <1>2, <1>4, <1>5
    <2>2. \A i \in 1 .. Len(s) : i \in 1 .. B /\ 0 + i = i
      BY <1>1, <2>1
    <2> QED BY <1>1, <1>5, <2>1, <2>2 DEF IsPart
  <1>8. PICK end \in Tel!AtPrompt(s, k) :
          IF end THEN Tel!Received(s)
          ELSE local' = [local EXCEPT !.buffer = s] /\ UNCHANGED <<step, output>>
    BY <1>3
  <1>9. end <=> Len(s) = B
    <2>1. 0 \in Nat
      OBVIOUS
    <2>2. BUF_SIZE \in Nat /\ s \in Seq(Symbols) /\ input.banner \in Seq(Symbols)
      BY <1>1, <1>5, UsualBounds
    <2>3. Tel!Framed(input.banner, 0)
      BY DEF Tel!Usual
    <2>4. end <=> Len(s) = Len(input.banner)
      BY <1>7, <1>8, <2>1, <2>2, <2>3, PromptAtEnd
    <2> QED BY <2>4 DEF B
  <1>10. CASE end
    <2>1. step' = "send" /\ local'.buffer = <<>> /\ other'.taken = B
      BY <1>5, <1>6, <1>8, <1>9, <1>10 DEF Tel!Received, TypeOK
    <2> QED BY <1>3, <2>1, ReadNext DEF Tel!PrintsReply
  <1>11. CASE ~end
    <2>1. step' = "banner" /\ local'.buffer = s
      BY <1>8, <1>11 DEF TypeOK
    <2>2. Len(s) = other'.taken /\ other'.taken < B
      BY <1>1, <1>2, <1>4, <1>5, <1>6, <1>9, <1>11
    <2> QED BY <1>3, <1>5, <2>1, <2>2, ReadNext DEF Tel!PrintsReply
  <1> QED BY <1>10, <1>11

(* The same while the reply is read.                                       *)
LEMMA RecvReply ==
  ASSUME Tel!WellFormed, TypeOK, Sent, Tel!Usual(input), Read, step = "reply",
         NEW k \in 1 .. BUF_SIZE, Tel!Recv(k)
  PROVE  Read' /\ Tel!PrintsReply'
  <1> DEFINE s == local.buffer \o SubSeq(Tel!Text, other.taken + 1, other.taken + k)
  <1>1. /\ B \in Nat /\ R \in Nat /\ R >= 2 /\ R < BUF_SIZE /\ BUF_SIZE \in Nat
        /\ Tel!Framed(input.reply, 1)
        /\ input.reply \in Seq(Symbols) /\ Len(input.reply) = R
        /\ \A i \in 1 .. R : Tel!Text[B + i] = input.reply[i]
    BY UsualBounds, TextProperties DEF TypeOK, R
  <1>2. other.taken \in Nat /\ other.sent \in Nat /\ other.sent <= B + R
    BY DEF Sent, TypeOK
  <1>3. /\ input' = input /\ k \in 1 .. other.sent - other.taken
        /\ other' = [other EXCEPT !.taken = @ + k]
        /\ \E end \in Tel!AtPrompt(s, k) :
             IF end THEN Tel!Received(s)
             ELSE local' = [local EXCEPT !.buffer = s] /\ UNCHANGED <<step, output>>
    BY DEF Tel!Recv
  <1>4. k \in Nat /\ k >= 1 /\ other.taken + k <= B + R /\ other.taken # other.sent
    <2>1. \A x, y, z \in Nat : y <= z => \A d \in 1 .. y - x :
            d \in Nat /\ d >= 1 /\ x + d <= z /\ x # y
      OBVIOUS
    <2> QED BY <1>1, <1>2, <1>3, <2>1
  <1>5. /\ other.asked /\ Len(local.buffer) = other.taken - B /\ other.taken >= B
        /\ IsPart(local.buffer, B)
    BY <1>4 DEF Read, InReply, HungUp
  <1>6. s \in Seq(Symbols) /\ Len(s) = other.taken - B + k /\ IsPart(s, B)
    <2>1. other.taken = B + Len(local.buffer)
      BY <1>1, <1>2, <1>5
    <2> QED BY <1>1, <1>2, <1>3, <1>5, <2>1, Taken, Appended
  <1>7. other'.taken = other.taken + k /\ other'.sent = other.sent /\ other'.asked = other.asked
    BY <1>3, <1>4, NetType DEF TypeOK, Nets
  <1> HIDE DEF s
  <1>8. Len(s) \in 1 .. Len(input.reply)
        /\ \A i \in 1 .. Len(s) : s[i] = input.reply[i]
    <2>1. Len(s) \in 1 .. R
      BY <1>1, <1>2, <1>4, <1>5, <1>6
    <2>2. \A i \in 1 .. Len(s) : i \in 1 .. R
      BY <1>1, <2>1
    <2> QED BY <1>1, <1>6, <2>1, <2>2 DEF IsPart
  <1>9. PICK end \in Tel!AtPrompt(s, k) :
          IF end THEN Tel!Received(s)
          ELSE local' = [local EXCEPT !.buffer = s] /\ UNCHANGED <<step, output>>
    BY <1>3
  <1>10. end <=> Len(s) = R
    <2>1. 1 \in Nat
      OBVIOUS
    <2>2. /\ input.reply \in Seq(Symbols) /\ Tel!Framed(input.reply, 1)
          /\ BUF_SIZE \in Nat /\ s \in Seq(Symbols) /\ Len(input.reply) = R
      BY <1>1, <1>6
    <2>3. end <=> Len(s) = Len(input.reply)
      BY <1>8, <2>1, <2>2, PromptAtEnd
    <2> QED BY <2>2, <2>3
  <1>11. CASE end
    <2>1. step' = "done" /\ output' \in Tel!Printed(s)
      BY <1>9, <1>11 DEF Tel!Received
    <2>2. Len(s) = R /\ Len(s) <= R
      BY <1>1, <1>10, <1>11
    <2>3. Tel!PrintsReply'
      BY <1>3, <1>6, <2>1, <2>2, PrintedRight
    <2> QED BY <1>3, <2>1, <2>3, ReadNext
  <1>12. CASE ~end
    <2>1. step' = "reply" /\ local'.buffer = s
      BY <1>9, <1>12 DEF TypeOK
    <2>2. /\ Len(s) = other'.taken - B /\ other'.taken >= B /\ other'.taken < B + R
          /\ other'.asked
      <3>1. Len(s) \in 1 .. R /\ Len(s) # R
        BY <1>1, <1>8, <1>10, <1>12
      <3> QED BY <1>1, <1>2, <1>4, <1>5, <1>6, <1>7, <3>1
    <2> QED BY <1>3, <1>6, <2>1, <2>2, ReadNext DEF Tel!PrintsReply
  <1> QED BY <1>11, <1>12

LEMMA ReadStep ==
  ASSUME Tel!WellFormed, TypeOK, Sent, Out, Tel!Usual(input), Read, Tel!PrintsReply,
         [Tel!Next]_(Tel!vars)
  PROVE  Read' /\ Tel!PrintsReply'
  <1>1. /\ B \in Nat /\ B >= 2 /\ B <= BUF_SIZE /\ R \in Nat /\ R >= 2
        /\ R < BUF_SIZE /\ BUF_SIZE \in Nat /\ Len(Tel!Text) = B + R
    BY UsualBounds DEF TypeOK
  <1>2. /\ other.taken \in Nat /\ other.sent \in Nat /\ other \in Nets
        /\ other.taken <= other.sent /\ (~other.asked => other.sent <= B)
        /\ local.buffer \in Seq(Symbols) /\ Len(local.buffer) \in Nat
    BY LenProperties DEF TypeOK, Sent, Nets
  <1>3. CASE Tel!Resolve
    <2>1. input' = input /\ local' = local /\ other' = other /\ step = "resolve"
          /\ step' \in {"connect", "failed"}
      BY <1>3 DEF Tel!Resolve
    <2> QED BY <2>1, ReadNext DEF Read, Tel!PrintsReply
  <1>4. CASE Tel!TryAddress
    <2>1. /\ input' = input /\ other' = other /\ step = "connect"
          /\ step' \in {"connect", "banner"} /\ local'.buffer = local.buffer
      BY <1>4 DEF Tel!TryAddress, TypeOK
    <2>2. local.buffer = <<>> /\ other.taken = 0
      BY <2>1 DEF Read
    <2> QED BY <1>1, <2>1, <2>2, NothingRead, ReadNext DEF Tel!PrintsReply
  <1>5. CASE Tel!NoAddress
    BY <1>5, ReadNext DEF Tel!NoAddress, Tel!PrintsReply
  <1>6. CASE Tel!RecvNothing
    <2>1. /\ step \in {"banner", "reply"} /\ input' = input /\ other' = other
          /\ \/ other.closed /\ other.taken = other.sent
             \/ Len(local.buffer) = BUF_SIZE
          /\ Tel!Received(local.buffer)
      BY <1>6 DEF Tel!RecvNothing
    <2>2. CASE step = "banner"
      <3>1. Len(local.buffer) = other.taken /\ other.taken < B
        BY <2>2 DEF Read, InBanner
      <3>2. other.closed /\ other.taken = other.sent
        BY <1>1, <1>2, <2>1, <3>1
      <3>3. step' = "send" /\ local'.buffer = <<>>
        BY <2>1, <2>2 DEF Tel!Received, TypeOK
      <3> QED BY <2>1, <3>2, <3>3, ReadNext DEF Tel!PrintsReply
    <2>3. CASE step = "reply"
      <3>1. step' = "done" /\ output' \in Tel!Printed(local.buffer)
        BY <2>1, <2>3 DEF Tel!Received
      <3>2. IsPart(local.buffer, B) /\ Len(local.buffer) <= R /\ other.sent # B + R
        <4>1. CASE other.asked
          <5>1. /\ Len(local.buffer) = other.taken - B /\ other.taken >= B
                /\ other.taken < B + R /\ IsPart(local.buffer, B)
            BY <2>3, <4>1 DEF Read, InReply
          <5>2. Len(local.buffer) < R
            BY <1>1, <1>2, <5>1
          <5>3. other.taken = other.sent
            BY <1>1, <1>2, <2>1, <5>2
          <5> QED BY <1>1, <1>2, <5>1, <5>2, <5>3
        <4>2. CASE ~other.asked
          <5>1. local.buffer = <<>> /\ other.sent <= B
            BY <1>2, <2>3, <4>2 DEF Read, HungUp
          <5> QED BY <1>1, <1>2, <5>1, NothingRead
        <4> QED BY <4>1, <4>2
      <3>3. Tel!PrintsReply'
        BY <1>2, <2>1, <3>1, <3>2, PrintedRight
      <3> QED BY <2>1, <3>1, <3>3, ReadNext
    <2> QED BY <2>1, <2>2, <2>3
  <1>7. CASE Tel!RecvFails
    BY <1>7, ReadNext DEF Tel!RecvFails, Tel!PrintsReply
  <1>8. CASE Tel!Send
    <2>1. /\ step = "send" /\ input' = input /\ local' = local
          /\ \/ step' = "reply" /\ other' = [other EXCEPT !.asked = ~other.closed]
             \/ step' = "failed"
      BY <1>8 DEF Tel!Send
    <2>2. local.buffer = <<>> /\ (HungUp \/ other.taken = B) /\ ~other.asked
      BY <2>1 DEF Read, Sent
    <2>3. CASE step' = "failed"
      BY <2>1, <2>3, ReadNext DEF Tel!PrintsReply
    <2>4. CASE step' = "reply" /\ other' = [other EXCEPT !.asked = ~other.closed]
      <3>1. /\ other'.asked = ~other.closed /\ other'.closed = other.closed
            /\ other'.taken = other.taken /\ other'.sent = other.sent
            /\ other.closed \in BOOLEAN
        BY <1>2, <2>4 DEF Nets
      <3>2. CASE other.closed
        <4>1. other.taken = other.sent
          BY <1>1, <1>2, <2>2 DEF HungUp
        <4> QED BY <2>1, <2>2, <2>4, <3>1, <3>2, <4>1, ReadNext
                   DEF Tel!PrintsReply
      <3>3. CASE ~other.closed
        <4>1. other.taken = B
          BY <2>2, <3>3 DEF HungUp
        <4>2. B - B = 0 /\ B >= B /\ B < B + R
          BY <1>1
        <4> QED BY <2>1, <2>2, <2>4, <3>1, <3>3, <4>1, <4>2, NothingRead,
                   ReadNext
                DEF Tel!PrintsReply
      <3> QED BY <3>2, <3>3
    <2> QED BY <2>1, <2>3, <2>4
  <1>9. ASSUME NEW k \in 1 .. BUF_SIZE, Tel!Recv(k) PROVE Read' /\ Tel!PrintsReply'
    <2>1. step \in {"banner", "reply"}
      BY <1>9 DEF Tel!Recv
    <2> QED BY <1>9, <2>1, RecvBanner, RecvReply
  <1>10. ASSUME UNCHANGED <<step, input, local, output>>, Tel!Connected,
                other'.taken = other.taken, other'.asked = other.asked,
                HungUp => other'.closed /\ other'.sent = other.sent
         PROVE  Read' /\ Tel!PrintsReply'
    <2>1. step \in {"banner", "send", "reply"} /\ step' = step
      BY <1>10 DEF Tel!Connected
    <2> QED BY <1>10, <2>1, ReadNext
            DEF Read, InBanner, InReply, HungUp, Tel!PrintsReply
  <1>11. CASE Tel!Answer
    <2>1. /\ UNCHANGED <<step, input, local, output>> /\ Tel!Connected
          /\ ~other.closed /\ other' = [other EXCEPT !.sent = Tel!Due]
      BY <1>11 DEF Tel!Answer
    <2>2. other'.taken = other.taken /\ other'.asked = other.asked
      BY <1>2, <2>1 DEF Nets
    <2> QED BY <1>10, <2>1, <2>2 DEF HungUp
  <1>12. CASE Tel!HangUp
    <2>1. UNCHANGED <<step, input, local, output>> /\ Tel!Connected /\ ~other.closed
      BY <1>12 DEF Tel!HangUp
    <2>2. other'.taken = other.taken /\ other'.asked = other.asked
      BY <1>2, <1>12 DEF Tel!HangUp, Nets
    <2> QED BY <1>10, <2>1, <2>2 DEF HungUp
  <1>13. CASE Tel!Break
    <2>1. /\ UNCHANGED <<step, input, local, output>> /\ Tel!Connected
          /\ other' = [other EXCEPT !.broken = TRUE]
      BY <1>13 DEF Tel!Break
    <2>2. /\ other'.taken = other.taken /\ other'.asked = other.asked
          /\ other'.closed = other.closed /\ other'.sent = other.sent
      BY <1>2, <2>1 DEF Nets
    <2> QED BY <1>10, <2>1, <2>2 DEF HungUp
  <1>14. CASE UNCHANGED Tel!vars
    BY <1>14
       DEF Tel!vars, Read, InBanner, InReply, HungUp, IsPart,
           Tel!Text, B, R, Tel!PrintsReply
  <1> QED BY <1>3, <1>4, <1>5, <1>6, <1>7, <1>8, <1>9, <1>11, <1>12, <1>13,
             <1>14
          DEF Tel!Next, Tel!Client

-----------------------------------------------------------------------------
LEMMA Initial == ASSUME Tel!WellFormed, Tel!Init PROVE IInv
  <1>1. TypeOK /\ Sent /\ Out
    BY TypeInitial
  <1>2. Read /\ Tel!PrintsReply
    BY DEF Tel!Init, Read, Tel!PrintsReply
  <1> QED BY <1>1, <1>2 DEF IInv

LEMMA Step ==
  ASSUME Tel!WellFormed, IInv, [Tel!Next]_(Tel!vars)
  PROVE  IInv'
  <1>1. TypeOK' /\ Sent' /\ Out'
    BY TypeStep DEF IInv
  <1>2. input' = input
    BY DEF Tel!Next, Tel!Client, Tel!vars, Tel!Resolve,
           Tel!TryAddress, Tel!NoAddress, Tel!RecvNothing,
           Tel!RecvFails, Tel!Send, Tel!Recv, Tel!Answer,
           Tel!HangUp, Tel!Break
  <1>3. ASSUME Tel!Usual(input') PROVE Read' /\ Tel!PrintsReply'
    BY <1>2, <1>3, ReadStep DEF IInv
  <1> QED BY <1>1, <1>3 DEF IInv

(* For any two texts that end with their only prompts and fit the buffer,  *)
(* any cut of the stream, a hang-up or a break at any point, the client    *)
(* prints the reply: a part of it if the server hung up, and nothing else. *)
THEOREM ReplyIsPrinted == ProgramSpec => []PrintsReply
  <1> DEFINE Inv == program = "telnet" => IInv
  <1>1. ProgramInit => Inv
    BY Initial, InputsAreWellFormed DEF ProgramInit
  <1>2. Inv /\ [ProgramNext]_programVars => Inv'
    <2> SUFFICES ASSUME Inv, [ProgramNext]_programVars, program' = "telnet"
                 PROVE  IInv'
      OBVIOUS
    <2>1. program = "telnet" /\ [Tel!Next]_(Tel!vars)
      BY DEF ProgramNext, programVars, Tel!vars
    <2> QED BY <2>1, Step, InputsAreWellFormed
  <1>3. Inv => PrintsReply
    BY DEF IInv, PrintsReply, Tel!PrintsReply
  <1> QED BY <1>1, <1>2, <1>3, PTL DEF ProgramSpec
=============================================================================
