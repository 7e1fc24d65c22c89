---------------------------- MODULE LoggerProofs ----------------------------
(***************************************************************************)
(* Proofs about Logger, for any threads, files and numbers of records and  *)
(* calls.                                                                  *)
(***************************************************************************)
EXTENDS Logger, SequenceTheorems, FunctionTheorems, FiniteSetTheorems,
        WellFoundedInduction, TLAPS

(* What comes last in a stream: the newline of a record, or a piece of one *)
(* that is being written.                                                  *)
Ended(m) ==
  \A i \in DOMAIN m : Precedes(m, i, Len(m) + 1) => m[i].part = "newline"
Reached(m, t, part) ==
  \E i \in DOMAIN m : Precedes(m, i, Len(m) + 1) /\ Is(m[i], t, part)

LEMMA Following3 ==
  /\ Following["prefix"] = "text" /\ Following["text"] = "newline"
  /\ Following["newline"] = "prefix"
  BY DEF Following

(* A piece of no record may be put anywhere.                               *)
LEMMA Spliced ==
  ASSUME NEW m \in Seq(Pieces), NEW n \in Seq(Pieces), NEW p \in 0 .. Len(m),
         Len(n) = Len(m) + 1, ~IsRecord(n[p + 1]),
         \A i \in 1 .. p : n[i] = m[i],
         \A i \in p + 2 .. Len(m) + 1 : n[i] = m[i - 1]
  PROVE  /\ Whole(m) => Whole(n)
         /\ Ended(m) => Ended(n)
         /\ \A t \in Threads, part \in Parts :
              Reached(m, t, part) => Reached(n, t, part)
  <1> DEFINE Old(i) == IF i <= p THEN i ELSE i - 1
             New(i) == IF i <= p THEN i ELSE i + 1
  <1>1. /\ Len(m) \in Nat /\ Len(n) \in Nat
        /\ DOMAIN m = 1 .. Len(m) /\ DOMAIN n = 1 .. Len(n)
    BY LenProperties
  <1>2. \A i \in 1 .. Len(n) : i # p + 1 =>
          Old(i) \in 1 .. Len(m) /\ n[i] = m[Old(i)] /\ New(Old(i)) = i
    BY <1>1
  <1>3. \A i \in 1 .. Len(m) : /\ New(i) \in 1 .. Len(n) /\ New(i) # p + 1
                               /\ Old(New(i)) = i /\ n[New(i)] = m[i]
    BY <1>1
  <1>4. ASSUME NEW i \in 1 .. Len(m), NEW j \in 1 .. Len(n) + 1, j # p + 1, New(i) < j
        PROVE  Precedes(m, i, Old(j)) <=> Precedes(n, New(i), j)
    <2>1. ASSUME Precedes(m, i, Old(j)), NEW k \in New(i) + 1 .. j - 1
          PROVE  ~IsRecord(n[k])
      <3>1. CASE k = p + 1
        BY <3>1
      <3>2. CASE k # p + 1
        <4>1. Old(k) \in i + 1 .. Old(j) - 1 /\ n[k] = m[Old(k)]
          BY <1>1, <1>2, <1>4, <2>1, <3>2
        <4> QED BY <2>1, <4>1 DEF Precedes
      <3> QED BY <3>1, <3>2
    <2>2. ASSUME Precedes(n, New(i), j), NEW k \in i + 1 .. Old(j) - 1
          PROVE  ~IsRecord(m[k])
      <3>1. k \in 1 .. Len(m) /\ New(k) \in New(i) + 1 .. j - 1
        BY <1>1, <1>4
      <3> QED BY <1>3, <2>2, <3>1 DEF Precedes
    <2> QED BY <1>3, <2>1, <2>2 DEF Precedes
  <1>5. Old(Len(n) + 1) = Len(m) + 1 /\ Len(n) + 1 # p + 1
    BY <1>1
  <1>6. ASSUME Whole(m), NEW j \in 1 .. Len(n), IsRecord(n[j])
        PROVE  InPlace(n, j)
    <2>1. j # p + 1
      BY <1>6
    <2>2. PICK c \in 1 .. Len(m) : c = Old(j) /\ n[j] = m[c]
      BY <1>2, <2>1
    <2>3. InPlace(m, c)
      BY <1>1, <1>6, <2>2 DEF Whole
    <2>4. CASE n[j].part = "prefix"
      <3>1. ASSUME NEW i \in 1 .. j - 1, Precedes(n, i, j)
            PROVE  n[i].part = "newline"
        <4>1. i # p + 1 /\ i \in 1 .. Len(n)
          BY <1>1, <3>1 DEF Precedes
        <4>2. PICK o \in 1 .. Len(m) : o = Old(i) /\ New(o) = i /\ n[i] = m[o]
          BY <1>2, <4>1
        <4>3. o \in 1 .. c - 1
          BY <1>1, <2>1, <2>2, <4>1, <4>2
        <4>4. j \in 1 .. Len(n) + 1 /\ New(o) < j
          BY <1>1, <4>1, <4>2
        <4>5. Precedes(m, o, Old(j)) <=> Precedes(n, New(o), j)
          BY <1>4, <2>1, <4>4
        <4>6. Precedes(m, o, c)
          BY <2>2, <3>1, <4>2, <4>5
        <4> QED BY <2>2, <2>4, <2>3, <4>2, <4>3, <4>6 DEF InPlace
      <3> QED BY <2>4, <3>1 DEF InPlace
    <2>5. CASE n[j].part # "prefix"
      <3>1. PICK i \in 1 .. c - 1 :
              /\ Precedes(m, i, c)
              /\ m[c] = [thread |-> m[i].thread, part |-> Following[m[i].part]]
        BY <2>2, <2>5, <2>3 DEF InPlace
      <3>2. i \in 1 .. Len(m) /\ New(i) \in 1 .. j - 1
        BY <1>1, <2>1, <2>2
      <3>3. Precedes(n, New(i), j) /\ n[New(i)] = m[i]
        BY <1>1, <1>3, <1>4, <2>1, <2>2, <3>1, <3>2
      <3> QED BY <2>2, <2>5, <3>1, <3>2, <3>3 DEF InPlace
    <2> QED BY <2>4, <2>5
  <1>7. ASSUME Ended(m), NEW i \in 1 .. Len(n), Precedes(n, i, Len(n) + 1)
        PROVE  n[i].part = "newline"
    <2>1. i # p + 1
      BY <1>7 DEF Precedes
    <2>2. Old(i) \in 1 .. Len(m) /\ n[i] = m[Old(i)] /\ New(Old(i)) = i
      BY <1>2, <2>1
    <2>3. Precedes(m, Old(i), Len(m) + 1)
      BY <1>1, <1>4, <1>5, <1>7, <2>2
    <2> QED BY <1>1, <1>7, <2>2, <2>3 DEF Ended
  <1>8. ASSUME NEW t, NEW part, Reached(m, t, part)
        PROVE  Reached(n, t, part)
    <2>1. PICK i \in 1 .. Len(m) : Precedes(m, i, Len(m) + 1) /\ Is(m[i], t, part)
      BY <1>1, <1>8 DEF Reached
    <2>2. Precedes(n, New(i), Len(n) + 1)
      BY <1>1, <1>3, <1>4, <1>5, <2>1
    <2> QED BY <1>1, <1>3, <2>1, <2>2 DEF Reached
  <1> QED BY <1>1, <1>6, <1>7, <1>8 DEF Whole, Ended

(* A record goes on where it was left.                                     *)
LEMMA RecordAppended ==
  ASSUME NEW m \in Seq(Pieces), Whole(m), NEW t \in Threads, NEW part \in Parts,
         \/ part = "prefix" /\ Ended(m)
         \/ part = "text" /\ Reached(m, t, "prefix")
         \/ part = "newline" /\ Reached(m, t, "text"),
         NEW n, n = Append(m, [thread |-> t, part |-> part])
  PROVE  /\ Whole(n)
         /\ Reached(n, t, part)
         /\ part = "newline" => Ended(n)
  <1> DEFINE x == [thread |-> t, part |-> part]
             l == Len(m) + 1
  <1>1. x \in Pieces /\ IsRecord(x)
    BY DEF Pieces, IsRecord
  <1>2. /\ n \in Seq(Pieces) /\ Len(n) = l /\ n[l] = x
        /\ \A i \in 1 .. Len(m) : n[i] = m[i]
    BY <1>1, AppendProperties
  <1>3. /\ Len(m) \in Nat
        /\ DOMAIN m = 1 .. Len(m) /\ DOMAIN n = 1 .. l
    BY <1>2, LenProperties
  <1>4. ASSUME NEW i \in 1 .. Len(m), NEW j \in 1 .. l
        PROVE  Precedes(m, i, j) <=> Precedes(n, i, j)
    <2>1. n[i] = m[i] /\ \A k \in i + 1 .. j - 1 : n[k] = m[k]
      BY <1>2, <1>3
    <2> QED BY <2>1 DEF Precedes
  <1>5. ASSUME NEW j \in 1 .. Len(m), IsRecord(n[j])
        PROVE  InPlace(n, j)
    <2>1. InPlace(m, j) /\ \A i \in 1 .. j : n[i] = m[i]
      BY <1>2, <1>3, <1>5 DEF Whole
    <2>2. \A i \in 1 .. j - 1 : Precedes(m, i, j) <=> Precedes(n, i, j)
      BY <1>3, <1>4
    <2> QED BY <1>3, <2>1, <2>2 DEF InPlace
  <1>6. InPlace(n, l)
    <2>1. CASE part = "prefix" /\ Ended(m)
      <3>1. \A i \in 1 .. l - 1 : Precedes(n, i, l) => n[i].part = "newline"
        BY <1>2, <1>3, <1>4, <2>1 DEF Ended
      <3> QED BY <1>2, <2>1, <3>1 DEF InPlace
    <2>2. ASSUME NEW q \in {"prefix", "text"}, Reached(m, t, q), part = Following[q]
          PROVE  InPlace(n, l)
      <3>1. PICK i \in 1 .. Len(m) : Precedes(m, i, l) /\ Is(m[i], t, q)
        BY <1>3, <2>2 DEF Reached
      <3>2. i \in 1 .. l - 1 /\ Precedes(n, i, l) /\ n[i] = m[i]
        BY <1>2, <1>3, <1>4, <3>1
      <3>3. n[i].thread = t /\ n[i].part = q /\ part # "prefix"
        BY <2>2, <3>1, <3>2, Following3 DEF Is
      <3>4. n[l] = [thread |-> n[i].thread, part |-> Following[n[i].part]]
        BY <1>2, <2>2, <3>3
      <3> QED BY <1>2, <3>2, <3>3, <3>4 DEF InPlace
    <2> QED BY <2>1, <2>2, Following3
  <1>7. Precedes(n, l, l + 1)
    BY <1>1, <1>2, <1>3 DEF Precedes
  <1>8. Whole(n)
    BY <1>3, <1>5, <1>6 DEF Whole
  <1>9. Reached(n, t, part)
    BY <1>2, <1>3, <1>7 DEF Reached, Is
  <1>10. ASSUME part = "newline", NEW i \in 1 .. l, Precedes(n, i, l + 1)
         PROVE  n[i].part = "newline"
    <2>1. i = l
      BY <1>1, <1>2, <1>3, <1>10 DEF Precedes
    <2> QED BY <1>2, <1>10, <2>1
  <1> QED BY <1>2, <1>3, <1>8, <1>9, <1>10 DEF Ended

(* A heading stays free for its frames while no other frames of its thread *)
(* come after it.                                                          *)
LEMMA HeadedStays ==
  ASSUME NEW q, NEW r, NEW t, NEW i \in Nat, NEW j \in Nat, i <= j,
         \A k \in 1 .. i : r[k] = q[k],
         \A k \in i + 1 .. j : ~Is(r[k], t, "frames"),
         Headed(q, t, i)
  PROVE  Headed(r, t, j)
  <1>1. PICK h \in 1 .. i : /\ Is(q[h], t, "header")
                            /\ \A k \in h + 1 .. i : ~Is(q[k], t, "frames")
    BY DEF Headed
  <1>2. \A k \in h + 1 .. j : ~Is(r[k], t, "frames")
    BY <1>1
  <1> QED BY <1>1, <1>2 DEF Headed

LEMMA HeadedSpliced ==
  ASSUME NEW q, NEW r, NEW t, NEW l \in Nat, NEW p \in 0 .. l,
         \A i \in 1 .. p : r[i] = q[i],
         \A i \in p + 2 .. l + 1 : r[i] = q[i - 1],
         ~Is(r[p + 1], t, "frames"),
         Headed(q, t, l)
  PROVE  Headed(r, t, l + 1)
  <1>1. PICK h \in 1 .. l : /\ Is(q[h], t, "header")
                            /\ \A k \in h + 1 .. l : ~Is(q[k], t, "frames")
    BY DEF Headed
  <1> DEFINE g == IF h <= p THEN h ELSE h + 1
  <1>2. g \in 1 .. l + 1 /\ Is(r[g], t, "header")
    BY <1>1
  <1>3. ASSUME NEW k \in g + 1 .. l + 1
        PROVE  ~Is(r[k], t, "frames")
    <2>1. CASE k <= p
      BY <1>1, <2>1
    <2>2. CASE k = p + 1
      BY <2>2
    <2>3. CASE k > p + 1
      <3>1. r[k] = q[k - 1] /\ k - 1 \in h + 1 .. l
        BY <1>2, <2>3
      <3> QED BY <1>1, <3>1
    <2> QED BY <2>1, <2>2, <2>3
  <1> QED BY <1>2, <1>3 DEF Headed

-----------------------------------------------------------------------------
(* The inductive invariant.                                                *)
Stream(s) == file[s] \o buffer[s]

Opened ==
  /\ \A path \in Paths : ~open[path] => buffer[path] = <<>>
  /\ NoFileLeaked

Critical == {"prefix", "text", "newline", "unlock"}
Locked ==
  /\ fs # NULL => mutex # "none"
  /\ \A t \in Threads : mutex = t <=> pc[t] \in Critical
  /\ \A t \in Threads : pc[t] # "idle" => fs # NULL /\ open[fs]

Writing(s) == s = fs /\ \E t \in Threads : pc[t] \in {"text", "newline"}
Records ==
  /\ RecordsWhole
  /\ \A t \in Threads : pc[t] = "text" => Reached(Stream(fs), t, "prefix")
  /\ \A t \in Threads : pc[t] = "newline" => Reached(Stream(fs), t, "text")
  /\ \A s \in Streams : ~Writing(s) => Ended(Stream(s))

Traces ==
  /\ \A s \in Streams : \A i \in DOMAIN buffer[s] : buffer[s][i].part # "frames"
  /\ TraceUnderHeader
  /\ \A t \in Threads :
       /\ pc[t] = "headerflush" => Headed(Stream(fs), t, Len(Stream(fs)))
       /\ pc[t] = "frames" => Headed(file[fs], t, Len(file[fs]))

(* The newlines in a buffer are of threads that have not flushed them.     *)
Ends(q, t) == {i \in DOMAIN q : Is(q[i], t, "newline")}
Fresh ==
  \A s \in Streams, t \in Threads :
    /\ \A i, j \in Ends(buffer[s], t) : i = j
    /\ Ends(buffer[s], t) # {} => s = fs /\ pc[t] \in {"unlock", "flush"}

IInv == TypeOK /\ Opened /\ Locked /\ Records /\ Traces /\ Fresh

-----------------------------------------------------------------------------
(* What the calls of stdio do to the streams.                              *)
Piece(t, part) == [thread |-> t, part |-> part]

LEMMA Joined ==
  ASSUME NEW S, NEW f \in Seq(S), NEW b \in Seq(S), NEW m, m = f \o b
  PROVE  /\ m \in Seq(S)
         /\ Len(f) \in Nat /\ Len(b) \in Nat /\ Len(m) = Len(f) + Len(b)
         /\ DOMAIN f = 1 .. Len(f) /\ DOMAIN b = 1 .. Len(b) /\ DOMAIN m = 1 .. Len(m)
         /\ \A i \in 1 .. Len(f) : m[i] = f[i]
         /\ \A i \in 1 .. Len(b) : m[Len(f) + i] = b[i]
  <1>1. m \in Seq(S) /\ Len(m) = Len(f) + Len(b)
    BY ConcatProperties
  <1>2. \A i \in 1 .. Len(f) + Len(b) : m[i] = IF i <= Len(f) THEN f[i] ELSE b[i - Len(f)]
    BY ConcatProperties
  <1>3. /\ Len(f) \in Nat /\ Len(b) \in Nat
        /\ DOMAIN f = 1 .. Len(f) /\ DOMAIN b = 1 .. Len(b) /\ DOMAIN m = 1 .. Len(m)
    BY <1>1, LenProperties
  <1>4. \A i \in 1 .. Len(f) : m[i] = f[i]
    BY <1>2, <1>3
  <1>5. ASSUME NEW i \in 1 .. Len(b)
        PROVE  m[Len(f) + i] = b[i]
    <2>1. /\ Len(f) + i \in 1 .. Len(f) + Len(b) /\ ~(Len(f) + i <= Len(f))
          /\ (Len(f) + i) - Len(f) = i
      BY <1>3
    <2> QED BY <1>2, <2>1
  <1> QED BY <1>1, <1>3, <1>4, <1>5

LEMMA Appended ==
  ASSUME NEW S, NEW f \in Seq(S), NEW x \in S, NEW g, g = Append(f, x)
  PROVE  /\ g \in Seq(S) /\ Len(f) \in Nat /\ Len(g) = Len(f) + 1
         /\ DOMAIN f = 1 .. Len(f) /\ DOMAIN g = 1 .. Len(f) + 1
         /\ g[Len(f) + 1] = x
         /\ \A i \in 1 .. Len(f) : g[i] = f[i]
  <1>1. /\ g \in Seq(S) /\ Len(g) = Len(f) + 1 /\ g[Len(f) + 1] = x
        /\ \A i \in 1 .. Len(f) : g[i] = f[i]
    BY AppendProperties
  <1> QED BY <1>1, LenProperties

LEMMA AppendedToBoth ==
  ASSUME NEW S, NEW f \in Seq(S), NEW b \in Seq(S), NEW x \in S,
         NEW g, g = Append(b, x), NEW m, m = f \o b, NEW n, n = f \o g
  PROVE  n = Append(m, x)
  <1>1. f \o b \in Seq(S)
    BY ConcatProperties
  <1>2. Append(b, x) = b \o <<x>> /\ Append(f \o b, x) = (f \o b) \o <<x>>
    BY <1>1, AppendIsConcat
  <1>3. PICK w : w = <<x>>
    OBVIOUS
  <1>4. w \in Seq(S)
    BY <1>3
  <1>5. (f \o b) \o w = f \o (b \o w)
    BY <1>4, ConcatAssociative
  <1> QED BY <1>2, <1>3, <1>5

LEMMA Inserted ==
  ASSUME NEW S, NEW f \in Seq(S), NEW b \in Seq(S), NEW x \in S,
         NEW g, g = Append(f, x), NEW m, m = f \o b, NEW n, n = g \o b
  PROVE  /\ n \in Seq(S) /\ Len(n) = Len(m) + 1
         /\ n[Len(f) + 1] = x
         /\ \A i \in 1 .. Len(f) : n[i] = m[i]
         /\ \A i \in Len(f) + 2 .. Len(m) + 1 : n[i] = m[i - 1]
  <1>1. /\ g \in Seq(S) /\ Len(f) \in Nat /\ Len(g) = Len(f) + 1
        /\ g[Len(f) + 1] = x /\ \A i \in 1 .. Len(f) : g[i] = f[i]
    BY Appended
  <1>3. /\ n \in Seq(S) /\ Len(n) = Len(g) + Len(b) /\ Len(b) \in Nat
        /\ \A i \in 1 .. Len(g) : n[i] = g[i]
        /\ \A i \in 1 .. Len(b) : n[Len(g) + i] = b[i]
    BY <1>1, Joined
  <1>4. /\ Len(m) = Len(f) + Len(b)
        /\ \A i \in 1 .. Len(f) : m[i] = f[i]
        /\ \A i \in 1 .. Len(b) : m[Len(f) + i] = b[i]
    BY Joined
  <1>5. n[Len(f) + 1] = x /\ \A i \in 1 .. Len(f) : n[i] = m[i]
    BY <1>1, <1>3, <1>4
  <1>6. ASSUME NEW i \in Len(f) + 2 .. Len(m) + 1
        PROVE  n[i] = m[i - 1]
    <2> DEFINE h == i - Len(g)
    <2>1. h \in 1 .. Len(b) /\ Len(g) + h = i /\ Len(f) + h = i - 1
      BY <1>1, <1>3, <1>4
    <2> HIDE DEF h
    <2> QED BY <1>3, <1>4, <2>1
  <1> QED BY <1>1, <1>3, <1>4, <1>5, <1>6

LEMMA Typed ==
  ASSUME TypeOK, NEW s \in Streams
  PROVE  /\ file[s] \in Seq(Pieces) /\ buffer[s] \in Seq(Pieces)
         /\ Stream(s) \in Seq(Pieces)
  <1>1. file[s] \in Seq(Pieces) /\ buffer[s] \in Seq(Pieces)
    BY DEF TypeOK
  <1> QED BY <1>1, ConcatProperties DEF Stream

LEMMA Written ==
  ASSUME TypeOK, NEW s \in Streams, NEW t \in Threads, NEW part \in Parts,
         Write(s, t, part)
  PROVE  /\ buffer' \in [Streams -> Seq(Pieces)] /\ file' = file
         /\ buffer'[s] = Append(buffer[s], Piece(t, part))
         /\ Stream(s)' = Append(Stream(s), Piece(t, part))
         /\ \A r \in Streams \ {s} : buffer'[r] = buffer[r] /\ Stream(r)' = Stream(r)
  <1> DEFINE x == Piece(t, part)
  <1>1. x \in Pieces
    BY DEF Piece, Pieces
  <1>2. file[s] \in Seq(Pieces) /\ buffer[s] \in Seq(Pieces)
    BY DEF TypeOK
  <1>3. Append(buffer[s], x) \in Seq(Pieces)
    BY <1>1, <1>2, AppendProperties
  <1>4. buffer' = [buffer EXCEPT ![s] = Append(@, x)] /\ file' = file
    BY DEF Write, Piece
  <1>5. buffer \in [Streams -> Seq(Pieces)]
    BY DEF TypeOK
  <1>6. /\ buffer' \in [Streams -> Seq(Pieces)]
        /\ buffer'[s] = Append(buffer[s], x)
        /\ \A r \in Streams \ {s} : buffer'[r] = buffer[r]
    BY <1>3, <1>4, <1>5
  <1>7. PICK f, b, e, g, m, n :
          /\ f \in Seq(Pieces) /\ b \in Seq(Pieces) /\ e \in Pieces
          /\ f = file[s] /\ b = buffer[s] /\ e = x
          /\ g = buffer'[s] /\ m = Stream(s) /\ n = Stream(s)'
    BY <1>1, <1>2
  <1>8. g = Append(b, e) /\ m = f \o b /\ n = f \o g
    BY <1>4, <1>6, <1>7 DEF Stream
  <1>9. n = Append(m, e)
    BY <1>8, AppendedToBoth
  <1>10. Stream(s)' = Append(Stream(s), x)
    BY <1>7, <1>9
  <1>11. \A r \in Streams \ {s} : Stream(r)' = Stream(r)
    BY <1>4, <1>6 DEF Stream
  <1> QED BY <1>4, <1>6, <1>10, <1>11

LEMMA Drained ==
  ASSUME TypeOK, NEW s \in Streams, Drain(s)
  PROVE  /\ buffer' \in [Streams -> Seq(Pieces)]
         /\ file' \in [Streams -> Seq(Pieces)]
         /\ buffer'[s] = <<>> /\ file'[s] = Stream(s)
         /\ \A r \in Streams \ {s} : buffer'[r] = buffer[r] /\ file'[r] = file[r]
         /\ \A r \in Streams : Stream(r)' = Stream(r)
  <1>1. /\ file \in [Streams -> Seq(Pieces)] /\ buffer \in [Streams -> Seq(Pieces)]
        /\ Stream(s) \in Seq(Pieces) /\ <<>> \in Seq(Pieces)
    BY Typed, EmptySeq DEF TypeOK
  <1>2. /\ file' = [file EXCEPT ![s] = Stream(s)]
        /\ buffer' = [buffer EXCEPT ![s] = <<>>]
    BY DEF Drain, Stream
  <1>3. /\ buffer' \in [Streams -> Seq(Pieces)]
        /\ file' \in [Streams -> Seq(Pieces)]
        /\ buffer'[s] = <<>> /\ file'[s] = Stream(s)
        /\ \A r \in Streams \ {s} : buffer'[r] = buffer[r] /\ file'[r] = file[r]
    BY <1>1, <1>2
  <1>4. Stream(s) \o <<>> = Stream(s)
    BY <1>1, ConcatEmptySeq
  <1>5. Stream(s)' = Stream(s)
    BY <1>3, <1>4 DEF Stream
  <1>6. \A r \in Streams \ {s} : Stream(r)' = Stream(r)
    BY <1>3 DEF Stream
  <1> QED BY <1>3, <1>5, <1>6

(* backtrace_symbols_fd().                                                 *)
LEMMA Unbuffered ==
  ASSUME TypeOK, NEW s \in Streams, NEW x \in Pieces,
         file' = [file EXCEPT ![s] = Append(@, x)], buffer' = buffer
  PROVE  /\ file' \in [Streams -> Seq(Pieces)]
         /\ file'[s] = Append(file[s], x)
         /\ \A r \in Streams \ {s} : file'[r] = file[r] /\ Stream(r)' = Stream(r)
         /\ Stream(s)' \in Seq(Pieces)
         /\ Len(Stream(s)') = Len(Stream(s)) + 1
         /\ Stream(s)'[Len(file[s]) + 1] = x
         /\ \A i \in 1 .. Len(file[s]) : Stream(s)'[i] = Stream(s)[i]
         /\ \A i \in Len(file[s]) + 2 .. Len(Stream(s)) + 1 :
              Stream(s)'[i] = Stream(s)[i - 1]
  <1>1. file[s] \in Seq(Pieces) /\ buffer[s] \in Seq(Pieces)
    BY Typed
  <1>2. Append(file[s], x) \in Seq(Pieces)
    BY <1>1, AppendProperties
  <1>3. file \in [Streams -> Seq(Pieces)]
    BY DEF TypeOK
  <1>4. /\ file' \in [Streams -> Seq(Pieces)] /\ file'[s] = Append(file[s], x)
        /\ \A r \in Streams \ {s} : file'[r] = file[r]
    BY <1>2, <1>3
  <1>5. \A r \in Streams \ {s} : Stream(r)' = Stream(r)
    BY <1>4 DEF Stream
  <1>6. PICK f, b, g, m, n : /\ f = file[s] /\ b = buffer[s] /\ g = file'[s]
                             /\ m = Stream(s) /\ n = Stream(s)'
    OBVIOUS
  <1>7. f \in Seq(Pieces) /\ b \in Seq(Pieces)
    BY <1>1, <1>6
  <1>8. g = Append(f, x) /\ m = f \o b /\ n = g \o b
    BY <1>4, <1>6 DEF Stream
  <1>9. /\ n \in Seq(Pieces) /\ Len(n) = Len(m) + 1
        /\ n[Len(f) + 1] = x
        /\ \A i \in 1 .. Len(f) : n[i] = m[i]
        /\ \A i \in Len(f) + 2 .. Len(m) + 1 : n[i] = m[i - 1]
    BY <1>7, <1>8, Inserted
  <1> QED BY <1>4, <1>5, <1>6, <1>9

-----------------------------------------------------------------------------
(* The types.                                                              *)
LEMMA TypeInit == Init => TypeOK
  <1> SUFFICES ASSUME Init PROVE TypeOK
    OBVIOUS
  <1>1. <<>> \in Seq(Pieces)
    BY EmptySeq
  <1>2. buffer \in [Streams -> Seq(Pieces)] /\ file \in [Streams -> Seq(Pieces)]
    BY <1>1 DEF Init
  <1>3. need_to_close_fs \in BOOLEAN /\ ret \in BOOLEAN /\ open \in [Streams -> BOOLEAN]
    BY DEF Init
  <1>4. level \in [Threads -> Levels] /\ verbose \subseteq Levels
    BY DEF Init, Levels
  <1>5. records \in Nat /\ calls \in Nat
    BY DEF Init
  <1> QED BY <1>2, <1>3, <1>4, <1>5 DEF Init, TypeOK

LEMMA TypeStep == TypeOK /\ [Next]_vars => TypeOK'
  <1> SUFFICES ASSUME TypeOK, [Next]_vars PROVE TypeOK'
    OBVIOUS
  <1> USE LoggerAssumption DEF LoggerAssumption
  <1>0. Std \in Streams /\ Paths \subseteq Streams
    BY DEF Streams
  <1>1. CASE CloseInstead
    <2>1. fs \in Streams /\ Drain(fs)
      BY <1>1 DEF CloseInstead, TypeOK
    <2>2. buffer' \in [Streams -> Seq(Pieces)] /\ file' \in [Streams -> Seq(Pieces)]
      BY <2>1, Drained
    <2>3. open' \in [Streams -> BOOLEAN]
      BY <1>1 DEF CloseInstead, TypeOK
    <2>4. need_to_close_fs' \in BOOLEAN /\ ret' \in BOOLEAN
      BY <1>1 DEF CloseInstead
    <2> QED BY <1>1, <2>2, <2>3, <2>4 DEF CloseInstead, SetUp, TypeOK
  <1>2. CASE InitFstream
    <2>1. /\ buffer' \in [Streams -> Seq(Pieces)] /\ file' \in [Streams -> Seq(Pieces)]
          /\ open' \in [Streams -> BOOLEAN]
      <3>1. CASE fs # NULL /\ need_to_close_fs
        <4>1. fs \in Streams /\ Drain(fs)
          BY <1>2, <3>1 DEF InitFstream, CloseFile, TypeOK
        <4>2. buffer' \in [Streams -> Seq(Pieces)] /\ file' \in [Streams -> Seq(Pieces)]
          BY <4>1, Drained
        <4> QED BY <1>2, <3>1, <4>2 DEF InitFstream, CloseFile, TypeOK
      <3>2. CASE ~(fs # NULL /\ need_to_close_fs)
        BY <1>2, <3>2 DEF InitFstream, CloseFile, TypeOK
      <3> QED BY <3>1, <3>2
    <2>2. mutex' \in {"none", "free"} \cup Threads
      BY <1>2 DEF InitFstream, Initialized, TypeOK
    <2>3. need_to_close_fs' \in BOOLEAN /\ ret' \in BOOLEAN
      BY <1>2 DEF InitFstream, TypeOK
    <2> QED BY <1>0, <1>2, <2>1, <2>2, <2>3 DEF InitFstream, SetUp, TypeOK
  <1>3. CASE ClearSrc
    <2>1. fs \in Streams /\ Drain(fs)
      BY <1>3 DEF ClearSrc, TypeOK
    <2>2. buffer' \in [Streams -> Seq(Pieces)] /\ file' \in [Streams -> Seq(Pieces)]
      BY <2>1, Drained
    <2>3. open' \in [Streams -> BOOLEAN]
      BY <1>3 DEF ClearSrc, TypeOK
    <2> QED BY <1>3, <2>2, <2>3 DEF ClearSrc, SetUp, Cleared, TypeOK
  <1>4. ASSUME NEW path \in Paths, NEW create \in BOOLEAN, InitFileLog(path, create)
        PROVE  TypeOK'
    <2>1. <<>> \in Seq(Pieces)
      BY EmptySeq
    <2>2. /\ file \in [Streams -> Seq(Pieces)] /\ buffer \in [Streams -> Seq(Pieces)]
          /\ open \in [Streams -> BOOLEAN]
      BY DEF TypeOK
    <2>3. \/ /\ open' = [open EXCEPT ![path] = TRUE]
             /\ file' = [file EXCEPT ![path] = IF create THEN <<>> ELSE @]
             /\ buffer' = [buffer EXCEPT ![path] = <<>>]
          \/ UNCHANGED <<open, file, buffer>>
      BY <1>4 DEF InitFileLog
    <2>4. buffer' \in [Streams -> Seq(Pieces)] /\ open' \in [Streams -> BOOLEAN]
      BY <2>1, <2>2, <2>3
    <2>5. file' \in [Streams -> Seq(Pieces)]
      BY <2>1, <2>2, <2>3
    <2>6. mutex' \in {"none", "free"} \cup Threads
      BY <1>4 DEF InitFileLog, Initialized, TypeOK
    <2>7. fs' \in Streams \cup {NULL} /\ need_to_close_fs' \in BOOLEAN /\ ret' \in BOOLEAN
      BY <1>0, <1>4 DEF InitFileLog, TypeOK
    <2> QED BY <1>4, <2>4, <2>5, <2>6, <2>7 DEF InitFileLog, SetUp, TypeOK
  <1>5. ASSUME NEW levels \in SUBSET Levels, SetVerbosity(levels)
        PROVE  TypeOK'
    BY <1>5 DEF SetVerbosity, SetUp, TypeOK
  <1>6. ASSUME NEW t \in Threads, Lock(t)
        PROVE  TypeOK'
    BY <1>6 DEF Lock, Goto, TypeOK, setup
  <1>7. ASSUME NEW t \in Threads, Record(t)
        PROVE  TypeOK'
    <2>1. fs \in Streams \/ fs = NULL
      BY DEF TypeOK
    <2>2. pc[t] \in Parts /\ Write(fs, t, pc[t])
      BY <1>7 DEF Record, Goto, Parts
    <2>3. buffer' \in [Streams -> Seq(Pieces)]
      <3>1. CASE fs \in Streams
        BY <2>2, <3>1, Written
      <3>2. CASE fs = NULL
        BY <2>2, <3>2 DEF Write, TypeOK
      <3> QED BY <2>1, <3>1, <3>2
    <2>4. file' = file
      BY <2>2 DEF Write
    <2>5. pc' \in [Threads -> {"idle", "lock", "prefix", "text", "newline", "unlock",
                              "flush", "header", "headerflush", "frames"}]
      BY <1>7 DEF Record, Goto, TypeOK
    <2> QED BY <1>7, <2>3, <2>4, <2>5 DEF Record, TypeOK, setup
  <1>8. ASSUME NEW t \in Threads, Unlock(t)
        PROVE  TypeOK'
    BY <1>8 DEF Unlock, Released, Goto, TypeOK, setup
  <1>9. ASSUME NEW t \in Threads, Drain(fs), UNCHANGED <<setup, mutex, level, records>>,
               \E to \in {"idle", "header", "frames"} : pc' = [pc EXCEPT ![t] = to]
        PROVE  TypeOK'
    <2>1. buffer' \in [Streams -> Seq(Pieces)] /\ file' \in [Streams -> Seq(Pieces)]
      <3>1. CASE fs \in Streams
        BY <1>9, <3>1, Drained
      <3>2. CASE fs \notin Streams
        BY <1>9, <3>2 DEF Drain, TypeOK
      <3> QED BY <3>1, <3>2
    <2> QED BY <1>9, <2>1 DEF TypeOK, setup
  <1>10. ASSUME NEW t \in Threads, Flush(t) \/ HeaderFlush(t)
         PROVE  TypeOK'
    BY <1>9, <1>10 DEF Flush, Flushed, HeaderFlush, HeaderOut, Goto
  <1>11. ASSUME NEW t \in Threads, Header(t)
         PROVE  TypeOK'
    <2>1. "header" \in Parts /\ Write(fs, t, "header")
      BY <1>11 DEF Header, Parts
    <2>2. buffer' \in [Streams -> Seq(Pieces)]
      <3>1. CASE fs \in Streams
        BY <2>1, <3>1, Written
      <3>2. CASE fs \notin Streams
        BY <2>1, <3>2 DEF Write, TypeOK
      <3> QED BY <3>1, <3>2
    <2>3. file' = file
      BY <2>1 DEF Write
    <2> QED BY <1>11, <2>2, <2>3 DEF Header, Goto, TypeOK, setup
  <1>12. ASSUME NEW t \in Threads, Frames(t)
         PROVE  TypeOK'
    <2>1. Piece(t, "frames") \in Pieces
      BY DEF Piece, Pieces, Parts
    <2>2. file' = [file EXCEPT ![fs] = Append(@, Piece(t, "frames"))] /\ buffer' = buffer
      BY <1>12 DEF Frames, Piece
    <2>3. file' \in [Streams -> Seq(Pieces)]
      <3>1. CASE fs \in Streams
        BY <2>1, <2>2, <3>1, Unbuffered
      <3>2. CASE fs \notin Streams
        BY <2>2, <3>2 DEF TypeOK
      <3> QED BY <3>1, <3>2
    <2> QED BY <1>12, <2>2, <2>3 DEF Frames, Goto, TypeOK, setup
  <1>13. ASSUME NEW t \in Threads, NEW l \in Levels, Call(t, l)
         PROVE  TypeOK'
    BY <1>13 DEF Call, Goto, TypeOK, setup
  <1>14. CASE UNCHANGED vars
    BY <1>14 DEF vars, setup, TypeOK
  <1> QED BY <1>1, <1>2, <1>3, <1>4, <1>5, <1>6, <1>7, <1>8, <1>10, <1>11, <1>12,
             <1>13, <1>14 DEF Next, Program, Log

(* All variables keep their types, for any threads and files.              *)
THEOREM TypeCorrect == Spec => []TypeOK
  <1> QED BY TypeInit, TypeStep, PTL DEF Spec

-----------------------------------------------------------------------------
(* The set-up: what it leaves of the streams, which no thread uses then.   *)
Kept(s) == file'[s] = file[s] /\ buffer'[s] = buffer[s]
WrittenOut(s) == file'[s] = Stream(s) /\ buffer'[s] = <<>>
Emptied(s) == file'[s] = <<>> /\ buffer'[s] = <<>>

OneStream ==
  \E p \in Streams :
    /\ Kept(p) \/ WrittenOut(p) \/ Emptied(p)
    /\ \A s \in Streams \ {p} : Kept(s)

LEMMA DrainWritesOut ==
  ASSUME TypeOK, NEW s \in Streams, Drain(s)
  PROVE  WrittenOut(s) /\ \A r \in Streams \ {s} : Kept(r)
  BY Drained DEF WrittenOut, Kept

LEMMA SetUpEffect ==
  ASSUME TypeOK, Opened, Locked, Program
  PROVE  /\ \A t \in Threads : pc[t] = "idle" /\ pc'[t] = "idle"
         /\ OneStream
         /\ pc' = pc /\ UNCHANGED <<level, records>>
  <1> USE LoggerAssumption DEF LoggerAssumption
  <1>1. SetUp
    BY DEF Program, CloseInstead, InitFstream, ClearSrc, InitFileLog, SetVerbosity
  <1>2. pc' = pc /\ UNCHANGED <<level, records>> /\ \A t \in Threads : pc[t] = "idle"
    BY <1>1 DEF SetUp
  <1>3. ASSUME fs \in Streams, Drain(fs)
        PROVE  OneStream
    BY <1>3, DrainWritesOut DEF OneStream
  <1>4. ASSUME UNCHANGED <<file, buffer>>
        PROVE  OneStream
    <2>1. Std \in Streams
      BY DEF Streams
    <2> QED BY <1>4, <2>1 DEF Kept, OneStream
  <1>5. CASE CloseInstead \/ ClearSrc
    BY <1>2, <1>3, <1>5 DEF CloseInstead, ClearSrc, TypeOK
  <1>6. CASE InitFstream
    BY <1>2, <1>3, <1>4, <1>6 DEF InitFstream, CloseFile, TypeOK
  <1>7. ASSUME NEW levels \in SUBSET Levels, SetVerbosity(levels)
        PROVE  OneStream
    BY <1>4, <1>7 DEF SetVerbosity
  <1>8. ASSUME NEW path \in Paths, NEW create \in BOOLEAN, InitFileLog(path, create)
        PROVE  OneStream
    <2>1. CASE UNCHANGED <<open, file, buffer>>
      BY <1>4, <2>1
    <2>2. CASE /\ open' = [open EXCEPT ![path] = TRUE]
               /\ file' = [file EXCEPT ![path] = IF create THEN <<>> ELSE @]
               /\ buffer' = [buffer EXCEPT ![path] = <<>>]
      <3>1. path \in Streams
        BY DEF Streams
      <3>2. buffer[path] = <<>>
        <4>1. path # NULL /\ open[path] \in BOOLEAN
          BY <3>1 DEF TypeOK
        <4>2. ~open[path]
          BY <1>8, <4>1 DEF InitFileLog, Opened, NoFileLeaked
        <4> QED BY <4>2 DEF Opened
      <3>3. file \in [Streams -> Seq(Pieces)] /\ buffer \in [Streams -> Seq(Pieces)]
        BY DEF TypeOK
      <3>4. \A s \in Streams \ {path} : Kept(s)
        BY <2>2, <3>1, <3>3 DEF Kept
      <3>5. Kept(path) \/ Emptied(path)
        BY <2>2, <3>1, <3>2, <3>3 DEF Kept, Emptied
      <3> QED BY <3>1, <3>4, <3>5 DEF OneStream
    <2> QED BY <1>8, <2>1, <2>2 DEF InitFileLog
  <1> QED BY <1>2, <1>5, <1>6, <1>7, <1>8 DEF Program

LEMMA OpenedInit == Init => Opened /\ Locked
  <1> SUFFICES ASSUME Init PROVE Opened /\ Locked
    OBVIOUS
  <1> USE LoggerAssumption DEF LoggerAssumption
  <1>1. \A path \in Paths : path \in Streams /\ open[path] = FALSE /\ buffer[path] = <<>>
    BY DEF Init, Streams
  <1> QED BY <1>1 DEF Init, Opened, NoFileLeaked, Locked, Critical

LEMMA OpenedStep == TypeOK /\ Opened /\ Locked /\ [Next]_vars => Opened'
  <1> SUFFICES ASSUME TypeOK, Opened, Locked, [Next]_vars PROVE Opened'
    OBVIOUS
  <1> USE LoggerAssumption DEF LoggerAssumption
  <1>0. /\ open \in [Streams -> BOOLEAN] /\ Paths \subseteq Streams
        /\ buffer \in [Streams -> Seq(Pieces)]
        /\ fs \in Streams \cup {NULL}
    BY DEF TypeOK, Streams
  <1>1. ASSUME fs \in Streams, Drain(fs), NEW path \in Paths, buffer[path] = <<>> \/ path = fs
        PROVE  buffer'[path] = <<>>
    BY <1>0, <1>1, Drained
  <1>2. CASE CloseInstead
    BY <1>0, <1>1, <1>2 DEF CloseInstead, Opened, NoFileLeaked
  <1>3. CASE InitFstream
    <2>1. CASE fs # NULL /\ need_to_close_fs
      BY <1>0, <1>1, <1>3, <2>1 DEF InitFstream, CloseFile, Opened, NoFileLeaked
    <2>2. CASE ~(fs # NULL /\ need_to_close_fs)
      BY <1>0, <1>3, <2>2 DEF InitFstream, CloseFile, Opened, NoFileLeaked
    <2> QED BY <2>1, <2>2
  <1>4. CASE ClearSrc
    BY <1>0, <1>1, <1>4 DEF ClearSrc, Opened, NoFileLeaked
  <1>5. ASSUME NEW path \in Paths, NEW create \in BOOLEAN, InitFileLog(path, create)
        PROVE  Opened'
    <2>1. \A p \in Paths : p # NULL
      BY <1>0
    <2>2. \A p \in Paths : ~open[p]
      BY <1>5, <2>1 DEF InitFileLog, Opened, NoFileLeaked
    <2>3. \A p \in Paths : ~open[p] /\ buffer[p] = <<>>
      BY <2>2 DEF Opened
    <2> QED BY <1>0, <1>5, <2>3 DEF InitFileLog, Opened, NoFileLeaked
  <1>6. ASSUME NEW levels \in SUBSET Levels, SetVerbosity(levels)
        PROVE  Opened'
    BY <1>6 DEF SetVerbosity, Opened, NoFileLeaked
  <1>7. ASSUME NEW t \in Threads, pc[t] # "idle", UNCHANGED setup,
               Drain(fs) \/ (\E part : Write(fs, t, part))
        PROVE  Opened'
    <2>1. fs \in Streams /\ open[fs]
      BY <1>0, <1>7 DEF Locked
    <2>2. \A path \in Paths : ~open[path] => path # fs /\ buffer'[path] = buffer[path]
      <3>1. CASE Drain(fs)
        BY <1>0, <2>1, <3>1, Drained
      <3>2. CASE \E part : Write(fs, t, part)
        BY <1>0, <2>1, <3>2 DEF Write
      <3> QED BY <1>7, <3>1, <3>2
    <2> QED BY <1>7, <2>2 DEF Opened, NoFileLeaked, setup
  <1>8. ASSUME NEW t \in Threads, Log(t)
        PROVE  Opened'
    <2>1. CASE UNCHANGED <<setup, buffer>>
      BY <2>1 DEF Opened, NoFileLeaked, setup
    <2> QED BY <1>7, <1>8, <2>1 DEF Log, Lock, Record, Unlock, Flush, Flushed, Header,
                                   HeaderFlush, HeaderOut, Frames, Goto
  <1>9. ASSUME NEW t \in Threads, NEW l \in Levels, Call(t, l)
        PROVE  Opened'
    BY <1>9 DEF Call, Opened, NoFileLeaked, setup
  <1>10. CASE UNCHANGED vars
    BY <1>10 DEF vars, setup, Opened, NoFileLeaked
  <1> QED BY <1>2, <1>3, <1>4, <1>5, <1>6, <1>8, <1>9, <1>10 DEF Next, Program

LEMMA LockedStep == TypeOK /\ Locked /\ [Next]_vars => Locked'
  <1> SUFFICES ASSUME TypeOK, Locked, [Next]_vars PROVE Locked'
    OBVIOUS
  <1> USE LoggerAssumption DEF LoggerAssumption
  <1>0. /\ pc \in [Threads -> {"idle", "lock", "prefix", "text", "newline", "unlock",
                               "flush", "header", "headerflush", "frames"}]
        /\ mutex \in {"none", "free"} \cup Threads /\ NULL \notin Streams
        /\ "none" \notin Threads /\ "free" \notin Threads
    BY DEF TypeOK
  <1>1. CASE Program
    <2>1. pc' = pc /\ \A t \in Threads : pc[t] = "idle"
      BY <1>1 DEF Program, CloseInstead, InitFstream, ClearSrc, InitFileLog, SetVerbosity,
                  SetUp
    <2>2. mutex \notin Threads
      BY <2>1 DEF Locked, Critical
    <2>3. mutex' \in {mutex, "none", "free"} /\ (fs' # NULL => mutex' # "none")
      BY <1>1, <2>2 DEF Program, CloseInstead, InitFstream, ClearSrc, InitFileLog,
                        SetVerbosity, Initialized, Cleared, Locked
    <2> QED BY <1>0, <2>1, <2>2, <2>3 DEF Locked, Critical
  <1>2. ASSUME NEW t \in Threads, NEW to, pc[t] # "idle", pc' = [pc EXCEPT ![t] = to],
               UNCHANGED <<setup, mutex>>, to \in Critical <=> pc[t] \in Critical
        PROVE  Locked'
    BY <1>0, <1>2 DEF Locked, setup
  <1>3. ASSUME NEW t \in Threads, Record(t) \/ Flush(t) \/ Header(t) \/ HeaderFlush(t)
                                  \/ Frames(t)
        PROVE  Locked'
    BY <1>2, <1>3 DEF Record, Flush, Header, HeaderFlush, Frames, Goto, Critical
  <1>4. ASSUME NEW t \in Threads, Lock(t)
        PROVE  Locked'
    BY <1>0, <1>4 DEF Lock, CanLock, Goto, Locked, Critical, setup
  <1>5. ASSUME NEW t \in Threads, Unlock(t)
        PROVE  Locked'
    BY <1>0, <1>5 DEF Unlock, Released, Goto, Locked, Critical, setup
  <1>6. ASSUME NEW t \in Threads, NEW l \in Levels, Call(t, l)
        PROVE  Locked'
    BY <1>0, <1>6 DEF Call, Goto, Locked, Critical, setup
  <1>7. CASE UNCHANGED vars
    BY <1>7 DEF vars, setup, Locked
  <1> QED BY <1>1, <1>3, <1>4, <1>5, <1>6, <1>7 DEF Next, Log

(* For any threads, files and order of set-up calls, a thread that logs    *)
(* finds the mutex initialised ...                                         *)
THEOREM MutexStaysUsable == Spec => []MutexUsable
  <1>1. TypeOK /\ Opened /\ Locked => MutexUsable
    BY DEF Locked, MutexUsable
  <1> QED BY <1>1, TypeInit, TypeStep, OpenedInit, OpenedStep, LockedStep, PTL DEF Spec

(* ... and the library leaves no file open behind the current stream.      *)
THEOREM FilesAreClosed == Spec => []NoFileLeaked
  <1>1. TypeOK /\ Opened /\ Locked => NoFileLeaked
    BY DEF Opened
  <1> QED BY <1>1, TypeInit, TypeStep, OpenedInit, OpenedStep, LockedStep, PTL DEF Spec

-----------------------------------------------------------------------------
(* The records.                                                            *)
LEMMA EmptyIsWhole == Whole(<<>>) /\ Ended(<<>>)
  BY DEF Whole, Ended

LEMMA RecordsInit == Init => Records
  <1> SUFFICES ASSUME Init PROVE Records
    OBVIOUS
  <1>1. \A s \in Streams : Stream(s) = <<>>
    <2>1. \A s \in Streams : file[s] = <<>> /\ buffer[s] = <<>>
      BY DEF Init
    <2>2. \A f, b : f = <<>> /\ b = <<>> => f \o b = <<>>
      OBVIOUS
    <2> QED BY <2>1, <2>2 DEF Stream
  <1>2. \A t \in Threads : pc[t] = "idle"
    BY DEF Init
  <1> QED BY <1>1, <1>2, EmptyIsWhole DEF Records, RecordsWhole, Stream

(* Streams that keep what they hold, whoever writes it out, keep their     *)
(* records while the thread that writes one stays where it is.             *)
LEMMA RecordsStay ==
  ASSUME Records,
         \A s \in Streams : Stream(s)' = Stream(s),
         \A t \in Threads : /\ pc'[t] = "text" <=> pc[t] = "text"
                            /\ pc'[t] = "newline" <=> pc[t] = "newline",
         fs' = fs \/ \A t \in Threads : pc[t] \notin {"text", "newline"},
         \A t \in Threads : pc[t] # "idle" => fs \in Streams
  PROVE  Records'
  <1>1. RecordsWhole'
    BY DEF Records, RecordsWhole, Stream
  <1>2. ASSUME NEW t \in Threads, pc'[t] \in {"text", "newline"}
        PROVE  pc'[t] = pc[t] /\ fs' = fs /\ Stream(fs)' = Stream(fs)
    <2>1. pc'[t] = pc[t] /\ fs' = fs /\ fs \in Streams
      BY <1>2
    <2>2. \A s \in Streams : file'[s] \o buffer'[s] = file[s] \o buffer[s]
      BY DEF Stream
    <2>3. file'[fs'] \o buffer'[fs'] = file[fs] \o buffer[fs]
      BY <2>1, <2>2
    <2> QED BY <2>1, <2>3 DEF Stream
  <1>3. ASSUME NEW t \in Threads
        PROVE  /\ pc'[t] = "text" => Reached(Stream(fs)', t, "prefix")
               /\ pc'[t] = "newline" => Reached(Stream(fs)', t, "text")
    BY <1>2 DEF Records
  <1>4. ASSUME NEW s \in Streams, ~Writing(s)'
        PROVE  Ended(Stream(s)')
    <2>1. ~Writing(s)
      BY <1>4 DEF Writing
    <2> QED BY <2>1 DEF Records
  <1> QED BY <1>1, <1>3, <1>4 DEF Records, Reached, Ended

(* print_prefix(), vfprintf() and the newline come under the mutex.        *)
LEMMA RecordsGrow ==
  ASSUME TypeOK, Locked, Records, NEW t \in Threads, Record(t)
  PROVE  Records'
  <1> USE LoggerAssumption DEF LoggerAssumption
  <1>1. /\ fs \in Streams /\ fs' = fs /\ pc[t] \in Parts
        /\ Write(fs, t, pc[t])
        /\ mutex = t /\ \A r \in Threads \ {t} : pc[r] \notin Critical
        /\ pc \in [Threads -> {"idle", "lock", "prefix", "text", "newline", "unlock",
                               "flush", "header", "headerflush", "frames"}]
    BY DEF Record, Goto, Locked, Critical, Parts, TypeOK, setup
  <1>2. /\ Stream(fs)' = Append(Stream(fs), Piece(t, pc[t]))
        /\ \A r \in Streams \ {fs} : Stream(r)' = Stream(r)
    <2>1. PICK s \in Streams : s = fs
      BY <1>1
    <2>2. /\ Stream(s)' = Append(Stream(s), Piece(t, pc[t]))
          /\ \A r \in Streams \ {s} : Stream(r)' = Stream(r)
      BY <1>1, <2>1, Written
    <2> QED BY <1>1, <2>1, <2>2 DEF Stream
  <1>3. /\ Stream(fs) \in Seq(Pieces) /\ Whole(Stream(fs))
        /\ \/ pc[t] = "prefix" /\ Ended(Stream(fs))
           \/ pc[t] = "text" /\ Reached(Stream(fs), t, "prefix")
           \/ pc[t] = "newline" /\ Reached(Stream(fs), t, "text")
    <2>1. Stream(fs) \in Seq(Pieces) /\ Whole(Stream(fs))
      BY <1>1, Typed DEF Records, RecordsWhole, Stream
    <2>2. CASE pc[t] = "prefix"
      <3>1. ~Writing(fs)
        BY <1>1, <2>2 DEF Writing, Critical
      <3> QED BY <1>1, <2>1, <2>2, <3>1 DEF Records
    <2> QED BY <2>1, <2>2 DEF Records, Record, Goto
  <1>4. PICK m, n, part : m = Stream(fs) /\ n = Stream(fs)' /\ part = pc[t]
    OBVIOUS
  <1>5. n = Append(m, [thread |-> t, part |-> part])
    BY <1>2, <1>4 DEF Piece
  <1>6. /\ Whole(n) /\ Reached(n, t, part)
        /\ part = "newline" => Ended(n)
    <2>1. m \in Seq(Pieces) /\ part \in Parts /\ Whole(m)
      BY <1>1, <1>3, <1>4
    <2>2. \/ part = "prefix" /\ Ended(m)
          \/ part = "text" /\ Reached(m, t, "prefix")
          \/ part = "newline" /\ Reached(m, t, "text")
      BY <1>3, <1>4
    <2> QED BY <1>5, <2>1, <2>2, RecordAppended
  <1>7. /\ \/ part = "prefix" /\ pc'[t] = "text"
           \/ part = "text" /\ pc'[t] = "newline"
           \/ part = "newline" /\ pc'[t] = "unlock"
        /\ \A r \in Threads \ {t} : pc'[r] = pc[r]
    BY <1>1, <1>4 DEF Record, Goto
  <1>8. RecordsWhole'
    <2>1. \A s \in Streams : Whole(Stream(s)')
      BY <1>1, <1>2, <1>4, <1>6 DEF Records, RecordsWhole, Stream
    <2> QED BY <2>1 DEF RecordsWhole, Stream
  <1>9. ASSUME NEW r \in Threads
        PROVE  /\ pc'[r] = "text" => Reached(Stream(fs)', r, "prefix")
               /\ pc'[r] = "newline" => Reached(Stream(fs)', r, "text")
    <2>1. CASE r = t
      BY <1>4, <1>6, <1>7, <2>1
    <2>2. CASE r # t
      BY <1>1, <1>7, <2>2 DEF Critical
    <2> QED BY <2>1, <2>2
  <1>10. ASSUME NEW s \in Streams, ~Writing(s)'
         PROVE  Ended(Stream(s)')
    <2>1. CASE s = fs
      <3>1. part = "newline"
        BY <1>1, <1>7, <1>10, <2>1 DEF Writing
      <3> QED BY <1>1, <1>4, <1>6, <2>1, <3>1 DEF Stream
    <2>2. CASE s # fs
      BY <1>2, <2>2 DEF Records, Writing
    <2> QED BY <2>1, <2>2
  <1> QED BY <1>8, <1>9, <1>10 DEF Records, Reached, Ended

(* A backtrace is no part of a record, wherever it comes to stand.         *)
LEMMA RecordsSpliced ==
  ASSUME TypeOK, Locked, Records, NEW t \in Threads, Header(t) \/ Frames(t)
  PROVE  Records'
  <1>1. fs \in Streams /\ fs' = fs
    BY LoggerAssumption DEF LoggerAssumption, Header, Frames, Goto, Locked, TypeOK, setup
  <1>2. \A r \in Threads : /\ pc'[r] = "text" <=> pc[r] = "text"
                           /\ pc'[r] = "newline" <=> pc[r] = "newline"
    BY DEF Header, Frames, Goto, TypeOK
  <1>3. PICK s, m, n : s \in Streams /\ s = fs /\ m = Stream(s) /\ n = Stream(s)'
    BY <1>1
  <1>4. m \in Seq(Pieces)
    BY <1>3, Typed
  <1>5. /\ \A r \in Streams \ {s} : Stream(r)' = Stream(r)
        /\ n \in Seq(Pieces) /\ Len(n) = Len(m) + 1
        /\ \E p \in 0 .. Len(m) :
             /\ ~IsRecord(n[p + 1])
             /\ \A i \in 1 .. p : n[i] = m[i]
             /\ \A i \in p + 2 .. Len(m) + 1 : n[i] = m[i - 1]
    <2>1. CASE Header(t)
      <3>1. "header" \in Parts /\ Write(s, t, "header")
        BY <1>3, <2>1 DEF Header, Parts
      <3>2. PICK x : x = Piece(t, "header")
        OBVIOUS
      <3>3. x \in Pieces /\ ~IsRecord(x)
        BY <3>1, <3>2 DEF Piece, Pieces, IsRecord
      <3>4. n = Append(m, x) /\ \A r \in Streams \ {s} : Stream(r)' = Stream(r)
        BY <1>3, <3>1, <3>2, Written
      <3>5. /\ n \in Seq(Pieces) /\ Len(m) \in Nat /\ Len(n) = Len(m) + 1
            /\ n[Len(m) + 1] = x /\ \A i \in 1 .. Len(m) : n[i] = m[i]
        BY <1>4, <3>3, <3>4, Appended
      <3> QED BY <3>3, <3>4, <3>5
    <2>2. CASE Frames(t)
      <3>1. PICK x : x = Piece(t, "frames")
        OBVIOUS
      <3>2. x \in Pieces /\ ~IsRecord(x)
        BY <3>1 DEF Piece, Pieces, IsRecord, Parts
      <3>3. file' = [file EXCEPT ![s] = Append(@, x)] /\ buffer' = buffer
        BY <1>3, <2>2, <3>1 DEF Frames, Piece
      <3>4. /\ \A r \in Streams \ {s} : Stream(r)' = Stream(r)
            /\ n \in Seq(Pieces) /\ Len(n) = Len(m) + 1
            /\ n[Len(file[s]) + 1] = x
            /\ \A i \in 1 .. Len(file[s]) : n[i] = m[i]
            /\ \A i \in Len(file[s]) + 2 .. Len(m) + 1 : n[i] = m[i - 1]
        BY <1>3, <3>2, <3>3, Unbuffered
      <3>5. Len(file[s]) \in 0 .. Len(m)
        <4>1. file[s] \in Seq(Pieces) /\ buffer[s] \in Seq(Pieces) /\ m = file[s] \o buffer[s]
          BY <1>3, Typed DEF Stream
        <4>2. PICK f, b : f = file[s] /\ b = buffer[s]
          OBVIOUS
        <4>3. Len(f) \in Nat /\ Len(b) \in Nat /\ Len(m) = Len(f) + Len(b)
          BY <4>1, <4>2, Joined
        <4>4. Len(f) \in 0 .. Len(m)
          BY <4>3
        <4> QED BY <4>2, <4>4
      <3> QED BY <3>2, <3>4, <3>5
    <2> QED BY <2>1, <2>2
  <1>6. /\ Whole(m) => Whole(n)
        /\ Ended(m) => Ended(n)
        /\ \A r \in Threads, part \in Parts : Reached(m, r, part) => Reached(n, r, part)
    BY <1>4, <1>5, Spliced
  <1>7. Stream(fs) = m /\ Stream(fs)' = n
    BY <1>1, <1>3 DEF Stream
  <1>8. RecordsWhole'
    <2>1. \A r \in Streams : Whole(Stream(r)')
      BY <1>3, <1>5, <1>6 DEF Records, RecordsWhole, Stream
    <2> QED BY <2>1 DEF RecordsWhole, Stream
  <1>9. ASSUME NEW r \in Threads
        PROVE  /\ pc'[r] = "text" => Reached(n, r, "prefix")
               /\ pc'[r] = "newline" => Reached(n, r, "text")
    BY <1>2, <1>6, <1>7 DEF Records, Parts
  <1>10. ASSUME NEW r \in Streams, ~Writing(r)'
         PROVE  Ended(Stream(r)')
    <2>1. ~Writing(r)
      BY <1>1, <1>2, <1>10 DEF Writing
    <2>2. Ended(Stream(r))
      BY <2>1 DEF Records
    <2> QED BY <1>3, <1>5, <1>6, <2>2
  <1> QED BY <1>7, <1>8, <1>9, <1>10 DEF Records, Reached, Ended

LEMMA KeptOrWrittenOut ==
  ASSUME TypeOK, NEW s \in Streams, Kept(s) \/ WrittenOut(s)
  PROVE  Stream(s)' = Stream(s)
  <1>1. CASE Kept(s)
    BY <1>1 DEF Kept, Stream
  <1>2. CASE WrittenOut(s)
    <2>1. Stream(s) \in Seq(Pieces)
      BY Typed
    <2>2. Stream(s) \o <<>> = Stream(s)
      BY <2>1, ConcatEmptySeq
    <2> QED BY <1>2, <2>2 DEF WrittenOut, Stream
  <1> QED BY <1>1, <1>2

LEMMA EmptiedIsEmpty ==
  ASSUME NEW s \in Streams, Emptied(s)
  PROVE  Stream(s)' = <<>>
  <1>1. \A f, b : f = <<>> /\ b = <<>> => f \o b = <<>>
    OBVIOUS
  <1> QED BY <1>1 DEF Emptied, Stream

LEMMA RecordsStep ==
  TypeOK /\ Opened /\ Locked /\ Records /\ [Next]_vars => Records'
  <1> SUFFICES ASSUME TypeOK, Opened, Locked, Records, [Next]_vars PROVE Records'
    OBVIOUS
  <1>0. \A t \in Threads : pc[t] # "idle" => fs \in Streams
    BY DEF Locked, TypeOK
  <1>1. CASE Program
    <2>1. \A t \in Threads : pc[t] = "idle" /\ pc'[t] = "idle"
      BY <1>1, SetUpEffect
    <2>2. \A s \in Streams : Ended(Stream(s)) /\ Whole(Stream(s))
      BY <2>1 DEF Records, RecordsWhole, Writing, Stream
    <2>3. ASSUME NEW s \in Streams
          PROVE  Ended(Stream(s)') /\ Whole(Stream(s)')
      <3>1. Kept(s) \/ WrittenOut(s) \/ Emptied(s)
        BY <1>1, SetUpEffect DEF OneStream
      <3>2. Stream(s)' = Stream(s) \/ Stream(s)' = <<>>
        BY <3>1, KeptOrWrittenOut, EmptiedIsEmpty
      <3> QED BY <2>2, <3>2, EmptyIsWhole
    <2> QED BY <2>1, <2>3 DEF Records, RecordsWhole, Stream, Ended, Reached
  <1>2. ASSUME NEW t \in Threads, Lock(t) \/ Unlock(t)
        PROVE  Records'
    <2>1. \A s \in Streams : Stream(s)' = Stream(s)
      BY <1>2 DEF Lock, Unlock, Stream
    <2>2. \A r \in Threads : /\ pc'[r] = "text" <=> pc[r] = "text"
                             /\ pc'[r] = "newline" <=> pc[r] = "newline"
      BY <1>2 DEF Lock, Unlock, Goto, TypeOK
    <2>3. fs' = fs
      BY <1>2 DEF Lock, Unlock, setup
    <2> QED BY <1>0, <2>1, <2>2, <2>3, RecordsStay
  <1>3. ASSUME NEW t \in Threads, Flush(t) \/ HeaderFlush(t)
        PROVE  Records'
    <2>1. fs \in Streams /\ Drain(fs) /\ fs' = fs
      BY <1>0, <1>3 DEF Flush, Flushed, HeaderFlush, HeaderOut, Goto, setup
    <2>2. \A s \in Streams : Stream(s)' = Stream(s)
      BY <2>1, Drained
    <2>3. \A r \in Threads : /\ pc'[r] = "text" <=> pc[r] = "text"
                             /\ pc'[r] = "newline" <=> pc[r] = "newline"
      BY <1>3 DEF Flush, HeaderFlush, Goto, TypeOK
    <2> QED BY <1>0, <2>1, <2>2, <2>3, RecordsStay
  <1>4. ASSUME NEW t \in Threads, NEW l \in Levels, Call(t, l)
        PROVE  Records'
    <2>1. \A s \in Streams : Stream(s)' = Stream(s)
      BY <1>4 DEF Call, Stream
    <2>2. \A r \in Threads : /\ pc'[r] = "text" <=> pc[r] = "text"
                             /\ pc'[r] = "newline" <=> pc[r] = "newline"
      BY <1>4 DEF Call, Goto, TypeOK
    <2>3. fs' = fs
      BY <1>4 DEF Call, setup
    <2> QED BY <1>0, <2>1, <2>2, <2>3, RecordsStay
  <1>5. CASE UNCHANGED vars
    <2>1. \A s \in Streams : Stream(s)' = Stream(s)
      BY <1>5 DEF vars, Stream
    <2>2. pc' = pc /\ fs' = fs
      BY <1>5 DEF vars, setup
    <2> QED BY <1>0, <2>1, <2>2, RecordsStay
  <1> QED BY <1>1, <1>2, <1>3, <1>4, <1>5, RecordsGrow, RecordsSpliced DEF Next, Log

(* For any threads, files and schedule, records never mix in a stream.     *)
THEOREM RecordsStayWhole == Spec => []RecordsWhole
  <1>1. Records => RecordsWhole
    BY DEF Records
  <1> QED BY <1>1, TypeInit, TypeStep, OpenedInit, OpenedStep, LockedStep, RecordsInit,
             RecordsStep, PTL DEF Spec

-----------------------------------------------------------------------------
(* The stack traces.                                                       *)
Traced(q) ==
  \A t \in Threads : \A i \in DOMAIN q :
    Is(q[i], t, "frames") => Headed(q, t, i - 1)
NoFrames(q) == \A i \in DOMAIN q : q[i].part # "frames"

LEMMA TracesAre ==
  Traces <=>
    /\ \A s \in Streams : NoFrames(buffer[s]) /\ Traced(file[s])
    /\ \A t \in Threads :
         /\ pc[t] = "headerflush" => Headed(Stream(fs), t, Len(Stream(fs)))
         /\ pc[t] = "frames" => Headed(file[fs], t, Len(file[fs]))
  BY DEF Traces, NoFrames, TraceUnderHeader, Traced

LEMMA NextTracesAre ==
  Traces' <=>
    /\ \A s \in Streams : NoFrames(buffer'[s]) /\ Traced(file'[s])
    /\ \A t \in Threads :
         /\ pc'[t] = "headerflush" => Headed(Stream(fs)', t, Len(Stream(fs)'))
         /\ pc'[t] = "frames" => Headed(file'[fs'], t, Len(file'[fs']))
  BY DEF Traces, NoFrames, TraceUnderHeader, Traced, Headed

LEMMA EmptyHasNoFrames == NoFrames(<<>>) /\ Traced(<<>>)
  BY DEF NoFrames, Traced

LEMMA TracedWhenWrittenOut ==
  ASSUME NEW f \in Seq(Pieces), NEW b \in Seq(Pieces), NEW m, m = f \o b, NoFrames(b)
  PROVE  /\ Traced(f) => Traced(m)
         /\ \A t \in Threads : Headed(f, t, Len(f)) => Headed(m, t, Len(m))
  <1>1. /\ Len(f) \in Nat /\ Len(b) \in Nat /\ Len(m) = Len(f) + Len(b)
        /\ DOMAIN f = 1 .. Len(f) /\ DOMAIN b = 1 .. Len(b) /\ DOMAIN m = 1 .. Len(m)
        /\ \A i \in 1 .. Len(f) : m[i] = f[i]
        /\ \A i \in 1 .. Len(b) : m[Len(f) + i] = b[i]
    BY Joined
  <1>2. ASSUME NEW t \in Threads, NEW i \in Len(f) + 1 .. Len(m)
        PROVE  ~Is(m[i], t, "frames")
    <2>1. PICK h \in 1 .. Len(b) : i = Len(f) + h
      <3>1. i - Len(f) \in 1 .. Len(b) /\ i = Len(f) + (i - Len(f))
        BY <1>1
      <3> QED BY <3>1
    <2>2. m[i] = b[h] /\ b[h].part # "frames"
      BY <1>1, <2>1 DEF NoFrames
    <2> QED BY <2>2 DEF Is
  <1>3. ASSUME Traced(f), NEW t \in Threads, NEW i \in 1 .. Len(m), Is(m[i], t, "frames")
        PROVE  Headed(m, t, i - 1)
    <2>1. i \in 1 .. Len(f)
      BY <1>1, <1>2, <1>3
    <2>2. Headed(f, t, i - 1)
      BY <1>1, <1>3, <2>1 DEF Traced
    <2>3. PICK c \in Nat : c = i - 1
      BY <2>1
    <2>4. /\ \A k \in 1 .. c : m[k] = f[k]
          /\ \A k \in c + 1 .. c : ~Is(m[k], t, "frames")
      BY <1>1, <2>1, <2>3
    <2>5. Headed(f, t, c) /\ c <= c
      BY <2>2, <2>3
    <2>6. Headed(m, t, c)
      BY <2>4, <2>5, HeadedStays
    <2> QED BY <2>3, <2>6
  <1>4. ASSUME NEW t \in Threads, Headed(f, t, Len(f))
        PROVE  Headed(m, t, Len(m))
    <2>1. Len(f) <= Len(m) /\ Len(m) \in Nat /\ Len(f) \in Nat
      BY <1>1
    <2> QED BY <1>1, <1>2, <1>4, <2>1, HeadedStays
  <1> QED BY <1>1, <1>3, <1>4 DEF Traced

LEMMA TracesInit == Init => Traces
  <1> SUFFICES ASSUME Init PROVE Traces
    OBVIOUS
  <1>1. \A s \in Streams : file[s] = <<>> /\ buffer[s] = <<>>
    BY DEF Init
  <1>2. \A t \in Threads : pc[t] = "idle"
    BY DEF Init
  <1> QED BY <1>1, <1>2, EmptyHasNoFrames, TracesAre

(* A stream that is written out keeps its traces and headings.             *)
LEMMA TracesKept ==
  ASSUME TypeOK, Traces, NEW s \in Streams, Kept(s) \/ WrittenOut(s) \/ Emptied(s)
  PROVE  NoFrames(buffer'[s]) /\ Traced(file'[s])
  <1>1. file[s] \in Seq(Pieces) /\ buffer[s] \in Seq(Pieces)
    BY Typed
  <1>2. NoFrames(buffer[s]) /\ Traced(file[s])
    BY TracesAre
  <1>3. Traced(Stream(s))
    <2>1. PICK f, b, m : f = file[s] /\ b = buffer[s] /\ m = Stream(s)
      OBVIOUS
    <2>2. m = f \o b
      BY <2>1 DEF Stream
    <2> QED BY <1>1, <1>2, <2>1, <2>2, TracedWhenWrittenOut
  <1> QED BY <1>2, <1>3, EmptyHasNoFrames DEF Kept, WrittenOut, Emptied

LEMMA TracesProgram ==
  ASSUME TypeOK, Opened, Locked, Traces, Program
  PROVE  Traces'
  <1>1. \A t \in Threads : pc'[t] = "idle"
    BY SetUpEffect
  <1>2. \A s \in Streams : NoFrames(buffer'[s]) /\ Traced(file'[s])
    BY SetUpEffect, TracesKept DEF OneStream
  <1> QED BY <1>1, <1>2, NextTracesAre

LEMMA TracesIdle ==
  ASSUME Traces, UNCHANGED <<fs, file, buffer>>,
         \A t \in Threads : /\ pc'[t] = "headerflush" => pc[t] = "headerflush"
                            /\ pc'[t] = "frames" => pc[t] = "frames"
  PROVE  Traces'
  <1>1. Stream(fs)' = Stream(fs)
    BY DEF Stream
  <1> QED BY <1>1, TracesAre, NextTracesAre

LEMMA TracesDrain ==
  ASSUME TypeOK, Locked, Traces, NEW t \in Threads, Flush(t) \/ HeaderFlush(t)
  PROVE  Traces'
  <1>1. fs \in Streams /\ fs' = fs /\ Drain(fs)
    BY LoggerAssumption DEF LoggerAssumption, Flush, Flushed, HeaderFlush, HeaderOut, Goto,
                            Locked, TypeOK, setup
  <1>2. PICK s \in Streams : s = fs
    BY <1>1
  <1>3. WrittenOut(s) /\ \A r \in Streams \ {s} : Kept(r)
    BY <1>1, <1>2, DrainWritesOut
  <1>4. \A r \in Streams : NoFrames(buffer'[r]) /\ Traced(file'[r])
    BY <1>3, TracesKept
  <1>5. PICK f, b, m : f = file[s] /\ b = buffer[s] /\ m = Stream(s)
    OBVIOUS
  <1>6. /\ f \in Seq(Pieces) /\ b \in Seq(Pieces) /\ m = f \o b
        /\ NoFrames(b)
    BY <1>5, Typed, TracesAre DEF Stream
  <1>7. \A r \in Threads : Headed(f, r, Len(f)) => Headed(m, r, Len(m))
    BY <1>6, TracedWhenWrittenOut
  <1>8. file'[fs'] = m /\ Stream(fs)' = m /\ Stream(fs) = m /\ file[fs] = f
    <2>1. Stream(s)' = m
      BY <1>3, <1>5, KeptOrWrittenOut
    <2> QED BY <1>1, <1>2, <1>3, <1>5, <2>1 DEF WrittenOut, Stream
  <1>9. ASSUME NEW r \in Threads
        PROVE  /\ pc'[r] = "headerflush" => Headed(m, r, Len(m))
               /\ pc'[r] = "frames" => Headed(m, r, Len(m))
    <2>1. /\ pc'[r] = "headerflush" => pc[r] = "headerflush"
          /\ pc'[r] = "frames" => pc[r] \in {"headerflush", "frames"}
      BY DEF Flush, HeaderFlush, Goto, TypeOK
    <2>2. pc[r] \in {"headerflush", "frames"} => Headed(m, r, Len(m))
      BY <1>7, <1>8, TracesAre
    <2> QED BY <2>1, <2>2
  <1> QED BY <1>4, <1>8, <1>9, NextTracesAre

(* Whatever goes into the buffer is no frames and takes no heading away;   *)
(* a heading is free for the thread that has written it.                   *)
LEMMA TracesWrite ==
  ASSUME TypeOK, Locked, Traces, NEW t \in Threads, Record(t) \/ Header(t)
  PROVE  Traces'
  <1>1. /\ fs \in Streams /\ fs' = fs /\ pc[t] \in Parts \ {"frames"}
        /\ Write(fs, t, pc[t])
    BY LoggerAssumption DEF LoggerAssumption, Record, Header, Goto, Locked, Parts, TypeOK,
                            setup
  <1>2. PICK s, x, b, c, m, n :
          /\ s \in Streams /\ s = fs /\ x = Piece(t, pc[t])
          /\ b = buffer[s] /\ c = buffer'[s] /\ m = Stream(s) /\ n = Stream(s)'
    BY <1>1
  <1>3. /\ c = Append(b, x) /\ n = Append(m, x) /\ file' = file
        /\ \A r \in Streams \ {s} : buffer'[r] = buffer[r]
    BY <1>1, <1>2, Written
  <1>4. x \in Pieces /\ b \in Seq(Pieces) /\ m \in Seq(Pieces)
    BY <1>1, <1>2, Typed DEF Piece, Pieces
  <1>5. NoFrames(c)
    <2>1. /\ DOMAIN b = 1 .. Len(b) /\ DOMAIN c = 1 .. Len(b) + 1 /\ Len(b) \in Nat
          /\ c[Len(b) + 1] = x /\ \A i \in 1 .. Len(b) : c[i] = b[i]
      BY <1>3, <1>4, Appended
    <2>2. NoFrames(b) /\ x.part # "frames"
      BY <1>1, <1>2, TracesAre DEF Piece
    <2> QED BY <2>1, <2>2 DEF NoFrames
  <1>6. \A r \in Streams : NoFrames(buffer'[r]) /\ Traced(file'[r])
    BY <1>2, <1>3, <1>5, TracesAre
  <1>7. /\ Len(m) \in Nat /\ Len(n) = Len(m) + 1
        /\ n[Len(m) + 1] = x /\ \A i \in 1 .. Len(m) : n[i] = m[i]
    BY <1>3, <1>4, Appended
  <1>8. Stream(fs) = m /\ Stream(fs)' = n
    BY <1>1, <1>2 DEF Stream
  <1>9. ASSUME NEW r \in Threads, Headed(m, r, Len(m))
        PROVE  Headed(n, r, Len(n))
    <2>1. ~Is(x, r, "frames")
      BY <1>1, <1>2 DEF Is, Piece
    <2>2. \A k \in Len(m) + 1 .. Len(m) + 1 : ~Is(n[k], r, "frames")
      BY <1>7, <2>1
    <2> QED BY <1>7, <1>9, <2>2, HeadedStays
  <1>10. ASSUME NEW r \in Threads
         PROVE  /\ pc'[r] = "headerflush" => Headed(n, r, Len(n))
                /\ pc'[r] = "frames" => Headed(file'[fs'], r, Len(file'[fs']))
    <2>1. CASE r = t /\ Header(t)
      <3>1. Is(x, r, "header") /\ pc'[r] = "headerflush"
        BY <1>2, <2>1 DEF Is, Piece, Header, Goto, TypeOK
      <3>2. Headed(n, r, Len(n))
        BY <1>7, <3>1 DEF Headed
      <3> QED BY <3>1, <3>2
    <2>2. CASE ~(r = t /\ Header(t))
      <3>1. /\ pc'[r] = "headerflush" => pc[r] = "headerflush"
            /\ pc'[r] = "frames" => pc[r] = "frames"
        BY <2>2 DEF Record, Header, Goto, TypeOK
      <3> QED BY <1>1, <1>3, <1>8, <1>9, <3>1, TracesAre
    <2> QED BY <2>1, <2>2
  <1> QED BY <1>6, <1>8, <1>10, NextTracesAre

LEMMA TracesFrames ==
  ASSUME TypeOK, Locked, Traces, NEW t \in Threads, Frames(t)
  PROVE  Traces'
  <1>1. fs \in Streams /\ fs' = fs /\ pc[t] = "frames"
    BY LoggerAssumption DEF LoggerAssumption, Frames, Goto, Locked, TypeOK, setup
  <1>2. PICK s, x, f, g, m, n :
          /\ s \in Streams /\ s = fs /\ x = Piece(t, "frames")
          /\ f = file[s] /\ g = file'[s] /\ m = Stream(s) /\ n = Stream(s)'
    BY <1>1
  <1>3. x \in Pieces /\ f \in Seq(Pieces) /\ m \in Seq(Pieces)
    BY <1>2, Typed DEF Piece, Pieces, Parts
  <1>4. file' = [file EXCEPT ![s] = Append(@, x)] /\ buffer' = buffer
    BY <1>1, <1>2 DEF Frames, Piece
  <1>5. /\ g = Append(f, x) /\ \A r \in Streams \ {s} : file'[r] = file[r]
        /\ Len(n) = Len(m) + 1 /\ n[Len(f) + 1] = x
        /\ \A i \in 1 .. Len(f) : n[i] = m[i]
        /\ \A i \in Len(f) + 2 .. Len(m) + 1 : n[i] = m[i - 1]
    BY <1>2, <1>3, <1>4, Unbuffered
  <1>6. /\ Len(f) \in Nat /\ Len(m) \in Nat /\ Len(f) \in 0 .. Len(m)
        /\ Len(g) = Len(f) + 1 /\ DOMAIN f = 1 .. Len(f) /\ DOMAIN g = 1 .. Len(g)
        /\ g[Len(f) + 1] = x /\ \A i \in 1 .. Len(f) : g[i] = f[i]
    <2>1. PICK b \in Seq(Pieces) : b = buffer[s]
      BY <1>2, Typed
    <2>2. m = f \o b
      BY <1>2, <2>1 DEF Stream
    <2>3. Len(f) \in Nat /\ Len(b) \in Nat /\ Len(m) = Len(f) + Len(b)
      BY <1>3, <2>1, <2>2, Joined
    <2>4. /\ Len(g) = Len(f) + 1 /\ DOMAIN f = 1 .. Len(f) /\ DOMAIN g = 1 .. Len(f) + 1
          /\ g[Len(f) + 1] = x /\ \A i \in 1 .. Len(f) : g[i] = f[i]
      BY <1>3, <1>5, Appended
    <2> QED BY <2>3, <2>4
  <1>7. \A r \in Threads : Is(x, r, "frames") <=> r = t
    BY <1>2 DEF Is, Piece
  <1>8. ASSUME NEW r \in Threads, NEW c \in 0 .. Len(f), Headed(f, r, c)
        PROVE  Headed(g, r, c)
    <2>1. /\ c \in Nat /\ c <= c /\ \A k \in 1 .. c : g[k] = f[k]
          /\ \A k \in c + 1 .. c : ~Is(g[k], r, "frames")
      BY <1>6
    <2> QED BY <1>8, <2>1, HeadedStays
  <1>9. Traced(g)
    <2>1. ASSUME NEW r \in Threads, NEW i \in 1 .. Len(g), Is(g[i], r, "frames")
          PROVE  Headed(g, r, i - 1)
      <3>1. i - 1 \in 0 .. Len(f)
        BY <1>6
      <3>2. Headed(f, r, i - 1)
        <4>1. CASE i = Len(f) + 1
          <5>1. r = t /\ i - 1 = Len(f)
            BY <1>6, <1>7, <2>1, <4>1
          <5>2. Headed(f, r, Len(f))
            BY <1>1, <1>2, <5>1, TracesAre
          <5> QED BY <5>1, <5>2
        <4>2. CASE i # Len(f) + 1
          <5>1. i \in 1 .. Len(f) /\ Is(f[i], r, "frames")
            BY <1>6, <2>1, <4>2
          <5>2. Traced(f)
            BY <1>2, TracesAre
          <5> QED BY <1>6, <5>1, <5>2 DEF Traced
        <4> QED BY <4>1, <4>2
      <3> QED BY <1>8, <3>1, <3>2
    <2> QED BY <1>6, <2>1 DEF Traced
  <1>10. \A r \in Streams : NoFrames(buffer'[r]) /\ Traced(file'[r])
    BY <1>2, <1>4, <1>5, <1>9, TracesAre
  <1>11. /\ Stream(fs) = m /\ Stream(fs)' = n
         /\ file[fs] = f /\ file'[fs'] = g
    BY <1>1, <1>2 DEF Stream
  <1>12. ASSUME NEW r \in Threads
         PROVE  /\ pc'[r] = "headerflush" => Headed(n, r, Len(n))
                /\ pc'[r] = "frames" => Headed(g, r, Len(g))
    <2>1. CASE r = t
      BY <2>1 DEF Frames, Goto, TypeOK
    <2>2. CASE r # t
      <3>1. pc'[r] = pc[r]
        BY <2>2 DEF Frames, Goto, TypeOK
      <3>2. ~Is(x, r, "frames")
        BY <1>7, <2>2
      <3>3. ASSUME pc[r] = "headerflush"
            PROVE  Headed(n, r, Len(n))
        <4>1. Headed(m, r, Len(m))
          BY <1>11, <3>3, TracesAre
        <4>2. ~Is(n[Len(f) + 1], r, "frames")
          BY <1>5, <3>2
        <4> QED BY <1>5, <1>6, <4>1, <4>2, HeadedSpliced
      <3>4. ASSUME pc[r] = "frames"
            PROVE  Headed(g, r, Len(g))
        <4>1. Headed(f, r, Len(f))
          BY <1>11, <3>4, TracesAre
        <4>2. \A k \in Len(f) + 1 .. Len(g) : ~Is(g[k], r, "frames")
          BY <1>6, <3>2
        <4>3. Len(f) \in Nat /\ Len(g) \in Nat /\ Len(f) <= Len(g)
          BY <1>6
        <4> QED BY <1>6, <4>1, <4>2, <4>3, HeadedStays
      <3> QED BY <3>1, <3>3, <3>4
    <2> QED BY <2>1, <2>2
  <1> QED BY <1>10, <1>11, <1>12, NextTracesAre

LEMMA TracesStep ==
  TypeOK /\ Opened /\ Locked /\ Traces /\ [Next]_vars => Traces'
  <1> SUFFICES ASSUME TypeOK, Opened, Locked, Traces, [Next]_vars PROVE Traces'
    OBVIOUS
  <1>1. ASSUME NEW t \in Threads, Lock(t) \/ Unlock(t)
        PROVE  Traces'
    <2>1. UNCHANGED <<fs, file, buffer>>
      BY <1>1 DEF Lock, Unlock, setup
    <2>2. \A r \in Threads : /\ pc'[r] = "headerflush" => pc[r] = "headerflush"
                             /\ pc'[r] = "frames" => pc[r] = "frames"
      BY <1>1 DEF Lock, Unlock, Goto, TypeOK
    <2> QED BY <2>1, <2>2, TracesIdle
  <1>2. ASSUME NEW t \in Threads, NEW l \in Levels, Call(t, l)
        PROVE  Traces'
    <2>1. UNCHANGED <<fs, file, buffer>>
      BY <1>2 DEF Call, setup
    <2>2. \A r \in Threads : /\ pc'[r] = "headerflush" => pc[r] = "headerflush"
                             /\ pc'[r] = "frames" => pc[r] = "frames"
      BY <1>2 DEF Call, Goto, TypeOK
    <2> QED BY <2>1, <2>2, TracesIdle
  <1>3. CASE UNCHANGED vars
    <2>1. UNCHANGED <<fs, file, buffer>> /\ pc' = pc
      BY <1>3 DEF vars, setup
    <2> QED BY <2>1, TracesIdle
  <1> QED BY <1>1, <1>2, <1>3, TracesProgram, TracesDrain, TracesWrite, TracesFrames
          DEF Next, Log

(* For any threads, files and schedule, the frames of a stack trace come   *)
(* under a heading of their own.                                           *)
THEOREM TracesUnderHeadings == Spec => []TraceUnderHeader
  <1>1. Traces => TraceUnderHeader
    BY DEF Traces
  <1> QED BY <1>1, TypeInit, TypeStep, OpenedInit, OpenedStep, LockedStep, TracesInit,
             TracesStep, PTL DEF Spec

-----------------------------------------------------------------------------
(* The newlines that wait in a buffer.                                     *)
LEMMA NoEnds == \A t \in Threads : Ends(<<>>, t) = {}
  BY DEF Ends

LEMMA EndsAppended ==
  ASSUME NEW b \in Seq(Pieces), NEW x \in Pieces, NEW c, c = Append(b, x),
         NEW t \in Threads
  PROVE  Ends(c, t) = IF Is(x, t, "newline") THEN Ends(b, t) \cup {Len(b) + 1}
                      ELSE Ends(b, t)
  <1>1. /\ Len(b) \in Nat /\ DOMAIN b = 1 .. Len(b) /\ DOMAIN c = 1 .. Len(b) + 1
        /\ c[Len(b) + 1] = x /\ \A i \in 1 .. Len(b) : c[i] = b[i]
    BY Appended
  <1> QED BY <1>1 DEF Ends

LEMMA FreshInit == Init => Fresh
  <1> SUFFICES ASSUME Init PROVE Fresh
    OBVIOUS
  <1>1. \A s \in Streams : buffer[s] = <<>>
    BY DEF Init
  <1> QED BY <1>1, NoEnds DEF Fresh

(* A buffer that is kept or written out has no more newlines than before.  *)
LEMMA FreshStays ==
  ASSUME Fresh,
         \A s \in Streams : buffer'[s] \in {buffer[s], <<>>},
         fs' = fs \/ \A t \in Threads : pc[t] \notin {"unlock", "flush"},
         \A t \in Threads :
           \/ pc'[t] \in {"unlock", "flush"} <=> pc[t] \in {"unlock", "flush"}
           \/ \A s \in Streams : buffer'[s] # <<>> => s # fs
  PROVE  Fresh'
  <1>1. ASSUME NEW s \in Streams, NEW t \in Threads
        PROVE  /\ \A i, j \in Ends(buffer'[s], t) : i = j
               /\ Ends(buffer'[s], t) # {} => s = fs' /\ pc'[t] \in {"unlock", "flush"}
    <2>1. CASE buffer'[s] = <<>>
      BY <2>1, NoEnds
    <2>2. CASE buffer'[s] = buffer[s] /\ buffer[s] # <<>>
      <3>1. \A i, j \in Ends(buffer[s], t) : i = j
        BY DEF Fresh
      <3>2. Ends(buffer[s], t) # {} => s = fs /\ pc[t] \in {"unlock", "flush"}
        BY DEF Fresh
      <3>3. Ends(buffer[s], t) # {} => fs' = fs /\ pc'[t] \in {"unlock", "flush"}
        BY <2>2, <3>2
      <3> QED BY <2>2, <3>1, <3>2, <3>3
    <2> QED BY <2>1, <2>2
  <1> QED BY <1>1 DEF Fresh, Ends

LEMMA FreshWrite ==
  ASSUME TypeOK, Locked, Fresh, NEW t \in Threads, Record(t) \/ Header(t)
  PROVE  Fresh'
  <1>1. /\ fs \in Streams /\ fs' = fs /\ pc[t] \in {"prefix", "text", "newline", "header"}
        /\ Write(fs, t, pc[t]) /\ pc[t] \in Parts
        /\ pc[t] = "newline" <=> pc'[t] = "unlock"
        /\ \A r \in Threads \ {t} : pc'[r] = pc[r]
    BY LoggerAssumption DEF LoggerAssumption, Record, Header, Goto, Locked, Parts, TypeOK,
                            setup
  <1>2. PICK s, x, b, c :
          /\ s \in Streams /\ s = fs /\ x = Piece(t, pc[t]) /\ b = buffer[s] /\ c = buffer'[s]
    BY <1>1
  <1>3. c = Append(b, x) /\ \A r \in Streams \ {s} : buffer'[r] = buffer[r]
    BY <1>1, <1>2, Written
  <1>4. x \in Pieces /\ b \in Seq(Pieces)
    BY <1>1, <1>2, Typed DEF Piece, Pieces
  <1>5. \A r \in Threads : Ends(c, r) = IF Is(x, r, "newline") THEN Ends(b, r) \cup {Len(b) + 1}
                                        ELSE Ends(b, r)
    BY <1>3, <1>4, EndsAppended
  <1>6. \A q \in Streams : Ends(buffer[q], t) = {}
    BY <1>1 DEF Fresh
  <1>7. ASSUME NEW r \in Threads
        PROVE  /\ \A i, j \in Ends(c, r) : i = j
               /\ Ends(c, r) # {} => pc'[r] \in {"unlock", "flush"}
    <2>1. CASE r = t
      <3>1. Is(x, r, "newline") <=> pc[t] = "newline"
        BY <1>2, <2>1 DEF Is, Piece
      <3> QED BY <1>1, <1>2, <1>5, <1>6, <2>1, <3>1
    <2>2. CASE r # t
      <3>1. ~Is(x, r, "newline")
        BY <1>2, <2>2 DEF Is, Piece
      <3>2. Ends(c, r) = Ends(buffer[s], r)
        BY <1>2, <1>5, <3>1
      <3> QED BY <1>1, <1>2, <2>2, <3>2 DEF Fresh
    <2> QED BY <2>1, <2>2
  <1>8. ASSUME NEW q \in Streams, NEW r \in Threads
        PROVE  /\ \A i, j \in Ends(buffer'[q], r) : i = j
               /\ Ends(buffer'[q], r) # {} => q = fs' /\ pc'[r] \in {"unlock", "flush"}
    <2>1. CASE q = s
      BY <1>1, <1>2, <1>7, <2>1
    <2>2. CASE q # s
      <3>1. buffer'[q] = buffer[q] /\ q # fs
        BY <1>2, <1>3, <2>2
      <3>2. Ends(buffer[q], r) = {}
        BY <3>1 DEF Fresh
      <3> QED BY <3>1, <3>2
    <2> QED BY <2>1, <2>2
  <1> QED BY <1>8 DEF Fresh, Ends

LEMMA FreshStep ==
  TypeOK /\ Opened /\ Locked /\ Fresh /\ [Next]_vars => Fresh'
  <1> SUFFICES ASSUME TypeOK, Opened, Locked, Fresh, [Next]_vars PROVE Fresh'
    OBVIOUS
  <1>1. CASE Program
    <2>1. \A s \in Streams : buffer'[s] \in {buffer[s], <<>>}
      BY <1>1, SetUpEffect DEF OneStream, Kept, WrittenOut, Emptied
    <2>2. \A t \in Threads : pc[t] = "idle" /\ pc'[t] = "idle"
      BY <1>1, SetUpEffect
    <2> QED BY <2>1, <2>2, FreshStays
  <1>2. ASSUME NEW t \in Threads, Lock(t) \/ Unlock(t) \/ Frames(t)
        PROVE  Fresh'
    <2>1. \A s \in Streams : buffer'[s] = buffer[s]
      BY <1>2 DEF Lock, Unlock, Frames
    <2>2. fs' = fs
      BY <1>2 DEF Lock, Unlock, Frames, setup
    <2>3. \A r \in Threads : pc'[r] \in {"unlock", "flush"} <=> pc[r] \in {"unlock", "flush"}
      BY <1>2 DEF Lock, Unlock, Frames, Goto, TypeOK
    <2> QED BY <2>1, <2>2, <2>3, FreshStays
  <1>3. ASSUME NEW t \in Threads, Flush(t) \/ HeaderFlush(t)
        PROVE  Fresh'
    <2>1. fs \in Streams /\ fs' = fs /\ Drain(fs)
      BY <1>3, LoggerAssumption DEF LoggerAssumption, Flush, Flushed, HeaderFlush, HeaderOut,
                                    Goto, Locked, TypeOK, setup
    <2>2. /\ \A s \in Streams : buffer'[s] \in {buffer[s], <<>>}
          /\ \A s \in Streams : buffer'[s] # <<>> => s # fs
      BY <2>1, Drained
    <2> QED BY <2>1, <2>2, FreshStays
  <1>4. ASSUME NEW t \in Threads, NEW l \in Levels, Call(t, l)
        PROVE  Fresh'
    <2>1. \A s \in Streams : buffer'[s] = buffer[s]
      BY <1>4 DEF Call
    <2>2. fs' = fs
      BY <1>4 DEF Call, setup
    <2>3. \A r \in Threads : pc'[r] \in {"unlock", "flush"} <=> pc[r] \in {"unlock", "flush"}
      BY <1>4 DEF Call, Goto, TypeOK
    <2> QED BY <2>1, <2>2, <2>3, FreshStays
  <1>5. CASE UNCHANGED vars
    BY <1>5, FreshStays DEF vars, setup
  <1> QED BY <1>1, <1>2, <1>3, <1>4, <1>5, FreshWrite DEF Next, Log

-----------------------------------------------------------------------------
(* The authors of the records in a stream.                                 *)
LEMMA LeastNatural ==
  ASSUME NEW A \in SUBSET Nat, A # {}
  PROVE  \E m \in A : \A l \in A : m <= l
  <1> DEFINE R == OpToRel(<, Nat)
  <1>1. IsWellFoundedOn(R, Nat)
    BY NatLessThanWellFounded, Zenon
  <1> HIDE DEF R
  <1>2. PICK m \in A : \A l \in A : ~ (<<l, m>> \in R)
    BY <1>1, WFMin
  <1>3. \A l \in A : ~ (l < m)
    BY <1>2 DEF R, OpToRel
  <1> QED BY <1>3

(* The function that Authors defines by recursion exists and is unique.    *)
Extended(a, piece) == IF piece.part = "newline" THEN Append(a, piece.thread) ELSE a
Unfolds(f, q, n) ==
  f = [k \in 0 .. n |-> IF k = 0 THEN <<>> ELSE Extended(f[k - 1], q[k])]

LEMMA UnfoldingExists ==
  ASSUME NEW q \in Seq(Pieces), NEW n \in 0 .. Len(q)
  PROVE  \E f \in [0 .. n -> Seq(Threads)] : Unfolds(f, q, n)
  <1> DEFINE A == {l \in 0 .. Len(q) :
                     ~ \E f \in [0 .. l -> Seq(Threads)] : Unfolds(f, q, l)}
  <1>0. Len(q) \in Nat /\ \A k \in 1 .. Len(q) : q[k].thread \in Threads
    <2>1. Len(q) \in Nat
      BY LenProperties
    <2>2. \A k \in 1 .. Len(q) : q[k] \in Pieces
      BY ElementOfSeq
    <2> QED BY <2>1, <2>2 DEF Pieces
  <1>1. SUFFICES ASSUME A # {} PROVE FALSE
    OBVIOUS
  <1>2. PICK m \in A : \A l \in A : m <= l
    <2>1. A \in SUBSET Nat
      BY <1>0
    <2> HIDE DEF A
    <2> QED BY <1>1, <2>1, LeastNatural
  <1>3. m \in 0 .. Len(q)
    OBVIOUS
  <1>4. CASE m = 0
    <2> DEFINE f == [k \in 0 .. 0 |-> <<>>]
    <2>1. <<>> \in Seq(Threads)
      BY EmptySeq
    <2>2. f \in [0 .. 0 -> Seq(Threads)]
      BY <2>1
    <2>3. Unfolds(f, q, 0)
      BY DEF Unfolds
    <2> QED BY <1>2, <1>4, <2>2, <2>3
  <1>5. CASE m # 0
    <2>1. m - 1 \in 0 .. Len(q) /\ m - 1 \notin A
      <3>1. m - 1 \in 0 .. Len(q)
        BY <1>0, <1>3, <1>5
      <3> HIDE DEF A
      <3> QED BY <1>0, <1>2, <1>3, <3>1
    <2>2. PICK g \in [0 .. m - 1 -> Seq(Threads)] : Unfolds(g, q, m - 1)
      BY <2>1
    <2> DEFINE f == [k \in 0 .. m |-> IF k = m THEN Extended(g[m - 1], q[m]) ELSE g[k]]
    <2>3. Extended(g[m - 1], q[m]) \in Seq(Threads)
      <3>1. g[m - 1] \in Seq(Threads) /\ q[m].thread \in Threads
        BY <1>0, <1>3, <1>5
      <3> QED BY <3>1, AppendProperties DEF Extended
    <2>4. f \in [0 .. m -> Seq(Threads)]
      BY <1>3, <1>5, <2>3
    <2>5. ASSUME NEW k \in 0 .. m
          PROVE  f[k] = IF k = 0 THEN <<>> ELSE Extended(f[k - 1], q[k])
      <3>1. CASE k = m
        BY <1>3, <1>5, <3>1
      <3>2. CASE k # m
        <4>1. k \in 0 .. m - 1
          BY <1>3, <3>2
        <4>2. g[k] = IF k = 0 THEN <<>> ELSE Extended(g[k - 1], q[k])
          BY <2>2, <4>1 DEF Unfolds
        <4>3. f[k] = g[k] /\ (k # 0 => f[k - 1] = g[k - 1])
          BY <1>3, <3>2
        <4> QED BY <4>2, <4>3
      <3> QED BY <3>1, <3>2
    <2>6. Unfolds(f, q, m)
      <3> HIDE DEF f
      <3> QED BY <2>4, <2>5 DEF Unfolds
    <2> HIDE DEF f
    <2> QED BY <1>2, <2>4, <2>6
  <1> QED BY <1>4, <1>5

(* Two unfoldings of sequences that agree on a prefix agree there.         *)
Agree(q, r, n) == \A k \in 1 .. n : q[k] = r[k]

LEMMA UnfoldingsAgree ==
  ASSUME NEW q, NEW r, NEW n \in Nat, NEW m \in Nat, n <= m,
         NEW f, Unfolds(f, q, n), NEW g, Unfolds(g, r, m),
         Agree(q, r, n)
  PROVE  \A k \in 0 .. n : f[k] = g[k]
  <1> DEFINE A == {l \in 0 .. n : f[l] # g[l]}
  <1>1. SUFFICES ASSUME A # {} PROVE FALSE
    OBVIOUS
  <1>2. PICK l \in A : \A k \in A : l <= k
    <2>1. A \in SUBSET Nat
      OBVIOUS
    <2> HIDE DEF A
    <2> QED BY <1>1, <2>1, LeastNatural
  <1>3. l \in 0 .. n /\ f[l] # g[l]
    OBVIOUS
  <1>4. /\ f[l] = IF l = 0 THEN <<>> ELSE Extended(f[l - 1], q[l])
        /\ g[l] = IF l = 0 THEN <<>> ELSE Extended(g[l - 1], r[l])
    BY <1>3 DEF Unfolds
  <1>5. l # 0
    BY <1>3, <1>4
  <1>6. l - 1 \in 0 .. n /\ l - 1 \notin A /\ l \in 1 .. n
    BY <1>2, <1>3, <1>5
  <1> QED BY <1>3, <1>4, <1>5, <1>6 DEF Agree

LEMMA AuthorsUnfold ==
  ASSUME NEW q \in Seq(Pieces)
  PROVE  \E f \in [0 .. Len(q) -> Seq(Threads)] :
           Unfolds(f, q, Len(q)) /\ Authors(q) = f[Len(q)]
  <1> DEFINE f == CHOOSE g : g = [n \in 0 .. Len(q) |->
                    IF n = 0 THEN <<>>
                    ELSE IF q[n].part = "newline"
                    THEN Append(g[n - 1], q[n].thread)
                    ELSE g[n - 1]]
  <1>1. Authors(q) = f[Len(q)]
    BY DEF Authors
  <1>2. Len(q) \in 0 .. Len(q) /\ Len(q) \in Nat
    BY LenProperties
  <1>3. PICK g \in [0 .. Len(q) -> Seq(Threads)] : Unfolds(g, q, Len(q))
    BY <1>2, UnfoldingExists
  <1>4. Unfolds(f, q, Len(q))
    BY <1>3 DEF Unfolds, Extended
  <1> HIDE DEF f
  <1>5. f = g
    <2>1. \A k \in 0 .. Len(q) : f[k] = g[k]
      BY <1>2, <1>3, <1>4, UnfoldingsAgree DEF Agree
    <2>2. f = [k \in 0 .. Len(q) |-> f[k]] /\ g = [k \in 0 .. Len(q) |-> g[k]]
      BY <1>3, <1>4 DEF Unfolds
    <2> QED BY <2>1, <2>2
  <1> QED BY <1>1, <1>3, <1>5

LEMMA AuthorsOfNone == Authors(<<>>) = <<>>
  <1>1. <<>> \in Seq(Pieces) /\ Len(<<>>) = 0
    BY EmptySeq
  <1>2. PICK q : q = <<>>
    OBVIOUS
  <1>3. PICK f : Unfolds(f, q, 0) /\ Authors(q) = f[0]
    BY <1>1, <1>2, AuthorsUnfold
  <1> QED BY <1>2, <1>3 DEF Unfolds

LEMMA AuthorsOfOneMore ==
  ASSUME NEW q \in Seq(Pieces), NEW x \in Pieces, NEW r, r = Append(q, x)
  PROVE  Authors(r) = Extended(Authors(q), x) /\ Authors(q) \in Seq(Threads)
  <1>1. /\ r \in Seq(Pieces) /\ Len(q) \in Nat /\ Len(r) = Len(q) + 1
        /\ r[Len(q) + 1] = x /\ \A i \in 1 .. Len(q) : r[i] = q[i]
    BY Appended
  <1>2. PICK f \in [0 .. Len(q) -> Seq(Threads)] :
          Unfolds(f, q, Len(q)) /\ Authors(q) = f[Len(q)]
    BY AuthorsUnfold
  <1>3. PICK g \in [0 .. Len(r) -> Seq(Threads)] :
          Unfolds(g, r, Len(r)) /\ Authors(r) = g[Len(r)]
    BY <1>1, AuthorsUnfold
  <1>4. Len(r) \in Nat /\ Len(q) <= Len(r) /\ \A k \in 1 .. Len(q) : q[k] = r[k]
    BY <1>1
  <1>5. \A k \in 0 .. Len(q) : f[k] = g[k]
    <2>1. PICK n \in Nat, m \in Nat : n = Len(q) /\ m = Len(r)
      BY <1>1, <1>4
    <2>2. /\ n \in Nat /\ m \in Nat
          /\ Unfolds(f, q, n) /\ Unfolds(g, r, m) /\ n <= m
          /\ Agree(q, r, n)
      BY <1>2, <1>3, <1>4, <2>1 DEF Agree
    <2>3. \A k \in 0 .. n : f[k] = g[k]
      BY ONLY <2>2, UnfoldingsAgree
    <2> QED BY <2>1, <2>3
  <1>6. g[Len(q) + 1] = Extended(g[Len(q)], x)
    <2>1. Len(q) + 1 \in 0 .. Len(r) /\ Len(q) + 1 # 0 /\ (Len(q) + 1) - 1 = Len(q)
      BY <1>1
    <2> QED BY <1>1, <1>3, <2>1 DEF Unfolds
  <1>7. f[Len(q)] = g[Len(q)] /\ Authors(q) \in Seq(Threads)
    BY <1>1, <1>2, <1>5
  <1> QED BY <1>1, <1>2, <1>3, <1>6, <1>7

LEMMA AuthorsTyped ==
  ASSUME NEW q \in Seq(Pieces)
  PROVE  Authors(q) \in Seq(Threads)
  <1>1. Len(q) \in 0 .. Len(q)
    BY LenProperties
  <1> QED BY <1>1, AuthorsUnfold

LEMMA AuthorsJoined ==
  ASSUME NEW f \in Seq(Pieces), NEW b \in Seq(Pieces)
  PROVE  Authors(f \o b) = Authors(f) \o Authors(b)
  <1> DEFINE A == {n \in Nat : \E c \in Seq(Pieces) :
                     Len(c) = n /\ Authors(f \o c) # Authors(f) \o Authors(c)}
  <1>1. SUFFICES ASSUME A # {} PROVE FALSE
    <2>1. Len(b) \in Nat
      BY LenProperties
    <2> QED BY <1>1, <2>1
  <1>2. PICK n \in A : \A l \in A : n <= l
    <2>1. A \in SUBSET Nat
      OBVIOUS
    <2> HIDE DEF A
    <2> QED BY <1>1, <2>1, LeastNatural
  <1>3. PICK c \in Seq(Pieces) : Len(c) = n /\ Authors(f \o c) # Authors(f) \o Authors(c)
    OBVIOUS
  <1>4. Authors(f) \in Seq(Threads)
    BY AuthorsTyped
  <1>5. c # <<>>
    <2>1. f \o <<>> = f /\ Authors(f) \o <<>> = Authors(f)
      BY <1>4, ConcatEmptySeq
    <2> QED BY <1>3, <2>1, AuthorsOfNone
  <1>6. PICK d \in Seq(Pieces), x \in Pieces : c = Append(d, x)
    BY <1>5, SequenceEmptyOrAppend
  <1>7. Len(d) \in Nat /\ Len(d) < n
    <2>1. Len(d) \in Nat /\ Len(c) = Len(d) + 1
      BY <1>6, Appended
    <2> QED BY <1>3, <2>1
  <1>8. Authors(f \o d) = Authors(f) \o Authors(d)
    <2>1. Len(d) \notin A
      <3> HIDE DEF A
      <3>1. n \in Nat
        BY <1>3, LenProperties
      <3> QED BY <1>2, <1>7, <3>1
    <2> QED BY <1>7, <2>1
  <1> HIDE DEF A
  <1>9. PICK m, n1 : m = f \o d /\ n1 = f \o c
    OBVIOUS
  <1>10. m \in Seq(Pieces) /\ n1 = Append(m, x)
    BY <1>6, <1>9, ConcatProperties, AppendedToBoth
  <1>11. Authors(n1) = Extended(Authors(m), x) /\ Authors(c) = Extended(Authors(d), x)
    BY <1>6, <1>10, AuthorsOfOneMore
  <1>12. Extended(Authors(f) \o Authors(d), x) = Authors(f) \o Extended(Authors(d), x)
    <2>1. PICK u, v, t : u = Authors(f) /\ v = Authors(d) /\ t = x.thread
      OBVIOUS
    <2>2. u \in Seq(Threads) /\ v \in Seq(Threads) /\ t \in Threads
      BY <2>1, AuthorsTyped DEF Pieces
    <2>3. PICK g, h, k : g = Append(v, t) /\ h = u \o v /\ k = u \o g
      OBVIOUS
    <2>4. k = Append(h, t)
      BY <2>2, <2>3, AppendedToBoth
    <2> QED BY <2>1, <2>3, <2>4 DEF Extended
  <1> QED BY <1>3, <1>8, <1>9, <1>11, <1>12

(* They are the threads with a newline in it, each once if it has one.     *)
Single(q) == \A t \in Threads : \A i, j \in Ends(q, t) : i = j
AreAuthors(q) ==
  /\ \A t \in Threads : t \in ToSet(Authors(q)) <=> Ends(q, t) # {}
  /\ Single(q) => \A k, l \in DOMAIN Authors(q) : Authors(q)[k] = Authors(q)[l] => k = l

LEMMA AuthorsOfOneMoreAre ==
  ASSUME NEW d \in Seq(Pieces), NEW x \in Pieces, NEW c, c = Append(d, x), AreAuthors(d)
  PROVE  AreAuthors(c)
  <1>1. /\ Len(d) \in Nat /\ DOMAIN d = 1 .. Len(d)
        /\ Len(d) + 1 \notin DOMAIN d
    BY LenProperties
  <1>2. \A t \in Threads : Ends(c, t) = IF Is(x, t, "newline") THEN Ends(d, t) \cup {Len(d) + 1}
                                        ELSE Ends(d, t)
    BY EndsAppended
  <1>3. PICK u, v, y : u = Authors(d) /\ v = Authors(c) /\ y = x.thread
    OBVIOUS
  <1>4. u \in Seq(Threads) /\ v = Extended(u, x) /\ y \in Threads
    BY <1>3, AuthorsOfOneMore DEF Pieces
  <1>5. CASE x.part # "newline"
    <2>1. \A t \in Threads : Ends(c, t) = Ends(d, t)
      BY <1>2, <1>5 DEF Is
    <2>2. v = u
      BY <1>4, <1>5 DEF Extended
    <2> QED BY <1>3, <2>1, <2>2 DEF AreAuthors, Single
  <1>6. CASE x.part = "newline"
    <2>1. \A t \in Threads : Is(x, t, "newline") <=> t = y
      <3>1. x = [thread |-> y, part |-> "newline"]
        BY <1>3, <1>6 DEF Pieces
      <3> QED BY <3>1 DEF Is
    <2>2. v = Append(u, y)
      BY <1>3, <1>4, <1>6 DEF Extended
    <2>3. /\ DOMAIN u = 1 .. Len(u) /\ DOMAIN v = 1 .. Len(u) + 1 /\ Len(u) \in Nat
          /\ v[Len(u) + 1] = y /\ \A k \in 1 .. Len(u) : v[k] = u[k]
      BY <1>4, <2>2, Appended
    <2>4. /\ \A t \in Threads \ {y} : Ends(c, t) = Ends(d, t)
          /\ Ends(c, y) = Ends(d, y) \cup {Len(d) + 1}
      BY <1>2, <1>4, <2>1
    <2>5. ToSet(v) = ToSet(u) \cup {y}
      BY <2>3 DEF ToSet
    <2>6. ASSUME Single(c)
          PROVE  Single(d) /\ Ends(d, y) = {}
      <3>1. Single(d)
        BY <2>4, <2>6 DEF Single
      <3>2. ASSUME NEW i \in Ends(d, y) PROVE FALSE
        <4>1. i = Len(d) + 1
          BY <1>4, <2>4, <2>6, <3>2 DEF Single
        <4> QED BY <1>1, <3>2, <4>1 DEF Ends
      <3> QED BY <3>1, <3>2
    <2>7. ASSUME Single(c), NEW k \in DOMAIN v, NEW l \in DOMAIN v, v[k] = v[l]
          PROVE  k = l
      <3>1. y \notin ToSet(u)
        BY <1>3, <1>4, <2>6, <2>7 DEF AreAuthors
      <3>2. \A j \in 1 .. Len(u) : u[j] # y
        BY <2>3, <3>1 DEF ToSet
      <3>3. \A i, j \in 1 .. Len(u) : u[i] = u[j] => i = j
        BY <1>3, <2>3, <2>6, <2>7 DEF AreAuthors
      <3> QED BY <2>3, <2>7, <3>2, <3>3
    <2> QED BY <1>3, <2>4, <2>5, <2>7 DEF AreAuthors
  <1> QED BY <1>5, <1>6

LEMMA AuthorsAre ==
  ASSUME NEW b \in Seq(Pieces)
  PROVE  AreAuthors(b)
  <1> DEFINE A == {n \in Nat : \E c \in Seq(Pieces) : Len(c) = n /\ ~AreAuthors(c)}
  <1>1. SUFFICES ASSUME A # {} PROVE FALSE
    <2>1. Len(b) \in Nat
      BY LenProperties
    <2> QED BY <1>1, <2>1
  <1>2. PICK n \in A : \A l \in A : n <= l
    <2>1. A \in SUBSET Nat
      OBVIOUS
    <2> HIDE DEF A
    <2> QED BY <1>1, <2>1, LeastNatural
  <1>3. PICK c \in Seq(Pieces) : Len(c) = n /\ ~AreAuthors(c)
    OBVIOUS
  <1>4. c # <<>>
    <2>1. AreAuthors(<<>>)
      BY AuthorsOfNone, NoEnds DEF AreAuthors, ToSet
    <2> QED BY <1>3, <2>1
  <1>5. PICK d \in Seq(Pieces), x \in Pieces : c = Append(d, x)
    BY <1>4, SequenceEmptyOrAppend
  <1>6. Len(d) \in Nat /\ Len(d) < n /\ n \in Nat
    <2>1. Len(d) \in Nat /\ Len(c) = Len(d) + 1
      BY <1>5, Appended
    <2> QED BY <1>3, <2>1
  <1>7. Len(d) \notin A
    <2> HIDE DEF A
    <2> QED BY <1>2, <1>6
  <1>8. AreAuthors(d)
    BY <1>6, <1>7
  <1> QED BY <1>3, <1>5, <1>8, AuthorsOfOneMoreAre

LEMMA AuthorsPermute ==
  ASSUME NEW b \in Seq(Pieces), Single(b)
  PROVE  Authors(b) \in SetToSeqs(ToSet(Authors(b)))
  <1>1. PICK q, S : q = Authors(b) /\ S = ToSet(q)
    OBVIOUS
  <1>2. PICK n : n = Len(q)
    OBVIOUS
  <1>3. q \in Seq(Threads) /\ n \in Nat /\ DOMAIN q = 1 .. n /\ q \in [1 .. n -> Threads]
    BY <1>1, <1>2, AuthorsTyped, LenProperties
  <1>4. \A k, l \in 1 .. n : q[k] = q[l] => k = l
    BY <1>1, <1>3, AuthorsAre DEF AreAuthors
  <1>5. q \in [1 .. n -> S] /\ \A y \in S : \E k \in 1 .. n : q[k] = y
    BY <1>1, <1>3 DEF ToSet
  <1>6. q \in Bijection(1 .. n, S)
    BY <1>4, <1>5, Fun_IsBij
  <1>7. ExistsBijection(1 .. n, S)
    BY <1>6 DEF ExistsBijection
  <1>8. Cardinality(S) = n
    BY <1>3, <1>7, FS_CountingElements
  <1> QED BY <1>1, <1>4, <1>5, <1>8 DEF SetToSeqs

-----------------------------------------------------------------------------
(* The refinement.                                                         *)
Asked == [t \in Threads |-> IF InWork(t) THEN fs ELSE NULL]
Recorded == [s \in Streams |-> Authors(file[s])]

Logging(t) ==
  \/ pc[t] \in {"lock", "prefix", "text", "newline"}
  \/ \E s \in Streams : Ends(buffer[s], t) # {}

LEMMA InWorkIs ==
  TypeOK /\ Locked /\ Fresh => \A t \in Threads : InWork(t) <=> Logging(t)
  <1> SUFFICES ASSUME TypeOK, Locked, Fresh, NEW t \in Threads
               PROVE  InWork(t) <=> Logging(t)
    OBVIOUS
  <1>1. CASE pc[t] \in {"unlock", "flush"}
    <2>1. fs \in Streams
      BY <1>1, LoggerAssumption DEF LoggerAssumption, Locked, TypeOK
    <2>2. PICK s \in Streams, b \in Seq(Pieces) : s = fs /\ b = buffer[s]
      BY <2>1, Typed
    <2>3. t \in ToSet(Authors(b)) <=> Ends(b, t) # {}
      BY AuthorsAre DEF AreAuthors
    <2>4. \A r \in Streams : Ends(buffer[r], t) # {} => r = s
      BY <2>2 DEF Fresh
    <2> QED BY <1>1, <2>2, <2>3, <2>4 DEF InWork, Logging
  <1>2. CASE pc[t] \notin {"unlock", "flush"}
    BY <1>2 DEF InWork, Logging, Fresh
  <1> QED BY <1>1, <1>2

LEMMA NextInWorkIs ==
  TypeOK' /\ Locked' /\ Fresh' => \A t \in Threads : InWork(t)' <=> Logging(t)'
  <1> SUFFICES ASSUME TypeOK', Locked', Fresh', NEW t \in Threads
               PROVE  InWork(t)' <=> Logging(t)'
    OBVIOUS
  <1>1. CASE pc'[t] \in {"unlock", "flush"}
    <2>1. fs' \in Streams
      BY <1>1, LoggerAssumption DEF LoggerAssumption, Locked, TypeOK
    <2>2. PICK s \in Streams, b \in Seq(Pieces) : s = fs' /\ b = buffer'[s]
      BY <2>1 DEF TypeOK
    <2>3. t \in ToSet(Authors(b)) <=> Ends(b, t) # {}
      BY AuthorsAre DEF AreAuthors
    <2>4. \A r \in Streams : Ends(buffer'[r], t) # {} => r = s
      BY <2>2 DEF Fresh, Ends
    <2> QED BY <1>1, <2>2, <2>3, <2>4 DEF InWork, Logging, Ends
  <1>2. CASE pc'[t] \notin {"unlock", "flush"}
    BY <1>2 DEF InWork, Logging, Fresh, Ends
  <1> QED BY <1>1, <1>2

LEMMA JournalVars == Lines!vars = <<Asked, Recorded>>
  BY DEF Lines!vars, Asked, Recorded

LEMMA JournalInit == Init => Lines!Init
  <1> SUFFICES ASSUME Init PROVE Lines!Init
    OBVIOUS
  <1>1. \A t \in Threads : ~InWork(t)
    BY DEF Init, InWork
  <1>2. \A s \in Streams : Authors(file[s]) = <<>>
    BY AuthorsOfNone DEF Init
  <1> QED BY <1>1, <1>2 DEF Lines!Init

(* Steps that no one sees.                                                 *)
LEMMA JournalStays ==
  ASSUME TypeOK, Locked, Fresh, TypeOK', Locked', Fresh',
         \A t \in Threads : Logging(t)' <=> Logging(t),
         fs' = fs \/ \A t \in Threads : ~Logging(t),
         \A s \in Streams : Authors(file'[s]) = Authors(file[s])
  PROVE  UNCHANGED Lines!vars
  <1>1. \A t \in Threads : (InWork(t) <=> Logging(t)) /\ (InWork(t)' <=> Logging(t)')
    BY InWorkIs, NextInWorkIs
  <1>2. Asked' = Asked
    BY <1>1 DEF Asked
  <1>3. Recorded' = Recorded
    BY DEF Recorded
  <1> QED BY <1>2, <1>3, JournalVars DEF Lines!vars, Asked, Recorded

LEMMA JournalIdle ==
  ASSUME TypeOK, Locked, Fresh, TypeOK', Locked', Fresh', UNCHANGED <<fs, buffer>>,
         \A s \in Streams : Authors(file'[s]) = Authors(file[s]),
         \A t \in Threads : pc'[t] \in {"lock", "prefix", "text", "newline"}
                              <=> pc[t] \in {"lock", "prefix", "text", "newline"}
  PROVE  UNCHANGED Lines!vars
  <1>1. \A t \in Threads : Logging(t)' <=> Logging(t)
    BY DEF Logging, Ends
  <1> QED BY <1>1, JournalStays

LEMMA JournalFrames ==
  ASSUME TypeOK, Locked, Fresh, TypeOK', Locked', Fresh', NEW t \in Threads, Frames(t)
  PROVE  UNCHANGED Lines!vars
  <1>1. UNCHANGED <<fs, buffer>> /\ fs \in Streams
    BY LoggerAssumption DEF LoggerAssumption, Frames, Goto, Locked, TypeOK, setup
  <1>2. ASSUME NEW s \in Streams
        PROVE  Authors(file'[s]) = Authors(file[s])
    <2>1. CASE s = fs
      <3>1. PICK f, g, x : f = file[s] /\ g = file'[s] /\ x = Piece(t, "frames")
        OBVIOUS
      <3>2. f \in Seq(Pieces) /\ x \in Pieces /\ g = Append(f, x) /\ x.part # "newline"
        BY <2>1, <3>1 DEF Frames, Piece, Pieces, Parts, TypeOK
      <3>3. Authors(g) = Extended(Authors(f), x)
        BY <3>2, AuthorsOfOneMore
      <3> QED BY <3>1, <3>2, <3>3 DEF Extended
    <2>2. CASE s # fs
      BY <2>2 DEF Frames, TypeOK
    <2> QED BY <2>1, <2>2
  <1>3. \A r \in Threads : pc'[r] \in {"lock", "prefix", "text", "newline"}
                             <=> pc[r] \in {"lock", "prefix", "text", "newline"}
    BY DEF Frames, Goto, TypeOK
  <1> QED BY <1>1, <1>2, <1>3, JournalIdle

(* A record is asked for until its newline is flushed.                     *)
LEMMA JournalWrite ==
  ASSUME TypeOK, Locked, Fresh, TypeOK', Locked', Fresh',
         NEW t \in Threads, Record(t) \/ Header(t)
  PROVE  UNCHANGED Lines!vars
  <1>1. /\ fs \in Streams /\ fs' = fs /\ pc[t] \in {"prefix", "text", "newline", "header"}
        /\ Write(fs, t, pc[t]) /\ pc[t] \in Parts
        /\ pc[t] \in {"prefix", "text"} <=> pc'[t] \in {"lock", "prefix", "text", "newline"}
        /\ \A r \in Threads \ {t} : pc'[r] = pc[r]
    BY LoggerAssumption DEF LoggerAssumption, Record, Header, Goto, Locked, Parts, TypeOK,
                            setup
  <1>2. PICK s, x, b, c :
          /\ s \in Streams /\ s = fs /\ x = Piece(t, pc[t]) /\ b = buffer[s] /\ c = buffer'[s]
    BY <1>1
  <1>3. /\ c = Append(b, x) /\ file' = file
        /\ \A r \in Streams \ {s} : buffer'[r] = buffer[r]
    BY <1>1, <1>2, Written
  <1>4. x \in Pieces /\ b \in Seq(Pieces)
    BY <1>1, <1>2, Typed DEF Piece, Pieces
  <1>5. \A r \in Threads : Ends(c, r) = IF Is(x, r, "newline") THEN Ends(b, r) \cup {Len(b) + 1}
                                        ELSE Ends(b, r)
    BY <1>3, <1>4, EndsAppended
  <1>6. \A r \in Threads : Is(x, r, "newline") <=> r = t /\ pc[t] = "newline"
    BY <1>2 DEF Is, Piece
  <1>7. ASSUME NEW r \in Threads \ {t}
        PROVE  Logging(r)' <=> Logging(r)
    <2>1. Ends(c, r) = Ends(b, r)
      BY <1>5, <1>6
    <2>2. \A q \in Streams : Ends(buffer'[q], r) = Ends(buffer[q], r)
      BY <1>2, <1>3, <2>1
    <2>3. pc'[r] = pc[r]
      BY <1>1
    <2>4. Logging(r)' <=> \/ pc'[r] \in {"lock", "prefix", "text", "newline"}
                          \/ \E q \in Streams : Ends(buffer'[q], r) # {}
      BY DEF Logging, Ends
    <2> QED BY <2>2, <2>3, <2>4 DEF Logging
  <1>8. Logging(t)' <=> Logging(t)
    <2>1. \A q \in Streams : Ends(buffer[q], t) = {}
      BY <1>1 DEF Fresh
    <2>2. \A q \in Streams \ {s} : Ends(buffer'[q], t) = {}
      BY <1>3, <2>1
    <2>3. Ends(buffer'[s], t) # {} <=> pc[t] = "newline"
      BY <1>2, <1>4, <1>5, <1>6, <2>1
    <2>4. Logging(t)' <=> \/ pc'[t] \in {"lock", "prefix", "text", "newline"}
                          \/ \E q \in Streams : Ends(buffer'[q], t) # {}
      BY DEF Logging, Ends
    <2> QED BY <1>1, <1>2, <2>1, <2>2, <2>3, <2>4 DEF Logging
  <1>9. \A r \in Threads : Logging(r)' <=> Logging(r)
    BY <1>7, <1>8
  <1> QED BY <1>1, <1>3, <1>9, JournalStays

LEMMA JournalAsk ==
  ASSUME TypeOK, Locked, Fresh, TypeOK', Locked', Fresh',
         NEW t \in Threads, NEW l \in Levels, Call(t, l)
  PROVE  Lines!Next
  <1>1. /\ fs \in Streams /\ UNCHANGED <<fs, file, buffer>>
        /\ pc[t] = "idle" /\ pc'[t] = "lock" /\ \A r \in Threads \ {t} : pc'[r] = pc[r]
    BY LoggerAssumption DEF LoggerAssumption, Call, Goto, TypeOK, setup
  <1>2. /\ ~InWork(t) /\ InWork(t)'
        /\ \A r \in Threads \ {t} : InWork(r)' <=> InWork(r)
    BY <1>1 DEF InWork
  <1>3. PICK a, b, s : s \in Streams /\ a = Asked /\ b = Asked' /\ s = fs
    BY <1>1
  <1>4. a[t] = NULL /\ b = [a EXCEPT ![t] = s]
    <2>1. /\ \A r \in Threads : a[r] = IF InWork(r) THEN fs ELSE NULL
          /\ a = [r \in Threads |-> a[r]]
      BY <1>3 DEF Asked
    <2>2. /\ \A r \in Threads : b[r] = IF InWork(r)' THEN fs ELSE NULL
          /\ b = [r \in Threads |-> b[r]]
      BY <1>1, <1>3 DEF Asked
    <2>3. \A r \in Threads : b[r] = IF r = t THEN s ELSE a[r]
      BY <1>2, <1>3, <2>1, <2>2
    <2> QED BY <1>2, <2>1, <2>2, <2>3
  <1>5. Recorded' = Recorded
    BY <1>1 DEF Recorded
  <1>6. Lines!Ask(t, s)
    BY <1>3, <1>4, <1>5 DEF Lines!Ask, Asked, Recorded
  <1> QED BY <1>3, <1>6 DEF Lines!Next

(* fflush() brings the records of all threads that have a newline in the   *)
(* buffer to the file at once, in the order of the newlines.               *)
LEMMA JournalPublish ==
  ASSUME TypeOK, Locked, Fresh, TypeOK', Locked', Fresh',
         NEW t \in Threads, Flush(t) \/ HeaderFlush(t)
  PROVE  Lines!Next \/ UNCHANGED Lines!vars
  <1>1. /\ fs \in Streams /\ fs' = fs /\ Drain(fs)
        /\ \A r \in Threads : pc'[r] \in {"lock", "prefix", "text", "newline"}
                                <=> pc[r] \in {"lock", "prefix", "text", "newline"}
    BY LoggerAssumption DEF LoggerAssumption, Flush, Flushed, HeaderFlush, HeaderOut, Goto,
                            Locked, TypeOK, setup
  <1>2. PICK s, f, b, m : /\ s = fs /\ f = file[s] /\ b = buffer[s] /\ m = Stream(s)
    OBVIOUS
  <1>3. /\ s \in Streams /\ f \in Seq(Pieces) /\ b \in Seq(Pieces) /\ m = f \o b
    BY <1>1, <1>2, Typed DEF Stream
  <1>4. /\ file'[s] = m /\ buffer'[s] = <<>>
        /\ \A r \in Streams \ {s} : file'[r] = file[r] /\ buffer'[r] = buffer[r]
    BY <1>1, <1>2, <1>3, Drained
  <1>5. PICK q, S : q = Authors(b) /\ S = ToSet(q)
    OBVIOUS
  <1>6. Authors(m) = Authors(f) \o q
    BY <1>3, <1>5, AuthorsJoined
  <1>7. q \in Seq(Threads) /\ S \in SUBSET Threads
    <2>1. q \in Seq(Threads)
      BY <1>3, <1>5, AuthorsTyped
    <2>2. \A i \in DOMAIN q : q[i] \in Threads
      BY <2>1, LenProperties, ElementOfSeq
    <2> QED BY <1>5, <2>1, <2>2 DEF ToSet
  <1>8. \A r \in Threads : r \in S <=> Ends(b, r) # {}
    BY <1>3, <1>5, AuthorsAre DEF AreAuthors
  <1>9. /\ \A r \in Threads, p \in Streams \ {s} : Ends(buffer[p], r) = {}
        /\ \A r \in S : pc[r] \in {"unlock", "flush"}
        /\ Single(b)
    BY <1>2, <1>3, <1>7, <1>8 DEF Fresh, Single
  <1>10. \A r \in Threads : /\ Logging(r) <=> \/ pc[r] \in {"lock", "prefix", "text", "newline"}
                                             \/ r \in S
                            /\ Logging(r)' <=> pc[r] \in {"lock", "prefix", "text", "newline"}
    <2>1. ASSUME NEW r \in Threads
          PROVE  Logging(r) <=> \/ pc[r] \in {"lock", "prefix", "text", "newline"}
                                \/ r \in S
      BY <1>2, <1>3, <1>8, <1>9 DEF Logging
    <2>2. ASSUME NEW r \in Threads
          PROVE  Logging(r)' <=> pc[r] \in {"lock", "prefix", "text", "newline"}
      <3>1. \A p \in Streams : Ends(buffer'[p], r) = {}
        BY <1>4, <1>9, NoEnds
      <3>2. Logging(r)' <=> \/ pc'[r] \in {"lock", "prefix", "text", "newline"}
                            \/ \E p \in Streams : Ends(buffer'[p], r) # {}
        BY DEF Logging, Ends
      <3> QED BY <1>1, <3>1, <3>2
    <2> QED BY <2>1, <2>2
  <1>11. CASE S = {}
    <2>1. q = <<>>
      <3>1. DOMAIN q = {}
        BY <1>5, <1>11 DEF ToSet
      <3>2. Len(q) \in Nat /\ DOMAIN q = 1 .. Len(q)
        BY <1>7, LenProperties
      <3>3. Len(q) = 0
        BY <3>1, <3>2
      <3> QED BY <1>7, <3>3, EmptySeq
    <2>2. Authors(f) \in Seq(Threads)
      BY <1>3, AuthorsTyped
    <2>3. Authors(m) = Authors(f)
      BY <1>6, <2>1, <2>2, ConcatEmptySeq
    <2>4. \A p \in Streams : Authors(file'[p]) = Authors(file[p])
      BY <1>2, <1>4, <2>3
    <2>5. \A r \in Threads : Logging(r)' <=> Logging(r)
      BY <1>10, <1>11
    <2> QED BY <1>1, <2>4, <2>5, JournalStays
  <1>12. CASE S # {}
    <2>1. PICK a, a1, w, w1 : a = Asked /\ a1 = Asked' /\ w = Recorded /\ w1 = Recorded'
      OBVIOUS
    <2>2. \A r \in Threads : (InWork(r) <=> Logging(r)) /\ (InWork(r)' <=> Logging(r)')
      BY InWorkIs, NextInWorkIs
    <2>3. /\ \A r \in Threads : a[r] = IF Logging(r) THEN s ELSE NULL
          /\ \A r \in Threads : a1[r] = IF Logging(r)' THEN s ELSE NULL
          /\ a1 = [r \in Threads |-> a1[r]]
      BY <1>1, <1>2, <2>1, <2>2 DEF Asked
    <2>4. a1 = [r \in Threads |-> IF r \in S THEN NULL ELSE a[r]]
      <3>1. \A r \in Threads : a1[r] = IF r \in S THEN NULL ELSE a[r]
        BY <1>9, <1>10, <2>3
      <3> QED BY <2>3, <3>1
    <2>5. S \in (SUBSET {r \in Threads : a[r] = s}) \ {{}}
      <3>1. \A r \in S : r \in Threads /\ a[r] = s
        BY <1>7, <1>10, <2>3
      <3> QED BY <1>12, <3>1
    <2>6. q \in SetToSeqs(S)
      BY <1>3, <1>5, <1>9, AuthorsPermute
    <2>7. w1 = [w EXCEPT ![s] = @ \o q]
      <3>1. /\ w = [p \in Streams |-> Authors(file[p])]
            /\ w1 = [p \in Streams |-> Authors(file'[p])]
        BY <2>1 DEF Recorded
      <3>2. w[s] = Authors(f) /\ w1[s] = w[s] \o q
        BY <1>2, <1>3, <1>4, <1>6, <3>1
      <3>3. \A p \in Streams \ {s} : w1[p] = w[p]
        BY <1>4, <3>1
      <3> HIDE DEF Recorded
      <3> QED BY <3>1, <3>2, <3>3
    <2>8. Lines!Publish(s)
      <3>1. S \in (SUBSET {r \in Threads : Asked[r] = s}) \ {{}}
        BY <2>1, <2>5
      <3>2. Recorded' = [Recorded EXCEPT ![s] = @ \o q]
        BY <2>1, <2>7
      <3>3. Asked' = [r \in Threads |-> IF r \in S THEN NULL ELSE Asked[r]]
        BY <2>1, <2>4
      <3>4. q \in Lines!SetToSeqs(S)
        <4>1. Cardinality(S) = Lines!Cardinality(S)
          BY DEF Cardinality, Lines!Cardinality
        <4> QED BY <2>6, <4>1 DEF SetToSeqs, Lines!SetToSeqs
      <3> QED BY <3>1, <3>2, <3>3, <3>4 DEF Lines!Publish, Asked, Recorded
    <2> QED BY <1>3, <2>8 DEF Lines!Next
  <1> QED BY <1>11, <1>12

(* While no thread logs the program may write a stream out, which brings   *)
(* no record, or open its file anew.                                       *)
LEMMA JournalProgram ==
  ASSUME TypeOK, Opened, Locked, Fresh, TypeOK', Locked', Fresh', Program
  PROVE  Lines!Next \/ UNCHANGED Lines!vars
  <1>1. \A t \in Threads : pc[t] = "idle" /\ pc'[t] = "idle"
    BY SetUpEffect
  <1>2. \A t \in Threads : ~InWork(t) /\ ~InWork(t)'
    BY <1>1 DEF InWork
  <1>3. \A s \in Streams, t \in Threads : Ends(buffer[s], t) = {}
    BY <1>1 DEF Fresh
  <1>4. PICK p \in Streams : /\ Kept(p) \/ WrittenOut(p) \/ Emptied(p)
                             /\ \A s \in Streams \ {p} : Kept(s)
    BY SetUpEffect DEF OneStream
  <1>5. PICK f, b, m : f = file[p] /\ b = buffer[p] /\ m = Stream(p)
    OBVIOUS
  <1>6. f \in Seq(Pieces) /\ b \in Seq(Pieces) /\ m = f \o b
    BY <1>5, Typed DEF Stream
  <1>7. Authors(m) = Authors(f)
    <2>1. PICK q : q = Authors(b)
      OBVIOUS
    <2>2. q \in Seq(Threads) /\ Authors(f) \in Seq(Threads)
      BY <1>6, <2>1, AuthorsTyped
    <2>3. \A t \in Threads : t \notin ToSet(q)
      BY <1>3, <1>5, <1>6, <2>1, AuthorsAre DEF AreAuthors
    <2>4. /\ Len(q) \in Nat /\ DOMAIN q = 1 .. Len(q)
          /\ \A i \in 1 .. Len(q) : q[i] \in Threads
      BY <2>2, LenProperties, ElementOfSeq
    <2>5. Len(q) = 0
      <3>1. 1 \notin 1 .. Len(q)
        BY <2>3, <2>4 DEF ToSet
      <3> QED BY <2>4, <3>1
    <2>6. q = <<>>
      BY <2>2, <2>5, EmptySeq
    <2>7. Authors(m) = Authors(f) \o q
      BY <1>6, <2>1, AuthorsJoined
    <2> QED BY <2>2, <2>6, <2>7, ConcatEmptySeq
  <1>8. PICK a, a1, w, w1 : a = Asked /\ a1 = Asked' /\ w = Recorded /\ w1 = Recorded'
    OBVIOUS
  <1>9. a = [t \in Threads |-> NULL] /\ a1 = [t \in Threads |-> NULL]
    BY <1>2, <1>8 DEF Asked
  <1>10. /\ w = [s \in Streams |-> Authors(file[s])]
         /\ w1 = [s \in Streams |-> Authors(file'[s])]
    BY <1>8 DEF Recorded
  <1>11. \A s \in Streams \ {p} : w1[s] = w[s]
    BY <1>4, <1>10 DEF Kept
  <1>12. CASE Kept(p) \/ WrittenOut(p)
    <2>1. w1[p] = w[p]
      BY <1>5, <1>7, <1>10, <1>12 DEF Kept, WrittenOut
    <2>2. w1 = w
      BY <1>10, <1>11, <2>1
    <2> QED BY <1>8, <1>9, <2>2, JournalVars DEF Lines!vars, Asked, Recorded
  <1>13. CASE Emptied(p)
    <2>1. w1[p] = <<>>
      BY <1>10, <1>13, AuthorsOfNone DEF Emptied
    <2>2. w1 = [w EXCEPT ![p] = <<>>]
      BY <1>10, <1>11, <2>1
    <2>3. Lines!Truncate(p)
      BY <1>8, <1>9, <2>2 DEF Lines!Truncate, Asked, Recorded
    <2> QED BY <2>3 DEF Lines!Next
  <1> QED BY <1>4, <1>12, <1>13

LEMMA JournalStep == IInv /\ IInv' /\ [Next]_vars => [Lines!Next]_(Lines!vars)
  <1> SUFFICES ASSUME IInv, IInv', [Next]_vars
               PROVE  Lines!Next \/ UNCHANGED Lines!vars
    OBVIOUS
  <1>0. /\ TypeOK /\ Opened /\ Locked /\ Fresh
        /\ TypeOK' /\ Locked' /\ Fresh'
    BY DEF IInv
  <1>1. CASE Program
    BY <1>0, <1>1, JournalProgram
  <1>2. ASSUME NEW t \in Threads, Lock(t) \/ Unlock(t)
        PROVE  UNCHANGED Lines!vars
    <2>1. UNCHANGED <<fs, file, buffer>>
      BY <1>2 DEF Lock, Unlock, setup
    <2>2. \A r \in Threads : pc'[r] \in {"lock", "prefix", "text", "newline"}
                               <=> pc[r] \in {"lock", "prefix", "text", "newline"}
      BY <1>0, <1>2 DEF Lock, Unlock, Goto, TypeOK
    <2> QED BY <1>0, <2>1, <2>2, JournalIdle
  <1>3. CASE UNCHANGED vars
    <2>1. UNCHANGED <<fs, file, buffer, pc>>
      BY <1>3 DEF vars, setup
    <2> QED BY <1>0, <2>1, JournalIdle
  <1> QED BY <1>0, <1>1, <1>2, <1>3, JournalFrames, JournalWrite, JournalAsk, JournalPublish
          DEF Next, Log

(* For any threads, files and schedule, every record asked for is in the   *)
(* file it was asked for, once, when the call returns.                     *)
THEOREM LogIsAJournal == Spec => ImplementsJournal
  <1>1. Init => IInv
    BY TypeInit, OpenedInit, RecordsInit, TracesInit, FreshInit DEF IInv
  <1>2. IInv /\ [Next]_vars => IInv'
    BY TypeStep, OpenedStep, LockedStep, RecordsStep, TracesStep, FreshStep DEF IInv
  <1> QED BY <1>1, <1>2, JournalInit, JournalStep, PTL DEF Spec, ImplementsJournal, Lines!Spec
=============================================================================
