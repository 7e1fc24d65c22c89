---------------------------- MODULE MemoryProofs ----------------------------
(***************************************************************************)
(* Proofs about the programs whose memory is the question: the blocks of   *)
(* the weather client HW4, the static buffer of the database client HW14   *)
(* and the cells of the list HW7.                                          *)
(***************************************************************************)
EXTENDS Programs, Naturals, Sequences, SequenceTheorems,
        WellFoundedInduction, TLAPS

(***************************************************************************)
(* Weather: for any places, any replies, any pieces they come in and any   *)
(* allocations that fail.                                                  *)
(***************************************************************************)
WeatherTypeOK ==
  /\ step \in {"url", "start", "get", "got", "parse", "area", "desc",
               "done", "failed", "killed", "undefined"}
  /\ input \in WeatherInputs
  /\ local \in [size : Nat, i : Nat, j : Nat]

(* What is allocated where: the reply is held from its parsing to the end, *)
(* the two blocks of a condition only while it is printed.                 *)
Blocks ==
  /\ step = "url" => other = {}
  /\ step = "start" => other = {"url"}
  /\ step \in {"get", "got"} => other \in {{"url"}, {"url", "resp"}}
  /\ step = "parse" => other = {"resp"}
  /\ step = "area" => other = {"areas", "resp"}
  /\ step = "desc" => other \ {"winddir", "descs"} = {"areas", "resp"}
  /\ step \in {"done", "failed"} => other = {}

(* The loop over the conditions stays in them, and the loop over the       *)
(* descriptions in those of one condition.                                 *)
Loops ==
  /\ local.i >= 1
  /\ step = "desc" => /\ local.i <= Forecast!Conditions
                      /\ input.conditions[local.i] # <<>>
                      /\ local.j <= Forecast!Descriptions

WeatherInv == WeatherTypeOK /\ Blocks /\ Loops /\ Forecast!DescsInBounds

-----------------------------------------------------------------------------
(* A set of numbers that is not empty has a smallest element.              *)
LEMMA LeastNatural ==
  ASSUME NEW A \in SUBSET Nat, A # {}
  PROVE  \E m \in A : \A l \in A : m <= l
  <1> DEFINE R == OpToRel(<, Nat)
  <1>1. IsWellFoundedOn(R, Nat)
    BY NatLessThanWellFounded, Zenon
  <1> HIDE DEF R
  <1>2. PICK m \in A : \A l \in A : ~ (<<l, m>> \in R)
    BY <1>1, WFMin
  <1>3. \A l \in A : ~ (l < m)
    BY <1>2 DEF R, OpToRel
  <1> QED BY <1>3

(* sanitize_place() has one end: the first character that is not allowed,  *)
(* or that of the place.                                                   *)
LEMMA PlaceEnds ==
  ASSUME NEW s \in Seq({"valid", "other"})
  PROVE  Forecast!SanitizePlace(s) \in 0 .. Len(s)
  <1> DEFINE A == {n \in 0 .. Len(s) : n < Len(s) => s[n + 1] # "valid"}
  <1>1. Len(s) \in Nat
    BY LenProperties
  <1>2. Len(s) \in A /\ A \in SUBSET Nat
    BY <1>1
  <1>3. PICK m \in A : \A l \in A : m <= l
    BY <1>2, LeastNatural
  <1>4. ASSUME NEW k \in 1 .. m PROVE s[k] = "valid"
    <2>1. k - 1 \in 0 .. Len(s) /\ k - 1 < Len(s) /\ ~(m <= k - 1) /\ k - 1 + 1 = k
      BY <1>1, <1>3
    <2>2. k - 1 \notin A
      BY <1>3, <2>1
    <2> QED BY <2>1, <2>2
  <1>5. m \in 0 .. Len(s) /\ (m < Len(s) => s[m + 1] # "valid")
    BY <1>3
  <1> QED BY <1>4, <1>5 DEF Forecast!SanitizePlace

(* The length of an array, or a number in it, is a number.                 *)
LEMMA WeatherInputType ==
  ASSUME Forecast!WellFormed, input \in WeatherInputs
  PROVE  /\ Forecast!Conditions \in Nat /\ input.bytes \in Nat
         /\ \A c \in 1 .. Forecast!Conditions : input.conditions[c] # <<>> =>
              input.conditions[c][1] \in Nat
         /\ input.place \in Seq({"valid", "other"})
  <1>1. /\ input.conditions \in Seq(Seq(Nat)) /\ input.bytes \in Nat
        /\ input.place \in Seq({"valid", "other"})
    BY DEF Forecast!WellFormed
  <1>2. Forecast!Conditions \in Nat
    BY <1>1, LenProperties DEF Forecast!Conditions
  <1>3. ASSUME NEW c \in 1 .. Forecast!Conditions, input.conditions[c] # <<>>
        PROVE  input.conditions[c][1] \in Nat
    <2>1. input.conditions[c] \in Seq(Nat)
      BY <1>1, <1>3, ElementOfSeq DEF Forecast!Conditions
    <2>2. Len(input.conditions[c]) \in Nat /\ Len(input.conditions[c]) # 0
      BY <1>3, <2>1, LenProperties, EmptySeq
    <2>3. 1 \in 1 .. Len(input.conditions[c])
      BY <2>2
    <2> QED BY <2>1, <2>3, ElementOfSeq
  <1> QED BY <1>1, <1>2, <1>3

LEMMA WeatherInitial == ASSUME Forecast!Init PROVE WeatherInv
  <1>1. 0 \in Nat /\ 1 \in Nat /\ 1 >= 1
    OBVIOUS
  <1> QED BY <1>1
             DEF Forecast!Init, WeatherInv, WeatherTypeOK, Blocks, Loops,
                 Forecast!DescsInBounds

LEMMA WeatherStep ==
  ASSUME Forecast!WellFormed, WeatherInv, [Forecast!Next]_(Forecast!vars)
  PROVE  WeatherInv'
  <1> USE DEF WeatherInv, WeatherTypeOK
  <1>a. /\ Forecast!Conditions \in Nat /\ input.bytes \in Nat
        /\ local.size \in Nat /\ local.i \in Nat /\ local.j \in Nat
    BY WeatherInputType
  <1>b. input' = input => Forecast!Conditions' = Forecast!Conditions
    BY DEF Forecast!Conditions
  <1>1. CASE Forecast!MakeUrl
    <2>1. PICK len \in 0 .. Len(input.place) : len = Forecast!SanitizePlace(input.place)
      BY WeatherInputType, PlaceEnds
    <2>2. 16 + len + 10 + 1 <= len + 27
      BY WeatherInputType, LenProperties
    <2>3. /\ input' = input /\ local' = local /\ step = "url"
          /\ \/ step' = "failed" /\ other' = other
             \/ step' = "start" /\ other' = {"url"}
      BY <1>1, <2>1, <2>2 DEF Forecast!MakeUrl, Forecast!Use
    <2> QED BY <2>3 DEF Blocks, Loops, Forecast!DescsInBounds
  <1>2. CASE Forecast!StartGet
    BY <1>2 DEF Forecast!StartGet, Blocks, Loops, Forecast!DescsInBounds
  <1>3. CASE Forecast!Performed
    BY <1>3 DEF Forecast!Performed, Blocks, Loops, Forecast!DescsInBounds
  <1>4. CASE Forecast!Got
    BY <1>4 DEF Forecast!Got, Blocks, Loops, Forecast!DescsInBounds
  <1>5. CASE Forecast!Parse
    BY <1>5, <1>a
       DEF Forecast!Parse, Forecast!Use, Blocks, Loops, Forecast!DescsInBounds
  <1>6. ASSUME NEW k \in 1 .. input.bytes, Forecast!WriteMemory(k) PROVE WeatherInv'
    <2>1. k \in Nat /\ local.size + k + 1 <= local.size + k + 1
      BY <1>a
    <2>2. /\ input' = input /\ other' = other \cup {"resp"} /\ step = "get" /\ step' = "get"
          /\ local' = [local EXCEPT !.size = @ + k]
      BY <1>6, <2>1 DEF Forecast!WriteMemory, Forecast!Grown, Forecast!Use
    <2>3. /\ local' \in [size : Nat, i : Nat, j : Nat] /\ local'.i = local.i
      BY <1>a, <2>1, <2>2
    <2> QED BY <2>2, <2>3 DEF Blocks, Loops, Forecast!DescsInBounds
  <1>7. CASE Forecast!Area
    <2>1. /\ step = "area" /\ local.i <= Forecast!Conditions /\ input' = input
          /\ local' = [local EXCEPT !.j = 0]
          /\ step' \in {"killed", "desc"}
          /\ step' = "desc" => /\ input.conditions[local.i] # <<>>
                               /\ \/ other' = other \cup {"winddir", "descs"}
                                  \/ other' = other \cup {"winddir"}
      BY <1>7 DEF Forecast!Area, Forecast!NoMemory
    <2>2. /\ local' \in [size : Nat, i : Nat, j : Nat]
          /\ local'.i = local.i /\ local'.j = 0
      BY <2>1
    <2>3. step' = "desc" => /\ Forecast!Descriptions \in Nat
                            /\ Forecast!Descriptions' = Forecast!Descriptions
      BY <1>a, <2>1, <2>2, WeatherInputType DEF Forecast!Descriptions, Loops
    <2>4. Loops'
      BY <1>a, <1>b, <2>1, <2>2, <2>3 DEF Loops
    <2>5. Blocks'
      BY <2>1 DEF Blocks
    <2> QED BY <2>1, <2>2, <2>4, <2>5 DEF Forecast!DescsInBounds
  <1>8. CASE Forecast!Desc
    <2>1. /\ step = "desc" /\ local.j < Forecast!Descriptions /\ input' = input /\ other' = other
          /\ local' = [local EXCEPT !.j = @ + 1]
          /\ step' \in {"desc", "killed", "undefined"}
          /\ step' = "undefined" => ~(local.j + 1 <= Forecast!Conditions)
      BY <1>8 DEF Forecast!Desc, Forecast!NoMemory, Forecast!Use
    <2>2. /\ local' \in [size : Nat, i : Nat, j : Nat]
          /\ local'.i = local.i /\ local'.j = local.j + 1
      BY <1>a, <2>1
    <2>3. /\ local.i \in 1 .. Forecast!Conditions /\ input.conditions[local.i] # <<>>
          /\ Forecast!Descriptions \in Nat /\ Forecast!Descriptions' = Forecast!Descriptions
      BY <1>a, <2>1, <2>2, WeatherInputType DEF Forecast!Descriptions, Loops
    <2>4. Loops'
      BY <1>a, <1>b, <2>1, <2>2, <2>3 DEF Loops
    <2>5. Blocks'
      BY <2>1 DEF Blocks
    <2>6. step' = "undefined" => input.conditions[local.i][1] > Forecast!Conditions
      BY <1>a, <2>1, <2>3 DEF Forecast!Descriptions
    <2>7. Forecast!DescsInBounds'
      BY <1>b, <2>1, <2>3, <2>6 DEF Forecast!DescsInBounds
    <2> QED BY <2>1, <2>2, <2>4, <2>5, <2>7
  <1>9. CASE Forecast!NextArea
    <2>1. /\ step' = "area" /\ input' = input /\ other' = other \ {"winddir", "descs"}
          /\ local' = [local EXCEPT !.i = @ + 1] /\ step = "desc"
      BY <1>9 DEF Forecast!NextArea
    <2>2. local' \in [size : Nat, i : Nat, j : Nat] /\ local'.i = local.i + 1
      BY <1>a, <2>1
    <2> QED BY <1>a, <2>1, <2>2 DEF Blocks, Loops, Forecast!DescsInBounds
  <1>10. CASE Forecast!Finish
    BY <1>10 DEF Forecast!Finish, Blocks, Loops, Forecast!DescsInBounds
  <1>11. CASE UNCHANGED Forecast!vars
    BY <1>11
       DEF Forecast!vars, Blocks, Loops, Forecast!DescsInBounds,
           Forecast!Conditions, Forecast!Descriptions
  <1> QED BY <1>1, <1>2, <1>3, <1>4, <1>5, <1>6, <1>7, <1>8, <1>9, <1>10, <1>11
          DEF Forecast!Next

(* For any reply, in any pieces and with any allocation failing, memory    *)
(* outside of the blocks is used only for a reply of nothing or where a    *)
(* condition has more descriptions than the reply has conditions, and a    *)
(* program that ends by itself has freed every block.                      *)
THEOREM BlocksAreRespected == ProgramSpec => []DescsInBounds
  <1> DEFINE Inv == program = "weather" => WeatherInv
  <1>1. ProgramInit => Inv
    BY WeatherInitial, InputsAreWellFormed DEF ProgramInit
  <1>2. Inv /\ [ProgramNext]_programVars => Inv'
    <2> SUFFICES ASSUME Inv, [ProgramNext]_programVars, program' = "weather"
                 PROVE  WeatherInv'
      OBVIOUS
    <2>1. program = "weather" /\ [Forecast!Next]_(Forecast!vars)
      BY DEF ProgramNext, programVars, Forecast!vars
    <2> QED BY <2>1, WeatherStep, InputsAreWellFormed
  <1>3. Inv => DescsInBounds
    BY DEF WeatherInv, DescsInBounds
  <1> QED BY <1>1, <1>2, <1>3, PTL DEF ProgramSpec

-----------------------------------------------------------------------------
(***************************************************************************)
(* Aggregates: for any number of queries, any values and any size of the   *)
(* buffer.                                                                 *)
(***************************************************************************)
Chars == Nat \cup {NUL, Junk}
Buffers == [0 .. Size - 1 -> Chars]

(* How much of a value fits the buffer, and what query k is to show.       *)
Fitting(val) == IF Len(val) < Size THEN Len(val) ELSE Size - 1
Answer(k) == IF input[k] = <<>> THEN <<>>
             ELSE SubSeq(input[k][1], 1, Fitting(input[k][1]))

QueryTypeOK ==
  /\ step \in {"open", "query", "print", "done", "failed", "undefined"}
  /\ input \in AggregateInputs
  /\ local \in [query : Nat, glob_val : Buffers]
  /\ output \in Seq(Seq(Chars))

(* One line for each query that has been answered.                         *)
Lines ==
  /\ step \in {"open", "query", "print", "failed", "undefined"} =>
       Len(output) = local.query - 1
  /\ step \in {"open", "query", "print"} => local.query \in 1 .. Len(input)
  /\ \A k \in DOMAIN output : output[k] = Answer(k)

(* What lies in the buffer when it is printed is the answer to this query. *)
Held == step = "print" => Queries!Shown(local.glob_val) = Answer(local.query)

QueryInv == QueryTypeOK /\ Lines /\ Held

-----------------------------------------------------------------------------
(* printf() goes up to the first NUL.                                      *)
LEMMA ShownTo ==
  ASSUME Queries!WellFormed, NEW buf \in Buffers, NEW m \in 0 .. Size - 1,
         buf[m] = NUL, \A i \in 0 .. m - 1 : buf[i] # NUL
  PROVE  Queries!Shown(buf) = [k \in 1 .. m |-> buf[k - 1]]
  <1> DEFINE ends == {i \in DOMAIN buf : buf[i] = NUL}
             len == CHOOSE i \in ends : \A j \in ends : i <= j
  <1>1. DOMAIN buf = 0 .. Size - 1 /\ Size \in Nat
    BY DEF Buffers, Queries!WellFormed
  <1>2. m \in ends /\ \A j \in ends : m <= j
    BY <1>1
  <1>3. len = m
    <2>1. len \in ends /\ \A j \in ends : len <= j
      BY <1>2
    <2>2. len \in Nat /\ m \in Nat /\ len <= m /\ m <= len
      BY <1>1, <1>2, <2>1
    <2> HIDE DEF len
    <2> QED BY <2>2
  <1>4. Queries!Shown(buf) = [k \in 1 .. len |-> buf[k - 1]]
    BY <1>2 DEF Queries!Shown
  <1> HIDE DEF len
  <1> QED BY <1>3, <1>4

LEMMA NothingShown ==
  ASSUME Queries!WellFormed, NEW buf \in Buffers
  PROVE  Queries!Emptied(buf) \in Buffers /\ Queries!Shown(Queries!Emptied(buf)) = <<>>
  <1>1. /\ Queries!Emptied(buf) \in Buffers /\ Queries!Emptied(buf)[0] = NUL
        /\ 0 \in 0 .. Size - 1
    BY DEF Queries!WellFormed, Queries!Emptied, Buffers, Chars
  <1>2. \A i \in 0 .. 0 - 1 : Queries!Emptied(buf)[i] # NUL
    OBVIOUS
  <1>3. Queries!Shown(Queries!Emptied(buf)) = [k \in 1 .. 0 |-> Queries!Emptied(buf)[k - 1]]
    BY <1>1, <1>2, ShownTo
  <1> QED BY <1>1, <1>3

LEMMA FittingType ==
  ASSUME Queries!WellFormed, NEW val \in Queries!Values
  PROVE  SubSeq(val, 1, Fitting(val)) \in Seq(Chars)
  <1>1. Len(val) \in Nat /\ \A i \in 1 .. Len(val) : val[i] \in Chars
    BY LenProperties, ElementOfSeq DEF Queries!Values, Chars
  <1>2. PICK m \in Nat : m = Fitting(val) /\ m <= Len(val)
    BY <1>1 DEF Fitting, Queries!WellFormed
  <1>3. \A i \in 1 .. m : val[i] \in Chars
    BY <1>1, <1>2
  <1> QED BY <1>2, <1>3, SubSeqProperties

(* The copy and its NUL leave the value, as far as it fits.                *)
LEMMA ValueShown ==
  ASSUME Queries!WellFormed, NEW buf \in Buffers, NEW val \in Queries!Values
  PROVE  /\ Queries!Cut(Queries!Copied(Queries!Emptied(buf), val), val) \in Buffers
         /\ Queries!Shown(Queries!Cut(Queries!Copied(Queries!Emptied(buf), val), val))
              = SubSeq(val, 1, Fitting(val))
  <1> DEFINE b == Queries!Emptied(buf)
             c == Queries!Copied(b, val)
             d == Queries!Cut(c, val)
             m == Fitting(val)
  <1>1. /\ val \in Seq(Nat \ {NUL}) /\ Len(val) \in Nat
        /\ Size \in Nat /\ Size >= 1 /\ b \in Buffers
    BY NothingShown, LenProperties DEF Queries!WellFormed, Queries!Values
  <1>2. m \in 0 .. Size - 1 /\ m <= Len(val) /\ m \in Nat
    BY <1>1 DEF Fitting
  <1>3. \A i \in 1 .. Len(val) : val[i] \in Nat /\ val[i] # NUL
    BY <1>1, ElementOfSeq
  <1> HIDE DEF b
  <1>4. DOMAIN b = 0 .. Size - 1 /\ \A i \in 0 .. Size - 1 : b[i] \in Chars
    BY <1>1 DEF Buffers
  <1>5. ASSUME NEW i \in 0 .. Size - 1
        PROVE  c[i] \in Chars /\ (i < m => c[i] = val[i + 1])
    <2>1. c[i] = IF i = Size - 1 THEN b[i]
                 ELSE IF i < Len(val) THEN val[i + 1]
                 ELSE IF i = Len(val) THEN NUL ELSE Junk
      BY <1>4 DEF Queries!Copied
    <2>2. i < Len(val) => i + 1 \in 1 .. Len(val)
      BY <1>1
    <2>3. i < m => i # Size - 1 /\ i < Len(val)
      BY <1>1, <1>2
    <2> QED BY <1>3, <1>4, <2>1, <2>2, <2>3 DEF Chars
  <1>6. c \in Buffers
    BY <1>4, <1>5 DEF Queries!Copied, Buffers
  <1> HIDE DEF c, m
  <1>7. d = [c EXCEPT ![m] = NUL]
    <2>1. m = IF Len(val) <= Size - 1 THEN Len(val) ELSE Size - 1
      BY <1>1 DEF Fitting, m
    <2> QED BY <2>1 DEF Queries!Cut
  <1>8. d \in Buffers /\ d[m] = NUL
        /\ \A i \in 0 .. Size - 1 : i < m => d[i] = val[i + 1]
    BY <1>2, <1>5, <1>6, <1>7 DEF Buffers, Chars
  <1> HIDE DEF d
  <1>9. \A i \in 0 .. m - 1 : d[i] = val[i + 1] /\ d[i] # NUL
    <2>1. TAKE i \in 0 .. m - 1
    <2>2. i \in 0 .. Size - 1 /\ i < m /\ i + 1 \in 1 .. Len(val)
      BY <1>1, <1>2
    <2> QED BY <1>3, <1>8, <2>2
  <1>10. Queries!Shown(d) = [k \in 1 .. m |-> d[k - 1]]
    BY <1>2, <1>8, <1>9, ShownTo
  <1>11. \A k \in 1 .. m : d[k - 1] = val[k]
    <2>1. TAKE k \in 1 .. m
    <2>2. k - 1 \in 0 .. m - 1 /\ k - 1 + 1 = k
      BY <1>2
    <2> QED BY <1>9, <2>2
  <1>12. SubSeq(val, 1, m) = [k \in 1 .. m |-> val[k]]
    BY <1>1, <1>2
  <1>13. Queries!Shown(d) = SubSeq(val, 1, m)
    BY <1>10, <1>11, <1>12
  <1> QED BY <1>8, <1>13 DEF b, c, d, m

-----------------------------------------------------------------------------
LEMMA QueryInputType ==
  ASSUME Queries!WellFormed, input \in AggregateInputs
  PROVE  /\ Len(input) \in Nat /\ Len(input) >= 1
         /\ \A k \in 1 .. Len(input) : input[k] # <<>> => input[k][1] \in Queries!Values
  <1>1. input \in Seq(Seq(Queries!Values)) /\ input # <<>>
    BY DEF Queries!WellFormed
  <1>2. ASSUME NEW k \in 1 .. Len(input), input[k] # <<>>
        PROVE  input[k][1] \in Queries!Values
    <2>1. input[k] \in Seq(Queries!Values)
      BY <1>1, ElementOfSeq
    <2>2. Len(input[k]) \in Nat \ {0}
      BY <1>2, <2>1, EmptySeq
    <2>3. 1 \in 1 .. Len(input[k])
      BY <2>2
    <2> QED BY <2>1, <2>3, ElementOfSeq
  <1>3. Len(input) \in Nat \ {0}
    BY <1>1, EmptySeq
  <1> QED BY <1>2, <1>3

LEMMA QueryInitial == ASSUME Queries!WellFormed, Queries!Init PROVE QueryInv
  <1>1. /\ <<>> \in Seq(Seq(Chars)) /\ Len(<<>>) = 0 /\ DOMAIN <<>> = {}
        /\ 1 - 1 = 0 /\ 1 \in Nat
    BY EmptySeq
  <1>2. [i \in 0 .. Size - 1 |-> NUL] \in Buffers
    BY DEF Buffers, Chars
  <1>3. input \in AggregateInputs
    BY DEF Queries!Init
  <1>4. 1 \in 1 .. Len(input)
    BY <1>3, QueryInputType
  <1>5. /\ local.query = 1 /\ local \in [query : Nat, glob_val : Buffers]
        /\ step = "open" /\ output = <<>>
    BY <1>1, <1>2 DEF Queries!Init
  <1>6. QueryTypeOK
    BY <1>1, <1>3, <1>5 DEF QueryTypeOK
  <1>7. Lines /\ Held
    BY <1>1, <1>4, <1>5 DEF Lines, Held
  <1> QED BY <1>6, <1>7 DEF QueryInv

LEMMA QueryStep ==
  ASSUME Queries!WellFormed, QueryInv, [Queries!Next]_(Queries!vars)
  PROVE  QueryInv'
  <1> USE DEF QueryInv, QueryTypeOK
  <1>1. /\ local.query \in Nat /\ local.glob_val \in Buffers
        /\ Len(output) \in Nat /\ DOMAIN output = 1 .. Len(output)
        /\ Len(input) \in Nat
    BY QueryInputType, LenProperties
  <1>2. input' = input => \A k : Answer(k)' = Answer(k)
    BY DEF Answer
  <1>3. ASSUME UNCHANGED <<input, local, output>>,
               step \in {"open", "query"}, step' \in {"query", "failed", "undefined"}
        PROVE  QueryInv'
    <2>1. local'.query = local.query
      BY <1>3
    <2>2. Lines'
      BY <1>2, <1>3, <2>1 DEF Lines
    <2> QED BY <1>3, <2>2 DEF Held
  <1>4. CASE Queries!Connect
    BY <1>3, <1>4 DEF Queries!Connect
  <1>5. CASE Queries!QueryFails
    BY <1>3, <1>5 DEF Queries!QueryFails
  <1>6. ASSUME NEW b \in Buffers, local' = [local EXCEPT !.glob_val = b],
               UNCHANGED <<input, output>>, step = "query",
               step' \in {"print", "undefined"},
               step' = "print" => Queries!Shown(b) = Answer(local.query)
        PROVE  QueryInv'
    <2>1. /\ local'.query = local.query /\ local'.glob_val = b
          /\ local' \in [query : Nat, glob_val : Buffers]
      BY <1>1, <1>6
    <2>2. Lines'
      BY <1>2, <1>6, <2>1 DEF Lines
    <2>3. Held'
      BY <1>2, <1>6, <2>1 DEF Held, Queries!Shown
    <2> QED BY <1>6, <2>1, <2>2, <2>3
  <1>7. CASE Queries!NoRow
    <2>1. /\ local' = [local EXCEPT !.glob_val = Queries!Emptied(local.glob_val)]
          /\ UNCHANGED <<input, output>> /\ step = "query" /\ step' = "print"
          /\ Answer(local.query) = <<>>
      BY <1>7 DEF Queries!NoRow, Answer
    <2> QED BY <1>1, <1>6, <2>1, NothingShown
  <1>8. CASE Queries!Row
    <2>1. PICK val : val = input[local.query][1]
      OBVIOUS
    <2> DEFINE b == Queries!Cut(Queries!Copied(Queries!Emptied(local.glob_val), val), val)
    <2>2. /\ local' = [local EXCEPT !.glob_val = b] /\ UNCHANGED <<input, output>>
          /\ step = "query" /\ step' \in {"print", "undefined"}
          /\ input[local.query] # <<>>
      BY <1>8, <2>1 DEF Queries!Row
    <2>3. val \in Queries!Values
      BY <2>1, <2>2, QueryInputType DEF Lines
    <2>4. Answer(local.query) = SubSeq(val, 1, Fitting(val))
      BY <2>1, <2>2 DEF Answer
    <2>5. b \in Buffers /\ Queries!Shown(b) = Answer(local.query)
      BY <1>1, <2>3, <2>4, ValueShown
    <2> HIDE DEF b
    <2> QED BY <1>6, <2>2, <2>5
  <1>9. CASE Queries!Show
    <2>1. /\ step = "print" /\ input' = input
          /\ output' = Append(output, Queries!Shown(local.glob_val))
          /\ local' = [local EXCEPT !.query = @ + 1]
          /\ step' = IF local.query = Len(input) THEN "done" ELSE "query"
      BY <1>9 DEF Queries!Show
    <2>2. /\ local'.query = local.query + 1
          /\ local' \in [query : Nat, glob_val : Buffers]
      BY <1>1, <2>1
    <2>3. Queries!Shown(local.glob_val) = Answer(local.query)
          /\ local.query \in 1 .. Len(input) /\ Len(output) = local.query - 1
      BY <2>1 DEF Lines, Held
    <2>4. Answer(local.query) \in Seq(Chars)
      <3>1. CASE input[local.query] = <<>>
        BY <3>1, EmptySeq DEF Answer
      <3>2. CASE input[local.query] # <<>>
        <4>1. input[local.query][1] \in Queries!Values
          BY <2>3, <3>2, QueryInputType
        <4> QED BY <3>2, <4>1, FittingType DEF Answer
      <3> QED BY <3>1, <3>2
    <2>5. /\ output' \in Seq(Seq(Chars)) /\ Len(output') = Len(output) + 1
          /\ \A i \in 1 .. Len(output) : output'[i] = output[i]
          /\ output'[Len(output) + 1] = Answer(local.query)
          /\ DOMAIN output' = 1 .. Len(output')
      BY <2>1, <2>3, <2>4, AppendProperties, LenProperties
    <2>6. \A k \in DOMAIN output' : output'[k] = Answer(k)
      <3>1. TAKE k \in DOMAIN output'
      <3>2. k \in 1 .. Len(output) \/ k = Len(output) + 1
        BY <1>1, <2>5
      <3>3. local.query = Len(output) + 1
        BY <1>1, <2>3
      <3> QED BY <1>1, <2>5, <3>2, <3>3 DEF Lines
    <2>7. Lines'
      BY <1>1, <1>2, <2>1, <2>2, <2>3, <2>5, <2>6 DEF Lines
    <2> QED BY <2>1, <2>2, <2>5, <2>7 DEF Held
  <1>10. CASE UNCHANGED Queries!vars
    BY <1>2, <1>10 DEF Queries!vars, Lines, Held, Queries!Shown
  <1> QED BY <1>4, <1>5, <1>7, <1>8, <1>9, <1>10 DEF Queries!Next

(* For any answers and any size of the buffer, each line shows the value   *)
(* of its own query as far as it fits, and nothing of an earlier value or  *)
(* of what libpq has behind this one.                                      *)
THEOREM LinesAreOwn == ProgramSpec => []ShowsOwnValue
  <1> DEFINE Inv == program = "aggregates" => QueryInv
  <1>1. ProgramInit => Inv
    BY QueryInitial, InputsAreWellFormed DEF ProgramInit
  <1>2. Inv /\ [ProgramNext]_programVars => Inv'
    <2> SUFFICES ASSUME Inv, [ProgramNext]_programVars, program' = "aggregates"
                 PROVE  QueryInv'
      OBVIOUS
    <2>1. program = "aggregates" /\ [Queries!Next]_(Queries!vars)
      BY DEF ProgramNext, programVars, Queries!vars
    <2> QED BY <2>1, QueryStep, InputsAreWellFormed
  <1>3. Inv => ShowsOwnValue
    BY DEF QueryInv, Lines, Answer, Fitting, ShowsOwnValue,
           Queries!ShowsOwnValue
  <1> QED BY <1>1, <1>2, <1>3, PTL DEF ProgramSpec

-----------------------------------------------------------------------------
(* HW7, CellList: the two lists of cells.                                  *)
Cell == [value : Nat, next : Nat, live : BOOLEAN]
Locals == [len : 0 .. 6, s1 : Nat, s2 : Nat, at : Nat,
           failed : BOOLEAN, wild : BOOLEAN]

CellTypeOK ==
  /\ step \in {"add", "print", "copy", "print copy", "free", "free copy", "done"}
  /\ local \in Locals
  /\ other \in Seq(Cell)
  /\ output \in [print : Seq(Nat), copy : Seq(Nat)]

(* The first n cells are those of the first list, the others those of its  *)
(* copy, and each points back in its list; what is still to be walked over *)
(* is live.                                                                *)
ListsApart(n) ==
  /\ \A a \in 1 .. n : other[a].next < a
  /\ \A a \in n + 1 .. Len(other) :
       other[a].next = 0 \/ other[a].next \in n + 1 .. a - 1
  /\ local.s1 <= n
  /\ local.s2 = 0 \/ local.s2 \in n + 1 .. Len(other)
  /\ step \in {"add", "print"} => n = Len(other)
  /\ step = "add" => local.at = 0
  /\ step \in {"print", "copy", "free"} => local.at <= n
  /\ step \in {"print copy", "free copy"} =>
       local.at = 0 \/ local.at \in n + 1 .. Len(other)
  /\ step \in {"add", "print", "copy", "print copy"} =>
       \A a \in 1 .. Len(other) : other[a].live
  /\ step = "free" =>
       \A a \in 1 .. Len(other) : a <= local.at \/ a > n => other[a].live
  /\ step = "free copy" =>
       \A a \in n + 1 .. Len(other) : a <= local.at => other[a].live

Shape == ~local.wild /\ \E n \in 0 .. Len(other) : ListsApart(n)

(* The first list holds a part of the array without gaps, from its next    *)
(* element on while it is built, from the one to be printed afterwards.    *)
Element(a, k) ==
  /\ k \in 1 .. 6 /\ other[a].value = Linked!data[k]
  /\ other[a].next # 0 =>
       k < 6 /\ other[other[a].next].value = Linked!data[k + 1]

Printed(k) ==
  /\ k <= 6 /\ Len(output.print) = k
  /\ \A i \in 1 .. k : output.print[i] = Linked!data[i]

Elements ==
  /\ step \in {"add", "print"} => \A a \in 1 .. Len(other) : \E k \in 1 .. 6 : Element(a, k)
  /\ step = "add" => /\ local.s1 # 0 =>
                          /\ local.len < 6
                          /\ other[local.s1].value = Linked!data[local.len + 1]
                     /\ output.print = <<>>
  /\ step = "print" =>
       \E k \in 0 .. 6 :
         /\ Printed(k)
         /\ local.at # 0 => k < 6 /\ other[local.at].value = Linked!data[k + 1]
  /\ step \notin {"add", "print"} => \E k \in 0 .. 6 : Printed(k)

(* How many cells the copy has once k elements have been filtered.         *)
Odd(k) == IF k < 3 THEN 0 ELSE IF k < 5 THEN 1 ELSE 2

(* As long as malloc() has not failed, all is known: the cells of the list  *)
(* and of its copy, and in each step how far main() has come.              *)
CellsKnown ==
  \A a \in 1 .. Len(other) :
    /\ a <= 6 => other[a].value = Linked!data[7 - a] /\ other[a].next = a - 1
    /\ a = 7 => other[a].value = 15 /\ other[a].next = 0
    /\ a = 8 => other[a].value = 23 /\ other[a].next = 7

Adding ==
  /\ Len(other) = 6 - local.len /\ local.s1 = Len(other) /\ local.s2 = 0
  /\ output.copy = <<>>

Listed == local.s1 = 6 /\ local.len = 0

Printing ==
  /\ Listed /\ Len(other) = 6 /\ local.s2 = 0 /\ output.copy = <<>>
  /\ local.at <= 6 /\ Printed(6 - local.at)

Copying ==
  /\ Listed /\ Printed(6) /\ output.copy = <<>>
  /\ local.at <= 6 /\ Len(other) = 6 + Odd(6 - local.at)
  /\ local.s2 = IF Len(other) = 6 THEN 0 ELSE Len(other)

Copied == Listed /\ Printed(6) /\ Len(other) = 8 /\ local.s2 = 8

PrintingCopy ==
  /\ Copied /\ local.at \in {0, 7, 8}
  /\ output.copy = IF local.at = 8 THEN <<>>
                   ELSE IF local.at = 7 THEN <<23>> ELSE <<23, 15>>

Freeing ==
  /\ Copied /\ output.copy = <<23, 15>> /\ local.at <= 6
  /\ \A a \in 1 .. 6 : a > local.at => ~other[a].live

FreeingCopy ==
  /\ Copied /\ output.copy = <<23, 15>> /\ local.at \in {0, 7, 8}
  /\ \A a \in 1 .. 6 : ~other[a].live
  /\ local.at # 8 => ~other[8].live
  /\ local.at = 0 => ~other[7].live

AllFreed ==
  /\ Copied /\ output.copy = <<23, 15>>
  /\ \A a \in 1 .. 8 : ~other[a].live

Complete ==
  /\ CellsKnown
  /\ step = "add" => Adding
  /\ step = "print" => Printing
  /\ step = "copy" => Copying
  /\ step = "print copy" => PrintingCopy
  /\ step = "free" => Freeing
  /\ step = "free copy" => FreeingCopy
  /\ step = "done" => AllFreed

CellInv == CellTypeOK /\ Shape /\ Elements /\ (~local.failed => Complete)

-----------------------------------------------------------------------------
LEMMA Array ==
  /\ Linked!data \in Seq(Nat) /\ Len(Linked!data) = 6
  /\ Linked!data[1] = 4 /\ Linked!data[2] = 8 /\ Linked!data[3] = 15
  /\ Linked!data[4] = 16 /\ Linked!data[5] = 23 /\ Linked!data[6] = 42
  BY DEF Linked!data

LEMMA ArrayInjective ==
  \A j, k \in 1 .. 6 : Linked!data[j] = Linked!data[k] => j = k
  <1>1. \A j \in 1 .. 6 : j \in {1, 2, 3, 4, 5, 6}
    OBVIOUS
  <1> QED BY <1>1, Array

LEMMA CellInitial == ASSUME Linked!Init PROVE CellInv
  <1>1. Len(Linked!data) = 6
    BY Array
  <1>2. CellTypeOK
    BY <1>1 DEF Linked!Init, CellTypeOK, Locals
  <1>3. Len(other) = 0 /\ 0 \in 0 .. Len(other)
    BY DEF Linked!Init
  <1>4. ListsApart(0)
    BY <1>3 DEF Linked!Init, ListsApart
  <1>5. Shape
    BY <1>3, <1>4 DEF Linked!Init, Shape
  <1>6. Elements
    BY <1>1, <1>3 DEF Linked!Init, Elements
  <1>7. Complete
    BY <1>1, <1>3 DEF Linked!Init, Complete, CellsKnown, Adding
  <1> QED BY <1>2, <1>5, <1>6, <1>7 DEF CellInv

(* The fields of the next local.                                           *)
LocalIs(len, s1, s2, at, failed) ==
  /\ local'.len = len /\ local'.s1 = s1 /\ local'.s2 = s2 /\ local'.at = at
  /\ local'.failed = failed /\ local'.wild = local.wild /\ local' \in Locals

Walking == step \in {"print", "copy", "print copy", "free", "free copy"}

(* A cell that is walked over.                                             *)
LEMMA Walked ==
  ASSUME CellTypeOK, Shape, local.at # 0, Walking
  PROVE  /\ local.at \in 1 .. Len(other) /\ other[local.at] \in Cell
         /\ other[local.at].live
         /\ Linked!MovedOn(other[local.at]) = [local EXCEPT !.at = other[local.at].next]
         /\ other[local.at].next \in 0 .. local.at - 1
  <1>1. PICK n \in 0 .. Len(other) : ListsApart(n)
    BY DEF Shape
  <1>2. Len(other) \in Nat /\ local.at \in Nat /\ local \in Locals
    BY LenProperties DEF CellTypeOK, Locals
  <1>a. PICK m \in Nat, a \in Nat : m = Len(other) /\ a = local.at
    BY <1>2
  <1>b. n \in Nat /\ n <= m
    BY <1>a
  <1>d. a # 0
    BY <1>a
  <1>c. a <= n \/ a \in n + 1 .. m
    BY <1>1, <1>a DEF ListsApart, Walking
  <1>3. local.at \in 1 .. Len(other)
    BY <1>a, <1>b, <1>c
  <1>4. other[local.at] \in Cell
    BY <1>3, ElementOfSeq DEF CellTypeOK
  <1>5. other[local.at].live
    <2>1. CASE step \in {"print", "copy", "print copy"}
      BY <1>1, <1>3, <2>1 DEF ListsApart
    <2>2. CASE step = "free"
      BY <1>1, <1>2, <1>3, <2>2 DEF ListsApart
    <2>3. CASE step = "free copy"
      <3>1. local.at \in n + 1 .. Len(other)
        BY <1>1, <2>3 DEF ListsApart
      <3>2. local.at <= local.at
        BY <1>2
      <3> QED BY <1>1, <2>3, <3>1, <3>2 DEF ListsApart
    <2> QED BY <2>1, <2>2, <2>3 DEF Walking
  <1>6. ~local.wild
    BY DEF Shape
  <1>7. Linked!MovedOn(other[local.at]) = [local EXCEPT !.at = other[local.at].next]
    <2>1. (local.wild \/ ~other[local.at].live \/ ~other[local.at].live) = local.wild
      BY <1>5, <1>6, <1>2 DEF Locals
    <2>2. [local EXCEPT !.at = other[local.at].next, !.wild = local.wild]
            = [local EXCEPT !.at = other[local.at].next]
      BY <1>2 DEF Locals
    <2> QED BY <2>1, <2>2 DEF Linked!MovedOn
  <1>8. other[local.at].next \in Nat
    BY <1>4 DEF Cell
  <1>9. other[local.at].next < local.at
    <2>1. PICK x \in Nat : x = other[local.at].next
      BY <1>8
    <2>2. CASE a \in 1 .. n
      BY <1>1, <1>a, <2>2 DEF ListsApart
    <2>3. CASE a \in n + 1 .. m
      <3>1. x = 0 \/ x \in n + 1 .. a - 1
        BY <1>1, <1>a, <2>1, <2>3 DEF ListsApart
      <3> QED BY <1>a, <1>b, <2>1, <3>1
    <2>4. a \in 1 .. n \/ a \in n + 1 .. m
      BY <1>b, <1>c, <1>d
    <2> QED BY <2>2, <2>3, <2>4
  <1> QED BY <1>2, <1>3, <1>4, <1>5, <1>7, <1>8, <1>9
(* What malloc() and free() make of the heap.                              *)
LEMMA CellAdded ==
  ASSUME CellTypeOK, NEW c \in Cell, other' = Append(other, c)
  PROVE  /\ other' \in Seq(Cell) /\ Len(other') = Len(other) + 1
         /\ Len(other) \in Nat
         /\ \A a \in 1 .. Len(other) : other'[a] = other[a]
         /\ other'[Len(other) + 1] = c
  <1>1. other \in Seq(Cell) /\ Len(other) \in Nat
    BY LenProperties DEF CellTypeOK
  <1>2. /\ Append(other, c) \in Seq(Cell)
        /\ Len(Append(other, c)) = Len(other) + 1
        /\ \A a \in 1 .. Len(other) : Append(other, c)[a] = other[a]
        /\ Append(other, c)[Len(other) + 1] = c
    BY <1>1, AppendProperties
  <1> QED BY <1>1, <1>2

LEMMA CellFreed ==
  ASSUME CellTypeOK, NEW b \in 1 .. Len(other),
         other' = [other EXCEPT ![b].live = FALSE]
  PROVE  /\ other' \in Seq(Cell) /\ Len(other') = Len(other)
         /\ Len(other) \in Nat
         /\ \A a \in 1 .. Len(other) :
              /\ other'[a].value = other[a].value /\ other'[a].next = other[a].next
              /\ other'[a].live <=> other[a].live /\ a # b
  <1>1. other \in Seq(Cell) /\ DOMAIN other = 1 .. Len(other) /\ Len(other) \in Nat
    BY LenProperties DEF CellTypeOK
  <1>2. \A a \in 1 .. Len(other) : other[a] \in Cell
    BY <1>1, ElementOfSeq
  <1>3. [other[b] EXCEPT !.live = FALSE] \in Cell
    BY <1>2 DEF Cell
  <1>4. other' = [other EXCEPT ![b] = [other[b] EXCEPT !.live = FALSE]]
    OBVIOUS
  <1>5. other' \in Seq(Cell) /\ Len(other') = Len(other)
    BY <1>1, <1>3, <1>4, ExceptSeq
  <1>6. \A a \in 1 .. Len(other) :
          other'[a] = IF a = b THEN [other[b] EXCEPT !.live = FALSE] ELSE other[a]
    BY <1>1, <1>4
  <1>7. /\ [other[b] EXCEPT !.live = FALSE].value = other[b].value
        /\ [other[b] EXCEPT !.live = FALSE].next = other[b].next
        /\ [other[b] EXCEPT !.live = FALSE].live = FALSE
    BY <1>2 DEF Cell
  <1> QED BY <1>1, <1>2, <1>5, <1>6, <1>7

(* What each action does.                                                  *)
LEMMA AddDone ==
  ASSUME CellTypeOK, Linked!Add
  PROVE  /\ step = "add" /\ step' = step /\ output' = output
         /\ local.len \in 1 .. 6 /\ local.s1 \in Nat
         /\ \/ /\ other' = Append(other, [value |-> Linked!data[local.len],
                                          next |-> local.s1, live |-> TRUE])
               /\ LocalIs(local.len - 1, Len(other) + 1, local.s2, local.at,
                          local.failed)
            \/ /\ other' = other
               /\ LocalIs(local.len - 1, 0, local.s2, local.at, TRUE)
  <1>1. local \in Locals /\ local.len \in 1 .. 6 /\ local.len - 1 \in 0 .. 6
        /\ Len(other) + 1 \in Nat /\ local.s1 \in Nat
    BY LenProperties DEF CellTypeOK, Locals, Linked!Add
  <1>2. /\ step = "add" /\ UNCHANGED <<step, output>>
        /\ Linked!AddElement("s1", Linked!data[local.len],
                            [local EXCEPT !.len = local.len - 1])
    BY DEF Linked!Add
  <1>3. CASE /\ other' = Append(other, [value |-> Linked!data[local.len],
                                        next |-> local.s1, live |-> TRUE])
             /\ local' = [[local EXCEPT !.len = local.len - 1]
                            EXCEPT !.s1 = Len(other) + 1]
    <2>1. LocalIs(local.len - 1, Len(other) + 1, local.s2, local.at, local.failed)
      BY <1>1, <1>3 DEF LocalIs, Locals
    <2> QED BY <1>1, <1>2, <1>3, <2>1
  <1>4. CASE /\ other' = other
             /\ local' = [[local EXCEPT !.len = local.len - 1]
                            EXCEPT !.s1 = 0, !.failed = TRUE]
    <2>1. LocalIs(local.len - 1, 0, local.s2, local.at, TRUE)
      BY <1>1, <1>4 DEF LocalIs, Locals
    <2> QED BY <1>1, <1>2, <1>4, <2>1
  <1> QED BY <1>2, <1>3, <1>4 DEF Linked!AddElement

LEMMA CopyDone ==
  ASSUME CellTypeOK, Shape, Linked!Copy
  PROVE  LET cell == other[local.at] IN
         /\ step = "copy" /\ step' = step /\ output' = output
         /\ local.at # 0 /\ Walking
         /\ \/ /\ cell.value % 2 = 1
               /\ other' = Append(other, [value |-> cell.value,
                                          next |-> local.s2, live |-> TRUE])
               /\ LocalIs(local.len, local.s1, Len(other) + 1, cell.next,
                          local.failed)
            \/ /\ other' = other
               /\ LocalIs(local.len, local.s1, 0, cell.next, TRUE)
            \/ /\ cell.value % 2 # 1 /\ other' = other
               /\ LocalIs(local.len, local.s1, local.s2, cell.next, local.failed)
  <1> DEFINE cell == other[local.at]
  <1>1. /\ step = "copy" /\ UNCHANGED <<step, output>> /\ local.at # 0
        /\ IF Linked!p(cell.value)
           THEN Linked!AddElement("s2", cell.value, Linked!MovedOn(cell))
           ELSE local' = Linked!MovedOn(cell) /\ UNCHANGED other
    BY DEF Linked!Copy
  <1>2. Walking
    BY <1>1 DEF Walking
  <1>3. Linked!MovedOn(cell) = [local EXCEPT !.at = cell.next] /\ cell \in Cell
    BY <1>1, <1>2, Walked
  <1> HIDE DEF cell
  <1>4. local \in Locals /\ cell.next \in Nat /\ Len(other) + 1 \in Nat
    <2>1. Len(other) \in Nat
      BY LenProperties DEF CellTypeOK
    <2>3. Len(other) + 1 \in Nat
      BY <2>1
    <2>2. cell.next \in Nat
      BY <1>3 DEF Cell
    <2> QED BY <2>2, <2>3 DEF CellTypeOK
  <1>5. CASE /\ cell.value % 2 = 1
             /\ other' = Append(other, [value |-> cell.value,
                                        next |-> local.s2, live |-> TRUE])
             /\ local' = [[local EXCEPT !.at = cell.next] EXCEPT !.s2 = Len(other) + 1]
    <2>1. LocalIs(local.len, local.s1, Len(other) + 1, cell.next, local.failed)
      BY <1>4, <1>5 DEF LocalIs, Locals
    <2> QED BY <1>1, <1>2, <1>5, <2>1 DEF cell
  <1>6. CASE /\ other' = other
             /\ local' = [[local EXCEPT !.at = cell.next] EXCEPT !.s2 = 0, !.failed = TRUE]
    <2>1. LocalIs(local.len, local.s1, 0, cell.next, TRUE)
      BY <1>4, <1>6 DEF LocalIs, Locals
    <2> QED BY <1>1, <1>2, <1>6, <2>1 DEF cell
  <1>7. CASE /\ cell.value % 2 # 1 /\ other' = other
             /\ local' = [local EXCEPT !.at = cell.next]
    <2>1. LocalIs(local.len, local.s1, local.s2, cell.next, local.failed)
      BY <1>4, <1>7 DEF LocalIs, Locals
    <2> QED BY <1>1, <1>2, <1>7, <2>1 DEF cell
  <1> QED BY <1>1, <1>3, <1>5, <1>6, <1>7 DEF Linked!AddElement, Linked!p

LEMMA PrintDone ==
  ASSUME CellTypeOK, Shape, Linked!PrintCell
  PROVE  LET cell == other[local.at] IN
         /\ step' = step /\ other' = other /\ local.at # 0 /\ Walking
         /\ LocalIs(local.len, local.s1, local.s2, cell.next, local.failed)
         /\ \/ /\ step = "print"
               /\ output' = [output EXCEPT !.print = Append(@, cell.value)]
            \/ /\ step = "print copy"
               /\ output' = [output EXCEPT !.copy = Append(@, cell.value)]
  <1> DEFINE cell == other[local.at]
  <1>1. /\ UNCHANGED <<step, other>> /\ local.at # 0
        /\ local' = Linked!MovedOn(cell)
        /\ \/ /\ step = "print"
              /\ output' = [output EXCEPT !.print = Append(@, cell.value)]
           \/ /\ step = "print copy"
              /\ output' = [output EXCEPT !.copy = Append(@, cell.value)]
    BY DEF Linked!PrintCell
  <1>2. Walking
    BY <1>1 DEF Walking
  <1>3. Linked!MovedOn(cell) = [local EXCEPT !.at = cell.next] /\ cell \in Cell
    BY <1>1, <1>2, Walked
  <1>4. local \in Locals /\ cell.next \in Nat
    BY <1>3 DEF CellTypeOK, Cell
  <1>5. LocalIs(local.len, local.s1, local.s2, cell.next, local.failed)
    <2> HIDE DEF cell
    <2> QED BY <1>1, <1>3, <1>4 DEF LocalIs, Locals
  <1> QED BY <1>1, <1>2, <1>5

LEMMA FreeDone ==
  ASSUME CellTypeOK, Shape, Linked!FreeCell
  PROVE  /\ step \in {"free", "free copy"} /\ step' = step /\ output' = output
         /\ local.at # 0 /\ Walking
         /\ other' = [other EXCEPT ![local.at].live = FALSE]
         /\ LocalIs(local.len, local.s1, local.s2, other[local.at].next,
                    local.failed)
  <1> DEFINE cell == other[local.at]
  <1>1. /\ step \in {"free", "free copy"} /\ UNCHANGED <<step, output>>
        /\ local.at # 0 /\ other' = [other EXCEPT ![local.at].live = FALSE]
        /\ local' = Linked!MovedOn(cell)
    BY DEF Linked!FreeCell, Linked!Before
  <1>2. Walking
    BY <1>1 DEF Walking
  <1>3. Linked!MovedOn(cell) = [local EXCEPT !.at = cell.next] /\ cell \in Cell
    BY <1>1, <1>2, Walked
  <1>4. local \in Locals /\ cell.next \in Nat
    BY <1>3 DEF CellTypeOK, Cell
  <1>5. LocalIs(local.len, local.s1, local.s2, cell.next, local.failed)
    <2> HIDE DEF cell
    <2> QED BY <1>1, <1>3, <1>4 DEF LocalIs, Locals
  <1> QED BY <1>1, <1>2, <1>5

Goes(from, next, first) ==
  /\ step = from /\ step' = next /\ local.at = 0
  /\ other' = other /\ output' = output
  /\ LocalIs(local.len, local.s1, local.s2, first, local.failed)

LEMMA ThenDone ==
  ASSUME CellTypeOK, NEW from, NEW next, NEW first \in Nat,
         Linked!Then(from, next, first)
  PROVE  Goes(from, next, first)
  BY DEF CellTypeOK, Linked!Then, Goes, LocalIs, Locals

LEMMA ProceedDone ==
  ASSUME CellTypeOK, Linked!Proceed
  PROVE  \/ Goes("add", "print", local.s1) /\ local.len = 0
         \/ Goes("print", "copy", local.s1)
         \/ Goes("copy", "print copy", local.s2)
         \/ Goes("print copy", "free", local.s1)
         \/ Goes("free", "free copy", local.s2)
         \/ Goes("free copy", "done", 0)
  <1>1. local.s1 \in Nat /\ local.s2 \in Nat /\ 0 \in Nat
    BY DEF CellTypeOK, Locals
  <1> QED BY <1>1, ThenDone DEF Linked!Proceed

-----------------------------------------------------------------------------
LEMMA CellTypeStep ==
  ASSUME CellTypeOK, Shape, [Linked!Next]_(Linked!vars)
  PROVE  CellTypeOK'
  <1>1. CASE Linked!Add
    <2>1. PICK k \in 1 .. 6 : k = local.len
      BY <1>1, AddDone
    <2>2. Linked!data[k] \in Nat
      BY Array, ElementOfSeq
    <2>3. [value |-> Linked!data[k], next |-> local.s1, live |-> TRUE] \in Cell
      BY <1>1, <2>2, AddDone DEF Cell
    <2>4. other' \in Seq(Cell)
      BY <1>1, <2>1, <2>3, AddDone, CellAdded DEF CellTypeOK
    <2> QED BY <1>1, <2>4, AddDone DEF CellTypeOK, LocalIs
  <1>2. CASE Linked!PrintCell
    <2>1. other[local.at].value \in Nat
      BY <1>2, PrintDone, Walked DEF Cell
    <2>2. output' \in [print : Seq(Nat), copy : Seq(Nat)]
      <3>1. /\ Append(output.print, other[local.at].value) \in Seq(Nat)
            /\ Append(output.copy, other[local.at].value) \in Seq(Nat)
        BY <2>1, AppendProperties DEF CellTypeOK
      <3> QED BY <1>2, <3>1, PrintDone DEF CellTypeOK
    <2> QED BY <1>2, <2>2, PrintDone DEF CellTypeOK, LocalIs
  <1>3. CASE Linked!Copy
    <2>1. local.s2 \in Nat /\ other[local.at].value \in Nat
      BY <1>3, CopyDone, Walked DEF Cell, CellTypeOK, Locals
    <2>2. [value |-> other[local.at].value, next |-> local.s2, live |-> TRUE]
            \in Cell
      BY <2>1 DEF Cell
    <2>3. other' \in Seq(Cell)
      BY <1>3, <2>2, CopyDone, CellAdded DEF CellTypeOK
    <2> QED BY <1>3, <2>3, CopyDone DEF CellTypeOK, LocalIs
  <1>4. CASE Linked!FreeCell
    <2>1. local.at \in 1 .. Len(other)
      BY <1>4, FreeDone, Walked
    <2>2. other' \in Seq(Cell)
      BY <1>4, <2>1, FreeDone, CellFreed
    <2> QED BY <1>4, <2>2, FreeDone DEF CellTypeOK, LocalIs
  <1>5. CASE Linked!Proceed
    BY <1>5, ProceedDone DEF CellTypeOK, Goes, LocalIs
  <1>6. CASE UNCHANGED Linked!vars
    BY <1>6 DEF Linked!vars, CellTypeOK
  <1> QED BY <1>1, <1>2, <1>3, <1>4, <1>5, <1>6 DEF Linked!Next

(* The facts about the state that the proofs about Shape start from.       *)
LEMMA ShapeFacts ==
  ASSUME CellTypeOK, Shape
  PROVE  \E n, m \in Nat :
           /\ n <= m /\ m = Len(other) /\ ListsApart(n) /\ n \in 0 .. Len(other)
           /\ local.s1 \in Nat /\ local.s2 \in Nat /\ local.at \in Nat
           /\ \A a \in 1 .. m : other[a].next \in Nat
  <1>1. PICK n \in 0 .. Len(other) : ListsApart(n)
    BY DEF Shape
  <1>2. Len(other) \in Nat
    BY LenProperties DEF CellTypeOK
  <1>3. n \in Nat /\ n <= Len(other)
    BY <1>2
  <1>4. \A a \in 1 .. Len(other) : other[a].next \in Nat
    <2>1. \A a \in 1 .. Len(other) : other[a] \in Cell
      BY ElementOfSeq DEF CellTypeOK
    <2> QED BY <2>1 DEF Cell
  <1>5. local.s1 \in Nat /\ local.s2 \in Nat /\ local.at \in Nat
    BY DEF CellTypeOK, Locals
  <1> QED BY <1>1, <1>2, <1>3, <1>4, <1>5

LEMMA ShapeAdd ==
  ASSUME CellTypeOK, Shape, Linked!Add
  PROVE  Shape'
  <1>1. PICK n, m \in Nat :
           /\ n <= m /\ m = Len(other) /\ ListsApart(n)
           /\ local.s1 \in Nat /\ local.s2 \in Nat /\ local.at \in Nat
           /\ \A a \in 1 .. m : other[a].next \in Nat
    BY ShapeFacts
  <1>2. /\ step = "add" /\ step' = "add"
        /\ ~local.wild /\ ~local'.wild /\ local'.at = local.at
        /\ local'.s2 = local.s2
    BY AddDone DEF Shape, LocalIs
  <1>3. n = m /\ local.s2 = 0 /\ local.at = 0
    BY <1>1, <1>2 DEF ListsApart
  <1>4. CASE other' = other /\ local'.s1 = 0
    <2>1. ListsApart(n)'
      BY <1>1, <1>2, <1>3, <1>4 DEF ListsApart
    <2>2. n \in 0 .. Len(other')
      BY <1>1, <1>3, <1>4
    <2> QED BY <1>2, <2>1, <2>2 DEF Shape
  <1>5. ASSUME NEW c \in Cell, c.next = local.s1, c.live,
               other' = Append(other, c), local'.s1 = Len(other) + 1
        PROVE  Shape'
    <2>1. /\ Len(other') = m + 1 /\ other'[m + 1] = c
          /\ \A a \in 1 .. m : other'[a] = other[a]
      BY <1>1, <1>5, CellAdded
    <2>2. local.s1 <= m /\ \A a \in 1 .. m : other[a].next < a /\ other[a].live
      BY <1>1, <1>2, <1>3 DEF ListsApart
    <2>3. \A a \in 1 .. m + 1 : a \in 1 .. m \/ a = m + 1
      BY <1>1
    <2>4. \A a \in 1 .. m + 1 : other'[a].next < a /\ other'[a].live
      BY <1>1, <1>5, <2>1, <2>2, <2>3
    <2>5. m + 1 + 1 .. m + 1 = {} /\ m + 1 \in Nat /\ m + 1 <= m + 1
      BY <1>1
    <2>6. ListsApart(m + 1)'
      BY <1>1, <1>2, <1>3, <1>5, <2>1, <2>4, <2>5 DEF ListsApart
    <2>7. m + 1 \in 0 .. Len(other')
      BY <1>1, <2>1
    <2> QED BY <1>2, <2>6, <2>7 DEF Shape
  <1>6. /\ [value |-> Linked!data[local.len], next |-> local.s1, live |-> TRUE] \in Cell
    <2>1. Linked!data[local.len] \in Nat
      BY AddDone, Array, ElementOfSeq
    <2> QED BY <1>1, <2>1 DEF Cell
  <1> QED BY <1>4, <1>5, <1>6, AddDone DEF LocalIs

(* A cell that is walked over is in one of the two lists, and so is the    *)
(* next one.                                                               *)
LEMMA NextInList ==
  ASSUME NEW n \in Nat, NEW m \in Nat, n <= m, m = Len(other), ListsApart(n),
         \A a \in 1 .. m : other[a].next \in Nat,
         CellTypeOK, Shape, local.at # 0, Walking
  PROVE  /\ local.at \in 1 .. m /\ other[local.at].next \in Nat
         /\ step \in {"print", "copy", "free"} =>
              local.at <= n /\ other[local.at].next <= n
         /\ step \in {"print copy", "free copy"} =>
              /\ local.at \in n + 1 .. m
              /\ \/ other[local.at].next = 0
                 \/ other[local.at].next \in n + 1 .. m
         /\ other[local.at].next < local.at
  <1>1. /\ local.at \in 1 .. m /\ other[local.at].next \in 0 .. local.at - 1
    BY Walked
  <1>2. PICK a \in 1 .. m, x \in Nat : a = local.at /\ x = other[local.at].next
    BY <1>1
  <1>3. x < a
    BY <1>1, <1>2
  <1>4. step \in {"print", "copy", "free"} => a <= n
    BY <1>2 DEF ListsApart
  <1>5. step \in {"print copy", "free copy"} => a \in n + 1 .. m
    BY <1>2 DEF ListsApart
  <1>6. a \in n + 1 .. m => x = 0 \/ x \in n + 1 .. a - 1
    BY <1>2 DEF ListsApart
  <1>7. a <= n => x <= n
    BY <1>3
  <1>8. a \in n + 1 .. m => x = 0 \/ x \in n + 1 .. m
    BY <1>6
  <1> QED BY <1>1, <1>2, <1>3, <1>4, <1>5, <1>7, <1>8

LEMMA ShapeWalk ==
  ASSUME CellTypeOK, Shape, local.at # 0, step' = step, other' = other,
         step \in {"print", "copy", "print copy"},
         NEW s2 \in {local.s2, 0}, NEW failed,
         LocalIs(local.len, local.s1, s2, other[local.at].next, failed)
  PROVE  Shape'
  <1>1. PICK n, m \in Nat :
           /\ n <= m /\ m = Len(other) /\ ListsApart(n) /\ n \in 0 .. Len(other)
           /\ local.s1 \in Nat /\ local.s2 \in Nat /\ local.at \in Nat
           /\ \A a \in 1 .. m : other[a].next \in Nat
    BY ShapeFacts
  <1>2. Walking
    BY DEF Walking
  <1>3. /\ step \in {"print", "copy"} => local'.at <= n
        /\ step = "print copy" => local'.at = 0 \/ local'.at \in n + 1 .. m
    BY <1>1, <1>2, NextInList DEF LocalIs
  <1>4. /\ local'.s2 = 0 \/ local'.s2 \in n + 1 .. Len(other)
        /\ local'.s1 <= n /\ ~local'.wild
    BY <1>1 DEF ListsApart, LocalIs, Shape
  <1>5. ListsApart(n)'
    BY <1>1, <1>3, <1>4 DEF ListsApart
  <1> QED BY <1>1, <1>4, <1>5 DEF Shape

LEMMA ShapeCopy ==
  ASSUME CellTypeOK, Shape, Linked!Copy
  PROVE  Shape'
  <1>1. PICK n, m \in Nat :
           /\ n <= m /\ m = Len(other) /\ ListsApart(n) /\ n \in 0 .. Len(other)
           /\ local.s1 \in Nat /\ local.s2 \in Nat /\ local.at \in Nat
           /\ \A a \in 1 .. m : other[a].next \in Nat
    BY ShapeFacts
  <1>2. step = "copy" /\ step' = step /\ local.at # 0 /\ Walking
    BY CopyDone
  <1>3. ASSUME NEW c \in Cell, c.next = local.s2, c.live, NEW failed,
               other' = Append(other, c),
               LocalIs(local.len, local.s1, Len(other) + 1,
                       other[local.at].next, failed)
        PROVE  Shape'
    <2>1. /\ Len(other') = m + 1 /\ other'[m + 1] = c
          /\ \A a \in 1 .. m : other'[a] = other[a]
      BY <1>1, <1>3, CellAdded
    <2>2. /\ local'.at <= n /\ local'.s1 = local.s1 /\ local'.s2 = m + 1
          /\ ~local'.wild
      BY <1>1, <1>2, <1>3, NextInList DEF LocalIs, Shape
    <2>3. /\ local.s1 <= n
          /\ \A a \in 1 .. n : other[a].next < a
          /\ \A a \in 1 .. m : other[a].live
          /\ \A a \in n + 1 .. m : other[a].next = 0 \/ other[a].next \in n + 1 .. a - 1
          /\ local.s2 = 0 \/ local.s2 \in n + 1 .. m
      BY <1>1, <1>2 DEF ListsApart
    <2>4. /\ \A a \in 1 .. n : a \in 1 .. m
          /\ \A a \in n + 1 .. m : a \in 1 .. m
          /\ \A a \in n + 1 .. m + 1 : a \in n + 1 .. m \/ a = m + 1
          /\ \A a \in 1 .. m + 1 : a \in 1 .. m \/ a = m + 1
          /\ m + 1 \in n + 1 .. m + 1 /\ m + 1 - 1 = m
      BY <1>1
    <2>5. \A a \in 1 .. n : other'[a].next < a
      BY <2>1, <2>3, <2>4
    <2>6. \A a \in n + 1 .. m + 1 :
            other'[a].next = 0 \/ other'[a].next \in n + 1 .. a - 1
      BY <1>3, <2>1, <2>3, <2>4
    <2>7. \A a \in 1 .. m + 1 : other'[a].live
      BY <1>3, <2>1, <2>3, <2>4
    <2>8. ListsApart(n)'
      BY <1>2, <2>1, <2>2, <2>3, <2>4, <2>5, <2>6, <2>7 DEF ListsApart
    <2>9. n \in 0 .. Len(other')
      BY <1>1, <2>1
    <2> QED BY <2>2, <2>8, <2>9 DEF Shape
  <1>4. [value |-> other[local.at].value, next |-> local.s2, live |-> TRUE] \in Cell
    BY <1>1, <1>2, Walked DEF Cell
  <1>5. ASSUME NEW s2 \in {local.s2, 0}, NEW failed, other' = other,
               LocalIs(local.len, local.s1, s2, other[local.at].next, failed)
        PROVE  Shape'
    BY <1>2, <1>5, ShapeWalk
  <1> QED BY <1>3, <1>4, <1>5, CopyDone

LEMMA ShapeFree ==
  ASSUME CellTypeOK, Shape, Linked!FreeCell
  PROVE  Shape'
  <1>1. PICK n, m \in Nat :
           /\ n <= m /\ m = Len(other) /\ ListsApart(n) /\ n \in 0 .. Len(other)
           /\ local.s1 \in Nat /\ local.s2 \in Nat /\ local.at \in Nat
           /\ \A a \in 1 .. m : other[a].next \in Nat
    BY ShapeFacts
  <1>2. /\ step \in {"free", "free copy"} /\ step' = step
        /\ local.at # 0 /\ Walking
        /\ local'.s1 = local.s1 /\ local'.s2 = local.s2 /\ ~local'.wild
    BY FreeDone DEF LocalIs, Shape
  <1>3. PICK at \in 1 .. m, x \in Nat :
           /\ at = local.at /\ x = other[local.at].next /\ x = local'.at /\ x < at
           /\ step = "free" => at <= n /\ x <= n
           /\ step = "free copy" =>
                at \in n + 1 .. m /\ (x = 0 \/ x \in n + 1 .. m)
    <2>1. local'.at = other[local.at].next
      BY FreeDone DEF LocalIs
    <2> QED BY <1>1, <1>2, <2>1, NextInList
  <1>4. /\ Len(other') = m
        /\ \A a \in 1 .. m : /\ other'[a].next = other[a].next
                             /\ other'[a].live <=> other[a].live /\ a # at
    BY <1>1, <1>3, FreeDone, CellFreed
  <1>5. /\ local.s1 <= n
        /\ \A a \in 1 .. n : other[a].next < a
        /\ \A a \in n + 1 .. m : other[a].next = 0 \/ other[a].next \in n + 1 .. a - 1
        /\ local.s2 = 0 \/ local.s2 \in n + 1 .. m
        /\ step = "free" => \A a \in 1 .. m : a <= at \/ a > n => other[a].live
        /\ step = "free copy" => \A a \in n + 1 .. m : a <= at => other[a].live
    BY <1>1, <1>3 DEF ListsApart
  <1>a. /\ \A a \in 1 .. n : a \in 1 .. m
        /\ \A a \in n + 1 .. m : a \in 1 .. m
    BY <1>1
  <1>b. x < at
    BY <1>3
  <1>6. \A a \in 1 .. n : other'[a].next < a
    BY <1>a, <1>4, <1>5
  <1>7. \A a \in n + 1 .. m :
          other'[a].next = 0 \/ other'[a].next \in n + 1 .. a - 1
    BY <1>a, <1>4, <1>5
  <1>8. step = "free" => \A a \in 1 .. m : a <= x \/ a > n => other'[a].live
    <2>1. ASSUME NEW a \in 1 .. m, step = "free", a <= x \/ a > n
          PROVE  other'[a].live
      <3>1. a # at /\ (a <= at \/ a > n)
        BY <1>1, <1>3, <2>1
      <3> QED BY <1>4, <1>5, <2>1, <3>1
    <2> QED BY <2>1
  <1>9. step = "free copy" => \A a \in n + 1 .. m : a <= x => other'[a].live
    <2>1. ASSUME NEW a \in n + 1 .. m, step = "free copy", a <= x
          PROVE  other'[a].live
      <3>1. a \in 1 .. m
        BY <1>a
      <3>2. a # at /\ a <= at
        <4>1. \A j \in 1 .. m : j <= x => j # at /\ j <= at
          BY <1>b
        <4> QED BY <2>1, <3>1, <4>1
      <3> QED BY <1>4, <1>5, <2>1, <3>1, <3>2
    <2> QED BY <2>1
  <1>10. ListsApart(n)'
    BY <1>2, <1>3, <1>4, <1>5, <1>6, <1>7, <1>8, <1>9 DEF ListsApart
  <1> QED BY <1>1, <1>2, <1>4, <1>10 DEF Shape

LEMMA ShapeProceed ==
  ASSUME CellTypeOK, Shape, Linked!Proceed
  PROVE  Shape'
  <1>1. PICK n, m \in Nat :
           /\ n <= m /\ m = Len(other) /\ ListsApart(n) /\ n \in 0 .. Len(other)
           /\ local.s1 \in Nat /\ local.s2 \in Nat /\ local.at \in Nat
           /\ \A a \in 1 .. m : other[a].next \in Nat
    BY ShapeFacts
  <1>2. /\ other' = other /\ local'.s1 = local.s1 /\ local'.s2 = local.s2
        /\ ~local'.wild /\ local.at = 0
    BY ProceedDone DEF Goes, LocalIs, Shape
  <1>3. /\ local.s1 <= n
        /\ \A a \in 1 .. n : other[a].next < a
        /\ \A a \in n + 1 .. m : other[a].next = 0 \/ other[a].next \in n + 1 .. a - 1
        /\ local.s2 = 0 \/ local.s2 \in n + 1 .. m
        /\ step \in {"add", "print"} => n = m
        /\ step \in {"add", "print", "copy", "print copy"} =>
             \A a \in 1 .. m : other[a].live
        /\ step = "free" => \A a \in 1 .. m : a > n => other[a].live
    BY <1>1, <1>2 DEF ListsApart
  <1>4. \A a \in n + 1 .. m : a \in 1 .. m /\ a > n
    BY <1>1
  <1>5. \/ step = "add" /\ step' = "print" /\ local'.at = local.s1
        \/ step = "print" /\ step' = "copy" /\ local'.at = local.s1
        \/ step = "copy" /\ step' = "print copy" /\ local'.at = local.s2
        \/ step = "print copy" /\ step' = "free" /\ local'.at = local.s1
        \/ step = "free" /\ step' = "free copy" /\ local'.at = local.s2
        \/ step = "free copy" /\ step' = "done"
    BY ProceedDone DEF Goes, LocalIs
  <1>6. ListsApart(n)'
    BY <1>1, <1>2, <1>3, <1>4, <1>5 DEF ListsApart
  <1> QED BY <1>1, <1>2, <1>6 DEF Shape

LEMMA ShapeStep ==
  ASSUME CellTypeOK, Shape, [Linked!Next]_(Linked!vars)
  PROVE  Shape'
  <1>1. CASE Linked!PrintCell
    <2>1. local.s2 \in {local.s2, 0}
      OBVIOUS
    <2> QED BY <1>1, <2>1, PrintDone, ShapeWalk
  <1>2. CASE UNCHANGED Linked!vars
    BY <1>2 DEF Linked!vars, Shape, ListsApart
  <1> QED BY <1>1, <1>2, ShapeAdd, ShapeCopy, ShapeFree, ShapeProceed
          DEF Linked!Next

-----------------------------------------------------------------------------
(* The cell behind one that holds element k holds element k + 1.           *)
LEMMA NextElement ==
  ASSUME CellTypeOK, NEW a \in 1 .. Len(other), \E j \in 1 .. 6 : Element(a, j),
         NEW k \in 1 .. 6, other[a].value = Linked!data[k], other[a].next # 0
  PROVE  k < 6 /\ other[other[a].next].value = Linked!data[k + 1]
  <1>1. PICK j \in 1 .. 6 : Element(a, j)
    OBVIOUS
  <1>2. j = k
    BY <1>1, ArrayInjective DEF Element
  <1> QED BY <1>1, <1>2 DEF Element

LEMMA ElementsAdd ==
  ASSUME CellTypeOK, Shape, Elements, Linked!Add
  PROVE  Elements'
  <1>1. /\ step = "add" /\ step' = "add" /\ output' = output
        /\ local.len \in 1 .. 6 /\ local.s1 \in Nat /\ output.print = <<>>
    BY AddDone DEF Elements
  <1>2. PICK k \in 1 .. 6 : k = local.len /\ k - 1 < 6 /\ k - 1 + 1 = k
    BY <1>1
  <1>3. PICK m \in Nat : m = Len(other) /\ local.s1 <= m
    BY <1>1, ShapeFacts DEF ListsApart
  <1>4. ASSUME NEW c \in Cell, c.value = Linked!data[k], c.next = local.s1,
               other' = Append(other, c), local'.s1 = m + 1, local'.len = k - 1
        PROVE  Elements'
    <2>1. /\ Len(other') = m + 1 /\ other'[m + 1] = c
          /\ \A a \in 1 .. m : other'[a] = other[a]
      BY <1>3, <1>4, CellAdded
    <2>2. \A a \in 1 .. m + 1 : a \in 1 .. m \/ a = m + 1
      BY <1>3
    <2>3. ASSUME NEW a \in 1 .. m PROVE \E j \in 1 .. 6 : Element(a, j)'
      <3>1. PICK j \in 1 .. 6 : Element(a, j)
        BY <1>1, <1>3 DEF Elements
      <3>2. other[a].next # 0 => other[a].next \in 1 .. m
        BY <1>1, <1>3, ShapeFacts DEF ListsApart
      <3> QED BY <2>1, <3>1, <3>2 DEF Element
    <2>4. Element(m + 1, k)'
      <3>1. c.next # 0 => c.next \in 1 .. m
        BY <1>1, <1>3, <1>4
      <3>2. c.next # 0 => k < 6 /\ other[c.next].value = Linked!data[k + 1]
        BY <1>1, <1>2, <1>4 DEF Elements
      <3> QED BY <1>4, <2>1, <3>1, <3>2 DEF Element
    <2>5. \A a \in 1 .. Len(other') : \E j \in 1 .. 6 : Element(a, j)'
      BY <2>1, <2>2, <2>3, <2>4
    <2> QED BY <1>1, <1>2, <1>4, <2>1, <2>5 DEF Elements
  <1>5. CASE other' = other /\ local'.s1 = 0
    BY <1>1, <1>5 DEF Elements, Element
  <1>6. [value |-> Linked!data[k], next |-> local.s1, live |-> TRUE] \in Cell
    <2>1. Linked!data[k] \in Nat
      BY Array, ElementOfSeq
    <2> QED BY <1>1, <2>1 DEF Cell
  <1> QED BY <1>2, <1>3, <1>4, <1>5, <1>6, AddDone DEF LocalIs

LEMMA PrintedMore ==
  ASSUME CellTypeOK, NEW k \in 0 .. 5, Printed(k),
         output'.print = Append(output.print, Linked!data[k + 1])
  PROVE  Printed(k + 1)'
  <1>1. /\ output.print \in Seq(Nat) /\ Len(output.print) = k
        /\ \A i \in 1 .. k : output.print[i] = Linked!data[i]
    BY DEF CellTypeOK, Printed
  <1>2. /\ Len(output'.print) = k + 1
        /\ \A i \in 1 .. k : output'.print[i] = output.print[i]
        /\ output'.print[k + 1] = Linked!data[k + 1]
    BY <1>1, AppendProperties
  <1>3. /\ k + 1 <= 6
        /\ \A i \in 1 .. k + 1 : i \in 1 .. k \/ i = k + 1
    OBVIOUS
  <1> QED BY <1>1, <1>2, <1>3 DEF Printed

LEMMA ElementsPrint ==
  ASSUME CellTypeOK, Shape, Elements, Linked!PrintCell
  PROVE  Elements'
  <1>1. /\ step' = step /\ other' = other /\ local.at # 0
        /\ local'.at = other[local.at].next /\ Walking
    BY PrintDone DEF LocalIs
  <1>2. CASE step = "print"
    <2>1. PICK k \in 0 .. 6 :
            Printed(k) /\ k < 6 /\ other[local.at].value = Linked!data[k + 1]
      BY <1>1, <1>2 DEF Elements
    <2>2. PICK j \in 1 .. 6 : j = k + 1 /\ k \in 0 .. 5
      BY <2>1
    <2>3. output' = [output EXCEPT !.print = Append(@, other[local.at].value)]
      BY <1>2, PrintDone
    <2>4. output'.print = Append(output.print, Linked!data[k + 1])
      BY <2>1, <2>3 DEF CellTypeOK
    <2>5. Printed(j)'
      BY <2>1, <2>2, <2>4, PrintedMore
    <2>6. local.at \in 1 .. Len(other)
      BY <1>1, Walked
    <2>7. other[local.at].next # 0 =>
            j < 6 /\ other[other[local.at].next].value = Linked!data[j + 1]
      BY <1>2, <2>1, <2>2, <2>6, NextElement DEF Elements
    <2>8. \A a \in 1 .. Len(other') : \E i \in 1 .. 6 : Element(a, i)'
      BY <1>1, <1>2 DEF Elements, Element
    <2>9. j \in 0 .. 6
      BY <2>2
    <2> QED BY <1>1, <1>2, <2>5, <2>7, <2>8, <2>9 DEF Elements
  <1>3. CASE step = "print copy"
    <2>1. output'.print = output.print
      BY <1>3, PrintDone DEF CellTypeOK
    <2>2. \A k \in 0 .. 6 : Printed(k) => Printed(k)'
      BY <2>1 DEF Printed
    <2> QED BY <1>1, <1>3, <2>2 DEF Elements
  <1> QED BY <1>2, <1>3, PrintDone

LEMMA ElementsStep ==
  ASSUME CellTypeOK, Shape, Elements, [Linked!Next]_(Linked!vars)
  PROVE  Elements'
  <1>1. ASSUME output' = output, step \notin {"add", "print"}, step' \notin {"add", "print"}
        PROVE  Elements'
    <2>1. \A k \in 0 .. 6 : Printed(k) => Printed(k)'
      BY <1>1 DEF Printed
    <2> QED BY <1>1, <2>1 DEF Elements
  <1>2. CASE Linked!Copy
    BY <1>1, <1>2, CopyDone
  <1>3. CASE Linked!FreeCell
    BY <1>1, <1>3, FreeDone
  <1>4. CASE Goes("add", "print", local.s1) /\ local.len = 0
    <2>1. /\ output.print = <<>> /\ output' = output /\ other' = other
          /\ step' = "print" /\ step = "add" /\ local'.at = local.s1
          /\ local.s1 # 0 => other[local.s1].value = Linked!data[1]
      BY <1>4 DEF Elements, Goes, LocalIs
    <2>2. Printed(0)' /\ 0 \in 0 .. 6
      BY <2>1 DEF Printed
    <2>3. \A a \in 1 .. Len(other') : \E i \in 1 .. 6 : Element(a, i)'
      BY <2>1 DEF Elements, Element
    <2> QED BY <2>1, <2>2, <2>3 DEF Elements
  <1>5. CASE Goes("print", "copy", local.s1)
    <2>1. output' = output /\ step' = "copy" /\ step = "print"
      BY <1>5 DEF Goes
    <2>2. \A k \in 0 .. 6 : Printed(k) => Printed(k)'
      BY <2>1 DEF Printed
    <2> QED BY <2>1, <2>2 DEF Elements
  <1>6. CASE \/ Goes("copy", "print copy", local.s2)
             \/ Goes("print copy", "free", local.s1)
             \/ Goes("free", "free copy", local.s2)
             \/ Goes("free copy", "done", 0)
    BY <1>1, <1>6 DEF Goes
  <1>7. CASE UNCHANGED Linked!vars
    BY <1>7 DEF Linked!vars, Elements, Element, Printed
  <1> QED BY <1>2, <1>3, <1>4, <1>5, <1>6, <1>7, ProceedDone, ElementsAdd,
             ElementsPrint DEF Linked!Next

-----------------------------------------------------------------------------

(* As long as malloc() does not fail: the lists cell by cell.              *)
LEMMA CompleteAdd ==
  ASSUME CellTypeOK, Shape, Complete, Linked!Add, ~local'.failed
  PROVE  Complete'
  <1>1. /\ step = "add" /\ step' = "add" /\ output' = output
        /\ local.len \in 1 .. 6 /\ local.s1 \in Nat
        /\ other' = Append(other, [value |-> Linked!data[local.len],
                                   next |-> local.s1, live |-> TRUE])
        /\ local'.len = local.len - 1 /\ local'.s1 = Len(other) + 1
        /\ local'.s2 = local.s2
    BY AddDone DEF LocalIs
  <1>2. PICK k \in 1 .. 6 : k = local.len
    BY <1>1
  <1>a. CellsKnown /\ Adding
    BY <1>1 DEF Complete
  <1>3. PICK m \in 0 .. 5 : m = Len(other) /\ m = 6 - k /\ local.s1 = m
    <2>1. Len(other) = 6 - k /\ local.s1 = Len(other)
      BY <1>2, <1>a DEF Adding
    <2> QED BY <2>1
  <1>4. PICK c \in Cell : /\ c.value = Linked!data[k] /\ c.next = m
                          /\ other' = Append(other, c)
    <2>1. Linked!data[k] \in Nat
      BY Array, ElementOfSeq
    <2>2. [value |-> Linked!data[k], next |-> m, live |-> TRUE] \in Cell
      BY <2>1 DEF Cell
    <2> QED BY <1>1, <1>2, <1>3, <2>2
  <1>5. /\ Len(other') = m + 1 /\ other'[m + 1] = c
        /\ \A a \in 1 .. m : other'[a] = other[a]
    BY <1>3, <1>4, CellAdded
  <1>6. /\ m + 1 <= 6 /\ k = 7 - (m + 1) /\ m + 1 - 1 = m
        /\ m + 1 = 6 - (k - 1)
        /\ \A a \in 1 .. m + 1 : a \in 1 .. m \/ a = m + 1
        /\ \A a \in 1 .. m + 1 : a # 7 /\ a # 8
        /\ \A a \in 1 .. m : a <= 6
    BY <1>3
  <1>7. \A a \in 1 .. m : other[a].value = Linked!data[7 - a] /\ other[a].next = a - 1
    BY <1>3, <1>6, <1>a DEF CellsKnown
  <1>8. \A a \in 1 .. m + 1 :
          other'[a].value = Linked!data[7 - a] /\ other'[a].next = a - 1
    <2> SUFFICES ASSUME NEW a \in 1 .. m + 1
                 PROVE  other'[a].value = Linked!data[7 - a] /\ other'[a].next = a - 1
      OBVIOUS
    <2>1. CASE a \in 1 .. m
      BY <1>5, <1>7, <2>1
    <2>2. CASE a = m + 1
      <3>1. 7 - a = k /\ a - 1 = m
        BY <1>6, <2>2
      <3> QED BY <1>4, <1>5, <2>2, <3>1
    <2> QED BY <1>6, <2>1, <2>2
  <1>9. CellsKnown'
    BY <1>5, <1>6, <1>8 DEF CellsKnown
  <1>10. Adding'
    BY <1>1, <1>2, <1>3, <1>5, <1>6, <1>a DEF Adding
  <1> QED BY <1>1, <1>9, <1>10 DEF Complete

(* The cell that is walked over, and what is behind it.                    *)
LEMMA CompleteCell ==
  ASSUME CellTypeOK, Shape, Complete, Walking, local.at # 0
  PROVE  LET cell == other[local.at] IN
         /\ step \in {"print", "copy", "free"} =>
              \E at \in 1 .. 6 : /\ local.at = at /\ cell.next = at - 1
                                 /\ cell.value = Linked!data[7 - at]
         /\ step \in {"print copy", "free copy"} =>
              \/ local.at = 7 /\ cell.next = 0 /\ cell.value = 15
              \/ local.at = 8 /\ cell.next = 7 /\ cell.value = 23
  <1>1. local.at \in 1 .. Len(other) /\ CellsKnown /\ Len(other) \in Nat
    BY Walked, LenProperties DEF Complete, CellTypeOK
  <1>2. CASE step \in {"print copy", "free copy"}
    <2>1. local.at \in {7, 8}
      BY <1>2 DEF Complete, PrintingCopy, FreeingCopy
    <2>2. CASE local.at = 7
      <3>1. other[7].value = 15 /\ other[7].next = 0
        BY <1>1, <2>2 DEF CellsKnown
      <3> QED BY <1>2, <2>2, <3>1
    <2>3. CASE local.at = 8
      <3>1. other[8].value = 23 /\ other[8].next = 7
        BY <1>1, <2>3 DEF CellsKnown
      <3> QED BY <1>2, <2>3, <3>1
    <2> QED BY <2>1, <2>2, <2>3
  <1>3. CASE step \in {"print", "copy", "free"}
    <2>1. local.at <= 6
      BY <1>3 DEF Complete, Printing, Copying, Freeing
    <2>2. PICK at \in 1 .. 6 : at = local.at /\ at \in 1 .. Len(other)
      BY <1>1, <2>1
    <2>3. other[at].value = Linked!data[7 - at] /\ other[at].next = at - 1
      BY <1>1, <2>2 DEF CellsKnown
    <2> QED BY <1>3, <2>2, <2>3
  <1> QED BY <1>2, <1>3 DEF Walking

LEMMA Pair == Append(<<23>>, 15) = <<23, 15>>
  <1>1. /\ <<23>> \in Seq(Nat) /\ <<23, 15>> \in Seq(Nat)
        /\ Append(<<23>>, 15) \in Seq(Nat)
    BY AppendProperties
  <1>2. Len(<<23>>) = 1 /\ Len(Append(<<23>>, 15)) = 2
    BY <1>1, AppendProperties
  <1>3. Append(<<23>>, 15)[1] = 23 /\ Append(<<23>>, 15)[2] = 15
    BY <1>1, <1>2, AppendProperties
  <1>4. \A i \in 1 .. 2 : Append(<<23>>, 15)[i] = <<23, 15>>[i]
    BY <1>3
  <1> QED BY <1>1, <1>2, <1>4, SeqEqual

LEMMA CompletePrint ==
  ASSUME CellTypeOK, Shape, Complete, Linked!PrintCell
  PROVE  Complete'
  <1>1. /\ step' = step /\ other' = other /\ local.at # 0 /\ Walking
        /\ local'.len = local.len /\ local'.s1 = local.s1
        /\ local'.s2 = local.s2 /\ local'.at = other[local.at].next
    BY PrintDone DEF LocalIs
  <1>2. CellsKnown'
    BY <1>1 DEF Complete, CellsKnown
  <1>3. CASE step = "print"
    <2>1. PICK at \in 1 .. 6 : /\ local.at = at /\ other[local.at].next = at - 1
                               /\ other[local.at].value = Linked!data[7 - at]
      BY <1>1, <1>3, CompleteCell
    <2>2. PICK k \in 0 .. 5 : /\ k = 6 - at /\ k + 1 = 7 - at
                              /\ k + 1 = 6 - (at - 1) /\ at - 1 <= 6
      BY <2>1
    <2>3. output' = [output EXCEPT !.print = Append(@, other[local.at].value)]
      BY <1>3, PrintDone
    <2>4. /\ output'.print = Append(output.print, Linked!data[k + 1])
          /\ output'.copy = output.copy
      BY <2>1, <2>2, <2>3 DEF CellTypeOK
    <2>5. Printing
      BY <1>3 DEF Complete
    <2>6. Printed(k)
      BY <2>1, <2>2, <2>5 DEF Printing
    <2>7. Printed(k + 1)'
      BY <2>4, <2>6, PrintedMore
    <2>8. Printing'
      BY <1>1, <2>1, <2>2, <2>4, <2>5, <2>7 DEF Printing, Listed
    <2> QED BY <1>1, <1>2, <1>3, <2>8 DEF Complete
  <1>4. CASE step = "print copy"
    <2>1. PrintingCopy
      BY <1>4 DEF Complete
    <2>2. output' = [output EXCEPT !.copy = Append(@, other[local.at].value)]
      BY <1>4, PrintDone
    <2>3. /\ output'.copy = Append(output.copy, other[local.at].value)
          /\ output'.print = output.print
      BY <2>2 DEF CellTypeOK
    <2>4. Copied'
      BY <1>1, <2>1, <2>3 DEF PrintingCopy, Copied, Listed, Printed
    <2>a. /\ local.at = 7 => /\ other[local.at].next = 0
                             /\ other[local.at].value = 15
          /\ local.at = 8 => /\ other[local.at].next = 7
                             /\ other[local.at].value = 23
      <3>1. 7 # 8
        OBVIOUS
      <3> QED BY <1>1, <1>4, <3>1, CompleteCell
    <2>5. ASSUME local.at = 8 PROVE PrintingCopy'
      <3>1. other[local.at].next = 7 /\ other[local.at].value = 23
        BY <2>5, <2>a
      <3>2. output.copy = <<>>
        BY <2>1, <2>5 DEF PrintingCopy
      <3>3. output'.copy = <<23>>
        BY <2>3, <3>1, <3>2
      <3> QED BY <1>1, <2>4, <3>1, <3>3 DEF PrintingCopy
    <2>6. ASSUME local.at = 7 PROVE PrintingCopy'
      <3>1. other[local.at].next = 0 /\ other[local.at].value = 15
        BY <2>6, <2>a
      <3>2. output.copy = <<23>>
        BY <2>1, <2>6 DEF PrintingCopy
      <3>3. output'.copy = <<23, 15>>
        BY <2>3, <3>1, <3>2, Pair
      <3> QED BY <1>1, <2>4, <3>1, <3>3 DEF PrintingCopy
    <2>7. PrintingCopy'
      BY <1>1, <2>1, <2>5, <2>6 DEF PrintingCopy
    <2> QED BY <1>1, <1>2, <1>4, <2>7 DEF Complete
  <1> QED BY <1>3, <1>4, PrintDone

LEMMA CompleteFree ==
  ASSUME CellTypeOK, Shape, Complete, Linked!FreeCell
  PROVE  Complete'
  <1>1. /\ step \in {"free", "free copy"} /\ step' = step /\ output' = output
        /\ local.at # 0 /\ Walking
        /\ local'.len = local.len /\ local'.s1 = local.s1
        /\ local'.s2 = local.s2 /\ local'.at = other[local.at].next
        /\ other' = [other EXCEPT ![local.at].live = FALSE]
    BY FreeDone DEF LocalIs
  <1>2. local.at \in 1 .. Len(other)
    BY <1>1, Walked
  <1>3. /\ Len(other') = Len(other) /\ Len(other) \in Nat
        /\ \A a \in 1 .. Len(other) :
             /\ other'[a].value = other[a].value /\ other'[a].next = other[a].next
             /\ other'[a].live <=> other[a].live /\ a # local.at
    BY <1>1, <1>2, CellFreed
  <1>4. CellsKnown'
    <2>1. CellsKnown
      BY DEF Complete
    <2> QED BY <1>3, <2>1 DEF CellsKnown
  <1>5. Copied /\ output.copy = <<23, 15>>
    BY <1>1 DEF Complete, Freeing, FreeingCopy
  <1>6. Copied'
    BY <1>1, <1>3, <1>5 DEF Copied, Listed, Printed
  <1>7. \A a \in 1 .. 8 :
          other'[a].live <=> other[a].live /\ a # local.at
    BY <1>3, <1>5 DEF Copied
  <1>8. CASE step = "free"
    <2>1. Freeing
      BY <1>8 DEF Complete
    <2>2. PICK at \in 1 .. 6 : local.at = at /\ other[local.at].next = at - 1
      BY <1>1, <1>8, CompleteCell
    <2>3. \A a \in 1 .. 6 : a > at => ~other[a].live
      BY <2>1, <2>2 DEF Freeing
    <2>4. \A a \in 1 .. 6 : a \in 1 .. 8
      OBVIOUS
    <2>5. \A a \in 1 .. 6 : a > at - 1 => ~other'[a].live
      <3> SUFFICES ASSUME NEW a \in 1 .. 6, a > at - 1 PROVE ~other'[a].live
        OBVIOUS
      <3>1. a > at \/ a = at
        BY <2>2
      <3> QED BY <1>7, <2>2, <2>3, <2>4, <3>1
    <2>6. at - 1 <= 6
      BY <2>2
    <2>7. Freeing'
      BY <1>1, <1>5, <1>6, <2>2, <2>5, <2>6 DEF Freeing
    <2> QED BY <1>1, <1>4, <1>8, <2>7 DEF Complete
  <1>9. CASE step = "free copy"
    <2>1. FreeingCopy
      BY <1>9 DEF Complete
    <2>2. \/ local.at = 7 /\ local'.at = 0
          \/ local.at = 8 /\ local'.at = 7
      BY <1>1, <1>9, CompleteCell
    <2>3. \A a \in 1 .. 6 : ~other'[a].live
      <3>1. \A a \in 1 .. 6 : a \in 1 .. 8 /\ ~other[a].live
        BY <2>1 DEF FreeingCopy
      <3> QED BY <1>7, <3>1
    <2>4. /\ 7 \in 1 .. 8 /\ 8 \in 1 .. 8 /\ 7 # 8 /\ 7 # 0
      OBVIOUS
    <2>5. CASE local.at = 7 /\ local'.at = 0
      <3>1. ~other'[7].live /\ ~other'[8].live
        BY <1>7, <2>1, <2>4, <2>5 DEF FreeingCopy
      <3>2. FreeingCopy'
        BY <1>1, <1>5, <1>6, <2>3, <2>5, <3>1 DEF FreeingCopy
      <3> QED BY <1>1, <1>4, <1>9, <3>2 DEF Complete
    <2>6. CASE local.at = 8 /\ local'.at = 7
      <3>1. ~other'[8].live
        BY <1>7, <2>4, <2>6
      <3>2. FreeingCopy'
        BY <1>1, <1>5, <1>6, <2>3, <2>4, <2>6, <3>1 DEF FreeingCopy
      <3> QED BY <1>1, <1>4, <1>9, <3>2 DEF Complete
    <2> QED BY <2>2, <2>5, <2>6
  <1> QED BY <1>1, <1>8, <1>9

(* The odd elements of the array are its third and its fifth.              *)
LEMMA OddElements ==
  ASSUME NEW at \in 1 .. 6
  PROVE  /\ Odd(6 - at) \in 0 .. 2
         /\ Linked!data[7 - at] % 2 = 1 <=> at \in {2, 4}
         /\ at = 4 => Odd(6 - at) = 0 /\ Linked!data[7 - at] = 15
         /\ at = 2 => Odd(6 - at) = 1 /\ Linked!data[7 - at] = 23
         /\ at \in {2, 4} => Odd(6 - (at - 1)) = Odd(6 - at) + 1
         /\ at \notin {2, 4} => Odd(6 - (at - 1)) = Odd(6 - at)
  <1>1. at \in {1, 2, 3, 4, 5, 6}
    OBVIOUS
  <1>2. CASE at = 1
    BY <1>2, Array DEF Odd
  <1>3. CASE at = 2
    BY <1>3, Array DEF Odd
  <1>4. CASE at = 3
    BY <1>4, Array DEF Odd
  <1>5. CASE at = 4
    BY <1>5, Array DEF Odd
  <1>6. CASE at = 5
    BY <1>6, Array DEF Odd
  <1>7. CASE at = 6
    BY <1>7, Array DEF Odd
  <1> QED BY <1>1, <1>2, <1>3, <1>4, <1>5, <1>6, <1>7

LEMMA CompleteCopy ==
  ASSUME CellTypeOK, Shape, Complete, Linked!Copy, ~local'.failed
  PROVE  Complete'
  <1>1. /\ step = "copy" /\ step' = step /\ output' = output
        /\ local.at # 0 /\ Walking
        /\ local'.len = local.len /\ local'.s1 = local.s1
        /\ local'.at = other[local.at].next
        /\ \/ /\ other[local.at].value % 2 = 1
              /\ other' = Append(other, [value |-> other[local.at].value,
                                         next |-> local.s2, live |-> TRUE])
              /\ local'.s2 = Len(other) + 1
           \/ /\ other[local.at].value % 2 # 1 /\ other' = other
              /\ local'.s2 = local.s2
    BY CopyDone DEF LocalIs
  <1>2. CellsKnown /\ Copying
    BY <1>1 DEF Complete
  <1>3. PICK at \in 1 .. 6 : /\ local.at = at /\ other[local.at].next = at - 1
                             /\ other[local.at].value = Linked!data[7 - at]
    BY <1>1, CompleteCell
  <1>4. PICK k \in 0 .. 2 : k = Odd(6 - at) /\ Len(other) = 6 + k
    <2>1. Len(other) = 6 + Odd(6 - at)
      BY <1>2, <1>3 DEF Copying
    <2> QED BY <2>1, OddElements
  <1>5. local.s2 = IF k = 0 THEN 0 ELSE 6 + k
    BY <1>2, <1>4 DEF Copying
  <1>6. Printed(6)' /\ Listed' /\ output'.copy = <<>>
    BY <1>1, <1>2 DEF Copying, Printed, Listed
  <1>7. local'.at <= 6 /\ local'.at = at - 1
    BY <1>1, <1>3
  <1>8. CASE at \notin {2, 4}
    <2>1. other' = other /\ local'.s2 = local.s2
      BY <1>1, <1>3, <1>8, OddElements
    <2>2. Len(other') = 6 + Odd(6 - local'.at)
      BY <1>4, <1>7, <1>8, <2>1, OddElements
    <2>3. Copying'
      BY <1>2, <1>6, <1>7, <2>1, <2>2 DEF Copying
    <2>4. CellsKnown'
      BY <1>2, <2>1 DEF CellsKnown
    <2> QED BY <1>1, <2>3, <2>4 DEF Complete
  <1>9. CASE at \in {2, 4}
    <2>1. /\ other' = Append(other, [value |-> Linked!data[7 - at],
                                     next |-> local.s2, live |-> TRUE])
          /\ local'.s2 = Len(other) + 1
      BY <1>1, <1>3, <1>9, OddElements
    <2>2. PICK c \in Cell : /\ c.value = Linked!data[7 - at] /\ c.next = local.s2
                            /\ other' = Append(other, c)
      <3>1. Linked!data[7 - at] \in Nat /\ local.s2 \in Nat
        <4>1. 7 - at \in 1 .. 6
          OBVIOUS
        <4>2. Linked!data[7 - at] \in Nat
          BY <4>1, Array, ElementOfSeq
        <4> QED BY <4>2 DEF CellTypeOK, Locals
      <3>2. [value |-> Linked!data[7 - at], next |-> local.s2, live |-> TRUE] \in Cell
        BY <3>1 DEF Cell
      <3> QED BY <2>1, <3>2
    <2>3. /\ Len(other') = 6 + (k + 1) /\ other'[6 + (k + 1)] = c
          /\ \A a \in 1 .. 6 + k : other'[a] = other[a]
      <3>1. 6 + k + 1 = 6 + (k + 1)
        OBVIOUS
      <3> QED BY <1>4, <2>2, <3>1, CellAdded
    <2>4. Len(other') = 6 + Odd(6 - local'.at)
      BY <1>4, <1>7, <1>9, <2>3, OddElements
    <2>5. Copying'
      <3>1. local'.s2 = 6 + (k + 1) /\ 6 + (k + 1) # 6
        BY <1>4, <2>1
      <3> QED BY <1>6, <1>7, <2>3, <2>4, <3>1 DEF Copying
    <2>6. \/ k = 0 /\ c.value = 15 /\ c.next = 0
          \/ k = 1 /\ c.value = 23 /\ c.next = 7
      <3>1. CASE at = 4
        BY <1>4, <1>5, <2>2, <3>1, OddElements
      <3>2. CASE at = 2
        BY <1>4, <1>5, <2>2, <3>2, OddElements
      <3> QED BY <1>9, <3>1, <3>2
    <2>7. CellsKnown'
      <3>1. ASSUME NEW a \in 1 .. 6 + (k + 1)
            PROVE /\ a <= 6 => other'[a].value = Linked!data[7 - a] /\ other'[a].next = a - 1
                  /\ a = 7 => other'[a].value = 15 /\ other'[a].next = 0
                  /\ a = 8 => other'[a].value = 23 /\ other'[a].next = 7
        <4>1. CASE a \in 1 .. 6 + k
          BY <1>2, <1>4, <2>3, <4>1 DEF CellsKnown
        <4>2. CASE a = 6 + (k + 1)
          <5>1. CASE k = 0
            <6>1. a = 7
              BY <4>2, <5>1
            <6> QED BY <2>3, <2>6, <4>2, <5>1, <6>1
          <5>2. CASE k = 1
            <6>1. a = 8
              BY <4>2, <5>2
            <6> QED BY <2>3, <2>6, <4>2, <5>2, <6>1
          <5> QED BY <2>6, <5>1, <5>2
        <4> QED BY <4>1, <4>2
      <3> QED BY <2>3, <3>1 DEF CellsKnown
    <2> QED BY <1>1, <2>5, <2>7 DEF Complete
  <1> QED BY <1>8, <1>9

LEMMA CompleteProceed ==
  ASSUME CellTypeOK, Shape, Elements, Complete, Linked!Proceed
  PROVE  Complete'
  <1>1. /\ other' = other /\ output' = output /\ local.at = 0
        /\ local'.len = local.len /\ local'.s1 = local.s1
        /\ local'.s2 = local.s2
    BY ProceedDone DEF Goes, LocalIs
  <1>2. CellsKnown /\ CellsKnown'
    BY <1>1 DEF Complete, CellsKnown
  <1>3. /\ Listed => Listed'
        /\ Copied => Copied'
        /\ \A k \in 0 .. 6 : Printed(k) => Printed(k)'
    BY <1>1 DEF Listed, Copied, Printed
  <1>4. Copying => (local.at = 0 => Copied)
    <2>1. Odd(6 - 0) = 2 /\ 6 + 2 = 8 /\ 8 # 6
      BY DEF Odd
    <2> QED BY <2>1 DEF Copying, Copied
  <1>5. CASE Goes("add", "print", local.s1) /\ local.len = 0
    <2>1. step = "add" /\ step' = "print" /\ local'.at = local.s1
      BY <1>5 DEF Goes, LocalIs
    <2>2. Adding /\ output.print = <<>>
      BY <2>1 DEF Complete, Elements
    <2>3. Len(other) = 6 /\ local.s1 = 6 /\ 6 - 6 = 0 /\ 6 <= 6
      BY <1>5, <2>2 DEF Adding
    <2>4. Printed(0)'
      BY <1>1, <2>2 DEF Printed
    <2>5. Printing'
      BY <1>1, <1>5, <2>1, <2>2, <2>3, <2>4 DEF Adding, Printing, Listed
    <2> QED BY <1>2, <2>1, <2>5 DEF Complete
  <1>6. CASE Goes("print", "copy", local.s1)
    <2>1. step = "print" /\ step' = "copy" /\ local'.at = local.s1
      BY <1>6 DEF Goes, LocalIs
    <2>2. Printing
      BY <2>1 DEF Complete
    <2>3. /\ local.s1 = 6 /\ 6 - 6 = 0 /\ 6 - 0 = 6 /\ 6 <= 6 /\ 6 + 0 = 6
          /\ Odd(0) = 0
      BY <2>2 DEF Printing, Listed, Odd
    <2>4. Copying'
      BY <1>1, <1>3, <2>1, <2>2, <2>3 DEF Printing, Copying, Listed
    <2> QED BY <1>2, <2>1, <2>4 DEF Complete
  <1>7. CASE Goes("copy", "print copy", local.s2)
    <2>1. step = "copy" /\ step' = "print copy" /\ local'.at = local.s2
      BY <1>7 DEF Goes, LocalIs
    <2>2. Copied /\ output.copy = <<>>
      BY <1>1, <1>4, <2>1 DEF Complete, Copying
    <2>3. PrintingCopy'
      BY <1>1, <1>3, <2>1, <2>2 DEF Copied, PrintingCopy
    <2> QED BY <1>2, <2>1, <2>3 DEF Complete
  <1>8. CASE Goes("print copy", "free", local.s1)
    <2>1. step = "print copy" /\ step' = "free" /\ local'.at = local.s1
      BY <1>8 DEF Goes, LocalIs
    <2>2. Copied /\ output.copy = <<23, 15>>
      <3>1. PrintingCopy
        BY <2>1 DEF Complete
      <3>2. 0 # 8 /\ 0 # 7
        OBVIOUS
      <3> QED BY <1>1, <3>1, <3>2 DEF PrintingCopy
    <2>3. local'.at <= 6 /\ \A a \in 1 .. 6 : ~(a > local'.at)
      <3>1. local'.at = 6
        BY <2>1, <2>2 DEF Copied, Listed
      <3> QED BY <3>1
    <2>a. Copied' /\ output'.copy = <<23, 15>>
      BY <1>1, <1>3, <2>2
    <2>4. Freeing'
      BY <2>3, <2>a DEF Freeing
    <2> QED BY <1>2, <2>1, <2>4 DEF Complete
  <1>9. CASE Goes("free", "free copy", local.s2)
    <2>1. step = "free" /\ step' = "free copy" /\ local'.at = local.s2
      BY <1>9 DEF Goes, LocalIs
    <2>2. Freeing
      BY <2>1 DEF Complete
    <2>3. \A a \in 1 .. 6 : ~other[a].live
      <3>1. \A a \in 1 .. 6 : a > 0
        OBVIOUS
      <3> QED BY <1>1, <2>2, <3>1 DEF Freeing
    <2>4. FreeingCopy'
      <3>1. Copied /\ output.copy = <<23, 15>>
        BY <2>2 DEF Freeing
      <3>2. local'.at = 8
        BY <2>1, <3>1 DEF Copied
      <3>4. 8 \in {0, 7, 8} /\ 8 # 0
        OBVIOUS
      <3>3. Copied' /\ output'.copy = <<23, 15>>
        BY <1>1, <1>3, <3>1
      <3> QED BY <1>1, <2>3, <3>2, <3>3, <3>4 DEF FreeingCopy
    <2> QED BY <1>2, <2>1, <2>4 DEF Complete
  <1>10. CASE Goes("free copy", "done", 0)
    <2>1. step = "free copy" /\ step' = "done"
      BY <1>10 DEF Goes
    <2>2. FreeingCopy
      BY <2>1 DEF Complete
    <2>3. \A a \in 1 .. 8 : a \in 1 .. 6 \/ a = 7 \/ a = 8
      OBVIOUS
    <2>4. AllFreed'
      BY <1>1, <1>3, <2>2, <2>3 DEF FreeingCopy, AllFreed
    <2> QED BY <1>2, <2>1, <2>4 DEF Complete
  <1> QED BY <1>5, <1>6, <1>7, <1>8, <1>9, <1>10, ProceedDone

LEMMA CellStep ==
  ASSUME CellInv, [Linked!Next]_(Linked!vars)
  PROVE  CellInv'
  <1>1. CellTypeOK /\ Shape /\ Elements
    BY DEF CellInv
  <1>2. CellTypeOK' /\ Shape' /\ Elements'
    BY <1>1, CellTypeStep, ShapeStep, ElementsStep
  <1>3. CASE Linked!Add
    <2>1. local'.failed \/ ~local.failed
      BY <1>1, <1>3, AddDone DEF LocalIs
    <2> QED BY <1>1, <1>2, <1>3, <2>1, AddDone, CompleteAdd
               DEF CellInv, LocalIs
  <1>4. CASE Linked!PrintCell
    <2>1. local'.failed = local.failed
      BY <1>1, <1>4, PrintDone DEF LocalIs
    <2> QED BY <1>1, <1>2, <1>4, <2>1, CompletePrint DEF CellInv
  <1>5. CASE Linked!Copy
    <2>1. local'.failed \/ ~local.failed \/ local'.failed = local.failed
      BY <1>1, <1>5, CopyDone DEF LocalIs
    <2> QED BY <1>1, <1>2, <1>5, <2>1, CompleteCopy DEF CellInv
  <1>6. CASE Linked!FreeCell
    <2>1. local'.failed = local.failed
      BY <1>1, <1>6, FreeDone DEF LocalIs
    <2> QED BY <1>1, <1>2, <1>6, <2>1, CompleteFree DEF CellInv
  <1>7. CASE Linked!Proceed
    <2>1. local'.failed = local.failed
      BY <1>1, <1>7, ProceedDone DEF Goes, LocalIs
    <2> QED BY <1>1, <1>2, <1>7, <2>1, CompleteProceed DEF CellInv
  <1>8. CASE UNCHANGED Linked!vars
    <2>1. Complete => Complete'
      BY <1>8 DEF Linked!vars, Complete, CellsKnown, Adding, Printing, Copying,
                  Copied, PrintingCopy, Freeing, FreeingCopy, AllFreed, Listed,
                  Printed
    <2> QED BY <1>2, <1>8, <2>1 DEF CellInv, Linked!vars
  <1> QED BY <1>3, <1>4, <1>5, <1>6, <1>7, <1>8 DEF Linked!Next

LEMMA CellSafe == ASSUME CellInv PROVE Linked!HeapSafe
  <1>1. CellTypeOK /\ Shape /\ Elements
    BY DEF CellInv
  <1>2. ~local.wild
    BY <1>1 DEF Shape
  <1>3. step = "done" => Linked!IsPrefix(output.print, Linked!data)
    <2> SUFFICES ASSUME step = "done" PROVE Linked!IsPrefix(output.print, Linked!data)
      OBVIOUS
    <2>1. PICK k \in 0 .. 6 : Printed(k)
      BY <1>1 DEF Elements
    <2>2. \A i \in 1 .. k : i \in 1 .. 6
      OBVIOUS
    <2> QED BY <1>1, <2>1, <2>2, Array DEF Printed, Linked!IsPrefix, CellTypeOK
  <1>4. ASSUME step = "done", ~local.failed
        PROVE  /\ output = [print |-> <<4, 8, 15, 16, 23, 42>>, copy |-> <<23, 15>>]
               /\ \A a \in DOMAIN other : ~other[a].live
    <2>1. AllFreed
      BY <1>4 DEF CellInv, Complete
    <2>2. output.print = Linked!data
      <3>1. /\ Len(output.print) = 6 /\ \A i \in 1 .. 6 : output.print[i] = Linked!data[i]
            /\ output.print \in Seq(Nat)
        BY <1>1, <2>1 DEF AllFreed, Copied, Printed, CellTypeOK
      <3>2. /\ Len(output.print) = Len(Linked!data)
            /\ \A i \in 1 .. Len(output.print) : output.print[i] = Linked!data[i]
        BY <3>1, Array
      <3> QED BY <3>1, <3>2, Array, SeqEqual
    <2>3. output = [print |-> Linked!data, copy |-> <<23, 15>>]
      BY <1>1, <2>1, <2>2 DEF AllFreed, CellTypeOK
    <2>4. DOMAIN other = 1 .. 8
      BY <1>1, <2>1, LenProperties DEF AllFreed, Copied, CellTypeOK
    <2> QED BY <2>1, <2>3, <2>4 DEF AllFreed, Linked!data
  <1> QED BY <1>2, <1>3, <1>4 DEF Linked!HeapSafe

(* HW7: no cell is used or freed after free(), whatever malloc() does; and *)
(* unless it fails, both lines are printed in full and every cell is freed.*)
THEOREM CellsAreSafe == ProgramSpec => []HeapSafe
  <1> DEFINE Inv == program = "cell list" => CellInv
  <1>1. ProgramInit => Inv
    BY CellInitial DEF ProgramInit
  <1>2. Inv /\ [ProgramNext]_programVars => Inv'
    <2> SUFFICES ASSUME Inv, [ProgramNext]_programVars, program' = "cell list"
                 PROVE  CellInv'
      OBVIOUS
    <2>1. program = "cell list" /\ [Linked!Next]_(Linked!vars)
      BY DEF ProgramNext, programVars, Linked!vars
    <2> QED BY <2>1, CellStep
  <1>3. Inv => HeapSafe
    BY CellSafe DEF HeapSafe
  <1> QED BY <1>1, <1>2, <1>3, PTL DEF ProgramSpec
=============================================================================
