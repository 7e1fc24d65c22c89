----------------------------- MODULE TaxiProofs -----------------------------
(***************************************************************************)
(* Proofs about Taxi: type correctness, that one timer is set whenever the *)
(* loop waits, and that the icon agrees with the last row, for all         *)
(* configurations, replies and acceptable costs.                           *)
(***************************************************************************)
EXTENDS Taxi, TLAPS

Before == {"off", "config", "connect"}

(* One timer from the first g_timeout_add() to the end of the run, also    *)
(* while tray_icon_update() runs.                                          *)
Timers == timers = IF pc \in Before THEN 0 ELSE 1

(* The row is the price this run has parsed last, once it is stored.       *)
RowStored ==
  /\ pc \in Before => price = None
  /\ pc \in {"insert", "icon", "return"} => price # None
  /\ price # None /\ pc # "insert" => row = Rounded(price)

(* The icon shows that price, once it is set.                              *)
IconSet ==
  price # None /\ ~wild /\ pc \notin {"insert", "icon"} =>
    icon = IF price < 4 * AcceptableCost THEN "price1" ELSE "price2"

IInv == TypeOK /\ Timers /\ RowStored /\ IconSet

-----------------------------------------------------------------------------
(* Prices are natural numbers.                                             *)
LEMMA PricesNat == Prices \subseteq Nat
<1> SUFFICES ASSUME NEW r \in Replies, NEW i \in DOMAIN r PROVE r[i] \in Nat
  BY DEF Prices
<1>1. r \in Seq(Nat)
  BY TaxiAssumption DEF TaxiAssumption
<1> QED BY <1>1

(* The first price of a reply is one of Prices.                            *)
LEMMA HeadIsPrice ==
  ASSUME NEW r \in Replies, r # <<>> PROVE Head(r) \in Prices
<1>1. r \in Seq(Nat)
  BY TaxiAssumption DEF TaxiAssumption
<1>2. 1 \in DOMAIN r /\ Head(r) = r[1]
  BY <1>1
<1> QED BY <1>2 DEF Prices

(* Rounding gives a whole rouble at most half a rouble away.               *)
LEMMA RoundedNear ==
  ASSUME NEW p \in Nat
  PROVE /\ Rounded(p) \in Nat
        /\ 4 * Rounded(p) <= p + 2
        /\ p <= 4 * Rounded(p) + 2
BY DEF Rounded

-----------------------------------------------------------------------------
LEMMA InitInv == Init => IInv
<1> SUFFICES ASSUME Init PROVE IInv
  OBVIOUS
<1>1. TypeOK
  BY DEF Init, TypeOK
<1>2. Timers /\ RowStored /\ IconSet
  BY DEF Init, Timers, Before, RowStored, IconSet
<1> QED BY <1>1, <1>2 DEF IInv

(* However a run ends, it ends at End.                                     *)
LEMMA EndInv == IInv /\ End => IInv'
<1> SUFFICES ASSUME IInv, End PROVE IInv'
  OBVIOUS
<1>1. TypeOK'
  BY DEF IInv, End, TypeOK
<1>2. (Timers /\ RowStored /\ IconSet)'
  BY DEF IInv, End, Timers, Before, RowStored, IconSet
<1> QED BY <1>1, <1>2 DEF IInv

(* The price that insertPrice() stores gives a row of whole roubles.       *)
LEMMA InsertType == IInv /\ InsertPrice => row' = Rounded(price) /\ row' \in Nat
<1> SUFFICES ASSUME IInv, InsertPrice PROVE row' = Rounded(price) /\ row' \in Nat
  OBVIOUS
<1>1. price \in Nat
  BY PricesNat DEF IInv, TypeOK, RowStored, InsertPrice, Goto
<1>2. row' = Rounded(price)
  BY DEF InsertPrice, Accepted
<1> QED BY <1>1, <1>2, RoundedNear

LEMMA TypeNext == IInv /\ [Next]_vars => TypeOK'
<1> SUFFICES ASSUME IInv, [Next]_vars PROVE TypeOK'
  OBVIOUS
<1>a. TypeOK
  BY DEF IInv
<1>1. CASE Start
  BY <1>a, <1>1 DEF TypeOK, Goto, Start
<1>2. CASE ReadConfigFile
  BY <1>a, <1>2 DEF TypeOK, Goto, ReadConfigFile
<1>3. CASE Connect
  BY <1>a, <1>3 DEF TypeOK, Goto, Connect
<1>4. CASE Dispatch
  BY <1>a, <1>4 DEF TypeOK, Goto, Dispatch
<1>5. CASE DoGet
  BY <1>a, <1>5 DEF TypeOK, Goto, DoGet
<1>6. CASE NoPrice
  BY <1>a, <1>6 DEF TypeOK, Goto, NoPrice, Kept, OnFailure
<1>7. CASE Parse
  BY <1>a, <1>7, HeadIsPrice DEF TypeOK, Goto, Parse
<1>8. CASE InsertPrice
  BY <1>a, <1>8, InsertType DEF TypeOK, Goto, InsertPrice
<1>9. CASE SetIcon
  BY <1>a, <1>9 DEF TypeOK, Goto, SetIcon
<1>10. CASE Return
  BY <1>a, <1>10 DEF TypeOK, Goto, Return, Kept, OnSuccess
<1>11. CASE End
  BY <1>11, EndInv DEF IInv
<1>12. CASE UNCHANGED vars
  BY <1>a, <1>12 DEF TypeOK, vars
<1> QED
  BY <1>1, <1>2, <1>3, <1>4, <1>5, <1>6, <1>7, <1>8, <1>9, <1>10, <1>11, <1>12
  DEF Next, Update, ConfigError, ConnectError, ParseAborts, InsertError, Kill

(* Every return of tray_icon_update() leaves one timer: the one it keeps   *)
(* by returning 1, or the one it has set before returning 0.               *)
LEMMA TimersNext == IInv /\ [Next]_vars => Timers'
<1> SUFFICES ASSUME IInv, [Next]_vars PROVE Timers'
  OBVIOUS
<1> USE DEF Timers, Before, Goto
<1>a. Timers
  BY DEF IInv
<1>1. CASE NoPrice \/ Return
  BY <1>a, <1>1 DEF NoPrice, Return, Kept, OnFailure, OnSuccess
<1>2. CASE Start \/ ReadConfigFile \/ Connect
  BY <1>a, <1>2 DEF Start, ReadConfigFile, Connect
<1>3. CASE Dispatch \/ DoGet \/ Parse
  BY <1>a, <1>3 DEF Dispatch, DoGet, Parse
<1>4. CASE InsertPrice \/ SetIcon
  BY <1>a, <1>4 DEF InsertPrice, SetIcon
<1>5. CASE End
  BY <1>5, EndInv DEF IInv
<1>6. CASE UNCHANGED vars
  BY <1>a, <1>6 DEF vars
<1> QED
  BY <1>1, <1>2, <1>3, <1>4, <1>5, <1>6
  DEF Next, Update, ConfigError, ConnectError, ParseAborts, InsertError, Kill

(* The row follows the price: insertPrice() comes between the reply and    *)
(* everything that returns to the loop with a new price.                   *)
LEMMA RowNext == IInv /\ [Next]_vars => RowStored'
<1> SUFFICES ASSUME IInv, [Next]_vars PROVE RowStored'
  OBVIOUS
<1> USE DEF RowStored, Before, Goto
<1>a. RowStored
  BY DEF IInv
<1>1. CASE Start \/ ReadConfigFile \/ Connect
  BY <1>a, <1>1 DEF Start, ReadConfigFile, Connect
<1>2. CASE Dispatch \/ DoGet \/ NoPrice
  BY <1>a, <1>2 DEF Dispatch, DoGet, NoPrice
<1>3. CASE Parse
  <2>1. price' # None
    <3>1. Prices \subseteq Int
      BY PricesNat
    <3>2. price' \in Prices
      BY <1>3, HeadIsPrice DEF Parse
    <3> QED BY <3>1, <3>2, TaxiAssumption DEF TaxiAssumption
  <2> QED BY <1>3, <2>1 DEF Parse
<1>4. CASE InsertPrice
  BY <1>a, <1>4, InsertType DEF InsertPrice
<1>5. CASE SetIcon \/ Return
  BY <1>a, <1>5 DEF SetIcon, Return
<1>6. CASE End
  BY <1>6, EndInv DEF IInv
<1>7. CASE UNCHANGED vars
  BY <1>a, <1>7 DEF vars
<1> QED
  BY <1>1, <1>2, <1>3, <1>4, <1>5, <1>6, <1>7
  DEF Next, Update, ConfigError, ConnectError, ParseAborts, InsertError, Kill

(* The icon follows the price, as acceptable_cost is that of the run.      *)
LEMMA IconNext == IInv /\ [Next]_vars => IconSet'
<1> SUFFICES ASSUME IInv, [Next]_vars PROVE IconSet'
  OBVIOUS
<1> USE DEF IconSet, AcceptableCost, Goto
<1>a. IconSet /\ RowStored
  BY DEF IInv
<1>1. CASE Start \/ ReadConfigFile \/ Connect
  BY <1>a, <1>1 DEF Start, ReadConfigFile, Connect, RowStored, Before
<1>2. CASE Dispatch \/ DoGet \/ NoPrice
  BY <1>a, <1>2 DEF Dispatch, DoGet, NoPrice
<1>3. CASE Parse \/ InsertPrice
  BY <1>3 DEF Parse, InsertPrice
<1>4. CASE SetIcon
  BY <1>4 DEF SetIcon, Read
<1>5. CASE Return
  BY <1>a, <1>5 DEF Return
<1>6. CASE End
  BY <1>6, EndInv DEF IInv
<1>7. CASE UNCHANGED vars
  BY <1>a, <1>7 DEF vars
<1> QED
  BY <1>1, <1>2, <1>3, <1>4, <1>5, <1>6, <1>7
  DEF Next, Update, ConfigError, ConnectError, ParseAborts, InsertError, Kill

-----------------------------------------------------------------------------
(* The invariant holds in every reachable state.                           *)
THEOREM Inductive == Spec => []IInv
<1>1. IInv /\ [Next]_vars => IInv'
  BY TypeNext, TimersNext, RowNext, IconNext DEF IInv
<1> QED BY InitInv, <1>1, PTL DEF Spec

(* Every variable keeps its type: in particular a stored row is a number.  *)
THEOREM TypeCorrect == Spec => []TypeOK
<1>1. IInv => TypeOK
  BY DEF IInv
<1> QED BY Inductive, <1>1, PTL

(* Whenever the loop waits there is one timer, so that the callback is     *)
(* neither lost after a failure nor doubled after a success.               *)
THEOREM TimerStaysSingle == Spec => []OneTimer
<1>1. IInv => OneTimer
  BY DEF IInv, Timers, Before, OneTimer
<1> QED BY Inductive, <1>1, PTL

(* The icon a waiting program shows agrees with the row it stored last, up *)
(* to half a rouble of rounding.                                           *)
THEOREM IconMatchesRow == Spec => []IconAgreesWithRow
<1>1. IInv => IconAgreesWithRow
  <2> SUFFICES ASSUME IInv, pc = "loop", price # None, ~wild
               PROVE /\ row # None
                     /\ icon = "price1" => row <= AcceptableCost
                     /\ icon = "price2" => row >= AcceptableCost
    BY DEF IconAgreesWithRow
  <2>1. price \in Nat /\ row = Rounded(price)
    BY PricesNat DEF IInv, TypeOK, RowStored
  <2>2. icon = IF price < 4 * AcceptableCost THEN "price1" ELSE "price2"
    BY DEF IInv, IconSet
  <2>3. AcceptableCost \in Int
    BY TaxiAssumption DEF TaxiAssumption, AcceptableCost
  <2>4. row \in Nat /\ 4 * row <= price + 2 /\ price <= 4 * row + 2
    BY <2>1, RoundedNear
  <2>5. row # None
    BY <2>4, TaxiAssumption DEF TaxiAssumption
  <2>6. CASE price < 4 * AcceptableCost
    <3>1. row <= AcceptableCost
      BY <2>1, <2>3, <2>4, <2>6
    <3> QED BY <2>2, <2>5, <2>6, <3>1
  <2>7. CASE ~(price < 4 * AcceptableCost)
    <3>1. row >= AcceptableCost
      BY <2>1, <2>3, <2>4, <2>7
    <3> QED BY <2>2, <2>5, <2>7, <3>1
  <2> QED BY <2>6, <2>7
<1> QED BY Inductive, <1>1, PTL
=============================================================================
