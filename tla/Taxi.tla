-------------------------------- MODULE Taxi --------------------------------
(***************************************************************************)
(* HW17_FinishProject_Taxi: a tray program that asks a web service for the *)
(* price of a ride every two seconds, stores it in a database and shows an *)
(* icon for a price below acceptable_cost and another one for the rest.    *)
(*                                                                         *)
(* The GTK loop calls tray_icon_update() from a timer.  A callback keeps   *)
(* its timer by returning anything but 0; this one returns EXIT_FAILURE,   *)
(* which is 1, when it could not get a price, and sets a new timer before  *)
(* it returns 0 otherwise.  The run may be killed at every step and        *)
(* started again; the table stays.                                         *)
(*                                                                         *)
(* Prices are counted in quarters of a rouble, acceptable_cost and the     *)
(* rows of the table in roubles.  ZeroToo, OneToo, AnyStatus and Narrow    *)
(* are faulty variants of the operators that follow them; no action uses   *)
(* them.                                                                   *)
(***************************************************************************)
EXTENDS Integers, Sequences

CONSTANTS
  Keys,      \* the keys that readConfigFile() looks up
  Configs,   \* the keys that the configuration file may have
  Cost,      \* acceptable_cost, when the file has it
  Replies,   \* bodies of replies: the price of each option
  Garbage,   \* a body that is not such a reply: cut short, or an error
  None

Prices == UNION {{r[i] : i \in DOMAIN r} : r \in Replies}

ASSUME TaxiAssumption ==
  /\ Configs \subseteq SUBSET Keys /\ "acceptable_cost" \in Keys
  /\ Cost \in Int
  /\ Replies \subseteq Seq(Nat) /\ Garbage \notin Replies
  /\ None \notin Replies \cup {Garbage} \cup Int

VARIABLES
  pc,        \* "off", in main(): "config", "connect", in gtk_main(): "loop",
             \* in tray_icon_update(): the step that comes next
  config,    \* the keys that the file has, of this run
  timers,    \* sources that g_timeout_add() has attached
  resp,      \* what do_get() returned, None for NULL
  price,     \* the price of options[0], None before this run has one
  wild,      \* whether that options[0] was outside of the array
  row,       \* the last row of taxi_price, None before there is one
  icon

vars == <<pc, config, timers, resp, price, wild, row, icon>>

TypeOK ==
  /\ pc \in {"off", "config", "connect", "loop", "request", "parse", "insert",
             "icon", "return"}
  /\ config \in Configs
  /\ timers \in Nat
  /\ resp \in Replies \cup {Garbage, None}
  /\ price \in Prices \cup {None}
  /\ wild \in BOOLEAN
  /\ row \in Nat \cup {None}
  /\ icon \in {"none", "price1", "price2"}

Init ==
  /\ pc = "off" /\ config \in Configs
  /\ timers = 0 /\ resp = None /\ price = None /\ wild = FALSE
  /\ row = None
  /\ icon = "none"

Goto(from, to) == pc = from /\ pc' = to

(* The end of the run, by exit(), a signal or a crash.                     *)
End ==
  /\ pc' = "off"
  /\ timers' = 0 /\ resp' = None /\ price' = None /\ wild' = FALSE
  /\ icon' = "none"
  /\ UNCHANGED <<config, row>>

-----------------------------------------------------------------------------
(* main().                                                                 *)

Start ==
  /\ Goto("off", "config")
  /\ config' \in Configs
  /\ UNCHANGED <<timers, resp, price, wild, row, icon>>

(* readConfigFile(): hasErrors starts false and is only and-ed, so a key   *)
(* that is not there is no error.  It is one that the file cannot be read. *)
HasErrors == FALSE

ReadConfigFile ==
  /\ ~HasErrors
  /\ Goto("config", "connect")
  /\ UNCHANGED <<config, timers, resp, price, wild, row, icon>>

ConfigError == pc = "config" /\ End

(* createPGconn(), the indicator with its first icon and the first timer.  *)
Connect ==
  /\ Goto("connect", "loop")
  /\ timers' = timers + 1
  /\ icon' = "price1"
  /\ UNCHANGED <<config, resp, price, wild, row>>

ConnectError == pc = "connect" /\ End

-----------------------------------------------------------------------------
(* tray_icon_update(), called by the loop.                                 *)

Dispatch ==
  /\ Goto("loop", "request")
  /\ timers > 0
  /\ UNCHANGED <<config, timers, resp, price, wild, row, icon>>

(* do_get() returns the bytes that have come, also when the transfer       *)
(* fails half-way, and NULL when none has.                                 *)
DoGet ==
  /\ Goto("request", "parse")
  /\ resp' \in Replies \cup {Garbage, None}
  /\ UNCHANGED <<config, timers, price, wild, row, icon>>

(* The loop removes the timer of a callback that returns 0.                *)
Kept(n, result) == IF result = 0 THEN n - 1 ELSE n

ZeroToo == 0
OnFailure == 1

NoPrice ==
  /\ Goto("parse", "loop")
  /\ resp = None \/ resp = <<>>
  /\ timers' = Kept(timers, OnFailure)
  /\ resp' = None
  /\ UNCHANGED <<config, price, wild, row, icon>>

(* parse_taxi_price_json().  A reply without options makes calloc(.., 0)   *)
(* return NULL, an error (NoPrice), or the address of nothing.  A body     *)
(* that is no such reply stops the program in json_object_array_length().  *)
Parse ==
  /\ Goto("parse", "insert")
  /\ resp \in Replies
  /\ IF resp = <<>> THEN price' \in Prices ELSE price' = Head(resp)
  /\ wild' = (resp = <<>>)
  /\ resp' = None
  /\ UNCHANGED <<config, timers, row, icon>>

ParseAborts == pc = "parse" /\ resp = Garbage /\ End

(* insertPrice(): the row is the price rounded by %.0f, half to even; the  *)
(* run ends when the database refuses it.                                  *)
Narrow(p) == ((p \div 4 + 128) % 256) - 128
Rounded(p) ==
  LET d == p \div 4
      r == p % 4
  IN IF r < 2 \/ (r = 2 /\ d % 2 = 0) THEN d ELSE d + 1

AnyStatus == {Rounded(price), row}
Accepted == {Rounded(price)}

InsertPrice ==
  /\ Goto("insert", "icon")
  /\ row' \in Accepted
  /\ UNCHANGED <<config, timers, resp, price, wild, icon>>

InsertError == pc = "insert" /\ End

(* acceptable_cost is 0 when the file does not have it.  What lies outside *)
(* of the array may have changed since insertPrice() read it.              *)
AcceptableCost == IF "acceptable_cost" \in config THEN Cost ELSE 0
Read == IF wild THEN Prices ELSE {price}

SetIcon ==
  /\ Goto("icon", "return")
  /\ \E p \in Read :
       icon' = IF p < 4 * AcceptableCost THEN "price1" ELSE "price2"
  /\ UNCHANGED <<config, timers, resp, price, wild, row>>

(* g_timeout_add() and return 0.                                           *)
OneToo == 1
OnSuccess == 0

Return ==
  /\ Goto("return", "loop")
  /\ timers' = Kept(timers + 1, OnSuccess)
  /\ UNCHANGED <<config, resp, price, wild, row, icon>>

Kill == pc # "off" /\ End

-----------------------------------------------------------------------------
Update ==
  \/ DoGet \/ NoPrice \/ Parse \/ ParseAborts
  \/ InsertPrice \/ InsertError \/ SetIcon \/ Return

Next ==
  \/ Start \/ ReadConfigFile \/ ConfigError \/ Connect \/ ConnectError
  \/ Dispatch \/ Update \/ Kill

Spec == Init /\ [][Next]_vars

(* The GTK loop runs a timer that is due; nothing is assumed of the        *)
(* service, of the database or of who starts the program.                  *)
FairSpec == Spec /\ WF_vars(Dispatch)

-----------------------------------------------------------------------------
(* While the loop waits there is one timer, however often requests have    *)
(* failed or succeeded: with more the service would be asked ever more     *)
(* often, with none never again.                                           *)
OneTimer == pc = "loop" => timers = 1

(* The icon agrees with the row that is in the table, up to its rounding,  *)
(* as soon as this run has stored one: failures in between change neither. *)
IconAgreesWithRow ==
  pc = "loop" /\ price # None /\ ~wild =>
    /\ row # None
    /\ icon = "price1" => row <= AcceptableCost
    /\ icon = "price2" => row >= AcceptableCost

(* The program does not stop watching: whenever the loop waits, the next   *)
(* request follows, also after one that failed, unless the run ends.       *)
RequestsAgain == pc = "loop" ~> pc \in {"request", "off"}

(* db_config.c:68-71 means to refuse a configuration with errors: a run    *)
(* that goes on has got every key that readConfigFile() looks up.          *)
ConfigComplete == pc = "connect" => config = Keys
=============================================================================
