------------------------------- MODULE MCTaxi -------------------------------
(***************************************************************************)
(* Instances of Taxi for TLC: prices of 229.5, 230, 230.25, 230.5, 231.75  *)
(* and 0 roubles around an acceptable cost of 230, a reply with several    *)
(* options and one with none.                                              *)
(***************************************************************************)
EXTENDS Taxi

mcKeys == {"acceptable_cost", "clid", "dbname"}
mcConfigs == {mcKeys, mcKeys \ {"clid"}, mcKeys \ {"acceptable_cost"}}
mcReplies == {<<918>>, <<920>>, <<921>>, <<922, 918>>, <<927>>, <<0, 927>>, <<>>}
=============================================================================
