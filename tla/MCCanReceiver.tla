--------------------------- MODULE MCCanReceiver ---------------------------
(***************************************************************************)
(* Streams multi1 and multi2 are multi-frame reports of different nodes;   *)
(* single1 is the first node again, with single-frame reports.             *)
(***************************************************************************)
EXTENDS CanReceiver

CONSTANTS multi1, multi2, single1, node1, node2

OneNode  == multi1 :> node1
Apart    == multi1 :> node1 @@ multi2 :> node2 @@ single1 :> node1

Mixed    == multi1 :> <<5, 1, 2, 3>> @@ multi2 :> <<2, 1>> @@ single1 :> <<1>>
Long     == multi1 :> <<3, 1, 3>>

NoReport == {<<multi1, 2>>}
=============================================================================
