--------------------------- MODULE MCUdpReceiver ---------------------------
(***************************************************************************)
(* Messages of one fragment (SINGLE), of several, and, where sequence      *)
(* numbers wrap, of more fragments than there are sequence numbers.        *)
(***************************************************************************)
EXTENDS UdpReceiver

CONSTANTS dev1, dev2

Lossy  == dev1 :> <<3, 1, 2, 1>> @@ dev2 :> <<2, 3>>
Faulty == dev1 :> <<4, 2>> @@ dev2 :> <<2>>

NoReport == {<<dev1, 2>>}
=============================================================================
