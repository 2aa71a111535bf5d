--------------------------- MODULE MCAddressClaim ---------------------------
(***************************************************************************)
(* Nodes and the addresses they are constructed with, for AddressClaim.    *)
(***************************************************************************)
EXTENDS AddressClaim

\* The default of every client, which a device holds.
AllZero == [n \in Nodes |-> 0]
=============================================================================
