--------------------------- MODULE MCReplication ----------------------------
(***************************************************************************)
(* Replication for TLC.                                                    *)
(***************************************************************************)
EXTENDS Replication

CONSTANTS n1, n2, n3

TwoPeers == n1 :> <<n2>> @@ n2 :> <<n1>>
TwoNodes == <<n1, n2>>

ThreePeers == n1 :> <<n2, n3>> @@ n2 :> <<n1, n3>> @@ n3 :> <<n1, n2>>
ThreeNodes == <<n1, n2, n3>>
LastFirst == <<n1, n3, n2>>

\* Customers differ in nothing but their names.
CustomerSymmetry == Permutations(Customer)

=============================================================================
