--------------------------- MODULE MCSessionStack ---------------------------
(* The endpoints, sessions and key pairs of the instance that TLC checks:   *)
(* alice has a session with bob, and carol one with alice.                  *)
EXTENDS SessionStack

CONSTANTS alice, bob, carol

MCEndpoint == {alice, bob, carol}
MCLink == {<<alice, bob>>, <<carol, alice>>}
MCKeyPair == MCEndpoint \X MCEndpoint \X (0..MaxSent)
=============================================================================
