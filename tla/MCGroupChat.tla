---------------------------- MODULE MCGroupChat ----------------------------
(* The group that the instances of GroupChat start with. *)
EXTENDS GroupChat

CONSTANTS alice, bob, carol

MCThree == <<alice, bob, carol>>
=============================================================================
