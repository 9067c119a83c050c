-------------------------- MODULE MCDoubleRatchet --------------------------
(* Key pairs for the instances of DoubleRatchet that TLC checks. *)
EXTENDS DoubleRatchet

MCKeyPair == {Initiator, Responder} \X (0..MaxGenerated)
=============================================================================
