------------------------ MODULE MCPersistentSession ------------------------
(* Key pairs for the instances of PersistentSession that TLC checks. *)
EXTENDS PersistentSession

MCKeyPair == {Initiator, Responder} \X (0..MaxGenerated)
=============================================================================
