---------------------------- MODULE MCChatClient ----------------------------
(* Key pairs for the instances of ChatClient that TLC checks.  The clients   *)
(* are interchangeable: nothing in the specification names one of them.      *)
EXTENDS ChatClient, TLC

MCKeyPair == Client \X (0..MaxGenerated)
Symmetry == Permutations(Client)
=============================================================================
