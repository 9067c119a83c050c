-------------------------- MODULE EnvelopeChannel --------------------------
(***************************************************************************)
(* What the relay side of the in-memory stack promises, without its        *)
(* queues, delays and clocks: an envelope is handed to its recipient and   *)
(* to nobody else, never unless it was handed in; a routed one at most     *)
(* once and in any order, and lost only together with one that cannot be   *)
(* routed; a stored one as often as it is asked for until it is forgotten. *)
(***************************************************************************)
EXTENDS Sequences, SequencesExt

CONSTANTS Endpoint, NoRecipient, Envelope

VARIABLES
    waiting,    \* routed envelopes that were not handed out yet
    kept,       \* stored envelopes that were not forgotten
    used,       \* all envelopes that were handed in
    handed      \* handed[p]: what p was given, in order

ChannelInit ==
    /\ waiting = {} /\ kept = {} /\ used = {}
    /\ handed = [p \in Endpoint |-> << >>]

For(p, envs) == {env \in envs : env.to = p}

Accept(env) ==
    /\ env \notin used
    /\ used' = used \cup {env}
    /\ \/ waiting' = waiting \cup {env} /\ UNCHANGED kept
       \/ kept' = kept \cup {env} /\ UNCHANGED waiting
    /\ UNCHANGED handed

\* A batch of routed envelopes, in some order.
HandOut(p) ==
    \E batch \in SUBSET For(p, waiting) :
        /\ \E order \in SetToSeqs(batch) :
              handed' = [handed EXCEPT ![p] = @ \o order]
        /\ waiting' = waiting \ batch
        /\ UNCHANGED <<kept, used>>

\* An envelope without a recipient takes others down with it.
Lose ==
    /\ \E bad \in For(NoRecipient, waiting) : \E gone \in SUBSET waiting :
          waiting' = waiting \ (gone \cup {bad})
    /\ UNCHANGED <<kept, used, handed>>

\* A batch of stored envelopes, which stay.
Show(p) ==
    /\ \E batch \in SUBSET For(p, kept) : \E order \in SetToSeqs(batch) :
          handed' = [handed EXCEPT ![p] = @ \o order]
    /\ UNCHANGED <<waiting, kept, used>>

Forget == \E gone \in SUBSET kept : kept' = kept \ gone /\ UNCHANGED <<waiting, used, handed>>

ChannelNext ==
    \/ \E env \in Envelope : Accept(env)
    \/ \E p \in Endpoint : HandOut(p) \/ Show(p)
    \/ Lose \/ Forget

ChannelSpec == ChannelInit /\ [][ChannelNext]_<<waiting, kept, used, handed>>
=============================================================================
