---------------------------- MODULE OnceChannel ----------------------------
(***************************************************************************)
(* What a Double Ratchet session promises to the client that uses it,      *)
(* without keys, chains and stores: no message is sealed twice, and what a *)
(* client accepts was sent by the other one and is accepted once.  The     *)
(* order is free and messages may be lost.                                 *)
(***************************************************************************)
EXTENDS Integers, Sequences

CONSTANT Party

VARIABLES
    sent,       \* sent[p]: the messages p has sent, in order
    accepted    \* accepted[p]: the messages p has accepted, in order

OnceInit ==
    /\ sent = [p \in Party |-> << >>]
    /\ accepted = [p \in Party |-> << >>]

Has(seq, m) == \E j \in 1..Len(seq) : seq[j] = m

\* new is old with one more message, which was not there before.
OneMore(new, old) ==
    /\ Len(new) = Len(old) + 1
    /\ \A j \in 1..Len(old) : new[j] = old[j]
    /\ ~ Has(old, new[Len(new)])

Send(p) ==
    /\ OneMore(sent'[p], sent[p])
    /\ \A q \in Party \ {p} : sent'[q] = sent[q]
    /\ UNCHANGED accepted

Accept(p) ==
    /\ OneMore(accepted'[p], accepted[p])
    /\ \E q \in Party \ {p} : Has(sent[q], accepted'[p][Len(accepted'[p])])
    /\ \A q \in Party \ {p} : accepted'[q] = accepted[q]
    /\ UNCHANGED sent

OnceNext == \E p \in Party : Send(p) \/ Accept(p)

OnceSpec == OnceInit /\ [][OnceNext]_<<sent, accepted>>
=============================================================================
