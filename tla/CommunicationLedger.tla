------------------------- MODULE CommunicationLedger ------------------------
(***************************************************************************)
(* What the topology mapper promises its users, without buffer, flush or   *)
(* transaction: a count of the packets known for each triple, of which     *)
(* some are durable.  Flushing makes packets durable and changes no count. *)
(* The other steps are the only ways in which a count may be wrong.        *)
(***************************************************************************)
EXTENDS Integers

CONSTANT Triples

VARIABLES known, durable

Init ==
    /\ known = [t \in Triples |-> 0]
    /\ durable = [t \in Triples |-> 0]

\* One more packet of a triple.
Observe ==
    /\ \E t \in Triples : known' = [known EXCEPT ![t] = @ + 1]
    /\ UNCHANGED durable

\* Known packets become durable.
Save ==
    /\ durable' \in [Triples -> Nat]
    /\ \A t \in Triples : durable[t] <= durable'[t] /\ durable'[t] <= known[t]
    /\ UNCHANGED known

\* Packets that were not durable yet are forgotten.
Drop ==
    /\ known' \in [Triples -> Nat]
    /\ \A t \in Triples : durable[t] <= known'[t] /\ known'[t] <= known[t]
    /\ UNCHANGED durable

\* Packets become durable and are kept to be saved once more.
SaveTwice ==
    /\ durable' \in [Triples -> Nat]
    /\ known' \in [Triples -> Nat]
    /\ \A t \in Triples :
         /\ durable[t] <= durable'[t] /\ durable'[t] <= known[t]
         /\ known'[t] - known[t] = durable'[t] - durable[t]

\* The durable packets of some triples are deleted; the others stay.
Delete ==
    \E gone \in SUBSET Triples :
        /\ durable' = [t \in Triples |-> IF t \in gone THEN 0 ELSE durable[t]]
        /\ known' = [t \in Triples |-> IF t \in gone
                                       THEN known[t] - durable[t] ELSE known[t]]

Next == Observe \/ Save \/ Drop \/ SaveTwice \/ Delete

Spec == Init /\ [][Next]_<<known, durable>>
=============================================================================
