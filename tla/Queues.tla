------------------------------- MODULE Queues -------------------------------
(***************************************************************************)
(* What a queue of messages holds, and what is left of it when messages    *)
(* are cleared.                                                            *)
(***************************************************************************)
EXTENDS Naturals, Sequences

Has(q, m) == \E i \in DOMAIN q : q[i] = m

\* The queue q when its messages that are in the set S are erased.
Without(q, S) ==
    LET kept[i \in 0..Len(q)] ==
            IF i = 0 THEN <<>>
            ELSE IF q[i] \in S THEN kept[i - 1]
            ELSE Append(kept[i - 1], q[i])
    IN  kept[Len(q)]
=============================================================================
