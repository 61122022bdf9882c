------------------------------- MODULE Sublist -------------------------------
(***************************************************************************)
(* What a filter leaves of a list: queues.ts drops entries with one,       *)
(* topup.ts the items a queue already has, a lineup the games done.        *)
(***************************************************************************)
EXTENDS Integers, Sequences

\* The entries at these places of a list, in their order.
Picked(seq, places) ==
    LET upTo[n \in 0..Len(seq)] ==
            IF n = 0 THEN << >>
            ELSE IF n \in places THEN Append(upTo[n - 1], seq[n])
            ELSE upTo[n - 1]
    IN  upTo[Len(seq)]

\* The entries of a list that are among these.
Only(seq, those) == Picked(seq, {n \in DOMAIN seq : seq[n] \in those})
=============================================================================
