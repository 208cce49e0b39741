-------------------------------- MODULE Lists ---------------------------------
(* The members of a list that are kept, as a `filter` over an iterator does. *)
EXTENDS Sequences, Integers

\* The members of a sequence at the given positions, in their order.
MembersAt(seq, positions) ==
    LET upTo[n \in 0..Len(seq)] ==
            IF n = 0 THEN <<>>
            ELSE IF n \in positions THEN Append(upTo[n - 1], seq[n]) ELSE upTo[n - 1]
    IN  upTo[Len(seq)]
=============================================================================
