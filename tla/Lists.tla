------------------------------- MODULE Lists --------------------------------
(***************************************************************************)
(* What the C code does with linked lists, and the library with sequences  *)
(* in a way that cannot be reasoned about: its SelectSeq is opaque to the  *)
(* prover, and its folds are recursions along sets.                        *)
(***************************************************************************)
EXTENDS Integers, Sequences

\* The list without the elements that are in D, in the order that it had: a
\* walk over the list that unlinks them.
Without(list, D) ==
    LET Left[i \in 0..Len(list)] ==
            IF i = 0 THEN <<>>
            ELSE IF list[i] \in D THEN Left[i - 1]
            ELSE Append(Left[i - 1], list[i])
    IN  Left[Len(list)]

\* One step after the other, for each element of the list: a loop.
Each(Do(_, _), S, list) ==
    LET After[i \in 0..Len(list)] ==
            IF i = 0 THEN S ELSE Do(After[i - 1], list[i])
    IN  After[Len(list)]

=============================================================================
