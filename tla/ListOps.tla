------------------------------ MODULE ListOps ------------------------------
(***************************************************************************)
(* A list of the library, seen as the sequence of its items: what is left  *)
(* of it when items are unlinked.                                          *)
(***************************************************************************)
EXTENDS Sequences, Integers

\* The list s after RemoveFromWheel of the items in S, in the same order.
\* (The standard SelectSeq is a primitive about which nothing can be proved.)
Excluding(s, S) ==
    LET kept[n \in 0..Len(s)] ==
            IF n = 0 THEN <<>>
            ELSE IF s[n] \in S THEN kept[n - 1] ELSE Append(kept[n - 1], s[n])
    IN  kept[Len(s)]

=============================================================================
