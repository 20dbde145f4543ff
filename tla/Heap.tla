-------------------------------- MODULE Heap --------------------------------
(* What a program relies on when it calls an allocator, whatever the        *)
(* allocator does inside: a block it is given is its own until it gives it  *)
(* back.                                                                    *)
EXTENDS Integers, Functions

VARIABLE held    \* the address of every block handed out |-> its length

Apart(a, m, b, n) == a + m <= b \/ b + n <= a

Init == held = << >>

(* A block that overlaps none of those the program has.                     *)
Allocate ==
    \E a \in DOMAIN held' \ DOMAIN held :
        /\ held = Restrict(held', DOMAIN held' \ {a})
        /\ \A b \in DOMAIN held : Apart(a, held'[a], b, held[b])

Release == \E a \in DOMAIN held : held' = Restrict(held, DOMAIN held \ {a})

HeapSpec == Init /\ [][Allocate \/ Release]_held
=============================================================================
