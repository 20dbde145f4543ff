------------------------------- MODULE Queues -------------------------------
(* What the event loop and the wheel use their lists for: queues of items,  *)
(* an item in at most one of them, taken from the front or from anywhere.   *)
EXTENDS ListOps, SequencesExt

CONSTANTS Lists, Items
VARIABLE queue    \* each list |-> its items from head to tail

Waiting == UNION {ToSet(queue[l]) : l \in Lists}

Init == queue = [l \in Lists |-> << >>]

Append1(l, i) == i \notin Waiting /\ queue' = [queue EXCEPT ![l] = Append(@, i)]
Take(l, i) == i \in ToSet(queue[l]) /\ queue' = [queue EXCEPT ![l] = Excluding(@, {i})]
Splice(to, from) ==
    queue' = [queue EXCEPT ![to] = queue[to] \o queue[from], ![from] = << >>]

Next ==
    \/ \E l \in Lists, i \in Items : Append1(l, i) \/ Take(l, i)
    \/ \E to, from \in Lists : to # from /\ Splice(to, from)

QueuesSpec == Init /\ [][Next]_queue
=============================================================================
