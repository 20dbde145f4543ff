---------------------------- MODULE IntrusiveList ----------------------------
(* The lists of the library: the slots of the wheel, the active list and    *)
(* the waiters of a condition variable are doubly linked through the items  *)
(* themselves, and an item knows the list that it is in (Link).  TimeWheel  *)
(* and EventLoop use them as sequences; this module is why they may.        *)
EXTENDS Naturals, FiniteSets, SequencesExt

CONSTANTS Lists, Items, NULL

ASSUME NullAssumption == NULL \notin Lists \cup Items
ASSUME ItemsAssumption == IsFiniteSet(Items)

VARIABLES
    head, tail,        \* of each list
    Prev, Next, Link   \* of each item

listVars == <<head, tail, Prev, Next, Link>>

Init ==
    /\ head = [l \in Lists |-> NULL] /\ tail = head
    /\ Next = [i \in Items |-> NULL] /\ Prev = Next /\ Link = Next

Set(f, x, v) == IF x = NULL THEN f ELSE [f EXCEPT ![x] = v]

(* Mutant of RemoveFromWheel: the list's tail stays.                       *)
RemoveKeepsTail(i) ==
    /\ Link[i] # NULL
    /\ head' = IF head[Link[i]] = i THEN [head EXCEPT ![Link[i]] = Next[i]] ELSE head
    /\ Prev' = [Set(Prev, Next[i], Prev[i]) EXCEPT ![i] = NULL]
    /\ Next' = [Set(Next, Prev[i], Next[i]) EXCEPT ![i] = NULL]
    /\ Link' = [Link EXCEPT ![i] = NULL]
    /\ UNCHANGED tail

(* Harmless for an item that is in no list.                                 *)
RemoveFromWheel(i) ==
    LET l == Link[i]
        first == head[l] = i
        last  == tail[l] = i
    IN /\ l # NULL
       /\ head' = IF first THEN [head EXCEPT ![l] = Next[i]] ELSE head
       /\ tail' = IF last THEN [tail EXCEPT ![l] = Prev[i]] ELSE tail
       /\ Prev' = [(IF first THEN Set(Prev, Next[i], NULL)
                    ELSE IF last THEN Prev
                    ELSE [Prev EXCEPT ![Next[i]] = Prev[i]]) EXCEPT ![i] = NULL]
       /\ Next' = [(IF last THEN Set(Next, Prev[i], NULL)
                    ELSE IF first THEN Next
                    ELSE Set(Next, Prev[i], Next[i])) EXCEPT ![i] = NULL]
       /\ Link' = [Link EXCEPT ![i] = NULL]

(* Mutant of AddTail: an item that is in a list is not refused.            *)
AddTailTwice(l, i) ==
    /\ tail' = [tail EXCEPT ![l] = i]
    /\ head' = IF tail[l] = NULL THEN [head EXCEPT ![l] = i] ELSE head
    /\ Next' = [Set(Next, tail[l], i) EXCEPT ![i] = NULL]
    /\ Prev' = [Prev EXCEPT ![i] = tail[l]]
    /\ Link' = [Link EXCEPT ![i] = l]

(* Refused for an item that is in a list, whichever it is.                  *)
AddTail(l, i) ==
    /\ Link[i] = NULL
    /\ tail' = [tail EXCEPT ![l] = i]
    /\ head' = IF tail[l] = NULL THEN [head EXCEPT ![l] = i] ELSE head
    /\ Next' = [Set(Next, tail[l], i) EXCEPT ![i] = NULL]
    /\ Prev' = [Prev EXCEPT ![i] = tail[l]]
    /\ Link' = [Link EXCEPT ![i] = l]

(* A list from its head, as a walk along Next finds it.                     *)
Contents(l) ==
    LET at[k \in 0 .. Cardinality(Items)] ==
            IF k = 0 THEN head[l]
            ELSE IF at[k - 1] = NULL THEN NULL ELSE Next[at[k - 1]]
        length == Cardinality({k \in 0 .. Cardinality(Items) : at[k] # NULL})
    IN [k \in 1 .. length |-> at[k - 1]]

(* Mutant of Join: the items are not told their new list.                  *)
JoinKeepsLinks(to, from) ==
    /\ head[from] # NULL
    /\ Next' = Set(Next, tail[to], head[from])
    /\ Prev' = IF tail[to] = NULL THEN Prev ELSE [Prev EXCEPT ![head[from]] = tail[to]]
    /\ head' = [head EXCEPT ![to] = IF tail[to] = NULL THEN head[from] ELSE @,
                            ![from] = NULL]
    /\ tail' = [tail EXCEPT ![to] = tail[from], ![from] = NULL]
    /\ UNCHANGED Link

(* All of one list behind another.                                          *)
Join(to, from) ==
    /\ head[from] # NULL
    /\ Link' = [i \in Items |-> IF i \in ToSet(Contents(from)) THEN to ELSE Link[i]]
    /\ Next' = Set(Next, tail[to], head[from])
    /\ Prev' = IF tail[to] = NULL THEN Prev ELSE [Prev EXCEPT ![head[from]] = tail[to]]
    /\ head' = [head EXCEPT ![to] = IF tail[to] = NULL THEN head[from] ELSE @,
                            ![from] = NULL]
    /\ tail' = [tail EXCEPT ![to] = tail[from], ![from] = NULL]

PopHead(l) ==
    LET i == head[l]
        only == head[l] = tail[l]
    IN /\ i # NULL
       /\ head' = [head EXCEPT ![l] = IF only THEN NULL ELSE Next[i]]
       /\ tail' = IF only THEN [tail EXCEPT ![l] = NULL] ELSE tail
       /\ Next' = [Next EXCEPT ![i] = NULL]
       /\ Prev' = [Set(Prev, head'[l], NULL) EXCEPT ![i] = NULL]
       /\ Link' = [Link EXCEPT ![i] = NULL]

ListNext ==
    \/ \E i \in Items : RemoveFromWheel(i)
    \/ \E l \in Lists, i \in Items : AddTail(l, i)
    \/ \E to, from \in Lists : to # from /\ Join(to, from)
    \/ \E l \in Lists : PopHead(l)

ListSpec == Init /\ [][ListNext]_listVars

-----------------------------------------------------------------------------
(* Properties.                                                              *)

(* What the next operation relies on, and what Co_poll_inner relies on when *)
(* it takes its item out of a list that somebody else has joined to another *)
(* meanwhile: an item's Link is the list that a walk finds it in, Prev is   *)
(* the walk backwards, and tail its end.                                    *)
LinksSound ==
    /\ \A l \in Lists :
         LET s == Contents(l)
         IN /\ tail[l] = IF s = << >> THEN NULL ELSE Last(s)
            /\ \A k \in DOMAIN s : /\ Link[s[k]] = l
                                   /\ Prev[s[k]] = IF k = 1 THEN NULL ELSE s[k - 1]
    /\ \A i \in Items :
         IF Link[i] = NULL THEN Prev[i] = NULL /\ Next[i] = NULL
         ELSE i \in ToSet(Contents(Link[i]))

(* Every operation does to the list what it does to a queue: nothing is     *)
(* lost, moved ahead of another, or found in two lists.                     *)
Q == INSTANCE Queues WITH queue <- [l \in Lists |-> Contents(l)]
ImplementsQueues == Q!QueuesSpec
=============================================================================
