---------------------------- MODULE MemPoolProofs ----------------------------
(***************************************************************************)
(* Theorems about MemPool, for any requests, number of blocks fetched at   *)
(* once and addresses of the system's malloc, adjoining ones among them,   *)
(* and for every order of mallocs and of frees that keep the contract      *)
(* CarefulFree.                                                            *)
(***************************************************************************)
EXTENDS MemPool, SizeClassesProofs, SequenceLemmas, FiniteSetTheorems

-----------------------------------------------------------------------------
(* The tables of headers *)

Addr == Nat \ {NULL}

Headers == [prev : Nat, next : Nat, length : Nat]

\* A table has a header for each of some addresses.
Tables == UNION {[D -> Headers] : D \in SUBSET Addr}

Pools == [startfree : Nat, endfree : Nat, free_list : [Lists -> Nat], node : Tables]

\* What it is to be a table.
LEMMA TableFacts ==
  ASSUME NEW nd
  PROVE  nd \in Tables <=> DOMAIN nd \subseteq Addr /\ nd \in [DOMAIN nd -> Headers]
  <1>1. ASSUME nd \in Tables
        PROVE  DOMAIN nd \subseteq Addr /\ nd \in [DOMAIN nd -> Headers]
    <2>1. PICK D \in SUBSET Addr : nd \in [D -> Headers]
      BY <1>1 DEF Tables
    <2>2. DOMAIN nd = D
      BY <2>1
    <2> QED BY <2>1, <2>2
  <1>2. ASSUME DOMAIN nd \subseteq Addr, nd \in [DOMAIN nd -> Headers]
        PROVE  nd \in Tables
    BY <1>2 DEF Tables
  <1> QED BY <1>1, <1>2

\* A header of a table.
LEMMA HeaderFacts ==
  ASSUME NEW nd \in Tables, NEW a \in DOMAIN nd
  PROVE  /\ a \in Addr /\ a \in Nat /\ a # NULL
         /\ nd[a] \in Headers
         /\ nd[a].prev \in Nat /\ nd[a].next \in Nat /\ nd[a].length \in Nat
  <1>1. a \in Addr /\ nd[a] \in Headers
    BY TableFacts
  <1> QED BY <1>1 DEF Addr, Headers

\* The table without one header.
LEMMA ForgetFacts ==
  ASSUME NEW nd \in Tables, NEW a
  PROVE  /\ Forget(nd, a) \in Tables
         /\ DOMAIN Forget(nd, a) = DOMAIN nd \ {a}
         /\ \A b \in DOMAIN nd \ {a} : Forget(nd, a)[b] = nd[b]
  <1>1. Forget(nd, a) = [b \in DOMAIN nd \ {a} |-> nd[b]]
    BY DEF Forget, Restrict
  <1>2. DOMAIN nd \subseteq Addr /\ nd \in [DOMAIN nd -> Headers]
    BY TableFacts
  <1>3. /\ DOMAIN Forget(nd, a) = DOMAIN nd \ {a}
        /\ \A b \in DOMAIN nd \ {a} : Forget(nd, a)[b] = nd[b]
    BY <1>1
  <1>4. Forget(nd, a) \in [DOMAIN nd \ {a} -> Headers]
    BY <1>1, <1>2
  <1> QED BY <1>2, <1>3, <1>4, TableFacts

\* The table with the headers of another one.
LEMMA OverFacts ==
  ASSUME NEW nd \in Tables, NEW ch \in Tables
  PROVE  /\ Over(ch, nd) \in Tables
         /\ DOMAIN Over(ch, nd) = DOMAIN ch \cup DOMAIN nd
         /\ \A b \in DOMAIN ch : Over(ch, nd)[b] = ch[b]
         /\ \A b \in DOMAIN nd \ DOMAIN ch : Over(ch, nd)[b] = nd[b]
  <1> DEFINE t == Over(ch, nd)
  <1>1. t = [b \in DOMAIN ch \cup DOMAIN nd |-> IF b \in DOMAIN ch THEN ch[b] ELSE nd[b]]
    BY DEF Over
  <1> HIDE DEF t
  <1>2. /\ DOMAIN nd \subseteq Addr /\ nd \in [DOMAIN nd -> Headers]
        /\ DOMAIN ch \subseteq Addr /\ ch \in [DOMAIN ch -> Headers]
    BY TableFacts
  <1>3. /\ DOMAIN t = DOMAIN ch \cup DOMAIN nd
        /\ \A b \in DOMAIN ch : t[b] = ch[b]
        /\ \A b \in DOMAIN nd \ DOMAIN ch : t[b] = nd[b]
    BY <1>1
  <1>4. t \in [DOMAIN t -> Headers]
    BY <1>1, <1>2, <1>3
  <1>5. t \in Tables
    BY <1>2, <1>3, <1>4, TableFacts
  <1> QED BY <1>3, <1>5 DEF t

\* The table with one more header.
LEMMA AddFacts ==
  ASSUME NEW nd \in Tables, NEW a \in Addr, NEW h \in Headers
  PROVE  /\ Over(At(a, h), nd) \in Tables
         /\ DOMAIN Over(At(a, h), nd) = DOMAIN nd \cup {a}
         /\ Over(At(a, h), nd)[a] = h
         /\ \A b \in DOMAIN nd : b # a => Over(At(a, h), nd)[b] = nd[b]
  <1>1. DOMAIN At(a, h) = {a} /\ At(a, h)[a] = h /\ At(a, h) \in [{a} -> Headers]
    BY DEF At
  <1>2. At(a, h) \in Tables
    BY <1>1, TableFacts
  <1> DEFINE ch == At(a, h)
  <1> HIDE DEF ch
  <1>3. /\ Over(ch, nd) \in Tables
        /\ DOMAIN Over(ch, nd) = DOMAIN ch \cup DOMAIN nd
        /\ \A b \in DOMAIN ch : Over(ch, nd)[b] = ch[b]
        /\ \A b \in DOMAIN nd \ DOMAIN ch : Over(ch, nd)[b] = nd[b]
    BY <1>2, OverFacts DEF ch
  <1>4. DOMAIN ch = {a} /\ ch[a] = h
    BY <1>1 DEF ch
  <1> QED BY <1>3, <1>4 DEF ch

\* The table with another predecessor in one header.
LEMMA SetPrevFacts ==
  ASSUME NEW nd \in Tables, NEW a \in DOMAIN nd \cup {NULL}, NEW prev \in Nat
  PROVE  /\ SetPrev(nd, a, prev) \in Tables
         /\ DOMAIN SetPrev(nd, a, prev) = DOMAIN nd
         /\ \A b \in DOMAIN nd : /\ SetPrev(nd, a, prev)[b].next = nd[b].next
                                 /\ SetPrev(nd, a, prev)[b].length = nd[b].length
                                 /\ b # a => SetPrev(nd, a, prev)[b].prev = nd[b].prev
         /\ a # NULL => SetPrev(nd, a, prev)[a].prev = prev
  <1> DEFINE t == SetPrev(nd, a, prev)
  <1>1. DOMAIN nd \subseteq Addr /\ nd \in [DOMAIN nd -> Headers]
    BY TableFacts
  <1>2. CASE a = NULL
    <2>1. t = nd /\ \A b \in DOMAIN nd : b # a
      BY <1>1, <1>2 DEF SetPrev, Addr
    <2> QED BY <1>2, <2>1
  <1>3. CASE a # NULL
    <2> DEFINE h == [nd[a] EXCEPT !.prev = prev]
    <2>1. a \in DOMAIN nd
      BY <1>3
    <2>2. h \in Headers /\ h.prev = prev /\ h.next = nd[a].next /\ h.length = nd[a].length
      BY <1>1, <2>1 DEF Headers
    <2>3. t = [nd EXCEPT ![a] = h]
      BY <1>3 DEF SetPrev
    <2> HIDE DEF t, h
    <2>4. t \in [DOMAIN nd -> Headers] /\ t[a] = h /\ \A b \in DOMAIN nd : b # a => t[b] = nd[b]
      BY <1>1, <2>1, <2>2, <2>3
    <2>5. DOMAIN t = DOMAIN nd
      BY <2>4
    <2>6. t \in Tables
      BY <1>1, <2>4, <2>5, TableFacts
    <2> QED BY <2>1, <2>2, <2>4, <2>5, <2>6 DEF t
  <1> QED BY <1>2, <1>3

-----------------------------------------------------------------------------
(* The free lists *)

\* The list a free block belongs in, by its length.
ListFor(length) == FindFreeListIndex(length)

\* A length that a free block may have: its list is for blocks that are no longer.
Fileable(length) ==
    /\ Served(length)
    /\ ListFor(length) \in Lists
    /\ Index2SlotLength(ListFor(length)) <= length

\* Each free list starts with one of its blocks.
HeadsOK(fl, nd) ==
    \A i \in Lists : fl[i] # NULL => fl[i] \in DOMAIN nd /\ ListFor(nd[fl[i]].length) = i

\* A block's successor is a block of the same list, links back to it, and is no
\* list's head.  This holds of the blocks that Refill has dropped from the lists
\* too, so that what is in the lists need not be told from what is not.
LinksOK(fl, nd) ==
    \A a \in DOMAIN nd : nd[a].next # NULL =>
        /\ nd[a].next \in DOMAIN nd
        /\ ListFor(nd[nd[a].next].length) = ListFor(nd[a].length)
        /\ nd[nd[a].next].prev = a
        /\ \A i \in Lists : fl[i] # nd[a].next

ListsOK(fl, nd) ==
    /\ fl \in [Lists -> Nat]
    /\ nd \in Tables
    /\ IsFiniteSet(DOMAIN nd)
    /\ \A a \in DOMAIN nd : Fileable(nd[a].length)
    /\ HeadsOK(fl, nd)
    /\ LinksOK(fl, nd)

\* The table with a block that is put in front of the list with this head.
Pushed(nd, head, a, length) == Over(At(a, Header(NULL, head, length)), SetPrev(nd, head, a))

\* A block that is put in front of its list.
LEMMA PushLists ==
  ASSUME NEW fl, NEW nd, ListsOK(fl, nd), NEW a \in Addr, a \notin DOMAIN nd,
         NEW length, Fileable(length), NEW i, i = ListFor(length),
         NEW head, head = fl[i], NEW nd2, nd2 = Pushed(nd, head, a, length),
         NEW fl2, fl2 = [fl EXCEPT ![i] = a]
  PROVE  /\ ListsOK(fl2, nd2)
         /\ DOMAIN nd2 = DOMAIN nd \cup {a}
         /\ nd2[a].length = length /\ nd2[a].next = head
         /\ \A b \in DOMAIN nd : nd2[b].length = nd[b].length /\ nd2[b].next = nd[b].next
  <1> DEFINE h == Header(NULL, head, length)
             mid == SetPrev(nd, head, a)
  <1>1. /\ i \in Lists /\ a \in Nat /\ a # NULL /\ length \in Nat
        /\ fl \in [Lists -> Nat] /\ nd \in Tables
    BY DEF Fileable, Served, ListsOK, Addr
  <1>2. head \in Nat /\ (head # NULL => head \in DOMAIN nd /\ ListFor(nd[head].length) = i)
    BY <1>1 DEF ListsOK, HeadsOK
  <1>3. h \in Headers /\ h.prev = NULL /\ h.next = head /\ h.length = length
    BY <1>1, <1>2 DEF Header, Headers, NULL
  <1> HIDE DEF h
  <1>4. /\ mid \in Tables /\ DOMAIN mid = DOMAIN nd
        /\ \A b \in DOMAIN nd : /\ mid[b].next = nd[b].next
                                /\ mid[b].length = nd[b].length
                                /\ b # head => mid[b].prev = nd[b].prev
        /\ head # NULL => mid[head].prev = a
    <2>1. head \in DOMAIN nd \cup {NULL} /\ nd \in Tables /\ a \in Nat
      BY <1>1, <1>2
    <2> QED BY ONLY <2>1, SetPrevFacts
  <1> HIDE DEF mid
  <1>5. /\ nd2 \in Tables /\ DOMAIN nd2 = DOMAIN nd \cup {a}
        /\ nd2[a] = h
        /\ \A b \in DOMAIN nd : b # a => nd2[b] = mid[b]
    <2>1. mid \in Tables /\ h \in Headers
      BY <1>3, <1>4
    <2>2. /\ nd2 \in Tables /\ DOMAIN nd2 = DOMAIN mid \cup {a}
          /\ nd2[a] = h
          /\ \A b \in DOMAIN mid : b # a => nd2[b] = mid[b]
      <3>1. nd2 = Over(At(a, h), mid)
        BY DEF Pushed, mid, h
      <3> QED BY <2>1, <3>1, AddFacts
    <2> QED BY <1>4, <2>2
  <1>6. fl2 \in [Lists -> Nat] /\ fl2[i] = a /\ \A j \in Lists : j # i => fl2[j] = fl[j]
    BY <1>1
  <1>7. \A b \in DOMAIN nd : /\ b # a
                             /\ nd2[b].next = nd[b].next
                             /\ nd2[b].length = nd[b].length
                             /\ b # head => nd2[b].prev = nd[b].prev
    BY <1>4, <1>5
  <1>8. nd2[a].length = length /\ nd2[a].next = head
    BY <1>3, <1>5
  <1>9. IsFiniteSet(DOMAIN nd2)
    BY <1>5, FS_AddElement DEF ListsOK
  <1>10. \A b \in DOMAIN nd2 : Fileable(nd2[b].length)
    BY <1>5, <1>7, <1>8 DEF ListsOK
  <1>11. HeadsOK(fl2, nd2)
    <2> SUFFICES ASSUME NEW j \in Lists, fl2[j] # NULL
                 PROVE  fl2[j] \in DOMAIN nd2 /\ ListFor(nd2[fl2[j]].length) = j
      BY DEF HeadsOK
    <2>1. CASE j = i
      BY <1>5, <1>6, <1>8, <2>1
    <2>2. CASE j # i
      <3>1. fl2[j] \in DOMAIN nd /\ ListFor(nd[fl2[j]].length) = j
        BY <1>6, <2>2 DEF ListsOK, HeadsOK
      <3> QED BY <1>5, <1>7, <3>1
    <2> QED BY <2>1, <2>2
  <1>12. LinksOK(fl2, nd2)
    <2> SUFFICES ASSUME NEW b \in DOMAIN nd2, nd2[b].next # NULL
                 PROVE  /\ nd2[b].next \in DOMAIN nd2
                        /\ ListFor(nd2[nd2[b].next].length) = ListFor(nd2[b].length)
                        /\ nd2[nd2[b].next].prev = b
                        /\ \A j \in Lists : fl2[j] # nd2[b].next
      BY DEF LinksOK
    <2>1. CASE b = a
      <3>1. nd2[b].next = head /\ head \in DOMAIN nd /\ ListFor(nd[head].length) = i
        BY <1>2, <1>8, <2>1
      <3>2. nd2[head].length = nd[head].length /\ nd2[head].prev = a
        BY <1>2, <1>4, <1>5, <1>7, <1>8, <2>1, <3>1
      <3>3. \A j \in Lists : fl2[j] # head
        <4> SUFFICES ASSUME NEW j \in Lists, fl2[j] = head
                     PROVE  FALSE
          OBVIOUS
        <4>1. j # i
          BY <1>6, <3>1
        <4>2. fl[j] = head /\ head # NULL
          BY <1>6, <2>1, <1>8, <4>1
        <4>3. ListFor(nd[head].length) = j
          BY <4>2 DEF ListsOK, HeadsOK
        <4> QED BY <3>1, <4>1, <4>3
      <3> QED BY <1>5, <1>8, <2>1, <3>1, <3>2, <3>3
    <2>2. CASE b # a
      <3> DEFINE x == nd[b].next
      <3>1. b \in DOMAIN nd /\ nd2[b].next = x
        BY <1>5, <1>7, <2>2
      <3>2. /\ x \in DOMAIN nd /\ ListFor(nd[x].length) = ListFor(nd[b].length)
            /\ nd[x].prev = b /\ \A j \in Lists : fl[j] # x
        BY <3>1 DEF ListsOK, LinksOK
      <3> HIDE DEF x
      <3>3. x # head /\ x # a
        BY <1>1, <3>2
      <3>4. \A j \in Lists : fl2[j] # x
        BY <1>6, <3>2, <3>3
      <3> QED BY <1>5, <1>7, <3>1, <3>2, <3>3, <3>4
    <2> QED BY <2>1, <2>2
  <1>13. ListsOK(fl2, nd2)
    BY <1>5, <1>6, <1>9, <1>10, <1>11, <1>12 DEF ListsOK
  <1> QED BY <1>5, <1>7, <1>8, <1>13

\* The table without a head x, whose successor may keep x as its predecessor or
\* forget it.
HeadTaken(nd2, nd, x) ==
    /\ nd2 \in Tables /\ DOMAIN nd2 = DOMAIN nd \ {x}
    /\ \A b \in DOMAIN nd2 : /\ nd2[b].next = nd[b].next
                             /\ nd2[b].length = nd[b].length
                             /\ b # nd[x].next => nd2[b].prev = nd[b].prev

\* The head x of a list is taken out.
LEMMA HeadLists ==
  ASSUME NEW fl, NEW nd, ListsOK(fl, nd), NEW i \in Lists, NEW x \in DOMAIN nd, fl[i] = x,
         NEW nd2, HeadTaken(nd2, nd, x),
         NEW fl3, fl3 = [fl EXCEPT ![i] = nd[x].next]
  PROVE  ListsOK(fl3, nd2)
  <1> USE DEF HeadTaken
  <1> DEFINE rest == nd[x].next
             fl2 == [fl EXCEPT ![i] = rest]
  <1>1. /\ nd \in Tables /\ fl \in [Lists -> Nat] /\ x # NULL /\ rest \in Nat
    BY HeaderFacts DEF ListsOK
  <1>2. fl2 \in [Lists -> Nat] /\ fl2[i] = rest /\ \A j \in Lists : j # i => fl2[j] = fl[j]
    BY <1>1
  <1>3. rest # NULL => /\ rest \in DOMAIN nd /\ nd[rest].prev = x
                       /\ ListFor(nd[rest].length) = ListFor(nd[x].length)
                       /\ \A j \in Lists : fl[j] # rest
    BY DEF ListsOK, LinksOK
  <1>4. rest # x
    BY <1>1, <1>3
  <1>5. ListFor(nd[x].length) = i
    BY <1>1 DEF ListsOK, HeadsOK
  <1> HIDE DEF rest, fl2
  <1>6. IsFiniteSet(DOMAIN nd2)
    BY FS_RemoveElement DEF ListsOK
  <1>7. \A b \in DOMAIN nd2 : Fileable(nd2[b].length)
    BY DEF ListsOK
  <1>8. HeadsOK(fl2, nd2)
    <2> SUFFICES ASSUME NEW j \in Lists, fl2[j] # NULL
                 PROVE  fl2[j] \in DOMAIN nd2 /\ ListFor(nd2[fl2[j]].length) = j
      BY DEF HeadsOK
    <2>1. CASE j = i
      BY <1>2, <1>3, <1>4, <1>5, <2>1
    <2>2. CASE j # i
      <3>1. fl2[j] \in DOMAIN nd /\ ListFor(nd[fl2[j]].length) = j
        BY <1>2, <2>2 DEF ListsOK, HeadsOK
      <3>2. fl2[j] # x
        BY <1>5, <2>2, <3>1
      <3> QED BY <3>1, <3>2
    <2> QED BY <2>1, <2>2
  <1>9. LinksOK(fl2, nd2)
    <2> SUFFICES ASSUME NEW b \in DOMAIN nd2, nd2[b].next # NULL
                 PROVE  /\ nd2[b].next \in DOMAIN nd2
                        /\ ListFor(nd2[nd2[b].next].length) = ListFor(nd2[b].length)
                        /\ nd2[nd2[b].next].prev = b
                        /\ \A j \in Lists : fl2[j] # nd2[b].next
      BY DEF LinksOK
    <2> DEFINE y == nd[b].next
    <2>1. b \in DOMAIN nd /\ b # x /\ nd2[b].next = y
      OBVIOUS
    <2>2. /\ y \in DOMAIN nd /\ ListFor(nd[y].length) = ListFor(nd[b].length)
          /\ nd[y].prev = b /\ \A j \in Lists : fl[j] # y
      BY <2>1 DEF ListsOK, LinksOK
    <2>3. y # x
      BY <2>2
    <2>4. y # rest
      BY <1>1, <1>3, <2>1, <2>2 DEF rest
    <2> HIDE DEF y
    <2>5. \A j \in Lists : fl2[j] # y
      BY <1>2, <2>2, <2>4
    <2>6. y \in DOMAIN nd2 /\ nd2[y].prev = nd[y].prev /\ nd2[y].length = nd[y].length
          /\ nd2[b].length = nd[b].length
      BY <2>2, <2>3, <2>4 DEF rest
    <2> QED BY <2>1, <2>2, <2>5, <2>6
  <1>10. ListsOK(fl2, nd2)
    BY <1>2, <1>6, <1>7, <1>8, <1>9 DEF ListsOK
  <1> QED BY <1>10 DEF rest, fl2

\* The table without a block x between two others.
MiddleTaken(nd2, nd, x, y, z) ==
    /\ nd2 \in Tables /\ DOMAIN nd2 = DOMAIN nd \ {x}
    /\ \A b \in DOMAIN nd2 : /\ nd2[b].length = nd[b].length
                             /\ nd2[b].next = IF b = y THEN z ELSE nd[b].next
                             /\ nd2[b].prev = IF b = z THEN y ELSE nd[b].prev

\* A block x between two others is taken out.
LEMMA MiddleLists ==
  ASSUME NEW fl, NEW nd, ListsOK(fl, nd),
         NEW x \in DOMAIN nd, NEW y \in DOMAIN nd \ {x}, NEW z, z = nd[x].next, z # NULL,
         nd[y].next = x,
         NEW nd2, MiddleTaken(nd2, nd, x, y, z)
  PROVE  ListsOK(fl, nd2)
  <1> USE DEF MiddleTaken
  <1>1. nd \in Tables /\ fl \in [Lists -> Nat] /\ x # NULL
    BY HeaderFacts DEF ListsOK
  <1>2. /\ z \in DOMAIN nd /\ nd[z].prev = x /\ \A j \in Lists : fl[j] # z
        /\ ListFor(nd[z].length) = ListFor(nd[x].length)
    BY DEF ListsOK, LinksOK
  <1>3. /\ nd[x].prev = y /\ \A j \in Lists : fl[j] # x
        /\ ListFor(nd[x].length) = ListFor(nd[y].length)
    BY <1>1 DEF ListsOK, LinksOK
  <1>4. z # x
    BY <1>2, <1>3
  <1>5. IsFiniteSet(DOMAIN nd2)
    BY FS_RemoveElement DEF ListsOK
  <1>6. \A b \in DOMAIN nd2 : Fileable(nd2[b].length)
    BY DEF ListsOK
  <1>7. HeadsOK(fl, nd2)
    <2> SUFFICES ASSUME NEW j \in Lists, fl[j] # NULL
                 PROVE  fl[j] \in DOMAIN nd2 /\ ListFor(nd2[fl[j]].length) = j
      BY DEF HeadsOK
    <2>1. fl[j] \in DOMAIN nd /\ ListFor(nd[fl[j]].length) = j
      BY DEF ListsOK, HeadsOK
    <2> QED BY <1>3, <2>1
  <1>8. LinksOK(fl, nd2)
    <2> SUFFICES ASSUME NEW b \in DOMAIN nd2, nd2[b].next # NULL
                 PROVE  /\ nd2[b].next \in DOMAIN nd2
                        /\ ListFor(nd2[nd2[b].next].length) = ListFor(nd2[b].length)
                        /\ nd2[nd2[b].next].prev = b
                        /\ \A j \in Lists : fl[j] # nd2[b].next
      BY DEF LinksOK
    <2>1. CASE b = y
      <3>1. nd2[b].next = z /\ z \in DOMAIN nd2 /\ nd2[z].prev = y
        BY <1>2, <1>4, <2>1
      <3>2. nd2[z].length = nd[z].length /\ nd2[b].length = nd[b].length
        BY <3>1
      <3> QED BY <1>2, <1>3, <2>1, <3>1, <3>2
    <2>2. CASE b # y
      <3> DEFINE w == nd[b].next
      <3>1. b \in DOMAIN nd /\ b # x /\ nd2[b].next = w
        BY <2>2
      <3>2. /\ w \in DOMAIN nd /\ ListFor(nd[w].length) = ListFor(nd[b].length)
            /\ nd[w].prev = b /\ \A j \in Lists : fl[j] # w
        BY <3>1 DEF ListsOK, LinksOK
      <3>3. w # x /\ w # z
        BY <1>2, <1>3, <2>2, <3>1, <3>2
      <3> HIDE DEF w
      <3>4. /\ w \in DOMAIN nd2 /\ nd2[w].prev = nd[w].prev /\ nd2[w].length = nd[w].length
            /\ nd2[b].length = nd[b].length
        BY <3>1, <3>2, <3>3
      <3> QED BY <3>1, <3>2, <3>4
    <2> QED BY <2>1, <2>2
  <1> QED BY <1>1, <1>5, <1>6, <1>7, <1>8 DEF ListsOK

\* Blocks for list i, linked to one another, the first before the others.
IsChain(ch, first, i) ==
    /\ ch \in Tables /\ IsFiniteSet(DOMAIN ch) /\ first \in DOMAIN ch
    /\ \A a \in DOMAIN ch : /\ Fileable(ch[a].length) /\ ListFor(ch[a].length) = i
                            /\ ch[a].next # first
                            /\ ch[a].next # NULL => /\ ch[a].next \in DOMAIN ch
                                                    /\ ch[ch[a].next].prev = a

\* A chain of new blocks becomes its list, whatever that list was.
LEMMA ChainLists ==
  ASSUME NEW fl, NEW nd, ListsOK(fl, nd), NEW i \in Lists,
         NEW ch, NEW first, IsChain(ch, first, i), DOMAIN ch \cap DOMAIN nd = {},
         NEW nd2, nd2 = Over(ch, nd), NEW fl2, fl2 = [fl EXCEPT ![i] = first]
  PROVE  ListsOK(fl2, nd2)
  <1> USE DEF IsChain
  <1>1. nd \in Tables /\ fl \in [Lists -> Nat] /\ first \in Nat /\ first # NULL
    BY HeaderFacts DEF ListsOK
  <1>2. fl2 \in [Lists -> Nat] /\ fl2[i] = first /\ \A j \in Lists : j # i => fl2[j] = fl[j]
    BY <1>1
  <1>3. /\ nd2 \in Tables
        /\ DOMAIN nd2 = DOMAIN ch \cup DOMAIN nd
        /\ \A b \in DOMAIN ch : nd2[b] = ch[b]
        /\ \A b \in DOMAIN nd : nd2[b] = nd[b]
    <2>1. /\ nd2 \in Tables
          /\ DOMAIN nd2 = DOMAIN ch \cup DOMAIN nd
          /\ \A b \in DOMAIN ch : nd2[b] = ch[b]
          /\ \A b \in DOMAIN nd \ DOMAIN ch : nd2[b] = nd[b]
      BY <1>1, OverFacts
    <2> QED BY <2>1
  <1>4. IsFiniteSet(DOMAIN nd2)
    <2>1. IsFiniteSet(DOMAIN nd)
      BY DEF ListsOK
    <2>2. IsFiniteSet(DOMAIN ch \cup DOMAIN nd)
      BY <2>1, FS_Union
    <2> QED BY <1>3, <2>2
  <1>5. \A b \in DOMAIN nd2 : Fileable(nd2[b].length)
    BY <1>3 DEF ListsOK
  <1>6. HeadsOK(fl2, nd2)
    <2> SUFFICES ASSUME NEW j \in Lists, fl2[j] # NULL
                 PROVE  fl2[j] \in DOMAIN nd2 /\ ListFor(nd2[fl2[j]].length) = j
      BY DEF HeadsOK
    <2>1. CASE j = i
      BY <1>2, <1>3, <2>1
    <2>2. CASE j # i
      <3>1. fl2[j] \in DOMAIN nd /\ ListFor(nd[fl2[j]].length) = j
        BY <1>2, <2>2 DEF ListsOK, HeadsOK
      <3> QED BY <1>3, <3>1
    <2> QED BY <2>1, <2>2
  <1>7. LinksOK(fl2, nd2)
    <2> SUFFICES ASSUME NEW b \in DOMAIN nd2, nd2[b].next # NULL
                 PROVE  /\ nd2[b].next \in DOMAIN nd2
                        /\ ListFor(nd2[nd2[b].next].length) = ListFor(nd2[b].length)
                        /\ nd2[nd2[b].next].prev = b
                        /\ \A j \in Lists : fl2[j] # nd2[b].next
      BY DEF LinksOK
    <2>1. CASE b \in DOMAIN ch
      <3> DEFINE y == ch[b].next
      <3>1. nd2[b] = ch[b] /\ y # first /\ y \in DOMAIN ch /\ ch[y].prev = b /\ y # NULL
        BY <1>3, <2>1
      <3>2. nd2[y] = ch[y] /\ ListFor(ch[y].length) = i /\ ListFor(ch[b].length) = i
        BY <1>3, <2>1, <3>1
      <3> HIDE DEF y
      <3>3. \A j \in Lists : fl2[j] # y
        <4> SUFFICES ASSUME NEW j \in Lists, fl2[j] = y
                     PROVE  FALSE
          OBVIOUS
        <4>1. j # i /\ fl[j] = y
          BY <1>2, <3>1
        <4>2. y \in DOMAIN nd
          BY <3>1, <4>1 DEF ListsOK, HeadsOK
        <4> QED BY <3>1, <4>2
      <3> QED BY <1>3, <3>1, <3>2, <3>3 DEF y
    <2>2. CASE b \in DOMAIN nd
      <3> DEFINE y == nd[b].next
      <3>1. nd2[b] = nd[b] /\ y # NULL
        BY <1>3, <2>2
      <3>2. /\ y \in DOMAIN nd /\ ListFor(nd[y].length) = ListFor(nd[b].length)
            /\ nd[y].prev = b /\ \A j \in Lists : fl[j] # y
        BY <2>2, <3>1 DEF ListsOK, LinksOK
      <3>3. nd2[y] = nd[y]
        BY <1>3, <3>2
      <3> HIDE DEF y
      <3>4. \A j \in Lists : fl2[j] # y
        <4>1. y # first
          BY <3>2
        <4> QED BY <1>2, <3>2, <4>1
      <3> QED BY <1>3, <3>1, <3>2, <3>3, <3>4 DEF y
    <2> QED BY <1>3, <2>1, <2>2
  <1>8. ListsOK(fl2, nd2)
    BY <1>2, <1>3, <1>4, <1>5, <1>6, <1>7 DEF ListsOK
  <1> QED BY <1>8

-----------------------------------------------------------------------------
(* Walking a free list *)

\* What a walk comes to next.
LEMMA NextFacts ==
  ASSUME NEW p, ListsOK(p.free_list, p.node), NEW b
  PROVE  /\ NextOf(p, b) \in Nat
         /\ NextOf(p, b) # NULL => /\ b \in DOMAIN p.node /\ NextOf(p, b) = p.node[b].next
                                   /\ NextOf(p, b) \in DOMAIN p.node
                                   /\ p.node[NextOf(p, b)].prev = b
                                   /\ \A i \in Lists : p.free_list[i] # NextOf(p, b)
  <1>1. p.node \in Tables
    BY DEF ListsOK
  <1>2. CASE b \in DOMAIN p.node
    <2>1. NextOf(p, b) = p.node[b].next /\ p.node[b].next \in Nat
      BY <1>1, <1>2, HeaderFacts DEF NextOf
    <2> QED BY <1>2, <2>1 DEF ListsOK, LinksOK
  <1>3. CASE b \notin DOMAIN p.node
    BY <1>3 DEF NextOf, NULL
  <1> QED BY <1>2, <1>3

\* The recursion in Walk defines a function.
LEMMA WalkDefined ==
  ASSUME NEW p, ListsOK(p.free_list, p.node), NEW i \in Lists
  PROVE  /\ Cardinality(DOMAIN p.node) \in Nat
         /\ Walk(p, i) \in [0 .. Cardinality(DOMAIN p.node) -> Nat]
         /\ Walk(p, i)[0] = p.free_list[i]
         /\ \A n \in 1 .. Cardinality(DOMAIN p.node) :
                Walk(p, i)[n] = NextOf(p, Walk(p, i)[n - 1])
  <1> DEFINE m == Cardinality(DOMAIN p.node)
             R(k) == k = [n \in 0 .. m |->
                             IF n = 0 THEN p.free_list[i] ELSE NextOf(p, k[n - 1])]
             f == CHOOSE k : R(k)
             V == Nat
             a == p.free_list[i]
             g == [n \in 1 .. m |-> [v \in V |-> NextOf(p, v)]]
  <1>1. m \in Nat /\ a \in V
    BY FS_CardinalityType DEF ListsOK
  <1>2. g \in [1 .. m -> [V -> V]]
    BY NextFacts
  <1>3. PICK k \in [0 .. m -> V] : k[0] = a /\ \A n \in 1 .. m : k[n] = g[n][k[n - 1]]
    <2>1. m \in Nat /\ a \in V /\ g \in Steps(m, V)
      BY <1>1, <1>2 DEF Steps
    <2> HIDE DEF g, V, a, m, R, f
    <2>2. \E k : Iterates(k, m, V, a, g)
      BY <2>1, RecursionUpTo
    <2> QED BY <2>2 DEF Iterates
  <1>4. \A n \in 1 .. m : k[n] = NextOf(p, k[n - 1])
    <2> SUFFICES ASSUME NEW n \in 1 .. m
                 PROVE  k[n] = NextOf(p, k[n - 1])
      OBVIOUS
    <2>1. k[n - 1] \in V
      BY <1>1
    <2>2. k[n] = g[n][k[n - 1]]
      <3> HIDE DEF g, V, a, m
      <3> QED BY <1>3, Zenon
    <2>3. \A v \in V : g[n][v] = NextOf(p, v)
      OBVIOUS
    <2> HIDE DEF g, V
    <2> QED BY <2>1, <2>2, <2>3
  <1>5. R(k)
    <2>1. k = [n \in 0 .. m |-> k[n]]
      OBVIOUS
    <2>2. \A n \in 0 .. m : k[n] = IF n = 0 THEN p.free_list[i] ELSE NextOf(p, k[n - 1])
      BY <1>1, <1>3, <1>4
    <2> HIDE DEF m
    <2> QED BY <2>1, <2>2
  <1>6. R(f)
    <2> HIDE DEF R
    <2> QED BY <1>5, Zenon
  <1>7. Walk(p, i) = f
    BY DEF Walk
  <1> DEFINE w == Walk(p, i)
  <1>8. w = [n \in 0 .. m |-> IF n = 0 THEN p.free_list[i] ELSE NextOf(p, w[n - 1])]
    BY <1>6, <1>7
  <1> HIDE DEF w, m
  <1>9. \A n \in 0 .. m : w[n] = IF n = 0 THEN p.free_list[i] ELSE NextOf(p, w[n - 1])
    BY <1>8
  <1>10. w[0] = p.free_list[i] /\ \A n \in 1 .. m : w[n] = NextOf(p, w[n - 1])
    BY <1>1, <1>9
  <1>11. \A n \in 0 .. m : w[n] \in Nat
    BY <1>1, <1>9, NextFacts
  <1>12. w \in [0 .. m -> Nat]
    BY <1>8, <1>11
  <1> QED BY <1>1, <1>10, <1>12 DEF w, m

\* A walk comes to nothing after as many steps as there are blocks: no block's
\* successor is a head, and no two blocks have the same one.
LEMMA WalkEnds ==
  ASSUME NEW p, ListsOK(p.free_list, p.node), NEW i \in Lists
  PROVE  Walk(p, i)[Cardinality(DOMAIN p.node)] = NULL
  <1> DEFINE m == Cardinality(DOMAIN p.node)
             w == Walk(p, i)
  <1>1. /\ m \in Nat /\ w \in [0 .. m -> Nat] /\ w[0] = p.free_list[i]
        /\ \A n \in 1 .. m : w[n] = NextOf(p, w[n - 1])
    BY WalkDefined
  <1>2. /\ IsFiniteSet(DOMAIN p.node) /\ p.node \in Tables
        /\ p.free_list[i] # NULL => p.free_list[i] \in DOMAIN p.node
    BY DEF ListsOK, HeadsOK
  <1> HIDE DEF m, w
  <1> SUFFICES ASSUME w[m] # NULL
               PROVE  FALSE
    BY DEF m, w
  \* A walk that has come to nothing stays there.
  <1>3. \A n \in 0 .. m : w[m - n] # NULL
    <2> DEFINE T == {n \in Nat : n <= m => w[m - n] # NULL}
    <2>1. 0 \in T
      BY <1>1
    <2>2. ASSUME NEW n \in Nat, n < m, n \in T
          PROVE  n + 1 \in T
      <3>1. w[m - n] # NULL /\ w[m - n] = NextOf(p, w[(m - n) - 1])
        BY <1>1, <2>2
      <3>2. w[(m - n) - 1] \in DOMAIN p.node
        BY <3>1, NextFacts
      <3>3. w[(m - n) - 1] # NULL
        BY <1>2, <3>2, HeaderFacts
      <3>4. (m - n) - 1 = m - (n + 1)
        BY <1>1
      <3> QED BY <3>3, <3>4
    <2> HIDE DEF T
    <2>3. \A n \in Nat : n < m /\ n \in T => n + 1 \in T
      BY <2>2
    <2>4. \A n \in 0 .. m : n \in T
      BY <1>1, <2>1, <2>3, InductionUpTo
    <2> QED BY <2>4 DEF T
  <1>4. \A n \in 0 .. m : w[n] # NULL
    <2> SUFFICES ASSUME NEW n \in 0 .. m
                 PROVE  w[n] # NULL
      OBVIOUS
    <2>1. m - n \in 0 .. m /\ m - (m - n) = n
      BY <1>1
    <2> QED BY <1>3, <2>1
  <1>5. \A n \in 0 .. m : w[n] \in DOMAIN p.node
    <2> SUFFICES ASSUME NEW n \in 0 .. m
                 PROVE  w[n] \in DOMAIN p.node
      OBVIOUS
    <2>1. CASE n = 0
      BY <1>1, <1>2, <1>4, <2>1
    <2>2. CASE n # 0
      <3>1. w[n] # NULL /\ w[n] = NextOf(p, w[n - 1])
        BY <1>1, <1>4, <2>2
      <3> QED BY <3>1, NextFacts
    <2> QED BY <2>1, <2>2
  \* Two places on the walk with the same block would lead back to the head.
  <1>6. \A x, y \in 0 .. m : x < y => w[x] # w[y]
    <2> SUFFICES ASSUME NEW x \in 0 .. m, NEW y \in 0 .. m, x < y, w[x] = w[y]
                 PROVE  FALSE
      BY <1>1
    <2> DEFINE T == {n \in Nat : n <= x => w[x - n] = w[y - n]}
    <2>1. 0 \in T
      BY <1>1
    <2>2. ASSUME NEW n \in Nat, n < x, n \in T
          PROVE  n + 1 \in T
      <3> DEFINE u == x - n
                 v == y - n
      <3>1. u \in 1 .. m /\ v \in 1 .. m /\ u - 1 = x - (n + 1) /\ v - 1 = y - (n + 1)
        BY <1>1, <2>2
      <3>2. w[u] = w[v]
        BY <2>2
      <3> HIDE DEF u, v
      <3>3. w[u] = NextOf(p, w[u - 1]) /\ w[v] = NextOf(p, w[v - 1]) /\ w[u] # NULL
        <4>1. \A k \in 1 .. m : w[k] = NextOf(p, w[k - 1])
          BY <1>1
        <4>2. \A k \in 0 .. m : w[k] # NULL
          BY <1>4
        <4>3. u \in 1 .. m /\ v \in 1 .. m /\ u \in 0 .. m
          BY <1>1, <3>1
        <4> QED BY ONLY <4>1, <4>2, <4>3
      <3>4. \A b : NextOf(p, b) # NULL => p.node[NextOf(p, b)].prev = b
        BY NextFacts
      <3>5. p.node[w[u]].prev = w[u - 1] /\ p.node[w[v]].prev = w[v - 1]
        BY <3>2, <3>3, <3>4
      <3>6. w[u - 1] = w[v - 1]
        BY <3>2, <3>5
      <3> QED BY <3>1, <3>6
    <2> HIDE DEF T
    <2>3. \A n \in Nat : n < x /\ n \in T => n + 1 \in T
      BY <2>2
    <2>4. x \in Nat /\ x \in 0 .. x
      BY <1>1
    <2>5. x \in T
      BY <2>1, <2>3, <2>4, InductionUpTo
    <2>6. w[0] = w[y - x]
      BY <1>1, <2>5 DEF T
    <2>7. y - x \in 1 .. m /\ w[y - x] = NextOf(p, w[(y - x) - 1])
      BY <1>1
    <2>8. w[y - x] # NULL
      BY <1>4, <2>7
    <2>9. w[y - x] # p.free_list[i]
      BY <2>7, <2>8, NextFacts
    <2> QED BY <1>1, <2>6, <2>9
  <1>7. /\ IsFiniteSet(0 .. m) /\ Cardinality(0 .. m) = m + 1
    BY <1>1, FS_Interval
  <1>8. w \in [0 .. m -> DOMAIN p.node]
    BY <1>1, <1>5
  <1>9. m < Cardinality(0 .. m)
    BY <1>1, <1>7
  <1>10. \E x, y \in 0 .. m : x # y /\ w[x] = w[y]
    BY <1>2, <1>7, <1>8, <1>9, FS_PigeonHole DEF m
  <1> QED BY <1>1, <1>6, <1>10

\* The blocks of a list, as the walk finds them.
LEMMA BlocksWalked ==
  ASSUME NEW p, ListsOK(p.free_list, p.node), NEW i \in Lists, NEW b
  PROVE  b \in BlocksIn(p, i) <=>
           b # NULL /\ \E n \in 0 .. Cardinality(DOMAIN p.node) : b = Walk(p, i)[n]
  <1>1. DOMAIN Walk(p, i) = 0 .. Cardinality(DOMAIN p.node)
    BY WalkDefined
  <1>2. BlocksIn(p, i) = {Walk(p, i)[k] : k \in DOMAIN Walk(p, i)} \ {NULL}
    BY DEF BlocksIn
  <1> QED BY <1>1, <1>2

\* The blocks of a list are those one comes to from its head.
LEMMA BlocksClosed ==
  ASSUME NEW p, ListsOK(p.free_list, p.node), NEW i \in Lists
  PROVE  /\ p.free_list[i] # NULL => p.free_list[i] \in BlocksIn(p, i)
         /\ \A b \in BlocksIn(p, i) : NextOf(p, b) # NULL => NextOf(p, b) \in BlocksIn(p, i)
  <1> DEFINE m == Cardinality(DOMAIN p.node)
             w == Walk(p, i)
  <1>1. /\ m \in Nat /\ w \in [0 .. m -> Nat] /\ w[0] = p.free_list[i]
        /\ \A n \in 1 .. m : w[n] = NextOf(p, w[n - 1])
    BY WalkDefined
  <1>2. w[m] = NULL
    BY WalkEnds
  <1>3. \A b : b \in BlocksIn(p, i) <=> b # NULL /\ \E n \in 0 .. m : b = w[n]
    BY BlocksWalked
  <1> HIDE DEF m, w
  <1>4. p.free_list[i] # NULL => p.free_list[i] \in BlocksIn(p, i)
    <2>1. 0 \in 0 .. m
      BY <1>1
    <2> QED BY <1>1, <1>3, <2>1
  <1>5. ASSUME NEW b \in BlocksIn(p, i), NextOf(p, b) # NULL
        PROVE  NextOf(p, b) \in BlocksIn(p, i)
    <2>1. PICK n \in 0 .. m : b = w[n] /\ b # NULL
      BY <1>3, <1>5
    <2>2. n # m
      BY <1>2, <2>1
    <2>3. n + 1 \in 1 .. m /\ n + 1 \in 0 .. m /\ (n + 1) - 1 = n
      BY <1>1, <2>2
    <2>4. NextOf(p, b) = w[n + 1]
      BY <1>1, <2>1, <2>3
    <2> QED BY <1>3, <1>5, <2>3, <2>4
  <1> QED BY <1>4, <1>5

\* And no others: they are in every set with the head and its members' successors.
LEMMA BlocksLeast ==
  ASSUME NEW p, ListsOK(p.free_list, p.node), NEW i \in Lists, NEW S,
         p.free_list[i] # NULL => p.free_list[i] \in S,
         \A b \in S : NextOf(p, b) # NULL => NextOf(p, b) \in S
  PROVE  BlocksIn(p, i) \subseteq S
  <1> DEFINE m == Cardinality(DOMAIN p.node)
             w == Walk(p, i)
             T == {n \in Nat : n <= m => w[n] \in S \cup {NULL}}
  <1>1. /\ m \in Nat /\ w \in [0 .. m -> Nat] /\ w[0] = p.free_list[i]
        /\ \A n \in 1 .. m : w[n] = NextOf(p, w[n - 1])
    BY WalkDefined
  <1>2. \A b : b \in BlocksIn(p, i) <=> b # NULL /\ \E n \in 0 .. m : b = w[n]
    BY BlocksWalked
  <1>3. NULL \notin DOMAIN p.node
    BY TableFacts DEF ListsOK, Addr
  <1>4. NextOf(p, NULL) = NULL
    BY <1>3 DEF NextOf
  <1> HIDE DEF m, w
  <1>5. 0 \in T
    BY <1>1
  <1>6. ASSUME NEW n \in Nat, n < m, n \in T
        PROVE  n + 1 \in T
    <2>1. w[n] \in S \cup {NULL}
      BY <1>1, <1>6
    <2>2. n + 1 \in 1 .. m /\ (n + 1) - 1 = n
      BY <1>1, <1>6
    <2>3. w[n + 1] = NextOf(p, w[n])
      BY <1>1, <2>2
    <2>4. w[n + 1] \in S \cup {NULL}
      BY <1>4, <2>1, <2>3
    <2> QED BY <2>4
  <1> HIDE DEF T
  <1>7. \A n \in Nat : n < m /\ n \in T => n + 1 \in T
    BY <1>6
  <1>8. \A n \in 0 .. m : n \in T
    BY <1>1, <1>5, <1>7, InductionUpTo
  <1>9. \A n \in 0 .. m : w[n] \in S \cup {NULL}
    BY <1>1, <1>8 DEF T
  <1> QED BY <1>2, <1>9

\* Every block of a list has a header and belongs there.
LEMMA BlocksBelong ==
  ASSUME NEW p, ListsOK(p.free_list, p.node), NEW i \in Lists, NEW b \in BlocksIn(p, i)
  PROVE  b \in DOMAIN p.node /\ ListFor(p.node[b].length) = i
  <1> DEFINE S == {c \in DOMAIN p.node : ListFor(p.node[c].length) = i}
  <1>1. p.free_list[i] # NULL => p.free_list[i] \in S
    BY DEF ListsOK, HeadsOK
  <1>2. ASSUME NEW c \in S, NextOf(p, c) # NULL
        PROVE  NextOf(p, c) \in S
    <2>1. NextOf(p, c) = p.node[c].next
      BY DEF NextOf
    <2> QED BY <1>2, <2>1 DEF ListsOK, LinksOK
  <1> HIDE DEF S
  <1>3. \A c \in S : NextOf(p, c) # NULL => NextOf(p, c) \in S
    BY <1>2
  <1>4. BlocksIn(p, i) \subseteq S
    BY <1>1, <1>3, BlocksLeast
  <1> QED BY <1>4 DEF S

\* A block of a list that is not its head is another one's successor.
LEMMA BlocksFollow ==
  ASSUME NEW p, ListsOK(p.free_list, p.node), NEW i \in Lists, NEW b \in BlocksIn(p, i),
         b # p.free_list[i]
  PROVE  \E a \in BlocksIn(p, i) : a \in DOMAIN p.node /\ p.node[a].next = b
  <1> DEFINE m == Cardinality(DOMAIN p.node)
             w == Walk(p, i)
  <1>1. /\ m \in Nat /\ w \in [0 .. m -> Nat] /\ w[0] = p.free_list[i]
        /\ \A n \in 1 .. m : w[n] = NextOf(p, w[n - 1])
    BY WalkDefined
  <1>2. \A c : c \in BlocksIn(p, i) <=> c # NULL /\ \E n \in 0 .. m : c = w[n]
    BY BlocksWalked
  <1> HIDE DEF m, w
  <1>3. PICK n \in 0 .. m : b = w[n] /\ b # NULL
    BY <1>2
  <1>4. n # 0
    BY <1>1, <1>3
  <1>5. n \in 1 .. m /\ n - 1 \in 0 .. m
    BY <1>1, <1>4
  <1> DEFINE a == w[n - 1]
  <1>6. b = NextOf(p, a)
    BY <1>1, <1>3, <1>5
  <1>7. a \in DOMAIN p.node /\ p.node[a].next = b
    BY <1>3, <1>6, NextFacts
  <1>8. a # NULL
    BY <1>7, HeaderFacts DEF ListsOK
  <1>9. a \in BlocksIn(p, i)
    BY <1>2, <1>5, <1>8
  <1> QED BY <1>7, <1>9

-----------------------------------------------------------------------------
(* Areas of memory *)

\* An area is what it is used for, the address where it starts, and its length.
Area(use, start, length) == <<use, start, length>>

From(x) == x[2]
To(x) == x[2] + x[3]

IsArea(x) == x[2] \in Nat /\ x[3] \in Nat /\ x[3] # 0
Disjoint(x, y) == To(x) <= From(y) \/ To(y) <= From(x)
Within(x, y) == From(y) <= From(x) /\ To(x) <= To(y)

\* The byte b, and every byte of x, is memory of a chunk.
InMemory(b, chunks) == \E i \in chunks : i[1] # NULL /\ i[1] <= b /\ b < i[2]
Chunked(x, chunks) == \A b \in Nat : From(x) <= b /\ b < To(x) => InMemory(b, chunks)

\* No two areas overlap, and each is memory of the chunks, however they adjoin.
Tiled(areas, chunks) ==
    /\ \A x \in areas : IsArea(x) /\ Chunked(x, chunks)
    /\ \A x, y \in areas : x # y => Disjoint(x, y)

\* The parts of an area, and the areas when x has given way to some parts of it.
AreParts(parts, x) ==
    /\ \A s \in parts : IsArea(s) /\ Within(s, x)
    /\ \A s, t \in parts : s # t => Disjoint(s, t)
Instead(areas2, areas, x, parts) ==
    x \in areas /\ \A y \in areas2 : (y \in areas /\ y # x) \/ y \in parts

\* An area x gives way to parts of it.
LEMMA TiledParts ==
  ASSUME NEW areas, NEW chunks, chunks \subseteq Nat \X Nat, Tiled(areas, chunks),
         NEW x, NEW parts, AreParts(parts, x), NEW areas2, Instead(areas2, areas, x, parts)
  PROVE  Tiled(areas2, chunks)
  <1>0. /\ x \in areas
        /\ \A s \in parts : IsArea(s) /\ Within(s, x)
        /\ \A s, t \in parts : s # t => Disjoint(s, t)
        /\ \A y \in areas2 : y \in areas \ {x} \/ y \in parts
    BY DEF AreParts, Instead
  <1>1. ASSUME NEW y \in areas2
        PROVE  IsArea(y) /\ Chunked(y, chunks)
    <2>1. CASE y \in areas \ {x}
      BY <2>1 DEF Tiled
    <2>2. CASE y \in parts
      <3>1. IsArea(x) /\ Chunked(x, chunks) /\ IsArea(y) /\ Within(y, x)
        BY <1>0, <2>2 DEF Tiled
      <3>2. ASSUME NEW b \in Nat, From(y) <= b, b < To(y)
            PROVE  From(x) <= b /\ b < To(x)
        BY <3>1, <3>2 DEF IsArea, Within, From, To
      <3> QED BY <3>1, <3>2 DEF Chunked
    <2> QED BY <1>0, <2>1, <2>2
  <1>2. \A y \in parts, z \in areas \ {x} : Disjoint(y, z) /\ Disjoint(z, y)
    <2> SUFFICES ASSUME NEW y \in parts, NEW z \in areas \ {x}
                 PROVE  Disjoint(y, z) /\ Disjoint(z, y)
      OBVIOUS
    <2>1. Disjoint(x, z) /\ IsArea(x) /\ IsArea(z)
      BY <1>0 DEF Tiled
    <2>2. IsArea(y) /\ Within(y, x)
      BY <1>0
    <2> QED BY <2>1, <2>2 DEF Disjoint, IsArea, Within, From, To
  <1>3. ASSUME NEW y \in areas2, NEW z \in areas2, y # z
        PROVE  Disjoint(y, z)
    <2>1. CASE y \in areas \ {x} /\ z \in areas \ {x}
      BY <1>3, <2>1 DEF Tiled
    <2>2. CASE y \in parts /\ z \in parts
      BY <1>0, <1>3, <2>2
    <2>3. CASE y \in parts /\ z \in areas \ {x}
      BY <1>2, <2>3
    <2>4. CASE z \in parts /\ y \in areas \ {x}
      BY <1>2, <2>4
    <2> QED BY <1>0, <2>1, <2>2, <2>3, <2>4
  <1> QED BY <1>1, <1>3 DEF Tiled

\* Fewer areas.
LEMMA TiledSubset ==
  ASSUME NEW areas, NEW chunks, Tiled(areas, chunks), NEW areas2 \in SUBSET areas
  PROVE  Tiled(areas2, chunks)
  BY DEF Tiled

\* The areas when two neighbours have become one.
Joined(areas2, areas, x, y, z) ==
    /\ x \in areas /\ y \in areas /\ IsArea(z) /\ From(z) = From(x) /\ To(z) = To(y)
    /\ \A a \in areas2 : a \in areas \ {x, y} \/ a = z

\* Two neighbours become one area, whether their chunk is the same or not.
LEMMA TiledJoin ==
  ASSUME NEW areas, NEW chunks, chunks \subseteq Nat \X Nat, Tiled(areas, chunks),
         NEW x, NEW y, To(x) = From(y), NEW areas2, NEW z, Joined(areas2, areas, x, y, z)
  PROVE  Tiled(areas2, chunks)
  <1>0. /\ x \in areas /\ y \in areas /\ IsArea(z) /\ From(z) = From(x) /\ To(z) = To(y)
        /\ \A a \in areas2 : a \in areas \ {x, y} \/ a = z
        /\ To(x) = From(y)
    BY DEF Joined
  <1>1. Chunked(z, chunks)
    <2>1. IsArea(x) /\ IsArea(y) /\ Chunked(x, chunks) /\ Chunked(y, chunks)
      BY <1>0 DEF Tiled
    <2>2. ASSUME NEW b \in Nat, From(z) <= b, b < To(z)
          PROVE  (From(x) <= b /\ b < To(x)) \/ (From(y) <= b /\ b < To(y))
      BY <1>0, <2>1, <2>2 DEF IsArea, From, To
    <2> QED BY <2>1, <2>2 DEF Chunked
  <1>2. \A a \in areas \ {x, y} : Disjoint(a, z) /\ Disjoint(z, a)
    <2> SUFFICES ASSUME NEW a \in areas \ {x, y}
                 PROVE  Disjoint(a, z) /\ Disjoint(z, a)
      OBVIOUS
    <2>1. IsArea(a) /\ IsArea(x) /\ IsArea(y) /\ Disjoint(a, x) /\ Disjoint(a, y)
      BY <1>0 DEF Tiled
    <2> QED BY <1>0, <2>1 DEF Disjoint, IsArea, From, To
  <1>3. ASSUME NEW a \in areas2
        PROVE  IsArea(a) /\ Chunked(a, chunks)
    BY <1>0, <1>1 DEF Tiled
  <1>4. ASSUME NEW a \in areas2, NEW b \in areas2, a # b
        PROVE  Disjoint(a, b)
    <2>1. CASE a = z
      BY <1>0, <1>2, <1>4, <2>1
    <2>2. CASE b = z
      BY <1>0, <1>2, <1>4, <2>2
    <2>3. CASE a # z /\ b # z
      <3>1. a \in areas /\ b \in areas
        BY <1>0, <2>3
      <3> QED BY <1>4, <3>1 DEF Tiled
    <2> QED BY <2>1, <2>2, <2>3
  <1> QED BY <1>3, <1>4 DEF Tiled

\* An area in a chunk that has just been fetched.
LEMMA TiledNew ==
  ASSUME NEW areas, NEW chunks, chunks \subseteq Nat \X Nat, Tiled(areas, chunks),
         NEW start \in Nat \ {NULL}, NEW end \in Nat,
         \A i \in chunks : i[1] # NULL => i[2] <= start \/ end <= i[1],
         NEW z, IsArea(z), From(z) = start, To(z) = end,
         NEW areas2, \A a \in areas2 : a \in areas \/ a = z,
         NEW chunks2, chunks \cup {<<start, end>>} \subseteq chunks2
  PROVE  Tiled(areas2, chunks2)
  <1>1. Chunked(z, chunks2)
    <2> DEFINE i == <<start, end>>
    <2>1. i \in chunks2 /\ i[1] = start /\ i[2] = end
      OBVIOUS
    <2> HIDE DEF i
    <2> QED BY <2>1 DEF Chunked, InMemory
  <1>2. \A a \in areas : Chunked(a, chunks2)
    BY DEF Tiled, Chunked, InMemory
  <1>3. \A a \in areas : Disjoint(a, z) /\ Disjoint(z, a)
    <2> SUFFICES ASSUME NEW a \in areas, ~Disjoint(a, z) \/ ~Disjoint(z, a)
                 PROVE  FALSE
      OBVIOUS
    <2>1. IsArea(a) /\ Chunked(a, chunks)
      BY DEF Tiled
    <2>2. PICK b \in Nat : From(a) <= b /\ b < To(a) /\ start <= b /\ b < end
      <3> DEFINE b == IF From(a) <= start THEN start ELSE From(a)
      <3>1. b \in Nat /\ From(a) <= b /\ b < To(a) /\ start <= b /\ b < end
        BY <2>1 DEF Disjoint, IsArea, From, To
      <3> QED BY <3>1
    <2>3. PICK i \in chunks : i[1] # NULL /\ i[1] <= b /\ b < i[2]
      BY <2>1, <2>2 DEF Chunked, InMemory
    <2>4. i[1] \in Nat /\ i[2] \in Nat
      OBVIOUS
    <2>5. i[2] <= start \/ end <= i[1]
      BY <2>3
    <2> QED BY <2>2, <2>3, <2>4, <2>5
  <1>4. ASSUME NEW a \in areas2
        PROVE  IsArea(a) /\ Chunked(a, chunks2)
    BY <1>1, <1>2 DEF Tiled
  <1>5. ASSUME NEW a \in areas2, NEW b \in areas2, a # b
        PROVE  Disjoint(a, b)
    BY <1>3, <1>5 DEF Tiled
  <1> QED BY <1>4, <1>5 DEF Tiled

-----------------------------------------------------------------------------
(* What the memory of the pool is used for *)

FreeAreas(nd) == {Area("free", a, nd[a].length) : a \in DOMAIN nd}
LiveAreas(l) == {Area("live", a, DataAlignment(l[a])) : a \in {b \in DOMAIN l : Served(l[b])}}
SpaceAreas(start, end) == IF start = end THEN {} ELSE {Area("space", start, end - start)}

\* The free lists, and everything else the memory is used for.
LaidOut(p, others, chunks) ==
    /\ ListsOK(p.free_list, p.node)
    /\ chunks \subseteq Nat \X Nat
    /\ \A x \in others : x[1] # "free"
    /\ Tiled(FreeAreas(p.node) \cup others, chunks)

\* Nothing else starts where a free block does.
LEMMA StartsApart ==
  ASSUME NEW p, NEW others, NEW chunks, LaidOut(p, others, chunks), NEW x \in others
  PROVE  /\ x[2] \in Nat /\ x[3] \in Nat /\ x[3] # 0
         /\ x[2] \in Addr /\ x[2] \notin DOMAIN p.node
  <1>1. IsArea(x) /\ Chunked(x, chunks)
    BY DEF LaidOut, Tiled
  <1>2. ASSUME x[2] \in DOMAIN p.node
        PROVE  FALSE
    <2> DEFINE y == Area("free", x[2], p.node[x[2]].length)
    <2>1. y \in FreeAreas(p.node) /\ y[1] = "free" /\ y[2] = x[2]
      BY <1>2 DEF FreeAreas, Area
    <2> HIDE DEF y
    <2>2. x # y
      BY <2>1 DEF LaidOut
    <2>3. Disjoint(x, y) /\ IsArea(y)
      BY <2>1, <2>2 DEF LaidOut, Tiled
    <2> QED BY <1>1, <2>1, <2>3 DEF IsArea, Disjoint, From, To
  <1>3. x[2] # NULL
    <2>1. PICK i \in chunks : i[1] # NULL /\ i[1] <= x[2]
      BY <1>1 DEF Chunked, InMemory, IsArea, From, To
    <2>2. i[1] \in Nat
      BY DEF LaidOut
    <2> QED BY <1>1, <2>1, <2>2 DEF IsArea, NULL
  <1> QED BY <1>1, <1>2, <1>3 DEF IsArea, Addr

\* The blocks of the second table, but for some, are in the first with the same
\* length.
Keeps(nd, nd2, D) ==
    \A b \in DOMAIN nd2 : b \notin D => b \in DOMAIN nd /\ nd2[b].length = nd[b].length

\* The free areas, when blocks come, go or stay.
LEMMA FreeAreasFrom ==
  ASSUME NEW nd, NEW nd2, NEW D, Keeps(nd, nd2, D), NEW y \in FreeAreas(nd2)
  PROVE  \/ y \in FreeAreas(nd)
         \/ \E b \in D : b \in DOMAIN nd2 /\ y = Area("free", b, nd2[b].length)
  <1>1. PICK b \in DOMAIN nd2 : y = Area("free", b, nd2[b].length)
    BY DEF FreeAreas
  <1>2. CASE b \in D
    BY <1>1, <1>2
  <1>3. CASE b \notin D
    <2>1. b \in DOMAIN nd /\ nd2[b].length = nd[b].length
      BY <1>3 DEF Keeps
    <2> QED BY <1>1, <2>1 DEF FreeAreas
  <1> QED BY <1>2, <1>3

\* No free area is one of the others.
LEMMA OthersAreNotFree ==
  ASSUME NEW p, NEW others, NEW chunks, LaidOut(p, others, chunks), NEW x \in others
  PROVE  x \notin FreeAreas(p.node)
  <1>1. x[1] # "free"
    BY DEF LaidOut
  <1>2. \A y \in FreeAreas(p.node) : y[1] = "free"
    BY DEF FreeAreas, Area
  <1> QED BY <1>1, <1>2

-----------------------------------------------------------------------------
(* Putting a block into a list *)

\* What Push changes in the pool.
LEMMA PushFields ==
  ASSUME NEW p \in Pools, NEW i \in Lists, NEW a, NEW length
  PROVE  LET q == Push(p, i, a, length)
         IN  /\ q.free_list \in [Lists -> Nat] /\ q.node \in Tables => q \in Pools
             /\ q.startfree = p.startfree /\ q.endfree = p.endfree
             /\ q.free_list = [p.free_list EXCEPT ![i] = a]
             /\ q.node = Pushed(p.node, p.free_list[i], a, length)
  <1> DEFINE head == p.free_list[i]
             nd == Pushed(p.node, head, a, length)
             q == Push(p, i, a, length)
  <1>1. q = [p EXCEPT !.free_list[i] = a, !.node = nd]
    BY DEF Push, Pushed, Pools
  <1> HIDE DEF nd, q
  <1>2. /\ q.startfree = p.startfree /\ q.endfree = p.endfree
        /\ q.free_list = [p.free_list EXCEPT ![i] = a] /\ q.node = nd
    BY <1>1 DEF Pools
  <1>3. q.free_list \in [Lists -> Nat] /\ q.node \in Tables => q \in Pools
    BY <1>1, <1>2 DEF Pools
  <1> QED BY <1>2, <1>3 DEF q, nd

\* What the lists and the table are when a block has been put into list i.
Filed(q, p, i, a, length) ==
    /\ q.free_list = [p.free_list EXCEPT ![i] = a]
    /\ DOMAIN q.node = DOMAIN p.node \cup {a}
    /\ q.node[a].length = length
    /\ q.node[a].next = p.free_list[i]
    /\ \A b \in DOMAIN p.node : q.node[b].length = p.node[b].length /\ q.node[b].next = p.node[b].next

\* The block fills an area that nobody uses any more.
LEMMA PushLaidOut ==
  ASSUME NEW p \in Pools, NEW others, NEW chunks, LaidOut(p, others, chunks),
         NEW use, NEW a, NEW length, Fileable(length),
         NEW x, x = Area(use, a, length), x \in others, NEW others2, others2 = others \ {x},
         NEW i, i = ListFor(length), NEW q, q = Push(p, i, a, length)
  PROVE  /\ q \in Pools /\ LaidOut(q, others2, chunks) /\ Filed(q, p, i, a, length)
         /\ q.startfree = p.startfree /\ q.endfree = p.endfree
  <1> DEFINE fl == p.free_list
             nd == p.node
             fl2 == [fl EXCEPT ![i] = a]
             head == fl[i]
             nd2 == Pushed(nd, head, a, length)
  <1>1. ListsOK(fl, nd) /\ i \in Lists
    BY DEF LaidOut, Fileable
  <1>0. a = x[2] /\ length = x[3]
    BY DEF Area
  <1>2. /\ x[3] \in Nat /\ a \in Addr /\ a \notin DOMAIN nd /\ a \in Nat
    BY <1>0, StartsApart
  <1>3. /\ q.free_list \in [Lists -> Nat] /\ q.node \in Tables => q \in Pools
        /\ q.startfree = p.startfree /\ q.endfree = p.endfree
        /\ q.free_list = fl2 /\ q.node = nd2
    BY <1>1, PushFields
  <1>4. /\ ListsOK(fl2, nd2)
        /\ DOMAIN nd2 = DOMAIN nd \cup {a}
        /\ nd2[a].length = length /\ nd2[a].next = head
        /\ \A b \in DOMAIN nd : nd2[b].length = nd[b].length /\ nd2[b].next = nd[b].next
    <2> HIDE DEF fl, nd, head, nd2, fl2
    <2> USE DEF head, nd2, fl2
    <2> QED BY <1>1, <1>2, PushLists
  <1> HIDE DEF fl2, nd2
  <1>5. q \in Pools
    BY <1>3, <1>4 DEF ListsOK
  <1>6. Tiled(FreeAreas(nd2) \cup others2, chunks)
    <2> DEFINE z == Area("free", a, length)
               areas == FreeAreas(nd) \cup others
               areas2 == FreeAreas(nd2) \cup others2
               D == {a}
    <2>1. IsArea(z) /\ Within(z, x)
      BY <1>0, <1>2 DEF IsArea, Within, From, To, Area, Fileable, Served
    <2>2. x \notin FreeAreas(nd)
      BY OthersAreNotFree
    <2>3. Keeps(nd, nd2, D)
      BY <1>4 DEF Keeps
    <2>4. \A y \in FreeAreas(nd2) :
             \/ y \in FreeAreas(nd)
             \/ \E b \in D : b \in DOMAIN nd2 /\ y = Area("free", b, nd2[b].length)
      <3> HIDE DEF D, nd
      <3> QED BY <2>3, FreeAreasFrom
    <2>5. ASSUME NEW y \in areas2
          PROVE  y \in areas \ {x} \/ y \in {z}
      <3>1. CASE y \in FreeAreas(nd2)
        BY <1>4, <2>2, <2>4, <3>1
      <3>2. CASE y \in others2
        BY <3>2
      <3> QED BY <3>1, <3>2
    <2> HIDE DEF z
    <2>6. chunks \subseteq Nat \X Nat /\ Tiled(areas, chunks)
      BY DEF LaidOut
    <2>7. AreParts({z}, x)
      BY <2>1 DEF AreParts
    <2>8. Instead(areas2, areas, x, {z})
      BY <2>5 DEF Instead
    <2> HIDE DEF areas, areas2
    <2>9. Tiled(areas2, chunks)
      BY <2>6, <2>7, <2>8, TiledParts
    <2> QED BY <2>9 DEF areas2
  <1>7. LaidOut(q, others2, chunks)
    BY <1>3, <1>4, <1>6 DEF LaidOut
  <1> QED BY <1>3, <1>4, <1>5, <1>7 DEF fl2, Filed

\* A list whose new head leads to what it held keeps it.
LEMMA PushReach ==
  ASSUME NEW p, ListsOK(p.free_list, p.node), NEW q, ListsOK(q.free_list, q.node),
         NEW i \in Lists, NEW a, q.free_list = [p.free_list EXCEPT ![i] = a],
         a # NULL, a \in DOMAIN q.node, q.node[a].next = p.free_list[i],
         \A b \in DOMAIN p.node : b \in DOMAIN q.node /\ q.node[b].next = p.node[b].next
  PROVE  /\ a \in BlocksIn(q, i)
         /\ \A j \in Lists : BlocksIn(p, j) \subseteq BlocksIn(q, j)
  <1>1. /\ p.free_list \in [Lists -> Nat] /\ q.free_list[i] = a
        /\ \A j \in Lists : j # i => q.free_list[j] = p.free_list[j]
    BY DEF ListsOK
  <1>2. a \in BlocksIn(q, i)
    BY <1>1, BlocksClosed
  <1>3. ASSUME NEW j \in Lists
        PROVE  BlocksIn(p, j) \subseteq BlocksIn(q, j)
    <2> DEFINE S == BlocksIn(q, j)
    <2>1. /\ q.free_list[j] # NULL => q.free_list[j] \in S
          /\ \A b \in S : NextOf(q, b) # NULL => NextOf(q, b) \in S
      BY BlocksClosed
    <2>2. p.free_list[j] # NULL => p.free_list[j] \in S
      <3>1. CASE j = i
        <4>1. NextOf(q, a) = p.free_list[j]
          BY <3>1 DEF NextOf
        <4> QED BY <1>2, <2>1, <3>1, <4>1
      <3>2. CASE j # i
        BY <1>1, <2>1, <3>2
      <3> QED BY <3>1, <3>2
    <2>3. ASSUME NEW b \in S, NextOf(p, b) # NULL
          PROVE  NextOf(p, b) \in S
      <3>1. b \in DOMAIN p.node /\ NextOf(p, b) = p.node[b].next
        BY <2>3 DEF NextOf
      <3>2. NextOf(q, b) = NextOf(p, b)
        BY <3>1 DEF NextOf
      <3> QED BY <2>1, <2>3, <3>2
    <2> HIDE DEF S
    <2>4. \A b \in S : NextOf(p, b) # NULL => NextOf(p, b) \in S
      BY <2>3
    <2>5. BlocksIn(p, j) \subseteq S
      BY <2>2, <2>4, BlocksLeast
    <2> QED BY <2>5 DEF S
  <1> QED BY <1>2, <1>3

-----------------------------------------------------------------------------
(* Taking a block out of its list *)

\* The blocks of the lists, but for x, when x has been taken out.
LEMMA HeadReach ==
  ASSUME NEW p, ListsOK(p.free_list, p.node), NEW q, ListsOK(q.free_list, q.node),
         NEW i \in Lists, NEW x, q.free_list = [p.free_list EXCEPT ![i] = p.node[x].next],
         p.free_list[i] = x, x \in DOMAIN p.node,
         HeadTaken(q.node, p.node, x)
  PROVE  \A j \in Lists : BlocksIn(p, j) \subseteq BlocksIn(q, j) \cup {x}
  <1>1. /\ p.free_list \in [Lists -> Nat] /\ q.free_list[i] = p.node[x].next
        /\ \A j \in Lists : j # i => q.free_list[j] = p.free_list[j]
    BY DEF ListsOK
  <1> TAKE j \in Lists
  <1> DEFINE S == BlocksIn(q, j) \cup {b \in {x} : j = i}
  <1>2. /\ q.free_list[j] # NULL => q.free_list[j] \in BlocksIn(q, j)
        /\ \A b \in BlocksIn(q, j) : NextOf(q, b) # NULL => NextOf(q, b) \in BlocksIn(q, j)
    BY BlocksClosed
  <1>3. p.free_list[j] # NULL => p.free_list[j] \in S
    BY <1>1, <1>2
  <1>4. ASSUME NEW b \in S, NextOf(p, b) # NULL
        PROVE  NextOf(p, b) \in S
    <2>1. CASE b \in BlocksIn(q, j)
      <3>1. b \in DOMAIN q.node
        BY <2>1, BlocksBelong
      <3>2. NextOf(q, b) = NextOf(p, b)
        BY <3>1 DEF NextOf, HeadTaken
      <3> QED BY <1>2, <1>4, <2>1, <3>2
    <2>2. CASE b = x /\ j = i
      <3>1. NextOf(p, b) = q.free_list[j]
        BY <1>1, <2>2 DEF NextOf
      <3> QED BY <1>2, <1>4, <3>1
    <2> QED BY <1>4, <2>1, <2>2
  <1> HIDE DEF S
  <1>5. \A b \in S : NextOf(p, b) # NULL => NextOf(p, b) \in S
    BY <1>4
  <1>6. BlocksIn(p, j) \subseteq S
    BY <1>3, <1>5, BlocksLeast
  <1> QED BY <1>6 DEF S

\* The same for a block between two others.
LEMMA MiddleReach ==
  ASSUME NEW p, ListsOK(p.free_list, p.node), NEW q, ListsOK(q.free_list, q.node),
         q.free_list = p.free_list, NEW x \in DOMAIN p.node, NEW y, NEW z,
         p.node[x].next = z, MiddleTaken(q.node, p.node, x, y, z),
         y \in DOMAIN q.node, p.node[y].next = x
  PROVE  \A j \in Lists : BlocksIn(p, j) \subseteq BlocksIn(q, j) \cup {x}
  <1> TAKE j \in Lists
  <1> DEFINE S == BlocksIn(q, j) \cup {b \in {x} : y \in BlocksIn(q, j)}
  <1>1. /\ q.free_list[j] # NULL => q.free_list[j] \in BlocksIn(q, j)
        /\ \A b \in BlocksIn(q, j) : NextOf(q, b) # NULL => NextOf(q, b) \in BlocksIn(q, j)
    BY BlocksClosed
  <1>2. p.free_list[j] # NULL => p.free_list[j] \in S
    BY <1>1
  <1>3. ASSUME NEW b \in S, NextOf(p, b) # NULL
        PROVE  NextOf(p, b) \in S
    <2>1. CASE b \in BlocksIn(q, j)
      <3>1. b \in DOMAIN q.node
        BY <2>1, BlocksBelong
      <3>2. CASE b = y
        <4>1. NextOf(p, b) = x
          BY <3>1, <3>2 DEF NextOf, MiddleTaken
        <4> QED BY <2>1, <3>2, <4>1
      <3>3. CASE b # y
        <4>1. NextOf(q, b) = NextOf(p, b)
          BY <3>1, <3>3 DEF NextOf, MiddleTaken
        <4> QED BY <1>1, <1>3, <2>1, <4>1
      <3> QED BY <3>2, <3>3
    <2>2. CASE b = x /\ y \in BlocksIn(q, j)
      <3>1. NextOf(p, b) = NextOf(q, y)
        BY <2>2 DEF NextOf, MiddleTaken
      <3> QED BY <1>1, <1>3, <2>2, <3>1
    <2> QED BY <1>3, <2>1, <2>2
  <1> HIDE DEF S
  <1>4. \A b \in S : NextOf(p, b) # NULL => NextOf(p, b) \in S
    BY <1>3
  <1>5. BlocksIn(p, j) \subseteq S
    BY <1>2, <1>4, BlocksLeast
  <1> QED BY <1>5 DEF S

\* The tables that MoveToFreeList and RocketCoMalloc make.
LEMMA HeadTable ==
  ASSUME NEW nd \in Tables, NEW x \in DOMAIN nd, NEW y, y = nd[x].next,
         y \in DOMAIN nd \cup {NULL}, NEW nd2, nd2 = Forget(SetPrev(nd, y, NULL), x)
  PROVE  HeadTaken(nd2, nd, x)
  <1> DEFINE mid == SetPrev(nd, y, NULL)
  <1>1. /\ mid \in Tables /\ DOMAIN mid = DOMAIN nd
        /\ \A b \in DOMAIN nd : /\ mid[b].next = nd[b].next
                                /\ mid[b].length = nd[b].length
                                /\ b # y => mid[b].prev = nd[b].prev
    <2>1. NULL \in Nat
      BY DEF NULL
    <2> QED BY <2>1, SetPrevFacts
  <1> HIDE DEF mid
  <1>2. /\ nd2 \in Tables /\ DOMAIN nd2 = DOMAIN mid \ {x}
        /\ \A b \in DOMAIN mid \ {x} : nd2[b] = mid[b]
    <2>1. nd2 = Forget(mid, x)
      BY DEF mid
    <2>2. /\ Forget(mid, x) \in Tables
          /\ DOMAIN Forget(mid, x) = DOMAIN mid \ {x}
          /\ \A b \in DOMAIN mid \ {x} : Forget(mid, x)[b] = mid[b]
      BY ONLY <1>1, ForgetFacts
    <2> QED BY <2>1, <2>2
  <1>3. DOMAIN nd2 = DOMAIN nd \ {x} /\ \A b \in DOMAIN nd2 : b \in DOMAIN nd /\ nd2[b] = mid[b]
    BY <1>1, <1>2
  <1> QED BY <1>1, <1>2, <1>3 DEF HeadTaken

\* The table that MoveToFreeList makes where the block has both neighbours.
LEMMA MiddleTable ==
  ASSUME NEW nd \in Tables, NEW x \in DOMAIN nd, NEW y \in DOMAIN nd \ {x},
         NEW z \in DOMAIN nd \ {x}, nd[x].next = z,
         NEW nd2, nd2 = Forget([SetPrev(nd, z, y) EXCEPT ![y].next = z], x)
  PROVE  MiddleTaken(nd2, nd, x, y, z)
  <1> DEFINE mid == SetPrev(nd, z, y)
             h == [mid[y] EXCEPT !.next = z]
             mid2 == [mid EXCEPT ![y] = h]
  <1>1. y \in Nat /\ z \in Nat /\ z # NULL
    BY HeaderFacts
  <1>2. /\ mid \in Tables /\ DOMAIN mid = DOMAIN nd
        /\ \A b \in DOMAIN nd : /\ mid[b].next = nd[b].next
                                /\ mid[b].length = nd[b].length
                                /\ b # z => mid[b].prev = nd[b].prev
        /\ mid[z].prev = y
    <2>1. nd \in Tables /\ z \in DOMAIN nd \cup {NULL} /\ y \in Nat /\ z # NULL
      BY <1>1
    <2> QED BY ONLY <2>1, SetPrevFacts
  <1>3. nd2 = Forget(mid2, x)
    OBVIOUS
  <1> HIDE DEF mid
  <1>4. /\ mid \in [DOMAIN nd -> Headers] /\ DOMAIN nd \subseteq Addr
    BY <1>2, TableFacts
  <1>5. h \in Headers /\ h.next = z /\ h.length = mid[y].length /\ h.prev = mid[y].prev
    BY <1>1, <1>4 DEF Headers
  <1> HIDE DEF h
  <1>6. /\ DOMAIN mid2 = DOMAIN nd /\ mid2[y] = h
        /\ \A b \in DOMAIN nd : b # y => mid2[b] = mid[b]
        /\ mid2 \in [DOMAIN nd -> Headers]
    BY <1>4, <1>5
  <1>7. mid2 \in Tables
    BY <1>4, <1>6, TableFacts
  <1> HIDE DEF mid2
  <1>8. /\ nd2 \in Tables /\ DOMAIN nd2 = DOMAIN mid2 \ {x}
        /\ \A b \in DOMAIN mid2 \ {x} : nd2[b] = mid2[b]
    <2>1. /\ Forget(mid2, x) \in Tables
          /\ DOMAIN Forget(mid2, x) = DOMAIN mid2 \ {x}
          /\ \A b \in DOMAIN mid2 \ {x} : Forget(mid2, x)[b] = mid2[b]
      BY ONLY <1>7, ForgetFacts
    <2> QED BY <1>3, <2>1
  <1>9. DOMAIN nd2 = DOMAIN nd \ {x} /\ \A b \in DOMAIN nd2 : b \in DOMAIN nd /\ nd2[b] = mid2[b]
    BY <1>6, <1>8
  <1>10. ASSUME NEW b \in DOMAIN nd2
         PROVE  /\ nd2[b].length = nd[b].length
                /\ nd2[b].next = IF b = y THEN z ELSE nd[b].next
                /\ nd2[b].prev = IF b = z THEN y ELSE nd[b].prev
    <2>1. CASE b = y
      BY <1>2, <1>5, <1>6, <1>9, <2>1
    <2>2. CASE b # y
      <3>1. b \in DOMAIN nd /\ nd2[b] = mid[b]
        BY <1>6, <1>9, <2>2
      <3>2. CASE b = z
        BY <1>2, <2>2, <3>1, <3>2
      <3>3. CASE b # z
        BY <1>2, <2>2, <3>1, <3>3
      <3> QED BY <3>2, <3>3
    <2> QED BY <2>1, <2>2
  <1> QED BY <1>8, <1>9, <1>10 DEF MiddleTaken

\* What MoveToFreeList changes in the pool.
LEMMA MoveHeadFields ==
  ASSUME NEW p \in Pools, NEW x \in DOMAIN p.node, p.node[x].prev = NULL,
         NEW i \in Lists, i = ListFor(p.node[x].length),
         NEW y, y = p.node[x].next
  PROVE  LET q == MoveToFreeList(p, x)
         IN  /\ q.free_list \in [Lists -> Nat] /\ q.node \in Tables => q \in Pools
             /\ q.startfree = p.startfree /\ q.endfree = p.endfree
             /\ q.free_list = [p.free_list EXCEPT ![i] = y]
             /\ q.node = Forget(SetPrev(p.node, y, NULL), x)
  <1> DEFINE nd == Forget(SetPrev(p.node, y, NULL), x)
             q == MoveToFreeList(p, x)
  <1>1. q = [p EXCEPT !.free_list[i] = y, !.node = nd]
    BY DEF MoveToFreeList, ListFor, Pools
  <1> HIDE DEF nd, q
  <1>2. /\ q.startfree = p.startfree /\ q.endfree = p.endfree
        /\ q.free_list = [p.free_list EXCEPT ![i] = y] /\ q.node = nd
    BY <1>1 DEF Pools
  <1>3. q.free_list \in [Lists -> Nat] /\ q.node \in Tables => q \in Pools
    BY <1>1, <1>2 DEF Pools
  <1> QED BY <1>2, <1>3 DEF q, nd

\* What it changes where the block has a predecessor.
LEMMA MoveMiddleFields ==
  ASSUME NEW p \in Pools, NEW x \in DOMAIN p.node, NEW y, y = p.node[x].prev, y # NULL,
         NEW z, z = p.node[x].next
  PROVE  LET q == MoveToFreeList(p, x)
         IN  /\ q.free_list \in [Lists -> Nat] /\ q.node \in Tables => q \in Pools
             /\ q.startfree = p.startfree /\ q.endfree = p.endfree
             /\ q.free_list = p.free_list
             /\ q.node = Forget([SetPrev(p.node, z, y) EXCEPT ![y].next = z], x)
  <1> DEFINE nd == Forget([SetPrev(p.node, z, y) EXCEPT ![y].next = z], x)
             q == MoveToFreeList(p, x)
  <1>1. q = [p EXCEPT !.node = nd]
    BY DEF MoveToFreeList, Pools
  <1> HIDE DEF nd, q
  <1>2. /\ q.startfree = p.startfree /\ q.endfree = p.endfree
        /\ q.free_list = p.free_list /\ q.node = nd
    BY <1>1 DEF Pools
  <1>3. q.free_list \in [Lists -> Nat] /\ q.node \in Tables => q \in Pools
    BY <1>1, <1>2 DEF Pools
  <1> QED BY <1>2, <1>3 DEF q, nd

\* What is left when a block has been taken out of its list.
TakenOut(q, p, x) ==
    /\ ListsOK(q.free_list, q.node)
    /\ DOMAIN q.node = DOMAIN p.node \ {x}
    /\ \A b \in DOMAIN q.node : q.node[b].length = p.node[b].length
    /\ \A j \in Lists : BlocksIn(p, j) \subseteq BlocksIn(q, j) \cup {x}

\* A head is taken out.
LEMMA TakeHead ==
  ASSUME NEW p, ListsOK(p.free_list, p.node), NEW i \in Lists, NEW x, p.free_list[i] = x,
         x \in DOMAIN p.node, NEW q, q.free_list = [p.free_list EXCEPT ![i] = p.node[x].next],
         HeadTaken(q.node, p.node, x)
  PROVE  TakenOut(q, p, x)
  <1> DEFINE fl == p.free_list
             nd == p.node
             fl2 == q.free_list
             nd2 == q.node
  <1>1. ListsOK(fl2, nd2)
    <2> HIDE DEF fl, nd, fl2, nd2
    <2>1. fl2 = [fl EXCEPT ![i] = nd[x].next] /\ ListsOK(fl, nd) /\ x \in DOMAIN nd /\ fl[i] = x
          /\ HeadTaken(nd2, nd, x)
      BY DEF fl, nd, fl2, nd2
    <2> QED BY <2>1, HeadLists
  <1>2. \A j \in Lists : BlocksIn(p, j) \subseteq BlocksIn(q, j) \cup {x}
    BY <1>1, HeadReach
  <1> QED BY <1>1, <1>2 DEF TakenOut, HeadTaken

\* MoveToFreeList takes a detachable block out and leaves the lists as they were.
LEMMA MoveTakesOut ==
  ASSUME NEW p \in Pools, ListsOK(p.free_list, p.node), NEW x, Detachable(p, x),
         ListFor(p.node[x].length) \in Lists
  PROVE  LET q == MoveToFreeList(p, x)
         IN  /\ x \in DOMAIN p.node /\ TakenOut(q, p, x)
             /\ q \in Pools /\ q.startfree = p.startfree /\ q.endfree = p.endfree
  <1> DEFINE i == ListFor(p.node[x].length)
             nd == p.node
             q == MoveToFreeList(p, x)
  <1>1. /\ x \in BlocksIn(p, i) /\ i \in Lists
        /\ nd[x].prev = NULL => p.free_list[i] = x
        /\ nd[x].prev # NULL => p.free_list[i] # x /\ nd[x].next # NULL
    BY DEF Detachable, ListFor
  <1>2. x \in DOMAIN nd
    BY <1>1, BlocksBelong
  <1>3. nd \in Tables
    BY DEF ListsOK
  <1>4. CASE nd[x].prev = NULL
    <2> DEFINE y == nd[x].next
               fl == p.free_list
               fl2 == [fl EXCEPT ![i] = y]
               nd2 == Forget(SetPrev(nd, y, NULL), x)
    <2>1. /\ q.free_list \in [Lists -> Nat] /\ q.node \in Tables => q \in Pools
          /\ q.startfree = p.startfree /\ q.endfree = p.endfree
          /\ q.free_list = fl2 /\ q.node = nd2
      BY <1>1, <1>2, <1>4, MoveHeadFields
    <2>2. y \in DOMAIN nd \cup {NULL}
      BY <1>2 DEF ListsOK, LinksOK
    <2>3. HeadTaken(nd2, nd, x)
      BY <1>2, <1>3, <2>2, HeadTable
    <2>4. fl[i] = x
      BY <1>1, <1>4
    <2> HIDE DEF q
    <2>5. TakenOut(q, p, x)
      <3> HIDE DEF i, nd2
      <3> QED BY <1>1, <1>2, <2>1, <2>3, <2>4, TakeHead
    <2>6. q \in Pools
      BY <2>1, <2>5 DEF TakenOut, ListsOK
    <2> QED BY <1>2, <2>1, <2>5, <2>6 DEF q
  <1>5. CASE nd[x].prev # NULL
    <2> DEFINE y == nd[x].prev
               z == nd[x].next
               nd2 == Forget([SetPrev(nd, z, y) EXCEPT ![y].next = z], x)
    <2>1. /\ q.free_list \in [Lists -> Nat] /\ q.node \in Tables => q \in Pools
          /\ q.startfree = p.startfree /\ q.endfree = p.endfree
          /\ q.free_list = p.free_list /\ q.node = nd2
      BY <1>2, <1>5, MoveMiddleFields
    <2>2. PICK w \in BlocksIn(p, i) : w \in DOMAIN nd /\ nd[w].next = x
      BY <1>1, <1>5, BlocksFollow
    <2>3. /\ nd[w].next # NULL /\ y = w /\ z \in DOMAIN nd /\ z # NULL
          /\ nd[z].prev = x /\ \A j \in Lists : p.free_list[j] # x
      <3>1. nd[w].next # NULL
        BY <1>2, <1>3, <2>2, HeaderFacts
      <3> QED BY <1>1, <1>2, <1>5, <2>2, <3>1 DEF ListsOK, LinksOK
    <2>4. y \in DOMAIN nd /\ nd[y].next = x
      BY <2>2, <2>3
    <2>5. y # x /\ z # x
      <3>1. y # x
        <4>1. ASSUME y = x
              PROVE  FALSE
          <5> DEFINE S == BlocksIn(p, i) \ {x}
          <5>1. p.free_list[i] # NULL => p.free_list[i] \in S
            BY <1>1, <1>5, BlocksClosed
          <5>2. ASSUME NEW b \in S, NextOf(p, b) # NULL
                PROVE  NextOf(p, b) \in S
            <6>1. NextOf(p, b) \in BlocksIn(p, i)
              BY <1>1, <5>2, BlocksClosed
            <6>2. p.node[NextOf(p, b)].prev = b
              BY <5>2, NextFacts
            <6>3. NextOf(p, b) # x
              BY <4>1, <6>2
            <6> QED BY <6>1, <6>3
          <5> HIDE DEF S, i
          <5>3. \A b \in S : NextOf(p, b) # NULL => NextOf(p, b) \in S
            BY <5>2
          <5>4. BlocksIn(p, i) \subseteq S
            BY <1>1, <5>1, <5>3, BlocksLeast
          <5> QED BY <1>1, <5>4 DEF S
        <4> QED BY <4>1
      <3>2. z # x
        BY <2>3, <2>4, <3>1
      <3> QED BY <3>1, <3>2
    <2> HIDE DEF q
    <2>6. MiddleTaken(nd2, nd, x, y, z)
      <3> HIDE DEF y
      <3> QED BY <1>2, <1>3, <2>3, <2>4, <2>5, MiddleTable
    <2>7. ListsOK(p.free_list, nd2)
      <3> HIDE DEF nd2, y
      <3> QED BY <1>2, <2>3, <2>4, <2>5, <2>6, MiddleLists
    <2> HIDE DEF nd2
    <2>8. q \in Pools /\ ListsOK(q.free_list, q.node)
      BY <2>1, <2>7 DEF ListsOK
    <2>9. y \in DOMAIN q.node
      BY <2>1, <2>4, <2>5, <2>6 DEF MiddleTaken
    <2>10. \A j \in Lists : BlocksIn(p, j) \subseteq BlocksIn(q, j) \cup {x}
      <3> HIDE DEF y
      <3> QED BY <1>2, <2>1, <2>4, <2>6, <2>8, <2>9, MiddleReach
    <2> QED BY <1>2, <2>1, <2>6, <2>8, <2>10 DEF TakenOut, MiddleTaken, q
  <1> QED BY <1>4, <1>5

\* The areas when a block has been taken out: something else may lie there.
LEMMA TakenLaidOut ==
  ASSUME NEW p, NEW others, NEW chunks, LaidOut(p, others, chunks),
         NEW x \in DOMAIN p.node, NEW q, TakenOut(q, p, x),
         NEW z, z[1] # "free", IsArea(z), Within(z, Area("free", x, p.node[x].length))
  PROVE  LaidOut(q, others \cup {z}, chunks)
  <1> DEFINE y == Area("free", x, p.node[x].length)
             areas == FreeAreas(p.node) \cup others
             areas2 == FreeAreas(q.node) \cup (others \cup {z})
  <1>1. y \in FreeAreas(p.node)
    BY DEF FreeAreas
  <1>2. y \notin FreeAreas(q.node) /\ FreeAreas(q.node) \subseteq FreeAreas(p.node)
    BY DEF TakenOut, FreeAreas, Area
  <1>3. y \notin others
    BY <1>1, OthersAreNotFree
  <1> HIDE DEF y
  <1>4. AreParts({z}, y)
    BY DEF AreParts, y
  <1>5. Instead(areas2, areas, y, {z})
    BY <1>1, <1>2, <1>3 DEF Instead
  <1>6. Tiled(areas, chunks) /\ chunks \subseteq Nat \X Nat
    BY DEF LaidOut
  <1> HIDE DEF areas, areas2
  <1>7. Tiled(areas2, chunks)
    BY <1>4, <1>5, <1>6, TiledParts
  <1> QED BY <1>7 DEF areas2, LaidOut, TakenOut

\* The areas when a block has been taken out and joined to its neighbour.
LEMMA MergedLaidOut ==
  ASSUME NEW p, NEW others, NEW chunks, LaidOut(p, others, chunks),
         NEW b \in DOMAIN p.node, NEW q, TakenOut(q, p, b), NEW y, y \in others,
         NEW x, x = Area("free", b, p.node[b].length),
         NEW l, NEW r, (l = x /\ r = y) \/ (l = y /\ r = x), To(l) = From(r),
         NEW z, z[1] # "free", IsArea(z), From(z) = From(l), To(z) = To(r)
  PROVE  LaidOut(q, (others \ {y}) \cup {z}, chunks)
  <1> DEFINE areas == FreeAreas(p.node) \cup others
             areas2 == FreeAreas(q.node) \cup ((others \ {y}) \cup {z})
  <1>1. x \in FreeAreas(p.node)
    BY DEF FreeAreas
  <1>2. x \notin FreeAreas(q.node) /\ FreeAreas(q.node) \subseteq FreeAreas(p.node)
    BY DEF TakenOut, FreeAreas, Area
  <1>3. x \notin others
    BY <1>1, OthersAreNotFree
  <1>4. y \notin FreeAreas(p.node)
    BY OthersAreNotFree
  <1>5. Joined(areas2, areas, l, r, z)
    BY <1>1, <1>2, <1>3, <1>4 DEF Joined
  <1>6. Tiled(areas, chunks) /\ chunks \subseteq Nat \X Nat
    BY DEF LaidOut
  <1> HIDE DEF areas, areas2
  <1>7. Tiled(areas2, chunks)
    BY <1>5, <1>6, TiledJoin
  <1> QED BY <1>7 DEF areas2, LaidOut, TakenOut

-----------------------------------------------------------------------------
(* Lengths *)

\* Every length from 512 bytes on may be filed.
LEMMA LongIsFileable ==
  ASSUME NEW n, Served(n), 512 <= n
  PROVE  Fileable(n)
  <1>1. n \in Nat /\ n <= 131072
    BY SMT DEF Served, ThirdSlot
  <1>2. CASE n <= 8192
    <2>1. PICK q \in Int, r \in Nat : n = 512 * q + r /\ r = n % 512 /\ r < 512
      BY <1>1, Division512, SMT
    <2>2. n \div 512 = q /\ 1 <= q /\ q <= 16
      BY <1>1, <1>2, <2>1, SMT
    <2>3. ListFor(n) = q - 1
      BY <1>2, <2>2, SMT DEF ListFor, FindFreeListIndex, FirstSlot
    <2>4. Index2SlotLength(ListFor(n)) = 512 * q
      BY <2>2, <2>3, SMT DEF Index2SlotLength
    <2> QED BY <2>1, <2>2, <2>3, <2>4, SMT DEF Fileable, Lists
  <1>3. CASE 8192 < n /\ n <= 32768
    <2>1. PICK q \in Int, r \in Nat : n = 1024 * q + r /\ r = n % 1024 /\ r < 1024
      BY <1>1, Division1024, SMT
    <2>2. n \div 1024 = q /\ 8 <= q /\ q <= 32
      BY <1>1, <1>3, <2>1, SMT
    <2>3. ListFor(n) = q + 7
      BY <1>1, <1>3, <2>2, SMT DEF ListFor, FindFreeListIndex, FirstSlot, SecondSlot
    <2>4. Index2SlotLength(ListFor(n)) = 1024 * q
      BY <2>2, <2>3, SMT DEF Index2SlotLength, FirstSlot
    <2> QED BY <2>1, <2>2, <2>3, <2>4, SMT DEF Fileable, Lists
  <1>4. CASE 32768 < n
    <2>1. PICK q \in Int, r \in Nat : n = 2048 * q + r /\ r = n % 2048 /\ r < 2048
      BY <1>1, Division2048, SMT
    <2>2. n \div 2048 = q /\ 16 <= q /\ q <= 64
      BY <1>1, <1>4, <2>1, SMT
    <2>3. ListFor(n) = q + 23
      BY <1>1, <1>4, <2>2, SMT DEF ListFor, FindFreeListIndex, FirstSlot, SecondSlot, ThirdSlot
    <2>4. Index2SlotLength(ListFor(n)) = 2048 * q
      BY <2>2, <2>3, SMT DEF Index2SlotLength, FirstSlot, SecondSlot
    <2> QED BY <2>1, <2>2, <2>3, <2>4, SMT DEF Fileable, Lists
  <1> QED BY <1>1, <1>2, <1>3, <1>4, SMT

\* What a request is rounded up to.
LEMMA AlignedFacts ==
  ASSUME NEW n, Served(n)
  PROVE  /\ n \in Nat /\ DataAlignment(n) \in Nat /\ n <= DataAlignment(n)
         /\ 512 <= DataAlignment(n) /\ DataAlignment(n) % 512 = 0
         /\ DataAlignment(n) <= ThirdSlot
         /\ Fileable(DataAlignment(n))
         /\ FindFreeListIndex(DataAlignment(n)) \in Lists
         /\ Index2SlotLength(FindFreeListIndex(DataAlignment(n))) = DataAlignment(n)
  <1>1. n \in Nat /\ 1 <= n /\ n <= 131072
    BY SMT DEF Served, ThirdSlot
  <1>2. \E k \in Nat : k # 0 /\ DataAlignment(n) = 512 * k
    <2>1. CASE n <= 8192
      <3>1. PICK k \in 1 .. 16 : DataAlignment(n) = 512 * k
        BY <1>1, <2>1, FirstBand, SMT
      <3> QED BY <3>1, SMT
    <2>2. CASE 8192 < n /\ n <= 32768
      <3>1. PICK k \in 9 .. 32 : DataAlignment(n) = 1024 * k
        BY <1>1, <2>2, SecondBand, SMT
      <3>2. DataAlignment(n) = 512 * (2 * k) /\ 2 * k \in Nat /\ 2 * k # 0
        BY <3>1, SMT
      <3> QED BY <3>2, SMT
    <2>3. CASE 32768 < n
      <3>1. PICK k \in 17 .. 64 : DataAlignment(n) = 2048 * k
        BY <1>1, <2>3, ThirdBand, SMT
      <3>2. DataAlignment(n) = 512 * (4 * k) /\ 4 * k \in Nat /\ 4 * k # 0
        BY <3>1, SMT
      <3> QED BY <3>2, SMT
    <2> QED BY <1>1, <2>1, <2>2, <2>3, SMT
  <1>3. n <= DataAlignment(n) /\ Served(DataAlignment(n))
    BY AlignmentCovers, SMT
  <1>4. 512 <= DataAlignment(n) /\ DataAlignment(n) % 512 = 0
    BY <1>2, SMT
  <1>5. DataAlignment(n) \in Nat /\ DataAlignment(n) <= ThirdSlot
    BY <1>3, SMT DEF Served
  <1> QED BY <1>1, <1>3, <1>4, <1>5, ClassOfAlignment, LongIsFileable, SMT

\* What is left of a chunk is a length that may be filed, and nothing, 512, 1024
\* or 1536 bytes.
LEMMA LeftoverFacts ==
  ASSUME NEW R, Served(R), R % 512 = 0
  PROVE  \E interval \in {0, 512, 1024, 1536}, length \in Nat \ {0} :
           /\ interval = DataAlignment(R) - R /\ length = R - interval
           /\ R = length + interval /\ Fileable(length)
  <1> DEFINE interval == DataAlignment(R) - R
             length == R - interval
  <1>1. R \in Nat /\ 1 <= R /\ R <= 131072
    BY SMT DEF Served, ThirdSlot
  <1>2. PICK q \in Int, r \in Nat : R = 512 * q + r /\ r = R % 512 /\ r < 512
    BY <1>1, Division512, SMT
  <1>3. R = 512 * q /\ 1 <= q
    BY <1>1, <1>2, SMT
  <1>4. interval \in {0, 512, 1024, 1536} /\ length \in Nat /\ Fileable(length)
    <2>1. CASE R <= 8192
      <3>1. PICK k \in 1 .. 16 : DataAlignment(R) = 512 * k /\ R <= 512 * k /\ 512 * k < R + 512
        BY <1>1, <2>1, FirstBand, SMT
      <3>2. interval = 0 /\ length = R
        BY <1>1, <1>3, <3>1, SMT
      <3>3. 512 <= R
        BY <1>3, SMT
      <3> QED BY <1>1, <3>2, <3>3, LongIsFileable, SMT
    <2>2. CASE 8192 < R /\ R <= 32768
      <3>1. PICK k \in 9 .. 32 : DataAlignment(R) = 1024 * k /\ R <= 1024 * k /\ 1024 * k < R + 1024
        BY <1>1, <2>2, SecondBand, SMT
      <3>2. interval \in {0, 512}
        BY <1>1, <1>3, <3>1, SMT
      <3>3. length \in Nat /\ 512 <= length /\ Served(length)
        BY <1>1, <2>2, <3>2, SMT DEF Served, ThirdSlot
      <3> QED BY <3>2, <3>3, LongIsFileable, SMT
    <2>3. CASE 32768 < R
      <3>1. PICK k \in 17 .. 64 : DataAlignment(R) = 2048 * k /\ R <= 2048 * k /\ 2048 * k < R + 2048
        BY <1>1, <2>3, ThirdBand, SMT
      <3>2. interval \in {0, 512, 1024, 1536}
        BY <1>1, <1>3, <3>1, SMT
      <3>3. length \in Nat /\ 512 <= length /\ Served(length)
        BY <1>1, <2>3, <3>2, SMT DEF Served, ThirdSlot
      <3> QED BY <3>2, <3>3, LongIsFileable, SMT
    <2> QED BY <1>1, <2>1, <2>2, <2>3, SMT
  <1>5. length # 0 /\ length = R - interval
    BY <1>4 DEF Fileable, Served
  <1> DEFINE aligned == DataAlignment(R)
  <1>6. interval = aligned - R
    OBVIOUS
  <1>7. aligned \in Nat
    <2>1. Served(R)
      OBVIOUS
    <2> QED BY <2>1, AlignedFacts
  <1> HIDE DEF aligned, interval, length
  <1>8. R = length + interval
    BY <1>1, <1>4, <1>5
  <1> QED BY <1>4, <1>5, <1>6, <1>8 DEF aligned

-----------------------------------------------------------------------------
(* The rest of a chunk *)

\* The layout depends on the lists and the table alone.
LEMMA SameLists ==
  ASSUME NEW p, NEW others, NEW chunks, LaidOut(p, others, chunks),
         NEW q, q.free_list = p.free_list, q.node = p.node
  PROVE  LaidOut(q, others, chunks)
  BY DEF LaidOut

\* One of the other areas gives way to parts of it.
LEMMA OtherParts ==
  ASSUME NEW p, NEW others, NEW chunks, LaidOut(p, others, chunks),
         NEW x, NEW parts, AreParts(parts, x), \A s \in parts : s[1] # "free",
         NEW others2, Instead(others2, others, x, parts)
  PROVE  LaidOut(p, others2, chunks)
  <1> DEFINE areas == FreeAreas(p.node) \cup others
             areas2 == FreeAreas(p.node) \cup others2
  <1>1. x \notin FreeAreas(p.node)
    BY OthersAreNotFree DEF Instead
  <1>2. Instead(areas2, areas, x, parts)
    BY <1>1 DEF Instead
  <1>3. Tiled(areas, chunks) /\ chunks \subseteq Nat \X Nat
    BY DEF LaidOut
  <1> HIDE DEF areas, areas2
  <1>4. Tiled(areas2, chunks)
    BY <1>2, <1>3, TiledParts
  <1>5. \A s \in others2 : s[1] # "free"
    BY DEF Instead, LaidOut
  <1> QED BY <1>4, <1>5 DEF areas2, LaidOut

\* The pool with its first bytes used.
LEMMA AdvanceFields ==
  ASSUME NEW p \in Pools, NEW n \in Nat
  PROVE  LET q == [p EXCEPT !.startfree = @ + n]
         IN  /\ q \in Pools /\ q.startfree = p.startfree + n /\ q.endfree = p.endfree
             /\ q.free_list = p.free_list /\ q.node = p.node
  BY DEF Pools

\* Blocks are added to the lists, and those there were stay as long.
Grown(q, p) ==
    \A b \in DOMAIN p.node : b \in DOMAIN q.node /\ q.node[b].length = p.node[b].length

\* The first push of UseRemaining.
FirstLeftover(p, length) ==
    [UseRemainingSpace(p, FindFreeListIndex(length), length) EXCEPT !.startfree = @ + length]

\* It turns the start of the space into a free block.
LEMMA OneLeftover ==
  ASSUME NEW p \in Pools, NEW others, NEW chunks,
         NEW length, Fileable(length), NEW x, x = Area("space", p.startfree, length),
         NEW more, x \in more, others = more \ {x}, LaidOut(p, more, chunks),
         NEW q, q = FirstLeftover(p, length)
  PROVE  /\ q \in Pools /\ LaidOut(q, others, chunks) /\ Grown(q, p)
         /\ q.startfree = p.startfree + length /\ q.endfree = p.endfree
  <1> DEFINE i == ListFor(length)
             start == p.startfree
             r == Push(p, i, start, length)
  <1>1. q = [r EXCEPT !.startfree = @ + length]
    BY DEF FirstLeftover, UseRemainingSpace, ListFor
  <1>2. /\ r \in Pools /\ LaidOut(r, others, chunks) /\ Grown(r, p)
        /\ r.startfree = p.startfree /\ r.endfree = p.endfree
    <2>2. r \in Pools /\ LaidOut(r, others, chunks) /\ Filed(r, p, i, start, length)
          /\ r.startfree = p.startfree /\ r.endfree = p.endfree
      BY PushLaidOut
    <2> HIDE DEF r
    <2> QED BY <2>2 DEF Filed, Grown
  <1> HIDE DEF r
  <1>3. /\ q \in Pools /\ q.startfree = r.startfree + length /\ q.endfree = r.endfree
        /\ q.free_list = r.free_list /\ q.node = r.node
    <2>1. length \in Nat
      BY DEF Fileable, Served
    <2> QED BY <1>1, <1>2, <2>1, AdvanceFields
  <1> QED BY <1>2, <1>3, SameLists DEF Grown

\* An area's start is a part of it, and so are its start and its end.
LEMMA FirstPart ==
  ASSUME NEW use, NEW start \in Nat, NEW length \in Nat \ {0},
         NEW whole \in Nat, length <= whole, NEW x, x = Area(use, start, whole),
         NEW other, NEW x1, x1 = Area(other, start, length), NEW parts, parts = {x1}
  PROVE  AreParts(parts, x)
  <1>1. /\ x[2] = start /\ x[3] = whole
        /\ x1[2] = start /\ x1[3] = length
    BY DEF Area
  <1>2. IsArea(x1) /\ Within(x1, x)
    BY ONLY <1>1, start \in Nat, length \in Nat \ {0}, whole \in Nat, length <= whole DEF IsArea, Within, From, To
  <1> QED BY <1>2 DEF AreParts

\* The two halves of an area.
LEMMA BothParts ==
  ASSUME NEW use, NEW start \in Nat, NEW length \in Nat \ {0}, NEW rest \in Nat \ {0},
         NEW x, x = Area(use, start, length + rest),
         NEW other, NEW x1, x1 = Area(other, start, length),
         NEW third, NEW x2, x2 = Area(third, start + length, rest),
         NEW parts, parts = {x1, x2}
  PROVE  AreParts(parts, x)
  <1>1. /\ x[2] = start /\ x[3] = length + rest
        /\ x1[2] = start /\ x1[3] = length
        /\ x2[2] = start + length /\ x2[3] = rest
    BY DEF Area
  <1>2. /\ IsArea(x1) /\ Within(x1, x) /\ IsArea(x2) /\ Within(x2, x)
        /\ Disjoint(x1, x2) /\ Disjoint(x2, x1)
    BY ONLY <1>1, start \in Nat, length \in Nat \ {0}, rest \in Nat \ {0}
       DEF IsArea, Within, Disjoint, From, To
  <1> QED BY <1>2 DEF AreParts

\* UseRemaining leaves nothing of the space but free blocks.
LEMMA UseRemainingLaidOut ==
  ASSUME NEW p \in Pools, NEW others, NEW chunks,
         LaidOut(p, others \cup SpaceAreas(p.startfree, p.endfree), chunks),
         \A x \in others : x[1] # "space",
         Remaining(p) \in Nat, Remaining(p) % 512 = 0, Remaining(p) <= ThirdSlot,
         NEW q, q = UseRemaining(p)
  PROVE  q \in Pools /\ LaidOut(q, others, chunks) /\ Grown(q, p)
  <1> DEFINE R == Remaining(p)
             start == p.startfree
  <1>1. /\ start \in Nat /\ p.endfree \in Nat /\ R = p.endfree - start
        /\ R \in Nat /\ R % 512 = 0 /\ R <= ThirdSlot
    BY DEF Pools, Remaining
  <1>2. CASE R = 0
    <2>1. q = p /\ SpaceAreas(p.startfree, p.endfree) = {}
      BY <1>1, <1>2 DEF UseRemaining, SpaceAreas
    <2>2. others \cup SpaceAreas(p.startfree, p.endfree) = others
      BY <2>1
    <2> QED BY <2>1, <2>2 DEF Grown
  <1>3. CASE R # 0
    <2>1. PICK interval \in {0, 512, 1024, 1536}, length \in Nat \ {0} :
             /\ interval = DataAlignment(R) - R /\ length = R - interval
             /\ R = length + interval /\ Fileable(length)
      <3>1. Served(R)
        BY <1>1, <1>3 DEF Served
      <3> HIDE DEF R
      <3> QED BY <1>1, <3>1, LeftoverFacts
    <2> DEFINE x == Area("space", start, R)
               x1 == Area("space", start, length)
               x2 == Area("space", start + length, interval)
               one == FirstLeftover(p, length)
    <2>2. SpaceAreas(p.startfree, p.endfree) = {x} /\ x \notin others
      BY <1>1, <1>3 DEF SpaceAreas, Area
    <2>3. LaidOut(p, others \cup {x}, chunks)
      BY <2>2
    <2>4. x1 \notin others /\ x2 \notin others /\ x1 # x2
      <3>1. x1[1] = "space" /\ x2[1] = "space" /\ x1[2] = start /\ x2[2] = start + length
        BY DEF Area
      <3>2. start # start + length
        BY <1>1, <2>1
      <3> HIDE DEF x1, x2
      <3> QED BY <3>1, <3>2
    <2>8. start \in Nat /\ R \in Nat /\ Fileable(length)
      BY <1>1, <2>1
    <2>5. q = IF interval \in {512, 1024}
              THEN UseRemainingSpace(one, IF interval = 512 THEN 0 ELSE 1, interval)
              ELSE one
      BY <1>3, <2>1 DEF UseRemaining, FirstLeftover, R
    <2> HIDE DEF R, one
    <2>6. CASE interval \notin {512, 1024}
      <3> DEFINE parts == {x1}
                 more == others \cup {x1}
      <3>1. AreParts(parts, x)
        <4>1. x = Area("space", start, R)
          BY <2>1
        <4>2. x1 = Area("space", start, length) /\ parts = {x1}
          OBVIOUS
        <4>3. length <= R
          BY <1>1, <2>1
        <4> HIDE DEF x, x1, start, parts
        <4> QED BY <2>8, <4>1, <4>2, <4>3, FirstPart
      <3>2. Instead(more, others \cup {x}, x, parts)
        BY <2>2 DEF Instead
      <3>3. \A s \in parts : s[1] # "free"
        BY DEF Area
      <3>4. LaidOut(p, more, chunks)
        <4> DEFINE whole == others \cup {x}
        <4>1. LaidOut(p, whole, chunks) /\ Instead(more, whole, x, parts)
          BY <2>3, <3>2
        <4> HIDE DEF x, x1, parts, more, whole
        <4> QED BY <3>1, <3>3, <4>1, OtherParts
      <3>5. one \in Pools /\ LaidOut(one, others, chunks) /\ Grown(one, p)
        <4>1. x1 = Area("space", p.startfree, length)
              /\ x1 \in more /\ others = more \ {x1}
          BY <2>4
        <4>2. one = FirstLeftover(p, length)
          BY DEF one
        <4> HIDE DEF x, x1, x2, start, more
        <4> QED BY <2>8, <3>4, <4>1, <4>2, OneLeftover
      <3> QED BY <2>5, <2>6, <3>5
    <2>7. CASE interval \in {512, 1024}
      <3> DEFINE k == IF interval = 512 THEN 0 ELSE 1
                 a == start + length
                 parts == {x1, x2}
                 more == others \cup {x2}
                 all == more \cup {x1}
      <3>1. AreParts(parts, x)
        <4>1. x = Area("space", start, length + interval)
          BY <2>1
        <4>2. /\ x1 = Area("space", start, length) /\ x2 = Area("space", start + length, interval)
              /\ parts = {x1, x2}
          OBVIOUS
        <4>3. interval \in Nat \ {0}
          BY <2>7
        <4> HIDE DEF x, x1, x2, start, parts
        <4> QED BY <1>1, <2>1, <4>1, <4>2, <4>3, BothParts
      <3>2. Instead(all, others \cup {x}, x, parts)
        BY <2>2 DEF Instead
      <3>3. \A s \in parts : s[1] # "free"
        BY DEF Area
      <3>4. LaidOut(p, all, chunks)
        <4> DEFINE whole == others \cup {x}
        <4>1. LaidOut(p, whole, chunks) /\ Instead(all, whole, x, parts)
          BY <2>3, <3>2
        <4> HIDE DEF x, x1, x2, more, all, parts, whole
        <4> QED BY <3>1, <3>3, <4>1, OtherParts
      <3>5. x1 \in all /\ more = all \ {x1}
        BY <2>4
      <3>6. /\ one \in Pools /\ LaidOut(one, more, chunks) /\ Grown(one, p)
            /\ one.startfree = a
        <4>1. x1 = Area("space", p.startfree, length)
          OBVIOUS
        <4>2. one = FirstLeftover(p, length)
          BY DEF one
        <4>3. a = p.startfree + length
          OBVIOUS
        <4> HIDE DEF x, x1, x2, start, more, all, a
        <4>4. /\ one \in Pools /\ LaidOut(one, more, chunks) /\ Grown(one, p)
              /\ one.startfree = p.startfree + length
          BY <2>8, <3>4, <3>5, <4>1, <4>2, OneLeftover
        <4> QED BY <4>3, <4>4
      <3>7. k = ListFor(interval) /\ Fileable(interval)
        <4>1. k = ListFor(interval)
          BY <2>7, SMT DEF ListFor, FindFreeListIndex, FirstSlot
        <4>2. Served(interval) /\ 512 <= interval
          BY <2>7, SMT DEF Served, ThirdSlot
        <4> QED BY <4>1, <4>2, LongIsFileable
      <3>8. q = Push(one, k, a, interval)
        BY <2>5, <2>7, <3>6 DEF UseRemainingSpace
      <3>9. x2 \in more /\ others = more \ {x2}
        BY <2>2, <2>4 DEF Area
      <3> HIDE DEF k, more, all
      <3>10. q \in Pools /\ LaidOut(q, others, chunks) /\ Grown(q, one)
        <4>1. x2 = Area("space", a, interval)
          BY DEF a
        <4> HIDE DEF x2, a
        <4>2. q \in Pools /\ LaidOut(q, others, chunks) /\ Filed(q, one, k, a, interval)
          BY <3>6, <3>7, <3>8, <3>9, <4>1, PushLaidOut
        <4> QED BY <4>2 DEF Filed, Grown
      <3> QED BY <3>6, <3>10 DEF Grown
    <2> QED BY <2>6, <2>7
  <1> QED BY <1>2, <1>3

-----------------------------------------------------------------------------
(* Carving blocks off the space *)

\* Multiples of a length.
LEMMA Multiples ==
  ASSUME NEW L \in Nat, NEW j \in Nat, NEW k \in Nat
  PROVE  /\ L * j \in Nat
         /\ L * (k + 1) = L * k + L
         /\ j < k => L * j + L <= L * k
  <1>1. L * j \in Nat /\ L * (k + 1) = L * k + L
    BY SMT
  <1>2. ASSUME j < k
        PROVE  L * j + L <= L * k
    <2>1. PICK d \in Nat : k = j + 1 + d
      <3>1. k - j - 1 \in Nat /\ k = j + 1 + (k - j - 1)
        BY <1>2, SMT
      <3> QED BY <3>1
    <2>2. L * d \in Nat
      BY SMT
    <2>3. L * k = L * j + L + L * d
      BY <2>1, SMT
    <2> QED BY <1>1, <2>2, <2>3, SMT
  <1> QED BY <1>1, <1>2

\* The headers of the blocks that Refill carves off after the first one.
Row(start, length, number) ==
    [a \in {start + length * k : k \in 1 .. number - 1} |->
        Header(IF a = start + length THEN NULL ELSE a - length,
               IF a = start + length * (number - 1) THEN NULL ELSE a + length, length)]

\* What is written in the header of the k-th of them.
OnRow(ch, start, length, number, a, k) ==
    /\ 1 <= k /\ k < number /\ a = start + length * k /\ a \in Addr /\ a # start
    /\ ch[a].prev = (IF k = 1 THEN NULL ELSE a - length)
    /\ ch[a].next = (IF k = number - 1 THEN NULL ELSE a + length)
    /\ ch[a].length = length
    /\ k # number - 1 => a + length \in DOMAIN ch
    /\ ch[a] \in Headers

\* They are a row of blocks, one after the other.
LEMMA RowFacts ==
  ASSUME NEW start \in Addr, NEW length \in Nat \ {0}, NEW number \in Nat,
         NEW ch, ch = Row(start, length, number), NEW a \in DOMAIN ch
  PROVE  \E k \in Nat : OnRow(ch, start, length, number, a, k)
  <1> DEFINE D == {start + length * k : k \in 1 .. number - 1}
  <1>1. DOMAIN ch = D
    BY DEF Row
  <1>2. PICK k \in 1 .. number - 1 : a = start + length * k
    BY <1>1
  <1>3. /\ k \in Nat /\ 1 <= k /\ k < number /\ number - 1 \in Nat /\ k <= number - 1
        /\ k + 1 \in Nat /\ start \in Nat /\ start # 0 /\ length \in Nat /\ length # 0
    BY <1>2 DEF Addr, NULL
  <1>4. length * k \in Nat /\ length * (k + 1) = length * k + length
    BY <1>3, Multiples
  <1>5. length * 0 + length <= length * k /\ length * 0 = 0
    <2>1. 0 \in Nat /\ 0 < k
      BY <1>3
    <2>2. length * 0 = 0
      BY <1>3, SMT
    <2> QED BY <1>3, <2>1, <2>2, Multiples
  <1>6. length <= length * k
    BY <1>3, <1>4, <1>5
  <1>7. k # 1 => length * 1 + length <= length * k /\ length * 1 = length
    <2>1. 1 \in Nat /\ (k # 1 => 1 < k)
      BY <1>3
    <2>2. length * 1 = length
      BY <1>3, SMT
    <2> QED BY <1>3, <2>1, <2>2, Multiples
  <1>8. k # number - 1 => length * k + length <= length * (number - 1)
    <2>1. k # number - 1 => k < number - 1
      BY <1>3
    <2> QED BY <1>3, <2>1, Multiples
  <1> DEFINE p == IF a = start + length THEN NULL ELSE a - length
             n == IF a = start + length * (number - 1) THEN NULL ELSE a + length
  <1>9. ch[a] = Header(p, n, length)
    BY <1>1 DEF Row
  <1>10. length * (number - 1) \in Nat
    BY <1>3, Multiples
  <1>11. p = (IF k = 1 THEN NULL ELSE a - length) /\ p \in Nat
    <2>1. CASE k = 1
      <3>1. length * k = length
        BY <1>3, <2>1, SMT
      <3> QED BY <1>2, <2>1, <3>1 DEF NULL
    <2>2. CASE k # 1
      <3> DEFINE m == length * k
      <3>1. /\ m \in Nat /\ length + length <= m /\ a = start + m
        BY <1>2, <1>4, <1>7, <2>2
      <3> HIDE DEF m
      <3>2. a # start + length /\ a - length \in Nat
        BY <1>3, <3>1
      <3> QED BY <2>2, <3>2
    <2> QED BY <2>1, <2>2
  <1>12. n = (IF k = number - 1 THEN NULL ELSE a + length) /\ n \in Nat
    <2>1. CASE k = number - 1
      BY <1>2, <2>1 DEF NULL
    <2>2. CASE k # number - 1
      <3> DEFINE m == length * k
                 l == length * (number - 1)
      <3>1. m \in Nat /\ l \in Nat /\ m + length <= l /\ a = start + m
        BY <1>2, <1>4, <1>8, <1>10, <2>2
      <3>2. n = IF a = start + l THEN NULL ELSE a + length
        OBVIOUS
      <3> HIDE DEF m, l, n
      <3>3. a # start + l /\ a + length \in Nat
        BY <1>3, <3>1
      <3> QED BY <2>2, <3>2, <3>3
    <2> QED BY <2>1, <2>2
  <1>13. ASSUME k # number - 1
         PROVE  a + length \in DOMAIN ch
    <2>1. k + 1 \in 1 .. number - 1
      BY <1>3, <1>13
    <2>2. a + length = start + length * (k + 1)
      <3> DEFINE m == length * k
                 l == length * (k + 1)
      <3>1. m \in Nat /\ l = m + length /\ a = start + m
        BY <1>2, <1>4
      <3> HIDE DEF m, l
      <3>2. a + length = start + l
        BY <1>3, <3>1
      <3> QED BY <3>2 DEF l
    <2> QED BY <1>1, <2>1, <2>2
  <1>14. a \in Addr /\ a # start
    <2> DEFINE m == length * k
    <2>1. m \in Nat /\ length <= m /\ a = start + m
      BY <1>2, <1>4, <1>6
    <2> HIDE DEF m
    <2> QED BY <1>3, <2>1 DEF Addr, NULL
  <1> HIDE DEF p, n
  <1>15. /\ ch[a].prev = p /\ ch[a].next = n /\ ch[a].length = length /\ ch[a] \in Headers
    BY <1>3, <1>9, <1>11, <1>12 DEF Header, Headers
  <1> QED BY <1>2, <1>3, <1>11, <1>12, <1>13, <1>14, <1>15 DEF OnRow

\* They make a list.
LEMMA RowIsChain ==
  ASSUME NEW start \in Addr, NEW length, Fileable(length), NEW number \in Nat, 1 < number,
         NEW ch, ch = Row(start, length, number), NEW first, first = start + length,
         NEW i, i = ListFor(length)
  PROVE  IsChain(ch, first, i)
  <1>1. length \in Nat \ {0} /\ start \in Nat /\ number - 1 \in Nat
    BY DEF Fileable, Served, Addr
  <1> DEFINE K == 1 .. number - 1
             at == [k \in K |-> start + length * k]
             D == {start + length * k : k \in K}
  <1>2. DOMAIN ch = D
    BY DEF Row
  <1>3. IsFiniteSet(DOMAIN ch)
    <2>1. IsFiniteSet(K)
      <3>1. 1 \in Int /\ number - 1 \in Int
        BY <1>1
      <3> QED BY <3>1, FS_Interval
    <2>2. at \in Surjection(K, D)
      BY DEF Surjection
    <2> HIDE DEF K, at, D
    <2> QED BY <1>2, <2>1, <2>2, FS_Surjection
  <1>4. ch \in Tables
    <2>1. ASSUME NEW a \in DOMAIN ch
          PROVE  a \in Addr /\ ch[a] \in Headers
      <3>1. PICK k \in Nat : OnRow(ch, start, length, number, a, k)
        BY <1>1, RowFacts
      <3> QED BY <3>1 DEF OnRow
    <2>2. ch = [a \in DOMAIN ch |-> ch[a]]
      BY DEF Row
    <2>3. ch \in [DOMAIN ch -> Headers]
      BY <2>1, <2>2
    <2> QED BY <2>1, <2>3, TableFacts
  <1>5. first \in DOMAIN ch
    <2>1. 1 \in K /\ length * 1 = length
      BY <1>1, SMT
    <2> QED BY <1>2, <2>1
  <1>6. ASSUME NEW a \in DOMAIN ch
        PROVE  /\ Fileable(ch[a].length) /\ ListFor(ch[a].length) = i
               /\ ch[a].next # first
               /\ ch[a].next # NULL => ch[a].next \in DOMAIN ch /\ ch[ch[a].next].prev = a
    <2>0. PICK k \in Nat : OnRow(ch, start, length, number, a, k)
      BY <1>1, RowFacts
    <2>1. /\ 1 <= k /\ k < number /\ a = start + length * k /\ a \in Addr /\ a # start
          /\ ch[a].next = (IF k = number - 1 THEN NULL ELSE a + length)
          /\ ch[a].length = length
          /\ k # number - 1 => a + length \in DOMAIN ch
      BY <2>0 DEF OnRow
    <2>2. ch[a].next # first
      <3>1. a \in Nat /\ a # start /\ first # NULL
        BY <1>1, <2>1 DEF Addr, NULL
      <3>2. a + length # first
        BY <1>1, <3>1
      <3> QED BY <2>1, <3>1, <3>2
    <2>3. ASSUME ch[a].next # NULL
          PROVE  ch[a].next \in DOMAIN ch /\ ch[ch[a].next].prev = a
      <3> DEFINE b == a + length
      <3>1. k # number - 1 /\ ch[a].next = b /\ b \in DOMAIN ch
        BY <2>1, <2>3
      <3>6. PICK j \in Nat : OnRow(ch, start, length, number, b, j)
        <4> HIDE DEF b
        <4> QED BY <1>1, <3>1, RowFacts
      <3>2. /\ b = start + length * j
            /\ ch[b].prev = (IF j = 1 THEN NULL ELSE b - length)
        BY <3>6 DEF OnRow
      <3>3. a \in Nat
        BY <2>1 DEF Addr
      <3>4. j # 1
        <4>1. ASSUME j = 1
              PROVE  FALSE
          <5>1. length * j = length
            BY <1>1, <4>1, SMT
          <5>2. a + length = start + length
            BY <3>2, <5>1
          <5> QED BY <1>1, <2>1, <3>3, <5>2
        <4> QED BY <4>1
      <3>5. b - length = a
        BY <1>1, <3>3
      <3> HIDE DEF b
      <3> QED BY <3>1, <3>2, <3>4, <3>5
    <2> QED BY <2>1, <2>2, <2>3
  <1> QED BY <1>3, <1>4, <1>5, <1>6 DEF IsChain

\* Refill carves off at least one block, and none past the end.
LEMMA FetchedFacts ==
  ASSUME NEW R \in Nat, NEW L \in Nat \ {0}, L <= R, NEW N,
         N = IF R > L * RefillNumber THEN RefillNumber ELSE R \div L
  PROVE  N \in Nat /\ 1 <= N /\ L * N <= R
  <1>1. RefillNumber \in Nat /\ 1 <= RefillNumber
    BY RefillAssumption
  <1>2. CASE R > L * RefillNumber
    <2>1. L * RefillNumber \in Nat
      BY <1>1, Multiples
    <2>2. N = RefillNumber
      BY <1>2
    <2> DEFINE m == L * RefillNumber
    <2>3. m \in Nat /\ R > m /\ L * N = m
      BY <1>2, <2>1, <2>2
    <2> HIDE DEF m
    <2>4. L * N <= R
      BY <2>3
    <2> QED BY <1>1, <2>2, <2>4
  <1>3. CASE ~(R > L * RefillNumber)
    <2>1. N = R \div L
      BY <1>3
    <2> DEFINE d == R \div L
               r == R % L
    <2>2. d \in Int /\ r \in Nat /\ r < L /\ R = L * d + r
      BY ONLY R \in Nat, L \in Nat \ {0}, SMT
    <2> HIDE DEF d, r
    <2>3. d >= 1
      <3>1. ASSUME d <= 0
            PROVE  FALSE
        <4>1. L * d <= 0
          BY <2>2, <3>1, SMT
        <4> DEFINE m == L * d
        <4>2. m \in Int
          BY <2>2, SMT
        <4> HIDE DEF m
        <4>3. m <= 0 /\ R = m + r
          BY <2>2, <4>1 DEF m
        <4> QED BY <2>2, <4>2, <4>3
      <3> QED BY <2>2, <3>1
    <2>4. d \in Nat
      BY <2>2, <2>3
    <2>5. L * d <= R
      <3> DEFINE m == L * d
      <3>1. m \in Nat /\ R = m + r
        BY <2>2, <2>4, Multiples
      <3> HIDE DEF m
      <3>2. m <= R
        BY <2>2, <3>1
      <3> QED BY <3>2 DEF m
    <2> QED BY <2>1, <2>3, <2>4, <2>5 DEF d
  <1> QED BY <1>2, <1>3

\* What becomes of R bytes from start on, when N blocks are carved off: the
\* program's block, the row, and the rest.
Piece(t, start, L, N, R, k) ==
    \/ k = 0 /\ t = Area("live", start, L)
    \/ k \in 1 .. N - 1 /\ t = Area("free", start + L * k, L)
    \/ k = N /\ L * N # R /\ t = Area("space", start + L * N, R - L * N)

\* Where a piece lies.
LEMMA PieceFacts ==
  ASSUME NEW start \in Nat, NEW L \in Nat \ {0}, NEW N \in Nat, 1 <= N, NEW R \in Nat, L * N <= R,
         NEW k \in Nat, NEW t, Piece(t, start, L, N, R, k)
  PROVE  /\ k <= N /\ IsArea(t) /\ From(t) = start + L * k
         /\ To(t) <= start + R /\ (k < N => To(t) = start + (L * k + L))
  <1> DEFINE m == L * k
             l == L * N
  <1>1. m \in Nat /\ l \in Nat /\ l <= R
    BY Multiples
  <1>2. k < N => m + L <= l
    BY Multiples
  <1>3. k = N => m = l
    OBVIOUS
  <1>4. k = 0 => m = 0
    BY SMT
  <1>5. \/ k < N /\ t[2] = start + m /\ t[3] = L
        \/ k = N /\ l # R /\ t[2] = start + l /\ t[3] = R - l
    <2>1. CASE k = 0 /\ t = Area("live", start, L)
      <3>1. t[2] = start /\ t[3] = L
        BY <2>1 DEF Area
      <3>2. k < N /\ start + m = start
        BY <1>4, <2>1
      <3> HIDE DEF m, l
      <3> QED BY <3>1, <3>2
    <2>2. CASE k \in 1 .. N - 1 /\ t = Area("free", start + L * k, L)
      BY <2>2 DEF Area
    <2>3. CASE k = N /\ L * N # R /\ t = Area("space", start + L * N, R - L * N)
      BY <2>3 DEF Area
    <2> QED BY <2>1, <2>2, <2>3 DEF Piece
  <1> HIDE DEF m, l
  <1>6. /\ k <= N /\ IsArea(t) /\ From(t) = start + m
        /\ To(t) <= start + R /\ (k < N => To(t) = start + (m + L))
    BY <1>1, <1>2, <1>3, <1>5 DEF IsArea, From, To
  <1> QED BY <1>6 DEF m

\* The pieces are parts of the space.
LEMMA PiecesAreParts ==
  ASSUME NEW start \in Nat, NEW L \in Nat \ {0}, NEW N \in Nat, 1 <= N, NEW R \in Nat, L * N <= R,
         NEW s, s = Area("space", start, R), NEW parts,
         \A t \in parts : \E k \in Nat : Piece(t, start, L, N, R, k)
  PROVE  AreParts(parts, s)
  <1>1. s[2] = start /\ s[3] = R
    BY DEF Area
  <1>2. ASSUME NEW t \in parts
        PROVE  IsArea(t) /\ Within(t, s)
    <2>1. PICK k \in Nat : Piece(t, start, L, N, R, k)
      OBVIOUS
    <2> DEFINE m == L * k
    <2>2. m \in Nat /\ IsArea(t) /\ From(t) = start + m /\ To(t) <= start + R
      BY <2>1, Multiples, PieceFacts
    <2> HIDE DEF m
    <2> QED BY <1>1, <2>2 DEF Within, From, To
  <1>3. ASSUME NEW t \in parts, NEW u \in parts, NEW j \in Nat, NEW k \in Nat, j < k,
               Piece(t, start, L, N, R, j), Piece(u, start, L, N, R, k)
        PROVE  To(t) <= From(u)
    <2> DEFINE l == L * j
               m == L * k
    <2>1. l \in Nat /\ m \in Nat /\ l + L <= m
      BY <1>3, Multiples
    <2>2. k <= N /\ From(u) = start + m
      BY <1>3, PieceFacts
    <2>3. j < N
      BY <1>3, <2>2
    <2>4. To(t) = start + (l + L)
      BY <1>3, <2>3, PieceFacts
    <2> HIDE DEF l, m
    <2> QED BY <2>1, <2>2, <2>4
  <1>4. ASSUME NEW t \in parts, NEW u \in parts, t # u
        PROVE  Disjoint(t, u)
    <2>1. PICK j \in Nat : Piece(t, start, L, N, R, j)
      OBVIOUS
    <2>2. PICK k \in Nat : Piece(u, start, L, N, R, k)
      OBVIOUS
    <2>3. j # k
      BY <1>4, <2>1, <2>2 DEF Piece
    <2>4. CASE j < k
      BY <1>3, <2>1, <2>2, <2>4 DEF Disjoint
    <2>5. CASE k < j
      BY <1>3, <2>1, <2>2, <2>5 DEF Disjoint
    <2> QED BY <2>3, <2>4, <2>5
  <1> QED BY <1>2, <1>4 DEF AreParts

\* How many blocks Refill carves off.
Number(p, n) == IF Remaining(p) > DataAlignment(n) * RefillNumber THEN RefillNumber
                ELSE Remaining(p) \div DataAlignment(n)

\* What Refill changes in the pool.
Refilled(q, p, i, L, N) ==
    /\ q.free_list \in [Lists -> Nat] /\ q.node \in Tables => q \in Pools
    /\ q.startfree = p.startfree + L * N /\ q.endfree = p.endfree
    /\ q.free_list = IF N = 1 THEN p.free_list
                     ELSE [p.free_list EXCEPT ![i] = p.startfree + L]
    /\ q.node = Over(Row(p.startfree, L, N), p.node)

\* It changes that.
LEMMA RefillFields ==
  ASSUME NEW p \in Pools, NEW n, NEW L, L = DataAlignment(n), NEW N \in Nat, N = Number(p, n),
         L \in Nat, NEW i \in Lists, i = ListOf(n), NEW q, q = Refill(p, n)
  PROVE  Refilled(q, p, i, L, N)
  <1> DEFINE m == L * N
             head == IF N = 1 THEN p.free_list[i] ELSE p.startfree + L
             nd == Over(Row(p.startfree, L, N), p.node)
  <1>1. q = [p EXCEPT !.startfree = p.startfree + m, !.free_list[i] = head, !.node = nd]
    BY DEF Refill, Number, Row
  <1>2. m \in Nat
    BY Multiples
  <1> HIDE DEF m, head, nd
  <1>3. /\ q.startfree = p.startfree + m /\ q.endfree = p.endfree
        /\ q.free_list = [p.free_list EXCEPT ![i] = head] /\ q.node = nd
    BY <1>1 DEF Pools
  <1>4. q.free_list \in [Lists -> Nat] /\ q.node \in Tables => q \in Pools
    <2>1. q = [startfree |-> q.startfree, endfree |-> q.endfree,
               free_list |-> q.free_list, node |-> q.node]
      BY <1>1 DEF Pools
    <2>2. q.startfree \in Nat /\ q.endfree \in Nat
      BY <1>2, <1>3 DEF Pools
    <2> QED BY <2>1, <2>2 DEF Pools
  <1>5. [p.free_list EXCEPT ![i] = head] =
           IF N = 1 THEN p.free_list ELSE [p.free_list EXCEPT ![i] = p.startfree + L]
    <2>1. p.free_list \in [Lists -> Nat]
      BY DEF Pools
    <2> QED BY <2>1 DEF head
  <1> QED BY <1>3, <1>4, <1>5 DEF nd, m, Refilled

\* Refill turns the start of the space into the program's block and a list.
LEMMA RefillLaidOut ==
  ASSUME NEW p \in Pools, NEW chunks, NEW R \in Nat, R = Remaining(p), R % 512 = 0,
         NEW n, Served(n), DataAlignment(n) <= R,
         NEW s, s = Area("space", p.startfree, R), NEW more, s \in more, LaidOut(p, more, chunks),
         NEW q, q = Refill(p, n), NEW others,
         others = (more \ {s}) \cup {Area("live", p.startfree, DataAlignment(n))}
                    \cup SpaceAreas(q.startfree, q.endfree)
  PROVE  q \in Pools /\ LaidOut(q, others, chunks) /\ Remaining(q) \in Nat /\ Remaining(q) % 512 = 0
  <1> DEFINE L == DataAlignment(n)
             N == Number(p, n)
             i == ListOf(n)
             start == p.startfree
             fl == p.free_list
             nd == p.node
             ch == Row(start, L, N)
             nd2 == Over(ch, nd)
             first == start + L
             z == Area("live", start, L)
             rest == SpaceAreas(q.startfree, q.endfree)
  <1>1. /\ L \in Nat \ {0} /\ L % 512 = 0 /\ Fileable(L) /\ i \in Lists /\ i = ListFor(L)
    BY AlignedFacts DEF ListOf, ListFor
  <1>2. N \in Nat /\ 1 <= N /\ L * N <= R
    <2>1. N = IF R > L * RefillNumber THEN RefillNumber ELSE R \div L
      BY DEF Number
    <2> HIDE DEF L, N
    <2> QED BY <1>1, <2>1, FetchedFacts DEF L
  <1>3. start \in Addr /\ start \in Nat
    <2>1. s[2] = start
      BY DEF Area
    <2>2. s[2] \in Addr
      BY StartsApart
    <2> QED BY <2>1, <2>2 DEF Addr
  <1>4. /\ q.free_list \in [Lists -> Nat] /\ q.node \in Tables => q \in Pools
        /\ q.startfree = start + L * N /\ q.endfree = p.endfree
        /\ q.free_list = IF N = 1 THEN fl ELSE [fl EXCEPT ![i] = first]
        /\ q.node = nd2
    <2>1. L = DataAlignment(n) /\ N = Number(p, n) /\ i = ListOf(n)
      OBVIOUS
    <2> HIDE DEF L, N, i
    <2>2. Refilled(q, p, i, L, N)
      BY <1>1, <1>2, <2>1, RefillFields
    <2> QED BY <2>2 DEF Refilled
  <1>5. p.endfree \in Nat /\ R = p.endfree - start
    BY DEF Remaining, Pools
  <1>6. /\ rest = IF L * N = R THEN {} ELSE {Area("space", start + L * N, R - L * N)}
        /\ Remaining(q) = R - L * N
    <2> DEFINE m == L * N
    <2>1. m \in Nat /\ m <= R
      BY <1>1, <1>2, Multiples
    <2>2. q.startfree = start + m /\ q.endfree = p.endfree
      BY <1>4
    <2> HIDE DEF m, L, N
    <2>3. q.endfree - q.startfree = R - m /\ (q.startfree = q.endfree <=> m = R)
      BY <1>3, <1>5, <2>1, <2>2
    <2>4. rest = IF m = R THEN {} ELSE {Area("space", start + m, R - m)}
      BY <2>2, <2>3 DEF SpaceAreas
    <2>5. Remaining(q) = R - m
      BY <2>3 DEF Remaining
    <2> QED BY <2>4, <2>5 DEF m
  <1>7. Remaining(q) \in Nat /\ Remaining(q) % 512 = 0
    <2> DEFINE m == L * N
    <2>1. m \in Nat /\ m <= R
      BY <1>1, <1>2, Multiples
    <2>2. m % 512 = 0
      <3>1. PICK k \in Nat : L = 512 * k
        <4> HIDE DEF L
        <4>1. PICK d \in Int, r \in Nat : L = 512 * d + r /\ r = L % 512 /\ r < 512
          BY <1>1, Division512, SMT
        <4> QED BY <1>1, <4>1, SMT
      <3>2. m = 512 * (k * N) /\ k * N \in Nat
        BY <1>2, <3>1, SMT
      <3> DEFINE l == k * N
      <3>3. m = 512 * l /\ l \in Nat
        BY <3>2
      <3> HIDE DEF l, m
      <3> QED BY <3>3, SMT
    <2> HIDE DEF m
    <2>3. R - m \in Nat /\ (R - m) % 512 = 0
      BY <2>1, <2>2, SMT
    <2> QED BY <1>6, <2>3 DEF m
  <1>8. ListsOK(fl, nd)
    BY DEF LaidOut
  <1>9. \A a \in DOMAIN ch : \E k \in Nat : OnRow(ch, start, L, N, a, k)
    <2> HIDE DEF ch, L, N, start
    <2> QED BY <1>1, <1>2, <1>3, RowFacts DEF ch
  <1>10. \A t : t \in {z} \cup {Area("free", a, ch[a].length) : a \in DOMAIN ch} \cup rest =>
            \E k \in Nat : Piece(t, start, L, N, R, k)
    <2> SUFFICES ASSUME NEW t,
                        t \in {z} \cup {Area("free", a, ch[a].length) : a \in DOMAIN ch} \cup rest
                 PROVE  \E k \in Nat : Piece(t, start, L, N, R, k)
      OBVIOUS
    <2>1. CASE t = z
      <3>1. Piece(t, start, L, N, R, 0)
        BY <2>1 DEF Piece
      <3> HIDE DEF L, N
      <3> QED BY <3>1
    <2>2. CASE t \in {Area("free", a, ch[a].length) : a \in DOMAIN ch}
      <3>1. PICK a \in DOMAIN ch : t = Area("free", a, ch[a].length)
        BY <2>2
      <3>2. PICK k \in Nat : OnRow(ch, start, L, N, a, k)
        BY <1>9
      <3>3. 1 <= k /\ k < N /\ a = start + L * k /\ ch[a].length = L
        BY <3>2 DEF OnRow
      <3> HIDE DEF L, N, ch
      <3>4. k \in 1 .. N - 1
        BY <1>2, <3>3
      <3>5. Piece(t, start, L, N, R, k)
        BY <3>1, <3>3, <3>4 DEF Piece
      <3> QED BY <3>5
    <2>3. CASE t \in rest
      <3>1. L * N # R /\ t = Area("space", start + L * N, R - L * N)
        BY <1>6, <2>3
      <3> HIDE DEF L, N
      <3>2. Piece(t, start, L, N, R, N)
        BY <3>1 DEF Piece
      <3> QED BY <1>2, <3>2
    <2> QED BY <2>1, <2>2, <2>3
  <1> DEFINE parts == {z} \cup {Area("free", a, ch[a].length) : a \in DOMAIN ch} \cup rest
  <1>11. AreParts(parts, s)
    <2> HIDE DEF L, N, ch, z, parts, start
    <2>1. \A t \in parts : \E k \in Nat : Piece(t, start, L, N, R, k)
      BY <1>10 DEF parts
    <2>2. s = Area("space", start, R)
      BY DEF start
    <2> QED BY <1>1, <1>2, <1>3, <2>1, <2>2, PiecesAreParts
  <1>12. DOMAIN ch \cap DOMAIN nd = {}
    <2> SUFFICES ASSUME NEW a \in DOMAIN ch, a \in DOMAIN nd
                 PROVE  FALSE
      OBVIOUS
    <2> DEFINE x == Area("free", a, ch[a].length)
               y == Area("free", a, nd[a].length)
    <2>1. x \in parts /\ y \in FreeAreas(nd) /\ From(x) = a /\ From(y) = a
      BY DEF FreeAreas, Area, From
    <2> HIDE DEF x, y, parts
    <2>2. IsArea(x) /\ Within(x, s)
      BY <1>11, <2>1 DEF AreParts
    <2>3. s # y
      BY <2>1, OthersAreNotFree
    <2>4. IsArea(y) /\ IsArea(s) /\ Disjoint(s, y)
      BY <2>1, <2>3 DEF LaidOut, Tiled
    <2> QED BY <2>1, <2>2, <2>4 DEF IsArea, Within, Disjoint, From, To
  <1>13. ListsOK(q.free_list, nd2)
    <2>1. CASE N = 1
      <3>1. DOMAIN ch = {}
        <4> SUFFICES ASSUME NEW a \in DOMAIN ch
                     PROVE  FALSE
          OBVIOUS
        <4>1. PICK k \in Nat : OnRow(ch, start, L, N, a, k)
          BY <1>9
        <4> QED BY <2>1, <4>1 DEF OnRow
      <3>2. nd = [b \in DOMAIN nd |-> nd[b]]
        BY <1>8, TableFacts DEF ListsOK
      <3>3. nd2 = nd
        <4> HIDE DEF ch, nd
        <4> QED BY <3>1, <3>2 DEF Over
      <3> QED BY <1>4, <1>8, <2>1, <3>3
    <2>2. CASE N # 1
      <3>1. IsChain(ch, first, i)
        <4> HIDE DEF L, N, ch, first, i
        <4>1. 1 < N
          BY <1>2, <2>2
        <4> QED BY <1>1, <1>2, <1>3, <4>1, RowIsChain DEF ch, first
      <3> DEFINE fl2 == [fl EXCEPT ![i] = first]
      <3>2. ListsOK(fl2, nd2)
        <4> HIDE DEF fl, nd, i, ch, first, nd2, fl2
        <4> QED BY <1>1, <1>8, <1>12, <3>1, ChainLists DEF nd2, fl2
      <3> QED BY <1>4, <2>2, <3>2
    <2> QED BY <2>1, <2>2
  <1>14. q \in Pools
    BY <1>4, <1>13 DEF ListsOK
  <1> DEFINE areas == FreeAreas(nd) \cup more
             areas2 == FreeAreas(nd2) \cup others
  <1>15. Instead(areas2, areas, s, parts)
    <2>1. /\ DOMAIN nd2 = DOMAIN ch \cup DOMAIN nd
          /\ \A b \in DOMAIN nd : nd2[b].length = nd[b].length
          /\ \A b \in DOMAIN ch : nd2[b].length = ch[b].length
      <3> HIDE DEF ch, nd
      <3> QED BY <1>12 DEF Over
    <2> HIDE DEF ch, nd, nd2, rest
    <2>2. ASSUME NEW y \in FreeAreas(nd2)
          PROVE  y \in FreeAreas(nd) \/ y \in parts
      <3>1. PICK b \in DOMAIN nd2 : y = Area("free", b, nd2[b].length)
        BY DEF FreeAreas
      <3>2. CASE b \in DOMAIN ch
        BY <2>1, <3>1, <3>2
      <3>3. CASE b \in DOMAIN nd
        BY <2>1, <3>1, <3>3 DEF FreeAreas
      <3> QED BY <2>1, <3>2, <3>3
    <2>3. s \notin FreeAreas(nd)
      BY OthersAreNotFree DEF nd
    <2>4. ASSUME NEW y \in others
          PROVE  (y \in more /\ y # s) \/ y \in parts
      <3>1. y \in more \ {s} \/ y = z \/ y \in rest
        BY DEF rest
      <3> QED BY <3>1
    <2> HIDE DEF parts
    <2> QED BY <2>2, <2>3, <2>4 DEF Instead
  <1>16. Tiled(areas, chunks) /\ chunks \subseteq Nat \X Nat
    BY DEF LaidOut
  <1>17. Tiled(areas2, chunks)
    <2> HIDE DEF areas, areas2, parts
    <2> QED BY <1>11, <1>15, <1>16, TiledParts
  <1>18. \A x \in others : x[1] # "free"
    <2>1. z[1] # "free" /\ \A x \in rest : x[1] # "free"
      BY <1>6 DEF Area
    <2> HIDE DEF z, rest
    <2>2. \A x \in more : x[1] # "free"
      BY DEF LaidOut
    <2>3. ASSUME NEW x \in others
          PROVE  x \in more \/ x = z \/ x \in rest
      BY DEF z, rest
    <2> QED BY <2>1, <2>2, <2>3
  <1>19. LaidOut(q, others, chunks)
    BY <1>4, <1>13, <1>16, <1>17, <1>18 DEF LaidOut
  <1> QED BY <1>7, <1>14, <1>19

-----------------------------------------------------------------------------
(* The invariant *)

\* An interval that starts at NULL is what a failed malloc leaves behind.
ChunksOK(chunks) == chunks \subseteq Nat \X Nat

\* A block that the pool passes on to the system's malloc overlaps no chunk and
\* no other such block.
LargeOK(l, chunks) ==
    \A a \in DOMAIN l : ~Served(l[a]) =>
        /\ a \in Bases /\ l[a] \in Nat \ {0}
        /\ \A i \in chunks : i[1] # NULL => a + l[a] <= i[1] \/ i[2] <= a
        /\ \A b \in DOMAIN l : b # a /\ ~Served(l[b]) => a + l[a] <= b \/ b + l[b] <= a

\* What the memory holds: the program's blocks, the space in hand and free blocks.
Sound(p, l, chunks) ==
    /\ p \in Pools /\ Remaining(p) \in Nat /\ Remaining(p) % 512 = 0
    /\ \A a \in DOMAIN l : l[a] \in Requests
    /\ ChunksOK(chunks) /\ LargeOK(l, chunks)
    /\ LaidOut(p, LiveAreas(l) \cup SpaceAreas(p.startfree, p.endfree), chunks)

PoolInv == Sound(pool, live, intervals) /\ MarksSound

\* Nothing starts where a block of the program does.
LEMMA LiveStartsApart ==
  ASSUME NEW areas, NEW chunks, ChunksOK(chunks), Tiled(areas, chunks),
         NEW l, LargeOK(l, chunks), LiveAreas(l) \subseteq areas,
         NEW x \in areas, x[1] # "live"
  PROVE  x[2] \notin DOMAIN l
  <1> SUFFICES ASSUME x[2] \in DOMAIN l
               PROVE  FALSE
    OBVIOUS
  <1> DEFINE a == x[2]
  <1>1. IsArea(x)
    BY DEF Tiled
  <1>2. CASE Served(l[a])
    <2> DEFINE y == Area("live", a, DataAlignment(l[a]))
    <2>1. y \in areas
      BY <1>2 DEF LiveAreas
    <2>2. y[1] = "live" /\ y[2] = a
      BY DEF Area
    <2> HIDE DEF y
    <2>3. IsArea(y) /\ Disjoint(x, y)
      BY <2>1, <2>2 DEF Tiled
    <2> QED BY <1>1, <2>2, <2>3 DEF IsArea, Disjoint, From, To
  <1>3. CASE ~Served(l[a])
    <2>1. /\ a \in Nat /\ l[a] \in Nat \ {0}
          /\ \A i \in chunks : i[1] # NULL => a + l[a] <= i[1] \/ i[2] <= a
      BY <1>3, BasesAssumption DEF LargeOK
    <2>2. PICK i \in chunks : i[1] # NULL /\ i[1] <= a /\ a < i[2]
      BY <1>1, <2>1 DEF Tiled, Chunked, InMemory, IsArea, From, To
    <2>3. i[1] \in Nat /\ i[2] \in Nat
      BY DEF ChunksOK
    <2> QED BY <2>1, <2>2, <2>3
  <1> QED BY <1>2, <1>3

\* The layout with fewer areas, and with more chunks.
LEMMA FewerOthers ==
  ASSUME NEW p, NEW others, NEW chunks, LaidOut(p, others, chunks), NEW others2 \in SUBSET others,
         NEW chunks2 \in SUBSET (Nat \X Nat), chunks \subseteq chunks2
  PROVE  LaidOut(p, others2, chunks2)
  <1>1. Tiled(FreeAreas(p.node) \cup others2, chunks2)
    <2>1. \A x : Chunked(x, chunks) => Chunked(x, chunks2)
      BY DEF Chunked, InMemory
    <2> QED BY <2>1 DEF LaidOut, Tiled
  <1> QED BY <1>1 DEF LaidOut

\* The program is given a block that was not in use.
LEMMA HandOutSound ==
  ASSUME NEW q \in Pools, Remaining(q) \in Nat, Remaining(q) % 512 = 0,
         NEW chunks, ChunksOK(chunks), NEW others, LaidOut(q, others, chunks),
         NEW l, LargeOK(l, chunks), \A b \in DOMAIN l : l[b] \in Requests,
         NEW n \in Requests, Served(n), NEW a, NEW l2, l2 = Over(At(a, n), l),
         LiveAreas(l) \cup {Area("live", a, DataAlignment(n))}
             \cup SpaceAreas(q.startfree, q.endfree) \subseteq others
  PROVE  Sound(q, l2, chunks)
  <1>1. /\ DOMAIN l2 = DOMAIN l \cup {a} /\ l2[a] = n
        /\ \A b \in DOMAIN l : b # a => l2[b] = l[b]
    BY DEF Over, At
  <1>2. LiveAreas(l2) \subseteq LiveAreas(l) \cup {Area("live", a, DataAlignment(n))}
    BY <1>1 DEF LiveAreas
  <1>3. LiveAreas(l2) \cup SpaceAreas(q.startfree, q.endfree) \in SUBSET others
    BY <1>2
  <1>4. LaidOut(q, LiveAreas(l2) \cup SpaceAreas(q.startfree, q.endfree), chunks)
    <2> DEFINE others2 == LiveAreas(l2) \cup SpaceAreas(q.startfree, q.endfree)
    <2>1. chunks \in SUBSET (Nat \X Nat) /\ others2 \in SUBSET others
      BY <1>3 DEF ChunksOK
    <2> HIDE DEF others2
    <2>2. LaidOut(q, others2, chunks)
      BY <2>1, FewerOthers
    <2> QED BY <2>2 DEF others2
  <1>5. LargeOK(l2, chunks) /\ \A b \in DOMAIN l2 : l2[b] \in Requests
    BY <1>1 DEF LargeOK
  <1> QED BY <1>4, <1>5 DEF Sound

\* Marks of a block that was not the program's.
LEMMA MarksHandedOut ==
  ASSUME MarksSound, NEW n, NEW a, a \notin DOMAIN live, live' = Over(At(a, n), live),
         marks' \subseteq marks \cup Mark(a, n)
  PROVE  MarksSound'
  <1>1. /\ DOMAIN live' = DOMAIN live \cup {a} /\ live'[a] = n
        /\ \A b \in DOMAIN live : live'[b] = live[b]
    BY DEF Over, At
  <1> SUFFICES ASSUME NEW b \in marks'
               PROVE  \E c \in DOMAIN live' : b \in Mark(c, live'[c])
    BY DEF MarksSound
  <1>2. CASE b \in Mark(a, n)
    BY <1>1, <1>2
  <1>3. CASE b \in marks
    <2>1. PICK c \in DOMAIN live : b \in Mark(c, live[c])
      BY <1>3 DEF MarksSound
    <2> QED BY <1>1, <2>1
  <1> QED BY <1>2, <1>3

\* The lengths of the classes.
LEMMA SlotFacts ==
  ASSUME NEW i \in Lists
  PROVE  /\ Index2SlotLength(i) \in Nat \ {0} /\ Index2SlotLength(i) % 512 = 0
         /\ \A j \in Lists : j < i => Index2SlotLength(j) < Index2SlotLength(i)
  <1>1. i \in 0 .. 95
    BY DEF Lists
  <1>2. \E k \in Nat : k # 0 /\ Index2SlotLength(i) = 512 * k
    <2>1. CASE i < 16
      <3>1. Index2SlotLength(i) = 512 * (i + 1) /\ i + 1 \in Nat /\ i + 1 # 0
        BY <1>1, <2>1, SMT DEF Index2SlotLength
      <3> QED BY <3>1
    <2>2. CASE ~(i < 16) /\ i < 40
      <3>1. Index2SlotLength(i) = 512 * (16 + 2 * (i - 15))
        BY <1>1, <2>2, SMT DEF Index2SlotLength, FirstSlot
      <3>2. 16 + 2 * (i - 15) \in Nat /\ 16 + 2 * (i - 15) # 0
        BY <1>1, <2>2, SMT
      <3> QED BY <3>1, <3>2
    <2>3. CASE ~(i < 40)
      <3>1. Index2SlotLength(i) = 512 * (64 + 4 * (i - 39))
        BY <1>1, <2>3, SMT DEF Index2SlotLength, SecondSlot
      <3>2. 64 + 4 * (i - 39) \in Nat /\ 64 + 4 * (i - 39) # 0
        BY <1>1, <2>3, SMT
      <3> QED BY <3>1, <3>2
    <2> QED BY <1>1, <2>1, <2>2, <2>3, SMT
  <1>3. Index2SlotLength(i) \in Nat \ {0} /\ Index2SlotLength(i) % 512 = 0
    <2>1. PICK k \in Nat : k # 0 /\ Index2SlotLength(i) = 512 * k
      BY <1>2
    <2> QED BY <2>1, SMT
  <1>4. \A j \in Lists : j < i => Index2SlotLength(j) < Index2SlotLength(i)
    BY <1>1, SMT DEF Index2SlotLength, FirstSlot, SecondSlot, Lists
  <1> QED BY <1>3, <1>4

\* The program is given a block that it did not have.
HandsOut(n) == \E a : a \notin DOMAIN live /\ live' = Over(At(a, n), live)

\* A block from the front of its own list.
LEMMA FromListSound ==
  ASSUME PoolInv, NEW n \in Requests, Served(n), MallocFromList(n)
  PROVE  PoolInv' /\ HandsOut(n)
  <1> DEFINE i == ListOf(n)
             a == pool.free_list[i]
             nd == pool.node
             rest == nd[a].next
             others == LiveAreas(live) \cup SpaceAreas(pool.startfree, pool.endfree)
             z == Area("live", a, DataAlignment(n))
  <1>1. /\ a # NULL
        /\ pool' = [pool EXCEPT !.free_list[i] = rest, !.node = Forget(SetPrev(nd, rest, NULL), a)]
        /\ marks' = marks \cup Mark(a, n)
        /\ live' = Over(At(a, n), live)
        /\ intervals' = intervals
    BY DEF MallocFromList, HandOut
  <1>2. Sound(pool, live, intervals) /\ MarksSound
    BY DEF PoolInv
  <1>3. /\ pool \in Pools /\ Remaining(pool) \in Nat /\ Remaining(pool) % 512 = 0
        /\ \A b \in DOMAIN live : live[b] \in Requests
        /\ ChunksOK(intervals) /\ LargeOK(live, intervals)
        /\ LaidOut(pool, others, intervals)
    BY <1>2 DEF Sound
  <1>4. /\ i \in Lists /\ Index2SlotLength(i) = DataAlignment(n)
        /\ DataAlignment(n) \in Nat /\ 512 <= DataAlignment(n)
    BY AlignedFacts DEF ListOf
  <1>5. ListsOK(pool.free_list, nd) /\ nd \in Tables
    BY <1>3 DEF LaidOut, ListsOK
  <1>6. /\ a \in DOMAIN nd /\ Index2SlotLength(i) <= nd[a].length /\ nd[a].length \in Nat
    <2>1. a \in DOMAIN nd /\ ListFor(nd[a].length) = i
      BY <1>1, <1>4, <1>5 DEF ListsOK, HeadsOK
    <2>2. Fileable(nd[a].length)
      BY <1>5, <2>1 DEF ListsOK
    <2> QED BY <2>1, <2>2 DEF Fileable, Served
  <1>7. rest \in DOMAIN nd \cup {NULL} /\ rest \in Nat
    BY <1>5, <1>6, HeaderFacts DEF ListsOK, LinksOK
  <1> DEFINE q == pool'
             nd2 == Forget(SetPrev(nd, rest, NULL), a)
  <1>8. HeadTaken(nd2, nd, a)
    <2>1. rest = nd[a].next /\ nd2 = Forget(SetPrev(nd, rest, NULL), a)
      OBVIOUS
    <2> HIDE DEF rest, nd2, nd, a
    <2> QED BY <1>5, <1>6, <1>7, <2>1, HeadTable
  <1>9. /\ q.startfree = pool.startfree /\ q.endfree = pool.endfree
        /\ q.free_list = [pool.free_list EXCEPT ![i] = rest] /\ q.node = nd2
        /\ q = [startfree |-> q.startfree, endfree |-> q.endfree,
                free_list |-> q.free_list, node |-> q.node]
    <2> HIDE DEF nd2, rest, i
    <2> QED BY <1>1, <1>3 DEF Pools, nd2
  <1>10. TakenOut(q, pool, a)
    <2> HIDE DEF nd2, i
    <2>1. HeadTaken(q.node, pool.node, a) /\ q.free_list = [pool.free_list EXCEPT ![i] = pool.node[a].next]
      BY <1>8, <1>9
    <2>2. pool.free_list[i] = a /\ a \in DOMAIN pool.node /\ ListsOK(pool.free_list, pool.node)
      BY <1>5, <1>6
    <2> HIDE DEF a, q
    <2> QED BY <1>4, <2>1, <2>2, TakeHead
  <1>11. q \in Pools
    <2> HIDE DEF q
    <2>1. q.free_list \in [Lists -> Nat] /\ q.node \in Tables
      BY <1>10 DEF TakenOut, ListsOK
    <2>2. q.startfree \in Nat /\ q.endfree \in Nat
      <3>1. pool.startfree \in Nat /\ pool.endfree \in Nat
        BY <1>3 DEF Pools
      <3> QED BY <1>9, <3>1
    <2> QED BY <1>9, <2>1, <2>2 DEF Pools
  <1>12. LaidOut(q, others \cup {z}, intervals)
    <2> DEFINE y == Area("free", a, pool.node[a].length)
    <2>1. z[1] # "free" /\ IsArea(z) /\ Within(z, y)
      <3>1. z[1] = "live" /\ z[2] = a /\ z[3] = DataAlignment(n) /\ y[2] = a /\ y[3] = nd[a].length
        BY DEF Area
      <3>2. a \in Nat
        BY <1>5, <1>6, HeaderFacts
      <3> HIDE DEF z, y, a
      <3> QED BY <1>4, <1>6, <3>1, <3>2 DEF IsArea, Within, From, To
    <2>2. a \in DOMAIN pool.node
      BY <1>6
    <2> HIDE DEF q, z, a, others
    <2> QED BY <1>3, <1>10, <2>1, <2>2, TakenLaidOut DEF y
  <1>13. a \notin DOMAIN live
    <2> DEFINE y == Area("free", a, nd[a].length)
               areas == FreeAreas(nd) \cup others
    <2>1. y \in areas /\ y[1] # "live" /\ y[2] = a
      BY <1>6 DEF FreeAreas, Area
    <2>2. Tiled(areas, intervals) /\ LiveAreas(live) \subseteq areas
      BY <1>3 DEF LaidOut
    <2> HIDE DEF y, areas, a
    <2> QED BY <1>3, <2>1, <2>2, LiveStartsApart
  <1>14. Sound(q, live', intervals)
    <2> DEFINE more == others \cup {z}
    <2>1. /\ LiveAreas(live) \cup {Area("live", a, DataAlignment(n))}
                \cup SpaceAreas(q.startfree, q.endfree) \subseteq more
          /\ Remaining(q) \in Nat /\ Remaining(q) % 512 = 0
      BY <1>3, <1>9 DEF Remaining
    <2>2. LaidOut(q, more, intervals)
      BY <1>12
    <2> HIDE DEF more, q, a
    <2> QED BY <1>1, <1>3, <1>11, <2>1, <2>2, HandOutSound
  <1>15. MarksSound'
    <2> HIDE DEF a
    <2> QED BY <1>1, <1>2, <1>13, MarksHandedOut
  <1>16. HandsOut(n)
    <2> HIDE DEF a
    <2> QED BY <1>1, <1>13 DEF HandsOut
  <1> QED BY <1>1, <1>14, <1>15, <1>16 DEF PoolInv

\* A block from the start of the space.
LEMMA FromSpaceSound ==
  ASSUME PoolInv, NEW n \in Requests, Served(n), MallocFromSpace(n)
  PROVE  PoolInv' /\ HandsOut(n)
  <1> DEFINE a == pool.startfree
             R == Remaining(pool)
             L == DataAlignment(n)
             s == Area("space", a, R)
             z == Area("live", a, L)
             more == LiveAreas(live) \cup SpaceAreas(pool.startfree, pool.endfree)
             q == pool'
             others == (more \ {s}) \cup {z} \cup SpaceAreas(q.startfree, q.endfree)
  <1>1. /\ R > L /\ pool' = Refill(pool, n) /\ live' = Over(At(a, n), live)
        /\ intervals' = intervals /\ marks' = marks
    BY DEF MallocFromSpace, HandOut
  <1>2. Sound(pool, live, intervals) /\ MarksSound
    BY DEF PoolInv
  <1>3. /\ pool \in Pools /\ R \in Nat /\ R % 512 = 0
        /\ \A b \in DOMAIN live : live[b] \in Requests
        /\ ChunksOK(intervals) /\ LargeOK(live, intervals)
        /\ LaidOut(pool, more, intervals)
    BY <1>2 DEF Sound
  <1>4. L \in Nat /\ 512 <= L
    BY AlignedFacts
  <1>5. L <= R /\ R # 0
    BY <1>1, <1>3, <1>4
  <1>6. s \in more
    <2>1. a \in Nat /\ pool.endfree \in Nat /\ R = pool.endfree - a
      BY <1>3 DEF Pools, Remaining
    <2>2. a # pool.endfree
      BY <1>5, <2>1
    <2> QED BY <2>1, <2>2 DEF SpaceAreas
  <1>7. q \in Pools /\ LaidOut(q, others, intervals) /\ Remaining(q) \in Nat /\ Remaining(q) % 512 = 0
    <2>1. /\ R = Remaining(pool) /\ s = Area("space", pool.startfree, R) /\ q = Refill(pool, n)
          /\ others = (more \ {s}) \cup {Area("live", pool.startfree, DataAlignment(n))}
                        \cup SpaceAreas(q.startfree, q.endfree)
      BY <1>1
    <2>2. DataAlignment(n) <= R
      BY <1>5
    <2> HIDE DEF a, R, L, s, z, more, q, others
    <2> QED BY <1>3, <1>6, <2>1, <2>2, RefillLaidOut
  <1>8. a \notin DOMAIN live
    <2> DEFINE areas == FreeAreas(pool.node) \cup more
    <2>1. s \in areas /\ s[1] # "live" /\ s[2] = a
      BY <1>6 DEF Area
    <2>2. Tiled(areas, intervals) /\ LiveAreas(live) \subseteq areas
      BY <1>3 DEF LaidOut
    <2> HIDE DEF s, areas, a
    <2> QED BY <1>3, <2>1, <2>2, LiveStartsApart
  <1>9. Sound(q, live', intervals)
    <2>1. LiveAreas(live) \subseteq more \ {s}
      <3>1. s[1] = "space" /\ \A x \in LiveAreas(live) : x[1] = "live"
        BY DEF LiveAreas, Area
      <3> HIDE DEF s
      <3> QED BY <3>1
    <2>2. LiveAreas(live) \cup {Area("live", a, DataAlignment(n))}
             \cup SpaceAreas(q.startfree, q.endfree) \subseteq others
      BY <2>1
    <2> HIDE DEF others, q, a
    <2> QED BY <1>1, <1>3, <1>7, <2>2, HandOutSound
  <1>10. MarksSound'
    <2>1. marks' \subseteq marks \cup Mark(a, n)
      BY <1>1
    <2> HIDE DEF a
    <2> QED BY <1>1, <1>2, <1>8, <2>1, MarksHandedOut
  <1>11. HandsOut(n)
    <2> HIDE DEF a
    <2> QED BY <1>1, <1>8 DEF HandsOut
  <1> QED BY <1>1, <1>9, <1>10, <1>11 DEF PoolInv

\* What UseRemaining leaves when the pool asks the system for memory.
LEMMA LeftoverSound ==
  ASSUME PoolInv, NEW n, Served(n), NeedsSystem(n), NEW p, p = UseRemaining(pool)
  PROVE  p \in Pools /\ LaidOut(p, LiveAreas(live), intervals)
  <1> DEFINE others == LiveAreas(live)
  <1>1. /\ pool \in Pools /\ Remaining(pool) \in Nat /\ Remaining(pool) % 512 = 0
        /\ LaidOut(pool, others \cup SpaceAreas(pool.startfree, pool.endfree), intervals)
    BY DEF PoolInv, Sound
  <1>2. Remaining(pool) <= ThirdSlot
    <2>1. DataAlignment(n) \in Nat /\ DataAlignment(n) <= ThirdSlot /\ Remaining(pool) <= DataAlignment(n)
      BY AlignedFacts DEF NeedsSystem
    <2> QED BY <1>1, <2>1, SMT DEF ThirdSlot
  <1>3. \A x \in others : x[1] # "space"
    BY DEF LiveAreas, Area
  <1> HIDE DEF others
  <1>4. p \in Pools /\ LaidOut(p, others, intervals) /\ Grown(p, pool)
    BY <1>1, <1>2, <1>3, UseRemainingLaidOut
  <1> QED BY <1>4 DEF others

\* The pool with another chunk in hand.
WithSpace(p, start, end) == [p EXCEPT !.startfree = start, !.endfree = end]

\* Nothing else changes.
LEMMA ChunkFields ==
  ASSUME NEW p \in Pools, NEW start \in Nat, NEW end \in Nat, NEW q, q = WithSpace(p, start, end)
  PROVE  /\ q \in Pools /\ q.startfree = start /\ q.endfree = end
         /\ q.free_list = p.free_list /\ q.node = p.node
  BY DEF Pools, WithSpace

\* Memory that has just been fetched is space.
LEMMA NewChunkLaidOut ==
  ASSUME NEW p, NEW others, NEW chunks, LaidOut(p, others, chunks),
         NEW start \in Nat \ {NULL}, NEW end \in Nat,
         \A i \in chunks : i[1] # NULL => i[2] <= start \/ end <= i[1],
         NEW z, IsArea(z), From(z) = start, To(z) = end, z[1] # "free",
         NEW chunks2, chunks2 = chunks \cup {<<start, end>>}
  PROVE  LaidOut(p, others \cup {z}, chunks2)
  <1> DEFINE areas == FreeAreas(p.node) \cup others
             areas2 == FreeAreas(p.node) \cup (others \cup {z})
  <1>1. Tiled(areas, chunks) /\ chunks \subseteq Nat \X Nat
    BY DEF LaidOut
  <1>2. \A a \in areas2 : a \in areas \/ a = z
    OBVIOUS
  <1>3. chunks \cup {<<start, end>>} \subseteq chunks2
    OBVIOUS
  <1> HIDE DEF areas, areas2
  <1>4. Tiled(areas2, chunks2)
    BY <1>1, <1>2, <1>3, TiledNew
  <1>5. chunks2 \subseteq Nat \X Nat
    BY <1>1
  <1> QED BY <1>4, <1>5 DEF LaidOut, areas2

\* Memory that the system's malloc returns belongs to nobody.
LEMMA UnusedFacts ==
  ASSUME PoolInv, NEW length \in Nat \ {0}, NEW base \in Unused(length)
  PROVE  /\ base \in Bases /\ base \in Nat \ {NULL} /\ base \notin DOMAIN live
         /\ \A i \in intervals : i[1] # NULL => i[2] <= base \/ base + length <= i[1]
         /\ \A a \in DOMAIN live : ~Served(live[a]) =>
               a + live[a] <= base \/ base + length <= a
  <1> DEFINE others == LiveAreas(live) \cup SpaceAreas(pool.startfree, pool.endfree)
  <1>1. /\ ChunksOK(intervals) /\ LargeOK(live, intervals)
        /\ LaidOut(pool, others, intervals) /\ LiveAreas(live) \subseteq others
    BY DEF PoolInv, Sound
  <1> HIDE DEF others
  <1>2. base \in Bases /\ base \in Nat \ {NULL}
    BY BasesAssumption DEF Unused, NULL
  <1>3. \A r \in Taken : base + length <= r[1] \/ r[2] <= base
    BY DEF Unused
  <1>4. \A i \in intervals : i[1] # NULL => i[2] <= base \/ base + length <= i[1]
    BY <1>3 DEF Taken
  <1>5. ASSUME NEW a \in DOMAIN live, ~Served(live[a])
        PROVE  a + live[a] <= base \/ base + length <= a
    <2>1. <<a, a + live[a]>> \in Taken
      BY <1>5 DEF Taken
    <2> QED BY <1>3, <2>1
  <1>6. ASSUME base \in DOMAIN live, Served(live[base])
        PROVE  FALSE
    <2> DEFINE x == Area("live", base, DataAlignment(live[base]))
    <2>1. x \in others /\ From(x) = base
      BY <1>1, <1>6 DEF LiveAreas, Area, From
    <2> HIDE DEF x
    <2>2. IsArea(x) /\ Chunked(x, intervals)
      BY <1>1, <2>1 DEF LaidOut, Tiled
    <2>3. PICK i \in intervals : i[1] # NULL /\ i[1] <= base /\ base < i[2]
      BY <1>2, <2>1, <2>2 DEF Chunked, InMemory, IsArea, From, To
    <2>4. i[1] \in Nat /\ i[2] \in Nat
      BY <1>1 DEF ChunksOK
    <2> QED BY <1>2, <1>4, <2>3, <2>4
  <1>7. ASSUME base \in DOMAIN live, ~Served(live[base])
        PROVE  FALSE
    <2>1. live[base] \in Nat \ {0}
      BY <1>1, <1>7 DEF LargeOK
    <2> QED BY <1>2, <1>5, <1>7, <2>1
  <1> QED BY <1>2, <1>4, <1>5, <1>6, <1>7

\* The length of a chunk.
LEMMA ChunkLength ==
  ASSUME NEW n, Served(n)
  PROVE  Bytes_to_get(n) \in Nat \ {0}
  <1> DEFINE L == DataAlignment(n)
             K == 2 * L
  <1>1. L \in Nat \ {0} /\ RefillNumber \in Nat /\ 1 <= RefillNumber
    BY AlignedFacts, RefillAssumption
  <1>2. K \in Nat \ {0}
    BY <1>1
  <1>3. K * RefillNumber \in Nat /\ K * 0 + K <= K * RefillNumber /\ K * 0 = 0
    <2>1. 0 \in Nat /\ K * 0 = 0
      BY <1>2, SMT
    <2> HIDE DEF L, K
    <2> QED BY <1>1, <1>2, <2>1, Multiples
  <1> HIDE DEF K
  <1>4. Bytes_to_get(n) = K * RefillNumber
    BY DEF Bytes_to_get, K
  <1> QED BY <1>2, <1>3, <1>4

\* One more chunk, that lies clear of everything.
LEMMA FetchedChunk ==
  ASSUME PoolInv, NEW n, Served(n), NEW base \in Unused(Bytes_to_get(n)),
         NEW end, end = base + Bytes_to_get(n),
         NEW chunks2, chunks2 = intervals \cup {<<base, end>>}
  PROVE  /\ base \in Nat \ {NULL} /\ end \in Nat /\ Bytes_to_get(n) \in Nat
         /\ \A i \in intervals : i[1] # NULL => i[2] <= base \/ end <= i[1]
         /\ ChunksOK(chunks2) /\ LargeOK(live, chunks2) /\ base \notin DOMAIN live
  <1> DEFINE R == Bytes_to_get(n)
             c == <<base, end>>
  <1>1. R \in Nat \ {0}
    BY ChunkLength
  <1>2. /\ base \in Nat \ {NULL} /\ base \notin DOMAIN live
        /\ \A i \in intervals : i[1] # NULL => i[2] <= base \/ base + R <= i[1]
        /\ \A a \in DOMAIN live : ~Served(live[a]) => a + live[a] <= base \/ base + R <= a
    <2> HIDE DEF R
    <2>1. base \in Unused(R)
      BY DEF R
    <2> QED BY <1>1, <2>1, UnusedFacts
  <1>3. end = base + R
    OBVIOUS
  <1> HIDE DEF R
  <1>4. end \in Nat
    BY <1>1, <1>2, <1>3
  <1>5. c[1] = base /\ c[2] = end /\ c \in Nat \X Nat
    BY <1>2, <1>4
  <1>6. \A i \in chunks2 : i \in intervals \/ i = c
    OBVIOUS
  <1>7. ChunksOK(intervals) /\ LargeOK(live, intervals)
    BY DEF PoolInv, Sound
  <1> HIDE DEF c
  <1>8. ChunksOK(chunks2)
    BY <1>5, <1>6, <1>7 DEF ChunksOK
  <1>9. LargeOK(live, chunks2)
    BY <1>2, <1>3, <1>5, <1>6, <1>7 DEF LargeOK
  <1> QED BY <1>1, <1>2, <1>3, <1>4, <1>8, <1>9 DEF R

\* A chunk comes from the system's malloc.
FetchesAt(base, n) ==
    /\ pool' = Refill(WithSpace(UseRemaining(pool), base, base + Bytes_to_get(n)), n)
    /\ intervals' = intervals \cup {<<base, base + Bytes_to_get(n)>>}
    /\ live' = Over(At(base, n), live)

\* A block from a new chunk.
LEMMA FromSystemSound ==
  ASSUME PoolInv, NEW n \in Requests, Served(n), MallocFromSystem(n)
  PROVE  PoolInv' /\ HandsOut(n)
  <1>0. PICK base \in Unused(Bytes_to_get(n)) : FetchesAt(base, n)
    BY Zenon DEF MallocFromSystem, FetchesAt, HandOut, WithSpace
  <1>1. /\ pool' = Refill(WithSpace(UseRemaining(pool), base, base + Bytes_to_get(n)), n)
        /\ intervals' = intervals \cup {<<base, base + Bytes_to_get(n)>>}
        /\ live' = Over(At(base, n), live)
    BY <1>0 DEF FetchesAt
  <1> DEFINE R == Bytes_to_get(n)
             L == DataAlignment(n)
             end == base + R
             p == UseRemaining(pool)
             r == WithSpace(p, base, end)
             s == Area("space", base, R)
             mine == LiveAreas(live)
             more == mine \cup {s}
             q == pool'
             chunks2 == intervals'
             others == (more \ {s}) \cup {Area("live", r.startfree, L)}
                          \cup SpaceAreas(q.startfree, q.endfree)
  <1>2. NeedsSystem(n) /\ marks' = marks
    BY DEF MallocFromSystem
  <1>3. Sound(pool, live, intervals) /\ MarksSound
    BY DEF PoolInv
  <1>4. /\ \A b \in DOMAIN live : live[b] \in Requests
        /\ ChunksOK(intervals) /\ LargeOK(live, intervals)
    BY <1>3 DEF Sound
  <1>5. p \in Pools /\ LaidOut(p, mine, intervals)
    <2> HIDE DEF p
    <2> QED BY <1>2, LeftoverSound DEF p
  <1>6. /\ base \in Nat \ {NULL} /\ end \in Nat /\ R \in Nat
        /\ \A i \in intervals : i[1] # NULL => i[2] <= base \/ end <= i[1]
        /\ ChunksOK(chunks2) /\ LargeOK(live, chunks2)
        /\ base \notin DOMAIN live /\ chunks2 = intervals \cup {<<base, end>>}
    <2>1. chunks2 = intervals \cup {<<base, end>>} /\ end = base + Bytes_to_get(n)
      BY <1>1
    <2> HIDE DEF chunks2, end
    <2> QED BY <2>1, FetchedChunk
  <1>7. L \in Nat \ {0} /\ L % 512 = 0
    BY AlignedFacts
  <1>8. L <= R /\ R # 0 /\ R % 512 = 0
    <2> DEFINE K == 2 * RefillNumber
    <2>1. RefillNumber \in Nat /\ 1 <= RefillNumber
      BY RefillAssumption
    <2>2. K \in Nat /\ 0 < K
      BY <2>1
    <2>3. R = L * K
      BY <1>7, <2>1, SMT DEF Bytes_to_get
    <2>4. L * 0 + L <= L * K /\ L * 0 = 0
      <3>1. 0 \in Nat /\ L * 0 = 0
        BY <1>7, SMT
      <3> HIDE DEF L, K
      <3> QED BY <1>7, <2>2, <3>1, Multiples
    <2>5. L <= R /\ R # 0
      <3> HIDE DEF R, L, K
      <3> DEFINE m == L * K
                 o == L * 0
      <3>1. R = m /\ o = 0 /\ o + L <= m
        BY <2>3, <2>4
      <3> HIDE DEF m, o
      <3> QED BY <1>6, <1>7, <3>1
    <2>6. R % 512 = 0
      <3> HIDE DEF L, K
      <3>1. PICK d \in Int, e \in Nat : L = 512 * d + e /\ e = L % 512 /\ e < 512
        BY <1>7, Division512, SMT
      <3>2. L = 512 * d
        BY <1>7, <3>1, SMT
      <3>3. R = 512 * (d * K) /\ d * K \in Int
        BY <2>2, <2>3, <3>2, SMT
      <3> DEFINE l == d * K
      <3>4. R = 512 * l /\ l \in Int
        BY <3>3
      <3> HIDE DEF l, R
      <3> QED BY <3>4, SMT
    <2> QED BY <2>5, <2>6
  <1>9. /\ r \in Pools /\ r.startfree = base /\ r.endfree = end
         /\ r.free_list = p.free_list /\ r.node = p.node
    <2>1. r = WithSpace(p, base, end)
      OBVIOUS
    <2> HIDE DEF p, end, r
    <2>2. p \in Pools /\ base \in Nat /\ end \in Nat
      BY <1>5, <1>6
    <2> QED BY ONLY <2>1, <2>2, ChunkFields
  <1>10. LaidOut(r, more, chunks2)
    <2>1. IsArea(s) /\ From(s) = base /\ To(s) = end /\ s[1] # "free"
      <3>1. s[1] = "space" /\ s[2] = base /\ s[3] = R
        BY DEF Area
      <3> HIDE DEF s, R
      <3>2. end = base + R
        BY DEF end
      <3> HIDE DEF end
      <3> QED BY <1>6, <1>8, <3>1, <3>2 DEF IsArea, From, To
    <2>2. LaidOut(p, more, chunks2)
      <3> HIDE DEF s, end, p, mine, chunks2
      <3> QED BY <1>5, <1>6, <2>1, NewChunkLaidOut
    <2> HIDE DEF p, r, more, chunks2
    <2> QED BY <1>9, <2>2, SameLists
  <1>11. q \in Pools /\ LaidOut(q, others, chunks2) /\ Remaining(q) \in Nat /\ Remaining(q) % 512 = 0
    <2>1. Remaining(r) = R
      <3> HIDE DEF r, R
      <3>1. end = base + R
        BY DEF end
      <3> QED BY <1>6, <1>9, <3>1 DEF Remaining
    <2>2. s = Area("space", r.startfree, R) /\ s \in more /\ q = Refill(r, n)
      <3>1. s = Area("space", r.startfree, R)
        BY <1>9
      <3>2. q = Refill(r, n)
        BY <1>1
      <3> QED BY <3>1, <3>2
    <2>3. DataAlignment(n) <= R
      BY <1>8
    <2>4. others = (more \ {s}) \cup {Area("live", r.startfree, DataAlignment(n))}
                        \cup SpaceAreas(q.startfree, q.endfree)
      OBVIOUS
    <2> HIDE DEF R, L, end, p, r, s, more, q, others, chunks2
    <2> QED BY <1>6, <1>8, <1>9, <1>10, <2>1, <2>2, <2>3, <2>4, RefillLaidOut
  <1>12. Sound(q, live', chunks2)
    <2>1. mine \subseteq more \ {s}
      <3>1. s[1] = "space" /\ \A x \in mine : x[1] = "live"
        BY DEF LiveAreas, Area
      <3> HIDE DEF s
      <3> QED BY <3>1
    <2>2. LiveAreas(live) \cup {Area("live", base, DataAlignment(n))}
             \cup SpaceAreas(q.startfree, q.endfree) \subseteq others
      BY <1>9, <2>1
    <2> HIDE DEF others, q, chunks2
    <2> QED BY <1>1, <1>4, <1>6, <1>11, <2>2, HandOutSound
  <1>13. MarksSound'
    <2>1. marks' \subseteq marks \cup Mark(base, n)
      BY <1>2
    <2> QED BY <1>1, <1>3, <1>6, <2>1, MarksHandedOut
  <1>14. HandsOut(n)
    BY <1>1, <1>6 DEF HandsOut
  <1> QED BY <1>12, <1>13, <1>14 DEF PoolInv

\* A failed malloc leaves one more interval, that starts at NULL.
LEMMA FailedChunk ==
  ASSUME NEW chunks, ChunksOK(chunks), NEW l, LargeOK(l, chunks), NEW n, Served(n),
         NEW chunks2, chunks2 = chunks \cup {<<NULL, Bytes_to_get(n)>>}
  PROVE  ChunksOK(chunks2) /\ LargeOK(l, chunks2) /\ chunks \subseteq chunks2
  <1> DEFINE c == <<NULL, Bytes_to_get(n)>>
  <1>1. c[1] = NULL /\ c \in Nat \X Nat
    BY ChunkLength DEF NULL
  <1>2. \A i \in chunks2 : i \in chunks \/ i = c
    OBVIOUS
  <1>3. chunks \subseteq chunks2
    OBVIOUS
  <1> HIDE DEF c
  <1>4. ChunksOK(chunks2)
    BY <1>1, <1>2 DEF ChunksOK
  <1>5. LargeOK(l, chunks2)
    BY <1>1, <1>2 DEF LargeOK
  <1> QED BY <1>3, <1>4, <1>5

\* The pool with the first block of list i as the space in hand.
Unhooked(p, i) ==
    [p EXCEPT !.free_list[i] = p.node[p.free_list[i]].next,
              !.node = Forget(@, p.free_list[i]),
              !.startfree = p.free_list[i],
              !.endfree = p.free_list[i] + Index2SlotLength(i)]

\* That block becomes space.
LEMMA UnhookedLaidOut ==
  ASSUME NEW p \in Pools, NEW others, NEW chunks, LaidOut(p, others, chunks),
         NEW i \in Lists, p.free_list[i] # NULL, NEW r, r = Unhooked(p, i),
         NEW R, R = Index2SlotLength(i), NEW a, a = p.free_list[i],
         NEW s, s = Area("space", a, R)
  PROVE  /\ r \in Pools /\ r.startfree = a /\ Remaining(r) = R
         /\ a \in DOMAIN p.node
         /\ LaidOut(r, others \cup {s}, chunks)
  <1> DEFINE nd == p.node
             rest == nd[a].next
             nd2 == Forget(nd, a)
  <1>1. ListsOK(p.free_list, nd) /\ nd \in Tables /\ p.free_list \in [Lists -> Nat]
    BY DEF LaidOut, ListsOK
  <1>2. a \in DOMAIN nd /\ ListFor(nd[a].length) = i /\ Fileable(nd[a].length)
    BY <1>1 DEF ListsOK, HeadsOK
  <1>3. R \in Nat \ {0} /\ R <= nd[a].length /\ nd[a].length \in Nat /\ a \in Nat /\ rest \in Nat
    BY <1>1, <1>2, SlotFacts, HeaderFacts DEF Fileable, Served
  <1>4. /\ r.startfree = a /\ r.endfree = a + R
        /\ r.free_list = [p.free_list EXCEPT ![i] = rest] /\ r.node = nd2
        /\ r = [startfree |-> r.startfree, endfree |-> r.endfree,
                free_list |-> r.free_list, node |-> r.node]
    <2>1. r = [p EXCEPT !.free_list[i] = rest, !.node = nd2, !.startfree = a, !.endfree = a + R]
      BY DEF Unhooked
    <2> HIDE DEF rest, nd2
    <2> QED BY <2>1 DEF Pools
  <1>5. HeadTaken(nd2, nd, a)
    <2> HIDE DEF nd, nd2
    <2>1. /\ nd2 \in Tables /\ DOMAIN nd2 = DOMAIN nd \ {a}
          /\ \A b \in DOMAIN nd \ {a} : nd2[b] = nd[b]
      BY <1>1, ForgetFacts DEF nd2
    <2> QED BY <2>1 DEF HeadTaken
  <1>6. TakenOut(r, p, a)
    <2> HIDE DEF nd2
    <2>1. HeadTaken(r.node, p.node, a) /\ r.free_list = [p.free_list EXCEPT ![i] = p.node[a].next]
      BY <1>4, <1>5
    <2> QED BY <1>1, <1>2, <2>1, TakeHead
  <1>7. r \in Pools
    <2>1. r.free_list \in [Lists -> Nat] /\ r.node \in Tables
      BY <1>6 DEF TakenOut, ListsOK
    <2>2. r.startfree \in Nat /\ r.endfree \in Nat
      BY <1>3, <1>4
    <2> QED BY <1>4, <2>1, <2>2 DEF Pools
  <1>8. Remaining(r) = R
    BY <1>3, <1>4 DEF Remaining
  <1>9. LaidOut(r, others \cup {s}, chunks)
    <2> DEFINE y == Area("free", a, p.node[a].length)
    <2>1. s[1] # "free" /\ IsArea(s) /\ Within(s, y)
      <3>1. s[1] = "space" /\ s[2] = a /\ s[3] = R /\ y[2] = a /\ y[3] = nd[a].length
        BY DEF Area
      <3> HIDE DEF y
      <3> QED BY ONLY <1>3, <3>1 DEF IsArea, Within, From, To
    <2>2. a \in DOMAIN p.node
      BY <1>2
    <2> HIDE DEF nd2, nd
    <2> QED BY <1>6, <2>1, <2>2, TakenLaidOut DEF y
  <1> QED BY <1>2, <1>4, <1>7, <1>8, <1>9

\* A larger block serves when the system's malloc fails.
TakesLarger(i, n) ==
    /\ pool' = Refill(Unhooked(UseRemaining(pool), i), n)
    /\ live' = Over(At(UseRemaining(pool).free_list[i], n), live)

\* A block from the first block of a larger class.
LEMMA FromLargerSound ==
  ASSUME PoolInv, NEW n \in Requests, Served(n), MallocFromLarger(n)
  PROVE  PoolInv' /\ HandsOut(n)
  <1>0. PICK i \in LargerLists(UseRemaining(pool), n) : TakesLarger(i, n)
    BY Zenon DEF MallocFromLarger, TakesLarger, HandOut, Unhooked
  <1> DEFINE L == DataAlignment(n)
             p == UseRemaining(pool)
             a == p.free_list[i]
             R == Index2SlotLength(i)
             r == Unhooked(p, i)
             s == Area("space", a, R)
             mine == LiveAreas(live)
             more == mine \cup {s}
             q == pool'
             chunks2 == intervals'
             others == (more \ {s}) \cup {Area("live", r.startfree, L)}
                          \cup SpaceAreas(q.startfree, q.endfree)
  <1>1. /\ pool' = Refill(r, n) /\ live' = Over(At(a, n), live)
        /\ chunks2 = intervals \cup {<<NULL, Bytes_to_get(n)>>}
        /\ NeedsSystem(n) /\ marks' = marks
    BY <1>0 DEF TakesLarger, MallocFromLarger
  <1>2. i \in Lists /\ ListOf(n) < i /\ a # NULL
    BY <1>0 DEF LargerLists, Lists
  <1>3. Sound(pool, live, intervals) /\ MarksSound
    BY DEF PoolInv
  <1>4. /\ \A b \in DOMAIN live : live[b] \in Requests
        /\ ChunksOK(intervals) /\ LargeOK(live, intervals)
    BY <1>3 DEF Sound
  <1>5. p \in Pools /\ LaidOut(p, mine, intervals)
    <2> HIDE DEF p
    <2> QED BY <1>1, LeftoverSound DEF p
  <1>6. ChunksOK(chunks2) /\ LargeOK(live, chunks2) /\ intervals \subseteq chunks2
    <2> HIDE DEF chunks2
    <2> QED BY <1>1, <1>4, FailedChunk
  <1>7. /\ ListOf(n) \in Lists /\ Index2SlotLength(ListOf(n)) = L /\ L \in Nat
    BY AlignedFacts DEF ListOf
  <1>8. R \in Nat \ {0} /\ R % 512 = 0 /\ L <= R
    <2>1. R \in Nat \ {0} /\ R % 512 = 0 /\ Index2SlotLength(ListOf(n)) < R
      BY <1>2, <1>7, SlotFacts
    <2> HIDE DEF R, L
    <2> QED BY <1>7, <2>1
  <1>9. /\ r \in Pools /\ r.startfree = a /\ Remaining(r) = R /\ a \in DOMAIN p.node
        /\ LaidOut(r, more, intervals)
    <2>1. a = p.free_list[i] /\ R = Index2SlotLength(i) /\ r = Unhooked(p, i)
          /\ s = Area("space", a, R) /\ p.free_list[i] # NULL
      BY <1>2
    <2> HIDE DEF p, a, R, r, s, mine
    <2> QED BY <1>2, <1>5, <2>1, UnhookedLaidOut
  <1>10. LaidOut(r, more, chunks2)
    <2>1. more \in SUBSET more /\ chunks2 \in SUBSET (Nat \X Nat)
      BY <1>6 DEF ChunksOK
    <2> HIDE DEF r, more, chunks2
    <2> QED BY <1>6, <1>9, <2>1, FewerOthers
  <1>11. q \in Pools /\ LaidOut(q, others, chunks2) /\ Remaining(q) \in Nat /\ Remaining(q) % 512 = 0
    <2>1. s = Area("space", r.startfree, R) /\ s \in more
      BY <1>9
    <2>2. DataAlignment(n) <= R /\ q = Refill(r, n) /\ R \in Nat
      BY <1>1, <1>8
    <2>3. others = (more \ {s}) \cup {Area("live", r.startfree, DataAlignment(n))}
                        \cup SpaceAreas(q.startfree, q.endfree)
      OBVIOUS
    <2> HIDE DEF R, L, p, r, s, a, more, q, others, chunks2
    <2> QED BY <1>8, <1>9, <1>10, <2>1, <2>2, <2>3, RefillLaidOut
  <1>12. a \notin DOMAIN live
    <2> DEFINE y == Area("free", a, p.node[a].length)
               areas == FreeAreas(p.node) \cup mine
    <2>1. y \in areas /\ y[1] # "live" /\ y[2] = a
      BY <1>9 DEF FreeAreas, Area
    <2>2. Tiled(areas, intervals) /\ LiveAreas(live) \subseteq areas
      BY <1>5 DEF LaidOut
    <2> HIDE DEF y, areas, a, p
    <2> QED BY <1>4, <2>1, <2>2, LiveStartsApart
  <1>13. Sound(q, live', chunks2)
    <2>1. mine \subseteq more \ {s}
      <3>1. s[1] = "space" /\ \A x \in mine : x[1] = "live"
        BY DEF LiveAreas, Area
      <3> HIDE DEF s
      <3> QED BY <3>1
    <2>2. LiveAreas(live) \cup {Area("live", a, DataAlignment(n))}
             \cup SpaceAreas(q.startfree, q.endfree) \subseteq others
      BY <1>9, <2>1
    <2> HIDE DEF others, q, chunks2, a
    <2> QED BY <1>1, <1>4, <1>6, <1>11, <2>2, HandOutSound
  <1>14. MarksSound'
    <2>1. marks' \subseteq marks \cup Mark(a, n)
      BY <1>1
    <2> HIDE DEF a
    <2> QED BY <1>1, <1>3, <1>12, <2>1, MarksHandedOut
  <1>15. HandsOut(n)
    <2> HIDE DEF a
    <2> QED BY <1>1, <1>12 DEF HandsOut
  <1> QED BY <1>13, <1>14, <1>15 DEF PoolInv

\* Nothing serves.
LEMMA ThrowsSound ==
  ASSUME PoolInv, NEW n \in Requests, Served(n), MallocThrows(n)
  PROVE  PoolInv'
  <1> DEFINE p == UseRemaining(pool)
             mine == LiveAreas(live)
             q == WithSpace(p, NULL, NULL)
             chunks2 == intervals'
  <1>1. /\ pool' = q /\ live' = live /\ marks' = marks /\ NeedsSystem(n)
        /\ chunks2 = intervals \cup {<<NULL, Bytes_to_get(n)>>}
    BY Zenon DEF MallocThrows, WithSpace
  <1>2. /\ \A b \in DOMAIN live : live[b] \in Requests
        /\ ChunksOK(intervals) /\ LargeOK(live, intervals) /\ MarksSound
    BY DEF PoolInv, Sound
  <1>3. p \in Pools /\ LaidOut(p, mine, intervals)
    <2> HIDE DEF p
    <2> QED BY <1>1, LeftoverSound DEF p
  <1>4. ChunksOK(chunks2) /\ LargeOK(live, chunks2) /\ intervals \subseteq chunks2
    <2> HIDE DEF chunks2
    <2> QED BY <1>1, <1>2, FailedChunk
  <1>5. /\ q \in Pools /\ q.startfree = NULL /\ q.endfree = NULL
        /\ q.free_list = p.free_list /\ q.node = p.node
    <2>1. NULL \in Nat /\ q = WithSpace(p, NULL, NULL)
      BY DEF NULL
    <2> HIDE DEF p, q
    <2> QED BY <1>3, <2>1, ChunkFields
  <1>6. LaidOut(q, mine, chunks2)
    <2>1. mine \in SUBSET mine /\ chunks2 \in SUBSET (Nat \X Nat)
      BY <1>4 DEF ChunksOK
    <2> HIDE DEF p, q, mine, chunks2
    <2>2. LaidOut(p, mine, chunks2)
      BY <1>3, <1>4, <2>1, FewerOthers
    <2> QED BY <1>5, <2>2, SameLists
  <1>7. Remaining(q) = 0 /\ SpaceAreas(q.startfree, q.endfree) = {}
    BY <1>5 DEF Remaining, SpaceAreas, NULL
  <1>8. Sound(q, live, chunks2)
    <2>1. mine \cup SpaceAreas(q.startfree, q.endfree) = mine
      BY <1>7
    <2> HIDE DEF q, chunks2
    <2> QED BY <1>2, <1>4, <1>5, <1>6, <1>7, <2>1 DEF Sound
  <1>9. MarksSound'
    BY <1>1, <1>2 DEF MarksSound
  <1> HIDE DEF q
  <1> QED BY <1>1, <1>8, <1>9 DEF PoolInv

\* A block that the system's malloc provides.
LEMMA LargeSound ==
  ASSUME PoolInv, NEW n \in Requests, ~Served(n), MallocLarge(n)
  PROVE  PoolInv' /\ HandsOut(n)
  <1>1. PICK base \in Unused(n) : live' = Over(At(base, n), live)
    BY DEF MallocLarge, HandOut
  <1>2. pool' = pool /\ intervals' = intervals /\ marks' = marks
    BY DEF MallocLarge
  <1>3. n \in Nat \ {0}
    BY RequestsAssumption
  <1>4. /\ base \in Bases /\ base \in Nat \ {NULL} /\ base \notin DOMAIN live
        /\ \A i \in intervals : i[1] # NULL => i[2] <= base \/ base + n <= i[1]
        /\ \A a \in DOMAIN live : ~Served(live[a]) => a + live[a] <= base \/ base + n <= a
    BY <1>1, <1>3, UnusedFacts
  <1>5. /\ DOMAIN live' = DOMAIN live \cup {base} /\ live'[base] = n
        /\ \A b \in DOMAIN live : live'[b] = live[b]
    BY <1>1, <1>4 DEF Over, At
  <1>6. LiveAreas(live') = LiveAreas(live)
    BY <1>4, <1>5 DEF LiveAreas
  <1>7. Sound(pool, live, intervals) /\ MarksSound
    BY DEF PoolInv
  <1>8. /\ LargeOK(live, intervals)
        /\ \A b \in DOMAIN live' : live'[b] \in Requests
    BY <1>5, <1>7 DEF Sound
  <1>9. LargeOK(live', intervals)
    <2> SUFFICES ASSUME NEW a \in DOMAIN live', ~Served(live'[a])
                 PROVE  /\ a \in Bases /\ live'[a] \in Nat \ {0}
                        /\ \A i \in intervals :
                              i[1] # NULL => a + live'[a] <= i[1] \/ i[2] <= a
                        /\ \A b \in DOMAIN live' : b # a /\ ~Served(live'[b]) =>
                              a + live'[a] <= b \/ b + live'[b] <= a
      BY DEF LargeOK
    <2>1. CASE a = base
      BY <1>3, <1>4, <1>5, <2>1
    <2>2. CASE a # base
      BY <1>4, <1>5, <1>8, <2>2 DEF LargeOK
    <2> QED BY <2>1, <2>2
  <1>10. Sound(pool, live', intervals)
    BY <1>6, <1>7, <1>8, <1>9 DEF Sound
  <1>11. MarksSound'
    <2>1. marks' \subseteq marks \cup Mark(base, n)
      BY <1>2
    <2> QED BY <1>1, <1>4, <1>7, <2>1, MarksHandedOut
  <1>12. HandsOut(n)
    BY <1>1, <1>4 DEF HandsOut
  <1> QED BY <1>2, <1>10, <1>11, <1>12 DEF PoolInv

-----------------------------------------------------------------------------
(* RocketCoFree *)

\* What a block is when it is given back: an area of the program's.
Mine(a) == Area("live", a, LengthOf(a))

\* The invariant after a block has been given back.
LEMMA GivenBackSound ==
  ASSUME PoolInv, NEW a \in DOMAIN live, Served(live[a]), NEW q \in Pools,
         q.startfree = pool.startfree, q.endfree = pool.endfree, NEW others,
         LaidOut(q, others, intervals),
         (LiveAreas(live) \cup SpaceAreas(pool.startfree, pool.endfree)) \ {Mine(a)} \subseteq others,
         pool' = q, marks' = Unmark(a), live' = Restrict(live, DOMAIN live \ {a}),
         intervals' = intervals
  PROVE  PoolInv'
  <1>1. /\ DOMAIN live' = DOMAIN live \ {a}
        /\ \A b \in DOMAIN live' : live'[b] = live[b]
    BY DEF Restrict
  <1>2. Sound(pool, live, intervals) /\ MarksSound
    BY DEF PoolInv
  <1>3. LargeOK(live', intervals) /\ \A b \in DOMAIN live' : live'[b] \in Requests
    <2>1. LargeOK(live, intervals) /\ \A b \in DOMAIN live : live[b] \in Requests
      BY <1>2 DEF Sound
    <2>2. LargeOK(live', intervals)
      BY <1>1, <2>1 DEF LargeOK
    <2> QED BY <1>1, <2>1, <2>2
  <1>4. LiveAreas(live') \subseteq LiveAreas(live) \ {Mine(a)}
    <2> SUFFICES ASSUME NEW x \in LiveAreas(live')
                 PROVE  x \in LiveAreas(live) /\ x # Mine(a)
      OBVIOUS
    <2>1. PICK b \in DOMAIN live' : Served(live'[b]) /\ x = Area("live", b, DataAlignment(live'[b]))
      BY DEF LiveAreas
    <2>2. b \in DOMAIN live /\ b # a /\ live'[b] = live[b]
      BY <1>1
    <2>3. x \in LiveAreas(live)
      BY <2>1, <2>2 DEF LiveAreas
    <2>4. x[2] = b /\ Mine(a)[2] = a
      BY <2>1 DEF Mine, Area
    <2> QED BY <2>2, <2>3, <2>4
  <1>5. Mine(a) \notin SpaceAreas(q.startfree, q.endfree)
    <2>1. Mine(a)[1] = "live" /\ \A x \in SpaceAreas(q.startfree, q.endfree) : x[1] = "space"
      BY DEF Mine, SpaceAreas, Area
    <2> QED BY <2>1
  <1>6. LaidOut(q, LiveAreas(live') \cup SpaceAreas(q.startfree, q.endfree), intervals)
    <2> DEFINE others2 == LiveAreas(live') \cup SpaceAreas(q.startfree, q.endfree)
    <2>1. others2 \in SUBSET others /\ intervals \in SUBSET (Nat \X Nat)
      BY <1>2, <1>4, <1>5 DEF Sound, ChunksOK
    <2> HIDE DEF others2
    <2>2. LaidOut(q, others2, intervals)
      BY <2>1, FewerOthers
    <2> QED BY <2>2 DEF others2
  <1>7. Sound(q, live', intervals)
    BY <1>2, <1>3, <1>6 DEF Sound, Remaining
  <1>8. MarksSound'
    <2> SUFFICES ASSUME NEW b \in marks'
                 PROVE  \E c \in DOMAIN live' : b \in Mark(c, live'[c])
      BY DEF MarksSound
    <2>1. b \in marks /\ b \notin Mark(a, live[a])
      BY DEF Unmark
    <2>2. PICK c \in DOMAIN live : b \in Mark(c, live[c])
      BY <1>2, <2>1 DEF MarksSound
    <2>3. c # a
      BY <2>1, <2>2
    <2> QED BY <1>1, <2>2, <2>3
  <1> QED BY <1>7, <1>8 DEF PoolInv

\* The facts of the invariant that a free starts from.
LEMMA BeforeFree ==
  ASSUME PoolInv, NEW a \in DOMAIN live, Served(live[a]), NEW others,
         others = LiveAreas(live) \cup SpaceAreas(pool.startfree, pool.endfree),
         NEW x, x = Mine(a)
  PROVE  /\ pool \in Pools /\ ChunksOK(intervals) /\ LaidOut(pool, others, intervals)
         /\ x \in others /\ x[1] = "live" /\ From(x) = a /\ To(x) = EndOf(a) /\ IsArea(x)
         /\ x[3] = LengthOf(a)
         /\ LengthOf(a) \in Nat /\ 512 <= LengthOf(a) /\ Fileable(LengthOf(a)) /\ a \in Nat
         /\ EndOf(a) = a + LengthOf(a)
  <1>1. pool \in Pools /\ ChunksOK(intervals) /\ LaidOut(pool, others, intervals)
    BY DEF PoolInv, Sound
  <1>2. x \in others
    BY DEF LiveAreas, Mine, LengthOf
  <1>3. LengthOf(a) \in Nat /\ 512 <= LengthOf(a) /\ Fileable(LengthOf(a))
    BY AlignedFacts DEF LengthOf
  <1>4. x[1] = "live" /\ x[2] = a /\ x[3] = LengthOf(a)
    BY DEF Mine, Area
  <1>5. IsArea(x)
    BY <1>1, <1>2 DEF LaidOut, Tiled
  <1> QED BY <1>1, <1>2, <1>3, <1>4, <1>5 DEF From, To, EndOf, IsArea

\* A block that merges with neither neighbour.
LEMMA FreeAlone ==
  ASSUME PoolInv, NEW a \in DOMAIN live, Served(live[a]), NEW q,
         q = SetBlock2FreeList(pool, a, LengthOf(a)), NEW others,
         others = (LiveAreas(live) \cup SpaceAreas(pool.startfree, pool.endfree)) \ {Mine(a)}
  PROVE  /\ q \in Pools /\ q.startfree = pool.startfree /\ q.endfree = pool.endfree
         /\ LaidOut(q, others, intervals)
         /\ Filed(q, pool, ListFor(LengthOf(a)), a, LengthOf(a))
  <1> DEFINE x == Mine(a)
             length == LengthOf(a)
             more == LiveAreas(live) \cup SpaceAreas(pool.startfree, pool.endfree)
             i == ListFor(length)
  <1>1. /\ pool \in Pools /\ LaidOut(pool, more, intervals) /\ x \in more /\ Fileable(length)
    <2>1. x = Mine(a) /\ more = LiveAreas(live) \cup SpaceAreas(pool.startfree, pool.endfree)
      OBVIOUS
    <2> HIDE DEF x, more
    <2> QED BY <2>1, BeforeFree
  <1>2. x = Area("live", a, length) /\ others = more \ {x} /\ q = Push(pool, i, a, length)
    BY DEF Mine, SetBlock2FreeList, ListFor
  <1>3. i = ListFor(length)
    OBVIOUS
  <1> HIDE DEF x, length, more, i
  <1>4. /\ q \in Pools /\ LaidOut(q, others, intervals) /\ Filed(q, pool, i, a, length)
        /\ q.startfree = pool.startfree /\ q.endfree = pool.endfree
    BY <1>1, <1>2, <1>3, PushLaidOut
  <1> QED BY <1>3, <1>4 DEF length

\* A block that merges with its neighbour b: the two are (start, total).
MergesWith(a, b, start, total) ==
    /\ b \in DOMAIN pool.node /\ Detachable(pool, b)
    /\ \/ start = b /\ b + pool.node[b].length = a
       \/ start = a /\ EndOf(a) = b
    /\ total = pool.node[b].length + LengthOf(a)
    /\ IsMerge(total)

\* What happens to the free lists when it is given back.
LEMMA FreeMerged ==
  ASSUME PoolInv, NEW a \in DOMAIN live, Served(live[a]), NEW b, NEW start, NEW total,
         MergesWith(a, b, start, total), NEW r, r = MoveToFreeList(pool, b),
         NEW q, q = SetBlock2FreeList(r, start, total), NEW others,
         others = (LiveAreas(live) \cup SpaceAreas(pool.startfree, pool.endfree)) \ {Mine(a)}
  PROVE  /\ q \in Pools /\ q.startfree = pool.startfree /\ q.endfree = pool.endfree
         /\ LaidOut(q, others, intervals)
         /\ TakenOut(r, pool, b) /\ ListsOK(r.free_list, r.node)
         /\ Filed(q, r, ListFor(total), start, total)
  <1> DEFINE x == Mine(a)
             length == LengthOf(a)
             m == pool.node[b].length
             y == Area("free", b, m)
             z == Area("merged", start, total)
             mine == LiveAreas(live) \cup SpaceAreas(pool.startfree, pool.endfree)
             joined == (mine \ {x}) \cup {z}
             areas == FreeAreas(pool.node) \cup mine
             end == EndOf(a)
  <1>1. /\ pool \in Pools /\ ChunksOK(intervals) /\ LaidOut(pool, mine, intervals)
        /\ x \in mine /\ x[1] = "live" /\ From(x) = a /\ To(x) = end /\ IsArea(x)
        /\ length \in Nat /\ 512 <= length /\ a \in Nat /\ end = a + length
    <2>1. x = Mine(a) /\ mine = LiveAreas(live) \cup SpaceAreas(pool.startfree, pool.endfree)
      OBVIOUS
    <2> HIDE DEF x, mine
    <2> QED BY <2>1, BeforeFree
  <1>2. /\ b \in DOMAIN pool.node /\ Detachable(pool, b)
        /\ (start = b /\ b + m = a) \/ (start = a /\ end = b)
        /\ total = m + length /\ IsMerge(total)
    BY DEF MergesWith
  <1>3. ListsOK(pool.free_list, pool.node) /\ Tiled(areas, intervals)
    BY <1>1 DEF LaidOut
  <1>4. m \in Nat /\ ListFor(m) \in Lists
    BY <1>2, <1>3 DEF ListsOK, Fileable, Served
  <1>5. /\ TakenOut(r, pool, b)
        /\ r \in Pools /\ r.startfree = pool.startfree /\ r.endfree = pool.endfree
    BY <1>1, <1>2, <1>3, <1>4, MoveTakesOut
  <1>6. y \in areas /\ x \in areas /\ From(y) = b /\ To(y) = b + m
    BY <1>1, <1>2 DEF FreeAreas, Area, From, To
  <1>7. b \in Nat /\ start \in Nat
    BY <1>1, <1>2, <1>3, HeaderFacts DEF ListsOK
  <1>8. total \in Nat /\ 512 <= total /\ total # 0
    <2> HIDE DEF m, length
    <2> QED BY <1>1, <1>2, <1>4
  <1>9. Fileable(total)
    <2>1. Served(total)
      BY <1>2, <1>8, SMT DEF IsMerge, Served, FirstSlot, SecondSlot, ThirdSlot
    <2> QED BY <1>8, <2>1, LongIsFileable
  <1>10. z[1] = "merged" /\ z[2] = start /\ z[3] = total
    BY DEF Area
  <1>11. IsArea(z) /\ From(z) = start /\ To(z) = start + total /\ z[1] # "free"
    <2> HIDE DEF z
    <2> QED BY <1>7, <1>8, <1>10 DEF IsArea, From, To
  <1>12. LaidOut(r, joined, intervals)
    <2>1. CASE start = b /\ b + m = a
      <3>1. To(y) = From(x)
        BY <1>1, <1>6, <2>1
      <3>2. From(z) = From(y) /\ To(z) = To(x)
        <4> HIDE DEF x, y, z, m, length, end
        <4> QED BY <1>1, <1>2, <1>4, <1>6, <1>7, <1>11, <2>1
      <3>3. y = Area("free", b, pool.node[b].length)
        OBVIOUS
      <3> HIDE DEF x, y, z, mine, m, length
      <3> QED BY <1>1, <1>2, <1>5, <1>11, <3>1, <3>2, <3>3, MergedLaidOut
    <2>2. CASE start = a /\ end = b
      <3>1. To(x) = From(y)
        BY <1>1, <1>6, <2>2
      <3>2. From(z) = From(x) /\ To(z) = To(y)
        <4> HIDE DEF x, y, z, m, length, end
        <4> QED BY <1>1, <1>2, <1>4, <1>6, <1>7, <1>11, <2>2
      <3>3. y = Area("free", b, pool.node[b].length)
        OBVIOUS
      <3> HIDE DEF x, y, z, mine, m, length
      <3> QED BY <1>1, <1>2, <1>5, <1>11, <3>1, <3>2, <3>3, MergedLaidOut
    <2> QED BY <1>2, <2>1, <2>2
  <1>13. /\ q \in Pools /\ LaidOut(q, joined \ {z}, intervals) /\ Filed(q, r, ListFor(total), start, total)
         /\ q.startfree = r.startfree /\ q.endfree = r.endfree
    <2> DEFINE i == ListFor(total)
               others2 == joined \ {z}
    <2>1. /\ z = Area("merged", start, total) /\ z \in joined /\ others2 = joined \ {z}
          /\ i = ListFor(total) /\ q = Push(r, i, start, total)
      BY DEF SetBlock2FreeList, ListFor
    <2> HIDE DEF z, joined, others2, i
    <2>2. /\ q \in Pools /\ LaidOut(q, others2, intervals) /\ Filed(q, r, i, start, total)
          /\ q.startfree = r.startfree /\ q.endfree = r.endfree
      BY <1>5, <1>9, <1>12, <2>1, PushLaidOut
    <2> QED BY <2>2 DEF others2, i
  <1>14. LaidOut(q, others, intervals)
    <2>1. z \notin mine
      <3>1. \A w \in mine : w[1] \in {"live", "space"}
        BY DEF LiveAreas, SpaceAreas, Area
      <3> HIDE DEF z, mine
      <3> QED BY <1>10, <3>1
    <2>2. others \in SUBSET (joined \ {z}) /\ intervals \in SUBSET (Nat \X Nat)
      BY <1>1, <2>1 DEF ChunksOK
    <2> DEFINE more == joined \ {z}
    <2>3. LaidOut(q, more, intervals) /\ others \in SUBSET more
      BY <1>13, <2>2
    <2> HIDE DEF more
    <2> QED BY <2>2, <2>3, FewerOthers
  <1>15. ListsOK(r.free_list, r.node)
    BY <1>5 DEF TakenOut
  <1> QED BY <1>5, <1>13, <1>14, <1>15

\* What the free lists are after a block has been given back.
LEMMA FreeSplits ==
  ASSUME PoolInv, NEW a \in DOMAIN live, CarefulFree(a), RocketCoFree(a)
  PROVE  /\ Served(live[a])
         /\ marks' = Unmark(a) /\ live' = Restrict(live, DOMAIN live \ {a}) /\ intervals' = intervals
         /\ \/ pool' = SetBlock2FreeList(pool, a, LengthOf(a))
            \/ \E b, start, total :
                  /\ MergesWith(a, b, start, total)
                  /\ pool' = SetBlock2FreeList(MoveToFreeList(pool, b), start, total)
  <1>1. /\ Served(live[a])
        /\ LooksLeft(a) => EndsAt(a) # {} /\ (MergesLeft(a) => Detachable(pool, LeftOf(a)))
        /\ ~MergesLeft(a) /\ LooksRight(a) =>
               EndOf(a) \in DOMAIN pool.node /\ (MergesRight(a) => Detachable(pool, EndOf(a)))
    BY DEF CarefulFree
  <1>2. /\ marks' = Unmark(a) /\ live' = Restrict(live, DOMAIN live \ {a}) /\ intervals' = intervals
    BY DEF RocketCoFree
  <1>3. CASE MergesLeft(a) /\ MergeData(LeftOf(a), LeftOf(a),
                                        pool.node[LeftOf(a)].length + LengthOf(a))
    <2> DEFINE b == LeftOf(a)
               total == pool.node[b].length + LengthOf(a)
    <2>1. LooksLeft(a) /\ IsMerge(total)
      BY <1>3 DEF MergesLeft
    <2>2. b \in EndsAt(a)
      BY <1>1, <2>1 DEF LeftOf
    <2>3. b \in DOMAIN pool.node /\ b + pool.node[b].length = a
      BY <2>2 DEF EndsAt
    <2>4. MergesWith(a, b, b, total)
      BY <1>1, <1>3, <2>1, <2>3 DEF MergesWith
    <2>5. pool' = SetBlock2FreeList(MoveToFreeList(pool, b), b, total)
      BY <1>3 DEF MergeData
    <2> HIDE DEF b, total
    <2> QED BY <1>1, <1>2, <2>4, <2>5
  <1>4. CASE MergesRight(a) /\ MergeData(a, EndOf(a), LengthOf(a) + pool.node[EndOf(a)].length)
    <2> DEFINE b == EndOf(a)
               total == LengthOf(a) + pool.node[b].length
    <2>1. ~MergesLeft(a) /\ LooksRight(a) /\ IsMerge(total)
      BY <1>4 DEF MergesRight
    <2>2. b \in DOMAIN pool.node /\ Detachable(pool, b)
      BY <1>1, <1>4, <2>1
    <2>3. pool.node[b].length \in Nat /\ LengthOf(a) \in Nat
      <3>1. pool.node \in Tables
        BY DEF PoolInv, Sound, Pools
      <3> HIDE DEF b
      <3> QED BY <1>1, <2>2, <3>1, HeaderFacts, AlignedFacts DEF LengthOf
    <2>4. total = pool.node[b].length + LengthOf(a)
      BY <2>3
    <2>5. MergesWith(a, b, a, total)
      BY <2>1, <2>2, <2>4 DEF MergesWith
    <2>6. pool' = SetBlock2FreeList(MoveToFreeList(pool, b), a, total)
      BY <1>4 DEF MergeData
    <2> HIDE DEF b, total
    <2> QED BY <1>1, <1>2, <2>5, <2>6
  <1>5. CASE pool' = SetBlock2FreeList(pool, a, LengthOf(a))
    BY <1>1, <1>2, <1>5
  <1> QED BY <1>3, <1>4, <1>5 DEF RocketCoFree

\* A block is given back.
LEMMA FreeSound ==
  ASSUME PoolInv, NEW a \in DOMAIN live, CarefulFree(a), RocketCoFree(a)
  PROVE  PoolInv'
  <1> DEFINE mine == LiveAreas(live) \cup SpaceAreas(pool.startfree, pool.endfree)
             others == mine \ {Mine(a)}
  <1>1. /\ Served(live[a])
        /\ marks' = Unmark(a) /\ live' = Restrict(live, DOMAIN live \ {a}) /\ intervals' = intervals
    BY FreeSplits
  <1>2. /\ pool' \in Pools /\ pool'.startfree = pool.startfree /\ pool'.endfree = pool.endfree
        /\ LaidOut(pool', others, intervals)
    <2>1. CASE pool' = SetBlock2FreeList(pool, a, LengthOf(a))
      BY <1>1, <2>1, FreeAlone
    <2>2. ASSUME NEW b, NEW start, NEW total, MergesWith(a, b, start, total),
                 pool' = SetBlock2FreeList(MoveToFreeList(pool, b), start, total)
          PROVE  /\ pool' \in Pools /\ pool'.startfree = pool.startfree /\ pool'.endfree = pool.endfree
                 /\ LaidOut(pool', others, intervals)
      BY <1>1, <2>2, FreeMerged
    <2> QED BY <2>1, <2>2, FreeSplits
  <1>3. mine \ {Mine(a)} \subseteq others
    OBVIOUS
  <1> HIDE DEF others
  <1> QED BY <1>1, <1>2, <1>3, GivenBackSound

-----------------------------------------------------------------------------
(* The invariant holds *)

\* A pool that has asked the system for nothing yet.
LEMMA FreshPool ==
  ASSUME NEW start \in Nat, NEW end \in Nat, NEW p,
         p = [startfree |-> start, endfree |-> end,
              free_list |-> [i \in Lists |-> NULL], node |-> << >>]
  PROVE  /\ p \in Pools /\ p.startfree = start /\ p.endfree = end
         /\ ListsOK(p.free_list, p.node) /\ FreeAreas(p.node) = {}
  <1> DEFINE nd == << >>
             fl == [i \in Lists |-> NULL]
  <1>1. DOMAIN nd = {}
    OBVIOUS
  <1>2. nd \in Tables
    <2>1. nd \in [{} -> Headers]
      OBVIOUS
    <2>2. {} \in SUBSET Addr
      OBVIOUS
    <2> QED BY <2>1, <2>2 DEF Tables
  <1>3. p.startfree = start /\ p.endfree = end /\ p.free_list = fl /\ p.node = nd
    OBVIOUS
  <1> HIDE DEF nd
  <1>4. fl \in [Lists -> Nat] /\ \A i \in Lists : fl[i] = NULL
    BY DEF NULL
  <1>5. p \in Pools
    <2> HIDE DEF fl
    <2>1. p = [startfree |-> start, endfree |-> end, free_list |-> fl, node |-> nd]
      BY DEF fl, nd
    <2> QED BY <1>2, <1>4, <2>1 DEF Pools
  <1> HIDE DEF fl
  <1>6. IsFiniteSet(DOMAIN nd)
    BY <1>1, FS_EmptySet
  <1>7. ListsOK(fl, nd)
    BY <1>1, <1>2, <1>4, <1>6 DEF ListsOK, HeadsOK, LinksOK
  <1>8. FreeAreas(nd) = {}
    BY <1>1 DEF FreeAreas
  <1> QED BY <1>3, <1>5, <1>7, <1>8

\* The invariant holds at the start.
LEMMA PoolInit ==
  ASSUME Init
  PROVE  PoolInv
  <1>1. /\ pool = [startfree |-> NULL, endfree |-> NULL,
                   free_list |-> [i \in Lists |-> NULL], node |-> << >>]
        /\ intervals = {} /\ marks = {} /\ live = << >> /\ NULL \in Nat
    BY DEF Init, NULL
  <1>2. /\ pool \in Pools /\ pool.startfree = NULL /\ pool.endfree = NULL
        /\ ListsOK(pool.free_list, pool.node) /\ FreeAreas(pool.node) = {}
    BY <1>1, FreshPool
  <1>3. DOMAIN live = {}
    BY <1>1
  <1>4. LiveAreas(live) = {} /\ SpaceAreas(pool.startfree, pool.endfree) = {}
    BY <1>2, <1>3 DEF LiveAreas, SpaceAreas
  <1>5. LaidOut(pool, LiveAreas(live) \cup SpaceAreas(pool.startfree, pool.endfree), intervals)
    BY <1>1, <1>2, <1>4 DEF LaidOut, Tiled
  <1>6. ChunksOK(intervals) /\ LargeOK(live, intervals)
    BY <1>1, <1>3 DEF ChunksOK, LargeOK
  <1>7. Remaining(pool) \in Nat /\ Remaining(pool) % 512 = 0
    BY <1>2, SMT DEF Remaining, NULL
  <1> QED BY <1>1, <1>2, <1>3, <1>5, <1>6, <1>7 DEF PoolInv, Sound, MarksSound

\* A block is asked for: a new one is handed out, or none.
LEMMA MallocSound ==
  ASSUME PoolInv, NEW n \in Requests, RocketCoMalloc(n)
  PROVE  PoolInv' /\ (HandsOut(n) \/ live' = live)
  <1>1. n \in Nat \ {0}
    BY RequestsAssumption
  <1>2. CASE n > ThirdSlot
    <2>1. ~Served(n) /\ MallocLarge(n)
      BY <1>2 DEF RocketCoMalloc, Served, ThirdSlot
    <2> QED BY <2>1, LargeSound
  <1>3. CASE ~(n > ThirdSlot)
    <2>1. Served(n)
      BY <1>1, <1>3, SMT DEF Served, ThirdSlot
    <2>2. \/ MallocFromList(n)
          \/ MallocFromSpace(n)
          \/ MallocFromSystem(n)
          \/ MallocFromLarger(n)
          \/ MallocThrows(n)
      BY <1>3 DEF RocketCoMalloc
    <2>3. CASE MallocThrows(n)
      <3>1. live' = live
        BY <2>3, Zenon DEF MallocThrows
      <3> QED BY <2>1, <2>3, <3>1, ThrowsSound
    <2> QED BY <2>1, <2>2, <2>3, FromListSound, FromSpaceSound, FromSystemSound, FromLargerSound
  <1> QED BY <1>2, <1>3

\* Every step keeps it.
LEMMA PoolStep ==
  ASSUME PoolInv, [Next]_vars
  PROVE  PoolInv'
  <1>1. CASE UNCHANGED vars
    BY <1>1 DEF vars, PoolInv, MarksSound
  <1>2. ASSUME NEW n \in Requests, RocketCoMalloc(n)
        PROVE  PoolInv'
    BY <1>2, MallocSound
  <1>3. ASSUME NEW a \in DOMAIN live, CarefulFree(a), RocketCoFree(a)
        PROVE  PoolInv'
    BY <1>3, FreeSound
  <1> QED BY <1>1, <1>2, <1>3 DEF Next

\* The memory stays divided among the program's blocks, the space in hand and the
\* blocks of the free lists, whatever is allocated and freed in any order that keeps
\* the contract CarefulFree, and the links of the free lists stay those of lists.
THEOREM PoolInvariance == CarefulSpec => []PoolInv
  <1>1. Init => PoolInv
    BY PoolInit
  <1>2. PoolInv /\ [Next]_vars => PoolInv'
    BY PoolStep
  <1> QED BY <1>1, <1>2, PTL DEF CarefulSpec

-----------------------------------------------------------------------------
(* What the invariant says *)

\* Where a block of the program is, and its length as the pool counts it.
LEMMA LiveFacts ==
  ASSUME PoolInv, NEW a \in DOMAIN live
  PROVE  a \in Nat /\ LengthOf(a) \in Nat /\ 1 <= LengthOf(a)
  <1>1. live[a] \in Nat \ {0}
    BY RequestsAssumption DEF PoolInv, Sound
  <1>2. CASE Served(live[a])
    <2> DEFINE x == Mine(a)
               others == LiveAreas(live) \cup SpaceAreas(pool.startfree, pool.endfree)
    <2>1. x = Mine(a) /\ others = LiveAreas(live) \cup SpaceAreas(pool.startfree, pool.endfree)
      OBVIOUS
    <2> HIDE DEF x, others
    <2>2. a \in Nat /\ LengthOf(a) \in Nat /\ 512 <= LengthOf(a)
      BY <1>2, <2>1, BeforeFree
    <2> QED BY <2>2
  <1>3. CASE ~Served(live[a])
    <2>1. a \in Nat
      BY <1>3, BasesAssumption DEF PoolInv, Sound, LargeOK
    <2>2. live[a] > ThirdSlot
      BY <1>1, <1>3, SMT DEF Served, ThirdSlot
    <2>3. LengthOf(a) = live[a]
      BY <2>2 DEF LengthOf, DataAlignment
    <2> QED BY <1>1, <2>1, <2>3
  <1> QED BY <1>2, <1>3

\* The invariant has the types in it.
LEMMA InvariantTypes ==
  ASSUME PoolInv
  PROVE  TypeOK
  <1>1. /\ pool \in Pools /\ Remaining(pool) \in Nat /\ Remaining(pool) % 512 = 0
        /\ intervals \subseteq Nat \X Nat
        /\ \A a \in DOMAIN live : live[a] \in Requests
        /\ ListsOK(pool.free_list, pool.node)
    BY DEF PoolInv, Sound, LaidOut
  <1>2. pool.startfree \in Nat /\ pool.endfree \in Nat
    BY <1>1 DEF Pools
  <1>3. pool.free_list \in [Lists -> DOMAIN pool.node \cup {NULL}]
    BY <1>1 DEF ListsOK, HeadsOK
  <1>4. \A a \in DOMAIN pool.node : /\ {pool.node[a].prev, pool.node[a].next} \subseteq Nat
                                    /\ Served(pool.node[a].length)
    BY <1>1, HeaderFacts DEF ListsOK, Fileable
  <1>5. marks \subseteq Nat
    <2> SUFFICES ASSUME NEW b \in marks
                 PROVE  b \in Nat
      OBVIOUS
    <2>1. PICK a \in DOMAIN live : b \in Mark(a, live[a])
      BY DEF PoolInv, MarksSound
    <2>2. b = a \/ b = a + LengthOf(a) - 1
      BY <2>1 DEF Mark, LengthOf
    <2> QED BY <2>2, LiveFacts
  <1> QED BY <1>1, <1>2, <1>3, <1>4, <1>5 DEF TypeOK

\* The variables have their types: the space is whole slots of 512 bytes, and a
\* free block is of a length that the pool serves.
THEOREM PoolTypeCorrect == CarefulSpec => []TypeOK
  <1>1. PoolInv => TypeOK
    BY InvariantTypes
  <1> QED BY <1>1, PoolInvariance, PTL

\* The invariant is about the lists as the code walks them, too.
LEMMA InvariantLists ==
  ASSUME PoolInv
  PROVE  FreeListsSound
  <1>1. ListsOK(pool.free_list, pool.node)
    BY DEF PoolInv, Sound, LaidOut
  <1> SUFFICES ASSUME NEW i \in UsedLists(pool)
               PROVE  /\ Walk(pool, i)[Cardinality(DOMAIN pool.node)] = NULL
                      /\ \A b \in BlocksIn(pool, i) :
                           LET n == pool.node[b]
                           IN /\ Index2SlotLength(i) <= n.length
                              /\ FindFreeListIndex(n.length) = i
                              /\ n.next # NULL => pool.node[n.next].prev = b
    BY DEF FreeListsSound
  <1>2. i \in Lists
    BY DEF UsedLists
  <1>3. Walk(pool, i)[Cardinality(DOMAIN pool.node)] = NULL
    BY <1>1, <1>2, WalkEnds
  <1>4. ASSUME NEW b \in BlocksIn(pool, i)
        PROVE  /\ Index2SlotLength(i) <= pool.node[b].length
               /\ FindFreeListIndex(pool.node[b].length) = i
               /\ pool.node[b].next # NULL => pool.node[pool.node[b].next].prev = b
    <2>1. b \in DOMAIN pool.node /\ ListFor(pool.node[b].length) = i
      BY <1>1, <1>2, BlocksBelong
    <2> QED BY <1>1, <2>1 DEF ListsOK, LinksOK, Fileable, ListFor
  <1> QED BY <1>3, <1>4

\* Every free list ends, is linked in both directions, and holds blocks that are
\* long enough for what RocketCoMalloc takes them for, after mallocs and frees in
\* any order that keeps the contract CarefulFree.
THEOREM FreeListsAreSound == CarefulSpec => []FreeListsSound
  <1>1. PoolInv => FreeListsSound
    BY InvariantLists
  <1> QED BY <1>1, PoolInvariance, PTL

\* A mark never outlives its block, in any order that keeps the contract CarefulFree.
THEOREM MarksAreSound == CarefulSpec => []MarksSound
  <1>1. PoolInv => MarksSound
    BY DEF PoolInv
  <1> QED BY <1>1, PoolInvariance, PTL

\* The blocks nobody has and the space, and the program's blocks, each as the
\* address where it starts and the one behind it.
FreeSpans == {<<a, a + pool.node[a].length>> : a \in DOMAIN pool.node}
                 \cup (IF Remaining(pool) = 0 THEN {} ELSE {<<pool.startfree, pool.endfree>>})
LiveSpans == {<<a, EndOf(a)>> : a \in {b \in DOMAIN live : Served(live[b])}}

\* A span is that of an area.
Spans(x, y) == x = <<From(y), To(y)>> /\ x[1] = From(y) /\ x[2] = To(y)

\* The areas whose spans these are.
LEMMA SpanAreas ==
  ASSUME PoolInv, NEW areas, areas = FreeAreas(pool.node) \cup
            (LiveAreas(live) \cup SpaceAreas(pool.startfree, pool.endfree))
  PROVE  /\ \A x \in FreeSpans : \E y \in areas : Spans(x, y) /\ y[1] # "live"
         /\ \A x \in LiveSpans : \E y \in areas : Spans(x, y) /\ y[1] = "live"
  <1>1. pool.startfree \in Nat /\ pool.endfree \in Nat
    BY DEF PoolInv, Sound, Pools
  <1>2. ASSUME NEW a \in DOMAIN pool.node
        PROVE  \E y \in areas : Spans(<<a, a + pool.node[a].length>>, y) /\ y[1] # "live"
    <2> DEFINE y == Area("free", a, pool.node[a].length)
    <2>1. y \in areas /\ y[1] # "live"
      BY DEF FreeAreas, Area
    <2>2. From(y) = a /\ To(y) = a + pool.node[a].length
      BY DEF From, To, Area
    <2> HIDE DEF y
    <2>3. Spans(<<a, a + pool.node[a].length>>, y)
      BY <2>2 DEF Spans
    <2> QED BY <2>1, <2>3
  <1>3. ASSUME Remaining(pool) # 0
        PROVE  \E y \in areas : Spans(<<pool.startfree, pool.endfree>>, y) /\ y[1] # "live"
    <2> DEFINE s == pool.startfree
               e == pool.endfree
               y == Area("space", s, e - s)
    <2>1. s # e
      BY <1>1, <1>3 DEF Remaining
    <2>2. y \in areas /\ y[1] # "live"
      BY <2>1 DEF SpaceAreas, Area
    <2>3. y[2] = s /\ y[3] = e - s
      BY DEF Area
    <2> HIDE DEF y
    <2>4. From(y) = s /\ To(y) = e
      BY <1>1, <2>3 DEF From, To
    <2>5. Spans(<<s, e>>, y)
      BY <2>4 DEF Spans
    <2> QED BY <2>2, <2>5
  <1>4. ASSUME NEW a \in DOMAIN live, Served(live[a])
        PROVE  \E y \in areas : Spans(<<a, EndOf(a)>>, y) /\ y[1] = "live"
    <2> DEFINE y == Mine(a)
    <2>1. y \in areas /\ y[1] = "live"
      BY <1>4 DEF LiveAreas, Mine, LengthOf, Area
    <2>2. From(y) = a /\ To(y) = EndOf(a)
      BY DEF From, To, Mine, Area, EndOf
    <2> HIDE DEF y
    <2>3. Spans(<<a, EndOf(a)>>, y)
      BY <2>2 DEF Spans
    <2> QED BY <2>1, <2>3
  <1>5. ASSUME NEW x \in FreeSpans
        PROVE  \E y \in areas : Spans(x, y) /\ y[1] # "live"
    BY <1>2, <1>3 DEF FreeSpans
  <1>6. ASSUME NEW x \in LiveSpans
        PROVE  \E y \in areas : Spans(x, y) /\ y[1] = "live"
    BY <1>4 DEF LiveSpans
  <1> QED BY <1>5, <1>6

\* Two spans share no byte.
Parted(x, y) == ~(x[1] < y[2] /\ y[1] < x[2])

\* Spans of different areas of a tiling.
LEMMA SpansParted ==
  ASSUME NEW areas, NEW chunks, Tiled(areas, chunks), NEW u \in areas, NEW v \in areas, u # v,
         NEW x, NEW y, Spans(x, u), Spans(y, v)
  PROVE  Parted(x, y)
  <1>1. IsArea(u) /\ IsArea(v) /\ Disjoint(u, v)
    BY DEF Tiled
  <1> QED BY <1>1 DEF Spans, Disjoint, Parted, IsArea, From, To

\* The invariant keeps everything apart.
LEMMA InvariantApart ==
  ASSUME PoolInv
  PROVE  BlocksApart
  <1> DEFINE areas == FreeAreas(pool.node) \cup
                        (LiveAreas(live) \cup SpaceAreas(pool.startfree, pool.endfree))
  <1>1. /\ \A x \in FreeSpans : \E y \in areas : Spans(x, y) /\ y[1] # "live"
        /\ \A x \in LiveSpans : \E y \in areas : Spans(x, y) /\ y[1] = "live"
    BY SpanAreas
  <1>2. Tiled(areas, intervals)
    BY DEF PoolInv, Sound, LaidOut
  <1> HIDE DEF areas
  <1>3. ASSUME NEW x \in FreeSpans \cup LiveSpans
        PROVE  InChunks(x[1], x[2])
    <2>1. PICK y \in areas : Spans(x, y)
      BY <1>1
    <2>2. IsArea(y) /\ Chunked(y, intervals) /\ intervals \subseteq Nat \X Nat
      BY <1>2, <2>1 DEF Tiled, PoolInv, Sound, LaidOut
    <2>3. From(y) \in Nat /\ From(y) < To(y)
      BY <2>2 DEF IsArea, From, To
    <2>4. ASSUME NEW p \in Nat, From(y) <= p, p < To(y)
          PROVE  \E i \in intervals : i[1] # NULL /\ i[1] <= p /\ p < i[2]
      BY <2>2, <2>4 DEF Chunked, InMemory
    <2>5. InChunks(From(y), To(y))
      BY <2>2, <2>3, <2>4 DEF InChunks
    <2> QED BY <2>1, <2>5 DEF Spans
  <1>4. ASSUME NEW x \in FreeSpans, NEW y \in FreeSpans, x # y
        PROVE  Parted(x, y)
    <2>1. PICK u \in areas : Spans(x, u)
      BY <1>1
    <2>2. PICK v \in areas : Spans(y, v)
      BY <1>1
    <2>3. u # v
      BY <1>4, <2>1, <2>2 DEF Spans
    <2> QED BY <1>2, <2>1, <2>2, <2>3, SpansParted
  <1>5. ASSUME NEW x \in FreeSpans, NEW y \in LiveSpans
        PROVE  Parted(x, y)
    <2>1. PICK u \in areas : Spans(x, u) /\ u[1] # "live"
      BY <1>1
    <2>2. PICK v \in areas : Spans(y, v) /\ v[1] = "live"
      BY <1>1
    <2>3. u # v
      BY <2>1, <2>2
    <2> QED BY <1>2, <2>1, <2>2, <2>3, SpansParted
  <1> QED BY <1>3, <1>4, <1>5, Zenon DEF BlocksApart, FreeSpans, LiveSpans, Parted

\* A free block, a block of the program and the space never overlap, and each is
\* memory of the chunks, which may adjoin: then a merge can join blocks of two of
\* them.  The frees are those that keep the contract CarefulFree.
THEOREM BlocksAreApart == CarefulSpec => []BlocksApart
  <1>1. PoolInv => BlocksApart
    BY InvariantApart
  <1> QED BY <1>1, PoolInvariance, PTL

\* A chunk of k slots in the hands of a pool whose lists are empty.
FreshChunk(k) == [startfree |-> 512, endfree |-> 512 * (k + 1),
                  free_list |-> [i \in Lists |-> NULL], node |-> << >>]

\* The heads of the lists lie in it, and suit their lists.
FitsChunk(p, k) ==
    \A i \in Lists : p.free_list[i] # NULL =>
        LET a == p.free_list[i]
        IN /\ Index2SlotLength(i) <= p.node[a].length
           /\ a + p.node[a].length <= 512 * (k + 1)

\* What UseRemaining makes of it.
LEMMA LeftoverOfChunk ==
  ASSUME NEW k \in 1 .. 256, NEW fresh, fresh = FreshChunk(k), NEW p, p = UseRemaining(fresh)
  PROVE  FitsChunk(p, k)
  <1> DEFINE end == 512 * (k + 1)
             s == Area("space", 512, end - 512)
             chunks == {<<512, end>>}
             space == SpaceAreas(512, end)
             others == {}
  <1>1. /\ end \in Nat /\ 512 < end /\ end - 512 = 512 * k /\ end - 512 \in Nat
        /\ end - 512 # 0 /\ end - 512 <= 131072 /\ (end - 512) % 512 = 0
    BY SMT
  <1>2. fresh = [startfree |-> 512, endfree |-> end, free_list |-> [j \in Lists |-> NULL], node |-> << >>]
    BY DEF FreshChunk
  <1> HIDE DEF end
  <1>3. /\ fresh \in Pools /\ fresh.startfree = 512 /\ fresh.endfree = end
        /\ ListsOK(fresh.free_list, fresh.node) /\ FreeAreas(fresh.node) = {}
    <2>1. 512 \in Nat /\ end \in Nat
      BY <1>1
    <2> QED BY ONLY <1>2, <2>1, FreshPool
  <1>4. Remaining(fresh) = end - 512
    BY <1>3 DEF Remaining
  <1>5. chunks \subseteq Nat \X Nat
    BY <1>1
  <1>6. s[1] = "space" /\ s[2] = 512 /\ s[3] = end - 512
    BY DEF Area
  <1>7. space = {s}
    BY <1>1 DEF SpaceAreas
  <1> HIDE DEF s, space
  <1>8. IsArea(s) /\ From(s) = 512 /\ To(s) = end
    BY <1>1, <1>6 DEF IsArea, From, To
  <1>9. Chunked(s, chunks)
    <2> DEFINE c == <<512, end>>
    <2>1. c \in chunks /\ c[1] = 512 /\ c[2] = end
      OBVIOUS
    <2> HIDE DEF c, chunks
    <2> QED BY <1>1, <1>8, <2>1 DEF Chunked, InMemory, NULL
  <1> DEFINE more == others \cup SpaceAreas(fresh.startfree, fresh.endfree)
  <1>10. more = {s}
    BY <1>3, <1>7 DEF space
  <1>11. LaidOut(fresh, more, chunks)
    <2>1. Tiled(FreeAreas(fresh.node) \cup more, chunks)
      <3>1. FreeAreas(fresh.node) \cup more = {s}
        BY <1>3, <1>10
      <3> HIDE DEF more, chunks
      <3> QED BY <1>8, <1>9, <3>1 DEF Tiled
    <2>2. \A x \in more : x[1] # "free"
      BY <1>6, <1>10
    <2> HIDE DEF more, chunks
    <2> QED BY <1>3, <1>5, <2>1, <2>2 DEF LaidOut
  <1>12. p \in Pools /\ LaidOut(p, others, chunks)
    <2>1. Remaining(fresh) \in Nat /\ Remaining(fresh) % 512 = 0 /\ Remaining(fresh) <= ThirdSlot
      BY <1>1, <1>4 DEF ThirdSlot
    <2>2. \A x \in others : x[1] # "space"
      OBVIOUS
    <2>3. LaidOut(fresh, others \cup SpaceAreas(fresh.startfree, fresh.endfree), chunks)
      BY <1>11
    <2>4. fresh \in Pools /\ p = UseRemaining(fresh)
      BY <1>3
    <2> HIDE DEF others, chunks
    <2> QED BY ONLY <2>1, <2>2, <2>3, <2>4, UseRemainingLaidOut
  <1>13. ListsOK(p.free_list, p.node) /\ Tiled(FreeAreas(p.node), chunks)
    BY <1>12 DEF LaidOut
  <1>14. ASSUME NEW i \in Lists, NEW a, a = p.free_list[i], a # NULL
         PROVE  Index2SlotLength(i) <= p.node[a].length /\ a + p.node[a].length <= end
    <2>1. a \in DOMAIN p.node /\ ListFor(p.node[a].length) = i
      BY <1>13, <1>14 DEF ListsOK, HeadsOK
    <2>2. Index2SlotLength(i) <= p.node[a].length
      BY <1>13, <2>1 DEF ListsOK, Fileable
    <2>3. a + p.node[a].length <= end
      <3> DEFINE x == Area("free", a, p.node[a].length)
      <3>1. x \in FreeAreas(p.node) /\ To(x) = a + p.node[a].length
        BY <2>1 DEF FreeAreas, Area, To
      <3> HIDE DEF x
      <3>2. IsArea(x) /\ Chunked(x, chunks)
        BY <1>13, <3>1 DEF Tiled
      <3>3. /\ To(x) \in Nat /\ To(x) - 1 \in Nat
            /\ From(x) <= To(x) - 1 /\ To(x) - 1 < To(x)
        BY <3>2 DEF IsArea, From, To
      <3>4. PICK c \in chunks : To(x) - 1 < c[2]
        BY <3>2, <3>3 DEF Chunked, InMemory
      <3>5. c[2] = end
        BY <3>4
      <3> QED BY <1>1, <3>1, <3>3, <3>4, <3>5
    <2> QED BY <2>2, <2>3
  <1> HIDE DEF chunks
  <1> QED BY <1>14 DEF FitsChunk, end

\* Whatever is left of a chunk, the blocks it is filed as stay inside it, each in
\* a list for blocks that are no longer.
THEOREM LeftoversAreSound == CarefulSpec => []LeftoversFit
  <1>1. ThirdSlot \div 512 = 256
    BY SMT DEF ThirdSlot
  <1>2. \A k \in 1 .. 256 : FitsChunk(UseRemaining(FreshChunk(k)), k)
    BY LeftoverOfChunk
  <1>3. \A k \in 1 .. ThirdSlot \div 512 : FitsChunk(UseRemaining(FreshChunk(k)), k)
    BY <1>1, <1>2
  <1>4. LeftoversFit
    BY <1>3, Zenon DEF LeftoversFit, FitsChunk, FreshChunk
  <1> QED BY <1>4, PTL

-----------------------------------------------------------------------------
(* A free loses nothing *)

\* The blocks of the free lists, the empty ones among them.
LEMMA FreeBlocksListed ==
  ASSUME NEW p, ListsOK(p.free_list, p.node), NEW b
  PROVE  /\ b \in FreeBlocks(p) <=> \E j \in Lists : b \in BlocksIn(p, j)
         /\ b \in FreeBlocks(p) => b \in DOMAIN p.node /\ b \in Nat /\ p.node[b].length \in Nat
  <1>1. ASSUME NEW j \in Lists, b \in BlocksIn(p, j)
        PROVE  j \in UsedLists(p)
    <2>1. ASSUME p.free_list[j] = NULL
          PROVE  FALSE
      <3> DEFINE S == {}
      <3>1. p.free_list[j] # NULL => p.free_list[j] \in S
        BY <2>1
      <3>2. \A c \in S : NextOf(p, c) # NULL => NextOf(p, c) \in S
        OBVIOUS
      <3>3. b \notin S
        OBVIOUS
      <3> HIDE DEF S
      <3>4. BlocksIn(p, j) \subseteq S
        BY <3>1, <3>2, BlocksLeast
      <3> QED BY <1>1, <3>3, <3>4
    <2> QED BY <2>1 DEF UsedLists
  <1>2. \A j \in UsedLists(p) : j \in Lists
    BY DEF UsedLists
  <1>3. b \in FreeBlocks(p) <=> \E j \in Lists : b \in BlocksIn(p, j)
    BY <1>1, <1>2 DEF FreeBlocks
  <1>4. ASSUME NEW j \in Lists, b \in BlocksIn(p, j)
        PROVE  b \in DOMAIN p.node /\ b \in Nat /\ p.node[b].length \in Nat
    <2>1. b \in DOMAIN p.node
      BY <1>4, BlocksBelong
    <2> QED BY <2>1, HeaderFacts DEF ListsOK
  <1> QED BY <1>3, <1>4

\* A block that is put into a list can be allocated from then on, and those that
\* could be still can.
LEMMA FiledReach ==
  ASSUME NEW p, ListsOK(p.free_list, p.node), NEW q, ListsOK(q.free_list, q.node),
         NEW i \in Lists, NEW a, a # NULL, NEW length, Filed(q, p, i, a, length)
  PROVE  /\ a \in FreeBlocks(q) /\ q.node[a].length = length
         /\ \A b \in FreeBlocks(p) : b \in FreeBlocks(q) /\ q.node[b].length = p.node[b].length
  <1>1. /\ q.free_list = [p.free_list EXCEPT ![i] = a]
        /\ a \in DOMAIN q.node /\ q.node[a].next = p.free_list[i] /\ q.node[a].length = length
        /\ \A b \in DOMAIN p.node : /\ b \in DOMAIN q.node /\ q.node[b].next = p.node[b].next
                                    /\ q.node[b].length = p.node[b].length
    BY DEF Filed
  <1>2. /\ a \in BlocksIn(q, i)
        /\ \A j \in Lists : BlocksIn(p, j) \subseteq BlocksIn(q, j)
    BY <1>1, PushReach
  <1>3. a \in FreeBlocks(q)
    BY <1>2, FreeBlocksListed
  <1>4. ASSUME NEW b \in FreeBlocks(p)
        PROVE  b \in FreeBlocks(q) /\ q.node[b].length = p.node[b].length
    <2>1. PICK j \in Lists : b \in BlocksIn(p, j)
      BY <1>4, FreeBlocksListed
    <2>2. b \in BlocksIn(q, j)
      BY <1>2, <2>1
    <2>3. b \in FreeBlocks(q)
      BY <2>2, FreeBlocksListed
    <2>4. b \in DOMAIN p.node
      BY <1>4, FreeBlocksListed
    <2> QED BY <1>1, <2>3, <2>4
  <1> QED BY <1>1, <1>3, <1>4

\* Where a block is taken out, the others can still be allocated.
LEMMA TakenReach ==
  ASSUME NEW p, ListsOK(p.free_list, p.node), NEW q, NEW x, TakenOut(q, p, x)
  PROVE  \A b \in FreeBlocks(p) : b # x => b \in FreeBlocks(q) /\ q.node[b].length = p.node[b].length
  <1>1. /\ ListsOK(q.free_list, q.node)
        /\ DOMAIN q.node = DOMAIN p.node \ {x}
        /\ \A b \in DOMAIN q.node : q.node[b].length = p.node[b].length
        /\ \A j \in Lists : BlocksIn(p, j) \subseteq BlocksIn(q, j) \cup {x}
    BY DEF TakenOut
  <1> SUFFICES ASSUME NEW b \in FreeBlocks(p), b # x
               PROVE  b \in FreeBlocks(q) /\ q.node[b].length = p.node[b].length
    OBVIOUS
  <1>2. PICK j \in Lists : b \in BlocksIn(p, j)
    BY FreeBlocksListed
  <1>3. b \in BlocksIn(q, j)
    BY <1>1, <1>2
  <1>4. b \in FreeBlocks(q)
    BY <1>1, <1>3, FreeBlocksListed
  <1>5. b \in DOMAIN p.node
    BY FreeBlocksListed
  <1> QED BY <1>1, <1>4, <1>5

\* What a free may not lose.
NothingLost(a, q) ==
    /\ Covered(a, EndOf(a), FreeBlocks(q), q.node)
    /\ \A b \in FreeBlocks(pool) :
           Covered(b, b + pool.node[b].length, FreeBlocks(q), q.node)

\* No block of the program's is at NULL.
LEMMA LiveIsAddress ==
  ASSUME PoolInv, NEW a \in DOMAIN live, Served(live[a])
  PROVE  a # NULL /\ a \in Nat
  <1> DEFINE x == Mine(a)
             others == LiveAreas(live) \cup SpaceAreas(pool.startfree, pool.endfree)
  <1>1. x = Mine(a) /\ others = LiveAreas(live) \cup SpaceAreas(pool.startfree, pool.endfree)
    OBVIOUS
  <1>2. x[2] = a
    BY DEF Mine, Area
  <1> HIDE DEF x, others
  <1>3. LaidOut(pool, others, intervals) /\ x \in others
    BY <1>1, BeforeFree
  <1>4. x[2] \in Addr
    BY <1>3, StartsApart
  <1> QED BY <1>2, <1>4 DEF Addr

\* It loses nothing where the block merges with neither neighbour.
LEMMA AloneKeeps ==
  ASSUME PoolInv, NEW a \in DOMAIN live, Served(live[a]), NEW q,
         q = SetBlock2FreeList(pool, a, LengthOf(a))
  PROVE  NothingLost(a, q)
  <1> DEFINE others == (LiveAreas(live) \cup SpaceAreas(pool.startfree, pool.endfree)) \ {Mine(a)}
             length == LengthOf(a)
             i == ListFor(length)
  <1>1. LaidOut(q, others, intervals) /\ Filed(q, pool, i, a, length)
    BY FreeAlone
  <1>2. ListsOK(pool.free_list, pool.node)
    BY DEF PoolInv, Sound, LaidOut
  <1>3. ListsOK(q.free_list, q.node)
    BY <1>1 DEF LaidOut
  <1>4. length \in Nat /\ a \in Nat /\ a # NULL /\ i \in Lists /\ EndOf(a) = a + length
    BY LiveIsAddress, AlignedFacts DEF LengthOf, EndOf, ListFor
  <1> HIDE DEF length, i, others
  <1>5. /\ a \in FreeBlocks(q) /\ q.node[a].length = length
        /\ \A b \in FreeBlocks(pool) : b \in FreeBlocks(q) /\ q.node[b].length = pool.node[b].length
    BY <1>1, <1>2, <1>3, <1>4, FiledReach
  <1>6. Covered(a, EndOf(a), FreeBlocks(q), q.node)
    BY <1>4, <1>5 DEF Covered
  <1>7. \A b \in FreeBlocks(pool) : b \in Nat /\ pool.node[b].length \in Nat
    BY <1>2, FreeBlocksListed
  <1>8. \A b \in FreeBlocks(pool) : Covered(b, b + pool.node[b].length, FreeBlocks(q), q.node)
    BY <1>5, <1>7 DEF Covered
  <1> QED BY <1>6, <1>8 DEF NothingLost

\* Nor where it merges with one: the two together are what the lists get.
LEMMA MergeKeeps ==
  ASSUME PoolInv, NEW a \in DOMAIN live, Served(live[a]), NEW b, NEW start, NEW total,
         MergesWith(a, b, start, total), NEW q,
         q = SetBlock2FreeList(MoveToFreeList(pool, b), start, total)
  PROVE  NothingLost(a, q)
  <1> DEFINE others == (LiveAreas(live) \cup SpaceAreas(pool.startfree, pool.endfree)) \ {Mine(a)}
             r == MoveToFreeList(pool, b)
             length == LengthOf(a)
             m == pool.node[b].length
             i == ListFor(total)
  <1>1. /\ LaidOut(q, others, intervals) /\ TakenOut(r, pool, b)
        /\ ListsOK(r.free_list, r.node) /\ Filed(q, r, i, start, total)
    BY FreeMerged
  <1>2. ListsOK(pool.free_list, pool.node)
    BY DEF PoolInv, Sound, LaidOut
  <1>3. ListsOK(q.free_list, q.node)
    BY <1>1 DEF LaidOut
  <1>4. /\ b \in DOMAIN pool.node
        /\ (start = b /\ b + m = a) \/ (start = a /\ EndOf(a) = b)
        /\ total = m + length /\ IsMerge(total) /\ EndOf(a) = a + length
    BY DEF MergesWith, EndOf
  <1>5. b \in Nat /\ b # NULL /\ m \in Nat
    BY <1>2, <1>4, HeaderFacts DEF ListsOK
  <1>6. a \in Nat /\ a # NULL /\ length \in Nat /\ 512 <= length
    BY LiveIsAddress, AlignedFacts DEF LengthOf
  <1>7. start # NULL /\ start \in Nat
    BY <1>4, <1>5, <1>6
  <1>8. i \in Lists
    <2>1. total \in Nat /\ 512 <= total
      <3> HIDE DEF m, length
      <3> QED BY <1>4, <1>5, <1>6
    <2>2. Served(total)
      BY <1>4, <2>1, SMT DEF IsMerge, Served, FirstSlot, SecondSlot, ThirdSlot
    <2> QED BY <2>1, <2>2, LongIsFileable DEF Fileable
  <1> HIDE DEF length, m, i, others, r
  <1>9. /\ start \in FreeBlocks(q) /\ q.node[start].length = total
        /\ \A c \in FreeBlocks(r) : c \in FreeBlocks(q) /\ q.node[c].length = r.node[c].length
    BY <1>1, <1>3, <1>7, <1>8, FiledReach
  <1>10. \A c \in FreeBlocks(pool) :
            c # b => c \in FreeBlocks(r) /\ r.node[c].length = pool.node[c].length
    BY <1>1, <1>2, TakenReach
  <1>11. start <= a /\ EndOf(a) <= start + total /\ start <= b /\ b + m <= start + total
    BY <1>4, <1>5, <1>6
  <1>12. Covered(a, EndOf(a), FreeBlocks(q), q.node)
    BY <1>9, <1>11 DEF Covered
  <1>13. ASSUME NEW c \in FreeBlocks(pool)
         PROVE  Covered(c, c + pool.node[c].length, FreeBlocks(q), q.node)
    <2>1. c \in Nat /\ pool.node[c].length \in Nat
      BY <1>2, FreeBlocksListed
    <2>2. CASE c = b
      BY <1>9, <1>11, <2>2 DEF Covered, m
    <2>3. CASE c # b
      BY <1>9, <1>10, <2>1, <2>3 DEF Covered
    <2> QED BY <2>2, <2>3
  <1> QED BY <1>12, <1>13 DEF NothingLost

\* RocketCoMalloc takes no block away from the program.
LEMMA MallocTakesNothing ==
  ASSUME PoolInv, NEW n \in Requests, RocketCoMalloc(n)
  PROVE  DOMAIN live \subseteq DOMAIN live'
  <1>1. ASSUME NEW a, live' = Over(At(a, n), live)
        PROVE  DOMAIN live \subseteq DOMAIN live'
    BY <1>1 DEF Over
  <1> QED BY <1>1, MallocSound DEF HandsOut

\* What could be allocated before a free that keeps the contract CarefulFree still
\* can, and the bytes given back are added to it, whether they merge with the left or
\* the right neighbour or with none.
THEOREM FreesLoseNothing == CarefulSpec => FreeLosesNothing
  <1> DEFINE A == \A a \in DOMAIN live \ DOMAIN live' : NothingLost(a, pool')
  <1>1. PoolInv /\ [Next]_vars => [A]_vars
    <2> SUFFICES ASSUME PoolInv, Next, NEW a \in DOMAIN live \ DOMAIN live'
                 PROVE  NothingLost(a, pool')
      OBVIOUS
    <2>1. \A n \in Requests : ~RocketCoMalloc(n)
      BY MallocTakesNothing
    <2>2. PICK c \in DOMAIN live : CarefulFree(c) /\ RocketCoFree(c)
      BY <2>1 DEF Next
    <2>3. /\ Served(live[c]) /\ live' = Restrict(live, DOMAIN live \ {c})
          /\ \/ pool' = SetBlock2FreeList(pool, c, LengthOf(c))
             \/ \E b, start, total :
                   /\ MergesWith(c, b, start, total)
                   /\ pool' = SetBlock2FreeList(MoveToFreeList(pool, b), start, total)
      BY <2>2, FreeSplits
    <2>4. a = c
      BY <2>3 DEF Restrict
    <2>5. CASE pool' = SetBlock2FreeList(pool, c, LengthOf(c))
      BY <2>3, <2>4, <2>5, AloneKeeps
    <2>6. ASSUME NEW b, NEW start, NEW total, MergesWith(c, b, start, total),
                 pool' = SetBlock2FreeList(MoveToFreeList(pool, b), start, total)
          PROVE  NothingLost(a, pool')
      BY <2>3, <2>4, <2>6, MergeKeeps
    <2> QED BY <2>3, <2>5, <2>6
  <1>2. CarefulSpec => [][A]_vars
    BY <1>1, PoolInvariance, PTL DEF CarefulSpec
  <1> QED BY <1>2 DEF FreeLosesNothing, NothingLost

-----------------------------------------------------------------------------
(* The pool is a heap *)

\* The blocks of the program with the lengths that the pool gives them.
Held(l) == [a \in DOMAIN l |-> DataAlignment(l[a])]

\* A block that the program gets.
LEMMA HeldGrows ==
  ASSUME NEW l, NEW a, a \notin DOMAIN l, NEW n, NEW l2, l2 = Over(At(a, n), l)
  PROVE  /\ a \in DOMAIN Held(l2) \ DOMAIN Held(l)
         /\ Held(l) = Restrict(Held(l2), DOMAIN Held(l2) \ {a})
  <1>1. /\ DOMAIN l2 = DOMAIN l \cup {a}
        /\ \A b \in DOMAIN l : l2[b] = l[b]
    BY DEF Over, At
  <1>2. DOMAIN Held(l2) = DOMAIN l \cup {a} /\ DOMAIN Held(l) = DOMAIN l
    BY <1>1 DEF Held
  <1>3. DOMAIN Held(l2) \ {a} = DOMAIN l
    BY <1>2
  <1>4. \A b \in DOMAIN l : Held(l2)[b] = DataAlignment(l[b])
    BY <1>1 DEF Held
  <1>5. Restrict(Held(l2), DOMAIN Held(l2) \ {a}) = [b \in DOMAIN l |-> Held(l2)[b]]
    BY <1>3 DEF Restrict
  <1>6. [b \in DOMAIN l |-> Held(l2)[b]] = Held(l)
    BY <1>4 DEF Held
  <1> QED BY <1>2, <1>5, <1>6

\* A block that it gives back.
LEMMA HeldShrinks ==
  ASSUME NEW l, NEW a \in DOMAIN l, NEW l2, l2 = Restrict(l, DOMAIN l \ {a})
  PROVE  a \in DOMAIN Held(l) /\ Held(l2) = Restrict(Held(l), DOMAIN Held(l) \ {a})
  <1>1. /\ DOMAIN l2 = DOMAIN l \ {a}
        /\ \A b \in DOMAIN l \ {a} : l2[b] = l[b]
    BY DEF Restrict
  <1>2. DOMAIN Held(l) = DOMAIN l
    BY DEF Held
  <1>3. \A b \in DOMAIN l \ {a} : Held(l)[b] = DataAlignment(l2[b])
    BY <1>1 DEF Held
  <1>4. Restrict(Held(l), DOMAIN Held(l) \ {a}) = [b \in DOMAIN l \ {a} |-> Held(l)[b]]
    BY <1>2 DEF Restrict
  <1>5. [b \in DOMAIN l \ {a} |-> Held(l)[b]] = Held(l2)
    BY <1>1, <1>3 DEF Held
  <1> QED BY <1>2, <1>4, <1>5

\* A block that is too long for the pool keeps its length.
LEMMA LargeLength ==
  ASSUME NEW n \in Requests, ~Served(n)
  PROVE  n > ThirdSlot /\ DataAlignment(n) = n /\ n \in Nat
  <1>1. n \in Nat \ {0}
    BY RequestsAssumption
  <1>2. n > ThirdSlot
    BY <1>1, SMT DEF Served, ThirdSlot
  <1> QED BY <1>1, <1>2 DEF DataAlignment

\* The program's blocks do not overlap, whoever provides them.
LEMMA HeldApart ==
  ASSUME NEW p, NEW l, NEW chunks, Sound(p, l, chunks), NEW a \in DOMAIN l, NEW b \in DOMAIN l, a # b
  PROVE  a + Held(l)[a] <= b \/ b + Held(l)[b] <= a
  <1> DEFINE areas == FreeAreas(p.node) \cup (LiveAreas(l) \cup SpaceAreas(p.startfree, p.endfree))
             Of(c) == Area("live", c, DataAlignment(l[c]))
  <1>1. /\ \A c \in DOMAIN l : l[c] \in Requests
        /\ ChunksOK(chunks) /\ LargeOK(l, chunks) /\ Tiled(areas, chunks)
    BY DEF Sound, LaidOut
  <1>2. /\ Held(l)[a] = DataAlignment(l[a]) /\ Held(l)[b] = DataAlignment(l[b])
    BY DEF Held
  <1>3. \A c \in DOMAIN l : Served(l[c]) =>
           /\ Of(c) \in areas /\ From(Of(c)) = c /\ To(Of(c)) = c + DataAlignment(l[c])
    BY DEF LiveAreas, Area, From, To
  <1>4. \A c, d : Of(c) = Of(d) => c = d
    BY DEF Area
  <1> HIDE DEF Of, areas
  <1>5. ASSUME NEW c \in DOMAIN l, ~Served(l[c])
        PROVE  /\ c \in Nat /\ DataAlignment(l[c]) = l[c] /\ l[c] \in Nat \ {0}
               /\ \A i \in chunks : i[1] # NULL => c + l[c] <= i[1] \/ i[2] <= c
               /\ \A d \in DOMAIN l : d # c /\ ~Served(l[d]) =>
                     c + l[c] <= d \/ d + l[d] <= c
    BY <1>1, <1>5, LargeLength, BasesAssumption DEF LargeOK
  \* A large block and one of the pool's: a byte of both would be a chunk's.
  <1>6. ASSUME NEW c \in DOMAIN l, NEW d \in DOMAIN l, ~Served(l[c]), Served(l[d])
        PROVE  c + DataAlignment(l[c]) <= d \/ d + DataAlignment(l[d]) <= c
    <2> DEFINE n == DataAlignment(l[d])
    <2> SUFFICES ASSUME ~(c + l[c] <= d \/ d + n <= c)
                 PROVE  FALSE
      BY <1>5, <1>6
    <2>1. /\ c \in Nat /\ l[c] \in Nat \ {0}
          /\ \A i \in chunks : i[1] # NULL => c + l[c] <= i[1] \/ i[2] <= c
      BY <1>5, <1>6
    <2>2. IsArea(Of(d)) /\ Chunked(Of(d), chunks) /\ From(Of(d)) = d /\ To(Of(d)) = d + n
      BY <1>1, <1>3, <1>6 DEF Tiled
    <2>3. n \in Nat
      BY <1>6, AlignedFacts
    <2> HIDE DEF n
    <2>4. d \in Nat
      BY <2>2 DEF IsArea, From
    <2>5. PICK m \in Nat : d <= m /\ m < d + n /\ c <= m /\ m < c + l[c]
      <3> DEFINE m == IF c <= d THEN d ELSE c
      <3>1. m \in Nat /\ d <= m /\ m < d + n /\ c <= m /\ m < c + l[c]
        <4>1. 0 < n
          BY <2>2, <2>3, <2>4 DEF IsArea, From, To
        <4> QED BY <2>1, <2>3, <2>4, <4>1
      <3> QED BY <3>1
    <2>6. PICK i \in chunks : i[1] # NULL /\ i[1] <= m /\ m < i[2]
      BY <2>2, <2>5 DEF Chunked, InMemory
    <2>7. i[1] \in Nat /\ i[2] \in Nat
      BY <1>1 DEF ChunksOK
    <2> QED BY <2>1, <2>5, <2>6, <2>7
  <1>7. CASE Served(l[a]) /\ Served(l[b])
    <2>1. /\ Of(a) \in areas /\ From(Of(a)) = a /\ To(Of(a)) = a + DataAlignment(l[a])
          /\ Of(b) \in areas /\ From(Of(b)) = b /\ To(Of(b)) = b + DataAlignment(l[b])
      BY <1>3, <1>7
    <2>2. Disjoint(Of(a), Of(b))
      BY <1>1, <1>4, <2>1 DEF Tiled
    <2> QED BY <1>2, <2>1, <2>2 DEF Disjoint
  <1>8. CASE ~Served(l[a]) /\ ~Served(l[b])
    BY <1>2, <1>5, <1>8
  <1>9. CASE ~Served(l[a]) /\ Served(l[b])
    BY <1>2, <1>6, <1>9
  <1>10. CASE Served(l[a]) /\ ~Served(l[b])
    BY <1>2, <1>6, <1>10
  <1> QED BY <1>7, <1>8, <1>9, <1>10

\* A step of the pool is one of the heap.
LEMMA StepIsHeap ==
  ASSUME PoolInv, [Next]_vars
  PROVE  [Blocks!Allocate \/ Blocks!Release]_([a \in DOMAIN live |-> LengthOf(a)])
  <1> DEFINE h == [a \in DOMAIN live |-> LengthOf(a)]
  <1>1. h = Held(live) /\ h' = Held(live')
    BY DEF Held, LengthOf
  <1>2. ASSUME live' = live
        PROVE  h' = h
    BY <1>1, <1>2
  <1>3. ASSUME NEW n \in Requests, NEW a, a \notin DOMAIN live, live' = Over(At(a, n), live), PoolInv'
        PROVE  Blocks!Allocate
    <2>1. a \in DOMAIN h' \ DOMAIN h /\ h = Restrict(h', DOMAIN h' \ {a})
      <3> HIDE DEF h
      <3> QED BY <1>1, <1>3, HeldGrows
    <2>2. ASSUME NEW b \in DOMAIN h
          PROVE  Blocks!Apart(a, h'[a], b, h[b])
      <3>1. Sound(pool', live', intervals')
        BY <1>3 DEF PoolInv
      <3>2. DOMAIN live' = DOMAIN live \cup {a} /\ live'[b] = live[b] /\ b \in DOMAIN live
        BY <1>3, <2>2 DEF Over, At
      <3>3. a \in DOMAIN live' /\ b \in DOMAIN live' /\ a # b
        BY <1>3, <3>2
      <3>4. a + Held(live')[a] <= b \/ b + Held(live')[b] <= a
        BY <3>1, <3>3, HeldApart
      <3>5. Held(live')[b] = Held(live)[b]
        BY <3>2, <3>3 DEF Held
      <3> HIDE DEF h
      <3> QED BY <1>1, <3>4, <3>5 DEF Blocks!Apart
    <2> QED BY <2>1, <2>2, Zenon DEF Blocks!Allocate, Blocks!Restrict, Restrict
  <1>4. ASSUME NEW a \in DOMAIN live, live' = Restrict(live, DOMAIN live \ {a})
        PROVE  Blocks!Release
    <2>1. a \in DOMAIN h /\ h' = Restrict(h, DOMAIN h \ {a})
      <3> HIDE DEF h
      <3> QED BY <1>1, <1>4, HeldShrinks
    <2> QED BY <2>1, Zenon DEF Blocks!Release, Blocks!Restrict, Restrict
  <1>5. ASSUME NEW n \in Requests, RocketCoMalloc(n)
        PROVE  Blocks!Allocate \/ h' = h
    <2>1. PoolInv' /\ (HandsOut(n) \/ live' = live)
      BY <1>5, MallocSound
    <2> HIDE DEF h
    <2> QED BY <1>2, <1>3, <2>1 DEF HandsOut
  <1>6. ASSUME NEW a \in DOMAIN live, CarefulFree(a), RocketCoFree(a)
        PROVE  Blocks!Release
    BY <1>4, <1>6 DEF RocketCoFree
  <1>7. ASSUME UNCHANGED vars
        PROVE  h' = h
    <2>1. live' = live
      BY <1>7 DEF vars
    <2> QED BY <1>2, <2>1
  <1> HIDE DEF h
  <1>8. Blocks!Allocate \/ Blocks!Release \/ h' = h
    BY <1>5, <1>6, <1>7 DEF Next
  <1> QED BY <1>8 DEF h

\* The program may rely on the heap: a block it is given overlaps none that it has,
\* whether the pool or the system's malloc provides it, and stays its own until it
\* is given back.  The frees are those that keep the contract CarefulFree.
THEOREM PoolIsHeap == CarefulSpec => ImplementsHeap
  <1>1. Init => Blocks!Init
    <2> SUFFICES ASSUME Init
                 PROVE  [a \in DOMAIN live |-> LengthOf(a)] = << >>
      BY DEF Blocks!Init
    <2>1. DOMAIN live = {}
      BY DEF Init
    <2> QED BY <2>1
  <1>2. PoolInv /\ [Next]_vars =>
           [Blocks!Allocate \/ Blocks!Release]_([a \in DOMAIN live |-> LengthOf(a)])
    BY StepIsHeap
  <1>3. CarefulSpec => Blocks!HeapSpec
    BY <1>1, <1>2, PoolInvariance, PTL DEF CarefulSpec, Blocks!HeapSpec
  <1> QED BY <1>3 DEF ImplementsHeap

=============================================================================
