--------------------------- MODULE CoSwitchProofs ---------------------------
(***************************************************************************)
(* Proofs about CoSwitch, for any number of coroutines, of shared stacks   *)
(* and of stack words.                                                     *)
(***************************************************************************)
EXTENDS CoSwitch, TLAPS

IInv == TypeOK /\ CallStackSound /\ OccupantSound /\ SavedCopySound

USE CoAssumption, StackAssumption

\* The thread starts in a state that satisfies the invariant.
LEMMA InitIInv == Init => IInv
  <1> SUFFICES ASSUME Init PROVE IInv
    OBVIOUS
  <1>1. TypeOK
    BY DEF Init, CallInit, TypeOK, Stacks, SharedStacks, Entities
  <1>2. CallStackSound
    BY DEF Init, CallInit, CallStackSound
  <1>3. OccupantSound
    BY DEF Init, CallInit, OccupantSound, Started
  <1>4. SavedCopySound
    BY DEF Init, CallInit, SavedCopySound, Started
  <1> QED BY <1>1, <1>2, <1>3, <1>4 DEF IInv


\* A shared stack is not a private one.
LEMMA Disjoint == \A s \in SharedStacks : s \notin Co
  BY DEF SharedStacks

\* What a push and a pop do to the call stack.
LEMMA PushFacts ==
  ASSUME TypeOK, NEW c \in Co, Co_CallBack' = Append(Co_CallBack, c)
  PROVE  /\ Co_CallBack' \in Seq(Entities)
         /\ Len(Co_CallBack') = Len(Co_CallBack) + 1
         /\ \A i \in 1..Len(Co_CallBack) : Co_CallBack'[i] = Co_CallBack[i]
         /\ Current' = c
  BY DEF TypeOK, Entities, Current

\* A yield leaves the resumer on top of the call stack.
LEMMA PopFacts ==
  ASSUME TypeOK, Len(Co_CallBack) > 1,
         Co_CallBack' = SubSeq(Co_CallBack, 1, Len(Co_CallBack) - 1)
  PROVE  /\ Co_CallBack' \in Seq(Entities)
         /\ Len(Co_CallBack') = Len(Co_CallBack) - 1
         /\ \A i \in 1..(Len(Co_CallBack) - 1) : Co_CallBack'[i] = Co_CallBack[i]
         /\ Current' = Resumer
         /\ Co_CallBack' # <<>>
  <1> DEFINE n == Len(Co_CallBack) - 1
  <1>1. n \in Nat /\ n \in 1..Len(Co_CallBack) /\ Co_CallBack \in Seq(Entities)
    BY DEF TypeOK
  <1>2. Co_CallBack' \in Seq(Entities) /\ Len(Co_CallBack') = n
    BY <1>1
  <1>3. \A i \in 1..n : Co_CallBack'[i] = Co_CallBack[i]
    BY <1>1
  <1>4. Current' = Co_CallBack'[n] /\ Resumer = Co_CallBack[n] /\ n \in 1..n
    BY <1>1, <1>2 DEF Current, Resumer
  <1>5. Co_CallBack' # <<>>
    <2>1. Len(Co_CallBack') # 0
      BY <1>1, <1>2
    <2>2. Len(<<>>) = 0
      OBVIOUS
    <2> QED BY <2>1, <2>2
  <1> QED BY <1>2, <1>3, <1>4, <1>5

\* Who runs, and who is below.
LEMMA RunnerFacts ==
  ASSUME IInv
  PROVE  /\ Co_CallBack # <<>> => Current \in Entities /\ Current \in OnCallStack
         /\ Len(Co_CallBack) > 1 => /\ Current \in Started \ IsEnd
                                    /\ Current \in Co
                                    /\ Resumer \in Entities
                                    /\ Resumer # Current
                                    /\ Resumer \in Co => Resumer \in Started \ IsEnd
         /\ Co_CallBack # <<>> /\ Current \in Co => Len(Co_CallBack) > 1
  <1>1. /\ Co_CallBack \in Seq(Entities)
        /\ Started \subseteq Co
        /\ Entities = Co \cup {Main} /\ Main \notin Co
    BY CoAssumption DEF IInv, TypeOK, Entities, Started
  <1>2. /\ Co_CallBack # <<>> => Co_CallBack[1] = Main
        /\ \A i \in 2..Len(Co_CallBack) : Co_CallBack[i] \in Started \ IsEnd
        /\ \A i, j \in 1..Len(Co_CallBack) : Co_CallBack[i] = Co_CallBack[j] => i = j
    BY DEF IInv, CallStackSound
  <1>3. ASSUME Co_CallBack # <<>>
        PROVE  Current \in Entities /\ Current \in OnCallStack
    BY <1>1, <1>3 DEF Current, OnCallStack
  <1>4. ASSUME Len(Co_CallBack) > 1
        PROVE  /\ Current \in Started \ IsEnd
               /\ Resumer \in Entities
               /\ Resumer # Current
               /\ Resumer \in Co => Resumer \in Started \ IsEnd
    <2>1. Len(Co_CallBack) \in 2..Len(Co_CallBack)
          /\ Len(Co_CallBack) - 1 \in 1..Len(Co_CallBack)
      BY <1>1, <1>4
    <2>2. Len(Co_CallBack) - 1 = 1 \/ Len(Co_CallBack) - 1 \in 2..Len(Co_CallBack)
      <3>1. Len(Co_CallBack) \in Nat
        BY <1>1
      <3>2. \A n \in Nat : n > 1 => n - 1 = 1 \/ n - 1 \in 2..n
        OBVIOUS
      <3> QED BY <1>4, <3>1, <3>2
    <2>3. Current \in Started \ IsEnd
      BY <1>2, <2>1 DEF Current
    <2>4. Resumer = Main \/ Resumer \in Started \ IsEnd
      BY <1>2, <1>4, <2>2 DEF Resumer
    <2>5. Resumer # Current
      <3>1. Len(Co_CallBack) \in 1..Len(Co_CallBack)
            /\ Len(Co_CallBack) # Len(Co_CallBack) - 1
        BY <1>1, <1>4
      <3> QED BY <1>2, <2>1, <3>1 DEF Current, Resumer
    <2> QED BY <1>1, <2>3, <2>4, <2>5
  <1>5. ASSUME Co_CallBack # <<>>, Current \in Co
        PROVE  Len(Co_CallBack) > 1
    BY <1>1, <1>2, <1>5 DEF Current
  <1> QED BY <1>1, <1>3, <1>4, <1>5

\* co_swap_Co leaves the switched variables well typed.
LEMMA SwapOutType ==
  ASSUME TypeOK, NEW pending \in Entities, NEW current \in Entities,
         NEW buffer \in [Stacks -> [1..StackSize -> Word]],
         SwapOut(pending, current, buffer)
  PROVE  /\ ESP' \in [Entities -> 0..StackSize]
         /\ using_Co' \in Co \cup {NoCo}
         /\ prev_Co' \in Co \cup {NoCo}
         /\ current_co' \in [Stacks -> Co \cup {NoCo}]
         /\ Used_Stack' \in [Co -> Seq(Word)]
  <1>1. ESP' \in [Entities -> 0..StackSize]
    BY DEF TypeOK, SwapOut
  <1>2. CASE pending \notin IsShareStack
    BY <1>1, <1>2 DEF TypeOK, SwapOut
  <1>3. CASE pending \in IsShareStack
    <2>1. pending \in Co /\ Csm[pending] \in Stacks
      BY <1>3 DEF TypeOK
    <2> DEFINE occupy == current_co[Csm[pending]]
    <2>2. occupy \in Co \cup {NoCo}
      BY <2>1 DEF TypeOK
    <2>3. /\ using_Co' = pending
          /\ prev_Co' = occupy
          /\ current_co' = [current_co EXCEPT ![Csm[pending]] = pending]
          /\ Used_Stack' = IF occupy \notin {NoCo, pending}
                           THEN Copy_stackMember(occupy, ESP', buffer)
                           ELSE Used_Stack
      BY <1>3 DEF SwapOut
    <2>4. occupy \in Co => [i \in 1..ESP'[occupy] |-> buffer[Csm[occupy]][i]] \in Seq(Word)
      <3> SUFFICES ASSUME occupy \in Co
                   PROVE  [i \in 1..ESP'[occupy] |-> buffer[Csm[occupy]][i]] \in Seq(Word)
        OBVIOUS
      <3>1. Csm[occupy] \in Stacks /\ ESP'[occupy] \in 0..StackSize
        BY <1>1 DEF TypeOK, Entities
      <3> HIDE DEF occupy
      <3>2. \A i \in 1..ESP'[occupy] : buffer[Csm[occupy]][i] \in Word
        BY <3>1
      <3> QED BY <3>1, <3>2
    <2>5. Used_Stack' \in [Co -> Seq(Word)]
      <3> HIDE DEF occupy
      <3> QED BY <2>2, <2>3, <2>4 DEF TypeOK, Copy_stackMember
    <2>6. current_co' \in [Stacks -> Co \cup {NoCo}]
      BY <2>1, <2>3 DEF TypeOK
    <2> QED BY <1>1, <2>1, <2>2, <2>3, <2>5, <2>6
  <1> QED BY <1>2, <1>3


-----------------------------------------------------------------------------
(* The first half of co_swap_Co *)

\* No two entities are at home on the same stack at the same time.
LEMMA OneAtHome ==
  ASSUME IInv, NEW c \in Started, NEW d \in Started,
         ~Evicted(c), ~Evicted(d), Csm[c] = Csm[d]
  PROVE  c = d
  <1>1. c \in Co /\ d \in Co /\ Co \cap SharedStacks = {}
    BY DEF IInv, TypeOK, Started, SharedStacks
  <1>2. /\ c \in IsShareStack => Csm[c] \in SharedStacks /\ current_co[Csm[c]] = c
        /\ d \in IsShareStack => Csm[d] \in SharedStacks /\ current_co[Csm[d]] = d
        /\ c \notin IsShareStack => Csm[c] = c
        /\ d \notin IsShareStack => Csm[d] = d
    BY DEF IInv, OccupantSound, Evicted, Occupies, Started
  <1> QED BY <1>1, <1>2

\* The situation in which co_swap_Co is called.  The entities other than the
\* pending one that are at home still find their words in buffer.
SwapSituation(pending, buffer) ==
    /\ IInv
    /\ pc = "run"
    /\ Co_CallBack # <<>>
    /\ pending \in Entities
    /\ pending # Current
    /\ pending \in Co => pending \in alive
    /\ buffer \in [Stacks -> [1..StackSize -> Word]]
    /\ \A c \in Started : c # pending /\ ~Evicted(c) => buffer[Csm[c]] = mem[Csm[c]]
    /\ SwapOut(pending, Current, buffer)
    /\ UNCHANGED <<Csm, IsShareStack>>

\* After co_swap_Co the ESP of every entity that has run is its stack pointer.
LEMMA SwapESP ==
  ASSUME NEW pending, NEW buffer, SwapSituation(pending, buffer)
  PROVE  \A c \in Started : ESP'[c] = rsp[c]
  BY DEF SwapSituation, IInv, TypeOK, SavedCopySound, SwapOut, Started, Entities

\* Only the occupant of the pending entity's shared stack is evicted, and all
\* its words are saved.
LEMMA SwapOthers ==
  ASSUME NEW pending, NEW buffer, SwapSituation(pending, buffer),
         NEW c \in Started, c # pending
  PROVE  /\ Evicted(c) => Evicted(c)' /\ Used_Stack'[c] = Used_Stack[c]
         /\ Evicted(c)' /\ ~Evicted(c) =>
               Used_Stack'[c] = [i \in 1..rsp[c] |-> mem[Csm[c]][i]]
         /\ ~Evicted(c)' => ~Evicted(c)
  <1>1. c \in Co /\ c \in alive /\ ESP'[c] = rsp[c] /\ rsp[c] \in 1..StackSize
    BY SwapESP DEF SwapSituation, IInv, TypeOK, SavedCopySound, Started
  <1>2. CASE pending \notin IsShareStack
    <2>1. using_Co' = NoCo /\ UNCHANGED <<current_co, Used_Stack>>
      BY <1>2 DEF SwapSituation, SwapOut
    <2> QED
      BY <1>1, <1>2, <2>1 DEF SwapSituation, Evicted, Occupies, Entities
  <1>3. CASE pending \in IsShareStack
    <2>1. pending \in Co /\ pending \in alive /\ Csm[pending] \in SharedStacks
      BY <1>3 DEF SwapSituation, IInv, TypeOK, OccupantSound
    <2> DEFINE occupy == current_co[Csm[pending]]
    <2>2. /\ using_Co' = pending
          /\ current_co' = [current_co EXCEPT ![Csm[pending]] = pending]
          /\ Used_Stack' = IF occupy \notin {NoCo, pending}
                           THEN Copy_stackMember(occupy, ESP', buffer)
                           ELSE Used_Stack
      BY <1>3 DEF SwapSituation, SwapOut
    <2>3. c # occupy => Used_Stack'[c] = Used_Stack[c]
      <3> HIDE DEF occupy
      <3> QED BY <1>1, <2>2 DEF SwapSituation, IInv, TypeOK, Copy_stackMember
    <2>4. c = occupy => Used_Stack'[c] = [i \in 1..rsp[c] |-> buffer[Csm[c]][i]]
      <3> SUFFICES ASSUME c = occupy
                   PROVE  Used_Stack'[c] = [i \in 1..rsp[c] |-> buffer[Csm[c]][i]]
        OBVIOUS
      <3> HIDE DEF occupy
      <3>1. c \notin {NoCo, pending}
        BY <1>1 DEF Entities
      <3>2. Used_Stack' = [Used_Stack EXCEPT ![c] = [i \in 1..rsp[c] |-> buffer[Csm[c]][i]]]
        BY <1>1, <2>2, <3>1 DEF Copy_stackMember
      <3> QED BY <1>1, <3>2 DEF SwapSituation, IInv, TypeOK
    <2>5. c = occupy => ~Evicted(c) /\ Csm[c] = Csm[pending]
      <3> SUFFICES ASSUME c = occupy
                   PROVE  ~Evicted(c) /\ Csm[c] = Csm[pending]
        OBVIOUS
      <3>1. current_co[Csm[pending]] = c /\ c # NoCo
        BY <1>1 DEF Entities
      <3>2. Csm[pending] \in Stacks
        BY <2>1 DEF SwapSituation, IInv, TypeOK
      <3>3. Csm[c] = Csm[pending]
        BY <3>1, <3>2 DEF SwapSituation, IInv, OccupantSound
      <3>4. Occupies(c)
        BY <3>1, <3>3 DEF Occupies
      <3> QED BY <3>3, <3>4 DEF SwapSituation, Evicted
    <2>6. c # occupy => (Evicted(c)' <=> Evicted(c))
      BY <1>1, <2>1, <2>2 DEF SwapSituation, IInv, TypeOK, OccupantSound, Evicted, Occupies,
                              Stacks, Entities
    <2>7. c = occupy => Evicted(c)'
      <3>1. c = occupy => current_co'[Csm[c]] = pending /\ c \in IsShareStack'
        BY <1>1, <2>1, <2>2, <2>5 DEF SwapSituation, IInv, TypeOK, OccupantSound,
                                      Stacks, Entities
      <3> QED BY <3>1 DEF SwapSituation, Evicted, Occupies
    <2>8. ~Evicted(c) => buffer[Csm[c]] = mem[Csm[c]]
      BY DEF SwapSituation
    <2> HIDE DEF occupy
    <2> QED
      BY <2>3, <2>4, <2>5, <2>6, <2>7, <2>8
  <1> QED BY <1>2, <1>3

\* The pending entity becomes the occupant of its shared stack, and its saved
\* copy is not touched.
LEMMA SwapPending ==
  ASSUME NEW pending, NEW buffer, SwapSituation(pending, buffer), pending \in Co
  PROVE  /\ pending \in IsShareStack => using_Co' = pending /\ Occupies(pending)'
         /\ pending \notin IsShareStack => using_Co' = NoCo
         /\ pc' = "run" => ~Evicted(pending)'
         /\ pending \in Started =>
               /\ Used_Stack'[pending] = Used_Stack[pending]
               /\ pc' = "restore" => (Evicted(pending)' <=> Evicted(pending))
  <1>1. CASE pending \notin IsShareStack
    BY <1>1 DEF SwapSituation, SwapOut, Evicted
  <1>2. CASE pending \in IsShareStack
    <2>1. pending \in alive /\ Csm[pending] \in Stacks
      BY <1>2 DEF SwapSituation, IInv, TypeOK
    <2>2. /\ using_Co' = pending
          /\ prev_Co' = current_co[Csm[pending]]
          /\ current_co' = [current_co EXCEPT ![Csm[pending]] = pending]
      BY <1>2 DEF SwapSituation, SwapOut
    <2>3. Occupies(pending)'
      BY <2>1, <2>2 DEF SwapSituation, IInv, TypeOK, Occupies
    <2>4. pc' = "run" => ~Evicted(pending)'
      BY <2>3 DEF Evicted
    <2>5. Used_Stack'[pending] = Used_Stack[pending]
      BY <1>2, <2>1 DEF SwapSituation, IInv, TypeOK, SwapOut, Copy_stackMember
    <2>6. ASSUME pending \in Started, pc' = "restore"
          PROVE  Evicted(pending)' <=> Evicted(pending)
      BY <1>2, <2>1, <2>2, <2>3, <2>6
         DEF SwapSituation, IInv, TypeOK, OccupantSound, Evicted, Occupies
    <2> QED BY <1>2, <2>2, <2>3, <2>4, <2>5, <2>6
  <1> QED BY <1>1, <1>2


-----------------------------------------------------------------------------
(* The call stack *)

\* A resume keeps the call stack sound.
LEMMA ResumeCallStack ==
  ASSUME IInv, NEW c \in Co, MayResume(c), Co_resume(c)
  PROVE  CallStackSound' /\ Current' = c /\ Len(Co_CallBack') > 1
  <1>1. /\ Co_CallBack' \in Seq(Entities)
        /\ Len(Co_CallBack') = Len(Co_CallBack) + 1
        /\ \A i \in 1..Len(Co_CallBack) : Co_CallBack'[i] = Co_CallBack[i]
        /\ Current' = c
    BY PushFacts DEF IInv, Co_resume
  <1>2. Co_CallBack'[Len(Co_CallBack')] = c
    BY <1>1 DEF Current
  <1>3. Co_CallBack \in Seq(Entities) /\ Len(Co_CallBack) \in Nat \ {0}
    BY DEF IInv, TypeOK, MayResume
  <1>4. Co_CallBack'[1] = Main
    BY <1>1, <1>3 DEF IInv, CallStackSound, MayResume
  <1>5. ASSUME NEW i \in 2..Len(Co_CallBack')
        PROVE  Co_CallBack'[i] \in Started' \ IsEnd'
    <2>1. CASE i = Len(Co_CallBack')
      BY <1>2, <2>1 DEF Co_resume, MayResume, Started
    <2>2. CASE i # Len(Co_CallBack')
      BY <1>1, <1>3, <2>2 DEF IInv, CallStackSound, Co_resume, Started
    <2> QED BY <2>1, <2>2
  <1>6. \A i \in 1..Len(Co_CallBack) : Co_CallBack[i] # c
    BY DEF MayResume, OnCallStack
  <1>7. ASSUME NEW i \in 1..Len(Co_CallBack'), NEW j \in 1..Len(Co_CallBack'),
               Co_CallBack'[i] = Co_CallBack'[j]
        PROVE  i = j
    BY <1>1, <1>2, <1>3, <1>6, <1>7 DEF IInv, CallStackSound
  <1>8. Co_CallBack' # <<>>
    <2>1. Len(Co_CallBack') # 0 /\ Len(<<>>) = 0
      BY <1>1, <1>3
    <2> QED BY <2>1
  <1>9. CallStackSound'
    BY <1>4, <1>5, <1>7, <1>8 DEF CallStackSound
  <1> QED BY <1>1, <1>3, <1>9

\* A yield, or the end of a coroutine, keeps the call stack sound.
LEMMA YieldCallStack ==
  ASSUME IInv, Co_yeild, IsEnd' \in {IsEnd, IsEnd \cup {Current}}
  PROVE  /\ CallStackSound'
         /\ Current' = Resumer
         /\ Resumer \in Co <=> Len(Co_CallBack') > 1
  <1>1. /\ Co_CallBack' \in Seq(Entities)
        /\ Len(Co_CallBack') = Len(Co_CallBack) - 1
        /\ \A i \in 1..(Len(Co_CallBack) - 1) : Co_CallBack'[i] = Co_CallBack[i]
        /\ Current' = Resumer
        /\ Co_CallBack' # <<>>
    BY PopFacts DEF IInv, Co_yeild
  <1>2. Co_CallBack \in Seq(Entities) /\ Len(Co_CallBack) \in Nat /\ Len(Co_CallBack) > 1
    <2>1. Co_CallBack \in Seq(Entities)
      BY DEF IInv, TypeOK
    <2>2. Len(Co_CallBack) > 1
      BY DEF Co_yeild
    <2> QED BY <2>1, <2>2
  <1>3. Co_CallBack'[1] = Main
    BY <1>1, <1>2 DEF IInv, CallStackSound
  <1>4. ASSUME NEW i \in 2..Len(Co_CallBack')
        PROVE  Co_CallBack'[i] \in Started' \ IsEnd'
    <2>1. i \in 2..Len(Co_CallBack) /\ i # Len(Co_CallBack)
      BY <1>1, <1>2
    <2>2. Co_CallBack[i] \in Started \ IsEnd /\ Co_CallBack[i] # Current
      BY <1>2, <2>1 DEF IInv, CallStackSound, Current
    <2> QED BY <1>1, <2>1, <2>2 DEF Co_yeild, Started
  <1>5. ASSUME NEW i \in 1..Len(Co_CallBack'), NEW j \in 1..Len(Co_CallBack'),
               Co_CallBack'[i] = Co_CallBack'[j]
        PROVE  i = j
    BY <1>1, <1>2, <1>5 DEF IInv, CallStackSound
  <1>6. CallStackSound'
    BY <1>1, <1>3, <1>4, <1>5 DEF CallStackSound
  <1>7. Resumer = Co_CallBack'[Len(Co_CallBack')]
    BY <1>1 DEF Current
  <1>8. Len(Co_CallBack') > 1 => Resumer \in Co
    <2>1. Len(Co_CallBack') > 1 => Resumer \in Started'
      BY <1>1, <1>2, <1>4, <1>7
    <2>2. Started' \subseteq Co
      BY DEF Started, Co_yeild, IInv, TypeOK
    <2> QED BY <2>1, <2>2
  <1>9. Resumer \in Co => Len(Co_CallBack') > 1
    BY <1>1, <1>2, <1>3, <1>7
  <1> QED BY <1>1, <1>6, <1>8, <1>9

-----------------------------------------------------------------------------
(* The actions *)

\* A switch to an entity that has run before.
LEMMA SwitchBackIInv ==
  ASSUME NEW pending, SwapSituation(pending, mem),
         pending \in Co => pending \in Started,
         CallStackSound',
         Co_CallBack' \in Seq(Entities),
         Current' = pending,
         Len(Co_CallBack') > 1 <=> pending \in Co,
         pc' = "restore",
         IsEnd' \in SUBSET Co,
         UNCHANGED <<alive, ISstart, rsp, alloc_idx, mem>>
  PROVE  IInv'
  <1>1. TypeOK'
    <2>1. Current \in Entities
      BY RunnerFacts DEF SwapSituation
    <2>2. SwapOut(pending, Current, mem) /\ pending \in Entities /\ TypeOK
          /\ mem \in [Stacks -> [1..StackSize -> Word]]
      BY DEF SwapSituation, IInv
    <2>3. /\ ESP' \in [Entities -> 0..StackSize]
          /\ using_Co' \in Co \cup {NoCo}
          /\ prev_Co' \in Co \cup {NoCo}
          /\ current_co' \in [Stacks -> Co \cup {NoCo}]
          /\ Used_Stack' \in [Co -> Seq(Word)]
      BY <2>1, <2>2, SwapOutType
    <2> QED BY <2>2, <2>3 DEF TypeOK, SwapSituation
  <1>2. OccupantSound'
    <2>1. CASE pending \notin IsShareStack
      <3>1. UNCHANGED current_co
        BY <2>1 DEF SwapSituation, SwapOut
      <3> QED BY <3>1 DEF SwapSituation, IInv, OccupantSound, Started
    <2>2. CASE pending \in IsShareStack
      <3>1. /\ pending \in Started
            /\ current_co' = [current_co EXCEPT ![Csm[pending]] = pending]
        BY <2>2 DEF SwapSituation, SwapOut, IInv, TypeOK
      <3>2. pending \in Co /\ Csm[pending] \in Stacks
        BY <3>1 DEF SwapSituation, IInv, TypeOK, Started
      <3>3. \A s \in Stacks :
              current_co'[s] = IF s = Csm[pending] THEN pending ELSE current_co[s]
        BY <3>1 DEF SwapSituation, IInv, TypeOK
      <3>4. \A c \in Started : Csm[c] \in Stacks
        BY DEF SwapSituation, IInv, TypeOK, Started
      <3>5. UNCHANGED <<Started, alive, Csm, IsShareStack>>
        BY DEF SwapSituation, Started
      <3>6. OccupantSound /\ pending # NoCo
        BY <3>2 DEF SwapSituation, IInv, Entities
      <3>7. ASSUME NEW s \in Stacks, current_co'[s] # NoCo
            PROVE  current_co'[s] \in Started \cap IsShareStack /\ Csm[current_co'[s]] = s
        BY <2>2, <3>1, <3>3, <3>6, <3>7 DEF OccupantSound
      <3>8. ASSUME NEW c \in Started \cap IsShareStack
            PROVE  current_co'[Csm[c]] # NoCo
        BY <3>3, <3>4, <3>6 DEF OccupantSound
      <3>9. \A c \in alive : IF c \in IsShareStack THEN Csm[c] \in SharedStacks
                                                   ELSE Csm[c] = c
        BY <3>6 DEF OccupantSound
      <3> HIDE DEF Started
      <3> QED BY <3>5, <3>7, <3>8, <3>9 DEF OccupantSound
    <2> QED BY <2>1, <2>2
  <1>3. SavedCopySound'
    <2>1. UNCHANGED Started
      BY DEF Started
    <2>2. ASSUME NEW c \in Started
          PROVE  /\ rsp'[c] \in 1..StackSize
                 /\ Evicted(c)' => Len(Used_Stack'[c]) = rsp'[c]
                 /\ c # Current' \/ pc' = "restore" => ESP'[c] = rsp'[c]
                 /\ ~Evicted(c)' => mem'[Csm'[c]][1] = Entry
                 /\ Evicted(c)' => Used_Stack'[c][1] = Entry
      <3>1. /\ ESP'[c] = rsp[c]
            /\ rsp[c] \in 1..StackSize
            /\ Evicted(c) => Len(Used_Stack[c]) = rsp[c]
            /\ ~Evicted(c) => mem[Csm[c]][1] = Entry
            /\ Evicted(c) => Used_Stack[c][1] = Entry
        BY SwapESP DEF SwapSituation, IInv, SavedCopySound
      <3>2. CASE c = pending
        <4>1. c \in Co
          BY DEF Started, SwapSituation, IInv, TypeOK
        <4>2. /\ Used_Stack'[c] = Used_Stack[c]
              /\ Evicted(c)' <=> Evicted(c)
          BY <3>2, <4>1, SwapPending
        <4> QED BY <3>1, <4>2 DEF SwapSituation
      <3>3. CASE c # pending
        <4>1. /\ Evicted(c) => Evicted(c)' /\ Used_Stack'[c] = Used_Stack[c]
              /\ Evicted(c)' /\ ~Evicted(c) =>
                    Used_Stack'[c] = [i \in 1..rsp[c] |-> mem[Csm[c]][i]]
              /\ ~Evicted(c)' => ~Evicted(c)
          BY <3>3, SwapOthers
        <4>2. CASE Evicted(c)' /\ ~Evicted(c)
          <5>1. Used_Stack'[c] = [i \in 1..rsp[c] |-> mem[Csm[c]][i]] /\ 1 \in 1..rsp[c]
            BY <3>1, <4>1, <4>2
          <5>2. \A i \in 1..rsp[c] : mem[Csm[c]][i] \in Word
            <6>1. Csm[c] \in Stacks /\ rsp[c] \in 0..StackSize
              BY <3>1 DEF SwapSituation, IInv, TypeOK, Started, Entities
            <6>2. mem[Csm[c]] \in [1..StackSize -> Word]
              BY <6>1 DEF SwapSituation, IInv, TypeOK
            <6> QED BY <6>1, <6>2
          <5>3. Len(Used_Stack'[c]) = rsp[c] /\ Used_Stack'[c][1] = mem[Csm[c]][1]
            BY <3>1, <5>1, <5>2
          <5> QED BY <3>1, <4>2, <5>3
        <4>3. CASE ~(Evicted(c)' /\ ~Evicted(c))
          BY <3>1, <4>1, <4>3 DEF SwapSituation
        <4> QED BY <4>2, <4>3
      <3> QED BY <3>2, <3>3
    <2>3. Len(Co_CallBack') > 1 /\ Current' \in IsShareStack' =>
            /\ Occupies(Current)'
            /\ using_Co' = Current'
      BY SwapPending DEF SwapSituation, Occupies
    <2>4. using_Co' # NoCo =>
            Len(Co_CallBack') > 1 /\ using_Co' = Current' /\ Current' \in IsShareStack'
      <3>1. pending \notin Co => using_Co' = NoCo
        BY DEF SwapSituation, IInv, TypeOK, SwapOut
      <3> QED BY <3>1, SwapPending DEF SwapSituation
    <2> QED BY <2>1, <2>2, <2>3, <2>4 DEF SavedCopySound
  <1> QED BY <1>1, <1>2, <1>3 DEF IInv


\* Resuming a coroutine that has yielded calls co_swap_Co as described above.
LEMMA ResumeAgainSituation ==
  ASSUME IInv, NEW c \in Co, ResumeAgain(c)
  PROVE  SwapSituation(c, mem) /\ c \in Started
  <1>1. MayResume(c) /\ c \in ISstart /\ SwapOut(c, Current, mem) /\ pc = "run"
        /\ UNCHANGED <<Csm, IsShareStack>>
    BY DEF ResumeAgain
  <1>2. Current # c
    BY <1>1, RunnerFacts DEF MayResume
  <1> QED BY <1>1, <1>2 DEF SwapSituation, MayResume, Started, IInv, TypeOK, Entities

\* Resuming a coroutine that has yielded preserves the invariant.
LEMMA ResumeAgainIInv ==
  ASSUME IInv, NEW c \in Co, ResumeAgain(c)
  PROVE  IInv'
  <1>1. SwapSituation(c, mem) /\ c \in Started
    BY ResumeAgainSituation
  <1>2. MayResume(c) /\ Co_resume(c) /\ c \in ISstart /\ pc' = "restore"
        /\ UNCHANGED <<rsp, alloc_idx, mem>>
    BY DEF ResumeAgain
  <1>3. CallStackSound' /\ Current' = c /\ Len(Co_CallBack') > 1
    BY <1>2, ResumeCallStack
  <1>4. Co_CallBack' \in Seq(Entities)
    BY <1>2, PushFacts DEF IInv, Co_resume
  <1>5. UNCHANGED <<alive, ISstart, IsEnd>> /\ IsEnd' \in SUBSET Co
    BY <1>2 DEF Co_resume, IInv, TypeOK
  <1> QED BY <1>1, <1>2, <1>3, <1>4, <1>5, SwitchBackIInv

\* Co_yeild, in the coroutine's function or behind its end.
YieldOrEnd == pc = "run" /\ Co_yeild /\ SwapToResumer /\ IsEnd' \in {IsEnd, IsEnd \cup {Current}}

\* So do a yield and an end.
LEMMA YieldSituation ==
  ASSUME IInv, YieldOrEnd
  PROVE  SwapSituation(Resumer, mem) /\ (Resumer \in Co => Resumer \in Started)
  <1>1. Len(Co_CallBack) > 1 /\ SwapOut(Resumer, Current, mem) /\ pc = "run"
        /\ UNCHANGED <<Csm, IsShareStack>>
    BY DEF YieldOrEnd, Co_yeild, SwapToResumer
  <1>2. Resumer \in Entities /\ Resumer # Current /\ (Resumer \in Co => Resumer \in Started)
    BY <1>1, RunnerFacts
  <1>3. Co_CallBack # <<>>
    BY <1>1
  <1> QED BY <1>1, <1>2, <1>3 DEF SwapSituation, Started, IInv, TypeOK

\* A yield and an end preserve the invariant.
LEMMA YieldIInv ==
  ASSUME IInv, YieldOrEnd
  PROVE  IInv'
  <1>1. SwapSituation(Resumer, mem) /\ (Resumer \in Co => Resumer \in Started)
    BY YieldSituation
  <1>2. Co_yeild /\ pc' = "restore" /\ IsEnd' \in {IsEnd, IsEnd \cup {Current}}
        /\ UNCHANGED <<rsp, alloc_idx, mem>>
    BY DEF YieldOrEnd, SwapToResumer
  <1>3. /\ CallStackSound'
        /\ Current' = Resumer
        /\ Resumer \in Co <=> Len(Co_CallBack') > 1
    BY <1>2, YieldCallStack
  <1>4. Co_CallBack' \in Seq(Entities)
    BY <1>2, PopFacts DEF IInv, Co_yeild
  <1>5. IsEnd' \in SUBSET Co
    <2>1. Len(Co_CallBack) > 1
      BY <1>2 DEF Co_yeild
    <2>2. Current \in Co
      BY <2>1, RunnerFacts
    <2>3. IsEnd \in SUBSET Co
      BY DEF IInv, TypeOK
    <2> QED BY <1>2, <2>2, <2>3
  <1>6. UNCHANGED <<alive, ISstart>>
    BY <1>2 DEF Co_yeild
  <1> QED BY <1>1, <1>2, <1>3, <1>4, <1>5, <1>6, SwitchBackIInv

\* A yield and an end differ only in IsEnd.
LEMMA YieldIsYieldOrEnd == Yield \/ Finish => YieldOrEnd
  BY DEF Yield, Finish, YieldOrEnd, YieldInFun, Co_realRunningFunEnd, Co_yeild

\* The first resume: co_swap_make only writes a word that is Entry already for
\* whoever is at home on the stack.
LEMMA ResumeFirstSituation ==
  ASSUME IInv, NEW c \in Co, ResumeFirst(c)
  PROVE  /\ SwapSituation(c, mem')
         /\ mem' = [mem EXCEPT ![Csm[c]] = [@ EXCEPT ![1] = Entry]]
         /\ c \in alive /\ c \notin Started
  <1>1. /\ MayResume(c) /\ c \notin ISstart /\ SwapOut(c, Current, mem') /\ pc = "run"
        /\ UNCHANGED <<Csm, IsShareStack>>
        /\ mem' = [mem EXCEPT ![Csm[c]] = [@ EXCEPT ![1] = Entry]]
    BY DEF ResumeFirst, co_swap_make
  <1>2. Current # c
    BY <1>1, RunnerFacts DEF MayResume
  <1>3. mem' \in [Stacks -> [1..StackSize -> Word]]
    BY <1>1 DEF IInv, TypeOK
  <1>4. ASSUME NEW d \in Started, ~Evicted(d)
        PROVE  mem'[Csm[d]] = mem[Csm[d]]
    <2>1. Csm[d] \in Stacks /\ mem[Csm[d]] \in [1..StackSize -> Word]
      BY DEF IInv, TypeOK, Started
    <2>2. mem[Csm[d]][1] = Entry
      BY <1>4 DEF IInv, SavedCopySound
    <2>3. [mem[Csm[d]] EXCEPT ![1] = Entry] = mem[Csm[d]]
      BY <2>1, <2>2
    <2> QED BY <1>1, <2>1, <2>3 DEF IInv, TypeOK
  <1> QED BY <1>1, <1>2, <1>3, <1>4 DEF SwapSituation, MayResume, Started, Entities

\* The first resume of a coroutine preserves the invariant.
LEMMA ResumeFirstIInv ==
  ASSUME IInv, NEW c \in Co, ResumeFirst(c)
  PROVE  IInv'
  <1>1. /\ SwapSituation(c, mem')
        /\ mem' = [mem EXCEPT ![Csm[c]] = [@ EXCEPT ![1] = Entry]]
        /\ c \in alive /\ c \notin Started
    BY ResumeFirstSituation
  <1>2. /\ MayResume(c) /\ Co_resume(c) /\ pc' = "run"
        /\ rsp' = [rsp EXCEPT ![c] = 1]
        /\ UNCHANGED <<Csm, IsShareStack, alloc_idx>>
    BY DEF ResumeFirst, co_swap_make
  <1>3. CallStackSound' /\ Current' = c /\ Len(Co_CallBack') > 1
    BY <1>2, ResumeCallStack
  <1>4. UNCHANGED <<alive, IsEnd>> /\ ISstart' = ISstart \cup {c}
        /\ Started' = Started \cup {c}
    BY <1>1, <1>2 DEF Co_resume, Started
  <1>5. c \in Entities /\ Current \in Entities /\ Csm[c] \in Stacks
        /\ mem' \in [Stacks -> [1..StackSize -> Word]]
    BY <1>1, <1>2, RunnerFacts DEF IInv, TypeOK, SwapSituation
  <1>6. TypeOK'
    <2>1. Co_CallBack' \in Seq(Entities)
      BY <1>2, PushFacts DEF IInv, Co_resume
    <2>2. /\ ESP' \in [Entities -> 0..StackSize]
          /\ using_Co' \in Co \cup {NoCo}
          /\ prev_Co' \in Co \cup {NoCo}
          /\ current_co' \in [Stacks -> Co \cup {NoCo}]
          /\ Used_Stack' \in [Co -> Seq(Word)]
      BY <1>1, <1>5, SwapOutType DEF SwapSituation, IInv
    <2>3. rsp' \in [Entities -> 0..StackSize]
      BY <1>2, <1>5 DEF IInv, TypeOK
    <2> QED BY <1>2, <1>4, <1>5, <2>1, <2>2, <2>3 DEF IInv, TypeOK
  <1>7. OccupantSound'
    <2>1. \A d \in alive' : IF d \in IsShareStack' THEN Csm'[d] \in SharedStacks
                                                  ELSE Csm'[d] = d
      BY <1>2, <1>4 DEF IInv, OccupantSound
    <2>2. CASE c \notin IsShareStack
      <3>1. UNCHANGED current_co
        BY <1>1, <2>2 DEF SwapSituation, SwapOut
      <3> QED BY <1>2, <1>4, <2>1, <2>2, <3>1 DEF IInv, OccupantSound
    <2>3. CASE c \in IsShareStack
      <3>1. current_co' = [current_co EXCEPT ![Csm[c]] = c]
        BY <1>1, <2>3 DEF SwapSituation, SwapOut
      <3>2. \A s \in Stacks : current_co'[s] = IF s = Csm[c] THEN c ELSE current_co[s]
        BY <3>1 DEF IInv, TypeOK
      <3>3. \A d \in Started : Csm[d] \in Stacks
        BY DEF IInv, TypeOK, Started
      <3>4. OccupantSound /\ c # NoCo
        BY <1>5 DEF IInv
      <3>5. ASSUME NEW s \in Stacks, current_co'[s] # NoCo
            PROVE  current_co'[s] \in Started' \cap IsShareStack' /\ Csm'[current_co'[s]] = s
        BY <1>2, <1>4, <2>3, <3>2, <3>4, <3>5 DEF OccupantSound
      <3>6. ASSUME NEW d \in Started' \cap IsShareStack'
            PROVE  current_co'[Csm'[d]] # NoCo
        BY <1>2, <1>4, <1>5, <3>2, <3>3, <3>4 DEF OccupantSound
      <3> QED BY <2>1, <3>5, <3>6 DEF OccupantSound
    <2> QED BY <2>2, <2>3
  <1>8. SavedCopySound'
    <2>1. ASSUME NEW d \in Started'
          PROVE  /\ rsp'[d] \in 1..StackSize
                 /\ Evicted(d)' => Len(Used_Stack'[d]) = rsp'[d]
                 /\ d # Current' \/ pc' = "restore" => ESP'[d] = rsp'[d]
                 /\ ~Evicted(d)' => mem'[Csm'[d]][1] = Entry
                 /\ Evicted(d)' => Used_Stack'[d][1] = Entry
      <3>1. CASE d = c
        <4>1. ~Evicted(d)'
          BY <1>1, <1>2, <3>1, SwapPending
        <4>2. mem'[Csm[c]][1] = Entry
          BY <1>1, <1>5 DEF IInv, TypeOK
        <4>3. rsp'[c] = 1
          BY <1>2, <1>5 DEF IInv, TypeOK
        <4> QED BY <1>2, <1>3, <3>1, <4>1, <4>2, <4>3
      <3>2. CASE d # c
        <4>1. d \in Started
          BY <1>4, <3>2
        <4>2. /\ ESP'[d] = rsp[d]
              /\ rsp[d] \in 1..StackSize
              /\ Evicted(d) => Len(Used_Stack[d]) = rsp[d]
              /\ ~Evicted(d) => mem[Csm[d]][1] = Entry
              /\ Evicted(d) => Used_Stack[d][1] = Entry
          BY <1>1, <4>1, SwapESP DEF IInv, SavedCopySound
        <4>3. rsp'[d] = rsp[d]
          BY <1>2, <3>2, <4>1 DEF IInv, TypeOK, Started, Entities
        <4>4. /\ Evicted(d) => Evicted(d)' /\ Used_Stack'[d] = Used_Stack[d]
              /\ Evicted(d)' /\ ~Evicted(d) =>
                    Used_Stack'[d] = [i \in 1..rsp[d] |-> mem[Csm[d]][i]]
              /\ ~Evicted(d)' => ~Evicted(d)
          BY <1>1, <3>2, <4>1, SwapOthers
        <4>5. ~Evicted(d) => mem'[Csm[d]] = mem[Csm[d]]
          BY <1>1, <3>2, <4>1 DEF SwapSituation
        <4>6. CASE Evicted(d)' /\ ~Evicted(d)
          <5>1. Used_Stack'[d] = [i \in 1..rsp[d] |-> mem[Csm[d]][i]] /\ 1 \in 1..rsp[d]
            BY <4>2, <4>4, <4>6
          <5>2. \A i \in 1..rsp[d] : mem[Csm[d]][i] \in Word
            BY <4>1, <4>2 DEF IInv, TypeOK, Started
          <5>3. Len(Used_Stack'[d]) = rsp[d] /\ Used_Stack'[d][1] = mem[Csm[d]][1]
            BY <4>2, <5>1, <5>2
          <5> QED BY <4>2, <4>3, <4>6, <5>3
        <4>7. CASE ~(Evicted(d)' /\ ~Evicted(d))
          BY <1>2, <4>2, <4>3, <4>4, <4>5, <4>7
        <4> QED BY <4>6, <4>7
      <3> QED BY <3>1, <3>2
    <2>2. Current' \in IsShareStack' => Occupies(Current)'
      BY <1>1, <1>2, <1>3, SwapPending DEF Occupies
    <2> QED BY <1>2, <2>1, <2>2 DEF SavedCopySound
  <1> QED BY <1>3, <1>6, <1>7, <1>8 DEF IInv


\* Restore puts the runner's words back in its own stack, and nothing else.
LEMMA RestoreMem ==
  ASSUME IInv, Restore
  PROVE  /\ mem' \in [Stacks -> [1..StackSize -> Word]]
         /\ \A d \in Started : ~Evicted(d) => mem'[Csm[d]] = mem[Csm[d]]
         /\ \A d \in Started : Evicted(d) /\ Occupies(d) =>
               \A k \in 1..rsp[d] : mem'[Csm[d]][k] = Used_Stack[d][k]
  <1> DEFINE r == using_Co
             back == /\ r # NoCo
                     /\ prev_Co # NoCo
                     /\ r # prev_Co
                     /\ Len(Used_Stack[r]) > 0
  <1>1. pc = "restore" /\ mem' = IF back THEN CopyBack(r) ELSE mem
    BY DEF Restore
  <1>2. TypeOK
    BY DEF IInv
  <1>3. r # NoCo => Len(Co_CallBack) > 1 /\ r = Current /\ r \in Started /\ r \in Co
    BY <1>1, RunnerFacts DEF IInv, SavedCopySound
  <1>4. \A d \in Started : d \in Co /\ Csm[d] \in Stacks
    BY <1>2 DEF TypeOK, Started
  <1>5. ASSUME NEW d \in Started, Evicted(d), Occupies(d)
        PROVE  d = r /\ back
    <2>1. d = r /\ prev_Co \notin {NoCo, d} /\ d # NoCo
      BY <1>4, <1>5 DEF Evicted, Entities
    <2>2. Len(Used_Stack[d]) = rsp[d] /\ rsp[d] \in 1..StackSize
      BY <1>5 DEF IInv, SavedCopySound
    <2> QED BY <2>1, <2>2
  <1>6. CASE ~back
    <2>1. mem' = mem
      BY <1>1, <1>6
    <2> HIDE DEF back
    <2> QED BY <1>2, <1>5, <1>6, <2>1 DEF TypeOK
  <1>7. CASE back
    <2>1. r \in Started /\ r \in Co /\ Csm[r] \in Stacks
      BY <1>3, <1>4, <1>7
    <2>2. ASSUME r \in IsShareStack
          PROVE  Evicted(r) /\ Occupies(r)
      <3>1. Occupies(r)
        BY <1>3, <1>7, <2>2 DEF IInv, SavedCopySound, Occupies
      <3> QED BY <1>1, <1>7, <2>2, <3>1 DEF Evicted
    <2>3. r \in IsShareStack
      BY <1>1, <1>3, <1>7 DEF IInv, SavedCopySound
    <2>4. /\ Len(Used_Stack[r]) = rsp[r] /\ ESP[r] = rsp[r] /\ rsp[r] \in 1..StackSize
      BY <1>1, <2>1, <2>2, <2>3 DEF IInv, SavedCopySound
    <2> DEFINE new == [i \in 1..StackSize |->
                         LET k == i + Len(Used_Stack[r]) - ESP[r]
                         IN  IF k \in 1..Len(Used_Stack[r]) THEN Used_Stack[r][k]
                                                            ELSE mem[Csm[r]][i]]
    <2>5. mem' = [mem EXCEPT ![Csm[r]] = new]
      BY <1>1, <1>7 DEF CopyBack
    <2>6. Used_Stack[r] \in Seq(Word) /\ mem[Csm[r]] \in [1..StackSize -> Word]
      BY <1>2, <2>1 DEF TypeOK
    <2>7. ASSUME NEW i \in 1..StackSize
          PROVE  new[i] = IF i \in 1..rsp[r] THEN Used_Stack[r][i] ELSE mem[Csm[r]][i]
      <3>1. i + Len(Used_Stack[r]) - ESP[r] = i
        BY <2>4
      <3> QED BY <2>4, <3>1
    <2> HIDE DEF new
    <2>8. new \in [1..StackSize -> Word]
      <3>1. ASSUME NEW i \in 1..StackSize
            PROVE  new[i] \in Word
        <4>1. Used_Stack[r] \in [1..rsp[r] -> Word]
          BY <2>4, <2>6
        <4>2. CASE i \in 1..rsp[r]
          BY <2>7, <4>1, <4>2
        <4>3. CASE i \notin 1..rsp[r]
          BY <2>6, <2>7, <4>3
        <4> QED BY <4>2, <4>3
      <3>2. new = [i \in 1..StackSize |-> new[i]]
        BY DEF new
      <3> QED BY <3>1, <3>2
    <2>9. \A k \in 1..rsp[r] : new[k] = Used_Stack[r][k]
      <3>1. \A k \in 1..rsp[r] : k \in 1..StackSize
        BY <2>4
      <3> QED BY <2>7, <3>1
    <2>10. mem' \in [Stacks -> [1..StackSize -> Word]] /\ mem'[Csm[r]] = new
      BY <1>2, <2>1, <2>5, <2>8 DEF TypeOK
    <2>11. ASSUME NEW d \in Started, ~Evicted(d)
           PROVE  mem'[Csm[d]] = mem[Csm[d]]
      <3>1. Csm[d] # Csm[r]
        BY <1>4, <2>1, <2>2, <2>3, <2>11, Disjoint
           DEF IInv, OccupantSound, Evicted, Occupies, Started
      <3> QED BY <1>2, <1>4, <2>5, <3>1 DEF TypeOK
    <2>12. ASSUME NEW d \in Started, Evicted(d), Occupies(d)
           PROVE  \A k \in 1..rsp[d] : mem'[Csm[d]][k] = Used_Stack[d][k]
      <3>1. d = r
        BY <1>5, <2>12
      <3> QED BY <2>9, <2>10, <3>1
    <2> QED BY <2>10, <2>11, <2>12
  <1> QED BY <1>6, <1>7


\* Putting the words back preserves the invariant.
LEMMA RestoreIInv ==
  ASSUME IInv, Restore
  PROVE  IInv'
  <1>1. /\ pc = "restore" /\ pc' = "run"
        /\ UNCHANGED <<callVars, entityVars, alloc_idx, current_co, using_Co, prev_Co>>
    BY DEF Restore
  <1>2. /\ mem' \in [Stacks -> [1..StackSize -> Word]]
        /\ \A d \in Started : ~Evicted(d) => mem'[Csm[d]] = mem[Csm[d]]
        /\ \A d \in Started : Evicted(d) /\ Occupies(d) =>
              \A k \in 1..rsp[d] : mem'[Csm[d]][k] = Used_Stack[d][k]
    BY RestoreMem
  <1>3. UNCHANGED <<Co_CallBack, alive, ISstart, IsEnd, IsShareStack, Csm, rsp, ESP,
                    Used_Stack, alloc_idx, current_co, using_Co, prev_Co>>
    BY <1>1 DEF callVars, entityVars
  <1>4. TypeOK'
    BY <1>1, <1>2, <1>3 DEF IInv, TypeOK
  <1>5. CallStackSound' /\ OccupantSound'
    BY <1>3 DEF IInv, CallStackSound, OccupantSound, Started
  <1>6. SavedCopySound'
    <2>1. UNCHANGED <<Started, Current>>
      BY <1>3 DEF Started, Current
    <2>2. ASSUME NEW d \in Started
          PROVE  /\ rsp'[d] \in 1..StackSize
                 /\ Evicted(d)' => Len(Used_Stack'[d]) = rsp'[d]
                 /\ d # Current' \/ pc' = "restore" => ESP'[d] = rsp'[d]
                 /\ ~Evicted(d)' => mem'[Csm'[d]][1] = Entry
                 /\ Evicted(d)' => Used_Stack'[d][1] = Entry
      <3>1. /\ rsp[d] \in 1..StackSize
            /\ Evicted(d) => Len(Used_Stack[d]) = rsp[d]
            /\ ESP[d] = rsp[d]
            /\ ~Evicted(d) => mem[Csm[d]][1] = Entry
            /\ Evicted(d) => Used_Stack[d][1] = Entry
        BY <1>1 DEF IInv, SavedCopySound
      <3>2. Evicted(d)' => Evicted(d)
        BY <1>1, <1>3 DEF Evicted, Occupies
      <3>3. Evicted(d) /\ ~Evicted(d)' => Occupies(d)
        BY <1>1, <1>3 DEF Evicted, Occupies
      <3>4. 1 \in 1..rsp[d]
        BY <3>1
      <3>5. ~Evicted(d)' => mem'[Csm[d]][1] = Entry
        BY <1>2, <3>1, <3>3, <3>4
      <3> QED BY <1>3, <3>1, <3>2, <3>5
    <2>3. Len(Co_CallBack) > 1 /\ Current \in IsShareStack => Occupies(Current)'
      BY <1>3, <2>1 DEF IInv, SavedCopySound, Occupies
    <2> QED BY <1>1, <1>3, <2>1, <2>2, <2>3 DEF SavedCopySound
  <1> QED BY <1>4, <1>5, <1>6 DEF IInv

\* The runner has its stack to itself.
LEMMA RunnerAtHome ==
  ASSUME IInv, pc = "run", Len(Co_CallBack) > 1
  PROVE  /\ Current \in Started /\ Current \in Co
         /\ ~Evicted(Current)
         /\ Csm[Current] \in Stacks
         /\ rsp[Current] \in 1..StackSize
         /\ \A d \in Started : d # Current /\ ~Evicted(d) => Csm[d] # Csm[Current]
  <1>1. Current \in Started /\ Current \in Co
    BY RunnerFacts
  <1>2. ~Evicted(Current)
    BY DEF IInv, SavedCopySound, Evicted
  <1>3. Csm[Current] \in Stacks /\ rsp[Current] \in 1..StackSize
    BY <1>1 DEF IInv, TypeOK, SavedCopySound
  <1> QED BY <1>1, <1>2, <1>3, OneAtHome

\* What the coroutine's own code may change.
OwnStep ==
    /\ pc = "run"
    /\ Len(Co_CallBack) > 1
    /\ rsp' \in [Entities -> 0..StackSize]
    /\ rsp'[Current] \in 1..StackSize
    /\ \A d \in Co : d # Current => rsp'[d] = rsp[d]
    /\ mem' \in [Stacks -> [1..StackSize -> Word]]
    /\ \A s \in Stacks : s # Csm[Current] => mem'[s] = mem[s]
    /\ mem'[Csm[Current]][1] = Entry
    /\ UNCHANGED <<Co_CallBack, alive, ISstart, IsEnd, IsShareStack, Csm, ESP, Used_Stack,
                   alloc_idx, current_co, using_Co, prev_Co, pc>>

\* A call only touches the stack of the coroutine that makes it.
LEMMA CallIsOwnStep ==
  ASSUME IInv, NEW w \in Word, Call(w)
  PROVE  /\ OwnStep
         /\ rsp'[Current] = rsp[Current] + 1
         /\ \A i \in 1..rsp[Current] : mem'[Csm[Current]][i] = mem[Csm[Current]][i]
         /\ mem'[Csm[Current]][rsp[Current] + 1] = w
  <1>1. /\ pc = "run" /\ Len(Co_CallBack) > 1 /\ rsp[Current] < StackSize
        /\ rsp' = [rsp EXCEPT ![Current] = rsp[Current] + 1]
        /\ mem' = [mem EXCEPT ![Csm[Current]] =
                      [@ EXCEPT ![rsp[Current] + 1] = w]]
        /\ UNCHANGED <<Co_CallBack, alive, ISstart, IsEnd, IsShareStack, Csm, ESP, Used_Stack,
                       alloc_idx, current_co, using_Co, prev_Co, pc>>
    BY DEF Call, callVars, envVars
  <1>2. /\ Current \in Started /\ Current \in Co /\ Csm[Current] \in Stacks
        /\ rsp[Current] \in 1..StackSize /\ ~Evicted(Current)
    BY <1>1, RunnerAtHome
  <1>3. /\ mem[Csm[Current]] \in [1..StackSize -> Word] /\ mem[Csm[Current]][1] = Entry
        /\ TypeOK
    BY <1>2 DEF IInv, TypeOK, SavedCopySound
  <1>4. rsp'[Current] = rsp[Current] + 1 /\ rsp[Current] + 1 \in 2..StackSize
        /\ rsp' \in [Entities -> 0..StackSize]
        /\ \A d \in Co : d # Current => rsp'[d] = rsp[d]
    <2>1. rsp \in [Entities -> 0..StackSize] /\ Co \subseteq Entities
      BY <1>3 DEF TypeOK, Entities
    <2>2. rsp[Current] + 1 \in 2..StackSize /\ rsp[Current] + 1 \in 0..StackSize
      BY <1>1, <1>2
    <2> QED BY <1>1, <1>2, <2>1, <2>2
  <1>5. [mem[Csm[Current]] EXCEPT ![rsp[Current] + 1] = w] \in [1..StackSize -> Word]
    BY <1>3
  <1>6. /\ mem'[Csm[Current]] = [mem[Csm[Current]] EXCEPT ![rsp[Current] + 1] = w]
        /\ mem' \in [Stacks -> [1..StackSize -> Word]]
        /\ \A s \in Stacks : s # Csm[Current] => mem'[s] = mem[s]
    BY <1>1, <1>2, <1>3, <1>5 DEF TypeOK
  <1>7. /\ mem'[Csm[Current]][1] = Entry
        /\ \A i \in 1..rsp[Current] : mem'[Csm[Current]][i] = mem[Csm[Current]][i]
        /\ mem'[Csm[Current]][rsp[Current] + 1] = w
    BY <1>2, <1>3, <1>4, <1>6
  <1> QED BY <1>1, <1>2, <1>4, <1>6, <1>7 DEF OwnStep

\* So does a return.
LEMMA ReturnIsOwnStep ==
  ASSUME IInv, Return
  PROVE  OwnStep /\ rsp'[Current] = rsp[Current] - 1 /\ mem' = mem
  <1>1. /\ pc = "run" /\ Len(Co_CallBack) > 1 /\ rsp[Current] > 1
        /\ rsp' = [rsp EXCEPT ![Current] = rsp[Current] - 1]
        /\ UNCHANGED <<Co_CallBack, alive, ISstart, IsEnd, IsShareStack, Csm, ESP, Used_Stack,
                       alloc_idx, current_co, mem, using_Co, prev_Co, pc>>
    BY DEF Return, callVars, envVars, stackVars
  <1>2. /\ Current \in Started /\ Current \in Co /\ Csm[Current] \in Stacks
        /\ rsp[Current] \in 1..StackSize /\ ~Evicted(Current)
    BY <1>1, RunnerAtHome
  <1>3. mem[Csm[Current]][1] = Entry /\ TypeOK
    BY <1>2 DEF IInv, SavedCopySound
  <1>4. rsp'[Current] = rsp[Current] - 1 /\ rsp[Current] - 1 \in 1..StackSize
        /\ rsp' \in [Entities -> 0..StackSize]
        /\ \A d \in Co : d # Current => rsp'[d] = rsp[d]
    <2>1. rsp \in [Entities -> 0..StackSize] /\ Co \subseteq Entities
      BY <1>3 DEF TypeOK, Entities
    <2>2. rsp[Current] - 1 \in 1..StackSize /\ rsp[Current] - 1 \in 0..StackSize
      BY <1>1, <1>2
    <2> QED BY <1>1, <1>2, <2>1, <2>2
  <1> QED BY <1>1, <1>3, <1>4 DEF OwnStep, TypeOK

\* Calls and returns preserve the invariant.
LEMMA OwnStepIInv ==
  ASSUME IInv, OwnStep
  PROVE  IInv'
  <1>1. /\ Current \in Started /\ Current \in Co
        /\ ~Evicted(Current)
        /\ Csm[Current] \in Stacks
        /\ \A d \in Started : d # Current /\ ~Evicted(d) => Csm[d] # Csm[Current]
    BY RunnerAtHome DEF OwnStep
  <1>2. TypeOK'
    BY DEF IInv, TypeOK, OwnStep
  <1>3. CallStackSound' /\ OccupantSound'
    BY DEF IInv, CallStackSound, OccupantSound, Started, OwnStep
  <1>4. SavedCopySound'
    <2>1. UNCHANGED <<Started, Current>> /\ pc' = "run"
      BY DEF Started, Current, OwnStep
    <2>2. ASSUME NEW d \in Started
          PROVE  /\ rsp'[d] \in 1..StackSize
                 /\ Evicted(d)' => Len(Used_Stack'[d]) = rsp'[d]
                 /\ d # Current' \/ pc' = "restore" => ESP'[d] = rsp'[d]
                 /\ ~Evicted(d)' => mem'[Csm'[d]][1] = Entry
                 /\ Evicted(d)' => Used_Stack'[d][1] = Entry
      <3>1. Evicted(d)' <=> Evicted(d)
        BY DEF Evicted, Occupies, OwnStep
      <3>2. d \in Co /\ Csm[d] \in Stacks
        BY DEF Started, IInv, TypeOK
      <3>3. /\ rsp[d] \in 1..StackSize
            /\ Evicted(d) => Len(Used_Stack[d]) = rsp[d]
            /\ d # Current => ESP[d] = rsp[d]
            /\ ~Evicted(d) => mem[Csm[d]][1] = Entry
            /\ Evicted(d) => Used_Stack[d][1] = Entry
        BY DEF IInv, SavedCopySound
      <3>4. CASE d = Current
        BY <1>1, <2>1, <3>1, <3>4 DEF OwnStep
      <3>5. CASE d # Current
        BY <1>1, <2>1, <3>1, <3>2, <3>3, <3>5 DEF OwnStep
      <3> QED BY <3>4, <3>5
    <2>3. Len(Co_CallBack) > 1 /\ Current \in IsShareStack => Occupies(Current)'
      BY <2>1 DEF IInv, SavedCopySound, Occupies, OwnStep
    <2>4. UNCHANGED <<Co_CallBack, IsShareStack>>
      BY DEF OwnStep
    <2> QED BY <2>1, <2>2, <2>3, <2>4 DEF SavedCopySound
  <1> QED BY <1>2, <1>3, <1>4 DEF IInv


\* Creating an entity does not touch the entities that have started.
LEMMA CreateFacts ==
  ASSUME IInv, NEW c \in Co, NEW shared \in BOOLEAN, Create(c, shared)
  PROVE  /\ Started' = Started /\ c \notin Started /\ Started \subseteq Co
         /\ Co_CallBack # <<>> => UNCHANGED Co_CallBack
         /\ Co_CallBack = <<>> => Co_CallBack' = <<Main>> /\ Started = {}
         /\ UNCHANGED <<current_co, mem, using_Co, prev_Co, pc>>
         /\ \A d \in Co : d # c => /\ Csm'[d] = Csm[d]
                                   /\ Used_Stack'[d] = Used_Stack[d]
                                   /\ d \in IsShareStack' <=> d \in IsShareStack
                                   /\ rsp'[d] = rsp[d]
                                   /\ ESP'[d] = ESP[d]
         /\ \A d \in Started : Evicted(d)' <=> Evicted(d)
  <1>1. /\ c \notin alive
        /\ Co_CallBack' = EnvAfterInit
        /\ alive' = alive \cup {c}
        /\ ISstart' = ISstart \ {c}
        /\ pc = "run"
        /\ UNCHANGED <<mem, using_Co, prev_Co, pc>>
        /\ current_co' = IF shared THEN current_co ELSE [current_co EXCEPT ![c] = NoCo]
        /\ IsShareStack' = IF shared THEN IsShareStack \cup {c} ELSE IsShareStack \ {c}
        /\ Csm' = [Csm EXCEPT ![c] = StackOf(c, shared)]
        /\ Used_Stack' = [Used_Stack EXCEPT ![c] = <<>>]
        /\ rsp' = [rsp EXCEPT ![c] = 0]
        /\ ESP' = [ESP EXCEPT ![c] = 0]
    BY DEF Create, Co_Create, envVars
  <1>2. TypeOK
    BY DEF IInv
  <1>3. Started' = Started /\ c \notin Started /\ Started \subseteq Co
    BY <1>1, <1>2 DEF Started, TypeOK
  <1>4. Co_CallBack # <<>> => UNCHANGED Co_CallBack
    BY <1>1 DEF EnvAfterInit
  <1>5. Co_CallBack = <<>> => Co_CallBack' = <<Main>> /\ Started = {}
    BY <1>1 DEF EnvAfterInit, IInv, CallStackSound, Started
  <1>6. current_co[c] = NoCo
    <2>1. c \in Stacks /\ c \notin SharedStacks
      BY Disjoint DEF Stacks
    <2>2. current_co[c] # NoCo => current_co[c] \in Started \cap IsShareStack
                                  /\ Csm[current_co[c]] = c
      BY <2>1 DEF IInv, OccupantSound
    <2>3. \A d \in Started \cap IsShareStack : Csm[d] \in SharedStacks
      BY DEF IInv, OccupantSound, Started
    <2> QED BY <2>1, <2>2, <2>3
  <1>7. UNCHANGED current_co
    <2>1. c \in Stacks /\ current_co \in [Stacks -> Co \cup {NoCo}]
      BY <1>2 DEF Stacks, TypeOK
    <2>2. [current_co EXCEPT ![c] = NoCo] = current_co
      BY <1>6, <2>1
    <2> QED BY <1>1, <2>2
  <1>8. \A d \in Co : d # c => /\ Csm'[d] = Csm[d]
                               /\ Used_Stack'[d] = Used_Stack[d]
                               /\ d \in IsShareStack' <=> d \in IsShareStack
                               /\ rsp'[d] = rsp[d]
                               /\ ESP'[d] = ESP[d]
    BY <1>1, <1>2 DEF TypeOK, Entities
  <1>9. \A d \in Started : Evicted(d)' <=> Evicted(d)
    <2> SUFFICES ASSUME NEW d \in Started PROVE Evicted(d)' <=> Evicted(d)
      OBVIOUS
    <2>1. d \in Co /\ d # c /\ Csm'[d] = Csm[d] /\ (d \in IsShareStack' <=> d \in IsShareStack)
      BY <1>3, <1>8
    <2> QED BY <1>1, <1>7, <2>1 DEF Evicted, Occupies
  <1> QED BY <1>1, <1>3, <1>4, <1>5, <1>7, <1>8, <1>9

\* Creating a coroutine preserves the invariant.
LEMMA CreateIInv ==
  ASSUME IInv, NEW c \in Co, NEW shared \in BOOLEAN, Create(c, shared)
  PROVE  IInv'
  <1>1. /\ Started' = Started /\ c \notin Started /\ Started \subseteq Co
        /\ Co_CallBack # <<>> => UNCHANGED Co_CallBack
        /\ Co_CallBack = <<>> => Co_CallBack' = <<Main>> /\ Started = {}
        /\ UNCHANGED <<current_co, mem, using_Co, prev_Co, pc>>
        /\ \A d \in Co : d # c => /\ Csm'[d] = Csm[d]
                                  /\ Used_Stack'[d] = Used_Stack[d]
                                  /\ d \in IsShareStack' <=> d \in IsShareStack
                                  /\ rsp'[d] = rsp[d]
                                  /\ ESP'[d] = ESP[d]
        /\ \A d \in Started : Evicted(d)' <=> Evicted(d)
    BY CreateFacts
  <1>2. /\ c \notin alive
        /\ alive' = alive \cup {c}
        /\ ISstart' = ISstart \ {c}
        /\ IsEnd' = IsEnd \ {c}
        /\ IsShareStack' = IF shared THEN IsShareStack \cup {c} ELSE IsShareStack \ {c}
        /\ Csm' = [Csm EXCEPT ![c] = StackOf(c, shared)]
        /\ alloc_idx' = IF shared THEN (alloc_idx + 1) % AllocMod ELSE alloc_idx
        /\ Used_Stack' = [Used_Stack EXCEPT ![c] = <<>>]
        /\ rsp' = [rsp EXCEPT ![c] = 0]
        /\ ESP' = [ESP EXCEPT ![c] = 0]
        /\ pc = "run"
    BY DEF Create, Co_Create, envVars
  <1>3. TypeOK
    BY DEF IInv
  <1>4. /\ StackOf(c, shared) \in Stacks
        /\ IF shared THEN StackOf(c, shared) \in SharedStacks ELSE StackOf(c, shared) = c
    <2>1. alloc_idx \in Nat /\ Count \in Nat \ {0}
      BY <1>3 DEF TypeOK
    <2>2. alloc_idx % Count \in SharedStacks
      BY <2>1 DEF SharedStacks
    <2> QED BY <2>2 DEF StackOf, Stacks
  <1>5. TypeOK'
    <2>1. alloc_idx' \in 0..(AllocMod - 1)
      <3>1. alloc_idx + 1 \in Nat /\ AllocMod \in Nat \ {0}
        BY <1>3 DEF TypeOK
      <3>2. (alloc_idx + 1) % AllocMod \in 0..(AllocMod - 1)
        BY <3>1
      <3> QED BY <1>2, <1>3, <3>2 DEF TypeOK
    <2>2. Co_CallBack' \in Seq(Entities)
      <3>1. <<Main>> \in Seq(Entities)
        BY DEF Entities
      <3> QED BY <1>1, <1>3, <3>1 DEF TypeOK
    <2>3. Csm' \in [Co -> Stacks]
      BY <1>2, <1>3, <1>4 DEF TypeOK
    <2>4. Used_Stack' \in [Co -> Seq(Word)]
      <3>1. <<>> \in Seq(Word)
        OBVIOUS
      <3> QED BY <1>2, <1>3, <3>1 DEF TypeOK
    <2>5. rsp' \in [Entities -> 0..StackSize] /\ ESP' \in [Entities -> 0..StackSize]
      <3>1. 0 \in 0..StackSize
        OBVIOUS
      <3>2. rsp \in [Entities -> 0..StackSize] /\ ESP \in [Entities -> 0..StackSize]
        BY <1>3 DEF TypeOK
      <3>3. rsp' \in [Entities -> 0..StackSize]
        BY <1>2, <3>1, <3>2
      <3>4. ESP' \in [Entities -> 0..StackSize]
        BY <1>2, <3>1, <3>2
      <3> QED BY <3>3, <3>4
    <2>6. /\ alive' \in SUBSET Co /\ ISstart' \in SUBSET Co /\ IsEnd' \in SUBSET Co
          /\ IsShareStack' \in SUBSET Co
      BY <1>2, <1>3 DEF TypeOK
    <2> QED BY <1>1, <1>3, <2>1, <2>2, <2>3, <2>4, <2>5, <2>6 DEF TypeOK
  <1>6. CallStackSound'
    <2>1. CASE Co_CallBack = <<>>
      <3>1. Co_CallBack' = <<Main>>
        BY <1>1, <2>1
      <3>2. Co_CallBack' # <<>> /\ Co_CallBack'[1] = Main /\ Len(Co_CallBack') = 1
        BY <3>1
      <3> QED BY <3>2 DEF CallStackSound
    <2>2. CASE Co_CallBack # <<>>
      BY <1>1, <1>2, <2>2 DEF IInv, CallStackSound
    <2> QED BY <2>1, <2>2
  <1>7. OccupantSound'
    <2>1. ASSUME NEW d \in alive'
          PROVE  IF d \in IsShareStack' THEN Csm'[d] \in SharedStacks ELSE Csm'[d] = d
      <3>1. CASE d = c
        BY <1>2, <1>3, <1>4, <3>1 DEF TypeOK
      <3>2. CASE d # c
        BY <1>1, <1>2, <1>3, <3>2 DEF IInv, TypeOK, OccupantSound
      <3> QED BY <3>1, <3>2
    <2>2. ASSUME NEW s \in Stacks, current_co'[s] # NoCo
          PROVE  current_co'[s] \in Started' \cap IsShareStack' /\ Csm'[current_co'[s]] = s
      <3>1. current_co[s] \in Started \cap IsShareStack /\ Csm[current_co[s]] = s
        BY <1>1, <2>2 DEF IInv, OccupantSound
      <3>2. current_co[s] \in Co /\ current_co[s] # c
        BY <1>1, <3>1
      <3> QED BY <1>1, <3>1, <3>2
    <2>3. ASSUME NEW d \in Started' \cap IsShareStack'
          PROVE  current_co'[Csm'[d]] # NoCo
      <3>1. d \in Started /\ d \in Co /\ d # c
        BY <1>1
      <3> QED BY <1>1, <3>1 DEF IInv, OccupantSound
    <2> QED BY <2>1, <2>2, <2>3 DEF OccupantSound
  <1>8. SavedCopySound'
    <2>1. Co_CallBack # <<>> => UNCHANGED Current
      BY <1>1 DEF Current
    <2>2. ASSUME NEW d \in Started'
          PROVE  /\ rsp'[d] \in 1..StackSize
                 /\ Evicted(d)' => Len(Used_Stack'[d]) = rsp'[d]
                 /\ d # Current' \/ pc' = "restore" => ESP'[d] = rsp'[d]
                 /\ ~Evicted(d)' => mem'[Csm'[d]][1] = Entry
                 /\ Evicted(d)' => Used_Stack'[d][1] = Entry
      <3>1. d \in Started /\ d \in Co /\ d # c /\ Co_CallBack # <<>>
        BY <1>1
      <3> QED BY <1>1, <2>1, <3>1 DEF IInv, SavedCopySound
    <2>3. Len(Co_CallBack') > 1 => Co_CallBack # <<>> /\ UNCHANGED <<Co_CallBack, Current>>
      <3>1. CASE Co_CallBack = <<>>
        <4>1. Len(Co_CallBack') = Len(<<Main>>) /\ Len(<<Main>>) = 1
          BY <1>1, <3>1
        <4> QED BY <4>1
      <3>2. CASE Co_CallBack # <<>>
        BY <1>1, <2>1, <3>2
      <3> QED BY <3>1, <3>2
    <2>4. Len(Co_CallBack') > 1 /\ Current' \in IsShareStack' => Occupies(Current)'
      <3> SUFFICES ASSUME Len(Co_CallBack') > 1, Current' \in IsShareStack'
                   PROVE  Occupies(Current)'
        OBVIOUS
      <3>1. Current' = Current /\ Current \in Started /\ Len(Co_CallBack) > 1
        BY <2>3, RunnerFacts
      <3>2. Current \in Co /\ Current # c
        BY <1>1, <3>1
      <3>3. Occupies(Current)
        BY <1>1, <3>1, <3>2 DEF IInv, SavedCopySound
      <3> QED BY <1>1, <3>1, <3>2, <3>3 DEF Occupies
    <2>5. pc' = "run"
      BY <1>1, <1>2
    <2> QED BY <2>2, <2>4, <2>5 DEF SavedCopySound
  <1> QED BY <1>5, <1>6, <1>7, <1>8 DEF IInv

\* Deleting a coroutine that occupies no stack preserves the invariant.
LEMMA FreeIInv ==
  ASSUME IInv, NEW c \in Co, FreeUnoccupied(c)
  PROVE  IInv'
  <1>1. /\ ~Occupies(c) /\ c \in alive /\ c \notin OnCallStack /\ pc = "run"
        /\ alive' = alive \ {c}
        /\ UNCHANGED <<Co_CallBack, ISstart, IsEnd, IsShareStack, Csm, rsp, ESP, Used_Stack,
                       alloc_idx, current_co, mem, using_Co, prev_Co, pc>>
    BY DEF FreeUnoccupied, Free, FreeCo_Entity, entityVars, stackVars, envVars
  <1>2. Started' = Started \ {c} /\ UNCHANGED Current
    BY <1>1 DEF Started, Current
  <1>3. TypeOK'
    BY <1>1 DEF IInv, TypeOK
  <1>4. CallStackSound'
    <2>1. Co_CallBack \in Seq(Entities)
      BY DEF IInv, TypeOK
    <2>2. \A i \in 1..Len(Co_CallBack) : Co_CallBack[i] # c
      BY <1>1 DEF OnCallStack
    <2>3. \A i \in 2..Len(Co_CallBack) : Co_CallBack[i] # c
      BY <2>1, <2>2
    <2> QED BY <1>1, <1>2, <2>3 DEF IInv, CallStackSound
  <1>5. OccupantSound'
    <2>1. \A s \in Stacks : current_co[s] = c => current_co[s] = NoCo
      BY <1>1 DEF IInv, OccupantSound, Occupies
    <2> QED BY <1>1, <1>2, <2>1 DEF IInv, OccupantSound
  <1>6. SavedCopySound'
    <2>1. \A d \in Started : Evicted(d)' <=> Evicted(d)
      BY <1>1 DEF Evicted, Occupies
    <2>2. Occupies(Current)' <=> Occupies(Current)
      BY <1>1, <1>2 DEF Occupies
    <2> QED BY <1>1, <1>2, <2>1, <2>2 DEF IInv, SavedCopySound
  <1> QED BY <1>3, <1>4, <1>5, <1>6 DEF IInv

\* A step that changes nothing preserves the invariant.
LEMMA StutterIInv ==
  ASSUME IInv, UNCHANGED vars
  PROVE  IInv'
  <1> USE DEF vars, callVars, entityVars, stackVars, envVars
  <1>1. TypeOK' /\ CallStackSound' /\ OccupantSound'
    BY DEF IInv, TypeOK, CallStackSound, OccupantSound, Started
  <1>2. SavedCopySound'
    BY DEF IInv, SavedCopySound, Started, Current, Evicted, Occupies
  <1> QED BY <1>1, <1>2 DEF IInv

\* The invariant is inductive.
LEMMA NextIInv ==
  ASSUME IInv, [Next]_vars
  PROVE  IInv'
  <1>1. ASSUME NEW c \in Co, NEW shared \in BOOLEAN, Create(c, shared) PROVE IInv'
    BY <1>1, CreateIInv
  <1>2. ASSUME NEW c \in Co, ResumeFirst(c) PROVE IInv'
    BY <1>2, ResumeFirstIInv
  <1>3. ASSUME NEW c \in Co, ResumeAgain(c) PROVE IInv'
    BY <1>3, ResumeAgainIInv
  <1>4. CASE Yield \/ Finish
    BY <1>4, YieldIsYieldOrEnd, YieldIInv
  <1>5. CASE Restore
    BY <1>5, RestoreIInv
  <1>6. ASSUME NEW w \in Word, Call(w) PROVE IInv'
    BY <1>6, CallIsOwnStep, OwnStepIInv
  <1>7. CASE Return
    BY <1>7, ReturnIsOwnStep, OwnStepIInv
  <1>8. ASSUME NEW c \in Co, FreeUnoccupied(c) PROVE IInv'
    BY <1>8, FreeIInv
  <1>9. CASE UNCHANGED vars
    BY <1>9, StutterIInv
  <1> QED BY <1>1, <1>2, <1>3, <1>4, <1>5, <1>6, <1>7, <1>8, <1>9 DEF Next, Switches

\* The four invariants hold in every reachable state, whatever the number of
\* coroutines and shared stacks and the size of a stack.
THEOREM Invariance == Spec => []IInv
  <1>1. Init => IInv
    BY InitIInv
  <1>2. IInv /\ [Next]_vars => IInv'
    BY NextIInv
  <1> QED BY <1>1, <1>2, PTL DEF Spec

\* Every variable of the coroutine core keeps its type.
THEOREM TypeCorrect == Spec => []TypeOK
  <1>1. IInv => TypeOK
    BY DEF IInv
  <1> QED BY <1>1, Invariance, PTL

\* co_swap_Co always has a live, started entity to go back to.
THEOREM CallStackIsSound == Spec => []CallStackSound
  <1>1. IInv => CallStackSound
    BY DEF IInv
  <1> QED BY <1>1, Invariance, PTL

\* Who occupies a shared stack is alive and has run on it.
THEOREM OccupantIsSound == Spec => []OccupantSound
  <1>1. IInv => OccupantSound
    BY DEF IInv
  <1> QED BY <1>1, Invariance, PTL

\* An evicted entity has a complete saved copy, and ESP says where it belongs.
THEOREM SavedCopyIsSound == Spec => []SavedCopySound
  <1>1. IInv => SavedCopySound
    BY DEF IInv
  <1> QED BY <1>1, Invariance, PTL


\* Whom co_swap_Co evicts has run on the stack and lives.
LEMMA SwapEvicts ==
  ASSUME NEW pending, NEW buffer, SwapSituation(pending, buffer)
  PROVE  prev_Co' # NoCo => prev_Co' \in alive
  <1>1. SwapOut(pending, Current, buffer) /\ pending \in Entities /\ IInv
    BY DEF SwapSituation
  <1>2. CASE pending \notin IsShareStack
    BY <1>1, <1>2 DEF SwapOut
  <1>3. CASE pending \in IsShareStack
    <2>1. prev_Co' = current_co[Csm[pending]] /\ Csm[pending] \in Stacks
      BY <1>1, <1>3 DEF SwapOut, IInv, TypeOK
    <2> QED BY <1>1, <2>1 DEF IInv, OccupantSound, Started
  <1> QED BY <1>2, <1>3

\* Every switch evicts a living entity, or nobody.
LEMMA NextEvicts ==
  ASSUME IInv, [Next]_vars, SwitchStep, prev_Co' \notin {NoCo, using_Co'}
  PROVE  prev_Co' \in alive
  <1>1. ASSUME NEW c \in Co, ResumeFirst(c) PROVE prev_Co' \in alive
    BY <1>1, ResumeFirstSituation, SwapEvicts
  <1>2. ASSUME NEW c \in Co, ResumeAgain(c) PROVE prev_Co' \in alive
    BY <1>2, ResumeAgainSituation, SwapEvicts
  <1>3. CASE Yield \/ Finish
    BY <1>3, YieldIsYieldOrEnd, YieldSituation, SwapEvicts
  <1>4. ASSUME NEW c \in Co, (\E shared \in BOOLEAN : Create(c, shared)) \/ FreeUnoccupied(c)
        PROVE  FALSE
    BY <1>4 DEF Create, Co_Create, EnvAfterInit, FreeUnoccupied, Free, FreeCo_Entity, SwitchStep
  <1>5. CASE Restore \/ Return \/ (\E w \in Word : Call(w)) \/ UNCHANGED vars
    BY <1>5 DEF Restore, Return, Call, vars, callVars, SwitchStep
  <1> QED BY <1>1, <1>2, <1>3, <1>4, <1>5 DEF Next, Switches

\* If no entity is deleted while it occupies its stack, co_swap_Co never copies
\* the words of a deleted entity, however the stacks are shared.
THEOREM EvictionsAreOfTheLiving == Spec => EvictsLiveEntity
  <1>1. ASSUME IInv, [Next]_vars
        PROVE  [SwitchStep /\ prev_Co' \notin {NoCo, using_Co'} => prev_Co' \in alive]_vars
    BY <1>1, NextEvicts
  <1> QED BY <1>1, Invariance, PTL DEF Spec, EvictsLiveEntity

-----------------------------------------------------------------------------
(* CoSwitch implements PrivateStacks *)

\* The i-th word of c's frame, in the stack or in the saved copy.
WordAt(c, i) == IF Evicted(c) THEN Used_Stack[c][i] ELSE mem[Csm[c]][i]

\* The frame of an entity that has run, word by word.
LEMMA ViewStarted ==
  ASSUME NEW c \in Co
  PROVE  /\ c \in Started => FrameView[c] = [i \in 1..rsp[c] |-> WordAt(c, i)]
         /\ c \notin Started => FrameView[c] = <<>>
         /\ c \in Started' => FrameView'[c] = [i \in 1..rsp'[c] |-> WordAt(c, i)']
         /\ c \notin Started' => FrameView'[c] = <<>>
  BY DEF FrameView, WordAt

\* A frame whose words and length do not change does not change.
LEMMA ViewKept ==
  ASSUME NEW c \in Co,
         c \in Started' <=> c \in Started,
         c \in Started => rsp'[c] = rsp[c],
         c \in Started => \A i \in 1..rsp[c] : WordAt(c, i)' = WordAt(c, i)
  PROVE  FrameView'[c] = FrameView[c]
  <1>1. CASE c \in Started
    <2>1. FrameView[c] = [i \in 1..rsp[c] |-> WordAt(c, i)]
      BY <1>1, ViewStarted
    <2>2. FrameView'[c] = [i \in 1..rsp'[c] |-> WordAt(c, i)']
      BY <1>1, ViewStarted
    <2> QED BY <1>1, <2>1, <2>2
  <1>2. CASE c \notin Started
    BY <1>2, ViewStarted
  <1> QED BY <1>1, <1>2

\* The frames are a function on the coroutines.
LEMMA ViewIsFunction ==
  /\ FrameView = [c \in Co |-> FrameView[c]]
  /\ FrameView' = [c \in Co |-> FrameView'[c]]
  BY DEF FrameView

\* A frame has as many words as the entity has in use.
LEMMA FrameLength ==
  ASSUME IInv, NEW c \in Started
  PROVE  Len(FrameView[c]) = rsp[c] /\ FrameView[c] \in Seq(Word)
  <1>1. c \in Co /\ rsp[c] \in 1..StackSize /\ Used_Stack[c] \in Seq(Word)
        /\ mem[Csm[c]] \in [1..StackSize -> Word]
        /\ (Evicted(c) => Len(Used_Stack[c]) = rsp[c])
    <2>1. c \in Co /\ Co \subseteq Entities
      BY DEF IInv, TypeOK, Started, Entities
    <2>2. /\ rsp \in [Entities -> 0..StackSize] /\ Used_Stack \in [Co -> Seq(Word)]
          /\ Csm \in [Co -> Stacks] /\ mem \in [Stacks -> [1..StackSize -> Word]]
      BY DEF IInv, TypeOK
    <2>3. rsp[c] \in 1..StackSize /\ (Evicted(c) => Len(Used_Stack[c]) = rsp[c])
      BY DEF IInv, TypeOK, SavedCopySound
    <2> QED BY <2>1, <2>2, <2>3
  <1>2. \A i \in 1..rsp[c] : WordAt(c, i) \in Word
    BY <1>1 DEF WordAt
  <1>3. FrameView[c] = [i \in 1..rsp[c] |-> WordAt(c, i)]
    BY <1>1, ViewStarted
  <1>4. FrameView[c] \in [1..rsp[c] -> Word] /\ rsp[c] \in Nat
    BY <1>1, <1>2, <1>3
  <1> QED BY <1>4

\* A switch does not change what any coroutine other than a new one finds.
LEMMA SwapView ==
  ASSUME NEW pending, NEW buffer, SwapSituation(pending, buffer), mem' = buffer,
         NEW c \in Started, c \in Started', rsp'[c] = rsp[c],
         c = pending => pc' = "restore" /\ mem' = mem
  PROVE  FrameView'[c] = FrameView[c]
  <1>1. c \in Co /\ rsp[c] \in 1..StackSize
    BY DEF SwapSituation, IInv, TypeOK, SavedCopySound, Started
  <1>2. Csm'[c] = Csm[c]
    BY DEF SwapSituation
  <1>3. ASSUME NEW i \in 1..rsp[c]
        PROVE  WordAt(c, i)' = WordAt(c, i)
    <2>1. CASE c = pending
      <3>1. Used_Stack'[c] = Used_Stack[c] /\ (Evicted(c)' <=> Evicted(c))
        BY <1>1, <2>1, SwapPending
      <3> QED BY <1>2, <2>1, <3>1 DEF WordAt
    <2>2. CASE c # pending
      <3>1. /\ Evicted(c) => Evicted(c)' /\ Used_Stack'[c] = Used_Stack[c]
            /\ Evicted(c)' /\ ~Evicted(c) =>
                  Used_Stack'[c] = [k \in 1..rsp[c] |-> mem[Csm[c]][k]]
            /\ ~Evicted(c)' => ~Evicted(c)
        BY <2>2, SwapOthers
      <3>2. ~Evicted(c) => mem'[Csm[c]] = mem[Csm[c]]
        BY <2>2 DEF SwapSituation
      <3> QED BY <1>2, <3>1, <3>2 DEF WordAt
    <2> QED BY <2>1, <2>2
  <1> QED BY <1>1, <1>3, ViewKept

\* The initial state maps to the initial state of PrivateStacks.
LEMMA InitView == Init => PS!Init
  <1> SUFFICES ASSUME Init PROVE PS!Init
    OBVIOUS
  <1>1. Started = {}
    BY DEF Init, CallInit, Started
  <1>2. FrameView = [c \in Co |-> <<>>]
    BY <1>1 DEF FrameView
  <1> QED BY <1>2 DEF Init, CallInit, PS!Init, PS!CallInit

\* A switch to a coroutine that has run before changes no frame.
LEMMA SwitchBackView ==
  ASSUME NEW pending, SwapSituation(pending, mem),
         pc' = "restore", UNCHANGED <<alive, ISstart, rsp, mem>>
  PROVE  FrameView' = FrameView
  <1>1. UNCHANGED Started
    BY DEF Started
  <1>2. ASSUME NEW c \in Co
        PROVE  FrameView'[c] = FrameView[c]
    <2>1. CASE c \in Started
      BY <1>1, <2>1, SwapView
    <2>2. CASE c \notin Started
      BY <1>1, <2>2, ViewStarted
    <2> QED BY <2>1, <2>2
  <1> QED BY <1>2, ViewIsFunction

\* A later resume is a resume.
LEMMA ResumeAgainView ==
  ASSUME IInv, NEW c \in Co, ResumeAgain(c)
  PROVE  PS!Resume(c)
  <1>1. SwapSituation(c, mem)
    BY ResumeAgainSituation
  <1>2. MayResume(c) /\ Co_resume(c) /\ c \in ISstart /\ pc' = "restore"
        /\ UNCHANGED <<rsp, mem>>
    BY DEF ResumeAgain
  <1>3. UNCHANGED <<alive, ISstart>>
    BY <1>2 DEF Co_resume
  <1>4. FrameView' = FrameView
    BY <1>1, <1>2, <1>3, SwitchBackView
  <1> QED
    BY <1>2, <1>4 DEF PS!Resume, PS!MayResume, PS!Co_resume, MayResume, Co_resume,
                      PS!OnCallStack, OnCallStack

\* A yield or an end changes no frame.
LEMMA YieldOrEndView ==
  ASSUME IInv, YieldOrEnd
  PROVE  FrameView' = FrameView
  <1>1. SwapSituation(Resumer, mem)
    BY YieldSituation
  <1>2. pc' = "restore" /\ UNCHANGED <<alive, ISstart, rsp, mem>>
    BY DEF YieldOrEnd, Co_yeild, SwapToResumer
  <1> QED BY <1>1, <1>2, SwitchBackView

\* A yield is a yield.
LEMMA YieldView == ASSUME IInv, Yield PROVE PS!Yield
  <1>1. FrameView' = FrameView
    BY YieldIsYieldOrEnd, YieldOrEndView
  <1> QED BY <1>1 DEF Yield, YieldInFun, Co_yeild, PS!Yield, PS!YieldInFun, PS!Co_yeild

\* An end is an end, with one word left on the stack.
LEMMA FinishView == ASSUME IInv, Finish PROVE PS!Finish
  <1>1. FrameView' = FrameView
    BY YieldIsYieldOrEnd, YieldOrEndView
  <1>2. Len(Co_CallBack) > 1 /\ rsp[Current] = 1 /\ Co_realRunningFunEnd
    BY DEF Finish
  <1>3. Len(FrameView[Current]) = 1
    BY <1>2, RunnerFacts, FrameLength
  <1> QED
    BY <1>1, <1>2, <1>3 DEF Co_realRunningFunEnd, Co_yeild, Current, PS!Finish,
                            PS!Co_realRunningFunEnd, PS!Co_yeild, PS!Current

\* The first resume gives the entity a frame of one word and changes no other.
LEMMA ResumeFirstView ==
  ASSUME IInv, NEW c \in Co, ResumeFirst(c)
  PROVE  PS!Resume(c)
  <1>1. /\ SwapSituation(c, mem')
        /\ mem' = [mem EXCEPT ![Csm[c]] = [@ EXCEPT ![1] = Entry]]
        /\ c \in alive /\ c \notin Started
    BY ResumeFirstSituation
  <1>2. /\ MayResume(c) /\ Co_resume(c) /\ pc' = "run"
        /\ rsp' = [rsp EXCEPT ![c] = 1]
        /\ c \notin ISstart
        /\ UNCHANGED <<Csm, IsShareStack>>
    BY DEF ResumeFirst, co_swap_make
  <1>3. Started' = Started \cup {c}
    BY <1>1, <1>2 DEF Co_resume, Started
  <1>4. /\ rsp'[c] = 1
        /\ \A d \in Co : d # c => rsp'[d] = rsp[d]
    BY <1>2 DEF IInv, TypeOK, Entities
  <1>5. ASSUME NEW d \in Co, d # c
        PROVE  FrameView'[d] = FrameView[d]
    <2>1. CASE d \in Started
      BY <1>1, <1>3, <1>4, <1>5, <2>1, SwapView
    <2>2. CASE d \notin Started
      BY <1>3, <1>5, <2>2, ViewStarted
    <2> QED BY <2>1, <2>2
  <1>6. FrameView'[c] = <<Entry>>
    <2>1. ~Evicted(c)'
      BY <1>1, <1>2, SwapPending
    <2>2. mem'[Csm[c]][1] = Entry
      <3>1. Csm[c] \in Stacks /\ mem \in [Stacks -> [1..StackSize -> Word]]
        BY DEF IInv, TypeOK
      <3> QED BY <1>1, <3>1
    <2>3. WordAt(c, 1)' = Entry
      BY <1>2, <2>1, <2>2 DEF WordAt
    <2>4. FrameView'[c] = [i \in 1..1 |-> WordAt(c, i)']
      BY <1>3, <1>4, ViewStarted
    <2> QED BY <2>3, <2>4
  <1>7. FrameView' = [FrameView EXCEPT ![c] = <<Entry>>]
    BY <1>5, <1>6, ViewIsFunction
  <1> QED
    BY <1>2, <1>7 DEF PS!Resume, PS!MayResume, PS!Co_resume, MayResume, Co_resume,
                      PS!OnCallStack, OnCallStack

\* Putting the words back is invisible.
LEMMA RestoreView == ASSUME IInv, Restore PROVE UNCHANGED PS!absVars
  <1>1. /\ pc = "restore" /\ pc' = "run"
        /\ UNCHANGED <<Co_CallBack, alive, ISstart, IsEnd, IsShareStack, Csm, rsp, ESP,
                       Used_Stack, alloc_idx, current_co, using_Co, prev_Co>>
    BY DEF Restore, callVars, entityVars
  <1>2. /\ \A d \in Started : ~Evicted(d) => mem'[Csm[d]] = mem[Csm[d]]
        /\ \A d \in Started : Evicted(d) /\ Occupies(d) =>
              \A k \in 1..rsp[d] : mem'[Csm[d]][k] = Used_Stack[d][k]
    BY RestoreMem
  <1>3. UNCHANGED Started
    BY <1>1 DEF Started
  <1>4. ASSUME NEW c \in Co
        PROVE  FrameView'[c] = FrameView[c]
    <2>1. ASSUME c \in Started, NEW i \in 1..rsp[c]
          PROVE  WordAt(c, i)' = WordAt(c, i)
      <3>1. CASE ~Evicted(c)
        <4>1. ~Evicted(c)'
          BY <1>1, <3>1 DEF Evicted, Occupies
        <4> QED BY <1>1, <1>2, <2>1, <3>1, <4>1 DEF WordAt
      <3>2. CASE Evicted(c) /\ Occupies(c)
        <4>1. ~Evicted(c)'
          BY <1>1, <3>2 DEF Evicted, Occupies
        <4> QED BY <1>1, <1>2, <2>1, <3>2, <4>1 DEF WordAt
      <3>3. CASE Evicted(c) /\ ~Occupies(c)
        <4>1. Evicted(c)'
          BY <1>1, <3>3 DEF Evicted, Occupies
        <4> QED BY <1>1, <3>3, <4>1 DEF WordAt
      <3> QED BY <3>1, <3>2, <3>3
    <2> QED BY <1>1, <1>3, <2>1, ViewKept
  <1>5. FrameView' = FrameView
    BY <1>4, ViewIsFunction
  <1> QED BY <1>1, <1>5 DEF PS!absVars, PS!callVars


\* Only the runner's own frame changes when it calls or returns.
LEMMA OwnStepOthers ==
  ASSUME IInv, OwnStep, NEW c \in Co, c # Current
  PROVE  FrameView'[c] = FrameView[c]
  <1>1. \A d \in Started : d # Current /\ ~Evicted(d) => Csm[d] # Csm[Current]
    BY RunnerAtHome DEF OwnStep
  <1>2. UNCHANGED Started /\ rsp'[c] = rsp[c]
    BY DEF Started, OwnStep
  <1>3. ASSUME c \in Started, NEW i \in 1..rsp[c]
        PROVE  WordAt(c, i)' = WordAt(c, i)
    <2>1. Evicted(c)' <=> Evicted(c)
      BY DEF Evicted, Occupies, OwnStep
    <2>2. Csm[c] \in Stacks
      BY DEF IInv, TypeOK
    <2>3. ~Evicted(c) => mem'[Csm[c]] = mem[Csm[c]]
      BY <1>1, <1>3, <2>2 DEF OwnStep
    <2>4. UNCHANGED <<Csm, Used_Stack>>
      BY DEF OwnStep
    <2> QED BY <2>1, <2>3, <2>4 DEF WordAt
  <1> QED BY <1>2, <1>3, ViewKept

\* The frame of the entity that runs is in the memory of its stack.
LEMMA RunnerFrame ==
  ASSUME IInv, OwnStep
  PROVE  /\ Current \in Co
         /\ rsp[Current] \in 1..StackSize
         /\ FrameView[Current] \in Seq(Word)
         /\ Len(FrameView[Current]) = rsp[Current]
         /\ FrameView[Current] = [i \in 1..rsp[Current] |-> mem[Csm[Current]][i]]
         /\ FrameView'[Current] = [i \in 1..rsp'[Current] |-> mem'[Csm[Current]][i]]
  <1>1. Current \in Started /\ Current \in Co /\ ~Evicted(Current)
        /\ rsp[Current] \in 1..StackSize
    BY RunnerAtHome DEF OwnStep
  <1>2. ~Evicted(Current)'
    BY <1>1 DEF Evicted, Occupies, OwnStep, Current
  <1>3. Current \in Started' /\ UNCHANGED <<Csm, Current>>
    BY <1>1 DEF Started, OwnStep, Current
  <1> DEFINE r == Current
  <1>4. r \in Co /\ r \in Started /\ r \in Started' /\ ~Evicted(r) /\ ~(Evicted(r)')
        /\ r' = r
    BY <1>1, <1>2, <1>3
  <1>5. FrameView[r] = [i \in 1..rsp[r] |-> mem[Csm[r]][i]]
    BY <1>4 DEF FrameView
  <1>6. FrameView'[r] = [i \in 1..rsp'[r] |-> mem'[Csm[r]][i]]
    BY <1>3, <1>4 DEF FrameView
  <1> QED BY <1>1, <1>5, <1>6, FrameLength

\* A call pushes a word on the frame of the caller.
LEMMA CallView ==
  ASSUME IInv, NEW w \in Word, Call(w)
  PROVE  PS!Call(w)
  <1>1. /\ OwnStep
        /\ rsp'[Current] = rsp[Current] + 1
        /\ \A i \in 1..rsp[Current] : mem'[Csm[Current]][i] = mem[Csm[Current]][i]
        /\ mem'[Csm[Current]][rsp[Current] + 1] = w
    BY CallIsOwnStep
  <1> DEFINE r == Current
             n == rsp[r]
             f == FrameView[r]
  <1>2. /\ r \in Co
        /\ n \in 1..StackSize
        /\ f \in Seq(Word)
        /\ Len(f) = n
        /\ f = [i \in 1..n |-> mem[Csm[r]][i]]
        /\ FrameView'[r] = [i \in 1..rsp'[r] |-> mem'[Csm[r]][i]]
    BY <1>1, RunnerFrame
  <1>3. FrameView'[r] = Append(f, w)
    <2>1. FrameView'[r] = [i \in 1..(n + 1) |-> IF i \in 1..n THEN f[i] ELSE w]
      <3>1. \A i \in 1..(n + 1) : mem'[Csm[r]][i] = IF i \in 1..n THEN f[i] ELSE w
        BY <1>1, <1>2
      <3> HIDE DEF f, n
      <3> QED BY <1>1, <1>2, <3>1 DEF n
    <2> HIDE DEF f, n, r
    <2>2. Append(f, w) = [i \in 1..(n + 1) |-> IF i \in 1..n THEN f[i] ELSE w]
      <3>1. Append(f, w) \in Seq(Word) /\ Len(Append(f, w)) = n + 1
            /\ \A i \in 1..(n + 1) : Append(f, w)[i] = IF i \in 1..n THEN f[i] ELSE w
        BY <1>2
      <3> QED BY <1>2, <3>1
    <2> QED BY <2>1, <2>2
  <1>4. \A c \in Co : c # r => FrameView'[c] = FrameView[c]
    BY <1>1, OwnStepOthers
  <1>5. FrameView' = [FrameView EXCEPT ![r] = Append(f, w)]
    <2> HIDE DEF r, f
    <2> QED BY <1>2, <1>3, <1>4, ViewIsFunction DEF f
  <1>6. Len(Co_CallBack) > 1 /\ n < StackSize /\ UNCHANGED callVars
    BY DEF Call
  <1> QED
    BY <1>2, <1>5, <1>6 DEF PS!Call, PS!Current, Current, PS!callVars, callVars

\* A return pops it.
LEMMA ReturnView ==
  ASSUME IInv, Return
  PROVE  PS!Return
  <1>1. OwnStep /\ rsp'[Current] = rsp[Current] - 1 /\ mem' = mem
    BY ReturnIsOwnStep
  <1> DEFINE r == Current
             n == rsp[r]
             f == FrameView[r]
  <1>2. /\ r \in Co
        /\ n \in 1..StackSize
        /\ f \in Seq(Word)
        /\ Len(f) = n
        /\ f = [i \in 1..n |-> mem[Csm[r]][i]]
        /\ FrameView'[r] = [i \in 1..rsp'[r] |-> mem'[Csm[r]][i]]
    BY <1>1, RunnerFrame
  <1>3. n > 1 /\ Len(Co_CallBack) > 1 /\ UNCHANGED callVars
    BY DEF Return
  <1>4. FrameView'[r] = SubSeq(f, 1, n - 1)
    <2>1. FrameView'[r] = [i \in 1..(n - 1) |-> f[i]]
      <3>1. \A i \in 1..(n - 1) : mem'[Csm[r]][i] = f[i]
        BY <1>1, <1>2
      <3> HIDE DEF f, n
      <3> QED BY <1>1, <1>2, <3>1 DEF n
    <2> HIDE DEF f, n, r
    <2>2. SubSeq(f, 1, n - 1) = [i \in 1..(n - 1) |-> f[i]]
      <3>1. SubSeq(f, 1, n - 1) \in Seq(Word) /\ Len(SubSeq(f, 1, n - 1)) = n - 1
            /\ \A i \in 1..(n - 1) : SubSeq(f, 1, n - 1)[i] = f[i]
        BY <1>2, <1>3
      <3> QED BY <1>2, <3>1
    <2> QED BY <2>1, <2>2
  <1>5. \A c \in Co : c # r => FrameView'[c] = FrameView[c]
    BY <1>1, OwnStepOthers
  <1>6. FrameView' = [FrameView EXCEPT ![r] = SubSeq(f, 1, Len(f) - 1)]
    <2> HIDE DEF r, f, n
    <2> QED BY <1>2, <1>4, <1>5, ViewIsFunction DEF f
  <1> QED
    BY <1>2, <1>3, <1>6 DEF PS!Return, PS!Current, Current, PS!callVars, callVars

\* A new entity has an empty frame.
LEMMA CreateView ==
  ASSUME IInv, NEW c \in Co, NEW shared \in BOOLEAN, Create(c, shared)
  PROVE  PS!Create(c)
  <1>1. /\ Started' = Started /\ c \notin Started /\ Started \subseteq Co
        /\ UNCHANGED <<current_co, mem, using_Co, prev_Co, pc>>
        /\ \A d \in Co : d # c => /\ Csm'[d] = Csm[d]
                                  /\ Used_Stack'[d] = Used_Stack[d]
                                  /\ d \in IsShareStack' <=> d \in IsShareStack
                                  /\ rsp'[d] = rsp[d]
                                  /\ ESP'[d] = ESP[d]
        /\ \A d \in Started : Evicted(d)' <=> Evicted(d)
    BY CreateFacts
  <1>2. ASSUME NEW d \in Co
        PROVE  FrameView'[d] = FrameView[d]
    <2>1. CASE d \in Started
      <3>1. d # c
        BY <1>1, <2>1
      <3>2. \A i \in 1..rsp[d] : WordAt(d, i)' = WordAt(d, i)
        BY <1>1, <2>1, <3>1 DEF WordAt
      <3> QED BY <1>1, <2>1, <3>1, <3>2, ViewKept
    <2>2. CASE d \notin Started
      BY <1>1, <2>2, ViewStarted
    <2> QED BY <2>1, <2>2
  <1>3. FrameView[c] = <<>>
    BY <1>1, ViewStarted
  <1>4. FrameView' = [FrameView EXCEPT ![c] = <<>>]
    BY <1>2, <1>3, ViewIsFunction
  <1> QED
    BY <1>4 DEF Create, Co_Create, EnvAfterInit, PS!Create, PS!Co_Create, PS!EnvAfterInit

\* Deleting an entity drops its frame and no other.
LEMMA FreeView ==
  ASSUME IInv, NEW c \in Co, FreeUnoccupied(c)
  PROVE  PS!Free(c)
  <1>1. /\ FreeCo_Entity(c)
        /\ alive' = alive \ {c}
        /\ UNCHANGED <<ISstart, IsShareStack, Csm, rsp, Used_Stack,
                       current_co, mem, using_Co, prev_Co, pc>>
    BY DEF FreeUnoccupied, Free, FreeCo_Entity, entityVars, stackVars, envVars
  <1>2. Started' = Started \ {c}
    BY <1>1 DEF Started
  <1>3. ASSUME NEW d \in Co, d # c
        PROVE  FrameView'[d] = FrameView[d]
    <2>1. \A i \in 1..rsp[d] : WordAt(d, i)' = WordAt(d, i)
      BY <1>1 DEF WordAt, Evicted, Occupies
    <2> QED BY <1>1, <1>2, <1>3, <2>1, ViewKept
  <1>4. FrameView'[c] = <<>>
    BY <1>2, ViewStarted
  <1>5. FrameView' = [FrameView EXCEPT ![c] = <<>>]
    BY <1>3, <1>4, ViewIsFunction
  <1> QED
    BY <1>1, <1>5 DEF FreeCo_Entity, OnCallStack, PS!Free, PS!FreeCo_Entity, PS!OnCallStack

\* Every step maps to the step of PrivateStacks of its name, or to none.
LEMMA NextView ==
  ASSUME IInv, [Next]_vars
  PROVE  [PS!Next]_(PS!absVars)
  <1>1. ASSUME NEW c \in Co, NEW shared \in BOOLEAN, Create(c, shared) PROVE PS!Next
    BY <1>1, CreateView DEF PS!Next
  <1>2. ASSUME NEW c \in Co, ResumeFirst(c) PROVE PS!Next
    BY <1>2, ResumeFirstView DEF PS!Next
  <1>3. ASSUME NEW c \in Co, ResumeAgain(c) PROVE PS!Next
    BY <1>3, ResumeAgainView DEF PS!Next
  <1>4. CASE Yield
    BY <1>4, YieldView DEF PS!Next
  <1>5. CASE Finish
    BY <1>5, FinishView DEF PS!Next
  <1>6. CASE Restore
    BY <1>6, RestoreView
  <1>7. ASSUME NEW w \in Word, Call(w) PROVE PS!Next
    BY <1>7, CallView DEF PS!Next
  <1>8. CASE Return
    BY <1>8, ReturnView DEF PS!Next
  <1>9. ASSUME NEW c \in Co, FreeUnoccupied(c) PROVE PS!Next
    BY <1>9, FreeView DEF PS!Next
  <1>10. CASE UNCHANGED vars
    <2>1. FrameView' = FrameView
      BY <1>10 DEF vars, entityVars, stackVars, envVars, callVars, FrameView, Started,
                   Evicted, Occupies
    <2> QED BY <1>10, <2>1 DEF vars, callVars, PS!absVars, PS!callVars
  <1> QED BY <1>1, <1>2, <1>3, <1>4, <1>5, <1>6, <1>7, <1>8, <1>9, <1>10 DEF Next, Switches

\* Sharing stacks cannot be observed: every coroutine finds the words it left,
\* as if it had a stack of its own.
THEOREM Implementation == Spec => ImplementsPrivateStacks
  <1>1. Init => PS!Init
    BY InitView
  <1>2. IInv /\ [Next]_vars => [PS!Next]_(PS!absVars)
    BY NextView
  <1> QED BY <1>1, <1>2, Invariance, PTL DEF Spec, ImplementsPrivateStacks, PS!Spec

=============================================================================
