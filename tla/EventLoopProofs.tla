-------------------------- MODULE EventLoopProofs --------------------------
(***************************************************************************)
(* The event loop wakes whom it should, for every number of coroutines,    *)
(* fds, condition variables and slots of the wheel.                        *)
(***************************************************************************)
EXTENDS EventLoop, SequenceLemmas, FiniteSetTheorems

\* What is proved about the wheel, for the items of coroutines.
TWP == INSTANCE TimeWheelProofs WITH Item <- Co, TimeOut <- <<>>,
                                     Timeouts <- PollTimeouts \cup CVTimeouts

-----------------------------------------------------------------------------
(* The inductive invariant *)

PollRecords ==
    [on : {"poll"}, fds : Polls, RaisedNumber : Nat, revents : SUBSET Nat,
     IsHandle : BOOLEAN, IsTimeout : BOOLEAN]

CVRecords == [on : {"cv"}, cv : CV, IsTimeout : BOOLEAN]

Types ==
    /\ Co_CallBack \in Seq(Entities)
    /\ lpc \in {"out", "wait", "prepare", "dispatch", "fun"}
    /\ Now \in Int
    /\ batch \in Seq(Co \X (Nat \ {0}))
    /\ active \in Seq(Co \X Nat)
    /\ waiters \in [CV -> Seq(Co)]
    /\ epoll \in [Fd -> (Co \X (Nat \ {0})) \cup {NoItem}]
    /\ wait \in [Co -> {NotWaiting} \cup PollRecords \cup CVRecords]

\* The call stack: Main below, above it coroutines that live, have started,
\* have not ended and do not wait, none of them twice.  Main runs the loop
\* itself while it waits for events and handles them.
StackSound ==
    /\ Distinct(Co_CallBack)
    /\ \A k \in 1..Len(Co_CallBack) :
          IF k = 1 THEN Co_CallBack[k] = Main
          ELSE /\ Co_CallBack[k] \in Co
               /\ Co_CallBack[k] \in alive
               /\ Co_CallBack[k] \in ISstart
               /\ Co_CallBack[k] \notin IsEnd
               /\ wait[Co_CallBack[k]] = NotWaiting
    /\ Co_CallBack = <<>> => lpc = "out"
    /\ lpc \in {"wait", "prepare"} => Len(Co_CallBack) = 1

\* No coroutine has two entries.
OneEach(list) ==
    Distinct(list) /\ \A e, d \in ToSet(list) : e[1] = d[1] => e = d

IsActive(c) == \E e \in ToSet(active) : e[1] = c

IsInWheel(c) == \E s \in TW!Slots : Contains(Wheel[s], c)

\* No coroutine is twice in a list or in two that exclude each other, and what
\* is in a list waits for what the list is for.
QueuesSound ==
    /\ OneEach(active)
    /\ \A v \in CV : Distinct(waiters[v])
    /\ \A c \in Co : IsActive(c) => ~ IsInWheel(c)
    /\ \A c \in Co : IsActive(c) \/ IsInWheel(c) => wait[c] # NotWaiting
    /\ \A v \in CV, c \in Co : c \in ToSet(waiters[v]) => wait[c].on = "cv" /\ wait[c].cv = v
    /\ \A c \in Co : wait[c].on = "poll" => IsActive(c) \/ IsInWheel(c)
    /\ \A c \in Co : wait[c].on = "cv" =>
          IsActive(c) \/ IsInWheel(c) \/ c \in ToSet(waiters[wait[c].cv])

\* Besides RegistrationsSound: what epoll refuses is not registered, and the
\* events still to prepare are different ones and new to their polls.
EventsSound ==
    /\ RegistrationsSound
    /\ \A f \in Fd : f \in BadFd => epoll[f] = NoItem
    /\ lpc # "prepare" => batch = <<>>
    /\ Distinct(batch)
    /\ \A j \in 1..Len(batch) : batch[j][2] \notin wait[batch[j][1]].revents

\* The marks of a wait: set only in the part of the round in which their
\* coroutine is active, and as its entry in the active list says.
WaitsSound ==
    /\ \A c \in Co : wait[c].on = "poll" =>
          /\ IsFiniteSet(wait[c].revents)
          /\ wait[c].RaisedNumber = Cardinality(wait[c].revents)
          /\ wait[c].IsHandle <=> wait[c].revents # {}
          /\ wait[c].IsHandle => lpc \in {"prepare", "dispatch"} /\ IsActive(c)
    /\ \A c \in Co : wait[c] # NotWaiting /\ wait[c].IsTimeout =>
          lpc = "dispatch" /\ IsActive(c) /\ ExpireTime[c] <= Now
    /\ \A e \in ToSet(active) :
          IF wait[e[1]].on = "poll"
          THEN /\ wait[e[1]].IsHandle <=> e[2] # 0
               /\ wait[e[1]].IsTimeout <=> e[2] = 0
          ELSE e[2] = 0

\* Once a round has collected, the wheel's time is not behind the loop's, and
\* if it is the same, everything in the wheel is later.
RoundSound ==
    lpc \in {"dispatch", "fun"} =>
        /\ Now >= 1
        /\ Start >= Now
        /\ Start = Now => \A c \in Co : IsInWheel(c) => ExpireTime[c] > Now

LoopInv ==
    /\ Types
    /\ TWP!WheelInv
    /\ StackSound
    /\ WaitersCanBeResumed
    /\ QueuesSound
    /\ EventsSound
    /\ WaitsSound
    /\ RoundSound

-----------------------------------------------------------------------------
(* The wheel, as the loop uses it *)

\* The loop's wheel is one that the theorems about wheels speak of.
LEMMA WheelAssumed == TWP!WheelAssumption
BY PollAssumption, WaitAssumption DEF TWP!WheelAssumption

\* The two names of the wheel's operators are one.
LEMMA SameWheel ==
    /\ TW!Slots = TWP!Slots
    /\ \A c : TWP!InWheel(c) <=> IsInWheel(c)
    /\ \A now : TW!StartAt(now) = TWP!StartAt(now)
    /\ \A now, expire : TW!Refuses(now, expire) <=> TWP!Refuses(now, expire)
    /\ \A now : TW!TakenOut(now) = TWP!TakenOut(now)
    /\ \A now : TW!InTime(now) <=> TWP!InTime(now)
    /\ \A now : TW!NothingPassed(now) <=> TWP!NothingPassed(now)
<1>1. TW!Slots = TWP!Slots
  BY DEF TW!Slots, TWP!Slots
<1>2. ASSUME NEW c
      PROVE  TWP!InWheel(c) <=> IsInWheel(c)
  BY <1>1 DEF TWP!InWheel, IsInWheel, TWP!Contains, Contains
<1>3. ASSUME NEW now
      PROVE  TW!StartAt(now) = TWP!StartAt(now)
  BY DEF TW!StartAt, TWP!StartAt
<1>4. ASSUME NEW now, NEW expire
      PROVE  TW!Refuses(now, expire) <=> TWP!Refuses(now, expire)
  BY DEF TW!Refuses, TWP!Refuses, TW!StartAt, TWP!StartAt
<1>5. ASSUME NEW now
      PROVE  TW!TakenOut(now) = TWP!TakenOut(now)
  BY DEF TW!TakenOut, TWP!TakenOut, TW!NothingPassed, TWP!NothingPassed, TW!Passed, TWP!Passed,
         TW!Visited, TWP!Visited, TW!StartAt, TWP!StartAt, TW!IndexAt, TWP!IndexAt,
         TW!FlattenSeq, TWP!FlattenSeq
<1>6. ASSUME NEW now
      PROVE  /\ TW!InTime(now) <=> TWP!InTime(now)
             /\ TW!NothingPassed(now) <=> TWP!NothingPassed(now)
  BY DEF TW!InTime, TWP!InTime, TW!NothingPassed, TWP!NothingPassed, TW!Passed, TWP!Passed,
         TW!StartAt, TWP!StartAt
<1> QED
  BY <1>1, <1>2, <1>3, <1>4, <1>5, <1>6

\* The same after a step.
LEMMA SameWheelNext ==
    ASSUME NEW c
    PROVE  TWP!InWheel(c)' <=> IsInWheel(c)'
BY DEF TWP!InWheel, IsInWheel, TWP!Contains, Contains, TW!Slots, TWP!Slots

\* The types of the wheel's variables.
LEMMA WheelTypes ==
    ASSUME TWP!WheelInv
    PROVE  /\ clock \in Int /\ clock >= 1
           /\ Start \in Int
           /\ Wheel \in [TW!Slots -> Seq(Co)]
           /\ ExpireTime \in [Co -> Int]
           /\ \A c : IsInWheel(c) => c \in Co
<1>1. /\ clock \in 1..MaxClock /\ Start \in 0..MaxClock
      /\ Wheel \in [TW!Slots -> Seq(Co)]
      /\ ExpireTime \in [Co -> Int]
  BY SameWheel DEF TWP!WheelInv, TWP!TypeOK
<1>2. ASSUME NEW c, IsInWheel(c)
      PROVE  c \in Co
  BY <1>1, <1>2 DEF IsInWheel, Contains
<1> QED
  BY <1>1, <1>2

\* AddTimeOut puts the item in, or refuses it and leaves the wheel as it was.
LEMMA WheelAdds ==
    ASSUME TWP!WheelInv, NEW c \in Co, ~ IsInWheel(c),
           NEW timeout \in PollTimeouts \cup CVTimeouts,
           TW!AddTimeOut(c, clock, clock + timeout),
           UNCHANGED clockVars
    PROVE  /\ TWP!WheelInv'
           /\ ~ TW!Refuses(clock, clock + timeout)
                => \A x \in Co : IsInWheel(x)' <=> IsInWheel(x) \/ x = c
           /\ TW!Refuses(clock, clock + timeout)
                => \A x \in Co : IsInWheel(x)' <=> IsInWheel(x)
           /\ Start' = TW!StartAt(clock)
           /\ ExpireTime' = [ExpireTime EXCEPT ![c] = clock + timeout]
<1>1. TWP!AddTimeOut(c, clock, clock + timeout)
  BY DEF TW!AddTimeOut, TWP!AddTimeOut, TW!StartAt, TWP!StartAt, TW!IndexAt, TWP!IndexAt,
         TW!Refuses, TWP!Refuses
<1>2. TWP!Add(c)
  BY <1>1, SameWheel DEF TWP!Add, clockVars, TWP!clockVars
<1>3. TWP!TimelyNext
  BY <1>2 DEF TWP!TimelyNext
<1>4. TWP!WheelInv'
  BY <1>3, WheelAssumed, TWP!NextWheelInv
<1>5. clock \in Int /\ clock + timeout \in Int
  BY WheelTypes, PollAssumption, WaitAssumption
<1>6. ASSUME ~ TW!Refuses(clock, clock + timeout), NEW x \in Co
      PROVE  IsInWheel(x)' <=> IsInWheel(x) \/ x = c
  <2>1. ~ TWP!Refuses(clock, clock + timeout)
    BY <1>6, SameWheel
  <2>2. TWP!InWheel(x)' <=> TWP!InWheel(x) \/ x = c
    BY <1>1, <1>5, <2>1, WheelAssumed, TWP!AddPuts
  <2> QED
    BY <2>2, SameWheel, SameWheelNext
<1>7. ASSUME TW!Refuses(clock, clock + timeout), NEW x \in Co
      PROVE  IsInWheel(x)' <=> IsInWheel(x)
  <2>1. Wheel' = Wheel
    BY <1>7 DEF TW!AddTimeOut
  <2> QED
    BY <2>1 DEF IsInWheel, TW!Slots
<1>8. /\ Start' = TW!StartAt(clock)
      /\ ExpireTime' = [ExpireTime EXCEPT ![c] = clock + timeout]
  BY DEF TW!AddTimeOut
<1> QED
  BY <1>4, <1>6, <1>7, <1>8

\* RemoveFromWheel of the items of the coroutines cs.
LEMMA WheelRemoves ==
    ASSUME TWP!WheelInv, NEW cs, Wheel' = WheelWithout(cs),
           UNCHANGED <<Start, Index, ExpireTime, clockVars>>
    PROVE  /\ TWP!WheelInv'
           /\ \A x \in Co : IsInWheel(x)' <=> IsInWheel(x) /\ x \notin cs
<1>1. Wheel' = [s \in TWP!Slots |-> TWP!Excluding(Wheel[s], cs)]
  BY SameWheel DEF WheelWithout, TWP!Excluding, Excluding
<1>2. TWP!TypeOK
  BY DEF TWP!WheelInv
<1>3. Wheel' \in [TWP!Slots -> Seq(Co)]
  BY <1>1, <1>2, WheelAssumed, TWP!RemoveTypes
<1>4. TWP!TypeOK'
  BY <1>2, <1>3 DEF TWP!TypeOK, clockVars, TWP!Slots
<1>5. TWP!WheelInv'
  BY <1>1, <1>4, WheelAssumed, TWP!RemoveKeepsWheelInv
<1>6. ASSUME NEW x \in Co
      PROVE  IsInWheel(x)' <=> IsInWheel(x) /\ x \notin cs
  <2>1. ASSUME NEW s \in TW!Slots
        PROVE  Contains(Wheel'[s], x) <=> Contains(Wheel[s], x) /\ x \notin cs
    <3>1. Wheel[s] \in Seq(Co) /\ Wheel'[s] = Excluding(Wheel[s], cs)
      BY WheelTypes DEF WheelWithout
    <3> QED
      BY <3>1, ExcludingElements
  <2>2. IsInWheel(x)' <=> \E s \in TW!Slots : Contains(Wheel'[s], x)
    BY DEF IsInWheel, TW!Slots
  <2> QED
    BY <2>1, <2>2 DEF IsInWheel
<1> QED
  BY <1>5, <1>6

\* TakeOutTimeout hands out items that are due and leaves none that is.
LEMMA WheelCollects ==
    ASSUME TWP!WheelInv, TW!TakeOutTimeout(clock), TW!InTime(clock), UNCHANGED clockVars
    PROVE  LET t == TW!TakenOut(clock)
           IN  /\ TWP!WheelInv'
               /\ ExpireTime' = ExpireTime
               /\ t \in Seq(Co)
               /\ Distinct(t)
               /\ \A x : Contains(t, x) => x \in Co /\ IsInWheel(x) /\ ExpireTime[x] <= clock
               /\ \A x \in Co : IsInWheel(x)' <=> IsInWheel(x) /\ ~ Contains(t, x)
               /\ clock >= TW!StartAt(clock) =>
                     Start' = clock /\ \A x \in Co : IsInWheel(x)' => ExpireTime[x] > clock
               /\ clock < TW!StartAt(clock) => Start' = Start
<1>1. TWP!TakeOutTimeout(clock) /\ TWP!InTime(clock)
  <2>1. TWP!TakeOutTimeout(clock)
    BY DEF TW!TakeOutTimeout, TWP!TakeOutTimeout, TW!NothingPassed, TWP!NothingPassed,
           TW!Passed, TWP!Passed, TW!Visited, TWP!Visited, TW!StartAt, TWP!StartAt,
           TW!IndexAt, TWP!IndexAt, TW!Slots, TWP!Slots
  <2> QED
    BY <2>1, SameWheel
<1>2. TWP!TypeOK
  BY DEF TWP!WheelInv
<1>3. /\ Start' \in 0..MaxClock
      /\ Index' \in TWP!Slots
      /\ Wheel' \in [TWP!Slots -> Seq(Co)]
      /\ ExpireTime' = ExpireTime
  BY <1>1, <1>2, WheelAssumed, TWP!TakeOutTypes
<1>4. TWP!TypeOK'
  BY <1>2, <1>3 DEF TWP!TypeOK, clockVars, TWP!Slots
<1>5. TWP!WheelInv'
  BY <1>1, <1>4, WheelAssumed, TWP!TakeOutKeepsWheelInv
<1> DEFINE t == TW!TakenOut(clock)
<1>6. t = TWP!TakenOut(clock)
  BY SameWheel
<1>7. \A x : TWP!Contains(t, x) <=> Contains(t, x)
  BY DEF TWP!Contains, Contains
<1>8. TWP!Distinct(t) <=> Distinct(t)
  BY DEF TWP!Distinct, Distinct
<1> HIDE DEF t
<1>9. /\ t \in Seq(Co)
      /\ TWP!Distinct(t)
      /\ \A x : TWP!Contains(t, x) => x \in Co /\ TWP!InWheel(x) /\ ExpireTime[x] <= clock
      /\ \A x \in Co : TWP!InWheel(x)' <=> TWP!InWheel(x) /\ ~ TWP!Contains(t, x)
      /\ \A x \in Co : TWP!InWheel(x)' /\ clock >= TWP!StartAt(clock) => ExpireTime[x] > clock
  BY <1>1, <1>6, WheelAssumed, TWP!TakeOutTakes
<1>10. \A x \in Co : IsInWheel(x)' /\ clock >= TW!StartAt(clock) => ExpireTime[x] > clock
  BY <1>9, SameWheel, SameWheelNext
<1>11. \A x \in Co : IsInWheel(x)' <=> IsInWheel(x) /\ ~ Contains(t, x)
  BY <1>7, <1>9, SameWheel, SameWheelNext
<1>12. clock >= TW!StartAt(clock) => Start' = clock
  <2>1. clock \in Int /\ TW!StartAt(clock) \in Int
    BY WheelTypes DEF TW!StartAt
  <2>2. TWP!NothingPassed(clock) <=> clock < TWP!StartAt(clock)
    BY <1>1, <1>2, <2>1, WheelAssumed, TWP!PassedInTime
  <2>3. TW!NothingPassed(clock) <=> clock < TW!StartAt(clock)
    BY <2>2, SameWheel
  <2> QED
    BY <2>1, <2>3 DEF TW!TakeOutTimeout
<1>13. clock < TW!StartAt(clock) => Start' = Start
  BY DEF TW!TakeOutTimeout, TW!NothingPassed
<1>14. \A x : Contains(t, x) => x \in Co /\ IsInWheel(x) /\ ExpireTime[x] <= clock
  BY <1>7, <1>9, SameWheel
<1> QED
  BY <1>3, <1>5, <1>8, <1>9, <1>10, <1>11, <1>12, <1>13, <1>14 DEF t

\* A step that leaves the wheel alone, with or without one of the clock.
LEMMA WheelRests ==
    ASSUME TWP!WheelInv, UNCHANGED wheelVars, TW!Tick \/ TW!SetBack \/ UNCHANGED clockVars
    PROVE  /\ TWP!WheelInv'
           /\ \A x : IsInWheel(x)' <=> IsInWheel(x)
<1>1. [TWP!TimelyNext]_(TWP!tvars)
  BY DEF TWP!TimelyNext, TWP!ClockStep, TWP!Tick, TWP!SetBack, TW!Tick, TW!SetBack, TWP!tvars,
         clockVars, TWP!clockVars, wheelVars, TWP!wheelVars
<1>2. TWP!WheelInv'
  BY <1>1, WheelAssumed, TWP!NextWheelInv
<1>3. \A x : IsInWheel(x)' <=> IsInWheel(x)
  BY DEF IsInWheel, wheelVars, TW!Slots
<1> QED
  BY <1>2, <1>3

-----------------------------------------------------------------------------
(* The active list *)

\* RemoveFromWheel of the items of the coroutines cs from the active list.
LEMMA WithoutElements ==
    ASSUME NEW list \in Seq(Co \X Nat), OneEach(list), NEW cs
    PROVE  /\ Without(list, cs) \in Seq(Co \X Nat)
           /\ OneEach(Without(list, cs))
           /\ ToSet(Without(list, cs)) = {e \in ToSet(list) : ~ (e[1] \in cs /\ e[2] = 0)}
<1> DEFINE w == Without(list, cs)
<1>1. /\ w \in Seq(Co \X Nat)
      /\ \A x : Contains(w, x) <=> Contains(list, x) /\ x \notin cs \X {0}
      /\ Distinct(w)
  BY ExcludingElements DEF Without, OneEach
<1> HIDE DEF w
<1>2. /\ ToSet(list) \subseteq Co \X Nat
      /\ \A x : Contains(list, x) <=> x \in ToSet(list)
      /\ \A x : Contains(w, x) <=> x \in ToSet(w)
  BY <1>1, InToSet
<1>3. \A e \in Co \X Nat : e \in cs \X {0} <=> e[1] \in cs /\ e[2] = 0
  OBVIOUS
<1>4. ToSet(w) = {e \in ToSet(list) : ~ (e[1] \in cs /\ e[2] = 0)}
  BY <1>1, <1>2, <1>3
<1>5. OneEach(w)
  BY <1>1, <1>4 DEF OneEach
<1> QED
  BY <1>1, <1>4, <1>5 DEF w

\* The items of the coroutines of s joined to the active list.
LEMMA JoinElements ==
    ASSUME NEW list \in Seq(Co \X Nat), OneEach(list),
           NEW s \in Seq(Co), Distinct(s), NEW n, n = Len(s),
           \A c \in ToSet(s) : \A e \in ToSet(list) : e[1] # c
    PROVE  LET j == list \o [i \in 1..n |-> <<s[i], 0>>]
           IN  /\ j \in Seq(Co \X Nat)
               /\ OneEach(j)
               /\ ToSet(j) = ToSet(list) \cup {<<c, 0>> : c \in ToSet(s)}
<1> DEFINE t == [i \in 1..n |-> <<s[i], 0>>]
           q == list \o t
<1>1. /\ Len(s) \in Nat /\ n \in Nat
      /\ \A i \in 1..n : s[i] \in Co
  OBVIOUS
<1>2. /\ t \in Seq(Co \X Nat) /\ Len(t) = n
      /\ \A i \in 1..n : t[i] = <<s[i], 0>>
  BY <1>1
<1> HIDE DEF t
<1>3. /\ q \in Seq(Co \X Nat) /\ Len(list) \in Nat
      /\ Len(q) = Len(list) + n
      /\ \A i \in 1..Len(list) : q[i] = list[i]
      /\ \A i \in 1..n : q[Len(list) + i] = <<s[i], 0>>
  <2> DEFINE T == Co \X Nat
  <2>1. list \in Seq(T) /\ t \in Seq(T) /\ Len(t) = n
    BY <1>2
  <2> HIDE DEF T
  <2>2. /\ q \in Seq(T) /\ Len(list) \in Nat /\ Len(q) = Len(list) + Len(t)
        /\ \A i \in 1..Len(list) : q[i] = list[i]
        /\ \A i \in 1..Len(t) : q[Len(list) + i] = t[i]
    <3>1. list \in Seq(T) /\ t \in Seq(T)
      BY <2>1
    <3>2. q \in Seq(T) /\ Len(list) \in Nat
      BY <3>1, JoinedParts
    <3>3. Len(q) = Len(list) + Len(t)
      BY <3>1, JoinedParts
    <3>4. \A i \in 1..Len(list) : q[i] = list[i]
      BY <3>1, JoinedParts
    <3>5. \A i \in 1..Len(t) : q[Len(list) + i] = t[i]
      BY <3>1, JoinedParts
    <3> QED
      BY <3>2, <3>3, <3>4, <3>5
  <2> QED
    BY <1>2, <2>2 DEF T
<1>4. /\ ToSet(list) = {list[i] : i \in 1..Len(list)}
      /\ ToSet(s) = {s[i] : i \in 1..n}
      /\ ToSet(q) = {q[i] : i \in 1..Len(q)}
  BY <1>3, InToSet
<1>5. /\ \A i \in 1..Len(list) : i \in 1..Len(q)
      /\ \A i \in 1..n : Len(list) + i \in 1..Len(q)
      /\ \A i \in 1..Len(q) : \/ i \in 1..Len(list)
                              \/ i - Len(list) \in 1..n /\ Len(list) + (i - Len(list)) = i
  BY <1>1, <1>3
<1>6. ToSet(q) = ToSet(list) \cup {<<c, 0>> : c \in ToSet(s)}
  <2>1. ASSUME NEW e \in ToSet(q)
        PROVE  e \in ToSet(list) \cup {<<c, 0>> : c \in ToSet(s)}
    <3>1. PICK i \in 1..Len(q) : e = q[i]
      BY <1>4
    <3>2. CASE i \in 1..Len(list)
      BY <1>3, <1>4, <3>1, <3>2
    <3>3. CASE i - Len(list) \in 1..n /\ Len(list) + (i - Len(list)) = i
      <4>1. e = <<s[i - Len(list)], 0>>
        BY <1>3, <3>1, <3>3
      <4> QED
        BY <1>4, <3>3, <4>1
    <3> QED
      BY <1>5, <3>2, <3>3
  <2>2. ASSUME NEW e \in ToSet(list)
        PROVE  e \in ToSet(q)
    BY <1>3, <1>4, <1>5, <2>2
  <2>3. ASSUME NEW c \in ToSet(s)
        PROVE  <<c, 0>> \in ToSet(q)
    <3>1. PICK i \in 1..n : c = s[i]
      BY <1>4, <2>3
    <3>2. q[Len(list) + i] = <<s[i], 0>> /\ Len(list) + i \in 1..Len(q)
      BY <1>3, <1>5
    <3> QED
      BY <1>4, <3>1, <3>2
  <2> QED
    BY <2>1, <2>2, <2>3
<1>7. Distinct(q)
  <2> SUFFICES ASSUME NEW i \in 1..Len(q), NEW k \in 1..Len(q), q[i] = q[k]
               PROVE  i = k
    BY DEF Distinct
  <2>1. CASE i \in 1..Len(list) /\ k \in 1..Len(list)
    BY <1>3, <2>1 DEF OneEach, Distinct
  <2>2. ASSUME NEW a \in 1..Len(list), NEW b \in 1..n
        PROVE  q[a] # q[Len(list) + b]
    <3>1. list[a] \in ToSet(list) /\ s[b] \in ToSet(s)
      BY <1>4
    <3>2. list[a][1] # s[b]
      BY <3>1
    <3>3. <<s[b], 0>>[1] = s[b]
      OBVIOUS
    <3> QED
      BY <1>3, <3>2, <3>3
  <2>3. ASSUME NEW a \in 1..n, NEW b \in 1..n, q[Len(list) + a] = q[Len(list) + b]
        PROVE  a = b
    <3>1. <<s[a], 0>> = <<s[b], 0>>
      BY <1>3, <2>3
    <3>2. s[a] = s[b]
      BY <3>1
    <3> QED
      BY <3>2 DEF Distinct
  <2> DEFINE a == i - Len(list)
             b == k - Len(list)
  <2>4. /\ i \in 1..Len(list) \/ (a \in 1..n /\ Len(list) + a = i)
        /\ k \in 1..Len(list) \/ (b \in 1..n /\ Len(list) + b = k)
    BY <1>5
  <2> HIDE DEF a, b
  <2> QED
    BY <2>1, <2>2, <2>3, <2>4
<1>8. OneEach(q)
  <2>1. \A c \in ToSet(s) : <<c, 0>>[1] = c
    OBVIOUS
  <2> QED
    BY <1>6, <1>7, <2>1 DEF OneEach
<1> QED
  BY <1>3, <1>6, <1>8 DEF q, t

-----------------------------------------------------------------------------
(* The call stack *)

\* What the record of a wait tells by its member on.
LEMMA WaitCases ==
    ASSUME Types, NEW c \in Co
    PROVE  /\ wait[c].on = "none" <=> wait[c] = NotWaiting
           /\ wait[c].on = "poll" <=> wait[c] \in PollRecords
           /\ wait[c].on = "cv" <=> wait[c] \in CVRecords
           /\ wait[c].on \in {"none", "poll", "cv"}
<1>1. wait[c] \in {NotWaiting} \cup PollRecords \cup CVRecords
  BY DEF Types
<1>2. NotWaiting.on = "none"
  BY DEF NotWaiting
<1>3. \A w \in PollRecords : w.on = "poll"
  BY DEF PollRecords
<1>4. \A w \in CVRecords : w.on = "cv"
  BY DEF CVRecords
<1> QED
  BY <1>1, <1>2, <1>3, <1>4

\* Above Main runs a coroutine, and the loop is not in the middle of its wait.
LEMMA CurrentRuns ==
    ASSUME Types, StackSound, Len(Co_CallBack) > 1
    PROVE  /\ Current \in Co
           /\ Current \in alive
           /\ Current \in ISstart
           /\ Current \notin IsEnd
           /\ wait[Current] = NotWaiting
           /\ lpc \notin {"wait", "prepare"}
<1>1. Len(Co_CallBack) \in 1..Len(Co_CallBack) /\ Len(Co_CallBack) # 1
  <2> DEFINE n == Len(Co_CallBack)
  <2>1. Co_CallBack \in Seq(Entities)
    BY DEF Types
  <2>2. n \in Nat /\ n > 1
    BY <2>1
  <2> HIDE DEF n
  <2>3. n \in 1..n /\ n # 1
    BY <2>2
  <2> QED
    BY <2>3 DEF n
<1> QED
  BY <1>1 DEF StackSound, Current

\* A step that leaves the stack alone and neither begins nor ends a wait.
LEMMA StackRests ==
    ASSUME StackSound, WaitersCanBeResumed,
           UNCHANGED callVars,
           \A c \in Co : wait'[c] = NotWaiting <=> wait[c] = NotWaiting,
           lpc' \in {"wait", "prepare"} => Len(Co_CallBack) = 1,
           Co_CallBack = <<>> => lpc' = "out"
    PROVE  StackSound' /\ WaitersCanBeResumed'
<1>1. StackSound'
  BY DEF StackSound, callVars, Distinct, NotWaiting
<1>2. WaitersCanBeResumed'
  BY DEF WaitersCanBeResumed, callVars, OnCallStack, NotWaiting
<1> QED
  BY <1>1, <1>2

\* Co_resume of a coroutine that has not ended and is not on the stack.
LEMMA StackPush ==
    ASSUME Types, StackSound, WaitersCanBeResumed,
           NEW c \in Co, MayResume(c), Co_resume(c),
           wait'[c] = NotWaiting,
           \A x \in Co : x # c => (wait'[x] = NotWaiting <=> wait[x] = NotWaiting),
           lpc' = lpc, lpc \notin {"wait", "prepare"}
    PROVE  /\ Co_CallBack' \in Seq(Entities)
           /\ StackSound'
           /\ WaitersCanBeResumed'
<1> DEFINE s == Co_CallBack
           a == Append(s, c)
<1>1. s \in Seq(Entities) /\ s # <<>> /\ c \in Entities
  BY DEF Types, MayResume, Entities
<1>2. /\ a \in Seq(Entities) /\ Len(a) = Len(s) + 1 /\ a[Len(s) + 1] = c
      /\ Len(s) \in Nat /\ Len(s) >= 1
      /\ \A k \in 1..Len(s) : a[k] = s[k]
  BY <1>1
<1>3. Co_CallBack' = a
  BY DEF Co_resume
<1>4. \A k \in 1..Len(s) : s[k] # c
  BY DEF MayResume, OnCallStack
<1> HIDE DEF a
<1>5. /\ \A k \in 1..Len(a) : k \in 1..Len(s) \/ k = Len(s) + 1
      /\ Len(s) + 1 # 1
  BY <1>2
<1>6. Distinct(a)
  BY <1>2, <1>4, <1>5 DEF StackSound, Distinct
<1>7. ASSUME NEW k \in 1..Len(a)
      PROVE  IF k = 1 THEN a[k] = Main
             ELSE /\ a[k] \in Co
                  /\ a[k] \in alive
                  /\ a[k] \in ISstart'
                  /\ a[k] \notin IsEnd
                  /\ wait'[a[k]] = NotWaiting
  <2>1. CASE k \in 1..Len(s)
    <3>1. a[k] = s[k] /\ s[k] # c
      BY <1>2, <1>4, <2>1
    <3> QED
      BY <2>1, <3>1 DEF StackSound, Co_resume
  <2>2. CASE k = Len(s) + 1
    BY <1>2, <1>5, <2>2 DEF MayResume, Co_resume
  <2> QED
    BY <1>5, <2>1, <2>2
<1>8. a # <<>>
  BY <1>2
<1>9. StackSound'
  BY <1>3, <1>6, <1>7, <1>8 DEF StackSound, Co_resume, Distinct, NotWaiting
<1>10. ASSUME NEW x \in Co, wait'[x] # NotWaiting
       PROVE  x \in alive /\ x \in ISstart' /\ x \notin IsEnd /\ \A k \in 1..Len(a) : a[k] # x
  <2>1. x # c
    BY <1>10
  <2>2. x \in alive /\ x \in ISstart /\ x \notin IsEnd /\ x \notin OnCallStack
    BY <1>10, <2>1 DEF WaitersCanBeResumed
  <2> QED
    BY <1>2, <1>5, <2>1, <2>2 DEF OnCallStack, Co_resume
<1>11. WaitersCanBeResumed'
  BY <1>3, <1>10 DEF WaitersCanBeResumed, Co_resume, OnCallStack, NotWaiting
<1> QED
  BY <1>2, <1>3, <1>9, <1>11

\* Co_yeild of the coroutine that runs, which may end or begin to wait.
LEMMA StackPop ==
    ASSUME Types, StackSound, WaitersCanBeResumed,
           Co_yeild,
           IsEnd' = IsEnd \/ (IsEnd' = IsEnd \cup {Current} /\ wait'[Current] = NotWaiting),
           \A x \in Co : x # Current => (wait'[x] = NotWaiting <=> wait[x] = NotWaiting),
           lpc' = lpc
    PROVE  /\ Co_CallBack' \in Seq(Entities)
           /\ StackSound'
           /\ WaitersCanBeResumed'
<1> DEFINE s == Co_CallBack
           n == Len(s)
           a == SubSeq(s, 1, n - 1)
           c == s[n]
<1>1. s \in Seq(Entities) /\ n \in Nat /\ n > 1
  BY DEF Types, Co_yeild
<1>2. c = Current /\ c \in alive /\ c \in ISstart /\ c \notin IsEnd /\ c \in Co
      /\ lpc \notin {"wait", "prepare"}
  BY <1>1, CurrentRuns DEF Current
<1>3. /\ a \in Seq(Entities) /\ Len(a) = n - 1
      /\ \A k \in 1..(n - 1) : a[k] = s[k]
  BY <1>1
<1>4. Co_CallBack' = a /\ alive' = alive /\ ISstart' = ISstart
  BY DEF Co_yeild
<1>5. \A k \in 1..(n - 1) : s[k] # c
  <2>1. \A k \in 1..(n - 1) : k \in 1..n /\ n \in 1..n /\ k # n
    BY <1>1
  <2> QED
    BY <2>1 DEF StackSound, Distinct
<1> HIDE DEF a, c
<1>6. \A k \in 1..Len(a) : k \in 1..(n - 1) /\ k \in 1..n
  BY <1>1, <1>3
<1>7. Distinct(a)
  BY <1>3, <1>6 DEF StackSound, Distinct
<1>8. ASSUME NEW k \in 1..Len(a)
      PROVE  IF k = 1 THEN a[k] = Main
             ELSE /\ a[k] \in Co
                  /\ a[k] \in alive
                  /\ a[k] \in ISstart
                  /\ a[k] \notin IsEnd'
                  /\ wait'[a[k]] = NotWaiting
  <2>1. a[k] = s[k] /\ s[k] # c /\ k \in 1..n
    BY <1>3, <1>5, <1>6
  <2> QED
    BY <1>2, <2>1 DEF StackSound
<1>9. a # <<>>
  BY <1>1, <1>3
<1>10. StackSound'
  BY <1>2, <1>4, <1>7, <1>8, <1>9 DEF StackSound, Distinct, NotWaiting
<1>11. ASSUME NEW x \in Co, wait'[x] # NotWaiting
       PROVE  x \in alive /\ x \in ISstart /\ x \notin IsEnd' /\ \A k \in 1..Len(a) : a[k] # x
  <2>1. CASE x = c
    BY <1>2, <1>3, <1>5, <1>6, <1>11, <2>1
  <2>2. CASE x # c
    <3>1. x \in alive /\ x \in ISstart /\ x \notin IsEnd /\ x \notin OnCallStack
      BY <1>2, <1>11, <2>2 DEF WaitersCanBeResumed
    <3> QED
      BY <1>2, <1>3, <1>6, <2>2, <3>1 DEF OnCallStack
  <2> QED
    BY <2>1, <2>2
<1>12. WaitersCanBeResumed'
  BY <1>4, <1>11 DEF WaitersCanBeResumed, OnCallStack, NotWaiting
<1> QED
  BY <1>3, <1>4, <1>10, <1>12

\* Co_Create: the first one puts Main on the stack, and an address that is used
\* again is of no entity that waits or runs.
LEMMA StackCreate ==
    ASSUME Types, StackSound, WaitersCanBeResumed,
           NEW c \in Co, Co_Create(c), UNCHANGED <<wait, lpc>>
    PROVE  /\ Co_CallBack' \in Seq(Entities)
           /\ StackSound'
           /\ WaitersCanBeResumed'
<1>1. /\ c \notin alive /\ alive' = alive \cup {c}
      /\ ISstart' = ISstart \ {c} /\ IsEnd' = IsEnd \ {c}
      /\ Co_CallBack' = IF Co_CallBack = <<>> THEN <<Main>> ELSE Co_CallBack
  BY DEF Co_Create, EnvAfterInit
<1>2. CASE Co_CallBack = <<>>
  <2> DEFINE a == <<Main>>
  <2>1. /\ a \in Seq(Entities) /\ Len(a) = 1 /\ a[1] = Main /\ a # <<>>
        /\ \A k \in 1..Len(a) : k = 1
    BY DEF Entities
  <2>2. Co_CallBack' = a
    BY <1>1, <1>2
  <2> HIDE DEF a
  <2>3. Distinct(a)
    BY <2>1 DEF Distinct
  <2>4. StackSound'
    BY <1>2, <2>1, <2>2, <2>3 DEF StackSound, Distinct
  <2>5. ASSUME NEW x \in Co, wait[x] # NotWaiting
        PROVE  x \in alive' /\ x \in ISstart' /\ x \notin IsEnd' /\ \A k \in 1..Len(a) : a[k] # x
    BY <1>1, <2>1, <2>5, CoAssumption DEF WaitersCanBeResumed
  <2>6. WaitersCanBeResumed'
    BY <2>2, <2>5 DEF WaitersCanBeResumed, OnCallStack, NotWaiting
  <2> QED
    BY <2>1, <2>2, <2>4, <2>6
<1>3. CASE Co_CallBack # <<>>
  <2>1. Co_CallBack' = Co_CallBack
    BY <1>1, <1>3
  <2>2. StackSound'
    BY <1>1, <2>1 DEF StackSound, Distinct, NotWaiting
  <2>3. WaitersCanBeResumed'
    BY <1>1, <2>1 DEF WaitersCanBeResumed, OnCallStack, NotWaiting
  <2> QED
    BY <2>1, <2>2, <2>3 DEF Types, Entities
<1> QED
  BY <1>2, <1>3

\* FreeCo_Entity of an entity that neither runs nor waits.
LEMMA StackFree ==
    ASSUME Types, StackSound, WaitersCanBeResumed,
           NEW c \in Co, FreeCo_Entity(c), wait[c] = NotWaiting, UNCHANGED <<wait, lpc>>
    PROVE  /\ Co_CallBack' \in Seq(Entities)
           /\ StackSound'
           /\ WaitersCanBeResumed'
<1>1. /\ alive' = alive \ {c} /\ UNCHANGED <<Co_CallBack, ISstart, IsEnd>>
      /\ \A k \in 1..Len(Co_CallBack) : Co_CallBack[k] # c
  BY DEF FreeCo_Entity, OnCallStack
<1>2. StackSound'
  BY <1>1 DEF StackSound, Distinct, NotWaiting
<1>3. WaitersCanBeResumed'
  BY <1>1 DEF WaitersCanBeResumed, OnCallStack, NotWaiting
<1> QED
  BY <1>1, <1>2, <1>3 DEF Types, Entities

-----------------------------------------------------------------------------
(* Steps that touch neither lists nor waits *)

\* Neither the lists nor the waits change.
LEMMA QueuesRest ==
    ASSUME QueuesSound, UNCHANGED <<active, waiters, wait>>,
           \A x \in Co : IsInWheel(x)' <=> IsInWheel(x)
    PROVE  QueuesSound' /\ \A x : IsActive(x)' <=> IsActive(x)
<1>1. \A x : IsActive(x)' <=> IsActive(x)
  BY DEF IsActive, ToSet
<1>2. QueuesSound'
  BY <1>1 DEF QueuesSound, OneEach, Distinct, ToSet, NotWaiting
<1> QED
  BY <1>1, <1>2

\* Neither the registrations nor the waits nor the events to prepare change.
LEMMA EventsRest ==
    ASSUME EventsSound, UNCHANGED <<epoll, wait, batch>>,
           lpc' # "prepare" => batch = <<>>
    PROVE  EventsSound'
BY DEF EventsSound, RegistrationsSound, Distinct

\* Only the call stack changes, or the clock, or nothing the loop looks at.
LEMMA OnlyCalls ==
    ASSUME LoopInv,
           UNCHANGED <<lpc, batch, Now, epoll, active, waiters, wait, wheelVars>>,
           TW!Tick \/ TW!SetBack \/ UNCHANGED clockVars,
           Co_CallBack' \in Seq(Entities),
           StackSound',
           WaitersCanBeResumed'
    PROVE  LoopInv'
<1>1. Types'
  BY DEF LoopInv, Types, Entities, PollRecords, CVRecords, NotWaiting
<1>2. TWP!WheelInv' /\ \A x : IsInWheel(x)' <=> IsInWheel(x)
  BY WheelRests DEF LoopInv
<1>3. QueuesSound' /\ \A x : IsActive(x)' <=> IsActive(x)
  BY <1>2, QueuesRest DEF LoopInv
<1>4. EventsSound'
  BY EventsRest DEF LoopInv, EventsSound
<1>5. WaitsSound'
  <2>1. WaitsSound
    BY DEF LoopInv
  <2> QED
    BY <1>3, <2>1 DEF WaitsSound, wheelVars, ToSet, NotWaiting
<1>6. RoundSound'
  <2>1. RoundSound
    BY DEF LoopInv
  <2> QED
    BY <1>2, <2>1 DEF RoundSound, wheelVars
<1> QED
  BY <1>1, <1>2, <1>3, <1>4, <1>5, <1>6 DEF LoopInv

\* The coroutines' calls and returns.
LEMMA CallsKeep ==
    ASSUME LoopInv,
           (\E c \in Co : Create(c) \/ Resume(c) \/ Free(c)) \/ Yield \/ Finish
    PROVE  LoopInv'
<1>1. Types /\ StackSound /\ WaitersCanBeResumed
  BY DEF LoopInv
<1>2. ASSUME NEW c \in Co, Create(c)
      PROVE  LoopInv'
  <2>1. UNCHANGED <<lpc, batch, Now, epoll, active, waiters, wait, wheelVars>> /\ UNCHANGED clockVars
    BY <1>2 DEF Create, loopVars
  <2>2. Co_CallBack' \in Seq(Entities) /\ StackSound' /\ WaitersCanBeResumed'
    BY <1>1, <1>2, <2>1, StackCreate DEF Create
  <2> QED
    BY <2>1, <2>2, OnlyCalls
<1>3. ASSUME NEW c \in Co, Resume(c)
      PROVE  LoopInv'
  <2>1. UNCHANGED <<lpc, batch, Now, epoll, active, waiters, wait, wheelVars>> /\ UNCHANGED clockVars
    BY <1>3 DEF Resume, loopVars, waitVars
  <2>2. MayResume(c) /\ Co_resume(c) /\ wait[c] = NotWaiting
    BY <1>3 DEF Resume
  <2>3. lpc \notin {"wait", "prepare"}
    BY <1>1, <1>3 DEF Resume, UserRuns, StackSound
  <2>4. Co_CallBack' \in Seq(Entities) /\ StackSound' /\ WaitersCanBeResumed'
    BY <1>1, <2>1, <2>2, <2>3, StackPush
  <2> QED
    BY <2>1, <2>4, OnlyCalls
<1>4. ASSUME NEW c \in Co, Free(c)
      PROVE  LoopInv'
  <2>1. UNCHANGED <<lpc, batch, Now, epoll, active, waiters, wait, wheelVars>> /\ UNCHANGED clockVars
    BY <1>4 DEF Free, loopVars, waitVars
  <2>2. Co_CallBack' \in Seq(Entities) /\ StackSound' /\ WaitersCanBeResumed'
    BY <1>1, <1>4, <2>1, StackFree DEF Free
  <2> QED
    BY <2>1, <2>2, OnlyCalls
<1>5. CASE Yield \/ Finish
  <2>1. UNCHANGED <<lpc, batch, Now, epoll, active, waiters, wait, wheelVars>> /\ UNCHANGED clockVars
    BY <1>5 DEF Yield, Finish, loopVars
  <2>2. /\ Co_yeild
        /\ IsEnd' = IsEnd \/ IsEnd' = IsEnd \cup {Current}
    BY <1>5 DEF Yield, Finish, YieldInFun, Co_realRunningFunEnd
  <2>3. wait'[Current] = NotWaiting
    BY <1>1, <2>1, <2>2, CurrentRuns DEF Co_yeild
  <2>4. Co_CallBack' \in Seq(Entities) /\ StackSound' /\ WaitersCanBeResumed'
    BY <1>1, <2>1, <2>2, <2>3, StackPop
  <2> QED
    BY <2>1, <2>4, OnlyCalls
<1> QED
  BY <1>2, <1>3, <1>4, <1>5

\* The loop goes on to its next part, or the clock goes on.
LEMMA LoopGoesOn ==
    ASSUME LoopInv, EnterLoop \/ EndRound \/ FunReturns \/ ClockStep
    PROVE  LoopInv'
<1>1. Types /\ StackSound /\ WaitersCanBeResumed
  BY DEF LoopInv
<1>2. CASE ClockStep
  <2>1. /\ UNCHANGED <<lpc, batch, Now, epoll, active, waiters, wait, wheelVars>>
        /\ UNCHANGED callVars
        /\ TW!Tick \/ TW!SetBack
    BY <1>2 DEF ClockStep, loopVars, waitVars
  <2>2. Co_CallBack' \in Seq(Entities)
    BY <1>1, <2>1 DEF Types, callVars
  <2>3. StackSound' /\ WaitersCanBeResumed'
    BY <1>1, <2>1, StackRests DEF StackSound
  <2> QED
    BY <2>1, <2>2, <2>3, OnlyCalls
<1>3. CASE EnterLoop \/ EndRound \/ FunReturns
  <2>1. /\ UNCHANGED <<callVars, batch, Now, epoll, active, waiters, wait, wheelVars, clockVars>>
        /\ Len(Co_CallBack) = 1
        /\ lpc # "prepare"
        /\ lpc = "dispatch" => active = <<>>
        /\ lpc' \in {"wait", "fun", "out"}
        /\ lpc' = "fun" => lpc = "dispatch"
    BY <1>3 DEF EnterLoop, EndRound, FunReturns, waitVars, LoopRuns
  <2>2. Types'
    BY <1>1, <2>1 DEF Types, callVars, Entities, PollRecords, CVRecords, NotWaiting
  <2>3. StackSound' /\ WaitersCanBeResumed'
    <3>1. Co_CallBack # <<>>
      <4>1. Len(<<>>) = 0
        OBVIOUS
      <4> QED
        BY <2>1, <4>1
    <3> QED
      BY <1>1, <2>1, <3>1, StackRests
  <2>4. TWP!WheelInv' /\ \A x : IsInWheel(x)' <=> IsInWheel(x)
    BY <2>1, WheelRests DEF LoopInv
  <2>5. QueuesSound' /\ \A x : IsActive(x)' <=> IsActive(x)
    BY <2>1, <2>4, QueuesRest DEF LoopInv
  <2>6. EventsSound'
    BY <2>1, EventsRest DEF LoopInv, EventsSound
  <2>7. WaitsSound'
    <3>1. \A x : lpc = "dispatch" => ~ IsActive(x)
      BY <2>1 DEF IsActive, ToSet
    <3>2. ASSUME NEW c \in Co
          PROVE  /\ wait[c].on = "poll" => ~ wait[c].IsHandle
                 /\ wait[c] # NotWaiting => ~ wait[c].IsTimeout
      BY <2>1, <3>1 DEF LoopInv, WaitsSound
    <3>3. WaitsSound
      BY DEF LoopInv
    <3> QED
      BY <2>1, <3>2, <3>3 DEF WaitsSound, ToSet, NotWaiting
  <2>8. RoundSound'
    <3>1. RoundSound
      BY DEF LoopInv
    <3> QED
      BY <2>1, <2>4, <3>1 DEF RoundSound, wheelVars
  <2> QED
    BY <2>2, <2>3, <2>4, <2>5, <2>6, <2>7, <2>8 DEF LoopInv
<1> QED
  BY <1>2, <1>3

-----------------------------------------------------------------------------
(* epoll_wait and the events *)

\* The events of a round are finitely many.
LEMMA EventsFinite ==
    ASSUME NEW fds \in SUBSET Fd
    PROVE  LET S == {epoll[f] : f \in fds} IN IsFiniteSet(S) /\ Cardinality(S) \in Nat
<1> DEFINE S == {epoll[f] : f \in fds}
           e == [f \in fds |-> epoll[f]]
<1>1. IsFiniteSet(fds)
  BY PollAssumption, FS_Subset
<1>2. e \in Surjection(fds, S)
  BY DEF Surjection
<1>3. IsFiniteSet(S)
  BY <1>1, <1>2, FS_Surjection
<1> QED
  BY <1>3, FS_CardinalityType

\* Epoll_Wait returns different events, each of a registered fd: they are new
\* to their polls, as no poll is marked between two rounds.
LEMMA EpollWaitKeeps ==
    ASSUME LoopInv, Epoll_Wait
    PROVE  LoopInv'
<1>1. /\ Types /\ StackSound /\ WaitersCanBeResumed /\ QueuesSound /\ EventsSound
      /\ WaitsSound /\ RoundSound /\ TWP!WheelInv
  BY DEF LoopInv
<1>2. /\ UNCHANGED <<callVars, Now, epoll, active, waiters, wait, wheelVars, clockVars>>
      /\ lpc = "wait" /\ lpc' = "prepare"
  BY DEF Epoll_Wait, waitVars
<1>3. PICK fds \in SUBSET {f \in Fd : epoll[f] # NoItem} :
         batch' \in SetToSeqs({epoll[f] : f \in fds})
  BY DEF Epoll_Wait
<1> DEFINE S == {epoll[f] : f \in fds}
           n == Cardinality(S)
<1>4. n \in Nat
  BY <1>3, EventsFinite
<1>5. S \subseteq Co \X (Nat \ {0})
  BY <1>1, <1>3 DEF Types
<1>6. /\ batch' \in [1..n -> S]
      /\ \A i, j \in 1..n : i # j => batch'[i] # batch'[j]
  BY <1>3 DEF SetToSeqs
<1>7. ASSUME NEW e \in S
      PROVE  wait[e[1]].on = "poll" /\ e[1] \in Co /\ ~ wait[e[1]].IsHandle
             /\ e[2] \notin wait[e[1]].revents
  <2>1. e[1] \in Co
    BY <1>5
  <2>2. wait[e[1]].on = "poll"
    BY <1>1, <1>3 DEF EventsSound, RegistrationsSound
  <2>3. ~ wait[e[1]].IsHandle
    BY <1>1, <1>2, <2>1, <2>2 DEF WaitsSound
  <2>4. wait[e[1]] \in PollRecords
    BY <1>1, <2>1, <2>2, WaitCases
  <2>5. wait[e[1]].revents = {}
    BY <1>1, <2>1, <2>2, <2>3 DEF WaitsSound
  <2> QED
    BY <2>1, <2>2, <2>3, <2>5
<1> HIDE DEF S, n
<1>8. /\ batch' \in Seq(Co \X (Nat \ {0})) /\ Len(batch') = n
      /\ \A i \in 1..n : batch'[i] \in S
  <2>1. batch' \in [1..n -> Co \X (Nat \ {0})]
    BY <1>5, <1>6
  <2> QED
    BY <1>4, <1>6, <2>1
<1>9. Types'
  BY <1>1, <1>2, <1>8 DEF Types, callVars, Entities, PollRecords, CVRecords, NotWaiting
<1>10. StackSound' /\ WaitersCanBeResumed'
  <2>1. Len(Co_CallBack) = 1 /\ Co_CallBack # <<>>
    BY <1>1, <1>2 DEF StackSound
  <2> QED
    BY <1>1, <1>2, <2>1, StackRests
<1>11. TWP!WheelInv' /\ \A x : IsInWheel(x)' <=> IsInWheel(x)
  BY <1>1, <1>2, WheelRests
<1>12. QueuesSound' /\ \A x : IsActive(x)' <=> IsActive(x)
  BY <1>1, <1>2, <1>11, QueuesRest
<1>13. EventsSound'
  <2>1. \A j \in 1..Len(batch') :
           wait[batch'[j][1]].on = "poll" /\ batch'[j][2] \notin wait[batch'[j][1]].revents
    BY <1>7, <1>8
  <2>2. Distinct(batch')
    BY <1>6, <1>8 DEF Distinct
  <2> QED
    BY <1>1, <1>2, <2>1, <2>2 DEF EventsSound, RegistrationsSound, Distinct
<1>14. WaitsSound'
  BY <1>1, <1>2, <1>12 DEF WaitsSound, ToSet, wheelVars, NotWaiting
<1>15. RoundSound'
  BY <1>2 DEF RoundSound
<1> QED
  BY <1>9, <1>10, <1>11, <1>12, <1>13, <1>14, <1>15 DEF LoopInv

\* What CoPrepare_ does to the lists: an active poll stays as it is, another
\* one leaves the wheel and becomes active.
LEMMA PrepareMoves ==
    ASSUME LoopInv, lpc = "prepare",
           NEW c \in Co, NEW i \in Nat \ {0}, wait[c].on = "poll", CoPrepare_(c, i),
           UNCHANGED <<Start, Index, ExpireTime, clockVars>>
    PROVE  /\ TWP!WheelInv'
           /\ active' \in Seq(Co \X Nat) /\ OneEach(active')
           /\ wait[c].IsHandle => ToSet(active') = ToSet(active)
           /\ ~ wait[c].IsHandle => ToSet(active') = ToSet(active) \cup {<<c, i>>}
           /\ \A x \in Co : IsActive(x)' <=> IsActive(x) \/ x = c
           /\ \A x \in Co : IsInWheel(x)' <=> IsInWheel(x) /\ x # c
           /\ ~ wait[c].IsTimeout
<1>1. /\ Types /\ QueuesSound /\ WaitsSound /\ TWP!WheelInv
      /\ active \in Seq(Co \X Nat) /\ OneEach(active)
  BY DEF LoopInv, Types, QueuesSound
<1>2. ~ wait[c].IsTimeout
  BY <1>1, WaitCases DEF WaitsSound
<1>3. \A x : IsActive(x)' <=> \E e \in ToSet(active') : e[1] = x
  BY DEF IsActive, ToSet
<1>4. CASE wait[c].IsHandle
  <2>1. UNCHANGED <<active, wheelVars, clockVars>>
    BY <1>4 DEF CoPrepare_, wheelVars
  <2>2. TWP!WheelInv' /\ \A x : IsInWheel(x)' <=> IsInWheel(x)
    BY <1>1, <2>1, WheelRests
  <2>3. IsActive(c)
    BY <1>1, <1>4 DEF WaitsSound
  <2>4. ~ IsInWheel(c)
    BY <1>1, <2>3 DEF QueuesSound
  <2>5. \A x : IsActive(x)' <=> IsActive(x)
    BY <1>3, <2>1 DEF IsActive
  <2> QED
    BY <1>1, <1>2, <1>4, <2>1, <2>2, <2>3, <2>4, <2>5
<1>5. CASE ~ wait[c].IsHandle
  <2> DEFINE l == Without(active, {c})
  <2>1. active' = Append(l, <<c, i>>) /\ Wheel' = WheelWithout({c})
    BY <1>5 DEF CoPrepare_
  <2>2. ~ IsActive(c)
    BY <1>1, <1>2, <1>5 DEF IsActive, WaitsSound
  <2>3. l \in Seq(Co \X Nat) /\ OneEach(l) /\ ToSet(l) = ToSet(active)
    <3>1. /\ l \in Seq(Co \X Nat) /\ OneEach(l)
          /\ ToSet(l) = {e \in ToSet(active) : ~ (e[1] \in {c} /\ e[2] = 0)}
      BY <1>1, WithoutElements
    <3>2. \A e \in ToSet(active) : e[1] # c
      BY <2>2 DEF IsActive
    <3> QED
      BY <3>1, <3>2
  <2> HIDE DEF l
  <2>4. <<c, i>> \in Co \X Nat /\ <<c, i>>[1] = c /\ <<c, i>> \notin ToSet(l)
    <3>1. <<c, i>> \in Co \X Nat /\ <<c, i>>[1] = c
      OBVIOUS
    <3> QED
      BY <2>2, <2>3, <3>1 DEF IsActive
  <2>5. /\ active' \in Seq(Co \X Nat)
        /\ ToSet(active') = ToSet(l) \cup {<<c, i>>}
        /\ Distinct(active')
    <3> DEFINE T == Co \X Nat
    <3>1. l \in Seq(T) /\ <<c, i>> \in T /\ Distinct(l)
      BY <2>3, <2>4 DEF OneEach
    <3> HIDE DEF T
    <3>2. /\ Append(l, <<c, i>>) \in Seq(T)
          /\ ToSet(Append(l, <<c, i>>)) = ToSet(l) \cup {<<c, i>>}
          /\ Distinct(Append(l, <<c, i>>))
      BY <2>4, <3>1, AppendElements
    <3> QED
      BY <2>1, <3>2 DEF T
  <2>6. OneEach(active')
    BY <2>2, <2>3, <2>4, <2>5 DEF OneEach, IsActive
  <2>7. TWP!WheelInv' /\ \A x \in Co : IsInWheel(x)' <=> IsInWheel(x) /\ x \notin {c}
    BY <1>1, <2>1, WheelRemoves
  <2>8. \A x \in Co : IsActive(x)' <=> IsActive(x) \/ x = c
    BY <1>3, <2>3, <2>4, <2>5 DEF IsActive
  <2> QED
    BY <1>2, <1>5, <2>3, <2>5, <2>6, <2>7, <2>8
<1> QED
  BY <1>4, <1>5

\* What CoPrepare_ does to the poll.
LEMMA PrepareMarks ==
    ASSUME Types, NEW c \in Co, NEW i \in Nat, wait[c].on = "poll", CoPrepare_(c, i)
    PROVE  /\ wait' \in [Co -> {NotWaiting} \cup PollRecords \cup CVRecords]
           /\ \A x \in Co : x # c => wait'[x] = wait[x]
           /\ wait'[c] \in PollRecords
           /\ wait'[c].on = "poll" /\ wait'[c].fds = wait[c].fds
           /\ wait'[c].RaisedNumber = wait[c].RaisedNumber + 1
           /\ wait'[c].revents = wait[c].revents \cup {i}
           /\ wait'[c].IsHandle
           /\ wait'[c].IsTimeout = wait[c].IsTimeout
<1> DEFINE w == wait[c]
           u == [w EXCEPT !.RaisedNumber = @ + 1, !.revents = @ \cup {i}, !.IsHandle = TRUE]
<1>1. w \in PollRecords /\ wait \in [Co -> {NotWaiting} \cup PollRecords \cup CVRecords]
  BY WaitCases DEF Types
<1>2. wait' = [wait EXCEPT ![c] = u]
  BY <1>1 DEF CoPrepare_, Types
<1>3. /\ u \in PollRecords
      /\ u.on = "poll" /\ u.fds = w.fds
      /\ u.RaisedNumber = w.RaisedNumber + 1
      /\ u.revents = w.revents \cup {i}
      /\ u.IsHandle
      /\ u.IsTimeout = w.IsTimeout
  <2> HIDE DEF w
  <2>1. w \in [on : {"poll"}, fds : Polls, RaisedNumber : Nat, revents : SUBSET Nat,
               IsHandle : BOOLEAN, IsTimeout : BOOLEAN]
    BY <1>1 DEF PollRecords, w
  <2>2. u.on = "poll" /\ u.fds = w.fds
    BY <2>1
  <2>3. u.RaisedNumber = w.RaisedNumber + 1
    BY <2>1
  <2>4. u.revents = w.revents \cup {i}
    BY <2>1
  <2>5. u.IsHandle
    BY <2>1
  <2>6. u.IsTimeout = w.IsTimeout
    BY <2>1
  <2>7. u \in PollRecords
    <3> DEFINE n == w.RaisedNumber + 1
               s == w.revents \cup {i}
    <3>1. n \in Nat /\ s \in SUBSET Nat /\ TRUE \in BOOLEAN
      BY <2>1
    <3>2. u = [w EXCEPT !.RaisedNumber = n, !.revents = s, !.IsHandle = TRUE]
      OBVIOUS
    <3> HIDE DEF n, s, u
    <3>3. [w EXCEPT !.RaisedNumber = n] \in PollRecords
      BY <2>1, <3>1 DEF PollRecords
    <3>4. [w EXCEPT !.RaisedNumber = n, !.revents = s] \in PollRecords
      BY <3>1, <3>3 DEF PollRecords
    <3>5. [w EXCEPT !.RaisedNumber = n, !.revents = s, !.IsHandle = TRUE] \in PollRecords
      BY <3>1, <3>4, Zenon DEF PollRecords
    <3> QED
      BY <3>2, <3>5
  <2> QED
    BY <2>2, <2>3, <2>4, <2>5, <2>6, <2>7
<1> HIDE DEF u
<1>4. wait'[c] = u /\ \A x \in Co : x # c => wait'[x] = wait[x]
  BY <1>1, <1>2
<1>5. wait' \in [Co -> {NotWaiting} \cup PollRecords \cup CVRecords]
  BY <1>1, <1>2, <1>3
<1> QED
  BY <1>3, <1>4, <1>5

\* CoPrepare_ for the next event keeps the invariant.
LEMMA PrepareKeeps ==
    ASSUME LoopInv, Prepare
    PROVE  LoopInv'
<1> DEFINE b == Head(batch)
           c == b[1]
           i == b[2]
           w == wait[c]
<1>1. /\ Types /\ StackSound /\ WaitersCanBeResumed /\ QueuesSound /\ EventsSound
      /\ WaitsSound /\ RoundSound /\ TWP!WheelInv
  BY DEF LoopInv
<1>2. /\ UNCHANGED <<callVars, lpc, Now, epoll, waiters, Start, Index, ExpireTime, clockVars>>
      /\ lpc = "prepare" /\ batch # <<>>
      /\ CoPrepare_(c, i)
      /\ batch' = Tail(batch)
  BY DEF Prepare
<1>3. batch \in Seq(Co \X (Nat \ {0})) /\ Distinct(batch)
  BY <1>1 DEF Types, EventsSound
<1>4. /\ b \in ToSet(batch)
      /\ batch' \in Seq(Co \X (Nat \ {0})) /\ Distinct(batch')
      /\ ToSet(batch') = ToSet(batch) \ {b}
      /\ ToSet(batch) \subseteq Co \X (Nat \ {0})
  <2> DEFINE T == Co \X (Nat \ {0})
  <2>1. batch \in Seq(T)
    BY <1>3
  <2> HIDE DEF T
  <2>2. /\ Head(batch) \in ToSet(batch)
        /\ Tail(batch) \in Seq(T) /\ Distinct(Tail(batch))
        /\ ToSet(Tail(batch)) = ToSet(batch) \ {Head(batch)}
        /\ ToSet(batch) \subseteq T
    BY <1>2, <1>3, <2>1, TailElements, InToSet
  <2> QED
    BY <1>2, <2>2 DEF T
<1>5. /\ ToSet(batch) = {batch[j] : j \in 1..Len(batch)}
      /\ ToSet(batch') = {batch'[j] : j \in 1..Len(batch')}
  BY <1>3, <1>4, InToSet
<1>6. \A e \in ToSet(batch) : wait[e[1]].on = "poll" /\ e[2] \notin wait[e[1]].revents
  BY <1>1, <1>5 DEF EventsSound, RegistrationsSound
<1>7. b = <<c, i>> /\ c \in Co /\ i \in Nat \ {0} /\ i \in Nat
      /\ wait[c].on = "poll" /\ i \notin wait[c].revents
  BY <1>4, <1>6
<1> HIDE DEF b, c, i, w
<1>8. /\ TWP!WheelInv'
      /\ active' \in Seq(Co \X Nat) /\ OneEach(active')
      /\ wait[c].IsHandle => ToSet(active') = ToSet(active)
      /\ ~ wait[c].IsHandle => ToSet(active') = ToSet(active) \cup {<<c, i>>}
      /\ \A x \in Co : IsActive(x)' <=> IsActive(x) \/ x = c
      /\ \A x \in Co : IsInWheel(x)' <=> IsInWheel(x) /\ x # c
      /\ ~ wait[c].IsTimeout
  BY <1>2, <1>7, PrepareMoves
<1>9. /\ wait' \in [Co -> {NotWaiting} \cup PollRecords \cup CVRecords]
      /\ \A x \in Co : x # c => wait'[x] = wait[x]
      /\ wait'[c] \in PollRecords
      /\ wait'[c].on = "poll" /\ wait'[c].fds = wait[c].fds
      /\ wait'[c].RaisedNumber = wait[c].RaisedNumber + 1
      /\ wait'[c].revents = wait[c].revents \cup {i}
      /\ wait'[c].IsHandle
      /\ wait'[c].IsTimeout = wait[c].IsTimeout
  BY <1>1, <1>2, <1>7, PrepareMarks
<1>10. /\ wait[c] # NotWaiting /\ wait'[c] # NotWaiting
       /\ \A x \in Co : /\ wait'[x].on = wait[x].on
                        /\ wait'[x] = NotWaiting <=> wait[x] = NotWaiting
  <2>1. NotWaiting.on = "none"
    BY DEF NotWaiting
  <2> QED
    BY <1>7, <1>9, <2>1
<1>11. Types'
  BY <1>1, <1>2, <1>4, <1>8, <1>9 DEF Types, callVars, Entities, PollRecords, CVRecords, NotWaiting
<1>12. StackSound' /\ WaitersCanBeResumed'
  <2>1. Len(Co_CallBack) = 1 /\ Co_CallBack # <<>>
    BY <1>1, <1>2 DEF StackSound
  <2> QED
    BY <1>1, <1>2, <1>10, <2>1, StackRests
<1>13. QueuesSound'
  <2>1. \A v \in CV : waiters'[v] = waiters[v]
    BY <1>2
  <2>2. OneEach(active)'
    BY <1>8 DEF OneEach, Distinct, ToSet
  <2>3. \A v \in CV : Distinct(waiters'[v])
    BY <1>1, <2>1 DEF QueuesSound
  <2>4. \A x \in Co : IsActive(x)' => ~ IsInWheel(x)'
    BY <1>1, <1>8 DEF QueuesSound
  <2>5. \A x \in Co : IsActive(x)' \/ IsInWheel(x)' => wait'[x] # NotWaiting
    BY <1>1, <1>8, <1>10 DEF QueuesSound
  <2>6. \A v \in CV, x \in Co : x \in ToSet(waiters[v]) => wait'[x].on = "cv" /\ wait'[x].cv = v
    BY <1>1, <1>7, <1>9 DEF QueuesSound
  <2>7. \A x \in Co : wait'[x].on = "poll" => IsActive(x)' \/ IsInWheel(x)'
    BY <1>1, <1>8, <1>10 DEF QueuesSound
  <2>8. \A x \in Co : wait'[x].on = "cv" =>
           IsActive(x)' \/ IsInWheel(x)' \/ x \in ToSet(waiters[wait'[x].cv])
    BY <1>1, <1>8, <1>9 DEF QueuesSound
  <2> QED
    BY <1>2, <2>2, <2>3, <2>4, <2>5, <2>6, <2>7, <2>8 DEF QueuesSound, Distinct, ToSet, NotWaiting
<1>14. EventsSound'
  <2>1. \A x \in Co : wait'[x].on = wait[x].on /\ wait'[x].on = "poll" => wait'[x].fds = wait[x].fds
    BY <1>9
  <2>2. ASSUME NEW j \in 1..Len(batch')
        PROVE  wait'[batch'[j][1]].on = "poll" /\ batch'[j][2] \notin wait'[batch'[j][1]].revents
    <3> DEFINE e == batch'[j]
    <3>1. e \in ToSet(batch) /\ e # b /\ e[1] \in Co /\ e = <<e[1], e[2]>>
      <4>1. e \in ToSet(batch')
        BY <1>5
      <4> HIDE DEF e
      <4>2. e \in ToSet(batch) /\ e # b
        BY <1>4, <4>1
      <4>3. e \in Co \X (Nat \ {0})
        BY <1>4, <4>2
      <4> QED
        BY <4>2, <4>3
    <3> HIDE DEF e
    <3>2. wait[e[1]].on = "poll" /\ e[2] \notin wait[e[1]].revents
      BY <1>6, <3>1
    <3>3. e[1] = c => e[2] # i
      BY <1>7, <3>1
    <3> QED
      BY <1>9, <1>10, <3>1, <3>2, <3>3 DEF e
  <2>3. ASSUME NEW f \in Fd, epoll[f] # NoItem
        PROVE  LET x == epoll[f][1]
                   k == epoll[f][2]
               IN  wait'[x].on = "poll" /\ k \in 1..Len(wait'[x].fds) /\ wait'[x].fds[k] = f
    <3>1. epoll[f][1] \in Co
      BY <1>1, <2>3 DEF Types
    <3> QED
      BY <1>1, <1>9, <1>10, <2>3, <3>1 DEF EventsSound, RegistrationsSound
  <2>4. ASSUME NEW x \in Co, wait'[x].on = "poll", NEW k \in 1..Len(wait'[x].fds),
               wait'[x].fds[k] \notin BadFd
        PROVE  epoll[wait'[x].fds[k]] = <<x, k>>
    <3>1. wait[x].on = "poll" /\ wait'[x].fds = wait[x].fds
      BY <1>10, <2>1, <2>4
    <3>2. \A n \in 1..Len(wait[x].fds) :
             wait[x].fds[n] \notin BadFd => epoll[wait[x].fds[n]] = <<x, n>>
      BY <1>1, <3>1 DEF EventsSound, RegistrationsSound
    <3> QED
      BY <2>4, <3>1, <3>2
  <2> QED
    BY <1>1, <1>2, <1>4, <2>2, <2>3, <2>4 DEF EventsSound, RegistrationsSound, Distinct
<1>15. WaitsSound'
  <2>1. ASSUME NEW x \in Co, wait'[x].on = "poll"
        PROVE  /\ IsFiniteSet(wait'[x].revents)
               /\ wait'[x].RaisedNumber = Cardinality(wait'[x].revents)
               /\ wait'[x].IsHandle <=> wait'[x].revents # {}
               /\ wait'[x].IsHandle => lpc' \in {"prepare", "dispatch"} /\ IsActive(x)'
    <3>1. CASE x = c
      <4>1. IsFiniteSet(wait[c].revents) /\ wait[c].RaisedNumber = Cardinality(wait[c].revents)
        BY <1>1, <1>7 DEF WaitsSound
      <4>2. /\ IsFiniteSet(wait[c].revents \cup {i})
            /\ Cardinality(wait[c].revents \cup {i}) = Cardinality(wait[c].revents) + 1
        BY <1>7, <4>1, FS_AddElement
      <4>3. i \in wait[c].revents \cup {i}
        OBVIOUS
      <4> QED
        BY <1>2, <1>7, <1>8, <1>9, <3>1, <4>1, <4>2, <4>3
    <3>2. CASE x # c
      BY <1>1, <1>2, <1>8, <1>9, <2>1, <3>2 DEF WaitsSound
    <3> QED
      BY <3>1, <3>2
  <2>2. ASSUME NEW x \in Co, wait'[x] # NotWaiting
        PROVE  ~ wait'[x].IsTimeout
    BY <1>1, <1>2, <1>8, <1>9, <2>2 DEF WaitsSound
  <2>3. ASSUME NEW e \in ToSet(active')
        PROVE  IF wait'[e[1]].on = "poll"
               THEN /\ wait'[e[1]].IsHandle <=> e[2] # 0
                    /\ wait'[e[1]].IsTimeout <=> e[2] = 0
               ELSE e[2] = 0
    <3>1. CASE e \in ToSet(active)
      <4>1. e[1] \in Co
        BY <1>1, <3>1, InToSet DEF Types
      <4>2. e[1] = c => e[2] # 0
        BY <1>1, <1>7, <1>8, <3>1 DEF WaitsSound
      <4> QED
        BY <1>1, <1>8, <1>9, <3>1, <4>1, <4>2 DEF WaitsSound
    <3>2. CASE e = <<c, i>>
      <4>1. e[1] = c /\ e[2] = i /\ i # 0
        BY <1>7, <3>2
      <4> QED
        BY <1>8, <1>9, <4>1
    <3> QED
      BY <1>8, <3>1, <3>2
  <2> QED
    BY <2>1, <2>2, <2>3 DEF WaitsSound, ToSet, NotWaiting
<1>16. RoundSound'
  BY <1>2 DEF RoundSound
<1> QED
  BY <1>8, <1>11, <1>12, <1>13, <1>14, <1>15, <1>16 DEF LoopInv

-----------------------------------------------------------------------------
(* The timeouts *)

\* SetUpTimepoutLable marks a wait and changes nothing else of it.
LEMMA TimedOut ==
    ASSUME NEW w
    PROVE  LET u == [w EXCEPT !.IsTimeout = TRUE]
           IN  /\ w \in PollRecords =>
                    /\ u \in PollRecords
                    /\ u.fds = w.fds /\ u.RaisedNumber = w.RaisedNumber
                    /\ u.revents = w.revents /\ u.IsHandle = w.IsHandle
                    /\ u.IsTimeout
               /\ w \in CVRecords => u \in CVRecords /\ u.cv = w.cv /\ u.IsTimeout
<1> DEFINE u == [w EXCEPT !.IsTimeout = TRUE]
<1>1. ASSUME w \in PollRecords
      PROVE  /\ u.fds = w.fds /\ u.RaisedNumber = w.RaisedNumber
             /\ u.revents = w.revents /\ u.IsHandle = w.IsHandle
             /\ u.IsTimeout
  BY <1>1 DEF PollRecords
<1>2. ASSUME w \in PollRecords
      PROVE  u \in PollRecords
  BY <1>2, Zenon DEF PollRecords
<1>3. ASSUME w \in CVRecords
      PROVE  u.cv = w.cv /\ u.IsTimeout
  BY <1>3 DEF CVRecords
<1>4. ASSUME w \in CVRecords
      PROVE  u \in CVRecords
  BY <1>4, Zenon DEF CVRecords
<1> QED
  BY <1>1, <1>2, <1>3, <1>4

\* What the loop does with the coroutines it took out of the wheel.
LEMMA TakeOutMarks ==
    ASSUME LoopInv, TakeOutInTime
    PROVE  LET T == ToSet(TW!TakenOut(clock))
           IN  /\ \A x \in T : x \in Co /\ IsInWheel(x) /\ ~ IsActive(x) /\ wait[x] # NotWaiting
               /\ wait' \in [Co -> {NotWaiting} \cup PollRecords \cup CVRecords]
               /\ \A x \in Co : x \notin T => wait'[x] = wait[x]
               /\ \A x \in Co : wait'[x].on = wait[x].on
               /\ \A x \in T : wait[x].on = "poll" =>
                     /\ wait'[x].fds = wait[x].fds /\ wait'[x].RaisedNumber = wait[x].RaisedNumber
                     /\ wait'[x].revents = wait[x].revents
                     /\ wait'[x].IsHandle = wait[x].IsHandle
               /\ \A x \in T : wait[x].on = "cv" => wait'[x].cv = wait[x].cv
               /\ \A x \in T : wait'[x].IsTimeout
<1> DEFINE t == TW!TakenOut(clock)
           T == ToSet(t)
<1>1. Types /\ QueuesSound /\ TWP!WheelInv
  BY DEF LoopInv
<1>2. /\ t \in Seq(Co)
      /\ \A x : Contains(t, x) => x \in Co /\ IsInWheel(x)
  BY <1>1, WheelCollects DEF TakeOutInTime, TakeOut, clockVars
<1>3. wait' = [x \in Co |-> IF Contains(t, x) THEN [wait[x] EXCEPT !.IsTimeout = TRUE] ELSE wait[x]]
  BY DEF TakeOutInTime, TakeOut
<1> HIDE DEF t
<1>4. \A x : Contains(t, x) <=> x \in T
  BY <1>2, InToSet
<1>5. \A x \in T : x \in Co /\ IsInWheel(x) /\ ~ IsActive(x) /\ wait[x] # NotWaiting
  BY <1>1, <1>2, <1>4 DEF QueuesSound
<1> HIDE DEF T
<1>6. ASSUME NEW x \in Co
      PROVE  IF x \in T THEN wait'[x] = [wait[x] EXCEPT !.IsTimeout = TRUE]
             ELSE wait'[x] = wait[x]
  BY <1>3, <1>4
<1>7. ASSUME NEW x \in T
      PROVE  /\ wait'[x].on = wait[x].on
             /\ wait'[x] \in PollRecords \cup CVRecords
             /\ wait[x].on = "poll" =>
                   /\ wait'[x].fds = wait[x].fds /\ wait'[x].RaisedNumber = wait[x].RaisedNumber
                   /\ wait'[x].revents = wait[x].revents
                   /\ wait'[x].IsHandle = wait[x].IsHandle
             /\ wait[x].on = "cv" => wait'[x].cv = wait[x].cv
             /\ wait'[x].IsTimeout
  <2>1. /\ x \in Co /\ wait'[x] = [wait[x] EXCEPT !.IsTimeout = TRUE]
        /\ wait[x] \in PollRecords \cup CVRecords
    BY <1>1, <1>5, <1>6 DEF Types
  <2> DEFINE u == [wait[x] EXCEPT !.IsTimeout = TRUE]
  <2>2. /\ wait[x] \in PollRecords =>
              /\ u \in PollRecords
              /\ u.fds = wait[x].fds /\ u.RaisedNumber = wait[x].RaisedNumber
              /\ u.revents = wait[x].revents /\ u.IsHandle = wait[x].IsHandle
              /\ u.IsTimeout
        /\ wait[x] \in CVRecords => u \in CVRecords /\ u.cv = wait[x].cv /\ u.IsTimeout
    BY TimedOut
  <2> HIDE DEF u
  <2>3. wait'[x] = u
    BY <2>1 DEF u
  <2>4. \A w \in PollRecords : w.on = "poll"
    BY DEF PollRecords
  <2>5. \A w \in CVRecords : w.on = "cv"
    BY DEF CVRecords
  <2>6. CASE wait[x] \in PollRecords
    BY <2>2, <2>3, <2>4, <2>6
  <2>7. CASE wait[x] \in CVRecords
    BY <2>2, <2>3, <2>5, <2>7
  <2> QED
    BY <2>1, <2>6, <2>7
<1>8. wait' \in [Co -> {NotWaiting} \cup PollRecords \cup CVRecords]
  <2>1. \A x \in Co : wait'[x] \in {NotWaiting} \cup PollRecords \cup CVRecords
    BY <1>1, <1>6, <1>7 DEF Types
  <2>2. wait' = [x \in Co |-> wait'[x]]
    BY <1>3
  <2> QED
    BY <2>1, <2>2
<1> QED
  BY <1>5, <1>6, <1>7, <1>8 DEF T, t

\* TakeOutTimeout, the marks and the Join keep the invariant.
LEMMA TakeOutKeeps ==
    ASSUME LoopInv, TakeOutInTime
    PROVE  LoopInv'
<1> DEFINE t == TW!TakenOut(clock)
           T == ToSet(t)
<1>1. /\ Types /\ StackSound /\ WaitersCanBeResumed /\ QueuesSound /\ EventsSound
      /\ WaitsSound /\ RoundSound /\ TWP!WheelInv
      /\ active \in Seq(Co \X Nat)
  BY DEF LoopInv, Types
<1>2. /\ UNCHANGED <<callVars, batch, epoll, waiters, clockVars>>
      /\ lpc = "prepare" /\ lpc' = "dispatch" /\ batch = <<>>
      /\ Now' = clock
      /\ TW!TakeOutTimeout(clock) /\ TW!InTime(clock)
      /\ active' = active \o [i \in 1..Len(t) |-> <<t[i], 0>>]
  BY DEF TakeOutInTime, TakeOut
<1>3. /\ TWP!WheelInv'
      /\ ExpireTime' = ExpireTime
      /\ t \in Seq(Co)
      /\ Distinct(t)
      /\ \A x : Contains(t, x) => ExpireTime[x] <= clock
      /\ \A x \in Co : IsInWheel(x)' <=> IsInWheel(x) /\ ~ Contains(t, x)
      /\ clock >= TW!StartAt(clock) =>
            Start' = clock /\ \A x \in Co : IsInWheel(x)' => ExpireTime[x] > clock
      /\ clock < TW!StartAt(clock) => Start' = Start
  BY <1>1, <1>2, WheelCollects
<1>4. /\ \A x \in T : x \in Co /\ IsInWheel(x) /\ ~ IsActive(x) /\ wait[x] # NotWaiting
      /\ wait' \in [Co -> {NotWaiting} \cup PollRecords \cup CVRecords]
      /\ \A x \in Co : x \notin T => wait'[x] = wait[x]
      /\ \A x \in Co : wait'[x].on = wait[x].on
      /\ \A x \in T : wait[x].on = "poll" =>
            /\ wait'[x].fds = wait[x].fds /\ wait'[x].RaisedNumber = wait[x].RaisedNumber
            /\ wait'[x].revents = wait[x].revents
            /\ wait'[x].IsHandle = wait[x].IsHandle
      /\ \A x \in T : wait[x].on = "cv" => wait'[x].cv = wait[x].cv
      /\ \A x \in T : wait'[x].IsTimeout
  BY TakeOutMarks
<1> HIDE DEF t
<1>5. \A x : Contains(t, x) <=> x \in T
  BY <1>3, InToSet
<1>6. /\ active' \in Seq(Co \X Nat)
      /\ OneEach(active')
      /\ ToSet(active') = ToSet(active) \cup {<<c, 0>> : c \in T}
  <2>1. OneEach(active)
    BY <1>1 DEF QueuesSound
  <2>2. \A c \in ToSet(t) : \A e \in ToSet(active) : e[1] # c
    BY <1>4 DEF IsActive
  <2> QED
    BY <1>1, <1>2, <1>3, <2>1, <2>2, JoinElements
<1> HIDE DEF T
<1>7. \A x \in T : <<x, 0>>[1] = x /\ <<x, 0>>[2] = 0
  OBVIOUS
<1>8. /\ \A x : IsActive(x)' <=> IsActive(x) \/ x \in T
      /\ \A x \in Co : IsInWheel(x)' <=> IsInWheel(x) /\ x \notin T
  <2>1. \A x : IsActive(x)' <=> \E e \in ToSet(active') : e[1] = x
    BY DEF IsActive, ToSet
  <2>2. ASSUME NEW x
        PROVE  IsActive(x)' <=> IsActive(x) \/ x \in T
    <3>1. ASSUME x \in T
          PROVE  \E e \in ToSet(active') : e[1] = x
      <4>1. <<x, 0>> \in ToSet(active')
        BY <1>6, <3>1
      <4> QED
        BY <1>7, <3>1, <4>1
    <3>2. ASSUME NEW e \in ToSet(active'), e[1] = x
          PROVE  IsActive(x) \/ x \in T
      BY <1>6, <1>7, <3>2 DEF IsActive
    <3>3. IsActive(x) => \E e \in ToSet(active') : e[1] = x
      BY <1>6 DEF IsActive
    <3> QED
      BY <2>1, <3>1, <3>2, <3>3
  <2> QED
    BY <1>3, <1>5, <2>2
<1>9. \A x \in Co : wait'[x] = NotWaiting <=> wait[x] = NotWaiting
  <2>1. \A x \in Co : wait[x].on = "none" <=> wait[x] = NotWaiting
    BY <1>1, WaitCases
  <2>2. NotWaiting.on = "none"
    BY DEF NotWaiting
  <2> QED
    BY <1>4, <2>1, <2>2
<1>10. Types'
  BY <1>1, <1>2, <1>4, <1>6, WheelTypes
     DEF Types, callVars, Entities, PollRecords, CVRecords, NotWaiting
<1>11. StackSound' /\ WaitersCanBeResumed'
  <2>1. Len(Co_CallBack) = 1 /\ Co_CallBack # <<>>
    BY <1>1, <1>2 DEF StackSound
  <2> QED
    BY <1>1, <1>2, <1>9, <2>1, StackRests
<1>12. QueuesSound'
  <2>1. OneEach(active)'
    BY <1>6 DEF OneEach, Distinct, ToSet
  <2>2. \A v \in CV : Distinct(waiters[v])
    BY <1>1 DEF QueuesSound
  <2>3. \A x \in Co : IsActive(x)' => ~ IsInWheel(x)'
    BY <1>1, <1>8 DEF QueuesSound
  <2>4. \A x \in Co : IsActive(x)' \/ IsInWheel(x)' => wait'[x] # NotWaiting
    BY <1>1, <1>4, <1>8, <1>9 DEF QueuesSound
  <2>5. \A v \in CV, x \in Co : x \in ToSet(waiters[v]) => wait'[x].on = "cv" /\ wait'[x].cv = v
    BY <1>1, <1>4 DEF QueuesSound
  <2>6. \A x \in Co : wait'[x].on = "poll" => IsActive(x)' \/ IsInWheel(x)'
    BY <1>1, <1>4, <1>8 DEF QueuesSound
  <2>7. \A x \in Co : wait'[x].on = "cv" =>
           IsActive(x)' \/ IsInWheel(x)' \/ x \in ToSet(waiters[wait'[x].cv])
    BY <1>1, <1>4, <1>8 DEF QueuesSound
  <2> QED
    BY <1>2, <2>1, <2>2, <2>3, <2>4, <2>5, <2>6, <2>7
       DEF QueuesSound, Distinct, ToSet, NotWaiting
<1>13. EventsSound'
  <2>1. \A x \in Co : wait[x].on = "poll" => wait'[x].fds = wait[x].fds
    BY <1>4
  <2>2. ASSUME NEW f \in Fd, epoll[f] # NoItem
        PROVE  LET x == epoll[f][1]
                   k == epoll[f][2]
               IN  wait'[x].on = "poll" /\ k \in 1..Len(wait'[x].fds) /\ wait'[x].fds[k] = f
    <3>1. epoll[f][1] \in Co
      BY <1>1, <2>2 DEF Types
    <3> QED
      BY <1>1, <1>4, <2>1, <2>2, <3>1 DEF EventsSound, RegistrationsSound
  <2>3. ASSUME NEW x \in Co, wait'[x].on = "poll", NEW k \in 1..Len(wait'[x].fds),
               wait'[x].fds[k] \notin BadFd
        PROVE  epoll[wait'[x].fds[k]] = <<x, k>>
    <3>1. wait[x].on = "poll" /\ wait'[x].fds = wait[x].fds
      BY <1>4, <2>1, <2>3
    <3>2. \A i \in 1..Len(wait[x].fds) :
             wait[x].fds[i] \notin BadFd => epoll[wait[x].fds[i]] = <<x, i>>
      BY <1>1, <3>1 DEF EventsSound, RegistrationsSound
    <3> QED
      BY <2>3, <3>1, <3>2
  <2> QED
    BY <1>1, <1>2, <2>2, <2>3 DEF EventsSound, RegistrationsSound, Distinct
<1>14. WaitsSound'
  <2>1. ASSUME NEW x \in Co, wait'[x].on = "poll"
        PROVE  /\ IsFiniteSet(wait'[x].revents)
               /\ wait'[x].RaisedNumber = Cardinality(wait'[x].revents)
               /\ wait'[x].IsHandle <=> wait'[x].revents # {}
               /\ wait'[x].IsHandle => lpc' \in {"prepare", "dispatch"} /\ IsActive(x)'
    <3>1. wait[x].on = "poll"
      BY <1>4, <2>1
    <3>2. /\ wait'[x].revents = wait[x].revents
          /\ wait'[x].RaisedNumber = wait[x].RaisedNumber
          /\ wait'[x].IsHandle = wait[x].IsHandle
      BY <1>4, <3>1
    <3>3. /\ IsFiniteSet(wait[x].revents)
          /\ wait[x].RaisedNumber = Cardinality(wait[x].revents)
          /\ wait[x].IsHandle <=> wait[x].revents # {}
          /\ wait[x].IsHandle => IsActive(x)
      BY <1>1, <3>1 DEF WaitsSound
    <3> QED
      BY <1>2, <1>8, <3>2, <3>3
  <2>2. ASSUME NEW x \in Co, wait'[x] # NotWaiting, wait'[x].IsTimeout
        PROVE  lpc' = "dispatch" /\ IsActive(x)' /\ ExpireTime'[x] <= Now'
    <3>1. x \in T
      BY <1>1, <1>2, <1>4, <1>9, <2>2 DEF WaitsSound
    <3> QED
      BY <1>2, <1>3, <1>5, <1>8, <3>1
  <2>3. ASSUME NEW e \in ToSet(active')
        PROVE  IF wait'[e[1]].on = "poll"
               THEN /\ wait'[e[1]].IsHandle <=> e[2] # 0
                    /\ wait'[e[1]].IsTimeout <=> e[2] = 0
               ELSE e[2] = 0
    <3>1. CASE e \in ToSet(active)
      <4>1. e[1] \in Co /\ e[1] \notin T
        BY <1>1, <1>4, <3>1, InToSet DEF Types, IsActive
      <4> QED
        BY <1>1, <1>4, <3>1, <4>1 DEF WaitsSound
    <3>2. CASE e \in {<<c, 0>> : c \in T}
      <4>1. e[1] \in T /\ e[2] = 0
        BY <1>7, <3>2
      <4>2. wait[e[1]].on = "poll" => ~ wait[e[1]].IsHandle
        BY <1>1, <1>4, <4>1 DEF WaitsSound
      <4> QED
        BY <1>4, <4>1, <4>2
    <3> QED
      BY <1>6, <3>1, <3>2
  <2> QED
    BY <2>1, <2>2, <2>3 DEF WaitsSound, ToSet, NotWaiting
<1>15. RoundSound'
  <2>1. clock \in Int /\ clock >= 1 /\ Start \in Int
    BY <1>1, WheelTypes
  <2>2. CASE clock >= TW!StartAt(clock)
    <3>1. Start' = Now' /\ Start' >= Now' /\ Now' >= 1
      BY <1>2, <1>3, <2>1, <2>2
    <3>2. \A x \in Co : IsInWheel(x)' => ExpireTime'[x] > Now'
      BY <1>2, <1>3, <2>2
    <3> QED
      BY <3>1, <3>2 DEF RoundSound
  <2>3. CASE clock < TW!StartAt(clock)
    <3>1. Start' = Start /\ TW!StartAt(clock) = Start
      BY <1>3, <2>1, <2>3 DEF TW!StartAt
    <3>2. Start' > Now' /\ Start' >= Now' /\ Now' >= 1 /\ Start' # Now'
      BY <1>2, <2>1, <2>3, <3>1
    <3> QED
      BY <3>2 DEF RoundSound
  <2>4. TW!StartAt(clock) \in Int
    BY <2>1 DEF TW!StartAt
  <2> QED
    BY <2>1, <2>2, <2>3, <2>4
<1> QED
  BY <1>3, <1>10, <1>11, <1>12, <1>13, <1>14, <1>15 DEF LoopInv

-----------------------------------------------------------------------------
(* A coroutine asks to wait *)

\* The fds of a careful poll that registers any are registered for nobody yet.
LEMMA CarefulFds ==
    ASSUME EventsSound, NEW fds \in Polls,
           Refused(fds) # {} => \/ Len(fds) = 1
                                \/ \A i \in Refused(fds) : fds[i] \in BadFd,
           Refused(fds) = {} \/ Len(fds) > ShortItemOptimization
    PROVE  \A i \in 1..Len(fds) : fds[i] \in Fd /\ epoll[fds[i]] = NoItem
<1> SUFFICES ASSUME NEW i \in 1..Len(fds)
             PROVE  fds[i] \in Fd /\ epoll[fds[i]] = NoItem
  OBVIOUS
<1>1. fds \in Seq(Fd) /\ ShortItemOptimization \in Nat /\ ShortItemOptimization # 0
  BY PollAssumption
<1>2. fds[i] \in Fd
  BY <1>1
<1>3. CASE i \notin Refused(fds)
  BY <1>2, <1>3 DEF Refused
<1>4. CASE i \in Refused(fds)
  <2>1. Len(fds) > ShortItemOptimization
    BY <1>4
  <2>2. Len(fds) # 1
    <3> DEFINE n == Len(fds)
               m == ShortItemOptimization
    <3>1. n \in Nat /\ n > m /\ m \in Nat /\ m # 0
      BY <1>1, <2>1
    <3> HIDE DEF n, m
    <3>2. n # 1
      BY <3>1
    <3> QED
      BY <3>2 DEF n
  <2>3. fds[i] \in BadFd
    BY <1>4, <2>2
  <2> QED
    BY <1>2, <2>3 DEF EventsSound
<1> QED
  BY <1>3, <1>4

\* AddTimeOut for the coroutine that runs keeps the round complete: what it
\* puts into the wheel is later than the round.
LEMMA AddKeepsRound ==
    ASSUME LoopInv, CoRuns, UNCHANGED <<lpc, Now, clockVars>>,
           NEW timeout \in PollTimeouts \cup CVTimeouts, timeout > 0,
           TW!AddTimeOut(Current, clock, clock + timeout)
    PROVE  RoundSound'
<1>1. Types /\ StackSound /\ QueuesSound /\ RoundSound /\ TWP!WheelInv
  BY DEF LoopInv
<1>2. Current \in Co /\ wait[Current] = NotWaiting
  BY <1>1, CurrentRuns DEF CoRuns
<1>3. ~ IsInWheel(Current)
  BY <1>1, <1>2 DEF QueuesSound
<1>4. /\ ~ TW!Refuses(clock, clock + timeout)
           => \A x \in Co : IsInWheel(x)' <=> IsInWheel(x) \/ x = Current
      /\ TW!Refuses(clock, clock + timeout)
           => \A x \in Co : IsInWheel(x)' <=> IsInWheel(x)
      /\ Start' = TW!StartAt(clock)
      /\ ExpireTime' = [ExpireTime EXCEPT ![Current] = clock + timeout]
  BY <1>1, <1>2, <1>3, WheelAdds
<1>5. /\ clock \in Int /\ Start \in Int /\ Now \in Int
      /\ timeout \in Int /\ ExpireTime \in [Co -> Int]
  BY <1>1, WheelTypes, PollAssumption, WaitAssumption DEF Types
<1> DEFINE c == Current
<1> HIDE DEF c
<1>6. ExpireTime'[c] = clock + timeout /\ \A x \in Co : x # c => ExpireTime'[x] = ExpireTime[x]
  BY <1>2, <1>4, <1>5 DEF c
<1> SUFFICES ASSUME lpc \in {"dispatch", "fun"}
             PROVE  /\ Now >= 1
                    /\ Start' >= Now
                    /\ Start' = Now => \A x \in Co : IsInWheel(x)' => ExpireTime'[x] > Now
  BY DEF RoundSound
<1>7. /\ Now >= 1 /\ Start >= Now
      /\ Start = Now => \A x \in Co : IsInWheel(x) => ExpireTime[x] > Now
  BY <1>1 DEF RoundSound
<1>8. Start' = Start
  BY <1>4, <1>5, <1>7 DEF TW!StartAt
<1>9. ASSUME Start' = Now, NEW x \in Co, IsInWheel(x)'
      PROVE  ExpireTime'[x] > Now
  <2>1. CASE x # c
    BY <1>4, <1>6, <1>7, <1>8, <1>9, <2>1 DEF c
  <2>2. CASE x = c
    <3>1. ~ TW!Refuses(clock, clock + timeout)
      BY <1>2, <1>3, <1>4, <1>9, <2>2 DEF c
    <3>2. ~ (clock < Now)
      BY <1>4, <1>9, <3>1 DEF TW!Refuses
    <3> QED
      BY <1>5, <1>6, <2>2, <3>2
  <2> QED
    BY <2>1, <2>2
<1> QED
  BY <1>7, <1>8, <1>9

\* A wait that AddTimeOut refuses leaves everything but the ExpireTime of an
\* item that is in no list.
LEMMA RefusalKeeps ==
    ASSUME LoopInv, CoRuns,
           NEW timeout \in PollTimeouts \cup CVTimeouts, timeout > 0,
           TW!AddTimeOut(Current, clock, clock + timeout),
           TW!Refuses(clock, clock + timeout),
           UNCHANGED <<callVars, loopVars, epoll, active, waiters, wait, clockVars>>
    PROVE  LoopInv'
<1>1. /\ Types /\ StackSound /\ WaitersCanBeResumed /\ QueuesSound /\ EventsSound
      /\ WaitsSound /\ RoundSound /\ TWP!WheelInv
  BY DEF LoopInv
<1>2. Current \in Co /\ wait[Current] = NotWaiting
  BY <1>1, CurrentRuns DEF CoRuns
<1>3. ~ IsInWheel(Current)
  BY <1>1, <1>2 DEF QueuesSound
<1>4. /\ TWP!WheelInv'
      /\ \A x \in Co : IsInWheel(x)' <=> IsInWheel(x)
      /\ ExpireTime' = [ExpireTime EXCEPT ![Current] = clock + timeout]
  BY <1>1, <1>2, <1>3, WheelAdds
<1>5. Types'
  BY <1>1 DEF Types, callVars, loopVars, Entities, PollRecords, CVRecords, NotWaiting
<1>6. StackSound' /\ WaitersCanBeResumed'
  BY <1>1, StackRests DEF StackSound, loopVars
<1>7. QueuesSound' /\ \A x : IsActive(x)' <=> IsActive(x)
  BY <1>1, <1>4, QueuesRest
<1>8. EventsSound'
  BY <1>1, EventsRest DEF EventsSound, loopVars
<1>9. WaitsSound'
  <2>1. \A x \in Co : wait[x] # NotWaiting => ExpireTime'[x] = ExpireTime[x]
    BY <1>1, <1>2, <1>4, WheelTypes
  <2> QED
    BY <1>1, <1>7, <2>1 DEF WaitsSound, loopVars, ToSet, NotWaiting
<1>10. RoundSound'
  BY AddKeepsRound DEF loopVars
<1> QED
  BY <1>4, <1>5, <1>6, <1>7, <1>8, <1>9, <1>10 DEF LoopInv

\* A careful poll that comes back at once has changed no registration.
LEMMA PollBackKeeps ==
    ASSUME LoopInv, NEW fds \in Polls, NEW timeout \in PollTimeouts,
           CarefulPoll(fds, timeout),
           PollFallsBack(fds, timeout) \/ PollIsRefused(fds, timeout)
    PROVE  LoopInv'
<1>1. /\ Types /\ StackSound /\ WaitersCanBeResumed /\ EventsSound
  BY DEF LoopInv
<1>2. /\ CoRuns /\ UNCHANGED clockVars
      /\ Refused(fds) # {} => \/ Len(fds) = 1
                              \/ /\ Len(fds) > ShortItemOptimization
                                 /\ \A i \in Refused(fds) : fds[i] \in BadFd
  BY DEF CarefulPoll, Co_poll_inner
<1>3. fds \in Seq(Fd) /\ Len(fds) \in Nat
  <2>1. fds \in Seq(Fd)
    BY PollAssumption
  <2> QED
    BY <2>1
<1>4. epoll = [f \in Fd |-> epoll[f]]
  BY <1>1 DEF Types
<1>5. CASE PollFallsBack(fds, timeout)
  <2> DEFINE first == CHOOSE i \in Refused(fds) : \A j \in Refused(fds) : i <= j
  <2>1. /\ Refused(fds) # {} /\ Len(fds) <= ShortItemOptimization
        /\ epoll' = Registered(Current, fds, 1..(first - 1))
        /\ UNCHANGED <<callVars, loopVars, active, waiters, wait, wheelVars>>
    BY <1>5 DEF PollFallsBack
  <2>2. Len(fds) = 1
    <3>1. ~ (Len(fds) > ShortItemOptimization)
      BY <1>3, <2>1, PollAssumption
    <3> QED
      BY <1>2, <2>1, <3>1
  <2>3. Refused(fds) = {1}
    BY <2>1, <2>2 DEF Refused
  <2>4. first = 1
    BY <2>3
  <2> HIDE DEF first
  <2>5. 1..(first - 1) = {}
    BY <2>4
  <2>6. epoll' = epoll
    BY <1>4, <2>1, <2>5 DEF Registered
  <2>7. StackSound' /\ WaitersCanBeResumed'
    BY <1>1, <2>1, StackRests DEF StackSound, loopVars
  <2>8. Co_CallBack' \in Seq(Entities)
    BY <1>1, <2>1 DEF Types, callVars
  <2> QED
    BY <1>2, <2>1, <2>6, <2>7, <2>8, OnlyCalls DEF loopVars
<1>6. CASE PollIsRefused(fds, timeout)
  <2>1. /\ Refused(fds) = {} \/ Len(fds) > ShortItemOptimization
        /\ TW!Refuses(clock, clock + timeout)
        /\ TW!AddTimeOut(Current, clock, clock + timeout)
        /\ epoll' = Unregistered(fds)
        /\ UNCHANGED <<callVars, loopVars, active, waiters, wait>>
    BY <1>6 DEF PollIsRefused
  <2>2. \A i \in 1..Len(fds) : epoll[fds[i]] = NoItem
    BY <1>1, <1>2, <2>1, CarefulFds
  <2>3. \A f \in Fd : Contains(fds, f) => epoll[f] = NoItem
    BY <2>2 DEF Contains
  <2>4. epoll' = epoll
    BY <1>4, <2>1, <2>3 DEF Unregistered
  <2>5. timeout > 0
    BY PollAssumption
  <2> QED
    BY <1>2, <2>1, <2>4, <2>5, RefusalKeeps
<1> QED
  BY <1>5, <1>6

\* The registrations after the fds of a careful poll have been added.
LEMMA RegisteredFds ==
    ASSUME Types, EventsSound, NEW c \in Co, NEW fds \in Polls,
           \A i \in 1..Len(fds) : fds[i] \in Fd /\ epoll[fds[i]] = NoItem,
           epoll' = Registered(c, fds, Added(fds))
    PROVE  /\ epoll' \in [Fd -> (Co \X (Nat \ {0})) \cup {NoItem}]
           /\ \A i \in 1..Len(fds) : epoll'[fds[i]] = IF fds[i] \in BadFd THEN NoItem ELSE <<c, i>>
           /\ \A f \in Fd : (\A i \in 1..Len(fds) : fds[i] # f) => epoll'[f] = epoll[f]
<1>1. /\ fds \in Seq(Fd) /\ Len(fds) \in Nat
      /\ \A i, j \in 1..Len(fds) : fds[i] = fds[j] => i = j
  <2>1. fds \in Seq(Fd) /\ \A i, j \in 1..Len(fds) : fds[i] = fds[j] => i = j
    BY PollAssumption
  <2> QED
    BY <2>1
<1> DEFINE n == Len(fds)
           A == Added(fds)
<1>2. A = {i \in 1..n : fds[i] \notin BadFd}
  BY DEF Added, Refused
<1>3. epoll' = [f \in Fd |-> IF \E i \in A : fds[i] = f
                             THEN <<c, CHOOSE i \in A : fds[i] = f>>
                             ELSE epoll[f]]
  BY DEF Registered
<1> HIDE DEF A
<1>4. ASSUME NEW i \in 1..n, fds[i] \notin BadFd
      PROVE  epoll'[fds[i]] = <<c, i>>
  <2>1. i \in A
    BY <1>2, <1>4
  <2>2. \A k \in A : fds[k] = fds[i] => k = i
    BY <1>1, <1>2
  <2>3. (CHOOSE k \in A : fds[k] = fds[i]) = i
    BY <2>1, <2>2
  <2>4. epoll'[fds[i]] = <<c, CHOOSE k \in A : fds[k] = fds[i]>>
    BY <1>3, <2>1
  <2> QED
    BY <2>3, <2>4
<1>5. ASSUME NEW f \in Fd, \A i \in 1..n : fds[i] # f
      PROVE  epoll'[f] = epoll[f]
  <2>1. ~ \E i \in A : fds[i] = f
    BY <1>2, <1>5
  <2> QED
    BY <1>3, <2>1
<1>6. ASSUME NEW i \in 1..n, fds[i] \in BadFd
      PROVE  epoll'[fds[i]] = NoItem
  <2>1. ~ \E k \in A : fds[k] = fds[i]
    BY <1>2, <1>6
  <2> QED
    BY <1>3, <2>1
<1>7. ASSUME NEW f \in Fd
      PROVE  epoll'[f] \in (Co \X (Nat \ {0})) \cup {NoItem}
  <2>1. CASE \A i \in 1..n : fds[i] # f
    BY <1>5, <2>1 DEF Types
  <2>2. CASE \E i \in 1..n : fds[i] = f
    <3>1. PICK i \in 1..n : fds[i] = f
      BY <2>2
    <3>2. i \in Nat \ {0}
      BY <1>1
    <3>3. <<c, i>> \in Co \X (Nat \ {0})
      BY <3>2
    <3> QED
      BY <1>4, <1>6, <3>1, <3>3
  <2> QED
    BY <2>1, <2>2
<1>8. epoll' \in [Fd -> (Co \X (Nat \ {0})) \cup {NoItem}]
  BY <1>3, <1>7
<1> QED
  BY <1>4, <1>5, <1>6, <1>8

\* What is said of a poll that has just begun.
LEMMA PollBegins ==
    ASSUME NEW fds \in Polls
    PROVE  /\ PollOn(fds) \in PollRecords
           /\ PollOn(fds) # NotWaiting
           /\ PollOn(fds).on = "poll" /\ PollOn(fds).fds = fds
           /\ PollOn(fds).RaisedNumber = 0 /\ PollOn(fds).revents = {}
           /\ ~ PollOn(fds).IsHandle /\ ~ PollOn(fds).IsTimeout
<1>1. PollOn(fds) \in PollRecords
  BY DEF PollOn, PollRecords
<1>2. /\ PollOn(fds).on = "poll" /\ PollOn(fds).fds = fds
      /\ PollOn(fds).RaisedNumber = 0 /\ PollOn(fds).revents = {}
      /\ ~ PollOn(fds).IsHandle /\ ~ PollOn(fds).IsTimeout
  BY DEF PollOn
<1>3. NotWaiting.on = "none"
  BY DEF NotWaiting
<1> QED
  BY <1>1, <1>2, <1>3

\* A coroutine that runs is queued nowhere.
LEMMA CurrentIsFree ==
    ASSUME LoopInv, CoRuns
    PROVE  /\ Current \in Co
           /\ wait[Current] = NotWaiting
           /\ ~ IsInWheel(Current) /\ ~ IsActive(Current)
           /\ \A v \in CV : Current \notin ToSet(waiters[v])
<1>1. Types /\ StackSound /\ QueuesSound
  BY DEF LoopInv
<1>2. Current \in Co /\ wait[Current] = NotWaiting
  BY <1>1, CurrentRuns DEF CoRuns
<1>3. NotWaiting.on = "none"
  BY DEF NotWaiting
<1> QED
  BY <1>1, <1>2, <1>3 DEF QueuesSound

\* A careful poll that waits is registered for its fds, in the wheel, and off
\* the call stack.
LEMMA PollWaitsKeeps ==
    ASSUME LoopInv, NEW fds \in Polls, NEW timeout \in PollTimeouts,
           CarefulPoll(fds, timeout),
           PollWaits(fds, timeout)
    PROVE  LoopInv'
<1> DEFINE c == Current
           w == PollOn(fds)
<1>1. /\ Types /\ StackSound /\ WaitersCanBeResumed /\ QueuesSound /\ EventsSound
      /\ WaitsSound /\ RoundSound /\ TWP!WheelInv
  BY DEF LoopInv
<1>2. /\ CoRuns /\ UNCHANGED clockVars
      /\ Refused(fds) # {} => \/ Len(fds) = 1
                              \/ \A i \in Refused(fds) : fds[i] \in BadFd
      /\ Refused(fds) = {} \/ Len(fds) > ShortItemOptimization
      /\ ~ TW!Refuses(clock, clock + timeout)
      /\ epoll' = Registered(c, fds, Added(fds))
      /\ TW!AddTimeOut(c, clock, clock + timeout)
      /\ wait' = [wait EXCEPT ![c] = w]
      /\ Co_yeild /\ IsEnd' = IsEnd
      /\ UNCHANGED <<lpc, batch, Now, active, waiters>>
  BY DEF CarefulPoll, Co_poll_inner, PollWaits, YieldInFun, loopVars
<1>3. /\ c \in Co /\ wait[c] = NotWaiting /\ ~ IsInWheel(c) /\ ~ IsActive(c)
      /\ \A v \in CV : c \notin ToSet(waiters[v])
      /\ lpc \notin {"wait", "prepare"}
      /\ NotWaiting.on = "none"
  BY <1>1, <1>2, CurrentIsFree, CurrentRuns DEF CoRuns, NotWaiting
<1>4. /\ w \in PollRecords /\ w # NotWaiting
      /\ w.on = "poll" /\ w.fds = fds
      /\ w.RaisedNumber = 0 /\ w.revents = {}
      /\ ~ w.IsHandle /\ ~ w.IsTimeout
  BY PollBegins
<1>5. timeout > 0
  BY PollAssumption
<1>6. /\ TWP!WheelInv'
      /\ \A x \in Co : IsInWheel(x)' <=> IsInWheel(x) \/ x = c
      /\ ExpireTime' = [ExpireTime EXCEPT ![c] = clock + timeout]
  BY <1>1, <1>2, <1>3, WheelAdds
<1>7. \A i \in 1..Len(fds) : fds[i] \in Fd /\ epoll[fds[i]] = NoItem
  BY <1>1, <1>2, CarefulFds
<1>8. /\ epoll' \in [Fd -> (Co \X (Nat \ {0})) \cup {NoItem}]
      /\ \A i \in 1..Len(fds) : epoll'[fds[i]] = IF fds[i] \in BadFd THEN NoItem ELSE <<c, i>>
      /\ \A f \in Fd : (\A i \in 1..Len(fds) : fds[i] # f) => epoll'[f] = epoll[f]
  BY <1>1, <1>2, <1>3, <1>7, RegisteredFds
<1> HIDE DEF w
<1>9. RoundSound'
  BY <1>2, <1>5, AddKeepsRound
<1> HIDE DEF c
<1>10. /\ wait' \in [Co -> {NotWaiting} \cup PollRecords \cup CVRecords]
       /\ wait'[c] = w
       /\ \A x \in Co : x # c => wait'[x] = wait[x]
  BY <1>1, <1>2, <1>3, <1>4 DEF Types
<1>11. /\ Co_CallBack' \in Seq(Entities)
       /\ StackSound'
       /\ WaitersCanBeResumed'
  BY <1>1, <1>2, <1>10, StackPop DEF c
<1>12. Types'
  BY <1>1, <1>2, <1>8, <1>10, <1>11 DEF Types, Entities, PollRecords, CVRecords, NotWaiting
<1>13. \A x : IsActive(x)' <=> IsActive(x)
  BY <1>2 DEF IsActive, ToSet
<1>14. QueuesSound'
  <2>1. \A x \in Co : IsActive(x) => ~ IsInWheel(x)'
    BY <1>1, <1>3, <1>6 DEF QueuesSound
  <2>2. \A x \in Co : IsActive(x) \/ IsInWheel(x)' => wait'[x] # NotWaiting
    BY <1>1, <1>3, <1>4, <1>6, <1>10 DEF QueuesSound
  <2>3. \A v \in CV, x \in Co : x \in ToSet(waiters[v]) => wait'[x].on = "cv" /\ wait'[x].cv = v
    BY <1>1, <1>3, <1>10 DEF QueuesSound
  <2>4. \A x \in Co : wait'[x].on = "poll" => IsActive(x) \/ IsInWheel(x)'
    BY <1>1, <1>6, <1>10 DEF QueuesSound
  <2>5. \A x \in Co : wait'[x].on = "cv" =>
           IsActive(x) \/ IsInWheel(x)' \/ x \in ToSet(waiters[wait'[x].cv])
    BY <1>1, <1>4, <1>6, <1>10 DEF QueuesSound
  <2>6. OneEach(active) /\ \A v \in CV : Distinct(waiters[v])
    BY <1>1 DEF QueuesSound
  <2> QED
    BY <1>2, <1>13, <2>1, <2>2, <2>3, <2>4, <2>5, <2>6
       DEF QueuesSound, OneEach, Distinct, ToSet, NotWaiting
<1>15. EventsSound'
  <2>1. RegistrationsSound /\ \A f \in Fd : f \in BadFd => epoll[f] = NoItem
    BY <1>1 DEF EventsSound
  <2>2. batch = <<>> /\ Len(batch) = 0
    BY <1>1, <1>3 DEF EventsSound
  <2>3. ASSUME NEW f \in Fd, epoll'[f] # NoItem
        PROVE  LET x == epoll'[f][1]
                   k == epoll'[f][2]
               IN  wait'[x].on = "poll" /\ k \in 1..Len(wait'[x].fds) /\ wait'[x].fds[k] = f
    <3>1. CASE \E i \in 1..Len(fds) : fds[i] = f
      <4>1. PICK i \in 1..Len(fds) : fds[i] = f
        BY <3>1
      <4>2. epoll'[f] = <<c, i>>
        BY <1>8, <2>3, <4>1
      <4> QED
        BY <1>4, <1>10, <4>1, <4>2
    <3>2. CASE \A i \in 1..Len(fds) : fds[i] # f
      <4>1. epoll'[f] = epoll[f] /\ epoll[f][1] \in Co
        BY <1>1, <1>8, <2>3, <3>2 DEF Types
      <4>2. wait[epoll[f][1]].on = "poll"
        BY <2>1, <2>3, <4>1 DEF RegistrationsSound
      <4>3. wait'[epoll[f][1]] = wait[epoll[f][1]]
        BY <1>3, <1>10, <4>1, <4>2
      <4> QED
        BY <2>1, <2>3, <4>1, <4>3 DEF RegistrationsSound
    <3> QED
      BY <3>1, <3>2
  <2>4. ASSUME NEW x \in Co, wait'[x].on = "poll", NEW k \in 1..Len(wait'[x].fds),
               wait'[x].fds[k] \notin BadFd
        PROVE  epoll'[wait'[x].fds[k]] = <<x, k>>
    <3>1. CASE x = c
      BY <1>4, <1>8, <1>10, <2>4, <3>1
    <3>2. CASE x # c
      <4>1. wait'[x] = wait[x] /\ wait[x].on = "poll" /\ wait[x] \in PollRecords
        BY <1>1, <1>10, <2>4, <3>2, WaitCases
      <4>2. wait[x].fds \in Polls
        BY <4>1 DEF PollRecords
      <4> DEFINE f == wait[x].fds[k]
      <4>3. f \in Fd
        BY <2>4, <4>1, <4>2, PollAssumption
      <4>4. epoll[f] = <<x, k>>
        BY <2>1, <2>4, <4>1 DEF RegistrationsSound
      <4> HIDE DEF f
      <4>5. <<x, k>> # NoItem
        BY <1>1, <4>3, <4>4, PollAssumption
      <4>6. \A i \in 1..Len(fds) : fds[i] # f
        BY <1>7, <4>4, <4>5
      <4>7. epoll'[f] = <<x, k>>
        BY <1>8, <4>3, <4>4, <4>6
      <4> QED
        BY <4>1, <4>7 DEF f
    <3> QED
      BY <3>1, <3>2
  <2>5. ASSUME NEW f \in Fd, f \in BadFd
        PROVE  epoll'[f] = NoItem
    BY <1>8, <2>1, <2>5
  <2>6. Distinct(batch)
    BY <1>1 DEF EventsSound
  <2> QED
    BY <1>2, <2>2, <2>3, <2>4, <2>5, <2>6 DEF EventsSound, RegistrationsSound, Distinct
<1>16. WaitsSound'
  <2>1. ASSUME NEW x \in Co, wait'[x].on = "poll"
        PROVE  /\ IsFiniteSet(wait'[x].revents)
               /\ wait'[x].RaisedNumber = Cardinality(wait'[x].revents)
               /\ wait'[x].IsHandle <=> wait'[x].revents # {}
               /\ wait'[x].IsHandle => lpc \in {"prepare", "dispatch"} /\ IsActive(x)
    <3>1. CASE x = c
      BY <1>4, <1>10, <3>1, FS_EmptySet
    <3>2. CASE x # c
      BY <1>1, <1>10, <2>1, <3>2 DEF WaitsSound
    <3> QED
      BY <3>1, <3>2
  <2>2. ASSUME NEW x \in Co, wait'[x] # NotWaiting, wait'[x].IsTimeout
        PROVE  lpc = "dispatch" /\ IsActive(x) /\ ExpireTime'[x] <= Now
    <3>1. x # c
      BY <1>4, <1>10, <2>2
    <3>2. wait'[x] = wait[x] /\ ExpireTime'[x] = ExpireTime[x]
      BY <1>1, <1>6, <1>10, <3>1, WheelTypes
    <3> QED
      BY <1>1, <2>2, <3>2 DEF WaitsSound
  <2>3. ASSUME NEW e \in ToSet(active)
        PROVE  wait'[e[1]] = wait[e[1]]
    <3>1. e[1] \in Co
      BY <1>1, InToSet DEF Types
    <3> QED
      BY <1>3, <1>10, <3>1 DEF IsActive
  <2>4. WaitsSound
    BY <1>1
  <2> QED
    BY <1>2, <1>13, <2>1, <2>2, <2>3, <2>4 DEF WaitsSound, ToSet, NotWaiting
<1> QED
  BY <1>6, <1>9, <1>11, <1>12, <1>14, <1>15, <1>16 DEF LoopInv

\* What is said of a wait on a condition variable that has just begun.
LEMMA CVWaitBegins ==
    ASSUME NEW v \in CV
    PROVE  /\ CVOn(v) \in CVRecords
           /\ CVOn(v) # NotWaiting
           /\ CVOn(v).on = "cv" /\ CVOn(v).cv = v
           /\ ~ CVOn(v).IsTimeout
<1>1. CVOn(v) \in CVRecords
  BY DEF CVOn, CVRecords
<1>2. CVOn(v).on = "cv" /\ CVOn(v).cv = v /\ ~ CVOn(v).IsTimeout
  BY DEF CVOn
<1>3. NotWaiting.on = "none"
  BY DEF NotWaiting
<1> QED
  BY <1>1, <1>2, <1>3

\* ConditionVariableWait with no timeout leaves the wheel alone.
LEMMA CVWaitWheel ==
    ASSUME LoopInv, CoRuns, UNCHANGED <<lpc, Now, clockVars>>,
           NEW timeout \in CVTimeouts,
           IF timeout > 0 THEN TW!AddTimeOut(Current, clock, clock + timeout)
                          ELSE UNCHANGED wheelVars,
           ~ (timeout > 0 /\ TW!Refuses(clock, clock + timeout))
    PROVE  /\ TWP!WheelInv'
           /\ \A x \in Co : IsInWheel(x) => IsInWheel(x)'
           /\ \A x \in Co : IsInWheel(x)' => IsInWheel(x) \/ x = Current
           /\ \A x \in Co : x # Current => ExpireTime'[x] = ExpireTime[x]
           /\ RoundSound'
<1>1. Types /\ RoundSound /\ TWP!WheelInv
  BY DEF LoopInv
<1>2. Current \in Co /\ ~ IsInWheel(Current)
  BY CurrentIsFree
<1>3. CASE timeout > 0
  <2>1. /\ TWP!WheelInv'
        /\ \A x \in Co : IsInWheel(x)' <=> IsInWheel(x) \/ x = Current
        /\ ExpireTime' = [ExpireTime EXCEPT ![Current] = clock + timeout]
    BY <1>1, <1>2, <1>3, WheelAdds
  <2>2. RoundSound'
    BY <1>3, AddKeepsRound
  <2>3. \A x \in Co : x # Current => ExpireTime'[x] = ExpireTime[x]
    BY <1>1, <2>1, WheelTypes
  <2> QED
    BY <2>1, <2>2, <2>3
<1>4. CASE ~ timeout > 0
  <2>1. UNCHANGED wheelVars
    BY <1>4
  <2>2. TWP!WheelInv' /\ \A x : IsInWheel(x)' <=> IsInWheel(x)
    BY <1>1, <2>1, WheelRests
  <2>3. RoundSound'
    BY <1>1, <2>1, <2>2 DEF RoundSound, wheelVars
  <2> QED
    BY <2>1, <2>2, <2>3 DEF wheelVars
<1> QED
  BY <1>3, <1>4

\* A coroutine that waits on a condition variable is in its list, in the wheel
\* if it has a timeout, and off the call stack.
LEMMA CVWaitKeeps ==
    ASSUME LoopInv, NEW v \in CV, NEW timeout \in CVTimeouts,
           ConditionVariableWait(v, timeout)
    PROVE  LoopInv'
<1> DEFINE c == Current
           w == CVOn(v)
<1>1. /\ Types /\ StackSound /\ WaitersCanBeResumed /\ QueuesSound /\ EventsSound
      /\ WaitsSound /\ RoundSound /\ TWP!WheelInv
  BY DEF LoopInv
<1>2. /\ CoRuns
      /\ UNCHANGED <<lpc, batch, Now, epoll, active, clockVars>>
      /\ IF timeout > 0 THEN TW!AddTimeOut(c, clock, clock + timeout) ELSE UNCHANGED wheelVars
  BY DEF ConditionVariableWait, loopVars
<1>3. CASE timeout > 0 /\ TW!Refuses(clock, clock + timeout)
  <2>1. UNCHANGED <<callVars, loopVars, epoll, active, waiters, wait, clockVars>>
    BY <1>3 DEF ConditionVariableWait
  <2> QED
    BY <1>2, <1>3, <2>1, RefusalKeeps
<1>4. CASE ~ (timeout > 0 /\ TW!Refuses(clock, clock + timeout))
  <2>1. /\ waiters' = [waiters EXCEPT ![v] = Append(@, c)]
        /\ wait' = [wait EXCEPT ![c] = w]
        /\ Co_yeild /\ IsEnd' = IsEnd
    BY <1>4 DEF ConditionVariableWait, YieldInFun
  <2>2. /\ c \in Co /\ wait[c] = NotWaiting /\ ~ IsInWheel(c) /\ ~ IsActive(c)
        /\ \A u \in CV : c \notin ToSet(waiters[u])
        /\ lpc \notin {"wait", "prepare"}
        /\ NotWaiting.on = "none"
    BY <1>1, <1>2, CurrentIsFree, CurrentRuns DEF CoRuns, NotWaiting
  <2>3. /\ w \in CVRecords /\ w # NotWaiting
        /\ w.on = "cv" /\ w.cv = v /\ ~ w.IsTimeout
    BY CVWaitBegins
  <2> HIDE DEF w
  <2>4. /\ TWP!WheelInv'
        /\ \A x \in Co : IsInWheel(x) => IsInWheel(x)'
        /\ \A x \in Co : IsInWheel(x)' => IsInWheel(x) \/ x = c
        /\ \A x \in Co : x # c => ExpireTime'[x] = ExpireTime[x]
        /\ RoundSound'
    BY <1>2, <1>4, CVWaitWheel
  <2> HIDE DEF c
  <2>5. /\ waiters[v] \in Seq(Co) /\ Distinct(waiters[v])
    BY <1>1 DEF Types, QueuesSound
  <2>6. /\ waiters' \in [CV -> Seq(Co)]
        /\ \A u \in CV : u # v => waiters'[u] = waiters[u]
        /\ ToSet(waiters'[v]) = ToSet(waiters[v]) \cup {c}
        /\ Distinct(waiters'[v])
    <3>1. /\ Append(waiters[v], c) \in Seq(Co)
          /\ ToSet(Append(waiters[v], c)) = ToSet(waiters[v]) \cup {c}
          /\ Distinct(Append(waiters[v], c))
      BY <2>2, <2>5, AppendElements
    <3>2. waiters \in [CV -> Seq(Co)]
      BY <1>1 DEF Types
    <3>3. waiters'[v] = Append(waiters[v], c) /\ \A u \in CV : u # v => waiters'[u] = waiters[u]
      BY <2>1, <3>2
    <3> QED
      BY <2>1, <3>1, <3>2, <3>3
  <2>7. /\ wait' \in [Co -> {NotWaiting} \cup PollRecords \cup CVRecords]
        /\ wait'[c] = w
        /\ \A x \in Co : x # c => wait'[x] = wait[x]
    BY <1>1, <2>1, <2>2, <2>3 DEF Types
  <2>8. /\ Co_CallBack' \in Seq(Entities)
        /\ StackSound'
        /\ WaitersCanBeResumed'
    BY <1>1, <1>2, <2>1, <2>7, StackPop DEF c
  <2>9. Types'
    BY <1>1, <1>2, <2>6, <2>7, <2>8 DEF Types, Entities, PollRecords, CVRecords, NotWaiting
  <2>10. \A x : IsActive(x)' <=> IsActive(x)
    BY <1>2 DEF IsActive, ToSet
  <2>11. QueuesSound'
    <3>1. \A x \in Co : IsActive(x) => ~ IsInWheel(x)'
      BY <1>1, <2>2, <2>4 DEF QueuesSound
    <3>2. \A x \in Co : IsActive(x) \/ IsInWheel(x)' => wait'[x] # NotWaiting
      BY <1>1, <2>2, <2>3, <2>4, <2>7 DEF QueuesSound
    <3>3. \A u \in CV, x \in Co : x \in ToSet(waiters'[u]) => wait'[x].on = "cv" /\ wait'[x].cv = u
      BY <1>1, <2>2, <2>3, <2>6, <2>7 DEF QueuesSound
    <3>4. \A x \in Co : wait'[x].on = "poll" => IsActive(x) \/ IsInWheel(x)'
      BY <1>1, <2>3, <2>4, <2>7 DEF QueuesSound
    <3>5. ASSUME NEW x \in Co, wait'[x].on = "cv"
          PROVE  IsActive(x) \/ IsInWheel(x)' \/ x \in ToSet(waiters'[wait'[x].cv])
      <4>1. CASE x = c
        BY <2>3, <2>6, <2>7, <4>1
      <4>2. CASE x # c
        <5>1. /\ wait'[x] = wait[x]
              /\ IsActive(x) \/ IsInWheel(x) \/ x \in ToSet(waiters[wait[x].cv])
              /\ wait[x] \in CVRecords
          BY <1>1, <2>7, <3>5, <4>2, WaitCases DEF QueuesSound
        <5>2. wait[x].cv \in CV
          BY <5>1 DEF CVRecords
        <5> QED
          BY <2>4, <2>6, <5>1, <5>2
      <4> QED
        BY <4>1, <4>2
    <3>6. OneEach(active) /\ \A u \in CV : Distinct(waiters'[u])
      BY <1>1, <2>6 DEF QueuesSound
    <3> QED
      BY <1>2, <2>10, <3>1, <3>2, <3>3, <3>4, <3>5, <3>6
         DEF QueuesSound, OneEach, Distinct, ToSet, NotWaiting
  <2>12. EventsSound'
    <3>1. RegistrationsSound /\ \A f \in Fd : f \in BadFd => epoll[f] = NoItem
      BY <1>1 DEF EventsSound
    <3>2. batch = <<>> /\ Len(batch) = 0 /\ Distinct(batch)
      BY <1>1, <2>2 DEF EventsSound
    <3>3. \A x \in Co : wait'[x].on = "poll" => wait'[x] = wait[x]
      BY <2>3, <2>7
    <3>4. ASSUME NEW f \in Fd, epoll[f] # NoItem
          PROVE  wait'[epoll[f][1]] = wait[epoll[f][1]]
      <4>1. epoll[f][1] \in Co
        BY <1>1, <3>4 DEF Types
      <4>2. wait[epoll[f][1]].on = "poll"
        BY <3>1, <3>4 DEF RegistrationsSound
      <4> QED
        BY <2>2, <2>7, <4>1, <4>2
    <3>5. ASSUME NEW f \in Fd, epoll[f] # NoItem
          PROVE  LET x == epoll[f][1]
                     k == epoll[f][2]
                 IN  wait'[x].on = "poll" /\ k \in 1..Len(wait'[x].fds) /\ wait'[x].fds[k] = f
      BY <3>1, <3>4, <3>5 DEF RegistrationsSound
    <3>6. ASSUME NEW x \in Co, wait'[x].on = "poll", NEW k \in 1..Len(wait'[x].fds),
                 wait'[x].fds[k] \notin BadFd
          PROVE  epoll[wait'[x].fds[k]] = <<x, k>>
      <4>1. wait'[x] = wait[x]
        BY <3>3, <3>6
      <4> QED
        BY <3>1, <3>6, <4>1 DEF RegistrationsSound
    <3> QED
      BY <1>2, <3>1, <3>2, <3>5, <3>6 DEF EventsSound, RegistrationsSound, Distinct
  <2>13. WaitsSound'
    <3>1. \A x \in Co : wait'[x].on = "poll" => wait'[x] = wait[x]
      BY <2>3, <2>7
    <3>2. ASSUME NEW x \in Co, wait'[x] # NotWaiting, wait'[x].IsTimeout
          PROVE  lpc = "dispatch" /\ IsActive(x) /\ ExpireTime'[x] <= Now
      <4>1. x # c
        BY <2>3, <2>7, <3>2
      <4>2. wait'[x] = wait[x] /\ ExpireTime'[x] = ExpireTime[x]
        BY <2>4, <2>7, <4>1
      <4> QED
        BY <1>1, <3>2, <4>2 DEF WaitsSound
    <3>3. ASSUME NEW e \in ToSet(active)
          PROVE  wait'[e[1]] = wait[e[1]]
      <4>1. e[1] \in Co
        BY <1>1, InToSet DEF Types
      <4> QED
        BY <2>2, <2>7, <4>1 DEF IsActive
    <3>4. WaitsSound
      BY <1>1
    <3> QED
      BY <1>2, <2>10, <3>1, <3>2, <3>3, <3>4 DEF WaitsSound, ToSet, NotWaiting
  <2> QED
    BY <2>4, <2>8, <2>9, <2>11, <2>12, <2>13 DEF LoopInv
<1> QED
  BY <1>3, <1>4

-----------------------------------------------------------------------------
(* A coroutine is woken *)

\* What WakeFirst does to the lists: the woken coroutines leave the condition
\* variable's list and the wheel, and each is active once.
LEMMA WakeMoves ==
    ASSUME LoopInv, NEW v \in CV, NEW n \in 1..Len(waiters[v]), WakeFirst(v, n)
    PROVE  LET woken == ToSet(SubSeq(waiters[v], 1, n))
           IN  /\ TWP!WheelInv'
               /\ \A x \in Co : IsInWheel(x)' <=> IsInWheel(x) /\ x \notin woken
               /\ waiters' \in [CV -> Seq(Co)]
               /\ \A u \in CV : u # v => waiters'[u] = waiters[u]
               /\ Distinct(waiters'[v])
               /\ woken \subseteq ToSet(waiters[v])
               /\ ToSet(waiters'[v]) = ToSet(waiters[v]) \ woken
               /\ active' \in Seq(Co \X Nat) /\ OneEach(active')
               /\ ToSet(active') = {e \in ToSet(active) : e[1] \notin woken}
                                      \cup {<<x, 0>> : x \in woken}
<1> DEFINE q == waiters[v]
           a == SubSeq(q, 1, n)
           b == SubSeq(q, n + 1, Len(q))
           W == ToSet(a)
<1>1. Types /\ QueuesSound /\ WaitsSound /\ TWP!WheelInv
  BY DEF LoopInv
<1>2. /\ waiters' = [waiters EXCEPT ![v] = b]
      /\ Wheel' = WheelWithout(W)
      /\ active' = Without(active, W) \o [i \in 1..n |-> <<a[i], 0>>]
      /\ UNCHANGED <<Start, Index, ExpireTime, clockVars>>
  BY DEF WakeFirst
<1>3. q \in Seq(Co) /\ Distinct(q) /\ waiters \in [CV -> Seq(Co)]
  BY <1>1 DEF Types, QueuesSound
<1>4. /\ a \in Seq(Co) /\ Distinct(a) /\ Len(a) = n
      /\ b \in Seq(Co) /\ Distinct(b)
      /\ W \cup ToSet(b) = ToSet(q)
      /\ W \cap ToSet(b) = {}
  <2>1. n \in 0..Len(q)
    OBVIOUS
  <2> HIDE DEF q
  <2> QED
    BY <1>3, <2>1, PartsElements
<1> HIDE DEF q, a, b
<1>5. /\ waiters' \in [CV -> Seq(Co)] /\ waiters'[v] = b
      /\ \A u \in CV : u # v => waiters'[u] = waiters[u]
  BY <1>2, <1>3, <1>4
<1> HIDE DEF W
<1>6. TWP!WheelInv' /\ \A x \in Co : IsInWheel(x)' <=> IsInWheel(x) /\ x \notin W
  BY <1>1, <1>2, WheelRemoves
<1> DEFINE l == Without(active, W)
<1>7. /\ active \in Seq(Co \X Nat) /\ OneEach(active)
      /\ l \in Seq(Co \X Nat) /\ OneEach(l)
      /\ ToSet(l) = {e \in ToSet(active) : ~ (e[1] \in W /\ e[2] = 0)}
  <2>1. active \in Seq(Co \X Nat) /\ OneEach(active)
    BY <1>1 DEF Types, QueuesSound
  <2> QED
    BY <2>1, WithoutElements
<1>8. W \subseteq Co /\ W \subseteq ToSet(q) /\ ToSet(active) \subseteq Co \X Nat
  <2>1. ToSet(q) \subseteq Co
    BY <1>3, InToSet
  <2>2. ToSet(active) \subseteq Co \X Nat
    BY <1>7, InToSet
  <2> QED
    BY <1>4, <2>1, <2>2
<1>9. \A e \in ToSet(active) : e[1] \in W => e[2] = 0
  <2>1. \A x \in W : wait[x].on = "cv"
    BY <1>1, <1>8 DEF QueuesSound, q
  <2> QED
    BY <1>1, <2>1 DEF WaitsSound
<1>10. ToSet(l) = {e \in ToSet(active) : e[1] \notin W}
  BY <1>7, <1>9
<1> HIDE DEF l
<1>11. \A x \in ToSet(a) : \A e \in ToSet(l) : e[1] # x
  BY <1>10 DEF W
<1>12. /\ active' \in Seq(Co \X Nat) /\ OneEach(active')
       /\ ToSet(active') = ToSet(l) \cup {<<x, 0>> : x \in ToSet(a)}
  BY <1>2, <1>4, <1>7, <1>11, JoinElements DEF l
<1>13. ToSet(waiters'[v]) = ToSet(waiters[v]) \ W
  BY <1>4, <1>5 DEF q
<1> QED
  BY <1>4, <1>5, <1>6, <1>8, <1>10, <1>12, <1>13 DEF W, a, q

\* ConditionVariableSignal and ConditionVariableBroadcast change who is queued
\* where, and nothing about the waits.
LEMMA WakeKeeps ==
    ASSUME LoopInv, NEW v \in CV, ConditionVariableSignal(v) \/ ConditionVariableBroadcast(v)
    PROVE  LoopInv'
<1>1. /\ Types /\ StackSound /\ WaitersCanBeResumed /\ QueuesSound /\ EventsSound
      /\ WaitsSound /\ RoundSound /\ TWP!WheelInv
  BY DEF LoopInv
<1>2. PICK n \in 1..Len(waiters[v]) : WakeFirst(v, n)
  <2>1. waiters[v] \in Seq(Co) /\ waiters[v] # <<>>
    BY <1>1 DEF Types, ConditionVariableSignal, ConditionVariableBroadcast
  <2>2. 1 \in 1..Len(waiters[v]) /\ Len(waiters[v]) \in 1..Len(waiters[v])
    <3> DEFINE q == waiters[v]
    <3>1. q \in Seq(Co) /\ q # <<>>
      BY <2>1
    <3> HIDE DEF q
    <3>2. 1 \in 1..Len(q) /\ Len(q) \in 1..Len(q)
      BY <3>1
    <3> QED
      BY <3>2 DEF q
  <2> QED
    BY <2>2 DEF ConditionVariableSignal, ConditionVariableBroadcast
<1> DEFINE W == ToSet(SubSeq(waiters[v], 1, n))
<1>3. UNCHANGED <<callVars, lpc, batch, Now, epoll, wait, Start, ExpireTime>>
  BY <1>2 DEF WakeFirst, loopVars
<1>4. /\ TWP!WheelInv'
      /\ \A x \in Co : IsInWheel(x)' <=> IsInWheel(x) /\ x \notin W
      /\ waiters' \in [CV -> Seq(Co)]
      /\ \A u \in CV : u # v => waiters'[u] = waiters[u]
      /\ Distinct(waiters'[v])
      /\ W \subseteq ToSet(waiters[v])
      /\ ToSet(waiters'[v]) = ToSet(waiters[v]) \ W
      /\ active' \in Seq(Co \X Nat) /\ OneEach(active')
      /\ ToSet(active') = {e \in ToSet(active) : e[1] \notin W} \cup {<<x, 0>> : x \in W}
  BY <1>2, WakeMoves
<1> HIDE DEF W
<1>5. \A x \in W : x \in Co /\ wait[x].on = "cv" /\ wait[x].cv = v /\ wait[x] # NotWaiting
  <2>1. ToSet(waiters[v]) \subseteq Co
    BY <1>1, InToSet DEF Types
  <2>2. NotWaiting.on = "none"
    BY DEF NotWaiting
  <2> QED
    BY <1>1, <1>4, <2>1, <2>2 DEF QueuesSound
<1>6. \A x : IsActive(x)' <=> IsActive(x) \/ x \in W
  <2>1. \A x : IsActive(x)' <=> \E e \in ToSet(active') : e[1] = x
    BY DEF IsActive, ToSet
  <2>2. ASSUME NEW x, x \in W
        PROVE  IsActive(x)'
    <3>1. <<x, 0>> \in ToSet(active') /\ <<x, 0>>[1] = x
      BY <1>4, <2>2
    <3> QED
      BY <2>1, <3>1
  <2>3. ASSUME NEW x, IsActive(x), x \notin W
        PROVE  IsActive(x)'
    <3>1. PICK e \in ToSet(active) : e[1] = x
      BY <2>3 DEF IsActive
    <3>2. e \in ToSet(active')
      BY <1>4, <2>3, <3>1
    <3> QED
      BY <2>1, <3>1, <3>2
  <2>4. ASSUME NEW x, IsActive(x)'
        PROVE  IsActive(x) \/ x \in W
    <3>1. PICK e \in ToSet(active') : e[1] = x
      BY <2>1, <2>4
    <3>2. CASE e \in ToSet(active)
      BY <3>1, <3>2 DEF IsActive
    <3>3. CASE e \in {<<y, 0>> : y \in W}
      BY <3>1, <3>3
    <3> QED
      BY <1>4, <3>1, <3>2, <3>3
  <2> QED
    BY <2>2, <2>3, <2>4
<1>7. Types'
  BY <1>1, <1>3, <1>4 DEF Types, callVars, Entities, PollRecords, CVRecords, NotWaiting
<1>8. StackSound' /\ WaitersCanBeResumed'
  BY <1>1, <1>3, StackRests DEF StackSound
<1>9. QueuesSound'
  <2>1. \A u \in CV : Distinct(waiters'[u])
    BY <1>1, <1>4 DEF QueuesSound
  <2>2. \A x \in Co : IsActive(x)' => ~ IsInWheel(x)'
    BY <1>1, <1>4, <1>6 DEF QueuesSound
  <2>3. \A x \in Co : IsActive(x)' \/ IsInWheel(x)' => wait[x] # NotWaiting
    BY <1>1, <1>4, <1>5, <1>6 DEF QueuesSound
  <2>4. \A u \in CV, x \in Co : x \in ToSet(waiters'[u]) => wait[x].on = "cv" /\ wait[x].cv = u
    BY <1>1, <1>4 DEF QueuesSound
  <2>5. \A x \in Co : wait[x].on = "poll" => IsActive(x)' \/ IsInWheel(x)'
    BY <1>1, <1>4, <1>6 DEF QueuesSound
  <2>6. ASSUME NEW x \in Co, wait[x].on = "cv"
        PROVE  IsActive(x)' \/ IsInWheel(x)' \/ x \in ToSet(waiters'[wait[x].cv])
    <3>1. wait[x] \in CVRecords
      BY <1>1, <2>6, WaitCases
    <3>2. wait[x].cv \in CV
      BY <3>1 DEF CVRecords
    <3> QED
      BY <1>1, <1>4, <1>6, <2>6, <3>2 DEF QueuesSound
  <2>7. OneEach(active)'
    BY <1>4 DEF OneEach, Distinct, ToSet
  <2> QED
    BY <1>3, <2>1, <2>2, <2>3, <2>4, <2>5, <2>6, <2>7 DEF QueuesSound, Distinct, ToSet, NotWaiting
<1>10. EventsSound'
  BY <1>1, <1>3, EventsRest DEF EventsSound
<1>11. WaitsSound'
  <2>1. ASSUME NEW e \in ToSet(active')
        PROVE  IF wait[e[1]].on = "poll"
               THEN /\ wait[e[1]].IsHandle <=> e[2] # 0
                    /\ wait[e[1]].IsTimeout <=> e[2] = 0
               ELSE e[2] = 0
    <3>1. CASE e \in ToSet(active)
      BY <1>1, <3>1 DEF WaitsSound
    <3>2. CASE e \in {<<x, 0>> : x \in W}
      <4>1. e[1] \in W /\ e[2] = 0
        BY <3>2
      <4> QED
        BY <1>5, <4>1
    <3> QED
      BY <1>4, <3>1, <3>2
  <2>2. WaitsSound
    BY <1>1
  <2> QED
    BY <1>3, <1>6, <2>1, <2>2 DEF WaitsSound, ToSet, NotWaiting
<1>12. RoundSound'
  BY <1>1, <1>3, <1>4 DEF RoundSound
<1> QED
  BY <1>4, <1>7, <1>8, <1>9, <1>10, <1>11, <1>12 DEF LoopInv

-----------------------------------------------------------------------------
(* The loop resumes a coroutine *)

\* What the loop and the resumed coroutine do to the lists: whichever the wait,
\* its coroutine is neither active nor in the wheel nor in a list any more.
LEMMA DispatchMoves ==
    ASSUME LoopInv, Dispatch
    PROVE  LET c == Head(active)[1]
           IN  /\ c \in Co /\ IsActive(c)
               /\ TWP!WheelInv'
               /\ \A x \in Co : IsInWheel(x)' <=> IsInWheel(x)
               /\ waiters' \in [CV -> Seq(Co)]
               /\ \A v \in CV : Distinct(waiters'[v])
               /\ \A v \in CV : ToSet(waiters'[v]) = ToSet(waiters[v]) \ {c}
               /\ active' \in Seq(Co \X Nat) /\ OneEach(active')
               /\ ToSet(active') = {e \in ToSet(active) : e[1] # c}
<1> DEFINE h == Head(active)
           c == h[1]
           l == Tail(active)
           S == IF wait[c].on = "poll" THEN {c} ELSE {}
<1>1. Types /\ QueuesSound /\ WaitsSound /\ TWP!WheelInv
  BY DEF LoopInv
<1>2. /\ active # <<>>
      /\ active' = Without(l, S)
      /\ PollReturns(c) \/ ConditionVariableReturns(c)
      /\ UNCHANGED <<Start, Index, ExpireTime, clockVars>>
  BY DEF Dispatch
<1>3. active \in Seq(Co \X Nat) /\ Distinct(active) /\ OneEach(active)
  BY <1>1 DEF Types, QueuesSound, OneEach
<1>4. /\ h \in ToSet(active)
      /\ l \in Seq(Co \X Nat) /\ Distinct(l)
      /\ ToSet(l) = ToSet(active) \ {h}
      /\ ToSet(active) \subseteq Co \X Nat
  <2> DEFINE T == Co \X Nat
  <2>1. active \in Seq(T)
    BY <1>3
  <2> HIDE DEF T
  <2>2. /\ h \in ToSet(active)
        /\ l \in Seq(T) /\ Distinct(l)
        /\ ToSet(l) = ToSet(active) \ {h}
        /\ ToSet(active) \subseteq T
    BY <1>2, <1>3, <2>1, TailElements, InToSet
  <2> QED
    BY <2>2 DEF T
<1>5. c \in Co
  BY <1>4
<1> HIDE DEF h, l
<1>6. IsActive(c)
  BY <1>4 DEF IsActive
<1>7. ToSet(l) = {e \in ToSet(active) : e[1] # c} /\ OneEach(l)
  BY <1>3, <1>4 DEF OneEach
<1> HIDE DEF c, S
<1>8. /\ active' \in Seq(Co \X Nat) /\ OneEach(active')
      /\ ToSet(active') = {e \in ToSet(active) : e[1] # c}
  <2>1. /\ active' \in Seq(Co \X Nat) /\ OneEach(active')
        /\ ToSet(active') = {e \in ToSet(l) : ~ (e[1] \in S /\ e[2] = 0)}
    BY <1>2, <1>4, <1>7, WithoutElements
  <2>2. S \subseteq {c}
    BY DEF S
  <2> QED
    BY <1>7, <2>1, <2>2
<1>9. TWP!WheelInv' /\ \A x \in Co : IsInWheel(x)' <=> IsInWheel(x)
  <2>1. ~ IsInWheel(c)
    BY <1>1, <1>5, <1>6 DEF QueuesSound
  <2>2. CASE PollReturns(c)
    <3>1. Wheel' = WheelWithout({c})
      BY <2>2 DEF PollReturns
    <3>2. TWP!WheelInv' /\ \A x \in Co : IsInWheel(x)' <=> IsInWheel(x) /\ x \notin {c}
      BY <1>1, <1>2, <3>1, WheelRemoves
    <3> QED
      BY <2>1, <3>2
  <2>3. CASE ConditionVariableReturns(c)
    <3>1. UNCHANGED wheelVars /\ UNCHANGED clockVars
      BY <1>2, <2>3 DEF ConditionVariableReturns, wheelVars
    <3> QED
      BY <1>1, <3>1, WheelRests
  <2> QED
    BY <1>2, <2>2, <2>3
<1>10. /\ waiters \in [CV -> Seq(Co)]
       /\ \A v \in CV : Distinct(waiters[v])
       /\ \A v \in CV : c \in ToSet(waiters[v]) => wait[c].on = "cv" /\ wait[c].cv = v
  BY <1>1, <1>5 DEF Types, QueuesSound
<1>11. /\ waiters' \in [CV -> Seq(Co)]
       /\ \A v \in CV : Distinct(waiters'[v])
       /\ \A v \in CV : ToSet(waiters'[v]) = ToSet(waiters[v]) \ {c}
  <2>1. CASE PollReturns(c)
    BY <1>10, <2>1 DEF PollReturns
  <2>2. CASE ConditionVariableReturns(c)
    <3> DEFINE u == wait[c].cv
               q == waiters[u]
    <3>1. u \in CV
      <4>1. wait[c] \in CVRecords
        BY <1>1, <1>5, <2>2, WaitCases DEF ConditionVariableReturns
      <4> QED
        BY <4>1 DEF CVRecords
    <3>2. waiters' = [waiters EXCEPT ![u] = Excluding(q, {c})]
      BY <2>2 DEF ConditionVariableReturns
    <3>3. q \in Seq(Co) /\ Distinct(q)
      BY <1>10, <3>1
    <3> DEFINE r == Excluding(q, {c})
    <3>4. /\ r \in Seq(Co) /\ Distinct(r)
          /\ \A x : Contains(r, x) <=> Contains(q, x) /\ x \notin {c}
      <4> HIDE DEF q
      <4> QED
        BY <3>3, ExcludingElements
    <3> HIDE DEF r
    <3>5. ToSet(r) = ToSet(q) \ {c}
      <4>1. \A x : Contains(r, x) <=> x \in ToSet(r)
        BY <3>4, InToSet
      <4>2. \A x : Contains(q, x) <=> x \in ToSet(q)
        BY <3>3, InToSet
      <4> QED
        BY <3>4, <4>1, <4>2
    <3>6. waiters'[u] = r /\ \A v \in CV : v # u => waiters'[v] = waiters[v]
      BY <1>10, <3>1, <3>2 DEF r
    <3>7. waiters' \in [CV -> Seq(Co)]
      BY <1>10, <3>2, <3>4 DEF r
    <3>8. \A v \in CV : v # u => c \notin ToSet(waiters[v])
      BY <1>10
    <3> QED
      BY <1>10, <3>1, <3>4, <3>5, <3>6, <3>7, <3>8
  <2> QED
    BY <1>2, <2>1, <2>2
<1> QED
  BY <1>5, <1>6, <1>8, <1>9, <1>11 DEF c, h

\* What the loop and the resumed coroutine do to the registrations: those of
\* its poll are gone, those of others stay.
LEMMA DispatchUnregisters ==
    ASSUME Types, EventsSound, NEW c \in Co,
           PollReturns(c) \/ ConditionVariableReturns(c)
    PROVE  /\ epoll' \in [Fd -> (Co \X (Nat \ {0})) \cup {NoItem}]
           /\ \A f \in Fd : epoll'[f] = epoll[f] \/ epoll'[f] = NoItem
           /\ \A f \in Fd : epoll'[f] # NoItem => epoll[f][1] # c
           /\ \A f \in Fd : epoll[f] # NoItem /\ epoll[f][1] # c => epoll'[f] = epoll[f]
<1>1. RegistrationsSound
  BY DEF EventsSound
<1>2. CASE ConditionVariableReturns(c)
  <2>1. epoll' = epoll /\ wait[c].on = "cv"
    BY <1>2 DEF ConditionVariableReturns
  <2>2. \A f \in Fd : epoll[f] # NoItem => epoll[f][1] # c
    BY <1>1, <2>1 DEF RegistrationsSound
  <2> QED
    BY <2>1, <2>2 DEF Types
<1>3. CASE PollReturns(c)
  <2> DEFINE fds == wait[c].fds
  <2>1. epoll' = [f \in Fd |-> IF Contains(fds, f) THEN NoItem ELSE epoll[f]] /\ wait[c].on = "poll"
    BY <1>3 DEF PollReturns, Unregistered
  <2>2. ASSUME NEW f \in Fd, epoll[f] # NoItem, epoll[f][1] # c
        PROVE  ~ Contains(fds, f)
    <3> SUFFICES ASSUME NEW i \in 1..Len(fds), fds[i] = f
                 PROVE  FALSE
      BY DEF Contains
    <3>1. f \notin BadFd
      BY <2>2 DEF EventsSound
    <3>2. epoll[f] = <<c, i>>
      BY <1>1, <2>1, <3>1 DEF RegistrationsSound
    <3> QED
      BY <2>2, <3>2
  <2>3. ASSUME NEW f \in Fd, epoll[f] # NoItem, epoll[f][1] = c
        PROVE  Contains(fds, f)
    BY <1>1, <2>3 DEF RegistrationsSound, Contains
  <2> HIDE DEF fds
  <2>4. \A f \in Fd : epoll'[f] = epoll[f] \/ epoll'[f] = NoItem
    BY <2>1
  <2>5. \A f \in Fd : epoll'[f] # NoItem => epoll[f][1] # c
    BY <2>1, <2>3
  <2>6. \A f \in Fd : epoll[f] # NoItem /\ epoll[f][1] # c => epoll'[f] = epoll[f]
    BY <2>1, <2>2
  <2>7. epoll' \in [Fd -> (Co \X (Nat \ {0})) \cup {NoItem}]
    <3>1. epoll \in [Fd -> (Co \X (Nat \ {0})) \cup {NoItem}]
      BY DEF Types
    <3> QED
      BY <2>1, <2>4, <3>1
  <2> QED
    BY <2>4, <2>5, <2>6, <2>7
<1> QED
  BY <1>2, <1>3

\* The head of the active list runs, and nothing of its wait is left.
LEMMA DispatchKeeps ==
    ASSUME LoopInv, Dispatch
    PROVE  LoopInv'
<1> DEFINE c == Head(active)[1]
<1>1. /\ Types /\ StackSound /\ WaitersCanBeResumed /\ QueuesSound /\ EventsSound
      /\ WaitsSound /\ RoundSound /\ TWP!WheelInv
  BY DEF LoopInv
<1>2. /\ lpc = "dispatch" /\ LoopRuns
      /\ Co_resume(c)
      /\ wait' = [wait EXCEPT ![c] = NotWaiting]
      /\ PollReturns(c) \/ ConditionVariableReturns(c)
      /\ UNCHANGED <<lpc, batch, Now, Start, ExpireTime>>
  BY DEF Dispatch, loopVars
<1>3. /\ c \in Co /\ IsActive(c)
      /\ TWP!WheelInv'
      /\ \A x \in Co : IsInWheel(x)' <=> IsInWheel(x)
      /\ waiters' \in [CV -> Seq(Co)]
      /\ \A v \in CV : Distinct(waiters'[v])
      /\ \A v \in CV : ToSet(waiters'[v]) = ToSet(waiters[v]) \ {c}
      /\ active' \in Seq(Co \X Nat) /\ OneEach(active')
      /\ ToSet(active') = {e \in ToSet(active) : e[1] # c}
  BY DispatchMoves
<1> HIDE DEF c
<1>4. /\ epoll' \in [Fd -> (Co \X (Nat \ {0})) \cup {NoItem}]
      /\ \A f \in Fd : epoll'[f] = epoll[f] \/ epoll'[f] = NoItem
      /\ \A f \in Fd : epoll'[f] # NoItem => epoll[f][1] # c
      /\ \A f \in Fd : epoll[f] # NoItem /\ epoll[f][1] # c => epoll'[f] = epoll[f]
  BY <1>1, <1>2, <1>3, DispatchUnregisters
<1>5. /\ wait' \in [Co -> {NotWaiting} \cup PollRecords \cup CVRecords]
      /\ wait'[c] = NotWaiting
      /\ \A x \in Co : x # c => wait'[x] = wait[x]
      /\ NotWaiting.on = "none"
  BY <1>1, <1>2, <1>3 DEF Types, NotWaiting
<1>6. ~ IsInWheel(c) /\ wait[c] # NotWaiting
  BY <1>1, <1>3 DEF QueuesSound
<1>7. MayResume(c)
  <2>1. Co_CallBack # <<>>
    <3>1. Len(<<>>) = 0
      OBVIOUS
    <3> QED
      BY <1>2, <3>1 DEF LoopRuns
  <2> QED
    BY <1>1, <1>3, <1>6, <2>1 DEF MayResume, WaitersCanBeResumed
<1>8. /\ Co_CallBack' \in Seq(Entities)
      /\ StackSound'
      /\ WaitersCanBeResumed'
  BY <1>1, <1>2, <1>3, <1>5, <1>7, StackPush
<1>9. Types'
  BY <1>1, <1>2, <1>3, <1>4, <1>5, <1>8 DEF Types, Entities, PollRecords, CVRecords, NotWaiting
<1>10. \A x : IsActive(x)' <=> IsActive(x) /\ x # c
  <2>1. \A x : IsActive(x)' <=> \E e \in ToSet(active') : e[1] = x
    BY DEF IsActive, ToSet
  <2> QED
    BY <1>3, <2>1 DEF IsActive
<1>11. QueuesSound'
  <2>1. \A x \in Co : IsActive(x)' => ~ IsInWheel(x)'
    BY <1>1, <1>3, <1>10 DEF QueuesSound
  <2>2. \A x \in Co : IsActive(x)' \/ IsInWheel(x)' => wait'[x] # NotWaiting
    BY <1>1, <1>3, <1>5, <1>6, <1>10 DEF QueuesSound
  <2>3. \A v \in CV, x \in Co : x \in ToSet(waiters'[v]) => wait'[x].on = "cv" /\ wait'[x].cv = v
    BY <1>1, <1>3, <1>5 DEF QueuesSound
  <2>4. \A x \in Co : wait'[x].on = "poll" => IsActive(x)' \/ IsInWheel(x)'
    BY <1>1, <1>3, <1>5, <1>10 DEF QueuesSound
  <2>5. ASSUME NEW x \in Co, wait'[x].on = "cv"
        PROVE  IsActive(x)' \/ IsInWheel(x)' \/ x \in ToSet(waiters'[wait'[x].cv])
    <3>1. x # c /\ wait'[x] = wait[x]
      BY <1>5, <2>5
    <3>2. wait[x] \in CVRecords
      BY <1>1, <2>5, <3>1, WaitCases
    <3>3. wait[x].cv \in CV
      BY <3>2 DEF CVRecords
    <3> QED
      BY <1>1, <1>3, <1>10, <2>5, <3>1, <3>3 DEF QueuesSound
  <2>6. OneEach(active)'
    BY <1>3 DEF OneEach, Distinct, ToSet
  <2> QED
    BY <1>3, <2>1, <2>2, <2>3, <2>4, <2>5, <2>6 DEF QueuesSound, Distinct, ToSet, NotWaiting
<1>12. EventsSound'
  <2>1. RegistrationsSound /\ \A f \in Fd : f \in BadFd => epoll[f] = NoItem
    BY <1>1 DEF EventsSound
  <2>2. batch = <<>> /\ Len(batch) = 0 /\ Distinct(batch)
    BY <1>1, <1>2 DEF EventsSound
  <2>3. ASSUME NEW f \in Fd, epoll'[f] # NoItem
        PROVE  LET x == epoll'[f][1]
                   k == epoll'[f][2]
               IN  wait'[x].on = "poll" /\ k \in 1..Len(wait'[x].fds) /\ wait'[x].fds[k] = f
    <3>1. epoll'[f] = epoll[f] /\ epoll[f][1] # c /\ epoll[f] # NoItem
      BY <1>4, <2>3
    <3>2. epoll[f][1] \in Co
      BY <1>1, <3>1 DEF Types
    <3>3. wait'[epoll[f][1]] = wait[epoll[f][1]]
      BY <1>5, <3>1, <3>2
    <3> QED
      BY <2>1, <3>1, <3>3 DEF RegistrationsSound
  <2>4. ASSUME NEW x \in Co, wait'[x].on = "poll", NEW k \in 1..Len(wait'[x].fds),
               wait'[x].fds[k] \notin BadFd
        PROVE  epoll'[wait'[x].fds[k]] = <<x, k>>
    <3>1. x # c /\ wait'[x] = wait[x] /\ wait[x] \in PollRecords
      BY <1>1, <1>5, <2>4, WaitCases
    <3>2. wait[x].fds \in Polls
      BY <3>1 DEF PollRecords
    <3> DEFINE f == wait[x].fds[k]
    <3>3. f \in Fd
      BY <2>4, <3>1, <3>2, PollAssumption
    <3>4. epoll[f] = <<x, k>>
      BY <2>1, <2>4, <3>1 DEF RegistrationsSound
    <3> HIDE DEF f
    <3>5. epoll[f] # NoItem /\ epoll[f][1] # c
      BY <1>1, <3>1, <3>3, <3>4, PollAssumption
    <3>6. epoll'[f] = <<x, k>>
      BY <1>4, <3>3, <3>4, <3>5
    <3> QED
      BY <3>1, <3>6 DEF f
  <2>5. \A f \in Fd : f \in BadFd => epoll'[f] = NoItem
    BY <1>4, <2>1
  <2> QED
    BY <1>2, <2>2, <2>3, <2>4, <2>5 DEF EventsSound, RegistrationsSound, Distinct
<1>13. WaitsSound'
  <2>1. ASSUME NEW x \in Co, wait'[x] # NotWaiting
        PROVE  x # c /\ wait'[x] = wait[x] /\ (IsActive(x)' <=> IsActive(x))
    BY <1>5, <1>10, <2>1
  <2>2. ASSUME NEW x \in Co, wait'[x].on = "poll"
        PROVE  /\ IsFiniteSet(wait'[x].revents)
               /\ wait'[x].RaisedNumber = Cardinality(wait'[x].revents)
               /\ wait'[x].IsHandle <=> wait'[x].revents # {}
               /\ wait'[x].IsHandle => lpc \in {"prepare", "dispatch"} /\ IsActive(x)'
    <3>1. wait'[x] # NotWaiting
      BY <1>5, <2>2
    <3> QED
      BY <1>1, <2>1, <2>2, <3>1 DEF WaitsSound
  <2>3. ASSUME NEW x \in Co, wait'[x] # NotWaiting, wait'[x].IsTimeout
        PROVE  lpc = "dispatch" /\ IsActive(x)' /\ ExpireTime[x] <= Now
    BY <1>1, <2>1, <2>3 DEF WaitsSound
  <2>4. ASSUME NEW e \in ToSet(active')
        PROVE  IF wait'[e[1]].on = "poll"
               THEN /\ wait'[e[1]].IsHandle <=> e[2] # 0
                    /\ wait'[e[1]].IsTimeout <=> e[2] = 0
               ELSE e[2] = 0
    <3>1. e \in ToSet(active) /\ e[1] # c
      BY <1>3, <2>4
    <3>2. e[1] \in Co
      BY <1>1, <3>1, InToSet DEF Types
    <3>3. wait'[e[1]] = wait[e[1]]
      BY <1>5, <3>1, <3>2
    <3> QED
      BY <1>1, <3>1, <3>3 DEF WaitsSound
  <2> QED
    BY <1>2, <2>2, <2>3, <2>4 DEF WaitsSound, ToSet, NotWaiting
<1>14. RoundSound'
  BY <1>1, <1>2, <1>3 DEF RoundSound
<1> QED
  BY <1>3, <1>8, <1>9, <1>11, <1>12, <1>13, <1>14 DEF LoopInv

-----------------------------------------------------------------------------
(* The invariant *)

\* A thread that has not entered the loop satisfies the invariant.
LEMMA InitLoopInv == Init => LoopInv
<1> SUFFICES ASSUME Init
             PROVE  LoopInv
  OBVIOUS
<1>1. /\ Co_CallBack = <<>> /\ alive = {} /\ ISstart = {} /\ IsEnd = {}
      /\ TW!WheelInit
      /\ lpc = "out" /\ epoll = [f \in Fd |-> NoItem] /\ batch = <<>> /\ Now = 0
      /\ active = <<>> /\ waiters = [v \in CV |-> <<>>]
      /\ wait = [c \in Co |-> NotWaiting]
  BY DEF Init, CallInit
<1>2. TWP!WheelInit
  BY <1>1 DEF TW!WheelInit, TWP!WheelInit, TW!Slots, TWP!Slots
<1>3. TWP!WheelInv
  BY <1>2, WheelAssumed, TWP!InitWheelInv DEF TWP!Init
<1>4. Types
  BY <1>1 DEF Types
<1>5. Len(<<>>) = 0 /\ 1..0 = {}
  OBVIOUS
<1>6. ToSet(<<>>) = {} /\ Distinct(<<>>)
  BY <1>5 DEF ToSet, Distinct
<1>7. StackSound
  BY <1>1, <1>5, <1>6 DEF StackSound
<1>8. WaitersCanBeResumed
  BY <1>1 DEF WaitersCanBeResumed
<1>9. \A c \in Co : ~ IsInWheel(c) /\ ~ IsActive(c)
  <2>1. \A s \in TW!Slots : Wheel[s] = <<>>
    BY <1>1 DEF TW!WheelInit
  <2>2. \A c : ~ Contains(<<>>, c)
    BY <1>5 DEF Contains
  <2>3. \A c : ~ IsInWheel(c)
    BY <2>1, <2>2 DEF IsInWheel
  <2>4. ASSUME NEW c, IsActive(c)
        PROVE  FALSE
    <3>1. PICK e : e \in ToSet(active)
      BY <2>4 DEF IsActive
    <3> QED
      BY <1>1, <1>6, <3>1
  <2> QED
    BY <2>3, <2>4
<1>10. NotWaiting.on = "none"
  BY DEF NotWaiting
<1>11. QueuesSound
  BY <1>1, <1>6, <1>9, <1>10 DEF QueuesSound, OneEach
<1>12. EventsSound
  BY <1>1, <1>5, <1>6, <1>10 DEF EventsSound, RegistrationsSound
<1>13. WaitsSound
  BY <1>1, <1>6, <1>10 DEF WaitsSound
<1>14. RoundSound
  BY <1>1 DEF RoundSound
<1> QED
  BY <1>3, <1>4, <1>7, <1>8, <1>11, <1>12, <1>13, <1>14 DEF LoopInv

\* Every step keeps the invariant.
LEMMA NextLoopInv == LoopInv /\ [Next]_vars => LoopInv'
<1> SUFFICES ASSUME LoopInv, [Next]_vars
             PROVE  LoopInv'
  OBVIOUS
<1>1. ASSUME NEW fds \in Polls, NEW timeout \in PollTimeouts, CarefulPoll(fds, timeout)
      PROVE  LoopInv'
  <2>1. PollFallsBack(fds, timeout) \/ PollIsRefused(fds, timeout) \/ PollWaits(fds, timeout)
    BY <1>1 DEF CarefulPoll, Co_poll_inner
  <2> QED
    BY <1>1, <2>1, PollBackKeeps, PollWaitsKeeps
<1>2. CASE UserNext(CarefulPoll)
  <2>1. \/ (\E c \in Co : Create(c) \/ Resume(c) \/ Free(c)) \/ Yield \/ Finish
        \/ \E fds \in Polls, timeout \in PollTimeouts : CarefulPoll(fds, timeout)
        \/ \E v \in CV, timeout \in CVTimeouts : ConditionVariableWait(v, timeout)
        \/ \E v \in CV : ConditionVariableSignal(v) \/ ConditionVariableBroadcast(v)
    BY <1>2 DEF UserNext
  <2> QED
    BY <1>1, <2>1, CallsKeep, CVWaitKeeps, WakeKeeps
<1>3. CASE LoopNext
  BY <1>3, LoopGoesOn, EpollWaitKeeps, PrepareKeeps, TakeOutKeeps, DispatchKeeps DEF LoopNext
<1>4. CASE ClockStep
  BY <1>4, LoopGoesOn
<1>5. CASE UNCHANGED vars
  <2>1. /\ UNCHANGED <<lpc, batch, Now, epoll, active, waiters, wait, wheelVars>>
        /\ UNCHANGED clockVars /\ UNCHANGED callVars
    BY <1>5 DEF vars, loopVars, waitVars
  <2>2. Types /\ StackSound /\ WaitersCanBeResumed
    BY DEF LoopInv
  <2>3. Co_CallBack' \in Seq(Entities) /\ StackSound' /\ WaitersCanBeResumed'
    BY <2>1, <2>2, StackRests DEF StackSound, Types, callVars
  <2> QED
    BY <2>1, <2>3, OnlyCalls
<1> QED
  BY <1>2, <1>3, <1>4, <1>5 DEF Next

\* The invariant holds of every reachable state.
THEOREM LoopInvariance == Spec => []LoopInv
<1> QED
  BY InitLoopInv, NextLoopInv, PTL DEF Spec

-----------------------------------------------------------------------------
(* What follows from it *)

\* The variables have their types.
THEOREM LoopTypeCorrect == Spec => []TypeOK
<1>1. ASSUME LoopInv
      PROVE  TypeOK
  <2>1. Types /\ TWP!TypeOK
    BY <1>1 DEF LoopInv, TWP!WheelInv
  <2>2. /\ clock \in 1..MaxClock /\ Start \in 0..MaxClock /\ Index \in TW!Slots
        /\ Wheel \in [TW!Slots -> Seq(Co)]
    BY <2>1, SameWheel DEF TWP!TypeOK
  <2>3. ASSUME NEW c \in Co
        PROVE  wait[c].on \in {"none", "poll", "cv"}
    BY <2>1, WaitCases
  <2> QED
    BY <2>1, <2>2, <2>3 DEF TypeOK, Types
<1> QED
  BY <1>1, LoopInvariance, PTL

\* A coroutine's places in the lists of the loop are all one, and it has one
\* just if it is active or in the wheel.
LEMMA QueuedPlaces ==
    ASSUME LoopInv, NEW c \in Co
    PROVE  /\ AtMostOne(Queued(c))
           /\ Queued(c) # {} <=> IsActive(c) \/ IsInWheel(c)
<1>1. /\ active \in Seq(Co \X Nat) /\ OneEach(active)
      /\ ~ (IsActive(c) /\ IsInWheel(c))
      /\ TWP!WheelInv
  BY DEF LoopInv, Types, QueuesSound
<1>2. ToSet(active) = {active[i] : i \in 1..Len(active)}
  BY <1>1, InToSet
<1> DEFINE A(p) == \E i \in 1..Len(active) : active[i][1] = c /\ p = <<0, i>>
           W(p) == \E s \in TW!Slots : \E i \in 1..Len(Wheel[s]) : Wheel[s][i] = c /\ p = <<s + 1, i>>
<1>3. \A p : p \in Queued(c) <=> A(p) \/ W(p)
  BY DEF Queued, InList
<1>4. (\E p : A(p)) <=> IsActive(c)
  BY <1>2 DEF IsActive
<1>5. (\E p : W(p)) <=> IsInWheel(c)
  BY DEF IsInWheel, Contains
<1>6. ASSUME NEW p, NEW q, A(p), A(q)
      PROVE  p = q
  <2>1. PICK i \in 1..Len(active) : active[i][1] = c /\ p = <<0, i>>
    BY <1>6
  <2>2. PICK j \in 1..Len(active) : active[j][1] = c /\ q = <<0, j>>
    BY <1>6
  <2>3. active[i] = active[j]
    BY <1>1, <1>2, <2>1, <2>2 DEF OneEach
  <2> QED
    BY <1>1, <2>1, <2>2, <2>3 DEF OneEach, Distinct
<1>7. ASSUME NEW p, NEW q, W(p), W(q)
      PROVE  p = q
  <2>1. PICK s \in TW!Slots : \E i \in 1..Len(Wheel[s]) : Wheel[s][i] = c /\ p = <<s + 1, i>>
    BY <1>7
  <2>2. PICK i \in 1..Len(Wheel[s]) : Wheel[s][i] = c /\ p = <<s + 1, i>>
    BY <2>1
  <2>3. PICK t \in TW!Slots : \E j \in 1..Len(Wheel[t]) : Wheel[t][j] = c /\ q = <<t + 1, j>>
    BY <1>7
  <2>4. PICK j \in 1..Len(Wheel[t]) : Wheel[t][j] = c /\ q = <<t + 1, j>>
    BY <2>3
  <2>5. s = t
    <3>1. TWP!Contains(Wheel[s], c) /\ TWP!Contains(Wheel[t], c)
      BY <2>2, <2>4 DEF TWP!Contains
    <3> QED
      BY <1>1, <3>1, SameWheel, WheelAssumed, TWP!OneSlot
  <2>6. TWP!Distinct(Wheel[s])
    <3>1. TWP!TypeOK /\ TWP!SlotSound
      BY <1>1 DEF TWP!WheelInv
    <3> QED
      BY <3>1, SameWheel, WheelAssumed, TWP!SlotSoundMeans
  <2>7. i = j
    BY <2>2, <2>4, <2>5, <2>6 DEF TWP!Distinct
  <2> QED
    BY <2>2, <2>4, <2>5, <2>7
<1> HIDE DEF A, W
<1>8. AtMostOne(Queued(c))
  <2> SUFFICES ASSUME NEW p \in Queued(c), NEW q \in Queued(c)
               PROVE  p = q
    BY DEF AtMostOne
  <2> QED
    BY <1>1, <1>3, <1>4, <1>5, <1>6, <1>7
<1>9. Queued(c) # {} <=> IsActive(c) \/ IsInWheel(c)
  BY <1>3, <1>4, <1>5
<1> QED
  BY <1>8, <1>9

\* A coroutine that waits is queued so that it is woken, and never twice: after
\* any mix of events, timeouts, signals and broadcasts, in any order.
THEOREM WakeUpsAreSingle == Spec => []WokenOnce
<1>1. ASSUME LoopInv
      PROVE  WokenOnce
  <2> SUFFICES ASSUME NEW c \in Co
               PROVE  /\ AtMostOne(Queued(c))
                      /\ CASE wait[c].on = "poll" -> Queued(c) # {} /\ \A v \in CV : Listed(c, v) = {}
                           [] wait[c].on = "cv" ->
                                 /\ AtMostOne(Listed(c, wait[c].cv))
                                 /\ Queued(c) # {} \/ Listed(c, wait[c].cv) # {}
                                 /\ \A v \in CV \ {wait[c].cv} : Listed(c, v) = {}
                           [] wait[c].on = "none" -> Queued(c) = {} /\ \A v \in CV : Listed(c, v) = {}
    BY Zenon DEF WokenOnce
  <2>1. Types /\ QueuesSound
    BY <1>1 DEF LoopInv
  <2>2. /\ AtMostOne(Queued(c))
        /\ Queued(c) # {} <=> IsActive(c) \/ IsInWheel(c)
    BY <1>1, QueuedPlaces
  <2>3. /\ wait[c].on = "none" <=> wait[c] = NotWaiting
        /\ wait[c].on = "cv" <=> wait[c] \in CVRecords
        /\ wait[c].on \in {"none", "poll", "cv"}
    BY <2>1, WaitCases
  <2>4. ASSUME NEW v \in CV
        PROVE  /\ Listed(c, v) # {} <=> c \in ToSet(waiters[v])
               /\ AtMostOne(Listed(c, v))
    <3>1. waiters[v] \in Seq(Co) /\ Distinct(waiters[v])
      BY <2>1 DEF Types, QueuesSound
    <3>2. ToSet(waiters[v]) = {waiters[v][i] : i \in 1..Len(waiters[v])}
      BY <3>1, InToSet
    <3> QED
      BY <3>1, <3>2 DEF Listed, AtMostOne, Distinct
  <2>5. CASE wait[c].on = "poll"
    <3>1. IsActive(c) \/ IsInWheel(c)
      BY <2>1, <2>5 DEF QueuesSound
    <3>2. \A v \in CV : c \notin ToSet(waiters[v])
      BY <2>1, <2>5 DEF QueuesSound
    <3> QED
      BY <2>2, <2>4, <2>5, <3>1, <3>2
  <2>6. CASE wait[c].on = "cv"
    <3>1. wait[c].cv \in CV
      BY <2>3, <2>6 DEF CVRecords
    <3>2. IsActive(c) \/ IsInWheel(c) \/ c \in ToSet(waiters[wait[c].cv])
      BY <2>1, <2>6 DEF QueuesSound
    <3>3. \A v \in CV : c \in ToSet(waiters[v]) => wait[c].cv = v
      BY <2>1 DEF QueuesSound
    <3> QED
      BY <2>2, <2>4, <2>6, <3>1, <3>2, <3>3
  <2>7. CASE wait[c].on = "none"
    <3>1. ~ IsActive(c) /\ ~ IsInWheel(c)
      BY <2>1, <2>3, <2>7 DEF QueuesSound
    <3>2. \A v \in CV : c \notin ToSet(waiters[v])
      BY <2>1, <2>7 DEF QueuesSound
    <3> QED
      BY <2>2, <2>4, <2>7, <3>1, <3>2
  <2> QED
    BY <2>3, <2>5, <2>6, <2>7
<1> QED
  BY <1>1, LoopInvariance, PTL

\* What the loop resumes is alive, has started, has not ended and does not run.
THEOREM ResumedAreSuspended == Spec => []WaitersCanBeResumed
<1>1. LoopInv => WaitersCanBeResumed
  BY DEF LoopInv
<1> QED
  BY <1>1, LoopInvariance, PTL

\* epoll's registrations and the polls that wait correspond, so an event finds
\* the poll that asked for it and never memory of one that is gone.
THEOREM EventsFindTheirPoll == Spec => []RegistrationsSound
<1>1. LoopInv => RegistrationsSound
  BY DEF LoopInv, EventsSound
<1> QED
  BY <1>1, LoopInvariance, PTL

\* An active poll either timed out and has no event or counts its events, and
\* what is marked timed out was due when the round collected.
THEOREM WakeUpsHaveACause == Spec => []TimeoutOrEvent
<1>1. ASSUME LoopInv
      PROVE  TimeoutOrEvent
  <2> SUFFICES ASSUME NEW j \in 1..Len(active)
               PROVE  LET w == wait[active[j][1]]
                      IN  /\ w.on = "poll" => /\ w.RaisedNumber = Cardinality(w.revents)
                                              /\ w.IsTimeout <=> w.RaisedNumber = 0
                                              /\ w.IsTimeout <=> active[j][2] = 0
                          /\ w.IsTimeout => ExpireTime[active[j][1]] <= Now
    BY DEF TimeoutOrEvent
  <2> DEFINE e == active[j]
             c == e[1]
             w == wait[c]
  <2>1. Types /\ QueuesSound /\ WaitsSound
    BY <1>1 DEF LoopInv
  <2>2. e \in ToSet(active) /\ c \in Co
    <3>1. active \in Seq(Co \X Nat)
      BY <2>1 DEF Types
    <3>2. e \in ToSet(active) /\ ToSet(active) \subseteq Co \X Nat
      BY <3>1, InToSet
    <3> QED
      BY <3>2
  <2> HIDE DEF e
  <2>3. w # NotWaiting
    BY <2>1, <2>2 DEF QueuesSound, IsActive
  <2>4. w.IsTimeout => ExpireTime[c] <= Now
    BY <2>1, <2>2, <2>3 DEF WaitsSound
  <2>5. ASSUME w.on = "poll"
        PROVE  /\ w.RaisedNumber = Cardinality(w.revents)
               /\ w.IsTimeout <=> w.RaisedNumber = 0
               /\ w.IsTimeout <=> e[2] = 0
    <3>1. /\ IsFiniteSet(w.revents)
          /\ w.RaisedNumber = Cardinality(w.revents)
          /\ w.IsHandle <=> w.revents # {}
          /\ w.IsHandle <=> e[2] # 0
          /\ w.IsTimeout <=> e[2] = 0
      BY <2>1, <2>2, <2>5 DEF WaitsSound
    <3>2. w.RaisedNumber = 0 <=> w.revents = {}
      BY <3>1, FS_EmptySet
    <3> QED
      BY <3>1, <3>2
  <2> QED
    BY <2>4, <2>5 DEF e
<1> QED
  BY <1>1, LoopInvariance, PTL

\* A round leaves no wait behind that was due when it collected.
THEOREM RoundsMissNothing == Spec => []RoundComplete
<1>1. ASSUME LoopInv
      PROVE  RoundComplete
  <2> SUFFICES ASSUME lpc \in {"dispatch", "fun"}, Start <= Now,
                      NEW s \in TW!Slots, NEW i \in 1..Len(Wheel[s])
               PROVE  ExpireTime[Wheel[s][i]] > Now
    BY DEF RoundComplete
  <2>1. RoundSound /\ TWP!WheelInv /\ Now \in Int
    BY <1>1 DEF LoopInv, Types
  <2>2. Start = Now
    BY <2>1, WheelTypes DEF RoundSound
  <2>3. IsInWheel(Wheel[s][i])
    BY DEF IsInWheel, Contains
  <2>4. Wheel[s][i] \in Co
    BY <2>1, <2>3, WheelTypes
  <2> QED
    BY <2>1, <2>2, <2>3, <2>4 DEF RoundSound
<1> QED
  BY <1>1, LoopInvariance, PTL

=============================================================================
