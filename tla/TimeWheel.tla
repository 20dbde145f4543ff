----------------------------- MODULE TimeWheel -----------------------------
(***************************************************************************)
(* The timing wheel of the event loop: one slot per millisecond, the slot  *)
(* Index belonging to the time Start.  An item waits in the slot of its    *)
(* ExpireTime; TakeOutTimeout joins the slots from Start to now into the   *)
(* TimeOut list.  The clock is the system clock: it may be set back.       *)
(*                                                                         *)
(* Slots and lists are sequences; a linked list of the code is the         *)
(* sequence of its items.  Index, an int64 only used modulo the wheel's    *)
(* size, is kept reduced.                                                  *)
(***************************************************************************)
EXTENDS ListOps, SequencesExt, Integers

CONSTANTS Item,         \* the addresses of CoEventItems
          DefaultSize,  \* slots of the wheel (86400 in the code)
          IntMod,       \* values of an int (2^32 in the code)
          Timeouts,     \* the timeouts, in ms, that callers ask for
          MaxClock,     \* bound: the clock stops there
          MaxBack       \* bound: how often the clock is set back

ASSUME WheelAssumption ==
    /\ DefaultSize \in Nat \ {0}
    /\ IntMod \in Nat /\ IntMod >= 2 * DefaultSize
    /\ Timeouts \subseteq Int
    /\ MaxClock \in Nat \ {0}
    /\ MaxBack \in Nat

VARIABLES clock,      \* get_mill_time_stamp()
          back,       \* how often the clock has been set back
          Start,      \* time of slot Index, 0 before the first use
          Index,
          Wheel,      \* slot -> the items in it, in the order of their insertion
          ExpireTime, \* item -> its ExpireTime
          TimeOut     \* the timeout list that TakeOutTimeout filled last

clockVars == <<clock, back>>
wheelVars == <<Start, Index, Wheel, ExpireTime>>
tvars == <<clockVars, wheelVars, TimeOut>>

Slots == 0..(DefaultSize - 1)

\* RemoveFromWheel's Link # nullptr, for the lists of the wheel.
InWheel(i) == \E s \in Slots : Contains(Wheel[s], i)

WheelInit ==
    /\ clock = 1
    /\ back = 0
    /\ Start = 0
    /\ Index = 0
    /\ Wheel = [s \in Slots |-> <<>>]
    /\ ExpireTime = [i \in Item |-> 0]

-----------------------------------------------------------------------------
(* The clock *)

Tick ==
    /\ clock < MaxClock
    /\ clock' = clock + 1
    /\ UNCHANGED back

\* The administrator or NTP sets the clock back by a millisecond.
SetBack ==
    /\ back < MaxBack
    /\ clock > 1
    /\ clock' = clock - 1
    /\ back' = back + 1

-----------------------------------------------------------------------------
(* The wheel's operations *)

\* Both operations begin by starting an unused wheel at the current time.
StartAt(now) == IF Start = 0 THEN now ELSE Start
IndexAt == IF Start = 0 THEN 0 ELSE Index

\* Mutant of Refuses: an interval of a whole turn is let in.
RefusesOneLater(now, expire) ==
    \/ now < StartAt(now)
    \/ expire < now
    \/ expire - StartAt(now) > DefaultSize

\* The three early returns of AddTimeOut.
Refuses(now, expire) ==
    \/ now < StartAt(now)
    \/ expire < now
    \/ expire - StartAt(now) >= DefaultSize

\* Mutant of AddTimeOut: the slot is not taken modulo the size.
AddTimeOutUnreduced(i, now, expire) ==
    /\ ExpireTime' = [ExpireTime EXCEPT ![i] = expire]
    /\ Start' = StartAt(now)
    /\ Index' = IndexAt
    /\ Wheel' = IF Refuses(now, expire)
                THEN Wheel
                ELSE LET s == IndexAt + expire - StartAt(now)
                     IN  [x \in Slots \cup {s} |->
                            IF x = s THEN <<i>> ELSE Wheel[x]]

AddTimeOut(i, now, expire) ==
    /\ ExpireTime' = [ExpireTime EXCEPT ![i] = expire]
    /\ Start' = StartAt(now)
    /\ Index' = IndexAt
    /\ Wheel' = IF Refuses(now, expire)
                THEN Wheel
                ELSE [Wheel EXCEPT ![(IndexAt + expire - StartAt(now)) % DefaultSize] =
                                        Append(@, i)]

RemoveFromWheel(i) ==
    /\ Wheel' = [s \in Slots |-> Excluding(Wheel[s], {i})]
    /\ UNCHANGED <<Start, Index, ExpireTime>>

\* Mutant of Passed: the slot of the current millisecond is left out.
PassedExclusive(now) ==
    LET n == (now - StartAt(now)) % IntMod
    IN  IF n > DefaultSize THEN DefaultSize ELSE n

\* How many slots TakeOutTimeout empties.  The distance is cut to an int; a
\* negative one is compared as an unsigned and so reduced to the size as well.
Passed(now) ==
    LET n == (now - StartAt(now) + 1) % IntMod
    IN  IF n > DefaultSize THEN DefaultSize ELSE n

\* The two early returns of TakeOutTimeout.
NothingPassed(now) == now < StartAt(now) \/ Passed(now) = 0

\* The index-th slot TakeOutTimeout visits, counted from 0.
Visited(k) == (IndexAt + k) % DefaultSize

\* The list it joins together.
TakenOut(now) ==
    IF NothingPassed(now)
    THEN <<>>
    ELSE FlattenSeq([k \in 1..Passed(now) |-> Wheel[Visited(k - 1)]])

TakeOutTimeout(now) ==
    /\ Start' = IF NothingPassed(now) THEN Start ELSE now
    /\ Index' = IF NothingPassed(now) THEN Index
                ELSE (IndexAt + Passed(now) - 1) % DefaultSize
    /\ Wheel' = IF NothingPassed(now) THEN Wheel
                ELSE LET gone == {Visited(k) : k \in 0..(Passed(now) - 1)}
                     IN  [s \in Slots |-> IF s \in gone THEN <<>> ELSE Wheel[s]]
    /\ UNCHANGED ExpireTime

\* What a collection asks of its caller and of the clock: the distance from the
\* last one fits the int (49 days), else due items may stay behind.
InTime(now) == now - StartAt(now) + 1 < IntMod

-----------------------------------------------------------------------------
(* The wheel on its own: waits begin, are cancelled, and are collected.     *)

Init == WheelInit /\ TimeOut = <<>>

Add(i) ==
    /\ ~InWheel(i)
    /\ \E t \in Timeouts : AddTimeOut(i, clock, clock + t)
    /\ UNCHANGED <<clockVars, TimeOut>>

Cancel(i) ==
    /\ InWheel(i)
    /\ RemoveFromWheel(i)
    /\ UNCHANGED <<clockVars, TimeOut>>

\* The event loop hands on the list it got before it collects again.
TakeOut ==
    /\ TakeOutTimeout(clock)
    /\ TimeOut' = TakenOut(clock)
    /\ UNCHANGED clockVars

TakeOutInTime == InTime(clock) /\ TakeOut

ClockStep == (Tick \/ SetBack) /\ UNCHANGED <<wheelVars, TimeOut>>

Next ==
    \/ \E i \in Item : Add(i) \/ Cancel(i)
    \/ TakeOut
    \/ ClockStep

Spec == Init /\ [][Next]_tvars

\* A wheel whose items are collected in time.
TimelyNext ==
    \/ \E i \in Item : Add(i) \/ Cancel(i)
    \/ TakeOutInTime
    \/ ClockStep

TimelySpec == Init /\ [][TimelyNext]_tvars

-----------------------------------------------------------------------------
(* Properties *)

Waiting == {i \in Item : InWheel(i)}

TypeOK ==
    /\ clock \in 1..MaxClock
    /\ back \in 0..MaxBack
    /\ Start \in 0..MaxClock
    /\ Index \in Slots
    /\ Wheel \in [Slots -> Seq(Item)]
    /\ ExpireTime \in [Item -> Int]
    /\ TimeOut \in Seq(Item)

\* An item is in one slot, once, and it is the slot of its ExpireTime: less
\* than one turn ahead of Start, so that the next turn cannot be mistaken for
\* this one.
SlotSound ==
    \A s \in Slots : \A j \in 1..Len(Wheel[s]) :
        LET i == Wheel[s][j]
        IN  /\ s = (Index + ExpireTime[i] - Start) % DefaultSize
            /\ ExpireTime[i] - Start \in 0..(DefaultSize - 1)
            /\ \A k \in 1..Len(Wheel[s]) : Wheel[s][k] = i => k = j

T == INSTANCE Timers WITH Span <- DefaultSize, Time <- 1..MaxClock,
                          pending <- Waiting, expiry <- ExpireTime,
                          latest <- Start, due <- TimeOut

\* The clock may run, jump over the whole wheel and go back: as long as the
\* collections come in time, an accepted item is handed out by the first one at
\* or after its expiry and by no earlier one, once, earliest expiry first.
ImplementsTimers == T!Spec

=============================================================================
