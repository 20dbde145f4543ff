----------------------------- MODULE EventLoop -----------------------------
(***************************************************************************)
(* The event loop of a thread and the coroutines that wait in it: in a     *)
(* poll (Co_poll_inner) or on a condition variable.                        *)
(*                                                                         *)
(* Main runs EventLoop in rounds: epoll_wait; CoPrepare_ for every event;  *)
(* collect the due items from the timing wheel; resume, one after the      *)
(* other, the coroutines of the active list; call fun.  A resumed          *)
(* coroutine runs - and may resume others, signal, and wait again - until  *)
(* it gives control back, so everything below happens between two steps of *)
(* the loop that the loop's author sees as adjacent.                       *)
(*                                                                         *)
(* A coroutine waits for one thing at a time, so its CoEventItem (the      *)
(* Stpoll_t, or the Item of its ConditionVariableItem) is named by the     *)
(* coroutine.  <<c, 0>> is that item and <<c, i>> the StPollItem of the    *)
(* i-th fd it polls.  The timeout list is empty between two steps, it is   *)
(* joined into the active list as soon as it is filled.                    *)
(***************************************************************************)
EXTENDS CoCall, ListOps, SequencesExt, FiniteSets

CONSTANTS Fd,            \* file descriptors
          BadFd,         \* those epoll_ctl refuses to add (EPERM, EBADF)
          Polls,         \* the fd arrays that are polled, sequences over Fd
          PollTimeouts,  \* timeouts handed to Co_poll_inner
          Forever,       \* what the hooked poll hands on for a negative timeout
          ShortItemOptimization,
          CV,            \* condition variables
          CVTimeouts,    \* timeouts of ConditionVariableWait, 0 for none
          DefaultSize,   \* slots of the wheel
          IntMod,        \* values of an int (2^32 in the code)
          MaxClock,      \* bound: the clock stops there
          MaxBack,       \* bound: how often the clock is set back
          NoItem

\* The hooked poll answers a timeout of 0 itself and merges repeated fds.
ASSUME PollAssumption ==
    /\ IsFiniteSet(Fd)
    /\ PollTimeouts \subseteq Nat \ {0}
    /\ Polls \subseteq Seq(Fd)
    /\ \A fds \in Polls : \A i, j \in 1..Len(fds) : fds[i] = fds[j] => i = j
    /\ ShortItemOptimization \in Nat \ {0}
    /\ NoItem \notin Co \X Nat

\* AddTimeOut asks for a timeout that is not 0; an uint32 is not negative.
ASSUME WaitAssumption ==
    /\ CVTimeouts \subseteq Nat
    /\ DefaultSize \in Nat \ {0}
    /\ IntMod \in Nat /\ IntMod >= 2 * DefaultSize
    /\ MaxClock \in Nat \ {0}
    /\ MaxBack \in Nat

VARIABLES lpc,      \* where Main is: "out", "wait", "prepare", "dispatch", "fun"
          epoll,    \* fd -> the StPollItem registered with it, or NoItem
          batch,    \* the events of the round still to prepare: their StPollItems
          Now,      \* EventLoop's Now
          active,   \* the active list
          waiters,  \* condition variable -> the coroutines in its list
          wait,     \* coroutine -> what it waits for
          ret       \* coroutine -> timeout and result of the poll it came from

VARIABLES clock, back, Start, Index, Wheel, ExpireTime

TW == INSTANCE TimeWheel WITH Item <- Co, TimeOut <- <<>>,
                             Timeouts <- PollTimeouts \cup CVTimeouts

loopVars == <<lpc, batch, Now>>
waitVars == <<epoll, active, waiters, wait, ret>>
wheelVars == <<Start, Index, Wheel, ExpireTime>>
clockVars == <<clock, back>>
vars == <<callVars, loopVars, waitVars, wheelVars, clockVars>>

NotWaiting == [on |-> "none"]
NotPolled == <<>>

PollOn(fds) ==
    [on |-> "poll", fds |-> fds, RaisedNumber |-> 0, revents |-> {},
     IsHandle |-> FALSE, IsTimeout |-> FALSE]

CVOn(v) == [on |-> "cv", cv |-> v, IsTimeout |-> FALSE]

Init ==
    /\ CallInit
    /\ TW!WheelInit
    /\ lpc = "out"
    /\ epoll = [f \in Fd |-> NoItem]
    /\ batch = <<>>
    /\ Now = 0
    /\ active = <<>>
    /\ waiters = [v \in CV |-> <<>>]
    /\ wait = [c \in Co |-> NotWaiting]
    /\ ret = [c \in Co |-> NotPolled]

\* Main executes the loop itself.
LoopRuns == Len(Co_CallBack) = 1

\* A coroutine runs, or Main outside the loop or in the loop's fun.
UserRuns == Len(Co_CallBack) > 1 \/ lpc \in {"out", "fun"}

CoRuns == Len(Co_CallBack) > 1

-----------------------------------------------------------------------------
(* Coroutines that do not wait *)

Create(c) ==
    /\ UserRuns
    /\ Co_Create(c)
    /\ ret' = [ret EXCEPT ![c] = NotPolled]
    /\ UNCHANGED <<loopVars, epoll, active, waiters, wait, wheelVars, clockVars>>

\* A caller resumes coroutines that are new or have yielded; those that wait
\* are resumed by the loop.
Resume(c) ==
    /\ UserRuns
    /\ MayResume(c)
    /\ wait[c] = NotWaiting
    /\ Co_resume(c)
    /\ UNCHANGED <<loopVars, waitVars, wheelVars, clockVars>>

Yield ==
    /\ YieldInFun
    /\ ret' = [ret EXCEPT ![Current] = NotPolled]
    /\ UNCHANGED <<loopVars, epoll, active, waiters, wait, wheelVars, clockVars>>

Finish ==
    /\ Co_realRunningFunEnd
    /\ ret' = [ret EXCEPT ![Current] = NotPolled]
    /\ UNCHANGED <<loopVars, epoll, active, waiters, wait, wheelVars, clockVars>>

\* The caller deletes only entities that do not wait.
Free(c) ==
    /\ UserRuns
    /\ wait[c] = NotWaiting
    /\ FreeCo_Entity(c)
    /\ UNCHANGED <<loopVars, waitVars, wheelVars, clockVars>>

-----------------------------------------------------------------------------
(* Co_poll_inner *)

\* epoll_ctl(EPOLL_CTL_ADD) fails: the fd cannot be polled, or is registered.
Refused(fds) == {i \in 1..Len(fds) : fds[i] \in BadFd \/ epoll[fds[i]] # NoItem}

\* epoll after the fds of the given positions have been added for c.
Registered(c, fds, positions) ==
    [f \in Fd |-> IF \E i \in positions : fds[i] = f
                  THEN <<c, CHOOSE i \in positions : fds[i] = f>>
                  ELSE epoll[f]]

\* epoll after EPOLL_CTL_DEL of every fd, whoever registered it.
Unregistered(fds) == [f \in Fd |-> IF Contains(fds, f) THEN NoItem ELSE epoll[f]]

\* The program's own poll is called instead; what was added stays.
PollFallsBack(fds, timeout) ==
    /\ Refused(fds) # {}
    /\ Len(fds) <= ShortItemOptimization
    /\ LET first == CHOOSE i \in Refused(fds) : \A j \in Refused(fds) : i <= j
       IN  epoll' = Registered(Current, fds, 1..(first - 1))
    /\ \E n \in 0..Len(fds) : ret' = [ret EXCEPT ![Current] = <<timeout, n>>]
    /\ UNCHANGED <<callVars, loopVars, active, waiters, wait, wheelVars>>

Added(fds) == 1..Len(fds) \ Refused(fds)

\* Mutant of PollIsRefused: the fds stay registered.
PollIsRefusedLeaks(fds, timeout) ==
    /\ Refused(fds) = {} \/ Len(fds) > ShortItemOptimization
    /\ TW!Refuses(clock, clock + timeout)
    /\ TW!AddTimeOut(Current, clock, clock + timeout)
    /\ epoll' = Registered(Current, fds, Added(fds))
    /\ ret' = [ret EXCEPT ![Current] = <<timeout, -1>>]
    /\ UNCHANGED <<callVars, loopVars, active, waiters, wait>>

\* AddTimeOut fails: -1, and the fds are removed again.
PollIsRefused(fds, timeout) ==
    /\ Refused(fds) = {} \/ Len(fds) > ShortItemOptimization
    /\ TW!Refuses(clock, clock + timeout)
    /\ TW!AddTimeOut(Current, clock, clock + timeout)
    /\ epoll' = Unregistered(fds)
    /\ ret' = [ret EXCEPT ![Current] = <<timeout, -1>>]
    /\ UNCHANGED <<callVars, loopVars, active, waiters, wait>>

\* The poll waits: registered with epoll, in the wheel, and it yields.
PollWaits(fds, timeout) ==
    /\ Refused(fds) = {} \/ Len(fds) > ShortItemOptimization
    /\ ~TW!Refuses(clock, clock + timeout)
    /\ clock + timeout <= MaxClock
    /\ epoll' = Registered(Current, fds, Added(fds))
    /\ TW!AddTimeOut(Current, clock, clock + timeout)
    /\ wait' = [wait EXCEPT ![Current] = PollOn(fds)]
    /\ ret' = [ret EXCEPT ![Current] = NotPolled]
    /\ YieldInFun
    /\ UNCHANGED <<loopVars, active, waiters>>

Co_poll_inner(fds, timeout) ==
    /\ CoRuns
    /\ \/ PollFallsBack(fds, timeout)
       \/ PollIsRefused(fds, timeout)
       \/ PollWaits(fds, timeout)
    /\ UNCHANGED clockVars

-----------------------------------------------------------------------------
(* Condition variables *)

\* The wheel's slots and the active list without the items of the coroutines
\* cs: RemoveFromWheel takes an item out of whichever list it is in.
WheelWithout(cs) == [s \in TW!Slots |-> Excluding(Wheel[s], cs)]
Without(list, cs) == Excluding(list, cs \X {0})

\* ConditionVariableWait up to its Co_yeild, or to the failure of AddTimeOut.
ConditionVariableWait(v, timeout) ==
    /\ CoRuns
    /\ clock + timeout <= MaxClock
    /\ IF timeout > 0 THEN TW!AddTimeOut(Current, clock, clock + timeout)
                      ELSE UNCHANGED wheelVars
    /\ IF timeout > 0 /\ TW!Refuses(clock, clock + timeout)
       THEN UNCHANGED <<callVars, waiters, wait, ret>>
       ELSE /\ waiters' = [waiters EXCEPT ![v] = Append(@, Current)]
            /\ wait' = [wait EXCEPT ![Current] = CVOn(v)]
            /\ ret' = [ret EXCEPT ![Current] = NotPolled]
            /\ YieldInFun
    /\ UNCHANGED <<loopVars, epoll, active, clockVars>>

\* The first n coroutines of v's list become active, wherever their items were.
WakeFirst(v, n) ==
    LET woken == SubSeq(waiters[v], 1, n)
    IN  /\ waiters' = [waiters EXCEPT ![v] = SubSeq(@, n + 1, Len(@))]
        /\ Wheel' = WheelWithout(ToSet(woken))
        /\ active' = Without(active, ToSet(woken)) \o [i \in 1..n |-> <<woken[i], 0>>]
        /\ UNCHANGED <<callVars, loopVars, epoll, wait, ret, Start, Index, ExpireTime,
                       clockVars>>

ConditionVariableSignal(v) ==
    /\ UserRuns
    /\ waiters[v] # <<>>
    /\ WakeFirst(v, 1)

ConditionVariableBroadcast(v) ==
    /\ UserRuns
    /\ waiters[v] # <<>>
    /\ WakeFirst(v, Len(waiters[v]))

-----------------------------------------------------------------------------
(* EventLoop *)

EnterLoop ==
    /\ lpc = "out"
    /\ LoopRuns
    /\ lpc' = "wait"
    /\ UNCHANGED <<callVars, batch, Now, waitVars, wheelVars, clockVars>>

\* Epoll_Wait(.., 1): any of the registered fds may be ready, in any order.
Epoll_Wait ==
    /\ lpc = "wait"
    /\ \E fds \in SUBSET {f \in Fd : epoll[f] # NoItem} :
          batch' \in SetToSeqs({epoll[f] : f \in fds})
    /\ lpc' = "prepare"
    /\ UNCHANGED <<callVars, Now, waitVars, wheelVars, clockVars>>

\* Mutant of CoPrepare_: the poll is not taken out of the wheel.
CoPrepareInWheel(c, i) ==
    /\ wait' = [wait EXCEPT ![c].RaisedNumber = @ + 1,
                            ![c].revents = @ \cup {i},
                            ![c].IsHandle = TRUE]
    /\ active' = IF wait[c].IsHandle THEN active ELSE Append(active, <<c, i>>)
    /\ UNCHANGED Wheel

\* Mutant of CoPrepare_: AddTail finds a Link that was never initialised and
\* does nothing.
CoPrepareNotAdded(c, i) ==
    /\ wait' = [wait EXCEPT ![c].RaisedNumber = @ + 1,
                            ![c].revents = @ \cup {i},
                            ![c].IsHandle = TRUE]
    /\ Wheel' = IF wait[c].IsHandle THEN Wheel ELSE WheelWithout({c})
    /\ UNCHANGED active

\* The first event of a poll takes it out of the wheel and makes it active.
CoPrepare_(c, i) ==
    /\ wait' = [wait EXCEPT ![c].RaisedNumber = @ + 1,
                            ![c].revents = @ \cup {i},
                            ![c].IsHandle = TRUE]
    /\ IF wait[c].IsHandle
       THEN UNCHANGED <<active, Wheel>>
       ELSE /\ active' = Append(Without(active, {c}), <<c, i>>)
            /\ Wheel' = WheelWithout({c})

Prepare ==
    /\ lpc = "prepare"
    /\ batch # <<>>
    /\ CoPrepare_(Head(batch)[1], Head(batch)[2])
    /\ batch' = Tail(batch)
    /\ UNCHANGED <<callVars, lpc, Now, epoll, waiters, ret, Start, Index, ExpireTime,
                   clockVars>>

\* TakeOutTimeout, SetUpTimepoutLable, and the Join into the active list.
TakeOut ==
    /\ lpc = "prepare"
    /\ batch = <<>>
    /\ Now' = clock
    /\ TW!TakeOutTimeout(clock)
    /\ LET timeout == TW!TakenOut(clock)
       IN  /\ active' = active \o [i \in 1..Len(timeout) |-> <<timeout[i], 0>>]
           /\ wait' = [c \in Co |-> IF Contains(timeout, c)
                                    THEN [wait[c] EXCEPT !.IsTimeout = TRUE]
                                    ELSE wait[c]]
    /\ lpc' = "dispatch"
    /\ UNCHANGED <<callVars, batch, epoll, waiters, ret, clockVars>>

\* The rounds, and the clock, leave less than 2^32 ms between two collections.
TakeOutInTime == TW!InTime(clock) /\ TakeOut

\* The rest of Co_poll_inner, in the resumed coroutine.
PollReturns(c) ==
    /\ wait[c].on = "poll"
    /\ Wheel' = WheelWithout({c})
    /\ epoll' = Unregistered(wait[c].fds)
    /\ ret' = [ret EXCEPT ![c] = <<0, wait[c].RaisedNumber>>]
    /\ UNCHANGED waiters

\* Mutant of ConditionVariableReturns: the item is deleted but stays listed.
ConditionVariableReturnsListed(c) ==
    /\ wait[c].on = "cv"
    /\ UNCHANGED <<Wheel, epoll, ret, waiters>>

\* The rest of ConditionVariableWait.
ConditionVariableReturns(c) ==
    /\ wait[c].on = "cv"
    /\ waiters' = [waiters EXCEPT ![wait[c].cv] = Excluding(@, {c})]
    /\ UNCHANGED <<Wheel, epoll, ret>>

\* The loop resumes the head of the active list.
Dispatch ==
    /\ lpc = "dispatch"
    /\ LoopRuns
    /\ active # <<>>
    /\ LET c == Head(active)[1]
       IN  /\ Co_resume(c)
           /\ active' = Without(Tail(active), IF wait[c].on = "poll" THEN {c} ELSE {})
           /\ wait' = [wait EXCEPT ![c] = NotWaiting]
           /\ PollReturns(c) \/ ConditionVariableReturns(c)
    /\ UNCHANGED <<loopVars, Start, Index, ExpireTime, clockVars>>

\* Mutant of EndRound: the loop may go on before the active list is empty.
EndRoundEarly ==
    /\ lpc = "dispatch"
    /\ LoopRuns
    /\ lpc' = "fun"
    /\ UNCHANGED <<callVars, batch, Now, waitVars, wheelVars, clockVars>>

EndRound ==
    /\ lpc = "dispatch"
    /\ LoopRuns
    /\ active = <<>>
    /\ lpc' = "fun"
    /\ UNCHANGED <<callVars, batch, Now, waitVars, wheelVars, clockVars>>

\* fun returns; with -1 the loop is left.
FunReturns ==
    /\ lpc = "fun"
    /\ LoopRuns
    /\ lpc' \in {"wait", "out"}
    /\ UNCHANGED <<callVars, batch, Now, waitVars, wheelVars, clockVars>>

-----------------------------------------------------------------------------

ClockStep == (TW!Tick \/ TW!SetBack) /\ UNCHANGED <<callVars, loopVars, waitVars, wheelVars>>

LoopNext ==
    \/ EnterLoop
    \/ Epoll_Wait
    \/ Prepare
    \/ TakeOutInTime
    \/ Dispatch
    \/ EndRound
    \/ FunReturns

UserNext(PollCall(_, _)) ==
    \/ \E c \in Co : Create(c) \/ Resume(c) \/ Free(c)
    \/ Yield
    \/ Finish
    \/ \E fds \in Polls, timeout \in PollTimeouts : PollCall(fds, timeout)
    \/ \E v \in CV : \/ \E timeout \in CVTimeouts : ConditionVariableWait(v, timeout)
                     \/ ConditionVariableSignal(v)
                     \/ ConditionVariableBroadcast(v)

\* A caller that does not poll several fds one of which epoll refuses, and that
\* leaves an fd others wait for to them when it polls many.
CarefulPoll(fds, timeout) ==
    /\ Refused(fds) # {} => \/ Len(fds) = 1
                            \/ /\ Len(fds) > ShortItemOptimization
                               /\ \A i \in Refused(fds) : fds[i] \in BadFd
    /\ Co_poll_inner(fds, timeout)

Next == LoopNext \/ UserNext(CarefulPoll) \/ ClockStep

Spec == Init /\ [][Next]_vars

\* A caller that polls what it likes.
AnyPollSpec == Init /\ [][LoopNext \/ UserNext(Co_poll_inner) \/ ClockStep]_vars

-----------------------------------------------------------------------------
(* Fairness.  Main goes on with the loop whenever it runs, and fun returns;    *)
(* every coroutine that is given control again and again gives it back now     *)
(* and then, by ending, yielding or waiting; time passes.                      *)

GivesBack(c) ==
    /\ CoRuns
    /\ Current = c
    /\ \/ Yield
       \/ Finish
       \/ \E fds \in Polls, timeout \in PollTimeouts :
             PollWaits(fds, timeout) /\ UNCHANGED clockVars
       \/ \E v \in CV, timeout \in CVTimeouts : ConditionVariableWait(v, timeout)
    /\ Co_CallBack' # Co_CallBack

Fairness ==
    /\ WF_vars(Epoll_Wait \/ Prepare \/ TakeOutInTime)
    /\ WF_vars(Dispatch)
    /\ WF_vars(EndRound)
    /\ SF_vars(FunReturns)
    /\ \A c \in Co : SF_vars(GivesBack(c))
    /\ WF_vars(TW!Tick /\ UNCHANGED <<callVars, loopVars, waitVars, wheelVars>>)

LiveSpec == Spec /\ Fairness

-----------------------------------------------------------------------------
(* Properties *)

InList(list, c) == {i \in 1..Len(list) : list[i][1] = c}
Listed(c, v) == {i \in 1..Len(waiters[v]) : waiters[v][i] = c}

\* Where c's item, or one of its StPollItems, is queued for the loop: at which
\* places of the active list, list 0, and of slot s of the wheel, list s + 1.
Queued(c) ==
    ({0} \X InList(active, c)) \cup
    UNION {{s + 1} \X {i \in 1..Len(Wheel[s]) : Wheel[s][i] = c} : s \in TW!Slots}

AtMostOne(places) == \A p, q \in places : p = q

TypeOK ==
    /\ Co_CallBack \in Seq(Entities)
    /\ lpc \in {"out", "wait", "prepare", "dispatch", "fun"}
    /\ clock \in 1..MaxClock
    /\ Start \in 0..MaxClock
    /\ Index \in TW!Slots
    /\ batch \in Seq(Co \X (Nat \ {0}))
    /\ active \in Seq(Co \X Nat)
    /\ Wheel \in [TW!Slots -> Seq(Co)]
    /\ \A v \in CV : waiters[v] \in Seq(Co)
    /\ \A f \in Fd : epoll[f] # NoItem => epoll[f] \in Co \X (Nat \ {0})
    /\ \A c \in Co : wait[c].on \in {"none", "poll", "cv"}

\* A coroutine that waits can be woken, and once: its item is in the wheel or
\* in the active list but never twice, whatever mix of events, timeouts, signals
\* and broadcasts came in which order.  A coroutine that does not wait has no
\* item in any list: the item has been deleted.
WokenOnce ==
    \A c \in Co :
        /\ AtMostOne(Queued(c))
        /\ CASE wait[c].on = "poll" -> Queued(c) # {} /\ \A v \in CV : Listed(c, v) = {}
             [] wait[c].on = "cv" ->
                   /\ AtMostOne(Listed(c, wait[c].cv))
                   /\ Queued(c) # {} \/ Listed(c, wait[c].cv) # {}
                   /\ \A v \in CV \ {wait[c].cv} : Listed(c, v) = {}
             [] wait[c].on = "none" -> Queued(c) = {} /\ \A v \in CV : Listed(c, v) = {}

\* What the loop resumes is a live coroutine that has been suspended: never one
\* that has ended, been deleted, or is on the call stack.
WaitersCanBeResumed ==
    \A c \in Co : wait[c] # NotWaiting =>
        c \in alive /\ c \in ISstart /\ c \notin IsEnd /\ c \notin OnCallStack

\* An fd registered with epoll leads to the StPollItem of a poll that waits for
\* it, and every fd a poll waits for is registered for that poll: an event
\* never reaches a freed item, and never the wrong coroutine.
RegistrationsSound ==
    /\ \A f \in Fd : epoll[f] # NoItem =>
          LET c == epoll[f][1]
              i == epoll[f][2]
          IN  wait[c].on = "poll" /\ i \in 1..Len(wait[c].fds) /\ wait[c].fds[i] = f
    /\ \A c \in Co : wait[c].on = "poll" =>
          \A i \in 1..Len(wait[c].fds) :
              wait[c].fds[i] \notin BadFd => epoll[wait[c].fds[i]] = <<c, i>>
    /\ \A j \in 1..Len(batch) : wait[batch[j][1]].on = "poll"

\* An active poll either timed out, with no event, or was raised, and then
\* RaisedNumber is the number of its fds with events; and an item that is
\* marked timed out really is due (the loop's "Unexpected error" is not).
TimeoutOrEvent ==
    \A j \in 1..Len(active) :
        LET c == active[j][1]
            w == wait[c]
        IN  /\ w.on = "poll" => /\ w.RaisedNumber = Cardinality(w.revents)
                                /\ w.IsTimeout <=> w.RaisedNumber = 0
                                /\ w.IsTimeout <=> active[j][2] = 0
            /\ w.IsTimeout => ExpireTime[c] <= Now

\* A round leaves no due wait behind: once it has collected, nothing in the
\* wheel has expired at the time it looked at, and nothing that its coroutines
\* add before the next round has; only a clock behind the wheel suspends this.
RoundComplete ==
    lpc \in {"dispatch", "fun"} /\ Start <= Now =>
        \A s \in TW!Slots : \A i \in 1..Len(Wheel[s]) :
            ExpireTime[Wheel[s][i]] > Now

\* As long as the loop is not left, a poll comes back: with its event, or, as
\* no event need ever come, with its timeout.
PollsReturn ==
    \A c \in Co : wait[c].on = "poll" ~> lpc = "out" \/ wait[c].on # "poll"

\* As long as the loop is not left, what became active - by an event, a timeout
\* or a signal - is resumed, however many signals follow it.
ActiveAreResumed ==
    \A c \in Co : InList(active, c) # {} ~> lpc = "out" \/ InList(active, c) = {}

\* A negative timeout means to wait without limit.
InfinitePollWaits == \A c \in Co : ret[c] # <<Forever, -1>>

=============================================================================
