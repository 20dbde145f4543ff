# A verification of RocketCo

RocketCo is a stackful, asymmetric coroutine library for Linux: coroutines
with stacks of their own or on shared stacks, an event loop over epoll with a
timing wheel, condition variables, and hooks that turn blocking system calls
into waits in the event loop.  These modules model it in TLA+; TLC checks
them on small instances, and TLAPS proves for all sizes every invariant, action
property and refinement that TLC finds to hold.  Only liveness is left to TLC alone.

## The system

One thread has one `Co_Rountinue_Env`: a call stack of coroutines and one
`Co_Epoll`.  Threads share nothing of it, so every model is of one thread.
"Concurrency" is the interleaving of coroutines at the points where they give up
control, and it is between these points that most of the hazards lie.

| component | state | operations | interacts with |
|---|---|---|---|
| coroutine core (`Co_Routine.cpp`) | `Co_CallBack`, `Co_ESP`; `ISstart`, `IsEnd` of each entity | `Co_Create`, `Co_resume`, `Co_yeild`, `Co_realRunningFun`, `FreeCo_Entity` | everything |
| stack switching (`co_swap_Co`, `coswap.cpp`, `coctx_swap.S`) | `Csm`, `ESP`, `Used_Stack`, `rsp` of each entity; `alloc_idx`, `current_co`, `stack_buffer` of the stacks; `using_Co`, `prev_Co` | the switch in every resume and yield, `Copy_stackMember`, `co_swap_make` | the core calls it |
| timing wheel (`TimeWheel`) | `Start`, `Index`, `Wheel` | `AddTimeOut`, `TakeOutTimeout`, `RemoveFromWheel` | polls, condition variables, the loop; the system clock |
| event loop and polls | active and timeout list; per poll the items, `IsHandle`, `RaisedNumber`; epoll's registrations | `EventLoop`, `CoPrepare_`, `Co_poll_inner` | resumes coroutines; wheel; epoll |
| condition variables | a list of waiting items each | `ConditionVariableWait`, `Signal`, `Broadcast` | wheel; active list |
| intrusive lists | `Prev`, `Next`, `Link` | `AddTail`, `Join`, `PopHead`, `RemoveFromWheel` | wheel, loop, condition variables |
| hooked system calls (`hook.cpp`) | `Fd2Attributes` | `poll`, `read`, `write`, `sendto`, `connect`, `fcntl`, ... | `Co_poll_inner` |
| user-space environment (`hook.cpp`) | `co_sysenv` | `InitEnv`, `setenv`, `unsetenv`, `getenv` | the hook flag of the coroutine |
| memory pool (`RocketCoMemoryPool`) | `startfree`, `endfree`, `free_list`, the headers in free blocks, `pointer_effective_interval`, `mark_allocated_block` | `RocketCoMalloc`, `RocketCoFree` | the system's `malloc`; written for the copies of shared stacks and compiled in (`CMakeLists.txt:25`), but nothing calls it: `Copy_stackMember` uses tcmalloc |

What makes each part correct:

* core: the call stack never holds an entity twice, an ended or a deleted one, and a
  yield goes back to who resumed (`CallStackSound`);
* switching: a coroutine that is resumed finds its stack as it left it, whoever
  used the shared stack in between (`ImplementsPrivateStacks`);
* wheel: no accepted item is early, late, lost or handed out twice, even if
  the clock is set back, as long as it is collected every 49 days (`ImplementsTimers`);
* loop and polls: a poll comes back once, with an event or its timeout, and
  leaves nothing registered (`WokenOnce`, `TimeoutOrEvent`, `RegistrationsSound`,
  `PollsReturn`);
* condition variables: a waiter is woken once, by a signal or its timeout, and then
  resumed (`WokenOnce`, `ActiveAreResumed`);
* hooked calls: none sleeps in the kernel, and their results are what the kernel
  did (`NeverStuck`, `SentIsReported`, `RefusalIsReported`);
* lists: a list is a queue, and an item's `Link` names the list it is in
  (`LinksSound`, `ImplementsQueues`);
* pool: what the program holds overlaps nothing else, and a free loses nothing
  (`BlocksApart`, `FreeListsSound`, `FreeLosesNothing`, `ImplementsHeap`).

What is hard here: a shared stack is a cache of one coroutine's words whose
write-back happens in the middle of a switch; a waiting coroutine sits in the
wheel, in epoll, in a condition variable's list and in the active list, in
several of them at a time, and may be woken through any of them in one round; a
coroutine that the loop resumes may poll, signal, create and delete before the
loop goes on with its list; the clock is the system clock and may go back.  In the
pool, the headers that describe its free blocks lie in the memory they describe,
beside blocks that belong to the program.

## The modules

| module | models |
|---|---|
| `CoCall` | the call stack and the life of an entity; actions `Co_Create`, `Co_resume`, `Co_yeild`, `Co_realRunningFunEnd`, `FreeCo_Entity`, used by the two modules below |
| `PrivateStacks` | abstract: every coroutine has a stack that only its own calls and returns change |
| `CoSwitch` | `CoCall` with stack memory: `co_swap_Co` split where `coctx_swap` passes control (`SwapOut`, then `Restore` in the coroutine that got it) |
| `CoSwitchProofs` | the theorems about `CoSwitch` |
| `Timers` | abstract: what a timer promises |
| `ListOps` | `Excluding`: what is left of a list, seen as a sequence, after `RemoveFromWheel` |
| `TimeWheel` | the wheel and the clock, and on their own a program that adds, cancels and collects |
| `TimeWheelProofs` | the theorems about `TimeWheel` |
| `EventLoop` | `CoCall`, an instance of `TimeWheel`, epoll, polls, condition variables and the loop |
| `EventLoopProofs` | the theorems about `EventLoop`, with an instance of `TimeWheelProofs` |
| `HookIO` | the fd attributes and the hooked `socket`, `fcntl`, `close`, `read`, `recv`, `recvfrom`, `write`, `send`, `sendto`, `connect` and `AcceptFd2Attributes`, over a kernel's fd |
| `HookIOProofs` | the theorems about `HookIO` |
| `Queues` | abstract: what the lists promise |
| `IntrusiveList` | `AddTail`, `Join`, `PopHead` and `RemoveFromWheel` on `Prev`, `Next`, `Link`, `head` and `tail` |
| `IntrusiveListProofs` | the theorems about `IntrusiveList` |
| `Heap` | abstract: what a program sees of an allocator |
| `SizeClasses` | the pool's classes: `DataAlignment`, `FindFreeListIndex`, `Index2SlotLength`, `IsMerge` |
| `SizeClassesProofs` | the theorems about `SizeClasses` |
| `MemPool` | `RocketCoMalloc` and `RocketCoFree`, over a `malloc` that may fail |
| `MemPoolProofs` | the theorems about `MemPool` |
| `SequenceLemmas` | lemmas about sequences that the proofs share: `Excluding`, `FlattenSeq`, `ToSet`, and induction and recursion up to a bound |
| `MCCoSwitch`, `MCTimeWheel`, `MCEventLoop`, `MCHookIO`, `MCMemPool` | constants and symmetry for TLC |
| `*.cfg` | one per run |

### How state corresponds to code

* `Co_CallBack` is a sequence of length `Co_ESP`, empty before the thread's
  environment exists.  Boolean members of an entity are sets of entities.  An
  element of `Co` is an address, and `Co_Create` may reuse the address of a
  deleted entity.
* In `CoSwitch` a stack is an array of words counted from its base (`stack_bp`);
  `rsp`, `ESP` and the length of `Used_Stack` are numbers of words.  Word 1 is
  what `co_swap_make` writes, later the frame of `Co_realRunningFun`: it holds
  the same value for every coroutine and nobody reads it again, so its overwriting
  by `co_swap_make` while another coroutine's copy is pending does no harm.
  `ESP` is the address of a local of `co_swap_Co`; the few bytes it may lie
  above the real stack pointer hold nothing that is read after the switch, a
  fact of the compiled code that the model assumes.  The stack of `Main` is the
  thread's own and is not modelled.  A coroutine's own code is `Call` and
  `Return`.
* In `TimeWheel` a linked list is the sequence of its items.  `Index` is kept
  reduced modulo the size; the code reduces it at every use.
* In `EventLoop` a coroutine waits for one thing at a time, so its item is named by
  the coroutine: `<<c, 0>>` is the `Stpoll_t` or condition variable item, `<<c, i>>`
  the `StPollItem` of the i-th fd.  `wait[c]` is the content of these items,
  `lpc` the place of Main in the loop.  The timeout list is empty between two
  steps.  A step of a coroutine is a whole library call up to the switch; as
  nothing preempts a coroutine, this is also the grain of the program.
* `HookIO` stands beside `EventLoop`: its polls end with an event or a timeout
  whenever they like, which is what `EventLoop` says of a poll.  A step is a
  hooked call up to its poll, or from there to its next one; `call[c]` holds the
  call's locals.  `open`, `nonblock`, `conn` and `sent` are the kernel's; a byte
  is its writer and its number; a datagram is accepted whole or not at all.  `raw`,
  `asked`, `written` and `told` are what the program did and was told.
* In `IntrusiveList` the pointers are the code's.  `TimeWheel` and `EventLoop` use
  its lists as sequences; that they may is what run `lists` shows and theorem
  `ListsAreQueues` proves.
* Unlinking is `Excluding` (in `ListOps`), and headers and blocks are added to a table
  with `At` and `Over` (in `MemPool`), where `SelectSeq`, `:>` and `@@` would do for TLC:
  TLAPS gives these no definition, so nothing could be proved about them.
* In `MemPool` an address is a number.  `pool.node` holds the headers: a
  `FreeListNode` at the start of every free block, and its length again at the block's
  end, where `RocketCoFree` of the block behind it looks; the model keeps one copy,
  as both are always written together.  A block that is handed out loses its
  header (`Forget`), as the program writes over it.  `slot` is written and never
  read, so it is left out.  `intervals` has no sentinel: what `lower_bound` and
  the step back from it find is `IntervalOf`.  The branches of `Refill` and
  `ChunkAlloc` are actions of `RocketCoMalloc`, one per outcome; the recursion of
  `ChunkAlloc`, one call deep, is unfolded.

### What the library leaves to its caller

The library checks nothing about the entities it is handed.  Guards say what
it relies on: an entity that is resumed lives, has not ended and is not on the
call stack (`MayResume`), a deleted one is not on the call stack, the main
coroutine does not yield.  Further contracts, the first three each with a run that shows
what happens without it:

* `FreeUnoccupied`: an entity is deleted only when no shared stack names it as its
  occupant.  Without it: run `co_switch_free`.
* `CarefulPoll`: no poll of few fds one of which epoll refuses, and no poll of
  many one of which another coroutine polls.  Without it: run `loop_any_poll`.
* `CarefulFree` (`MemPool`): a block is given back only when every header that
  `RocketCoFree` reads on either side of it is a header, and the block it merges with
  can be taken out of its list.  Without it: run `mem_pool_free`.  The
  contract excludes four things the code does: it takes a neighbour that has
  no marks, the first block of a refill, for a free one; it looks for a header
  behind the last block of the last of adjoining chunks, as it compares the block's
  last byte with the chunk's end; it looks for one in the space not yet carved, where there is none;
  and it takes the last block of a list out of it as if there were another behind
  it (`ptr->next->prev`).  It also excludes freeing a block of more than
  `ThirdSlot` bytes: the test for blocks that are not the pool's is never true,
  because of the sentinel, and `FindFreeListIndex` of such a length is no index of
  `free_list`.
* `InTime` (`TimeWheel`, and with it `EventLoop`): the time between two collections
  fits an int.  `TakeOutTimeout` keeps `Now - Start + 1` in an `int`
  (`Co_Routine.cpp:304`), so after 2^32 ms, some 49 days, it empties a few slots only while
  `Start` moves on, and due items stay behind in slots that are no longer theirs.
  The model cuts the distance as the code does (`% IntMod`).  Without the contract,
  under `Spec` in the place of `TimelySpec`, TLC finds `SlotSound` violated.  A
  distance of 2^31 to 2^32 ms, a negative int, is harmless: compared as an unsigned it
  is reduced to the size of the wheel.
* `HookIO`: fds are made, configured and closed in hooked coroutines, an accepted
  fd gets its flags before it is used, as in `example/echoServer.cpp`, and no fd is
  closed or connected while another coroutine's call on it waits.  No program writes back the flags that
  `F_GETFL` returned: they hold the `O_NONBLOCK` that the library has set (only
  `F_GETFD`, which has no such flag, hides it), and written back they
  turn a blocking fd into a non-blocking one.

## The runs

| run | checks | result |
|---|---|---|
| `co_switch` | `TypeOK`; `CallStackSound`; `OccupantSound`; `SavedCopySound`; `ImplementsPrivateStacks` (refinement of `PrivateStacks`) | hold |
| `co_switch_free` | `EvictsLiveEntity`: the coroutine that a switch copies out of a shared stack is alive | **violated** |
| `time_wheel` | `TypeOK`; `SlotSound`; `ImplementsTimers` (refinement of `Timers`) | hold |
| `event_loop` | `TypeOK`; `WokenOnce`; `WaitersCanBeResumed`; `RegistrationsSound`; `TimeoutOrEvent`; `RoundComplete` | hold |
| `polls_return` | `PollsReturn` (liveness) | holds |
| `signals_resumed` | `WokenOnce`; `ActiveAreResumed` (liveness) | hold |
| `hook_io` | `TypeOK`; `NeverStuck`; `NonBlockOnlyIfAsked`; `SentIsReported`; `RefusalIsReported` | hold |
| `mem_pool` | `TypeOK`; `FreeListsSound`; `BlocksApart`; `MarksSound`; `LeftoversFit`; `FreeLosesNothing`; `ImplementsHeap` (refinement of `Heap`) | hold |
| `lists` | `LinksSound`; `ImplementsQueues` (refinement of `Queues`) | hold |
| `loop_forever` | `InfinitePollWaits`: a negative timeout waits | **violated** |
| `loop_any_poll` | `RegistrationsSound` without `CarefulPoll` | **violated** |
| `mem_pool_free` | `NeighboursAreMarked`: the program's neighbouring blocks are marked | **violated** |

The four violations are disagreements between the code and what its comments say;
`PROJECT.json` quotes them.

1. A deleted coroutine stays the recorded occupant of its shared stack; the next
   coroutine to enter that stack copies the stack of the deleted entity.
2. An unlimited poll fails at once.  `INT32_MAX` stands for no limit, and the
   wheel refuses it, as it refuses every timeout of 86.4 seconds or more
   (`DefaultSize` counts milliseconds).
3. When epoll refuses the second of two fds, the fallback leaves the first
   registered, its event data leading to a deleted item.
4. The first block of every refill is handed out without marks.  When the block
   behind it is freed, `RocketCoFree` reads the program's data as a header and may
   merge the two, though the first is still in use.

Further facts that the models contain, and that no run is spent on:

* A signalled coroutine is resumed in the same round, as the signal appends it to
  the list that the loop is emptying (`WakeFirst` and `Dispatch`); the comment in
  `ConditionVariableSignal` says the next round.  Two coroutines that keep
  signalling each other so keep the loop from epoll and from the timers.
* A connect whose polls have all timed out looks at `revents` all the same
  (`ConnectTimesOut`).  `Co_poll_inner` has copied them from an array that nobody
  has initialised, and if they show `POLLOUT` while `SO_ERROR` is still 0 the
  connect reports success for a connection that is being set up.
* A `connect` on an fd that is being connected, or is connected, does not wait: it
  returns what the kernel says at once (`ConnectAgain`).
* `recvfrom` reads before it polls and then reads again (`Recvfrom`): what
  the first read returned is lost.  `recv` polls for `POLLOUT`.
* In the pool, `DataAlignment` of what is left of a chunk can exceed it by a value
  that is neither 512 nor 1024; then some of it is never used again (1536 bytes of
  it, for example).  Class 39 may hold a block of 33792 bytes, of which 1024 are lost
  when it is handed out.  If the rest of a chunk is filed in the very list
  that the allocation is about, `Refill` replaces that list and the block is lost:
  its comment says that the list is empty.  None of this makes blocks overlap.

### Bounds

* `co_switch`: three coroutines on one shared stack of two words (so that a
  coroutine is displaced, displaces, and is displaced again with a changed
  depth), each free to have its own stack instead; `alloc_idx` wraps at 2.
* `time_wheel`: two items, three slots, eight instants: more than two turns, jumps over
  a whole turn, one step back; timeouts from in the past to one too long.  An int has
  six values, so that a distance that is too far for it is possible and
  `InTime` excludes it.
* `event_loop`: two coroutines, two fds and one that epoll refuses, a wheel of
  two slots and three instants so that slots are reused, one step back of the
  clock; `ShortItemOptimization` is 1 (2 in the code) so that a poll of two
  fds is already beyond it, and 2 in `loop_any_poll`.  An int has four values here and the clock
  three, so every round collects in time.
* `signals_resumed`: three coroutines, as two that signal each other and a third
  that waits in the active list need three, and so does a waiter that has timed out
  with one that signals it and one that is woken along with it; no polls.
* `hook_io`: three coroutines on one fd number, so that two write in turns while a
  third reads, and the number is closed and used again; three bytes per
  use, so that a write has up to three parts; two polls of a connect (5 in the code),
  one that is tried again and one that is the last.
* `mem_pool`: lengths of two classes and one that the pool does not serve; refills of
  two blocks (20 in the code), so that space is carved, left over and filed; at most two
  chunks, and a `malloc` that fails when no address is left or at any other time.  A chunk
  of 512-byte blocks at the lower address adjoins whatever is at the higher one, so that
  blocks of two chunks merge, and the sum is handed out again;
  two blocks held at once, so that a block is freed beside one in use, beside a
  free one on its left or right, and alone; with these, free lists grow to several blocks.
  That a leftover is split in two needs chunks too large to explore: `LeftoversFit`
  checks `UseRemaining` alone for every length up to the largest class.
* `lists`: three lists, so that an item moves from a list to one that has been
  joined to another; five items, so that a list has a first, a last and an
  inner one when two others are joined or popped.
* The clock stops at `MaxClock`, and no timeout that is waited for ends later.

### Fairness

`LiveSpec` says: whenever Main runs the loop it goes on (weak fairness of
the loop's steps); `fun` returns, and a coroutine that gets control again and
again gives it back now and then (strong fairness, as both may do other things in
between: a coroutine that computes for ever stops the thread, in the code as in
the model); the clock advances.  Nothing is assumed of epoll: an event may never
come, so `PollsReturn` rests on the timeouts.  Both properties end when the
program leaves the loop.  `PollsReturn` is checked without condition variables:
with them it is false, as two
coroutines that signal each other hold up the round.

## The proofs

Each module below proves a component's properties for every value of its constants
that its assumptions allow.  TLC evaluates the assumptions in the runs.  The pattern
is the same throughout: an inductive invariant, which the initial state
satisfies and every action preserves (one lemma per action), implies the invariants
of the runs, and serves as a hypothesis for the action properties and the refinement.

| run | its properties | proved in |
|---|---|---|
| `co_switch` | all | `CoSwitchProofs` |
| `time_wheel` | all | `TimeWheelProofs` |
| `lists` | all | `IntrusiveListProofs` |
| `event_loop`, `signals_resumed` | all but `ActiveAreResumed` | `EventLoopProofs` |
| `polls_return` | `PollsReturn` is checked only | |
| `hook_io` | all | `HookIOProofs` |
| `mem_pool` | all | `MemPoolProofs`, with `SizeClassesProofs` |

**`CoSwitchProofs`**, for every set of coroutines, every number of shared
stacks and every stack size:

* `Invariance`: `IInv`, the inductive invariant, holds always.  It is the
  conjunction of the four invariants of run `co_switch`.  None of them is inductive
  alone: that a copy in `Used_Stack` is complete (`SavedCopySound`) needs that the
  entity copied out is the one whose words are there (`OccupantSound`), which
  needs that the entity that gets control lives and runs on that stack
  (`CallStackSound`).  The delicate state is the one between `SwapOut` and
  `Restore`, where the words of the entity in control are still in `Used_Stack`;
  the last two conjuncts of `SavedCopySound` are there for it.
* `TypeCorrect`, `CallStackIsSound`, `OccupantIsSound`, `SavedCopyIsSound`:
  the four invariants of run `co_switch`.
* `EvictionsAreOfTheLiving`: `Spec => EvictsLiveEntity`.  Under the contract
  `FreeUnoccupied` the action property of run `co_switch_free` holds: what the run
  finds is due to the entities that are deleted while they occupy a stack, and to
  nothing else.
* `Implementation`: `Spec => ImplementsPrivateStacks`, with the refinement
  mapping `FrameView`: a coroutine's frame is in the stack memory if it is the
  occupant and restored, else in `Used_Stack`.  Every action maps to the action
  of `PrivateStacks` of its name, `Restore` to a stutter.

Assumed: `CoAssumption` (Main is no coroutine that is created) and `StackAssumption`
(sizes are positive, names differ).

**`TimeWheelProofs`**, for every number of slots, every set of items and
timeouts, and a clock that jumps forwards over any number of turns, and back, as long as
collections are in time (`TimelySpec`, whose collections keep the contract `InTime`):

* `WheelInvariance`: `WheelInv`, which is `TypeOK`, `SlotSound` and `UnusedEmpty`.
  `SlotSound` tells an item's slot by its distance from `Start`; the first use of the
  wheel sets `Start`, and is harmless only as the wheel is empty until then
  (`UnusedEmpty`).
* `WheelTypeCorrect`, `SlotsAreSound`: the invariants of run `time_wheel`; the first
  holds without the contract.
* `WheelIsTimer`: `TimelySpec => ImplementsTimers`.  The slots that a collection empties are
  those of the times passed, so the items in them are just those that are due; this
  rests on a few facts about remainders, proved from the definition of division.

Assumed: `WheelAssumption` (a positive size and clock bound, integer timeouts, and an
int of at least twice as many values as there are slots).

**`IntrusiveListProofs`**, for any number of lists and items:

* `ListInvariance`: `ListInv` says that the types are right and that there is a
  sequence for each list that the pointers lay out: `head`, `tail`, `Prev`, `Next` and
  `Link` of its items are those of its neighbours, and an item in no list points
  nowhere.  Its existential form spares a definition by recursion: each operation takes
  one layout to the next, and a walk along `Next` is shown to find the sequence again.
* `LinksAreSound`: the invariant `LinksSound`.  `ListsAreQueues`: `ImplementsQueues`.

Assumed: `NullAssumption` and `ItemsAssumption` (`NULL` is no item or list, the
items are finitely many, as the walk has a bound).

**`EventLoopProofs`**, for any number of coroutines, fds, condition variables
and slots:

* `LoopInvariance`: `LoopInv`, the conjunction of
  - `Types` and the wheel's `WheelInv`, which the loop keeps as it uses the wheel only
    through the wheel's own operations;
  - `StackSound`: Main is below, above it are coroutines that live, have started, have
    not ended and do not wait, none twice;
  - `WaitersCanBeResumed`, an invariant of the run;
  - `QueuesSound`: nobody is in a list twice, nor active and in the wheel at once; a
    poll is in one of the two, and so is the waiter of a condition variable unless
    it is in that variable's list;
  - `EventsSound`: `RegistrationsSound`; a refused fd is not registered; and the events
    that epoll has returned and the loop not yet handled are distinct and new to their
    polls;
  - `WaitsSound`: the marks of a poll agree with its entry in the active list, which
    tells whether its timeout or its events woke it;
  - `RoundSound`: once a round has collected, the wheel is not behind the loop's time.

  The parts need each other.  That a coroutine is woken once needs that what
  is active has left the wheel; that a dispatched one may be resumed needs that
  nobody who waits is on the call stack; that an event finds its poll needs that
  nobody but Main runs until the loop has handled the last event of a round.
* `LoopTypeCorrect`, `WakeUpsAreSingle`, `ResumedAreSuspended`, `EventsFindTheirPoll`,
  `WakeUpsHaveACause`, `RoundsMissNothing`: the six invariants of run `event_loop`.

Assumed: `PollAssumption` and `WaitAssumption`.  They state what reaches
`Co_poll_inner` and the condition variables: positive poll timeouts, since `poll`
leaves a zero timeout to the system (`hook.cpp:140`) and a negative one becomes
`INT32_MAX`; no fd twice in an array, as `poll` merges them (`hook.cpp:156-167`); the wheel's
assumptions.  The theorems hold under the contracts `CarefulPoll` and `InTime`, which
`Spec` includes; run `loop_any_poll` shows what happens without the first.

**`HookIOProofs`**, for every set of coroutines and fds and any number of bytes:

* `HookInvariance`: `HookInv` holds always.  `NeverStuck` is not inductive: it needs
  that the fd of a waiting call is still open and its flags set (`KernelSound`),
  which holds as no close takes it away and no new fd gets its number.
  `NonBlockOnlyIfAsked` needs that a closed fd has no flags left (`FlagsSound`).
* `NeverSleeps`, `FlagsAreAsked`, `RefusalReported`: `NeverStuck`,
  `NonBlockOnlyIfAsked` and the action property `RefusalIsReported`.
* `BytesInvariance` and `WritesAreReported`: the bytes the kernel has accepted from a
  coroutine are those its calls have reported or have under way, in order and once
  (`SentIsReported`).  It is inductive with the bounds of the writes under way
  (`WritesFit`); the step that matters appends one writer's bytes to what the other
  writers have sent, and leaves their parts as they were.
* `HookTypeCorrect`: `TypeOK`.

Assumed: `HookAssumption`, that the two bounds are numbers.

**`SizeClassesProofs`**, about the pool's arithmetic, for every length:

* `AlignmentCovers`: an aligned length is no shorter than what was asked for,
  and served.  `ClassOfAlignment`: its class holds blocks of just that length.
  `ClassOfMerge`: so does the class of two blocks that `IsMerge` allows to merge.
  Together they say that a block is never shorter than the class it is taken from,
  unless it comes from the rest of a chunk, which is `LeftoversAreSound`.

They argue by the three bands of the classes, each with a lemma that writes an aligned
length as a multiple of its granule.

**`MemPoolProofs`**, for any lengths asked for, any number of blocks per refill
and any addresses the system returns:

* `PoolInvariance`: `PoolInv` says that the memory is sound (`Sound`) and the marks are
  (`MarksSound`).  `Sound` sees the memory as areas: the program's blocks, the space in
  hand and the free blocks are disjoint, and each consists of bytes of chunks (`Tiled`),
  of one chunk or of several that adjoin.
  Two further parts make this inductive.
  - `ListsOK`, about every block that has a header: its length has a list whose blocks
    are no longer, and its successor, if any, is of the same list, links back to it and
    heads no list.  It says this of the blocks that `Refill` has dropped from
    the lists too, so a step need not tell what is listed from what is not.
  - `ChunksOK` and `LargeOK`: the chunks are intervals of numbers, and a block that was
    passed on to the system's `malloc` overlaps no chunk and no other such block.
* `PoolTypeCorrect`, `FreeListsAreSound`, `BlocksAreApart`, `MarksAreSound`,
  `LeftoversAreSound`: the invariants of run `mem_pool`.  That a walk through a
  free list ends is a pigeonhole argument: no two blocks have the same
  successor, so a walk that is longer than there are blocks would come back to its
  head.  `LeftoversFit` is about `UseRemaining` alone; that it files a leftover soundly
  whatever the lists hold is a step of `PoolInvariance`.
* `FreesLoseNothing`: the action property `FreeLosesNothing`, in each of the four cases
  of a merge.
* `PoolIsHeap`: `CarefulSpec => ImplementsHeap`; a block is what the program holds with
  the length the pool has aligned it to.

Assumed: the bounds' types, positive addresses, and at least two blocks per refill.  Of
the system's `malloc` the model says only that it returns memory nobody has (`Unused`).
Its chunks may adjoin: the pool is linked with tcmalloc (`CMakeLists.txt:9`), which
keeps no header in between, and `RocketCoFree` of a chunk's last block then
finds the header of the next chunk's first (`RocketCoAlloctor.cpp:210`) and merges
across the two.  All theorems of this module are of `CarefulSpec`, in which every
free keeps the contract `CarefulFree`: they say nothing of programs that free in an
order that breaks it, and run `mem_pool_free` shows what happens to such a program.

**`SequenceLemmas`** holds what several of these proofs rest on.  The library's
induction theorems take an operator as a parameter, which the provers cannot
instantiate.  `LeastNatural`, `InductionUpTo` and `RecursionUpTo` put sets
and functions in its place: a set of numbers that holds 0 and with each number the
next, up to a bound, holds all up to the bound, and a function defined by recursion up
to a bound exists and obeys its equation.  From these follow the lemmas about `Excluding` and
`FlattenSeq`.

Checked by TLC only:

* `PollsReturn` and `ActiveAreResumed`: liveness under fairness, which needs `ENABLED`.
* What the four runs that expect a violation show; a counterexample is not a theorem.

## Not modelled

* Event masks and their conversion (`EventPoll2Epoll` starts from an uninitialised
  variable), and with them the merging of equal fds in `poll`; array entries with a
  negative or a repeated fd.
* A failing `epoll_wait`: `EpollEvent_Result::size` would be `(size_t)-1` and the loop
  would read stale events.  The models assume that it does not fail.
* Event items on a shared stack (`array` in `Co_poll_inner`).
* `ConditionVariableInit` and `ConditionVariableFree`, a `new` and a `delete`.
* Fds beyond `AttributesLength`; how long a poll that falls back to the system's keeps
  the thread; which bytes a read returns.
* The user-space environment: one map, read and written in single steps without a
  wait, so that no order of steps matters that a test would not reach.
* The registers other than the stack pointer; addresses, base classes, examples and
  performance tests.

## Plan

Built: all components of the table above with their runs, and the proofs of every
invariant, action property and refinement.  Next, in this order:

1. `PollOnSharedStack`: `CoSwitch` and a poll whose item lies on the stack.
2. `HookIO` with event masks and with the bytes that reads return.
3. Proofs: the depth of `Co_CallBack`; the safety half of `PollsReturn` (a poll that
   is not active has its item in a slot that the wheel reaches by its timeout); the
   same for what new modules check.
