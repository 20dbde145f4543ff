----------------------------- MODULE CoSwitch -----------------------------
(***************************************************************************)
(* The context switch, with coroutines that own a stack and coroutines     *)
(* that take turns on the stacks of a Co_ShareStack.  co_swap_Co saves the *)
(* words of the entity it evicts from a shared stack and, once control is  *)
(* back in an entity, copies that entity's words in again.                 *)
(*                                                                         *)
(* Stack words are numbered from stack_bp downwards: word 1 is the oldest, *)
(* and an ESP is the number of words between it and stack_bp.  The words   *)
(* of Main's stack, the thread's own, are not modelled: no entity shares   *)
(* it.  A private stack is named by its entity, a shared stack by its      *)
(* index in stack_array.                                                   *)
(***************************************************************************)
EXTENDS CoCall

CONSTANTS Count,      \* stacks in the Co_ShareStack
          AllocMod,   \* values of the unsigned alloc_idx (2^32 in the code)
          StackSize,  \* words of a stack
          Word,       \* what a word can hold
          Entry,      \* word 1: the slot of co_swap_make, then the frame of
                      \* Co_realRunningFun, which is never read again
          NoCo        \* nullptr

ASSUME StackAssumption ==
    /\ Count \in Nat \ {0}
    /\ AllocMod \in Nat \ {0}
    /\ StackSize \in Nat \ {0}
    /\ Entry \in Word
    /\ NoCo \notin Entities
    /\ Co \cap 0..(Count - 1) = {}

VARIABLES IsShareStack, \* Co->IsShareStack, the set of entities
          Csm,          \* Co->Csm
          rsp,          \* words in use: Co->cst.regs[kRSP], or the register
          ESP,          \* Co->ESP
          Used_Stack,   \* Co->Used_Stack; its length is Used_Stack_size
          alloc_idx,    \* shareStack->alloc_idx
          current_co,   \* Csm->current_co
          mem,          \* Csm->stack_buffer
          using_Co,     \* env->using_Co
          prev_Co,      \* env->prev_Co
          pc            \* "restore": control is just behind coctx_swap

entityVars == <<IsShareStack, Csm, rsp, ESP, Used_Stack>>
stackVars == <<alloc_idx, current_co, mem>>
envVars == <<using_Co, prev_Co, pc>>
vars == <<callVars, entityVars, stackVars, envVars>>

SharedStacks == 0..(Count - 1)
Stacks == SharedStacks \cup Co

Init ==
    /\ CallInit
    /\ IsShareStack = {}
    /\ Csm = [c \in Co |-> c]
    /\ rsp = [c \in Entities |-> 0]
    /\ ESP = [c \in Entities |-> 0]
    /\ Used_Stack = [c \in Co |-> <<>>]
    /\ alloc_idx = 0
    /\ current_co = [s \in Stacks |-> NoCo]
    /\ mem = [s \in Stacks |-> [i \in 1..StackSize |-> Entry]]
    /\ using_Co = NoCo
    /\ prev_Co = NoCo
    /\ pc = "run"

-----------------------------------------------------------------------------
(* Creation and deletion *)

\* Mutant of StackOf: the index is not reduced modulo count.
StackOfUnreduced(c, shared) == IF shared THEN alloc_idx ELSE c

\* CreatAndAlloction: the stack is the next one of the Co_ShareStack, or new.
StackOf(c, shared) == IF shared THEN alloc_idx % Count ELSE c

Create(c, shared) ==
    /\ pc = "run"
    /\ Co_Create(c)
    /\ IsShareStack' = IF shared THEN IsShareStack \cup {c} ELSE IsShareStack \ {c}
    /\ Csm' = [Csm EXCEPT ![c] = StackOf(c, shared)]
    /\ alloc_idx' = IF shared THEN (alloc_idx + 1) % AllocMod ELSE alloc_idx
    /\ current_co' = IF shared THEN current_co ELSE [current_co EXCEPT ![c] = NoCo]
    /\ rsp' = [rsp EXCEPT ![c] = 0]
    /\ ESP' = [ESP EXCEPT ![c] = 0]
    /\ Used_Stack' = [Used_Stack EXCEPT ![c] = <<>>]
    /\ UNCHANGED <<mem, envVars>>

\* FreeCo_Entity deletes the entity and leaves the rest of the state alone.
Free(c) ==
    /\ pc = "run"
    /\ FreeCo_Entity(c)
    /\ UNCHANGED <<entityVars, stackVars, envVars>>

-----------------------------------------------------------------------------
(* co_swap_Co *)

\* Copy_stackMember: the words of occupy between its ESP and stack_bp.
Copy_stackMember(occupy, esp, buffer) ==
    [Used_Stack EXCEPT ![occupy] = [i \in 1..esp[occupy] |-> buffer[Csm[occupy]][i]]]

\* Mutant of SwapOut: current_co is not updated.
SwapOutKeepsOccupant(pending, current, buffer) ==
    LET esp == [ESP EXCEPT ![current] = rsp[current]]
        shared == pending \in IsShareStack
        occupy == current_co[Csm[pending]]
    IN  /\ ESP' = esp
        /\ using_Co' = IF shared THEN pending ELSE NoCo
        /\ prev_Co' = IF shared THEN occupy ELSE NoCo
        /\ Used_Stack' = IF shared /\ occupy \notin {NoCo, pending}
                         THEN Copy_stackMember(occupy, esp, buffer)
                         ELSE Used_Stack
        /\ UNCHANGED current_co

\* Mutant of SwapOut: the occupant is copied before current's ESP is taken.
SwapOutStaleESP(pending, current, buffer) ==
    LET shared == pending \in IsShareStack
        occupy == current_co[Csm[pending]]
    IN  /\ ESP' = [ESP EXCEPT ![current] = rsp[current]]
        /\ using_Co' = IF shared THEN pending ELSE NoCo
        /\ prev_Co' = IF shared THEN occupy ELSE NoCo
        /\ current_co' = IF shared THEN [current_co EXCEPT ![Csm[pending]] = pending]
                                   ELSE current_co
        /\ Used_Stack' = IF shared /\ occupy \notin {NoCo, pending}
                         THEN Copy_stackMember(occupy, ESP, buffer)
                         ELSE Used_Stack

\* co_swap_Co up to coctx_swap; buffer is the stack memory it finds.
SwapOut(pending, current, buffer) ==
    LET esp == [ESP EXCEPT ![current] = rsp[current]]
        shared == pending \in IsShareStack
        occupy == current_co[Csm[pending]]
    IN  /\ ESP' = esp
        /\ IF ~shared
           THEN /\ using_Co' = NoCo
                /\ prev_Co' = NoCo
                /\ UNCHANGED <<current_co, Used_Stack>>
           ELSE /\ using_Co' = pending
                /\ prev_Co' = occupy
                /\ current_co' = [current_co EXCEPT ![Csm[pending]] = pending]
                /\ Used_Stack' = IF occupy \notin {NoCo, pending}
                                 THEN Copy_stackMember(occupy, esp, buffer)
                                 ELSE Used_Stack

\* co_swap_make writes the entry slot of the stack and points rsp at it.
co_swap_make(c) ==
    /\ mem' = [mem EXCEPT ![Csm[c]][1] = Entry]
    /\ rsp' = [rsp EXCEPT ![c] = 1]

\* Co_resume of an entity that has not run: control goes to its function.
ResumeFirst(c) ==
    /\ pc = "run"
    /\ MayResume(c)
    /\ c \notin ISstart
    /\ Co_resume(c)
    /\ co_swap_make(c)
    /\ SwapOut(c, Current, mem')
    /\ pc' = "run"
    /\ UNCHANGED <<IsShareStack, Csm, alloc_idx>>

\* Co_resume of an entity that has yielded: control goes behind coctx_swap.
ResumeAgain(c) ==
    /\ pc = "run"
    /\ MayResume(c)
    /\ c \in ISstart
    /\ Co_resume(c)
    /\ SwapOut(c, Current, mem)
    /\ pc' = "restore"
    /\ UNCHANGED <<IsShareStack, Csm, rsp, alloc_idx, mem>>

\* The switch that ends Co_yeild.
SwapToResumer ==
    /\ SwapOut(Resumer, Current, mem)
    /\ pc' = "restore"
    /\ UNCHANGED <<IsShareStack, Csm, rsp, alloc_idx, mem>>

Yield ==
    /\ pc = "run"
    /\ YieldInFun
    /\ SwapToResumer

\* The function has returned to Co_realRunningFun.
Finish ==
    /\ pc = "run"
    /\ Len(Co_CallBack) > 1
    /\ rsp[Current] = 1
    /\ Co_realRunningFunEnd
    /\ SwapToResumer

\* Mutant of CopyBack: the newest word is not copied.
CopyBackShort(c) ==
    [mem EXCEPT ![Csm[c]] =
        [i \in 1..StackSize |->
            LET k == i + Len(Used_Stack[c]) - ESP[c]
            IN  IF k \in 1..(Len(Used_Stack[c]) - 1) THEN Used_Stack[c][k] ELSE @[i]]]

\* The words of Used_Stack go to where ESP points.
CopyBack(c) ==
    [mem EXCEPT ![Csm[c]] =
        [i \in 1..StackSize |->
            LET k == i + Len(Used_Stack[c]) - ESP[c]
            IN  IF k \in 1..Len(Used_Stack[c]) THEN Used_Stack[c][k] ELSE @[i]]]

\* The rest of co_swap_Co, in the entity that got control.
Restore ==
    /\ pc = "restore"
    /\ pc' = "run"
    /\ mem' = IF /\ using_Co # NoCo
                 /\ prev_Co # NoCo
                 /\ using_Co # prev_Co
                 /\ Len(Used_Stack[using_Co]) > 0
              THEN CopyBack(using_Co)
              ELSE mem
    /\ UNCHANGED <<callVars, entityVars, alloc_idx, current_co, using_Co, prev_Co>>

-----------------------------------------------------------------------------
(* The coroutine's own code: it calls with a local word, and returns.      *)

Call(w) ==
    /\ pc = "run"
    /\ Len(Co_CallBack) > 1
    /\ rsp[Current] < StackSize
    /\ rsp' = [rsp EXCEPT ![Current] = @ + 1]
    /\ mem' = [mem EXCEPT ![Csm[Current]][rsp[Current] + 1] = w]
    /\ UNCHANGED <<callVars, IsShareStack, Csm, ESP, Used_Stack, alloc_idx,
                   current_co, envVars>>

Return ==
    /\ pc = "run"
    /\ Len(Co_CallBack) > 1
    /\ rsp[Current] > 1
    /\ rsp' = [rsp EXCEPT ![Current] = @ - 1]
    /\ UNCHANGED <<callVars, IsShareStack, Csm, ESP, Used_Stack, stackVars, envVars>>

-----------------------------------------------------------------------------

Occupies(c) == current_co[Csm[c]] = c

Switches ==
    \/ \E c \in Co : \/ \E shared \in BOOLEAN : Create(c, shared)
                     \/ ResumeFirst(c)
                     \/ ResumeAgain(c)
    \/ Yield
    \/ Finish
    \/ Restore
    \/ \E w \in Word : Call(w)
    \/ Return

\* A caller that deletes an entity only when it is not the occupant of its
\* stack.
FreeUnoccupied(c) == ~Occupies(c) /\ Free(c)

Next == Switches \/ \E c \in Co : FreeUnoccupied(c)

Spec == Init /\ [][Next]_vars

\* A caller that deletes any entity that is not on the call stack, as the
\* examples do once a coroutine has ended.
AnyFreeNext == Switches \/ \E c \in Co : Free(c)

AnyFreeSpec == Init /\ [][AnyFreeNext]_vars

-----------------------------------------------------------------------------
(* Properties *)

\* The words of c are in Used_Stack: another entity has its stack, or c has
\* just got it back and Restore has not run yet.
Evicted(c) ==
    /\ c \in IsShareStack
    /\ \/ ~Occupies(c)
       \/ pc = "restore" /\ using_Co = c /\ prev_Co \notin {NoCo, c}

Started == alive \cap ISstart

TypeOK ==
    /\ Co_CallBack \in Seq(Entities)
    /\ alive \in SUBSET Co
    /\ ISstart \in SUBSET Co
    /\ IsEnd \in SUBSET Co
    /\ IsShareStack \in SUBSET Co
    /\ Csm \in [Co -> Stacks]
    /\ rsp \in [Entities -> 0..StackSize]
    /\ ESP \in [Entities -> 0..StackSize]
    /\ Used_Stack \in [Co -> Seq(Word)]
    /\ alloc_idx \in 0..(AllocMod - 1)
    /\ current_co \in [Stacks -> Co \cup {NoCo}]
    /\ mem \in [Stacks -> [1..StackSize -> Word]]
    /\ using_Co \in Co \cup {NoCo}
    /\ prev_Co \in Co \cup {NoCo}
    /\ pc \in {"run", "restore"}

\* Whatever the order of resumes, yields and ends, the call stack holds Main at
\* its bottom and above it, each at most once, live entities that have started
\* and not ended: Co_yeild always has a live entity to go back to, and an
\* entity never waits for itself.
CallStackSound ==
    /\ Co_CallBack = <<>> => alive = {}
    /\ Co_CallBack # <<>> => Co_CallBack[1] = Main
    /\ \A i \in 2..Len(Co_CallBack) : Co_CallBack[i] \in Started \ IsEnd
    /\ \A i, j \in 1..Len(Co_CallBack) : Co_CallBack[i] = Co_CallBack[j] => i = j

\* An entity keeps its own stack or the shared one it was dealt.  The occupant
\* of a stack is a live entity that has run on this very stack, and once an
\* entity has run on a shared stack the stack has an occupant.
OccupantSound ==
    /\ \A c \in alive : IF c \in IsShareStack THEN Csm[c] \in SharedStacks
                                              ELSE Csm[c] = c
    /\ \A s \in Stacks : current_co[s] # NoCo =>
          /\ current_co[s] \in Started \cap IsShareStack
          /\ Csm[current_co[s]] = s
    /\ \A c \in Started \cap IsShareStack : current_co[Csm[c]] # NoCo

\* An entity that is off its shared stack has all the words it had in use in
\* Used_Stack, and its ESP is where they have to go; the words that co_swap_Co
\* puts back are those of the entity that has control.
SavedCopySound ==
    /\ \A c \in Started :
          /\ rsp[c] \in 1..StackSize
          /\ Evicted(c) => Len(Used_Stack[c]) = rsp[c]
          /\ c # Current \/ pc = "restore" => ESP[c] = rsp[c]
          /\ ~Evicted(c) => mem[Csm[c]][1] = Entry
          /\ Evicted(c) => Used_Stack[c][1] = Entry
    /\ Len(Co_CallBack) > 1 /\ Current \in IsShareStack =>
          /\ Occupies(Current)
          /\ pc = "restore" => using_Co = Current
    /\ pc = "restore" /\ using_Co # NoCo =>
          Len(Co_CallBack) > 1 /\ using_Co = Current /\ Current \in IsShareStack

\* The stack that c would find if it had a stack of its own.
FrameView ==
    [c \in Co |->
        IF c \in Started
        THEN [i \in 1..rsp[c] |-> IF Evicted(c) THEN Used_Stack[c][i]
                                                ELSE mem[Csm[c]][i]]
        ELSE <<>>]

PS == INSTANCE PrivateStacks WITH frame <- FrameView

\* Sharing stacks cannot be observed: in every history of creations, resumes,
\* yields, ends and deletions each coroutine finds exactly the words it left,
\* as if it had a stack of its own.
ImplementsPrivateStacks == PS!Spec

\* A step of co_swap_Co: control goes from one entity to another.
SwitchStep == Co_CallBack # <<>> /\ Co_CallBack' # Co_CallBack

\* The occupant that co_swap_Co evicts from a shared stack, and copies, is an
\* entity that still lives.
EvictsLiveEntity ==
    [][SwitchStep /\ prev_Co' \notin {NoCo, using_Co'} => prev_Co' \in alive]_vars

=============================================================================
