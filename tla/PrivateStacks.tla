--------------------------- MODULE PrivateStacks ---------------------------
(***************************************************************************)
(* What the coroutine core promises: every coroutine has a stack of its    *)
(* own, which only changes when the coroutine itself calls or returns.     *)
(* Nothing is said about where the words are kept.                         *)
(***************************************************************************)
EXTENDS CoCall

CONSTANTS Word,       \* what a stack word can hold
          Entry,      \* the word of Co_realRunningFun's own frame
          StackSize   \* words a coroutine may use

VARIABLE frame        \* entity -> its stack, oldest word first

absVars == <<callVars, frame>>

Init == CallInit /\ frame = [c \in Co |-> <<>>]

Create(c) ==
    /\ Co_Create(c)
    /\ frame' = [frame EXCEPT ![c] = <<>>]

Resume(c) ==
    /\ MayResume(c)
    /\ Co_resume(c)
    /\ frame' = IF c \in ISstart THEN frame ELSE [frame EXCEPT ![c] = <<Entry>>]

Yield == YieldInFun /\ UNCHANGED frame

Finish ==
    /\ Len(Co_CallBack) > 1
    /\ Len(frame[Current]) = 1
    /\ Co_realRunningFunEnd
    /\ UNCHANGED frame

Free(c) ==
    /\ FreeCo_Entity(c)
    /\ frame' = [frame EXCEPT ![c] = <<>>]

Call(w) ==
    /\ Len(Co_CallBack) > 1
    /\ Len(frame[Current]) < StackSize
    /\ frame' = [frame EXCEPT ![Current] = Append(@, w)]
    /\ UNCHANGED callVars

Return ==
    /\ Len(Co_CallBack) > 1
    /\ Len(frame[Current]) > 1
    /\ frame' = [frame EXCEPT ![Current] = SubSeq(@, 1, Len(@) - 1)]
    /\ UNCHANGED callVars

Next ==
    \/ \E c \in Co : Create(c) \/ Resume(c) \/ Free(c)
    \/ Yield
    \/ Finish
    \/ \E w \in Word : Call(w)
    \/ Return

Spec == Init /\ [][Next]_absVars

=============================================================================
