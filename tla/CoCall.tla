------------------------------ MODULE CoCall ------------------------------
(***************************************************************************)
(* One thread's coroutines: the entities it owns and the call stack        *)
(* Co_CallBack of its Co_Rountinue_Env.  Co_CallBack[Co_ESP - 1] is the     *)
(* entity that runs, the one below it is the entity that resumed it, the   *)
(* bottom is the thread's main coroutine.                                  *)
(*                                                                         *)
(* Co_CallBack is a sequence whose length is Co_ESP; it is empty until the *)
(* first Co_Create builds the thread's environment.  The Boolean members   *)
(* of Co_Entity are the sets of the entities on which they are true.  An   *)
(* element of Co is an address: Co_Create may hand it out again once the   *)
(* entity that lived there has been deleted.                               *)
(*                                                                         *)
(* The library checks nothing about the entities it is given.  What it     *)
(* needs of its caller is a guard here: resume only an entity that lives,  *)
(* has not ended and is not on the call stack; delete only an entity that  *)
(* is not on the call stack; the main coroutine does not yield.            *)
(***************************************************************************)
EXTENDS Sequences, Integers

CONSTANTS Co,      \* addresses of coroutine entities
          Main     \* the entity of the thread itself

ASSUME CoAssumption == Main \notin Co

VARIABLES Co_CallBack,  \* env->Co_CallBack[0 .. Co_ESP-1]
          alive,        \* entities allocated and not yet deleted
          ISstart,      \* Co->ISstart
          IsEnd         \* Co->IsEnd

callVars == <<Co_CallBack, alive, ISstart, IsEnd>>

Entities == Co \cup {Main}

\* GetCurrCo: the entity that runs.
Current == Co_CallBack[Len(Co_CallBack)]

\* The entity that Co_yeild goes back to.
Resumer == Co_CallBack[Len(Co_CallBack) - 1]

OnCallStack == {Co_CallBack[i] : i \in 1..Len(Co_CallBack)}

CallInit ==
    /\ Co_CallBack = <<>>
    /\ alive = {}
    /\ ISstart = {}
    /\ IsEnd = {}

\* init_thisThread_Env, run by Co_Create when the thread has no environment.
EnvAfterInit == IF Co_CallBack = <<>> THEN <<Main>> ELSE Co_CallBack

Co_Create(c) ==
    /\ c \notin alive
    /\ Co_CallBack' = EnvAfterInit
    /\ alive' = alive \cup {c}
    /\ ISstart' = ISstart \ {c}
    /\ IsEnd' = IsEnd \ {c}

\* The caller's duty when it calls Co_resume.
MayResume(c) ==
    /\ Co_CallBack # <<>>
    /\ c \in alive
    /\ c \notin IsEnd
    /\ c \notin OnCallStack

Co_resume(c) ==
    /\ ISstart' = ISstart \cup {c}
    /\ Co_CallBack' = Append(Co_CallBack, c)
    /\ UNCHANGED <<alive, IsEnd>>

\* Mutant of Co_yeild: Co_ESP is not decremented.
YieldKeepsESP ==
    /\ Len(Co_CallBack) > 1
    /\ UNCHANGED <<Co_CallBack, alive, ISstart>>

Co_yeild ==
    /\ Len(Co_CallBack) > 1
    /\ Co_CallBack' = SubSeq(Co_CallBack, 1, Len(Co_CallBack) - 1)
    /\ UNCHANGED <<alive, ISstart>>

\* A yield in the coroutine's function, and the one at its end.
YieldInFun == Co_yeild /\ UNCHANGED IsEnd
Co_realRunningFunEnd == Co_yeild /\ IsEnd' = IsEnd \cup {Current}

FreeCo_Entity(c) ==
    /\ c \in alive
    /\ c \notin OnCallStack
    /\ alive' = alive \ {c}
    /\ UNCHANGED <<Co_CallBack, ISstart, IsEnd>>

=============================================================================
