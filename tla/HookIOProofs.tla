---------------------------- MODULE HookIOProofs ----------------------------
(***************************************************************************)
(* Theorems about HookIO, for any number of coroutines and fds: no hooked  *)
(* call sleeps in the kernel, no fd is taken for non-blocking unless the   *)
(* program asked for it, a refused connection is reported as a failure,    *)
(* and the bytes the kernel has accepted are those the calls report.       *)
(***************************************************************************)
EXTENDS HookIO, SequenceLemmas

\* What a coroutine may wait in.
Calls ==
    {Idle} \cup [op : {"read"}, fd : Fd]
           \cup [op : {"write", "send", "sendto"}, fd : Fd, length : Nat, wrotelen : Nat]
           \cup [op : {"connect"}, fd : Fd, i : Nat]

\* The functions of the model, as far as the proofs look at them.
FunctionsOK ==
    /\ call \in [Co -> Calls]
    /\ conn \in [Fd -> {"idle", "connecting", "up", "refused"}]
    /\ told \in [Fd -> {"nothing", "success", "failure"}]

\* An fd whose flags are set is non-blocking in the kernel, and no other fd
\* is in use: neither a close nor a new fd takes it away under a waiting call.
KernelSound ==
    /\ open \ raw \subseteq nonblock
    /\ \A c \in Co : call[c] # Idle => call[c].fd \in open \ raw

\* The flags of an fd do not outlive it.
FlagsSound ==
    /\ fdFlag \subseteq open
    /\ fdFlag \subseteq asked

\* The inductive invariant.
HookInv == FunctionsOK /\ KernelSound /\ FlagsSound

\* A coroutine in a call is recognised by the call's name.
LEMMA CallFacts ==
  ASSUME FunctionsOK, NEW c \in Co
  PROVE  /\ call[c] # Stuck
         /\ call[c] # Idle <=> call[c].op # "none"
         /\ call[c].op # "none" => call[c].fd \in Fd
         /\ call[c].op \in {"read", "write", "send", "sendto", "connect"} => call[c] # Idle
  <1>1. call[c] \in Calls
    BY DEF FunctionsOK
  <1> QED BY <1>1 DEF Calls, Idle, Stuck

\* An fd that a call waits for is open and non-blocking.
LEMMA WaitedFor ==
  ASSUME HookInv, NEW c \in Co, call[c] # Idle
  PROVE  call[c].fd \in Fd /\ call[c].fd \in open \ raw /\ call[c].fd \in nonblock
  BY CallFacts DEF HookInv, KernelSound

\* A step that changes one coroutine's call, and neither the fds nor their flags.
LEMMA CallStep ==
  ASSUME HookInv, NEW c \in Co, NEW after \in Calls,
         call' = [call EXCEPT ![c] = after],
         after # Idle => after.fd \in open \ raw,
         UNCHANGED <<open, raw, nonblock, fdFlag, asked>>,
         conn' \in [Fd -> {"idle", "connecting", "up", "refused"}],
         told' \in [Fd -> {"nothing", "success", "failure"}]
  PROVE  HookInv'
  <1>1. call' \in [Co -> Calls]
    BY DEF HookInv, FunctionsOK
  <1>2. ASSUME NEW d \in Co, call'[d] # Idle
        PROVE  call'[d].fd \in open \ raw
    BY <1>2 DEF HookInv, FunctionsOK, KernelSound
  <1> QED BY <1>1, <1>2 DEF HookInv, FunctionsOK, KernelSound, FlagsSound

\* The calls that a coroutine can end or wait in are calls.
LEMMA CallValues ==
  /\ Idle \in Calls
  /\ \A f \in Fd : [op |-> "read", fd |-> f] \in Calls
  /\ \A f \in Fd, op \in {"write", "send", "sendto"}, n, m \in Nat :
        [op |-> op, fd |-> f, length |-> n, wrotelen |-> m] \in Calls
  /\ \A f \in Fd, n \in Nat : [op |-> "connect", fd |-> f, i |-> n] \in Calls
  BY DEF Calls

-----------------------------------------------------------------------------
(* The life of an fd *)

\* An fd is made where none is open, so no call waits for it.
LEMMA SocketInv ==
  ASSUME HookInv, NEW c \in Co, NEW f \in Fd, Socket(c, f)
  PROVE  HookInv'
  <1>1. /\ f \notin open /\ open' = open \cup {f}
        /\ asked' = asked \ {f} /\ fdFlag' = fdFlag \ {f}
        /\ nonblock' = nonblock \cup {f}
        /\ conn' = [conn EXCEPT ![f] = "idle"]
        /\ told' = [told EXCEPT ![f] = "nothing"]
        /\ UNCHANGED <<raw, call>>
    BY DEF Socket, Opened, SetFlags
  <1>2. FunctionsOK'
    BY <1>1 DEF HookInv, FunctionsOK
  <1>3. KernelSound'
    BY <1>1 DEF HookInv, KernelSound
  <1>4. FlagsSound'
    BY <1>1 DEF HookInv, FlagsSound
  <1> QED BY <1>2, <1>3, <1>4 DEF HookInv

\* accept keeps the invariant.
LEMMA AcceptInv ==
  ASSUME HookInv, NEW c \in Co, NEW f \in Fd, AcceptFd2Attributes(c, f)
  PROVE  HookInv'
  <1>1. /\ f \notin open /\ open' = open \cup {f} /\ raw' = raw \cup {f}
        /\ asked' = asked \ {f} /\ nonblock' = nonblock \ {f}
        /\ conn' = [conn EXCEPT ![f] = "up"]
        /\ told' = [told EXCEPT ![f] = "nothing"]
        /\ UNCHANGED <<fdFlag, call>>
    BY DEF AcceptFd2Attributes, Opened
  <1>2. FunctionsOK'
    BY <1>1 DEF HookInv, FunctionsOK
  <1>3. KernelSound'
    BY <1>1 DEF HookInv, KernelSound
  <1>4. FlagsSound'
    BY <1>1 DEF HookInv, FlagsSound
  <1> QED BY <1>2, <1>3, <1>4 DEF HookInv

\* fcntl keeps the invariant.
LEMMA FcntlInv ==
  ASSUME HookInv, NEW c \in Co, NEW f \in Fd, NEW flag \in BOOLEAN, Fcntl(c, f, flag)
  PROVE  HookInv'
  <1>1. /\ f \in open /\ raw' = raw \ {f}
        /\ nonblock' = nonblock \cup {f}
        /\ asked' = IF flag THEN asked \cup {f} ELSE asked \ {f}
        /\ fdFlag' = IF flag THEN fdFlag \cup {f} ELSE fdFlag \ {f}
        /\ UNCHANGED <<open, conn, told, call>>
    BY DEF Fcntl, SetFlags
  <1>2. FunctionsOK'
    BY <1>1 DEF HookInv, FunctionsOK
  <1>3. KernelSound'
    BY <1>1 DEF HookInv, KernelSound
  <1>4. FlagsSound'
    BY <1>1 DEF HookInv, FlagsSound
  <1> QED BY <1>2, <1>3, <1>4 DEF HookInv

\* Only an fd that no call waits for is closed, and its flags go with it.
LEMMA CloseInv ==
  ASSUME HookInv, NEW c \in Co, NEW f \in Fd, Close(c, f)
  PROVE  HookInv'
  <1>1. /\ ~InUse(f) /\ open' = open \ {f} /\ raw' = raw \ {f}
        /\ fdFlag' = fdFlag \ {f}
        /\ UNCHANGED <<nonblock, conn, asked, told, call>>
    BY DEF Close, DeleteAttributes
  <1>2. FunctionsOK'
    BY <1>1 DEF HookInv, FunctionsOK
  <1>3. KernelSound'
    <2>1. ASSUME NEW d \in Co, call[d] # Idle
          PROVE  call[d].fd \in open \ raw /\ call[d].fd # f
      <3>1. call[d] # Stuck
        BY CallFacts DEF HookInv
      <3> QED BY <1>1, <2>1, <3>1 DEF InUse, HookInv, KernelSound
    <2> QED BY <1>1, <2>1 DEF HookInv, KernelSound
  <1>4. FlagsSound'
    BY <1>1 DEF HookInv, FlagsSound
  <1> QED BY <1>2, <1>3, <1>4 DEF HookInv

-----------------------------------------------------------------------------
(* The calls *)

\* A call on a usable fd finds it non-blocking.
LEMMA UsableFacts ==
  ASSUME HookInv, NEW f \in Fd, Usable(f)
  PROVE  f \in open \ raw /\ f \in nonblock
  BY DEF HookInv, KernelSound, Usable

\* read, up to its poll, keeps the invariant.
LEMMA ReadInv ==
  ASSUME HookInv, NEW c \in Co, NEW f \in Fd, Read(c, f)
  PROVE  HookInv'
  <1>1. PICK after \in {Idle, [op |-> "read", fd |-> f]} :
             call' = [call EXCEPT ![c] = after]
    BY UsableFacts DEF Read, NothingOn
  <1>2. after \in Calls /\ (after # Idle => after.fd \in open \ raw)
    BY UsableFacts, CallValues DEF Read
  <1>3. UNCHANGED <<open, raw, nonblock, fdFlag, asked, conn, told>>
    BY DEF Read, kernelVars, fdVars, userVars
  <1> QED BY <1>1, <1>2, <1>3, CallStep DEF HookInv, FunctionsOK

\* recvfrom, up to its poll, keeps the invariant.
LEMMA RecvfromInv ==
  ASSUME HookInv, NEW c \in Co, NEW f \in Fd, Recvfrom(c, f)
  PROVE  HookInv'
  <1>1. PICK after \in {Idle, [op |-> "read", fd |-> f]} :
             call' = [call EXCEPT ![c] = after]
    BY UsableFacts DEF Recvfrom, NothingOn
  <1>2. after \in Calls /\ (after # Idle => after.fd \in open \ raw)
    BY UsableFacts, CallValues DEF Recvfrom
  <1>3. UNCHANGED <<open, raw, nonblock, fdFlag, asked, conn, told>>
    BY DEF Recvfrom, kernelVars, fdVars, userVars
  <1> QED BY <1>1, <1>2, <1>3, CallStep DEF HookInv, FunctionsOK

\* What a read does after its poll keeps the invariant.
LEMMA ReadAfterPollInv ==
  ASSUME HookInv, NEW c \in Co, ReadAfterPoll(c)
  PROVE  HookInv'
  <1>1. call[c].fd \in nonblock
    BY CallFacts, WaitedFor DEF ReadAfterPoll, HookInv
  <1>2. call' = [call EXCEPT ![c] = Idle]
    BY <1>1 DEF ReadAfterPoll, NothingOn
  <1>3. UNCHANGED <<open, raw, nonblock, fdFlag, asked, conn, told>>
    BY DEF ReadAfterPoll, kernelVars, fdVars, userVars
  <1> QED BY <1>2, <1>3, CallStep, CallValues DEF HookInv, FunctionsOK

\* A first write is over or waits.
LEMMA FirstWriteCall ==
  ASSUME HookInv, NEW c \in Co, NEW f \in Fd, NEW op \in {"write", "send", "sendto"},
         NEW length \in Nat, NEW direct, Usable(f), FirstWrite(op, c, f, length, direct)
  PROVE  \E after \in Calls : /\ call' = [call EXCEPT ![c] = after]
                              /\ after # Idle => after.fd \in open \ raw
  <1>1. PICK k \in 0..length :
           \/ call' = [call EXCEPT ![c] = Idle]
           \/ call' = [call EXCEPT ![c] = [op |-> op, fd |-> f, length |-> length,
                                           wrotelen |-> k]]
    BY UsableFacts DEF FirstWrite, Takes, Reports, Waits
  <1>2. k \in Nat
    OBVIOUS
  <1>3. [op |-> op, fd |-> f, length |-> length, wrotelen |-> k] \in Calls
    BY <1>2, CallValues
  <1> QED BY <1>1, <1>3, CallValues, UsableFacts

\* A write, up to its poll, keeps the invariant.
LEMMA WriteInv ==
  ASSUME HookInv, NEW c \in Co, NEW f \in Fd, NEW length \in 1..MaxSent,
         Write(c, f, length) \/ Send(c, f, length) \/ Sendto(c, f, length)
  PROVE  HookInv'
  <1>1. length \in Nat
    OBVIOUS
  <1>2. \E op \in {"write", "send", "sendto"} : \E direct :
           Usable(f) /\ FirstWrite(op, c, f, length, direct)
    BY Zenon DEF Write, Send, Sendto
  <1>3. PICK after \in Calls : /\ call' = [call EXCEPT ![c] = after]
                               /\ after # Idle => after.fd \in open \ raw
    BY <1>1, <1>2, FirstWriteCall
  <1>4. UNCHANGED <<open, raw, nonblock, fdFlag, asked, conn, told>>
    BY DEF Write, Send, Sendto, fdVars
  <1> QED BY <1>3, <1>4, CallStep DEF HookInv, FunctionsOK

\* A turn of the loop in write or send is over or waits again.
LEMMA WriteAfterPollInv ==
  ASSUME HookInv, NEW c \in Co, WriteAfterPoll(c)
  PROVE  HookInv'
  <1> DEFINE w == call[c]
  <1>1. /\ w.fd \in Fd /\ w.fd \in open \ raw /\ w.fd \in nonblock
        /\ w \in [op : {"write", "send", "sendto"}, fd : Fd, length : Nat, wrotelen : Nat]
    <2>1. w.op \in {"write", "send", "sendto"} /\ w \in Calls
      BY DEF WriteAfterPoll, HookInv, FunctionsOK
    <2>2. w \in [op : {"write", "send", "sendto"}, fd : Fd, length : Nat, wrotelen : Nat]
      BY <2>1 DEF Calls, Idle
    <2>3. w # Idle
      BY <2>1 DEF Idle
    <2> QED BY <2>2, <2>3, WaitedFor
  <1>2. PICK k \in Takes(w.op, w.length - w.wrotelen) :
           \/ call' = [call EXCEPT ![c] = Idle]
           \/ call' = [call EXCEPT ![c] = [op |-> w.op, fd |-> w.fd, length |-> w.length,
                                           wrotelen |-> w.wrotelen + k]]
    <2> HIDE DEF w
    <2>1. PICK k \in Takes(w.op, w.length - w.wrotelen) :
             CASE k = 0 /\ w.fd \notin nonblock ->
                    call' = [call EXCEPT ![c] = Stuck] /\ UNCHANGED written
               [] k = 0 /\ w.fd \in nonblock -> Reports(c, w.fd, w.wrotelen)
               [] k = (w.length - w.wrotelen) /\ k > 0 -> Reports(c, w.fd, w.length)
               [] OTHER -> Waits(w.op, c, w.fd, w.length, w.wrotelen + k)
      BY DEF WriteAfterPoll, w
    <2> QED BY <1>1, <2>1 DEF Reports, Waits
  <1>3. w.wrotelen + k \in Nat
    <2> HIDE DEF w
    <2>1. CASE w.op = "sendto"
      BY <1>1, <1>2, <2>1 DEF Takes
    <2>2. CASE w.op # "sendto"
      BY <1>1, <1>2, <2>2 DEF Takes
    <2> QED BY <2>1, <2>2
  <1>4. [op |-> w.op, fd |-> w.fd, length |-> w.length, wrotelen |-> w.wrotelen + k] \in Calls
    BY <1>1, <1>3, CallValues
  <1>5. UNCHANGED <<open, raw, nonblock, fdFlag, asked, conn, told>>
    BY DEF WriteAfterPoll, fdVars
  <1>6. CASE call' = [call EXCEPT ![c] = Idle]
    BY <1>5, <1>6, CallStep, CallValues DEF HookInv, FunctionsOK
  <1>7. CASE call' = [call EXCEPT ![c] = [op |-> w.op, fd |-> w.fd, length |-> w.length,
                                          wrotelen |-> w.wrotelen + k]]
    <2> DEFINE after == [op |-> w.op, fd |-> w.fd, length |-> w.length,
                         wrotelen |-> w.wrotelen + k]
    <2>1. after.fd \in open \ raw /\ call' = [call EXCEPT ![c] = after] /\ after \in Calls
      BY <1>1, <1>4, <1>7
    <2> HIDE DEF after, w
    <2> QED BY <1>5, <2>1, CallStep DEF HookInv, FunctionsOK
  <1> QED BY <1>2, <1>6, <1>7

\* connect starts, and may wait for the first time.
LEMMA ConnectInv ==
  ASSUME HookInv, NEW c \in Co, NEW f \in Fd, Connect(c, f)
  PROVE  HookInv'
  <1>1. f \in open \ raw /\ f \in nonblock
    BY UsableFacts DEF Connect
  <1> DEFINE waits == [op |-> "connect", fd |-> f, i |-> 1]
  <1>2. PICK after \in {Idle, waits} : call' = [call EXCEPT ![c] = after]
    BY <1>1 DEF Connect, FirstConnect, ConnectAgain, Tells
  <1>3. after \in Calls /\ (after # Idle => after.fd \in open \ raw)
    BY <1>1, CallValues
  <1>4. conn' \in [Fd -> {"idle", "connecting", "up", "refused"}]
    BY DEF Connect, FirstConnect, ConnectAgain, HookInv, FunctionsOK
  <1>5. told' \in [Fd -> {"nothing", "success", "failure"}]
    BY <1>1 DEF Connect, FirstConnect, ConnectAgain, Tells, HookInv, FunctionsOK
  <1>6. UNCHANGED <<open, raw, nonblock, fdFlag, asked>>
    BY DEF Connect, fdVars
  <1> QED BY <1>2, <1>3, <1>4, <1>5, <1>6, CallStep

\* connect after a poll that reports the fd keeps the invariant.
LEMMA ConnectReadyInv ==
  ASSUME HookInv, NEW c \in Co, ConnectReady(c)
  PROVE  HookInv'
  <1>1. PICK answer \in {"failure", "success"} : Tells(c, call[c].fd, answer)
    BY DEF ConnectReady
  <1>2. call' = [call EXCEPT ![c] = Idle] /\ told' \in [Fd -> {"nothing", "success", "failure"}]
    BY <1>1 DEF Tells, HookInv, FunctionsOK
  <1>3. UNCHANGED <<open, raw, nonblock, fdFlag, asked, conn>>
    BY DEF ConnectReady, kernelVars, fdVars
  <1> QED BY <1>2, <1>3, CallStep, CallValues DEF HookInv, FunctionsOK

\* connect after its last timeout keeps the invariant.
LEMMA ConnectTimesOutInv ==
  ASSUME HookInv, NEW c \in Co, ConnectTimesOut(c)
  PROVE  HookInv'
  <1>1. UNCHANGED <<open, raw, nonblock, fdFlag, asked, conn>>
    BY DEF ConnectTimesOut, kernelVars, fdVars
  <1>2. CASE call[c].i < RetransmissionTries
    <2>1. call' = [call EXCEPT ![c].i = @ + 1] /\ told' = told
      BY <1>2 DEF ConnectTimesOut
    <2>2. call[c] \in [op : {"connect"}, fd : Fd, i : Nat] /\ call[c] # Idle
      BY DEF ConnectTimesOut, HookInv, FunctionsOK, Calls, Idle
    <2> DEFINE after == [call[c] EXCEPT !.i = @ + 1]
    <2>3. after \in [op : {"connect"}, fd : Fd, i : Nat] /\ after.fd = call[c].fd
      BY <2>2
    <2>4. after \in Calls /\ after.fd \in open \ raw
      BY <2>2, <2>3, WaitedFor DEF Calls
    <2>5. call' = [call EXCEPT ![c] = after]
      BY <2>1
    <2> HIDE DEF after
    <2> QED BY <1>1, <2>1, <2>4, <2>5, CallStep DEF HookInv, FunctionsOK
  <1>3. CASE ~(call[c].i < RetransmissionTries)
    <2>1. PICK answer \in {"failure", "success"} : Tells(c, call[c].fd, answer)
      BY <1>3 DEF ConnectTimesOut
    <2>2. call' = [call EXCEPT ![c] = Idle]
          /\ told' \in [Fd -> {"nothing", "success", "failure"}]
      BY <2>1 DEF Tells, HookInv, FunctionsOK
    <2> QED BY <1>1, <2>2, CallStep, CallValues DEF HookInv, FunctionsOK
  <1> QED BY <1>2, <1>3

\* The peer's answer changes its connection only.
LEMMA AnswerInv ==
  ASSUME HookInv, NEW f \in Fd, Answer(f)
  PROVE  HookInv'
  <1>1. conn' \in [Fd -> {"idle", "connecting", "up", "refused"}]
    BY DEF Answer, HookInv, FunctionsOK
  <1>2. UNCHANGED <<open, raw, nonblock, fdFlag, asked, told, call>>
    BY DEF Answer, fdVars, userVars
  <1> QED BY <1>1, <1>2 DEF HookInv, FunctionsOK, KernelSound, FlagsSound

-----------------------------------------------------------------------------
(* Theorems *)

\* The invariant behind the theorems: it holds at the start and every step of
\* the hooked calls keeps it.
THEOREM HookInvariance == Spec => []HookInv
  <1>1. Init => HookInv
    BY CallValues DEF Init, HookInv, FunctionsOK, KernelSound, FlagsSound
  <1>2. ASSUME HookInv, [Next]_vars
        PROVE  HookInv'
    <2>1. CASE UNCHANGED vars
      BY <1>2, <2>1 DEF vars, kernelVars, fdVars, userVars, HookInv, FunctionsOK, KernelSound,
                        FlagsSound
    <2>2. ASSUME NEW c \in Co, NEW f \in Fd,
                 \/ Socket(c, f)
                 \/ AcceptFd2Attributes(c, f)
                 \/ \E flag \in BOOLEAN : Fcntl(c, f, flag)
                 \/ Close(c, f)
                 \/ Read(c, f)
                 \/ Recv(c, f)
                 \/ Recvfrom(c, f)
                 \/ \E length \in 1..MaxSent :
                       Write(c, f, length) \/ Send(c, f, length) \/ Sendto(c, f, length)
                 \/ Connect(c, f)
          PROVE  HookInv'
      BY <1>2, <2>2, SocketInv, AcceptInv, FcntlInv, CloseInv, ReadInv, RecvfromInv,
         WriteInv, ConnectInv DEF Recv
    <2>3. ASSUME NEW c \in Co,
                 \/ ReadAfterPoll(c)
                 \/ WriteAfterPoll(c)
                 \/ ConnectReady(c)
                 \/ ConnectTimesOut(c)
          PROVE  HookInv'
      BY <1>2, <2>3, ReadAfterPollInv, WriteAfterPollInv, ConnectReadyInv, ConnectTimesOutInv
    <2>4. ASSUME NEW f \in Fd, Answer(f)
          PROVE  HookInv'
      BY <1>2, <2>4, AnswerInv
    <2> QED BY <1>2, <2>1, <2>2, <2>3, <2>4 DEF Next
  <1> QED BY <1>1, <1>2, PTL DEF Spec

\* No hooked read, recv, write, send or connect sleeps in the kernel: whatever
\* its poll came to, the fd is non-blocking there.
THEOREM NeverSleeps == Spec => []NeverStuck
  <1>1. HookInv => NeverStuck
    BY CallFacts DEF HookInv, NeverStuck
  <1> QED BY <1>1, HookInvariance, PTL

\* The flags of an fd are those its own user asked for, however often its number
\* has been used before.
THEOREM FlagsAreAsked == Spec => []NonBlockOnlyIfAsked
  <1>1. HookInv => NonBlockOnlyIfAsked
    BY DEF HookInv, FlagsSound, NonBlockOnlyIfAsked
  <1> QED BY <1>1, HookInvariance, PTL

\* connect reports no success for a refused connection, whether its poll ended
\* with an event or with its last timeout.
THEOREM RefusalReported == Spec => RefusalIsReported
  <1> DEFINE Step == \A f \in Fd : told'[f] = "success" /\ told[f] # "success" =>
                                      conn'[f] # "refused"
  <1>1. ASSUME HookInv, [Next]_vars
        PROVE  [Step]_vars
    <2>1. CASE told' = told
      BY <2>1
    <2>2. ASSUME NEW c \in Co, NEW f \in Fd, Socket(c, f) \/ AcceptFd2Attributes(c, f)
          PROVE  Step
      BY <1>1, <2>2 DEF Socket, AcceptFd2Attributes, Opened, HookInv, FunctionsOK
    <2>3. ASSUME NEW c \in Co, NEW f \in Fd, Connect(c, f)
          PROVE  Step
      BY <1>1, <2>3 DEF Connect, FirstConnect, ConnectAgain, Tells, HookInv, FunctionsOK
    <2>4. ASSUME NEW c \in Co, ConnectReady(c) \/ ConnectTimesOut(c)
          PROVE  Step
      BY <1>1, <2>4 DEF ConnectReady, ConnectTimesOut, Tells, SoError, kernelVars, HookInv,
                        FunctionsOK
    <2>5. [Next]_vars => \/ told' = told
                         \/ \E c \in Co, f \in Fd : \/ Socket(c, f)
                                                    \/ AcceptFd2Attributes(c, f)
                                                    \/ Connect(c, f)
                         \/ \E c \in Co : ConnectReady(c) \/ ConnectTimesOut(c)
      BY DEF Next, Fcntl, Close, Read, Recv, Recvfrom, Write, Send, Sendto, ReadAfterPoll, WriteAfterPoll, Answer,
             userVars, vars
    <2> QED BY <1>1, <2>1, <2>2, <2>3, <2>4, <2>5
  <1> QED BY <1>1, HookInvariance, PTL DEF Spec, RefusalIsReported

-----------------------------------------------------------------------------
(* The bytes *)

Writes == {"write", "send", "sendto"}

Byte == Co \X (1..MaxSent)

\* The sets of fds: only open ones wait for their flags, and every fd with
\* O_NONBLOCK in its attributes has attributes.
SetsOK ==
    /\ open \subseteq Fd
    /\ nonblock \subseteq Fd
    /\ asked \subseteq Fd
    /\ attributes \subseteq Fd
    /\ fdFlag \subseteq attributes
    /\ raw \subseteq open

\* What the kernel has accepted, and how much of it has been reported.
BytesOK ==
    /\ sent \in [Fd -> Seq(Byte)]
    /\ written \in [Co -> [Fd -> 0..MaxSent]]

\* A write that waits has written a part of what it was given, and was given
\* no more than fits the bound.
WritesFit ==
    \A c \in Co : call[c].op \in Writes =>
        /\ call[c].wrotelen <= call[c].length
        /\ written[c][call[c].fd] + call[c].length <= MaxSent

\* The inductive invariant, beside HookInv.
BytesInv == SetsOK /\ BytesOK /\ WritesFit /\ SentIsReported

\* How many bytes of c the calls through f account for.
Counted(c, f) == written[c][f] + UnderWay(c, f)

\* A coroutine's call as a record, when it writes.
LEMMA WriteFacts ==
  ASSUME FunctionsOK, NEW c \in Co, call[c].op \in Writes
  PROVE  /\ call[c] \in [op : Writes, fd : Fd, length : Nat, wrotelen : Nat]
         /\ call[c].fd \in Fd /\ call[c].length \in Nat /\ call[c].wrotelen \in Nat
         /\ call[c] # Idle
  <1>1. call[c] \in Calls
    BY DEF FunctionsOK
  <1>2. call[c] \in [op : Writes, fd : Fd, length : Nat, wrotelen : Nat]
    BY <1>1 DEF Calls, Idle, Writes
  <1>3. call[c] # Idle
    BY DEF Idle, Writes
  <1> QED BY <1>2, <1>3

\* The bytes that are counted are a number within the bound.
LEMMA CountedFacts ==
  ASSUME HookInv, BytesInv, NEW c \in Co, NEW f \in Fd
  PROVE  /\ UnderWay(c, f) \in Nat
         /\ written[c][f] \in Nat
         /\ Counted(c, f) \in 0..MaxSent
  <1>1. written[c][f] \in 0..MaxSent /\ MaxSent \in Nat
    BY HookAssumption DEF BytesInv, BytesOK
  <1>2. CASE call[c].op \in Writes /\ call[c].fd = f
    <2>1. UnderWay(c, f) = call[c].wrotelen
      BY <1>2 DEF UnderWay, Writes
    <2>2. /\ call[c].wrotelen \in Nat /\ call[c].length \in Nat
          /\ call[c].wrotelen <= call[c].length
          /\ written[c][f] + call[c].length <= MaxSent
      BY <1>2, WriteFacts DEF HookInv, BytesInv, WritesFit
    <2> QED BY <1>1, <2>1, <2>2 DEF Counted
  <1>3. CASE ~ (call[c].op \in Writes /\ call[c].fd = f)
    <2>1. UnderWay(c, f) = 0
      BY <1>3 DEF UnderWay, Writes
    <2> QED BY <1>1, <2>1 DEF Counted
  <1> QED BY <1>2, <1>3

\* A run of numbered bytes and the run behind it.
LEMMA RunsJoin ==
  ASSUME NEW c, NEW n \in Nat, NEW k \in Nat
  PROVE  [i \in 1..n |-> <<c, i>>] \o [i \in 1..k |-> <<c, n + i>>]
           = [i \in 1..(n + k) |-> <<c, i>>]
  <1> DEFINE T == {c} \X Nat
             a == [i \in 1..n |-> <<c, i>>]
             b == [i \in 1..k |-> <<c, n + i>>]
             d == [i \in 1..(n + k) |-> <<c, i>>]
  <1>1. a \in Seq(T) /\ Len(a) = n /\ \A i \in 1..n : a[i] = <<c, i>>
    OBVIOUS
  <1>2. b \in Seq(T) /\ Len(b) = k /\ \A i \in 1..k : b[i] = <<c, n + i>>
    OBVIOUS
  <1>3. d \in Seq(T) /\ Len(d) = n + k /\ \A i \in 1..(n + k) : d[i] = <<c, i>>
    OBVIOUS
  <1> HIDE DEF a, b, d, T
  <1> DEFINE e == a \o b
  <1>4. /\ e \in Seq(T) /\ Len(e) = n + k
        /\ \A i \in 1..n : e[i] = a[i]
        /\ \A i \in 1..k : e[n + i] = b[i]
    <2>1. /\ e \in Seq(T)
          /\ Len(e) = Len(a) + Len(b)
          /\ \A i \in 1..Len(a) : e[i] = a[i]
          /\ \A i \in 1..Len(b) : e[Len(a) + i] = b[i]
      <3>1. a \in Seq(T) /\ b \in Seq(T)
        BY <1>1, <1>2
      <3> QED BY <3>1, JoinedParts
    <2> HIDE DEF e
    <2> QED BY <1>1, <1>2, <2>1
  <1> HIDE DEF e
  <1>5. ASSUME NEW i \in 1..(n + k)
        PROVE  e[i] = d[i]
    <2>1. CASE i \in 1..n
      BY <1>1, <1>3, <1>4, <2>1
    <2>2. CASE i \notin 1..n
      <3> DEFINE j == i - n
      <3>1. j \in 1..k /\ n + j = i
        BY <2>2
      <3> HIDE DEF j
      <3>2. e[i] = b[j] /\ b[j] = <<c, n + j>>
        BY <1>2, <1>4, <3>1
      <3> QED BY <1>3, <3>1, <3>2
    <2> QED BY <2>1, <2>2
  <1>6. e = d
    <2>1. Len(e) = Len(d) /\ Len(d) \in Nat /\ \A i \in 1..Len(e) : e[i] = d[i]
      BY <1>3, <1>4, <1>5
    <2>2. e \in Seq(T) /\ d \in Seq(T)
      BY <1>3, <1>4
    <2> QED BY <2>1, <2>2
  <1> QED BY <1>6 DEF a, b, d, e

\* No more bytes of a coroutine have been accepted than bytes in all.
LEMMA CountedFits ==
  ASSUME HookInv, BytesInv, NEW c \in Co, NEW f \in open
  PROVE  Counted(c, f) <= Len(sent[f])
  <1> DEFINE n == Counted(c, f)
             S == (Co \ {c}) \X Nat
  <1>1. f \in Fd /\ sent[f] \in Seq(Byte)
    BY DEF BytesInv, SetsOK, BytesOK
  <1>2. n \in Nat
    BY <1>1, CountedFacts, HookAssumption
  <1>3. Excluding(sent[f], S) = [i \in 1..n |-> <<c, i>>]
    BY DEF BytesInv, SentIsReported, AcceptedFrom, Counted
  <1> HIDE DEF n, S
  <1>4. Len([i \in 1..n |-> <<c, i>>]) = n
    BY <1>2
  <1>5. Len(Excluding(sent[f], S)) <= Len(sent[f])
    BY <1>1, ExcludingShorter
  <1> QED BY <1>3, <1>4, <1>5 DEF n

\* The bytes the kernel accepts are added to those of their writer, and to those
\* of no other.
LEMMA BytesAccepted ==
  ASSUME BytesOK, NEW c \in Co, NEW f \in Fd, NEW n \in Nat, NEW k \in Nat,
         n + k <= MaxSent, Accepted(c, f, n, k)
  PROVE  /\ sent' \in [Fd -> Seq(Byte)]
         /\ \A g \in Fd : g # f => sent'[g] = sent[g]
         /\ \A d \in Co : d # c => AcceptedFrom(d, f)' = AcceptedFrom(d, f)
         /\ AcceptedFrom(c, f)' = AcceptedFrom(c, f) \o [i \in 1..k |-> <<c, n + i>>]
  <1> DEFINE a == sent[f]
             b == [i \in 1..k |-> <<c, n + i>>]
             Others(d) == (Co \ {d}) \X Nat
  <1>1. sent' = [sent EXCEPT ![f] = a \o b]
    BY DEF Accepted
  <1>2. a \in Seq(Byte)
    BY DEF BytesOK
  <1>3. b \in Seq(Byte) /\ Len(b) = k /\ \A i \in 1..k : b[i] = <<c, n + i>>
    <2>1. ASSUME NEW i \in 1..k
          PROVE  n + i \in 1..MaxSent
      BY HookAssumption
    <2>2. \A i \in 1..k : <<c, n + i>> \in Byte
      BY <2>1 DEF Byte
    <2> HIDE DEF Byte
    <2> QED BY <2>2
  <1>4. \A i \in 1..Len(b) : b[i] \notin Others(c)
    BY <1>3
  <1>5. \A d \in Co : d # c => \A i \in 1..Len(b) : b[i] \in Others(d)
    <2> SUFFICES ASSUME NEW d \in Co, d # c, NEW i \in 1..Len(b)
                 PROVE  b[i] \in Others(d)
      OBVIOUS
    <2>1. b[i] = <<c, n + i>> /\ n + i \in Nat
      BY <1>3
    <2> QED BY <2>1
  <1> HIDE DEF a, b, Byte, Others
  <1>6. sent' \in [Fd -> Seq(Byte)] /\ sent'[f] = a \o b
    <2>1. a \o b \in Seq(Byte)
      BY <1>2, <1>3
    <2> QED BY <1>1, <2>1 DEF BytesOK
  <1>7. \A g \in Fd : g # f => sent'[g] = sent[g]
    BY <1>1 DEF BytesOK
  <1>8. Excluding(a \o b, Others(c)) = Excluding(a, Others(c)) \o b
    BY <1>2, <1>3, <1>4, ExcludingJoined
  <1>9. ASSUME NEW d \in Co, d # c
        PROVE  Excluding(a \o b, Others(d)) = Excluding(a, Others(d))
    <2>1. \A i \in 1..Len(b) : b[i] \in Others(d)
      BY <1>5, <1>9
    <2> QED BY <1>2, <1>3, <2>1, ExcludingIgnores
  <1>10. AcceptedFrom(c, f)' = AcceptedFrom(c, f) \o b
    BY <1>6, <1>8 DEF AcceptedFrom, a, Others
  <1>11. \A d \in Co : d # c => AcceptedFrom(d, f)' = AcceptedFrom(d, f)
    BY <1>6, <1>9 DEF AcceptedFrom, a, Others
  <1> QED BY <1>6, <1>7, <1>10, <1>11 DEF b

\* A step that only changes calls that write nothing, and closes fds at most.
LEMMA QuietStep ==
  ASSUME BytesInv, SetsOK', UNCHANGED <<sent, written>>, open' \subseteq open,
         \A d \in Co : call'[d] = call[d] \/ (call[d].op \notin Writes /\ call'[d].op \notin Writes)
  PROVE  BytesInv'
  <1>1. BytesOK'
    BY DEF BytesInv, BytesOK
  <1>2. WritesFit'
    BY DEF BytesInv, WritesFit
  <1>3. SentIsReported'
    <2> SUFFICES ASSUME NEW d \in Co, NEW g \in open'
                 PROVE  AcceptedFrom(d, g)' = [i \in 1..Counted(d, g)' |-> <<d, i>>]
      BY DEF SentIsReported, Counted
    <2>1. UnderWay(d, g)' = UnderWay(d, g)
      BY DEF UnderWay, Writes
    <2>2. AcceptedFrom(d, g)' = AcceptedFrom(d, g)
      BY DEF AcceptedFrom
    <2>3. Counted(d, g)' = Counted(d, g)
      BY <2>1 DEF Counted
    <2> QED BY <2>2, <2>3 DEF BytesInv, SentIsReported, Counted
  <1> QED BY <1>1, <1>2, <1>3 DEF BytesInv

\* A new fd starts without bytes: no call waits for it.
LEMMA NewFdStep ==
  ASSUME HookInv, BytesInv, SetsOK', NEW f \in Fd, NEW state, Opened(f, state), UNCHANGED call
  PROVE  BytesInv'
  <1>1. /\ f \notin open /\ open' = open \cup {f}
        /\ sent' = [sent EXCEPT ![f] = <<>>]
        /\ written' = [d \in Co |-> [written[d] EXCEPT ![f] = 0]]
    BY DEF Opened
  <1>2. 0 \in 0..MaxSent
    BY HookAssumption
  <1>3. BytesOK'
    BY <1>1, <1>2 DEF BytesInv, BytesOK
  <1>4. /\ \A d \in Co, g \in Fd : g # f => written'[d][g] = written[d][g]
        /\ \A d \in Co : written'[d][f] = 0
    BY <1>1 DEF BytesInv, BytesOK
  <1>5. ASSUME NEW d \in Co, call[d].op \in Writes
        PROVE  call[d].fd \in Fd /\ call[d].fd # f
    BY <1>1, <1>5, WriteFacts DEF HookInv, KernelSound
  <1>6. WritesFit'
    BY <1>4, <1>5 DEF BytesInv, WritesFit
  <1>7. SentIsReported'
    <2> SUFFICES ASSUME NEW d \in Co, NEW g \in open'
                 PROVE  AcceptedFrom(d, g)' = [i \in 1..Counted(d, g)' |-> <<d, i>>]
      BY DEF SentIsReported, Counted
    <2>1. g \in Fd
      BY <1>1 DEF BytesInv, SetsOK
    <2>2. UnderWay(d, g)' = UnderWay(d, g)
      BY DEF UnderWay
    <2>3. CASE g # f
      <3>1. Counted(d, g)' = Counted(d, g)
        BY <1>4, <2>1, <2>2, <2>3 DEF Counted
      <3>2. sent'[g] = sent[g]
        BY <1>1, <2>1, <2>3 DEF BytesInv, BytesOK
      <3>3. AcceptedFrom(d, g)' = AcceptedFrom(d, g)
        BY <3>2 DEF AcceptedFrom
      <3>4. g \in open
        BY <1>1, <2>3
      <3> QED BY <3>1, <3>3, <3>4 DEF BytesInv, SentIsReported, Counted
    <2>4. CASE g = f
      <3>1. UnderWay(d, g) = 0
        BY <1>5, <2>4 DEF UnderWay, Writes
      <3>2. Counted(d, g)' = 0
        BY <1>4, <2>2, <2>4, <3>1 DEF Counted
      <3>3. sent'[g] = <<>>
        BY <1>1, <2>4 DEF BytesInv, BytesOK
      <3>4. AcceptedFrom(d, g)' = Excluding(<<>>, (Co \ {d}) \X Nat)
        BY <3>3 DEF AcceptedFrom
      <3>5. Excluding(<<>>, (Co \ {d}) \X Nat) = <<>>
        <4> DEFINE e == <<>>
                   S == (Co \ {d}) \X Nat
        <4>1. e \in Seq(Byte) /\ Len(e) = 0
          OBVIOUS
        <4> HIDE DEF e, S, Byte
        <4>2. Excluding(e, S) \in Seq(Byte) /\ Len(Excluding(e, S)) = 0
          <5>1. e \in Seq(Byte)
            BY <4>1
          <5>2. Len(Excluding(e, S)) \in Nat /\ Len(Excluding(e, S)) <= Len(e)
            BY <5>1, ExcludingShorter
          <5>3. Excluding(e, S) \in Seq(Byte)
            BY <5>1, ExcludingElements
          <5> QED BY <4>1, <5>2, <5>3
        <4>3. Excluding(e, S) = <<>>
          BY <4>2
        <4> QED BY <4>3 DEF e, S
      <3> QED BY <3>2, <3>4, <3>5
    <2> QED BY <2>3, <2>4
  <1> QED BY <1>3, <1>6, <1>7 DEF BytesInv

\* A write hands bytes to the kernel, behind those its coroutine has counted,
\* and counts them: as reported, or as under way.
LEMMA WriteStep ==
  ASSUME HookInv, BytesInv, SetsOK', UNCHANGED open,
         NEW c \in Co, NEW f \in open, NEW k \in Nat, NEW after \in Calls,
         Counted(c, f) + k <= MaxSent,
         Accepted(c, f, Counted(c, f), k),
         call' = [call EXCEPT ![c] = after],
         call[c].op \in Writes => call[c].fd = f,
         after.op \in Writes => /\ after.fd = f
                                /\ after.wrotelen <= after.length
                                /\ written'[c][f] + after.length <= MaxSent,
         written' \in [Co -> [Fd -> 0..MaxSent]],
         \A d \in Co, g \in Fd : d # c \/ g # f => written'[d][g] = written[d][g],
         Counted(c, f)' = Counted(c, f) + k
  PROVE  BytesInv'
  <1>1. f \in Fd /\ BytesOK /\ Counted(c, f) \in Nat
    <2>1. f \in Fd
      BY DEF BytesInv, SetsOK
    <2> QED BY <2>1, CountedFacts, HookAssumption DEF BytesInv
  <1>2. /\ sent' \in [Fd -> Seq(Byte)]
        /\ \A g \in Fd : g # f => sent'[g] = sent[g]
        /\ \A d \in Co : d # c => AcceptedFrom(d, f)' = AcceptedFrom(d, f)
        /\ AcceptedFrom(c, f)' = AcceptedFrom(c, f) \o [i \in 1..k |-> <<c, Counted(c, f) + i>>]
    BY <1>1, BytesAccepted
  <1>3. call'[c] = after /\ \A d \in Co : d # c => call'[d] = call[d]
    BY DEF HookInv, FunctionsOK
  <1>4. BytesOK'
    BY <1>2 DEF BytesOK
  <1>5. WritesFit'
    <2> SUFFICES ASSUME NEW d \in Co, call'[d].op \in Writes
                 PROVE  /\ call'[d].wrotelen <= call'[d].length
                        /\ written'[d][call'[d].fd] + call'[d].length <= MaxSent
      BY DEF WritesFit
    <2>1. CASE d = c
      BY <1>3, <2>1
    <2>2. CASE d # c
      <3>1. call'[d] = call[d] /\ call[d].fd \in Fd
        BY <1>3, <2>2, WriteFacts DEF HookInv
      <3>2. written'[d][call[d].fd] = written[d][call[d].fd]
        BY <2>2, <3>1
      <3> QED BY <3>1, <3>2 DEF BytesInv, WritesFit
    <2> QED BY <2>1, <2>2
  <1>6. ASSUME NEW d \in Co, NEW g \in open, d # c \/ g # f
        PROVE  Counted(d, g)' = Counted(d, g) /\ AcceptedFrom(d, g)' = AcceptedFrom(d, g)
    <2>1. g \in Fd
      BY DEF BytesInv, SetsOK
    <2>2. UnderWay(d, g)' = UnderWay(d, g)
      <3>1. CASE d # c
        BY <1>3, <3>1 DEF UnderWay
      <3>2. CASE d = c
        <4>1. g # f
          BY <1>6, <3>2
        <4>2. UnderWay(d, g) = 0 /\ UnderWay(d, g)' = 0
          BY <1>3, <3>2, <4>1 DEF UnderWay, Writes
        <4> QED BY <4>2
      <3> QED BY <3>1, <3>2
    <2>3. Counted(d, g)' = Counted(d, g)
      <3>1. written'[d][g] = written[d][g]
        BY <1>6, <2>1
      <3> QED BY <2>2, <3>1 DEF Counted
    <2>4. AcceptedFrom(d, g)' = AcceptedFrom(d, g)
      <3>1. CASE g # f
        BY <1>2, <2>1, <3>1 DEF AcceptedFrom
      <3>2. CASE g = f
        BY <1>2, <1>6, <3>2
      <3> QED BY <3>1, <3>2
    <2> QED BY <2>3, <2>4
  <1>7. AcceptedFrom(c, f)' = [i \in 1..Counted(c, f)' |-> <<c, i>>]
    <2> DEFINE n == Counted(c, f)
    <2>1. AcceptedFrom(c, f) = [i \in 1..n |-> <<c, i>>]
      BY DEF BytesInv, SentIsReported, Counted
    <2>2. [i \in 1..n |-> <<c, i>>] \o [i \in 1..k |-> <<c, n + i>>]
             = [i \in 1..(n + k) |-> <<c, i>>]
      <3>1. n \in Nat
        BY <1>1
      <3> HIDE DEF n
      <3> QED BY <3>1, RunsJoin
    <2> QED BY <1>2, <2>1, <2>2
  <1>8. SentIsReported'
    <2> SUFFICES ASSUME NEW d \in Co, NEW g \in open
                 PROVE  AcceptedFrom(d, g)' = [i \in 1..Counted(d, g)' |-> <<d, i>>]
      BY DEF SentIsReported, Counted
    <2>1. CASE d = c /\ g = f
      BY <1>7, <2>1
    <2>2. CASE d # c \/ g # f
      <3>1. AcceptedFrom(d, g) = [i \in 1..Counted(d, g) |-> <<d, i>>]
        BY DEF BytesInv, SentIsReported, Counted
      <3>2. Counted(d, g)' = Counted(d, g) /\ AcceptedFrom(d, g)' = AcceptedFrom(d, g)
        BY <1>6, <2>2
      <3> QED BY <3>1, <3>2
    <2> QED BY <2>1, <2>2
  <1> QED BY <1>4, <1>5, <1>8 DEF BytesInv

\* A write that reports, and counts what it has reported.
LEMMA WriteReports ==
  ASSUME HookInv, BytesInv, SetsOK', UNCHANGED open,
         NEW c \in Co, NEW f \in open, NEW k \in Nat, NEW n \in Nat,
         Accepted(c, f, Counted(c, f), k),
         call[c].op \in Writes => call[c].fd = f,
         written[c][f] + n = Counted(c, f) + k,
         Counted(c, f) + k <= MaxSent,
         Reports(c, f, n)
  PROVE  BytesInv'
  <1>1. f \in Fd
    BY DEF BytesInv, SetsOK
  <1>2. /\ written' = [written EXCEPT ![c][f] = @ + n]
        /\ call' = [call EXCEPT ![c] = Idle]
    BY DEF Reports
  <1>3. /\ written[c][f] \in Nat /\ Counted(c, f) \in Nat /\ MaxSent \in Nat
        /\ written[c][f] + n \in 0..MaxSent
    BY <1>1, CountedFacts, HookAssumption
  <1>4. written' \in [Co -> [Fd -> 0..MaxSent]]
    BY <1>1, <1>2, <1>3 DEF BytesInv, BytesOK
  <1>5. /\ written'[c][f] = written[c][f] + n
        /\ \A d \in Co, g \in Fd : d # c \/ g # f => written'[d][g] = written[d][g]
    BY <1>1, <1>2 DEF BytesInv, BytesOK
  <1>6. call'[c] = Idle
    BY <1>2 DEF HookInv, FunctionsOK
  <1>7. UnderWay(c, f)' = 0
    BY <1>6 DEF UnderWay, Idle
  <1>8. Counted(c, f)' = Counted(c, f) + k
    BY <1>3, <1>5, <1>7 DEF Counted
  <1> DEFINE after == Idle
  <1>9. after \in Calls /\ call' = [call EXCEPT ![c] = after]
    BY <1>2, CallValues
  <1>10. after.op \in Writes => /\ after.fd = f
                                /\ after.wrotelen <= after.length
                                /\ written'[c][f] + after.length <= MaxSent
    BY DEF Idle, Writes
  <1> HIDE DEF after
  <1> QED BY <1>4, <1>5, <1>8, <1>9, <1>10, WriteStep

\* A write that waits with something left to write.
LEMMA WriteWaits ==
  ASSUME HookInv, BytesInv, SetsOK', UNCHANGED open,
         NEW c \in Co, NEW f \in open, NEW k \in Nat,
         NEW op \in Writes, NEW length \in Nat, NEW wrotelen \in Nat,
         Accepted(c, f, Counted(c, f), k),
         call[c].op \in Writes => call[c].fd = f,
         written[c][f] + wrotelen = Counted(c, f) + k,
         wrotelen <= length,
         written[c][f] + length <= MaxSent,
         Waits(op, c, f, length, wrotelen)
  PROVE  BytesInv'
  <1> DEFINE after == [op |-> op, fd |-> f, length |-> length, wrotelen |-> wrotelen]
  <1>1. f \in Fd
    BY DEF BytesInv, SetsOK
  <1>2. after \in Calls
    BY <1>1, CallValues DEF Writes
  <1>3. after.op = op /\ after.fd = f /\ after.length = length /\ after.wrotelen = wrotelen
    OBVIOUS
  <1>4. call' = [call EXCEPT ![c] = after] /\ written' = written
    BY DEF Waits
  <1> HIDE DEF after
  <1>5. /\ written[c][f] \in Nat /\ Counted(c, f) \in Nat /\ MaxSent \in Nat
        /\ Counted(c, f) + k <= MaxSent
    <2>1. written[c][f] \in Nat /\ Counted(c, f) \in Nat /\ MaxSent \in Nat
      BY <1>1, CountedFacts, HookAssumption
    <2> QED BY <2>1
  <1>6. call'[c] = after
    BY <1>4 DEF HookInv, FunctionsOK
  <1>7. UnderWay(c, f)' = wrotelen
    BY <1>3, <1>6 DEF UnderWay, Writes
  <1>8. Counted(c, f)' = Counted(c, f) + k
    BY <1>4, <1>7 DEF Counted
  <1>9. written' \in [Co -> [Fd -> 0..MaxSent]]
    BY <1>4 DEF BytesInv, BytesOK
  <1> QED BY <1>2, <1>3, <1>4, <1>5, <1>8, <1>9, WriteStep

\* The kernel takes no more than it is given.
LEMMA TakesFacts ==
  ASSUME NEW op, NEW n \in Nat, NEW k \in Takes(op, n)
  PROVE  k \in Nat /\ k <= n
  <1>1. CASE op = "sendto"
    BY <1>1 DEF Takes
  <1>2. CASE op # "sendto"
    BY <1>2 DEF Takes
  <1> QED BY <1>1, <1>2

\* The first write of a call keeps the bytes in order.
LEMMA FirstWriteBytes ==
  ASSUME HookInv, BytesInv, SetsOK', UNCHANGED open,
         NEW c \in Co, NEW f \in open, NEW op \in Writes, NEW length \in Nat,
         Runs(c), Usable(f), Len(sent[f]) + length <= MaxSent, NEW direct,
         FirstWrite(op, c, f, length, direct)
  PROVE  BytesInv'
  <1> DEFINE n == written[c][f]
  <1>1. f \in Fd /\ f \in nonblock
    BY UsableFacts DEF BytesInv, SetsOK
  <1>2. call[c] = Idle /\ call[c].op \notin Writes
    BY DEF Runs, Idle, Writes
  <1>3. Counted(c, f) = n /\ n \in Nat /\ MaxSent \in Nat
    <2>1. UnderWay(c, f) = 0
      BY <1>2 DEF UnderWay, Writes
    <2>2. n \in Nat /\ MaxSent \in Nat
      BY <1>1, CountedFacts, HookAssumption
    <2> QED BY <2>1, <2>2 DEF Counted
  <1>4. n + length <= MaxSent
    <2>1. n <= Len(sent[f])
      BY <1>3, CountedFits
    <2>2. sent[f] \in Seq(Byte)
      BY <1>1 DEF BytesInv, BytesOK
    <2>3. Len(sent[f]) \in Nat
      BY <2>2
    <2> QED BY <1>3, <2>1, <2>3
  <1>5. PICK k \in Takes(op, length) :
           /\ Accepted(c, f, n, k)
           /\ \/ Reports(c, f, k)
              \/ k < length /\ Waits(op, c, f, length, k)
    BY <1>1 DEF FirstWrite
  <1>6. k \in Nat /\ k <= length
    BY TakesFacts
  <1> HIDE DEF n
  <1>7. n + k <= MaxSent
    BY <1>3, <1>4, <1>6
  <1>8. CASE Reports(c, f, k)
    BY <1>2, <1>3, <1>5, <1>6, <1>7, <1>8, WriteReports DEF n
  <1>9. CASE Waits(op, c, f, length, k)
    BY <1>2, <1>3, <1>4, <1>5, <1>6, <1>9, WriteWaits DEF n
  <1> QED BY <1>5, <1>8, <1>9

\* A turn of the loop in write or send, or the second try of sendto, keeps the
\* bytes in order.
LEMMA WriteAfterPollBytes ==
  ASSUME HookInv, BytesInv, NEW c \in Co, WriteAfterPoll(c)
  PROVE  BytesInv'
  <1> DEFINE w == call[c]
             f == w.fd
             n == written[c][f]
  <1>1. UNCHANGED <<open, nonblock, fdVars, raw, asked>>
    BY DEF WriteAfterPoll
  <1>2. SetsOK'
    BY <1>1 DEF BytesInv, SetsOK, fdVars
  <1>3. w.op \in Writes
    BY DEF WriteAfterPoll, Writes
  <1>4. /\ f \in Fd /\ f \in open /\ f \in nonblock
        /\ w.length \in Nat /\ w.wrotelen \in Nat
    BY <1>3, WriteFacts, WaitedFor DEF HookInv
  <1>5. w.wrotelen <= w.length /\ n + w.length <= MaxSent
    BY <1>3 DEF BytesInv, WritesFit
  <1>6. Counted(c, f) = n + w.wrotelen /\ n \in Nat /\ MaxSent \in Nat
    <2>1. UnderWay(c, f) = w.wrotelen
      BY <1>3 DEF UnderWay, Writes
    <2>2. n \in Nat /\ MaxSent \in Nat
      BY <1>4, CountedFacts, HookAssumption
    <2> QED BY <2>1 , <2>2 DEF Counted
  <1>7. PICK k \in Takes(w.op, w.length - w.wrotelen) :
           /\ Accepted(c, f, n + w.wrotelen, k)
           /\ \/ k = 0 /\ Reports(c, f, w.wrotelen)
              \/ k = w.length - w.wrotelen /\ Reports(c, f, w.length)
              \/ Waits(w.op, c, f, w.length, w.wrotelen + k)
    <2>1. PICK k \in Takes(w.op, w.length - w.wrotelen) :
             /\ Accepted(c, f, n + w.wrotelen, k)
             /\ CASE k = 0 /\ f \notin nonblock ->
                       call' = [call EXCEPT ![c] = Stuck] /\ UNCHANGED written
                  [] k = 0 /\ f \in nonblock -> Reports(c, f, w.wrotelen)
                  [] k = (w.length - w.wrotelen) /\ k > 0 -> Reports(c, f, w.length)
                  [] OTHER -> Waits(w.op, c, f, w.length, w.wrotelen + k)
      BY DEF WriteAfterPoll
    <2> HIDE DEF w, n, f
    <2> QED BY <1>4, <2>1
  <1>8. w.length - w.wrotelen \in Nat
    BY <1>4, <1>5
  <1>9. k \in Nat /\ k <= w.length - w.wrotelen
    BY <1>8, TakesFacts
  <1> HIDE DEF w, n, f
  <1>10. Counted(c, f) + k = n + (w.wrotelen + k) /\ n + (w.wrotelen + k) <= MaxSent
         /\ w.wrotelen + k \in Nat /\ w.wrotelen + k <= w.length
    BY <1>4, <1>5, <1>6, <1>9
  <1>11. Accepted(c, f, Counted(c, f), k)
    BY <1>6, <1>7
  <1>12. call[c].op \in Writes => call[c].fd = f
    BY DEF f, w
  <1>13. open' = open
    BY <1>1
  <1>14. CASE k = 0 /\ Reports(c, f, w.wrotelen)
    <2>1. n + w.wrotelen = Counted(c, f) + k /\ Counted(c, f) + k <= MaxSent
      BY <1>4, <1>6, <1>10, <1>14
    <2> QED BY <1>2, <1>4, <1>9, <1>11, <1>12, <1>13, <1>14, <2>1, WriteReports DEF n
  <1>15. CASE k = w.length - w.wrotelen /\ Reports(c, f, w.length)
    <2>1. n + w.length = Counted(c, f) + k /\ Counted(c, f) + k <= MaxSent
      BY <1>4, <1>6, <1>10, <1>15
    <2> QED BY <1>2, <1>4, <1>9, <1>11, <1>12, <1>13, <1>15, <2>1, WriteReports DEF n
  <1>16. CASE Waits(w.op, c, f, w.length, w.wrotelen + k)
    BY <1>2, <1>3, <1>4, <1>5, <1>9, <1>10, <1>11, <1>12, <1>13, <1>16, WriteWaits DEF n
  <1> QED BY <1>7, <1>14, <1>15, <1>16

\* A coroutine that goes from one call that writes nothing to another.
LEMMA QuietCall ==
  ASSUME HookInv, BytesInv, UNCHANGED <<sent, written, open, nonblock, asked, fdVars, raw>>,
         NEW c \in Co, NEW after, call' = [call EXCEPT ![c] = after],
         call[c].op \notin Writes, after.op \notin Writes
  PROVE  BytesInv'
  <1>1. SetsOK'
    BY DEF BytesInv, SetsOK, fdVars
  <1>2. \A d \in Co : call'[d] = call[d] \/ (call[d].op \notin Writes /\ call'[d].op \notin Writes)
    BY DEF HookInv, FunctionsOK
  <1>3. open' \subseteq open /\ UNCHANGED <<sent, written>>
    OBVIOUS
  <1> QED BY <1>1, <1>2, <1>3, QuietStep

\* The names of the calls that write nothing.
LEMMA QuietOps ==
  /\ Idle.op \notin Writes /\ Stuck.op \notin Writes
  /\ \A f : [op |-> "read", fd |-> f].op \notin Writes
  /\ \A f, i : [op |-> "connect", fd |-> f, i |-> i].op \notin Writes
  BY DEF Idle, Stuck, Writes

\* The steps in an fd's life keep the account of its bytes.
LEMMA FdLifeBytes ==
  ASSUME HookInv, BytesInv, NEW c \in Co, NEW f \in Fd,
         \/ Socket(c, f)
         \/ AcceptFd2Attributes(c, f)
         \/ \E flag \in BOOLEAN : Fcntl(c, f, flag)
         \/ Close(c, f)
  PROVE  BytesInv'
  <1>1. CASE Socket(c, f)
    <2>1. /\ Opened(f, "idle") /\ call' = call
          /\ open' = open \cup {f} /\ asked' = asked \ {f}
          /\ nonblock' = nonblock \cup {f} /\ attributes' = attributes \cup {f}
          /\ fdFlag' = fdFlag \ {f} /\ raw' = raw
      BY <1>1 DEF Socket, Opened, SetFlags, CreateAFdAttributes
    <2>2. SetsOK'
      BY <2>1 DEF BytesInv, SetsOK
    <2> QED BY <2>1, <2>2, NewFdStep
  <1>2. CASE AcceptFd2Attributes(c, f)
    <2>1. /\ Opened(f, "up") /\ call' = call
          /\ open' = open \cup {f} /\ asked' = asked \ {f}
          /\ nonblock' = nonblock \ {f} /\ attributes' = attributes \cup {f}
          /\ fdFlag' = fdFlag /\ raw' = raw \cup {f}
      BY <1>2 DEF AcceptFd2Attributes, Opened, CreateAFdAttributes
    <2>2. SetsOK'
      BY <2>1 DEF BytesInv, SetsOK
    <2> QED BY <2>1, <2>2, NewFdStep
  <1>3. ASSUME NEW flag \in BOOLEAN, Fcntl(c, f, flag)
        PROVE  BytesInv'
    <2>1. /\ UNCHANGED <<open, sent, written, call>>
          /\ nonblock' = nonblock \cup {f} /\ attributes' = attributes \cup {f}
          /\ fdFlag' \subseteq fdFlag \cup {f} /\ raw' = raw \ {f}
          /\ asked' \subseteq asked \cup {f}
      BY <1>3 DEF Fcntl, SetFlags, CreateAFdAttributes
    <2>2. SetsOK'
      BY <2>1 DEF BytesInv, SetsOK
    <2> QED BY <2>1, <2>2, QuietStep
  <1>4. CASE Close(c, f)
    <2>1. /\ UNCHANGED <<nonblock, sent, attributes, asked, written, call>>
          /\ open' = open \ {f} /\ raw' = raw \ {f} /\ fdFlag' = fdFlag \ {f}
      BY <1>4 DEF Close, DeleteAttributes
    <2>2. SetsOK'
      BY <2>1 DEF BytesInv, SetsOK
    <2> QED BY <2>1, <2>2, QuietStep
  <1> QED BY <1>1, <1>2, <1>3, <1>4

\* So do the calls that read.
LEMMA ReadBytes ==
  ASSUME HookInv, BytesInv, NEW c \in Co, NEW f \in Fd, Read(c, f) \/ Recvfrom(c, f)
  PROVE  BytesInv'
  <1>1. /\ UNCHANGED <<sent, written, open, nonblock, asked, fdVars, raw>>
        /\ call[c] = Idle
    BY DEF Read, Recvfrom, Runs, kernelVars, userVars
  <1>2. PICK after \in {Idle, Stuck, [op |-> "read", fd |-> f]} : call' = [call EXCEPT ![c] = after]
    BY DEF Read, Recvfrom, NothingOn
  <1>3. after.op \notin Writes
    BY QuietOps
  <1> QED BY <1>1, <1>2, <1>3, QuietOps, QuietCall

\* And what a read does after its poll.
LEMMA ReadAfterPollBytes ==
  ASSUME HookInv, BytesInv, NEW c \in Co, ReadAfterPoll(c)
  PROVE  BytesInv'
  <1>1. /\ UNCHANGED <<sent, written, open, nonblock, asked, fdVars, raw>>
        /\ call[c].op \notin Writes
    BY DEF ReadAfterPoll, Writes, kernelVars, userVars
  <1>2. PICK after \in {Idle, Stuck} : call' = [call EXCEPT ![c] = after]
    BY DEF ReadAfterPoll, NothingOn
  <1>3. after.op \notin Writes
    BY QuietOps
  <1> QED BY <1>1, <1>2, <1>3, QuietCall

\* The calls that write count what the kernel accepts.
LEMMA WriteBytes ==
  ASSUME HookInv, BytesInv, NEW c \in Co, NEW f \in Fd, NEW length \in 1..MaxSent,
         Write(c, f, length) \/ Send(c, f, length) \/ Sendto(c, f, length)
  PROVE  BytesInv'
  <1>1. length \in Nat
    BY HookAssumption
  <1>2. PICK op \in Writes : \E direct : FirstWrite(op, c, f, length, direct)
    BY Zenon DEF Write, Send, Sendto, Writes
  <1>3. /\ Runs(c) /\ Usable(f) /\ Len(sent[f]) + length <= MaxSent
        /\ UNCHANGED <<open, nonblock, asked, raw, fdFlag>>
        /\ attributes' \in {attributes, attributes \cup {f}}
    BY DEF Write, Send, Sendto, fdVars, CreateAFdAttributes
  <1>4. f \in open
    BY <1>3 DEF Usable
  <1>5. SetsOK'
    BY <1>3 DEF BytesInv, SetsOK
  <1> QED BY <1>1, <1>2, <1>3, <1>4, <1>5, FirstWriteBytes

\* connect writes nothing.
LEMMA ConnectBytes ==
  ASSUME HookInv, BytesInv, NEW c \in Co, NEW f \in Fd, Connect(c, f)
  PROVE  BytesInv'
  <1>1. /\ UNCHANGED <<sent, written, open, nonblock, asked, fdVars, raw>>
        /\ call[c] = Idle
    BY DEF Connect, Runs
  <1>2. PICK after \in {Idle, Stuck, [op |-> "connect", fd |-> f, i |-> 1]} :
           call' = [call EXCEPT ![c] = after]
    BY DEF Connect, FirstConnect, ConnectAgain, Tells
  <1>3. after.op \notin Writes
    BY QuietOps
  <1> QED BY <1>1, <1>2, <1>3, QuietOps, QuietCall

\* Nor does a connect after a poll.
LEMMA ConnectAfterPollBytes ==
  ASSUME HookInv, BytesInv, NEW c \in Co, ConnectReady(c) \/ ConnectTimesOut(c)
  PROVE  BytesInv'
  <1>1. /\ UNCHANGED <<sent, written, open, nonblock, asked, fdVars, raw>>
        /\ call[c].op = "connect" /\ call[c].op \notin Writes
    BY DEF ConnectReady, ConnectTimesOut, kernelVars, Writes
  <1>2. \/ call' = [call EXCEPT ![c] = Idle]
        \/ call' = [call EXCEPT ![c] = [call[c] EXCEPT !.i = @ + 1]]
    BY DEF ConnectReady, ConnectTimesOut, Tells
  <1>3. CASE call' = [call EXCEPT ![c] = Idle]
    BY <1>1, <1>3, QuietOps, QuietCall
  <1>4. CASE call' = [call EXCEPT ![c] = [call[c] EXCEPT !.i = @ + 1]]
    <2>1. call[c] \in [op : {"connect"}, fd : Fd, i : Nat]
      BY <1>1 DEF HookInv, FunctionsOK, Calls, Idle
    <2> DEFINE after == [call[c] EXCEPT !.i = @ + 1]
    <2>2. after.op = "connect"
      BY <2>1
    <2>3. after.op \notin Writes /\ call' = [call EXCEPT ![c] = after]
      BY <1>4, <2>2 DEF Writes
    <2> HIDE DEF after
    <2> QED BY <1>1, <2>3, QuietCall
  <1> QED BY <1>2, <1>3, <1>4

\* The account of the bytes is kept by every step.
THEOREM BytesInvariance == Spec => [](HookInv /\ BytesInv)
  <1>1. Init => BytesInv
    <2> SUFFICES ASSUME Init
                 PROVE  BytesInv
      OBVIOUS
    <2>1. 0 \in 0..MaxSent
      BY HookAssumption
    <2>2. SetsOK /\ BytesOK
      BY <2>1 DEF Init, SetsOK, BytesOK
    <2>3. WritesFit
      BY DEF Init, WritesFit, Idle, Writes
    <2>4. SentIsReported
      BY DEF Init, SentIsReported
    <2> QED BY <2>2, <2>3, <2>4 DEF BytesInv
  <1>2. ASSUME HookInv, BytesInv, [Next]_vars
        PROVE  BytesInv'
    <2>1. CASE UNCHANGED vars
      <3>1. SetsOK'
        BY <1>2, <2>1 DEF vars, kernelVars, fdVars, userVars, BytesInv, SetsOK
      <3>2. /\ UNCHANGED <<sent, written>> /\ open' \subseteq open
            /\ \A d \in Co : call'[d] = call[d]
        BY <2>1 DEF vars, kernelVars, userVars
      <3> QED BY <1>2, <3>1, <3>2, QuietStep
    <2>2. ASSUME NEW c \in Co, NEW f \in Fd,
                 \/ Socket(c, f)
                 \/ AcceptFd2Attributes(c, f)
                 \/ \E flag \in BOOLEAN : Fcntl(c, f, flag)
                 \/ Close(c, f)
                 \/ Read(c, f)
                 \/ Recv(c, f)
                 \/ Recvfrom(c, f)
                 \/ \E length \in 1..MaxSent :
                       Write(c, f, length) \/ Send(c, f, length) \/ Sendto(c, f, length)
                 \/ Connect(c, f)
          PROVE  BytesInv'
      BY <1>2, <2>2, FdLifeBytes, ReadBytes, WriteBytes, ConnectBytes DEF Recv
    <2>3. ASSUME NEW c \in Co,
                 \/ ReadAfterPoll(c)
                 \/ WriteAfterPoll(c)
                 \/ ConnectReady(c)
                 \/ ConnectTimesOut(c)
          PROVE  BytesInv'
      BY <1>2, <2>3, ReadAfterPollBytes, WriteAfterPollBytes, ConnectAfterPollBytes
    <2>4. ASSUME NEW f \in Fd, Answer(f)
          PROVE  BytesInv'
      <3>1. SetsOK'
        BY <1>2, <2>4 DEF Answer, fdVars, userVars, BytesInv, SetsOK
      <3>2. /\ UNCHANGED <<sent, written>> /\ open' \subseteq open
            /\ \A d \in Co : call'[d] = call[d]
        BY <2>4 DEF Answer, userVars
      <3> QED BY <1>2, <3>1, <3>2, QuietStep
    <2> QED BY <1>2, <2>1, <2>2, <2>3, <2>4 DEF Next
  <1> QED BY <1>1, <1>2, HookInvariance, PTL DEF Spec

\* What the kernel has accepted from a coroutine through an fd is what its calls
\* have reported and what the one under way will: in order, once, however many
\* polls it took and whoever wrote in between.
THEOREM WritesAreReported == Spec => []SentIsReported
  <1>1. BytesInv => SentIsReported
    BY DEF BytesInv
  <1> QED BY <1>1, BytesInvariance, PTL

\* The types of the fds, their flags and attributes, and of the calls.
THEOREM HookTypeCorrect == Spec => []TypeOK
  <1>1. HookInv /\ BytesInv => TypeOK
    <2> SUFFICES ASSUME HookInv, BytesInv
                 PROVE  TypeOK
      OBVIOUS
    <2>1. \A f \in Fd : sent[f] \in Seq(Co \X (1..MaxSent))
      BY DEF BytesInv, BytesOK, Byte
    <2>2. ASSUME NEW c \in Co
          PROVE  call[c].op \in {"none", "stuck", "read", "write", "send", "sendto", "connect"}
      BY DEF HookInv, FunctionsOK, Calls, Idle
    <2>3. written \in [Co -> [Fd -> 0..MaxSent]]
      BY DEF BytesInv, BytesOK
    <2>4. /\ conn \in [Fd -> {"idle", "connecting", "up", "refused"}]
          /\ told \in [Fd -> {"nothing", "success", "failure"}]
      BY DEF HookInv, FunctionsOK
    <2> QED BY <2>1, <2>2, <2>3, <2>4 DEF TypeOK, BytesInv, SetsOK
  <1> QED BY <1>1, BytesInvariance, PTL

=============================================================================
