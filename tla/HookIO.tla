------------------------------ MODULE HookIO -------------------------------
(***************************************************************************)
(* The hooked system calls of coroutines: a call on an fd that the program *)
(* takes for blocking becomes a wait in the event loop and calls on an fd  *)
(* that the kernel takes for non-blocking.                                 *)
(*                                                                         *)
(* A coroutine gives up control only in poll, so a step is what a call     *)
(* does up to its next poll.  A poll ends with an event or with its        *)
(* timeout, whenever it likes (EventLoop says how).  The kernel accepts    *)
(* any part of what it is given, or nothing.                               *)
(*                                                                         *)
(* The program creates, configures and closes its fds in hooked            *)
(* coroutines, sets the flags of an accepted fd before it uses it (as      *)
(* example/echoServer.cpp does), and closes or connects no fd that another *)
(* coroutine is using.  It does not write back what F_GETFL returned: that *)
(* is the kernel's flags.                                                  *)
(***************************************************************************)
EXTENDS ListOps, SequencesExt

CONSTANTS Co, Fd,
          RetransmissionTries, \* polls of a connect (5 in the code)
          MaxSent              \* bound: bytes sent through one fd

ASSUME HookAssumption == RetransmissionTries \in Nat \ {0} /\ MaxSent \in Nat

VARIABLES
    open,      \* the open fds
    nonblock,  \* those with O_NONBLOCK in the kernel
    conn,      \* fd -> state of its connection
    sent,      \* fd -> the bytes the kernel has accepted: <<writer, number>>
    attributes,\* the fds f with Fd2Attributes[f] # nullptr
    fdFlag,    \* those with O_NONBLOCK in their FdAttributes' fdFlag
    raw,       \* accepted fds whose flags the program has yet to set
    asked,     \* the fds for which the program asked for O_NONBLOCK
    written,   \* coroutine, fd -> bytes its calls have reported as written
    told,      \* fd -> what the last connect reported
    call       \* coroutine -> the hooked call it waits in

kernelVars == <<open, nonblock, conn, sent>>
fdVars == <<attributes, fdFlag>>
userVars == <<raw, asked, written, told>>
vars == <<kernelVars, fdVars, userVars, call>>

Idle == [op |-> "none"]
Stuck == [op |-> "stuck"]  \* in the kernel, and with it the whole thread

Init ==
    /\ open = {}
    /\ nonblock = {}
    /\ conn = [f \in Fd |-> "idle"]
    /\ sent = [f \in Fd |-> <<>>]
    /\ attributes = {}
    /\ fdFlag = {}
    /\ raw = {}
    /\ asked = {}
    /\ written = [c \in Co |-> [f \in Fd |-> 0]]
    /\ told = [f \in Fd |-> "nothing"]
    /\ call = [c \in Co |-> Idle]

Runs(c) == call[c] = Idle

InUse(f) == \E c \in Co : call[c] \notin {Idle, Stuck} /\ call[c].fd = f

Usable(f) == f \in open \ raw

-----------------------------------------------------------------------------
(* Life and flags of an fd *)

\* The kernel hands out the number of a closed fd again.
Opened(f, state) ==
    /\ f \notin open
    /\ open' = open \cup {f}
    /\ conn' = [conn EXCEPT ![f] = state]
    /\ sent' = [sent EXCEPT ![f] = <<>>]
    /\ asked' = asked \ {f}
    /\ written' = [c \in Co |-> [written[c] EXCEPT ![f] = 0]]
    /\ told' = [told EXCEPT ![f] = "nothing"]

\* Mutant of CreateAFdAttributes: the new object is not stored in the table.
CreateAFdAttributesUnstored(f) == UNCHANGED attributes

\* FdAttributes are made once for an fd number, and found again.
CreateAFdAttributes(f) == attributes' = attributes \cup {f}

\* Mutant of SetFlags: the program's flags go to the kernel as they are.
SetFlagsAsGiven(f, flag) ==
    /\ CreateAFdAttributes(f)
    /\ nonblock' = IF flag THEN nonblock \cup {f} ELSE nonblock \ {f}
    /\ fdFlag' = IF flag THEN fdFlag \cup {f} ELSE fdFlag \ {f}

\* fcntl(F_SETFL): the kernel gets O_NONBLOCK, the attributes what was asked.
SetFlags(f, flag) ==
    /\ CreateAFdAttributes(f)
    /\ nonblock' = nonblock \cup {f}
    /\ fdFlag' = IF flag THEN fdFlag \cup {f} ELSE fdFlag \ {f}

Socket(c, f) ==
    /\ Runs(c)
    /\ Opened(f, "idle")
    /\ SetFlags(f, FALSE)
    /\ UNCHANGED <<raw, call>>

AcceptFd2Attributes(c, f) ==
    /\ Runs(c)
    /\ Opened(f, "up")
    /\ CreateAFdAttributes(f)
    /\ nonblock' = nonblock \ {f}
    /\ raw' = raw \cup {f}
    /\ UNCHANGED <<fdFlag, call>>

\* The program sets its flags, with or without O_NONBLOCK.
Fcntl(c, f, flag) ==
    /\ Runs(c)
    /\ f \in open
    /\ SetFlags(f, flag)
    /\ raw' = raw \ {f}
    /\ asked' = IF flag THEN asked \cup {f} ELSE asked \ {f}
    /\ UNCHANGED <<open, conn, sent, written, told, call>>

\* Mutant of DeleteAttributes: fdFlag is not cleared.
DeleteAttributesKeepsFlag(f) == UNCHANGED fdFlag

DeleteAttributes(f) == fdFlag' = fdFlag \ {f}

Close(c, f) ==
    /\ Runs(c)
    /\ f \in open
    /\ ~InUse(f)
    /\ DeleteAttributes(f)
    /\ open' = open \ {f}
    /\ raw' = raw \ {f}
    /\ UNCHANGED <<nonblock, conn, sent, attributes, asked, written, told, call>>

-----------------------------------------------------------------------------
(* Calls that transfer data *)

\* The hooked call goes straight to the kernel.
Direct(f) == f \notin attributes \/ f \in fdFlag

\* A kernel call that has nothing to transfer: EAGAIN, or the thread sleeps.
NothingOn(f) == IF f \in nonblock THEN Idle ELSE Stuck

\* A poll, whatever comes of it, then the kernel's read.
Read(c, f) ==
    /\ Runs(c)
    /\ Usable(f)
    /\ \E after \in IF Direct(f) THEN {Idle, NothingOn(f)} ELSE {[op |-> "read", fd |-> f]} :
          call' = [call EXCEPT ![c] = after]
    /\ UNCHANGED <<kernelVars, fdVars, userVars>>

\* recv polls for POLLOUT, so that its poll says nothing of what there is to read.
Recv(c, f) == Read(c, f)

\* recvfrom reads first, and then once more after a poll, whatever it has read.
Recvfrom(c, f) ==
    /\ Runs(c)
    /\ Usable(f)
    /\ \E after \in {NothingOn(f), IF Direct(f) THEN Idle ELSE [op |-> "read", fd |-> f]} :
          /\ after = Idle => Direct(f)
          /\ call' = [call EXCEPT ![c] = after]
    /\ UNCHANGED <<kernelVars, fdVars, userVars>>

ReadAfterPoll(c) ==
    /\ call[c].op = "read"
    /\ \E after \in {Idle, NothingOn(call[c].fd)} : call' = [call EXCEPT ![c] = after]
    /\ UNCHANGED <<kernelVars, fdVars, userVars>>

\* The kernel accepts the bytes from + 1 .. from + k of c.
Accepted(c, f, from, k) ==
    sent' = [sent EXCEPT ![f] = @ \o [i \in 1..k |-> <<c, from + i>>]]

\* The call reports n bytes.
Reports(c, f, n) ==
    /\ written' = [written EXCEPT ![c][f] = @ + n]
    /\ call' = [call EXCEPT ![c] = Idle]

Waits(op, c, f, length, wrotelen) ==
    /\ call' = [call EXCEPT ![c] = [op |-> op, fd |-> f, length |-> length,
                                    wrotelen |-> wrotelen]]
    /\ UNCHANGED written

\* What the kernel may take of n bytes: a datagram goes whole or not at all.
Takes(op, n) == IF op = "sendto" THEN {0, n} ELSE 0..n

\* The first write of a hooked call.  write returns when it fails; send tries
\* again after a poll, unless the kernel has returned 0; sendto tries once more
\* if the kernel has refused the datagram for now.
FirstWrite(op, c, f, length, direct) ==
    \E k \in Takes(op, length) :
        /\ Accepted(c, f, written[c][f], k)
        /\ \/ /\ k \in {0, length} \/ direct
              /\ k > 0 \/ f \in nonblock
              /\ Reports(c, f, k)
           \/ /\ k < length /\ ~direct
              /\ k > 0 \/ (op # "write" /\ f \in nonblock)
              /\ Waits(op, c, f, length, k)
           \/ /\ k = 0 /\ f \notin nonblock
              /\ call' = [call EXCEPT ![c] = Stuck]
              /\ UNCHANGED written

\* write makes the attributes before it looks at them.
Write(c, f, length) ==
    /\ Runs(c)
    /\ Usable(f)
    /\ Len(sent[f]) + length <= MaxSent
    /\ CreateAFdAttributes(f)
    /\ FirstWrite("write", c, f, length, f \in fdFlag)
    /\ UNCHANGED <<open, nonblock, conn, fdFlag, raw, asked, told>>

Send(c, f, length) ==
    /\ Runs(c)
    /\ Usable(f)
    /\ Len(sent[f]) + length <= MaxSent
    /\ FirstWrite("send", c, f, length, Direct(f))
    /\ UNCHANGED <<open, nonblock, conn, fdVars, raw, asked, told>>

Sendto(c, f, length) ==
    /\ Runs(c)
    /\ Usable(f)
    /\ Len(sent[f]) + length <= MaxSent
    /\ FirstWrite("sendto", c, f, length, Direct(f))
    /\ UNCHANGED <<open, nonblock, conn, fdVars, raw, asked, told>>

\* Mutant of WriteAfterPoll: when the kernel accepts no more the call fails,
\* and what had been accepted is not reported.
WriteAfterPollFails(c) ==
    /\ call[c].op \in {"write", "send", "sendto"}
    /\ LET w == call[c]
           rest == w.length - w.wrotelen
       IN  \E k \in Takes(w.op, rest) :
              /\ Accepted(c, w.fd, written[c][w.fd] + w.wrotelen, k)
              /\ CASE k = 0 -> Reports(c, w.fd, 0)
                   [] k = rest -> Reports(c, w.fd, w.length)
                   [] OTHER -> Waits(w.op, c, w.fd, w.length, w.wrotelen + k)
    /\ UNCHANGED <<open, nonblock, conn, fdVars, raw, asked, told>>

\* A turn of the loop in write or send, or the second try of sendto.
WriteAfterPoll(c) ==
    /\ call[c].op \in {"write", "send", "sendto"}
    /\ LET w == call[c]
           rest == w.length - w.wrotelen
       IN  \E k \in Takes(w.op, rest) :
              /\ Accepted(c, w.fd, written[c][w.fd] + w.wrotelen, k)
              /\ CASE k = 0 /\ w.fd \notin nonblock ->
                         call' = [call EXCEPT ![c] = Stuck] /\ UNCHANGED written
                   [] k = 0 /\ w.fd \in nonblock -> Reports(c, w.fd, w.wrotelen)
                   [] k = rest /\ k > 0 -> Reports(c, w.fd, w.length)
                   [] OTHER -> Waits(w.op, c, w.fd, w.length, w.wrotelen + k)
    /\ UNCHANGED <<open, nonblock, conn, fdVars, raw, asked, told>>

-----------------------------------------------------------------------------
(* connect *)

Tells(c, f, answer) ==
    /\ told' = [told EXCEPT ![f] = answer]
    /\ call' = [call EXCEPT ![c] = Idle]

\* The kernel's connect succeeds, fails, or is under way (EINPROGRESS).
FirstConnect(c, f) ==
    /\ conn[f] \in {"idle", "refused"}
    /\ \/ conn' = [conn EXCEPT ![f] = "up"] /\ Tells(c, f, "success")
       \/ UNCHANGED conn /\ Tells(c, f, "failure")
       \/ /\ conn' = [conn EXCEPT ![f] = "connecting"]
          /\ CASE f \notin nonblock ->
                    call' = [call EXCEPT ![c] = Stuck] /\ UNCHANGED told
               [] f \in nonblock /\ Direct(f) -> Tells(c, f, "failure")
               [] OTHER -> /\ call' = [call EXCEPT ![c] = [op |-> "connect", fd |-> f, i |-> 1]]
                           /\ told' = [told EXCEPT ![f] = "nothing"]

\* A connection under way or made: EALREADY or EISCONN, for which connect does
\* not wait, or 0 if it has been made meanwhile.
ConnectAgain(c, f) ==
    /\ conn[f] \in {"connecting", "up"}
    /\ \/ Tells(c, f, "failure")
       \/ conn[f] = "up" /\ Tells(c, f, "success")
       \/ /\ conn[f] = "connecting" /\ f \notin nonblock
          /\ call' = [call EXCEPT ![c] = Stuck] /\ UNCHANGED told
    /\ UNCHANGED conn

Connect(c, f) ==
    /\ Runs(c)
    /\ Usable(f)
    /\ ~InUse(f)
    /\ FirstConnect(c, f) \/ ConnectAgain(c, f)
    /\ UNCHANGED <<open, nonblock, sent, fdVars, raw, asked, written>>

\* The peer answers.
Answer(f) ==
    /\ conn[f] = "connecting"
    /\ \E state \in {"up", "refused"} : conn' = [conn EXCEPT ![f] = state]
    /\ UNCHANGED <<open, nonblock, sent, fdVars, userVars, call>>

\* Mutant of SoError: writable is taken for connected.
SoErrorIgnored(f) == FALSE

\* getsockopt(SO_ERROR)
SoError(f) == conn[f] = "refused"

\* The poll reports POLLOUT, which a refused connection has too.
ConnectReady(c) ==
    /\ call[c].op = "connect"
    /\ conn[call[c].fd] # "connecting"
    /\ Tells(c, call[c].fd, IF SoError(call[c].fd) THEN "failure" ELSE "success")
    /\ UNCHANGED <<kernelVars, fdVars, raw, asked, written>>

\* The poll times out.  After the last one revents, which Co_poll_inner copies
\* from an array it has not initialised, may show POLLOUT all the same.
ConnectTimesOut(c) ==
    /\ call[c].op = "connect"
    /\ IF call[c].i < RetransmissionTries
       THEN call' = [call EXCEPT ![c].i = @ + 1] /\ UNCHANGED told
       ELSE \E pollout \in BOOLEAN :
               Tells(c, call[c].fd, IF pollout /\ ~SoError(call[c].fd)
                                    THEN "success" ELSE "failure")
    /\ UNCHANGED <<kernelVars, fdVars, raw, asked, written>>

-----------------------------------------------------------------------------

Next ==
    \/ \E c \in Co, f \in Fd :
          \/ Socket(c, f)
          \/ AcceptFd2Attributes(c, f)
          \/ \E flag \in BOOLEAN : Fcntl(c, f, flag)
          \/ Close(c, f)
          \/ Read(c, f)
          \/ Recv(c, f)
          \/ Recvfrom(c, f)
          \/ \E length \in 1..MaxSent :
                Write(c, f, length) \/ Send(c, f, length) \/ Sendto(c, f, length)
          \/ Connect(c, f)
    \/ \E c \in Co :
          \/ ReadAfterPoll(c)
          \/ WriteAfterPoll(c)
          \/ ConnectReady(c)
          \/ ConnectTimesOut(c)
    \/ \E f \in Fd : Answer(f)

Spec == Init /\ [][Next]_vars

-----------------------------------------------------------------------------
(* Properties *)

TypeOK ==
    /\ open \subseteq Fd
    /\ nonblock \subseteq Fd
    /\ conn \in [Fd -> {"idle", "connecting", "up", "refused"}]
    /\ \A f \in Fd : sent[f] \in Seq(Co \X (1..MaxSent))
    /\ attributes \subseteq Fd
    /\ fdFlag \subseteq attributes
    /\ raw \subseteq open
    /\ asked \subseteq Fd
    /\ written \in [Co -> [Fd -> 0..MaxSent]]
    /\ told \in [Fd -> {"nothing", "success", "failure"}]
    /\ \A c \in Co : call[c].op \in {"none", "stuck", "read", "write", "send", "sendto", "connect"}

\* No hooked call sleeps in the kernel's read, write or connect, where no
\* timeout would wake the thread and its coroutines, whatever came of the call's
\* poll and whatever the fd's number was used for before.
NeverStuck == \A c \in Co : call[c] # Stuck

\* An fd whose user wants it blocking is treated as blocking: no flag set for
\* an earlier fd of that number, nor one the library itself set, turns its calls
\* into calls that fail with EAGAIN.
NonBlockOnlyIfAsked == open \cap fdFlag \subseteq asked

\* The bytes of c that the kernel has accepted through f.
AcceptedFrom(c, f) == Excluding(sent[f], (Co \ {c}) \X Nat)

\* How many of them a call of c that waits for f has not yet reported.
UnderWay(c, f) ==
    IF call[c].op \in {"write", "send", "sendto"} /\ call[c].fd = f
    THEN call[c].wrotelen ELSE 0

\* What the kernel has accepted from a coroutine is what its calls have
\* reported and what the call under way will report, in order and once, however
\* many polls it took and whoever writes in between.
SentIsReported ==
    \A c \in Co, f \in open :
        AcceptedFrom(c, f) = [i \in 1..(written[c][f] + UnderWay(c, f)) |-> <<c, i>>]

\* connect never reports success for a connection the peer has refused, though
\* the poll reports it as writable.
RefusalIsReported ==
    [][\A f \in Fd : told'[f] = "success" /\ told[f] # "success" => conn'[f] # "refused"]_vars

=============================================================================
