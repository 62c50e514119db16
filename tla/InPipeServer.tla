---------------------------- MODULE InPipeServer ----------------------------
(***************************************************************************)
(* The pipe server of Task6Lib (InPipeServer.cpp, PipeState.h): a set of   *)
(* named-pipe instances whose connects and reads are overlapped operations *)
(* that complete on an I/O completion port shared with other sources.      *)
(*                                                                         *)
(* Every instance has ONE OVERLAPPED structure for both connecting and     *)
(* reading, a state made of flags, and a CRITICAL_SECTION that every       *)
(* method holds.  A method is two steps here: the first takes the lock,    *)
(* checks the state and makes the Windows call; the second assigns the     *)
(* state and leaves the lock.  Clients, the kernel and threads on other    *)
(* instances run in between.  A method that throws before it changes       *)
(* anything is not a step (the operators named ...Refused say when).       *)
(*                                                                         *)
(* The kernel side of a pipe, the completion port and the clients are      *)
(* external: they are modelled from the way the code uses them.  The i-th  *)
(* message written to an instance is the number i.                         *)
(***************************************************************************)
EXTENDS Naturals, Sequences

CONSTANTS
    Pipes,             \* the instances (InPipeServer::pipes)
    Threads,           \* the threads that call the methods
    NoThread,          \* owner of a free CRITICAL_SECTION
    NoPipe,            \* instance of a packet that is not from a pipe
    ForeignKeys,       \* completion keys of the other users of the port
    EarlyConnectPosts, \* may ERROR_PIPE_CONNECTED come with a packet?
    MaxMsgs,           \* bound: messages written to an instance
    MaxSessions,       \* bound: disconnections of an instance
    MaxPort            \* bound: packets queued when a foreign one is posted

ASSUME PipeAssumption ==
    /\ NoThread \notin Threads
    /\ NoPipe \notin Pipes
    /\ "pipe" \notin ForeignKeys
    /\ EarlyConnectPosts \subseteq BOOLEAN
    /\ MaxMsgs \in Nat /\ MaxSessions \in Nat /\ MaxPort \in Nat

VARIABLES
    state,    \* state[i]: the flags of PipeInstance::state
    critSec,  \* critSec[i]: the thread inside the CRITICAL_SECTION
    npfs,     \* npfs[i]: the kernel's state of the pipe end
    pending,  \* pending[i]: the operation in the kernel on the OVERLAPPED
    sent,     \* sent[i]: messages the clients have written
    taken,    \* taken[i]: messages that left the pipe (read or discarded)
    buffer,   \* buffer[i]: the message last stored in the read buffer
    iocp,     \* the completion port's queue
    pc,       \* pc[t]: where thread t is
    packet,   \* packet[t]: the packet t has dequeued
    result,   \* result[t]: the AsyncResult of t's last call of service
    session   \* history: how many times an instance was disconnected

vars == <<state, critSec, npfs, pending, sent, taken, buffer, iocp, pc,
          packet, result, session>>
osVars     == <<npfs, pending, sent, taken, buffer, iocp>>
threadVars == <<pc, packet, result>>

-----------------------------------------------------------------------------
(* Data: the flags of PipeState.h (UNCONNECTED is 0, the empty set;        *)
(* FLAG_WRITING is never set by this server), packets and results.         *)

UNCONNECTED == {}
CONNECTED == {"CONNECTED"}
OperationFlags == {"CONNECTING", "READING"}
Flags == {"CONNECTED", "DISCONNECTING"} \cup OperationFlags

UnconnectedConnecting   == {"CONNECTING"}
ConnectedReading        == {"CONNECTED", "READING"}
DisconnectingConnecting == {"DISCONNECTING", "CONNECTING"}
DisconnectingReading    == {"DISCONNECTING", "READING"}

Errors == {"ok", "aborted", "broken", "disconnected"}

PipePackets == [key : {"pipe"}, pipe : Pipes, kind : {"connect", "read"},
                err : Errors, session : Nat]

Completion(i, kind, err) ==
    [key |-> "pipe", pipe |-> i, kind |-> kind, err |-> err,
     session |-> session[i]]

Foreign(k) ==
    [key |-> k, pipe |-> NoPipe, kind |-> "none", err |-> "ok", session |-> 0]

NoPacket == Foreign("none")

Packets == PipePackets \cup {Foreign(k) : k \in ForeignKeys}

Results == [pipe : Pipes \cup {NoPipe}, operation : {"none", "connect", "read"},
            err : Errors, newState : SUBSET Flags, zombie : BOOLEAN]

NoResult == [pipe |-> NoPipe, operation |-> "none", err |-> "ok",
             newState |-> UNCONNECTED, zombie |-> FALSE]

-----------------------------------------------------------------------------
(* Every instance is created listening and unconnected; no operation has   *)
(* been issued.  A client may open it before ConnectNamedPipe is called.   *)
Init ==
    /\ state = [i \in Pipes |-> UNCONNECTED]
    /\ critSec = [i \in Pipes |-> NoThread]
    /\ npfs = [i \in Pipes |-> "listening"]
    /\ pending = [i \in Pipes |-> "none"]
    /\ sent = [i \in Pipes |-> 0]
    /\ taken = [i \in Pipes |-> 0]
    /\ buffer = [i \in Pipes |-> 0]
    /\ iocp = << >>
    /\ pc = [t \in Threads |-> "idle"]
    /\ packet = [t \in Threads |-> NoPacket]
    /\ result = [t \in Threads |-> NoResult]
    /\ session = [i \in Pipes |-> 0]

-----------------------------------------------------------------------------
(* The critical section.                                                   *)

\* A faulty version: the lock is not waited for.
CanBargeIn(t, i) == pc[t] = "idle"

CanEnter(t, i) == pc[t] = "idle" /\ critSec[i] = NoThread

Enter(t, i, label) ==
    /\ critSec' = [critSec EXCEPT ![i] = t]
    /\ pc' = [pc EXCEPT ![t] = label]
    /\ UNCHANGED <<packet, result, state, session>>

Leave(t, i, label) ==
    /\ critSec[i] = t /\ pc[t] = label
    /\ critSec' = [critSec EXCEPT ![i] = NoThread]
    /\ pc' = [pc EXCEPT ![t] = "idle"]
    /\ UNCHANGED <<packet, result>>

Post(p) == iocp' = Append(iocp, p)

\* The kernel completes the operation of that kind, if it is pending.
Complete(i, kind, err) ==
    IF pending[i] = kind
    THEN /\ pending' = [pending EXCEPT ![i] = "none"]
         /\ Post(Completion(i, kind, err))
    ELSE UNCHANGED <<pending, iocp>>

-----------------------------------------------------------------------------
(* connectInstance                                                         *)

ConnectAllowed(i) == state[i] = UNCONNECTED

\* The call throws and changes nothing: wrong state, or ConnectNamedPipe
\* fails with ERROR_NO_DATA because a client opened the pipe and closed it.
ConnectRefused(t, i) ==
    /\ CanEnter(t, i)
    /\ ~ConnectAllowed(i) \/ npfs[i] = "closing"
    /\ UNCHANGED vars

\* ConnectNamedPipe: ERROR_IO_PENDING, or ERROR_PIPE_CONNECTED when a client
\* is already there.  The code takes both for a success.
ConnectNamedPipe(i) ==
    \/ /\ npfs[i] \in {"listening", "disconnected"}
       /\ npfs' = [npfs EXCEPT ![i] = "listening"]
       /\ pending' = [pending EXCEPT ![i] = "connect"]
       /\ iocp' = iocp
    \/ /\ npfs[i] = "connected"
       /\ \E posts \in EarlyConnectPosts :
            IF posts THEN Post(Completion(i, "connect", "ok"))
                     ELSE iocp' = iocp
       /\ UNCHANGED <<npfs, pending>>

ConnectInstance(t, i) ==
    /\ CanEnter(t, i)
    /\ ConnectAllowed(i)
    /\ ConnectNamedPipe(i)
    /\ Enter(t, i, "connecting")
    /\ UNCHANGED <<sent, taken, buffer>>

\* A faulty version: the state is not set.
Unchanged(flags) == flags

Connecting(flags) == UnconnectedConnecting

FinishConnect(t, i) ==
    /\ Leave(t, i, "connecting")
    /\ state' = [state EXCEPT ![i] = Connecting(@)]
    /\ UNCHANGED <<osVars, session>>

-----------------------------------------------------------------------------
(* readInstance                                                            *)

ReadAllowed(i) == "CONNECTED" \in state[i] /\ "READING" \notin state[i]

\* The call throws and changes nothing: wrong state, or ReadFile fails
\* because the client is gone and everything it wrote has been read.
ReadRefused(t, i) ==
    /\ CanEnter(t, i)
    /\ ~ReadAllowed(i) \/ (taken[i] = sent[i] /\ npfs[i] # "connected")
    /\ UNCHANGED vars

\* ReadFile: a message that is already in the pipe is read at once and its
\* completion is queued all the same; otherwise the read stays pending.
ReadFile(i) ==
    \/ /\ taken[i] < sent[i]
       /\ taken' = [taken EXCEPT ![i] = @ + 1]
       /\ buffer' = [buffer EXCEPT ![i] = taken[i] + 1]
       /\ Post(Completion(i, "read", "ok"))
       /\ pending' = pending
    \/ /\ taken[i] = sent[i] /\ npfs[i] = "connected"
       /\ pending' = [pending EXCEPT ![i] = "read"]
       /\ UNCHANGED <<taken, buffer, iocp>>

ReadInstance(t, i) ==
    /\ CanEnter(t, i)
    /\ ReadAllowed(i)
    /\ ReadFile(i)
    /\ Enter(t, i, "reading")
    /\ UNCHANGED <<npfs, sent>>

\* A faulty version: the wrong flag is set.
Writing(flags) == flags \cup {"WRITING"}

Reading(flags) == flags \cup {"READING"}

FinishRead(t, i) ==
    /\ Leave(t, i, "reading")
    /\ state' = [state EXCEPT ![i] = Reading(@)]
    /\ UNCHANGED <<osVars, session>>

-----------------------------------------------------------------------------
(* disconnectInstance                                                      *)

\* DisconnectNamedPipe: unread data is discarded, a pending read completes
\* with an error.
DisconnectNamedPipe(i) ==
    /\ npfs' = [npfs EXCEPT ![i] = "disconnected"]
    /\ taken' = [taken EXCEPT ![i] = sent[i]]
    /\ Complete(i, "read", "disconnected")
    /\ UNCHANGED <<sent, buffer>>

\* CancelIoEx on the pending connect: it is aborted, or the client that is
\* opening the pipe wins and it completes all the same.  If the connect has
\* completed already CancelIoEx fails (ERROR_NOT_FOUND) and the method throws.
CancelIoEx(i) ==
    /\ pending[i] = "connect"
    /\ \/ /\ Complete(i, "connect", "aborted")
          /\ npfs' = npfs
       \/ /\ Complete(i, "connect", "ok")
          /\ npfs' = [npfs EXCEPT ![i] = "connected"]
    /\ UNCHANGED <<sent, taken, buffer>>

DisconnectInstance(t, i) ==
    /\ CanEnter(t, i)
    /\ session[i] < MaxSessions
    /\ \/ "CONNECTED" \in state[i] /\ DisconnectNamedPipe(i)
       \/ state[i] = UnconnectedConnecting /\ CancelIoEx(i)
    /\ Enter(t, i, "disconnecting")

\* A faulty version: the operations still in the port are forgotten.
DisconnectedAtOnce(flags) == UNCONNECTED

\* What is left of the state: the operations still to be serviced.
Disconnected(flags) ==
    IF flags \cap OperationFlags = {}
    THEN UNCONNECTED
    ELSE {"DISCONNECTING"} \cup (flags \cap OperationFlags)

FinishDisconnect(t, i) ==
    /\ Leave(t, i, "disconnecting")
    /\ state' = [state EXCEPT ![i] = Disconnected(@)]
    /\ session' = [session EXCEPT ![i] = @ + 1]
    /\ UNCHANGED osVars

-----------------------------------------------------------------------------
(* service, and the dequeuing that precedes it                             *)

\* GetQueuedCompletionStatus: the packet leaves the port's queue.
GetPacket(t) ==
    /\ pc[t] = "idle"
    /\ iocp # << >>
    /\ packet' = [packet EXCEPT ![t] = Head(iocp)]
    /\ result' = [result EXCEPT ![t] = NoResult]
    /\ iocp' = Tail(iocp)
    /\ pc' = [pc EXCEPT ![t] = "got"]
    /\ UNCHANGED <<state, critSec, npfs, pending, sent, taken, buffer,
                   session>>

\* The packet is from another source: its completion key says so.
Discard(t) ==
    /\ pc[t] = "got"
    /\ packet[t].key # "pipe"
    /\ pc' = [pc EXCEPT ![t] = "idle"]
    /\ packet' = [packet EXCEPT ![t] = NoPacket]
    /\ UNCHANGED <<state, critSec, osVars, result, session>>

\* A faulty version: a zombie leaves the state as it was.
ZombieStays(old, new, zombie) == IF zombie THEN old ELSE new

Becomes(old, new, zombie) == new

\* service returns: the new state, and the result with the operation named op.
Serviced(t, i, new, op, zombie) ==
    /\ state' = [state EXCEPT ![i] = Becomes(@, new, zombie)]
    /\ result' = [result EXCEPT ![t] =
                    [pipe |-> i, operation |-> op, err |-> packet[t].err,
                     newState |-> new, zombie |-> zombie]]
    /\ UNCHANGED osVars

\* service throws "Cannot disconnect pipe.": the connect to cancel had
\* succeeded, so the pipe is disconnected, and the state is left as it was.
ServiceThrows(i) ==
    /\ DisconnectNamedPipe(i)
    /\ UNCHANGED <<state, result>>

InvalidState(i) ==
    state[i] \notin {UnconnectedConnecting, ConnectedReading,
                     DisconnectingConnecting, DisconnectingReading}

ServiceCases(t, i) ==
    \/ /\ state[i] = UnconnectedConnecting
       /\ Serviced(t, i, CONNECTED, "connect", FALSE)
    \/ /\ state[i] = ConnectedReading
       /\ Serviced(t, i, CONNECTED, "read", FALSE)
    \/ /\ state[i] = DisconnectingConnecting
       /\ IF packet[t].err = "ok" THEN ServiceThrows(i)
          ELSE Serviced(t, i, UNCONNECTED, "read", TRUE)
    \/ /\ state[i] = DisconnectingReading
       /\ Serviced(t, i, UNCONNECTED, "read", TRUE)
    \/ /\ InvalidState(i)
       /\ UNCHANGED <<state, result, osVars>>

\* The lock is taken and left within the step.
Service(t) ==
    /\ pc[t] = "got"
    /\ packet[t].key = "pipe"
    /\ critSec[packet[t].pipe] = NoThread
    /\ ServiceCases(t, packet[t].pipe)
    /\ pc' = [pc EXCEPT ![t] = "idle"]
    /\ packet' = [packet EXCEPT ![t] = NoPacket]
    /\ UNCHANGED <<critSec, session>>

-----------------------------------------------------------------------------
(* The environment: the clients, the kernel and the port's other users.    *)

\* A client opens the pipe (CreateFile): a pending connect completes.
PeerOpen(i) ==
    /\ npfs[i] = "listening"
    /\ npfs' = [npfs EXCEPT ![i] = "connected"]
    /\ Complete(i, "connect", "ok")
    /\ UNCHANGED <<state, critSec, sent, taken, buffer, threadVars, session>>

\* The client writes a message: a pending read takes it at once.
PeerWrite(i) ==
    /\ npfs[i] = "connected"
    /\ sent[i] < MaxMsgs
    /\ sent' = [sent EXCEPT ![i] = @ + 1]
    /\ Complete(i, "read", "ok")
    /\ IF pending[i] = "read"
       THEN /\ taken' = [taken EXCEPT ![i] = sent[i] + 1]
            /\ buffer' = [buffer EXCEPT ![i] = sent[i] + 1]
       ELSE UNCHANGED <<taken, buffer>>
    /\ UNCHANGED <<state, critSec, npfs, threadVars, session>>

\* The client closes its end, or dies: a pending read fails, and the data
\* already written can still be read.
PeerClose(i) ==
    /\ npfs[i] = "connected"
    /\ npfs' = [npfs EXCEPT ![i] = "closing"]
    /\ Complete(i, "read", "broken")
    /\ UNCHANGED <<state, critSec, sent, taken, buffer, threadVars, session>>

\* Another user of the port posts a packet with its own completion key.
PostForeign(k) ==
    /\ Len(iocp) < MaxPort
    /\ Post(Foreign(k))
    /\ UNCHANGED <<state, critSec, npfs, pending, sent, taken, buffer,
                   threadVars, session>>

-----------------------------------------------------------------------------
Calls(t) ==
    \/ \E i \in Pipes : \/ ConnectInstance(t, i)
                        \/ ReadInstance(t, i)
                        \/ DisconnectInstance(t, i)
                        \/ FinishConnect(t, i)
                        \/ FinishRead(t, i)
                        \/ FinishDisconnect(t, i)
    \/ GetPacket(t)
    \/ Discard(t)
    \/ Service(t)

Environment ==
    \/ \E i \in Pipes : PeerOpen(i) \/ PeerWrite(i) \/ PeerClose(i)
    \/ \E k \in ForeignKeys : PostForeign(k)

Next == (\E t \in Threads : Calls(t)) \/ Environment

Spec == Init /\ [][Next]_vars

(* A thread inside a method finishes it; packets are dequeued and serviced *)
(* as the users of the server must do (InPipeServer.h:12-14).              *)
Fairness ==
    \A t \in Threads :
        /\ WF_vars(\E i \in Pipes : \/ FinishConnect(t, i)
                                   \/ FinishRead(t, i)
                                   \/ FinishDisconnect(t, i))
        /\ WF_vars(GetPacket(t))
        /\ WF_vars(Discard(t) \/ Service(t))

FairSpec == Spec /\ Fairness

-----------------------------------------------------------------------------
(* Type correctness: every variable has the shape its comment gives.       *)
ServerType ==
    /\ state \in [Pipes -> SUBSET Flags]
    /\ critSec \in [Pipes -> Threads \cup {NoThread}]
    /\ session \in [Pipes -> Nat]

KernelType ==
    /\ npfs \in [Pipes -> {"listening", "connected", "closing",
                           "disconnected"}]
    /\ pending \in [Pipes -> {"none", "connect", "read"}]
    /\ sent \in [Pipes -> Nat]
    /\ taken \in [Pipes -> Nat]
    /\ buffer \in [Pipes -> Nat]

PortType == iocp \in Seq(Packets)

ThreadType ==
    /\ pc \in [Threads -> {"idle", "connecting", "reading", "disconnecting",
                           "got"}]
    /\ packet \in [Threads -> Packets \cup {NoPacket}]
    /\ \A t \in Threads : pc[t] = "got" => packet[t] \in Packets
    /\ result \in [Threads -> Results]

TypeOK == ServerType /\ KernelType /\ PortType /\ ThreadType

(* Where an operation on instance i's OVERLAPPED may be: in the kernel, in *)
(* the queue, or dequeued and not yet given to service.                    *)
Queued(i) == {n \in DOMAIN iocp : iocp[n].pipe = i}
Holding(i) == {t \in Threads : pc[t] = "got" /\ packet[t].pipe = i}

Outstanding(i) == pending[i] # "none" \/ Queued(i) # {} \/ Holding(i) # {}

(* The operation that instance i's flags, or the method inside its lock,   *)
(* say is under way.                                                       *)
Doing(i, label) == critSec[i] # NoThread /\ pc[critSec[i]] = label

UnderWay(i) ==
    IF "CONNECTING" \in state[i] \/ Doing(i, "connecting") THEN "connect"
    ELSE IF "READING" \in state[i] \/ Doing(i, "reading") THEN "read"
    ELSE "none"

(* The inductive invariant.  A lock is owned by a thread inside a method,  *)
(* and a thread is inside one method only.                                 *)
LockInv ==
    /\ \A i \in Pipes : critSec[i] # NoThread =>
         pc[critSec[i]] \in {"connecting", "reading", "disconnecting"}
    /\ \A i, j \in Pipes :
         critSec[i] = critSec[j] /\ critSec[i] # NoThread => i = j

(* An instance has one of six states, the one its method has checked while *)
(* a method is inside, and no operation in the kernel once disconnected.   *)
StateInv(i) ==
    /\ state[i] \in {UNCONNECTED, UnconnectedConnecting, CONNECTED,
                     ConnectedReading, DisconnectingConnecting,
                     DisconnectingReading}
    /\ Doing(i, "connecting") => state[i] = UNCONNECTED
    /\ Doing(i, "reading") => state[i] = CONNECTED
    /\ Doing(i, "disconnecting") =>
         /\ state[i] \in {CONNECTED, ConnectedReading, UnconnectedConnecting}
         /\ pending[i] = "none"
    /\ "DISCONNECTING" \in state[i] => pending[i] = "none"

(* At most one operation of an instance is outstanding.                    *)
OneOperation(i) ==
    /\ pending[i] # "none" => Queued(i) = {} /\ Holding(i) = {}
    /\ Queued(i) = {} \/ Holding(i) = {}
    /\ \A m, n \in Queued(i) : m = n
    /\ \A t, u \in Holding(i) : t = u

(* It is the one under way, and its session is the instance's unless the   *)
(* instance is disconnecting.                                              *)
Fits(i, p) ==
    /\ p.kind = UnderWay(i)
    /\ p.session = session[i] <=> "DISCONNECTING" \notin state[i]

OperationFits(i) ==
    /\ pending[i] \in {"none", UnderWay(i)}
    /\ \A n \in Queued(i) : Fits(i, iocp[n])
    /\ \A t \in Holding(i) : Fits(i, packet[t])
    /\ UnderWay(i) = "read" => Outstanding(i)

PipeInv(i) == StateInv(i) /\ OneOperation(i) /\ OperationFits(i)

Inv == LockInv /\ \A i \in Pipes : PipeInv(i)

\* A thread with a packet has no result yet.
FreshResult == \A t \in Threads : pc[t] = "got" => result[t] = NoResult

(* The design rule of the ghost-operation note ("Operatii Fantoma ...",     *)
(* solution 2): whenever connectInstance or readInstance would issue an    *)
(* operation on an instance, no earlier operation on the same OVERLAPPED   *)
(* is outstanding, neither pending, nor queued, nor dequeued but not yet   *)
(* serviced.                                                               *)
OverlappedFree ==
    \A i \in Pipes :
        critSec[i] = NoThread /\ (ConnectAllowed(i) \/ ReadAllowed(i))
            => ~Outstanding(i)

(* A pipe whose state says READING has exactly one read under way, in the  *)
(* kernel, queued or dequeued: no read is lost, and none is doubled.       *)
ReadIsOutstanding ==
    \A i \in Pipes :
        "READING" \in state[i] =>
            \/ pending[i] = "read" /\ Queued(i) = {} /\ Holding(i) = {}
            \/ /\ pending[i] = "none" /\ Holding(i) = {}
               /\ \E n \in DOMAIN iocp : Queued(i) = {n} /\ iocp[n].kind = "read"
            \/ /\ pending[i] = "none" /\ Queued(i) = {}
               /\ \E t \in Threads : Holding(i) = {t} /\ packet[t].kind = "read"

(* service never finds an instance in a state it has no case for: its      *)
(* "Invalid pipe state." exception is unreachable.                         *)
ServiceNeverInvalid ==
    \A t \in Threads :
        /\ pc[t] = "got" /\ packet[t].key = "pipe"
        /\ critSec[packet[t].pipe] = NoThread
        => ~InvalidState(packet[t].pipe)

(* service tells ghosts from live operations: it reports a zombie exactly  *)
(* when the instance was disconnected after the operation was issued, and  *)
(* for a live operation it names the right one.                            *)
ZombieExact ==
    [][\A t \in Threads : Service(t) /\ result'[t] # NoResult =>
         LET p == packet[t] IN
           /\ result'[t].zombie <=> p.session # session[p.pipe]
           /\ ~result'[t].zombie => result'[t].operation = p.kind]_vars

(* A read that was under way when its pipe was disconnected is drained:    *)
(* the pipe becomes unconnected and can be connected again.                *)
ReadDrains ==
    \A i \in Pipes : state[i] = DisconnectingReading ~> state[i] = UNCONNECTED

(* "Pipe Server-Client.txt":12: a disconnected pipe with operations left   *)
(* is marked as closing until they are passed to service, then it is       *)
(* marked as unconnected.  So a closing pipe has an operation outstanding. *)
ClosingHasOperation ==
    \A i \in Pipes : "DISCONNECTING" \in state[i] => Outstanding(i)

=============================================================================
