---------------------------- MODULE Task6Server -----------------------------
(***************************************************************************)
(* The server of Task6Lib (Task6Server.cpp): its constructor, which        *)
(* connects the pipe instances and starts the worker threads, the loop of  *)
(* the workers (WorkerThreadProc), and stopAndWait.  The workers share one *)
(* completion port and drive the pipe server through it.                   *)
(*                                                                         *)
(* The pipe server is module InPipeServer, whose operators are used here:  *)
(* a step of a thread inside it is a step of that module, so this          *)
(* specification implements it (PipeServerSpec).  wpc[w] is where worker w *)
(* is in its own loop, while pc[w] is where it is inside a method of the   *)
(* pipe server.  The branch of the loop for shared memory is in module     *)
(* SharedMemory, the log in module MessageLog.                             *)
(***************************************************************************)
EXTENDS InPipeServer, FiniteSets

CONSTANTS
    Workers,           \* the threads of workerThreads
    Main,              \* the thread that constructs and stops the server
    MaxClients,        \* TASK6_PIPE_SERVER_MAX_CLIENTS
    AssertsEnabled,    \* built with assertions (Debug)?
    MaxWaitObjects     \* MAXIMUM_WAIT_OBJECTS of WaitForMultipleObjects

(* The instances are numbered as in the code.  Here shared memory posts no *)
(* packet, and nobody calls disconnectInstance.                            *)
ASSUME ServerAssumption ==
    /\ Main \notin Workers
    /\ IsFiniteSet(Workers)
    /\ Threads = Workers \cup {Main}
    /\ MaxClients \in Nat \ {0}
    /\ Pipes = 0 .. MaxClients - 1
    /\ ForeignKeys = {"shutdown"}
    /\ MaxSessions = 0
    /\ AssertsEnabled \in BOOLEAN
    /\ MaxWaitObjects \in Nat

VARIABLES
    phase,             \* what Main does
    next,              \* the instance the constructor connects next
    started,           \* workerThreads: the workers created
    posted,            \* shutdown packets stopAndWait has posted
    shutdownEvent,     \* hShutdownEvent
    pipeServer,        \* the InPipeServer object: "live" or "destroyed"
    wpc,               \* wpc[w]: where worker w is in its loop
    handled            \* history: handled[i], messages given to
                       \* handleClientMessg from instance i

mainVars == <<phase, next, started, posted, shutdownEvent, pipeServer>>
Task6Vars == <<vars, mainVars, wpc, handled>>

Task6Init ==
    /\ Init
    /\ phase = "connecting"
    /\ next = 0
    /\ started = {}
    /\ posted = 0
    /\ shutdownEvent = FALSE
    /\ pipeServer = "live"
    /\ wpc = [w \in Workers |-> "unstarted"]
    /\ handled = [i \in Pipes |-> << >>]

-----------------------------------------------------------------------------
(* The constructor.                                                        *)

\* connectInstance throws out of the constructor: the members built so far
\* are destroyed, and there is no server.
ConstructorThrows ==
    /\ phase' = "failed"
    /\ pipeServer' = "destroyed"
    /\ UNCHANGED <<next, started, posted, shutdownEvent>>

BeginConnecting ==
    /\ phase = "connecting"
    /\ \/ ConnectInstance(Main, next) /\ UNCHANGED mainVars
       \/ ConnectRefused(Main, next) /\ ConstructorThrows
    /\ UNCHANGED <<wpc, handled>>

\* A faulty version: one instance too many.
OneInstanceMore == MaxClients + 1

Instances == MaxClients

\* After the last instance, the event is created and the threads follow.
EndConnecting ==
    /\ phase = "connecting"
    /\ FinishConnect(Main, next)
    /\ next' = next + 1
    /\ phase' = IF next + 1 < Instances THEN "connecting" ELSE "creating"
    /\ UNCHANGED <<started, posted, shutdownEvent, pipeServer, wpc, handled>>

CreateWorker ==
    /\ phase = "creating"
    /\ \E w \in Workers \ started :
         /\ started' = started \cup {w}
         /\ wpc' = [wpc EXCEPT ![w] = "wait"]
    /\ phase' = IF started' = Workers THEN "running" ELSE "creating"
    /\ UNCHANGED <<vars, next, posted, shutdownEvent, pipeServer, handled>>

\* CreateThread fails: stopAndWait, and then the constructor throws.  With no
\* thread created stopAndWait returns at once; both set the event.
CreateThreadFails ==
    /\ phase = "creating"
    /\ shutdownEvent' = TRUE
    /\ IF started = {} THEN phase' = "failed" /\ pipeServer' = "destroyed"
                       ELSE phase' = "posting" /\ UNCHANGED pipeServer
    /\ UNCHANGED <<vars, next, started, posted, wpc, handled>>

-----------------------------------------------------------------------------
(* stopAndWait.                                                            *)

\* The console calls stopAndWait on a running server: SetEvent.
StopAndWait ==
    /\ phase = "running"
    /\ shutdownEvent' = TRUE
    /\ phase' = "posting"
    /\ UNCHANGED <<vars, next, started, posted, pipeServer, wpc, handled>>

\* A faulty version: one packet too few.
AllButOne(n) == n + 1 >= Cardinality(started)

AllPosted(n) == n = Cardinality(started)

\* PostQueuedCompletionStatus, once for every worker.
PostShutdown ==
    /\ phase = "posting"
    /\ PostForeign("shutdown")
    /\ posted' = posted + 1
    /\ phase' = IF AllPosted(posted') THEN "joining" ELSE "posting"
    /\ UNCHANGED <<next, started, shutdownEvent, pipeServer, wpc, handled>>

AllExited == \A w \in started : wpc[w] = "exited"

\* pipeServer = nullptr.  Closing its handles also completes what is pending,
\* with packets that could only wake a worker earlier.
DestroyPipeServer ==
    /\ phase' = "stopped"
    /\ pipeServer' = "destroyed"

\* WaitForMultipleObjects returns because every worker has exited.
Join ==
    /\ phase = "joining"
    /\ AllExited
    /\ Cardinality(started) <= MaxWaitObjects
    /\ DestroyPipeServer
    /\ UNCHANGED <<vars, next, started, posted, shutdownEvent, wpc, handled>>

\* It fails because there are too many handles, or because 500 ms have
\* passed: only the assertion looks at its result.
JoinFails ==
    /\ phase = "joining"
    /\ ~AllExited \/ Cardinality(started) > MaxWaitObjects
    /\ IF AssertsEnabled THEN phase' = "aborted" /\ UNCHANGED pipeServer
                         ELSE DestroyPipeServer
    /\ UNCHANGED <<vars, next, started, posted, shutdownEvent, wpc, handled>>

-----------------------------------------------------------------------------
(* WorkerThreadProc.                                                       *)

Goto(w, label) == wpc' = [wpc EXCEPT ![w] = label]

\* GetQueuedCompletionStatus.
Dequeue(w) ==
    /\ wpc[w] = "wait"
    /\ GetPacket(w)
    /\ Goto(w, "check")
    /\ UNCHANGED <<mainVars, handled>>

\* A faulty version: the packet is taken for serviced.
DropPacket(w) ==
    /\ pc' = [pc EXCEPT ![w] = "idle"]
    /\ UNCHANGED <<state, critSec, osVars, packet, result, session>>

KeepPacket(w) == UNCHANGED vars

\* A shutdown packet, or any packet once the event is set, ends the worker.
Check(w) ==
    /\ wpc[w] = "check"
    /\ Goto(w, IF packet[w].key = "shutdown" \/ shutdownEvent THEN "exited"
                                                              ELSE "service")
    /\ KeepPacket(w)
    /\ UNCHANGED <<mainVars, handled>>

\* A faulty version: a failed read is not told apart.
ReceivedAnyhow(r) == r.operation = "read" /\ ~r.zombie

\* Only a live, successful read carries a message.
Received(r) == r.operation = "read" /\ r.err = "ok" /\ ~r.zombie

\* A faulty version: only a message is followed by another read.
AfterServiceOfMessage(w) ==
    IF Received(result'[w]) THEN "handle" ELSE "wait"

AfterService(w) ==
    IF result'[w] = NoResult THEN "wait"      \* the exception is caught
    ELSE IF Received(result'[w]) THEN "handle" ELSE "rearm"

CallService(w) ==
    /\ wpc[w] = "service"
    /\ pipeServer = "live"
    /\ Service(w)
    /\ Goto(w, AfterService(w))
    /\ UNCHANGED <<mainVars, handled>>

\* Faulty versions: no read follows; the worker does not let go.
NoRead == "wait"
NotLeft == "rearm"

AfterHandle == "rearm"
AfterRearm == "wait"

\* The message in the instance's buffer is handled.
Handle(w) ==
    /\ wpc[w] = "handle"
    /\ LET i == result[w].pipe IN
         handled' = [handled EXCEPT ![i] = Append(@, buffer[i])]
    /\ Goto(w, AfterHandle)
    /\ UNCHANGED <<vars, mainVars>>

\* The next operation on the instance.  The exception of a refused call is
\* caught by the loop, and the worker goes on with the next packet.
Begins(w, i) ==
    IF result[w].newState = UNCONNECTED THEN ConnectInstance(w, i)
                                          ELSE ReadInstance(w, i)

Refuses(w, i) ==
    IF result[w].newState = UNCONNECTED THEN ConnectRefused(w, i)
                                          ELSE ReadRefused(w, i)

Rearm(w) ==
    /\ wpc[w] = "rearm"
    /\ pipeServer = "live"
    /\ \/ Begins(w, result[w].pipe) /\ Goto(w, "rearming")
       \/ Refuses(w, result[w].pipe) /\ Goto(w, "wait")
    /\ UNCHANGED <<mainVars, handled>>

EndRearm(w) ==
    /\ wpc[w] = "rearming"
    /\ pipeServer = "live"
    /\ IF result[w].newState = UNCONNECTED
       THEN FinishConnect(w, result[w].pipe)
       ELSE FinishRead(w, result[w].pipe)
    /\ Goto(w, AfterRearm)
    /\ UNCHANGED <<mainVars, handled>>

Worker(w) ==
    Dequeue(w) \/ Check(w) \/ CallService(w) \/ Handle(w) \/ Rearm(w) \/ EndRearm(w)

-----------------------------------------------------------------------------
\* The clients, while the pipe exists.
Clients ==
    /\ pipeServer = "live"
    /\ \E i \in Pipes : PeerOpen(i) \/ PeerWrite(i) \/ PeerClose(i)
    /\ UNCHANGED <<mainVars, wpc, handled>>

Construct == BeginConnecting \/ EndConnecting \/ CreateWorker

\* The process is over, or has no server.
Terminated ==
    /\ phase \in {"stopped", "failed", "aborted"}
    /\ UNCHANGED Task6Vars

Task6Next ==
    \/ Construct
    \/ CreateThreadFails
    \/ StopAndWait
    \/ PostShutdown
    \/ Join
    \/ JoinFails
    \/ \E w \in Workers : Worker(w)
    \/ Clients
    \/ Terminated

Task6Spec == Task6Init /\ [][Task6Next]_Task6Vars

(* Running threads are scheduled.  Nothing is assumed of the clients, of   *)
(* the operator who stops the server, or of the time-out.                  *)
Task6Fairness ==
    /\ WF_Task6Vars(Construct)
    /\ WF_Task6Vars(PostShutdown)
    /\ WF_Task6Vars(Join)
    /\ \A w \in Workers : WF_Task6Vars(Worker(w))

Task6FairSpec == Task6Spec /\ Task6Fairness

-----------------------------------------------------------------------------
(* Type correctness.                                                       *)
Task6TypeOK ==
    /\ TypeOK
    /\ phase \in {"connecting", "creating", "running", "posting", "joining",
                  "stopped", "failed", "aborted"}
    /\ next \in 0 .. MaxClients
    /\ phase = "connecting" => next \in Pipes
    /\ started \subseteq Workers
    /\ posted \in Nat
    /\ shutdownEvent \in BOOLEAN
    /\ pipeServer \in {"live", "destroyed"}
    /\ wpc \in [Workers -> {"unstarted", "wait", "check", "service", "handle",
                            "rearm", "rearming", "exited"}]
    /\ handled \in [Pipes -> Seq(Nat)]

(* The workers use the pipe server as it is meant to be used: whatever     *)
(* they and stopAndWait do is a behaviour of module InPipeServer, so what  *)
(* is proved of that module holds here.                                    *)
PipeServerSpec == Spec

(* Whatever the interleaving of the workers, the messages of an instance   *)
(* are handled in the order they were written, none twice, none skipped,   *)
(* none overwritten in the instance's buffer before it is handled.         *)
DeliveredInOrder ==
    \A i \in Pipes : handled[i] = [n \in 1 .. Len(handled[i]) |-> n]

Box(i) == INSTANCE Mailbox WITH
            Items <- 1 .. MaxMsgs, Capacity <- MaxMsgs,
            written <- [n \in 1 .. sent[i] |-> n], received <- handled[i]

(* Every instance is a mailbox: what its clients write is handled in that  *)
(* order and once, each message by a step of its own and after it was      *)
(* written, whichever workers take its packets.  None is overwritten in    *)
(* the buffer before it is handled (Task6Server.cpp:73).                   *)
InstancesAreMailboxes ==
    /\ \A i \in Pipes : Box(i)!Init
    /\ [][\A i \in Pipes : \/ Box(i)!Write \/ Box(i)!Receive
                          \/ UNCHANGED <<sent[i], handled[i]>>]_<<sent, handled>>

\* Worker w has the result of service for instance i, and has yet to give
\* the instance its next operation.
Attends(w, i) ==
    wpc[w] \in {"handle", "rearm", "rearming"} /\ result[w].pipe = i

\* What the worker loop relies on between its steps (the part of the
\* inductive invariant that is not the pipe server's).  No worker runs while
\* the constructor connects; an instance that a worker attends to has the
\* state service returned, and no method inside but that worker's; and no two
\* workers attend to the same instance.
AttendedAlone(w) ==
    LET i == result[w].pipe IN
    /\ i \in Pipes
    /\ state[i] = result[w].newState
    /\ state[i] \in {UNCONNECTED, CONNECTED}
    /\ critSec[i] = IF wpc[w] = "rearming" THEN w ELSE NoThread
    /\ \A v \in Workers : Attends(v, i) => v = w

Attendance ==
    /\ phase = "connecting" => \A w \in Workers : wpc[w] = "unstarted"
    /\ \A w \in Workers :
         wpc[w] \in {"handle", "rearm", "rearming"} => AttendedAlone(w)

\* A connect that found its client there and was not queued.
ConnectedUnseen(i) ==
    /\ state[i] = UnconnectedConnecting /\ npfs[i] # "listening"
    /\ ~Outstanding(i)

(* At most one worker attends to an instance, and then the kernel has no   *)
(* operation on it: nobody writes the buffer that worker is reading.       *)
OneAttendant ==
    \A i \in Pipes : \A v, w \in Workers :
        Attends(v, i) /\ Attends(w, i) =>
            v = w /\ (wpc[w] # "rearming" => ~Outstanding(i))

Served(i) == Outstanding(i) \/ \E w \in Workers : Attends(w, i)

(* While its client is there, an instance of a running server is served:   *)
(* it has an operation outstanding or a worker that is about to issue one. *)
ConnectedIsServed ==
    phase = "running" =>
        \A i \in Pipes :
            npfs[i] = "connected" => Served(i) \/ ConnectedUnseen(i)

(* Task6Server.cpp:66: a pipe that is unconnected, or connected but not    *)
(* receiving, is connected or begins receiving.  So every instance of a    *)
(* running server is served, whatever its client did.                      *)
EveryPipeIsServed == phase = "running" => \A i \in Pipes : Served(i)

\* stopAndWait gave up in Release, and the next thing worker w does is done to
\* the pipe server that is gone: it takes no step here, what it does is undefined.
CutOff(w) ==
    pipeServer = "destroyed" /\ wpc[w] \in {"service", "rearm", "rearming"}

Ended(w) == wpc[w] = "exited" \/ CutOff(w)

\* Nothing holds worker w up: neither an empty port, nor an instance's lock,
\* nor the state that a step of the loop expects.
CanGo(w) ==
    \/ wpc[w] = "wait" /\ pc[w] = "idle" /\ iocp # << >>
    \/ wpc[w] = "check" /\ pc[w] = "got"
    \/ wpc[w] = "handle"
    \/ /\ wpc[w] = "service" /\ pipeServer = "live"
       /\ pc[w] = "got" /\ packet[w].key = "pipe"
       /\ critSec[packet[w].pipe] = NoThread
    \/ wpc[w] = "rearm" /\ pipeServer = "live" /\ CanEnter(w, result[w].pipe)
    \/ wpc[w] = "rearming" /\ pipeServer = "live" /\ critSec[result[w].pipe] = w

(* stopAndWait posts one packet for every thread (Task6Server.cpp:184),    *)
(* but workers also take clients' packets, end with any of them once the   *)
(* event is set, and lock each other out of instances.  While it waits and *)
(* a worker still runs, one of them can go on: the wait is no deadlock.    *)
(* Nor does its time-out (Task6Server.cpp:193) leave a worker asleep in a  *)
(* build without assertions: those that do not need the pipe server go on. *)
JoinNeverStuck ==
    phase \in {"joining", "stopped"} =>
        (\A w \in started : Ended(w)) \/ (\E w \in started : CanGo(w))

(* A message that was written is handled, unless the server is stopped or  *)
(* was never built, or the client came before ConnectNamedPipe and its     *)
(* connection was never seen.                                              *)
MessageHandled ==
    \A i \in Pipes : \A n \in 1 .. MaxMsgs :
        sent[i] >= n ~> \/ Len(handled[i]) >= n
                        \/ shutdownEvent \/ phase = "failed"
                        \/ ConnectedUnseen(i)

(* Once stopAndWait is called, every worker exits and it returns.          *)
ShutdownCompletes ==
    shutdownEvent ~> phase \in {"stopped", "failed", "aborted"}

(* Once the event is set every worker that was created ends, also those    *)
(* that the time-out of stopAndWait leaves behind (Task6Server.cpp:193)    *)
(* and those of a constructor that failed half-way (Task6Server.cpp:160).  *)
(* The exceptions are a failed assertion, which ends the process, and a    *)
(* worker that needs the pipe server after the time-out has destroyed it.  *)
WorkersEnd ==
    shutdownEvent ~> phase = "aborted" \/ \A w \in started : Ended(w)
=============================================================================
