----------------------------- MODULE ServerLife -----------------------------
(***************************************************************************)
(* The life of a Task6Server in its process: ServerConsole::run, which     *)
(* constructs it, shows its log, asks the operator and stops it; the       *)
(* threads it owns (the workers, and the waiter of the shared-memory       *)
(* server); and its destruction, member after member, which the threads    *)
(* must not outlive.  The log is module MessageLog: the workers push, the  *)
(* console pops.                                                           *)
(*                                                                         *)
(* What a worker does with a packet is in modules Task6Server and          *)
(* SharedMemory; here it is the members that it touches, in which order,   *)
(* and the messages that it logs.  A thread that is about to touch a       *)
(* member that is gone takes no step: what it would do is undefined.       *)
(***************************************************************************)
EXTENDS MessageLog

CONSTANTS
    Main,             \* the thread of the console
    AssertsEnabled,   \* built with assertions (Debug)?
    MaxTraffic        \* bound: what clients send

ASSUME LifeAssumption ==
    /\ Poppers = {Main}
    /\ AssertsEnabled \in BOOLEAN
    /\ MaxTraffic \in Nat

VARIABLES
    phase,          \* what the console does
    threw,          \* run has thrown, with the server running
    gaveUp,         \* history: the threads a wait gave up on, unasserted
    live,           \* Members[1 .. live] exist
    pipeServer,     \* does the member pipeServer point to an object?
    shutdownEvent,  \* hShutdownEvent
    posted,         \* shutdown packets still to be posted
    port,           \* the packets in the completion port
    wpc, key,       \* wpc[w]: where worker w is; key[w]: its packet
    waiter,         \* where the waiter thread is
    waiterEvent,    \* hShutdownEvent of the shared-memory server
    svToCl, clToSv, \* its two events
    traffic         \* how much clients have sent

console == <<phase, threw, gaveUp, live, pipeServer, shutdownEvent, posted>>
workers == <<wpc, key>>
memServer == <<waiter, waiterEvent, svToCl, clToSv, traffic>>
lifeVars == <<vars, console, port, workers, memServer>>

(* The members of Task6Server, in the order of their declaration.          *)
\* A faulty version: the port is declared after the server that posts to it.
MembersReordered ==
    << "pipeServer", "sharedMemServer", "workerThreads", "pipeSvBuffers",
       "sharedMemoryBuffer", "shMemBufferCS", "log", "logCS", "hLogSem",
       "hCompPort", "hShutdownEvent" >>

Members == << "hCompPort", "pipeServer", "sharedMemServer", "workerThreads",
              "pipeSvBuffers", "sharedMemoryBuffer", "shMemBufferCS", "log",
              "logCS", "hLogSem", "hShutdownEvent" >>

Alive == {Members[k] : k \in 1 .. live}
         \ (IF pipeServer THEN {} ELSE {"pipeServer"})

(* What pushMessg touches, and the places of a worker from which it calls  *)
(* pushMessg, with the place where it goes on.                             *)
TheLog == {"log", "logCS", "hLogSem"}

AfterPush == [starting |-> "wait", serviced |-> "rearm", done |-> "wait",
              read |-> "message", message |-> "rearm",
              received |-> "getData", ending |-> "exited"]

(* What a worker is about to touch, by its place.                          *)
Touches(place) ==
    CASE place = "message"            -> TheLog \cup {"pipeSvBuffers"}
      [] place \in DOMAIN AfterPush \ {"message"} -> TheLog
      [] place = "wait"               -> {"hCompPort"}
      [] place = "check"              -> {"hShutdownEvent"}
      [] place \in {"service", "rearm"} -> {"pipeServer", "pipeSvBuffers"}
      [] place = "getData"            -> {"shMemBufferCS", "sharedMemoryBuffer",
                                          "sharedMemServer"}
      [] OTHER                        -> {}

Started == {w \in Pushers : wpc[w] # "unstarted"}
Running == {w \in Started : wpc[w] # "exited"}

\* The constructor is about to create the worker threads.
LifeInit ==
    /\ Init
    /\ phase = "creating"
    /\ threw = FALSE
    /\ gaveUp = {}
    /\ live = Len(Members)
    /\ pipeServer = TRUE
    /\ shutdownEvent = FALSE
    /\ posted = 0
    /\ port = << >>
    /\ wpc = [w \in Pushers |-> "unstarted"]
    /\ key = [w \in Pushers |-> "none"]
    /\ waiter = "wait"
    /\ waiterEvent = FALSE
    /\ svToCl = TRUE
    /\ clToSv = FALSE
    /\ traffic = 0

-----------------------------------------------------------------------------
(* The console, and stopAndWait.                                           *)

Become(from, to) == phase = from /\ phase' = to

CreateWorker ==
    /\ \E w \in Pushers \ Started : wpc' = [wpc EXCEPT ![w] = "starting"]
    /\ Become("creating", IF Cardinality(Pushers \ Started) = 1 THEN "showing"
                                                                 ELSE "creating")
    /\ UNCHANGED <<vars, threw, gaveUp, live, pipeServer, shutdownEvent, posted, port,
                   key, memServer>>

\* SetEvent, and one packet for every thread.  With no thread it returns.
StopAndWait ==
    /\ shutdownEvent' = TRUE
    /\ posted' = Cardinality(Started)
    /\ phase' = IF Started = {} THEN "destroying" ELSE "posting"
    /\ UNCHANGED <<vars, threw, gaveUp, live, pipeServer, port, workers, memServer>>

\* CreateThread fails: the constructor stops what runs, and throws.
CreateThreadFails == phase = "creating" /\ StopAndWait

\* popMessg in a loop, until nothing comes or ten seconds have passed: at
\* least once, and it does not time out while there is a message.
ShowMessage ==
    /\ phase \in {"showing", "shown"}
    /\ PopMessg(Main)
    /\ phase' = IF pc'[Main] = "idle" THEN "shown" ELSE phase
    /\ UNCHANGED <<threw, gaveUp, live, pipeServer, shutdownEvent, posted, port,
                   workers, memServer>>

Ask ==
    /\ pc[Main] = "idle"
    /\ \/ Become("showing", "asking") /\ logSem = 0
       \/ Become("shown", "asking")
    /\ UNCHANGED <<vars, threw, gaveUp, live, pipeServer, shutdownEvent, posted, port,
                   workers, memServer>>

\* The operator's command: '1', '0', or an invalid one, which throws out of
\* run and destroys the server as it is.
Continue ==
    /\ Become("asking", "showing")
    /\ UNCHANGED <<vars, threw, gaveUp, live, pipeServer, shutdownEvent, posted, port,
                   workers, memServer>>

Stop == phase = "asking" /\ StopAndWait

InvalidCommand ==
    /\ Become("asking", "destroying")
    /\ threw' = TRUE
    /\ UNCHANGED <<vars, gaveUp, live, pipeServer, shutdownEvent, posted, port,
                   workers, memServer>>

\* A faulty version: one packet too many.
OnePacketMore == posted = 0

LastPacket == posted = 1

PostShutdown ==
    /\ Become("posting", IF LastPacket THEN "joining" ELSE "posting")
    /\ posted' = posted - 1
    /\ port' = Append(port, "shutdown")
    /\ UNCHANGED <<vars, threw, gaveUp, live, pipeServer, shutdownEvent, workers,
                   memServer>>

\* A wait that timed out is only looked at by an assertion.
Waited(ended, thread, to) ==
    /\ phase' = IF ~ended /\ AssertsEnabled THEN "aborted" ELSE to
    /\ gaveUp' = IF ended \/ AssertsEnabled THEN gaveUp ELSE gaveUp \cup {thread}

Join(ended) ==
    /\ phase = "joining"
    /\ ended <=> Running = {}
    /\ Waited(ended, "workers", "destroying")
    /\ pipeServer' = (phase' = "aborted")
    /\ UNCHANGED <<vars, threw, live, shutdownEvent, posted, port, workers,
                   memServer>>

-----------------------------------------------------------------------------
(* The destructor: the members go in the reverse order of declaration.     *)

AtMemServer == live > 0 /\ Members[live] = "sharedMemServer"

DestroyMember ==
    /\ Become("destroying", IF live = 1 THEN "ended" ELSE "destroying")
    /\ ~AtMemServer
    /\ live' = live - 1
    /\ UNCHANGED <<vars, threw, gaveUp, pipeServer, shutdownEvent, posted, port,
                   workers, memServer>>

\* A faulty version: the waiter is not told.
TellNobody == UNCHANGED waiterEvent

TellWaiter == waiterEvent' = TRUE

\* ~InSharedMemoryServer: it tells the waiter thread to end, waits 250 ms for
\* it, and then its own members go.
StopWaiter ==
    /\ AtMemServer
    /\ Become("destroying", "waiterJoin")
    /\ TellWaiter
    /\ UNCHANGED <<vars, threw, gaveUp, live, pipeServer, shutdownEvent, posted, port,
                   workers, waiter, svToCl, clToSv, traffic>>

JoinWaiter(ended) ==
    /\ phase = "waiterJoin"
    /\ ended <=> waiter = "ended"
    /\ Waited(ended, "waiter", "destroying")
    /\ live' = IF phase' = "aborted" THEN live ELSE live - 1
    /\ UNCHANGED <<vars, threw, pipeServer, shutdownEvent, posted, port,
                   workers, memServer>>

-----------------------------------------------------------------------------
(* The threads.  The process is theirs until it aborts.                    *)

Runs(w, place) ==
    /\ phase # "aborted"
    /\ wpc[w] = place
    /\ Touches(place) \subseteq Alive

Goes(w, place) == wpc' = [wpc EXCEPT ![w] = place]

\* pushMessg, at the places that call it.
Logs(w) ==
    /\ wpc[w] \in DOMAIN AfterPush
    /\ Runs(w, wpc[w])
    /\ Push(w)
    /\ wpc' = IF pc'[w] = "idle" THEN [wpc EXCEPT ![w] = AfterPush[@]] ELSE wpc
    /\ UNCHANGED <<console, port, key, memServer>>

Dequeue(w) ==
    /\ Runs(w, "wait")
    /\ port # << >>
    /\ key' = [key EXCEPT ![w] = Head(port)]
    /\ port' = Tail(port)
    /\ Goes(w, "check")
    /\ UNCHANGED <<vars, console, memServer>>

Check(w) ==
    /\ Runs(w, "check")
    /\ Goes(w, IF key[w] = "shutdown" \/ shutdownEvent THEN "ending"
               ELSE IF key[w] = "memory" THEN "received" ELSE "service")
    /\ UNCHANGED <<vars, console, port, key, memServer>>

\* service and its message (and the client's, if it was a read); then
\* connectInstance or readInstance if the state asks for it, and its message.
\* Both may throw: then there is the message of the exception.
UsePipeServer(w) ==
    /\ \/ Runs(w, "service") /\ \E next \in {"serviced", "read", "done"} : Goes(w, next)
       \/ Runs(w, "rearm") /\ \E next \in {"wait", "done"} : Goes(w, next)
    /\ UNCHANGED <<vars, console, port, key, memServer>>

\* It throws when the memory cannot be mapped, and the client is not told.
GetData(w) ==
    /\ Runs(w, "getData")
    /\ \/ svToCl' = TRUE /\ Goes(w, "wait")
       \/ svToCl' = svToCl /\ Goes(w, "done")
    /\ UNCHANGED <<vars, console, port, key, waiter, waiterEvent, clToSv, traffic>>

Worker(w) == Logs(w) \/ Dequeue(w) \/ Check(w) \/ UsePipeServer(w) \/ GetData(w)

\* Or the text fills the memory, and strcpy_s ends the process.
CopyOverflows(w) ==
    /\ Runs(w, "getData")
    /\ phase' = "aborted"
    /\ UNCHANGED <<vars, threw, gaveUp, live, pipeServer, shutdownEvent, posted, port,
                   workers, memServer>>

WaiterTouches == CASE waiter = "wait" -> {"sharedMemServer"}
                   [] waiter = "post" -> {"sharedMemServer", "hCompPort"}
                   [] OTHER           -> {}

\* WaiterThreadProc: of two events that are set it takes the first.
Waiter ==
    /\ phase # "aborted"
    /\ WaiterTouches \subseteq Alive
    /\ \/ /\ waiter = "wait" /\ clToSv
          /\ waiter' = "post" /\ clToSv' = FALSE /\ UNCHANGED port
       \/ /\ waiter = "wait" /\ ~clToSv /\ waiterEvent
          /\ waiter' = "ended" /\ UNCHANGED <<clToSv, port>>
       \/ /\ waiter = "post"
          /\ waiter' = "wait" /\ port' = Append(port, "memory") /\ UNCHANGED clToSv
    /\ UNCHANGED <<vars, console, workers, waiterEvent, svToCl, traffic>>

-----------------------------------------------------------------------------
\* Clients of the pipes and of the shared memory.
Clients ==
    /\ traffic < MaxTraffic
    /\ traffic' = traffic + 1
    /\ \/ /\ "pipeServer" \in Alive
          /\ port' = Append(port, "pipe")
          /\ UNCHANGED <<svToCl, clToSv>>
       \/ /\ "sharedMemServer" \in Alive /\ svToCl
          /\ svToCl' = FALSE /\ clToSv' = TRUE
          /\ UNCHANGED port
    /\ phase # "aborted"
    /\ UNCHANGED <<vars, console, workers, waiter, waiterEvent>>

\* After run the process waits for a key, its threads with it.
Pause == phase \in {"ended", "aborted"} /\ UNCHANGED lifeVars

Console ==
    \/ CreateWorker \/ ShowMessage \/ Ask
    \/ PostShutdown \/ Join(TRUE) \/ DestroyMember \/ StopWaiter \/ JoinWaiter(TRUE)

LifeNext ==
    \/ Console
    \/ CreateThreadFails \/ Continue \/ Stop \/ InvalidCommand
    \/ Join(FALSE) \/ JoinWaiter(FALSE)
    \/ \E w \in Pushers : Worker(w) \/ CopyOverflows(w)
    \/ Waiter
    \/ Clients
    \/ Pause

LifeSpec == LifeInit /\ [][LifeNext]_lifeVars

(* Running threads are scheduled, and the operator answers, anything;      *)
(* nothing is assumed of clients and time-outs.                            *)
LifeFairSpec ==
    /\ LifeSpec
    /\ WF_lifeVars(Console)
    /\ WF_lifeVars(Continue \/ Stop \/ InvalidCommand)
    /\ \A w \in Pushers : WF_lifeVars(Worker(w))
    /\ WF_lifeVars(Waiter)

-----------------------------------------------------------------------------
(* Type correctness.                                                       *)
LifeTypeOK ==
    /\ TypeOK
    /\ phase \in {"creating", "showing", "shown", "asking", "posting", "joining",
                  "destroying", "waiterJoin", "ended", "aborted"}
    /\ threw \in BOOLEAN /\ pipeServer \in BOOLEAN /\ shutdownEvent \in BOOLEAN
    /\ gaveUp \subseteq {"workers", "waiter"}
    /\ live \in 0 .. Len(Members)
    /\ posted \in 0 .. Cardinality(Pushers)
    /\ port \in Seq({"pipe", "memory", "shutdown"})
    /\ wpc \in [Pushers -> {"unstarted", "wait", "check", "service", "rearm",
                            "getData", "exited"} \cup DOMAIN AfterPush]
    /\ key \in [Pushers -> {"none", "pipe", "memory", "shutdown"}]
    /\ waiter \in {"wait", "post", "ended"}
    /\ waiterEvent \in BOOLEAN /\ svToCl \in BOOLEAN /\ clToSv \in BOOLEAN
    /\ traffic \in 0 .. MaxTraffic

(* Task6Server.h:44: stopAndWait before the destructor closes the threads  *)
(* gracefully.  So no worker is about to touch a member that is gone,      *)
(* unless run threw; and the waiter never is, though run threw, for the    *)
(* port outlives the shared-memory server and that server its thread.      *)
(* Nothing else can go wrong but a wait that gives up on the threads after *)
(* its time-out, in a build where no assertion looks at the result.        *)
NoUseAfterDestroy ==
    /\ ~threw /\ "workers" \notin gaveUp =>
         \A w \in Pushers : Touches(wpc[w]) \subseteq Alive
    /\ "waiter" \notin gaveUp => WaiterTouches \subseteq Alive

(* A message that a worker logs is shown (Task6Server.cpp:202), whatever   *)
(* the console waits for, unless it has left its loop or strcpy_s has      *)
(* ended the process.                                                      *)
MessageShown ==
    \A w \in Pushers : \A n \in 1 .. 3 * MaxTraffic + 2 :
        pushed[w] >= n ~> popped[w] >= n \/ shutdownEvent \/ threw \/ phase = "aborted"

(* Once the console has decided to stop, or to throw, the threads let it:  *)
(* it gets through the waits for the workers and for the waiter.           *)
StopEnds == shutdownEvent \/ threw ~> phase \in {"ended", "aborted"}
=============================================================================
