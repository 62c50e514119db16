-------------------------- MODULE ServerLife_proofs -------------------------
(***************************************************************************)
(* Proofs about ServerLife, for any number of workers and any traffic.     *)
(* The log's theorems carry over because the workers and the console use   *)
(* it as its module says.  Nobody uses a member that is gone: what makes   *)
(* it so is Quiet (once the members go, every worker is out of its loop)   *)
(* and WaiterQuiet (the shared-memory server goes only when its thread has *)
(* ended).  Both except a wait that gave up, of which a build with         *)
(* assertions has none.  The last section is about the wait for the        *)
(* workers: while one runs, one can go on, and each step is nearer the     *)
(* end.                                                                    *)
(***************************************************************************)
EXTENDS ServerLife, MessageLog_proofs

USE DEF Become

-----------------------------------------------------------------------------
(* The log.                                                                *)

LEMMA LogStep == [LifeNext]_lifeVars => [Next]_vars
<1> SUFFICES ASSUME [LifeNext]_lifeVars PROVE [Next]_vars
  OBVIOUS
<1>1. CASE ShowMessage
  BY <1>1, LifeAssumption DEF ShowMessage, Next
<1>2. ASSUME NEW w \in Pushers, Worker(w) \/ CopyOverflows(w) PROVE [Next]_vars
  BY <1>2 DEF Worker, Logs, Dequeue, Check, UsePipeServer, GetData, CopyOverflows, Next
<1>3. CASE \/ CreateWorker \/ Ask \/ PostShutdown \/ Join(TRUE) \/ Join(FALSE)
           \/ DestroyMember \/ StopWaiter \/ JoinWaiter(TRUE) \/ JoinWaiter(FALSE)
  BY <1>3 DEF CreateWorker, Ask, PostShutdown, Join, DestroyMember, StopWaiter,
              JoinWaiter
<1>4. CASE \/ CreateThreadFails \/ Continue \/ Stop \/ InvalidCommand
           \/ Waiter \/ Clients \/ Pause \/ UNCHANGED lifeVars
  BY <1>4 DEF CreateThreadFails, Continue, Stop, StopAndWait, InvalidCommand,
              Waiter, Clients, Pause, lifeVars
<1> QED
  BY <1>1, <1>2, <1>3, <1>4 DEF LifeNext, Console

(* The workers and the console use the log as its module says.             *)
THEOREM LifeImplementsLog == LifeSpec => Spec
<1>1. LifeInit => Init
  BY DEF LifeInit
<1> QED
  BY <1>1, LogStep, PTL DEF LifeSpec, Spec

(* While threads log and the console shows, the semaphore counts the       *)
(* messages, but for those of threads that are half-way.                   *)
THEOREM LogIsCounted == LifeSpec => []SemaphoreCounts
  BY LifeImplementsLog, SemaphoreCountsTheLog, PTL

(* The console never takes the front of an empty queue.                    *)
THEOREM ConsolePopsAMessage == LifeSpec => []PopNeverEmpty
  BY LifeImplementsLog, PopFindsMessage, PTL

-----------------------------------------------------------------------------
(* Type correctness.                                                       *)

Phases == {"creating", "showing", "shown", "asking", "posting", "joining",
           "destroying", "waiterJoin", "ended", "aborted"}

WorkerPlaces == {"unstarted", "wait", "check", "service", "rearm", "getData", "exited",
            "starting", "serviced", "done", "read", "message", "received", "ending"}

LEMMA PushPlaces ==
    /\ DOMAIN AfterPush = {"starting", "serviced", "done", "read", "message",
                           "received", "ending"}
    /\ \A p \in DOMAIN AfterPush : AfterPush[p] \in WorkerPlaces
  BY DEF AfterPush, WorkerPlaces

LEMMA NumberOfMembers == Len(Members) = 11
  BY DEF Members

LEMMA StartedIsFinite ==
    /\ IsFiniteSet(Started)
    /\ Cardinality(Started) \in 0 .. Cardinality(Pushers)
    /\ Started # {} => Cardinality(Started) >= 1
<1>1. Started \subseteq Pushers /\ IsFiniteSet(Pushers)
  BY LogAssumption DEF Started
<1>2. /\ IsFiniteSet(Started) /\ Cardinality(Started) <= Cardinality(Pushers)
      /\ Cardinality(Started) \in Nat /\ Cardinality(Pushers) \in Nat
  BY <1>1, FS_Subset, FS_CardinalityType
<1>3. Started # {} => Cardinality(Started) # 0
  BY <1>2, FS_EmptySet
<1> QED
  BY <1>2, <1>3

\* The console before the destructor.
Before == {"creating", "showing", "shown", "asking", "posting", "joining"}

\* What the console's counters rely on, from place to place.
ConsoleInv ==
    /\ phase = "posting" => posted >= 1
    /\ phase \in Before => live = 11
    /\ phase = "destroying" => live >= 1
    /\ phase = "waiterJoin" => live = 3

LifeType ==
    /\ phase \in Phases
    /\ live \in 0 .. 11
    /\ posted \in 0 .. Cardinality(Pushers)
    /\ port \in Seq({"pipe", "memory", "shutdown"})
    /\ wpc \in [Pushers -> WorkerPlaces]
    /\ key \in [Pushers -> {"none", "pipe", "memory", "shutdown"}]
    /\ waiter \in {"wait", "post", "ended"}
    /\ traffic \in 0 .. MaxTraffic

Flags ==
    /\ threw \in BOOLEAN /\ pipeServer \in BOOLEAN /\ shutdownEvent \in BOOLEAN
    /\ waiterEvent \in BOOLEAN /\ svToCl \in BOOLEAN /\ clToSv \in BOOLEAN
    /\ gaveUp \subseteq {"workers", "waiter"}

LEMMA LifeTypeIs == TypeOK /\ LifeType /\ Flags => LifeTypeOK
<1>1. WorkerPlaces = {"unstarted", "wait", "check", "service", "rearm", "getData", "exited"}
                \cup DOMAIN AfterPush
  BY PushPlaces DEF WorkerPlaces
<1> QED
  BY <1>1, NumberOfMembers, Zenon DEF LifeType, Flags, LifeTypeOK, Phases

\* Until then the pipe server is there, and run has not thrown.
Whole == phase \in Before => pipeServer = TRUE /\ threw = FALSE

LifeInv == LifeType /\ Flags /\ ConsoleInv /\ Whole

LEMMA MemberThree == \A k \in 1 .. 11 : Members[k] = "sharedMemServer" <=> k = 3
  BY DEF Members

LEMMA LifeInvInit == LifeInit => LifeInv
<1> SUFFICES ASSUME LifeInit PROVE LifeInv
  OBVIOUS
<1>1. 0 \in 0 .. Cardinality(Pushers) /\ 0 \in 0 .. MaxTraffic
  BY LogAssumption, LifeAssumption, FS_CardinalityType
<1>2. wpc \in [Pushers -> WorkerPlaces]
  BY DEF LifeInit, WorkerPlaces
<1>3. key \in [Pushers -> {"none", "pipe", "memory", "shutdown"}]
  BY DEF LifeInit
<1>4. live = 11
  BY NumberOfMembers DEF LifeInit
<1>5. port \in Seq({"pipe", "memory", "shutdown"})
  BY DEF LifeInit
<1>6. /\ threw \in BOOLEAN /\ pipeServer \in BOOLEAN /\ shutdownEvent \in BOOLEAN
      /\ waiterEvent \in BOOLEAN /\ svToCl \in BOOLEAN /\ clToSv \in BOOLEAN
      /\ threw = FALSE /\ pipeServer = TRUE /\ gaveUp = {}
  BY Zenon DEF LifeInit
<1> QED
  BY <1>1, <1>2, <1>3, <1>4, <1>5, <1>6 DEF LifeInit, LifeInv, LifeType, Flags, ConsoleInv, Whole,
                                             Phases

LEMMA FlagsStep == Flags /\ [LifeNext]_lifeVars => Flags'
<1> SUFFICES ASSUME Flags, [LifeNext]_lifeVars PROVE Flags'
  OBVIOUS
<1> USE DEF Flags, workers, memServer
<1>1. CASE CreateWorker \/ ShowMessage \/ Ask \/ PostShutdown \/ DestroyMember
  BY <1>1, Zenon DEF CreateWorker, ShowMessage, Ask, PostShutdown, DestroyMember
<1>2. CASE CreateThreadFails \/ Continue \/ Stop \/ InvalidCommand
  BY <1>2, Zenon DEF CreateThreadFails, Continue, Stop, StopAndWait, InvalidCommand
<1>3. ASSUME NEW ended, Join(ended) \/ JoinWaiter(ended) PROVE Flags'
  BY <1>3, Zenon DEF Join, JoinWaiter, Waited
<1>4. CASE StopWaiter
  BY <1>4, Zenon DEF StopWaiter, TellWaiter
<1>5. ASSUME NEW w \in Pushers, Worker(w) PROVE Flags'
  <2>1. CASE Logs(w) \/ Dequeue(w) \/ Check(w) \/ UsePipeServer(w)
    BY <2>1, Zenon DEF Logs, Dequeue, Check, UsePipeServer, console
  <2>2. CASE GetData(w)
    BY <2>2, Zenon DEF GetData, console
  <2> QED
    BY <1>5, <2>1, <2>2 DEF Worker
<1>6. CASE Waiter
  BY <1>6, Zenon DEF Waiter, console
<1>7. CASE Clients
  BY <1>7, Zenon DEF Clients, console
<1>8. CASE Pause \/ UNCHANGED lifeVars
  BY <1>8, Zenon DEF Pause, lifeVars, console
<1>9. ASSUME NEW w \in Pushers, CopyOverflows(w) PROVE Flags'
  BY <1>9, Zenon DEF CopyOverflows
<1> QED
  BY <1>1, <1>2, <1>3, <1>4, <1>5, <1>6, <1>7, <1>8, <1>9 DEF LifeNext, Console

\* A packet joins or leaves the port.
LEMMA PortStep ==
    ASSUME LifeType
    PROVE  /\ \A p \in {"pipe", "memory", "shutdown"} :
                Append(port, p) \in Seq({"pipe", "memory", "shutdown"})
           /\ port # << >> =>
                /\ Head(port) \in {"pipe", "memory", "shutdown"}
                /\ Tail(port) \in Seq({"pipe", "memory", "shutdown"})
  BY DEF LifeType

LEMMA LifeInvConsole ==
    ASSUME LifeInv, Console \/ Join(FALSE) \/ JoinWaiter(FALSE)
    PROVE  LifeType' /\ ConsoleInv'
<1>a. LifeType /\ ConsoleInv
  BY DEF LifeInv
<1> USE <1>a DEF LifeType, ConsoleInv, Phases, Before, workers, memServer
<1>0. Cardinality(Pushers) \in Nat
  BY LogAssumption, FS_CardinalityType
<1>1. CASE CreateWorker
  <2>1. wpc' \in [Pushers -> WorkerPlaces]
    BY <1>1 DEF CreateWorker, WorkerPlaces
  <2>2. phase = "creating" /\ phase' \in {"creating", "showing"}
    BY <1>1 DEF CreateWorker
  <2> QED
    BY <1>1, <2>1, <2>2 DEF CreateWorker
<1>2. CASE ShowMessage
  BY <1>2 DEF ShowMessage
<1>3. CASE Ask
  BY <1>3 DEF Ask
<1>4. CASE PostShutdown
  <2>1. port' \in Seq({"pipe", "memory", "shutdown"})
    BY <1>4, PortStep DEF PostShutdown
  <2>2. /\ phase = "posting" /\ posted' = posted - 1
        /\ phase' = IF posted = 1 THEN "joining" ELSE "posting"
    BY <1>4 DEF PostShutdown, LastPacket
  <2> QED
    BY <1>0, <1>4, <2>1, <2>2 DEF PostShutdown
<1>5. ASSUME NEW ended, Join(ended) PROVE LifeType' /\ ConsoleInv'
  <2>1. phase = "joining" /\ phase' \in {"destroying", "aborted"}
    BY <1>5 DEF Join, Waited
  <2>2. UNCHANGED <<live, posted, port, wpc, key, waiter, traffic>>
    BY <1>5 DEF Join
  <2> QED
    BY <2>1, <2>2
<1>6. CASE DestroyMember
  BY <1>6, MemberThree DEF DestroyMember, AtMemServer
<1>7. CASE StopWaiter
  <2>1. /\ UNCHANGED <<live, posted, port, wpc, key, waiter, traffic>>
        /\ phase = "destroying" /\ phase' = "waiterJoin" /\ AtMemServer
    BY <1>7 DEF StopWaiter
  <2> QED
    BY <2>1, MemberThree DEF AtMemServer
<1>8. ASSUME NEW ended, JoinWaiter(ended) PROVE LifeType' /\ ConsoleInv'
  <2>1. phase = "waiterJoin" /\ phase' \in {"destroying", "aborted"}
    BY <1>8 DEF JoinWaiter, Waited
  <2>2. /\ UNCHANGED <<posted, port, wpc, key, waiter, traffic>>
        /\ live' = IF phase' = "aborted" THEN live ELSE live - 1
    BY <1>8 DEF JoinWaiter
  <2> QED
    BY <2>1, <2>2
<1> QED
  BY <1>1, <1>2, <1>3, <1>4, <1>5, <1>6, <1>7, <1>8 DEF Console

LEMMA LifeInvStop ==
    ASSUME LifeInv, CreateThreadFails \/ Continue \/ Stop \/ InvalidCommand
    PROVE  LifeType' /\ ConsoleInv'
<1>a. LifeType /\ ConsoleInv
  BY DEF LifeInv
<1> USE <1>a DEF LifeType, ConsoleInv, Phases, Before, workers, memServer
<1>1. CASE CreateThreadFails \/ Stop
  <2>1. /\ phase \in {"creating", "asking"} /\ posted' = Cardinality(Started)
        /\ phase' = IF Started = {} THEN "destroying" ELSE "posting"
        /\ UNCHANGED <<live, port, wpc, key, waiter, traffic>>
    BY <1>1 DEF CreateThreadFails, Stop, StopAndWait
  <2> QED
    BY <2>1, StartedIsFinite
<1>2. CASE Continue \/ InvalidCommand
  <2>1. /\ phase = "asking" /\ phase' \in {"showing", "destroying"}
        /\ UNCHANGED <<live, posted, port, wpc, key, waiter, traffic>>
    BY <1>2 DEF Continue, InvalidCommand
  <2> QED
    BY <2>1
<1> QED
  BY <1>1, <1>2

LEMMA LifeInvThreads ==
    ASSUME LifeInv, \/ \E w \in Pushers : Worker(w) \/ CopyOverflows(w)
                    \/ Waiter \/ Clients \/ Pause \/ UNCHANGED lifeVars
    PROVE  LifeType' /\ ConsoleInv'
<1>a. LifeType /\ ConsoleInv
  BY DEF LifeInv
<1> USE <1>a DEF LifeType, ConsoleInv, Phases, Before, console, workers, memServer
<1>1. ASSUME NEW w \in Pushers, Worker(w) PROVE LifeType' /\ ConsoleInv'
  <2>1. CASE Logs(w)
    <3>1. wpc' \in [Pushers -> WorkerPlaces]
      BY <2>1, PushPlaces DEF Logs
    <3> QED
      BY <2>1, <3>1 DEF Logs
  <2>2. CASE Dequeue(w)
    <3>1. /\ port' \in Seq({"pipe", "memory", "shutdown"})
          /\ key' \in [Pushers -> {"none", "pipe", "memory", "shutdown"}]
          /\ wpc' \in [Pushers -> WorkerPlaces]
      BY <2>2, PortStep DEF Dequeue, Goes, WorkerPlaces
    <3> QED
      BY <2>2, <3>1 DEF Dequeue
  <2>3. CASE Check(w) \/ UsePipeServer(w) \/ GetData(w)
    <3>1. wpc' \in [Pushers -> WorkerPlaces]
      BY <2>3 DEF Check, UsePipeServer, GetData, Goes, WorkerPlaces
    <3> QED
      BY <2>3, <3>1 DEF Check, UsePipeServer, GetData
  <2> QED
    BY <1>1, <2>1, <2>2, <2>3 DEF Worker
<1>2. CASE Waiter
  <2>1. port' \in Seq({"pipe", "memory", "shutdown"})
    BY <1>2, PortStep DEF Waiter
  <2> QED
    BY <1>2, <2>1 DEF Waiter
<1>3. CASE Clients
  <2>1. port' \in Seq({"pipe", "memory", "shutdown"})
    BY <1>3, PortStep DEF Clients
  <2>2. traffic' \in 0 .. MaxTraffic
    <3>1. traffic < MaxTraffic /\ traffic' = traffic + 1
      BY <1>3 DEF Clients
    <3> QED
      BY <3>1, LifeAssumption
  <2> QED
    BY <1>3, <2>1, <2>2 DEF Clients
<1>4. CASE Pause \/ UNCHANGED lifeVars
  BY <1>4 DEF Pause, lifeVars
<1>5. ASSUME NEW w \in Pushers, CopyOverflows(w) PROVE LifeType' /\ ConsoleInv'
  BY <1>5 DEF CopyOverflows
<1> QED
  BY <1>1, <1>2, <1>3, <1>4, <1>5

LEMMA WholeStep == Whole /\ [LifeNext]_lifeVars => Whole'
<1> SUFFICES ASSUME Whole, [LifeNext]_lifeVars, phase' \in Before
             PROVE  pipeServer' = TRUE /\ threw' = FALSE
  BY Zenon DEF Whole
<1>1. UNCHANGED <<pipeServer, threw>>
  <2>1. CASE \/ CreateWorker \/ ShowMessage \/ Ask \/ PostShutdown \/ DestroyMember
             \/ StopWaiter \/ CreateThreadFails \/ Continue \/ Stop
    BY <2>1, Zenon DEF CreateWorker, ShowMessage, Ask, PostShutdown, DestroyMember,
       StopWaiter, CreateThreadFails, Continue, Stop, StopAndWait
  <2>2. CASE InvalidCommand
    BY <2>2 DEF InvalidCommand, Before
  <2>3. ASSUME NEW ended, Join(ended) PROVE UNCHANGED <<pipeServer, threw>>
    BY <2>3 DEF Join, Waited, Before
  <2>4. ASSUME NEW ended, JoinWaiter(ended) PROVE UNCHANGED <<pipeServer, threw>>
    BY <2>4, Zenon DEF JoinWaiter
  <2>5. CASE (\E w \in Pushers : Worker(w)) \/ Waiter \/ Clients
    BY <2>5, Zenon DEF Worker, Logs, Dequeue, Check, UsePipeServer, GetData, Waiter,
                       Clients, console
  <2>6. CASE Pause \/ UNCHANGED lifeVars
    BY <2>6, Zenon DEF Pause, lifeVars, console
  <2>7. ASSUME NEW w \in Pushers, CopyOverflows(w) PROVE UNCHANGED <<pipeServer, threw>>
    BY <2>7, Zenon DEF CopyOverflows
  <2> QED
    BY <2>1, <2>2, <2>3, <2>4, <2>5, <2>6, <2>7 DEF LifeNext, Console
<1>2. phase \in Before
  <2>1. CASE Console \/ Join(FALSE) \/ JoinWaiter(FALSE)
    BY <2>1 DEF Console, CreateWorker, ShowMessage, Ask, PostShutdown, Join, Waited,
                DestroyMember, StopWaiter, JoinWaiter, Before
  <2>2. CASE CreateThreadFails \/ Continue \/ Stop \/ InvalidCommand
    BY <2>2 DEF CreateThreadFails, Continue, Stop, InvalidCommand, Before
  <2>3. CASE \/ (\E w \in Pushers : Worker(w)) \/ Waiter \/ Clients \/ Pause
             \/ UNCHANGED lifeVars
    BY <2>3 DEF Worker, Logs, Dequeue, Check, UsePipeServer, GetData, Waiter,
                Clients, Pause, lifeVars, console
  <2>4. ~\E w \in Pushers : CopyOverflows(w)
    BY DEF CopyOverflows, Before
  <2> QED
    BY <2>1, <2>2, <2>3, <2>4 DEF LifeNext
<1> QED
  BY <1>1, <1>2, Zenon DEF Whole

LEMMA LifeInvStep == LifeInv /\ [LifeNext]_lifeVars => LifeInv'
<1> SUFFICES ASSUME LifeInv, [LifeNext]_lifeVars PROVE LifeInv'
  OBVIOUS
<1>1. LifeType' /\ ConsoleInv'
  BY LifeInvConsole, LifeInvStop, LifeInvThreads DEF LifeNext
<1>2. Flags' /\ Whole'
  BY FlagsStep, WholeStep DEF LifeInv
<1> QED
  BY <1>1, <1>2 DEF LifeInv

(* Whatever the workers and the traffic are, every variable keeps its      *)
(* shape: there are never more shutdown packets to post than workers, and  *)
(* never more members to destroy than exist.                               *)
THEOREM LifeTypeCorrect == LifeSpec => []LifeTypeOK
<1>1. LifeSpec => []LifeInv
  BY LifeInvInit, LifeInvStep, PTL DEF LifeSpec
<1>2. LifeSpec => []TypeOK
  BY LifeImplementsLog, SemaphoreCountsTheLog, PTL
<1>3. TypeOK /\ LifeInv => LifeTypeOK
  BY LifeTypeIs DEF LifeInv
<1> QED
  BY <1>1, <1>2, <1>3, PTL

-----------------------------------------------------------------------------
(* Destruction.                                                            *)

Idle(w) == wpc[w] \in {"unstarted", "exited"}

\* Once the members go, the workers are out of their loop, unless run threw; if
\* they did not end in time the process is aborted before.
Quiet ==
    ~threw /\ "workers" \notin gaveUp /\ phase \notin Before =>
        \/ \A w \in Pushers : Idle(w)
        \/ phase = "aborted" /\ live = 11 /\ pipeServer = TRUE

\* The shared-memory server is there until its thread has ended.
WaiterQuiet == live >= 3 \/ waiter = "ended" \/ "waiter" \in gaveUp

LEMMA AllAlive ==
    ASSUME live = 11, pipeServer = TRUE, NEW place \in WorkerPlaces
    PROVE  Touches(place) \subseteq Alive
<1>1. Alive = {Members[k] : k \in 1 .. 11}
  BY Zenon DEF Alive
<1>2. /\ Members[1] = "hCompPort" /\ Members[2] = "pipeServer"
      /\ Members[3] = "sharedMemServer" /\ Members[5] = "pipeSvBuffers"
      /\ Members[6] = "sharedMemoryBuffer" /\ Members[7] = "shMemBufferCS"
      /\ Members[8] = "log" /\ Members[9] = "logCS" /\ Members[10] = "hLogSem"
      /\ Members[11] = "hShutdownEvent"
  BY DEF Members
<1>3. {1, 2, 3, 5, 6, 7, 8, 9, 10, 11} \subseteq 1 .. 11
  OBVIOUS
<1>4. {"hCompPort", "pipeServer", "sharedMemServer", "pipeSvBuffers",
       "sharedMemoryBuffer", "shMemBufferCS", "log", "logCS", "hLogSem",
       "hShutdownEvent"} \subseteq Alive
  BY <1>1, <1>2, <1>3
<1> QED
  BY <1>4, PushPlaces DEF Touches, TheLog, WorkerPlaces

LEMMA IdleTouchesNothing ==
    ASSUME NEW place \in {"unstarted", "exited"} PROVE Touches(place) = {}
  BY PushPlaces DEF Touches

LEMMA QuietStep ==
    ASSUME LifeInv, Quiet, [LifeNext]_lifeVars PROVE Quiet'
<1> DEFINE Goal == \/ \A w \in Pushers : Idle(w)'
                   \/ phase' = "aborted" /\ live' = 11 /\ pipeServer' = TRUE
<1> SUFFICES ASSUME ~threw', "workers" \notin gaveUp', phase' \notin Before
             PROVE  Goal
  BY Zenon DEF Quiet
<1>1. CASE \/ CreateWorker \/ ShowMessage \/ Ask \/ PostShutdown \/ Continue
           \/ InvalidCommand
  BY <1>1 DEF CreateWorker, ShowMessage, Ask, PostShutdown, Continue, InvalidCommand,
              Before
<1>2. CASE CreateThreadFails \/ Stop
  <2>1. wpc' = wpc /\ Started = {}
    BY <1>2 DEF CreateThreadFails, Stop, StopAndWait, workers, Before
  <2>2. \A w \in Pushers : Idle(w)'
    BY <2>1 DEF Started, Idle
  <2> QED
    BY <2>2, Zenon
<1>3. CASE Join(TRUE)
  <2>1. wpc' = wpc /\ Running = {}
    BY <1>3, Zenon DEF Join, workers
  <2>2. \A w \in Pushers : Idle(w)'
    BY <2>1 DEF Running, Started, Idle
  <2> QED
    BY <2>2, Zenon
<1>4. CASE Join(FALSE)
  <2>1. phase = "joining" /\ live' = live /\ phase' = "aborted"
    BY <1>4, LifeAssumption DEF Join, Waited
  <2>2. live = 11
    BY <2>1 DEF LifeInv, ConsoleInv, Before
  <2>3. pipeServer' = TRUE
    BY <1>4, <2>1, Zenon DEF Join
  <2> QED
    BY <2>1, <2>2, <2>3, Zenon
<1>q. ASSUME phase \notin Before, phase # "aborted", threw' = threw,
             gaveUp \subseteq gaveUp'
      PROVE  \A w \in Pushers : Idle(w)
  BY <1>q, Zenon DEF Quiet
<1>5. ASSUME NEW ended, DestroyMember \/ StopWaiter \/ JoinWaiter(ended)
      PROVE  Goal
  <2>1. /\ wpc' = wpc /\ threw' = threw /\ gaveUp \subseteq gaveUp'
    BY <1>5, Zenon DEF DestroyMember, StopWaiter, JoinWaiter, Waited, workers
  <2>2. phase \in {"destroying", "waiterJoin"}
    BY <1>5 DEF DestroyMember, StopWaiter, JoinWaiter
  <2>3. \A w \in Pushers : Idle(w)
    BY <1>q, <2>1, <2>2 DEF Before
  <2>4. \A w \in Pushers : Idle(w)'
    BY <2>1, <2>3 DEF Idle
  <2> QED
    BY <2>4, Zenon
<1>6. ASSUME NEW w \in Pushers, Worker(w) PROVE Goal
  <2>1. UNCHANGED console /\ phase # "aborted" /\ ~Idle(w)
    BY <1>6, PushPlaces
       DEF Worker, Logs, Dequeue, Check, UsePipeServer, GetData, Runs, Idle
  <2>2. threw' = threw /\ phase' = phase /\ gaveUp' = gaveUp
    BY <2>1, Zenon DEF console
  <2> QED
    BY <1>q, <2>1, <2>2
<1>7. CASE Waiter \/ Clients \/ Pause \/ UNCHANGED lifeVars
  <2>1. UNCHANGED <<console, wpc>>
    BY <1>7, Zenon DEF Waiter, Clients, Pause, lifeVars, workers
  <2>2. /\ threw' = threw /\ phase' = phase /\ live' = live /\ pipeServer' = pipeServer
        /\ wpc' = wpc /\ gaveUp' = gaveUp
    BY <2>1, Zenon DEF console
  <2> QED
    BY <2>2, Zenon DEF Quiet, Idle
<1>8. ASSUME NEW w \in Pushers, CopyOverflows(w) PROVE Goal
  <2>1. /\ phase # "aborted" /\ phase' = "aborted" /\ ~Idle(w)
        /\ live' = live /\ pipeServer' = pipeServer /\ threw' = threw /\ gaveUp' = gaveUp
    BY <1>8 DEF CopyOverflows, Runs, Idle
  <2>2. phase \in Before
    BY <1>q, <2>1
  <2>3. live = 11 /\ pipeServer = TRUE
    BY <2>2, Zenon DEF LifeInv, ConsoleInv, Whole
  <2> QED
    BY <2>1, <2>3, Zenon
<1> QED
  BY <1>1, <1>2, <1>3, <1>4, <1>5, <1>6, <1>7, <1>8 DEF LifeNext, Console

LEMMA WaiterQuietStep ==
    ASSUME LifeInv, WaiterQuiet, [LifeNext]_lifeVars
    PROVE  WaiterQuiet'
<1>t. live \in 0 .. 11 /\ (phase = "waiterJoin" => live = 3)
  BY DEF LifeInv, LifeType, ConsoleInv
<1> USE DEF WaiterQuiet, memServer, console
<1>1. CASE \/ CreateWorker \/ ShowMessage \/ Ask \/ PostShutdown \/ StopWaiter
           \/ CreateThreadFails \/ Continue \/ Stop \/ InvalidCommand
           \/ Join(TRUE) \/ Join(FALSE)
  <2>1. UNCHANGED <<live, waiter>> /\ gaveUp \subseteq gaveUp'
    BY <1>1, Zenon
       DEF CreateWorker, ShowMessage, Ask, PostShutdown, StopWaiter, CreateThreadFails,
           Continue, Stop, StopAndWait, InvalidCommand, Join, Waited
  <2> QED
    BY <2>1
<1>2. CASE DestroyMember
  <2>1. live' = live - 1 /\ waiter' = waiter /\ gaveUp' = gaveUp /\ ~AtMemServer
    BY <1>2 DEF DestroyMember
  <2>2. live # 3
    BY <1>t, <2>1, MemberThree DEF AtMemServer
  <2> QED
    BY <1>t, <2>1, <2>2
<1>3. CASE JoinWaiter(TRUE)
  <2>1. waiter' = waiter /\ waiter = "ended"
    BY <1>3, Zenon DEF JoinWaiter
  <2> QED
    BY <2>1
<1>4. CASE JoinWaiter(FALSE)
  <2>1. (live' = live /\ live = 3) \/ "waiter" \in gaveUp'
    BY <1>t, <1>4 DEF JoinWaiter, Waited
  <2> QED
    BY <2>1
<1>5. CASE \/ (\E w \in Pushers : Worker(w) \/ CopyOverflows(w))
           \/ Waiter \/ Clients \/ Pause \/ UNCHANGED lifeVars
  <2>1. /\ live' = live /\ gaveUp' = gaveUp
        /\ waiter = "ended" => waiter' = "ended"
    BY <1>5 DEF Worker, Logs, Dequeue, Check, UsePipeServer, GetData, CopyOverflows,
                Waiter, Clients, Pause, lifeVars
  <2> QED
    BY <2>1
<1> QED
  BY <1>1, <1>2, <1>3, <1>4, <1>5 DEF LifeNext, Console

(* With assertions or without, no worker is about to use a member that has *)
(* been destroyed, unless run threw or the wait for the workers gave up,   *)
(* and the waiter never is unless the wait for it gave up.                 *)
THEOREM MembersOutliveThreads == LifeSpec => []NoUseAfterDestroy
<1>1. LifeInit => Quiet /\ WaiterQuiet
  BY NumberOfMembers DEF LifeInit, Quiet, WaiterQuiet, Before
<1>2. LifeInv /\ Quiet /\ WaiterQuiet /\ [LifeNext]_lifeVars => Quiet' /\ WaiterQuiet'
  BY QuietStep, WaiterQuietStep
<1>3. LifeInv /\ Quiet /\ WaiterQuiet => NoUseAfterDestroy
  <2> SUFFICES ASSUME LifeInv, Quiet, WaiterQuiet PROVE NoUseAfterDestroy
    OBVIOUS
  <2>t. wpc \in [Pushers -> WorkerPlaces] /\ live \in 0 .. 11
    BY DEF LifeInv, LifeType
  <2>1. ASSUME ~threw, "workers" \notin gaveUp, NEW w \in Pushers
        PROVE  Touches(wpc[w]) \subseteq Alive
    <3>1. CASE Idle(w)
      BY <3>1, IdleTouchesNothing DEF Idle
    <3>2. CASE ~Idle(w)
      <4>1. pipeServer = TRUE /\ (live = 11 \/ phase \in Before)
        BY <2>1, <3>2, Zenon DEF Quiet, LifeInv, Whole
      <4>2. live = 11
        BY <4>1 DEF LifeInv, ConsoleInv
      <4> QED
        BY <2>t, <4>1, <4>2, AllAlive
    <3> QED
      BY <3>1, <3>2
  <2>2. ASSUME "waiter" \notin gaveUp PROVE WaiterTouches \subseteq Alive
    <3>1. CASE waiter = "ended"
      BY <3>1 DEF WaiterTouches
    <3>2. CASE live >= 3
      <4>1. /\ 1 \in 1 .. live /\ 3 \in 1 .. live
            /\ Members[1] = "hCompPort" /\ Members[3] = "sharedMemServer"
        BY <2>t, <3>2 DEF Members
      <4>2. {"sharedMemServer", "hCompPort"} \subseteq Alive
        BY <4>1 DEF Alive
      <4> QED
        BY <4>2 DEF WaiterTouches
    <3> QED
      BY <2>2, <3>1, <3>2 DEF WaiterQuiet
  <2> QED
    BY <2>1, <2>2 DEF NoUseAfterDestroy
<1> QED
  BY <1>1, <1>2, <1>3, LifeInvInit, LifeInvStep, PTL DEF LifeSpec

\* In a build with assertions no wait gives up and goes on.
NoneGivenUp == gaveUp = {}

LEMMA NoneIsGivenUp ==
    ASSUME AssertsEnabled = TRUE, NoneGivenUp, [LifeNext]_lifeVars PROVE NoneGivenUp'
<1> SUFFICES gaveUp' = gaveUp
  BY DEF NoneGivenUp
<1>1. CASE \/ CreateWorker \/ ShowMessage \/ Ask \/ PostShutdown \/ DestroyMember
           \/ StopWaiter \/ CreateThreadFails \/ Continue \/ Stop \/ InvalidCommand
  BY <1>1, Zenon
     DEF CreateWorker, ShowMessage, Ask, PostShutdown, DestroyMember, StopWaiter,
         CreateThreadFails, Continue, Stop, StopAndWait, InvalidCommand
<1>2. ASSUME NEW ended, Join(ended) \/ JoinWaiter(ended) PROVE gaveUp' = gaveUp
  BY <1>2, Zenon DEF Join, JoinWaiter, Waited
<1>3. CASE (\E w \in Pushers : Worker(w) \/ CopyOverflows(w)) \/ Waiter \/ Clients
  BY <1>3, Zenon DEF Worker, Logs, Dequeue, Check, UsePipeServer, GetData, CopyOverflows,
                     Waiter, Clients, console
<1>4. CASE Pause \/ UNCHANGED lifeVars
  BY <1>4, Zenon DEF Pause, lifeVars, console
<1> QED
  BY <1>1, <1>2, <1>3, <1>4 DEF LifeNext, Console

\* No thread is about to use a member that is gone, unless run threw; then too
\* the waiter is not.
ThreadsAreSafe ==
    /\ ~threw => \A w \in Pushers : Touches(wpc[w]) \subseteq Alive
    /\ WaiterTouches \subseteq Alive

(* In a build with assertions the time-outs of the waits are no exception: *)
(* whatever they do, the members outlive the threads that use them, and    *)
(* the only way round is the exception of run (ServerConsole.cpp:41).      *)
THEOREM DebugThreadsAreSafe ==
    ASSUME AssertsEnabled = TRUE PROVE LifeSpec => []ThreadsAreSafe
<1>1. LifeInit => NoneGivenUp
  BY Zenon DEF LifeInit, NoneGivenUp
<1>2. NoneGivenUp /\ [LifeNext]_lifeVars => NoneGivenUp'
  BY NoneIsGivenUp
<1>3. NoneGivenUp /\ NoUseAfterDestroy => ThreadsAreSafe
  BY DEF NoneGivenUp, NoUseAfterDestroy, ThreadsAreSafe
<1> QED
  BY <1>1, <1>2, <1>3, MembersOutliveThreads, PTL DEF LifeSpec

-----------------------------------------------------------------------------
(* The wait for the workers goes on.                                       *)

USE DEF Threads

\* The workers that will take another packet from the port.
ToWake == {w \in Started : wpc[w] \notin {"check", "ending", "exited"}}

\* A worker that will come back to the port has a packet there, or one that
\* stopAndWait has yet to post.
WakeInv ==
    /\ phase \in {"posting", "joining"} =>
         /\ shutdownEvent = TRUE
         /\ Cardinality(ToWake) <= Len(port) + posted
    /\ phase = "joining" => posted = 0
    /\ shutdownEvent = TRUE => phase # "creating"

\* A worker is inside pushMessg only at a place that calls it, and the console
\* inside popMessg only while it shows the log, or when the process ended there.
InLogInv ==
    /\ \A w \in Pushers : pc[w] # "idle" => wpc[w] \in DOMAIN AfterPush
    /\ pc[Main] # "idle" => phase \in {"showing", "shown", "aborted"}

\* Nothing holds worker w up: neither an empty port, nor the lock of the log,
\* nor a member that is gone.
Proceeds(w) ==
    /\ Touches(wpc[w]) \subseteq Alive
    /\ wpc[w] = "wait" => port # << >>
    /\ wpc[w] \in DOMAIN AfterPush =>
         pc[w] \in {"emplace", "release"} \/ (pc[w] = "idle" /\ logCS = NoThread)

\* While stopAndWait waits and a worker runs, one of them can go on.
JoinGoesOn == phase = "joining" /\ Running # {} => \E w \in Running : Proceeds(w)

LEMMA ToWakeIsFinite ==
    /\ IsFiniteSet(ToWake) /\ Cardinality(ToWake) \in Nat
    /\ Cardinality(ToWake) <= Cardinality(Started)
<1>1. ToWake \subseteq Started /\ IsFiniteSet(Started)
  BY StartedIsFinite DEF ToWake
<1> QED
  BY <1>1, FS_Subset, FS_CardinalityType

\* A step of a thread or a client: it brings nobody back to the port.
LEMMA WakeFrame ==
    ASSUME LifeInv, WakeInv, UNCHANGED console,
           port' = port \/ \E p \in {"pipe", "memory"} : port' = Append(port, p),
           ToWake' \subseteq ToWake
    PROVE  WakeInv'
<1>1. Len(port) \in Nat /\ Len(port') \in Nat /\ Len(port') >= Len(port)
  BY DEF LifeInv, LifeType
<1>2. Cardinality(ToWake') <= Cardinality(ToWake) /\ Cardinality(ToWake') \in Nat
  BY ToWakeIsFinite, FS_Subset, FS_CardinalityType
<1>3. phase' = phase /\ shutdownEvent' = shutdownEvent /\ posted' = posted
  BY Zenon DEF console
<1>4. posted \in Nat
  BY DEF LifeInv, LifeType
<1> QED
  BY <1>1, <1>2, <1>3, <1>4, ToWakeIsFinite DEF WakeInv

LEMMA WakeWorker ==
    ASSUME LifeInv, WakeInv, NEW w \in Pushers, Worker(w) PROVE WakeInv'
<1>t. /\ wpc \in [Pushers -> WorkerPlaces] /\ port \in Seq({"pipe", "memory", "shutdown"})
      /\ posted \in Nat
  BY DEF LifeInv, LifeType
<1>c. /\ UNCHANGED console
      /\ phase' = phase /\ shutdownEvent' = shutdownEvent /\ posted' = posted
  BY Zenon DEF Worker, Logs, Dequeue, Check, UsePipeServer, GetData, console
<1>f. ASSUME NEW to, wpc' = [wpc EXCEPT ![w] = to], port' = port,
             wpc[w] \notin {"unstarted", "check", "ending", "exited"} \/ to \in {"ending", "exited"}
      PROVE  WakeInv'
  <2>1. ToWake' \subseteq ToWake
    BY <1>t, <1>f DEF ToWake, Started
  <2> QED
    BY <1>c, <1>f, <2>1, WakeFrame
<1>1. CASE Logs(w)
  <2>1. port' = port /\ wpc[w] \in DOMAIN AfterPush
    BY <1>1 DEF Logs
  <2>2. CASE wpc' = wpc
    BY <1>c, <2>1, <2>2, WakeFrame DEF ToWake, Started
  <2>3. CASE wpc' = [wpc EXCEPT ![w] = AfterPush[@]]
    <3>1. wpc[w] = "ending" => AfterPush[wpc[w]] = "exited"
      BY DEF AfterPush
    <3>2. wpc' = [wpc EXCEPT ![w] = AfterPush[wpc[w]]]
      BY <2>3
    <3> QED
      BY <1>f, <2>1, <3>1, <3>2, PushPlaces
  <2> QED
    BY <1>1, <2>2, <2>3 DEF Logs
<1>2. CASE Dequeue(w)
  <2>1. /\ wpc[w] = "wait" /\ wpc' = [wpc EXCEPT ![w] = "check"]
        /\ port # << >> /\ port' = Tail(port)
    BY <1>2 DEF Dequeue, Runs, Goes
  <2>2. Len(port') = Len(port) - 1 /\ Len(port) \in Nat
    BY <1>t, <2>1
  <2>3. ToWake' = ToWake \ {w} /\ w \in ToWake
    BY <1>t, <2>1 DEF ToWake, Started
  <2>4. Cardinality(ToWake') = Cardinality(ToWake) - 1
    BY <2>3, ToWakeIsFinite, FS_RemoveElement
  <2> QED
    BY <1>t, <1>c, <2>2, <2>4, ToWakeIsFinite DEF WakeInv
<1>3. CASE Check(w)
  <2>1. /\ wpc[w] = "check" /\ port' = port
        /\ \/ wpc' = [wpc EXCEPT ![w] = "ending"]
           \/ /\ shutdownEvent # TRUE
              /\ \E to \in {"received", "service"} : wpc' = [wpc EXCEPT ![w] = to]
    BY <1>3 DEF Check, Runs, Goes
  <2>2. CASE wpc' = [wpc EXCEPT ![w] = "ending"]
    BY <1>f, <2>1, <2>2
  <2>3. CASE shutdownEvent # TRUE
    BY <1>c, <2>3 DEF WakeInv
  <2> QED
    BY <2>1, <2>2, <2>3
<1>4. CASE UsePipeServer(w) \/ GetData(w)
  <2>1. wpc[w] \in {"service", "rearm", "getData"} /\ port' = port
    BY <1>4 DEF UsePipeServer, GetData, Runs
  <2>2. \E to : wpc' = [wpc EXCEPT ![w] = to]
    BY <1>4 DEF UsePipeServer, GetData, Goes
  <2> QED
    BY <1>f, <2>1, <2>2
<1> QED
  BY <1>1, <1>2, <1>3, <1>4 DEF Worker

LEMMA WakeStep ==
    ASSUME LifeInv, WakeInv, [LifeNext]_lifeVars PROVE WakeInv'
<1>t. /\ port \in Seq({"pipe", "memory", "shutdown"}) /\ posted \in Nat /\ Len(port) \in Nat
  BY DEF LifeInv, LifeType
<1>1. CASE CreateThreadFails \/ Stop
  <2>1. /\ shutdownEvent' = TRUE /\ posted' = Cardinality(Started)
        /\ phase' \in {"posting", "destroying"}
        /\ UNCHANGED <<port, wpc>>
    BY <1>1 DEF CreateThreadFails, Stop, StopAndWait, workers
  <2>2. ToWake' = ToWake
    BY <2>1 DEF ToWake, Started
  <2> QED
    BY <1>t, <2>1, <2>2, ToWakeIsFinite, StartedIsFinite DEF WakeInv
<1>2. CASE PostShutdown
  <2>1. /\ phase = "posting" /\ posted' = posted - 1 /\ port' = Append(port, "shutdown")
        /\ phase' = IF posted = 1 THEN "joining" ELSE "posting"
        /\ shutdownEvent' = shutdownEvent /\ wpc' = wpc
    BY <1>2 DEF PostShutdown, LastPacket, workers
  <2>2. Len(port') = Len(port) + 1
    BY <1>t, <2>1
  <2>3. ToWake' = ToWake
    BY <2>1 DEF ToWake, Started
  <2> QED
    BY <1>t, <2>1, <2>2, <2>3, ToWakeIsFinite DEF WakeInv
<1>3. CASE \/ CreateWorker \/ ShowMessage \/ Ask \/ Join(TRUE) \/ DestroyMember
           \/ StopWaiter \/ JoinWaiter(TRUE) \/ Continue \/ InvalidCommand
           \/ Join(FALSE) \/ JoinWaiter(FALSE) \/ \E w \in Pushers : CopyOverflows(w)
  <2>1. /\ phase' \notin {"posting", "joining"}
        /\ phase' = "creating" => phase = "creating" /\ shutdownEvent' = shutdownEvent
    <3>1. CASE Join(TRUE) \/ Join(FALSE) \/ JoinWaiter(TRUE) \/ JoinWaiter(FALSE)
      BY <3>1 DEF Join, JoinWaiter, Waited
    <3>2. CASE ~(Join(TRUE) \/ Join(FALSE) \/ JoinWaiter(TRUE) \/ JoinWaiter(FALSE))
      BY <1>3, <3>2 DEF CreateWorker, ShowMessage, Ask, DestroyMember, StopWaiter,
                        Continue, InvalidCommand, CopyOverflows
    <3> QED
      BY <3>1, <3>2
  <2> QED
    BY <2>1 DEF WakeInv
<1>4. ASSUME NEW w \in Pushers, Worker(w) PROVE WakeInv'
  BY <1>4, WakeWorker
<1>5. CASE Waiter \/ Clients \/ Pause \/ UNCHANGED lifeVars
  <2>1. /\ UNCHANGED <<console, wpc>>
        /\ port' = port \/ \E p \in {"pipe", "memory"} : port' = Append(port, p)
    BY <1>5, Zenon DEF Waiter, Clients, Pause, lifeVars, workers
  <2>2. ToWake' = ToWake
    BY <2>1 DEF ToWake, Started
  <2> QED
    BY <2>1, <2>2, WakeFrame
<1> QED
  BY <1>1, <1>2, <1>3, <1>4, <1>5 DEF LifeNext, Console

LEMMA InLogStep ==
    ASSUME TypeOK, LifeInv, InLogInv, [LifeNext]_lifeVars PROVE InLogInv'
<1>t. /\ pc \in [Threads -> {"idle", "emplace", "release", "taken", "pop"}]
      /\ wpc \in [Pushers -> WorkerPlaces]
      /\ Main \in Threads /\ Main \notin Pushers
  BY LifeAssumption, LogAssumption DEF TypeOK, LifeInv, LifeType
<1>1. ASSUME pc' = pc, UNCHANGED wpc,
             phase \in {"showing", "shown", "aborted"} /\ pc[Main] # "idle"
               => phase' \in {"showing", "shown", "aborted"}
      PROVE  InLogInv'
  BY <1>1 DEF InLogInv
<1>2. CASE ShowMessage
  <2>1. /\ wpc' = wpc /\ phase \in {"showing", "shown"}
        /\ phase' \in {"showing", "shown"}
        /\ \E from, to : Goto(Main, from, to)
    BY <1>2, Zenon DEF ShowMessage, PopMessg, WaitSemaphore, BeginPop, Pop, workers
  <2>2. \A u \in Pushers : pc'[u] = pc[u]
    BY <1>t, <2>1 DEF Goto
  <2> QED
    BY <2>1, <2>2 DEF InLogInv
<1>3. ASSUME NEW w \in Pushers, Worker(w) PROVE InLogInv'
  <2>1. phase' = phase
    BY <1>3, Zenon DEF Worker, Logs, Dequeue, Check, UsePipeServer, GetData, console
  <2>2. CASE Logs(w)
    <3>1. PICK from, to : Goto(w, from, to)
      BY <2>2, Zenon DEF Logs, Push, BeginPush, Emplace, ReleaseSemaphore
    <3>2. \A u \in Threads \ {w} : pc'[u] = pc[u]
      BY <1>t, <3>1 DEF Goto
    <3>3. /\ wpc[w] \in DOMAIN AfterPush
          /\ pc'[w] # "idle" => wpc' = wpc
          /\ \A u \in Pushers \ {w} : wpc'[u] = wpc[u]
      BY <1>t, <2>2 DEF Logs
    <3> QED
      BY <1>t, <2>1, <3>2, <3>3 DEF InLogInv
  <2>3. CASE Dequeue(w) \/ Check(w) \/ UsePipeServer(w) \/ GetData(w)
    <3>1. /\ wpc[w] \in {"wait", "check", "service", "rearm", "getData"} /\ pc' = pc
          /\ \E to : wpc' = [wpc EXCEPT ![w] = to]
      BY <2>3 DEF Dequeue, Check, UsePipeServer, GetData, Runs, Goes, vars
    <3>2. pc[w] = "idle"
      BY <3>1, PushPlaces DEF InLogInv
    <3> QED
      BY <1>t, <2>1, <3>1, <3>2 DEF InLogInv
  <2> QED
    BY <1>3, <2>2, <2>3 DEF Worker
<1>4. CASE CreateWorker
  <2>1. PICK w \in Pushers \ Started : wpc' = [wpc EXCEPT ![w] = "starting"]
    BY <1>4 DEF CreateWorker
  <2>2. pc' = pc /\ phase = "creating" /\ "starting" \in DOMAIN AfterPush
    BY <1>4, PushPlaces DEF CreateWorker, vars
  <2> QED
    BY <1>t, <2>1, <2>2 DEF InLogInv
<1>5. CASE Ask \/ PostShutdown \/ DestroyMember \/ StopWaiter \/ Continue \/ InvalidCommand
  BY <1>5, <1>1 DEF Ask, PostShutdown, DestroyMember, StopWaiter, Continue,
                    InvalidCommand, vars, workers
<1>6. CASE CreateThreadFails \/ Stop
  BY <1>6, <1>1 DEF CreateThreadFails, Stop, StopAndWait, vars, workers
<1>7. CASE Join(TRUE) \/ Join(FALSE) \/ JoinWaiter(TRUE) \/ JoinWaiter(FALSE)
  BY <1>7, <1>1 DEF Join, JoinWaiter, vars, workers
<1>8. CASE Waiter \/ Clients \/ Pause \/ UNCHANGED lifeVars
  <2>1. UNCHANGED <<pc, wpc, phase>>
    BY <1>8, Zenon DEF Waiter, Clients, Pause, lifeVars, vars, workers, console
  <2> QED
    BY <1>1, <2>1
<1>9. ASSUME NEW w \in Pushers, CopyOverflows(w) PROVE InLogInv'
  BY <1>9, <1>1 DEF CopyOverflows, vars, workers
<1> QED
  BY <1>2, <1>3, <1>4, <1>5, <1>6, <1>7, <1>8, <1>9 DEF LifeNext, Console

LEMMA WakesAtFirst == LifeInit => WakeInv /\ InLogInv
<1> SUFFICES ASSUME LifeInit PROVE WakeInv /\ InLogInv
  OBVIOUS
<1>1. /\ phase = "creating" /\ shutdownEvent = FALSE
      /\ \A t \in Threads : pc[t] = "idle"
  BY DEF LifeInit, Init
<1> QED
  BY <1>1, LifeAssumption DEF WakeInv, InLogInv

(* stopAndWait's wait is no deadlock: while a worker still runs, one of    *)
(* them can go on, though they sleep at the port until a packet comes, log *)
(* under one lock, and end with any packet once the event is set.          *)
THEOREM LifeJoinIsNeverStuck == LifeSpec => []JoinGoesOn
<1>2. TypeOK /\ LogLocked /\ LifeInv /\ WakeInv /\ InLogInv => JoinGoesOn
  <2> SUFFICES ASSUME TypeOK, LogLocked, LifeInv, WakeInv, InLogInv,
                      phase = "joining", Running # {}
               PROVE  \E w \in Running : Proceeds(w)
    BY DEF JoinGoesOn
  <2>1. /\ Cardinality(ToWake) <= Len(port) + posted /\ posted = 0
        /\ port \in Seq({"pipe", "memory", "shutdown"})
        /\ Len(port) \in Nat
    BY DEF WakeInv, LifeInv, LifeType
  <2>2. live = 11 /\ pipeServer = TRUE
    BY Zenon DEF LifeInv, ConsoleInv, Whole, Before
  <2>3. \A w \in Running : Touches(wpc[w]) \subseteq Alive
    BY <2>2, AllAlive DEF Running, Started, LifeInv, LifeType
  <2>4. \A w \in Running : w \in Pushers /\ wpc[w] # "unstarted" /\ wpc[w] # "exited"
    BY DEF Running, Started
  <2>5. CASE logCS # NoThread
    <3>1. PICK t \in Threads : logCS = t
      BY <2>5 DEF TypeOK
    <3>2. pc[t] \in {"emplace", "pop"}
      BY <3>1 DEF LogLocked
    <3>3. t # Main
      BY <3>2 DEF InLogInv
    <3>4. t \in Pushers /\ pc[t] = "emplace"
      BY <3>2, <3>3, LifeAssumption DEF LogLocked
    <3>5. wpc[t] \in DOMAIN AfterPush
      BY <3>4 DEF InLogInv
    <3>6. t \in Running
      BY <3>4, <3>5, PushPlaces DEF Running, Started
    <3> QED
      BY <2>3, <3>4, <3>5, <3>6, PushPlaces DEF Proceeds
  <2>6. CASE logCS = NoThread
    <3>1. CASE \E w \in Running : wpc[w] # "wait"
      <4>1. PICK w \in Running : wpc[w] # "wait"
        BY <3>1
      <4>2. pc[w] \in {"idle", "emplace", "release"}
        BY <2>4, <4>1 DEF LogLocked
      <4> QED
        BY <2>3, <2>6, <4>1, <4>2 DEF Proceeds
    <3>2. CASE \A w \in Running : wpc[w] = "wait"
      <4>1. PICK w \in Running : w \in ToWake
        BY <2>4, <3>2 DEF ToWake, Running
      <4>2. Cardinality(ToWake) # 0
        BY <4>1, ToWakeIsFinite, FS_EmptySet
      <4>3. port # << >>
        BY <2>1, <4>2, ToWakeIsFinite
      <4> QED
        BY <2>3, <3>2, <4>1, <4>3, PushPlaces DEF Proceeds
    <3> QED
      BY <3>1, <3>2
  <2> QED
    BY <2>5, <2>6
<1>3. LifeSpec => [](TypeOK /\ LogLocked)
  BY LifeImplementsLog, SemaphoreCountsTheLog, LogIsLocked, PTL
<1>4. LifeInv /\ WakeInv /\ [LifeNext]_lifeVars => WakeInv'
  BY WakeStep
<1>5. TypeOK /\ LifeInv /\ InLogInv /\ [LifeNext]_lifeVars => InLogInv'
  BY InLogStep
<1> QED
  BY <1>2, <1>3, <1>4, <1>5, WakesAtFirst, LifeInvInit, LifeInvStep, PTL DEF LifeSpec

\* The most steps a worker has left once the event is set: in its loop, with
\* the three of each pushMessg, less those of the call it is in.
StepsLeft == [unstarted |-> 17, service |-> 16, read |-> 15, message |-> 12,
              serviced |-> 12, received |-> 12, rearm |-> 9, getData |-> 9,
              done |-> 8, starting |-> 8, wait |-> 5, check |-> 4, ending |-> 3,
              exited |-> 0]

Left(place, at) ==
    StepsLeft[place] - (IF at = "emplace" THEN 1 ELSE IF at = "release" THEN 2 ELSE 0)

Nearer ==
    shutdownEvent = TRUE =>
        \A w \in Pushers : \/ UNCHANGED <<wpc[w], pc[w]>>
                           \/ Left(wpc'[w], pc'[w]) < Left(wpc[w], pc[w])

RunsDown == [][Nearer]_lifeVars

LEMMA LeftFalls ==
    ASSUME NEW from \in WorkerPlaces, NEW to \in WorkerPlaces,
           NEW at \in {"idle", "emplace", "release"},
           \/ from = "wait" /\ to = "check" /\ at = "idle"
           \/ from = "check" /\ to = "ending" /\ at = "idle"
           \/ from = "service" /\ to \in {"serviced", "read", "done"} /\ at = "idle"
           \/ from \in {"rearm", "getData"} /\ to \in {"wait", "done"} /\ at = "idle"
           \/ from \in DOMAIN AfterPush /\ to = AfterPush[from] /\ at = "release"
    PROVE  Left(to, "idle") < Left(from, at)
  BY DEF Left, StepsLeft, AfterPush, WorkerPlaces

(* Once the event is set no worker begins another round: each of its steps *)
(* brings it nearer to its end, and nobody else's takes it further away.   *)
(* With LifeJoinIsNeverStuck this is why stopAndWait gets through.         *)
THEOREM LifeRunsDown == LifeSpec => RunsDown
<1>1. ASSUME TypeOK, LogLocked, LifeInv, WakeInv, InLogInv, LifeNext,
             shutdownEvent = TRUE, NEW w \in Pushers
      PROVE  UNCHANGED <<wpc[w], pc[w]>> \/ Left(wpc'[w], pc'[w]) < Left(wpc[w], pc[w])
  <2>t. /\ wpc \in [Pushers -> WorkerPlaces] /\ w \in Threads
        /\ pc \in [Threads -> {"idle", "emplace", "release", "taken", "pop"}]
        /\ pc[w] \in {"idle", "emplace", "release"}
        /\ Main \in Threads /\ Main \notin Pushers
    BY <1>1, LifeAssumption, LogAssumption DEF TypeOK, LifeInv, LifeType, LogLocked
  <2>o. ASSUME NEW v \in Threads, v # w, pc' = pc \/ \E from, to : Goto(v, from, to),
               wpc' = wpc \/ (v \in Pushers /\ \E to : wpc' = [wpc EXCEPT ![v] = to])
        PROVE  UNCHANGED <<wpc[w], pc[w]>>
    BY <2>t, <2>o DEF Goto
  <2>1. ASSUME NEW v \in Pushers, v # w, Worker(v) PROVE UNCHANGED <<wpc[w], pc[w]>>
    <3>1. pc' = pc \/ \E from, to : Goto(v, from, to)
      BY <2>1, Zenon DEF Worker, Logs, Dequeue, Check, UsePipeServer, GetData, Push,
                         BeginPush, Emplace, ReleaseSemaphore, vars
    <3>2. wpc' = wpc \/ \E to : wpc' = [wpc EXCEPT ![v] = to]
      <4>1. CASE Logs(v)
        BY <4>1 DEF Logs
      <4>2. CASE Dequeue(v) \/ Check(v) \/ UsePipeServer(v) \/ GetData(v)
        BY <4>2 DEF Dequeue, Check, UsePipeServer, GetData, Goes
      <4> QED
        BY <2>1, <4>1, <4>2 DEF Worker
    <3>3. v \in Threads
      OBVIOUS
    <3> QED
      BY <2>1, <2>o, <3>1, <3>2, <3>3, Zenon
  <2>2. CASE Logs(w)
    <3>1. wpc[w] \in DOMAIN AfterPush
      BY <2>2 DEF Logs
    <3>2. CASE BeginPush(w) \/ Emplace(w)
      <4>1. \/ pc[w] = "idle" /\ pc'[w] = "emplace"
            \/ pc[w] = "emplace" /\ pc'[w] = "release"
        BY <2>t, <3>2 DEF BeginPush, Emplace, Goto
      <4>2. wpc'[w] = wpc[w]
        BY <2>2, <4>1 DEF Logs
      <4>3. StepsLeft[wpc[w]] \in Nat
        BY <2>t DEF StepsLeft, WorkerPlaces
      <4> QED
        BY <4>1, <4>2, <4>3 DEF Left
    <3>3. CASE ReleaseSemaphore(w)
      <4>1. pc[w] = "release" /\ pc'[w] = "idle"
        BY <2>t, <3>3 DEF ReleaseSemaphore, Goto
      <4>2. wpc'[w] = AfterPush[wpc[w]] /\ AfterPush[wpc[w]] \in WorkerPlaces
        BY <2>t, <2>2, <3>1, <4>1, PushPlaces DEF Logs
      <4> QED
        BY <2>t, <3>1, <4>1, <4>2, LeftFalls
    <3> QED
      BY <2>2, <3>2, <3>3 DEF Logs, Push
  <2>3. CASE Dequeue(w) \/ Check(w) \/ UsePipeServer(w) \/ GetData(w)
    <3>1. /\ pc' = pc
          /\ \/ wpc[w] = "wait" /\ wpc'[w] = "check"
             \/ wpc[w] = "check" /\ wpc'[w] = "ending"
             \/ wpc[w] = "service" /\ wpc'[w] \in {"serviced", "read", "done"}
             \/ wpc[w] \in {"rearm", "getData"} /\ wpc'[w] \in {"wait", "done"}
      <4>1. CASE Dequeue(w) \/ UsePipeServer(w) \/ GetData(w)
        BY <2>t, <4>1 DEF Dequeue, UsePipeServer, GetData, Runs, Goes, vars
      <4>2. CASE Check(w)
        <5>1. wpc' = [wpc EXCEPT ![w] = "ending"] /\ wpc[w] = "check" /\ pc' = pc
          BY <1>1, <4>2, Zenon DEF Check, Runs, Goes, vars
        <5> QED
          BY <2>t, <5>1
      <4> QED
        BY <2>3, <4>1, <4>2
    <3>2. pc[w] = "idle"
      BY <1>1, <3>1, PushPlaces DEF InLogInv
    <3>3. wpc'[w] \in WorkerPlaces
      BY <3>1 DEF WorkerPlaces
    <3> QED
      BY <2>t, <3>1, <3>2, <3>3, LeftFalls
  <2>4. CASE ShowMessage
    <3>1. wpc' = wpc /\ \E from, to : Goto(Main, from, to)
      BY <2>4, Zenon DEF ShowMessage, PopMessg, WaitSemaphore, BeginPop, Pop, workers
    <3> QED
      BY <2>t, <2>o, <3>1
  <2>5. CASE \/ Ask \/ PostShutdown \/ DestroyMember \/ StopWaiter \/ Continue \/ InvalidCommand
             \/ CreateThreadFails \/ Stop \/ Waiter \/ Clients \/ Pause
    <3>1. UNCHANGED <<pc, wpc>>
      BY <2>5, Zenon DEF Ask, PostShutdown, DestroyMember, StopWaiter, Continue,
                         InvalidCommand, CreateThreadFails, Stop, StopAndWait, Waiter,
                         Clients, Pause, lifeVars, vars, workers
    <3> QED
      BY <3>1
  <2>6. CASE Join(TRUE) \/ Join(FALSE) \/ JoinWaiter(TRUE) \/ JoinWaiter(FALSE)
    <3>1. UNCHANGED <<pc, wpc>>
      BY <2>6, Zenon DEF Join, JoinWaiter, vars, workers
    <3> QED
      BY <3>1
  <2>7. ~CreateWorker
    BY <1>1 DEF CreateWorker, WakeInv
  <2>8. ASSUME NEW v \in Pushers, CopyOverflows(v) PROVE UNCHANGED <<wpc[w], pc[w]>>
    BY <2>8 DEF CopyOverflows, vars, workers
  <2> QED
    BY <1>1, <2>1, <2>2, <2>3, <2>4, <2>5, <2>6, <2>7, <2>8 DEF LifeNext, Console, Worker
<1>2. LifeSpec => [](TypeOK /\ LogLocked)
  BY LifeImplementsLog, SemaphoreCountsTheLog, LogIsLocked, PTL
<1>3. LifeInv /\ WakeInv /\ [LifeNext]_lifeVars => WakeInv'
  BY WakeStep
<1>4. TypeOK /\ LifeInv /\ InLogInv /\ [LifeNext]_lifeVars => InLogInv'
  BY InLogStep
<1>5. TypeOK /\ LogLocked /\ LifeInv /\ WakeInv /\ InLogInv /\ [LifeNext]_lifeVars
        => [Nearer]_lifeVars
  BY <1>1 DEF Nearer
<1> QED
  BY <1>2, <1>3, <1>4, <1>5, WakesAtFirst, LifeInvInit, LifeInvStep, PTL
     DEF LifeSpec, RunsDown
=============================================================================
