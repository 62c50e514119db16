-------------------------- MODULE Task6Client_proofs --------------------------
(***************************************************************************)
(* Proofs about Task6Client, for any bounds, any caller and every build.   *)
(*                                                                         *)
(* The pipe client under it keeps the invariant of OutPipeClient_proofs    *)
(* although nothing is assumed of assertions here: wait calls service only *)
(* once the event is signaled.  To it comes that a life of the client      *)
(* makes one write (PipeInv), and that the log of that life is its outcome *)
(* (LogInv).                                                               *)
(***************************************************************************)
EXTENDS Task6Client, OutPipeClient_proofs

USE ClientAssumption, CallerAssumption
USE DEF WriteAllowed, Closed, ResetEvent, WritePending
USE DEF NotStarted, Signaled, ReturnsTrue, DataIsSent, NotSent

\* One write in the life of a client; none before it starts.
PipeInv ==
    /\ ClientInv /\ ~aborted
    /\ ~pipeClient => outcome = << >> /\ inFlight = {} /\ ~event
    /\ phase = "write" => outcome = << >> /\ pipeClient
    /\ Len(outcome) <= 1

LogInv ==
    /\ \A l \in Logged : l[1] <= stops
    /\ <<stops, "successful">> \in Logged => outcome = <<"ok">>
    /\ <<stops, "failed">> \in Logged => outcome = <<"failed">>

Phases == {"start", "write", "wait", "again", "pop", "ask", "left"}
Messages == (0 .. MaxStops) \X {"started", "successful", "failed", "sent", "timeout"}

-----------------------------------------------------------------------------
LEMMA PipeInit == ClientInit => PipeInv
  <1> SUFFICES ASSUME ClientInit PROVE PipeInv
    OBVIOUS
  <1>1. ClientInv
    BY ClientInvInit DEF ClientInit
  <1>2. /\ ~aborted /\ ~event /\ outcome = << >> /\ inFlight = {}
        /\ phase # "write"
    BY DEF ClientInit, Init
  <1>3. QED
    BY <1>1, <1>2 DEF PipeInv

\* A step that leaves the pipe client alone and is not a start.
LEMMA PipeRests ==
    ASSUME PipeInv, UNCHANGED <<vars, pipeClient>>, phase' # "write"
    PROVE  PipeInv'
  <1>1. ClientInv'
    BY DEF PipeInv, ClientInv, TypeOK, EventInv, InFlightIsPending,
           ReportsAreTrue, vars
  <1>2. QED
    BY <1>1 DEF PipeInv, vars

\* A write, an open, or the kernel: steps that need no assertion.
LEMMA PipeMoves ==
    ASSUME PipeInv, Open(Caller) \/ Write(Caller) \/ CompleteWrite
    PROVE  ClientInv' /\ ~aborted'
  <1>1. [Next]_vars
    BY DEF Next, Calls
  <1>2. ASSUME NEW t \in Threads, Service(t) \/ EndWait(t)
        PROVE  AssertsEnabled \/ event
    <2>1. Open(Caller) \/ Write(Caller) \/ CompleteWrite => UNCHANGED reports
      BY DEF Open, Write, CompleteWrite
    <2>2. ASSUME ~AssertsEnabled, ~event PROVE FALSE
      <3>1. Len(reports') = Len(reports) + 1
        BY <1>2, <2>2 DEF Service, EndWait, Reports, PipeInv, ClientInv, TypeOK
      <3>2. QED
        BY <2>1, <3>1 DEF PipeInv, ClientInv, TypeOK
    <2>3. QED
      BY <2>2
  <1>3. ClientInv'
    BY <1>1, <1>2, StepKeepsInv DEF PipeInv
  <1>4. ~aborted'
    BY DEF PipeInv, Open, Write, CompleteWrite
  <1>5. QED
    BY <1>3, <1>4

LEMMA PipeStep == PipeInv /\ [ClientNext]_clientVars => PipeInv'
  <1> SUFFICES ASSUME PipeInv, [ClientNext]_clientVars PROVE PipeInv'
    OBVIOUS
  <1>1. CASE StartPipe
    <2>1. CASE Open(Caller)
      <3>1. outcome' = << >> /\ pipeClient'
        BY <1>1, <2>1 DEF StartPipe, Open, kernelVars, PipeInv
      <3>2. QED
        BY <2>1, <3>1, PipeMoves DEF PipeInv
    <2>2. CASE UNCHANGED vars /\ Throws
      <3>1. ClientInv'
        BY <2>2 DEF PipeInv, ClientInv, TypeOK, EventInv, InFlightIsPending,
                    ReportsAreTrue, vars
      <3>2. pipeClient' /\ phase' # "write"
        BY <1>1, <2>2 DEF StartPipe, Throws
      <3>3. QED
        BY <2>2, <3>1, <3>2 DEF PipeInv, vars
    <2>3. QED
      BY <1>1, <2>1, <2>2 DEF StartPipe
  <1>2. CASE WriteGreeting
    <2>1. CASE Write(Caller) /\ phase' = "wait"
      <3>1. Len(outcome') = 1
        BY <1>2, <2>1 DEF WriteGreeting, Write, PipeInv
      <3>2. pipeClient'
        BY <1>2, <2>1 DEF WriteGreeting, Write, PipeInv
      <3>3. QED
        BY <2>1, <3>1, <3>2, PipeMoves DEF PipeInv
    <2>2. CASE UNCHANGED vars /\ Throws
      BY <1>2, <2>2, PipeRests DEF WriteGreeting, Throws
    <2>3. QED
      BY <1>2, <2>1, <2>2 DEF WriteGreeting
  <1>3. CASE WaitForPipe
    <2>1. event /\ Reports /\ UNCHANGED <<overlapped, inFlight, outcome>>
      BY <1>3 DEF WaitForPipe, Service
    <2>2. Service(Caller)
      BY <1>3 DEF WaitForPipe
    <2>3. TypeOK'
      BY <2>2, TypeStep DEF Next, Calls, PipeInv, ClientInv
    <2>4. ClientInv' /\ ~aborted'
      BY <2>1, <2>3, SignaledReport DEF ClientInv, PipeInv
    <2>5. pipeClient' /\ phase' = "pop"
      BY <1>3 DEF WaitForPipe
    <2>6. QED
      BY <2>1, <2>4, <2>5 DEF PipeInv
  <1>4. CASE Stop
    <2>1. TypeOK'
      <3>1. reports' \in Seq([write : Nat, ok : BOOLEAN]) /\ outcome' \in Seq(Status)
        BY <1>4 DEF Stop
      <3>2. event' \in BOOLEAN /\ aborted' \in BOOLEAN
        BY <1>4 DEF Stop, PipeInv, ClientInv, TypeOK
      <3>3. QED
        BY <1>4, <3>1, <3>2 DEF Stop, PipeInv, ClientInv, TypeOK
    <2>2. EventInv' /\ InFlightIsPending' /\ ReportsAreTrue'
      BY <1>4 DEF Stop, EventInv, InFlightIsPending, ReportsAreTrue
    <2>3. /\ ~aborted' /\ ~event' /\ outcome' = << >> /\ inFlight' = {}
          /\ phase' # "write"
      BY <1>4 DEF Stop, PipeInv
    <2>4. QED
      BY <2>1, <2>2, <2>3 DEF PipeInv, ClientInv
  <1>5. CASE Kernel
    <2>1. CompleteWrite /\ UNCHANGED <<phase, pipeClient>>
      BY <1>5 DEF Kernel, ownVars, clientState
    <2>2. inFlight # {} /\ outcome # << >>
      BY <2>1 DEF CompleteWrite, PipeInv, ClientInv, TypeOK
    <2>3. Len(outcome') = Len(outcome)
      BY <2>1 DEF CompleteWrite, PipeInv, ClientInv, TypeOK
    <2>4. pipeClient' /\ phase' # "write"
      BY <2>1, <2>2 DEF PipeInv
    <2>5. ClientInv' /\ ~aborted'
      BY <2>1, PipeMoves
    <2>6. QED
      BY <2>3, <2>4, <2>5 DEF PipeInv
  <1>6. CASE \/ StartSharedMemory \/ WriteData \/ TimeOut \/ NotRunning
             \/ ShowMessages \/ TenSeconds \/ Answer
    BY <1>6, PipeRests
       DEF StartSharedMemory, WriteData, TimeOut, NotRunning, ShowMessages,
           TenSeconds, Answer, Throws, clientState
  <1>7. CASE MemoryTaken \/ MemoryFreed \/ Left \/ UNCHANGED clientVars
    <2>1. UNCHANGED <<vars, pipeClient, phase>>
      BY <1>7 DEF MemoryTaken, MemoryFreed, Left, clientVars, ownVars, clientState
    <2>2. ClientInv'
      BY <2>1 DEF PipeInv, ClientInv, TypeOK, EventInv, InFlightIsPending,
                  ReportsAreTrue, vars
    <2>3. QED
      BY <2>1, <2>2 DEF PipeInv, vars
  <1>8. QED
    BY <1>1, <1>2, <1>3, <1>4, <1>5, <1>6, <1>7 DEF ClientNext, Start, Wait

-----------------------------------------------------------------------------
LEMMA ClientTypeInit == ClientInit => ClientTypeOK
  <1> SUFFICES ASSUME ClientInit PROVE ClientTypeOK
    OBVIOUS
  <1>1. /\ pipeClient \in BOOLEAN /\ memClient \in BOOLEAN /\ bDataSent \in BOOLEAN
        /\ svToCl \in BOOLEAN /\ ~(pipeClient /\ memClient)
    BY Zenon DEF ClientInit
  <1>2. TypeOK
    BY TypeInit DEF ClientInit
  <1>3. QED
    BY <1>1, <1>2 DEF ClientInit, ClientTypeOK

\* What a step does to the log: at most one entry, of this life, more.
Logs == \/ Logged' = Logged
        \/ \E m \in {"started", "successful", "failed", "sent", "timeout"} :
             Logged' = Logged \cup {<<stops, m>>}

LEMMA PushedIsLogged ==
    ASSUME NEW m, pushMessg(m), shown' = shown
    PROVE  Logged' = Logged \cup {<<stops, m>>}
  <1>1. QED
    BY DEF pushMessg, Logged

LEMMA StepLogs == [ClientNext]_clientVars => Logs
  <1> SUFFICES ASSUME [ClientNext]_clientVars PROVE Logs
    OBVIOUS
  <1>1. CASE WriteGreeting
    BY <1>1, PushedIsLogged DEF WriteGreeting, Logs, Logged
  <1>2. CASE StartSharedMemory
    BY <1>2, PushedIsLogged DEF StartSharedMemory, Logs, Logged
  <1>3. CASE WaitForPipe
    BY <1>3, PushedIsLogged DEF WaitForPipe, Logs
  <1>4. CASE WriteData
    BY <1>4, PushedIsLogged DEF WriteData, Logs
  <1>5. CASE TimeOut
    BY <1>5, PushedIsLogged DEF TimeOut, Logs, Logged
  <1>6. CASE ShowMessages
    BY <1>6 DEF ShowMessages, Logs, Logged
  <1>7. CASE \/ StartPipe \/ NotRunning \/ TenSeconds \/ Answer \/ Stop \/ Kernel
             \/ MemoryTaken \/ MemoryFreed \/ Left \/ UNCHANGED clientVars
    BY <1>7 DEF StartPipe, NotRunning, TenSeconds, Answer, Stop, Kernel,
                MemoryTaken, MemoryFreed, Left, Logs, Logged, clientVars,
                ownVars, clientState
  <1>8. QED
    BY <1>1, <1>2, <1>3, <1>4, <1>5, <1>6, <1>7 DEF ClientNext, Start, Wait

LEMMA ClientTypeStep ==
    ClientTypeOK /\ PipeInv /\ [ClientNext]_clientVars => ClientTypeOK'
  <1> SUFFICES ASSUME ClientTypeOK, PipeInv, [ClientNext]_clientVars
               PROVE  ClientTypeOK'
    OBVIOUS
  <1>1. TypeOK'
    BY PipeStep DEF PipeInv, ClientInv
  <1>2. caller' = caller
    BY DEF ClientNext, Start, Wait, StartPipe, WriteGreeting, StartSharedMemory,
           WaitForPipe, WriteData, TimeOut, NotRunning, ShowMessages, TenSeconds,
           Answer, Stop, Kernel, MemoryTaken, MemoryFreed, Left, clientVars,
           ownVars, clientState
  <1>3. stops' \in 0 .. MaxStops /\ sends' \in Nat
    BY DEF ClientTypeOK, ClientNext, Start, Wait, StartPipe, WriteGreeting,
           StartSharedMemory, WaitForPipe, WriteData, TimeOut, NotRunning,
           ShowMessages, TenSeconds, Answer, Stop, Kernel, MemoryTaken,
           MemoryFreed, Left, clientVars, ownVars, clientState
  <1>4. phase' \in Phases
    BY DEF ClientTypeOK, Phases, ClientNext, Start, Wait, StartPipe, WriteGreeting,
           StartSharedMemory, WaitForPipe, WriteData, TimeOut, NotRunning,
           ShowMessages, TenSeconds, Answer, Stop, Kernel, MemoryTaken,
           MemoryFreed, Left, clientVars, ownVars, clientState, Throws
  <1>5. (messages \cup shown)' \subseteq Messages
    <2>1. Logged \subseteq Messages /\ stops \in 0 .. MaxStops
      BY DEF ClientTypeOK, Logged, Messages
    <2>2. Logged' \subseteq Messages
      BY <2>1, StepLogs DEF Logs, Messages
    <2>3. QED
      BY <2>2 DEF Logged
  <1>6. pipeClient' \in BOOLEAN /\ memClient' \in BOOLEAN /\ ~(pipeClient' /\ memClient')
    <2>1. CASE StartPipe
      BY <2>1, Zenon DEF StartPipe, ClientTypeOK
    <2>2. CASE StartSharedMemory
      BY <2>2, Zenon DEF StartSharedMemory, ClientTypeOK
    <2>3. CASE Stop
      BY <2>3, Zenon DEF Stop, ClientTypeOK
    <2>4. CASE UNCHANGED <<pipeClient, memClient>>
      BY <2>4 DEF ClientTypeOK
    <2>5. QED
      BY <2>1, <2>2, <2>3, <2>4
         DEF ClientNext, Start, Wait, WriteGreeting, WaitForPipe, WriteData,
             TimeOut, NotRunning, ShowMessages, TenSeconds, Answer, Kernel,
             MemoryTaken, MemoryFreed, Left, clientVars, ownVars, clientState
  <1>7. bDataSent' \in BOOLEAN
    BY DEF ClientTypeOK, ClientNext, Start, Wait, StartPipe, WriteGreeting,
           StartSharedMemory, WaitForPipe, WriteData, TimeOut, NotRunning,
           ShowMessages, TenSeconds, Answer, Stop, Kernel, MemoryTaken,
           MemoryFreed, Left, clientVars, ownVars, clientState
  <1>8. svToCl' \in BOOLEAN
    BY DEF ClientTypeOK, ClientNext, Start, Wait, StartPipe, WriteGreeting,
           StartSharedMemory, WaitForPipe, WriteData, TimeOut, NotRunning,
           ShowMessages, TenSeconds, Answer, Stop, Kernel, MemoryTaken,
           MemoryFreed, Left, clientVars, ownVars, clientState
  <1>9. caller \in {"console", "any"}
    BY DEF ClientTypeOK
  <1>10. QED
    BY <1>1, <1>2, <1>3, <1>4, <1>5, <1>6, <1>7, <1>8, <1>9
       DEF ClientTypeOK, Phases, Messages

(* Type correctness of the client and its caller; and a client never has   *)
(* both a pipe client and a shared-memory client, whatever fails and       *)
(* however often it is stopped and started.                                *)
THEOREM ClientTypeCorrect == ClientSpec => []ClientTypeOK
  <1>1. ClientInit => ClientTypeOK /\ PipeInv
    BY ClientTypeInit, PipeInit
  <1>2. ClientTypeOK /\ PipeInv /\ [ClientNext]_clientVars
          => (ClientTypeOK /\ PipeInv)'
    BY ClientTypeStep, PipeStep
  <1>3. QED
    BY <1>1, <1>2, PTL DEF ClientSpec

-----------------------------------------------------------------------------
LEMMA LogInit == ClientInit => LogInv
  <1>1. ClientInit => Logged = {}
    BY DEF ClientInit, Logged
  <1>2. QED
    BY <1>1 DEF LogInv

\* What happens to the outcome: nothing, unless the write begins or ends.
LEMMA LogStep ==
    ClientTypeOK /\ PipeInv /\ LogInv /\ [ClientNext]_clientVars => LogInv'
  <1> SUFFICES ASSUME ClientTypeOK, PipeInv, LogInv, [ClientNext]_clientVars
               PROVE  LogInv'
    OBVIOUS
  <1> USE DEF LogInv
  <1>0. stops \in Nat
    BY DEF ClientTypeOK
  <1>1. ASSUME stops' = stops, outcome' = outcome,
               \/ Logged' = Logged
               \/ \E m \in {"started", "sent", "timeout"} :
                    Logged' = Logged \cup {<<stops, m>>}
        PROVE  LogInv'
    BY <1>0, <1>1
  <1>2. CASE StartPipe
    BY <1>1, <1>2 DEF StartPipe, Open, kernelVars, vars, Logged
  <1>3. CASE WriteGreeting
    <2>1. CASE Write(Caller) /\ pushMessg("started")
      <3>1. outcome = << >>
        BY <1>3, <2>1 DEF WriteGreeting, Write, PipeInv
      <3>2. /\ <<stops, "successful">> \notin Logged
            /\ <<stops, "failed">> \notin Logged
        BY <3>1
      <3>3. Logged' = Logged \cup {<<stops, "started">>} /\ stops' = stops
        BY <1>3, <2>1, PushedIsLogged DEF WriteGreeting
      <3>4. QED
        BY <1>0, <3>2, <3>3
    <2>2. CASE UNCHANGED <<vars, messages>>
      BY <1>1, <1>3, <2>2 DEF WriteGreeting, vars, Logged
    <2>3. QED
      BY <1>3, <2>1, <2>2 DEF WriteGreeting
  <1>4. CASE WaitForPipe
    <2> DEFINE ok == reports'[Len(reports')].ok
    <2>1. event /\ Reports /\ UNCHANGED <<overlapped, inFlight, outcome, stops>>
      BY <1>4 DEF WaitForPipe, Service
    <2>2. ok <=> outcome[Len(outcome)] = "ok"
      BY <2>1, SignaledReport DEF PipeInv
    <2>3. /\ outcome # << >> /\ outcome[Len(outcome)] \in {"ok", "failed"}
          /\ Len(outcome) = 1
      <3>1. /\ outcome \in Seq(Status) /\ outcome # << >> /\ Len(outcome) <= 1
            /\ overlapped = outcome[Len(outcome)] /\ overlapped # "pending"
        BY <2>1 DEF PipeInv, ClientInv, EventInv, TypeOK
      <3>2. Len(outcome) = 1
        <4>1. Len(outcome) \in Nat /\ Len(outcome) # 0
          BY <3>1
        <4>2. \A n \in Nat : n # 0 /\ n <= 1 => n = 1
          OBVIOUS
        <4>3. QED
          BY <3>1, <4>1, <4>2, Zenon
      <3>3. outcome[1] \in Status
        BY <3>1, <3>2
      <3>4. QED
        BY <3>1, <3>2, <3>3 DEF Status
    <2>4. outcome = IF ok THEN <<"ok">> ELSE <<"failed">>
      BY <2>2, <2>3 DEF PipeInv, ClientInv, TypeOK
    <2>5. PICK m : /\ Logged' = Logged \cup {<<stops, m>>}
                   /\ m = IF ok THEN "successful" ELSE "failed"
      BY <1>4, PushedIsLogged DEF WaitForPipe
    <2> HIDE DEF ok
    <2>6. QED
      BY <1>0, <2>1, <2>4, <2>5
  <1>5. CASE Stop
    <2>1. Logged' = Logged /\ stops' = stops + 1
      BY <1>5 DEF Stop, Logged
    <2>2. ASSUME NEW m PROVE <<stops + 1, m>> \notin Logged
      <3>1. <<stops + 1, m>>[1] = stops + 1
        OBVIOUS
      <3>2. QED
        BY <1>0, <3>1
    <2>3. \A l \in Logged' : l[1] <= stops'
      <3>1. Logged \subseteq Messages
        BY DEF ClientTypeOK, Logged, Messages
      <3>2. \A l \in Logged : l[1] \in Nat
        BY <3>1 DEF Messages
      <3>3. QED
        BY <1>0, <2>1, <3>2
    <2>4. QED
      BY <2>1, <2>2, <2>3
  <1>6. CASE Kernel
    <2>1. CompleteWrite /\ UNCHANGED <<messages, shown, stops>>
      BY <1>6 DEF Kernel, ownVars, clientState
    <2>2. inFlight = {Len(outcome)} /\ outcome[Len(outcome)] = "pending"
      BY <2>1 DEF CompleteWrite, PipeInv, ClientInv, EventInv, InFlightIsPending
    <2>3. outcome # <<"ok">> /\ outcome # <<"failed">>
      BY <2>2
    <2>4. QED
      BY <2>1, <2>3 DEF Logged
  <1>7. CASE StartSharedMemory
    BY <1>1, <1>7, PushedIsLogged DEF StartSharedMemory, vars, Logged
  <1>8. CASE WriteData
    BY <1>1, <1>8, PushedIsLogged DEF WriteData, vars
  <1>9. CASE TimeOut
    BY <1>1, <1>9, PushedIsLogged DEF TimeOut, vars, Logged
  <1>10. CASE \/ NotRunning \/ ShowMessages \/ TenSeconds \/ Answer
              \/ MemoryTaken \/ MemoryFreed \/ Left \/ UNCHANGED clientVars
    BY <1>1, <1>10
       DEF NotRunning, ShowMessages, TenSeconds, Answer, MemoryTaken, MemoryFreed,
           Left, clientVars, ownVars, clientState, vars, Logged
  <1>11. QED
    BY <1>2, <1>3, <1>4, <1>5, <1>6, <1>7, <1>8, <1>9, <1>10
       DEF ClientNext, Start, Wait

(* Task6Client::wait, in every build: the assertion in service never fails *)
(* and what service tells wait is true; and what is logged of the greeting *)
(* of this life of the client is what became of it.                        *)
THEOREM WaitIsTruthful == ClientSpec => []WaitTellsTheTruth
  <1>1. ClientInit => ClientTypeOK /\ PipeInv /\ LogInv
    BY ClientTypeInit, PipeInit, LogInit
  <1>2. ClientTypeOK /\ PipeInv /\ LogInv /\ [ClientNext]_clientVars
          => (ClientTypeOK /\ PipeInv /\ LogInv)'
    BY ClientTypeStep, PipeStep, LogStep
  <1>3. PipeInv /\ LogInv => WaitTellsTheTruth
    BY DEF PipeInv, ClientInv, LogInv, WaitTellsTheTruth
  <1>4. QED
    BY <1>1, <1>2, <1>3, PTL DEF ClientSpec

-----------------------------------------------------------------------------
LEMMA SentInit == ClientInit => SentOnce
  <1> SUFFICES ASSUME ClientInit PROVE SentOnce
    OBVIOUS
  <1>1. Logged = {} /\ sends = 0 /\ ~bDataSent
    BY DEF ClientInit, Logged
  <1>2. QED
    BY <1>1 DEF SentOnce

LEMMA SentStep == ClientTypeOK /\ SentOnce /\ [ClientNext]_clientVars => SentOnce'
  <1> SUFFICES ASSUME ClientTypeOK, SentOnce, [ClientNext]_clientVars
               PROVE  SentOnce'
    OBVIOUS
  <1>0. sends \in Nat /\ stops \in 0 .. MaxStops
    BY DEF ClientTypeOK
  <1>1. CASE WriteData
    <2>1. /\ sends = 0 /\ sends' = sends + 1
          /\ bDataSent'
      BY <1>0, <1>1 DEF WriteData, SentOnce
    <2>2. Logged' = Logged \cup {<<stops, "sent">>}
      BY <1>1, PushedIsLogged DEF WriteData
    <2>3. QED
      BY <1>0, <2>1, <2>2 DEF SentOnce
  <1>2. ASSUME UNCHANGED <<sends, bDataSent>>,
               \/ Logged' = Logged
               \/ \E m \in {"started", "successful", "failed", "timeout"} :
                    Logged' = Logged \cup {<<stops, m>>}
        PROVE  SentOnce'
    <2>1. \A n \in 0 .. MaxStops : <<n, "sent">> \in Logged' <=> <<n, "sent">> \in Logged
      BY <1>2
    <2>2. QED
      BY <1>2, <2>1 DEF SentOnce
  <1>3. CASE WriteGreeting
    BY <1>2, <1>3, PushedIsLogged DEF WriteGreeting, Logged
  <1>4. CASE WaitForPipe
    BY <1>2, <1>4, PushedIsLogged DEF WaitForPipe
  <1>5. CASE StartSharedMemory
    BY <1>2, <1>5, PushedIsLogged DEF StartSharedMemory, Logged
  <1>6. CASE TimeOut
    BY <1>2, <1>6, PushedIsLogged DEF TimeOut, Logged
  <1>7. CASE \/ StartPipe \/ NotRunning \/ ShowMessages \/ TenSeconds \/ Answer
             \/ Stop \/ Kernel \/ MemoryTaken \/ MemoryFreed \/ Left
             \/ UNCHANGED clientVars
    BY <1>2, <1>7
       DEF StartPipe, NotRunning, ShowMessages, TenSeconds, Answer, Stop, Kernel,
           MemoryTaken, MemoryFreed, Left, clientVars, ownVars, clientState, Logged
  <1>8. QED
    BY <1>1, <1>3, <1>4, <1>5, <1>6, <1>7 DEF ClientNext, Start, Wait

(* Task6Client::wait writes the greeting to the shared memory at most      *)
(* once, however many waits time out and however often the client is       *)
(* stopped and started, and logs it as sent exactly when it was.           *)
THEOREM GreetingIsSentOnce == ClientSpec => []SentOnce
  <1>1. ClientInit => ClientTypeOK /\ PipeInv /\ SentOnce
    BY ClientTypeInit, PipeInit, SentInit
  <1>2. ClientTypeOK /\ PipeInv /\ SentOnce /\ [ClientNext]_clientVars
          => (ClientTypeOK /\ PipeInv /\ SentOnce)'
    BY ClientTypeStep, PipeStep, SentStep
  <1>3. QED
    BY <1>1, <1>2, PTL DEF ClientSpec
-----------------------------------------------------------------------------
Outcomes == {"successful", "failed", "sent"}

\* While the write of this life has not been logged, its result is on its way:
\* the kernel has the write, or the event is signaled for the next wait.
ResultIsDue ==
    outcome # << >> =>
        \/ pipeClient /\ "WRITING" \in state /\ (event \/ inFlight # {})
        \/ \E r \in {"successful", "failed"} : <<stops, r>> \in Logged

\* What tells an outcome leaves the log before the caller does anything else.
OutcomesAreTaken ==
    \A l \in messages : l[2] \in Outcomes => phase = "pop"

NoOutcomeForgotten == ResultIsDue /\ OutcomesAreTaken

LEMMA ForgottenInit == ClientInit => NoOutcomeForgotten
  <1> SUFFICES ASSUME ClientInit PROVE NoOutcomeForgotten
    OBVIOUS
  <1>1. outcome = << >> /\ messages = {}
    BY DEF ClientInit, Init
  <1>2. QED
    BY <1>1 DEF NoOutcomeForgotten, ResultIsDue, OutcomesAreTaken

\* A step that leaves the pipe alone and forgets nothing of the log.
LEMMA DueRests ==
    ASSUME ResultIsDue, Logged \subseteq Logged',
           UNCHANGED <<vars, pipeClient, stops>>
    PROVE  ResultIsDue'
  BY DEF ResultIsDue, vars

LEMMA DueStep ==
    PipeInv /\ ClientTypeOK /\ ResultIsDue /\ [ClientNext]_clientVars => ResultIsDue'
  <1> SUFFICES ASSUME PipeInv, ClientTypeOK, ResultIsDue, [ClientNext]_clientVars
               PROVE  ResultIsDue'
    OBVIOUS
  <1>1. CASE StartPipe
    <2>1. outcome = << >>
      BY <1>1 DEF StartPipe, PipeInv
    <2>2. outcome' = << >>
      BY <1>1, <2>1 DEF StartPipe, Open, kernelVars, vars
    <2>3. QED
      BY <2>2 DEF ResultIsDue
  <1>2. CASE WriteGreeting
    <2>1. CASE Write(Caller)
      <3>1. pipeClient'
        BY <1>2 DEF WriteGreeting, PipeInv
      <3>2. "WRITING" \in state' /\ inFlight' # {}
        BY <2>1 DEF Write
      <3>3. QED
        BY <3>1, <3>2 DEF ResultIsDue
    <2>2. CASE UNCHANGED <<vars, messages>>
      BY <1>2, <2>2, DueRests DEF WriteGreeting, Logged
    <2>3. QED
      BY <1>2, <2>1, <2>2 DEF WriteGreeting
  <1>3. CASE WaitForPipe
    <2>1. PICK r \in {"successful", "failed"} : pushMessg(r)
      BY <1>3 DEF WaitForPipe
    <2>2. <<stops, r>> \in Logged' /\ stops' = stops
      BY <1>3, <2>1, PushedIsLogged DEF WaitForPipe
    <2>3. QED
      BY <2>2 DEF ResultIsDue
  <1>4. CASE Kernel
    <2>1. CompleteWrite /\ UNCHANGED <<pipeClient, messages, shown, stops>>
      BY <1>4 DEF Kernel, ownVars, clientState
    <2>2. pipeClient /\ state = {"CONNECTED", "WRITING"}
      BY <2>1 DEF CompleteWrite, PipeInv, ClientInv, EventInv
    <2>3. "WRITING" \in state' /\ event' /\ pipeClient'
      BY <2>1, <2>2 DEF CompleteWrite
    <2>4. QED
      BY <2>3 DEF ResultIsDue
  <1>5. CASE Stop
    BY <1>5 DEF Stop, ResultIsDue
  <1>6. CASE StartSharedMemory \/ WriteData \/ TimeOut
    <2>1. UNCHANGED <<vars, pipeClient, stops, shown>>
      BY <1>6 DEF StartSharedMemory, WriteData, TimeOut
    <2>2. messages \subseteq messages'
      BY <1>6 DEF StartSharedMemory, WriteData, TimeOut, pushMessg
    <2>3. QED
      BY <2>1, <2>2, DueRests DEF Logged
  <1>7. CASE ShowMessages
    BY <1>7, DueRests DEF ShowMessages, Logged
  <1>8. CASE \/ NotRunning \/ TenSeconds \/ Answer \/ MemoryTaken \/ MemoryFreed
             \/ Left \/ UNCHANGED clientVars
    BY <1>8, DueRests
       DEF NotRunning, TenSeconds, Answer, MemoryTaken, MemoryFreed, Left,
           clientVars, ownVars, clientState, Logged
  <1>9. QED
    BY <1>1, <1>2, <1>3, <1>4, <1>5, <1>6, <1>7, <1>8 DEF ClientNext, Start, Wait

LEMMA TakenStep ==
    OutcomesAreTaken /\ [ClientNext]_clientVars => OutcomesAreTaken'
  <1> SUFFICES ASSUME OutcomesAreTaken, [ClientNext]_clientVars
               PROVE  OutcomesAreTaken'
    OBVIOUS
  <1>1. CASE WaitForPipe \/ WriteData
    BY <1>1 DEF WaitForPipe, WriteData, OutcomesAreTaken
  <1>2. CASE ShowMessages
    BY <1>2 DEF ShowMessages, OutcomesAreTaken
  \* Elsewhere the caller does not come from popMessg, and logs no outcome.
  <1>3. CASE WriteGreeting \/ StartSharedMemory \/ TimeOut
    <2>1. phase # "pop"
      BY <1>3 DEF WriteGreeting, StartSharedMemory, TimeOut, CanStart, Waits
    <2>2. \A l \in messages' : l \in messages \/ l[2] \in {"started", "timeout"}
      BY <1>3 DEF WriteGreeting, StartSharedMemory, TimeOut, pushMessg
    <2>3. QED
      BY <2>1, <2>2 DEF OutcomesAreTaken, Outcomes
  <1>4. CASE \/ StartPipe \/ NotRunning \/ TenSeconds \/ Answer \/ Stop
    BY <1>4 DEF StartPipe, NotRunning, TenSeconds, Answer, Stop, CanStart, Waits,
                clientState, OutcomesAreTaken
  <1>5. CASE \/ Kernel \/ MemoryTaken \/ MemoryFreed \/ Left \/ UNCHANGED clientVars
    BY <1>5 DEF Kernel, MemoryTaken, MemoryFreed, Left, clientVars, ownVars,
                clientState, OutcomesAreTaken
  <1>6. QED
    BY <1>1, <1>2, <1>3, <1>4, <1>5 DEF ClientNext, Start, Wait

(* Task6Client::wait, however many waits time out in between: the result   *)
(* of the greeting's write is in the kernel, or signaled for the next wait *)
(* (reset by nobody else), or logged; and what is logged of an outcome is  *)
(* popped by the caller's next step.  It is what WriteReported needs of    *)
(* each state, beside a caller that goes on waiting.                       *)
THEOREM OutcomeIsNotForgotten == ClientSpec => []NoOutcomeForgotten
  <1>1. ClientInit => ClientTypeOK /\ PipeInv /\ NoOutcomeForgotten
    BY ClientTypeInit, PipeInit, ForgottenInit
  <1>2. ClientTypeOK /\ PipeInv /\ NoOutcomeForgotten /\ [ClientNext]_clientVars
          => (ClientTypeOK /\ PipeInv /\ NoOutcomeForgotten)'
    BY ClientTypeStep, PipeStep, DueStep, TakenStep DEF NoOutcomeForgotten
  <1>3. QED
    BY <1>1, <1>2, PTL DEF ClientSpec
=============================================================================
