----------------------------- MODULE Task6Client -----------------------------
(***************************************************************************)
(* The client of Task6Lib (Task6Client.cpp) and its caller.  It sends one  *)
(* greeting, over a pipe (module OutPipeClient, whose steps are used here) *)
(* or over the shared memory, whose event svToCl it shares with the other  *)
(* clients and with the server.                                            *)
(*                                                                         *)
(* The caller is the console (ClientConsole::run), or any program that     *)
(* uses the class: that one may also call stop, start again, and go on     *)
(* after an exception, which ends the console.  A call that throws without *)
(* a change ("The client has already started.") is not a step of it.       *)
(***************************************************************************)
EXTENDS OutPipeClient

CONSTANTS
    Caller,     \* the caller's only thread
    MaxStops    \* bound: calls of stop

ASSUME CallerAssumption ==
    /\ Threads = {Caller}
    /\ MaxStops \in Nat

VARIABLES
    caller,      \* "console", or "any" other program
    phase,       \* where the caller is
    pipeClient,  \* pipeClient is not null
    memClient,   \* sharedMemClient is not null
    bDataSent,   \* as in the code
    messages,    \* the log, without order and repetition: <<n, m>> is
                 \* message m, logged when stop had been called n times
    shown,       \* what the caller has taken from it
    svToCl,      \* the event: the memory is free for a client
    sends,       \* history: how often the memory was written
    stops        \* calls of stop

clientState == <<pipeClient, memClient, bDataSent, messages>>
ownVars == <<caller, phase, clientState, shown, svToCl, sends, stops>>
clientVars == <<vars, ownVars>>

ClientInit ==
    /\ Init
    /\ caller \in {"console", "any"}
    /\ phase = "start"
    /\ pipeClient = FALSE /\ memClient = FALSE
    /\ bDataSent = FALSE
    /\ messages = {} /\ shown = {}
    /\ svToCl \in BOOLEAN
    /\ sends = 0
    /\ stops = 0

pushMessg(m) == messages' = messages \cup {<<stops, m>>}

Throws == phase' = IF caller = "console" THEN "left" ELSE "ask"

-----------------------------------------------------------------------------
(* startPipe and startSharedMemory.                                        *)

CanStart == phase = "start" \/ (phase = "ask" /\ caller = "any")

\* A faulty version: a pipe client is not looked for.
NoMemoryClient == ~memClient

NotStarted == ~pipeClient /\ ~memClient

\* open: the member is set before, and keeps its value when open throws.
StartPipe ==
    /\ CanStart /\ NotStarted
    /\ pipeClient' = TRUE
    /\ \/ Open(Caller) /\ phase' = "write"
       \/ UNCHANGED vars /\ Throws
    /\ UNCHANGED <<caller, memClient, bDataSent, messages, shown, svToCl, sends,
                   stops>>

WriteGreeting ==
    /\ phase = "write"
    /\ \/ Write(Caller) /\ pushMessg("started") /\ phase' = "wait"
       \/ UNCHANGED <<vars, messages>> /\ Throws
    /\ UNCHANGED <<caller, pipeClient, memClient, bDataSent, shown, svToCl,
                   sends, stops>>

StartSharedMemory ==
    /\ CanStart /\ NotStarted
    /\ \/ memClient' = TRUE /\ pushMessg("started") /\ phase' = "wait"
       \/ UNCHANGED <<memClient, messages>> /\ Throws
    /\ UNCHANGED <<vars, caller, pipeClient, bDataSent, shown, svToCl, sends,
                   stops>>

-----------------------------------------------------------------------------
(* wait.                                                                   *)

Waits == phase \in {"wait", "again"}

\* A faulty version: the result of the wait is not looked at.
SignaledOrNot == TRUE

Signaled == event

\* Faulty versions: wait returns false, or forgets that the data is sent.
ReturnsFalse == phase' = "ask"
Forgets == UNCHANGED bDataSent

ReturnsTrue == phase' = "pop"
DataIsSent == bDataSent' = TRUE

WaitForPipe ==
    /\ Waits /\ pipeClient
    /\ Signaled
    /\ Service(Caller)
    /\ pushMessg(IF reports'[Len(reports')].ok THEN "successful" ELSE "failed")
    /\ ReturnsTrue
    /\ UNCHANGED <<caller, pipeClient, memClient, bDataSent, shown, svToCl,
                   sends, stops>>

WriteData ==
    /\ Waits /\ ~pipeClient /\ memClient /\ ~bDataSent
    /\ svToCl /\ svToCl' = FALSE
    /\ sends' = sends + 1
    /\ DataIsSent
    /\ pushMessg("sent")
    /\ phase' = "pop"
    /\ UNCHANGED <<vars, caller, pipeClient, memClient, shown, stops>>

\* A faulty version: the flag is set whatever writeData returned.
SentAnyhow == bDataSent' = TRUE

NotSent == UNCHANGED bDataSent

\* The time is over: what is waited for is not signaled, or Sleep returns.
TimeOut ==
    /\ Waits
    /\ \/ pipeClient /\ ~event /\ UNCHANGED <<messages, bDataSent>>
       \/ /\ ~pipeClient /\ memClient /\ ~bDataSent /\ ~svToCl
          /\ pushMessg("timeout")
          /\ NotSent
       \/ ~pipeClient /\ memClient /\ bDataSent /\ UNCHANGED <<messages, bDataSent>>
    /\ phase' = "ask"
    /\ UNCHANGED <<vars, caller, pipeClient, memClient, shown, svToCl, sends, stops>>

NotRunning ==
    /\ Waits /\ ~pipeClient /\ ~memClient
    /\ Throws
    /\ UNCHANGED <<vars, caller, clientState, shown, svToCl, sends, stops>>

-----------------------------------------------------------------------------
(* The caller's loop, popMessg and stop.                                   *)

\* popMessg, until the log is empty.
ShowMessages ==
    /\ phase = "pop"
    /\ shown' = shown \cup messages
    /\ messages' = {}
    /\ phase' = "again"
    /\ UNCHANGED <<vars, caller, pipeClient, memClient, bDataSent, svToCl, sends,
                   stops>>

\* Ten seconds have passed, which cannot be before the first wait.
TenSeconds ==
    /\ phase = "again"
    /\ phase' = "ask"
    /\ UNCHANGED <<vars, caller, clientState, shown, svToCl, sends, stops>>

\* '1' goes on waiting; '0' and an invalid command end the console, an invalid
\* one in the place of the first question too.
Answer ==
    /\ \/ phase = "start" /\ phase' = "left"
       \/ phase = "ask" /\ phase' \in {"wait", "left"}
    /\ UNCHANGED <<vars, caller, clientState, shown, svToCl, sends, stops>>

\* stop destroys the pipe client, with what it has in flight: the next one
\* begins anew.  The shared-memory client is left as it is.
Stop ==
    /\ caller = "any" /\ phase = "ask"
    /\ stops < MaxStops
    /\ stops' = stops + 1
    /\ pipeClient' = FALSE
    /\ state' = UNCONNECTED /\ overlapped' = "none" /\ event' = FALSE
    /\ inFlight' = {} /\ outcome' = << >> /\ reports' = << >> /\ opens' = 0
    /\ UNCHANGED <<critSec, pc, aborted, caller, phase, memClient, bDataSent,
                   messages, shown, svToCl, sends>>

Wait == WaitForPipe \/ WriteData \/ TimeOut \/ NotRunning
Start == StartPipe \/ WriteGreeting \/ StartSharedMemory

-----------------------------------------------------------------------------
\* The kernel completes the write, while the client has its pipe.
Kernel == phase # "left" /\ CompleteWrite /\ UNCHANGED ownVars

\* The other clients take the memory, and the server frees it.
MemoryTaken ==
    /\ svToCl /\ svToCl' = FALSE
    /\ UNCHANGED <<vars, caller, phase, clientState, shown, sends, stops>>

MemoryFreed ==
    /\ ~svToCl /\ svToCl' = TRUE
    /\ UNCHANGED <<vars, caller, phase, clientState, shown, sends, stops>>

Left == phase = "left" /\ UNCHANGED clientVars

ClientNext ==
    \/ Start \/ Wait
    \/ ShowMessages \/ TenSeconds \/ Answer \/ Stop
    \/ Kernel \/ MemoryTaken \/ MemoryFreed
    \/ Left

ClientSpec == ClientInit /\ [][ClientNext]_clientVars

(* A caller inside a call, or in its loop, goes on, and the operator       *)
(* answers.  The server reads its pipe or closes it.  Nothing is assumed   *)
(* of the memory: who frees it, how often, or who then takes it.           *)
ClientFairSpec ==
    /\ ClientSpec
    /\ WF_clientVars(WriteGreeting \/ Wait)
    /\ WF_clientVars(ShowMessages)
    /\ WF_clientVars(Answer)
    /\ WF_clientVars(Kernel)

-----------------------------------------------------------------------------
(* Type correctness.  A client has one kind of connection at a time.       *)
ClientTypeOK ==
    /\ TypeOK
    /\ caller \in {"console", "any"}
    /\ phase \in {"start", "write", "wait", "again", "pop", "ask", "left"}
    /\ pipeClient \in BOOLEAN /\ memClient \in BOOLEAN /\ bDataSent \in BOOLEAN
    /\ ~(pipeClient /\ memClient)
    /\ messages \cup shown \subseteq
         (0 .. MaxStops) \X {"started", "successful", "failed", "sent", "timeout"}
    /\ svToCl \in BOOLEAN
    /\ sends \in Nat /\ stops \in 0 .. MaxStops

Logged == messages \cup shown

(* wait only calls service once the event is signaled.  So what service    *)
(* tells it is true without the assertion in service, which the property   *)
(* of the pipe client otherwise needs, and in a build with assertions that *)
(* one never fails.  What is logged of the write of this life of the       *)
(* client is its outcome.                                                  *)
WaitTellsTheTruth ==
    /\ ~aborted /\ ReportsAreTrue
    /\ <<stops, "successful">> \in Logged => outcome = <<"ok">>
    /\ <<stops, "failed">> \in Logged => outcome = <<"failed">>

(* The greeting is written to the shared memory once at most, however many *)
(* waits time out, fail or follow, and after stop too; and it is logged as *)
(* sent exactly when it was.                                               *)
SentOnce ==
    /\ sends <= 1
    /\ sends = 1 <=> bDataSent
    /\ sends = 1 <=> \E n \in 0 .. MaxStops : <<n, "sent">> \in Logged

(* A caller that goes on waiting is shown what became of the write that    *)
(* startPipe began.                                                        *)
WriteReported ==
    \A n \in 0 .. MaxStops :
        "WRITING" \in state /\ stops = n ~>
            \/ <<n, "successful">> \in shown \/ <<n, "failed">> \in shown
            \/ phase = "left" \/ stops > n

(* A shared-memory client that goes on waiting sends its greeting in the   *)
(* end, though any number of its waits time out, and its caller is told.   *)
(* The code has no queue: it may lose every round to other clients that    *)
(* take the memory again and again, and it needs somebody to free it.      *)
GreetingSent ==
    \/ []<><<MemoryTaken>>_clientVars
    \/ <>[](~svToCl /\ sends = 0)
    \/ memClient ~> \/ \E n \in 0 .. MaxStops : <<n, "sent">> \in shown
                    \/ phase = "left"
=============================================================================
