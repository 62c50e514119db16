---------------------------- MODULE OutPipeClient ----------------------------
(***************************************************************************)
(* The pipe client of Task6Lib (OutPipeClient.cpp): one pipe, one          *)
(* OVERLAPPED with a manual-reset event, and a CRITICAL_SECTION that every *)
(* method holds.  Any thread may call any method.                          *)
(*                                                                         *)
(* A method that neither blocks nor throws is one step; one that throws    *)
(* because of a wrong state, or because the system call fails, changes     *)
(* nothing and is not a step.  (For a WriteFile that fails at once this is *)
(* a simplification: whether it has touched the OVERLAPPED and the event   *)
(* is up to the kernel.)  service(true) and flushWriteBuffer block inside  *)
(* the lock and are two steps.  A failed assertion aborts the process when *)
(* assertions are compiled in, and is passed over when not.                *)
(*                                                                         *)
(* The kernel (WriteFile, GetOverlappedResult, the event) is external.     *)
(* CloseHandle cancels the writes in flight before it returns.  Writes are *)
(* numbered in the order of the calls.                                     *)
(***************************************************************************)
EXTENDS Naturals, Sequences, FiniteSets

CONSTANTS
    Threads,          \* the threads of the client process
    NoThread,         \* owner of the free CRITICAL_SECTION
    AssertsEnabled,   \* built with assertions (Debug)?
    MaxWrites,        \* bound: writes begun
    MaxOpens,         \* bound: calls of open that succeed
    MaxReports        \* bound: calls of service that return true

ASSUME ClientAssumption ==
    /\ NoThread \notin Threads
    /\ AssertsEnabled \in BOOLEAN
    /\ MaxWrites \in Nat /\ MaxOpens \in Nat /\ MaxReports \in Nat

VARIABLES
    state,       \* the flags of OutPipeClient::state
    critSec,     \* the thread inside the CRITICAL_SECTION
    pc,          \* pc[t]: where thread t is
    overlapped,  \* status of the OVERLAPPED: "none", "pending", "ok", "failed"
    event,       \* its event, which getWaitHandle hands out
    inFlight,    \* the writes in the kernel
    outcome,     \* outcome[n]: what became of the n-th write, so far
    reports,     \* history: what service told when it returned true
    opens,       \* how many times open succeeded
    aborted      \* an assertion has failed

vars == <<state, critSec, pc, overlapped, event, inFlight, outcome, reports,
          opens, aborted>>
kernelVars == <<overlapped, event, inFlight, outcome>>

UNCONNECTED == {}
CONNECTED == {"CONNECTED"}

Init ==
    /\ state = UNCONNECTED
    /\ critSec = NoThread
    /\ pc = [t \in Threads |-> "idle"]
    /\ overlapped = "none"
    /\ event = FALSE
    /\ inFlight = {}
    /\ outcome = << >>
    /\ reports = << >>
    /\ opens = 0
    /\ aborted = FALSE

CanEnter(t) == pc[t] = "idle" /\ critSec = NoThread /\ ~aborted

-----------------------------------------------------------------------------
(* The methods.                                                            *)

Open(t) ==
    /\ CanEnter(t)
    /\ state = UNCONNECTED
    /\ opens < MaxOpens
    /\ state' = CONNECTED
    /\ opens' = opens + 1
    /\ UNCHANGED <<critSec, pc, kernelVars, reports, aborted>>

\* A faulty version: a write that is under way is not looked for.
Connected == "CONNECTED" \in state

WriteAllowed == "CONNECTED" \in state /\ "WRITING" \notin state

\* WriteFile: the kernel resets the event and takes the write.
Write(t) ==
    /\ CanEnter(t)
    /\ WriteAllowed
    /\ Len(outcome) < MaxWrites
    /\ state' = state \cup {"WRITING"}
    /\ overlapped' = "pending"
    /\ event' = FALSE
    /\ inFlight' = inFlight \cup {Len(outcome) + 1}
    /\ outcome' = Append(outcome, "pending")
    /\ UNCHANGED <<critSec, pc, reports, opens, aborted>>

\* Faulty versions: only the connected flag is cleared; the event is not reset.
StillWriting == state \ CONNECTED
KeepEvent == UNCHANGED event

Closed == UNCONNECTED
ResetEvent == event' = FALSE

\* CloseHandle, and then ResetEvent.
Close(t) ==
    /\ CanEnter(t)
    /\ state # UNCONNECTED
    /\ state' = Closed
    /\ ResetEvent
    /\ inFlight' = {}
    /\ outcome' = [n \in DOMAIN outcome |->
                     IF n \in inFlight THEN "failed" ELSE outcome[n]]
    /\ overlapped' = IF inFlight = {} THEN overlapped ELSE "failed"
    /\ UNCHANGED <<critSec, pc, reports, opens, aborted>>

\* The test at the start of service joins the flags with "|", so it never
\* fails: service goes on in every state.
ServiceEnters(t) == CanEnter(t) /\ Len(reports) < MaxReports

\* GetOverlappedResult has returned, and its error is never ERROR_IO_PENDING:
\* for a pending write it is ERROR_IO_INCOMPLETE.  So service takes the write
\* for completed.  The event should be signaled: an assertion.  Then the
\* result is what the OVERLAPPED holds: all zero, before any write, is success.
Reports ==
    IF AssertsEnabled /\ ~event
    THEN aborted' = TRUE /\ UNCHANGED <<state, event, reports>>
    ELSE /\ reports' = Append(reports, [write |-> Len(outcome),
                                        ok |-> overlapped \in {"none", "ok"}])
         /\ state' = state \ {"WRITING"}
         /\ ResetEvent
         /\ UNCHANGED aborted

\* service(false), or service(true) when the status is not "pending".
Service(t) ==
    /\ ServiceEnters(t)
    /\ Reports
    /\ UNCHANGED <<critSec, pc, overlapped, inFlight, outcome, opens>>

Block(t, label) ==
    /\ critSec' = t
    /\ pc' = [pc EXCEPT ![t] = label]
    /\ UNCHANGED <<state, kernelVars, reports, opens, aborted>>

Unblock(t, label) ==
    /\ ~aborted
    /\ pc[t] = label
    /\ critSec' = NoThread
    /\ pc' = [pc EXCEPT ![t] = "idle"]

\* A faulty version: it waits though there is no pending write.
WriteOrNone == TRUE

WritePending == overlapped = "pending"

\* service(true) waits for the event of a pending write, inside the lock.
BeginWait(t) ==
    /\ ServiceEnters(t)
    /\ WritePending
    /\ Block(t, "waiting")

EndWait(t) ==
    /\ Unblock(t, "waiting")
    /\ event
    /\ Reports
    /\ UNCHANGED <<overlapped, inFlight, outcome, opens>>

\* FlushFileBuffers returns when the server has read everything.
BeginFlush(t) ==
    /\ CanEnter(t)
    /\ "CONNECTED" \in state
    /\ Block(t, "flushing")

EndFlush(t) ==
    /\ Unblock(t, "flushing")
    /\ inFlight = {}
    /\ UNCHANGED <<state, kernelVars, reports, opens, aborted>>

-----------------------------------------------------------------------------
\* The kernel completes a write: it sets the OVERLAPPED and its event.
CompleteWrite ==
    /\ \E n \in inFlight, status \in {"ok", "failed"} :
         /\ inFlight' = inFlight \ {n}
         /\ outcome' = [outcome EXCEPT ![n] = status]
         /\ overlapped' = status
    /\ event' = TRUE
    /\ ~aborted
    /\ UNCHANGED <<state, critSec, pc, reports, opens, aborted>>

-----------------------------------------------------------------------------
Calls(t) ==
    \/ Open(t) \/ Write(t) \/ Close(t) \/ Service(t)
    \/ BeginWait(t) \/ EndWait(t) \/ BeginFlush(t) \/ EndFlush(t)

Next == (\E t \in Threads : Calls(t)) \/ CompleteWrite

Spec == Init /\ [][Next]_vars

(* The server reads its pipe or closes it, so writes complete; a thread    *)
(* whose wait is over returns.                                             *)
Fairness ==
    /\ WF_vars(CompleteWrite)
    /\ \A t \in Threads : WF_vars(EndWait(t) \/ EndFlush(t))

FairSpec == Spec /\ Fairness

-----------------------------------------------------------------------------
(* Type correctness.                                                       *)
Status == {"pending", "ok", "failed"}

TypeOK ==
    /\ state \in {UNCONNECTED, CONNECTED, {"CONNECTED", "WRITING"}}
    /\ critSec \in Threads \cup {NoThread}
    /\ pc \in [Threads -> {"idle", "waiting", "flushing"}]
    /\ overlapped \in {"none"} \cup Status
    /\ event \in BOOLEAN
    /\ outcome \in Seq(Status)
    /\ inFlight \subseteq DOMAIN outcome
    /\ reports \in Seq([write : Nat, ok : BOOLEAN])
    /\ opens \in Nat
    /\ aborted \in BOOLEAN

(* The event tells of the last write: while it is signaled the OVERLAPPED  *)
(* holds that write's outcome, nothing is in the kernel, and the outcome   *)
(* has not been reported.                                                  *)
EventInv ==
    /\ event => /\ outcome # << >> /\ inFlight = {}
                /\ overlapped = outcome[Len(outcome)] /\ overlapped # "pending"
                /\ \A k \in DOMAIN reports : reports[k].write # Len(outcome)
    /\ inFlight # {} => inFlight = {Len(outcome)} /\ state = {"CONNECTED", "WRITING"}

(* OutPipeClient.h:65: service returns true if a pending operation has     *)
(* completed.  So each report is about a write that has completed, it is   *)
(* what became of that write, and no write is reported twice.              *)
ReportsAreTrue ==
    /\ \A k \in DOMAIN reports :
         /\ reports[k].write \in DOMAIN outcome
         /\ outcome[reports[k].write] = IF reports[k].ok THEN "ok" ELSE "failed"
    /\ \A j, k \in DOMAIN reports : reports[j].write = reports[k].write => j = k

(* A write is never begun on the OVERLAPPED while an earlier one is in the *)
(* kernel.                                                                 *)
OneWriteInFlight == Cardinality(inFlight) <= 1

(* A thread that waits inside the lock, for a write or for a flush, leaves *)
(* it in the end, though the others can neither close the pipe nor abort.  *)
LockIsLeft == critSec # NoThread ~> critSec = NoThread
=============================================================================
