------------------------ MODULE OutPipeClient_proofs ------------------------
(***************************************************************************)
(* Proofs about the pipe client, for any threads and bounds.  Type         *)
(* correctness, and that a thread blocked inside the lock can leave it,    *)
(* hold in every build.  The rest is proved of a build with assertions     *)
(* (AssertsEnabled): without them service reports what has not happened.   *)
(*                                                                         *)
(* The event alone keeps the reports true: while it is signaled the        *)
(* OVERLAPPED holds the outcome of the last write, which nobody has        *)
(* reported (EventInv).  Beside it a write in the kernel must be marked    *)
(* as pending (InFlightIsPending), so that no report is about it.          *)
(***************************************************************************)
EXTENDS OutPipeClient, FiniteSetTheorems, TLAPS

USE ClientAssumption
USE DEF WriteAllowed, Closed, ResetEvent, WritePending

InFlightIsPending == inFlight # {} => outcome[Len(outcome)] = "pending"

\* The inductive invariant of a build with assertions.
ClientInv == TypeOK /\ EventInv /\ InFlightIsPending /\ ReportsAreTrue

-----------------------------------------------------------------------------
LEMMA TypeInit == Init => TypeOK
  <1> SUFFICES ASSUME Init PROVE TypeOK
    OBVIOUS
  <1>1. event \in BOOLEAN /\ aborted \in BOOLEAN
    BY DEF Init
  <1>2. outcome \in Seq(Status) /\ reports \in Seq([write : Nat, ok : BOOLEAN])
    BY DEF Init
  <1>3. QED
    BY <1>1, <1>2 DEF Init, TypeOK

\* What Reports does to the variables it assigns.
LEMMA ReportsType ==
    ASSUME TypeOK, Reports
    PROVE  /\ state' \in {UNCONNECTED, CONNECTED, {"CONNECTED", "WRITING"}}
           /\ event' \in BOOLEAN
           /\ aborted' \in BOOLEAN
           /\ reports' \in Seq([write : Nat, ok : BOOLEAN])
  <1> USE DEF TypeOK
  <1>1. event' \in BOOLEAN /\ aborted' \in BOOLEAN
    BY Zenon DEF Reports
  <1>2. state' \in {UNCONNECTED, CONNECTED, {"CONNECTED", "WRITING"}}
    <2>1. state' = state \/ state' = state \ {"WRITING"}
      BY DEF Reports
    <2>2. QED
      BY <2>1 DEF UNCONNECTED, CONNECTED
  <1>3. reports' \in Seq([write : Nat, ok : BOOLEAN])
    <2> DEFINE r == [write |-> Len(outcome), ok |-> overlapped \in {"none", "ok"}]
               R == [write : Nat, ok : BOOLEAN]
    <2>1. r \in R
      OBVIOUS
    <2>2. reports \in Seq(R)
      OBVIOUS
    <2>3. reports' = reports \/ reports' = Append(reports, r)
      BY DEF Reports
    <2> HIDE DEF r, R
    <2>4. reports' \in Seq(R)
      BY <2>1, <2>2, <2>3
    <2>5. QED
      BY <2>4 DEF R
  <1>4. QED
    BY <1>1, <1>2, <1>3

LEMMA TypeStep == TypeOK /\ [Next]_vars => TypeOK'
  <1> SUFFICES ASSUME TypeOK, [Next]_vars PROVE TypeOK'
    OBVIOUS
  <1>1. ASSUME NEW t \in Threads, Open(t) PROVE TypeOK'
    BY <1>1 DEF Open, CanEnter, kernelVars, TypeOK
  <1>2. ASSUME NEW t \in Threads, Write(t) PROVE TypeOK'
    <2>1. event' \in BOOLEAN
      BY <1>2 DEF Write
    <2>2. outcome' \in Seq(Status) /\ inFlight' \subseteq DOMAIN outcome'
      BY <1>2 DEF Write, TypeOK, Status
    <2>3. state' = {"CONNECTED", "WRITING"}
      BY <1>2 DEF Write, TypeOK, UNCONNECTED, CONNECTED
    <2>4. QED
      BY <1>2, <2>1, <2>2, <2>3 DEF Write, CanEnter, TypeOK, Status
  <1>3. ASSUME NEW t \in Threads, Close(t) PROVE TypeOK'
    <2>1. event' \in BOOLEAN
      BY <1>3 DEF Close
    <2>2. outcome' \in Seq(Status)
      BY <1>3 DEF Close, TypeOK, Status
    <2>3. QED
      BY <1>3, <2>1, <2>2 DEF Close, CanEnter, TypeOK, Status
  <1>4. ASSUME NEW t \in Threads, Service(t) PROVE TypeOK'
    BY <1>4, ReportsType DEF Service, ServiceEnters, CanEnter, TypeOK
  <1>5. ASSUME NEW t \in Threads, BeginWait(t) PROVE TypeOK'
    BY <1>5 DEF BeginWait, Block, kernelVars, TypeOK
  <1>6. ASSUME NEW t \in Threads, EndWait(t) PROVE TypeOK'
    BY <1>6, ReportsType DEF EndWait, Unblock, TypeOK
  <1>7. ASSUME NEW t \in Threads, BeginFlush(t) PROVE TypeOK'
    BY <1>7 DEF BeginFlush, Block, kernelVars, TypeOK
  <1>8. ASSUME NEW t \in Threads, EndFlush(t) PROVE TypeOK'
    BY <1>8 DEF EndFlush, Unblock, kernelVars, TypeOK
  <1>9. CASE CompleteWrite
    <2>1. event' \in BOOLEAN
      BY <1>9 DEF CompleteWrite
    <2>2. QED
      BY <1>9, <2>1 DEF CompleteWrite, TypeOK, Status
  <1>10. CASE UNCHANGED vars
    BY <1>10 DEF vars, TypeOK
  <1>11. QED
    BY <1>1, <1>2, <1>3, <1>4, <1>5, <1>6, <1>7, <1>8, <1>9, <1>10
       DEF Next, Calls

(* Type correctness of the pipe client (OutPipeClient.cpp), with or        *)
(* without assertions.                                                     *)
THEOREM TypeCorrect == Spec => []TypeOK
  <1>1. QED
    BY TypeInit, TypeStep, PTL DEF Spec

-----------------------------------------------------------------------------
LEMMA ClientInvInit == Init => ClientInv
  <1>1. QED
    BY TypeInit DEF Init, ClientInv, EventInv, InFlightIsPending, ReportsAreTrue

\* A report that finds the event signaled is of the last write, which has
\* completed and was not reported before.
LEMMA SignaledReport ==
    ASSUME ClientInv, event, Reports,
           UNCHANGED <<overlapped, inFlight, outcome>>
    PROVE  /\ EventInv' /\ InFlightIsPending' /\ ReportsAreTrue'
           /\ aborted' = aborted
           /\ Len(reports') = Len(reports) + 1
           /\ reports'[Len(reports')].ok <=> outcome[Len(outcome)] = "ok"
  <1> DEFINE n == Len(outcome)
             r == [write |-> n, ok |-> overlapped \in {"none", "ok"}]
  <1>1. /\ reports' = Append(reports, r)
        /\ event' = FALSE
        /\ inFlight = {}
    BY DEF Reports, ClientInv, EventInv
  <1>2. EventInv' /\ InFlightIsPending'
    BY <1>1 DEF EventInv, InFlightIsPending
  <1>3. /\ n \in DOMAIN outcome /\ outcome[n] = (IF r.ok THEN "ok" ELSE "failed")
        /\ r.ok <=> outcome[n] = "ok"
    <2>1. outcome # << >> /\ overlapped = outcome[n] /\ overlapped # "pending"
      BY DEF ClientInv, EventInv
    <2>2. n \in DOMAIN outcome /\ outcome[n] \in Status
      BY <2>1 DEF ClientInv, TypeOK
    <2>3. r.ok = (overlapped \in {"none", "ok"})
      OBVIOUS
    <2> HIDE DEF r
    <2>4. QED
      BY <2>1, <2>2, <2>3 DEF Status
  <1>4. \A k \in DOMAIN reports : reports[k].write # n
    BY DEF ClientInv, EventInv
  <1>5. /\ DOMAIN reports' = DOMAIN reports \cup {Len(reports) + 1}
        /\ Len(reports') = Len(reports) + 1
        /\ \A k \in DOMAIN reports : reports'[k] = reports[k]
        /\ reports'[Len(reports) + 1] = r
    BY <1>1 DEF ClientInv, TypeOK
  <1>6. r.write = n
    OBVIOUS
  <1>7. aborted' = aborted
    BY Zenon DEF Reports
  <1> HIDE DEF r
  <1>8. ReportsAreTrue'
    BY <1>3, <1>4, <1>5, <1>6 DEF ClientInv, ReportsAreTrue
  <1>9. reports'[Len(reports')].ok <=> outcome[Len(outcome)] = "ok"
    BY <1>3, <1>5, Zenon
  <1>10. QED
    BY <1>2, <1>5, <1>7, <1>8, <1>9

\* With assertions, a report that does not find it signaled reports nothing.
LEMMA ReportsKeepsInv ==
    ASSUME AssertsEnabled \/ event, ClientInv, Reports,
           UNCHANGED <<overlapped, inFlight, outcome>>
    PROVE  EventInv' /\ InFlightIsPending' /\ ReportsAreTrue'
  <1>1. CASE ~event
    BY <1>1 DEF Reports, ClientInv, EventInv, InFlightIsPending, ReportsAreTrue
  <1>2. CASE event
    BY <1>2, SignaledReport
  <1>3. QED
    BY <1>1, <1>2

\* The only thing that assertions are needed for is a report.
LEMMA StepKeepsInv ==
    ASSUME ClientInv, [Next]_vars,
           \A t \in Threads : Service(t) \/ EndWait(t) => AssertsEnabled \/ event
    PROVE  ClientInv'
  <1> DEFINE Rest == EventInv /\ InFlightIsPending /\ ReportsAreTrue
  <1>0. TypeOK /\ Rest /\ TypeOK'
    BY TypeStep DEF ClientInv
  <1> SUFFICES Rest'
    BY <1>0 DEF ClientInv
  <1> USE DEF EventInv, InFlightIsPending, ReportsAreTrue
  <1>1. ASSUME NEW t \in Threads, Open(t) PROVE Rest'
    BY <1>0, <1>1 DEF Open, kernelVars, UNCONNECTED
  <1>2. ASSUME NEW t \in Threads, Write(t) PROVE Rest'
    <2>1. /\ Len(outcome') = Len(outcome) + 1
          /\ DOMAIN outcome' = DOMAIN outcome \cup {Len(outcome) + 1}
          /\ \A k \in DOMAIN outcome : outcome'[k] = outcome[k]
          /\ outcome'[Len(outcome) + 1] = "pending"
      BY <1>0, <1>2 DEF Write, TypeOK
    <2>2. inFlight = {}
      BY <1>0, <1>2 DEF Write
    <2>3. state' = {"CONNECTED", "WRITING"}
      BY <1>0, <1>2 DEF Write, TypeOK, UNCONNECTED, CONNECTED
    <2>4. EventInv' /\ InFlightIsPending'
      BY <1>2, <2>1, <2>2, <2>3 DEF Write
    <2>5. ReportsAreTrue'
      BY <1>0, <1>2, <2>1 DEF Write
    <2>6. QED
      BY <2>4, <2>5
  <1>3. ASSUME NEW t \in Threads, Close(t) PROVE Rest'
    <2>1. /\ DOMAIN outcome' = DOMAIN outcome
          /\ \A n \in DOMAIN outcome : n \notin inFlight => outcome'[n] = outcome[n]
      BY <1>3 DEF Close
    <2>2. event' = FALSE /\ inFlight' = {} /\ reports' = reports
      BY <1>3 DEF Close
    <2>3. \A k \in DOMAIN reports : reports[k].write \notin inFlight
      BY <1>0
    <2>4. QED
      BY <1>0, <2>1, <2>2, <2>3
  <1>4. ASSUME NEW t \in Threads, Service(t) PROVE Rest'
    BY <1>4, ReportsKeepsInv DEF Service
  <1>5. ASSUME NEW t \in Threads, BeginWait(t) PROVE Rest'
    BY <1>0, <1>5 DEF BeginWait, Block, kernelVars
  <1>6. ASSUME NEW t \in Threads, EndWait(t) PROVE Rest'
    BY <1>6, ReportsKeepsInv DEF EndWait
  <1>7. ASSUME NEW t \in Threads, BeginFlush(t) PROVE Rest'
    BY <1>0, <1>7 DEF BeginFlush, Block, kernelVars
  <1>8. ASSUME NEW t \in Threads, EndFlush(t) PROVE Rest'
    BY <1>0, <1>8 DEF EndFlush, Unblock, kernelVars
  <1>9. CASE CompleteWrite
    <2> DEFINE n == Len(outcome)
    <2>1. inFlight = {n} /\ n \in DOMAIN outcome /\ outcome # << >>
      BY <1>0, <1>9 DEF CompleteWrite, TypeOK
    <2>2. /\ inFlight' = {}
          /\ outcome' = [outcome EXCEPT ![n] = overlapped']
          /\ overlapped' # "pending"
          /\ UNCHANGED <<state, reports>>
      BY <1>9, <2>1 DEF CompleteWrite
    <2>3. /\ Len(outcome') = n /\ DOMAIN outcome' = DOMAIN outcome
          /\ outcome' # << >>
      BY <1>0, <2>1, <2>2 DEF TypeOK
    <2>4. \A k \in DOMAIN reports : reports[k].write # n
      BY <1>0, <2>1
    <2>5. QED
      BY <1>0, <2>1, <2>2, <2>3, <2>4
  <1>10. CASE UNCHANGED vars
    BY <1>0, <1>10 DEF vars
  <1>11. QED
    BY <1>1, <1>2, <1>3, <1>4, <1>5, <1>6, <1>7, <1>8, <1>9, <1>10
       DEF Next, Calls

LEMMA ClientInvariance ==
    ASSUME AssertsEnabled PROVE Spec => []ClientInv
  <1>1. ClientInv /\ [Next]_vars => ClientInv'
    BY StepKeepsInv
  <1>2. QED
    BY <1>1, ClientInvInit, PTL DEF Spec

(* While the event of getWaitHandle is signaled, in a build with           *)
(* assertions, the OVERLAPPED tells of the last write, which has completed *)
(* and was not reported; a write in the kernel is the last one, and the    *)
(* state says that the client is writing.                                  *)
THEOREM EventTellsOfLastWrite ==
    ASSUME AssertsEnabled PROVE Spec => []EventInv
  <1>1. ClientInv => EventInv
    BY DEF ClientInv
  <1>2. QED
    BY <1>1, ClientInvariance, PTL

(* OutPipeClient::service, in a build with assertions: whatever threads    *)
(* call the methods in whatever order, each report is about a write that   *)
(* completed, with its outcome, and no write is reported twice.            *)
THEOREM ServiceReportsTheTruth ==
    ASSUME AssertsEnabled PROVE Spec => []ReportsAreTrue
  <1>1. ClientInv => ReportsAreTrue
    BY DEF ClientInv
  <1>2. QED
    BY <1>1, ClientInvariance, PTL

(* OutPipeClient::write, in a build with assertions, never issues a write  *)
(* on the OVERLAPPED of a write that the kernel still has.                 *)
THEOREM WritesDoNotOverlap ==
    ASSUME AssertsEnabled PROVE Spec => []OneWriteInFlight
  <1>1. ClientInv => OneWriteInFlight
    <2> SUFFICES ASSUME ClientInv PROVE OneWriteInFlight
      OBVIOUS
    <2>1. inFlight = {} \/ inFlight = {Len(outcome)}
      BY DEF ClientInv, EventInv
    <2>2. CASE inFlight = {}
      BY <2>2, FS_EmptySet DEF OneWriteInFlight
    <2>3. CASE inFlight = {Len(outcome)}
      <3>1. Cardinality(inFlight) = 1
        BY <2>3, FS_Singleton
      <3>2. QED
        BY <3>1 DEF OneWriteInFlight
    <2>4. QED
      BY <2>1, <2>2, <2>3
  <1>2. QED
    BY <1>1, ClientInvariance, PTL
-----------------------------------------------------------------------------
(* The lock, in any build.                                                 *)

\* The holder of the lock is inside a method that blocks, the only one that
\* is, and no assertion has failed; if it waits for a write, the write is over
\* or the kernel has it.
LockInv ==
    /\ overlapped = "pending" => inFlight # {}
    /\ \A t \in Threads : pc[t] # "idle" <=> critSec = t
    /\ critSec # NoThread => aborted = FALSE
    /\ \A t \in Threads : pc[t] = "waiting" => event = TRUE \/ overlapped = "pending"

\* What thread t is blocked on has come.
Released(t) ==
    \/ pc[t] = "waiting" /\ event
    \/ pc[t] = "flushing" /\ inFlight = {}

\* The thread in the lock can leave it, or the kernel has a write to complete.
LockGoesOn ==
    critSec # NoThread => aborted = FALSE /\ (Released(critSec) \/ inFlight # {})

\* Until it leaves, nothing happens to the pipe but completions: each takes a
\* write from the kernel, and what the thread is blocked on does not go again.
LockRunsDown ==
    [][critSec # NoThread =>
         \/ critSec' = NoThread /\ Released(critSec)
         \/ /\ critSec' = critSec
            /\ inFlight' \subseteq inFlight /\ inFlight' # inFlight
            /\ Released(critSec) => Released(critSec)']_vars

LEMMA LockInvStep == TypeOK /\ LockInv /\ [Next]_vars => LockInv'
  <1> SUFFICES ASSUME TypeOK, LockInv, [Next]_vars PROVE LockInv'
    OBVIOUS
  <1>t. /\ pc \in [Threads -> {"idle", "waiting", "flushing"}]
        /\ critSec \in Threads \cup {NoThread} /\ NoThread \notin Threads
    BY DEF TypeOK
  <1>f. ASSUME critSec = NoThread, NEW t \in Threads PROVE pc[t] = "idle"
    BY <1>f, <1>t DEF LockInv
  <1>1. ASSUME NEW t \in Threads, Open(t) \/ Write(t) \/ Close(t) PROVE LockInv'
    <2>1. /\ critSec = NoThread /\ UNCHANGED <<critSec, pc>>
          /\ \A u \in Threads : pc[u] = "idle"
      BY <1>1, <1>f, Zenon DEF Open, Write, Close, CanEnter
    <2>2. overlapped' = "pending" => inFlight' # {}
      BY <1>1 DEF Open, Write, Close, kernelVars, LockInv
    <2> QED
      BY <1>t, <2>1, <2>2 DEF LockInv
  <1>2. ASSUME NEW t \in Threads, Service(t) PROVE LockInv'
    <2>1. /\ critSec = NoThread /\ UNCHANGED <<critSec, pc, overlapped, inFlight>>
          /\ \A u \in Threads : pc[u] = "idle"
      BY <1>2, <1>f, Zenon DEF Service, ServiceEnters, CanEnter
    <2> QED
      BY <1>t, <2>1 DEF LockInv
  <1>3. ASSUME NEW t \in Threads, BeginWait(t) \/ BeginFlush(t) PROVE LockInv'
    <2>1. PICK label \in {"waiting", "flushing"} :
            /\ critSec' = t /\ pc' = [pc EXCEPT ![t] = label]
            /\ UNCHANGED <<overlapped, event, inFlight, aborted>>
            /\ label = "waiting" => overlapped = "pending"
      BY <1>3, Zenon DEF BeginWait, BeginFlush, Block, kernelVars
    <2>2. /\ critSec = NoThread /\ aborted' = FALSE
          /\ \A u \in Threads : pc[u] = "idle"
      <3>1. critSec = NoThread /\ ~aborted /\ aborted' = aborted
        BY <1>3, <2>1, Zenon DEF BeginWait, BeginFlush, ServiceEnters, CanEnter
      <3>2. aborted \in BOOLEAN
        BY DEF TypeOK
      <3> QED
        BY <1>f, <3>1, <3>2, Zenon
    <2> QED
      BY <1>t, <2>1, <2>2 DEF LockInv
  <1>4. ASSUME NEW t \in Threads, EndWait(t) \/ EndFlush(t) PROVE LockInv'
    <2>1. /\ critSec' = NoThread /\ pc[t] # "idle" /\ pc' = [pc EXCEPT ![t] = "idle"]
          /\ UNCHANGED <<overlapped, inFlight>>
      BY <1>4 DEF EndWait, EndFlush, Unblock, kernelVars
    <2>2. \A u \in Threads : pc'[u] = "idle"
      BY <1>t, <2>1 DEF LockInv
    <2> QED
      BY <1>t, <2>1, <2>2 DEF LockInv
  <1>5. CASE CompleteWrite
    <2>1. /\ overlapped' # "pending" /\ event' = TRUE /\ UNCHANGED <<critSec, pc, aborted>>
      BY <1>5 DEF CompleteWrite
    <2> QED
      BY <2>1 DEF LockInv
  <1>6. CASE UNCHANGED vars
    BY <1>6, Zenon DEF vars, LockInv
  <1> QED
    BY <1>1, <1>2, <1>3, <1>4, <1>5, <1>6 DEF Next, Calls

LEMMA LockInvInit == Init => LockInv
  <1> SUFFICES ASSUME Init PROVE LockInv
    OBVIOUS
  <1>1. /\ overlapped = "none" /\ critSec = NoThread
        /\ \A t \in Threads : pc[t] = "idle"
    BY DEF Init
  <1> QED
    BY <1>1 DEF LockInv

(* service(true) and flushWriteBuffer block inside the lock of the client. *)
(* With assertions or without, the thread that does is never stuck there:  *)
(* what it waits for has come, or the kernel has a write to complete; the  *)
(* other threads can neither close the pipe under it nor abort.            *)
THEOREM HolderIsNeverStuck == Spec => []LockGoesOn
  <1>1. TypeOK /\ LockInv => LockGoesOn
    <2> SUFFICES ASSUME TypeOK, LockInv, critSec # NoThread
                 PROVE  aborted = FALSE /\ (Released(critSec) \/ inFlight # {})
      BY DEF LockGoesOn
    <2>1. critSec \in Threads /\ pc[critSec] \in {"waiting", "flushing"}
      BY DEF TypeOK, LockInv
    <2> QED
      BY <2>1 DEF LockInv, Released
  <1> QED
    BY <1>1, LockInvInit, LockInvStep, TypeCorrect, PTL DEF Spec

(* So LockIsLeft needs no more than the kernel's completions: there are no *)
(* more of them before the thread leaves than writes in the kernel.        *)
THEOREM LockIsRunDown == Spec => LockRunsDown
  <1> DEFINE Down == critSec # NoThread =>
                       \/ critSec' = NoThread /\ Released(critSec)
                       \/ /\ critSec' = critSec
                          /\ inFlight' \subseteq inFlight /\ inFlight' # inFlight
                          /\ Released(critSec) => Released(critSec)'
  <1>1. ASSUME TypeOK, LockInv, Next PROVE Down
    <2> SUFFICES ASSUME critSec # NoThread
                 PROVE  \/ critSec' = NoThread /\ Released(critSec)
                        \/ /\ critSec' = critSec
                           /\ inFlight' \subseteq inFlight /\ inFlight' # inFlight
                           /\ Released(critSec) => Released(critSec)'
      OBVIOUS
    <2>1. \A t \in Threads : ~CanEnter(t)
      BY DEF CanEnter
    <2>2. ASSUME NEW t \in Threads, Calls(t) PROVE critSec' = NoThread /\ Released(critSec)
      <3>1. EndWait(t) \/ EndFlush(t)
        BY <2>1, <2>2, Zenon DEF Calls, Open, Write, Close, Service, BeginWait, BeginFlush,
                          ServiceEnters
      <3>2. critSec' = NoThread /\ pc[t] # "idle" /\ Released(t)
        BY <3>1 DEF EndWait, EndFlush, Unblock, Released
      <3>3. critSec = t
        BY <1>1, <3>2, Zenon DEF LockInv
      <3> QED
        BY <3>2, <3>3, Zenon
    <2>3. CASE CompleteWrite
      <3>1. /\ critSec' = critSec /\ pc' = pc /\ event' = TRUE
            /\ \E n \in inFlight : inFlight' = inFlight \ {n}
        BY <2>3 DEF CompleteWrite
      <3>2. inFlight' \subseteq inFlight /\ inFlight' # inFlight
        BY <3>1
      <3>3. Released(critSec) => Released(critSec)'
        BY <3>1 DEF Released
      <3> QED
        BY <3>1, <3>2, <3>3
    <2> QED
      BY <1>1, <2>2, <2>3 DEF Next
  <1>2. TypeOK /\ LockInv /\ [Next]_vars => [Down]_vars
    BY <1>1
  <1> HIDE DEF Down
  <1>3. Spec => [][Down]_vars
    BY <1>2, LockInvInit, LockInvStep, TypeCorrect, PTL DEF Spec
  <1> QED
    BY <1>3 DEF LockRunsDown, Down
=============================================================================
