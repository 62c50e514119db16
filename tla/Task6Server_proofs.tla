------------------------- MODULE Task6Server_proofs -------------------------
(***************************************************************************)
(* Proofs about Task6Server, for any set of workers and any number of      *)
(* instances.  The pipe server's invariant carries over because the server *)
(* implements it; Attendance is what the worker loop adds.                 *)
(***************************************************************************)
EXTENDS Task6Server, InPipeServer_proofs, FiniteSetTheorems

USE DEF Becomes, Instances, AllPosted, KeepPacket, AfterHandle, AfterRearm

Task6Inv == Task6TypeOK /\ Inv /\ FreshResult /\ Attendance

-----------------------------------------------------------------------------
(* The server implements the pipe server.                                  *)

(* Every step of the server is a step of a thread in the pipe server, a    *)
(* step of its environment, or leaves it alone.                            *)
LEMMA RefinementStep == Task6Inv /\ [Task6Next]_Task6Vars => [Next]_vars
<1> SUFFICES ASSUME Task6Inv, [Task6Next]_Task6Vars PROVE [Next]_vars
  OBVIOUS
<1>c. ASSUME NEW t \in Workers \cup {Main}, NEW i \in Pipes,
             \/ ConnectInstance(t, i) \/ ReadInstance(t, i)
             \/ FinishConnect(t, i) \/ FinishRead(t, i)
             \/ GetPacket(t) \/ Service(t)
      PROVE  Next
  BY <1>c, ServerAssumption DEF Next, Calls
<1>p. ASSUME NEW t \in Workers \cup {Main}, GetPacket(t) \/ Service(t)
      PROVE  Next
  BY <1>p, ServerAssumption DEF Next, Calls
<1>r. ASSUME NEW t, NEW i, ConnectRefused(t, i) \/ ReadRefused(t, i)
      PROVE  UNCHANGED vars
  BY <1>r DEF ConnectRefused, ReadRefused
<1>1. CASE BeginConnecting
  BY <1>1, <1>c, <1>r DEF BeginConnecting, Task6Inv, Task6TypeOK
<1>2. CASE EndConnecting
  BY <1>2, <1>c DEF EndConnecting, Task6Inv, Task6TypeOK
<1>3. CASE PostShutdown
  BY <1>3, ServerAssumption DEF PostShutdown, Next, Environment
<1>4. CASE Clients
  BY <1>4 DEF Clients, Next, Environment
<1>5. CASE \/ CreateWorker \/ CreateThreadFails \/ StopAndWait \/ Join
           \/ JoinFails \/ Terminated \/ UNCHANGED Task6Vars
  BY <1>5 DEF CreateWorker, CreateThreadFails, StopAndWait, Join, JoinFails,
              Terminated, Task6Vars
<1>6. ASSUME NEW w \in Workers, Worker(w) PROVE [Next]_vars
  <2>1. CASE Dequeue(w) \/ CallService(w)
    BY <2>1, <1>p DEF Dequeue, CallService
  <2>2. CASE Check(w) \/ Handle(w)
    BY <2>2 DEF Check, Handle
  <2>3. CASE Rearm(w)
    <3>1. result[w].pipe \in Pipes
      BY <2>3 DEF Rearm, Task6Inv, Attendance, AttendedAlone
    <3> QED
      BY <2>3, <3>1, <1>c, <1>r DEF Rearm, Begins, Refuses
  <2>4. CASE EndRearm(w)
    <3>1. result[w].pipe \in Pipes
      BY <2>4 DEF EndRearm, Task6Inv, Attendance, AttendedAlone
    <3> QED
      BY <2>4, <3>1, <1>c DEF EndRearm
  <2> QED
    BY <1>6, <2>1, <2>2, <2>3, <2>4 DEF Worker
<1> QED
  BY <1>1, <1>2, <1>3, <1>4, <1>5, <1>6 DEF Task6Next, Construct

-----------------------------------------------------------------------------
(* What the worker loop adds.                                              *)

LEMMA Task6InvInit == Task6Init => Task6Inv
<1>1. Init => TypeOK /\ Inv /\ FreshResult
  BY TypeInit, InvInit DEF Init, FreshResult
<1>2. Task6Init => Task6TypeOK
  <2>1. 0 \in Pipes /\ 0 \in 0 .. MaxClients /\ 0 \in Nat
    BY ServerAssumption
  <2>2. << >> \in Seq(Nat)
    OBVIOUS
  <2> QED
    BY <1>1, <2>1, <2>2, Zenon DEF Task6Init, Task6TypeOK
<1>3. Task6Init => Attendance
  BY ServerAssumption DEF Task6Init, Attendance
<1> QED
  BY <1>1, <1>2, <1>3 DEF Task6Init, Task6Inv

LEMMA Task6TypeStep == Task6Inv /\ [Task6Next]_Task6Vars => Task6TypeOK'
<1> SUFFICES ASSUME Task6Inv, [Task6Next]_Task6Vars PROVE Task6TypeOK'
  OBVIOUS
<1> USE DEF Task6TypeOK, mainVars
<1>1. TypeOK'
  BY TypeStep, RefinementStep DEF Task6Inv
<1>b. CASE CreateThreadFails \/ StopAndWait
  <2>1. shutdownEvent' \in BOOLEAN
    BY <1>b, Zenon DEF CreateThreadFails, StopAndWait
  <2> QED
    BY <1>1, <1>b, <2>1 DEF CreateThreadFails, StopAndWait, Task6Inv
<1>2. CASE Construct
  BY <1>1, <1>2, ServerAssumption
     DEF Construct, BeginConnecting, ConstructorThrows, EndConnecting,
         CreateWorker, Task6Inv, Attendance
<1>3. CASE PostShutdown \/ Join \/ JoinFails
  BY <1>1, <1>3 DEF PostShutdown, Join, JoinFails, DestroyPipeServer, Task6Inv
<1>4. CASE Clients \/ Terminated \/ UNCHANGED Task6Vars
  BY <1>1, <1>4 DEF Clients, Terminated, Task6Vars, Task6Inv
<1>5. ASSUME NEW w \in Workers, Worker(w) PROVE Task6TypeOK'
  <2>1. CASE Handle(w)
    <3>1. result[w].pipe \in Pipes
      BY <2>1 DEF Handle, Task6Inv, Attendance, AttendedAlone
    <3>2. handled' \in [Pipes -> Seq(Nat)]
      BY <2>1, <3>1 DEF Handle, Task6Inv, TypeOK, KernelType
    <3> QED
      BY <1>1, <2>1, <3>2 DEF Handle, Goto, Task6Inv
  <2>2. CASE \/ Dequeue(w) \/ Check(w) \/ CallService(w) \/ Rearm(w)
             \/ EndRearm(w)
    BY <1>1, <2>2 DEF Dequeue, Check, CallService, AfterService, Rearm,
                      EndRearm, Goto, Task6Inv
  <2> QED
    BY <1>5, <2>1, <2>2 DEF Worker
<1> QED
  BY <1>b, <1>2, <1>3, <1>4, <1>5 DEF Task6Next

(* An instance that a worker has yet to give its next operation has none.  *)
LEMMA AttendedIsFree ==
    ASSUME Task6Inv, NEW w \in Workers, wpc[w] \in {"handle", "rearm"}
    PROVE  ~Outstanding(result[w].pipe)
<1> DEFINE i == result[w].pipe
<1>1. /\ i \in Pipes
      /\ state[i] \in {UNCONNECTED, CONNECTED}
      /\ critSec[i] = NoThread
  BY DEF Task6Inv, Attendance, AttendedAlone
<1>2. UnderWay(i) = "none"
  BY <1>1 DEF UnderWay, Doing, UNCONNECTED, CONNECTED
<1> QED
  BY <1>1, <1>2, NoneOutstanding DEF Task6Inv, Task6TypeOK, Inv, Outstanding

(* A step that moves no worker to or from an instance, and changes neither *)
(* the state nor the lock of an attended one, keeps Attendance.            *)
LEMMA AttendanceFrame ==
    ASSUME Task6Inv,
           phase' = "connecting" => phase = "connecting",
           \A w \in Workers :
             wpc'[w] # wpc[w] =>
               /\ wpc'[w] \notin {"handle", "rearm", "rearming"}
               /\ phase' # "connecting",
           UNCHANGED <<state, critSec>>,
           \A w \in Workers :
             wpc'[w] \in {"handle", "rearm", "rearming"} => result'[w] = result[w]
    PROVE  Attendance'
  BY DEF Attendance, AttendedAlone, Attends, Task6Inv

LEMMA AttendanceStep == Task6Inv /\ [Task6Next]_Task6Vars => Attendance'
<1> SUFFICES ASSUME Task6Inv, [Task6Next]_Task6Vars PROVE Attendance'
  OBVIOUS
<1>t. /\ Main \notin Workers
      /\ NoThread \notin Workers \cup {Main}
      /\ wpc \in [Workers -> {"unstarted", "wait", "check", "service", "handle",
                              "rearm", "rearming", "exited"}]
      /\ result \in [Workers \cup {Main} -> Results]
      /\ critSec \in [Pipes -> Workers \cup {Main} \cup {NoThread}]
      /\ state \in [Pipes -> SUBSET Flags]
  BY ServerAssumption, PipeAssumption
     DEF Task6Inv, Task6TypeOK, TypeOK, ThreadType, ServerType
<1>1. CASE Construct
  <2>1. CASE BeginConnecting \/ EndConnecting
    <3>1. \A w \in Workers : wpc'[w] = "unstarted"
      BY <2>1 DEF BeginConnecting, EndConnecting, Task6Inv, Attendance
    <3> QED
      BY <3>1 DEF Attendance
  <2>2. CASE CreateWorker
    BY <1>t, <2>2, AttendanceFrame DEF CreateWorker, vars, Task6Inv, Attendance
  <2> QED
    BY <1>1, <2>1, <2>2 DEF Construct
<1>2. CASE \/ CreateThreadFails \/ StopAndWait \/ Join \/ JoinFails
           \/ Terminated \/ UNCHANGED Task6Vars
  BY <1>2, AttendanceFrame
     DEF CreateThreadFails, StopAndWait, Join, JoinFails, DestroyPipeServer,
         Terminated, Task6Vars, mainVars, vars
<1>3. CASE PostShutdown \/ Clients
  BY <1>3, AttendanceFrame
     DEF PostShutdown, Clients, PostForeign, PeerOpen, PeerWrite, PeerClose,
         threadVars, mainVars
<1>4. ASSUME NEW w \in Workers, Worker(w) PROVE Attendance'
  <2>1. CASE Dequeue(w)
    BY <1>t, <2>1, AttendanceFrame DEF Dequeue, Goto, GetPacket, mainVars,
                                       Task6Inv, Attendance
  <2>2. CASE Check(w)
    BY <1>t, <2>2, AttendanceFrame DEF Check, Goto, mainVars, vars,
                                       Task6Inv, Attendance
  <2>3. CASE CallService(w)
    <3>1. TypeOK /\ Inv /\ FreshResult /\ Service(w) /\ w \in Threads
      BY <2>3, ServerAssumption DEF CallService, Task6Inv, Task6TypeOK
    <3>2. PICK i \in Pipes : i = packet[w].pipe
      BY <3>1, ServiceOutcomes
    <3>3. critSec[i] = NoThread /\ Holding(i) = {w} /\ ~InvalidState(i)
      BY <3>1, <3>2, ServiceOutcomes
    <3>4. \A v \in Workers : ~Attends(v, i)
      <4>1. ASSUME NEW v \in Workers, Attends(v, i) PROVE FALSE
        <5>1. wpc[v] \in {"handle", "rearm"}
          BY <1>t, <3>3, <4>1 DEF Attends, Task6Inv, Attendance, AttendedAlone
        <5> QED
          BY <3>3, <4>1, <5>1, AttendedIsFree DEF Attends, Outstanding
      <4> QED
        BY <4>1
    <3>5. result[w] = NoResult
      BY <3>1 DEF Service, FreshResult
    <3>6. /\ UNCHANGED <<critSec, phase, next>>
          /\ \A v \in Workers \ {w} : wpc'[v] = wpc[v] /\ result'[v] = result[v]
          /\ \A j \in Pipes \ {i} : state'[j] = state[j]
          /\ wpc'[w] = AfterService(w)
      BY <1>t, <2>3, <3>1, <3>2
         DEF CallService, Goto, mainVars, Service, ServiceCases, Serviced,
             ServiceThrows
    <3>7. \/ wpc'[w] = "wait"
          \/ /\ wpc'[w] \in {"handle", "rearm"}
             /\ result'[w].pipe = i
             /\ state'[i] = result'[w].newState
             /\ state'[i] \in {UNCONNECTED, CONNECTED}
      <4>1. ServiceCases(w, i)
        BY <3>1, <3>2 DEF Service
      <4>2. CASE \E new \in {UNCONNECTED, CONNECTED}, op \in {"connect", "read"},
                  z \in BOOLEAN : Serviced(w, i, new, op, z)
        BY <1>t, <3>6, <4>2 DEF Serviced, AfterService, Received
      <4>3. CASE result' = result
        BY <3>5, <3>6, <4>3 DEF AfterService
      <4> QED
        BY <4>1, <4>2, <4>3 DEF ServiceCases, ServiceThrows
    <3>8. phase # "connecting"
      BY <2>3 DEF CallService, Task6Inv, Attendance
    <3> QED
      BY <3>3, <3>4, <3>6, <3>7, <3>8
         DEF Task6Inv, Attendance, AttendedAlone, Attends
  <2>4. CASE Handle(w)
    BY <1>t, <2>4 DEF Handle, Goto, mainVars, vars, Task6Inv, Attendance,
                      AttendedAlone, Attends
  <2>5. CASE Rearm(w)
    <3>1. PICK i \in Pipes : i = result[w].pipe
      BY <2>5 DEF Rearm, Task6Inv, Attendance, AttendedAlone
    <3>2. phase # "connecting" /\ phase' = phase
      BY <2>5 DEF Rearm, mainVars, Task6Inv, Attendance
    <3>3. CASE Refuses(w, i) /\ Goto(w, "wait")
      BY <1>t, <2>5, <3>2, <3>3, AttendanceFrame
         DEF Rearm, Refuses, ConnectRefused, ReadRefused, vars, Goto
    <3>4. CASE Begins(w, i) /\ Goto(w, "rearming")
      <4>1. /\ UNCHANGED <<state, result>>
            /\ critSec' = [critSec EXCEPT ![i] = w]
        BY <3>4 DEF Begins, ConnectInstance, ReadInstance, Enter
      <4>2. wpc' = [wpc EXCEPT ![w] = "rearming"] /\ wpc[w] = "rearm"
        BY <2>5, <3>4 DEF Goto, Rearm
      <4> QED
        BY <1>t, <3>1, <3>2, <4>1, <4>2
           DEF Task6Inv, Attendance, AttendedAlone, Attends
    <3> QED
      BY <2>5, <3>1, <3>3, <3>4 DEF Rearm
  <2>6. CASE EndRearm(w)
    <3>1. PICK i \in Pipes : i = result[w].pipe
      BY <2>6 DEF EndRearm, Task6Inv, Attendance, AttendedAlone
    <3>2. phase # "connecting" /\ phase' = phase
      BY <2>6 DEF EndRearm, mainVars, Task6Inv, Attendance
    <3>3. /\ result' = result
          /\ critSec' = [critSec EXCEPT ![i] = NoThread]
          /\ \A j \in Pipes \ {i} : state'[j] = state[j]
      BY <1>t, <2>6, <3>1 DEF EndRearm, FinishConnect, FinishRead, Leave
    <3>4. wpc' = [wpc EXCEPT ![w] = "wait"] /\ wpc[w] = "rearming"
      BY <2>6 DEF Goto, EndRearm
    <3> QED
      BY <1>t, <3>1, <3>2, <3>3, <3>4
         DEF Task6Inv, Attendance, AttendedAlone, Attends
  <2> QED
    BY <1>4, <2>1, <2>2, <2>3, <2>4, <2>5, <2>6 DEF Worker
<1> QED
  BY <1>1, <1>2, <1>3, <1>4 DEF Task6Next

LEMMA Task6InvStep == Task6Inv /\ [Task6Next]_Task6Vars => Task6Inv'
<1> QED
  BY RefinementStep, Task6TypeStep, AttendanceStep, InvStep, FreshStep
     DEF Task6Inv, Task6TypeOK

-----------------------------------------------------------------------------
(* Type correctness of the server.                                         *)
THEOREM Task6TypeCorrect == Task6Spec => []Task6TypeOK
  BY Task6InvInit, Task6InvStep, PTL DEF Task6Spec, Task6Inv

(* The server implements the pipe server: with any number of workers and   *)
(* instances, what the workers and stopAndWait do with it are behaviours   *)
(* of InPipeServer, so its theorems hold of the running program.           *)
THEOREM ServerImplementsPipeServer == Task6Spec => PipeServerSpec
<1>1. Task6Init => Init
  BY DEF Task6Init
<1> QED
  BY <1>1, RefinementStep, Task6InvInit, Task6InvStep, PTL
     DEF Task6Spec, PipeServerSpec, Spec

(* Two workers never attend to the same instance, and while one reads an   *)
(* instance's buffer the kernel has no operation that could write to it.   *)
THEOREM AttendantIsAlone == Task6Spec => []OneAttendant
<1>1. Task6Inv => OneAttendant
  <2> SUFFICES ASSUME Task6Inv, NEW i \in Pipes, NEW v \in Workers,
                      NEW w \in Workers, Attends(v, i), Attends(w, i)
               PROVE  v = w /\ (wpc[w] # "rearming" => ~Outstanding(i))
    BY DEF OneAttendant
  <2>1. v = w
    BY DEF Task6Inv, Attendance, AttendedAlone, Attends
  <2>2. wpc[w] # "rearming" => ~Outstanding(i)
    BY AttendedIsFree DEF Attends
  <2> QED
    BY <2>1, <2>2
<1> QED
  BY <1>1, Task6InvInit, Task6InvStep, PTL DEF Task6Spec

LEMMA Task6Invariance == Task6Spec => []Task6Inv
  BY Task6InvInit, Task6InvStep, PTL DEF Task6Spec

-----------------------------------------------------------------------------
(* Delivery.                                                               *)

\* A message that was read and is not handled yet: its packet is in the port
\* or with a worker, or a worker is about to handle it.
Fresh(p) == p.kind = "read" /\ p.err = "ok"

ReadyInPort(i) == \E n \in DOMAIN iocp : iocp[n].pipe = i /\ Fresh(iocp[n])
ReadyInHand(i) == \E t \in Threads : pc[t] = "got" /\ packet[t].pipe = i /\ Fresh(packet[t])
ReadyToHandle(i) == \E w \in Workers : wpc[w] = "handle" /\ result[w].pipe = i
Ready(i) == ReadyInPort(i) \/ ReadyInHand(i) \/ ReadyToHandle(i)

OrderInv(i) ==
    /\ "DISCONNECTING" \notin state[i]
    /\ buffer[i] = taken[i]
    /\ pending[i] = "read" => taken[i] = sent[i]
    /\ handled[i] = [n \in 1 .. Len(handled[i]) |-> n]
    /\ taken[i] = Len(handled[i]) + (IF Ready(i) THEN 1 ELSE 0)

DeliverInv == \A i \in Pipes : OrderInv(i)

(* A message of instance i is ready only when no operation is in the       *)
(* kernel, and when no worker has yet to give it its next one but the one  *)
(* that is about to handle the message.                                    *)
LEMMA ReadyAlone ==
    ASSUME Task6Inv, NEW i \in Pipes
    PROVE  /\ pending[i] # "none" => ~Ready(i)
           /\ \A w \in Workers : wpc[w] = "rearm" /\ result[w].pipe = i => ~Ready(i)
           /\ \A w \in Workers : wpc[w] \in {"handle", "rearm"} /\ result[w].pipe = i =>
                ~ReadyInPort(i) /\ ~ReadyInHand(i)
<1>1. Outstanding(i) <=> pending[i] # "none" \/ Queued(i) # {} \/ Holding(i) # {}
  BY DEF Outstanding
<1>2. /\ ReadyInPort(i) => Queued(i) # {}
      /\ ReadyInHand(i) => Holding(i) # {}
  BY DEF ReadyInPort, ReadyInHand, Queued, Holding
<1>3. \A w \in Workers : wpc[w] \in {"handle", "rearm"} /\ result[w].pipe = i =>
        ~Outstanding(i)
  BY AttendedIsFree
<1>4. pending[i] # "none" => Queued(i) = {} /\ Holding(i) = {}
  BY DEF Task6Inv, Inv, PipeInv, OneOperation
<1>5. \A w \in Workers : wpc[w] = "rearm" /\ result[w].pipe = i => ~ReadyToHandle(i)
  BY DEF Task6Inv, Attendance, AttendedAlone, Attends, ReadyToHandle
<1> QED
  BY <1>1, <1>2, <1>3, <1>4, <1>5 DEF Ready, ReadyToHandle

(* A packet that is posted.                                                *)
LEMMA PostReady ==
    ASSUME TypeOK, NEW p \in Packets, Post(p), NEW i \in Pipes
    PROVE  ReadyInPort(i)' <=> ReadyInPort(i) \/ (p.pipe = i /\ Fresh(p))
<1>1. iocp \in Seq(Packets) /\ iocp' = Append(iocp, p)
  BY DEF TypeOK, PortType, Post
<1>2. /\ DOMAIN iocp' = 1 .. Len(iocp) + 1 /\ DOMAIN iocp = 1 .. Len(iocp)
      /\ Len(iocp) \in Nat
      /\ \A n \in DOMAIN iocp : iocp'[n] = iocp[n]
      /\ iocp'[Len(iocp) + 1] = p
  BY <1>1, AppendEntries
<1>3. ReadyInPort(i) => ReadyInPort(i)'
  BY <1>2 DEF ReadyInPort, Fresh
<1>4. p.pipe = i /\ Fresh(p) => ReadyInPort(i)'
  BY <1>2 DEF ReadyInPort, Fresh
<1>5. ReadyInPort(i)' => ReadyInPort(i) \/ (p.pipe = i /\ Fresh(p))
  <2> SUFFICES ASSUME NEW n \in DOMAIN iocp', iocp'[n].pipe = i, Fresh(iocp'[n])
               PROVE  ReadyInPort(i) \/ (p.pipe = i /\ Fresh(p))
    BY DEF ReadyInPort, Fresh
  <2>1. n \in DOMAIN iocp \/ n = Len(iocp) + 1
    BY <1>2
  <2> QED
    BY <1>2, <2>1 DEF ReadyInPort, Fresh
<1> QED
  BY <1>3, <1>4, <1>5

(* A packet that is dequeued.                                              *)
LEMMA GetReady ==
    ASSUME TypeOK, NEW t \in Threads, GetPacket(t), NEW i \in Pipes
    PROVE  ReadyInPort(i)' \/ ReadyInHand(i)' <=> ReadyInPort(i) \/ ReadyInHand(i)
<1>1. iocp \in Seq(Packets) /\ iocp # << >> /\ iocp' = Tail(iocp)
  BY DEF TypeOK, PortType, GetPacket
<1>2. /\ 1 \in DOMAIN iocp /\ Head(iocp) = iocp[1]
      /\ \A n \in DOMAIN iocp' : n + 1 \in DOMAIN iocp /\ iocp'[n] = iocp[n + 1]
      /\ \A n \in DOMAIN iocp : n # 1 => n - 1 \in DOMAIN iocp' /\ iocp'[n - 1] = iocp[n]
  BY <1>1, TailEntries
<1>3. /\ pc[t] = "idle" /\ pc'[t] = "got" /\ packet'[t] = iocp[1]
      /\ \A u \in Threads \ {t} : pc'[u] = pc[u] /\ packet'[u] = packet[u]
  BY <1>2 DEF GetPacket, TypeOK, ThreadType
<1>4. ReadyInPort(i) => ReadyInPort(i)' \/ ReadyInHand(i)'
  <2> SUFFICES ASSUME NEW n \in DOMAIN iocp, iocp[n].pipe = i, Fresh(iocp[n])
               PROVE  ReadyInPort(i)' \/ ReadyInHand(i)'
    BY DEF ReadyInPort
  <2>1. CASE n = 1
    BY <1>3, <2>1 DEF ReadyInHand, Fresh
  <2>2. CASE n # 1
    BY <1>2, <2>2 DEF ReadyInPort, Fresh
  <2> QED
    BY <2>1, <2>2
<1>5. ReadyInPort(i)' => ReadyInPort(i)
  BY <1>2 DEF ReadyInPort, Fresh
<1>6. ReadyInHand(i) => ReadyInHand(i)'
  BY <1>3 DEF ReadyInHand, Fresh
<1>7. ReadyInHand(i)' => ReadyInPort(i) \/ ReadyInHand(i)
  <2> SUFFICES ASSUME NEW u \in Threads, pc'[u] = "got", packet'[u].pipe = i,
                      Fresh(packet'[u])
               PROVE  ReadyInPort(i) \/ ReadyInHand(i)
    BY DEF ReadyInHand, Fresh
  <2> QED
    BY <1>2, <1>3 DEF ReadyInPort, ReadyInHand, Fresh
<1> QED
  BY <1>4, <1>5, <1>6, <1>7

LEMMA OrderFrame ==
    ASSUME NEW i \in Pipes, OrderInv(i),
           "DISCONNECTING" \notin state'[i],
           buffer'[i] = buffer[i], taken'[i] = taken[i], handled'[i] = handled[i],
           pending'[i] = "read" => taken'[i] = sent'[i],
           Ready(i)' <=> Ready(i)
    PROVE  OrderInv(i)'
  BY DEF OrderInv

\* What no thread but a worker moves.
LEMMA ReadyFrame ==
    ASSUME NEW i \in Pipes,
           ReadyInPort(i)' <=> ReadyInPort(i),
           UNCHANGED <<packet, result>>,
           \A t \in Threads : pc'[t] = "got" <=> pc[t] = "got",
           \A w \in Workers : wpc'[w] = "handle" <=> wpc[w] = "handle"
    PROVE  Ready(i)' <=> Ready(i)
  BY DEF Ready, ReadyInHand, ReadyToHandle, Fresh

LEMMA ConnectDelivers ==
    ASSUME Task6Inv, DeliverInv, NEW t \in Threads, NEW j \in Pipes,
           ConnectInstance(t, j), handled' = handled,
           \A w \in Workers : wpc'[w] = "handle" <=> wpc[w] = "handle"
    PROVE  DeliverInv'
<1> SUFFICES ASSUME NEW i \in Pipes PROVE OrderInv(i)'
  BY DEF DeliverInv
<1>1. /\ UNCHANGED <<state, buffer, taken, sent, packet, result>>
      /\ \A u \in Threads : pc'[u] = "got" <=> pc[u] = "got"
      /\ pending' = pending \/ pending' = [pending EXCEPT ![j] = "connect"]
  BY DEF ConnectInstance, ConnectNamedPipe, CanEnter, Enter, Task6Inv, Task6TypeOK,
         TypeOK, ThreadType
<1>2. ReadyInPort(i)' <=> ReadyInPort(i)
  <2>1. iocp' = iocp \/ Post(Completion(j, "connect", "ok"))
    BY DEF ConnectInstance, ConnectNamedPipe
  <2>2. CASE iocp' = iocp
    BY <2>2 DEF ReadyInPort, Fresh
  <2>3. CASE Post(Completion(j, "connect", "ok"))
    <3>1. Completion(j, "connect", "ok") \in Packets
      BY CompletionType DEF Task6Inv, Task6TypeOK, Errors
    <3>2. ~Fresh(Completion(j, "connect", "ok"))
      BY DEF Fresh, Completion
    <3> QED
      BY <2>3, <3>1, <3>2, PostReady DEF Task6Inv, Task6TypeOK
  <2> QED
    BY <2>1, <2>2, <2>3
<1>3. Ready(i)' <=> Ready(i)
  BY <1>1, <1>2, ReadyFrame
<1>4. pending'[i] = "read" => taken'[i] = sent'[i]
  BY <1>1 DEF DeliverInv, OrderInv, Task6Inv, Task6TypeOK, TypeOK, KernelType
<1> QED
  BY <1>1, <1>3, <1>4, OrderFrame DEF DeliverInv, OrderInv

LEMMA FinishDelivers ==
    ASSUME Task6Inv, DeliverInv, NEW t \in Threads, NEW j \in Pipes,
           FinishConnect(t, j) \/ FinishRead(t, j), handled' = handled,
           \A w \in Workers : wpc'[w] = "handle" <=> wpc[w] = "handle"
    PROVE  DeliverInv'
<1> SUFFICES ASSUME NEW i \in Pipes PROVE OrderInv(i)'
  BY DEF DeliverInv
<1>1. /\ UNCHANGED <<buffer, taken, sent, packet, result, pending, iocp>>
      /\ \A u \in Threads : pc'[u] = "got" <=> pc[u] = "got"
  BY DEF FinishConnect, FinishRead, Leave, osVars, Task6Inv, Task6TypeOK,
         TypeOK, ThreadType
<1>2. "DISCONNECTING" \notin state'[i]
  <2>1. "DISCONNECTING" \notin state[i] /\ state \in [Pipes -> SUBSET Flags]
    BY DEF DeliverInv, OrderInv, Task6Inv, Task6TypeOK, TypeOK, ServerType
  <2>2. \/ state' = [state EXCEPT ![j] = {"CONNECTING"}]
        \/ state' = [state EXCEPT ![j] = state[j] \cup {"READING"}]
    BY DEF FinishConnect, FinishRead, Connecting, Reading, UnconnectedConnecting
  <2>3. "DISCONNECTING" \notin {"CONNECTING"} /\ "DISCONNECTING" # "READING"
    OBVIOUS
  <2> QED
    BY <2>1, <2>2, <2>3
<1>3. Ready(i)' <=> Ready(i)
  BY <1>1, ReadyFrame DEF ReadyInPort, Fresh
<1> QED
  BY <1>1, <1>2, <1>3, OrderFrame DEF DeliverInv, OrderInv

\* The instance whose message is read or written is free of any other.
LEMMA ReadDelivers ==
    ASSUME Task6Inv, DeliverInv, NEW w \in Workers, NEW j \in Pipes,
           ReadInstance(w, j), wpc[w] = "rearm", result[w].pipe = j,
           handled' = handled, wpc' = [wpc EXCEPT ![w] = "rearming"]
    PROVE  DeliverInv'
<1> SUFFICES ASSUME NEW i \in Pipes PROVE OrderInv(i)'
  BY DEF DeliverInv
<1>t. TypeOK /\ KernelType /\ w \in Threads
  BY ServerAssumption DEF Task6Inv, Task6TypeOK, TypeOK
<1>1. /\ UNCHANGED <<state, sent, packet, result>>
      /\ \A u \in Threads : pc'[u] = "got" <=> pc[u] = "got"
      /\ \A v \in Workers : wpc'[v] = "handle" <=> wpc[v] = "handle"
  BY <1>t DEF ReadInstance, CanEnter, Enter, TypeOK, ThreadType, Task6Inv, Task6TypeOK
<1>2. ~Ready(j)
  BY ReadyAlone
<1>3. CASE taken[j] = sent[j] /\ pending' = [pending EXCEPT ![j] = "read"]
           /\ UNCHANGED <<taken, buffer, iocp>>
  <2>1. Ready(i)' <=> Ready(i)
    BY <1>1, <1>3, ReadyFrame DEF ReadyInPort, Fresh
  <2> QED
    BY <1>t, <1>1, <1>3, <2>1, OrderFrame DEF DeliverInv, OrderInv, KernelType
<1>4. CASE /\ taken' = [taken EXCEPT ![j] = @ + 1]
           /\ buffer' = [buffer EXCEPT ![j] = taken[j] + 1]
           /\ Post(Completion(j, "read", "ok")) /\ pending' = pending
  <2> DEFINE c == Completion(j, "read", "ok")
  <2>1. c \in Packets /\ c.pipe = j /\ Fresh(c)
    BY <1>t, CompletionType DEF Completion, Fresh, Errors
  <2>2. ReadyInPort(i)' <=> ReadyInPort(i) \/ i = j
    BY <1>t, <1>4, <2>1, PostReady
  <2>3. CASE i = j
    <3>1. Ready(j)' /\ handled'[j] = handled[j]
      BY <2>2, <2>3 DEF Ready
    <3>2. buffer'[j] = taken[j] + 1 /\ taken'[j] = taken[j] + 1 /\ taken[j] \in Nat
      BY <1>t, <1>4 DEF KernelType
    <3>3. pending[j] # "read"
      <4>1. ~Outstanding(j)
        BY AttendedIsFree
      <4> QED
        BY <4>1 DEF Outstanding
    <3>4. taken[j] = Len(handled[j])
      <4>1. Len(handled[j]) \in Nat
        BY DEF Task6Inv, Task6TypeOK
      <4>2. taken[j] = Len(handled[j]) + (IF Ready(j) THEN 1 ELSE 0)
        BY DEF DeliverInv, OrderInv
      <4> QED
        BY <1>2, <4>1, <4>2
    <3> QED
      BY <1>1, <1>4, <2>3, <3>1, <3>2, <3>3, <3>4 DEF DeliverInv, OrderInv
  <2>4. CASE i # j
    <3>1. Ready(i)' <=> Ready(i)
      BY <1>1, <2>2, <2>4, ReadyFrame
    <3>2. /\ buffer'[i] = buffer[i] /\ taken'[i] = taken[i] /\ handled'[i] = handled[i]
          /\ pending'[i] = pending[i] /\ sent'[i] = sent[i] /\ state'[i] = state[i]
      BY <1>t, <1>1, <1>4, <2>4 DEF KernelType
    <3>3. OrderInv(i)
      BY DEF DeliverInv
    <3> QED
      BY <3>1, <3>2, <3>3, OrderFrame DEF OrderInv
  <2> QED
    BY <2>3, <2>4
<1> QED
  BY <1>3, <1>4 DEF ReadInstance, ReadFile

\* A packet is dequeued, or is only looked at.
LEMMA TakeDelivers ==
    ASSUME Task6Inv, DeliverInv, NEW w \in Workers, Dequeue(w) \/ Check(w)
    PROVE  DeliverInv'
<1> SUFFICES ASSUME NEW i \in Pipes PROVE OrderInv(i)'
  BY DEF DeliverInv
<1>t. TypeOK /\ w \in Threads
  BY ServerAssumption DEF Task6Inv, Task6TypeOK
<1>1. \A v \in Workers : (wpc'[v] = "handle" <=> wpc[v] = "handle")
  BY DEF Dequeue, Check, Goto, Task6Inv, Task6TypeOK
<1>2. UNCHANGED <<state, buffer, taken, sent, pending, handled>>
  BY DEF Dequeue, Check, GetPacket, vars
<1>3. Ready(i)' <=> Ready(i)
  <2>1. CASE Check(w)
    BY <1>1, <2>1, ReadyFrame DEF Check, vars, ReadyInPort, Fresh
  <2>2. CASE Dequeue(w)
    <3>1. ReadyInPort(i)' \/ ReadyInHand(i)' <=> ReadyInPort(i) \/ ReadyInHand(i)
      BY <1>t, <2>2, GetReady DEF Dequeue
    <3>2. /\ wpc[w] = "wait" /\ wpc'[w] = "check"
          /\ \A v \in Workers \ {w} : result'[v] = result[v]
      BY <1>t, <2>2 DEF Dequeue, Goto, GetPacket, TypeOK, ThreadType, Task6Inv,
                       Task6TypeOK
    <3>3. ReadyToHandle(i)' <=> ReadyToHandle(i)
      BY <1>1, <3>2 DEF ReadyToHandle
    <3> QED
      BY <3>1, <3>3 DEF Ready
  <2> QED
    BY <2>1, <2>2
<1> QED
  BY <1>2, <1>3, OrderFrame DEF DeliverInv, OrderInv

\* service tells a message from the end of a connect or of a failed read.
LEMMA ServiceDelivers ==
    ASSUME Task6Inv, DeliverInv, NEW w \in Workers, CallService(w)
    PROVE  DeliverInv'
<1>t. /\ TypeOK /\ Inv /\ Service(w) /\ w \in Threads
      /\ wpc[w] = "service" /\ pc[w] = "got" /\ handled' = handled
  BY ServerAssumption DEF CallService, Task6Inv, Task6TypeOK, Service
<1>0. PICK j \in Pipes : j = packet[w].pipe
  BY <1>t, ServiceOutcomes
<1>1. /\ j \in Pipes /\ critSec[j] = NoThread
      /\ pending[j] = "none" /\ Queued(j) = {} /\ Holding(j) = {w}
      /\ ~InvalidState(j)
  BY <1>t, <1>0, ServiceOutcomes
<1>2. "DISCONNECTING" \notin state[j] /\ OrderInv(j)
  BY <1>1 DEF DeliverInv, OrderInv
<1>3. state[j] \in {UnconnectedConnecting, ConnectedReading}
  BY <1>1, <1>2 DEF InvalidState, DisconnectingConnecting, DisconnectingReading
<1>4. packet[w].kind = UnderWay(j)
  BY <1>0, <1>1 DEF Task6Inv, Inv, PipeInv, OperationFits, Fits
<1>5. packet[w].kind = IF state[j] = ConnectedReading THEN "read" ELSE "connect"
  BY <1>1, <1>3, <1>4 DEF UnderWay, Doing, UnconnectedConnecting, ConnectedReading
<1>6. /\ UNCHANGED osVars
      /\ state' = [state EXCEPT ![j] = CONNECTED]
      /\ result' = [result EXCEPT ![w] =
                      [pipe |-> j, operation |-> packet[w].kind,
                       err |-> packet[w].err, newState |-> CONNECTED,
                       zombie |-> FALSE]]
  <2>1. UnconnectedConnecting # ConnectedReading
    BY DEF UnconnectedConnecting, ConnectedReading
  <2> QED
    BY <1>t, <1>0, <1>1, <1>2, <1>3, <1>5, <2>1
       DEF Service, ServiceCases, Serviced, DisconnectingConnecting, DisconnectingReading
<1>7. /\ pc' = [pc EXCEPT ![w] = "idle"] /\ packet' = [packet EXCEPT ![w] = NoPacket]
      /\ pc \in [Threads -> {"idle", "connecting", "reading", "disconnecting", "got"}]
      /\ packet \in [Threads -> Packets \cup {NoPacket}]
      /\ result \in [Threads -> Results]
      /\ wpc' = [wpc EXCEPT ![w] = AfterService(w)]
      /\ wpc \in [Workers -> {"unstarted", "wait", "check", "service", "handle",
                              "rearm", "rearming", "exited"}]
  BY <1>t DEF CallService, Goto, Service, TypeOK, ThreadType, Task6Inv, Task6TypeOK
<1>8. wpc'[w] = "handle" <=> Fresh(packet[w])
  <2>1. /\ result'[w].operation = packet[w].kind /\ result'[w].err = packet[w].err
        /\ result'[w].zombie = FALSE /\ result'[w].pipe = j
    BY <1>t, <1>6, <1>7
  <2>2. result'[w] # NoResult
    BY <1>1, <2>1, PipeAssumption DEF NoResult
  <2>3. wpc'[w] = IF Received(result'[w]) THEN "handle" ELSE "rearm"
    BY <1>7, <2>2 DEF AfterService
  <2>4. Received(result'[w]) <=> Fresh(packet[w])
    BY <2>1 DEF Received, Fresh
  <2> QED
    BY <2>3, <2>4
<1>9. /\ result'[w].pipe = j
      /\ \A v \in Workers \ {w} : result'[v] = result[v] /\ wpc'[v] = wpc[v]
      /\ \A u \in Threads \ {w} : pc'[u] = pc[u] /\ packet'[u] = packet[u]
      /\ pc'[w] = "idle"
  BY <1>t, <1>6, <1>7
<1> SUFFICES ASSUME NEW i \in Pipes PROVE OrderInv(i)'
  BY DEF DeliverInv
<1>10. Ready(i)' <=> Ready(i)
  <2>1. ReadyInPort(i)' <=> ReadyInPort(i)
    BY <1>6 DEF osVars, ReadyInPort, Fresh
  <2>2. CASE i = j
    <3>1. ~ReadyInPort(j)
      BY <1>1 DEF ReadyInPort, Queued
    <3>2. ReadyInHand(j) <=> Fresh(packet[w])
      BY <1>t, <1>1 DEF ReadyInHand, Holding
    <3>3. ~ReadyToHandle(j)
      BY <1>1, AttendedIsFree DEF ReadyToHandle, Outstanding
    <3>4. ~ReadyInHand(j)'
      BY <1>1, <1>9 DEF ReadyInHand, Holding
    <3>5. ReadyToHandle(j)' <=> Fresh(packet[w])
      <4>1. Fresh(packet[w]) => ReadyToHandle(j)'
        BY <1>8, <1>9 DEF ReadyToHandle
      <4>2. ASSUME NEW v \in Workers, wpc'[v] = "handle", result'[v].pipe = j
            PROVE  v = w
        BY <1>9, <3>3, <4>2 DEF ReadyToHandle
      <4> QED
        BY <1>8, <4>1, <4>2 DEF ReadyToHandle
    <3> QED
      BY <2>1, <2>2, <3>1, <3>2, <3>3, <3>4, <3>5 DEF Ready
  <2>3. CASE i # j
    <3>1. ReadyInHand(i)' <=> ReadyInHand(i)
      BY <1>0, <1>9, <2>3 DEF ReadyInHand, Fresh
    <3>2. ReadyToHandle(i)' <=> ReadyToHandle(i)
      BY <1>t, <1>9, <2>3 DEF ReadyToHandle
    <3> QED
      BY <2>1, <3>1, <3>2 DEF Ready
  <2> QED
    BY <2>2, <2>3
<1>11. "DISCONNECTING" \notin state'[i]
  BY <1>6 DEF CONNECTED, DeliverInv, OrderInv, Task6Inv, Task6TypeOK, TypeOK, ServerType
<1>12. UNCHANGED <<buffer, taken, sent, pending>>
  BY <1>6 DEF osVars
<1> QED
  BY <1>t, <1>10, <1>11, <1>12, OrderFrame DEF DeliverInv, OrderInv

LEMMA NextInOrder ==
    ASSUME NEW q \in Seq(Nat), q = [n \in 1 .. Len(q) |-> n],
           NEW r, r = Append(q, Len(q) + 1)
    PROVE  Len(r) = Len(q) + 1 /\ r = [n \in 1 .. Len(r) |-> n]
<1>1. Len(q) \in Nat /\ Len(q) + 1 \in Nat
  OBVIOUS
<1>2. /\ r \in Seq(Nat)
      /\ Len(r) = Len(q) + 1
      /\ \A n \in 1 .. Len(q) : r[n] = q[n]
      /\ r[Len(q) + 1] = Len(q) + 1
      /\ DOMAIN r = 1 .. Len(r)
  BY <1>1
<1>3. \A n \in 1 .. Len(r) : r[n] = n
  BY <1>1, <1>2
<1> QED
  BY <1>2, <1>3

\* The message in the buffer is the next one.
LEMMA HandleDelivers ==
    ASSUME Task6Inv, DeliverInv, NEW w \in Workers, Handle(w)
    PROVE  DeliverInv'
<1>0. PICK j \in Pipes : j = result[w].pipe
  BY DEF Handle, Task6Inv, Attendance, AttendedAlone
<1>1. wpc[w] = "handle" /\ result[w].pipe = j
  BY <1>0 DEF Handle
<1>2. /\ UNCHANGED vars
      /\ wpc' = [wpc EXCEPT ![w] = "rearm"]
      /\ handled' = [handled EXCEPT ![j] = Append(@, buffer[j])]
  BY <1>0 DEF Handle, Goto
<1>3. Ready(j) /\ ~ReadyInPort(j) /\ ~ReadyInHand(j)
  BY <1>1, ReadyAlone DEF Ready, ReadyToHandle
<1>4. /\ wpc'[w] = "rearm"
      /\ \A v \in Workers \ {w} : wpc'[v] = wpc[v]
  BY <1>2 DEF Task6Inv, Task6TypeOK
<1>5. ~Ready(j)'
  <2>1. ~ReadyToHandle(j)'
    <3>1. ASSUME NEW v \in Workers, wpc'[v] = "handle", result'[v].pipe = j
          PROVE  FALSE
      BY <1>1, <1>2, <1>4, <3>1 DEF vars, Task6Inv, Attendance, AttendedAlone, Attends
    <3> QED
      BY <3>1 DEF ReadyToHandle
  <2>2. ~ReadyInPort(j)' /\ ~ReadyInHand(j)'
    BY <1>2, <1>3 DEF vars, ReadyInPort, ReadyInHand, Fresh
  <2> QED
    BY <2>1, <2>2 DEF Ready
<1> SUFFICES ASSUME NEW i \in Pipes PROVE OrderInv(i)'
  BY DEF DeliverInv
<1>6. OrderInv(i) /\ handled \in [Pipes -> Seq(Nat)]
  BY DEF DeliverInv, Task6Inv, Task6TypeOK
<1>7. CASE i = j
  <2>1. /\ Len(handled[j]) \in Nat
        /\ buffer[j] = Len(handled[j]) + 1 /\ taken[j] = Len(handled[j]) + 1
    BY <1>1, <1>3, <1>6, <1>7 DEF OrderInv
  <2>2. handled'[j] = Append(handled[j], Len(handled[j]) + 1)
    BY <1>1, <1>2, <1>6, <2>1
  <2>3. /\ Len(handled'[j]) = Len(handled[j]) + 1
        /\ handled'[j] = [n \in 1 .. Len(handled'[j]) |-> n]
    BY <1>1, <1>6, <1>7, <2>2, NextInOrder DEF OrderInv
  <2> QED
    BY <1>2, <1>5, <1>6, <1>7, <2>1, <2>3 DEF vars, OrderInv
<1>8. CASE i # j
  <2>1. Ready(i)' <=> Ready(i)
    <3>1. ReadyToHandle(i)' <=> ReadyToHandle(i)
      BY <1>1, <1>2, <1>4, <1>8 DEF vars, ReadyToHandle
    <3>2. (ReadyInPort(i)' <=> ReadyInPort(i)) /\ (ReadyInHand(i)' <=> ReadyInHand(i))
      BY <1>2 DEF vars, ReadyInPort, ReadyInHand, Fresh
    <3> QED
      BY <3>1, <3>2 DEF Ready
  <2>2. handled'[i] = handled[i]
    BY <1>2, <1>6, <1>8
  <2> QED
    BY <1>2, <1>6, <2>1, <2>2, OrderFrame DEF vars, OrderInv
<1> QED
  BY <1>7, <1>8

\* What a client does to instance j; a message it writes is read at once, and
\* so becomes ready, when a read is pending.
LEMMA ClientDelivers ==
    ASSUME Task6Inv, DeliverInv, UNCHANGED <<wpc, handled>>, NEW j \in Pipes,
           PeerOpen(j) \/ PeerWrite(j) \/ PeerClose(j)
    PROVE  DeliverInv'
<1>t. TypeOK /\ KernelType
  BY DEF Task6Inv, Task6TypeOK, TypeOK
<1>1. UNCHANGED <<state, packet, result, pc, wpc, handled>>
  BY DEF PeerOpen, PeerWrite, PeerClose, threadVars
<1> SUFFICES ASSUME NEW i \in Pipes PROVE OrderInv(i)'
  BY DEF DeliverInv
<1>2. OrderInv(i) /\ OrderInv(j)
  BY DEF DeliverInv
<1>f. (ReadyInPort(i)' <=> ReadyInPort(i)) => (Ready(i)' <=> Ready(i))
  BY <1>1, ReadyFrame
<1>3. CASE PeerOpen(j) \/ PeerClose(j)
  <2>1. UNCHANGED <<sent, taken, buffer>>
    BY <1>3 DEF PeerOpen, PeerClose
  <2>2. PICK kind \in {"connect", "read"}, err \in {"ok", "broken"} :
          /\ Complete(j, kind, err)
          /\ ~(kind = "read" /\ err = "ok")
    BY <1>3 DEF PeerOpen, PeerClose
  <2>3. ReadyInPort(i)' <=> ReadyInPort(i)
    <3>1. CASE iocp' = iocp
      BY <3>1 DEF ReadyInPort, Fresh
    <3>2. CASE Post(Completion(j, kind, err))
      <4>1. Completion(j, kind, err) \in Packets /\ ~Fresh(Completion(j, kind, err))
        BY <1>t, <2>2, CompletionType DEF Completion, Fresh, Errors
      <4> QED
        BY <1>t, <3>2, <4>1, PostReady
    <3> QED
      BY <2>2, <3>1, <3>2 DEF Complete
  <2>4. pending'[i] = "read" => taken'[i] = sent'[i]
    BY <1>t, <1>2, <2>1, <2>2 DEF Complete, KernelType, OrderInv
  <2> QED
    BY <1>1, <1>2, <1>f, <2>1, <2>3, <2>4, OrderFrame DEF OrderInv
<1>4. CASE PeerWrite(j)
  <2>1. sent' = [sent EXCEPT ![j] = @ + 1]
    BY <1>4 DEF PeerWrite
  <2>2. CASE pending[j] # "read"
    <3>1. UNCHANGED <<pending, iocp, taken, buffer>>
      BY <1>4, <2>2 DEF PeerWrite, Complete
    <3>2. Ready(i)' <=> Ready(i)
      BY <1>f, <3>1 DEF ReadyInPort, Fresh
    <3>3. pending'[i] = "read" => taken'[i] = sent'[i]
      BY <1>t, <1>2, <2>1, <2>2, <3>1 DEF KernelType, OrderInv
    <3> QED
      BY <1>1, <1>2, <3>1, <3>2, <3>3, OrderFrame DEF OrderInv
  <2>3. CASE pending[j] = "read"
    <3> DEFINE c == Completion(j, "read", "ok")
    <3>1. /\ Post(c) /\ pending' = [pending EXCEPT ![j] = "none"]
          /\ taken' = [taken EXCEPT ![j] = sent[j] + 1]
          /\ buffer' = [buffer EXCEPT ![j] = sent[j] + 1]
      BY <1>4, <2>3 DEF PeerWrite, Complete
    <3>2. c \in Packets /\ c.pipe = j /\ Fresh(c)
      BY <1>t, CompletionType DEF Completion, Fresh, Errors
    <3>3. ReadyInPort(i)' <=> ReadyInPort(i) \/ i = j
      BY <1>t, <3>1, <3>2, PostReady
    <3>4. CASE i = j
      <4>1. ~Ready(j)
        BY <2>3, ReadyAlone
      <4>2. Ready(j)' /\ handled'[j] = handled[j]
        BY <1>1, <3>3, <3>4 DEF Ready
      <4>3. taken[j] = Len(handled[j]) /\ taken[j] = sent[j] /\ Len(handled[j]) \in Nat
        BY <1>2, <2>3, <4>1 DEF OrderInv, Task6Inv, Task6TypeOK
      <4>4. /\ buffer'[j] = Len(handled[j]) + 1 /\ taken'[j] = Len(handled[j]) + 1
            /\ pending'[j] = "none"
        BY <1>t, <3>1, <4>3 DEF KernelType
      <4> QED
        BY <1>1, <1>2, <3>4, <4>2, <4>4 DEF OrderInv
    <3>5. CASE i # j
      <4>1. /\ taken'[i] = taken[i] /\ buffer'[i] = buffer[i]
            /\ pending'[i] = pending[i] /\ sent'[i] = sent[i]
        BY <1>t, <2>1, <3>1, <3>5 DEF KernelType
      <4> QED
        BY <1>1, <1>2, <1>f, <3>3, <3>5, <4>1, OrderFrame DEF OrderInv
    <3> QED
      BY <3>4, <3>5
  <2> QED
    BY <2>2, <2>3
<1> QED
  BY <1>3, <1>4

\* What moves no message.
LEMMA IdleDelivers ==
    ASSUME DeliverInv,
           UNCHANGED <<state, buffer, taken, sent, pending, iocp, pc, packet,
                       result, handled>>,
           \A w \in Workers : wpc'[w] = "handle" <=> wpc[w] = "handle"
    PROVE  DeliverInv'
<1> SUFFICES ASSUME NEW i \in Pipes PROVE OrderInv(i)'
  BY DEF DeliverInv
<1>1. Ready(i)' <=> Ready(i)
  BY ReadyFrame DEF ReadyInPort, Fresh
<1> QED
  BY <1>1, OrderFrame DEF DeliverInv, OrderInv

LEMMA DeliverInit == Task6Init => DeliverInv
<1> SUFFICES ASSUME Task6Init, NEW i \in Pipes PROVE OrderInv(i)
  BY DEF DeliverInv
<1>1. ~Ready(i)
  BY ServerAssumption
     DEF Task6Init, Init, Ready, ReadyInPort, ReadyInHand, ReadyToHandle
<1>2. handled[i] = << >> /\ Len(handled[i]) = 0
  BY DEF Task6Init
<1>3. << >> = [n \in 1 .. 0 |-> n]
  OBVIOUS
<1> QED
  BY <1>1, <1>2, <1>3 DEF Task6Init, Init, OrderInv, UNCONNECTED

\* A thread that was not created is not in the loop.
Unstarted == \A w \in Workers \ started : wpc[w] = "unstarted"

LEMMA UnstartedStep ==
    Task6Inv /\ Unstarted /\ [Task6Next]_Task6Vars => Unstarted'
<1> SUFFICES ASSUME Task6Inv, Unstarted, [Task6Next]_Task6Vars PROVE Unstarted'
  OBVIOUS
<1> USE DEF Unstarted, mainVars
<1>t. wpc \in [Workers -> {"unstarted", "wait", "check", "service", "handle",
                          "rearm", "rearming", "exited"}]
  BY DEF Task6Inv, Task6TypeOK
<1>1. CASE Construct
  BY <1>1, <1>t DEF Construct, BeginConnecting, ConstructorThrows, EndConnecting,
                    CreateWorker
<1>2. ASSUME NEW w \in Workers, Worker(w) PROVE Unstarted'
  <2>1. wpc[w] # "unstarted" /\ UNCHANGED mainVars
    BY <1>2 DEF Worker, Dequeue, Check, CallService, Handle, Rearm, EndRearm
  <2>2. \E label : wpc' = [wpc EXCEPT ![w] = label]
    BY <1>2 DEF Worker, Dequeue, Check, CallService, Handle, Rearm, EndRearm, Goto
  <2> QED
    BY <1>t, <2>1, <2>2
<1>3. CASE \/ CreateThreadFails \/ StopAndWait \/ PostShutdown \/ Join \/ JoinFails
           \/ Clients \/ Terminated \/ UNCHANGED Task6Vars
  BY <1>3 DEF CreateThreadFails, StopAndWait, PostShutdown, Join, JoinFails,
              Clients, Terminated, Task6Vars
<1> QED
  BY <1>1, <1>2, <1>3 DEF Task6Next

LEMMA DeliverStep ==
    Task6Inv /\ Unstarted /\ DeliverInv /\ [Task6Next]_Task6Vars => DeliverInv'
<1> SUFFICES ASSUME Task6Inv, Unstarted, DeliverInv, [Task6Next]_Task6Vars
             PROVE  DeliverInv'
  OBVIOUS
<1>t. /\ Main \in Threads /\ Workers \subseteq Threads
      /\ wpc \in [Workers -> {"unstarted", "wait", "check", "service", "handle",
                              "rearm", "rearming", "exited"}]
      /\ phase = "connecting" => next \in Pipes
  BY ServerAssumption DEF Task6Inv, Task6TypeOK
<1>i. CASE UNCHANGED <<vars, wpc, handled>>
  BY <1>i, IdleDelivers DEF vars
<1>1. CASE BeginConnecting
  BY <1>1, <1>i, <1>t, ConnectDelivers DEF BeginConnecting, ConnectRefused
<1>2. CASE EndConnecting
  BY <1>2, <1>t, FinishDelivers DEF EndConnecting
<1>3. CASE CreateWorker
  BY <1>3, <1>t, IdleDelivers DEF CreateWorker, vars, Unstarted
<1>4. CASE \/ CreateThreadFails \/ StopAndWait \/ Join \/ JoinFails \/ Terminated
           \/ UNCHANGED Task6Vars
  BY <1>4, <1>i DEF CreateThreadFails, StopAndWait, Join, JoinFails, Terminated,
                    Task6Vars
<1>5. CASE PostShutdown
  <2>1. Post(Foreign("shutdown")) /\ UNCHANGED <<state, pending, sent, taken, buffer,
                                                packet, result, pc, wpc, handled>>
    BY <1>5 DEF PostShutdown, PostForeign, threadVars
  <2>2. Foreign("shutdown") \in Packets /\ ~Fresh(Foreign("shutdown"))
    BY ServerAssumption, ForeignType DEF Foreign, Fresh
  <2> SUFFICES ASSUME NEW i \in Pipes PROVE OrderInv(i)'
    BY DEF DeliverInv
  <2>3. Ready(i)' <=> Ready(i)
    BY <2>1, <2>2, PostReady, ReadyFrame DEF Task6Inv, Task6TypeOK
  <2> QED
    BY <2>1, <2>3, OrderFrame DEF DeliverInv, OrderInv
<1>6. CASE Clients
  BY <1>6, ClientDelivers DEF Clients
<1>7. ASSUME NEW w \in Workers, Worker(w) PROVE DeliverInv'
  <2>1. CASE Dequeue(w) \/ Check(w)
    BY <2>1, TakeDelivers
  <2>2. CASE CallService(w)
    BY <2>2, ServiceDelivers
  <2>3. CASE Handle(w)
    BY <2>3, HandleDelivers
  <2>4. CASE Rearm(w)
    <3>1. wpc[w] = "rearm" /\ result[w].pipe \in Pipes /\ handled' = handled
      BY <2>4 DEF Rearm, Task6Inv, Attendance, AttendedAlone
    <3>2. CASE Refuses(w, result[w].pipe) /\ Goto(w, "wait")
      <4>1. UNCHANGED vars
        BY <3>2 DEF Refuses, ConnectRefused, ReadRefused
      <4> QED
        BY <1>t, <3>1, <3>2, <4>1, IdleDelivers DEF vars, Goto
    <3>3. CASE Begins(w, result[w].pipe) /\ Goto(w, "rearming")
      BY <1>t, <3>1, <3>3, ConnectDelivers, ReadDelivers DEF Begins, Goto
    <3> QED
      BY <2>4, <3>2, <3>3 DEF Rearm
  <2>5. CASE EndRearm(w)
    <3>1. result[w].pipe \in Pipes /\ handled' = handled
      BY <2>5 DEF EndRearm, Task6Inv, Attendance, AttendedAlone
    <3>2. \A v \in Workers : (wpc'[v] = "handle" <=> wpc[v] = "handle")
      BY <1>t, <2>5 DEF EndRearm, Goto
    <3> QED
      BY <1>t, <2>5, <3>1, <3>2, FinishDelivers DEF EndRearm
  <2> QED
    BY <1>7, <2>1, <2>2, <2>3, <2>4, <2>5 DEF Worker
<1> QED
  BY <1>1, <1>2, <1>3, <1>4, <1>5, <1>6, <1>7 DEF Task6Next, Construct

(* Whatever the number of workers and instances, the messages of an        *)
(* instance are handled in the order they were written, none twice, none   *)
(* skipped, none overwritten in the buffer before it is handled.           *)
THEOREM MessagesInOrder == Task6Spec => []DeliveredInOrder
<1>1. DeliverInv => DeliveredInOrder
  BY DEF DeliverInv, OrderInv, DeliveredInOrder
<1>2. Task6Init => Unstarted
  BY DEF Task6Init, Unstarted
<1> QED
  BY <1>1, <1>2, UnstartedStep, DeliverInit, DeliverStep, Task6Invariance, PTL
     DEF Task6Spec

-----------------------------------------------------------------------------
(* Every instance is a mailbox.                                            *)

\* The kernel gives out no message that was not written.
TakenInv == \A i \in Pipes : taken[i] <= sent[i]

LEMMA TakenStep ==
    Task6Inv /\ TakenInv /\ [Task6Next]_Task6Vars => TakenInv'
<1> SUFFICES ASSUME Task6Inv, TakenInv, [Next]_vars PROVE TakenInv'
  BY RefinementStep
<1>t. /\ sent \in [Pipes -> Nat] /\ taken \in [Pipes -> Nat]
      /\ \A i \in Pipes : taken[i] <= sent[i]
  BY DEF TakenInv, Task6Inv, Task6TypeOK, TypeOK, KernelType
<1>u. UNCHANGED <<sent, taken>> => TakenInv'
  BY <1>t DEF TakenInv
<1>d. ASSUME NEW i \in Pipes, DisconnectNamedPipe(i) PROVE TakenInv'
  BY <1>t, <1>d DEF DisconnectNamedPipe, TakenInv
<1>1. ASSUME NEW t \in Threads, NEW i \in Pipes,
             \/ ConnectInstance(t, i) \/ FinishConnect(t, i)
             \/ FinishRead(t, i) \/ FinishDisconnect(t, i)
      PROVE  TakenInv'
  BY <1>1, <1>u DEF ConnectInstance, FinishConnect, FinishRead, FinishDisconnect, osVars
<1>2. ASSUME NEW t \in Threads, NEW i \in Pipes, ReadInstance(t, i)
      PROVE  TakenInv'
  <2>1. sent' = sent
    BY <1>2 DEF ReadInstance
  <2>2. \/ taken[i] < sent[i] /\ taken' = [taken EXCEPT ![i] = @ + 1]
        \/ taken' = taken
    BY <1>2 DEF ReadInstance, ReadFile
  <2> QED
    BY <1>t, <2>1, <2>2 DEF TakenInv
<1>3. ASSUME NEW t \in Threads, NEW i \in Pipes, DisconnectInstance(t, i)
      PROVE  TakenInv'
  BY <1>3, <1>d, <1>u DEF DisconnectInstance, CancelIoEx
<1>4. ASSUME NEW t \in Threads, GetPacket(t) \/ Discard(t) PROVE TakenInv'
  BY <1>4, <1>u DEF GetPacket, Discard, osVars
<1>5. ASSUME NEW t \in Threads, Service(t) PROVE TakenInv'
  <2>1. packet[t].pipe \in Pipes
    BY <1>5, ServiceOutcomes DEF Task6Inv, Task6TypeOK
  <2> QED
    BY <1>5, <1>d, <1>u, <2>1 DEF Service, ServiceCases, Serviced, ServiceThrows, osVars
<1>6. ASSUME NEW i \in Pipes, PeerOpen(i) \/ PeerClose(i) PROVE TakenInv'
  BY <1>6, <1>u DEF PeerOpen, PeerClose
<1>7. ASSUME NEW i \in Pipes, PeerWrite(i) PROVE TakenInv'
  <2>1. /\ sent' = [sent EXCEPT ![i] = @ + 1]
        /\ taken' = taken \/ taken' = [taken EXCEPT ![i] = sent[i] + 1]
    BY <1>7 DEF PeerWrite
  <2> QED
    BY <1>t, <2>1 DEF TakenInv
<1>8. ASSUME NEW k, PostForeign(k) PROVE TakenInv'
  BY <1>8, <1>u DEF PostForeign
<1> QED
  BY <1>1, <1>2, <1>3, <1>4, <1>5, <1>6, <1>7, <1>8, <1>u
     DEF Next, Calls, Environment, vars

\* The messages of the first n writes.
FirstMessages(n) == [m \in 1 .. n |-> m]

LEMMA MessagesGrow ==
    ASSUME NEW n \in Nat
    PROVE  /\ FirstMessages(n) \in Seq(Nat)
           /\ Len(FirstMessages(n)) = n
           /\ FirstMessages(n + 1) = Append(FirstMessages(n), n + 1)
<1>1. FirstMessages(n) \in Seq(Nat) /\ Len(FirstMessages(n)) = n
  BY DEF FirstMessages
<1>2. DOMAIN Append(FirstMessages(n), n + 1) = 1 .. n + 1
  BY <1>1
<1>3. \A m \in 1 .. n + 1 : Append(FirstMessages(n), n + 1)[m] = m
  BY <1>1 DEF FirstMessages
<1>4. Append(FirstMessages(n), n + 1) \in Seq(Nat)
  BY <1>1
<1>5. Append(FirstMessages(n), n + 1) = [m \in 1 .. n + 1 |-> m]
  BY <1>2, <1>3, <1>4
<1> QED
  BY <1>1, <1>5 DEF FirstMessages

LEMMA StepsOfSent ==
    ASSUME Task6Inv, [Task6Next]_Task6Vars
    PROVE  \/ UNCHANGED <<sent, handled>>
           \/ \E i \in Pipes : PeerWrite(i) /\ UNCHANGED handled
           \/ \E w \in Workers : Handle(w)
<1>1. CASE Construct
  BY <1>1 DEF Construct, BeginConnecting, ConnectRefused, ConnectInstance, EndConnecting,
              FinishConnect, CreateWorker, osVars, vars
<1>2. CASE Clients
  BY <1>2 DEF Clients, PeerOpen, PeerClose
<1>3. ASSUME NEW w \in Workers, Worker(w)
      PROVE  UNCHANGED <<sent, handled>> \/ Handle(w)
  <2>1. CASE Dequeue(w) \/ Check(w)
    BY <2>1 DEF Dequeue, Check, GetPacket, vars
  <2>2. CASE CallService(w)
    BY <2>2 DEF CallService, Service, ServiceCases, Serviced, ServiceThrows,
                DisconnectNamedPipe, osVars
  <2>3. CASE Rearm(w)
    BY <2>3 DEF Rearm, Begins, Refuses, ConnectInstance, ReadInstance, ConnectRefused,
                ReadRefused, vars
  <2>4. CASE EndRearm(w)
    BY <2>4 DEF EndRearm, FinishConnect, FinishRead, osVars
  <2> QED
    BY <1>3, <2>1, <2>2, <2>3, <2>4 DEF Worker
<1>4. CASE \/ CreateThreadFails \/ StopAndWait \/ PostShutdown \/ Join \/ JoinFails
           \/ Terminated \/ UNCHANGED Task6Vars
  BY <1>4 DEF CreateThreadFails, StopAndWait, PostShutdown, PostForeign, Join,
              JoinFails, Terminated, Task6Vars, vars
<1> QED
  BY <1>1, <1>2, <1>3, <1>4 DEF Task6Next

MailboxStep ==
    \A i \in Pipes : \/ Box(i)!Write \/ Box(i)!Receive
                    \/ UNCHANGED <<sent[i], handled[i]>>

LEMMA WriteIsWrite ==
    ASSUME Task6Inv, DeliverInv, TakenInv, NEW j \in Pipes, PeerWrite(j),
           UNCHANGED handled
    PROVE  MailboxStep
<1> SUFFICES ASSUME NEW i \in Pipes
             PROVE  Box(i)!Write \/ UNCHANGED <<sent[i], handled[i]>>
  BY DEF MailboxStep
<1>1. /\ sent' = [sent EXCEPT ![j] = @ + 1] /\ sent \in [Pipes -> Nat]
      /\ sent[j] < MaxMsgs /\ MaxMsgs \in Nat
  BY PipeAssumption DEF PeerWrite, Task6Inv, Task6TypeOK, TypeOK, KernelType
<1>2. CASE i = j
  <2>1. sent'[i] = sent[i] + 1 /\ sent[i] + 1 \in 1 .. MaxMsgs /\ sent[i] \in Nat
    BY <1>1, <1>2
  <2>2. /\ Len(FirstMessages(sent[i])) = sent[i]
        /\ FirstMessages(sent'[i]) = Append(FirstMessages(sent[i]), sent[i] + 1)
    BY <2>1, MessagesGrow
  <2>3. Len(handled[i]) \in Nat
    BY DEF Task6Inv, Task6TypeOK
  <2> QED
    BY <1>1, <1>2, <2>1, <2>2, <2>3 DEF Box!Write, FirstMessages
<1>3. CASE i # j
  BY <1>1, <1>3
<1> QED
  BY <1>2, <1>3

LEMMA HandleIsReceive ==
    ASSUME Task6Inv, DeliverInv, TakenInv, NEW w \in Workers, Handle(w)
    PROVE  MailboxStep
<1> SUFFICES ASSUME NEW i \in Pipes
             PROVE  Box(i)!Receive \/ UNCHANGED <<sent[i], handled[i]>>
  BY DEF MailboxStep
<1>0. PICK j \in Pipes : j = result[w].pipe
  BY DEF Handle, Task6Inv, Attendance, AttendedAlone
<1>1. /\ UNCHANGED sent /\ Ready(j)
      /\ handled' = [handled EXCEPT ![j] = Append(@, buffer[j])]
      /\ handled \in [Pipes -> Seq(Nat)] /\ sent \in [Pipes -> Nat]
  BY <1>0 DEF Handle, vars, Ready, ReadyToHandle, Task6Inv, Task6TypeOK, TypeOK, KernelType
<1>2. CASE i = j
  <2>1. /\ Len(handled[i]) \in Nat /\ sent[i] \in Nat
        /\ buffer[i] = Len(handled[i]) + 1 /\ Len(handled[i]) + 1 <= sent[i]
    BY <1>1, <1>2 DEF DeliverInv, OrderInv, TakenInv
  <2>2. /\ Len(FirstMessages(sent[i])) = sent[i]
        /\ FirstMessages(sent[i])[Len(handled[i]) + 1] = Len(handled[i]) + 1
    BY <2>1, MessagesGrow DEF FirstMessages
  <2> QED
    BY <1>1, <1>2, <2>1, <2>2 DEF Box!Receive, FirstMessages
<1>3. CASE i # j
  BY <1>1, <1>3
<1> QED
  BY <1>2, <1>3

LEMMA MailboxSteps ==
    Task6Inv /\ DeliverInv /\ TakenInv /\ [Task6Next]_Task6Vars
        => [MailboxStep]_<<sent, handled>>
  BY StepsOfSent, WriteIsWrite, HandleIsReceive DEF MailboxStep

LEMMA MailboxesAtFirst == Task6Init => TakenInv /\ \A i \in Pipes : Box(i)!Init
<1> SUFFICES ASSUME Task6Init, NEW i \in Pipes
             PROVE  taken[i] <= sent[i] /\ Box(i)!Init
  BY DEF TakenInv
<1>1. taken[i] = 0 /\ sent[i] = 0 /\ handled[i] = << >>
  BY DEF Task6Init, Init
<1>2. [n \in 1 .. 0 |-> n] = << >>
  OBVIOUS
<1> QED
  BY <1>1, <1>2 DEF Box!Init

(* The instances are mailboxes, whatever the number of workers: a message  *)
(* is handled by a step of its own, after it was written, in its turn.     *)
THEOREM InstancesImplementMailboxes == Task6Spec => InstancesAreMailboxes
<1>1. Task6Init => Unstarted
  BY DEF Task6Init, Unstarted
<1>2. Task6Spec => [](Task6Inv /\ Unstarted /\ DeliverInv /\ TakenInv)
  BY <1>1, UnstartedStep, DeliverInit, DeliverStep, MailboxesAtFirst, TakenStep,
     Task6Invariance, PTL DEF Task6Spec
<1>3. Task6Spec => [][MailboxStep]_<<sent, handled>>
  BY <1>2, MailboxSteps, PTL DEF Task6Spec
<1>4. Task6Spec => \A i \in Pipes : Box(i)!Init
  BY MailboxesAtFirst DEF Task6Spec
<1> QED
  BY <1>3, <1>4 DEF InstancesAreMailboxes, MailboxStep

(* So each instance, taken alone, refines the abstract channel; steps of   *)
(* the others, and of the threads elsewhere, are stutters of it.           *)
THEOREM InstanceImplementsMailbox ==
    ASSUME NEW i \in Pipes PROVE Task6Spec => Box(i)!Spec
<1>1. [MailboxStep]_<<sent, handled>>
        => [Box(i)!Write \/ Box(i)!Receive]_<<[n \in 1 .. sent[i] |-> n], handled[i]>>
  BY DEF MailboxStep
<1>2. Task6Spec => [][MailboxStep]_<<sent, handled>>
  BY InstancesImplementMailboxes DEF InstancesAreMailboxes, MailboxStep
<1>3. Task6Spec => Box(i)!Init
  BY MailboxesAtFirst DEF Task6Spec
<1> QED
  BY <1>1, <1>2, <1>3, PTL DEF Box!Spec

-----------------------------------------------------------------------------
(* Service: an instance is never left without an operation while its       *)
(* client is there.                                                        *)

\* The constructor has yet to connect the instance, or has thrown.
Unbuilt(i) == phase = "failed" \/ (phase = "connecting" /\ i >= next)

\* An instance with nothing under way has its client, or had one, and while it
\* has one a worker attends to it.  A connect is in the kernel until a client
\* comes.
ServeInv(i) ==
    /\ npfs[i] \in {"listening", "connected", "closing"}
    /\ UnderWay(i) = "none" =>
         \/ Unbuilt(i)
         \/ /\ npfs[i] # "listening"
            /\ npfs[i] = "connected" => \E w \in Workers : Attends(w, i)
    /\ UnderWay(i) = "connect" /\ npfs[i] = "listening" => pending[i] = "connect"
    /\ UnderWay(i) = "read" => npfs[i] # "listening"
    /\ \A w \in Workers : Attends(w, i) => result[w].newState = CONNECTED

\* Only the constructor connects, for no worker finds an instance unconnected.
ConnectsAlone ==
    /\ phase # "connecting" => pc[Main] = "idle"
    /\ \A w \in Workers : pc[w] # "connecting"

ServedInv == ConnectsAlone /\ \A i \in Pipes : ServeInv(i)

LEMMA ServeFrame ==
    ASSUME Task6Inv, NEW i \in Pipes, ServeInv(i),
           state'[i] = state[i], critSec'[i] = critSec[i],
           critSec[i] # NoThread =>
             pc'[critSec[i]] = pc[critSec[i]],
           npfs'[i] = npfs[i], pending'[i] = pending[i],
           Unbuilt(i) => Unbuilt(i)',
           \A w \in Workers : Attends(w, i) <=> Attends(w, i)',
           \A w \in Workers : Attends(w, i) => result'[w] = result[w]
    PROVE  ServeInv(i)'
<1>1. UnderWay(i)' = UnderWay(i)
  BY DEF UnderWay, Doing
<1> QED
  BY <1>1 DEF ServeInv

\* A thread outside the methods owns no lock.
LEMMA Outside ==
    ASSUME Task6Inv, NEW i \in Pipes, critSec[i] # NoThread
    PROVE  /\ critSec[i] \in Threads
           /\ pc[critSec[i]] \in {"connecting", "reading", "disconnecting"}
  BY DEF Task6Inv, Task6TypeOK, TypeOK, ServerType, Inv, LockInv

\* What does not touch the instances.
LEMMA ServeIdle ==
    ASSUME Task6Inv, ServedInv,
           UNCHANGED <<state, critSec, npfs, pending>>,
           \A t \in Threads :
             \/ pc'[t] = pc[t]
             \/ pc[t] = "idle" /\ pc'[t] = "got",
           pc'[Main] = pc[Main],
           phase' = "connecting" => phase = "connecting",
           next' = next,
           phase \in {"connecting", "failed"} => phase' = phase,
           \A w \in Workers, i \in Pipes : Attends(w, i) <=> Attends(w, i)',
           \A w \in Workers, i \in Pipes : Attends(w, i) => result'[w] = result[w]
    PROVE  ServedInv'
<1>w. Workers \subseteq Threads
  BY ServerAssumption
<1>1. ConnectsAlone'
  BY <1>w DEF ServedInv, ConnectsAlone
<1>2. ASSUME NEW i \in Pipes PROVE ServeInv(i)'
  <2>1. critSec[i] # NoThread => pc'[critSec[i]] = pc[critSec[i]]
    BY Outside
  <2>2. Unbuilt(i) => Unbuilt(i)'
    BY DEF Unbuilt
  <2> QED
    BY <2>1, <2>2, ServeFrame DEF ServedInv
<1> QED
  BY <1>1, <1>2 DEF ServedInv

\* The constructor connects one instance after the other.
LEMMA ServeConstruct ==
    ASSUME Task6Inv, Unstarted, ServedInv, Construct
    PROVE  ServedInv'
<1>t. /\ Main \in Threads /\ Main \notin Workers /\ NoThread \notin Threads
      /\ pc \in [Threads -> {"idle", "connecting", "reading", "disconnecting", "got"}]
      /\ critSec \in [Pipes -> Threads \cup {NoThread}]
      /\ npfs \in [Pipes -> {"listening", "connected", "closing", "disconnected"}]
      /\ pending \in [Pipes -> {"none", "connect", "read"}]
      /\ state \in [Pipes -> SUBSET Flags]
      /\ Pipes = 0 .. MaxClients - 1 /\ MaxClients \in Nat /\ next \in Nat
      /\ wpc \in [Workers -> {"unstarted", "wait", "check", "service", "handle",
                              "rearm", "rearming", "exited"}]
      /\ phase = "connecting" => next \in Pipes
  BY ServerAssumption, PipeAssumption
     DEF Task6Inv, Task6TypeOK, TypeOK, ThreadType, ServerType, KernelType
<1>1. CASE BeginConnecting
  <2>0. phase = "connecting" /\ next \in Pipes /\ UNCHANGED <<wpc, next>>
    BY <1>1, <1>t DEF BeginConnecting, ConstructorThrows, mainVars
  <2>1. CASE ConnectRefused(Main, next) /\ ConstructorThrows
    <3>1. UNCHANGED vars /\ phase' = "failed" /\ pc[Main] = "idle"
      BY <2>1 DEF ConnectRefused, CanEnter, ConstructorThrows
    <3>2. ConnectsAlone'
      BY <3>1 DEF vars, ServedInv, ConnectsAlone
    <3>3. ASSUME NEW i \in Pipes PROVE ServeInv(i)'
      <4>1. Unbuilt(i)'
        BY <3>1 DEF Unbuilt
      <4>2. UnderWay(i)' = UnderWay(i)
        BY <3>1 DEF vars, UnderWay, Doing
      <4>3. \A w \in Workers : Attends(w, i)' <=> Attends(w, i)
        BY <2>0, <3>1 DEF vars, Attends
      <4> QED
        BY <3>1, <4>1, <4>2, <4>3 DEF vars, ServedInv, ServeInv
    <3> QED
      BY <3>2, <3>3 DEF ServedInv
  <2>2. CASE ConnectInstance(Main, next) /\ UNCHANGED mainVars
    <3>1. /\ UNCHANGED <<state, packet, result, phase, next>>
          /\ critSec[next] = NoThread /\ pc[Main] = "idle"
          /\ critSec' = [critSec EXCEPT ![next] = Main]
          /\ pc' = [pc EXCEPT ![Main] = "connecting"]
          /\ state[next] = UNCONNECTED
      BY <2>2 DEF ConnectInstance, CanEnter, ConnectAllowed, Enter, mainVars
    <3>2. ConnectsAlone'
      BY <1>t, <2>0, <3>1 DEF ServedInv, ConnectsAlone
    <3>3. ASSUME NEW i \in Pipes PROVE ServeInv(i)'
      <4>0. ServeInv(i)
        BY DEF ServedInv
      <4>1. \A w \in Workers : ~Attends(w, i) /\ ~Attends(w, i)'
        BY <2>0 DEF Attends, Task6Inv, Attendance
      <4>2. CASE i = next
        <5>1. UnderWay(i)' = "connect"
          BY <1>t, <2>0, <3>1, <4>2 DEF UnderWay, Doing
        <5>2. /\ npfs'[i] \in {"listening", "connected", "closing"}
              /\ npfs'[i] = "listening" => pending'[i] = "connect"
          BY <1>t, <2>0, <2>2, <4>0, <4>2 DEF ConnectInstance, ConnectNamedPipe, ServeInv
        <5> QED
          BY <4>1, <5>1, <5>2 DEF ServeInv
      <4>3. CASE i # next
        <5>1. npfs'[i] = npfs[i] /\ pending'[i] = pending[i]
          BY <1>t, <2>2, <4>3 DEF ConnectInstance, ConnectNamedPipe
        <5>2. critSec[i] # NoThread => pc'[critSec[i]] = pc[critSec[i]]
          BY <1>t, <3>1, Outside
        <5>3. Unbuilt(i) => Unbuilt(i)'
          BY <3>1 DEF Unbuilt
        <5>4. state'[i] = state[i] /\ critSec'[i] = critSec[i]
          BY <1>t, <3>1, <4>3
        <5> QED
          BY <4>0, <4>1, <5>1, <5>2, <5>3, <5>4, ServeFrame
      <4> QED
        BY <4>2, <4>3
    <3> QED
      BY <3>2, <3>3 DEF ServedInv
  <2> QED
    BY <1>1, <2>1, <2>2 DEF BeginConnecting
<1>2. CASE EndConnecting
  <2>1. /\ phase = "connecting" /\ next \in Pipes
        /\ next' = next + 1 /\ phase' \in {"connecting", "creating"}
        /\ next + 1 < MaxClients => phase' = "connecting"
        /\ UNCHANGED <<wpc, result, npfs, pending>>
        /\ critSec[next] = Main /\ pc[Main] = "connecting"
        /\ critSec' = [critSec EXCEPT ![next] = NoThread]
        /\ pc' = [pc EXCEPT ![Main] = "idle"]
        /\ state' = [state EXCEPT ![next] = UnconnectedConnecting]
    BY <1>2, <1>t DEF EndConnecting, FinishConnect, Leave, Connecting, osVars
  <2>2. ConnectsAlone'
    BY <1>t, <2>1 DEF ServedInv, ConnectsAlone
  <2>3. ASSUME NEW i \in Pipes PROVE ServeInv(i)'
    <3>0. ServeInv(i)
      BY DEF ServedInv
    <3>1. \A w \in Workers : ~Attends(w, i) /\ ~Attends(w, i)'
      BY <2>1 DEF Attends, Task6Inv, Attendance
    <3>2. CASE i = next
      <4>1. UnderWay(i) = "connect"
        BY <1>t, <2>1, <3>2 DEF UnderWay, Doing
      <4>2. UnderWay(i)' = "connect"
        BY <1>t, <2>1, <3>2 DEF UnderWay, UnconnectedConnecting
      <4> QED
        BY <2>1, <3>0, <3>1, <4>1, <4>2 DEF ServeInv
    <3>3. CASE i # next
      <4>1. critSec[i] # NoThread => critSec[i] # Main
        BY <2>1, <3>3 DEF Task6Inv, Inv, LockInv
      <4>2. critSec[i] # NoThread => pc'[critSec[i]] = pc[critSec[i]]
        BY <1>t, <2>1, <4>1
      <4>3. Unbuilt(i) => Unbuilt(i)'
        BY <1>t, <2>1, <3>3 DEF Unbuilt
      <4>4. state'[i] = state[i] /\ critSec'[i] = critSec[i]
        BY <1>t, <2>1, <3>3
      <4> QED
        BY <2>1, <3>0, <3>1, <4>2, <4>3, <4>4, ServeFrame
    <3> QED
      BY <3>2, <3>3
  <2> QED
    BY <2>2, <2>3 DEF ServedInv
<1>3. CASE CreateWorker
  <2>1. /\ UNCHANGED vars /\ next' = next
        /\ phase = "creating" /\ phase' \in {"running", "creating"}
    BY <1>3 DEF CreateWorker
  <2>2. \A w \in Workers, i \in Pipes : Attends(w, i) <=> Attends(w, i)'
    BY <1>3, <1>t, <2>1 DEF CreateWorker, vars, Attends, Unstarted
  <2> QED
    BY <2>1, <2>2, ServeIdle DEF vars
<1> QED
  BY <1>1, <1>2, <1>3 DEF Construct

\* A client that comes ends the connect in the kernel; one that goes is served
\* no longer.
LEMMA ServeClients ==
    ASSUME Task6Inv, ServedInv, UNCHANGED <<wpc, phase, next>>, NEW j \in Pipes,
           PeerOpen(j) \/ PeerWrite(j) \/ PeerClose(j)
    PROVE  ServedInv'
<1>t. KernelType
  BY DEF Task6Inv, Task6TypeOK, TypeOK
<1>1. /\ UNCHANGED <<state, critSec, pc, result>>
      /\ \A i \in Pipes \ {j} : npfs'[i] = npfs[i] /\ pending'[i] = pending[i]
  BY <1>t DEF PeerOpen, PeerWrite, PeerClose, Complete, threadVars, KernelType
<1>2. ConnectsAlone'
  BY <1>1 DEF ServedInv, ConnectsAlone
<1>3. ASSUME NEW i \in Pipes PROVE ServeInv(i)'
  <2>0. ServeInv(i)
    BY DEF ServedInv
  <2>1. /\ UnderWay(i)' = UnderWay(i)
        /\ Unbuilt(i)' <=> Unbuilt(i)
        /\ \A w \in Workers : Attends(w, i)' <=> Attends(w, i)
    BY <1>1 DEF UnderWay, Doing, Unbuilt, Attends
  <2>2. CASE i # j
    BY <1>1, <2>0, <2>1, <2>2 DEF ServeInv
  <2>3. CASE i = j /\ PeerOpen(j)
    <3>1. npfs[j] = "listening" /\ npfs'[j] = "connected"
      BY <1>t, <2>3 DEF PeerOpen, KernelType
    <3> QED
      BY <1>1, <2>0, <2>1, <2>3, <3>1 DEF ServeInv
  <2>4. CASE i = j /\ (PeerWrite(j) \/ PeerClose(j))
    <3>1. npfs[j] = "connected" /\ npfs'[j] \in {"connected", "closing"}
      BY <1>t, <2>4 DEF PeerWrite, PeerClose, KernelType
    <3> QED
      BY <1>1, <2>0, <2>1, <2>4, <3>1 DEF ServeInv
  <2> QED
    BY <2>2, <2>3, <2>4
<1> QED
  BY <1>2, <1>3 DEF ServedInv

\* The worker that got the packet attends to its instance: service succeeds
\* in a running server, and leaves the instance connected.
LEMMA ServiceConnects ==
    ASSUME Task6Inv, DeliverInv, ServedInv, NEW w \in Workers, CallService(w)
    PROVE  \E j \in Pipes :
             /\ critSec[j] = NoThread /\ pending[j] = "none"
             /\ Queued(j) = {} /\ Holding(j) = {w}
             /\ UnderWay(j) \in {"connect", "read"}
             /\ UNCHANGED <<osVars, critSec, phase, next>>
             /\ pc' = [pc EXCEPT ![w] = "idle"]
             /\ state' = [state EXCEPT ![j] = CONNECTED]
             /\ result'[w].pipe = j /\ result'[w].newState = CONNECTED
             /\ \A v \in Workers \ {w} : result'[v] = result[v] /\ wpc'[v] = wpc[v]
             /\ wpc'[w] \in {"handle", "rearm"}
<1>t. /\ TypeOK /\ Inv /\ Service(w) /\ w \in Threads
      /\ wpc[w] = "service" /\ UNCHANGED <<phase, next>>
  BY ServerAssumption DEF CallService, mainVars, Task6Inv, Task6TypeOK
<1>0. PICK j \in Pipes : j = packet[w].pipe
  BY <1>t, ServiceOutcomes
<1>1. /\ critSec[j] = NoThread /\ pending[j] = "none" /\ ~InvalidState(j)
      /\ "DISCONNECTING" \notin state[j]
      /\ Queued(j) = {} /\ Holding(j) = {w}
  BY <1>t, <1>0, ServiceOutcomes DEF DeliverInv, OrderInv
<1>2. state[j] \in {UnconnectedConnecting, ConnectedReading}
  BY <1>1 DEF InvalidState, DisconnectingConnecting, DisconnectingReading
<1>3. UnderWay(j) \in {"connect", "read"}
  BY <1>2 DEF UnderWay, UnconnectedConnecting, ConnectedReading
<1>5. PICK op \in {"connect", "read"} : Serviced(w, j, CONNECTED, op, FALSE)
  BY <1>t, <1>0, <1>1, <1>2
     DEF Service, ServiceCases, DisconnectingConnecting, DisconnectingReading
<1>6. /\ UNCHANGED <<osVars, critSec>>
      /\ pc' = [pc EXCEPT ![w] = "idle"]
      /\ state' = [state EXCEPT ![j] = CONNECTED]
      /\ result'[w].pipe = j /\ result'[w].newState = CONNECTED
      /\ \A v \in Workers \ {w} : result'[v] = result[v] /\ wpc'[v] = wpc[v]
      /\ wpc'[w] = AfterService(w)
  BY <1>t, <1>5 DEF Service, Serviced, osVars, CallService, Goto, TypeOK, ThreadType,
                    Task6Inv, Task6TypeOK
<1>7. wpc'[w] \in {"handle", "rearm"}
  <2>1. result'[w] # NoResult
    BY <1>6, PipeAssumption DEF NoResult
  <2> QED
    BY <1>6, <2>1 DEF AfterService
<1> QED
  BY <1>t, <1>1, <1>3, <1>6, <1>7

LEMMA ServeService ==
    ASSUME Task6Inv, DeliverInv, ServedInv, NEW w \in Workers, CallService(w)
    PROVE  ServedInv'
<1>t. /\ TypeOK /\ w \in Threads /\ w # Main
      /\ NoThread \notin Threads /\ Workers \subseteq Threads
      /\ wpc[w] = "service" /\ pc[w] = "got"
  BY ServerAssumption, PipeAssumption
     DEF CallService, Task6Inv, Task6TypeOK, Service
<1>1. PICK j \in Pipes :
        /\ critSec[j] = NoThread /\ pending[j] = "none"
        /\ Queued(j) = {} /\ Holding(j) = {w}
        /\ UnderWay(j) \in {"connect", "read"}
        /\ UNCHANGED <<osVars, critSec, phase, next>>
        /\ pc' = [pc EXCEPT ![w] = "idle"]
        /\ state' = [state EXCEPT ![j] = CONNECTED]
        /\ result'[w].pipe = j /\ result'[w].newState = CONNECTED
        /\ \A v \in Workers \ {w} : result'[v] = result[v] /\ wpc'[v] = wpc[v]
        /\ wpc'[w] \in {"handle", "rearm"}
  BY ServiceConnects
<1>4. npfs[j] # "listening" /\ npfs[j] \in {"listening", "connected", "closing"}
  BY <1>1 DEF ServedInv, ServeInv
<1>6. UNCHANGED <<npfs, pending>>
  BY <1>1 DEF osVars
<1>8. ConnectsAlone'
  BY <1>t, <1>1 DEF ServedInv, ConnectsAlone, TypeOK, ThreadType
<1>9. ASSUME NEW i \in Pipes PROVE ServeInv(i)'
  <2>0. ServeInv(i) /\ state \in [Pipes -> SUBSET Flags]
    BY <1>t DEF ServedInv, TypeOK, ServerType
  <2>1. CASE i = j
    <3>1. UnderWay(j)' = "none"
      BY <1>1, <2>0 DEF UnderWay, Doing, CONNECTED
    <3>2. Attends(w, j)'
      BY <1>1 DEF Attends
    <3>3. \A v \in Workers : Attends(v, j)' => v = w
      <4>1. ASSUME NEW v \in Workers \ {w}, Attends(v, j) PROVE FALSE
        <5>1. wpc[v] \in {"handle", "rearm"}
          BY <1>1, <1>t, <4>1 DEF Attends, Task6Inv, Attendance, AttendedAlone
        <5> QED
          BY <1>1, <4>1, <5>1, AttendedIsFree DEF Attends, Outstanding
      <4> QED
        BY <1>1, <4>1 DEF Attends
    <3> QED
      BY <1>1, <1>4, <1>6, <2>1, <3>1, <3>2, <3>3 DEF ServeInv
  <2>2. CASE i # j
    <3>1. state'[i] = state[i] /\ critSec'[i] = critSec[i]
      BY <1>1, <2>0, <2>2
    <3>2. critSec[i] # NoThread => pc'[critSec[i]] = pc[critSec[i]]
      BY <1>t, <1>1, Outside DEF TypeOK, ThreadType
    <3>3. \A v \in Workers : Attends(v, i) <=> Attends(v, i)'
      BY <1>t, <1>1, <2>2 DEF Attends
    <3>4. \A v \in Workers : Attends(v, i) => result'[v] = result[v]
      BY <1>t, <1>1 DEF Attends
    <3>5. Unbuilt(i) => Unbuilt(i)'
      BY <1>1 DEF Unbuilt
    <3> QED
      BY <1>6, <2>0, <3>1, <3>2, <3>3, <3>4, <3>5, ServeFrame
  <2> QED
    BY <2>1, <2>2
<1> QED
  BY <1>8, <1>9 DEF ServedInv

FailedIsDead == phase = "failed" => pipeServer = "destroyed"

LEMMA FailedStep == FailedIsDead /\ [Task6Next]_Task6Vars => FailedIsDead'
<1> SUFFICES ASSUME FailedIsDead, [Task6Next]_Task6Vars PROVE FailedIsDead'
  OBVIOUS
<1> USE DEF FailedIsDead, mainVars
<1>1. CASE Construct
  BY <1>1 DEF Construct, BeginConnecting, ConstructorThrows, EndConnecting, CreateWorker
<1>2. CASE \E w \in Workers : Worker(w)
  BY <1>2 DEF Worker, Dequeue, Check, CallService, Handle, Rearm, EndRearm
<1>3. CASE \/ CreateThreadFails \/ StopAndWait \/ PostShutdown \/ Join \/ JoinFails
           \/ Clients \/ Terminated \/ UNCHANGED Task6Vars
  BY <1>3 DEF CreateThreadFails, StopAndWait, PostShutdown, Join, JoinFails,
              DestroyPipeServer, Clients, Terminated, Task6Vars
<1> QED
  BY <1>1, <1>2, <1>3 DEF Task6Next

\* The worker begins the next read, which fails only when the client is gone.
LEMMA RearmReads ==
    ASSUME Task6Inv, FailedIsDead, ServedInv, NEW w \in Workers, Rearm(w)
    PROVE  \E j \in Pipes :
             /\ j = result[w].pipe /\ Attends(w, j) /\ critSec[j] = NoThread
             /\ \A v \in Workers : Attends(v, j) => v = w
             /\ state[j] = CONNECTED /\ npfs[j] # "listening"
             /\ \/ ReadRefused(w, j) /\ Goto(w, "wait")
                \/ ReadInstance(w, j) /\ Goto(w, "rearming")
<1>t. /\ wpc[w] = "rearm" /\ phase # "connecting" /\ phase # "failed"
  BY DEF Rearm, FailedIsDead, Task6Inv, Attendance
<1>0. PICK j \in Pipes : j = result[w].pipe
  BY <1>t DEF Task6Inv, Attendance, AttendedAlone
<1>1. /\ Attends(w, j) /\ critSec[j] = NoThread
      /\ \A v \in Workers : Attends(v, j) => v = w
  BY <1>t, <1>0 DEF Attends, Task6Inv, Attendance, AttendedAlone
<1>2. result[w].newState = CONNECTED
  BY <1>1 DEF ServedInv, ServeInv
<1>3. state[j] = CONNECTED
  BY <1>t, <1>0, <1>2 DEF Task6Inv, Attendance, AttendedAlone
<1>4. UnderWay(j) = "none"
  BY <1>1, <1>3 DEF UnderWay, Doing, CONNECTED
<1>5. npfs[j] # "listening"
  BY <1>t, <1>4 DEF ServedInv, ServeInv, Unbuilt
<1>6. CONNECTED # UNCONNECTED
  BY DEF CONNECTED, UNCONNECTED
<1> QED
  BY <1>0, <1>1, <1>2, <1>3, <1>5, <1>6 DEF Rearm, Begins, Refuses

LEMMA ServeRearm ==
    ASSUME Task6Inv, FailedIsDead, ServedInv, NEW w \in Workers, Rearm(w)
    PROVE  ServedInv'
<1>t. /\ w \in Threads /\ w # Main /\ NoThread \notin Threads
      /\ Workers \subseteq Threads
      /\ wpc[w] = "rearm" /\ UNCHANGED <<phase, next>>
      /\ TypeOK
      /\ wpc \in [Workers -> {"unstarted", "wait", "check", "service", "handle",
                              "rearm", "rearming", "exited"}]
  BY ServerAssumption, PipeAssumption
     DEF Rearm, mainVars, Task6Inv, Task6TypeOK
<1>1. PICK j \in Pipes :
        /\ j = result[w].pipe /\ Attends(w, j) /\ critSec[j] = NoThread
        /\ \A v \in Workers : Attends(v, j) => v = w
        /\ state[j] = CONNECTED /\ npfs[j] # "listening"
        /\ \/ ReadRefused(w, j) /\ Goto(w, "wait")
           \/ ReadInstance(w, j) /\ Goto(w, "rearming")
  BY RearmReads
<1>7. CASE ReadRefused(w, j) /\ Goto(w, "wait")
  <2>1. /\ UNCHANGED vars /\ npfs[j] # "connected"
        /\ wpc' = [wpc EXCEPT ![w] = "wait"]
    BY <1>1, <1>7 DEF ReadRefused, ReadAllowed, Goto, CONNECTED
  <2>2. ConnectsAlone'
    BY <1>t, <2>1 DEF vars, ServedInv, ConnectsAlone
  <2>3. ASSUME NEW i \in Pipes PROVE ServeInv(i)'
    <3>0. ServeInv(i)
      BY DEF ServedInv
    <3>1. UnderWay(i)' = UnderWay(i)
      BY <2>1 DEF vars, UnderWay, Doing
    <3>2. CASE i = j
      <4>1. \A v \in Workers : ~Attends(v, j)'
        BY <1>1, <1>t, <2>1 DEF vars, Attends
      <4> QED
        BY <1>1, <2>1, <3>0, <3>1, <3>2, <4>1 DEF vars, ServeInv
    <3>3. CASE i # j
      <4>1. \A v \in Workers : Attends(v, i)' <=> Attends(v, i)
        BY <1>1, <1>t, <2>1, <3>3 DEF vars, Attends
      <4>2. Unbuilt(i)' <=> Unbuilt(i)
        BY <1>t DEF Unbuilt
      <4> QED
        BY <2>1, <3>0, <3>1, <4>1, <4>2 DEF vars, ServeInv
    <3> QED
      BY <3>2, <3>3
  <2> QED
    BY <2>2, <2>3 DEF ServedInv
<1>8. CASE ReadInstance(w, j) /\ Goto(w, "rearming")
  <2>1. /\ UNCHANGED <<state, result, npfs>>
        /\ critSec' = [critSec EXCEPT ![j] = w]
        /\ pc[w] = "idle" /\ pc' = [pc EXCEPT ![w] = "reading"]
        /\ \A i \in Pipes \ {j} : pending'[i] = pending[i]
        /\ wpc' = [wpc EXCEPT ![w] = "rearming"]
    BY <1>8, <1>t DEF ReadInstance, CanEnter, Enter, ReadFile, Goto, TypeOK, KernelType
  <2>2. ConnectsAlone'
    BY <1>t, <2>1 DEF ServedInv, ConnectsAlone, TypeOK, ThreadType
  <2>3. ASSUME NEW i \in Pipes PROVE ServeInv(i)'
    <3>0. ServeInv(i)
      BY DEF ServedInv
    <3>1. \A v \in Workers : Attends(v, i)' <=> Attends(v, i)
      BY <1>t, <2>1 DEF Attends
    <3>2. CASE i = j
      <4>1. UnderWay(j)' = "read"
        <5>1. critSec'[j] = w /\ pc'[w] = "reading"
          BY <1>t, <2>1 DEF TypeOK, ServerType, ThreadType
        <5> QED
          BY <1>1, <1>t, <2>1, <5>1 DEF UnderWay, Doing, CONNECTED
      <4> QED
        BY <1>1, <2>1, <3>0, <3>1, <3>2, <4>1 DEF ServeInv
    <3>3. CASE i # j
      <4>1. state'[i] = state[i] /\ critSec'[i] = critSec[i]
        BY <1>t, <2>1, <3>3 DEF TypeOK, ServerType
      <4>2. critSec[i] # NoThread => pc'[critSec[i]] = pc[critSec[i]]
        BY <1>t, <2>1, Outside DEF TypeOK, ThreadType
      <4>3. Unbuilt(i) => Unbuilt(i)'
        BY <1>t DEF Unbuilt
      <4> QED
        BY <2>1, <3>0, <3>1, <3>3, <4>1, <4>2, <4>3, ServeFrame
    <3> QED
      BY <3>2, <3>3
  <2> QED
    BY <2>2, <2>3 DEF ServedInv
<1> QED
  BY <1>1, <1>7, <1>8

\* The read is under way, and the worker goes to the next packet.
LEMMA EndRearmReads ==
    ASSUME Task6Inv, ServedInv, NEW w \in Workers, EndRearm(w)
    PROVE  \E j \in Pipes :
             /\ j = result[w].pipe /\ Attends(w, j) /\ critSec[j] = w
             /\ \A v \in Workers : Attends(v, j) => v = w
             /\ state[j] = CONNECTED
             /\ UNCHANGED <<osVars, result, phase, next>>
             /\ critSec' = [critSec EXCEPT ![j] = NoThread]
             /\ pc[w] = "reading" /\ pc' = [pc EXCEPT ![w] = "idle"]
             /\ state' = [state EXCEPT ![j] = {"CONNECTED"} \cup {"READING"}]
             /\ wpc' = [wpc EXCEPT ![w] = "wait"]
<1>t. wpc[w] = "rearming" /\ UNCHANGED <<phase, next>>
  BY DEF EndRearm, mainVars
<1>0. PICK j \in Pipes : j = result[w].pipe
  BY <1>t DEF Task6Inv, Attendance, AttendedAlone
<1>1. /\ Attends(w, j) /\ critSec[j] = w
      /\ \A v \in Workers : Attends(v, j) => v = w
  BY <1>t, <1>0 DEF Attends, Task6Inv, Attendance, AttendedAlone
<1>2. result[w].newState = CONNECTED
  BY <1>1 DEF ServedInv, ServeInv
<1>3. state[j] = CONNECTED
  BY <1>t, <1>0, <1>2 DEF Task6Inv, Attendance, AttendedAlone
<1>4. CONNECTED # UNCONNECTED
  BY DEF CONNECTED, UNCONNECTED
<1>5. FinishRead(w, j) /\ wpc' = [wpc EXCEPT ![w] = "wait"]
  BY <1>0, <1>2, <1>4 DEF EndRearm, Goto
<1>6. /\ UNCHANGED <<osVars, result>>
      /\ critSec' = [critSec EXCEPT ![j] = NoThread]
      /\ pc[w] = "reading" /\ pc' = [pc EXCEPT ![w] = "idle"]
      /\ state' = [state EXCEPT ![j] = {"CONNECTED"} \cup {"READING"}]
  BY <1>3, <1>5 DEF FinishRead, Leave, Reading, CONNECTED
<1> QED
  BY <1>t, <1>0, <1>1, <1>3, <1>5, <1>6

LEMMA ServeEndRearm ==
    ASSUME Task6Inv, ServedInv, NEW w \in Workers, EndRearm(w)
    PROVE  ServedInv'
<1>t. /\ w \in Threads /\ w # Main /\ NoThread \notin Threads
      /\ Workers \subseteq Threads
      /\ TypeOK
      /\ wpc \in [Workers -> {"unstarted", "wait", "check", "service", "handle",
                              "rearm", "rearming", "exited"}]
  BY ServerAssumption, PipeAssumption DEF Task6Inv, Task6TypeOK
<1>1. PICK j \in Pipes :
        /\ j = result[w].pipe /\ Attends(w, j) /\ critSec[j] = w
        /\ \A v \in Workers : Attends(v, j) => v = w
        /\ state[j] = CONNECTED
        /\ UNCHANGED <<osVars, result, phase, next>>
        /\ critSec' = [critSec EXCEPT ![j] = NoThread]
        /\ pc[w] = "reading" /\ pc' = [pc EXCEPT ![w] = "idle"]
        /\ state' = [state EXCEPT ![j] = {"CONNECTED"} \cup {"READING"}]
        /\ wpc' = [wpc EXCEPT ![w] = "wait"]
  BY EndRearmReads
<1>6. UNCHANGED <<npfs, pending>>
  BY <1>1 DEF osVars
<1>7. ConnectsAlone'
  BY <1>t, <1>1 DEF ServedInv, ConnectsAlone, TypeOK, ThreadType
<1>8. ASSUME NEW i \in Pipes PROVE ServeInv(i)'
  <2>0. ServeInv(i)
    BY DEF ServedInv
  <2>1. CASE i = j
    <3>1. UnderWay(j) = "read"
      BY <1>1, <1>t DEF UnderWay, Doing, CONNECTED
    <3>2. UnderWay(j)' = "read"
      BY <1>t, <1>1 DEF UnderWay, Doing, TypeOK, ServerType
    <3>3. \A v \in Workers : ~Attends(v, j)'
      BY <1>1, <1>t DEF Attends
    <3> QED
      BY <1>1, <1>6, <2>0, <2>1, <3>1, <3>2, <3>3 DEF ServeInv
  <2>2. CASE i # j
    <3>1. state'[i] = state[i] /\ critSec'[i] = critSec[i]
      BY <1>t, <1>1, <2>2 DEF TypeOK, ServerType
    <3>2. critSec[i] # NoThread => critSec[i] # w
      BY <1>1, <1>t, <2>2 DEF Task6Inv, Inv, LockInv
    <3>3. critSec[i] # NoThread => pc'[critSec[i]] = pc[critSec[i]]
      BY <1>t, <1>1, <3>2, Outside DEF TypeOK, ThreadType
    <3>4. \A v \in Workers : Attends(v, i)' <=> Attends(v, i)
      BY <1>1, <1>t, <2>2 DEF Attends
    <3>5. Unbuilt(i) => Unbuilt(i)'
      BY <1>1 DEF Unbuilt
    <3> QED
      BY <1>1, <1>6, <2>0, <3>1, <3>3, <3>4, <3>5, ServeFrame
  <2> QED
    BY <2>1, <2>2
<1> QED
  BY <1>7, <1>8 DEF ServedInv

LEMMA ServedInit == Task6Init => ServedInv
<1> SUFFICES ASSUME Task6Init PROVE ServedInv
  OBVIOUS
<1>1. ConnectsAlone
  BY ServerAssumption DEF Task6Init, Init, ConnectsAlone
<1>2. ASSUME NEW i \in Pipes PROVE ServeInv(i)
  <2>1. UnderWay(i) = "none" /\ npfs[i] = "listening"
    BY PipeAssumption DEF Task6Init, Init, UnderWay, Doing, UNCONNECTED
  <2>2. Unbuilt(i)
    BY ServerAssumption DEF Task6Init, Unbuilt
  <2> QED
    BY <2>1, <2>2 DEF Task6Init, ServeInv, Attends
<1> QED
  BY <1>1, <1>2 DEF ServedInv

LEMMA ServedStep ==
    /\ Task6Inv /\ Unstarted /\ FailedIsDead /\ DeliverInv /\ ServedInv
    /\ [Task6Next]_Task6Vars
    => ServedInv'
<1> SUFFICES ASSUME Task6Inv, Unstarted, FailedIsDead, DeliverInv, ServedInv,
                    [Task6Next]_Task6Vars
             PROVE  ServedInv'
  OBVIOUS
<1>t. /\ Main \in Threads /\ Main \notin Workers /\ Workers \subseteq Threads
      /\ wpc \in [Workers -> {"unstarted", "wait", "check", "service", "handle",
                              "rearm", "rearming", "exited"}]
      /\ pc \in [Threads -> {"idle", "connecting", "reading", "disconnecting", "got"}]
      /\ result \in [Threads -> Results]
  BY ServerAssumption DEF Task6Inv, Task6TypeOK, TypeOK, ThreadType
<1>1. CASE Construct
  BY <1>1, ServeConstruct
<1>2. CASE \/ CreateThreadFails \/ StopAndWait \/ Join \/ JoinFails \/ Terminated
           \/ UNCHANGED Task6Vars
  <2>1. /\ UNCHANGED <<vars, wpc, next>>
        /\ phase' = "connecting" => phase = "connecting"
        /\ phase \in {"connecting", "failed"} => phase' = phase
    BY <1>2 DEF CreateThreadFails, StopAndWait, Join, JoinFails, DestroyPipeServer,
                Terminated, Task6Vars, mainVars
  <2>2. \A w \in Workers, i \in Pipes : Attends(w, i) <=> Attends(w, i)'
    BY <2>1 DEF vars, Attends
  <2> QED
    BY <2>1, <2>2, ServeIdle DEF vars
<1>3. CASE PostShutdown
  <2>1. /\ UNCHANGED <<state, critSec, npfs, pending, pc, result, wpc, next>>
        /\ phase = "posting" /\ phase' \in {"joining", "posting"}
    BY <1>3 DEF PostShutdown, PostForeign, threadVars
  <2>2. \A w \in Workers, i \in Pipes : Attends(w, i) <=> Attends(w, i)'
    BY <2>1 DEF Attends
  <2> QED
    BY <2>1, <2>2, ServeIdle
<1>4. CASE Clients
  BY <1>4, ServeClients DEF Clients, mainVars
<1>5. ASSUME NEW w \in Workers, Worker(w) PROVE ServedInv'
  <2>1. CASE Dequeue(w) \/ Check(w) \/ Handle(w)
    <3>1. /\ UNCHANGED <<state, critSec, npfs, pending, phase, next>>
          /\ \A t \in Threads : \/ pc'[t] = pc[t]
                                \/ pc[t] = "idle" /\ pc'[t] = "got"
          /\ pc'[Main] = pc[Main]
      <4>1. CASE Dequeue(w)
        BY <1>t, <4>1 DEF Dequeue, GetPacket, mainVars
      <4>2. CASE Check(w) \/ Handle(w)
        BY <1>t, <4>2 DEF Check, Handle, vars, mainVars
      <4> QED
        BY <2>1, <4>1, <4>2
    <3>2. \A v \in Workers, i \in Pipes :
            /\ Attends(v, i) => result'[v] = result[v]
            /\ Attends(v, i) <=> Attends(v, i)'
      BY <1>t, <2>1 DEF Dequeue, GetPacket, Check, Handle, Goto, vars, Attends
    <3> QED
      BY <3>1, <3>2, ServeIdle
  <2>2. CASE CallService(w)
    BY <2>2, ServeService
  <2>3. CASE Rearm(w)
    BY <2>3, ServeRearm
  <2>4. CASE EndRearm(w)
    BY <2>4, ServeEndRearm
  <2> QED
    BY <1>5, <2>1, <2>2, <2>3, <2>4 DEF Worker
<1> QED
  BY <1>1, <1>2, <1>3, <1>4, <1>5 DEF Task6Next

(* While its client is there, an instance of a running server has an       *)
(* operation outstanding or a worker that is about to issue one; the only  *)
(* exception is a connect that found its client there.                     *)
THEOREM ConnectedPipesServed == Task6Spec => []ConnectedIsServed
<1>1. Task6Inv /\ DeliverInv /\ ServedInv => ConnectedIsServed
  <2> SUFFICES ASSUME Task6Inv, DeliverInv, ServedInv, phase = "running",
                      NEW i \in Pipes, npfs[i] = "connected"
               PROVE  Served(i) \/ ConnectedUnseen(i)
    BY DEF ConnectedIsServed
  <2>0. ServeInv(i) /\ PipeInv(i)
    BY DEF ServedInv, Task6Inv, Inv
  <2>1. CASE UnderWay(i) = "none"
    BY <2>0, <2>1 DEF ServeInv, Unbuilt, Served
  <2>2. CASE UnderWay(i) = "read"
    BY <2>0, <2>2 DEF PipeInv, OperationFits, Served
  <2>3. CASE UnderWay(i) = "connect"
    <3>1. ~Doing(i, "connecting")
      <4>1. \A t \in Threads : pc[t] # "connecting"
        BY ServerAssumption DEF ServedInv, ConnectsAlone
      <4> QED
        BY <4>1, Outside DEF Doing
    <3>2. "CONNECTING" \in state[i]
      BY <2>3, <3>1 DEF UnderWay
    <3>3. "DISCONNECTING" \notin state[i]
      BY DEF DeliverInv, OrderInv
    <3>4. state[i] \in {UNCONNECTED, UnconnectedConnecting, CONNECTED,
                       ConnectedReading, DisconnectingConnecting,
                       DisconnectingReading}
      BY <2>0 DEF PipeInv, StateInv
    <3>5. state[i] = UnconnectedConnecting
      BY <3>2, <3>3, <3>4
         DEF UNCONNECTED, CONNECTED, ConnectedReading, DisconnectingConnecting,
             DisconnectingReading
    <3> QED
      BY <3>5 DEF Served, ConnectedUnseen
  <2> QED
    BY <2>1, <2>2, <2>3 DEF UnderWay
<1>2. Task6Init => Unstarted /\ FailedIsDead
  BY DEF Task6Init, Unstarted, FailedIsDead
<1> QED
  BY <1>1, <1>2, UnstartedStep, FailedStep, DeliverInit, DeliverStep,
     ServedInit, ServedStep, Task6Invariance, PTL
     DEF Task6Spec

-----------------------------------------------------------------------------
(* The shutdown wakes every worker.                                        *)

(* A method of the pipe server only adds to the port.                      *)
PortGrows == \/ iocp' = iocp
             \/ \E p \in Packets : iocp' = Append(iocp, p)

LEMMA GrownPort ==
    ASSUME TypeOK, PortGrows
    PROVE  Len(iocp) \in Nat /\ Len(iocp') \in Nat /\ Len(iocp') >= Len(iocp)
<1>1. iocp \in Seq(Packets)
  BY DEF TypeOK, PortType
<1>2. CASE iocp' = iocp
  BY <1>1, <1>2
<1>3. ASSUME NEW p \in Packets, iocp' = Append(iocp, p)
      PROVE  Len(iocp') \in Nat /\ Len(iocp') = Len(iocp) + 1
  BY <1>1, <1>3, AppendEntries
<1> QED
  BY <1>1, <1>2, <1>3 DEF PortGrows

LEMMA CallsGrowPort ==
    ASSUME TypeOK, NEW t \in Threads, NEW i \in Pipes,
           \/ ConnectInstance(t, i) \/ ReadInstance(t, i)
           \/ FinishConnect(t, i) \/ FinishRead(t, i)
    PROVE  PortGrows
<1>1. Completion(i, "connect", "ok") \in Packets /\ Completion(i, "read", "ok") \in Packets
  BY CompletionType DEF Errors
<1>2. CASE ConnectInstance(t, i)
  BY <1>1, <1>2 DEF ConnectInstance, ConnectNamedPipe, Post, PortGrows
<1>3. CASE ReadInstance(t, i)
  BY <1>1, <1>3 DEF ReadInstance, ReadFile, Post, PortGrows
<1>4. CASE FinishConnect(t, i) \/ FinishRead(t, i)
  BY <1>4 DEF FinishConnect, FinishRead, osVars, PortGrows
<1> QED
  BY <1>2, <1>3, <1>4

LEMMA PeersGrowPort ==
    ASSUME TypeOK, NEW i \in Pipes, PeerOpen(i) \/ PeerWrite(i) \/ PeerClose(i)
    PROVE  PortGrows
<1>1. \A kind \in {"connect", "read"}, err \in Errors : Completion(i, kind, err) \in Packets
  BY CompletionType
<1> QED
  BY <1>1 DEF PeerOpen, PeerWrite, PeerClose, Complete, Post, PortGrows, Errors

\* The workers that will take another packet from the port.
ToWake == {w \in started : wpc[w] \notin {"check", "exited"}}

\* The port holds a packet for every worker that will come to it.
WorkersWoken == phase \in {"joining", "stopped"} => Cardinality(ToWake) <= Len(iocp)

\* Of the phases, the event, the packets and the workers: stopAndWait sets the
\* event first and posts as many packets as there are workers, and a worker
\* that will come back to the port has one there or still to be posted.
WakeInv ==
    /\ \A w \in Workers : w \in started <=> wpc[w] # "unstarted"
    /\ phase \in {"posting", "joining", "stopped"} => shutdownEvent
    /\ phase \in {"connecting", "creating", "running"} => ~shutdownEvent
    /\ ~shutdownEvent => posted = 0
    /\ phase \in {"joining", "stopped"} => posted = Cardinality(started)
    /\ shutdownEvent => Cardinality(ToWake) + posted <= Len(iocp) + Cardinality(started)

LEMMA WorkersAreFinite ==
    ASSUME started \subseteq Workers
    PROVE  /\ IsFiniteSet(started) /\ Cardinality(started) \in Nat
           /\ IsFiniteSet(ToWake) /\ Cardinality(ToWake) \in Nat
           /\ Cardinality(ToWake) <= Cardinality(started)
<1>1. ToWake \subseteq started /\ IsFiniteSet(Workers)
  BY ServerAssumption DEF ToWake
<1> QED
  BY <1>1, FS_Subset, FS_CardinalityType

\* A step that brings no worker back to the port and takes no packet.
LEMMA WakeFrame ==
    ASSUME Task6Inv, WakeInv, UNCHANGED mainVars, PortGrows,
           \A w \in Workers :
             \/ wpc'[w] = wpc[w]
             \/ /\ wpc[w] \notin {"unstarted", "check", "exited"}
                /\ wpc'[w] # "unstarted"
             \/ /\ wpc[w] = "check" /\ wpc'[w] # "unstarted"
                /\ shutdownEvent => wpc'[w] = "exited"
    PROVE  WakeInv'
<1>1. TypeOK /\ started \subseteq Workers /\ posted \in Nat
  BY DEF Task6Inv, Task6TypeOK
<1>2. Len(iocp) \in Nat /\ Len(iocp') \in Nat /\ Len(iocp') >= Len(iocp)
  BY <1>1, GrownPort
<1>3. started' = started /\ posted' = posted /\ shutdownEvent' = shutdownEvent /\ phase' = phase
  BY DEF mainVars
<1>4. ASSUME shutdownEvent
      PROVE  Cardinality(ToWake') + posted' <= Len(iocp') + Cardinality(started')
  <2>1. ToWake' \in SUBSET ToWake
    BY <1>1, <1>3, <1>4 DEF ToWake
  <2>2. Cardinality(ToWake') <= Cardinality(ToWake) /\ Cardinality(ToWake') \in Nat
    BY <1>1, <2>1, WorkersAreFinite, FS_Subset, FS_CardinalityType
  <2> QED
    BY <1>1, <1>2, <1>3, <1>4, <2>2, WorkersAreFinite DEF WakeInv
<1>5. \A w \in Workers : w \in started' <=> wpc'[w] # "unstarted"
  BY <1>3 DEF WakeInv
<1> QED
  BY <1>3, <1>4, <1>5 DEF WakeInv

LEMMA WakeWorker ==
    ASSUME Task6Inv, WakeInv, NEW w \in Workers, Worker(w) PROVE WakeInv'
<1>t. /\ wpc \in [Workers -> {"unstarted", "wait", "check", "service", "handle",
                              "rearm", "rearming", "exited"}]
      /\ TypeOK /\ Inv /\ w \in Threads /\ started \subseteq Workers /\ posted \in Nat
      /\ iocp \in Seq(Packets)
  BY ServerAssumption DEF Task6Inv, Task6TypeOK, TypeOK, PortType
<1>f. ASSUME NEW from, NEW to, wpc[w] = from, Goto(w, to), UNCHANGED mainVars, PortGrows,
             from \in {"service", "handle", "rearm", "rearming"}, to # "unstarted"
      PROVE  WakeInv'
  BY <1>t, <1>f, WakeFrame DEF Goto
<1>1. CASE Dequeue(w)
  <2>1. /\ wpc[w] = "wait" /\ wpc' = [wpc EXCEPT ![w] = "check"]
        /\ iocp # << >> /\ iocp' = Tail(iocp) /\ UNCHANGED mainVars
    BY <1>1 DEF Dequeue, GetPacket, Goto
  <2>2. Len(iocp') = Len(iocp) - 1 /\ Len(iocp) \in Nat
    BY <1>t, <2>1
  <2>3. ToWake' = ToWake \ {w} /\ w \in ToWake
    BY <1>t, <2>1 DEF ToWake, mainVars, WakeInv
  <2>4. Cardinality(ToWake') = Cardinality(ToWake) - 1
    BY <1>t, <2>3, WorkersAreFinite, FS_RemoveElement
  <2>5. \A v \in Workers : v \in started' <=> wpc'[v] # "unstarted"
    BY <1>t, <2>1 DEF mainVars, WakeInv
  <2> QED
    BY <1>t, <2>1, <2>2, <2>4, <2>5, WorkersAreFinite DEF mainVars, WakeInv
<1>2. CASE Check(w)
  <2>1. /\ wpc[w] = "check" /\ UNCHANGED <<vars, mainVars>>
        /\ \/ wpc' = [wpc EXCEPT ![w] = "exited"]
           \/ ~shutdownEvent /\ wpc' = [wpc EXCEPT ![w] = "service"]
    BY <1>2, Zenon DEF Check, Goto
  <2>2. PortGrows
    BY <2>1 DEF vars, PortGrows
  <2> QED
    BY <1>t, <2>1, <2>2, WakeFrame
<1>3. CASE CallService(w)
  <2>1. iocp' = iocp
    BY <1>t, <1>3, ServiceOutcomes DEF CallService
  <2>2. AfterService(w) \in {"wait", "handle", "rearm"}
    BY DEF AfterService
  <2> QED
    BY <1>3, <1>f, <2>1, <2>2 DEF CallService, PortGrows
<1>4. CASE Handle(w)
  BY <1>4, <1>f DEF Handle, vars, PortGrows
<1>5. CASE Rearm(w)
  <2>1. result[w].pipe \in Pipes /\ wpc[w] = "rearm" /\ UNCHANGED mainVars
    BY <1>5 DEF Rearm, Task6Inv, Attendance, AttendedAlone
  <2>2. PortGrows
    BY <1>t, <1>5, <2>1, CallsGrowPort
       DEF Rearm, Begins, Refuses, ConnectRefused, ReadRefused, vars, PortGrows
  <2> QED
    BY <1>5, <1>f, <2>1, <2>2 DEF Rearm
<1>6. CASE EndRearm(w)
  <2>1. result[w].pipe \in Pipes /\ wpc[w] = "rearming" /\ UNCHANGED mainVars
    BY <1>6 DEF EndRearm, Task6Inv, Attendance, AttendedAlone
  <2>2. PortGrows
    BY <1>t, <1>6, <2>1, CallsGrowPort DEF EndRearm
  <2> QED
    BY <1>6, <1>f, <2>1, <2>2 DEF EndRearm
<1> QED
  BY <1>1, <1>2, <1>3, <1>4, <1>5, <1>6 DEF Worker

LEMMA WakeStep ==
    ASSUME Task6Inv, WakeInv, [Task6Next]_Task6Vars PROVE WakeInv'
<1>t. /\ TypeOK /\ started \subseteq Workers /\ posted \in Nat /\ iocp \in Seq(Packets)
      /\ wpc \in [Workers -> {"unstarted", "wait", "check", "service", "handle",
                              "rearm", "rearming", "exited"}]
  BY DEF Task6Inv, Task6TypeOK, TypeOK, PortType
<1>n. Len(iocp) \in Nat
  BY <1>t
<1>c. /\ Cardinality(started) \in Nat /\ Cardinality(ToWake) \in Nat
      /\ Cardinality(ToWake) <= Cardinality(started)
  BY <1>t, WorkersAreFinite
<1>1. CASE Construct
  <2>1. ~shutdownEvent /\ shutdownEvent' = shutdownEvent
    BY <1>1 DEF Construct, BeginConnecting, EndConnecting, CreateWorker, mainVars,
                ConstructorThrows, WakeInv
  <2>2. posted' = posted /\ phase' \notin {"posting", "joining", "stopped"}
    BY <1>1 DEF Construct, BeginConnecting, EndConnecting, CreateWorker, mainVars,
                ConstructorThrows
  <2>3. \A w \in Workers : w \in started' <=> wpc'[w] # "unstarted"
    BY <1>1, <1>t DEF Construct, BeginConnecting, EndConnecting, CreateWorker, mainVars,
                      ConstructorThrows, WakeInv
  <2> QED
    BY <2>1, <2>2, <2>3 DEF WakeInv
<1>2. CASE CreateThreadFails \/ StopAndWait
  <2>1. /\ phase \in {"creating", "running"} /\ phase' \in {"failed", "posting"}
        /\ shutdownEvent' = TRUE /\ UNCHANGED <<iocp, started, posted, wpc>>
    BY <1>2 DEF CreateThreadFails, StopAndWait, vars
  <2>2. ToWake' = ToWake /\ posted = 0
    BY <2>1 DEF ToWake, WakeInv
  <2> QED
    BY <1>n, <1>c, <2>1, <2>2 DEF WakeInv
<1>3. CASE PostShutdown
  <2>1. /\ phase = "posting" /\ UNCHANGED <<started, shutdownEvent, wpc>>
        /\ posted' = posted + 1 /\ iocp' = Append(iocp, Foreign("shutdown"))
        /\ phase' = IF posted' = Cardinality(started) THEN "joining" ELSE "posting"
    BY <1>3 DEF PostShutdown, PostForeign, Post
  <2>2. Len(iocp') = Len(iocp) + 1
    <3>1. Foreign("shutdown") \in Packets
      BY ServerAssumption, ForeignType
    <3> QED
      BY <1>t, <2>1, <3>1, AppendEntries
  <2>3. ToWake' = ToWake /\ shutdownEvent
    BY <2>1 DEF ToWake, WakeInv
  <2> QED
    BY <1>t, <1>n, <1>c, <2>1, <2>2, <2>3 DEF WakeInv
<1>4. CASE Join \/ JoinFails
  <2>1. /\ phase = "joining" /\ phase' \in {"stopped", "aborted"}
        /\ UNCHANGED <<iocp, started, posted, shutdownEvent, wpc>>
    BY <1>4 DEF Join, JoinFails, DestroyPipeServer, vars
  <2>2. ToWake' = ToWake
    BY <2>1 DEF ToWake
  <2> QED
    BY <2>1, <2>2 DEF WakeInv
<1>5. ASSUME NEW w \in Workers, Worker(w) PROVE WakeInv'
  BY <1>5, WakeWorker
<1>6. CASE Clients
  BY <1>6, <1>t, PeersGrowPort, WakeFrame DEF Clients
<1>7. CASE Terminated \/ UNCHANGED Task6Vars
  BY <1>7, WakeFrame DEF Terminated, Task6Vars, vars, PortGrows
<1> QED
  BY <1>1, <1>2, <1>3, <1>4, <1>5, <1>6, <1>7 DEF Task6Next

LEMMA WakeInit == Task6Init => WakeInv
  BY DEF Task6Init, WakeInv

(* Once stopAndWait waits for them, and after it has given them up, the    *)
(* port holds a packet for every worker that will come to it again,        *)
(* wherever the workers were when it set the event and whatever clients    *)
(* and the kernel have queued: nobody is left asleep at the port.          *)
THEOREM NobodyLeftAsleep == Task6Spec => []WorkersWoken
<1>1. Task6Inv /\ WakeInv => WorkersWoken
  <2> SUFFICES ASSUME Task6Inv, WakeInv, phase \in {"joining", "stopped"}
               PROVE  Cardinality(ToWake) <= Len(iocp)
    BY DEF WorkersWoken
  <2>1. started \subseteq Workers /\ iocp \in Seq(Packets)
    BY DEF Task6Inv, Task6TypeOK, TypeOK, PortType
  <2>2. Len(iocp) \in Nat
    BY <2>1
  <2> QED
    BY <2>1, <2>2, WorkersAreFinite DEF WakeInv
<1>2. Task6Inv /\ WakeInv /\ [Task6Next]_Task6Vars => WakeInv'
  BY WakeStep
<1> QED
  BY <1>1, <1>2, WakeInit, Task6Invariance, PTL DEF Task6Spec

\* Where a worker is in the pipe server, by its place in the loop.
Inside(w) ==
    /\ wpc[w] \in {"unstarted", "wait", "handle", "rearm"} => pc[w] = "idle"
    /\ wpc[w] \in {"check", "service", "exited"} => pc[w] = "got"
    /\ wpc[w] = "service" => packet[w].key = "pipe"

InsideInv == \A w \in Workers : Inside(w)

LEMMA InsideWorker ==
    ASSUME Task6Inv, InsideInv, NEW w \in Workers, Worker(w) PROVE InsideInv'
<1>t. /\ wpc \in [Workers -> {"unstarted", "wait", "check", "service", "handle",
                              "rearm", "rearming", "exited"}]
      /\ pc \in [Threads -> {"idle", "connecting", "reading", "disconnecting", "got"}]
      /\ packet \in [Threads -> Packets \cup {NoPacket}]
      /\ \A t \in Threads : pc[t] = "got" => packet[t] \in Packets
      /\ Workers \subseteq Threads
  BY ServerAssumption DEF Task6Inv, Task6TypeOK, TypeOK, ThreadType
<1>1. ASSUME Inside(w)',
             \A v \in Workers \ {w} : /\ wpc'[v] = wpc[v] /\ pc'[v] = pc[v]
                                      /\ packet'[v] = packet[v]
      PROVE  InsideInv'
  BY <1>1 DEF InsideInv, Inside
<1>2. CASE Dequeue(w)
  BY <1>t, <1>1, <1>2 DEF Dequeue, GetPacket, Goto, Inside
<1>3. CASE Check(w)
  <2>1. packet[w] \in Packets /\ pc[w] = "got"
    BY <1>t, <1>3 DEF Check, InsideInv, Inside
  <2>2. packet[w].key \in {"pipe", "shutdown"}
    BY <2>1, ServerAssumption DEF Packets, PipePackets, Foreign
  <2> QED
    BY <1>t, <1>1, <1>3, <2>1, <2>2 DEF Check, Goto, vars, Inside
<1>4. CASE CallService(w)
  <2>1. /\ pc' = [pc EXCEPT ![w] = "idle"] /\ packet' = [packet EXCEPT ![w] = NoPacket]
        /\ wpc' = [wpc EXCEPT ![w] = AfterService(w)]
    BY <1>4 DEF CallService, Service, Goto
  <2>2. AfterService(w) \in {"wait", "handle", "rearm"}
    BY DEF AfterService
  <2> QED
    BY <1>t, <1>1, <2>1, <2>2 DEF Inside
<1>5. CASE Handle(w)
  BY <1>t, <1>1, <1>5 DEF Handle, Goto, vars, Inside, InsideInv
<1>6. CASE Rearm(w)
  <2>1. CASE Refuses(w, result[w].pipe) /\ Goto(w, "wait")
    <3>1. pc' = pc /\ packet' = packet /\ pc[w] = "idle" /\ wpc' = [wpc EXCEPT ![w] = "wait"]
      BY <1>6, <2>1 DEF Refuses, ConnectRefused, ReadRefused, CanEnter, vars, Goto
    <3> QED
      BY <1>t, <1>1, <3>1 DEF Inside
  <2>2. CASE Begins(w, result[w].pipe) /\ Goto(w, "rearming")
    <3>1. /\ packet' = packet /\ wpc' = [wpc EXCEPT ![w] = "rearming"]
          /\ \A v \in Workers \ {w} : pc'[v] = pc[v]
      BY <1>t, <2>2 DEF Begins, ConnectInstance, ReadInstance, Enter, Goto
    <3> QED
      BY <1>t, <1>1, <3>1 DEF Inside
  <2> QED
    BY <1>6, <2>1, <2>2 DEF Rearm
<1>7. CASE EndRearm(w)
  <2>1. /\ packet' = packet /\ wpc' = [wpc EXCEPT ![w] = "wait"]
        /\ pc' = [pc EXCEPT ![w] = "idle"]
    BY <1>7 DEF EndRearm, FinishConnect, FinishRead, Leave, Goto
  <2> QED
    BY <1>t, <1>1, <2>1 DEF Inside
<1> QED
  BY <1>2, <1>3, <1>4, <1>5, <1>6, <1>7 DEF Worker

LEMMA InsideStep ==
    ASSUME Task6Inv, Unstarted, InsideInv, [Task6Next]_Task6Vars PROVE InsideInv'
<1>t. /\ wpc \in [Workers -> {"unstarted", "wait", "check", "service", "handle",
                              "rearm", "rearming", "exited"}]
      /\ pc \in [Threads -> {"idle", "connecting", "reading", "disconnecting", "got"}]
      /\ Workers \subseteq Threads /\ Main \notin Workers /\ Main \in Threads
  BY ServerAssumption DEF Task6Inv, Task6TypeOK, TypeOK, ThreadType
<1>f. ASSUME UNCHANGED <<wpc, packet>>, \A w \in Workers : pc'[w] = pc[w]
      PROVE  InsideInv'
  BY <1>f DEF InsideInv, Inside
<1>1. CASE BeginConnecting \/ EndConnecting
  <2>1. UNCHANGED <<wpc, packet>> /\ \A w \in Workers : pc'[w] = pc[w]
    BY <1>t, <1>1 DEF BeginConnecting, EndConnecting, ConnectInstance, ConnectRefused,
                      Enter, FinishConnect, Leave, vars
  <2> QED
    BY <1>f, <2>1
<1>2. CASE CreateWorker
  <2>1. PICK w \in Workers : wpc' = [wpc EXCEPT ![w] = "wait"] /\ w \notin started
    BY <1>2 DEF CreateWorker
  <2>2. pc' = pc /\ packet' = packet
    BY <1>2 DEF CreateWorker, vars
  <2>3. wpc[w] = "unstarted"
    BY <2>1 DEF Unstarted
  <2> QED
    BY <1>t, <2>1, <2>2, <2>3 DEF InsideInv, Inside
<1>3. CASE \/ CreateThreadFails \/ StopAndWait \/ Join \/ JoinFails \/ Terminated
           \/ UNCHANGED Task6Vars
  BY <1>3, <1>f DEF CreateThreadFails, StopAndWait, Join, JoinFails, Terminated,
                    Task6Vars, vars
<1>4. CASE PostShutdown \/ Clients
  BY <1>4, <1>f DEF PostShutdown, Clients, PostForeign, PeerOpen, PeerWrite, PeerClose,
                    threadVars
<1>5. ASSUME NEW w \in Workers, Worker(w) PROVE InsideInv'
  BY <1>5, InsideWorker
<1> QED
  BY <1>1, <1>2, <1>3, <1>4, <1>5 DEF Task6Next, Construct

LEMMA InsideInit == Task6Init => InsideInv
  BY ServerAssumption DEF Task6Init, Init, InsideInv, Inside

\* The pipe server is there until stopAndWait has returned.
LiveInv == pipeServer = "destroyed" => phase \in {"stopped", "failed"}

LEMMA LiveStep ==
    ASSUME Task6Inv, LiveInv, [Task6Next]_Task6Vars PROVE LiveInv'
<1> USE DEF LiveInv, mainVars
<1>1. CASE Construct
  BY <1>1 DEF Construct, BeginConnecting, ConstructorThrows, EndConnecting, CreateWorker
<1>2. CASE \/ CreateThreadFails \/ StopAndWait \/ PostShutdown \/ Join \/ JoinFails
  BY <1>2 DEF CreateThreadFails, StopAndWait, PostShutdown, Join, JoinFails, DestroyPipeServer
<1>3. ASSUME NEW w \in Workers, Worker(w) PROVE LiveInv'
  BY <1>3 DEF Worker, Dequeue, Check, CallService, Handle, Rearm, EndRearm
<1>4. CASE Clients \/ Terminated \/ UNCHANGED Task6Vars
  BY <1>4 DEF Clients, Terminated, Task6Vars
<1> QED
  BY <1>1, <1>2, <1>3, <1>4 DEF Task6Next

(* A worker that is not asleep at an empty port can go on, or waits for    *)
(* the lock of one that can.                                               *)
LEMMA WorkerGoesOn ==
    ASSUME Task6Inv, ServedInv, WakeInv, InsideInv,
           pipeServer = "live", phase # "connecting",
           NEW w \in started, wpc[w] # "exited", wpc[w] = "wait" => iocp # << >>
    PROVE  \E v \in started : CanGo(v)
<1>t. /\ wpc \in [Workers -> {"unstarted", "wait", "check", "service", "handle",
                              "rearm", "rearming", "exited"}]
      /\ started \subseteq Workers /\ TypeOK
      /\ Threads = Workers \cup {Main}
  BY ServerAssumption DEF Task6Inv, Task6TypeOK
<1>i. Inside(w) /\ wpc[w] # "unstarted"
  BY <1>t DEF InsideInv, WakeInv
<1>h. ASSUME NEW i \in Pipes, critSec[i] # NoThread
      PROVE  \E v \in started : CanGo(v)
  <2>1. PICK v \in Threads :
          v = critSec[i] /\ pc[v] \in {"connecting", "reading", "disconnecting"}
    BY <1>h, Outside
  <2>2. v \in Workers
    BY <1>t, <2>1 DEF ServedInv, ConnectsAlone
  <2>3. wpc[v] = "rearming"
    BY <1>t, <2>1, <2>2 DEF InsideInv, Inside
  <2>4. v \in started
    BY <2>2, <2>3 DEF WakeInv
  <2>5. result[v].pipe \in Pipes /\ critSec[result[v].pipe] = v
    BY <2>2, <2>3 DEF Task6Inv, Attendance, AttendedAlone
  <2> QED
    BY <2>3, <2>4, <2>5 DEF CanGo
<1>1. CASE wpc[w] \in {"wait", "check", "handle"}
  BY <1>1, <1>i DEF CanGo, Inside
<1>2. CASE wpc[w] = "service"
  <2>1. pc[w] = "got" /\ packet[w].key = "pipe"
    BY <1>2, <1>i DEF Inside
  <2>2. packet[w].pipe \in Pipes
    BY <1>t, <2>1, PipeAssumption DEF TypeOK, ThreadType, Packets, PipePackets, Foreign
  <2> QED
    BY <1>2, <1>h, <2>1, <2>2 DEF CanGo
<1>3. CASE wpc[w] = "rearm"
  <2>1. critSec[result[w].pipe] = NoThread /\ pc[w] = "idle"
    BY <1>t, <1>3, <1>i DEF Inside, Task6Inv, Attendance, AttendedAlone
  <2> QED
    BY <1>3, <2>1 DEF CanGo, CanEnter
<1>4. CASE wpc[w] = "rearming"
  <2>1. critSec[result[w].pipe] = w
    BY <1>t, <1>4 DEF Task6Inv, Attendance, AttendedAlone
  <2> QED
    BY <1>4, <2>1 DEF CanGo
<1> QED
  BY <1>t, <1>i, <1>1, <1>2, <1>3, <1>4

(* stopAndWait cannot be left waiting by a deadlock: while a worker still  *)
(* runs, one of them has a packet to take, or is in a step that waits for  *)
(* nobody, or holds the lock that the others wait for and will leave it.   *)
(* When it has given them up, those that do not need the pipe server still *)
(* find a packet.                                                          *)
THEOREM StopIsNeverStuck == Task6Spec => []JoinNeverStuck
<1> DEFINE All == /\ Task6Inv /\ Unstarted /\ FailedIsDead /\ DeliverInv /\ ServedInv
                  /\ WakeInv /\ InsideInv /\ LiveInv
<1>1. ASSUME All, phase \in {"joining", "stopped"}, NEW w \in started, ~Ended(w)
      PROVE  \E v \in started : CanGo(v)
  <2>1. wpc[w] # "exited"
    BY <1>1 DEF Ended
  <2>3. ASSUME wpc[w] = "wait" PROVE iocp # << >>
    <3>1. w \in ToWake
      BY <2>3 DEF ToWake
    <3>2. /\ Cardinality(ToWake) # 0 /\ Cardinality(ToWake) \in Nat
          /\ Cardinality(started) \in Nat
      BY <1>1, <3>1, WorkersAreFinite, FS_EmptySet DEF Task6Inv, Task6TypeOK
    <3>3. Len(iocp) # 0
      BY <1>1, <3>2 DEF WakeInv, Task6Inv, Task6TypeOK, TypeOK, PortType
    <3> QED
      BY <3>3
  <2>4. CASE pipeServer = "live"
    BY <1>1, <2>1, <2>3, <2>4, WorkerGoesOn
  <2>5. CASE pipeServer = "destroyed"
    <3>1. w \in Workers /\ wpc[w] # "unstarted" /\ Inside(w)
      BY <1>1 DEF Task6Inv, Task6TypeOK, WakeInv, InsideInv
    <3>2. wpc[w] \in {"wait", "check", "handle"}
      BY <1>1, <2>5, <3>1 DEF Ended, CutOff, Task6Inv, Task6TypeOK
    <3> QED
      BY <1>1, <2>3, <3>1, <3>2 DEF CanGo, Inside
  <2> QED
    BY <1>1, <2>4, <2>5 DEF Task6Inv, Task6TypeOK
<1>2. All => JoinNeverStuck
  BY <1>1 DEF JoinNeverStuck
<1>3. Task6Init => Unstarted /\ FailedIsDead
  BY DEF Task6Init, Unstarted, FailedIsDead
<1>4. Task6Inv /\ WakeInv /\ [Task6Next]_Task6Vars => WakeInv'
  BY WakeStep
<1>5. Task6Inv /\ Unstarted /\ InsideInv /\ [Task6Next]_Task6Vars => InsideInv'
  BY InsideStep
<1>6. Task6Inv /\ LiveInv /\ [Task6Next]_Task6Vars => LiveInv'
  BY LiveStep
<1>7. Task6Init => LiveInv
  BY DEF Task6Init, LiveInv
<1> QED
  BY <1>2, <1>3, <1>4, <1>5, <1>6, <1>7, UnstartedStep, FailedStep, DeliverInit, DeliverStep,
     ServedInit, ServedStep, WakeInit, InsideInit, Task6Invariance, PTL
     DEF Task6Spec

\* The most steps a worker has left in its loop once the event is set.
StepsLeft == [unstarted |-> 7, service |-> 6, handle |-> 5, rearm |-> 4,
              rearming |-> 3, wait |-> 2, check |-> 1, exited |-> 0]

Nearer ==
    shutdownEvent =>
        \A w \in Workers : \/ wpc'[w] = wpc[w]
                           \/ StepsLeft[wpc'[w]] < StepsLeft[wpc[w]]

RunsDown == [][Nearer]_Task6Vars

(* Once the event is set no worker begins another round: each of its steps *)
(* brings it nearer to its end, which is at most six away for one that was *)
(* created.  With StopIsNeverStuck this is why stopAndWait gets through.   *)
THEOREM WorkersRunDown == Task6Spec => RunsDown
<1>1. ASSUME Task6Inv, WakeInv, Task6Next, shutdownEvent, NEW w \in Workers
      PROVE  wpc'[w] = wpc[w] \/ StepsLeft[wpc'[w]] < StepsLeft[wpc[w]]
  <2>t. wpc \in [Workers -> {"unstarted", "wait", "check", "service", "handle",
                             "rearm", "rearming", "exited"}]
    BY <1>1 DEF Task6Inv, Task6TypeOK
  <2>1. ASSUME NEW v \in Workers, Worker(v)
        PROVE  wpc'[w] = wpc[w] \/ StepsLeft[wpc'[w]] < StepsLeft[wpc[w]]
    <3>1. CASE Dequeue(v)
      BY <2>t, <3>1 DEF Dequeue, Goto, StepsLeft
    <3>2. CASE Check(v)
      BY <1>1, <2>t, <3>2 DEF Check, Goto, StepsLeft
    <3>3. CASE CallService(v)
      <4>1. AfterService(v) \in {"wait", "handle", "rearm"}
        BY DEF AfterService
      <4> QED
        BY <2>t, <3>3, <4>1 DEF CallService, Goto, StepsLeft
    <3>4. CASE Handle(v) \/ Rearm(v) \/ EndRearm(v)
      BY <2>t, <3>4 DEF Handle, Rearm, EndRearm, Goto, StepsLeft
    <3> QED
      BY <2>1, <3>1, <3>2, <3>3, <3>4 DEF Worker
  <2>2. CASE Construct
    <3>1. wpc' = wpc \/ phase = "creating"
      BY <2>2, Zenon DEF Construct, BeginConnecting, EndConnecting, CreateWorker
    <3> QED
      BY <1>1, <3>1 DEF WakeInv
  <2>3. CASE \/ CreateThreadFails \/ StopAndWait \/ PostShutdown \/ Join \/ JoinFails
             \/ Clients \/ Terminated
    BY <2>3 DEF CreateThreadFails, StopAndWait, PostShutdown, Join, JoinFails, Clients,
                Terminated, Task6Vars
  <2> QED
    BY <1>1, <2>1, <2>2, <2>3 DEF Task6Next
<1>2. Task6Inv /\ WakeInv /\ [Task6Next]_Task6Vars => WakeInv'
  BY WakeStep
<1>3. Task6Inv /\ WakeInv /\ [Task6Next]_Task6Vars => [Nearer]_Task6Vars
  BY <1>1 DEF Nearer
<1> QED
  BY <1>2, <1>3, WakeInit, Task6Invariance, PTL DEF Task6Spec, RunsDown
-----------------------------------------------------------------------------
(* A message is never left where nobody takes it further.                  *)

\* A client writes only once it is connected; a connect is in the kernel only
\* while no client has come.  What a client has written before it closed its
\* end is read before the read is refused.
LeftInv(i) ==
    /\ npfs[i] = "listening" => sent[i] = 0
    /\ pending[i] = "connect" => npfs[i] = "listening"
    /\ npfs[i] = "closing" /\ UnderWay(i) = "none" =>
         \/ Unbuilt(i)
         \/ taken[i] = sent[i]
         \/ \E w \in Workers : Attends(w, i)

\* Until the event is set all packets are of pipes, and no worker ends.
RunInv ==
    /\ ~shutdownEvent => /\ \A n \in DOMAIN iocp : iocp[n].key = "pipe"
                         /\ \A w \in Workers : wpc[w] # "exited"
                         /\ \A w \in Workers : pc[w] = "got" => packet[w].key = "pipe"
    /\ phase = "running" => started = Workers /\ Workers # {}

\* A message of instance i that is not handled is taken further by a worker:
\* its packet is in the port or in the worker's hands, or the worker has the
\* instance and has yet to give it its next read.
AtWork(i) == Queued(i) # {} \/ Holding(i) # {} \/ \E w \in Workers : Attends(w, i)

MessageGoesOn ==
    phase = "running" =>
        \A i \in Pipes :
            Len(handled[i]) < sent[i] =>
                ConnectedUnseen(i) \/ (AtWork(i) /\ \E w \in Workers : CanGo(w))

LeftOver == \A i \in Pipes : LeftInv(i)

LEMMA LeftFrame ==
    ASSUME Task6Inv, NEW i \in Pipes, LeftInv(i),
           state'[i] = state[i], critSec'[i] = critSec[i],
           critSec[i] # NoThread => pc'[critSec[i]] = pc[critSec[i]],
           npfs'[i] = npfs[i], pending'[i] = pending[i],
           sent'[i] = sent[i], taken'[i] = taken[i],
           Unbuilt(i) => Unbuilt(i)',
           \A w \in Workers : Attends(w, i) => Attends(w, i)'
    PROVE  LeftInv(i)'
<1>1. UnderWay(i)' = UnderWay(i)
  BY DEF UnderWay, Doing
<1> QED
  BY <1>1 DEF LeftInv

\* What does not touch the instances.
LEMMA LeftIdle ==
    ASSUME Task6Inv, LeftOver,
           UNCHANGED <<state, critSec, npfs, pending, sent, taken>>,
           \A t \in Threads :
             \/ pc'[t] = pc[t]
             \/ pc[t] = "idle" /\ pc'[t] = "got",
           \A i \in Pipes : Unbuilt(i) => Unbuilt(i)',
           \A w \in Workers, i \in Pipes : Attends(w, i) => Attends(w, i)'
    PROVE  LeftOver'
<1>1. ASSUME NEW i \in Pipes PROVE LeftInv(i)'
  <2>1. critSec[i] # NoThread => pc'[critSec[i]] = pc[critSec[i]]
    BY Outside
  <2> QED
    BY <2>1, LeftFrame DEF LeftOver
<1> QED
  BY <1>1 DEF LeftOver

LEMMA LeftConstruct ==
    ASSUME Task6Inv, Unstarted, ServedInv, LeftOver, Construct
    PROVE  LeftOver'
<1>t. /\ Main \in Threads /\ Main \notin Workers /\ NoThread \notin Threads
      /\ pc \in [Threads -> {"idle", "connecting", "reading", "disconnecting", "got"}]
      /\ critSec \in [Pipes -> Threads \cup {NoThread}]
      /\ npfs \in [Pipes -> {"listening", "connected", "closing", "disconnected"}]
      /\ pending \in [Pipes -> {"none", "connect", "read"}]
      /\ state \in [Pipes -> SUBSET Flags]
      /\ Pipes = 0 .. MaxClients - 1 /\ MaxClients \in Nat
      /\ wpc \in [Workers -> {"unstarted", "wait", "check", "service", "handle",
                              "rearm", "rearming", "exited"}]
      /\ phase = "connecting" => next \in Pipes
  BY ServerAssumption, PipeAssumption
     DEF Task6Inv, Task6TypeOK, TypeOK, ThreadType, ServerType, KernelType
<1>1. CASE BeginConnecting
  <2>0. phase = "connecting" /\ next \in Pipes /\ UNCHANGED <<wpc, next>>
    BY <1>1, <1>t DEF BeginConnecting, ConstructorThrows, mainVars
  <2>1. CASE ConnectRefused(Main, next) /\ ConstructorThrows
    <3>1. UNCHANGED vars /\ phase' = "failed"
      BY <2>1 DEF ConnectRefused, ConstructorThrows
    <3>2. /\ \A i \in Pipes : Unbuilt(i)'
          /\ \A w \in Workers, i \in Pipes : Attends(w, i) => Attends(w, i)'
      BY <2>0, <3>1 DEF Unbuilt, vars, Attends
    <3> QED
      BY <3>1, <3>2, LeftIdle DEF vars
  <2>2. CASE ConnectInstance(Main, next) /\ UNCHANGED mainVars
    <3>1. /\ UNCHANGED <<state, sent, taken, phase, next>>
          /\ critSec[next] = NoThread /\ pc[Main] = "idle"
          /\ critSec' = [critSec EXCEPT ![next] = Main]
          /\ pc' = [pc EXCEPT ![Main] = "connecting"]
      BY <2>2 DEF ConnectInstance, CanEnter, Enter, mainVars
    <3>2. ASSUME NEW i \in Pipes PROVE LeftInv(i)'
      <4>0. LeftInv(i) /\ ServeInv(i)
        BY DEF LeftOver, ServedInv
      <4>2. CASE i = next
        <5>1. UnderWay(i)' = "connect"
          BY <1>t, <2>0, <3>1, <4>2 DEF UnderWay, Doing
        <5>2. /\ npfs'[i] = npfs[i]
              /\ pending'[i] = "connect" => npfs'[i] = "listening"
          BY <1>t, <2>0, <2>2, <4>0, <4>2
             DEF ConnectInstance, ConnectNamedPipe, ServeInv, LeftInv
        <5> QED
          BY <3>1, <4>0, <5>1, <5>2 DEF LeftInv
      <4>3. CASE i # next
        <5>1. npfs'[i] = npfs[i] /\ pending'[i] = pending[i]
          BY <1>t, <2>2, <4>3 DEF ConnectInstance, ConnectNamedPipe
        <5>2. critSec[i] # NoThread => pc'[critSec[i]] = pc[critSec[i]]
          BY <1>t, <3>1, Outside
        <5>3. /\ Unbuilt(i) => Unbuilt(i)'
              /\ \A w \in Workers : Attends(w, i) => Attends(w, i)'
          BY <2>0, <3>1 DEF Unbuilt, Attends, Task6Inv, Attendance
        <5>4. state'[i] = state[i] /\ critSec'[i] = critSec[i]
          BY <1>t, <3>1, <4>3
        <5> QED
          BY <3>1, <4>0, <5>1, <5>2, <5>3, <5>4, LeftFrame
      <4> QED
        BY <4>2, <4>3
    <3> QED
      BY <3>2 DEF LeftOver
  <2> QED
    BY <1>1, <2>1, <2>2 DEF BeginConnecting
<1>2. CASE EndConnecting
  <2>1. /\ phase = "connecting" /\ next \in Pipes
        /\ next' = next + 1 /\ phase' \in {"connecting", "creating"}
        /\ next + 1 < MaxClients => phase' = "connecting"
        /\ UNCHANGED <<wpc, npfs, pending, sent, taken>>
        /\ critSec[next] = Main
        /\ critSec' = [critSec EXCEPT ![next] = NoThread]
        /\ pc' = [pc EXCEPT ![Main] = "idle"]
        /\ state' = [state EXCEPT ![next] = UnconnectedConnecting]
    BY <1>2, <1>t DEF EndConnecting, FinishConnect, Leave, Connecting, osVars
  <2>2. ASSUME NEW i \in Pipes PROVE LeftInv(i)'
    <3>0. LeftInv(i)
      BY DEF LeftOver
    <3>2. CASE i = next
      <4>1. UnderWay(i)' = "connect"
        BY <1>t, <2>1, <3>2 DEF UnderWay, UnconnectedConnecting
      <4> QED
        BY <2>1, <3>0, <4>1 DEF LeftInv
    <3>3. CASE i # next
      <4>1. critSec[i] # NoThread => critSec[i] # Main
        BY <2>1, <3>3 DEF Task6Inv, Inv, LockInv
      <4>2. critSec[i] # NoThread => pc'[critSec[i]] = pc[critSec[i]]
        BY <1>t, <2>1, <4>1
      <4>3. /\ Unbuilt(i) => Unbuilt(i)'
            /\ \A w \in Workers : Attends(w, i) => Attends(w, i)'
        BY <1>t, <2>1, <3>3 DEF Unbuilt, Attends, Task6Inv, Attendance
      <4>4. state'[i] = state[i] /\ critSec'[i] = critSec[i]
        BY <1>t, <2>1, <3>3
      <4> QED
        BY <2>1, <3>0, <4>2, <4>3, <4>4, LeftFrame
    <3> QED
      BY <3>2, <3>3
  <2> QED
    BY <2>2 DEF LeftOver
<1>3. CASE CreateWorker
  <2>1. UNCHANGED vars /\ phase = "creating"
    BY <1>3 DEF CreateWorker
  <2>2. /\ \A w \in Workers, i \in Pipes : Attends(w, i) => Attends(w, i)'
        /\ \A i \in Pipes : Unbuilt(i) => Unbuilt(i)'
    BY <1>3, <1>t, <2>1 DEF CreateWorker, vars, Attends, Unstarted, Unbuilt
  <2> QED
    BY <2>1, <2>2, LeftIdle DEF vars
<1> QED
  BY <1>1, <1>2, <1>3 DEF Construct

LEMMA LeftClients ==
    ASSUME Task6Inv, ServedInv, LeftOver, UNCHANGED <<wpc, phase, next>>,
           NEW j \in Pipes, PeerOpen(j) \/ PeerWrite(j) \/ PeerClose(j)
    PROVE  LeftOver'
<1>t. KernelType
  BY DEF Task6Inv, Task6TypeOK, TypeOK
<1>1. /\ UNCHANGED <<state, critSec, pc, result>>
      /\ \A i \in Pipes \ {j} : /\ npfs'[i] = npfs[i] /\ pending'[i] = pending[i]
                                /\ sent'[i] = sent[i] /\ taken'[i] = taken[i]
  BY <1>t DEF PeerOpen, PeerWrite, PeerClose, Complete, threadVars, KernelType
<1>2. ASSUME NEW i \in Pipes PROVE LeftInv(i)'
  <2>0. LeftInv(i) /\ ServeInv(i)
    BY DEF LeftOver, ServedInv
  <2>1. /\ UnderWay(i)' = UnderWay(i)
        /\ Unbuilt(i)' <=> Unbuilt(i)
        /\ \A w \in Workers : Attends(w, i)' <=> Attends(w, i)
    BY <1>1 DEF UnderWay, Doing, Unbuilt, Attends
  <2>2. CASE i # j
    BY <1>1, <2>0, <2>1, <2>2, LeftFrame
  <2>3. CASE i = j
    <3>1. npfs'[j] \in {"connected", "closing"} /\ pending'[j] # "connect"
      BY <1>t, <2>0, <2>3 DEF PeerOpen, PeerWrite, PeerClose, Complete, KernelType, LeftInv
    <3>2. npfs'[j] = "closing" => npfs[j] = "connected"
      BY <1>t DEF PeerOpen, PeerWrite, PeerClose, KernelType
    <3> QED
      BY <2>0, <2>1, <2>3, <3>1, <3>2 DEF LeftInv, ServeInv
  <2> QED
    BY <2>2, <2>3
<1> QED
  BY <1>2 DEF LeftOver

LEMMA LeftService ==
    ASSUME Task6Inv, DeliverInv, ServedInv, LeftOver, NEW w \in Workers, CallService(w)
    PROVE  LeftOver'
<1>t. /\ TypeOK /\ w \in Threads /\ pc[w] = "got" /\ wpc[w] = "service"
  BY ServerAssumption DEF CallService, Service, Task6Inv, Task6TypeOK
<1>1. PICK j \in Pipes :
        /\ UNCHANGED <<osVars, critSec, phase, next>>
        /\ pc' = [pc EXCEPT ![w] = "idle"]
        /\ state' = [state EXCEPT ![j] = CONNECTED]
        /\ result'[w].pipe = j
        /\ \A v \in Workers \ {w} : result'[v] = result[v] /\ wpc'[v] = wpc[v]
        /\ wpc'[w] \in {"handle", "rearm"}
  BY ServiceConnects
<1>2. ASSUME NEW i \in Pipes PROVE LeftInv(i)'
  <2>0. LeftInv(i) /\ UNCHANGED <<npfs, pending, sent, taken>>
    BY <1>1 DEF LeftOver, osVars
  <2>1. CASE i = j
    <3>1. Attends(w, i)'
      BY <1>1, <2>1 DEF Attends
    <3> QED
      BY <2>0, <3>1 DEF LeftInv
  <2>2. CASE i # j
    <3>1. state'[i] = state[i] /\ critSec'[i] = critSec[i]
      BY <1>1, <1>t, <2>2 DEF TypeOK, ServerType
    <3>2. critSec[i] # NoThread => pc'[critSec[i]] = pc[critSec[i]]
      BY <1>t, <1>1, Outside DEF TypeOK, ThreadType
    <3>3. /\ \A v \in Workers : Attends(v, i) => Attends(v, i)'
          /\ Unbuilt(i) => Unbuilt(i)'
      BY <1>t, <1>1 DEF Attends, Unbuilt
    <3> QED
      BY <2>0, <3>1, <3>2, <3>3, LeftFrame
  <2> QED
    BY <2>1, <2>2
<1> QED
  BY <1>2 DEF LeftOver

\* A read is refused when everything has been read.
LEMMA LeftRearm ==
    ASSUME Task6Inv, FailedIsDead, ServedInv, LeftOver, NEW w \in Workers, Rearm(w)
    PROVE  LeftOver'
<1>t. /\ w \in Threads /\ NoThread \notin Threads
      /\ UNCHANGED <<phase, next>> /\ TypeOK
      /\ wpc \in [Workers -> {"unstarted", "wait", "check", "service", "handle",
                              "rearm", "rearming", "exited"}]
  BY ServerAssumption, PipeAssumption
     DEF Rearm, mainVars, Task6Inv, Task6TypeOK
<1>1. PICK j \in Pipes :
        /\ j = result[w].pipe /\ critSec[j] = NoThread
        /\ state[j] = CONNECTED
        /\ \/ ReadRefused(w, j) /\ Goto(w, "wait")
           \/ ReadInstance(w, j) /\ Goto(w, "rearming")
  BY RearmReads
<1>2. CASE ReadRefused(w, j) /\ Goto(w, "wait")
  <2>1. /\ UNCHANGED vars /\ taken[j] = sent[j]
        /\ wpc' = [wpc EXCEPT ![w] = "wait"]
    BY <1>1, <1>2 DEF ReadRefused, ReadAllowed, Goto, CONNECTED
  <2>2. ASSUME NEW i \in Pipes PROVE LeftInv(i)'
    <3>1. CASE i = j
      BY <2>1, <3>1 DEF LeftOver, LeftInv, vars
    <3>2. CASE i # j
      <4>1. /\ \A v \in Workers : Attends(v, i) => Attends(v, i)'
            /\ Unbuilt(i) => Unbuilt(i)'
        BY <1>1, <1>t, <2>1, <3>2 DEF vars, Attends, Unbuilt
      <4> QED
        BY <2>1, <4>1, LeftFrame DEF LeftOver, vars
    <3> QED
      BY <3>1, <3>2
  <2> QED
    BY <2>2 DEF LeftOver
<1>3. CASE ReadInstance(w, j) /\ Goto(w, "rearming")
  <2>1. /\ UNCHANGED <<state, result, npfs, sent>>
        /\ critSec' = [critSec EXCEPT ![j] = w]
        /\ pc[w] = "idle" /\ pc' = [pc EXCEPT ![w] = "reading"]
        /\ \A i \in Pipes \ {j} : pending'[i] = pending[i] /\ taken'[i] = taken[i]
        /\ pending'[j] \in {pending[j], "read"}
        /\ wpc' = [wpc EXCEPT ![w] = "rearming"]
    BY <1>3, <1>t DEF ReadInstance, CanEnter, Enter, ReadFile, Goto, TypeOK, KernelType
  <2>2. ASSUME NEW i \in Pipes PROVE LeftInv(i)'
    <3>0. LeftInv(i)
      BY DEF LeftOver
    <3>2. CASE i = j
      <4>1. critSec'[j] = w /\ pc'[w] = "reading" /\ w # NoThread
        BY <1>t, <2>1 DEF TypeOK, ServerType, ThreadType
      <4>2. UnderWay(j)' # "none"
        BY <4>1 DEF UnderWay, Doing
      <4> QED
        BY <2>1, <3>0, <3>2, <4>2 DEF LeftInv
    <3>3. CASE i # j
      <4>1. state'[i] = state[i] /\ critSec'[i] = critSec[i]
        BY <1>t, <2>1, <3>3 DEF TypeOK, ServerType
      <4>2. critSec[i] # NoThread => pc'[critSec[i]] = pc[critSec[i]]
        BY <1>t, <2>1, Outside DEF TypeOK, ThreadType
      <4>3. /\ \A v \in Workers : Attends(v, i) => Attends(v, i)'
            /\ Unbuilt(i) => Unbuilt(i)'
        BY <1>t, <2>1 DEF Attends, Unbuilt
      <4> QED
        BY <2>1, <3>0, <3>3, <4>1, <4>2, <4>3, LeftFrame
    <3> QED
      BY <3>2, <3>3
  <2> QED
    BY <2>2 DEF LeftOver
<1> QED
  BY <1>1, <1>2, <1>3

LEMMA LeftEndRearm ==
    ASSUME Task6Inv, ServedInv, LeftOver, NEW w \in Workers, EndRearm(w)
    PROVE  LeftOver'
<1>t. /\ w \in Threads /\ NoThread \notin Threads /\ TypeOK
      /\ wpc \in [Workers -> {"unstarted", "wait", "check", "service", "handle",
                              "rearm", "rearming", "exited"}]
  BY ServerAssumption, PipeAssumption DEF Task6Inv, Task6TypeOK
<1>1. PICK j \in Pipes :
        /\ j = result[w].pipe /\ critSec[j] = w
        /\ UNCHANGED <<osVars, result, phase, next>>
        /\ critSec' = [critSec EXCEPT ![j] = NoThread]
        /\ pc' = [pc EXCEPT ![w] = "idle"]
        /\ state' = [state EXCEPT ![j] = {"CONNECTED"} \cup {"READING"}]
        /\ wpc' = [wpc EXCEPT ![w] = "wait"]
  BY EndRearmReads
<1>2. ASSUME NEW i \in Pipes PROVE LeftInv(i)'
  <2>0. LeftInv(i) /\ UNCHANGED <<npfs, pending, sent, taken>>
    BY <1>1 DEF LeftOver, osVars
  <2>1. CASE i = j
    <3>1. UnderWay(j)' # "none"
      BY <1>t, <1>1 DEF UnderWay, TypeOK, ServerType
    <3> QED
      BY <2>0, <2>1, <3>1 DEF LeftInv
  <2>2. CASE i # j
    <3>1. state'[i] = state[i] /\ critSec'[i] = critSec[i]
      BY <1>t, <1>1, <2>2 DEF TypeOK, ServerType
    <3>2. critSec[i] # NoThread => critSec[i] # w
      BY <1>1, <1>t, <2>2 DEF Task6Inv, Inv, LockInv
    <3>3. critSec[i] # NoThread => pc'[critSec[i]] = pc[critSec[i]]
      BY <1>t, <1>1, <3>2, Outside DEF TypeOK, ThreadType
    <3>4. /\ \A v \in Workers : Attends(v, i) => Attends(v, i)'
          /\ Unbuilt(i) => Unbuilt(i)'
      BY <1>1, <1>t, <2>2 DEF Attends, Unbuilt
    <3> QED
      BY <2>0, <3>1, <3>3, <3>4, LeftFrame
  <2> QED
    BY <2>1, <2>2
<1> QED
  BY <1>2 DEF LeftOver

LEMMA LeftInit == Task6Init => LeftOver
<1> SUFFICES ASSUME Task6Init, NEW i \in Pipes PROVE LeftInv(i)
  BY DEF LeftOver
<1> QED
  BY DEF Task6Init, Init, LeftInv

LEMMA LeftStep ==
    ASSUME Task6Inv, Unstarted, FailedIsDead, DeliverInv, ServedInv, LeftOver,
           [Task6Next]_Task6Vars
    PROVE  LeftOver'
<1>t. /\ Workers \subseteq Threads
      /\ wpc \in [Workers -> {"unstarted", "wait", "check", "service", "handle",
                              "rearm", "rearming", "exited"}]
      /\ pc \in [Threads -> {"idle", "connecting", "reading", "disconnecting", "got"}]
      /\ result \in [Threads -> Results]
  BY ServerAssumption DEF Task6Inv, Task6TypeOK, TypeOK, ThreadType
<1>1. CASE Construct
  BY <1>1, LeftConstruct
<1>2. CASE \/ CreateThreadFails \/ StopAndWait \/ PostShutdown \/ Join \/ JoinFails
           \/ Terminated \/ UNCHANGED Task6Vars
  <2>1. /\ UNCHANGED <<state, critSec, npfs, pending, sent, taken, pc, result, wpc, next>>
        /\ phase \in {"connecting", "failed"} => phase' = phase
    BY <1>2 DEF CreateThreadFails, StopAndWait, PostShutdown, PostForeign, threadVars,
                Join, JoinFails, DestroyPipeServer, Terminated, Task6Vars, mainVars, vars
  <2>2. /\ \A w \in Workers, i \in Pipes : Attends(w, i) => Attends(w, i)'
        /\ \A i \in Pipes : Unbuilt(i) => Unbuilt(i)'
    BY <2>1 DEF Attends, Unbuilt
  <2> QED
    BY <2>1, <2>2, LeftIdle
<1>3. CASE Clients
  BY <1>3, LeftClients DEF Clients, mainVars
<1>4. ASSUME NEW w \in Workers, Worker(w) PROVE LeftOver'
  <2>1. CASE Dequeue(w) \/ Check(w) \/ Handle(w)
    <3>1. /\ UNCHANGED <<state, critSec, npfs, pending, sent, taken, phase, next>>
          /\ \A t \in Threads : \/ pc'[t] = pc[t]
                                \/ pc[t] = "idle" /\ pc'[t] = "got"
      <4>1. CASE Dequeue(w)
        BY <1>t, <4>1 DEF Dequeue, GetPacket, mainVars
      <4>2. CASE Check(w) \/ Handle(w)
        BY <1>t, <4>2 DEF Check, Handle, vars, mainVars
      <4> QED
        BY <2>1, <4>1, <4>2
    <3>2. \A v \in Workers, i \in Pipes : Attends(v, i) => Attends(v, i)'
      BY <1>t, <2>1 DEF Dequeue, GetPacket, Check, Handle, Goto, vars, Attends
    <3>3. \A i \in Pipes : Unbuilt(i) => Unbuilt(i)'
      BY <3>1 DEF Unbuilt
    <3> QED
      BY <3>1, <3>2, <3>3, LeftIdle
  <2>2. CASE CallService(w)
    BY <2>2, LeftService
  <2>3. CASE Rearm(w)
    BY <2>3, LeftRearm
  <2>4. CASE EndRearm(w)
    BY <2>4, LeftEndRearm
  <2> QED
    BY <1>4, <2>1, <2>2, <2>3, <2>4 DEF Worker
<1> QED
  BY <1>1, <1>2, <1>3, <1>4 DEF Task6Next

\* A packet that a method or a client adds to the port is a pipe's.
LEMMA PipePacketsGrow ==
    ASSUME TypeOK, RunInv, ~shutdownEvent,
           \/ iocp' = iocp
           \/ \E i \in Pipes, kind \in {"connect", "read"}, err \in Errors :
                iocp' = Append(iocp, Completion(i, kind, err))
    PROVE  \A n \in DOMAIN iocp' : iocp'[n].key = "pipe"
<1>0. iocp \in Seq(Packets) /\ \A n \in DOMAIN iocp : iocp[n].key = "pipe"
  BY DEF TypeOK, PortType, RunInv
<1>1. ASSUME NEW p \in Packets, p.key = "pipe", iocp' = Append(iocp, p)
      PROVE  \A n \in DOMAIN iocp' : iocp'[n].key = "pipe"
  BY <1>0, <1>1
<1>2. \A i \in Pipes, kind \in {"connect", "read"}, err \in Errors :
        Completion(i, kind, err) \in Packets /\ Completion(i, kind, err).key = "pipe"
  BY CompletionType DEF Completion
<1> QED
  BY <1>0, <1>1, <1>2

LEMMA RunStep ==
    ASSUME Task6Inv, WakeInv, InsideInv, RunInv, [Task6Next]_Task6Vars PROVE RunInv'
<1>t. /\ Main \in Threads /\ Main \notin Workers /\ Workers \subseteq Threads
      /\ TypeOK /\ iocp \in Seq(Packets)
      /\ wpc \in [Workers -> {"unstarted", "wait", "check", "service", "handle",
                              "rearm", "rearming", "exited"}]
      /\ pc \in [Threads -> {"idle", "connecting", "reading", "disconnecting", "got"}]
      /\ packet \in [Threads -> Packets \cup {NoPacket}]
  BY ServerAssumption DEF Task6Inv, Task6TypeOK, TypeOK, ThreadType, PortType
<1>e. "ok" \in Errors /\ "broken" \in Errors
  BY DEF Errors
\* Outside the workers' loop.
<1>f. ASSUME ~shutdownEvent => /\ \/ iocp' = iocp
                                  \/ \E i \in Pipes, kind \in {"connect", "read"},
                                        err \in Errors :
                                       iocp' = Append(iocp, Completion(i, kind, err))
                               /\ \A w \in Workers : /\ wpc'[w] = "exited" => wpc[w] = "exited"
                                                     /\ pc'[w] = "got" => pc[w] = "got"
                                                     /\ packet'[w] = packet[w],
             shutdownEvent => shutdownEvent',
             phase' = "running" => phase = "running" /\ started' = started
      PROVE  RunInv'
  BY <1>t, <1>f, PipePacketsGrow DEF RunInv
<1>1. CASE BeginConnecting \/ EndConnecting
  <2>1. /\ shutdownEvent' = shutdownEvent /\ UNCHANGED <<packet, wpc>>
        /\ \A w \in Workers : pc'[w] = pc[w]
        /\ phase' # "running"
    BY <1>t, <1>1 DEF BeginConnecting, ConstructorThrows, EndConnecting, mainVars,
                      ConnectInstance, ConnectRefused, Enter, FinishConnect, Leave, vars
  <2>2. \/ iocp' = iocp
        \/ \E i \in Pipes : iocp' = Append(iocp, Completion(i, "connect", "ok"))
    BY <1>1 DEF BeginConnecting, ConnectRefused, ConnectInstance, ConnectNamedPipe, Post,
                EndConnecting, FinishConnect, osVars, vars, Task6Inv, Task6TypeOK
  <2> QED
    BY <1>e, <1>f, <2>1, <2>2
<1>2. CASE CreateWorker
  <2>1. PICK w \in Workers \ started :
          started' = started \cup {w} /\ wpc' = [wpc EXCEPT ![w] = "wait"]
    BY <1>2 DEF CreateWorker
  <2>2. /\ UNCHANGED <<iocp, pc, packet, shutdownEvent>>
        /\ phase' = "running" => started' = Workers
    BY <1>2 DEF CreateWorker, vars
  <2> QED
    BY <1>t, <2>1, <2>2 DEF RunInv
<1>3. CASE \/ CreateThreadFails \/ StopAndWait \/ Join \/ JoinFails \/ Terminated
           \/ UNCHANGED Task6Vars
  BY <1>3, <1>f DEF CreateThreadFails, StopAndWait, Join, JoinFails, DestroyPipeServer,
                    Terminated, Task6Vars, mainVars, vars
<1>4. CASE PostShutdown
  <2>1. shutdownEvent /\ shutdownEvent' = shutdownEvent /\ phase' # "running"
    BY <1>4 DEF PostShutdown, WakeInv
  <2> QED
    BY <1>f, <2>1
<1>5. CASE Clients
  <2>1. \/ iocp' = iocp
        \/ \E i \in Pipes, kind \in {"connect", "read"}, err \in Errors :
             iocp' = Append(iocp, Completion(i, kind, err))
    BY <1>5, <1>e DEF Clients, PeerOpen, PeerWrite, PeerClose, Complete, Post
  <2>2. UNCHANGED <<pc, packet, wpc, shutdownEvent, phase, started>>
    BY <1>5 DEF Clients, PeerOpen, PeerWrite, PeerClose, threadVars, mainVars
  <2> QED
    BY <1>f, <2>1, <2>2
<1>6. ASSUME NEW w \in Workers, Worker(w) PROVE RunInv'
  <2>0. UNCHANGED <<shutdownEvent, phase, started>>
    BY <1>6 DEF Worker, Dequeue, Check, CallService, Handle, Rearm, EndRearm, mainVars
  <2>1. CASE Dequeue(w)
    <3>1. /\ iocp # << >> /\ iocp' = Tail(iocp)
          /\ packet' = [packet EXCEPT ![w] = Head(iocp)]
          /\ wpc' = [wpc EXCEPT ![w] = "check"]
      BY <2>1 DEF Dequeue, GetPacket, Goto
    <3>2. \A v \in Workers \ {w} : pc'[v] = pc[v]
      BY <1>t, <2>1 DEF Dequeue, GetPacket
    <3>3. /\ Head(iocp) = iocp[1] /\ 1 \in DOMAIN iocp
          /\ \A n \in DOMAIN iocp' : n + 1 \in DOMAIN iocp /\ iocp'[n] = iocp[n + 1]
      BY <1>t, <3>1
    <3> QED
      BY <1>t, <2>0, <3>1, <3>2, <3>3 DEF RunInv
  <2>2. CASE Check(w)
    <3>1. Inside(w)
      BY DEF InsideInv
    <3>2. ~shutdownEvent => wpc' = [wpc EXCEPT ![w] = "service"]
      BY <1>t, <2>2, <3>1 DEF Check, Goto, RunInv, Inside
    <3> QED
      BY <1>t, <1>f, <2>0, <2>2, <3>2 DEF Check, vars
  <2>3. CASE CallService(w)
    <3>1. AfterService(w) \in {"wait", "handle", "rearm"}
      BY DEF AfterService
    <3>2. /\ pc' = [pc EXCEPT ![w] = "idle"] /\ packet' = [packet EXCEPT ![w] = NoPacket]
          /\ wpc' = [wpc EXCEPT ![w] = AfterService(w)]
      BY <2>3 DEF CallService, Service, Goto
    <3>3. iocp' = iocp
      <4>1. Service(w) /\ w \in Threads /\ Inv
        BY <1>t, <2>3 DEF CallService, Task6Inv
      <4>2. packet[w].pipe \in Pipes /\ pending[packet[w].pipe] = "none"
        BY <1>t, <4>1, ServiceOutcomes
      <4> QED
        BY <4>1, <4>2 DEF Service, ServiceCases, Serviced, ServiceThrows,
                          DisconnectNamedPipe, Complete, osVars
    <3> QED
      BY <1>t, <2>0, <3>1, <3>2, <3>3 DEF RunInv
  <2>4. CASE Handle(w)
    BY <1>t, <1>f, <2>0, <2>4 DEF Handle, Goto, vars
  <2>5. CASE Rearm(w)
    <3>0. result[w].pipe \in Pipes
      BY <2>5 DEF Rearm, Task6Inv, Attendance, AttendedAlone
    <3>1. \/ iocp' = iocp
          \/ \E i \in Pipes, kind \in {"connect", "read"}, err \in Errors :
               iocp' = Append(iocp, Completion(i, kind, err))
      BY <1>e, <2>5, <3>0 DEF Rearm, Begins, Refuses, ConnectInstance, ConnectNamedPipe,
                              ConnectRefused, ReadInstance, ReadFile, ReadRefused, Post, vars
    <3>2. /\ packet' = packet
          /\ \A v \in Workers : pc'[v] = "got" => pc[v] = "got"
          /\ \A v \in Workers : wpc'[v] = "exited" => wpc[v] = "exited"
      BY <1>t, <2>5 DEF Rearm, Begins, Refuses, ConnectInstance, ConnectRefused,
                        ReadInstance, ReadRefused, Enter, Goto, vars
    <3> QED
      BY <1>f, <2>0, <3>1, <3>2
  <2>6. CASE EndRearm(w)
    <3>1. /\ iocp' = iocp /\ packet' = packet
          /\ pc' = [pc EXCEPT ![w] = "idle"] /\ wpc' = [wpc EXCEPT ![w] = "wait"]
      BY <2>6 DEF EndRearm, FinishConnect, FinishRead, Leave, Goto, osVars
    <3> QED
      BY <1>t, <1>f, <2>0, <3>1
  <2> QED
    BY <1>6, <2>1, <2>2, <2>3, <2>4, <2>5, <2>6 DEF Worker
<1> QED
  BY <1>1, <1>2, <1>3, <1>4, <1>5, <1>6 DEF Task6Next, Construct

LEMMA RunInit == Task6Init => RunInv
  BY ServerAssumption DEF Task6Init, Init, RunInv

(* While the server runs, a message that a client has written and nobody   *)
(* has handled is at work: its packet is in the port or in the hands of a  *)
(* worker, or a worker has its instance and reads it next; and then some   *)
(* worker can go on, so they are not all asleep or locked out.  The only   *)
(* exception is the client that came too early.  With the fairness of the  *)
(* workers this is what keeps MessageHandled.                              *)
THEOREM MessageIsNeverStuck == Task6Spec => []MessageGoesOn
<1> DEFINE All == /\ Task6Inv /\ Unstarted /\ FailedIsDead /\ DeliverInv /\ ServedInv
                  /\ WakeInv /\ InsideInv /\ LiveInv /\ LeftOver /\ RunInv
<1>1. ASSUME All, phase = "running", NEW i \in Pipes, Len(handled[i]) < sent[i]
      PROVE  ConnectedUnseen(i) \/ (AtWork(i) /\ \E w \in Workers : CanGo(w))
  <2>t. /\ sent[i] \in Nat /\ taken[i] \in Nat /\ handled[i] \in Seq(Nat)
        /\ Threads = Workers \cup {Main} /\ TypeOK /\ iocp \in Seq(Packets)
        /\ started = Workers /\ Workers # {} /\ ~shutdownEvent
    BY <1>1, ServerAssumption
       DEF Task6Inv, Task6TypeOK, TypeOK, KernelType, PortType, RunInv, WakeInv
  <2>0. OrderInv(i) /\ ServeInv(i) /\ LeftInv(i) /\ PipeInv(i) /\ ~Unbuilt(i)
    BY <1>1 DEF DeliverInv, ServedInv, LeftOver, Task6Inv, Inv, Unbuilt
  <2>1. CASE AtWork(i)
    <3>1. pipeServer = "live"
      BY <1>1 DEF LiveInv, Task6Inv, Task6TypeOK
    <3>2. \A w \in Workers : wpc[w] # "exited"
      BY <1>1, <2>t DEF RunInv
    <3>3. CASE Queued(i) # {}
      <4>1. iocp # << >>
        BY <2>t, <3>3 DEF Queued
      <4>2. PICK w \in Workers : TRUE
        BY <2>t
      <4> QED
        BY <1>1, <2>t, <2>1, <3>1, <3>2, <4>1, <4>2, WorkerGoesOn
    <3>4. CASE \/ Holding(i) # {}
               \/ \E w \in Workers : Attends(w, i)
      <4>1. PICK w \in Workers : pc[w] = "got" \/ Attends(w, i)
        BY <1>1, <2>t, <3>4 DEF Holding, ServedInv, ConnectsAlone
      <4>2. wpc[w] # "wait"
        BY <1>1, <4>1 DEF InsideInv, Inside, Attends
      <4> QED
        BY <1>1, <2>t, <2>1, <3>1, <3>2, <4>1, <4>2, WorkerGoesOn
    <3> QED
      BY <2>1, <3>3, <3>4 DEF AtWork
  <2>2. CASE Ready(i)
    <3>1. AtWork(i)
      BY <2>2 DEF Ready, ReadyInPort, ReadyInHand, ReadyToHandle, AtWork, Queued,
                  Holding, Attends
    <3> QED
      BY <2>1, <3>1
  <2>3. CASE ~Ready(i)
    <3>1. taken[i] < sent[i]
      BY <1>1, <2>t, <2>0, <2>3 DEF OrderInv
    <3>2. pending[i] # "read" /\ npfs[i] # "listening" /\ pending[i] # "connect"
      <4>1. pending[i] = "read" => taken[i] = sent[i]
        BY <2>0 DEF OrderInv
      <4>2. /\ npfs[i] = "listening" => sent[i] = 0
            /\ pending[i] = "connect" => npfs[i] = "listening"
        BY <2>0 DEF LeftInv
      <4> QED
        BY <2>t, <3>1, <4>1, <4>2
    <3>3. pending[i] = "none"
      BY <2>t, <3>2 DEF TypeOK, KernelType
    <3>4. CASE UnderWay(i) = "none"
      BY <2>t, <2>0, <2>1, <3>1, <3>4 DEF ServeInv, LeftInv, AtWork
    <3>5. CASE UnderWay(i) = "read"
      BY <2>0, <2>1, <3>3, <3>5 DEF PipeInv, OperationFits, Outstanding, AtWork
    <3>6. CASE UnderWay(i) = "connect"
      <4>1. CASE Outstanding(i)
        BY <2>1, <3>3, <4>1 DEF Outstanding, AtWork
      <4>2. CASE ~Outstanding(i)
        <5>1. ~Doing(i, "connecting")
          <6>1. \A t \in Threads : pc[t] # "connecting"
            BY <1>1, <2>t DEF ServedInv, ConnectsAlone
          <6> QED
            BY <1>1, <6>1, Outside DEF Doing
        <5>2. "CONNECTING" \in state[i] /\ "DISCONNECTING" \notin state[i]
          BY <2>0, <3>6, <5>1 DEF UnderWay, OrderInv
        <5>3. state[i] = UnconnectedConnecting
          BY <2>0, <5>2 DEF PipeInv, StateInv, UNCONNECTED, CONNECTED, ConnectedReading,
                            DisconnectingConnecting, DisconnectingReading
        <5> QED
          BY <3>2, <4>2, <5>3 DEF ConnectedUnseen
      <4> QED
        BY <4>1, <4>2
    <3> QED
      BY <3>4, <3>5, <3>6 DEF UnderWay
  <2> QED
    BY <2>2, <2>3
<1>2. All => MessageGoesOn
  BY <1>1 DEF MessageGoesOn
<1>3. Task6Init => Unstarted /\ FailedIsDead /\ LiveInv
  BY DEF Task6Init, Unstarted, FailedIsDead, LiveInv
<1>4. Task6Inv /\ WakeInv /\ [Task6Next]_Task6Vars => WakeInv'
  BY WakeStep
<1>5. Task6Inv /\ Unstarted /\ InsideInv /\ [Task6Next]_Task6Vars => InsideInv'
  BY InsideStep
<1>6. Task6Inv /\ LiveInv /\ [Task6Next]_Task6Vars => LiveInv'
  BY LiveStep
<1>7. /\ Task6Inv /\ Unstarted /\ FailedIsDead /\ DeliverInv /\ ServedInv /\ LeftOver
      /\ [Task6Next]_Task6Vars
      => LeftOver'
  BY LeftStep
<1>8. Task6Inv /\ WakeInv /\ InsideInv /\ RunInv /\ [Task6Next]_Task6Vars => RunInv'
  BY RunStep
<1> QED
  BY <1>2, <1>3, <1>4, <1>5, <1>6, <1>7, <1>8, UnstartedStep, FailedStep, DeliverInit,
     DeliverStep, ServedInit, ServedStep, WakeInit, InsideInit, LeftInit, RunInit,
     Task6Invariance, PTL
     DEF Task6Spec
=============================================================================
