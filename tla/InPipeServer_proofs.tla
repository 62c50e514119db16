------------------------ MODULE InPipeServer_proofs ------------------------
(***************************************************************************)
(* Proofs about InPipeServer, for any sets of instances and threads.       *)
(***************************************************************************)
EXTENDS InPipeServer, SequenceTheorems, TLAPS

\* What the methods make of the flags.
USE DEF Connecting, Reading, Becomes

-----------------------------------------------------------------------------
(* The queue of the port.                                                  *)

(* An appended packet is last, and the others keep their places.           *)
LEMMA AppendEntries ==
    ASSUME NEW S, NEW q \in Seq(S), NEW p \in S, NEW q2, q2 = Append(q, p)
    PROVE  /\ q2 \in Seq(S)
           /\ Len(q2) = Len(q) + 1
           /\ DOMAIN q2 = 1 .. Len(q) + 1
           /\ DOMAIN q = 1 .. Len(q)
           /\ \A n \in DOMAIN q : q2[n] = q[n]
           /\ q2[Len(q) + 1] = p
  OBVIOUS

(* Without its head, the queue's packets move up one place.                *)
LEMMA TailEntries ==
    ASSUME NEW S, NEW q \in Seq(S), q # << >>, NEW q2, q2 = Tail(q)
    PROVE  /\ q2 \in Seq(S)
           /\ Head(q) \in S
           /\ 1 \in DOMAIN q
           /\ Head(q) = q[1]
           /\ DOMAIN q = 1 .. Len(q)
           /\ \A n \in DOMAIN q2 : n + 1 \in DOMAIN q /\ n + 1 # 1 /\ q2[n] = q[n + 1]
           /\ \A n \in DOMAIN q : n # 1 => n - 1 \in DOMAIN q2 /\ q2[n - 1] = q[n]
  OBVIOUS

-----------------------------------------------------------------------------
(* Type correctness: every variable keeps its shape, whatever the sets of  *)
(* instances, threads and completion keys are.                             *)
LEMMA CompletionType ==
    ASSUME TypeOK, NEW i \in Pipes, NEW kind \in {"connect", "read"},
           NEW err \in Errors
    PROVE  Completion(i, kind, err) \in Packets
  BY DEF Completion, Packets, PipePackets, TypeOK, ServerType

LEMMA ForeignType ==
    /\ \A k \in ForeignKeys : Foreign(k) \in Packets
    /\ NoResult \in Results
  BY DEF Packets, Errors, NoResult, Results, UNCONNECTED

LEMMA ServiceType ==
    ASSUME TypeOK, NEW t \in Threads, Service(t)
    PROVE  packet[t] \in PipePackets /\ packet[t].pipe \in Pipes
  BY PipeAssumption
     DEF Service, TypeOK, ThreadType, Packets, PipePackets, Foreign

LEMMA TypeInit == Init => TypeOK
  BY ForeignType DEF Init, TypeOK, ServerType, KernelType, PortType, ThreadType, UNCONNECTED

LEMMA ServerTypeStep == TypeOK /\ [Next]_vars => ServerType'
<1> SUFFICES ASSUME TypeOK, [Next]_vars PROVE ServerType'
  OBVIOUS
<1> USE DEF TypeOK, ServerType
<1>1. ASSUME NEW t \in Threads, NEW i \in Pipes,
             \/ ConnectInstance(t, i) \/ ReadInstance(t, i)
             \/ DisconnectInstance(t, i)
      PROVE  ServerType'
  BY <1>1 DEF ConnectInstance, ReadInstance, DisconnectInstance, Enter
<1>2. ASSUME NEW t \in Threads, NEW i \in Pipes, FinishConnect(t, i)
      PROVE  ServerType'
  BY <1>2 DEF FinishConnect, Leave, UnconnectedConnecting, Flags, OperationFlags
<1>3. ASSUME NEW t \in Threads, NEW i \in Pipes, FinishRead(t, i)
      PROVE  ServerType'
  BY <1>3 DEF FinishRead, Leave, Flags, OperationFlags
<1>4. ASSUME NEW t \in Threads, NEW i \in Pipes, FinishDisconnect(t, i)
      PROVE  ServerType'
  <2>1. Disconnected(state[i]) \in SUBSET Flags
    BY DEF Disconnected, UNCONNECTED, Flags, OperationFlags
  <2> QED
    BY <1>4, <2>1 DEF FinishDisconnect, Leave
<1>5. ASSUME NEW t \in Threads, Service(t)
      PROVE  ServerType'
  <2>1. CONNECTED \in SUBSET Flags /\ UNCONNECTED \in SUBSET Flags
    BY DEF CONNECTED, UNCONNECTED, Flags
  <2>2. \E new \in SUBSET Flags :
          state' = [state EXCEPT ![packet[t].pipe] = new] \/ state' = state
    BY <1>5, <2>1 DEF Service, ServiceCases, Serviced, ServiceThrows
  <2> QED
    BY <1>5, <2>2 DEF Service
<1>6. ASSUME NEW t \in Threads, GetPacket(t) \/ Discard(t)
      PROVE  ServerType'
  BY <1>6 DEF GetPacket, Discard
<1>7. ASSUME NEW i \in Pipes, PeerOpen(i) \/ PeerWrite(i) \/ PeerClose(i)
      PROVE  ServerType'
  BY <1>7 DEF PeerOpen, PeerWrite, PeerClose
<1>8. ASSUME NEW k \in ForeignKeys, PostForeign(k)
      PROVE  ServerType'
  BY <1>8 DEF PostForeign
<1>9. CASE UNCHANGED vars
  BY <1>9 DEF vars
<1> QED
  BY <1>1, <1>2, <1>3, <1>4, <1>5, <1>6, <1>7, <1>8, <1>9
     DEF Next, Calls, Environment

LEMMA KernelTypeStep == TypeOK /\ [Next]_vars => KernelType'
<1> SUFFICES ASSUME TypeOK, [Next]_vars PROVE KernelType'
  OBVIOUS
<1> USE DEF TypeOK, KernelType
<1>1. ASSUME NEW t \in Threads, NEW i \in Pipes, ConnectInstance(t, i)
      PROVE  KernelType'
  BY <1>1 DEF ConnectInstance, ConnectNamedPipe
<1>2. ASSUME NEW t \in Threads, NEW i \in Pipes, ReadInstance(t, i)
      PROVE  KernelType'
  BY <1>2 DEF ReadInstance, ReadFile
<1>d. ASSUME NEW i, DisconnectNamedPipe(i)
      PROVE  KernelType'
  BY <1>d DEF DisconnectNamedPipe, Complete
<1>3. ASSUME NEW t \in Threads, NEW i \in Pipes, DisconnectInstance(t, i)
      PROVE  KernelType'
  BY <1>3, <1>d DEF DisconnectInstance, CancelIoEx, Complete
<1>4. ASSUME NEW t \in Threads, NEW i \in Pipes,
             FinishConnect(t, i) \/ FinishRead(t, i) \/ FinishDisconnect(t, i)
      PROVE  KernelType'
  BY <1>4 DEF FinishConnect, FinishRead, FinishDisconnect, osVars
<1>5. ASSUME NEW t \in Threads, Service(t)
      PROVE  KernelType'
  BY <1>5, <1>d DEF Service, ServiceCases, Serviced, ServiceThrows, osVars
<1>6. ASSUME NEW t \in Threads, GetPacket(t) \/ Discard(t)
      PROVE  KernelType'
  BY <1>6 DEF GetPacket, Discard, osVars
<1>7. ASSUME NEW i \in Pipes, PeerOpen(i) \/ PeerClose(i)
      PROVE  KernelType'
  BY <1>7 DEF PeerOpen, PeerClose, Complete
<1>8. ASSUME NEW i \in Pipes, PeerWrite(i)
      PROVE  KernelType'
  BY <1>8 DEF PeerWrite, Complete
<1>9. ASSUME NEW k \in ForeignKeys, PostForeign(k)
      PROVE  KernelType'
  BY <1>9 DEF PostForeign
<1>10. CASE UNCHANGED vars
  BY <1>10 DEF vars
<1> QED
  BY <1>1, <1>2, <1>3, <1>4, <1>5, <1>6, <1>7, <1>8, <1>9, <1>10
     DEF Next, Calls, Environment

(* Whatever a step posts is a packet.                                      *)
LEMMA PortTypeStep == TypeOK /\ [Next]_vars => PortType'
<1> SUFFICES ASSUME TypeOK, [Next]_vars PROVE PortType'
  OBVIOUS
<1> USE DEF PortType
<1>p. \A p \in Packets : Post(p) => PortType'
  BY AppendEntries DEF TypeOK, Post
<1>c. ASSUME NEW i \in Pipes, NEW kind \in {"connect", "read"},
             NEW err \in {"ok", "aborted", "broken", "disconnected"},
             Post(Completion(i, kind, err))
      PROVE  PortType'
  BY <1>c, <1>p, CompletionType DEF Errors
<1>u. iocp' = iocp => PortType'
  BY DEF TypeOK
<1>1. ASSUME NEW t \in Threads, NEW i \in Pipes, ConnectInstance(t, i)
      PROVE  PortType'
  BY <1>1, <1>c, <1>u DEF ConnectInstance, ConnectNamedPipe
<1>2. ASSUME NEW t \in Threads, NEW i \in Pipes, ReadInstance(t, i)
      PROVE  PortType'
  BY <1>2, <1>c, <1>u DEF ReadInstance, ReadFile
<1>d. ASSUME NEW i \in Pipes, DisconnectNamedPipe(i)
      PROVE  PortType'
  BY <1>d, <1>c, <1>u DEF DisconnectNamedPipe, Complete
<1>3. ASSUME NEW t \in Threads, NEW i \in Pipes, DisconnectInstance(t, i)
      PROVE  PortType'
  BY <1>3, <1>d, <1>c DEF DisconnectInstance, CancelIoEx, Complete
<1>4. ASSUME NEW t \in Threads, NEW i \in Pipes,
             FinishConnect(t, i) \/ FinishRead(t, i) \/ FinishDisconnect(t, i)
      PROVE  PortType'
  BY <1>4, <1>u DEF FinishConnect, FinishRead, FinishDisconnect, osVars
<1>5. ASSUME NEW t \in Threads, Service(t)
      PROVE  PortType'
  BY <1>5, ServiceType, <1>d, <1>u
     DEF Service, ServiceCases, Serviced, ServiceThrows, osVars
<1>6. ASSUME NEW t \in Threads, GetPacket(t)
      PROVE  PortType'
  BY <1>6, TailEntries DEF GetPacket, TypeOK
<1>7. ASSUME NEW t \in Threads, Discard(t)
      PROVE  PortType'
  BY <1>7, <1>u DEF Discard, osVars
<1>8. ASSUME NEW i \in Pipes, PeerOpen(i) \/ PeerWrite(i) \/ PeerClose(i)
      PROVE  PortType'
  BY <1>8, <1>c, <1>u DEF PeerOpen, PeerWrite, PeerClose, Complete
<1>9. ASSUME NEW k \in ForeignKeys, PostForeign(k)
      PROVE  PortType'
  BY <1>9, <1>p, ForeignType DEF PostForeign
<1>10. CASE UNCHANGED vars
  BY <1>10, <1>u DEF vars
<1> QED
  BY <1>1, <1>2, <1>3, <1>4, <1>5, <1>6, <1>7, <1>8, <1>9, <1>10
     DEF Next, Calls, Environment

LEMMA ThreadTypeStep == TypeOK /\ [Next]_vars => ThreadType'
<1> SUFFICES ASSUME TypeOK, [Next]_vars PROVE ThreadType'
  OBVIOUS
<1> USE DEF TypeOK, ThreadType
<1>1. ASSUME NEW t \in Threads, NEW i \in Pipes,
             \/ ConnectInstance(t, i) \/ ReadInstance(t, i)
             \/ DisconnectInstance(t, i)
      PROVE  ThreadType'
  BY <1>1 DEF ConnectInstance, ReadInstance, DisconnectInstance, Enter
<1>2. ASSUME NEW t \in Threads, NEW i \in Pipes,
             FinishConnect(t, i) \/ FinishRead(t, i) \/ FinishDisconnect(t, i)
      PROVE  ThreadType'
  BY <1>2 DEF FinishConnect, FinishRead, FinishDisconnect, Leave
<1>3. ASSUME NEW t \in Threads, Service(t)
      PROVE  ThreadType'
  <2>1. \A i, new, op, zombie :
          /\ new \in {CONNECTED, UNCONNECTED} /\ op \in {"connect", "read"}
          /\ zombie \in BOOLEAN /\ i = packet[t].pipe
          => [pipe |-> i, operation |-> op, err |-> packet[t].err,
              newState |-> new, zombie |-> zombie] \in Results
    BY <1>3, ServiceType DEF PipePackets, Results, CONNECTED, UNCONNECTED, Flags
  <2>2. \/ \E r \in Results : result' = [result EXCEPT ![t] = r]
        \/ result' = result
    BY <1>3, <2>1 DEF Service, ServiceCases, Serviced, ServiceThrows
  <2> QED
    BY <1>3, <2>2, ForeignType DEF Service
<1>4. ASSUME NEW t \in Threads, GetPacket(t)
      PROVE  ThreadType'
  BY <1>4, TailEntries, ForeignType DEF GetPacket, PortType
<1>5. ASSUME NEW t \in Threads, Discard(t)
      PROVE  ThreadType'
  BY <1>5, ForeignType DEF Discard
<1>6. ASSUME NEW i \in Pipes, PeerOpen(i) \/ PeerWrite(i) \/ PeerClose(i)
      PROVE  ThreadType'
  BY <1>6 DEF PeerOpen, PeerWrite, PeerClose, threadVars
<1>7. ASSUME NEW k \in ForeignKeys, PostForeign(k)
      PROVE  ThreadType'
  BY <1>7 DEF PostForeign, threadVars
<1>8. CASE UNCHANGED vars
  BY <1>8 DEF vars
<1> QED
  BY <1>1, <1>2, <1>3, <1>4, <1>5, <1>6, <1>7, <1>8 DEF Next, Calls, Environment

LEMMA TypeStep == TypeOK /\ [Next]_vars => TypeOK'
  BY ServerTypeStep, KernelTypeStep, PortTypeStep, ThreadTypeStep DEF TypeOK

(* Type correctness of the pipe server.                                    *)
THEOREM TypeCorrect == Spec => []TypeOK
  BY TypeInit, TypeStep, PTL DEF Spec

-----------------------------------------------------------------------------
(* The operations of an instance: how the steps move them.                 *)

(* The packets of an instance are the pipe's, never a foreign one.         *)
LEMMA OperationPackets ==
    ASSUME TypeOK, NEW i \in Pipes
    PROVE  /\ \A n \in Queued(i) : iocp[n] \in PipePackets
           /\ \A t \in Holding(i) : packet[t] \in PipePackets
<1>1. \A p \in Packets : p.pipe = i => p \in PipePackets
  BY PipeAssumption DEF Packets, Foreign
<1>2. \A n \in DOMAIN iocp : iocp[n] \in Packets
  BY DEF TypeOK, PortType
<1> QED
  BY <1>1, <1>2 DEF Queued, Holding, TypeOK, ThreadType

(* An instance with no operation under way has none outstanding.           *)
LEMMA NoneOutstanding ==
    ASSUME TypeOK, NEW i \in Pipes, PipeInv(i), UnderWay(i) = "none"
    PROVE  pending[i] = "none" /\ Queued(i) = {} /\ Holding(i) = {}
<1>1. \A p \in PipePackets : p.kind # "none"
  BY DEF PipePackets
<1> QED
  BY <1>1, OperationPackets DEF PipeInv, OperationFits, Fits

(* A posted packet joins the operations of its own instance only.          *)
LEMMA PostedPacket ==
    ASSUME TypeOK, NEW p \in Packets, Post(p), NEW j \in Pipes
    PROVE  /\ p.pipe # j => Queued(j)' = Queued(j)
           /\ p.pipe = j => Queued(j)' = Queued(j) \cup {Len(iocp) + 1}
           /\ \A n \in Queued(j) : iocp'[n] = iocp[n]
           /\ iocp'[Len(iocp) + 1] = p
<1>1. /\ DOMAIN iocp' = 1 .. Len(iocp) + 1
      /\ DOMAIN iocp = 1 .. Len(iocp)
      /\ \A n \in DOMAIN iocp : iocp'[n] = iocp[n]
      /\ iocp'[Len(iocp) + 1] = p
      /\ Len(iocp) \in Nat
  BY AppendEntries DEF TypeOK, PortType, Post
<1> QED
  BY <1>1 DEF Queued

(* An instance that a step leaves alone keeps its invariant.               *)
LEMMA Frame ==
    ASSUME NEW j \in Pipes, PipeInv(j),
           state'[j] = state[j], session'[j] = session[j],
           pending'[j] = pending[j], critSec'[j] = critSec[j],
           critSec[j] # NoThread => pc'[critSec[j]] = pc[critSec[j]],
           Queued(j)' = Queued(j), \A n \in Queued(j) : iocp'[n] = iocp[n],
           Holding(j)' = Holding(j), \A t \in Holding(j) : packet'[t] = packet[t]
    PROVE  PipeInv(j)'
<1>1. \A label : Doing(j, label)' <=> Doing(j, label)
  BY DEF Doing
<1>2. UnderWay(j)' = UnderWay(j)
  BY <1>1 DEF UnderWay
<1>3. StateInv(j)'
  BY <1>1 DEF PipeInv, StateInv
<1>4. OneOperation(j)'
  BY DEF PipeInv, OneOperation
<1>5. OperationFits(j)'
  BY <1>2 DEF PipeInv, OperationFits, Fits, Outstanding
<1> QED
  BY <1>3, <1>4, <1>5 DEF PipeInv

(* Entering a method keeps the locks well owned, and changes neither the   *)
(* packets that are held nor who is inside the other instances.            *)
LEMMA EnterMethod ==
    ASSUME TypeOK, LockInv, NEW t \in Threads, NEW i \in Pipes,
           NEW label \in {"connecting", "reading", "disconnecting"},
           CanEnter(t, i), Enter(t, i, label)
    PROVE  /\ LockInv'
           /\ \A j \in Pipes : Holding(j)' = Holding(j)
           /\ \A j \in Pipes : j # i =>
                /\ critSec'[j] = critSec[j]
                /\ critSec[j] # NoThread => pc'[critSec[j]] = pc[critSec[j]]
           /\ \A l : Doing(i, l)' <=> l = label
           /\ UNCHANGED <<packet, state, session>>
<1> USE PipeAssumption DEF TypeOK, ServerType, ThreadType, CanEnter, Enter
<1>1. \A j \in Pipes : critSec[j] # t
  BY DEF LockInv
<1>2. \A j \in Pipes : j # i =>
        /\ critSec'[j] = critSec[j]
        /\ critSec[j] # NoThread => pc'[critSec[j]] = pc[critSec[j]]
  BY <1>1
<1>3. critSec'[i] = t /\ pc'[t] = label /\ t # NoThread
  OBVIOUS
<1>4. LockInv'
  BY <1>1, <1>2, <1>3 DEF LockInv
<1>5. \A j \in Pipes : Holding(j)' = Holding(j)
  BY DEF Holding
<1> QED
  BY <1>2, <1>3, <1>4, <1>5 DEF Doing

(* So does leaving it, and then nobody is inside.                          *)
LEMMA LeaveMethod ==
    ASSUME TypeOK, LockInv, NEW t \in Threads, NEW i \in Pipes,
           NEW label \in {"connecting", "reading", "disconnecting"},
           Leave(t, i, label)
    PROVE  /\ LockInv'
           /\ \A j \in Pipes : Holding(j)' = Holding(j)
           /\ \A j \in Pipes : j # i =>
                /\ critSec'[j] = critSec[j]
                /\ critSec[j] # NoThread => pc'[critSec[j]] = pc[critSec[j]]
           /\ Doing(i, label)
           /\ \A l : ~Doing(i, l)'
           /\ packet' = packet
<1> USE PipeAssumption DEF TypeOK, ServerType, ThreadType, Leave
<1>1. \A j \in Pipes : j # i => critSec[j] # t
  BY DEF LockInv
<1>2. \A j \in Pipes : j # i =>
        /\ critSec'[j] = critSec[j]
        /\ critSec[j] # NoThread => pc'[critSec[j]] = pc[critSec[j]]
  BY <1>1
<1>3. critSec'[i] = NoThread /\ t # NoThread
  OBVIOUS
<1>4. LockInv'
  BY <1>1, <1>2, <1>3 DEF LockInv
<1>5. \A j \in Pipes : Holding(j)' = Holding(j)
  BY DEF Holding
<1> QED
  BY <1>2, <1>3, <1>4, <1>5 DEF Doing

-----------------------------------------------------------------------------
(* Every step keeps the invariant.                                         *)
LEMMA InvInit == Init => Inv
<1> SUFFICES ASSUME Init PROVE Inv
  OBVIOUS
<1>1. \A i \in Pipes : Queued(i) = {} /\ Holding(i) = {}
  <2>1. iocp = << >> /\ DOMAIN << >> = {}
    BY DEF Init
  <2>2. \A t \in Threads : pc[t] # "got"
    BY DEF Init
  <2> QED
    BY <2>1, <2>2 DEF Queued, Holding
<1>2. \A i \in Pipes : UnderWay(i) = "none" /\ \A l : ~Doing(i, l)
  BY DEF Init, UnderWay, Doing, UNCONNECTED
<1>3. LockInv
  BY DEF Init, LockInv
<1>4. ASSUME NEW i \in Pipes
      PROVE  PipeInv(i)
  <2>1. state[i] = UNCONNECTED /\ pending[i] = "none"
    BY DEF Init
  <2>2. StateInv(i)
    BY <1>2, <2>1 DEF StateInv, UNCONNECTED
  <2> QED
    BY <1>1, <1>2, <2>1, <2>2 DEF PipeInv, OneOperation, OperationFits
<1> QED
  BY <1>3, <1>4 DEF Inv

LEMMA ConnectKeepsInv ==
    ASSUME TypeOK, Inv, NEW t \in Threads, NEW i \in Pipes, ConnectInstance(t, i)
    PROVE  Inv'
<1>1. /\ CanEnter(t, i) /\ Enter(t, i, "connecting") /\ ConnectNamedPipe(i)
      /\ state[i] = UNCONNECTED
  BY DEF ConnectInstance, ConnectAllowed
<1>2. /\ LockInv'
      /\ \A j \in Pipes : Holding(j)' = Holding(j)
      /\ \A j \in Pipes : j # i =>
           /\ critSec'[j] = critSec[j]
           /\ critSec[j] # NoThread => pc'[critSec[j]] = pc[critSec[j]]
      /\ \A l : Doing(i, l)' <=> l = "connecting"
      /\ UNCHANGED <<packet, state, session>>
  BY <1>1, EnterMethod DEF Inv
<1>3. UnderWay(i) = "none" /\ UnderWay(i)' = "connect"
  BY <1>1, <1>2 DEF UnderWay, UNCONNECTED, CanEnter, Doing
<1>4. pending[i] = "none" /\ Queued(i) = {} /\ Holding(i) = {}
  BY <1>3, NoneOutstanding DEF Inv
<1>5. Completion(i, "connect", "ok") \in Packets
  BY CompletionType DEF Errors
<1>6. ASSUME NEW j \in Pipes, j # i
      PROVE  PipeInv(j)'
  <2>1. pending'[j] = pending[j]
    BY <1>1, <1>6 DEF ConnectNamedPipe, TypeOK, KernelType
  <2>2. Queued(j)' = Queued(j) /\ \A n \in Queued(j) : iocp'[n] = iocp[n]
    BY <1>1, <1>5, <1>6, PostedPacket DEF ConnectNamedPipe, Completion, Queued
  <2> QED
    BY <1>2, <1>6, <2>1, <2>2, Frame DEF Inv
<1>7. PipeInv(i)'
  <2>1. \/ pending'[i] = "connect" /\ Queued(i)' = {}
        \/ /\ pending'[i] = "none" /\ Queued(i)' = {Len(iocp) + 1}
           /\ iocp'[Len(iocp) + 1] = Completion(i, "connect", "ok")
        \/ pending'[i] = "none" /\ Queued(i)' = {}
    BY <1>1, <1>4, <1>5, PostedPacket
       DEF ConnectNamedPipe, Completion, Queued, TypeOK, KernelType
  <2>2. StateInv(i)'
    BY <1>1, <1>2 DEF StateInv, UNCONNECTED
  <2>3. OneOperation(i)'
    BY <1>2, <1>4, <2>1 DEF OneOperation
  <2>4. OperationFits(i)'
    BY <1>1, <1>2, <1>3, <1>4, <2>1
       DEF OperationFits, Fits, Completion, UNCONNECTED
  <2> QED
    BY <2>2, <2>3, <2>4 DEF PipeInv
<1> QED
  BY <1>2, <1>6, <1>7 DEF Inv

LEMMA ReadKeepsInv ==
    ASSUME TypeOK, Inv, NEW t \in Threads, NEW i \in Pipes, ReadInstance(t, i)
    PROVE  Inv'
<1>1. /\ CanEnter(t, i) /\ Enter(t, i, "reading") /\ ReadFile(i)
      /\ "CONNECTED" \in state[i] /\ "READING" \notin state[i]
      /\ critSec[i] = NoThread
  BY DEF ReadInstance, ReadAllowed, CanEnter
<1>2. /\ LockInv'
      /\ \A j \in Pipes : Holding(j)' = Holding(j)
      /\ \A j \in Pipes : j # i =>
           /\ critSec'[j] = critSec[j]
           /\ critSec[j] # NoThread => pc'[critSec[j]] = pc[critSec[j]]
      /\ \A l : Doing(i, l)' <=> l = "reading"
      /\ UNCHANGED <<packet, state, session>>
  BY <1>1, EnterMethod DEF Inv
<1>s. state[i] = CONNECTED
  BY <1>1 DEF Inv, PipeInv, StateInv, UNCONNECTED, CONNECTED, ConnectedReading,
              UnconnectedConnecting, DisconnectingConnecting, DisconnectingReading
<1>3. UnderWay(i) = "none" /\ UnderWay(i)' = "read"
  BY <1>1, <1>2, <1>s DEF UnderWay, CONNECTED, Doing
<1>4. pending[i] = "none" /\ Queued(i) = {} /\ Holding(i) = {}
  BY <1>3, NoneOutstanding DEF Inv
<1>5. Completion(i, "read", "ok") \in Packets
  BY CompletionType DEF Errors
<1>6. ASSUME NEW j \in Pipes, j # i
      PROVE  PipeInv(j)'
  <2>1. pending'[j] = pending[j]
    BY <1>1, <1>6 DEF ReadFile, TypeOK, KernelType
  <2>2. Queued(j)' = Queued(j) /\ \A n \in Queued(j) : iocp'[n] = iocp[n]
    BY <1>1, <1>5, <1>6, PostedPacket DEF ReadFile, Completion, Queued
  <2> QED
    BY <1>2, <1>6, <2>1, <2>2, Frame DEF Inv
<1>7. PipeInv(i)'
  <2>1. \/ pending'[i] = "read" /\ Queued(i)' = {}
        \/ /\ pending'[i] = "none" /\ Queued(i)' = {Len(iocp) + 1}
           /\ iocp'[Len(iocp) + 1] = Completion(i, "read", "ok")
    <3>1. CASE iocp' = iocp /\ pending' = [pending EXCEPT ![i] = "read"]
      BY <1>4, <3>1 DEF Queued, TypeOK, KernelType
    <3>2. CASE Post(Completion(i, "read", "ok")) /\ pending' = pending
      BY <1>4, <1>5, <3>2, PostedPacket DEF Completion
    <3> QED
      BY <1>1, <3>1, <3>2 DEF ReadFile
  <2>2. StateInv(i)'
    BY <1>2, <1>s DEF StateInv, CONNECTED
  <2>3. OneOperation(i)'
    BY <1>2, <1>4, <2>1 DEF OneOperation
  <2>4. OperationFits(i)'
    BY <1>2, <1>3, <1>4, <1>s, <2>1
       DEF OperationFits, Fits, Completion, CONNECTED, Outstanding
  <2> QED
    BY <2>2, <2>3, <2>4 DEF PipeInv
<1> QED
  BY <1>2, <1>6, <1>7 DEF Inv

(* Completing the pending operation of a disconnected instance, or of one  *)
(* whose client acts, moves it from the kernel to the queue.               *)
LEMMA Completed ==
    ASSUME TypeOK, NEW i \in Pipes, PipeInv(i), NEW err \in Errors,
           \/ pending[i] # "none" /\ Post(Completion(i, pending[i], err))
           \/ pending[i] = "none" /\ iocp' = iocp
    PROVE  /\ \A j \in Pipes : j # i =>
                Queued(j)' = Queued(j) /\ \A n \in Queued(j) : iocp'[n] = iocp[n]
           /\ \/ /\ pending[i] = "none"
                 /\ Queued(i)' = Queued(i)
                 /\ \A n \in Queued(i) : iocp'[n] = iocp[n]
              \/ /\ pending[i] = UnderWay(i)
                 /\ Queued(i) = {} /\ Holding(i) = {}
                 /\ Queued(i)' = {Len(iocp) + 1}
                 /\ iocp'[Len(iocp) + 1] = Completion(i, UnderWay(i), err)
<1>1. CASE pending[i] # "none"
  <2>1. pending[i] = UnderWay(i) /\ Queued(i) = {} /\ Holding(i) = {}
    BY <1>1 DEF PipeInv, OneOperation, OperationFits
  <2>2. Completion(i, pending[i], err) \in Packets
    BY <1>1, CompletionType DEF TypeOK, KernelType
  <2> QED
    BY <1>1, <2>1, <2>2, PostedPacket DEF Completion
<1>2. CASE pending[i] = "none"
  BY <1>2 DEF Queued
<1> QED
  BY <1>1, <1>2

LEMMA DisconnectKeepsInv ==
    ASSUME TypeOK, Inv, NEW t \in Threads, NEW i \in Pipes,
           DisconnectInstance(t, i)
    PROVE  Inv'
<1>1. CanEnter(t, i) /\ Enter(t, i, "disconnecting") /\ critSec[i] = NoThread
  BY DEF DisconnectInstance, CanEnter
<1>2. /\ LockInv'
      /\ \A j \in Pipes : Holding(j)' = Holding(j)
      /\ \A j \in Pipes : j # i =>
           /\ critSec'[j] = critSec[j]
           /\ critSec[j] # NoThread => pc'[critSec[j]] = pc[critSec[j]]
      /\ \A l : Doing(i, l)' <=> l = "disconnecting"
      /\ UNCHANGED <<packet, state, session>>
  BY <1>1, EnterMethod DEF Inv
<1>s. state[i] \in {CONNECTED, ConnectedReading, UnconnectedConnecting}
  BY DEF DisconnectInstance, Inv, PipeInv, StateInv, UNCONNECTED, CONNECTED,
         ConnectedReading, UnconnectedConnecting, DisconnectingConnecting,
         DisconnectingReading
<1>3. UnderWay(i)' = UnderWay(i)
  BY <1>1, <1>2 DEF UnderWay, Doing
<1>4. \E err \in Errors :
        \/ pending[i] # "none" /\ Post(Completion(i, pending[i], err))
        \/ pending[i] = "none" /\ iocp' = iocp
  <2>1. pending[i] = UnderWay(i) \/ pending[i] = "none"
    BY DEF Inv, PipeInv, OperationFits
  <2>2. "CONNECTED" \in state[i] => UnderWay(i) # "connect"
    BY <1>s, <1>1 DEF CONNECTED, ConnectedReading, UnconnectedConnecting, UnderWay, Doing
  <2> QED
    BY <2>1, <2>2
       DEF DisconnectInstance, DisconnectNamedPipe, CancelIoEx, Complete, Errors,
           TypeOK, KernelType
<1>5. pending' = [pending EXCEPT ![i] = "none"]
  <2>1. "CONNECTED" \in state[i] => pending[i] # "connect"
    BY <1>1, <1>s DEF CONNECTED, ConnectedReading, UnconnectedConnecting,
                      UnderWay, Doing, Inv, PipeInv, OperationFits
  <2> QED
    BY <2>1 DEF DisconnectInstance, DisconnectNamedPipe, CancelIoEx, Complete,
                TypeOK, KernelType
<1>6. ASSUME NEW j \in Pipes, j # i
      PROVE  PipeInv(j)'
  <2>1. pending'[j] = pending[j]
    BY <1>5, <1>6 DEF TypeOK, KernelType
  <2> QED
    BY <1>2, <1>4, <1>6, <2>1, Completed, Frame DEF Inv
<1>7. PipeInv(i)'
  <2>1. pending'[i] = "none"
    BY <1>5 DEF TypeOK, KernelType
  <2>2. StateInv(i)'
    BY <1>2, <1>s, <2>1 DEF Inv, PipeInv, StateInv
  <2>3. "DISCONNECTING" \notin state[i]
    BY <1>s DEF CONNECTED, ConnectedReading, UnconnectedConnecting
  <2>4. PICK err \in Errors :
          \/ /\ pending[i] = "none"
             /\ Queued(i)' = Queued(i)
             /\ \A n \in Queued(i) : iocp'[n] = iocp[n]
          \/ /\ pending[i] = UnderWay(i)
             /\ Queued(i) = {} /\ Holding(i) = {}
             /\ Queued(i)' = {Len(iocp) + 1}
             /\ iocp'[Len(iocp) + 1] = Completion(i, UnderWay(i), err)
    BY <1>4, Completed DEF Inv
  <2>5. OneOperation(i)'
    BY <1>2, <2>1, <2>4 DEF Inv, PipeInv, OneOperation
  <2>6. OperationFits(i)'
    BY <1>2, <1>3, <2>1, <2>3, <2>4
       DEF Inv, PipeInv, OperationFits, Fits, Completion, Outstanding
  <2> QED
    BY <2>2, <2>5, <2>6 DEF PipeInv
<1> QED
  BY <1>2, <1>6, <1>7 DEF Inv

LEMMA FinishKeepsInv ==
    ASSUME TypeOK, Inv, NEW t \in Threads, NEW i \in Pipes,
           FinishConnect(t, i) \/ FinishRead(t, i) \/ FinishDisconnect(t, i)
    PROVE  Inv'
<1>1. PICK label \in {"connecting", "reading", "disconnecting"} : Leave(t, i, label)
  BY DEF FinishConnect, FinishRead, FinishDisconnect
<1>2. /\ LockInv'
      /\ \A j \in Pipes : Holding(j)' = Holding(j)
      /\ \A j \in Pipes : j # i =>
           /\ critSec'[j] = critSec[j]
           /\ critSec[j] # NoThread => pc'[critSec[j]] = pc[critSec[j]]
      /\ Doing(i, label)
      /\ \A l : ~Doing(i, l)'
      /\ packet' = packet
  BY <1>1, LeaveMethod DEF Inv
<1>3. UNCHANGED osVars
  BY DEF FinishConnect, FinishRead, FinishDisconnect, osVars
<1>4. \A j \in Pipes : Queued(j)' = Queued(j)
  BY <1>3 DEF Queued, osVars
<1>5. ASSUME NEW j \in Pipes, j # i
      PROVE  PipeInv(j)'
  <2>1. state'[j] = state[j] /\ session'[j] = session[j]
    BY <1>5 DEF FinishConnect, FinishRead, FinishDisconnect, TypeOK, ServerType
  <2> QED
    BY <1>2, <1>3, <1>4, <1>5, <2>1, Frame DEF Inv, osVars
<1> USE DEF Inv, PipeInv
<1>k. /\ pending' = pending /\ iocp' = iocp /\ Queued(i)' = Queued(i)
      /\ Holding(i)' = Holding(i) /\ packet' = packet
  BY <1>2, <1>3, <1>4 DEF osVars
<1>o. OneOperation(i)'
  BY <1>k DEF OneOperation
<1>6. ASSUME FinishConnect(t, i) \/ FinishRead(t, i)
      PROVE  PipeInv(i)'
  <2>1. \/ Doing(i, "connecting") /\ state'[i] = UnconnectedConnecting
        \/ Doing(i, "reading") /\ state'[i] = state[i] \cup {"READING"}
    BY <1>2, <1>6 DEF FinishConnect, FinishRead, Leave, Doing, TypeOK, ServerType
  <2>2. \/ Doing(i, "connecting") /\ state'[i] = UnconnectedConnecting
           /\ state[i] = UNCONNECTED
        \/ Doing(i, "reading") /\ state'[i] = ConnectedReading
           /\ state[i] = CONNECTED
    BY <2>1 DEF StateInv, CONNECTED, ConnectedReading
  <2>3. UnderWay(i)' = UnderWay(i)
    BY <1>2, <2>2 DEF UnderWay, UnconnectedConnecting, ConnectedReading,
                      UNCONNECTED, CONNECTED, Doing
  <2>4. session' = session
    BY <1>6 DEF FinishConnect, FinishRead
  <2>5. "DISCONNECTING" \notin state[i] /\ "DISCONNECTING" \notin state'[i]
    BY <2>2 DEF UnconnectedConnecting, ConnectedReading, UNCONNECTED, CONNECTED
  <2>6. StateInv(i)'
    BY <1>2, <2>2, <2>5 DEF StateInv
  <2>7. OperationFits(i)'
    BY <1>k, <2>3, <2>4, <2>5 DEF OperationFits, Fits, Outstanding
  <2> QED
    BY <1>o, <2>6, <2>7
<1>7. ASSUME FinishDisconnect(t, i)
      PROVE  PipeInv(i)'
  <2>1. /\ Doing(i, "disconnecting")
        /\ state'[i] = Disconnected(state[i])
        /\ session'[i] = session[i] + 1
    BY <1>2, <1>7 DEF FinishDisconnect, Leave, Doing, TypeOK, ServerType
  <2>2. pending[i] = "none"
    BY <2>1 DEF StateInv
  <2>3. ~Doing(i, "connecting") /\ ~Doing(i, "reading")
    BY <2>1 DEF Doing
  <2>4. \/ state[i] = CONNECTED /\ state'[i] = UNCONNECTED
        \/ state[i] = ConnectedReading /\ state'[i] = DisconnectingReading
        \/ state[i] = UnconnectedConnecting /\ state'[i] = DisconnectingConnecting
    BY <2>1 DEF StateInv, Disconnected, OperationFlags, UNCONNECTED, CONNECTED,
                ConnectedReading, UnconnectedConnecting, DisconnectingReading,
                DisconnectingConnecting
  <2>5. UnderWay(i)' = UnderWay(i)
    BY <1>2, <2>3, <2>4 DEF UnderWay, UNCONNECTED, CONNECTED, ConnectedReading,
            UnconnectedConnecting, DisconnectingReading, DisconnectingConnecting
  <2>6. StateInv(i)'
    BY <1>2, <1>k, <2>2, <2>4 DEF StateInv
  <2>7. CASE state[i] = CONNECTED
    <3>1. UnderWay(i) = "none"
      BY <2>3, <2>7 DEF UnderWay, CONNECTED
    <3>2. pending[i] = "none" /\ Queued(i) = {} /\ Holding(i) = {}
      BY <3>1, NoneOutstanding
    <3>3. OperationFits(i)'
      BY <1>k, <2>5, <3>1, <3>2 DEF OperationFits
    <3> QED
      BY <1>o, <2>6, <3>3
  <2>8. CASE state[i] # CONNECTED
    <3>1. "DISCONNECTING" \notin state[i] /\ "DISCONNECTING" \in state'[i]
      BY <2>4, <2>8 DEF ConnectedReading, UnconnectedConnecting,
                        DisconnectingReading, DisconnectingConnecting
    <3>2. session[i] \in Nat /\ session'[i] # session[i]
      BY <2>1 DEF TypeOK, ServerType
    <3>3. OperationFits(i)'
      BY <1>k, <2>2, <2>5, <3>1, <3>2 DEF OperationFits, Fits, Outstanding
    <3> QED
      BY <1>o, <2>6, <3>3
  <2> QED
    BY <2>7, <2>8
<1> QED
  BY <1>2, <1>5, <1>6, <1>7

(* A thread that dequeues, discards or services a packet is inside no      *)
(* method, before and after.                                               *)
LEMMA OutsideMethods ==
    ASSUME TypeOK, LockInv, NEW t \in Threads, pc[t] \in {"idle", "got"},
           NEW label, pc' = [pc EXCEPT ![t] = label], UNCHANGED critSec
    PROVE  /\ LockInv'
           /\ \A j \in Pipes : critSec[j] # NoThread => pc'[critSec[j]] = pc[critSec[j]]
<1>1. \A j \in Pipes : critSec[j] # NoThread => critSec[j] # t /\ critSec[j] \in Threads
  BY DEF LockInv, TypeOK, ServerType
<1>2. \A j \in Pipes : critSec[j] # NoThread => pc'[critSec[j]] = pc[critSec[j]]
  BY <1>1 DEF TypeOK, ThreadType
<1> QED
  BY <1>2 DEF LockInv

LEMMA GetPacketKeepsInv ==
    ASSUME TypeOK, Inv, NEW t \in Threads, GetPacket(t)
    PROVE  Inv'
<1>1. /\ pc[t] = "idle" /\ iocp # << >> /\ iocp' = Tail(iocp)
      /\ pc' = [pc EXCEPT ![t] = "got"]
      /\ packet' = [packet EXCEPT ![t] = Head(iocp)]
      /\ UNCHANGED <<state, critSec, pending, session>>
  BY DEF GetPacket
<1>2. /\ LockInv'
      /\ \A j \in Pipes : critSec[j] # NoThread => pc'[critSec[j]] = pc[critSec[j]]
  BY <1>1, OutsideMethods DEF Inv
<1>3. /\ 1 \in DOMAIN iocp /\ Head(iocp) = iocp[1]
      /\ DOMAIN iocp = 1 .. Len(iocp)
      /\ \A n \in DOMAIN iocp' : n + 1 \in DOMAIN iocp /\ n + 1 # 1 /\ iocp'[n] = iocp[n + 1]
      /\ \A n \in DOMAIN iocp : n # 1 => n - 1 \in DOMAIN iocp' /\ iocp'[n - 1] = iocp[n]
  BY <1>1, TailEntries DEF TypeOK, PortType
<1>i. DOMAIN iocp' \subseteq Int
  BY <1>1, TailEntries DEF TypeOK, PortType
<1>4. /\ packet'[t] = iocp[1] /\ pc'[t] = "got"
      /\ \A u \in Threads : u # t => packet'[u] = packet[u] /\ pc'[u] = pc[u]
  BY <1>1, <1>3 DEF TypeOK, ThreadType
<1>5. ASSUME NEW j \in Pipes
      PROVE  PipeInv(j)'
  <2> USE DEF Inv, PipeInv
  <2>1. /\ \A n \in Queued(j)' : n + 1 \in Queued(j) /\ n + 1 # 1 /\ iocp'[n] = iocp[n + 1]
        /\ \A n \in Queued(j) : n # 1 => n - 1 \in Queued(j)'
        /\ 1 \in Queued(j) <=> iocp[1].pipe = j
        /\ Queued(j)' \subseteq Int
    BY <1>3, <1>i DEF Queued
  <2>2. Holding(j)' = IF iocp[1].pipe = j THEN Holding(j) \cup {t} ELSE Holding(j)
    BY <1>1, <1>4 DEF Holding
  <2>t. t \notin Holding(j)
    BY <1>1 DEF Holding
  <2>3. /\ \A label : Doing(j, label)' <=> Doing(j, label)
        /\ UnderWay(j)' = UnderWay(j)
    BY <1>1, <1>2 DEF Doing, UnderWay
  <2>4. StateInv(j)'
    BY <1>1, <2>3 DEF StateInv
  <2>5. OneOperation(j)'
    <3>1. \A m, n \in Queued(j)' : m = n
      <4> SUFFICES ASSUME NEW m \in Queued(j)', NEW n \in Queued(j)'
                   PROVE  m = n
        OBVIOUS
      <4>1. m + 1 = n + 1 /\ m \in Int /\ n \in Int
        BY <2>1 DEF OneOperation
      <4> QED
        BY <4>1
    <3>2. CASE iocp[1].pipe = j
      <4>1. Queued(j) = {1} /\ Holding(j) = {}
        BY <2>1, <3>2 DEF OneOperation
      <4>2. Queued(j)' = {}
        BY <2>1, <4>1
      <4>3. pending[j] = "none"
        BY <4>1 DEF OneOperation
      <4> QED
        BY <1>1, <2>2, <3>1, <3>2, <4>1, <4>2, <4>3 DEF OneOperation
    <3>3. CASE iocp[1].pipe # j
      <4>1. Queued(j) = {} => Queued(j)' = {}
        BY <2>1
      <4> QED
        BY <1>1, <2>2, <3>1, <3>3, <4>1 DEF OneOperation
    <3> QED
      BY <3>2, <3>3
  <2>6. OperationFits(j)'
    <3>1. pending'[j] \in {"none", UnderWay(j)'}
      BY <1>1, <2>3 DEF OperationFits
    <3>2. \A n \in Queued(j)' : Fits(j, iocp[n + 1])
      BY <2>1 DEF OperationFits
    <3>3. \A u \in Holding(j) : Fits(j, packet[u])
      BY DEF OperationFits
    <3>4. iocp[1].pipe = j => Fits(j, iocp[1])
      BY <2>1 DEF OperationFits
    <3>5. \A n \in Queued(j)' : Fits(j, iocp[n])'
      BY <1>1, <2>1, <2>3, <3>2 DEF Fits
    <3>6. \A u \in Holding(j)' : Fits(j, packet[u])'
      <4> SUFFICES ASSUME NEW u \in Holding(j)'
                   PROVE  Fits(j, packet[u])'
        OBVIOUS
      <4>1. CASE u = t
        BY <1>1, <1>4, <2>2, <2>3, <2>t, <3>4, <4>1 DEF Fits
      <4>2. CASE u # t
        BY <1>1, <1>4, <2>2, <2>3, <3>3, <4>2 DEF Fits, Holding
      <4> QED
        BY <4>1, <4>2
    <3>7. Outstanding(j) => Outstanding(j)'
      <4>1. Queued(j) # {} => Queued(j)' # {} \/ iocp[1].pipe = j
        BY <2>1
      <4> QED
        BY <1>1, <2>2, <4>1 DEF Outstanding
    <3> QED
      BY <2>3, <3>1, <3>5, <3>6, <3>7 DEF OperationFits
  <2> QED
    BY <2>4, <2>5, <2>6
<1> QED
  BY <1>2, <1>5 DEF Inv

LEMMA DiscardKeepsInv ==
    ASSUME TypeOK, Inv, NEW t \in Threads, Discard(t)
    PROVE  Inv'
<1>1. /\ pc[t] = "got" /\ packet[t].key # "pipe"
      /\ pc' = [pc EXCEPT ![t] = "idle"]
      /\ packet' = [packet EXCEPT ![t] = NoPacket]
      /\ UNCHANGED <<state, critSec, pending, session, iocp>>
  BY DEF Discard, osVars
<1>2. /\ LockInv'
      /\ \A j \in Pipes : critSec[j] # NoThread => pc'[critSec[j]] = pc[critSec[j]]
  BY <1>1, OutsideMethods DEF Inv
<1>3. \A j \in Pipes : t \notin Holding(j)
  BY <1>1, OperationPackets DEF PipePackets
<1>4. \A u \in Threads : u # t => packet'[u] = packet[u] /\ pc'[u] = pc[u]
  BY <1>1 DEF TypeOK, ThreadType
<1>5. pc'[t] = "idle"
  BY <1>1 DEF TypeOK, ThreadType
<1>6. ASSUME NEW j \in Pipes
      PROVE  PipeInv(j)'
  <2>1. Queued(j)' = Queued(j)
    BY <1>1 DEF Queued
  <2>2. Holding(j)' = Holding(j) /\ \A u \in Holding(j) : packet'[u] = packet[u]
    BY <1>3, <1>4, <1>5 DEF Holding
  <2> QED
    BY <1>1, <1>2, <2>1, <2>2, Frame DEF Inv
<1> QED
  BY <1>2, <1>6 DEF Inv

(* What service does to the state of the instance: the four cases of its   *)
(* switch.  In the second outcome of the third it throws.                  *)
LEMMA ServiceOutcomes ==
    ASSUME TypeOK, Inv, NEW t \in Threads, Service(t)
    PROVE  LET i == packet[t].pipe IN
           /\ i \in Pipes /\ critSec[i] = NoThread /\ t \in Holding(i)
           /\ pending[i] = "none" /\ Queued(i) = {} /\ Holding(i) = {t}
           /\ ~InvalidState(i)
           /\ UNCHANGED <<pending, iocp, critSec, session>>
           /\ \/ /\ state[i] \in {UnconnectedConnecting, ConnectedReading}
                 /\ state' = [state EXCEPT ![i] = CONNECTED]
              \/ /\ state[i] \in {DisconnectingConnecting, DisconnectingReading}
                 /\ state' = [state EXCEPT ![i] = UNCONNECTED]
              \/ /\ state[i] = DisconnectingConnecting
                 /\ state' = state
<1> DEFINE i == packet[t].pipe
<1>1. i \in Pipes /\ packet[t] \in PipePackets
  BY ServiceType
<1>2. critSec[i] = NoThread /\ pc[t] = "got" /\ t \in Holding(i)
  BY DEF Service, Holding
<1>3. PipeInv(i) /\ ~(\E l : Doing(i, l))
  BY <1>1, <1>2 DEF Inv, Doing
<1>4. pending[i] = "none" /\ Queued(i) = {} /\ Holding(i) = {t}
  <2>1. \A u \in Holding(i) : u = t
    BY <1>2, <1>3 DEF PipeInv, OneOperation
  <2>2. pending[i] = "none" /\ Queued(i) = {}
    BY <1>2, <1>3 DEF PipeInv, OneOperation
  <2> QED
    BY <1>2, <2>1, <2>2
<1>5. UnderWay(i) \in {"connect", "read"}
  BY <1>1, <1>2, <1>3 DEF PipeInv, OperationFits, Fits, PipePackets
<1>6. ~InvalidState(i)
  BY <1>3, <1>5 DEF PipeInv, StateInv, UnderWay, InvalidState, UNCONNECTED, CONNECTED
<1>7. UNCHANGED <<pending, iocp, critSec, session>>
  <2>1. DisconnectNamedPipe(i) => UNCHANGED <<pending, iocp>>
    BY <1>1, <1>4 DEF DisconnectNamedPipe, Complete
  <2> QED
    BY <2>1 DEF Service, ServiceCases, Serviced, ServiceThrows, osVars
<1>8. \/ /\ state[i] \in {UnconnectedConnecting, ConnectedReading}
         /\ state' = [state EXCEPT ![i] = CONNECTED]
      \/ /\ state[i] \in {DisconnectingConnecting, DisconnectingReading}
         /\ state' = [state EXCEPT ![i] = UNCONNECTED]
      \/ /\ state[i] = DisconnectingConnecting
         /\ state' = state
  BY <1>6 DEF Service, ServiceCases, Serviced, ServiceThrows
<1> QED
  BY <1>1, <1>2, <1>4, <1>6, <1>7, <1>8

LEMMA ServiceKeepsInv ==
    ASSUME TypeOK, Inv, NEW t \in Threads, Service(t)
    PROVE  Inv'
<1>i. PICK i \in Pipes : i = packet[t].pipe
  BY ServiceType
<1>1. /\ i \in Pipes /\ critSec[i] = NoThread
      /\ pending[i] = "none" /\ Queued(i) = {} /\ Holding(i) = {t}
      /\ UNCHANGED <<pending, iocp, critSec, session>>
      /\ \/ state' = [state EXCEPT ![i] = CONNECTED]
         \/ state' = [state EXCEPT ![i] = UNCONNECTED]
         \/ state[i] = DisconnectingConnecting /\ state' = state
  BY <1>i, ServiceOutcomes
<1>2. /\ pc[t] = "got" /\ pc' = [pc EXCEPT ![t] = "idle"]
      /\ packet' = [packet EXCEPT ![t] = NoPacket]
  BY DEF Service
<1>3. /\ LockInv'
      /\ \A j \in Pipes : critSec[j] # NoThread => pc'[critSec[j]] = pc[critSec[j]]
  BY <1>1, <1>2, OutsideMethods DEF Inv
<1>4. \A j \in Pipes : Queued(j)' = Queued(j)
  BY <1>1 DEF Queued
<1>5. /\ pc'[t] = "idle"
      /\ \A u \in Threads : u # t => packet'[u] = packet[u] /\ pc'[u] = pc[u]
  BY <1>2 DEF TypeOK, ThreadType
<1>6. ASSUME NEW j \in Pipes, j # i
      PROVE  PipeInv(j)'
  <2>1. t \notin Holding(j)
    BY <1>i, <1>6 DEF Holding
  <2>2. Holding(j)' = Holding(j) /\ \A u \in Holding(j) : packet'[u] = packet[u]
    BY <1>5, <2>1 DEF Holding
  <2>3. state'[j] = state[j]
    BY <1>1, <1>6 DEF TypeOK, ServerType
  <2> QED
    BY <1>1, <1>3, <1>4, <1>6, <2>2, <2>3, Frame DEF Inv
<1>7. PipeInv(i)'
  <2>1. Holding(i)' = {}
    <3>1. \A u \in Threads : u \in Holding(i)' => u \in Holding(i)
      BY <1>5 DEF Holding
    <3>2. t \notin Holding(i)'
      BY <1>5 DEF Holding
    <3> QED
      BY <1>1, <3>1, <3>2 DEF Holding
  <2>2. state'[i] \in {CONNECTED, UNCONNECTED, DisconnectingConnecting}
    BY <1>1 DEF TypeOK, ServerType
  <2>3. \A l : ~Doing(i, l)'
    BY <1>1 DEF Doing
  <2>4. UnderWay(i)' # "read"
    BY <2>2, <2>3 DEF UnderWay, CONNECTED, UNCONNECTED, DisconnectingConnecting
  <2>5. pending'[i] = "none" /\ Queued(i)' = {}
    BY <1>1, <1>4
  <2>6. StateInv(i)'
    BY <2>2, <2>3, <2>5 DEF StateInv
  <2> QED
    BY <2>1, <2>4, <2>5, <2>6 DEF PipeInv, OneOperation, OperationFits
<1> QED
  BY <1>3, <1>6, <1>7 DEF Inv

LEMMA PeerKeepsInv ==
    ASSUME TypeOK, Inv, NEW i \in Pipes, PeerOpen(i) \/ PeerWrite(i) \/ PeerClose(i)
    PROVE  Inv'
<1>1. UNCHANGED <<state, critSec, pc, packet, session>>
  BY DEF PeerOpen, PeerWrite, PeerClose, threadVars
<1>2. /\ \A j \in Pipes : Holding(j)' = Holding(j)
      /\ \A j \in Pipes : \A l : Doing(j, l)' <=> Doing(j, l)
  BY <1>1 DEF Holding, Doing
<1>3. LockInv'
  BY <1>1 DEF Inv, LockInv
<1>4. CASE UNCHANGED <<pending, iocp>>
  <2>1. ASSUME NEW j \in Pipes
        PROVE  PipeInv(j)'
    <3>1. Queued(j)' = Queued(j)
      BY <1>4 DEF Queued
    <3> QED
      BY <1>1, <1>2, <1>4, <3>1, Frame DEF Inv
  <2> QED
    BY <1>3, <2>1 DEF Inv
<1>5. ASSUME pending[i] # "none", pending' = [pending EXCEPT ![i] = "none"],
             NEW err \in Errors, Post(Completion(i, pending[i], err))
      PROVE  Inv'
  <2>1. /\ \A j \in Pipes : j # i =>
             Queued(j)' = Queued(j) /\ \A n \in Queued(j) : iocp'[n] = iocp[n]
        /\ pending[i] = UnderWay(i)
        /\ Queued(i) = {} /\ Holding(i) = {}
        /\ Queued(i)' = {Len(iocp) + 1}
        /\ iocp'[Len(iocp) + 1] = Completion(i, UnderWay(i), err)
    BY <1>5, Completed DEF Inv
  <2>2. pending'[i] = "none" /\ \A j \in Pipes : j # i => pending'[j] = pending[j]
    BY <1>5 DEF TypeOK, KernelType
  <2>3. ASSUME NEW j \in Pipes, j # i
        PROVE  PipeInv(j)'
    BY <1>1, <1>2, <2>1, <2>2, <2>3, Frame DEF Inv
  <2>4. UnderWay(i)' = UnderWay(i)
    BY <1>1, <1>2 DEF UnderWay
  <2>5. "DISCONNECTING" \notin state[i]
    BY <1>5 DEF Inv, PipeInv, StateInv
  <2>6. StateInv(i)'
    BY <1>1, <1>2, <2>2 DEF Inv, PipeInv, StateInv
  <2>7. OneOperation(i)'
    BY <1>2, <2>1, <2>2 DEF OneOperation
  <2>8. OperationFits(i)'
    BY <1>1, <1>2, <2>1, <2>2, <2>4, <2>5
       DEF OperationFits, Fits, Completion, Outstanding
  <2> QED
    BY <1>3, <2>3, <2>6, <2>7, <2>8 DEF Inv, PipeInv
<1>6. \/ UNCHANGED <<pending, iocp>>
      \/ \E kind \in {"connect", "read"}, err \in Errors :
           /\ pending[i] = kind /\ Post(Completion(i, kind, err))
           /\ pending' = [pending EXCEPT ![i] = "none"]
  BY DEF PeerOpen, PeerWrite, PeerClose, Complete, Errors
<1> QED
  BY <1>4, <1>5, <1>6

LEMMA ForeignKeepsInv ==
    ASSUME TypeOK, Inv, NEW k \in ForeignKeys, PostForeign(k)
    PROVE  Inv'
<1>1. UNCHANGED <<state, critSec, pending, pc, packet, session>>
  BY DEF PostForeign, threadVars
<1>2. LockInv'
  BY <1>1 DEF Inv, LockInv
<1>3. ASSUME NEW j \in Pipes
      PROVE  PipeInv(j)'
  <2>1. Foreign(k) \in Packets /\ Foreign(k).pipe # j
    BY ForeignType, PipeAssumption DEF Foreign
  <2>2. Queued(j)' = Queued(j) /\ \A n \in Queued(j) : iocp'[n] = iocp[n]
    BY <2>1, PostedPacket DEF PostForeign
  <2>3. Holding(j)' = Holding(j)
    BY <1>1 DEF Holding
  <2> QED
    BY <1>1, <2>2, <2>3, Frame DEF Inv
<1> QED
  BY <1>2, <1>3 DEF Inv

LEMMA InvStep == TypeOK /\ Inv /\ [Next]_vars => Inv'
<1> SUFFICES ASSUME TypeOK, Inv, [Next]_vars PROVE Inv'
  OBVIOUS
<1>1. CASE UNCHANGED vars
  <2>1. \A i \in Pipes : Queued(i)' = Queued(i) /\ Holding(i)' = Holding(i)
    BY <1>1 DEF vars, Queued, Holding
  <2>2. \A i \in Pipes : PipeInv(i)'
    BY <1>1, <2>1, Frame DEF vars, Inv
  <2> QED
    BY <1>1, <2>2 DEF vars, Inv, LockInv
<1> QED
  BY <1>1, ConnectKeepsInv, ReadKeepsInv, DisconnectKeepsInv, FinishKeepsInv,
     GetPacketKeepsInv, DiscardKeepsInv, ServiceKeepsInv, PeerKeepsInv,
     ForeignKeepsInv DEF Next, Calls, Environment

(* The invariant the safety properties follow from.                        *)
THEOREM Invariance == Spec => [](TypeOK /\ Inv)
  BY TypeInit, TypeStep, InvInit, InvStep, PTL DEF Spec

-----------------------------------------------------------------------------
(* The ghost-operation rule: connectInstance and readInstance never issue  *)
(* an operation on an OVERLAPPED that has one outstanding.                 *)
THEOREM OverlappedIsFree == Spec => []OverlappedFree
<1>1. TypeOK /\ Inv => OverlappedFree
  <2> SUFFICES ASSUME TypeOK, Inv, NEW i \in Pipes, critSec[i] = NoThread,
                      ConnectAllowed(i) \/ ReadAllowed(i)
               PROVE  ~Outstanding(i)
    BY DEF OverlappedFree
  <2>1. state[i] \in {UNCONNECTED, CONNECTED}
    BY DEF Inv, PipeInv, StateInv, ConnectAllowed, ReadAllowed, CONNECTED,
           UNCONNECTED, UnconnectedConnecting, ConnectedReading,
           DisconnectingConnecting, DisconnectingReading
  <2>2. UnderWay(i) = "none"
    BY <2>1 DEF UnderWay, Doing, CONNECTED, UNCONNECTED
  <2> QED
    BY <2>2, NoneOutstanding DEF Inv, Outstanding
<1> QED
  BY <1>1, Invariance, PTL

(* No read is lost or doubled: a pipe that says READING has exactly one.   *)
THEOREM OneReadOutstanding == Spec => []ReadIsOutstanding
<1>1. TypeOK /\ Inv => ReadIsOutstanding
  <2> SUFFICES ASSUME TypeOK, Inv, NEW i \in Pipes, "READING" \in state[i]
               PROVE  \/ pending[i] = "read" /\ Queued(i) = {} /\ Holding(i) = {}
                      \/ /\ pending[i] = "none" /\ Holding(i) = {}
                         /\ \E n \in DOMAIN iocp :
                              Queued(i) = {n} /\ iocp[n].kind = "read"
                      \/ /\ pending[i] = "none" /\ Queued(i) = {}
                         /\ \E t \in Threads :
                              Holding(i) = {t} /\ packet[t].kind = "read"
    BY DEF ReadIsOutstanding
  <2> USE DEF Inv, PipeInv
  <2>1. state[i] \in {ConnectedReading, DisconnectingReading}
    BY DEF StateInv, CONNECTED, UNCONNECTED, UnconnectedConnecting,
           DisconnectingConnecting
  <2>2. UnderWay(i) = "read"
    BY <2>1 DEF StateInv, UnderWay, ConnectedReading, DisconnectingReading, UNCONNECTED
  <2>3. Outstanding(i)
    BY <2>2 DEF OperationFits
  <2>4. CASE pending[i] # "none"
    BY <2>2, <2>4 DEF OneOperation, OperationFits
  <2>5. CASE pending[i] = "none" /\ Queued(i) # {}
    <3>1. PICK n \in Queued(i) : TRUE
      BY <2>5
    <3>2. Queued(i) = {n} /\ Holding(i) = {} /\ iocp[n].kind = "read"
      BY <2>2, <3>1 DEF OneOperation, OperationFits, Fits
    <3> QED
      BY <2>5, <3>1, <3>2 DEF Queued
  <2>6. CASE pending[i] = "none" /\ Holding(i) # {}
    <3>1. PICK t \in Holding(i) : TRUE
      BY <2>6
    <3>2. Holding(i) = {t} /\ Queued(i) = {} /\ packet[t].kind = "read"
      BY <2>2, <3>1 DEF OneOperation, OperationFits, Fits
    <3> QED
      BY <2>6, <3>1, <3>2 DEF Holding
  <2> QED
    BY <2>3, <2>4, <2>5, <2>6 DEF Outstanding
<1> QED
  BY <1>1, Invariance, PTL

(* The "Invalid pipe state." exception of service is unreachable.          *)
THEOREM ServiceFindsItsCase == Spec => []ServiceNeverInvalid
<1>1. TypeOK /\ Inv => ServiceNeverInvalid
  <2> SUFFICES ASSUME TypeOK, Inv, NEW t \in Threads, pc[t] = "got",
                      packet[t].key = "pipe", critSec[packet[t].pipe] = NoThread
               PROVE  ~InvalidState(packet[t].pipe)
    BY DEF ServiceNeverInvalid
  <2>1. PICK i \in Pipes : i = packet[t].pipe /\ packet[t] \in PipePackets
    BY PipeAssumption DEF TypeOK, ThreadType, Packets, PipePackets, Foreign
  <2>2. UnderWay(i) \in {"connect", "read"}
    BY <2>1 DEF Inv, PipeInv, OperationFits, Holding, Fits, PipePackets
  <2> QED
    BY <2>1, <2>2 DEF Inv, PipeInv, StateInv, UnderWay, Doing, InvalidState,
                      UNCONNECTED, CONNECTED
<1> QED
  BY <1>1, Invariance, PTL

LEMMA FreshStep == TypeOK /\ FreshResult /\ [Next]_vars => FreshResult'
<1> SUFFICES ASSUME TypeOK, FreshResult, [Next]_vars, NEW u \in Threads,
                    pc'[u] = "got"
             PROVE  result'[u] = NoResult
  BY DEF FreshResult
<1> USE DEF TypeOK, ThreadType, FreshResult
<1>1. ASSUME NEW t \in Threads, NEW i \in Pipes,
             \/ ConnectInstance(t, i) \/ ReadInstance(t, i)
             \/ DisconnectInstance(t, i)
      PROVE  result'[u] = NoResult
  BY <1>1 DEF ConnectInstance, ReadInstance, DisconnectInstance, Enter
<1>2. ASSUME NEW t \in Threads, NEW i \in Pipes,
             FinishConnect(t, i) \/ FinishRead(t, i) \/ FinishDisconnect(t, i)
      PROVE  result'[u] = NoResult
  BY <1>2 DEF FinishConnect, FinishRead, FinishDisconnect, Leave
<1>3. ASSUME NEW t \in Threads, Service(t)
      PROVE  result'[u] = NoResult
  <2>1. u # t /\ pc[u] = "got"
    BY <1>3 DEF Service
  <2>2. result'[u] = result[u]
    BY <1>3, <2>1 DEF Service, ServiceCases, Serviced, ServiceThrows
  <2> QED
    BY <2>1, <2>2
<1>4. ASSUME NEW t \in Threads, GetPacket(t) \/ Discard(t)
      PROVE  result'[u] = NoResult
  BY <1>4 DEF GetPacket, Discard
<1>5. ASSUME NEW i \in Pipes, PeerOpen(i) \/ PeerWrite(i) \/ PeerClose(i)
      PROVE  result'[u] = NoResult
  BY <1>5 DEF PeerOpen, PeerWrite, PeerClose, threadVars
<1>6. ASSUME NEW k \in ForeignKeys, PostForeign(k)
      PROVE  result'[u] = NoResult
  BY <1>6 DEF PostForeign, threadVars
<1>7. CASE UNCHANGED vars
  BY <1>7 DEF vars
<1> QED
  BY <1>1, <1>2, <1>3, <1>4, <1>5, <1>6, <1>7 DEF Next, Calls, Environment

LEMMA StatesDiffer ==
    /\ UnconnectedConnecting # ConnectedReading
    /\ UnconnectedConnecting # DisconnectingConnecting
    /\ UnconnectedConnecting # DisconnectingReading
    /\ ConnectedReading # DisconnectingConnecting
    /\ ConnectedReading # DisconnectingReading
    /\ DisconnectingConnecting # DisconnectingReading
  BY DEF UnconnectedConnecting, ConnectedReading, DisconnectingConnecting,
         DisconnectingReading

(* service reports a zombie exactly when the instance was disconnected     *)
(* after the operation was issued.                                         *)
THEOREM ZombiesAreExact == Spec => ZombieExact
<1>1. ASSUME TypeOK, Inv, FreshResult, NEW t \in Threads, Service(t),
             result'[t] # NoResult
      PROVE  /\ result'[t].zombie <=> packet[t].session # session[packet[t].pipe]
             /\ ~result'[t].zombie => result'[t].operation = packet[t].kind
  <2>1. PICK i \in Pipes : i = packet[t].pipe
    BY <1>1, ServiceType
  <2>2. t \in Holding(i) /\ critSec[i] = NoThread /\ ~InvalidState(i)
    BY <1>1, <2>1, ServiceOutcomes
  <2>3. Fits(i, packet[t])
    BY <1>1, <2>2 DEF Inv, PipeInv, OperationFits
  <2>4. result[t] = NoResult
    BY <1>1 DEF FreshResult, Service
  <2>5. result' # result
    BY <1>1, <2>4
  <2>6. \/ /\ state[i] \in {UnconnectedConnecting, ConnectedReading}
           /\ ~result'[t].zombie
           /\ result'[t].operation = UnderWay(i)
        \/ /\ state[i] \in {DisconnectingConnecting, DisconnectingReading}
           /\ result'[t].zombie
    <3>1. CASE state[i] \in {UnconnectedConnecting, ConnectedReading}
      <4>1. UnderWay(i) = IF state[i] = UnconnectedConnecting THEN "connect" ELSE "read"
        BY <2>2, <3>1 DEF UnderWay, Doing, UnconnectedConnecting, ConnectedReading
      <4>2. ServiceCases(t, i)
        BY <1>1, <2>1 DEF Service
      <4>3. \/ state[i] = UnconnectedConnecting /\ Serviced(t, i, CONNECTED, "connect", FALSE)
            \/ state[i] = ConnectedReading /\ Serviced(t, i, CONNECTED, "read", FALSE)
        BY <2>2, <3>1, <4>2, StatesDiffer DEF ServiceCases
      <4>4. \/ UnderWay(i) = "connect" /\ Serviced(t, i, CONNECTED, "connect", FALSE)
            \/ UnderWay(i) = "read" /\ Serviced(t, i, CONNECTED, "read", FALSE)
        BY <4>1, <4>3, StatesDiffer
      <4>5. \E op : /\ UnderWay(i) = op
                    /\ Serviced(t, i, CONNECTED, op, FALSE)
        BY <4>4
      <4> QED
        BY <1>1, <3>1, <4>5 DEF Serviced, TypeOK, ThreadType
    <3>2. CASE state[i] \in {DisconnectingConnecting, DisconnectingReading}
      <4>1. ServiceCases(t, i)
        BY <1>1, <2>1 DEF Service
      <4>2. Serviced(t, i, UNCONNECTED, "read", TRUE)
        BY <2>2, <2>5, <3>2, <4>1, StatesDiffer DEF ServiceCases, ServiceThrows
      <4> QED
        BY <1>1, <3>2, <4>2 DEF Serviced, TypeOK, ThreadType
    <3> QED
      BY <2>2, <3>1, <3>2 DEF InvalidState
  <2>7. \/ /\ "DISCONNECTING" \notin state[i]
           /\ ~result'[t].zombie
           /\ result'[t].operation = UnderWay(i)
        \/ "DISCONNECTING" \in state[i] /\ result'[t].zombie
    BY <2>6 DEF UnconnectedConnecting, ConnectedReading, DisconnectingConnecting,
                DisconnectingReading
  <2> QED
    BY <2>1, <2>3, <2>7 DEF Fits
<1>2. Init => FreshResult
  BY DEF Init, FreshResult
<1>3. TypeOK /\ Inv /\ FreshResult /\ [Next]_vars =>
        [\A t \in Threads : Service(t) /\ result'[t] # NoResult =>
           LET p == packet[t] IN
             /\ result'[t].zombie <=> p.session # session[p.pipe]
             /\ ~result'[t].zombie => result'[t].operation = p.kind]_vars
  BY <1>1
<1> QED
  BY <1>2, <1>3, FreshStep, TypeInit, TypeStep, InvInit, InvStep, PTL
     DEF Spec, ZombieExact
-----------------------------------------------------------------------------
(* The way on: a thread that waits for a lock waits for one that goes on,  *)
(* and the read of a pipe that is disconnecting comes to service.          *)

\* A thread inside a method owns the lock of an instance.
OwnerInv ==
    \A t \in Threads : pc[t] \in {"connecting", "reading", "disconnecting"} =>
        \E i \in Pipes : critSec[i] = t

\* Thread t can take a step of its own.
CanStep(t) ==
    \/ /\ pc[t] \in {"connecting", "reading", "disconnecting"}
       /\ \E i \in Pipes : critSec[i] = t
    \/ pc[t] = "idle" /\ iocp # << >>
    \/ pc[t] = "got" /\ (packet[t].key # "pipe" \/ critSec[packet[t].pipe] = NoThread)

PortGoesOn ==
    /\ \A t \in Threads : pc[t] # "idle" =>
         \/ CanStep(t)
         \/ pc[t] = "got" /\ critSec[packet[t].pipe] \in Threads
                          /\ CanStep(critSec[packet[t].pipe])
    /\ \A i \in Pipes : state[i] = DisconnectingReading =>
         /\ critSec[i] = NoThread
         /\ Queued(i) # {} \/ Holding(i) # {}

\* The packet of instance i is the n-th in the queue, or dequeued if n is 0.
At(i, n) == n \in Queued(i) \/ (n = 0 /\ Holding(i) # {})

DrainNearer ==
    \A i \in Pipes : state[i] = DisconnectingReading =>
        \/ state'[i] = UNCONNECTED /\ \E t \in Holding(i) : Service(t)
        \/ /\ state'[i] = DisconnectingReading
           /\ \E m, n \in Nat :
                /\ At(i, m) /\ At(i, n)' /\ n <= m
                /\ (\E t \in Threads : GetPacket(t)) => n < m \/ m = 0

DrainRunsDown == [][DrainNearer]_vars

LEMMA OwnerStep == TypeOK /\ OwnerInv /\ [Next]_vars => OwnerInv'
<1> SUFFICES ASSUME TypeOK, OwnerInv, [Next]_vars PROVE OwnerInv'
  OBVIOUS
<1> USE PipeAssumption DEF OwnerInv
<1>t. /\ pc \in [Threads -> {"idle", "connecting", "reading", "disconnecting", "got"}]
      /\ critSec \in [Pipes -> Threads \cup {NoThread}]
  BY DEF TypeOK, ThreadType, ServerType
<1>1. ASSUME NEW t \in Threads, NEW i \in Pipes, NEW label,
             CanEnter(t, i), Enter(t, i, label)
      PROVE  OwnerInv'
  BY <1>t, <1>1 DEF CanEnter, Enter
<1>2. ASSUME NEW t \in Threads, NEW i \in Pipes, NEW label, Leave(t, i, label)
      PROVE  OwnerInv'
  BY <1>t, <1>2 DEF Leave
<1>3. ASSUME NEW t \in Threads, GetPacket(t) \/ Discard(t) \/ Service(t)
      PROVE  OwnerInv'
  BY <1>t, <1>3 DEF GetPacket, Discard, Service
<1>4. CASE Environment \/ UNCHANGED vars
  <2>1. UNCHANGED <<critSec, pc>>
    BY <1>4 DEF Environment, PeerOpen, PeerWrite, PeerClose, PostForeign, threadVars, vars
  <2> QED
    BY <2>1
<1>5. ASSUME NEW t \in Threads, NEW i \in Pipes,
             \/ ConnectInstance(t, i) \/ ReadInstance(t, i) \/ DisconnectInstance(t, i)
      PROVE  OwnerInv'
  BY <1>1, <1>5, Zenon DEF ConnectInstance, ReadInstance, DisconnectInstance
<1>6. ASSUME NEW t \in Threads, NEW i \in Pipes,
             \/ FinishConnect(t, i) \/ FinishRead(t, i) \/ FinishDisconnect(t, i)
      PROVE  OwnerInv'
  BY <1>2, <1>6, Zenon DEF FinishConnect, FinishRead, FinishDisconnect
<1> QED
  BY <1>3, <1>4, <1>5, <1>6 DEF Next, Calls

\* The read of a disconnecting pipe is in the port, and nobody is inside.
LEMMA DrainInPort ==
    ASSUME TypeOK, Inv, NEW i \in Pipes, state[i] = DisconnectingReading
    PROVE  critSec[i] = NoThread /\ (Queued(i) # {} \/ Holding(i) # {})
<1>1. critSec[i] = NoThread
  <2>1. state[i] \notin {UNCONNECTED, CONNECTED, ConnectedReading, UnconnectedConnecting}
    BY DEF DisconnectingReading, UNCONNECTED, CONNECTED, ConnectedReading,
           UnconnectedConnecting
  <2>2. \A l \in {"connecting", "reading", "disconnecting"} : ~Doing(i, l)
    BY <2>1 DEF Inv, PipeInv, StateInv
  <2> QED
    BY <2>2 DEF Inv, LockInv, Doing
<1>2. UnderWay(i) = "read" /\ pending[i] = "none"
  BY <1>1 DEF Inv, PipeInv, StateInv, UnderWay, Doing, DisconnectingReading
<1> QED
  BY <1>1, <1>2 DEF Inv, PipeInv, OperationFits, Outstanding

(* ReadDrains needs no more than that threads go on: a thread with a       *)
(* packet gives it to service at once, or waits for one that can leave the *)
(* lock; and the packet of a disconnecting pipe's read is in the port.     *)
THEOREM PortIsNeverStuck == Spec => []PortGoesOn
<1>1. TypeOK /\ Inv /\ OwnerInv => PortGoesOn
  <2> SUFFICES ASSUME TypeOK, Inv, OwnerInv PROVE PortGoesOn
    OBVIOUS
  <2>1. ASSUME NEW t \in Threads, pc[t] # "idle"
        PROVE  \/ CanStep(t)
               \/ pc[t] = "got" /\ critSec[packet[t].pipe] \in Threads
                                /\ CanStep(critSec[packet[t].pipe])
    <3>1. CASE pc[t] # "got"
      BY <2>1, <3>1 DEF OwnerInv, CanStep, TypeOK, ThreadType
    <3>2. CASE pc[t] = "got" /\ packet[t].key = "pipe" /\ critSec[packet[t].pipe] # NoThread
      <4>1. PICK i \in Pipes : i = packet[t].pipe
        BY <3>2, PipeAssumption DEF TypeOK, ThreadType, Packets, PipePackets, Foreign
      <4>2. critSec[i] \in Threads
        BY <3>2, <4>1 DEF TypeOK, ServerType
      <4> QED
        BY <3>2, <4>1, <4>2 DEF Inv, LockInv, CanStep
    <3> QED
      BY <3>1, <3>2 DEF CanStep
  <2> QED
    BY <2>1, DrainInPort DEF PortGoesOn
<1>2. Init => OwnerInv
  BY DEF Init, OwnerInv
<1> QED
  BY <1>1, <1>2, OwnerStep, TypeInit, TypeStep, InvInit, InvStep, PTL DEF Spec

\* Packets posted behind it leave a packet where it is.
LEMMA StaysAt ==
    ASSUME TypeOK, NEW i \in Pipes, NEW m, At(i, m),
           iocp' = iocp \/ \E p : Post(p),
           \A t \in Holding(i) : pc'[t] = pc[t] /\ packet'[t] = packet[t]
    PROVE  At(i, m)'
<1>1. Holding(i) \subseteq Holding(i)'
  BY DEF Holding
<1>2. \A n \in DOMAIN iocp : n \in DOMAIN iocp' /\ iocp'[n] = iocp[n]
  BY DEF Post, TypeOK, PortType
<1>3. Queued(i) \subseteq Queued(i)'
  BY <1>2 DEF Queued
<1> QED
  BY <1>1, <1>3 DEF At

\* The n-th packet becomes the one before; the first is dequeued.
LEMMA MovesUp ==
    ASSUME TypeOK, NEW i \in Pipes, NEW t \in Threads, GetPacket(t), NEW m \in Nat, At(i, m)
    PROVE  IF m = 0 THEN At(i, 0)' ELSE At(i, m - 1)'
<1>1. /\ pc[t] = "idle" /\ iocp # << >> /\ iocp' = Tail(iocp)
      /\ pc' = [pc EXCEPT ![t] = "got"]
      /\ packet' = [packet EXCEPT ![t] = Head(iocp)]
  BY DEF GetPacket
<1>2. /\ Head(iocp) = iocp[1] /\ DOMAIN iocp = 1 .. Len(iocp)
      /\ \A n \in DOMAIN iocp : n # 1 => n - 1 \in DOMAIN iocp' /\ iocp'[n - 1] = iocp[n]
  BY <1>1, TailEntries DEF TypeOK, PortType
<1>3. /\ packet'[t] = iocp[1] /\ pc'[t] = "got"
      /\ \A u \in Threads : u # t => packet'[u] = packet[u] /\ pc'[u] = pc[u]
  BY <1>1, <1>2 DEF TypeOK, ThreadType
<1>4. Holding(i) \subseteq Holding(i)'
  BY <1>1, <1>3 DEF Holding
<1>5. CASE m \in Queued(i) /\ m # 1
  <2>1. m - 1 \in Queued(i)' /\ m # 0
    BY <1>2, <1>5 DEF Queued
  <2> QED
    BY <2>1 DEF At
<1>6. CASE m \in Queued(i) /\ m = 1
  <2>1. t \in Holding(i)'
    BY <1>3, <1>6 DEF Queued, Holding
  <2> QED
    BY <1>6, <2>1 DEF At
<1>7. CASE m = 0 /\ Holding(i) # {}
  BY <1>4, <1>7 DEF At
<1> QED
  BY <1>5, <1>6, <1>7 DEF At

(* While a pipe is disconnecting its packet only moves up in the queue,    *)
(* one place each time that any packet is dequeued, and once dequeued it   *)
(* stays with its thread; nothing but its service changes the state, and   *)
(* that makes the pipe unconnected.                                        *)
THEOREM DrainIsRunDown == Spec => DrainRunsDown
<1>1. ASSUME TypeOK, Inv, Next, NEW i \in Pipes, state[i] = DisconnectingReading
      PROVE  \/ state'[i] = UNCONNECTED /\ \E t \in Holding(i) : Service(t)
             \/ /\ state'[i] = DisconnectingReading
                /\ \E m, n \in Nat :
                     /\ At(i, m) /\ At(i, n)' /\ n <= m
                     /\ (\E t \in Threads : GetPacket(t)) => n < m \/ m = 0
  <2>1. critSec[i] = NoThread
    BY <1>1, DrainInPort
  <2>2. PICK m \in Nat : At(i, m)
    <3>1. Queued(i) \subseteq Nat
      BY <1>1 DEF Queued, TypeOK, PortType
    <3> QED
      BY <1>1, <3>1, DrainInPort DEF At
  <2>3. ASSUME NEW t \in Threads, GetPacket(t)
        PROVE  /\ state'[i] = DisconnectingReading
               /\ \E n \in Nat : At(i, n)' /\ n <= m /\ (n < m \/ m = 0)
    <3>1. state'[i] = DisconnectingReading
      BY <1>1, <2>3 DEF GetPacket
    <3>2. CASE m = 0
      BY <1>1, <2>2, <2>3, <3>1, <3>2, MovesUp
    <3>3. CASE m # 0
      <4>1. At(i, m - 1)' /\ m - 1 \in Nat
        BY <1>1, <2>2, <2>3, <3>3, MovesUp
      <4> QED
        BY <3>1, <4>1
    <3> QED
      BY <3>2, <3>3
  <2>s. ASSUME state'[i] = state[i], iocp' = iocp \/ \E p : Post(p),
               \A t \in Holding(i) : pc'[t] = pc[t] /\ packet'[t] = packet[t]
        PROVE  At(i, m)' /\ state'[i] = DisconnectingReading
    BY <1>1, <2>2, <2>s, StaysAt
  <2>h. ASSUME NEW t \in Threads, t \notin Holding(i), NEW label,
               pc' = [pc EXCEPT ![t] = label], packet' = packet \/
               packet' = [packet EXCEPT ![t] = NoPacket]
        PROVE  \A u \in Holding(i) : pc'[u] = pc[u] /\ packet'[u] = packet[u]
    BY <1>1, <2>h DEF Holding, TypeOK, ThreadType
  <2>4. ASSUME NEW t \in Threads, NEW j \in Pipes,
               ConnectInstance(t, j) \/ ReadInstance(t, j) \/ DisconnectInstance(t, j)
        PROVE  At(i, m)' /\ state'[i] = DisconnectingReading
    <3>1. /\ pc[t] = "idle" /\ packet' = packet /\ state' = state
          /\ \E label : pc' = [pc EXCEPT ![t] = label]
      BY <2>4, Zenon DEF ConnectInstance, ReadInstance, DisconnectInstance, CanEnter, Enter
    <3>2. iocp' = iocp \/ \E p : Post(p)
      BY <2>4, Zenon DEF ConnectInstance, ConnectNamedPipe, ReadInstance, ReadFile,
                  DisconnectInstance, DisconnectNamedPipe, CancelIoEx, Complete
    <3>3. t \notin Holding(i)
      BY <3>1 DEF Holding
    <3> QED
      BY <2>s, <2>h, <3>1, <3>2, <3>3
  <2>5. ASSUME NEW t \in Threads, NEW j \in Pipes,
               FinishConnect(t, j) \/ FinishRead(t, j) \/ FinishDisconnect(t, j)
        PROVE  At(i, m)' /\ state'[i] = DisconnectingReading
    <3>1. /\ critSec[j] = t /\ pc[t] # "got" /\ packet' = packet /\ iocp' = iocp
          /\ pc' = [pc EXCEPT ![t] = "idle"]
          /\ \E new : state' = [state EXCEPT ![j] = new]
      BY <2>5 DEF FinishConnect, FinishRead, FinishDisconnect, Leave, osVars
    <3>2. i # j
      BY <2>1, <3>1, PipeAssumption
    <3>3. t \notin Holding(i) /\ state'[i] = state[i]
      BY <1>1, <3>1, <3>2 DEF Holding, TypeOK, ServerType
    <3> QED
      BY <2>s, <2>h, <3>1, <3>3
  <2>6. ASSUME NEW t \in Threads, Discard(t)
        PROVE  At(i, m)' /\ state'[i] = DisconnectingReading
    <3>1. t \notin Holding(i)
      BY <1>1, <2>6, OperationPackets DEF Discard, PipePackets
    <3>2. /\ packet' = [packet EXCEPT ![t] = NoPacket] /\ iocp' = iocp /\ state' = state
          /\ pc' = [pc EXCEPT ![t] = "idle"]
      BY <2>6 DEF Discard, osVars
    <3> QED
      BY <2>s, <2>h, <3>1, <3>2
  <2>7. ASSUME NEW t \in Threads, Service(t)
        PROVE  \/ state'[i] = UNCONNECTED /\ t \in Holding(i)
               \/ At(i, m)' /\ state'[i] = DisconnectingReading
    <3>1. PICK j \in Pipes : j = packet[t].pipe
      BY <1>1, <2>7, ServiceType
    <3>2. /\ iocp' = iocp /\ pc[t] = "got" /\ pc' = [pc EXCEPT ![t] = "idle"]
          /\ packet' = [packet EXCEPT ![t] = NoPacket]
          /\ (\E new : state' = [state EXCEPT ![j] = new]) \/ state' = state
      BY <1>1, <2>7, <3>1, ServiceOutcomes DEF Service
    <3>3. CASE i = j
      <4>1. state' = [state EXCEPT ![i] = UNCONNECTED]
        BY <1>1, <2>7, <3>1, <3>3, StatesDiffer
           DEF Service, ServiceCases, Serviced, InvalidState
      <4>2. state'[i] = UNCONNECTED /\ t \in Holding(i)
        BY <1>1, <3>1, <3>2, <3>3, <4>1 DEF Holding, TypeOK, ServerType
      <4> QED
        BY <4>2
    <3>4. CASE i # j
      <4>1. t \notin Holding(i) /\ state'[i] = state[i]
        BY <1>1, <3>1, <3>2, <3>4 DEF Holding, TypeOK, ServerType
      <4> QED
        BY <2>s, <2>h, <3>2, <4>1
    <3> QED
      BY <3>3, <3>4
  <2>8. ASSUME Environment PROVE At(i, m)' /\ state'[i] = DisconnectingReading
    <3>1. UNCHANGED <<pc, packet, state>> /\ (iocp' = iocp \/ \E p : Post(p))
      BY <2>8, Zenon DEF Environment, PeerOpen, PeerWrite, PeerClose, PostForeign, Complete,
                  threadVars
    <3> QED
      BY <2>s, <3>1
  <2>9. CASE \E t \in Threads : GetPacket(t)
    BY <2>2, <2>3, <2>9
  <2>10. CASE ~ \E t \in Threads : GetPacket(t)
    <3>1. \/ state'[i] = UNCONNECTED /\ \E t \in Holding(i) : Service(t)
          \/ At(i, m)' /\ state'[i] = DisconnectingReading
      BY <1>1, <2>4, <2>5, <2>6, <2>7, <2>8, <2>10, Zenon DEF Next, Calls
    <3>2. m <= m
      OBVIOUS
    <3> QED
      BY <2>2, <2>10, <3>1, <3>2, Zenon
  <2> QED
    BY <2>9, <2>10
<1>2. TypeOK /\ Inv /\ [Next]_vars => [DrainNearer]_vars
  BY <1>1 DEF DrainNearer
<1> QED
  BY <1>2, Invariance, PTL DEF Spec, DrainRunsDown
=============================================================================
