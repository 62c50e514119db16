------------------------ MODULE SharedMemory_proofs -------------------------
(***************************************************************************)
(* Proofs about the shared-memory channel, for any clients, workers, texts *)
(* and bounds.  TypeOK is inductive.  Who may use the memory is told by    *)
(* TokenAt: every step leaves the token where it is or moves it to one     *)
(* other place, and the two events are never both signaled.  ContentInv    *)
(* tells what is in the memory, wherever the token is; with the order of   *)
(* the texts (OrderInv) it shows that the channel is a mailbox.  WayInv    *)
(* adds who owns the lock on the buffer, and shows that the token always   *)
(* has a way back to the clients.                                          *)
(***************************************************************************)
EXTENDS SharedMemory, FiniteSetTheorems, TLAPS

USE SharedMemoryAssumption
USE DEF TakeSvToCl, TakeClToSv, HasPacket, Lock, Unlock, FreeMemory

\* What a text is, for a client that writes it.
LEMMA TextCharacters ==
    ASSUME NEW x \in Texts
    PROVE  /\ x \in Seq(STRING) /\ Len(x) \in Nat
           /\ \A k \in 1 .. Len(x) : x[k] \in STRING
  <1>1. x \in Seq(STRING \ {Nul})
    OBVIOUS
  <1>2. QED
    BY <1>1

\* The text in the memory is no longer than the memory.
LEMMA TextFits ==
    Cardinality(TextCells) \in 0 .. BufferSize
  <1>1. IsFiniteSet(Cells) /\ Cardinality(Cells) = BufferSize
    BY FS_Interval DEF Cells
  <1>2. TextCells \subseteq Cells
    BY DEF TextCells
  <1>3. QED
    BY <1>1, <1>2, FS_Subset, FS_CardinalityType

LEMMA TextInMemoryType ==
    ASSUME TypeOK
    PROVE  TextInMemory \in Seq(STRING)
  <1> DEFINE n == Cardinality(TextCells)
  <1>1. n \in 0 .. BufferSize
    BY TextFits
  <1>2. \A k \in 1 .. n : memory[k] \in STRING
    BY <1>1 DEF TypeOK, Cells
  <1>3. QED
    BY <1>1, <1>2 DEF TextInMemory

-----------------------------------------------------------------------------
LEMMA TypeInit == Init => TypeOK
  <1> SUFFICES ASSUME Init PROVE TypeOK
    OBVIOUS
  <1> USE DEF Init
  <1>1. << >> \in Seq(STRING) /\ << >> \in Seq(Texts) /\ << >> \in Seq(Seq(STRING))
    OBVIOUS
  <1>2. svToCl \in BOOLEAN /\ clToSv \in BOOLEAN
    OBVIOUS
  <1>3. QED
    BY <1>1, <1>2 DEF TypeOK

LEMMA TypeStep == TypeOK /\ [Next]_vars => TypeOK'
  <1> SUFFICES ASSUME TypeOK, [Next]_vars PROVE TypeOK'
    OBVIOUS
  <1> USE DEF TypeOK
  <1>1. ASSUME NEW c \in Clients, BeginWrite(c) PROVE TypeOK'
    <2>1. svToCl' \in BOOLEAN
      BY <1>1 DEF BeginWrite
    <2>2. QED
      BY <1>1, <2>1 DEF BeginWrite, serverVars
  <1>2. ASSUME NEW c \in Clients, WriteCell(c) PROVE TypeOK'
    <2>1. text[c] \in Texts /\ cells[c] \in Nat
      BY <1>2 DEF WriteCell
    <2>2. text[c][cells[c] + 1] \in STRING
      BY <1>2, <2>1, TextCharacters DEF WriteCell
    <2>3. memory' \in [Cells -> STRING]
      BY <1>2, <2>2 DEF WriteCell
    <2>4. QED
      BY <1>2, <2>1, <2>3 DEF WriteCell, serverVars
  <1>3. ASSUME NEW c \in Clients, SignalServer(c) PROVE TypeOK'
    <2>1. clToSv' \in BOOLEAN
      BY <1>3 DEF SignalServer
    <2>2. written' \in Seq(Texts)
      BY <1>3 DEF SignalServer
    <2>3. QED
      BY <1>3, <2>1, <2>2 DEF SignalServer, serverVars
  <1>4. ASSUME NEW c \in Clients, KillClient(c) PROVE TypeOK'
    BY <1>4 DEF KillClient, serverVars
  <1>5. CASE WaiterWakes
    <2>1. clToSv' \in BOOLEAN
      BY <1>5 DEF WaiterWakes
    <2>2. QED
      BY <1>5, <2>1 DEF WaiterWakes, clientVars, serverVars
  <1>6. CASE WaiterPosts
    BY <1>6 DEF WaiterPosts, clientVars, serverVars
  <1>7. ASSUME NEW w \in Workers, Dequeue(w) PROVE TypeOK'
    BY <1>7 DEF Dequeue, clientVars
  <1>8. ASSUME NEW w \in Workers, LockBuffer(w) PROVE TypeOK'
    BY <1>8 DEF LockBuffer, clientVars
  <1>9. ASSUME NEW w \in Workers, CopyMemory(w) PROVE TypeOK'
    <2>1. serverBuffer' \in Seq(STRING)
      BY <1>9, TextInMemoryType DEF CopyMemory
    <2>2. QED
      BY <1>9, <2>1 DEF CopyMemory, clientVars
  <1>10. ASSUME NEW w \in Workers, MapViewFails(w) PROVE TypeOK'
    BY <1>10 DEF MapViewFails, clientVars
  <1>11. ASSUME NEW w \in Workers, SignalClient(w) PROVE TypeOK'
    <2>1. svToCl' \in BOOLEAN
      BY <1>11 DEF SignalClient
    <2>2. QED
      BY <1>11, <2>1 DEF SignalClient, clientVars
  <1>12. ASSUME NEW w \in Workers, Handle(w) PROVE TypeOK'
    <2>1. received' \in Seq(Seq(STRING))
      BY <1>12 DEF Handle
    <2>2. QED
      BY <1>12, <2>1 DEF Handle, clientVars
  <1>13. ASSUME NEW w \in Workers, CopyOverflows(w) PROVE TypeOK'
    BY <1>13 DEF CopyOverflows, clientVars
  <1>14. CASE UNCHANGED vars
    BY <1>14 DEF vars, clientVars, serverVars
  <1>15. QED
    BY <1>1, <1>2, <1>3, <1>4, <1>5, <1>6, <1>7, <1>8, <1>9, <1>10, <1>11,
       <1>12, <1>13, <1>14 DEF Next, Write, Waiter, Worker

(* Type correctness of the channel (SharedMemory.tla): in particular what  *)
(* getData copies is a text, and the count of packets never goes below     *)
(* zero.                                                                   *)
THEOREM TypeCorrect == Spec => []TypeOK
  <1>1. QED
    BY TypeInit, TypeStep, PTL DEF Spec

-----------------------------------------------------------------------------
LEMMA OneTokenInit == Init => OneToken
  <1> SUFFICES ASSUME Init PROVE TokenAt("svToCl")
    BY DEF OneToken, Places
  <1>1. QED
    BY DEF Init, TokenAt

(* Every step takes the token to the place that its action says; only a    *)
(* fault loses it.                                                         *)
LEMMA OneTokenStep == TypeOK /\ OneToken /\ [Next]_vars => OneToken'
  <1> SUFFICES ASSUME TypeOK, [Next]_vars,
                      NEW h \in Places, TokenAt(h)
               PROVE  OneToken'
    BY DEF OneToken
  <1> SUFFICES \E g \in Places : TokenAt(g)'
    BY DEF OneToken, Places
  <1> USE DEF TypeOK, TokenAt, Places
  <1>1. ASSUME NEW c \in Clients, BeginWrite(c) PROVE TokenAt(c)'
    BY <1>1 DEF BeginWrite, serverVars
  <1>2. ASSUME NEW c \in Clients, WriteCell(c) PROVE TokenAt(h)'
    BY <1>2 DEF WriteCell, serverVars
  <1>3. ASSUME NEW c \in Clients, SignalServer(c) PROVE TokenAt("clToSv")'
    BY <1>3 DEF SignalServer, serverVars
  <1>4. ASSUME NEW c \in Clients, KillClient(c) PROVE TokenAt("lost")'
    BY <1>4 DEF KillClient, serverVars
  <1>5. CASE WaiterWakes
    <2>1. TokenAt("waiter")'
      BY <1>5 DEF WaiterWakes, clientVars, serverVars
    <2>2. QED
      BY <2>1
  <1>6. CASE WaiterPosts
    <2>1. TokenAt("port")'
      BY <1>6 DEF WaiterPosts, clientVars, serverVars
    <2>2. QED
      BY <2>1
  <1>7. ASSUME NEW w \in Workers, Dequeue(w) PROVE TokenAt(w)'
    BY <1>7 DEF Dequeue, clientVars
  <1>8. ASSUME NEW w \in Workers, LockBuffer(w) PROVE TokenAt(h)'
    BY <1>8 DEF LockBuffer, clientVars
  <1>9. ASSUME NEW w \in Workers, CopyMemory(w) PROVE TokenAt(h)'
    BY <1>9 DEF CopyMemory, clientVars
  <1>10. ASSUME NEW w \in Workers, MapViewFails(w) PROVE TokenAt("lost")'
    BY <1>10 DEF MapViewFails, clientVars
  <1>11. ASSUME NEW w \in Workers, SignalClient(w) PROVE TokenAt("svToCl")'
    BY <1>11 DEF SignalClient, clientVars
  <1>12. ASSUME NEW w \in Workers, Handle(w) PROVE TokenAt(h)'
    BY <1>12 DEF Handle, clientVars
  <1>13. ASSUME NEW w \in Workers, CopyOverflows(w) PROVE TokenAt(h)'
    BY <1>13 DEF CopyOverflows, clientVars
  <1>14. CASE UNCHANGED vars
    <2>1. TokenAt(h)'
      BY <1>14 DEF vars, clientVars, serverVars
    <2>2. QED
      BY <2>1
  <1> HIDE DEF TypeOK, TokenAt
  <1>15. QED
    BY <1>1, <1>2, <1>3, <1>4, <1>5, <1>6, <1>7, <1>8, <1>9, <1>10, <1>11,
       <1>12, <1>13, <1>14 DEF Next, Write, Waiter, Worker

(* The right to use the memory is in one place at a time, through any      *)
(* interleaving of the clients, the waiter thread and the workers, and is  *)
(* lost only when a client is killed while it writes or the view cannot be *)
(* mapped.                                                                 *)
THEOREM TokenIsUnique == Spec => []OneToken
  <1>1. QED
    BY TypeInit, TypeStep, OneTokenInit, OneTokenStep, PTL DEF Spec

(* getData never copies the memory while a client writes it, and no two    *)
(* clients write it together: a client that writes and a worker that       *)
(* copies would each hold the token.                                       *)
THEOREM MemoryIsExclusive == Spec => []MemoryExclusive
  <1>1. OneToken => MemoryExclusive
    <2> SUFFICES ASSUME NEW h \in Places, TokenAt(h) PROVE MemoryExclusive
      BY DEF OneToken
    <2>1. QED
      BY DEF TokenAt, MemoryExclusive
  <1>2. QED
    BY <1>1, TokenIsUnique, PTL

-----------------------------------------------------------------------------
(* What is in the memory.  From the moment a client signals until a worker *)
(* has copied it, the memory begins with the last text written; and beyond *)
(* a length that no text passes without filling the memory, every cell is  *)
(* Nul until a text fills it.                                              *)

Last == written[Len(written)]
Full(x) == Len(x) = BufferSize

\* The last text is written, and not yet copied.
Signaled ==
    \/ clToSv \/ waiter = "post" \/ queued > 0
    \/ \E w \in Workers : wpc[w] \in {"got", "getData", "crashed"}

WritingInv ==
    \A c \in Clients :
        /\ cpc[c] = "writing" =>
             cells[c] <= Len(text[c]) /\ \A k \in 1 .. cells[c] : memory[k] = text[c][k]
        /\ cpc[c] = "killed" => faults > 0

SignaledInv ==
    Signaled => written # << >> /\ \A k \in 1 .. Len(Last) : memory[k] = Last[k]

FullInv ==
    /\ \A n \in 1 .. Len(written) - 1 : ~Full(written[n])
    /\ written # << >> /\ Full(Last) => Signaled \/ faults > 0
    /\ Crashed => Full(Last)

FullWritten ==
    \/ \E c \in Clients : cpc[c] \in {"writing", "killed"} /\ Full(text[c])
    \/ written # << >> /\ Full(Last)

NulBeyond(L) == FullWritten \/ \A k \in Cells : k > L => memory[k] = Nul

Short(L) == L \in 0 .. BufferSize - 1 /\ \A x \in Texts : Len(x) <= L \/ Full(x)

ContentInv(L) == WritingInv /\ SignaledInv /\ FullInv /\ NulBeyond(L)

\* Who holds the token excludes the others.
LEMMA TokenExcludes ==
    ASSUME TypeOK, OneToken
    PROVE  /\ \A c \in Clients : cpc[c] = "writing" =>
                ~Signaled /\ faults = 0 /\ \A d \in Clients : cpc[d] = "writing" => d = c
           /\ svToCl => ~Signaled /\ faults = 0
           /\ Signaled => faults = 0
           /\ Crashed => Signaled
           /\ \A w \in Workers : wpc[w] = "copied" => ~Signaled /\ faults = 0
           /\ \A v, w \in Workers :
                /\ wpc[v] \in {"got", "getData", "crashed", "copied"}
                /\ wpc[w] \in {"got", "getData", "crashed", "copied"}
                => v = w
  <1>1. PICK h \in Places : TokenAt(h)
    BY DEF OneToken
  <1>2. QED
    BY <1>1 DEF TokenAt, Places, Signaled, Crashed, TypeOK

LEMMA ContentInit ==
    ASSUME NEW L, Short(L), Init PROVE ContentInv(L)
  BY DEF Init, ContentInv, WritingInv, SignaledInv, FullInv, NulBeyond, Signaled, Crashed

\* The steps of the server leave the memory and what is written alone.
LEMMA ServerKeepsContent ==
    ASSUME TypeOK, NEW L, ContentInv(L),
           UNCHANGED <<memory, cpc, text, cells, written>>,
           faults' \in Nat, faults' >= faults,
           Signaled' => Signaled,
           Crashed' => Crashed \/ Full(Last),
           written # << >> /\ Full(Last) /\ Signaled => Signaled' \/ faults' > 0
    PROVE  ContentInv(L)'
  <1>1. faults \in Nat
    BY DEF TypeOK
  <1>2. Last' = Last
    BY DEF Last
  <1>3. WritingInv'
    BY <1>1 DEF ContentInv, WritingInv
  <1>4. SignaledInv'
    BY <1>2 DEF ContentInv, SignaledInv
  <1>5. FullInv'
    BY <1>1, <1>2 DEF ContentInv, FullInv, Full
  <1>6. NulBeyond(L)'
    BY <1>2 DEF ContentInv, NulBeyond, FullWritten, Full
  <1>7. QED
    BY <1>3, <1>4, <1>5, <1>6 DEF ContentInv

\* A text that fills the memory leaves no Nul in it, and only such a text.
LEMMA FullMemory ==
    ASSUME TypeOK, OneToken, NEW L, Short(L), ContentInv(L),
           NEW w \in Workers, wpc[w] = "getData"
    PROVE  MemoryFull <=> Full(Last)
  <1>1. Signaled /\ faults = 0 /\ \A c \in Clients : cpc[c] = "idle"
    BY TokenExcludes DEF Signaled, ContentInv, WritingInv, TypeOK
  <1>2. /\ written # << >> /\ Last \in Texts
        /\ \A k \in 1 .. Len(Last) : memory[k] = Last[k]
    BY <1>1 DEF ContentInv, SignaledInv, TypeOK, Last
  <1>3. ASSUME Full(Last) PROVE MemoryFull
    <2>1. \A k \in Cells : memory[k] # Nul
      BY <1>2, <1>3 DEF Full, Cells
    <2>2. QED
      BY <2>1 DEF MemoryFull, TextCells, Cells
  <1>4. ASSUME MemoryFull PROVE Full(Last)
    <2>1. BufferSize \in Cells /\ BufferSize > L
      BY DEF Short, Cells
    <2>2. memory[BufferSize] # Nul
      BY <1>4, <2>1 DEF MemoryFull, TextCells, Cells
    <2>3. FullWritten
      BY <2>1, <2>2 DEF ContentInv, NulBeyond
    <2>4. QED
      BY <1>1, <2>3 DEF FullWritten
  <1>5. QED
    BY <1>3, <1>4

LEMMA ServerContent ==
    ASSUME TypeOK, OneToken, NEW L, Short(L), ContentInv(L),
           Waiter \/ \E w \in Workers : Worker(w) \/ MapViewFails(w)
    PROVE  ContentInv(L)'
  <1> USE DEF Signaled, Crashed, TypeOK
  <1>1. CASE WaiterWakes
    BY <1>1, ServerKeepsContent DEF WaiterWakes, clientVars, serverVars
  <1>2. CASE WaiterPosts
    BY <1>2, ServerKeepsContent DEF WaiterPosts, clientVars, serverVars
  <1>3. ASSUME NEW w \in Workers, Dequeue(w) PROVE ContentInv(L)'
    BY <1>3, ServerKeepsContent DEF Dequeue, clientVars
  <1>4. ASSUME NEW w \in Workers, LockBuffer(w) PROVE ContentInv(L)'
    BY <1>4, ServerKeepsContent DEF LockBuffer, clientVars
  <1>5. ASSUME NEW w \in Workers, CopyMemory(w) PROVE ContentInv(L)'
    <2>1. ~Full(Last)
      BY <1>5, FullMemory DEF CopyMemory
    <2>2. QED
      BY <1>5, <2>1, ServerKeepsContent DEF CopyMemory, clientVars
  <1>6. ASSUME NEW w \in Workers, CopyOverflows(w) PROVE ContentInv(L)'
    <2>1. Full(Last)
      BY <1>6, FullMemory DEF CopyOverflows
    <2>2. QED
      BY <1>6, <2>1, ServerKeepsContent DEF CopyOverflows, clientVars
  <1>7. ASSUME NEW w \in Workers, MapViewFails(w) PROVE ContentInv(L)'
    BY <1>7, ServerKeepsContent DEF MapViewFails, clientVars
  <1>8. ASSUME NEW w \in Workers, SignalClient(w) PROVE ContentInv(L)'
    <2>1. \A v \in Workers :
              wpc'[v] # wpc[v] =>
                wpc'[v] \in {"handle", "wait"} /\ wpc[v] \in {"copied", "handle"}
      BY <1>8 DEF SignalClient
    <2>2. Signaled' <=> Signaled
      BY <1>8, <2>1 DEF SignalClient
    <2>3. Crashed' => Crashed
      BY <2>1
    <2>4. UNCHANGED <<memory, cpc, text, cells, written, faults>>
      BY <1>8 DEF SignalClient, clientVars
    <2>5. faults' \in Nat /\ faults' >= faults
      BY <2>4
    <2> HIDE DEF Signaled, Crashed, TypeOK
    <2>6. QED
      BY <2>2, <2>3, <2>4, <2>5, ServerKeepsContent
  <1>9. ASSUME NEW w \in Workers, Handle(w) PROVE ContentInv(L)'
    <2>1. \A v \in Workers :
              wpc'[v] # wpc[v] =>
                wpc'[v] \in {"handle", "wait"} /\ wpc[v] \in {"copied", "handle"}
      BY <1>9 DEF Handle
    <2>2. Signaled' <=> Signaled
      BY <1>9, <2>1 DEF Handle
    <2>3. Crashed' => Crashed
      BY <2>1
    <2>4. UNCHANGED <<memory, cpc, text, cells, written, faults>>
      BY <1>9 DEF Handle, clientVars
    <2>5. faults' \in Nat /\ faults' >= faults
      BY <2>4
    <2> HIDE DEF Signaled, Crashed, TypeOK
    <2>6. QED
      BY <2>2, <2>3, <2>4, <2>5, ServerKeepsContent
  <1>10. QED
    BY <1>1, <1>2, <1>3, <1>4, <1>5, <1>6, <1>7, <1>8, <1>9 DEF Waiter, Worker

\* The steps of the clients.
LEMMA BeginWriteContent ==
    ASSUME TypeOK, OneToken, NEW L, Short(L), ContentInv(L),
           NEW c \in Clients, BeginWrite(c)
    PROVE  ContentInv(L)'
  <1>1. ~Signaled /\ faults = 0 /\ svToCl
    BY TokenExcludes DEF BeginWrite
  <1>2. /\ cpc' = [cpc EXCEPT ![c] = "writing"] /\ cells'[c] = 0
        /\ \A d \in Clients \ {c} : text'[d] = text[d] /\ cells'[d] = cells[d]
        /\ UNCHANGED <<memory, written, faults, clToSv, waiter, queued, wpc>>
    BY DEF BeginWrite, serverVars, TypeOK
  <1>3. Signaled' = Signaled /\ Last' = Last /\ Crashed' = Crashed
    BY <1>2 DEF Signaled, Last, Crashed
  <1>4. ~(written # << >> /\ Full(Last))
    BY <1>1 DEF ContentInv, FullInv
  <1>5. WritingInv'
    BY <1>2 DEF ContentInv, WritingInv, TypeOK, BeginWrite
  <1>6. SignaledInv' /\ FullInv'
    BY <1>1, <1>2, <1>3 DEF ContentInv, SignaledInv, FullInv, Full
  <1>7. NulBeyond(L)'
    <2>1. \A d \in Clients : cpc[d] # "killed"
      BY <1>1 DEF ContentInv, WritingInv
    <2>2. \A d \in Clients : cpc[d] # "writing"
      BY <1>1, OneToken DEF OneToken, TokenAt
    <2>3. \A k \in Cells : k > L => memory[k] = Nul
      BY <1>4, <2>1, <2>2 DEF ContentInv, NulBeyond, FullWritten
    <2>4. QED
      BY <1>2, <2>3 DEF NulBeyond, Cells
  <1>8. QED
    BY <1>5, <1>6, <1>7 DEF ContentInv

LEMMA WriteCellContent ==
    ASSUME TypeOK, OneToken, NEW L, Short(L), ContentInv(L),
           NEW c \in Clients, WriteCell(c)
    PROVE  ContentInv(L)'
  <1>1. /\ cpc[c] = "writing" /\ ~Signaled
        /\ \A d \in Clients : cpc[d] = "writing" => d = c
    BY TokenExcludes DEF WriteCell
  <1>2. text[c] \in Texts /\ cells[c] \in Nat /\ cells[c] < Len(text[c])
    BY <1>1 DEF WriteCell, TypeOK
  <1>3. /\ cells' = [cells EXCEPT ![c] = @ + 1]
        /\ memory' = [memory EXCEPT ![cells[c] + 1] = text[c][cells[c] + 1]]
        /\ UNCHANGED <<cpc, text, written, faults, clToSv, waiter, queued, wpc>>
    BY DEF WriteCell, serverVars
  <1>4. cells[c] + 1 \in Cells /\ Len(text[c]) \in Nat
    BY <1>2, TextCharacters DEF Cells
  <1>5. Signaled' = Signaled /\ Last' = Last /\ Crashed' = Crashed
    BY <1>3 DEF Signaled, Last, Crashed
  <1>6. WritingInv'
    <2>1. cells'[c] <= Len(text[c])
      BY <1>2, <1>3, <1>4 DEF TypeOK
    <2>2. \A k \in 1 .. cells'[c] : memory'[k] = text[c][k]
      <3>1. cells'[c] = cells[c] + 1
        BY <1>3 DEF TypeOK
      <3>2. \A k \in 1 .. cells[c] : memory[k] = text[c][k]
        BY <1>1 DEF ContentInv, WritingInv
      <3>3. \A k \in Cells :
                memory'[k] = IF k = cells[c] + 1 THEN text[c][k] ELSE memory[k]
        BY <1>3, <1>4 DEF TypeOK
      <3>4. \A k \in 1 .. cells[c] + 1 :
                k \in Cells /\ (k \in 1 .. cells[c] \/ k = cells[c] + 1)
        BY <1>2, <1>4 DEF Cells
      <3>5. QED
        BY <3>1, <3>2, <3>3, <3>4
    <2>3. QED
      BY <1>1, <1>3, <2>1, <2>2 DEF ContentInv, WritingInv
  <1>7. SignaledInv' /\ FullInv'
    BY <1>1, <1>3, <1>5 DEF ContentInv, SignaledInv, FullInv, Full
  <1>8. NulBeyond(L)'
    <2>1. FullWritten' <=> FullWritten
      BY <1>3, <1>5 DEF FullWritten, Full
    <2>2. CASE FullWritten
      BY <2>1, <2>2 DEF NulBeyond
    <2>3. CASE ~FullWritten
      <3>1. ~Full(text[c])
        BY <1>1, <2>3 DEF FullWritten
      <3>2. cells[c] + 1 <= L
        BY <1>2, <1>4, <3>1 DEF Short
      <3>3. QED
        BY <1>3, <1>4, <2>3, <3>2 DEF ContentInv, NulBeyond, Cells, Short, TypeOK
    <2>4. QED
      BY <2>2, <2>3
  <1>9. QED
    BY <1>6, <1>7, <1>8 DEF ContentInv

LEMMA SignalServerContent ==
    ASSUME TypeOK, OneToken, NEW L, Short(L), ContentInv(L),
           NEW c \in Clients, SignalServer(c)
    PROVE  ContentInv(L)'
  <1>1. /\ cpc[c] = "writing" /\ ~Signaled /\ faults = 0 /\ ~Crashed
        /\ \A d \in Clients : cpc[d] = "writing" => d = c
    BY TokenExcludes DEF SignalServer
  <1>2. text[c] \in Texts /\ cells[c] = Len(text[c]) /\ written \in Seq(Texts)
    BY <1>1 DEF SignalServer, TypeOK
  <1>3. /\ cpc' = [cpc EXCEPT ![c] = "idle"] /\ clToSv' = TRUE
        /\ written' = Append(written, text[c])
        /\ UNCHANGED <<memory, text, cells, faults, wpc>>
    BY DEF SignalServer, serverVars
  <1>4. /\ Last' = text[c] /\ written' # << >> /\ Len(written') = Len(written) + 1
        /\ \A n \in 1 .. Len(written) : written'[n] = written[n]
    BY <1>2, <1>3 DEF Last
  <1>5. Signaled' /\ ~Crashed'
    BY <1>1, <1>3 DEF Signaled, Crashed
  <1>6. WritingInv'
    BY <1>3 DEF ContentInv, WritingInv, TypeOK
  <1>7. SignaledInv'
    BY <1>1, <1>2, <1>3, <1>4 DEF ContentInv, WritingInv, SignaledInv
  <1>8. FullInv'
    <2>1. \A n \in 1 .. Len(written) : ~Full(written[n])
      BY <1>1, <1>2 DEF ContentInv, FullInv, Last
    <2>2. QED
      BY <1>2, <1>4, <1>5, <2>1 DEF FullInv, Full
  <1>9. NulBeyond(L)'
    <2>1. CASE FullWritten
      <3>1. \A d \in Clients : cpc[d] # "killed"
        BY <1>1 DEF ContentInv, WritingInv
      <3>2. Full(text[c])
        BY <1>1, <2>1, <3>1 DEF FullWritten, ContentInv, FullInv
      <3>3. QED
        BY <1>4, <3>2 DEF NulBeyond, FullWritten, Full
    <2>2. CASE ~FullWritten
      BY <1>3, <2>2 DEF ContentInv, NulBeyond
    <2>3. QED
      BY <2>1, <2>2
  <1>10. QED
    BY <1>6, <1>7, <1>8, <1>9 DEF ContentInv

LEMMA KillClientContent ==
    ASSUME TypeOK, OneToken, NEW L, Short(L), ContentInv(L),
           NEW c \in Clients, KillClient(c)
    PROVE  ContentInv(L)'
  <1>1. cpc[c] = "writing" /\ ~Signaled /\ faults = 0 /\ ~Crashed
    BY TokenExcludes DEF KillClient
  <1>2. /\ cpc' = [cpc EXCEPT ![c] = "killed"] /\ faults' = 1
        /\ UNCHANGED <<memory, text, cells, written, clToSv, waiter, queued, wpc>>
    BY <1>1 DEF KillClient, serverVars
  <1>3. Signaled' = Signaled /\ Last' = Last /\ Crashed' = Crashed
    BY <1>2 DEF Signaled, Last, Crashed
  <1>4. WritingInv'
    BY <1>1, <1>2 DEF ContentInv, WritingInv, TypeOK
  <1>5. SignaledInv' /\ FullInv'
    BY <1>1, <1>2, <1>3 DEF ContentInv, SignaledInv, FullInv, Full
  <1>6. FullWritten' <=> FullWritten
    BY <1>1, <1>2, <1>3 DEF FullWritten, Full, TypeOK
  <1>7. QED
    BY <1>2, <1>4, <1>5, <1>6 DEF ContentInv, NulBeyond

LEMMA ContentStep ==
    ASSUME TypeOK, OneToken, NEW L, Short(L), ContentInv(L), [Next]_vars
    PROVE  ContentInv(L)'
  <1>1. CASE Next
    BY <1>1, BeginWriteContent, WriteCellContent, SignalServerContent,
       KillClientContent, ServerContent DEF Next, Write
  <1>2. CASE UNCHANGED vars
    BY <1>2, ServerKeepsContent
       DEF vars, clientVars, serverVars, Signaled, Crashed, TypeOK
  <1>3. QED
    BY <1>1, <1>2

\* A text that does not fill the memory leaves a cell free.
LEMMA NearlyShort == Short(BufferSize - 1)
  BY TextCharacters DEF Short, Full

(* EndsOnFullText: strcpy_s ends the server's process on a text that fills *)
(* the memory and on no other, whatever the clients write and however long *)
(* the texts before it were; no text is written after it.                  *)
THEOREM FullTextEndsServer == Spec => []EndsOnFullText
  <1> DEFINE I == TypeOK /\ OneToken /\ ContentInv(BufferSize - 1)
  <1>1. Init => I
    BY TypeInit, OneTokenInit, ContentInit, NearlyShort
  <1>2. I /\ [Next]_vars => I'
    BY TypeStep, OneTokenStep, ContentStep, NearlyShort
  <1>3. I => EndsOnFullText
    <2> SUFFICES ASSUME I PROVE EndsOnFullText
      OBVIOUS
    <2>1. \A n \in 1 .. Len(written) : written[n] \in Texts
      BY DEF TypeOK
    <2>2. \A n \in 1 .. Len(written) - 1 : Len(written[n]) < BufferSize
      BY <2>1 DEF ContentInv, FullInv, Full, TypeOK
    <2>3. Crashed => written # << >> /\ Full(Last)
      BY TokenExcludes DEF ContentInv, FullInv, SignaledInv
    <2>4. QED
      BY <2>2, <2>3 DEF EndsOnFullText, Full, Last
  <1>4. QED
    BY <1>1, <1>2, <1>3, PTL DEF Spec
-----------------------------------------------------------------------------
(* The channel as a mailbox, when the texts that leave room for a Nul have *)
(* one length.                                                             *)

Handling == \E w \in Workers : wpc[w] \in {"copied", "handle"}

LockInv ==
    \A w \in Workers :
        wpc[w] \in {"getData", "crashed", "copied", "handle"} => shMemBufferCS = w

UnderWay == (IF Handling THEN 1 ELSE 0) + (IF Signaled THEN 1 ELSE 0)

OrderInv ==
    /\ Len(received) + UnderWay <= Len(written)
    /\ faults = 0 => Len(received) + UnderWay = Len(written)
    /\ Handling => serverBuffer = written[Len(received) + 1]

OneLength(L) ==
    L \in 0 .. BufferSize - 1 /\ \A x \in Texts : Len(x) = L \/ Full(x)

BoxInv(L) == TypeOK /\ OneToken /\ ContentInv(L) /\ LockInv /\ OrderInv

\* What is copied is the last text written.
LEMMA CopiesLast ==
    ASSUME NEW L, OneLength(L), BoxInv(L), NEW w \in Workers,
           wpc[w] = "getData", ~MemoryFull
    PROVE  written # << >> /\ TextInMemory = Last
  <1> USE DEF BoxInv
  <1>1. Short(L)
    BY TextCharacters DEF OneLength, Short
  <1>2. Signaled /\ faults = 0 /\ \A c \in Clients : cpc[c] = "idle"
    BY TokenExcludes DEF Signaled, ContentInv, WritingInv, TypeOK
  <1>3. /\ written # << >> /\ Last \in Texts
        /\ \A k \in 1 .. Len(Last) : memory[k] = Last[k]
    BY <1>2 DEF ContentInv, SignaledInv, TypeOK, Last
  <1>4. ~Full(Last) /\ Len(Last) = L /\ Last \in Seq(STRING \ {Nul})
    BY <1>1, <1>3, FullMemory DEF OneLength
  <1>5. \A k \in Cells : k > L => memory[k] = Nul
    BY <1>2, <1>4 DEF ContentInv, NulBeyond, FullWritten
  <1>6. L + 1 \in Cells /\ 1 .. L \subseteq Cells
    BY DEF OneLength, Cells
  <1>7. \A k \in 1 .. L : memory[k] # Nul
    BY <1>3, <1>4
  <1>8. TextCells = 1 .. L
    <2>1. ASSUME NEW k \in TextCells PROVE k \in 1 .. L
      <3>1. k \in Cells /\ (k > L => L + 1 \in 1 .. k)
        BY <1>6 DEF TextCells, Cells, OneLength
      <3>2. memory[L + 1] = Nul
        BY <1>5, <1>6 DEF OneLength
      <3>3. QED
        BY <3>1, <3>2 DEF TextCells, Cells, OneLength
    <2>2. ASSUME NEW k \in 1 .. L PROVE k \in TextCells
      BY <1>6, <1>7 DEF TextCells, OneLength
    <2>3. QED
      BY <2>1, <2>2
  <1>9. Cardinality(TextCells) = L
    BY <1>8, FS_Interval DEF OneLength
  <1>10. TextInMemory = [k \in 1 .. L |-> Last[k]]
    BY <1>3, <1>4, <1>9 DEF TextInMemory
  <1>11. QED
    BY <1>3, <1>4, <1>10

LEMMA BoxInit ==
    ASSUME NEW L, OneLength(L), Init PROVE BoxInv(L)
  <1>1. Short(L)
    BY DEF OneLength, Short
  <1>2. LockInv /\ OrderInv
    BY DEF Init, LockInv, OrderInv, UnderWay, Handling, Signaled
  <1>3. QED
    BY <1>1, <1>2, TypeInit, OneTokenInit, ContentInit DEF BoxInv

LEMMA LockStep ==
    ASSUME TypeOK, LockInv, [Next]_vars PROVE LockInv'
  <1> USE DEF TypeOK, LockInv
  <1>1. ASSUME NEW c \in Clients, BeginWrite(c) \/ Write(c) \/ KillClient(c)
        PROVE  LockInv'
    BY <1>1 DEF BeginWrite, Write, WriteCell, SignalServer, KillClient, serverVars
  <1>2. CASE Waiter
    BY <1>2 DEF Waiter, WaiterWakes, WaiterPosts, serverVars
  <1>3. ASSUME NEW w \in Workers, Dequeue(w) \/ LockBuffer(w) PROVE LockInv'
    BY <1>3 DEF Dequeue, LockBuffer
  <1>4. ASSUME NEW w \in Workers, CopyMemory(w) \/ CopyOverflows(w) PROVE LockInv'
    BY <1>4 DEF CopyMemory, CopyOverflows
  <1>5. ASSUME NEW w \in Workers, SignalClient(w) PROVE LockInv'
    BY <1>5 DEF SignalClient
  <1>6. ASSUME NEW w \in Workers, Handle(w) \/ MapViewFails(w) PROVE LockInv'
    <2>1. \A v \in Workers \ {w} : wpc[v] \in {"wait", "got"} /\ wpc'[v] = wpc[v]
      BY <1>6 DEF Handle, MapViewFails
    <2>2. wpc'[w] = "wait"
      BY <1>6 DEF Handle, MapViewFails
    <2>3. QED
      BY <2>1, <2>2
  <1>7. CASE UNCHANGED vars
    BY <1>7 DEF vars, serverVars
  <1>8. QED
    BY <1>1, <1>2, <1>3, <1>4, <1>5, <1>6, <1>7 DEF Next, Worker

\* A step that neither writes, copies nor handles a text.
LEMMA OrderFrame ==
    ASSUME TypeOK, OrderInv, UNCHANGED <<written, received, serverBuffer>>,
           Handling' <=> Handling,
           faults' \in Nat,
           \/ (Signaled' <=> Signaled) /\ faults' >= faults
           \/ ~Signaled' /\ faults' > 0
    PROVE  OrderInv'
  <1>1. Len(received) \in Nat /\ Len(written) \in Nat /\ faults \in Nat
    BY DEF TypeOK
  <1>2. QED
    BY <1>1 DEF OrderInv, UnderWay
BoxMoves == Box!Write \/ Box!Receive \/ UNCHANGED <<written, received>>

LEMMA BoxWrites ==
    ASSUME NEW L, BoxInv(L), NEW c \in Clients, SignalServer(c)
    PROVE  OrderInv' /\ Box!Write
  <1> USE DEF BoxInv
  <1>1. cpc[c] = "writing" /\ ~Signaled /\ faults = 0 /\ text[c] \in Texts
    BY TokenExcludes DEF SignalServer, TypeOK
  <1>2. /\ clToSv' = TRUE /\ written' = Append(written, text[c])
        /\ UNCHANGED <<received, serverBuffer, faults, wpc>>
    BY DEF SignalServer, serverVars
  <1>3. Signaled' /\ (Handling' <=> Handling)
    BY <1>2 DEF Signaled, Handling
  <1>4. /\ written \in Seq(Texts) /\ Len(received) \in Nat
        /\ Len(received) + (IF Handling THEN 1 ELSE 0) = Len(written)
    BY <1>1 DEF TypeOK, OrderInv, UnderWay
  <1>5. OrderInv'
    <2>1. Len(written') = Len(written) + 1
      BY <1>2, <1>4
    <2>2. Handling => written'[Len(received) + 1] = written[Len(received) + 1]
      BY <1>2, <1>4
    <2>3. QED
      BY <1>2, <1>3, <1>4, <2>1, <2>2 DEF OrderInv, UnderWay
  <1>6. Len(written) < Len(received) + 2
    BY <1>4
  <1>7. QED
    BY <1>1, <1>2, <1>5, <1>6 DEF Box!Write

LEMMA BoxCopies ==
    ASSUME NEW L, OneLength(L), BoxInv(L), NEW w \in Workers, CopyMemory(w)
    PROVE  OrderInv' /\ UNCHANGED <<written, received>>
  <1> USE DEF BoxInv
  <1>1. wpc[w] = "getData" /\ Signaled /\ faults = 0
    BY TokenExcludes DEF CopyMemory, Signaled
  <1>2. ~Handling
    <2>1. NoWorker \notin Workers /\ shMemBufferCS = w
      BY <1>1 DEF LockInv
    <2>2. QED
      BY <1>1, <2>1 DEF LockInv, Handling
  <1>3. written # << >> /\ serverBuffer' = Last
    BY CopiesLast DEF CopyMemory
  <1>4. /\ wpc' = [wpc EXCEPT ![w] = "copied"]
        /\ UNCHANGED <<written, received, faults, clToSv, waiter, queued>>
    BY DEF CopyMemory
  <1>5. Handling' /\ ~Signaled'
    <2>1. ~clToSv /\ waiter # "post" /\ queued = 0
          /\ \A v \in Workers : wpc[v] \in {"got", "getData", "crashed"} => v = w
      BY <1>1, OneToken DEF OneToken, TokenAt, Places
    <2>2. QED
      BY <1>4, <2>1 DEF Handling, Signaled, TypeOK
  <1>6. Len(received) + 1 = Len(written) /\ Len(received) \in Nat
    BY <1>1, <1>2 DEF OrderInv, UnderWay, TypeOK
  <1>7. serverBuffer' = written[Len(received) + 1]
    BY <1>3, <1>6 DEF Last
  <1>8. QED
    BY <1>4, <1>5, <1>6, <1>7 DEF OrderInv, UnderWay

LEMMA BoxReceives ==
    ASSUME NEW L, BoxInv(L), NEW w \in Workers, Handle(w)
    PROVE  OrderInv' /\ Box!Receive
  <1> USE DEF BoxInv
  <1>1. Handling
    BY DEF Handle, Handling
  <1>2. /\ received' = Append(received, serverBuffer)
        /\ wpc' = [wpc EXCEPT ![w] = "wait"] /\ wpc[w] = "handle"
        /\ UNCHANGED <<written, serverBuffer, faults, clToSv, waiter, queued>>
    BY DEF Handle
  <1>3. ~Handling' /\ (Signaled' <=> Signaled)
    <2>1. \A v \in Workers \ {w} : wpc[v] \notin {"copied", "handle"}
      BY <1>2 DEF LockInv
    <2>2. QED
      BY <1>2, <2>1 DEF Handling, Signaled, TypeOK
  <1>4. received \in Seq(Seq(STRING)) /\ serverBuffer \in Seq(STRING)
        /\ Len(written) \in Nat
    BY DEF TypeOK
  <1>5. Len(received') = Len(received) + 1
    BY <1>2, <1>4
  <1>6. /\ Len(received) < Len(written)
        /\ serverBuffer = written[Len(received) + 1]
    BY <1>1, <1>4 DEF OrderInv, UnderWay
  <1>7. OrderInv'
    BY <1>1, <1>2, <1>3, <1>4, <1>5 DEF OrderInv, UnderWay
  <1>8. QED
    BY <1>2, <1>6, <1>7 DEF Box!Receive

\* The other steps leave both sequences alone.
LEMMA BoxStutters ==
    ASSUME NEW L, BoxInv(L),
           \/ \E c \in Clients : BeginWrite(c) \/ WriteCell(c) \/ KillClient(c)
           \/ Waiter
           \/ \E w \in Workers :
                Dequeue(w) \/ LockBuffer(w) \/ CopyOverflows(w) \/ SignalClient(w)
                \/ MapViewFails(w)
    PROVE  OrderInv' /\ UNCHANGED <<written, received>>
  <1> USE DEF BoxInv
  <1>1. ASSUME NEW c \in Clients, BeginWrite(c) \/ WriteCell(c) \/ KillClient(c)
        PROVE  OrderInv' /\ UNCHANGED <<written, received>>
    <2>1. /\ UNCHANGED <<written, received, serverBuffer, clToSv, waiter, queued, wpc>>
          /\ faults' \in Nat /\ faults' >= faults
      BY <1>1 DEF BeginWrite, WriteCell, KillClient, serverVars, TypeOK
    <2>2. QED
      BY <2>1, OrderFrame DEF Handling, Signaled
  <1>2. CASE Waiter
    <2>1. /\ UNCHANGED <<written, received, serverBuffer, wpc, faults>>
          /\ Signaled /\ Signaled'
      BY <1>2 DEF Waiter, WaiterWakes, WaiterPosts, serverVars, Signaled, TypeOK
    <2>2. QED
      BY <2>1, OrderFrame DEF Handling, TypeOK
  <1>3. ASSUME NEW w \in Workers,
               Dequeue(w) \/ LockBuffer(w) \/ CopyOverflows(w)
        PROVE  OrderInv' /\ UNCHANGED <<written, received>>
    <2>1. /\ UNCHANGED <<written, received, serverBuffer, faults>>
          /\ Signaled /\ Signaled' /\ (Handling' <=> Handling)
      BY <1>3 DEF Dequeue, LockBuffer, CopyOverflows, Signaled, Handling, TypeOK
    <2>2. QED
      BY <2>1, OrderFrame DEF TypeOK
  <1>4. ASSUME NEW w \in Workers, SignalClient(w)
        PROVE  OrderInv' /\ UNCHANGED <<written, received>>
    <2>1. /\ UNCHANGED <<written, received, serverBuffer, faults, clToSv, waiter, queued>>
          /\ wpc' = [wpc EXCEPT ![w] = "handle"] /\ wpc[w] = "copied"
      BY <1>4 DEF SignalClient
    <2>2. (Signaled' <=> Signaled) /\ (Handling' <=> Handling)
      BY <2>1 DEF Signaled, Handling, TypeOK
    <2>3. QED
      BY <2>1, <2>2, OrderFrame DEF TypeOK
  <1>5. ASSUME NEW w \in Workers, MapViewFails(w)
        PROVE  OrderInv' /\ UNCHANGED <<written, received>>
    <2>1. /\ UNCHANGED <<written, received, serverBuffer, clToSv, waiter, queued>>
          /\ wpc' = [wpc EXCEPT ![w] = "wait"] /\ wpc[w] = "getData"
          /\ faults' \in Nat /\ faults' > 0
      BY <1>5 DEF MapViewFails, TypeOK
    <2>2. ~clToSv /\ waiter # "post" /\ queued = 0
          /\ \A v \in Workers : wpc[v] \in {"got", "getData", "crashed"} => v = w
      BY <2>1, OneToken DEF OneToken, TokenAt, Places
    <2>3. ~Signaled' /\ (Handling' <=> Handling)
      BY <2>1, <2>2 DEF Signaled, Handling, TypeOK
    <2>4. QED
      BY <2>1, <2>3, OrderFrame
  <1>6. QED
    BY <1>1, <1>2, <1>3, <1>4, <1>5

LEMMA BoxStep ==
    ASSUME NEW L, OneLength(L), BoxInv(L), [Next]_vars
    PROVE  BoxInv(L)' /\ BoxMoves
  <1>1. Short(L)
    BY TextCharacters DEF OneLength, Short
  <1>2. OrderInv' /\ BoxMoves
    <2>1. CASE Next
      BY <2>1, BoxWrites, BoxCopies, BoxReceives, BoxStutters
         DEF Next, Write, Worker, BoxMoves
    <2>2. CASE UNCHANGED vars
      BY <2>2, OrderFrame DEF vars, serverVars, Handling, Signaled, BoxMoves,
                              BoxInv, TypeOK
    <2>3. QED
      BY <2>1, <2>2
  <1>3. TypeOK' /\ OneToken' /\ ContentInv(L)' /\ LockInv'
    BY <1>1, TypeStep, OneTokenStep, ContentStep, LockStep DEF BoxInv
  <1>4. QED
    BY <1>2, <1>3 DEF BoxInv

(* The shared memory, its two events, the port and the workers implement a *)
(* mailbox of two texts: for any clients and workers, and for any length   *)
(* that all the texts have which do not fill the memory, every text is     *)
(* handled as it was written, in order and once.                           *)
THEOREM ImplementsMailbox ==
    ASSUME NEW L, OneLength(L) PROVE Spec => MailboxSpec
  <1>1. Init => BoxInv(L) /\ Box!Init
    BY BoxInit DEF Init, Box!Init
  <1>2. BoxInv(L) /\ [Next]_vars => BoxInv(L)' /\ BoxMoves
    BY BoxStep
  <1>3. BoxMoves => [Box!Write \/ Box!Receive]_<<written, received>>
    BY DEF BoxMoves
  <1>4. QED
    BY <1>1, <1>2, <1>3, PTL DEF Spec, MailboxSpec, Box!Spec
-----------------------------------------------------------------------------
(* The way on.                                                             *)

\* Who owns the lock on the buffer is inside the block.
HolderInv ==
    shMemBufferCS # NoWorker =>
        wpc[shMemBufferCS] \in {"getData", "crashed", "copied", "handle"}

\* Without a fault no text is lost, whatever the texts are.
NoneLost == faults = 0 => Len(received) + UnderWay = Len(written)

WayInv ==
    /\ TypeOK /\ OneToken /\ ContentInv(BufferSize - 1)
    /\ LockInv /\ HolderInv /\ NoneLost

\* Client c, the waiter thread and worker w can take a step of their own.
WriterGoesOn(c) == cpc[c] = "writing" /\ cells[c] <= Len(text[c])
WaiterGoesOn == waiter = "post" \/ (waiter = "wait" /\ clToSv)
WorkerGoesOn(w) ==
    \/ wpc[w] = "wait" /\ queued > 0
    \/ wpc[w] = "got" /\ shMemBufferCS = NoWorker
    \/ wpc[w] \in {"getData", "copied", "handle"}

\* A client that is kept waiting waits for another client or for the server,
\* and a text that is not yet handled for the server alone.
ServerGoesOn == WaiterGoesOn \/ \E w \in Workers : WorkerGoesOn(w)

ChannelGoesOn ==
    faults = 0 /\ ~Crashed =>
        /\ ~svToCl => ServerGoesOn \/ \E c \in Clients : WriterGoesOn(c)
        /\ Len(received) < Len(written) => ServerGoesOn

LEMMA WayInit == Init => WayInv
  <1> SUFFICES ASSUME Init PROVE WayInv
    OBVIOUS
  <1>1. LockInv /\ HolderInv /\ NoneLost
    BY DEF Init, HolderInv, LockInv, NoneLost, UnderWay, Handling, Signaled
  <1> QED
    BY <1>1, TypeInit, OneTokenInit, ContentInit, NearlyShort DEF WayInv

LEMMA HolderStep ==
    ASSUME TypeOK, LockInv, HolderInv, [Next]_vars PROVE HolderInv'
  <1> USE DEF TypeOK, HolderInv
  <1>1. ASSUME NEW c \in Clients, BeginWrite(c) \/ Write(c) \/ KillClient(c)
        PROVE  HolderInv'
    BY <1>1 DEF BeginWrite, Write, WriteCell, SignalServer, KillClient, serverVars
  <1>2. CASE Waiter
    BY <1>2 DEF Waiter, WaiterWakes, WaiterPosts, serverVars
  <1>3. ASSUME NEW w \in Workers, Dequeue(w) \/ LockBuffer(w) PROVE HolderInv'
    BY <1>3 DEF Dequeue, LockBuffer
  <1>4. ASSUME NEW w \in Workers, CopyMemory(w) \/ CopyOverflows(w) \/ SignalClient(w)
        PROVE HolderInv'
    BY <1>4 DEF CopyMemory, CopyOverflows, SignalClient
  <1>5. ASSUME NEW w \in Workers, Handle(w) \/ MapViewFails(w) PROVE HolderInv'
    BY <1>5 DEF Handle, MapViewFails
  <1>6. CASE UNCHANGED vars
    BY <1>6 DEF vars, serverVars
  <1>7. QED
    BY <1>1, <1>2, <1>3, <1>4, <1>5, <1>6 DEF Next, Worker

\* The count alone: NoneLost does not depend on what is in the memory.
LEMMA NoneLostFrame ==
    ASSUME TypeOK, NoneLost, UNCHANGED <<written, received>>, faults' \in Nat,
           faults' >= faults, faults' = 0 => UnderWay' = UnderWay
    PROVE  NoneLost'
  BY DEF NoneLost, TypeOK

LEMMA NoneLostStep ==
    ASSUME TypeOK, OneToken, LockInv, NoneLost, [Next]_vars PROVE NoneLost'
  <1>1. ASSUME NEW c \in Clients, BeginWrite(c) \/ WriteCell(c) \/ KillClient(c)
        PROVE  NoneLost'
    <2>1. /\ UNCHANGED <<written, received, clToSv, waiter, queued, wpc>>
          /\ faults' \in Nat /\ faults' >= faults
      BY <1>1 DEF BeginWrite, WriteCell, KillClient, serverVars, TypeOK
    <2>2. QED
      BY <2>1, NoneLostFrame DEF UnderWay, Handling, Signaled
  <1>2. ASSUME NEW c \in Clients, SignalServer(c) PROVE NoneLost'
    <2>1. ~Signaled
      BY <1>2, TokenExcludes DEF SignalServer
    <2>2. /\ clToSv' = TRUE /\ UNCHANGED <<received, faults, wpc>>
          /\ Len(written') = Len(written) + 1 /\ Len(written) \in Nat
          /\ Len(received) \in Nat
      BY <1>2 DEF SignalServer, serverVars, TypeOK
    <2>3. Signaled' /\ (Handling' <=> Handling)
      BY <2>2 DEF Signaled, Handling
    <2>4. QED
      BY <2>1, <2>2, <2>3 DEF NoneLost, UnderWay
  <1>3. CASE Waiter
    <2>1. /\ UNCHANGED <<written, received, wpc, faults>> /\ Signaled
          /\ (waiter' = "post" \/ queued' = queued + 1) /\ queued \in Nat
      BY <1>3 DEF Waiter, WaiterWakes, WaiterPosts, serverVars, Signaled, TypeOK
    <2>s. Signaled'
      BY <2>1 DEF Signaled
    <2>2. QED
      BY <2>1, <2>s, NoneLostFrame DEF UnderWay, Handling, TypeOK
  <1>4. ASSUME NEW w \in Workers, Dequeue(w) \/ LockBuffer(w) \/ CopyOverflows(w)
        PROVE  NoneLost'
    <2>1. /\ UNCHANGED <<written, received, faults>> /\ queued \in Nat
          /\ \/ wpc[w] \in {"got", "getData"}
             \/ wpc[w] = "wait" /\ queued > 0
          /\ \E to \in {"got", "getData", "crashed"} : wpc' = [wpc EXCEPT ![w] = to]
      BY <1>4 DEF Dequeue, LockBuffer, CopyOverflows, TypeOK
    <2>2. Signaled /\ Signaled' /\ (Handling' <=> Handling)
      BY <2>1 DEF Signaled, Handling, TypeOK
    <2>3. QED
      BY <2>1, <2>2, NoneLostFrame DEF UnderWay, TypeOK
  <1>5. ASSUME NEW w \in Workers, CopyMemory(w) PROVE NoneLost'
    <2>1. /\ wpc[w] = "getData" /\ wpc' = [wpc EXCEPT ![w] = "copied"] /\ Signaled
          /\ UNCHANGED <<written, received, faults, clToSv, waiter, queued>>
      BY <1>5 DEF CopyMemory, Signaled
    <2>2. ~Handling
      BY <2>1 DEF LockInv, Handling
    <2>3. ~clToSv /\ waiter # "post" /\ queued = 0
          /\ \A v \in Workers : wpc[v] \in {"got", "getData", "crashed"} => v = w
      BY <2>1, OneToken DEF OneToken, TokenAt, Places
    <2>4. Handling' /\ ~Signaled'
      BY <2>1, <2>3 DEF Handling, Signaled, TypeOK
    <2>5. QED
      BY <2>1, <2>2, <2>4, NoneLostFrame DEF UnderWay, TypeOK
  <1>6. ASSUME NEW w \in Workers, MapViewFails(w) PROVE NoneLost'
    <2>1. faults' > 0
      BY <1>6 DEF MapViewFails, TypeOK
    <2>2. QED
      BY <2>1 DEF NoneLost
  <1>7. ASSUME NEW w \in Workers, SignalClient(w) PROVE NoneLost'
    <2>1. /\ UNCHANGED <<written, received, faults, clToSv, waiter, queued>>
          /\ wpc' = [wpc EXCEPT ![w] = "handle"] /\ wpc[w] = "copied"
      BY <1>7 DEF SignalClient
    <2>2. (Signaled' <=> Signaled) /\ (Handling' <=> Handling)
      BY <2>1 DEF Signaled, Handling, TypeOK
    <2>3. QED
      BY <2>1, <2>2, NoneLostFrame DEF UnderWay, TypeOK
  <1>8. ASSUME NEW w \in Workers, Handle(w) PROVE NoneLost'
    <2>1. /\ received' = Append(received, serverBuffer)
          /\ wpc' = [wpc EXCEPT ![w] = "wait"] /\ wpc[w] = "handle"
          /\ UNCHANGED <<written, faults, clToSv, waiter, queued>>
      BY <1>8 DEF Handle
    <2>2. \A v \in Workers \ {w} : wpc[v] \notin {"copied", "handle"}
      BY <2>1 DEF LockInv
    <2>3. Handling /\ ~Handling' /\ (Signaled' <=> Signaled)
      BY <2>1, <2>2 DEF Handling, Signaled, TypeOK
    <2>4. Len(received') = Len(received) + 1 /\ Len(received) \in Nat /\ Len(written) \in Nat
      BY <2>1 DEF TypeOK
    <2>5. QED
      BY <2>1, <2>3, <2>4 DEF NoneLost, UnderWay
  <1>9. CASE UNCHANGED vars
    BY <1>9 DEF vars, serverVars, NoneLost, UnderWay, Handling, Signaled
  <1>10. QED
    BY <1>1, <1>2, <1>3, <1>4, <1>5, <1>6, <1>7, <1>8, <1>9 DEF Next, Write, Worker

LEMMA WayStep == WayInv /\ [Next]_vars => WayInv'
  <1> SUFFICES ASSUME WayInv, [Next]_vars PROVE WayInv'
    OBVIOUS
  <1>1. TypeOK' /\ OneToken' /\ ContentInv(BufferSize - 1)'
    BY TypeStep, OneTokenStep, ContentStep, NearlyShort DEF WayInv
  <1>2. LockInv' /\ HolderInv' /\ NoneLost'
    BY LockStep, HolderStep, NoneLostStep DEF WayInv
  <1> QED
    BY <1>1, <1>2 DEF WayInv

(* MemoryFreedAgain and EveryWriteHandled, but for the fairness: as long   *)
(* as there is a worker, no fault and no text that fills the memory, a     *)
(* client that waits for the memory and a text that waits to be handled    *)
(* always have somebody who can take them further.  The token is never     *)
(* where nobody takes it from, and the lock on the buffer never in the way *)
(* of everybody.                                                           *)
THEOREM TokenGoesOn == ASSUME Workers # {} PROVE Spec => []ChannelGoesOn
  <1>1. WayInv => ChannelGoesOn
    <2> SUFFICES ASSUME WayInv, faults = 0, ~Crashed
                 PROVE  /\ ~svToCl => ServerGoesOn \/ \E c \in Clients : WriterGoesOn(c)
                        /\ Len(received) < Len(written) => ServerGoesOn
      BY DEF ChannelGoesOn
    <2>t. TypeOK /\ LockInv /\ HolderInv
      BY DEF WayInv
    <2>1. ASSUME NEW w \in Workers, wpc[w] \in {"got", "getData", "copied", "handle"}
          PROVE  ServerGoesOn
      <3>1. CASE wpc[w] # "got" \/ shMemBufferCS = NoWorker
        BY <2>1, <3>1 DEF ServerGoesOn, WorkerGoesOn
      <3>2. CASE shMemBufferCS # NoWorker
        <4>1. /\ shMemBufferCS \in Workers
              /\ wpc[shMemBufferCS] \in {"getData", "copied", "handle"}
          BY <2>t, <3>2 DEF TypeOK, HolderInv, Crashed
        <4> QED
          BY <4>1 DEF ServerGoesOn, WorkerGoesOn
      <3> QED
        BY <3>1, <3>2
    <2>2. queued > 0 => ServerGoesOn
      <3>1. PICK w \in Workers : TRUE
        OBVIOUS
      <3>2. wpc[w] \in {"wait", "got", "getData", "copied", "handle"}
        BY <2>t DEF TypeOK, Crashed
      <3> QED
        BY <2>1, <3>2 DEF ServerGoesOn, WorkerGoesOn
    <2>3. Signaled \/ Handling => ServerGoesOn
      <3>1. clToSv \/ waiter = "post" => ServerGoesOn
        BY <2>t DEF ServerGoesOn, WaiterGoesOn, TypeOK
      <3> QED
        BY <2>1, <2>2, <3>1 DEF Signaled, Handling, Crashed
    <2>4. ~svToCl => ServerGoesOn \/ \E c \in Clients : WriterGoesOn(c)
      <3>1. PICK h \in Places : TokenAt(h)
        BY DEF WayInv, OneToken
      <3>2. ~svToCl => \/ Signaled \/ Handling
                       \/ \E c \in Clients : cpc[c] = "writing"
        BY <3>1 DEF TokenAt, Places, Signaled, Handling
      <3>3. ASSUME NEW c \in Clients, cpc[c] = "writing" PROVE WriterGoesOn(c)
        BY <3>3 DEF WayInv, ContentInv, WritingInv, WriterGoesOn
      <3> QED
        BY <2>3, <3>2, <3>3
    <2>5. Len(received) < Len(written) => ServerGoesOn
      BY <2>3 DEF WayInv, NoneLost, UnderWay, TypeOK
    <2> QED
      BY <2>4, <2>5
  <1> QED
    BY <1>1, WayInit, WayStep, PTL DEF Spec

\* How many steps the token has from h to svToCl, and one of the worker that
\* handles a text.
WorkerSteps == [got |-> 4, getData |-> 3, copied |-> 2, crashed |-> 0]

StepsFrom(h) ==
    IF h \in Clients THEN 8 + Len(text[h]) - cells[h]
    ELSE IF h = "clToSv" THEN 7
    ELSE IF h = "waiter" THEN 6
    ELSE IF h = "port" THEN 5
    ELSE IF h \in Workers THEN WorkerSteps[wpc[h]]
    ELSE 0

Busy == \E w \in Workers : wpc[w] = "handle"
StepsLeft(h) == StepsFrom(h) + IF Busy THEN 1 ELSE 0

TokenNearer ==
    ~svToCl /\ faults = 0 /\ faults' = 0 =>
        \E h, g \in Places :
            /\ TokenAt(h) /\ TokenAt(g)'
            /\ StepsLeft(h) \in Nat /\ StepsLeft(g)' < StepsLeft(h)

MemoryRunsDown == [][TokenNearer]_vars

(* Each of these steps brings the token nearer to the clients: while the   *)
(* memory is taken nobody can do anything else, but for a fault.  So with  *)
(* TokenGoesOn the memory is free again, or the server has crashed, after  *)
(* at most as many steps as the text has characters and nine more.         *)
THEOREM TokenRunsDown == Spec => MemoryRunsDown
  <1>1. ASSUME WayInv, Next PROVE TokenNearer
    <2> SUFFICES ASSUME ~svToCl, faults = 0, faults' = 0
                 PROVE  \E h, g \in Places :
                            /\ TokenAt(h) /\ TokenAt(g)'
                            /\ StepsLeft(h) \in Nat /\ StepsLeft(g)' < StepsLeft(h)
      BY DEF TokenNearer
    <2>t. TypeOK /\ LockInv /\ WritingInv
      BY <1>1 DEF WayInv, ContentInv
    <2>h. PICK h \in Places : TokenAt(h)
      BY <1>1 DEF WayInv, OneToken
    <2>g. PICK g \in Places : TokenAt(g)'
      BY <1>1, WayStep, Zenon DEF WayInv, OneToken, Places
    <2>n. StepsFrom(h) \in Nat
      <3>1. CASE h \in Clients
        <4>1. text[h] \in Texts /\ cells[h] \in Nat /\ cells[h] <= Len(text[h])
          BY <2>t, <2>h, <3>1 DEF TokenAt, TypeOK, WritingInv
        <4>2. Len(text[h]) \in Nat
          BY <4>1, TextCharacters
        <4> QED
          BY <3>1, <4>1, <4>2 DEF StepsFrom
      <3>2. CASE h \in Workers
        BY <2>h, <3>2 DEF StepsFrom, WorkerSteps, TokenAt
      <3> QED
        BY <3>1, <3>2 DEF StepsFrom
    <2> SUFFICES StepsLeft(g)' < StepsLeft(h)
      BY <2>h, <2>g, <2>n DEF StepsLeft
    <2>f. ASSUME StepsFrom(g)' < StepsFrom(h), StepsFrom(g)' \in Nat, Busy' => Busy
          PROVE  StepsLeft(g)' < StepsLeft(h)
      BY <2>f, <2>n DEF StepsLeft
    <2>1. ASSUME NEW c \in Clients, Write(c) PROVE StepsLeft(g)' < StepsLeft(h)
      <3>1. /\ h = c /\ cpc[c] = "writing" /\ text[c] \in Texts /\ cells[c] \in Nat
            /\ wpc' = wpc
        BY <2>t, <2>h, <2>1 DEF Write, WriteCell, SignalServer, TokenAt, TypeOK, serverVars
      <3>2. Len(text[c]) \in Nat
        BY <3>1, TextCharacters
      <3>3. CASE WriteCell(c)
        <4>1. /\ cpc' = cpc /\ text' = text /\ cells'[c] = cells[c] + 1
              /\ cells[c] < Len(text[c])
          BY <2>t, <3>3 DEF WriteCell, TypeOK
        <4>2. g = c
          BY <2>g, <3>1, <4>1 DEF TokenAt
        <4> QED
          BY <2>f, <3>1, <3>2, <4>1, <4>2 DEF StepsFrom, Busy
      <3>4. CASE SignalServer(c)
        <4>1. clToSv' = TRUE /\ cells[c] = Len(text[c])
          BY <3>4 DEF SignalServer
        <4>2. g = "clToSv"
          BY <2>g, <4>1 DEF TokenAt
        <4> QED
          BY <2>f, <3>1, <3>2, <4>1, <4>2 DEF StepsFrom, Busy
      <3> QED
        BY <2>1, <3>3, <3>4 DEF Write
    <2>2. CASE Waiter
      <3>1. /\ wpc' = wpc
            /\ \/ clToSv /\ waiter' = "post"
               \/ waiter = "post" /\ queued' = queued + 1
        BY <2>2 DEF Waiter, WaiterWakes, WaiterPosts, serverVars
      <3>2. \/ h = "clToSv" /\ g = "waiter"
            \/ h = "waiter" /\ g = "port"
        BY <2>t, <2>h, <2>g, <3>1 DEF TokenAt, TypeOK
      <3> QED
        BY <2>f, <3>1, <3>2 DEF StepsFrom, Busy
    <2>3. ASSUME NEW w \in Workers, Dequeue(w) PROVE StepsLeft(g)' < StepsLeft(h)
      <3>1. queued > 0 /\ wpc' = [wpc EXCEPT ![w] = "got"] /\ wpc[w] = "wait"
        BY <2>3 DEF Dequeue
      <3>2. h = "port" /\ g = w /\ wpc'[w] = "got"
        BY <2>t, <2>h, <2>g, <3>1 DEF TokenAt, TypeOK
      <3>3. Busy' => Busy
        BY <2>t, <3>1 DEF Busy, TypeOK
      <3> QED
        BY <2>f, <3>2, <3>3 DEF StepsFrom, WorkerSteps
    <2>4. ASSUME NEW w \in Workers, LockBuffer(w) \/ CopyMemory(w) \/ CopyOverflows(w)
          PROVE StepsLeft(g)' < StepsLeft(h)
      <3>1. \/ wpc[w] = "got" /\ wpc' = [wpc EXCEPT ![w] = "getData"]
            \/ wpc[w] = "getData" /\ wpc' = [wpc EXCEPT ![w] = "copied"]
            \/ wpc[w] = "getData" /\ wpc' = [wpc EXCEPT ![w] = "crashed"]
        BY <2>4 DEF LockBuffer, CopyMemory, CopyOverflows
      <3>2. \/ wpc[w] = "got" /\ wpc'[w] = "getData"
            \/ wpc[w] = "getData" /\ wpc'[w] \in {"copied", "crashed"}
        BY <2>t, <3>1 DEF TypeOK
      <3>3. h = w /\ g = w
        BY <2>h, <2>g, <3>2 DEF TokenAt
      <3>4. Busy' => Busy
        BY <2>t, <3>1 DEF Busy, TypeOK
      <3> QED
        BY <2>f, <3>2, <3>3, <3>4 DEF StepsFrom, WorkerSteps
    <2>5. ASSUME NEW w \in Workers, SignalClient(w) PROVE StepsLeft(g)' < StepsLeft(h)
      <3>1. wpc[w] = "copied" /\ svToCl' = TRUE
        BY <2>5 DEF SignalClient
      <3>2. h = w /\ g = "svToCl"
        BY <2>h, <2>g, <3>1 DEF TokenAt
      <3>3. StepsFrom(h) = 2 /\ StepsFrom(g)' = 0
        BY <3>1, <3>2 DEF StepsFrom, WorkerSteps
      <3> QED
        BY <3>3 DEF StepsLeft
    <2>6. ASSUME NEW w \in Workers, Handle(w) PROVE StepsLeft(g)' < StepsLeft(h)
      <3>1. /\ wpc[w] = "handle" /\ wpc' = [wpc EXCEPT ![w] = "wait"]
            /\ UNCHANGED <<svToCl, clToSv, waiter, queued, cpc, text, cells>>
        BY <2>6 DEF Handle, clientVars
      <3>2. Busy /\ ~Busy'
        BY <2>t, <3>1 DEF Busy, LockInv, TypeOK
      <3>3. \A v \in Workers : v # w => wpc'[v] = wpc[v]
        BY <2>t, <3>1 DEF TypeOK
      <3>4. h # w /\ wpc'[w] = "wait"
        BY <2>t, <2>h, <3>1 DEF TokenAt, TypeOK
      <3>5. g = h
        BY <2>h, <2>g, <3>1, <3>3, <3>4 DEF TokenAt, Places
      <3>6. StepsFrom(g)' = StepsFrom(h)
        BY <3>1, <3>3, <3>4, <3>5 DEF StepsFrom
      <3> QED
        BY <2>n, <3>2, <3>6 DEF StepsLeft
    <2>7. ASSUME NEW c \in Clients PROVE ~BeginWrite(c) /\ ~KillClient(c)
      BY <2>t DEF BeginWrite, KillClient, TypeOK
    <2>8. ASSUME NEW w \in Workers PROVE ~MapViewFails(w)
      BY <2>t DEF MapViewFails, TypeOK
    <2> QED
      BY <1>1, <2>1, <2>2, <2>3, <2>4, <2>5, <2>6, <2>7, <2>8 DEF Next, Worker
  <1>2. WayInv /\ [Next]_vars => [TokenNearer]_vars
    BY <1>1
  <1> QED
    BY <1>2, WayInit, WayStep, PTL DEF Spec, MemoryRunsDown
=============================================================================
