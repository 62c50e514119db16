---------------------------- MODULE SharedMemory ----------------------------
(***************************************************************************)
(* The shared-memory channel: OutSharedMemoryClient::writeData on the side *)
(* of the clients, and on the side of the server the waiter thread         *)
(* (WaiterThreadProc), InSharedMemoryServer::getData and the branch of     *)
(* the worker loop that calls it (Task6Server.cpp:78-88).                  *)
(*                                                                         *)
(* Two auto-reset events hand one token around: svToCl lets a client       *)
(* write, clToSv tells the waiter that it has, the waiter posts a packet   *)
(* on the completion port, and the worker that dequeues it copies the      *)
(* memory and sets svToCl again.                                           *)
(*                                                                         *)
(* The memory is an array of cells, zero when it is created; a text is a   *)
(* sequence of characters.  A timeout of writeData changes nothing, so it  *)
(* is not a step.  getData's own lock is taken inside shMemBufferCS by its *)
(* only caller and is never contended, so it is not modelled.              *)
(***************************************************************************)
EXTENDS Naturals, Sequences, FiniteSets

CONSTANTS
    Clients,      \* the client processes
    Workers,      \* the worker threads of the server
    NoWorker,     \* owner of a free CRITICAL_SECTION
    Texts,        \* what clients write
    Nul,          \* the character that ends a string
    BufferSize,   \* DATA_BUFFER_SIZE: size of the memory
    MaxWrites,    \* bound: calls of writeData that begin to write
    MaxFaults     \* bound: clients killed while writing, views not mapped

ASSUME SharedMemoryAssumption ==
    /\ Clients \cap Workers = {}
    /\ (Clients \cup Workers) \cap {"svToCl", "clToSv", "waiter", "port", "lost"} = {}
    /\ NoWorker \notin Workers
    /\ BufferSize \in Nat \ {0}
    /\ Nul \in STRING
    /\ \A x \in Texts : x \in Seq(STRING \ {Nul}) /\ Len(x) \in 1 .. BufferSize
    /\ MaxWrites \in Nat /\ MaxFaults \in Nat

VARIABLES
    svToCl,         \* event: a client may write
    clToSv,         \* event: the server may read
    memory,         \* the shared memory
    cpc,            \* cpc[c]: where client c is in writeData
    text,           \* text[c]: what c is writing
    cells,          \* cells[c]: how many cells of it are written
    waiter,         \* where the waiter thread is
    queued,         \* shared-memory packets in the completion port
    wpc,            \* wpc[w]: where worker w is
    shMemBufferCS,  \* owner of the lock on the server's buffer
    serverBuffer,   \* sharedMemoryBuffer: the text last copied
    written,        \* history: texts whose write was signalled, in order
    received,       \* history: texts given to handleClientMessg, in order
    begun, faults   \* how many writes began, how many faults happened

clientVars == <<cpc, text, cells, begun>>
serverVars == <<wpc, shMemBufferCS, serverBuffer, received>>
vars == <<svToCl, clToSv, memory, clientVars, waiter, queued, serverVars,
          written, faults>>

Cells == 1 .. BufferSize

\* The constructor signals svToCl once everything else is in place.
Init ==
    /\ svToCl = TRUE
    /\ clToSv = FALSE
    /\ memory = [k \in Cells |-> Nul]
    /\ cpc = [c \in Clients |-> "idle"]
    /\ text = [c \in Clients |-> << >>]
    /\ cells = [c \in Clients |-> 0]
    /\ waiter = "wait"
    /\ queued = 0
    /\ wpc = [w \in Workers |-> "wait"]
    /\ shMemBufferCS = NoWorker
    /\ serverBuffer = << >>
    /\ written = << >>
    /\ received = << >>
    /\ begun = 0
    /\ faults = 0

-----------------------------------------------------------------------------
(* writeData                                                               *)

\* A faulty version: svToCl as a manual-reset event.
KeepSvToCl == svToCl /\ UNCHANGED svToCl

TakeSvToCl == svToCl /\ svToCl' = FALSE

\* The wait on svToCl succeeds, and resets it.
BeginWrite(c) ==
    /\ cpc[c] = "idle"
    /\ begun < MaxWrites
    /\ TakeSvToCl
    /\ cpc' = [cpc EXCEPT ![c] = "writing"]
    /\ \E x \in Texts : text' = [text EXCEPT ![c] = x]
    /\ cells' = [cells EXCEPT ![c] = 0]
    /\ begun' = begun + 1
    /\ UNCHANGED <<clToSv, memory, waiter, queued, serverVars, written, faults>>

\* memcpy, a cell at a time: the text, and no character to end it.
WriteCell(c) ==
    /\ cpc[c] = "writing"
    /\ cells[c] < Len(text[c])
    /\ cells' = [cells EXCEPT ![c] = @ + 1]
    /\ memory' = [memory EXCEPT ![cells[c] + 1] = text[c][cells[c] + 1]]
    /\ UNCHANGED <<svToCl, clToSv, cpc, text, begun, waiter, queued, serverVars,
                   written, faults>>

SignalServer(c) ==
    /\ cpc[c] = "writing"
    /\ cells[c] = Len(text[c])
    /\ clToSv' = TRUE
    /\ cpc' = [cpc EXCEPT ![c] = "idle"]
    /\ written' = Append(written, text[c])
    /\ UNCHANGED <<svToCl, memory, text, cells, begun, waiter, queued,
                   serverVars, faults>>

\* The client's process is killed in the middle of writeData.
KillClient(c) ==
    /\ cpc[c] = "writing"
    /\ faults < MaxFaults
    /\ cpc' = [cpc EXCEPT ![c] = "killed"]
    /\ faults' = faults + 1
    /\ UNCHANGED <<svToCl, clToSv, memory, text, cells, begun, waiter, queued,
                   serverVars, written>>

-----------------------------------------------------------------------------
(* WaiterThreadProc                                                        *)

\* A faulty version: clToSv as a manual-reset event.
KeepClToSv == clToSv /\ UNCHANGED clToSv

TakeClToSv == clToSv /\ clToSv' = FALSE

WaiterWakes ==
    /\ waiter = "wait"
    /\ TakeClToSv
    /\ waiter' = "post"
    /\ UNCHANGED <<svToCl, memory, clientVars, queued, serverVars, written,
                   faults>>

WaiterPosts ==
    /\ waiter = "post"
    /\ waiter' = "wait"
    /\ queued' = queued + 1
    /\ UNCHANGED <<svToCl, clToSv, memory, clientVars, serverVars, written,
                   faults>>

-----------------------------------------------------------------------------
(* The workers, and getData                                                *)

\* A faulty version: a wait that ended with no packet is not told apart.
PacketOrNone == TRUE

HasPacket == queued > 0

Dequeue(w) ==
    /\ wpc[w] = "wait"
    /\ HasPacket
    /\ queued' = queued - 1
    /\ wpc' = [wpc EXCEPT ![w] = "got"]
    /\ UNCHANGED <<svToCl, clToSv, memory, clientVars, waiter, shMemBufferCS,
                   serverBuffer, written, received, faults>>

\* Faulty versions: the buffer is not locked; the lock outlives the block.
NoLock(w) == UNCHANGED shMemBufferCS
KeepLock == UNCHANGED shMemBufferCS

Lock(w) == shMemBufferCS = NoWorker /\ shMemBufferCS' = w
Unlock == shMemBufferCS' = NoWorker

LockBuffer(w) ==
    /\ wpc[w] = "got"
    /\ Lock(w)
    /\ wpc' = [wpc EXCEPT ![w] = "getData"]
    /\ UNCHANGED <<svToCl, clToSv, memory, clientVars, waiter, queued,
                   serverBuffer, written, received, faults>>

\* strnlen and strcpy_s: the characters before the first Nul.
TextCells == {k \in Cells : \A j \in 1 .. k : memory[j] # Nul}
TextInMemory == [k \in 1 .. Cardinality(TextCells) |-> memory[k]]

\* A faulty version: a buffer that is one byte shorter.
NearlyFull == Cardinality(TextCells) >= BufferSize - 1

MemoryFull == TextCells = Cells

CopyMemory(w) ==
    /\ wpc[w] = "getData"
    /\ ~MemoryFull
    /\ serverBuffer' = TextInMemory
    /\ wpc' = [wpc EXCEPT ![w] = "copied"]
    /\ UNCHANGED <<svToCl, clToSv, memory, clientVars, waiter, queued,
                   shMemBufferCS, written, received, faults>>

\* strcpy_s has no room for the Nul that ends the text, and ends the process.
\* With the right to use the memory nothing is left for its other threads to
\* do: the clients wait.
CopyOverflows(w) ==
    /\ wpc[w] = "getData"
    /\ MemoryFull
    /\ wpc' = [wpc EXCEPT ![w] = "crashed"]
    /\ UNCHANGED <<svToCl, clToSv, memory, clientVars, waiter, queued,
                   shMemBufferCS, serverBuffer, written, received, faults>>

\* MapViewOfFile fails: getData throws before it signals the event.
MapViewFails(w) ==
    /\ wpc[w] = "getData"
    /\ faults < MaxFaults
    /\ faults' = faults + 1
    /\ Unlock
    /\ wpc' = [wpc EXCEPT ![w] = "wait"]
    /\ UNCHANGED <<svToCl, clToSv, memory, clientVars, waiter, queued,
                   serverBuffer, written, received>>

\* A faulty version: getData does not tell the clients.
KeepMemory == UNCHANGED svToCl

FreeMemory == svToCl' = TRUE

SignalClient(w) ==
    /\ wpc[w] = "copied"
    /\ FreeMemory
    /\ wpc' = [wpc EXCEPT ![w] = "handle"]
    /\ UNCHANGED <<clToSv, memory, clientVars, waiter, queued, shMemBufferCS,
                   serverBuffer, written, received, faults>>

\* handleClientMessg, and the lock is left at the end of the block.
Handle(w) ==
    /\ wpc[w] = "handle"
    /\ received' = Append(received, serverBuffer)
    /\ Unlock
    /\ wpc' = [wpc EXCEPT ![w] = "wait"]
    /\ UNCHANGED <<svToCl, clToSv, memory, clientVars, waiter, queued,
                   serverBuffer, written, faults>>

-----------------------------------------------------------------------------
Write(c) == WriteCell(c) \/ SignalServer(c)
Waiter == WaiterWakes \/ WaiterPosts
Worker(w) == \/ Dequeue(w) \/ LockBuffer(w) \/ CopyMemory(w)
             \/ CopyOverflows(w) \/ SignalClient(w) \/ Handle(w)

Next ==
    \/ \E c \in Clients : BeginWrite(c) \/ Write(c) \/ KillClient(c)
    \/ Waiter
    \/ \E w \in Workers : Worker(w) \/ MapViewFails(w)

Spec == Init /\ [][Next]_vars

(* A client that has begun to write goes on unless it is killed, and the   *)
(* server's threads run; nothing makes a client begin.                     *)
Fairness ==
    /\ \A c \in Clients : WF_vars(Write(c))
    /\ WF_vars(Waiter)
    /\ \A w \in Workers : WF_vars(Worker(w))

FairSpec == Spec /\ Fairness

-----------------------------------------------------------------------------
(* Type correctness.                                                       *)
TypeOK ==
    /\ svToCl \in BOOLEAN /\ clToSv \in BOOLEAN
    /\ memory \in [Cells -> STRING]
    /\ cpc \in [Clients -> {"idle", "writing", "killed"}]
    /\ text \in [Clients -> Texts \cup {<< >>}]
    /\ \A c \in Clients : cpc[c] = "writing" => text[c] \in Texts
    /\ cells \in [Clients -> Nat]
    /\ waiter \in {"wait", "post"}
    /\ queued \in Nat
    /\ wpc \in [Workers -> {"wait", "got", "getData", "crashed", "copied",
                        "handle"}]
    /\ shMemBufferCS \in Workers \cup {NoWorker}
    /\ serverBuffer \in Seq(STRING)
    /\ written \in Seq(Texts)
    /\ received \in Seq(Seq(STRING))
    /\ begun \in Nat /\ faults \in Nat

(* Where the right to use the memory may be.                               *)
Places == {"svToCl", "clToSv", "waiter", "port", "lost"} \cup Clients \cup Workers

TokenAt(h) ==
    /\ svToCl <=> h = "svToCl"
    /\ clToSv <=> h = "clToSv"
    /\ waiter = "post" <=> h = "waiter"
    /\ queued = IF h = "port" THEN 1 ELSE 0
    /\ \A c \in Clients : cpc[c] = "writing" <=> h = c
    /\ \A w \in Workers : wpc[w] \in {"got", "getData", "crashed", "copied"} <=> h = w
    /\ faults = IF h = "lost" THEN 1 ELSE 0

(* There is one right to use the memory: at any time it is in one event,   *)
(* with one client, with the waiter, in the port or with one worker, and   *)
(* it is lost only to a fault.                                             *)
OneToken == \E h \in Places : TokenAt(h)

(* The server copies the memory only when no client is writing it, and no  *)
(* two clients write it together.                                          *)
MemoryExclusive ==
    /\ \A c \in Clients : \A w \in Workers :
         ~(cpc[c] = "writing" /\ wpc[w] = "getData")
    /\ \A c, d \in Clients : cpc[c] = "writing" /\ cpc[d] = "writing" => c = d

(* The channel is a mailbox of two texts (one copied and not yet handled,  *)
(* one being handed over): every text is handled as it was written, in the *)
(* order of the writes, once, though the next client may write and the     *)
(* next worker dequeue before it is handled.                               *)
Box == INSTANCE Mailbox WITH Items <- Texts, Capacity <- 2
MailboxSpec == Box!Spec

(* InSharedMemoryServer.h:43-47: getData gets the data that was written.   *)
(* So what is handled is what was written, text by text.                   *)
HandledAsWritten == Box!ReceivedInOrder

Crashed == \E w \in Workers : wpc[w] = "crashed"

(* strcpy_s ends the server's process on a text that fills the memory, as  *)
(* writeData lets a client write it, and only on such a text, whatever     *)
(* was in the memory before; and no text is written after it.              *)
EndsOnFullText ==
    /\ \A n \in 1 .. Len(written) - 1 : Len(written[n]) < BufferSize
    /\ Crashed => written # << >> /\ Len(written[Len(written)]) = BufferSize

(* Without a fault, and without a text that fills the memory, every text   *)
(* that was signalled is handled.                                          *)
EveryWriteHandled ==
    \A n \in 1 .. MaxWrites :
        Len(written) >= n ~> Len(received) >= n \/ faults > 0 \/ Crashed

(* Without them the memory becomes free for the next client again.         *)
MemoryFreedAgain == ~svToCl ~> svToCl \/ faults > 0 \/ Crashed
=============================================================================
