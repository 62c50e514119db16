----------------------------- MODULE MessageLog -----------------------------
(***************************************************************************)
(* The log of Task6Server: a queue guarded by the CRITICAL_SECTION logCS   *)
(* and counted by the semaphore hLogSem (pushMessg, popMessg).  A push     *)
(* releases the semaphore after it has left the lock, and a pop takes the  *)
(* semaphore before it enters the lock, so the count and the queue differ  *)
(* in between, by the threads that are half-way.                           *)
(*                                                                         *)
(* Any thread may push and pop here, without end; module ServerLife says   *)
(* who does, and when.                                                     *)
(***************************************************************************)
EXTENDS Naturals, Sequences, FiniteSets

CONSTANTS
    Pushers,    \* the worker threads
    Poppers,    \* the threads that call popMessg
    NoThread    \* owner of the free lock

ASSUME LogAssumption ==
    /\ IsFiniteSet(Pushers) /\ IsFiniteSet(Poppers)
    /\ Pushers \cap Poppers = {}
    /\ NoThread \notin Pushers \cup Poppers

Threads == Pushers \cup Poppers

VARIABLES
    log,     \* the queue: the n-th message of t is <<t, n>>
    logCS,   \* owner of the lock
    logSem,  \* count of the semaphore
    pc,      \* pc[t]: where thread t is
    pushed,  \* pushed[t]: how many messages t has put in the log
    popped   \* popped[t]: how many of them have been taken

vars == <<log, logCS, logSem, pc, pushed, popped>>

Init ==
    /\ log = << >>
    /\ logCS = NoThread
    /\ logSem = 0
    /\ pc = [t \in Threads |-> "idle"]
    /\ pushed = [t \in Pushers |-> 0]
    /\ popped = [t \in Pushers |-> 0]

Goto(t, from, to) == pc[t] = from /\ pc' = [pc EXCEPT ![t] = to]

Lock(t) == logCS = NoThread /\ logCS' = t

-----------------------------------------------------------------------------
(* pushMessg.                                                              *)

BeginPush(t) ==
    /\ Goto(t, "idle", "emplace")
    /\ Lock(t)
    /\ UNCHANGED <<log, logSem, pushed, popped>>

Emplace(t) ==
    /\ Goto(t, "emplace", "release")
    /\ log' = Append(log, <<t, pushed[t] + 1>>)
    /\ pushed' = [pushed EXCEPT ![t] = @ + 1]
    /\ logCS' = NoThread
    /\ UNCHANGED <<logSem, popped>>

\* Faulty versions: the release is forgotten, or sets the count anew.
ReleaseNone == UNCHANGED logSem
ReleaseAll == logSem' = Len(log)

ReleaseOne == logSem' = logSem + 1

ReleaseSemaphore(t) ==
    /\ Goto(t, "release", "idle")
    /\ ReleaseOne
    /\ UNCHANGED <<log, logCS, pushed, popped>>

-----------------------------------------------------------------------------
(* popMessg; a timeout changes nothing and is not a step.                  *)

\* A faulty version: an event that stays set in the place of the semaphore.
TakeNone == logSem > 0 /\ UNCHANGED logSem

TakeOne == logSem > 0 /\ logSem' = logSem - 1

WaitSemaphore(t) ==
    /\ Goto(t, "idle", "taken")
    /\ TakeOne
    /\ UNCHANGED <<log, logCS, pushed, popped>>

BeginPop(t) ==
    /\ Goto(t, "taken", "pop")
    /\ Lock(t)
    /\ UNCHANGED <<log, logSem, pushed, popped>>

\* front and pop of std::queue, which are undefined on an empty queue.
Pop(t) ==
    /\ Goto(t, "pop", "idle")
    /\ log # << >>
    /\ log' = Tail(log)
    /\ popped' = [popped EXCEPT ![Head(log)[1]] = @ + 1]
    /\ logCS' = NoThread
    /\ UNCHANGED <<logSem, pushed>>

-----------------------------------------------------------------------------
Push(t) == BeginPush(t) \/ Emplace(t) \/ ReleaseSemaphore(t)
PopMessg(t) == WaitSemaphore(t) \/ BeginPop(t) \/ Pop(t)

Next == (\E t \in Pushers : Push(t)) \/ (\E t \in Poppers : PopMessg(t))

Spec == Init /\ [][Next]_vars

-----------------------------------------------------------------------------
(* Type correctness.                                                       *)
Messages == Pushers \X (Nat \ {0})

TypeOK ==
    /\ log \in Seq(Messages)
    /\ logCS \in Threads \cup {NoThread}
    /\ logSem \in Nat
    /\ pc \in [Threads -> {"idle", "emplace", "release", "taken", "pop"}]
    /\ pushed \in [Pushers -> Nat]
    /\ popped \in [Pushers -> Nat]

At(label) == {t \in Threads : pc[t] = label}

(* Every message in the queue is counted by the semaphore or by a pusher   *)
(* that is about to release it, except those a popper has taken from the   *)
(* count and is about to remove.                                           *)
SemaphoreCounts ==
    Len(log) = logSem + Cardinality(At("release"))
                      + Cardinality(At("taken") \cup At("pop"))

(* popMessg never takes the front of an empty queue.                       *)
PopNeverEmpty == \A t \in Poppers : pc[t] = "pop" => log # << >>
=============================================================================
