-------------------------- MODULE MessageLog_proofs -------------------------
(***************************************************************************)
(* Proofs about MessageLog, for any number of threads that push and pop.   *)
(* The invariant that matters is SemaphoreCounts: with the lock, and the   *)
(* places of the threads, it is inductive.                                 *)
(***************************************************************************)
EXTENDS MessageLog, FiniteSetTheorems, TLAPS

USE DEF Threads

LEMMA Places ==
    ASSUME TypeOK, NEW t \in Threads, NEW from, NEW to, Goto(t, from, to)
    PROVE  /\ pc[t] = from /\ pc'[t] = to
           /\ \A u \in Threads \ {t} : pc'[u] = pc[u]
  BY DEF Goto, TypeOK

LEMMA TypeStep == TypeOK /\ [Next]_vars => TypeOK'
<1> SUFFICES ASSUME TypeOK, [Next]_vars PROVE TypeOK'
  OBVIOUS
<1> USE DEF TypeOK
<1>1. CASE UNCHANGED vars
  BY <1>1 DEF vars
<1>2. ASSUME NEW t \in Pushers, Push(t) PROVE TypeOK'
  <2>1. CASE BeginPush(t)
    BY <2>1 DEF BeginPush, Goto, Lock
  <2>2. CASE Emplace(t)
    <3>1. log' \in Seq(Messages)
      BY <2>2 DEF Emplace, Messages
    <3> QED
      BY <2>2, <3>1 DEF Emplace, Goto
  <2>3. CASE ReleaseSemaphore(t)
    BY <2>3 DEF ReleaseSemaphore, ReleaseOne, Goto
  <2> QED
    BY <1>2, <2>1, <2>2, <2>3 DEF Push
<1>3. ASSUME NEW t \in Poppers, PopMessg(t) PROVE TypeOK'
  <2>1. CASE WaitSemaphore(t)
    BY <2>1 DEF WaitSemaphore, TakeOne, Goto
  <2>2. CASE BeginPop(t)
    BY <2>2 DEF BeginPop, Goto, Lock
  <2>3. CASE Pop(t)
    <3>1. log' \in Seq(Messages)
      BY <2>3 DEF Pop
    <3>2. popped' \in [Pushers -> Nat]
      <4>1. Head(log) \in Messages
        BY <2>3 DEF Pop
      <4> QED
        BY <2>3, <4>1 DEF Pop, Messages
    <3> QED
      BY <2>3, <3>1, <3>2 DEF Pop, Goto
  <2> QED
    BY <1>3, <2>1, <2>2, <2>3 DEF PopMessg
<1> QED
  BY <1>1, <1>2, <1>3 DEF Next

\* The threads that have changed the queue and not the count, or the other
\* way round.
Taken == At("taken") \cup At("pop")

LEMMA AtIsFinite ==
    /\ IsFiniteSet(At("release")) /\ IsFiniteSet(Taken)
    /\ Cardinality(At("release")) \in Nat /\ Cardinality(Taken) \in Nat
<1>1. IsFiniteSet(Threads)
  BY LogAssumption, FS_Union
<1>2. At("release") \subseteq Threads /\ Taken \subseteq Threads
  BY DEF At, Taken
<1> QED
  BY <1>1, <1>2, FS_Subset, FS_CardinalityType

LEMMA CountsInit == Init => SemaphoreCounts
<1> SUFFICES ASSUME Init PROVE SemaphoreCounts
  OBVIOUS
<1>1. At("release") = {} /\ At("taken") \cup At("pop") = {}
  BY DEF Init, At
<1>2. Cardinality(At("release")) = 0 /\ Cardinality(At("taken") \cup At("pop")) = 0
  BY <1>1, FS_EmptySet
<1>3. Len(log) = 0 /\ logSem = 0
  BY DEF Init
<1> QED
  BY <1>2, <1>3 DEF SemaphoreCounts

LEMMA CountsStep ==
    TypeOK /\ SemaphoreCounts /\ [Next]_vars => SemaphoreCounts'
<1> SUFFICES ASSUME TypeOK, SemaphoreCounts, [Next]_vars PROVE SemaphoreCounts'
  OBVIOUS
<1> DEFINE r == Cardinality(At("release"))
           k == Cardinality(Taken)
<1>0. /\ Len(log) = logSem + r + k
      /\ r \in Nat /\ k \in Nat /\ logSem \in Nat /\ Len(log) \in Nat
      /\ log \in Seq(Messages)
  BY AtIsFinite DEF SemaphoreCounts, Taken, TypeOK
<1> SUFFICES Len(log') = logSem' + r' + k'
  BY DEF SemaphoreCounts, Taken
<1>s. ASSUME UNCHANGED <<log, logSem>>, At("release")' = At("release"), Taken' = Taken
      PROVE  Len(log') = logSem' + r' + k'
  BY <1>0, <1>s
<1>1. CASE UNCHANGED vars
  BY <1>1, <1>s DEF vars, At, Taken
<1>2. ASSUME NEW t \in Pushers, Push(t) PROVE Len(log') = logSem' + r' + k'
  <2>0. t \in Threads
    OBVIOUS
  <2>1. CASE BeginPush(t)
    <3>1. At("release")' = At("release") /\ Taken' = Taken
      BY <2>0, <2>1, Places DEF BeginPush, At, Taken
    <3> QED
      BY <2>1, <3>1, <1>s DEF BeginPush
  <2>2. CASE Emplace(t)
    <3>1. At("release")' = At("release") \cup {t} /\ t \notin At("release") /\ Taken' = Taken
      BY <2>0, <2>2, Places DEF Emplace, At, Taken
    <3>2. r' = r + 1 /\ k' = k
      BY <3>1, AtIsFinite, FS_AddElement
    <3>3. PICK m \in Messages : log' = Append(log, m)
      <4>1. <<t, pushed[t] + 1>> \in Messages
        BY DEF TypeOK, Messages
      <4> QED
        BY <2>2, <4>1 DEF Emplace
    <3>4. Len(log') = Len(log) + 1
      BY <1>0, <3>3
    <3> QED
      BY <1>0, <2>2, <3>2, <3>4 DEF Emplace
  <2>3. CASE ReleaseSemaphore(t)
    <3>1. At("release")' = At("release") \ {t} /\ t \in At("release") /\ Taken' = Taken
      BY <2>0, <2>3, Places DEF ReleaseSemaphore, At, Taken
    <3>2. r' = r - 1 /\ k' = k
      BY <3>1, AtIsFinite, FS_RemoveElement
    <3> QED
      BY <1>0, <2>3, <3>2 DEF ReleaseSemaphore, ReleaseOne
  <2> QED
    BY <1>2, <2>1, <2>2, <2>3 DEF Push
<1>3. ASSUME NEW t \in Poppers, PopMessg(t) PROVE Len(log') = logSem' + r' + k'
  <2>0. t \in Threads
    OBVIOUS
  <2>1. CASE WaitSemaphore(t)
    <3>1. At("release")' = At("release") /\ Taken' = Taken \cup {t} /\ t \notin Taken
      BY <2>0, <2>1, Places DEF WaitSemaphore, At, Taken
    <3>2. r' = r /\ k' = k + 1
      BY <3>1, AtIsFinite, FS_AddElement
    <3> QED
      BY <1>0, <2>1, <3>2 DEF WaitSemaphore, TakeOne
  <2>2. CASE BeginPop(t)
    <3>1. At("release")' = At("release") /\ Taken' = Taken
      BY <2>0, <2>2, Places DEF BeginPop, At, Taken
    <3> QED
      BY <2>2, <3>1, <1>s DEF BeginPop
  <2>3. CASE Pop(t)
    <3>1. At("release")' = At("release") /\ Taken' = Taken \ {t} /\ t \in Taken
      BY <2>0, <2>3, Places DEF Pop, At, Taken
    <3>2. r' = r /\ k' = k - 1
      BY <3>1, AtIsFinite, FS_RemoveElement
    <3>3. Len(log') = Len(log) - 1
      BY <1>0, <2>3 DEF Pop
    <3> QED
      BY <1>0, <2>3, <3>2, <3>3 DEF Pop
  <2> QED
    BY <1>3, <2>1, <2>2, <2>3 DEF PopMessg
<1> QED
  BY <1>1, <1>2, <1>3 DEF Next

LEMMA TypeInit == Init => TypeOK
  BY DEF Init, TypeOK

(* Any number of threads may push and pop: the semaphore counts the        *)
(* messages of the log, but for those of threads that are half-way.        *)
THEOREM SemaphoreCountsTheLog == Spec => [](TypeOK /\ SemaphoreCounts)
  BY TypeInit, TypeStep, CountsInit, CountsStep, PTL DEF Spec

\* A thread that has taken its count has a message to take.
LEMMA CountedIsThere == TypeOK /\ SemaphoreCounts => PopNeverEmpty
<1> SUFFICES ASSUME TypeOK, SemaphoreCounts, NEW t \in Poppers, pc[t] = "pop"
             PROVE  log # << >>
  BY DEF PopNeverEmpty
<1>1. t \in Taken
  BY DEF Taken, At
<1>2. Cardinality(Taken) # 0
  BY <1>1, AtIsFinite, FS_EmptySet
<1>3. Len(log) # 0
  BY <1>2, AtIsFinite DEF SemaphoreCounts, Taken, TypeOK
<1> QED
  BY <1>3

(* popMessg never takes the front of an empty queue, whatever the number   *)
(* of threads in it.                                                       *)
THEOREM PopFindsMessage == Spec => []PopNeverEmpty
  BY SemaphoreCountsTheLog, CountedIsThere, PTL
-----------------------------------------------------------------------------
(* The lock, and the way on.                                               *)

\* A thread holds the lock of the log exactly while it works on the queue.
LogLocked ==
    /\ \A t \in Threads : pc[t] \in {"emplace", "pop"} <=> logCS = t
    /\ \A t \in Pushers : pc[t] \in {"idle", "emplace", "release"}
    /\ \A t \in Poppers : pc[t] \in {"idle", "taken", "pop"}

LEMMA LogLockedStep == TypeOK /\ LogLocked /\ [Next]_vars => LogLocked'
<1> SUFFICES ASSUME TypeOK, LogLocked, [Next]_vars PROVE LogLocked'
  OBVIOUS
<1>0. NoThread \notin Threads /\ Pushers \cap Poppers = {}
  BY LogAssumption
<1> USE DEF LogLocked
<1>1. CASE UNCHANGED vars
  BY <1>1 DEF vars
<1>2. ASSUME NEW t \in Threads, NEW from, NEW to, Goto(t, from, to),
             \/ /\ from \in {"idle", "taken"} /\ to \in {"emplace", "pop"} /\ Lock(t)
             \/ /\ from \in {"emplace", "pop"} /\ to \in {"release", "idle"}
                /\ logCS' = NoThread
             \/ /\ {from, to} \in {{"release", "idle"}, {"idle", "taken"}}
                /\ logCS' = logCS,
             t \in Pushers => to \in {"idle", "emplace", "release"},
             t \in Poppers => to \in {"idle", "taken", "pop"}
      PROVE  LogLocked'
  <2>1. /\ pc[t] = from /\ pc'[t] = to
        /\ \A u \in Threads \ {t} : pc'[u] = pc[u]
    BY <1>2, Places
  <2>2. \A u \in Threads : pc'[u] \in {"emplace", "pop"} <=> logCS' = u
    BY <1>0, <1>2, <2>1 DEF Lock
  <2> QED
    BY <1>2, <2>1, <2>2
<1>3. ASSUME NEW t \in Pushers, Push(t) PROVE LogLocked'
  <2>0. t \in Threads /\ t \notin Poppers
    BY <1>0
  <2>1. CASE BeginPush(t)
    BY <2>0, <2>1, <1>2 DEF BeginPush
  <2>2. CASE Emplace(t)
    BY <2>0, <2>2, <1>2 DEF Emplace
  <2>3. CASE ReleaseSemaphore(t)
    BY <2>0, <2>3, <1>2 DEF ReleaseSemaphore
  <2> QED
    BY <1>3, <2>1, <2>2, <2>3 DEF Push
<1>4. ASSUME NEW t \in Poppers, PopMessg(t) PROVE LogLocked'
  <2>0. t \in Threads /\ t \notin Pushers
    BY <1>0
  <2>1. CASE WaitSemaphore(t)
    BY <2>0, <2>1, <1>2 DEF WaitSemaphore
  <2>2. CASE BeginPop(t)
    BY <2>0, <2>2, <1>2 DEF BeginPop
  <2>3. CASE Pop(t)
    BY <2>0, <2>3, <1>2 DEF Pop
  <2> QED
    BY <1>4, <2>1, <2>2, <2>3 DEF PopMessg
<1> QED
  BY <1>1, <1>3, <1>4 DEF Next

LEMMA LogLockedInit == Init => LogLocked
  BY LogAssumption DEF Init, LogLocked

(* pushMessg and popMessg change the queue one thread at a time.           *)
THEOREM LogIsLocked == Spec => []LogLocked
  BY LogLockedInit, LogLockedStep, SemaphoreCountsTheLog, PTL DEF Spec

\* A thread half-way through pushMessg or popMessg that nothing holds up.
GoesOn(t) ==
    \/ pc[t] \in {"emplace", "release"}
    \/ pc[t] = "taken" /\ logCS = NoThread
    \/ pc[t] = "pop" /\ log # << >>

\* No wake-up is lost and the lock is never left behind: while there is a
\* message, popMessg can begin, or a thread that is half-way can go on; and
\* so can the one that holds the lock.
LogGoesOn ==
    /\ log # << >> => logSem > 0 \/ \E t \in Threads : GoesOn(t)
    /\ logCS # NoThread => \E t \in Threads : logCS = t /\ GoesOn(t)

LEMMA LockedGoesOn ==
    TypeOK /\ SemaphoreCounts /\ LogLocked => LogGoesOn
<1> SUFFICES ASSUME TypeOK, SemaphoreCounts, LogLocked PROVE LogGoesOn
  OBVIOUS
<1>1. ASSUME logCS # NoThread PROVE \E t \in Threads : logCS = t /\ GoesOn(t)
  <2>1. PICK t \in Threads : logCS = t
    BY <1>1 DEF TypeOK
  <2>2. pc[t] \in {"emplace", "pop"}
    BY <2>1 DEF LogLocked
  <2>3. CASE pc[t] = "pop"
    <3>1. t \in Poppers
      BY <2>3 DEF LogLocked
    <3> QED
      BY <2>1, <2>3, <3>1, CountedIsThere DEF PopNeverEmpty, GoesOn
  <2> QED
    BY <2>1, <2>2, <2>3 DEF GoesOn
<1>2. ASSUME log # << >>, logSem = 0 PROVE \E t \in Threads : GoesOn(t)
  <2>1. Len(log) \in Nat /\ Len(log) # 0
    BY <1>2 DEF TypeOK
  <2>2. Cardinality(At("release")) # 0 \/ Cardinality(Taken) # 0
    BY <1>2, <2>1, AtIsFinite DEF SemaphoreCounts, Taken
  <2>3. At("release") # {} \/ Taken # {}
    BY <2>2, FS_EmptySet
  <2>4. PICK t \in Threads : pc[t] \in {"release", "taken", "pop"}
    BY <2>3 DEF At, Taken
  <2> QED
    BY <1>1, <1>2, <2>4 DEF GoesOn
<1>3. logSem \in Nat
  BY DEF TypeOK
<1> QED
  BY <1>1, <1>2, <1>3 DEF LogGoesOn

(* Whatever the number of threads, a message that is in the log is not     *)
(* forgotten there: somebody is on the way to it, or is let in.            *)
THEOREM NoMessageForgotten == Spec => []LogGoesOn
  BY LockedGoesOn, LogIsLocked, SemaphoreCountsTheLog, PTL
=============================================================================
