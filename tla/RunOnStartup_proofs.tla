------------------------ MODULE RunOnStartup_proofs ------------------------
(***************************************************************************)
(* Proofs about RunOnStartup, for any set of servers, whatever programs    *)
(* they run and with or without assertions.                                *)
(***************************************************************************)
EXTENDS RunOnStartup, TLAPS

USE StartupAssumption

KeyOf(n) == IF n \in 1 .. 3 THEN "Run" ELSE "RunOnce"

\* The calls in which a value that is there is removed.
Remover(k) == IF k = "Run" THEN 2 ELSE 6

Paths == {Path[p] : p \in Servers}

(* The test, call by call.                                                 *)
LEMMA TestTable ==
    /\ Len(Test) = 7
    /\ \A n \in 1 .. 7 :
         /\ Test[n].method = IF n \in {1, 4, 5} THEN "run" ELSE "stop"
         /\ Test[n].key = KeyOf(n)
         /\ Test[n].compares <=> n \in 2 .. 5
         /\ Test[n].returns \in BOOLEAN
         /\ Test[n].returns <=> n \in {1, 2, 4, 6}
<1>1. Len(Test) = 7
  BY DEF Test
<1>2. /\ Test[1] = Call("run",  "Run",     FALSE, TRUE)
      /\ Test[2] = Call("stop", "Run",     TRUE,  TRUE)
      /\ Test[3] = Call("stop", "Run",     TRUE,  FALSE)
      /\ Test[4] = Call("run",  "RunOnce", TRUE,  TRUE)
      /\ Test[5] = Call("run",  "RunOnce", TRUE,  FALSE)
      /\ Test[6] = Call("stop", "RunOnce", FALSE, TRUE)
      /\ Test[7] = Call("stop", "RunOnce", FALSE, FALSE)
  BY DEF Test
<1>3. \A n \in 1 .. 7 :
        /\ Test[n].method = IF n \in {1, 4, 5} THEN "run" ELSE "stop"
        /\ Test[n].key = KeyOf(n)
  BY <1>2 DEF Call, KeyOf
<1>4. /\ Test[1].compares = FALSE /\ Test[1].returns = TRUE
      /\ Test[2].compares = TRUE /\ Test[2].returns = TRUE
      /\ Test[3].compares = TRUE /\ Test[3].returns = FALSE
      /\ Test[4].compares = TRUE /\ Test[4].returns = TRUE
      /\ Test[5].compares = TRUE /\ Test[5].returns = FALSE
      /\ Test[6].compares = FALSE /\ Test[6].returns = TRUE
      /\ Test[7].compares = FALSE /\ Test[7].returns = FALSE
  BY <1>2, SMT DEF Call
<1>5. \A n \in 1 .. 7 : n = 1 \/ n = 2 \/ n = 3 \/ n = 4 \/ n = 5 \/ n = 6 \/ n = 7
  OBVIOUS
<1>6. ASSUME NEW n \in 1 .. 7 PROVE Test[n].returns \in BOOLEAN
  BY <1>4, <1>5, Zenon
<1>7. ASSUME NEW n \in 1 .. 7
      PROVE  /\ Test[n].compares <=> n \in 2 .. 5
             /\ Test[n].returns <=> n \in {1, 2, 4, 6}
  BY <1>4, <1>5
<1> QED
  BY <1>1, <1>3, <1>6, <1>7

-----------------------------------------------------------------------------
(* The inductive invariant.                                                *)

\* The calls in which a server can be at each place of the methods.
Places ==
    \A p \in Servers :
        /\ pc[p] = "unstarted" => call[p] = 1
        /\ pc[p] = "get" => call[p] \in 2 .. 5
        /\ pc[p] = "set" => call[p] \in {1, 4, 5}
        /\ pc[p] = "delete" => call[p] \in {2, 3, 6, 7}

\* A server that queried its own value, and finds its own, has queried that.
SeenOwn ==
    \A p \in Servers :
        LET k == KeyOf(call[p]) IN
        pc[p] = "get" /\ value[k] # NoValue /\ setter[k] = p => seen[p] = Path[p]

\* A server that started after the one who left a value has yet to remove it.
Healing ==
    \A k \in Keys : \A p, q \in Servers :
        /\ value[k] # NoValue /\ setter[k] = p /\ pc[p] \notin InTest
        /\ pc[q] # "unstarted" /\ q \notin before[p]
        => \/ pc[q] \in {"dead", "killed"}
           \/ pc[q] \in InTest /\ call[q] <= Remover(k)

\* A server that nobody disturbed finds what it has left itself.
Undisturbed(p) ==
    /\ \A q \in Servers : pc[q] \in InTest => q = p
    /\ value["Run"] = IF call[p] = 2 THEN Path[p] ELSE NoValue
    /\ value["RunOnce"] = IF call[p] \in {5, 6} THEN Path[p] ELSE NoValue
    /\ pc[p] = "get" => call[p] \in {2, 5} /\ seen[p] = Path[p]
    /\ pc[p] = "set" => call[p] \in {1, 4}
    /\ pc[p] = "delete" => call[p] \in {2, 6}

Alone ==
    \A p \in Servers :
        pc[p] \in InTest /\ p \notin disturbed => Undisturbed(p)

StartupInv ==
    /\ TypeOK /\ Places
    /\ SetterCleansUp /\ SeenOwn
    /\ Healing
    /\ Alone /\ FailsOnlyDisturbed

-----------------------------------------------------------------------------
(* What a call that returns does.                                          *)
Moves(p, label, n) ==
    /\ pc' = [pc EXCEPT ![p] = label]
    /\ call' = [call EXCEPT ![p] = n]

Stops(p) ==
    /\ Moves(p, "dead", call[p])
    /\ before' = [before EXCEPT ![p] = {q \in Servers : pc[q] # "unstarted"}]

GoesOn(p) ==
    /\ UNCHANGED before
    /\ IF call[p] = 7 THEN Moves(p, "running", 7) ELSE Moves(p, "query", call[p] + 1)

LEMMA ReturnsOutcome ==
    ASSUME TypeOK, NEW p \in Servers, NEW r \in BOOLEAN, NEW m \in BOOLEAN,
           Returns(p, r, m)
    PROVE  /\ r => IF p \in Debug /\ call[p] \notin {1, 2, 4, 6}
                   THEN Stops(p) ELSE GoesOn(p)
           /\ ~r => IF p \in Debug /\ (call[p] \in {1, 2, 4, 6} \/ (call[p] = 5 /\ ~m))
                    THEN Stops(p) ELSE GoesOn(p)
<1>1. call[p] \in 1 .. 7 /\ call = [call EXCEPT ![p] = call[p]] /\ Len(Test) = 7
  BY TestTable DEF TypeOK
<1>2. /\ Current(p).returns \in BOOLEAN
      /\ Current(p).returns <=> call[p] \in {1, 2, 4, 6}
      /\ Current(p).method = "run" <=> call[p] \in {1, 4, 5}
  BY <1>1, TestTable DEF Current
<1> DEFINE expected == r = Current(p).returns
                       /\ (Current(p).method = "run" /\ ~r => m)
<1>3. expected <=> /\ r <=> call[p] \in {1, 2, 4, 6}
                   /\ call[p] \in {1, 4, 5} /\ ~r => m
  BY <1>2, Zenon
<1>4. \/ p \in Debug /\ ~expected /\ Dies(p)
      \/ /\ p \in Debug => expected
         /\ \/ LastCall(p) /\ Goto(p, "running")
            \/ ~LastCall(p) /\ Moves(p, "query", call[p] + 1) /\ UNCHANGED before
  BY Zenon DEF Returns, Moves
<1> HIDE DEF expected
<1>5. CASE p \in Debug /\ ~expected /\ Dies(p)
  BY <1>1, <1>3, <1>5 DEF Dies, Ends, Moves, At, Stops
<1>6. CASE p \in Debug => expected
  BY <1>1, <1>3, <1>4, <1>6 DEF Goto, LastCall, Moves, GoesOn
<1> QED
  BY <1>4, <1>5, <1>6

\* The same, for the results that the methods return.
LEMMA ReturnsTrue ==
    ASSUME TypeOK, NEW p \in Servers, Returns(p, TRUE, TRUE)
    PROVE  IF p \in Debug /\ call[p] \notin {1, 2, 4, 6} THEN Stops(p) ELSE GoesOn(p)
  BY ReturnsOutcome, Zenon

LEMMA ReturnsFalse ==
    ASSUME TypeOK, NEW p \in Servers, NEW m \in BOOLEAN, Returns(p, FALSE, m)
    PROVE  IF p \in Debug /\ (call[p] \in {1, 2, 4, 6} \/ (call[p] = 5 /\ ~m))
           THEN Stops(p) ELSE GoesOn(p)
  BY ReturnsOutcome, Zenon

-----------------------------------------------------------------------------
(* The four steps, by the number of the call.                              *)
LEMMA QueryOutcome ==
    ASSUME TypeOK, NEW p \in Servers, Query(p)
    PROVE  LET n == call[p]
               k == KeyOf(n)
           IN
           /\ pc[p] = "query"
           /\ UNCHANGED <<value, kills, setter, disturbed>>
           /\ seen' = [seen EXCEPT ![p] = value[k]]
           /\ \/ /\ value[k] # NoValue /\ n \in 2 .. 5
                 /\ Moves(p, "get", n) /\ UNCHANGED before
              \/ /\ value[k] # NoValue /\ n = 1
                 /\ IF p \in Debug THEN Stops(p) ELSE GoesOn(p)
              \/ /\ value[k] # NoValue /\ n \in {6, 7}
                 /\ Moves(p, "delete", n) /\ UNCHANGED before
              \/ /\ value[k] = NoValue /\ n \in {1, 4, 5}
                 /\ Moves(p, "set", n) /\ UNCHANGED before
              \/ /\ value[k] = NoValue /\ n \in {2, 6}
                 /\ IF p \in Debug THEN Stops(p) ELSE GoesOn(p)
              \/ value[k] = NoValue /\ n \in {3, 7} /\ GoesOn(p)
<1>1. call[p] \in 1 .. 7 /\ call = [call EXCEPT ![p] = call[p]]
  BY TestTable DEF TypeOK
<1>2. /\ Current(p).method = IF call[p] \in {1, 4, 5} THEN "run" ELSE "stop"
      /\ Current(p).key = KeyOf(call[p])
      /\ Current(p).compares <=> call[p] \in 2 .. 5
  BY <1>1, TestTable DEF Current
<1> DEFINE k == KeyOf(call[p])
           R == Returns(p, FALSE, TRUE)
<1>3. /\ pc[p] = "query"
      /\ UNCHANGED <<value, kills, setter, disturbed>>
      /\ seen' = [seen EXCEPT ![p] = value[k]]
      /\ \/ value[k] # NoValue /\ Current(p).compares /\ Goto(p, "get")
         \/ value[k] # NoValue /\ ~Current(p).compares
            /\ Current(p).method = "run" /\ R
         \/ value[k] # NoValue /\ ~Current(p).compares
            /\ Current(p).method = "stop" /\ Goto(p, "delete")
         \/ value[k] = NoValue /\ Current(p).method = "run" /\ Goto(p, "set")
         \/ value[k] = NoValue /\ Current(p).method = "stop" /\ R
  BY <1>2, Zenon DEF Query, QueryToRun, QueryToStop, At
<1> HIDE DEF R
<1>4. \/ value[k] # NoValue /\ call[p] \in 2 .. 5 /\ Moves(p, "get", call[p])
         /\ UNCHANGED before
      \/ value[k] # NoValue /\ call[p] = 1 /\ R
      \/ value[k] # NoValue /\ call[p] \in {6, 7} /\ Moves(p, "delete", call[p])
         /\ UNCHANGED before
      \/ value[k] = NoValue /\ call[p] \in {1, 4, 5} /\ Moves(p, "set", call[p])
         /\ UNCHANGED before
      \/ value[k] = NoValue /\ call[p] \in {2, 3, 6, 7} /\ R
  BY <1>1, <1>2, <1>3 DEF Goto, Moves
<1>5. R => IF p \in Debug /\ call[p] \in {1, 2, 4, 6} THEN Stops(p) ELSE GoesOn(p)
  BY ReturnsOutcome DEF R
<1> QED
  BY <1>3, <1>4, <1>5

LEMMA GetOutcome ==
    ASSUME TypeOK, Places, NEW p \in Servers, Get(p)
    PROVE  LET n == call[p]
               k == KeyOf(n)
           IN
           /\ pc[p] = "get"
           /\ UNCHANGED <<value, seen, kills, setter, disturbed>>
           /\ \/ /\ value[k] # seen[p] \/ (n \in {2, 3} /\ value[k] # Path[p])
                 /\ Stops(p)
              \/ /\ n \in {4, 5} /\ value[k] # NoValue
                 /\ IF p \in Debug /\ (n = 4 \/ value[k] # Path[p])
                    THEN Stops(p) ELSE GoesOn(p)
              \/ /\ n \in {2, 3} /\ value[k] = Path[p]
                 /\ Moves(p, "delete", n) /\ UNCHANGED before
<1>1. call[p] \in 2 .. 5 /\ call = [call EXCEPT ![p] = call[p]]
  BY DEF Get, At, Places, TypeOK
<1>2. /\ Current(p).method = IF call[p] \in {1, 4, 5} THEN "run" ELSE "stop"
      /\ Current(p).key = KeyOf(call[p])
  BY <1>1, TestTable DEF Current
<1> DEFINE k == KeyOf(call[p])
           R == Returns(p, FALSE, value[k] = Path[p])
<1>3. /\ pc[p] = "get" /\ UNCHANGED <<value, seen, kills, setter, disturbed>>
      /\ \/ value[k] # seen[p] /\ Dies(p)
         \/ value[k] # NoValue /\ Current(p).method = "run" /\ R
         \/ /\ value[k] # NoValue /\ Current(p).method = "stop"
            /\ IF value[k] = Path[p] THEN Goto(p, "delete") ELSE Dies(p)
  BY <1>2, Zenon DEF Get, OtherProgram, At
<1> HIDE DEF R
<1>4. \/ /\ value[k] # seen[p] \/ (call[p] \in {2, 3} /\ value[k] # Path[p])
         /\ Stops(p)
      \/ call[p] \in {4, 5} /\ value[k] # NoValue /\ R
      \/ /\ call[p] \in {2, 3} /\ value[k] = Path[p]
         /\ Moves(p, "delete", call[p]) /\ UNCHANGED before
  BY <1>1, <1>2, <1>3 DEF Dies, Ends, Goto, Moves, At, Stops
<1>5. (value[k] = Path[p]) \in BOOLEAN
  OBVIOUS
<1> HIDE DEF k
<1>6. R => IF p \in Debug /\ (call[p] \in {1, 2, 4, 6} \/ (call[p] = 5 /\ value[k] # Path[p]))
           THEN Stops(p) ELSE GoesOn(p)
  BY <1>5, ReturnsFalse, Zenon DEF R
<1> USE DEF k
<1> QED
  BY <1>3, <1>4, <1>6

LEMMA SetOutcome ==
    ASSUME TypeOK, Places, NEW p \in Servers, Set(p)
    PROVE  LET n == call[p]
               k == KeyOf(n)
           IN
           /\ pc[p] = "set" /\ n \in {1, 4, 5}
           /\ UNCHANGED <<seen, kills, disturbed>>
           /\ value' = [value EXCEPT ![k] = Path[p]]
           /\ setter' = [setter EXCEPT ![k] = p]
           /\ IF p \in Debug /\ n = 5 THEN Stops(p) ELSE GoesOn(p)
<1>1. call[p] \in {1, 4, 5}
  BY DEF Set, At, Places
<1>2. Current(p).key = KeyOf(call[p])
  BY <1>1, TestTable DEF Current
<1> DEFINE R == Returns(p, TRUE, TRUE)
<1>3. R => IF p \in Debug /\ call[p] = 5 THEN Stops(p) ELSE GoesOn(p)
  <2>1. R => IF p \in Debug /\ call[p] \notin {1, 2, 4, 6}
             THEN Stops(p) ELSE GoesOn(p)
    BY ReturnsTrue, Zenon
  <2> HIDE DEF R
  <2> QED
    BY <1>1, <2>1
<1>4. /\ pc[p] = "set" /\ UNCHANGED <<seen, kills, disturbed>>
      /\ value' = [value EXCEPT ![Current(p).key] = Path[p]]
      /\ setter' = [setter EXCEPT ![Current(p).key] = p]
      /\ R
  BY Zenon DEF Set, At
<1> HIDE DEF R
<1> QED
  BY <1>1, <1>2, <1>3, <1>4

LEMMA DeleteOutcome ==
    ASSUME TypeOK, Places, NEW p \in Servers, Delete(p)
    PROVE  LET n == call[p]
               k == KeyOf(n)
           IN
           /\ pc[p] = "delete" /\ n \in {2, 3, 6, 7}
           /\ UNCHANGED <<seen, kills, disturbed>>
           /\ value' = [value EXCEPT ![k] = NoValue]
           /\ setter' = [setter EXCEPT ![k] = Nobody]
           /\ IF value[k] = NoValue \/ (p \in Debug /\ n \in {3, 7})
              THEN Stops(p) ELSE GoesOn(p)
<1>1. call[p] \in {2, 3, 6, 7} /\ call = [call EXCEPT ![p] = call[p]]
  BY DEF Delete, At, Places, TypeOK
<1>2. Current(p).key = KeyOf(call[p])
  BY <1>1, TestTable DEF Current
<1> DEFINE R == Returns(p, TRUE, TRUE)
<1>3. R => IF p \in Debug /\ call[p] \in {3, 7} THEN Stops(p) ELSE GoesOn(p)
  <2>1. R => IF p \in Debug /\ call[p] \notin {1, 2, 4, 6}
             THEN Stops(p) ELSE GoesOn(p)
    BY ReturnsTrue, Zenon
  <2> HIDE DEF R
  <2> QED
    BY <1>1, <2>1
<1>4. Dies(p) => Stops(p)
  BY <1>1 DEF Dies, Ends, Stops, Moves, At
<1>5. /\ pc[p] = "delete" /\ UNCHANGED <<seen, kills, disturbed>>
      /\ value' = [value EXCEPT ![Current(p).key] = NoValue]
      /\ setter' = [setter EXCEPT ![Current(p).key] = Nobody]
      /\ IF value[Current(p).key] = NoValue THEN Dies(p) ELSE R
  BY Zenon DEF Delete, At
<1> HIDE DEF R
<1> QED
  BY <1>1, <1>2, <1>3, <1>4, <1>5

-----------------------------------------------------------------------------
(* Each step keeps the invariant.                                          *)
LEMMA Shape ==
    ASSUME TypeOK
    PROVE  /\ value \in [Keys -> Paths \cup {NoValue}]
           /\ pc \in [Servers -> InTest \cup {"unstarted", "running", "dead", "killed"}]
           /\ call \in [Servers -> 1 .. 7]
           /\ seen \in [Servers -> Paths \cup {NoValue}]
           /\ setter \in [Keys -> Servers \cup {Nobody}]
           /\ before \in [Servers -> SUBSET Servers]
           /\ \A p \in Servers : Path[p] # NoValue /\ Path[p] \in Paths
           /\ \A n \in 1 .. 7 : KeyOf(n) \in Keys
           /\ NoValue \notin Paths
  BY TestTable DEF TypeOK, Paths, KeyOf, Keys

LEMMA StartKeeps ==
    ASSUME StartupInv, NEW p \in Servers, Start(p)
    PROVE  StartupInv'
<1> USE Shape DEF StartupInv, KeyOf, Keys, InTest
<1>1. TypeOK'
  BY TestTable DEF TypeOK, InTest, Paths, Start, Goto, Ends, At, Testing
<1>2. Places'
  BY  DEF Places, Start, Goto, Ends, At, Testing
<1>3. SetterCleansUp'
  BY  DEF SetterCleansUp, CleansUp, SetAgain, At, Testing, Start, Goto, Ends
<1>4. SeenOwn'
  BY  DEF SeenOwn, Start, Goto, Ends, At, Testing
<1>5. Healing'
  <2> SUFFICES ASSUME NEW k \in Keys, NEW r \in Servers, NEW q \in Servers,
                      value'[k] # NoValue, setter'[k] = r, pc'[r] \notin InTest,
                      pc'[q] # "unstarted", q \notin before'[r]
               PROVE  \/ pc'[q] \in {"dead", "killed"}
                      \/ pc'[q] \in InTest /\ call'[q] <= Remover(k)
    BY DEF Healing
  <2>1. CASE q = p
    BY <2>1 DEF Start, Goto, At, Places, Remover
  <2>2. CASE q # p
    BY <2>2 DEF Start, Goto, At, Healing, SetterCleansUp, CleansUp, SetAgain, Testing
  <2> QED
    BY <2>1, <2>2
<1>6. Alone'
  <2> SUFFICES ASSUME NEW q \in Servers, pc'[q] \in InTest, q \notin disturbed'
               PROVE  Undisturbed(q)'
    BY DEF Alone
  <2>1. q = p /\ Testing = {} /\ value = [k \in Keys |-> NoValue]
    BY DEF Start, Goto, At, Testing
  <2>2. value["Run"] = NoValue /\ value["RunOnce"] = NoValue
    BY <2>1
  <2> QED
    BY <2>1, <2>2 DEF Start, Goto, At, Testing, Undisturbed, Places
<1>7. FailsOnlyDisturbed'
  BY  DEF FailsOnlyDisturbed, At, Alone, Undisturbed, Start, Goto, Ends, Testing
<1> QED
  BY <1>1, <1>2, <1>3, <1>4, <1>5, <1>6, <1>7 DEF StartupInv

LEMMA KillKeeps ==
    ASSUME StartupInv, NEW p \in Servers, Kill(p)
    PROVE  StartupInv'
<1> USE Shape DEF StartupInv, KeyOf, Keys, InTest
<1>1. TypeOK'
  BY TestTable DEF TypeOK, InTest, Paths, Kill, Goto, Ends, At, Testing
<1>2. Places'
  BY  DEF Places, Kill, Goto, Ends, At, Testing
<1>3. SetterCleansUp'
  BY  DEF SetterCleansUp, CleansUp, SetAgain, At, Testing, Kill, Goto, Ends
<1>4. SeenOwn'
  BY  DEF SeenOwn, Kill, Goto, Ends, At, Testing
<1>5. Healing'
  BY  DEF Healing, Remover, Kill, Goto, Ends, At, Testing
<1>6. Alone'
  BY  DEF Alone, Undisturbed, Kill, Goto, Ends, At, Testing
<1>7. FailsOnlyDisturbed'
  BY  DEF FailsOnlyDisturbed, At, Alone, Undisturbed, Kill, Goto, Ends, Testing
<1> QED
  BY <1>1, <1>2, <1>3, <1>4, <1>5, <1>6, <1>7 DEF StartupInv

LEMMA QueryKeeps ==
    ASSUME StartupInv, NEW p \in Servers, Query(p)
    PROVE  StartupInv'
<1> USE Shape DEF StartupInv, KeyOf, Keys, InTest, Moves, Stops, GoesOn
<1>1. TypeOK'
  <2>1. /\ pc' \in [Servers -> InTest \cup {"unstarted", "running", "dead", "killed"}]
        /\ call' \in [Servers -> 1 .. 7]
        /\ before' \in [Servers -> SUBSET Servers]
    BY QueryOutcome
  <2>2. /\ seen' \in [Servers -> Paths \cup {NoValue}]
        /\ UNCHANGED <<value, setter, kills, disturbed>>
    BY QueryOutcome
  <2> QED
    BY <2>1, <2>2, TestTable, Shape DEF TypeOK, Paths
<1>2. Places'
  BY QueryOutcome DEF Places
<1>3. SetterCleansUp'
  BY QueryOutcome DEF SetterCleansUp, CleansUp, SetAgain, At, Testing
<1>4. SeenOwn'
  <2> SUFFICES ASSUME NEW q \in Servers, pc'[q] = "get",
                      value'[KeyOf(call'[q])] # NoValue, setter'[KeyOf(call'[q])] = q
               PROVE  seen'[q] = Path[q]
    BY DEF SeenOwn
  <2>1. CASE q = p
    <3>1. call'[p] = call[p] /\ seen'[p] = value[KeyOf(call[p])]
      BY <2>1, QueryOutcome
    <3> QED
      BY <2>1, <3>1, QueryOutcome DEF SetterCleansUp
  <2>2. CASE q # p
    BY <2>2, QueryOutcome DEF SeenOwn
  <2> QED
    BY <2>1, <2>2
<1>5. Healing'
  <2> SUFFICES ASSUME NEW k \in Keys, NEW r \in Servers, NEW q \in Servers,
                      value'[k] # NoValue, setter'[k] = r, pc'[r] \notin InTest,
                      pc'[q] # "unstarted", q \notin before'[r]
               PROVE  \/ pc'[q] \in {"dead", "killed"}
                      \/ pc'[q] \in InTest /\ call'[q] <= Remover(k)
    BY DEF Healing
  <2>1. CASE q = p
    <3>1. r # p => pc[r] \notin InTest /\ before'[r] = before[r]
      BY QueryOutcome
    <3>2. r = p => call[p] # 7
      BY QueryOutcome DEF SetterCleansUp, CleansUp, SetAgain, At, Testing
    <3>3. CASE r = p
      BY <2>1, <3>2, <3>3, QueryOutcome
    <3>4. CASE r # p
      <4>1. call[p] <= Remover(k) /\ value[k] # NoValue /\ setter[k] = r
        BY <2>1, <3>1, <3>4, QueryOutcome DEF Healing
      <4> QED
        BY <2>1, <3>4, <4>1, QueryOutcome DEF Remover
    <3> QED
      BY <3>3, <3>4
  <2>2. CASE q # p /\ r # p
    BY <2>2, QueryOutcome DEF Healing
  <2>3. CASE q # p /\ r = p
    BY <2>3, QueryOutcome DEF SetterCleansUp, CleansUp, SetAgain, At, Testing
  <2> QED
    BY <2>1, <2>2, <2>3
<1>6. Alone'
  BY QueryOutcome DEF Alone, Undisturbed
<1>7. FailsOnlyDisturbed'
  BY QueryOutcome DEF FailsOnlyDisturbed, At, Alone, Undisturbed
<1> QED
  BY <1>1, <1>2, <1>3, <1>4, <1>5, <1>6, <1>7 DEF StartupInv

LEMMA GetKeeps ==
    ASSUME StartupInv, NEW p \in Servers, Get(p)
    PROVE  StartupInv'
<1> USE Shape DEF StartupInv, KeyOf, Keys, InTest, Moves, Stops, GoesOn
<1>1. TypeOK'
  <2>1. /\ pc' \in [Servers -> InTest \cup {"unstarted", "running", "dead", "killed"}]
        /\ call' \in [Servers -> 1 .. 7]
        /\ before' \in [Servers -> SUBSET Servers]
    BY GetOutcome
  <2>2. /\ seen' \in [Servers -> Paths \cup {NoValue}]
        /\ UNCHANGED <<value, setter, kills, disturbed>>
    BY GetOutcome
  <2> QED
    BY <2>1, <2>2, TestTable, Shape DEF TypeOK, Paths
<1>2. Places'
  BY GetOutcome DEF Places
<1>3. SetterCleansUp'
  <2> SUFFICES ASSUME NEW k \in Keys, value[k] # NoValue
               PROVE  LET r == setter[k] IN
                      /\ r \in Servers /\ value[k] = Path[r]
                      /\ (CleansUp(r, k) \/ At(r, "killed") \/ SetAgain(r, k))'
    BY GetOutcome DEF SetterCleansUp
  <2> DEFINE r == setter[k]
  <2>1. /\ r \in Servers /\ value[k] = Path[r]
        /\ CleansUp(r, k) \/ At(r, "killed") \/ SetAgain(r, k)
    BY DEF SetterCleansUp
  <2>2. CASE r # p
    BY <2>1, <2>2, GetOutcome DEF CleansUp, SetAgain, At, Testing
  <2>3. CASE r = p
    <3>1. call[p] \in 2 .. 5 /\ pc[p] = "get" /\ CleansUp(p, k)
      BY <2>1, <2>3, GetOutcome DEF Places, At, SetAgain
    <3>2. KeyOf(call[p]) = k /\ seen[p] = Path[p]
      BY <2>1, <2>3, <3>1 DEF CleansUp, SeenOwn
    <3> QED
      BY <2>1, <2>3, <3>1, <3>2, GetOutcome DEF CleansUp, At, Testing
  <2> QED
    BY <2>1, <2>2, <2>3
<1>4. SeenOwn'
  BY GetOutcome DEF SeenOwn
<1>5. Healing'
  BY GetOutcome DEF Healing, Remover
<1>6. Alone'
  BY GetOutcome DEF Alone, Undisturbed
<1>7. FailsOnlyDisturbed'
  BY GetOutcome DEF FailsOnlyDisturbed, At, Alone, Undisturbed
<1> QED
  BY <1>1, <1>2, <1>3, <1>4, <1>5, <1>6, <1>7 DEF StartupInv

LEMMA SetKeeps ==
    ASSUME StartupInv, NEW p \in Servers, Set(p)
    PROVE  StartupInv'
<1> USE Shape DEF StartupInv, KeyOf, Keys, InTest, Moves, Stops, GoesOn
<1>1. TypeOK'
  BY SetOutcome, TestTable DEF TypeOK, InTest, Paths
<1>2. Places'
  BY SetOutcome DEF Places
<1>3. SetterCleansUp'
  BY SetOutcome DEF SetterCleansUp, CleansUp, SetAgain, At, Testing
<1>4. SeenOwn'
  BY SetOutcome DEF SeenOwn
<1>5. Healing'
  BY SetOutcome DEF Healing, Remover
<1>6. Alone'
  BY SetOutcome DEF Alone, Undisturbed
<1>7. FailsOnlyDisturbed'
  BY SetOutcome DEF FailsOnlyDisturbed, At, Alone, Undisturbed
<1> QED
  BY <1>1, <1>2, <1>3, <1>4, <1>5, <1>6, <1>7 DEF StartupInv

LEMMA DeleteKeeps ==
    ASSUME StartupInv, NEW p \in Servers, Delete(p)
    PROVE  StartupInv'
<1> USE Shape DEF StartupInv, KeyOf, Keys, InTest, Moves, Stops, GoesOn
<1>1. TypeOK'
  BY DeleteOutcome, TestTable DEF TypeOK, InTest, Paths
<1>2. Places'
  BY DeleteOutcome DEF Places
<1>3. SetterCleansUp'
  BY DeleteOutcome DEF SetterCleansUp, CleansUp, SetAgain, At, Testing
<1>4. SeenOwn'
  BY DeleteOutcome DEF SeenOwn
<1>5. Healing'
  <2> SUFFICES ASSUME NEW k \in Keys, NEW r \in Servers, NEW q \in Servers,
                      value'[k] # NoValue, setter'[k] = r, pc'[r] \notin InTest,
                      pc'[q] # "unstarted", q \notin before'[r]
               PROVE  \/ pc'[q] \in {"dead", "killed"}
                      \/ pc'[q] \in InTest /\ call'[q] <= Remover(k)
    BY DEF Healing
  <2>1. CASE q = p
    <3>1. r # p => pc[r] \notin InTest /\ before'[r] = before[r]
      BY DeleteOutcome
    <3>2. r = p => call[p] # 7
      BY DeleteOutcome DEF SetterCleansUp, CleansUp, SetAgain, At, Testing
    <3>3. CASE r = p
      BY <2>1, <3>2, <3>3, DeleteOutcome
    <3>4. CASE r # p
      <4>1. call[p] <= Remover(k) /\ value[k] # NoValue /\ setter[k] = r
        BY <2>1, <3>1, <3>4, DeleteOutcome DEF Healing
      <4> QED
        BY <2>1, <3>4, <4>1, DeleteOutcome DEF Remover
    <3> QED
      BY <3>3, <3>4
  <2>2. CASE q # p /\ r # p
    BY <2>2, DeleteOutcome DEF Healing
  <2>3. CASE q # p /\ r = p
    BY <2>3, DeleteOutcome DEF SetterCleansUp, CleansUp, SetAgain, At, Testing
  <2> QED
    BY <2>1, <2>2, <2>3
<1>6. Alone'
  BY DeleteOutcome DEF Alone, Undisturbed
<1>7. FailsOnlyDisturbed'
  BY DeleteOutcome DEF FailsOnlyDisturbed, At, Alone, Undisturbed
<1> QED
  BY <1>1, <1>2, <1>3, <1>4, <1>5, <1>6, <1>7 DEF StartupInv

LEMMA InvInit == Init => StartupInv
<1> SUFFICES ASSUME Init PROVE StartupInv
  OBVIOUS
<1> USE DEF Init
<1>1. TypeOK
  BY TestTable DEF TypeOK, InTest
<1>2. Places /\ SeenOwn /\ Healing
  BY DEF Places, SeenOwn, Healing
<1>3. SetterCleansUp /\ Alone /\ FailsOnlyDisturbed
  BY DEF SetterCleansUp, Alone, FailsOnlyDisturbed, At, InTest
<1> QED
  BY <1>1, <1>2, <1>3 DEF StartupInv

LEMMA InvStep == StartupInv /\ [Next]_vars => StartupInv'
<1> SUFFICES ASSUME StartupInv, [Next]_vars PROVE StartupInv'
  OBVIOUS
<1>1. CASE Next
  BY <1>1, StartKeeps, KillKeeps, QueryKeeps, GetKeeps, SetKeeps, DeleteKeeps
     DEF Next, Step
<1>2. CASE UNCHANGED vars
  BY <1>2 DEF vars, StartupInv, TypeOK, Places, SetterCleansUp, CleansUp, SetAgain,
              At, Testing, SeenOwn, Healing, Alone, Undisturbed, FailsOnlyDisturbed
<1> QED
  BY <1>1, <1>2

-----------------------------------------------------------------------------
(* Type correctness, for any servers.                                      *)
THEOREM StartupTypeCorrect == Spec => []TypeOK
  BY InvInit, InvStep, PTL DEF Spec, StartupInv

(* Any number of servers may run the test of test_run_on_startup.cpp at    *)
(* once, and be killed in it: a value that is in the registry was set by a *)
(* server that is about to remove it, or was killed, or ended by its       *)
(* assertion that it did not set the value again.                          *)
THEOREM TestCleansUp == Spec => []SetterCleansUp
  BY InvInit, InvStep, PTL DEF Spec, StartupInv

(* A value that such a server left is gone once a server that started      *)
(* later runs.                                                             *)
THEOREM LeftoversHeal == Spec => []HealedOnceRunning
<1>1. StartupInv => HealedOnceRunning
  BY DEF StartupInv, HealedOnceRunning, Healing, Testing, At, InTest
<1> QED
  BY <1>1, InvInit, InvStep, PTL DEF Spec

(* The test fails no server that is alone, with nothing left in the        *)
(* registry: not one of its assertions, nor a call that throws.            *)
THEOREM TestPassesAlone == Spec => []FailsOnlyDisturbed
  BY InvInit, InvStep, PTL DEF Spec, StartupInv
=============================================================================
