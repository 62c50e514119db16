---------------------------- MODULE RunOnStartup ----------------------------
(***************************************************************************)
(* The values that make a program run when its user logs on                *)
(* (Utility_runOnStartup.cpp), and the test of them that every server runs *)
(* before anything else (test_run_on_startup.cpp, server.cpp:8), under the *)
(* one name "Task6_TEST" in the user's keys Run and RunOnce.               *)
(*                                                                         *)
(* runProgramOnStartup queries a value and then sets it,                   *)
(* stopRunningProgramOnStartup queries it, gets it and deletes it: servers *)
(* that start together, and one that is killed in its test, find each      *)
(* other's values.  The registry's calls are atomic, and an exception of   *)
(* the test is caught by nobody.                                           *)
(***************************************************************************)
EXTENDS Naturals, Sequences

CONSTANTS
    Servers,          \* the processes, one after the other or together
    Path,             \* Path[p]: the program that p runs, its argv[0]
    NoValue,          \* there is no value
    Nobody,           \* nobody has set the value
    Debug,            \* the servers that were built with assertions
    MaxKills          \* bound: servers killed in their test

ASSUME StartupAssumption ==
    /\ NoValue \notin {Path[p] : p \in Servers}
    /\ Nobody \notin Servers
    /\ Debug \subseteq Servers
    /\ MaxKills \in Nat

Keys == {"Run", "RunOnce"}

(* The calls of the test: the method, the key, whether the path of the     *)
(* value is compared with the given one, and what it should return.        *)
Call(method, key, compares, returns) ==
    [method |-> method, key |-> key, compares |-> compares, returns |-> returns]

\* Faulty versions: the one-time value is removed from the other key; a value
\* is removed twice.
TestOfOneKey == << Call("run",  "Run",     FALSE, TRUE),
                   Call("stop", "Run",     TRUE,  TRUE),
                   Call("stop", "Run",     TRUE,  FALSE),
                   Call("run",  "RunOnce", TRUE,  TRUE),
                   Call("run",  "RunOnce", TRUE,  FALSE),
                   Call("stop", "Run",     FALSE, FALSE) >>

TestStopsTwice == << Call("run",  "Run", FALSE, TRUE),
                     Call("stop", "Run", TRUE,  TRUE),
                     Call("stop", "Run", TRUE,  TRUE) >>

Test == << Call("run",  "Run",     FALSE, TRUE),
           Call("stop", "Run",     TRUE,  TRUE),
           Call("stop", "Run",     TRUE,  FALSE),
           Call("run",  "RunOnce", TRUE,  TRUE),
           Call("run",  "RunOnce", TRUE,  FALSE),
           Call("stop", "RunOnce", FALSE, TRUE),
           Call("stop", "RunOnce", FALSE, FALSE) >>

VARIABLES
    value,      \* value[k]: the data of the value under key k
    pc,         \* pc[p]: where server p is
    call,       \* call[p]: the call of Test it is in
    seen,       \* seen[p]: the value whose size it has queried
    kills,      \* servers killed
    setter,     \* history: setter[k], who set the value last
    before,     \* history: before[p], who had started when p was killed or died
    disturbed   \* history: the servers that were not alone with an empty
                \* registry for all of their test

vars == <<value, pc, call, seen, kills, setter, before, disturbed>>

InTest == {"query", "get", "set", "delete"}
Testing == {p \in Servers : pc[p] \in InTest}

Init ==
    /\ value = [k \in Keys |-> NoValue]
    /\ pc = [p \in Servers |-> "unstarted"]
    /\ call = [p \in Servers |-> 1]
    /\ seen = [p \in Servers |-> NoValue]
    /\ kills = 0
    /\ setter = [k \in Keys |-> Nobody]
    /\ before = [p \in Servers |-> {}]
    /\ disturbed = {}

Current(p) == Test[call[p]]

At(p, label) == pc[p] = label
Goto(p, label) ==
    /\ pc' = [pc EXCEPT ![p] = label]
    /\ UNCHANGED <<call, before>>

Ends(p, label) ==
    /\ pc' = [pc EXCEPT ![p] = label]
    /\ before' = [before EXCEPT ![p] = {q \in Servers : ~At(q, "unstarted")}]
    /\ UNCHANGED call

\* The process starts, and wmain calls the test.
Start(p) ==
    /\ At(p, "unstarted")
    /\ Goto(p, "query")
    /\ disturbed' = disturbed
         \cup (IF Testing = {} THEN {} ELSE Testing \cup {p})
         \cup (IF value = [k \in Keys |-> NoValue] THEN {} ELSE {p})
    /\ UNCHANGED <<value, seen, kills, setter>>

\* An exception ends the process, as does a failed assertion.
Dies(p) == Ends(p, "dead")

\* A faulty version: one call more.
BeyondTest(p) == call[p] > Len(Test)

LastCall(p) == call[p] = Len(Test)

\* The call returns.  In a build without assertions nobody looks.
Returns(p, result, matches) ==
    LET expected == result = Current(p).returns
                    /\ (Current(p).method = "run" /\ ~result => matches)
    IN IF p \in Debug /\ ~expected THEN Dies(p)
       ELSE IF LastCall(p) THEN Goto(p, "running")
       ELSE /\ pc' = [pc EXCEPT ![p] = "query"]
            /\ call' = [call EXCEPT ![p] = @ + 1]
            /\ UNCHANGED before

-----------------------------------------------------------------------------
(* The two methods, a call of the registry at a time.                      *)

\* runProgramOnStartup queries the value, to compare it or to know that it is
\* there already.
QueryToRun(p, compares, found) ==
    \/ found /\ compares /\ Goto(p, "get")
    \/ found /\ ~compares /\ Returns(p, FALSE, TRUE)
    \/ ~found /\ Goto(p, "set")

\* stopRunningProgramOnStartup queries it, to compare it or to know that there
\* is something to delete.
QueryToStop(p, compares, found) ==
    \/ found /\ compares /\ Goto(p, "get")
    \/ found /\ ~compares /\ Goto(p, "delete")
    \/ ~found /\ Returns(p, FALSE, TRUE)

\* RegQueryValueEx.
Query(p) ==
    LET c == Current(p)
        found == value[c.key] # NoValue
    IN /\ At(p, "query")
       /\ \/ c.method = "run" /\ QueryToRun(p, c.compares, found)
          \/ c.method = "stop" /\ QueryToStop(p, c.compares, found)
       /\ seen' = [seen EXCEPT ![p] = value[c.key]]
       /\ UNCHANGED <<value, kills, setter, disturbed>>

\* A faulty version: another program's value is left, and nobody told.
LeavesValue(p) == Returns(p, FALSE, TRUE)

OtherProgram(p) == Dies(p)

\* RegGetValue, which fails if the value has gone since, or has been replaced
\* by a longer one.
Get(p) ==
    LET c == Current(p)
        matches == value[c.key] = Path[p]
    IN /\ At(p, "get")
       /\ \/ value[c.key] # seen[p] /\ Dies(p)
          \/ /\ value[c.key] # NoValue /\ c.method = "run"
             /\ Returns(p, FALSE, matches)
          \/ /\ value[c.key] # NoValue /\ c.method = "stop"
             /\ IF matches THEN Goto(p, "delete") ELSE OtherProgram(p)
       /\ UNCHANGED <<value, seen, kills, setter, disturbed>>

\* RegSetValueEx, which replaces a value that has come since.
Set(p) ==
    LET k == Current(p).key
    IN /\ At(p, "set")
       /\ value' = [value EXCEPT ![k] = Path[p]]
       /\ setter' = [setter EXCEPT ![k] = p]
       /\ Returns(p, TRUE, TRUE)
       /\ UNCHANGED <<seen, kills, disturbed>>

\* RegDeleteValue, which fails if the value has gone since.
Delete(p) ==
    LET k == Current(p).key
    IN /\ At(p, "delete")
       /\ IF value[k] = NoValue THEN Dies(p) ELSE Returns(p, TRUE, TRUE)
       /\ value' = [value EXCEPT ![k] = NoValue]
       /\ setter' = [setter EXCEPT ![k] = Nobody]
       /\ UNCHANGED <<seen, kills, disturbed>>

Kill(p) ==
    /\ p \in Testing
    /\ kills < MaxKills
    /\ kills' = kills + 1
    /\ Ends(p, "killed")
    /\ UNCHANGED <<value, seen, setter, disturbed>>

Step(p) == Query(p) \/ Get(p) \/ Set(p) \/ Delete(p)

Next == \E p \in Servers : Start(p) \/ Step(p) \/ Kill(p)

Spec == Init /\ [][Next]_vars

-----------------------------------------------------------------------------
(* Type correctness.                                                       *)
TypeOK ==
    /\ value \in [Keys -> {Path[p] : p \in Servers} \cup {NoValue}]
    /\ pc \in [Servers -> InTest \cup {"unstarted", "running", "dead", "killed"}]
    /\ call \in [Servers -> 1 .. Len(Test)]
    /\ seen \in [Servers -> {Path[p] : p \in Servers} \cup {NoValue}]
    /\ kills \in 0 .. MaxKills
    /\ setter \in [Keys -> Servers \cup {Nobody}]
    /\ before \in [Servers -> SUBSET Servers]
    /\ disturbed \subseteq Servers

(* The test leaves nothing behind: a value that is there was set by a      *)
(* server that is about to remove it, or that was killed before it could,  *)
(* though servers replace and remove each other's values, and some of them *)
(* die of it.  There is one exception: the fifth call finds that another   *)
(* server has removed the value, sets it again, and the assertion that it  *)
(* did not ends the process.                                               *)
CleansUp(p, k) ==
    p \in Testing /\ call[p] \in (IF k = "Run" THEN {2} ELSE {5, 6})

SetAgain(p, k) ==
    At(p, "dead") /\ p \in Debug /\ k = "RunOnce" /\ call[p] = 5

SetterCleansUp ==
    \A k \in Keys : value[k] # NoValue =>
        \E p \in Servers :
            /\ setter[k] = p
            /\ value[k] = Path[p]
            /\ CleansUp(p, k) \/ At(p, "killed") \/ SetAgain(p, k)

(* What such a server has left is gone when a server that started after it *)
(* was killed, or died, has passed the test, with assertions or without.   *)
HealedOnceRunning ==
    \A k \in Keys : \A p, q \in Servers :
        /\ value[k] # NoValue /\ setter[k] = p /\ p \notin Testing
        /\ At(q, "running")
        => q \in before[p]

(* test_run_on_startup.cpp: the assertions, and the calls that throw, only *)
(* fail a server that was not alone, or that found the value of a server   *)
(* that ended in its test.                                                 *)
FailsOnlyDisturbed == \A p \in Servers : At(p, "dead") => p \in disturbed
=============================================================================
