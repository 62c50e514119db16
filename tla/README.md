# Task6: TLA+ specifications and proofs

Task6 is a Windows server and its client, written in C++. A server process takes
messages from client processes over two local channels, a named pipe with many
instances and a block of shared memory, and a pool of worker threads serves both
through one I/O completion port. This directory holds TLA+ models of the
library both programs are built from (`src/Task6/Task6Lib`), the TLC runs that
check them, and TLAPS proofs of their main properties.

To check: `tlc -config MCInPipeServer.cfg MCInPipeServer` (and so on for each
`.cfg`), `tlapm Task6Server_proofs.tla` (and so on for each `*_proofs.tla`).
`PROJECT.json` maps every definition to the lines it models.

## 1. The system

### Components

| Component | State | Operations | What makes it correct |
|---|---|---|---|
| **InPipeServer** (`InPipeServer.cpp/.h`, `PipeState.h`) | per instance: a pipe handle, state flags, one OVERLAPPED for connecting *and* reading, a CRITICAL_SECTION | constructor, `connectInstance`, `readInstance`, `disconnectInstance`, `service` | the OVERLAPPED is never reused while an operation on it is outstanding; operations of an earlier session ("ghosts") are told from live ones; a disconnected pipe becomes usable again |
| **Task6Server** (`Task6Server.cpp/.h`) | completion port, pipe server, shared-memory server, worker threads, buffers, log, shutdown event | constructor, worker loop, `stopAndWait`, `popMessg`, `pushMessg` | messages handled in order and once; one worker at a time on an instance; every message handled; shutdown ends every worker before anything it uses is destroyed; the log loses nothing |
| **InSharedMemoryServer** (`.cpp/.h`) | file mapping, two auto-reset events, a shutdown event, a waiter thread | constructor, `WaiterThreadProc`, `getData`, destructor | the memory is never written and copied at once; each text is copied once and as written |
| **OutSharedMemoryClient** (`.cpp/.h`) | handles of the same objects | constructor, `writeData` | as above, with several clients |
| **OutPipeClient** (`.cpp/.h`) | a pipe handle, state flags, an OVERLAPPED with an event, a CRITICAL_SECTION | `open`, `write`, `flushWriteBuffer`, `service`, `close` | a write is reported once, when it has completed, with its own outcome |
| **Task6Client** (`.cpp/.h`) | one of the two clients, a buffer, a log | `startPipe`, `startSharedMemory`, `wait`, `stop`, `popMessg` | the greeting is sent once; a stopped client can be started again |
| **RAII classes** (`Raii*.cpp/.h`) | an owned handle, lock, section, OVERLAPPED or registry key | construction, move, destruction | each resource released exactly once |
| **Run on startup** (`Utility_runOnStartup.cpp`, `test_run_on_startup.cpp`) | a value under the user's keys Run and RunOnce | query, get, set, delete, and the test that every server runs first | the test leaves no value behind, and does not fail a server that is alone |
| **Consoles** (`Server/ServerConsole.cpp`, `Client/ClientConsole.cpp`) | a server or a client | loop over the log, questions to the operator | every message shown; `stopAndWait` before destruction |
| **TcpServer**, errors, options | - | - | not used, or without state |

### Interactions

- Worker threads block on the completion port. A packet's key says where it
  comes from: the pipe server's instances (a connect or read completed), the
  shared-memory waiter thread, or `stopAndWait`.
- For a pipe packet the worker calls `service`, handles the message that was
  read into the instance's buffer, and calls `connectInstance` or `readInstance`
  on the same instance. For a shared-memory packet it locks the server's buffer,
  calls `getData` and handles the text.
- Two auto-reset events hand the shared memory from the server to one client and
  back; the waiter thread turns the second into a packet.
- The worker threads push log lines; the server's console pops and shows them,
  asks the operator, stops the server and destroys it, with the threads it owns.
- The client's console starts a `Task6Client` with one of the two channels and
  waits in rounds of ten seconds. Clients of the shared memory contend for one
  event.
- Before all that, the server's `wmain` runs a test of the registry functions,
  under a name that all servers of a user share.

### What is hard here

Operations complete on another thread while the method that issued them still
holds the lock; packets of a closed session sit in the port while the pipe is
reopened; shutdown packets mix with clients' packets; `CancelIoEx` races the
client that is connecting; clients close or die at any point; events and a
semaphore are set outside the locks they go with; waits with a time-out go on
when it is over, with threads that still run; servers that start together test
under one registry name. The full list, each at its
line and with the properties that watch it, is `hazards` in `PROJECT.json`.

## 2. The modules

| Module | Models | Checked by | Proved in |
|---|---|---|---|
| `InPipeServer` | the pipe server, the kernel's side of a pipe, the completion port, clients | `MCInPipeServer` | `InPipeServer_proofs` |
| `Task6Server` | constructor, worker loop and `stopAndWait` over `InPipeServer` | `MCTask6Server` | `Task6Server_proofs` |
| `SharedMemory` | both ends of the shared-memory channel and the worker's branch for it | `MCSharedMemory` | `SharedMemory_proofs` |
| `Mailbox` | abstract: an ordered channel that loses nothing | as a property of `SharedMemory` and of each instance of `Task6Server` | `SharedMemory_proofs`, `Task6Server_proofs` |
| `MessageLog` | `pushMessg`, `popMessg` of the server | through `ServerLife` | `MessageLog_proofs` |
| `ServerLife` | the server's console, `stopAndWait`, the destruction and all the server's threads, over `MessageLog` | `MCServerLife` | `ServerLife_proofs` |
| `OutPipeClient` | the pipe client | `MCOutPipeClient` | `OutPipeClient_proofs` |
| `Task6Client` | the client and its caller, over `OutPipeClient` | `MCTask6Client` | `Task6Client_proofs` |
| `RunOnStartup` | the registry functions and the start-up test of concurrent servers | `MCRunOnStartup` | `RunOnStartup_proofs` |

Operators introduced by the comment "A faulty version" are not part of any
specification. Each is a plausible mistake in the definition that follows it;
putting it in that definition's place shows that a property notices the mistake.

### InPipeServer

`state[i]` holds the flags of `PipeState` as a set (UNCONNECTED is the empty set),
`critSec[i]` the owner of the instance's lock. A method is two steps: the first takes the lock, tests
the state and makes the Windows call (`ConnectInstance`, `ReadInstance`,
`DisconnectInstance`); the second sets the state and leaves the lock (`Finish...`).
Between the two the operation may complete and its packet may be dequeued by
another thread, as in the program. `service` makes no call that starts
an operation and is one step, with the lock free. A call that throws
before it changes anything is not a step; `ConnectRefused` and `ReadRefused` say
when that happens, for the callers that react to it.

External, modelled from how the code uses it: `npfs[i]` is the kernel's state of
the pipe end, `pending[i]` the operation the kernel has on the OVERLAPPED, `iocp`
the port's queue. Facts of Windows the model relies on:

- an operation that completes at once queues a packet all the same (the code
  says so for reads and connects, `InPipeServer.cpp:102`); `ConnectNamedPipe` that
  fails with ERROR_PIPE_CONNECTED may or may not (`EarlyConnectPosts` is the set
  of answers admitted: {FALSE} is what Windows does, {TRUE} what the comment
  says);
- `CancelIoEx` aborts the pending connect, unless the client wins the race and the
  connect succeeds; with nothing to cancel it fails and `disconnectInstance` throws;
- a client's data stays readable after it has closed its end.

`session[i]` (how often the instance was disconnected) and the session in a packet
are history: the code has neither, it must do without them.

### Task6Server

EXTENDS `InPipeServer`, so a worker's step inside the pipe server *is* a step of
that module: `pc[w]` is where the worker is in a method, `wpc[w]` where it is in
its own loop (dequeue, check for shutdown, service, handle, rearm). `Main`
constructs the server (`BeginConnecting` .. `CreateWorker`, and both failures) and
stops it (`StopAndWait`, one `PostShutdown` per worker, `Join` or `JoinFails`).
An exception that the loop catches (`Refuses`) sends the worker back to the port.
`AssertsEnabled` tells Debug from Release: a failed assertion aborts or is passed
over. `MaxSessions = 0`, because nothing in the server calls `disconnectInstance`;
the runs of `InPipeServer` are the ones that call it. The branch for unknown keys
is left out: no packet with another key is ever posted.

### SharedMemory and Mailbox

The memory is an array of cells, a text a sequence of characters, written one cell at a
time (`WriteCell`). `svToCl`, `clToSv`, the waiter thread, the packets and the
workers' steps are as in the code, with the buffer's lock around `getData` and the
handling. Faults: a client killed while it holds the right to write, and
`MapViewOfFile` that fails. `strcpy_s` ends the server's process when a text fills
the memory, since there is no room for its Nul (`CopyOverflows`). `getData`'s own lock is left out: its only caller holds
`shMemBufferCS`, so it is never contended.

`Mailbox` is what the channel promises: texts are received in the order they were
written, each once, `Capacity` under way at most. `SharedMemory` is one of two texts;
its `written` and `received` are history variables, so the refinement is direct
(`MailboxSpec`). Each instance of `Task6Server` is another, `Box(i)`: what its clients
have written is `sent[i]`, what the workers have handled `handled[i]`
(`InstancesAreMailboxes`).

### MessageLog and ServerLife

`MessageLog` is the queue, its lock and its semaphore: a push releases the
semaphore after it has left the lock, a pop takes it before it enters.

`ServerLife` EXTENDS it. `phase` is where the console is: constructing
(`CreateWorker`), showing the log (`ShowMessage`), asking (`Continue`, `Stop`,
`InvalidCommand`), in `stopAndWait` (`PostShutdown`, `Join`) or destroying. The
destructor is one step per member (`DestroyMember`): `Members` lists them in the
order of their declaration, and `live` says how many exist. `Touches` and
`WaiterTouches` say which members a thread's next step uses. A thread about to
use one that is gone takes no step, since what it would do is undefined; that it
never comes to this is the property. `threw` records that `run` has thrown, with
the server still running, and `gaveUp` the waits for threads that ended before the
threads did, in a build without assertions: after either, a thread may really
touch a member that is gone, and the property says so. Packets of pipe clients, of the waiter thread and of
`stopAndWait` share the port here. What a worker does with the first two is the
matter of the other modules: `UsePipeServer` and `GetData` take any of the ways it
may end, and `CopyOverflows` is the one in which `strcpy_s` ends the process.

### OutPipeClient

Any thread calls any method in any order. `service(true)` and `flushWriteBuffer`
block inside the lock and are two steps. `service` is modelled as it runs: its
first test never fails and its test for a pending operation never succeeds (see
the findings), so in Debug only the assertion on the event keeps it from
reporting what has not happened. `CloseHandle` ends the writes in flight before it returns.
A call that throws is no step. For a `WriteFile` that fails at once this is a
simplification (section 5).

### Task6Client

EXTENDS `OutPipeClient` with one thread, `Caller`, whose steps in the pipe client
are those of that module. `caller` is the console, or any program that may also
call `stop`, start again, and go on after an exception. As in the code, the
member is set before `open` and `write` can throw, `stop` lets go of the pipe client
only, and `bDataSent` is never reset. The log is a set of pairs <<n, m>>: message m
logged when `stop` had been called n times. `MemoryTaken` and `MemoryFreed` stand for
the other clients and the server at the event.

### RunOnStartup

`Test` is the table of the seven calls of `test_run_on_startup`; a call is one step
per call of the registry, which Windows makes atomic
(`QueryToRun` and `QueryToStop` are the two methods' queries). `RegGetValue` fails when the
value has gone since its size was queried, or has been replaced. Any server may
be killed in the test (`MaxKills` of them). `Debug` is the set of servers built with
assertions. An exception or a failed assertion ends the process, since the test runs
outside `wmain`'s `try`. `setter`, `before` and `disturbed` are history.

## 3. What the runs show

| Run | Instance | Distinct states | Shows |
|---|---|---|---|
| `pipe_server` | 1 instance, 2 threads, 2 messages, 2 disconnections, foreign packets | 45,883 | the OVERLAPPED rule, the inductive invariant, `service` never in an invalid state, ghosts exact, reads drained |
| `task6_server` | 2 workers, 2 instances, 2 messages each, Release | 313,202 | every instance a mailbox, one attendant, connected clients served, `stopAndWait` never stuck, nor a worker left asleep by its time-out, refinement of `InPipeServer` |
| `task6_progress` | 3 workers, 1 instance, 3 messages, Release | 75,759 | every message handled, shutdown completes, every worker ends |
| `shared_memory` | 2 clients, 2 workers, 4 writes of 3 texts, 1 fault | 8,291 | one token, exclusive memory, refinement of `Mailbox`, only a text that fills the memory ends the server, nothing lost otherwise without a fault |
| `server_life` | 2 workers, 1 packet of a client, Debug | 82,833 | the semaphore counts the queue, no pop of an empty queue, no use of a destroyed member, all shown unless a text that fills the memory ends the process, the end is reached |
| `pipe_client` | 3 threads, 4 writes, 2 opens, 4 reports | 2,662 | reports are true and not repeated (Debug), the lock is left |
| `task6_client` | 1 caller, 2 stops, Release | 2,192 | what `wait` logs is true without assertions, the greeting goes out once, and is reported |
| `run_on_startup` | 3 servers, one Debug, one of another path, 2 kills | 293,353 | every value left has a known owner, and is removed by a later server; only a disturbed server fails |

Runs that end in a violation, each a disagreement between the code and what it or
its documentation says (`findings` in `PROJECT.json` quotes the lines):

| Run | What happens |
|---|---|
| `closing_has_operation` | a connect succeeds while it is cancelled: `service` disconnects the pipe, throws, and leaves it marked as closing for good |
| `every_pipe_is_served` | a client closes its end: the next read is refused, the exception swallowed, and the instance never serves again |
| `shared_memory_tail` | a text shorter than the one before is received with the other's tail |
| `pipe_client_release` | in Release, `service` returns true when no write has completed |

Other defects have no run of their own: the properties of the passing runs name
each as an exception, so the runs show that nothing else goes wrong.

- *A text that fills the memory* ends the server (`InSharedMemoryServer.cpp:94`; `Crashed`).
- *An early client*: one that opens its pipe before `ConnectNamedPipe` leaves the instance
  waiting for a packet that never comes (`InPipeServer.cpp:97`; `ConnectedUnseen`).
- *A failed wait in Release*: `stopAndWait` only asserts that its wait ended
  (`Task6Server.cpp:193`), and destroys the pipe server all the same. So do the
  shared-memory server and its waiter thread (`InSharedMemoryServer.cpp:117`).
  The runs of `Task6Server` are without assertions, so that the wait does give up:
  `JoinNeverStuck` and `WorkersEnd` show that this leaves no worker asleep, and name
  the worker that needs the pipe server next (`CutOff`): what that one does is undefined.
  `NoUseAfterDestroy` is checked with assertions and proved in every build, with the
  wait that was given up as its exception (`gaveUp`).
- *An invalid command* throws out of `run` without `stopAndWait`
  (`ServerConsole.cpp:41`): a worker may then touch a member that is gone (`threw`).
- *The fifth call of the start-up test* sets the value again when another server has
  removed it; the assertion that it did not ends the process, and the value stays
  (`test_run_on_startup.cpp:21`; `SetAgain`).
- *After a kill in the test* the value is left. A later server with assertions dies
  when it finds it (`test_run_on_startup.cpp:9`); one without removes the
  value if it is its own, and otherwise dies of an exception that nobody catches.
- *`stop` of a client of the shared memory* leaves it started: a new start throws
  (`Task6Client.cpp:35`).
- *A zombie's name*: for an aborted connect `service` reports the operation as READ
  (`InPipeServer.cpp:170`), though `InPipeServer.h` documents `operation` as the one
  that completed. No caller looks at a zombie's operation, and `ZombieExact` asks
  for the right name of live operations only.

### Bounds, and why they are enough

- *One instance in `pipe_server`*: instances share only the port, and the lock
  invariant is proved for any number. Two disconnections let a packet of a
  session be outstanding while the next one begins and ends; two threads are
  enough for one to be inside a method while the other services its packet.
- *Two workers and two instances, three workers and one*: every pair of workers,
  and every pair of packets of one or two instances, meets. `MaxPort` only bounds
  foreign packets; six exceeds what two workers and two instances can
  queue, so it never blocks a shutdown packet.
- *Two messages per instance* let the second arrive before, while and after the first is
  handled, which is where an overwritten buffer would show; three in the progress
  run.
- *Four writes with two clients* make the token come round more than twice per client;
  one fault is all that can happen, since it takes the token.
- *Texts of equal length* in `shared_memory`, and one that fills the memory: the only
  client program writes one constant text. With other texts of different
  lengths the channel does not keep its promise (`shared_memory_tail`).
- *Symmetry* in `MCTask6Server` permutes workers, in an invariant-and-refinement
  run without liveness. The runs with liveness use none.
- *One packet of a client in `server_life`*: it may be of either channel, and is
  logged in two or three messages. With the messages of two workers that
  start and end, each is pushed while the console pops, asks, stops or destroys.
  The run is of a build with assertions. The same instance in Release, where a wait may
  be given up, has 329,569 states and passes too; `MembersOutliveThreads` is proved for both.
- *Two stops in `task6_client`*: a client is used before, between and after them, on
  either channel. One write per life is all the class makes.
- *Three servers in `run_on_startup`*: one is in the middle of a call while a second
  sets or removes the value and a third starts; two may be killed, and the last
  finds what they left. Two paths suffice to tell an own value from another's.
- *Deadlock* is checked for the pipe server, the server, its life and the client, whose
  ends are explicit steps (`Terminated`, `Pause`, `Left`). It is off for
  `SharedMemory`, `OutPipeClient` and `RunOnStartup`: they really stop, when the
  clients have made their bounded calls, when a fault has taken the token, when
  a text that fills the memory or an assertion has ended the process, or when every server has run its test.

### Fairness

Weak fairness, per thread, and no strong fairness: a thread that can go on does. That is what
Windows' scheduler gives a runnable thread; locks are held for bounded work.
Nothing is assumed of clients, of time-outs, or of an operator who stops the
server. `pipe_server` also assumes that its users dequeue and service packets,
which is what the class asks of them (`InPipeServer.h:12-14`). `pipe_client`
assumes that the server reads its pipe or closes it, so a write completes.
`shared_memory` assumes that a client that has begun to write goes on unless it
is killed. `server_life` and `task6_client` assume that the operator answers a
question, in any way.

A greeting in the shared memory competes with other clients, and each `wait` for the
memory times out. The code has no queue that would make them take turns, so nothing is
assumed of who gets the memory, nor of anybody freeing it: `GreetingSent` states both as
its exceptions. The greeting goes out, and is logged, unless others take the memory again
and again (`MemoryTaken` infinitely often) or nobody frees it any more. So
its subject is the code of `wait`: no time-out, failure or repetition loses the greeting, or the
report of it, when the memory is there to be had.

## 4. What is proved

All for any number of instances, threads, workers, clients, texts and any bounds,
from the assumptions on the constants that each module names (`PipeAssumption`,
`ServerAssumption`, `SharedMemoryAssumption`, `ClientAssumption`, `CallerAssumption`,
`LogAssumption`, `LifeAssumption`, `StartupAssumption`). Every invariant and refinement that a
passing run checks is proved.

**What is proved of liveness.** The prover cannot reason about fairness, so the liveness
properties stay with TLC. For most of them two theorems say what fairness is applied to,
without bounds: *somebody can go on* in every state in which the property still has
something to wait for (no deadlock), and *every step brings the goal nearer* by
a measure that nobody's step raises (no livelock). "Can go on" is stated without ENABLED,
by the guard of the step: `CanGo`, `GoesOn`, `CanStep`, `Proceeds`, `Released`, and the
`...GoesOn` of `SharedMemory_proofs`. TLC found each of those that stand for one
thread's steps to be equivalent to the step's ENABLED in every state of the runs.

| Liveness property | Somebody can go on | Nearer with every step |
|---|---|---|
| `ReadDrains` | `PortIsNeverStuck` | `DrainIsRunDown` |
| `MessageHandled` | `MessageIsNeverStuck` | - |
| `ShutdownCompletes` | `StopIsNeverStuck`, `NobodyLeftAsleep` | `WorkersRunDown` |
| `EveryWriteHandled`, `MemoryFreedAgain` | `TokenGoesOn` | `TokenRunsDown` |
| `LockIsLeft` | `HolderIsNeverStuck` | `LockIsRunDown` |
| `MessageShown` | `NoMessageForgotten` | - |
| `StopEnds` | `LifeJoinIsNeverStuck` | `LifeRunsDown` |
| `WriteReported`, `GreetingSent` | `OutcomeIsNotForgotten` | - |

**InPipeServer** (`InPipeServer_proofs`). `TypeCorrect`, then `Invariance` for `Inv`,
which is inductive with `TypeOK`. The safety properties alone are not inductive:
`ReadIsOutstanding` (a pipe that is reading has one read outstanding) says nothing of a connect, of the moment between a
Windows call and the assignment of the state, or of a packet in a thread's hands.
`Inv` adds these: a lock's owner is inside exactly one method (`LockInv`), the state
is one of six and is still the one the method checked (`StateInv`), at most one
operation of an instance is outstanding in the kernel, the queue or a thread
(`OneOperation`), and it is the one the state or the method under way says, of the
present session unless the pipe is closing (`OperationFits`). From it follow
`OverlappedIsFree`, `OneReadOutstanding`, `ServiceFindsItsCase` and the action
property `ZombiesAreExact`.

`PortIsNeverStuck` needs that a thread inside a method owns the lock of an instance
(`OwnerInv`, the converse of `LockInv`): then a packet can be dequeued or serviced,
or waits for a lock whose owner can leave it. `DrainIsRunDown` follows the read of a
disconnected pipe: it moves up the queue, into a hand and out of it, and no step moves it back.

**Task6Server** (`Task6Server_proofs`). `ServerImplementsPipeServer`: every step of
the server is a step of `InPipeServer` or leaves its variables alone, so every theorem above
holds of the running server. `Task6TypeCorrect` and `AttendantIsAlone`
(`OneAttendant`) come from the invariant `Task6Inv`, which joins `Task6TypeOK`, `Inv`,
`FreshResult` (a thread with a packet has no result yet) and `Attendance`: no worker runs
while the constructor connects, and an instance between `service` and its next
operation has the state `service` returned, a free lock or the attendant's, and
one attendant. `AttendedIsFree` is the link: an instance in that state has nothing outstanding,
so no other worker can get a packet of it.

- *Delivery.* `MessagesInOrder` (`DeliveredInOrder`): `DeliverInv` is, per instance
  (`OrderInv`), that `taken` counts what has left the pipe, that the buffer holds
  the last of it, and that everything taken is handled but the one message that is
  `Ready`: in the port, in a worker's hands or about to be handled. With
  `TakenInv` (nothing is taken before it is sent) it gives the refinement,
  `InstancesImplementMailboxes` (`InstancesAreMailboxes`, what the run checks) and
  `InstanceImplementsMailbox` (the same as a specification, for each instance).
- *Service.* `ConnectedPipesServed` (`ConnectedIsServed`): `ServedInv` follows an
  instance from the packet that completes its operation to the worker that gives
  it the next (`ServeInv`), and says that only the constructor connects
  (`ConnectsAlone`). `MessageIsNeverStuck` adds `LeftOver`, which is about the
  kernel's side (nobody writes before the connect, and a worker refused its read has read
  everything), and `RunInv` (until the event is set no worker ends, and all packets
  are of pipes).
- *Shutdown*, in every build, while `stopAndWait` waits and after it gave up.
  `NobodyLeftAsleep`: `WakeInv` counts. The workers that will come back to the port
  plus the shutdown packets posted never exceed the packets in the port plus the
  workers, since one that takes a packet after the event is set ends with it.
  `StopIsNeverStuck` (`JoinNeverStuck`) adds where a worker is in the pipe server
  by its place in the loop (`InsideInv`), so that the lock one waits for is in the hands of
  a worker that can leave it (`WorkerGoesOn`). `WorkersRunDown`: once the event is set,
  a worker is at most six steps from its end.

**SharedMemory** (`SharedMemory_proofs`). `TypeCorrect`; `TokenIsUnique`: at every
moment one place has the right to use the memory, and each step moves it as its
action says or leaves it; `MemoryIsExclusive` follows. `ContentInv` says what is in the memory,
wherever the token is: a client's text as far as it is written, the last
text from the signal to the copy, and Nul beyond the length of the texts that
do not fill it. It gives `FullTextEndsServer` (`EndsOnFullText`), for texts of any
lengths. With `LockInv` and `OrderInv` (the texts under way are the one being handled
and the one not yet copied) it gives the refinement, `ImplementsMailbox`
(`MailboxSpec`), when the texts that do not fill the memory have one length.

`TokenGoesOn` assumes that there is a worker, as `TASK6_WORKING_THREADS` gives. Its
invariant `WayInv` adds that the buffer's lock is held only by a worker on its way
through the branch for shared memory (`HolderInv`), and that a text is lost only with a fault
(`NoneLost`).
`TokenRunsDown` bounds the round: the characters of the text and nine steps more.

**OutPipeClient** (`OutPipeClient_proofs`). `TypeCorrect` for both builds. Under
`AssertsEnabled`: `EventTellsOfLastWrite` (`EventInv`), `ServiceReportsTheTruth` and
`WritesDoNotOverlap`, from `ClientInv` (`TypeOK`, `EventInv`, `ReportsAreTrue` and
that a write in the kernel is marked as pending, without which its completion could contradict
an earlier report). The lemma `StepKeepsInv` needs assertions for one step only, a
report while the event is not signaled.

In either build a thread that blocks inside the lock is not stuck there
(`HolderIsNeverStuck`, from another `LockInv`): its event is signaled or the kernel has
the write, and nobody can close the pipe, reset the event or abort meanwhile. The
kernel's completions are all that is between it and its return (`LockIsRunDown`).

**Task6Client** (`Task6Client_proofs`). `ClientTypeCorrect`, `WaitIsTruthful` and
`GreetingIsSentOnce`, for either build: `wait` makes no such report, so the steps of
`OutPipeClient` keep `ClientInv` here without assertions. `PipeInv` says which
states of the pipe client go with each place of the caller, `LogInv` what the log
of the present life may hold; `SentOnce` is inductive. `OutcomeIsNotForgotten`: the result of a
write is in the kernel, signaled for the next wait, or logged (`ResultIsDue`), and an
outcome in the log is taken by the caller's next step (`OutcomesAreTaken`), however many waits time out.

**MessageLog** (`MessageLog_proofs`). `SemaphoreCounts` is inductive with
`TypeOK` (`SemaphoreCountsTheLog`): the semaphore, the pushes that have still to release it and
the pops that have taken it add up to the length of the queue. So a pop that
has taken its count finds a message (`PopFindsMessage`). With `LogIsLocked` (the
lock's owner is the thread inside) no message is forgotten (`NoMessageForgotten`): while
there is one, the semaphore is signaled or a thread half-way can go on.

**ServerLife** (`ServerLife_proofs`). `LifeImplementsLog`: every step is a step of
`MessageLog` or leaves its variables alone, so its theorems hold here (`LogIsCounted`,
`ConsolePopsAMessage`). `LifeTypeCorrect` needs to know, for each place of the
console, how many members exist and that a packet is left to post (`ConsoleInv`).
`MembersOutliveThreads` (`NoUseAfterDestroy`, in every build) comes from `Quiet`, by which no
worker runs once the destruction has begun unless `run` threw or the wait was given
up, and `WaiterQuiet`, by which the waiter has ended when the shared-memory server is
gone, unless the wait for it was given up. `DebugThreadsAreSafe`:
with assertions the time-outs are no exception, so only the exception of `run` is left, and for the
waiter none.
`LifeJoinIsNeverStuck` and `LifeRunsDown` carry the argument of `Task6Server`'s shutdown over to the
whole server, where workers also block in the log and the waiter posts packets too.

**RunOnStartup** (`RunOnStartup_proofs`). `StartupTypeCorrect`, `TestCleansUp`,
`LeftoversHeal` and `TestPassesAlone`, for any number of servers, paths and kills, from
`StartupInv`. Its parts: `Places` (which calls of the test reach which registry call),
`SetterCleansUp`, `SeenOwn` (a server about to get a value that it set itself has
queried its own path), `Healing` (a server that started after the one who left a value
has ended, or has not passed the call that removes it), and `Alone` and `Undisturbed` (a server
that nobody disturbed is alone in its test, and the registry is as its own calls
left it).

**Only model-checked**: the liveness properties as such, in the table above. For three of them
no measure is proved either: how long a message waits depends on others that
come before it (`MessageHandled`, `MessageShown`), or on other clients and on the caller
(`WriteReported`, `GreetingSent`).

## 5. Not modelled

- A message larger than a pipe instance's buffer (ERROR_MORE_DATA): the only client
  program sends 12 characters (`Task6Client.cpp:116`). `ReadRefused`, the read that
  throws, leaves no packet in the model; in this case it would.
- A `WriteFile` that fails at once (`OutPipeClient.cpp:74`): `write` throws with the
  flags unchanged, and the model leaves the OVERLAPPED and the event unchanged too,
  though the kernel may have reset the event and marked the OVERLAPPED as pending. A
  `service(true)` after such a write is outside the model; `Task6Client` calls `service`
  only when the event is signaled.
- `uiSetProgramToRunOnStartup` (its only call is commented out,
  `ServerConsole.cpp:9`); a key that cannot be opened, a value that is not a
  string, and HKEY_LOCAL_MACHINE, which nobody asks for.
- Ownership in the RAII classes: an object is moved by one thread, before it is
  shared. `RaiiLock`'s move assignment is never used by the program (`lock` returns a
  temporary).
- `TcpServer` (unused), the text of log lines and errors, the getters, and
  failures of constructors before any thread exists.

## 6. Plan

1. *One port in full*: `Task6Server` and `SharedMemory` composed, in place of the
   choices that `UsePipeServer` and `GetData` of `ServerLife` leave open, and
   the composition shown to implement `ServerLife`.
2. *Measures* for `MessageHandled` and `MessageShown`: the place of a message in the port
   and in the log, which moves up with every packet dequeued and every pop.
3. *Sizes* of pipe messages: one larger than the buffer is read in parts.
