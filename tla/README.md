# A verification project for pacer_docker

`pacer_docker` lets OpenCL programs that run in separate containers share one
GPU. A daemon (`monitor/`) grants the GPU to one client at a time. The clients
report progress through *heartbeats* kept in System V shared memory
(`opencl/heartbeat_python_lib.c`). A Python launcher (`opencl/monitor.py`)
starts containers and reads those heartbeats. `ipc/` holds the message-queue,
shared-memory, socket and pipe programs the daemon grew out of.

This directory holds TLA+ models of those programs, the TLC configurations
that check them, and proofs that TLAPS checks. To run them, here:

    tlc -workers 2 -config MonitorRaces.cfg PacerMonitor
    tlapm PacerMonitorProofs.tla

`PROJECT.json` lists the components, the runs, for every property a mutation of
the model that breaks it, the source lines of every definition, the hazards,
the findings and the theorems.

## 1. Inventory

| Part | Source | State it keeps | Operations | Modules |
|---|---|---|---|---|
| GPU monitor | `monitor/monitor.cpp` | `clients_map`, `clients_task_queue`, `busy`, two POSIX queues, one mutex | register, close, request, finished | `PacerMonitor`, `MonitorAgeing`, `GpuArbiter` (abstract), `PacerMonitorProofs`, `PacerClientProofs` |
| GPU monitor, rates from the client | `monitor/monitor_hb_from_cli.cpp` | the same, with the queue ordered by rate | the same | `RateMonitor`, `RateMonitorProofs` |
| Heartbeat library | `opencl/heartbeat_python_lib.c`, `opencl/heartbeat.py`, `opencl/shmlib.c` | heartbeat object, log and global state, each in a segment; `cnt` in Python | init, beat, finish, getters | `Heartbeat`, `HeartbeatProofs`, `ModularArithmetic` |
| Launcher, readers | `opencl/monitor.py`, `app/objdet/monitor.py` | lists of attached segments, the last index | run containers, attach, one pass of reading | `AttachLoop`, `SmallProgramsProofs` (the pass itself is in `Heartbeat`) |
| Semaphore ring | `ipc/shm/cli.cpp`, `ipc/shm/example/boost/sema/{w,r}.cpp` | two rings, three semaphores each | put, get, construct | `SharedRing`, `BoundedChannel` (abstract), `SmallProgramsProofs` |
| Condition-variable hand-over | `ipc/shm/example/boost/mucon/{w,r}.cpp` | one slot, a flag, a mutex, two conditions | put, print | `TraceQueue`, `SmallProgramsProofs` |
| Named-semaphore pair | `ipc/shm/{pro,con}.c`, `ipc/shm/example/posix` | two variables, a named semaphore, the two names | update, read, remove names | `NamedSemaphore`, `IpcMemoryProofs` |
| System V buffer | `ipc/shm/example/sysv` | a buffer of five, a set of three semaphores | insert, remove, set the semaphores | `SysvBuffer`, `IpcMemoryProofs` |
| Token server | `monitor/monitor.c`, `ipc/mq` | `token_number`, a queue per client | request, reply | `TokenServer`, `IpcMessagesProofs` |
| Sockets | `ipc/{srv,minsrv,cli}.c`, `ipc/soc/tcp` | a backlog, a connection, two files | connect, ask, answer | `StreamSocket`, `IpcMessagesProofs` |
| FIFO chat | `ipc/pipe/example` | a FIFO | open, read, write, close | `FifoChat`, `SmallProgramsProofs` |
| Single-slot boost server | `ipc/shm/srv.cpp` | a ring of one slot | put, get | not modelled: its client is not in the repository |
| Datagram sockets | `ipc/soc/udp` | none | one datagram | not modelled: the reply goes to the server itself |
| Applications | `app/`, `opencl/test.py` | none of interest | beats | not modelled: their beats are those of `Heartbeat` |
| Vendored code, images | `cuda/`, `opencl/{openclcuda,intel,parboil}`, Dockerfiles | | | not modelled |

How the parts meet. A client sends its pid to the gate queue, makes its
heartbeat segments, and then alternates: a beat, a request on the monitor queue,
a wait on its own queue, GPU work, a `finished` on the monitor queue. The daemon
has two threads, one per queue, which share `clients_map` under one mutex. The
monitor thread also reads the client's segments to learn when it beat. The
launcher reads the same kind of segments from outside, with no lock. The `ipc/`
programs come in pairs that share a piece of memory, a queue, a socket or a FIFO
and nothing else. Two facts about the containers matter to several modules: they
share the host's IPC names (`ipc_mode='host'`), and they do not share its pids.

What is hard here: two queues with no order between them; clients that die;
sends that fail and are followed by `continue`; a spin with the mutex held;
pointers into a map that another thread erases from; records read without the
lock they are written under; arithmetic whose divisor may be 0; semaphores and
conditions used once too little, or set while somebody uses them; names that are
removed while the objects live on; a bare `except` in a loop that appends. The list with lines is in `PROJECT.json`
("hazards").

What makes each part correct: for either monitor, that one client at a time uses
the GPU, that it is not idle while somebody waits, that nobody is forgotten and
that the right waiter is next; for the heartbeats, that indices, log and average
describe the last beats and that a reader without the lock gets whole records;
for the pairs in `ipc/`, that what is put is got once, in order, that a reply goes to
whom it is for, and that nobody waits for ever; for the launcher, that what it reads
as the index and the rate of a client belong together.

## 2. The modules

### PacerMonitor: `monitor/monitor.cpp`

| Variable | Code |
|---|---|
| `monitor_mq`, `gate_mq` | the two server queues, at most `MaxMessages` long |
| `mon_buf`, `gate_buf` | the message a thread has received and not dealt with |
| `gate_pc` | `"open"` while the gate spins in `shmget` holding the mutex |
| `registered`, `client` | keys and values of `clients_map` (`qd` says that the client's queue was opened) |
| `task_queue` | `clients_task_queue`, as a count per pid |
| `busy` | `Monitor::busy` |
| `reply` | messages in each client's own queue |
| `pc`, `hb_state` | the client and its segments |
| `now` | the real-time clock in seconds |

Actions of the gate: `GateReceive`; `GateOpen` and `GateInsert` (a new pid, with
the spin between them); `GateClose`. Actions of the monitor: `MonitorReceive`;
`DropUnknown`; `HandleRequest` (the update of every priority, then `Grant`,
`GrantFails` or a new entry); `HandleFinished` (`Release`, or `GetsToRun` with
`Handoff`, `HandoffFails` or `WildHandoff`). Each handler runs under the mutex and
is one action; receiving is another, because the mutex is not held then, and that
is where the two threads race. The gate's spin holds the mutex, so it is a state
in which the monitor's handlers are disabled.

The client is the OpenCL intercept layer, which is not in the repository: its
actions are external and follow from what the daemon receives, sends and reads.
`Settled` says whether a client waits for the gate before it asks and leaves.
The code does not make it wait, and with `Settled = FALSE` the two queues race.
`PromptSends` says that a request leaves in the second of its beat.

A priority is a quotient num/den; den = 0 is the infinity or NaN of the code,
never below anything. A buffer index of 0 makes the code read the record before
the log; its time is any of `StrayTimes`. When no waiter is below 9999999,
`popped_cli` is uninitialised: `WildHandoff` lets it be any client object. (It may
fault instead, which ends the program: not modelled.) The heart that the monitor
keeps for each client gives any of `Rates`.

`MonitorAgeing` is the same daemon with every client taking part for as long as
the run lasts: what must happen in the end is checked under it (section 4).

`GpuArbiter` is what clients are promised, with three states for each of them:
idle, asking, using. The GPU goes to a client that asked, when nobody uses it.

### RateMonitor: `monitor/monitor_hb_from_cli.cpp`

It extends `PacerMonitor` with `rate_queue`, the multimap in its order, and
replaces the monitor's two handlers. `Placed` is `multimap::insert`, which puts an
entry behind its equals; `NextToRun` is `begin()`. `task_queue` counts the entries
of every pid, and `RateTypeOK` says that it does. Gate and clients are the same.

### Heartbeat: the library, its wrapper and its readers

`pc`, `cnt`, `hb`, `average`, `local` belong to the process that beats; `state` and
`log` are the segments; `reader` is one pass of `monitor.py` over one client. A
beat is `BeatBegin`, `WriteStamp`, `WriteRate`, `Publish`, `Wrap`: nothing that a
reader sees changes in the first, and the others are the stores a reader without
the mutex can come between. `GetIndex`, `CopyStamp`, `CopyRate`, `PrintRate` are the
reader. A rate is the interval of which it is the reciprocal, and the empty
sequence for 0; `last_average_time` is kept as a sum and a count, so the model is
exact where the code rounds. `history` and `reader.beat` are auxiliary and steer
nothing but the bound `MaxBeats`. The two readers differ, and every reading picks one:
that of `opencl/monitor.py` passes over an index it has seen, 0 at the start, and ends
in a `NameError` (`"raised"`) at `StopIndex`, which is 30 in the code; that of
`app/objdet/monitor.py` always divides. What they divide by is the int that `get_hr`
makes of a million times the rate: 0 for the rate 0, and for one of an interval longer than
`LongestRead` (`ReadsZero`), which is 10^6 s in the code and which a clock that is set
can produce.

The initialisation fails in three ways. `NoSegment` is a failed first `shmget`: the beats
find no segment either, return 0 and move Python's counter alone (`SilentBeat`).
`InitFails` is what comes after it, up to the window: the first beat faults. `InitFailsLate` is the failure of the last
`fopen` of the initialisation: it calls `anchors_heartbeat_finish`, which frees the
window, and the wrapper goes on all the same. `average.freed` says so, and
`WindowReused` lets whoever got the memory write to it.

### SharedRing: `ipc/shm/example/boost/sema`

`pc[p]` names the call that program `p` makes next; every semaphore operation and
every access to a slot is an action, for both rings, with the sizes of the source
(5 slots, 10 messages). `w` makes the second object and `r` constructs its
semaphores. `BoundedChannel` is the abstract queue that each ring implements:
`Buffered(b)` reads its contents off the slots.

### TraceQueue: `ipc/shm/example/boost/mucon`

The mutex, the flag and the two conditions, one action per lock, test, wait,
notification and store. `SpuriousWakeup` is the return of a wait that nobody
notified, which POSIX allows; `MaxSpurious` bounds how often.

### SysvBuffer: `ipc/shm/example/sysv`

`at[p]` names the call a program makes next; `sem`, `sbuff`, `index`, `cnt` are the
code's. A start sets FULL, EMPTY and MUTEX one by one (`SetSemaphore`), whatever the
other program is doing. `sound` is auxiliary: it becomes false when a `SETVAL` changes
a semaphore under a running program, or when a program is killed with a slot in
its hands, and true when the three have their initial values with nobody in a loop.
The properties say what the semaphores guarantee while it is true; when it is not,
the model shows stores outside the buffer. In the repository's own order of start
(one program, then the other before the first has passed its first `semop`) it stays
true only if the first has not moved yet.

### NamedSemaphore: `ipc/shm/{pro,con}.c`

A name stands for an object (`names`), a program holds objects (`mine`), and an object
that lost its name lives on in whoever has opened it. SIGINT may come at any place and
runs the handler, which removes both names and exits. `overlap` is auxiliary: one
program was between its `shm_open` and its `sem_open` while the other one was between
`shm_unlink` and `sem_unlink`. Then the two share the memory and not the semaphore, and
both `MemoryIsExclusive` and `WholePair` fail; without that condition they hold,
whoever is interrupted where. `abandoned` has the semaphores whose holder was
interrupted. `example/posix` has the same two programs with an endless loop.

### TokenServer: `ipc/mq`, `monitor/monitor.c`

Three servers in one module (`variant`): `ipc/mq/srv.c` closes what it opens,
`ipc/mq/example/srv.c` never does, `monitor/monitor.c` takes its first message for a
registration. `queues` gives the queue a name stands for and `boxes` the contents of every
queue ever made, so a client that is gone leaves its queue behind until somebody
removes the name. `users` and `lost` are auxiliary. `Stuck` is the end that two clients with one
name can make of it: one is answered and dies before it takes its token, the other asks
and dies, and the server waits for ever for room in their queue (`mq_send`, `srv.c:68`). As committed, both `cli.c` open
`/sp-example-server` while all three servers make `/pacer-srv-mq`, so the client exits at
`mq/cli.c:45`; the model gives the client the server's name.

### StreamSocket: `ipc/{srv,minsrv,cli}.c`, `ipc/soc/tcp`

`link[c]` is the state of a client's connection as the socket layer has it: a line
sent, a line read, an answer, an end of file (`closed`), an error (`reset`), a dead
client. A server that ends turns the first two into the last ones (`Cut`). `vic` is not
initialised in `srv.c`, so whether the loop starts at all is a choice made at the
start of the server; nothing changes it later.

### FifoChat: `ipc/pipe/example`

Both programs go round one circle of places, from different starts. `OpenRead` and
`OpenWrite` also wake whoever waits in `open` for the other end. `ReadNothing` is a `read`
that finds neither line nor writer, after which the old buffer is printed; `Broken`
is the SIGPIPE of a `write` without reader.

### AttachLoop: `opencl/monitor.py`, `app/objdet/monitor.py`

The launcher is `stage`, `k` (its loop variable) and its two lists; a client is its place
in `heartbeat.py` and in the initialisation, and the two segments it has made, each
marked with the start that made it. `Except` is the bare `except`: with `result` set it
ends the loop, without it starts again and keeps what was appended. `upset` is
auxiliary: a client that somebody started by hand removed its log during the attach.
Then the lists do get out of step, and the launcher takes the index of one client
for the rate of another; otherwise they do not, because a log is removed before its
state and made after it (`LogHasItsState`). An initialisation that gets no segment
(`NoSegments`) makes no log and does not fault, so the program may end as usual and the
launcher go on to attach: if it is the first client it tries for ever (`AttachEnds`), if a
later one it reads only the clients before it (`LeavesOutLogless`). What comes after that
fails at the first beat (`NoLog`, `BeatFaults`), and `containers.run` raises.

### SmallPrograms, IpcMemory, IpcMessages

They put several of these groups into one state space, so that one run checks them:
`started` says which group a behaviour is about, and the variables of the others stay
as they are. Nothing is added to a module's actions or fairness. Their properties are
conjunctions of those of the modules, which are defined and explained there:

| Property | Conjuncts |
|---|---|
| `SmallTypeOK`, `MemoryTypeOK`, `MessagesTypeOK` | the `TypeOK` of each module |
| `HandedOver` | `SharedRing!InOrder`, `ConstructedBeforeUse`; `TraceQueue!OneInside`, `OneLinePerWakeup` |
| `ReadsPairs` | `AttachLoop!LogHasItsState`, `ReadsPairs`, `LeavesOutLogless` |
| `EachGoesOn` | `SharedRing!BothEnd`, `TraceQueue!BothEnd`, `FifoChat!KeepTalking`, `AttachLoop!AttachEnds` |
| `BufferKept` | `SysvBuffer!Accounts`, `StoresFit`, `OneInside` |
| `PairKept` | `NamedSemaphore!MemoryIsExclusive`, `WholePair`, `NeverLeftLocked` |
| `WaitersGoOn` | `SysvBuffer!AllConsumed`, `NamedSemaphore!WaiterGetsIn` |
| `RepliesRight` | `TokenServer!OwnReply`, `OneOutstanding`, `NeverBlocks`, `GivesUpNobody` |
| `AnswersRight` | `StreamSocket!FirstComeFirstServed`, `NoEmptyAnswer`, `LoserHasWinner` |
| `NobodyWaits` | `TokenServer!Answered`, `StreamSocket!NobodyHangs` |

## 3. The runs

| Run | What it asks | Bounds, and why they are enough |
|---|---|---|
| `monitor_races` | exclusion, no idle GPU, no dangling entry, one claim for each client, what is dropped and why, who the GPU is held for, the daemon implements `GpuArbiter` | 3 clients with 2-message queues, dying anywhere, with queues that may not open, not waiting for the gate. Holder, waiter and newcomer are three; 2 messages fill a queue. The clock stands still, as no property here looks at priorities |
| `monitor_liveness` | nobody is passed over for ever, the GPU comes back, the gate lets go of the mutex | 3 clients that wait for the gate and do not die (either breaks the promise, see below), so that two compete for a GPU that the third gives back and asks for again; 2 rates, of which the lower one would always win but for the division by the age; 2 seconds, as in the second one the higher rate, divided by its age, comes below the lower one; requests leave in the second of their beat |
| `monitor_priority` | that the scan finds somebody, and among equals the one that has waited longest | 3 clients (one holds, two compete), 3 seconds, a log of 3 slots so that it wraps |
| `monitor_stray` | exclusion even when times read from before the log, or a clock that is set back, send the uninitialised pointer somewhere | 3 clients whose queues may not open; `BufferDepth` 1: every read is a stray one; 2 seconds, which the clock passes both ways; queues of 1, as a client has one claim |
| `monitor_second_boundary` | *violation*: a request that leaves in a later second than its beat makes a waiter's priority infinite | see findings |
| `rate_order` | the slowest waiter is next, equals keep their order, who the GPU is held for, the arbiter (and so exclusion) | 3 clients, 2 rates, requests that overtake their registration, queues that do not open |
| `heartbeat_beats` | indices, log, average, whole reads, no division by 0 but after a pause, with the three ways the initialisation fails and both readers | 3 slots, lapped twice, and a window of 2, so that it fills, wraps and replaces; any order of times; `StopIndex` 2, below the depth, so that the undefined `keep_going` is reached; `LongestRead` 2, so that some intervals, in either direction, read as 0 |
| `small_programs` | rings: order, no use before construction, both are channels, both programs end. mucon: exclusion, one line lost or repeated per spurious wake-up at most and none without, both programs end. FIFO: turns, nobody stuck. Launcher: lists in step, nobody left out but behind a client without a log, the attach ends unless the first has none | rings: the real sizes. mucon: 6 lines, 3 wake-ups; more lines only repeat the hand-over. FIFO: either program started twice. Launcher: three clients, so that the one without a log is first, between or last; starts by hand |
| `ipc_memory` | System V: the semaphores account for the buffer, no store outside, exclusion, everything consumed. Named semaphore: exclusion, whole pairs, no locked semaphore left under its name, who waits gets in | System V: 2 slots and 4 items, so that the buffer fills and empties twice; each program started twice. Named: 2 turns, so that a loop comes back; each program started twice, so that one meets what was left |
| `ipc_messages` | tokens: the right client gets the reply, one request outstanding, the server never blocks, nobody given up, everybody answered. Sockets: order, no empty answer, who loses the bind, nobody hangs | tokens: 2 clients that may share a name, 2 requests each, queues of 1 and 3 descriptors, so that both limits are reached; 2 runs of the server. Sockets: 3 clients, of which 2 fit into the backlog; 2 runs of the server |
| `token_sharers` | everybody with a name of its own is answered, whatever two others that share a name do | 3 clients with 2 names, so that two share one and a third has its own; one request each, queues of 1, one run of the server |
| `trace_spurious` | *violation*: one spurious wake-up loses a line | see findings |

`CHECK_DEADLOCK FALSE` stands where a run lets programs die, lets the clock, the
entries or the number of starts run into their bound, or lets a request be dropped:
the programs then stop for ever, as they do in the system. `Terminated` is the stutter of a system that
has come to its proper end.

What the runs say about the daemon beyond the properties as written:

* `UnknownMeansOvertaken` and `HolderAccountedFor` hold with `Settled = FALSE` and
  list the ways the system gets stuck: a request that overtakes its registration
  is dropped and its client waits for ever; a client that closes while its
  `finished` is on the other queue leaves `busy` set; so does a client that dies
  with the GPU; so does a handoff to a client whose queue did not open.
* `RequestServed` needs all that `monitor_liveness` grants. With `PromptSends = FALSE` a waiter
  whose request came in after a later one has an infinite priority and is passed over,
  and TLC finds the property violated; a client that overtakes its registration, a death
  with the GPU and a rate of 0 (whose quotient is below all others at any age) keep
  waiters waiting, too. Rates may be known only up to `MayBePassed`: while one of `Rates`, freshly
  asked for, is not above what the waiter has, nothing is promised.
* A handoff takes the sender of `finished` on trust. `ExclusiveClaim` shows why that
  is safe: only the client named by `busy` can have sent one.

What the runs say about the smaller programs:

* Starting the second System V program while the first one is in its loop, or killing
  either with a slot in its hands, breaks the accounting for good, and stores outside
  the five words follow (`sound` in every property). It is safe to start both before
  either loops, and to start one again when the semaphores happen to have their
  initial values.
* In the named-semaphore pair one program must not start while the other is removing its
  names (`overlap`).
* A client whose first `shmget` fails ends as usual and without a log, and if it is the
  launcher's first one, `while result is None` with its bare `except` never ends
  (`opencl/monitor.py:66`).
* A clock that is set by more than 10^6 s makes the readers divide by zero
  (`shmlib.c:20`); but for the first beat's zero, nothing else does (`OnlyPausesReadZero`).
* A client of the token server that has a name of its own may still wait for ever, when
  two others with one name leave the server waiting on their queue (`Stuck`).
* `ipc/mq/srv.c` compares with 1 where -1 is meant and still gives up nobody but a
  client that has removed its queue or shares its name (`GivesUpNobody`);
  `example/srv.c` stops answering once its descriptors are used up.
* A client that dies before its answer takes the socket server with it (SIGPIPE). The
  other clients see an error or an end of file, never a false answer
  (`NoEmptyAnswer`); killing the server itself between a client's line and its
  answer does give one.

### Findings

* **monitor.cpp:181.** "who got to run based on who has smallest priorty"
  (`monitor.cpp:170`). Line 124 divides by `1 + cur_ts - last_ts`. A client that
  beats in one second and whose request arrives after that of a client that beat in
  the next makes this 0, the waiter's priority is infinite, the scan skips it, and
  if it is the only one `popped_cli` is used uninitialised. Run
  `monitor_second_boundary`; with `PromptSends = TRUE` and a clock that only moves
  forward it cannot happen (`monitor_priority`, `SelectionDefined`).
* **mucon/r.cpp:65.** "prints each message until the "last message" message is
  received" (`r.cpp:1`). Either program tests `message_in` once, with `if`, so a wait
  that returns without a notification loses or repeats a line. Run `trace_spurious`;
  `OneLinePerWakeup` bounds the damage.

## 4. Fairness

* `PacerMonitor!Fairness`: weak fairness of both threads (they loop for ever, and
  neither can be kept from the mutex except by the spin), and of what each client
  has begun (`Proceeds`: it makes its segments, asks after its beat, takes its token and
  finishes). Nothing makes a client beat, leave or register, and the clock is not fair. This
  is what the scheduler gives to a process that is alive. `MonitorAgeing!AgeingSpec` has the
  same fairness and fewer behaviours: nobody beats before all are registered, and nobody
  leaves, which is when the competition is worst; three clients that also come and go
  have too many states for a liveness check.
* `SharedRing!FairSpec`: weak fairness of either program. A semaphore that one
  program waits for is taken by nobody else (the mutex alternates between two).
* `TraceQueue!FairSpec`: weak fairness of either program, and strong fairness of
  taking the mutex, which is free again and again without staying free. A program
  that loops with the mutex mostly in its hands could starve the other one under
  weak fairness; the mutex of the system does not.
* `SysvBuffer!FairSpec`, `NamedSemaphore!FairSpec`: weak fairness of either program's own
  steps; starts, kills and interrupts are not fair. `semop` and `sem_wait` need no strong
  fairness: the other program runs out of items, of slots or of turns.
* `TokenServer!FairSpec`: weak fairness of the server, and of a client that waits in
  `mq_receive`; nobody has to ask. `StreamSocket!FairSpec`: weak fairness of the server and
  of every client that has started; each client connects once, so a full backlog keeps
  nobody out for ever.
* `FifoChat!FairSpec`: weak fairness of both programs, and the users type.
  `AttachLoop!FairSpec`: weak fairness of the launcher and of every client.

## 5. The proofs

Every theorem is about every value of the constants that satisfies the named
assumptions of the modules, and about every mode, so also about those no run
uses. `X` in the second column means `Spec => []X` (of the module the theorem is
about), or `Spec => X` where `X` is an action property or a specification.

| Theorem | States | Rests on |
|---|---|---|
| `PacerMonitorProofs!TypeCorrect` | `TypeOK` | inductive as it stands |
| `ClaimIsExclusive` | `ExclusiveClaim` | inductive together with `TypeOK`: that only `busy` has a claim is what makes each step of the monitor and of a client keep it |
| `GpuIsExclusive` | `MutualExclusion` | two running clients would both be `busy` |
| `NeverIdle` | `WorkConserving` | inductive together with `TypeOK`: `busy` becomes 0 only in `Release`, and an entry is made only when `busy` is not 0 |
| `PacerClientProofs!NoEntryDangles`, `OneClaimEach`, `OnlyOvertakenDropped` | `NoDanglingWaiter`, `OneClaimPerClient`, `UnknownMeansOvertaken`; from `[]SelectionDefined` | `ClaimInv` |
| `HeldForSomebody` | `HolderAccountedFor`; from `[]SelectionDefined` | itself and `ClaimInv` |
| `DaemonIsArbiter` | `ImplementsArbiter`; from `[]SelectionDefined` | the refinement mapping, step by step under `ClaimInv` |
| `ScanFindsWaiter` | `SelectionDefined`; from `Calm` | `TimeInv` |
| `LongestWait` | `LongestWaitFirst`; from `[]SelectionDefined` | `ClaimInv` and `SameMoment` |
| `CalmDaemon` | the six properties above that take `[]SelectionDefined` for granted, from `Calm` alone | all of these |
| `RateMonitorProofs!RateTypeCorrect` | `RateTypeOK` | `RateInv` |
| `RateHeldForSomebody`, `RateNeverIdle`, `RateClaims`, `RateIsArbiter` | what the other monitor promises, with no condition | `RateInv`, and the lemmas of `PacerClientProofs` |
| `SlowestRuns`, `FifoAmongEquals` | `SlowestRunsNext`, `OvertakenBySlower` | `RateInv` |
| `HeartbeatProofs!HeartbeatTypeCorrect` | `TypeOK` | `HeartbeatInv`, and `AverageInv` for the window |
| `IndicesAgree` | `CntIsReadIndex` | `HeartbeatInv`: it gives, for each place of a beat, the indices as functions of the number of beats, modulo the depth |
| `LogIsRight` | `LogKeepsLatest` | the same, with the slots that a beat in progress has written so far |
| `ReadsAreWhole` | `WholeRead` | the same, with what the reader has copied so far, as long as no lap has overtaken it |
| `ZeroIsAPause` | `OnlyPausesReadZero` | of the slots that `read_index` has named, slot 0 alone holds the rate 0, and any other rate in the log or copied from it is the interval of two beats |
| `AverageIsRight` | `AverageIsRecent` | `AverageInv` |
| `IpcMemoryProofs!MemoryTypeCorrect`, `BufferAccounts`, `PairIsKept` | `MemoryTypeOK`, `BufferKept`, `PairKept` | `SysvInv`, `NamedInv` |
| `SmallProgramsProofs!SmallTypeCorrect`, `ValuesHandedOver`, `UsersTakeTurns`, `PairsAreRead` | `SmallTypeOK`, `HandedOver`, `TakeTurns`, `ReadsPairs` | `RingInv`, `TraceInv`, `FifoInv`, `AttachInv` |
| `BuffersAreChannels` | `ImplementsChannels` | the refinement mapping of either ring, step by step under `RingInv` |
| `IpcMessagesProofs!MessagesTypeCorrect`, `RepliesGoRight`, `AnswersAreRight` | `MessagesTypeOK`, `RepliesRight`, `AnswersRight` | `TokenInv`, `StreamInv` |

### The two monitors

The properties of section 3 are seldom inductive. `ClaimInv` follows each client.
`GateLife` says where its two messages to the gate can be, that they are in order, and
that the gate knows the client between them; `RequestLife` says that its request is
in one place, on the queue, in the table or answered, and only while the client waits
or after it died waiting. Neither half is enough: an entry dangles only if a client
has closed with a request left, and whether it can close is a matter of the queue its
`finished` is on.

`SelectionDefined` has to be a hypothesis. Where a waiter's priority is a quotient by
zero, the uninitialised pointer (`monitor.cpp:173`) may hand the GPU to a client that
did not ask; that one can be waiting for nothing and close, and with the constants of
`monitor_second_boundary` TLC finds `NoDanglingWaiter` and `OneClaimPerClient` violated,
and `UnknownMeansOvertaken` too when clients do not wait for the gate and may die.
With the constants of `monitor_stray`, a clock that stands still, but four clients and
`Settled = FALSE`, a random simulation finds `HolderAccountedFor` violated as well: the pointer names one whose queue did not
open, and the GPU stays with a client that is done; three are too few for that.
Exclusion and `NeverIdle` do not need it. `Calm` is when the hypothesis can be
dropped: requests leave in the second of their beat, the clock is not set back, rates
are at least 0 and below the 9999999 that the scan starts from, and the words in front
of the logs are never one second apart nor close to the time of the program (the constants
of `monitor_races`, `monitor_liveness` and `monitor_priority` meet it). `TimeInv` then says that the
requests on their way are in the order of their beats and that no waiter's time is
later than a request to come, so that `1 + cur_ts - last_ts` is never 0. `SameMoment`
says that all priorities in the table were computed for the same `cur_ts`; without it
two waiters could not be compared by their times.

The second monitor takes the first entry of its queue and has no scan that could find
nobody, so all its results hold without a condition. `RateInv` adds to `ClaimInv` that
the queue is sorted, and that it has one entry for each waiter and none for another client.
The steps of either monitor are described in `PacerClientProofs` by what they do to messages and
entries (`Orderly`), so that one set of lemmas serves both.

### The heartbeats

`CntIsReadIndex` and its companions speak of the moments between beats, so they are
not inductive: the invariant says at every place inside a beat which of the stores
have happened. `ModularArithmetic` has the facts about `%` that this takes, proved
from its definition: a successor wraps at the depth, and two beats less than a depth
apart are in different slots.

`AverageInv` says which interval is in which slot of the window, because the update
subtracts the one that the next beat will overwrite; and, until the window has been
filled once, that the sum is that of the window's slots. That one is a fold. The
lemmas `SumsExist` and `SumFacts` reason about it by the smallest counterexample: strict
inclusion of finite sets is well-founded, so among the sets where a claim fails there
is one that includes no other.

### The smaller programs

`SysvInv` adds to the accounting of the semaphores which slots are in use: the first
`Stored` of them, and the index that a program has read is the next one. It holds
while `sound` does. `NamedInv` ties memories to semaphores: two programs that got the same
memory got the same semaphore, although either name may have been removed and made
anew in between. A half-written pair is then one whose semaphore is held, or
was abandoned for ever.

`RingInv` gives the two counting semaphores as functions of how far either
program's loop has come, and says which values are still in their slots. `TraceInv`
counts: lines repeated, lines overwritten, and one more for each program that has come back
from its wait too early, are at most the spurious wake-ups. `FifoInv` lists the
places in which one of the users is on turn. `AttachInv` says what the two lists hold at each
place of the launcher's loop.

`TokenInv` says that each queue ever made belongs to one name (names are used again, and
queues outlive their clients), and where the one request of a client, or its reply, can be.
`StreamInv` says that those who connected are those answered, the one in service and the
backlog, in this order. `SmallPrograms`, `IpcMemory` and `IpcMessages` run one group
at a time; a step of one leaves the invariants of the others alone.

## 6. What is only model-checked, and what is left out

Only model-checked are the liveness properties and what they need of `ENABLED`, which
the provers do not reach: `RequestServed`, `HolderReleases`, `GateReturns`, `EachGoesOn`,
`WaitersGoOn`, `NobodyWaits` and `Answered`. Every other property of a passing run is a theorem; for
the daemon of `monitor.cpp`, those named above hold where `SelectionDefined` does.
What a recursive definition computes for every input stays out of reach as well; no
model here uses one but the fold of `WindowSum`.

Left out of the modelled parts:

* the arithmetic of the heart that `monitor.cpp` keeps (external library) and the
  rounding of doubles anywhere;
* a pid that the system gives to a second client of the daemon;
* the wild pointer that faults in the daemon, and `sscanf` into an array of one
  character in `monitor/monitor.c:64`;
* the window and global rates and the tag of a heartbeat record, which no reader here
  looks at;
* several processes that beat through one heartbeat: no program of the repository does;
* a `TraceQueue` reader started before the slot is constructed;
* a second System V producer or consumer at the same time, and two launchers;
* what the programs print, and their log files.

### Not modelled

The map covers a small share of the repository's lines, and cannot cover much more:
about 99 in 100 of them are the CUDA and OpenCL samples, the Parboil benchmarks and
the headers under `cuda/` and `opencl/{openclcuda,intel,parboil}`, which are other
people's programs and do not take part in the system; `app/` is image processing
around the same beats. Every program of the repository that has a state of its own is
modelled, except:

* `ipc/shm/srv.cpp`, whose client is not there: a ring of one slot, of which
  `SharedRing` with `NumItems = 1` would be the model, under a name nobody opens;
* `ipc/soc/udp`: the server answers to the name it is bound to itself, so the client
  waits for ever whatever happens; there is nothing left to check.

## 7. Plan

What is left to prove: that the wild handoff is the only way in which the daemon loses
track of a client, that is, how much of `ClaimInv` holds without `SelectionDefined` (exclusion and
`GateInv` do); when `Settled` and `OpenFails` let `UnknownMeansOvertaken` be sharpened to
"nothing is dropped"; for the token server, what holds of a name that two clients share.
To model, and then to prove like the average: the window and global rates of a heartbeat
record, when a reader looks at them; `ipc/shm/srv.cpp`, when it has a client.
