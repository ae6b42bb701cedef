---------------------------- MODULE PacerMonitor ----------------------------
(***************************************************************************)
(* monitor/monitor.cpp: the arbiter that lets one OpenCL process at a time *)
(* use the GPU.  Two threads share clients_map under one mutex.  The gate  *)
(* thread reads "/pacer-srv-mq-gate": the first message with a pid creates *)
(* a client, the second one closes it.  The monitor thread reads           *)
(* "/pacer-srv-mq": "<pid> 0" asks for the GPU, "<pid> 1" gives it back.   *)
(* A client may run when the monitor has put a message into its queue.     *)
(*                                                                         *)
(* The client is the OpenCL intercept layer: it is not in the repository,  *)
(* and is modelled from what the two threads receive, send and read.       *)
(***************************************************************************)
EXTENDS Integers, Sequences, FiniteSets

CONSTANTS
  Clients,         \* the pids of the client processes
  MaxMessages,     \* capacity of both server queues (MAX_MESSAGES)
  BufferDepth,     \* records in a client's heartbeat log (100)
  Rates,           \* the heart rates a beat of the monitor may give
  StrayTimes,      \* what the word before the log may hold, in seconds
  StartTime,       \* the clock at the start, in seconds
  MaxTime,         \* bound: the clock stops here
  MaxEntries,      \* bound: a client with so many entries asks no more
  Settled,         \* clients wait until the gate has served them
  PromptSends,     \* a request leaves in the second of its beat
  Crashes,         \* clients may die
  OpenFails,       \* the gate may fail to open a client's queue
  ClockStepsBack   \* the real-time clock may be set back

ASSUME ClientsAssumption == Clients \subseteq Nat \ {0} /\ IsFiniteSet(Clients)
ASSUME BoundsAssumption  == /\ MaxMessages \in Nat \ {0}
                            /\ BufferDepth \in Nat \ {0}
                            /\ StartTime \in Nat /\ MaxTime \in Nat
                            /\ MaxEntries \in Nat \ {0}
ASSUME ReadAssumption    == Rates \subseteq Int /\ StrayTimes \subseteq Int
ASSUME ModeAssumption    == /\ Settled \in BOOLEAN /\ PromptSends \in BOOLEAN
                            /\ Crashes \in BOOLEAN /\ OpenFails \in BOOLEAN
                            /\ ClockStepsBack \in BOOLEAN

VARIABLES
  monitor_mq,   \* "/pacer-srv-mq", oldest message first
  mon_buf,      \* the monitor thread's in_buffer, NoMessage when it waits
  gate_mq,      \* "/pacer-srv-mq-gate"
  gate_buf,     \* the gate thread's in_buffer, NoPid when it waits
  gate_pc,      \* "open" while the gate spins in shmget holding the mutex
  registered,   \* the keys of clients_map
  client,       \* the values of clients_map
  task_queue,   \* clients_task_queue: how many entries each pid has
  busy,         \* Monitor::busy, 0 or the pid that holds the GPU
  reply,        \* how many messages wait in each client's own queue
  pc,           \* where each client process is
  hb_state,     \* each client's shared segments
  now           \* CLOCK_REALTIME in seconds

gateVars   == <<gate_mq, gate_buf, gate_pc>>
clientVars == <<pc, hb_state>>
vars == <<monitor_mq, mon_buf, gateVars, registered, client, task_queue,
          busy, reply, clientVars, now>>

Requests      == [pid : Clients, finished : BOOLEAN]
NoMessage     == [pid |-> 0, finished |-> FALSE]
\* The text of a gate message is the pid alone; nth, which no action of the
\* gate reads, says whether the client sent it first or second.
Registrations == [pid : Clients, nth : {1, 2}]
NoPid         == [pid |-> 0, nth |-> 0]

Request(c)  == [pid |-> c, finished |-> FALSE]
Finished(c) == [pid |-> c, finished |-> TRUE]

Waiting == {c \in Clients : task_queue[c] > 0}

(***************************************************************************)
(* A priority is the quotient num/den with den >= 0: den is 0 when the     *)
(* code divides by zero, which gives inf or NaN, never below anything.     *)
(***************************************************************************)
Quotient(num, den) == IF den < 0 THEN [num |-> -num, den |-> -den]
                                 ELSE [num |-> num, den |-> den]
Below(p, q) == p.num * q.den < q.num * p.den
Smallest    == [num |-> 9999999, den |-> 1]

NewClient(opened) == [qd       |-> opened,
                      priority |-> [num |-> 0, den |-> 1],
                      last_ts  |-> 0,
                      last_hr  |-> 0]
Segments(exists) == [exists |-> exists, buffer_index |-> 0, timestamp |-> 0]

Init ==
  /\ monitor_mq = <<>>  /\ mon_buf = NoMessage
  /\ gate_mq = <<>>     /\ gate_buf = NoPid /\ gate_pc = "receive"
  /\ registered = {}    /\ client = [c \in Clients |-> NewClient(FALSE)]
  /\ task_queue = [c \in Clients |-> 0]
  /\ busy = 0
  /\ reply = [c \in Clients |-> 0]
  /\ pc = [c \in Clients |-> "start"]
  /\ hb_state = [c \in Clients |-> Segments(FALSE)]
  /\ now = StartTime

-----------------------------------------------------------------------------
(* The client, external.                                                   *)

Become(c, from, to) == pc[c] \in from /\ pc' = [pc EXCEPT ![c] = to]

SendMonitor(m) == /\ Len(monitor_mq) < MaxMessages
                  /\ monitor_mq' = Append(monitor_mq, m)
SendGate(c, n) == /\ Len(gate_mq) < MaxMessages
                  /\ gate_mq' = Append(gate_mq, [pid |-> c, nth |-> n])

\* Its first message to the gate.
Register(c) ==
  /\ Become(c, {"start"}, "idle")
  /\ SendGate(c, 1)
  /\ UNCHANGED <<monitor_mq, mon_buf, gate_buf, gate_pc, registered, client,
                 task_queue, busy, reply, hb_state, now>>

\* Its heartbeat_init: the segments pid<<1 and (pid<<1)|1 come to exist.
CreateSegments(c) ==
  /\ pc[c] \in {"start", "idle"}
  /\ ~hb_state[c].exists
  /\ hb_state' = [hb_state EXCEPT ![c] = Segments(TRUE)]
  /\ UNCHANGED <<monitor_mq, mon_buf, gateVars, registered, client,
                 task_queue, busy, reply, pc, now>>

\* A record with the time, and the buffer index, which goes back to 0 at the
\* end of the log.
AfterBeat(s) == [exists       |-> TRUE,
                 buffer_index |-> (s.buffer_index + 1) % BufferDepth,
                 timestamp    |-> now]

\* Its heartbeat before an OpenCL call.
Beat(c) ==
  /\ Become(c, {"idle"}, "beat")
  /\ hb_state[c].exists
  /\ Settled => c \in registered
  /\ task_queue[c] < MaxEntries
  /\ hb_state' = [hb_state EXCEPT ![c] = AfterBeat(hb_state[c])]
  /\ UNCHANGED <<monitor_mq, mon_buf, gateVars, registered, client,
                 task_queue, busy, reply, now>>

Ask(c) ==
  /\ Become(c, {"beat"}, "wait")
  /\ SendMonitor(Request(c))
  /\ UNCHANGED <<mon_buf, gateVars, registered, client, task_queue, busy,
                 reply, hb_state, now>>

HasToken_Unchecked(c) == TRUE   \* mutant: goes on without the message
HasToken(c) == reply[c] > 0

TakeToken(c) ==
  /\ Become(c, {"wait"}, "run")
  /\ HasToken(c)
  /\ reply' = [reply EXCEPT ![c] = @ - 1]
  /\ UNCHANGED <<monitor_mq, mon_buf, gateVars, registered, client,
                 task_queue, busy, hb_state, now>>

Finish(c) ==
  /\ Become(c, {"run"}, "idle")
  /\ SendMonitor(Finished(c))
  /\ UNCHANGED <<mon_buf, gateVars, registered, client, task_queue, busy,
                 reply, hb_state, now>>

InFlight(m) == mon_buf = m \/ \E i \in 1..Len(monitor_mq) : monitor_mq[i] = m

\* Its second message to the gate, when it leaves.
Close(c) ==
  /\ Become(c, {"idle"}, "closed")
  /\ Settled => c \in registered /\ ~InFlight(Finished(c))
  /\ SendGate(c, 2)
  /\ UNCHANGED <<monitor_mq, mon_buf, gate_buf, gate_pc, registered, client,
                 task_queue, busy, reply, hb_state, now>>

Crash(c) ==
  /\ Crashes
  /\ Become(c, {"idle", "beat", "wait", "run"}, "crashed")
  /\ UNCHANGED <<monitor_mq, mon_buf, gateVars, registered, client,
                 task_queue, busy, reply, hb_state, now>>

Tick ==
  /\ \/ now < MaxTime /\ now' = now + 1
     \/ ClockStepsBack /\ now > StartTime /\ now' = now - 1
  /\ PromptSends => \A c \in Clients : pc[c] # "beat"
  /\ UNCHANGED <<monitor_mq, mon_buf, gateVars, registered, client,
                 task_queue, busy, reply, clientVars>>

-----------------------------------------------------------------------------
(* Gate::run.                                                              *)

GateReceive ==
  /\ gate_buf = NoPid /\ gate_mq # <<>>
  /\ gate_buf' = Head(gate_mq) /\ gate_mq' = Tail(gate_mq)
  /\ UNCHANGED <<monitor_mq, mon_buf, gate_pc, registered, client,
                 task_queue, busy, reply, clientVars, now>>

\* An unknown pid: take the mutex, open the client's queue and go on whether
\* that worked or not (the result is compared with 1, never with -1).
GateOpen(c, opened) ==
  /\ gate_pc = "receive" /\ gate_buf.pid = c /\ c \notin registered
  /\ opened \/ OpenFails
  /\ gate_pc' = "open"
  /\ client' = [client EXCEPT ![c] = NewClient(opened)]
  /\ UNCHANGED <<monitor_mq, mon_buf, gate_mq, gate_buf, registered,
                 task_queue, busy, reply, clientVars, now>>

\* mutant: waits for the first record as well
SegmentsFound_AfterBeat(c) == hb_state[c].exists /\ hb_state[c].buffer_index > 0
SegmentsFound(c) == hb_state[c].exists

Inserted_Replaces(c) == {c}   \* mutant: one slot for every client
Inserted(c) == registered \cup {c}

\* The spin in shmget ends once the client has made its segments; insert.
GateInsert(c) ==
  /\ gate_pc = "open" /\ gate_buf.pid = c /\ SegmentsFound(c)
  /\ registered' = Inserted(c)
  /\ gate_pc' = "receive" /\ gate_buf' = NoPid
  /\ UNCHANGED <<monitor_mq, mon_buf, gate_mq, client, task_queue, busy,
                 reply, clientVars, now>>

\* A known pid: close its queue, remove its segments, erase it.
GateClose(c) ==
  /\ gate_pc = "receive" /\ gate_buf.pid = c /\ c \in registered
  /\ registered' = registered \ {c}
  /\ hb_state' = [hb_state EXCEPT ![c] = Segments(FALSE)]
  /\ gate_buf' = NoPid
  /\ UNCHANGED <<monitor_mq, mon_buf, gate_mq, gate_pc, client, task_queue,
                 busy, reply, pc, now>>

Gate == \/ GateReceive
        \/ \E c \in Clients : \/ \E opened \in BOOLEAN : GateOpen(c, opened)
                              \/ GateInsert(c)
                              \/ GateClose(c)

-----------------------------------------------------------------------------
(* Monitor::run.                                                           *)

MonitorReceive ==
  /\ mon_buf = NoMessage /\ monitor_mq # <<>>
  /\ mon_buf' = Head(monitor_mq) /\ monitor_mq' = Tail(monitor_mq)
  /\ UNCHANGED <<gateVars, registered, client, task_queue, busy, reply,
                 clientVars, now>>

\* The monitor takes the mutex with message m and is done with m.
Handles(m) == /\ mon_buf = m /\ gate_pc # "open"
              /\ mon_buf' = NoMessage
              /\ UNCHANGED <<monitor_mq, gateVars, registered, clientVars, now>>

Known_Any(c) == TRUE   \* mutant: clients_map[pid] without the find
Known(c) == c \in registered

\* "pid not found in map".
DropUnknown(c) ==
  /\ ~Known(c)
  /\ Handles(Request(c)) \/ Handles(Finished(c))
  /\ UNCHANGED <<client, task_queue, busy, reply>>

\* mq_send to a client: a failure takes the code's continue.
Sent(c)     == client[c].qd /\ reply' = [reply EXCEPT ![c] = @ + 1]
SendFail(c) == ~client[c].qd /\ UNCHANGED reply

\* The timestamp of record buffer_index - 1: just before the log when the
\* index has gone back to 0.
RecordTimes(c) ==
  IF hb_state[c].buffer_index = 0 THEN StrayTimes ELSE {hb_state[c].timestamp}

Age_Zero(cur_ts, ts) == cur_ts - ts     \* mutant: no 1 + in the divisor
Age_None(cur_ts, ts) == 1               \* mutant: waiting does not count
Age(cur_ts, ts) == 1 + cur_ts - ts

\* The update of every client in the map, then of the one that asks.
UpdatePriority(c, cur_ts, rate) ==
  [d \in Clients |->
     CASE d = c -> [client[c] EXCEPT !.priority = [num |-> rate, den |-> 1],
                                     !.last_ts = cur_ts, !.last_hr = rate]
       [] d \in registered \ {c} ->
            [client[d] EXCEPT !.priority =
               Quotient(client[d].last_hr, Age(cur_ts, client[d].last_ts))]
       [] OTHER -> client[d]]

Grant_Forgets(c) == Sent(c) /\ UNCHANGED busy   \* mutant: busy is not set
Grant(c) == Sent(c) /\ busy' = c

\* mutant: busy is set before the send
GrantFails_Busy(c) == SendFail(c) /\ busy' = c
GrantFails(c) == SendFail(c) /\ UNCHANGED busy

HandleRequest(c) ==
  /\ Known(c)
  /\ Handles(Request(c))
  /\ \E cur_ts \in RecordTimes(c), rate \in Rates :
       client' = UpdatePriority(c, cur_ts, rate)
  /\ \/ busy = 0 /\ (Grant(c) \/ GrantFails(c)) /\ UNCHANGED task_queue
     \/ /\ busy # 0
        /\ task_queue' = [task_queue EXCEPT ![c] = @ + 1]
        /\ UNCHANGED <<busy, reply>>

Eligible == {c \in Waiting : Below(client[c].priority, Smallest)}

GetsToRun_First(p) == \A q \in Waiting \ {p} : p < q   \* mutant: begin()
\* The scan keeps the first of the strictly smallest, in pid order.
GetsToRun(p) ==
  /\ p \in Eligible
  /\ \A q \in Eligible \ {p} :
       \/ Below(client[p].priority, client[q].priority)
       \/ ~Below(client[q].priority, client[p].priority) /\ p < q

\* mutants: the queue is not looked at; busy is not reset; the client that
\* finished is answered, as a commented-out block of the source does
Release_Always == busy' = 0 /\ UNCHANGED <<task_queue, reply>>
Release_Keeps == Waiting = {} /\ UNCHANGED <<busy, task_queue, reply>>
Release_Answers == /\ busy # 0 /\ Waiting = {} /\ busy' = 0
                   /\ reply' = [reply EXCEPT ![busy] = @ + 1]
                   /\ UNCHANGED task_queue
\* Nobody waits: the GPU is free (busy = 0 already when nobody held it).
Release == /\ busy = 0 \/ Waiting = {}
           /\ busy' = 0 /\ UNCHANGED <<task_queue, reply>>

\* mutants: the entry stays; the message is not sent
Handoff_KeepsEntry(p) == Sent(p) /\ busy' = p /\ UNCHANGED task_queue
Handoff_Silent(p) == /\ busy' = p /\ UNCHANGED reply
                     /\ task_queue' = [task_queue EXCEPT ![p] = 0]
\* erase(pid) takes every entry of that pid.
Handoff(p) == /\ Sent(p) /\ busy' = p
              /\ task_queue' = [task_queue EXCEPT ![p] = 0]

HandoffFails(p) == SendFail(p) /\ UNCHANGED <<busy, task_queue>>

\* No waiter below the start value: popped_cli is not initialised.  It may
\* still point at any client object, and erase(0) takes nothing.  (If it
\* faults instead, the program ends: that outcome is not modelled.)
WildHandoff(p) == /\ Eligible = {} /\ p \in registered
                  /\ \/ Sent(p) /\ busy' = p /\ UNCHANGED task_queue
                     \/ HandoffFails(p)

HandleFinished(c) ==
  /\ Known(c)
  /\ Handles(Finished(c))
  /\ \/ Release
     \/ /\ busy # 0 /\ Waiting # {}
        /\ \E p \in Clients : \/ GetsToRun(p) /\ (Handoff(p) \/ HandoffFails(p))
                              \/ WildHandoff(p)
  /\ UNCHANGED client

Monitor == \/ MonitorReceive
           \/ \E c \in Clients : \/ DropUnknown(c)
                                 \/ HandleRequest(c)
                                 \/ HandleFinished(c)

-----------------------------------------------------------------------------
Client(c) == \/ Register(c) \/ CreateSegments(c) \/ Beat(c) \/ Ask(c)
             \/ TakeToken(c) \/ Finish(c) \/ Close(c) \/ Crash(c)

\* Every client has left and both threads wait in mq_receive.
Terminated == /\ \A c \in Clients : pc[c] = "closed"
              /\ monitor_mq = <<>> /\ mon_buf = NoMessage
              /\ gate_mq = <<>> /\ gate_buf = NoPid
              /\ UNCHANGED vars

Next == \/ Gate \/ Monitor \/ Tick \/ Terminated
        \/ \E c \in Clients : Client(c)

Spec == Init /\ [][Next]_vars

\* What a client does that is alive: make its segments, and go on from its
\* beat to its "finished".  One of these at a time is possible.
Proceeds(c) == CreateSegments(c) \/ Ask(c) \/ TakeToken(c) \/ Finish(c)

\* Both threads loop for ever and a client goes on with what it has begun;
\* none of that needs a fair clock.
Fairness == /\ WF_vars(Gate) /\ WF_vars(Monitor)
            /\ \A c \in Clients : WF_vars(Proceeds(c))
FairSpec == Spec /\ Fairness

-----------------------------------------------------------------------------
(* What must hold.                                                         *)

Priorities    == [num : Int, den : Nat]
ClientRecords == [qd : BOOLEAN, priority : Priorities, last_ts : Int,
                  last_hr : Int]
SegmentStates == [exists : BOOLEAN, buffer_index : Nat, timestamp : Int]
Places        == {"start", "idle", "beat", "wait", "run", "closed", "crashed"}

\* Every variable stays in its range.  The entries of a pid and its waiting
\* messages are only said to be numbers here: OneClaimPerClient bounds them.
TypeOK ==
  /\ monitor_mq \in Seq(Requests) /\ mon_buf \in Requests \cup {NoMessage}
  /\ gate_mq \in Seq(Registrations)
  /\ gate_buf \in Registrations \cup {NoPid}
  /\ gate_pc \in {"receive", "open"}
  /\ registered \subseteq Clients
  /\ client \in [Clients -> ClientRecords]
  /\ task_queue \in [Clients -> Nat] /\ busy \in Clients \cup {0}
  /\ reply \in [Clients -> Nat]
  /\ pc \in [Clients -> Places]
  /\ hb_state \in [Clients -> SegmentStates]
  /\ now \in Int

\* At most one client runs on the GPU: what the arbiter is for.  The handoff
\* (monitor.cpp:157-207) trusts every "finished" message, whoever sent it.
MutualExclusion ==
  \A c, d \in Clients : pc[c] = "run" /\ pc[d] = "run" => c = d

\* The claim of c on the GPU: its message, its run, then its "finished".
Claims(c) == reply[c] > 0 \/ pc[c] = "run" \/ InFlight(Finished(c))

FinishedOnce(c) ==
  /\ \A i, j \in 1..Len(monitor_mq) :
       monitor_mq[i] = Finished(c) /\ monitor_mq[j] = Finished(c) => i = j
  /\ mon_buf = Finished(c) =>
       \A i \in 1..Len(monitor_mq) : monitor_mq[i] # Finished(c)

\* A client has one claim at a time and only the client named by busy has
\* one: this is why monitor.cpp:155 need not ask who sent a "finished", even
\* after a handoff through the uninitialised pointer.
ExclusiveClaim ==
  \A c \in Clients :
    /\ Claims(c) => busy = c
    /\ reply[c] <= 1
    /\ reply[c] > 0 => pc[c] # "run" /\ ~InFlight(Finished(c))
    /\ pc[c] = "run" => ~InFlight(Finished(c))
    /\ FinishedOnce(c)

\* A free GPU is never left idle while a request waits in clients_task_queue
\* (monitor.cpp:137-219).
WorkConserving == busy = 0 => Waiting = {}

\* An entry of clients_task_queue points into clients_map: the gate's erase
\* (monitor.cpp:375) never leaves one dangling for the scan to follow.
NoDanglingWaiter == Waiting \subseteq registered

\* A client has one claim at most, an entry or a message in its queue, and
\* only while it waits or after it died waiting; so erase(pid)
\* (monitor.cpp:207) swallows no second request, and mq_send never blocks on
\* a full queue with the mutex held.
OneClaimPerClient ==
  \A c \in Clients :
    /\ task_queue[c] + reply[c] <= 1
    /\ task_queue[c] + reply[c] = 1 => pc[c] \in {"wait", "crashed"}

GateHolds(c, n) == LET m == [pid |-> c, nth |-> n]
                   IN  gate_buf = m \/ \E i \in 1..Len(gate_mq) : gate_mq[i] = m

\* The "pid not found in map" branch (monitor.cpp:252) drops a request only
\* because it overtook its own registration on the other queue, and a
\* "finished" only because the client has already closed.
UnknownMeansOvertaken ==
  \A c \in Clients \ registered :
    /\ mon_buf = Request(c) => GateHolds(c, 1)
    /\ mon_buf = Finished(c) => pc[c] = "closed"

\* The GPU is held for somebody: while busy names a client, either a message
\* for it, its run or its "finished" exists, or it died or closed, or a
\* waiter's queue could not be opened so that the handoff failed
\* (monitor.cpp:202).  These are all the ways busy is lost for ever while
\* the scan finds somebody; a wild pointer may lose it too.
HolderAccountedFor ==
  busy # 0 => \/ reply[busy] > 0 \/ pc[busy] = "run"
              \/ InFlight(Finished(busy))
              \/ pc[busy] \in {"closed", "crashed"}
              \/ \E w \in Waiting : ~client[w].qd

\* Every waiter takes part in the scan (monitor.cpp:178), so popped_cli is
\* never used uninitialised: no priority is a quotient by zero.
SelectionDefined == Waiting \subseteq Eligible

\* "who got to run based on who has smallest priorty" (monitor.cpp:170): a
\* handoff sends the message to a waiter, and none has a smaller priority.
SmallestPriorityRuns ==
  [][\A p \in Clients :
       busy # 0 /\ Waiting # {} /\ reply'[p] > reply[p] =>
         /\ p \in Waiting
         /\ \A q \in Waiting : ~Below(client[q].priority, client[p].priority)]_vars

\* Among waiters of equal rate the one that has waited longest gets the GPU
\* (monitor.cpp:124 divides the rate by the age), unless a time read from
\* before the log has made a priority negative.
LongestWaitFirst ==
  [][\A p, q \in Waiting :
       /\ busy # 0 /\ busy' = p /\ task_queue'[p] = 0
       /\ client[p].last_hr > 0 /\ client[q].last_hr = client[p].last_hr
       /\ client[p].last_ts >= StartTime /\ client[q].last_ts >= StartTime
       /\ client[p].priority.num > 0 /\ client[q].priority.num > 0
       => client[p].last_ts <= client[q].last_ts]_vars

\* c waits in the table, and a request that is beaten now may have a priority
\* that is not above the one c has now.
MayBePassed(c) ==
  /\ c \in Waiting
  /\ \E rate \in Rates : client[c].last_hr >= rate * (1 + now - client[c].last_ts)

\* A client that asks gets the GPU, however low the rates of the others are
\* and however often they ask again, once it is so old that its rate divided
\* by its age is below every rate (monitor.cpp:124, 170-188); and until then
\* its request is in the table, where it ages.
RequestServed ==
  \A c \in Clients : pc[c] = "wait" ~> pc[c] = "run" \/ MayBePassed(c)

\* No client holds the GPU for ever.
HolderReleases == \A c \in Clients : busy = c ~> busy # c

\* The gate does not keep the mutex: its spin in shmget (monitor.cpp:327-334)
\* ends, because the client makes its segments.
GateReturns == gate_pc = "open" ~> gate_pc = "receive"

\* What a client does with the GPU: it uses it from the moment the message
\* is in its queue.  The request of a dead client still counts.
GpuStatus(c) ==
  CASE pc[c] = "run" \/ reply[c] > 0 -> "using"
    [] /\ ~(pc[c] = "run" \/ reply[c] > 0)
       /\ pc[c] = "wait" \/ c \in Waiting \/ InFlight(Request(c)) -> "asking"
    [] OTHER -> "idle"

Arbiter == INSTANCE GpuArbiter WITH status <- [c \in Clients |-> GpuStatus(c)]

\* Every behaviour of the two threads and their clients is one of the
\* abstract arbiter: the GPU goes to clients that asked, when nobody uses it.
ImplementsArbiter == Arbiter!Spec

=============================================================================
