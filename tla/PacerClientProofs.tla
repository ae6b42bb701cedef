-------------------------- MODULE PacerClientProofs --------------------------
(***************************************************************************)
(* Proofs about PacerMonitor that follow each client from its registration *)
(* to its end: where its messages can be, what becomes of its request, and *)
(* that the daemon is a GpuArbiter.                                        *)
(*                                                                         *)
(* What concerns the gate holds in every mode.  What concerns requests     *)
(* holds as long as the scan finds somebody (SelectionDefined), because    *)
(* the uninitialised pointer of monitor.cpp:173 may give the GPU to a      *)
(* client that did not ask.  The last part shows when that is so: when     *)
(* requests leave in the second of their beat, the clock is not set back,  *)
(* and the words before the logs are not next to each other nor to the     *)
(* time of the program (Calm).  The steps are described by what they do to *)
(* messages and entries (Orderly), so that the same lemmas serve the other *)
(* monitor (RateMonitorProofs).                                            *)
(***************************************************************************)
EXTENDS PacerMonitorProofs

-----------------------------------------------------------------------------
(* A thread's message buffer b, with the queue q behind it.                *)

Holds(q, b, m) == b = m \/ \E i \in 1..Len(q) : q[i] = m

\* m is there once at most.
Once(q, b, m) ==
  /\ \A i, j \in 1..Len(q) : q[i] = m /\ q[j] = m => i = j
  /\ b = m => \A i \in 1..Len(q) : q[i] # m

\* No m is behind an n.
Ahead(q, b, m, n) ==
  /\ \A i, j \in 1..Len(q) : q[i] = m /\ q[j] = n => i < j
  /\ b = n => \A i \in 1..Len(q) : q[i] # m

\* Receiving (mq_receive into an empty buffer) moves the oldest message and
\* changes neither what is there nor its order.
LEMMA QueueReceive ==
  ASSUME NEW S, NEW q \in Seq(S), q # <<>>, NEW b, NEW m, b # m
  PROVE  /\ Holds(Tail(q), Head(q), m) <=> Holds(q, b, m)
         /\ Once(q, b, m) => Once(Tail(q), Head(q), m)
         /\ \A n : b # n /\ m # n /\ Ahead(q, b, m, n) => Ahead(Tail(q), Head(q), m, n)
         /\ \A n : b # n /\ m # n /\ Ahead(Tail(q), Head(q), m, n) => Ahead(q, b, m, n)
<1>1. /\ Len(q) \in Nat /\ Len(q) >= 1 /\ Len(Tail(q)) = Len(q) - 1
      /\ Head(q) = q[1]
      /\ \A i \in 1..Len(Tail(q)) : Tail(q)[i] = q[i + 1]
  OBVIOUS
<1>2. \A i \in 1..Len(Tail(q)) : i + 1 \in 1..Len(q)
  BY <1>1
<1>3. \A i \in 1..Len(q) :
        i = 1 \/ (i - 1 \in 1..Len(Tail(q)) /\ q[i] = Tail(q)[i - 1])
  BY <1>1
<1>4. 1 \in 1..Len(q)
  BY <1>1
<1>5. Holds(Tail(q), Head(q), m) <=> Holds(q, b, m)
  BY <1>1, <1>2, <1>3, <1>4 DEF Holds
<1>6. ASSUME Once(q, b, m)
      PROVE  Once(Tail(q), Head(q), m)
  <2>1. ASSUME NEW i \in 1..Len(Tail(q)), NEW j \in 1..Len(Tail(q)),
               Tail(q)[i] = m, Tail(q)[j] = m
        PROVE  i = j
    <3>1. i + 1 = j + 1
      BY <1>1, <1>2, <1>6, <2>1 DEF Once
    <3> QED BY <3>1
  <2>2. ASSUME Head(q) = m, NEW i \in 1..Len(Tail(q)), Tail(q)[i] = m
        PROVE  FALSE
    <3>1. i + 1 = 1
      BY <1>1, <1>2, <1>4, <1>6, <2>2 DEF Once
    <3> QED BY <3>1
  <2> QED BY <2>1, <2>2 DEF Once
<1>7. ASSUME NEW n, b # n, m # n, Ahead(q, b, m, n)
      PROVE  Ahead(Tail(q), Head(q), m, n)
  <2>1. ASSUME NEW i \in 1..Len(Tail(q)), NEW j \in 1..Len(Tail(q)),
               Tail(q)[i] = m, Tail(q)[j] = n
        PROVE  i < j
    <3>1. i + 1 < j + 1
      BY <1>1, <1>2, <1>7, <2>1 DEF Ahead
    <3> QED BY <3>1
  <2>2. ASSUME Head(q) = n, NEW i \in 1..Len(Tail(q)), Tail(q)[i] = m
        PROVE  FALSE
    <3>1. i + 1 < 1
      BY <1>1, <1>2, <1>4, <1>7, <2>2 DEF Ahead
    <3> QED BY <3>1
  <2> QED BY <2>1, <2>2 DEF Ahead
<1>8. ASSUME NEW n, b # n, m # n, Ahead(Tail(q), Head(q), m, n)
      PROVE  Ahead(q, b, m, n)
  <2>1. ASSUME NEW i \in 1..Len(q), NEW j \in 1..Len(q), q[i] = m, q[j] = n
        PROVE  i < j
    <3>1. CASE j = 1
      BY <1>1, <1>3, <1>8, <2>1, <3>1 DEF Ahead
    <3>2. CASE i = 1
      BY <1>1, <2>1, <1>8, <3>2
    <3>3. CASE i # 1 /\ j # 1
      <4>1. i - 1 < j - 1
        BY <1>3, <1>8, <2>1, <3>3 DEF Ahead
      <4> QED BY <4>1
    <3> QED BY <3>1, <3>2, <3>3
  <2> QED BY <1>8, <2>1 DEF Ahead
<1> QED BY <1>5, <1>6, <1>7, <1>8

\* Sending e (mq_send) adds it behind everything else.
LEMMA QueueSend ==
  ASSUME NEW S, NEW q \in Seq(S), NEW e \in S, NEW b, NEW m
  PROVE  /\ Holds(Append(q, e), b, m) <=> Holds(q, b, m) \/ e = m
         /\ Once(q, b, m) /\ (e # m \/ ~Holds(q, b, m)) => Once(Append(q, e), b, m)
         /\ \A n : /\ m # n /\ Ahead(q, b, m, n) /\ (e # m \/ ~Holds(q, b, n))
                      => Ahead(Append(q, e), b, m, n)
                   /\ Ahead(Append(q, e), b, m, n) =>
                        /\ Ahead(q, b, m, n)
                        /\ m # n /\ e = m => ~Holds(q, b, n)
<1>1. /\ Len(q) \in Nat
      /\ Len(Append(q, e)) = Len(q) + 1
      /\ Append(q, e)[Len(q) + 1] = e
      /\ \A i \in 1..Len(q) : Append(q, e)[i] = q[i]
  OBVIOUS
<1>2. \A i \in 1..Len(Append(q, e)) : i \in 1..Len(q) \/ i = Len(q) + 1
  BY <1>1
<1>3. /\ 1..Len(q) \subseteq 1..Len(Append(q, e))
      /\ Len(q) + 1 \in 1..Len(Append(q, e))
      /\ \A i \in 1..Len(q) : i < Len(q) + 1
  BY <1>1
<1>4. Holds(Append(q, e), b, m) <=> Holds(q, b, m) \/ e = m
  BY <1>1, <1>2, <1>3 DEF Holds
<1>5. Once(q, b, m) /\ (e # m \/ ~Holds(q, b, m)) => Once(Append(q, e), b, m)
  BY <1>1, <1>2, <1>3 DEF Once, Holds
<1>6. ASSUME NEW n, m # n, Ahead(q, b, m, n), e # m \/ ~Holds(q, b, n)
      PROVE  Ahead(Append(q, e), b, m, n)
  BY <1>1, <1>2, <1>3, <1>6 DEF Ahead, Holds
<1>7. ASSUME NEW n, Ahead(Append(q, e), b, m, n)
      PROVE  /\ Ahead(q, b, m, n)
             /\ m # n /\ e = m => ~Holds(q, b, n)
  <2>1. Ahead(q, b, m, n)
    BY <1>1, <1>3, <1>7 DEF Ahead
  <2>2. ASSUME m # n, e = m, NEW i \in 1..Len(q), q[i] = n
        PROVE  FALSE
    <3>1. Len(q) + 1 < i
      BY <1>1, <1>3, <1>7, <2>2 DEF Ahead
    <3> QED BY <1>1, <3>1
  <2>3. e = m => b # n
    BY <1>1, <1>3, <1>7 DEF Ahead
  <2> QED BY <2>1, <2>2, <2>3 DEF Holds
<1> QED BY <1>4, <1>5, <1>6, <1>7

\* What is in order after something was sent was in order before.
LEMMA SendKeepsOrder ==
  ASSUME NEW S, NEW q \in Seq(S), NEW e \in S, NEW b, NEW m, NEW n,
         Ahead(Append(q, e), b, m, n)
  PROVE  Ahead(q, b, m, n)
BY ZenonT(30), QueueSend

\* A thread that is done with the message in its buffer: nothing else moves.
LEMMA QueueDone ==
  ASSUME NEW q, NEW b, NEW b2, NEW m, b2 # m
  PROVE  /\ Holds(q, b2, m) => Holds(q, b, m)
         /\ b # m => (Holds(q, b2, m) <=> Holds(q, b, m))
         /\ Once(q, b, m) => Once(q, b2, m) /\ (b = m => ~Holds(q, b2, m))
         /\ \A n : b2 # n => /\ Ahead(q, b, m, n) => Ahead(q, b2, m, n)
                             /\ b # n /\ Ahead(q, b2, m, n) => Ahead(q, b, m, n)
BY DEF Holds, Once, Ahead

\* The two queues of PacerMonitor in these terms.
LEMMA QueueForms ==
  /\ \A m : InFlight(m) <=> Holds(monitor_mq, mon_buf, m)
  /\ \A c \in Clients : FinishedOnce(c) <=> Once(monitor_mq, mon_buf, Finished(c))
BY DEF InFlight, Holds, FinishedOnce, Once

-----------------------------------------------------------------------------
(* The gate.                                                               *)

First(c)  == [pid |-> c, nth |-> 1]
Second(c) == [pid |-> c, nth |-> 2]

\* A client sends each of its two messages to the gate once, in that order;
\* the gate knows it from the first one until the second one.
GateLife(c) ==
  /\ pc[c] = "start" => ~GateHolds(c, 1) /\ c \notin registered
  /\ GateHolds(c, 2) => pc[c] = "closed"
  /\ GateHolds(c, 1) => c \notin registered
  /\ pc[c] # "start" /\ (pc[c] = "closed" => GateHolds(c, 2)) =>
       c \in registered \/ GateHolds(c, 1)
  /\ Once(gate_mq, gate_buf, First(c)) /\ Once(gate_mq, gate_buf, Second(c))
  /\ Ahead(gate_mq, gate_buf, First(c), Second(c))

\* While the gate spins in shmget its buffer has a first message.
GateInv == /\ \A c \in Clients : GateLife(c)
           /\ gate_pc = "open" => gate_buf.nth = 1

\* No two of the messages to the gate are the same.
LEMMA GateMessages ==
  /\ \A c, d \in Clients : /\ First(c) # Second(d)
                           /\ c # d => First(c) # First(d) /\ Second(c) # Second(d)
  /\ \A c \in Clients :
       /\ First(c) # NoPid /\ Second(c) # NoPid
       /\ First(c) \in Registrations /\ Second(c) \in Registrations
       /\ First(c).pid = c /\ Second(c).pid = c /\ First(c).nth = 1 /\ Second(c).nth = 2
  /\ \A r \in Registrations :
       r.pid \in Clients /\ (r = First(r.pid) \/ r = Second(r.pid))
BY DEF First, Second, NoPid, Registrations

\* GateHolds in the terms of a buffer with its queue.
LEMMA GateForms ==
  ASSUME NEW c \in Clients
  PROVE  /\ GateHolds(c, 1) <=> Holds(gate_mq, gate_buf, First(c))
         /\ GateHolds(c, 2) <=> Holds(gate_mq, gate_buf, Second(c))
         /\ GateHolds(c, 1)' <=> Holds(gate_mq', gate_buf', First(c))
         /\ GateHolds(c, 2)' <=> Holds(gate_mq', gate_buf', Second(c))
BY DEF GateHolds, Holds, First, Second

\* A pid in the gate thread's buffer is the text of one of the two messages.
LEMMA GateBuffer ==
  ASSUME TypeOK, NEW c \in Clients, gate_buf.pid = c
  PROVE  gate_buf = First(c) \/ gate_buf = Second(c)
BY GateMessages, ClientsAssumption DEF TypeOK, NoPid

\* A step that leaves the gate alone and neither starts nor closes a client.
LEMMA GateQuiet ==
  ASSUME GateInv, UNCHANGED <<gate_mq, gate_buf, gate_pc, registered>>,
         \A c \in Clients : /\ pc'[c] = "start" <=> pc[c] = "start"
                            /\ pc'[c] = "closed" <=> pc[c] = "closed"
  PROVE  GateInv'
BY DEF GateInv, GateLife, GateHolds, Once, Ahead

\* A message of a client to the gate: the first when it starts, the second
\* when it leaves.
LEMMA GateSends ==
  ASSUME TypeOK, GateInv, NEW c \in Clients, Register(c) \/ Close(c)
  PROVE  GateInv'
<1> DEFINE e == IF pc[c] = "start" THEN First(c) ELSE Second(c)
<1>1. /\ gate_mq \in Seq(Registrations) /\ e \in Registrations
      /\ gate_mq' = Append(gate_mq, e) /\ UNCHANGED <<gate_buf, gate_pc, registered>>
  BY DEF Register, Close, Become, SendGate, First, Second, TypeOK, Registrations
<1>2. /\ \A d \in Clients \ {c} : pc'[d] = pc[d]
      /\ pc[c] = "start" => pc'[c] = "idle"
      /\ pc[c] # "start" => pc[c] = "idle" /\ pc'[c] = "closed"
  BY DEF Register, Close, Become, TypeOK
<1>3. /\ ~GateHolds(c, 2)
      /\ pc[c] = "start" => ~GateHolds(c, 1)
  BY <1>2 DEF GateInv, GateLife
<1> HIDE DEF e
<1>4. ASSUME NEW d \in Clients
      PROVE  /\ GateHolds(d, 1)' <=> GateHolds(d, 1) \/ e = First(d)
             /\ GateHolds(d, 2)' <=> GateHolds(d, 2) \/ e = Second(d)
             /\ e # First(d) \/ ~GateHolds(d, 1) =>
                  Once(gate_mq', gate_buf', First(d))
             /\ e # Second(d) \/ ~GateHolds(d, 2) =>
                  Once(gate_mq', gate_buf', Second(d))
             /\ e # First(d) \/ ~GateHolds(d, 2) =>
                  Ahead(gate_mq', gate_buf', First(d), Second(d))
  <2>1. /\ Once(gate_mq, gate_buf, First(d)) /\ Once(gate_mq, gate_buf, Second(d))
        /\ Ahead(gate_mq, gate_buf, First(d), Second(d)) /\ First(d) # Second(d)
    BY GateMessages DEF GateInv, GateLife
  <2> QED BY <1>1, <2>1, GateForms, QueueSend
<1>5. e = First(c) \/ e = Second(c)
  BY DEF e
<1>6. pc[c] = "start" <=> e = First(c)
  BY GateMessages DEF e
<1>7. \A d \in Clients : d # c => e # First(d) /\ e # Second(d)
  BY <1>5, GateMessages
<1> QED BY <1>1, <1>2, <1>3, <1>4, <1>5, <1>6, <1>7, GateMessages DEF GateInv, GateLife

\* Every step of the gate thread keeps each client's two messages in order:
\* it registers at the first and forgets the client at the second.
LEMMA GateKeeps ==
  ASSUME TypeOK, GateInv, Gate
  PROVE  GateInv'
<1>1. CASE GateReceive
  <2>1. /\ gate_mq \in Seq(Registrations) /\ gate_mq # <<>> /\ gate_buf = NoPid
        /\ gate_mq' = Tail(gate_mq) /\ gate_buf' = Head(gate_mq)
        /\ UNCHANGED <<gate_pc, registered, pc>>
    BY <1>1 DEF GateReceive, TypeOK, clientVars
  <2>2. ASSUME NEW d \in Clients
        PROVE  GateLife(d)'
    <3>1. /\ Once(gate_mq, gate_buf, First(d)) /\ Once(gate_mq, gate_buf, Second(d))
          /\ Ahead(gate_mq, gate_buf, First(d), Second(d)) /\ First(d) # Second(d)
          /\ gate_buf # First(d) /\ gate_buf # Second(d)
      BY <2>1, GateMessages DEF GateInv, GateLife
    <3>2. /\ GateHolds(d, 1)' <=> GateHolds(d, 1)
          /\ GateHolds(d, 2)' <=> GateHolds(d, 2)
          /\ Once(gate_mq', gate_buf', First(d)) /\ Once(gate_mq', gate_buf', Second(d))
          /\ Ahead(gate_mq', gate_buf', First(d), Second(d))
      BY <2>1, <3>1, GateForms, QueueReceive
    <3> QED BY <2>1, <3>2 DEF GateInv, GateLife
  <2>3. gate_pc # "open"
    BY <2>1 DEF GateInv, NoPid
  <2> QED BY <2>1, <2>2, <2>3 DEF GateInv
<1>2. ASSUME NEW c \in Clients, NEW opened \in BOOLEAN, GateOpen(c, opened)
      PROVE  GateInv'
  <2>1. /\ gate_buf.pid = c /\ c \notin registered
        /\ UNCHANGED <<gate_mq, gate_buf, registered, pc>>
    BY <1>2 DEF GateOpen, clientVars
  <2>2. gate_buf = First(c) \/ gate_buf = Second(c)
    BY <2>1, GateBuffer
  <2>3. gate_buf # Second(c)
    BY <2>1, GateForms, GateMessages DEF GateInv, GateLife, Ahead, Holds
  <2>4. gate_buf'.nth = 1
    BY <2>1, <2>2, <2>3, GateMessages
  <2>5. \A d \in Clients : GateLife(d)'
    BY <2>1 DEF GateInv, GateLife, GateHolds, Once, Ahead
  <2> QED BY <2>4, <2>5 DEF GateInv
<1>3. ASSUME NEW c \in Clients, GateInsert(c)
      PROVE  GateInv'
  <2>1. /\ gate_buf.pid = c /\ gate_pc = "open" /\ gate_buf' = NoPid
        /\ registered' = registered \cup {c} /\ gate_pc' = "receive"
        /\ UNCHANGED <<gate_mq, pc>>
    BY <1>3 DEF GateInsert, Inserted, clientVars
  <2>2. gate_buf = First(c)
    <3>1. gate_buf = First(c) \/ gate_buf = Second(c)
      BY <2>1, GateBuffer
    <3>2. gate_buf.nth = 1
      BY <2>1 DEF GateInv
    <3> QED BY <3>1, <3>2, GateMessages
  <2>3. ASSUME NEW d \in Clients
        PROVE  GateLife(d)'
    <3>1. /\ Once(gate_mq, gate_buf, First(d)) /\ Once(gate_mq, gate_buf, Second(d))
          /\ Ahead(gate_mq, gate_buf, First(d), Second(d))
          /\ NoPid # First(d) /\ NoPid # Second(d)
      BY GateMessages DEF GateInv, GateLife
    <3>2. /\ GateHolds(d, 1)' <=> d # c /\ GateHolds(d, 1)
          /\ GateHolds(d, 2)' <=> GateHolds(d, 2)
          /\ Once(gate_mq', gate_buf', First(d)) /\ Once(gate_mq', gate_buf', Second(d))
          /\ Ahead(gate_mq', gate_buf', First(d), Second(d))
      BY <2>1, <2>2, <3>1, GateForms, GateMessages, QueueDone
    <3>3. d = c => GateHolds(d, 1)
      BY <2>2, GateForms DEF Holds
    <3> QED BY <2>1, <3>2, <3>3 DEF GateInv, GateLife
  <2> QED BY <2>1, <2>3 DEF GateInv
<1>4. ASSUME NEW c \in Clients, GateClose(c)
      PROVE  GateInv'
  <2>1. /\ gate_buf.pid = c /\ c \in registered /\ gate_buf' = NoPid
        /\ registered' = registered \ {c} /\ gate_pc' = "receive"
        /\ UNCHANGED <<gate_mq, pc>>
    BY <1>4 DEF GateClose
  <2>2. gate_buf = Second(c)
    <3>1. gate_buf = First(c) \/ gate_buf = Second(c)
      BY <2>1, GateBuffer
    <3>2. gate_buf # First(c)
      BY <2>1, GateForms DEF GateInv, GateLife, Holds
    <3> QED BY <3>1, <3>2
  <2>3. ASSUME NEW d \in Clients
        PROVE  GateLife(d)'
    <3>1. /\ Once(gate_mq, gate_buf, First(d)) /\ Once(gate_mq, gate_buf, Second(d))
          /\ Ahead(gate_mq, gate_buf, First(d), Second(d))
          /\ NoPid # First(d) /\ NoPid # Second(d)
      BY GateMessages DEF GateInv, GateLife
    <3>2. /\ GateHolds(d, 1)' <=> GateHolds(d, 1)
          /\ GateHolds(d, 2)' <=> d # c /\ GateHolds(d, 2)
          /\ Once(gate_mq', gate_buf', First(d)) /\ Once(gate_mq', gate_buf', Second(d))
          /\ Ahead(gate_mq', gate_buf', First(d), Second(d))
      BY <2>1, <2>2, <3>1, GateForms, GateMessages, QueueDone
    <3>3. d = c => GateHolds(d, 2)
      BY <2>2, GateForms DEF Holds
    <3> QED BY <2>1, <3>2, <3>3 DEF GateInv, GateLife
  <2> QED BY <2>1, <2>3 DEF GateInv
<1> QED BY <1>1, <1>2, <1>3, <1>4 DEF Gate

\* Nothing but the gate, a first and a second message touches the gate's state.
LEMMA GateStep ==
  ASSUME TypeOK, GateInv,
         \/ Gate \/ UNCHANGED <<gate_mq, gate_buf, gate_pc, registered, pc>>
         \/ \E c \in Clients : Client(c)
  PROVE  GateInv'
<1>1. CASE UNCHANGED <<gate_mq, gate_buf, gate_pc, registered, pc>>
  BY <1>1, GateQuiet
<1>2. ASSUME NEW c \in Clients, Client(c)
      PROVE  GateInv'
  <2>1. CASE Register(c) \/ Close(c)
    BY <2>1, GateSends
  <2>2. CASE \/ CreateSegments(c) \/ Beat(c) \/ Ask(c) \/ TakeToken(c)
            \/ Finish(c) \/ Crash(c)
    <3>1. /\ UNCHANGED <<gate_mq, gate_buf, gate_pc, registered>>
          /\ \A d \in Clients : /\ pc'[d] = "start" <=> pc[d] = "start"
                                /\ pc'[d] = "closed" <=> pc[d] = "closed"
      BY <2>2 DEF CreateSegments, Beat, Ask, TakeToken, Finish, Crash, Become,
                  TypeOK, gateVars
    <3> QED BY <3>1, GateQuiet
  <2> QED BY <1>2, <2>1, <2>2 DEF Client
<1> QED BY <1>1, <1>2, GateKeeps

-----------------------------------------------------------------------------
(* Requests.  OneClaimPerClient is not inductive: a request that is still  *)
(* on its way will make an entry or a message, so the invariant follows it *)
(* from Ask on.                                                            *)

\* The request of a client is in one place, and only while it waits or after
\* it died waiting; whoever the monitor has served was registered before.
RequestLife(c) ==
  /\ InFlight(Request(c)) =>
       pc[c] \in {"wait", "crashed"} /\ task_queue[c] = 0 /\ reply[c] = 0
  /\ Once(monitor_mq, mon_buf, Request(c))
  /\ task_queue[c] + reply[c] <= 1
  /\ task_queue[c] + reply[c] = 1 => pc[c] \in {"wait", "crashed"}
  /\ Claims(c) \/ task_queue[c] > 0 => pc[c] # "start" /\ ~GateHolds(c, 1)

RequestInv == \A c \in Clients : RequestLife(c)

ClaimInv == ExclusionInv /\ GateInv /\ RequestInv

\* What serving a request does, whatever it does to rates and times.
ServesRequest(c) ==
  /\ Known(c) /\ Handles(Request(c))
  /\ client' \in [Clients -> ClientRecords]
  /\ \A d \in Clients : client'[d].qd = client[d].qd
  /\ \/ busy = 0 /\ (Grant(c) \/ GrantFails(c)) /\ UNCHANGED task_queue
     \/ /\ busy # 0
        /\ task_queue' = [task_queue EXCEPT ![c] = @ + 1]
        /\ UNCHANGED <<busy, reply>>

\* What serving a "finished" does when the next client is one of the waiters.
ServesFinished(c) ==
  /\ Known(c) /\ Handles(Finished(c))
  /\ \/ Release
     \/ busy # 0 /\ \E p \in Waiting : Handoff(p) \/ HandoffFails(p)
  /\ UNCHANGED client

\* A step of the system whose handoffs go to waiters: every step of the daemon
\* while the scan finds somebody, and every step of the other monitor.
Orderly ==
  \/ Gate \/ Tick \/ MonitorReceive \/ UNCHANGED vars
  \/ \E c \in Clients : \/ Client(c) \/ DropUnknown(c)
                        \/ ServesRequest(c) \/ ServesFinished(c)

\* No two of the messages to the monitor are the same.
LEMMA MonitorMessages ==
  /\ \A c \in Clients :
       /\ Request(c) \in Requests /\ Finished(c) \in Requests
       /\ Request(c) # NoMessage /\ Finished(c) # NoMessage
  /\ \A c, d \in Clients :
       /\ Request(c) # Finished(d)
       /\ c # d => Request(c) # Request(d) /\ Finished(c) # Finished(d)
BY ClientsAssumption DEF Request, Finished, Requests, NoMessage

\* InFlight in the terms of a buffer with its queue, before and after a step.
LEMMA FlightForms ==
  ASSUME NEW m
  PROVE  /\ InFlight(m) <=> Holds(monitor_mq, mon_buf, m)
         /\ InFlight(m)' <=> Holds(monitor_mq', mon_buf', m)
BY DEF InFlight, Holds

\* What a step does to requests on their way: receiving moves them, sending
\* adds one, a handler takes away the one it handles.
LEMMA ReceiveRequests ==
  ASSUME TypeOK, MonitorReceive, NEW c \in Clients, Once(monitor_mq, mon_buf, Request(c))
  PROVE  /\ InFlight(Request(c))' <=> InFlight(Request(c))
         /\ InFlight(Finished(c))' <=> InFlight(Finished(c))
         /\ Once(monitor_mq', mon_buf', Request(c))
<1>1. /\ monitor_mq \in Seq(Requests) /\ monitor_mq # <<>> /\ mon_buf = NoMessage
      /\ monitor_mq' = Tail(monitor_mq) /\ mon_buf' = Head(monitor_mq)
  BY DEF MonitorReceive, TypeOK
<1>2. mon_buf # Request(c) /\ mon_buf # Finished(c)
  BY <1>1, MonitorMessages
<1> QED BY <1>1, <1>2, FlightForms, QueueReceive

\* What a client's message adds to those under way (monitor.cpp:260).
LEMMA SendRequests ==
  ASSUME TypeOK, NEW e \in Requests, SendMonitor(e), UNCHANGED mon_buf,
         NEW c \in Clients, Once(monitor_mq, mon_buf, Request(c))
  PROVE  /\ InFlight(Request(c))' <=> InFlight(Request(c)) \/ e = Request(c)
         /\ InFlight(Finished(c))' <=> InFlight(Finished(c)) \/ e = Finished(c)
         /\ e # Request(c) \/ ~InFlight(Request(c)) =>
              Once(monitor_mq', mon_buf', Request(c))
<1>1. monitor_mq \in Seq(Requests) /\ monitor_mq' = Append(monitor_mq, e)
  BY DEF SendMonitor, TypeOK
<1> QED BY <1>1, FlightForms, QueueSend

\* What the monitor takes from them when it has handled one.
LEMMA HandleRequests ==
  ASSUME NEW m, Handles(m), NEW c \in Clients, Once(monitor_mq, mon_buf, Request(c))
  PROVE  /\ InFlight(Request(c))' => InFlight(Request(c)) /\ m # Request(c)
         /\ InFlight(Finished(c))' => InFlight(Finished(c))
         /\ Once(monitor_mq', mon_buf', Request(c))
<1>1. mon_buf = m /\ mon_buf' = NoMessage /\ monitor_mq' = monitor_mq
  BY DEF Handles
<1> QED BY <1>1, MonitorMessages, FlightForms, QueueDone

\* A step that leaves messages to and from the monitor alone.
LEMMA RequestQuiet ==
  ASSUME RequestInv, UNCHANGED <<monitor_mq, mon_buf, task_queue, reply>>,
         \A c \in Clients :
           /\ pc[c] \in {"wait", "crashed"} => pc'[c] \in {"wait", "crashed"}
           /\ pc[c] # "start" => pc'[c] # "start"
           /\ pc'[c] = "run" => pc[c] = "run"
           /\ GateHolds(c, 1)' => GateHolds(c, 1) \/ pc[c] = "start"
  PROVE  RequestInv'
<1> SUFFICES ASSUME NEW c \in Clients
             PROVE  RequestLife(c)'
  BY DEF RequestInv
<1>1. RequestLife(c)
  BY DEF RequestInv
<1>2. /\ InFlight(Request(c))' <=> InFlight(Request(c))
      /\ InFlight(Finished(c))' <=> InFlight(Finished(c))
      /\ Once(monitor_mq, mon_buf, Request(c))' <=> Once(monitor_mq, mon_buf, Request(c))
  BY DEF InFlight, Once
<1>3. Claims(c)' => Claims(c)
  BY <1>2 DEF Claims
<1> QED BY <1>1, <1>2, <1>3 DEF RequestLife

\* A client asks only when it has no request anywhere, and takes a message
\* only when it has no other.
LEMMA ClientRequests ==
  ASSUME ClaimInv, NEW c \in Clients, Client(c)
  PROVE  RequestInv'
<1> USE DEF ClaimInv, ExclusionInv
<1>0. \A d \in Clients : RequestLife(d) /\ GateLife(d)
  BY DEF RequestInv, GateInv
<1>1. CASE Register(c) \/ CreateSegments(c) \/ Beat(c) \/ Close(c) \/ Crash(c)
  <2>1. UNCHANGED <<monitor_mq, mon_buf, task_queue, reply>>
    BY <1>1 DEF Register, CreateSegments, Beat, Close, Crash
  <2>2. \A d \in Clients :
          /\ pc[d] \in {"wait", "crashed"} => pc'[d] \in {"wait", "crashed"}
          /\ pc[d] # "start" => pc'[d] # "start"
          /\ pc'[d] = "run" => pc[d] = "run"
    BY <1>1 DEF Register, CreateSegments, Beat, Close, Crash, Become, TypeOK
  <2>3. ASSUME NEW d \in Clients, GateHolds(d, 1)'
        PROVE  GateHolds(d, 1) \/ pc[d] = "start"
    <3>1. CASE CreateSegments(c) \/ Beat(c) \/ Crash(c)
      BY <2>3, <3>1 DEF CreateSegments, Beat, Crash, gateVars, GateHolds
    <3>2. ASSUME NEW n \in {1, 2}, SendGate(c, n), gate_buf' = gate_buf,
                 n = 1 => pc[c] = "start"
          PROVE  GateHolds(d, 1) \/ pc[d] = "start"
      <4> DEFINE e == [pid |-> c, nth |-> n]
      <4>1. /\ gate_mq \in Seq(Registrations) /\ e \in Registrations
            /\ gate_mq' = Append(gate_mq, e)
        BY <3>2 DEF SendGate, Registrations, TypeOK
      <4>2. e = First(d) => c = d /\ n = 1
        BY DEF First
      <4> HIDE DEF e
      <4>3. GateHolds(d, 1) \/ e = First(d)
        BY <2>3, <3>2, <4>1, GateForms, QueueSend
      <4> QED BY <3>2, <4>2, <4>3
    <3>3. CASE Register(c)
      BY <3>2, <3>3 DEF Register, Become
    <3>4. CASE Close(c)
      BY <3>2, <3>4 DEF Close
    <3> QED BY <1>1, <3>1, <3>3, <3>4
  <2> QED BY <2>1, <2>2, <2>3, RequestQuiet
<1>2. CASE Ask(c)
  <2>1. /\ SendMonitor(Request(c)) /\ Request(c) \in Requests
        /\ UNCHANGED <<mon_buf, gate_mq, gate_buf, task_queue, reply>>
    BY <1>2, MonitorMessages DEF Ask, gateVars
  <2>2. /\ pc[c] = "beat" /\ pc'[c] = "wait"
        /\ \A d \in Clients \ {c} : pc'[d] = pc[d]
    BY <1>2 DEF Ask, Become, TypeOK
  <2>3. ~InFlight(Request(c)) /\ task_queue[c] = 0 /\ reply[c] = 0
    <3>1. task_queue[c] \in Nat /\ reply[c] \in Nat
      BY DEF TypeOK
    <3> QED BY <1>0, <2>2, <3>1 DEF RequestLife
  <2>4. ASSUME NEW d \in Clients
        PROVE  /\ InFlight(Request(d))' <=> InFlight(Request(d)) \/ d = c
               /\ InFlight(Finished(d))' <=> InFlight(Finished(d))
               /\ Once(monitor_mq', mon_buf', Request(d))
    BY <1>0, <2>1, <2>3, MonitorMessages, SendRequests DEF RequestLife
  <2>5. \A d \in Clients : GateHolds(d, 1)' <=> GateHolds(d, 1)
    BY <2>1 DEF GateHolds
  <2>6. \A d \in Clients : Claims(d)' => Claims(d)
    BY <2>1, <2>2, <2>4 DEF Claims
  <2>7. ASSUME NEW d \in Clients
        PROVE  RequestLife(d)'
    BY <1>0, <2>1, <2>2, <2>3, <2>4, <2>5, <2>6 DEF RequestLife
  <2> QED BY <2>7 DEF RequestInv
<1>3. CASE TakeToken(c)
  <2>1. UNCHANGED <<monitor_mq, mon_buf, gate_mq, gate_buf, task_queue>>
    BY <1>3 DEF TakeToken, gateVars
  <2>2. /\ pc[c] = "wait" /\ pc'[c] = "run" /\ reply[c] > 0
        /\ reply'[c] = reply[c] - 1
        /\ \A d \in Clients \ {c} : pc'[d] = pc[d] /\ reply'[d] = reply[d]
    BY <1>3 DEF TakeToken, HasToken, Become, TypeOK
  <2>3. ~InFlight(Request(c)) /\ task_queue[c] = 0 /\ reply'[c] = 0 /\ Claims(c)
    BY <1>0, <2>2 DEF RequestLife, Claims, TypeOK
  <2>4. \A d \in Clients : /\ InFlight(Request(d))' <=> InFlight(Request(d))
                           /\ InFlight(Finished(d))' <=> InFlight(Finished(d))
                           /\ Once(monitor_mq, mon_buf, Request(d))'
                           /\ GateHolds(d, 1)' <=> GateHolds(d, 1)
    BY ZenonT(30), <1>0, <2>1 DEF InFlight, GateHolds, Once, RequestLife
  <2>5. \A d \in Clients : Claims(d)' => Claims(d)
    BY <2>2, <2>3, <2>4 DEF Claims
  <2>6. ASSUME NEW d \in Clients
        PROVE  RequestLife(d)'
    BY <1>0, <2>1, <2>2, <2>3, <2>4, <2>5 DEF RequestLife
  <2> QED BY <2>6 DEF RequestInv
<1>4. CASE Finish(c)
  <2>1. /\ SendMonitor(Finished(c)) /\ Finished(c) \in Requests
        /\ UNCHANGED <<mon_buf, gate_mq, gate_buf, task_queue, reply>>
    BY <1>4, MonitorMessages DEF Finish, gateVars
  <2>2. /\ pc[c] = "run" /\ pc'[c] = "idle"
        /\ \A d \in Clients \ {c} : pc'[d] = pc[d]
    BY <1>4 DEF Finish, Become, TypeOK
  <2>3. ~InFlight(Request(c)) /\ task_queue[c] + reply[c] # 1 /\ Claims(c)
    BY <1>0, <2>2 DEF RequestLife, Claims, TypeOK
  <2>4. ASSUME NEW d \in Clients
        PROVE  /\ InFlight(Request(d))' <=> InFlight(Request(d))
               /\ InFlight(Finished(d))' <=> InFlight(Finished(d)) \/ d = c
               /\ Once(monitor_mq', mon_buf', Request(d))
    BY <1>0, <2>1, <2>3, MonitorMessages, SendRequests DEF RequestLife
  <2>5. \A d \in Clients : GateHolds(d, 1)' <=> GateHolds(d, 1)
    BY <2>1 DEF GateHolds
  <2>6. \A d \in Clients : Claims(d)' => Claims(d)
    BY <2>1, <2>2, <2>3, <2>4 DEF Claims
  <2>7. ASSUME NEW d \in Clients
        PROVE  RequestLife(d)'
    BY <1>0, <2>1, <2>2, <2>3, <2>4, <2>5, <2>6 DEF RequestLife
  <2> QED BY <2>7 DEF RequestInv
<1> QED BY <1>1, <1>2, <1>3, <1>4 DEF Client

\* The monitor turns a request into an entry or a message, an entry into a
\* message, or drops it.
LEMMA ServedRequests ==
  ASSUME ClaimInv, NEW c \in Clients,
         DropUnknown(c) \/ ServesRequest(c) \/ ServesFinished(c)
  PROVE  RequestInv'
<1> USE DEF ClaimInv, ExclusionInv
<1>0. \A d \in Clients : RequestLife(d) /\ GateLife(d)
  BY DEF RequestInv, GateInv
<1>1. PICK m \in {Request(c), Finished(c)} : Handles(m)
  BY DEF DropUnknown, ServesRequest, ServesFinished
<1>2. /\ UNCHANGED <<gate_mq, gate_buf, pc>>
      /\ \A d \in Clients : GateHolds(d, 1)' <=> GateHolds(d, 1)
  BY <1>1 DEF Handles, gateVars, clientVars, GateHolds
<1>3. ASSUME NEW d \in Clients
      PROVE  /\ InFlight(Request(d))' => InFlight(Request(d)) /\ m # Request(d)
             /\ InFlight(Finished(d))' => InFlight(Finished(d))
             /\ Once(monitor_mq', mon_buf', Request(d))
  BY <1>0, <1>1, HandleRequests DEF RequestLife
<1>4. CASE UNCHANGED <<task_queue, reply>>
  <2>1. \A d \in Clients : Claims(d)' => Claims(d)
    BY <1>2, <1>3, <1>4 DEF Claims
  <2>2. ASSUME NEW d \in Clients
        PROVE  RequestLife(d)'
    BY <1>0, <1>2, <1>3, <1>4, <2>1 DEF RequestLife
  <2> QED BY <2>2 DEF RequestInv
<1>5. ASSUME ServesRequest(c), ~UNCHANGED <<task_queue, reply>>
      PROVE  RequestInv'
  <2>1. m = Request(c) /\ InFlight(Request(c)) /\ c \in registered
    BY <1>1, <1>5, MonitorMessages DEF ServesRequest, Handles, InFlight, Known
  <2>2. /\ pc[c] \in {"wait", "crashed"} /\ task_queue[c] = 0 /\ reply[c] = 0
        /\ ~GateHolds(c, 1)
    BY <1>0, <2>1 DEF RequestLife, GateLife
  <2>3. /\ task_queue'[c] + reply'[c] = 1
        /\ \A d \in Clients \ {c} : task_queue'[d] = task_queue[d] /\ reply'[d] = reply[d]
    BY <1>5, <2>2 DEF ServesRequest, Grant, GrantFails, Sent, SendFail, TypeOK
  <2>4. \A d \in Clients \ {c} : Claims(d)' => Claims(d)
    BY <1>2, <1>3, <2>3 DEF Claims
  <2>5. ASSUME NEW d \in Clients
        PROVE  RequestLife(d)'
    <3>1. CASE d = c
      BY <1>2, <1>3, <2>1, <2>2, <2>3, <3>1 DEF RequestLife
    <3>2. CASE d # c
      BY <1>0, <1>2, <1>3, <2>3, <2>4, <3>2 DEF RequestLife
    <3> QED BY <3>1, <3>2
  <2> QED BY <2>5 DEF RequestInv
<1>6. ASSUME NEW p \in Waiting, Handoff(p)
      PROVE  RequestInv'
  <2>1. /\ p \in Clients /\ task_queue[p] = 1 /\ reply[p] = 0
        /\ ~InFlight(Request(p))
    BY <1>0, <1>6 DEF Waiting, RequestLife, TypeOK
  <2>2. /\ task_queue'[p] = 0 /\ reply'[p] = 1
        /\ \A d \in Clients \ {p} : task_queue'[d] = task_queue[d] /\ reply'[d] = reply[d]
    BY <1>6, <2>1 DEF Handoff, Sent, TypeOK
  <2>3. \A d \in Clients \ {p} : Claims(d)' => Claims(d)
    BY <1>2, <1>3, <2>2 DEF Claims
  <2>4. ASSUME NEW d \in Clients
        PROVE  RequestLife(d)'
    <3>1. CASE d = p
      BY <1>0, <1>2, <1>3, <2>1, <2>2, <3>1 DEF RequestLife
    <3>2. CASE d # p
      BY <1>0, <1>2, <1>3, <2>2, <2>3, <3>2 DEF RequestLife
    <3> QED BY <3>1, <3>2
  <2> QED BY <2>4 DEF RequestInv
<1>7. ~UNCHANGED <<task_queue, reply>> =>
        ServesRequest(c) \/ \E p \in Waiting : Handoff(p)
  BY DEF DropUnknown, ServesFinished, Release, HandoffFails, SendFail
<1> QED BY <1>4, <1>5, <1>6, <1>7

\* Serving a message keeps the types.
LEMMA ServedType ==
  ASSUME TypeOK, NEW c \in Clients, ServesRequest(c) \/ ServesFinished(c)
  PROVE  TypeOK'
<1> DEFINE Fine == /\ busy' \in Clients \cup {0} /\ reply' \in [Clients -> Nat]
                   /\ task_queue' \in [Clients -> Nat]
<1>1. /\ busy \in Clients \cup {0} /\ reply \in [Clients -> Nat]
      /\ task_queue \in [Clients -> Nat] /\ client \in [Clients -> ClientRecords]
  BY DEF TypeOK
<1>2. ASSUME NEW p \in Clients, Grant(p) \/ GrantFails(p), task_queue' = task_queue
      PROVE  Fine
  BY <1>1, <1>2 DEF Grant, GrantFails, Sent, SendFail
<1>3. ASSUME task_queue' = [task_queue EXCEPT ![c] = @ + 1], UNCHANGED <<busy, reply>>
      PROVE  Fine
  BY <1>1, <1>3
<1>4. ASSUME NEW p \in Clients, Handoff(p)
      PROVE  Fine
  BY <1>1, <1>4 DEF Handoff, Sent
<1>5. ASSUME NEW p \in Clients, HandoffFails(p)
      PROVE  Fine
  BY <1>1, <1>5 DEF HandoffFails, SendFail
<1>6. ASSUME Release PROVE Fine
  BY <1>1, <1>6 DEF Release
<1>7. CASE ServesRequest(c)
  <2>1. Fine
    BY <1>2, <1>3, <1>7 DEF ServesRequest
  <2>2. /\ client' \in [Clients -> ClientRecords] /\ mon_buf' = NoMessage
        /\ UNCHANGED <<monitor_mq, gateVars, registered, clientVars, now>>
    BY <1>7 DEF ServesRequest, Handles
  <2> QED BY <2>1, <2>2 DEF TypeOK, gateVars, clientVars
<1>8. CASE ServesFinished(c)
  <2>1. Fine
    BY <1>4, <1>5, <1>6, <1>8 DEF ServesFinished, Waiting
  <2>2. /\ client' = client /\ mon_buf' = NoMessage
        /\ UNCHANGED <<monitor_mq, gateVars, registered, clientVars, now>>
    BY <1>8 DEF ServesFinished, Handles
  <2> QED BY <2>1, <2>2 DEF TypeOK, gateVars, clientVars
<1> QED BY <1>7, <1>8

\* Every step keeps each request in one place, and each claim too.
LEMMA OrderlyKeeps == ClaimInv /\ Orderly => ClaimInv'
<1> SUFFICES ASSUME ClaimInv, Orderly PROVE ClaimInv'
  OBVIOUS
<1> USE DEF ClaimInv, ExclusionInv
<1>1. ASSUME NEW c \in Clients, Client(c)
      PROVE  ClaimInv'
  BY <1>1, ClientType, ClientKeepsClaims, GateStep, ClientRequests
<1>2. CASE Gate \/ Tick \/ UNCHANGED vars
  <2>1. TypeOK'
    BY <1>2, GateType DEF Tick, vars, TypeOK, gateVars, clientVars
  <2>2. /\ UNCHANGED <<monitor_mq, mon_buf, task_queue, busy, reply, pc>>
        /\ Gate \/ UNCHANGED <<gate_mq, gate_buf, gate_pc, registered, pc>>
    BY <1>2 DEF Gate, GateReceive, GateOpen, GateInsert, GateClose, Tick, vars,
                clientVars, gateVars
  <2>3. ExclusiveClaim' /\ GateInv'
    BY <2>2, QuietClaims, GateStep
  <2>4. \A d \in Clients : GateHolds(d, 1)' => GateHolds(d, 1)
    <3>1. CASE GateReceive
      <4>1. /\ gate_mq \in Seq(Registrations) /\ gate_mq # <<>> /\ gate_buf = NoPid
            /\ gate_mq' = Tail(gate_mq) /\ gate_buf' = Head(gate_mq)
        BY <3>1 DEF GateReceive, TypeOK
      <4> QED BY <4>1, GateForms, GateMessages, QueueReceive
    <3>2. CASE gate_mq' = gate_mq /\ (gate_buf' = gate_buf \/ gate_buf' = NoPid)
      BY <3>2, GateForms, GateMessages, QueueDone
    <3> QED BY <1>2, <3>1, <3>2
         DEF Gate, GateOpen, GateInsert, GateClose, Tick, vars, gateVars
  <2>5. RequestInv'
    BY <2>2, <2>4, RequestQuiet
  <2> QED BY <2>1, <2>3, <2>5
<1>3. CASE MonitorReceive
  <2>1. UNCHANGED <<gateVars, registered, task_queue, busy, reply, pc>>
    BY <1>3 DEF MonitorReceive, clientVars
  <2>2. TypeOK' /\ ExclusiveClaim' /\ GateInv'
    BY <1>3, <2>1, MonitorType, MonitorKeepsClaims, GateStep DEF Monitor, gateVars
  <2>3. ASSUME NEW d \in Clients
        PROVE  RequestLife(d)'
    <3>1. /\ InFlight(Request(d))' <=> InFlight(Request(d))
          /\ InFlight(Finished(d))' <=> InFlight(Finished(d))
          /\ Once(monitor_mq', mon_buf', Request(d))
      BY <1>3, ReceiveRequests DEF RequestInv, RequestLife
    <3>2. GateHolds(d, 1)' <=> GateHolds(d, 1)
      BY <2>1 DEF GateHolds, gateVars
    <3>3. Claims(d)' => Claims(d)
      BY <2>1, <3>1 DEF Claims
    <3> QED BY <2>1, <3>1, <3>2, <3>3 DEF RequestInv, RequestLife
  <2> QED BY <2>2, <2>3 DEF RequestInv
<1>4. ASSUME NEW c \in Clients,
             DropUnknown(c) \/ ServesRequest(c) \/ ServesFinished(c)
      PROVE  ClaimInv'
  <2>1. RequestInv'
    BY <1>4, ServedRequests
  <2>2. UNCHANGED <<gate_mq, gate_buf, gate_pc, registered, pc>>
    BY <1>4 DEF DropUnknown, ServesRequest, ServesFinished, Handles, gateVars, clientVars
  <2>3. GateInv'
    BY <2>2, GateStep
  <2>4. CASE DropUnknown(c)
    BY <2>1, <2>3, <2>4, MonitorType, MonitorKeepsClaims DEF Monitor
  <2>5. CASE ServesRequest(c) \/ ServesFinished(c)
    <3>1. ExclusiveClaim'
      BY <2>5, RequestClaims, FinishedClaims
         DEF ServesRequest, GrantFails, SendFail, ServesFinished, Handoff, Waiting
    <3>2. TypeOK'
      BY <2>5, ServedType
    <3> QED BY <2>1, <2>3, <3>1, <3>2
  <2> QED BY <1>4, <2>4, <2>5
<1> QED BY <1>1, <1>2, <1>3, <1>4 DEF Orderly

\* Nobody is there at the start.
LEMMA InitClaims == Init => ClaimInv
<1> SUFFICES ASSUME Init PROVE ClaimInv
  OBVIOUS
<1>1. /\ monitor_mq = <<>> /\ gate_mq = <<>> /\ mon_buf = NoMessage /\ gate_buf = NoPid
      /\ registered = {} /\ gate_pc = "receive"
      /\ \A c \in Clients : pc[c] = "start" /\ task_queue[c] = 0 /\ reply[c] = 0
  BY DEF Init
<1>2. \A c \in Clients : ~InFlight(Request(c)) /\ ~InFlight(Finished(c))
  BY <1>1, MonitorMessages DEF InFlight
<1>3. \A c \in Clients : ~GateHolds(c, 1) /\ ~GateHolds(c, 2)
  BY <1>1, GateForms, GateMessages DEF Holds
<1>4. \A m, n : Once(<<>>, NoMessage, m) /\ Once(<<>>, NoPid, m)
              /\ Ahead(<<>>, NoPid, m, n)
  BY DEF Once, Ahead
<1>5. ExclusionInv
  BY InitType, <1>1, <1>2, <1>4, QueueForms DEF ExclusionInv, ExclusiveClaim, Claims
<1>6. GateInv
  BY <1>1, <1>3, <1>4 DEF GateInv, GateLife
<1>7. RequestInv
  BY <1>1, <1>2, <1>3, <1>4 DEF RequestInv, RequestLife, Claims
<1> QED BY <1>5, <1>6, <1>7 DEF ClaimInv

\* What the inductive invariant says about entries, claims and dropped
\* messages.
LEMMA ClaimFacts ==
  ASSUME ClaimInv
  PROVE  NoDanglingWaiter /\ OneClaimPerClient /\ UnknownMeansOvertaken
<1> USE DEF ClaimInv, ExclusionInv
<1>0. \A c \in Clients : /\ RequestLife(c) /\ GateLife(c)
                         /\ task_queue[c] \in Nat /\ reply[c] \in Nat
  BY DEF RequestInv, GateInv, TypeOK
<1>1. OneClaimPerClient
  BY <1>0 DEF OneClaimPerClient, RequestLife
<1>2. ASSUME NEW c \in Waiting
      PROVE  c \in registered
  <2>1. c \in Clients /\ pc[c] \in {"wait", "crashed"} /\ ~GateHolds(c, 1)
    BY <1>0, <1>2 DEF RequestLife, Waiting
  <2> QED BY <1>0, <2>1 DEF GateLife
<1>3. ASSUME NEW c \in Clients \ registered, mon_buf = Request(c)
      PROVE  GateHolds(c, 1)
  BY <1>0, <1>3 DEF RequestLife, GateLife, InFlight
<1>4. ASSUME NEW c \in Clients \ registered, mon_buf = Finished(c)
      PROVE  pc[c] = "closed"
  BY <1>0, <1>4 DEF RequestLife, GateLife, InFlight, Claims
<1> QED BY <1>1, <1>2, <1>3, <1>4 DEF NoDanglingWaiter, UnknownMeansOvertaken

-----------------------------------------------------------------------------
(* The daemon's steps are orderly while the scan finds somebody.           *)

\* UpdatePriority changes no client's queue.
LEMMA UpdateKeepsQueue ==
  ASSUME client \in [Clients -> ClientRecords],
         NEW c \in Clients, NEW cur_ts, NEW rate, NEW d \in Clients
  PROVE  UpdatePriority(c, cur_ts, rate)[d].qd = client[d].qd
<1>1. client[d] \in ClientRecords /\ client[c] \in ClientRecords
  OBVIOUS
<1> QED BY <1>1 DEF UpdatePriority, ClientRecords

\* While the scan finds whom to run, every step of the daemon is one of those
\* that Orderly allows.
LEMMA MonitorIsOrderly ==
  ASSUME TypeOK, SelectionDefined, [Next]_vars
  PROVE  Orderly
<1>1. ASSUME NEW c \in Clients, HandleRequest(c)
      PROVE  ServesRequest(c)
  <2>1. PICK cur_ts \in RecordTimes(c), rate \in Rates :
          client' = UpdatePriority(c, cur_ts, rate)
    BY <1>1 DEF HandleRequest
  <2>2. cur_ts \in Int /\ rate \in Int /\ client \in [Clients -> ClientRecords]
    BY <2>1, RecordTimesType, ReadAssumption DEF TypeOK
  <2>3. client' \in [Clients -> ClientRecords]
    BY <2>1, <2>2, UpdateType
  <2>4. \A d \in Clients : client'[d].qd = client[d].qd
    BY <2>1, <2>2, UpdateKeepsQueue
  <2> QED BY <1>1, <2>3, <2>4 DEF HandleRequest, ServesRequest
<1>2. ASSUME NEW c \in Clients, HandleFinished(c)
      PROVE  ServesFinished(c)
  <2>1. Waiting # {} => \A p \in Clients : ~WildHandoff(p)
    BY DEF WildHandoff, SelectionDefined
  <2>2. \A p \in Clients : GetsToRun(p) => p \in Waiting
    BY DEF GetsToRun, Eligible
  <2> QED BY <1>2, <2>1, <2>2 DEF HandleFinished, ServesFinished
<1> QED BY <1>1, <1>2 DEF Next, Monitor, Terminated, Orderly

\* The inductive invariant of the daemon, as long as the scan finds somebody.
LEMMA ClaimsKept == Spec /\ []SelectionDefined => []ClaimInv
<1>1. Init => ClaimInv
  BY InitClaims
<1>2. ClaimInv /\ SelectionDefined /\ [Next]_vars => ClaimInv'
  BY MonitorIsOrderly, OrderlyKeeps DEF ClaimInv, ExclusionInv
<1> QED BY <1>1, <1>2, PTL DEF Spec

\* The gate's erase (monitor.cpp:375) leaves no entry of clients_task_queue
\* dangling: a client that closes has no request left.
THEOREM NoEntryDangles == Spec /\ []SelectionDefined => []NoDanglingWaiter
<1>1. ClaimInv => NoDanglingWaiter
  BY ClaimFacts
<1> QED BY <1>1, ClaimsKept, PTL

\* A client has one entry or one message at most, and only while it waits or
\* after it died waiting, so erase(pid) (monitor.cpp:207) swallows nothing.
THEOREM OneClaimEach == Spec /\ []SelectionDefined => []OneClaimPerClient
<1>1. ClaimInv => OneClaimPerClient
  BY ClaimFacts
<1> QED BY <1>1, ClaimsKept, PTL

\* What "pid not found in map" (monitor.cpp:252) drops is a request that
\* overtook its registration or the "finished" of a client that has closed.
THEOREM OnlyOvertakenDropped == Spec /\ []SelectionDefined => []UnknownMeansOvertaken
<1>1. ClaimInv => UnknownMeansOvertaken
  BY ClaimFacts
<1> QED BY <1>1, ClaimsKept, PTL

\* Whoever busy names is accounted for after a step if it was before.
LEMMA HolderStep ==
  ASSUME ClaimInv, ClaimInv', Orderly, HolderAccountedFor
  PROVE  HolderAccountedFor'
<1> USE DEF ClaimInv, ExclusionInv
<1> DEFINE Accounted(h) ==
      \/ reply[h] > 0 \/ pc[h] = "run" \/ InFlight(Finished(h))
      \/ pc[h] \in {"closed", "crashed"}
<1>0. /\ NoDanglingWaiter /\ UnknownMeansOvertaken
      /\ \A c \in Clients : reply[c] \in Nat /\ task_queue[c] \in Nat
  BY ClaimFacts DEF TypeOK
<1>1. busy # 0 => busy \in Clients /\ (Accounted(busy) \/ \E w \in Waiting : ~client[w].qd)
  BY DEF HolderAccountedFor, TypeOK
<1>2. ASSUME busy' = busy, task_queue' = task_queue,
             \A w \in Waiting : client'[w].qd = client[w].qd,
             \A h \in Clients : Accounted(h) => Accounted(h)'
      PROVE  HolderAccountedFor'
  BY <1>1, <1>2 DEF HolderAccountedFor, Waiting
<1>3. ASSUME UNCHANGED <<monitor_mq, mon_buf>>, NEW h \in Clients
      PROVE  InFlight(Finished(h))' <=> InFlight(Finished(h))
  BY <1>3 DEF InFlight
<1>4. CASE Gate \/ Tick \/ UNCHANGED vars
  <2>1. /\ UNCHANGED <<monitor_mq, mon_buf, task_queue, busy, reply, pc>>
        /\ \A w \in Waiting : client'[w] = client[w]
    BY ZenonT(30), <1>0, <1>4 DEF Gate, GateReceive, GateOpen, GateInsert, GateClose, Tick, vars,
                clientVars, NoDanglingWaiter, TypeOK, Waiting
  <2> QED BY <1>2, <1>3, <2>1
<1>5. CASE MonitorReceive
  <2>1. UNCHANGED <<client, task_queue, busy, reply, pc>>
    BY <1>5 DEF MonitorReceive, clientVars
  <2>2. \A h \in Clients : InFlight(Finished(h))' <=> InFlight(Finished(h))
    BY <1>5, ReceiveRequests DEF RequestInv, RequestLife
  <2> QED BY <1>2, <2>1, <2>2
<1>6. ASSUME NEW c \in Clients, Client(c)
      PROVE  HolderAccountedFor'
  <2>1. UNCHANGED <<client, task_queue, busy>>
    BY <1>6 DEF Client, Register, CreateSegments, Beat, Ask, TakeToken, Finish,
                Close, Crash
  <2>2. CASE Register(c) \/ CreateSegments(c) \/ Beat(c) \/ Close(c) \/ Crash(c)
             \/ TakeToken(c)
    <3>1. /\ UNCHANGED <<monitor_mq, mon_buf>>
          /\ \A h \in Clients :
               /\ pc[h] = "run" => pc'[h] \in {"run", "crashed"}
               /\ pc[h] \in {"closed", "crashed"} => pc'[h] = pc[h]
               /\ reply[h] > 0 => reply'[h] > 0 \/ pc'[h] = "run"
      BY <1>0, <2>2 DEF Register, CreateSegments, Beat, Close, Crash, TakeToken, HasToken,
                  Become, TypeOK
    <3> QED BY <1>2, <1>3, <2>1, <3>1
  <2>3. CASE Ask(c) \/ Finish(c)
    <3>1. PICK e \in {Request(c), Finished(c)} :
            SendMonitor(e) /\ (pc[c] = "run" => e = Finished(c))
      BY <2>3 DEF Ask, Finish, Become
    <3>2. /\ UNCHANGED <<mon_buf, reply>> /\ e \in Requests
          /\ pc[c] \notin {"closed", "crashed"}
          /\ \A h \in Clients \ {c} : pc'[h] = pc[h]
      BY <2>3, MonitorMessages DEF Ask, Finish, Become, TypeOK
    <3>3. \A h \in Clients :
            InFlight(Finished(h))' <=> InFlight(Finished(h)) \/ e = Finished(h)
      BY <3>1, <3>2, SendRequests DEF RequestInv, RequestLife
    <3>4. \A h \in Clients : Accounted(h) => Accounted(h)'
      BY <3>1, <3>2, <3>3
    <3> QED BY <1>2, <2>1, <3>4
  <2> QED BY <1>6, <2>2, <2>3 DEF Client
<1>7. ASSUME NEW c \in Clients,
             DropUnknown(c) \/ ServesRequest(c) \/ ServesFinished(c)
      PROVE  HolderAccountedFor'
  <2>1. PICK m \in {Request(c), Finished(c)} : Handles(m)
    BY <1>7 DEF DropUnknown, ServesRequest, ServesFinished
  <2>2. mon_buf = m /\ mon_buf' = NoMessage /\ UNCHANGED <<monitor_mq, pc>>
    BY <2>1 DEF Handles, clientVars
  <2>3. \A h \in Clients : InFlight(Finished(h)) /\ m # Finished(h)
                             => InFlight(Finished(h))'
    BY <2>2, MonitorMessages, FlightForms, QueueDone
  <2>4. ASSUME m = Request(c), busy' = busy, task_queue' = task_queue,
               reply' = reply, \A w \in Clients : client'[w].qd = client[w].qd
        PROVE  HolderAccountedFor'
    BY <1>2, <2>2, <2>3, <2>4, MonitorMessages DEF Waiting
  <2>5. CASE DropUnknown(c)
    <3>1. m = Finished(c) => pc[c] = "closed"
      BY <1>0, <2>2, <2>5 DEF DropUnknown, Known, UnknownMeansOvertaken
    <3> QED BY <1>2, <2>2, <2>3, <2>5, <3>1, MonitorMessages DEF DropUnknown
  <2>6. CASE ServesRequest(c)
    <3>1. m = Request(c)
      BY <2>2, <2>6, MonitorMessages DEF ServesRequest, Handles
    <3>2. CASE busy = 0 /\ Grant(c)
      <4>1. busy' = c /\ reply'[c] > 0
        BY <1>0, <3>2 DEF Grant, Sent, TypeOK
      <4> QED BY <4>1 DEF HolderAccountedFor
    <3>3. CASE busy = 0 /\ ~Grant(c)
      BY <2>6, <3>3 DEF ServesRequest, GrantFails, HolderAccountedFor
    <3>4. CASE busy # 0
      <4>1. /\ UNCHANGED <<busy, reply>>
            /\ task_queue' = [task_queue EXCEPT ![c] = @ + 1]
            /\ \A w \in Clients : client'[w].qd = client[w].qd
        BY <2>6, <3>4 DEF ServesRequest
      <4>3. task_queue \in [Clients -> Nat]
        BY DEF TypeOK
      <4>4. \A w \in Waiting : w \in Waiting' /\ client'[w].qd = client[w].qd
        BY <4>1, <4>3 DEF Waiting
      <4>2. Accounted(busy) => Accounted(busy)'
        BY <1>1, <2>2, <2>3, <3>1, <3>4, <4>1, MonitorMessages
      <4> QED BY <1>1, <3>4, <4>1, <4>2, <4>4 DEF HolderAccountedFor
    <3> QED BY <3>2, <3>3, <3>4
  <2>7. CASE ServesFinished(c)
    <3>1. CASE Release
      BY <3>1 DEF Release, HolderAccountedFor
    <3>2. ASSUME NEW p \in Waiting, Handoff(p)
          PROVE  HolderAccountedFor'
      <4>1. busy' = p /\ reply'[p] > 0
        BY <1>0, <3>2 DEF Handoff, Sent, Waiting, TypeOK
      <4> QED BY <4>1 DEF HolderAccountedFor
    <3>3. ASSUME NEW p \in Waiting, HandoffFails(p)
          PROVE  HolderAccountedFor'
      <4>1. p \in Waiting' /\ ~client'[p].qd
        BY <2>7, <3>3 DEF HandoffFails, SendFail, ServesFinished, Waiting
      <4> QED BY <4>1 DEF HolderAccountedFor
    <3> QED BY <2>7, <3>1, <3>2, <3>3 DEF ServesFinished
  <2> QED BY <1>7, <2>5, <2>6, <2>7
<1> QED BY <1>4, <1>5, <1>6, <1>7 DEF Orderly

\* The GPU is never held for nobody (monitor.cpp:137-219) but in the ways that
\* HolderAccountedFor lists.
THEOREM HeldForSomebody == Spec /\ []SelectionDefined => []HolderAccountedFor
<1>1. Init => HolderAccountedFor
  BY DEF Init, HolderAccountedFor
<1>2. /\ ClaimInv /\ ClaimInv' /\ SelectionDefined /\ HolderAccountedFor /\ [Next]_vars
      => HolderAccountedFor'
  BY MonitorIsOrderly, HolderStep DEF ClaimInv, ExclusionInv
<1> QED BY <1>1, <1>2, ClaimsKept, PTL DEF Spec

-----------------------------------------------------------------------------
(* Refinement: what the clients see is a GpuArbiter.                       *)

Using(c)   == pc[c] = "run" \/ reply[c] > 0
Pending(c) == pc[c] = "wait" \/ task_queue[c] > 0 \/ InFlight(Request(c))

\* The two facts that decide what a client sees of the GPU.
LEMMA StatusForms ==
  ASSUME NEW c \in Clients
  PROVE  /\ Using(c) => GpuStatus(c) = "using"
         /\ ~Using(c) /\ Pending(c) => GpuStatus(c) = "asking"
         /\ ~Using(c) /\ ~Pending(c) => GpuStatus(c) = "idle"
         /\ Using(c)' => GpuStatus(c)' = "using"
         /\ ~Using(c)' /\ Pending(c)' => GpuStatus(c)' = "asking"
         /\ ~Using(c)' /\ ~Pending(c)' => GpuStatus(c)' = "idle"
BY DEF Using, Pending, GpuStatus, Waiting

\* A step that changes the status of one client in one of these ways is a step
\* of the arbiter.
LEMMA ArbiterStep ==
  ASSUME NEW c \in Clients,
         \A d \in Clients \ {c} : GpuStatus(d)' = GpuStatus(d),
         \/ GpuStatus(c)' = GpuStatus(c)
         \/ GpuStatus(c) = "idle" /\ GpuStatus(c)' = "asking"
         \/ /\ GpuStatus(c) = "asking" /\ GpuStatus(c)' = "using"
            /\ \A d \in Clients : GpuStatus(d) # "using"
         \/ GpuStatus(c) \in {"using", "asking"} /\ GpuStatus(c)' = "idle"
  PROVE  [Arbiter!Next]_[d \in Clients |-> GpuStatus(d)]
<1> DEFINE st  == [d \in Clients |-> GpuStatus(d)]
           st2 == [d \in Clients |-> GpuStatus(d)']
<1>1. st2 = [st EXCEPT ![c] = GpuStatus(c)']
  OBVIOUS
<1>2. GpuStatus(c)' = GpuStatus(c) => st2 = st
  BY <1>1
<1> QED BY <1>1, <1>2
     DEF Arbiter!Next, Arbiter!Ask, Arbiter!Grant, Arbiter!Stop, Arbiter!GiveUp

\* A step after which everybody uses or waits as before is a stutter.
LEMMA ArbiterStutter ==
  ASSUME \A d \in Clients : GpuStatus(d)' = GpuStatus(d)
  PROVE  [Arbiter!Next]_[d \in Clients |-> GpuStatus(d)]
OBVIOUS

\* A client that keeps its place, its messages and its request keeps its
\* status.
LEMMA StatusSame ==
  ASSUME NEW c \in Clients,
         pc'[c] = "run" <=> pc[c] = "run", pc'[c] = "wait" <=> pc[c] = "wait",
         reply'[c] = reply[c], task_queue'[c] = task_queue[c],
         InFlight(Request(c))' <=> InFlight(Request(c))
  PROVE  GpuStatus(c)' = GpuStatus(c)
BY DEF GpuStatus, Waiting

\* A client asks, uses and stops in the arbiter when it sends its request,
\* has the message, and sends its "finished"; it gives up when it dies.
LEMMA ClientRefines ==
  ASSUME ClaimInv, NEW c \in Clients, Client(c)
  PROVE  [Arbiter!Next]_[d \in Clients |-> GpuStatus(d)]
<1> USE DEF ClaimInv, ExclusionInv
<1>0. /\ \A d \in Clients : /\ RequestLife(d)
                            /\ task_queue[d] \in Nat /\ reply[d] \in Nat
      /\ RequestLife(c)
  BY DEF RequestInv, TypeOK
<1>1. \A d \in Clients : InFlight(Request(d))' <=>
                            InFlight(Request(d)) \/ (d = c /\ Ask(c))
  <2>1. CASE Ask(c)
    <3>1. SendMonitor(Request(c)) /\ mon_buf' = mon_buf
      BY <2>1 DEF Ask
    <3> QED BY <1>0, <2>1, <3>1, MonitorMessages, SendRequests DEF RequestLife
  <2>2. CASE Finish(c)
    <3>1. SendMonitor(Finished(c)) /\ mon_buf' = mon_buf /\ ~Ask(c)
      BY <2>2 DEF Finish, Ask, Become
    <3> QED BY <1>0, <3>1, MonitorMessages, SendRequests DEF RequestLife
  <2>3. CASE ~Ask(c) /\ ~Finish(c)
    <3>1. UNCHANGED <<monitor_mq, mon_buf>>
      BY <2>3 DEF Client, Register, CreateSegments, Beat, TakeToken, Close, Crash
    <3> QED BY <2>3, <3>1 DEF InFlight
  <2> QED BY <2>1, <2>2, <2>3
<1>2. /\ task_queue' = task_queue
      /\ \A d \in Clients \ {c} : pc'[d] = pc[d] /\ reply'[d] = reply[d]
  BY DEF Client, Register, CreateSegments, Beat, Ask, TakeToken, Finish, Close,
         Crash, Become, TypeOK
<1>3. \A d \in Clients \ {c} : GpuStatus(d)' = GpuStatus(d)
  BY <1>1, <1>2, StatusSame
<1>4. CASE Register(c) \/ CreateSegments(c) \/ Beat(c) \/ Close(c)
  <2>1. /\ pc'[c] = "run" <=> pc[c] = "run"
        /\ pc'[c] = "wait" <=> pc[c] = "wait"
        /\ reply' = reply /\ ~Ask(c)
    BY <1>4 DEF Register, CreateSegments, Beat, Close, Ask, Become, TypeOK
  <2>2. GpuStatus(c)' = GpuStatus(c)
    BY <1>1, <1>2, <2>1, StatusSame
  <2> QED BY <1>3, <2>2, ArbiterStep
<1>5. CASE Ask(c)
  <2>1. pc[c] = "beat" /\ pc'[c] = "wait" /\ reply' = reply
    BY <1>5 DEF Ask, Become, TypeOK
  <2>2. ~Using(c) /\ ~Pending(c)
    BY <1>0, <2>1 DEF Using, Pending, RequestLife
  <2>3. ~Using(c)' /\ Pending(c)'
    BY <2>1, <2>2 DEF Using, Pending
  <2> QED BY <1>3, <2>2, <2>3, StatusForms, ArbiterStep
<1>6. CASE TakeToken(c)
  <2>1. reply[c] > 0 /\ pc'[c] = "run"
    BY <1>6 DEF TakeToken, HasToken, Become, TypeOK
  <2>2. Using(c) /\ Using(c)'
    BY <2>1 DEF Using
  <2>3. GpuStatus(c)' = GpuStatus(c)
    BY <2>2, StatusForms
  <2> QED BY <1>3, <2>3, ArbiterStep
<1>7. CASE Finish(c)
  <2>1. pc[c] = "run" /\ pc'[c] = "idle" /\ reply' = reply /\ ~Ask(c)
    BY <1>7 DEF Finish, Ask, Become, TypeOK
  <2>2. Using(c) /\ reply[c] = 0 /\ task_queue[c] = 0 /\ ~InFlight(Request(c))
    BY <1>0, <2>1 DEF Using, RequestLife
  <2>3. ~Using(c)' /\ ~Pending(c)'
    BY <1>1, <1>2, <2>1, <2>2 DEF Using, Pending
  <2> QED BY <1>3, <2>2, <2>3, StatusForms, ArbiterStep
<1>8. CASE Crash(c)
  <2>1. pc[c] \in {"idle", "beat", "wait", "run"} /\ pc'[c] = "crashed"
        /\ reply' = reply /\ ~Ask(c)
    BY <1>8 DEF Crash, Ask, Become, TypeOK
  <2>2. CASE pc[c] = "run"
    <3>1. reply[c] = 0 /\ task_queue[c] = 0 /\ ~InFlight(Request(c))
      BY <1>0, <2>2 DEF RequestLife
    <3>2. Using(c) /\ ~Using(c)' /\ ~Pending(c)'
      BY <1>1, <1>2, <2>1, <2>2, <3>1 DEF Using, Pending
    <3> QED BY <1>3, <3>2, StatusForms, ArbiterStep
  <2>3. CASE pc[c] = "wait"
    <3>1. /\ Using(c)' <=> Using(c)
          /\ Pending(c)
      BY <2>1, <2>3 DEF Using, Pending
    <3>2. \/ GpuStatus(c)' = GpuStatus(c)
          \/ GpuStatus(c) = "asking" /\ GpuStatus(c)' = "idle"
      BY <3>1, StatusForms
    <3> QED BY <1>3, <3>2, ArbiterStep
  <2>4. CASE pc[c] \notin {"run", "wait"}
    <3>1. GpuStatus(c)' = GpuStatus(c)
      BY <1>1, <1>2, <2>1, <2>4, StatusSame
    <3> QED BY <1>3, <3>1, ArbiterStep
  <2> QED BY <2>2, <2>3, <2>4
<1> QED BY <1>4, <1>5, <1>6, <1>7, <1>8 DEF Client

\* The monitor grants in the arbiter when it sends a message, and that client
\* had asked while nobody used the GPU.  The request of a dead client is
\* given up when it is dropped.
LEMMA ServedRefines ==
  ASSUME ClaimInv, NEW c \in Clients,
         DropUnknown(c) \/ ServesRequest(c) \/ ServesFinished(c)
  PROVE  [Arbiter!Next]_[d \in Clients |-> GpuStatus(d)]
<1> USE DEF ClaimInv, ExclusionInv
<1>0. /\ \A d \in Clients : /\ RequestLife(d)
                            /\ task_queue[d] \in Nat /\ reply[d] \in Nat
  BY DEF RequestInv, TypeOK
<1>1. PICK m \in {Request(c), Finished(c)} : Handles(m)
  BY DEF DropUnknown, ServesRequest, ServesFinished
<1>2. mon_buf = m /\ mon_buf' = NoMessage /\ UNCHANGED <<monitor_mq, pc>>
  BY <1>1 DEF Handles, clientVars
<1>3. ASSUME NEW d \in Clients
      PROVE  InFlight(Request(d))' <=> InFlight(Request(d)) /\ m # Request(d)
  BY <1>0, <1>2, MonitorMessages, FlightForms, QueueDone DEF RequestLife
<1>4. CASE UNCHANGED <<task_queue, reply>>
  <2>1. \A d \in Clients \ {c} : GpuStatus(d)' = GpuStatus(d)
    BY <1>2, <1>3, <1>4, MonitorMessages, StatusSame
  <2>2. CASE m = Finished(c)
    <3>1. GpuStatus(c)' = GpuStatus(c)
      BY <1>2, <1>3, <1>4, <2>2, MonitorMessages, StatusSame
    <3> QED BY <2>1, <3>1, ArbiterStep
  <2>3. CASE m = Request(c)
    <3>1. InFlight(Request(c))
      BY <1>2, <2>3 DEF InFlight
    <3>2. Pending(c) /\ ~Using(c) /\ ~Using(c)'
      BY <1>0, <1>2, <1>4, <3>1 DEF RequestLife, Using, Pending
    <3>3. GpuStatus(c) = "asking" /\ GpuStatus(c)' \in {"asking", "idle"}
      BY <3>2, StatusForms
    <3> QED BY <2>1, <3>3, ArbiterStep
  <2> QED BY <2>2, <2>3
<1>5. CASE ServesRequest(c)
  <2>1. m = Request(c) /\ InFlight(Request(c))
    BY <1>2, <1>5, MonitorMessages DEF ServesRequest, Handles, InFlight
  <2>2. Pending(c) /\ ~Using(c)
    BY <1>0, <2>1 DEF RequestLife, Using, Pending
  <2>3. \A d \in Clients \ {c} : task_queue'[d] = task_queue[d] /\ reply'[d] = reply[d]
    BY <1>5 DEF ServesRequest, Grant, GrantFails, Sent, SendFail, TypeOK
  <2>4. \A d \in Clients \ {c} : GpuStatus(d)' = GpuStatus(d)
    BY <1>2, <1>3, <2>1, <2>3, MonitorMessages, StatusSame
  <2>5. CASE busy = 0 /\ Grant(c)
    <3>1. \A d \in Clients : ~Using(d)
      BY <2>5, ClientsAssumption DEF ExclusiveClaim, Claims, Using
    <3>2. Using(c)'
      BY <1>0, <2>5 DEF Grant, Sent, Using, TypeOK
    <3>3. \A d \in Clients : GpuStatus(d) # "using"
      BY <3>1, StatusForms
    <3> QED BY <2>2, <2>4, <3>2, <3>3, StatusForms, ArbiterStep
  <2>6. CASE busy # 0
    <3>1. task_queue'[c] > 0 /\ reply' = reply
      BY <1>0, <1>5, <2>6 DEF ServesRequest, TypeOK
    <3>2. ~Using(c)' /\ Pending(c)'
      BY <1>2, <2>2, <3>1 DEF Using, Pending
    <3>3. GpuStatus(c)' = GpuStatus(c)
      BY <2>2, <3>2, StatusForms
    <3> QED BY <2>4, <3>3, ArbiterStep
  <2> QED BY <1>4, <1>5, <2>5, <2>6 DEF ServesRequest, GrantFails, SendFail
<1>6. ASSUME NEW p \in Waiting, Handoff(p), ServesFinished(c)
      PROVE  [Arbiter!Next]_[d \in Clients |-> GpuStatus(d)]
  <2>1. m = Finished(c) /\ InFlight(Finished(c))
    BY <1>2, <1>6, MonitorMessages DEF ServesFinished, Handles, InFlight
  <2>2. \A d \in Clients : ~Using(d)
    BY <2>1 DEF ExclusiveClaim, Claims, Using
  <2>3. p \in Clients /\ Pending(p)
    BY <1>6 DEF Waiting, Pending
  <2>4. /\ reply'[p] > 0
        /\ \A d \in Clients \ {p} : task_queue'[d] = task_queue[d] /\ reply'[d] = reply[d]
    BY <1>0, <1>6, <2>3 DEF Handoff, Sent, TypeOK
  <2>5. \A d \in Clients \ {p} : GpuStatus(d)' = GpuStatus(d)
    BY <1>2, <1>3, <2>1, <2>4, MonitorMessages, StatusSame
  <2>6. GpuStatus(p) = "asking" /\ GpuStatus(p)' = "using"
    BY <2>2, <2>3, <2>4, StatusForms DEF Using
  <2>7. \A d \in Clients : GpuStatus(d) # "using"
    BY <2>2, StatusForms
  <2> QED BY <2>3, <2>5, <2>6, <2>7, ArbiterStep
<1>7. \/ UNCHANGED <<task_queue, reply>>
      \/ ServesRequest(c)
      \/ ServesFinished(c) /\ \E p \in Waiting : Handoff(p)
  BY DEF DropUnknown, ServesFinished, Release, HandoffFails, SendFail
<1> QED BY <1>4, <1>5, <1>6, <1>7

\* Every orderly step is one of the arbiter, or none.
LEMMA OrderlyRefines ==
  ASSUME ClaimInv, Orderly
  PROVE  [Arbiter!Next]_[d \in Clients |-> GpuStatus(d)]
<1>1. CASE Gate \/ Tick \/ UNCHANGED vars
  <2>1. UNCHANGED <<monitor_mq, mon_buf, task_queue, reply, pc>>
    BY <1>1 DEF Gate, GateReceive, GateOpen, GateInsert, GateClose, Tick, vars,
                clientVars
  <2>2. \A d \in Clients : GpuStatus(d)' = GpuStatus(d)
    BY <2>1, StatusSame DEF InFlight
  <2> QED BY <2>2, ArbiterStutter
<1>2. CASE MonitorReceive
  <2>1. UNCHANGED <<task_queue, reply, pc>>
    BY <1>2 DEF MonitorReceive, clientVars
  <2>2. \A d \in Clients : InFlight(Request(d))' <=> InFlight(Request(d))
    BY <1>2, ReceiveRequests DEF ClaimInv, ExclusionInv, RequestInv, RequestLife
  <2>3. \A d \in Clients : GpuStatus(d)' = GpuStatus(d)
    BY <2>1, <2>2, StatusSame
  <2> QED BY <2>3, ArbiterStutter
<1> QED BY <1>1, <1>2, ClientRefines, ServedRefines DEF Orderly

\* At the start nobody uses the GPU and nobody asks.
LEMMA InitRefines == Init => Arbiter!Init
<1> SUFFICES ASSUME Init PROVE Arbiter!Init
  OBVIOUS
<1>1. \A c \in Clients : ~InFlight(Request(c))
  BY MonitorMessages DEF Init, InFlight
<1>2. \A c \in Clients : ~Using(c) /\ ~Pending(c)
  BY <1>1 DEF Init, Using, Pending
<1>3. \A c \in Clients : GpuStatus(c) = "idle"
  BY <1>2, StatusForms
<1> QED BY <1>3 DEF Arbiter!Init

\* Clients see an arbiter (monitor.cpp:82-258): the GPU goes to a client that
\* asked, when nobody uses it, for every number of clients and every mode.
THEOREM DaemonIsArbiter == Spec /\ []SelectionDefined => ImplementsArbiter
<1>1. Init => Arbiter!Init
  BY InitRefines
<1>2. ClaimInv /\ SelectionDefined /\ [Next]_vars =>
        [Arbiter!Next]_[c \in Clients |-> GpuStatus(c)]
  BY MonitorIsOrderly, OrderlyRefines DEF ClaimInv, ExclusionInv
<1>3. Spec /\ []SelectionDefined => Arbiter!Init
  BY <1>1, ClaimsKept, PTL DEF Spec
<1>4. Spec /\ []SelectionDefined => [][Arbiter!Next]_[c \in Clients |-> GpuStatus(c)]
  BY <1>2, ClaimsKept, PTL DEF Spec
<1> QED BY <1>3, <1>4, PTL DEF Spec, ImplementsArbiter, Arbiter!Spec

-----------------------------------------------------------------------------
(* When the scan finds somebody.  SelectionDefined is not inductive: it    *)
(* says nothing of the times that the next update will divide by.  The     *)
(* strengthening is that requests arrive in the order of their beats, and  *)
(* that no waiter's last time is after the beat of a request on its way.   *)

\* Requests leave in the second of their beat and the clock is not set back;
\* rates are below the start value of the scan; a word before a log is not
\* the successor of another one, nor near the time of the program.
Calm == /\ PromptSends /\ ~ClockStepsBack
        /\ \A r \in Rates : 0 <= r /\ r < Smallest.num
        /\ \A s, t \in StrayTimes : s # t + 1 /\ s + 1 < StartTime

\* The record that the monitor will read has been written by a beat.
Timed(c)  == hb_state[c].buffer_index # 0
TimeOf(c) == hb_state[c].timestamp

TimesOrdered ==
  /\ StartTime <= now
  /\ \A c \in Clients :
       Timed(c) => /\ StartTime <= TimeOf(c) /\ TimeOf(c) <= now
                   /\ pc[c] = "beat" => TimeOf(c) = now
  /\ \A c, d \in Clients :
       /\ c # d /\ Timed(c) /\ Timed(d)
       /\ InFlight(Request(c)) /\ InFlight(Request(d))
       /\ Ahead(monitor_mq, mon_buf, Request(c), Request(d))
       => TimeOf(c) <= TimeOf(d)

\* The waiter's last time is a stray one, or no later than any beat whose
\* request is still on its way.
TimeFits(d) ==
  \/ client[d].last_ts \in StrayTimes
  \/ /\ StartTime <= client[d].last_ts /\ client[d].last_ts <= now
     /\ \A c \in Clients :
          Timed(c) /\ InFlight(Request(c)) => client[d].last_ts <= TimeOf(c)

PriorityFits(d) ==
  client[d].priority.den > 0 /\ client[d].priority.num < Smallest.num

WaitersFit ==
  \A d \in Waiting : client[d].last_hr \in Rates /\ TimeFits(d) /\ PriorityFits(d)

TimeInv == TimesOrdered /\ WaitersFit

\* Every waiter takes part in the scan if its priority is that of a rate.
LEMMA FitsSelection ==
  ASSUME TypeOK, WaitersFit
  PROVE  SelectionDefined
<1> SUFFICES ASSUME NEW d \in Waiting
             PROVE  Below(client[d].priority, Smallest)
  BY DEF SelectionDefined, Eligible
<1>1. /\ client[d].priority.num \in Int /\ client[d].priority.den \in Int
      /\ client[d].priority.den > 0 /\ client[d].priority.num < Smallest.num
  BY DEF WaitersFit, PriorityFits, Waiting, TypeOK, ClientRecords, Priorities
<1>2. /\ client[d].priority.num * Smallest.den = client[d].priority.num
      /\ Smallest.num <= Smallest.num * client[d].priority.den
  BY <1>1, SMT DEF Smallest
<1>3. Smallest.num \in Int /\ Smallest.num * client[d].priority.den \in Int
  BY <1>1, SMT DEF Smallest
<1> QED BY <1>1, <1>2, <1>3 DEF Below

\* The update of a waiter (monitor.cpp:124) divides by a number that is not 0,
\* and what it gives is no larger than the rate.
LEMMA QuotientFits ==
  ASSUME Calm, NEW cur \in Int, NEW last \in Int, NEW hr \in Rates,
         \/ cur \in StrayTimes
         \/ StartTime <= cur,
         \/ last \in StrayTimes
         \/ StartTime <= last /\ (cur \in StrayTimes \/ last <= cur)
  PROVE  /\ Quotient(hr, Age(cur, last)).den > 0
         /\ Quotient(hr, Age(cur, last)).num < Smallest.num
<1>1. hr \in Int /\ 0 <= hr /\ hr < Smallest.num /\ StartTime \in Int
  BY BoundsAssumption, ReadAssumption DEF Calm
<1>2. Smallest.num \in Int
  BY SMT DEF Smallest
<1>3. Age(cur, last) \in Int /\ Age(cur, last) # 0
  <2>1. CASE cur \in StrayTimes /\ last \in StrayTimes
    BY <2>1 DEF Calm, Age
  <2>2. CASE cur \in StrayTimes /\ StartTime <= last
    <3>1. cur + 1 < StartTime
      BY <2>2 DEF Calm
    <3> QED BY <1>1, <2>2, <3>1 DEF Age
  <2>3. CASE StartTime <= cur /\ last \in StrayTimes
    <3>1. last + 1 < StartTime
      BY <2>3 DEF Calm
    <3> QED BY <1>1, <2>3, <3>1 DEF Age
  <2>4. CASE last <= cur
    BY <2>4 DEF Age
  <2> QED BY <2>1, <2>2, <2>3, <2>4
<1> QED BY <1>1, <1>2, <1>3 DEF Quotient

\* A step that writes no record, sends no request and updates no waiter.
LEMMA TimeQuiet ==
  ASSUME TypeOK, TimeInv,
         now' \in Int, now <= now',
         \A c \in Clients :
           /\ Timed(c)' => Timed(c) /\ TimeOf(c)' = TimeOf(c)
           /\ pc'[c] = "beat" => pc[c] = "beat" /\ now' = now
           /\ InFlight(Request(c))' => InFlight(Request(c)),
         \A c, d \in Clients :
           /\ c # d /\ InFlight(Request(c))' /\ InFlight(Request(d))'
           /\ Ahead(monitor_mq', mon_buf', Request(c), Request(d))
           => Ahead(monitor_mq, mon_buf, Request(c), Request(d))
  PROVE  /\ TimesOrdered'
         /\ (\A d \in Waiting' : d \in Waiting /\ client'[d] = client[d]) => WaitersFit'
<1>0. StartTime \in Int /\ now \in Int
  BY BoundsAssumption DEF TypeOK
<1>1. TimesOrdered'
  <2>1. (StartTime <= now)'
    BY <1>0 DEF TimeInv, TimesOrdered
  <2>2. ASSUME NEW c \in Clients, Timed(c)'
        PROVE  /\ StartTime <= TimeOf(c)' /\ TimeOf(c)' <= now'
               /\ pc'[c] = "beat" => TimeOf(c)' = now'
    <3>1. TimeOf(c) \in Int
      BY DEF TimeOf, TypeOK, SegmentStates
    <3> QED BY <1>0, <2>2, <3>1 DEF TimeInv, TimesOrdered
  <2>3. ASSUME NEW c \in Clients, NEW d \in Clients, c # d, Timed(c)', Timed(d)',
               InFlight(Request(c))', InFlight(Request(d))',
               Ahead(monitor_mq', mon_buf', Request(c), Request(d))
        PROVE  TimeOf(c)' <= TimeOf(d)'
    BY <2>3 DEF TimeInv, TimesOrdered
  <2> QED BY <2>1, <2>2, <2>3 DEF TimesOrdered
<1>2. ASSUME NEW d \in Waiting', d \in Waiting, client'[d] = client[d]
      PROVE  (client[d].last_hr \in Rates /\ TimeFits(d) /\ PriorityFits(d))'
  <2>1. client[d].last_ts \in Int
    BY <1>2 DEF Waiting, TypeOK, ClientRecords
  <2>2. TimeFits(d)'
    BY <1>0, <1>2, <2>1 DEF TimeInv, WaitersFit, TimeFits
  <2> QED BY <1>2, <2>2 DEF TimeInv, WaitersFit, PriorityFits
<1> QED BY <1>1, <1>2 DEF WaitersFit

\* What the messages on their way and the clock can do in an orderly step that
\* is no Ask and no Beat.
LEMMA QuietMessages ==
  ASSUME ClaimInv, Calm, Orderly,
         \A c \in Clients : ~Ask(c) /\ ~Beat(c)
  PROVE  /\ now' \in Int /\ now <= now'
         /\ \A c \in Clients :
              /\ Timed(c)' => Timed(c) /\ TimeOf(c)' = TimeOf(c)
              /\ pc'[c] = "beat" => pc[c] = "beat" /\ now' = now
              /\ InFlight(Request(c))' => InFlight(Request(c))
         /\ \A c, d \in Clients :
              /\ c # d /\ InFlight(Request(c))' /\ InFlight(Request(d))'
              /\ Ahead(monitor_mq', mon_buf', Request(c), Request(d))
              => Ahead(monitor_mq, mon_buf, Request(c), Request(d))
<1> USE DEF ClaimInv, ExclusionInv
<1>0. /\ TypeOK /\ now \in Int /\ monitor_mq \in Seq(Requests)
      /\ \A c \in Clients : RequestLife(c)
  BY DEF TypeOK, RequestInv
<1>1. /\ now' \in Int /\ now <= now'
      /\ now' # now => Tick
  <2>1. now' # now => Tick
    BY DEF Orderly, vars, Gate, GateReceive, GateOpen, GateInsert, GateClose,
           MonitorReceive, Client, Register, CreateSegments, TakeToken, Finish, Close,
           Crash, DropUnknown, ServesRequest, ServesFinished, Handles
  <2>2. Tick => now' = now + 1
    BY DEF Tick, Calm
  <2> QED BY <1>0, <2>1, <2>2
<1>2. ASSUME NEW c \in Clients, pc'[c] = "beat"
      PROVE  pc[c] = "beat" /\ now' = now
  <2>1. pc[c] = "beat"
    BY <1>0, <1>2 DEF Orderly, Tick, vars, Gate, GateReceive, GateOpen, GateInsert, GateClose,
         MonitorReceive, Client, Register, CreateSegments, TakeToken, Finish, Close,
         Crash, DropUnknown, ServesRequest, ServesFinished, Handles, Become, clientVars, TypeOK
  <2> QED BY <1>1, <2>1 DEF Tick, Calm
<1>3. ASSUME NEW c \in Clients, Timed(c)'
      PROVE  Timed(c) /\ TimeOf(c)' = TimeOf(c)
  <2>1. ASSUME NEW e \in Clients, NEW x \in BOOLEAN,
               hb_state' = [hb_state EXCEPT ![e] = Segments(x)]
        PROVE  hb_state'[c] = hb_state[c]
    BY <1>0, <1>3, <2>1 DEF Timed, Segments, TypeOK
  <2>2. hb_state'[c] = hb_state[c]
    BY <2>1 DEF Orderly, Tick, vars, Gate, GateReceive, GateOpen, GateInsert, GateClose,
         MonitorReceive, Client, Register, CreateSegments, TakeToken, Finish, Close,
         Crash, DropUnknown, ServesRequest, ServesFinished, Handles, clientVars
  <2> QED BY <1>3, <2>2 DEF Timed, TimeOf
<1>4. CASE UNCHANGED <<monitor_mq, mon_buf>>
  BY <1>1, <1>2, <1>3, <1>4 DEF InFlight
<1>5. CASE MonitorReceive
  <2>1. /\ monitor_mq # <<>> /\ mon_buf = NoMessage
        /\ monitor_mq' = Tail(monitor_mq) /\ mon_buf' = Head(monitor_mq)
    BY <1>5 DEF MonitorReceive
  <2>2. \A c, d \in Clients :
          c # d /\ Ahead(monitor_mq', mon_buf', Request(c), Request(d))
            => Ahead(monitor_mq, mon_buf, Request(c), Request(d))
    BY <1>0, <2>1, MonitorMessages, QueueReceive
  <2>3. \A c \in Clients : InFlight(Request(c))' => InFlight(Request(c))
    BY <1>0, <1>5, ReceiveRequests DEF RequestLife
  <2> QED BY <1>1, <1>2, <1>3, <2>2, <2>3
<1>6. ASSUME NEW e \in Clients, Finish(e)
      PROVE  \A c, d \in Clients :
               /\ InFlight(Request(c))' => InFlight(Request(c))
               /\ Ahead(monitor_mq', mon_buf', Request(c), Request(d))
                    => Ahead(monitor_mq, mon_buf, Request(c), Request(d))
  <2>1. /\ SendMonitor(Finished(e)) /\ mon_buf' = mon_buf
        /\ Finished(e) \in Requests /\ monitor_mq' = Append(monitor_mq, Finished(e))
    BY <1>6, MonitorMessages DEF Finish, SendMonitor
  <2>2. \A c \in Clients : InFlight(Request(c))' => InFlight(Request(c))
    BY <1>0, <2>1, MonitorMessages, SendRequests DEF RequestLife
  <2>3. ASSUME NEW c \in Clients, NEW d \in Clients,
               Ahead(monitor_mq', mon_buf', Request(c), Request(d))
        PROVE  Ahead(monitor_mq, mon_buf, Request(c), Request(d))
    <3>1. monitor_mq \in Seq(Requests)
      BY DEF TypeOK
    <3>2. Ahead(Append(monitor_mq, Finished(e)), mon_buf, Request(c), Request(d))
      BY <2>1, <2>3
    <3> QED BY <2>1, <3>1, <3>2, SendKeepsOrder
  <2> QED BY <2>2, <2>3
<1>7. ASSUME NEW m, Handles(m)
      PROVE  \A c, d \in Clients :
               /\ InFlight(Request(c))' => InFlight(Request(c))
               /\ InFlight(Request(d))' /\ Ahead(monitor_mq', mon_buf', Request(c), Request(d))
                    => Ahead(monitor_mq, mon_buf, Request(c), Request(d))
  <2>1. mon_buf = m /\ mon_buf' = NoMessage /\ monitor_mq' = monitor_mq
    BY <1>7 DEF Handles
  <2>2. \A c \in Clients : InFlight(Request(c))' => InFlight(Request(c)) /\ m # Request(c)
    BY <1>0, <1>7, HandleRequests DEF RequestLife
  <2> QED BY <2>1, <2>2, MonitorMessages, QueueDone
<1>8. \/ UNCHANGED <<monitor_mq, mon_buf>> \/ MonitorReceive
      \/ \E e \in Clients : Finish(e)
      \/ \E m : Handles(m)
  BY DEF Orderly, Tick, vars, Gate, GateReceive, GateOpen, GateInsert, GateClose,
         Client, Register, CreateSegments, TakeToken, Close, Crash,
         DropUnknown, ServesRequest, ServesFinished
<1> QED BY <1>1, <1>2, <1>3, <1>4, <1>5, <1>6, <1>7, <1>8

\* A beat writes the time of the clock, and its client has no request yet.
LEMMA BeatTimes ==
  ASSUME ClaimInv, TimeInv, NEW c \in Clients, Beat(c)
  PROVE  TimeInv'
<1> USE DEF ClaimInv, ExclusionInv
<1>1. /\ pc[c] = "idle" /\ pc'[c] = "beat"
      /\ hb_state' = [hb_state EXCEPT ![c] = AfterBeat(hb_state[c])]
      /\ \A d \in Clients \ {c} : pc'[d] = pc[d]
      /\ UNCHANGED <<monitor_mq, mon_buf, client, task_queue, now>>
  BY DEF Beat, Become, TypeOK
<1>2. /\ \A d \in Clients \ {c} : Timed(d)' = Timed(d) /\ TimeOf(d)' = TimeOf(d)
      /\ TimeOf(c)' = now /\ now \in Int
  BY <1>1 DEF Timed, TimeOf, AfterBeat, TypeOK
<1>3. \A d \in Clients : InFlight(Request(d))' <=> InFlight(Request(d))
  BY <1>1 DEF InFlight
<1>4. ~InFlight(Request(c))
  BY <1>1 DEF RequestInv, RequestLife
<1>5. TimesOrdered'
  <2>1. (StartTime <= now)'
    BY <1>1 DEF TimeInv, TimesOrdered
  <2>2. ASSUME NEW d \in Clients, Timed(d)'
        PROVE  /\ StartTime <= TimeOf(d)' /\ TimeOf(d)' <= now'
               /\ pc'[d] = "beat" => TimeOf(d)' = now'
    <3>1. CASE d = c
      BY <1>1, <1>2, <3>1 DEF TimeInv, TimesOrdered
    <3>2. CASE d # c
      BY <1>1, <1>2, <2>2, <3>2 DEF TimeInv, TimesOrdered
    <3> QED BY <3>1, <3>2
  <2>3. ASSUME NEW d \in Clients, NEW e \in Clients, d # e, Timed(d)', Timed(e)',
               InFlight(Request(d))', InFlight(Request(e))',
               Ahead(monitor_mq', mon_buf', Request(d), Request(e))
        PROVE  TimeOf(d)' <= TimeOf(e)'
    BY <1>1, <1>2, <1>3, <1>4, <2>3 DEF TimeInv, TimesOrdered
  <2> QED BY <2>1, <2>2, <2>3 DEF TimesOrdered
<1>6. ASSUME NEW d \in Waiting
      PROVE  (client[d].last_hr \in Rates /\ TimeFits(d) /\ PriorityFits(d))'
  <2>1. TimeFits(d)'
    BY <1>1, <1>2, <1>3, <1>4, <1>6 DEF TimeInv, WaitersFit, TimeFits
  <2> QED BY <1>1, <1>6, <2>1 DEF TimeInv, WaitersFit, PriorityFits
<1> QED BY <1>1, <1>5, <1>6 DEF TimeInv, WaitersFit, Waiting

\* A request leaves in the second of its beat, so it is the latest.
LEMMA AskTimes ==
  ASSUME ClaimInv, TimeInv, NEW c \in Clients, Ask(c)
  PROVE  TimeInv'
<1> USE DEF ClaimInv, ExclusionInv
<1>1. /\ pc[c] = "beat" /\ pc'[c] = "wait"
      /\ SendMonitor(Request(c)) /\ Request(c) \in Requests
      /\ monitor_mq' = Append(monitor_mq, Request(c)) /\ mon_buf' = mon_buf
      /\ \A d \in Clients \ {c} : pc'[d] = pc[d]
      /\ UNCHANGED <<client, task_queue, hb_state, now>>
  BY MonitorMessages DEF Ask, Become, SendMonitor, TypeOK
<1>2. /\ \A d \in Clients : /\ Timed(d)' = Timed(d) /\ TimeOf(d)' = TimeOf(d)
                           /\ TimeOf(d) \in Int
      /\ now \in Int /\ monitor_mq \in Seq(Requests)
  BY <1>1 DEF Timed, TimeOf, TypeOK, SegmentStates
<1>3. ~InFlight(Request(c))
  BY <1>1 DEF RequestInv, RequestLife
<1>4. \A d \in Clients : InFlight(Request(d))' <=> InFlight(Request(d)) \/ d = c
  BY <1>1, MonitorMessages, SendRequests DEF RequestInv, RequestLife
<1>5. Timed(c) => TimeOf(c) = now
  BY <1>1 DEF TimeInv, TimesOrdered
<1>6. TimesOrdered'
  <2>1. (StartTime <= now)'
    BY <1>1 DEF TimeInv, TimesOrdered
  <2>2. ASSUME NEW d \in Clients, Timed(d)'
        PROVE  /\ StartTime <= TimeOf(d)' /\ TimeOf(d)' <= now'
               /\ pc'[d] = "beat" => TimeOf(d)' = now'
    BY <1>1, <1>2, <2>2 DEF TimeInv, TimesOrdered
  <2>3. ASSUME NEW d \in Clients, NEW e \in Clients, d # e, Timed(d)', Timed(e)',
               InFlight(Request(d))', InFlight(Request(e))',
               Ahead(monitor_mq', mon_buf', Request(d), Request(e))
        PROVE  TimeOf(d)' <= TimeOf(e)'
    <3>1. /\ Ahead(monitor_mq, mon_buf, Request(d), Request(e))
          /\ Request(c) = Request(d) => ~InFlight(Request(e))
      BY <1>1, <1>2, <2>3, FlightForms, MonitorMessages, QueueSend
    <3>2. d # c
      BY <1>4, <2>3, <3>1
    <3>3. CASE e = c
      BY <1>2, <1>5, <2>3, <3>3 DEF TimeInv, TimesOrdered
    <3>4. CASE e # c
      BY <1>2, <1>4, <2>3, <3>1, <3>2, <3>4 DEF TimeInv, TimesOrdered
    <3> QED BY <3>3, <3>4
  <2> QED BY <2>1, <2>2, <2>3 DEF TimesOrdered
<1>7. ASSUME NEW d \in Waiting
      PROVE  (client[d].last_hr \in Rates /\ TimeFits(d) /\ PriorityFits(d))'
  <2>1. TimeFits(d)'
    BY <1>1, <1>2, <1>4, <1>5, <1>7 DEF TimeInv, WaitersFit, TimeFits
  <2> QED BY <1>1, <1>7, <2>1 DEF TimeInv, WaitersFit, PriorityFits
<1> QED BY <1>1, <1>6, <1>7 DEF TimeInv, WaitersFit, Waiting

\* The update that a request starts: the waiters' divisors are not 0, and the
\* client that asks has the time of its beat, which no later request precedes.
LEMMA RequestTimes ==
  ASSUME ClaimInv, Calm, TimeInv, NEW c \in Clients, HandleRequest(c), ServesRequest(c)
  PROVE  TimeInv'
<1> USE DEF ClaimInv, ExclusionInv
<1>1. PICK cur \in RecordTimes(c), rate \in Rates :
        client' = UpdatePriority(c, cur, rate)
  BY DEF HandleRequest
<1>2. /\ mon_buf = Request(c) /\ mon_buf' = NoMessage
      /\ UNCHANGED <<monitor_mq, hb_state, pc, now>>
  BY DEF HandleRequest, Handles, clientVars
<1>3. /\ now \in Int /\ StartTime \in Int /\ cur \in Int /\ rate \in Int
      /\ \A d \in Clients : /\ client[d] \in ClientRecords
                            /\ client[d].last_ts \in Int /\ TimeOf(d) \in Int
  <2>1. /\ now \in Int /\ client \in [Clients -> ClientRecords]
        /\ hb_state \in [Clients -> SegmentStates]
    BY DEF TypeOK
  <2>2. StartTime \in Int /\ cur \in Int /\ rate \in Int
    BY <1>1, <2>1, RecordTimesType, ReadAssumption, BoundsAssumption
  <2> QED BY <2>1, <2>2 DEF TimeOf, SegmentStates, ClientRecords
<1>4. \/ cur \in StrayTimes
      \/ Timed(c) /\ cur = TimeOf(c) /\ StartTime <= cur /\ cur <= now
  BY <1>1 DEF RecordTimes, Timed, TimeOf, TimeInv, TimesOrdered
<1>5. InFlight(Request(c)) /\ RequestLife(c)
  BY <1>2 DEF InFlight, RequestInv
<1>6. \A d \in Clients : /\ InFlight(Request(d))' => InFlight(Request(d)) /\ d # c
                         /\ Timed(d)' = Timed(d) /\ TimeOf(d)' = TimeOf(d)
  BY <1>2, HandleRequests DEF HandleRequest, RequestInv, RequestLife, Timed, TimeOf
<1>7. ASSUME NEW d \in Clients, d # c, InFlight(Request(d)), Timed(c), Timed(d)
      PROVE  TimeOf(c) <= TimeOf(d)
  <2>1. Ahead(monitor_mq, mon_buf, Request(c), Request(d))
    BY <1>2, <1>5, <1>7, MonitorMessages DEF RequestLife, Once, Ahead
  <2> QED BY <1>5, <1>7, <2>1 DEF TimeInv, TimesOrdered
<1>8. TimesOrdered'
  <2>1. Orderly /\ \A d \in Clients : ~Ask(d) /\ ~Beat(d)
    <3>1. mon_buf' # mon_buf
      BY <1>2, MonitorMessages
    <3> QED BY <3>1 DEF Orderly, Ask, Beat
  <2> QED BY <2>1, QuietMessages, TimeQuiet
<1>9. ASSUME NEW d \in Waiting'
      PROVE  (client[d].last_hr \in Rates /\ TimeFits(d) /\ PriorityFits(d))'
  <2>1. CASE d = c
    <3>1. /\ client'[c].last_hr = rate /\ client'[c].last_ts = cur
          /\ client'[c].priority = [num |-> rate, den |-> 1]
      BY <1>1, <1>3 DEF UpdatePriority, ClientRecords
    <3>2. TimeFits(c)'
      BY <1>2, <1>4, <1>6, <1>7, <3>1 DEF TimeFits
    <3>3. PriorityFits(c)'
      BY <3>1 DEF PriorityFits, Calm
    <3> QED BY <2>1, <3>1, <3>2, <3>3
  <2>2. CASE d # c
    <3>1. d \in Waiting /\ d \in Clients
      BY <1>9, <2>2 DEF ServesRequest, Waiting, TypeOK
    <3>2. d \in registered
      BY <3>1, ClaimFacts DEF NoDanglingWaiter
    <3>3. client'[d] = [client[d] EXCEPT !.priority =
                          Quotient(client[d].last_hr, Age(cur, client[d].last_ts))]
      BY <1>1, <2>2, <3>1, <3>2 DEF UpdatePriority
    <3>4. /\ client'[d].last_hr = client[d].last_hr /\ client'[d].last_ts = client[d].last_ts
          /\ client'[d].priority = Quotient(client[d].last_hr, Age(cur, client[d].last_ts))
      BY <1>3, <3>1, <3>3 DEF ClientRecords
    <3>5. client[d].last_hr \in Rates /\ TimeFits(d)
      BY <3>1 DEF TimeInv, WaitersFit
    <3>6. TimeFits(d)'
      BY <1>2, <1>6, <3>4, <3>5 DEF TimeFits
    <3>7. PriorityFits(d)'
      <4>1. \/ client[d].last_ts \in StrayTimes
            \/ /\ StartTime <= client[d].last_ts
               /\ cur \in StrayTimes \/ client[d].last_ts <= cur
        BY <1>4, <1>5, <3>5 DEF TimeFits
      <4> QED BY <1>3, <1>4, <3>1, <3>4, <3>5, <4>1, QuotientFits DEF PriorityFits
    <3> QED BY <3>4, <3>5, <3>6, <3>7
  <2> QED BY <2>1, <2>2
<1> QED BY <1>8, <1>9 DEF TimeInv, WaitersFit

\* Only a request changes what is known about a waiter or makes one.
LEMMA WaitersKept ==
  ASSUME TypeOK, NoDanglingWaiter, [Next]_vars, \A c \in Clients : ~HandleRequest(c)
  PROVE  \A d \in Waiting' : d \in Waiting /\ client'[d] = client[d]
<1>1. CASE UNCHANGED <<task_queue, client>>
  BY <1>1 DEF Waiting
<1>2. ASSUME NEW c \in Clients, NEW opened \in BOOLEAN, GateOpen(c, opened)
      PROVE  \A d \in Waiting' : d \in Waiting /\ client'[d] = client[d]
  BY <1>2 DEF GateOpen, Waiting, NoDanglingWaiter, TypeOK
<1>3. ASSUME NEW c \in Clients, HandleFinished(c)
      PROVE  \A d \in Waiting' : d \in Waiting /\ client'[d] = client[d]
  <2>1. client' = client
    BY <1>3 DEF HandleFinished
  <2>2. task_queue' = task_queue
        \/ \E p \in Clients : task_queue' = [task_queue EXCEPT ![p] = 0]
    BY <1>3 DEF HandleFinished, Release, Handoff, HandoffFails, WildHandoff
  <2>3. task_queue \in [Clients -> Nat]
    BY DEF TypeOK
  <2>4. \A d \in Clients : task_queue'[d] > 0 => task_queue[d] > 0
    BY <2>2, <2>3
  <2> QED BY <2>1, <2>4 DEF Waiting
<1>4. \/ UNCHANGED <<task_queue, client>>
      \/ \E c \in Clients, opened \in BOOLEAN : GateOpen(c, opened)
      \/ \E c \in Clients : HandleFinished(c)
  BY DEF Next, Gate, GateReceive, GateInsert, GateClose, Monitor, MonitorReceive,
         DropUnknown, Tick, Terminated, vars, Client, Register, CreateSegments,
         Beat, Ask, TakeToken, Finish, Close, Crash
<1> QED BY <1>1, <1>2, <1>3, <1>4

\* Every step keeps the times in order.
LEMMA TimeStep ==
  ASSUME ClaimInv, Calm, TimeInv, [Next]_vars
  PROVE  TimeInv'
<1>1. TypeOK /\ NoDanglingWaiter /\ Orderly
  BY ClaimFacts, FitsSelection, MonitorIsOrderly DEF ClaimInv, ExclusionInv, TimeInv
<1>2. ASSUME NEW c \in Clients, Ask(c) \/ Beat(c)
      PROVE  TimeInv'
  BY <1>2, AskTimes, BeatTimes
<1>3. ASSUME NEW c \in Clients, HandleRequest(c)
      PROVE  TimeInv'
  <2>1. ServesRequest(c)
    <3>1. mon_buf = Request(c) /\ mon_buf' = NoMessage /\ c \in registered
      BY <1>3 DEF HandleRequest, Handles, Known
    <3>2. ~Gate /\ ~Tick /\ ~MonitorReceive /\ ~UNCHANGED vars
      BY <3>1, MonitorMessages
         DEF Gate, GateReceive, GateOpen, GateInsert, GateClose, Tick, MonitorReceive, vars
    <3>3. \A d \in Clients : ~Client(d)
      BY <3>1, MonitorMessages
         DEF Client, Register, CreateSegments, Beat, Ask, TakeToken, Finish, Close, Crash
    <3>4. \A d \in Clients : /\ ~DropUnknown(d) /\ ~ServesFinished(d)
                             /\ ServesRequest(d) => d = c
      BY <3>1, MonitorMessages
         DEF DropUnknown, ServesFinished, ServesRequest, Handles, Known
    <3> QED BY <1>1, <3>2, <3>3, <3>4 DEF Orderly
  <2> QED BY <1>3, <2>1, RequestTimes
<1>4. ASSUME \A c \in Clients : ~Ask(c) /\ ~Beat(c) /\ ~HandleRequest(c)
      PROVE  TimeInv'
  <2>1. \A d \in Waiting' : d \in Waiting /\ client'[d] = client[d]
    BY <1>1, <1>4, WaitersKept
  <2> QED BY <1>1, <1>4, <2>1, QuietMessages, TimeQuiet DEF TimeInv
<1> QED BY <1>2, <1>3, <1>4

\* With requests that leave in the second of their beat and a clock that is not
\* set back, the scan (monitor.cpp:178) always finds somebody: popped_cli is
\* never used uninitialised and no waiter is passed over for a division by 0.
THEOREM ScanFindsWaiter == Calm => (Spec => []SelectionDefined)
<1> SUFFICES ASSUME Calm PROVE Spec => []SelectionDefined
  OBVIOUS
<1>1. Init => ClaimInv /\ TimeInv
  <2>1. Init => TimeInv
    <3> SUFFICES ASSUME Init PROVE TimeInv
      OBVIOUS
    <3>1. now = StartTime /\ Waiting = {} /\ \A c \in Clients : ~Timed(c)
      BY DEF Init, Waiting, Timed, Segments
    <3> QED BY <3>1, BoundsAssumption DEF TimeInv, TimesOrdered, WaitersFit
  <2> QED BY <2>1, InitClaims
<1>2. ClaimInv /\ TimeInv => SelectionDefined
  BY FitsSelection DEF ClaimInv, ExclusionInv, TimeInv
<1>3. ClaimInv /\ TimeInv /\ [Next]_vars => ClaimInv' /\ TimeInv'
  BY <1>2, TimeStep, MonitorIsOrderly, OrderlyKeeps DEF ClaimInv, ExclusionInv
<1> QED BY <1>1, <1>2, <1>3, PTL DEF Spec

-----------------------------------------------------------------------------
(* Whom the scan picks.                                                    *)

\* Of two priorities one at most is below the other, if both are.
LEMMA BelowIsStrict ==
  ASSUME NEW p \in Priorities, NEW q \in Priorities, Below(p, q)
  PROVE  ~Below(q, p)
<1>1. p.num * q.den \in Int /\ q.num * p.den \in Int
  BY DEF Priorities
<1> QED BY <1>1 DEF Below

\* The scan keeps a smallest one (monitor.cpp:178-187).
LEMMA ScanPicksSmallest ==
  ASSUME TypeOK, SelectionDefined, NEW p \in Clients, GetsToRun(p)
  PROVE  /\ p \in Waiting
         /\ \A q \in Waiting : ~Below(client[q].priority, client[p].priority)
<1>1. \A q \in Clients : client[q].priority \in Priorities
  BY DEF TypeOK, ClientRecords
<1>2. p \in Waiting /\ \A q \in Waiting : q \in Eligible /\ q \in Clients
  BY DEF GetsToRun, Eligible, SelectionDefined, Waiting
<1>3. ASSUME NEW q \in Waiting
      PROVE  ~Below(client[q].priority, client[p].priority)
  <2>1. CASE q = p
    BY <1>1, <2>1, BelowIsStrict
  <2>2. CASE q # p
    BY <1>1, <1>2, <2>2, BelowIsStrict DEF GetsToRun
  <2> QED BY <2>1, <2>2
<1> QED BY <1>2, <1>3

\* While the GPU is held and somebody waits, only a handoff sends a message.
LEMMA OnlyHandoffSends ==
  ASSUME TypeOK, SelectionDefined, [Next]_vars, busy # 0, Waiting # {},
         NEW p \in Clients, reply'[p] > reply[p] \/ task_queue'[p] < task_queue[p]
  PROVE  GetsToRun(p)
<1>1. task_queue \in [Clients -> Nat] /\ reply \in [Clients -> Nat]
  BY DEF TypeOK
<1>2. CASE UNCHANGED <<task_queue, reply>>
  BY <1>1, <1>2
<1>3. ASSUME NEW c \in Clients, TakeToken(c)
      PROVE  GetsToRun(p)
  BY <1>1, <1>3 DEF TakeToken
<1>4. ASSUME NEW c \in Clients, HandleRequest(c)
      PROVE  GetsToRun(p)
  <2>1. task_queue' = [task_queue EXCEPT ![c] = @ + 1] /\ reply' = reply
    BY <1>4 DEF HandleRequest
  <2> QED BY <1>1, <2>1
<1>5. ASSUME NEW c \in Clients, HandleFinished(c)
      PROVE  GetsToRun(p)
  <2>1. PICK q \in Clients : GetsToRun(q) /\ (Handoff(q) \/ HandoffFails(q))
    BY <1>5 DEF HandleFinished, Release, WildHandoff, SelectionDefined
  <2>2. Handoff(q)
    BY <1>1, <2>1 DEF HandoffFails, SendFail
  <2>3. q = p
    BY <1>1, <2>2 DEF Handoff, Sent
  <2> QED BY <2>1, <2>3
<1> QED BY <1>2, <1>3, <1>4, <1>5
     DEF Next, Gate, GateReceive, GateOpen, GateInsert, GateClose, Monitor,
         MonitorReceive, DropUnknown, Tick, Terminated, vars, Client, Register,
         CreateSegments, Beat, Ask, Finish, Close, Crash

\* The priorities of all waiters were computed at one time, that of the last
\* update.
SameMoment ==
  \E T \in Int : \A d \in Waiting :
    client[d].priority = Quotient(client[d].last_hr, Age(T, client[d].last_ts))

\* Every update gives all waiters priorities of its own time.
LEMMA MomentStep ==
  ASSUME TypeOK, NoDanglingWaiter, SameMoment, [Next]_vars
  PROVE  SameMoment'
<1>1. CASE \A c \in Clients : ~HandleRequest(c)
  BY <1>1, WaitersKept DEF SameMoment
<1>2. ASSUME NEW c \in Clients, HandleRequest(c)
      PROVE  SameMoment'
  <2>1. PICK cur \in RecordTimes(c), rate \in Rates :
          client' = UpdatePriority(c, cur, rate)
    BY <1>2 DEF HandleRequest
  <2>2. /\ cur \in Int /\ rate \in Int
        /\ \A d \in Clients : client[d] \in ClientRecords
    BY <2>1, RecordTimesType, ReadAssumption DEF TypeOK
  <2>3. ASSUME NEW d \in Waiting'
        PROVE  client'[d].priority =
                 Quotient(client'[d].last_hr, Age(cur, client'[d].last_ts))
    <3>1. CASE d = c
      <4>1. /\ client'[c].last_hr = rate /\ client'[c].last_ts = cur
            /\ client'[c].priority = [num |-> rate, den |-> 1]
        BY <2>1, <2>2 DEF UpdatePriority, ClientRecords
      <4> QED BY <2>2, <3>1, <4>1 DEF Quotient, Age
    <3>2. CASE d # c
      <4>1. d \in Waiting /\ d \in Clients
        BY <1>2, <2>3, <3>2 DEF HandleRequest, Waiting, TypeOK
      <4>2. d \in registered
        BY <4>1 DEF NoDanglingWaiter
      <4>3. client'[d] = [client[d] EXCEPT !.priority =
                            Quotient(client[d].last_hr, Age(cur, client[d].last_ts))]
        BY <2>1, <3>2, <4>1, <4>2 DEF UpdatePriority
      <4> QED BY <2>2, <4>1, <4>3 DEF ClientRecords
    <3> QED BY <3>1, <3>2
  <2> QED BY <2>2, <2>3 DEF SameMoment
<1> QED BY <1>1, <1>2

\* Of two quotients of one positive rate the larger divisor gives the smaller.
LEMMA LongerIsBelow ==
  ASSUME NEW h \in Int, h > 0, NEW a \in Int, NEW b \in Int, a > 0, a < b
  PROVE  h * a < h * b
<1>1. h * b = h * a + h * (b - a)
  OBVIOUS
<1>2. h * (b - a) > 0
  BY SMT
<1> QED BY <1>1, <1>2

\* Among waiters of one rate the longest wait goes first (monitor.cpp:124).
THEOREM LongestWait == Spec /\ []SelectionDefined => LongestWaitFirst
<1>1. Init => SameMoment
  BY DEF Init, SameMoment, Waiting
<1>2. TypeOK /\ NoDanglingWaiter /\ SameMoment /\ [Next]_vars => SameMoment'
  BY MomentStep
<1>3. ASSUME TypeOK, SelectionDefined, SameMoment, [Next]_vars
      PROVE  [\A p, q \in Waiting :
                /\ busy # 0 /\ busy' = p /\ task_queue'[p] = 0
                /\ client[p].last_hr > 0 /\ client[q].last_hr = client[p].last_hr
                /\ client[p].last_ts >= StartTime /\ client[q].last_ts >= StartTime
                /\ client[p].priority.num > 0 /\ client[q].priority.num > 0
                => client[p].last_ts <= client[q].last_ts]_vars
  <2> SUFFICES ASSUME NEW p \in Waiting, NEW q \in Waiting,
                      busy # 0, task_queue'[p] = 0,
                      client[p].last_hr > 0, client[q].last_hr = client[p].last_hr,
                      client[p].priority.num > 0, client[q].priority.num > 0
               PROVE  client[p].last_ts <= client[q].last_ts
    OBVIOUS
  <2>1. /\ p \in Clients /\ q \in Clients /\ task_queue[p] > 0
        /\ \A d \in Waiting : client[d] \in ClientRecords
    BY <1>3 DEF Waiting, TypeOK
  <2>2. ~Below(client[q].priority, client[p].priority)
    BY <1>3, <2>1, OnlyHandoffSends, ScanPicksSmallest
  <2>3. PICK T \in Int : \A d \in Waiting :
          client[d].priority = Quotient(client[d].last_hr, Age(T, client[d].last_ts))
    BY <1>3 DEF SameMoment
  <2> DEFINE h == client[p].last_hr
             a == Age(T, client[p].last_ts)
             b == Age(T, client[q].last_ts)
  <2>4. h \in Int /\ a \in Int /\ b \in Int
    BY <2>1, <2>3 DEF Age, ClientRecords
  <2>5. ASSUME NEW d \in Waiting, client[d].priority.num > 0, client[d].last_hr = h
        PROVE  /\ client[d].priority = [num |-> h, den |-> Age(T, client[d].last_ts)]
               /\ Age(T, client[d].last_ts) > 0
    <3>1. client[d].priority = Quotient(h, Age(T, client[d].last_ts))
          /\ Age(T, client[d].last_ts) \in Int
      BY <2>1, <2>3, <2>5 DEF ClientRecords, Age
    <3>2. Below(client[d].priority, Smallest)
      BY <1>3, <2>5 DEF SelectionDefined, Eligible
    <3>3. Age(T, client[d].last_ts) # 0
      BY <2>4, <3>1, <3>2, SMT DEF Quotient, Below, Smallest
    <3> QED BY <2>4, <2>5, <3>1, <3>3 DEF Quotient
  <2>6. /\ client[p].priority = [num |-> h, den |-> a] /\ a > 0
        /\ client[q].priority = [num |-> h, den |-> b] /\ b > 0
    BY <2>5
  <2>7. ~(h * a < h * b)
    BY <2>2, <2>6 DEF Below
  <2>8. ~(a < b)
    BY <2>4, <2>6, <2>7, LongerIsBelow
  <2> QED BY <2>1, <2>3, <2>8 DEF Age, ClientRecords
<1>4. ClaimInv => NoDanglingWaiter
  BY ClaimFacts
<1> QED BY <1>1, <1>2, <1>3, <1>4, TypeCorrect, ClaimsKept, PTL DEF Spec, LongestWaitFirst

-----------------------------------------------------------------------------
(* Both parts together.                                                    *)

\* Where requests leave in the second of their beat and the clock is not set
\* back, nothing has to be taken for granted: no entry dangles, no client has
\* two claims, only what was overtaken is dropped, the GPU is held for somebody
\* (monitor.cpp:82-258), the daemon is the arbiter its clients expect, and of
\* waiters of one rate the longest wait goes first.
THEOREM CalmDaemon ==
  Calm => (Spec => /\ []NoDanglingWaiter /\ []OneClaimPerClient /\ []UnknownMeansOvertaken
                   /\ []HolderAccountedFor /\ ImplementsArbiter
                   /\ LongestWaitFirst)
<1> SUFFICES ASSUME Calm
             PROVE  Spec => /\ []NoDanglingWaiter /\ []OneClaimPerClient
                            /\ []UnknownMeansOvertaken /\ []HolderAccountedFor
                            /\ ImplementsArbiter
                            /\ LongestWaitFirst
  OBVIOUS
<1>1. Spec => []SelectionDefined
  BY ScanFindsWaiter
<1> QED BY <1>1, NoEntryDangles, OneClaimEach, OnlyOvertakenDropped, HeldForSomebody,
           DaemonIsArbiter, LongestWait, PTL

=============================================================================
