------------------------- MODULE PacerMonitorProofs -------------------------
(***************************************************************************)
(* Proofs about PacerMonitor for every set of pids, every queue capacity   *)
(* and every mode: clients that crash, race the gate, or meet a clock that *)
(* steps back, and the handoff through an uninitialised pointer included.  *)
(***************************************************************************)
EXTENDS PacerMonitor, TLAPS

\* A quotient of integers keeps its divisor natural: the sign moves up.
LEMMA QuotientType ==
  ASSUME NEW num \in Int, NEW den \in Int
  PROVE  Quotient(num, den) \in Priorities
BY DEF Quotient, Priorities

\* UpdatePriority gives every client of the map a priority again.
LEMMA UpdateType ==
  ASSUME client \in [Clients -> ClientRecords],
         NEW c \in Clients, NEW cur_ts \in Int, NEW rate \in Int
  PROVE  UpdatePriority(c, cur_ts, rate) \in [Clients -> ClientRecords]
<1> SUFFICES ASSUME NEW d \in Clients
             PROVE  UpdatePriority(c, cur_ts, rate)[d] \in ClientRecords
  BY DEF UpdatePriority
<1>1. client[d] \in ClientRecords /\ client[c] \in ClientRecords
  OBVIOUS
<1>2. CASE d = c
  <2>1. [num |-> rate, den |-> 1] \in Priorities
    BY DEF Priorities
  <2> QED BY <1>1, <1>2, <2>1 DEF UpdatePriority, ClientRecords
<1>3. CASE d # c /\ d \in registered \ {c}
  <2>1. client[d].last_hr \in Int /\ Age(cur_ts, client[d].last_ts) \in Int
    BY <1>1 DEF Age, ClientRecords
  <2>2. Quotient(client[d].last_hr, Age(cur_ts, client[d].last_ts)) \in Priorities
    BY <2>1, QuotientType
  <2>3. UpdatePriority(c, cur_ts, rate)[d] =
          [client[d] EXCEPT !.priority =
             Quotient(client[d].last_hr, Age(cur_ts, client[d].last_ts))]
    BY <1>3 DEF UpdatePriority
  <2> QED BY <1>1, <2>2, <2>3 DEF ClientRecords
<1>4. CASE d # c /\ d \notin registered \ {c}
  BY <1>1, <1>4 DEF UpdatePriority
<1> QED BY <1>2, <1>3, <1>4

\* The time the monitor reads is an integer wherever it reads it.
LEMMA RecordTimesType ==
  ASSUME hb_state \in [Clients -> SegmentStates], NEW c \in Clients
  PROVE  RecordTimes(c) \subseteq Int
BY ReadAssumption DEF RecordTimes, SegmentStates

\* The program starts with the types right.
LEMMA InitType == Init => TypeOK
<1>1. NewClient(FALSE) \in ClientRecords
  BY DEF NewClient, ClientRecords, Priorities
<1>2. Segments(FALSE) \in SegmentStates
  BY DEF Segments, SegmentStates
<1> SUFFICES ASSUME Init PROVE TypeOK
  OBVIOUS
<1>3. client \in [Clients -> ClientRecords] /\ hb_state \in [Clients -> SegmentStates]
  BY <1>1, <1>2 DEF Init
<1>4. pc \in [Clients -> Places] /\ now \in Int
  BY BoundsAssumption DEF Init, Places
<1>5. monitor_mq \in Seq(Requests) /\ gate_mq \in Seq(Registrations)
  BY DEF Init
<1> QED BY <1>3, <1>4, <1>5 DEF Init, TypeOK

\* What a client writes: its place, a message, or its segments.
LEMMA BecomeType ==
  ASSUME pc \in [Clients -> Places], NEW c \in Clients, NEW from,
         NEW to \in Places, Become(c, from, to)
  PROVE  pc' \in [Clients -> Places]
BY DEF Become

\* The mailboxes take what a client writes to them.
LEMMA SendMonitorType ==
  ASSUME monitor_mq \in Seq(Requests), NEW m \in Requests, SendMonitor(m)
  PROVE  monitor_mq' \in Seq(Requests)
BY DEF SendMonitor

\* ... a registration with its number in the run as well.
LEMMA SendGateType ==
  ASSUME gate_mq \in Seq(Registrations), NEW c \in Clients, NEW n \in {1, 2},
         SendGate(c, n)
  PROVE  gate_mq' \in Seq(Registrations)
<1>1. [pid |-> c, nth |-> n] \in Registrations
  BY DEF Registrations
<1> QED BY <1>1 DEF SendGate

\* A beat leaves a segment a segment, with its index in the buffer.
LEMMA BeatType ==
  ASSUME TypeOK, NEW c \in Clients, Beat(c)
  PROVE  hb_state' \in [Clients -> SegmentStates]
<1>1. hb_state[c].buffer_index \in Nat /\ now \in Int
  BY DEF TypeOK, SegmentStates
<1>2. (hb_state[c].buffer_index + 1) % BufferDepth \in Nat
  BY <1>1, BoundsAssumption
<1>3. AfterBeat(hb_state[c]) \in SegmentStates
  BY <1>1, <1>2 DEF AfterBeat, SegmentStates
<1> QED BY <1>3 DEF Beat, TypeOK

\* Every step of a client keeps the types.
LEMMA ClientType ==
  ASSUME TypeOK, NEW c \in Clients, Client(c)
  PROVE  TypeOK'
<1>1. CASE Register(c)
  <2>1. pc' \in [Clients -> Places] /\ gate_mq' \in Seq(Registrations)
    BY <1>1, BecomeType, SendGateType DEF Register, TypeOK, Places
  <2> QED BY <1>1, <2>1 DEF Register, TypeOK
<1>2. CASE CreateSegments(c)
  <2>1. Segments(TRUE) \in SegmentStates
    BY DEF Segments, SegmentStates
  <2>2. hb_state' \in [Clients -> SegmentStates]
    BY <1>2, <2>1 DEF CreateSegments, TypeOK
  <2> QED BY <1>2, <2>2 DEF CreateSegments, TypeOK, gateVars
<1>3. CASE Beat(c)
  <2>1. pc' \in [Clients -> Places] /\ hb_state' \in [Clients -> SegmentStates]
    BY <1>3, BecomeType, BeatType DEF Beat, TypeOK, Places
  <2> QED BY <1>3, <2>1 DEF Beat, TypeOK, gateVars
<1>4. CASE Ask(c)
  <2>1. Request(c) \in Requests
    BY DEF Request, Requests
  <2>2. pc' \in [Clients -> Places] /\ monitor_mq' \in Seq(Requests)
    BY <1>4, <2>1, BecomeType, SendMonitorType DEF Ask, TypeOK, Places
  <2> QED BY <1>4, <2>2 DEF Ask, TypeOK, gateVars
<1>5. CASE TakeToken(c)
  <2>1. pc' \in [Clients -> Places]
    BY <1>5, BecomeType DEF TakeToken, TypeOK, Places
  <2>2. reply' \in [Clients -> Nat]
    BY <1>5 DEF TakeToken, HasToken, TypeOK
  <2> QED BY <1>5, <2>1, <2>2 DEF TakeToken, TypeOK, gateVars
<1>6. CASE Finish(c)
  <2>1. Finished(c) \in Requests
    BY DEF Finished, Requests
  <2>2. pc' \in [Clients -> Places] /\ monitor_mq' \in Seq(Requests)
    BY <1>6, <2>1, BecomeType, SendMonitorType DEF Finish, TypeOK, Places
  <2> QED BY <1>6, <2>2 DEF Finish, TypeOK, gateVars
<1>7. CASE Close(c)
  <2>1. pc' \in [Clients -> Places] /\ gate_mq' \in Seq(Registrations)
    BY <1>7, BecomeType, SendGateType DEF Close, TypeOK, Places
  <2> QED BY <1>7, <2>1 DEF Close, TypeOK
<1>8. CASE Crash(c)
  <2>1. pc' \in [Clients -> Places]
    BY <1>8, BecomeType DEF Crash, TypeOK, Places
  <2> QED BY <1>8, <2>1 DEF Crash, TypeOK, gateVars
<1> QED BY <1>1, <1>2, <1>3, <1>4, <1>5, <1>6, <1>7, <1>8 DEF Client

\* Every step of the gate thread keeps the types.
LEMMA GateType ==
  ASSUME TypeOK, Gate
  PROVE  TypeOK'
<1> USE DEF clientVars
<1>1. CASE GateReceive
  <2>1. gate_buf' \in Registrations /\ gate_mq' \in Seq(Registrations)
    BY <1>1 DEF GateReceive, TypeOK
  <2> QED BY <1>1, <2>1 DEF GateReceive, TypeOK
<1>2. ASSUME NEW c \in Clients, NEW opened \in BOOLEAN, GateOpen(c, opened)
      PROVE  TypeOK'
  <2>1. NewClient(opened) \in ClientRecords
    BY DEF NewClient, ClientRecords, Priorities
  <2>2. client' \in [Clients -> ClientRecords]
    BY <1>2, <2>1 DEF GateOpen, TypeOK
  <2> QED BY <1>2, <2>2 DEF GateOpen, TypeOK
<1>3. ASSUME NEW c \in Clients, GateInsert(c)
      PROVE  TypeOK'
  BY <1>3 DEF GateInsert, Inserted, TypeOK
<1>4. ASSUME NEW c \in Clients, GateClose(c)
      PROVE  TypeOK'
  <2>1. Segments(FALSE) \in SegmentStates
    BY DEF Segments, SegmentStates
  <2>2. hb_state' \in [Clients -> SegmentStates]
    BY <1>4, <2>1 DEF GateClose, TypeOK
  <2> QED BY <1>4, <2>2 DEF GateClose, TypeOK
<1> QED BY <1>1, <1>2, <1>3, <1>4 DEF Gate

\* Every step of the monitor thread keeps the types.
LEMMA MonitorType ==
  ASSUME TypeOK, Monitor
  PROVE  TypeOK'
<1> USE DEF clientVars, gateVars
<1>1. CASE MonitorReceive
  <2>1. mon_buf' \in Requests /\ monitor_mq' \in Seq(Requests)
    BY <1>1 DEF MonitorReceive, TypeOK
  <2> QED BY <1>1, <2>1 DEF MonitorReceive, TypeOK
<1>2. ASSUME NEW c \in Clients, DropUnknown(c)
      PROVE  TypeOK'
  BY <1>2 DEF DropUnknown, Handles, TypeOK
<1>3. ASSUME NEW c \in Clients, HandleRequest(c)
      PROVE  TypeOK'
  <2>1. PICK cur_ts \in RecordTimes(c), rate \in Rates :
          client' = UpdatePriority(c, cur_ts, rate)
    BY <1>3 DEF HandleRequest
  <2>2. cur_ts \in Int /\ rate \in Int
    BY <2>1, RecordTimesType, ReadAssumption DEF TypeOK
  <2>3. client' \in [Clients -> ClientRecords]
    BY <2>1, <2>2, UpdateType DEF TypeOK
  <2>4. busy' \in Clients \cup {0} /\ reply' \in [Clients -> Nat]
        /\ task_queue' \in [Clients -> Nat]
    BY <1>3 DEF HandleRequest, Grant, GrantFails, Sent, SendFail, TypeOK
  <2> QED BY <1>3, <2>3, <2>4 DEF HandleRequest, Handles, TypeOK
<1>4. ASSUME NEW c \in Clients, HandleFinished(c)
      PROVE  TypeOK'
  <2> DEFINE Fine == busy' \in Clients \cup {0} /\ reply' \in [Clients -> Nat]
                     /\ task_queue' \in [Clients -> Nat]
  <2>1. ASSUME Release PROVE Fine
    BY <2>1 DEF Release, TypeOK
  <2>2. ASSUME NEW p \in Clients, Handoff(p) PROVE Fine
    BY <2>2 DEF Handoff, Sent, TypeOK
  <2>3. ASSUME NEW p \in Clients, HandoffFails(p) PROVE Fine
    BY <2>3 DEF HandoffFails, SendFail, TypeOK
  <2>4. ASSUME NEW p \in Clients, WildHandoff(p) PROVE Fine
    <3>1. CASE Sent(p) /\ busy' = p /\ UNCHANGED task_queue
      BY <3>1 DEF Sent, TypeOK
    <3>2. CASE HandoffFails(p)
      BY <2>3, <3>2
    <3> QED BY <2>4, <3>1, <3>2 DEF WildHandoff
  <2>5. Fine
    BY <1>4, <2>1, <2>2, <2>3, <2>4 DEF HandleFinished
  <2> QED BY <1>4, <2>5 DEF HandleFinished, Handles, TypeOK
<1> QED BY <1>1, <1>2, <1>3, <1>4 DEF Monitor

\* Whatever the clients, the clock and the threads of monitor.cpp do, every
\* variable of the model stays in its range.
THEOREM TypeCorrect == Spec => []TypeOK
<1>1. Init => TypeOK
  BY InitType
<1>2. TypeOK /\ [Next]_vars => TypeOK'
  <2> SUFFICES ASSUME TypeOK, [Next]_vars PROVE TypeOK'
    OBVIOUS
  <2>1. CASE Gate
    BY <2>1, GateType
  <2>2. CASE Monitor
    BY <2>2, MonitorType
  <2>3. CASE Tick
    BY <2>3 DEF Tick, TypeOK, gateVars, clientVars
  <2>4. CASE Terminated \/ UNCHANGED vars
    BY <2>4 DEF Terminated, vars, TypeOK, gateVars, clientVars
  <2>5. ASSUME NEW c \in Clients, Client(c)
        PROVE  TypeOK'
    BY <2>5, ClientType
  <2> QED BY <2>1, <2>2, <2>3, <2>4, <2>5 DEF Next
<1> QED BY <1>1, <1>2, PTL DEF Spec

-----------------------------------------------------------------------------
(* Exclusion.  MutualExclusion is not inductive: it says nothing of the    *)
(* messages that will make a client run or let the next one run.  The      *)
(* strengthening follows the claim through all its forms.                  *)

ExclusionInv == TypeOK /\ ExclusiveClaim

\* Receiving moves a message from the queue to the buffer.
LEMMA ReceiveInFlight ==
  ASSUME TypeOK, MonitorReceive, NEW c \in Clients, FinishedOnce(c)
  PROVE  /\ InFlight(Finished(c))' <=> InFlight(Finished(c))
         /\ FinishedOnce(c)'
<1>1. /\ monitor_mq \in Seq(Requests) /\ monitor_mq # <<>>
      /\ mon_buf = NoMessage /\ mon_buf' = Head(monitor_mq)
      /\ monitor_mq' = Tail(monitor_mq)
  BY DEF MonitorReceive, TypeOK
<1>2. NoMessage # Finished(c)
  BY ClientsAssumption DEF NoMessage, Finished
<1>3. /\ Len(monitor_mq) \in Nat /\ Len(monitor_mq) >= 1
      /\ Len(monitor_mq') = Len(monitor_mq) - 1
      /\ mon_buf' = monitor_mq[1]
      /\ \A i \in 1..Len(monitor_mq') : monitor_mq'[i] = monitor_mq[i + 1]
  BY <1>1
<1> DEFINE m == Finished(c)
<1> HIDE DEF m
<1>4. ASSUME \E i \in 1..Len(monitor_mq) : monitor_mq[i] = m
      PROVE  mon_buf' = m \/ \E i \in 1..Len(monitor_mq') : monitor_mq'[i] = m
  <2>1. PICK i \in 1..Len(monitor_mq) : monitor_mq[i] = m
    BY <1>4
  <2>2. CASE i = 1
    BY <1>3, <2>1, <2>2
  <2>3. CASE i # 1
    <3>1. i - 1 \in 1..Len(monitor_mq') /\ monitor_mq'[i - 1] = monitor_mq[i]
      BY <1>3, <2>1, <2>3
    <3> QED BY <2>1, <3>1
  <2> QED BY <2>2, <2>3
<1>5. InFlight(m)' <=> InFlight(m)
  BY <1>1, <1>2, <1>3, <1>4 DEF InFlight, m
<1>6. \A i, j \in 1..Len(monitor_mq) : monitor_mq[i] = m /\ monitor_mq[j] = m => i = j
  BY DEF FinishedOnce, m
<1>7. \A i, j \in 1..Len(monitor_mq') :
        monitor_mq'[i] = m /\ monitor_mq'[j] = m => i = j
  <2> SUFFICES ASSUME NEW i \in 1..Len(monitor_mq'), NEW j \in 1..Len(monitor_mq'),
                      monitor_mq'[i] = m, monitor_mq'[j] = m
               PROVE  i = j
    OBVIOUS
  <2>1. i + 1 \in 1..Len(monitor_mq) /\ j + 1 \in 1..Len(monitor_mq)
    BY <1>3
  <2>2. i + 1 = j + 1
    BY <1>3, <1>6, <2>1
  <2> QED BY <2>2
<1>8. mon_buf' = m => \A i \in 1..Len(monitor_mq') : monitor_mq'[i] # m
  <2> SUFFICES ASSUME mon_buf' = m, NEW i \in 1..Len(monitor_mq'), monitor_mq'[i] = m
               PROVE  FALSE
    OBVIOUS
  <2>1. i + 1 \in 1..Len(monitor_mq) /\ 1 \in 1..Len(monitor_mq)
    BY <1>3
  <2>2. i + 1 = 1
    BY <1>3, <1>6, <2>1
  <2> QED BY <2>2
<1> QED BY <1>5, <1>7, <1>8 DEF FinishedOnce, m

\* Sending m adds m and nothing else.
LEMMA SendInFlight ==
  ASSUME TypeOK, NEW m \in Requests, SendMonitor(m), UNCHANGED mon_buf,
         NEW c \in Clients, FinishedOnce(c)
  PROVE  /\ InFlight(Finished(c))' <=> InFlight(Finished(c)) \/ m = Finished(c)
         /\ m # Finished(c) \/ ~InFlight(Finished(c)) => FinishedOnce(c)'
<1>1. /\ Len(monitor_mq) \in Nat
      /\ Len(monitor_mq') = Len(monitor_mq) + 1
      /\ monitor_mq'[Len(monitor_mq) + 1] = m
      /\ \A i \in 1..Len(monitor_mq) : monitor_mq'[i] = monitor_mq[i]
  BY DEF SendMonitor, TypeOK
<1>2. \A i \in 1..Len(monitor_mq') : i \in 1..Len(monitor_mq) \/ i = Len(monitor_mq) + 1
  BY <1>1
<1>3. /\ 1..Len(monitor_mq) \subseteq 1..Len(monitor_mq')
      /\ Len(monitor_mq) + 1 \in 1..Len(monitor_mq')
  BY <1>1
<1> DEFINE f == Finished(c)
<1> HIDE DEF f
<1>4. InFlight(f)' <=> InFlight(f) \/ m = f
  BY <1>1, <1>2, <1>3 DEF InFlight, f
<1>5. ASSUME m # f \/ ~InFlight(f)
      PROVE  FinishedOnce(c)'
  BY <1>1, <1>2, <1>3, <1>5 DEF FinishedOnce, InFlight, f
<1> QED BY <1>4, <1>5 DEF f

\* Handling m takes m away and nothing else.
LEMMA HandleInFlight ==
  ASSUME NEW m, m # NoMessage, Handles(m), NEW c \in Clients, FinishedOnce(c)
  PROVE  /\ InFlight(Finished(c))' => InFlight(Finished(c)) /\ m # Finished(c)
         /\ FinishedOnce(c)'
<1>1. mon_buf = m /\ mon_buf' = NoMessage /\ monitor_mq' = monitor_mq
  BY DEF Handles
<1>2. NoMessage # Finished(c)
  BY ClientsAssumption DEF NoMessage, Finished
<1> QED BY <1>1, <1>2 DEF InFlight, FinishedOnce

\* Nothing moves in the queue or the buffer.
LEMMA QuietInFlight ==
  ASSUME UNCHANGED <<monitor_mq, mon_buf>>, NEW c \in Clients
  PROVE  /\ InFlight(Finished(c))' <=> InFlight(Finished(c))
         /\ FinishedOnce(c)' <=> FinishedOnce(c)
BY DEF InFlight, FinishedOnce

\* A step that leaves messages, runs and busy alone keeps the claims.
LEMMA QuietClaims ==
  ASSUME ExclusiveClaim, UNCHANGED <<monitor_mq, mon_buf, busy, reply>>,
         \A c \in Clients : pc'[c] = "run" => pc[c] = "run"
  PROVE  ExclusiveClaim'
BY QuietInFlight DEF ExclusiveClaim, Claims

\* A client's steps keep the claim exclusive: only its own "finished" message
\* or its end of waiting moves its claim.
LEMMA ClientKeepsClaims ==
  ASSUME ExclusionInv, NEW c \in Clients, Client(c)
  PROVE  ExclusiveClaim'
<1> USE DEF ExclusionInv
<1>0. \A d \in Clients : FinishedOnce(d)
  BY DEF ExclusiveClaim
<1>1. CASE Register(c) \/ CreateSegments(c) \/ Beat(c) \/ Close(c) \/ Crash(c)
  <2>1. \A d \in Clients : pc'[d] = "run" => pc[d] = "run"
    BY <1>1 DEF Register, CreateSegments, Beat, Close, Crash, Become, TypeOK
  <2> QED BY <1>1, <2>1, QuietClaims
       DEF Register, CreateSegments, Beat, Close, Crash
<1>2. CASE Ask(c)
  <2>1. Request(c) \in Requests /\ \A d \in Clients : Request(c) # Finished(d)
    BY DEF Request, Finished, Requests
  <2>2. \A d \in Clients : /\ InFlight(Finished(d))' <=> InFlight(Finished(d))
                           /\ FinishedOnce(d)'
    BY <1>0, <1>2, <2>1, SendInFlight DEF Ask
  <2>3. \A d \in Clients : pc'[d] = "run" => pc[d] = "run"
    BY <1>2 DEF Ask, Become, TypeOK
  <2> QED BY <1>2, <2>2, <2>3 DEF Ask, ExclusiveClaim, Claims
<1>3. CASE TakeToken(c)
  <2>1. \A d \in Clients : /\ InFlight(Finished(d))' <=> InFlight(Finished(d))
                           /\ FinishedOnce(d)' <=> FinishedOnce(d)
    BY <1>3, QuietInFlight DEF TakeToken
  <2>2. /\ reply[c] = 1 /\ reply'[c] = 0 /\ pc'[c] = "run"
        /\ \A d \in Clients \ {c} : reply'[d] = reply[d] /\ pc'[d] = pc[d]
    BY <1>3 DEF TakeToken, HasToken, Become, ExclusiveClaim, TypeOK
  <2>3. busy' = busy
    BY <1>3 DEF TakeToken
  <2> QED BY <2>1, <2>2, <2>3 DEF ExclusiveClaim, Claims
<1>4. CASE Finish(c)
  <2>1. Finished(c) \in Requests /\ \A d \in Clients \ {c} : Finished(c) # Finished(d)
    BY DEF Finished, Requests
  <2>2. pc[c] = "run" /\ ~InFlight(Finished(c)) /\ reply[c] = 0 /\ busy = c
    BY <1>4 DEF Finish, Become, ExclusiveClaim, Claims, TypeOK
  <2>3. \A d \in Clients : /\ InFlight(Finished(d))' <=> InFlight(Finished(d)) \/ d = c
                           /\ FinishedOnce(d)'
    BY <1>0, <1>4, <2>1, <2>2, SendInFlight DEF Finish
  <2>4. /\ pc'[c] = "idle"
        /\ \A d \in Clients \ {c} : pc'[d] = pc[d]
    BY <1>4 DEF Finish, Become, TypeOK
  <2>5. busy' = busy /\ reply' = reply
    BY <1>4 DEF Finish
  <2> QED BY <2>2, <2>3, <2>4, <2>5 DEF ExclusiveClaim, Claims
<1> QED BY <1>1, <1>2, <1>3, <1>4 DEF Client

\* The handoff's effect: at most one new message, for the new holder.
LEMMA HandledClaims ==
  ASSUME ExclusionInv, NEW m \in Requests, Handles(m),
         NEW h \in Clients, busy' = h \/ (h = busy /\ reply' = reply /\ busy' = 0),
         \A d \in Clients : ~Claims(d) \/ m = Finished(d),
         \/ reply' = reply
         \/ reply' = [reply EXCEPT ![h] = @ + 1]
  PROVE  ExclusiveClaim'
<1> USE DEF ExclusionInv
<1>1. m # NoMessage
  BY ClientsAssumption DEF NoMessage, Requests
<1>2. \A d \in Clients : ~InFlight(Finished(d))' /\ FinishedOnce(d)'
  BY <1>1, HandleInFlight DEF Claims, ExclusiveClaim
<1>3. \A d \in Clients : reply[d] = 0 /\ pc'[d] = pc[d] /\ pc[d] # "run"
  <2> SUFFICES ASSUME NEW d \in Clients
               PROVE  reply[d] = 0 /\ pc'[d] = pc[d] /\ pc[d] # "run"
    OBVIOUS
  <2>1. pc'[d] = pc[d]
    BY DEF Handles, clientVars
  <2>2. m = Finished(d) => InFlight(Finished(d))
    BY DEF Handles, InFlight
  <2> QED BY <2>1, <2>2 DEF Claims, ExclusiveClaim, TypeOK
<1>4. \A d \in Clients : reply'[d] = 0 \/ (d = h /\ reply'[d] = 1 /\ busy' = h)
  BY <1>3 DEF TypeOK
<1> QED BY <1>2, <1>3, <1>4 DEF ExclusiveClaim, Claims

\* Serving a request: a grant makes a claim when there is none, and whatever
\* else the monitor does with the request makes none.
LEMMA RequestClaims ==
  ASSUME ExclusionInv, NEW c \in Clients, Handles(Request(c)),
         (busy = 0 /\ Grant(c)) \/ UNCHANGED <<busy, reply>>
  PROVE  ExclusiveClaim'
<1> USE DEF ExclusionInv
<1>1. Request(c) \in Requests
  BY DEF Request, Requests
<1>2. \A d \in Clients : Request(c) # Finished(d)
  BY DEF Request, Finished
<1>3. CASE busy = 0 /\ Grant(c)
  <2>1. \A d \in Clients : ~Claims(d)
    BY <1>3, ClientsAssumption DEF ExclusiveClaim
  <2>2. busy' = c /\ reply' = [reply EXCEPT ![c] = @ + 1]
    BY <1>3 DEF Grant, Sent
  <2> QED BY <1>1, <2>1, <2>2, HandledClaims
<1>4. CASE UNCHANGED <<busy, reply>>
  <2>1. Request(c) # NoMessage
    BY ClientsAssumption DEF NoMessage, Request
  <2>2. \A d \in Clients : FinishedOnce(d)
    BY DEF ExclusiveClaim
  <2>3. \A d \in Clients : /\ InFlight(Finished(d))' => InFlight(Finished(d))
                           /\ FinishedOnce(d)'
    BY <2>1, <2>2, HandleInFlight
  <2> QED BY <1>4, <2>3 DEF Handles, ExclusiveClaim, Claims, clientVars
<1> QED BY <1>3, <1>4

\* Serving a "finished": it can only be the holder's, so the claim ends with
\* it, and a handoff to anybody makes one claim in its place.
LEMMA FinishedClaims ==
  ASSUME ExclusionInv, NEW c \in Clients, Handles(Finished(c)),
         Release \/ \E p \in Clients : (Sent(p) /\ busy' = p) \/ HandoffFails(p)
  PROVE  ExclusiveClaim'
<1> USE DEF ExclusionInv
<1>1. Finished(c) \in Requests
  BY DEF Finished, Requests
<1>2. busy = c
  BY DEF Handles, InFlight, ExclusiveClaim, Claims
<1>3. \A d \in Clients : ~Claims(d) \/ Finished(c) = Finished(d)
  BY <1>2 DEF ExclusiveClaim
<1>4. CASE Release
  BY <1>1, <1>2, <1>3, <1>4, HandledClaims DEF Release
<1>5. ASSUME NEW p \in Clients, Sent(p) /\ busy' = p
      PROVE  ExclusiveClaim'
  BY <1>1, <1>3, <1>5, HandledClaims DEF Sent
<1>6. ASSUME NEW p \in Clients, HandoffFails(p)
      PROVE  ExclusiveClaim'
  BY <1>1, <1>2, <1>3, <1>6, HandledClaims DEF HandoffFails, SendFail
<1> QED BY <1>4, <1>5, <1>6

\* The monitor's steps keep the claim exclusive.
LEMMA MonitorKeepsClaims ==
  ASSUME ExclusionInv, Monitor
  PROVE  ExclusiveClaim'
<1> USE DEF ExclusionInv
<1>0. \A d \in Clients : FinishedOnce(d)
  BY DEF ExclusiveClaim
<1>1. CASE MonitorReceive
  <2>1. \A d \in Clients : /\ InFlight(Finished(d))' <=> InFlight(Finished(d))
                           /\ FinishedOnce(d)'
    BY <1>0, <1>1, ReceiveInFlight
  <2> QED BY <1>1, <2>1 DEF MonitorReceive, ExclusiveClaim, Claims, clientVars
<1>2. ASSUME NEW c \in Clients, DropUnknown(c)
      PROVE  ExclusiveClaim'
  <2>1. PICK m \in {Request(c), Finished(c)} : Handles(m)
    BY <1>2 DEF DropUnknown
  <2>2. m # NoMessage
    BY ClientsAssumption DEF NoMessage, Request, Finished
  <2>3. \A d \in Clients : /\ InFlight(Finished(d))' => InFlight(Finished(d))
                           /\ FinishedOnce(d)'
    BY <1>0, <2>1, <2>2, HandleInFlight
  <2> QED BY <1>2, <2>1, <2>3
       DEF DropUnknown, Handles, ExclusiveClaim, Claims, clientVars
<1>3. ASSUME NEW c \in Clients, HandleRequest(c)
      PROVE  ExclusiveClaim'
  BY <1>3, RequestClaims DEF HandleRequest, GrantFails, SendFail
<1>4. ASSUME NEW c \in Clients, HandleFinished(c)
      PROVE  ExclusiveClaim'
  BY <1>4, FinishedClaims DEF HandleFinished, Handoff, WildHandoff
<1> QED BY <1>1, <1>2, <1>3, <1>4 DEF Monitor

\* No step disturbs the claim.
LEMMA ExclusionStep == ExclusionInv /\ [Next]_vars => ExclusiveClaim'
<1> SUFFICES ASSUME ExclusionInv, [Next]_vars PROVE ExclusiveClaim'
  OBVIOUS
<1>1. CASE Gate
  <2>1. UNCHANGED <<monitor_mq, mon_buf, busy, reply, pc>>
    BY <1>1 DEF Gate, GateReceive, GateOpen, GateInsert, GateClose, clientVars
  <2> QED BY <2>1, QuietClaims DEF ExclusionInv
<1>2. CASE Tick \/ Terminated \/ UNCHANGED vars
  <2>1. UNCHANGED <<monitor_mq, mon_buf, busy, reply, pc>>
    BY <1>2 DEF Tick, Terminated, vars, clientVars
  <2> QED BY <2>1, QuietClaims DEF ExclusionInv
<1>3. CASE Monitor
  BY <1>3, MonitorKeepsClaims
<1>4. ASSUME NEW c \in Clients, Client(c)
      PROVE  ExclusiveClaim'
  BY <1>4, ClientKeepsClaims
<1> QED BY <1>1, <1>2, <1>3, <1>4 DEF Next

\* The claim on the GPU is exclusive, in one place at a time, and busy names
\* its owner (monitor.cpp:137-219), for every set of clients.
THEOREM ClaimIsExclusive == Spec => []ExclusiveClaim
<1>1. Init => ExclusiveClaim
  BY ClientsAssumption
     DEF Init, ExclusiveClaim, Claims, FinishedOnce, InFlight, NoMessage, Finished
<1>2. TypeOK /\ TypeOK' /\ ExclusiveClaim /\ [Next]_vars => ExclusiveClaim'
  BY ExclusionStep DEF ExclusionInv
<1> QED BY <1>1, <1>2, TypeCorrect, PTL DEF Spec

\* Two clients never run on the GPU together (monitor.cpp:137-219): both would
\* be the one that busy names.
THEOREM GpuIsExclusive == Spec => []MutualExclusion
<1>1. ExclusiveClaim => MutualExclusion
  BY DEF ExclusiveClaim, MutualExclusion, Claims
<1> QED BY <1>1, ClaimIsExclusive, PTL

\* The GPU is never free while a request is queued (monitor.cpp:157-219).
THEOREM NeverIdle == Spec => []WorkConserving
<1>1. Init => WorkConserving
  BY DEF Init, WorkConserving, Waiting
<1>2. TypeOK /\ WorkConserving /\ [Next]_vars => WorkConserving'
  <2> SUFFICES ASSUME TypeOK, WorkConserving, [Next]_vars PROVE WorkConserving'
    OBVIOUS
  <2> USE DEF WorkConserving, Waiting
  <2>1. CASE UNCHANGED <<busy, task_queue>>
    BY <2>1
  <2>2. ASSUME NEW c \in Clients, HandleRequest(c)
        PROVE  WorkConserving'
    <3>1. CASE busy = 0
      BY <2>2, <3>1, ClientsAssumption DEF HandleRequest, Grant, GrantFails
    <3>2. CASE busy # 0
      BY <2>2, <3>2 DEF HandleRequest
    <3> QED BY <3>1, <3>2
  <2>3. ASSUME NEW c \in Clients, HandleFinished(c)
        PROVE  WorkConserving'
    <3>1. CASE Release
      BY <3>1 DEF Release
    <3>2. ASSUME busy # 0, NEW p \in Clients, busy' = p \/ HandoffFails(p)
          PROVE  WorkConserving'
      BY <3>2, ClientsAssumption DEF HandoffFails
    <3> QED BY <2>3, <3>1, <3>2 DEF HandleFinished, Handoff, WildHandoff
  <2>4. CASE \/ Gate \/ Tick \/ Terminated \/ MonitorReceive
             \/ \E c \in Clients : Client(c) \/ DropUnknown(c)
    <3>1. UNCHANGED <<busy, task_queue>>
      BY <2>4
         DEF Gate, GateReceive, GateOpen, GateInsert, GateClose, Tick, Terminated,
             vars, MonitorReceive, DropUnknown, Client, Register, CreateSegments,
             Beat, Ask, TakeToken, Finish, Close, Crash
    <3> QED BY <2>1, <3>1
  <2> QED BY <2>1, <2>2, <2>3, <2>4 DEF Next, Monitor, vars
<1> QED BY <1>1, <1>2, TypeCorrect, PTL DEF Spec

=============================================================================
