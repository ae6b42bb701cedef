----------------------------- MODULE RateMonitor -----------------------------
(***************************************************************************)
(* monitor/monitor_hb_from_cli.cpp: the monitor that takes the heart rate  *)
(* from the client's own log instead of keeping a heart for the client.    *)
(* The gate thread and the clients are those of PacerMonitor.  The task    *)
(* queue is a multimap ordered by the rate its client had when it asked,   *)
(* and a client that gives the GPU back is followed by begin().            *)
(***************************************************************************)
EXTENDS PacerMonitor, SequencesExt

\* The multimap in its order.  task_queue of PacerMonitor counts its entries
\* for every pid.
VARIABLE rate_queue

rateVars == <<vars, rate_queue>>

Entry(rate, c) == [rate |-> rate, pid |-> c]

RateInit == Init /\ rate_queue = <<>>

\* mutant: a new entry goes before its equals
Precedes_OrEqual(e, rate) == e.rate < rate
\* Where an entry stays before a new one: multimap::insert puts the new one
\* behind those with an equal key.
Precedes(e, rate) == e.rate <= rate

Placed(rate, c) ==
  LET n == Cardinality({k \in 1..Len(rate_queue) : Precedes(rate_queue[k], rate)})
  IN  InsertAt(rate_queue, n + 1, Entry(rate, c))

\* The instant rate of record buffer_index - 1 is the key; the log belongs
\* to the client, so it is any rate.
RateRequest(c) ==
  /\ Known(c)
  /\ Handles(Request(c))
  /\ \/ busy = 0 /\ (Grant(c) \/ GrantFails(c)) /\ UNCHANGED <<task_queue, rate_queue>>
     \/ /\ busy # 0
        /\ \E rate \in Rates : rate_queue' = Placed(rate, c)
        /\ task_queue' = [task_queue EXCEPT ![c] = @ + 1]
        /\ UNCHANGED <<busy, reply>>
  /\ UNCHANGED client

\* mutant: erase(key), which takes every entry of that rate
RateHandoff_ByKey(p) ==
  /\ Sent(p) /\ busy' = p
  /\ rate_queue' = SelectSeq(rate_queue, LAMBDA e : e.rate # Head(rate_queue).rate)
  /\ task_queue' = [task_queue EXCEPT ![p] = @ - 1]
\* erase(it) takes the one entry that was found.
RateHandoff(p) == /\ Sent(p) /\ busy' = p
                  /\ rate_queue' = Tail(rate_queue)
                  /\ task_queue' = [task_queue EXCEPT ![p] = @ - 1]

RateHandoffFails(p) == HandoffFails(p) /\ UNCHANGED rate_queue

\* mutant: the other end of the queue
NextToRun_Last == rate_queue[Len(rate_queue)].pid
NextToRun == Head(rate_queue).pid

RateFinished(c) ==
  /\ Known(c)
  /\ Handles(Finished(c))
  /\ \/ Release /\ UNCHANGED rate_queue
     \/ /\ busy # 0 /\ rate_queue # <<>>
        /\ RateHandoff(NextToRun) \/ RateHandoffFails(NextToRun)
  /\ UNCHANGED client

RateMonitor == \/ MonitorReceive /\ UNCHANGED rate_queue
               \/ \E c \in Clients : \/ DropUnknown(c) /\ UNCHANGED rate_queue
                                     \/ RateRequest(c)
                                     \/ RateFinished(c)

\* The gate is the same, but that it makes no heart.
RateGate == Gate /\ UNCHANGED rate_queue

RateNext == \/ RateGate \/ RateMonitor
            \/ (Tick \/ Terminated \/ \E c \in Clients : Client(c)) /\ UNCHANGED rate_queue

RateSpec == RateInit /\ [][RateNext]_rateVars

-----------------------------------------------------------------------------
(* What must hold, besides the properties of PacerMonitor.                 *)

\* Every variable stays in its range, and task_queue counts the multimap.
RateTypeOK ==
  /\ TypeOK
  /\ rate_queue \in Seq([rate : Rates, pid : Clients])
  /\ \A c \in Clients :
       task_queue[c] = Cardinality({k \in 1..Len(rate_queue) : rate_queue[k].pid = c})

\* The client that takes over has the lowest rate of all that wait
\* (monitor_hb_from_cli.cpp:131): it was in the queue, and nobody left there
\* has a lower one.
SlowestRunsNext ==
  [][\A p \in Clients :
       busy # 0 /\ Waiting # {} /\ reply'[p] > reply[p] =>
         \E e \in ToSet(rate_queue) :
           e.pid = p /\ \A f \in ToSet(rate_queue) : e.rate <= f.rate]_rateVars

AheadOf(c, s) ==
  {e \in ToSet(s) : \E j, k \in 1..Len(s) : j < k /\ s[j] = e /\ s[k].pid = c}

\* A client that waits is overtaken only by one with a lower rate, never by
\* one with the same (monitor_hb_from_cli.cpp:150).
OvertakenBySlower ==
  [][\A c \in Clients, e \in ToSet(rate_queue) :
       e.pid = c =>
         \A f \in AheadOf(c, rate_queue') \ AheadOf(c, rate_queue) :
           f.rate < e.rate]_rateVars

=============================================================================
