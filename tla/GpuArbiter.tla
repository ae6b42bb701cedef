----------------------------- MODULE GpuArbiter -----------------------------
(***************************************************************************)
(* What monitor/monitor.cpp promises its clients: the GPU is used by those *)
(* that asked for it, one at a time, in any order.  PacerMonitor implements*)
(* it; how the next user is chosen is a matter for PacerMonitor alone.     *)
(***************************************************************************)
CONSTANT Clients

VARIABLE status   \* what each client does with the GPU

Init == status = [c \in Clients |-> "idle"]

Ask(c) == /\ status[c] = "idle"
          /\ status' = [status EXCEPT ![c] = "asking"]

Grant(c) == /\ status[c] = "asking"
            /\ \A d \in Clients : status[d] # "using"
            /\ status' = [status EXCEPT ![c] = "using"]

Stop(c) == /\ status[c] = "using"
           /\ status' = [status EXCEPT ![c] = "idle"]

\* A client may die while it waits.
GiveUp(c) == /\ status[c] = "asking"
             /\ status' = [status EXCEPT ![c] = "idle"]

\* Each of these changes the status of a client; said first, it tells TLC
\* cheaply which steps of PacerMonitor are none of them.
Next == /\ status' # status
        /\ \E c \in Clients : Ask(c) \/ Grant(c) \/ Stop(c) \/ GiveUp(c)

Spec == Init /\ [][Next]_status

=============================================================================
