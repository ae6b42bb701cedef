--------------------------- MODULE MonitorAgeing ----------------------------
(***************************************************************************)
(* Some behaviours of PacerMonitor, for the run that asks whether every    *)
(* waiter is served: those in which the clients ask only when all of them  *)
(* are registered, and none of them leaves.  That is when the competition  *)
(* for the GPU is worst, and it leaves few enough states for liveness.     *)
(***************************************************************************)
EXTENDS PacerMonitor

AllTakePart == \A c \in Clients : /\ pc'[c] = "beat" => registered = Clients
                                  /\ pc'[c] # "closed"

AgeingSpec == Init /\ [][Next /\ AllTakePart]_vars /\ Fairness

=============================================================================
