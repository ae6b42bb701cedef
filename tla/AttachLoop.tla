----------------------------- MODULE AttachLoop ------------------------------
(***************************************************************************)
(* opencl/monitor.py, and app/objdet/monitor.py with one client for two:   *)
(* the launcher runs one container after another to its end, attaches to   *)
(* the log and the state that each has left, and reads them once.  A       *)
(* client removes what an earlier one with its key has left (heartbeat.py) *)
(* and makes its own segments (heartbeat_python_lib.c).  Somebody may      *)
(* start a client by hand, too.                                            *)
(***************************************************************************)
EXTENDS Integers, Sequences

CONSTANTS
  LastId,      \* lenn: the clients are numbered from 1
  MaxByHand    \* bound: how often a client is started by hand

BoundsOK == LastId \in Nat \ {0} /\ MaxByHand \in Nat

Ids == 1..LastId

VARIABLES
  stage,     \* where the launcher is
  k,         \* its loop variable
  logmem,    \* the segments it has attached to: whose, and made by which of
  glomem,    \*   the starts of that client
  prog,      \* where the program of each client is
  start,     \* how often it was started
  log,       \* which start made its log, 0 when there is none
  state,     \* which start made its state
  byhand,    \* how many starts were by hand
  upset      \* auxiliary: a client removed its log during the attach

attach == <<stage, k, logmem, glomem, prog, start, log, state, byhand, upset>>
launcher == <<stage, k, logmem, glomem>>

Init ==
  /\ stage = "run" /\ k = 1 /\ logmem = <<>> /\ glomem = <<>>
  /\ prog = [c \in Ids |-> "out"] /\ start = [c \in Ids |-> 0]
  /\ log = [c \in Ids |-> 0] /\ state = [c \in Ids |-> 0]
  /\ byhand = 0 /\ upset = FALSE

Attaching == stage \in {"attach log", "attach state"}

-----------------------------------------------------------------------------
(* A client.                                                               *)

Go(c, from, to) == prog[c] = from /\ prog' = [prog EXCEPT ![c] = to]

Begin(c, places) ==
  /\ prog[c] \in places /\ prog' = [prog EXCEPT ![c] = "remove log"]
  /\ start' = [start EXCEPT ![c] = @ + 1]
  /\ UNCHANGED <<launcher, log, state, upset>>

RemoveLog_Skipped(c) ==   \* mutant: an old log is used again
  Go(c, "remove log", "remove state")
    /\ UNCHANGED <<launcher, start, log, state, byhand, upset>>
RemoveLog(c) ==
  /\ Go(c, "remove log", "remove state") /\ log' = [log EXCEPT ![c] = 0]
  /\ upset' = (upset \/ (Attaching /\ log[c] # 0))
  /\ UNCHANGED <<launcher, start, state, byhand>>

RemoveState(c) ==
  /\ Go(c, "remove state", "make state") /\ state' = [state EXCEPT ![c] = 0]
  /\ UNCHANGED <<launcher, start, log, byhand, upset>>

\* shmget with IPC_CREAT, which also takes what is there.
Made(seg, c) == IF seg[c] = 0 THEN [seg EXCEPT ![c] = start[c]] ELSE seg

MakeState(c) ==
  /\ Go(c, "make state", "make log") /\ state' = Made(state, c)
  /\ UNCHANGED <<launcher, start, log, byhand, upset>>

MakeLog(c) ==
  /\ Go(c, "make log", "beat") /\ log' = Made(log, c)
  /\ UNCHANGED <<launcher, start, state, byhand, upset>>

\* The segment of the heartbeat itself could not be made: every beat finds
\* none and returns 0, and the program ends as usual, with no log (opencl/test.py
\* divides by the rate 0 and fails).  Or it was made and the state was not, and
\* the first beat ends the program.
NoSegments(c) ==
  /\ \E to \in {"finished", "failed"} : Go(c, "make state", to)
  /\ UNCHANGED <<launcher, start, log, state, byhand, upset>>

\* Without HEARTBEAT_ENABLED_DIR, or without memory for the log, there is no
\* log and the first beat ends the program.
NoLog(c) ==
  /\ Go(c, "make log", "failed")
  /\ UNCHANGED <<launcher, start, log, state, byhand, upset>>

\* heartbeat_finish leaves log and state.
Finish(c) ==
  /\ Go(c, "beat", "finished")
  /\ UNCHANGED <<launcher, start, log, state, byhand, upset>>

\* What the initialisation had still to do after the log has failed.
BeatFaults(c) ==
  /\ Go(c, "beat", "failed")
  /\ UNCHANGED <<launcher, start, log, state, byhand, upset>>

Client(c) == \/ RemoveLog(c) \/ RemoveState(c)
             \/ MakeState(c) \/ NoSegments(c) \/ MakeLog(c) \/ NoLog(c)
             \/ Finish(c) \/ BeatFaults(c)

\* By hand, when the launcher is done with the container of that key.
ByHand(c) ==
  /\ Attaching \/ (stage = "run" /\ c < k)
  /\ byhand < MaxByHand /\ byhand' = byhand + 1
  /\ Begin(c, {"finished", "failed"})

-----------------------------------------------------------------------------
(* The launcher.                                                           *)

\* containers.run, which waits for the container's end.
RunContainer == stage = "run" /\ Begin(k, {"out"}) /\ UNCHANGED byhand

NextClient_Past(after) ==   \* mutant: one client too many
  IF k <= LastId THEN k' = k + 1 /\ UNCHANGED stage ELSE k' = 1 /\ stage' = after
NextClient(after) ==
  IF k < LastId THEN k' = k + 1 /\ UNCHANGED stage ELSE k' = 1 /\ stage' = after

ContainerEnds ==
  /\ stage = "run" /\ prog[k] = "finished" /\ NextClient("attach log")
  /\ UNCHANGED <<logmem, glomem, prog, start, log, state, byhand, upset>>

ContainerFails ==
  /\ stage = "run" /\ prog[k] = "failed" /\ stage' = "raised"
  /\ UNCHANGED <<k, logmem, glomem, prog, start, log, state, byhand, upset>>

\* The bare except.  result is set as soon as one client is attached: then the
\* loop ends and what was attached so far is read, else it starts again.
Except ==
  /\ stage' = IF k > 1 THEN "read" ELSE "attach log"
  /\ k' = 1 /\ UNCHANGED <<logmem, glomem>>

AttachLog ==
  /\ stage = "attach log"
  /\ IF log[k] = 0 THEN Except
     ELSE /\ logmem' = Append(logmem, <<k, log[k]>>) /\ stage' = "attach state"
          /\ UNCHANGED <<k, glomem>>
  /\ UNCHANGED <<prog, start, log, state, byhand, upset>>

AttachState ==
  /\ stage = "attach state"
  /\ IF state[k] = 0 THEN Except
     ELSE /\ glomem' = Append(glomem, <<k, state[k]>>)
          /\ IF k < LastId THEN k' = k + 1 /\ stage' = "attach log"
                           ELSE k' = 1 /\ stage' = "read"
          /\ UNCHANGED logmem
  /\ UNCHANGED <<prog, start, log, state, byhand, upset>>

\* An index past the end of a list raises.
Read ==
  /\ stage = "read"
  /\ IF k <= Len(glomem) /\ k <= Len(logmem)
       THEN NextClient("done") ELSE stage' = "raised" /\ UNCHANGED k
  /\ UNCHANGED <<logmem, glomem, prog, start, log, state, byhand, upset>>

Launcher == \/ RunContainer \/ ContainerEnds \/ ContainerFails
            \/ AttachLog \/ AttachState \/ Read

Next == Launcher \/ \E c \in Ids : Client(c) \/ ByHand(c)

Spec == Init /\ [][Next]_attach

\* The launcher and the clients are scheduled.
FairSpec == Spec /\ WF_attach(Launcher) /\ \A c \in Ids : WF_attach(Client(c))

-----------------------------------------------------------------------------
(* What must hold.                                                         *)

Segments == Ids \X (1..MaxByHand + 1)

\* Every variable stays in its range.
TypeOK ==
  /\ stage \in {"run", "attach log", "attach state", "read", "done", "raised"}
  /\ k \in Ids /\ logmem \in Seq(Segments) /\ glomem \in Seq(Segments)
  /\ prog \in [Ids -> {"out", "remove log", "remove state", "make state",
                       "make log", "beat", "finished", "failed"}]
  /\ start \in [Ids -> 0..MaxByHand + 1]
  /\ log \in [Ids -> 0..MaxByHand + 1] /\ state \in [Ids -> 0..MaxByHand + 1]
  /\ byhand \in 0..MaxByHand /\ upset \in BOOLEAN

\* Whoever finds a log finds the state that belongs to it: the log is removed
\* before the state and made after it (heartbeat.py:26-33,
\* heartbeat_python_lib.c:111, 155).
LogHasItsState == \A c \in Ids : log[c] # 0 => state[c] = log[c]

\* What is read as the index and the rate of a client are its own, from the
\* same start, however often the attach loop has started again
\* (monitor.py:66-73), unless a client removed its log meanwhile.
ReadsPairs ==
  stage = "read" /\ ~upset =>
    /\ Len(logmem) = Len(glomem)
    /\ \A c \in Ids : c <= Len(logmem) => logmem[c] = glomem[c] /\ logmem[c][1] = c

\* The bare except (monitor.py:72) leaves out no client but those from the
\* first one on that has no log when the loop ends.
LeavesOutLogless ==
  [][stage # "read" /\ stage' = "read" /\ ~upset' =>
       \A c \in Ids : c <= Len(glomem') \/ \E d \in 1..c : log[d] = 0]_attach

\* The attach loop ends, unless the first client has ended without a log:
\* then it goes on for ever (monitor.py:66).
AttachEnds ==
  Attaching ~> ~Attaching \/ (log[1] = 0 /\ prog[1] \in {"finished", "failed"})

=============================================================================
