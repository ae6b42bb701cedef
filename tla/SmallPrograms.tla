--------------------------- MODULE SmallPrograms ----------------------------
(***************************************************************************)
(* The smaller groups of programs, for one run: those of SharedRing, of    *)
(* AttachLoop, and of TraceQueue and FifoChat with some names changed.     *)
(* They have no object in common; a behaviour is that of one group, the    *)
(* others stay as they are.                                                *)
(***************************************************************************)
EXTENDS SharedRing

CONSTANTS
  Lines,         \* lines sent by TraceQueue's w
  MaxSpurious, MaxChats, LastId, MaxByHand

VARIABLES started,   \* which group it is
          tpc, mutex, message_in, items, line, printed, spurious,
          place, pipe, shown, unheard, chats, crash,
          stage, k, logmem, glomem, prog, start, log, state, byhand, upset

Trace == INSTANCE TraceQueue WITH NumMsg <- Lines, pc <- tpc, i <- line
Fifo  == INSTANCE FifoChat WITH printed <- shown
Attach == INSTANCE AttachLoop

ASSUME TraceAssumption == Trace!BoundsOK
ASSUME FifoAssumption == Fifo!BoundsOK
ASSUME AttachAssumption == Attach!BoundsOK

trace == <<tpc, mutex, message_in, items, line, printed, spurious>>
fifo  == <<place, pipe, shown, unheard, chats, crash>>
attach == <<stage, k, logmem, glomem, prog, start, log, state, byhand, upset>>
all_small == <<vars, started, trace, fifo, attach>>

RunsRing  == started = "ring"  /\ UNCHANGED <<started, trace, fifo, attach>>
RunsTrace == started = "trace" /\ UNCHANGED <<started, vars, fifo, attach>>
RunsFifo  == started = "fifo"  /\ UNCHANGED <<started, vars, trace, attach>>
RunsAttach == started = "attach" /\ UNCHANGED <<started, vars, trace, fifo>>

SmallInit == /\ started \in {"ring", "trace", "fifo", "attach"}
             /\ Init /\ Trace!Init /\ Fifo!Init /\ Attach!Init

SmallNext == \/ RunsRing /\ Next
             \/ RunsTrace /\ Trace!Next
             \/ RunsFifo /\ Fifo!Next
             \/ RunsAttach /\ Attach!Next

\* The fairness of each group, as it is stated in its module.
SmallSpec ==
  /\ SmallInit /\ [][SmallNext]_all_small
  /\ WF_all_small(RunsRing /\ W) /\ WF_all_small(RunsRing /\ R)
  /\ WF_all_small(RunsTrace /\ Trace!W) /\ WF_all_small(RunsTrace /\ Trace!R)
  /\ \A p \in Procs : /\ SF_all_small(RunsTrace /\ Trace!Lock(p))
                      /\ SF_all_small(RunsTrace /\ Trace!Reacquire(p))
  /\ \A u \in Fifo!Users : WF_all_small(RunsFifo /\ Fifo!User(u))
  /\ WF_all_small(RunsAttach /\ Attach!Launcher)
  /\ \A c \in Attach!Ids : WF_all_small(RunsAttach /\ Attach!Client(c))

\* Every variable of the four groups stays in its range.
SmallTypeOK == TypeOK /\ Trace!TypeOK /\ Fifo!TypeOK /\ Attach!TypeOK

\* How the boost programs hand their messages over.  sema: what r gets is
\* what w has put, in that order, and neither uses a semaphore before it is
\* constructed (sema/w.cpp:99, r.cpp:52-76).  mucon: only the holder of the
\* mutex touches the slot (w.cpp:73-86), and every line is printed once, but
\* for one for each wait that returned without being notified (w.cpp:74-80,
\* r.cpp:65-73).
HandedOver == /\ InOrder /\ ConstructedBeforeUse
              /\ Trace!OneInside /\ Trace!OneLinePerWakeup

\* The users of the FIFO take turns, and no line is lost (read_write.c:25-37).
TakeTurns == Fifo!TakeTurns

\* Whoever finds the log of a client finds the state of the same start
\* (heartbeat.py:26-33); so what the launcher reads of a client is its own,
\* unless a client removed its log during the attach (monitor.py:66-73), and
\* nobody is left out that comes before a client without a log.
ReadsPairs == /\ [](Attach!LogHasItsState /\ Attach!ReadsPairs)
              /\ Attach!LeavesOutLogless

\* Both boost programs of the pair that was started come to their end
\* (sema/r.cpp:84, mucon/r.cpp:76); either user of the FIFO gets to write
\* again and again (write_read.c:24-44); and the attach loop ends, unless
\* the first client has ended without a log (monitor.py:66).
EachGoesOn == /\ started = "ring"  => BothEnd
              /\ started = "trace" => Trace!BothEnd
              /\ Fifo!KeepTalking
              /\ Attach!AttachEnds

=============================================================================
