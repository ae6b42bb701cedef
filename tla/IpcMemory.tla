------------------------------ MODULE IpcMemory ------------------------------
(***************************************************************************)
(* The two pairs of C programs that share memory, for one run: those of    *)
(* SysvBuffer and those of NamedSemaphore.  They have no object in common; *)
(* a behaviour is that of one pair, the other one stays as it is.          *)
(***************************************************************************)
EXTENDS SysvBuffer

CONSTANTS Turns, MaxRuns

VARIABLES started,   \* which pair it is
          where, names, mine, value, memory, copy, turn, runs,
          abandoned, overlap

Named == INSTANCE NamedSemaphore

ASSUME NamedAssumption == Named!BoundsOK

named == <<where, names, mine, value, memory, copy, turn, runs, abandoned,
           overlap>>
all_memory == <<sysv, started, named>>

RunsSysv  == started = "sysv"  /\ UNCHANGED <<started, named>>
RunsNamed == started = "named" /\ UNCHANGED <<started, sysv>>

MemoryInit == started \in {"sysv", "named"} /\ Init /\ Named!Init

MemoryNext == \/ RunsSysv /\ Next
              \/ RunsNamed /\ Named!Next

\* The fairness of either pair, as it is stated in its module.
MemorySpec ==
  /\ MemoryInit /\ [][MemoryNext]_all_memory
  /\ WF_all_memory(RunsSysv /\ Clear)
  /\ \A p \in Programs : WF_all_memory(RunsSysv /\ Program(p))
  /\ \A p \in Named!Procs :
       WF_all_memory(RunsNamed /\ Named!Program(p) /\ Named!Noted)

\* Every variable of the two pairs stays in its range.
MemoryTypeOK == TypeOK /\ Named!TypeOK

\* What the three System V semaphores promise while nobody upsets them: EMPTY
\* and FULL account for the buffer, no store is outside it, and one program
\* is at the buffer at a time (shared.c:6-85).
BufferKept == Accounts /\ StoresFit /\ OneInside

\* What "/mysem" promises, whoever is interrupted where: pro and con are
\* never both inside in the same memory (pro.c:29-44), con prints one pair
\* of pro's and never half of one (con.c:98-99), and a handler leaves no
\* locked semaphore behind under its name (pro.c:44).
PairKept == /\ Named!MemoryIsExclusive /\ Named!WholePair
            /\ Named!NeverLeftLocked

\* Every item of the System V producer is consumed (consumer.c:21), and who
\* waits for "/mysem" gets it, unless it was abandoned (pro.c:96).
WaitersGoOn == AllConsumed /\ Named!WaiterGetsIn

=============================================================================
