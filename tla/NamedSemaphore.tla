--------------------------- MODULE NamedSemaphore ---------------------------
(***************************************************************************)
(* ipc/shm/pro.c and con.c, and their older versions example/posix/srv.c   *)
(* and cli.c, which differ in having no end.  pro writes two variables of  *)
(* the memory "/shmjeshu" and con prints them, both under the semaphore    *)
(* "/mysem".  An object lives on without its name: who opens the name      *)
(* after it was removed gets another object.  Names are removed at the end *)
(* of a program and by its handler of SIGINT, which may come at any time.  *)
(***************************************************************************)
EXTENDS Integers, Sequences

CONSTANTS
  Turns,       \* how often a program takes the semaphore (11)
  MaxRuns      \* bound: how often each program is started

BoundsOK == Turns \in Nat \ {0} /\ MaxRuns \in Nat

Procs == {"pro", "con"}
Other(p) == IF p = "pro" THEN "con" ELSE "pro"

VARIABLES
  where,     \* where each program is
  names,     \* the object each name stands for, 0 for none
  mine,      \* the objects each program has opened
  value,     \* the value of every semaphore made so far
  memory,    \* the two variables of every memory object made so far
  copy,      \* the two variables as con has read them in this turn
  turn,      \* how often a program has posted
  runs,      \* how often it was started
  abandoned, \* auxiliary: semaphores whose holder was interrupted
  overlap    \* auxiliary: one opened while the other one was removing

named == <<where, names, mine, value, memory, copy, turn, runs, abandoned, overlap>>

None == [shm |-> 0, sem |-> 0]
Zeros == [var1 |-> 0, var2 |-> 0]

Init ==
  /\ where = [p \in Procs |-> "out"] /\ mine = [p \in Procs |-> None]
  /\ names = None /\ value = <<>> /\ memory = <<>> /\ copy = Zeros
  /\ turn = [p \in Procs |-> 0] /\ runs = [p \in Procs |-> 0]
  /\ abandoned = {} /\ overlap = FALSE

Go(p, from, to) == where[p] = from /\ where' = [where EXCEPT ![p] = to]

\* A program opens its memory first and its semaphore next, and the names are
\* removed in that order too: these are the places between the two.
Opening(p)  == where[p] \in {"open", "open again"}
Removing(p) == where[p] \in {"unlink sem", "handler sem"}
Inside(p)   == where[p] \in {"var1", "var2", "post"}

-----------------------------------------------------------------------------
(* Starting up.                                                            *)

\* shm_open with O_CREAT, ftruncate.
Start(p) ==
  /\ Go(p, "out", "open")
  /\ runs[p] < MaxRuns /\ runs' = [runs EXCEPT ![p] = @ + 1]
  /\ memory' = IF names.shm = 0 THEN Append(memory, Zeros) ELSE memory
  /\ names' = IF names.shm = 0 THEN [names EXCEPT !.shm = Len(memory')] ELSE names
  /\ mine' = [mine EXCEPT ![p].shm = names'.shm]
  /\ UNCHANGED <<value, copy, turn, abandoned>>

InitialValue_Two == 2   \* mutant
InitialValue == 1

\* sem_open with O_CREAT; con does it twice and uses what the second one gives.
OpenSem(p) ==
  /\ Go(p, "open", IF p = "con" THEN "open again" ELSE "wait")
     \/ Go(p, "open again", "wait")
  /\ value' = IF names.sem = 0 THEN Append(value, InitialValue) ELSE value
  /\ names' = IF names.sem = 0 THEN [names EXCEPT !.sem = Len(value')] ELSE names
  /\ mine' = [mine EXCEPT ![p].sem = names'.sem]
  /\ UNCHANGED <<memory, copy, turn, runs, abandoned>>

-----------------------------------------------------------------------------
(* The loop.                                                               *)

SemWait(p) ==
  /\ Go(p, "wait", "var1")
  /\ value[mine[p].sem] > 0 /\ value' = [value EXCEPT ![mine[p].sem] = @ - 1]
  /\ UNCHANGED <<names, mine, memory, copy, turn, runs, abandoned>>

\* pro stores vol or cur, con reads.
Access(p, var, n) ==
  /\ IF p = "pro"
       THEN memory' = [memory EXCEPT ![mine[p].shm][var] = n] /\ UNCHANGED copy
       ELSE copy' = [copy EXCEPT ![var] = memory[mine[p].shm][var]] /\ UNCHANGED memory
  /\ UNCHANGED <<names, mine, value, turn, runs, abandoned>>

Var1(p) == Go(p, "var1", "var2") /\ Access(p, "var1", 10 + turn[p])
Var2(p) == Go(p, "var2", "post") /\ Access(p, "var2", turn[p])

SemPost(p) ==
  /\ Go(p, "post", IF turn[p] + 1 = Turns THEN "unlink shm" ELSE "wait")
  /\ value' = [value EXCEPT ![mine[p].sem] = @ + 1]
  /\ turn' = [turn EXCEPT ![p] = @ + 1]
  /\ copy' = IF p = "con" THEN Zeros ELSE copy
  /\ UNCHANGED <<names, mine, memory, runs, abandoned>>

-----------------------------------------------------------------------------
(* The end and the handler.                                                *)

Unlink(name) == names' = [names EXCEPT ![name] = 0]
End(p, from) ==
  /\ Go(p, from, "out")
  /\ mine' = [mine EXCEPT ![p] = None] /\ turn' = [turn EXCEPT ![p] = 0]
  /\ copy' = IF p = "con" THEN Zeros ELSE copy

\* con exits here, and pro too when somebody else has removed the name: either
\* leaves "/mysem" behind.
UnlinkShm(p) ==
  /\ IF p = "con" \/ names.shm = 0
       THEN End(p, "unlink shm")
       ELSE Go(p, "unlink shm", "unlink sem") /\ UNCHANGED <<mine, copy, turn>>
  /\ Unlink("shm")
  /\ UNCHANGED <<value, memory, runs, abandoned>>

UnlinkSem(p) ==
  /\ End(p, "unlink sem") /\ Unlink("sem")
  /\ UNCHANGED <<value, memory, runs, abandoned>>

\* SIGINT, which the handler does not let come twice.
Interrupt(p) ==
  /\ where[p] \notin {"out", "handler shm", "handler sem"}
  /\ where' = [where EXCEPT ![p] = "handler shm"]
  /\ abandoned' = abandoned \cup (IF Inside(p) THEN {mine[p].sem} ELSE {})
  /\ UNCHANGED <<names, mine, value, memory, copy, turn, runs>>

HandlerShm(p) ==
  /\ Go(p, "handler shm", "handler sem") /\ Unlink("shm")
  /\ UNCHANGED <<mine, value, memory, copy, turn, runs, abandoned>>

HandlerSem_Skipped(p) ==   \* mutant: exits without removing "/mysem"
  End(p, "handler sem") /\ UNCHANGED <<names, value, memory, runs, abandoned>>
\* exit without sem_post, wherever the program was.
HandlerSem(p) ==
  /\ End(p, "handler sem") /\ Unlink("sem")
  /\ UNCHANGED <<value, memory, runs, abandoned>>

-----------------------------------------------------------------------------
Program(p) == \/ OpenSem(p) \/ SemWait(p) \/ Var1(p) \/ Var2(p) \/ SemPost(p)
              \/ UnlinkShm(p) \/ UnlinkSem(p) \/ HandlerShm(p) \/ HandlerSem(p)

Overlapping == \E p \in Procs : Opening(p) /\ Removing(Other(p))
Noted == overlap' = (overlap \/ Overlapping')

Next == \E p \in Procs : (Start(p) \/ Program(p) \/ Interrupt(p)) /\ Noted

Spec == Init /\ [][Next]_named

\* Both programs are scheduled.
FairSpec == Spec /\ \A p \in Procs : WF_named(Program(p) /\ Noted)

-----------------------------------------------------------------------------
(* What must hold.                                                         *)

Places == {"out", "open", "open again", "wait", "var1", "var2", "post",
           "unlink shm", "unlink sem", "handler shm", "handler sem"}

\* Every variable stays in its range, names and handles stand for objects that
\* were made, and no semaphore exceeds 1.
TypeOK ==
  /\ where \in [Procs -> Places]
  /\ value \in Seq(0..1) /\ memory \in Seq([var1 : Nat, var2 : Nat])
  /\ LET Handles == [shm : 0..Len(memory), sem : 0..Len(value)]
     IN  names \in Handles /\ mine \in [Procs -> Handles]
  /\ copy \in [var1 : Nat, var2 : Nat]
  /\ turn \in [Procs -> 0..Turns] /\ runs \in [Procs -> 0..MaxRuns]
  /\ abandoned \subseteq 1..Len(value) /\ overlap \in BOOLEAN

\* Two programs in the same memory are never both between sem_wait and
\* sem_post: as long as no program has opened its two names while the other
\* one was removing them, the same memory goes with the same semaphore,
\* whoever was interrupted where (pro.c:29-44, 63-78, 109-124).
MemoryIsExclusive ==
  ~overlap => ~ \A p \in Procs : Inside(p) /\ mine[p].shm = mine[Other(p)].shm

\* ... and what con prints is one pair of pro's, never half of one, not even
\* when pro was interrupted between its two stores (pro.c:98-99, con.c:98-99).
WholePair ==
  ~overlap /\ where["con"] = "post" =>
    copy = Zeros \/ copy.var1 = copy.var2 + 10

\* A handler leaves no locked semaphore behind under the name: one that is
\* found there at 0 has its holder, or the handler is on its way to remove
\* it (pro.c:44, con.c:46).
NeverLeftLocked ==
  names.sem # 0 /\ value[names.sem] = 0 =>
    \E p \in Procs : /\ mine[p].sem = names.sem
                     /\ Inside(p) \/ where[p] \in {"handler shm", "handler sem"}

\* Who waits gets in, unless the other one was interrupted inside.
WaiterGetsIn ==
  \A p \in Procs :
    where[p] = "wait" ~> where[p] # "wait" \/ mine[p].sem \in abandoned

=============================================================================
