----------------------------- MODULE TraceQueue -----------------------------
(***************************************************************************)
(* ipc/shm/example/boost/mucon: w.cpp hands NumMsg lines of text to r.cpp  *)
(* through one slot in shared memory, under a mutex with two conditions.   *)
(* Both programs test the flag message_in once, with "if", before and not  *)
(* after they wait.  r is started when w has constructed the slot.         *)
(***************************************************************************)
EXTENDS Integers, Sequences, FiniteSets

CONSTANTS
  NumMsg,        \* lines sent, the last one being "last message" (100)
  MaxSpurious    \* bound: wake-ups that nobody asked for

BoundsOK == NumMsg \in Nat \ {0} /\ MaxSpurious \in Nat

Procs == {"w", "r"}
Last  == NumMsg - 1

VARIABLES
  pc,           \* where each program is; "waiting" is inside cond.wait
  mutex,        \* who holds data->mutex, or "nobody"
  message_in,   \* "Is there any message"
  items,        \* the line in the slot, by its number; -1 before the first
  i,            \* the loop variable of w
  printed,      \* what r has printed
  spurious      \* wake-ups so far that nobody asked for

vars == <<pc, mutex, message_in, items, i, printed, spurious>>

Init == /\ pc = [p \in Procs |-> "lock"] /\ mutex = "nobody"
        /\ message_in = FALSE /\ items = -1 /\ i = 0
        /\ printed = <<>> /\ spurious = 0

Go(p, from, to) == pc[p] = from /\ pc' = [pc EXCEPT ![p] = to]

Acquire(p) == mutex = "nobody" /\ mutex' = p

-----------------------------------------------------------------------------
(* The two conditions.  cond_full is where w waits, cond_empty where r     *)
(* does, so each has one waiter at most.                                   *)

Lock(p) ==
  /\ Go(p, "lock", "test") /\ Acquire(p)
  /\ UNCHANGED <<message_in, items, i, printed, spurious>>

\* cond.wait(lock): lets go of the mutex and waits in one step.
Wait(p) ==
  /\ Go(p, "test", "waiting")
  /\ message_in = (p = "w")
  /\ mutex' = "nobody"
  /\ UNCHANGED <<message_in, items, i, printed, spurious>>

\* The flag lets the program pass.
Pass(p) ==
  /\ Go(p, "test", "work")
  /\ message_in = (p = "r")
  /\ UNCHANGED <<mutex, message_in, items, i, printed, spurious>>

\* POSIX lets a wait return although nobody has notified the condition.
SpuriousWakeup(p) ==
  /\ spurious < MaxSpurious
  /\ Go(p, "waiting", "woken") /\ spurious' = spurious + 1
  /\ UNCHANGED <<mutex, message_in, items, i, printed>>

\* The wait ends with the mutex taken again, and the flag is not looked at.
Reacquire(p) ==
  /\ Go(p, "woken", "work") /\ Acquire(p)
  /\ UNCHANGED <<message_in, items, i, printed, spurious>>

\* p goes to its next step and the other one, if it waits, is woken.
NotifyAndGo(p, to) ==
  pc' = [q \in Procs |-> IF q = p THEN to
                         ELSE IF pc[q] = "waiting" THEN "woken" ELSE pc[q]]

-----------------------------------------------------------------------------
(* w.                                                                      *)

\* sprintf into the slot, then notify_one, although the flag is not set yet.
Fill ==
  /\ pc["w"] = "work" /\ items' = i
  /\ NotifyAndGo("w", "mark")
  /\ UNCHANGED <<mutex, message_in, i, printed, spurious>>

\* The flag; the end of the scope lets go of the mutex.
Mark ==
  /\ Go("w", "mark", IF i = Last THEN "done" ELSE "lock")
  /\ message_in' = TRUE /\ i' = i + 1 /\ mutex' = "nobody"
  /\ UNCHANGED <<items, printed, spurious>>

-----------------------------------------------------------------------------
(* r.                                                                      *)

\* "last message" ends the loop, and nothing is reset or notified.
EndLoop ==
  /\ Go("r", "work", "done") /\ items = Last
  /\ mutex' = "nobody"
  /\ UNCHANGED <<message_in, items, i, printed, spurious>>

PrintLine ==
  /\ Go("r", "work", "clear") /\ items # Last
  /\ printed' = Append(printed, items)
  /\ UNCHANGED <<mutex, message_in, items, i, spurious>>

Cleared_Not == message_in   \* mutant: the flag stays
Cleared == FALSE

\* The flag, then notify_one, then the end of the scope.
Clear ==
  /\ pc["r"] = "clear" /\ message_in' = Cleared /\ mutex' = "nobody"
  /\ NotifyAndGo("r", "lock")
  /\ UNCHANGED <<items, i, printed, spurious>>

-----------------------------------------------------------------------------
Waits(p) == Lock(p) \/ Wait(p) \/ Pass(p) \/ SpuriousWakeup(p) \/ Reacquire(p)

W == Waits("w") \/ Fill \/ Mark
R == Waits("r") \/ EndLoop \/ PrintLine \/ Clear

Terminated == (\A p \in Procs : pc[p] = "done") /\ UNCHANGED vars

Next == W \/ R \/ Terminated

Spec == Init /\ [][Next]_vars

\* Both programs are scheduled.  The mutex is free again and again without
\* being free for good, so taking it needs strong fairness.
FairSpec == Spec /\ WF_vars(W) /\ WF_vars(R)
                 /\ \A p \in Procs : SF_vars(Lock(p)) /\ SF_vars(Reacquire(p))

-----------------------------------------------------------------------------
(* What must hold.                                                         *)

Places == {"lock", "test", "waiting", "woken", "work", "mark", "clear", "done"}

\* Every variable stays in its range.
TypeOK ==
  /\ pc \in [Procs -> Places] /\ mutex \in Procs \cup {"nobody"}
  /\ message_in \in BOOLEAN /\ items \in -1..Last /\ i \in 0..NumMsg
  /\ printed \in Seq(-1..Last) /\ spurious \in 0..MaxSpurious

Inside(p) == pc[p] \in {"test", "work", "mark", "clear"}

\* Only the holder of the mutex touches the slot, a program that comes back
\* from its wait included (w.cpp:73-86, r.cpp:64-77).
OneInside == \A p \in Procs : Inside(p) => mutex = p

\* "prints each message until the "last message" message is received"
\* (r.cpp:1): when r ends it has printed every other line once.
EachMessagePrinted ==
  pc["r"] = "done" => printed = [k \in 1..Last |-> k - 1]

Repeated == Len(printed) - Cardinality({printed[k] : k \in 1..Len(printed)} \ {-1})
Missing  == {n \in 0..Last - 1 : \A k \in 1..Len(printed) : printed[k] # n}

\* Every line is printed once, although w notifies before it sets the flag
\* (w.cpp:83-86) and a notification that finds nobody waiting is lost, but for
\* one line for each wait that returned without being notified: there w
\* overwrites a line that r has not printed (w.cpp:74-80), or r prints one
\* that it has printed already (r.cpp:65-73).
OneLinePerWakeup ==
  pc["r"] = "done" => Repeated + Cardinality(Missing) <= spurious

\* Both programs come to their end.
BothEnd == <>(\A p \in Procs : pc[p] = "done")

=============================================================================
