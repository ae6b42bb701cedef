----------------------------- MODULE SysvBuffer -----------------------------
(***************************************************************************)
(* ipc/shm/example/sysv: producer.c puts Rounds items into a buffer of     *)
(* BUFFER_SIZE slots, consumer.c takes items off its end for ever, under   *)
(* the semaphores FULL, EMPTY and MUTEX.  Each program sets all three when *)
(* it starts (shared.c), whatever the other one is doing.  The consumer    *)
(* has no other end than a signal, and so either program may be killed.    *)
(***************************************************************************)
EXTENDS Integers, FiniteSets

CONSTANTS
  BUFFER_SIZE,   \* slots of the buffer (5)
  Rounds,        \* items a producer makes: 11, as its cnt goes from 10 to 0
  MaxStarts      \* bound: how often each program is started

ASSUME SizesAssumption  == BUFFER_SIZE \in Nat \ {0} /\ Rounds \in Nat \ {0}
ASSUME StartsAssumption == MaxStarts \in Nat

Programs == {"producer", "consumer"}
Other(p) == IF p = "producer" THEN "consumer" ELSE "producer"

VARIABLES
  at,       \* where each program is, "out" when it does not run
  sem,      \* the set of three semaphores
  sbuff,    \* the buffer: which slots hold 0xFF
  index,    \* the size a program has counted
  cnt,      \* items the producer has still to make
  starts,   \* how often each program was started
  sound     \* auxiliary: nobody has upset the semaphores of a running program

sysv == <<at, sem, sbuff, index, cnt, starts, sound>>

Slots == 0..BUFFER_SIZE - 1
Initial == [FULL |-> 0, EMPTY |-> BUFFER_SIZE, MUTEX |-> 1]
Size == Cardinality({s \in Slots : sbuff[s]})

\* A new segment and a new set are all zeros.
Init ==
  /\ at = [p \in Programs |-> "out"]
  /\ sem = [s \in DOMAIN Initial |-> 0] /\ sound = FALSE
  /\ sbuff = [s \in Slots |-> FALSE]
  /\ index = [p \in Programs |-> 0] /\ cnt = 0
  /\ starts = [p \in Programs |-> 0]

Go(p, from, to) == at[p] = from /\ at' = [at EXCEPT ![p] = to]

\* Between its down and its up a program has a slot or an item in its hands.
Holding  == {"lock", "count", "store", "unlock", "up"}
Looping(p) == at[p] \in Holding \cup {"down"}

-----------------------------------------------------------------------------
(* Starting up: the semaphores one by one, and the producer clears.        *)

Start(p) ==
  /\ Go(p, "out", "FULL")
  /\ starts[p] < MaxStarts /\ starts' = [starts EXCEPT ![p] = @ + 1]
  /\ cnt' = IF p = "producer" THEN Rounds ELSE cnt
  /\ UNCHANGED <<sem, sbuff, index, sound>>

After(p, s) == CASE s = "FULL"  -> "EMPTY"
                 [] s = "EMPTY" -> "MUTEX"
                 [] s = "MUTEX" -> IF p = "producer" THEN "clear" ELSE "down"

SetSemaphore(p, s) ==
  /\ Go(p, s, After(p, s))
  /\ sem' = [sem EXCEPT ![s] = Initial[s]]
  /\ sound' = IF Looping(Other(p)) THEN sound /\ sem[s] = Initial[s]
                                   ELSE sem' = Initial
  /\ UNCHANGED <<sbuff, index, cnt, starts>>

Clear_Not ==   \* mutant: the producer keeps what an earlier one left
  Go("producer", "clear", "down") /\ UNCHANGED <<sem, sbuff, index, cnt, starts, sound>>
Clear ==
  /\ Go("producer", "clear", "down")
  /\ sbuff' = [s \in Slots |-> FALSE]
  /\ UNCHANGED <<sem, index, cnt, starts, sound>>

-----------------------------------------------------------------------------
(* The loops: a producer goes from EMPTY to FULL, a consumer back.         *)

Taken(p) == IF p = "producer" THEN "EMPTY" ELSE "FULL"

Given_Same(p) == Taken(p)   \* mutant: upEmpty for upFull
Given(p) == Taken(Other(p))

Semop(s, by) == sem[s] + by >= 0 /\ sem' = [sem EXCEPT ![s] = @ + by]

Down(p) ==
  /\ Go(p, "down", "lock") /\ Semop(Taken(p), -1)
  /\ UNCHANGED <<sbuff, index, cnt, starts, sound>>

Lock(p) ==
  /\ Go(p, "lock", "count") /\ Semop("MUTEX", -1)
  /\ UNCHANGED <<sbuff, index, cnt, starts, sound>>

\* get_buffer_size: the next free slot, or the last one in use.
Count(p) ==
  /\ Go(p, "count", "store")
  /\ index' = [index EXCEPT ![p] = IF p = "producer" THEN Size ELSE Size - 1]
  /\ UNCHANGED <<sem, sbuff, cnt, starts, sound>>

\* A store past the end does not change the buffer, and one before its start
\* is outside the segment.
Store(p) ==
  /\ Go(p, "store", "unlock")
  /\ sbuff' = [s \in Slots |-> IF s = index[p] THEN p = "producer" ELSE sbuff[s]]
  /\ UNCHANGED <<sem, index, cnt, starts, sound>>

Unlock(p) ==
  /\ Go(p, "unlock", "up") /\ Semop("MUTEX", 1)
  /\ UNCHANGED <<sbuff, index, cnt, starts, sound>>

\* upFull or upEmpty; the producer's loop ends with its last item.
Up(p) ==
  /\ Go(p, "up", IF p = "producer" /\ cnt = 1 THEN "out" ELSE "down")
  /\ Semop(Given(p), 1)
  /\ cnt' = IF p = "producer" THEN cnt - 1 ELSE cnt
  /\ UNCHANGED <<sbuff, index, starts, sound>>

Program(p) == \/ \E s \in DOMAIN Initial : SetSemaphore(p, s)
              \/ Down(p) \/ Lock(p) \/ Count(p) \/ Store(p) \/ Unlock(p) \/ Up(p)

\* A signal; the semaphores stay as they are (no SEM_UNDO).
Kill(p) ==
  /\ at[p] # "out" /\ at' = [at EXCEPT ![p] = "out"]
  /\ sound' = (sound /\ at[p] \notin Holding)
  /\ UNCHANGED <<sem, sbuff, index, cnt, starts>>

Next == Clear \/ \E p \in Programs : Start(p) \/ Program(p) \/ Kill(p)

Spec == Init /\ [][Next]_sysv

\* Both programs are scheduled.  Neither can hog the mutex: it runs out of
\* items, or of slots.
FairSpec == Spec /\ WF_sysv(Clear) /\ \A p \in Programs : WF_sysv(Program(p))

-----------------------------------------------------------------------------
(* What must hold.                                                         *)

Places == {"out", "FULL", "EMPTY", "MUTEX", "clear", "down"} \cup Holding

\* Every variable stays in its range, the semaphores upset or not.
TypeOK ==
  /\ at \in [Programs -> Places]
  /\ sem \in [DOMAIN Initial -> Nat]
  /\ sbuff \in [Slots -> BOOLEAN]
  /\ index \in [Programs -> -1..BUFFER_SIZE] /\ cnt \in 0..Rounds
  /\ starts \in [Programs -> 0..MaxStarts] /\ sound \in BOOLEAN

Num(b) == IF b THEN 1 ELSE 0

\* As long as nobody has set the semaphores under a running program or was
\* killed with a slot in its hands, the semaphores account for every slot and
\* for what the buffer holds, which is packed at its start: that makes
\* the count of get_buffer_size the right index (shared.c:6-15).
Accounts ==
  sound =>
    /\ sem.EMPTY + sem.FULL + Num(at["producer"] \in Holding)
                            + Num(at["consumer"] \in Holding) = BUFFER_SIZE
    /\ Looping("producer") \/ sem.FULL > 0 \/ at["consumer"] \in Holding =>
         LET stored == sem.FULL + Num(at["producer"] \in {"unlock", "up"})
                         + Num(at["consumer"] \in {"lock", "count", "store"})
         IN  \A s \in Slots : sbuff[s] <=> s < stored

\* Then no store is outside the buffer and none hits the wrong slot: the
\* producer's is free, the consumer's in use (producer.c:5, consumer.c:9-10).
StoresFit ==
  \A p \in Programs :
    sound /\ at[p] = "store" =>
      index[p] \in Slots /\ sbuff[index[p]] = (p = "consumer")

\* ... and the two programs are never both between downMutex and upMutex.
OneInside ==
  sound => \E p \in Programs : at[p] \notin {"count", "store", "unlock"}

\* Once both programs are in their loops every item is taken out, unless
\* a program is killed or started again under the other one.
AllConsumed ==
  sound /\ Looping("producer") /\ Looping("consumer")
    ~> \/ at["producer"] = "out" /\ Size = 0
       \/ at["consumer"] = "out" \/ ~sound

=============================================================================
