----------------------------- MODULE SharedRing -----------------------------
(***************************************************************************)
(* ipc/shm/example/boost/sema: the programs w.cpp (which is ipc/shm/cli.cpp*)
(* too) and r.cpp.  They exchange integers through two buffers in shared   *)
(* memory, each a ring of NumItems with three semaphores.  w makes both    *)
(* objects, fills "MySharedMemory" and then empties "vic_MySharedMemory";  *)
(* r empties the first and then fills the second, whose semaphores r       *)
(* constructs, although w made the object.                                 *)
(***************************************************************************)
EXTENDS Integers, Sequences

CONSTANTS
  NumItems,   \* slots of a buffer (5)
  NumMsg      \* integers sent through each buffer (10)

\* With no more messages than slots w could get to the second buffer before
\* r has constructed it.
ASSUME SizesAssumption == NumItems \in Nat \ {0} /\ NumMsg \in Nat
                          /\ NumMsg > NumItems

Procs == {"w", "r"}
Bufs  == {"data", "vic"}

VARIABLES
  pc,      \* where each program is
  i,       \* its loop variable
  buf,     \* the two shared_memory_buffer objects
  made,    \* what has been done to each: see Stages
  got      \* extracted_data of r, extracted_vic_data of w

vars == <<pc, i, buf, made, got>>

Stages == {"none", "created", "sized", "constructed"}
Slots  == 0..NumItems - 1

\* Which buffer a program works on, and what it puts there.
Putter(b) == IF b = "data" THEN "w" ELSE "r"
Getter(b) == IF b = "data" THEN "r" ELSE "w"
Value(b, n) == IF b = "data" THEN n ELSE n + 10

\* A fresh object is all zeros; no semaphore lets anybody pass.
Zeros == [mutex |-> 0, nempty |-> 0, nstored |-> 0, items |-> [s \in Slots |-> 0]]

NEmpty_TooMany == NumItems + 1   \* mutant: one slot too many
NEmpty == NumItems
Constructed(old) == [old EXCEPT !.mutex = 1, !.nempty = NEmpty, !.nstored = 0]

Init ==
  /\ pc = [p \in Procs |-> "start"] /\ i = [p \in Procs |-> 0]
  /\ buf = [b \in Bufs |-> Zeros] /\ made = [b \in Bufs |-> "none"]
  /\ got = [p \in Procs |-> <<>>]

Go(p, from, to) == pc[p] = from /\ pc' = [pc EXCEPT ![p] = to]

-----------------------------------------------------------------------------
(* Starting up.                                                            *)

\* w removes old objects, makes "MySharedMemory" and constructs it at once.
MakeData ==
  /\ Go("w", "start", "data")
  /\ buf' = [buf EXCEPT !["data"] = Constructed(Zeros)]
  /\ made' = [made EXCEPT !["data"] = "constructed"]
  /\ UNCHANGED <<i, got>>

\* It makes the second object, gives it its size, and leaves it at that.
CreateVic ==
  /\ Go("w", "data", "create")
  /\ made' = [made EXCEPT !["vic"] = "created"]
  /\ UNCHANGED <<i, buf, got>>

TruncateVic ==
  /\ Go("w", "create", "nempty")
  /\ made' = [made EXCEPT !["vic"] = "sized"]
  /\ UNCHANGED <<i, buf, got>>

\* r opens and maps the second object.  Before it exists and has a size that
\* throws, r ends without running the remover, and somebody starts r again.
OpenVic ==
  /\ Go("r", "start", "open")
  /\ made["vic"] \in {"sized", "constructed"}
  /\ UNCHANGED <<i, buf, made, got>>

\* new (vic_addr) shared_memory_buffer, then "MySharedMemory" is opened.
ConstructVic ==
  /\ Go("r", "open", "nstored")
  /\ buf' = [buf EXCEPT !["vic"] = Constructed(@)]
  /\ made' = [made EXCEPT !["vic"] = "constructed"]
  /\ UNCHANGED <<i, got>>

-----------------------------------------------------------------------------
(* The loops.  pc names the call a program is about to make: a putter goes *)
(* through nempty, put_mutex, write, put_unlock, post_nstored; a getter    *)
(* through nstored, get_mutex, read, get_unlock, post_nempty.              *)

Wait(b, sem, p, from, to) ==
  /\ Go(p, from, to)
  /\ buf[b][sem] > 0 /\ buf' = [buf EXCEPT ![b][sem] = @ - 1]
  /\ UNCHANGED <<i, made, got>>

Post(b, sem) == buf' = [buf EXCEPT ![b][sem] = @ + 1] /\ UNCHANGED <<made, got>>
Unlock(b, p, from, to) == Go(p, from, to) /\ Post(b, "mutex") /\ UNCHANGED i

\* The loop variable, and what follows: w first puts and then gets, r first
\* gets and then puts.
Step(p, again, other, first) ==
  IF i[p] + 1 < NumMsg
    THEN i' = [i EXCEPT ![p] = @ + 1] /\ pc' = [pc EXCEPT ![p] = again]
    ELSE /\ i' = [i EXCEPT ![p] = 0]
         /\ pc' = [pc EXCEPT ![p] = IF p = first THEN other ELSE "done"]

WaitNempty(b) == Wait(b, "nempty", Putter(b), "nempty", "put_mutex")
PutLock(b)    == Wait(b, "mutex", Putter(b), "put_mutex", "write")

Write(b) ==
  LET p == Putter(b)
  IN  /\ Go(p, "write", "put_unlock")
      /\ buf' = [buf EXCEPT ![b].items[i[p] % NumItems] = Value(b, i[p])]
      /\ UNCHANGED <<i, made, got>>

PutUnlock(b) == Unlock(b, Putter(b), "put_unlock", "post_nstored")

PostNstored(b) ==
  /\ pc[Putter(b)] = "post_nstored" /\ Post(b, "nstored")
  /\ Step(Putter(b), "nempty", "nstored", "w")

WaitNstored(b) == Wait(b, "nstored", Getter(b), "nstored", "get_mutex")
GetLock(b)     == Wait(b, "mutex", Getter(b), "get_mutex", "read")

Read(b) ==
  LET p == Getter(b)
  IN  /\ Go(p, "read", "get_unlock")
      /\ got' = [got EXCEPT ![p] = Append(@, buf[b].items[i[p] % NumItems])]
      /\ UNCHANGED <<i, buf, made>>

GetUnlock(b) == Unlock(b, Getter(b), "get_unlock", "post_nempty")

PostNempty(b) ==
  /\ pc[Getter(b)] = "post_nempty" /\ Post(b, "nempty")
  /\ Step(Getter(b), "nstored", "nempty", "r")

Put(b) == WaitNempty(b) \/ PutLock(b) \/ Write(b) \/ PutUnlock(b) \/ PostNstored(b)
Get(b) == WaitNstored(b) \/ GetLock(b) \/ Read(b) \/ GetUnlock(b) \/ PostNempty(b)

W == MakeData \/ CreateVic \/ TruncateVic \/ Put("data") \/ Get("vic")
R == OpenVic \/ ConstructVic \/ Get("data") \/ Put("vic")

Terminated == (\A p \in Procs : pc[p] = "done") /\ UNCHANGED vars

Next == W \/ R \/ Terminated

Spec == Init /\ [][Next]_vars

\* Both programs are scheduled; nobody else uses the semaphores.
FairSpec == Spec /\ WF_vars(W) /\ WF_vars(R)

-----------------------------------------------------------------------------
(* What must hold.                                                         *)

Steps == {"start", "data", "create", "open", "nempty", "put_mutex", "write",
          "put_unlock", "post_nstored", "nstored", "get_mutex", "read",
          "get_unlock", "post_nempty", "done"}

\* Every variable stays in its range; no semaphore exceeds what it counts.
TypeOK ==
  /\ pc \in [Procs -> Steps] /\ i \in [Procs -> 0..NumMsg - 1]
  /\ buf \in [Bufs -> [mutex : 0..1, nempty : 0..NumItems,
                       nstored : 0..NumItems, items : [Slots -> Nat]]]
  /\ made \in [Bufs -> Stages]
  /\ got \in [Procs -> Seq(Nat)]

\* Each program extracts what the other one put, in order, whatever the two
\* loops do to the ring meanwhile (r.cpp:83-100, w.cpp:81-105).
InOrder ==
  \A b \in Bufs :
    LET s == got[Getter(b)]
    IN  Len(s) <= NumMsg /\ \A n \in 1..Len(s) : s[n] = Value(b, n - 1)

Putting == {"nempty", "put_mutex", "write", "put_unlock", "post_nstored"}
Getting == {"nstored", "get_mutex", "read", "get_unlock", "post_nempty"}

\* w never touches the second buffer before r has constructed it, although
\* nothing makes w wait for that: NumMsg > NumItems does (w.cpp:78-99).
ConstructedBeforeUse ==
  /\ pc["w"] \in Getting => made["vic"] = "constructed"
  /\ pc["r"] \in Getting \cup Putting => made["data"] = "constructed"

\* Both programs come to their end.
BothEnd == <>(\A p \in Procs : pc[p] = "done")

\* The values put and not yet read.
PutCount(b) ==
  LET p == Putter(b)
      inLoop == IF b = "data" THEN pc[p] \in Putting \cup {"start", "data", "create"}
                ELSE pc[p] \in Putting \cup Getting \cup {"start", "open"}
      n == IF pc[p] \in Putting THEN i[p] ELSE 0
  IN  IF inLoop THEN n + (IF pc[p] \in {"put_unlock", "post_nstored"} THEN 1 ELSE 0)
                ELSE NumMsg
Buffered(b) ==
  LET n == Len(got[Getter(b)])
  IN  [k \in 1..PutCount(b) - n |-> buf[b].items[(n + k - 1) % NumItems]]

Values == 0..NumMsg + 10
DataChannel == INSTANCE BoundedChannel
  WITH Capacity <- NumItems, buffered <- Buffered("data"), received <- got["r"]
VicChannel == INSTANCE BoundedChannel
  WITH Capacity <- NumItems, buffered <- Buffered("vic"), received <- got["w"]

\* Either buffer is a bounded channel: what is written is read once, in order.
ImplementsChannels == DataChannel!Spec /\ VicChannel!Spec

=============================================================================
