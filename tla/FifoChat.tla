------------------------------ MODULE FifoChat ------------------------------
(***************************************************************************)
(* ipc/pipe/example/read_write.c and write_read.c: two users take turns at *)
(* one FIFO.  Both programs go round the same circle, one from the reading *)
(* half and the other from the writing half.  Opening a FIFO waits until   *)
(* somebody has opened its other end, and counts as open meanwhile; what   *)
(* is in a FIFO goes when nobody has it open.                              *)
(***************************************************************************)
EXTENDS Integers, Sequences

CONSTANT MaxChats   \* bound: how often each program is started

BoundsOK == MaxChats \in Nat

Users == {"read_write", "write_read"}
Partner(u) == IF u = "read_write" THEN "write_read" ELSE "read_write"

VARIABLES
  place,     \* where each program is, "off" when it does not run
  pipe,      \* the lines in the FIFO, by who wrote them
  printed,   \* whose line a program has printed last
  unheard,   \* auxiliary: lines written and not printed by the partner
  chats,     \* how often each program was started
  crash      \* auxiliary: somebody was killed

fifo == <<place, pipe, printed, unheard, chats, crash>>

Init ==
  /\ place = [u \in Users |-> "off"] /\ pipe = <<>>
  /\ printed = [u \in Users |-> "nobody"] /\ unheard = [u \in Users |-> 0]
  /\ chats = [u \in Users |-> 0] /\ crash = FALSE

First_Same(u) == "open read"   \* mutant: both programs read first
First(u) == IF u = "read_write" THEN "open read" ELSE "open write"

Start(u) ==
  /\ place[u] = "off" /\ chats[u] < MaxChats
  /\ place' = [place EXCEPT ![u] = First(u)]
  /\ chats' = [chats EXCEPT ![u] = @ + 1]
  /\ UNCHANGED <<pipe, printed, unheard, crash>>

Reads(u)  == place[u] \in {"wait for writer", "read", "close read"}
Writes(u) == place[u] \in {"wait for reader", "write", "close write"}

\* Whoever waits in open for this end goes on, even if it is closed again
\* before he runs.
OpenRead_NoWait(u) ==   \* mutant: O_NONBLOCK
  /\ place[u] = "open read"
  /\ place' = [v \in Users |-> IF v = u THEN "read"
                ELSE IF place[v] = "wait for reader" THEN "write" ELSE place[v]]
  /\ UNCHANGED <<pipe, printed, unheard, chats, crash>>
OpenRead(u) ==
  /\ place[u] = "open read"
  /\ place' = [v \in Users |->
                IF v = u THEN IF Writes(Partner(u)) THEN "read" ELSE "wait for writer"
                ELSE IF place[v] = "wait for reader" THEN "write" ELSE place[v]]
  /\ UNCHANGED <<pipe, printed, unheard, chats, crash>>

OpenWrite(u) ==
  /\ place[u] = "open write"
  /\ place' = [v \in Users |->
                IF v = u THEN IF Reads(Partner(u)) THEN "write" ELSE "wait for reader"
                ELSE IF place[v] = "wait for writer" THEN "read" ELSE place[v]]
  /\ UNCHANGED <<pipe, printed, unheard, chats, crash>>

Go(u, from, to) == place[u] = from /\ place' = [place EXCEPT ![u] = to]

\* The first line of those that fit into 80 characters is printed.
ReadLines(u) ==
  /\ Go(u, "read", "close read")
  /\ \E n \in 1..Len(pipe) :
       /\ pipe' = SubSeq(pipe, n + 1, Len(pipe))
       /\ printed' = [printed EXCEPT ![u] = pipe[1]]
       /\ unheard' = [unheard EXCEPT ![pipe[1]] = @ - 1]
  /\ UNCHANGED <<chats, crash>>

\* Without a writer read returns at once and the old buffer is printed.
ReadNothing(u) ==
  /\ Go(u, "read", "close read") /\ pipe = <<>> /\ ~Writes(Partner(u))
  /\ printed' = [printed EXCEPT ![u] = "old"]
  /\ UNCHANGED <<pipe, unheard, chats, crash>>

\* fgets and write.
WriteLine(u) ==
  /\ Go(u, "write", "close write") /\ Reads(Partner(u))
  /\ pipe' = Append(pipe, u) /\ unheard' = [unheard EXCEPT ![u] = @ + 1]
  /\ UNCHANGED <<printed, chats, crash>>

\* What the FIFO holds when u closes it.
Left(u) == IF Reads(Partner(u)) \/ Writes(Partner(u)) THEN pipe ELSE <<>>

CloseRead(u) ==
  /\ Go(u, "close read", "open write") /\ pipe' = Left(u)
  /\ UNCHANGED <<printed, unheard, chats, crash>>

CloseWrite(u) ==
  /\ Go(u, "close write", "open read") /\ pipe' = Left(u)
  /\ UNCHANGED <<printed, unheard, chats, crash>>

\* Without a reader write ends the program by SIGPIPE.
Broken(u) ==
  /\ Go(u, "write", "off") /\ ~Reads(Partner(u)) /\ pipe' = Left(u)
  /\ UNCHANGED <<printed, unheard, chats, crash>>

\* The programs have no other end.
Kill(u) ==
  /\ place[u] # "off" /\ place' = [place EXCEPT ![u] = "off"]
  /\ pipe' = Left(u) /\ crash' = TRUE
  /\ UNCHANGED <<printed, unheard, chats>>

User(u) == \/ OpenRead(u) \/ ReadLines(u) \/ ReadNothing(u) \/ CloseRead(u)
           \/ OpenWrite(u) \/ WriteLine(u) \/ Broken(u) \/ CloseWrite(u)

Next == \E u \in Users : Start(u) \/ User(u) \/ Kill(u)

Spec == Init /\ [][Next]_fifo

\* The programs are scheduled, and both users type.
FairSpec == Spec /\ \A u \in Users : WF_fifo(User(u))

-----------------------------------------------------------------------------
(* What must hold.                                                         *)

\* Every variable stays in its range.
TypeOK ==
  /\ place \in [Users -> {"off", "open read", "wait for writer", "read",
                          "close read", "open write", "wait for reader",
                          "write", "close write"}]
  /\ pipe \in Seq(Users) /\ printed \in [Users -> Users \cup {"nobody", "old"}]
  /\ unheard \in [Users -> Nat]
  /\ chats \in [Users -> 0..MaxChats] /\ crash \in BOOLEAN

\* As long as nobody is killed the users take turns, though either may open
\* the FIFO again before the other one has closed it: no line is lost, none
\* is printed by who wrote it, and no old buffer is printed
\* (read_write.c:25-37, write_read.c:24-44).
TakeTurns ==
  ~crash =>
    /\ unheard["read_write"] + unheard["write_read"] = Len(pipe) /\ Len(pipe) <= 1
    /\ \A u \in Users : printed[u] \in {"nobody", Partner(u)}

\* ... and either user gets to write again and again: the two never wait for
\* each other at the same end.
KeepTalking ==
  \A u \in Users :
    place[u] # "off" /\ place[Partner(u)] # "off" ~> place[u] = "write" \/ crash

=============================================================================
