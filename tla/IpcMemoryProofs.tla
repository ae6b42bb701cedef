--------------------------- MODULE IpcMemoryProofs ----------------------------
(***************************************************************************)
(* Proofs about the two pairs of IpcMemory: the System V semaphores        *)
(* account for the buffer, and "/mysem" keeps the two variables together.  *)
(* Each pair has an inductive invariant of its own; a step of MemorySpec   *)
(* is one of the one pair, and the other pair stays as it is.              *)
(***************************************************************************)
EXTENDS IpcMemory, Sequences, FiniteSetTheorems, TLAPS

-----------------------------------------------------------------------------
(* The System V pair.                                                      *)

\* Between downMutex and upMutex.
AtBuffer(p) == at[p] \in {"count", "store", "unlock"}

\* The slots in use: what FULL counts, the one that the producer has stored and
\* not announced, and the one that the consumer has claimed and not cleared.
Stored == sem.FULL + Num(at["producer"] \in {"unlock", "up"})
                   + Num(at["consumer"] \in {"lock", "count", "store"})

\* The state of a pair that nobody upset: Accounts and OneInside, and what they
\* rest on.  A producer on its way to clear the buffer has found or set EMPTY
\* to all slots, so that there is nothing in it to lose (shared.c:6-15).
Steady ==
  /\ sem.EMPTY + sem.FULL + Num(at["producer"] \in Holding)
                          + Num(at["consumer"] \in Holding) = BUFFER_SIZE
  /\ sem.MUTEX + Num(AtBuffer("producer")) + Num(AtBuffer("consumer")) = 1
  /\ Looping("producer") \/ sem.FULL > 0 \/ at["consumer"] \in Holding =>
       \A s \in Slots : sbuff[s] <=> s < Stored
  /\ at["producer"] \in {"MUTEX", "clear"} => sem.EMPTY = BUFFER_SIZE
  /\ at["producer"] = "store" => index["producer"] = Stored
  /\ at["consumer"] = "store" => index["consumer"] = Stored - 1

\* A producer that runs has items left.
ItemsLeft == at["producer"] # "out" => cnt > 0

SysvInv == TypeOK /\ ItemsLeft /\ (sound => Steady)

\* The three semaphores by name.
LEMMA Semaphores == DOMAIN Initial = {"FULL", "EMPTY", "MUTEX"}
                    /\ Initial \in [DOMAIN Initial -> Nat]
                    /\ Initial.FULL = 0 /\ Initial.EMPTY = BUFFER_SIZE
                    /\ Initial.MUTEX = 1
BY SizesAssumption DEF Initial

\* get_buffer_size counts no more than the buffer has, and counts the right
\* number when what it holds is packed at its start (shared.c:6-15).
LEMMA SizeIs ==
  ASSUME TypeOK
  PROVE  /\ Size \in 0..BUFFER_SIZE
         /\ \A n \in 0..BUFFER_SIZE :
              (\A s \in Slots : sbuff[s] <=> s < n) => Size = n
<1> DEFINE used == {s \in Slots : sbuff[s]}
<1>1. IsFiniteSet(Slots) /\ Cardinality(Slots) = BUFFER_SIZE
  BY SizesAssumption, FS_Interval DEF Slots
<1>2. IsFiniteSet(used) /\ Cardinality(used) <= BUFFER_SIZE
  BY <1>1, FS_Subset
<1>3. Cardinality(used) \in 0..BUFFER_SIZE
  BY <1>2, FS_CardinalityType, SizesAssumption
<1>4. ASSUME NEW n \in 0..BUFFER_SIZE, \A s \in Slots : sbuff[s] <=> s < n
      PROVE  Cardinality(used) = n
  <2>1. used = 0..n-1
    BY <1>4, SizesAssumption DEF Slots
  <2>2. Cardinality(0..n-1) = n
    BY FS_Interval, SizesAssumption
  <2> QED BY <2>1, <2>2
<1> QED BY <1>3, <1>4 DEF Size

\* Each System V step keeps the invariant.
LEMMA SysvStep ==
  ASSUME SysvInv, Next
  PROVE  SysvInv'
<1> USE DEF SysvInv, Programs, Places, Holding, Slots
<1>0. at \in [Programs -> Places] /\ sem \in [{"FULL", "EMPTY", "MUTEX"} -> Nat]
      /\ BUFFER_SIZE \in Nat /\ Rounds \in Nat /\ MaxStarts \in Nat
  BY Semaphores, SizesAssumption, StartsAssumption DEF TypeOK
<1>1. CASE Clear
  <2>1. TypeOK' /\ ItemsLeft'
    BY <1>0, <1>1 DEF TypeOK, Clear, Go, ItemsLeft
  <2>2. sound' => Steady'
    BY <1>0, <1>1 DEF Clear, Go, Steady, AtBuffer, Stored, Num, Looping
  <2> QED BY <2>1, <2>2
<1>2. ASSUME NEW p \in Programs, Start(p)
      PROVE  SysvInv'
  <2>1. TypeOK' /\ ItemsLeft'
    BY <1>0, <1>2, SizesAssumption DEF TypeOK, Start, Go, ItemsLeft
  <2>2. sound' => Steady'
    BY <1>0, <1>2 DEF Start, Go, Steady, AtBuffer, Stored, Num, Looping
  <2> QED BY <2>1, <2>2
<1>3. ASSUME NEW p \in Programs, NEW s \in DOMAIN Initial, SetSemaphore(p, s)
      PROVE  SysvInv'
  <2>1. TypeOK' /\ ItemsLeft'
    BY <1>0, <1>3, Semaphores DEF TypeOK, SetSemaphore, Go, After, ItemsLeft, Looping, Other
  <2>2. /\ at[p] = s /\ at' = [at EXCEPT ![p] = After(p, s)]
        /\ s \in {"FULL", "EMPTY", "MUTEX"}
        /\ After(p, s) \in {"EMPTY", "MUTEX", "clear", "down"}
    BY <1>3, Semaphores DEF SetSemaphore, Go, After
  <2>3. CASE ~Looping(Other(p)) /\ sound'
    <3>1. sem' = Initial
      BY <1>3, <2>3 DEF SetSemaphore
    <3>2. \A q \in Programs : at'[q] \notin Holding
      BY <1>0, <2>2, <2>3 DEF Looping, Other
    <3>3. Looping("producer")' => FALSE \/ at'["producer"] = "down"
      BY <3>2 DEF Looping
    <3>4. at'["producer"] # "down"
      BY <1>0, <2>2, <2>3 DEF Looping, Other, After
    <3> QED BY <2>1, <2>3, <3>1, <3>2, <3>3, <3>4, Semaphores, SizesAssumption
            DEF Steady, AtBuffer, Num
  <2>4. CASE Looping(Other(p)) /\ sound'
    <3>1. sound /\ sem[s] = Initial[s] /\ sem' = sem
      BY <1>0, <1>3, <2>2, <2>4 DEF SetSemaphore
    <3>2. UNCHANGED <<sbuff, index>>
      BY <1>3 DEF SetSemaphore
    <3>3. p = "producer" /\ s = "EMPTY" => sem.EMPTY = BUFFER_SIZE
      BY <3>1, Semaphores
    <3> QED BY <1>0, <2>1, <2>2, <3>1, <3>2, <3>3
            DEF Steady, AtBuffer, Stored, Num, Looping, After
  <2> QED BY <2>1, <2>3, <2>4
<1>4. ASSUME NEW p \in Programs, Down(p)
      PROVE  SysvInv'
  <2>1. TypeOK' /\ ItemsLeft'
    BY SMTT(30), <1>0, <1>4, Semaphores DEF TypeOK, Down, Go, Semop, Taken, ItemsLeft
  <2>2. sound' => Steady'
    BY <1>0, <1>4 DEF Down, Go, Semop, Taken, Steady, AtBuffer, Stored, Num, Looping
  <2> QED BY <2>1, <2>2
<1>5. ASSUME NEW p \in Programs, Lock(p)
      PROVE  SysvInv'
  <2>1. TypeOK' /\ ItemsLeft'
    BY SMTT(30), <1>0, <1>5, Semaphores DEF TypeOK, Lock, Go, Semop, ItemsLeft
  <2>2. sound' => Steady'
    BY <1>0, <1>5 DEF Lock, Go, Semop, Steady, AtBuffer, Stored, Num, Looping
  <2> QED BY <2>1, <2>2
<1>6. ASSUME NEW p \in Programs, Count(p)
      PROVE  SysvInv'
  <2>1. TypeOK' /\ ItemsLeft'
    BY SMTT(30), <1>0, <1>6, SizeIs DEF TypeOK, Count, Go, ItemsLeft
  <2>2. sound => Stored \in 0..BUFFER_SIZE /\ Size = Stored
    <3>1. sound => Stored \in 0..BUFFER_SIZE
      BY <1>0, <1>6 DEF Count, Go, Steady, Stored, Num
    <3>2. sound => \A s \in Slots : sbuff[s] <=> s < Stored
      BY <1>0, <1>6 DEF Count, Go, Steady, Looping
    <3> QED BY <3>1, <3>2, SizeIs
  <2>3. sound' => Steady'
    BY <1>0, <1>6, <2>2 DEF TypeOK, Count, Go, Steady, AtBuffer, Stored, Num, Looping
  <2> QED BY <2>1, <2>3
<1>7. ASSUME NEW p \in Programs, Store(p)
      PROVE  SysvInv'
  <2>1. TypeOK' /\ ItemsLeft'
    BY <1>0, <1>7 DEF TypeOK, Store, Go, ItemsLeft
  <2>2. /\ at[p] = "store" /\ at' = [at EXCEPT ![p] = "unlock"]
        /\ UNCHANGED <<sem, index, sound>>
    BY <1>7 DEF Store, Go
  <2>3. ASSUME sound
        PROVE  /\ Stored \in Nat /\ index[p] = IF p = "producer" THEN Stored ELSE Stored - 1
               /\ Stored' = IF p = "producer" THEN Stored + 1 ELSE Stored - 1
               /\ \A s \in Slots : sbuff[s] <=> s < Stored
    BY <1>0, <2>2, <2>3 DEF Steady, AtBuffer, Stored, Num, Looping
  <2>4. ASSUME sound, NEW s \in Slots
        PROVE  sbuff'[s] <=> s < Stored'
    <3>1. sbuff'[s] = IF s = index[p] THEN p = "producer" ELSE sbuff[s]
      BY <1>7 DEF Store
    <3>2. s \in Int
      BY <1>0
    <3>3. CASE s = index[p]
      <4>1. s < Stored' <=> p = "producer"
        BY <2>3, <2>4, <3>2, <3>3
      <4>2. sbuff'[s] = (p = "producer")
        BY <3>1, <3>3
      <4> QED BY <4>1, <4>2
    <3>5. CASE s # index[p]
      <4>1. s < Stored' <=> s < Stored
        BY <2>3, <2>4, <3>2, <3>5
      <4>2. sbuff'[s] = sbuff[s]
        BY <3>1, <3>5
      <4> QED BY <2>3, <2>4, <4>1, <4>2
    <3> QED BY <3>3, <3>5
  <2>5. sound' => Steady'
    BY <1>0, <2>2, <2>4 DEF Steady, AtBuffer, Num, Looping
  <2> QED BY <2>1, <2>5
<1>8. ASSUME NEW p \in Programs, Unlock(p)
      PROVE  SysvInv'
  <2>1. TypeOK' /\ ItemsLeft'
    BY SMTT(30), <1>0, <1>8, Semaphores DEF TypeOK, Unlock, Go, Semop, ItemsLeft
  <2>2. sound' => Steady'
    BY <1>0, <1>8 DEF Unlock, Go, Semop, Steady, AtBuffer, Stored, Num, Looping
  <2> QED BY <2>1, <2>2
<1>9. ASSUME NEW p \in Programs, Up(p)
      PROVE  SysvInv'
  <2>1. TypeOK' /\ ItemsLeft'
    <3>1. Given(p) \in DOMAIN Initial /\ sem' \in [DOMAIN Initial -> Nat]
      BY <1>0, <1>9, Semaphores DEF Up, Semop, Given, Taken, Other
    <3>2. at' \in [Programs -> Places] /\ UNCHANGED <<sbuff, index, starts, sound>>
      BY <1>0, <1>9 DEF Up, Go
    <3>3. cnt \in 0..Rounds /\ (at["producer"] # "out" => cnt > 0)
      BY DEF TypeOK, ItemsLeft
    <3>4. cnt' \in 0..Rounds /\ ItemsLeft'
      BY <1>0, <1>9, <3>3 DEF Up, Go, ItemsLeft
    <3> QED BY <3>1, <3>2, <3>4 DEF TypeOK
  <2>2. sound' => Steady'
    BY <1>0, <1>9 DEF Up, Go, Semop, Given, Taken, Other, Steady, AtBuffer, Stored,
       Num, Looping
  <2> QED BY <2>1, <2>2
<1>10. ASSUME NEW p \in Programs, Kill(p)
       PROVE  SysvInv'
  <2>1. TypeOK' /\ ItemsLeft'
    BY <1>0, <1>10 DEF TypeOK, Kill, ItemsLeft
  <2>2. sound' => Steady'
    BY <1>0, <1>10 DEF Kill, Steady, AtBuffer, Stored, Num, Looping
  <2> QED BY <2>1, <2>2
<1> QED
  BY <1>1, <1>2, <1>3, <1>4, <1>5, <1>6, <1>7, <1>8, <1>9, <1>10 DEF Next, Program

\* What the invariant says of the buffer (shared.c:6-85).
LEMMA SysvFacts ==
  ASSUME SysvInv
  PROVE  TypeOK /\ BufferKept
<1> USE DEF SysvInv, Programs, Places, Holding, Slots
<1>0. at \in [Programs -> Places] /\ sem \in [{"FULL", "EMPTY", "MUTEX"} -> Nat]
      /\ BUFFER_SIZE \in Nat
  BY Semaphores, SizesAssumption DEF TypeOK
<1>1. Accounts
  BY <1>0 DEF Accounts, Steady, Stored
<1>2. StoresFit
  <2>1. ASSUME sound, NEW p \in Programs, at[p] = "store"
        PROVE  index[p] \in Slots /\ sbuff[index[p]] = (p = "consumer")
    <3>1. /\ Stored \in Nat /\ index[p] = IF p = "producer" THEN Stored ELSE Stored - 1
          /\ index[p] \in Slots /\ \A s \in Slots : sbuff[s] <=> s < Stored
      BY <1>0, <2>1 DEF Steady, AtBuffer, Stored, Num, Looping
    <3>2. sbuff[index[p]] \in BOOLEAN
      BY <3>1 DEF TypeOK
    <3> QED BY <3>1, <3>2
  <2> QED BY <2>1 DEF StoresFit
<1>3. OneInside
  BY <1>0 DEF OneInside, Steady, AtBuffer, Num
<1> QED BY <1>1, <1>2, <1>3 DEF BufferKept

\* A step of the named pair does not touch it.
LEMMA SysvStutter ==
  ASSUME SysvInv, UNCHANGED sysv
  PROVE  SysvInv'
<1>1. TypeOK' /\ ItemsLeft'
  BY DEF sysv, SysvInv, TypeOK, ItemsLeft
<1>2. sound' => Steady'
  BY DEF sysv, SysvInv, Steady, AtBuffer, Num, Looping, Stored
<1> QED BY <1>1, <1>2 DEF SysvInv

\* Neither program runs yet, and nobody has set the semaphores.
LEMMA SysvStarts ==
  ASSUME Init
  PROVE  SysvInv
<1>1. /\ 0 \in Nat /\ 0 \in -1..BUFFER_SIZE /\ 0 \in 0..Rounds /\ 0 \in 0..MaxStarts
      /\ "out" \in Places
  BY SizesAssumption, StartsAssumption DEF Places
<1>2. TypeOK
  <2>1. sem \in [DOMAIN Initial -> Nat]
    BY <1>1 DEF Init
  <2>2. /\ at \in [Programs -> Places] /\ sbuff \in [Slots -> BOOLEAN]
        /\ index \in [Programs -> -1..BUFFER_SIZE] /\ cnt \in 0..Rounds
        /\ starts \in [Programs -> 0..MaxStarts] /\ sound \in BOOLEAN
    BY <1>1 DEF Init
  <2> QED BY <2>1, <2>2 DEF TypeOK
<1>3. ItemsLeft /\ ~sound
  BY DEF Init, ItemsLeft, Programs
<1> QED BY <1>2, <1>3 DEF SysvInv

-----------------------------------------------------------------------------
(* The named pair.                                                         *)

\* In its loop, with both objects opened.
Ready(p) == where[p] \in {"wait", "var1", "var2", "post"}

\* How many programs are between sem_wait and sem_post of a semaphore.
HoldsSem(p, s) == Named!Inside(p) /\ mine[p].sem = s

\* A semaphore is free or has one holder, or nobody ever gets it again.
SemaphoresKept ==
  \A s \in 1..Len(value) :
    IF s \in abandoned
      THEN value[s] = 0 /\ ~HoldsSem("pro", s) /\ ~HoldsSem("con", s)
      ELSE value[s] + Num(HoldsSem("pro", s)) + Num(HoldsSem("con", s)) = 1

\* What has been opened where: a program that runs has its memory, one in its
\* loop its semaphore and a turn left.
Opened ==
  \A p \in Named!Procs :
    /\ where[p] # "out" => mine[p].shm # 0
    /\ Ready(p) => mine[p].sem # 0
    /\ where[p] = "out" => turn[p] = 0
    /\ Ready(p) \/ Named!Opening(p) => turn[p] < Turns

\* The same memory goes with the same semaphore: for two programs in their
\* loops, for one in its loop and one that has only the memory yet, and for one
\* in its loop and whoever starts next.
Tied(p, q) ==
  /\ Named!Removing(p) => names.shm = 0
  /\ Ready(p) /\ Ready(q) /\ mine[p].shm = mine[q].shm => mine[p].sem = mine[q].sem
  /\ Ready(p) /\ Named!Opening(q) /\ mine[p].shm = mine[q].shm => names.sem = mine[p].sem
  /\ Ready(p) /\ names.shm = mine[p].shm => names.sem = mine[p].sem

SameMemorySameSem ==
  /\ Named!Overlapping => overlap
  /\ ~overlap => Tied("pro", "con") /\ Tied("con", "pro")

\* A pair as pro leaves it, or as the memory was made.
Whole(m) == memory[m] = Named!Zeros \/ memory[m].var1 = memory[m].var2 + 10

\* pro is between its two stores to this memory.
Storing(m) == where["pro"] = "var2" /\ mine["pro"].shm = m

\* A memory with half a pair is pro's own, or the semaphore that goes with it
\* was abandoned and pro will not open that memory again.
Locked(m) ==
  /\ Ready("con") /\ mine["con"].shm = m => mine["con"].sem \in abandoned
  /\ Named!Opening("con") /\ mine["con"].shm = m => names.sem \in abandoned
  /\ names.shm = m => names.sem \in abandoned /\ where["pro"] = "handler shm"
  /\ mine["pro"].shm = m => where["pro"] \in {"handler shm", "handler sem"}

HalfIsLocked ==
  ~overlap => \A m \in 1..Len(memory) : Whole(m) \/ Storing(m) \/ Locked(m)

\* What has been copied so far.
CopyIsRight ==
  /\ where["pro"] = "var2" => memory[mine["pro"].shm].var1 = 10 + turn["pro"]
  /\ ~overlap =>
       /\ where["con"] = "var2" => copy.var1 = memory[mine["con"].shm].var1
       /\ where["con"] = "post" => copy = Named!Zeros \/ copy.var1 = copy.var2 + 10

\* An abandoned semaphore keeps its name only until its holder's handler ends.
AbandonedIsRemoved ==
  names.sem \in abandoned =>
    \E p \in Named!Procs : /\ mine[p].sem = names.sem
                           /\ where[p] \in {"handler shm", "handler sem"}

NamedInv ==
  /\ Named!TypeOK /\ SemaphoresKept /\ Opened /\ SameMemorySameSem
  /\ HalfIsLocked /\ CopyIsRight /\ AbandonedIsRemoved

Pair == [var1 : Nat, var2 : Nat]
Handles(m, s) == [shm : 0..m, sem : 0..s]

\* One more object, and the others as they were.
Extended(old, new, e) ==
  /\ Len(new) = Len(old) + 1 /\ new[Len(new)] = e
  /\ \A k \in 1..Len(old) : new[k] = old[k]

\* What the type invariant says of each piece of the state.
NamedTypes ==
  /\ where \in [{"pro", "con"} -> Named!Places]
  /\ Len(value) \in Nat /\ \A s \in 1..Len(value) : value[s] \in 0..1
  /\ Len(memory) \in Nat /\ \A m \in 1..Len(memory) : memory[m] \in Pair
  /\ names.shm \in 0..Len(memory) /\ names.sem \in 0..Len(value)
  /\ \A q \in {"pro", "con"} : /\ mine[q].shm \in 0..Len(memory)
                               /\ mine[q].sem \in 0..Len(value)
                               /\ turn[q] \in 0..Turns
  /\ copy \in Pair /\ abandoned \subseteq 1..Len(value) /\ overlap \in BOOLEAN

\* What is said of each piece is what the type invariant of the pair says.
LEMMA TypesOfNamed ==
  ASSUME Named!TypeOK
  PROVE  NamedTypes
<1>1. /\ where \in [{"pro", "con"} -> Named!Places]
      /\ value \in Seq(0..1) /\ memory \in Seq(Pair)
      /\ names \in Handles(Len(memory), Len(value))
      /\ mine \in [{"pro", "con"} -> Handles(Len(memory), Len(value))]
      /\ turn \in [{"pro", "con"} -> 0..Turns]
      /\ copy \in Pair /\ abandoned \subseteq 1..Len(value) /\ overlap \in BOOLEAN
  BY DEF Named!TypeOK, Named!Procs, Pair, Handles
<1>2. /\ Len(value) \in Nat /\ \A s \in 1..Len(value) : value[s] \in 0..1
      /\ Len(memory) \in Nat /\ \A m \in 1..Len(memory) : memory[m] \in Pair
  BY <1>1
<1>3. names.shm \in 0..Len(memory) /\ names.sem \in 0..Len(value)
  BY <1>1 DEF Handles
<1>4. ASSUME NEW q \in {"pro", "con"}
      PROVE  /\ mine[q].shm \in 0..Len(memory) /\ mine[q].sem \in 0..Len(value)
             /\ turn[q] \in 0..Turns
  <2>1. mine[q] \in Handles(Len(memory), Len(value))
    BY <1>1
  <2> QED BY <1>1, <2>1 DEF Handles
<1> QED BY <1>1, <1>2, <1>3, <1>4 DEF NamedTypes

\* Objects are numbered from 1: 0 is none.
LEMMA NoObjectZero ==
  ASSUME NamedTypes
  PROVE  0 \notin abandoned /\ \A m \in 1..Len(memory) : m # 0
<1>1. abandoned \subseteq 1..Len(value) /\ Len(value) \in Nat /\ Len(memory) \in Nat
  BY DEF NamedTypes
<1> HIDE DEF NamedTypes
<1> QED BY <1>1

\* Objects are only ever added, so what stood for one still does.
LEMMA HandlesGrow ==
  ASSUME NEW m \in Nat, NEW s \in Nat, NEW m2 \in Nat, NEW s2 \in Nat,
         m <= m2, s <= s2
  PROVE  Handles(m, s) \subseteq Handles(m2, s2)
BY DEF Handles

\* Turns and runs are counted from 0.
LEMMA CountsFromZero == 0 \in 0..Turns /\ 0 \in 0..MaxRuns
BY NamedAssumption DEF Named!BoundsOK

\* A semaphore at 1 that nobody holds.
LEMMA FreeForAll ==
  ASSUME NEW v, v = 1
  PROVE  v + 0 + 0 = 1
OBVIOUS

\* Numbers of objects stay numbers of objects.
LEMMA NumbersGrow ==
  ASSUME NEW m \in Nat, NEW n \in Nat, m <= n
  PROVE  1..m \subseteq 1..n
OBVIOUS

\* An object that is made is the last one.
LEMMA AppendExtends ==
  ASSUME NEW S, NEW old \in Seq(S), NEW e \in S
  PROVE  Append(old, e) \in Seq(S) /\ Extended(old, Append(old, e), e)
BY DEF Extended

\* ... also when only a semaphore is made.
LEMMA SemHandlesGrow ==
  ASSUME NEW m \in Nat, NEW s \in Nat, NEW s2 \in Nat, s <= s2
  PROVE  Handles(m, s) \subseteq Handles(m, s2)
BY DEF Handles

\* An overlap is noted when it happens, and never forgotten.
LEMMA NotedFacts ==
  ASSUME overlap \in BOOLEAN, Named!Noted
  PROVE  (Named!Overlapping' => overlap') /\ (overlap => overlap') /\ overlap' \in BOOLEAN
<1>1. overlap' = (overlap \/ Named!Overlapping')
  BY DEF Named!Noted
<1>2. (Named!Overlapping' \in BOOLEAN)
  BY DEF Named!Overlapping
<1> QED BY <1>1, <1>2

\* shm_open: a program begins with the memory that the name stands for, or with
\* a new one of its own (pro.c:63-67, con.c:63-67).
LEMMA NamedStart ==
  ASSUME NamedInv, NEW p \in Named!Procs, Named!Start(p), Named!Noted
  PROVE  NamedInv'
<1> USE DEF NamedInv, Named!Procs
<1>1. NamedTypes
  BY TypesOfNamed
<1>2. /\ where[p] = "out" /\ where' = [where EXCEPT ![p] = "open"]
      /\ UNCHANGED <<value, copy, turn, abandoned>>
  BY DEF Named!Start, Named!Go
<1>3. names'.sem = names.sem /\ names'.shm # 0
      /\ names' \in Handles(Len(memory'), Len(value))
      /\ \/ names.shm # 0 /\ memory' = memory /\ names' = names
         \/ /\ names.shm = 0 /\ names'.shm = Len(memory')
            /\ Extended(memory, memory', Named!Zeros)
            /\ memory' \in Seq(Pair)
  <2>1. names \in Handles(Len(memory), Len(value)) /\ memory \in Seq(Pair)
    BY DEF Named!TypeOK, Handles, Pair
  <2>2. CASE names.shm # 0
    BY <2>1, <2>2 DEF Named!Start, Handles
  <2>3. CASE names.shm = 0
    <3>1. memory' = Append(memory, Named!Zeros) /\ names' = [names EXCEPT !.shm = Len(memory')]
      BY <2>3 DEF Named!Start
    <3>2. Named!Zeros \in Pair
      BY DEF Named!Zeros, Pair
    <3>3. memory' \in Seq(Pair) /\ Extended(memory, memory', Named!Zeros)
      BY <2>1, <3>1, <3>2 DEF Extended
    <3>4. Len(memory') = Len(memory) + 1 /\ Len(memory) \in Nat
      BY <2>1, <3>3 DEF Extended
    <3> QED BY <2>1, <2>3, <3>1, <3>3, <3>4 DEF Handles
  <2> QED BY <2>2, <2>3
<1>4. /\ mine'[p].shm = names'.shm /\ mine'[p].sem = mine[p].sem
      /\ \A q \in Named!Procs : q # p => mine'[q] = mine[q]
  BY DEF Named!Start, Named!TypeOK
<1>5. Named!TypeOK'
  <2>1. mine' \in [Named!Procs -> Handles(Len(memory'), Len(value'))]
    <3>1. mine \in [Named!Procs -> Handles(Len(memory), Len(value))]
      BY DEF Named!TypeOK, Handles
    <3>2. mine[p] \in Handles(Len(memory), Len(value))
      BY <3>1
    <3>3. Handles(Len(memory), Len(value)) \subseteq Handles(Len(memory'), Len(value'))
      BY <1>1, <1>2, <1>3, HandlesGrow DEF NamedTypes, Extended
    <3>4. mine' = [mine EXCEPT ![p].shm = names'.shm]
      BY DEF Named!Start
    <3>5. names'.shm \in 0..Len(memory')
      BY <1>3 DEF Handles
    <3>6. [mine[p] EXCEPT !.shm = names'.shm] \in Handles(Len(memory'), Len(value'))
      BY <3>2, <3>3, <3>5 DEF Handles
    <3> QED BY <3>1, <3>3, <3>4, <3>6
  <2>2. /\ where' \in [Named!Procs -> Named!Places]
        /\ runs' \in [Named!Procs -> 0..MaxRuns]
    <3>1. where \in [Named!Procs -> Named!Places] /\ "open" \in Named!Places
      BY DEF Named!TypeOK, Named!Places
    <3>2. /\ runs \in [Named!Procs -> 0..MaxRuns] /\ runs[p] < MaxRuns
          /\ runs' = [runs EXCEPT ![p] = @ + 1] /\ MaxRuns \in Nat
      BY NamedAssumption DEF Named!TypeOK, Named!Start, Named!BoundsOK
    <3>3. runs[p] + 1 \in 0..MaxRuns
      BY <3>2
    <3> QED BY <1>2, <3>1, <3>2, <3>3
  <2>3. memory' \in Seq(Pair)
    BY <1>3 DEF Named!TypeOK, Pair
  <2>4. overlap' \in BOOLEAN
    BY <1>1, NotedFacts DEF NamedTypes
  <2> QED BY <1>2, <1>3, <2>1, <2>2, <2>3, <2>4 DEF Named!TypeOK, Handles, Pair
<1>6. SemaphoresKept'
  BY <1>1, <1>2, <1>3, <1>4 DEF SemaphoresKept, HoldsSem, Named!Inside, Num
<1>7. \A q \in Named!Procs : where'[q] = IF q = p THEN "open" ELSE where[q]
  BY <1>1, <1>2 DEF NamedTypes
<1>8. Opened'
  <2>1. ASSUME NEW q \in Named!Procs, q # p
        PROVE  where'[q] = where[q] /\ mine'[q] = mine[q] /\ turn'[q] = turn[q]
    BY <1>1, <1>2, <1>4, <2>1 DEF NamedTypes
  <2>2. where'[p] = "open" /\ mine'[p].shm # 0 /\ turn'[p] = 0 /\ 0 < Turns
    BY <1>1, <1>2, <1>3, <1>4, NamedAssumption DEF NamedTypes, Opened, Named!BoundsOK
  <2> QED BY <2>1, <2>2 DEF Opened, Ready, Named!Opening
<1>9. (Named!Overlapping' => overlap') /\ (overlap => overlap')
  BY <1>1, NotedFacts DEF NamedTypes
<1>10. SameMemorySameSem'
  <2>1. ASSUME NEW a \in Named!Procs, NEW b \in Named!Procs, a # b, ~overlap', Tied(a, b)
        PROVE  Tied(a, b)'
    <3>1. CASE p = a
      BY <1>7, <3>1 DEF Tied, Ready, Named!Removing
    <3>2. CASE p = b
      <4>1. /\ where'[a] = where[a] /\ mine'[a] = mine[a]
            /\ where'[b] = "open" /\ mine'[b].shm = names'.shm /\ ~Ready(b)'
        BY <1>4, <1>7, <2>1, <3>2 DEF Ready
      <4>2. ~Named!Removing(a)'
        BY <1>9, <2>1, <4>1 DEF Named!Overlapping, Named!Other, Named!Opening, Named!Removing
      <4>3. names.shm = 0 => mine[a].shm # names'.shm
        BY <1>1, <1>3 DEF NamedTypes, Extended
      <4> QED BY <1>3, <2>1, <4>1, <4>2, <4>3 DEF Tied, Ready
    <3> QED BY <2>1, <3>1, <3>2
  <2> QED BY <1>9, <2>1 DEF SameMemorySameSem
<1>11. HalfIsLocked'
  <2>1. ASSUME ~overlap', NEW m \in 1..Len(memory), Whole(m) \/ Storing(m) \/ Locked(m)
        PROVE  (Whole(m) \/ Storing(m) \/ Locked(m))'
    <3>1. memory'[m] = memory[m]
      BY <1>3, <2>1 DEF Extended
    <3>2. Whole(m) => Whole(m)'
      BY <3>1 DEF Whole
    <3>3. Storing(m) => Storing(m)'
      BY <1>2, <1>4, <1>7 DEF Storing
    <3>4. Locked(m) => Locked(m)'
      <4>1. names'.shm = m => names.shm = m
        BY <1>1, <1>3, <2>1 DEF NamedTypes, Extended
      <4>2. CASE p = "con"
        <5>1. /\ where'["con"] = "open" /\ where'["pro"] = where["pro"]
              /\ mine'["con"].shm = names'.shm /\ mine'["pro"] = mine["pro"]
          BY <1>4, <1>7, <4>2
        <5> QED BY <1>2, <1>3, <4>1, <5>1 DEF Locked, Ready, Named!Opening
      <4>3. CASE p = "pro"
        <5>1. /\ where'["pro"] = "open" /\ where'["con"] = where["con"]
              /\ mine'["pro"].shm = names'.shm /\ mine'["con"] = mine["con"]
              /\ where["pro"] = "out"
          BY <1>2, <1>4, <1>7, <4>3
        <5> QED BY <1>2, <1>3, <4>1, <5>1 DEF Locked, Ready, Named!Opening
      <4> QED BY <4>2, <4>3
    <3> QED BY <2>1, <3>2, <3>3, <3>4
  <2>2. ASSUME NEW m \in 1..Len(memory'), m \notin 1..Len(memory)
        PROVE  Whole(m)'
    BY <1>1, <1>3, <2>2 DEF NamedTypes, Extended, Whole
  <2> QED BY <1>9, <2>1, <2>2 DEF HalfIsLocked
<1>12. CopyIsRight'
  <2>1. \A m \in 1..Len(memory) : memory'[m] = memory[m]
    BY <1>3 DEF Extended
  <2>2. \A q \in Named!Procs : where[q] # "out" => mine[q].shm \in 1..Len(memory)
    BY <1>1 DEF NamedTypes, Opened
  <2> QED BY <1>2, <1>4, <1>7, <1>9, <2>1, <2>2 DEF CopyIsRight
<1>13. AbandonedIsRemoved'
  BY <1>1, <1>2, <1>3, <1>4 DEF AbandonedIsRemoved, NamedTypes
<1> QED BY <1>5, <1>6, <1>8, <1>10, <1>11, <1>12, <1>13

\* What a step of p leaves alone: the other program, and what it has opened.
OtherStays(p) ==
  \A q \in Named!Procs : q # p => /\ where'[q] = where[q] /\ mine'[q] = mine[q]
                                  /\ turn'[q] = turn[q]

\* The end of a program and its handler: whoever removes a semaphore's name has
\* removed the memory's name first (pro.c:44-45, 124-129).
LEMMA NamedLeaves ==
  ASSUME NamedInv, NEW p \in Named!Procs, Named!Noted, OtherStays(p),
         UNCHANGED <<value, memory, abandoned>>, p = "pro" => copy' = copy,
         \/ /\ where[p] \in {"unlink shm", "handler shm"}
            /\ names'.shm = 0 /\ names'.sem = names.sem
            /\ \/ where'[p] = "out" /\ where[p] = "unlink shm"
               \/ where'[p] = "unlink sem" /\ where[p] = "unlink shm"
               \/ where'[p] = "handler sem" /\ where[p] = "handler shm"
         \/ /\ where[p] \in {"unlink sem", "handler sem"} /\ where'[p] = "out"
            /\ names'.shm = names.shm /\ names'.sem = 0,
         IF where'[p] = "out" THEN mine'[p] = Named!None /\ turn'[p] = 0
                              ELSE mine'[p] = mine[p] /\ turn'[p] = turn[p]
  PROVE  /\ SemaphoresKept' /\ Opened' /\ SameMemorySameSem'
         /\ HalfIsLocked' /\ CopyIsRight' /\ AbandonedIsRemoved'
<1> USE DEF NamedInv, Named!Procs
<1>1. NamedTypes
  BY TypesOfNamed
<1>2. /\ where[p] \in {"unlink shm", "handler shm", "unlink sem", "handler sem"}
      /\ where'[p] \in {"out", "unlink sem", "handler sem"}
  OBVIOUS
<1>3. (Named!Overlapping' => overlap') /\ (overlap => overlap')
  BY <1>1, NotedFacts DEF NamedTypes
<1>4. \A q \in Named!Procs : /\ Ready(q)' => q # p /\ Ready(q)
                             /\ Named!Opening(q)' => q # p /\ Named!Opening(q)
                             /\ Named!Inside(q)' <=> Named!Inside(q)
                             /\ Named!Inside(q) => mine'[q] = mine[q]
  BY <1>2 DEF OtherStays, Ready, Named!Opening, Named!Inside
<1>5. SemaphoresKept'
  BY <1>4 DEF SemaphoresKept, HoldsSem, Num
<1>6. Opened'
  BY <1>2, <1>4 DEF Opened, OtherStays
<1>7. ~overlap' /\ names'.shm # 0 => ~Named!Removing(p)
  BY <1>3 DEF SameMemorySameSem, Tied
<1>8. SameMemorySameSem'
  <2>1. ASSUME NEW a \in Named!Procs, NEW b \in Named!Procs, a # b, ~overlap', Tied(a, b)
        PROVE  Tied(a, b)'
    <3>1. Named!Removing(a)' => names'.shm = 0
      BY <2>1 DEF OtherStays, Tied, Named!Removing
    <3>2. ASSUME Ready(a)'
          PROVE  Tied(a, b)'
      <4>1. Ready(a) /\ a # p /\ b = p /\ mine'[a] = mine[a] /\ mine[a].shm # 0
        BY <1>4, <2>1, <3>2 DEF OtherStays, Opened, Ready
      <4>2. ~Ready(b)' /\ ~Named!Opening(b)'
        BY <1>4, <4>1
      <4>3. names'.shm # 0 => names'.shm = names.shm /\ Named!Removing(p)
        BY DEF Named!Removing
      <4> QED BY <1>7, <2>1, <3>1, <4>1, <4>2, <4>3 DEF Tied
    <3> QED BY <3>1, <3>2 DEF Tied
  <2> QED BY <1>3, <2>1 DEF SameMemorySameSem
<1>9. HalfIsLocked'
  <2>1. ASSUME ~overlap', NEW m \in 1..Len(memory), Locked(m)
        PROVE  Locked(m)'
    <3>1. Ready("con")' /\ mine'["con"].shm = m => mine'["con"].sem \in abandoned
      BY <1>4, <2>1 DEF OtherStays, Locked
    <3>2. Named!Opening("con")' /\ mine'["con"].shm = m => names'.sem \in abandoned
      <4>1. Named!Opening("con")' => p = "pro" /\ Named!Opening("con")
        BY <1>4
      <4>2. Named!Opening("con") /\ p = "pro" => ~Named!Removing("pro")
        BY <1>3, <2>1 DEF SameMemorySameSem, Named!Overlapping, Named!Other
      <4>3. names'.sem # names.sem => Named!Removing(p)
        BY DEF Named!Removing
      <4> QED BY <2>1, <4>1, <4>2, <4>3 DEF OtherStays, Locked
    <3>3. names'.shm # m
      <4>1. names'.shm # 0 => Named!Removing(p)
        BY DEF Named!Removing
      <4>2. m # 0
        BY <1>1, NoObjectZero
      <4>3. names'.shm = 0 \/ ~Named!Removing(p)
        BY <1>7, <2>1
      <4> QED BY <4>1, <4>2, <4>3
    <3>4. mine'["pro"].shm = m => where'["pro"] \in {"handler shm", "handler sem"}
      <4>1. CASE p = "con"
        BY <2>1, <4>1 DEF OtherStays, Locked
      <4>2. CASE p = "pro"
        <5>1. m # 0 /\ (mine["pro"].shm = m => where["pro"] \in {"handler shm", "handler sem"})
          BY <1>1, <2>1, NoObjectZero DEF Locked
        <5>2. Named!None.shm = 0
          BY DEF Named!None
        <5>3. mine'["pro"].shm = m => where'["pro"] # "out" /\ mine'["pro"] = mine["pro"]
          BY <4>2, <5>1, <5>2
        <5> QED BY <4>2, <5>1, <5>3
      <4> QED BY <4>1, <4>2
    <3> QED BY <3>1, <3>2, <3>3, <3>4 DEF Locked
  <2>2. \A m : Storing(m) => Storing(m)'
    BY <1>2 DEF OtherStays, Storing
  <2>3. \A m : Whole(m) => Whole(m)'
    BY DEF Whole
  <2> QED BY <1>3, <2>1, <2>2, <2>3 DEF HalfIsLocked
<1>10. CopyIsRight'
  <2>1. where'["pro"] = "var2" =>
          where["pro"] = "var2" /\ mine'["pro"] = mine["pro"] /\ turn'["pro"] = turn["pro"]
    BY <1>2 DEF OtherStays
  <2>2. where'["con"] \in {"var2", "post"} =>
          where'["con"] = where["con"] /\ mine'["con"] = mine["con"] /\ copy' = copy
    BY <1>2 DEF OtherStays
  <2> QED BY <1>3, <2>1, <2>2 DEF CopyIsRight
<1>11. AbandonedIsRemoved'
  <2>1. names'.sem \in abandoned' => names'.sem = names.sem /\ names.sem \in abandoned
    <3>1. 0 \notin abandoned
      BY <1>1, NoObjectZero
    <3>2. names'.sem \in {0, names.sem}
      OBVIOUS
    <3> QED BY <3>1, <3>2
  <2>2. ASSUME NEW q \in Named!Procs, names'.sem = names.sem, names.sem # 0,
               mine[q].sem = names.sem, where[q] \in {"handler shm", "handler sem"}
        PROVE  mine'[q].sem = names.sem /\ where'[q] \in {"handler shm", "handler sem"}
    <3>1. CASE q # p
      BY <2>2, <3>1 DEF OtherStays
    <3>2. CASE q = p
      BY <2>2, <3>2
    <3> QED BY <3>1, <3>2
  <2>3. 0 \notin abandoned
    BY <1>1, NoObjectZero
  <2> QED BY <2>1, <2>2, <2>3 DEF AbandonedIsRemoved
<1> QED BY <1>5, <1>6, <1>8, <1>9, <1>10, <1>11

\* The types when no object is made: what a step of the loop or of the end
\* has to keep.
LEMMA NamedTypesKept ==
  ASSUME Named!TypeOK, Named!Noted, NEW p \in Named!Procs, NEW to \in Named!Places,
         where' = [where EXCEPT ![p] = to],
         value' \in Seq(0..1), Len(value') = Len(value),
         memory' \in Seq(Pair), Len(memory') = Len(memory),
         names' = names \/ (\E f \in {"shm", "sem"} : names' = [names EXCEPT ![f] = 0]),
         mine' = mine \/ mine' = [mine EXCEPT ![p] = Named!None],
         copy' \in Pair, turn' \in [Named!Procs -> 0..Turns], runs' = runs,
         abandoned' \subseteq 1..Len(value)
  PROVE  Named!TypeOK'
<1>1. NamedTypes
  BY TypesOfNamed
<1>2. where' \in [Named!Procs -> Named!Places]
  BY DEF Named!TypeOK
<1>3. names \in Handles(Len(memory), Len(value))
      /\ mine \in [Named!Procs -> Handles(Len(memory), Len(value))]
  BY DEF Named!TypeOK, Handles
<1>4. Named!None \in Handles(Len(memory), Len(value))
  BY <1>1 DEF NamedTypes, Named!None, Handles
<1>5. names' \in Handles(Len(memory), Len(value))
  <2>1. ASSUME NEW f \in {"shm", "sem"}, names' = [names EXCEPT ![f] = 0]
        PROVE  names' \in Handles(Len(memory), Len(value))
    <3>1. CASE f = "shm"
      BY SMTT(30), <1>1, <1>3, <2>1, <3>1 DEF NamedTypes, Handles
    <3>2. CASE f = "sem"
      BY SMTT(30), <1>1, <1>3, <2>1, <3>2 DEF NamedTypes, Handles
    <3> QED BY <3>1, <3>2
  <2> QED BY <1>3, <2>1
<1>6. mine' \in [Named!Procs -> Handles(Len(memory), Len(value))]
  BY <1>3, <1>4
<1>7. overlap' \in BOOLEAN
  BY <1>1, NotedFacts DEF NamedTypes
<1> QED BY <1>2, <1>5, <1>6, <1>7 DEF Named!TypeOK, Handles, Pair

\* A step that opens and removes nothing leaves the same memory with the same
\* semaphore.
LEMMA HandlesStay ==
  ASSUME NamedInv, NEW p \in Named!Procs, Named!Noted, OtherStays(p),
         UNCHANGED <<names, mine>>,
         Ready(p)' => Ready(p), ~Named!Opening(p)', ~Named!Removing(p)'
  PROVE  /\ SameMemorySameSem' /\ (overlap => overlap')
         /\ Named!Opening("con")' => Named!Opening("con")
         /\ Ready("con")' => Ready("con")
<1> USE DEF NamedInv, Named!Procs
<1>1. NamedTypes
  BY TypesOfNamed
<1>2. (Named!Overlapping' => overlap') /\ (overlap => overlap')
  BY <1>1, NotedFacts DEF NamedTypes
<1>3. \A q \in Named!Procs : /\ Ready(q)' => Ready(q)
                             /\ Named!Opening(q)' => Named!Opening(q)
                             /\ Named!Removing(q)' => Named!Removing(q)
  BY DEF OtherStays, Ready, Named!Opening, Named!Removing
<1>4. ASSUME NEW a \in Named!Procs, NEW b \in Named!Procs, Tied(a, b)
      PROVE  Tied(a, b)'
  BY <1>3, <1>4 DEF Tied
<1> QED BY <1>2, <1>3, <1>4 DEF SameMemorySameSem

\* ... and what has been opened stays open.
LEMMA OpenedKept ==
  ASSUME Opened, NEW p \in Named!Procs, OtherStays(p), UNCHANGED mine,
         where[p] # "out", where'[p] # "out", Ready(p)' => Ready(p), ~Named!Opening(p)',
         Ready(p)' => turn'[p] < Turns
  PROVE  Opened'
<1>1. ASSUME NEW q \in Named!Procs
      PROVE  /\ where'[q] # "out" => mine'[q].shm # 0
             /\ Ready(q)' => mine'[q].sem # 0
             /\ where'[q] = "out" => turn'[q] = 0
             /\ Ready(q)' \/ Named!Opening(q)' => turn'[q] < Turns
  <2>1. CASE q = p
    BY <2>1 DEF Opened
  <2>2. CASE q # p
    BY <2>2 DEF Opened, OtherStays, Ready, Named!Opening
  <2> QED BY <2>1, <2>2
<1> QED BY <1>1 DEF Opened

\* Whoever is inside has a semaphore that is taken, and nobody else has it; so
\* without an overlap nobody else is inside in the same memory.
LEMMA InsideIsAlone ==
  ASSUME NamedInv, NEW p \in Named!Procs, Named!Inside(p)
  PROVE  /\ mine[p].sem \in 1..Len(value) /\ value[mine[p].sem] = 0
         /\ mine[p].sem \notin abandoned /\ Ready(p)
         /\ \A q \in Named!Procs : q # p => ~HoldsSem(q, mine[p].sem)
         /\ ~overlap => \A q \in Named!Procs :
              q # p /\ Named!Inside(q) => mine[q].shm # mine[p].shm
<1> USE DEF NamedInv, Named!Procs
<1>1. NamedTypes
  BY TypesOfNamed
<1> DEFINE s0 == mine[p].sem
<1>2. Ready(p) /\ s0 # 0
  BY DEF Ready, Named!Inside, Opened
<1>3. s0 \in 1..Len(value) /\ value[s0] \in 0..1 /\ HoldsSem(p, s0)
  BY <1>1, <1>2 DEF NamedTypes, HoldsSem
<1> HIDE DEF s0
<1>4. s0 \notin abandoned
      /\ value[s0] + Num(HoldsSem("pro", s0)) + Num(HoldsSem("con", s0)) = 1
  BY <1>3 DEF SemaphoresKept
<1>5. value[s0] = 0 /\ \A q \in Named!Procs : q # p => ~HoldsSem(q, s0)
  BY <1>3, <1>4 DEF Num
<1>6. ASSUME ~overlap, NEW q \in Named!Procs, q # p, Named!Inside(q)
      PROVE  mine[q].shm # mine[p].shm
  <2>1. Ready(q) /\ mine[q].sem # s0
    BY <1>5, <1>6 DEF Ready, Named!Inside, HoldsSem
  <2>2. mine[q].shm = mine[p].shm => mine[q].sem = mine[p].sem
    BY <1>2, <1>6, <2>1 DEF SameMemorySameSem, Tied
  <2> QED BY <2>1, <2>2 DEF s0
<1> QED BY <1>2, <1>3, <1>4, <1>5, <1>6 DEF s0

\* sem_wait takes a free semaphore (pro.c:96, con.c:90).
LEMMA NamedSemWait ==
  ASSUME NamedInv, NEW p \in Named!Procs, Named!SemWait(p), Named!Noted
  PROVE  NamedInv'
<1> USE DEF NamedInv, Named!Procs
<1>1. NamedTypes
  BY TypesOfNamed
<1>2. /\ where[p] = "wait" /\ where' = [where EXCEPT ![p] = "var1"]
      /\ UNCHANGED <<names, mine, memory, copy, turn, runs, abandoned>>
  BY DEF Named!SemWait, Named!Go
<1>3. \A q \in Named!Procs : where'[q] = IF q = p THEN "var1" ELSE where[q]
  BY <1>1, <1>2 DEF NamedTypes
<1> DEFINE s0 == mine[p].sem
<1>4. s0 \in 1..Len(value) /\ value[s0] = 1
  <2>1. Ready(p)
    BY <1>2 DEF Ready
  <2>2. s0 \in 1..Len(value)
    BY <1>1, <2>1 DEF NamedTypes, Opened
  <2> QED BY <1>1, <2>2 DEF NamedTypes, Named!SemWait
<1>5. /\ value' \in Seq(0..1) /\ Len(value') = Len(value)
      /\ \A s \in 1..Len(value) : value'[s] = IF s = s0 THEN 0 ELSE value[s]
  <2>1. value \in Seq(0..1) /\ value' = [value EXCEPT ![s0] = 0]
    BY <1>4 DEF Named!TypeOK, Named!SemWait
  <2> QED BY <1>4, <2>1
<1> HIDE DEF s0
<1>6. Named!TypeOK'
  <2>1. memory \in Seq(Pair) /\ copy \in Pair /\ turn \in [Named!Procs -> 0..Turns]
        /\ abandoned \subseteq 1..Len(value) /\ "var1" \in Named!Places
    BY DEF Named!TypeOK, Pair, Named!Places
  <2> QED BY <1>2, <1>5, <2>1, NamedTypesKept
<1>7. OtherStays(p) /\ (Ready(p)' => Ready(p)) /\ ~Named!Opening(p)' /\ ~Named!Removing(p)'
  <2>1. where'[p] = "var1"
    BY <1>3
  <2>2. OtherStays(p)
    BY <1>2, <1>3 DEF OtherStays
  <2> QED BY <1>2, <2>1, <2>2 DEF Ready, Named!Opening, Named!Removing
<1>8. /\ SameMemorySameSem' /\ (overlap => overlap')
      /\ Named!Opening("con")' => Named!Opening("con")
      /\ Ready("con")' => Ready("con")
  BY <1>2, <1>7, HandlesStay
<1>9. SemaphoresKept'
  <2>1. \A q \in Named!Procs : \A s \in 1..Len(value) :
          HoldsSem(q, s)' <=> HoldsSem(q, s) \/ (q = p /\ s = s0)
    BY <1>2, <1>3 DEF HoldsSem, Named!Inside, s0
  <2>2. s0 \notin abandoned /\ ~HoldsSem("pro", s0) /\ ~HoldsSem("con", s0)
    BY <1>4 DEF SemaphoresKept, Num
  <2>3. ASSUME NEW s \in 1..Len(value)
        PROVE  IF s \in abandoned
                 THEN value'[s] = 0 /\ ~HoldsSem("pro", s)' /\ ~HoldsSem("con", s)'
                 ELSE value'[s] + Num(HoldsSem("pro", s))' + Num(HoldsSem("con", s))' = 1
    <3>1. CASE s # s0
      BY <1>5, <2>1, <3>1 DEF SemaphoresKept, Num
    <3>2. CASE s = s0
      BY <1>5, <2>1, <2>2, <3>2 DEF Num
    <3> QED BY <3>1, <3>2
  <2> QED BY <1>2, <1>5, <2>3 DEF SemaphoresKept
<1>10. Opened'
  <2>1. where[p] # "out" /\ where'[p] # "out"
    BY <1>2, <1>3
  <2>2. Ready(p)' => turn'[p] < Turns
    BY <1>2, <1>7 DEF Opened
  <2>3. Opened /\ UNCHANGED mine
    BY <1>2
  <2> QED BY <1>7, <2>1, <2>2, <2>3, OpenedKept
<1>11. HalfIsLocked'
  BY <1>2, <1>3, <1>8 DEF HalfIsLocked, Whole, Storing, Locked
<1>12. CopyIsRight'
  BY <1>2, <1>3, <1>8 DEF CopyIsRight
<1>13. AbandonedIsRemoved'
  BY <1>2, <1>3 DEF AbandonedIsRemoved
<1> QED BY <1>6, <1>8, <1>9, <1>10, <1>11, <1>12, <1>13

\* SIGINT abandons the semaphore of whoever is inside (pro.c:44, con.c:46).
LEMMA NamedInterrupt ==
  ASSUME NamedInv, NEW p \in Named!Procs, Named!Interrupt(p), Named!Noted
  PROVE  NamedInv'
<1> USE DEF NamedInv, Named!Procs
<1>1. NamedTypes
  BY TypesOfNamed
<1>2. /\ where[p] \notin {"out", "handler shm", "handler sem"}
      /\ where' = [where EXCEPT ![p] = "handler shm"]
      /\ UNCHANGED <<names, mine, value, memory, copy, turn, runs>>
  BY DEF Named!Interrupt
<1>3. \A q \in Named!Procs : where'[q] = IF q = p THEN "handler shm" ELSE where[q]
  BY <1>1, <1>2 DEF NamedTypes
<1> DEFINE s0 == mine[p].sem
<1>4. abandoned' = IF Named!Inside(p) THEN abandoned \cup {s0} ELSE abandoned
  BY DEF Named!Interrupt
<1>5. Named!Inside(p) => s0 \in 1..Len(value)
  BY <1>1 DEF NamedTypes, Opened, Ready, Named!Inside
<1> HIDE DEF s0
<1>6. Named!TypeOK'
  <2>1. /\ memory \in Seq(Pair) /\ value \in Seq(0..1) /\ copy \in Pair
        /\ turn \in [Named!Procs -> 0..Turns]
        /\ abandoned \subseteq 1..Len(value) /\ "handler shm" \in Named!Places
    BY DEF Named!TypeOK, Pair, Named!Places
  <2>2. abandoned' \subseteq 1..Len(value)
    BY <1>4, <1>5, <2>1
  <2> QED BY <1>2, <2>1, <2>2, NamedTypesKept
<1>7. OtherStays(p) /\ ~Ready(p)' /\ ~Named!Opening(p)' /\ ~Named!Removing(p)'
  <2>1. where'[p] = "handler shm"
    BY <1>3
  <2>2. OtherStays(p)
    BY <1>2, <1>3 DEF OtherStays
  <2> QED BY <1>2, <2>1, <2>2 DEF Ready, Named!Opening, Named!Removing
<1>8. /\ SameMemorySameSem' /\ (overlap => overlap')
      /\ Named!Opening("con")' => Named!Opening("con")
      /\ Ready("con")' => Ready("con")
  BY <1>2, <1>7, HandlesStay
<1>9. SemaphoresKept'
  <2>1. \A q \in Named!Procs : \A s \in 1..Len(value) :
          HoldsSem(q, s)' <=> HoldsSem(q, s) /\ q # p
    <3>1. \A q \in Named!Procs : /\ Named!Inside(q)' <=> Named!Inside(q) /\ q # p
                                 /\ mine'[q] = mine[q]
      <4>1. ~Named!Inside(p)'
        BY <1>3 DEF Named!Inside
      <4>2. \A q \in Named!Procs : q # p => where'[q] = where[q]
        BY <1>3
      <4> QED BY <1>2, <4>1, <4>2 DEF Named!Inside
    <3> QED BY <3>1 DEF HoldsSem
  <2>2. ASSUME NEW s \in 1..Len(value)
        PROVE  IF s \in abandoned'
                 THEN value[s] = 0 /\ ~HoldsSem("pro", s)' /\ ~HoldsSem("con", s)'
                 ELSE value[s] + Num(HoldsSem("pro", s))' + Num(HoldsSem("con", s))' = 1
    <3>1. CASE s \in abandoned
      BY <1>4, <2>1, <3>1 DEF SemaphoresKept
    <3>2. CASE s \notin abandoned /\ HoldsSem(p, s)
      <4>1. s \in abandoned'
        BY <1>4, <3>2 DEF HoldsSem, s0
      <4>2. value[s] + Num(HoldsSem("pro", s)) + Num(HoldsSem("con", s)) = 1
            /\ value[s] \in 0..1
        BY <1>1, <3>2 DEF SemaphoresKept, NamedTypes
      <4>3. value[s] = 0 /\ (HoldsSem("pro", s) => ~HoldsSem("con", s))
        BY <3>2, <4>2 DEF Num
      <4> QED BY <2>1, <3>2, <4>1, <4>3
    <3>3. CASE s \notin abandoned /\ ~HoldsSem(p, s)
      <4>1. s \notin abandoned'
        BY <1>4, <3>3 DEF HoldsSem, s0
      <4>2. HoldsSem("pro", s)' <=> HoldsSem("pro", s)
        BY <2>1, <3>3
      <4>3. HoldsSem("con", s)' <=> HoldsSem("con", s)
        BY <2>1, <3>3
      <4> QED BY <3>3, <4>1, <4>2, <4>3 DEF SemaphoresKept, Num
    <3> QED BY <3>1, <3>2, <3>3
  <2> QED BY <1>2, <2>2 DEF SemaphoresKept
<1>10. Opened'
  <2>1. where[p] # "out" /\ where'[p] # "out"
    <3>1. where'[p] = "handler shm"
      BY <1>3
    <3> QED BY <1>2, <3>1
  <2>2. Ready(p)' => turn'[p] < Turns
    BY <1>2, <1>7 DEF Opened
  <2>3. Opened /\ UNCHANGED mine
    BY <1>2
  <2> QED BY <1>7, <2>1, <2>2, <2>3, OpenedKept
<1>11. HalfIsLocked'
  <2>1. ASSUME ~overlap', NEW m \in 1..Len(memory), Whole(m) \/ Storing(m) \/ Locked(m)
        PROVE  (Whole(m) \/ Storing(m) \/ Locked(m))'
    <3>1. CASE Whole(m)
      BY <1>2, <3>1 DEF Whole
    <3>2. CASE Locked(m)
      BY <1>2, <1>3, <1>4, <1>8, <3>2 DEF Locked
    <3>3. CASE Storing(m) /\ p = "con"
      BY <1>2, <1>3, <3>3 DEF Storing
    <3>4. CASE Storing(m) /\ p = "pro"
      <4>1. Ready("pro") /\ Named!Inside("pro") /\ s0 \in abandoned'
        BY <1>4, <3>4 DEF Storing, Ready, Named!Inside
      <4>2. /\ Ready("con") /\ mine["con"].shm = m => mine["con"].sem = s0
            /\ Named!Opening("con") /\ mine["con"].shm = m => names.sem = s0
            /\ names.shm = m => names.sem = s0
        BY <1>8, <2>1, <3>4, <4>1 DEF SameMemorySameSem, Tied, Storing, s0
      <4> QED BY <1>2, <1>3, <1>8, <3>4, <4>1, <4>2 DEF Locked
    <3> QED BY <2>1, <3>1, <3>2, <3>3, <3>4
  <2> QED BY <1>2, <1>8, <2>1 DEF HalfIsLocked
<1>12. CopyIsRight'
  <2>1. /\ where'["pro"] = "var2" => where["pro"] = "var2"
        /\ where'["con"] = "var2" => where["con"] = "var2"
        /\ where'["con"] = "post" => where["con"] = "post"
    BY <1>3
  <2> QED BY <1>2, <1>8, <2>1 DEF CopyIsRight
<1>13. AbandonedIsRemoved'
  BY <1>2, <1>3, <1>4 DEF AbandonedIsRemoved, s0
<1> QED BY <1>6, <1>8, <1>9, <1>10, <1>11, <1>12, <1>13

\* The first store of pro and the first read of con (pro.c:98, con.c:98).
LEMMA NamedVar1 ==
  ASSUME NamedInv, NEW p \in Named!Procs, Named!Var1(p), Named!Noted
  PROVE  NamedInv'
<1> USE DEF NamedInv, Named!Procs
<1>1. NamedTypes
  BY TypesOfNamed
<1>2. /\ where[p] = "var1" /\ where' = [where EXCEPT ![p] = "var2"]
      /\ UNCHANGED <<names, mine, value, turn, runs, abandoned>>
  BY DEF Named!Var1, Named!Go, Named!Access
<1>3. \A q \in Named!Procs : where'[q] = IF q = p THEN "var2" ELSE where[q]
  BY <1>1, <1>2 DEF NamedTypes
<1> DEFINE m0 == mine[p].shm
<1>4. m0 \in 1..Len(memory)
  BY <1>1, <1>2 DEF NamedTypes, Opened
<1>5. p = "pro" =>
        /\ copy' = copy /\ memory' \in Seq(Pair) /\ Len(memory') = Len(memory)
        /\ memory'[m0].var1 = 10 + turn["pro"]
        /\ \A m \in 1..Len(memory) : m # m0 => memory'[m] = memory[m]
  <2>1. memory \in Seq(Pair) /\ turn[p] \in Nat
    BY SMTT(30), <1>1, NamedAssumption DEF Named!TypeOK, Pair, NamedTypes, Named!BoundsOK
  <2>2. memory[m0] \in Pair
    BY <1>4, <2>1
  <2> DEFINE new == [memory[m0] EXCEPT !["var1"] = 10 + turn[p]]
  <2>3. new \in Pair /\ new.var1 = 10 + turn[p]
    BY SMTT(30), <2>1, <2>2 DEF Pair
  <2>4. p = "pro" => copy' = copy /\ memory' = [memory EXCEPT ![m0] = new]
    BY DEF Named!Var1, Named!Access
  <2> HIDE DEF new
  <2>5. CASE p = "pro"
    <3>1. memory' = [memory EXCEPT ![m0] = new]
      BY <2>4, <2>5
    <3>2. memory' \in Seq(Pair) /\ Len(memory') = Len(memory) /\ memory'[m0] = new
          /\ \A m \in 1..Len(memory) : m # m0 => memory'[m] = memory[m]
      BY <1>4, <2>1, <2>3, <3>1
    <3> QED BY <2>3, <2>4, <2>5, <3>2
  <2> QED BY <2>5
<1>6. p = "con" => /\ memory' = memory /\ copy' \in Pair
                   /\ copy'.var1 = memory[m0].var1
  <2>1. memory[m0] \in Pair /\ copy \in Pair
    BY <1>1, <1>4 DEF NamedTypes
  <2>2. p = "con" => memory' = memory /\ copy' = [copy EXCEPT !["var1"] = memory[m0]["var1"]]
    BY DEF Named!Var1, Named!Access
  <2> QED BY <2>1, <2>2 DEF Pair
<1> HIDE DEF m0
<1>7. OtherStays(p) /\ (Ready(p)' => Ready(p)) /\ ~Named!Opening(p)' /\ ~Named!Removing(p)'
  <2>1. where'[p] = "var2"
    BY <1>3
  <2>2. OtherStays(p)
    BY <1>2, <1>3 DEF OtherStays
  <2> QED BY <1>2, <2>1, <2>2 DEF Ready, Named!Opening, Named!Removing
<1>8. /\ SameMemorySameSem' /\ (overlap => overlap')
      /\ Named!Opening("con")' => Named!Opening("con")
      /\ Ready("con")' => Ready("con")
  BY <1>2, <1>7, HandlesStay
<1>9. Named!Inside(p) /\ Ready(p)
  BY <1>2 DEF Named!Inside, Ready
<1>10. Named!TypeOK'
  <2>1. /\ memory \in Seq(Pair) /\ value \in Seq(0..1) /\ copy \in Pair
        /\ turn \in [Named!Procs -> 0..Turns]
        /\ abandoned \subseteq 1..Len(value) /\ "var2" \in Named!Places
    BY DEF Named!TypeOK, Pair, Named!Places
  <2>2. memory' \in Seq(Pair) /\ Len(memory') = Len(memory) /\ copy' \in Pair
    BY <1>5, <1>6, <2>1
  <2> QED BY <1>2, <2>1, <2>2, NamedTypesKept
<1>11. SemaphoresKept'
  <2>1. \A q \in Named!Procs : Named!Inside(q)' <=> Named!Inside(q)
    BY <1>2, <1>3 DEF Named!Inside
  <2> QED BY <1>2, <2>1 DEF SemaphoresKept, HoldsSem, Num
<1>12. Opened'
  <2>1. where[p] # "out" /\ where'[p] # "out"
    BY <1>2, <1>3
  <2>2. turn'[p] < Turns
    BY <1>2, <1>9 DEF Opened
  <2>3. Opened /\ UNCHANGED mine
    BY <1>2
  <2> QED BY <1>7, <2>1, <2>2, <2>3, OpenedKept
<1>13. HalfIsLocked'
  <2>1. ASSUME ~overlap', NEW m \in 1..Len(memory), Whole(m) \/ Storing(m) \/ Locked(m)
        PROVE  (Whole(m) \/ Storing(m) \/ Locked(m))'
    <3>1. CASE p = "pro" /\ m = m0
      BY <1>2, <1>3, <3>1 DEF Storing, m0
    <3>2. CASE p = "con" \/ m # m0
      <4>1. memory'[m] = memory[m]
        BY <1>5, <1>6, <2>1, <3>2
      <4>2. Storing(m) => Storing(m)'
        BY <1>2, <1>3 DEF Storing
      <4>3. Locked(m) => Locked(m)'
        BY <1>2, <1>3, <1>8 DEF Locked
      <4> QED BY <2>1, <4>1, <4>2, <4>3 DEF Whole
    <3> QED BY <3>1, <3>2
  <2>2. Len(memory') = Len(memory)
    BY <1>5, <1>6
  <2> QED BY <1>8, <2>1, <2>2 DEF HalfIsLocked
<1>14. CopyIsRight'
  <2>1. where'["pro"] = "var2" => memory'[mine'["pro"].shm].var1 = 10 + turn'["pro"]
    BY <1>2, <1>3, <1>5, <1>6 DEF CopyIsRight, m0
  <2>2. ~overlap' /\ where'["con"] = "var2" => copy'.var1 = memory'[mine'["con"].shm].var1
    <3>1. CASE p = "con"
      BY <1>2, <1>6, <3>1 DEF m0
    <3>2. ASSUME p = "pro", ~overlap', where["con"] = "var2"
          PROVE  mine["con"].shm # m0 /\ mine["con"].shm \in 1..Len(memory)
      <4>1. Named!Inside("con")
        BY <3>2 DEF Named!Inside
      <4>2. mine["con"].shm # m0
        BY <1>8, <1>9, <3>2, <4>1, InsideIsAlone DEF m0
      <4> QED BY <1>1, <3>2, <4>2 DEF NamedTypes, Opened
    <3> QED BY <1>2, <1>3, <1>5, <1>8, <3>1, <3>2 DEF CopyIsRight
  <2>3. ~overlap' /\ where'["con"] = "post" =>
          copy' = Named!Zeros \/ copy'.var1 = copy'.var2 + 10
    <3>1. where'["con"] = "post" => p = "pro" /\ where["con"] = "post"
      BY <1>3
    <3> QED BY <1>5, <1>8, <3>1 DEF CopyIsRight
  <2> QED BY <2>1, <2>2, <2>3 DEF CopyIsRight
<1>15. AbandonedIsRemoved'
  BY <1>2, <1>3 DEF AbandonedIsRemoved
<1> QED BY <1>8, <1>10, <1>11, <1>12, <1>13, <1>14, <1>15

\* The second store of pro makes the pair whole, and con has read both of one
\* pair: pro cannot have come between (pro.c:99, con.c:99).
LEMMA NamedVar2 ==
  ASSUME NamedInv, NEW p \in Named!Procs, Named!Var2(p), Named!Noted
  PROVE  NamedInv'
<1> USE DEF NamedInv, Named!Procs
<1>1. NamedTypes
  BY TypesOfNamed
<1>2. /\ where[p] = "var2" /\ where' = [where EXCEPT ![p] = "post"]
      /\ UNCHANGED <<names, mine, value, turn, runs, abandoned>>
  BY DEF Named!Var2, Named!Go, Named!Access
<1>3. \A q \in Named!Procs : where'[q] = IF q = p THEN "post" ELSE where[q]
  BY <1>1, <1>2 DEF NamedTypes
<1> DEFINE m0 == mine[p].shm
<1>4. m0 \in 1..Len(memory)
  BY <1>1, <1>2 DEF NamedTypes, Opened
<1>5. p = "pro" =>
        /\ copy' = copy /\ memory' \in Seq(Pair) /\ Len(memory') = Len(memory)
        /\ memory'[m0].var1 = memory'[m0].var2 + 10
        /\ \A m \in 1..Len(memory) : m # m0 => memory'[m] = memory[m]
  <2>1. memory \in Seq(Pair) /\ turn[p] \in Nat
    BY SMTT(30), <1>1, NamedAssumption DEF Named!TypeOK, Pair, NamedTypes, Named!BoundsOK
  <2>2. memory[m0] \in Pair /\ (p = "pro" => memory[m0].var1 = 10 + turn[p])
    BY <1>2, <1>4, <2>1 DEF CopyIsRight
  <2> DEFINE new == [memory[m0] EXCEPT !["var2"] = turn[p]]
  <2>3. new \in Pair /\ (p = "pro" => new.var1 = new.var2 + 10)
    BY SMTT(30), <2>1, <2>2 DEF Pair
  <2>4. p = "pro" => copy' = copy /\ memory' = [memory EXCEPT ![m0] = new]
    BY DEF Named!Var2, Named!Access
  <2> HIDE DEF new
  <2>5. CASE p = "pro"
    <3>1. memory' = [memory EXCEPT ![m0] = new]
      BY <2>4, <2>5
    <3>2. memory' \in Seq(Pair) /\ Len(memory') = Len(memory) /\ memory'[m0] = new
          /\ \A m \in 1..Len(memory) : m # m0 => memory'[m] = memory[m]
      BY <1>4, <2>1, <2>3, <3>1
    <3> QED BY <2>3, <2>4, <2>5, <3>2
  <2> QED BY <2>5
<1>6. p = "con" => /\ memory' = memory /\ copy' \in Pair
                   /\ copy'.var1 = copy.var1 /\ copy'.var2 = memory[m0].var2
  <2>1. memory[m0] \in Pair /\ copy \in Pair
    BY <1>1, <1>4 DEF NamedTypes
  <2>2. p = "con" => memory' = memory /\ copy' = [copy EXCEPT !["var2"] = memory[m0]["var2"]]
    BY DEF Named!Var2, Named!Access
  <2> QED BY <2>1, <2>2 DEF Pair
<1> HIDE DEF m0
<1>7. OtherStays(p) /\ (Ready(p)' => Ready(p)) /\ ~Named!Opening(p)' /\ ~Named!Removing(p)'
  <2>1. where'[p] = "post"
    BY <1>3
  <2>2. OtherStays(p)
    BY <1>2, <1>3 DEF OtherStays
  <2> QED BY <1>2, <2>1, <2>2 DEF Ready, Named!Opening, Named!Removing
<1>8. /\ SameMemorySameSem' /\ (overlap => overlap')
      /\ Named!Opening("con")' => Named!Opening("con")
      /\ Ready("con")' => Ready("con")
  BY <1>2, <1>7, HandlesStay
<1>9. Named!Inside(p) /\ Ready(p)
  BY <1>2 DEF Named!Inside, Ready
<1>10. Named!TypeOK'
  <2>1. /\ memory \in Seq(Pair) /\ value \in Seq(0..1) /\ copy \in Pair
        /\ turn \in [Named!Procs -> 0..Turns]
        /\ abandoned \subseteq 1..Len(value) /\ "post" \in Named!Places
    BY DEF Named!TypeOK, Pair, Named!Places
  <2>2. memory' \in Seq(Pair) /\ Len(memory') = Len(memory) /\ copy' \in Pair
    BY <1>5, <1>6, <2>1
  <2> QED BY <1>2, <2>1, <2>2, NamedTypesKept
<1>11. SemaphoresKept'
  <2>1. \A q \in Named!Procs : Named!Inside(q)' <=> Named!Inside(q)
    BY <1>2, <1>3 DEF Named!Inside
  <2> QED BY <1>2, <2>1 DEF SemaphoresKept, HoldsSem, Num
<1>12. Opened'
  <2>1. where[p] # "out" /\ where'[p] # "out"
    BY <1>2, <1>3
  <2>2. turn'[p] < Turns
    BY <1>2, <1>9 DEF Opened
  <2>3. Opened /\ UNCHANGED mine
    BY <1>2
  <2> QED BY <1>7, <2>1, <2>2, <2>3, OpenedKept
<1>13. HalfIsLocked'
  <2>1. ASSUME ~overlap', NEW m \in 1..Len(memory), Whole(m) \/ Storing(m) \/ Locked(m)
        PROVE  (Whole(m) \/ Storing(m) \/ Locked(m))'
    <3>1. CASE p = "pro" /\ m = m0
      BY <1>5, <3>1 DEF Whole
    <3>2. CASE p = "con" \/ m # m0
      <4>1. memory'[m] = memory[m]
        BY <1>5, <1>6, <2>1, <3>2
      <4>2. Storing(m) => Storing(m)'
        BY <1>2, <1>3, <3>2 DEF Storing, m0
      <4>3. Locked(m) => Locked(m)'
        BY <1>2, <1>3, <1>8 DEF Locked
      <4> QED BY <2>1, <4>1, <4>2, <4>3 DEF Whole
    <3> QED BY <3>1, <3>2
  <2>2. Len(memory') = Len(memory)
    BY <1>5, <1>6
  <2> QED BY <1>8, <2>1, <2>2 DEF HalfIsLocked
<1>14. CopyIsRight'
  <2>1. where'["pro"] = "var2" => memory'[mine'["pro"].shm].var1 = 10 + turn'["pro"]
    <3>1. where'["pro"] = "var2" => p = "con" /\ where["pro"] = "var2"
      BY <1>3
    <3> QED BY <1>2, <1>6, <3>1 DEF CopyIsRight
  <2>2. ~overlap' /\ where'["con"] = "var2" => copy'.var1 = memory'[mine'["con"].shm].var1
    <3>1. ASSUME p = "pro", ~overlap', where["con"] = "var2"
          PROVE  mine["con"].shm # m0 /\ mine["con"].shm \in 1..Len(memory)
      <4>1. Named!Inside("con")
        BY <3>1 DEF Named!Inside
      <4>2. mine["con"].shm # m0
        BY <1>8, <1>9, <3>1, <4>1, InsideIsAlone DEF m0
      <4> QED BY <1>1, <3>1, <4>2 DEF NamedTypes, Opened
    <3>2. where'["con"] = "var2" => p = "pro" /\ where["con"] = "var2"
      BY <1>3
    <3> QED BY <1>2, <1>5, <1>8, <3>1, <3>2 DEF CopyIsRight
  <2>3. ASSUME ~overlap', where'["con"] = "post"
        PROVE  copy' = Named!Zeros \/ copy'.var1 = copy'.var2 + 10
    <3>1. CASE p = "pro"
      <4>1. where["con"] = "post"
        BY <1>3, <2>3, <3>1
      <4> QED BY <1>5, <1>8, <2>3, <3>1, <4>1 DEF CopyIsRight
    <3>2. CASE p = "con"
      <4>1. Named!Inside("pro") => mine["pro"].shm # m0
        BY <1>8, <1>9, <2>3, <3>2, InsideIsAlone DEF m0
      <4>2. ~Storing(m0)
        BY <4>1 DEF Storing, Named!Inside
      <4>3. ~Locked(m0)
        BY <1>9, <3>2, InsideIsAlone DEF Locked, m0
      <4>4. Whole(m0)
        BY <1>4, <1>8, <2>3, <4>2, <4>3 DEF HalfIsLocked
      <4>5. copy.var1 = memory[m0].var1
        BY <1>2, <1>8, <2>3, <3>2 DEF CopyIsRight, m0
      <4>6. copy' \in Pair /\ copy'.var1 = memory[m0].var1 /\ copy'.var2 = memory[m0].var2
        BY <1>6, <3>2, <4>5
      <4>7. CASE memory[m0] = Named!Zeros
        BY <4>6, <4>7 DEF Pair, Named!Zeros
      <4> QED BY <4>4, <4>6, <4>7 DEF Whole
    <3> QED BY <3>1, <3>2
  <2> QED BY <2>1, <2>2, <2>3 DEF CopyIsRight
<1>15. AbandonedIsRemoved'
  BY <1>2, <1>3 DEF AbandonedIsRemoved
<1> QED BY <1>8, <1>10, <1>11, <1>12, <1>13, <1>14, <1>15

\* sem_post gives back the semaphore that was taken, and no other
\* (pro.c:107, con.c:102).
LEMMA NamedSemPost ==
  ASSUME NamedInv, NEW p \in Named!Procs, Named!SemPost(p), Named!Noted
  PROVE  NamedInv'
<1> USE DEF NamedInv, Named!Procs
<1>1. NamedTypes
  BY TypesOfNamed
<1> DEFINE to == IF turn[p] + 1 = Turns THEN "unlink shm" ELSE "wait"
           s0 == mine[p].sem
<1>2. /\ where[p] = "post" /\ where' = [where EXCEPT ![p] = to]
      /\ turn' = [turn EXCEPT ![p] = @ + 1] /\ (p = "pro" => copy' = copy)
      /\ UNCHANGED <<names, mine, memory, runs, abandoned>>
  BY DEF Named!SemPost, Named!Go
<1>3. \A q \in Named!Procs : where'[q] = IF q = p THEN to ELSE where[q]
  BY <1>1, <1>2 DEF NamedTypes
<1>4. Named!Inside(p) /\ Ready(p)
  BY <1>2 DEF Named!Inside, Ready
<1>5. s0 \in 1..Len(value) /\ value[s0] = 0 /\ s0 \notin abandoned
      /\ \A q \in Named!Procs : q # p => ~HoldsSem(q, s0)
  BY <1>4, InsideIsAlone
<1>6. /\ value' \in Seq(0..1) /\ Len(value') = Len(value)
      /\ \A s \in 1..Len(value) : value'[s] = IF s = s0 THEN 1 ELSE value[s]
  <2>1. value' = [value EXCEPT ![s0] = value[s0] + 1]
    BY DEF Named!SemPost
  <2>2. value \in Seq(0..1)
    BY DEF Named!TypeOK
  <2>3. value' = [value EXCEPT ![s0] = 1]
    BY <1>5, <2>1
  <2> QED BY <1>5, <2>2, <2>3
<1>7. /\ \A q \in Named!Procs : q # p => turn'[q] = turn[q]
      /\ turn' \in [Named!Procs -> 0..Turns] /\ turn'[p] = turn[p] + 1
      /\ to = "wait" => turn'[p] < Turns
  <2>1. turn \in [Named!Procs -> 0..Turns] /\ Turns \in Nat /\ turn[p] < Turns
    BY <1>1, <1>4, NamedAssumption DEF Named!TypeOK, Opened, Named!BoundsOK
  <2>2. turn[p] + 1 \in 0..Turns
    BY <2>1
  <2>3. /\ turn' \in [Named!Procs -> 0..Turns] /\ turn'[p] = turn[p] + 1
        /\ \A q \in Named!Procs : q # p => turn'[q] = turn[q]
    BY <1>2, <2>1, <2>2
  <2>4. to = "wait" => turn[p] + 1 # Turns
    OBVIOUS
  <2> QED BY <2>1, <2>3, <2>4
<1>8. to \in {"unlink shm", "wait"}
  OBVIOUS
<1> HIDE DEF s0, to
<1>9. OtherStays(p) /\ (Ready(p)' => Ready(p)) /\ ~Named!Opening(p)' /\ ~Named!Removing(p)'
  <2>1. where'[p] \in {"unlink shm", "wait"}
    BY <1>3, <1>8
  <2>2. OtherStays(p)
    BY <1>2, <1>3, <1>7 DEF OtherStays
  <2> QED BY <1>4, <2>1, <2>2 DEF Named!Opening, Named!Removing
<1>10. /\ SameMemorySameSem' /\ (overlap => overlap')
       /\ Named!Opening("con")' => Named!Opening("con")
       /\ Ready("con")' => Ready("con")
  BY <1>2, <1>9, HandlesStay
<1>11. Named!TypeOK'
  <2>1. /\ memory \in Seq(Pair) /\ copy \in Pair /\ Named!Zeros \in Pair
        /\ abandoned \subseteq 1..Len(value) /\ to \in Named!Places
    BY <1>8 DEF Named!TypeOK, Pair, Named!Places, Named!Zeros
  <2>2. copy' \in Pair
    BY <2>1 DEF Named!SemPost
  <2> QED BY <1>2, <1>6, <1>7, <2>1, <2>2, NamedTypesKept
<1>12. SemaphoresKept'
  <2>1. \A q \in Named!Procs : Named!Inside(q)' <=> Named!Inside(q) /\ q # p
    <3>1. ~Named!Inside(p)'
      BY <1>3, <1>8 DEF Named!Inside
    <3>2. \A q \in Named!Procs : q # p => where'[q] = where[q]
      BY <1>3
    <3> QED BY <3>1, <3>2 DEF Named!Inside
  <2>2. \A q \in Named!Procs : \A s \in 1..Len(value) :
          HoldsSem(q, s)' <=> HoldsSem(q, s) /\ q # p
    BY <1>2, <2>1 DEF HoldsSem
  <2>3. ASSUME NEW s \in 1..Len(value)
        PROVE  IF s \in abandoned
                 THEN value'[s] = 0 /\ ~HoldsSem("pro", s)' /\ ~HoldsSem("con", s)'
                 ELSE value'[s] + Num(HoldsSem("pro", s))' + Num(HoldsSem("con", s))' = 1
    <3>1. CASE s # s0
      <4>1. ~HoldsSem(p, s) /\ value'[s] = value[s]
        BY <1>6, <3>1 DEF HoldsSem, s0
      <4>2. HoldsSem("pro", s)' <=> HoldsSem("pro", s)
        BY <2>2, <4>1
      <4>3. HoldsSem("con", s)' <=> HoldsSem("con", s)
        BY <2>2, <4>1
      <4> QED BY <4>1, <4>2, <4>3 DEF SemaphoresKept, Num
    <3>2. CASE s = s0
      <4>1. ~HoldsSem("pro", s)' /\ ~HoldsSem("con", s)' /\ value'[s] = 1
        BY <1>5, <1>6, <2>2, <3>2
      <4> QED BY <1>5, <3>2, <4>1 DEF Num
    <3> QED BY <3>1, <3>2
  <2> QED BY <1>2, <1>6, <2>3 DEF SemaphoresKept
<1>13. Opened'
  <2>1. where[p] # "out" /\ where'[p] # "out"
    <3>1. where'[p] = to
      BY <1>3
    <3> QED BY <1>2, <1>8, <3>1
  <2>2. Ready(p)' => turn'[p] < Turns
    BY <1>3, <1>7, <1>8 DEF Ready
  <2>3. Opened /\ UNCHANGED mine
    BY <1>2
  <2> QED BY <1>9, <2>1, <2>2, <2>3, OpenedKept
<1>14. HalfIsLocked'
  <2>1. ASSUME NEW m \in 1..Len(memory)
        PROVE  /\ Whole(m) => Whole(m)'
               /\ Storing(m) => Storing(m)'
               /\ Locked(m) => Locked(m)'
    BY <1>2, <1>3, <1>10, <1>8 DEF Whole, Storing, Locked
  <2> QED BY <1>2, <1>10, <2>1 DEF HalfIsLocked
<1>15. CopyIsRight'
  <2>1. where'["pro"] = "var2" => where["pro"] = "var2" /\ turn'["pro"] = turn["pro"]
    BY <1>3, <1>7, <1>8
  <2>2. where'["con"] \in {"var2", "post"} =>
          where'["con"] = where["con"] /\ copy' = copy
    BY <1>2, <1>3, <1>8
  <2> QED BY <1>2, <1>10, <2>1, <2>2 DEF CopyIsRight
<1>16. AbandonedIsRemoved'
  BY <1>2, <1>3 DEF AbandonedIsRemoved
<1> QED BY <1>10, <1>11, <1>12, <1>13, <1>14, <1>15, <1>16

\* What sem_open does to the names and to the semaphores (pro.c:73, con.c:73).
SemGiven ==
  /\ names'.shm = names.shm /\ value' \in Seq(0..1)
  /\ names' \in Handles(Len(memory), Len(value'))
  /\ Len(value) \in Nat /\ Len(value') \in Nat /\ Len(value) <= Len(value')
  /\ \A s \in 1..Len(value) : value'[s] = value[s]
  /\ \A s \in 1..Len(value') : s \notin 1..Len(value) => value'[s] = 1
  /\ names.sem # 0 => names'.sem = names.sem
  /\ names.sem = 0 => names'.sem \notin 1..Len(value)
  /\ names'.sem \in 0..Len(value') /\ names'.sem # 0

\* It returns what the name stands for, or a new one at 1.
LEMMA SemOpened ==
  ASSUME Named!TypeOK, NEW p \in Named!Procs, Named!OpenSem(p)
  PROVE  SemGiven
<1>1. /\ names \in Handles(Len(memory), Len(value)) /\ value \in Seq(0..1)
      /\ Len(value) \in Nat
  <2>1. names \in Handles(Len(memory), Len(value)) /\ value \in Seq(0..1)
    BY DEF Named!TypeOK, Handles
  <2> QED BY <2>1
<1>2. CASE names.sem # 0
  <2>1. value' = value /\ names' = names
    BY <1>2 DEF Named!OpenSem
  <2>2. names.sem \in 0..Len(value)
    BY <1>1 DEF Handles
  <2> QED BY <1>1, <1>2, <2>1, <2>2 DEF SemGiven
<1>3. CASE names.sem = 0
  <2>1. value' = Append(value, 1) /\ names' = [names EXCEPT !.sem = Len(value')]
    BY <1>3 DEF Named!OpenSem, Named!InitialValue
  <2>2. value' \in Seq(0..1) /\ Extended(value, value', 1)
    <3>1. 1 \in 0..1
      OBVIOUS
    <3> QED BY <1>1, <2>1, <3>1, AppendExtends
  <2>3. /\ Len(value') = Len(value) + 1 /\ value'[Len(value')] = 1
        /\ \A s \in 1..Len(value) : value'[s] = value[s]
    BY <2>2 DEF Extended
  <2>4. /\ Len(value') \in Nat /\ Len(value) <= Len(value')
        /\ Len(value') \notin 1..Len(value) /\ Len(value') # 0
        /\ Len(value') \in 0..Len(value')
        /\ \A s \in 1..Len(value') : s \notin 1..Len(value) => s = Len(value')
    BY <1>1, <2>3
  <2>5. names'.sem = Len(value') /\ names'.shm = names.shm
        /\ names' \in Handles(Len(memory), Len(value'))
    BY <1>1, <2>1, <2>4 DEF Handles
  <2> QED BY <1>3, <2>2, <2>3, <2>4, <2>5 DEF SemGiven
<1> QED BY <1>2, <1>3

\* sem_open gives what the name stands for, or a new semaphore: without an
\* overlap the one that goes with the memory (pro.c:73, con.c:73).
LEMMA NamedOpenSem ==
  ASSUME NamedInv, NEW p \in Named!Procs, Named!OpenSem(p), Named!Noted
  PROVE  NamedInv'
<1> USE DEF NamedInv, Named!Procs
<1>1. NamedTypes
  BY TypesOfNamed
<1>2. PICK to \in {"open again", "wait"} :
        where[p] \in {"open", "open again"} /\ where' = [where EXCEPT ![p] = to]
  BY DEF Named!OpenSem, Named!Go
<1>3. UNCHANGED <<memory, copy, turn, runs, abandoned>>
  BY DEF Named!OpenSem
<1>4. \A q \in Named!Procs : where'[q] = IF q = p THEN to ELSE where[q]
  BY <1>1, <1>2 DEF NamedTypes
<1>5. SemGiven
  BY SemOpened
<1>6. /\ mine'[p].shm = mine[p].shm /\ mine'[p].sem = names'.sem
      /\ \A q \in Named!Procs : q # p => mine'[q] = mine[q]
  BY DEF Named!OpenSem, Named!TypeOK
<1>7. names'.sem \in abandoned => names'.sem = names.sem
  BY <1>1, <1>5 DEF NamedTypes, SemGiven
<1>8. (Named!Overlapping' => overlap') /\ (overlap => overlap')
  BY <1>1, NotedFacts DEF NamedTypes
<1>9. OtherStays(p) /\ Named!Opening(p) /\ mine[p].shm # 0
  <2>1. mine[p].shm # 0
    BY <1>2 DEF Opened
  <2> QED BY <1>2, <1>3, <1>4, <1>6, <2>1 DEF OtherStays, Named!Opening
<1>10. Named!TypeOK'
  <2>1. mine' \in [Named!Procs -> Handles(Len(memory), Len(value'))]
    <3>1. mine \in [Named!Procs -> Handles(Len(memory), Len(value))]
      BY DEF Named!TypeOK, Handles
    <3>2. Handles(Len(memory), Len(value)) \subseteq Handles(Len(memory), Len(value'))
      <4>1. Len(value) \in Nat /\ Len(value') \in Nat /\ Len(value) <= Len(value')
        BY <1>5 DEF SemGiven
      <4>2. Len(memory) \in Nat
        BY <1>1 DEF NamedTypes
      <4> QED BY <4>1, <4>2, SemHandlesGrow
    <3>3. mine[p] \in Handles(Len(memory), Len(value')) /\ names'.sem \in 0..Len(value')
      BY <1>5, <3>1, <3>2 DEF SemGiven
    <3>4. [mine[p] EXCEPT !.sem = names'.sem] \in Handles(Len(memory), Len(value'))
      BY <3>3 DEF Handles
    <3>5. mine' = [mine EXCEPT ![p].sem = names'.sem]
      BY DEF Named!OpenSem
    <3> QED BY <3>1, <3>2, <3>4, <3>5
  <2>2. where' \in [Named!Procs -> Named!Places]
    BY <1>2 DEF Named!TypeOK, Named!Places
  <2>3. overlap' \in BOOLEAN
    BY <1>1, NotedFacts DEF NamedTypes
  <2>4. abandoned' \subseteq 1..Len(value')
    <3>1. 1..Len(value) \subseteq 1..Len(value')
      <4>1. Len(value) \in Nat /\ Len(value') \in Nat /\ Len(value) <= Len(value')
        BY <1>5 DEF SemGiven
      <4> QED BY <4>1, NumbersGrow
    <3>2. abandoned \subseteq 1..Len(value)
      BY <1>1 DEF NamedTypes
    <3> QED BY <1>3, <3>1, <3>2
  <2> QED BY <1>3, <1>5, <2>1, <2>2, <2>3, <2>4 DEF Named!TypeOK, Handles, SemGiven
<1>11. SemaphoresKept'
  <2>1. \A q \in Named!Procs : /\ Named!Inside(q)' <=> Named!Inside(q)
                               /\ Named!Inside(q)' => mine'[q] = mine[q] /\ mine[q].sem \in 1..Len(value)
    <3>1. ~Named!Inside(p) /\ ~Named!Inside(p)'
      BY <1>2, <1>4 DEF Named!Inside
    <3>2. \A q \in Named!Procs : q # p => where'[q] = where[q] /\ mine'[q] = mine[q]
      BY <1>4, <1>6
    <3> QED BY <3>1, <3>2, InsideIsAlone DEF Named!Inside
  <2>2. \A q \in Named!Procs : \A s \in 1..Len(value) : HoldsSem(q, s)' <=> HoldsSem(q, s)
    BY <2>1 DEF HoldsSem
  <2>3. \A q \in Named!Procs : \A s \in 1..Len(value') :
          s \notin 1..Len(value) => ~HoldsSem(q, s)' /\ value'[s] = 1 /\ s \notin abandoned
    BY ZenonT(30), <1>1, <1>5, <2>1 DEF HoldsSem, NamedTypes, SemGiven
  <2>4. ASSUME NEW s \in 1..Len(value')
        PROVE  IF s \in abandoned'
                 THEN value'[s] = 0 /\ ~HoldsSem("pro", s)' /\ ~HoldsSem("con", s)'
                 ELSE value'[s] + Num(HoldsSem("pro", s))' + Num(HoldsSem("con", s))' = 1
    <3>1. CASE s \in 1..Len(value)
      <4>1. value'[s] = value[s]
        BY <1>5, <3>1 DEF SemGiven
      <4> QED BY <1>3, <2>2, <3>1, <4>1 DEF SemaphoresKept, Num
    <3>2. CASE s \notin 1..Len(value)
      <4>1. s \notin abandoned' /\ ~HoldsSem("pro", s)' /\ ~HoldsSem("con", s)' /\ value'[s] = 1
        BY <1>3, <2>3, <3>2
      <4>2. value'[s] + 0 + 0 = 1
        BY <4>1, FreeForAll
      <4>3. Num(HoldsSem("pro", s))' = 0
        BY <4>1 DEF Num
      <4>4. Num(HoldsSem("con", s))' = 0
        BY <4>1 DEF Num
      <4>5. value'[s] + Num(HoldsSem("pro", s))' + Num(HoldsSem("con", s))' = 1
        BY <4>2, <4>3, <4>4
      <4> QED BY <4>1, <4>5
    <3> QED BY <3>1, <3>2
  <2> QED BY <2>4 DEF SemaphoresKept
<1>12. Opened'
  <2>1. ASSUME NEW q \in Named!Procs
        PROVE  /\ where'[q] # "out" => mine'[q].shm # 0
               /\ Ready(q)' => mine'[q].sem # 0
               /\ where'[q] = "out" => turn'[q] = 0
               /\ Ready(q)' \/ Named!Opening(q)' => turn'[q] < Turns
    <3>1. CASE q = p
      <4>1. where'[p] # "out" /\ mine'[p].shm # 0 /\ mine'[p].sem # 0
        BY <1>2, <1>4, <1>5, <1>6, <1>9 DEF SemGiven
      <4>2. turn'[p] < Turns
        BY <1>3, <1>9 DEF Opened
      <4> QED BY <3>1, <4>1, <4>2
    <3>2. CASE q # p
      BY <1>9, <3>2 DEF Opened, OtherStays, Ready, Named!Opening
    <3> QED BY <3>1, <3>2
  <2> QED BY <2>1 DEF Opened
<1>13. SameMemorySameSem'
  <2>1. ASSUME NEW a \in Named!Procs, NEW b \in Named!Procs, a # b, ~overlap',
               Tied(a, b), Tied(b, a)
        PROVE  Tied(a, b)'
    <3>1. CASE p = a
      <4>1. /\ where'[b] = where[b] /\ mine'[b] = mine[b] /\ ~Named!Removing(a)'
            /\ mine'[a].shm = mine[a].shm /\ mine'[a].sem = names'.sem
        BY <1>2, <1>4, <1>6, <2>1, <3>1 DEF Named!Removing
      <4>2. Ready(b) /\ mine[a].shm = mine[b].shm => names'.sem = mine[b].sem
        <5>1. Ready(b) /\ mine[a].shm = mine[b].shm => names.sem = mine[b].sem /\ mine[b].sem # 0
          BY <1>9, <2>1, <3>1 DEF Tied, Opened
        <5> QED BY <1>5, <5>1 DEF SemGiven
      <4> QED BY <4>1, <4>2 DEF Tied, Ready
    <3>2. CASE p = b
      <4>1. /\ where'[a] = where[a] /\ mine'[a] = mine[a]
            /\ mine'[b].shm = mine[b].shm /\ mine'[b].sem = names'.sem
            /\ Named!Opening(b)
        BY <1>4, <1>6, <1>9, <2>1, <3>2
      <4>2. Ready(a) /\ mine[a].shm = mine[b].shm => names'.sem = mine[a].sem
        <5>1. Ready(a) /\ mine[a].shm = mine[b].shm => names.sem = mine[a].sem /\ mine[a].sem # 0
          BY <2>1, <4>1 DEF Tied, Opened
        <5> QED BY <1>5, <5>1 DEF SemGiven
      <4>3. Ready(a) /\ names.shm = mine[a].shm => names'.sem = mine[a].sem
        <5>1. Ready(a) /\ names.shm = mine[a].shm => names.sem = mine[a].sem /\ mine[a].sem # 0
          BY <2>1 DEF Tied, Opened
        <5> QED BY <1>5, <5>1 DEF SemGiven
      <4>4. Named!Removing(a)' => names'.shm = 0
        BY <1>5, <2>1, <4>1 DEF Tied, Named!Removing, SemGiven
      <4> QED BY <1>5, <4>1, <4>2, <4>3, <4>4 DEF Tied, Ready, SemGiven
    <3> QED BY <2>1, <3>1, <3>2
  <2> QED BY <1>8, <2>1 DEF SameMemorySameSem
<1>14. HalfIsLocked'
  <2>1. ASSUME ~overlap', NEW m \in 1..Len(memory), Locked(m)
        PROVE  Locked(m)'
    <3>1. names.sem \in abandoned => names'.sem \in abandoned
      BY <1>1, <1>5, NoObjectZero DEF SemGiven
    <3>2. CASE p = "con"
      <4>1. /\ where'["pro"] = where["pro"] /\ mine'["pro"] = mine["pro"]
            /\ mine'["con"].shm = mine["con"].shm /\ mine'["con"].sem = names'.sem
            /\ Named!Opening("con")
        BY <1>4, <1>6, <1>9, <3>2
      <4> QED BY <1>3, <1>5, <2>1, <3>1, <4>1 DEF Locked, SemGiven
    <3>3. CASE p = "pro"
      <4>1. /\ where'["con"] = where["con"] /\ mine'["con"] = mine["con"]
            /\ mine'["pro"].shm = mine["pro"].shm
            /\ where["pro"] \in {"open", "open again"}
        BY <1>2, <1>4, <1>6, <3>3
      <4>2. mine["pro"].shm # m /\ names.shm # m
        BY <2>1, <4>1 DEF Locked
      <4> QED BY <1>3, <1>5, <2>1, <3>1, <4>1, <4>2 DEF Locked, Ready, Named!Opening, SemGiven
    <3> QED BY <3>2, <3>3
  <2>2. \A m : Storing(m) => Storing(m)'
    BY <1>2, <1>4, <1>6 DEF Storing
  <2>3. \A m : Whole(m) => Whole(m)'
    BY <1>3 DEF Whole
  <2> QED BY <1>3, <1>8, <2>1, <2>2, <2>3 DEF HalfIsLocked
<1>15. CopyIsRight'
  <2>1. where'["pro"] = "var2" => where["pro"] = "var2"
    BY <1>2, <1>4
  <2>2. where'["con"] \in {"var2", "post"} => where'["con"] = where["con"]
    BY <1>2, <1>4
  <2>3. mine'["pro"].shm = mine["pro"].shm /\ mine'["con"].shm = mine["con"].shm
    BY <1>6
  <2> QED BY <1>3, <1>8, <2>1, <2>2, <2>3 DEF CopyIsRight
<1>16. AbandonedIsRemoved'
  <2>1. names'.sem \in abandoned => names'.sem = names.sem
    BY <1>7
  <2>2. ASSUME NEW q \in Named!Procs, mine[q].sem = names.sem,
               where[q] \in {"handler shm", "handler sem"}
        PROVE  mine'[q].sem = names.sem /\ where'[q] \in {"handler shm", "handler sem"}
    BY <1>2, <1>9, <2>2 DEF OtherStays
  <2> QED BY <1>3, <2>1, <2>2 DEF AbandonedIsRemoved
<1> QED BY <1>10, <1>11, <1>12, <1>13, <1>14, <1>15, <1>16

\* A step of the end or of the handler: it removes one name, and a program that
\* ends has nothing opened any more.
LEMMA NamedRemoves ==
  ASSUME NamedInv, NEW p \in Named!Procs, Named!Noted, NEW name \in {"shm", "sem"},
         NEW to \in {"out", "unlink sem", "handler sem"},
         Named!Go(p, where[p], to), Named!Unlink(name),
         UNCHANGED <<value, memory, runs, abandoned>>,
         copy' = copy \/ (p = "con" /\ copy' = Named!Zeros),
         IF to = "out" THEN /\ mine' = [mine EXCEPT ![p] = Named!None]
                            /\ turn' = [turn EXCEPT ![p] = 0]
                       ELSE UNCHANGED <<mine, turn>>,
         \/ name = "shm" /\ where[p] = "unlink shm" /\ to \in {"out", "unlink sem"}
         \/ name = "shm" /\ where[p] = "handler shm" /\ to = "handler sem"
         \/ name = "sem" /\ where[p] \in {"unlink sem", "handler sem"} /\ to = "out"
  PROVE  NamedInv'
<1> USE DEF NamedInv, Named!Procs
<1>1. NamedTypes
  BY TypesOfNamed
<1>2. where' = [where EXCEPT ![p] = to]
  BY DEF Named!Go
<1>3. \A q \in Named!Procs : where'[q] = IF q = p THEN to ELSE where[q]
  BY <1>1, <1>2 DEF NamedTypes
<1>4. /\ mine \in [Named!Procs -> Handles(Len(memory), Len(value))]
      /\ turn \in [Named!Procs -> 0..Turns]
      /\ names \in Handles(Len(memory), Len(value))
  BY DEF Named!TypeOK, Handles
<1>5. IF to = "out" THEN mine'[p] = Named!None /\ turn'[p] = 0
                    ELSE mine'[p] = mine[p] /\ turn'[p] = turn[p]
  BY <1>4
<1>6. OtherStays(p)
  BY <1>3, <1>4 DEF OtherStays
<1>7. /\ name = "shm" => names'.shm = 0 /\ names'.sem = names.sem
      /\ name = "sem" => names'.sem = 0 /\ names'.shm = names.shm
  BY <1>4 DEF Named!Unlink, Handles
<1>8. where'[p] = to
  BY <1>3
<1>9. Named!TypeOK'
  <2>1. /\ value \in Seq(0..1) /\ memory \in Seq(Pair) /\ copy \in Pair
        /\ abandoned \subseteq 1..Len(value) /\ Named!Zeros \in Pair
    BY DEF Named!TypeOK, Pair, Named!Zeros
  <2>2. turn' \in [Named!Procs -> 0..Turns]
    <3>1. turn'= turn \/ turn' = [turn EXCEPT ![p] = 0]
      OBVIOUS
    <3> QED BY <1>4, <3>1, CountsFromZero
  <2>3. to \in Named!Places
    BY DEF Named!Places
  <2>4. mine' = mine \/ mine' = [mine EXCEPT ![p] = Named!None]
    OBVIOUS
  <2>5. \E f \in {"shm", "sem"} : names' = [names EXCEPT ![f] = 0]
    BY DEF Named!Unlink
  <2> QED BY <1>2, <2>1, <2>2, <2>3, <2>4, <2>5, NamedTypesKept
<1>10. p = "pro" => copy' = copy
  OBVIOUS
<1>11. /\ SemaphoresKept' /\ Opened' /\ SameMemorySameSem'
       /\ HalfIsLocked' /\ CopyIsRight' /\ AbandonedIsRemoved'
  BY <1>5, <1>6, <1>7, <1>8, <1>10, NamedLeaves
<1> QED BY <1>9, <1>11

\* Every step of the two programs keeps the invariant.
LEMMA NamedStep ==
  ASSUME NamedInv, Named!Next
  PROVE  NamedInv'
<1>1. PICK p \in Named!Procs :
        (Named!Start(p) \/ Named!Program(p) \/ Named!Interrupt(p)) /\ Named!Noted
  BY DEF Named!Next
<1>2. CASE Named!Start(p)
  BY <1>1, <1>2, NamedStart
<1>3. CASE Named!OpenSem(p)
  BY <1>1, <1>3, NamedOpenSem
<1>4. CASE Named!SemWait(p)
  BY <1>1, <1>4, NamedSemWait
<1>5. CASE Named!Var1(p)
  BY <1>1, <1>5, NamedVar1
<1>6. CASE Named!Var2(p)
  BY <1>1, <1>6, NamedVar2
<1>7. CASE Named!SemPost(p)
  BY <1>1, <1>7, NamedSemPost
<1>8. CASE Named!Interrupt(p)
  BY <1>1, <1>8, NamedInterrupt
<1>9. CASE Named!UnlinkShm(p)
  <2>1. PICK to \in {"out", "unlink sem"} :
          /\ where[p] = "unlink shm" /\ Named!Go(p, where[p], to)
          /\ IF to = "out" THEN /\ mine' = [mine EXCEPT ![p] = Named!None]
                                /\ turn' = [turn EXCEPT ![p] = 0]
                           ELSE UNCHANGED <<mine, turn>>
          /\ copy' = copy \/ (p = "con" /\ copy' = Named!Zeros)
    BY <1>9 DEF Named!UnlinkShm, Named!End, Named!Go
  <2>2. Named!Unlink("shm") /\ UNCHANGED <<value, memory, runs, abandoned>>
    BY <1>9 DEF Named!UnlinkShm
  <2> QED BY <1>1, <2>1, <2>2, NamedRemoves
<1>10. CASE Named!UnlinkSem(p) \/ Named!HandlerSem(p)
  <2>1. /\ where[p] \in {"unlink sem", "handler sem"} /\ Named!Go(p, where[p], "out")
        /\ mine' = [mine EXCEPT ![p] = Named!None] /\ turn' = [turn EXCEPT ![p] = 0]
        /\ copy' = copy \/ (p = "con" /\ copy' = Named!Zeros)
    BY <1>10 DEF Named!UnlinkSem, Named!HandlerSem, Named!End, Named!Go
  <2>2. Named!Unlink("sem") /\ UNCHANGED <<value, memory, runs, abandoned>>
    BY <1>10 DEF Named!UnlinkSem, Named!HandlerSem
  <2> QED BY <1>1, <2>1, <2>2, NamedRemoves
<1>11. CASE Named!HandlerShm(p)
  <2>1. /\ where[p] = "handler shm" /\ Named!Go(p, where[p], "handler sem")
        /\ Named!Unlink("shm") /\ UNCHANGED <<mine, value, memory, copy, turn, runs, abandoned>>
    BY <1>11 DEF Named!HandlerShm, Named!Go
  <2> QED BY <1>1, <2>1, NamedRemoves
<1> QED
  BY <1>1, <1>2, <1>3, <1>4, <1>5, <1>6, <1>7, <1>8, <1>9, <1>10, <1>11
  DEF Named!Program

\* A step of the System V pair does not touch it.
LEMMA NamedStutter ==
  ASSUME NamedInv, UNCHANGED named
  PROVE  NamedInv'
<1> USE DEF named
<1>1. Named!TypeOK'
  BY DEF NamedInv, Named!TypeOK
<1>2. SemaphoresKept' /\ AbandonedIsRemoved'
  BY DEF NamedInv, SemaphoresKept, AbandonedIsRemoved, HoldsSem, Named!Inside, Num
<1>3. Opened' /\ SameMemorySameSem'
  BY DEF NamedInv, Opened, SameMemorySameSem, Tied, Ready, Named!Opening,
         Named!Removing, Named!Overlapping
<1>4. HalfIsLocked' /\ CopyIsRight'
  BY DEF NamedInv, HalfIsLocked, Whole, Storing, Locked, CopyIsRight, Ready,
         Named!Opening
<1> QED BY <1>1, <1>2, <1>3, <1>4 DEF NamedInv

\* Nothing is opened yet, and no name stands for an object.
LEMMA NamedStarts ==
  ASSUME Named!Init
  PROVE  NamedInv
<1> USE DEF Named!Procs
<1>1. /\ \A p \in Named!Procs : where[p] = "out" /\ mine[p] = Named!None /\ turn[p] = 0
      /\ names = Named!None /\ value = <<>> /\ memory = <<>> /\ copy = Named!Zeros
      /\ abandoned = {} /\ overlap = FALSE
  BY DEF Named!Init
<1>2. Named!None.shm = 0 /\ Named!None.sem = 0
  BY DEF Named!None
<1>3. 1..Len(value) = {} /\ 1..Len(memory) = {}
  BY <1>1
<1>4. Named!TypeOK
  <2>1. value \in Seq(0..1) /\ memory \in Seq(Pair) /\ copy \in Pair
    BY <1>1 DEF Pair, Named!Zeros
  <2>2. Named!None \in Handles(Len(memory), Len(value))
    BY <1>1 DEF Named!None, Handles
  <2>3. 0 \in 0..Turns /\ 0 \in 0..MaxRuns /\ "out" \in Named!Places
    BY CountsFromZero DEF Named!Places
  <2>4. /\ mine \in [Named!Procs -> Handles(Len(memory), Len(value))]
        /\ turn \in [Named!Procs -> 0..Turns] /\ runs \in [Named!Procs -> 0..MaxRuns]
        /\ where \in [Named!Procs -> Named!Places]
    BY <2>2, <2>3 DEF Named!Init
  <2> QED BY <1>1, <2>1, <2>2, <2>4 DEF Named!TypeOK, Handles, Pair
<1>5. SemaphoresKept /\ HalfIsLocked
  BY <1>3 DEF SemaphoresKept, HalfIsLocked
<1>6. Opened /\ AbandonedIsRemoved /\ CopyIsRight
  BY <1>1 DEF Opened, AbandonedIsRemoved, CopyIsRight, Ready, Named!Opening
<1>7. SameMemorySameSem
  BY <1>1, <1>2 DEF SameMemorySameSem, Tied, Ready, Named!Opening, Named!Removing,
                    Named!Overlapping
<1> QED BY <1>4, <1>5, <1>6, <1>7 DEF NamedInv

\* What the invariant is for.
LEMMA NamedFacts ==
  ASSUME NamedInv
  PROVE  Named!TypeOK /\ PairKept
<1> USE DEF Named!Procs
<1>1. Named!TypeOK /\ NamedTypes
  BY TypesOfNamed DEF NamedInv
<1>2. Named!MemoryIsExclusive
  <2>1. ASSUME ~overlap, Named!Inside("pro"), Named!Inside("con")
        PROVE  mine["con"].shm # mine["pro"].shm
    BY <2>1, InsideIsAlone
  <2> QED BY <2>1 DEF Named!MemoryIsExclusive, Named!Other
<1>3. Named!WholePair
  BY DEF NamedInv, CopyIsRight, Named!WholePair
<1>4. Named!NeverLeftLocked
  <2>1. SUFFICES ASSUME names.sem # 0, value[names.sem] = 0
                 PROVE  \E p \in Named!Procs :
                          /\ mine[p].sem = names.sem
                          /\ Named!Inside(p) \/ where[p] \in {"handler shm", "handler sem"}
    BY DEF Named!NeverLeftLocked
  <2>2. names.sem \in 1..Len(value)
    BY <1>1, <2>1 DEF NamedTypes
  <2>3. CASE names.sem \in abandoned
    BY <2>3 DEF NamedInv, AbandonedIsRemoved
  <2>4. CASE names.sem \notin abandoned
    <3>1. HoldsSem("pro", names.sem) \/ HoldsSem("con", names.sem)
      BY <2>1, <2>2, <2>4 DEF NamedInv, SemaphoresKept, Num
    <3> QED BY <3>1 DEF HoldsSem
  <2> QED BY <2>3, <2>4
<1> QED BY <1>1, <1>2, <1>3, <1>4 DEF PairKept

-----------------------------------------------------------------------------
(* The two pairs beside each other.                                        *)

\* Both inductive invariants: only one pair runs in a behaviour.
MemoryInv == SysvInv /\ NamedInv

\* A step of either pair keeps both invariants.
LEMMA MemoryStep ==
  ASSUME MemoryInv, [MemoryNext]_all_memory
  PROVE  MemoryInv'
<1>1. CASE RunsSysv /\ Next
  BY <1>1, SysvStep, NamedStutter DEF MemoryInv, RunsSysv
<1>2. CASE RunsNamed /\ Named!Next
  BY <1>2, NamedStep, SysvStutter DEF MemoryInv, RunsNamed
<1>3. CASE UNCHANGED all_memory
  BY <1>3, NamedStutter, SysvStutter DEF MemoryInv, all_memory
<1> QED BY <1>1, <1>2, <1>3 DEF MemoryNext

\* Both invariants hold throughout a run of either pair.
LEMMA MemoryKept == MemorySpec => []MemoryInv
<1>1. MemoryInit => MemoryInv
  BY NamedStarts, SysvStarts DEF MemoryInit, MemoryInv
<1>2. MemoryInv /\ [MemoryNext]_all_memory => MemoryInv'
  BY MemoryStep
<1> QED BY <1>1, <1>2, PTL DEF MemorySpec

\* Every variable of the two pairs stays in its range: no semaphore exceeds 1,
\* no handle stands for an object that was not made.
THEOREM MemoryTypeCorrect == MemorySpec => []MemoryTypeOK
<1>1. MemoryInv => MemoryTypeOK
  BY SysvFacts, NamedFacts DEF MemoryInv, MemoryTypeOK
<1> QED BY <1>1, MemoryKept, PTL

\* EMPTY and FULL account for the buffer, no store is outside it and one program
\* is at it at a time, for every size of the buffer and every number of rounds
\* (shared.c:6-85).
THEOREM BufferAccounts == MemorySpec => []BufferKept
<1>1. MemoryInv => BufferKept
  BY SysvFacts DEF MemoryInv
<1> QED BY <1>1, MemoryKept, PTL

\* pro and con are never both inside in the same memory, con prints no half of
\* a pair, and no handler leaves a locked semaphore under the name, for every
\* number of turns and of runs (pro.c:29-44, 96-107, con.c:90-102).
THEOREM PairIsKept == MemorySpec => []PairKept
<1>1. MemoryInv => PairKept
  BY NamedFacts DEF MemoryInv
<1> QED BY <1>1, MemoryKept, PTL

=============================================================================
