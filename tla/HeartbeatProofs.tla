--------------------------- MODULE HeartbeatProofs ---------------------------
(***************************************************************************)
(* Proofs about Heartbeat for every log of at least two slots, every clock *)
(* and every number of beats: the indices agree, the log holds the latest  *)
(* beats, an unlocked reader that is not overtaken copies one record, and  *)
(* the moving average of the intervals is what its window says.            *)
(***************************************************************************)
EXTENDS Heartbeat, ModularArithmetic, FiniteSetTheorems

Writing == pc \in {"stamp", "rate", "publish"}

\* The types this argument needs (the window of intervals plays no part in it).
Types ==
  /\ pc \in Places
  /\ cnt \in Slots \cup {-1}
  /\ hb \in [first_timestamp : Int, last_timestamp : Int]
  /\ local \in [first : BOOLEAN, index : Slots, rate : Seq(Int)]
  /\ state \in [counter : Nat, buffer_index : 0..BufferDepth,
                read_index : 0..BufferDepth]
  /\ log \in [Slots -> Records]
  /\ reader \in Readings
  /\ history \in Seq(Times)

\* A beat counts once it is published; a process without segments has none, and
\* its beats move Python's counter alone.
Counted ==
  /\ state.counter = IF Writing THEN Len(history) - 1 ELSE Len(history)
  /\ pc \in {"absent", "silent", "failed"} => history = <<>>
  /\ hb.first_timestamp = -1 <=> history = <<>>
  /\ history # <<>> => hb.last_timestamp = history[Len(history)]
  /\ pc # "silent" =>
       cnt = IF history = <<>> THEN -1 ELSE (Len(history) - 1) % BufferDepth

\* Where the indices are, in the transient before the wrap too.
Indices ==
  IF pc = "wrap"
    THEN /\ state.counter >= 2
         /\ state.buffer_index = ((state.counter - 1) % BufferDepth) + 1
         /\ state.read_index = ((state.counter - 2) % BufferDepth) + 1
    ELSE /\ state.buffer_index = state.counter % BufferDepth
         /\ state.read_index = IF state.counter = 0 THEN 0
                               ELSE (state.counter - 1) % BufferDepth

\* The beat in progress fills the slot of its number, field by field.
InProgress ==
  Writing =>
    /\ local.first <=> state.counter = 0
    /\ local.index = state.counter % BufferDepth
    /\ local.rate = TrueRecord(state.counter).rate
    /\ pc \in {"rate", "publish"} =>
         log[local.index].timestamp = history[Len(history)]
    /\ pc = "publish" => log[local.index].rate = local.rate

\* Every slot that no beat has begun to reuse holds its beat.
LogInv ==
  \A b \in 0..state.counter - 1 :
    b + BufferDepth >= Len(history) => log[b % BufferDepth] = TrueRecord(b)

\* What the reader has copied, as long as its slot has not been reused.
ReaderInv ==
  /\ reader.beat < state.counter
  /\ reader.pc # "index" /\ reader.beat # -1 =>
       reader.index \in {reader.beat % BufferDepth, BufferDepth}
  /\ reader.pc \in {"rate", "done", "printed"} => reader.index \in Slots
  /\ reader.beat # -1 /\ Len(history) <= reader.beat + BufferDepth =>
       /\ reader.pc \in {"rate", "done", "printed"} =>
            reader.record.timestamp = TrueRecord(reader.beat).timestamp
       /\ reader.pc \in {"done", "printed"} =>
            reader.record.rate = TrueRecord(reader.beat).rate

HeartbeatInv == Types /\ Counted /\ Indices /\ InProgress /\ LogInv /\ ReaderInv

-----------------------------------------------------------------------------
(* The ring.                                                               *)

\* The log has two slots at least.
LEMMA DepthFacts ==
  /\ BufferDepth \in Nat \ {0} /\ BufferDepth >= 2
  /\ 0 \in Slots
  /\ \A n \in Nat : n % BufferDepth \in Slots
BY DepthAssumption, DivMod DEF Slots

\* A remainder is a slot.
LEMMA RingFacts ==
  ASSUME NEW n \in Nat
  PROVE  n % BufferDepth \in 0..BufferDepth - 1 /\ n % BufferDepth \in 0..BufferDepth
BY DepthAssumption, DivMod

\* The wrap that follows the increment is one step on the ring.
LEMMA WrappedNext ==
  ASSUME NEW n \in Nat
  PROVE  Wrapped((n % BufferDepth) + 1) = (n + 1) % BufferDepth
<1> DEFINE r == n % BufferDepth
<1>1. r \in 0..BufferDepth - 1 /\ BufferDepth \in Nat \ {0}
  BY DepthFacts DEF Slots
<1>2. (n + 1) % BufferDepth = IF r + 1 = BufferDepth THEN 0 ELSE r + 1
  BY <1>1, StepMod
<1> HIDE DEF r
<1>3. CASE r + 1 = BufferDepth
  BY <1>1, <1>2, <1>3, SelfMod DEF Wrapped, r
<1>4. CASE r + 1 # BufferDepth
  <2>1. r + 1 \in 0..BufferDepth - 1 /\ r + 1 # 0
    BY <1>1, <1>4
  <2>2. (r + 1) % BufferDepth = r + 1
    BY <1>1, <2>1, SmallMod
  <2> QED BY <1>2, <1>4, <2>1, <2>2 DEF Wrapped, r
<1> QED BY <1>3, <1>4

\* Python's own step on the ring is the same.
LEMMA CntNext ==
  ASSUME NEW n \in Nat
  PROVE  ((n % BufferDepth) + 1) % BufferDepth = (n + 1) % BufferDepth
<1> DEFINE r == n % BufferDepth
<1>1. r \in 0..BufferDepth - 1 /\ BufferDepth \in Nat \ {0}
  BY DepthFacts DEF Slots
<1>2. (n + 1) % BufferDepth = IF r + 1 = BufferDepth THEN 0 ELSE r + 1
  BY <1>1, StepMod
<1> HIDE DEF r
<1>3. CASE r + 1 = BufferDepth
  BY <1>1, <1>2, <1>3, SelfMod DEF r
<1>4. CASE r + 1 # BufferDepth
  <2>1. r + 1 \in 0..BufferDepth - 1
    BY <1>1, <1>4
  <2>2. (r + 1) % BufferDepth = r + 1
    BY <1>1, <2>1, SmallMod
  <2> QED BY <1>2, <1>4, <2>2 DEF r
<1> QED BY <1>3, <1>4

\* A step that leaves history alone leaves the true records alone.
LEMMA SameHistory ==
  ASSUME UNCHANGED history
  PROVE  \A b : TrueRecord(b)' = TrueRecord(b)
BY DEF TrueRecord

\* Beginning a beat adds to history and keeps the true records.
LEMMA LongerHistory ==
  ASSUME history \in Seq(Times), NEW time \in Times, history' = Append(history, time)
  PROVE  /\ history' \in Seq(Times) /\ Len(history') = Len(history) + 1
         /\ Len(history) \in Nat /\ history' # <<>>
         /\ history'[Len(history) + 1] = time
         /\ \A b \in 0..Len(history) - 1 : TrueRecord(b)' = TrueRecord(b)
         /\ \A i \in 1..Len(history) : history'[i] = history[i]
<1>1. /\ history' \in Seq(Times) /\ Len(history') = Len(history) + 1
      /\ Len(history) \in Nat /\ history' # <<>>
      /\ history'[Len(history) + 1] = time
      /\ \A i \in 1..Len(history) : history'[i] = history[i]
  OBVIOUS
<1>2. ASSUME NEW b \in 0..Len(history) - 1
      PROVE  TrueRecord(b)' = TrueRecord(b)
  <2>1. b + 1 \in 1..Len(history) /\ (b # 0 => b \in 1..Len(history))
    BY <1>1
  <2> QED BY <1>1, <2>1 DEF TrueRecord
<1> QED BY <1>1, <1>2

-----------------------------------------------------------------------------
(* The steps of the process.                                               *)

\* Starting, failing, faulting and finishing touch neither beats nor log.
LEMMA QuietStep ==
  ASSUME HeartbeatInv,
         UNCHANGED <<hb, local, state, log, reader, history>>,
         cnt' \in Slots \cup {-1}, pc' # "silent" => pc # "silent" /\ cnt' = cnt,
         pc' \in Places, pc' = pc \/ (~Writing' /\ ~Writing /\ pc # "wrap" /\ pc' # "wrap"),
         pc' \in {"absent", "silent", "failed"} => pc \in {"absent", "silent", "failed"}
  PROVE  HeartbeatInv'
<1> USE DEF HeartbeatInv
<1>1. \A b : TrueRecord(b)' = TrueRecord(b)
  BY SameHistory
<1>2. Types'
  BY DEF Types
<1>3. Counted'
  BY DEF Counted, Writing
<1>4. Indices'
  BY DEF Indices
<1>5. InProgress'
  BY <1>1 DEF InProgress, Writing
<1>6. LogInv'
  BY <1>1 DEF LogInv
<1>7. ReaderInv'
  BY <1>1 DEF ReaderInv
<1> QED BY <1>2, <1>3, <1>4, <1>5, <1>6, <1>7

\* Beginning a beat takes the slot of its number, and history ahead of the
\* counter.
LEMMA BeginStep ==
  ASSUME HeartbeatInv, NEW time \in Times, BeatBegin(time)
  PROVE  HeartbeatInv'
<1> USE DEF HeartbeatInv
<1> DEFINE L == Len(history)
<1>1. /\ pc = "idle" /\ pc' = "stamp" /\ UNCHANGED <<state, log, reader>>
      /\ history' = Append(history, time) /\ cnt' = (cnt + 1) % BufferDepth
  BY DEF BeatBegin
<1>2. /\ history' \in Seq(Times) /\ Len(history') = L + 1 /\ L \in Nat
      /\ history' # <<>> /\ history'[L + 1] = time
      /\ \A b \in 0..L - 1 : TrueRecord(b)' = TrueRecord(b)
      /\ \A i \in 1..L : history'[i] = history[i]
  BY <1>1, LongerHistory DEF Types
<1>3. state.counter = L /\ state'.counter = L /\ (history = <<>> <=> L = 0)
  BY <1>1 DEF Counted, Writing, Types
<1>4. time \in Int /\ time # -1 /\ L % BufferDepth \in Slots
  BY <1>2, TimesAssumption, DepthFacts
<1>5. hb' \in [first_timestamp : Int, last_timestamp : Int]
      /\ hb'.first_timestamp # -1 /\ hb'.last_timestamp = time
  BY <1>1, <1>4 DEF BeatBegin, FirstBeat, LaterBeat, Types
<1>6. /\ local' \in [first : BOOLEAN, index : Slots, rate : Seq(Int)]
      /\ local'.first <=> L = 0
      /\ local'.index = L % BufferDepth
      /\ local'.rate = (TrueRecord(state.counter).rate)'
  <2>1. CASE hb.first_timestamp = -1
    <3>1. L = 0 /\ local' = [first |-> TRUE, index |-> 0, rate |-> <<>>]
      BY <1>3, <2>1 DEF BeatBegin, FirstBeat, LaterBeat, Counted
    <3>2. 0 % BufferDepth = 0
      BY DepthFacts, SmallMod DEF Slots
    <3> QED BY <1>3, <3>1, <3>2, DepthFacts DEF TrueRecord
  <2>2. CASE hb.first_timestamp # -1
    <3>1. /\ L # 0 /\ hb.last_timestamp = history[L]
          /\ local' = [first |-> FALSE, index |-> state.buffer_index,
                       rate |-> <<time - hb.last_timestamp>>]
      BY <1>2, <1>3, <2>2 DEF BeatBegin, FirstBeat, LaterBeat, Counted, Slot
    <3>2. state.buffer_index = L % BufferDepth
      BY <1>1, <1>3 DEF Indices
    <3>3. L \in 1..L
      BY <1>2, <3>1
    <3>4. (TrueRecord(state.counter).rate)' = <<time - history[L]>>
      BY <1>2, <1>3, <3>1, <3>3 DEF TrueRecord
    <3>5. time - hb.last_timestamp \in Int
      BY <1>4 DEF Types
    <3> QED BY <1>4, <3>1, <3>2, <3>4, <3>5
  <2> QED BY <2>1, <2>2
<1>7. cnt' = L % BufferDepth
  <2>1. CASE L = 0
    <3>1. 0 % BufferDepth = 0
      BY DepthFacts, SmallMod DEF Slots
    <3> QED BY <1>1, <1>3, <2>1, <3>1 DEF Counted
  <2>2. CASE L # 0
    <3>1. L - 1 \in Nat /\ cnt = (L - 1) % BufferDepth
      BY <1>2, <1>3, <2>2 DEF Counted
    <3> QED BY <1>1, <3>1, CntNext
  <2> QED BY <2>1, <2>2
<1>8. Types'
  BY <1>1, <1>2, <1>4, <1>5, <1>6, <1>7 DEF Types, Places
<1>9. Counted'
  BY <1>1, <1>2, <1>3, <1>5, <1>7 DEF Counted, Writing
<1>10. Indices'
  BY <1>1 DEF Indices
<1>11. InProgress'
  BY <1>1, <1>2, <1>3, <1>5, <1>6 DEF InProgress, Writing
<1>12. LogInv'
  <2>1. L \in Nat /\ BufferDepth \in Nat /\ Len(history') = L + 1
    BY <1>2, DepthFacts
  <2> HIDE DEF L
  <2> SUFFICES ASSUME NEW b \in 0..L - 1, b + BufferDepth >= L + 1
               PROVE  log[b % BufferDepth] = TrueRecord(b)
    BY <1>1, <1>2, <1>3, <2>1 DEF LogInv
  <2> QED BY SMTT(30), <1>3, <2>1 DEF LogInv, L
<1>13. ReaderInv'
  <2>1. reader.beat \in Nat \cup {-1} /\ reader.beat < L
    BY <1>3 DEF ReaderInv, Types, Readings
  <2>2. L \in Nat /\ BufferDepth \in Nat /\ Len(history') = L + 1
    BY <1>2, DepthFacts
  <2>3. reader.beat # -1 => TrueRecord(reader.beat)' = TrueRecord(reader.beat)
    <3> HIDE DEF L
    <3>1. reader.beat # -1 => reader.beat \in 0..L - 1
      BY <2>1, <2>2
    <3> QED BY <1>1, <1>2, <3>1 DEF TrueRecord
  <2>4. L + 1 <= reader.beat + BufferDepth => L <= reader.beat + BufferDepth
    <3> HIDE DEF L
    <3> QED BY <2>1, <2>2
  <2> QED BY <1>1, <1>3, <2>2, <2>3, <2>4 DEF ReaderInv
<1> QED BY <1>8, <1>9, <1>10, <1>11, <1>12, <1>13

\* Writing one field of the record in progress: the slot it lies in belongs
\* to no live beat, because a beat in the same slot is BufferDepth older.
LEMMA FieldStep ==
  ASSUME HeartbeatInv, NEW rec \in Records, pc \in {"stamp", "rate"},
         pc' \in {"rate", "publish"}, log' = [log EXCEPT ![local.index] = rec],
         UNCHANGED <<cnt, hb, local, state, reader, history>>
  PROVE  Types' /\ Counted' /\ Indices' /\ LogInv' /\ ReaderInv'
<1> USE DEF HeartbeatInv
<1>1. \A b : TrueRecord(b)' = TrueRecord(b)
  BY SameHistory
<1>2. /\ local.index = state.counter % BufferDepth /\ local.index \in Slots
      /\ state.counter = Len(history) - 1 /\ state.counter \in Nat
      /\ log \in [Slots -> Records]
  BY DEF InProgress, Writing, Counted, Types
<1>3. Types'
  BY <1>2 DEF Types, Places
<1>4. Counted'
  BY DEF Counted, Writing
<1>5. Indices'
  BY DEF Indices
<1>6. LogInv'
  <2> DEFINE c == state.counter
  <2>1. SUFFICES ASSUME NEW b \in 0..c - 1, b + BufferDepth >= Len(history)
                 PROVE  log'[b % BufferDepth] = TrueRecord(b)
    BY <1>1 DEF LogInv
  <2>2. Len(history) = c + 1 /\ c \in Nat /\ b \in Nat /\ b < c
        /\ BufferDepth \in Nat \ {0}
    BY <1>2, DepthFacts
  <2>3. b % BufferDepth # c % BufferDepth
    <3> HIDE DEF c
    <3>1. SUFFICES ASSUME b % BufferDepth = c % BufferDepth PROVE FALSE
      OBVIOUS
    <3>2. c - b >= BufferDepth
      BY <2>2, <3>1, SameSlotFarApart
    <3> QED BY <2>1, <2>2, <3>2
  <2>4. b % BufferDepth \in Slots
    BY <2>2, DepthFacts
  <2>5. log'[b % BufferDepth] = log[b % BufferDepth]
    BY <1>2, <2>3, <2>4
  <2> QED BY <2>1, <2>5 DEF LogInv
<1>7. ReaderInv'
  BY <1>1 DEF ReaderInv
<1> QED BY <1>3, <1>4, <1>5, <1>6, <1>7

\* Writing the time of the beat in progress.
LEMMA WriteStampStep ==
  ASSUME HeartbeatInv, WriteStamp
  PROVE  HeartbeatInv'
<1> DEFINE rec == [log[local.index] EXCEPT !.timestamp = hb.last_timestamp]
<1>1. log \in [Slots -> Records] /\ local.index \in Slots /\ hb.last_timestamp \in Int
  BY DEF HeartbeatInv, Types
<1>2. rec \in Records
  BY <1>1 DEF Records
<1>3. /\ pc = "stamp" /\ pc' = "rate" /\ log' = [log EXCEPT ![local.index] = rec]
      /\ UNCHANGED <<cnt, hb, local, state, reader, history>>
  BY DEF WriteStamp
<1>4. Types' /\ Counted' /\ Indices' /\ LogInv' /\ ReaderInv'
  <2> HIDE DEF rec
  <2> QED BY <1>2, <1>3, FieldStep
<1>5. InProgress'
  <2>1. log'[local.index].timestamp = hb.last_timestamp
    BY <1>1, <1>3 DEF Records
  <2>2. history # <<>>
    BY <1>3 DEF HeartbeatInv, Counted, Writing, Types
  <2>3. hb.last_timestamp = history[Len(history)]
    BY <2>2 DEF HeartbeatInv, Counted
  <2>4. \A b : TrueRecord(b)' = TrueRecord(b)
    BY <1>3, SameHistory
  <2> HIDE DEF rec
  <2> QED BY <1>3, <2>1, <2>3, <2>4 DEF HeartbeatInv, InProgress, Writing
<1> QED BY <1>4, <1>5 DEF HeartbeatInv

\* Writing its rate.
LEMMA WriteRateStep ==
  ASSUME HeartbeatInv, WriteRate
  PROVE  HeartbeatInv'
<1> DEFINE rec == [log[local.index] EXCEPT !.rate = local.rate]
<1>1. log \in [Slots -> Records] /\ local.index \in Slots /\ local.rate \in Seq(Int)
  BY DEF HeartbeatInv, Types
<1>2. rec \in Records
  BY <1>1 DEF Records
<1>3. /\ pc = "rate" /\ pc' = "publish" /\ log' = [log EXCEPT ![local.index] = rec]
      /\ UNCHANGED <<cnt, hb, local, state, reader, history>>
  BY DEF WriteRate
<1>4. Types' /\ Counted' /\ Indices' /\ LogInv' /\ ReaderInv'
  <2> HIDE DEF rec
  <2> QED BY <1>2, <1>3, FieldStep
<1>5. InProgress'
  <2>1. /\ log'[local.index].rate = local.rate
        /\ log'[local.index].timestamp = log[local.index].timestamp
    BY <1>1, <1>3 DEF Records
  <2>2. \A b : TrueRecord(b)' = TrueRecord(b)
    BY <1>3, SameHistory
  <2> HIDE DEF rec
  <2> QED BY <1>3, <2>1, <2>2 DEF HeartbeatInv, InProgress, Writing
<1> QED BY <1>4, <1>5 DEF HeartbeatInv

\* Publishing makes the record in progress that of the latest beat and moves
\* the indices, perhaps past the end.
LEMMA PublishStep ==
  ASSUME HeartbeatInv, Publish
  PROVE  HeartbeatInv'
<1> USE DEF HeartbeatInv
<1> DEFINE c == state.counter
<1>1. /\ pc = "publish" /\ UNCHANGED <<cnt, hb, local, log, reader, history>>
      /\ pc' = IF local.first THEN "idle" ELSE "wrap"
      /\ state' = [counter      |-> c + 1,
                   buffer_index |-> state.buffer_index + 1,
                   read_index   |-> state.read_index + ReadStep(local.first)]
  BY DEF Publish
<1>2. \A b : TrueRecord(b)' = TrueRecord(b)
  BY <1>1, SameHistory
<1>3. /\ c \in Nat /\ Len(history) = c + 1
      /\ local.first <=> c = 0
      /\ local.index = c % BufferDepth /\ local.index \in Slots
      /\ local.rate = TrueRecord(c).rate
      /\ log[local.index].timestamp = history[Len(history)]
      /\ log[local.index].rate = local.rate
  BY <1>1 DEF Counted, InProgress, Writing, Types
<1>4. BufferDepth \in Nat \ {0} /\ BufferDepth >= 2 /\ c % BufferDepth \in 0..BufferDepth - 1
  BY <1>3, DepthFacts DEF Slots
<1>5. state'.buffer_index = (c % BufferDepth) + 1 /\ state'.counter = c + 1
  BY <1>1 DEF Indices
<1>6. Indices' /\ state'.read_index \in 0..BufferDepth
  <2>1. CASE c = 0
    <3>1. 0 % BufferDepth = 0 /\ 1 % BufferDepth = 1
      BY <1>4, SmallMod
    <3>2. pc' = "idle" /\ state'.read_index = 0 /\ state'.buffer_index = 1
          /\ state'.counter = 1
      BY <1>1, <1>3, <1>5, <2>1, <3>1 DEF Indices, ReadStep
    <3> QED BY <1>4, <3>1, <3>2 DEF Indices
  <2>2. CASE c # 0
    <3>1. c - 1 \in Nat /\ (c - 1) % BufferDepth \in 0..BufferDepth - 1
      <4>1. c - 1 \in Nat
        BY <1>3, <2>2
      <4> QED BY <4>1, RingFacts
    <3>2. pc' = "wrap" /\ state'.read_index = ((c - 1) % BufferDepth) + 1
      BY <1>1, <1>3, <2>2 DEF Indices, ReadStep
    <3>3. state'.counter - 1 = c /\ state'.counter - 2 = c - 1 /\ state'.counter >= 2
      BY <1>3, <1>5, <2>2
    <3>4. Indices'
      BY <1>5, <3>2, <3>3 DEF Indices
    <3>5. state'.read_index \in 0..BufferDepth
      BY <1>4, <3>1, <3>2
    <3> QED BY <3>4, <3>5
  <2> QED BY <2>1, <2>2
<1>7. Types'
  <2>1. state'.counter \in Nat /\ state'.buffer_index \in 0..BufferDepth
    BY <1>3, <1>4, <1>5
  <2>2. state' \in [counter : Nat, buffer_index : 0..BufferDepth,
                    read_index : 0..BufferDepth]
    BY <1>1, <1>6, <2>1
  <2>3. pc' \in Places
    BY <1>1 DEF Places
  <2> QED BY <1>1, <2>2, <2>3 DEF Types
<1>8. Counted'
  BY <1>1, <1>3, <1>5 DEF Counted, Writing
<1>9. InProgress'
  BY <1>1 DEF InProgress, Writing
<1>10. log[c % BufferDepth] = TrueRecord(c)
  <2>1. log[local.index] \in [timestamp : Int, rate : Seq(Int)]
    BY <1>3 DEF Types, Records
  <2>2. TrueRecord(c) = [timestamp |-> history[c + 1], rate |-> TrueRecord(c).rate]
    BY DEF TrueRecord
  <2>3. log[local.index] = [timestamp |-> log[local.index].timestamp,
                            rate |-> log[local.index].rate]
    BY <2>1
  <2> QED BY <1>3, <2>2, <2>3
<1>11. LogInv'
  <2> SUFFICES ASSUME NEW b \in 0..c, b + BufferDepth >= Len(history)
               PROVE  log[b % BufferDepth] = TrueRecord(b)
    BY <1>1, <1>2, <1>3, <1>5 DEF LogInv
  <2>1. CASE b = c
    BY <1>10, <2>1
  <2>2. CASE b # c
    <3>1. b \in 0..c - 1
      BY <1>3, <2>2
    <3> QED BY <3>1 DEF LogInv
  <2> QED BY <2>1, <2>2
<1>12. ReaderInv'
  <2>1. reader.beat \in Int /\ reader.beat < c
    BY DEF ReaderInv, Types, Readings
  <2>2. reader.beat < c + 1
    BY <1>3, <2>1
  <2> QED BY <1>1, <1>2, <1>5, <2>2 DEF ReaderInv
<1> QED BY <1>6, <1>7, <1>8, <1>9, <1>11, <1>12

\* The wrap brings both indices back to the slots of the two latest numbers.
LEMMA WrapStep ==
  ASSUME HeartbeatInv, Wrap
  PROVE  HeartbeatInv'
<1> USE DEF HeartbeatInv
<1> DEFINE c == state.counter
<1>1. /\ pc = "wrap" /\ pc' = "idle"
      /\ UNCHANGED <<cnt, hb, local, log, reader, history>>
      /\ state' = [state EXCEPT !.buffer_index = Wrapped(@), !.read_index = Wrapped(@)]
  BY DEF Wrap
<1>2. \A b : TrueRecord(b)' = TrueRecord(b)
  BY <1>1, SameHistory
<1>3. /\ c \in Nat /\ c >= 2 /\ c = Len(history)
      /\ state.buffer_index = ((c - 1) % BufferDepth) + 1
      /\ state.read_index = ((c - 2) % BufferDepth) + 1
  BY <1>1 DEF Indices, Types, Counted, Writing
<1>4. c - 1 \in Nat /\ c - 2 \in Nat /\ (c - 1) + 1 = c /\ (c - 2) + 1 = c - 1
  BY <1>3
<1>5. /\ Wrapped(state.buffer_index) = c % BufferDepth
      /\ Wrapped(state.read_index) = (c - 1) % BufferDepth
  BY <1>3, <1>4, WrappedNext
<1>6. /\ state'.counter = c /\ state'.buffer_index = c % BufferDepth
      /\ state'.read_index = (c - 1) % BufferDepth
      /\ state' \in [counter : Nat, buffer_index : 0..BufferDepth,
                     read_index : 0..BufferDepth]
  <2>1. c % BufferDepth \in 0..BufferDepth /\ (c - 1) % BufferDepth \in 0..BufferDepth
    BY <1>3, <1>4, RingFacts
  <2> QED BY <1>1, <1>5, <2>1 DEF Types
<1>7. Types'
  BY <1>1, <1>6 DEF Types, Places
<1>8. Counted'
  BY <1>1, <1>3, <1>6 DEF Counted, Writing
<1>9. Indices'
  BY <1>1, <1>3, <1>6 DEF Indices
<1>10. InProgress'
  BY <1>1 DEF InProgress, Writing
<1>11. LogInv'
  BY <1>1, <1>2, <1>6 DEF LogInv
<1>12. ReaderInv'
  BY <1>1, <1>2, <1>6 DEF ReaderInv
<1> QED BY <1>7, <1>8, <1>9, <1>10, <1>11, <1>12

-----------------------------------------------------------------------------
(* The steps of the reader.                                                *)

\* The reader's steps change only what it has copied.
LEMMA ReaderStep ==
  ASSUME HeartbeatInv, UNCHANGED <<pc, cnt, hb, local, state, log, history>>,
         reader' \in Readings, ReaderInv'
  PROVE  HeartbeatInv'
<1> USE DEF HeartbeatInv
<1>1. \A b : TrueRecord(b)' = TrueRecord(b)
  BY SameHistory
<1>2. Types'
  BY DEF Types
<1>3. Counted' /\ Indices'
  BY DEF Counted, Indices, Writing
<1>4. InProgress'
  BY <1>1 DEF InProgress, Writing
<1>5. LogInv'
  BY <1>1 DEF LogInv
<1> QED BY <1>2, <1>3, <1>4, <1>5

\* The index names the slot of the latest beat, or is one past the log.
LEMMA GetIndexStep ==
  ASSUME HeartbeatInv, GetIndex
  PROVE  HeartbeatInv'
<1> DEFINE c == state.counter
<1>1. /\ reader.pc = "index" /\ UNCHANGED <<pc, cnt, hb, local, state, log, history>>
      /\ reader' = [reader EXCEPT !.pc = NextRead(state.read_index),
                                  !.index = state.read_index, !.beat = c - 1]
      /\ NextRead(state.read_index) \in {"skipped", "raised", "stamp"}
  BY DEF GetIndex, NextRead
<1>2. /\ reader \in Readings /\ c \in Nat /\ state.read_index \in 0..BufferDepth
  BY DEF HeartbeatInv, Types
<1>3. c - 1 \in Nat \cup {-1} /\ c - 1 < c
  BY <1>2
<1>4. reader' \in Readings
  BY <1>1, <1>2, <1>3 DEF Readings
<1>5. /\ reader'.pc \in {"skipped", "raised", "stamp"}
      /\ reader'.index = state.read_index /\ reader'.beat = c - 1
  BY <1>1, <1>2 DEF Readings
<1>6. c # 0 => state.read_index \in {(c - 1) % BufferDepth, BufferDepth}
  <2>1. CASE pc = "wrap"
    <3>1. c >= 2 /\ state.read_index = ((c - 2) % BufferDepth) + 1
      BY <2>1 DEF HeartbeatInv, Indices
    <3>2. c - 2 \in Nat /\ (c - 2) + 1 = c - 1
      BY <1>2, <3>1
    <3>3. (c - 1) % BufferDepth = IF ((c - 2) % BufferDepth) + 1 = BufferDepth
                                    THEN 0 ELSE ((c - 2) % BufferDepth) + 1
      BY <3>2, StepMod, DepthFacts
    <3> HIDE DEF c
    <3> QED BY <3>1, <3>3
  <2>2. CASE pc # "wrap"
    BY <1>2, <2>2 DEF HeartbeatInv, Indices
  <2> QED BY <2>1, <2>2
<1>7. ReaderInv'
  <2>1. reader'.beat < state'.counter
    BY <1>1, <1>3, <1>5
  <2>2. reader'.beat # -1 => reader'.index \in {reader'.beat % BufferDepth, BufferDepth}
    <3> HIDE DEF c
    <3> QED BY <1>2, <1>5, <1>6
  <2> QED BY <1>5, <2>1, <2>2 DEF ReaderInv
<1> QED BY <1>1, <1>4, <1>7, ReaderStep

\* A slot inside the log that no beat has begun to reuse holds its beat.
LEMMA LiveSlot ==
  ASSUME HeartbeatInv, reader.pc # "index", reader.index \in Slots, reader.beat # -1,
         Len(history) <= reader.beat + BufferDepth
  PROVE  log[reader.index] = TrueRecord(reader.beat)
<1>1. reader.beat \in Nat \cup {-1} /\ reader.beat < state.counter
      /\ state.counter \in Nat /\ Len(history) \in Nat
  BY DEF HeartbeatInv, Types, Readings, ReaderInv
<1>2. reader.beat \in 0..state.counter - 1
  BY <1>1
<1>3. BufferDepth \notin Slots
  BY DepthFacts DEF Slots
<1>4. reader.index = reader.beat % BufferDepth
  BY <1>3 DEF HeartbeatInv, ReaderInv
<1>5. reader.beat + BufferDepth >= Len(history)
  BY <1>1, DepthFacts
<1> QED BY <1>2, <1>4, <1>5 DEF HeartbeatInv, LogInv

\* Copying the time: the slot read is live, or the process has overtaken.
LEMMA CopyStampStep ==
  ASSUME HeartbeatInv, CopyStamp
  PROVE  HeartbeatInv'
<1>1. reader.pc = "stamp" /\ UNCHANGED <<pc, cnt, hb, local, state, log, history>>
  BY DEF CopyStamp
<1>2. reader \in Readings /\ log \in [Slots -> Records]
  BY DEF HeartbeatInv, Types
<1>3. CASE reader.index \in Slots
  <2> DEFINE rec == [reader.record EXCEPT !.timestamp = log[reader.index].timestamp]
  <2>1. rec \in Records /\ rec.timestamp = log[reader.index].timestamp
    BY <1>2, <1>3 DEF Readings, Records
  <2>2. reader' = [reader EXCEPT !.pc = "rate", !.record = rec]
    BY <1>2, <1>3 DEF CopyStamp, Readings
  <2> HIDE DEF rec
  <2>3. /\ reader' \in Readings /\ reader'.pc = "rate" /\ reader'.record = rec
        /\ reader'.index = reader.index /\ reader'.beat = reader.beat
    BY <1>2, <2>1, <2>2 DEF Readings
  <2>4. reader.beat # -1 /\ Len(history) <= reader.beat + BufferDepth =>
          rec.timestamp = TrueRecord(reader.beat).timestamp
    BY <1>1, <1>3, <2>1, LiveSlot
  <2>5. (TrueRecord(reader.beat))' = TrueRecord(reader.beat)
    BY <1>1, <2>3 DEF TrueRecord
  <2>6. ReaderInv'
    BY <1>1, <1>3, <2>3, <2>4, <2>5 DEF HeartbeatInv, ReaderInv
  <2> QED BY <1>1, <2>3, <2>6, ReaderStep
<1>4. CASE reader.index \notin Slots
  <2>1. reader' = [reader EXCEPT !.pc = "strayed"]
    BY <1>4 DEF CopyStamp
  <2>2. /\ reader' \in Readings /\ reader'.pc = "strayed"
        /\ reader'.index = reader.index /\ reader'.beat = reader.beat
    BY <1>2, <2>1 DEF Readings
  <2>3. ReaderInv'
    BY <1>1, <2>2 DEF HeartbeatInv, ReaderInv
  <2> QED BY <1>1, <2>2, <2>3, ReaderStep
<1> QED BY <1>3, <1>4

\* Copying the rate, of the same slot as the time.
LEMMA CopyRateStep ==
  ASSUME HeartbeatInv, CopyRate
  PROVE  HeartbeatInv'
<1>1. reader.pc = "rate" /\ UNCHANGED <<pc, cnt, hb, local, state, log, history>>
  BY DEF CopyRate
<1>2. reader \in Readings /\ log \in [Slots -> Records] /\ reader.index \in Slots
  BY <1>1 DEF HeartbeatInv, Types, ReaderInv
<1> DEFINE rec == [reader.record EXCEPT !.rate = log[reader.index].rate]
<1>3. /\ rec \in Records /\ rec.rate = log[reader.index].rate
      /\ rec.timestamp = reader.record.timestamp
  BY <1>2 DEF Readings, Records
<1>4. reader' = [reader EXCEPT !.pc = "done", !.record = rec]
  BY <1>2 DEF CopyRate, Readings
<1> HIDE DEF rec
<1>5. /\ reader' \in Readings /\ reader'.pc = "done" /\ reader'.record = rec
      /\ reader'.index = reader.index /\ reader'.beat = reader.beat
  BY <1>2, <1>3, <1>4 DEF Readings
<1>6. reader.beat # -1 /\ Len(history) <= reader.beat + BufferDepth =>
        /\ rec.timestamp = TrueRecord(reader.beat).timestamp
        /\ rec.rate = TrueRecord(reader.beat).rate
  BY <1>1, <1>2, <1>3, LiveSlot DEF HeartbeatInv, ReaderInv
<1>7. (TrueRecord(reader.beat))' = TrueRecord(reader.beat)
  BY <1>1, <1>5 DEF TrueRecord
<1>8. ReaderInv'
  BY <1>1, <1>2, <1>5, <1>6, <1>7 DEF HeartbeatInv, ReaderInv
<1> QED BY <1>1, <1>5, <1>8, ReaderStep

\* Printing changes nothing that was copied.
LEMMA PrintRateStep ==
  ASSUME HeartbeatInv, PrintRate
  PROVE  HeartbeatInv'
<1>1. reader.pc = "done" /\ UNCHANGED <<pc, cnt, hb, local, state, log, history>>
  BY DEF PrintRate
<1>2. reader \in Readings
  BY DEF HeartbeatInv, Types
<1>3. PICK p \in {"raised", "printed"} : reader' = [reader EXCEPT !.pc = p]
  BY DEF PrintRate
<1>4. /\ reader' \in Readings /\ reader'.pc = p /\ reader'.record = reader.record
      /\ reader'.index = reader.index /\ reader'.beat = reader.beat
  BY <1>2, <1>3 DEF Readings
<1>5. (TrueRecord(reader.beat))' = TrueRecord(reader.beat)
  BY <1>1, <1>4 DEF TrueRecord
<1>6. ReaderInv'
  BY <1>1, <1>4, <1>5 DEF HeartbeatInv, ReaderInv
<1> QED BY <1>1, <1>4, <1>6, ReaderStep

-----------------------------------------------------------------------------
(* The invariant, and what follows from it.                                *)

\* The segments start empty.
LEMMA InitHolds == Init => HeartbeatInv
<1> SUFFICES ASSUME Init PROVE HeartbeatInv
  OBVIOUS
<1>1. BufferDepth \in Nat \ {0} /\ 0 \in Slots /\ 0 \in 0..BufferDepth
      /\ 0 % BufferDepth = 0
  BY DepthFacts, SmallMod DEF Slots
<1>2. EmptyRecord \in Records
  BY DEF EmptyRecord, Records
<1>3. Types
  BY <1>1, <1>2 DEF Init, Types, Places, Readings, Slots
<1>4. Counted /\ Indices /\ InProgress
  BY <1>1 DEF Init, Counted, Indices, InProgress, Writing
<1>5. LogInv
  BY DEF Init, LogInv
<1>6. ReaderInv
  BY DEF Init, ReaderInv
<1> QED BY <1>3, <1>4, <1>5, <1>6 DEF HeartbeatInv

\* Every step of the process and the reader preserves the invariant.
LEMMA NextHolds == HeartbeatInv /\ [Next]_vars => HeartbeatInv'
<1> SUFFICES ASSUME HeartbeatInv, [Next]_vars PROVE HeartbeatInv'
  OBVIOUS
<1>0. cnt \in Slots \cup {-1} /\ BufferDepth \in Nat \ {0}
  BY DepthFacts DEF HeartbeatInv, Types
<1>1. CASE HeartbeatInit
  BY <1>0, <1>1, QuietStep DEF HeartbeatInit, Places, Writing
<1>2. CASE InitFails \/ NoSegment
  BY <1>0, <1>2, QuietStep DEF InitFails, NoSegment, Places, Writing
<1>3. CASE BeatFaults \/ InitFailsLate \/ WindowReused
  BY <1>0, <1>3, QuietStep DEF BeatFaults, InitFailsLate, WindowReused, Places, Writing
<1>4. CASE HeartbeatFinish
  BY <1>0, <1>4, QuietStep DEF HeartbeatFinish, Places, Writing
<1>9. CASE SilentBeat
  <2>1. cnt + 1 \in Nat
    BY <1>0 DEF Slots
  <2>2. cnt' \in Slots
    BY <1>9, <2>1, DepthFacts DEF SilentBeat
  <2> QED BY <1>9, <2>2, QuietStep DEF SilentBeat, Places, Writing
<1>5. ASSUME NEW time \in Times, BeatBegin(time) PROVE HeartbeatInv'
  BY <1>5, BeginStep
<1>6. CASE WriteStamp \/ WriteRate \/ Publish \/ Wrap
  BY <1>6, WriteStampStep, WriteRateStep, PublishStep, WrapStep
<1>7. CASE Reader
  BY <1>7, GetIndexStep, CopyStampStep, CopyRateStep, PrintRateStep DEF Reader
<1>8. CASE UNCHANGED vars
  <2>1. /\ UNCHANGED <<hb, local, state, log, reader, history>> /\ pc' = pc
        /\ cnt' = cnt
    BY <1>8 DEF vars
  <2>2. pc' \in Places
    BY <2>1 DEF HeartbeatInv, Types
  <2>3. /\ pc' \in {"absent", "silent", "failed"} => pc \in {"absent", "silent", "failed"}
        /\ pc' # "silent" => pc # "silent" /\ cnt' = cnt
        /\ cnt' \in Slots \cup {-1}
    BY <1>0, <2>1
  <2>4. pc' = pc \/ (~Writing' /\ ~Writing /\ pc # "wrap" /\ pc' # "wrap")
    BY <2>1
  <2> QED BY ONLY HeartbeatInv, <2>1, <2>2, <2>3, <2>4, QuietStep
<1> QED BY <1>1, <1>2, <1>3, <1>4, <1>5, <1>6, <1>7, <1>8, <1>9 DEF Next, Process

\* The inductive invariant holds in every behaviour.
THEOREM Invariance == Spec => []HeartbeatInv
BY InitHolds, NextHolds, PTL DEF Spec

\* Python's cnt and the library's indices agree between beats, for any log.
THEOREM IndicesAgree == Spec => []CntIsReadIndex
<1>1. HeartbeatInv => CntIsReadIndex
  <2> SUFFICES ASSUME HeartbeatInv, pc = "idle", history # <<>>
               PROVE  /\ cnt = (state.counter - 1) % BufferDepth
                      /\ state.read_index = cnt
                      /\ state.buffer_index = state.counter % BufferDepth
    BY DEF CntIsReadIndex
  <2>1. state.counter = Len(history) /\ Len(history) # 0
    BY DEF HeartbeatInv, Counted, Writing, Types
  <2> QED BY <2>1 DEF HeartbeatInv, Counted, Indices
<1> QED BY <1>1, Invariance, PTL

\* Between beats the log holds the last BufferDepth beats.
THEOREM LogIsRight == Spec => []LogKeepsLatest
<1>1. HeartbeatInv => LogKeepsLatest
  <2> SUFFICES ASSUME HeartbeatInv, pc = "idle"
               PROVE  /\ state.counter = Len(history)
                      /\ \A b \in 0..state.counter - 1 :
                           b + BufferDepth >= state.counter =>
                             log[b % BufferDepth] = TrueRecord(b)
    BY DEF LogKeepsLatest
  <2>1. state.counter = Len(history)
    BY DEF HeartbeatInv, Counted, Writing
  <2> QED BY <2>1 DEF HeartbeatInv, LogInv
<1> QED BY <1>1, Invariance, PTL

\* A reader without the mutex copies one beat's record, unless it is
\* overtaken by a whole lap of the log.
THEOREM ReadsAreWhole == Spec => []WholeRead
<1>1. HeartbeatInv => WholeRead
  <2> SUFFICES ASSUME HeartbeatInv, reader.pc \in {"done", "printed"},
                      reader.beat # -1, Len(history) <= reader.beat + BufferDepth
               PROVE  reader.record = TrueRecord(reader.beat)
    BY DEF WholeRead
  <2>1. /\ reader.record.timestamp = TrueRecord(reader.beat).timestamp
        /\ reader.record.rate = TrueRecord(reader.beat).rate
    BY DEF HeartbeatInv, ReaderInv
  <2>2. reader.record = [timestamp |-> reader.record.timestamp,
                         rate |-> reader.record.rate]
    BY DEF HeartbeatInv, Types, Readings, Records
  <2>3. TrueRecord(reader.beat) = [timestamp |-> TrueRecord(reader.beat).timestamp,
                                   rate |-> TrueRecord(reader.beat).rate]
    BY DEF TrueRecord
  <2> QED BY <2>1, <2>2, <2>3
<1> QED BY <1>1, Invariance, PTL

-----------------------------------------------------------------------------
(* Only slot 0 ever holds the rate 0.                                      *)

\* A slot other than the first that has been published has a rate, and a
\* reader inside the log reads such a slot unless it reads slot 0.
RateInv ==
  /\ \A s \in Slots \ {0} : s < state.counter => log[s].rate # <<>>
  /\ reader.pc # "index" /\ reader.index \in Slots \ {0} =>
       reader.index < state.counter
  /\ reader.program = "opencl" /\ reader.pc \in {"stamp", "rate", "done"} =>
       reader.index # 0
  /\ reader.pc = "done" /\ reader.index # 0 => reader.record.rate # <<>>

\* The field writes keep every other slot's rate.
LEMMA RateWrite ==
  ASSUME HeartbeatInv, RateInv, WriteStamp \/ WriteRate
  PROVE  RateInv'
<1>1. /\ log \in [Slots -> Records] /\ UNCHANGED <<state, reader>>
      /\ state.counter \in Nat /\ local.index = state.counter % BufferDepth
      /\ local.first <=> state.counter = 0
      /\ local.rate = TrueRecord(state.counter).rate
  BY DEF WriteStamp, WriteRate, HeartbeatInv, Types, InProgress, Writing
<1>2. \A s \in Slots \ {0} : s < state.counter => log'[s].rate # <<>>
  <2>1. SUFFICES ASSUME NEW s \in Slots \ {0}, s < state.counter
                 PROVE  log'[s].rate # <<>>
    OBVIOUS
  <2>2. log[s].rate # <<>>
    BY <2>1 DEF RateInv
  <2>3. CASE WriteStamp
    <3>1. log' = [log EXCEPT ![local.index].timestamp = hb.last_timestamp]
      BY <2>3 DEF WriteStamp
    <3>2. log'[s].rate = log[s].rate
      BY <1>1, <3>1 DEF Records
    <3> QED BY <2>2, <3>2
  <2>4. CASE WriteRate
    <3>1. log' = [log EXCEPT ![local.index].rate = local.rate]
      BY <2>4 DEF WriteRate
    <3>2. state.counter # 0
      BY <1>1, <2>1 DEF Slots
    <3>3. local.rate # <<>>
      BY <1>1, <3>2 DEF TrueRecord
    <3>4. log'[s].rate \in {log[s].rate, local.rate}
      BY <1>1, <3>1 DEF Records
    <3> QED BY <2>2, <3>3, <3>4
  <2> QED BY <2>3, <2>4
<1> QED BY <1>1, <1>2 DEF RateInv

\* Publishing adds the slot of the beat in progress.
LEMMA RatePublish ==
  ASSUME HeartbeatInv, RateInv, Publish
  PROVE  RateInv'
<1> DEFINE c == state.counter
<1>1. /\ c \in Nat /\ state'.counter = c + 1 /\ UNCHANGED <<log, reader>>
      /\ local.index = c % BufferDepth
      /\ log[local.index].rate = TrueRecord(c).rate
  BY DEF Publish, HeartbeatInv, Types, InProgress, Writing
<1>2. ASSUME NEW s \in Slots \ {0}, s < c + 1
      PROVE  log[s].rate # <<>>
  <2>1. CASE s < c
    BY <2>1 DEF RateInv
  <2>2. CASE s = c
    <3>1. s % BufferDepth = s
      BY SmallMod, DepthFacts DEF Slots
    <3>2. s # 0
      OBVIOUS
    <3>3. TrueRecord(c).rate # <<>>
      BY <2>2, <3>2 DEF TrueRecord
    <3>4. local.index = s
      BY <1>1, <2>2, <3>1
    <3> QED BY <1>1, <3>3, <3>4
  <2>3. s \in Int
    BY DEF Slots
  <2> QED BY <1>1, <1>2, <2>1, <2>2, <2>3
<1>3. reader.index \in Int /\ (reader.index < c => reader.index < c + 1)
  BY <1>1 DEF HeartbeatInv, Types, Readings
<1> QED BY <1>1, <1>2, <1>3 DEF RateInv

\* An index inside the log names a slot already published.
LEMMA RateIndex ==
  ASSUME HeartbeatInv, RateInv, GetIndex
  PROVE  RateInv'
<1> DEFINE c == state.counter
<1>1. /\ UNCHANGED <<log, state>>
      /\ reader' = [reader EXCEPT !.pc = NextRead(state.read_index),
                                  !.index = state.read_index, !.beat = c - 1]
      /\ reader.program = "opencl" /\ NextRead(state.read_index) = "stamp" =>
           state.read_index # 0
      /\ NextRead(state.read_index) \in {"skipped", "raised", "stamp"}
  BY DEF GetIndex, NextRead
<1>2. reader \in Readings /\ c \in Nat /\ state.read_index \in 0..BufferDepth
  BY DEF HeartbeatInv, Types
<1>3. /\ reader'.pc = NextRead(state.read_index)
      /\ reader'.index = state.read_index /\ reader'.program = reader.program
  BY <1>1, <1>2 DEF Readings
<1>4. state.read_index \in Slots \ {0} => state.read_index < c
  <2>1. CASE pc = "wrap"
    <3>1. c >= 2 /\ state.read_index = ((c - 2) % BufferDepth) + 1
      BY <2>1 DEF HeartbeatInv, Indices
    <3>2. c - 2 \in Nat
      BY <1>2, <3>1
    <3>3. (c - 2) % BufferDepth <= c - 2
      BY <3>2, ModAtMost, DepthFacts
    <3>4. (c - 2) % BufferDepth \in Int
      BY <3>2, RingFacts
    <3> QED BY <1>2, <3>1, <3>3, <3>4
  <2>2. CASE pc # "wrap"
    <3>1. state.read_index = IF c = 0 THEN 0 ELSE (c - 1) % BufferDepth
      BY <2>2 DEF HeartbeatInv, Indices
    <3>2. CASE c # 0
      <4>1. c - 1 \in Nat
        BY <1>2, <3>2
      <4>2. (c - 1) % BufferDepth <= c - 1
        BY <4>1, ModAtMost, DepthFacts
      <4> QED BY <1>2, <3>1, <3>2, <4>2
    <3> QED BY <3>1, <3>2
  <2> QED BY <2>1, <2>2
<1> HIDE DEF c
<1> QED BY <1>1, <1>3, <1>4 DEF RateInv, c

\* What the reader copies comes from the slot its index names.
LEMMA RateCopy ==
  ASSUME HeartbeatInv, RateInv, CopyStamp \/ CopyRate \/ PrintRate
  PROVE  RateInv'
<1>1. UNCHANGED <<log, state>> /\ reader \in Readings /\ log \in [Slots -> Records]
  BY DEF CopyStamp, CopyRate, PrintRate, HeartbeatInv, Types
<1>2. CASE CopyStamp
  <2>1. /\ reader.pc = "stamp" /\ reader'.index = reader.index
        /\ reader'.program = reader.program
        /\ reader'.pc \in {"rate", "strayed"}
    BY <1>1, <1>2 DEF CopyStamp, Readings
  <2> QED BY <1>1, <2>1 DEF RateInv
<1>3. CASE CopyRate
  <2>1. /\ reader.pc = "rate" /\ reader'.index = reader.index
        /\ reader'.program = reader.program
        /\ reader'.pc = "done" /\ reader'.record.rate = log[reader.index].rate
    BY <1>1, <1>3 DEF CopyRate, Readings, Records
  <2>2. reader.index \in Slots
    BY <2>1 DEF HeartbeatInv, ReaderInv
  <2>3. reader.index # 0 => log[reader.index].rate # <<>>
    BY <2>1, <2>2 DEF RateInv
  <2> QED BY <1>1, <2>1, <2>3 DEF RateInv
<1>4. CASE PrintRate
  <2>1. /\ reader.pc = "done" /\ reader'.index = reader.index
        /\ reader'.program = reader.program
        /\ reader'.pc \in {"raised", "printed"}
    BY <1>1, <1>4 DEF PrintRate, Readings
  <2> QED BY <1>1, <2>1 DEF RateInv
<1> QED BY <1>2, <1>3, <1>4

\* A rate other than 0 is that of the interval between two beats.
OfBeats(rate) ==
  rate # <<>> =>
    \E b \in 1..Len(history) - 1 : rate = <<history[b + 1] - history[b]>>

\* Whatever is in the log, or was copied from it, is.
RatesOfBeats ==
  /\ \A s \in Slots : OfBeats(log[s].rate)
  /\ OfBeats(reader.record.rate)

\* A beat more leaves the rates of the earlier ones what they are.
LEMMA RatesLast ==
  ASSUME HeartbeatInv, NEW time \in Times, BeatBegin(time), NEW rate, OfBeats(rate)
  PROVE  rate # <<>> =>
           \E b \in 1..Len(history') - 1 : rate = <<history'[b + 1] - history'[b]>>
<1>1. history \in Seq(Times) /\ history' = Append(history, time)
  BY DEF BeatBegin, HeartbeatInv, Types
<1>2. /\ Len(history') = Len(history) + 1 /\ Len(history) \in Nat
      /\ \A i \in 1..Len(history) : history'[i] = history[i]
  BY <1>1, LongerHistory
<1>3. ASSUME rate # <<>>
      PROVE  \E b \in 1..Len(history') - 1 : rate = <<history'[b + 1] - history'[b]>>
  <2>1. PICK b \in 1..Len(history) - 1 : rate = <<history[b + 1] - history[b]>>
    BY <1>3 DEF OfBeats
  <2>2. b \in 1..Len(history) /\ b + 1 \in 1..Len(history) /\ b \in 1..Len(history') - 1
    BY <1>2
  <2> QED BY <1>2, <2>1, <2>2
<1> QED BY <1>3

\* The rate that a beat writes is its own.
LEMMA RateWritten ==
  ASSUME HeartbeatInv, pc = "rate"
  PROVE  OfBeats(local.rate)
<1>1. /\ local.rate = TrueRecord(state.counter).rate /\ state.counter \in Nat
      /\ state.counter = Len(history) - 1
  BY DEF HeartbeatInv, InProgress, Writing, Counted, Types
<1>2. CASE state.counter = 0
  BY <1>1, <1>2 DEF TrueRecord, OfBeats
<1>3. CASE state.counter # 0
  <2>1. state.counter \in 1..Len(history) - 1
    <3>1. PICK c \in Nat \ {0} : c = state.counter
      BY <1>1, <1>3
    <3>2. Len(history) - 1 = c /\ c \in 1..c
      BY <1>1, <3>1
    <3> QED BY <3>1, <3>2
  <2>2. local.rate = <<history[state.counter + 1] - history[state.counter]>>
    BY <1>1, <1>3 DEF TrueRecord
  <2> QED BY <2>1, <2>2 DEF OfBeats
<1> QED BY <1>2, <1>3

\* Every step keeps the rates those of beats.
LEMMA RatesStep ==
  ASSUME HeartbeatInv, RatesOfBeats, [Next]_vars
  PROVE  RatesOfBeats'
<1>1. log \in [Slots -> Records] /\ local.index \in Slots /\ reader \in Readings
  BY DEF HeartbeatInv, Types
<1>2. CASE UNCHANGED <<log, history>> /\ reader'.record = reader.record
  BY <1>2 DEF RatesOfBeats, OfBeats
<1>3. ASSUME NEW time \in Times, BeatBegin(time)
      PROVE  RatesOfBeats'
  <2>1. UNCHANGED <<log, reader>>
    BY <1>3 DEF BeatBegin
  <2>2. ASSUME NEW s \in Slots
        PROVE  OfBeats(log[s].rate)'
    <3>1. OfBeats(log[s].rate)
      BY DEF RatesOfBeats
    <3> QED BY <1>3, <2>1, <3>1, RatesLast DEF OfBeats
  <2>3. OfBeats(reader.record.rate)'
    <3>1. OfBeats(reader.record.rate)
      BY DEF RatesOfBeats
    <3> QED BY <1>3, <2>1, <3>1, RatesLast DEF OfBeats
  <2> QED BY <2>2, <2>3 DEF RatesOfBeats
<1>4. CASE WriteStamp
  <2>1. /\ log' = [log EXCEPT ![local.index].timestamp = hb.last_timestamp]
        /\ UNCHANGED <<reader, history>>
    BY <1>4 DEF WriteStamp
  <2>2. \A s \in Slots : log'[s].rate = log[s].rate
    BY <1>1, <2>1 DEF Records
  <2> QED BY <2>1, <2>2 DEF RatesOfBeats, OfBeats
<1>5. CASE WriteRate
  <2>1. /\ log' = [log EXCEPT ![local.index].rate = local.rate]
        /\ UNCHANGED <<reader, history>> /\ OfBeats(local.rate)
    BY <1>5, RateWritten DEF WriteRate
  <2>2. \A s \in Slots : log'[s].rate \in {log[s].rate, local.rate}
    BY <1>1, <2>1 DEF Records
  <2> QED BY <2>1, <2>2 DEF RatesOfBeats, OfBeats
<1>6. CASE CopyRate
  <2>1. /\ UNCHANGED <<log, history>> /\ reader'.record.rate = log[reader.index].rate
        /\ reader.pc = "rate"
    BY <1>1, <1>6 DEF CopyRate, Readings, Records
  <2>2. reader.index \in Slots
    BY <2>1 DEF HeartbeatInv, ReaderInv
  <2> QED BY <2>1, <2>2 DEF RatesOfBeats, OfBeats
<1>7. CASE CopyStamp
  <2>1. UNCHANGED <<log, history>> /\ reader'.record.rate = reader.record.rate
    BY <1>1, <1>7 DEF CopyStamp, Readings, Records
  <2> QED BY <2>1 DEF RatesOfBeats, OfBeats
<1>8. CASE GetIndex \/ PrintRate
  <2>1. UNCHANGED <<log, history>> /\ reader'.record = reader.record
    BY <1>1, <1>8 DEF GetIndex, PrintRate, Readings
  <2> QED BY <1>2, <2>1
<1> QED BY <1>2, <1>3, <1>4, <1>5, <1>6, <1>7, <1>8
        DEF Next, Process, Reader, HeartbeatInit, NoSegment, SilentBeat, InitFails,
            InitFailsLate, WindowReused, BeatFaults, Publish, Wrap, HeartbeatFinish, vars

\* The zero rate of the first beat, and the empty slots, are out of reach of the
\* reader that passes over index 0, for any log, any clock and any number of
\* laps: where get_hr gives it 0 (shmlib.c:20), it read the rate of two beats that
\* were further apart than get_hr can show.
THEOREM ZeroIsAPause == Spec => []OnlyPausesReadZero
<1>1. Init => RateInv /\ RatesOfBeats
  BY DEF Init, RateInv, RatesOfBeats, OfBeats, EmptyRecord, Slots
<1>2. HeartbeatInv /\ RateInv /\ [Next]_vars => RateInv'
  <2> SUFFICES ASSUME HeartbeatInv, RateInv, [Next]_vars PROVE RateInv'
    OBVIOUS
  <2>1. CASE UNCHANGED <<state, log, reader>>
    BY <2>1 DEF RateInv
  <2>2. CASE Wrap
    <3>1. state'.counter = state.counter /\ UNCHANGED <<log, reader>>
      BY <2>2 DEF Wrap, HeartbeatInv, Types
    <3> QED BY <3>1 DEF RateInv
  <2>3. CASE WriteStamp \/ WriteRate \/ Publish \/ Reader
    BY <2>3, RateWrite, RatePublish, RateIndex, RateCopy DEF Reader
  <2> QED
    BY <2>1, <2>2, <2>3
    DEF Next, Process, HeartbeatInit, NoSegment, SilentBeat, InitFails, InitFailsLate,
        WindowReused, BeatFaults, BeatBegin, HeartbeatFinish, vars
<1>3. HeartbeatInv /\ RateInv /\ RatesOfBeats => OnlyPausesReadZero
  <2> SUFFICES ASSUME HeartbeatInv, RateInv, RatesOfBeats, reader.program = "opencl",
                      reader.pc = "done", ReadsZero(reader.record.rate)
               PROVE  \E b \in 1..Len(history) - 1 :
                        LET interval == history[b + 1] - history[b]
                        IN  /\ reader.record.rate = <<interval>>
                            /\ interval > LongestRead \/ -interval > LongestRead
    BY DEF OnlyPausesReadZero
  <2>1. reader.record.rate # <<>>
    BY DEF RateInv
  <2>2. PICK b \in 1..Len(history) - 1 :
          reader.record.rate = <<history[b + 1] - history[b]>>
    BY <2>1 DEF RatesOfBeats, OfBeats
  <2>3. reader.record.rate[1] = history[b + 1] - history[b]
    BY <2>2
  <2> QED BY <2>1, <2>2, <2>3 DEF ReadsZero
<1>4. HeartbeatInv /\ RatesOfBeats /\ [Next]_vars => RatesOfBeats'
  BY RatesStep
<1> QED BY <1>1, <1>2, <1>3, <1>4, Invariance, PTL DEF Spec

-----------------------------------------------------------------------------
(* The sum over a window is a fold.  Induction over sets is done by taking *)
(* a smallest counterexample, as strict inclusion of finite sets is well   *)
(* founded.                                                                *)

\* Some set of any family of finite sets includes no other one.
LEMMA SmallestSet ==
  ASSUME NEW S, IsFiniteSet(S), NEW family, family \subseteq SUBSET S, family # {}
  PROVE  \E s \in family : \A t \in family : t \subseteq s => t = s
<1>1. family \subseteq FiniteSubsetsOf(S)
  BY FS_Subset DEF FiniteSubsetsOf
<1>2. PICK s \in family : \A t \in family : <<t, s>> \notin StrictSubsetOrdering(S)
  BY <1>1, WFMin, FS_StrictSubsetOrderingWellFounded
<1>3. ASSUME NEW t \in family, t \subseteq s, t # s
      PROVE  FALSE
  <2>1. <<t, s>> \in StrictSubsetOrdering(S)
    BY <1>3 DEF StrictSubsetOrdering
  <2> QED BY <1>2, <1>3, <2>1
<1> QED BY <1>3

\* g gives every subset of S the sum of f over it.
Sums(g, f, S) ==
  /\ g \in [SUBSET S -> Int] /\ g[{}] = 0
  /\ \A s \in SUBSET S, x \in S : x \notin s => g[s \cup {x}] = g[s] + f[x]

\* There are such sums for integers over a finite set.
LEMMA SumsExist ==
  ASSUME NEW S, IsFiniteSet(S), NEW f, \A x \in S : f[x] \in Int
  PROVE  \E g : Sums(g, f, S)
<1> DEFINE Lacking == {T \in SUBSET S : ~\E g : Sums(g, f, T)}
<1>1. SUFFICES ASSUME Lacking # {}
               PROVE  FALSE
  OBVIOUS
<1>2. PICK T \in Lacking : \A t \in Lacking : t \subseteq T => t = T
  <2>1. Lacking \subseteq SUBSET S
    OBVIOUS
  <2> HIDE DEF Lacking
  <2> QED BY <1>1, <2>1, SmallestSet
<1>3. T # {}
  <2>1. Sums([s \in SUBSET {} |-> 0], f, {})
    BY DEF Sums
  <2> QED BY <2>1
<1>4. PICK x \in T : TRUE
  BY <1>3
<1>5. PICK g : Sums(g, f, T \ {x})
  BY <1>2
<1>6. /\ f[x] \in Int /\ g \in [SUBSET (T \ {x}) -> Int] /\ g[{}] = 0
      /\ \A s \in SUBSET (T \ {x}), y \in T \ {x} :
           y \notin s => g[s \cup {y}] = g[s] + f[y]
  BY <1>5 DEF Sums
<1> DEFINE h == [s \in SUBSET T |-> g[s \ {x}] + IF x \in s THEN f[x] ELSE 0]
<1>7. h \in [SUBSET T -> Int]
  <2>1. \A s \in SUBSET T : g[s \ {x}] + (IF x \in s THEN f[x] ELSE 0) \in Int
    BY <1>6
  <2> QED BY <2>1
<1>8. h[{}] = 0
  BY <1>6
<1>9. ASSUME NEW s \in SUBSET T, NEW y \in T, y \notin s
      PROVE  h[s \cup {y}] = h[s] + f[y]
  <2>1. CASE y = x
    <3>1. s \ {x} = s /\ (s \cup {y}) \ {x} = s /\ x \notin s /\ x \in s \cup {y}
      BY <1>9, <2>1
    <3>2. s \cup {y} \in SUBSET T /\ g[s] \in Int
      BY <1>6, <3>1
    <3>3. h[s \cup {y}] = g[s] + f[x] /\ h[s] = g[s] + 0
      BY <3>1, <3>2
    <3> QED BY <1>6, <2>1, <3>2, <3>3
  <2>2. CASE y # x
    <3>1. (s \cup {y}) \ {x} = (s \ {x}) \cup {y} /\ (x \in s \cup {y} <=> x \in s)
      BY <2>2
    <3>2. s \cup {y} \in SUBSET T /\ s \ {x} \in SUBSET (T \ {x}) /\ y \in T \ {x}
      BY <2>2
    <3>3. g[(s \ {x}) \cup {y}] = g[s \ {x}] + f[y]
      BY <1>6, <1>9, <3>2
    <3>4. g[s \ {x}] \in Int /\ f[y] \in Int
      BY <1>6, <3>2
    <3>5. /\ h[s \cup {y}] = g[(s \ {x}) \cup {y}] + IF x \in s THEN f[x] ELSE 0
          /\ h[s] = g[s \ {x}] + IF x \in s THEN f[x] ELSE 0
      BY <3>1, <3>2
    <3> HIDE DEF h
    <3> QED BY <1>6, <3>3, <3>4, <3>5
  <2> QED BY <2>1, <2>2
<1> HIDE DEF h
<1>10. Sums(h, f, T)
  BY <1>7, <1>8, <1>9 DEF Sums
<1> QED BY <1>10

\* The function that a fold defines on the subsets of S.
Folding(h, f, S) ==
  h = [s \in SUBSET S |-> IF s = {} THEN 0
                          ELSE f[CHOOSE x \in s : TRUE] + h[s \ {CHOOSE x \in s : TRUE}]]

\* Whatever order the fold takes the elements in, it gives that sum.
LEMMA SumIs ==
  ASSUME NEW S, IsFiniteSet(S), NEW f, \A x \in S : f[x] \in Int,
         NEW g, Sums(g, f, S)
  PROVE  SumFunctionOnSet(f, S) = g[S]
<1>1. PICK fold : fold = (CHOOSE h : Folding(h, f, S)) /\ SumFunctionOnSet(f, S) = fold[S]
  BY DEF SumFunctionOnSet, FoldFunctionOnSet, MapThenFoldSet, Folding
<1>2. ASSUME NEW s \in SUBSET S, s # {}
      PROVE  g[s] = f[CHOOSE x \in s : TRUE] + g[s \ {CHOOSE x \in s : TRUE}]
  <2>1. PICK x \in s : x = CHOOSE y \in s : TRUE
    BY <1>2
  <2>2. (s \ {x}) \cup {x} = s /\ s \ {x} \in SUBSET S /\ x \in S
    OBVIOUS
  <2>3. g[s] = g[s \ {x}] + f[x]
    BY <2>2 DEF Sums
  <2>4. g[s] \in Int /\ g[s \ {x}] \in Int /\ f[x] \in Int
    BY <2>2 DEF Sums
  <2>5. g[s] = f[x] + g[s \ {x}]
    BY <2>3, <2>4
  <2> QED BY <2>1, <2>5
<1>3. Folding(g, f, S)
  BY <1>2 DEF Sums, Folding
<1>4. Folding(fold, f, S)
  BY <1>1, <1>3
<1> DEFINE Wrong == {s \in SUBSET S : fold[s] # g[s]}
<1>5. SUFFICES ASSUME Wrong # {}
               PROVE  FALSE
  BY <1>1
<1>6. PICK s \in Wrong : \A t \in Wrong : t \subseteq s => t = s
  <2>1. Wrong \subseteq SUBSET S
    OBVIOUS
  <2> HIDE DEF Wrong
  <2> QED BY <1>5, <2>1, SmallestSet
<1>7. s # {}
  BY <1>4, <1>6 DEF Sums, Folding
<1>8. PICK x \in s : x = CHOOSE y \in s : TRUE
  BY <1>7
<1>9. s \ {x} \in SUBSET S /\ s \ {x} # s /\ s \ {x} \subseteq s
  OBVIOUS
<1>10. fold[s \ {x}] = g[s \ {x}]
  BY <1>6, <1>9
<1>11. fold[s] = f[x] + fold[s \ {x}]
  BY <1>4, <1>7, <1>8 DEF Folding
<1>12. g[s] = f[x] + g[s \ {x}]
  BY <1>2, <1>7, <1>8
<1> QED BY <1>6, <1>10, <1>11, <1>12

\* The sum of integers is one, it grows by what is added, and depends on the
\* elements it is taken over alone.
LEMMA SumFacts ==
  ASSUME NEW S, IsFiniteSet(S), NEW f, \A x \in S : f[x] \in Int
  PROVE  /\ SumFunctionOnSet(f, S) \in Int
         /\ SumFunctionOnSet(f, {}) = 0
         /\ \A x \in S : SumFunctionOnSet(f, S) = SumFunctionOnSet(f, S \ {x}) + f[x]
         /\ \A h : (\A x \in S : h[x] = f[x]) => SumFunctionOnSet(h, S) = SumFunctionOnSet(f, S)
<1>1. PICK g : Sums(g, f, S)
  BY SumsExist
<1>2. ASSUME NEW T \in SUBSET S
      PROVE  SumFunctionOnSet(f, T) = g[T]
  <2>1. PICK h : h = [s \in SUBSET T |-> g[s]]
    OBVIOUS
  <2>2. Sums(h, f, T) /\ IsFiniteSet(T) /\ h[T] = g[T]
    BY <1>1, <2>1, FS_Subset DEF Sums
  <2> QED BY <2>2, SumIs
<1>3. {} \in SUBSET S /\ S \in SUBSET S
  OBVIOUS
<1>4. SumFunctionOnSet(f, S) \in Int /\ SumFunctionOnSet(f, {}) = 0
  BY <1>1, <1>2, <1>3 DEF Sums
<1>5. ASSUME NEW x \in S
      PROVE  SumFunctionOnSet(f, S) = SumFunctionOnSet(f, S \ {x}) + f[x]
  <2>1. (S \ {x}) \cup {x} = S /\ S \ {x} \in SUBSET S
    OBVIOUS
  <2>2. g[S] = g[S \ {x}] + f[x]
    BY <1>1, <2>1 DEF Sums
  <2> QED BY <1>2, <1>3, <2>1, <2>2
<1>6. ASSUME NEW h, \A x \in S : h[x] = f[x]
      PROVE  SumFunctionOnSet(h, S) = SumFunctionOnSet(f, S)
  <2>1. Sums(g, h, S)
    BY <1>1, <1>6 DEF Sums
  <2> QED BY <1>2, <1>3, <1>6, <2>1, SumIs
<1> QED BY <1>4, <1>5, <1>6

-----------------------------------------------------------------------------
(* The moving average.  It is updated from the interval that leaves the    *)
(* window and the one that enters it, so the invariant has the contents of *)
(* the window and, as long as it is being filled, their sum.               *)

\* The time and the interval of the window of a beat that begins.
AverageTypes ==
  average \in [window : [0..WindowSize - 1 -> Int], freed : BOOLEAN,
               current_index : 0..WindowSize - 1, steady_state : BOOLEAN,
               sum : Int, n : 0..WindowSize]

\* How many intervals the window holds after n beats.
Intervals(n) == IF n = 0 THEN 0 ELSE IF n - 1 < WindowSize THEN n - 1 ELSE WindowSize

\* Interval j, between beats j and j + 1, is in slot (j - 1) % WindowSize until
\* the window has gone round; the sum is that of the intervals in it.
AverageInv ==
  /\ AverageTypes
  /\ ~average.freed =>
       /\ average.n = Intervals(Len(history))
       /\ average.steady_state <=> Len(history) > WindowSize
       /\ average.current_index =
            IF history = <<>> THEN 0 ELSE (Len(history) - 1) % WindowSize
       /\ history = <<>> => average.sum = 0
       /\ history # <<>> =>
            average.sum = history[Len(history)] - history[Len(history) - average.n]
       /\ history # <<>> /\ ~average.steady_state =>
            average.sum = SumFunctionOnSet(average.window, 0..Len(history) - 2)
       /\ \A j \in 1..Len(history) - 1 :
            j + WindowSize >= Len(history) =>
              average.window[(j - 1) % WindowSize] = history[j + 1] - history[j]

\* The fields of the average.
LEMMA AverageFields ==
  ASSUME AverageTypes
  PROVE  /\ average.window \in [0..WindowSize - 1 -> Int] /\ average.freed \in BOOLEAN
         /\ average.current_index \in 0..WindowSize - 1 /\ average.steady_state \in BOOLEAN
         /\ average.sum \in Int /\ average.n \in 0..WindowSize
         /\ WindowSize \in Nat \ {0}
BY WindowAssumption DEF AverageTypes

\* The sum of a window that interval has entered is an integer, also of one
\* that was freed and used by somebody else.
LEMMA WindowSumType ==
  ASSUME AverageTypes, NEW interval \in Int
  PROVE  /\ Replaced(interval) \in [0..WindowSize - 1 -> Int]
         /\ WindowSum(interval) \in Int
<1>1. Replaced(interval) \in [0..WindowSize - 1 -> Int]
  BY AverageFields DEF Replaced
<1>2. PICK f : f = Replaced(interval)
  OBVIOUS
<1>3. PICK k \in 0..WindowSize - 1 : k = average.current_index
  BY AverageFields
<1>4. k \in Int /\ 0 \in Int /\ WindowSize \in Nat
  BY <1>3, WindowAssumption
<1>5. SumFunctionOnSet(f, 0..k) \in Int
  <2>1. IsFiniteSet(0..k)
    BY <1>4, FS_Interval
  <2>2. \A i \in 0..k : f[i] \in Int
    <3>1. 0..k \subseteq 0..WindowSize - 1
      BY <1>3, <1>4
    <3> QED BY <1>1, <1>2, <3>1
  <2> QED BY <2>1, <2>2, SumFacts
<1>6. average.sum - average.window[k] + interval \in Int
  <2>1. average.sum \in Int /\ average.window[k] \in Int
    BY <1>3, AverageFields
  <2> QED BY <2>1
<1>7. CASE average.steady_state
  BY <1>1, <1>3, <1>6, <1>7 DEF WindowSum
<1>8. CASE ~average.steady_state
  <2>1. WindowSum(interval) = SumFunctionOnSet(f, 0..k)
    BY <1>2, <1>3, <1>8 DEF WindowSum
  <2> QED BY <1>1, <1>5, <2>1
<1> QED BY <1>7, <1>8

\* A whole lap leads to the same slot.
LEMMA LapMod ==
  ASSUME NEW d \in Nat \ {0}, NEW i \in Nat
  PROVE  (i + d) % d = i % d
<1>1. i = d * (i \div d) + (i % d) /\ (i \div d) \in Nat /\ (i % d) \in 0..d-1
  BY DivMod
<1>2. /\ i + d \in Nat /\ i + d = d * ((i + d) \div d) + ((i + d) % d)
      /\ ((i + d) \div d) \in Nat /\ ((i + d) % d) \in 0..d-1
  <2>1. PICK k \in Nat : k = i + d
    OBVIOUS
  <2>2. k = d * (k \div d) + (k % d) /\ (k \div d) \in Nat /\ (k % d) \in 0..d-1
    BY DivMod
  <2> QED BY <2>1, <2>2
<1> DEFINE q == i \div d
           p == (i + d) \div d
<1>3. d * (q + 1) = d * q + d
  BY <1>1
<1>4. d * (q + 1) + (i % d) = d * p + ((i + d) % d)
  BY <1>1, <1>2, <1>3
<1>5. q + 1 \in Nat /\ p \in Nat
  BY <1>1, <1>2
<1> QED BY <1>1, <1>2, <1>4, <1>5, DivModUnique

\* The first beat has no interval.
LEMMA FirstAverage ==
  ASSUME HeartbeatInv, AverageInv, NEW time \in Times, BeatBegin(time), FirstBeat(time)
  PROVE  AverageInv'
<1>1. history = <<>> /\ history' = <<time>> /\ time \in Int
  BY TimesAssumption DEF FirstBeat, BeatBegin, HeartbeatInv, Counted
<1>2. /\ average.window \in [0..WindowSize - 1 -> Int] /\ average.freed \in BOOLEAN
      /\ average.current_index \in 0..WindowSize - 1 /\ average.steady_state \in BOOLEAN
      /\ average.sum \in Int /\ average.n \in 0..WindowSize
      /\ WindowSize \in Nat \ {0}
  BY AverageFields DEF AverageInv
<1>3. /\ average'.window = [average.window EXCEPT ![0] = 0]
      /\ average'.freed = average.freed /\ average'.current_index = average.current_index
      /\ average'.steady_state = average.steady_state /\ average'.sum = average.sum
      /\ average'.n = average.n /\ AverageTypes'
  <2>1. average' = [average EXCEPT !.window[0] = 0] /\ AverageTypes
    BY DEF FirstBeat, AverageInv
  <2>2. 0 \in 0..WindowSize - 1
    BY <1>2
  <2>3. /\ average'.window = [average.window EXCEPT ![0] = 0]
        /\ average'.freed = average.freed /\ average'.current_index = average.current_index
        /\ average'.steady_state = average.steady_state /\ average'.sum = average.sum
        /\ average'.n = average.n
    BY <2>1 DEF AverageTypes
  <2>4. [average.window EXCEPT ![0] = 0] \in [0..WindowSize - 1 -> Int]
    BY <1>2
  <2>5. AverageTypes'
    BY <2>1, <2>4 DEF AverageTypes
  <2> QED BY <2>3, <2>5
<1>4. CASE average.freed
  BY <1>3, <1>4 DEF AverageInv
<1>5. CASE ~average.freed
  <2>1. /\ average.n = 0 /\ average.sum = 0 /\ average.current_index = 0
        /\ ~average.steady_state
    BY <1>1, <1>2, <1>5 DEF AverageInv, Intervals
  <2>2. /\ Len(history') = 1 /\ history' # <<>> /\ history'[1] = time
        /\ 0 % WindowSize = 0
    BY <1>1, <1>2, SmallMod
  <2>3. SumFunctionOnSet(average'.window, {}) = 0
    BY FS_EmptySet, SumFacts
  <2>4. Intervals(1) = 0
    BY <1>2 DEF Intervals
  <2>5. 0..Len(history') - 2 = {} /\ 1..Len(history') - 1 = {}
    BY <2>2
  <2>6. average'.sum = history'[Len(history')] - history'[Len(history') - average'.n]
    BY <1>1, <1>3, <2>1, <2>2
  <2> QED BY <1>2, <1>3, <1>5, <2>1, <2>2, <2>3, <2>4, <2>5, <2>6 DEF AverageInv
<1> QED BY <1>2, <1>4, <1>5

\* Every other beat puts its interval in the place of the oldest one.
LEMMA LaterAverage ==
  ASSUME HeartbeatInv, AverageInv, NEW time \in Times, BeatBegin(time), LaterBeat(time)
  PROVE  AverageInv'
<1>1. PICK L \in Nat : L = Len(history)
  BY DEF HeartbeatInv, Types
<1>2. PICK W \in Nat \ {0} : W = WindowSize
  BY WindowAssumption
<1>3. /\ L >= 1 /\ history # <<>> /\ hb.last_timestamp = history[L]
      /\ history' = Append(history, time) /\ history \in Seq(Times)
      /\ \A i \in 1..L : history[i] \in Int
      /\ time \in Int
  <2>1. history # <<>> /\ history \in Seq(Times) /\ hb.last_timestamp = history[L]
    BY <1>1 DEF LaterBeat, HeartbeatInv, Counted, Types
  <2>2. L >= 1
    BY <1>1, <2>1
  <2>3. \A i \in 1..L : history[i] \in Times
    BY <1>1, <2>1
  <2>4. Times \subseteq Int
    BY TimesAssumption
  <2>5. history' = Append(history, time)
    BY DEF BeatBegin
  <2> QED BY <2>1, <2>2, <2>3, <2>4, <2>5
<1>4. /\ Len(history') = L + 1 /\ history'[L + 1] = time /\ history' # <<>>
      /\ \A i \in 1..L : history'[i] = history[i]
  BY <1>1, <1>3
<1>5. PICK interval \in Int : interval = time - history[L]
  BY <1>3
<1>6. /\ average.window \in [0..W - 1 -> Int] /\ average.freed \in BOOLEAN
      /\ average.current_index \in 0..W - 1 /\ average.steady_state \in BOOLEAN
      /\ average.sum \in Int /\ average.n \in 0..W /\ AverageTypes
  BY <1>2, AverageFields DEF AverageInv
<1>7. average' = WindowAverage(interval)
  BY <1>3, <1>5 DEF LaterBeat
<1>8. /\ average'.window = [average.window EXCEPT ![average.current_index] = interval]
      /\ average'.freed = average.freed
      /\ average'.current_index = (IF average.current_index + 1 = W THEN 0
                                   ELSE average.current_index + 1)
      /\ average'.steady_state = (average.steady_state \/ average.current_index + 1 = W)
      /\ average'.sum = WindowSum(interval)
      /\ average'.n = (IF average.steady_state THEN average.n ELSE average.current_index + 1)
  BY <1>2, <1>7 DEF WindowAverage, Replaced
<1>9. AverageTypes'
  <2>1. average'.window \in [0..W - 1 -> Int] /\ average'.sum \in Int
    <3>1. /\ Replaced(interval) \in [0..WindowSize - 1 -> Int]
          /\ WindowSum(interval) \in Int
      BY <1>6, WindowSumType
    <3>2. average'.window = Replaced(interval) /\ average'.sum = WindowSum(interval)
      BY <1>8 DEF Replaced
    <3> QED BY <1>2, <3>1, <3>2
  <2>2. average'.current_index \in 0..W - 1 /\ average'.n \in 0..W
    <3>1. PICK k \in 0..W - 1 : k = average.current_index
      BY <1>6
    <3>2. k + 1 \in 0..W /\ (k + 1 # W => k + 1 \in 0..W - 1) /\ 0 \in 0..W - 1
      OBVIOUS
    <3>3. average.n \in 0..W
      BY <1>6
    <3> QED BY <1>8, <3>1, <3>2, <3>3
  <2>3. average' = [window |-> average'.window, freed |-> average'.freed,
                    current_index |-> average'.current_index,
                    steady_state |-> average'.steady_state,
                    sum |-> average'.sum, n |-> average'.n]
    BY <1>7 DEF WindowAverage
  <2> QED BY <1>2, <1>6, <1>8, <2>1, <2>2, <2>3 DEF AverageTypes
<1>10. CASE average.freed
  BY <1>8, <1>9, <1>10 DEF AverageInv
<1>11. CASE ~average.freed
  <2>1. /\ average.n = Intervals(L) /\ (average.steady_state <=> L > W)
        /\ average.current_index = (L - 1) % W
        /\ average.sum = history[L] - history[L - average.n]
        /\ ~average.steady_state => average.sum = SumFunctionOnSet(average.window, 0..L - 2)
        /\ \A j \in 1..L - 1 :
             j + W >= L => average.window[(j - 1) % W] = history[j + 1] - history[j]
    BY <1>1, <1>2, <1>3, <1>11 DEF AverageInv
  <2>2. average'.current_index = L % W
    <3>1. L - 1 \in Nat /\ (L - 1) + 1 = L
      BY <1>3
    <3>2. L % W = IF ((L - 1) % W) + 1 = W THEN 0 ELSE ((L - 1) % W) + 1
      BY <3>1, StepMod
    <3> QED BY <1>8, <2>1, <3>2
  <2>3. ASSUME NEW j \in 1..L, j + W >= L + 1
        PROVE  average'.window[(j - 1) % W] = history'[j + 1] - history'[j]
    <3>1. j - 1 \in Nat /\ L - 1 \in Nat /\ (j - 1) % W \in 0..W - 1
      <4>1. j - 1 \in Nat /\ L - 1 \in Nat
        BY <1>3
      <4> QED BY <4>1, DivMod
    <3>2. CASE j = L
      <4>1. average'.window[(j - 1) % W] = interval
        BY <1>6, <1>8, <2>1, <3>1, <3>2
      <4> QED BY <1>3, <1>4, <1>5, <3>2, <4>1
    <3>3. CASE j # L
      <4>1. (j - 1) % W # (L - 1) % W
        <5>1. j - 1 < L - 1 /\ ~((L - 1) - (j - 1) >= W)
          BY <2>3, <3>3
        <5> QED BY <3>1, <5>1, SameSlotFarApart
      <4>2. average'.window[(j - 1) % W] = average.window[(j - 1) % W]
        BY <1>6, <1>8, <2>1, <3>1, <4>1
      <4>3. j \in 1..L - 1 /\ j + W >= L /\ j \in 1..L /\ j + 1 \in 1..L
        BY <2>3, <3>3
      <4> QED BY <1>4, <2>1, <4>2, <4>3
    <3> QED BY <3>2, <3>3
  <2>4. ASSUME average'.n = Intervals(L + 1), average'.steady_state <=> L + 1 > W,
               average'.sum = history'[L + 1] - history'[(L + 1) - average'.n],
               ~average'.steady_state =>
                 average'.sum = SumFunctionOnSet(average'.window, 0..(L + 1) - 2)
        PROVE  AverageInv'
    <3>1. (L + 1) - 1 = L
      BY <1>3
    <3> QED BY <1>2, <1>4, <1>9, <2>2, <2>3, <2>4, <3>1 DEF AverageInv
  <2>5. CASE ~average.steady_state
    <3>1. L <= W /\ L - 1 \in 0..W - 1 /\ (L - 1) % W = L - 1
      <4>1. L <= W /\ L - 1 \in 0..W - 1
        BY <1>3, <2>1, <2>5
      <4> QED BY <4>1, SmallMod
    <3>2. average.n = L - 1 /\ average'.n = L /\ Intervals(L + 1) = L
      BY <1>2, <1>3, <1>8, <2>1, <2>5, <3>1 DEF Intervals
    <3>3. average'.steady_state <=> L + 1 > W
      <4>1. average.current_index = L - 1
        BY <2>1, <3>1
      <4>2. (L - 1) + 1 = W <=> L + 1 > W
        BY <3>1
      <4> QED BY <1>8, <2>5, <4>1, <4>2
    <3>4. PICK f \in [0..W - 1 -> Int] :
            f = average'.window /\ f = [average.window EXCEPT ![L - 1] = interval]
      BY <1>6, <1>8, <2>1, <3>1
    <3>5. average'.sum = SumFunctionOnSet(f, 0..L - 1)
      BY <1>8, <2>1, <2>5, <3>1, <3>4 DEF WindowSum, Replaced
    <3>6. SumFunctionOnSet(f, 0..L - 1) = SumFunctionOnSet(f, 0..L - 2) + interval
      <4>1. IsFiniteSet(0..L - 1) /\ \A i \in 0..L - 1 : f[i] \in Int
        <5>1. L - 1 \in Int /\ 0 \in Int
          BY <1>3
        <5>2. 0..L - 1 \subseteq 0..W - 1
          BY <3>1
        <5> QED BY <5>1, <5>2, FS_Interval
      <4>2. L - 1 \in 0..L - 1 /\ (0..L - 1) \ {L - 1} = 0..L - 2
        BY <1>3
      <4>3. f[L - 1] = interval
        BY <1>6, <3>1, <3>4
      <4> QED BY <4>1, <4>2, <4>3, SumFacts
    <3>7. SumFunctionOnSet(f, 0..L - 2) = SumFunctionOnSet(average.window, 0..L - 2)
      <4>1. IsFiniteSet(0..L - 2)
        BY <1>3, FS_Interval
      <4>2. \A i \in 0..L - 2 : average.window[i] \in Int /\ f[i] = average.window[i]
        BY <1>6, <3>1, <3>4
      <4> QED BY <4>1, <4>2, SumFacts
    <3>8. average.sum = history[L] - history[1]
      BY <1>3, <2>1, <3>2
    <3>9. average'.sum = time - history[1]
      <4>1. average.sum = SumFunctionOnSet(average.window, 0..L - 2)
        BY <2>1, <2>5
      <4>2. average'.sum = average.sum + interval
        BY <3>5, <3>6, <3>7, <4>1
      <4>3. PICK a, b \in Int : a = history[1] /\ b = history[L]
        <5>1. 1 \in 1..L /\ L \in 1..L
          BY <1>3
        <5> QED BY <1>3, <5>1
      <4>4. average'.sum = (b - a) + interval /\ interval = time - b
        BY <1>5, <3>8, <4>2, <4>3
      <4>5. time \in Int
        BY <1>3
      <4>6. (b - a) + (time - b) = time - a
        BY <4>5
      <4> QED BY <4>3, <4>4, <4>6
    <3>10. history'[(L + 1) - L] = history[1] /\ (L + 1) - L = 1 /\ (L + 1) - 2 = L - 1
      BY <1>3, <1>4
    <3>11. average'.sum = history'[L + 1] - history'[(L + 1) - average'.n]
      BY <1>4, <3>2, <3>9, <3>10
    <3>12. average'.sum = SumFunctionOnSet(average'.window, 0..(L + 1) - 2)
      BY <3>4, <3>5, <3>10
    <3> QED BY <2>2, <2>3, <3>2, <3>3, <3>11, <3>12, <2>4
  <2>6. CASE average.steady_state
    <3>1. L > W /\ L - W \in 1..L - 1 /\ average.n = W
      BY <1>2, <1>3, <2>1, <2>6 DEF Intervals
    <3>2. Intervals(L + 1) = W /\ average'.n = W
      BY <1>2, <1>8, <2>6, <3>1 DEF Intervals
    <3>3. average.window[(L - 1) % W] = history[L - W + 1] - history[L - W]
      <4>1. L - W - 1 \in Nat /\ (L - W - 1) + W = L - 1
        BY <3>1
      <4>2. (L - W - 1) % W = (L - 1) % W
        BY <4>1, LapMod
      <4> QED BY <2>1, <3>1, <4>2
    <3>4. average'.sum = average.sum - average.window[(L - 1) % W] + interval
      BY <1>8, <2>1, <2>6 DEF WindowSum
    <3>5. L - W \in 1..L /\ L - W + 1 \in 1..L /\ (L + 1) - W = L - W + 1 /\ L \in 1..L
      BY <3>1
    <3>6. average'.sum = time - history[L - W + 1]
      <4>1. PICK a, b, c \in Int :
              a = history[L] /\ b = history[L - W] /\ c = history[L - W + 1]
        BY <1>3, <3>5
      <4>2. average.sum = a - b
        BY <2>1, <3>1, <4>1
      <4>3. average.window[(L - 1) % W] = c - b
        BY <3>3, <4>1
      <4>4. average'.sum = (a - b) - (c - b) + interval /\ interval = time - a
        BY <1>5, <3>4, <4>1, <4>2, <4>3
      <4>5. time \in Int
        BY <1>3
      <4> QED BY <4>1, <4>4, <4>5
    <3>7. average'.sum = history'[L + 1] - history'[(L + 1) - W]
      BY <1>4, <3>5, <3>6
    <3>8. average'.steady_state /\ L + 1 > W
      <4>1. L + 1 > W
        BY <1>3, <3>1
      <4> QED BY <1>8, <2>6, <4>1
    <3> QED BY <2>2, <2>3, <3>2, <3>7, <3>8, <2>4
  <2> QED BY <1>6, <2>5, <2>6
<1> QED BY <1>6, <1>10, <1>11

\* Every step keeps the average right; a window that is freed need not be.
LEMMA AverageStep ==
  ASSUME HeartbeatInv, AverageInv, [Next]_vars
  PROVE  AverageInv'
<1>1. CASE UNCHANGED <<average, history>>
  BY <1>1 DEF AverageInv, AverageTypes
<1>2. CASE InitFailsLate \/ HeartbeatFinish
  <2>1. average' = [average EXCEPT !.freed = TRUE]
    BY <1>2 DEF InitFailsLate, HeartbeatFinish
  <2> QED BY <2>1 DEF AverageInv, AverageTypes
<1>3. CASE WindowReused
  <2>1. average' = [average EXCEPT !.window = [i \in 0..WindowSize - 1 |-> 0]]
        /\ average.freed
    BY <1>3 DEF WindowReused, NewAverage
  <2> QED BY <2>1 DEF AverageInv, AverageTypes
<1>4. ASSUME NEW time \in Times, BeatBegin(time)
      PROVE  AverageInv'
  BY <1>4, FirstAverage, LaterAverage DEF BeatBegin
<1> QED BY <1>1, <1>2, <1>3, <1>4
        DEF Next, Process, HeartbeatInit, NoSegment, SilentBeat, InitFails, BeatFaults,
            WriteStamp, WriteRate, Publish, Wrap, Reader, GetIndex, CopyStamp, CopyRate, PrintRate, vars

\* The average holds in every behaviour.
LEMMA AverageKept == Spec => []AverageInv
<1>1. Init => AverageInv
  <2> SUFFICES ASSUME Init PROVE AverageInv
    OBVIOUS
  <2>1. AverageTypes
    BY WindowAssumption DEF Init, NewAverage, AverageTypes
  <2>2. Len(history) = 0 /\ history = <<>> /\ 1..Len(history) - 1 = {}
    BY DEF Init
  <2> QED BY <2>1, <2>2, WindowAssumption DEF Init, NewAverage, AverageInv, Intervals
<1>2. HeartbeatInv /\ AverageInv /\ [Next]_vars => AverageInv'
  BY AverageStep
<1> QED BY <1>1, <1>2, Invariance, PTL DEF Spec

\* Every variable stays in its range, the window and its sum included.
THEOREM HeartbeatTypeCorrect == Spec => []TypeOK
<1>1. HeartbeatInv /\ AverageInv => TypeOK
  BY DEF HeartbeatInv, Types, AverageInv, AverageTypes, TypeOK
<1> QED BY <1>1, Invariance, AverageKept, PTL

\* The average that hb_window_average updates from two intervals
\* (heartbeat_python_lib.c:305-343) is that of the last intervals, for every
\* size of the window and any times, as long as the window is not freed.
THEOREM AverageIsRight == Spec => []AverageIsRecent
<1>1. HeartbeatInv /\ AverageInv => AverageIsRecent
  <2> SUFFICES ASSUME AverageInv, HeartbeatInv, ~average.freed, Len(history) > 1
               PROVE  /\ average.n = IF Len(history) - 1 < WindowSize THEN Len(history) - 1
                                                                      ELSE WindowSize
                      /\ average.sum = history[Len(history)]
                                         - history[Len(history) - average.n]
    BY DEF AverageIsRecent
  <2>1. history # <<>> /\ Len(history) # 0
    OBVIOUS
  <2> QED BY <2>1 DEF AverageInv, Intervals
<1> QED BY <1>1, Invariance, AverageKept, PTL

=============================================================================
