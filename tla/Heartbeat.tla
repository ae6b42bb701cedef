------------------------------ MODULE Heartbeat ------------------------------
(***************************************************************************)
(* opencl/heartbeat_python_lib.c with its Python wrapper heartbeat.py and  *)
(* the readers app/objdet/monitor.py and opencl/monitor.py, which go       *)
(* through shmlib.c.  One process beats: each beat fills a slot of the log *)
(* and moves the indices of the global state, under a mutex.  Another      *)
(* process copies state and log from shared memory without that mutex.     *)
(***************************************************************************)
EXTENDS Integers, Sequences, Functions

CONSTANTS
  BufferDepth,   \* slots in the log (buffer_depth)
  WindowSize,    \* intervals in the moving average (window_size)
  Times,         \* what CLOCK_REALTIME may give, in any order
  LongestRead,   \* the longest interval whose rate get_hr does not cut to 0: 10^6 s
  StopIndex,     \* where opencl/monitor.py names keep_going, which nothing defines: 30
  MaxBeats       \* bound: the process beats no more

\* One slot is not enough: the first beat leaves buffer_index at 1, unwrapped.
ASSUME DepthAssumption  == BufferDepth \in Nat \ {0, 1}
ASSUME WindowAssumption == WindowSize \in Nat \ {0}
ASSUME ReaderAssumption == StopIndex \in Nat /\ LongestRead \in Nat
ASSUME TimesAssumption  == Times \subseteq Nat \ {0} /\ MaxBeats \in Nat

VARIABLES
  pc,        \* the process: where it is in a beat, "idle" between beats
  cnt,       \* Heartbeat.cnt of heartbeat.py
  hb,        \* the times in the process's heartbeat_t
  average,   \* its window of intervals and their moving average
  local,     \* locals of the beat in progress: branch taken, slot, rate
  state,     \* the HB_global_state_t segment
  log,       \* the segment of heartbeat records
  reader,    \* which monitor.py it is, where it is, its index, what it copied
  history    \* auxiliary: the time of every beat that found its segment

vars == <<pc, cnt, hb, average, local, state, log, reader, history>>

Slots == 0..BufferDepth - 1

\* A rate of 0 is <<>>, the rate 1/t is <<t>>.
EmptyRecord == [timestamp |-> 0, rate |-> <<>>]

\* last_average_time is kept as the sum of n intervals.  The window is malloc'ed.
NewAverage == [window |-> [i \in 0..WindowSize - 1 |-> 0], freed |-> FALSE,
               current_index |-> 0, steady_state |-> FALSE, sum |-> 0, n |-> 0]

\* The two readers, app/objdet/monitor.py and opencl/monitor.py.
Programs == {"objdet", "opencl"}

Init ==
  /\ pc = "absent" /\ cnt = -1
  /\ hb = [first_timestamp |-> -1, last_timestamp |-> -1]
  /\ average = NewAverage
  /\ local = [first |-> FALSE, index |-> 0, rate |-> <<>>]
  /\ state = [counter |-> 0, buffer_index |-> 0, read_index |-> 0]
  /\ log = [i \in Slots |-> EmptyRecord]
  /\ \E program \in Programs :
       reader = [program |-> program, pc |-> "index", index |-> 0,
                 record |-> EmptyRecord, beat |-> -1]
  /\ history = <<>>

-----------------------------------------------------------------------------
(* The process that beats.                                                 *)

\* anchors_heartbeat_init, whole: nobody beats before it returns.
HeartbeatInit ==
  /\ pc = "absent" /\ pc' = "idle"
  /\ UNCHANGED <<cnt, hb, average, local, state, log, reader, history>>

\* It may get no segment at all and return 0: the caller goes on all the same,
\* ...
NoSegment ==
  /\ pc = "absent" /\ pc' = "silent"
  /\ UNCHANGED <<cnt, hb, average, local, state, log, reader, history>>

\* ... its beats find no segment, either, and move Python's counter alone.
SilentBeat ==
  /\ pc = "silent" /\ cnt' = (cnt + 1) % BufferDepth
  /\ UNCHANGED <<pc, hb, average, local, state, log, reader, history>>

\* Or give up half way, with no window yet: the first beat of the caller writes
\* through a null pointer.
InitFails ==
  /\ pc = "absent" /\ pc' = "failed"
  /\ UNCHANGED <<cnt, hb, average, local, state, log, reader, history>>

\* Or give up at the last fopen, when all is set up and the window is freed:
\* the caller goes on, and its beats use the freed window, ...
InitFailsLate ==
  /\ pc = "absent" /\ pc' = "idle"
  /\ average' = [average EXCEPT !.freed = TRUE]
  /\ UNCHANGED <<cnt, hb, local, state, log, reader, history>>

\* ... which the rest of the process may have got from malloc since.
WindowReused ==
  /\ pc = "idle" /\ average.freed
  /\ average' = [average EXCEPT !.window = NewAverage.window]
  /\ UNCHANGED <<pc, cnt, hb, local, state, log, reader, history>>

BeatFaults ==
  /\ pc = "failed" \/ (pc = "idle" /\ average.freed)
  /\ pc' = "dead"
  /\ UNCHANGED <<cnt, hb, average, local, state, log, reader, history>>

\* hb_window_average: interval replaces the oldest one of the window, which
\* is still being filled until steady_state.
Replaced(interval) ==
  [average.window EXCEPT ![average.current_index] = interval]

WindowSum_Swapped(interval) ==   \* mutant: subtracts what it has just put in
  IF average.steady_state
    THEN average.sum - Replaced(interval)[average.current_index] + interval
    ELSE SumFunctionOnSet(Replaced(interval), 0..average.current_index)
WindowSum(interval) ==
  IF average.steady_state
    THEN average.sum - average.window[average.current_index] + interval
    ELSE SumFunctionOnSet(Replaced(interval), 0..average.current_index)

WindowAverage(interval) ==
  LET next == average.current_index + 1
  IN  [window        |-> Replaced(interval), freed |-> average.freed,
       current_index |-> IF next = WindowSize THEN 0 ELSE next,
       steady_state  |-> average.steady_state \/ next = WindowSize,
       sum           |-> WindowSum(interval),
       n             |-> IF average.steady_state THEN average.n ELSE next]

Slot_Published == state.read_index   \* mutant: the slot being shown is reused
Slot == state.buffer_index

\* heartbeat_beat and the first half of anchors_heartbeat, under the mutex:
\* nothing a reader can see changes.
FirstBeat(time) ==
  /\ hb.first_timestamp = -1
  /\ hb' = [first_timestamp |-> time, last_timestamp |-> time]
  /\ average' = [average EXCEPT !.window[0] = 0]
  /\ local' = [first |-> TRUE, index |-> 0, rate |-> <<>>]

LaterBeat(time) ==
  /\ hb.first_timestamp # -1
  /\ hb' = [hb EXCEPT !.last_timestamp = time]
  /\ LET interval == time - hb.last_timestamp
     IN  /\ average' = WindowAverage(interval)
         /\ local' = [first |-> FALSE, index |-> Slot, rate |-> <<interval>>]

BeatBegin(time) ==
  /\ pc = "idle" /\ pc' = "stamp"
  /\ Len(history) < MaxBeats
  /\ FirstBeat(time) \/ LaterBeat(time)
  /\ cnt' = (cnt + 1) % BufferDepth
  /\ history' = Append(history, time)
  /\ UNCHANGED <<state, log, reader>>

\* The record, field by field.
WriteStamp ==
  /\ pc = "stamp" /\ pc' = "rate"
  /\ log' = [log EXCEPT ![local.index].timestamp = hb.last_timestamp]
  /\ UNCHANGED <<cnt, hb, average, local, state, reader, history>>

WriteRate ==
  /\ pc = "rate" /\ pc' = "publish"
  /\ log' = [log EXCEPT ![local.index].rate = local.rate]
  /\ UNCHANGED <<cnt, hb, average, local, state, reader, history>>

\* The indices move on; the first beat leaves read_index at its slot.  The
\* reader looks at read_index alone, so one step stands for the increments.
ReadStep_Always(first) == 1   \* mutant: the first beat moves it as well
ReadStep(first) == IF first THEN 0 ELSE 1

Publish ==
  /\ pc = "publish"
  /\ pc' = IF local.first THEN "idle" ELSE "wrap"
  /\ state' = [counter      |-> state.counter + 1,
               buffer_index |-> state.buffer_index + 1,
               read_index   |-> state.read_index + ReadStep(local.first)]
  /\ UNCHANGED <<cnt, hb, average, local, log, reader, history>>

\* index % buffer_depth == 0; until here a reader sees an index past the log.
Wrapped_Never(i) == i   \* mutant
Wrapped_Early(i) == IF (i + 1) % BufferDepth = 0 THEN 0 ELSE i   \* mutant
Wrapped(i) == IF i % BufferDepth = 0 THEN 0 ELSE i

Wrap ==
  /\ pc = "wrap" /\ pc' = "idle"
  /\ state' = [state EXCEPT !.buffer_index = Wrapped(@), !.read_index = Wrapped(@)]
  /\ UNCHANGED <<cnt, hb, average, local, log, reader, history>>

\* anchors_heartbeat_finish frees the window; state and log stay.
HeartbeatFinish ==
  /\ pc = "idle" /\ pc' = "finished"
  /\ average' = [average EXCEPT !.freed = TRUE]
  /\ UNCHANGED <<cnt, hb, local, state, log, reader, history>>

Process == \/ HeartbeatInit \/ NoSegment \/ SilentBeat \/ InitFails \/ InitFailsLate
           \/ WindowReused \/ BeatFaults
           \/ \E time \in Times : BeatBegin(time)
           \/ WriteStamp \/ WriteRate \/ Publish \/ Wrap \/ HeartbeatFinish

-----------------------------------------------------------------------------
(* The reader: one pass over one client.                                   *)

\* What it does with the index: opencl/monitor.py passes over index 0.
NextRead_All(index) ==   \* mutant: the comparison with indexs[i] is lost
  IF reader.program = "opencl" /\ index >= StopIndex THEN "raised" ELSE "stamp"
NextRead(index) == IF reader.program = "objdet" THEN "stamp"
                   ELSE IF index = 0 THEN "skipped"
                   ELSE IF index >= StopIndex THEN "raised"
                   ELSE "stamp"

\* glomem[i].read() and get_index.  beat is auxiliary: the beat the index
\* names, -1 when there was none yet.
GetIndex ==
  /\ pc \notin {"absent", "silent"} /\ reader.pc = "index"
  /\ reader' = [reader EXCEPT !.pc = NextRead(state.read_index),
                              !.index = state.read_index,
                              !.beat = state.counter - 1]
  /\ UNCHANGED <<pc, cnt, hb, average, local, state, log, history>>

\* logmem[i].read(): the copy is not atomic, and of a slot past the end there
\* is nothing to copy.
CopyStamp ==
  /\ reader.pc = "stamp"
  /\ reader' = IF reader.index \in Slots
               THEN [reader EXCEPT !.pc = "rate",
                                   !.record.timestamp = log[reader.index].timestamp]
               ELSE [reader EXCEPT !.pc = "strayed"]
  /\ UNCHANGED <<pc, cnt, hb, average, local, state, log, history>>

CopyRate ==
  /\ reader.pc = "rate"
  /\ reader' = [reader EXCEPT !.pc = "done",
                              !.record.rate = log[reader.index].rate]
  /\ UNCHANGED <<pc, cnt, hb, average, local, state, log, history>>

\* get_hr gives the int of a million times the rate, which is 0 not only for the
\* rate 0.  An interval too short for an int, 0 among them, gives some int, which
\* on x86 is the least one.
ReadsZero(rate) ==
  rate = <<>> \/ rate[1] > LongestRead \/ -rate[1] > LongestRead

\* The print divides by what get_hr gives.
PrintRate ==
  /\ reader.pc = "done"
  /\ reader' = [reader EXCEPT !.pc = IF ReadsZero(reader.record.rate) THEN "raised"
                                                                      ELSE "printed"]
  /\ UNCHANGED <<pc, cnt, hb, average, local, state, log, history>>

Reader == GetIndex \/ CopyStamp \/ CopyRate \/ PrintRate

Next == Process \/ Reader

Spec == Init /\ [][Next]_vars

-----------------------------------------------------------------------------
(* What must hold.                                                         *)

\* Beats are numbered from 0; the record of beat b as its time and the time
\* of the beat before say it should be.
TrueRecord(b) == [timestamp |-> history[b + 1],
                  rate |-> IF b = 0 THEN <<>>
                           ELSE <<history[b + 1] - history[b]>>]

Places  == {"absent", "idle", "stamp", "rate", "publish", "wrap", "finished",
            "silent", "failed", "dead"}
Records == [timestamp : Int, rate : Seq(Int)]
Readings == [program : Programs,
             pc : {"index", "skipped", "stamp", "rate", "done", "strayed",
                   "raised", "printed"},
             index : 0..BufferDepth, record : Records, beat : Nat \cup {-1}]

\* Every variable stays in its range; buffer_index and read_index may equal
\* BufferDepth while a beat has not wrapped them yet.
TypeOK ==
  /\ pc \in Places
  /\ cnt \in Slots \cup {-1}
  /\ hb \in [first_timestamp : Int, last_timestamp : Int]
  /\ average \in [window : [0..WindowSize - 1 -> Int], freed : BOOLEAN,
                  current_index : 0..WindowSize - 1, steady_state : BOOLEAN,
                  sum : Int, n : 0..WindowSize]
  /\ local \in [first : BOOLEAN, index : Slots, rate : Seq(Int)]
  /\ state \in [counter : Nat, buffer_index : 0..BufferDepth,
                read_index : 0..BufferDepth]
  /\ log \in [Slots -> Records]
  /\ reader \in Readings
  /\ history \in Seq(Times)

\* Between beats Python's cnt, which the getters take as the index, and the
\* library's read_index name the slot of the latest beat, and buffer_index
\* the slot of the next one (heartbeat_python_lib.c:257-294).
CntIsReadIndex ==
  pc = "idle" /\ history # <<>> =>
    /\ cnt = (state.counter - 1) % BufferDepth
    /\ state.read_index = cnt
    /\ state.buffer_index = state.counter % BufferDepth

\* Between beats the log holds the last BufferDepth beats, each in its slot
\* with its own time and rate (heartbeat_python_lib.c:278-283).
LogKeepsLatest ==
  pc = "idle" =>
    /\ state.counter = Len(history)
    /\ \A b \in 0..state.counter - 1 :
         b + BufferDepth >= state.counter => log[b % BufferDepth] = TrueRecord(b)

\* The moving average, updated without looking at the whole window, is that
\* of the last intervals: they add up to the time between two beats
\* (heartbeat_python_lib.c:305-343; rounding of doubles is left out), unless
\* the window is freed memory because the last fopen failed (line 192).
AverageIsRecent ==
  pc = "idle" /\ ~average.freed /\ Len(history) > 1 =>
    /\ average.n = IF Len(history) - 1 < WindowSize THEN Len(history) - 1
                                               ELSE WindowSize
    /\ average.sum = history[Len(history)] - history[Len(history) - average.n]

\* What the reader copies without the mutex is one whole record, that of the
\* beat the index named, unless the index was past the log or the process
\* has begun to fill that slot again (app/objdet/monitor.py:77-83).
WholeRead ==
  /\ reader.pc \in {"done", "printed"}
  /\ reader.beat # -1
  /\ Len(history) <= reader.beat + BufferDepth
  => reader.record = TrueRecord(reader.beat)

\* A reader that passes over index 0 divides by zero only where two beats were
\* further apart than get_hr can show (shmlib.c:20): it never meets the zero of the
\* first beat (heartbeat_python_lib.c:262) or an empty slot, however often the log
\* is lapped under it (opencl/monitor.py:79-93).
OnlyPausesReadZero ==
  reader.program = "opencl" /\ reader.pc = "done" /\ ReadsZero(reader.record.rate) =>
    \E b \in 1..Len(history) - 1 :
      LET interval == history[b + 1] - history[b]
      IN  /\ reader.record.rate = <<interval>>
          /\ interval > LongestRead \/ -interval > LongestRead

=============================================================================
