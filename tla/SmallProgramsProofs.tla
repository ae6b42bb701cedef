------------------------- MODULE SmallProgramsProofs --------------------------
(***************************************************************************)
(* Proofs about the groups of SmallPrograms.  Each group has an inductive  *)
(* invariant of its own; a step of SmallSpec is one of one group, and the  *)
(* others stay as they are.                                                *)
(***************************************************************************)
EXTENDS SmallPrograms, ModularArithmetic, FiniteSetTheorems

-----------------------------------------------------------------------------
(* Sequences.                                                              *)

\* What Append does, element by element.
LEMMA AppendIs ==
  ASSUME NEW S, NEW s \in Seq(S), NEW e \in S
  PROVE  /\ Len(Append(s, e)) = Len(s) + 1 /\ Len(s) \in Nat
         /\ Append(s, e) \in Seq(S) /\ Append(s, e)[Len(s) + 1] = e
         /\ \A n \in 1..Len(s) : Append(s, e)[n] = s[n]
OBVIOUS

-----------------------------------------------------------------------------
(* The attach loop.                                                        *)

\* What a client has removed and made so far.
LogAndState(c) ==
  /\ log[c] # 0 => state[c] = log[c]
  /\ prog[c] \in {"remove state", "make state", "make log"} => log[c] = 0
  /\ prog[c] = "make state" => state[c] = 0
  /\ prog[c] = "make log" => state[c] = start[c]
  /\ prog[c] = "out" => start[c] = 0 /\ log[c] = 0
  /\ prog[c] # "out" => start[c] \in 1..byhand + 1

\* What has been attached so far, as long as no client removed its log: the
\* pairs of the clients before k, and the log of k.
Attached ==
  /\ stage = "run" => logmem = <<>> /\ glomem = <<>>
  /\ Attach!Attaching /\ ~upset =>
       /\ Len(logmem) = IF stage = "attach state" THEN k ELSE k - 1
       /\ Len(glomem) = k - 1
       /\ \A c \in Attach!Ids :
            /\ c <= Len(logmem) => log[c] # 0 /\ logmem[c] = <<c, log[c]>>
            /\ c <= Len(glomem) => glomem[c] = <<c, log[c]>>

\* The inductive invariant of the launcher.
AttachInv ==
  /\ Attach!TypeOK /\ (\A c \in Attach!Ids : LogAndState(c))
  /\ Attached /\ Attach!ReadsPairs

\* How often a client may have been started: once by the launcher, the other
\* times by hand.
Starts == 0..MaxByHand + 1

\* The clients are numbered, and the next one exists where there is one
\* (opencl/monitor.py:54-55).
LEMMA ClientNumbers ==
  /\ LastId \in Attach!Ids /\ 1 \in Attach!Ids /\ MaxByHand \in Nat
  /\ \A c \in Attach!Ids : /\ c \in Nat \ {0} /\ c <= LastId
                           /\ (c < LastId <=> c # LastId) /\ (c > 1 <=> c # 1)
                           /\ c < LastId => c + 1 \in Attach!Ids
BY AttachAssumption DEF Attach!BoundsOK, Attach!Ids

\* The number that a start by hand gets is one of Starts, and the ones before it
\* stay in the range that has grown.
LEMMA StartNumbers ==
  /\ 0 \in Starts /\ \A n \in Starts : n # 0 => n \in 1..MaxByHand + 1
  /\ \A b \in 0..MaxByHand : \A n \in 1..b + 1 : n \in Starts /\ n # 0
  /\ \A b \in 0..MaxByHand : 1 \in 1..b + 1
  /\ \A b \in 0..MaxByHand : b < MaxByHand =>
       b + 1 \in 0..MaxByHand /\ \A n \in 1..b + 1 : n \in 1..b + 2 /\ n + 1 \in 1..b + 2
<1>1. MaxByHand \in Nat
  BY ClientNumbers
<1> QED BY <1>1 DEF Starts

\* The types, without the sequences.
AttachTypes ==
  /\ stage \in {"run", "attach log", "attach state", "read", "done", "raised"}
  /\ k \in Attach!Ids
  /\ prog \in [Attach!Ids -> {"out", "remove log", "remove state", "make state",
                              "make log", "beat", "finished", "failed"}]
  /\ start \in [Attach!Ids -> Starts]
  /\ log \in [Attach!Ids -> Starts] /\ state \in [Attach!Ids -> Starts]
  /\ byhand \in 0..MaxByHand /\ upset \in BOOLEAN

Lists == logmem \in Seq(Attach!Segments) /\ glomem \in Seq(Attach!Segments)

\* The ranges of the launcher's variables, those of its two lists apart.
LEMMA TypesOfAttach == Attach!TypeOK <=> AttachTypes /\ Lists
BY DEF Attach!TypeOK, AttachTypes, Lists, Starts

\* A log that is there belongs to one of the starts.
LEMMA SegmentsOf ==
  ASSUME Attach!TypeOK, NEW c \in Attach!Ids
  PROVE  /\ log[c] # 0 => <<c, log[c]>> \in Attach!Segments
         /\ state[c] # 0 => <<c, state[c]>> \in Attach!Segments
<1>1. log[c] \in Starts /\ state[c] \in Starts
  BY TypesOfAttach DEF AttachTypes
<1> QED BY <1>1, StartNumbers DEF Attach!Segments

\* What a step of c's program does to c, and that it does nothing else.
Moved(c, from, to, l, t) ==
  /\ prog[c] = from /\ prog' = [prog EXCEPT ![c] = to]
  /\ log' = [log EXCEPT ![c] = l] /\ state' = [state EXCEPT ![c] = t]

\* A step of a client moves that client alone, in the order of Heartbeat.__init__
\* (opencl/heartbeat.py:12-36): log removed, state removed, state made, log made.
\* Only the first, while the launcher attaches, upsets it.
LEMMA ClientMoves ==
  ASSUME AttachTypes, NEW c \in Attach!Ids, Attach!Client(c)
  PROVE  /\ UNCHANGED <<stage, k, logmem, glomem, start, byhand>>
         /\ \/ /\ Moved(c, "remove log", "remove state", 0, state[c])
               /\ upset' = (upset \/ (Attach!Attaching /\ log[c] # 0))
            \/ /\ upset' = upset
               /\ \/ Moved(c, "remove state", "make state", log[c], 0)
                  \/ Moved(c, "make state", "make log", log[c],
                           IF state[c] = 0 THEN start[c] ELSE state[c])
                  \/ \E to \in {"finished", "failed"} :
                       Moved(c, "make state", to, log[c], state[c])
                  \/ Moved(c, "make log", "beat",
                           IF log[c] = 0 THEN start[c] ELSE log[c], state[c])
                  \/ Moved(c, "make log", "failed", log[c], state[c])
                  \/ \E to \in {"finished", "failed"} :
                       Moved(c, "beat", to, log[c], state[c])
<1>0. log = [log EXCEPT ![c] = log[c]] /\ state = [state EXCEPT ![c] = state[c]]
  BY DEF AttachTypes
<1> USE <1>0 DEF Moved, Attach!Go, Attach!launcher
<1>1. CASE Attach!RemoveLog(c)
  BY <1>1 DEF Attach!RemoveLog
<1>2. CASE Attach!RemoveState(c)
  BY <1>2 DEF Attach!RemoveState
<1>3. CASE Attach!MakeState(c)
  BY <1>3 DEF Attach!MakeState, Attach!Made
<1>4. CASE Attach!MakeLog(c)
  BY <1>4 DEF Attach!MakeLog, Attach!Made
<1>5. CASE Attach!NoLog(c)
  BY <1>5 DEF Attach!NoLog
<1>6. CASE Attach!Finish(c)
  BY <1>6 DEF Attach!Finish
<1>7. CASE Attach!NoSegments(c)
  BY <1>7 DEF Attach!NoSegments
<1>8. CASE Attach!BeatFaults(c)
  BY <1>8 DEF Attach!BeatFaults
<1> QED BY <1>1, <1>2, <1>3, <1>4, <1>5, <1>6, <1>7, <1>8 DEF Attach!Client

\* A client keeps its log and its state together, and does nothing to what is
\* attached already, unless it removes its log.
LEMMA ClientStep ==
  ASSUME AttachInv, NEW c \in Attach!Ids, Attach!Client(c)
  PROVE  AttachInv'
<1>0. AttachTypes /\ Lists
  BY TypesOfAttach DEF AttachInv
<1>1. UNCHANGED <<stage, k, logmem, glomem, start, byhand>>
  BY <1>0, ClientMoves
<1>2. PICK from, to, l, t :
        /\ Moved(c, from, to, l, t)
        /\ \/ /\ from = "remove log" /\ to = "remove state" /\ l = 0 /\ t = state[c]
              /\ upset' = (upset \/ (Attach!Attaching /\ log[c] # 0))
           \/ /\ upset' = upset
              /\ \/ from = "remove state" /\ to = "make state" /\ l = log[c] /\ t = 0
                 \/ /\ from = "make state" /\ to = "make log" /\ l = log[c]
                    /\ t = IF state[c] = 0 THEN start[c] ELSE state[c]
                 \/ /\ from = "make state" /\ to \in {"finished", "failed"}
                    /\ l = log[c] /\ t = state[c]
                 \/ /\ from = "make log" /\ to = "beat" /\ t = state[c]
                    /\ l = IF log[c] = 0 THEN start[c] ELSE log[c]
                 \/ from = "make log" /\ to = "failed" /\ l = log[c] /\ t = state[c]
                 \/ /\ from = "beat" /\ to \in {"finished", "failed"}
                    /\ l = log[c] /\ t = state[c]
  BY <1>0, ClientMoves
<1>3. /\ prog[c] = from /\ prog'[c] = to /\ log'[c] = l /\ state'[c] = t
      /\ \A d \in Attach!Ids : d # c => /\ prog'[d] = prog[d] /\ log'[d] = log[d]
                                        /\ state'[d] = state[d]
  BY <1>0, <1>2 DEF Moved, AttachTypes
<1>4. Attach!TypeOK'
  <2>1. l \in Starts /\ t \in Starts
    BY <1>0, <1>2, StartNumbers DEF AttachTypes
  <2>2. upset' \in BOOLEAN
    BY <1>0, <1>2 DEF AttachTypes
  <2>3. /\ prog' \in [Attach!Ids -> {"out", "remove log", "remove state", "make state",
                                     "make log", "beat", "finished", "failed"}]
        /\ log' \in [Attach!Ids -> Starts] /\ state' \in [Attach!Ids -> Starts]
    BY <1>0, <1>2, <2>1 DEF Moved, AttachTypes
  <2>4. AttachTypes' /\ Lists'
    BY <1>0, <1>1, <2>2, <2>3 DEF AttachTypes, Lists
  <2> QED BY <2>4 DEF Attach!TypeOK, AttachTypes, Lists, Starts
<1>5. ASSUME NEW d \in Attach!Ids
      PROVE  LogAndState(d)'
  <2>1. CASE d # c
    <3>1. LogAndState(d)
      BY DEF AttachInv
    <3>2. /\ prog'[d] = prog[d] /\ log'[d] = log[d] /\ state'[d] = state[d]
          /\ start' = start /\ byhand' = byhand
      BY <1>1, <1>3, <2>1
    <3> QED BY <3>1, <3>2 DEF LogAndState
  <2>2. CASE d = c
    <3>1. prog[c] # "out" => start[c] # 0
      BY <1>0, StartNumbers DEF AttachInv, LogAndState, AttachTypes
    <3>2. LogAndState(c) /\ start' = start /\ byhand' = byhand
      BY <1>1 DEF AttachInv
    <3>3. CASE from \in {"remove log", "remove state"}
      BY <1>2, <1>3, <2>2, <3>2, <3>3 DEF LogAndState
    <3>4. CASE from \in {"make state", "beat"}
      BY <1>2, <1>3, <2>2, <3>2, <3>4 DEF LogAndState
    <3>5. CASE from = "make log"
      BY <1>2, <1>3, <2>2, <3>1, <3>2, <3>5 DEF LogAndState
    <3> QED BY <1>2, <3>3, <3>4, <3>5
  <2> QED BY <2>1, <2>2
<1>6. /\ upset => upset'
      /\ \A d \in Attach!Ids : Attach!Attaching /\ ~upset' /\ log[d] # 0 => log'[d] = log[d]
  <2>1. upset \in BOOLEAN /\ (upset' = upset \/ upset' = (upset \/ (Attach!Attaching /\ log[c] # 0)))
    BY <1>0, <1>2 DEF AttachTypes
  <2>2. upset => upset'
    BY <2>1
  <2>3. ASSUME Attach!Attaching, ~upset', log[c] # 0
        PROVE  log'[c] = log[c]
    BY <1>2, <1>3, <2>3
  <2> QED BY <1>3, <2>2, <2>3
<1>7. Attached'
  <2>1. Attach!Attaching' <=> Attach!Attaching
    BY <1>1 DEF Attach!Attaching
  <2>2. CASE Attach!Attaching /\ ~upset'
    <3>1. LastId \in Attach!Ids /\ ~upset
      BY <1>6, <2>2, ClientNumbers
    <3>2. \A d \in Attach!Ids : log[d] # 0 => log'[d] = log[d]
      BY <1>6, <2>2
    <3>3. \A d \in Attach!Ids : d <= Len(glomem) => d <= Len(logmem)
      <4>1. /\ Len(logmem) = IF stage = "attach state" THEN k ELSE k - 1
            /\ Len(glomem) = k - 1
        BY <2>2, <3>1 DEF AttachInv, Attached
      <4>2. k \in Nat /\ \A d \in Attach!Ids : d \in Nat
        BY <1>0, ClientNumbers DEF AttachTypes
      <4>3. Len(logmem) = k \/ Len(logmem) = k - 1
        BY <4>1
      <4>4. \A d \in Nat : d <= k - 1 => d <= k
        BY <4>2
      <4> QED BY <4>1, <4>2, <4>3, <4>4
    <3> QED BY <1>1, <2>2, <3>1, <3>2, <3>3 DEF AttachInv, Attached
  <2>3. CASE ~(Attach!Attaching /\ ~upset')
    BY <1>1, <2>1, <2>3 DEF AttachInv, Attached
  <2> QED BY <2>2, <2>3
<1>8. Attach!ReadsPairs'
  BY <1>1, <1>6 DEF AttachInv, Attach!ReadsPairs
<1> QED BY <1>4, <1>5, <1>7, <1>8 DEF AttachInv

\* A start, by the launcher or by hand, removes nothing yet.
LEMMA BeginStep ==
  ASSUME AttachInv, NEW c \in Attach!Ids, NEW places, Attach!Begin(c, places),
         UNCHANGED <<stage, k, logmem, glomem>>,
         \/ places = {"out"} /\ byhand' = byhand
         \/ /\ places = {"finished", "failed"} /\ byhand < MaxByHand
            /\ byhand' = byhand + 1
  PROVE  AttachInv'
<1>0. AttachTypes /\ Lists
  BY TypesOfAttach DEF AttachInv
<1>1. /\ prog[c] \in places /\ prog'[c] = "remove log" /\ start'[c] = start[c] + 1
      /\ \A d \in Attach!Ids : d # c => prog'[d] = prog[d] /\ start'[d] = start[d]
      /\ UNCHANGED <<log, state, upset>>
  BY <1>0 DEF Attach!Begin, AttachTypes
<1>2. start[c] + 1 \in 1..byhand' + 1 /\ byhand' \in 0..MaxByHand
  <2>1. byhand \in 0..MaxByHand /\ start[c] \in Starts
    BY <1>0 DEF AttachTypes
  <2>2. CASE places = {"out"}
    <3>1. start[c] = 0 /\ byhand' = byhand
      BY <1>1, <2>2 DEF AttachInv, LogAndState
    <3> QED BY <2>1, <3>1, StartNumbers
  <2>3. CASE places = {"finished", "failed"} /\ byhand < MaxByHand /\ byhand' = byhand + 1
    <3>1. start[c] \in 1..byhand + 1
      BY <1>1, <2>3 DEF AttachInv, LogAndState
    <3>2. start[c] + 1 \in 1..byhand + 2 /\ byhand + 1 \in 0..MaxByHand
      BY <2>1, <2>3, <3>1, StartNumbers
    <3>3. byhand \in Nat
      BY <2>1
    <3> QED BY <2>3, <3>2, <3>3
  <2> QED BY <2>2, <2>3
<1>3. Attach!TypeOK'
  <2>1. start[c] + 1 \in Starts
    BY <1>2, StartNumbers
  <2>2. /\ prog' \in [Attach!Ids -> {"out", "remove log", "remove state", "make state",
                                     "make log", "beat", "finished", "failed"}]
        /\ start' \in [Attach!Ids -> Starts]
    BY <1>0, <2>1 DEF Attach!Begin, AttachTypes
  <2>3. AttachTypes' /\ Lists'
    BY <1>0, <1>1, <1>2, <2>2 DEF AttachTypes, Lists
  <2> QED BY <2>3 DEF Attach!TypeOK, AttachTypes, Lists, Starts
<1>4. ASSUME NEW d \in Attach!Ids
      PROVE  LogAndState(d)'
  <2>1. CASE d # c
    <3>1. prog'[d] = prog[d] /\ start'[d] = start[d] /\ UNCHANGED <<log, state>>
      BY <1>1, <2>1
    <3>2. start[d] \in 1..byhand + 1 => start[d] \in 1..byhand' + 1
      <4>1. byhand \in Nat /\ byhand' \in {byhand, byhand + 1}
        <5>1. byhand \in 0..MaxByHand
          BY <1>0 DEF AttachTypes
        <5>2. MaxByHand \in Nat
          BY ClientNumbers
        <5> QED BY <5>1, <5>2
      <4> QED BY <4>1
    <3> QED BY <3>1, <3>2 DEF AttachInv, LogAndState
  <2>2. CASE d = c
    BY <1>1, <1>2, <2>2 DEF AttachInv, LogAndState
  <2> QED BY <2>1, <2>2
<1>5. Attached' /\ Attach!ReadsPairs'
  BY <1>1 DEF AttachInv, Attached, Attach!Attaching, Attach!ReadsPairs
<1> QED BY <1>3, <1>4, <1>5 DEF AttachInv

\* The launcher's own steps: a pair is read only when it was attached as one.
LEMMA LauncherStep ==
  ASSUME AttachInv, \/ Attach!ContainerEnds \/ Attach!ContainerFails
                    \/ Attach!AttachLog \/ Attach!AttachState \/ Attach!Read
  PROVE  AttachInv'
<1>0. AttachTypes /\ Lists
  BY TypesOfAttach DEF AttachInv
<1>1. UNCHANGED <<prog, start, log, state, byhand, upset>>
  BY DEF Attach!ContainerEnds, Attach!ContainerFails, Attach!AttachLog,
         Attach!AttachState, Attach!Read
<1>2. \A d \in Attach!Ids : LogAndState(d)'
  BY <1>1 DEF AttachInv, LogAndState
<1>3. k \in Attach!Ids /\ LastId \in Attach!Ids /\ 1 \in Attach!Ids
  BY <1>0, ClientNumbers DEF AttachTypes
<1>4. ASSUME k' \in Attach!Ids, Lists', Attached', Attach!ReadsPairs',
             stage' \in {"run", "attach log", "attach state", "read", "done", "raised"}
      PROVE  AttachInv'
  <2>1. AttachTypes'
    BY <1>0, <1>1, <1>4 DEF AttachTypes
  <2>2. Attach!TypeOK'
    BY <1>4, <2>1 DEF Attach!TypeOK, AttachTypes, Lists, Starts
  <2> QED BY <1>2, <1>4, <2>2 DEF AttachInv
<1>5. CASE Attach!ContainerEnds
  <2>1. /\ UNCHANGED <<logmem, glomem>> /\ stage = "run" /\ prog[k] = "finished"
        /\ \/ k < LastId /\ k' = k + 1 /\ stage' = "run"
           \/ ~(k < LastId) /\ k' = 1 /\ stage' = "attach log"
    BY <1>5 DEF Attach!ContainerEnds, Attach!NextClient
  <2>2. k' \in Attach!Ids
    BY <1>3, <2>1, ClientNumbers
  <2>3. logmem = <<>> /\ glomem = <<>>
    BY <2>1 DEF AttachInv, Attached
  <2>4. Attached'
    <3>1. CASE stage' = "run"
      BY <2>1, <2>3, <3>1 DEF Attached, Attach!Attaching
    <3>2. CASE stage' = "attach log"
      <4>1. k' = 1 /\ k' - 1 = 0 /\ Len(logmem') = 0 /\ Len(glomem') = 0
        <5>1. k' = 1
          BY <2>1, <3>2
        <5>2. Len(<<>>) = 0 /\ 1 - 1 = 0
          OBVIOUS
        <5> QED BY <2>1, <2>3, <5>1, <5>2
      <4>2. \A d \in Attach!Ids : ~(d <= 0)
        BY ClientNumbers
      <4> QED BY <3>2, <4>1, <4>2 DEF Attached
    <3> QED BY <2>1, <3>1, <3>2
  <2>5. Attach!ReadsPairs' /\ Lists'
    BY <1>0, <2>1 DEF Attach!ReadsPairs, Lists
  <2> QED BY <1>4, <2>1, <2>2, <2>4, <2>5
<1>6. CASE Attach!ContainerFails
  <2>1. stage' = "raised" /\ UNCHANGED <<k, logmem, glomem>>
    BY <1>6 DEF Attach!ContainerFails
  <2>2. Attached' /\ Attach!ReadsPairs' /\ Lists'
    BY <1>0, <2>1 DEF Attached, Attach!Attaching, Attach!ReadsPairs, Lists
  <2> QED BY <1>3, <1>4, <2>1, <2>2
<1>7. CASE Attach!AttachLog /\ log[k] = 0
  <2>1. /\ stage = "attach log" /\ k' = 1 /\ UNCHANGED <<logmem, glomem>>
        /\ stage' = IF k > 1 THEN "read" ELSE "attach log"
    BY <1>7 DEF Attach!AttachLog, Attach!Except
  <2>2. CASE upset
    <3>1. upset'
      BY <1>1, <2>2
    <3>2. Attached' /\ Attach!ReadsPairs'
      BY <2>1, <3>1 DEF Attached, Attach!ReadsPairs
    <3>3. Lists'
      BY <1>0, <2>1 DEF Lists
    <3> QED BY <1>3, <1>4, <2>1, <3>2, <3>3
  <2>3. CASE ~upset
    <3>1. /\ Len(logmem) = k - 1 /\ Len(glomem) = k - 1
          /\ \A c \in Attach!Ids :
               /\ c <= Len(logmem) => log[c] # 0 /\ logmem[c] = <<c, log[c]>>
               /\ c <= Len(glomem) => glomem[c] = <<c, log[c]>>
      BY <2>1, <2>3 DEF AttachInv, Attached, Attach!Attaching
    <3>2. k > 1 \/ (k = 1 /\ stage' = "attach log")
      BY <1>3, <2>1, ClientNumbers
    <3>3. Attached'
      BY <1>1, <2>1, <3>1, <3>2 DEF Attached, Attach!Attaching
    <3>4. Attach!ReadsPairs'
      <4>1. Len(logmem) = Len(glomem)
        BY <3>1
      <4>2. ASSUME NEW c \in Attach!Ids, c <= Len(logmem)
            PROVE  logmem[c] = glomem[c] /\ logmem[c][1] = c
        <5>1. logmem[c] = <<c, log[c]>> /\ glomem[c] = <<c, log[c]>>
          BY <3>1, <4>1, <4>2
        <5> QED BY <5>1
      <4> QED BY <2>1, <4>1, <4>2 DEF Attach!ReadsPairs
    <3>5. Lists'
      BY <1>0, <2>1 DEF Lists
    <3> QED BY <1>3, <1>4, <2>1, <3>3, <3>4, <3>5
  <2> QED BY <2>2, <2>3
<1>8. CASE Attach!AttachLog /\ log[k] # 0
  <2>1. /\ stage = "attach log" /\ stage' = "attach state" /\ UNCHANGED <<k, glomem>>
        /\ logmem' = Append(logmem, <<k, log[k]>>)
    BY <1>8 DEF Attach!AttachLog
  <2>2. <<k, log[k]>> \in Attach!Segments
    BY <1>3, <1>8, SegmentsOf DEF AttachInv
  <2>3. Lists'
    BY <1>0, <2>1, <2>2, AppendIs DEF Lists
  <2>4. /\ Len(logmem') = Len(logmem) + 1 /\ Len(logmem) \in Nat
        /\ logmem'[Len(logmem) + 1] = <<k, log[k]>>
        /\ \A c \in 1..Len(logmem) : logmem'[c] = logmem[c]
    <3>1. PICK e \in Attach!Segments : e = <<k, log[k]>>
      BY <2>2
    <3>2. logmem \in Seq(Attach!Segments) /\ logmem' = Append(logmem, e)
      BY <1>0, <2>1, <3>1 DEF Lists
    <3>3. /\ Len(Append(logmem, e)) = Len(logmem) + 1 /\ Len(logmem) \in Nat
          /\ Append(logmem, e)[Len(logmem) + 1] = e
          /\ \A c \in 1..Len(logmem) : Append(logmem, e)[c] = logmem[c]
      BY <3>2, AppendIs
    <3> QED BY <3>1, <3>2, <3>3
  <2>5. Attached'
    <3>1. SUFFICES ASSUME ~upset
                   PROVE  /\ Len(logmem') = k' /\ Len(glomem') = k' - 1
                          /\ \A c \in Attach!Ids :
                               /\ c <= Len(logmem') => log'[c] # 0 /\ logmem'[c] = <<c, log'[c]>>
                               /\ c <= Len(glomem') => glomem'[c] = <<c, log'[c]>>
      BY <1>1, <2>1 DEF Attached
    <3>2. /\ Len(logmem) = k - 1 /\ Len(glomem) = k - 1
          /\ \A c \in Attach!Ids :
               /\ c <= Len(logmem) => log[c] # 0 /\ logmem[c] = <<c, log[c]>>
               /\ c <= Len(glomem) => glomem[c] = <<c, log[c]>>
      BY <2>1, <3>1 DEF AttachInv, Attached, Attach!Attaching
    <3>3. k \in Nat /\ Len(logmem) + 1 = k
      <4>1. k \in Nat
        BY <1>3, ClientNumbers
      <4> QED BY <3>2, <4>1
    <3>4. ASSUME NEW c \in Attach!Ids, c <= k
          PROVE  log[c] # 0 /\ logmem'[c] = <<c, log[c]>>
      <4>1. CASE c = k
        BY <1>8, <2>4, <3>3, <4>1
      <4>2. CASE c # k
        <5>1. c \in 1..Len(logmem) /\ c <= Len(logmem)
          <6>1. c \in Nat \ {0} /\ k \in Nat
            BY <1>3, ClientNumbers
          <6> QED BY <3>3, <3>4, <4>2, <6>1
        <5> QED BY <2>4, <3>2, <5>1
      <4> QED BY <4>1, <4>2
    <3> QED BY <1>1, <2>1, <2>4, <3>2, <3>3, <3>4
  <2>6. Attach!ReadsPairs'
    BY <2>1 DEF Attach!ReadsPairs
  <2> QED BY <1>3, <1>4, <2>1, <2>3, <2>5, <2>6
<1>9. ASSUME Attach!AttachState, ~upset
      PROVE  /\ state[k] = log[k] /\ log[k] # 0
             /\ Len(logmem) = k /\ Len(glomem) = k - 1
             /\ \A c \in Attach!Ids :
                  /\ c <= Len(logmem) => log[c] # 0 /\ logmem[c] = <<c, log[c]>>
                  /\ c <= Len(glomem) => glomem[c] = <<c, log[c]>>
  <2>1. stage = "attach state"
    BY <1>9 DEF Attach!AttachState
  <2>2. /\ Len(logmem) = k /\ Len(glomem) = k - 1
        /\ \A c \in Attach!Ids :
             /\ c <= Len(logmem) => log[c] # 0 /\ logmem[c] = <<c, log[c]>>
             /\ c <= Len(glomem) => glomem[c] = <<c, log[c]>>
    BY <1>9, <2>1 DEF AttachInv, Attached, Attach!Attaching
  <2>3. k <= k
    BY <1>3, ClientNumbers
  <2>4. log[k] # 0 /\ LogAndState(k)
    BY <1>3, <2>2, <2>3 DEF AttachInv
  <2> QED BY <2>2, <2>4 DEF LogAndState
<1>10. CASE Attach!AttachState /\ state[k] = 0
  <2>1. /\ stage' = (IF k > 1 THEN "read" ELSE "attach log") /\ k' = 1
        /\ UNCHANGED <<logmem, glomem>>
    BY <1>10 DEF Attach!AttachState, Attach!Except
  <2>2. upset'
    BY <1>1, <1>9, <1>10
  <2>3. Attached' /\ Attach!ReadsPairs' /\ Lists'
    BY <1>0, <2>1, <2>2 DEF Attached, Attach!ReadsPairs, Lists
  <2> QED BY <1>3, <1>4, <2>1, <2>3
<1>11. CASE Attach!AttachState /\ state[k] # 0
  <2>1. /\ glomem' = Append(glomem, <<k, state[k]>>) /\ UNCHANGED logmem
        /\ \/ k < LastId /\ k' = k + 1 /\ stage' = "attach log"
           \/ ~(k < LastId) /\ k' = 1 /\ stage' = "read"
    BY <1>11 DEF Attach!AttachState
  <2>2. <<k, state[k]>> \in Attach!Segments
    BY <1>3, <1>11, SegmentsOf DEF AttachInv
  <2>3. Lists'
    BY <1>0, <2>1, <2>2, AppendIs DEF Lists
  <2>4. /\ Len(glomem') = Len(glomem) + 1 /\ Len(glomem) \in Nat
        /\ glomem'[Len(glomem) + 1] = <<k, state[k]>>
        /\ \A c \in 1..Len(glomem) : glomem'[c] = glomem[c]
    <3>1. glomem \in Seq(Attach!Segments) /\ glomem' = Append(glomem, <<k, state[k]>>)
      BY <1>0, <2>1 DEF Lists
    <3> QED BY <2>2, <3>1, AppendIs
  <2>5. ASSUME ~upset
        PROVE  /\ Len(logmem') = k /\ Len(glomem') = k
               /\ \A c \in Attach!Ids : c <= k =>
                    /\ log[c] # 0 /\ logmem'[c] = <<c, log[c]>> /\ glomem'[c] = <<c, log[c]>>
    <3>1. k \in Nat /\ Len(glomem) + 1 = k
      BY <1>3, <1>9, <1>11, <2>5, ClientNumbers
    <3>2. ASSUME NEW c \in Attach!Ids, c <= k
          PROVE  log[c] # 0 /\ logmem'[c] = <<c, log[c]>> /\ glomem'[c] = <<c, log[c]>>
      <4>1. CASE c = k
        BY <1>9, <1>11, <2>1, <2>4, <2>5, <3>1, <3>2, <4>1
      <4>2. CASE c # k
        <5>1. c \in 1..Len(glomem) /\ c <= Len(glomem)
          <6>1. c \in Nat \ {0} /\ k \in Nat
            BY <1>3, ClientNumbers
          <6> QED BY <3>1, <3>2, <4>2, <6>1
        <5> QED BY <1>9, <1>11, <2>1, <2>4, <2>5, <3>2, <5>1
      <4> QED BY <4>1, <4>2
    <3> QED BY <1>9, <1>11, <2>1, <2>4, <2>5, <3>1, <3>2
  <2>6. Attached'
    <3>1. CASE stage' = "attach log"
      <4>1. k' = k + 1 /\ k \in Nat
        BY <1>3, <2>1, <3>1, ClientNumbers
      <4>2. k' - 1 = k
        BY <4>1
      <4> QED BY <1>1, <2>5, <3>1, <4>2 DEF Attached
    <3>2. CASE stage' = "read"
      BY <3>2 DEF Attached, Attach!Attaching
    <3> QED BY <2>1, <3>1, <3>2
  <2>7. Attach!ReadsPairs'
    <3>1. SUFFICES ASSUME stage' = "read", ~upset, NEW c \in Attach!Ids
                   PROVE  /\ Len(logmem') = Len(glomem')
                          /\ logmem'[c] = glomem'[c] /\ logmem'[c][1] = c
      BY <1>1, ClientNumbers DEF Attach!ReadsPairs
    <3>2. k = LastId /\ c <= k
      BY <1>3, <2>1, <3>1, ClientNumbers
    <3> QED BY <2>5, <3>1, <3>2
  <2>8. k' \in Attach!Ids
    BY <1>3, <2>1, ClientNumbers
  <2> QED BY <1>4, <2>1, <2>3, <2>6, <2>7, <2>8
<1>12. CASE Attach!Read
  <2>1. /\ stage = "read" /\ UNCHANGED <<logmem, glomem>>
        /\ \/ k < LastId /\ k' = k + 1 /\ stage' = stage
           \/ ~(k < LastId) /\ k' = 1 /\ stage' = "done"
           \/ stage' = "raised" /\ k' = k
    BY <1>12 DEF Attach!Read, Attach!NextClient
  <2>2. Attached' /\ Attach!ReadsPairs' /\ Lists'
    BY <1>0, <1>1, <2>1 DEF AttachInv, Attached, Attach!Attaching, Attach!ReadsPairs, Lists
  <2>3. k' \in Attach!Ids
    BY <1>3, <2>1, ClientNumbers
  <2> QED BY <1>4, <2>1, <2>2, <2>3
<1> QED BY <1>5, <1>6, <1>7, <1>8, <1>10, <1>11, <1>12

\* Every step of the launcher and of its clients keeps AttachInv.
LEMMA AttachStep ==
  ASSUME AttachInv, Attach!Next
  PROVE  AttachInv'
<1>1. ASSUME NEW c \in Attach!Ids, Attach!ByHand(c)
      PROVE  AttachInv'
  <2>1. /\ Attach!Begin(c, {"finished", "failed"}) /\ byhand < MaxByHand
        /\ byhand' = byhand + 1
    BY <1>1 DEF Attach!ByHand
  <2>2. UNCHANGED <<stage, k, logmem, glomem>>
    BY <2>1 DEF Attach!Begin, Attach!launcher
  <2> QED BY <2>1, <2>2, BeginStep
<1>2. CASE Attach!RunContainer
  <2>1. Attach!Begin(k, {"out"}) /\ byhand' = byhand
    BY <1>2 DEF Attach!RunContainer
  <2>2. UNCHANGED <<stage, k, logmem, glomem>>
    BY <2>1 DEF Attach!Begin, Attach!launcher
  <2>3. k \in Attach!Ids
    BY TypesOfAttach DEF AttachInv, AttachTypes
  <2> QED BY <2>1, <2>2, <2>3, BeginStep
<1> QED BY <1>1, <1>2, ClientStep, LauncherStep DEF Attach!Next, Attach!Launcher

-----------------------------------------------------------------------------
(* The FIFO.                                                               *)

\* The lines of u among those of s.
Said(s, u) == {n \in 1..Len(s) : s[n] = u}

\* The lines of one user in the FIFO can be counted.
LEMMA SaidFinite ==
  ASSUME NEW S, NEW s \in Seq(S), NEW u
  PROVE  IsFiniteSet(Said(s, u)) /\ Cardinality(Said(s, u)) \in Nat
<1>1. IsFiniteSet(1..Len(s))
  BY FS_Interval
<1>2. Said(s, u) \in SUBSET (1..Len(s))
  BY DEF Said
<1> QED BY <1>1, <1>2, FS_Subset, FS_CardinalityType

\* A line that is written is one more of its writer's.
LEMMA SaidAppend ==
  ASSUME NEW S, NEW s \in Seq(S), NEW e \in S, NEW u
  PROVE  Cardinality(Said(Append(s, e), u)) =
           Cardinality(Said(s, u)) + (IF e = u THEN 1 ELSE 0)
<1> DEFINE t == Append(s, e)
<1>1. /\ Len(t) = Len(s) + 1 /\ Len(s) \in Nat /\ t[Len(s) + 1] = e
      /\ \A n \in 1..Len(s) : t[n] = s[n]
  BY AppendIs
<1>2. IsFiniteSet(Said(s, u)) /\ Cardinality(Said(s, u)) \in Nat
  BY SaidFinite
<1> HIDE DEF t
<1>3. CASE e = u
  <2>1. Said(t, u) = Said(s, u) \cup {Len(s) + 1} /\ Len(s) + 1 \notin Said(s, u)
    BY <1>1, <1>3 DEF Said
  <2> QED BY <1>2, <1>3, <2>1, FS_AddElement DEF t
<1>4. CASE e # u
  <2>1. Said(t, u) = Said(s, u)
    BY <1>1, <1>4 DEF Said
  <2> QED BY <1>2, <1>4, <2>1 DEF t
<1> QED BY <1>3, <1>4

\* Lines that are read are no more in the FIFO, the first one in particular.
LEMMA SaidSuffix ==
  ASSUME NEW S, NEW s \in Seq(S), NEW n \in 1..Len(s), NEW u
  PROVE  /\ SubSeq(s, n + 1, Len(s)) \in Seq(S)
         /\ Cardinality(Said(SubSeq(s, n + 1, Len(s)), u))
              <= Cardinality(Said(s, u)) - (IF s[1] = u THEN 1 ELSE 0)
<1> DEFINE t == SubSeq(s, n + 1, Len(s))
           f == [m \in Said(t, u) |-> m + n]
           rest == Said(s, u) \ {1}
<1>1. /\ t \in Seq(S) /\ Len(t) = Len(s) - n /\ Len(s) \in Nat /\ n \in Nat /\ n >= 1
      /\ \A m \in 1..Len(t) : t[m] = s[m + n]
  OBVIOUS
<1>2. IsFiniteSet(Said(s, u)) /\ Cardinality(Said(s, u)) \in Nat
  BY SaidFinite
<1>3. /\ IsFiniteSet(rest)
      /\ Cardinality(rest) = Cardinality(Said(s, u)) - (IF s[1] = u THEN 1 ELSE 0)
  <2>1. 1 \in Said(s, u) <=> s[1] = u
    BY <1>1 DEF Said
  <2> QED BY <1>2, <2>1, FS_RemoveElement
<1>4. f \in Injection(Said(t, u), rest)
  <2>1. ASSUME NEW m \in Said(t, u)
        PROVE  m \in Nat /\ m + n \in rest
    <3>1. m \in 1..Len(t) /\ t[m] = u
      BY <2>1 DEF Said
    <3>2. m + n \in 1..Len(s) /\ m + n # 1 /\ s[m + n] = u
      BY <1>1, <3>1
    <3> QED BY <3>1, <3>2 DEF Said
  <2>2. f \in [Said(t, u) -> rest]
    BY <2>1
  <2>3. \A a, b \in Said(t, u) : a + n = b + n => a = b
    BY <1>1, <2>1
  <2> QED BY <2>2, <2>3 DEF Injection, IsInjective
<1>5. Cardinality(Said(t, u)) <= Cardinality(rest)
  BY <1>3, <1>4, FS_Injection
<1> QED BY <1>1, <1>3, <1>5

\* Who writes goes on like this while the other one still reads.
Wrote == {"close write", "open read", "wait for writer"}

\* It is u's turn to read, or u has just read: v writes, one line at most is in
\* the FIFO, and it is v's.
Turn(u, v) ==
  \/ /\ place[u] \in {"open read", "wait for writer"} \/ (place[u] = "off" /\ u = "read_write")
     /\ place[v] \in {"open write", "wait for reader"} \/ (place[v] = "off" /\ v = "write_read")
     /\ place[u] # "wait for writer" \/ place[v] # "wait for reader"
     /\ pipe = <<>>
  \/ place[u] = "read" /\ place[v] = "write" /\ pipe = <<>>
  \/ place[u] = "read" /\ place[v] \in Wrote /\ pipe = <<v>>
  \/ place[u] = "close read" /\ place[v] \in Wrote /\ pipe = <<>>
  \/ /\ place[u] \in {"open write", "wait for reader"} /\ place[v] = "close write"
     /\ pipe = <<>>

\* As long as nobody is killed, one of them is on turn; and in any case no line
\* is in the FIFO that was not written.
FifoInv ==
  /\ Fifo!TypeOK
  /\ \A u \in Fifo!Users : Cardinality(Said(pipe, u)) <= unheard[u]
  /\ ~crash =>
       /\ Turn("read_write", "write_read") \/ Turn("write_read", "read_write")
       /\ \A u \in Fifo!Users : /\ unheard[u] = IF pipe = <<u>> THEN 1 ELSE 0
                                /\ shown[u] \in {"nobody", Fifo!Partner(u)}

\* The places of either chat program.
FifoPlaces == {"off", "open read", "wait for writer", "read", "close read",
               "open write", "wait for reader", "write", "close write"}

\* A step that neither writes nor reads: the places change, and what the FIFO
\* holds may go.
LEMMA QuietStep ==
  ASSUME FifoInv, place' \in [Fifo!Users -> FifoPlaces], pipe' \in {pipe, <<>>},
         shown' = shown, unheard' = unheard,
         chats' \in [Fifo!Users -> 0..MaxChats], crash' \in BOOLEAN,
         ~crash' => /\ ~crash /\ pipe' = pipe
                    /\ \E u, v \in Fifo!Users : u # v /\ Turn(u, v)'
  PROVE  FifoInv'
<1>1. Fifo!TypeOK'
  <2>1. /\ pipe \in Seq(Fifo!Users) /\ unheard \in [Fifo!Users -> Nat]
        /\ shown \in [Fifo!Users -> Fifo!Users \cup {"nobody", "old"}]
    BY DEF FifoInv, Fifo!TypeOK
  <2>2. pipe' \in Seq(Fifo!Users)
    <3>1. <<>> \in Seq(Fifo!Users)
      OBVIOUS
    <3>2. pipe' = pipe \/ pipe' = <<>>
      OBVIOUS
    <3> QED BY <2>1, <3>1, <3>2
  <2> QED BY <2>1, <2>2 DEF Fifo!TypeOK, FifoPlaces
<1>2. ASSUME NEW u \in Fifo!Users
      PROVE  Cardinality(Said(pipe', u)) <= unheard[u]
  <2>1. CASE pipe' = pipe
    BY <2>1 DEF FifoInv
  <2>2. CASE pipe' = <<>>
    <3>1. Said(pipe', u) = {}
      BY <2>2 DEF Said
    <3>2. Cardinality(Said(pipe', u)) = 0
      BY <3>1, FS_EmptySet
    <3>3. unheard[u] \in Nat
      BY DEF FifoInv, Fifo!TypeOK
    <3> QED BY <3>2, <3>3
  <2> QED BY <2>1, <2>2
<1>3. ~crash' => Turn("read_write", "write_read")' \/ Turn("write_read", "read_write")'
  BY DEF Fifo!Users
<1> QED BY <1>1, <1>2, <1>3 DEF FifoInv

\* One of the counters, one up.
LEMMA CountedUp ==
  ASSUME NEW S, NEW f \in [S -> Nat], NEW x \in S, NEW g, g = [f EXCEPT ![x] = f[x] + 1]
  PROVE  \A u \in S : g[u] = f[u] + (IF x = u THEN 1 ELSE 0)
OBVIOUS

\* What a line more makes of the empty FIFO.
LEMMA OneLine ==
  ASSUME NEW x
  PROVE  Append(<<>>, x) = <<x>> /\ \A u : <<>> # <<u>> /\ (<<x>> = <<u>> <=> u = x)
OBVIOUS

\* Places, and the two programs, one by one.
LEMMA FifoFacts ==
  ASSUME FifoInv
  PROVE  /\ place \in [Fifo!Users -> FifoPlaces] /\ pipe \in Seq(Fifo!Users)
         /\ unheard \in [Fifo!Users -> Nat] /\ chats \in [Fifo!Users -> 0..MaxChats]
         /\ shown \in [Fifo!Users -> Fifo!Users \cup {"nobody", "old"}]
         /\ crash \in BOOLEAN
         /\ Fifo!Partner("read_write") = "write_read"
         /\ Fifo!Partner("write_read") = "read_write"
         /\ \A x \in Fifo!Users :
              /\ x = "read_write" \/ x = "write_read"
              /\ Fifo!Partner(x) \in Fifo!Users /\ Fifo!Partner(x) # x
BY DEF FifoInv, Fifo!TypeOK, FifoPlaces, Fifo!Users, Fifo!Partner

\* Starting, opening and being killed.
LEMMA FifoOpens ==
  ASSUME FifoInv, NEW x \in Fifo!Users,
         Fifo!Start(x) \/ Fifo!OpenRead(x) \/ Fifo!OpenWrite(x) \/ Fifo!Kill(x)
  PROVE  FifoInv'
<1> USE FifoFacts
<1>1. CASE Fifo!Start(x)
  <2>1. /\ place[x] = "off" /\ place' = [place EXCEPT ![x] = Fifo!First(x)]
        /\ UNCHANGED <<pipe, shown, unheard, crash>>
        /\ chats[x] < MaxChats /\ chats' = [chats EXCEPT ![x] = @ + 1]
    BY <1>1 DEF Fifo!Start
  <2>2. Fifo!First(x) = IF x = "read_write" THEN "open read" ELSE "open write"
    BY DEF Fifo!First
  <2>3. place' \in [Fifo!Users -> FifoPlaces]
    BY <2>1, <2>2 DEF FifoPlaces
  <2>4. chats' \in [Fifo!Users -> 0..MaxChats]
    <3>1. chats[x] + 1 \in 0..MaxChats
      BY <2>1, FifoAssumption DEF Fifo!BoundsOK
    <3> QED BY <2>1, <3>1
  <2>5. ~crash' => Turn("read_write", "write_read")'
    BY <2>1, <2>2 DEF FifoInv, Turn, Fifo!Users, Wrote
  <2> QED BY <2>1, <2>3, <2>4, <2>5, QuietStep DEF Fifo!Users
<1>2. CASE Fifo!OpenRead(x)
  <2>1. /\ place[x] = "open read" /\ UNCHANGED <<pipe, shown, unheard, chats, crash>>
        /\ place' = [w \in Fifo!Users |->
                       IF w = x THEN IF Fifo!Writes(Fifo!Partner(x)) THEN "read" ELSE "wait for writer"
                       ELSE IF place[w] = "wait for reader" THEN "write" ELSE place[w]]
    BY <1>2 DEF Fifo!OpenRead
  <2>2. place' \in [Fifo!Users -> FifoPlaces]
    BY <2>1 DEF FifoPlaces
  <2>3. /\ place'[x] = IF Fifo!Writes(Fifo!Partner(x)) THEN "read" ELSE "wait for writer"
        /\ \A w \in Fifo!Users : w # x =>
             place'[w] = IF place[w] = "wait for reader" THEN "write" ELSE place[w]
    BY <2>1
  <2>4. ~crash' => Turn("read_write", "write_read")' \/ Turn("write_read", "read_write")'
    BY <2>1, <2>3 DEF FifoInv, Turn, Fifo!Users, Fifo!Writes, Wrote
  <2> QED BY <2>1, <2>2, <2>4, QuietStep DEF Fifo!Users
<1>3. CASE Fifo!OpenWrite(x)
  <2>1. /\ place[x] = "open write" /\ UNCHANGED <<pipe, shown, unheard, chats, crash>>
        /\ place' = [w \in Fifo!Users |->
                       IF w = x THEN IF Fifo!Reads(Fifo!Partner(x)) THEN "write" ELSE "wait for reader"
                       ELSE IF place[w] = "wait for writer" THEN "read" ELSE place[w]]
    BY <1>3 DEF Fifo!OpenWrite
  <2>2. place' \in [Fifo!Users -> FifoPlaces]
    BY <2>1 DEF FifoPlaces
  <2>3. /\ place'[x] = IF Fifo!Reads(Fifo!Partner(x)) THEN "write" ELSE "wait for reader"
        /\ \A w \in Fifo!Users : w # x =>
             place'[w] = IF place[w] = "wait for writer" THEN "read" ELSE place[w]
    BY <2>1
  <2>4. ~crash' => Turn("read_write", "write_read")' \/ Turn("write_read", "read_write")'
    BY <2>1, <2>3 DEF FifoInv, Turn, Fifo!Users, Fifo!Reads, Wrote
  <2> QED BY <2>1, <2>2, <2>4, QuietStep DEF Fifo!Users
<1>4. CASE Fifo!Kill(x)
  <2>1. /\ place' = [place EXCEPT ![x] = "off"] /\ pipe' = Fifo!Left(x) /\ crash' = TRUE
        /\ UNCHANGED <<shown, unheard, chats>>
    BY <1>4 DEF Fifo!Kill
  <2>2. place' \in [Fifo!Users -> FifoPlaces]
    BY <2>1 DEF FifoPlaces
  <2>3. pipe' \in {pipe, <<>>}
    BY <2>1 DEF Fifo!Left
  <2> QED BY <2>1, <2>2, <2>3, QuietStep
<1> QED BY <1>1, <1>2, <1>3, <1>4

\* Closing, and reading or writing with nobody at the other end, which does not
\* happen as long as nobody is killed.
LEMMA FifoCloses ==
  ASSUME FifoInv, NEW x \in Fifo!Users,
         \/ Fifo!CloseRead(x) \/ Fifo!CloseWrite(x) \/ Fifo!Broken(x)
  PROVE  FifoInv'
<1> USE FifoFacts
<1>1. PICK from \in FifoPlaces, to \in FifoPlaces :
        /\ place[x] = from /\ place' = [place EXCEPT ![x] = to]
        /\ \/ from = "close read" /\ to = "open write"
           \/ from = "close write" /\ to = "open read"
           \/ from = "write" /\ to = "off" /\ ~Fifo!Reads(Fifo!Partner(x))
  BY DEF Fifo!CloseRead, Fifo!CloseWrite, Fifo!Broken, Fifo!Go, FifoPlaces
<1>2. pipe' = Fifo!Left(x) /\ UNCHANGED <<shown, unheard, chats, crash>>
  BY DEF Fifo!CloseRead, Fifo!CloseWrite, Fifo!Broken
<1>3. place' \in [Fifo!Users -> FifoPlaces] /\ pipe' \in {pipe, <<>>}
  BY <1>1, <1>2 DEF Fifo!Left
<1>4. place'[x] = to /\ \A w \in Fifo!Users : w # x => place'[w] = place[w]
  BY <1>1
<1>5. ~crash => pipe' = pipe
  BY <1>1, <1>2 DEF FifoInv, Turn, Fifo!Left, Fifo!Users, Fifo!Reads, Fifo!Writes, Wrote
<1>6. ~crash' => Turn("read_write", "write_read")' \/ Turn("write_read", "read_write")'
  BY ZenonT(30), <1>1, <1>2, <1>4, <1>5 DEF FifoInv, Turn, Fifo!Users, Fifo!Reads, Wrote
<1> QED BY <1>2, <1>3, <1>5, <1>6, QuietStep DEF Fifo!Users

\* A line is written with the reader there (read_write.c:35-36).
LEMMA FifoWrites ==
  ASSUME FifoInv, NEW x \in Fifo!Users, Fifo!WriteLine(x)
  PROVE  FifoInv'
<1>0. \A u \in Fifo!Users : unheard'[u] = unheard[u] + (IF x = u THEN 1 ELSE 0)
  <2>1. unheard \in [Fifo!Users -> Nat]
    BY FifoFacts
  <2>2. unheard' = [unheard EXCEPT ![x] = unheard[x] + 1]
    BY DEF Fifo!WriteLine
  <2> QED BY <2>1, <2>2, CountedUp
<1> USE FifoFacts
<1>1. /\ place[x] = "write" /\ place' = [place EXCEPT ![x] = "close write"]
      /\ pipe' = Append(pipe, x) /\ unheard' = [unheard EXCEPT ![x] = unheard[x] + 1]
      /\ UNCHANGED <<shown, chats, crash>>
  BY DEF Fifo!WriteLine, Fifo!Go
<1>2. Fifo!TypeOK'
  <2>1. place' \in [Fifo!Users -> FifoPlaces]
    <3>1. "close write" \in FifoPlaces
      BY DEF FifoPlaces
    <3> QED BY <1>1, <3>1
  <2>2. pipe' \in Seq(Fifo!Users)
    BY <1>1, AppendIs
  <2>3. unheard' \in [Fifo!Users -> Nat]
    <3>1. unheard[x] + 1 \in Nat
      OBVIOUS
    <3> QED BY <1>1, <3>1
  <2> QED BY <1>1, <2>1, <2>2, <2>3 DEF Fifo!TypeOK, FifoPlaces
<1>3. ASSUME NEW u \in Fifo!Users
      PROVE  Cardinality(Said(pipe', u)) <= unheard'[u]
  <2>1. /\ Cardinality(Said(pipe', u)) = Cardinality(Said(pipe, u)) + (IF x = u THEN 1 ELSE 0)
        /\ Cardinality(Said(pipe, u)) \in Nat
    <3>1. pipe \in Seq(Fifo!Users) /\ pipe' = Append(pipe, x)
      BY <1>1
    <3>2. Cardinality(Said(Append(pipe, x), u)) =
            Cardinality(Said(pipe, u)) + (IF x = u THEN 1 ELSE 0)
      BY <3>1, SaidAppend
    <3> QED BY <3>1, <3>2, SaidFinite
  <2>2. Cardinality(Said(pipe, u)) <= unheard[u] /\ unheard[u] \in Nat
    BY DEF FifoInv
  <2>3. unheard'[u] = unheard[u] + (IF x = u THEN 1 ELSE 0)
    BY <1>0
  <2> QED BY <2>1, <2>2, <2>3
<1>4. ASSUME ~crash
      PROVE  /\ Turn("read_write", "write_read")' \/ Turn("write_read", "read_write")'
             /\ \A u \in Fifo!Users : /\ unheard'[u] = IF pipe' = <<u>> THEN 1 ELSE 0
                                      /\ shown'[u] \in {"nobody", Fifo!Partner(u)}
  <2>1. /\ pipe = <<>> /\ place[Fifo!Partner(x)] = "read"
        /\ \A u \in Fifo!Users : /\ unheard[u] = IF pipe = <<u>> THEN 1 ELSE 0
                                 /\ shown[u] \in {"nobody", Fifo!Partner(u)}
    BY <1>1, <1>4 DEF FifoInv, Turn, Fifo!Users, Wrote
  <2>2. pipe' = <<x>> /\ \A u \in Fifo!Users : <<>> # <<u>> /\ (pipe' = <<u>> <=> u = x)
    <3>1. pipe' = Append(<<>>, x)
      BY <1>1, <2>1
    <3>2. pipe' = <<x>>
      BY <3>1, OneLine
    <3> QED BY <3>2, OneLine
  <2>3. place'[x] = "close write" /\ place'[Fifo!Partner(x)] = "read"
    <3>1. Fifo!Partner(x) \in Fifo!Users /\ Fifo!Partner(x) # x
      OBVIOUS
    <3> QED BY <1>1, <2>1, <3>1
  <2>4. Turn(Fifo!Partner(x), x)'
    BY <2>2, <2>3 DEF Turn, Wrote
  <2>5. ASSUME NEW u \in Fifo!Users
        PROVE  /\ unheard'[u] = IF pipe' = <<u>> THEN 1 ELSE 0
               /\ shown'[u] \in {"nobody", Fifo!Partner(u)}
    <3>1. unheard[u] = 0 /\ unheard'[u] = IF u = x THEN 1 ELSE 0
      <4>1. unheard[u] = 0
        BY <2>1, OneLine
      <4>2. unheard'[u] = unheard[u] + (IF x = u THEN 1 ELSE 0)
        BY <1>0
      <4> QED BY <4>1, <4>2
    <3> QED BY <1>1, <2>1, <2>2, <3>1
  <2>6. \/ (Fifo!Partner(x) = "read_write" /\ x = "write_read")
        \/ (Fifo!Partner(x) = "write_read" /\ x = "read_write")
    OBVIOUS
  <2> QED BY <2>4, <2>5, <2>6
<1> QED BY <1>1, <1>2, <1>3, <1>4 DEF FifoInv

\* ... and read by the other one (read_write.c:25-27).
LEMMA FifoReads ==
  ASSUME FifoInv, NEW x \in Fifo!Users, Fifo!ReadLines(x) \/ Fifo!ReadNothing(x)
  PROVE  FifoInv'
<1> USE FifoFacts
<1>1. place[x] = "read" /\ place' = [place EXCEPT ![x] = "close read"]
      /\ UNCHANGED <<chats, crash>>
  BY DEF Fifo!ReadLines, Fifo!ReadNothing, Fifo!Go
<1>2. place' \in [Fifo!Users -> FifoPlaces]
  BY <1>1 DEF FifoPlaces
<1>3. ASSUME ~crash
      PROVE  /\ \/ place[Fifo!Partner(x)] = "write" /\ pipe = <<>>
                \/ place[Fifo!Partner(x)] \in Wrote /\ pipe = <<Fifo!Partner(x)>>
             /\ \A u \in Fifo!Users : /\ unheard[u] = IF pipe = <<u>> THEN 1 ELSE 0
                                      /\ shown[u] \in {"nobody", Fifo!Partner(u)}
  BY <1>1, <1>3 DEF FifoInv, Turn, Fifo!Users, Wrote
<1>4. CASE Fifo!ReadNothing(x)
  <2>1. /\ pipe = <<>> /\ ~Fifo!Writes(Fifo!Partner(x)) /\ UNCHANGED <<pipe, unheard>>
        /\ shown' = [shown EXCEPT ![x] = "old"]
    BY <1>4 DEF Fifo!ReadNothing
  <2>2. crash
    <3>1. pipe # <<Fifo!Partner(x)>>
      BY <2>1
    <3> QED BY <1>3, <2>1, <3>1 DEF Fifo!Writes
  <2>3. Fifo!TypeOK'
    BY <1>1, <1>2, <2>1 DEF Fifo!TypeOK, FifoPlaces
  <2>4. \A u \in Fifo!Users : Cardinality(Said(pipe', u)) <= unheard'[u]
    BY <2>1 DEF FifoInv
  <2> QED BY <1>1, <2>2, <2>3, <2>4 DEF FifoInv
<1>5. CASE Fifo!ReadLines(x)
  <2>1. PICK n \in 1..Len(pipe) :
          /\ pipe' = SubSeq(pipe, n + 1, Len(pipe))
          /\ shown' = [shown EXCEPT ![x] = pipe[1]]
          /\ unheard' = [unheard EXCEPT ![pipe[1]] = unheard[pipe[1]] - 1]
    BY <1>5 DEF Fifo!ReadLines
  <2>2. pipe[1] \in Fifo!Users /\ pipe' \in Seq(Fifo!Users) /\ Len(pipe) \in Nat
    <3>1. Len(pipe) \in Nat /\ 1 \in 1..Len(pipe)
      BY <2>1
    <3> QED BY SMTT(30), <2>1, <3>1, SaidSuffix
  <2>3. ASSUME NEW u \in Fifo!Users
        PROVE  /\ unheard'[u] = unheard[u] - (IF pipe[1] = u THEN 1 ELSE 0)
               /\ Cardinality(Said(pipe', u)) <= unheard'[u] /\ unheard'[u] \in Nat
    <3>1. Cardinality(Said(pipe', u)) <= Cardinality(Said(pipe, u)) - (IF pipe[1] = u THEN 1 ELSE 0)
      BY <2>1, SaidSuffix
    <3>2. Cardinality(Said(pipe, u)) \in Nat /\ Cardinality(Said(pipe', u)) \in Nat
      BY <2>2, SaidFinite
    <3>3. Cardinality(Said(pipe, u)) <= unheard[u] /\ unheard[u] \in Nat
      BY DEF FifoInv
    <3>4. unheard'[u] = unheard[u] - (IF pipe[1] = u THEN 1 ELSE 0)
      BY <2>1, <2>2, <3>3
    <3> QED BY SMTT(30), <3>1, <3>2, <3>3, <3>4
  <2>4. Fifo!TypeOK'
    <3>1. unheard' \in [Fifo!Users -> Nat]
      BY <2>1, <2>3
    <3>2. shown' \in [Fifo!Users -> Fifo!Users \cup {"nobody", "old"}]
      BY <2>1, <2>2
    <3> QED BY <1>1, <1>2, <2>2, <3>1, <3>2 DEF Fifo!TypeOK, FifoPlaces
  <2>5. ASSUME ~crash
        PROVE  /\ Turn("read_write", "write_read")' \/ Turn("write_read", "read_write")'
               /\ \A u \in Fifo!Users : /\ unheard'[u] = IF pipe' = <<u>> THEN 1 ELSE 0
                                        /\ shown'[u] \in {"nobody", Fifo!Partner(u)}
    <3>1. Len(<<>>) = 0 /\ 1..0 = {}
      OBVIOUS
    <3>2. place[Fifo!Partner(x)] \in Wrote /\ pipe = <<Fifo!Partner(x)>>
      BY <1>3, <2>1, <2>5, <3>1
    <3>3. n = 1 /\ Len(pipe) = 1 /\ pipe[1] = Fifo!Partner(x)
      BY <2>1, <3>2
    <3>4. pipe' = <<>>
      BY <2>1, <3>2, <3>3
    <3>5. place'[x] = "close read" /\ place'[Fifo!Partner(x)] = place[Fifo!Partner(x)]
      <4>1. Fifo!Partner(x) \in Fifo!Users /\ Fifo!Partner(x) # x
        OBVIOUS
      <4> QED BY <1>1, <4>1
    <3>6. Turn(x, Fifo!Partner(x))'
      BY <3>2, <3>4, <3>5 DEF Turn
    <3>7. \A u \in Fifo!Users : /\ <<>> # <<u>> /\ unheard'[u] = 0
                                /\ shown'[u] \in {"nobody", Fifo!Partner(u)}
      <4>1. ASSUME NEW u \in Fifo!Users
            PROVE  pipe = <<u>> <=> u = Fifo!Partner(x)
        BY <3>2
      <4>2. ASSUME NEW u \in Fifo!Users
            PROVE  unheard'[u] = 0
        <5>1. unheard[u] = IF u = Fifo!Partner(x) THEN 1 ELSE 0
          BY <1>3, <2>5, <4>1
        <5>2. unheard'[u] = unheard[u] - (IF u = Fifo!Partner(x) THEN 1 ELSE 0)
          BY <2>3, <3>3
        <5> QED BY <5>1, <5>2
      <4>3. ASSUME NEW u \in Fifo!Users
            PROVE  shown'[u] \in {"nobody", Fifo!Partner(u)}
        <5>1. shown' = [shown EXCEPT ![x] = Fifo!Partner(x)]
          BY <2>1, <3>3
        <5> QED BY <1>3, <2>5, <5>1
      <4> QED BY <4>2, <4>3, OneLine
    <3>8. \/ (Fifo!Partner(x) = "read_write" /\ x = "write_read")
          \/ (Fifo!Partner(x) = "write_read" /\ x = "read_write")
      OBVIOUS
    <3> QED BY <3>4, <3>6, <3>7, <3>8
  <2> QED BY <1>1, <2>3, <2>4, <2>5 DEF FifoInv
<1> QED BY <1>4, <1>5

\* Every step of the chat programs keeps FifoInv.
LEMMA FifoStep ==
  ASSUME FifoInv, Fifo!Next
  PROVE  FifoInv'
BY FifoOpens, FifoCloses, FifoWrites, FifoReads DEF Fifo!Next, Fifo!User

-----------------------------------------------------------------------------
(* The hand-over under two conditions.                                     *)

\* The lines that r has printed, and whether the one in the slot is still to be
\* printed.
Seen == {printed[n] : n \in 1..Len(printed)} \ {-1}
Owed == items >= 0 /\ items \notin Seen

\* A condition, counted.
One(b) == IF b THEN 1 ELSE 0

\* Lines printed too often, and lines overwritten before they were printed.
Repeats   == Len(printed) - Cardinality(Seen)
Overwritten == items + 1 - Cardinality(Seen) - One(Owed)

\* p has come back from its wait too early: w may overwrite a line, r may print
\* one again.
Early(p) == tpc[p] \in {"woken", "work"} /\ (Owed <=> p = "w")

\* Outside the steps from the slot to the flag, the flag says whether a line is
\* owed.
TraceControl ==
  /\ Trace!OneInside
  /\ items = IF tpc["w"] = "mark" THEN line ELSE line - 1
  /\ tpc["w"] = "done" <=> line = Lines
  /\ tpc["w"] # "clear" /\ tpc["r"] # "mark"
  /\ tpc["r"] = "done" => items = Trace!Last
  /\ tpc["w"] = "mark" => Owed
  /\ tpc["r"] = "clear" => ~Owed
  /\ tpc["w"] # "mark" /\ tpc["r"] # "clear" => (message_in <=> Owed)

\* Every line that went wrong has been paid for by a wake-up that nobody asked
\* for, with one more for each program that is about to go wrong.
Paid == Repeats + Overwritten + One(Early("w")) + One(Early("r")) <= spurious

\* The inductive invariant of the hand-over.
TraceInv ==
  /\ Trace!TypeOK /\ TraceControl
  /\ Seen \subseteq 0..items /\ Trace!Last \notin Seen
  /\ Paid

\* Two programs, and one line at least.
LEMMA TraceNumbers ==
  /\ Lines \in Nat /\ Trace!Last \in Nat /\ Trace!Last = Lines - 1
  /\ Trace!Procs = {"w", "r"} /\ MaxSpurious \in Nat
BY TraceAssumption DEF Trace!BoundsOK, Trace!Last, Trace!Procs

\* The types, and what is counted.
LEMMA TraceFacts ==
  ASSUME TraceInv
  PROVE  /\ tpc \in [Trace!Procs -> Trace!Places] /\ mutex \in Trace!Procs \cup {"nobody"}
         /\ message_in \in BOOLEAN /\ items \in -1..Trace!Last /\ items \in Int
         /\ line \in 0..Lines /\ line \in Nat
         /\ printed \in Seq(-1..Trace!Last) /\ Len(printed) \in Nat
         /\ spurious \in 0..MaxSpurious /\ spurious \in Nat
         /\ IsFiniteSet(Seen) /\ Cardinality(Seen) \in Nat
         /\ Repeats \in Int /\ Overwritten \in Int
<1>1. /\ tpc \in [Trace!Procs -> Trace!Places] /\ mutex \in Trace!Procs \cup {"nobody"}
      /\ message_in \in BOOLEAN /\ items \in -1..Trace!Last /\ items \in Int
      /\ line \in 0..Lines /\ line \in Nat
      /\ printed \in Seq(-1..Trace!Last) /\ Len(printed) \in Nat
      /\ spurious \in 0..MaxSpurious /\ spurious \in Nat
  BY TraceNumbers DEF TraceInv, Trace!TypeOK
<1>2. IsFiniteSet(Seen) /\ Cardinality(Seen) \in Nat
  <2>1. IsFiniteSet(0..items)
    BY <1>1, FS_Interval
  <2> QED BY <2>1, FS_Subset, FS_CardinalityType DEF TraceInv
<1>3. Repeats \in Int
  BY <1>1, <1>2 DEF Repeats
<1>4. Overwritten \in Int
  BY <1>1, <1>2 DEF Overwritten, One
<1> QED BY <1>1, <1>2, <1>3, <1>4

\* A step that neither fills nor prints: no more goes wrong, unless somebody
\* wakes up for no reason.
LEMMA NothingDone ==
  ASSUME TraceInv, items' = items, printed' = printed,
         \/ spurious' = spurious /\ \A p \in Trace!Procs : Early(p)' => Early(p)
         \/ /\ spurious' = spurious + 1
            /\ \E p \in Trace!Procs : \A q \in Trace!Procs : q # p /\ Early(q)' => Early(q)
  PROVE  Paid' /\ Seen' = Seen /\ (Owed' <=> Owed)
<1>1. Seen' = Seen /\ (Owed' <=> Owed)
  BY DEF Seen, Owed
<1>2. Repeats' = Repeats /\ Overwritten' = Overwritten
  BY <1>1 DEF Repeats, Overwritten, One
<1>3. One(Early("w"))' + One(Early("r"))' + spurious
        <= One(Early("w")) + One(Early("r")) + spurious'
  <2>1. spurious \in Nat
    BY TraceFacts
  <2>2. CASE spurious' = spurious /\ \A p \in Trace!Procs : Early(p)' => Early(p)
    <3>1. (Early("w")' => Early("w")) /\ (Early("r")' => Early("r"))
      BY <2>2, TraceNumbers
    <3> QED BY <2>1, <2>2, <3>1 DEF One
  <2>3. CASE /\ spurious' = spurious + 1
             /\ \E p \in Trace!Procs : \A q \in Trace!Procs : q # p /\ Early(q)' => Early(q)
    <3>1. (Early("w")' => Early("w")) \/ (Early("r")' => Early("r"))
      BY <2>3, TraceNumbers
    <3> QED BY <2>1, <2>3, <3>1 DEF One
  <2> QED BY <2>2, <2>3
<1>4. /\ One(Early("w")) \in 0..1 /\ One(Early("r")) \in 0..1
      /\ One(Early("w"))' \in 0..1 /\ One(Early("r"))' \in 0..1
  BY DEF One
<1>5. Repeats \in Int /\ Overwritten \in Int /\ spurious \in Nat /\ spurious' \in Nat
  BY TraceFacts
<1>6. Repeats + Overwritten + One(Early("w")) + One(Early("r")) <= spurious
  BY DEF TraceInv, Paid
<1> QED BY <1>1, <1>2, <1>3, <1>4, <1>5, <1>6 DEF Paid

\* Taking the mutex, waiting, and passing by the flag.
LEMMA TraceWaits ==
  ASSUME TraceInv, NEW p \in Trace!Procs, Trace!Waits(p)
  PROVE  TraceInv'
<1>1. PICK from \in Trace!Places, to \in Trace!Places :
        /\ tpc[p] = from /\ tpc' = [tpc EXCEPT ![p] = to]
        /\ \/ from = "lock" /\ to = "test" /\ mutex = "nobody" /\ mutex' = p /\ spurious' = spurious
           \/ /\ from = "test" /\ to = "waiting" /\ message_in = (p = "w")
              /\ mutex' = "nobody" /\ spurious' = spurious
           \/ /\ from = "test" /\ to = "work" /\ message_in = (p = "r")
              /\ mutex' = mutex /\ spurious' = spurious
           \/ /\ from = "waiting" /\ to = "woken" /\ mutex' = mutex
              /\ spurious < MaxSpurious /\ spurious' = spurious + 1
           \/ from = "woken" /\ to = "work" /\ mutex = "nobody" /\ mutex' = p /\ spurious' = spurious
  BY DEF Trace!Waits, Trace!Lock, Trace!Wait, Trace!Pass, Trace!SpuriousWakeup,
         Trace!Reacquire, Trace!Go, Trace!Acquire, Trace!Places
<1>2. UNCHANGED <<message_in, items, line, printed>>
  BY DEF Trace!Waits, Trace!Lock, Trace!Wait, Trace!Pass, Trace!SpuriousWakeup,
         Trace!Reacquire
<1>3. tpc'[p] = to /\ \A q \in Trace!Procs : q # p => tpc'[q] = tpc[q]
  BY <1>1, TraceFacts
<1>4. Owed' <=> Owed
  BY <1>2 DEF Owed, Seen
<1>5. Trace!TypeOK'
  <2>1. tpc' \in [Trace!Procs -> Trace!Places] /\ mutex' \in Trace!Procs \cup {"nobody"}
    BY <1>1, TraceFacts
  <2>2. spurious' \in 0..MaxSpurious
    BY <1>1, TraceFacts, TraceNumbers
  <2> QED BY <1>2, <2>1, <2>2, TraceFacts DEF Trace!TypeOK
<1>6. TraceControl'
  <2>1. Trace!OneInside'
    BY <1>1, <1>3, TraceNumbers DEF TraceInv, TraceControl, Trace!OneInside, Trace!Inside
  <2> QED BY <1>1, <1>2, <1>3, <1>4, <2>1, TraceNumbers DEF TraceInv, TraceControl
<1>7. /\ to = "work" /\ from = "test" => (Owed <=> p = "r")
      /\ \A q \in Trace!Procs : q # p => (Early(q)' <=> Early(q))
  <2>1. to = "work" /\ from = "test" => mutex = p /\ tpc["w"] # "mark" /\ tpc["r"] # "clear"
    BY <1>1, TraceNumbers DEF TraceInv, TraceControl, Trace!OneInside, Trace!Inside
  <2>2. tpc["w"] # "mark" /\ tpc["r"] # "clear" => (message_in <=> Owed)
    BY DEF TraceInv, TraceControl
  <2>3. to = "work" /\ from = "test" => message_in = (p = "r")
    BY <1>1
  <2>4. p \in {"w", "r"}
    BY TraceNumbers
  <2>5. \A q \in Trace!Procs : q # p => (Early(q)' <=> Early(q))
    BY <1>3, <1>4 DEF Early
  <2>6. to = "work" /\ from = "test" => (Owed <=> p = "r")
    BY <2>1, <2>2, <2>3
  <2> QED BY <2>5, <2>6
<1>8. \/ spurious' = spurious /\ \A q \in Trace!Procs : Early(q)' => Early(q)
      \/ /\ spurious' = spurious + 1
         /\ \A q \in Trace!Procs : q # p /\ Early(q)' => Early(q)
  <2>1. CASE spurious' = spurious + 1 /\ from = "waiting"
    BY <1>7, <2>1
  <2>2. CASE spurious' = spurious /\ to \in {"test", "waiting"}
    <3>1. ~Early(p)'
      BY <1>3, <2>2 DEF Early
    <3> QED BY <1>7, <2>2, <3>1
  <2>3. CASE spurious' = spurious /\ to = "work" /\ from = "test"
    <3>1. ~Early(p)'
      BY <1>4, <1>7, <2>3, TraceNumbers DEF Early
    <3> QED BY <1>7, <2>3, <3>1
  <2>4. CASE spurious' = spurious /\ to = "work" /\ from = "woken"
    <3>1. Early(p)' => Early(p)
      BY <1>1, <1>4, <2>4 DEF Early
    <3> QED BY <1>7, <2>4, <3>1
  <2> QED BY <1>1, <2>1, <2>2, <2>3, <2>4
<1>9. Paid' /\ Seen' = Seen
  BY <1>2, <1>8, NothingDone
<1> QED BY <1>2, <1>5, <1>6, <1>9 DEF TraceInv

\* Setting and clearing the flag, and the end of r.
LEMMA TraceFlag ==
  ASSUME TraceInv, Trace!Mark \/ Trace!EndLoop \/ Trace!Clear
  PROVE  TraceInv'
<1>1. UNCHANGED <<items, printed, spurious>> /\ mutex' = "nobody"
  BY DEF Trace!Mark, Trace!EndLoop, Trace!Clear
<1>2. Owed' <=> Owed
  BY <1>1 DEF Owed, Seen
<1>3. mutex' \in Trace!Procs \cup {"nobody"} /\ "w" \in Trace!Procs /\ "r" \in Trace!Procs
  BY <1>1, TraceNumbers
<1>4. CASE Trace!Mark
  <2>1. /\ tpc["w"] = "mark" /\ message_in' = TRUE /\ line' = line + 1
        /\ tpc' = [tpc EXCEPT !["w"] = IF line = Trace!Last THEN "done" ELSE "lock"]
    BY <1>4 DEF Trace!Mark, Trace!Go
  <2>2. tpc'["w"] = (IF line = Trace!Last THEN "done" ELSE "lock") /\ tpc'["r"] = tpc["r"]
    BY <1>3, <2>1, TraceFacts
  <2>3. Owed /\ items = line /\ tpc["r"] \notin {"test", "work", "mark", "clear"} /\ line # Lines
    <3>1. Trace!Inside("w") /\ (Trace!Inside("r") => "r" = "w")
      BY <1>3, <2>1 DEF TraceInv, TraceControl, Trace!OneInside, Trace!Inside
    <3> QED BY <2>1, <3>1 DEF TraceInv, TraceControl, Trace!Inside
  <2>4. line' \in 0..Lines
    BY <2>1, <2>3, TraceFacts, TraceNumbers
  <2>5. Trace!TypeOK'
    <3>1. tpc' \in [Trace!Procs -> Trace!Places]
      BY <2>1, TraceFacts DEF Trace!Places
    <3> QED BY <1>1, <1>3, <2>1, <2>4, <3>1, TraceFacts DEF Trace!TypeOK
  <2>6. TraceControl'
    <3>1. Trace!OneInside'
      BY <2>2, <2>3, TraceNumbers DEF Trace!OneInside, Trace!Inside
    <3>2. items' = line' - 1 /\ (tpc'["w"] = "done" <=> line' = Lines)
      BY SMTT(30), <1>1, <2>1, <2>2, <2>3, TraceFacts, TraceNumbers
    <3> QED BY <1>1, <1>2, <2>1, <2>2, <2>3, <3>1, <3>2 DEF TraceInv, TraceControl
  <2>7. \A q \in Trace!Procs : Early(q)' => Early(q)
    BY <1>2, <2>2, TraceNumbers DEF Early
  <2>8. Paid' /\ Seen' = Seen
    BY <1>1, <2>7, NothingDone
  <2> QED BY <1>1, <2>5, <2>6, <2>8 DEF TraceInv
<1>5. CASE Trace!EndLoop
  <2>1. /\ tpc["r"] = "work" /\ items = Trace!Last /\ UNCHANGED <<message_in, line>>
        /\ tpc' = [tpc EXCEPT !["r"] = "done"]
    BY <1>5 DEF Trace!EndLoop, Trace!Go
  <2>2. tpc'["r"] = "done" /\ tpc'["w"] = tpc["w"]
    BY <1>3, <2>1, TraceFacts
  <2>3. tpc["w"] \notin {"test", "work", "mark", "clear"}
    <3>1. Trace!Inside("r") /\ (Trace!Inside("w") => "w" = "r")
      BY <1>3, <2>1 DEF TraceInv, TraceControl, Trace!OneInside, Trace!Inside
    <3> QED BY <3>1 DEF Trace!Inside
  <2>4. Trace!TypeOK'
    <3>1. tpc' \in [Trace!Procs -> Trace!Places]
      BY <2>1, TraceFacts DEF Trace!Places
    <3> QED BY <1>1, <1>3, <2>1, <3>1, TraceFacts DEF Trace!TypeOK
  <2>5. TraceControl'
    <3>1. Trace!OneInside'
      BY <2>2, <2>3, TraceNumbers DEF Trace!OneInside, Trace!Inside
    <3> QED BY <1>1, <1>2, <2>1, <2>2, <2>3, <3>1 DEF TraceInv, TraceControl, Trace!Last
  <2>6. \A q \in Trace!Procs : Early(q)' => Early(q)
    BY <1>2, <2>2, TraceNumbers DEF Early
  <2>7. Paid' /\ Seen' = Seen
    BY <1>1, <2>6, NothingDone
  <2> QED BY <1>1, <2>4, <2>5, <2>7 DEF TraceInv, Trace!Last
<1>6. CASE Trace!Clear
  <2>1. /\ tpc["r"] = "clear" /\ message_in' = FALSE /\ UNCHANGED line
        /\ tpc' = [q \in Trace!Procs |-> IF q = "r" THEN "lock"
                     ELSE IF tpc[q] = "waiting" THEN "woken" ELSE tpc[q]]
    BY <1>6 DEF Trace!Clear, Trace!Cleared, Trace!NotifyAndGo
  <2>2. tpc'["r"] = "lock" /\ tpc'["w"] = IF tpc["w"] = "waiting" THEN "woken" ELSE tpc["w"]
    BY <1>3, <2>1
  <2>3. ~Owed /\ tpc["w"] \notin {"test", "work", "mark", "clear"}
    <3>1. Trace!Inside("r") /\ (Trace!Inside("w") => "w" = "r")
      BY <1>3, <2>1 DEF TraceInv, TraceControl, Trace!OneInside, Trace!Inside
    <3> QED BY <2>1, <3>1 DEF TraceInv, TraceControl, Trace!Inside
  <2>4. Trace!TypeOK'
    <3>1. tpc' \in [Trace!Procs -> Trace!Places]
      BY <2>1, TraceFacts DEF Trace!Places
    <3> QED BY <1>1, <1>3, <2>1, <3>1, TraceFacts DEF Trace!TypeOK
  <2>5. TraceControl'
    <3>1. Trace!OneInside'
      BY <2>2, <2>3, TraceNumbers DEF Trace!OneInside, Trace!Inside
    <3> QED BY <1>1, <1>2, <2>1, <2>2, <2>3, <3>1 DEF TraceInv, TraceControl
  <2>6. \A q \in Trace!Procs : Early(q)' => Early(q)
    BY <1>2, <2>2, <2>3, TraceNumbers DEF Early
  <2>7. Paid' /\ Seen' = Seen
    BY <1>1, <2>6, NothingDone
  <2> QED BY <1>1, <2>4, <2>5, <2>7 DEF TraceInv
<1> QED BY <1>4, <1>5, <1>6

\* A line in the slot: it is owed, and the one before it is lost if that was
\* owed too, which w has come back too early for.
LEMMA TraceFills ==
  ASSUME TraceInv, Trace!Fill
  PROVE  TraceInv'
<1>1. /\ tpc["w"] = "work" /\ items' = line
      /\ UNCHANGED <<mutex, message_in, line, printed, spurious>>
      /\ tpc' = [q \in Trace!Procs |-> IF q = "w" THEN "mark"
                   ELSE IF tpc[q] = "waiting" THEN "woken" ELSE tpc[q]]
  BY DEF Trace!Fill, Trace!NotifyAndGo
<1>2. /\ tpc'["w"] = "mark"
      /\ tpc'["r"] = IF tpc["r"] = "waiting" THEN "woken" ELSE tpc["r"]
  BY <1>1, TraceNumbers
<1>3. /\ tpc["r"] \notin {"test", "work", "mark", "clear"} /\ mutex = "w"
      /\ line # Lines /\ items = line - 1
      /\ tpc["r"] # "done"
  <2>1. Trace!Inside("w") /\ (Trace!Inside("r") => "r" = "w") /\ mutex = "w"
    BY <1>1, TraceNumbers DEF TraceInv, TraceControl, Trace!OneInside, Trace!Inside
  <2>2. line # Lines /\ items = line - 1 /\ (tpc["r"] = "done" => items = Trace!Last)
    BY <1>1 DEF TraceInv, TraceControl
  <2>3. tpc["r"] # "done"
    BY <2>2, TraceNumbers, TraceFacts
  <2> QED BY <2>1, <2>2, <2>3 DEF Trace!Inside
<1>4. line \in 0..Trace!Last /\ items' = items + 1 /\ items' \in -1..Trace!Last
  BY SMTT(30), <1>1, <1>3, TraceNumbers, TraceFacts
<1>5. Seen' = Seen /\ Seen \subseteq 0..items /\ items \in Int
  BY <1>1, TraceFacts DEF Seen, TraceInv
<1>6. Seen' \subseteq 0..items' /\ items' \notin Seen
  BY <1>4, <1>5
<1>7. Owed'
  BY <1>1, <1>4, <1>5, <1>6 DEF Owed
<1>8. Trace!TypeOK'
  <2>1. tpc' \in [Trace!Procs -> Trace!Places]
    BY <1>1, TraceFacts DEF Trace!Places
  <2> QED BY <1>1, <1>4, <2>1, TraceFacts DEF Trace!TypeOK
<1>9. TraceControl'
  <2>1. Trace!OneInside'
    BY <1>1, <1>2, <1>3, TraceNumbers DEF Trace!OneInside, Trace!Inside
  <2> QED BY <1>1, <1>2, <1>3, <1>7, <2>1 DEF TraceInv, TraceControl
<1>10. Paid'
  <2>1. ~Early("w")' /\ ~Early("r")' /\ (Early("w") <=> Owed)
    BY <1>1, <1>2, <1>7 DEF Early
  <2>2. Repeats' = Repeats /\ Overwritten' = Overwritten + One(Owed)
    <3>1. Cardinality(Seen) \in Nat
      BY TraceFacts
    <3> QED BY <1>1, <1>4, <1>5, <1>7, <3>1 DEF Repeats, Overwritten, One
  <2>3. Repeats + Overwritten + One(Early("w")) + One(Early("r")) <= spurious
    BY DEF TraceInv, Paid
  <2>4. One(Early("w")) = One(Owed) /\ One(Early("r")) \in 0..1 /\ One(Owed) \in 0..1
        /\ One(Early("w"))' = 0 /\ One(Early("r"))' = 0
    BY <2>1 DEF One
  <2>5. Repeats \in Int /\ Overwritten \in Int /\ spurious \in Nat
    BY TraceFacts
  <2> QED BY <1>1, <2>2, <2>3, <2>4, <2>5 DEF Paid
<1> QED BY <1>5, <1>6, <1>8, <1>9, <1>10 DEF TraceInv, Trace!Last

\* The numbers of a sequence with one more at its end.
LEMMA SeenAppend ==
  ASSUME NEW S, NEW s \in Seq(S), NEW e \in S
  PROVE  {Append(s, e)[n] : n \in 1..Len(Append(s, e))} = {s[n] : n \in 1..Len(s)} \cup {e}
<1> DEFINE t == Append(s, e)
<1>1. /\ Len(t) = Len(s) + 1 /\ Len(s) \in Nat /\ t[Len(s) + 1] = e
      /\ \A n \in 1..Len(s) : t[n] = s[n]
  BY AppendIs
<1> HIDE DEF t
<1>2. {t[n] : n \in 1..Len(t)} = {s[n] : n \in 1..Len(s)} \cup {e}
  <2>1. 1..Len(t) = (1..Len(s)) \cup {Len(s) + 1}
    BY <1>1
  <2> QED BY <1>1, <2>1
<1> QED BY <1>2 DEF t

\* A line is printed: one that is owed, or one that r has come back too early
\* for.
LEMMA TracePrints ==
  ASSUME TraceInv, Trace!PrintLine
  PROVE  TraceInv'
<1>1. /\ tpc["r"] = "work" /\ items # Trace!Last /\ printed' = Append(printed, items)
      /\ UNCHANGED <<mutex, message_in, items, line, spurious>>
      /\ tpc' = [tpc EXCEPT !["r"] = "clear"]
  BY DEF Trace!PrintLine, Trace!Go
<1>2. tpc'["r"] = "clear" /\ tpc'["w"] = tpc["w"]
  BY <1>1, TraceFacts, TraceNumbers
<1>3. tpc["w"] \notin {"test", "work", "mark", "clear"} /\ mutex = "r"
  <2>1. Trace!Inside("r") /\ (Trace!Inside("w") => "w" = "r") /\ mutex = "r"
    BY <1>1, TraceNumbers DEF TraceInv, TraceControl, Trace!OneInside, Trace!Inside
  <2> QED BY <2>1 DEF Trace!Inside
<1>4. Seen' = Seen \cup ({items} \ {-1})
  <2>1. printed \in Seq(-1..Trace!Last) /\ items \in -1..Trace!Last
    BY TraceFacts
  <2>2. {printed'[n] : n \in 1..Len(printed')} = {printed[n] : n \in 1..Len(printed)} \cup {items}
    BY <1>1, <2>1, SeenAppend
  <2> QED BY <2>2 DEF Seen
<1>5. items \in Int /\ items \in -1..Trace!Last /\ Trace!Last \in Nat
  BY TraceFacts, TraceNumbers
<1>6. Seen' \subseteq 0..items' /\ Trace!Last \notin Seen' /\ ~Owed'
  BY <1>1, <1>4, <1>5 DEF TraceInv, Owed
<1>7. Trace!TypeOK'
  <2>1. tpc' \in [Trace!Procs -> Trace!Places]
    BY <1>1, TraceFacts DEF Trace!Places
  <2>2. printed' \in Seq(-1..Trace!Last)
    BY <1>1, <1>5, TraceFacts, AppendIs
  <2> QED BY <1>1, <2>1, <2>2, TraceFacts DEF Trace!TypeOK
<1>8. TraceControl'
  <2>1. Trace!OneInside'
    BY <1>1, <1>2, <1>3, TraceNumbers DEF Trace!OneInside, Trace!Inside
  <2> QED BY <1>1, <1>2, <1>3, <1>6, <2>1 DEF TraceInv, TraceControl
<1>9. Paid'
  <2>1. ~Early("r")' /\ (Early("r") <=> ~Owed) /\ (Early("w")' => FALSE \/ Early("w") \/ ~Owed)
    BY <1>1, <1>2, <1>6 DEF Early
  <2>2. ~Early("w")'
    BY <1>6 DEF Early
  <2>3. Len(printed') = Len(printed) + 1 /\ Len(printed) \in Nat
    BY <1>1, <1>5, TraceFacts, AppendIs
  <2>4. Cardinality(Seen') = Cardinality(Seen) + One(Owed) /\ Cardinality(Seen) \in Nat
    <3>1. IsFiniteSet(Seen) /\ Cardinality(Seen) \in Nat
      BY TraceFacts
    <3>2. CASE Owed
      <4>1. Seen' = Seen \cup {items} /\ items \notin Seen
        BY <1>4, <1>5, <3>2 DEF Owed
      <4> QED BY <3>1, <3>2, <4>1, FS_AddElement DEF One
    <3>3. CASE ~Owed
      <4>1. Seen' = Seen
        BY <1>4, <1>5, <3>3 DEF Owed
      <4> QED BY <3>1, <3>3, <4>1 DEF One
    <3> QED BY <3>2, <3>3
  <2>5. Repeats' = Repeats + 1 - One(Owed) /\ Overwritten' = Overwritten
    BY <1>1, <1>5, <1>6, <2>3, <2>4 DEF Repeats, Overwritten, One
  <2>6. Repeats + Overwritten + One(Early("w")) + One(Early("r")) <= spurious
    BY DEF TraceInv, Paid
  <2>7. /\ One(Early("r")) = 1 - One(Owed) /\ One(Early("w")) \in 0..1 /\ One(Owed) \in 0..1
        /\ One(Early("w"))' = 0 /\ One(Early("r"))' = 0
    BY <2>1, <2>2 DEF One
  <2>8. Repeats \in Int /\ Overwritten \in Int /\ spurious \in Nat
    BY TraceFacts
  <2> QED BY <1>1, <2>5, <2>6, <2>7, <2>8 DEF Paid
<1> QED BY <1>6, <1>7, <1>8, <1>9 DEF TraceInv, Trace!Last

\* Nothing changes.
LEMMA TraceSame ==
  ASSUME TraceInv, UNCHANGED trace
  PROVE  TraceInv'
BY DEF TraceInv, TraceControl, Paid, Trace!TypeOK, Trace!OneInside, Trace!Inside, Seen,
       Owed, Repeats, Overwritten, Early, One, trace

\* Both programs keep what TraceInv says.
LEMMA TraceStep ==
  ASSUME TraceInv, Trace!Next
  PROVE  TraceInv'
<1>1. CASE Trace!Terminated
  <2>1. UNCHANGED trace
    BY <1>1 DEF Trace!Terminated, Trace!vars, trace
  <2> QED BY <2>1, TraceSame
<1>2. CASE Trace!W \/ Trace!R
  BY <1>2, TraceNumbers, TraceWaits, TraceFlag, TraceFills, TracePrints DEF Trace!W, Trace!R
<1> QED BY <1>1, <1>2 DEF Trace!Next

\* When r has ended, every line but the last was printed once, but for one for
\* each wake-up that nobody asked for (w.cpp:74-80, r.cpp:65-73).
LEMMA TraceGives ==
  ASSUME TraceInv
  PROVE  Trace!TypeOK /\ Trace!OneInside /\ Trace!OneLinePerWakeup
<1>1. ASSUME tpc["r"] = "done"
      PROVE  Trace!Repeated + Cardinality(Trace!Missing) <= spurious
  <2>1. items = Trace!Last /\ Trace!Last \notin Seen /\ Seen \subseteq 0..items /\ Trace!Last \in Nat
    BY <1>1, TraceNumbers DEF TraceInv, TraceControl
  <2>2. Trace!Missing = (0..Trace!Last - 1) \ Seen /\ Seen \subseteq 0..Trace!Last - 1
    BY <2>1 DEF Trace!Missing, Seen
  <2>3. Cardinality(Trace!Missing) = Trace!Last - Cardinality(Seen)
    <3>1. IsFiniteSet(0..Trace!Last - 1) /\ Cardinality(0..Trace!Last - 1) = Trace!Last
      BY <2>1, FS_Interval
    <3>2. IsFiniteSet(Seen) /\ Cardinality(Seen) \in Nat
      BY TraceFacts
    <3>3. (0..Trace!Last - 1) \cap Seen = Seen
      BY <2>2
    <3>4. Cardinality((0..Trace!Last - 1) \ Seen)
            = Cardinality(0..Trace!Last - 1) - Cardinality((0..Trace!Last - 1) \cap Seen)
      BY <3>1, FS_Difference
    <3> QED BY <2>2, <3>1, <3>3, <3>4
  <2>4. Overwritten = Trace!Last - Cardinality(Seen)
    <3>1. Owed
      BY <2>1 DEF Owed
    <3>2. Cardinality(Seen) \in Nat
      BY TraceFacts
    <3> QED BY <2>1, <3>1, <3>2 DEF Overwritten, One
  <2>5. Trace!Repeated = Repeats
    BY DEF Trace!Repeated, Repeats, Seen, Trace!Cardinality, Cardinality
  <2>6. Repeats + Overwritten + One(Early("w")) + One(Early("r")) <= spurious
    BY DEF TraceInv, Paid
  <2>7. One(Early("w")) \in 0..1 /\ One(Early("r")) \in 0..1
    BY DEF One
  <2>8. Repeats \in Int /\ Overwritten \in Int /\ spurious \in Nat
    BY TraceFacts
  <2> QED BY <2>3, <2>4, <2>5, <2>6, <2>7, <2>8
<1>2. Trace!Cardinality(Trace!Missing) = Cardinality(Trace!Missing)
  BY DEF Trace!Cardinality, Cardinality
<1> QED BY <1>1, <1>2 DEF TraceInv, TraceControl, Trace!OneLinePerWakeup

-----------------------------------------------------------------------------
(* The ring.                                                               *)

\* Either program has two loops; w puts in the first one, r in the second.
PutOver(b) == pc[Putter(b)] \in IF b = "data" THEN Getting \cup {"done"} ELSE {"done"}
GetOver(b) == pc[Getter(b)] \in IF b = "data" THEN Putting \cup {"done"} ELSE {"done"}

\* How often the loops have been through, and their five calls.
Posted(b) == IF pc[Putter(b)] \in Putting THEN i[Putter(b)]
             ELSE IF PutOver(b) THEN NumMsg ELSE 0
Freed(b)  == IF pc[Getter(b)] \in Getting THEN i[Getter(b)]
             ELSE IF GetOver(b) THEN NumMsg ELSE 0

Taken(b)   == Posted(b) + One(pc[Putter(b)] \in Putting \ {"nempty"})
Written(b) == Posted(b) + One(pc[Putter(b)] \in {"put_unlock", "post_nstored"})
Claimed(b) == Freed(b) + One(pc[Getter(b)] \in Getting \ {"nstored"})
Gotten(b)  == Freed(b) + One(pc[Getter(b)] \in {"get_unlock", "post_nempty"})
Locked(b)  == One(pc[Putter(b)] \in {"write", "put_unlock"})
              + One(pc[Getter(b)] \in {"read", "get_unlock"})

\* Each semaphore counts what it is there to count, a value stays in its slot
\* until the slot is given back, and what was read are the first values.
Sound(b) ==
  /\ buf[b].nempty = NumItems - Taken(b) + Freed(b)
  /\ buf[b].nstored = Posted(b) - Claimed(b)
  /\ buf[b].mutex = 1 - Locked(b)
  /\ \A n \in 0..NumMsg - 1 :
       Freed(b) <= n /\ n < Written(b) => buf[b].items[n % NumItems] = Value(b, n)
  /\ Len(got[Getter(b)]) = Gotten(b)
  /\ \A n \in 1..Gotten(b) : got[Getter(b)][n] = Value(b, n - 1)

\* Which program comes first: r does nothing before both objects are there, and
\* w gets to its second loop only when r has read something.
RingPlaces ==
  /\ pc["w"] \notin {"open"} /\ pc["r"] \notin {"data", "create"}
  /\ pc["w"] \in {"start", "data", "create"} =>
       pc["r"] = "start" /\ made["vic"] \in {"none", "created"}
  /\ pc["w"] \in Getting \cup {"done"} => pc["r"] \notin {"start", "open"}
  /\ \A p \in Procs : pc[p] \notin Putting \cup Getting => i[p] = 0
  /\ made["data"] = IF pc["w"] = "start" THEN "none" ELSE "constructed"
  /\ made["vic"] = "constructed" <=> pc["r"] \notin {"start", "open"}

\* Before a buffer is constructed it is as the system gives it.
Content(b) == IF made[b] = "constructed" THEN Sound(b)
              ELSE buf[b] = Zeros /\ got[Getter(b)] = <<>>

\* The inductive invariant of the two rings.
RingInv == TypeOK /\ RingPlaces /\ \A b \in Bufs : Content(b)

\* What a buffer can hold.
Semaphores == [mutex : 0..1, nempty : 0..NumItems, nstored : 0..NumItems,
               items : [Slots -> Nat]]

\* What TypeOK and the numbers of the two programs come to.
LEMMA RingFacts ==
  ASSUME RingInv
  PROVE  /\ pc \in [Procs -> Steps] /\ i \in [Procs -> 0..NumMsg - 1]
         /\ buf \in [Bufs -> Semaphores] /\ made \in [Bufs -> Stages]
         /\ got \in [Procs -> Seq(Nat)]
BY DEF RingInv, TypeOK, Semaphores

\* The sizes of the rings, and who puts into and who gets from which of them
\* (sema/w.cpp and r.cpp).
LEMMA RingNumbers ==
  /\ NumItems \in Nat /\ NumItems # 0 /\ NumMsg \in Nat /\ NumMsg > NumItems
  /\ Procs = {"w", "r"} /\ Bufs = {"data", "vic"}
  /\ Putter("data") = "w" /\ Getter("data") = "r"
  /\ Putter("vic") = "r" /\ Getter("vic") = "w"
  /\ 0 \in 0..NumMsg - 1
  /\ \A b \in Bufs : b = "data" \/ b = "vic"
  /\ \A b \in Bufs : \A n \in 0..NumMsg - 1 : Value(b, n) \in Nat
BY SizesAssumption DEF Procs, Bufs, Putter, Getter, Value

\* The counts of a buffer are numbers, in their order.
LEMMA RingCounts ==
  ASSUME RingInv, NEW b \in Bufs
  PROVE  /\ Posted(b) \in 0..NumMsg /\ Freed(b) \in 0..NumMsg
         /\ Taken(b) \in Nat /\ Written(b) \in Nat /\ Claimed(b) \in Nat
         /\ Gotten(b) \in Nat /\ Locked(b) \in 0..2
         /\ Posted(b) <= Written(b) /\ Written(b) <= Taken(b) /\ Taken(b) <= Posted(b) + 1
         /\ Freed(b) <= Gotten(b) /\ Gotten(b) <= Claimed(b) /\ Claimed(b) <= Freed(b) + 1
<1>1. /\ \A p \in Procs : i[p] \in Nat /\ i[p] <= NumMsg - 1
      /\ NumMsg \in Nat /\ Putter(b) \in Procs /\ Getter(b) \in Procs
  BY RingFacts, RingNumbers
<1>2. Posted(b) \in 0..NumMsg /\ Freed(b) \in 0..NumMsg
  BY <1>1 DEF Posted, Freed
<1> QED BY <1>2 DEF Taken, Written, Claimed, Gotten, Locked, One, Putting, Getting

\* A step that leaves the counts of a buffer as they are.
SameCounts(c) ==
  /\ Posted(c)' = Posted(c) /\ Taken(c)' = Taken(c) /\ Written(c)' = Written(c)
  /\ Freed(c)' = Freed(c) /\ Claimed(c)' = Claimed(c) /\ Gotten(c)' = Gotten(c)
  /\ Locked(c)' = Locked(c)

\* Inside the loop a program moves on, and only the buffer it works on sees it.
LEMMA PutMoves ==
  ASSUME RingInv, NEW b \in Bufs, i' = i, made' = made,
         \/ Go(Putter(b), "nempty", "put_mutex")
         \/ Go(Putter(b), "put_mutex", "write")
         \/ Go(Putter(b), "write", "put_unlock")
         \/ Go(Putter(b), "put_unlock", "post_nstored")
  PROVE  /\ RingPlaces' /\ pc' \in [Procs -> Steps] /\ made[b] = "constructed"
         /\ Posted(b) = i[Putter(b)] /\ Posted(b)' = Posted(b)
         /\ Freed(b)' = Freed(b) /\ Claimed(b)' = Claimed(b) /\ Gotten(b)' = Gotten(b)
         /\ pc[Putter(b)] = "nempty" =>
              Taken(b)' = Taken(b) + 1 /\ Written(b)' = Written(b) /\ Locked(b)' = Locked(b)
         /\ pc[Putter(b)] = "put_mutex" =>
              Taken(b)' = Taken(b) /\ Written(b)' = Written(b) /\ Locked(b)' = Locked(b) + 1
         /\ pc[Putter(b)] = "write" =>
              Taken(b)' = Taken(b) /\ Written(b)' = Written(b) + 1 /\ Locked(b)' = Locked(b)
         /\ pc[Putter(b)] = "put_unlock" =>
              Taken(b)' = Taken(b) /\ Written(b)' = Written(b) /\ Locked(b)' = Locked(b) - 1
         /\ \A c \in Bufs : c # b => SameCounts(c)
<1> USE RingNumbers
<1>1. pc \in [Procs -> Steps] /\ b \in {"data", "vic"}
  BY RingFacts
<1>2. Posted(b) \in Int /\ Freed(b) \in Int
  BY RingCounts
<1>3. CASE b = "data"
  <2>1. /\ pc'["r"] = pc["r"]
        /\ \/ pc["w"] = "nempty" /\ pc'["w"] = "put_mutex"
           \/ pc["w"] = "put_mutex" /\ pc'["w"] = "write"
           \/ pc["w"] = "write" /\ pc'["w"] = "put_unlock"
           \/ pc["w"] = "put_unlock" /\ pc'["w"] = "post_nstored"
    BY <1>1, <1>3 DEF Go
  <2> QED BY <1>1, <1>2, <1>3, <2>1 DEF RingInv, RingPlaces, Posted, Freed, Taken, Written, Claimed,
        Gotten, Locked, SameCounts, PutOver, GetOver, Putting, Getting, Steps, One, Go
<1>4. CASE b = "vic"
  <2>1. /\ pc'["w"] = pc["w"]
        /\ \/ pc["r"] = "nempty" /\ pc'["r"] = "put_mutex"
           \/ pc["r"] = "put_mutex" /\ pc'["r"] = "write"
           \/ pc["r"] = "write" /\ pc'["r"] = "put_unlock"
           \/ pc["r"] = "put_unlock" /\ pc'["r"] = "post_nstored"
    BY <1>1, <1>4 DEF Go
  <2> QED BY <1>1, <1>2, <1>4, <2>1 DEF RingInv, RingPlaces, Posted, Freed, Taken, Written, Claimed,
        Gotten, Locked, SameCounts, PutOver, GetOver, Putting, Getting, Steps, One, Go
<1> QED BY <1>1, <1>3, <1>4

\* ... and the same for who gets.
LEMMA GetMoves ==
  ASSUME RingInv, NEW b \in Bufs, i' = i, made' = made,
         \/ Go(Getter(b), "nstored", "get_mutex")
         \/ Go(Getter(b), "get_mutex", "read")
         \/ Go(Getter(b), "read", "get_unlock")
         \/ Go(Getter(b), "get_unlock", "post_nempty")
  PROVE  /\ RingPlaces' /\ pc' \in [Procs -> Steps] /\ made[b] = "constructed"
         /\ Freed(b) = i[Getter(b)] /\ Freed(b)' = Freed(b)
         /\ Posted(b)' = Posted(b) /\ Taken(b)' = Taken(b) /\ Written(b)' = Written(b)
         /\ pc[Getter(b)] = "nstored" =>
              Claimed(b)' = Claimed(b) + 1 /\ Gotten(b)' = Gotten(b) /\ Locked(b)' = Locked(b)
         /\ pc[Getter(b)] = "get_mutex" =>
              Claimed(b)' = Claimed(b) /\ Gotten(b)' = Gotten(b) /\ Locked(b)' = Locked(b) + 1
         /\ pc[Getter(b)] = "read" =>
              Claimed(b)' = Claimed(b) /\ Gotten(b)' = Gotten(b) + 1 /\ Locked(b)' = Locked(b)
         /\ pc[Getter(b)] = "get_unlock" =>
              Claimed(b)' = Claimed(b) /\ Gotten(b)' = Gotten(b) /\ Locked(b)' = Locked(b) - 1
         /\ \A c \in Bufs : c # b => SameCounts(c)
<1> USE RingNumbers
<1>1. pc \in [Procs -> Steps] /\ b \in {"data", "vic"}
  BY RingFacts
<1>2. Posted(b) \in Int /\ Freed(b) \in Int
  BY RingCounts
<1>3. CASE b = "data"
  <2>1. /\ pc'["w"] = pc["w"]
        /\ \/ pc["r"] = "nstored" /\ pc'["r"] = "get_mutex"
           \/ pc["r"] = "get_mutex" /\ pc'["r"] = "read"
           \/ pc["r"] = "read" /\ pc'["r"] = "get_unlock"
           \/ pc["r"] = "get_unlock" /\ pc'["r"] = "post_nempty"
    BY <1>1, <1>3 DEF Go
  <2> QED BY <1>1, <1>2, <1>3, <2>1 DEF RingInv, RingPlaces, Posted, Freed, Taken, Written, Claimed,
        Gotten, Locked, SameCounts, PutOver, GetOver, Putting, Getting, Steps, One, Go
<1>4. CASE b = "vic"
  <2>1. /\ pc'["r"] = pc["r"]
        /\ \/ pc["w"] = "nstored" /\ pc'["w"] = "get_mutex"
           \/ pc["w"] = "get_mutex" /\ pc'["w"] = "read"
           \/ pc["w"] = "read" /\ pc'["w"] = "get_unlock"
           \/ pc["w"] = "get_unlock" /\ pc'["w"] = "post_nempty"
    BY <1>1, <1>4 DEF Go
  <2> QED BY <1>1, <1>2, <1>4, <2>1 DEF RingInv, RingPlaces, Posted, Freed, Taken, Written, Claimed,
        Gotten, Locked, SameCounts, PutOver, GetOver, Putting, Getting, Steps, One, Go
<1> QED BY <1>1, <1>3, <1>4

\* What an operation on a semaphore does to the buffers: on the mutex,
LEMMA MutexMoves ==
  ASSUME RingInv, NEW b \in Bufs, NEW e \in 0..1, buf' = [buf EXCEPT ![b]["mutex"] = e]
  PROVE  /\ buf'[b].mutex = e
         /\ buf'[b].nempty = buf[b].nempty /\ buf'[b].nstored = buf[b].nstored /\ buf'[b].items = buf[b].items
         /\ \A c \in Bufs : c # b => buf'[c] = buf[c]
         /\ buf' \in [Bufs -> Semaphores]
<1>1. buf \in [Bufs -> Semaphores] /\ buf[b] \in Semaphores
  BY RingFacts
<1>2. buf' = [buf EXCEPT ![b] = [buf[b] EXCEPT !.mutex = e]]
  OBVIOUS
<1>3. [buf[b] EXCEPT !.mutex = e] \in Semaphores
  BY <1>1 DEF Semaphores
<1>4. /\ buf'[b] = [buf[b] EXCEPT !.mutex = e] /\ buf' \in [Bufs -> Semaphores]
      /\ \A c \in Bufs : c # b => buf'[c] = buf[c]
  BY <1>1, <1>2, <1>3
<1> QED BY <1>1, <1>4 DEF Semaphores

\* on the free slots,
LEMMA NemptyMoves ==
  ASSUME RingInv, NEW b \in Bufs, NEW e \in 0..NumItems, buf' = [buf EXCEPT ![b]["nempty"] = e]
  PROVE  /\ buf'[b].nempty = e
         /\ buf'[b].mutex = buf[b].mutex /\ buf'[b].nstored = buf[b].nstored /\ buf'[b].items = buf[b].items
         /\ \A c \in Bufs : c # b => buf'[c] = buf[c]
         /\ buf' \in [Bufs -> Semaphores]
<1>1. buf \in [Bufs -> Semaphores] /\ buf[b] \in Semaphores
  BY RingFacts
<1>2. buf' = [buf EXCEPT ![b] = [buf[b] EXCEPT !.nempty = e]]
  OBVIOUS
<1>3. [buf[b] EXCEPT !.nempty = e] \in Semaphores
  BY <1>1 DEF Semaphores
<1>4. /\ buf'[b] = [buf[b] EXCEPT !.nempty = e] /\ buf' \in [Bufs -> Semaphores]
      /\ \A c \in Bufs : c # b => buf'[c] = buf[c]
  BY <1>1, <1>2, <1>3
<1> QED BY <1>1, <1>4 DEF Semaphores

\* and on the filled ones.
LEMMA NstoredMoves ==
  ASSUME RingInv, NEW b \in Bufs, NEW e \in 0..NumItems, buf' = [buf EXCEPT ![b]["nstored"] = e]
  PROVE  /\ buf'[b].nstored = e
         /\ buf'[b].mutex = buf[b].mutex /\ buf'[b].nempty = buf[b].nempty /\ buf'[b].items = buf[b].items
         /\ \A c \in Bufs : c # b => buf'[c] = buf[c]
         /\ buf' \in [Bufs -> Semaphores]
<1>1. buf \in [Bufs -> Semaphores] /\ buf[b] \in Semaphores
  BY RingFacts
<1>2. buf' = [buf EXCEPT ![b] = [buf[b] EXCEPT !.nstored = e]]
  OBVIOUS
<1>3. [buf[b] EXCEPT !.nstored = e] \in Semaphores
  BY <1>1 DEF Semaphores
<1>4. /\ buf'[b] = [buf[b] EXCEPT !.nstored = e] /\ buf' \in [Bufs -> Semaphores]
      /\ \A c \in Bufs : c # b => buf'[c] = buf[c]
  BY <1>1, <1>2, <1>3
<1> QED BY <1>1, <1>4 DEF Semaphores

\* A buffer nobody works on stays as it is.
LEMMA BufferStays ==
  ASSUME RingInv, NEW c \in Bufs, SameCounts(c), buf'[c] = buf[c], made'[c] = made[c],
         got'[Getter(c)] = got[Getter(c)]
  PROVE  Content(c)'
<1>1. Content(c)
  BY DEF RingInv
<1> QED BY <1>1 DEF Content, Sound, SameCounts

\* What is left to be shown when the buffer of a step is known to be in order.
LEMMA RingRest ==
  ASSUME RingInv, NEW b \in Bufs, RingPlaces', Content(b)',
         pc' \in [Procs -> Steps], i' \in [Procs -> 0..NumMsg - 1],
         buf' \in [Bufs -> Semaphores], made' \in [Bufs -> Stages],
         got' \in [Procs -> Seq(Nat)],
         \A c \in Bufs : c # b => /\ SameCounts(c) /\ buf'[c] = buf[c] /\ made'[c] = made[c]
                                  /\ got'[Getter(c)] = got[Getter(c)]
  PROVE  RingInv'
<1>1. TypeOK'
  BY DEF TypeOK, Semaphores
<1>2. ASSUME NEW c \in Bufs
      PROVE  Content(c)'
  <2>1. CASE c = b
    BY <2>1
  <2>2. CASE c # b
    BY <2>2, BufferStays
  <2> QED BY <2>1, <2>2
<1> QED BY <1>1, <1>2 DEF RingInv

\* What a step on a semaphore leaves of a sound buffer.
LEMMA SoundStays ==
  ASSUME RingInv, NEW b \in Bufs, made[b] = "constructed", made' = made, got' = got,
         buf'[b].items = buf[b].items, Written(b)' = Written(b), Gotten(b)' = Gotten(b),
         Freed(b)' \in Nat, Freed(b)' >= Freed(b),
         buf'[b].nempty = NumItems - Taken(b)' + Freed(b)',
         buf'[b].nstored = Posted(b)' - Claimed(b)',
         buf'[b].mutex = 1 - Locked(b)'
  PROVE  Content(b)'
<1>1. Sound(b)
  BY DEF RingInv, Content
<1>2. Freed(b) \in Nat /\ Written(b) \in Nat
  BY RingCounts
<1>3. \A n \in 0..NumMsg - 1 :
        Freed(b)' <= n /\ n < Written(b)' => buf'[b].items[n % NumItems] = Value(b, n)
  <2>1. SUFFICES ASSUME NEW n \in 0..NumMsg - 1, Freed(b)' <= n, n < Written(b)'
                 PROVE  buf'[b].items[n % NumItems] = Value(b, n)
    OBVIOUS
  <2>2. n \in Nat
    BY RingNumbers
  <2>3. Freed(b) <= n
    BY <1>2, <2>1, <2>2
  <2> QED BY <1>1, <2>1, <2>3 DEF Sound
<1>4. Sound(b)'
  BY <1>1, <1>3 DEF Sound
<1> QED BY <1>4 DEF Content

\* The semaphores of a sound buffer, by the counts.
LEMMA SoundFacts ==
  ASSUME RingInv, NEW b \in Bufs, made[b] = "constructed"
  PROVE  /\ Sound(b)
         /\ buf[b].mutex \in 0..1 /\ buf[b].nempty \in 0..NumItems
         /\ buf[b].nstored \in 0..NumItems /\ buf[b].items \in [Slots -> Nat]
         /\ buf[b].nempty = NumItems - Taken(b) + Freed(b)
         /\ buf[b].nstored = Posted(b) - Claimed(b)
         /\ buf[b].mutex = 1 - Locked(b)
<1>1. buf[b] \in Semaphores
  BY RingFacts
<1>2. Sound(b)
  BY DEF RingInv, Content
<1> QED BY <1>1, <1>2 DEF Semaphores, Sound

\* The semaphores around the slot: who puts waits for a free slot and locks.
LEMMA PutWaits ==
  ASSUME RingInv, NEW b \in Bufs, WaitNempty(b) \/ PutLock(b) \/ PutUnlock(b)
  PROVE  RingInv'
<1>1. made' = made /\ got' = got /\ i' = i
  BY DEF WaitNempty, PutLock, PutUnlock, Wait, Unlock, Post
<1>2. CASE WaitNempty(b)
  <2>1. /\ pc[Putter(b)] = "nempty" /\ pc' = [pc EXCEPT ![Putter(b)] = "put_mutex"]
        /\ buf[b].nempty > 0 /\ buf' = [buf EXCEPT ![b]["nempty"] = buf[b].nempty - 1]
    BY <1>2 DEF WaitNempty, Wait, Go
  <2>2. Go(Putter(b), "nempty", "put_mutex")
    BY <2>1 DEF Go
  <2>3. /\ RingPlaces' /\ pc' \in [Procs -> Steps] /\ made[b] = "constructed"
        /\ Posted(b)' = Posted(b) /\ Freed(b)' = Freed(b) /\ Claimed(b)' = Claimed(b) /\ Gotten(b)' = Gotten(b)
        /\ Taken(b)' = Taken(b) + 1 /\ Written(b)' = Written(b) /\ Locked(b)' = Locked(b)
        /\ \A c \in Bufs : c # b => SameCounts(c)
    BY <1>1, <2>1, <2>2, PutMoves
  <2>4. buf[b].nempty - 1 \in 0..NumItems
    BY <2>1, <2>3, SoundFacts, RingNumbers
  <2>5. /\ buf'[b].nempty = buf[b].nempty - 1
        /\ buf'[b].mutex = buf[b].mutex /\ buf'[b].nstored = buf[b].nstored /\ buf'[b].items = buf[b].items
        /\ \A c \in Bufs : c # b => buf'[c] = buf[c]
        /\ buf' \in [Bufs -> Semaphores]
    BY <2>1, <2>4, NemptyMoves
  <2>6. Content(b)'
    BY <1>1, <2>3, <2>5, SoundFacts, SoundStays, RingCounts, RingNumbers
  <2> QED BY <1>1, <2>3, <2>5, <2>6, RingFacts, RingRest
<1>3. CASE PutLock(b)
  <2>1. /\ pc[Putter(b)] = "put_mutex" /\ pc' = [pc EXCEPT ![Putter(b)] = "write"]
        /\ buf[b].mutex > 0 /\ buf' = [buf EXCEPT ![b]["mutex"] = buf[b].mutex - 1]
    BY <1>3 DEF PutLock, Wait, Go
  <2>2. Go(Putter(b), "put_mutex", "write")
    BY <2>1 DEF Go
  <2>3. /\ RingPlaces' /\ pc' \in [Procs -> Steps] /\ made[b] = "constructed"
        /\ Posted(b)' = Posted(b) /\ Freed(b)' = Freed(b) /\ Claimed(b)' = Claimed(b) /\ Gotten(b)' = Gotten(b)
        /\ Taken(b)' = Taken(b) /\ Written(b)' = Written(b) /\ Locked(b)' = Locked(b) + 1
        /\ \A c \in Bufs : c # b => SameCounts(c)
    BY <1>1, <2>1, <2>2, PutMoves
  <2>4. buf[b].mutex - 1 \in 0..1
    BY <2>1, <2>3, SoundFacts, RingNumbers
  <2>5. /\ buf'[b].mutex = buf[b].mutex - 1
        /\ buf'[b].nempty = buf[b].nempty /\ buf'[b].nstored = buf[b].nstored /\ buf'[b].items = buf[b].items
        /\ \A c \in Bufs : c # b => buf'[c] = buf[c]
        /\ buf' \in [Bufs -> Semaphores]
    BY <2>1, <2>4, MutexMoves
  <2>6. Content(b)'
    BY <1>1, <2>3, <2>5, SoundFacts, SoundStays, RingCounts, RingNumbers
  <2> QED BY <1>1, <2>3, <2>5, <2>6, RingFacts, RingRest
<1>4. CASE PutUnlock(b)
  <2>1. /\ pc[Putter(b)] = "put_unlock" /\ pc' = [pc EXCEPT ![Putter(b)] = "post_nstored"]
        /\ buf' = [buf EXCEPT ![b]["mutex"] = buf[b].mutex + 1]
    BY <1>4 DEF PutUnlock, Unlock, Post, Go
  <2>2. Go(Putter(b), "put_unlock", "post_nstored")
    BY <2>1 DEF Go
  <2>3. /\ RingPlaces' /\ pc' \in [Procs -> Steps] /\ made[b] = "constructed"
        /\ Posted(b)' = Posted(b) /\ Freed(b)' = Freed(b) /\ Claimed(b)' = Claimed(b) /\ Gotten(b)' = Gotten(b)
        /\ Taken(b)' = Taken(b) /\ Written(b)' = Written(b) /\ Locked(b)' = Locked(b) - 1
        /\ \A c \in Bufs : c # b => SameCounts(c)
    BY <1>1, <2>1, <2>2, PutMoves
  <2>4. buf[b].mutex + 1 \in 0..1
    <3>1. Locked(b) >= 1
      BY <2>1 DEF Locked, One
    <3> QED BY <2>3, <3>1, SoundFacts, RingCounts
  <2>5. /\ buf'[b].mutex = buf[b].mutex + 1
        /\ buf'[b].nempty = buf[b].nempty /\ buf'[b].nstored = buf[b].nstored /\ buf'[b].items = buf[b].items
        /\ \A c \in Bufs : c # b => buf'[c] = buf[c]
        /\ buf' \in [Bufs -> Semaphores]
    BY <2>1, <2>4, MutexMoves
  <2>6. Content(b)'
    BY <1>1, <2>3, <2>5, SoundFacts, SoundStays, RingCounts, RingNumbers
  <2> QED BY <1>1, <2>3, <2>5, <2>6, RingFacts, RingRest
<1> QED BY <1>2, <1>3, <1>4

\* The semaphores around the slot: who gets waits for a filled one and locks.
LEMMA GetWaits ==
  ASSUME RingInv, NEW b \in Bufs, WaitNstored(b) \/ GetLock(b) \/ GetUnlock(b)
  PROVE  RingInv'
<1>1. made' = made /\ got' = got /\ i' = i
  BY DEF WaitNstored, GetLock, GetUnlock, Wait, Unlock, Post
<1>2. CASE WaitNstored(b)
  <2>1. /\ pc[Getter(b)] = "nstored" /\ pc' = [pc EXCEPT ![Getter(b)] = "get_mutex"]
        /\ buf[b].nstored > 0 /\ buf' = [buf EXCEPT ![b]["nstored"] = buf[b].nstored - 1]
    BY <1>2 DEF WaitNstored, Wait, Go
  <2>2. Go(Getter(b), "nstored", "get_mutex")
    BY <2>1 DEF Go
  <2>3. /\ RingPlaces' /\ pc' \in [Procs -> Steps] /\ made[b] = "constructed"
        /\ Freed(b)' = Freed(b) /\ Posted(b)' = Posted(b) /\ Taken(b)' = Taken(b) /\ Written(b)' = Written(b)
        /\ Claimed(b)' = Claimed(b) + 1 /\ Gotten(b)' = Gotten(b) /\ Locked(b)' = Locked(b)
        /\ \A c \in Bufs : c # b => SameCounts(c)
    BY <1>1, <2>1, <2>2, GetMoves
  <2>4. buf[b].nstored - 1 \in 0..NumItems
    BY <2>1, <2>3, SoundFacts, RingNumbers
  <2>5. /\ buf'[b].nstored = buf[b].nstored - 1
        /\ buf'[b].mutex = buf[b].mutex /\ buf'[b].nempty = buf[b].nempty /\ buf'[b].items = buf[b].items
        /\ \A c \in Bufs : c # b => buf'[c] = buf[c]
        /\ buf' \in [Bufs -> Semaphores]
    BY <2>1, <2>4, NstoredMoves
  <2>6. Content(b)'
    BY <1>1, <2>3, <2>5, SoundFacts, SoundStays, RingCounts, RingNumbers
  <2> QED BY <1>1, <2>3, <2>5, <2>6, RingFacts, RingRest
<1>3. CASE GetLock(b)
  <2>1. /\ pc[Getter(b)] = "get_mutex" /\ pc' = [pc EXCEPT ![Getter(b)] = "read"]
        /\ buf[b].mutex > 0 /\ buf' = [buf EXCEPT ![b]["mutex"] = buf[b].mutex - 1]
    BY <1>3 DEF GetLock, Wait, Go
  <2>2. Go(Getter(b), "get_mutex", "read")
    BY <2>1 DEF Go
  <2>3. /\ RingPlaces' /\ pc' \in [Procs -> Steps] /\ made[b] = "constructed"
        /\ Freed(b)' = Freed(b) /\ Posted(b)' = Posted(b) /\ Taken(b)' = Taken(b) /\ Written(b)' = Written(b)
        /\ Claimed(b)' = Claimed(b) /\ Gotten(b)' = Gotten(b) /\ Locked(b)' = Locked(b) + 1
        /\ \A c \in Bufs : c # b => SameCounts(c)
    BY <1>1, <2>1, <2>2, GetMoves
  <2>4. buf[b].mutex - 1 \in 0..1
    BY <2>1, <2>3, SoundFacts, RingNumbers
  <2>5. /\ buf'[b].mutex = buf[b].mutex - 1
        /\ buf'[b].nempty = buf[b].nempty /\ buf'[b].nstored = buf[b].nstored /\ buf'[b].items = buf[b].items
        /\ \A c \in Bufs : c # b => buf'[c] = buf[c]
        /\ buf' \in [Bufs -> Semaphores]
    BY <2>1, <2>4, MutexMoves
  <2>6. Content(b)'
    BY <1>1, <2>3, <2>5, SoundFacts, SoundStays, RingCounts, RingNumbers
  <2> QED BY <1>1, <2>3, <2>5, <2>6, RingFacts, RingRest
<1>4. CASE GetUnlock(b)
  <2>1. /\ pc[Getter(b)] = "get_unlock" /\ pc' = [pc EXCEPT ![Getter(b)] = "post_nempty"]
        /\ buf' = [buf EXCEPT ![b]["mutex"] = buf[b].mutex + 1]
    BY <1>4 DEF GetUnlock, Unlock, Post, Go
  <2>2. Go(Getter(b), "get_unlock", "post_nempty")
    BY <2>1 DEF Go
  <2>3. /\ RingPlaces' /\ pc' \in [Procs -> Steps] /\ made[b] = "constructed"
        /\ Freed(b)' = Freed(b) /\ Posted(b)' = Posted(b) /\ Taken(b)' = Taken(b) /\ Written(b)' = Written(b)
        /\ Claimed(b)' = Claimed(b) /\ Gotten(b)' = Gotten(b) /\ Locked(b)' = Locked(b) - 1
        /\ \A c \in Bufs : c # b => SameCounts(c)
    BY <1>1, <2>1, <2>2, GetMoves
  <2>4. buf[b].mutex + 1 \in 0..1
    <3>1. Locked(b) >= 1
      BY <2>1 DEF Locked, One
    <3> QED BY <2>3, <3>1, SoundFacts, RingCounts
  <2>5. /\ buf'[b].mutex = buf[b].mutex + 1
        /\ buf'[b].nempty = buf[b].nempty /\ buf'[b].nstored = buf[b].nstored /\ buf'[b].items = buf[b].items
        /\ \A c \in Bufs : c # b => buf'[c] = buf[c]
        /\ buf' \in [Bufs -> Semaphores]
    BY <2>1, <2>4, MutexMoves
  <2>6. Content(b)'
    BY <1>1, <2>3, <2>5, SoundFacts, SoundStays, RingCounts, RingNumbers
  <2> QED BY <1>1, <2>3, <2>5, <2>6, RingFacts, RingRest
<1> QED BY <1>2, <1>3, <1>4

\* The slot of a value is free when the value is written: no value between it
\* and the oldest one that is still needed is in the same slot.
LEMMA SlotsApart ==
  ASSUME RingInv, NEW b \in Bufs, made[b] = "constructed", Taken(b) = Posted(b) + 1,
         NEW n \in 0..NumMsg - 1, Freed(b) <= n, n < Posted(b)
  PROVE  n % NumItems # Posted(b) % NumItems
<1>1. /\ Posted(b) \in Nat /\ Freed(b) \in Nat /\ n \in Nat
      /\ NumItems \in Nat \ {0}
  BY RingCounts, RingNumbers
<1>2. Posted(b) + 1 - Freed(b) <= NumItems
  BY <1>1, SoundFacts
<1>3. Posted(b) - n < NumItems
  BY <1>1, <1>2
<1> QED BY <1>1, <1>3, SameSlotFarApart

\* A remainder is one of the slots.
LEMMA SlotOf ==
  ASSUME NEW n \in Nat
  PROVE  n % NumItems \in Slots
BY RingNumbers, DivMod DEF Slots

\* A value is written: it is the next one, and those that are not given back yet
\* stay in their slots.
LEMMA RingWrites ==
  ASSUME RingInv, NEW b \in Bufs, Write(b)
  PROVE  RingInv'
<1> DEFINE m == i[Putter(b)]
           t == m % NumItems
<1>1. /\ made' = made /\ got' = got /\ i' = i /\ pc[Putter(b)] = "write"
      /\ Go(Putter(b), "write", "put_unlock")
      /\ buf' = [buf EXCEPT ![b].items[t] = Value(b, m)]
  BY DEF Write, Go
<1>2. /\ RingPlaces' /\ pc' \in [Procs -> Steps] /\ made[b] = "constructed"
      /\ Posted(b) = m /\ Posted(b)' = Posted(b)
      /\ Freed(b)' = Freed(b) /\ Claimed(b)' = Claimed(b) /\ Gotten(b)' = Gotten(b)
      /\ Taken(b)' = Taken(b) /\ Written(b)' = Written(b) + 1 /\ Locked(b)' = Locked(b)
      /\ \A c \in Bufs : c # b => SameCounts(c)
  BY <1>1, PutMoves
<1>3. Taken(b) = Posted(b) + 1 /\ Written(b) = Posted(b)
  <2>1. Posted(b) \in Nat
    BY RingCounts
  <2> QED BY <1>1, <2>1 DEF Taken, Written, Putting, One
<1>4. m \in 0..NumMsg - 1 /\ m \in Nat /\ t \in Slots /\ Value(b, m) \in Nat
  <2>1. m \in 0..NumMsg - 1
    BY RingFacts, RingNumbers
  <2>2. m \in Nat
    BY <2>1, RingNumbers
  <2> QED BY <2>1, <2>2, SlotOf, RingNumbers
<1> HIDE DEF t, m
<1>5. /\ buf'[b].mutex = buf[b].mutex /\ buf'[b].nempty = buf[b].nempty
      /\ buf'[b].nstored = buf[b].nstored
      /\ buf'[b].items = [buf[b].items EXCEPT ![t] = Value(b, m)]
      /\ \A c \in Bufs : c # b => buf'[c] = buf[c]
      /\ buf' \in [Bufs -> Semaphores]
  <2>1. buf \in [Bufs -> Semaphores] /\ buf[b] \in Semaphores
    BY RingFacts
  <2>2. [buf[b].items EXCEPT ![t] = Value(b, m)] \in [Slots -> Nat]
    BY <1>4, <2>1 DEF Semaphores
  <2>3. buf' = [buf EXCEPT ![b] = [buf[b] EXCEPT !.items = [buf[b].items EXCEPT ![t] = Value(b, m)]]]
    BY <1>1
  <2>4. [buf[b] EXCEPT !.items = [buf[b].items EXCEPT ![t] = Value(b, m)]] \in Semaphores
    BY <2>1, <2>2 DEF Semaphores
  <2>5. /\ buf'[b] = [buf[b] EXCEPT !.items = [buf[b].items EXCEPT ![t] = Value(b, m)]]
        /\ \A c \in Bufs : c # b => buf'[c] = buf[c]
        /\ buf' \in [Bufs -> Semaphores]
    BY <2>1, <2>3, <2>4
  <2> QED BY <2>1, <2>5 DEF Semaphores
<1>6. ASSUME NEW n \in 0..NumMsg - 1, Freed(b)' <= n, n < Written(b)'
      PROVE  buf'[b].items[n % NumItems] = Value(b, n)
  <2>1. n \in Nat /\ n % NumItems \in Slots
    <3>1. n \in Nat
      BY RingNumbers
    <3> QED BY <3>1, SlotOf
  <2>2. buf[b].items \in [Slots -> Nat] /\ Sound(b)
    BY <1>2, SoundFacts
  <2>3. CASE n = m
    BY <1>4, <1>5, <2>2, <2>3 DEF t
  <2>4. CASE n # m
    <3>1. Freed(b) <= n /\ n < Posted(b)
      BY <1>2, <1>3, <1>4, <1>6, <2>1, <2>4, RingCounts
    <3>2. n % NumItems # t
      BY <1>2, <1>3, <3>1, SlotsApart DEF t
    <3>3. buf[b].items[n % NumItems] = Value(b, n)
      BY <1>3, <2>2, <3>1 DEF Sound
    <3> QED BY <1>4, <1>5, <2>1, <2>2, <3>2, <3>3
  <2> QED BY <2>3, <2>4
<1>7. Content(b)'
  <2>1. Sound(b)
    BY <1>2, SoundFacts
  <2>2. Sound(b)'
    BY <1>1, <1>2, <1>5, <1>6, <2>1 DEF Sound
  <2> QED BY <1>1, <1>2, <2>2 DEF Content
<1> QED BY <1>1, <1>2, <1>5, <1>7, RingFacts, RingRest

\* A value is read: the oldest one that was not read yet.
LEMMA RingReads ==
  ASSUME RingInv, NEW b \in Bufs, Read(b)
  PROVE  RingInv'
<1> DEFINE g == Getter(b)
           m == i[g]
           e == buf[b].items[m % NumItems]
<1>1. /\ made' = made /\ buf' = buf /\ i' = i /\ pc[Getter(b)] = "read"
      /\ Go(Getter(b), "read", "get_unlock")
      /\ got' = [got EXCEPT ![g] = Append(got[g], e)]
  BY DEF Read, Go
<1>2. /\ RingPlaces' /\ pc' \in [Procs -> Steps] /\ made[b] = "constructed"
      /\ Freed(b) = m /\ Freed(b)' = Freed(b)
      /\ Posted(b)' = Posted(b) /\ Taken(b)' = Taken(b) /\ Written(b)' = Written(b)
      /\ Claimed(b)' = Claimed(b) /\ Gotten(b)' = Gotten(b) + 1 /\ Locked(b)' = Locked(b)
      /\ \A c \in Bufs : c # b => SameCounts(c)
  BY <1>1, GetMoves
<1>3. Sound(b) /\ buf[b].nstored \in 0..NumItems /\ buf[b].nstored = Posted(b) - Claimed(b)
  BY <1>2, SoundFacts
<1>4. Claimed(b) = Freed(b) + 1 /\ Gotten(b) = Freed(b) /\ Freed(b) \in Nat
  <2>1. Freed(b) \in Nat
    BY RingCounts
  <2> QED BY <1>1, <2>1 DEF Claimed, Gotten, Getting, One
<1>5. m \in 0..NumMsg - 1 /\ g \in Procs /\ m < Written(b)
  <2>1. m \in 0..NumMsg - 1 /\ g \in Procs
    BY RingFacts, RingNumbers
  <2> QED BY <1>2, <1>3, <1>4, <2>1, RingCounts
<1>6. e = Value(b, m) /\ e \in Nat
  <2>1. m \in Nat
    BY <1>2, <1>4
  <2>2. e = Value(b, m)
    BY <1>2, <1>3, <1>5, <2>1 DEF Sound
  <2> QED BY <1>5, <2>2, RingNumbers
<1> HIDE DEF e, m
<1>7. got[g] \in Seq(Nat) /\ Len(got[g]) = Freed(b)
  BY <1>3, <1>4, <1>5, RingFacts DEF Sound
<1>8. /\ got'[g] = Append(got[g], e) /\ got' \in [Procs -> Seq(Nat)]
      /\ \A p \in Procs : p # g => got'[p] = got[p]
  <2>1. Append(got[g], e) \in Seq(Nat)
    BY <1>6, <1>7, AppendIs
  <2> QED BY <1>1, <1>5, <2>1, RingFacts
<1>9. Len(got'[g]) = Gotten(b)' /\ \A n \in 1..Gotten(b)' : got'[g][n] = Value(b, n - 1)
  <2>1. /\ Len(Append(got[g], e)) = Freed(b) + 1
        /\ Append(got[g], e)[Freed(b) + 1] = e
        /\ \A n \in 1..Freed(b) : Append(got[g], e)[n] = got[g][n]
    BY <1>6, <1>7, AppendIs
  <2>2. \A n \in 1..Freed(b) : got[g][n] = Value(b, n - 1)
    BY <1>3, <1>4 DEF Sound
  <2>3. Gotten(b)' = Freed(b) + 1
    BY <1>2, <1>4
  <2>4. ASSUME NEW n \in 1..Freed(b) + 1
        PROVE  got'[g][n] = Value(b, n - 1)
    <3>1. CASE n = Freed(b) + 1
      <4>1. n - 1 = m
        BY <1>2, <1>4, <3>1
      <4> QED BY <1>6, <1>8, <2>1, <3>1, <4>1
    <3>2. CASE n # Freed(b) + 1
      <4>1. n \in 1..Freed(b)
        BY <1>4, <3>2
      <4> QED BY <1>8, <2>1, <2>2, <4>1
    <3> QED BY <3>1, <3>2
  <2> QED BY <1>8, <2>1, <2>3, <2>4
<1>10. Content(b)'
  <2>1. Sound(b)'
    BY <1>1, <1>2, <1>3, <1>9 DEF Sound
  <2> QED BY <1>1, <1>2, <2>1 DEF Content
<1>11. \A c \in Bufs : c # b => got'[Getter(c)] = got[Getter(c)]
  BY <1>8, RingNumbers
<1> QED BY <1>1, <1>2, <1>8, <1>10, <1>11, RingFacts, RingRest

\* The last call of the loop of who puts: the count goes up, and after the last
\* value the program is at its other loop, or done.
LEMMA PutEnds ==
  ASSUME RingInv, NEW b \in Bufs, made' = made, pc[Putter(b)] = "post_nstored",
         Step(Putter(b), "nempty", "nstored", "w"),
         b = "data" /\ i["w"] + 1 = NumMsg => Freed("data") > 0
  PROVE  /\ RingPlaces' /\ pc' \in [Procs -> Steps] /\ i' \in [Procs -> 0..NumMsg - 1]
         /\ made[b] = "constructed"
         /\ Posted(b)' = Posted(b) + 1 /\ Taken(b)' = Taken(b) /\ Written(b)' = Written(b)
         /\ Freed(b)' = Freed(b) /\ Claimed(b)' = Claimed(b) /\ Gotten(b)' = Gotten(b)
         /\ Locked(b)' = Locked(b)
         /\ \A c \in Bufs : c # b => SameCounts(c)
<1> USE RingNumbers
<1>1. /\ pc \in [Procs -> Steps] /\ i \in [Procs -> 0..NumMsg - 1] /\ b \in {"data", "vic"}
      /\ NumMsg \in Nat
  BY RingFacts
<1>2. Putter(b) \in Procs
  OBVIOUS
<1>3. i[Putter(b)] \in 0..NumMsg - 1 /\ i[Putter(b)] \in Nat
  BY <1>1, <1>2
<1>4. \/ /\ i[Putter(b)] + 1 < NumMsg /\ i' = [i EXCEPT ![Putter(b)] = i[Putter(b)] + 1]
         /\ pc' = [pc EXCEPT ![Putter(b)] = "nempty"]
      \/ /\ i[Putter(b)] + 1 = NumMsg /\ i' = [i EXCEPT ![Putter(b)] = 0]
         /\ pc' = [pc EXCEPT ![Putter(b)] = IF Putter(b) = "w" THEN "nstored" ELSE "done"]
  BY <1>1, <1>3 DEF Step
<1>5. pc' \in [Procs -> Steps] /\ i' \in [Procs -> 0..NumMsg - 1]
  BY <1>1, <1>3, <1>4 DEF Steps
<1>6. CASE b = "data"
  <2>1. /\ pc["w"] = "post_nstored" /\ pc'["r"] = pc["r"] /\ i'["r"] = i["r"]
        /\ \/ /\ i'["w"] = i["w"] + 1 /\ pc'["w"] = "nempty"
           \/ /\ i["w"] + 1 = NumMsg /\ i'["w"] = 0 /\ pc'["w"] = "nstored" /\ Freed("data") > 0
    BY <1>1, <1>4, <1>6
  <2>2. Freed("data") > 0 => pc["r"] \notin {"start", "open"}
    BY DEF Freed, GetOver, Getting, Putting
  <2>3. RingPlaces'
    BY <1>1, <1>6, <2>1, <2>2 DEF RingInv, RingPlaces, Putting, Getting
  <2> QED BY <1>1, <1>3, <1>5, <1>6, <2>1, <2>3 DEF RingInv, RingPlaces, Posted, Freed, Taken,
        Written, Claimed, Gotten, Locked, SameCounts, PutOver, GetOver, Putting, Getting, One
<1>7. CASE b = "vic"
  <2>1. /\ pc["r"] = "post_nstored" /\ pc'["w"] = pc["w"] /\ i'["w"] = i["w"]
        /\ \/ /\ i'["r"] = i["r"] + 1 /\ pc'["r"] = "nempty"
           \/ /\ i["r"] + 1 = NumMsg /\ i'["r"] = 0 /\ pc'["r"] = "done"
    BY <1>1, <1>4, <1>7
  <2>2. RingPlaces'
    BY <1>1, <1>7, <2>1 DEF RingInv, RingPlaces, Putting, Getting
  <2> QED BY <1>1, <1>3, <1>5, <1>7, <2>1, <2>2 DEF RingInv, RingPlaces, Posted, Freed, Taken,
        Written, Claimed, Gotten, Locked, SameCounts, PutOver, GetOver, Putting, Getting, One
<1> QED BY <1>1, <1>6, <1>7

\* ... and of who gets.
LEMMA GetEnds ==
  ASSUME RingInv, NEW b \in Bufs, made' = made, pc[Getter(b)] = "post_nempty",
         Step(Getter(b), "nstored", "nempty", "r")
  PROVE  /\ RingPlaces' /\ pc' \in [Procs -> Steps] /\ i' \in [Procs -> 0..NumMsg - 1]
         /\ made[b] = "constructed"
         /\ Freed(b)' = Freed(b) + 1 /\ Claimed(b)' = Claimed(b) /\ Gotten(b)' = Gotten(b)
         /\ Posted(b)' = Posted(b) /\ Taken(b)' = Taken(b) /\ Written(b)' = Written(b)
         /\ Locked(b)' = Locked(b)
         /\ \A c \in Bufs : c # b => SameCounts(c)
<1> USE RingNumbers
<1>1. /\ pc \in [Procs -> Steps] /\ i \in [Procs -> 0..NumMsg - 1] /\ b \in {"data", "vic"}
      /\ NumMsg \in Nat
  BY RingFacts
<1>2. Getter(b) \in Procs
  OBVIOUS
<1>3. i[Getter(b)] \in 0..NumMsg - 1 /\ i[Getter(b)] \in Nat
  BY <1>1, <1>2
<1>4. \/ /\ i[Getter(b)] + 1 < NumMsg /\ i' = [i EXCEPT ![Getter(b)] = i[Getter(b)] + 1]
         /\ pc' = [pc EXCEPT ![Getter(b)] = "nstored"]
      \/ /\ i[Getter(b)] + 1 = NumMsg /\ i' = [i EXCEPT ![Getter(b)] = 0]
         /\ pc' = [pc EXCEPT ![Getter(b)] = IF Getter(b) = "r" THEN "nempty" ELSE "done"]
  BY <1>1, <1>3 DEF Step
<1>5. pc' \in [Procs -> Steps] /\ i' \in [Procs -> 0..NumMsg - 1]
  BY <1>1, <1>3, <1>4 DEF Steps
<1>6. CASE b = "data"
  <2>1. /\ pc["r"] = "post_nempty" /\ pc'["w"] = pc["w"] /\ i'["w"] = i["w"]
        /\ \/ /\ i'["r"] = i["r"] + 1 /\ pc'["r"] = "nstored"
           \/ /\ i["r"] + 1 = NumMsg /\ i'["r"] = 0 /\ pc'["r"] = "nempty"
    BY <1>1, <1>4, <1>6
  <2>2. RingPlaces'
    BY <1>1, <1>6, <2>1 DEF RingInv, RingPlaces, Putting, Getting
  <2> QED BY <1>1, <1>3, <1>5, <1>6, <2>1, <2>2 DEF RingInv, RingPlaces, Posted, Freed, Taken,
        Written, Claimed, Gotten, Locked, SameCounts, PutOver, GetOver, Putting, Getting, One
<1>7. CASE b = "vic"
  <2>1. /\ pc["w"] = "post_nempty" /\ pc'["r"] = pc["r"] /\ i'["r"] = i["r"]
        /\ \/ /\ i'["w"] = i["w"] + 1 /\ pc'["w"] = "nstored"
           \/ /\ i["w"] + 1 = NumMsg /\ i'["w"] = 0 /\ pc'["w"] = "done"
    BY <1>1, <1>4, <1>7
  <2>2. RingPlaces'
    BY <1>1, <1>7, <2>1 DEF RingInv, RingPlaces, Putting, Getting
  <2> QED BY <1>1, <1>3, <1>5, <1>7, <2>1, <2>2 DEF RingInv, RingPlaces, Posted, Freed, Taken,
        Written, Claimed, Gotten, Locked, SameCounts, PutOver, GetOver, Putting, Getting, One
<1> QED BY <1>1, <1>6, <1>7

\* When a program has posted all values but the last one, the other one has
\* given back a slot: there are fewer slots than values.
LEMMA FirstGivenBack ==
  ASSUME RingInv, NEW b \in Bufs, PostNstored(b)
  PROVE  /\ made[b] = "constructed" /\ Posted(b) = i[Putter(b)] /\ Taken(b) = Posted(b) + 1
         /\ Posted(b) \in Nat
         /\ b = "data" /\ i["w"] + 1 = NumMsg => Freed("data") > 0
<1>1. pc[Putter(b)] = "post_nstored"
  BY DEF PostNstored
<1>2. made[b] = "constructed"
  BY <1>1, RingNumbers DEF RingInv, RingPlaces, Putting, Getting
<1>3. Posted(b) = i[Putter(b)] /\ Posted(b) \in Nat
  BY <1>1, RingCounts DEF Posted, Putting
<1>4. Taken(b) = Posted(b) + 1
  BY <1>1, <1>3 DEF Taken, Putting, One
<1>5. b = "data" /\ i["w"] + 1 = NumMsg => Freed("data") > 0
  BY <1>2, <1>3, <1>4, SoundFacts, RingCounts, RingNumbers
<1> QED BY <1>2, <1>3, <1>4, <1>5

\* What is posted is not more than there are slots.
LEMMA RingPosts ==
  ASSUME RingInv, NEW b \in Bufs, PostNstored(b) \/ PostNempty(b)
  PROVE  RingInv'
<1>1. made' = made /\ got' = got
  BY DEF PostNstored, PostNempty, Post
<1>2. CASE PostNstored(b)
  <2>1. /\ pc[Putter(b)] = "post_nstored" /\ Step(Putter(b), "nempty", "nstored", "w")
        /\ buf' = [buf EXCEPT ![b]["nstored"] = buf[b].nstored + 1]
    BY <1>2 DEF PostNstored, Post
  <2>2. /\ made[b] = "constructed" /\ Posted(b) = i[Putter(b)] /\ Taken(b) = Posted(b) + 1
        /\ Posted(b) \in Nat
        /\ b = "data" /\ i["w"] + 1 = NumMsg => Freed("data") > 0
    BY <1>2, FirstGivenBack
  <2>4. /\ RingPlaces' /\ pc' \in [Procs -> Steps] /\ i' \in [Procs -> 0..NumMsg - 1]
        /\ Posted(b)' = Posted(b) + 1 /\ Taken(b)' = Taken(b) /\ Written(b)' = Written(b)
        /\ Freed(b)' = Freed(b) /\ Claimed(b)' = Claimed(b) /\ Gotten(b)' = Gotten(b)
        /\ Locked(b)' = Locked(b)
        /\ \A c \in Bufs : c # b => SameCounts(c)
    BY <1>1, <2>1, <2>2, PutEnds
  <2>5. buf[b].nstored + 1 \in 0..NumItems
    BY <2>2, SoundFacts, RingCounts, RingNumbers
  <2>6. /\ buf'[b].nstored = buf[b].nstored + 1
        /\ buf'[b].mutex = buf[b].mutex /\ buf'[b].nempty = buf[b].nempty /\ buf'[b].items = buf[b].items
        /\ \A c \in Bufs : c # b => buf'[c] = buf[c]
        /\ buf' \in [Bufs -> Semaphores]
    BY <2>1, <2>5, NstoredMoves
  <2>7. Content(b)'
    BY <1>1, <2>2, <2>4, <2>6, SoundFacts, SoundStays, RingCounts, RingNumbers
  <2> QED BY <1>1, <2>4, <2>6, <2>7, RingFacts, RingRest
<1>3. CASE PostNempty(b)
  <2>1. /\ pc[Getter(b)] = "post_nempty" /\ Step(Getter(b), "nstored", "nempty", "r")
        /\ buf' = [buf EXCEPT ![b]["nempty"] = buf[b].nempty + 1]
    BY <1>3 DEF PostNempty, Post
  <2>2. /\ RingPlaces' /\ pc' \in [Procs -> Steps] /\ i' \in [Procs -> 0..NumMsg - 1]
        /\ made[b] = "constructed"
        /\ Freed(b)' = Freed(b) + 1 /\ Claimed(b)' = Claimed(b) /\ Gotten(b)' = Gotten(b)
        /\ Posted(b)' = Posted(b) /\ Taken(b)' = Taken(b) /\ Written(b)' = Written(b)
        /\ Locked(b)' = Locked(b)
        /\ \A c \in Bufs : c # b => SameCounts(c)
    BY <1>1, <2>1, GetEnds
  <2>3. Claimed(b) = Freed(b) + 1 /\ Freed(b) \in Nat
    BY <2>1, RingCounts DEF Claimed, Getting, One
  <2>4. buf[b].nempty + 1 \in 0..NumItems
    BY <2>2, <2>3, SoundFacts, RingCounts, RingNumbers
  <2>5. /\ buf'[b].nempty = buf[b].nempty + 1
        /\ buf'[b].mutex = buf[b].mutex /\ buf'[b].nstored = buf[b].nstored /\ buf'[b].items = buf[b].items
        /\ \A c \in Bufs : c # b => buf'[c] = buf[c]
        /\ buf' \in [Bufs -> Semaphores]
    BY <2>1, <2>4, NemptyMoves
  <2>6. Content(b)'
    BY <1>1, <2>2, <2>3, <2>5, SoundFacts, SoundStays, RingCounts, RingNumbers
  <2> QED BY <1>1, <2>2, <2>5, <2>6, RingFacts, RingRest
<1> QED BY <1>2, <1>3

\* A buffer that has just been constructed.
LEMMA Fresh ==
  ASSUME NEW b \in Bufs, buf'[b] = Constructed(Zeros), got'[Getter(b)] = <<>>,
         Posted(b)' = 0, Taken(b)' = 0, Written(b)' = 0, Freed(b)' = 0, Claimed(b)' = 0,
         Gotten(b)' = 0, Locked(b)' = 0
  PROVE  Content(b)' \/ made'[b] # "constructed"
<1>1. /\ buf'[b].mutex = 1 /\ buf'[b].nempty = NumItems /\ buf'[b].nstored = 0
  BY DEF Constructed, Zeros, NEmpty
<1>2. Len(<<>>) = 0 /\ NumItems \in Nat /\ 1..0 = {}
  BY RingNumbers
<1>3. ASSUME NEW n \in 0..NumMsg - 1
      PROVE  ~(0 <= n /\ n < 0)
  BY RingNumbers
<1>4. Sound(b)'
  BY <1>1, <1>2, <1>3 DEF Sound
<1> QED BY <1>4 DEF Content

\* A buffer of zeros, and one that its constructor has run over, are buffers.
LEMMA ZerosTyped ==
  /\ Zeros \in Semaphores /\ Constructed(Zeros) \in Semaphores
<1>1. 0 \in 0..1 /\ 1 \in 0..1 /\ 0 \in 0..NumItems /\ NumItems \in 0..NumItems
  BY RingNumbers
<1>2. [s \in Slots |-> 0] \in [Slots -> Nat]
  OBVIOUS
<1>3. Zeros \in Semaphores
  BY <1>1, <1>2 DEF Zeros, Semaphores
<1> QED BY <1>1, <1>3 DEF Constructed, NEmpty, Semaphores

\* Before their loops.
NotYet == {"start", "data", "create", "open"}

\* While a program is not in its loops, its counts are 0; so they are where it
\* enters the first one.
LEMMA BeforeLoops ==
  ASSUME NEW p \in Procs, RingInv, NEW to \in Steps, pc[p] \in NotYet,
         pc' = [pc EXCEPT ![p] = to], i' = i,
         to \in NotYet \/ (p = "w" /\ to = "nempty") \/ (p = "r" /\ to = "nstored")
  PROVE  /\ pc' \in [Procs -> Steps] /\ \A c \in Bufs : SameCounts(c)
         /\ p = "w" => /\ Posted("data") = 0 /\ Taken("data") = 0 /\ Written("data") = 0
         /\ p = "r" => /\ Posted("vic") = 0 /\ Taken("vic") = 0 /\ Written("vic") = 0
                       /\ Freed("data") = 0 /\ Claimed("data") = 0 /\ Gotten("data") = 0
         /\ p = "w" => Freed("vic") = 0 /\ Claimed("vic") = 0 /\ Gotten("vic") = 0
<1> USE RingNumbers
<1>1. pc \in [Procs -> Steps] /\ i[p] = 0
  BY RingFacts DEF RingInv, RingPlaces, NotYet, Putting, Getting
<1>2. CASE p = "w"
  <2>1. pc'["w"] = to /\ pc'["r"] = pc["r"]
    BY <1>1, <1>2
  <2>2. SameCounts("data")
    BY <1>1, <1>2, <2>1 DEF Posted, Freed, Taken, Written, Claimed, Gotten, Locked, SameCounts,
      PutOver, GetOver, Putting, Getting, One, NotYet
  <2>3. SameCounts("vic")
    BY <1>1, <1>2, <2>1 DEF Posted, Freed, Taken, Written, Claimed, Gotten, Locked, SameCounts,
      PutOver, GetOver, Putting, Getting, One, NotYet
  <2>4. /\ Posted("data") = 0 /\ Taken("data") = 0 /\ Written("data") = 0
        /\ Freed("vic") = 0 /\ Claimed("vic") = 0 /\ Gotten("vic") = 0
    BY <1>1, <1>2 DEF Posted, Taken, Written, Freed, Claimed, Gotten, PutOver, GetOver, Putting,
      Getting, One, NotYet
  <2> QED BY <1>1, <1>2, <2>2, <2>3, <2>4
<1>3. CASE p = "r"
  <2>1. pc'["r"] = to /\ pc'["w"] = pc["w"]
    BY <1>1, <1>3
  <2>2. SameCounts("data")
    BY <1>1, <1>3, <2>1 DEF Posted, Freed, Taken, Written, Claimed, Gotten, Locked, SameCounts,
      PutOver, GetOver, Putting, Getting, One, NotYet
  <2>3. SameCounts("vic")
    BY <1>1, <1>3, <2>1 DEF Posted, Freed, Taken, Written, Claimed, Gotten, Locked, SameCounts,
      PutOver, GetOver, Putting, Getting, One, NotYet
  <2>4. /\ Posted("vic") = 0 /\ Taken("vic") = 0 /\ Written("vic") = 0
        /\ Freed("data") = 0 /\ Claimed("data") = 0 /\ Gotten("data") = 0
    BY <1>1, <1>3 DEF Posted, Taken, Written, Freed, Claimed, Gotten, PutOver, GetOver, Putting,
      Getting, One, NotYet
  <2> QED BY <1>1, <1>3, <2>2, <2>3, <2>4
<1> QED BY <1>2, <1>3

\* Making the objects (w.cpp:32-62).
LEMMA RingStarts ==
  ASSUME RingInv, MakeData \/ CreateVic \/ TruncateVic
  PROVE  RingInv'
<1>1. /\ got' = got /\ i' = i /\ "w" \in Procs /\ pc \in [Procs -> Steps]
      /\ made \in [Bufs -> Stages] /\ buf \in [Bufs -> Semaphores]
      /\ "data" \in Bufs /\ "vic" \in Bufs
      /\ got \in [Procs -> Seq(Nat)] /\ i \in [Procs -> 0..NumMsg - 1]
  BY RingFacts, RingNumbers DEF MakeData, CreateVic, TruncateVic
<1>2. pc["w"] \in {"start", "data", "create"} /\ pc["r"] = "start"
  BY DEF MakeData, CreateVic, TruncateVic, Go, RingInv, RingPlaces
<1>3. CASE MakeData
  <2>1. /\ pc["w"] = "start" /\ pc' = [pc EXCEPT !["w"] = "data"]
        /\ buf' = [buf EXCEPT !["data"] = Constructed(Zeros)]
        /\ made' = [made EXCEPT !["data"] = "constructed"]
    BY <1>3 DEF MakeData, Go
  <2>2. /\ buf'["data"] = Constructed(Zeros) /\ buf'["vic"] = buf["vic"]
        /\ made'["data"] = "constructed" /\ made'["vic"] = made["vic"]
        /\ buf' \in [Bufs -> Semaphores] /\ made' \in [Bufs -> Stages]
        /\ pc'["w"] = "data" /\ pc'["r"] = pc["r"]
    BY <1>1, <2>1, ZerosTyped, RingNumbers DEF Stages
  <2>3. /\ pc' \in [Procs -> Steps] /\ \A c \in Bufs : SameCounts(c)
        /\ Posted("data") = 0 /\ Taken("data") = 0 /\ Written("data") = 0
    BY <1>1, <2>1, BeforeLoops DEF NotYet, Steps
  <2>4. Freed("data") = 0 /\ Claimed("data") = 0 /\ Gotten("data") = 0 /\ Locked("data") = 0
    BY <1>2, <2>1, RingNumbers DEF Freed, Claimed, Gotten, Locked, GetOver, Getting, Putting, One
  <2>5. got[Getter("data")] = <<>>
    <3>1. made["data"] # "constructed" /\ Content("data")
      BY <1>1, <2>1 DEF RingInv, RingPlaces
    <3> QED BY <3>1 DEF Content
  <2>6. SameCounts("data")
    BY <1>1, <2>3
  <2>7. Content("data")'
    BY <1>1, <2>2, <2>3, <2>4, <2>5, <2>6, Fresh DEF SameCounts
  <2>8. RingPlaces'
    BY <1>1, <1>2, <2>1, <2>2, RingNumbers DEF RingInv, RingPlaces, Putting, Getting
  <2> QED BY <1>1, <2>2, <2>3, <2>7, <2>8, RingRest, RingNumbers
<1>4. CASE CreateVic \/ TruncateVic
  <2>1. PICK to \in {"create", "nempty"}, s \in {"created", "sized"} :
          /\ pc' = [pc EXCEPT !["w"] = to] /\ made' = [made EXCEPT !["vic"] = s]
          /\ buf' = buf /\ (to = "create" => s = "created")
    BY <1>4 DEF CreateVic, TruncateVic, Go
  <2>2. /\ made'["data"] = made["data"] /\ made'["vic"] = s
        /\ made' \in [Bufs -> Stages]
        /\ pc'["w"] = to /\ pc'["r"] = pc["r"] /\ pc["w"] # "start"
    BY <1>1, <1>4, <2>1, RingNumbers DEF Stages, CreateVic, TruncateVic, Go
  <2>3. pc' \in [Procs -> Steps] /\ \A c \in Bufs : SameCounts(c)
    BY <1>1, <1>2, <2>1, BeforeLoops DEF NotYet, Steps
  <2>4. RingPlaces'
    BY <1>1, <1>2, <2>1, <2>2, RingNumbers DEF RingInv, RingPlaces, Putting, Getting
  <2>5. Content("vic")'
    <3>1. made["vic"] # "constructed" /\ Content("vic")
      BY <1>1, <1>2 DEF RingInv, RingPlaces
    <3> QED BY <1>1, <2>1, <2>2, <3>1 DEF Content
  <2> QED BY <1>1, <2>1, <2>2, <2>3, <2>4, <2>5, RingRest, RingNumbers
<1> QED BY <1>3, <1>4

\* Opening and constructing the second one (r.cpp:36-58).
LEMMA RingOpens ==
  ASSUME RingInv, OpenVic \/ ConstructVic
  PROVE  RingInv'
<1>1. /\ got' = got /\ i' = i /\ "r" \in Procs /\ pc \in [Procs -> Steps]
      /\ made \in [Bufs -> Stages] /\ buf \in [Bufs -> Semaphores]
      /\ "data" \in Bufs /\ "vic" \in Bufs
      /\ got \in [Procs -> Seq(Nat)] /\ i \in [Procs -> 0..NumMsg - 1]
  BY RingFacts, RingNumbers DEF OpenVic, ConstructVic
<1>2. /\ pc["r"] \in {"start", "open"} /\ made["vic"] # "constructed"
      /\ pc["w"] \notin Getting \cup {"done"}
      /\ buf["vic"] = Zeros /\ got[Getter("vic")] = <<>>
  <2>1. pc["r"] \in {"start", "open"} /\ made["vic"] # "constructed"
    BY DEF OpenVic, ConstructVic, Go, RingInv, RingPlaces
  <2>2. Content("vic")
    BY <1>1 DEF RingInv
  <2> QED BY <2>1, <2>2 DEF Content, RingInv, RingPlaces
<1>3. CASE OpenVic
  <2>1. /\ pc["r"] = "start" /\ pc' = [pc EXCEPT !["r"] = "open"]
        /\ buf' = buf /\ made' = made /\ made["vic"] \in {"sized", "constructed"}
    BY <1>3 DEF OpenVic, Go
  <2>2. pc'["r"] = "open" /\ pc'["w"] = pc["w"]
    BY <1>1, <2>1, RingNumbers
  <2>3. pc' \in [Procs -> Steps] /\ \A c \in Bufs : SameCounts(c)
    BY <1>1, <2>1, BeforeLoops DEF NotYet, Steps
  <2>4. RingPlaces'
    BY <1>1, <1>2, <2>1, <2>2, RingNumbers DEF RingInv, RingPlaces, Putting, Getting
  <2>5. Content("vic")'
    BY <1>1, <1>2, <2>1 DEF Content
  <2> QED BY <1>1, <2>1, <2>2, <2>3, <2>4, <2>5, RingRest, RingNumbers
<1>4. CASE ConstructVic
  <2>1. /\ pc["r"] = "open" /\ pc' = [pc EXCEPT !["r"] = "nstored"]
        /\ buf' = [buf EXCEPT !["vic"] = Constructed(buf["vic"])]
        /\ made' = [made EXCEPT !["vic"] = "constructed"]
    BY <1>4 DEF ConstructVic, Go
  <2>2. /\ buf'["vic"] = Constructed(Zeros) /\ buf'["data"] = buf["data"]
        /\ made'["vic"] = "constructed" /\ made'["data"] = made["data"]
        /\ buf' \in [Bufs -> Semaphores] /\ made' \in [Bufs -> Stages]
        /\ pc'["r"] = "nstored" /\ pc'["w"] = pc["w"]
    BY <1>1, <1>2, <2>1, ZerosTyped, RingNumbers DEF Stages
  <2>3. /\ pc' \in [Procs -> Steps] /\ \A c \in Bufs : SameCounts(c)
        /\ Posted("vic") = 0 /\ Taken("vic") = 0 /\ Written("vic") = 0
    BY <1>1, <2>1, BeforeLoops DEF NotYet, Steps
  <2>4. Freed("vic") = 0 /\ Claimed("vic") = 0 /\ Gotten("vic") = 0 /\ Locked("vic") = 0
    BY <1>2, <2>1, RingNumbers DEF Freed, Claimed, Gotten, Locked, GetOver, Getting, Putting, One
  <2>5. SameCounts("vic")
    BY <1>1, <2>3
  <2>6. Content("vic")'
    BY <1>1, <1>2, <2>2, <2>3, <2>4, <2>5, Fresh DEF SameCounts
  <2>7. RingPlaces'
    BY <1>1, <1>2, <2>1, <2>2, RingNumbers DEF RingInv, RingPlaces, Putting, Getting
  <2> QED BY <1>1, <2>2, <2>3, <2>6, <2>7, RingRest, RingNumbers
<1> QED BY <1>3, <1>4

\* Nothing changes.
LEMMA RingSame ==
  ASSUME RingInv, UNCHANGED vars
  PROVE  RingInv'
<1>1. UNCHANGED <<pc, i, buf, made, got>>
  BY DEF vars
<1>2. \A b \in Bufs : SameCounts(b)
  BY <1>1 DEF SameCounts, Posted, Freed, Taken, Written, Claimed, Gotten, Locked, PutOver, GetOver
<1>3. \A b \in Bufs : Content(b)'
  BY <1>1, <1>2, BufferStays
<1> QED BY <1>1, <1>3 DEF RingInv, TypeOK, RingPlaces

\* Both programs keep what RingInv says.
LEMMA RingStep ==
  ASSUME RingInv, Next
  PROVE  RingInv'
<1>1. CASE Terminated
  BY <1>1, RingSame DEF Terminated
<1>2. ASSUME NEW b \in Bufs, Put(b) \/ Get(b)
      PROVE  RingInv'
  BY <1>2, PutWaits, GetWaits, RingWrites, RingReads, RingPosts DEF Put, Get
<1>3. CASE W \/ R
  BY <1>2, <1>3, RingStarts, RingOpens, RingNumbers DEF W, R
<1> QED BY <1>1, <1>3 DEF Next

\* What was got is what was put, in order, and from a constructed buffer
\* (sema/w.cpp:99, r.cpp:52-76).
LEMMA RingGives ==
  ASSUME RingInv
  PROVE  TypeOK /\ InOrder /\ ConstructedBeforeUse
<1>1. ASSUME NEW b \in Bufs
      PROVE  LET s == got[Getter(b)]
             IN  Len(s) <= NumMsg /\ \A n \in 1..Len(s) : s[n] = Value(b, n - 1)
  <2>1. CASE made[b] = "constructed"
    <3>1. /\ Len(got[Getter(b)]) = Gotten(b)
          /\ \A n \in 1..Gotten(b) : got[Getter(b)][n] = Value(b, n - 1)
          /\ buf[b].nstored \in 0..NumItems /\ buf[b].nstored = Posted(b) - Claimed(b)
      BY <2>1, SoundFacts DEF Sound
    <3>2. Gotten(b) <= NumMsg
      <4>1. Posted(b) \in Nat /\ Posted(b) <= NumMsg /\ NumMsg \in Nat
        BY RingCounts, RingNumbers
      <4>2. Gotten(b) <= Claimed(b) /\ Gotten(b) \in Nat /\ Claimed(b) \in Nat
        BY RingCounts
      <4>3. buf[b].nstored >= 0 /\ buf[b].nstored \in Int
        BY <3>1, RingNumbers
      <4> QED BY <3>1, <4>1, <4>2, <4>3
    <3> QED BY <3>1, <3>2
  <2>2. CASE made[b] # "constructed"
    <3>1. got[Getter(b)] = <<>>
      BY <2>2 DEF RingInv, Content
    <3> QED BY <3>1, RingNumbers
  <2> QED BY <2>1, <2>2
<1>2. ConstructedBeforeUse
  BY DEF RingInv, RingPlaces, ConstructedBeforeUse, Getting, Putting
<1> QED BY <1>1, <1>2 DEF RingInv, InOrder

-----------------------------------------------------------------------------
(* The groups together.                                                    *)

\* Each group's invariant; a step of one group leaves those of the others alone.
SmallInv == RingInv /\ TraceInv /\ FifoInv /\ AttachInv

\* How each group begins.
LEMMA RingBegins ==
  ASSUME Init
  PROVE  RingInv
<1>1. TypeOK
  <2>1. Zeros \in Semaphores
    BY ZerosTyped
  <2>2. buf \in [Bufs -> Semaphores]
    BY <2>1 DEF Init
  <2>3. pc \in [Procs -> Steps] /\ i \in [Procs -> 0..NumMsg - 1]
        /\ made \in [Bufs -> Stages] /\ got \in [Procs -> Seq(Nat)]
    BY RingNumbers DEF Init, Steps, Stages
  <2> QED BY <2>2, <2>3 DEF TypeOK, Semaphores
<1>2. \A b \in Bufs : Content(b)
  BY RingNumbers DEF Init, Content
<1>3. RingPlaces
  BY RingNumbers DEF Init, RingPlaces, Putting, Getting
<1> QED BY <1>1, <1>2, <1>3 DEF RingInv

\* Both mucon programs start with nothing written and nothing printed.
LEMMA TraceBegins ==
  ASSUME Trace!Init
  PROVE  TraceInv
<1>1. /\ tpc["w"] = "lock" /\ tpc["r"] = "lock" /\ mutex = "nobody" /\ message_in = FALSE
      /\ items = -1 /\ line = 0 /\ printed = <<>> /\ spurious = 0
      /\ tpc \in [Trace!Procs -> {"lock"}]
  BY TraceNumbers DEF Trace!Init
<1>2. Seen = {} /\ ~Owed /\ Len(printed) = 0
  BY <1>1 DEF Seen, Owed
<1>3. Trace!TypeOK
  <2>1. tpc \in [Trace!Procs -> Trace!Places]
    BY <1>1 DEF Trace!Places
  <2>2. -1 \in -1..Trace!Last /\ 0 \in 0..Lines /\ 0 \in 0..MaxSpurious
    BY TraceNumbers
  <2>3. <<>> \in Seq(-1..Trace!Last)
    OBVIOUS
  <2> QED BY <1>1, <2>1, <2>2, <2>3 DEF Trace!TypeOK
<1>4. TraceControl
  BY <1>1, <1>2, TraceNumbers DEF TraceControl, Trace!OneInside, Trace!Inside
<1>5. Paid
  <2>1. Cardinality(Seen) = 0
    BY <1>2, FS_EmptySet
  <2>2. ~Early("w") /\ ~Early("r")
    BY <1>1 DEF Early
  <2> QED BY <1>1, <1>2, <2>1, <2>2 DEF Paid, Repeats, Overwritten, One
<1> QED BY <1>2, <1>3, <1>4, <1>5 DEF TraceInv

\* Both chat programs start switched off, before an empty FIFO.
LEMMA FifoBegins ==
  ASSUME Fifo!Init
  PROVE  FifoInv
<1>1. /\ place["read_write"] = "off" /\ place["write_read"] = "off" /\ pipe = <<>>
      /\ \A u \in Fifo!Users : shown[u] = "nobody" /\ unheard[u] = 0
  BY DEF Fifo!Init, Fifo!Users
<1>2. Fifo!TypeOK
  <2>1. 0 \in 0..MaxChats
    BY FifoAssumption DEF Fifo!BoundsOK
  <2>2. pipe \in Seq(Fifo!Users)
    <3>1. <<>> \in Seq(Fifo!Users)
      OBVIOUS
    <3> QED BY <1>1, <3>1
  <2> QED BY <2>1, <2>2 DEF Fifo!Init, Fifo!TypeOK
<1>3. ASSUME NEW u \in Fifo!Users
      PROVE  Cardinality(Said(pipe, u)) <= unheard[u]
  <2>1. Said(pipe, u) = {}
    BY <1>1 DEF Said
  <2> QED BY <1>1, <2>1, FS_EmptySet
<1>4. Turn("read_write", "write_read")
  BY <1>1 DEF Turn
<1> QED BY <1>1, <1>2, <1>3, <1>4, OneLine DEF FifoInv

\* The launcher starts with empty lists, before its first container.
LEMMA AttachBegins ==
  ASSUME Attach!Init
  PROVE  AttachInv
<1>1. 1 \in Attach!Ids /\ 0 \in Starts /\ 0 \in 0..MaxByHand
  BY ClientNumbers, StartNumbers
<1>2. Attach!TypeOK
  <2>1. logmem = <<>> /\ glomem = <<>> /\ <<>> \in Seq(Attach!Segments)
    BY DEF Attach!Init
  <2>2. AttachTypes
    BY <1>1 DEF Attach!Init, AttachTypes
  <2> QED BY <2>1, <2>2, TypesOfAttach DEF Lists
<1>3. \A c \in Attach!Ids : LogAndState(c)
  BY DEF Attach!Init, LogAndState
<1> QED BY <1>2, <1>3 DEF Attach!Init, AttachInv, Attached, Attach!Attaching, Attach!ReadsPairs

\* Nothing changes in a group.
LEMMA FifoSame ==
  ASSUME FifoInv, UNCHANGED fifo
  PROVE  FifoInv'
BY DEF FifoInv, Fifo!TypeOK, Said, Turn, fifo

\* A step of another group leaves the launcher's invariant alone.
LEMMA AttachSame ==
  ASSUME AttachInv, UNCHANGED attach
  PROVE  AttachInv'
BY DEF AttachInv, Attach!TypeOK, LogAndState, Attached, Attach!Attaching, Attach!ReadsPairs,
       attach

\* A step is one of one group, and the others stay as they are.
LEMMA SmallStep ==
  ASSUME SmallInv, [SmallNext]_all_small
  PROVE  SmallInv'
<1>1. RingInv'
  <2>1. Next \/ UNCHANGED vars
    BY DEF SmallNext, RunsTrace, RunsFifo, RunsAttach, all_small
  <2> QED BY <2>1, RingStep, RingSame DEF SmallInv
<1>2. TraceInv'
  <2>1. Trace!Next \/ UNCHANGED trace
    BY DEF SmallNext, RunsRing, RunsFifo, RunsAttach, all_small
  <2> QED BY <2>1, TraceStep, TraceSame DEF SmallInv
<1>3. FifoInv'
  <2>1. Fifo!Next \/ UNCHANGED fifo
    BY DEF SmallNext, RunsRing, RunsTrace, RunsAttach, all_small
  <2> QED BY <2>1, FifoStep, FifoSame DEF SmallInv
<1>4. AttachInv'
  <2>1. Attach!Next \/ UNCHANGED attach
    BY DEF SmallNext, RunsRing, RunsTrace, RunsFifo, all_small
  <2> QED BY <2>1, AttachStep, AttachSame DEF SmallInv
<1> QED BY <1>1, <1>2, <1>3, <1>4 DEF SmallInv

\* The invariants of the four groups hold in every state of the run.
LEMMA SmallKept == SmallSpec => []SmallInv
<1>1. SmallInit => SmallInv
  BY RingBegins, TraceBegins, FifoBegins, AttachBegins DEF SmallInit, SmallInv
<1>2. SmallInv /\ [SmallNext]_all_small => SmallInv'
  BY SmallStep
<1> QED BY <1>1, <1>2, PTL DEF SmallSpec

\* Every variable of the four groups stays in its range; no semaphore of the
\* ring exceeds what it counts (sema/w.cpp:78-99).
THEOREM SmallTypeCorrect == SmallSpec => []SmallTypeOK
<1>1. SmallInv => SmallTypeOK
  BY DEF SmallInv, RingInv, TraceInv, FifoInv, AttachInv, SmallTypeOK
<1> QED BY <1>1, SmallKept, PTL

\* The boost programs hand over every value in order, none before the buffer is
\* constructed (sema/w.cpp:99, r.cpp:52-76), and every line once, but for one
\* for each wake-up that nobody asked for (mucon/w.cpp:74-86, r.cpp:65-73).
THEOREM ValuesHandedOver == SmallSpec => []HandedOver
<1>1. SmallInv => HandedOver
  BY RingGives, TraceGives DEF SmallInv, HandedOver
<1> QED BY <1>1, SmallKept, PTL

\* The users of the FIFO take turns as long as nobody is killed, and no line is
\* lost meanwhile (read_write.c:25-37, write_read.c:24-44).
THEOREM UsersTakeTurns == SmallSpec => []TakeTurns
<1>1. ASSUME FifoInv
      PROVE  Fifo!TakeTurns
  <2>1. SUFFICES ASSUME ~crash
                 PROVE  /\ unheard["read_write"] + unheard["write_read"] = Len(pipe)
                        /\ Len(pipe) <= 1
                        /\ \A u \in Fifo!Users : shown[u] \in {"nobody", Fifo!Partner(u)}
    BY DEF Fifo!TakeTurns
  <2>2. \/ pipe = <<>> \/ pipe = <<"read_write">> \/ pipe = <<"write_read">>
    BY <1>1, <2>1 DEF FifoInv, Turn
  <2>3. \A u \in Fifo!Users : /\ unheard[u] = IF pipe = <<u>> THEN 1 ELSE 0
                              /\ shown[u] \in {"nobody", Fifo!Partner(u)}
    BY <1>1, <2>1 DEF FifoInv
  <2>4. /\ unheard["read_write"] = IF pipe = <<"read_write">> THEN 1 ELSE 0
        /\ unheard["write_read"] = IF pipe = <<"write_read">> THEN 1 ELSE 0
    BY <2>3 DEF Fifo!Users
  <2>5. unheard["read_write"] + unheard["write_read"] = Len(pipe) /\ Len(pipe) <= 1
    <3>1. CASE pipe = <<>>
      BY <2>4, <3>1, OneLine
    <3>2. CASE pipe = <<"read_write">>
      BY <2>4, <3>2
    <3>3. CASE pipe = <<"write_read">>
      BY <2>4, <3>3
    <3> QED BY <2>2, <3>1, <3>2, <3>3
  <2> QED BY <2>3, <2>5
<1>2. SmallInv => TakeTurns
  BY <1>1 DEF SmallInv, TakeTurns
<1> QED BY <1>2, SmallKept, PTL

\* When the attach loop ends with no client having removed its log, it has
\* attached to every client before the first without a log
\* (opencl/monitor.py:66-73).
LEMMA EndOfTheLoop ==
  ASSUME AttachInv, Attach!Next \/ UNCHANGED attach,
         stage # "read", stage' = "read", ~upset', NEW c \in Attach!Ids
  PROVE  c <= Len(glomem') \/ \E d \in 1..c : log[d] = 0
<1>0. AttachTypes /\ Lists
  BY TypesOfAttach DEF AttachInv
<1>1. k \in Attach!Ids /\ k \in Nat \ {0} /\ c \in Nat \ {0}
  BY <1>0, ClientNumbers DEF AttachTypes
<1>2. Attach!AttachLog \/ Attach!AttachState
  <2>1. ~UNCHANGED stage
    OBVIOUS
  <2>2. ASSUME NEW d \in Attach!Ids
        PROVE  ~Attach!Client(d) /\ ~Attach!ByHand(d)
    <3>1. ~Attach!Client(d)
      BY <1>0, <2>1, ClientMoves
    <3>2. ~Attach!ByHand(d)
      BY <2>1 DEF Attach!ByHand, Attach!Begin, Attach!launcher
    <3> QED BY <3>1, <3>2
  <2>3. ~Attach!RunContainer /\ ~UNCHANGED attach
    BY <2>1 DEF Attach!RunContainer, Attach!Begin, Attach!launcher, attach
  <2>4. ~Attach!ContainerEnds /\ ~Attach!ContainerFails /\ ~Attach!Read
    BY DEF Attach!ContainerEnds, Attach!NextClient, Attach!ContainerFails, Attach!Read
  <2> QED BY <2>2, <2>3, <2>4 DEF Attach!Next, Attach!Launcher
<1>3. ~upset
  BY <1>2 DEF Attach!AttachLog, Attach!AttachState
<1>4. CASE Attach!AttachLog
  <2>1. log[k] = 0 /\ glomem' = glomem /\ stage = "attach log"
    BY <1>4 DEF Attach!AttachLog, Attach!Except
  <2>2. Len(glomem) = k - 1
    BY <1>3, <2>1 DEF AttachInv, Attached, Attach!Attaching
  <2>3. c <= k - 1 \/ k \in 1..c
    BY <1>1
  <2> QED BY <2>1, <2>2, <2>3
<1>5. CASE Attach!AttachState
  <2>1. stage = "attach state" /\ (state[k] # 0 => glomem' = Append(glomem, <<k, state[k]>>))
        /\ (state[k] # 0 => ~(k < LastId))
    BY <1>5 DEF Attach!AttachState
  <2>2. /\ Len(logmem) = k /\ Len(glomem) = k - 1
        /\ \A d \in Attach!Ids : d <= Len(logmem) => log[d] # 0
    BY <1>3, <2>1 DEF AttachInv, Attached, Attach!Attaching
  <2>3. state[k] # 0
    <3>1. log[k] # 0
      <4>1. k <= k
        BY <1>1
      <4> QED BY <1>1, <2>2, <4>1
    <3>2. LogAndState(k)
      BY <1>1 DEF AttachInv
    <3> QED BY <3>1, <3>2 DEF LogAndState
  <2>4. <<k, state[k]>> \in Attach!Segments
    BY <1>1, <2>3, SegmentsOf DEF AttachInv
  <2>5. Len(glomem') = Len(glomem) + 1
    <3>1. PICK e \in Attach!Segments : e = <<k, state[k]>>
      BY <2>4
    <3>2. glomem \in Seq(Attach!Segments) /\ glomem' = Append(glomem, e)
      BY <1>0, <2>1, <2>3, <3>1 DEF Lists
    <3>3. Len(Append(glomem, e)) = Len(glomem) + 1
      BY <3>2, AppendIs
    <3> QED BY <3>2, <3>3
  <2>6. k = LastId /\ c <= LastId
    BY <1>1, <2>1, <2>3, ClientNumbers
  <2>7. Len(glomem') = k
    BY <1>1, <2>2, <2>5
  <2> QED BY <2>6, <2>7
<1> QED BY <1>2, <1>4, <1>5

\* Whoever finds the log of a client finds the state of the same start
\* (heartbeat.py:26-33), and the launcher reads of the clients it has attached
\* to, each its own pair, and leaves out only those from the first client without
\* a log on (opencl/monitor.py:66-73).
THEOREM PairsAreRead == SmallSpec => ReadsPairs
<1>1. SmallInv => Attach!LogHasItsState /\ Attach!ReadsPairs
  BY DEF SmallInv, AttachInv, LogAndState, Attach!LogHasItsState
<1>2. SmallInv /\ [SmallNext]_all_small
      => [stage # "read" /\ stage' = "read" /\ ~upset' =>
            \A c \in Attach!Ids : c <= Len(glomem') \/ \E d \in 1..c : log[d] = 0]_attach
  <2>1. SUFFICES ASSUME SmallInv, [SmallNext]_all_small,
                        stage # "read", stage' = "read", ~upset', NEW c \in Attach!Ids
                 PROVE  c <= Len(glomem') \/ \E d \in 1..c : log[d] = 0
    OBVIOUS
  <2>2. Attach!Next \/ UNCHANGED attach
    BY <2>1 DEF SmallNext, RunsRing, RunsTrace, RunsFifo, all_small
  <2> QED BY <2>1, <2>2, EndOfTheLoop DEF SmallInv
<1>3. SmallSpec => [](Attach!LogHasItsState /\ Attach!ReadsPairs)
  BY <1>1, SmallKept, PTL
<1>4. SmallSpec => Attach!LeavesOutLogless
  <2>1. SmallSpec => [][stage # "read" /\ stage' = "read" /\ ~upset' =>
            \A c \in Attach!Ids : c <= Len(glomem') \/ \E d \in 1..c : log[d] = 0]_attach
    BY <1>2, SmallKept, PTL DEF SmallSpec
  <2> QED BY <2>1 DEF Attach!LeavesOutLogless, Attach!attach, attach
<1> QED BY <1>3, <1>4 DEF ReadsPairs

-----------------------------------------------------------------------------
(* Either buffer is a bounded channel.                                     *)

\* Sequences are equal when their elements are.
LEMMA SameSequence ==
  ASSUME NEW S, NEW s \in Seq(S), NEW t \in Seq(S), Len(s) = Len(t),
         \A n \in 1..Len(s) : s[n] = t[n]
  PROVE  s = t
OBVIOUS

\* The values from number a on, up to and without number c.
Run(b, a, c) == [n \in 1..c - a |-> Value(b, a + n - 1)]

\* A stretch of values has the length and the members one would expect.
LEMMA RunIs ==
  ASSUME NEW b \in Bufs, NEW a \in Nat, NEW c \in Nat, a <= c
  PROVE  /\ Run(b, a, c) \in Seq(Nat) /\ Len(Run(b, a, c)) = c - a
         /\ \A n \in 1..c - a : Run(b, a, c)[n] = Value(b, a + n - 1)
<1>1. c - a \in Nat
  OBVIOUS
<1>2. ASSUME NEW n \in 1..c - a
      PROVE  Value(b, a + n - 1) \in Nat
  BY <1>2 DEF Value
<1> QED BY <1>1, <1>2 DEF Run

\* Nothing is between a number and itself.
LEMMA RunEmpty ==
  ASSUME NEW b \in Bufs, NEW a \in Nat
  PROVE  Run(b, a, a) = <<>>
BY RunIs

\* One value more at the end,
LEMMA RunAppend ==
  ASSUME NEW b \in Bufs, NEW a \in Nat, NEW c \in Nat, a <= c
  PROVE  Run(b, a, c + 1) = Append(Run(b, a, c), Value(b, c))
<1> DEFINE s == Run(b, a, c)
           t == Run(b, a, c + 1)
           v == Value(b, c)
<1>1. v \in Nat
  BY DEF Value
<1>2. /\ s \in Seq(Nat) /\ Len(s) = c - a
      /\ \A n \in 1..c - a : s[n] = Value(b, a + n - 1)
  BY RunIs
<1>3. /\ t \in Seq(Nat) /\ Len(t) = c + 1 - a
      /\ \A n \in 1..c + 1 - a : t[n] = Value(b, a + n - 1)
  <2>1. c + 1 \in Nat /\ a <= c + 1
    OBVIOUS
  <2> QED BY <2>1, RunIs
<1> HIDE DEF s, t
<1>4. /\ Append(s, v) \in Seq(Nat) /\ Len(Append(s, v)) = c - a + 1
      /\ Append(s, v)[c - a + 1] = v /\ \A n \in 1..c - a : Append(s, v)[n] = s[n]
  BY <1>1, <1>2, AppendIs
<1>5. ASSUME NEW n \in 1..c + 1 - a
      PROVE  t[n] = Append(s, v)[n]
  <2>1. CASE n = c - a + 1
    <3>1. a + n - 1 = c
      BY <2>1
    <3> QED BY <1>3, <1>4, <2>1, <3>1
  <2>2. CASE n # c - a + 1
    <3>1. n \in 1..c - a
      BY <2>2
    <3> QED BY <1>2, <1>3, <1>4, <3>1
  <2> QED BY <2>1, <2>2
<1>6. t = Append(s, v)
  BY SMTT(30), <1>3, <1>4, <1>5
<1> QED BY <1>6 DEF s, t

\* and one less at the beginning.
LEMMA RunTail ==
  ASSUME NEW b \in Bufs, NEW a \in Nat, NEW c \in Nat, a < c
  PROVE  /\ Run(b, a, c) # <<>> /\ Head(Run(b, a, c)) = Value(b, a)
         /\ Tail(Run(b, a, c)) = Run(b, a + 1, c)
<1> DEFINE s == Run(b, a, c)
           t == Run(b, a + 1, c)
<1>1. /\ s \in Seq(Nat) /\ Len(s) = c - a
      /\ \A n \in 1..c - a : s[n] = Value(b, a + n - 1)
  BY RunIs
<1>2. /\ t \in Seq(Nat) /\ Len(t) = c - (a + 1)
      /\ \A n \in 1..c - (a + 1) : t[n] = Value(b, a + 1 + n - 1)
  <2>1. a + 1 \in Nat /\ a + 1 <= c
    OBVIOUS
  <2> QED BY <2>1, RunIs
<1> HIDE DEF s, t
<1>3. s # <<>> /\ s[1] = Value(b, a)
  <2>1. 1 \in 1..c - a /\ a + 1 - 1 = a
    OBVIOUS
  <2> QED BY <1>1, <2>1
<1>4. Head(s) = s[1]
  OBVIOUS
<1>5. /\ Tail(s) \in Seq(Nat) /\ Len(Tail(s)) = c - a - 1
      /\ \A n \in 1..c - a - 1 : Tail(s)[n] = s[n + 1]
  BY <1>1, <1>3
<1>6. ASSUME NEW n \in 1..c - a - 1
      PROVE  Tail(s)[n] = t[n]
  <2>1. n + 1 \in 1..c - a /\ n \in 1..c - (a + 1) /\ a + (n + 1) - 1 = a + 1 + n - 1
    OBVIOUS
  <2> QED BY <1>1, <1>2, <1>5, <2>1
<1>7. Tail(s) = t
  <2>1. c - (a + 1) = c - a - 1
    OBVIOUS
  <2> QED BY <1>2, <1>5, <1>6, <2>1, SameSequence
<1> QED BY <1>3, <1>4, <1>7 DEF s, t

\* What is in a buffer are the values that were written and not yet read.
Waits(b) ==
  /\ Buffered(b) = Run(b, Gotten(b), Written(b)) /\ Gotten(b) = Len(got[Getter(b)])
  /\ Gotten(b) <= Written(b) /\ Written(b) <= NumMsg

\* What a buffer holds for its getter are the values written and not yet gotten.
LEMMA BufferedIs ==
  ASSUME RingInv, NEW b \in Bufs
  PROVE  Waits(b)
<1> USE DEF Waits
<1>1. Gotten(b) \in Nat /\ Written(b) \in Nat /\ Freed(b) \in Nat /\ NumMsg \in Nat
  BY RingCounts, RingNumbers
<1>2. PutCount(b) = Written(b)
  <2>1. pc["w"] \in Steps /\ pc["r"] \in Steps /\ pc["w"] # "open"
        /\ pc["r"] \notin {"data", "create"}
    BY RingFacts, RingNumbers DEF RingInv, RingPlaces
  <2>0. i["w"] \in Int /\ i["r"] \in Int
    BY RingFacts, RingNumbers
  <2>2. CASE b = "data"
    BY <1>1, <2>0, <2>1, <2>2, RingNumbers DEF PutCount, Written, Posted, PutOver, Putting,
       Getting, Steps, One
  <2>3. CASE b = "vic"
    BY <1>1, <2>0, <2>1, <2>3, RingNumbers DEF PutCount, Written, Posted, PutOver, Putting,
       Getting, Steps, One
  <2> QED BY <2>2, <2>3, RingNumbers
<1>3. Written(b) <= NumMsg
  <2>1. CASE pc[Putter(b)] \in Putting
    <3>1. Posted(b) = i[Putter(b)] /\ i[Putter(b)] \in 0..NumMsg - 1
      BY <2>1, RingFacts, RingNumbers DEF Posted
    <3>2. Posted(b) \in Nat /\ Posted(b) + 1 <= NumMsg
      BY <1>1, <3>1
    <3> QED BY <1>1, <3>2 DEF Written, One
  <2>2. CASE pc[Putter(b)] \notin Putting
    <3>1. Written(b) = Posted(b)
      BY <2>2, RingCounts DEF Written, Putting, One
    <3> QED BY <3>1, RingCounts, RingNumbers
  <2> QED BY <2>1, <2>2
<1>4. CASE made[b] = "constructed"
  <2>1. /\ Sound(b) /\ buf[b].nstored >= 0 /\ buf[b].nstored \in Int
        /\ buf[b].nstored = Posted(b) - Claimed(b)
    BY <1>4, SoundFacts, RingNumbers
  <2>2. Gotten(b) = Len(got[Getter(b)])
    BY <2>1 DEF Sound
  <2>3. Gotten(b) <= Written(b)
    <3>1. /\ Gotten(b) <= Claimed(b) /\ Posted(b) <= Written(b)
          /\ Claimed(b) \in Nat /\ Posted(b) \in Int
      BY RingCounts
    <3> QED BY <1>1, <2>1, <3>1
  <2>4. ASSUME NEW n \in 1..Written(b) - Gotten(b)
        PROVE  buf[b].items[(Gotten(b) + n - 1) % NumItems] = Value(b, Gotten(b) + n - 1)
    <3>1. Freed(b) <= Gotten(b)
      BY RingCounts
    <3>2. /\ Gotten(b) + n - 1 \in 0..NumMsg - 1
          /\ Freed(b) <= Gotten(b) + n - 1 /\ Gotten(b) + n - 1 < Written(b)
      BY <1>1, <1>3, <2>3, <3>1
    <3> QED BY <2>1, <3>2 DEF Sound
  <2>5. Buffered(b) = [n \in 1..Written(b) - Gotten(b) |->
                         buf[b].items[(Gotten(b) + n - 1) % NumItems]]
    BY <1>2, <2>2 DEF Buffered
  <2> QED BY <1>3, <2>2, <2>3, <2>4, <2>5 DEF Run
<1>5. CASE made[b] # "constructed"
  <2>1. got[Getter(b)] = <<>> /\ Len(got[Getter(b)]) = 0
    BY <1>5 DEF RingInv, Content
  <2>2. Gotten(b) = 0 /\ Written(b) = 0
    <3>1. CASE b = "data"
      <4>1. pc["w"] = "start" /\ pc["r"] = "start"
        BY <1>5, <3>1 DEF RingInv, RingPlaces
      <4> QED BY <3>1, <4>1, RingNumbers DEF Gotten, Freed, Written, Posted, PutOver, GetOver,
                   Putting, Getting, One
    <3>2. CASE b = "vic"
      <4>1. pc["r"] \in {"start", "open"} /\ pc["w"] \notin Getting \cup {"done"}
        BY <1>5, <3>2 DEF RingInv, RingPlaces
      <4> QED BY <3>2, <4>1, RingNumbers DEF Gotten, Freed, Written, Posted, PutOver, GetOver,
                   Putting, Getting, One
    <3> QED BY <3>1, <3>2, RingNumbers
  <2>3. Buffered(b) = [n \in 1..0 - 0 |-> buf[b].items[(0 + n - 1) % NumItems]]
    BY <1>2, <2>1, <2>2 DEF Buffered
  <2>4. Buffered(b) = Run(b, 0, 0)
    <3>1. 1..0 - 0 = {}
      OBVIOUS
    <3> QED BY <2>3, <3>1 DEF Run
  <2> QED BY <1>1, <2>1, <2>2, <2>4
<1> QED BY <1>4, <1>5

\* What a step does to a channel: nothing, one value in, or one value out.
ChannelStep(b) ==
  \/ Written(b)' = Written(b) /\ got'[Getter(b)] = got[Getter(b)]
  \/ /\ Written(b)' = Written(b) + 1 /\ got'[Getter(b)] = got[Getter(b)]
     /\ Written(b) < Freed(b) + NumItems
  \/ /\ Written(b)' = Written(b) /\ got'[Getter(b)] = Append(got[Getter(b)], Value(b, Gotten(b)))
     /\ Gotten(b) < Written(b)

\* Each call of a put or a get keeps a channel as it is, adds the next value at
\* its end, or takes the first one: for the buffer it is about, and for the other.
LEMMA BufferSteps ==
  ASSUME RingInv, NEW b \in Bufs, Put(b) \/ Get(b), NEW c \in Bufs
  PROVE  ChannelStep(c)
<1>1. CASE WaitNempty(b) \/ PutLock(b) \/ PutUnlock(b)
  <2>1. /\ i' = i /\ made' = made /\ got' = got
        /\ \/ Go(Putter(b), "nempty", "put_mutex")
           \/ Go(Putter(b), "put_mutex", "write")
           \/ Go(Putter(b), "put_unlock", "post_nstored")
    BY <1>1 DEF WaitNempty, PutLock, PutUnlock, Wait, Unlock, Post
  <2>2. Written(b)' = Written(b) /\ (c # b => SameCounts(c))
    BY <2>1, PutMoves DEF Go
  <2> QED BY <2>1, <2>2 DEF ChannelStep, SameCounts
<1>2. CASE WaitNstored(b) \/ GetLock(b) \/ GetUnlock(b)
  <2>1. /\ i' = i /\ made' = made /\ got' = got
        /\ \/ Go(Getter(b), "nstored", "get_mutex")
           \/ Go(Getter(b), "get_mutex", "read")
           \/ Go(Getter(b), "get_unlock", "post_nempty")
    BY <1>2 DEF WaitNstored, GetLock, GetUnlock, Wait, Unlock, Post
  <2>2. Written(b)' = Written(b) /\ (c # b => SameCounts(c))
    BY <2>1, GetMoves
  <2> QED BY <2>1, <2>2 DEF ChannelStep, SameCounts
<1>3. CASE Write(b)
  <2>1. /\ i' = i /\ made' = made /\ got' = got /\ pc[Putter(b)] = "write"
        /\ Go(Putter(b), "write", "put_unlock")
    BY <1>3 DEF Write, Go
  <2>2. made[b] = "constructed" /\ Written(b)' = Written(b) + 1 /\ (c # b => SameCounts(c))
    BY <2>1, PutMoves
  <2>3. Written(b) < Freed(b) + NumItems
    <3>1. Posted(b) \in Nat /\ Freed(b) \in Nat /\ NumItems \in Nat
      BY RingCounts, RingNumbers
    <3>2. Written(b) = Posted(b) /\ Taken(b) = Posted(b) + 1
      BY <2>1, <3>1 DEF Written, Taken, Putting, One
    <3>3. buf[b].nempty \in 0..NumItems /\ buf[b].nempty = NumItems - Taken(b) + Freed(b)
      BY <2>2, SoundFacts
    <3> QED BY <3>1, <3>2, <3>3
  <2> QED BY <2>1, <2>2, <2>3 DEF ChannelStep, SameCounts
<1>4. CASE Read(b)
  <2>1. /\ i' = i /\ made' = made /\ pc[Getter(b)] = "read"
        /\ Go(Getter(b), "read", "get_unlock")
        /\ got' = [got EXCEPT ![Getter(b)] =
                     Append(got[Getter(b)], buf[b].items[i[Getter(b)] % NumItems])]
    BY <1>4 DEF Read, Go
  <2>2. /\ made[b] = "constructed" /\ Freed(b) = i[Getter(b)] /\ Written(b)' = Written(b)
        /\ (c # b => SameCounts(c))
    BY <2>1, GetMoves
  <2>3. Gotten(b) = Freed(b) /\ Claimed(b) = Freed(b) + 1 /\ Freed(b) \in Nat
    <3>1. Freed(b) \in Nat
      BY RingCounts
    <3> QED BY <2>1, <3>1 DEF Gotten, Claimed, Getting, One
  <2>4. /\ Sound(b) /\ buf[b].nstored \in 0..NumItems
        /\ buf[b].nstored = Posted(b) - Claimed(b)
    BY <2>2, SoundFacts
  <2>5. Gotten(b) < Written(b)
    <3>1. Posted(b) <= Written(b) /\ Posted(b) \in Int /\ Written(b) \in Int /\ NumItems \in Nat
      BY RingCounts, RingNumbers
    <3> QED BY <2>3, <2>4, <3>1
  <2>6. buf[b].items[i[Getter(b)] % NumItems] = Value(b, Gotten(b))
    <3>1. i[Getter(b)] \in 0..NumMsg - 1
      BY RingFacts, RingNumbers
    <3>2. Freed(b) <= i[Getter(b)] /\ i[Getter(b)] < Written(b)
      BY <2>2, <2>3, <2>5
    <3> QED BY <2>2, <2>3, <2>4, <3>1, <3>2 DEF Sound
  <2>7. /\ got'[Getter(b)] = Append(got[Getter(b)], Value(b, Gotten(b)))
        /\ c # b => got'[Getter(c)] = got[Getter(c)]
    BY <2>1, <2>6, RingFacts, RingNumbers
  <2> QED BY <2>2, <2>5, <2>7 DEF ChannelStep, SameCounts
<1>5. CASE PostNstored(b)
  <2>1. /\ made' = made /\ got' = got /\ pc[Putter(b)] = "post_nstored"
        /\ Step(Putter(b), "nempty", "nstored", "w")
    BY <1>5 DEF PostNstored, Post
  <2>2. b = "data" /\ i["w"] + 1 = NumMsg => Freed("data") > 0
    BY <1>5, FirstGivenBack
  <2>3. Written(b)' = Written(b) /\ (c # b => SameCounts(c))
    BY <2>1, <2>2, PutEnds
  <2> QED BY <2>1, <2>3 DEF ChannelStep, SameCounts
<1>6. CASE PostNempty(b)
  <2>1. /\ made' = made /\ got' = got /\ pc[Getter(b)] = "post_nempty"
        /\ Step(Getter(b), "nstored", "nempty", "r")
    BY <1>6 DEF PostNempty, Post
  <2>2. Written(b)' = Written(b) /\ (c # b => SameCounts(c))
    BY <2>1, GetEnds
  <2> QED BY <2>1, <2>2 DEF ChannelStep, SameCounts
<1> QED BY <1>1, <1>2, <1>3, <1>4, <1>5, <1>6 DEF Put, Get

\* So does every step of the two ring programs.
LEMMA EveryRingStep ==
  ASSUME RingInv, Next \/ UNCHANGED vars, NEW c \in Bufs
  PROVE  ChannelStep(c)
<1>1. CASE UNCHANGED vars \/ Terminated
  <2>1. UNCHANGED <<pc, i, got>>
    BY <1>1 DEF vars, Terminated
  <2> QED BY <2>1 DEF ChannelStep, Written, Posted, PutOver
<1>2. ASSUME NEW b \in Bufs, Put(b) \/ Get(b)
      PROVE  ChannelStep(c)
  BY <1>2, BufferSteps
<1>3. CASE MakeData \/ CreateVic \/ TruncateVic
  <2>1. PICK to \in {"data", "create", "nempty"} :
          /\ pc["w"] \in NotYet /\ pc' = [pc EXCEPT !["w"] = to] /\ i' = i /\ got' = got
    BY <1>3 DEF MakeData, CreateVic, TruncateVic, Go, NotYet
  <2>2. SameCounts(c)
    BY <2>1, BeforeLoops, RingNumbers DEF NotYet, Steps
  <2> QED BY <2>1, <2>2 DEF ChannelStep, SameCounts
<1>4. CASE OpenVic \/ ConstructVic
  <2>1. PICK to \in {"open", "nstored"} :
          /\ pc["r"] \in NotYet /\ pc' = [pc EXCEPT !["r"] = to] /\ i' = i /\ got' = got
    BY <1>4 DEF OpenVic, ConstructVic, Go, NotYet
  <2>2. SameCounts(c)
    BY <2>1, BeforeLoops, RingNumbers DEF NotYet, Steps
  <2> QED BY <2>1, <2>2 DEF ChannelStep, SameCounts
<1> QED BY <1>1, <1>2, <1>3, <1>4, RingNumbers DEF Next, W, R

\* A step of the ring is a step of either channel, or none.
LEMMA ChannelSteps ==
  ASSUME RingInv, NEW b \in Bufs, Waits(b), Waits(b)', ChannelStep(b)
  PROVE  LET s == Buffered(b)
             r == got[Getter(b)]
         IN  \/ s' = s /\ r' = r
             \/ \E v \in Values : Len(s) < NumItems /\ s' = Append(s, v) /\ r' = r
             \/ s # <<>> /\ r' = Append(r, Head(s)) /\ s' = Tail(s)
<1> DEFINE a == Gotten(b)
           c == Written(b)
<1>1. /\ Buffered(b) = Run(b, a, c) /\ a = Len(got[Getter(b)]) /\ a <= c /\ c <= NumMsg
      /\ a \in Nat /\ c \in Nat
  BY RingCounts DEF Waits
<1>2. Buffered(b)' = Run(b, a', c') /\ a' = Len(got'[Getter(b)]) /\ c' <= NumMsg
  BY DEF Waits, Run
<1>3. Freed(b) <= a /\ Freed(b) \in Nat /\ NumItems \in Nat /\ NumMsg \in Nat
  BY RingCounts, RingNumbers
<1>4. got[Getter(b)] \in Seq(Nat)
  BY RingFacts, RingNumbers
<1>5. ChannelStep(b) <=>
        \/ c' = c /\ got'[Getter(b)] = got[Getter(b)]
        \/ c' = c + 1 /\ got'[Getter(b)] = got[Getter(b)] /\ c < Freed(b) + NumItems
        \/ c' = c /\ got'[Getter(b)] = Append(got[Getter(b)], Value(b, a)) /\ a < c
  BY DEF ChannelStep
<1> HIDE DEF a, c
<1>6. CASE c' = c /\ got'[Getter(b)] = got[Getter(b)]
  BY <1>1, <1>2, <1>6
<1>7. CASE c' = c + 1 /\ got'[Getter(b)] = got[Getter(b)] /\ c < Freed(b) + NumItems
  <2>1. a' = a /\ Buffered(b)' = Append(Buffered(b), Value(b, c))
    BY <1>1, <1>2, <1>7, RunAppend
  <2>2. Len(Buffered(b)) < NumItems
    <3>1. Len(Run(b, a, c)) = c - a
      BY <1>1, RunIs
    <3>2. c - a < NumItems
      BY <1>1, <1>3, <1>7
    <3> QED BY <1>1, <3>1, <3>2
  <2>3. Value(b, c) \in Values
    BY <1>1, <1>3 DEF Value, Values
  <2> QED BY <1>7, <2>1, <2>2, <2>3
<1>8. CASE c' = c /\ got'[Getter(b)] = Append(got[Getter(b)], Value(b, a)) /\ a < c
  <2>1. Value(b, a) \in Nat
    BY <1>1 DEF Value
  <2>2. a' = a + 1
    BY <1>1, <1>2, <1>4, <1>8, <2>1, AppendIs
  <2>3. /\ Buffered(b) # <<>> /\ Head(Buffered(b)) = Value(b, a)
        /\ Buffered(b)' = Tail(Buffered(b))
    <3>1. /\ Run(b, a, c) # <<>> /\ Head(Run(b, a, c)) = Value(b, a)
          /\ Tail(Run(b, a, c)) = Run(b, a + 1, c)
      BY <1>1, <1>8, RunTail
    <3>2. Buffered(b) = Run(b, a, c) /\ Buffered(b)' = Run(b, a + 1, c)
      BY <1>1, <1>2, <1>8, <2>2
    <3> QED BY <3>1, <3>2
  <2> QED BY <1>8, <2>3
<1> QED BY <1>5, <1>6, <1>7, <1>8

\* What is written to a buffer is read once, in order, and never more than
\* NumItems values wait (sema/w.cpp:78-99, r.cpp:52-76).
THEOREM BuffersAreChannels == SmallSpec => ImplementsChannels
<1>1. SmallInit => DataChannel!Init /\ VicChannel!Init
  <2>1. SUFFICES ASSUME SmallInit
                 PROVE  DataChannel!Init /\ VicChannel!Init
    OBVIOUS
  <2>2. RingInv /\ \A b \in Bufs : got[Getter(b)] = <<>> /\ Written(b) = 0
    BY <2>1, RingBegins, RingNumbers DEF SmallInit, Init, Written, Posted, PutOver, Putting,
       Getting, One
  <2>3. ASSUME NEW b \in Bufs
        PROVE  Buffered(b) = <<>> /\ got[Getter(b)] = <<>>
    <3>1. Waits(b) /\ got[Getter(b)] = <<>> /\ Written(b) = 0 /\ Len(<<>>) = 0
      BY <2>2, BufferedIs
    <3>2. Gotten(b) = 0 /\ Buffered(b) = Run(b, 0, 0)
      BY <3>1 DEF Waits
    <3> QED BY <3>1, <3>2, RunEmpty
  <2> QED BY <2>3, RingNumbers DEF DataChannel!Init, VicChannel!Init
<1>2. SmallInv => \A b \in Bufs : Waits(b)
  BY BufferedIs DEF SmallInv
<1>3. SmallInv /\ (\A b \in Bufs : Waits(b)) /\ (\A b \in Bufs : Waits(b))'
      /\ [SmallNext]_all_small
      => /\ [DataChannel!Next]_<<Buffered("data"), got["r"]>>
         /\ [VicChannel!Next]_<<Buffered("vic"), got["w"]>>
  <2>0. SUFFICES ASSUME SmallInv, \A b \in Bufs : Waits(b), \A b \in Bufs : Waits(b)',
                        [SmallNext]_all_small
                 PROVE  /\ [DataChannel!Next]_<<Buffered("data"), got["r"]>>
                        /\ [VicChannel!Next]_<<Buffered("vic"), got["w"]>>
    OBVIOUS
  <2>1. Next \/ UNCHANGED vars
    BY <2>0 DEF SmallNext, RunsTrace, RunsFifo, RunsAttach, all_small
  <2>2. \A b \in Bufs : ChannelStep(b)
    BY <2>0, <2>1, EveryRingStep DEF SmallInv
  <2>3. [DataChannel!Next]_<<Buffered("data"), got["r"]>>
    <3>1. Waits("data") /\ Waits("data")' /\ ChannelStep("data") /\ "data" \in Bufs /\ RingInv
      BY <2>0, <2>2, RingNumbers DEF SmallInv
    <3>2. LET s == Buffered("data")
              q == got["r"]
          IN  \/ s' = s /\ q' = q
              \/ \E v \in Values : Len(s) < NumItems /\ s' = Append(s, v) /\ q' = q
              \/ s # <<>> /\ q' = Append(q, Head(s)) /\ s' = Tail(s)
      BY <3>1, ChannelSteps, RingNumbers
    <3> QED BY <3>2 DEF DataChannel!Next, DataChannel!Put, DataChannel!Get
  <2>4. [VicChannel!Next]_<<Buffered("vic"), got["w"]>>
    <3>1. Waits("vic") /\ Waits("vic")' /\ ChannelStep("vic") /\ "vic" \in Bufs /\ RingInv
      BY <2>0, <2>2, RingNumbers DEF SmallInv
    <3>2. LET s == Buffered("vic")
              q == got["w"]
          IN  \/ s' = s /\ q' = q
              \/ \E v \in Values : Len(s) < NumItems /\ s' = Append(s, v) /\ q' = q
              \/ s # <<>> /\ q' = Append(q, Head(s)) /\ s' = Tail(s)
      BY <3>1, ChannelSteps, RingNumbers
    <3> QED BY <3>2 DEF VicChannel!Next, VicChannel!Put, VicChannel!Get
  <2> QED BY <2>3, <2>4
<1>4. SmallSpec => DataChannel!Init /\ VicChannel!Init
  BY <1>1, PTL DEF SmallSpec
<1>5. SmallSpec => [][DataChannel!Next]_<<Buffered("data"), got["r"]>>
  BY <1>2, <1>3, SmallKept, PTL DEF SmallSpec
<1>6. SmallSpec => [][VicChannel!Next]_<<Buffered("vic"), got["w"]>>
  BY <1>2, <1>3, SmallKept, PTL DEF SmallSpec
<1> QED BY <1>4, <1>5, <1>6, PTL DEF ImplementsChannels, DataChannel!Spec, VicChannel!Spec

=============================================================================
