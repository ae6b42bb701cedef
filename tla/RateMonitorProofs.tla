-------------------------- MODULE RateMonitorProofs --------------------------
(***************************************************************************)
(* Proofs about RateMonitor, for every set of pids, every set of rates and *)
(* every mode.  This monitor takes the first entry of its queue and has no *)
(* scan that could find nobody, so that all of PacerClientProofs holds of  *)
(* it without a condition.                                                 *)
(***************************************************************************)
EXTENDS RateMonitor, PacerClientProofs, FiniteSetTheorems, SequenceTheorems

Entries == [rate : Rates, pid : Clients]

\* The multimap is sorted by rate, and has one entry of each client that
\* waits and none of another.
QueueInv ==
  /\ rate_queue \in Seq(Entries)
  /\ \A j, k \in 1..Len(rate_queue) : j < k => rate_queue[j].rate <= rate_queue[k].rate
  /\ \A j, k \in 1..Len(rate_queue) : rate_queue[j].pid = rate_queue[k].pid => j = k
  /\ \A k \in 1..Len(rate_queue) : task_queue[rate_queue[k].pid] = 1
  /\ \A c \in Waiting : \E k \in 1..Len(rate_queue) : rate_queue[k].pid = c

RateInv == ClaimInv /\ QueueInv

-----------------------------------------------------------------------------
(* The operations of the multimap.                                         *)

\* A set of positions that holds all below each of its members is an
\* interval from 1, so counting it gives its end.
LEMMA CountDownward ==
  ASSUME NEW L \in Nat, NEW S \in SUBSET (1..L),
         \A k \in S : \A j \in 1..k : j \in S
  PROVE  /\ Cardinality(S) \in 0..L
         /\ S = 1..Cardinality(S)
<1>1. IsFiniteSet(1..L) /\ Cardinality(1..L) = L
  BY FS_Interval
<1>2. IsFiniteSet(S) /\ Cardinality(S) <= L
  BY ZenonT(30), <1>1, FS_Subset
<1>3. Cardinality(S) \in Nat
  BY <1>2, FS_CardinalityType
<1>4. ASSUME NEW k \in S
      PROVE  k \in 1..Cardinality(S)
  <2>1. k \in Nat /\ k >= 1
    OBVIOUS
  <2>2. Cardinality(1..k) = k
    BY <2>1, FS_Interval
  <2>3. 1..k \in SUBSET S
    OBVIOUS
  <2>4. k <= Cardinality(S)
    BY <1>2, <2>2, <2>3, FS_Subset
  <2> QED BY <1>3, <2>1, <2>4
<1>5. /\ IsFiniteSet(1..Cardinality(S)) /\ Cardinality(1..Cardinality(S)) = Cardinality(S)
  BY <1>3, FS_Interval
<1>6. S \in SUBSET (1..Cardinality(S))
  BY <1>4
<1>7. S = 1..Cardinality(S)
  BY <1>5, <1>6, FS_Subset
<1> QED BY <1>2, <1>3, <1>7

\* s with e put behind its first n elements.
InsertedAt(t, s, n, e) ==
  /\ Len(t) = Len(s) + 1
  /\ \A i \in 1..n : t[i] = s[i]
  /\ t[n + 1] = e
  /\ \A i \in (n + 1)..Len(s) : t[i + 1] = s[i]

\* That is what InsertAt of the community modules does.
LEMMA InsertAtIs ==
  ASSUME NEW S, NEW s \in Seq(S), NEW e \in S, NEW n \in 0..Len(s)
  PROVE  /\ InsertAt(s, n + 1, e) \in Seq(S)
         /\ InsertedAt(InsertAt(s, n + 1, e), s, n, e)
<1> DEFINE a == SubSeq(s, 1, n)
           b == SubSeq(s, n + 1, Len(s))
<1>1. /\ Len(s) \in Nat /\ n \in Nat /\ n <= Len(s)
      /\ \A i \in 1..Len(s) : s[i] \in S
  BY LenProperties, ElementOfSeq
<1>2. /\ a \in Seq(S) /\ Len(a) = n
      /\ \A i \in 1..n : a[i] = s[i]
  <2>1. \A i \in 1..n : s[i] \in S
    BY <1>1
  <2>2. /\ a \in Seq(S) /\ Len(a) = (IF 1 <= n THEN n - 1 + 1 ELSE 0)
        /\ \A i \in 1..n-1+1 : a[i] = s[1 + i - 1]
    BY <1>1, <2>1, SubSeqProperties
  <2> QED BY <1>1, <2>2
<1>3. /\ b \in Seq(S) /\ Len(b) = Len(s) - n
      /\ \A i \in 1..(Len(s) - n) : b[i] = s[n + i]
  <2>1. \A i \in (n + 1)..Len(s) : s[i] \in S
    BY <1>1
  <2>2. /\ b \in Seq(S)
        /\ Len(b) = (IF n + 1 <= Len(s) THEN Len(s) - (n + 1) + 1 ELSE 0)
        /\ \A i \in 1..Len(s)-(n + 1)+1 : b[i] = s[n + 1 + i - 1]
    BY <1>1, <2>1, SubSeqProperties
  <2> QED BY <1>1, <2>2
<1>4. <<e>> \in Seq(S) /\ Len(<<e>>) = 1 /\ <<e>>[1] = e
  OBVIOUS
<1> HIDE DEF a, b
<1> DEFINE x == a \o <<e>>
<1>5. /\ x \in Seq(S) /\ Len(x) = n + 1
      /\ \A i \in 1..n : x[i] = s[i]
      /\ x[n + 1] = e
  <2>1. /\ x \in Seq(S) /\ Len(x) = n + 1
        /\ \A i \in 1..n+1 : x[i] = IF i <= n THEN a[i] ELSE <<e>>[i - n]
    BY <1>2, <1>4, ConcatProperties
  <2> QED BY <1>1, <1>2, <1>4, <2>1
<1> HIDE DEF x
<1>6. /\ x \o b \in Seq(S) /\ Len(x \o b) = n + 1 + (Len(s) - n)
      /\ \A i \in 1..(n + 1 + (Len(s) - n)) :
           (x \o b)[i] = IF i <= n + 1 THEN x[i] ELSE b[i - (n + 1)]
  <2>1. /\ x \o b \in Seq(S) /\ Len(x \o b) = Len(x) + Len(b)
        /\ \A i \in 1..(Len(x) + Len(b)) :
             (x \o b)[i] = IF i <= Len(x) THEN x[i] ELSE b[i - Len(x)]
    BY <1>3, <1>5, ConcatProperties
  <2>2. Len(x) = n + 1 /\ Len(b) = Len(s) - n
    BY <1>3, <1>5
  <2> QED BY <2>1, <2>2
<1>7. InsertAt(s, n + 1, e) = x \o b
  <2>1. \A i, j : i - 1 = j =>
          InsertAt(s, i, e) = (SubSeq(s, 1, j) \o <<e>>) \o SubSeq(s, i, Len(s))
    BY DEF InsertAt
  <2>2. (n + 1) - 1 = n
    BY <1>1
  <2>3. InsertAt(s, n + 1, e) = (SubSeq(s, 1, n) \o <<e>>) \o SubSeq(s, n + 1, Len(s))
    BY <2>1, <2>2, Zenon
  <2>4. x = SubSeq(s, 1, n) \o <<e>>
    BY DEF x, a
  <2>5. b = SubSeq(s, n + 1, Len(s))
    BY DEF b
  <2> QED BY <2>3, <2>4, <2>5
<1>8. Len(x \o b) = Len(s) + 1
  BY <1>1, <1>6
<1>9. \A i \in 1..n : (x \o b)[i] = s[i]
  BY <1>1, <1>5, <1>6
<1>10. (x \o b)[n + 1] = e
  BY <1>1, <1>5, <1>6
<1>11. ASSUME NEW i \in (n + 1)..Len(s)
       PROVE  (x \o b)[i + 1] = s[i]
  <2>1. /\ i + 1 \in 1..(n + 1 + (Len(s) - n)) /\ ~(i + 1 <= n + 1)
        /\ i - n \in 1..(Len(s) - n) /\ i + 1 - (n + 1) = i - n /\ n + (i - n) = i
    BY <1>1
  <2> QED BY <1>3, <1>6, <2>1
<1> QED BY <1>6, <1>7, <1>8, <1>9, <1>10, <1>11 DEF InsertedAt

\* multimap::insert puts a new entry behind all that go first and before the
\* rest, which have a higher rate.
LEMMA PlacedIs ==
  ASSUME QueueInv, NEW rate \in Rates, NEW c \in Clients
  PROVE  \E n \in 0..Len(rate_queue) :
           /\ Placed(rate, c) \in Seq(Entries)
           /\ InsertedAt(Placed(rate, c), rate_queue, n, Entry(rate, c))
           /\ \A k \in 1..Len(rate_queue) : k <= n <=> rate_queue[k].rate <= rate
<1> DEFINE S == {k \in 1..Len(rate_queue) : Precedes(rate_queue[k], rate)}
<1>1. /\ Len(rate_queue) \in Nat /\ rate \in Int
      /\ \A k \in 1..Len(rate_queue) : rate_queue[k] \in Entries
      /\ rate_queue \in Seq(Entries) /\ Entry(rate, c) \in Entries
  BY LenProperties, ElementOfSeq, ReadAssumption DEF QueueInv, Entries, Entry
<1>2. \A k \in 1..Len(rate_queue) : rate_queue[k].rate \in Int
  BY <1>1, ReadAssumption DEF Entries
<1>3. S \in SUBSET (1..Len(rate_queue))
  OBVIOUS
<1>4. ASSUME NEW k \in S, NEW j \in 1..k
      PROVE  j \in S
  <2>1. /\ k \in 1..Len(rate_queue) /\ j \in 1..Len(rate_queue)
        /\ rate_queue[k].rate <= rate /\ j <= k
    BY <1>1 DEF Precedes
  <2>2. rate_queue[j].rate <= rate_queue[k].rate
    <3>1. CASE j = k
      BY <1>2, <2>1, <3>1
    <3>2. CASE j # k
      BY <2>1, <3>2 DEF QueueInv
    <3> QED BY <3>1, <3>2
  <2>3. rate_queue[j].rate <= rate
    BY <1>1, <1>2, <2>1, <2>2
  <2> QED BY <2>1, <2>3 DEF Precedes
<1> DEFINE n == Cardinality(S)
<1>5. n \in 0..Len(rate_queue) /\ S = 1..n
  <2> HIDE DEF S
  <2> QED BY <1>1, <1>3, <1>4, CountDownward
<1>6. ASSUME NEW k \in 1..Len(rate_queue)
      PROVE  k <= n <=> rate_queue[k].rate <= rate
  <2>1. k \in S <=> rate_queue[k].rate <= rate
    BY DEF Precedes
  <2>2. k \in S <=> k <= n
    <3> HIDE DEF S
    <3> QED BY <1>5
  <2> QED BY <2>1, <2>2
<1>7. Placed(rate, c) = InsertAt(rate_queue, n + 1, Entry(rate, c))
  BY DEF Placed
<1> HIDE DEF n
<1>8. /\ Placed(rate, c) \in Seq(Entries)
      /\ InsertedAt(Placed(rate, c), rate_queue, n, Entry(rate, c))
  BY <1>1, <1>5, <1>7, InsertAtIs
<1> QED BY <1>5, <1>6, <1>8

-----------------------------------------------------------------------------
(* The invariant.                                                          *)

\* What the invariant says of an entry, of a request in the monitor's hands
\* and of the first entry.
LEMMA QueueFacts ==
  ASSUME RateInv
  PROVE  /\ Len(rate_queue) \in Nat
         /\ \A k \in 1..Len(rate_queue) :
              /\ rate_queue[k] \in Entries
              /\ rate_queue[k].rate \in Int /\ rate_queue[k].pid \in Waiting
         /\ \A c \in Clients : task_queue[c] \in {0, 1} /\ reply[c] \in Nat
         /\ \A c \in Clients : mon_buf = Request(c) => task_queue[c] = 0
         /\ rate_queue # <<>> =>
              /\ Head(rate_queue) = rate_queue[1] /\ 1 \in 1..Len(rate_queue)
              /\ NextToRun \in Waiting
<1>1. /\ Len(rate_queue) \in Nat
      /\ \A k \in 1..Len(rate_queue) : rate_queue[k] \in Entries
  BY LenProperties, ElementOfSeq DEF RateInv, QueueInv
<1>2. \A k \in 1..Len(rate_queue) :
        rate_queue[k].rate \in Int /\ rate_queue[k].pid \in Waiting
  <2> TAKE k \in 1..Len(rate_queue)
  <2>1. rate_queue[k].rate \in Rates /\ rate_queue[k].pid \in Clients
    BY <1>1 DEF Entries
  <2>2. task_queue[rate_queue[k].pid] = 1
    BY DEF RateInv, QueueInv
  <2>3. \A c \in Clients : task_queue[c] = 1 => c \in Waiting
    BY DEF Waiting
  <2> QED BY <2>1, <2>2, <2>3, ReadAssumption
<1>3. \A c \in Clients : /\ task_queue[c] \in Nat /\ reply[c] \in Nat
                         /\ task_queue[c] + reply[c] <= 1
                         /\ InFlight(Request(c)) => task_queue[c] = 0
  BY DEF RateInv, ClaimInv, ExclusionInv, TypeOK, RequestInv, RequestLife
<1>4. \A c \in Clients : task_queue[c] \in {0, 1} /\ reply[c] \in Nat
  BY <1>3
<1>5. \A c \in Clients : mon_buf = Request(c) => task_queue[c] = 0
  BY <1>3 DEF InFlight
<1>6. ASSUME rate_queue # <<>>
      PROVE  Head(rate_queue) = rate_queue[1] /\ 1 \in 1..Len(rate_queue)
  <2>1. rate_queue \in Seq(Entries)
    BY DEF RateInv, QueueInv
  <2> QED BY <1>6, <2>1
<1>7. rate_queue # <<>> => NextToRun \in Waiting
  BY <1>2, <1>6 DEF NextToRun
<1> QED BY <1>1, <1>2, <1>4, <1>5, <1>6, <1>7

\* Every step of this monitor serves a waiter, so the lemmas about orderly
\* steps hold of it.
LEMMA RateIsOrderly ==
  ASSUME RateInv, [RateNext]_rateVars
  PROVE  Orderly
<1>1. TypeOK
  BY DEF RateInv, ClaimInv, ExclusionInv
<1>2. ASSUME NEW c \in Clients, RateRequest(c)
      PROVE  ServesRequest(c)
  BY <1>1, <1>2 DEF RateRequest, ServesRequest, TypeOK
<1>3. ASSUME NEW c \in Clients, RateFinished(c)
      PROVE  ServesFinished(c)
  <2>1. CASE Release
    BY <1>3, <2>1 DEF RateFinished, ServesFinished
  <2>2. CASE /\ busy # 0 /\ rate_queue # <<>>
             /\ RateHandoff(NextToRun) \/ RateHandoffFails(NextToRun)
    <3> DEFINE p == NextToRun
    <3>1. p \in Waiting /\ task_queue[p] = 1 /\ task_queue \in [Clients -> Nat]
      BY <1>1, <2>2, QueueFacts DEF Waiting, TypeOK
    <3> HIDE DEF p
    <3>2. RateHandoff(p) => Handoff(p)
      BY <3>1 DEF RateHandoff, Handoff, Waiting
    <3>3. Handoff(p) \/ HandoffFails(p)
      BY <2>2, <3>2 DEF RateHandoffFails, p
    <3> QED BY <1>3, <2>2, <3>1, <3>3 DEF RateFinished, ServesFinished
  <2> QED BY <1>3, <2>1, <2>2 DEF RateFinished
<1> QED BY <1>2, <1>3
     DEF RateNext, RateGate, RateMonitor, Terminated, Orderly, rateVars

\* A new entry keeps the order, and its client had none.
LEMMA PlacedKeeps ==
  ASSUME RateInv, NEW c \in Clients, NEW rate \in Rates, mon_buf = Request(c),
         rate_queue' = Placed(rate, c), task_queue' = [task_queue EXCEPT ![c] = @ + 1]
  PROVE  QueueInv'
<1> DEFINE s == rate_queue
           t == rate_queue'
<1>1. PICK n \in 0..Len(s) :
           /\ t \in Seq(Entries)
           /\ InsertedAt(t, s, n, Entry(rate, c))
           /\ \A k \in 1..Len(s) : k <= n <=> s[k].rate <= rate
  BY PlacedIs DEF RateInv
<1>2. /\ Len(s) \in Nat /\ rate \in Int
      /\ \A k \in 1..Len(s) : s[k].rate \in Int /\ s[k].pid \in Clients
      /\ task_queue[c] = 0
  BY QueueFacts, ReadAssumption DEF Waiting
<1>3. /\ Len(t) = Len(s) + 1
      /\ \A i \in 1..n : t[i] = s[i]
      /\ t[n + 1].rate = rate /\ t[n + 1].pid = c
      /\ \A i \in (n + 1)..Len(s) : t[i + 1] = s[i]
  BY <1>1 DEF InsertedAt, Entry
<1>4. /\ \A j, k \in 1..Len(s) : j < k => s[j].rate <= s[k].rate
      /\ \A j, k \in 1..Len(s) : s[j].pid = s[k].pid => j = k
      /\ \A k \in 1..Len(s) : task_queue[s[k].pid] = 1
      /\ \A d \in Waiting : \E k \in 1..Len(s) : s[k].pid = d
      /\ task_queue \in [Clients -> Nat]
  BY DEF RateInv, QueueInv, ClaimInv, ExclusionInv, TypeOK
<1>5. \A k \in 1..Len(s) : s[k].pid # c
  BY <1>2, <1>4
<1>6. ASSUME NEW k \in 1..Len(t)
      PROVE  \/ k <= n /\ k \in 1..Len(s) /\ t[k] = s[k]
             \/ k = n + 1
             \/ k > n + 1 /\ k - 1 \in 1..Len(s) /\ t[k] = s[k - 1]
  <2>1. CASE k <= n
    BY <1>2, <1>3, <2>1
  <2>2. CASE k > n + 1
    <3>1. /\ n \in Nat /\ k \in Int /\ Len(s) \in Nat
          /\ k <= Len(s) + 1
      BY <1>2, <1>3
    <3>2. k - 1 \in (n + 1)..Len(s) /\ (k - 1) + 1 = k
      BY <2>2, <3>1
    <3>3. k - 1 \in 1..Len(s)
      BY <2>2, <3>1
    <3> QED BY <1>3, <2>2, <3>2, <3>3
  <2> QED BY <1>2, <2>1, <2>2
<1> HIDE DEF s, t
<1>7. ASSUME NEW j \in 1..Len(t), NEW k \in 1..Len(t), j < k
      PROVE  t[j].rate <= t[k].rate
  <2>1. CASE k <= n
    BY <1>2, <1>3, <1>4, <1>6, <1>7, <2>1
  <2>2. CASE k = n + 1
    <3>1. j <= n /\ j \in 1..Len(s) /\ t[j] = s[j]
      BY <1>2, <1>6, <1>7, <2>2
    <3> QED BY <1>1, <1>3, <2>2, <3>1
  <2>3. CASE k > n + 1
    <3>1. k - 1 \in 1..Len(s) /\ t[k] = s[k - 1]
      BY <1>2, <1>6, <2>3
    <3>2. CASE j <= n
      <4>1. j \in 1..Len(s) /\ t[j] = s[j] /\ j < k - 1
        BY <1>2, <1>6, <2>3, <3>2
      <4> QED BY <1>4, <3>1, <4>1
    <3>3. CASE j = n + 1
      <4>1. ~(s[k - 1].rate <= rate)
        BY <1>1, <1>2, <2>3, <3>1
      <4> QED BY <1>2, <1>3, <3>1, <3>3, <4>1
    <3>4. CASE j > n + 1
      <4>1. j - 1 \in 1..Len(s) /\ t[j] = s[j - 1]
        <5>1. n \in Nat /\ j \in Nat /\ ~(j <= n) /\ j # n + 1
          BY <1>2, <3>4
        <5> QED BY <1>6, <5>1
      <4>2. j - 1 < k - 1
        BY <1>2, <1>7
      <4> QED BY <1>4, <3>1, <4>1, <4>2
    <3> QED BY <1>2, <3>2, <3>3, <3>4
  <2> QED BY <1>2, <2>1, <2>2, <2>3
<1>8. ASSUME NEW j \in 1..Len(t), NEW k \in 1..Len(t), t[j].pid = t[k].pid
      PROVE  j = k
  <2>1. CASE j = n + 1 \/ k = n + 1
    <3>1. \A i \in 1..Len(t) : i # n + 1 => t[i].pid # c
      BY <1>5, <1>6
    <3> QED BY <1>3, <1>8, <2>1, <3>1
  <2>2. CASE j # n + 1 /\ k # n + 1
    <3>1. PICK i \in 1..Len(s) : t[j] = s[i] /\ j = IF i <= n THEN i ELSE i + 1
      BY <1>2, <1>6, <2>2
    <3>2. PICK i2 \in 1..Len(s) : t[k] = s[i2] /\ k = IF i2 <= n THEN i2 ELSE i2 + 1
      BY <1>2, <1>6, <2>2
    <3>3. i = i2
      BY <1>4, <1>8, <3>1, <3>2
    <3> QED BY <3>1, <3>2, <3>3
  <2> QED BY <2>1, <2>2
<1>9. \A k \in 1..Len(t) : task_queue'[t[k].pid] = 1
  BY SMTT(30), <1>2, <1>3, <1>4, <1>5, <1>6
<1>10. ASSUME NEW d \in Waiting'
       PROVE  \E k \in 1..Len(t) : t[k].pid = d
  <2>1. CASE d = c
    <3>1. n + 1 \in 1..Len(t)
      BY <1>2, <1>3
    <3> QED BY <1>3, <2>1, <3>1
  <2>2. CASE d # c
    <3>1. d \in Waiting
      BY <1>4, <1>10, <2>2 DEF Waiting
    <3>2. PICK k \in 1..Len(s) : s[k].pid = d
      BY <1>4, <3>1
    <3>3. CASE k <= n
      <4>1. k \in 1..Len(t) /\ t[k] = s[k]
        BY <1>2, <1>3, <3>3
      <4> QED BY <3>2, <4>1
    <3>4. CASE ~(k <= n)
      <4>1. k + 1 \in 1..Len(t) /\ t[k + 1] = s[k]
        BY <1>2, <1>3, <3>4
      <4> QED BY <3>2, <4>1
    <3> QED BY <3>3, <3>4
  <2> QED BY <2>1, <2>2
<1> QED BY <1>1, <1>7, <1>8, <1>9, <1>10 DEF QueueInv, t

\* A handoff takes the first entry, the only one of its client.
LEMMA HandoffKeeps ==
  ASSUME RateInv, rate_queue # <<>>, RateHandoff(NextToRun)
  PROVE  QueueInv'
<1> DEFINE s == rate_queue
           t == rate_queue'
           p == NextToRun
<1>1. /\ s \in Seq(Entries) /\ s # <<>> /\ t = Tail(s)
      /\ Len(s) \in Nat /\ 1 \in 1..Len(s) /\ s[1].pid = p /\ p \in Clients
      /\ task_queue' = [task_queue EXCEPT ![p] = @ - 1] /\ task_queue[p] = 1
  BY QueueFacts DEF RateInv, QueueInv, RateHandoff, NextToRun, Waiting
<1>2. /\ \A j, k \in 1..Len(s) : j < k => s[j].rate <= s[k].rate
      /\ \A j, k \in 1..Len(s) : s[j].pid = s[k].pid => j = k
      /\ \A k \in 1..Len(s) : task_queue[s[k].pid] = 1
      /\ \A k \in 1..Len(s) : s[k].pid \in Clients
      /\ \A d \in Waiting : \E k \in 1..Len(s) : s[k].pid = d
      /\ task_queue \in [Clients -> Nat]
  BY QueueFacts DEF RateInv, QueueInv, ClaimInv, ExclusionInv, TypeOK, Waiting
<1> HIDE DEF s, t, p
<1>3. /\ t \in Seq(Entries) /\ Len(t) = Len(s) - 1
      /\ \A k \in 1..Len(t) : t[k] = s[k + 1]
  BY <1>1, HeadTailProperties
<1>4. \A k \in 1..Len(t) : k + 1 \in 1..Len(s) /\ k + 1 # 1
  BY <1>1, <1>3
<1>5. \A j, k \in 1..Len(t) : j < k => t[j].rate <= t[k].rate
  <2> TAKE j \in 1..Len(t), k \in 1..Len(t)
  <2>1. /\ j < k => j + 1 < k + 1
        /\ j + 1 \in 1..Len(s) /\ k + 1 \in 1..Len(s)
        /\ t[j] = s[j + 1] /\ t[k] = s[k + 1]
    BY <1>3, <1>4
  <2> QED BY <1>2, <2>1
<1>6. \A j, k \in 1..Len(t) : t[j].pid = t[k].pid => j = k
  <2> TAKE j \in 1..Len(t), k \in 1..Len(t)
  <2>1. /\ j + 1 = k + 1 => j = k
        /\ j + 1 \in 1..Len(s) /\ k + 1 \in 1..Len(s)
        /\ t[j] = s[j + 1] /\ t[k] = s[k + 1]
    BY <1>3, <1>4
  <2> QED BY <1>2, <2>1
<1>7. \A k \in 1..Len(t) : task_queue'[t[k].pid] = 1
  <2> TAKE k \in 1..Len(t)
  <2>1. t[k].pid \in Clients /\ t[k].pid # p /\ task_queue[t[k].pid] = 1
    BY <1>1, <1>2, <1>3, <1>4
  <2> QED BY <1>1, <1>2, <2>1
<1>8. ASSUME NEW d \in Waiting'
      PROVE  \E k \in 1..Len(t) : t[k].pid = d
  <2>1. d \in Waiting /\ d # p
    BY <1>1, <1>2, <1>8 DEF Waiting
  <2>2. PICK k \in 1..Len(s) : s[k].pid = d
    BY <1>2, <2>1
  <2>3. k # 1 /\ k - 1 \in 1..Len(t) /\ t[k - 1] = s[(k - 1) + 1] /\ (k - 1) + 1 = k
    BY <1>1, <1>3, <2>1, <2>2
  <2> QED BY <2>2, <2>3
<1> QED BY <1>3, <1>5, <1>6, <1>7, <1>8 DEF QueueInv, t

\* Every step keeps the queue sorted and in step with the entries it counts.
LEMMA RateStep == RateInv /\ [RateNext]_rateVars => RateInv'
<1> SUFFICES ASSUME RateInv, [RateNext]_rateVars PROVE RateInv'
  OBVIOUS
<1>1. ClaimInv'
  BY RateIsOrderly, OrderlyKeeps DEF RateInv
<1>2. ASSUME UNCHANGED <<task_queue, rate_queue>>
      PROVE  QueueInv'
  BY <1>2 DEF RateInv, QueueInv, Waiting
<1>3. ASSUME NEW c \in Clients, RateRequest(c)
      PROVE  QueueInv'
  BY <1>2, <1>3, PlacedKeeps DEF RateRequest, Handles
<1>4. ASSUME NEW c \in Clients, RateFinished(c)
      PROVE  QueueInv'
  BY <1>2, <1>4, HandoffKeeps DEF RateFinished, Release, RateHandoffFails, HandoffFails
<1>5. ASSUME NEW c \in Clients, Client(c)
      PROVE  task_queue' = task_queue
  BY <1>5 DEF Client, Register, CreateSegments, Beat, Ask, TakeToken, Finish, Close, Crash
<1>6. ASSUME \/ UNCHANGED rateVars \/ RateGate
             \/ (MonitorReceive \/ Tick \/ Terminated) /\ UNCHANGED rate_queue
      PROVE  QueueInv'
  <2>1. UNCHANGED <<task_queue, rate_queue>>
    BY <1>6 DEF rateVars, vars, RateGate, Gate, GateReceive, GateOpen, GateInsert,
                GateClose, MonitorReceive, Tick, Terminated
  <2> QED BY <1>2, <2>1
<1>7. QueueInv'
  BY <1>2, <1>3, <1>4, <1>5, <1>6 DEF RateNext, RateMonitor, DropUnknown
<1> QED BY <1>1, <1>7 DEF RateInv

\* The queue of waiting clients matches the clients throughout.
LEMMA RateKept == RateSpec => []RateInv
<1>1. RateInit => RateInv
  <2> SUFFICES ASSUME RateInit PROVE QueueInv
    BY InitClaims DEF RateInit, RateInv
  <2>1. rate_queue = <<>> /\ Len(<<>>) = 0 /\ Waiting = {}
    BY DEF RateInit, Init, Waiting
  <2> QED BY <2>1 DEF QueueInv
<1> QED BY <1>1, RateStep, PTL DEF RateSpec

-----------------------------------------------------------------------------
(* What the invariant gives.                                               *)

\* Every variable stays in its range, and the count of each client's entries
\* is right: an insert (monitor_hb_from_cli.cpp:150) and an erase of one
\* iterator (:141) change the multimap and the count together.
THEOREM RateTypeCorrect == RateSpec => []RateTypeOK
<1>1. ASSUME RateInv
      PROVE  RateTypeOK
  <2>1. TypeOK /\ rate_queue \in Seq([rate : Rates, pid : Clients])
    BY <1>1 DEF RateInv, ClaimInv, ExclusionInv, QueueInv, Entries
  <2>2. ASSUME NEW c \in Clients
        PROVE  task_queue[c] = Cardinality({k \in 1..Len(rate_queue) : rate_queue[k].pid = c})
    <3> DEFINE S == {k \in 1..Len(rate_queue) : rate_queue[k].pid = c}
    <3>1. CASE task_queue[c] = 0
      <4>1. S = {}
        BY <1>1, <3>1 DEF RateInv, QueueInv
      <4> QED BY <3>1, <4>1, FS_EmptySet
    <3>2. CASE task_queue[c] = 1
      <4>1. PICK k \in 1..Len(rate_queue) : rate_queue[k].pid = c
        BY <1>1, <3>2 DEF RateInv, QueueInv, Waiting
      <4>2. S = {k}
        BY <1>1, <4>1 DEF RateInv, QueueInv
      <4> QED BY <3>2, <4>2, FS_Singleton
    <3> QED BY <1>1, <3>1, <3>2, QueueFacts
  <2> QED BY <2>1, <2>2 DEF RateTypeOK
<1> QED BY <1>1, RateKept, PTL

\* Whoever busy names is accounted for: a grant, a handoff or a failed one
\* (monitor_hb_from_cli.cpp:115-147) never leaves the GPU held for nobody.
THEOREM RateHeldForSomebody == RateSpec => []HolderAccountedFor
<1>1. RateInit => HolderAccountedFor
  BY DEF RateInit, Init, HolderAccountedFor
<1>2. RateInv /\ RateInv' /\ HolderAccountedFor /\ [RateNext]_rateVars
      => HolderAccountedFor'
  BY RateIsOrderly, HolderStep DEF RateInv
<1> QED BY <1>1, <1>2, RateKept, PTL DEF RateSpec

\* The GPU is never free while a request is queued: the first entry gets it,
\* or a send fails and busy stays (monitor_hb_from_cli.cpp:115-147).
THEOREM RateNeverIdle == RateSpec => []WorkConserving
<1>1. RateInit => WorkConserving
  BY DEF RateInit, Init, WorkConserving, Waiting
<1>2. ASSUME RateInv, WorkConserving, [RateNext]_rateVars
      PROVE  WorkConserving'
  <2> USE DEF WorkConserving, Waiting
  <2>1. Orderly /\ task_queue \in [Clients -> Nat]
    BY <1>2, RateIsOrderly DEF RateInv, ClaimInv, ExclusionInv, TypeOK
  <2>2. CASE UNCHANGED <<busy, task_queue>>
    BY <1>2, <2>2
  <2>3. ASSUME NEW c \in Clients, ServesRequest(c)
        PROVE  WorkConserving'
    BY <1>2, <2>3, ClientsAssumption DEF ServesRequest, Grant, GrantFails
  <2>4. ASSUME NEW c \in Clients, ServesFinished(c)
        PROVE  WorkConserving'
    <3>1. CASE Release
      BY <1>2, <3>1 DEF Release
    <3>2. ASSUME busy # 0, NEW p \in Clients, Handoff(p) \/ HandoffFails(p)
          PROVE  WorkConserving'
      <4>1. CASE Handoff(p)
        <5>1. busy' = p /\ p # 0
          BY <4>1, ClientsAssumption DEF Handoff
        <5> QED BY <5>1
      <4>2. CASE HandoffFails(p)
        <5>1. busy' = busy
          BY <4>2 DEF HandoffFails
        <5> QED BY <3>2, <5>1
      <4> QED BY <3>2, <4>1, <4>2
    <3> QED BY <2>4, <3>1, <3>2 DEF ServesFinished
  <2>5. ASSUME \/ Gate \/ Tick \/ MonitorReceive \/ UNCHANGED vars
               \/ \E c \in Clients : Client(c) \/ DropUnknown(c)
        PROVE  UNCHANGED <<busy, task_queue>>
    BY <2>5 DEF Gate, GateReceive, GateOpen, GateInsert, GateClose, Tick,
                vars, MonitorReceive, DropUnknown, Client, Register, CreateSegments,
                Beat, Ask, TakeToken, Finish, Close, Crash
  <2> QED BY <2>1, <2>2, <2>3, <2>4, <2>5 DEF Orderly
<1> QED BY <1>1, <1>2, RateKept, PTL DEF RateSpec

\* This monitor too lets one client at a time run, keeps one claim of each
\* and leaves no entry of a client that has closed.
THEOREM RateClaims ==
  RateSpec => [](MutualExclusion /\ ExclusiveClaim /\ OneClaimPerClient /\ NoDanglingWaiter)
<1>1. RateInv => MutualExclusion
  BY DEF RateInv, ClaimInv, ExclusionInv, ExclusiveClaim, Claims, MutualExclusion
<1>2. RateInv => ExclusiveClaim /\ OneClaimPerClient /\ NoDanglingWaiter
  BY ClaimFacts DEF RateInv, ClaimInv, ExclusionInv
<1> QED BY <1>1, <1>2, RateKept, PTL

\* To its clients this monitor is the same arbiter as the other: the GPU goes
\* to a client that asked, when nobody uses it.
THEOREM RateIsArbiter == RateSpec => ImplementsArbiter
<1>1. RateInit => Arbiter!Init
  BY InitRefines DEF RateInit
<1>2. RateInv /\ [RateNext]_rateVars => [Arbiter!Next]_[c \in Clients |-> GpuStatus(c)]
  BY RateIsOrderly, OrderlyRefines DEF RateInv
<1>3. RateSpec => Arbiter!Init
  BY <1>1, PTL DEF RateSpec
<1>4. RateSpec => [][Arbiter!Next]_[c \in Clients |-> GpuStatus(c)]
  BY <1>2, RateKept, PTL DEF RateSpec
<1> QED BY <1>3, <1>4, PTL DEF ImplementsArbiter, Arbiter!Spec

-----------------------------------------------------------------------------
(* The order of service.                                                   *)

\* The elements of a queue are those at its positions.
LEMMA ElementsAt ==
  ASSUME NEW S, NEW s \in Seq(S), NEW e
  PROVE  e \in ToSet(s) <=> \E k \in 1..Len(s) : s[k] = e
BY LenProperties DEF ToSet

\* While the GPU is held and somebody waits, only a handoff sends a message.
LEMMA OnlyRateHandoffSends ==
  ASSUME RateInv, [RateNext]_rateVars, busy # 0, Waiting # {},
         NEW p \in Clients, reply'[p] > reply[p]
  PROVE  rate_queue # <<>> /\ p = NextToRun
<1>1. reply \in [Clients -> Nat]
  BY DEF RateInv, ClaimInv, ExclusionInv, TypeOK
<1>2. reply' # reply
  BY <1>1
<1>3. ASSUME NEW c \in Clients, TakeToken(c)
      PROVE  FALSE
  BY <1>1, <1>3 DEF TakeToken
<1>4. ASSUME NEW c \in Clients, RateFinished(c)
      PROVE  rate_queue # <<>> /\ p = NextToRun
  <2>1. rate_queue # <<>> /\ Sent(NextToRun)
    BY <1>2, <1>4 DEF RateFinished, Release, RateHandoff, RateHandoffFails,
                      HandoffFails, SendFail
  <2>2. NextToRun = p
    BY <1>1, <2>1 DEF Sent
  <2> QED BY <2>1, <2>2
<1> QED BY <1>2, <1>3, <1>4
     DEF RateNext, rateVars, vars, RateGate, Gate, GateReceive, GateOpen, GateInsert,
         GateClose, RateMonitor, MonitorReceive, DropUnknown, RateRequest, Tick,
         Terminated, Client, Register, CreateSegments, Beat, Ask, Finish, Close, Crash

\* The client that takes over (monitor_hb_from_cli.cpp:131) has the lowest
\* rate of all that wait, because begin() of a sorted queue is the least.
THEOREM SlowestRuns == RateSpec => SlowestRunsNext
<1>1. ASSUME RateInv, [RateNext]_rateVars
      PROVE  [\A p \in Clients :
                busy # 0 /\ Waiting # {} /\ reply'[p] > reply[p] =>
                  \E e \in ToSet(rate_queue) :
                    e.pid = p /\ \A f \in ToSet(rate_queue) : e.rate <= f.rate]_rateVars
  <2> SUFFICES ASSUME NEW p \in Clients,
                      busy # 0, Waiting # {}, reply'[p] > reply[p]
               PROVE  \E e \in ToSet(rate_queue) :
                        e.pid = p /\ \A f \in ToSet(rate_queue) : e.rate <= f.rate
    OBVIOUS
  <2>1. rate_queue # <<>> /\ p = NextToRun /\ rate_queue \in Seq(Entries)
    BY <1>1, OnlyRateHandoffSends DEF RateInv, QueueInv
  <2>2. 1 \in 1..Len(rate_queue) /\ rate_queue[1].pid = p
    BY <1>1, <2>1, QueueFacts DEF NextToRun
  <2>3. rate_queue[1] \in ToSet(rate_queue)
    BY <2>1, <2>2, ElementsAt
  <2>4. ASSUME NEW f \in ToSet(rate_queue)
        PROVE  rate_queue[1].rate <= f.rate
    <3>1. PICK k \in 1..Len(rate_queue) : rate_queue[k] = f
      BY <2>1, ElementsAt
    <3>2. CASE k = 1
      BY <1>1, <2>2, <3>1, <3>2, QueueFacts
    <3>3. CASE k # 1
      <4>1. 1 < k
        BY <1>1, <3>3, QueueFacts
      <4> QED BY <1>1, <2>2, <3>1, <4>1 DEF RateInv, QueueInv
    <3> QED BY <3>2, <3>3
  <2> QED BY <2>2, <2>3, <2>4
<1> QED BY <1>1, RateKept, PTL DEF RateSpec, SlowestRunsNext

\* Who is ahead of c, by positions.
LEMMA AheadAt ==
  ASSUME NEW S, NEW s \in Seq(S), NEW c, NEW f
  PROVE  f \in AheadOf(c, s) <=>
           \E j, k \in 1..Len(s) : j < k /\ s[j] = f /\ s[k].pid = c
BY ElementsAt DEF AheadOf

\* A new entry gets ahead of a client that waits only with a lower rate.
LEMMA PlacedOvertakes ==
  ASSUME RateInv, RateInv', NEW d \in Clients, NEW rate \in Rates, mon_buf = Request(d),
         rate_queue' = Placed(rate, d),
         NEW c \in Clients, NEW e \in ToSet(rate_queue), e.pid = c,
         NEW f \in AheadOf(c, rate_queue') \ AheadOf(c, rate_queue)
  PROVE  f.rate < e.rate
<1> DEFINE s == rate_queue
           t == rate_queue'
<1>1. PICK n \in 0..Len(s) :
           /\ t \in Seq(Entries)
           /\ InsertedAt(t, s, n, Entry(rate, d))
           /\ \A k \in 1..Len(s) : k <= n <=> s[k].rate <= rate
  BY PlacedIs DEF RateInv
<1>2. /\ Len(s) \in Nat /\ rate \in Int /\ s \in Seq(Entries) /\ t \in Seq(Entries)
      /\ \A k \in 1..Len(s) : s[k].rate \in Int /\ task_queue[s[k].pid] = 1
      /\ \A j, k \in 1..Len(s) : s[j].pid = s[k].pid => j = k
      /\ task_queue[d] = 0
  BY QueueFacts, ReadAssumption DEF RateInv, QueueInv
<1>3. /\ Len(t) = Len(s) + 1
      /\ \A i \in 1..n : t[i] = s[i]
      /\ t[n + 1] = Entry(rate, d)
      /\ \A i \in (n + 1)..Len(s) : t[i + 1] = s[i]
  BY <1>1 DEF InsertedAt
<1>4. PICK i \in 1..Len(s) : s[i] = e
  BY <1>2, ElementsAt
<1>5. c # d
  BY <1>2, <1>4
<1>6. PICK j \in 1..Len(t), k \in 1..Len(t) : j < k /\ t[j] = f /\ t[k].pid = c
  BY <1>2, AheadAt
<1>7. ~ \E j2, k2 \in 1..Len(s) : j2 < k2 /\ s[j2] = f /\ s[k2].pid = c
  BY <1>2, AheadAt
<1> HIDE DEF s, t
<1>8. k # n + 1
  BY <1>3, <1>5, <1>6 DEF Entry
<1>9. j = n + 1
  <2>1. CASE k <= n
    <3>1. j \in 1..Len(s) /\ k \in 1..Len(s) /\ t[j] = s[j] /\ t[k] = s[k]
      BY <1>2, <1>3, <1>6, <2>1
    <3> QED BY <1>6, <1>7, <3>1
  <2>2. CASE k > n + 1
    <3>1. k - 1 \in 1..Len(s) /\ t[k] = s[k - 1]
      <4>1. k - 1 \in (n + 1)..Len(s) /\ (k - 1) + 1 = k
        BY <1>2, <1>3, <1>6, <2>2
      <4> QED BY <1>2, <1>3, <4>1
    <3>2. CASE j <= n
      <4>1. j \in 1..Len(s) /\ t[j] = s[j] /\ j < k - 1
        BY <1>2, <1>3, <1>6, <2>2, <3>2
      <4> QED BY <1>6, <1>7, <3>1, <4>1
    <3>3. CASE j > n + 1
      <4>1. j - 1 \in (n + 1)..Len(s) /\ (j - 1) + 1 = j
        BY <1>2, <1>3, <1>6, <3>3
      <4>2. j - 1 \in 1..Len(s) /\ t[j] = s[j - 1] /\ j - 1 < k - 1
        BY <1>2, <1>3, <1>6, <4>1
      <4> QED BY <1>6, <1>7, <3>1, <4>2
    <3> QED BY <1>2, <3>2, <3>3
  <2> QED BY <1>2, <1>8, <2>1, <2>2
<1>10. f.rate = rate
  BY <1>3, <1>6, <1>9 DEF Entry
<1>11. k - 1 \in (n + 1)..Len(s) /\ (k - 1) + 1 = k
  BY <1>2, <1>3, <1>6, <1>9
<1>12. t[k] = s[k - 1] /\ k - 1 \in 1..Len(s) /\ ~(k - 1 <= n)
  BY SMTT(30), <1>2, <1>3, <1>11
<1>13. k - 1 = i
  BY <1>2, <1>4, <1>6, <1>12
<1>14. ~(s[i].rate <= rate) /\ s[i].rate \in Int
  BY <1>1, <1>2, <1>12, <1>13
<1> QED BY <1>2, <1>4, <1>10, <1>14

\* A client that waits is overtaken only by one with a lower rate
\* (monitor_hb_from_cli.cpp:150): equals are served in the order they asked.
THEOREM FifoAmongEquals == RateSpec => OvertakenBySlower
<1>1. ASSUME RateInv, RateInv', [RateNext]_rateVars
      PROVE  [\A c \in Clients, e \in ToSet(rate_queue) :
                e.pid = c =>
                  \A f \in AheadOf(c, rate_queue') \ AheadOf(c, rate_queue) :
                    f.rate < e.rate]_rateVars
  <2> SUFFICES ASSUME NEW c \in Clients, NEW e \in ToSet(rate_queue), e.pid = c,
                      NEW f \in AheadOf(c, rate_queue') \ AheadOf(c, rate_queue)
               PROVE  f.rate < e.rate
    OBVIOUS
  <2>1. rate_queue' # rate_queue
    OBVIOUS
  <2>2. ASSUME rate_queue # <<>>, rate_queue' = Tail(rate_queue)
        PROVE  FALSE
    <3>1. /\ rate_queue \in Seq(Entries) /\ rate_queue' \in Seq(Entries)
          /\ Len(rate_queue) \in Nat
      BY <1>1, QueueFacts DEF RateInv, QueueInv
    <3>2. /\ Len(rate_queue') = Len(rate_queue) - 1
          /\ \A k \in 1..Len(rate_queue') : rate_queue'[k] = rate_queue[k + 1]
      BY <2>2, <3>1, HeadTailProperties
    <3>3. PICK j \in 1..Len(rate_queue'), k \in 1..Len(rate_queue') :
            j < k /\ rate_queue'[j] = f /\ rate_queue'[k].pid = c
      BY <3>1, AheadAt
    <3>4. /\ j + 1 \in 1..Len(rate_queue) /\ k + 1 \in 1..Len(rate_queue) /\ j + 1 < k + 1
          /\ rate_queue[j + 1] = f /\ rate_queue[k + 1].pid = c
      BY <3>1, <3>2, <3>3
    <3>5. f \in AheadOf(c, rate_queue)
      BY <3>1, <3>4, AheadAt
    <3> QED BY <3>5
  <2>3. ASSUME NEW d \in Clients, RateRequest(d)
        PROVE  f.rate < e.rate
    BY <1>1, <2>1, <2>3, PlacedOvertakes DEF RateRequest, Handles
  <2>4. ASSUME NEW d \in Clients, RateFinished(d)
        PROVE  FALSE
    BY <2>1, <2>2, <2>4 DEF RateFinished, RateHandoff, RateHandoffFails
  <2> QED BY <1>1, <2>1, <2>3, <2>4 DEF RateNext, RateGate, RateMonitor, rateVars
<1> QED BY <1>1, RateKept, PTL DEF RateSpec, OvertakenBySlower

=============================================================================
