----------------------------- MODULE OrderProofs -----------------------------
(***************************************************************************)
(* Proofs about order: the delay set is sorted by due time, the delay      *)
(* thread does not sleep past the first, and the queues are first in,      *)
(* first out.                                                              *)
(***************************************************************************)
EXTENDS QueueProofs

-----------------------------------------------------------------------------
(* What a step does to the delay set and to the waiting of the delay thread. *)

\* push and requeue place an entry that was in no queue and not delayed.
Placing(e, r, d) ==
    /\ Place(e, r, d)
    /\ ~Contains(delayed, e)
    /\ \A p \in Priorities : ~Contains(queue[p], e)

SomePlacing == \E e \in Entries, r \in EntryType, d \in Nat : Placing(e, r, d)

LEMMA PushIsPlacing ==
    ASSUME TypeInv, OnePlace, NEW i \in Ids, NEW p \in Priorities,
           NEW d \in Delays, Push(i, p, d)
    PROVE  SomePlacing
  <1>0. TypeOK /\ \A x \in Entries : WellPlaced(x)
    BY DEF TypeInv, OnePlace
  <1>1. PICK e \in Entries : GetMsgEntry(e) /\ Place(e, Reset(i, p), d)
    BY DEF Push
  <1>2. e \notin Live
    <2>1. CASE pool = <<>>
      BY <1>1, <2>1 DEF GetMsgEntry, Unused
    <2>2. CASE pool # <<>>
      <3>1. e = Last(pool)
        BY <1>1, <2>2 DEF GetMsgEntry
      <3>2. Contains(pool, e)
        BY <1>0, <2>2, <3>1 DEF Contains, Last, TypeOK
      <3> QED
        BY <1>0, <3>2 DEF WellPlaced
    <2> QED
      BY <2>1, <2>2
  <1>3. Placing(e, Reset(i, p), d)
    BY <1>0, <1>1, <1>2 DEF WellPlaced, Placing
  <1>4. Reset(i, p) \in EntryType /\ d \in Nat
    BY ResetType, QueueAssumption
  <1> QED
    BY <1>3, <1>4 DEF SomePlacing

LEMMA RequeueIsPlacing ==
    ASSUME TypeInv, OnePlace, NEW i, NEW t, Accepts(i, t), NEW d \in Delays,
           AckImpl(i, TRUE, d)
    PROVE  SomePlacing
  <1>0. TypeOK /\ \A x \in Entries : WellPlaced(x)
    BY DEF TypeInv, OnePlace
  <1> DEFINE e == msgMap[i]
  <1>1. e \in Entries /\ entry[e].state = "running"
    BY <1>0 DEF Accepts, Mapped, TypeOK
  <1>2. Place(e, Released(e), d)
    BY DEF AckImpl
  <1>3. Released(e) \in EntryType /\ d \in Nat
    BY <1>0, <1>1, ReleasedType, QueueAssumption DEF Released, TypeOK
  <1> HIDE DEF e
  <1>4. Placing(e, Released(e), d)
    BY <1>0, <1>1, <1>2 DEF WellPlaced, Placing
  <1> QED
    BY <1>1, <1>3, <1>4 DEF SomePlacing

\* No step but these writes the delay set, the due times in it, or what the
\* delay thread waits for.
DelayKept ==
    /\ UNCHANGED <<delayed, delayPc, deadline>>
    /\ \A e \in Entries : Contains(delayed, e) => entry'[e].ts = entry[e].ts
    /\ lock' = "delay" => lock = "delay"

LEMMA DelaySteps ==
    ASSUME TypeInv, OnePlace, [Next]_vars
    PROVE  \/ DelayKept
           \/ SomePlacing /\ lock' # "delay"
           \/ DelayMove \/ DelayWake \/ DelaySleep \/ DelaySpuriousWakeup \/ Tick
  <1>0. TypeOK /\ NoRepetition /\ \A x \in Entries : WellPlaced(x)
    BY DEF TypeInv, OnePlace
  <1>1. ASSUME NEW i \in Ids, NEW p \in Priorities, NEW d \in Delays, Push(i, p, d)
        PROVE  SomePlacing /\ lock' # "delay"
    BY <1>1, PushIsPlacing DEF Push
  <1>2. ASSUME NEW w \in Workers, PopImpl(w), lock' # "delay" PROVE DelayKept
    <2>1. UNCHANGED <<delayed, delayPc, deadline>>
      BY <1>2 DEF PopImpl
    <2>2. CASE entry' = entry
      BY <1>2, <2>1, <2>2 DEF DelayKept
    <2>3. CASE Deliver(w)
      <3>1. PICK p \in Priorities :
              /\ queue[p] # <<>>
              /\ entry' = [entry EXCEPT ![Head(queue[p])] =
                      [@ EXCEPT !.state = "running", !.ts = 0, !.token = NewToken]]
        BY <2>3 DEF Deliver
      <3> DEFINE h == Head(queue[p])
      <3>2. h \in Entries /\ Contains(queue[p], h)
        <4>1. queue[p] \in Seq(Entries) /\ IsInjective(queue[p])
          BY <1>0 DEF TypeOK, NoRepetition
        <4> QED
          BY <3>1, <4>1, TailContains
      <3>3. \A x \in Entries : x # h => entry'[x] = entry[x]
        BY <1>0, <3>1, <3>2 DEF TypeOK
      <3> HIDE DEF h
      <3>4. ~Contains(delayed, h)
        BY <1>0, <3>2 DEF WellPlaced
      <3> QED
        BY <1>2, <2>1, <3>3, <3>4 DEF DelayKept
    <2> QED
      BY <1>2, <2>2, <2>3 DEF PopImpl
  <1>3. ASSUME NEW w \in Workers, Worker(w)
        PROVE  DelayKept \/ (SomePlacing /\ lock' # "delay")
    <2>1. CASE Pop(w) \/ PopResume(w) \/ PopAfterAck(w)
      BY <1>2, <2>1 DEF Pop, PopResume, PopAfterAck
    <2>2. ASSUME NEW requeue \in BOOLEAN, NEW d \in Delays,
                 Ack(w, requeue, d) \/ PopAck(w, requeue, d)
          PROVE  DelayKept \/ (SomePlacing /\ lock' # "delay")
      <3>1. /\ Accepts(lease[w].id, lease[w].token) /\ AckImpl(lease[w].id, requeue, d)
            /\ lock' # "delay"
        BY <2>2, QueueAssumption DEF Ack, PopAck
      <3>2. CASE requeue
        BY <3>1, <3>2, RequeueIsPlacing
      <3>3. CASE ~requeue
        BY <3>1, <3>3 DEF AckImpl, DelayKept
      <3> QED
        BY <3>2, <3>3
    <2>3. CASE \/ SpuriousWakeup(w) \/ DropLease(w)
               \/ ReadId(w) \/ ReadToken(w) \/ LoseMsg(w)
      BY <2>3 DEF SpuriousWakeup, ReadId, ReadToken, LoseMsg, DropLease, DelayKept
    <2> QED
      BY <1>3, <2>1, <2>2, <2>3 DEF Worker
  <1>4. ASSUME NEW i \in Ids, MonitorVisit(i) PROVE DelayKept
    <2> DEFINE e == msgMap[i]
    <2>1. e \in Entries /\ UNCHANGED <<lock, delayed, delayPc, deadline>>
      BY <1>0, <1>4 DEF MonitorVisit, TypeInv, ScanIsMapped, Mapped, TypeOK
    <2>2. \/ Fail(e) \/ Retry(e) \/ Boost(e) \/ UNCHANGED entry
      BY <1>4 DEF MonitorVisit
    <2> HIDE DEF e
    <2>3. CASE UNCHANGED entry
      BY <2>1, <2>3 DEF DelayKept
    <2>4. CASE Fail(e) \/ Retry(e) \/ Boost(e)
      <3>1. entry[e].state # "delayed" /\ \A x \in Entries : x # e => entry'[x] = entry[x]
        BY <1>0, <2>4 DEF Fail, Retry, Boost, TimedOut, Starving, TypeOK
      <3> QED
        BY <1>0, <2>1, <3>1 DEF WellPlaced, DelayKept
    <2> QED
      BY <2>2, <2>3, <2>4
  <1>5. ASSUME NEW i \in Ids, EraseVisit(i) PROVE DelayKept
    BY <1>5 DEF EraseVisit, DelayKept
  <1>6. CASE \/ \E ids \in SUBSET Ids : EraseFailed(ids)
             \/ EraseDone \/ MonitorWake \/ MonitorDone \/ UNCHANGED vars
    BY <1>6 DEF EraseFailed, EraseDone, MonitorWake, MonitorDone, vars, DelayKept
  <1> QED
    BY <1>1, <1>3, <1>4, <1>5, <1>6
    DEF Next, Publisher, Eraser, Monitor, DelayThread

\* Where placement puts a delayed entry, and what it leaves alone.
LEMMA PlacingInDelaySet ==
    ASSUME TypeOK, NEW e \in Entries, NEW r \in EntryType, NEW d \in Nat, Placing(e, r, d)
    PROVE  \/ DelayKept \/ lock' = "delay"
           \/ /\ \A x \in Entries : x # e => entry'[x] = entry[x]
              /\ entry'[e].ts = d
              /\ \E k \in 0 .. Len(delayed) :
                   /\ AfterEarlier(k, d)
                   /\ WakeForFirst(k)
                   /\ Len(delayed') = Len(delayed) + 1
                   /\ \A j \in 1 .. Len(delayed) + 1 :
                        delayed'[j] = IF j <= k THEN delayed[j]
                                      ELSE IF j = k + 1 THEN e ELSE delayed[j - 1]
  <1>1. CASE d > 0
    <2>1. InsertDelayed(e, r, d)
      BY <1>1 DEF Placing, Place
    <2>2. /\ \A x \in Entries : x # e => entry'[x] = entry[x]
          /\ entry'[e].ts = d
      BY <2>1 DEF InsertDelayed, TypeOK, EntryType
    <2>3. PICK k \in 0 .. Len(delayed) :
            /\ AfterEarlier(k, d)
            /\ delayed' = InsertAt(delayed, k + 1, e)
            /\ WakeForFirst(k)
      BY <2>1 DEF InsertDelayed
    <2> DEFINE n == k + 1
    <2>4. delayed \in Seq(Entries) /\ Len(delayed) \in Nat /\ n \in 1 .. Len(delayed) + 1
      BY DEF TypeOK
    <2>5. delayed' = InsertAt(delayed, n, e)
      BY <2>3
    <2> HIDE DEF n
    <2>6. /\ Len(delayed') = Len(delayed) + 1
          /\ \A j \in 1 .. Len(delayed) + 1 :
               delayed'[j] = IF j < n THEN delayed[j]
                             ELSE IF j = n THEN e ELSE delayed[j - 1]
      BY <2>4, <2>5, InsertAtProperties
    <2>7. \A j \in 1 .. Len(delayed) + 1 :
            delayed'[j] = IF j <= k THEN delayed[j]
                          ELSE IF j = k + 1 THEN e ELSE delayed[j - 1]
      BY <2>4, <2>6 DEF n
    <2> QED
      BY <2>2, <2>3, <2>6, <2>7
  <1>2. CASE ~(d > 0)
    <2>1. PushFront(e, r)
      BY <1>2 DEF Placing, Place
    <2>2. /\ \A x \in Entries : x # e => entry'[x] = entry[x]
          /\ UNCHANGED <<delayed, delayPc, deadline>>
      BY <2>1 DEF PushFront, TypeOK
    <2> QED
      BY <2>2 DEF Placing, DelayKept
  <1> QED
    BY <1>1, <1>2

LEMMA DelayedType ==
    ASSUME TypeOK
    PROVE  /\ Len(delayed) \in Nat
           /\ \A j \in 1 .. Len(delayed) : /\ delayed[j] \in Entries
                                           /\ entry[delayed[j]].ts \in Int
                                           /\ Contains(delayed, delayed[j])
  <1>1. \A e \in Entries : entry[e].ts \in Int
    BY DEF TypeOK, EntryType
  <1> QED
    BY <1>1 DEF TypeOK, Contains

LEMMA DelayOrderStep ==
    ASSUME TypeInv, OnePlace, DelayOrdered, [Next]_vars
    PROVE  DelayOrdered'
  <1>0. TypeOK /\ delayed \in Seq(Entries)
    BY DEF TypeInv, TypeOK
  <1>1. /\ Len(delayed) \in Nat
        /\ \A j \in 1 .. Len(delayed) : /\ delayed[j] \in Entries
                                        /\ entry[delayed[j]].ts \in Int
                                        /\ Contains(delayed, delayed[j])
    BY <1>0, DelayedType
  <1> DEFINE due(j) == entry[delayed[j]].ts
  <1>2. /\ \A j \in 1 .. Len(delayed) : due(j) \in Int
        /\ \A j, m \in 1 .. Len(delayed) : j < m => due(j) <= due(m)
    BY <1>1 DEF DelayOrdered
  <1>3. CASE DelayKept
    BY <1>1, <1>3 DEF DelayKept, DelayOrdered
  <1>4. ASSUME NEW e \in Entries, NEW r \in EntryType, NEW d \in Nat, Placing(e, r, d),
               lock' # "delay", ~DelayKept
        PROVE  DelayOrdered'
    <2>1. PICK k \in 0 .. Len(delayed) :
            /\ AfterEarlier(k, d)
            /\ Len(delayed') = Len(delayed) + 1
            /\ \A j \in 1 .. Len(delayed) + 1 :
                 delayed'[j] = IF j <= k THEN delayed[j]
                               ELSE IF j = k + 1 THEN e ELSE delayed[j - 1]
      BY <1>0, <1>4, PlacingInDelaySet
    <2>2. /\ \A x \in Entries : x # e => entry'[x] = entry[x]
          /\ entry'[e].ts = d
      BY <1>0, <1>4, PlacingInDelaySet
    <2>3. \A j \in 1 .. Len(delayed) : entry'[delayed[j]].ts = entry[delayed[j]].ts
      BY <1>1, <1>4, <2>2 DEF Placing
    <2> DEFINE new(j) == entry'[delayed'[j]].ts
    <2>4. \A j \in 1 .. Len(delayed) + 1 :
            new(j) = IF j <= k THEN due(j) ELSE IF j = k + 1 THEN d ELSE due(j - 1)
      BY <1>1, <2>1, <2>2, <2>3
    <2>5. \A j \in 1 .. Len(delayed) : j <= k <=> due(j) <= d
      BY <2>1 DEF AfterEarlier
    <2> HIDE DEF due, new
    <2>6. ASSUME NEW j \in 1 .. Len(delayed) + 1, NEW m \in 1 .. Len(delayed) + 1, j < m
          PROVE  new(j) <= new(m)
      <3>1. CASE m <= k
        BY <1>1, <1>2, <2>4, <2>6, <3>1
      <3>2. CASE j <= k /\ m = k + 1
        BY <1>1, <1>2, <2>4, <2>5, <2>6, <3>2
      <3>3. CASE m > k + 1
        <4>1. m - 1 \in 1 .. Len(delayed) /\ new(m) = due(m - 1) /\ due(m - 1) \in Int
          BY <1>1, <1>2, <2>4, <3>3
        <4>2. d < due(m - 1)
          BY <1>1, <1>2, <2>5, <3>3, <4>1
        <4>3. j <= k => due(j) <= d /\ due(j) \in Int /\ new(j) = due(j)
          BY <1>1, <1>2, <2>4, <2>5
        <4>4. j = k + 1 => new(j) = d
          BY <2>4
        <4>5. j > k + 1 => new(j) = due(j - 1) /\ due(j - 1) <= due(m - 1)
          BY <1>1, <1>2, <2>4, <2>6, <4>1
        <4> QED
          BY <4>1, <4>2, <4>3, <4>4, <4>5
      <3> QED
        BY <1>1, <2>6, <3>1, <3>2, <3>3
    <2> QED
      BY <2>1, <2>6 DEF DelayOrdered, new
  <1>5. CASE DelayMove
    <2> DEFINE h == Head(delayed)
    <2>1. delayed # <<>> /\ delayed' = Tail(delayed)
      BY <1>5 DEF DelayMove, SomeDue
    <2>2. h \in Entries /\ IsInjective(delayed) /\ h = delayed[1] /\ Len(delayed) # 0
      BY <1>0, <2>1 DEF OnePlace, NoRepetition
    <2>3. \A x \in Entries : x # h => entry'[x] = entry[x]
      BY <1>0, <1>5, <2>2 DEF DelayMove, TypeOK
    <2> HIDE DEF h
    <2>4. /\ Len(delayed') = Len(delayed) - 1
          /\ \A j \in 1 .. Len(delayed) - 1 : delayed'[j] = delayed[j + 1]
      BY <1>0, <2>1
    <2>5. \A j \in 1 .. Len(delayed) - 1 :
            delayed[j + 1] # h /\ delayed[j + 1] \in Entries
      BY <1>1, <2>2 DEF IsInjective
    <2>6. \A j \in 1 .. Len(delayed) - 1 :
            entry'[delayed'[j]].ts = due(j + 1) /\ j + 1 \in 1 .. Len(delayed)
      BY <1>1, <2>3, <2>4, <2>5
    <2> HIDE DEF due
    <2>7. ASSUME NEW j \in 1 .. Len(delayed) - 1, NEW m \in 1 .. Len(delayed) - 1, j < m
          PROVE  entry'[delayed'[j]].ts <= entry'[delayed'[m]].ts
      <3>1. due(j + 1) <= due(m + 1)
        BY <1>1, <1>2, <2>6, <2>7
      <3> QED
        BY <2>6, <3>1
    <2> QED
      BY <2>4, <2>7 DEF DelayOrdered
  <1>6. CASE Tick
    <2>1. UNCHANGED delayed
      BY <1>6 DEF Tick
    <2>2. \A x \in Entries : entry'[x].ts = IF entry[x].ts > -AgeCap THEN entry[x].ts - 1
                                            ELSE entry[x].ts
      BY <1>0, <1>6 DEF Tick, TypeOK, EntryType
    <2>3. AgeCap \in Int
      BY QueueAssumption DEF AgeCap
    <2>4. \A j \in 1 .. Len(delayed) :
            entry'[delayed'[j]].ts = IF due(j) > -AgeCap THEN due(j) - 1 ELSE due(j)
      BY <1>1, <2>1, <2>2
    <2> HIDE DEF due
    <2> QED
      BY <1>1, <1>2, <2>1, <2>3, <2>4 DEF DelayOrdered
  <1>7. CASE DelayWake \/ DelaySleep \/ DelaySpuriousWakeup
    BY <1>7 DEF DelayWake, DelaySleep, DelaySpuriousWakeup, DelayOrdered
  <1> QED
    BY <1>3, <1>4, <1>5, <1>6, <1>7, DelaySteps DEF SomePlacing

\* The set is sorted by a field that other operations write, and stays
\* sorted: they write it in entries that are not in the set.
THEOREM DelaySetIsOrdered == Spec => []DelayOrdered
  <1>1. Init => DelayOrdered
    BY DEF Init, DelayOrdered
  <1>2. TypeInv /\ OnePlace /\ DelayOrdered /\ [Next]_vars => DelayOrdered'
    BY DelayOrderStep
  <1>3. Spec => []TypeInv
    BY TypeInit, TypeStep, PTL DEF Spec
  <1>4. Spec => []OnePlace
    BY EveryEntryInOnePlace
  <1> QED
    BY <1>1, <1>2, <1>3, <1>4, PTL DEF Spec

-----------------------------------------------------------------------------
(* The delay thread's wait.  It holds the mutex only awake.                *)

DelayInv == DelayThreadInTime /\ (lock = "delay" => delayPc = "awake")

LEMMA DelayWaitStep ==
    ASSUME TypeInv, OnePlace, DelayInv, [Next]_vars
    PROVE  DelayInv'
  <1>0. TypeOK /\ delayed \in Seq(Entries)
    BY DEF TypeInv, TypeOK
  <1>1. /\ Len(delayed) \in Nat
        /\ \A j \in 1 .. Len(delayed) : /\ delayed[j] \in Entries
                                        /\ entry[delayed[j]].ts \in Int
                                        /\ Contains(delayed, delayed[j])
    BY <1>0, DelayedType
  <1>2. delayed # <<>> => Len(delayed) >= 1 /\ Head(delayed) = delayed[1]
    BY <1>0
  <1>3. CASE DelayKept
    <2>1. delayed # <<>> => entry'[Head(delayed)].ts = entry[Head(delayed)].ts
      BY <1>1, <1>2, <1>3 DEF DelayKept
    <2> QED
      BY <1>3, <2>1 DEF DelayKept, DelayInv, DelayThreadInTime
  <1>4. ASSUME NEW e \in Entries, NEW r \in EntryType, NEW d \in Nat, Placing(e, r, d),
               lock' # "delay", ~DelayKept
        PROVE  DelayInv'
    <2>1. PICK k \in 0 .. Len(delayed) :
            /\ WakeForFirst(k)
            /\ Len(delayed') = Len(delayed) + 1
            /\ \A j \in 1 .. Len(delayed) + 1 :
                 delayed'[j] = IF j <= k THEN delayed[j]
                               ELSE IF j = k + 1 THEN e ELSE delayed[j - 1]
      BY <1>0, <1>4, PlacingInDelaySet
    <2>2. CASE k = 0
      BY <1>4, <2>1, <2>2 DEF WakeForFirst, DelayInv, DelayThreadInTime
    <2>3. CASE k # 0
      <3>1. UNCHANGED <<delayPc, deadline>> /\ delayed # <<>> /\ Len(delayed) >= 1
        BY <1>1, <1>2, <2>1, <2>3 DEF WakeForFirst
      <3>2. delayed'[1] = delayed[1]
        BY <1>1, <2>1, <2>3
      <3>3. Head(delayed') = delayed'[1]
        BY <1>1, <2>1
      <3>4. entry'[delayed[1]].ts = entry[delayed[1]].ts
        <4>1. delayed[1] \in Entries /\ delayed[1] # e
          BY <1>1, <1>4, <3>1 DEF Placing
        <4> QED
          BY <1>0, <1>4, <4>1, PlacingInDelaySet
      <3> QED
        BY <1>2, <1>4, <3>1, <3>2, <3>3, <3>4 DEF DelayInv, DelayThreadInTime
    <2> QED
      BY <2>2, <2>3
  <1>5. CASE DelayMove
    BY <1>5 DEF DelayMove, DelayInv, DelayThreadInTime
  <1>6. CASE DelayWake
    BY <1>6 DEF DelayWake, DelayInv, DelayThreadInTime
  <1>7. CASE DelaySleep
    <2>1. CASE delayed = <<>>
      BY <1>7, <2>1 DEF DelaySleep, DelayInv, DelayThreadInTime
    <2>2. CASE delayed # <<>>
      BY <1>1, <1>2, <1>7, <2>2 DEF DelaySleep, DelayInv, DelayThreadInTime
    <2> QED
      BY <2>1, <2>2
  <1>8. CASE DelaySpuriousWakeup
    BY <1>8 DEF DelaySpuriousWakeup, DelayInv, DelayThreadInTime
  <1>9. CASE Tick
    <2>1. UNCHANGED <<lock, delayed, delayPc>> /\ lock = "free" /\ deadline \in Nat
          /\ deadline' = IF deadline > 0 THEN deadline - 1 ELSE deadline
      BY <1>0, <1>9 DEF Tick, TypeOK
    <2>2. \A x \in Entries : entry'[x].ts = IF entry[x].ts > -AgeCap THEN entry[x].ts - 1
                                            ELSE entry[x].ts
      BY <1>0, <1>9 DEF Tick, TypeOK, EntryType
    <2>3. AgeCap \in Int /\ AgeCap >= 1
      BY QueueAssumption DEF AgeCap
    <2>4. CASE delayed = <<>>
      BY <2>1, <2>4 DEF DelayInv, DelayThreadInTime
    <2>5. CASE delayed # <<>>
      <3> DEFINE h == Head(delayed)
      <3>1. h \in Entries /\ entry[h].ts \in Int
        BY <1>1, <1>2, <2>5
      <3> HIDE DEF h
      <3>2. deadline > 0 /\ deadline <= entry[h].ts => deadline' <= entry'[h].ts
        BY <2>1, <2>2, <2>3, <3>1
      <3>3. deadline = 0 => deadline' = 0
        BY <2>1
      <3>4. delayPc = "awake" \/ (delayPc = "wait_for" /\ (deadline = 0 \/ deadline <= entry[h].ts))
        BY <2>5 DEF DelayInv, DelayThreadInTime, h
      <3>5. delayPc' = "awake"
            \/ (delayPc' = "wait_for" /\ (deadline' = 0 \/ deadline' <= entry'[h].ts))
        BY <2>1, <3>2, <3>3, <3>4
      <3> QED
        BY <2>1, <3>5 DEF DelayInv, DelayThreadInTime, h
    <2> QED
      BY <2>4, <2>5
  <1> QED
    BY <1>3, <1>4, <1>5, <1>6, <1>7, <1>8, <1>9, DelaySteps DEF SomePlacing

\* The delay thread never sleeps past the first due time, whatever is pushed,
\* requeued or moved while it waits, and however late its wait_for returns.
THEOREM DelayThreadIsInTime == Spec => []DelayThreadInTime
  <1>1. Init => DelayInv
    BY DEF Init, DelayInv, DelayThreadInTime
  <1>2. TypeInv /\ OnePlace /\ DelayInv /\ [Next]_vars => DelayInv'
    BY DelayWaitStep
  <1>3. DelayInv => DelayThreadInTime
    BY DEF DelayInv
  <1>4. Spec => []TypeInv
    BY TypeInit, TypeStep, PTL DEF Spec
  <1>5. Spec => []OnePlace
    BY EveryEntryInOnePlace
  <1> QED
    BY <1>1, <1>2, <1>3, <1>4, <1>5, PTL DEF Spec

-----------------------------------------------------------------------------
(* First in, first out.                                                    *)

\* Nothing in t has more elements in front of it than in s.
NoneAhead(s, t) ==
    \A k \in 1 .. Len(s), m \in 1 .. Len(t) : t[m] = s[k] => m <= k

LEMMA SameAhead ==
    ASSUME NEW S, NEW s \in Seq(S), IsInjective(s)
    PROVE  NoneAhead(s, s)
  <1>1. \A k, m \in 1 .. Len(s) : s[m] = s[k] => m = k
    BY DEF IsInjective
  <1> QED
    BY <1>1 DEF NoneAhead

LEMMA AppendAhead ==
    ASSUME NEW S, NEW s \in Seq(S), IsInjective(s), NEW x \in S, ~Contains(s, x)
    PROVE  NoneAhead(s, Append(s, x))
  <1>1. /\ \A k, m \in 1 .. Len(s) : s[m] = s[k] => m = k
        /\ \A k \in 1 .. Len(s) : s[k] # x
    BY DEF IsInjective, Contains
  <1>2. /\ Len(s) \in Nat /\ Len(Append(s, x)) = Len(s) + 1
        /\ \A m \in 1 .. Len(s) + 1 :
             Append(s, x)[m] = IF m = Len(s) + 1 THEN x ELSE s[m]
    OBVIOUS
  <1> QED
    BY <1>1, <1>2 DEF NoneAhead

LEMMA TailAhead ==
    ASSUME NEW S, NEW s \in Seq(S), IsInjective(s), s # <<>>
    PROVE  NoneAhead(s, Tail(s))
  <1>1. \A k, m \in 1 .. Len(s) : s[m] = s[k] => m = k
    BY DEF IsInjective
  <1>2. /\ Len(s) \in Nat /\ Len(Tail(s)) = Len(s) - 1
        /\ \A m \in 1 .. Len(s) - 1 : Tail(s)[m] = s[m + 1] /\ m + 1 \in 1 .. Len(s)
    OBVIOUS
  <1> QED
    BY <1>1, <1>2 DEF NoneAhead

LEMMA RemoveAhead ==
    ASSUME NEW S, NEW s \in Seq(S), IsInjective(s), NEW n \in 1 .. Len(s)
    PROVE  NoneAhead(s, RemoveAt(s, n))
  <1>1. \A k, m \in 1 .. Len(s) : s[m] = s[k] => m = k
    BY DEF IsInjective
  <1>2. /\ Len(RemoveAt(s, n)) = Len(s) - 1
        /\ \A m \in 1 .. Len(s) - 1 : RemoveAt(s, n)[m] = IF m < n THEN s[m] ELSE s[m + 1]
    BY RemoveAtProperties
  <1>3. Len(s) \in Nat /\ \A m \in 1 .. Len(s) - 1 : m \in 1 .. Len(s) /\ m + 1 \in 1 .. Len(s)
    OBVIOUS
  <1> QED
    BY <1>1, <1>2, <1>3 DEF NoneAhead

InTurn == \A p \in Priorities : NoneAhead(queue[p], queue'[p])

LEMMA PlacingInTurn ==
    ASSUME TypeInv, OnePlace, NEW e \in Entries, NEW r \in EntryType, NEW d \in Nat,
           Placing(e, r, d)
    PROVE  InTurn
  <1>1. \A p \in Priorities : queue[p] \in Seq(Entries) /\ IsInjective(queue[p])
    BY DEF TypeInv, TypeOK, OnePlace, NoRepetition
  <1>2. CASE d > 0
    BY <1>1, <1>2, SameAhead DEF Placing, Place, InsertDelayed, InTurn
  <1>3. CASE ~(d > 0)
    <2>1. queue' = [queue EXCEPT ![r.priority] = Append(@, e)]
      BY <1>3 DEF Placing, Place, PushFront, AtFront
    <2>2. ASSUME NEW p \in Priorities PROVE NoneAhead(queue[p], queue'[p])
      <3>1. queue'[p] \in {queue[p], Append(queue[p], e)}
        BY <2>1 DEF TypeInv, TypeOK
      <3>2. ~Contains(queue[p], e)
        BY DEF Placing
      <3> QED
        BY <1>1, <3>1, <3>2, SameAhead, AppendAhead
    <2> QED
      BY <2>2 DEF InTurn
  <1> QED
    BY <1>2, <1>3

LEMMA MonitorInTurn ==
    ASSUME TypeInv, OnePlace, NEW i \in Ids, MonitorVisit(i)
    PROVE  InTurn
  <1>0. TypeOK /\ \A x \in Entries : WellPlaced(x)
    BY DEF TypeInv, OnePlace
  <1>1. \A p \in Priorities : queue[p] \in Seq(Entries) /\ IsInjective(queue[p])
    BY DEF TypeInv, TypeOK, OnePlace, NoRepetition
  <1> DEFINE e == msgMap[i]
  <1>2. e \in Entries /\ (Fail(e) \/ Retry(e) \/ Boost(e) \/ UNCHANGED queue)
    BY <1>0 DEF MonitorVisit, TypeInv, ScanIsMapped, Mapped, TypeOK
  <1> HIDE DEF e
  <1>3. CASE Fail(e) \/ UNCHANGED queue
    BY <1>1, <1>3, SameAhead DEF Fail, InTurn
  <1>4. CASE Retry(e)
    <2>1. queue' = [queue EXCEPT ![entry[e].priority] = Append(@, e)]
          /\ entry[e].state = "running"
      BY <1>4 DEF Retry, TimedOut, AtFront
    <2>2. ASSUME NEW p \in Priorities PROVE NoneAhead(queue[p], queue'[p])
      <3>1. queue'[p] \in {queue[p], Append(queue[p], e)}
        BY <1>0, <2>1 DEF TypeOK
      <3>2. ~Contains(queue[p], e)
        BY <1>0, <1>2, <2>1 DEF WellPlaced
      <3> QED
        BY <1>1, <1>2, <3>1, <3>2, SameAhead, AppendAhead
    <2> QED
      BY <2>2 DEF InTurn
  <1>5. CASE Boost(e)
    <2> DEFINE p == entry[e].priority
    <2>1. PICK k \in 1 .. Len(queue[p]) : queue[p][k] = e /\ queue' = Promoted(e, p, k)
      BY <1>5 DEF Boost
    <2>2. p \in Priorities /\ 0 \in Priorities /\ p # 0
      <3>1. p > 0
        BY <1>5 DEF Boost, Starving
      <3>2. p \in 0 .. PriorityCount - 1
        BY <1>0, <1>2 DEF TypeOK, EntryType, Priorities
      <3> QED
        BY <3>1, <3>2, QueueAssumption DEF Priorities
    <2> HIDE DEF p
    <2>3. /\ queue'[p] = RemoveAt(queue[p], k)
          /\ queue'[0] = Append(queue[0], e)
          /\ \A q \in Priorities : q # p /\ q # 0 => queue'[q] = queue[q]
      BY <1>0, <2>1, <2>2 DEF Promoted, AtFront, TypeOK
    <2>4. ~Contains(queue[0], e)
      <3>1. Contains(queue[p], e)
        BY <2>1 DEF Contains
      <3> QED
        BY <1>2, <2>2, <3>1 DEF OnePlace, NoRepetition
    <2>5. ASSUME NEW q \in Priorities PROVE NoneAhead(queue[q], queue'[q])
      <3>1. CASE q = p
        BY <1>1, <2>1, <2>3, <3>1, RemoveAhead
      <3>2. CASE q = 0
        BY <1>1, <1>2, <2>3, <2>4, <3>2, AppendAhead
      <3>3. CASE q # p /\ q # 0
        BY <1>1, <2>3, <3>3, SameAhead
      <3> QED
        BY <3>1, <3>2, <3>3
    <2> QED
      BY <2>5 DEF InTurn
  <1> QED
    BY <1>2, <1>3, <1>4, <1>5

LEMMA TurnStep ==
    ASSUME TypeInv, OnePlace, [Next]_vars, lock # "delay"
    PROVE  InTurn
  <1>1. \A p \in Priorities : queue[p] \in Seq(Entries) /\ IsInjective(queue[p])
    BY DEF TypeInv, TypeOK, OnePlace, NoRepetition
  <1>2. ASSUME UNCHANGED queue PROVE InTurn
    BY <1>1, <1>2, SameAhead DEF InTurn
  <1>3. ASSUME SomePlacing PROVE InTurn
    BY <1>3, PlacingInTurn DEF SomePlacing
  <1>4. ASSUME NEW i \in Ids, NEW p \in Priorities, NEW d \in Delays, Push(i, p, d)
        PROVE  InTurn
    BY <1>3, <1>4, PushIsPlacing
  <1>5. ASSUME NEW w \in Workers, PopImpl(w) PROVE InTurn
    <2>1. CASE Deliver(w)
      <3>1. PICK p \in Priorities :
              queue[p] # <<>> /\ queue' = [queue EXCEPT ![p] = Tail(@)]
        BY <2>1 DEF Deliver
      <3>2. ASSUME NEW q \in Priorities PROVE NoneAhead(queue[q], queue'[q])
        <4>1. CASE q = p
          BY <1>1, <3>1, <4>1, TailAhead DEF TypeInv, TypeOK
        <4>2. CASE q # p
          BY <1>1, <3>1, <4>2, SameAhead DEF TypeInv, TypeOK
        <4> QED
          BY <4>1, <4>2
      <3> QED
        BY <3>2 DEF InTurn
    <2>2. CASE UNCHANGED queue
      BY <1>2, <2>2
    <2> QED
      BY <1>5, <2>1, <2>2 DEF PopImpl
  <1>6. ASSUME NEW w \in Workers, Worker(w) PROVE InTurn
    <2>1. CASE Pop(w) \/ PopResume(w) \/ PopAfterAck(w)
      BY <1>5, <2>1 DEF Pop, PopResume, PopAfterAck
    <2>2. ASSUME NEW requeue \in BOOLEAN, NEW d \in Delays,
                 Ack(w, requeue, d) \/ PopAck(w, requeue, d)
          PROVE  InTurn
      <3>1. Accepts(lease[w].id, lease[w].token) /\ AckImpl(lease[w].id, requeue, d)
        BY <2>2 DEF Ack, PopAck
      <3>2. CASE requeue
        BY <1>3, <3>1, <3>2, RequeueIsPlacing
      <3>3. CASE ~requeue
        BY <1>2, <3>1, <3>3 DEF AckImpl
      <3> QED
        BY <3>2, <3>3
    <2>3. CASE \/ SpuriousWakeup(w) \/ DropLease(w)
               \/ ReadId(w) \/ ReadToken(w) \/ LoseMsg(w)
      BY <1>2, <2>3 DEF SpuriousWakeup, ReadId, ReadToken, LoseMsg, DropLease
    <2> QED
      BY <1>6, <2>1, <2>2, <2>3 DEF Worker
  <1>7. ASSUME NEW i \in Ids, MonitorVisit(i) PROVE InTurn
    BY <1>7, MonitorInTurn
  <1>8. CASE \/ \E ids \in SUBSET Ids : EraseFailed(ids)
             \/ \E i \in Ids : EraseVisit(i)
             \/ EraseDone \/ MonitorWake \/ MonitorDone
             \/ DelayWake \/ DelaySleep \/ DelaySpuriousWakeup \/ Tick \/ UNCHANGED vars
    BY <1>2, <1>8
    DEF EraseFailed, EraseVisit, EraseDone, MonitorWake, MonitorDone, DelayWake,
        DelaySleep, DelaySpuriousWakeup, Tick, vars
  <1>9. ~DelayMove
    BY DEF DelayMove
  <1> QED
    BY <1>4, <1>6, <1>7, <1>8, <1>9 DEF Next, Publisher, Eraser, Monitor, DelayThread

\* Unless the delay thread puts due messages ahead, a message never gets more
\* messages in front of it: boosting and retrying included.
THEOREM NobodyOvertakes == Spec => NoOvertaking
  <1>1. TypeInv /\ OnePlace /\ [Next]_vars =>
          [lock = "delay" \/
           \A p \in Priorities : \A k \in 1 .. Len(queue[p]), m \in 1 .. Len(queue'[p]) :
               queue'[p][m] = queue[p][k] => m <= k]_vars
    BY TurnStep DEF InTurn, NoneAhead
  <1>2. Spec => []TypeInv
    BY TypeInit, TypeStep, PTL DEF Spec
  <1>3. Spec => []OnePlace
    BY EveryEntryInOnePlace
  <1> QED
    BY <1>1, <1>2, <1>3, PTL DEF Spec, NoOvertaking

=============================================================================
