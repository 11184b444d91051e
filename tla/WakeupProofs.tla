---------------------------- MODULE WakeupProofs ----------------------------
(***************************************************************************)
(* Proof that no wakeup of a popping worker is lost: every way to queue a  *)
(* message is followed by a notification of its own, or by the monitor's   *)
(* at the end of its pass, before the lock is free again.                  *)
(***************************************************************************)
EXTENDS QueueProofs, FiniteSetTheorems

\* The messages the monitor has queued and has not notified anyone of.
Unannounced == IF lock = "monitor" THEN tally ELSE 0

\* NoLostWakeup, with names for its numbers.
Awaited(n) == Asleep = {} \/ Cardinality(Woken) + Unannounced >= n

LEMMA WakeupRestated == NoLostWakeup <=> Awaited(countQueued)
  BY DEF NoLostWakeup, Awaited, Unannounced

LEMMA WokenFinite ==
    /\ IsFiniteSet(Woken) /\ Cardinality(Woken) \in Nat
    /\ IsFiniteSet(Woken') /\ Cardinality(Woken') \in Nat
  <1>1. Woken \in SUBSET Workers /\ Woken' \in SUBSET Workers
    BY DEF Woken
  <1> QED
    BY <1>1, QueueAssumption, FS_Subset, FS_CardinalityType

\* notify_one wakes one more worker, if any sleeps.
LEMMA NotifyOneWakes ==
    ASSUME TypeOK, NotifyOne
    PROVE  \/ Asleep' = {}
           \/ Asleep # {} /\ Cardinality(Woken') = Cardinality(Woken) + 1
  <1>1. CASE Asleep = {}
    BY <1>1 DEF NotifyOne, Asleep
  <1>2. CASE Asleep # {}
    <2>1. PICK w \in Asleep : thread' = [thread EXCEPT ![w] = "woken"]
      BY <1>2 DEF NotifyOne
    <2>2. Woken' = Woken \cup {w} /\ w \notin Woken
      BY <2>1 DEF Asleep, Woken, TypeOK
    <2> QED
      BY <1>2, <2>2, WokenFinite, FS_AddElement
  <1> QED
    BY <1>1, <1>2

\* A message queued by an operation that holds the lock alone.
LEMMA OneMoreQueued ==
    ASSUME TypeInv, NoLostWakeup, countQueued' = countQueued + 1, NotifyOne,
           lock # "monitor", lock' # "monitor"
    PROVE  NoLostWakeup'
  <1>1. TypeOK /\ Unannounced = 0 /\ Unannounced' = 0 /\ countQueued \in Int
    BY DEF TypeInv, TypeOK, Unannounced
  <1>2. Awaited(countQueued)
    BY WakeupRestated
  <1>3. \/ Asleep' = {}
        \/ Asleep # {} /\ Cardinality(Woken') = Cardinality(Woken) + 1
    BY <1>1, NotifyOneWakes
  <1>4. Asleep' = {} \/ Cardinality(Woken') >= countQueued'
    BY <1>1, <1>2, <1>3, WokenFinite DEF Awaited
  <1> QED
    BY <1>4, WokenFinite DEF NoLostWakeup

\* Threads, count and what the monitor owes stay, or fewer are queued.
LEMMA NoMoreQueued ==
    ASSUME TypeInv, NoLostWakeup, UNCHANGED thread, UNCHANGED countQueued,
           Unannounced' = Unannounced
    PROVE  NoLostWakeup'
  BY DEF NoLostWakeup, Unannounced, Asleep, Woken

LEMMA PlaceWakes ==
    ASSUME TypeInv, NoLostWakeup, NEW e, NEW r, NEW d, Place(e, r, d),
           lock # "monitor", lock' # "monitor"
    PROVE  NoLostWakeup'
  <1>1. CASE d > 0
    <2>1. UNCHANGED <<thread, countQueued>>
      BY <1>1 DEF Place, InsertDelayed
    <2> QED
      BY <2>1, NoMoreQueued DEF Unannounced
  <1>2. CASE ~(d > 0)
    <2>1. countQueued' = countQueued + 1 /\ NotifyOne
      BY <1>2 DEF Place, PushFront
    <2> QED
      BY <2>1, OneMoreQueued
  <1> QED
    BY <1>1, <1>2

\* A worker that takes a message, or goes to sleep because there is none.
LEMMA PopWakes ==
    ASSUME TypeInv, NoLostWakeup, NEW w \in Workers, PopImpl(w),
           lock # "monitor", lock' # "monitor"
    PROVE  NoLostWakeup'
  <1>1. TypeOK /\ Unannounced = 0 /\ Unannounced' = 0 /\ countQueued \in Int
    BY DEF TypeInv, TypeOK, Unannounced
  <1>2. Cardinality(Woken) \in Nat /\ IsFiniteSet(Woken) /\ Cardinality(Woken') \in Nat
    BY WokenFinite
  <1>3. CASE countQueued = 0 /\ countQueued' = countQueued
    BY <1>1, <1>2, <1>3 DEF NoLostWakeup, Unannounced
  <1>4. CASE Deliver(w)
    <2>1. thread' = [thread EXCEPT ![w] = "returned"] /\ countQueued' = countQueued - 1
      BY <1>4 DEF Deliver
    <2>2. Woken' = Woken \ {w}
      BY <1>1, <2>1 DEF Woken, TypeOK
    <2>3. Asleep' \subseteq Asleep
      BY <1>1, <2>1 DEF Asleep, TypeOK
    <2>4. Cardinality(Woken') >= Cardinality(Woken) - 1
      BY <1>2, <2>2, FS_RemoveElement
    <2>5. Awaited(countQueued)
      BY WakeupRestated
    <2>6. Asleep' = {} \/ Cardinality(Woken') + Unannounced' >= countQueued'
      BY <1>1, <1>2, <2>1, <2>3, <2>4, <2>5 DEF Awaited
    <2> QED
      BY <2>6 DEF NoLostWakeup, Unannounced
  <1> QED
    BY <1>3, <1>4 DEF PopImpl

LEMMA MonitorWakes ==
    ASSUME TypeInv, NoLostWakeup,
           MonitorWake \/ MonitorDone \/ \E i \in Ids : MonitorVisit(i)
    PROVE  NoLostWakeup'
  <1>1. TypeOK /\ countQueued \in Int /\ tally \in Nat
    BY DEF TypeInv, TypeOK
  <1>2. Cardinality(Woken) \in Nat /\ Cardinality(Woken') \in Nat
    BY WokenFinite
  <1>3. CASE MonitorWake
    BY <1>3, NoMoreQueued DEF MonitorWake, Unannounced
  <1>4. ASSUME NEW i \in Ids, MonitorVisit(i) PROVE NoLostWakeup'
    <2> DEFINE e == msgMap[i]
    <2>1. UNCHANGED <<lock, thread>> /\ lock = "monitor"
      BY <1>4 DEF MonitorVisit
    <2>2. \/ Fail(e) \/ Retry(e) \/ Boost(e) \/ UNCHANGED <<countQueued, tally>>
      BY <1>4 DEF MonitorVisit
    <2> HIDE DEF e
    <2>3. \/ countQueued' = countQueued + 1 /\ tally' = tally + 1
          \/ countQueued' = countQueued /\ tally' = tally
      BY <2>2 DEF Fail, Retry, Boost
    <2>4. Asleep' = Asleep /\ Woken' = Woken
      BY <2>1 DEF Asleep, Woken
    <2>5. Asleep' = {} \/ Cardinality(Woken') + tally' >= countQueued'
      BY <1>1, <1>2, <2>1, <2>3, <2>4 DEF NoLostWakeup
    <2> QED
      BY <2>1, <2>5 DEF NoLostWakeup
  <1>5. CASE MonitorDone
    <2>1. /\ lock = "monitor" /\ lock' = "free" /\ tally' = 0
          /\ UNCHANGED countQueued /\ NotifyRetried
      BY <1>5 DEF MonitorDone
    <2>2. Asleep = {} \/ Cardinality(Woken) + tally >= countQueued
      BY <2>1 DEF NoLostWakeup
    <2>3. CASE tally = 0
      BY <1>1, <1>2, <2>1, <2>2, <2>3 DEF NotifyRetried, NoLostWakeup, Asleep, Woken
    <2>4. CASE tally = 1
      <3>1. NotifyOne
        BY <1>1, <2>1, <2>4 DEF NotifyRetried
      <3>2. \/ Asleep' = {}
            \/ Asleep # {} /\ Cardinality(Woken') = Cardinality(Woken) + 1
        BY <1>1, <3>1, NotifyOneWakes
      <3>3. Asleep' = {} \/ Cardinality(Woken') >= countQueued'
        BY <1>1, <1>2, <2>1, <2>2, <2>4, <3>2
      <3> QED
        BY <1>2, <2>1, <3>3 DEF NoLostWakeup
    <2>5. CASE tally > 1
      <3>1. NotifyAll
        BY <1>1, <2>1, <2>5 DEF NotifyRetried
      <3>2. Asleep' = {}
        BY <3>1 DEF NotifyAll, Asleep
      <3> QED
        BY <3>2 DEF NoLostWakeup
    <2> QED
      BY <1>1, <2>3, <2>4, <2>5
  <1> QED
    BY <1>3, <1>4, <1>5

LEMMA WakeupStep == TypeInv /\ NoLostWakeup /\ [Next]_vars => NoLostWakeup'
  <1> SUFFICES ASSUME TypeInv, NoLostWakeup, [Next]_vars PROVE NoLostWakeup'
    OBVIOUS
  <1>1. ASSUME NEW i \in Ids, NEW p \in Priorities, NEW d \in Delays, Push(i, p, d)
        PROVE  NoLostWakeup'
    <2>1. PICK e \in Entries : Place(e, Reset(i, p), d)
      BY <1>1 DEF Push
    <2>2. lock # "monitor" /\ lock' # "monitor"
      BY <1>1 DEF Push
    <2> QED
      BY <2>1, <2>2, PlaceWakes
  <1>2. ASSUME NEW w \in Workers, Worker(w) PROVE NoLostWakeup'
    <2>1. CASE Pop(w) \/ PopResume(w) \/ PopAfterAck(w)
      <3>1. PopImpl(w) /\ lock # "monitor" /\ lock' # "monitor"
        BY <2>1, QueueAssumption DEF Pop, PopResume, PopAfterAck
      <3> QED
        BY <3>1, PopWakes
    <2>2. ASSUME NEW requeue \in BOOLEAN, NEW d \in Delays,
                 Ack(w, requeue, d) \/ PopAck(w, requeue, d)
          PROVE  NoLostWakeup'
      <3> DEFINE i == lease[w].id
      <3>1. AckImpl(i, requeue, d) /\ lock # "monitor" /\ lock' # "monitor"
        BY <2>2, QueueAssumption DEF Ack, PopAck
      <3> HIDE DEF i
      <3>2. CASE requeue
        <4>1. Place(msgMap[i], Released(msgMap[i]), d)
          BY <3>1, <3>2 DEF AckImpl
        <4> QED
          BY <3>1, <4>1, PlaceWakes
      <3>3. CASE ~requeue
        BY <3>1, <3>3, NoMoreQueued DEF AckImpl, Unannounced
      <3> QED
        BY <3>2, <3>3
    <2>3. CASE SpuriousWakeup(w)
      <3>1. /\ thread' = [thread EXCEPT ![w] = "woken"] /\ thread[w] = "asleep"
            /\ UNCHANGED <<lock, tally, countQueued>>
        BY <2>3 DEF SpuriousWakeup
      <3>2. Woken' = Woken \cup {w} /\ w \notin Woken
        BY <3>1 DEF Woken, TypeInv, TypeOK
      <3>3. Cardinality(Woken') = Cardinality(Woken) + 1
        BY <3>2, WokenFinite, FS_AddElement
      <3>4. Asleep # {}
        BY <3>1 DEF Asleep
      <3> QED
        BY <3>1, <3>3, <3>4, WokenFinite DEF NoLostWakeup, TypeInv, TypeOK
    <2>4. CASE ReadId(w) \/ ReadToken(w) \/ LoseMsg(w)
      <3>1. /\ \E s \in {"reading", "out"} : thread' = [thread EXCEPT ![w] = s]
            /\ thread[w] \in {"returned", "reading"}
            /\ UNCHANGED <<lock, tally, countQueued>>
        BY <2>4 DEF ReadId, ReadToken, LoseMsg
      <3>2. Woken' = Woken /\ Asleep' = Asleep
        BY <3>1 DEF Woken, Asleep, TypeInv, TypeOK
      <3> QED
        BY <3>1, <3>2 DEF NoLostWakeup
    <2>5. CASE DropLease(w)
      BY <2>5, NoMoreQueued DEF DropLease, Unannounced
    <2> QED
      BY <1>2, <2>1, <2>2, <2>3, <2>4, <2>5 DEF Worker
  <1>3. CASE Monitor
    BY <1>3, MonitorWakes DEF Monitor
  <1>4. CASE DelayMove
    BY <1>4, OneMoreQueued DEF DelayMove
  <1>5. CASE \/ \E ids \in SUBSET Ids : EraseFailed(ids)
             \/ \E i \in Ids : EraseVisit(i)
             \/ EraseDone \/ DelayWake \/ DelaySleep \/ DelaySpuriousWakeup
             \/ Tick \/ UNCHANGED vars
    BY <1>5, NoMoreQueued
    DEF EraseFailed, EraseVisit, EraseDone, DelayWake, DelaySleep,
        DelaySpuriousWakeup, Tick, vars, Unannounced
  <1> QED
    BY <1>1, <1>2, <1>3, <1>4, <1>5 DEF Next, Publisher, Eraser, DelayThread

\* No wakeup is lost, for every number of workers and messages: notify_one
\* for one message, and one notification for all that a pass of the monitor
\* has queued, are enough.
THEOREM NoWakeupIsLost == Spec => []NoLostWakeup
  <1>1. Init => NoLostWakeup
    BY DEF Init, NoLostWakeup, Asleep
  <1>2. TypeInv /\ NoLostWakeup /\ [Next]_vars => NoLostWakeup'
    BY WakeupStep
  <1>3. Spec => []TypeInv
    BY TypeInit, TypeStep, PTL DEF Spec
  <1> QED
    BY <1>1, <1>2, <1>3, PTL DEF Spec

=============================================================================
