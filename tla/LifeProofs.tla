------------------------------ MODULE LifeProofs ------------------------------
(***************************************************************************)
(* Proofs about the life of a queue: that nothing of it is in use when it  *)
(* is freed, and that every invariant of Queue outlives the destructor's   *)
(* steps between those of the threads.                                     *)
(***************************************************************************)
EXTENDS QueueLife, MessageProofs, OrderProofs, WakeupProofs

\* Callers are inside only before the destructor begins; a thread that has
\* returned does not own the mutex and, as m_run never comes back, does not
\* run again; the destructor passes a join only behind the thread it joins.
\* delayTested is part of it: the delay thread that passed its first test
\* still owns the mutex.
LifeInv ==
    /\ lock \in {"free", "monitor", "delay", "erase"} \cup Workers
    /\ tally \in Nat
    /\ IF owner = "using" THEN run ELSE ~run /\ Quiet
    /\ monitorEnded => ~run /\ lock # "monitor"
    /\ delayEnded => ~run /\ lock # "delay"
    /\ owner \in {"joined_monitor", "joined", "freed"} => monitorEnded
    /\ owner \in {"joined", "freed"} => delayEnded
    /\ delayTested => lock = "delay"

-----------------------------------------------------------------------------
(* What users and threads leave alone.                                     *)

\* A caller does not take the mutex from the delay thread, and leaves it with
\* one of the owners there are.
LEMMA UsersLock ==
    ASSUME LifeInv, Publisher \/ Eraser \/ \E w \in Workers : Worker(w)
    PROVE  /\ lock' \in {"free", "monitor", "delay", "erase"} \cup Workers
           /\ tally' \in Nat
           /\ lock = "delay" => lock' = "delay"
  <1>1. CASE Publisher
    BY <1>1 DEF Publisher, Push, LifeInv
  <1>2. CASE Eraser
    BY <1>2 DEF Eraser, EraseFailed, EraseVisit, EraseDone, LifeInv
  <1>3. ASSUME NEW w \in Workers, Worker(w)
        PROVE  /\ lock' \in {"free", "monitor", "delay", "erase"} \cup Workers
               /\ tally' \in Nat
               /\ lock = "delay" => lock' = "delay"
    <2>1. CASE \/ Pop(w) \/ PopResume(w) \/ SpuriousWakeup(w) \/ DropLease(w)
               \/ ReadId(w) \/ ReadToken(w) \/ LoseMsg(w)
      BY <2>1
      DEF Pop, PopResume, SpuriousWakeup, DropLease, ReadId, ReadToken, LoseMsg,
          PopImpl, LifeInv
    <2>2. CASE PopAfterAck(w)
      BY <2>2, QueueAssumption DEF PopAfterAck, PopImpl, LifeInv
    <2>3. CASE \E requeue \in BOOLEAN, d \in Delays :
                 Ack(w, requeue, d) \/ PopAck(w, requeue, d)
      BY <2>3 DEF Ack, PopAck, LifeInv
    <2> QED
      BY <1>3, <2>1, <2>2, <2>3 DEF Worker
  <1> QED
    BY <1>1, <1>2, <1>3

\* With no caller inside there is nobody to notify.
LEMMA NobodyToNotify ==
    ASSUME tally \in Nat, \A w \in Workers : thread[w] = "out",
           NotifyOne \/ NotifyRetried
    PROVE  \A w \in Workers : thread'[w] = "out"
  <1>1. Asleep = {}
    BY DEF Asleep
  <1>2. CASE NotifyOne
    BY <1>1, <1>2 DEF NotifyOne
  <1>3. CASE NotifyRetried
    <2>1. tally = 0 \/ tally = 1 \/ tally > 1
      OBVIOUS
    <2>2. UNCHANGED thread \/ NotifyOne \/ NotifyAll
      BY <1>3, <2>1 DEF NotifyRetried
    <2>3. NotifyAll => \A w \in Workers : thread'[w] = thread[w]
      BY <1>1 DEF NotifyAll
    <2> QED
      BY <1>2, <2>2, <2>3
  <1> QED
    BY <1>2, <1>3

-----------------------------------------------------------------------------
LEMMA LifeInitially == LifeInit => LifeInv
  BY DEF LifeInit, Init, LifeInv

LEMMA LifeStep == LifeInv /\ [LifeNext]_wholeVars => LifeInv'
  <1> SUFFICES ASSUME LifeInv, [LifeNext]_wholeVars PROVE LifeInv'
    OBVIOUS
  <1> USE DEF LifeInv
  <1>1. CASE Users
    <2>1. owner = "using" /\ UNCHANGED lifeVars
      BY <1>1 DEF Users
    <2>2. /\ lock' \in {"free", "monitor", "delay", "erase"} \cup Workers
          /\ tally' \in Nat
          /\ lock = "delay" => lock' = "delay"
      BY <1>1, UsersLock DEF Users
    <2> QED
      BY <2>1, <2>2 DEF lifeVars
  <1>2. CASE Stop
    BY <1>2 DEF Stop, Quiet, vars
  <1>3. CASE NotifyThreads
    BY <1>3 DEF NotifyThreads, Quiet
  <1>4. CASE JoinMonitor
    BY <1>4 DEF JoinMonitor, Quiet, vars
  <1>5. CASE JoinDelay
    BY <1>5 DEF JoinDelay, Quiet, vars
  <1>6. CASE Free
    BY <1>6 DEF Free, Quiet
  <1>7. CASE MonitorGoesOn
    BY <1>7, QueueAssumption DEF MonitorGoesOn, MonitorWake, lifeVars, Quiet
  <1>8. CASE MonitorReturns
    BY <1>8 DEF MonitorReturns, vars, Quiet
  <1>9. CASE MonitorPassEnds
    <2>1. /\ lock = "monitor" /\ lock' = "free" /\ tally' = 0 /\ NotifyRetried
          /\ monitorEnded' = ~run /\ UNCHANGED <<run, owner, delayEnded, delayTested>>
      BY <1>9 DEF MonitorPassEnds, MonitorDone
    <2>2. owner # "using" => Quiet'
      BY <2>1, NobodyToNotify, QueueAssumption DEF Quiet
    <2> QED
      BY <2>1, <2>2
  <1>10. CASE DelayGoesOn
    BY <1>10, QueueAssumption DEF DelayGoesOn, DelayWake, lifeVars, Quiet
  <1>11. CASE DelayReturns
    BY <1>11 DEF DelayReturns, vars, Quiet
  <1>12. CASE DelayTest
    BY <1>12, QueueAssumption DEF DelayTest, Quiet
  <1>13. CASE DelayWaits
    BY <1>13, QueueAssumption DEF DelayWaits, DelaySleep, Quiet
  <1>14. ASSUME NEW i \in Ids, MonitorVisit(i), UNCHANGED lifeVars PROVE LifeInv'
    <2>1. UNCHANGED <<lock, thread>> /\ tally' \in {tally, tally + 1}
      BY <1>14 DEF MonitorVisit, Fail, Retry, Boost
    <2> QED
      BY <1>14, <2>1 DEF lifeVars, Quiet
  <1>15. CASE DelayMove /\ UNCHANGED lifeVars
    <2>1. UNCHANGED <<lock, tally>> /\ NotifyOne
      BY <1>15 DEF DelayMove
    <2>2. owner # "using" => Quiet'
      BY <2>1, NobodyToNotify DEF Quiet
    <2> QED
      BY <1>15, <2>1, <2>2 DEF lifeVars
  <1>16. CASE (DelaySpuriousWakeup \/ Tick) /\ UNCHANGED lifeVars
    BY <1>16 DEF DelaySpuriousWakeup, Tick, lifeVars, Quiet
  <1>17. CASE UNCHANGED wholeVars
    BY <1>17 DEF wholeVars, lifeVars, vars, Quiet
  <1>18. CASE ThreadStep
    BY <1>14, <1>15, <1>16, <1>18 DEF ThreadStep
  <1> QED
    BY <1>1, <1>2, <1>3, <1>4, <1>5, <1>6, <1>7, <1>8, <1>9, <1>10, <1>11,
       <1>12, <1>13, <1>17, <1>18 DEF LifeNext, Destructor

\* Whenever the memory of a queue is freed, for any number of workers and
\* messages and wherever the notification of the destructor falls, both
\* threads have returned, the mutex is free and no caller is inside.
THEOREM FreedWhenUnused == LifeSpec => []FreedLast
  <1>1. LifeInv => FreedLast
    BY DEF LifeInv, FreedLast, Quiet
  <1> QED
    BY <1>1, LifeInitially, LifeStep, PTL DEF LifeSpec

-----------------------------------------------------------------------------
(* The invariants of Queue, under the steps of QueueLife.                  *)

\* What the proofs about Queue carry from step to step.
QueueInv ==
    /\ TypeInv
    /\ OnePlace
    /\ CountersCount
    /\ TokensByStatus
    /\ AllocationBounded
    /\ DelayOrdered
    /\ DelayInv
    /\ NoLostWakeup

\* The steps that Queue does not have touch no message: they free the pool,
\* wake the delay thread, or give the mutex back as it returns.
ThreadsOnly ==
    /\ UNCHANGED <<msgMap, entry, queue, delayed, countQueued, countFailed,
                   scan, tally, thread, ref, lease>>
    /\ pool' = pool \/ pool' = <<>>
    /\ lock' = lock \/ (lock = "delay" /\ lock' = "free")
    /\ UNCHANGED <<delayPc, deadline>> \/ (delayPc' = "awake" /\ deadline' = 0)

LEMMA LifeStepOfQueue == [LifeNext]_wholeVars => [Next]_vars \/ ThreadsOnly
  <1> SUFFICES ASSUME [LifeNext]_wholeVars PROVE [Next]_vars \/ ThreadsOnly
    OBVIOUS
  <1>1. CASE Users \/ MonitorGoesOn \/ MonitorPassEnds \/ DelayGoesOn \/ DelayWaits \/ ThreadStep
    BY <1>1 DEF Users, MonitorGoesOn, MonitorPassEnds, DelayGoesOn, DelayWaits,
                ThreadStep, Next, Monitor, DelayThread
  <1>2. CASE Stop \/ JoinMonitor \/ JoinDelay \/ MonitorReturns \/ DelayReturns
    BY <1>2 DEF Stop, JoinMonitor, JoinDelay, MonitorReturns, DelayReturns
  <1>3. CASE NotifyThreads
    BY <1>3 DEF NotifyThreads, ThreadsOnly
  <1>4. CASE Free
    BY <1>4 DEF Free, ThreadsOnly
  <1>5. CASE DelayTest
    BY <1>5 DEF DelayTest, ThreadsOnly
  <1>6. CASE UNCHANGED wholeVars
    BY <1>6 DEF wholeVars
  <1> QED
    BY <1>1, <1>2, <1>3, <1>4, <1>5, <1>6 DEF LifeNext, Destructor

LEMMA QueueInvInitially == Init => QueueInv
  <1> SUFFICES ASSUME Init PROVE QueueInv
    OBVIOUS
  <1>1. TypeInv /\ OnePlace
    BY TypeInit, PlaceInit
  <1>2. Mapped = {}
    BY DEF Init, Mapped
  <1>3. CountersCount
    <2>1. InState("queued") = {} /\ InState("failed") = {}
      BY <1>2 DEF InState
    <2>2. countQueued = 0 /\ FailedNow = 0
      BY DEF Init, FailedNow
    <2> QED
      BY <2>1, <2>2, FS_EmptySet DEF CountersCount
  <1>4. TokensByStatus
    BY <1>2 DEF TokensByStatus, TokenOf, Status
  <1>5. AllocationBounded
    BY <1>2, FS_EmptySet, QueueAssumption DEF AllocationBounded, Init
  <1>6. DelayOrdered /\ DelayInv /\ NoLostWakeup
    BY DEF Init, DelayOrdered, DelayInv, DelayThreadInTime, NoLostWakeup, Asleep
  <1> QED
    BY <1>1, <1>3, <1>4, <1>5, <1>6 DEF QueueInv

LEMMA QueueInvStep == QueueInv /\ [Next]_vars => QueueInv'
  BY TypeStep, PlaceStep, CounterStep, TokenStep, AllocationStep,
     DelayOrderStep, DelayWaitStep, WakeupStep
  DEF QueueInv

\* An empty pool holds nothing twice, and no live entry.
LEMMA QueueInvUnderThreadsOnly ==
    ASSUME QueueInv, ThreadsOnly
    PROVE  QueueInv'
  <1>1. /\ UNCHANGED <<msgMap, entry, queue, delayed, countQueued, countFailed,
                       scan, tally, thread, ref, lease>>
        /\ pool' = pool \/ pool' = <<>>
        /\ lock' = lock \/ (lock = "delay" /\ lock' = "free")
        /\ UNCHANGED <<delayPc, deadline>> \/ (delayPc' = "awake" /\ deadline' = 0)
    BY DEF ThreadsOnly
  <1>2. TypeOK /\ RefIsEntry /\ ScanIsMapped
    BY DEF QueueInv, TypeInv
  <1>3. Mapped' = Mapped /\ Live' = Live /\ Asleep' = Asleep /\ Woken' = Woken
    BY <1>1 DEF Mapped, Live, Asleep, Woken
  <1>4. TypeInv'
    <2>1. pool' \in Seq(Entries)
      <3>1. <<>> \in Seq(Entries) /\ pool \in Seq(Entries)
        BY <1>2 DEF TypeOK
      <3> QED
        BY <1>1, <3>1
    <2>2. TypeOK'
      BY <1>1, <1>2, <2>1 DEF TypeOK
    <2>3. lock' = "monitor" => lock = "monitor"
      BY <1>1
    <2> QED
      BY <1>1, <1>2, <1>3, <2>2, <2>3 DEF TypeInv, RefIsEntry, ScanIsMapped
  <1>5. IsInjective(pool') /\ \A x \in Entries : Contains(pool', x) => Contains(pool, x)
    <2>1. IsInjective(pool)
      BY DEF QueueInv, OnePlace, NoRepetition
    <2>2. IsInjective(<<>>) /\ \A x : ~Contains(<<>>, x)
      BY DEF IsInjective, Contains
    <2> QED
      BY <1>1, <2>1, <2>2
  <1>6. OnePlace'
    <2>1. MapIndexesEntries'
      BY <1>1, <1>3 DEF QueueInv, OnePlace, MapIndexesEntries
    <2>2. NoRepetition'
      BY <1>1, <1>5 DEF QueueInv, OnePlace, NoRepetition
    <2>3. \A x \in Entries : WellPlaced(x)'
      BY <1>1, <1>3, <1>5 DEF QueueInv, OnePlace, WellPlaced
    <2> QED
      BY <2>1, <2>2, <2>3 DEF OnePlace
  <1>7. CountersCount'
    <2>1. FailedNow' = FailedNow
      BY <1>1 DEF FailedNow
    <2> QED
      BY <1>1, <1>3, <2>1 DEF QueueInv, CountersCount, InState
  <1>8. TokensByStatus'
    BY <1>1, <1>3 DEF QueueInv, TokensByStatus, TokenOf, Status
  <1>9. AllocationBounded'
    <2>1. Len(pool) \in Nat /\ Len(<<>>) = 0 /\ Cardinality(Mapped) \in Nat
      BY <1>2, MappedFinite DEF TypeOK
    <2> QED
      BY <1>1, <1>3, <2>1, QueueAssumption DEF QueueInv, AllocationBounded
  <1>10. DelayOrdered' /\ DelayInv'
    BY <1>1 DEF QueueInv, DelayOrdered, DelayInv, DelayThreadInTime
  <1>11. NoLostWakeup'
    BY <1>1, <1>3 DEF QueueInv, NoLostWakeup
  <1> QED
    BY <1>4, <1>6, <1>7, <1>8, <1>9, <1>10, <1>11 DEF QueueInv

LEMMA QueueInvHolds == LifeSpec => []QueueInv
  <1>1. LifeInit => QueueInv
    BY QueueInvInitially DEF LifeInit
  <1>2. QueueInv /\ [LifeNext]_wholeVars => QueueInv'
    BY LifeStepOfQueue, QueueInvStep, QueueInvUnderThreadsOnly
  <1> QED
    BY <1>1, <1>2, PTL DEF LifeSpec

\* Whatever is proved of Queue is true of a queue that is being destroyed,
\* however the destructor's steps fall between those of the threads: until
\* the end every message is in one place, the counters are right, tokens name
\* deliveries, the delay set is in order and its thread in time.
THEOREM SafeThroughDestruction ==
    LifeSpec => [](/\ TypeOK /\ OnePlace /\ CountsAgree /\ TokenNamesOneDelivery
                   /\ AllocationBounded /\ NoInternalError /\ DelayOrdered
                   /\ DelayThreadInTime /\ NoLostWakeup)
  <1>1. QueueInv => CountsAgree
    <2> SUFFICES ASSUME QueueInv PROVE CountsAgree
      OBVIOUS
    <2>1. TypeInv /\ CountersCount /\ AllocationBounded
      BY DEF QueueInv
    <2> QED
      BY <2>1, CountsFollow
  <1>2. QueueInv => TokenNamesOneDelivery
    BY TokensRestated DEF QueueInv, TypeInv
  <1>3. QueueInv => NoInternalError
    BY <1>1, NoErrorFollows DEF QueueInv
  <1>4. QueueInv => /\ TypeOK /\ OnePlace /\ AllocationBounded /\ DelayOrdered
                   /\ DelayThreadInTime /\ NoLostWakeup
    BY DEF QueueInv, TypeInv, DelayInv
  <1> QED
    BY <1>1, <1>2, <1>3, <1>4, QueueInvHolds, PTL

\* A queue keeps LeaseQueue's contract while it is destroyed: what the
\* destructor does, and what it makes the threads do, is invisible or one of
\* the contract's steps, wherever it falls.
THEOREM ContractThroughDestruction == LifeSpec => ImplementsLeaseQueue
  <1>1. LifeInit => Contract!Init
    BY ContractInitially DEF LifeInit
  <1>2. QueueInv => TypeInv /\ OnePlace /\ AllocationBounded /\ Abstraction
    BY Abstracted DEF QueueInv, TypeInv
  <1>3. ThreadsOnly => [Contract!Next]_Contract!vars
    <2> SUFFICES ASSUME ThreadsOnly PROVE UNCHANGED Contract!vars
      OBVIOUS
    <2>1. UNCHANGED <<msgMap, entry>>
      BY DEF ThreadsOnly
    <2>2. Mapped' = Mapped
      BY <2>1 DEF Mapped
    <2>3. AbsStatus' = AbsStatus /\ AbsToken' = AbsToken /\ AbsStrikes' = AbsStrikes
      BY <2>1, <2>2 DEF AbsStatus, AbsToken, AbsStrikes
    <2> QED
      BY <2>3 DEF Contract!vars
  <1>4. QueueInv /\ QueueInv' /\ [LifeNext]_wholeVars => [Contract!Next]_Contract!vars
    <2>1. QueueInv /\ QueueInv' /\ [Next]_vars => [Contract!Next]_Contract!vars
      <3>1. QueueInv' => Abstraction'
        BY <1>2, PTL
      <3> QED
        BY <1>2, <3>1, ContractStep
    <2> QED
      BY <1>3, <2>1, LifeStepOfQueue
  <1> QED
    BY <1>1, <1>4, QueueInvHolds, PTL DEF LifeSpec, ImplementsLeaseQueue, Contract!Spec

=============================================================================
