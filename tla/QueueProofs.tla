----------------------------- MODULE QueueProofs -----------------------------
(***************************************************************************)
(* Proofs about Queue.  TypeInv types the state; it needs to know that a   *)
(* worker which has returned from pop holds an entry, and that the ids the *)
(* monitor has yet to visit are in the map (it keeps the lock meanwhile).  *)
(***************************************************************************)
EXTENDS Queue, SequenceLemmas

\* The control states of a worker with a reference.
Referring    == {"returned", "reading"}
RefIsEntry   == \A w \in Workers : thread[w] \in Referring => ref[w] \in Entries
ScanIsMapped == lock = "monitor" => scan \subseteq Mapped
TypeInv      == TypeOK /\ RefIsEntry /\ ScanIsMapped

-----------------------------------------------------------------------------
(* Types of the helpers.                                                   *)

\* Notifying moves sleeping workers to "woken" and no others.
LEMMA NotifyTypes ==
    ASSUME TypeOK, NotifyOne \/ NotifyAll \/ UNCHANGED thread
    PROVE  /\ thread' \in [Workers -> ThreadStates]
           /\ \A w \in Workers : thread'[w] \in Referring => thread[w] \in Referring
  BY DEF TypeOK, NotifyOne, NotifyAll, Asleep, ThreadStates, Referring

LEMMA ResetType ==
    ASSUME NEW i \in Ids, NEW p \in Priorities
    PROVE  Reset(i, p) \in EntryType
  BY DEF Reset, EntryType

LEMMA ZeroIsInt == 0 \in Int
  OBVIOUS

\* The updates of an entry that placement, delivery and release make.
LEMMA StampedType ==
    ASSUME NEW r \in EntryType, NEW n \in Int
    PROVE  /\ [r EXCEPT !.state = "queued", !.ts = n] \in EntryType
           /\ [r EXCEPT !.state = "delayed", !.ts = n] \in EntryType
  <1>1. [r EXCEPT !.state = "queued", !.ts = n] \in EntryType
    BY DEF EntryType
  <1>2. [r EXCEPT !.state = "delayed", !.ts = n] \in EntryType
    BY DEF EntryType
  <1> QED
    BY <1>1, <1>2

LEMMA DeliveredType ==
    ASSUME NEW r \in EntryType, NEW n \in Int, NEW t \in Tokens \cup {NoToken}
    PROVE  [r EXCEPT !.state = "running", !.ts = n, !.token = t] \in EntryType
  BY DEF EntryType

LEMMA ReleasedType ==
    ASSUME NEW r \in EntryType
    PROVE  [r EXCEPT !.boosted = FALSE, !.token = NoToken] \in EntryType
  BY DEF EntryType

\* The updates the monitor and the clock make.
LEMMA MonitoredType ==
    ASSUME NEW r \in EntryType, NEW c \in 0 .. 255, NEW n \in Int
    PROVE  /\ [r EXCEPT !.failCount = c, !.state = "failed"] \in EntryType
           /\ [r EXCEPT !.failCount = c, !.state = "queued", !.token = NoToken] \in EntryType
           /\ [r EXCEPT !.boosted = TRUE] \in EntryType
           /\ [r EXCEPT !.ts = n] \in EntryType
  <1>1. [r EXCEPT !.failCount = c, !.state = "failed"] \in EntryType
    BY DEF EntryType
  <1>2. [r EXCEPT !.failCount = c, !.state = "queued", !.token = NoToken] \in EntryType
    BY DEF EntryType
  <1>3. [r EXCEPT !.boosted = TRUE] \in EntryType
    BY DEF EntryType
  <1>4. [r EXCEPT !.ts = n] \in EntryType
    BY DEF EntryType
  <1> QED
    BY <1>1, <1>2, <1>3, <1>4

\* What push and a requeue write.
LEMMA PlaceTypes ==
    ASSUME TypeOK, NEW e \in Entries, NEW r \in EntryType, NEW d \in Nat,
           Place(e, r, d)
    PROVE  /\ entry' \in [Entries -> EntryType]
           /\ queue' \in [Priorities -> Seq(Entries)]
           /\ delayed' \in Seq(Entries)
           /\ countQueued' \in Nat
           /\ delayPc' \in {"awake", "wait", "wait_for"}
           /\ deadline' \in Nat
           /\ thread' \in [Workers -> ThreadStates]
           /\ \A w \in Workers : thread'[w] \in Referring => thread[w] \in Referring
  <1>1. CASE d > 0
    <2>1. InsertDelayed(e, r, d)
      BY <1>1 DEF Place
    <2>2. entry' \in [Entries -> EntryType]
      <3>1. [r EXCEPT !.state = "delayed", !.ts = d] \in EntryType
        <4>1. d \in Int
          OBVIOUS
        <4> QED
          BY <4>1, StampedType
      <3> QED
        BY <2>1, <3>1 DEF InsertDelayed, TypeOK
    <2>3. delayed' \in Seq(Entries)
      <3>1. PICK k \in 0 .. Len(delayed) : delayed' = InsertAt(delayed, k + 1, e)
        BY <2>1 DEF InsertDelayed
      <3> QED
        BY <3>1, InsertAtProperties, k + 1 \in 1 .. Len(delayed) + 1 DEF TypeOK
    <2>4. delayPc' \in {"awake", "wait", "wait_for"} /\ deadline' \in Nat
      BY <2>1 DEF InsertDelayed, WakeForFirst, TypeOK
    <2> QED
      BY <2>1, <2>2, <2>3, <2>4 DEF InsertDelayed, TypeOK
  <1>2. CASE ~(d > 0)
    <2>1. PushFront(e, r)
      BY <1>2 DEF Place
    <2>2. entry' \in [Entries -> EntryType]
      <3>1. [r EXCEPT !.state = "queued", !.ts = 0] \in EntryType
        BY ZeroIsInt, StampedType
      <3> QED
        BY <2>1, <3>1 DEF PushFront, TypeOK
    <2>3. queue' \in [Priorities -> Seq(Entries)]
      BY <2>1 DEF PushFront, AtFront, TypeOK, EntryType
    <2> QED
      BY <2>1, <2>2, <2>3, NotifyTypes DEF PushFront, TypeOK
  <1> QED
    BY <1>1, <1>2

LEMMA GetMsgEntryTypes ==
    ASSUME TypeOK, NEW e \in Entries, GetMsgEntry(e)
    PROVE  pool' \in Seq(Entries)
  BY FrontProperties DEF GetMsgEntry, TypeOK

\* What a worker writes from its test of the count to its next wait.
LEMMA PopImplTypes ==
    ASSUME TypeOK, RefIsEntry, NEW w \in Workers, PopImpl(w)
    PROVE  /\ entry' \in [Entries -> EntryType]
           /\ queue' \in [Priorities -> Seq(Entries)]
           /\ countQueued' \in Nat
           /\ thread' \in [Workers -> ThreadStates]
           /\ ref' \in [Workers -> Entries \cup {NoEntry}]
           /\ RefIsEntry'
  <1>1. CASE countQueued = 0 /\ UNCHANGED <<entry, queue, countQueued, ref>>
             /\ thread' = [thread EXCEPT ![w] = "asleep"]
    BY <1>1 DEF TypeOK, RefIsEntry, ThreadStates, Referring
  <1>2. CASE countQueued # 0 /\ Deliver(w)
    <2>1. PICK p \in Priorities :
            /\ queue[p] # <<>>
            /\ queue' = [queue EXCEPT ![p] = Tail(@)]
            /\ entry' = [entry EXCEPT ![Head(queue[p])] =
                    [@ EXCEPT !.state = "running", !.ts = 0, !.token = NewToken]]
            /\ ref' = [ref EXCEPT ![w] = Head(queue[p])]
      BY <1>2 DEF Deliver
    <2>2. Head(queue[p]) \in Entries /\ Tail(queue[p]) \in Seq(Entries)
      BY <2>1 DEF TypeOK
    <2>3. NewToken \in Tokens \cup {NoToken}
      BY <1>2 DEF Deliver, NewToken, FreshTokens
    <2>4. entry' \in [Entries -> EntryType]
      <3> DEFINE e == Head(queue[p])
      <3>1. [entry[e] EXCEPT !.state = "running", !.ts = 0, !.token = NewToken] \in EntryType
        BY <2>2, <2>3, ZeroIsInt, DeliveredType DEF TypeOK
      <3> QED
        BY <2>1, <2>2, <3>1 DEF TypeOK
    <2>5. /\ thread' = [thread EXCEPT ![w] = "returned"]
          /\ countQueued' = countQueued - 1
      BY <1>2 DEF Deliver
    <2>6. countQueued' \in Nat
      BY <1>2, <2>5 DEF TypeOK
    <2> QED
      BY <2>1, <2>2, <2>4, <2>5, <2>6 DEF TypeOK, RefIsEntry, ThreadStates, Referring
  <1> QED
    BY <1>1, <1>2 DEF PopImpl

\* What ack and popAck write.
LEMMA AckImplTypes ==
    ASSUME TypeOK, NEW i, NEW t, Accepts(i, t), NEW requeue \in BOOLEAN,
           NEW d \in Delays, AckImpl(i, requeue, d)
    PROVE  /\ msgMap' \in [Ids -> Entries \cup {NoEntry}]
           /\ pool' \in Seq(Entries)
           /\ entry' \in [Entries -> EntryType]
           /\ queue' \in [Priorities -> Seq(Entries)]
           /\ delayed' \in Seq(Entries)
           /\ countQueued' \in Nat
           /\ delayPc' \in {"awake", "wait", "wait_for"}
           /\ deadline' \in Nat
           /\ thread' \in [Workers -> ThreadStates]
           /\ \A w \in Workers : thread'[w] \in Referring => thread[w] \in Referring
  <1> DEFINE e == msgMap[i]
  <1>1. i \in Ids /\ e \in Entries
    BY DEF Accepts, Mapped, TypeOK
  <1>2. CASE requeue
    <2>1. Released(e) \in EntryType
      BY <1>1, ReleasedType DEF Released, TypeOK
    <2>2. Place(e, Released(e), d) /\ UNCHANGED <<msgMap, pool>>
      BY <1>2 DEF AckImpl
    <2> HIDE DEF e
    <2> QED
      BY <1>1, <2>1, <2>2, PlaceTypes, QueueAssumption DEF TypeOK
  <1>3. CASE ~requeue
    <2>1. /\ pool' = Append(pool, e)
          /\ msgMap' = [msgMap EXCEPT ![i] = NoEntry]
          /\ UNCHANGED <<entry, queue, delayed, countQueued, delayPc, deadline, thread>>
      BY <1>3 DEF AckImpl
    <2> HIDE DEF e
    <2> QED
      BY <1>1, <2>1 DEF TypeOK
  <1> QED
    BY <1>2, <1>3

-----------------------------------------------------------------------------
(* Type correctness.                                                       *)

LEMMA TypeInit == Init => TypeInv
  <1> SUFFICES ASSUME Init PROVE TypeInv
    OBVIOUS
  <1>1. entry \in [Entries -> EntryType]
    <2>1. 0 \in Priorities
      BY QueueAssumption DEF Priorities
    <2> QED
      BY <2>1 DEF Init, Reset, EntryType
  <1>2. TypeOK
    BY <1>1 DEF Init, TypeOK, ThreadStates, NoLease, Leases
  <1> QED
    BY <1>2 DEF Init, TypeInv, RefIsEntry, ScanIsMapped, Referring

\* One step of each kind keeps the types.
LEMMA TypeStep == TypeInv /\ [Next]_vars => TypeInv'
  <1> SUFFICES ASSUME TypeInv, [Next]_vars PROVE TypeInv'
    OBVIOUS
  <1>0. TypeOK /\ RefIsEntry /\ ScanIsMapped
    BY DEF TypeInv
  <1>1. ASSUME NEW i \in Ids, NEW p \in Priorities, NEW d \in Delays, Push(i, p, d)
        PROVE  TypeInv'
    <2>1. PICK e \in Entries :
            /\ GetMsgEntry(e)
            /\ msgMap' = [msgMap EXCEPT ![i] = e]
            /\ Place(e, Reset(i, p), d)
      BY <1>1 DEF Push
    <2>2. d \in Nat /\ Reset(i, p) \in EntryType
      BY QueueAssumption, ResetType
    <2>3. pool' \in Seq(Entries)
      BY <1>0, <2>1, GetMsgEntryTypes
    <2>4. msgMap' \in [Ids -> Entries \cup {NoEntry}]
      BY <1>0, <2>1 DEF TypeOK
    <2>5. lock = "free" /\ UNCHANGED <<lock, countFailed, scan, tally, ref, lease>>
      BY <1>1 DEF Push
    <2>6. /\ entry' \in [Entries -> EntryType]
          /\ queue' \in [Priorities -> Seq(Entries)]
          /\ delayed' \in Seq(Entries)
          /\ countQueued' \in Nat
          /\ delayPc' \in {"awake", "wait", "wait_for"}
          /\ deadline' \in Nat
          /\ thread' \in [Workers -> ThreadStates]
          /\ \A w \in Workers : thread'[w] \in Referring => thread[w] \in Referring
      BY <1>0, <2>1, <2>2, PlaceTypes
    <2>7. TypeOK'
      BY <1>0, <2>3, <2>4, <2>5, <2>6 DEF TypeOK
    <2> QED
      BY <1>0, <2>5, <2>6, <2>7 DEF TypeInv, RefIsEntry, ScanIsMapped
  <1>2. ASSUME NEW w \in Workers, PopImpl(w), lock' \in {lock, "free"},
               lease' \in [Workers -> Leases]
        PROVE  TypeInv'
    <2>1. UNCHANGED <<msgMap, pool, delayed, countFailed, scan, tally, delayPc,
                      deadline>>
      BY <1>2 DEF PopImpl
    <2>2. TypeOK' /\ RefIsEntry'
      BY <1>0, <1>2, <2>1, PopImplTypes DEF TypeOK
    <2> QED
      BY <1>0, <1>2, <2>1, <2>2 DEF TypeInv, ScanIsMapped, Mapped
  <1>3. ASSUME NEW w \in Workers, SpuriousWakeup(w)
        PROVE  TypeInv'
    BY <1>0, <1>3 DEF SpuriousWakeup, TypeInv, TypeOK, RefIsEntry, ScanIsMapped, Mapped,
       ThreadStates, Referring
  <1>4. ASSUME NEW w \in Workers, ReadId(w) \/ ReadToken(w) \/ LoseMsg(w)
        PROVE  TypeInv'
    <2>1. ref[w] \in Entries
      BY <1>0, <1>4 DEF ReadId, ReadToken, LoseMsg, RefIsEntry, Referring
    <2>2. lease' \in [Workers -> Leases]
      <3> DEFINE r == entry[ref[w]]
                 l == lease[w]
      <3>0. /\ r.id \in Ids \cup {NoId} /\ r.token \in Tokens \cup {NoToken}
            /\ l \in Leases
        BY <1>0, <2>1 DEF TypeOK, EntryType
      <3>1. [id |-> r.id, token |-> NoToken] \in Leases
        BY <3>0 DEF Leases
      <3> HIDE DEF r, l
      <3>2. [l EXCEPT !.token = r.token] \in Leases
        BY <3>0 DEF Leases
      <3> USE DEF r, l
      <3>3. lease \in [Workers -> Leases]
        BY <1>0 DEF TypeOK
      <3>4. \/ UNCHANGED lease
            \/ \E n \in Leases : lease' = [lease EXCEPT ![w] = n]
        <4>1. CASE ReadId(w)
          BY <3>1, <4>1 DEF ReadId
        <4>2. CASE ReadToken(w)
          <5>1. lease' = [lease EXCEPT ![w] = [lease[w] EXCEPT !.token = entry[ref[w]].token]]
            BY <4>2 DEF ReadToken
          <5> QED
            BY <3>2, <5>1
        <4>3. CASE LoseMsg(w)
          BY <4>3 DEF LoseMsg
        <4> QED
          BY <1>4, <4>1, <4>2, <4>3
      <3> QED
        BY <3>3, <3>4
    <2>3. /\ thread' \in [Workers -> ThreadStates]
          /\ \A v \in Workers : thread'[v] \in Referring => thread[v] \in Referring
      BY <1>0, <1>4 DEF ReadId, ReadToken, LoseMsg, TypeOK, ThreadStates, Referring
    <2>4. /\ ref' \in [Workers -> Entries \cup {NoEntry}]
          /\ \A v \in Workers : thread'[v] \in Referring => ref'[v] = ref[v]
      BY <1>0, <1>4 DEF ReadId, ReadToken, LoseMsg, TypeOK, Referring
    <2>5. UNCHANGED <<lock, msgMap, entry, pool, queue, delayed, countQueued,
                      countFailed, scan, tally, delayPc, deadline>>
      BY <1>4 DEF ReadId, ReadToken, LoseMsg
    <2>6. TypeOK'
      BY <1>0, <2>2, <2>3, <2>4, <2>5 DEF TypeOK
    <2> QED
      BY <1>0, <2>3, <2>4, <2>5, <2>6 DEF TypeInv, RefIsEntry, ScanIsMapped, Mapped
  <1>5. ASSUME NEW w \in Workers, NEW requeue \in BOOLEAN, NEW d \in Delays,
               Ack(w, requeue, d) \/ PopAck(w, requeue, d)
        PROVE  TypeInv'
    <2>1. /\ Accepts(lease[w].id, lease[w].token)
          /\ AckImpl(lease[w].id, requeue, d)
          /\ lock = "free" /\ lock' \in {"free", w}
          /\ UNCHANGED <<countFailed, scan, tally, ref>>
      BY <1>5 DEF Ack, PopAck
    <2>2. lease' \in [Workers -> Leases]
      <3>1. NoLease \in Leases /\ lease[w] \in Leases
        BY <1>0 DEF TypeOK, NoLease, Leases
      <3>2. PICK l \in {lease[w], NoLease} : lease' = [lease EXCEPT ![w] = l]
        BY <1>5 DEF Ack, PopAck, Remembered
      <3> QED
        BY <1>0, <3>1, <3>2 DEF TypeOK
    <2>3. TypeOK' /\ \A v \in Workers : thread'[v] \in Referring => thread[v] \in Referring
      BY <1>0, <2>1, <2>2, AckImplTypes DEF TypeOK
    <2>4. lock' # "monitor"
      BY <2>1, QueueAssumption
    <2> QED
      BY <1>0, <2>1, <2>3, <2>4 DEF TypeInv, RefIsEntry, ScanIsMapped
  <1>6. ASSUME NEW w \in Workers, DropLease(w)
        PROVE  TypeInv'
    BY <1>0, <1>6 DEF DropLease, TypeInv, TypeOK, RefIsEntry, ScanIsMapped, Mapped, NoLease, Leases
  <1>7. ASSUME Eraser PROVE TypeInv'
    <2>1. ASSUME NEW ids \in SUBSET Ids, EraseFailed(ids) PROVE TypeInv'
      BY <1>0, <2>1 DEF EraseFailed, TypeInv, TypeOK, RefIsEntry, ScanIsMapped
    <2>2. ASSUME NEW i \in Ids, EraseVisit(i) PROVE TypeInv'
      <3>1. pool' \in Seq(Entries) /\ msgMap' \in [Ids -> Entries \cup {NoEntry}] /\ tally' \in Nat
        <4>1. CASE i \in InState("failed")
          <5>1. msgMap[i] \in Entries
            BY <1>0, <4>1 DEF TypeOK, InState, Mapped
          <5>2. /\ pool' = Append(pool, msgMap[i])
                /\ msgMap' = [msgMap EXCEPT ![i] = NoEntry]
                /\ tally' = tally + 1
            BY <2>2, <4>1 DEF EraseVisit
          <5> QED
            BY <1>0, <5>1, <5>2 DEF TypeOK
        <4>2. CASE i \notin InState("failed")
          BY <1>0, <2>2, <4>2 DEF EraseVisit, TypeOK
        <4> QED
          BY <4>1, <4>2
      <3> QED
        BY <1>0, <2>2, <3>1 DEF EraseVisit, TypeInv, TypeOK, RefIsEntry, ScanIsMapped
    <2>3. ASSUME EraseDone PROVE TypeInv'
      BY <1>0, <2>3 DEF EraseDone, TypeInv, TypeOK, RefIsEntry, ScanIsMapped
    <2> QED
      BY <1>7, <2>1, <2>2, <2>3 DEF Eraser
  <1>8. ASSUME MonitorWake PROVE TypeInv'
    BY <1>0, <1>8 DEF MonitorWake, TypeInv, TypeOK, RefIsEntry, ScanIsMapped, Mapped
  <1>9. ASSUME NEW i \in Ids, MonitorVisit(i) PROVE TypeInv'
    <2> DEFINE e == msgMap[i]
    <2>1. e \in Entries
      BY <1>0, <1>9 DEF MonitorVisit, TypeOK, ScanIsMapped, Mapped
    <2> HIDE DEF e
    <2>2. /\ entry' \in [Entries -> EntryType]
          /\ queue' \in [Priorities -> Seq(Entries)]
          /\ countQueued' \in Nat /\ countFailed' \in Int /\ tally' \in Nat
      <3>0. entry[e] \in EntryType
        BY <1>0, <2>1 DEF TypeOK
      <3>1. NextFailCount(e) \in 0 .. 255
        <4>1. entry[e].failCount \in 0 .. 255
          BY <3>0 DEF EntryType
        <4> QED
          BY <4>1 DEF NextFailCount
      <3>2. entry[e].priority \in Priorities
        BY <1>0, <2>1 DEF TypeOK, EntryType
      <3>3. CASE Fail(e)
        <4>1. [entry[e] EXCEPT !.failCount = NextFailCount(e), !.state = "failed"] \in EntryType
          BY <3>0, <3>1, ZeroIsInt, MonitoredType
        <4> QED
          BY <1>0, <2>1, <3>3, <4>1 DEF Fail, TypeOK
      <3>4. CASE Retry(e)
        <4>1. Retried(e) \in EntryType
          BY <3>0, <3>1, ZeroIsInt, MonitoredType DEF Retried
        <4>2. queue' \in [Priorities -> Seq(Entries)]
          BY <1>0, <2>1, <3>2, <3>4 DEF Retry, AtFront, TypeOK
        <4> QED
          BY <1>0, <2>1, <3>4, <4>1, <4>2 DEF Retry, TypeOK
      <3>5. CASE Boost(e)
        <4>1. entry' \in [Entries -> EntryType]
          <5>1. [entry[e] EXCEPT !.boosted = TRUE] \in EntryType
            BY <3>0, <3>1, ZeroIsInt, MonitoredType
          <5> QED
            BY <1>0, <2>1, <3>5, <5>1 DEF Boost, TypeOK
        <4>2. PICK k \in 1 .. Len(queue[entry[e].priority]) :
                queue' = Promoted(e, entry[e].priority, k)
          BY <3>5 DEF Boost
        <4>3. RemoveAt(queue[entry[e].priority], k) \in Seq(Entries)
          BY <1>0, <3>2, <4>2, RemoveAtProperties DEF TypeOK
        <4>4. queue' \in [Priorities -> Seq(Entries)]
          <5> DEFINE q == [queue EXCEPT ![entry[e].priority] = RemoveAt(@, k)]
          <5>1. q \in [Priorities -> Seq(Entries)]
            BY <1>0, <3>2, <4>3 DEF TypeOK
          <5>2. queue' = [q EXCEPT ![0] = Append(@, e)]
            BY <4>2 DEF Promoted, AtFront
          <5>3. 0 \in Priorities
            BY QueueAssumption DEF Priorities
          <5> HIDE DEF q
          <5> QED
            BY <2>1, <5>1, <5>2, <5>3
        <4> QED
          BY <1>0, <3>5, <4>1, <4>4 DEF Boost, TypeOK
      <3>6. CASE UNCHANGED <<entry, queue, countQueued, countFailed, tally>>
        BY <1>0, <3>6 DEF TypeOK
      <3> QED
        BY <1>9, <3>3, <3>4, <3>5, <3>6 DEF MonitorVisit, e
    <2> QED
      BY <1>0, <1>9, <2>2 DEF MonitorVisit, TypeInv, TypeOK, RefIsEntry, ScanIsMapped, Mapped
  <1>10. ASSUME MonitorDone PROVE TypeInv'
    <2>1. NotifyOne \/ NotifyAll \/ UNCHANGED thread
      <3>1. tally = 0 \/ tally = 1 \/ tally > 1
        BY <1>0 DEF TypeOK
      <3> QED
        BY <1>10, <3>1 DEF MonitorDone, NotifyRetried
    <2> QED
      BY <1>0, <1>10, <2>1, NotifyTypes DEF MonitorDone, TypeInv, TypeOK, RefIsEntry, ScanIsMapped
  <1>11. ASSUME DelayThread PROVE TypeInv'
    <2>1. ASSUME DelayWake \/ DelaySpuriousWakeup PROVE TypeInv'
      BY <1>0, <2>1 DEF DelayWake, DelaySpuriousWakeup, TypeInv, TypeOK, RefIsEntry, ScanIsMapped, Mapped
    <2>2. ASSUME DelayMove PROVE TypeInv'
      <3> DEFINE e == Head(delayed)
      <3>1. e \in Entries /\ Tail(delayed) \in Seq(Entries)
        BY <1>0, <2>2 DEF DelayMove, SomeDue, TypeOK
      <3>2. /\ entry' = [entry EXCEPT ![e] = [entry[e] EXCEPT !.state = "queued", !.ts = 0]]
            /\ queue' = [queue EXCEPT ![entry[e].priority] = AtBack(@, e)]
            /\ delayed' = Tail(delayed)
            /\ countQueued' = countQueued + 1
            /\ NotifyOne
            /\ UNCHANGED <<lock, msgMap, pool, countFailed, scan, tally, delayPc,
                           deadline, ref, lease>>
        BY <1>0, <2>2, <3>1 DEF DelayMove, TypeOK
      <3> HIDE DEF e
      <3>3. [entry[e] EXCEPT !.state = "queued", !.ts = 0] \in EntryType
        BY <1>0, <3>1, ZeroIsInt, StampedType DEF TypeOK
      <3>4. entry[e].priority \in Priorities
        BY <1>0, <3>1 DEF TypeOK, EntryType
      <3>5. queue' \in [Priorities -> Seq(Entries)]
        BY <1>0, <3>1, <3>2, <3>4 DEF AtBack, TypeOK
      <3>6. TypeOK' /\ RefIsEntry'
        BY <1>0, <3>1, <3>2, <3>3, <3>5, NotifyTypes DEF TypeOK, RefIsEntry
      <3> QED
        BY <1>0, <3>2, <3>6 DEF TypeInv, ScanIsMapped, Mapped
    <2>3. ASSUME DelaySleep PROVE TypeInv'
      <3>1. delayed # <<>> => Head(delayed) \in Entries
        BY <1>0 DEF TypeOK
      <3>2. delayed # <<>> => entry[Head(delayed)].ts \in Int
        BY <1>0, <3>1 DEF TypeOK, EntryType
      <3>3. deadline' \in Nat /\ delayPc' \in {"awake", "wait", "wait_for"}
        BY <2>3, <3>2 DEF DelaySleep, SomeDue
      <3> QED
        BY <1>0, <2>3, <3>3 DEF DelaySleep, TypeInv, TypeOK, RefIsEntry, ScanIsMapped
    <2> QED
      BY <1>11, <2>1, <2>2, <2>3 DEF DelayThread
  <1>12. ASSUME Tick PROVE TypeInv'
    <2>1. ASSUME NEW e \in Entries
          PROVE  entry'[e] \in EntryType
      <3> DEFINE r == entry[e]
                 n == IF r.ts > -AgeCap THEN r.ts - 1 ELSE r.ts
      <3>1. r \in EntryType
        BY <1>0 DEF TypeOK
      <3>2. n \in Int
        BY <3>1 DEF EntryType
      <3>3. entry'[e] = [r EXCEPT !.ts = n]
        BY <1>12 DEF Tick
      <3> HIDE DEF n, r
      <3>4. [r EXCEPT !.ts = n] \in EntryType
        BY <3>1, <3>2 DEF EntryType
      <3> QED
        BY <3>3, <3>4
    <2>2. entry' \in [Entries -> EntryType] /\ deadline' \in Nat
      BY <1>0, <1>12, <2>1 DEF Tick, TypeOK
    <2> QED
      BY <1>0, <1>12, <2>2 DEF Tick, TypeInv, TypeOK, RefIsEntry, ScanIsMapped, Mapped
  <1>13. CASE UNCHANGED vars
    BY <1>0, <1>13 DEF vars, TypeInv, TypeOK, RefIsEntry, ScanIsMapped, Mapped
  <1>14. ASSUME NEW w \in Workers, Worker(w) PROVE TypeInv'
    <2>1. Pop(w) \/ PopResume(w) \/ PopAfterAck(w) =>
            PopImpl(w) /\ lock' \in {lock, "free"} /\ lease' \in [Workers -> Leases]
      BY <1>0 DEF Pop, PopResume, PopAfterAck, Remembered, TypeOK, NoLease, Leases
    <2> QED
      BY <1>2, <1>3, <1>4, <1>5, <1>6, <1>14, <2>1 DEF Worker
  <1> QED
    BY <1>1, <1>7, <1>8, <1>9, <1>10, <1>11, <1>12, <1>13, <1>14
    DEF Next, Publisher, Monitor

\* Every variable keeps the type of the member it stands for.
THEOREM TypeCorrect == Spec => []TypeOK
  <1>1. Spec => []TypeInv
    BY TypeInit, TypeStep, PTL DEF Spec
  <1> QED
    BY <1>1, PTL DEF TypeInv

-----------------------------------------------------------------------------
(* Places.  Each action moves one entry; SamePlace frames the others.      *)

RepetitionFree(Q) ==
    /\ \A p \in Priorities : IsInjective(Q[p])
    /\ \A p, q \in Priorities, e \in Entries :
         Contains(Q[p], e) /\ Contains(Q[q], e) => p = q

\* The step leaves entry e where it is.
Unmoved(e) ==
    /\ e \in Live' <=> e \in Live
    /\ entry'[e].state = entry[e].state
    /\ entry'[e].priority = entry[e].priority
    /\ entry'[e].boosted = entry[e].boosted
    /\ \A p \in Priorities : Contains(queue'[p], e) <=> Contains(queue[p], e)
    /\ Contains(delayed', e) <=> Contains(delayed, e)
    /\ Contains(pool', e) <=> Contains(pool, e)

LEMMA SamePlace ==
    ASSUME NEW e \in Entries, WellPlaced(e), Unmoved(e)
    PROVE  WellPlaced(e)'
  BY DEF WellPlaced, Unmoved

LEMMA Enqueued ==
    ASSUME NEW Q \in [Priorities -> Seq(Entries)], RepetitionFree(Q),
           NEW p \in Priorities, NEW e \in Entries,
           \A q \in Priorities : ~Contains(Q[q], e),
           NEW R, R[p] = AtFront(Q[p], e) \/ R[p] = AtBack(Q[p], e),
           \A q \in Priorities : q # p => R[q] = Q[q]
    PROVE  /\ RepetitionFree(R)
           /\ \A q \in Priorities, x \in Entries :
                Contains(R[q], x) <=> Contains(Q[q], x) \/ (q = p /\ x = e)
  <1>1. Q[p] \in Seq(Entries) /\ IsInjective(Q[p]) /\ ~Contains(Q[p], e)
    BY DEF RepetitionFree
  <1>2. R[p] = Append(Q[p], e) \/ R[p] = <<e>> \o Q[p]
    BY DEF AtFront, AtBack
  <1>4. /\ IsInjective(R[p])
        /\ \A x : Contains(R[p], x) <=> Contains(Q[p], x) \/ x = e
    <2>1. /\ IsInjective(Append(Q[p], e))
          /\ \A x : Contains(Append(Q[p], e), x) <=> Contains(Q[p], x) \/ x = e
      BY <1>1, AppendContains
    <2>2. /\ IsInjective(<<e>> \o Q[p])
          /\ \A x : Contains(<<e>> \o Q[p], x) <=> Contains(Q[p], x) \/ x = e
      BY <1>1, ConsContains
    <2> QED
      BY <1>2, <2>1, <2>2
  <1>5. \A q \in Priorities, x \in Entries :
          Contains(R[q], x) <=> Contains(Q[q], x) \/ (q = p /\ x = e)
    BY <1>4
  <1> QED
    BY <1>4, <1>5 DEF RepetitionFree

LEMMA Dequeued ==
    ASSUME NEW Q, RepetitionFree(Q),
           NEW p \in Priorities, NEW e \in Entries, Contains(Q[p], e),
           NEW R, \A q \in Priorities : q # p => R[q] = Q[q],
           IsInjective(R[p]),
           \A x \in Entries : Contains(R[p], x) <=> Contains(Q[p], x) /\ x # e
    PROVE  /\ RepetitionFree(R)
           /\ \A q \in Priorities, x \in Entries :
                Contains(R[q], x) <=> Contains(Q[q], x) /\ x # e
  <1>1. \A q \in Priorities, x \in Entries :
          Contains(R[q], x) <=> Contains(Q[q], x) /\ x # e
    BY DEF RepetitionFree
  <1> QED
    BY <1>1 DEF RepetitionFree

\* A placed entry, free before, lies in its queue or in the delay set.
LEMMA PlaceMoves ==
    ASSUME TypeOK, NoRepetition, NEW e \in Entries, NEW r \in EntryType,
           NEW d \in Nat, Place(e, r, d), ~Contains(delayed, e),
           \A p \in Priorities : ~Contains(queue[p], e)
    PROVE  /\ RepetitionFree(queue') /\ IsInjective(delayed')
           /\ \A x \in Entries : x # e =>
                /\ entry'[x] = entry[x]
                /\ \A p \in Priorities : Contains(queue'[p], x) <=> Contains(queue[p], x)
                /\ Contains(delayed', x) <=> Contains(delayed, x)
           /\ entry'[e].id = r.id
           /\ entry'[e].priority = r.priority
           /\ \/ /\ entry'[e].state = "queued"
                 /\ \A p \in Priorities : Contains(queue'[p], e) <=> p = r.priority
                 /\ ~Contains(delayed', e)
              \/ /\ entry'[e].state = "delayed"
                 /\ \A p \in Priorities : ~Contains(queue'[p], e)
                 /\ Contains(delayed', e)
  <1>0. RepetitionFree(queue) /\ IsInjective(delayed)
    BY DEF NoRepetition, RepetitionFree
  <1>1. r.priority \in Priorities
    BY DEF EntryType
  <1>2. CASE d > 0
    <2>1. InsertDelayed(e, r, d)
      BY <1>2 DEF Place
    <2>2. PICK k \in 0 .. Len(delayed) : delayed' = InsertAt(delayed, k + 1, e)
      BY <2>1 DEF InsertDelayed
    <2>3. /\ IsInjective(delayed')
          /\ \A x : Contains(delayed', x) <=> Contains(delayed, x) \/ x = e
      <3>1. k + 1 \in 1 .. Len(delayed) + 1 /\ delayed \in Seq(Entries)
        BY DEF TypeOK
      <3> QED
        BY <1>0, <2>2, <3>1, InsertAtContains
    <2>4. /\ queue' = queue
          /\ entry' = [entry EXCEPT ![e] = [r EXCEPT !.state = "delayed", !.ts = d]]
      BY <2>1 DEF InsertDelayed
    <2>5. /\ entry'[e].id = r.id
          /\ entry'[e].priority = r.priority
          /\ entry'[e].state = "delayed"
          /\ \A x \in Entries : x # e => entry'[x] = entry[x]
      BY <2>4 DEF TypeOK, EntryType
    <2> QED
      BY <1>0, <2>3, <2>4, <2>5
  <1>3. CASE ~(d > 0)
    <2>1. PushFront(e, r)
      BY <1>3 DEF Place
    <2>2. /\ delayed' = delayed
          /\ queue' = [queue EXCEPT ![r.priority] = AtFront(@, e)]
          /\ entry' = [entry EXCEPT ![e] = [r EXCEPT !.state = "queued", !.ts = 0]]
      BY <2>1 DEF PushFront
    <2>3. /\ RepetitionFree(queue')
          /\ \A q \in Priorities, x \in Entries :
               Contains(queue'[q], x) <=> Contains(queue[q], x) \/ (q = r.priority /\ x = e)
      <3>1. queue \in [Priorities -> Seq(Entries)]
        BY DEF TypeOK
      <3>2. /\ queue'[r.priority] = AtFront(queue[r.priority], e)
            /\ \A q \in Priorities : q # r.priority => queue'[q] = queue[q]
        BY <1>1, <2>2, <3>1
      <3> QED
        BY <1>0, <1>1, <3>1, <3>2, Enqueued
    <2>4. /\ entry'[e].id = r.id
          /\ entry'[e].priority = r.priority
          /\ entry'[e].state = "queued"
          /\ \A x \in Entries : x # e => entry'[x] = entry[x]
      BY <2>2 DEF TypeOK, EntryType
    <2> QED
      BY <1>0, <2>2, <2>3, <2>4
  <1> QED
    BY <1>2, <1>3

\* The entries of two ids differ, and Live follows the map.
LEMMA LiveChanges ==
    ASSUME TypeOK, MapIndexesEntries, NEW i \in Ids
    PROVE  /\ Live \subseteq Entries
           /\ \A e \in Entries :
                msgMap[i] \in {NoEntry, e} /\ msgMap' = [msgMap EXCEPT ![i] = e]
                  => Live' = Live \cup {e}
           /\ msgMap[i] # NoEntry /\ msgMap' = [msgMap EXCEPT ![i] = NoEntry]
                => Live' = Live \ {msgMap[i]}
  <1>1. Live \subseteq Entries
    BY DEF Live, Mapped, TypeOK
  <1>2. NoEntry \notin Entries
    BY QueueAssumption
  <1>3. ASSUME NEW e \in Entries, msgMap[i] \in {NoEntry, e},
               msgMap' = [msgMap EXCEPT ![i] = e]
        PROVE  Live' = Live \cup {e}
    BY <1>2, <1>3 DEF Live, Mapped, TypeOK
  <1>4. ASSUME msgMap[i] # NoEntry, msgMap' = [msgMap EXCEPT ![i] = NoEntry]
        PROVE  Live' = Live \ {msgMap[i]}
    <2>1. \A j \in Mapped : msgMap[j] = msgMap[i] => i = j
      BY <1>4 DEF MapIndexesEntries, Mapped
    <2>2. Mapped' = Mapped \ {i} /\ \A j \in Mapped' : msgMap'[j] = msgMap[j]
      BY <1>4 DEF Mapped, TypeOK
    <2> QED
      BY <1>4, <2>1, <2>2 DEF Live, Mapped
  <1> QED
    BY <1>1, <1>3, <1>4

LEMMA PlaceInit == Init => OnePlace
  <1> SUFFICES ASSUME Init PROVE OnePlace
    OBVIOUS
  <1>1. Live = {} /\ Mapped = {}
    BY DEF Init, Live, Mapped
  <1>2. \A x : ~Contains(<<>>, x)
    BY DEF Contains
  <1>3. IsInjective(<<>>)
    BY DEF IsInjective
  <1> QED
    BY <1>1, <1>2, <1>3
    DEF Init, OnePlace, MapIndexesEntries, NoRepetition, WellPlaced

\* A published message gets an entry no message uses.
LEMMA PushPlaces ==
    ASSUME TypeInv, OnePlace, NEW i \in Ids, NEW p \in Priorities,
           NEW d \in Delays, Push(i, p, d)
    PROVE  OnePlace'
  <1>0. TypeOK /\ NoRepetition /\ MapIndexesEntries /\ \A x \in Entries : WellPlaced(x)
    BY DEF TypeInv, OnePlace
  <1>1. PICK e \in Entries :
          /\ GetMsgEntry(e)
          /\ msgMap' = [msgMap EXCEPT ![i] = e]
          /\ Place(e, Reset(i, p), d)
    BY DEF Push
  <1>2. msgMap[i] = NoEntry /\ i \notin Mapped
    BY DEF Push, Mapped
  <1>3. /\ e \notin Live
        /\ ~Contains(pool', e) /\ IsInjective(pool')
        /\ \A x \in Entries : x # e => (Contains(pool', x) <=> Contains(pool, x))
    <2>1. IsInjective(pool) /\ pool \in Seq(Entries)
      BY <1>0 DEF NoRepetition, TypeOK
    <2>2. CASE pool = <<>>
      <3>1. e \in Unused /\ pool' = pool
        BY <1>1, <2>2 DEF GetMsgEntry
      <3>2. ~Contains(pool, e)
        BY <2>2 DEF Contains
      <3> QED
        BY <2>1, <3>1, <3>2 DEF Unused
    <2>3. CASE pool # <<>>
      <3>1. e = Last(pool) /\ pool' = Front(pool)
        BY <1>1, <2>3 DEF GetMsgEntry
      <3>2. /\ Contains(pool, Last(pool)) /\ IsInjective(Front(pool))
            /\ \A x : Contains(Front(pool), x) <=> Contains(pool, x) /\ x # Last(pool)
        BY <2>1, <2>3, FrontContains
      <3> QED
        BY <1>0, <3>1, <3>2 DEF WellPlaced
    <2> QED
      BY <2>2, <2>3
  <1>4. Live' = Live \cup {e} /\ Live \subseteq Entries
    BY <1>0, <1>1, <1>2, LiveChanges
  <1>5. ~Contains(delayed, e) /\ \A q \in Priorities : ~Contains(queue[q], e)
    BY <1>0, <1>3 DEF WellPlaced
  <1>6. Reset(i, p) \in EntryType /\ d \in Nat
    BY ResetType, QueueAssumption
  <1>7. /\ RepetitionFree(queue') /\ IsInjective(delayed')
        /\ \A x \in Entries : x # e =>
             /\ entry'[x] = entry[x]
             /\ \A q \in Priorities : Contains(queue'[q], x) <=> Contains(queue[q], x)
             /\ Contains(delayed', x) <=> Contains(delayed, x)
        /\ entry'[e].id = i /\ entry'[e].priority = p
        /\ \/ /\ entry'[e].state = "queued"
              /\ \A q \in Priorities : Contains(queue'[q], e) <=> q = p
              /\ ~Contains(delayed', e)
           \/ /\ entry'[e].state = "delayed"
              /\ \A q \in Priorities : ~Contains(queue'[q], e)
              /\ Contains(delayed', e)
    <2>1. Reset(i, p).id = i /\ Reset(i, p).priority = p
      BY DEF Reset
    <2> QED
      BY <1>0, <1>1, <1>5, <1>6, <2>1, PlaceMoves
  <1>8. ASSUME NEW x \in Entries PROVE WellPlaced(x)'
    <2>1. CASE x = e
      BY <1>3, <1>4, <1>7, <2>1 DEF WellPlaced
    <2>2. CASE x # e
      <3>1. Unmoved(x)
        BY <1>3, <1>4, <1>7, <2>2 DEF Unmoved
      <3> QED
        BY <1>0, <3>1, SamePlace
    <2> QED
      BY <2>1, <2>2
  <1>9. MapIndexesEntries'
    <2>1. Mapped' = Mapped \cup {i}
      BY <1>0, <1>1, QueueAssumption DEF Mapped, TypeOK
    <2>2. \A j \in Mapped : msgMap[j] \in Live /\ j # i
      BY <1>2 DEF Live
    <2>3. \A j \in Mapped : msgMap'[j] = msgMap[j] /\ entry'[msgMap[j]] = entry[msgMap[j]]
      BY <1>0, <1>1, <1>3, <1>4, <1>7, <2>2 DEF Mapped, TypeOK
    <2>4. msgMap'[i] = e
      BY <1>0, <1>1 DEF TypeOK
    <2> QED
      BY <1>0, <1>7, <2>1, <2>3, <2>4 DEF MapIndexesEntries
  <1> QED
    BY <1>3, <1>7, <1>8, <1>9 DEF OnePlace, NoRepetition, RepetitionFree

\* A delivered message leaves the queue it was in.
LEMMA PopPlaces ==
    ASSUME TypeInv, OnePlace, NEW w \in Workers, PopImpl(w)
    PROVE  OnePlace'
  <1>0. TypeOK /\ NoRepetition /\ MapIndexesEntries /\ \A x \in Entries : WellPlaced(x)
    BY DEF TypeInv, OnePlace
  <1>1. UNCHANGED <<msgMap, pool, delayed>>
    BY DEF PopImpl
  <1>2. Live' = Live /\ Mapped' = Mapped
    BY <1>1 DEF Live, Mapped
  <1>3. CASE UNCHANGED <<entry, queue>>
    BY <1>0, <1>1, <1>2, <1>3 DEF OnePlace, MapIndexesEntries, NoRepetition, WellPlaced
  <1>4. CASE Deliver(w)
    <2>1. PICK p \in Priorities :
            /\ queue[p] # <<>>
            /\ queue' = [queue EXCEPT ![p] = Tail(@)]
            /\ entry' = [entry EXCEPT ![Head(queue[p])] =
                    [@ EXCEPT !.state = "running", !.ts = 0, !.token = NewToken]]
      BY <1>4 DEF Deliver
    <2> DEFINE e == Head(queue[p])
    <2>2. queue[p] \in Seq(Entries) /\ IsInjective(queue[p])
      BY <1>0 DEF NoRepetition, TypeOK
    <2>3. /\ e \in Entries /\ Contains(queue[p], e)
          /\ IsInjective(Tail(queue[p]))
          /\ \A x : Contains(Tail(queue[p]), x) <=> Contains(queue[p], x) /\ x # e
      BY <2>1, <2>2, TailContains
    <2>4. /\ RepetitionFree(queue)
          /\ queue'[p] = Tail(queue[p])
          /\ \A q \in Priorities : q # p => queue'[q] = queue[q]
      BY <1>0, <2>1 DEF TypeOK, NoRepetition, RepetitionFree
    <2>5. entry' = [entry EXCEPT ![e] =
              [entry[e] EXCEPT !.state = "running", !.ts = 0, !.token = NewToken]]
      BY <2>1
    <2> HIDE DEF e
    <2>6. /\ RepetitionFree(queue')
          /\ \A q \in Priorities, x \in Entries :
               Contains(queue'[q], x) <=> Contains(queue[q], x) /\ x # e
      <3>1. /\ IsInjective(queue'[p])
            /\ \A x \in Entries : Contains(queue'[p], x) <=> Contains(queue[p], x) /\ x # e
        BY <2>3, <2>4
      <3>2. /\ RepetitionFree(queue) /\ Contains(queue[p], e) /\ e \in Entries
            /\ \A q \in Priorities : q # p => queue'[q] = queue[q]
        BY <2>3, <2>4
      <3> QED
        BY <3>1, <3>2, Dequeued
    <2>7. /\ entry'[e].state = "running" /\ entry'[e].id = entry[e].id
          /\ \A x \in Entries : x # e => entry'[x] = entry[x]
      BY <1>0, <2>3, <2>5 DEF TypeOK, EntryType
    <2>8. entry[e].state = "queued"
      BY <1>0, <2>3 DEF WellPlaced
    <2>9. ASSUME NEW x \in Entries PROVE WellPlaced(x)'
      <3>1. CASE x = e
        BY <1>0, <1>1, <1>2, <2>3, <2>6, <2>7, <2>8, <3>1 DEF WellPlaced
      <3>2. CASE x # e
        <4>1. Unmoved(x)
          BY <1>1, <1>2, <2>6, <2>7, <3>2 DEF Unmoved
        <4> QED
          BY <1>0, <4>1, SamePlace
      <3> QED
        BY <3>1, <3>2
    <2>10. MapIndexesEntries'
      <3>1. \A j \in Mapped : msgMap[j] \in Entries
        BY <1>0 DEF TypeOK, Mapped
      <3> QED
        BY <1>0, <1>1, <1>2, <2>7, <3>1 DEF MapIndexesEntries
    <2> QED
      BY <1>0, <1>1, <2>6, <2>9, <2>10 DEF OnePlace, NoRepetition, RepetitionFree
  <1> QED
    BY <1>3, <1>4 DEF PopImpl

\* The entry of a message that is with a worker or failed goes to the pool.
LEMMA ReturnPlaces ==
    ASSUME TypeOK, OnePlace, NEW i \in Ids, i \in Mapped,
           entry[msgMap[i]].state \in {"running", "failed"},
           pool' = Append(pool, msgMap[i]),
           msgMap' = [msgMap EXCEPT ![i] = NoEntry],
           UNCHANGED <<entry, queue, delayed>>
    PROVE  OnePlace'
  <1>0. NoRepetition /\ MapIndexesEntries /\ \A x \in Entries : WellPlaced(x)
    BY DEF OnePlace
  <1> DEFINE e == msgMap[i]
  <1>1. e \in Entries /\ e \in Live /\ msgMap[i] # NoEntry
    BY DEF Mapped, Live, TypeOK
  <1>2. Live' = Live \ {e}
    BY <1>0, <1>1, LiveChanges
  <1>3. Mapped' = Mapped \ {i} /\ \A j \in Mapped' : msgMap'[j] = msgMap[j]
    BY DEF Mapped, TypeOK
  <1> HIDE DEF e
  <1>4. entry[e].state \in {"running", "failed"} /\ pool' = Append(pool, e)
    BY DEF e
  <1>5. ~Contains(pool, e) /\ IsInjective(pool) /\ pool \in Seq(Entries)
    BY <1>0, <1>1 DEF WellPlaced, NoRepetition, TypeOK
  <1>6. /\ IsInjective(pool')
        /\ \A x : Contains(pool', x) <=> Contains(pool, x) \/ x = e
    BY <1>1, <1>4, <1>5, AppendContains
  <1>7. ASSUME NEW x \in Entries PROVE WellPlaced(x)'
    <2>1. CASE x = e
      BY <1>0, <1>1, <1>2, <1>4, <2>1 DEF WellPlaced
    <2>2. CASE x # e
      <3>1. Unmoved(x)
        BY <1>2, <1>6, <2>2 DEF Unmoved
      <3> QED
        BY <1>0, <3>1, SamePlace
    <2> QED
      BY <2>1, <2>2
  <1>8. MapIndexesEntries'
    BY <1>0, <1>3 DEF MapIndexesEntries
  <1> QED
    BY <1>0, <1>6, <1>7, <1>8 DEF OnePlace, NoRepetition

\* A running message goes back to the queue or the delay set, or its entry
\* to the pool.
LEMMA AckPlaces ==
    ASSUME TypeInv, OnePlace, NEW i, NEW t, Accepts(i, t),
           NEW requeue \in BOOLEAN, NEW d \in Delays, AckImpl(i, requeue, d)
    PROVE  OnePlace'
  <1>0. TypeOK /\ NoRepetition /\ MapIndexesEntries /\ \A x \in Entries : WellPlaced(x)
    BY DEF TypeInv, OnePlace
  <1> DEFINE e == msgMap[i]
  <1>1. /\ i \in Ids /\ i \in Mapped /\ e \in Entries /\ e \in Live
        /\ entry[e].state = "running" /\ msgMap[i] # NoEntry
    BY <1>0 DEF Accepts, Mapped, Live, TypeOK
  <1>2. \A j \in Mapped : msgMap[j] \in Entries
    BY <1>0 DEF Mapped, TypeOK
  <1>3. CASE requeue
    <2>1. Place(e, Released(e), d) /\ UNCHANGED <<msgMap, pool>>
      BY <1>3 DEF AckImpl
    <2>2. Released(e) \in EntryType /\ d \in Nat
      BY <1>0, <1>1, ReleasedType, QueueAssumption DEF Released, TypeOK
    <2>3. Released(e).id = entry[e].id /\ Released(e).priority = entry[e].priority
      BY <1>0, <1>1 DEF Released, TypeOK, EntryType
    <2> HIDE DEF e
    <2>4. ~Contains(delayed, e) /\ \A q \in Priorities : ~Contains(queue[q], e)
      BY <1>0, <1>1 DEF WellPlaced
    <2>5. /\ RepetitionFree(queue') /\ IsInjective(delayed')
          /\ \A x \in Entries : x # e =>
               /\ entry'[x] = entry[x]
               /\ \A q \in Priorities : Contains(queue'[q], x) <=> Contains(queue[q], x)
               /\ Contains(delayed', x) <=> Contains(delayed, x)
          /\ entry'[e].id = entry[e].id /\ entry'[e].priority = entry[e].priority
          /\ \/ /\ entry'[e].state = "queued"
                /\ \A q \in Priorities : Contains(queue'[q], e) <=> q = entry[e].priority
                /\ ~Contains(delayed', e)
             \/ /\ entry'[e].state = "delayed"
                /\ \A q \in Priorities : ~Contains(queue'[q], e)
                /\ Contains(delayed', e)
      BY <1>0, <1>1, <2>1, <2>2, <2>3, <2>4, PlaceMoves
    <2>6. entry[e].priority \in Priorities
      BY <1>0, <1>1 DEF TypeOK, EntryType
    <2>7. Live' = Live /\ Mapped' = Mapped
      BY <2>1 DEF Live, Mapped
    <2>8. ASSUME NEW x \in Entries PROVE WellPlaced(x)'
      <3>1. CASE x = e
        BY <1>0, <1>1, <2>1, <2>5, <2>6, <2>7, <3>1 DEF WellPlaced
      <3>2. CASE x # e
        <4>1. Unmoved(x)
          BY <2>1, <2>5, <2>7, <3>2 DEF Unmoved
        <4> QED
          BY <1>0, <4>1, SamePlace
      <3> QED
        BY <3>1, <3>2
    <2>9. MapIndexesEntries'
      BY <1>0, <1>2, <2>1, <2>5, <2>7 DEF MapIndexesEntries
    <2> QED
      BY <1>0, <2>1, <2>5, <2>8, <2>9 DEF OnePlace, NoRepetition, RepetitionFree
  <1>4. CASE ~requeue
    <2>1. /\ pool' = Append(pool, e)
          /\ msgMap' = [msgMap EXCEPT ![i] = NoEntry]
          /\ UNCHANGED <<entry, queue, delayed>>
      BY <1>4 DEF AckImpl
    <2> QED
      BY <1>0, <1>1, <2>1, ReturnPlaces
  <1> QED
    BY <1>3, <1>4

\* The monitor fails a running message, queues it again, boosts a queued one
\* or passes by.
LEMMA MonitorPlaces ==
    ASSUME TypeInv, OnePlace, NEW i \in Ids, MonitorVisit(i)
    PROVE  OnePlace'
  <1>0. TypeOK /\ NoRepetition /\ MapIndexesEntries /\ \A x \in Entries : WellPlaced(x)
    BY DEF TypeInv, OnePlace
  <1> DEFINE e == msgMap[i]
  <1>1. i \in Mapped /\ e \in Entries /\ e \in Live
    BY <1>0 DEF MonitorVisit, TypeInv, ScanIsMapped, Mapped, Live, TypeOK
  <1>2. UNCHANGED <<msgMap, pool, delayed>>
    BY DEF MonitorVisit
  <1>3. Live' = Live /\ Mapped' = Mapped
    BY <1>2 DEF Live, Mapped
  <1>4. Fail(e) \/ Retry(e) \/ Boost(e) \/ UNCHANGED <<entry, queue>>
    BY DEF MonitorVisit
  <1> HIDE DEF e
  <1>5. \A j \in Mapped : msgMap[j] \in Entries
    BY <1>0 DEF Mapped, TypeOK
  <1>6. entry[e] \in EntryType /\ entry[e].priority \in Priorities
    BY <1>0, <1>1 DEF TypeOK, EntryType
  <1>7. RepetitionFree(queue)
    BY <1>0 DEF NoRepetition, RepetitionFree
  <1>8. CASE Fail(e)
    <2>1. entry[e].state = "running" /\ queue' = queue
      BY <1>8 DEF Fail, TimedOut
    <2>2. /\ entry'[e].state = "failed" /\ entry'[e].id = entry[e].id
          /\ \A x \in Entries : x # e => entry'[x] = entry[x]
      BY <1>0, <1>1, <1>6, <1>8 DEF Fail, TypeOK, EntryType
    <2>3. ASSUME NEW x \in Entries PROVE WellPlaced(x)'
      <3>1. CASE x = e
        BY <1>0, <1>2, <1>3, <2>1, <2>2, <3>1 DEF WellPlaced
      <3>2. CASE x # e
        BY <1>0, <1>2, <1>3, <2>1, <2>2, <3>2 DEF WellPlaced
      <3> QED
        BY <3>1, <3>2
    <2>4. MapIndexesEntries'
      BY <1>0, <1>2, <1>3, <1>5, <2>2 DEF MapIndexesEntries
    <2> QED
      BY <1>0, <1>2, <2>1, <2>3, <2>4 DEF OnePlace, NoRepetition
  <1>9. CASE Retry(e)
    <2>1. /\ entry[e].state = "running"
          /\ queue' = [queue EXCEPT ![entry[e].priority] = AtFront(@, e)]
          /\ entry' = [entry EXCEPT ![e] = Retried(e)]
      BY <1>9 DEF Retry, TimedOut
    <2>2. /\ entry'[e].state = "queued" /\ entry'[e].id = entry[e].id
          /\ entry'[e].priority = entry[e].priority
          /\ \A x \in Entries : x # e => entry'[x] = entry[x]
      BY <1>0, <1>1, <1>6, <2>1 DEF Retried, TypeOK, EntryType
    <2>3. \A q \in Priorities : ~Contains(queue[q], e)
      BY <1>0, <1>1, <2>1 DEF WellPlaced
    <2>4. /\ queue \in [Priorities -> Seq(Entries)]
          /\ queue'[entry[e].priority] = AtFront(queue[entry[e].priority], e)
          /\ \A q \in Priorities : q # entry[e].priority => queue'[q] = queue[q]
      BY <1>0, <1>6, <2>1 DEF TypeOK
    <2>5. /\ RepetitionFree(queue')
          /\ \A q \in Priorities, x \in Entries :
               Contains(queue'[q], x) <=> Contains(queue[q], x) \/ (q = entry[e].priority /\ x = e)
      BY <1>1, <1>6, <1>7, <2>3, <2>4, Enqueued
    <2>6. ASSUME NEW x \in Entries PROVE WellPlaced(x)'
      <3>1. CASE x = e
        BY <1>0, <1>1, <1>2, <1>3, <1>6, <2>1, <2>2, <2>3, <2>5, <3>1 DEF WellPlaced
      <3>2. CASE x # e
        <4>1. Unmoved(x)
          BY <1>2, <1>3, <2>2, <2>5, <3>2 DEF Unmoved
        <4> QED
          BY <1>0, <4>1, SamePlace
      <3> QED
        BY <3>1, <3>2
    <2>7. MapIndexesEntries'
      BY <1>0, <1>2, <1>3, <1>5, <2>2 DEF MapIndexesEntries
    <2> QED
      BY <1>0, <1>2, <2>5, <2>6, <2>7 DEF OnePlace, NoRepetition, RepetitionFree
  <1>10. CASE Boost(e)
    <2> DEFINE p == entry[e].priority
    <2>1. PICK k \in 1 .. Len(queue[p]) :
            queue[p][k] = e /\ queue' = Promoted(e, p, k)
      BY <1>10 DEF Boost
    <2>2. entry[e].state = "queued" /\ entry' = [entry EXCEPT ![e].boosted = TRUE]
      BY <1>10 DEF Boost, Starving
    <2>3. /\ entry'[e].state = "queued" /\ entry'[e].id = entry[e].id
          /\ entry'[e].boosted
          /\ \A x \in Entries : x # e => entry'[x] = entry[x]
      BY <1>0, <1>1, <1>6, <2>2 DEF TypeOK, EntryType
    <2>4. p \in Priorities /\ 0 \in Priorities
      BY <1>6, QueueAssumption DEF Priorities
    <2> DEFINE rest == [queue EXCEPT ![p] = RemoveAt(@, k)]
    <2>5. queue' = [rest EXCEPT ![0] = AtFront(@, e)]
      BY <2>1 DEF Promoted
    <2> HIDE DEF p
    <2>6. queue[p] \in Seq(Entries) /\ IsInjective(queue[p]) /\ Contains(queue[p], e)
      BY <1>0, <2>1, <2>4 DEF TypeOK, NoRepetition, Contains
    <2>7. /\ RemoveAt(queue[p], k) \in Seq(Entries)
          /\ IsInjective(RemoveAt(queue[p], k))
          /\ \A x : Contains(RemoveAt(queue[p], k), x) <=> Contains(queue[p], x) /\ x # e
      BY <2>1, <2>6, RemoveAtContains
    <2>8. /\ rest \in [Priorities -> Seq(Entries)]
          /\ rest[p] = RemoveAt(queue[p], k)
          /\ \A q \in Priorities : q # p => rest[q] = queue[q]
      BY <1>0, <2>4, <2>7 DEF TypeOK
    <2> HIDE DEF rest
    <2>9. /\ RepetitionFree(rest)
          /\ \A q \in Priorities, x \in Entries :
               Contains(rest[q], x) <=> Contains(queue[q], x) /\ x # e
      <3>1. /\ IsInjective(rest[p])
            /\ \A x \in Entries : Contains(rest[p], x) <=> Contains(queue[p], x) /\ x # e
        BY <2>7, <2>8
      <3>2. \A q \in Priorities : q # p => rest[q] = queue[q]
        BY <2>8
      <3> QED
        BY <1>1, <1>7, <2>4, <2>6, <3>1, <3>2, Dequeued
    <2>10. /\ RepetitionFree(queue')
           /\ \A q \in Priorities, x \in Entries :
                Contains(queue'[q], x) <=> Contains(rest[q], x) \/ (q = 0 /\ x = e)
      <3>1. /\ queue'[0] = AtFront(rest[0], e)
            /\ \A q \in Priorities : q # 0 => queue'[q] = rest[q]
        BY <2>4, <2>5, <2>8
      <3>2. \A q \in Priorities : ~Contains(rest[q], e)
        BY <1>1, <2>9
      <3>3. rest \in [Priorities -> Seq(Entries)] /\ RepetitionFree(rest)
        BY <2>8, <2>9
      <3> QED
        BY <1>1, <2>4, <3>1, <3>2, <3>3, Enqueued
    <2>11. ASSUME NEW x \in Entries PROVE WellPlaced(x)'
      <3>1. CASE x = e
        BY <1>0, <1>1, <1>2, <1>3, <2>2, <2>3, <2>4, <2>9, <2>10, <3>1 DEF WellPlaced
      <3>2. CASE x # e
        <4>1. Unmoved(x)
          BY <1>2, <1>3, <2>3, <2>9, <2>10, <3>2 DEF Unmoved
        <4> QED
          BY <1>0, <4>1, SamePlace
      <3> QED
        BY <3>1, <3>2
    <2>12. MapIndexesEntries'
      BY <1>0, <1>2, <1>3, <1>5, <2>3 DEF MapIndexesEntries
    <2> QED
      BY <1>0, <1>2, <2>10, <2>11, <2>12 DEF OnePlace, NoRepetition, RepetitionFree
  <1>11. CASE UNCHANGED <<entry, queue>>
    BY <1>0, <1>2, <1>3, <1>11 DEF OnePlace, MapIndexesEntries, NoRepetition, WellPlaced
  <1> QED
    BY <1>4, <1>8, <1>9, <1>10, <1>11

\* The first delayed message goes to the back of its queue.
LEMMA DelayPlaces ==
    ASSUME TypeInv, OnePlace, DelayMove
    PROVE  OnePlace'
  <1>0. TypeOK /\ NoRepetition /\ MapIndexesEntries /\ \A x \in Entries : WellPlaced(x)
    BY DEF TypeInv, OnePlace
  <1> DEFINE e == Head(delayed)
  <1>1. /\ delayed # <<>> /\ delayed' = Tail(delayed)
        /\ entry' = [entry EXCEPT ![e] = [entry[e] EXCEPT !.state = "queued", !.ts = 0]]
        /\ queue' = [queue EXCEPT ![entry[e].priority] = AtBack(@, e)]
        /\ UNCHANGED <<msgMap, pool>>
    <2>1. delayed # <<>> => e \in Entries
      BY <1>0 DEF TypeOK
    <2> QED
      BY <1>0, <2>1 DEF DelayMove, SomeDue, TypeOK
  <1>2. delayed \in Seq(Entries) /\ IsInjective(delayed)
    BY <1>0 DEF TypeOK, NoRepetition
  <1>3. /\ e \in Entries /\ Contains(delayed, e) /\ IsInjective(delayed')
        /\ \A x : Contains(delayed', x) <=> Contains(delayed, x) /\ x # e
    BY <1>1, <1>2, TailContains
  <1> HIDE DEF e
  <1>4. e \in Live /\ entry[e].state = "delayed"
    BY <1>0, <1>3 DEF WellPlaced
  <1>5. Live' = Live /\ Mapped' = Mapped
    BY <1>1 DEF Live, Mapped
  <1>6. entry[e].priority \in Priorities
    BY <1>0, <1>3 DEF TypeOK, EntryType
  <1>7. \A q \in Priorities : ~Contains(queue[q], e)
    BY <1>0, <1>3, <1>4 DEF WellPlaced
  <1>8. /\ RepetitionFree(queue')
        /\ \A q \in Priorities, x \in Entries :
             Contains(queue'[q], x) <=> Contains(queue[q], x) \/ (q = entry[e].priority /\ x = e)
    <2>1. /\ queue \in [Priorities -> Seq(Entries)] /\ RepetitionFree(queue)
          /\ queue'[entry[e].priority] = AtBack(queue[entry[e].priority], e)
          /\ \A q \in Priorities : q # entry[e].priority => queue'[q] = queue[q]
      BY <1>0, <1>1, <1>6 DEF TypeOK, NoRepetition, RepetitionFree
    <2> QED
      BY <1>3, <1>6, <1>7, <2>1, Enqueued
  <1>9. /\ entry'[e].state = "queued" /\ entry'[e].id = entry[e].id
        /\ entry'[e].priority = entry[e].priority
        /\ \A x \in Entries : x # e => entry'[x] = entry[x]
    BY <1>0, <1>1, <1>3 DEF TypeOK, EntryType
  <1>10. ASSUME NEW x \in Entries PROVE WellPlaced(x)'
    <2>1. CASE x = e
      BY <1>0, <1>1, <1>3, <1>4, <1>5, <1>6, <1>7, <1>8, <1>9, <2>1 DEF WellPlaced
    <2>2. CASE x # e
      <3>1. Unmoved(x)
        BY <1>1, <1>3, <1>5, <1>8, <1>9, <2>2 DEF Unmoved
      <3> QED
        BY <1>0, <3>1, SamePlace
    <2> QED
      BY <2>1, <2>2
  <1>11. MapIndexesEntries'
    <2>1. \A j \in Mapped : msgMap[j] \in Entries
      BY <1>0 DEF Mapped, TypeOK
    <2> QED
      BY <1>0, <1>1, <1>5, <1>9, <2>1 DEF MapIndexesEntries
  <1> QED
    BY <1>0, <1>1, <1>3, <1>8, <1>10, <1>11 DEF OnePlace, NoRepetition, RepetitionFree

\* A step that changes no place, no map and no state, whatever the clock does.
LEMMA NothingMoves ==
    ASSUME TypeInv, OnePlace, UNCHANGED <<msgMap, pool, queue, delayed>>,
           \A e \in Entries : /\ entry'[e].state = entry[e].state
                             /\ entry'[e].priority = entry[e].priority
                             /\ entry'[e].boosted = entry[e].boosted
                             /\ entry'[e].id = entry[e].id
    PROVE  OnePlace'
  <1>0. TypeOK /\ NoRepetition /\ MapIndexesEntries /\ \A x \in Entries : WellPlaced(x)
    BY DEF TypeInv, OnePlace
  <1>1. Live' = Live /\ Mapped' = Mapped
    BY DEF Live, Mapped
  <1>2. ASSUME NEW x \in Entries PROVE WellPlaced(x)'
    BY <1>0, <1>1, SamePlace DEF Unmoved
  <1>3. MapIndexesEntries'
    BY <1>0, <1>1 DEF MapIndexesEntries, Mapped, TypeOK
  <1> QED
    BY <1>0, <1>2, <1>3 DEF OnePlace, NoRepetition

LEMMA PlaceStep == TypeInv /\ OnePlace /\ [Next]_vars => OnePlace'
  <1> SUFFICES ASSUME TypeInv, OnePlace, [Next]_vars PROVE OnePlace'
    OBVIOUS
  <1>1. ASSUME NEW i \in Ids, NEW p \in Priorities, NEW d \in Delays, Push(i, p, d)
        PROVE  OnePlace'
    BY <1>1, PushPlaces
  <1>2. ASSUME NEW w \in Workers, Worker(w) PROVE OnePlace'
    <2>1. CASE PopImpl(w)
      BY <2>1, PopPlaces
    <2>2. ASSUME NEW requeue \in BOOLEAN, NEW d \in Delays,
                 Ack(w, requeue, d) \/ PopAck(w, requeue, d)
          PROVE  OnePlace'
      BY <2>2, AckPlaces DEF Ack, PopAck
    <2>3. CASE \/ SpuriousWakeup(w) \/ ReadId(w) \/ ReadToken(w) \/ LoseMsg(w)
               \/ DropLease(w)
      BY <2>3, NothingMoves DEF SpuriousWakeup, ReadId, ReadToken, LoseMsg, DropLease
    <2> QED
      BY <1>2, <2>1, <2>2, <2>3 DEF Worker, Pop, PopResume, PopAfterAck
  <1>3. ASSUME NEW i \in Ids, EraseVisit(i) PROVE OnePlace'
    <2>1. UNCHANGED <<entry, queue, delayed>>
      BY <1>3 DEF EraseVisit
    <2>2. CASE i \in InState("failed")
      <3>1. i \in Mapped /\ entry[msgMap[i]].state = "failed"
        BY <2>2 DEF InState
      <3>2. pool' = Append(pool, msgMap[i]) /\ msgMap' = [msgMap EXCEPT ![i] = NoEntry]
        BY <1>3, <2>2 DEF EraseVisit
      <3> QED
        BY <2>1, <3>1, <3>2, ReturnPlaces DEF TypeInv
    <2>3. CASE i \notin InState("failed")
      BY <1>3, <2>3, NothingMoves DEF EraseVisit
    <2> QED
      BY <2>2, <2>3
  <1>4. ASSUME NEW i \in Ids, MonitorVisit(i) PROVE OnePlace'
    BY <1>4, MonitorPlaces
  <1>5. CASE DelayMove
    BY <1>5, DelayPlaces
  <1>6. CASE \/ \E ids \in SUBSET Ids : EraseFailed(ids)
             \/ EraseDone \/ MonitorWake \/ MonitorDone
             \/ DelayWake \/ DelaySleep \/ DelaySpuriousWakeup \/ UNCHANGED vars
    BY <1>6, NothingMoves
    DEF EraseFailed, EraseDone, MonitorWake, MonitorDone, DelayWake, DelaySleep,
        DelaySpuriousWakeup, vars
  <1>7. CASE Tick
    <2>1. ASSUME NEW e \in Entries
          PROVE  /\ entry'[e].state = entry[e].state
                 /\ entry'[e].priority = entry[e].priority
                 /\ entry'[e].boosted = entry[e].boosted
                 /\ entry'[e].id = entry[e].id
      <3>1. entry[e] \in EntryType
        BY DEF TypeInv, TypeOK
      <3> QED
        BY <1>7, <3>1 DEF Tick, EntryType
    <2> QED
      BY <1>7, <2>1, NothingMoves DEF Tick
  <1> QED
    BY <1>1, <1>2, <1>3, <1>4, <1>5, <1>6, <1>7
    DEF Next, Publisher, Eraser, Monitor, DelayThread

\* Each entry is in exactly one place, for every number of ids, entries,
\* workers and priorities: no operation, retry, boost, expiring delay or
\* erasure loses a message or leaves it in two places.
THEOREM EveryEntryInOnePlace == Spec => []OnePlace
  <1>1. Spec => []TypeInv
    BY TypeInit, TypeStep, PTL DEF Spec
  <1>2. TypeInv /\ OnePlace /\ [Next]_vars => OnePlace'
    BY PlaceStep
  <1> QED
    BY <1>1, <1>2, PlaceInit, PTL DEF Spec

=============================================================================
