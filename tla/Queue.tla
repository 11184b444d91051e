------------------------------- MODULE Queue -------------------------------
(***************************************************************************)
(* The monitored priority queue of server/Queue.hpp and server/Queue.cpp:  *)
(* the operations of class Queue, its monitor thread and its delay thread, *)
(* and the worker threads that call it the way the workers of              *)
(* server/test_general.cpp do.                                             *)
(*                                                                         *)
(* m_mutex is the variable lock.  An operation that takes and releases it  *)
(* in one go is one action; an operation that loops while it holds it, or  *)
(* that calls popImpl after ackImpl, is several actions with lock held.    *)
(* A call that throws before it changes anything is the absence of a step. *)
(*                                                                         *)
(* Time stamps are kept relative to the present: ts is state_ts - now(),   *)
(* negative for the past and positive for the due time of a delayed        *)
(* message.  Tick moves the present.                                       *)
(***************************************************************************)
EXTENDS Integers, Sequences, FiniteSets, SequencesExt

CONSTANTS
    Ids,            \* message identifiers publishers use
    Entries,        \* MsgEntry_t objects that new can return
    Workers,        \* consumer threads
    Retaining,      \* those that keep what they know of a message when they pop
    PriorityCount,  \* a_priority_count
    Capacity,       \* m_capacity
    AckTimeout,     \* m_fail_timeout, in ticks, 0 for no limit
    MaxRetries,     \* m_max_retries
    BoostTimeout,   \* m_boost_timeout, in ticks
    Delays,         \* the a_delay arguments callers use, in ticks
    Tokens,         \* values of m_rng, each drawn at most once while known
    NoId, NoEntry, NoToken

ASSUME QueueAssumption ==
    /\ IsFiniteSet(Ids)
    /\ IsFiniteSet(Workers)
    /\ Retaining \subseteq Workers
    /\ PriorityCount \in 1 .. 255
    /\ Capacity \in Nat
    /\ AckTimeout \in Nat
    /\ MaxRetries \in Nat
    /\ BoostTimeout \in Nat
    /\ Delays \subseteq Nat
    /\ NoId \notin Ids
    /\ NoEntry \notin Entries
    /\ NoToken \notin Tokens
    /\ Workers \cap {"free", "monitor", "delay", "erase"} = {}

VARIABLES
    lock,         \* owner of m_mutex
    msgMap,       \* m_msg_map: id to entry, NoEntry when absent
    entry,        \* the MsgEntry_t objects
    pool,         \* m_msg_pool, last element at the back
    queue,        \* m_queue_list, index 1 of a queue is the back of the deque
    delayed,      \* m_msg_delay in multiset order
    countQueued,  \* m_count_queued
    countFailed,  \* m_count_failed
    scan,         \* ids the loop of the lock owner has yet to visit
    tally,        \* its local counter: notify, or the length of failed
    delayPc,      \* delayThread: awake, or blocked in wait or wait_for
    deadline,     \* ticks until its wait_for returns
    thread,       \* control state of each worker
    ref,          \* the Msg_t reference pop handed to a worker
    lease         \* the id and token a worker read through it

vars == <<lock, msgMap, entry, pool, queue, delayed, countQueued, countFailed,
          scan, tally, delayPc, deadline, thread, ref, lease>>

Priorities == 0 .. PriorityCount - 1
NoLease    == [id |-> NoId, token |-> NoToken]
Leases     == [id : Ids \cup {NoId}, token : Tokens \cup {NoToken}]

\* ts saturates once every comparison with a timeout is decided.
AgeCap == 1 + (IF AckTimeout > BoostTimeout THEN AckTimeout ELSE BoostTimeout)

EntryType ==
    [priority : Priorities, boosted : BOOLEAN, failCount : 0 .. 255,
     state : {"queued", "running", "delayed", "failed"}, ts : Int,
     id : Ids \cup {NoId}, token : Tokens \cup {NoToken}]

\* MsgEntry_t::reset, which leaves what the constructor builds.
Reset(i, p) ==
    [priority |-> p, boosted |-> FALSE, failCount |-> 0, state |-> "queued",
     ts |-> 0, id |-> i, token |-> NoToken]

\* The control states of a worker: outside the queue, in m_pop_cv.wait,
\* notified but without the lock again, returned from pop with a reference,
\* and with the id read through it.
ThreadStates == {"out", "asleep", "woken", "returned", "reading"}
Asleep == {w \in Workers : thread[w] = "asleep"}
Woken  == {w \in Workers : thread[w] = "woken"}

Mapped  == {i \in Ids : msgMap[i] # NoEntry}
Live    == {msgMap[i] : i \in Mapped}
Unused  == Entries \ (Live \cup ToSet(pool))
InState(s) == {i \in Mapped : entry[msgMap[i]].state = s}

Init ==
    /\ lock = "free"
    /\ msgMap = [i \in Ids |-> NoEntry]
    /\ entry = [e \in Entries |-> Reset(NoId, 0)]
    /\ pool = <<>>
    /\ queue = [p \in Priorities |-> <<>>]
    /\ delayed = <<>>
    /\ countQueued = 0
    /\ countFailed = 0
    /\ scan = {}
    /\ tally = 0
    /\ delayPc = "awake"
    /\ deadline = 0
    /\ thread = [w \in Workers |-> "out"]
    /\ ref = [w \in Workers |-> NoEntry]
    /\ lease = [w \in Workers |-> NoLease]

-----------------------------------------------------------------------------
(* Notification and placement, called with the lock held.                  *)

\* m_pop_cv.notify_one
NotifyOne ==
    IF Asleep = {} THEN UNCHANGED thread
    ELSE \E w \in Asleep : thread' = [thread EXCEPT ![w] = "woken"]

\* m_pop_cv.notify_all
NotifyAll ==
    thread' = [w \in Workers |-> IF w \in Asleep THEN "woken" ELSE thread[w]]

\* push_back and push_front on a deque.
AtBack(q, e)  == <<e>> \o q
AtFront(q, e) == Append(q, e)

\* r becomes the content of e, at the front of the queue of its priority.
PushFront(e, r) ==
    /\ entry' = [entry EXCEPT ![e] = [r EXCEPT !.state = "queued", !.ts = 0]]
    /\ queue' = [queue EXCEPT ![r.priority] = AtFront(@, e)]
    /\ countQueued' = countQueued + 1
    /\ NotifyOne
    /\ UNCHANGED <<delayed, delayPc, deadline>>

\* Mutant: the end of the set, whatever the due time.
AfterAll(k, d) == k = Len(delayed)

\* Multiset insertion goes after every element that is not later.
AfterEarlier(k, d) ==
    \A j \in 1 .. Len(delayed) : j <= k <=> entry[delayed[j]].ts <= d

\* Mutants: only the first message of all notifies the delay thread; none does.
WakeForOnly(k) ==
    IF delayed = <<>> THEN delayPc' = "awake" /\ deadline' = 0
                      ELSE UNCHANGED <<delayPc, deadline>>
WakeForNone(k) == UNCHANGED <<delayPc, deadline>>

\* A message with k ahead of it notifies the delay thread if it is the first.
WakeForFirst(k) ==
    IF k = 0 THEN delayPc' = "awake" /\ deadline' = 0
             ELSE UNCHANGED <<delayPc, deadline>>

InsertDelayed(e, r, d) ==
    /\ entry' = [entry EXCEPT ![e] = [r EXCEPT !.state = "delayed", !.ts = d]]
    /\ \E k \in 0 .. Len(delayed) :
         /\ AfterEarlier(k, d)
         /\ delayed' = InsertAt(delayed, k + 1, e)
         /\ WakeForFirst(k)
    /\ UNCHANGED <<queue, countQueued, thread>>

Place(e, r, d) == IF d > 0 THEN InsertDelayed(e, r, d) ELSE PushFront(e, r)

-----------------------------------------------------------------------------
(* Publishers.                                                             *)

\* Mutant: always a new object.
GetNewEntry(e) == e \in Unused /\ UNCHANGED pool

\* getMsgEntry: the back of the pool, or a new object.
GetMsgEntry(e) ==
    IF pool = <<>> THEN e \in Unused /\ UNCHANGED pool
    ELSE e = Last(pool) /\ pool' = Front(pool)

\* push: a duplicate id and a full queue throw.
Push(i, p, d) ==
    /\ lock = "free"
    /\ msgMap[i] = NoEntry
    /\ Cardinality(Mapped) # Capacity
    /\ \E e \in Entries :
         /\ GetMsgEntry(e)
         /\ msgMap' = [msgMap EXCEPT ![i] = e]
         /\ Place(e, Reset(i, p), d)
    /\ UNCHANGED <<lock, countFailed, scan, tally, ref, lease>>

-----------------------------------------------------------------------------
(* Workers.                                                                *)

\* The draw from m_rng: no value that anyone goes on knowing comes up again.
FreshTokens ==
    Tokens \ ({entry[e].token : e \in Entries} \cup {lease'[w].token : w \in Workers})
NewToken == CHOOSE t \in FreshTokens : TRUE

\* The message at the back of the first queue that is not empty.
Deliver(w) ==
    /\ FreshTokens # {}
    /\ \E p \in Priorities :
         /\ queue[p] # <<>>
         /\ \A q \in 0 .. p - 1 : queue[q] = <<>>
         /\ queue' = [queue EXCEPT ![p] = Tail(@)]
         /\ entry' = [entry EXCEPT ![Head(queue[p])] =
                 [@ EXCEPT !.state = "running", !.ts = 0, !.token = NewToken]]
         /\ ref' = [ref EXCEPT ![w] = Head(queue[p])]
    /\ thread' = [thread EXCEPT ![w] = "returned"]
    /\ countQueued' = countQueued - 1

\* popImpl from the test of m_count_queued on, up to the next wait.
PopImpl(w) ==
    /\ \/ /\ countQueued = 0
          /\ thread' = [thread EXCEPT ![w] = "asleep"]
          /\ UNCHANGED <<entry, queue, countQueued, ref>>
       \/ /\ countQueued # 0
          /\ Deliver(w)
    /\ UNCHANGED <<msgMap, pool, delayed, countFailed, scan, tally, delayPc,
                   deadline>>

\* What a caller still knows of an earlier message while it pops.
Remembered(w) == IF w \in Retaining THEN lease[w] ELSE NoLease

Pop(w) ==
    /\ lock = "free"
    /\ thread[w] = "out"
    /\ lease' = [lease EXCEPT ![w] = Remembered(w)]
    /\ PopImpl(w)
    /\ UNCHANGED lock

\* A notified worker gets the lock back and tests the count again.
PopResume(w) ==
    /\ lock = "free"
    /\ thread[w] = "woken"
    /\ UNCHANGED <<lock, lease>>
    /\ PopImpl(w)

SpuriousWakeup(w) ==
    /\ thread[w] = "asleep"
    /\ thread' = [thread EXCEPT ![w] = "woken"]
    /\ UNCHANGED <<lock, msgMap, entry, pool, queue, delayed, countQueued,
                   countFailed, scan, tally, delayPc, deadline, ref, lease>>

\* The caller copies the id and then the token out of the returned reference;
\* the lock is not held.
ReadId(w) ==
    /\ thread[w] = "returned"
    /\ lease' = [lease EXCEPT ![w] = [id |-> entry[ref[w]].id, token |-> NoToken]]
    /\ thread' = [thread EXCEPT ![w] = "reading"]
    /\ UNCHANGED <<lock, msgMap, entry, pool, queue, delayed, countQueued,
                   countFailed, scan, tally, delayPc, deadline, ref>>

ReadToken(w) ==
    /\ thread[w] = "reading"
    /\ lease' = [lease EXCEPT ![w].token = entry[ref[w]].token]
    /\ ref' = [ref EXCEPT ![w] = NoEntry]
    /\ thread' = [thread EXCEPT ![w] = "out"]
    /\ UNCHANGED <<lock, msgMap, entry, pool, queue, delayed, countQueued,
                   countFailed, scan, tally, delayPc, deadline>>

\* The message does not reach whoever asked for it: the answer is lost.
LoseMsg(w) ==
    /\ thread[w] = "returned"
    /\ ref' = [ref EXCEPT ![w] = NoEntry]
    /\ thread' = [thread EXCEPT ![w] = "out"]
    /\ UNCHANGED <<lock, msgMap, entry, pool, queue, delayed, countQueued,
                   countFailed, scan, tally, delayPc, deadline, lease>>

\* Mutants: the token is not tested; the state is not.
AcceptsAnyToken(i, t) == i \in Mapped /\ entry[msgMap[i]].state = "running"
AcceptsFailed(i, t) == i \in Mapped /\ entry[msgMap[i]].token = t

\* The three tests of ackImpl, each of which throws.
Accepts(i, t) ==
    /\ i \in Mapped
    /\ entry[msgMap[i]].token = t
    /\ entry[msgMap[i]].state = "running"

\* Mutant: a requeue forgives earlier failures.
Forgiven(e) ==
    [entry[e] EXCEPT !.boosted = FALSE, !.token = NoToken, !.failCount = 0]

\* An entry its worker gives back.
Released(e) == [entry[e] EXCEPT !.boosted = FALSE, !.token = NoToken]

\* ackImpl once the tests have passed.
AckImpl(i, requeue, d) ==
    LET e == msgMap[i] IN
    IF requeue
    THEN /\ Place(e, Released(e), d)
         /\ UNCHANGED <<msgMap, pool>>
    ELSE /\ pool' = Append(pool, e)
         /\ msgMap' = [msgMap EXCEPT ![i] = NoEntry]
         /\ UNCHANGED <<entry, queue, delayed, countQueued, delayPc, deadline,
                        thread>>

\* ack; a caller that keeps the lease may send the same ack again.
Ack(w, requeue, d) ==
    /\ lock = "free"
    /\ thread[w] = "out"
    /\ Accepts(lease[w].id, lease[w].token)
    /\ AckImpl(lease[w].id, requeue, d)
    /\ \E l \in {lease[w], NoLease} : lease' = [lease EXCEPT ![w] = l]
    /\ UNCHANGED <<lock, countFailed, scan, tally, ref>>

\* popAck keeps the lock from ackImpl to popImpl.
PopAck(w, requeue, d) ==
    /\ lock = "free"
    /\ thread[w] = "out"
    /\ Accepts(lease[w].id, lease[w].token)
    /\ AckImpl(lease[w].id, requeue, d)
    /\ lease' = [lease EXCEPT ![w] = Remembered(w)]
    /\ lock' = w
    /\ UNCHANGED <<countFailed, scan, tally, ref>>

PopAfterAck(w) ==
    /\ lock = w
    /\ lock' = "free"
    /\ UNCHANGED lease
    /\ PopImpl(w)

\* A worker drops its lease: ack or popAck threw, or the worker failed.
DropLease(w) ==
    /\ thread[w] = "out"
    /\ lease[w] # NoLease
    /\ lease' = [lease EXCEPT ![w] = NoLease]
    /\ UNCHANGED <<lock, msgMap, entry, pool, queue, delayed, countQueued,
                   countFailed, scan, tally, delayPc, deadline, thread, ref>>

-----------------------------------------------------------------------------
(* Failed messages.                                                        *)

\* eraseFailed: the loop over the argument, then the new failed count.
EraseFailed(ids) ==
    /\ lock = "free"
    /\ lock' = "erase"
    /\ scan' = ids
    /\ tally' = 0
    /\ UNCHANGED <<msgMap, entry, pool, queue, delayed, countQueued,
                   countFailed, delayPc, deadline, thread, ref, lease>>

EraseVisit(i) ==
    /\ lock = "erase"
    /\ i \in scan
    /\ scan' = scan \ {i}
    /\ IF i \in InState("failed")
       THEN /\ pool' = Append(pool, msgMap[i])
            /\ msgMap' = [msgMap EXCEPT ![i] = NoEntry]
            /\ tally' = tally + 1
       ELSE UNCHANGED <<pool, msgMap, tally>>
    /\ UNCHANGED <<lock, entry, queue, delayed, countQueued, countFailed,
                   delayPc, deadline, thread, ref, lease>>

EraseDone ==
    /\ lock = "erase"
    /\ scan = {}
    /\ countFailed' = countFailed - tally
    /\ tally' = 0
    /\ lock' = "free"
    /\ UNCHANGED <<msgMap, entry, pool, queue, delayed, countQueued, scan,
                   delayPc, deadline, thread, ref, lease>>

-----------------------------------------------------------------------------
(* The monitor thread.  wait_for may return early, so a pass may start at  *)
(* any time the lock is free; m_poll_interval is not represented.          *)

MonitorWake ==
    /\ lock = "free"
    /\ lock' = "monitor"
    /\ scan' = Mapped
    /\ tally' = 0
    /\ UNCHANGED <<msgMap, entry, pool, queue, delayed, countQueued,
                   countFailed, delayPc, deadline, thread, ref, lease>>

\* Mutant: the test of m_fail_timeout is inverted.
TimedOutIfUnlimited(e) ==
    entry[e].state = "running" /\ AckTimeout = 0 /\ entry[e].ts < -AckTimeout

TimedOut(e) ==
    /\ entry[e].state = "running"
    /\ AckTimeout # 0
    /\ entry[e].ts < -AckTimeout

\* Mutant: the count of retries that are left.
RetriesLeft(e) == entry[e].failCount - 1

\* fail_count is a uint8_t.
NextFailCount(e) == (entry[e].failCount + 1) % 256

Fail(e) ==
    /\ TimedOut(e)
    /\ NextFailCount(e) = MaxRetries
    /\ entry' = [entry EXCEPT ![e] = [@ EXCEPT !.failCount = NextFailCount(e),
                                              !.state = "failed"]]
    /\ countFailed' = countFailed + 1
    /\ UNCHANGED <<queue, countQueued, tally>>

\* Mutant: the token is not cleared.
RetriedWithToken(e) ==
    [entry[e] EXCEPT !.failCount = NextFailCount(e), !.state = "queued"]

\* A retry keeps state_ts and the boosted flag.
Retried(e) ==
    [entry[e] EXCEPT !.failCount = NextFailCount(e), !.state = "queued",
                     !.token = NoToken]

\* Workers are notified at the end of the pass.
Retry(e) ==
    /\ TimedOut(e)
    /\ NextFailCount(e) # MaxRetries
    /\ entry' = [entry EXCEPT ![e] = Retried(e)]
    /\ queue' = [queue EXCEPT ![entry[e].priority] = AtFront(@, e)]
    /\ countQueued' = countQueued + 1
    /\ tally' = tally + 1
    /\ UNCHANGED countFailed

\* Mutants: the boosted flag is not tested; the last priority is taken for
\* the highest one.
StarvingAgain(e) ==
    entry[e].state = "queued" /\ entry[e].priority > 0 /\ entry[e].ts < -BoostTimeout
StarvingUpward(e) ==
    /\ entry[e].state = "queued"
    /\ entry[e].priority < PriorityCount - 1
    /\ ~entry[e].boosted
    /\ entry[e].ts < -BoostTimeout

Starving(e) ==
    /\ entry[e].state = "queued"
    /\ entry[e].priority > 0
    /\ ~entry[e].boosted
    /\ entry[e].ts < -BoostTimeout

\* Mutants: the entry stays in its own queue too; it goes to the back.
PromotedTwice(e, p, k) == [queue EXCEPT ![0] = AtFront(@, e)]
PromotedAhead(e, p, k) ==
    LET rest == [queue EXCEPT ![p] = RemoveAt(@, k)]
    IN  [rest EXCEPT ![0] = AtBack(@, e)]

\* The k-th entry of queue p moves to the front of queue 0.
Promoted(e, p, k) ==
    LET rest == [queue EXCEPT ![p] = RemoveAt(@, k)]
    IN  [rest EXCEPT ![0] = AtFront(@, e)]

Boost(e) ==
    LET p == entry[e].priority IN
    /\ Starving(e)
    /\ \E k \in 1 .. Len(queue[p]) :
         /\ queue[p][k] = e
         /\ queue' = Promoted(e, p, k)
    /\ entry' = [entry EXCEPT ![e].boosted = TRUE]
    /\ UNCHANGED <<countQueued, countFailed, tally>>

\* One round of the loop over m_msg_map.  The order of the ids is left open.
MonitorVisit(i) ==
    LET e == msgMap[i] IN
    /\ lock = "monitor"
    /\ i \in scan
    /\ scan' = scan \ {i}
    /\ \/ Fail(e)
       \/ Retry(e)
       \/ Boost(e)
       \/ /\ ~TimedOut(e)
          /\ ~(Starving(e) /\ Contains(queue[entry[e].priority], e))
          /\ UNCHANGED <<entry, queue, countQueued, countFailed, tally>>
    /\ UNCHANGED <<lock, msgMap, pool, delayed, delayPc, deadline, thread, ref,
                   lease>>

\* Mutants: nobody is notified; one worker is, however many messages were
\* queued.
NotifyNobody == UNCHANGED thread
NotifyOneOfRetried == IF tally = 0 THEN UNCHANGED thread ELSE NotifyOne

\* One worker for one retry, all for several.
NotifyRetried ==
    CASE tally = 0 -> UNCHANGED thread
      [] tally = 1 -> NotifyOne
      [] tally > 1 -> NotifyAll

MonitorDone ==
    /\ lock = "monitor"
    /\ scan = {}
    /\ NotifyRetried
    /\ tally' = 0
    /\ lock' = "free"
    /\ UNCHANGED <<msgMap, entry, pool, queue, delayed, countQueued,
                   countFailed, scan, delayPc, deadline, ref, lease>>

-----------------------------------------------------------------------------
(* The delay thread: queue what is due, then wait for the next due time.   *)

DelayWake ==
    /\ lock = "free"
    /\ \/ delayPc = "awake"
       \/ delayPc = "wait_for" /\ deadline = 0
    /\ lock' = "delay"
    /\ delayPc' = "awake"
    /\ UNCHANGED <<msgMap, entry, pool, queue, delayed, countQueued,
                   countFailed, scan, tally, deadline, thread, ref, lease>>

SomeDue == delayed # <<>> /\ entry[Head(delayed)].ts <= 0

\* A due message goes to the back of its queue, ahead of those waiting.
DelayMove ==
    LET e == Head(delayed) IN
    /\ lock = "delay"
    /\ SomeDue
    /\ entry' = [entry EXCEPT ![e] = [@ EXCEPT !.state = "queued", !.ts = 0]]
    /\ queue' = [queue EXCEPT ![entry[e].priority] = AtBack(@, e)]
    /\ countQueued' = countQueued + 1
    /\ NotifyOne
    /\ delayed' = Tail(delayed)
    /\ UNCHANGED <<lock, msgMap, pool, countFailed, scan, tally, delayPc,
                   deadline, ref, lease>>

DelaySleep ==
    /\ lock = "delay"
    /\ ~SomeDue
    /\ IF delayed = <<>>
       THEN delayPc' = "wait" /\ deadline' = 0
       ELSE delayPc' = "wait_for" /\ deadline' = entry[Head(delayed)].ts
    /\ lock' = "free"
    /\ UNCHANGED <<msgMap, entry, pool, queue, delayed, countQueued,
                   countFailed, scan, tally, thread, ref, lease>>

DelaySpuriousWakeup ==
    /\ delayPc \in {"wait", "wait_for"}
    /\ delayPc' = "awake"
    /\ deadline' = 0
    /\ UNCHANGED <<lock, msgMap, entry, pool, queue, delayed, countQueued,
                   countFailed, scan, tally, thread, ref, lease>>

-----------------------------------------------------------------------------
\* A tick inside a critical section cannot be told from one after it.
Tick ==
    /\ lock = "free"
    /\ entry' = [e \in Entries |-> [entry[e] EXCEPT
                    !.ts = IF @ > -AgeCap THEN @ - 1 ELSE @]]
    /\ deadline' = IF deadline > 0 THEN deadline - 1 ELSE deadline
    /\ UNCHANGED <<lock, msgMap, pool, queue, delayed, countQueued, countFailed,
                   scan, tally, delayPc, thread, ref, lease>>

Publisher == \E i \in Ids, p \in Priorities, d \in Delays : Push(i, p, d)

Worker(w) ==
    \/ Pop(w)
    \/ PopResume(w)
    \/ SpuriousWakeup(w)
    \/ ReadId(w)
    \/ ReadToken(w)
    \/ LoseMsg(w)
    \/ PopAfterAck(w)
    \/ DropLease(w)
    \/ \E requeue \in BOOLEAN, d \in Delays :
         Ack(w, requeue, d) \/ PopAck(w, requeue, d)

Eraser ==
    \/ \E ids \in SUBSET Ids : EraseFailed(ids)
    \/ \E i \in Ids : EraseVisit(i)
    \/ EraseDone

Monitor == MonitorWake \/ (\E i \in Ids : MonitorVisit(i)) \/ MonitorDone

DelayThread == DelayWake \/ DelayMove \/ DelaySleep \/ DelaySpuriousWakeup

Next ==
    \/ Publisher
    \/ \E w \in Workers : Worker(w)
    \/ Eraser
    \/ Monitor
    \/ DelayThread
    \/ Tick

Spec == Init /\ [][Next]_vars

-----------------------------------------------------------------------------
(* Fairness.  Each thread of the queue runs, and a thread that keeps       *)
(* asking for m_mutex gets it (strong fairness: the lock is free again and *)
(* again); time passes however often the lock is taken.  wait_for returns  *)
(* after its time; no spurious wakeup is relied on.  Publishers, workers   *)
(* that are not in a call and the caller of eraseFailed owe nothing.       *)
Fairness ==
    /\ SF_vars(Tick)
    /\ SF_vars(MonitorWake)
    /\ \A i \in Ids : WF_vars(MonitorVisit(i))
    /\ WF_vars(MonitorDone)
    /\ SF_vars(DelayWake)
    /\ WF_vars(DelayMove)
    /\ WF_vars(DelaySleep)
    /\ \A i \in Ids : WF_vars(EraseVisit(i))
    /\ WF_vars(EraseDone)
    /\ \A w \in Workers : SF_vars(PopResume(w)) /\ WF_vars(PopAfterAck(w))

FairSpec == Spec /\ Fairness

-----------------------------------------------------------------------------
(* Safety.                                                                 *)

\* Every variable has the type of the member it stands for.  Of the two
\* counters, which are size_t, countFailed is kept above zero by what it
\* counts only: that is part of CountsAgree.
TypeOK ==
    /\ lock \in {"free", "monitor", "delay", "erase"} \cup Workers
    /\ msgMap \in [Ids -> Entries \cup {NoEntry}]
    /\ entry \in [Entries -> EntryType]
    /\ pool \in Seq(Entries)
    /\ queue \in [Priorities -> Seq(Entries)]
    /\ delayed \in Seq(Entries)
    /\ countQueued \in Nat
    /\ countFailed \in Int
    /\ scan \subseteq Ids
    /\ tally \in Nat
    /\ delayPc \in {"awake", "wait", "wait_for"}
    /\ deadline \in Nat
    /\ thread \in [Workers -> ThreadStates]
    /\ ref \in [Workers -> Entries \cup {NoEntry}]
    /\ lease \in [Workers -> Leases]

\* The map is an index: an entry it holds carries the id it is found under,
\* so no entry answers to two ids.
MapIndexesEntries == \A i \in Mapped : entry[msgMap[i]].id = i

\* No queue, nor the delay set, nor the pool holds an entry twice, and no two
\* queues hold the same one.
NoRepetition ==
    /\ \A p \in Priorities : IsInjective(queue[p])
    /\ \A p, q \in Priorities, e \in Entries :
         Contains(queue[p], e) /\ Contains(queue[q], e) => p = q
    /\ IsInjective(delayed)
    /\ IsInjective(pool)

\* An entry lies where its state says: queued in the queue of its priority
\* or, boosted, in queue 0; delayed in the delay set; in the pool only
\* without a message.
WellPlaced(e) ==
    /\ \A p \in Priorities :
         Contains(queue[p], e) =>
             /\ e \in Live
             /\ entry[e].state = "queued"
             /\ p = entry[e].priority \/ (p = 0 /\ entry[e].boosted)
    /\ e \in Live /\ entry[e].state = "queued" =>
         \E p \in Priorities : Contains(queue[p], e)
    /\ Contains(delayed, e) <=> e \in Live /\ entry[e].state = "delayed"
    /\ e \in Live => ~Contains(pool, e)

\* Each message entry is in exactly one place: the pool, one position of one
\* queue, one position of the delay set, or with a worker or failed; no
\* message is lost between them or delivered from two of them, whatever the
\* order of acks, retries, boosts, expiring delays and erasures.
OnePlace ==
    /\ MapIndexesEntries
    /\ NoRepetition
    /\ \A e \in Entries : WellPlaced(e)

\* The delay set is ordered by due time although state_ts, its sort key, is
\* a field the other operations write.
DelayOrdered ==
    \A j, k \in 1 .. Len(delayed) :
        j < k => entry[delayed[j]].ts <= entry[delayed[k]].ts

\* m_count_queued and m_count_failed count the messages in those states
\* (eraseFailed subtracts at its end), so getCounts reports numbers that
\* add up to the capacity and never wraps below zero.
CountsAgree ==
    /\ countQueued = Cardinality(InState("queued"))
    /\ countFailed = Cardinality(InState("failed"))
                        + (IF lock = "erase" THEN tally ELSE 0)
    /\ Cardinality(Mapped) <= Capacity

\* Recycling through the pool keeps the entries ever allocated within the
\* capacity.
AllocationBounded == Len(pool) + Cardinality(Mapped) <= Capacity

\* Neither error the code reports about itself can occur: popImpl's "All
\* queues empty when m_count_queued > 0" and the monitor's "Message entry
\* not found in expected queue".
NoInternalError ==
    /\ countQueued > 0 => \E p \in Priorities : queue[p] # <<>>
    /\ \A i \in Mapped :
         LET e == msgMap[i] IN Starving(e) => Contains(queue[entry[e].priority], e)

\* No wakeup of a popping worker is lost: while one sleeps, enough others
\* are on their way to the lock for the messages that are queued, counting
\* those the monitor will notify at the end of its pass.
NoLostWakeup ==
    \/ Asleep = {}
    \/ Cardinality(Woken) + (IF lock = "monitor" THEN tally ELSE 0) >= countQueued

\* The delay thread never sleeps past the first due time, so a message that
\* becomes the first one wakes it.
DelayThreadInTime ==
    delayed = <<>> \/ delayPc = "awake"
    \/ (delayPc = "wait_for" /\ (deadline = 0 \/ deadline <= entry[Head(delayed)].ts))

\* A token names one delivery: only a running message (or one that failed
\* while running) carries one, and no two messages carry the same, so an
\* ack can only ever hit the delivery whose token it quotes.
TokenNamesOneDelivery ==
    /\ \A i \in Mapped :
         (entry[msgMap[i]].token = NoToken) <=> (entry[msgMap[i]].state \in {"queued", "delayed"})
    /\ \A i, j \in Mapped :
         entry[msgMap[i]].token = entry[msgMap[j]].token
           => i = j \/ entry[msgMap[i]].token = NoToken

\* First in, first out: except when the delay thread puts due messages ahead,
\* no step gives a queued message more messages in front of it.
NoOvertaking ==
    [][lock = "delay" \/
       \A p \in Priorities : \A k \in 1 .. Len(queue[p]), m \in 1 .. Len(queue'[p]) :
           queue'[p][m] = queue[p][k] => m <= k]_vars

-----------------------------------------------------------------------------
(* Liveness, under FairSpec.                                               *)

\* A delayed message is queued when its time has come, whoever sleeps.
DelayEnds ==
    \A i \in Ids : i \in InState("delayed") ~> i \notin InState("delayed")

\* A message whose worker has stalled or failed does not stay with it: it is
\* acknowledged, queued again or failed.
StalledIsRecovered ==
    \A i \in Ids : i \in InState("running") ~> i \notin InState("running")

\* A worker that waits in pop does not go on waiting beside a message that
\* can be had: no notification is lost or given to nobody for good.
WaitersAreServed ==
    (Asleep \cup Woken # {} /\ countQueued > 0)
        ~> (Asleep \cup Woken = {} \/ countQueued = 0)

\* A message of low priority that no worker takes is boosted.
UnboostedIsBoosted ==
    \A i \in Ids :
        (i \in InState("queued") /\ entry[msgMap[i]].priority > 0 /\ ~entry[msgMap[i]].boosted)
            ~> (i \notin InState("queued") \/ entry[msgMap[i]].boosted)

-----------------------------------------------------------------------------
(* What comments, tests and documentation say and the code does not do.    *)

\* Queue.hpp:118: boosted is "True if priority has been boosted".
BoostedIsInFirstQueue ==
    \A i \in InState("queued") :
        entry[msgMap[i]].boosted => Contains(queue[0], msgMap[i])

\* Queue.hpp:36: "The Queue class is fully thread-safe": what pop returns
\* names its caller's delivery, so two workers never hold the same token.
OneHolderPerToken ==
    \A v, w \in Workers :
        v # w /\ lease[v].token = lease[w].token => lease[v].token = NoToken

\* Queue.hpp:30-31: "A retry limit can be specified, and if exceeded on a
\* given message, the message will be marked as failed".
FailedOnlyPastRetryLimit ==
    \A i \in InState("failed") : entry[msgMap[i]].failCount > MaxRetries

=============================================================================
