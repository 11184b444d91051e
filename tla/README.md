# Verification of MonitorQueue

TLA+ models of the monitored message queue in `src/server`, the TLC runs that
check them, and the theorems TLAPS proves about them. All modules, configurations
and the index `PROJECT.json` are in this directory. Line numbers below are those
of the files under `src/server/`.

    tlc -workers 2 -config QueueDelivery.cfg MCQueue      # a run: its .cfg and module
    tlapm MessageProofs.tla                               # the proofs of a module

## 1. The system

| part | state | operations | interacts with |
|---|---|---|---|
| `Queue` (Queue.cpp, Queue.hpp) | map from id to entry, one deque per priority, a multiset of delayed entries ordered by due time, a pool of free entries, two counters, one mutex, three condition variables | `push`, `pop`, `ack`, `popAck`, `getCounts`, `getFailed`, `eraseFailed`; a monitor thread (timeouts, retries, boosting); a delay thread; a constructor that starts both and a destructor that stops and joins them | callers block in `pop` on `m_pop_cv`; the delay thread waits on `m_delay_cv`, the monitor on `m_mon_cv` with a period |
| workers (test_general.cpp, test_delay.cpp) | the reference `pop` returned; the id and token read through it | pop, read, ack or popAck, pop again after an exception | call the queue concurrently |
| `QueueServer` (QueueServer.cpp) | a route table and a bounded pool of threads (Poco) | one handler per path: `/ping /push /pop /ack /pop_ack /count /failed /failed/erase` | handlers call the queue from the pool's threads; `/push` polls `getCounts`; `/pop` blocks its thread |
| `libjson` (libjson.hpp) | none beyond the value being filled | parser, accessors, printer | reads every request body |
| `mqserver`, `mqclient`, `test_api.py` | none of their own | start the server; send a fixed sequence of requests | HTTP |

What is hard in this code:

* **Interleaving.** `pop` returns a reference into an entry and unlocks; its
  caller reads id and token later, while a timeout, a second delivery or
  recycling may change them. Notifications (`notify_one`, and one per monitor
  pass) race workers that are on their way to the mutex.
* **Timeouts and retries.** A late ack races the timeout of its delivery, the
  next delivery, erasure, and re-publication under the same id.
* **Redundant state.** Where an entry is follows from six places that must agree:
  state, boosted, priority, the deques, the multiset, the map, next to counters
  kept apart from all of them.
* **Order.** The multiset is sorted by a field other operations write; boosting
  moves an entry between deques; expired delays go to the other end.
* **Two critical sections in one request.** `/push` and `/pop_ack`.
* **Destruction.** `m_run` is written and its notifications are sent without the
  mutex, between any two steps of the threads they are for.
* **Width.** `fail_count` is eight bits, compared for equality with a `size_t`.

What makes each part correct: no message is lost or in two places; counters
agree with the map; a token opens one delivery only; a timeout is charged once
and only to a message that is with a worker; waiting threads are woken; delays
end in time; low priorities are boosted; order within a priority is kept; the
internal errors are unreachable; destruction ends and frees nothing in use;
requests are answered and an ack that was done is final; the parser accepts JSON.

## 2. Modules

| module | models |
|---|---|
| `Queue` | the queue, both of its threads and its workers, with the properties |
| `LeaseQueue` | what the queue promises: an id is absent, pending, leased or failed |
| `QueueRefinement` | the mapping from `Queue` to `LeaseQueue` |
| `QueueLife` | construction and destruction of a queue around its use and its threads |
| `QueueServer` | the HTTP handlers, composed with `Queue` |
| `JsonGrammar`, `Json` | JSON by its grammar; libjson's parser as a stack machine |
| `MCQueue`, `MCQueueServer` | instances for TLC |
| `SequenceLemmas` | lemmas on sequences |
| `QueueProofs` | proofs: types, and each entry in one place |
| `MessageProofs` | proofs: a step as its effect on one message; tokens, counters, allocation, internal errors, the contract |
| `OrderProofs` | proofs: the delay set, the delay thread's wait, order in the queues |
| `WakeupProofs` | proof: no wakeup is lost |
| `LifeProofs` | proofs: nothing in use is freed, and what is proved of `Queue` holds through destruction |
| `ServerProofs` | proofs: the server uses the queue as `Queue` allows; acks are final |
| `JsonProofs` | proofs: what the parser accepts is a document, and every document is parsed |

### Queue

`lock` is the owner of `m_mutex`: `"free"`, one of the internal threads,
`"erase"`, or a worker between `ackImpl` and `popImpl` of `popAck`. A critical
section without a loop is one action (`Push`, `Pop`, `Ack`); one with a loop is
an action for its start, for each round and for its end (`MonitorWake`,
`MonitorVisit`, `MonitorDone`; `DelayWake`, `DelayMove`, `DelaySleep`;
`EraseFailed`, `EraseVisit`, `EraseDone`). What needs no mutex interleaves with
them: wakeups, and the reading of the returned reference, the id (`ReadId`) and then
the token (`ReadToken`).

* `entry` holds the `MsgEntry_t` objects, kept when they go to `pool`. `state_ts`
  is kept relative to the present: `Tick` lowers it, down to `-AgeCap`, where every
  comparison with a timeout has been decided. The delay of a message is positive.
* `queue[p]` lists a deque from its back: element 1 is delivered next.
* `delayed` is the multiset in order; insertion goes behind equal due times.
* A worker's `thread` is `out`, `asleep` in the wait, `woken` without the mutex,
  `returned` with `ref`, or `reading`; `lease` is the id and token it read. A lease
  may be kept after an ack, so the same ack can be sent twice, and dropped at any
  time (`DropLease`). A worker of `Retaining` keeps it while it pops, so it may ack
  with it if the message it popped is lost (`LoseMsg`); the others forget it, as
  test_general's do when they overwrite it. The theorems allow any `Retaining`; the
  runs have it empty but for `server`, since it only adds to what clients may send.
* `m_rng` draws a token nobody knows (`FreshTokens`): a repetition of a 64-bit
  number is not represented. A throw before any change is the absence of a step.
* The monitor visits the ids in any order, where the code has map order, and
  wakes at any time, where `wait_for` has a period it may return from early.

`getCounts` and `getFailed` change nothing; `CountsAgree` is about what they report.
In `TypeOK` the count of queued messages, a `size_t`, is a natural number; that the
count of failed ones never goes below zero is not a matter of its type, since what
`eraseFailed` subtracts at its end was removed earlier, and is part of `CountsAgree`.

### LeaseQueue

No threads, lock, order or clock: `Publish`, `Lease`, `Complete`, `Requeue`,
`Expire` and `Erase` on a status, a token and a count of expiries (`strikes`,
eight bits) for each id. Queued and delayed messages are both pending.

### QueueLife

Extends `Queue` by `run` (`m_run`), where the destructor is (`owner`: `using`,
`stopped`, `notified`, `joined_monitor`, `joined`, `freed`) and which threads have
returned. Each statement of `~Queue` is an action: `Stop` and `NotifyThreads`
take no mutex, `JoinMonitor` and `JoinDelay` wait for their threads, `Free`
empties the pool. The delay thread tests `m_run` at the head of its loop, with the
mutex, and then waits; the test (`DelayTest`) and the wait (`DelayWaits`) are two
actions here, since the destructor can act between them, while in `Queue`, where
nothing else can, they are one (`DelaySleep`). A notification that finds nobody
waiting is lost. The monitor always waits with a period, so a notification it
misses delays it only. The destructor begins when no caller is inside (`Quiet`):
anything else is undefined by the language, and the tests join their workers first.

### QueueServer

A worker of `Queue` is a client together with the pool thread of its connection,
as Poco gives a connection one thread until it closes; `MaxThreads` bounds them.
`step` is where a handler is. `/push` is `counting` for each element of its body: one
that is no object throws at once (`RefuseElement`), else it asks for space
(`AskForSpace`) and is `sleeping` until it asks again, or goes on to `pushing`, where
`push` throws (`PushThrows`) or queues the message (`PushNext`). An exception ends the
request. `/pop` is a `Pop`, after which the thread writes the answer from the
reference (`WriteId`, `SendMsg`) or the answer does not arrive (`AnswerLost`), and
`/pop_ack` is an `Ack` and then, later, a `Pop`. The queue's own actions are taken over
unchanged. Requests that only read the queue, and those refused for their body or
method, are no step.

`acked` is a history variable: the clients whose lease was ended by an ack of their
own, through `/ack` or `/pop_ack`, as long as they know no other. No action reads it.
A client of `Retaining` can lose the answer of a `/pop_ack`, message and all, and send
it again.

### Json

A frame is an active call of `fromString`, `parseObject` or `parseArray` with its
`state` and the value it fills; `parseValue` keeps nothing and is part of the
transition. Text is chosen while it is read, in lexemes: a bracket, a comma, a
colon, a string, a scalar, or a character that begins nothing.

`JsonGrammar` defines a document by how it is built, never by reading it:
`Levels(trailingComma)[n]` is the sequence, by length, of the values, array insides
and object insides of up to `n` lexemes, each a `Phrase` of a text and the value it
denotes. With `trailingComma` it is the language libjson's parser accepts (`Lenient`),
without it JSON (`Strict`). It is a recursive function, so that it can be proved about.

## 3. Runs

| run | instance | shows |
|---|---|---|
| `delivery` | 3 ids, 3 entries, capacity 2, 2 workers, 1 priority, ack timeout 1, fails at the 2nd timeout | `TypeOK`, `CountsAgree`, `AllocationBounded`, `NoLostWakeup`, `TokenNamesOneDelivery` |
| `places` | 2 ids, 2 priorities, 1 worker, delays 0 to 2, ack timeout 1, boost timeout 0 | `OnePlace`, `NoInternalError`, `DelayOrdered`, `DelayThreadInTime`, `NoOvertaking`, `ImplementsLeaseQueue` |
| `liveness` | 1 id, 2 workers, 2 priorities, delays 0 and 1 | `DelayEnds`, `StalledIsRecovered`, `WaitersAreServed`, `UnboostedIsBoosted` |
| `life` | 2 ids, 1 worker, delays 0 and 1, then destruction at any time callers are outside | `FreedLast`, `DestructionEndsIfDelayed`, `OnlyDelayThreadMissesStop` |
| `server` | 2 clients and threads, one of them in `Retaining`, capacity 1, bodies of two messages or of one element that is no object | `AckedIsFinal`, `RequestIsAnswered` |
| `json` | all texts of up to 10 lexemes | `ParsesEveryDocument`, `AcceptsOnlyDocuments` |
| `boost_lost` | 1 id, 1 worker, 2 priorities | finding 1 |
| `shared_token` | 1 id, 2 workers | finding 2 |
| `retry_limit` | 1 id, 1 worker, limit 1 | finding 3 |
| `push_space` | 2 ids, 2 clients, capacity 1, bodies of two messages | finding 4 |
| `push_delay` | 1 client, capacity 2, two messages, the second with a delay | finding 5 |
| `stop_lost` | 1 id, 1 worker | finding 6 |

Bounds and why they are enough:

* three ids over a capacity of two make pushes refuse and entries change ids; a
  third entry is there for a pool that would not be used; two messages and two
  workers are what a lost or doubled notification needs; two messages with three
  delays are inserted before, at and behind each other, and two priorities with a
  boost timeout of 0 meet every order of boost, retry, requeue and delay;
* a timeout of one tick and of none order every pair of events in both ways;
  ages saturate at `AgeCap`, so time needs no bound;
* `Tokens` has one value more than the entries in use and the leases can hold, so
  a pop is never refused for want of one;
* no bound above limits what is proved (section 5): there the runs are the check
  that came first, and only the liveness properties, `OnlyDelayThreadMissesStop`
  and `DestructionEndsIfDelayed` among them, rest on them;
* ids, entries and workers are permuted (`Symmetry`) in the runs of `MCQueue`
  except `liveness`; tokens are not, since `NewToken` chooses among them;
* `liveness` has one message. What takes several is in safety properties of the
  other runs: a longer `wait_for` in `DelayThreadInTime`, several retries in one pass
  in `NoLostWakeup`; that a message is boosted however many others there are is
  not checked with more than one;
* ten lexemes hold an object with two members and a spare bracket.

Every property of a passing run has a mutant in `PROJECT.json`, a plausible bug of
the code defined in the module next to what it changes, under which the run's
property fails. The mutants are no part of the specification.

### Fairness

`Queue!Fairness`: the two internal threads run, `wait_for` returns after its time
and time passes. Strong fairness stands where a thread needs the mutex, which is
free again and again while others take it in turn (`MonitorWake`, `DelayWake`,
`PopResume`, and `Tick`, which the model takes outside critical sections); weak
fairness where a thread holds it. It is the fairness of a scheduler and a mutex
that starve no thread for ever; the C++ standard does not promise it of
`std::mutex`, the platforms in use give it in practice. No spurious wakeup is
relied on, and publishers, idle workers and the erasing caller owe nothing.
`LifeFairness` asks the same of the threads' steps as `QueueLife` has them, and
that the destructor goes on once it has begun; nobody owes its beginning.
`QueueServer` needs less: the owner of the mutex goes on, and so does a thread
with a request. A `/push` that waits for space goes on by asking and sleeping, in
turn; that it ever finds space is not assumed. `RequestIsAnswered` says that a
request never answered is in one of two waits for good: for space, with the queue
full again and again, or in `pop`, with no message queued again and again. A thread
that `pop` has returned to, or that was given the space, answers.

## 4. Findings

1. **A boost is lost by a retry** (Queue.cpp:322-328). A boosted message that
   times out is queued at its own priority with `boosted` still true ("True if
   priority has been boosted", Queue.hpp:118) and is never boosted again.
2. **`pop` is not thread-safe for its caller** (Queue.cpp:225). Two workers can
   read the same token through their references, against "fully thread-safe"
   (Queue.hpp:36).
3. **The retry limit is met, not exceeded** (Queue.cpp:314). The n-th timeout
   fails a message whose limit is n: with 1 there is no retry, against
   Queue.hpp:30-31 and the assumption at mqclient.cpp:227.
4. **`/push` does not reserve the space it waited for** (QueueServer.cpp:97-106).
   Another request takes it, `push` throws, and the rest of the batch is dropped.
5. **`/push` with `del` is always refused** (QueueServer.cpp:106): the number is
   asked of the message instead of the member, after earlier messages were queued.
6. **A stop can be missed** (Queue.cpp:45-47). If `~Queue` clears `m_run` and
   notifies between the delay thread's test of it (line 381) and its wait (line
   400), and no message is delayed, that thread waits for ever and the destructor
   in `join`. It needs a queue that is destroyed soon after the delay thread was
   last awake: one whose last delay has just ended, or one just constructed, as
   when `QueueServer`'s constructor throws because its port is in use and the
   caller catches. `OnlyDelayThreadMissesStop` shows that it is the only way for
   destruction not to end.

Read in the code and not checked by a run: a retry also leaves `state_ts` at the
time of the delivery (Queue.hpp:121 calls it the time of the change of state), so
a retried message may be boosted at once; a limit of 0 is met at the 256th
timeout; messages whose delays end in the same pass are delivered last first;
`mqserver --port` is ignored (QueueServer.cpp:387); `doEraseFailed` of mqclient
(lines 204-210) writes no commas between ids, which the parser refuses for two or
more; libjson refuses the empty string as a member name; `/pop` and `/ack`
document `tok` as a `<uint>` (QueueServer.cpp:125, 149) and send and require a
string; ids are put into answers unescaped (QueueServer.cpp:134), so one with a
quote in it makes an answer that is no JSON.

## 5. Theorems

For every value of the constants that satisfies `QueueAssumption` (for the server
also `ServerAssumption`, for the parser `JsonAssumption`). Every safety property
of a passing run is proved.

| theorem | module | states |
|---|---|---|
| `TypeCorrect` | `QueueProofs` | `Spec => []TypeOK` |
| `EveryEntryInOnePlace` | `QueueProofs` | `Spec => []OnePlace` |
| `TokensNameDeliveries` | `MessageProofs` | `Spec => []TokenNamesOneDelivery` |
| `CountersAgree` | `MessageProofs` | `Spec => []CountsAgree` |
| `AllocationIsBounded` | `MessageProofs` | `Spec => []AllocationBounded` |
| `NoErrorIsReported` | `MessageProofs` | `Spec => []NoInternalError` |
| `QueueImplementsLeaseQueue` | `MessageProofs` | `Spec => ImplementsLeaseQueue` |
| `DelaySetIsOrdered` | `OrderProofs` | `Spec => []DelayOrdered` |
| `DelayThreadIsInTime` | `OrderProofs` | `Spec => []DelayThreadInTime` |
| `NobodyOvertakes` | `OrderProofs` | `Spec => NoOvertaking` |
| `NoWakeupIsLost` | `WakeupProofs` | `Spec => []NoLostWakeup` |
| `FreedWhenUnused` | `LifeProofs` | `LifeSpec => []FreedLast` |
| `SafeThroughDestruction` | `LifeProofs` | under `LifeSpec`, `[]` of each state property of `Queue` above |
| `ContractThroughDestruction` | `LifeProofs` | `LifeSpec => ImplementsLeaseQueue` |
| `ServerUsesQueue` | `ServerProofs` | `ServerSpec => Spec` |
| `AcksAreFinal` | `ServerProofs` | `ServerSpec => []AckedIsFinal` |
| `AcceptedIsDocument` | `JsonProofs` | `Spec => []AcceptsOnlyDocuments` (of `Json`) |
| `EveryDocumentIsParsed` | `JsonProofs` | `Spec => []ParsesEveryDocument` (of `Json`) |

**Types and places.** `TypeOK` is not inductive: that `ReadId` and `ReadToken` read
an entry needs `RefIsEntry` (a worker that returned from `pop` has a reference), and that
the monitor visits an entry needs `ScanIsMapped` (the ids it has yet to visit are
in the map: nobody else changes the map while it holds the mutex). `TypeInv` is
the three together. `OnePlace` is a conjunction of `MapIndexesEntries`,
`NoRepetition` and `WellPlaced` for each entry, and is inductive relative to
`TypeInv`: an action moves one entry, taken from the pool, a queue or the delay
set, where by `NoRepetition` it occurs once, so removing one occurrence removes
it; it is added only where `WellPlaced` shows that it was not. `WellPlaced` allows
a boosted entry in its own queue as well as in queue 0, as finding 1 requires.
`SequenceLemmas` states what appending, prepending, inserting and removing do to
the members of a sequence and to its freedom from repetition; it speaks of
`Contains` and `IsInjective` so that the solvers see no quantifiers over
positions.

**Messages.** `MessageProofs` looks at a step through one id: its `Status`, its
`TokenOf` and its `Strikes`. The lemma `EffectStep` says that every step of `Queue`
either leaves these of every id alone, or changes those of one id in one of the
ways `Legal` lists, with the counters changed to match (`Moves`). It is proved
action by action from `TypeInv` and `OnePlace`, since two ids that shared an entry
would change together. From it follow

* `CountsAgree`: a set that gains or loses one id changes its cardinality by one;
  `FailedNow` is `countFailed` less the messages `eraseFailed` has removed and not
  yet subtracted;
* `TokenNamesOneDelivery`, restated as `TokensByStatus`: a legal change keeps a
  token, clears it, or draws one from `FreshTokens`;
* the refinement: each legal change is an action of `LeaseQueue`;
* `AckedIsFinal`, below.

`AllocationBounded` is inductive with the types alone, because `push` takes an
entry of the pool whenever there is one. `NoInternalError` is a consequence of
`OnePlace` and `CountsAgree`.

**Order.** `DelayOrdered` holds because a step that writes `ts` does so to entries
`OnePlace` shows not to be in the set, or to all of them (`Tick`).
`DelayThreadInTime` needs `DelayInv`: while the delay thread has the mutex it
counts as awake. `NoOvertaking` is a step property: each action adds at the back,
or removes.

**Wakeups.** `NoLostWakeup` is inductive relative to `TypeInv`: what increases
`countQueued` wakes a worker in the same critical section or adds to the monitor's
tally, and a woken worker that leaves takes a message with it or found none.

**Life.** `LifeInv` relates the destructor's progress to the threads: callers are
inside only before it begins; a thread that has returned does not own the mutex
and does not run again; a join is passed only behind its thread. For the rest,
`LifeProofs` carries the invariants of `Queue` along: an action of `QueueLife` is one
of `Queue`, or touches no message: it frees the pool, wakes the delay thread or gives
the mutex back (`LifeStepOfQueue`). For these the invariants are proved anew
(`QueueInvUnderThreadsOnly`); the contract does not see them.

**Server.** `ServerInv` has the types of the handlers' state and that `/push` has a
message while it queues. With it every step of a handler is a step of `Queue` or
leaves the queue alone, so `ServerSpec => Spec` and all of the above holds behind
the server. `AckedIsFinal` follows from `AckedIsSpent`: the token of a lease that was
acked is on no message, and no delivery can draw it while the client remembers it.
A step either acks, or lets nobody in `acked` know anything new (`NoNewAck`).

**Parser.** The two theorems hold for texts of every length and nesting, as
`MaxLength` is any natural number; they go opposite ways.

*Accepted is a document.* `SoundInv` says that the text read so far divides into
consecutive parts, one for each active call (`Linked`), and what each part is: that
of the innermost call has the shape its `state` stands for (`Reads`: the beginning
of an array, an object after a name, ...), those of the others stop where they
called (`Waits`), and the value a frame fills is that of its part. A call adds a
part; a return finds the whole text of an array or object in the last part
(`ReturnsWhole`), which as one value lengthens the part before it; every other
lexeme extends the last part. When `fromString` returns there is one frame, whose
part is the text. That parts which are phrases combine into phrases is lemmas about
`JsonGrammar` (`ArrayIsValue`, `NextElementRule`, ...), which rest on what the recursive
function has at one length (`AtIsLevel`).

*A document is accepted.* `Run(fs, t, gs)` says that reading `t` takes the stack
`fs` to `gs` without an exception. By `EveryLevelParsed`, a strong induction over the
length of phrases, every value of the grammar is read on top of any stack, and leaves
it as it was but for the value filled in; the same for the insides of arrays and
objects. So there is a run over every document (`DocumentRun`). Steps are determined
by the lexeme (`OneStep`), so two runs agree as far as their texts do (`RunsAgree`).
`CompleteInv` says that the parser has made a run over what it has read; if it has
thrown, the run over the document the text begins would go on where it cannot
(`RunGoesOn`), and if it has returned, its frames are those of the document's run.

The induction theorems of the library take an operator, which the provers cannot
instantiate; `LeastElement`, `SetInduction` and `StrongInduction` do the same for
sets, from the well-foundedness of the naturals, and suffice here.

**Only model-checked.** The liveness properties: `DelayEnds`, `StalledIsRecovered`,
`WaitersAreServed`, `UnboostedIsBoosted`, `DestructionEndsIfDelayed`,
`OnlyDelayThreadMissesStop` and `RequestIsAnswered`. Liveness under fairness is out
of the prover's reach.

## 6. Not modelled

* Destruction with callers still in `pop`, which the language leaves undefined and
  no program of the repository does on purpose. `~Queue` frees the pool only:
  entries still in `m_msg_map` are never freed (Queue.cpp:51-53).
* Memory order: `m_run` is a plain `bool` that the destructor writes without the
  mutex, a data race; the models let a thread read the value last written.
  `setErrorCallback` (Queue.cpp:172) likewise writes `m_err_cb` without the mutex,
  and `getFailed` and `eraseFailed` read `m_count_failed` before they take it.
* The error callback itself: it is called where `NoInternalError` shows that it is
  not reached, or for exceptions of the allocator, which are left out.
* Poco: the queue of connections that wait for a thread, and HTTP itself. While
  every thread waits in `/pop`, no other request is served.
* libjson's string escapes, numbers, accessors and printer; white space. What a
  handler does when an accessor throws is the refusal of the request, which
  `QueueServer` has.
* The programs `mqserver` and `mqclient` and the statistics of the tests, which
  keep no shared state beyond what the workers of `Queue` and the clients of
  `QueueServer` stand for; the build.
* A clock that is set back, 256 timeouts of one message, repeated random tokens.

## 7. Plan

Written in the order above: `Queue` with its contract, the server over it, the
parser, the life of a queue, then the proofs. What would come next:

1. `parseString` with its escapes and `\u` sequences against the JSON grammar of
   strings, with the ids that answers repeat without escaping them; and the
   accessors, whose `has` leaves an iterator that the object's `asBool` and
   `asNumber` read, so that `QueueServer` refuses by what a body says.
2. In `QueueServer`, the connections that wait for a thread of the pool.
