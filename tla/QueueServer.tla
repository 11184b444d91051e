---------------------------- MODULE QueueServer ----------------------------
(***************************************************************************)
(* The HTTP handlers of server/QueueServer.cpp over the queue of module    *)
(* Queue.  A worker is here a client together with the thread of the       *)
(* server's pool that serves its connection: lease is what the client      *)
(* knows, thread and ref belong to the thread.  A request that needs the   *)
(* queue once is one action; /push tests for space and pushes in separate  *)
(* critical sections, and /pop_ack acks and pops in separate ones.  One    *)
(* that only reads (/ping, /count, /failed), and one refused for its body, *)
(* is the absence of a step.                                               *)
(*                                                                         *)
(* A client that loses the answer to a request still knows what it knew    *)
(* before, and may send an ack again that was done.                        *)
(***************************************************************************)
EXTENDS Queue

CONSTANTS
    MaxThreads,   \* capacity of the thread pool of the HTTP server
    Batches       \* bodies of /push: sequences of messages

VARIABLES
    step,         \* where the handler of each client's request is
    batch,        \* the messages a /push has yet to queue
    acked         \* history: clients whose lease their own ack has ended

serverVars == <<step, batch>>
allVars    == <<vars, serverVars, acked>>

\* An element of a body: whether it is an object, and its members: id is NoId
\* if it is absent or no string, pri within a uint8_t, del whether it is there.
Messages ==
    [object : BOOLEAN, id : Ids \cup {NoId}, pri : 0 .. 255, del : BOOLEAN]

ASSUME ServerAssumption ==
    /\ MaxThreads \in Nat \ {0}
    /\ Batches \subseteq Seq(Messages) \ {<<>>}
    /\ 0 \in Delays

ServerInit ==
    /\ Init
    /\ step = [w \in Workers |-> "closed"]
    /\ batch = [w \in Workers |-> <<>>]
    /\ acked = {}

Proceeds(w, s) ==
    /\ step' = [step EXCEPT ![w] = s]
    /\ UNCHANGED batch

\* The request of w is answered, its thread reads the next one.
Answered(w) ==
    /\ step' = [step EXCEPT ![w] = "idle"]
    /\ batch' = [batch EXCEPT ![w] = <<>>]

-----------------------------------------------------------------------------
(* Connections.  The pool gives a connection a thread until it is closed   *)
(* by the client, by the keep-alive timeout or the limit of requests.      *)

Connect(w) ==
    /\ step[w] = "closed"
    /\ Cardinality({v \in Workers : step[v] # "closed"}) < MaxThreads
    /\ Proceeds(w, "idle")
    /\ UNCHANGED <<vars, acked>>

Disconnect(w) ==
    /\ step[w] = "idle"
    /\ Proceeds(w, "closed")
    /\ UNCHANGED <<vars, acked>>

-----------------------------------------------------------------------------
(* /push.                                                                  *)

PushRequest(w, b) ==
    /\ step[w] = "idle"
    /\ step' = [step EXCEPT ![w] = "counting"]
    /\ batch' = [batch EXCEPT ![w] = b]
    /\ UNCHANGED <<vars, acked>>

\* Mutant: the test of free is inverted.
HasNoSpace == Cardinality(Mapped) = Capacity

\* getCounts reports free.
HasSpace == Cardinality(Mapped) # Capacity

\* An element that is not an object throws before anything is waited for.
RefuseElement(w) ==
    /\ step[w] = "counting"
    /\ ~Head(batch[w]).object
    /\ Answered(w)
    /\ UNCHANGED <<vars, acked>>

\* The thread asks for the counts and, without space, sleeps to ask again.
AskForSpace(w) ==
    /\ step[w] = "counting"
    /\ Head(batch[w]).object
    /\ lock = "free"
    /\ Proceeds(w, IF HasSpace THEN "pushing" ELSE "sleeping")
    /\ UNCHANGED <<vars, acked>>

SleepEnds(w) ==
    /\ step[w] = "sleeping"
    /\ Proceeds(w, "counting")
    /\ UNCHANGED <<vars, acked>>

\* What the arguments of push are made of throws: getString of the id, or
\* for any delay asNumber, which is asked of the message and not of del.
Unconvertible(m) == m.del

\* push throws before or after it takes the mutex.
Refuses(m) ==
    \/ m.id = NoId
    \/ m.pri \notin Priorities
    \/ m.id \in Mapped

\* An exception ends the whole request and leaves queued what was.
PushThrows(w) ==
    LET m == Head(batch[w]) IN
    /\ step[w] = "pushing"
    /\ Unconvertible(m) \/ (lock = "free" /\ (Refuses(m) \/ Cardinality(Mapped) = Capacity))
    /\ Answered(w)
    /\ UNCHANGED <<vars, acked>>

\* The next message of the batch is queued.
PushNext(w) ==
    LET m == Head(batch[w]) IN
    /\ step[w] = "pushing"
    /\ ~Unconvertible(m)
    /\ ~Refuses(m)
    /\ Push(m.id, m.pri, 0)
    /\ IF Len(batch[w]) = 1
       THEN Answered(w)
       ELSE /\ step' = [step EXCEPT ![w] = "counting"]
            /\ batch' = [batch EXCEPT ![w] = Tail(@)]
    /\ UNCHANGED acked

-----------------------------------------------------------------------------
(* /pop, /ack, /pop_ack.                                                   *)

PopRequest(w) ==
    /\ step[w] = "idle"
    /\ Pop(w)
    /\ Proceeds(w, "popping")
    /\ UNCHANGED acked

\* What w knows from now on is not the lease it may have acked.
KnowsAnother(w) == acked' = acked \ {w}

\* The answer is put together from the reference, the id first; it overwrites
\* what the client knew.
WriteId(w) ==
    /\ step[w] = "popping"
    /\ ReadId(w)
    /\ KnowsAnother(w)
    /\ UNCHANGED serverVars

SendMsg(w) ==
    /\ step[w] = "popping"
    /\ ReadToken(w)
    /\ Answered(w)
    /\ KnowsAnother(w)

\* The message goes out but does not arrive.
AnswerLost(w) ==
    /\ step[w] = "popping"
    /\ LoseMsg(w)
    /\ Proceeds(w, "idle")
    /\ UNCHANGED acked

AckRequest(w, requeue, d) ==
    /\ step[w] = "idle"
    /\ UNCHANGED lease
    /\ Ack(w, requeue, d)
    /\ Answered(w)
    /\ acked' = acked \cup {w}

\* ack throws, for /ack and for /pop_ack, which then does not pop.
AckRefused(w) ==
    /\ step[w] = "idle"
    /\ lock = "free"
    /\ lease[w] # NoLease
    /\ ~Accepts(lease[w].id, lease[w].token)
    /\ Answered(w)
    /\ UNCHANGED <<vars, acked>>

PopAckRequest(w, requeue, d) ==
    /\ step[w] = "idle"
    /\ UNCHANGED lease
    /\ Ack(w, requeue, d)
    /\ Proceeds(w, "acked")
    /\ acked' = acked \cup {w}

PopAfterAckRequest(w) ==
    /\ step[w] = "acked"
    /\ Pop(w)
    /\ Proceeds(w, "popping")
    /\ UNCHANGED acked

\* A client forgets what it knows.
ClientFails(w) ==
    /\ step[w] \in {"idle", "closed"}
    /\ DropLease(w)
    /\ KnowsAnother(w)
    /\ UNCHANGED serverVars

-----------------------------------------------------------------------------
(* /failed/erase.                                                          *)

EraseRequest(w, ids) ==
    /\ step[w] = "idle"
    /\ EraseFailed(ids)
    /\ Proceeds(w, "erasing")
    /\ UNCHANGED acked

EraseAnswered(w) ==
    /\ step[w] = "erasing"
    /\ EraseDone
    /\ Answered(w)
    /\ UNCHANGED acked

-----------------------------------------------------------------------------
Handler(w) ==
    \/ Connect(w)
    \/ Disconnect(w)
    \/ \E b \in Batches : PushRequest(w, b)
    \/ RefuseElement(w)
    \/ AskForSpace(w)
    \/ SleepEnds(w)
    \/ PushThrows(w)
    \/ PushNext(w)
    \/ PopRequest(w)
    \/ WriteId(w)
    \/ SendMsg(w)
    \/ AnswerLost(w)
    \/ \E requeue \in BOOLEAN, d \in Delays :
         AckRequest(w, requeue, d) \/ PopAckRequest(w, requeue, d)
    \/ AckRefused(w)
    \/ PopAfterAckRequest(w)
    \/ ClientFails(w)
    \/ \E ids \in SUBSET Ids : EraseRequest(w, ids)
    \/ EraseAnswered(w)

QueueStep ==
    /\ \/ \E w \in Workers : PopResume(w) \/ SpuriousWakeup(w)
       \/ \E i \in Ids : EraseVisit(i)
       \/ Monitor
       \/ DelayThread
       \/ Tick
    /\ UNCHANGED <<serverVars, acked>>

ServerNext == (\E w \in Workers : Handler(w)) \/ QueueStep

ServerSpec == ServerInit /\ [][ServerNext]_allVars

(* Fairness: the thread that holds the mutex goes on until it releases it,  *)
(* and so does a thread of the pool with a request, strongly because it    *)
(* needs the mutex.  That a thread asks for space again and again does not *)
(* make it find any.  Clients owe nothing, and neither a timeout nor the   *)
(* start of a pass of the monitor is needed.                               *)
OwnerGoesOn ==
    /\ \/ \E i \in Ids : MonitorVisit(i) \/ EraseVisit(i)
       \/ MonitorDone
       \/ DelayMove
       \/ DelaySleep
    /\ UNCHANGED <<serverVars, acked>>

HandlerGoesOn(w) ==
    \/ RefuseElement(w)
    \/ AskForSpace(w)
    \/ SleepEnds(w)
    \/ PushThrows(w)
    \/ PushNext(w)
    \/ PopAfterAckRequest(w)
    \/ PopResume(w) /\ UNCHANGED <<serverVars, acked>>
    \/ WriteId(w)
    \/ SendMsg(w)
    \/ EraseAnswered(w)

ServerFairness ==
    WF_allVars(OwnerGoesOn) /\ \A w \in Workers : SF_allVars(HandlerGoesOn(w))

FairServerSpec == ServerSpec /\ ServerFairness

-----------------------------------------------------------------------------
\* An ack that was done is final: the same request sent again, by a client
\* that lost the answer to its /ack or /pop_ack or gave up waiting for the
\* message of the latter, is refused at any time while it knows the lease,
\* whatever has become of the message, its id or its entry since.
AckedIsFinal ==
    \A w \in acked :
        lease[w] # NoLease => ~Accepts(lease[w].id, lease[w].token)

InRequest(w) == step[w] \notin {"idle", "closed"}

\* The two waits that only other requests can end.
WaitsForSpace(w) == step[w] \in {"counting", "sleeping"}
WaitsForMsg(w)   == step[w] = "popping" /\ thread[w] \in {"asleep", "woken"}

\* A request that is never answered waits for ever for space, and the queue
\* is full again and again, or it waits for ever in pop, and again and again
\* no message is queued: a slot that stays free and a message that stays
\* queued end the wait, and a message that pop has returned is sent.
RequestIsAnswered ==
    \A w \in Workers :
        <>[]InRequest(w) =>
            \/ <>[]WaitsForSpace(w) /\ []<>(Cardinality(Mapped) = Capacity)
            \/ <>[]WaitsForMsg(w) /\ []<>(countQueued = 0)

\* QueueServer.cpp:97: the loop before push is there "until push has a
\* built-in wait/timeout": a /push waits for space, so none ends with an
\* error for want of it.
PushWaitsForSpace ==
    [][\A w \in Workers :
         PushThrows(w) => Unconvertible(Head(batch[w])) \/ Refuses(Head(batch[w]))]_allVars

\* QueueServer.cpp:75: the messages of /push are
\* "{ id: <string>, pri: <uint>, del: <uint> (optional) }".
DelayIsOptional ==
    [][\A w \in Workers : PushThrows(w) => ~Unconvertible(Head(batch[w]))]_allVars

=============================================================================
