----------------------------- MODULE ServerProofs -----------------------------
(***************************************************************************)
(* Proofs about QueueServer.  Every step of a handler is a step of the     *)
(* queue or leaves it alone, so what is proved of Queue holds behind the   *)
(* server; and an acknowledgement that was answered is final.              *)
(***************************************************************************)
EXTENDS QueueServer, MessageProofs

Queueing == {"counting", "sleeping", "pushing"}
Steps    == Queueing \cup {"closed", "idle", "popping", "acked", "erasing"}

\* The messages a /push has yet to queue are there while it queues.
ServerInv ==
    /\ step \in [Workers -> Steps]
    /\ batch \in [Workers -> Seq(Messages)]
    /\ acked \subseteq Workers
    /\ \A w \in Workers : step[w] \in Queueing => batch[w] # <<>>

-----------------------------------------------------------------------------
(* The handlers call the queue as Queue lets them.                         *)

LEMMA ServerInitially == ServerInit => ServerInv
  BY DEF ServerInit, ServerInv, Steps, Queueing

LEMMA AnsweredKeeps ==
    ASSUME ServerInv, NEW w \in Workers, Answered(w), acked' \subseteq Workers
    PROVE  ServerInv'
  BY DEF ServerInv, Answered, Steps, Queueing

LEMMA ProceedsKeeps ==
    ASSUME ServerInv, NEW w \in Workers, NEW s \in Steps, Proceeds(w, s),
           s \in Queueing => step[w] \in Queueing, acked' \subseteq Workers
    PROVE  ServerInv'
  BY DEF ServerInv, Proceeds

LEMMA RestOfBatch ==
    ASSUME NEW b \in Seq(Messages), b # <<>>, Len(b) # 1
    PROVE  Tail(b) \in Seq(Messages) \ {<<>>}
  <1>1. Tail(b) \in Seq(Messages) /\ Len(Tail(b)) = Len(b) - 1
    OBVIOUS
  <1>2. Len(b) \in Nat /\ Len(b) # 0
    OBVIOUS
  <1>3. Len(Tail(b)) # 0
    BY <1>1, <1>2
  <1>4. Tail(b) # <<>>
    BY <1>1, <1>3, EmptySeq
  <1> QED
    BY <1>1, <1>4

\* What queueing one message of a batch is.
LEMMA PushNextSteps ==
    ASSUME ServerInv, NEW w \in Workers, PushNext(w)
    PROVE  /\ \E i \in Ids, p \in Priorities : Push(i, p, 0)
           /\ ServerInv'
  <1> DEFINE m == Head(batch[w])
  <1>1. step[w] = "pushing" /\ batch[w] \in Seq(Messages) /\ batch[w] # <<>>
    BY DEF PushNext, ServerInv, Queueing
  <1>2. m \in Messages
    BY <1>1
  <1>3. ~Refuses(m) /\ Push(m.id, m.pri, 0)
    BY DEF PushNext
  <1> HIDE DEF m
  <1>4. m.id \in Ids /\ m.pri \in Priorities
    BY <1>2, <1>3 DEF Refuses, Messages
  <1>5. CASE Len(batch[w]) = 1
    <2>1. Answered(w) /\ UNCHANGED acked
      BY <1>5 DEF PushNext
    <2>2. ServerInv'
      BY <2>1, AnsweredKeeps DEF ServerInv
    <2> QED
      BY <1>3, <1>4, <2>2
  <1>6. CASE Len(batch[w]) # 1
    <2>1. /\ step' = [step EXCEPT ![w] = "counting"]
          /\ batch' = [batch EXCEPT ![w] = Tail(@)]
          /\ UNCHANGED acked
      BY <1>6 DEF PushNext
    <2>2. Tail(batch[w]) \in Seq(Messages) \ {<<>>}
      BY <1>1, <1>6, RestOfBatch
    <2>3. ServerInv'
      BY <2>1, <2>2 DEF ServerInv, Steps, Queueing
    <2> QED
      BY <1>3, <1>4, <2>3
  <1> QED
    BY <1>5, <1>6

\* Nobody has newly ended its lease, and who has keeps what it knows of it or
\* drops it.
NoNewAck ==
    \A v \in acked' : v \in acked /\ lease'[v] \in {lease[v], NoLease}

\* A step that is no ack and lets nobody read a lease.
LEMMA NothingAcked ==
    ASSUME TypeOK, acked \subseteq Workers, acked' \subseteq acked, NEW w \in Workers,
           \/ UNCHANGED lease
           \/ \E l \in {lease[w], NoLease} : lease' = [lease EXCEPT ![w] = l]
    PROVE  NoNewAck
  BY DEF TypeOK, NoNewAck

\* What one step of a handler is: a step of the queue or none, with an answer
\* or a stage of the request.
LEMMA HandlerSteps ==
    ASSUME TypeInv, ServerInv, NEW w \in Workers, Handler(w)
    PROVE  /\ [Next]_vars
           /\ ServerInv'
           /\ \/ \E requeue \in BOOLEAN, d \in Delays :
                   AckRequest(w, requeue, d) \/ PopAckRequest(w, requeue, d)
              \/ NoNewAck
  <1>0. TypeOK /\ acked \subseteq Workers
    BY DEF TypeInv, ServerInv
  <1>1. ASSUME Answered(w), UNCHANGED <<lease, acked>>
        PROVE  ServerInv' /\ NoNewAck
    BY <1>0, <1>1, AnsweredKeeps, NothingAcked
  <1>2. ASSUME NEW s \in Steps, Proceeds(w, s), UNCHANGED <<lease, acked>>,
               s \in Queueing => step[w] \in Queueing
        PROVE  ServerInv' /\ NoNewAck
    BY <1>0, <1>2, ProceedsKeeps, NothingAcked
  <1>3. CASE Connect(w) \/ Disconnect(w) \/ AskForSpace(w) \/ SleepEnds(w)
    <2>1. PICK s \in {"idle", "closed"} \cup Queueing :
            Proceeds(w, s) /\ (s \in Queueing => step[w] \in Queueing)
      BY <1>3 DEF Connect, Disconnect, AskForSpace, SleepEnds, Queueing
    <2>2. UNCHANGED vars /\ UNCHANGED <<lease, acked>> /\ s \in Steps
      BY <1>3 DEF Connect, Disconnect, AskForSpace, SleepEnds, vars, Steps
    <2> QED
      BY <1>2, <2>1, <2>2
  <1>4. CASE RefuseElement(w) \/ PushThrows(w) \/ AckRefused(w)
    <2>1. Answered(w) /\ UNCHANGED vars /\ UNCHANGED <<lease, acked>>
      BY <1>4 DEF RefuseElement, PushThrows, AckRefused, vars
    <2> QED
      BY <1>1, <2>1
  <1>5. ASSUME NEW b \in Batches, PushRequest(w, b)
        PROVE  [Next]_vars /\ ServerInv' /\ NoNewAck
    <2>1. b \in Seq(Messages) /\ b # <<>> /\ UNCHANGED lease /\ UNCHANGED acked
      BY <1>5, ServerAssumption DEF PushRequest, vars
    <2>2. ServerInv'
      BY <1>5, <2>1 DEF PushRequest, ServerInv, Steps, Queueing
    <2> QED
      BY <1>0, <1>5, <2>1, <2>2, NothingAcked DEF PushRequest
  <1>6. CASE PushNext(w)
    <2>1. PICK i \in Ids, p \in Priorities : Push(i, p, 0)
      BY <1>6, PushNextSteps
    <2>2. ServerInv' /\ UNCHANGED <<lease, acked>>
      BY <1>6, <2>1, PushNextSteps DEF Push, PushNext
    <2> QED
      BY <1>0, <2>1, <2>2, NothingAcked, ServerAssumption DEF Next, Publisher
  <1>7. CASE PopRequest(w) \/ PopAfterAckRequest(w)
    <2>1. Pop(w) /\ Proceeds(w, "popping") /\ UNCHANGED acked
      BY <1>7 DEF PopRequest, PopAfterAckRequest
    <2>2. ServerInv'
      BY <1>0, <2>1, ProceedsKeeps DEF Steps, Queueing
    <2>3. NoNewAck
      BY <1>0, <2>1, NothingAcked DEF Pop, Remembered
    <2> QED
      BY <2>1, <2>2, <2>3 DEF Next, Worker
  <1>8. CASE WriteId(w)
    <2>1. ReadId(w) /\ UNCHANGED <<step, batch>> /\ acked' = acked \ {w}
      BY <1>8 DEF WriteId, KnowsAnother, serverVars
    <2>2. \A v \in Workers : v # w => lease'[v] = lease[v]
      BY <1>0, <2>1 DEF ReadId, TypeOK
    <2>3. ServerInv' /\ NoNewAck
      BY <1>0, <2>1, <2>2 DEF ServerInv, NoNewAck
    <2> QED
      BY <2>1, <2>3 DEF Next, Worker
  <1>9. CASE SendMsg(w)
    <2>1. ReadToken(w) /\ Answered(w) /\ acked' = acked \ {w}
      BY <1>9 DEF SendMsg, KnowsAnother
    <2>2. \A v \in Workers : v # w => lease'[v] = lease[v]
      BY <1>0, <2>1 DEF ReadToken, TypeOK
    <2>3. ServerInv'
      BY <1>0, <2>1, AnsweredKeeps
    <2>4. NoNewAck
      BY <1>0, <2>1, <2>2 DEF NoNewAck
    <2> QED
      BY <2>1, <2>3, <2>4 DEF Next, Worker
  <1>10. CASE AnswerLost(w)
    <2>1. LoseMsg(w) /\ Proceeds(w, "idle") /\ UNCHANGED <<lease, acked>>
      BY <1>10 DEF AnswerLost, LoseMsg
    <2>2. "idle" \in Steps \ Queueing
      BY DEF Steps, Queueing
    <2> QED
      BY <1>2, <2>1, <2>2 DEF Next, Worker
  <1>11. ASSUME NEW requeue \in BOOLEAN, NEW d \in Delays,
                AckRequest(w, requeue, d) \/ PopAckRequest(w, requeue, d)
         PROVE  [Next]_vars /\ ServerInv'
    <2>1. Ack(w, requeue, d) /\ acked' \subseteq Workers
      BY <1>0, <1>11 DEF AckRequest, PopAckRequest
    <2>2. Answered(w) \/ Proceeds(w, "acked")
      BY <1>11 DEF AckRequest, PopAckRequest
    <2>3. "acked" \in Steps \ Queueing
      BY DEF Steps, Queueing
    <2> QED
      BY <2>1, <2>2, <2>3, AnsweredKeeps, ProceedsKeeps DEF Next, Worker
  <1>12. CASE ClientFails(w)
    <2>1. DropLease(w) /\ UNCHANGED <<step, batch>> /\ acked' = acked \ {w}
      BY <1>12 DEF ClientFails, KnowsAnother, serverVars
    <2>2. NoNewAck
      BY <1>0, <2>1, NothingAcked DEF DropLease
    <2> QED
      BY <1>0, <2>1, <2>2 DEF ServerInv, Next, Worker
  <1>13. CASE EraseAnswered(w)
    <2>1. EraseDone /\ Answered(w) /\ UNCHANGED <<lease, acked>>
      BY <1>13 DEF EraseAnswered, EraseDone
    <2> QED
      BY <1>1, <2>1 DEF Next, Eraser
  <1>14. ASSUME NEW ids \in SUBSET Ids, EraseRequest(w, ids)
         PROVE  [Next]_vars /\ ServerInv' /\ NoNewAck
    <2>1. EraseFailed(ids) /\ Proceeds(w, "erasing") /\ UNCHANGED <<lease, acked>>
      BY <1>14 DEF EraseRequest, EraseFailed
    <2>2. "erasing" \in Steps \ Queueing
      BY DEF Steps, Queueing
    <2> QED
      BY <1>2, <2>1, <2>2 DEF Next, Eraser
  <1> QED
    BY <1>3, <1>4, <1>5, <1>6, <1>7, <1>8, <1>9, <1>10, <1>11, <1>12, <1>13, <1>14
    DEF Handler

LEMMA QueueSteps ==
    ASSUME ServerInv, QueueStep \/ UNCHANGED allVars
    PROVE  [Next]_vars /\ ServerInv' /\ UNCHANGED <<acked, lease>>
  <1>1. UNCHANGED <<step, batch, acked>> /\ ServerInv'
    BY DEF QueueStep, allVars, serverVars, ServerInv
  <1>2. CASE UNCHANGED allVars
    BY <1>1, <1>2 DEF allVars, vars
  <1>3. CASE QueueStep
    <2>1. [Next]_vars
      BY <1>3 DEF QueueStep, Next, Worker, Eraser
    <2>2. UNCHANGED lease
      BY <1>3 DEF QueueStep, PopResume, SpuriousWakeup, EraseVisit, Monitor,
         MonitorWake, MonitorVisit, MonitorDone, DelayThread, DelayWake, DelayMove,
         DelaySleep, DelaySpuriousWakeup, Tick
    <2> QED
      BY <1>1, <2>1, <2>2
  <1> QED
    BY <1>2, <1>3

LEMMA ServerStep ==
    TypeInv /\ ServerInv /\ [ServerNext]_allVars => ServerInv' /\ [Next]_vars
  BY HandlerSteps, QueueSteps DEF ServerNext

-----------------------------------------------------------------------------
\* The server calls the queue only as Queue allows: every behaviour of the
\* two is one of the queue, whatever its clients send and however requests
\* overlap, so every theorem about Spec is one about ServerSpec.
THEOREM ServerUsesQueue == ServerSpec => Spec
  <1>1. ServerInit => Init /\ TypeInv /\ ServerInv
    BY ServerInitially, TypeInit DEF ServerInit
  <1>2. TypeInv /\ ServerInv /\ [ServerNext]_allVars => TypeInv' /\ ServerInv' /\ [Next]_vars
    BY ServerStep, TypeStep
  <1> QED
    BY <1>1, <1>2, PTL DEF ServerSpec, Spec

-----------------------------------------------------------------------------
(* An acknowledgement is final.                                            *)

\* The token of a lease that was acked is nobody's any more.
AckedIsSpent ==
    \A w \in acked :
        lease[w] # NoLease =>
            /\ lease[w].token # NoToken
            /\ \A j \in Ids : TokenOf(j) # lease[w].token

LEMMA SpentIsFinal == AckedIsSpent => AckedIsFinal
  BY DEF AckedIsSpent, AckedIsFinal, Accepts, TokenOf, Mapped

\* No step hands out a token that somebody knows and goes on knowing: it
\* keeps the token of a message, clears it, or draws one that is fresh.
LEMMA TokensComeFresh ==
    ASSUME TypeInv, OnePlace, [Next]_vars, NEW j \in Ids, NEW v \in Workers,
           lease'[v] = lease[v],
           lease[v].token # NoToken, TokenOf(j) # lease[v].token
    PROVE  TokenOf(j)' # lease[v].token
  <1>1. lease[v].token \notin FreshTokens
    BY DEF FreshTokens
  <1>2. CASE Stays
    BY <1>2 DEF Stays, Kept
  <1>3. ASSUME NEW i \in Ids, Moves(i) PROVE TokenOf(j)' # lease[v].token
    <2>1. PICK s, t, n : Legal(i, s, t, n) /\ Becomes(i, s, t, n)
      BY <1>3 DEF Moves
    <2>2. CASE j # i
      BY <2>1, <2>2 DEF Becomes, Kept
    <2>3. CASE j = i
      <3>1. t \in FreshTokens \/ t = NoToken \/ t = TokenOf(i)
        BY <2>1 DEF Legal
      <3>2. TokenOf(i)' = t
        BY <2>1 DEF Becomes
      <3> QED
        BY <1>1, <2>3, <3>1, <3>2
    <2> QED
      BY <2>2, <2>3
  <1> QED
    BY <1>2, <1>3, EffectStep DEF StepEffect

\* Who has acked stays right, whatever the queue does.
LEMMA SpentStays ==
    ASSUME TypeInv, OnePlace, [Next]_vars, AckedIsSpent, NEW v \in Workers,
           v \in acked, lease'[v] \in {lease[v], NoLease},
           lease'[v] # NoLease
    PROVE  /\ lease'[v].token # NoToken
           /\ \A j \in Ids : TokenOf(j)' # lease'[v].token
  <1>1. lease'[v] = lease[v] /\ lease[v] # NoLease
    OBVIOUS
  <1>2. lease[v].token # NoToken /\ \A j \in Ids : TokenOf(j) # lease[v].token
    BY <1>1 DEF AckedIsSpent
  <1>3. \A j \in Ids : TokenOf(j)' # lease[v].token
    BY <1>1, <1>2, TokensComeFresh
  <1> QED
    BY <1>1, <1>2, <1>3

\* The ack itself takes the token from the one message that carries it.
LEMMA AckSpends ==
    ASSUME TypeInv, OnePlace, TokensByStatus, NEW w \in Workers,
           NEW requeue \in BOOLEAN, NEW d \in Delays, Ack(w, requeue, d)
    PROVE  /\ lease[w].token # NoToken
           /\ \A j \in Ids : TokenOf(j)' # lease[w].token
  <1>1. PICK i \in Ids, t \in Tokens \cup {NoToken} : lease[w].id = i /\ lease[w].token = t
    BY DEF Ack, Accepts, Mapped, TypeInv, TypeOK, Leases
  <1>2. /\ Accepts(i, t) /\ AckImpl(i, requeue, d)
        /\ UNCHANGED <<countFailed, tally>> /\ lock # "erase" /\ lock' # "erase"
    BY <1>1 DEF Ack
  <1>3. i \in Mapped /\ Moves(i) /\ TokenOf(i)' = NoToken
    BY <1>2, AckEffect
  <1>4. TokenOf(i) = t /\ Status(i) = "running"
    BY <1>2, <1>3 DEF Accepts, Mapped, TokenOf, Status
  <1>5. t # NoToken /\ \A j \in Ids : j # i => TokenOf(j) # t
    BY <1>4 DEF TokensByStatus
  <1>6. \A j \in Ids : j # i => TokenOf(j)' = TokenOf(j)
    BY <1>3 DEF Moves, Becomes, Kept
  <1>7. \A j \in Ids : TokenOf(j)' # t
    BY <1>3, <1>5, <1>6
  <1> QED
    BY <1>1, <1>5, <1>7

LEMMA SpentStep ==
    ASSUME TypeInv, OnePlace, TokensByStatus, ServerInv, AckedIsSpent,
           [ServerNext]_allVars
    PROVE  AckedIsSpent'
  <1>0. [Next]_vars /\ ServerInv' /\ acked \subseteq Workers
    BY ServerStep DEF ServerInv
  <1>1. CASE NoNewAck
    BY <1>0, <1>1, SpentStays DEF NoNewAck, AckedIsSpent
  <1>2. ASSUME NEW w \in Workers, NEW requeue \in BOOLEAN, NEW d \in Delays,
               AckRequest(w, requeue, d) \/ PopAckRequest(w, requeue, d)
        PROVE  AckedIsSpent'
    <2>1. Ack(w, requeue, d) /\ UNCHANGED lease /\ acked' = acked \cup {w}
      BY <1>2 DEF AckRequest, PopAckRequest
    <2>2. ASSUME NEW v \in acked, lease'[v] # NoLease
          PROVE  /\ lease'[v].token # NoToken
                 /\ \A j \in Ids : TokenOf(j)' # lease'[v].token
      BY <1>0, <2>1, <2>2, SpentStays
    <2>3. /\ lease'[w].token # NoToken
          /\ \A j \in Ids : TokenOf(j)' # lease'[w].token
      BY <2>1, AckSpends
    <2> QED
      BY <2>1, <2>2, <2>3 DEF AckedIsSpent
  <1>3. ASSUME NEW w \in Workers, Handler(w) PROVE AckedIsSpent'
    BY <1>1, <1>2, <1>3, HandlerSteps
  <1>4. CASE QueueStep \/ UNCHANGED allVars
    <2>1. UNCHANGED <<acked, lease>>
      BY <1>4, QueueSteps
    <2> QED
      BY <1>1, <2>1 DEF NoNewAck
  <1> QED
    BY <1>3, <1>4 DEF ServerNext

\* The same /ack or /pop_ack sent again is refused for good, for any number
\* of clients, threads, messages and tokens: the token it quotes was taken
\* from the only message that carried it, and as long as the client knows it
\* no delivery draws it again.
THEOREM AcksAreFinal == ServerSpec => []AckedIsFinal
  <1>1. ServerInit => AckedIsSpent
    BY DEF ServerInit, AckedIsSpent
  <1>2. TypeInv /\ OnePlace /\ TokensByStatus /\ ServerInv /\ AckedIsSpent
          /\ [ServerNext]_allVars => AckedIsSpent'
    BY SpentStep
  <1>3. ServerInit => Init /\ TypeInv /\ ServerInv
    BY ServerInitially, TypeInit DEF ServerInit
  <1>4. TypeInv /\ ServerInv /\ [ServerNext]_allVars => TypeInv' /\ ServerInv'
    BY ServerStep, TypeStep
  <1>5. TypeInv /\ TokenNamesOneDelivery => TokensByStatus
    BY TokensRestated DEF TypeInv
  <1> QED
    BY <1>1, <1>2, <1>3, <1>4, <1>5, SpentIsFinal, ServerUsesQueue,
       EveryEntryInOnePlace, TokensNameDeliveries, PTL DEF ServerSpec

=============================================================================
