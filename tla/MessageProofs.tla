---------------------------- MODULE MessageProofs ----------------------------
(***************************************************************************)
(* Every step of Queue seen as what it does to the message of one id:      *)
(* StepEffect.  From it follow the counters, the tokens, the bound on      *)
(* allocation and that Queue implements LeaseQueue.                        *)
(***************************************************************************)
EXTENDS QueueRefinement, QueueProofs, FiniteSetTheorems

\* What the map knows of an id.
Status(i)  == IF i \in Mapped THEN entry[msgMap[i]].state ELSE "absent"
TokenOf(i) == IF i \in Mapped THEN entry[msgMap[i]].token ELSE NoToken
Strikes(i) == IF i \in Mapped THEN entry[msgMap[i]].failCount ELSE 0

Kept(i) == Status(i)' = Status(i) /\ TokenOf(i)' = TokenOf(i) /\ Strikes(i)' = Strikes(i)

\* The message of i becomes (s, t, n), no other changes.
Becomes(i, s, t, n) ==
    /\ Status(i)' = s /\ TokenOf(i)' = t /\ Strikes(i)' = n
    /\ \A j \in Ids : j # i => Kept(j)

\* countFailed without the messages eraseFailed has removed and not subtracted.
FailedNow == countFailed - (IF lock = "erase" THEN tally ELSE 0)

One(b) == IF b THEN 1 ELSE 0

\* The counters follow a message from state r to state s.
Counted(r, s) ==
    /\ countQueued' = countQueued + One(s = "queued") - One(r = "queued")
    /\ FailedNow' = FailedNow + One(s = "failed") - One(r = "failed")

\* The changes a step can make to the message of i.
Legal(i, s, t, n) ==
    \/ /\ Status(i) = "absent" /\ Cardinality(Mapped) # Capacity
       /\ s \in {"queued", "delayed"} /\ t = NoToken /\ n = 0
    \/ /\ Status(i) = "queued" /\ s = "running"
       /\ t \in FreshTokens /\ n = Strikes(i)
    \/ /\ Status(i) = "delayed" /\ s = "queued"
       /\ t = TokenOf(i) /\ n = Strikes(i)
    \/ /\ Status(i) \in {"running", "failed"} /\ s = "absent"
       /\ t = NoToken /\ n = 0
    \/ /\ Status(i) = "running" /\ s \in {"queued", "delayed"}
       /\ t = NoToken /\ n = Strikes(i)
    \/ /\ Status(i) = "running" /\ n = (Strikes(i) + 1) % 256
       /\ IF n = MaxRetries THEN s = "failed" /\ t = TokenOf(i)
                            ELSE s = "queued" /\ t = NoToken

Stays == (\A i \in Ids : Kept(i)) /\ Counted("absent", "absent")

Moves(i) ==
    \E s, t, n : Legal(i, s, t, n) /\ Becomes(i, s, t, n) /\ Counted(Status(i), s)

StepEffect == Stays \/ \E i \in Ids : Moves(i)

-----------------------------------------------------------------------------
(* How the three ways to write the map and the entries show.               *)

\* Entries the map holds keep state, token and count: nothing shows.
LEMMA NothingShows ==
    ASSUME TypeOK, UNCHANGED msgMap,
           \A e \in Entries : /\ entry'[e].state = entry[e].state
                              /\ entry'[e].token = entry[e].token
                              /\ entry'[e].failCount = entry[e].failCount
    PROVE  \A i \in Ids : Kept(i)
  <1>1. \A j \in Mapped : msgMap[j] \in Entries
    BY DEF Mapped, TypeOK
  <1>2. Mapped' = Mapped
    BY DEF Mapped
  <1> QED
    BY <1>1, <1>2 DEF Kept, Status, TokenOf, Strikes

\* The entry of one id is written.
LEMMA EntryShows ==
    ASSUME TypeOK, MapIndexesEntries, NEW i \in Mapped, UNCHANGED msgMap,
           \A x \in Entries : x # msgMap[i] => entry'[x] = entry[x]
    PROVE  Becomes(i, entry'[msgMap[i]].state, entry'[msgMap[i]].token,
                   entry'[msgMap[i]].failCount)
  <1>1. \A j \in Mapped : msgMap[j] \in Entries /\ (j # i => msgMap[j] # msgMap[i])
    BY DEF Mapped, TypeOK, MapIndexesEntries
  <1>2. Mapped' = Mapped
    BY DEF Mapped
  <1>3. i \in Ids
    BY DEF Mapped
  <1> QED
    BY <1>1, <1>2, <1>3 DEF Becomes, Kept, Status, TokenOf, Strikes

\* An id leaves the map.
LEMMA RemovalShows ==
    ASSUME TypeOK, NEW i \in Ids, msgMap' = [msgMap EXCEPT ![i] = NoEntry],
           UNCHANGED entry
    PROVE  /\ Becomes(i, "absent", NoToken, 0)
           /\ Mapped' = Mapped \ {i}
  <1>1. Mapped' = Mapped \ {i} /\ \A j \in Mapped' : msgMap'[j] = msgMap[j]
    BY DEF Mapped, TypeOK
  <1> QED
    BY <1>1 DEF Becomes, Kept, Status, TokenOf, Strikes

\* An id enters the map with an entry no id has.
LEMMA InsertionShows ==
    ASSUME TypeOK, NEW i \in Ids, i \notin Mapped, NEW e \in Entries,
           e \notin Live, msgMap' = [msgMap EXCEPT ![i] = e],
           \A x \in Entries : x # e => entry'[x] = entry[x]
    PROVE  /\ Becomes(i, entry'[e].state, entry'[e].token, entry'[e].failCount)
           /\ Mapped' = Mapped \cup {i}
  <1>1. /\ Mapped' = Mapped \cup {i} /\ msgMap'[i] = e
        /\ \A j \in Mapped : msgMap'[j] = msgMap[j]
    BY QueueAssumption DEF Mapped, TypeOK
  <1>2. \A j \in Mapped : msgMap[j] \in Entries /\ msgMap[j] # e
    BY DEF Mapped, Live, TypeOK
  <1>3. \A j \in Mapped : entry'[msgMap'[j]] = entry[msgMap[j]]
    BY <1>1, <1>2
  <1> QED
    BY <1>1, <1>3 DEF Becomes, Kept, Status, TokenOf, Strikes

\* What placement does to the entry it places and to the count.
LEMMA PlaceShows ==
    ASSUME TypeOK, NEW e \in Entries, NEW r \in EntryType, NEW d \in Nat,
           Place(e, r, d)
    PROVE  /\ entry'[e].token = r.token /\ entry'[e].failCount = r.failCount
           /\ \/ entry'[e].state = "queued" /\ countQueued' = countQueued + 1
              \/ entry'[e].state = "delayed" /\ countQueued' = countQueued
           /\ \A x \in Entries : x # e => entry'[x] = entry[x]
  <1>1. CASE d > 0
    <2>1. /\ entry' = [entry EXCEPT ![e] = [r EXCEPT !.state = "delayed", !.ts = d]]
          /\ countQueued' = countQueued
      BY <1>1 DEF Place, InsertDelayed
    <2> QED
      BY <2>1 DEF TypeOK, EntryType
  <1>2. CASE ~(d > 0)
    <2>1. /\ entry' = [entry EXCEPT ![e] = [r EXCEPT !.state = "queued", !.ts = 0]]
          /\ countQueued' = countQueued + 1
      BY <1>2 DEF Place, PushFront
    <2> QED
      BY <2>1 DEF TypeOK, EntryType
  <1> QED
    BY <1>1, <1>2

-----------------------------------------------------------------------------
(* What each kind of step does.                                            *)

LEMMA PushEffect ==
    ASSUME TypeInv, OnePlace, NEW i \in Ids, NEW p \in Priorities,
           NEW d \in Delays, Push(i, p, d)
    PROVE  Moves(i) /\ Mapped' = Mapped \cup {i} /\ i \notin Mapped
  <1>0. TypeOK /\ \A x \in Entries : WellPlaced(x)
    BY DEF TypeInv, OnePlace
  <1>1. PICK e \in Entries :
          /\ GetMsgEntry(e)
          /\ msgMap' = [msgMap EXCEPT ![i] = e]
          /\ Place(e, Reset(i, p), d)
    BY DEF Push
  <1>2. i \notin Mapped /\ Cardinality(Mapped) # Capacity
        /\ UNCHANGED <<lock, countFailed, tally>>
    BY DEF Push, Mapped
  <1>3. e \notin Live
    <2>1. CASE pool = <<>>
      BY <1>1, <2>1 DEF GetMsgEntry, Unused
    <2>2. CASE pool # <<>>
      <3>1. e = Last(pool)
        BY <1>1, <2>2 DEF GetMsgEntry
      <3>2. Contains(pool, e)
        BY <1>0, <2>2, <3>1 DEF Contains, Last, TypeOK
      <3> QED
        BY <1>0, <3>2 DEF WellPlaced
    <2> QED
      BY <2>1, <2>2
  <1>4. Reset(i, p) \in EntryType /\ d \in Nat
    BY ResetType, QueueAssumption
  <1>5. /\ entry'[e].token = NoToken /\ entry'[e].failCount = 0
        /\ \/ entry'[e].state = "queued" /\ countQueued' = countQueued + 1
           \/ entry'[e].state = "delayed" /\ countQueued' = countQueued
        /\ \A x \in Entries : x # e => entry'[x] = entry[x]
    <2>1. Reset(i, p).token = NoToken /\ Reset(i, p).failCount = 0
      BY DEF Reset
    <2> QED
      BY <1>0, <1>1, <1>4, <2>1, PlaceShows
  <1>6. /\ Becomes(i, entry'[e].state, NoToken, 0)
        /\ Mapped' = Mapped \cup {i}
    BY <1>0, <1>1, <1>2, <1>3, <1>5, InsertionShows
  <1>7. Status(i) = "absent"
    BY <1>2 DEF Status
  <1>8. Counted("absent", entry'[e].state)
    BY <1>0, <1>2, <1>5 DEF Counted, FailedNow, One, TypeOK
  <1>9. Legal(i, entry'[e].state, NoToken, 0)
    BY <1>2, <1>5, <1>7 DEF Legal
  <1> QED
    BY <1>2, <1>6, <1>7, <1>8, <1>9 DEF Moves

LEMMA PopEffect ==
    ASSUME TypeInv, OnePlace, NEW w \in Workers, PopImpl(w),
           lock' \in {lock, "free"}, lock # "erase"
    PROVE  StepEffect
  <1>0. TypeOK /\ MapIndexesEntries /\ \A x \in Entries : WellPlaced(x)
    BY DEF TypeInv, OnePlace
  <1>1. UNCHANGED <<msgMap, countFailed, tally>> /\ lock' # "erase"
    BY DEF PopImpl
  <1>2. CASE UNCHANGED <<entry, countQueued>>
    <2>1. \A i \in Ids : Kept(i)
      BY <1>0, <1>1, <1>2, NothingShows
    <2> QED
      BY <1>0, <1>1, <1>2, <2>1 DEF StepEffect, Stays, Counted, FailedNow, One, TypeOK
  <1>3. CASE Deliver(w)
    <2>1. PICK p \in Priorities :
            /\ queue[p] # <<>>
            /\ entry' = [entry EXCEPT ![Head(queue[p])] =
                    [@ EXCEPT !.state = "running", !.ts = 0, !.token = NewToken]]
      BY <1>3 DEF Deliver
    <2> DEFINE e == Head(queue[p])
    <2>2. e \in Entries /\ Contains(queue[p], e)
      <3>1. queue[p] \in Seq(Entries) /\ IsInjective(queue[p])
        BY DEF TypeInv, TypeOK, OnePlace, NoRepetition
      <3> QED
        BY <2>1, <3>1, TailContains
    <2>3. entry' = [entry EXCEPT ![e] =
              [entry[e] EXCEPT !.state = "running", !.ts = 0, !.token = NewToken]]
      BY <2>1
    <2> HIDE DEF e
    <2>4. e \in Live /\ entry[e].state = "queued"
      BY <1>0, <2>2 DEF WellPlaced
    <2>5. PICK i \in Mapped : msgMap[i] = e
      BY <2>4 DEF Live
    <2>6. /\ entry'[e].state = "running" /\ entry'[e].token = NewToken
          /\ entry'[e].failCount = entry[e].failCount
          /\ \A x \in Entries : x # e => entry'[x] = entry[x]
      BY <1>0, <2>2, <2>3 DEF TypeOK, EntryType
    <2>7. Becomes(i, "running", NewToken, entry[e].failCount)
      BY <1>0, <1>1, <2>5, <2>6, EntryShows
    <2>8. Status(i) = "queued" /\ Strikes(i) = entry[e].failCount /\ i \in Ids
      BY <2>4, <2>5 DEF Status, Strikes, Mapped
    <2>9. NewToken \in FreshTokens
      BY <1>3 DEF Deliver, NewToken
    <2>10. Counted("queued", "running")
      BY <1>0, <1>1, <1>3 DEF Deliver, Counted, FailedNow, One, TypeOK
    <2>11. Moves(i)
      BY <2>7, <2>8, <2>9, <2>10 DEF Moves, Legal
    <2> QED
      BY <2>8, <2>11 DEF StepEffect
  <1> QED
    BY <1>2, <1>3 DEF PopImpl

\* An acknowledged message leaves the map or is placed again.
LEMMA AckEffect ==
    ASSUME TypeInv, OnePlace, NEW i, NEW t, Accepts(i, t),
           NEW requeue \in BOOLEAN, NEW d \in Delays, AckImpl(i, requeue, d),
           UNCHANGED <<countFailed, tally>>, lock # "erase", lock' # "erase"
    PROVE  i \in Mapped /\ Moves(i) /\ TokenOf(i)' = NoToken
  <1>0. TypeOK /\ MapIndexesEntries
    BY DEF TypeInv, OnePlace
  <1> DEFINE e == msgMap[i]
  <1>1. i \in Mapped /\ i \in Ids /\ e \in Entries /\ entry[e].state = "running"
    BY <1>0 DEF Accepts, Mapped, TypeOK
  <1>2. Status(i) = "running" /\ Strikes(i) = entry[e].failCount
    BY <1>1 DEF Status, Strikes
  <1>3. CASE requeue
    <2>1. Place(e, Released(e), d) /\ UNCHANGED msgMap
      BY <1>3 DEF AckImpl
    <2>2. Released(e) \in EntryType /\ d \in Nat
      BY <1>0, <1>1, ReleasedType, QueueAssumption DEF Released, TypeOK
    <2>3. Released(e).token = NoToken /\ Released(e).failCount = entry[e].failCount
      BY <1>0, <1>1 DEF Released, TypeOK, EntryType
    <2>4. /\ entry'[e].token = NoToken /\ entry'[e].failCount = entry[e].failCount
          /\ \/ entry'[e].state = "queued" /\ countQueued' = countQueued + 1
             \/ entry'[e].state = "delayed" /\ countQueued' = countQueued
          /\ \A x \in Entries : x # e => entry'[x] = entry[x]
      BY <1>0, <1>1, <2>1, <2>2, <2>3, PlaceShows
    <2>5. Becomes(i, entry'[e].state, entry'[e].token, entry'[e].failCount)
      BY <1>0, <1>1, <2>1, <2>4, EntryShows
    <2>6. Counted("running", entry'[e].state)
      BY <1>0, <2>4 DEF Counted, FailedNow, One, TypeOK
    <2>7. TokenOf(i)' = NoToken
      BY <2>4, <2>5 DEF Becomes
    <2> QED
      BY <1>1, <1>2, <2>4, <2>5, <2>6, <2>7 DEF Moves, Legal
  <1>4. CASE ~requeue
    <2>1. /\ msgMap' = [msgMap EXCEPT ![i] = NoEntry]
          /\ UNCHANGED <<entry, countQueued>>
      BY <1>4 DEF AckImpl
    <2>2. Becomes(i, "absent", NoToken, 0)
      BY <1>0, <1>1, <2>1, RemovalShows
    <2>3. Counted("running", "absent")
      BY <1>0, <2>1 DEF Counted, FailedNow, One, TypeOK
    <2>4. TokenOf(i)' = NoToken
      BY <2>2 DEF Becomes
    <2> QED
      BY <1>1, <1>2, <2>2, <2>3, <2>4 DEF Moves, Legal
  <1> QED
    BY <1>3, <1>4

LEMMA EraseEffect ==
    ASSUME TypeInv, NEW i \in Ids, EraseVisit(i)
    PROVE  Stays \/ Moves(i)
  <1>0. TypeOK
    BY DEF TypeInv
  <1>1. UNCHANGED <<lock, entry, countQueued, countFailed>> /\ lock = "erase"
    BY DEF EraseVisit
  <1>2. CASE i \in InState("failed")
    <2>1. i \in Mapped /\ Status(i) = "failed"
      BY <1>2 DEF InState, Status
    <2>2. msgMap' = [msgMap EXCEPT ![i] = NoEntry] /\ tally' = tally + 1
      BY <1>2 DEF EraseVisit
    <2>3. Becomes(i, "absent", NoToken, 0)
      BY <1>0, <1>1, <2>2, RemovalShows
    <2>4. Counted("failed", "absent")
      BY <1>0, <1>1, <2>2 DEF Counted, FailedNow, One, TypeOK
    <2> QED
      BY <2>1, <2>3, <2>4 DEF Moves, Legal
  <1>3. CASE i \notin InState("failed")
    <2>1. UNCHANGED <<msgMap, tally>>
      BY <1>3 DEF EraseVisit
    <2>2. \A j \in Ids : Kept(j)
      BY <1>0, <1>1, <2>1, NothingShows
    <2> QED
      BY <1>0, <1>1, <2>1, <2>2 DEF Stays, Counted, FailedNow, One, TypeOK
  <1> QED
    BY <1>2, <1>3

LEMMA MonitorEffect ==
    ASSUME TypeInv, OnePlace, NEW i \in Ids, MonitorVisit(i)
    PROVE  Stays \/ Moves(i)
  <1>0. TypeOK /\ MapIndexesEntries
    BY DEF TypeInv, OnePlace
  <1> DEFINE e == msgMap[i]
  <1>1. i \in Mapped /\ e \in Entries
    BY <1>0 DEF MonitorVisit, TypeInv, ScanIsMapped, Mapped, TypeOK
  <1>2. UNCHANGED msgMap /\ lock = "monitor" /\ lock' = "monitor"
    BY DEF MonitorVisit
  <1>3. \/ Fail(e) \/ Retry(e) \/ Boost(e)
        \/ UNCHANGED <<entry, countQueued, countFailed>>
    BY DEF MonitorVisit
  <1>4. /\ Status(i) = entry[e].state /\ TokenOf(i) = entry[e].token
        /\ Strikes(i) = entry[e].failCount
    BY <1>1 DEF Status, TokenOf, Strikes
  <1>5. ASSUME \A x \in Entries : x # e => entry'[x] = entry[x]
        PROVE  Becomes(i, entry'[e].state, entry'[e].token, entry'[e].failCount)
    BY <1>0, <1>1, <1>2, <1>5, EntryShows
  <1> HIDE DEF e
  <1>6. entry[e] \in EntryType
    BY <1>0, <1>1 DEF TypeOK
  <1>7. CASE Fail(e)
    <2>1. /\ entry[e].state = "running" /\ UNCHANGED countQueued
          /\ countFailed' = countFailed + 1 /\ NextFailCount(e) = MaxRetries
      BY <1>7 DEF Fail, TimedOut
    <2>2. /\ entry'[e].state = "failed" /\ entry'[e].token = entry[e].token
          /\ entry'[e].failCount = NextFailCount(e)
          /\ \A x \in Entries : x # e => entry'[x] = entry[x]
      BY <1>0, <1>1, <1>6, <1>7 DEF Fail, TypeOK, EntryType
    <2>3. Counted("running", "failed")
      BY <1>0, <1>2, <2>1 DEF Counted, FailedNow, One, TypeOK
    <2>4. Legal(i, "failed", TokenOf(i), NextFailCount(e))
      BY <1>4, <2>1 DEF Legal, NextFailCount
    <2> QED
      BY <1>4, <1>5, <2>1, <2>2, <2>3, <2>4 DEF Moves
  <1>8. CASE Retry(e)
    <2>1. /\ entry[e].state = "running" /\ UNCHANGED countFailed
          /\ countQueued' = countQueued + 1 /\ NextFailCount(e) # MaxRetries
      BY <1>8 DEF Retry, TimedOut
    <2>2. /\ entry'[e].state = "queued" /\ entry'[e].token = NoToken
          /\ entry'[e].failCount = NextFailCount(e)
          /\ \A x \in Entries : x # e => entry'[x] = entry[x]
      BY <1>0, <1>1, <1>6, <1>8 DEF Retry, Retried, TypeOK, EntryType
    <2>3. Counted("running", "queued")
      BY <1>0, <1>2, <2>1 DEF Counted, FailedNow, One, TypeOK
    <2>4. Legal(i, "queued", NoToken, NextFailCount(e))
      BY <1>4, <2>1 DEF Legal, NextFailCount
    <2> QED
      BY <1>4, <1>5, <2>1, <2>2, <2>3, <2>4 DEF Moves
  <1>9. CASE Boost(e) \/ UNCHANGED <<entry, countQueued, countFailed>>
    <2>1. /\ UNCHANGED <<countQueued, countFailed>>
          /\ entry' \in {entry, [entry EXCEPT ![e].boosted = TRUE]}
      BY <1>9 DEF Boost
    <2>2. ASSUME NEW x \in Entries
          PROVE  /\ entry'[x].state = entry[x].state
                 /\ entry'[x].token = entry[x].token
                 /\ entry'[x].failCount = entry[x].failCount
      <3>1. CASE entry' = entry
        BY <3>1
      <3>2. CASE entry' = [entry EXCEPT ![e].boosted = TRUE]
        BY <1>0, <1>6, <3>2 DEF TypeOK, EntryType
      <3> QED
        BY <2>1, <3>1, <3>2
    <2>3. \A j \in Ids : Kept(j)
      BY <1>0, <1>2, <2>2, NothingShows
    <2> QED
      BY <1>0, <1>2, <2>1, <2>3 DEF Stays, Counted, FailedNow, One, TypeOK
  <1> QED
    BY <1>3, <1>7, <1>8, <1>9

LEMMA DelayEffect ==
    ASSUME TypeInv, OnePlace, DelayMove
    PROVE  StepEffect
  <1>0. TypeOK /\ MapIndexesEntries /\ \A x \in Entries : WellPlaced(x)
    BY DEF TypeInv, OnePlace
  <1> DEFINE e == Head(delayed)
  <1>1. e \in Entries /\ Contains(delayed, e)
    <2>1. delayed \in Seq(Entries) /\ IsInjective(delayed) /\ delayed # <<>>
      BY DEF DelayMove, SomeDue, TypeInv, TypeOK, OnePlace, NoRepetition
    <2> QED
      BY <2>1, TailContains
  <1>2. /\ entry' = [entry EXCEPT ![e] = [entry[e] EXCEPT !.state = "queued", !.ts = 0]]
        /\ UNCHANGED <<lock, msgMap, countFailed, tally>>
        /\ countQueued' = countQueued + 1
    BY <1>0, <1>1 DEF DelayMove, TypeOK
  <1> HIDE DEF e
  <1>3. e \in Live /\ entry[e].state = "delayed"
    BY <1>0, <1>1 DEF WellPlaced
  <1>4. PICK i \in Mapped : msgMap[i] = e
    BY <1>3 DEF Live
  <1>5. /\ entry'[e].state = "queued" /\ entry'[e].token = entry[e].token
        /\ entry'[e].failCount = entry[e].failCount
        /\ \A x \in Entries : x # e => entry'[x] = entry[x]
    BY <1>0, <1>1, <1>2 DEF TypeOK, EntryType
  <1>6. Becomes(i, "queued", entry[e].token, entry[e].failCount)
    BY <1>0, <1>2, <1>4, <1>5, EntryShows
  <1>7. /\ Status(i) = "delayed" /\ TokenOf(i) = entry[e].token
        /\ Strikes(i) = entry[e].failCount /\ i \in Ids
    BY <1>3, <1>4 DEF Status, TokenOf, Strikes, Mapped
  <1>8. Counted("delayed", "queued")
    BY <1>0, <1>2 DEF Counted, FailedNow, One, TypeOK
  <1>9. Moves(i)
    BY <1>6, <1>7, <1>8 DEF Moves, Legal
  <1> QED
    BY <1>7, <1>9 DEF StepEffect

\* The steps that touch no message.
LEMMA QuietEffect ==
    ASSUME TypeInv,
           \/ \E w \in Workers : \/ SpuriousWakeup(w) \/ DropLease(w)
                                \/ ReadId(w) \/ ReadToken(w) \/ LoseMsg(w)
           \/ \E ids \in SUBSET Ids : EraseFailed(ids)
           \/ EraseDone \/ MonitorWake \/ MonitorDone
           \/ DelayWake \/ DelaySleep \/ DelaySpuriousWakeup \/ Tick \/ UNCHANGED vars
    PROVE  Stays /\ UNCHANGED <<msgMap, pool>>
  <1>0. TypeOK
    BY DEF TypeInv
  <1>1. UNCHANGED <<msgMap, pool, countQueued>>
    BY DEF SpuriousWakeup, ReadId, ReadToken, LoseMsg, DropLease, EraseFailed, EraseDone,
           MonitorWake, MonitorDone, DelayWake, DelaySleep, DelaySpuriousWakeup, Tick, vars
  <1>2. FailedNow' = FailedNow
    BY <1>0 DEF SpuriousWakeup, ReadId, ReadToken, LoseMsg, DropLease, EraseFailed, EraseDone,
           MonitorWake, MonitorDone, DelayWake, DelaySleep, DelaySpuriousWakeup, Tick, vars,
           FailedNow, TypeOK
  <1>3. ASSUME NEW e \in Entries
        PROVE  /\ entry'[e].state = entry[e].state
               /\ entry'[e].token = entry[e].token
               /\ entry'[e].failCount = entry[e].failCount
    <2>1. CASE Tick
      <3>1. entry[e] \in EntryType
        BY <1>0 DEF TypeOK
      <3> QED
        BY <2>1, <3>1 DEF Tick, EntryType
    <2>2. CASE ~Tick
      BY <2>2 DEF SpuriousWakeup, ReadId, ReadToken, LoseMsg, DropLease, EraseFailed,
           EraseDone, MonitorWake, MonitorDone, DelayWake, DelaySleep, DelaySpuriousWakeup, vars
    <2> QED
      BY <2>1, <2>2
  <1>4. \A i \in Ids : Kept(i)
    BY <1>0, <1>1, <1>3, NothingShows
  <1> QED
    BY <1>0, <1>1, <1>2, <1>4 DEF Stays, Counted, FailedNow, One, TypeOK

\* A step changes nothing of the messages the map holds, or one message in
\* one of the ways Legal lists, and the counters follow.
LEMMA EffectStep == TypeInv /\ OnePlace /\ [Next]_vars => StepEffect
  <1> SUFFICES ASSUME TypeInv, OnePlace, [Next]_vars PROVE StepEffect
    OBVIOUS
  <1>1. ASSUME NEW i \in Ids, NEW p \in Priorities, NEW d \in Delays, Push(i, p, d)
        PROVE  StepEffect
    BY <1>1, PushEffect DEF StepEffect
  <1>2. ASSUME NEW w \in Workers, Worker(w) PROVE StepEffect
    <2>0. lock \in {"free", w} => lock # "erase"
      BY QueueAssumption
    <2>1. CASE Pop(w) \/ PopResume(w) \/ PopAfterAck(w)
      <3>1. PopImpl(w) /\ lock' \in {lock, "free"} /\ lock # "erase"
        BY <2>0, <2>1 DEF Pop, PopResume, PopAfterAck
      <3> QED
        BY <3>1, PopEffect
    <2>2. ASSUME NEW requeue \in BOOLEAN, NEW d \in Delays,
                 Ack(w, requeue, d) \/ PopAck(w, requeue, d)
          PROVE  StepEffect
      <3>1. PICK i \in Ids, t \in Tokens \cup {NoToken} :
              lease[w].id = i /\ lease[w].token = t
        BY <2>2 DEF Ack, PopAck, Accepts, Mapped, TypeInv, TypeOK, Leases
      <3>2. /\ Accepts(i, t) /\ AckImpl(i, requeue, d)
            /\ UNCHANGED <<countFailed, tally>> /\ lock # "erase" /\ lock' # "erase"
        BY <2>2, <3>1, QueueAssumption DEF Ack, PopAck
      <3>3. Moves(i)
        BY <3>2, AckEffect
      <3> QED
        BY <3>3 DEF StepEffect
    <2>3. CASE \/ SpuriousWakeup(w) \/ DropLease(w)
               \/ ReadId(w) \/ ReadToken(w) \/ LoseMsg(w)
      BY <2>3, QuietEffect DEF StepEffect
    <2> QED
      BY <1>2, <2>1, <2>2, <2>3 DEF Worker
  <1>3. ASSUME NEW i \in Ids, EraseVisit(i) \/ MonitorVisit(i) PROVE StepEffect
    BY <1>3, EraseEffect, MonitorEffect DEF StepEffect
  <1>4. CASE DelayMove
    BY <1>4, DelayEffect
  <1>5. CASE \/ \E ids \in SUBSET Ids : EraseFailed(ids)
             \/ EraseDone \/ MonitorWake \/ MonitorDone
             \/ DelayWake \/ DelaySleep \/ DelaySpuriousWakeup \/ Tick \/ UNCHANGED vars
    BY <1>5, QuietEffect DEF StepEffect
  <1> QED
    BY <1>1, <1>2, <1>3, <1>4, <1>5 DEF Next, Publisher, Eraser, Monitor, DelayThread

-----------------------------------------------------------------------------
(* Tokens.                                                                 *)

\* TokenNamesOneDelivery, said of ids.
TokensByStatus ==
    /\ \A i \in Ids : TokenOf(i) = NoToken <=> Status(i) \in {"absent", "queued", "delayed"}
    /\ \A i, j \in Ids : TokenOf(i) = TokenOf(j) => i = j \/ TokenOf(i) = NoToken

LEMMA TokensRestated ==
    ASSUME TypeOK
    PROVE  TokensByStatus <=> TokenNamesOneDelivery
  <1>1. \A i \in Mapped : /\ i \in Ids
                          /\ Status(i) = entry[msgMap[i]].state
                          /\ TokenOf(i) = entry[msgMap[i]].token
                          /\ Status(i) # "absent"
    BY DEF Mapped, Status, TokenOf, TypeOK, EntryType
  <1>2. \A i \in Ids : i \notin Mapped => Status(i) = "absent" /\ TokenOf(i) = NoToken
    BY DEF Status, TokenOf
  <1>3. TokensByStatus => TokenNamesOneDelivery
    BY <1>1 DEF TokensByStatus, TokenNamesOneDelivery
  <1>4. TokenNamesOneDelivery => TokensByStatus
    BY <1>1, <1>2 DEF TokensByStatus, TokenNamesOneDelivery
  <1> QED
    BY <1>3, <1>4

\* A fresh token is nobody's.
LEMMA FreshTokenIsNew ==
    ASSUME TypeOK, NEW t, t \in FreshTokens
    PROVE  t \in Tokens /\ t # NoToken /\ \A j \in Ids : TokenOf(j) # t
  <1>1. t \in Tokens /\ t # NoToken /\ \A e \in Entries : entry[e].token # t
    BY QueueAssumption DEF FreshTokens
  <1>2. \A j \in Mapped : msgMap[j] \in Entries
    BY DEF Mapped, TypeOK
  <1> QED
    BY <1>1, <1>2 DEF TokenOf

LEMMA TokenStep ==
    ASSUME TypeInv, OnePlace, TokensByStatus, [Next]_vars
    PROVE  TokensByStatus'
  <1>1. TypeOK
    BY DEF TypeInv
  <1>2. CASE Stays
    BY <1>2 DEF Stays, Kept, TokensByStatus
  <1>3. ASSUME NEW i \in Ids, Moves(i) PROVE TokensByStatus'
    <2>1. PICK s, t, n : Legal(i, s, t, n) /\ Becomes(i, s, t, n)
      BY <1>3 DEF Moves
    <2>2. t = NoToken <=> s \in {"absent", "queued", "delayed"}
      BY <1>1, <2>1, FreshTokenIsNew DEF Legal, TokensByStatus
    <2>3. t = NoToken \/ \A j \in Ids : j # i => TokenOf(j) # t
      BY <1>1, <2>1, FreshTokenIsNew DEF Legal, TokensByStatus
    <2>4. /\ Status(i)' = s /\ TokenOf(i)' = t
          /\ \A j \in Ids : j # i => Status(j)' = Status(j) /\ TokenOf(j)' = TokenOf(j)
      BY <2>1 DEF Becomes, Kept
    <2> QED
      BY <2>2, <2>3, <2>4 DEF TokensByStatus
  <1> QED
    BY <1>2, <1>3, EffectStep DEF StepEffect

\* A token names one delivery, however many tokens, messages and workers
\* there are: an ack cannot reach a later delivery of its message or another
\* message, whatever was requeued, expired or delivered again meanwhile.
THEOREM TokensNameDeliveries == Spec => []TokenNamesOneDelivery
  <1>1. Init => TokensByStatus
    BY DEF Init, TokensByStatus, Status, TokenOf, Mapped
  <1>2. TypeInv /\ OnePlace /\ TokensByStatus /\ [Next]_vars => TokensByStatus'
    BY TokenStep
  <1>3. TypeInv /\ TokensByStatus => TokenNamesOneDelivery
    BY TokensRestated DEF TypeInv
  <1>4. Spec => []TypeInv
    BY TypeInit, TypeStep, PTL DEF Spec
  <1>5. Spec => []OnePlace
    BY EveryEntryInOnePlace
  <1> QED
    BY <1>1, <1>2, <1>3, <1>4, <1>5, PTL DEF Spec

-----------------------------------------------------------------------------
(* Allocation and the counters.                                            *)

LEMMA MappedFinite == IsFiniteSet(Mapped) /\ Cardinality(Mapped) \in Nat
  <1>1. Mapped \in SUBSET Ids
    BY DEF Mapped
  <1> QED
    BY <1>1, QueueAssumption, FS_Subset, FS_CardinalityType

\* An entry that leaves the map enters the pool, and one that enters the map
\* leaves the pool unless the pool is empty.
LEMMA AllocationStep ==
    ASSUME TypeInv, OnePlace, AllocationBounded, [Next]_vars
    PROVE  AllocationBounded'
  <1>0. TypeOK
    BY DEF TypeInv
  <1>1. Len(pool) \in Nat /\ Cardinality(Mapped) \in Nat /\ IsFiniteSet(Mapped)
    BY <1>0, MappedFinite DEF TypeOK
  <1>2. ASSUME UNCHANGED <<msgMap, pool>> PROVE AllocationBounded'
    BY <1>2 DEF AllocationBounded, Mapped
  <1>3. ASSUME NEW i \in Ids, i \in Mapped, pool' = Append(pool, msgMap[i]),
               msgMap' = [msgMap EXCEPT ![i] = NoEntry]
        PROVE  AllocationBounded'
    <2>1. Mapped' = Mapped \ {i}
      BY <1>0, <1>3 DEF Mapped, TypeOK
    <2>2. Cardinality(Mapped') = Cardinality(Mapped) - 1
      BY <1>1, <1>3, <2>1, FS_RemoveElement
    <2>3. Len(pool') = Len(pool) + 1
      BY <1>0, <1>3 DEF TypeOK
    <2> QED
      BY <1>1, <2>2, <2>3, QueueAssumption DEF AllocationBounded
  <1>4. ASSUME NEW i \in Ids, NEW p \in Priorities, NEW d \in Delays, Push(i, p, d)
        PROVE  AllocationBounded'
    <2>1. Mapped' = Mapped \cup {i} /\ i \notin Mapped
      BY <1>4, PushEffect
    <2>2. Cardinality(Mapped') = Cardinality(Mapped) + 1
      BY <1>1, <2>1, FS_AddElement
    <2>3. Cardinality(Mapped) # Capacity
      BY <1>4 DEF Push
    <2>4. PICK e \in Entries : GetMsgEntry(e)
      BY <1>4 DEF Push
    <2>5. CASE pool = <<>>
      BY <1>1, <2>2, <2>3, <2>4, <2>5, QueueAssumption DEF GetMsgEntry, AllocationBounded
    <2>6. CASE pool # <<>>
      <3>1. pool' = Front(pool)
        BY <2>4, <2>6 DEF GetMsgEntry
      <3>2. Len(pool') = Len(pool) - 1
        BY <1>0, <2>6, <3>1, FrontProperties DEF TypeOK
      <3> QED
        BY <1>1, <2>2, <3>2, QueueAssumption DEF AllocationBounded
    <2> QED
      BY <2>5, <2>6
  <1>5. ASSUME NEW w \in Workers, Worker(w) PROVE AllocationBounded'
    <2>1. CASE PopImpl(w)
      BY <1>2, <2>1 DEF PopImpl
    <2>2. ASSUME NEW requeue \in BOOLEAN, NEW d \in Delays,
                 Ack(w, requeue, d) \/ PopAck(w, requeue, d)
          PROVE  AllocationBounded'
      <3> DEFINE i == lease[w].id
      <3>1. Accepts(i, lease[w].token) /\ AckImpl(i, requeue, d)
        BY <2>2 DEF Ack, PopAck
      <3>2. i \in Mapped /\ i \in Ids
        BY <3>1 DEF Accepts, Mapped
      <3> HIDE DEF i
      <3>3. CASE requeue
        BY <1>2, <3>1, <3>3 DEF AckImpl
      <3>4. CASE ~requeue
        BY <1>3, <3>1, <3>2, <3>4 DEF AckImpl
      <3> QED
        BY <3>3, <3>4
    <2>3. CASE \/ SpuriousWakeup(w) \/ DropLease(w)
               \/ ReadId(w) \/ ReadToken(w) \/ LoseMsg(w)
      BY <1>2, <2>3 DEF SpuriousWakeup, ReadId, ReadToken, LoseMsg, DropLease
    <2> QED
      BY <1>5, <2>1, <2>2, <2>3 DEF Worker, Pop, PopResume, PopAfterAck
  <1>6. ASSUME NEW i \in Ids, EraseVisit(i) PROVE AllocationBounded'
    <2>1. CASE i \in InState("failed")
      BY <1>3, <1>6, <2>1 DEF EraseVisit, InState
    <2>2. CASE i \notin InState("failed")
      BY <1>2, <1>6, <2>2 DEF EraseVisit
    <2> QED
      BY <2>1, <2>2
  <1>7. ASSUME NEW i \in Ids, MonitorVisit(i) PROVE AllocationBounded'
    BY <1>2, <1>7 DEF MonitorVisit
  <1>8. CASE \/ DelayMove
             \/ \E ids \in SUBSET Ids : EraseFailed(ids)
             \/ EraseDone \/ MonitorWake \/ MonitorDone
             \/ DelayWake \/ DelaySleep \/ DelaySpuriousWakeup \/ Tick \/ UNCHANGED vars
    BY <1>2, <1>8
    DEF DelayMove, EraseFailed, EraseDone, MonitorWake, MonitorDone, DelayWake,
        DelaySleep, DelaySpuriousWakeup, Tick, vars
  <1> QED
    BY <1>4, <1>5, <1>6, <1>7, <1>8
    DEF Next, Publisher, Eraser, Monitor, DelayThread

\* At most Capacity entries are ever allocated, for every capacity: push
\* takes one from the pool whenever one is there.
THEOREM AllocationIsBounded == Spec => []AllocationBounded
  <1>1. Init => AllocationBounded
    <2> SUFFICES ASSUME Init PROVE AllocationBounded
      OBVIOUS
    <2>1. Mapped = {} /\ Len(pool) = 0
      BY DEF Init, Mapped
    <2>2. Cardinality(Mapped) = 0
      BY <2>1, FS_EmptySet
    <2> QED
      BY <2>1, <2>2, QueueAssumption DEF AllocationBounded
  <1>2. TypeInv /\ OnePlace /\ AllocationBounded /\ [Next]_vars => AllocationBounded'
    BY AllocationStep
  <1>3. Spec => []TypeInv
    BY TypeInit, TypeStep, PTL DEF Spec
  <1>4. Spec => []OnePlace
    BY EveryEntryInOnePlace
  <1> QED
    BY <1>1, <1>2, <1>3, <1>4, PTL DEF Spec

\* The number of ids in state s follows a change of one id.
LEMMA StateCounted ==
    ASSUME NEW i \in Ids, NEW s \in {"queued", "failed"}, NEW r, NEW t, NEW n,
           Becomes(i, r, t, n)
    PROVE  /\ Cardinality(InState(s)) \in Nat
           /\ Cardinality(InState(s)') =
                Cardinality(InState(s)) + One(r = s) - One(Status(i) = s)
  <1>1. InState(s) = {j \in Ids : Status(j) = s}
    BY DEF InState, Status, Mapped
  <1>2. InState(s)' = {j \in Ids : Status(j)' = s}
    BY DEF InState, Status, Mapped
  <1>3. IsFiniteSet(InState(s)) /\ Cardinality(InState(s)) \in Nat
    <2>1. InState(s) \in SUBSET Ids
      BY <1>1
    <2> QED
      BY <2>1, QueueAssumption, FS_Subset, FS_CardinalityType
  <1>4. /\ \A j \in Ids : j # i => Status(j)' = Status(j)
        /\ Status(i)' = r
    BY DEF Becomes, Kept
  <1>5. CASE r = s
    <2>1. InState(s)' = InState(s) \cup {i}
      BY <1>1, <1>2, <1>4, <1>5
    <2>2. i \in InState(s) <=> Status(i) = s
      BY <1>1
    <2> QED
      BY <1>3, <1>5, <2>1, <2>2, FS_AddElement DEF One
  <1>6. CASE r # s
    <2>1. InState(s)' = InState(s) \ {i}
      BY <1>1, <1>2, <1>4, <1>6
    <2>2. i \in InState(s) <=> Status(i) = s
      BY <1>1
    <2> QED
      BY <1>3, <1>6, <2>1, <2>2, FS_RemoveElement DEF One
  <1> QED
    BY <1>3, <1>5, <1>6

\* The two counters are numbers of messages.
CountersCount ==
    /\ countQueued = Cardinality(InState("queued"))
    /\ FailedNow = Cardinality(InState("failed"))

LEMMA CounterStep ==
    ASSUME TypeInv, OnePlace, CountersCount, [Next]_vars
    PROVE  CountersCount'
  <1>1. CASE Stays
    <2>1. \A i \in Ids : Status(i)' = Status(i)
      BY <1>1 DEF Stays, Kept
    <2>2. ASSUME NEW s \in {"queued", "failed"} PROVE InState(s)' = InState(s)
      <3>1. InState(s) = {j \in Ids : Status(j) = s}
        BY DEF InState, Status, Mapped
      <3>2. InState(s)' = {j \in Ids : Status(j)' = s}
        BY DEF InState, Status, Mapped
      <3> QED
        BY <2>1, <3>1, <3>2
    <2>3. countQueued' = countQueued /\ FailedNow' = FailedNow
      BY <1>1 DEF Stays, Counted, One, FailedNow, TypeInv, TypeOK
    <2> QED
      BY <2>2, <2>3 DEF CountersCount
  <1>2. ASSUME NEW i \in Ids, Moves(i) PROVE CountersCount'
    <2>1. PICK s, t, n : Becomes(i, s, t, n) /\ Counted(Status(i), s)
      BY <1>2 DEF Moves
    <2>2. Cardinality(InState("queued")') =
            Cardinality(InState("queued")) + One(s = "queued") - One(Status(i) = "queued")
      BY <2>1, StateCounted
    <2>3. Cardinality(InState("failed")') =
            Cardinality(InState("failed")) + One(s = "failed") - One(Status(i) = "failed")
      BY <2>1, StateCounted
    <2> QED
      BY <2>1, <2>2, <2>3 DEF CountersCount, Counted
  <1> QED
    BY <1>1, <1>2, EffectStep DEF StepEffect

LEMMA CountsFollow ==
    ASSUME TypeInv, CountersCount, AllocationBounded
    PROVE  CountsAgree
  <1>1. Cardinality(Mapped) <= Capacity
    BY MappedFinite, QueueAssumption DEF AllocationBounded, TypeInv, TypeOK
  <1>2. countFailed = Cardinality(InState("failed")) + (IF lock = "erase" THEN tally ELSE 0)
    BY DEF CountersCount, FailedNow, TypeInv, TypeOK
  <1> QED
    BY <1>1, <1>2 DEF CountersCount, CountsAgree

\* The counters are right and the capacity is kept, while the messages that
\* eraseFailed has removed and not yet subtracted are accounted for.
THEOREM CountersAgree == Spec => []CountsAgree
  <1>1. Init => CountersCount
    <2> SUFFICES ASSUME Init PROVE CountersCount
      OBVIOUS
    <2>1. InState("queued") = {} /\ InState("failed") = {}
      BY DEF Init, InState, Mapped
    <2>2. countQueued = 0 /\ FailedNow = 0
      BY DEF Init, FailedNow
    <2> QED
      BY <2>1, <2>2, FS_EmptySet DEF CountersCount
  <1>2. TypeInv /\ OnePlace /\ CountersCount /\ [Next]_vars => CountersCount'
    BY CounterStep
  <1>3. TypeInv /\ CountersCount /\ AllocationBounded => CountsAgree
    BY CountsFollow
  <1>4. Spec => []TypeInv
    BY TypeInit, TypeStep, PTL DEF Spec
  <1>5. Spec => []OnePlace
    BY EveryEntryInOnePlace
  <1>6. Spec => []AllocationBounded
    BY AllocationIsBounded
  <1> QED
    BY <1>1, <1>2, <1>3, <1>4, <1>5, <1>6, PTL DEF Spec

LEMMA CountedMessageIsQueued ==
    ASSUME TypeOK, OnePlace, CountsAgree, countQueued > 0
    PROVE  \E p \in Priorities : queue[p] # <<>>
  <1>1. InState("queued") # {}
    BY FS_EmptySet DEF CountsAgree
  <1>2. PICK i \in Mapped : entry[msgMap[i]].state = "queued"
    BY <1>1 DEF InState
  <1>3. msgMap[i] \in Live /\ msgMap[i] \in Entries
    BY <1>2 DEF Live, Mapped, TypeOK
  <1>4. PICK p \in Priorities : Contains(queue[p], msgMap[i])
    BY <1>2, <1>3 DEF OnePlace, WellPlaced
  <1>5. ~Contains(<<>>, msgMap[i])
    BY DEF Contains
  <1> QED
    BY <1>4, <1>5

LEMMA NoErrorFollows ==
    ASSUME TypeInv, OnePlace, CountsAgree
    PROVE  NoInternalError
  <1>1. countQueued > 0 => \E p \in Priorities : queue[p] # <<>>
    BY CountedMessageIsQueued DEF TypeInv
  <1>2. ASSUME NEW i \in Mapped, Starving(msgMap[i])
        PROVE  Contains(queue[entry[msgMap[i]].priority], msgMap[i])
    <2> DEFINE e == msgMap[i]
    <2>1. e \in Entries /\ e \in Live
      BY DEF TypeInv, TypeOK, Mapped, Live
    <2>2. entry[e].state = "queued" /\ ~entry[e].boosted
      BY <1>2 DEF Starving
    <2>3. WellPlaced(e)
      BY <2>1 DEF OnePlace
    <2> HIDE DEF e
    <2>4. Contains(queue[entry[e].priority], e)
      BY <2>1, <2>2, <2>3 DEF WellPlaced
    <2> QED
      BY <2>4 DEF e
  <1> QED
    BY <1>1, <1>2 DEF NoInternalError

\* The code's two reports of its own inconsistency are unreachable: a
\* positive count means a queue has a message, and a message that is due for
\* a boost is in the queue of its priority.
THEOREM NoErrorIsReported == Spec => []NoInternalError
  <1>1. TypeInv /\ OnePlace /\ CountsAgree => NoInternalError
    BY NoErrorFollows
  <1>2. Spec => []TypeInv
    BY TypeInit, TypeStep, PTL DEF Spec
  <1>3. Spec => []OnePlace
    BY EveryEntryInOnePlace
  <1>4. Spec => []CountsAgree
    BY CountersAgree
  <1> QED
    BY <1>1, <1>2, <1>3, <1>4, PTL

-----------------------------------------------------------------------------
(* Refinement.                                                             *)

\* What the contract sees of a status.
StatusSeen(s) == IF s = "absent" THEN s ELSE Seen(s)

\* AbsStatus, AbsToken and AbsStrikes, said of Status, TokenOf and Strikes.
Abstraction ==
    /\ AbsStatus \in [Ids -> {"absent", "pending", "leased", "failed"}]
    /\ AbsToken = [j \in Ids |-> AbsToken[j]] /\ AbsStrikes = [j \in Ids |-> AbsStrikes[j]]
    /\ \A i \in Ids : /\ AbsStatus[i] = StatusSeen(Status(i))
                      /\ AbsToken[i] = TokenOf(i)
                      /\ AbsStrikes[i] = Strikes(i)
                      /\ AbsStatus[i] # "absent" <=> i \in Mapped

LEMMA Abstracted == TypeOK => Abstraction
  <1> SUFFICES ASSUME TypeOK PROVE Abstraction
    OBVIOUS
  <1>1. ASSUME NEW i \in Ids
        PROVE  /\ AbsStatus[i] = StatusSeen(Status(i))
               /\ AbsToken[i] = TokenOf(i)
               /\ AbsStrikes[i] = Strikes(i)
               /\ AbsStatus[i] # "absent" <=> i \in Mapped
               /\ AbsStatus[i] \in {"absent", "pending", "leased", "failed"}
    <2>1. AbsToken[i] = TokenOf(i) /\ AbsStrikes[i] = Strikes(i)
      BY DEF AbsToken, AbsStrikes, TokenOf, Strikes
    <2>2. CASE i \notin Mapped
      BY <2>1, <2>2 DEF AbsStatus, StatusSeen, Status
    <2>3. CASE i \in Mapped
      <3>1. entry[msgMap[i]].state \in {"queued", "running", "delayed", "failed"}
        BY <2>3 DEF TypeOK, Mapped, EntryType
      <3> QED
        BY <2>1, <2>3, <3>1 DEF AbsStatus, StatusSeen, Seen, Status
    <2> QED
      BY <2>2, <2>3
  <1>2. /\ AbsStatus = [j \in Ids |-> AbsStatus[j]]
        /\ AbsToken = [j \in Ids |-> AbsToken[j]]
        /\ AbsStrikes = [j \in Ids |-> AbsStrikes[j]]
    <2>1. AbsStatus = [j \in Ids |-> AbsStatus[j]]
      BY DEF AbsStatus
    <2>2. AbsToken = [j \in Ids |-> AbsToken[j]]
      BY DEF AbsToken
    <2>3. AbsStrikes = [j \in Ids |-> AbsStrikes[j]]
      BY DEF AbsStrikes
    <2> QED
      BY <2>1, <2>2, <2>3
  <1> QED
    BY <1>1, <1>2 DEF Abstraction

\* A change of one message is a change of one message of the contract.
LEMMA AbstractBecomes ==
    ASSUME Abstraction, Abstraction', NEW i \in Ids, NEW s, NEW t, NEW n,
           Becomes(i, s, t, n)
    PROVE  Contract!Becomes(i, StatusSeen(s), t, n)
  <1>1. /\ Status(i)' = s /\ TokenOf(i)' = t /\ Strikes(i)' = n
        /\ \A j \in Ids : j # i =>
             Status(j)' = Status(j) /\ TokenOf(j)' = TokenOf(j) /\ Strikes(j)' = Strikes(j)
    BY DEF Becomes, Kept
  <1>2. /\ AbsStatus'[i] = StatusSeen(s) /\ AbsToken'[i] = t /\ AbsStrikes'[i] = n
        /\ \A j \in Ids : j # i =>
             /\ AbsStatus'[j] = AbsStatus[j] /\ AbsToken'[j] = AbsToken[j]
             /\ AbsStrikes'[j] = AbsStrikes[j]
    BY <1>1 DEF Abstraction
  <1>3. AbsStatus' = [AbsStatus EXCEPT ![i] = StatusSeen(s)]
    BY <1>2 DEF Abstraction
  <1>4. AbsToken' = [AbsToken EXCEPT ![i] = t]
    BY <1>2 DEF Abstraction
  <1>5. AbsStrikes' = [AbsStrikes EXCEPT ![i] = n]
    BY <1>2 DEF Abstraction
  <1> QED
    BY <1>3, <1>4, <1>5 DEF Contract!Becomes

\* One change of Legal is one step of the contract, or none when a delay ends.
LEMMA MoveIsContractStep ==
    ASSUME TypeOK, Abstraction, Abstraction', AllocationBounded, NEW i \in Ids, Moves(i)
    PROVE  [Contract!Next]_Contract!vars
  <1>1. PICK s, t, n : Legal(i, s, t, n) /\ Becomes(i, s, t, n)
    BY DEF Moves
  <1>2. Contract!Becomes(i, StatusSeen(s), t, n)
    BY <1>1, AbstractBecomes
  <1>3. /\ AbsStatus[i] = StatusSeen(Status(i)) /\ AbsToken[i] = TokenOf(i)
        /\ AbsStrikes[i] = Strikes(i)
    BY DEF Abstraction
  <1>4. CASE Status(i) = "absent" /\ Cardinality(Mapped) # Capacity
             /\ s \in {"queued", "delayed"} /\ t = NoToken /\ n = 0
    <2>1. Contract!Present = Mapped
      BY DEF Contract!Present, Abstraction, Mapped
    <2>2. Contract!Cardinality(Mapped) < Capacity
      <3>1. Cardinality(Mapped) < Capacity
        BY <1>4, MappedFinite, QueueAssumption DEF AllocationBounded, TypeOK
      <3>2. Contract!Cardinality(Mapped) = Cardinality(Mapped)
        BY DEF Contract!Cardinality, Cardinality
      <3> QED
        BY <3>1, <3>2
    <2>3. Contract!Publish(i)
      BY <1>2, <1>3, <1>4, <2>1, <2>2 DEF Contract!Publish, StatusSeen, Seen
    <2> QED
      BY <2>3 DEF Contract!Next
  <1>5. CASE Status(i) = "queued" /\ s = "running" /\ t \in FreshTokens /\ n = Strikes(i)
    <2>1. t \in Tokens \ {AbsToken[j] : j \in Ids}
      BY <1>5, FreshTokenIsNew DEF Abstraction
    <2>2. Contract!Lease(i)
      BY <1>2, <1>3, <1>5, <2>1 DEF Contract!Lease, StatusSeen, Seen
    <2> QED
      BY <2>2 DEF Contract!Next
  <1>6. CASE Status(i) = "delayed" /\ s = "queued" /\ t = TokenOf(i) /\ n = Strikes(i)
    <2>1. AbsStatus' = AbsStatus
      BY <1>2, <1>3, <1>6 DEF Contract!Becomes, StatusSeen, Seen, Abstraction
    <2>2. AbsToken' = [AbsToken EXCEPT ![i] = AbsToken[i]]
          /\ AbsStrikes' = [AbsStrikes EXCEPT ![i] = AbsStrikes[i]]
      BY <1>2, <1>3, <1>6 DEF Contract!Becomes
    <2>3. AbsToken' = AbsToken /\ AbsStrikes' = AbsStrikes
      BY <2>2 DEF Abstraction
    <2> QED
      BY <2>1, <2>2, <2>3 DEF Contract!vars
  <1>7. CASE Status(i) = "running" /\ s = "absent" /\ t = NoToken /\ n = 0
    <2>1. Contract!Complete(i)
      BY <1>2, <1>3, <1>7 DEF Contract!Complete, StatusSeen, Seen
    <2> QED
      BY <2>1 DEF Contract!Next
  <1>8. CASE Status(i) = "failed" /\ s = "absent" /\ t = NoToken /\ n = 0
    <2>1. Contract!Erase(i)
      BY <1>2, <1>3, <1>8 DEF Contract!Erase, StatusSeen, Seen
    <2> QED
      BY <2>1 DEF Contract!Next
  <1>9. CASE Status(i) = "running" /\ s \in {"queued", "delayed"} /\ t = NoToken
             /\ n = Strikes(i)
    <2>1. Contract!Requeue(i)
      BY <1>2, <1>3, <1>9 DEF Contract!Requeue, StatusSeen, Seen
    <2> QED
      BY <2>1 DEF Contract!Next
  <1>10. CASE /\ Status(i) = "running" /\ n = (Strikes(i) + 1) % 256
              /\ IF n = MaxRetries THEN s = "failed" /\ t = TokenOf(i)
                                   ELSE s = "queued" /\ t = NoToken
    <2>1. Contract!Expire(i)
      BY <1>2, <1>3, <1>10 DEF Contract!Expire, StatusSeen, Seen
    <2> QED
      BY <2>1 DEF Contract!Next
  <1> QED
    BY <1>1, <1>4, <1>5, <1>6, <1>7, <1>8, <1>9, <1>10 DEF Legal

LEMMA ContractStep ==
    ASSUME TypeInv, OnePlace, AllocationBounded, Abstraction, Abstraction', [Next]_vars
    PROVE  [Contract!Next]_Contract!vars
  <1>1. CASE Stays
    <2>1. \A i \in Ids : /\ AbsStatus'[i] = AbsStatus[i] /\ AbsToken'[i] = AbsToken[i]
                         /\ AbsStrikes'[i] = AbsStrikes[i]
      BY <1>1 DEF Stays, Kept, Abstraction
    <2>2. AbsStatus' = AbsStatus
      BY <2>1 DEF Abstraction
    <2>3. AbsToken' = AbsToken /\ AbsStrikes' = AbsStrikes
      BY <2>1 DEF Abstraction
    <2> QED
      BY <2>2, <2>3 DEF Contract!vars
  <1>2. ASSUME NEW i \in Ids, Moves(i) PROVE [Contract!Next]_Contract!vars
    BY <1>2, MoveIsContractStep DEF TypeInv
  <1> QED
    BY <1>1, <1>2, EffectStep DEF StepEffect

LEMMA ContractInitially == Init => Contract!Init
  <1> SUFFICES ASSUME Init PROVE Contract!Init
    OBVIOUS
  <1>1. Mapped = {}
    BY DEF Init, Mapped
  <1>2. AbsStatus = [i \in Ids |-> "absent"]
    <2>1. TypeOK
      BY TypeInit DEF TypeInv
    <2> QED
      BY <1>1, <2>1, Abstracted DEF Abstraction
  <1>3. AbsToken = [i \in Ids |-> NoToken] /\ AbsStrikes = [i \in Ids |-> 0]
    BY <1>1 DEF AbsToken, AbsStrikes
  <1> QED
    BY <1>2, <1>3 DEF Contract!Init

\* The queue keeps LeaseQueue's contract for every number of ids, entries,
\* workers, priorities and tokens: queueing, delaying, boosting and waking
\* are invisible, and every visible step is one of the six of the contract.
THEOREM QueueImplementsLeaseQueue == Spec => ImplementsLeaseQueue
  <1>1. Init => Contract!Init
    BY ContractInitially
  <1>2. TypeInv => Abstraction
    BY Abstracted DEF TypeInv
  <1>3. TypeInv /\ OnePlace /\ AllocationBounded /\ Abstraction /\ Abstraction' /\ [Next]_vars
          => [Contract!Next]_Contract!vars
    BY ContractStep
  <1>4. Spec => []TypeInv
    BY TypeInit, TypeStep, PTL DEF Spec
  <1>5. Spec => []OnePlace
    BY EveryEntryInOnePlace
  <1>6. Spec => []AllocationBounded
    BY AllocationIsBounded
  <1> QED
    BY <1>1, <1>2, <1>3, <1>4, <1>5, <1>6, PTL DEF Spec, ImplementsLeaseQueue, Contract!Spec

=============================================================================
