----------------------------- MODULE QueueLife -----------------------------
(***************************************************************************)
(* The life of a queue: Queue::Queue leaves both of its threads running,   *)
(* users call it, and ~Queue tells the threads to stop, joins them and     *)
(* frees the pool.  m_run is written and the condition variables are       *)
(* notified without the mutex, so the destructor's steps fall anywhere     *)
(* between those of the threads.  The delay thread tests m_run at the head *)
(* of its loop and after its wait: the first test is a step of its own,    *)
(* with the mutex held, before the wait gives the mutex back.              *)
(*                                                                         *)
(* Users are through with the queue when it is destroyed, as the workers   *)
(* that test_general.cpp joins first, or there were none, as when the      *)
(* constructor of QueueServer throws to a caller that catches.             *)
(***************************************************************************)
EXTENDS Queue

VARIABLES
    run,            \* m_run
    owner,          \* where the thread that destroys the queue is
    monitorEnded,   \* monitorThread has returned
    delayEnded,     \* delayThread has returned
    delayTested     \* delayThread is between the head of its loop and its wait

lifeVars   == <<run, owner, monitorEnded, delayEnded, delayTested>>
wholeVars  == <<vars, lifeVars>>

LifeInit ==
    /\ Init
    /\ run = TRUE
    /\ owner = "using"
    /\ monitorEnded = FALSE
    /\ delayEnded = FALSE
    /\ delayTested = FALSE

-----------------------------------------------------------------------------
(* The destructor.                                                         *)

Quiet == lock \notin Workers \cup {"erase"} /\ \A w \in Workers : thread[w] = "out"

Stop ==
    /\ owner = "using"
    /\ Quiet
    /\ run' = FALSE
    /\ owner' = "stopped"
    /\ UNCHANGED <<vars, monitorEnded, delayEnded, delayTested>>

\* Of the two notifications that of the monitor is not seen: its wait may
\* return at any time.  That of the delay thread is lost unless it waits.
NotifyThreads ==
    /\ owner = "stopped"
    /\ owner' = "notified"
    /\ delayPc' = "awake"
    /\ deadline' = 0
    /\ UNCHANGED <<lock, msgMap, entry, pool, queue, delayed, countQueued,
                   countFailed, scan, tally, thread, ref, lease>>
    /\ UNCHANGED <<run, monitorEnded, delayEnded, delayTested>>

JoinMonitor ==
    /\ owner = "notified"
    /\ monitorEnded
    /\ owner' = "joined_monitor"
    /\ UNCHANGED <<vars, run, monitorEnded, delayEnded, delayTested>>

\* Mutant: the delay thread is not joined.
DetachDelay ==
    /\ owner = "joined_monitor"
    /\ owner' = "joined"
    /\ UNCHANGED <<vars, run, monitorEnded, delayEnded, delayTested>>

JoinDelay ==
    /\ owner = "joined_monitor"
    /\ delayEnded
    /\ owner' = "joined"
    /\ UNCHANGED <<vars, run, monitorEnded, delayEnded, delayTested>>

\* The entries of the pool are deleted, those of m_msg_map are not.
Free ==
    /\ owner = "joined"
    /\ owner' = "freed"
    /\ pool' = <<>>
    /\ UNCHANGED <<lock, msgMap, entry, queue, delayed, countQueued,
                   countFailed, scan, tally, delayPc, deadline, thread, ref,
                   lease>>
    /\ UNCHANGED <<run, monitorEnded, delayEnded, delayTested>>

Destructor == Stop \/ NotifyThreads \/ JoinMonitor \/ JoinDelay \/ Free

-----------------------------------------------------------------------------
(* The monitor thread: m_run is tested after the wait and at the head of   *)
(* the loop.                                                               *)

MonitorGoesOn == run /\ ~monitorEnded /\ MonitorWake /\ UNCHANGED lifeVars

MonitorReturns ==
    /\ lock = "free"
    /\ ~run
    /\ ~monitorEnded
    /\ monitorEnded' = TRUE
    /\ UNCHANGED <<vars, run, owner, delayEnded, delayTested>>

MonitorPassEnds ==
    /\ MonitorDone
    /\ monitorEnded' = ~run
    /\ UNCHANGED <<run, owner, delayEnded, delayTested>>

-----------------------------------------------------------------------------
(* The delay thread.                                                       *)

DelayGoesOn == run /\ ~delayEnded /\ DelayWake /\ UNCHANGED lifeVars

\* Mutant: m_run is not tested when the wait ends by its time.
DelayReturnsIfNotified ==
    /\ lock = "free"
    /\ delayPc = "awake"
    /\ ~run
    /\ ~delayEnded
    /\ delayEnded' = TRUE
    /\ UNCHANGED <<vars, run, owner, monitorEnded, delayTested>>

DelayReturns ==
    /\ lock = "free"
    /\ delayPc = "awake" \/ (delayPc = "wait_for" /\ deadline = 0)
    /\ ~run
    /\ ~delayEnded
    /\ delayEnded' = TRUE
    /\ UNCHANGED <<vars, run, owner, monitorEnded, delayTested>>

\* The head of the loop, once what was due has been queued.
DelayTest ==
    /\ lock = "delay"
    /\ ~SomeDue
    /\ ~delayTested
    /\ delayTested' = run
    /\ delayEnded' = ~run
    /\ lock' = IF run THEN lock ELSE "free"
    /\ UNCHANGED <<msgMap, entry, pool, queue, delayed, countQueued,
                   countFailed, scan, tally, delayPc, deadline, thread, ref,
                   lease>>
    /\ UNCHANGED <<run, owner, monitorEnded>>

\* Mutant: the wait has no time although a message is delayed.
DelayWaitsUntimed ==
    /\ delayTested
    /\ lock = "delay"
    /\ lock' = "free"
    /\ delayPc' = "wait"
    /\ delayTested' = FALSE
    /\ UNCHANGED <<msgMap, entry, pool, queue, delayed, countQueued,
                   countFailed, scan, tally, deadline, thread, ref, lease>>
    /\ UNCHANGED <<run, owner, monitorEnded, delayEnded>>

DelayWaits ==
    /\ delayTested
    /\ DelaySleep
    /\ delayTested' = FALSE
    /\ UNCHANGED <<run, owner, monitorEnded, delayEnded>>

-----------------------------------------------------------------------------
Users ==
    /\ owner = "using"
    /\ Publisher \/ Eraser \/ \E w \in Workers : Worker(w)
    /\ UNCHANGED lifeVars

ThreadStep ==
    /\ \/ \E i \in Ids : MonitorVisit(i)
       \/ DelayMove
       \/ ~delayEnded /\ DelaySpuriousWakeup
       \/ Tick
    /\ UNCHANGED lifeVars

LifeNext ==
    \/ Users
    \/ Destructor
    \/ MonitorGoesOn \/ MonitorReturns \/ MonitorPassEnds
    \/ DelayGoesOn \/ DelayReturns \/ DelayTest \/ DelayWaits
    \/ ThreadStep

LifeSpec == LifeInit /\ [][LifeNext]_wholeVars

(* Fairness: that of Queue, for the steps of its threads as they are here,  *)
(* and the destructor goes on.                                             *)
LifeFairness ==
    /\ SF_wholeVars(Tick /\ UNCHANGED lifeVars)
    /\ SF_wholeVars(MonitorGoesOn)
    /\ SF_wholeVars(MonitorReturns)
    /\ \A i \in Ids : WF_wholeVars(MonitorVisit(i) /\ UNCHANGED lifeVars)
    /\ WF_wholeVars(MonitorPassEnds)
    /\ SF_wholeVars(DelayGoesOn)
    /\ SF_wholeVars(DelayReturns)
    /\ WF_wholeVars(DelayMove /\ UNCHANGED lifeVars)
    /\ WF_wholeVars(DelayTest)
    /\ WF_wholeVars(DelayWaits)
    /\ WF_wholeVars(NotifyThreads)
    /\ WF_wholeVars(JoinMonitor)
    /\ WF_wholeVars(JoinDelay)
    /\ WF_wholeVars(Free)

LifeFairSpec == LifeSpec /\ LifeFairness

-----------------------------------------------------------------------------
\* The memory of a queue goes when nobody can touch it any more: both of its
\* threads have returned, the mutex is free and no caller is inside.
FreedLast ==
    owner = "freed" => monitorEnded /\ delayEnded /\ Quiet /\ lock = "free"

\* While a message is delayed, the delay thread's wait ends by itself, so
\* destruction ends even if the notification came before the wait.
DestructionEndsIfDelayed == (~run /\ delayed # <<>>) ~> owner = "freed"

\* Destruction ends, or else the destructor, with the monitor thread joined,
\* waits for ever for a delay thread that waits for a notification with no
\* message delayed: no other wait can be the last.
OnlyDelayThreadMissesStop ==
    <>(~run) =>
        \/ <>(owner = "freed")
        \/ <>[](owner = "joined_monitor" /\ delayPc = "wait" /\ delayed = <<>>)

\* Queue.hpp:158: m_run is the "Run/stop flag for internal threads": once it
\* is cleared they stop, and destruction ends.
DestructionEnds == ~run ~> owner = "freed"

=============================================================================
