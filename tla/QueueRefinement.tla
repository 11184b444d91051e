--------------------------- MODULE QueueRefinement ---------------------------
(* The queue implements LeaseQueue: queued and delayed are both pending, and *)
(* which worker holds what, the queues and the clock are hidden.             *)
EXTENDS Queue

\* What the contract sees of the state of an entry.
Seen(state) ==
    CASE state \in {"queued", "delayed"} -> "pending"
      [] state = "running" -> "leased"
      [] state = "failed" -> "failed"

AbsStatus  == [i \in Ids |-> IF i \in Mapped THEN Seen(entry[msgMap[i]].state) ELSE "absent"]
AbsToken   == [i \in Ids |-> IF i \in Mapped THEN entry[msgMap[i]].token ELSE NoToken]
AbsStrikes == [i \in Ids |-> IF i \in Mapped THEN entry[msgMap[i]].failCount ELSE 0]

Contract ==
    INSTANCE LeaseQueue WITH status <- AbsStatus, token <- AbsToken, strikes <- AbsStrikes

\* Every step of publishers, workers, the monitor, the delay thread and the
\* erasing caller is one step of the contract or none: a timeout is charged
\* once, to a message that is with a worker, a requeue or an expired delay is
\* charged to none, and a failed message leaves by erasure only.
ImplementsLeaseQueue == Contract!Spec

=============================================================================
