--------------------------- MODULE MCQueueServer ---------------------------
(* Bodies of /push for TLC: two messages; two, the second with a delay;    *)
(* and, mixed, two messages or an element that is no object.               *)
EXTENDS QueueServer

Message(i) == [object |-> TRUE, id |-> i, pri |-> 0, del |-> FALSE]

Pairs   == {<<Message(i), Message(j)>> : i, j \in Ids}
Delayed == {<<Message(i), [Message(j) EXCEPT !.del = TRUE]>> : i, j \in Ids}
Mixed   == Pairs \cup {<<[Message(i) EXCEPT !.object = FALSE]>> : i \in Ids}

=============================================================================
