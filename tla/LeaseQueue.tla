----------------------------- MODULE LeaseQueue -----------------------------
(***************************************************************************)
(* What the queue promises its publishers and consumers, with no threads,  *)
(* no lock, no order and no clock: a published message is pending until it *)
(* is leased, a lease ends by completion, by requeueing or by expiring,    *)
(* and the MaxRetries-th expiry makes the message a failed one, which only *)
(* the publisher's side can remove.                                        *)
(***************************************************************************)
EXTENDS Naturals, FiniteSets

CONSTANTS
    Ids, Tokens,
    NoToken,
    Capacity,     \* messages, failed ones included
    MaxRetries    \* compared with an eight-bit count of expiries

VARIABLES
    status,       \* absent, pending, leased or failed, for each id
    token,        \* the token of the present lease, kept by a failed message
    strikes       \* expired leases, zero while absent

vars == <<status, token, strikes>>

Present == {i \in Ids : status[i] # "absent"}

Init ==
    /\ status = [i \in Ids |-> "absent"]
    /\ token = [i \in Ids |-> NoToken]
    /\ strikes = [i \in Ids |-> 0]

\* Message i is known with this status, token and number of strikes.
Becomes(i, s, t, n) ==
    /\ status' = [status EXCEPT ![i] = s]
    /\ token' = [token EXCEPT ![i] = t]
    /\ strikes' = [strikes EXCEPT ![i] = n]

Publish(i) ==
    /\ status[i] = "absent"
    /\ Cardinality(Present) < Capacity
    /\ Becomes(i, "pending", NoToken, 0)

Lease(i) ==
    /\ status[i] = "pending"
    /\ \E t \in Tokens \ {token[j] : j \in Ids} : Becomes(i, "leased", t, strikes[i])

Complete(i) ==
    /\ status[i] = "leased"
    /\ Becomes(i, "absent", NoToken, 0)

Requeue(i) ==
    /\ status[i] = "leased"
    /\ Becomes(i, "pending", NoToken, strikes[i])

Expire(i) ==
    LET n == (strikes[i] + 1) % 256 IN
    /\ status[i] = "leased"
    /\ IF n = MaxRetries THEN Becomes(i, "failed", token[i], n)
                         ELSE Becomes(i, "pending", NoToken, n)

Erase(i) ==
    /\ status[i] = "failed"
    /\ Becomes(i, "absent", NoToken, 0)

Next ==
    \E i \in Ids :
        Publish(i) \/ Lease(i) \/ Complete(i) \/ Requeue(i) \/ Expire(i) \/ Erase(i)

Spec == Init /\ [][Next]_vars

=============================================================================
