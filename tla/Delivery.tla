------------------------------ MODULE Delivery ------------------------------
(***************************************************************************)
(* What one worker thread of the peer promises about transactions, without *)
(* client, counters, retries or queues: a request is answered once; one    *)
(* that is accepted is pending until it is delivered to a node or lost,    *)
(* and is never both and never pending again; while more than Capacity     *)
(* transactions are pending every request is refused.                      *)
(***************************************************************************)
EXTENDS Naturals, FiniteSets

CONSTANTS Requests,
          Capacity     \* 0: no limit

VARIABLE status

Statuses == {"new", "refused", "answered", "pending", "delivered", "lost"}

Pending == {r \in Requests : status[r] = "pending"}

Full == Capacity # 0 /\ Cardinality(Pending) > Capacity

Move(r, from, to) == /\ status[r] = from
                     /\ status' = [status EXCEPT ![r] = to]

-----------------------------------------------------------------------------

Init == status = [r \in Requests |-> "new"]

\* Too many requests.
Refuse(r) == Full /\ Move(r, "new", "refused")

\* An error, getinfo, or a test transaction: there is nothing to deliver.
Answer(r) == ~Full /\ Move(r, "new", "answered")

Accept(r) == ~Full /\ Move(r, "new", "pending")

\* Accepted, but it never got as far as being pending.
AcceptInVain(r) == ~Full /\ Move(r, "new", "lost")

Deliver(r) == Move(r, "pending", "delivered")

Lose(r) == Move(r, "pending", "lost")

Next == \E r \in Requests : \/ Refuse(r) \/ Answer(r) \/ Accept(r) \/ AcceptInVain(r)
                            \/ Deliver(r) \/ Lose(r)

Spec == Init /\ [][Next]_status

=============================================================================
