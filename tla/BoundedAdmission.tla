-------------------------- MODULE BoundedAdmission --------------------------
(***************************************************************************)
(* What the /v1 concurrency gate promises, without its lock, condition,    *)
(* wait set and timers: at most MaxInflight requests in the application,   *)
(* at most MaxQueueSize requests queued, a newcomer is turned away only    *)
(* when both are full, a queued request leaves by being promoted into a    *)
(* free slot or by expiring, and an outcome is final.                       *)
(***************************************************************************)
EXTENDS Naturals, FiniteSets

CONSTANTS Requests,      \* the requests that may arrive
          MaxInflight,   \* V1_MAX_INFLIGHT
          MaxQueueSize   \* V1_MAX_QUEUE_SIZE

VARIABLE standing        \* standing[r]: where request r stands

Standings == {"outside", "queued", "running", "served", "refused"}

With(s) == {r \in Requests : standing[r] = s}
SlotsFull == Cardinality(With("running")) = MaxInflight
QueueFull == Cardinality(With("queued")) = MaxQueueSize

Become(r, from, to) == /\ standing[r] = from
                       /\ standing' = [standing EXCEPT ![r] = to]

Init == standing = [r \in Requests |-> "outside"]

Start(r)   == ~SlotsFull /\ Become(r, "outside", "running")
Queue(r)   == SlotsFull /\ ~QueueFull /\ Become(r, "outside", "queued")
Refuse(r)  == SlotsFull /\ QueueFull /\ Become(r, "outside", "refused")
Promote(r) == ~SlotsFull /\ Become(r, "queued", "running")
Expire(r)  == Become(r, "queued", "refused")
Finish(r)  == Become(r, "running", "served")

Next == \E r \in Requests :
            \/ Start(r)   \/ Queue(r)  \/ Refuse(r)
            \/ Promote(r) \/ Expire(r) \/ Finish(r)

Spec == Init /\ [][Next]_standing
=============================================================================
