--------------------------- MODULE MCWorkerProcess ---------------------------
(***************************************************************************)
(* What the tasks of one worker's event loop share: the gate in front of   *)
(* /v1 and the queue of what is to be stored.  They share no state, so a   *)
(* behaviour follows one of them, its subject, while the other rests.      *)
(***************************************************************************)
EXTENDS V1Limiter, ArchiveQueue

VARIABLE subject
all == <<subject, vars, queueVars>>

ProcessInit == /\ subject \in {"gate", "queue"} /\ Init /\ QueueInit
               /\ subject = "gate" => capture
               /\ subject = "queue" => renotify

ProcessNext == \/ subject = "gate" /\ Next /\ UNCHANGED <<subject, queueVars>>
               \/ subject = "queue" /\ QueueNext /\ UNCHANGED <<subject, vars>>

ProcessSpec == ProcessInit /\ [][ProcessNext]_all /\ Fairness /\ QueueFairness
=============================================================================
