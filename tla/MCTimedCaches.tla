---------------------------- MODULE MCTimedCaches ----------------------------
(***************************************************************************)
(* The two values that a worker keeps for a limited time: the number of    *)
(* keys and the administration page's figures.  They share no state, so a  *)
(* behaviour follows one of them, its subject, while the other rests.      *)
(***************************************************************************)
EXTENDS Identity, StatsCache, TLC

VARIABLE subject
all == <<subject, identityVars, statsVars>>

Init == /\ subject \in {"identity", "stats"} /\ IdentityInit /\ StatsInit
        /\ subject = "stats" => passthrough

Next == \/ subject = "identity" /\ IdentityNext /\ UNCHANGED <<subject, statsVars>>
        \/ subject = "stats" /\ StatsNext /\ UNCHANGED <<subject, identityVars>>

Spec == Init /\ [][Next]_all

Alike == Permutations(Requests) \cup Permutations(Upstreams)

(* The types of both parts' variables.                                     *)
TypeOK == IdentityTypeOK /\ StatsTypeOK
=============================================================================
