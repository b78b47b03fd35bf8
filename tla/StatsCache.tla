----------------------------- MODULE StatsCache -----------------------------
(***************************************************************************)
(* The administration page's figures in one worker: AdminStatsCache        *)
(* (runtime/admin_cache.py) around _load_admin_stats (admin/router.py),    *)
(* which sums up audits and conversations in one query after another.      *)
(* What the database says changes with time; a figure is known by the time *)
(* it was read.                                                            *)
(***************************************************************************)
EXTENDS Naturals, Sequences

CONSTANTS
    Viewers,     \* requests for the page in progress at once
    StatsTtl,    \* admin_stats_cache_seconds
    MaxClock,    \* bound
    NoStats      \* no value

ASSUME StatsTtlAssumption == StatsTtl \in Nat /\ MaxClock \in Nat

VARIABLES
    clock,
    figures,     \* _value: when its oldest figure was read
    expiresAt,   \* _expires_at
    queue,       \* the lock: its holder, and who waits for it
    view         \* the requests

statsVars == <<clock, figures, expiresAt, queue, view>>

Clock == 0..MaxClock
Away == [at |-> "away", came |-> 0, checked |-> 0, read |-> NoStats]

StatsInit == /\ clock = 0 /\ figures = NoStats /\ expiresAt = 0
             /\ queue = <<>> /\ view = [v \in Viewers |-> Away]

StatsValid == figures # NoStats /\ clock < expiresAt

(* The lock goes to the next waiter.                                       *)
Unlock == queue' = Tail(queue)

(* The first look; without a valid value the request takes the lock, or    *)
(* queues for it.                                                          *)
Look(v) ==
    /\ view[v].at = "away"
    /\ IF StatsValid
       THEN /\ view' = [view EXCEPT ![v] = [Away EXCEPT !.at = "served", !.came = clock,
                                                        !.read = figures]]
            /\ UNCHANGED queue
       ELSE /\ view' = [view EXCEPT ![v] = [Away EXCEPT !.at = "locking", !.came = clock]]
            /\ queue' = Append(queue, v)
    /\ UNCHANGED <<clock, figures, expiresAt>>

(* With the lock it looks again, and loads if the value is still outdated. *)
LookAgain(v) ==
    /\ view[v].at = "locking" /\ Head(queue) = v
    /\ IF StatsValid
       THEN view' = [view EXCEPT ![v].at = "served", ![v].read = figures] /\ Unlock
       ELSE /\ view' = [view EXCEPT ![v].at = "loading", ![v].checked = clock]
            /\ UNCHANGED queue
    /\ UNCHANGED <<clock, figures, expiresAt>>

(* The first of the loader's queries; the others come later.               *)
LoadStats(v) == /\ view[v].at = "loading" /\ view[v].read = NoStats
                /\ view' = [view EXCEPT ![v].read = clock]
                /\ UNCHANGED <<clock, figures, expiresAt, queue>>

KeepAsOfNow(v) == /\ view[v].at = "loading" /\ view[v].read # NoStats   \* a mutant
                  /\ figures' = view[v].read
                  /\ expiresAt' = clock + StatsTtl
                  /\ view' = [view EXCEPT ![v].at = "served", ![v].checked = 0]
                  /\ Unlock /\ UNCHANGED clock
Keep(v) == /\ view[v].at = "loading" /\ view[v].read # NoStats
           /\ figures' = view[v].read
           /\ expiresAt' = view[v].checked + StatsTtl
           /\ view' = [view EXCEPT ![v].at = "served", ![v].checked = 0]
           /\ Unlock /\ UNCHANGED clock

(* A query raises: the lock is free again, and the value is as it was.     *)
LoadStatsRaises(v) == /\ view[v].at = "loading"
                      /\ view' = [view EXCEPT ![v] = Away]
                      /\ Unlock /\ UNCHANGED <<clock, figures, expiresAt>>

Close(v) == /\ view[v].at = "served"
            /\ view' = [view EXCEPT ![v] = Away]
            /\ UNCHANGED <<clock, figures, expiresAt, queue>>

ClockTicks == clock < MaxClock /\ clock' = clock + 1 /\ UNCHANGED <<figures, expiresAt, queue, view>>

StatsNext == \/ \E v \in Viewers : \/ Look(v) \/ LookAgain(v) \/ LoadStats(v) \/ Keep(v)
                                   \/ LoadStatsRaises(v) \/ Close(v)
             \/ ClockTicks

-----------------------------------------------------------------------------
StatsTypeOK ==
    /\ clock \in Clock /\ figures \in Clock \cup {NoStats}
    /\ expiresAt \in 0..(MaxClock + StatsTtl)
    /\ queue \in Seq(Viewers)
    /\ view \in [Viewers -> [at : {"away", "locking", "loading", "served"},
                             came : Clock, checked : Clock, read : Clock \cup {NoStats}]]

(* The figures a request is served are no older than the cache's lifetime,  *)
(* counted from when it came, however long loads and the wait for the lock  *)
(* take; a lifetime of zero serves nobody an older value than its own.      *)
StatsFresh == \A v \in Viewers : view[v].at = "served" => view[v].read + StatsTtl >= view[v].came
=============================================================================
