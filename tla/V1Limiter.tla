----------------------------- MODULE V1Limiter -----------------------------
(***************************************************************************)
(* The /v1 concurrency gate of one worker process                          *)
(* (middleware/concurrency_limit.py): two counters guarded by an           *)
(* asyncio.Condition.  Tasks run on one event loop, so whatever happens    *)
(* between two suspension points is one step.  The code suspends at the    *)
(* condition's lock, in condition.wait(), while a 429 is being sent (with  *)
(* the lock held) and inside the application.                              *)
(*                                                                         *)
(* lockq is the asyncio.Lock: its head owns the lock, the others wait in   *)
(* arrival order, which asyncio.Lock guarantees since an acquirer queues   *)
(* whenever there are waiters.  waiters is the condition's list of futures *)
(* that are not done: notify() skips those that are.                       *)
(*                                                                         *)
(* renotify tells the two behaviours of asyncio.Condition.wait() apart: up *)
(* to Python 3.12, which the image runs, a wait that is cancelled after    *)
(* it was notified forgets the notification; from 3.13 on, it passes it on.*)
(***************************************************************************)
EXTENDS Integers, Sequences, FiniteSets, SequencesExt

CONSTANTS Requests,      \* the /v1 requests this worker will receive
          MaxInflight,   \* self._max_inflight
          MaxQueueSize   \* self._max_queue_size

\* The bounds __init__ clamps the settings to.
ASSUME RequestsFinite == IsFiniteSet(Requests)
ASSUME MaxInflightPositive == MaxInflight \in Nat \ {0}
ASSUME MaxQueueSizeNat == MaxQueueSize \in Nat

VARIABLES
    pc,        \* pc[r]: the suspension point request r's task is at
    inflight,  \* self._inflight
    queued,    \* self._queued
    lockq,     \* the condition's lock: owner first, then its waiters
    waiters,   \* the futures notify() may still wake, oldest first
    renotify   \* whether a cancelled wait() passes its notification on

vars == <<pc, inflight, queued, lockq, waiters, renotify>>

RejectStates  == {"rejectFull", "rejectLate"}
LockStates    == {"entering", "reacquiring", "expired", "releasing"} \cup RejectStates
QueuedStates  == {"sleeping", "notified", "reacquiring", "expired", "rejectLate"}
RunningStates == {"running", "releasing"}
ComingStates  == {"notified", "reacquiring", "expired"}
States == {"new", "served", "rejected"} \cup LockStates \cup QueuedStates \cup RunningStates

In(S) == {r \in Requests : pc[r] \in S}
HoldsLock(r) == lockq # <<>> /\ Head(lockq) = r

Init == /\ pc = [r \in Requests |-> "new"]
        /\ inflight = 0
        /\ queued = 0
        /\ lockq = <<>>
        /\ waiters = <<>>
        /\ renotify \in BOOLEAN

-----------------------------------------------------------------------------
(* What a task does between two suspension points.  q is the lock's queue  *)
(* with r, its owner, in front.                                            *)

Decrement(n) == IF n > 0 THEN n - 1 ELSE 0     \* max(0, n - 1)

(* `async with self._condition` finds the lock taken: queue behind it.     *)
AwaitLock(r, state) ==
    /\ lockq # <<>>
    /\ pc' = [pc EXCEPT ![r] = state]
    /\ lockq' = Append(lockq, r)
    /\ UNCHANGED <<inflight, queued, renotify>>

(* condition.notify(1) on the wait list ws, in a step that moves r.        *)
Notify(r, state, ws) ==
    IF ws = <<>>
    THEN /\ pc' = [pc EXCEPT ![r] = state]
         /\ waiters' = ws
    ELSE /\ pc' = [pc EXCEPT ![r] = state, ![Head(ws)] = "notified"]
         /\ waiters' = Tail(ws)

(* self._inflight += 1, and the lock is released.                          *)
TakeSlot(r, q, nqueued) ==
    /\ inflight < MaxInflight
    /\ inflight' = inflight + 1
    /\ queued' = nqueued
    /\ pc' = [pc EXCEPT ![r] = "running"]
    /\ lockq' = Tail(q)
    /\ UNCHANGED <<waiters, renotify>>

(* The wait loop's body: no time remains, or wait, which frees the lock.   *)
WaitForSlot(r, q, nqueued) ==
    /\ inflight >= MaxInflight
    /\ queued' = nqueued
    /\ \/ /\ pc' = [pc EXCEPT ![r] = "rejectLate"]
          /\ lockq' = q
          /\ UNCHANGED waiters
       \/ /\ pc' = [pc EXCEPT ![r] = "sleeping"]
          /\ waiters' = Append(waiters, r)
          /\ lockq' = Tail(q)
    /\ UNCHANGED <<inflight, renotify>>

(* Faulty variants: the 429 is sent after the lock is released; the queue  *)
(* is tested without testing the slots first.                              *)
RejectFullUnlocked(r, q) ==
    /\ inflight >= MaxInflight
    /\ queued >= MaxQueueSize
    /\ pc' = [pc EXCEPT ![r] = "rejectFull"]
    /\ lockq' = Tail(q)
    /\ UNCHANGED <<inflight, queued, waiters, renotify>>

RejectFullBlindly(r, q) ==
    /\ queued >= MaxQueueSize
    /\ pc' = [pc EXCEPT ![r] = "rejectFull"]
    /\ lockq' = q
    /\ UNCHANGED <<inflight, queued, waiters, renotify>>

(* `queue_full`: the 429 is sent before the lock is released.              *)
RejectFull(r, q) ==
    /\ inflight >= MaxInflight
    /\ queued >= MaxQueueSize
    /\ pc' = [pc EXCEPT ![r] = "rejectFull"]
    /\ lockq' = q
    /\ UNCHANGED <<inflight, queued, waiters, renotify>>

(* _acquire_slot from its first test on.                                   *)
Admit(r, q) ==
    \/ TakeSlot(r, q, queued)
    \/ RejectFull(r, q)
    \/ queued < MaxQueueSize /\ WaitForSlot(r, q, queued + 1)

(* Faulty variant: `if` where the code has `while`.                        *)
RecheckOnce(r, q) ==
    /\ inflight' = inflight + 1
    /\ queued' = Decrement(queued)
    /\ pc' = [pc EXCEPT ![r] = "running"]
    /\ lockq' = Tail(q)
    /\ UNCHANGED <<waiters, renotify>>

(* The wait loop's test after a wake-up.                                   *)
Recheck(r, q) == TakeSlot(r, q, Decrement(queued)) \/ WaitForSlot(r, q, queued)

(* The cancelled wait() owns the lock again and raises: `queue_timeout` is *)
(* sent with the lock held, r still counted as queued.                     *)
GiveUp(r, q, ws) ==
    /\ lockq' = q
    /\ IF renotify THEN Notify(r, "rejectLate", ws)
                   ELSE pc' = [pc EXCEPT ![r] = "rejectLate"] /\ waiters' = ws
    /\ UNCHANGED <<inflight, queued, renotify>>

(* Faulty variant: the slot is freed without waking anybody.               *)
FreeSlotWithoutNotify(r, q) ==
    /\ inflight' = Decrement(inflight)
    /\ pc' = [pc EXCEPT ![r] = "served"]
    /\ lockq' = Tail(q)
    /\ UNCHANGED <<queued, waiters, renotify>>

(* __call__'s finally block.                                               *)
FreeSlot(r, q) ==
    /\ inflight' = Decrement(inflight)
    /\ Notify(r, "served", waiters)
    /\ lockq' = Tail(q)
    /\ UNCHANGED <<queued, renotify>>

-----------------------------------------------------------------------------
(* A /v1 request reaches _acquire_slot.                                    *)
Arrive(r) ==
    /\ pc[r] = "new"
    /\ \/ lockq = <<>> /\ Admit(r, <<r>>)
       \/ AwaitLock(r, "entering") /\ UNCHANGED waiters

Enter(r) == pc[r] = "entering" /\ HoldsLock(r) /\ Admit(r, lockq)

(* A notified task runs: wait() takes the lock again before it returns.    *)
Resume(r) ==
    /\ pc[r] = "notified"
    /\ \/ lockq = <<>> /\ Recheck(r, <<r>>)
       \/ AwaitLock(r, "reacquiring") /\ UNCHANGED waiters

Reacquire(r) == pc[r] = "reacquiring" /\ HoldsLock(r) /\ Recheck(r, lockq)

(* wait_for's timer fires while r sleeps, or after r was notified and      *)
(* before its task ran: wait() leaves the list and wants the lock back.    *)
LoseWait(r, ws) ==
    \/ lockq = <<>> /\ GiveUp(r, <<r>>, ws)
    \/ AwaitLock(r, "expired") /\ waiters' = ws

(* Faulty variant: condition.wait() without wait_for's timer.              *)
TimeoutSleepingNever(r) == pc[r] = "sleeping" /\ FALSE

TimeoutSleeping(r) ==
    /\ pc[r] = "sleeping"
    /\ \E i \in DOMAIN waiters : waiters[i] = r /\ LoseWait(r, RemoveAt(waiters, i))

TimeoutNotified(r) == pc[r] = "notified" /\ LoseWait(r, waiters)

(* The timer fires while wait() queues for the lock: the acquire() is      *)
(* cancelled and started over, at the back of the queue.                   *)
TimeoutReacquiring(r) ==
    /\ pc[r] = "reacquiring"
    /\ \E i \in DOMAIN lockq :
          /\ lockq[i] = r
          /\ \/ Len(lockq) = 1 /\ GiveUp(r, lockq, waiters)
             \/ /\ Len(lockq) > 1
                /\ pc' = [pc EXCEPT ![r] = "expired"]
                /\ lockq' = Append(RemoveAt(lockq, i), r)
                /\ UNCHANGED <<inflight, queued, waiters, renotify>>

Expire(r) == pc[r] = "expired" /\ HoldsLock(r) /\ GiveUp(r, lockq, waiters)

(* Faulty variant: the finally block ignores whether r was counted.        *)
RejectSentUncounted(r) ==
    /\ pc[r] \in RejectStates
    /\ HoldsLock(r)
    /\ queued' = queued - 1
    /\ pc' = [pc EXCEPT ![r] = "rejected"]
    /\ lockq' = Tail(lockq)
    /\ UNCHANGED <<inflight, waiters, renotify>>

(* The 429 is out: leave the queue count, then the lock.                   *)
RejectSent(r) ==
    /\ pc[r] \in RejectStates
    /\ HoldsLock(r)
    /\ queued' = IF pc[r] = "rejectLate" THEN Decrement(queued) ELSE queued
    /\ pc' = [pc EXCEPT ![r] = "rejected"]
    /\ lockq' = Tail(lockq)
    /\ UNCHANGED <<inflight, waiters, renotify>>

(* The application returns or raises: the slot is given back.              *)
Finish(r) ==
    /\ pc[r] = "running"
    /\ \/ lockq = <<>> /\ FreeSlot(r, <<r>>)
       \/ AwaitLock(r, "releasing") /\ UNCHANGED waiters

Release(r) == pc[r] = "releasing" /\ HoldsLock(r) /\ FreeSlot(r, lockq)

(* Every request has its outcome: nothing is left to do.                   *)
Settled == pc \in [Requests -> {"served", "rejected"}]

Timeout(r) == TimeoutSleeping(r) \/ TimeoutNotified(r) \/ TimeoutReacquiring(r)
RunReady(r) == Enter(r) \/ Resume(r) \/ Reacquire(r) \/ Expire(r) \/ Release(r)
Terminated == Settled /\ UNCHANGED vars

Next == \/ \E r \in Requests : \/ Arrive(r)  \/ RunReady(r)   \/ Timeout(r)
                                \/ Finish(r)  \/ RejectSent(r)
        \/ Terminated

Spec == Init /\ [][Next]_vars

(* The event loop runs every ready task and every timer, and a 429 of a    *)
(* few bytes gets sent; no request need arrive, nor any application finish.*)
Fairness == \A r \in Requests :
    WF_vars(RunReady(r)) /\ WF_vars(Timeout(r)) /\ WF_vars(RejectSent(r))

-----------------------------------------------------------------------------
TypeOK == /\ pc \in [Requests -> States]
          /\ inflight \in Nat
          /\ queued \in Nat
          /\ lockq \in Seq(Requests)
          /\ waiters \in Seq(Requests)
          /\ renotify \in BOOLEAN

(* The counters mean what the limits assume: _inflight is the number of    *)
(* requests in the application, _queued the number waiting for a slot (a   *)
(* request being refused for lateness included), and neither ever exceeds  *)
(* its limit, whatever order the tasks get the lock in.                    *)
CountersExact ==
    /\ inflight = Cardinality(In(RunningStates))
    /\ queued = Cardinality(In(QueuedStates))
    /\ inflight <= MaxInflight
    /\ queued <= MaxQueueSize

(* The lock and the wait list hold exactly the tasks suspended there, once *)
(* each, and a 429 is only ever being sent by the owner of the lock: no    *)
(* task is stranded outside both, and no wake-up goes to a task that left. *)
WaitStructures ==
    /\ Range(lockq) = In(LockStates) /\ IsInjective(lockq)
    /\ Range(waiters) = In({"sleeping"}) /\ IsInjective(waiters)
    /\ \A r \in In(RejectStates) : HoldsLock(r)

(* No slot idles while requests sleep: for every free slot a woken task is *)
(* on its way, when asyncio passes a cancelled waiter's notification on.   *)
WorkConserving ==
    renotify /\ waiters # <<>> => MaxInflight - inflight <= Cardinality(In(ComingStates))

(* The same without the condition on asyncio: below V1_MAX_INFLIGHT, some  *)
(* queued request is about to be let in.                                   *)
NoIdleSlot ==
    waiters # <<>> /\ inflight < MaxInflight => In(ComingStates) # {}

(* The decision to refuse and the send of the 429 are separated by an      *)
(* await: the counts it was based on are still true when the send ends.    *)
CountsFrozenWhileRefusing ==
    [][\A r \in In(RejectStates) :
         /\ inflight' = inflight
         /\ queued' # queued => pc'[r] = "rejected"]_vars

(* Every request that arrived is served or refused although applications   *)
(* may run for ever, and every finished one gives its slot back.           *)
EveryRequestSettles ==
    \A r \in Requests :
        /\ pc[r] # "new" ~> pc[r] \in RunningStates \cup {"served", "rejected"}
        /\ pc[r] = "releasing" ~> pc[r] = "served"

-----------------------------------------------------------------------------
Standing(s) ==
    CASE s \in RunningStates -> "running"
      [] s \in QueuedStates -> "queued"
      [] s = "served" -> "served"
      [] s \in {"rejectFull", "rejected"} -> "refused"
      [] OTHER -> "outside"

(* The gate implements its abstract promise.                               *)
Gate == INSTANCE BoundedAdmission WITH standing <- [r \in Requests |-> Standing(pc[r])]
AdmitsAsPromised == Gate!Spec
=============================================================================
