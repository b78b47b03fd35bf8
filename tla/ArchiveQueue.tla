---------------------------- MODULE ArchiveQueue ----------------------------
(***************************************************************************)
(* The background write queue of one worker process                        *)
(* (runtime/archive_queue.py) and its two users in proxy/relay.py, which   *)
(* fall back to a write of their own when the queue is full.               *)
(*                                                                         *)
(* The queue's single task suspends in queue.get() and in the two database *)
(* writers; what it does in between is one step.  A writer may raise, and  *)
(* the training writer may raise after its commit, while it refreshes the  *)
(* rows it wrote.                                                          *)
(*                                                                         *)
(* The lifespan handler stops the queue after the server has finished its  *)
(* requests: nothing is enqueued once stop() has begun.                    *)
(***************************************************************************)
EXTENDS Integers, Sequences, FiniteSets, SequencesExt

CONSTANTS Audits,      \* audit payloads, each enqueued at most once
          Archives,    \* training payloads, each enqueued at most once
          Rowless,     \* those the training writer makes no row of (blocked, warned, ...)
          MaxSize,     \* the queue's maxsize
          BatchSize    \* self._batch_size

Items == Audits \cup Archives

ASSUME KindsDisjoint == Audits \cap Archives = {} /\ Rowless \subseteq Archives
ASSUME ItemsFinite == IsFiniteSet(Items)
ASSUME MaxSizePositive == MaxSize \in Nat \ {0}
ASSUME BatchSizePositive == BatchSize \in Nat \ {0}

VARIABLES
    queue,       \* self._queue
    unfinished,  \* its count of items not yet task_done(), which join() waits on
    batch,       \* the batch _run holds
    worker,      \* where _run's task is
    running,     \* self._running
    stopper,     \* how far stop() is
    dropped,     \* self._dropped
    processed,   \* self._processed
    capture,     \* the runtime setting training_capture_enabled
    fate,        \* what has become of each payload
    rows,        \* how many times each payload was committed to the database
    tried        \* the payloads a writer has been called with

queueVars == <<queue, unfinished, batch, worker, running, stopper, dropped, processed,
               capture, fate, rows, tried>>
outcome == <<fate, rows, tried>>

Fates == {"unsent", "held", "direct", "stored", "lost", "discarded"}
WorkerStates == {"get", "collect", "training", "audit", "exited", "cancelled"}

QueueInit == /\ queue = <<>> /\ batch = <<>> /\ unfinished = 0
             /\ worker = "get" /\ running = TRUE /\ stopper = "no"
             /\ dropped = 0 /\ processed = 0
             /\ capture \in BOOLEAN
             /\ fate = [i \in Items |-> "unsent"]
             /\ rows = [i \in Items |-> 0]
             /\ tried = {}

-----------------------------------------------------------------------------
(* Faulty variant: the payload is put into the deque itself, uncounted.    *)
AcceptUncounted(i) == /\ Len(queue) < MaxSize
                      /\ queue' = Append(queue, i)
                      /\ fate' = [fate EXCEPT ![i] = "held"]
                      /\ UNCHANGED <<unfinished, dropped>>

(* Enqueueing: put_nowait, or the fallback task of relay.py.  A training   *)
(* payload is built only while the capture is on.                          *)
Accept(i) == /\ Len(queue) < MaxSize
             /\ queue' = Append(queue, i)
             /\ unfinished' = unfinished + 1
             /\ fate' = [fate EXCEPT ![i] = "held"]
             /\ UNCHANGED dropped

Drop(i) == /\ Len(queue) >= MaxSize
           /\ dropped' = dropped + 1
           /\ fate' = [fate EXCEPT ![i] = "direct"]
           /\ UNCHANGED <<queue, unfinished>>

Enqueue(i) == /\ stopper = "no"
              /\ fate[i] = "unsent"
              /\ i \in Archives => capture
              /\ Accept(i) \/ Drop(i)
              /\ UNCHANGED <<batch, worker, running, stopper, processed, capture, rows, tried>>

(* The fallback task: one attempt, whatever the setting says by now, which *)
(* the end of the process may cut short.                                   *)
DirectWrite(i) ==
    /\ fate[i] = "direct"
    /\ tried' = tried \cup {i}
    /\ \/ i \notin Rowless /\ fate' = [fate EXCEPT ![i] = "stored"]
                           /\ rows' = [rows EXCEPT ![i] = @ + 1]
       \/ i \notin Rowless /\ fate' = [fate EXCEPT ![i] = "lost"] /\ UNCHANGED rows
       \/ i \in Rowless /\ fate' = [fate EXCEPT ![i] = "discarded"] /\ UNCHANGED rows
    /\ UNCHANGED <<queue, unfinished, batch, worker, running, stopper, dropped,
                   processed, capture>>

SetCapture == capture' = ~capture /\ UNCHANGED <<queue, unfinished, batch, worker, running,
                                    stopper, dropped, processed, outcome>>
-----------------------------------------------------------------------------
Within(S, b) == Range(b) \cap S

(* What a writer, or its absence, makes of the payloads of a batch.        *)
Settle(stored, discarded, lost) ==
    /\ fate' = [i \in Items |-> IF i \in stored THEN "stored"
                              ELSE IF i \in discarded THEN "discarded"
                              ELSE IF i \in lost THEN "lost" ELSE fate[i]]
    /\ rows' = [i \in Items |-> IF i \in stored THEN rows[i] + 1 ELSE rows[i]]

(* Faulty variant: task_done() once per batch.                             *)
EndBatchOnce(b, q) == /\ unfinished' = unfinished - 1
                      /\ batch' = <<>>
                      /\ worker' = IF running \/ q # <<>> THEN "get" ELSE "exited"

(* _run's finally block, and its loop test.                                *)
EndBatch(b, q) == /\ unfinished' = unfinished - Len(b)
                  /\ batch' = <<>>
                  /\ worker' = IF running \/ q # <<>> THEN "get" ELSE "exited"

(* On to the audit writer, or to the end of the batch without audits.      *)
AfterTraining(b, q) ==
    IF Within(Audits, b) = {} THEN EndBatch(b, q)
                          ELSE worker' = "audit" /\ batch' = b /\ UNCHANGED unfinished

(* The batch b is complete and q is left in the queue: training payloads   *)
(* first, if the setting still allows it; the writer makes nothing of a    *)
(* batch of rowless payloads.                                              *)
BeginWrite(b, q) ==
    LET archives == Within(Archives, b)
    IN  \/ /\ capture /\ ~(archives \subseteq Rowless)
           /\ worker' = "training"
           /\ batch' = b
           /\ UNCHANGED <<unfinished, processed, outcome>>
        \/ /\ ~capture \/ archives \subseteq Rowless
           /\ processed' = processed + (IF capture THEN Cardinality(archives) ELSE 0)
           /\ Settle({}, archives, {}) /\ UNCHANGED tried
           /\ AfterTraining(b, q)

(* _next_batch: get() returns without suspending while the queue has       *)
(* items; the batch ends when it is full or its deadline has passed.       *)
CollectBatch ==
    /\ worker \in {"get", "collect"}
    /\ \E k \in 1..Len(queue) :
          LET b == batch \o SubSeq(queue, 1, k)
              q == SubSeq(queue, k + 1, Len(queue))
          IN  /\ Len(b) <= BatchSize
              /\ queue' = q
              /\ \/ /\ q = <<>> /\ Len(b) < BatchSize
                    /\ worker' = "collect" /\ batch' = b
                    /\ UNCHANGED <<unfinished, processed, outcome>>
                 \/ BeginWrite(b, q)
    /\ UNCHANGED <<running, stopper, dropped, capture>>

(* Faulty variant: a get() cancelled late takes its item with it.          *)
FlushTimeoutLosing == /\ worker = "collect"
                      /\ queue' = IF queue = <<>> THEN queue ELSE Tail(queue)
                      /\ BeginWrite(batch, queue')
                      /\ UNCHANGED <<running, stopper, dropped, capture>>

(* wait_for's timer cancels get(): an item that arrived meanwhile stays.   *)
FlushTimeout == /\ worker = "collect"
                /\ BeginWrite(batch, queue)
                /\ UNCHANGED <<queue, running, stopper, dropped, capture>>

(* Faulty variant: a failed write is not caught, and task_done() skipped.  *)
TrainingWrittenOrStuck ==
    /\ worker = "training"
    /\ LET archives == Within(Archives, batch)
       IN  /\ tried' = tried \cup archives
           /\ \/ /\ Settle(archives \ Rowless, archives \cap Rowless, {})
                 /\ processed' = processed + Cardinality(archives)
                 /\ AfterTraining(batch, queue)
              \/ /\ Settle({}, {}, Range(batch))
                 /\ worker' = "get" /\ batch' = <<>>
                 /\ UNCHANGED <<processed, unfinished>>
    /\ UNCHANGED <<queue, running, stopper, dropped, capture>>

(* Faulty variant: payloads are counted before they are written.           *)
TrainingCountedFirst ==
    /\ worker = "training"
    /\ LET archives == Within(Archives, batch)
           audits == Within(Audits, batch)
       IN  /\ tried' = tried \cup archives
           /\ processed' = processed + Cardinality(archives)
           /\ \/ /\ Settle(archives \ Rowless, archives \cap Rowless, {})
                 /\ AfterTraining(batch, queue)
              \/ /\ Settle({}, archives \cap Rowless, audits \cup archives)
                 /\ EndBatch(batch, queue)
    /\ UNCHANGED <<queue, running, stopper, dropped, capture>>

(* The training writer returns, or raises before or after its commit: then *)
(* the audits of the batch are passed over.                                *)
TrainingWritten ==
    /\ worker = "training"
    /\ LET archives == Within(Archives, batch)
           audits == Within(Audits, batch)
       IN  /\ tried' = tried \cup archives
           /\ \/ /\ Settle(archives \ Rowless, archives \cap Rowless, {})
                 /\ processed' = processed + Cardinality(archives)
                 /\ AfterTraining(batch, queue)
              \/ /\ \/ Settle(archives \ Rowless, archives \cap Rowless, audits)
                    \/ Settle({}, archives \cap Rowless, audits \cup archives)
                 /\ EndBatch(batch, queue)
                 /\ UNCHANGED processed
    /\ UNCHANGED <<queue, running, stopper, dropped, capture>>

AuditsWritten ==
    /\ worker = "audit"
    /\ LET audits == Within(Audits, batch)
       IN  /\ tried' = tried \cup audits
           /\ \/ Settle(audits, {}, {}) /\ processed' = processed + Cardinality(audits)
              \/ Settle({}, {}, audits) /\ UNCHANGED processed
    /\ EndBatch(batch, queue)
    /\ UNCHANGED <<queue, running, stopper, dropped, capture>>

-----------------------------------------------------------------------------
(* stop(): join() the queue, then cancel the task.                         *)
StopBegin == /\ stopper = "no"
             /\ running' = FALSE
             /\ stopper' = "joining"
             /\ UNCHANGED <<queue, unfinished, batch, worker, dropped, processed, capture, outcome>>

Cancel == worker' = IF worker = "exited" THEN worker ELSE "cancelled"

(* Faulty variant: the task is cancelled without join().                   *)
StopEndUnjoined ==
    /\ stopper = "joining"
    /\ stopper' = "stopped" /\ Cancel
    /\ UNCHANGED <<queue, unfinished, batch, running, dropped, processed, capture, outcome>>

StopEnd == /\ stopper = "joining" /\ unfinished = 0
           /\ stopper' = "stopped" /\ Cancel
           /\ UNCHANGED <<queue, unfinished, batch, running, dropped, processed, capture, outcome>>

WorkerStep == CollectBatch \/ FlushTimeout \/ TrainingWritten \/ AuditsWritten

QueueNext == \/ \E i \in Items : Enqueue(i) \/ DirectWrite(i)
             \/ WorkerStep \/ SetCapture \/ StopBegin \/ StopEnd

QueueSpec == QueueInit /\ [][QueueNext]_queueVars

(* Timers fire, the database answers or its driver raises, and the event   *)
(* loop runs what is ready.                                                *)
QueueFairness == /\ WF_queueVars(WorkerStep) /\ WF_queueVars(StopEnd)
                 /\ \A i \in Items : WF_queueVars(DirectWrite(i))

-----------------------------------------------------------------------------
QueueTypeOK == /\ queue \in Seq(Items) /\ batch \in Seq(Items)
               /\ unfinished \in Nat
               /\ worker \in WorkerStates
               /\ running \in BOOLEAN /\ capture \in BOOLEAN
               /\ stopper \in {"no", "joining", "stopped"}
               /\ dropped \in Nat /\ processed \in Nat
               /\ fate \in [Items -> Fates]
               /\ rows \in [Items -> Nat]
               /\ tried \subseteq Items

(* join() waits for exactly what has been accepted and not yet finished,   *)
(* and memory is bounded by maxsize plus one batch.                        *)
JoinCountExact ==
    /\ unfinished = Len(queue) + Len(batch)
    /\ Len(queue) <= MaxSize
    /\ Len(batch) <= BatchSize

(* Every accepted payload is held once, in the queue or in the batch, and  *)
(* none is committed twice, the fallback of a full queue included.         *)
HeldOnce ==
    /\ {i \in Items : fate[i] = "held"} \subseteq Range(batch \o queue)
    /\ IsInjective(batch \o queue)
    /\ \A i \in Items : rows[i] = IF fate[i] = "stored" THEN 1 ELSE 0

(* What the runtime page shows adds up: everything counted as processed or *)
(* dropped was, and a drop is a payload that went to the fallback.         *)
CountersHonest ==
    /\ processed <= Cardinality({i \in Items : fate[i] \in {"stored", "discarded"}})
    /\ dropped + processed + Len(queue) <= Cardinality({i \in Items : fate[i] # "unsent"})

(* stop() empties the queue before it cancels the task: no accepted        *)
(* payload is left in memory, whatever failed on the way.                  *)
StopDrains ==
    stopper = "stopped" => \A i \in Items : fate[i] # "held"

(* An audit payload that is lost was at least handed to the audit writer.  *)
LostAuditsWereTried ==
    \A i \in Audits : fate[i] = "lost" => i \in tried

(* An accepted payload does not wait for ever, and stop() returns.         *)
EverythingSettles ==
    /\ \A i \in Items : fate[i] \in {"held", "direct"} ~> fate[i] \in {"stored", "lost", "discarded"}
    /\ stopper = "joining" ~> stopper = "stopped"
=============================================================================
