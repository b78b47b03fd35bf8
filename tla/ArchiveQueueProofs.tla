------------------------ MODULE ArchiveQueueProofs ------------------------
(***************************************************************************)
(* The write queue's join counter is exact, so that stop() drains it, for  *)
(* every set of payloads, every queue size and every batch size.           *)
(***************************************************************************)
EXTENDS ArchiveQueue, FiniteSetTheorems, SequenceTheorems, TLAPS

(* Splitting a sequence loses nothing, nor does putting two together.      *)
LEMMA RangeConcat ==
    ASSUME NEW S, NEW a \in Seq(S), NEW b \in Seq(S)
    PROVE  /\ a \o b \in Seq(S)
           /\ Len(a \o b) = Len(a) + Len(b)
           /\ Range(a \o b) = Range(a) \cup Range(b)
<1> DEFINE c == a \o b
<1>1. /\ c \in Seq(S) /\ Len(c) = Len(a) + Len(b)
      /\ \A i \in 1..(Len(a) + Len(b)) : c[i] = IF i <= Len(a) THEN a[i] ELSE b[i - Len(a)]
  BY ConcatProperties
<1>2. /\ Len(a) \in Nat /\ Len(b) \in Nat
      /\ DOMAIN a = 1..Len(a) /\ DOMAIN b = 1..Len(b) /\ DOMAIN c = 1..(Len(a) + Len(b))
  BY <1>1, LenProperties
<1> HIDE DEF c
<1>3. Range(c) \subseteq Range(a) \cup Range(b)
  <2> SUFFICES ASSUME NEW i \in DOMAIN c PROVE c[i] \in Range(a) \cup Range(b)
    BY DEF Range
  <2>1. CASE i <= Len(a)
    <3>1. i \in DOMAIN a /\ c[i] = a[i]
      BY <1>1, <1>2, <2>1
    <3> QED BY <3>1 DEF Range
  <2>2. CASE ~(i <= Len(a))
    <3>1. i - Len(a) \in DOMAIN b /\ c[i] = b[i - Len(a)]
      BY <1>1, <1>2, <2>2
    <3> QED BY <3>1 DEF Range
  <2> QED BY <2>1, <2>2
<1>4. Range(a) \subseteq Range(c)
  BY <1>1, <1>2 DEF Range
<1>5. Range(b) \subseteq Range(c)
  <2> SUFFICES ASSUME NEW j \in DOMAIN b PROVE b[j] \in Range(c)
    BY DEF Range
  <2>1. j + Len(a) \in DOMAIN c /\ ~(j + Len(a) <= Len(a)) /\ (j + Len(a)) - Len(a) = j
    BY <1>2
  <2>2. c[j + Len(a)] = b[j]
    BY <1>1, <1>2, <2>1
  <2> QED BY <2>1, <2>2 DEF Range
<1> QED BY <1>1, <1>3, <1>4, <1>5 DEF c

(* Cutting a sequence in two loses none of its elements. *)
LEMMA RangeSplit ==
    ASSUME NEW S, NEW q \in Seq(S), NEW k \in 1..Len(q)
    PROVE  /\ SubSeq(q, 1, k) \in Seq(S) /\ Len(SubSeq(q, 1, k)) = k
           /\ SubSeq(q, k + 1, Len(q)) \in Seq(S)
           /\ Len(SubSeq(q, k + 1, Len(q))) = Len(q) - k
           /\ Range(q) = Range(SubSeq(q, 1, k)) \cup Range(SubSeq(q, k + 1, Len(q)))
<1> DEFINE l == SubSeq(q, 1, k)
           r == SubSeq(q, k + 1, Len(q))
<1>1. /\ Len(q) \in Nat /\ DOMAIN q = 1..Len(q) /\ \A i \in 1..Len(q) : q[i] \in S
  BY LenProperties, ElementOfSeq
<1>2. l \in Seq(S) /\ Len(l) = k /\ \A i \in 1..k : l[i] = q[i]
  <2>1. \A i \in 1..k : q[i] \in S
    BY <1>1
  <2>2. /\ l \in Seq(S) /\ Len(l) = IF 1 <= k THEN k - 1 + 1 ELSE 0
        /\ \A i \in 1..(k - 1 + 1) : l[i] = q[1 + i - 1]
    BY <1>1, <2>1, SubSeqProperties
  <2> HIDE DEF l
  <2>3. k - 1 + 1 = k /\ \A i \in 1..k : 1 + i - 1 = i
    BY <1>1
  <2> QED BY <1>1, <2>2, <2>3
<1>3. r \in Seq(S) /\ Len(r) = Len(q) - k /\ \A i \in 1..(Len(q) - k) : r[i] = q[k + i]
  <2>1. \A i \in (k + 1)..Len(q) : q[i] \in S
    BY <1>1
  <2>2. /\ r \in Seq(S) /\ Len(r) = IF k + 1 <= Len(q) THEN Len(q) - (k + 1) + 1 ELSE 0
        /\ \A i \in 1..(Len(q) - (k + 1) + 1) : r[i] = q[(k + 1) + i - 1]
    BY <1>1, <2>1, SubSeqProperties
  <2> HIDE DEF r
  <2>3. Len(q) - (k + 1) + 1 = Len(q) - k /\ \A i \in 1..(Len(q) - k) : (k + 1) + i - 1 = k + i
    BY <1>1
  <2>4. Len(r) = Len(q) - k
    <3>1. CASE k + 1 <= Len(q)
      BY <2>2, <2>3, <3>1
    <3>2. CASE k = Len(q)
      BY <1>1, <2>2, <3>2
    <3>3. Len(q) \in Nat /\ k \in Nat /\ k <= Len(q)
      BY <1>1
    <3>4. k + 1 <= Len(q) \/ k = Len(q)
      BY <3>3
    <3> QED BY <3>1, <3>2, <3>4
  <2> QED BY <2>2, <2>3, <2>4
<1> HIDE DEF l, r
<1>4. DOMAIN l = 1..k /\ DOMAIN r = 1..(Len(q) - k)
  BY <1>2, <1>3, LenProperties
<1>5. Range(l) \cup Range(r) \subseteq Range(q)
  <2>1. \A i \in 1..(Len(q) - k) : k + i \in 1..Len(q)
    BY <1>1
  <2> QED BY <1>1, <1>2, <1>3, <1>4, <2>1 DEF Range
<1>6. Range(q) \subseteq Range(l) \cup Range(r)
  <2> SUFFICES ASSUME NEW i \in DOMAIN q PROVE q[i] \in Range(l) \cup Range(r)
    BY DEF Range
  <2>1. CASE i <= k
    <3>1. i \in DOMAIN l /\ l[i] = q[i]
      BY <1>1, <1>2, <1>4, <2>1
    <3> QED BY <3>1 DEF Range
  <2>2. CASE ~(i <= k)
    <3>1. i - k \in 1..(Len(q) - k) /\ k + (i - k) = i
      BY <1>1, <2>2
    <3>2. i - k \in DOMAIN r /\ r[i - k] = q[i]
      BY <1>3, <1>4, <3>1
    <3> QED BY <3>2 DEF Range
  <2> QED BY <2>1, <2>2
<1> QED BY <1>2, <1>3, <1>5, <1>6 DEF l, r

-----------------------------------------------------------------------------
(* The inductive invariant, in terms of what the task holds (b) and what   *)
(* it has left in the queue (q): every accepted payload is in one of them, *)
(* unfinished counts both, and neither holds a payload not yet sent.       *)
Backlog(b, q) ==
    /\ b \in Seq(Items) /\ q \in Seq(Items)
    /\ Len(b) <= BatchSize /\ Len(q) <= MaxSize
    /\ unfinished = Len(b) + Len(q)
    /\ \A i \in Items : fate[i] = "held" => i \in Range(b) \cup Range(q)
    /\ \A i \in Range(b) \cup Range(q) : fate[i] # "unsent"

(* Once the audit writer runs, the training payloads of the batch are      *)
(* settled; once stop() has returned, nothing is unfinished.               *)
AuditsRemain == worker = "audit" => \A i \in Within(Archives, batch) : fate[i] # "held"
StoppedEmpty == stopper = "stopped" => unfinished = 0

IInv == QueueTypeOK /\ Backlog(batch, queue) /\ AuditsRemain /\ StoppedEmpty

(* What a step of the task does to the fates: settle some, revive none.    *)
Settles == /\ fate' \in [Items -> Fates] /\ rows' \in [Items -> Nat]
           /\ \A i \in Items : /\ fate'[i] = "held" => fate[i] = "held"
                               /\ fate'[i] = "unsent" => fate[i] = "unsent"
Tallies == /\ processed' \in Nat /\ dropped' \in Nat /\ tried' \subseteq Items
           /\ running' \in BOOLEAN /\ capture' \in BOOLEAN
           /\ stopper' \in {"no", "joining", "stopped"}
           /\ stopper' = "stopped" => unfinished = 0

(* A finite set has a natural number of elements. *)
LEMMA Counted ==
    ASSUME NEW b \in Seq(Items), NEW S
    PROVE  Cardinality(Within(S, b)) \in Nat /\ Within(S, b) \subseteq Items
<1>1. Range(b) \subseteq Items
  BY ElementOfSeq, LenProperties DEF Range
<1>2. Within(S, b) \subseteq Items
  BY <1>1 DEF Within
<1>3. IsFiniteSet(Within(S, b))
  BY <1>2, ItemsFinite, FS_Subset
<1> QED BY <1>2, <1>3, FS_CardinalityType

(* The audits and the archives of a batch are all of it. *)
LEMMA WholeBatch ==
    ASSUME NEW b \in Seq(Items)
    PROVE  Range(b) = Within(Archives, b) \cup Within(Audits, b)
<1>1. Range(b) \subseteq Items
  BY ElementOfSeq, LenProperties DEF Range
<1> QED BY <1>1 DEF Within, Items

(* Settle leaves fate and rows well typed, and what it settles is no longer held. *)
LEMMA SettleSettles ==
    ASSUME QueueTypeOK, NEW st, NEW di, NEW lo, Settle(st, di, lo)
    PROVE  /\ Settles
           /\ \A i \in Items : i \in st \cup di \cup lo => fate'[i] # "held"
           /\ \A i \in Items : i \notin st \cup di \cup lo => fate'[i] = fate[i]
<1>1. fate \in [Items -> Fates] /\ rows \in [Items -> Nat]
  BY DEF QueueTypeOK
<1>2. ASSUME NEW i \in Items
      PROVE  fate'[i] = IF i \in st THEN "stored" ELSE IF i \in di THEN "discarded"
                        ELSE IF i \in lo THEN "lost" ELSE fate[i]
  BY DEF Settle
<1>3. fate' \in [Items -> Fates]
  <2>1. fate' = [i \in Items |-> fate'[i]]
    BY DEF Settle
  <2>2. \A i \in Items : fate'[i] \in Fates
    BY <1>1, <1>2 DEF Fates
  <2> QED BY <2>1, <2>2
<1>4. rows' \in [Items -> Nat]
  BY <1>1 DEF Settle
<1> QED BY <1>2, <1>3, <1>4 DEF Settles

(* The finally block: everything in the batch is settled by then.          *)
LEMMA EndBatchKeeps ==
    ASSUME IInv, NEW b, NEW q, Backlog(b, q), EndBatch(b, q), queue' = q, Settles, Tallies,
           \A i \in Range(b) : fate'[i] # "held"
    PROVE  IInv'
<1>1. batch' = <<>> /\ unfinished' = unfinished - Len(b) /\ worker' \in {"get", "exited"}
  BY DEF EndBatch
<1>2. Len(b) \in Nat /\ Len(q) \in Nat /\ unfinished' = Len(q)
  BY <1>1, LenProperties DEF Backlog
<1>3. /\ <<>> \in Seq(Items) /\ Len(<<>>) = 0 /\ Range(<<>>) = {}
  BY DEF Range
<1>4. QueueTypeOK'
  BY <1>1, <1>2, <1>3 DEF QueueTypeOK, IInv, Settles, Tallies, Backlog, WorkerStates
<1>5. Backlog(batch, queue)'
  <2>1. \A i \in Items : fate'[i] = "held" => i \in Range(q)
    BY DEF Backlog, Settles
  <2>2. \A i \in Range(q) : i \in Items
    BY ElementOfSeq, LenProperties DEF Range, Backlog
  <2>3. \A i \in Range(q) : fate'[i] # "unsent"
    BY <2>2 DEF Backlog, Settles
  <2> QED BY <1>1, <1>2, <1>3, <2>1, <2>3, BatchSizePositive DEF Backlog
<1>6. AuditsRemain'
  BY <1>1 DEF AuditsRemain
<1>7. StoppedEmpty'
  <2>1. stopper' = "stopped" => Len(b) = 0 /\ Len(q) = 0
    BY <1>2 DEF IInv, StoppedEmpty, Tallies, Backlog
  <2> QED BY <1>2, <2>1 DEF StoppedEmpty
<1> QED BY <1>4, <1>5, <1>6, <1>7 DEF IInv

(* The batch stays in the task's hands for another writer.                 *)
LEMMA KeepBatchKeeps ==
    ASSUME IInv, NEW b, NEW q, Backlog(b, q), batch' = b, queue' = q, UNCHANGED unfinished,
           worker' \in WorkerStates, Settles, Tallies,
           worker' = "audit" => \A i \in Within(Archives, b) : fate'[i] # "held"
    PROVE  IInv'
<1>1. QueueTypeOK'
  BY DEF QueueTypeOK, IInv, Settles, Tallies, Backlog
<1>2. Backlog(batch, queue)'
  <2>1. \A i \in Items : fate'[i] = "held" => i \in Range(b) \cup Range(q)
    BY DEF Backlog, Settles
  <2>2. \A i \in Range(b) \cup Range(q) : i \in Items
    BY ElementOfSeq, LenProperties DEF Range, Backlog
  <2>3. \A i \in Range(b) \cup Range(q) : fate'[i] # "unsent"
    BY <2>2 DEF Backlog, Settles
  <2> QED BY <2>1, <2>3 DEF Backlog
<1>3. AuditsRemain'
  BY DEF AuditsRemain, Within
<1>4. StoppedEmpty'
  BY DEF IInv, StoppedEmpty, Tallies
<1> QED BY <1>1, <1>2, <1>3, <1>4 DEF IInv

(* Once the archives of a batch are settled, going on to its audits keeps IInv. *)
LEMMA AfterTrainingKeeps ==
    ASSUME IInv, NEW b, NEW q, Backlog(b, q), AfterTraining(b, q), queue' = q, Settles, Tallies,
           \A i \in Within(Archives, b) : fate'[i] # "held"
    PROVE  IInv'
<1>1. CASE Within(Audits, b) = {} /\ EndBatch(b, q)
  <2>1. \A i \in Range(b) : fate'[i] # "held"
    BY <1>1, WholeBatch DEF Backlog
  <2> QED BY <1>1, <2>1, EndBatchKeeps
<1>2. CASE worker' = "audit" /\ batch' = b /\ UNCHANGED unfinished
  BY <1>2, KeepBatchKeeps DEF WorkerStates
<1> QED BY <1>1, <1>2 DEF AfterTraining

(* Beginning to write a complete batch keeps IInv. *)
LEMMA BeginWriteKeeps ==
    ASSUME IInv, NEW b, NEW q, Backlog(b, q), BeginWrite(b, q), queue' = q,
           UNCHANGED <<running, stopper, dropped, capture>>
    PROVE  IInv'
<1>1. CASE /\ worker' = "training" /\ batch' = b
           /\ UNCHANGED <<unfinished, processed, outcome>>
  <2>1. Settles /\ Tallies
    BY <1>1 DEF IInv, QueueTypeOK, Settles, Tallies, StoppedEmpty, outcome
  <2> QED BY <1>1, <2>1, KeepBatchKeeps DEF WorkerStates
<1>2. CASE /\ processed' = processed + (IF capture THEN Cardinality(Within(Archives, b)) ELSE 0)
           /\ Settle({}, Within(Archives, b), {}) /\ UNCHANGED tried
           /\ AfterTraining(b, q)
  <2>1. Cardinality(Within(Archives, b)) \in Nat /\ Within(Archives, b) \subseteq Items
    BY Counted DEF Backlog
  <2>2. Settles /\ \A i \in Within(Archives, b) : fate'[i] # "held"
    BY <1>2, <2>1, SettleSettles DEF IInv
  <2>3. Tallies
    BY <1>2, <2>1 DEF IInv, QueueTypeOK, Tallies, StoppedEmpty
  <2> QED BY <1>2, <2>2, <2>3, AfterTrainingKeeps
<1> QED BY <1>1, <1>2 DEF BeginWrite

(* A step that leaves queue, batch and join counter alone.                 *)
LEMMA AsideKeeps ==
    ASSUME IInv, UNCHANGED <<queue, batch, unfinished>>, worker' \in WorkerStates,
           worker' = "audit" => worker = "audit", Settles, Tallies
    PROVE  IInv'
<1>1. Backlog(batch, queue) /\ batch \in Seq(Items)
  BY DEF IInv, QueueTypeOK
<1>2. Within(Archives, batch) \subseteq Items
  BY <1>1, Counted
<1>3. worker' = "audit" => \A i \in Within(Archives, batch) : fate'[i] # "held"
  BY <1>2 DEF IInv, AuditsRemain, Settles
<1> QED BY <1>1, <1>3, KeepBatchKeeps

(* A change of everything but the fates.                                   *)
LEMMA SameFates ==
    ASSUME IInv, UNCHANGED <<fate, rows>>
    PROVE  Settles
BY DEF IInv, QueueTypeOK, Settles

(* Taking items off the queue keeps IInv: they move into the batch. *)
LEMMA CollectKeeps ==
    ASSUME IInv, CollectBatch
    PROVE  IInv'
<1>1. PICK k \in 1..Len(queue) :
          LET b == batch \o SubSeq(queue, 1, k)
              q == SubSeq(queue, k + 1, Len(queue))
          IN  /\ Len(b) <= BatchSize
              /\ queue' = q
              /\ \/ /\ q = <<>> /\ Len(b) < BatchSize
                    /\ worker' = "collect" /\ batch' = b
                    /\ UNCHANGED <<unfinished, processed, outcome>>
                 \/ BeginWrite(b, q)
  BY DEF CollectBatch
<1> DEFINE l == SubSeq(queue, 1, k)
           b == batch \o l
           q == SubSeq(queue, k + 1, Len(queue))
<1>2. queue \in Seq(Items) /\ batch \in Seq(Items) /\ Backlog(batch, queue)
  BY DEF IInv, QueueTypeOK
<1>3. /\ l \in Seq(Items) /\ Len(l) = k /\ q \in Seq(Items) /\ Len(q) = Len(queue) - k
      /\ Range(queue) = Range(l) \cup Range(q)
  BY <1>2, RangeSplit
<1> HIDE DEF l, q
<1>4. b \in Seq(Items) /\ Len(b) = Len(batch) + Len(l) /\ Range(b) = Range(batch) \cup Range(l)
  <2>1. \A x, y \in Seq(Items) : /\ x \o y \in Seq(Items) /\ Len(x \o y) = Len(x) + Len(y)
                                 /\ Range(x \o y) = Range(x) \cup Range(y)
    BY RangeConcat
  <2> QED BY <1>2, <1>3, <2>1, Zenon
<1> HIDE DEF b
<1>5. Range(b) \cup Range(q) = Range(batch) \cup Range(queue)
  BY <1>3, <1>4
<1>6. Len(b) <= BatchSize /\ queue' = q
  BY <1>1 DEF b, l, q
<1>7. Backlog(b, q)
  <2>1. Len(queue) \in Nat /\ Len(batch) \in Nat /\ k \in Nat /\ k <= Len(queue)
    BY <1>2, LenProperties
  <2>2. Len(b) + Len(q) = unfinished /\ Len(q) <= MaxSize
    BY <1>2, <1>3, <1>4, <2>1, MaxSizePositive DEF Backlog
  <2> QED BY <1>2, <1>3, <1>4, <1>5, <1>6, <2>2 DEF Backlog
<1>8. UNCHANGED <<running, stopper, dropped, capture>>
  BY DEF CollectBatch
<1>9. CASE /\ worker' = "collect" /\ batch' = b
           /\ UNCHANGED <<unfinished, processed, outcome>>
  <2>1. Settles
    BY <1>9, SameFates DEF outcome
  <2>2. Tallies
    BY <1>8, <1>9 DEF Tallies, IInv, QueueTypeOK, StoppedEmpty, outcome
  <2> QED BY <1>6, <1>7, <1>9, <2>1, <2>2, KeepBatchKeeps DEF WorkerStates
<1>10. CASE BeginWrite(b, q)
  BY <1>6, <1>7, <1>8, <1>10, BeginWriteKeeps
<1>11. \/ /\ worker' = "collect" /\ batch' = b
          /\ UNCHANGED <<unfinished, processed, outcome>>
       \/ BeginWrite(b, q)
  BY <1>1 DEF b, l, q
<1> QED BY <1>9, <1>10, <1>11

(* The three outcomes of the training writer keep IInv. *)
LEMMA TrainingWrittenKeeps ==
    ASSUME IInv, TrainingWritten
    PROVE  IInv'
<1> DEFINE archives == Within(Archives, batch)
           audits == Within(Audits, batch)
<1>1. batch \in Seq(Items) /\ Backlog(batch, queue) /\ QueueTypeOK
  BY DEF IInv, QueueTypeOK
<1>2. /\ archives \subseteq Items /\ audits \subseteq Items /\ Cardinality(archives) \in Nat
      /\ Range(batch) = archives \cup audits
  BY <1>1, Counted, WholeBatch
<1>3. /\ queue' = queue /\ tried' = tried \cup archives
      /\ UNCHANGED <<running, stopper, dropped, capture>>
  BY DEF TrainingWritten
<1>4. \/ /\ Settle(archives \ Rowless, archives \cap Rowless, {})
         /\ processed' = processed + Cardinality(archives)
         /\ AfterTraining(batch, queue)
      \/ /\ \/ Settle(archives \ Rowless, archives \cap Rowless, audits)
            \/ Settle({}, archives \cap Rowless, audits \cup archives)
         /\ EndBatch(batch, queue)
         /\ UNCHANGED processed
  BY DEF TrainingWritten
<1> HIDE DEF archives, audits
<1>5. ASSUME processed' \in Nat PROVE Tallies
  BY <1>1, <1>2, <1>3, <1>5 DEF Tallies, QueueTypeOK, IInv, StoppedEmpty
<1>6. CASE /\ Settle(archives \ Rowless, archives \cap Rowless, {})
           /\ processed' = processed + Cardinality(archives)
           /\ AfterTraining(batch, queue)
  <2>1. Settles /\ \A i \in archives : fate'[i] # "held"
    BY <1>1, <1>2, <1>6, SettleSettles
  <2>2. Tallies
    BY <1>1, <1>2, <1>5, <1>6 DEF QueueTypeOK
  <2> QED BY <1>1, <1>3, <1>6, <2>1, <2>2, AfterTrainingKeeps DEF archives
<1>7. CASE /\ \/ Settle(archives \ Rowless, archives \cap Rowless, audits)
              \/ Settle({}, archives \cap Rowless, audits \cup archives)
           /\ EndBatch(batch, queue)
           /\ UNCHANGED processed
  <2>1. Settles /\ \A i \in Range(batch) : fate'[i] # "held"
    BY <1>1, <1>2, <1>7, SettleSettles
  <2>2. Tallies
    BY <1>1, <1>5, <1>7 DEF QueueTypeOK
  <2> QED BY <1>1, <1>3, <1>7, <2>1, <2>2, EndBatchKeeps
<1> QED BY <1>4, <1>6, <1>7

(* The two outcomes of the audit writer keep IInv. *)
LEMMA AuditsWrittenKeeps ==
    ASSUME IInv, AuditsWritten
    PROVE  IInv'
<1> DEFINE audits == Within(Audits, batch)
<1>1. batch \in Seq(Items) /\ Backlog(batch, queue) /\ QueueTypeOK
  BY DEF IInv, QueueTypeOK
<1>2. /\ audits \subseteq Items /\ Cardinality(audits) \in Nat
      /\ Range(batch) = Within(Archives, batch) \cup audits /\ Within(Archives, batch) \subseteq Items
  BY <1>1, Counted, WholeBatch
<1>3. /\ queue' = queue /\ tried' = tried \cup audits /\ EndBatch(batch, queue)
      /\ UNCHANGED <<running, stopper, dropped, capture>>
      /\ \A i \in Within(Archives, batch) : fate[i] # "held"
  BY DEF AuditsWritten, IInv, AuditsRemain
<1>4. \/ Settle(audits, {}, {}) /\ processed' = processed + Cardinality(audits)
      \/ Settle({}, {}, audits) /\ UNCHANGED processed
  BY DEF AuditsWritten
<1> HIDE DEF audits
<1>5. Settles /\ \A i \in audits : fate'[i] # "held"
  BY <1>1, <1>2, <1>4, SettleSettles
<1>6. \A i \in Range(batch) : fate'[i] # "held"
  BY <1>2, <1>3, <1>5 DEF Settles
<1>7. Tallies
  BY <1>1, <1>2, <1>3, <1>4 DEF Tallies, QueueTypeOK, IInv, StoppedEmpty
<1> QED BY <1>1, <1>3, <1>5, <1>6, <1>7, EndBatchKeeps

(* A payload that is accepted or dropped keeps IInv. *)
LEMMA EnqueueKeeps ==
    ASSUME IInv, NEW i \in Items, Enqueue(i)
    PROVE  IInv'
<1>1. /\ queue \in Seq(Items) /\ batch \in Seq(Items) /\ Backlog(batch, queue) /\ QueueTypeOK
      /\ Len(queue) \in Nat /\ Len(batch) \in Nat
  BY LenProperties DEF IInv, QueueTypeOK
<1>2. /\ stopper = "no" /\ fate[i] = "unsent"
      /\ UNCHANGED <<batch, worker, running, stopper, processed, capture, rows, tried>>
  BY DEF Enqueue
<1>3. i \notin Range(batch) \cup Range(queue)
  BY <1>1, <1>2 DEF Backlog
<1>4. Within(Archives, batch) \subseteq Items /\ i \notin Within(Archives, batch)
  BY <1>1, <1>3, Counted DEF Within
<1>5. ASSUME NEW f \in {"held", "direct"}, fate' = [fate EXCEPT ![i] = f]
      PROVE  /\ fate' \in [Items -> Fates] /\ fate'[i] = f
             /\ \A j \in Items : j # i => fate'[j] = fate[j]
  BY <1>1, <1>5 DEF QueueTypeOK, Fates
<1>6. CASE Accept(i)
  <2>1. /\ Len(queue) < MaxSize /\ queue' = Append(queue, i)
        /\ unfinished' = unfinished + 1 /\ dropped' = dropped
        /\ fate' \in [Items -> Fates] /\ fate'[i] = "held"
        /\ \A j \in Items : j # i => fate'[j] = fate[j]
    BY <1>5, <1>6 DEF Accept
  <2>2. /\ queue' \in Seq(Items) /\ Len(queue') = Len(queue) + 1
        /\ Range(queue') = Range(queue) \cup {i}
    <3>1. <<i>> \in Seq(Items) /\ Len(<<i>>) = 1 /\ Range(<<i>>) = {i}
      BY DEF Range
    <3>2. Append(queue, i) = queue \o <<i>>
      BY <1>1, AppendIsConcat
    <3>3. \A x, y \in Seq(Items) : /\ x \o y \in Seq(Items) /\ Len(x \o y) = Len(x) + Len(y)
                                   /\ Range(x \o y) = Range(x) \cup Range(y)
      BY RangeConcat
    <3>4. queue \o <<i>> \in Seq(Items) /\ Len(queue \o <<i>>) = Len(queue) + Len(<<i>>)
          /\ Range(queue \o <<i>>) = Range(queue) \cup Range(<<i>>)
      BY <1>1, <3>1, <3>3, Zenon
    <3>5. queue' = queue \o <<i>>
      BY <2>1, <3>2
    <3> QED BY <3>1, <3>4, <3>5, Zenon
  <2>3. QueueTypeOK'
    BY <1>1, <1>2, <2>1, <2>2 DEF QueueTypeOK
  <2>4. Backlog(batch, queue)'
    <3>1. Range(batch) \cup Range(queue) \subseteq Items
      BY <1>1, ElementOfSeq, LenProperties DEF Range
    <3>2. unfinished' = Len(batch) + Len(queue') /\ Len(queue') <= MaxSize
      BY <1>1, <2>1, <2>2, MaxSizePositive DEF Backlog
    <3>3. \A j \in Items : fate'[j] = "held" => j \in Range(batch) \cup Range(queue')
      BY <1>1, <2>1, <2>2 DEF Backlog
    <3>4. \A j \in Range(batch) \cup Range(queue') : fate'[j] # "unsent"
      BY <1>1, <2>1, <2>2, <3>1 DEF Backlog
    <3> QED BY <1>1, <1>2, <2>2, <3>2, <3>3, <3>4 DEF Backlog
  <2>5. AuditsRemain'
    BY <1>2, <1>4, <2>1 DEF AuditsRemain, IInv, Within
  <2>6. StoppedEmpty'
    BY <1>2 DEF StoppedEmpty
  <2> QED BY <2>3, <2>4, <2>5, <2>6 DEF IInv
<1>7. CASE Drop(i)
  <2>1. /\ fate' \in [Items -> Fates] /\ fate'[i] = "direct"
        /\ \A j \in Items : j # i => fate'[j] = fate[j]
        /\ dropped' = dropped + 1 /\ UNCHANGED <<queue, unfinished>>
    BY <1>5, <1>7 DEF Drop
  <2>2. Settles
    BY <1>1, <1>2, <2>1 DEF Settles, QueueTypeOK
  <2>3. Tallies
    BY <1>1, <1>2, <2>1 DEF Tallies, QueueTypeOK
  <2> QED BY <1>1, <1>2, <2>1, <2>2, <2>3, AsideKeeps DEF QueueTypeOK
<1> QED BY <1>6, <1>7 DEF Enqueue

(* The fallback task touches no held payload. *)
LEMMA DirectWriteKeeps ==
    ASSUME IInv, NEW i \in Items, DirectWrite(i)
    PROVE  IInv'
<1>1. QueueTypeOK /\ fate[i] = "direct" /\ tried' = tried \cup {i}
      /\ UNCHANGED <<queue, unfinished, batch, worker, running, stopper, dropped,
                     processed, capture>>
  BY DEF IInv, DirectWrite
<1>2. PICK f \in {"stored", "lost", "discarded"} : fate' = [fate EXCEPT ![i] = f]
  BY DEF DirectWrite
<1>3. rows' \in [Items -> Nat]
  BY <1>1 DEF DirectWrite, QueueTypeOK
<1>4. Settles
  BY <1>1, <1>2, <1>3 DEF Settles, QueueTypeOK, Fates
<1>5. Tallies
  BY <1>1 DEF Tallies, QueueTypeOK, IInv, StoppedEmpty
<1> QED BY <1>1, <1>4, <1>5, AsideKeeps DEF QueueTypeOK

-----------------------------------------------------------------------------
(* The initial states satisfy IInv. *)
LEMMA InitIInv == QueueInit => IInv
<1> SUFFICES ASSUME QueueInit PROVE IInv
  OBVIOUS
<1>1. /\ <<>> \in Seq(Items) /\ Len(<<>>) = 0 /\ Range(<<>>) = {}
  BY DEF Range
<1>2. QueueTypeOK
  BY <1>1 DEF QueueInit, QueueTypeOK, WorkerStates, Fates
<1>3. Backlog(batch, queue)
  BY <1>1, MaxSizePositive, BatchSizePositive DEF QueueInit, Backlog
<1>4. AuditsRemain /\ StoppedEmpty
  BY DEF QueueInit, AuditsRemain, StoppedEmpty
<1> QED BY <1>2, <1>3, <1>4 DEF IInv

(* Every step keeps IInv: one step of the proof per action. *)
LEMMA NextKeepsIInv == IInv /\ [QueueNext]_queueVars => IInv'
<1> SUFFICES ASSUME IInv, [QueueNext]_queueVars PROVE IInv'
  OBVIOUS
<1>1. CASE UNCHANGED queueVars
  BY <1>1 DEF IInv, QueueTypeOK, Backlog, AuditsRemain, StoppedEmpty, Within, queueVars
<1>2. CASE CollectBatch
  BY <1>2, CollectKeeps
<1>3. CASE FlushTimeout
  BY <1>3, BeginWriteKeeps DEF FlushTimeout, IInv
<1>4. CASE TrainingWritten
  BY <1>4, TrainingWrittenKeeps
<1>5. CASE AuditsWritten
  BY <1>5, AuditsWrittenKeeps
<1>6. ASSUME NEW i \in Items, Enqueue(i) PROVE IInv'
  BY <1>6, EnqueueKeeps
<1>7. ASSUME NEW i \in Items, DirectWrite(i) PROVE IInv'
  BY <1>7, DirectWriteKeeps
<1>8. CASE SetCapture
  <2>1. Settles /\ Tallies
    BY <1>8, SameFates DEF SetCapture, outcome, Tallies, IInv, QueueTypeOK, StoppedEmpty
  <2> QED BY <1>8, <2>1, AsideKeeps DEF SetCapture, IInv, QueueTypeOK
<1>9. CASE StopBegin
  <2>1. Settles /\ Tallies
    BY <1>9, SameFates DEF StopBegin, outcome, Tallies, IInv, QueueTypeOK, StoppedEmpty
  <2> QED BY <1>9, <2>1, AsideKeeps DEF StopBegin, IInv, QueueTypeOK
<1>10. CASE StopEnd
  <2>1. Settles /\ Tallies
    BY <1>10, SameFates DEF StopEnd, outcome, Tallies, IInv, QueueTypeOK, StoppedEmpty
  <2>2. worker' \in WorkerStates /\ (worker' = "audit" => worker = "audit")
    BY <1>10 DEF StopEnd, Cancel, WorkerStates
  <2> QED BY <1>10, <2>1, <2>2, AsideKeeps DEF StopEnd
<1> QED BY <1>1, <1>2, <1>3, <1>4, <1>5, <1>6, <1>7, <1>8, <1>9, <1>10 DEF QueueNext, WorkerStep

(* The invariant holds in every state the queue reaches.                   *)
THEOREM Invariant == QueueSpec => []IInv
BY InitIInv, NextKeepsIInv, PTL DEF QueueSpec

(* Every variable keeps its type; the join counter, in particular, is      *)
(* never taken below zero, where asyncio's task_done() would raise.        *)
THEOREM TypeCorrect == QueueSpec => []QueueTypeOK
<1>1. IInv => QueueTypeOK
  BY DEF IInv
<1> QED BY <1>1, Invariant, PTL

(* _run calls task_done() once for each item it took, whatever the writers *)
(* raise, and the backlog is bounded by ARCHIVE_QUEUE_MAX_SIZE and a batch.*)
THEOREM JoinCountCorrect == QueueSpec => []JoinCountExact
<1>1. IInv => JoinCountExact
  <2> SUFFICES ASSUME IInv PROVE JoinCountExact
    OBVIOUS
  <2>1. Len(batch) \in Nat /\ Len(queue) \in Nat
    BY LenProperties DEF IInv, QueueTypeOK
  <2> QED BY <2>1 DEF IInv, Backlog, JoinCountExact
<1> QED BY <1>1, Invariant, PTL

(* When stop() has returned, no accepted payload is left in memory: join() *)
(* waited for the queue and for the batch in the writers' hands.           *)
THEOREM StopLosesNothing == QueueSpec => []StopDrains
<1>1. IInv => StopDrains
  <2> SUFFICES ASSUME IInv, stopper = "stopped", NEW i \in Items PROVE fate[i] # "held"
    BY DEF StopDrains
  <2>1. /\ batch \in Seq(Items) /\ queue \in Seq(Items)
        /\ Len(batch) \in Nat /\ Len(queue) \in Nat /\ Len(batch) + Len(queue) = 0
    BY LenProperties DEF IInv, QueueTypeOK, Backlog, StoppedEmpty
  <2>2. batch = <<>> /\ queue = <<>>
    BY <2>1, EmptySeq
  <2>3. Range(batch) = {} /\ Range(queue) = {}
    BY <2>2 DEF Range
  <2> QED BY <2>3 DEF IInv, Backlog
<1> QED BY <1>1, Invariant, PTL

-----------------------------------------------------------------------------
(* Two sequences hold each element once when each does and they share none. *)
Apart(b, q) == IsInjective(b) /\ IsInjective(q) /\ Range(b) \cap Range(q) = {}

LEMMA ApartConcat ==
    ASSUME NEW S, NEW a \in Seq(S), NEW b \in Seq(S)
    PROVE  Apart(a, b) <=> IsInjective(a \o b)
<1> DEFINE c == a \o b
<1>1. /\ Len(a) \in Nat /\ Len(b) \in Nat
      /\ DOMAIN a = 1..Len(a) /\ DOMAIN b = 1..Len(b)
      /\ c \in Seq(S) /\ Len(c) = Len(a) + Len(b)
      /\ \A i \in 1..(Len(a) + Len(b)) : c[i] = IF i <= Len(a) THEN a[i] ELSE b[i - Len(a)]
  BY ConcatProperties, LenProperties
<1> HIDE DEF c
<1>2. DOMAIN c = 1..(Len(a) + Len(b))  BY <1>1, LenProperties
<1>3. \A i \in DOMAIN a : i \in DOMAIN c /\ c[i] = a[i]  BY <1>1, <1>2
<1>4. \A j \in DOMAIN b : j + Len(a) \in DOMAIN c /\ c[j + Len(a)] = b[j]
  <2> TAKE j \in DOMAIN b
  <2>1. j \in Nat /\ j >= 1 /\ j + Len(a) \in 1..(Len(a) + Len(b)) /\ ~(j + Len(a) <= Len(a))
        /\ (j + Len(a)) - Len(a) = j
    BY <1>1
  <2> QED  BY <1>1, <1>2, <2>1
<1>5. ASSUME NEW k \in DOMAIN c
      PROVE  \/ k \in DOMAIN a /\ c[k] = a[k]
             \/ k - Len(a) \in DOMAIN b /\ c[k] = b[k - Len(a)] /\ k \in Int
  <2>1. CASE k <= Len(a)  BY <1>1, <1>2, <2>1
  <2>2. CASE ~(k <= Len(a))
    <3>1. k - Len(a) \in 1..Len(b)  BY <1>1, <1>2, <2>2
    <3> QED  BY <1>1, <1>2, <2>2, <3>1
  <2> QED  BY <2>1, <2>2
<1>6. ASSUME Apart(a, b) PROVE IsInjective(c)
  <2> SUFFICES ASSUME NEW k \in DOMAIN c, NEW m \in DOMAIN c, c[k] = c[m] PROVE k = m
    BY DEF IsInjective
  <2>1. \A i \in DOMAIN a, j \in DOMAIN b : a[i] # b[j]  BY <1>6 DEF Apart, Range
  <2>2. CASE k \in DOMAIN a /\ c[k] = a[k] /\ m \in DOMAIN a /\ c[m] = a[m]
    BY <1>6, <2>2 DEF Apart, IsInjective
  <2>3. CASE /\ k - Len(a) \in DOMAIN b /\ c[k] = b[k - Len(a)] /\ k \in Int
             /\ m - Len(a) \in DOMAIN b /\ c[m] = b[m - Len(a)] /\ m \in Int
    <3>1. k - Len(a) = m - Len(a)  BY <1>6, <2>3 DEF Apart, IsInjective
    <3> QED  BY <1>1, <2>3, <3>1
  <2> QED  BY <1>5, <2>1, <2>2, <2>3
<1>7. ASSUME IsInjective(c) PROVE Apart(a, b)
  <2>1. IsInjective(a)  BY <1>3, <1>7 DEF IsInjective
  <2>2. IsInjective(b)
    <3> SUFFICES ASSUME NEW i \in DOMAIN b, NEW j \in DOMAIN b, b[i] = b[j] PROVE i = j
      BY DEF IsInjective
    <3>1. i + Len(a) = j + Len(a)  BY <1>4, <1>7 DEF IsInjective
    <3> QED  BY <1>1, <3>1
  <2>3. ASSUME NEW i \in DOMAIN a, NEW j \in DOMAIN b, a[i] = b[j] PROVE FALSE
    <3>1. i = j + Len(a)  BY <1>3, <1>4, <1>7, <2>3 DEF IsInjective
    <3> QED  BY <1>1, <3>1
  <2> QED  BY <2>1, <2>2, <2>3 DEF Apart, Range
<1> QED  BY <1>6, <1>7 DEF c

(* A sequence that holds each element once is as long as it has elements.  *)
LEMMA InjectiveLength ==
    ASSUME NEW S, NEW s \in Seq(S), IsInjective(s)
    PROVE  Cardinality(Range(s)) = Len(s)
<1>1. Len(s) \in Nat /\ s \in [1..Len(s) -> S] /\ DOMAIN s = 1..Len(s)
  BY LenProperties
<1>2. s \in Bijection(1..Len(s), Range(s))
  <2>1. s \in [1..Len(s) -> Range(s)]  BY <1>1 DEF Range
  <2>2. s \in Injection(1..Len(s), Range(s))  BY <2>1 DEF Injection
  <2>3. s \in Surjection(1..Len(s), Range(s))  BY <1>1, <2>1 DEF Surjection, Range
  <2> QED  BY <2>2, <2>3 DEF Bijection
<1>3. ExistsBijection(1..Len(s), Range(s))  BY <1>2 DEF ExistsBijection
<1> QED  BY <1>1, <1>3, FS_CountingElements

-----------------------------------------------------------------------------
(* Which payloads are where, beside IInv: everything the task holds is held *)
(* once and not yet settled, but for the archives that the audits of their  *)
(* batch come after.                                                       *)
Placed ==
    /\ Apart(batch, queue)
    /\ \A i \in Range(queue) : fate[i] = "held"
    /\ \A i \in Range(batch) : fate[i] = "held" \/ (worker = "audit" /\ i \in Archives)

RowsCounted == \A i \in Items : rows[i] = IF fate[i] = "stored" THEN 1 ELSE 0

Having(F) == {i \in Items : fate[i] \in F}

(* The counters, with what is held in the place of the queue's length: a    *)
(* batch is still held when it has left the queue.                         *)
Counters ==
    /\ processed <= Cardinality(Having({"stored", "discarded"}))
    /\ dropped + processed + Cardinality(Having({"held"}))
          <= Cardinality(Having(Fates \ {"unsent"}))

(* A step settles the payloads of X, which were held, and counts those of Y *)
(* as processed.                                                           *)
Pays(X, Y) ==
    /\ X \subseteq Items /\ Y \subseteq X
    /\ \A i \in X : fate[i] = "held" /\ fate'[i] \in {"stored", "discarded", "lost"}
    /\ \A i \in Y : fate'[i] # "lost"
    /\ \A i \in Items \ X : fate'[i] = fate[i]
    /\ \A i \in Items : rows'[i] = IF i \in X /\ fate'[i] = "stored" THEN rows[i] + 1 ELSE rows[i]
    /\ processed' = processed + Cardinality(Y) /\ dropped' = dropped

LEMMA Countable ==
    ASSUME NEW X \in SUBSET Items
    PROVE  IsFiniteSet(X) /\ Cardinality(X) \in Nat
BY ItemsFinite, FS_Subset, FS_CardinalityType

LEMMA NoneCounted == Cardinality({}) = 0
BY FS_EmptySet

LEMMA SettlePays ==
    ASSUME QueueTypeOK, NEW st, NEW di, NEW lo, NEW Y, Settle(st, di, lo),
           st \cup di \cup lo \subseteq Items, Y \subseteq st \cup di,
           \A i \in st \cup di \cup lo : fate[i] = "held",
           processed' = processed + Cardinality(Y), dropped' = dropped
    PROVE  Pays(st \cup di \cup lo, Y)
<1>1. ASSUME NEW i \in Items
      PROVE  /\ fate'[i] = IF i \in st THEN "stored" ELSE IF i \in di THEN "discarded"
                           ELSE IF i \in lo THEN "lost" ELSE fate[i]
             /\ rows'[i] = IF i \in st THEN rows[i] + 1 ELSE rows[i]
  BY DEF Settle
<1> QED  BY <1>1 DEF Pays

LEMMA PaysRows == ASSUME RowsCounted, NEW X, NEW Y, Pays(X, Y) PROVE RowsCounted'
<1> SUFFICES ASSUME NEW i \in Items
             PROVE  rows'[i] = IF fate'[i] = "stored" THEN 1 ELSE 0
  BY DEF RowsCounted
<1>1. rows[i] = IF fate[i] = "stored" THEN 1 ELSE 0  BY DEF RowsCounted
<1>2. CASE i \in X  BY <1>1, <1>2 DEF Pays
<1>3. CASE i \notin X  BY <1>1, <1>3 DEF Pays
<1> QED  BY <1>2, <1>3

(* What is settled is no longer held; what is counted had not been stored  *)
(* or discarded before.                                                    *)
LEMMA PaysCounters ==
    ASSUME QueueTypeOK, Counters, NEW X, NEW Y, Pays(X, Y)
    PROVE  Counters'
<1> DEFINE H == Having({"held"})
           D == Having({"stored", "discarded"})
           E == Having(Fates \ {"unsent"})
<1>1. \A i \in Items : fate[i] \in Fates  BY DEF QueueTypeOK
<1>2. X \subseteq H /\ Y \subseteq X /\ Y \cap D = {}
  BY DEF Pays, Having
<1>3. H' = H \ X
  BY DEF Pays, Having
<1>4. D \cup Y \subseteq D'
  BY DEF Pays, Having
<1>5. E' = E
  BY <1>1 DEF Pays, Having, Fates
<1>6. H \subseteq Items /\ D \subseteq Items /\ E \subseteq Items /\ D' \subseteq Items
  BY DEF Having
<1> HIDE DEF H, D, E
<1>7. X \subseteq Items /\ Y \subseteq Items  BY <1>2, <1>6
<1>8. /\ IsFiniteSet(H) /\ IsFiniteSet(D) /\ IsFiniteSet(Y) /\ IsFiniteSet(X) /\ IsFiniteSet(D')
      /\ Cardinality(H) \in Nat /\ Cardinality(D) \in Nat /\ Cardinality(Y) \in Nat
      /\ Cardinality(X) \in Nat /\ Cardinality(D') \in Nat /\ Cardinality(E) \in Nat
  BY <1>6, <1>7, Countable
<1>9. Cardinality(H') = Cardinality(H) - Cardinality(X)
  <2>1. Cardinality(H \ X) = Cardinality(H) - Cardinality(H \cap X)  BY <1>8, FS_Difference
  <2>2. H \cap X = X  BY <1>2
  <2>3. Cardinality(H') = Cardinality(H \ X)  BY <1>3
  <2> QED  BY <2>1, <2>2, <2>3
<1>10. Cardinality(D) + Cardinality(Y) <= Cardinality(D')
  <2>1. D \cap Y = {}  BY <1>2
  <2>2. Cardinality(D \cup Y) = Cardinality(D) + Cardinality(Y) - 0
    BY <1>8, <2>1, FS_Union, NoneCounted
  <2>3. Cardinality(D \cup Y) <= Cardinality(D')  BY <1>4, <1>8, FS_Subset
  <2> QED  BY <1>8, <2>2, <2>3
<1>11. Cardinality(Y) <= Cardinality(X)  BY <1>2, <1>8, FS_Subset
<1>12. processed \in Nat /\ dropped \in Nat /\ processed' = processed + Cardinality(Y) /\ dropped' = dropped
  BY DEF QueueTypeOK, Pays
<1>13. processed <= Cardinality(D) /\ dropped + processed + Cardinality(H) <= Cardinality(E)
  BY DEF Counters, H, D, E
<1>14. processed' <= Cardinality(D')  BY <1>8, <1>10, <1>12, <1>13
<1>15. dropped' + processed' + Cardinality(H') <= Cardinality(E')
  <2>1. Cardinality(E') = Cardinality(E)  BY <1>5
  <2> QED  BY <1>8, <1>9, <1>11, <1>12, <1>13, <2>1
<1> QED  BY <1>14, <1>15 DEF Counters, H, D, E

HeldInv == Placed /\ RowsCounted /\ Counters

(* The task's steps, in terms of the batch b and what q is left behind it. *)
Untouched(b, q) == Apart(b, q) /\ \A i \in Range(b) \cup Range(q) : i \in Items /\ fate[i] = "held"

LEMMA UntouchedKept ==
    ASSUME NEW b, NEW q, Untouched(b, q), UNCHANGED <<processed, dropped, outcome>>,
           RowsCounted, Counters, batch' = b, queue' = q
    PROVE  HeldInv'
<1>1. Placed'  BY DEF Untouched, Placed, Apart, outcome
<1>2. RowsCounted' /\ Counters'  BY DEF RowsCounted, Counters, Having, outcome
<1> QED  BY <1>1, <1>2 DEF HeldInv

(* What is paid for is in the batch, so that the queue is as it was; the   *)
(* batch is given up, or kept for its audits.                              *)
LEMMA PaidFromBatch ==
    ASSUME QueueTypeOK, RowsCounted, Counters, NEW b, NEW q, NEW X, NEW Y, Pays(X, Y),
           Apart(b, q), X \subseteq Range(b),
           \A i \in Range(q) : i \in Items /\ fate[i] = "held",
           queue' = q,
           \/ batch' = <<>>
           \/ /\ batch' = b /\ worker' = "audit" /\ X \subseteq Archives
              /\ \A i \in Range(b) : i \in Items /\ fate[i] = "held"
    PROVE  HeldInv'
<1>1. RowsCounted' /\ Counters'  BY PaysRows, PaysCounters
<1>2. \A i \in Range(q) : fate'[i] = "held"
  <2> TAKE i \in Range(q)
  <2>1. i \in Items \ X  BY DEF Apart
  <2> QED  BY <2>1 DEF Pays
<1>3. Placed'
  <2>1. CASE batch' = <<>>
    <3>1. Apart(<<>>, q)  BY DEF Apart, IsInjective, Range
    <3>2. Range(<<>>) = {}  BY DEF Range
    <3> QED  BY <1>2, <2>1, <3>1, <3>2 DEF Placed
  <2>2. CASE /\ batch' = b /\ worker' = "audit" /\ X \subseteq Archives
             /\ \A i \in Range(b) : i \in Items /\ fate[i] = "held"
    <3>1. \A i \in Range(b) : i \in X \/ fate'[i] = "held"  BY <2>2 DEF Pays
    <3> QED  BY <1>2, <2>2, <3>1 DEF Placed
  <2> QED  BY <2>1, <2>2
<1> QED  BY <1>1, <1>3 DEF HeldInv

LEMMA BeginWriteHeld ==
    ASSUME QueueTypeOK, RowsCounted, Counters, NEW b, NEW q, Untouched(b, q), BeginWrite(b, q),
           queue' = q, dropped' = dropped
    PROVE  HeldInv'
<1> DEFINE archives == Within(Archives, b)
<1>1. /\ archives \subseteq Range(b) /\ archives \subseteq Archives /\ archives \subseteq Items
      /\ \A i \in archives : fate[i] = "held"
  BY DEF Within, Untouched
<1>2. CASE batch' = b /\ UNCHANGED <<processed, outcome>>
  BY <1>2, UntouchedKept
<1>3. CASE /\ processed' = processed + (IF capture THEN Cardinality(archives) ELSE 0)
           /\ Settle({}, archives, {}) /\ AfterTraining(b, q)
  <2>1. PICK Y \in {archives, {}} :
           processed' = processed + Cardinality(Y)
    <3>1. CASE capture  BY <1>3, <3>1
    <3>2. CASE ~capture  BY <1>3, <3>2, NoneCounted
    <3> QED  BY <3>1, <3>2
  <2> HIDE DEF archives
  <2>2. Pays({} \cup archives \cup {}, Y)  BY <1>1, <1>3, <2>1, SettlePays
  <2>3. Pays(archives, Y)
    <3>1. {} \cup archives \cup {} = archives  OBVIOUS
    <3> QED  BY <2>2, <3>1
  <2>4. batch' = <<>> \/ (batch' = b /\ worker' = "audit")
    BY <1>3 DEF AfterTraining, EndBatch
  <2> QED  BY <1>1, <2>3, <2>4, PaidFromBatch DEF Untouched
<1> QED  BY <1>2, <1>3 DEF BeginWrite, archives

LEMMA TrainingWrittenHeld ==
    ASSUME IInv, HeldInv, TrainingWritten
    PROVE  HeldInv'
<1> DEFINE archives == Within(Archives, batch)
           audits == Within(Audits, batch)
<1>1. /\ QueueTypeOK /\ RowsCounted /\ Counters /\ batch \in Seq(Items) /\ queue \in Seq(Items)
      /\ worker = "training" /\ Placed
  BY DEF IInv, HeldInv, QueueTypeOK, TrainingWritten
<1>2. Range(batch) \subseteq Items /\ Range(queue) \subseteq Items
  BY <1>1, ElementOfSeq, LenProperties DEF Range
<1>3. Untouched(batch, queue)  BY <1>1, <1>2 DEF Placed, Untouched
<1>4. /\ archives \subseteq Range(batch) /\ audits \subseteq Range(batch)
      /\ archives \subseteq Archives
  BY DEF Within
<1>5. /\ queue' = queue /\ dropped' = dropped
      /\ \/ /\ Settle(archives \ Rowless, archives \cap Rowless, {})
            /\ processed' = processed + Cardinality(archives)
            /\ AfterTraining(batch, queue)
         \/ /\ \/ Settle(archives \ Rowless, archives \cap Rowless, audits)
               \/ Settle({}, archives \cap Rowless, audits \cup archives)
            /\ EndBatch(batch, queue)
            /\ UNCHANGED processed
  BY DEF TrainingWritten
<1>6. processed \in Nat  BY <1>1 DEF QueueTypeOK
<1> HIDE DEF archives, audits
<1>7. CASE /\ Settle(archives \ Rowless, archives \cap Rowless, {})
           /\ processed' = processed + Cardinality(archives)
           /\ AfterTraining(batch, queue)
  <2> DEFINE X == (archives \ Rowless) \cup (archives \cap Rowless) \cup {}
  <2>1. X \subseteq Range(batch) /\ X \subseteq Archives /\ X \subseteq Items
        /\ archives \subseteq (archives \ Rowless) \cup (archives \cap Rowless)
        /\ \A i \in X : fate[i] = "held"
    BY <1>2, <1>3, <1>4 DEF Untouched
  <2>2. Pays(X, archives)  BY <1>1, <1>5, <1>7, <2>1, SettlePays
  <2>3. batch' = <<>> \/ (batch' = batch /\ worker' = "audit")
    BY <1>7 DEF AfterTraining, EndBatch
  <2> HIDE DEF X
  <2> QED  BY <1>1, <1>3, <1>5, <2>1, <2>2, <2>3, PaidFromBatch DEF Untouched
<1>8. ASSUME NEW st, NEW di, NEW lo, Settle(st, di, lo), st \cup di \cup lo \subseteq Range(batch),
             EndBatch(batch, queue), UNCHANGED processed
      PROVE  HeldInv'
  <2>1. Pays(st \cup di \cup lo, {})
    <3>1. processed' = processed + Cardinality({})  BY <1>6, <1>8, NoneCounted
    <3>2. \A i \in st \cup di \cup lo : i \in Items /\ fate[i] = "held"
      BY <1>3, <1>8 DEF Untouched
    <3> QED  BY <1>1, <1>5, <1>8, <3>1, <3>2, SettlePays
  <2>2. batch' = <<>>  BY <1>8 DEF EndBatch
  <2> QED  BY <1>1, <1>3, <1>5, <1>8, <2>1, <2>2, PaidFromBatch DEF Untouched
<1>9. CASE /\ \/ Settle(archives \ Rowless, archives \cap Rowless, audits)
              \/ Settle({}, archives \cap Rowless, audits \cup archives)
           /\ EndBatch(batch, queue)
           /\ UNCHANGED processed
  BY <1>4, <1>8, <1>9
<1> QED  BY <1>5, <1>7, <1>9

(* The archives of the batch are settled by now; its audits are held still. *)
LEMMA AuditsWrittenHeld ==
    ASSUME IInv, HeldInv, AuditsWritten
    PROVE  HeldInv'
<1> DEFINE audits == Within(Audits, batch)
<1>1. /\ QueueTypeOK /\ RowsCounted /\ Counters /\ batch \in Seq(Items) /\ queue \in Seq(Items) /\ Placed
  BY DEF IInv, HeldInv, QueueTypeOK
<1>2. Range(batch) \subseteq Items /\ Range(queue) \subseteq Items
  BY <1>1, ElementOfSeq, LenProperties DEF Range
<1>3. audits \subseteq Range(batch) /\ audits \subseteq Items /\ \A i \in audits : fate[i] = "held"
  BY <1>1, <1>2, KindsDisjoint DEF Within, Placed
<1>4. /\ queue' = queue /\ dropped' = dropped /\ batch' = <<>>
      /\ \/ Settle(audits, {}, {}) /\ processed' = processed + Cardinality(audits)
         \/ Settle({}, {}, audits) /\ UNCHANGED processed
  BY DEF AuditsWritten, EndBatch
<1> HIDE DEF audits
<1>5. PICK st, lo, Y : /\ Settle(st, {}, lo) /\ processed' = processed + Cardinality(Y)
                       /\ st \cup {} \cup lo = audits /\ Y \subseteq st \cup {}
  <2>1. CASE Settle(audits, {}, {}) /\ processed' = processed + Cardinality(audits)
    <3>1. audits \cup {} \cup {} = audits /\ audits \subseteq audits \cup {}  OBVIOUS
    <3> QED  BY <2>1, <3>1
  <2>2. CASE Settle({}, {}, audits) /\ UNCHANGED processed
    <3>1. {} \cup {} \cup audits = audits /\ {} \subseteq {} \cup {}  OBVIOUS
    <3>2. processed' = processed + Cardinality({})  BY <1>1, <2>2, NoneCounted DEF QueueTypeOK
    <3> QED  BY <2>2, <3>1, <3>2
  <2> QED  BY <1>4, <2>1, <2>2
<1>6. Pays(st \cup {} \cup lo, Y)
  BY <1>1, <1>3, <1>4, <1>5, SettlePays
<1>7. Pays(audits, Y)  BY <1>5, <1>6
<1> QED  BY <1>1, <1>2, <1>3, <1>4, <1>7, PaidFromBatch DEF Placed

(* What leaves the queue joins the batch: together they are what they were. *)
LEMMA CollectHeld ==
    ASSUME IInv, HeldInv, CollectBatch
    PROVE  HeldInv'
<1>1. PICK k \in 1..Len(queue) :
          LET b == batch \o SubSeq(queue, 1, k)
              q == SubSeq(queue, k + 1, Len(queue))
          IN  /\ queue' = q
              /\ \/ /\ batch' = b
                    /\ UNCHANGED <<processed, outcome>>
                 \/ BeginWrite(b, q)
  BY DEF CollectBatch
<1> DEFINE l == SubSeq(queue, 1, k)
           b == batch \o l
           q == SubSeq(queue, k + 1, Len(queue))
<1>2. /\ queue \in Seq(Items) /\ batch \in Seq(Items) /\ QueueTypeOK /\ worker # "audit"
      /\ RowsCounted /\ Counters /\ Placed /\ dropped' = dropped
  BY DEF IInv, QueueTypeOK, HeldInv, CollectBatch
<1>3. l \in Seq(Items) /\ q \in Seq(Items) /\ Range(queue) = Range(l) \cup Range(q)
  BY <1>2, RangeSplit
<1>4. l \o q = queue
  <2>1. Len(queue) \in Nat  BY <1>2, LenProperties
  <2>2. l \o q = SubSeq(queue, 1, Len(queue))
    <3>1. 1 \in 1..(Len(queue) + 1) /\ k \in (1 - 1)..Len(queue) /\ Len(queue) \in k..Len(queue)
      BY <2>1
    <3> QED  BY <1>2, <3>1, ConcatAdjacentSubSeq
  <2> QED  BY <1>2, <2>2, SubSeqFull
<1>5. queue' = q /\ ((batch' = b /\ UNCHANGED <<processed, outcome>>) \/ BeginWrite(b, q))
  BY <1>1
<1> HIDE DEF l, q
<1>6. Range(b) = Range(batch) \cup Range(l)  BY <1>2, <1>3, RangeConcat
<1>7. Untouched(b, q)
  <2>1. Apart(batch, queue) /\ Apart(l, q)  BY <1>2, <1>3, <1>4, ApartConcat DEF Placed, Apart
  <2>2. Apart(batch, l)  BY <1>3, <2>1 DEF Apart
  <2>3. IsInjective(b)  BY <1>2, <1>3, <2>2, ApartConcat
  <2>4. Apart(b, q)  BY <1>3, <1>6, <2>1, <2>3 DEF Apart
  <2>5. Range(batch) \subseteq Items /\ Range(queue) \subseteq Items
    BY <1>2, ElementOfSeq, LenProperties DEF Range
  <2>6. \A i \in Range(batch) \cup Range(queue) : fate[i] = "held"  BY <1>2 DEF Placed
  <2> QED  BY <1>3, <1>6, <2>4, <2>5, <2>6 DEF Untouched
<1> HIDE DEF b
<1> QED  BY <1>2, <1>5, <1>7, UntouchedKept, BeginWriteHeld

LEMMA FlushTimeoutHeld ==
    ASSUME IInv, HeldInv, FlushTimeout
    PROVE  HeldInv'
<1>1. /\ queue \in Seq(Items) /\ batch \in Seq(Items) /\ QueueTypeOK /\ worker # "audit"
      /\ RowsCounted /\ Counters /\ Placed /\ dropped' = dropped /\ queue' = queue
  BY DEF IInv, QueueTypeOK, HeldInv, FlushTimeout
<1>2. Range(batch) \subseteq Items /\ Range(queue) \subseteq Items
  BY <1>1, ElementOfSeq, LenProperties DEF Range
<1>3. Untouched(batch, queue)  BY <1>1, <1>2 DEF Placed, Untouched
<1> QED  BY <1>1, <1>3, BeginWriteHeld DEF FlushTimeout

LEMMA EnqueueHeld ==
    ASSUME IInv, HeldInv, NEW i \in Items, Enqueue(i)
    PROVE  HeldInv'
<1> DEFINE H == Having({"held"})
           D == Having({"stored", "discarded"})
           E == Having(Fates \ {"unsent"})
<1>1. /\ queue \in Seq(Items) /\ batch \in Seq(Items) /\ QueueTypeOK /\ fate[i] = "unsent"
      /\ RowsCounted /\ Counters /\ Placed
      /\ UNCHANGED <<batch, worker, processed, rows>>
      /\ processed \in Nat /\ dropped \in Nat
  BY DEF IInv, QueueTypeOK, HeldInv, Enqueue
<1>2. i \notin Range(batch) \cup Range(queue)  BY <1>1 DEF IInv, Backlog
<1>3. Range(batch) \subseteq Items /\ Range(queue) \subseteq Items
  BY <1>1, ElementOfSeq, LenProperties DEF Range
<1>4. i \notin H /\ i \notin D /\ i \notin E  BY <1>1 DEF Having
<1>5. ASSUME NEW f \in {"held", "direct"}, fate' = [fate EXCEPT ![i] = f],
             dropped' = dropped + (IF f = "held" THEN 0 ELSE 1)
      PROVE  /\ RowsCounted' /\ Counters'
             /\ fate'[i] = f /\ \A j \in Items \ {i} : fate'[j] = fate[j]
  <2>1. fate'[i] = f /\ \A j \in Items \ {i} : fate'[j] = fate[j]
    BY <1>1, <1>5 DEF QueueTypeOK
  <2>2. H' = IF f = "held" THEN H \cup {i} ELSE H \ {i}  BY <2>1 DEF Having
  <2>3. D' = D \ {i}  BY <2>1 DEF Having
  <2>4. E' = E \cup {i}  BY <2>1 DEF Having, Fates
  <2>5. RowsCounted'  BY <1>1, <2>1 DEF RowsCounted
  <2>6. processed <= Cardinality(D) /\ dropped + processed + Cardinality(H) <= Cardinality(E)
    BY <1>1 DEF Counters
  <2>7. H \in SUBSET Items /\ E \in SUBSET Items  BY DEF Having
  <2> HIDE DEF H, D, E
  <2>8. /\ IsFiniteSet(H) /\ Cardinality(H) \in Nat
        /\ IsFiniteSet(E) /\ Cardinality(E) \in Nat
    BY <2>7, Countable
  <2>9. D' = D  BY <1>4, <2>3
  <2>10. Cardinality(E') = Cardinality(E) + 1
    <3>1. Cardinality(E \cup {i}) = Cardinality(E) + 1  BY <1>4, <2>8, FS_AddElement
    <3> QED  BY <2>4, <3>1
  <2>11. Cardinality(H') = Cardinality(H) + (IF f = "held" THEN 1 ELSE 0)
    <3>1. Cardinality(H \cup {i}) = Cardinality(H) + 1  BY <1>4, <2>8, FS_AddElement
    <3>2. H \ {i} = H  BY <1>4
    <3>3. CASE f = "held"  BY <2>2, <3>1, <3>3
    <3>4. CASE f # "held"
      <4>1. Cardinality(H') = Cardinality(H)  BY <2>2, <3>2, <3>4
      <4> QED  BY <2>8, <3>4, <4>1
    <3> QED  BY <3>3, <3>4
  <2>12. processed' <= Cardinality(D')  BY <1>1, <2>6, <2>9
  <2>13. dropped' + processed' + Cardinality(H') <= Cardinality(E')
    BY <1>1, <1>5, <2>6, <2>8, <2>10, <2>11
  <2>14. Counters'  BY <2>12, <2>13 DEF Counters, H, D, E
  <2> QED  BY <2>1, <2>5, <2>14
<1>6. CASE Accept(i)
  <2>1. /\ RowsCounted' /\ Counters' /\ queue' = Append(queue, i)
        /\ fate'[i] = "held" /\ \A j \in Items \ {i} : fate'[j] = fate[j]
    <3>1. dropped' = dropped + 0  BY <1>1, <1>6 DEF Accept
    <3> QED  BY <1>5, <1>6, <3>1 DEF Accept
  <2>2. <<i>> \in Seq(Items) /\ Range(<<i>>) = {i} /\ IsInjective(<<i>>)
    <3>1. <<i>> \in Seq(Items) /\ DOMAIN <<i>> = {1} /\ <<i>>[1] = i  OBVIOUS
    <3> QED  BY <3>1 DEF Range, IsInjective
  <2>3. queue' = queue \o <<i>>  BY <1>1, <2>1, AppendIsConcat
  <2>4. Range(queue') = Range(queue) \cup {i}
    <3>1. Range(queue \o <<i>>) = Range(queue) \cup Range(<<i>>)
      <4> DEFINE s == <<i>>
      <4>1. queue \in Seq(Items) /\ s \in Seq(Items)  BY <1>1, <2>2
      <4> HIDE DEF s
      <4>2. Range(queue \o s) = Range(queue) \cup Range(s)  BY <4>1, RangeConcat
      <4> QED  BY <4>2 DEF s
    <3>2. Range(queue') = Range(queue \o <<i>>)  BY <2>3
    <3> QED  BY <2>2, <3>1, <3>2
  <2>5. IsInjective(queue')
    <3>1. Apart(queue, <<i>>)  BY <1>1, <1>2, <2>2 DEF Apart, Placed
    <3> QED  BY <1>1, <2>2, <2>3, <3>1, ApartConcat
  <2>6. Placed'  BY <1>1, <1>2, <1>3, <2>1, <2>4, <2>5 DEF Placed, Apart
  <2> QED  BY <2>1, <2>6 DEF HeldInv
<1>7. CASE Drop(i)
  <2>1. RowsCounted' /\ Counters' /\ \A j \in Items \ {i} : fate'[j] = fate[j]
    BY <1>5, <1>7 DEF Drop
  <2>2. Placed'  BY <1>1, <1>2, <1>3, <1>7, <2>1 DEF Placed, Apart, Drop
  <2> QED  BY <2>1, <2>2 DEF HeldInv
<1> QED  BY <1>6, <1>7 DEF Enqueue

(* The fallback writes what the task does not hold, and no counter of the  *)
(* queue shows it.                                                         *)
LEMMA DirectWriteHeld ==
    ASSUME IInv, HeldInv, NEW i \in Items, DirectWrite(i)
    PROVE  HeldInv'
<1> DEFINE H == Having({"held"})
           D == Having({"stored", "discarded"})
           E == Having(Fates \ {"unsent"})
<1>1. /\ queue \in Seq(Items) /\ batch \in Seq(Items) /\ QueueTypeOK /\ fate[i] = "direct"
      /\ RowsCounted /\ Counters /\ Placed
      /\ UNCHANGED <<queue, batch, worker, processed, dropped>>
      /\ processed \in Nat /\ dropped \in Nat
  BY DEF IInv, QueueTypeOK, HeldInv, DirectWrite
<1>2. PICK f \in {"stored", "lost", "discarded"} :
         /\ fate' = [fate EXCEPT ![i] = f]
         /\ rows' = IF f = "stored" THEN [rows EXCEPT ![i] = @ + 1] ELSE rows
  BY DEF DirectWrite
<1>3. Range(batch) \subseteq Items /\ Range(queue) \subseteq Items
  BY <1>1, ElementOfSeq, LenProperties DEF Range
<1>5. fate'[i] = f /\ \A j \in Items \ {i} : fate'[j] = fate[j]
  BY <1>1, <1>2 DEF QueueTypeOK
<1>6. H' = H \ {i} /\ E' = E \cup {i} /\ D \subseteq D' \cup {i}
  BY <1>5 DEF Having, Fates
<1>7. i \notin H /\ i \notin D /\ i \in E  BY <1>1 DEF Having, Fates
<1>8. D \subseteq Items /\ D' \subseteq Items  BY DEF Having
<1>9. RowsCounted'
  <2> SUFFICES ASSUME NEW j \in Items
               PROVE  rows'[j] = IF fate'[j] = "stored" THEN 1 ELSE 0
    BY DEF RowsCounted
  <2>1. rows[j] = IF fate[j] = "stored" THEN 1 ELSE 0  BY <1>1 DEF RowsCounted
  <2>2. rows'[j] = IF f = "stored" /\ j = i THEN rows[j] + 1 ELSE rows[j]
    BY <1>1, <1>2 DEF QueueTypeOK
  <2> QED  BY <1>1, <1>5, <2>1, <2>2
<1>10. processed <= Cardinality(D) /\ dropped + processed + Cardinality(H) <= Cardinality(E)
  BY <1>1 DEF Counters
<1>11. Counters'
  <2> HIDE DEF H, D, E
  <2>1. H' = H /\ E' = E /\ D \subseteq D'  BY <1>6, <1>7
  <2>2. Cardinality(D) \in Nat /\ Cardinality(D') \in Nat /\ Cardinality(D) <= Cardinality(D')
    BY <1>8, <2>1, Countable, FS_Subset
  <2>3. processed' <= Cardinality(D')  BY <1>1, <1>10, <2>2
  <2>4. dropped' + processed' + Cardinality(H') <= Cardinality(E')  BY <1>1, <1>10, <2>1
  <2> QED  BY <2>3, <2>4 DEF Counters, H, D, E
<1>12. Placed'  BY <1>1, <1>3, <1>5 DEF Placed, Apart
<1> QED  BY <1>9, <1>11, <1>12 DEF HeldInv

LEMMA InitHeld == QueueInit => HeldInv
<1> SUFFICES ASSUME QueueInit PROVE HeldInv  OBVIOUS
<1>1. Placed
  <2>1. Range(<<>>) = {} /\ IsInjective(<<>>)  BY DEF Range, IsInjective
  <2> QED  BY <2>1 DEF QueueInit, Placed, Apart
<1>2. RowsCounted  BY DEF QueueInit, RowsCounted
<1>3. Having({"stored", "discarded"}) = {} /\ Having({"held"}) = {} /\ Having(Fates \ {"unsent"}) = {}
  BY DEF QueueInit, Having
<1>4. processed = 0 /\ dropped = 0  BY DEF QueueInit
<1>5. Counters  BY <1>3, <1>4, NoneCounted DEF Counters
<1> QED  BY <1>1, <1>2, <1>5 DEF HeldInv

LEMMA NextKeepsHeld == IInv /\ HeldInv /\ [QueueNext]_queueVars => HeldInv'
<1> SUFFICES ASSUME IInv, HeldInv, [QueueNext]_queueVars PROVE HeldInv'
  OBVIOUS
<1>1. ASSUME UNCHANGED <<queue, batch, fate, rows, processed, dropped>>,
             worker' = worker \/ worker # "audit" \/ Range(batch) = {}
      PROVE  HeldInv'
  <2>1. Placed'  BY <1>1 DEF HeldInv, Placed
  <2>2. RowsCounted'  BY <1>1 DEF HeldInv, RowsCounted
  <2>3. Counters'  BY <1>1 DEF HeldInv, Counters, Having
  <2> QED  BY <2>1, <2>2, <2>3 DEF HeldInv
<1>2. CASE UNCHANGED queueVars \/ SetCapture \/ StopBegin
  BY <1>1, <1>2 DEF queueVars, SetCapture, StopBegin, outcome
<1>3. CASE StopEnd
  <2>1. batch \in Seq(Items) /\ Len(batch) \in Nat /\ Len(queue) \in Nat /\ unfinished = 0
    BY <1>3, LenProperties DEF StopEnd, IInv, QueueTypeOK
  <2>2. Len(batch) = 0  BY <2>1 DEF IInv, Backlog
  <2>3. Range(batch) = {}
    <3>1. batch = <<>>  BY <2>1, <2>2, EmptySeq
    <3> QED  BY <3>1 DEF Range
  <2> QED  BY <1>1, <1>3, <2>3 DEF StopEnd, outcome
<1>4. CASE WorkerStep
  BY <1>4, CollectHeld, FlushTimeoutHeld, TrainingWrittenHeld, AuditsWrittenHeld DEF WorkerStep
<1>5. CASE \E i \in Items : Enqueue(i) \/ DirectWrite(i)
  BY <1>5, EnqueueHeld, DirectWriteHeld
<1> QED  BY <1>2, <1>3, <1>4, <1>5 DEF QueueNext

LEMMA HeldInvariant == QueueSpec => [](IInv /\ HeldInv)
<1>1. QueueInit => IInv /\ HeldInv  BY InitIInv, InitHeld
<1>2. (IInv /\ HeldInv) /\ [QueueNext]_queueVars => (IInv /\ HeldInv)'
  BY NextKeepsIInv, NextKeepsHeld
<1> QED  BY <1>1, <1>2, PTL DEF QueueSpec

(* Every accepted payload is in the queue or in the batch, and there once,  *)
(* and no payload is committed twice, neither by the task nor by the       *)
(* fallback of a full queue.                                               *)
THEOREM HeldAndStoredOnce == QueueSpec => []HeldOnce
<1>1. IInv /\ HeldInv => HeldOnce
  <2> SUFFICES ASSUME IInv, HeldInv PROVE HeldOnce  OBVIOUS
  <2>1. batch \in Seq(Items) /\ queue \in Seq(Items)  BY DEF IInv, QueueTypeOK
  <2>2. IsInjective(batch \o queue)  BY <2>1, ApartConcat DEF HeldInv, Placed
  <2>3. Range(batch \o queue) = Range(batch) \cup Range(queue)  BY <2>1, RangeConcat
  <2> QED  BY <2>2, <2>3 DEF HeldOnce, HeldInv, RowsCounted, IInv, Backlog
<1> QED  BY <1>1, HeldInvariant, PTL

(* What the runtime page shows adds up, whatever the writers raise: no     *)
(* payload is counted as processed that is not stored or needs no row, and *)
(* what was processed, was dropped or waits was sent.                      *)
THEOREM CountersAddUp == QueueSpec => []CountersHonest
<1>1. IInv /\ HeldInv => CountersHonest
  <2> SUFFICES ASSUME IInv, HeldInv PROVE CountersHonest  OBVIOUS
  <2> DEFINE H == Having({"held"})
             E == Having(Fates \ {"unsent"})
  <2>1. QueueTypeOK /\ queue \in Seq(Items) /\ processed \in Nat /\ dropped \in Nat
    BY DEF IInv, QueueTypeOK
  <2>2. Cardinality(Range(queue)) = Len(queue) /\ Len(queue) \in Nat
    BY <2>1, InjectiveLength, LenProperties DEF HeldInv, Placed, Apart
  <2>3. Range(queue) \subseteq H
    <3>1. Range(queue) \subseteq Items  BY <2>1, ElementOfSeq, LenProperties DEF Range
    <3> QED  BY <3>1 DEF HeldInv, Placed, Having
  <2>4. H \subseteq Items /\ E \subseteq Items  BY DEF Having
  <2>5. IsFiniteSet(H) /\ Cardinality(H) \in Nat /\ Cardinality(E) \in Nat  BY <2>4, Countable
  <2>6. Len(queue) <= Cardinality(H)  BY <2>2, <2>3, <2>5, FS_Subset
  <2>7. dropped + processed + Cardinality(H) <= Cardinality(E)
        /\ processed <= Cardinality(Having({"stored", "discarded"}))
    BY DEF HeldInv, Counters
  <2>8. E = {i \in Items : fate[i] # "unsent"}  BY <2>1 DEF Having, QueueTypeOK, Fates
  <2> HIDE DEF H, E
  <2>9. dropped + processed + Len(queue) <= Cardinality(E)  BY <2>1, <2>2, <2>5, <2>6, <2>7
  <2> QED  BY <2>7, <2>8, <2>9 DEF CountersHonest, Having
<1> QED  BY <1>1, HeldInvariant, PTL
=============================================================================
