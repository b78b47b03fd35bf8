------------------------- MODULE DataGovernanceProofs -------------------------
(***************************************************************************)
(* Proofs, for every number of jobs and conversations, that clean-up of    *)
(* covered conversations loses no exchange, and that coverage jobs, also   *)
(* two at once or failing half-way, leave no repetition unmarked.          *)
(***************************************************************************)
EXTENDS DataGovernance, SequenceTheorems, FiniteSetTheorems, TLAPS

Visible(i) == conv[i].row # "open"
Wanted(c) == Live(c) /\ ~conv[c].late

OpenAreFresh == \A i \in DOMAIN conv :
    conv[i].row = "open" => conv[i].pending /\ conv[i].covered = 0 /\ ~conv[i].late

CoveredBySome == \A c \in DOMAIN conv : conv[c].covered # 0 =>
    \E e \in DOMAIN conv : e = conv[c].covered /\ Covers(e, c)

(* What was deleted as covered was covered, though perhaps by one that has *)
(* been deleted itself.                                                    *)
GoneWereCovered == \A c \in DOMAIN conv : conv[c].row = "covered" =>
    \E e \in DOMAIN conv : Covers(e, c)

(* A batch is of visible conversations up to the cursor; those that do not *)
(* count as coverers are covered themselves.                               *)
BatchKnown(j) ==
    /\ batch[j] \subseteq DOMAIN conv /\ uncovered[j] \subseteq batch[j]
    /\ \A d \in batch[j] : Visible(d) /\ (Live(d) /\ conv[d].covered = 0 => d \in uncovered[j])
    /\ cursor[j] # 0 => cursor[j] \in DOMAIN conv /\ Visible(cursor[j])
    /\ pc[j] \notin {"mark", "commit"} => batch[j] = {}
    /\ pc[j] \in {"idle", "insert"} => cursor[j] = 0

(* The marks that are to be written are true, and are all there are but    *)
(* for what others have marked and for what became visible too late.       *)
MarksTrue(j) == \A c \in Rows : marks[j][c] # 0 =>
    /\ pc[j] = "commit" /\ c \in DOMAIN conv /\ Visible(c)
    /\ marks[j][c] \in uncovered[j] /\ Covers(marks[j][c], c)
MarksWhole(j) == pc[j] = "commit" => \A d \in uncovered[j], c \in DOMAIN conv :
    Wanted(c) /\ Covers(d, c) => conv[c].covered # 0 \/ marks[j][c] # 0

(* Behind the cursor, what is still pending is in the batch or came late.  *)
NoneBehind(j) ==
    pc[j] \in {"loop", "mark", "commit"} \/ (pc[j] = "finish" /\ outcome[j] # "failed") =>
        \A i \in DOMAIN conv : i <= cursor[j] /\ Live(i) /\ conv[i].pending
                                   => conv[i].late \/ i \in batch[j]

JobOK(j) == BatchKnown(j) /\ MarksTrue(j) /\ MarksWhole(j) /\ NoneBehind(j)

(* What an analysed or covered conversation extends is covered.            *)
Chain == \A c, d \in DOMAIN conv :
    Wanted(c) /\ Live(d) /\ (~conv[d].pending \/ conv[d].covered # 0) /\ Covers(d, c)
        => conv[c].covered # 0

RowsOK == CoveredByLonger /\ OpenAreFresh /\ GoneWereCovered /\ Chain
IInv == TypeOK /\ RowsOK /\ \A j \in Jobs : JobOK(j)

-----------------------------------------------------------------------------
(* A set of naturals has a least element, and a bounded one a greatest.    *)
LEMMA LeastNatural ==
    ASSUME NEW S \in SUBSET Nat, S # {}
    PROVE  \E m \in S : \A n \in S : m <= n
<1> DEFINE R == {p \in Nat \X Nat : p[1] < p[2]}
<1>1. IsWellFoundedOn(R, Nat)
  BY NatLessThanWellFounded DEF OpToRel
<1>2. \A m, n \in Nat : n < m => <<n, m>> \in R
  OBVIOUS
<1> HIDE DEF R
<1>3. PICK m \in S : \A n \in S : <<n, m>> \notin R
  BY <1>1, WFMin
<1>4. \A n \in S : ~(n < m)
  BY <1>2, <1>3
<1> QED BY <1>4

LEMMA GreatestBelow ==
    ASSUME NEW b \in Nat, NEW S \in SUBSET (0..b), S # {}
    PROVE  \E m \in S : \A n \in S : n <= m
<1> DEFINE T == {b - n : n \in S}
<1>1. T \in SUBSET Nat /\ T # {}
  <2>1. \A n \in S : n \in 0..b
    OBVIOUS
  <2>2. \A n \in 0..b : b - n \in Nat
    OBVIOUS
  <2> QED BY <2>1, <2>2
<1>2. PICK t \in T : \A u \in T : t <= u
  BY <1>1, LeastNatural
<1>3. PICK m \in S : t = b - m
  BY <1>2
<1>4. ASSUME NEW n \in S PROVE n <= m
  <2>1. b - m <= b - n  BY <1>2, <1>3
  <2> QED  BY <2>1
<1> QED BY <1>4

LEMMA SomeIsLonger == CoveredBySome <=> CoveredByLonger
<1>1. ASSUME NEW c \in DOMAIN conv
      PROVE  (\E e \in DOMAIN conv : e = conv[c].covered /\ Covers(e, c))
             <=> conv[c].covered \in DOMAIN conv /\ Covers(conv[c].covered, c)
  OBVIOUS
<1> QED BY <1>1 DEF CoveredBySome, CoveredByLonger

(* What extends an extension of a conversation extends the conversation.   *)
LEMMA CoversTransitive ==
    ASSUME TypeOK, NEW c \in DOMAIN conv, NEW d \in DOMAIN conv, NEW e \in DOMAIN conv,
           Covers(e, d), Covers(d, c)
    PROVE  Covers(e, c)
<1>1. /\ Len(conv[c].trajectory) \in Nat /\ Len(conv[d].trajectory) \in Nat
      /\ Len(conv[e].trajectory) \in Nat
      /\ c \in Nat /\ d \in Nat /\ e \in Nat
  <2>1. \A i \in DOMAIN conv : i \in Nat /\ conv[i] \in TrainingConversations
    BY DEF TypeOK
  <2> QED BY <2>1 DEF TrainingConversations
<1> QED BY <1>1 DEF Covers, IsPrefix

(* Whether one covers another never changes.                               *)
LEMMA CoversKept ==
    ASSUME NEW c, NEW d,
           conv'[c].group = conv[c].group, conv'[d].group = conv[d].group,
           conv'[c].trajectory = conv[c].trajectory, conv'[d].trajectory = conv[d].trajectory
    PROVE  Covers(d, c)' <=> Covers(d, c)
BY DEF Covers, IsPrefix

LEMMA ConvType ==
    ASSUME TypeOK
    PROVE  /\ Len(conv) \in Nat /\ DOMAIN conv = 1..Len(conv) /\ DOMAIN conv \subseteq Rows
           /\ \A i \in DOMAIN conv : conv[i] \in TrainingConversations
BY BoundsAssumption DEF TypeOK, Rows

(* conv keeps its type when its members do.                                *)
LEMMA SameRows ==
    ASSUME TypeOK, NEW f, f = [i \in DOMAIN conv |-> f[i]],
           \A i \in DOMAIN conv : f[i] \in TrainingConversations
    PROVE  f \in Seq(TrainingConversations) /\ Len(f) = Len(conv) /\ DOMAIN f = DOMAIN conv
<1>1. Len(conv) \in Nat /\ DOMAIN conv = 1..Len(conv)
  BY DEF TypeOK
<1>2. f \in [1..Len(conv) -> TrainingConversations]
  BY <1>1
<1>3. f \in Seq(TrainingConversations)
  BY <1>1, <1>2, SeqDef
<1> QED BY <1>1, <1>3, LenProperties

-----------------------------------------------------------------------------
(* No rows and no jobs.                                                    *)
LEMMA InitInv == Init => IInv
<1> SUFFICES ASSUME Init PROVE IInv
  OBVIOUS
<1>1. conv = <<>> /\ conv \in Seq(TrainingConversations) /\ DOMAIN conv = {} /\ Len(conv) = 0
  BY EmptySeq DEF Init
<1>2. \A j \in Jobs : config[j] \in Configs /\ config[j].max \in Nat
  BY ConfigsAssumption DEF Init
<1>3. TypeOK
  BY <1>1, <1>2, BoundsAssumption DEF Init, TypeOK, Statuses, PcStates, Outcomes, Rows
<1>4. RowsOK
  BY <1>1 DEF RowsOK, CoveredByLonger, OpenAreFresh, GoneWereCovered, Chain
<1>5. ASSUME NEW j \in Jobs PROVE JobOK(j)
  BY <1>1 DEF Init, JobOK, BatchKnown, MarksTrue, MarksWhole, NoneBehind
<1> QED BY <1>3, <1>4, <1>5 DEF IInv

(* A step of one job that leaves the conversations as they are.            *)
LEMMA JobInv ==
    ASSUME IInv, NEW j \in Jobs, UNCHANGED conv, TypeOK', JobOK(j)',
           \A k \in Jobs \ {j} : /\ pc'[k] = pc[k] /\ batch'[k] = batch[k]
                                 /\ uncovered'[k] = uncovered[k] /\ marks'[k] = marks[k]
                                 /\ cursor'[k] = cursor[k] /\ outcome'[k] = outcome[k]
    PROVE  IInv'
<1>1. RowsOK'
  BY DEF IInv, RowsOK, CoveredByLonger, OpenAreFresh, GoneWereCovered, Chain,
         Covers, Wanted, Live
<1>2. ASSUME NEW k \in Jobs, k # j PROVE JobOK(k)'
  <2>1. JobOK(k)
    BY DEF IInv
  <2>2. (BatchKnown(k) <=> BatchKnown(k)') /\ (NoneBehind(k) <=> NoneBehind(k)')
    BY <1>2 DEF BatchKnown, NoneBehind, Visible, Live
  <2>3. (MarksTrue(k) <=> MarksTrue(k)') /\ (MarksWhole(k) <=> MarksWhole(k)')
    BY <1>2 DEF MarksTrue, MarksWhole, Visible, Live, Wanted, Covers
  <2> QED BY <2>1, <2>2, <2>3 DEF JobOK
<1> QED BY <1>1, <1>2 DEF IInv

(* The batch of a job that is not at it is empty.                          *)
LEMMA NoBatch ==
    ASSUME NEW j, BatchKnown(j), pc[j] \notin {"mark", "commit"}, MarksTrue(j),
           TypeOK, j \in Jobs
    PROVE  batch[j] = {} /\ uncovered[j] = {} /\ \A c \in Rows : marks[j][c] = 0
BY DEF BatchKnown, MarksTrue

LEMMA RequestInv ==
    ASSUME IInv, NEW j \in Jobs, Request(j) \/ InsertJob(j)
    PROVE  IInv'
<1>1. JobOK(j)
  BY DEF IInv
<1>2. TypeOK'
  BY DEF IInv, TypeOK, Request, InsertJob, PcStates, Statuses, locals
<1>3. /\ conv' = conv
      /\ \A k \in Jobs : /\ batch'[k] = batch[k] /\ uncovered'[k] = uncovered[k]
                         /\ marks'[k] = marks[k] /\ cursor'[k] = cursor[k]
                         /\ outcome'[k] = outcome[k] /\ (k # j => pc'[k] = pc[k])
      /\ pc[j] \in {"idle", "insert"}
      /\ pc'[j] \in {"insert", "done", "loop"}
  BY DEF IInv, TypeOK, Request, InsertJob, locals
<1>4. cursor[j] = 0 /\ batch[j] = {} /\ uncovered[j] = {} /\ \A c \in Rows : marks[j][c] = 0
  BY <1>1, <1>3, NoBatch DEF JobOK, BatchKnown, IInv
<1>5. \A i \in DOMAIN conv : ~(i <= 0)
  BY DEF IInv, TypeOK
<1>6. JobOK(j)'
  BY <1>3, <1>4, <1>5 DEF JobOK, BatchKnown, MarksTrue, MarksWhole, NoneBehind
<1> QED BY <1>2, <1>3, <1>6, JobInv

(* The loop is left: nothing is left behind but by a failure.              *)
LEMMA LeaveInv ==
    ASSUME IInv, NEW j \in Jobs, NEW how \in Outcomes, Leave(j, how),
           pc[j] = "loop" \/ (pc[j] \in {"mark", "commit"} /\ how = "failed")
    PROVE  IInv'
<1>1. JobOK(j)
  BY DEF IInv
<1>2. TypeOK'
  BY BoundsAssumption DEF IInv, TypeOK, Leave, EndBatch, PcStates, Outcomes, locals
<1>3. /\ conv' = conv /\ cursor' = cursor
      /\ \A k \in Jobs : k # j =>
            /\ pc'[k] = pc[k] /\ batch'[k] = batch[k] /\ uncovered'[k] = uncovered[k]
            /\ marks'[k] = marks[k] /\ outcome'[k] = outcome[k]
      /\ pc'[j] = "finish" /\ outcome'[j] = how
      /\ batch'[j] = {} /\ uncovered'[j] = {} /\ \A c \in Rows : marks'[j][c] = 0
  BY DEF IInv, TypeOK, Leave, EndBatch
<1>4. BatchKnown(j)'
  BY <1>1, <1>3 DEF JobOK, BatchKnown, Visible
<1>5. MarksTrue(j)' /\ MarksWhole(j)'
  BY <1>3 DEF MarksTrue, MarksWhole
<1>6. NoneBehind(j)'
  BY <1>1, <1>3 DEF JobOK, BatchKnown, NoneBehind, Live
<1>7. JobOK(j)'
  BY <1>4, <1>5, <1>6 DEF JobOK
<1> QED BY <1>2, <1>3, <1>7, JobInv

(* The call ends.                                                          *)
LEMMA ReturnInv ==
    ASSUME IInv, NEW j \in Jobs, Return(j), status' \in [Jobs -> Statuses]
    PROVE  IInv'
<1>1. config[j].max \in Nat
  BY ConfigsAssumption DEF IInv, TypeOK
<1>2. TypeOK'
  <2>1. /\ conv' = conv /\ config' = config
        /\ pc' \in [Jobs -> PcStates] /\ outcome' \in [Jobs -> Outcomes]
        /\ cursor' \in [Jobs -> 0..MaxRows]
    BY BoundsAssumption DEF IInv, TypeOK, Return, PcStates, Outcomes
  <2>2. /\ batch' \in [Jobs -> SUBSET Rows] /\ uncovered' \in [Jobs -> SUBSET Rows]
        /\ marks' \in [Jobs -> [Rows -> 0..MaxRows]]
    BY BoundsAssumption DEF IInv, TypeOK, Return, EndBatch
  <2>3. processed' \in [Jobs -> Nat] /\ \A k \in Jobs : processed'[k] <= config'[k].max
    BY <1>1, <2>1 DEF IInv, TypeOK, Return
  <2> QED BY <2>1, <2>2, <2>3 DEF IInv, TypeOK
<1>3. /\ conv' = conv
      /\ \A k \in Jobs : k # j =>
            /\ pc'[k] = pc[k] /\ batch'[k] = batch[k] /\ uncovered'[k] = uncovered[k]
            /\ marks'[k] = marks[k] /\ cursor'[k] = cursor[k] /\ outcome'[k] = outcome[k]
      /\ pc'[j] = "done" /\ cursor'[j] = 0
      /\ batch'[j] = {} /\ uncovered'[j] = {} /\ \A c \in Rows : marks'[j][c] = 0
  BY DEF IInv, TypeOK, Return, EndBatch
<1>4. JobOK(j)'
  BY <1>3 DEF JobOK, BatchKnown, MarksTrue, MarksWhole, NoneBehind
<1> QED BY <1>2, <1>3, <1>4, JobInv

(* A batch is read: all that is pending behind it is in it.                *)
LEMMA FetchInv ==
    ASSUME IInv, NEW j \in Jobs, Fetch(j)
    PROVE  IInv'
<1>1. JobOK(j) /\ pc[j] = "loop"
  BY DEF IInv, Fetch
<1>2. PICK last \in Pending(j) :
          LET ids == {i \in Pending(j) : i <= last} IN
          /\ Cardinality(ids) = RoomFor(j) \/ Cardinality(ids) < RoomFor(j)
          /\ batch' = [batch EXCEPT ![j] = ids]
          /\ uncovered' = [uncovered EXCEPT ![j] = {i \in ids : conv[i].covered = 0}]
          /\ cursor' = [cursor EXCEPT ![j] = last]
          /\ processed' = [processed EXCEPT ![j] = Counted(j, ids)]
  BY DEF Fetch
<1> DEFINE ids == {i \in Pending(j) : i <= last}
<1>3. /\ Pending(j) \subseteq DOMAIN conv /\ ids \subseteq Rows /\ last \in Rows
      /\ Rows \subseteq 0..MaxRows
      /\ \A i \in DOMAIN conv : i \in Nat
  BY ConvType, BoundsAssumption DEF Pending, Rows, IInv
<1>4. Cardinality(ids) \in Nat
  <2>1. IsFiniteSet(Rows)
    BY FS_Interval, BoundsAssumption DEF Rows
  <2> HIDE DEF ids
  <2>2. IsFiniteSet(ids)
    BY <1>3, <2>1, FS_Subset
  <2> QED BY <2>2, FS_CardinalityType
<1>5. Counted(j, ids) \in Nat /\ Counted(j, ids) <= config[j].max
  <2>1. processed[j] \in Nat /\ config[j].max \in Nat /\ config[j].batch \in Nat
        /\ processed[j] < config[j].max
    BY ConfigsAssumption DEF IInv, TypeOK, Fetch
  <2>2. Cardinality(ids) <= RoomFor(j)
    BY <1>2, <1>4, <2>1 DEF RoomFor
  <2> QED BY <1>4, <2>1, <2>2 DEF RoomFor, Counted
<1>6. TypeOK'
  <2>1. /\ conv' = conv /\ config' = config /\ status' = status /\ outcome' = outcome
        /\ marks' = marks /\ pc' \in [Jobs -> PcStates]
    BY DEF IInv, TypeOK, Fetch, PcStates
  <2>2. /\ batch' \in [Jobs -> SUBSET Rows] /\ uncovered' \in [Jobs -> SUBSET Rows]
        /\ cursor' \in [Jobs -> 0..MaxRows]
    BY <1>2, <1>3 DEF IInv, TypeOK
  <2>3. processed' \in [Jobs -> Nat] /\ \A k \in Jobs : processed'[k] <= config'[k].max
    BY <1>2, <1>5, <2>1 DEF IInv, TypeOK
  <2> QED BY <2>1, <2>2, <2>3 DEF IInv, TypeOK
<1>7. /\ conv' = conv /\ marks' = marks /\ outcome' = outcome
      /\ \A k \in Jobs : k # j =>
            /\ pc'[k] = pc[k] /\ batch'[k] = batch[k] /\ uncovered'[k] = uncovered[k]
            /\ cursor'[k] = cursor[k]
      /\ pc'[j] = "mark" /\ cursor'[j] = last
      /\ batch'[j] = ids /\ uncovered'[j] = {i \in ids : conv[i].covered = 0}
  BY <1>2 DEF IInv, TypeOK, Fetch
<1>8. BatchKnown(j)'
  BY <1>3, <1>7 DEF BatchKnown, Visible, Live, Pending
<1>9. MarksTrue(j)' /\ MarksWhole(j)'
  BY <1>1, <1>7 DEF JobOK, MarksTrue, MarksWhole
<1>10. NoneBehind(j)'
  <2>1. batch[j] = {}
    BY <1>1 DEF JobOK, BatchKnown
  <2>2. cursor[j] \in Nat
    BY BoundsAssumption DEF IInv, TypeOK
  <2> QED BY <1>1, <1>3, <1>7, <2>1, <2>2 DEF JobOK, NoneBehind, Live, Pending
<1>11. JobOK(j)'
  BY <1>8, <1>9, <1>10 DEF JobOK
<1> QED BY <1>6, <1>7, <1>11, JobInv

(* Every visible, uncovered beginning of an uncovered row of the batch is  *)
(* to be marked.                                                           *)
LEMMA MarkInv ==
    ASSUME IInv, NEW j \in Jobs, Mark(j)
    PROVE  IInv'
<1>1. JobOK(j) /\ pc[j] = "mark"
  BY DEF IInv, Mark
<1>2. PICK m \in [Candidates(j) -> uncovered[j]] :
          /\ \A c \in Candidates(j) : m[c] \in Coverers(j, c)
          /\ marks' = [marks EXCEPT ![j] =
                         [c \in Rows |-> IF c \in Candidates(j) THEN m[c] ELSE 0]]
  BY DEF Mark
<1>3. /\ uncovered[j] \subseteq Rows /\ Candidates(j) \subseteq DOMAIN conv
      /\ DOMAIN conv \subseteq Rows /\ \A i \in Rows : i # 0 /\ i \in 0..MaxRows
      /\ \A c \in Candidates(j) : m[c] \in Rows
  <2>1. uncovered[j] \subseteq Rows /\ DOMAIN conv \subseteq Rows
    BY ConvType DEF IInv, TypeOK
  <2>2. \A i \in Rows : i # 0 /\ i \in 0..MaxRows
    BY BoundsAssumption DEF Rows
  <2> QED BY <1>2, <2>1, <2>2 DEF Candidates
<1> DEFINE new == [c \in Rows |-> IF c \in Candidates(j) THEN m[c] ELSE 0]
<1>4. TypeOK'
  <2>1. new \in [Rows -> 0..MaxRows] /\ marks' = [marks EXCEPT ![j] = new]
    <3>1. 0 \in 0..MaxRows
      BY BoundsAssumption
    <3>2. new \in [Rows -> 0..MaxRows]
      BY <1>3, <3>1
    <3> QED BY <1>2, <3>2
  <2> HIDE DEF new
  <2>2. marks' \in [Jobs -> [Rows -> 0..MaxRows]]
    BY <2>1 DEF IInv, TypeOK
  <2>3. /\ conv' = conv /\ status' = status /\ config' = config /\ batch' = batch
        /\ uncovered' = uncovered /\ cursor' = cursor /\ processed' = processed
        /\ outcome' = outcome /\ pc' \in [Jobs -> PcStates]
    BY DEF IInv, TypeOK, Mark, PcStates
  <2> QED BY <2>2, <2>3 DEF IInv, TypeOK
<1>5. /\ conv' = conv /\ batch' = batch /\ uncovered' = uncovered /\ cursor' = cursor
      /\ outcome' = outcome
      /\ \A k \in Jobs : k # j => pc'[k] = pc[k] /\ marks'[k] = marks[k]
      /\ pc'[j] = "commit"
      /\ \A c \in Rows : marks'[j][c] = IF c \in Candidates(j) THEN m[c] ELSE 0
  BY <1>2 DEF IInv, TypeOK, Mark
<1>6. BatchKnown(j)' /\ NoneBehind(j)'
  BY <1>1, <1>5 DEF JobOK, BatchKnown, NoneBehind, Visible, Live
<1>7. MarksTrue(j)'
  <2> SUFFICES ASSUME NEW c \in Rows, marks'[j][c] # 0
               PROVE  /\ c \in DOMAIN conv /\ Visible(c)
                      /\ marks'[j][c] \in uncovered[j] /\ Covers(marks'[j][c], c)
    BY <1>5 DEF MarksTrue, Visible, Covers
  <2>1. c \in Candidates(j) /\ marks'[j][c] = m[c]
    BY <1>5
  <2>2. m[c] \in Coverers(j, c)
    BY <1>2, <2>1
  <2>3. c \in DOMAIN conv /\ Live(c)
    BY <2>1 DEF Candidates
  <2> QED BY <2>1, <2>2, <2>3 DEF Coverers, Visible, Live
<1>8. MarksWhole(j)'
  <2> SUFFICES ASSUME NEW d \in uncovered[j], NEW c \in DOMAIN conv, Wanted(c), Covers(d, c),
                      conv[c].covered = 0
               PROVE  marks'[j][c] # 0
    BY <1>5 DEF MarksWhole, Wanted, Live, Covers
  <2>1. c \in Candidates(j)
    BY DEF Candidates, Coverers, Wanted
  <2> QED BY <1>3, <1>5, <2>1
<1>9. JobOK(j)'
  BY <1>6, <1>7, <1>8 DEF JobOK
<1> QED BY <1>4, <1>5, <1>9, JobInv

-----------------------------------------------------------------------------
(* What any step does to the conversations: none is forgotten or changes   *)
(* its text, a visible one stays visible, keeps its mark as long as it is  *)
(* there and is never to be analysed again; one that becomes visible is to *)
(* be analysed and not covered, and late if a later one was visible.       *)
Evolves ==
    /\ DOMAIN conv \subseteq DOMAIN conv'
    /\ \A i \in DOMAIN conv : /\ conv'[i].group = conv[i].group
                              /\ conv'[i].trajectory = conv[i].trajectory
                              /\ Visible(i) => Visible(i)'
    /\ \A i \in DOMAIN conv : Visible(i) /\ Live(i)' =>
          /\ Live(i) /\ conv'[i].late = conv[i].late
          /\ conv[i].covered # 0 => conv'[i].covered # 0
          /\ conv'[i].pending => conv[i].pending
    /\ \A i \in DOMAIN conv' : Live(i)' /\ ~(i \in DOMAIN conv /\ Visible(i)) =>
          /\ i \in DOMAIN conv /\ conv'[i].pending /\ conv'[i].covered = 0
          /\ conv'[i].late \/ \A d \in DOMAIN conv : Visible(d) => ~(i < d)

(* A job that takes no part is not disturbed.                              *)
LEMMA JobKept ==
    ASSUME IInv, Evolves, NEW k \in Jobs,
           pc'[k] = pc[k], batch'[k] = batch[k], uncovered'[k] = uncovered[k],
           marks'[k] = marks[k], cursor'[k] = cursor[k], outcome'[k] = outcome[k]
    PROVE  JobOK(k)'
<1>1. JobOK(k)
  BY DEF IInv
<1>2. \A i \in DOMAIN conv : i \in Nat
  BY ConvType DEF IInv
<1>3. \A c, d \in DOMAIN conv : Covers(d, c)' <=> Covers(d, c)
  BY CoversKept DEF Evolves
<1>4. BatchKnown(k)'
  BY <1>1 DEF JobOK, BatchKnown, Evolves
<1>5. MarksTrue(k)'
  <2>1. uncovered[k] \subseteq DOMAIN conv
    BY <1>1 DEF JobOK, BatchKnown
  <2> SUFFICES ASSUME NEW c \in Rows, marks[k][c] # 0
               PROVE  /\ pc[k] = "commit" /\ c \in DOMAIN conv' /\ Visible(c)'
                      /\ marks[k][c] \in uncovered[k] /\ Covers(marks[k][c], c)'
    BY <1>1 DEF MarksTrue, Visible, Covers
  <2>2. /\ pc[k] = "commit" /\ c \in DOMAIN conv /\ Visible(c)
        /\ marks[k][c] \in uncovered[k] /\ Covers(marks[k][c], c)
    BY <1>1 DEF JobOK, MarksTrue
  <2>3. marks[k][c] \in DOMAIN conv
    BY <2>1, <2>2
  <2>4. Covers(marks[k][c], c)' <=> Covers(marks[k][c], c)
    <3>1. \A d \in DOMAIN conv : Covers(d, c)' <=> Covers(d, c)
      BY <1>3, <2>2
    <3>2. ASSUME NEW d, d = marks[k][c] PROVE Covers(marks[k][c], c)' <=> Covers(d, c)'
      BY <1>1, <3>2 DEF Covers
    <3> QED BY <2>3, <3>1, <3>2
  <2> QED BY <2>2, <2>4 DEF Evolves
<1>6. MarksWhole(k)'
  <2> SUFFICES ASSUME pc[k] = "commit", NEW d \in uncovered[k], NEW c \in DOMAIN conv',
                      Wanted(c)', Covers(d, c)'
               PROVE  conv'[c].covered # 0 \/ marks[k][c] # 0
    BY <1>1 DEF MarksWhole, Wanted, Live, Covers
  <2>1. d \in DOMAIN conv /\ Visible(d)
    BY <1>1 DEF JobOK, BatchKnown
  <2>2. c < d
    BY DEF Covers
  <2>3. c \in DOMAIN conv /\ Visible(c)
    BY <2>1, <2>2 DEF Evolves, Wanted
  <2>4. Wanted(c) /\ Covers(d, c) /\ (conv[c].covered # 0 => conv'[c].covered # 0)
    BY <1>3, <2>1, <2>3 DEF Evolves, Wanted
  <2> QED BY <1>1, <2>3, <2>4 DEF JobOK, MarksWhole
<1>7. NoneBehind(k)'
  <2> SUFFICES ASSUME pc[k] \in {"loop", "mark", "commit"}
                          \/ (pc[k] = "finish" /\ outcome[k] # "failed"),
                      NEW i \in DOMAIN conv', i <= cursor[k], Live(i)', conv'[i].pending
               PROVE  conv'[i].late \/ i \in batch[k]
    BY <1>1 DEF NoneBehind, Live
  <2>1. CASE i \in DOMAIN conv /\ Visible(i)
    BY <1>1, <2>1 DEF JobOK, NoneBehind, Evolves
  <2>2. CASE ~(i \in DOMAIN conv /\ Visible(i))
    <3>1. i \in DOMAIN conv /\ i \in Nat /\ i # 0
      <4>1. i \in DOMAIN conv
        BY <2>2 DEF Evolves
      <4> QED BY <4>1, ConvType DEF IInv
    <3>2. cursor[k] \in Nat /\ cursor[k] # 0
      BY <3>1, BoundsAssumption DEF IInv, TypeOK
    <3>3. cursor[k] \in DOMAIN conv /\ Visible(cursor[k])
      BY <1>1, <3>2 DEF JobOK, BatchKnown
    <3>4. i < cursor[k]
      BY <2>2, <3>1, <3>2, <3>3
    <3> QED BY <2>2, <3>3, <3>4 DEF Evolves
  <2> QED BY <2>1, <2>2
<1> QED BY <1>4, <1>5, <1>6, <1>7 DEF JobOK

(* A step that writes no marks leaves the chains unbroken.                 *)
LEMMA ChainKept ==
    ASSUME IInv, Evolves,
           \A i \in DOMAIN conv : Visible(i) /\ Live(i)' =>
               conv'[i].covered = conv[i].covered /\ conv'[i].pending = conv[i].pending
    PROVE  Chain'
<1> SUFFICES ASSUME NEW c \in DOMAIN conv', NEW d \in DOMAIN conv', Wanted(c)', Live(d)',
                    ~conv'[d].pending \/ conv'[d].covered # 0, Covers(d, c)'
             PROVE  conv'[c].covered # 0
  BY DEF Chain
<1>1. d \in DOMAIN conv /\ Visible(d)
  BY DEF Evolves
<1>2. c < d
  BY DEF Covers
<1>3. c \in DOMAIN conv /\ Visible(c)
  BY <1>1, <1>2 DEF Evolves, Wanted
<1>4. Covers(d, c) /\ Wanted(c) /\ Live(d)
  BY <1>1, <1>3, CoversKept DEF Evolves, Wanted
<1>5. ~conv[d].pending \/ conv[d].covered # 0
  BY <1>1
<1> QED BY <1>1, <1>3, <1>4, <1>5 DEF IInv, RowsOK, Chain, Wanted

(* A step of the archive or of a clean-up, beside the jobs.                *)
LEMMA BesideJobs ==
    ASSUME IInv, Evolves, TypeOK', UNCHANGED <<pc, locals>>,
           CoveredBySome', OpenAreFresh', GoneWereCovered',
           \A i \in DOMAIN conv : Visible(i) /\ Live(i)' =>
               conv'[i].covered = conv[i].covered /\ conv'[i].pending = conv[i].pending
    PROVE  IInv'
<1>1. \A k \in Jobs : JobOK(k)'
  BY JobKept DEF locals
<1>2. Chain'
  BY ChainKept
<1>3. CoveredByLonger'
  BY SomeIsLonger, PTL
<1> QED BY <1>1, <1>2, <1>3 DEF IInv, RowsOK

(* A new row is not visible yet.                                           *)
LEMMA InsertInv ==
    ASSUME IInv, NEW p \in Payloads, Insert(p)
    PROVE  IInv'
<1> DEFINE n == Len(conv) + 1
           new == Conversation(p)
<1>1. new \in TrainingConversations
  <2>1. p.group \in Groups /\ p.prompt \in Seq(Messages) /\ p.text \in Messages
    BY PayloadsAssumption
  <2>2. Append(p.prompt, p.text) \in Seq(Messages)
    BY <2>1, AppendProperties
  <2> QED BY <2>1, <2>2, BoundsAssumption DEF Conversation, TrainingConversations
<1>2. /\ new.row = "open" /\ new.pending /\ new.covered = 0 /\ ~new.late
  BY DEF Conversation
<1> HIDE DEF new
<1>3. /\ conv' = Append(conv, new) /\ UNCHANGED <<status, pc, locals>> /\ Len(conv) < MaxRows
  BY DEF Insert, new
<1>4. /\ conv \in Seq(TrainingConversations) /\ DOMAIN conv = 1..Len(conv)
      /\ Len(conv) \in Nat
  BY ConvType DEF IInv, TypeOK
<1>5. /\ conv' \in Seq(TrainingConversations) /\ Len(conv') = n
      /\ DOMAIN conv' = 1..n /\ conv'[n] = new
      /\ \A i \in DOMAIN conv : conv'[i] = conv[i]
  BY <1>1, <1>3, <1>4, AppendProperties, LenProperties
<1>6. DOMAIN conv \subseteq DOMAIN conv' /\ \A i \in DOMAIN conv' : i \in DOMAIN conv \/ i = n
  BY <1>4, <1>5
<1>7. TypeOK'
  BY <1>3, <1>4, <1>5, BoundsAssumption DEF IInv, TypeOK, locals
<1>8. Evolves
  BY <1>2, <1>5, <1>6 DEF Evolves, Visible, Live, IInv, RowsOK, OpenAreFresh
<1>9. \A c, d \in DOMAIN conv : Covers(d, c)' <=> Covers(d, c)
  BY <1>5, CoversKept
<1>10. CoveredBySome'
  <2>1. CoveredBySome
    BY SomeIsLonger DEF IInv, RowsOK
  <2> SUFFICES ASSUME NEW c \in DOMAIN conv', conv'[c].covered # 0
               PROVE  \E e \in DOMAIN conv' : e = conv'[c].covered /\ Covers(e, c)'
    BY DEF CoveredBySome
  <2>2. c \in DOMAIN conv /\ conv'[c] = conv[c]
    BY <1>2, <1>5, <1>6
  <2> QED BY <1>6, <1>9, <2>1, <2>2 DEF CoveredBySome
<1>11. OpenAreFresh'
  BY <1>2, <1>5, <1>6 DEF IInv, RowsOK, OpenAreFresh
<1>12. GoneWereCovered'
  <2> SUFFICES ASSUME NEW c \in DOMAIN conv', conv'[c].row = "covered"
               PROVE  \E e \in DOMAIN conv' : Covers(e, c)'
    BY DEF GoneWereCovered
  <2>1. c \in DOMAIN conv /\ conv'[c] = conv[c]
    BY <1>2, <1>5, <1>6
  <2> QED BY <1>6, <1>9, <2>1 DEF IInv, RowsOK, GoneWereCovered
<1> QED BY <1>3, <1>5, <1>7, <1>8, <1>10, <1>11, <1>12, BesideJobs

(* A row becomes visible as it was written, late or not.                   *)
LEMMA PublishInv ==
    ASSUME IInv, NEW i \in DOMAIN conv, Publish(i)
    PROVE  IInv'
<1> DEFINE new == conv'[i]
<1>1. /\ \A d \in DOMAIN conv : d \in Nat /\ conv[d] \in TrainingConversations
      /\ conv[i].row = "open" /\ UNCHANGED <<status, pc, locals>>
  BY ConvType DEF IInv, Publish
<1>2. conv' = [conv EXCEPT ![i].row = "live", ![i].late = Overtaken(i)]
  BY DEF Publish
<1>3. Overtaken(i) \/ \A d \in DOMAIN conv : Visible(d) => ~(i < d)
  BY <1>1 DEF Visible, Overtaken
<1>4. /\ new \in TrainingConversations /\ new.row = "live" /\ new.late = Overtaken(i)
      /\ new.group = conv[i].group /\ new.trajectory = conv[i].trajectory
      /\ new.pending = conv[i].pending /\ new.covered = conv[i].covered
  <2>1. Overtaken(i) \in BOOLEAN
    BY DEF Overtaken
  <2>2. conv'[i] = [conv[i] EXCEPT !.row = "live", !.late = Overtaken(i)]
    BY <1>2
  <2> QED BY <1>1, <2>1, <2>2 DEF TrainingConversations
<1>5. conv[i].pending /\ conv[i].covered = 0
  BY <1>1 DEF IInv, RowsOK, OpenAreFresh
<1> HIDE DEF new
<1>6. /\ DOMAIN conv' = DOMAIN conv /\ conv'[i] = new
      /\ \A d \in DOMAIN conv : d # i => conv'[d] = conv[d]
      /\ conv' = [d \in DOMAIN conv |-> conv'[d]]
  BY <1>2 DEF new
<1>7. TypeOK'
  <2>1. \A d \in DOMAIN conv : conv'[d] \in TrainingConversations
    BY <1>1, <1>4, <1>6
  <2>2. conv' \in Seq(TrainingConversations) /\ Len(conv') = Len(conv)
    BY <1>6, <2>1, SameRows DEF IInv
  <2> QED BY <1>1, <2>2 DEF IInv, TypeOK, locals
<1>8. Evolves
  BY <1>1, <1>3, <1>4, <1>5, <1>6 DEF Evolves, Visible, Live
<1>9. \A c, d \in DOMAIN conv : Covers(d, c)' <=> Covers(d, c)
  BY <1>4, <1>6, CoversKept
<1>10. \A d \in DOMAIN conv : conv'[d].covered = conv[d].covered
                              /\ conv'[d].pending = conv[d].pending
  BY <1>4, <1>6
<1>11. CoveredBySome'
  <2>1. CoveredBySome
    BY SomeIsLonger DEF IInv, RowsOK
  <2> QED BY <1>6, <1>9, <1>10, <2>1 DEF CoveredBySome
<1>12. OpenAreFresh'
  BY <1>4, <1>6 DEF IInv, RowsOK, OpenAreFresh
<1>13. GoneWereCovered'
  <2>1. \A c \in DOMAIN conv : conv'[c].row = "covered" => conv[c].row = "covered"
    BY <1>4, <1>6
  <2> QED BY <1>6, <1>9, <2>1 DEF IInv, RowsOK, GoneWereCovered
<1> QED BY <1>1, <1>7, <1>8, <1>10, <1>11, <1>12, <1>13, BesideJobs

(* Clean-up deletes visible rows; those it deletes as covered are.         *)
LEMMA CleanupInv ==
    ASSUME IInv, Cleanup
    PROVE  IInv'
<1>1. PICK C \in SUBSET {i \in DOMAIN conv : Live(i) /\ conv[i].covered # 0},
           E \in SUBSET {i \in DOMAIN conv : Live(i)} :
          conv' = [i \in DOMAIN conv |->
                     CASE i \in C     -> Deleted(i, "covered")
                       [] i \in E \ C -> Deleted(i, "expired")
                       [] OTHER      -> conv[i]]
  BY DEF Cleanup
<1>2. /\ \A d \in DOMAIN conv : d \in Nat /\ conv[d] \in TrainingConversations
      /\ UNCHANGED <<status, pc, locals>>
  BY ConvType DEF IInv, Cleanup
<1>3. \A i \in DOMAIN conv, why \in {"covered", "expired"} :
         /\ Deleted(i, why) \in TrainingConversations
         /\ Deleted(i, why).row = why /\ Deleted(i, why).covered = 0
         /\ ~Deleted(i, why).late
         /\ Deleted(i, why).group = conv[i].group
         /\ Deleted(i, why).trajectory = conv[i].trajectory
  <2> TAKE i \in DOMAIN conv, why \in {"covered", "expired"}
  <2>1. conv[i] \in TrainingConversations /\ 0 \in 0..MaxRows
        /\ why \in {"open", "live", "covered", "expired"}
    BY <1>2, BoundsAssumption
  <2> QED BY <2>1 DEF Deleted, TrainingConversations
<1>4. /\ DOMAIN conv' = DOMAIN conv
      /\ \A i \in DOMAIN conv : conv'[i] = CASE i \in C     -> Deleted(i, "covered")
                                            [] i \in E \ C -> Deleted(i, "expired")
                                            [] OTHER      -> conv[i]
      /\ conv' = [d \in DOMAIN conv |-> conv'[d]]
  BY <1>1
<1>5. \A i \in DOMAIN conv :
         \/ conv'[i] = conv[i]
         \/ Live(i) /\ conv[i].covered # 0 /\ conv'[i] = Deleted(i, "covered")
         \/ Live(i) /\ conv'[i] = Deleted(i, "expired")
  BY <1>4
<1>6. \A i \in DOMAIN conv :
         /\ conv'[i] \in TrainingConversations
         /\ conv'[i].group = conv[i].group /\ conv'[i].trajectory = conv[i].trajectory
         /\ (conv'[i].row \in {"open", "live"} \/ conv'[i].covered # 0) => conv'[i] = conv[i]
         /\ conv'[i].row = "covered" => conv[i].row = "covered" \/ conv[i].covered # 0
         /\ Visible(i) => conv'[i].row # "open"
  BY <1>2, <1>3, <1>5 DEF Live, Visible
<1>7. TypeOK'
  <2>1. conv' \in Seq(TrainingConversations) /\ Len(conv') = Len(conv)
    BY <1>4, <1>6, SameRows DEF IInv
  <2> QED BY <1>2, <2>1 DEF IInv, TypeOK, locals
<1>8. Evolves
  BY <1>4, <1>6 DEF Evolves, Visible, Live
<1>9. \A c, d \in DOMAIN conv : Covers(d, c)' <=> Covers(d, c)
  BY <1>6, CoversKept
<1>10. CoveredBySome
  BY SomeIsLonger DEF IInv, RowsOK
<1>11. CoveredBySome'
  BY <1>4, <1>6, <1>9, <1>10 DEF CoveredBySome
<1>12. OpenAreFresh'
  BY <1>4, <1>6 DEF IInv, RowsOK, OpenAreFresh
<1>13. GoneWereCovered'
  <2>1. \A c \in DOMAIN conv : conv'[c].row = "covered" =>
            \E e \in DOMAIN conv : Covers(e, c)
    BY <1>6, <1>10 DEF IInv, RowsOK, GoneWereCovered, CoveredBySome
  <2> QED BY <1>4, <1>9, <2>1 DEF GoneWereCovered
<1>14. \A i \in DOMAIN conv : Visible(i) /\ Live(i)' =>
           conv'[i].covered = conv[i].covered /\ conv'[i].pending = conv[i].pending
  BY <1>6 DEF Live
<1> QED BY <1>2, <1>7, <1>8, <1>11, <1>12, <1>13, <1>14, BesideJobs

(* The batch is written: its rows are analysed, and each conversation that *)
(* one of them extends is covered, by it or through the one that covers it.*)
LEMMA CommitInv ==
    ASSUME IInv, NEW j \in Jobs, Commit(j)
    PROVE  IInv'
<1>1. JobOK(j) /\ pc[j] = "commit"
  BY DEF IInv, Commit
<1>2. /\ DOMAIN conv' = DOMAIN conv
      /\ conv' = [d \in DOMAIN conv |-> conv'[d]]
      /\ \A i \in DOMAIN conv :
            conv'[i] = IF ~Live(i) THEN conv[i]
                       ELSE [conv[i] EXCEPT
                               !.covered = IF marks[j][i] # 0 THEN marks[j][i] ELSE @,
                               !.pending = @ /\ i \notin batch[j]]
  BY DEF Commit
<1>3. /\ DOMAIN conv \subseteq Rows
      /\ \A i \in DOMAIN conv : conv[i] \in TrainingConversations /\ marks[j][i] \in 0..MaxRows
  BY ConvType DEF IInv, TypeOK
<1>4. \A i \in DOMAIN conv :
         /\ conv'[i] \in TrainingConversations
         /\ conv'[i].group = conv[i].group /\ conv'[i].trajectory = conv[i].trajectory
         /\ conv'[i].row = conv[i].row /\ conv'[i].late = conv[i].late
         /\ conv'[i].covered = IF Live(i) /\ marks[j][i] # 0 THEN marks[j][i]
                               ELSE conv[i].covered
         /\ conv'[i].pending <=> conv[i].pending /\ ~(Live(i) /\ i \in batch[j])
  <2> TAKE i \in DOMAIN conv
  <2> DEFINE cov == IF marks[j][i] # 0 THEN marks[j][i] ELSE conv[i].covered
             pen == conv[i].pending /\ i \notin batch[j]
  <2>1. conv[i] \in TrainingConversations /\ cov \in 0..MaxRows /\ pen \in BOOLEAN
    BY <1>3 DEF TrainingConversations
  <2>2. Live(i) => conv'[i] = [conv[i] EXCEPT !.covered = cov, !.pending = pen]
    BY <1>2
  <2>3. ~Live(i) => conv'[i] = conv[i]
    BY <1>2
  <2>4. (pen <=> conv[i].pending /\ i \notin batch[j])
        /\ (cov = IF marks[j][i] # 0 THEN marks[j][i] ELSE conv[i].covered)
    OBVIOUS
  <2> HIDE DEF cov, pen
  <2> QED BY <2>1, <2>2, <2>3, <2>4 DEF TrainingConversations
<1>5. /\ pc' = [pc EXCEPT ![j] = "loop"] /\ EndBatch(j)
      /\ UNCHANGED <<status, config, cursor, processed, outcome>>
  BY DEF Commit
<1>6. TypeOK'
  <2>1. conv' \in Seq(TrainingConversations) /\ Len(conv') = Len(conv)
    BY <1>2, <1>4, SameRows DEF IInv
  <2>2. /\ batch' \in [Jobs -> SUBSET Rows] /\ uncovered' \in [Jobs -> SUBSET Rows]
        /\ marks' \in [Jobs -> [Rows -> 0..MaxRows]]
    BY <1>5, BoundsAssumption DEF IInv, TypeOK, EndBatch
  <2>3. pc' \in [Jobs -> PcStates]
    BY <1>5 DEF IInv, TypeOK, PcStates
  <2> QED BY <1>5, <2>1, <2>2, <2>3 DEF IInv, TypeOK
<1>7. Evolves
  BY <1>2, <1>3, <1>4, BoundsAssumption DEF Evolves, Visible, Live
<1>8. /\ \A k \in Jobs : k # j => /\ pc'[k] = pc[k] /\ batch'[k] = batch[k]
                                  /\ uncovered'[k] = uncovered[k] /\ marks'[k] = marks[k]
      /\ cursor' = cursor /\ outcome' = outcome
      /\ pc'[j] = "loop" /\ batch'[j] = {} /\ uncovered'[j] = {}
      /\ \A c \in Rows : marks'[j][c] = 0
  BY <1>5 DEF IInv, TypeOK, EndBatch
<1>9. \A c, d \in DOMAIN conv : Covers(d, c)' <=> Covers(d, c)
  BY <1>4, CoversKept
<1>10. CoveredByLonger'
  <2>1. CoveredBySome
    BY SomeIsLonger DEF IInv, RowsOK
  <2>2. \A c \in DOMAIN conv : marks[j][c] # 0 => \E e \in DOMAIN conv :
            e = marks[j][c] /\ Covers(e, c)
    BY <1>1, <1>3 DEF JobOK, MarksTrue, BatchKnown
  <2>3. CoveredBySome'
    <3> SUFFICES ASSUME NEW c \in DOMAIN conv, conv'[c].covered # 0
                 PROVE  \E e \in DOMAIN conv : e = conv'[c].covered /\ Covers(e, c)'
      BY <1>2 DEF CoveredBySome
    <3>1. CASE conv'[c].covered = conv[c].covered
      BY <1>9, <2>1, <3>1 DEF CoveredBySome
    <3>2. CASE conv'[c].covered = marks[j][c]
      BY <1>9, <2>2, <3>2
    <3> QED BY <1>4, <3>1, <3>2
  <2> QED BY <2>3, SomeIsLonger, PTL
<1>11. OpenAreFresh'
  BY <1>2, <1>4 DEF IInv, RowsOK, OpenAreFresh, Live
<1>12. GoneWereCovered'
  BY <1>2, <1>4, <1>9 DEF IInv, RowsOK, GoneWereCovered
<1>13. Chain'
  <2> SUFFICES ASSUME NEW c \in DOMAIN conv, NEW d \in DOMAIN conv, Wanted(c), Live(d),
                      ~conv'[d].pending \/ conv'[d].covered # 0, Covers(d, c),
                      conv[c].covered = 0, marks[j][c] = 0
               PROVE  FALSE
    BY <1>2, <1>3, <1>4, <1>9, BoundsAssumption DEF Chain, Wanted, Live
  <2>1. \A m \in uncovered[j] : ~Covers(m, c)
    BY <1>1 DEF JobOK, MarksWhole
  <2>2. conv[d].pending /\ conv[d].covered = 0
    BY DEF IInv, RowsOK, Chain
  <2>3. CASE d \in batch[j]
    BY <1>1, <2>1, <2>2, <2>3 DEF JobOK, BatchKnown
  <2>4. CASE marks[j][d] # 0
    <3>1. PICK m \in uncovered[j] : m \in DOMAIN conv /\ Covers(m, d)
      BY <1>1, <1>3, <2>4 DEF JobOK, MarksTrue, BatchKnown
    <3> QED BY <2>1, <3>1, CoversTransitive DEF IInv
  <2> QED BY <1>4, <2>2, <2>3, <2>4
<1>14. JobOK(j)'
  <2>1. BatchKnown(j)'
    BY <1>1, <1>2, <1>4, <1>8 DEF JobOK, BatchKnown, Visible
  <2>2. MarksTrue(j)' /\ MarksWhole(j)'
    BY <1>8 DEF MarksTrue, MarksWhole
  <2>3. NoneBehind(j)'
    <3> SUFFICES ASSUME NEW i \in DOMAIN conv, i <= cursor[j], Live(i), conv'[i].pending
                 PROVE  conv'[i].late
      BY <1>2, <1>4, <1>8 DEF NoneBehind, Live
    <3>1. conv[i].pending /\ i \notin batch[j]
      BY <1>4
    <3> QED BY <1>1, <1>4, <3>1 DEF JobOK, NoneBehind
  <2> QED BY <2>1, <2>2, <2>3 DEF JobOK
<1>15. \A k \in Jobs : k # j => JobOK(k)'
  BY <1>7, <1>8, JobKept
<1> QED BY <1>6, <1>10, <1>11, <1>12, <1>13, <1>14, <1>15 DEF IInv, RowsOK

-----------------------------------------------------------------------------
LEMMA NextInv == IInv /\ [Next]_vars => IInv'
<1> SUFFICES ASSUME IInv, [Next]_vars PROVE IInv'
  OBVIOUS
<1>1. ASSUME NEW p \in Payloads, Insert(p) PROVE IInv'
  BY <1>1, InsertInv
<1>2. ASSUME NEW i \in DOMAIN conv, Publish(i) PROVE IInv'
  BY <1>2, PublishInv
<1>3. ASSUME NEW j \in Jobs, Request(j) \/ InsertJob(j) PROVE IInv'
  BY <1>3, RequestInv
<1>4. ASSUME NEW j \in Jobs, ReachLimit(j) \/ TimeOut(j) \/ Exhaust(j) \/ Fail(j) PROVE IInv'
  <2>1. "limited" \in Outcomes /\ "timeout" \in Outcomes /\ "completed" \in Outcomes
        /\ "failed" \in Outcomes
    BY DEF Outcomes
  <2> QED BY <1>4, <2>1, LeaveInv DEF ReachLimit, TimeOut, Exhaust, Fail
<1>5. ASSUME NEW j \in Jobs, Fetch(j) PROVE IInv'
  BY <1>5, FetchInv
<1>6. ASSUME NEW j \in Jobs, Mark(j) PROVE IInv'
  BY <1>6, MarkInv
<1>7. ASSUME NEW j \in Jobs, Commit(j) PROVE IInv'
  BY <1>7, CommitInv
<1>8. ASSUME NEW j \in Jobs, Finish(j) \/ Crash(j) PROVE IInv'
  <2>1. Return(j) /\ status' \in [Jobs -> Statuses]
    BY <1>8 DEF Finish, Crash, IInv, TypeOK, Statuses
  <2> QED BY <2>1, ReturnInv
<1>9. CASE Cleanup
  BY <1>9, CleanupInv
<1>10. CASE UNCHANGED vars
  <2>1. /\ conv' = conv /\ status' = status /\ pc' = pc /\ config' = config /\ batch' = batch
        /\ uncovered' = uncovered /\ marks' = marks /\ cursor' = cursor
        /\ processed' = processed /\ outcome' = outcome
    BY <1>10 DEF vars, locals
  <2>2. TypeOK'
    BY <2>1 DEF IInv, TypeOK
  <2>3. ASSUME NEW j \in Jobs PROVE JobOK(j)'
    <3>1. JobOK(j)
      BY DEF IInv
    <3> QED BY <2>1, <3>1 DEF JobOK, BatchKnown, MarksTrue, MarksWhole, NoneBehind,
                              Visible, Live, Wanted, Covers
  <2> QED BY <2>1, <2>2, <2>3 DEF IInv, RowsOK, CoveredByLonger, OpenAreFresh,
                                  GoneWereCovered, Chain, Covers, Wanted, Live
<1> QED BY <1>1, <1>2, <1>3, <1>4, <1>5, <1>6, <1>7, <1>8, <1>9, <1>10 DEF Next, Step

(* What holds at every step of the jobs, the archive and the clean-ups.    *)
THEOREM GovernanceInvariant == Spec => []IInv
BY InitInv, NextInv, PTL DEF Spec

(* The tables, cursors and marks keep their types, and no job counts more  *)
(* than its max_records (run_coverage_analysis, _load_pending_batch).      *)
THEOREM TypeCorrect == Spec => []TypeOK
<1>1. IInv => TypeOK
  BY DEF IInv
<1> QED BY <1>1, GovernanceInvariant, PTL

LEMMA NothingLostNow == IInv => NothingLost
<1> SUFFICES ASSUME IInv, NEW c \in DOMAIN conv, conv[c].row = "covered"
             PROVE  \E e \in DOMAIN conv : Covers(e, c) /\ conv[e].row # "covered"
  BY DEF NothingLost, IInv, RowsOK
<1> DEFINE S == {e \in DOMAIN conv : Covers(e, c)}
<1>1. S # {}
  BY DEF IInv, RowsOK, GoneWereCovered
<1>2. MaxRows \in Nat /\ S \in SUBSET (0..MaxRows)
  BY ConvType, BoundsAssumption DEF IInv, Rows
<1>3. PICK e \in S : \A d \in S : d <= e
  <2> HIDE DEF S
  <2> QED BY <1>1, <1>2, GreatestBelow
<1>4. ASSUME conv[e].row = "covered" PROVE FALSE
  <2>1. PICK d \in DOMAIN conv : Covers(d, e)
    BY <1>4 DEF IInv, RowsOK, GoneWereCovered
  <2>2. d \in S
    BY <2>1, CoversTransitive DEF IInv
  <2>3. e < d /\ d <= e /\ d \in Nat /\ e \in Nat
    BY <1>2, <1>3, <2>1, <2>2 DEF Covers
  <2> QED BY <2>3
<1> QED BY <1>4

(* Clean-up of covered conversations loses no exchange: what is marked is   *)
(* covered, and what was deleted as covered is the beginning of one that    *)
(* was not, however jobs, failures and clean-ups interleave                 *)
(* (_mark_covered_by_group, cleanup_training_data).                         *)
THEOREM NoExchangeLost == Spec => []NothingLost
BY NothingLostNow, GovernanceInvariant, PTL

(* A finished part of the analysis left no visible repetition unmarked,     *)
(* but for what became visible out of order (run_coverage_analysis).        *)
THEOREM NoRepetitionMissed == Spec => []NoneMissed
<1>1. ASSUME IInv PROVE NoneMissed
  <2>1. NothingBehind
    <3> SUFFICES ASSUME NEW j \in Jobs,
                        pc[j] = "loop" \/ (pc[j] = "finish" /\ outcome[j] # "failed")
                 PROVE  \A i \in DOMAIN conv : i <= cursor[j] /\ Live(i) /\ conv[i].pending
                                                   => conv[i].late
      BY DEF NothingBehind
    <3>1. JobOK(j)
      BY <1>1 DEF IInv
    <3> QED BY <3>1 DEF JobOK, NoneBehind, BatchKnown
  <2> QED BY <1>1, <2>1 DEF NoneMissed, IInv, RowsOK, Chain, Wanted
<1> QED BY <1>1, GovernanceInvariant, PTL

=============================================================================
