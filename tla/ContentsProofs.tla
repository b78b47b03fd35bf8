--------------------------- MODULE ContentsProofs ---------------------------
(***************************************************************************)
(* What is kept of an answer is what there was: of streams (StreamArchive) *)
(* for every answer, limit and way it is cut, and of generated images      *)
(* (ImageAssets) for every number of tasks, images and answers.  And what  *)
(* is decided, masked and shown of a chat (ChatText) is what its text and  *)
(* the rules say, for every nested content and every set of rules.         *)
(***************************************************************************)
EXTENDS StreamArchive, ImageAssets, ChatText, FiniteSetTheorems, TLAPS

-----------------------------------------------------------------------------
(* A set of naturals has a least element, which serves as induction here.  *)
LEMMA LeastNatural ==
    ASSUME NEW S \in SUBSET Nat, S # {}
    PROVE  \E m \in S : \A n \in S : m <= n
<1> DEFINE R == {p \in Nat \X Nat : p[1] < p[2]}
<1>1. IsWellFoundedOn(R, Nat)
  BY NatLessThanWellFounded DEF OpToRel
<1>2. \A m, n \in Nat : n < m => <<n, m>> \in R
  OBVIOUS
<1> HIDE DEF R
<1>3. PICK m \in S : \A n \in S : <<n, m>> \notin R
  BY <1>1, WFMin
<1>4. \A n \in S : ~(n < m)
  BY <1>2, <1>3
<1> QED BY <1>4

(* One step of FlattenSeq's recursion.                                     *)
Flat(g, seqs, i) == IF i = 1 THEN seqs[i] ELSE g[i - 1] \o seqs[i]

LEMMA FlatExists ==
    ASSUME NEW S, NEW seqs \in Seq(Seq(S)), NEW k \in 1..Len(seqs)
    PROVE  \E g \in [1..k -> Seq(S)] : \A i \in 1..k : g[i] = Flat(g, seqs, i)
<1> DEFINE Good(m) == \E g \in [1..m -> Seq(S)] : \A i \in 1..m : g[i] = Flat(g, seqs, i)
           Bad == {m \in 1..Len(seqs) : ~Good(m)}
<1>1. SUFFICES ASSUME Bad # {} PROVE FALSE
  OBVIOUS
<1>2. PICK m \in Bad : \A n \in Bad : m <= n
  <2>1. Bad \in SUBSET Nat
    OBVIOUS
  <2> HIDE DEF Bad
  <2> QED BY <1>1, <2>1, LeastNatural
<1>3. m \in 1..Len(seqs) /\ ~Good(m) /\ seqs[m] \in Seq(S) /\ seqs[1] \in Seq(S)
  BY <1>2
<1>4. CASE m = 1
  <2> DEFINE h == [i \in 1..m |-> seqs[1]]
  <2>1. h \in [1..m -> Seq(S)] /\ \A i \in 1..m : h[i] = Flat(h, seqs, i)
    BY <1>3, <1>4 DEF Flat
  <2> QED BY <1>3, <2>1
<1>5. CASE m # 1
  <2>1. m - 1 \in 1..Len(seqs) /\ m - 1 \notin Bad
    <3>1. m - 1 \in 1..Len(seqs) /\ ~(m <= m - 1)
      BY <1>3, <1>5
    <3> HIDE DEF Bad
    <3> QED BY <1>2, <3>1
  <2>2. PICK g \in [1..(m - 1) -> Seq(S)] : \A i \in 1..(m - 1) : g[i] = Flat(g, seqs, i)
    BY <2>1
  <2> DEFINE h == [i \in 1..m |-> IF i = m THEN g[m - 1] \o seqs[m] ELSE g[i]]
  <2>3. h \in [1..m -> Seq(S)]
    <3>1. g[m - 1] \in Seq(S)
      BY <2>1, <2>2
    <3>2. g[m - 1] \o seqs[m] \in Seq(S)
      BY <1>3, <3>1
    <3>3. \A i \in 1..m : i # m => i \in 1..(m - 1)
      BY <1>3
    <3> QED BY <2>2, <3>2, <3>3
  <2>4. ASSUME NEW i \in 1..m PROVE h[i] = Flat(h, seqs, i)
    <3>1. CASE i = m
      <4>1. m \in 1..m /\ m - 1 \in 1..m /\ m - 1 # m
        BY <2>1, <1>3
      <4>2. h[m] = g[m - 1] \o seqs[m] /\ h[m - 1] = g[m - 1]
        BY <4>1
      <4> HIDE DEF h
      <4> QED BY <3>1, <4>2, <1>5 DEF Flat
    <3>2. CASE i # m
      <4>1. i \in 1..(m - 1) /\ h[i] = g[i]
        BY <1>3, <3>2
      <4>2. i # 1 => h[i - 1] = g[i - 1]
        BY <1>3, <4>1
      <4> QED BY <2>2, <4>1, <4>2 DEF Flat
    <3> QED BY <3>1, <3>2
  <2> QED BY <1>3, <2>3, <2>4
<1> QED BY <1>4, <1>5

(* The function that FlattenSeq chooses takes these steps.                 *)
LEMMA FlattenIs ==
    ASSUME NEW S, NEW seqs \in Seq(Seq(S)), Len(seqs) # 0
    PROVE  \E f : /\ FlattenSeq(seqs) = f[Len(seqs)]
                  /\ \A i \in 1..Len(seqs) : f[i] = Flat(f, seqs, i)
<1>1. PICK n : n = Len(seqs) /\ n \in Nat /\ n # 0 /\ n \in 1..n
  <2>1. PICK n \in Nat : n = Len(seqs) /\ n # 0
    OBVIOUS
  <2>2. n \in 1..n
    BY <2>1
  <2> QED BY <2>1, <2>2
<1>2. PICK g \in [1..n -> Seq(S)] : \A i \in 1..n : g[i] = Flat(g, seqs, i)
  BY <1>1, FlatExists
<1>3. g = [i \in 1..n |-> IF i = 1 THEN seqs[i] ELSE g[i - 1] \o seqs[i]]
  BY <1>2 DEF Flat
<1> DEFINE f == CHOOSE x : x = [i \in 1..n |-> IF i = 1 THEN seqs[i] ELSE x[i - 1] \o seqs[i]]
<1>4. FlattenSeq(seqs) = f[n]
  BY <1>1 DEF FlattenSeq
<1>5. f = [i \in 1..n |-> IF i = 1 THEN seqs[i] ELSE f[i - 1] \o seqs[i]]
  BY <1>3
<1> HIDE DEF f
<1>6. \A i \in 1..n : f[i] = Flat(f, seqs, i)
  BY <1>5 DEF Flat
<1> QED BY <1>1, <1>4, <1>6

(* What FlattenSeq makes of sequences is a sequence of their elements.     *)
LEMMA FlattenType ==
    ASSUME NEW S, NEW seqs \in Seq(Seq(S))
    PROVE  FlattenSeq(seqs) \in Seq(S)
<1>1. CASE Len(seqs) = 0
  BY <1>1 DEF FlattenSeq
<1>2. CASE Len(seqs) # 0
  <2>1. PICK n : n = Len(seqs) /\ n \in Nat /\ n \in 1..n /\ \A i \in 1..n : seqs[i] \in Seq(S)
    BY <1>2
  <2>2. PICK f : FlattenSeq(seqs) = f[n] /\ \A i \in 1..n : f[i] = Flat(f, seqs, i)
    BY <1>2, <2>1, FlattenIs
  <2> DEFINE Bad == {m \in 1..n : f[m] \notin Seq(S)}
  <2>3. SUFFICES ASSUME Bad # {} PROVE FALSE
    BY <2>1, <2>2
  <2>4. PICK m \in Bad : \A k \in Bad : m <= k
    <3>1. Bad \in SUBSET Nat
      OBVIOUS
    <3> HIDE DEF Bad
    <3> QED BY <2>3, <3>1, LeastNatural
  <2>5. m \in 1..n /\ f[m] \notin Seq(S) /\ f[m] = Flat(f, seqs, m) /\ seqs[m] \in Seq(S)
    BY <2>1, <2>2, <2>4
  <2>6. m # 1
    BY <2>5 DEF Flat
  <2>7. m - 1 \in 1..n /\ ~(m <= m - 1)
    BY <2>1, <2>5, <2>6
  <2>8. f[m - 1] \in Seq(S)
    BY <2>4, <2>7
  <2> QED BY <2>5, <2>6, <2>8 DEF Flat
<1> QED BY <1>1, <1>2

(* Sequences that are joined, and what two parts of one make together.     *)
LEMMA SameSeq ==
    ASSUME NEW S, NEW s \in Seq(S), NEW t \in Seq(S), Len(s) = Len(t),
           \A i \in 1..Len(s) : s[i] = t[i]
    PROVE  s = t
OBVIOUS

LEMMA SeqsJoined ==
    ASSUME NEW S, NEW s \in Seq(S), NEW t \in Seq(S)
    PROVE  /\ s \o t \in Seq(S) /\ Len(s \o t) = Len(s) + Len(t)
           /\ Len(s) \in Nat /\ Len(t) \in Nat
           /\ \A i \in 1..Len(s) : (s \o t)[i] = s[i]
           /\ \A i \in 1..Len(t) : (s \o t)[Len(s) + i] = t[i]
OBVIOUS

LEMMA TakeOn ==
    ASSUME NEW S, NEW s \in Seq(S), NEW m \in Nat, NEW n \in Nat, m + n <= Len(s)
    PROVE  SubSeq(s, 1, m) \o SubSeq(s, m + 1, m + n) = SubSeq(s, 1, m + n)
<1> DEFINE t == SubSeq(s, 1, m)
           u == SubSeq(s, m + 1, m + n)
           v == SubSeq(s, 1, m + n)
<1>1. t \in Seq(S) /\ Len(t) = m /\ \A i \in 1..m : t[i] = s[i]
  OBVIOUS
<1>2. u \in Seq(S) /\ Len(u) = n /\ \A i \in 1..n : u[i] = s[m + i]
  OBVIOUS
<1>3. v \in Seq(S) /\ Len(v) = m + n /\ \A i \in 1..(m + n) : v[i] = s[i]
  OBVIOUS
<1> HIDE DEF t, u, v
<1>4. /\ t \o u \in Seq(S) /\ Len(t \o u) = m + n
      /\ \A i \in 1..m : (t \o u)[i] = t[i]
      /\ \A i \in 1..n : (t \o u)[m + i] = u[i]
  <2>1. /\ t \o u \in Seq(S) /\ Len(t \o u) = Len(t) + Len(u)
        /\ \A i \in 1..Len(t) : (t \o u)[i] = t[i]
        /\ \A i \in 1..Len(u) : (t \o u)[Len(t) + i] = u[i]
    <3>1. t \in Seq(S) /\ u \in Seq(S)
      BY <1>1, <1>2
    <3> QED BY <3>1, SeqsJoined
  <2> QED BY <1>1, <1>2, <2>1
<1>5. ASSUME NEW i \in 1..(m + n) PROVE (t \o u)[i] = v[i]
  <2>1. CASE i <= m
    BY <1>1, <1>3, <1>4, <2>1
  <2>2. CASE ~(i <= m)
    <3> DEFINE j == i - m
    <3>1. j \in 1..n /\ i = m + j
      BY <2>2
    <3> HIDE DEF j
    <3>2. (t \o u)[m + j] = v[m + j]
      BY <1>2, <1>3, <1>4, <3>1
    <3> QED BY <3>1, <3>2
  <2> QED BY <2>1, <2>2
<1>6. t \o u = v
  BY <1>3, <1>4, <1>5, SameSeq
<1> QED BY <1>6 DEF t, u, v

-----------------------------------------------------------------------------
(* Generated images (ImageAssets).                                         *)
ImagesSpec == ImagesInit /\ [][ImagesNext]_imageVars

Pcs == {"next", "url", "b64_json", "write", "completed", "failed", "done", "raised", "killed"}
AtWork == {"url", "b64_json", "write", "completed", "failed"}
SourceRecords == [index : Indices, type : {"url", "b64_json"}, content : Images \cup {Junk}]

TaskTypes ==
    /\ id \in [Tasks -> Ids] /\ sources \in [Tasks -> Seq(SourceRecords)]
    /\ pc \in [Tasks -> Pcs]
    /\ current \in [Tasks -> Nat] /\ hops \in [Tasks -> Nat]
    /\ content \in [Tasks -> Images \cup {Nothing}]
    /\ unsure \in [Tasks -> SUBSET Nat]
    /\ file \in [Paths -> Images \cup {Nothing, Partial}]

(* The rows of a task for one of its sources, and that it has done with it. *)
RowsFor(t, n) == {r \in row : r.task = t /\ r.source = n}
DoneWith(t, n) == n < current[t] \/ (n = current[t] /\ pc[t] \in {"next", "done"})

(* A source is recorded when its task goes on to the next, and not before. *)
RecordedInTurn(t) ==
    pc[t] \in AtWork \cup {"next", "done"} =>
        \A n \in DOMAIN sources[t] \ unsure[t] :
            IF DoneWith(t, n) THEN \E r \in row : RowsFor(t, n) = {r} ELSE RowsFor(t, n) = {}
PlaceOK(t) == /\ current[t] <= Len(sources[t])
              /\ pc[t] \in AtWork => current[t] > 0
              /\ pc[t] = "done" => current[t] = Len(sources[t])
ContentOK(t) == pc[t] \in {"write", "completed"} => content[t] \in Images
WrittenOK(t) == pc[t] = "completed" => file[Path(t)] \in {content[t], Partial}
TaskOK(t) == RecordedInTurn(t) /\ PlaceOK(t) /\ ContentOK(t) /\ WrittenOK(t)

(* A file's name has its content's hash, so that what else is written to   *)
(* it is the same.                                                         *)
RowOK(r) == r.status = "completed" =>
    r.path \in Paths /\ r.path[3] = r.content /\ file[r.path] \in {r.content, Partial}

ImagesIInv == /\ TaskTypes
              /\ \A t \in Tasks : TaskOK(t)
              /\ \A r \in row : RowOK(r)

(* What a step of one task leaves alone.                                   *)
Frame(t) == /\ UNCHANGED <<id, sources>>
            /\ \A u \in Tasks \ {t} : /\ pc'[u] = pc[u] /\ current'[u] = current[u]
                                      /\ content'[u] = content[u] /\ unsure'[u] = unsure[u]
FilesMaySuffer == \A p \in Paths : file'[p] = file[p] \/ file'[p] = Partial \/ file'[p] = p[3]

LEMMA SourcesType == ASSUME NEW a \in Answers PROVE Sources(a) \in Seq(SourceRecords)
<1> DEFINE From(i, type, what) == IF what = Nothing THEN <<>>
                                  ELSE <<[index |-> i - 1, type |-> type, content |-> what]>>
           parts == [i \in DOMAIN a |-> From(i, "url", a[i].url) \o From(i, "b64_json", a[i].b64_json)]
<1> DEFINE Items == [url : Images \cup {Junk, Nothing}, b64_json : Images \cup {Junk, Nothing}]
<1>a. a \in Seq(Items)
  BY AnswersAssumption
<1>1. /\ Len(a) \in Nat /\ DOMAIN a = 1..Len(a)
      /\ \A i \in DOMAIN a : /\ a[i].url \in Images \cup {Junk, Nothing}
                             /\ a[i].b64_json \in Images \cup {Junk, Nothing}
  <2>1. \A i \in DOMAIN a : a[i] \in Items
    <3> HIDE DEF Items
    <3> QED BY <1>a
  <2>2. Len(a) \in Nat /\ DOMAIN a = 1..Len(a)
    <3> HIDE DEF Items
    <3> QED BY <1>a
  <2> QED BY <2>1, <2>2
<1>2. \A i \in DOMAIN a : i - 1 \in Indices
  BY DEF Indices
<1>3. ASSUME NEW i \in DOMAIN a, NEW type \in {"url", "b64_json"},
             NEW what \in Images \cup {Junk, Nothing}
      PROVE  From(i, type, what) \in Seq(SourceRecords)
  <2>1. what # Nothing =>
          [index |-> i - 1, type |-> type, content |-> what] \in SourceRecords
    BY <1>2 DEF SourceRecords
  <2> QED BY <2>1
<1>4. \A i \in DOMAIN a : parts[i] \in Seq(SourceRecords)
  <2> SUFFICES ASSUME NEW i \in DOMAIN a PROVE parts[i] \in Seq(SourceRecords)
    OBVIOUS
  <2>1. /\ From(i, "url", a[i].url) \in Seq(SourceRecords)
        /\ From(i, "b64_json", a[i].b64_json) \in Seq(SourceRecords)
    BY <1>1, <1>3
  <2> HIDE DEF From
  <2> QED BY <2>1
<1>5. parts \in Seq(Seq(SourceRecords))
  <2>1. DOMAIN parts = 1..Len(a)
    BY <1>1
  <2> HIDE DEF parts
  <2>2. parts \in [1..Len(a) -> Seq(SourceRecords)]
    <3>1. parts = [i \in DOMAIN parts |-> parts[i]]
      BY DEF parts
    <3> QED BY <1>1, <1>4, <2>1, <3>1
  <2> QED BY <1>1, <2>2
<1>6. Sources(a) = FlattenSeq(parts)
  BY DEF Sources
<1> HIDE DEF parts
<1> QED BY <1>5, <1>6, FlattenType

LEMMA GivenType == \A g \in Given : g \in [Tasks -> Seq(SourceRecords)]
<1>1. {Sources(a) : a \in Answers} \subseteq Seq(SourceRecords)
  BY SourcesType
<1> QED BY <1>1 DEF Given

LEMMA ImagesInitIInv == ImagesInit => ImagesIInv
<1> SUFFICES ASSUME ImagesInit PROVE ImagesIInv
  OBVIOUS
<1>1. sources \in [Tasks -> Seq(SourceRecords)]
  BY GivenType DEF ImagesInit
<1>2. TaskTypes
  BY <1>1 DEF ImagesInit, TaskTypes, Pcs
<1>3. ASSUME NEW t \in Tasks PROVE TaskOK(t)
  <2>1. pc[t] = "next" /\ current[t] = 0 /\ row = {} /\ Len(sources[t]) \in Nat
        /\ DOMAIN sources[t] = 1..Len(sources[t])
    BY <1>1 DEF ImagesInit
  <2>2. \A n \in DOMAIN sources[t] : ~DoneWith(t, n) /\ RowsFor(t, n) = {}
    BY <2>1 DEF DoneWith, RowsFor
  <2> QED BY <2>1, <2>2 DEF TaskOK, RecordedInTurn, PlaceOK, ContentOK, WrittenOK, AtWork
<1> QED BY <1>2, <1>3 DEF ImagesInit, ImagesIInv

(* The path of a source at work, and where its content stands in it.       *)
LEMMA PathOfTask ==
    ASSUME TaskTypes, NEW t \in Tasks, PlaceOK(t), ContentOK(t), pc[t] \in {"write", "completed"}
    PROVE  Path(t) \in Paths /\ Path(t)[3] = content[t]
<1>1. current[t] \in DOMAIN sources[t] /\ Source(t) \in SourceRecords
  <2>1. sources[t] \in Seq(SourceRecords) /\ current[t] \in Nat
    BY DEF TaskTypes
  <2>2. current[t] \in 1..Len(sources[t])
    BY <2>1 DEF PlaceOK, AtWork
  <2> QED BY <2>1, <2>2 DEF Source
<1>2. Source(t).index \in Indices /\ content[t] \in Images /\ id[t] \in Ids
  BY <1>1 DEF SourceRecords, ContentOK, TaskTypes
<1> QED BY <1>2 DEF Path, Paths

(* A row stays true whatever else is written.                              *)
LEMMA RowsStay ==
    ASSUME ImagesIInv, FilesMaySuffer, NEW r \in row
    PROVE  RowOK(r)'
<1>1. RowOK(r)
  BY DEF ImagesIInv
<1> QED BY <1>1 DEF RowOK, FilesMaySuffer

(* No step of a task disturbs another.                                     *)
LEMMA OtherTasks ==
    ASSUME ImagesIInv, NEW t \in Tasks, NEW u \in Tasks, u # t, Frame(t), FilesMaySuffer,
           row' = row \/ row' = row \cup {Row(t)}
    PROVE  TaskOK(u)'
<1>1. TaskOK(u) /\ TaskTypes
  BY DEF ImagesIInv
<1>2. /\ id' = id /\ sources' = sources
      /\ pc'[u] = pc[u] /\ current'[u] = current[u]
      /\ content'[u] = content[u] /\ unsure'[u] = unsure[u]
  BY DEF Frame
<1>3. \A n : RowsFor(u, n)' = RowsFor(u, n)
  <2>1. Row(t).task = t
    BY DEF Row
  <2>2. \A r : r.task = u => (r \in row' <=> r \in row)
    <3> HIDE DEF Row
    <3> QED BY <2>1
  <2>3. ASSUME NEW n PROVE RowsFor(u, n)' = RowsFor(u, n)
    BY <2>2 DEF RowsFor
  <2> QED BY <2>3
<1>4. RecordedInTurn(u)'
  <2>1. row \subseteq row'
    OBVIOUS
  <2>2. \A n : DoneWith(u, n)' <=> DoneWith(u, n)
    BY <1>2 DEF DoneWith
  <2>3. RecordedInTurn(u)
    BY <1>1 DEF TaskOK
  <2> QED BY <1>2, <1>3, <2>1, <2>2, <2>3 DEF RecordedInTurn
<1>5. PlaceOK(u)' /\ ContentOK(u)'
  BY <1>1, <1>2 DEF TaskOK, PlaceOK, ContentOK
<1>6. WrittenOK(u)'
  <2> SUFFICES ASSUME pc[u] = "completed" PROVE file'[Path(u)'] \in {content[u], Partial}
    BY <1>2 DEF WrittenOK
  <2>1. Path(u)' = Path(u)
    BY <1>2 DEF Path, Source
  <2>2. Path(u) \in Paths /\ Path(u)[3] = content[u]
    BY <1>1, PathOfTask DEF TaskOK
  <2>3. file[Path(u)] \in {content[u], Partial}
    BY <1>1 DEF TaskOK, WrittenOK
  <2> QED BY <2>1, <2>2, <2>3 DEF FilesMaySuffer
<1> QED BY <1>4, <1>5, <1>6 DEF TaskOK

(* A step of a task that keeps its own part of the invariant keeps all.    *)
LEMMA TaskStep ==
    ASSUME ImagesIInv, NEW t \in Tasks, Frame(t), FilesMaySuffer, TaskTypes', TaskOK(t)',
           row' = row \/ (row' = row \cup {Row(t)} /\ RowOK(Row(t)))
    PROVE  ImagesIInv'
<1>1. \A u \in Tasks : TaskOK(u)'
  BY OtherTasks
<1>2. ASSUME NEW r \in row' PROVE RowOK(r)'
  <2>1. CASE r \in row
    BY <2>1, RowsStay
  <2>2. CASE r \notin row
    <3>1. RowOK(r)
      BY <2>2
    <3> QED BY <3>1 DEF RowOK, FilesMaySuffer
  <2> QED BY <2>1, <2>2
<1> QED BY <1>1, <1>2 DEF ImagesIInv

LEMMA NextSourceStep == ASSUME ImagesIInv, NEW t \in Tasks, NextSource(t) PROVE ImagesIInv'
<1>1. TaskTypes /\ TaskOK(t) /\ pc[t] = "next"
  BY DEF ImagesIInv, NextSource
<1>2. /\ UNCHANGED <<id, sources, hops, content, file, row, unsure>>
      /\ \/ /\ current[t] = Len(sources[t]) /\ pc' = [pc EXCEPT ![t] = "done"]
            /\ current' = current
         \/ /\ current[t] # Len(sources[t])
            /\ current' = [current EXCEPT ![t] = @ + 1]
            /\ pc' = [pc EXCEPT ![t] = sources[t][current[t] + 1].type]
  BY DEF NextSource, Goto
<1>3. /\ current[t] \in Nat /\ Len(sources[t]) \in Nat /\ current[t] <= Len(sources[t])
      /\ DOMAIN sources[t] = 1..Len(sources[t])
      /\ \A n \in 1..Len(sources[t]) : sources[t][n].type \in {"url", "b64_json"}
  <2>1. sources[t] \in Seq(SourceRecords)
    BY <1>1 DEF TaskTypes
  <2>2. \A n \in 1..Len(sources[t]) : sources[t][n] \in SourceRecords
    BY <2>1
  <2>3. \A n \in 1..Len(sources[t]) : sources[t][n].type \in {"url", "b64_json"}
    BY <2>2 DEF SourceRecords
  <2>4. current[t] \in Nat /\ current[t] <= Len(sources[t])
    BY <1>1 DEF TaskTypes, TaskOK, PlaceOK
  <2> QED BY <2>1, <2>3, <2>4
<1>4. \/ pc'[t] = "done" /\ current'[t] = current[t] /\ current[t] = Len(sources[t])
      \/ /\ pc'[t] \in {"url", "b64_json"} /\ current'[t] = current[t] + 1
         /\ current[t] < Len(sources[t])
  BY <1>1, <1>2, <1>3 DEF TaskTypes
<1>5. /\ pc' \in [Tasks -> Pcs] /\ current' \in [Tasks -> Nat]
      /\ \A u \in Tasks \ {t} : pc'[u] = pc[u] /\ current'[u] = current[u]
  <2>1. pc \in [Tasks -> Pcs] /\ current \in [Tasks -> Nat]
    BY <1>1 DEF TaskTypes
  <2>2. CASE pc' = [pc EXCEPT ![t] = "done"] /\ current' = current
    BY <2>1, <2>2 DEF Pcs
  <2>3. CASE /\ current' = [current EXCEPT ![t] = @ + 1]
             /\ pc' = [pc EXCEPT ![t] = sources[t][current[t] + 1].type]
             /\ current[t] # Len(sources[t])
    <3> DEFINE p == sources[t][current[t] + 1].type
    <3>1. p \in Pcs /\ pc' = [pc EXCEPT ![t] = p]
      BY <1>3, <2>3 DEF Pcs
    <3> HIDE DEF p
    <3>2. pc' \in [Tasks -> Pcs] /\ \A u \in Tasks \ {t} : pc'[u] = pc[u]
      BY <2>1, <3>1
    <3>3. current' \in [Tasks -> Nat] /\ \A u \in Tasks \ {t} : current'[u] = current[u]
      BY <1>3, <2>1, <2>3
    <3> QED BY <3>2, <3>3
  <2> QED BY <1>2, <2>2, <2>3
<1>6. TaskTypes' /\ Frame(t) /\ FilesMaySuffer
  BY <1>1, <1>2, <1>5 DEF TaskTypes, Frame, FilesMaySuffer
<1>7. RecordedInTurn(t)'
  <2>1. \A n \in DOMAIN sources[t] : DoneWith(t, n)' <=> DoneWith(t, n)
    BY <1>1, <1>3, <1>4 DEF DoneWith
  <2>2. \A n : RowsFor(t, n)' = RowsFor(t, n)
    BY <1>2 DEF RowsFor
  <2>3. RecordedInTurn(t)
    BY <1>1 DEF TaskOK
  <2> QED BY <1>1, <1>2, <2>1, <2>2, <2>3 DEF RecordedInTurn
<1>8. PlaceOK(t)' /\ ContentOK(t)' /\ WrittenOK(t)'
  BY <1>2, <1>3, <1>4 DEF PlaceOK, ContentOK, WrittenOK, AtWork
<1> QED BY <1>2, <1>6, <1>7, <1>8, TaskStep DEF TaskOK

LEMMA Working ==
    /\ {"url", "b64_json", "write", "completed", "failed"} \subseteq Pcs \cap AtWork
    /\ "failed" \notin {"write", "completed"}
BY DEF Pcs, AtWork

(* A step between taking a source and recording it.                        *)
LEMMA WorkingStep ==
    ASSUME ImagesIInv, NEW t \in Tasks, NEW p \in Pcs, NEW c,
           pc[t] \in AtWork, p \in AtWork, pc' = [pc EXCEPT ![t] = p],
           content' = [content EXCEPT ![t] = c], c \in Images \cup {Nothing},
           p \in {"write", "completed"} => c \in Images,
           hops' \in [Tasks -> Nat], file' \in [Paths -> Images \cup {Nothing, Partial}],
           FilesMaySuffer, p = "completed" => file'[Path(t)'] \in {c, Partial},
           UNCHANGED <<id, sources, current, row, unsure>>
    PROVE  ImagesIInv'
<1>1. TaskTypes /\ TaskOK(t)
  BY DEF ImagesIInv
<1>2. pc'[t] = p /\ content'[t] = c
  BY <1>1 DEF TaskTypes
<1>3. TaskTypes'
  BY <1>1 DEF TaskTypes
<1>4. Frame(t)
  BY <1>1 DEF Frame, TaskTypes
<1>5. RecordedInTurn(t)'
  <2>1. \A n : RowsFor(t, n)' = RowsFor(t, n)
    BY DEF RowsFor
  <2>2. \A n : DoneWith(t, n)' <=> DoneWith(t, n)
    BY <1>2 DEF DoneWith, AtWork
  <2>3. RecordedInTurn(t)
    BY <1>1 DEF TaskOK
  <2> QED BY <2>1, <2>2, <2>3 DEF RecordedInTurn
<1>6. PlaceOK(t)' /\ ContentOK(t)' /\ WrittenOK(t)'
  BY <1>1, <1>2 DEF TaskOK, PlaceOK, ContentOK, WrittenOK, AtWork
<1> QED BY <1>3, <1>4, <1>5, <1>6, TaskStep DEF TaskOK

LEMMA DecodeStep == ASSUME ImagesIInv, NEW t \in Tasks, Decode(t) PROVE ImagesIInv'
<1>1. /\ TaskTypes /\ TaskOK(t) /\ pc[t] = "b64_json"
      /\ UNCHANGED <<id, sources, current, hops, file, row, unsure>>
  BY DEF ImagesIInv, Decode
<1>2. hops' \in [Tasks -> Nat] /\ file' \in [Paths -> Images \cup {Nothing, Partial}]
      /\ FilesMaySuffer
  BY <1>1 DEF TaskTypes, FilesMaySuffer
<1>3. content[t] \in Images \cup {Nothing} /\ content = [content EXCEPT ![t] = content[t]]
  BY <1>1 DEF TaskTypes
<1>4. CASE Source(t).content = Junk
  BY <1>1, <1>2, <1>3, <1>4, WorkingStep DEF Decode, Goto, AtWork, Pcs
<1>5. CASE Source(t).content # Junk
  <2>1. Source(t).content \in Images
    <3>1. sources[t] \in Seq(SourceRecords) /\ current[t] \in 1..Len(sources[t])
      BY <1>1 DEF TaskTypes, TaskOK, PlaceOK, AtWork
    <3>2. Source(t) \in SourceRecords
      BY <3>1 DEF Source
    <3> QED BY <1>5, <3>2 DEF SourceRecords
  <2> QED BY <1>1, <1>2, <1>5, <2>1, WorkingStep DEF Decode, Goto, Got, AtWork, Pcs
<1> QED BY <1>4, <1>5

LEMMA DownloadStep ==
    ASSUME ImagesIInv, NEW t \in Tasks, Download(t) \/ Redirect(t) \/ DownloadRaises(t)
    PROVE  ImagesIInv'
<1>1. /\ TaskTypes /\ TaskOK(t) /\ pc[t] = "url"
      /\ UNCHANGED <<id, sources, current, file, row, unsure>>
  BY DEF ImagesIInv, Download, Redirect, DownloadRaises
<1>2. file' \in [Paths -> Images \cup {Nothing, Partial}] /\ FilesMaySuffer
  BY <1>1 DEF TaskTypes, FilesMaySuffer
<1>3. /\ content[t] \in Images \cup {Nothing} /\ content = [content EXCEPT ![t] = content[t]]
      /\ pc = [pc EXCEPT ![t] = "url"]
  BY <1>1 DEF TaskTypes
<1>4. hops' \in [Tasks -> Nat]
  <2>1. hops \in [Tasks -> Nat]
    BY <1>1 DEF TaskTypes
  <2>2. CASE hops' = [hops EXCEPT ![t] = 0]
    BY <2>1, <2>2
  <2>3. CASE hops' = [hops EXCEPT ![t] = @ + 1]
    BY <2>1, <2>3
  <2> QED BY <2>2, <2>3 DEF Download, Redirect, DownloadRaises
<1>5. CASE Download(t)
  <2>1. PICK image \in Images : content' = [content EXCEPT ![t] = image]
    BY <1>5 DEF Download, Got
  <2>2. pc' = [pc EXCEPT ![t] = "write"]
    BY <1>5 DEF Download, Goto
  <2> QED BY <1>1, <1>2, <1>4, <2>1, <2>2, Working, WorkingStep
<1>6. CASE Redirect(t)
  BY <1>1, <1>2, <1>3, <1>4, <1>6, WorkingStep DEF Redirect, AtWork, Pcs
<1>7. CASE DownloadRaises(t)
  <2>1. pc' = [pc EXCEPT ![t] = "failed"] /\ content' = content
    BY <1>7 DEF DownloadRaises, Goto
  <2> QED BY <1>1, <1>2, <1>3, <1>4, <2>1, Working, WorkingStep
<1> QED BY <1>5, <1>6, <1>7

(* What a cut write may leave.                                             *)
LEMMA CutShort ==
    ASSUME TaskTypes, NEW t \in Tasks, TaskOK(t), pc[t] = "write",
           file' = file \/ file' = [file EXCEPT ![Path(t)] = Partial]
    PROVE  file' \in [Paths -> Images \cup {Nothing, Partial}] /\ FilesMaySuffer
BY DEF TaskTypes, FilesMaySuffer

LEMMA WriteStep ==
    ASSUME ImagesIInv, NEW t \in Tasks, WriteFile(t) \/ WriteRaises(t) PROVE ImagesIInv'
<1>1. /\ TaskTypes /\ TaskOK(t) /\ pc[t] = "write"
      /\ UNCHANGED <<id, sources, current, hops, row, unsure>>
  BY DEF ImagesIInv, WriteFile, WriteRaises
<1>2. Path(t) \in Paths /\ Path(t)[3] = content[t] /\ content[t] \in Images
  BY <1>1, PathOfTask DEF TaskOK, ContentOK
<1>3. hops' \in [Tasks -> Nat]
  BY <1>1 DEF TaskTypes
<1>4. CASE WriteFile(t)
  <2>1. /\ file' = [file EXCEPT ![Path(t)] = content[t]] /\ content' = content
        /\ pc' = [pc EXCEPT ![t] = "completed"]
    BY <1>4 DEF WriteFile, Goto
  <2>2. Path(t)' = Path(t)
    BY <1>1, <2>1 DEF Path, Source
  <2>3. /\ file' \in [Paths -> Images \cup {Nothing, Partial}] /\ FilesMaySuffer
        /\ file'[Path(t)] = content[t]
    BY <1>1, <1>2, <2>1 DEF TaskTypes, FilesMaySuffer
  <2>4. content' = [content EXCEPT ![t] = content[t]]
    BY <1>1, <2>1 DEF TaskTypes
  <2> QED BY <1>1, <1>2, <1>3, <2>1, <2>2, <2>3, <2>4, Working, WorkingStep
<1>5. CASE WriteRaises(t)
  <2>1. file' \in [Paths -> Images \cup {Nothing, Partial}] /\ FilesMaySuffer
    BY <1>1, <1>5, CutShort DEF WriteRaises
  <2>2. pc' = [pc EXCEPT ![t] = "failed"] /\ content' = [content EXCEPT ![t] = Nothing]
    BY <1>5 DEF WriteRaises, Goto, Got
  <2> QED BY <1>1, <1>3, <2>1, <2>2, Working, WorkingStep
<1> QED BY <1>4, <1>5

(* The row that a task is about to record is true.                         *)
LEMMA NewRow ==
    ASSUME TaskTypes, NEW t \in Tasks, TaskOK(t), pc[t] \in {"completed", "failed"}
    PROVE  RowOK(Row(t)) /\ Row(t).task = t /\ Row(t).source = current[t]
<1>1. CASE pc[t] = "completed"
  <2>1. Path(t) \in Paths /\ Path(t)[3] = content[t] /\ file[Path(t)] \in {content[t], Partial}
    BY <1>1, PathOfTask DEF TaskOK, WrittenOK
  <2> QED BY <1>1, <2>1 DEF Row, RowOK
<1>2. CASE pc[t] = "failed"
  BY <1>2 DEF Row, RowOK
<1> QED BY <1>1, <1>2

LEMMA RecordStep == ASSUME ImagesIInv, NEW t \in Tasks, Record(t) PROVE ImagesIInv'
<1>1. /\ TaskTypes /\ TaskOK(t) /\ pc[t] \in {"completed", "failed"}
      /\ row' = row \cup {Row(t)} /\ pc' = [pc EXCEPT ![t] = "next"]
      /\ content' = [content EXCEPT ![t] = Nothing]
      /\ UNCHANGED <<id, sources, current, hops, file, unsure>>
  BY DEF ImagesIInv, Record, Goto, Got
<1>2. TaskTypes' /\ Frame(t) /\ FilesMaySuffer /\ pc'[t] = "next"
  BY <1>1 DEF TaskTypes, Frame, FilesMaySuffer, Pcs
<1>3. RowOK(Row(t)) /\ Row(t).task = t /\ Row(t).source = current[t]
  BY <1>1, NewRow
<1>4. RecordedInTurn(t)'
  <2> SUFFICES ASSUME NEW n \in DOMAIN sources[t] \ unsure[t]
               PROVE  IF DoneWith(t, n)' THEN \E r \in row' : RowsFor(t, n)' = {r}
                      ELSE RowsFor(t, n)' = {}
    BY <1>1 DEF RecordedInTurn
  <2>1. IF DoneWith(t, n) THEN \E r \in row : RowsFor(t, n) = {r} ELSE RowsFor(t, n) = {}
    BY <1>1 DEF TaskOK, RecordedInTurn, AtWork
  <2>2. CASE n = current[t]
    <3>1. RowsFor(t, n) = {} /\ DoneWith(t, n)'
      BY <1>1, <1>2, <2>1, <2>2 DEF DoneWith, TaskTypes
    <3>2. RowsFor(t, n)' = {Row(t)}
      <4> HIDE DEF Row
      <4> QED BY <1>1, <1>3, <2>2, <3>1 DEF RowsFor
    <3> QED BY <1>1, <3>1, <3>2
  <2>3. CASE n # current[t]
    <3>1. DoneWith(t, n)' <=> DoneWith(t, n)
      BY <1>1, <2>3 DEF DoneWith
    <3>2. RowsFor(t, n)' = RowsFor(t, n)
      BY <1>1, <1>3, <2>3 DEF RowsFor
    <3> QED BY <1>1, <2>1, <3>1, <3>2
  <2> QED BY <2>2, <2>3
<1>5. PlaceOK(t)' /\ ContentOK(t)' /\ WrittenOK(t)'
  BY <1>1, <1>2 DEF TaskOK, PlaceOK, ContentOK, WrittenOK, AtWork
<1> QED BY <1>1, <1>2, <1>3, <1>4, <1>5, TaskStep DEF TaskOK

LEMMA RecordRaisesStep == ASSUME ImagesIInv, NEW t \in Tasks, RecordRaises(t) PROVE ImagesIInv'
<1>1. /\ TaskTypes /\ TaskOK(t) /\ pc[t] \in {"completed", "failed"}
      /\ row' = row \/ row' = row \cup {Row(t)}
      /\ pc' = [pc EXCEPT ![t] = IF pc[t] = "completed" THEN "failed" ELSE "raised"]
      /\ content' = [content EXCEPT ![t] = Nothing]
      /\ unsure' = [unsure EXCEPT ![t] = @ \cup {current[t]}]
      /\ UNCHANGED <<id, sources, current, hops, file>>
  BY DEF ImagesIInv, RecordRaises, Goto, Got
<1>2. /\ unsure' \in [Tasks -> SUBSET Nat] /\ unsure'[t] = unsure[t] \cup {current[t]}
      /\ \A u \in Tasks \ {t} : unsure'[u] = unsure[u]
  BY <1>1 DEF TaskTypes
<1>3. /\ pc'[t] \in {"failed", "raised"} /\ pc' \in [Tasks -> Pcs]
      /\ \A u \in Tasks \ {t} : pc'[u] = pc[u]
  BY <1>1 DEF TaskTypes, Pcs
<1>4. TaskTypes' /\ Frame(t) /\ FilesMaySuffer
  BY <1>1, <1>2, <1>3 DEF TaskTypes, Frame, FilesMaySuffer
<1>5. RowOK(Row(t)) /\ Row(t).task = t /\ Row(t).source = current[t]
  BY <1>1, NewRow
<1>6. RecordedInTurn(t)'
  <2> SUFFICES ASSUME NEW n \in DOMAIN sources[t] \ unsure'[t]
               PROVE  IF DoneWith(t, n)' THEN \E r \in row' : RowsFor(t, n)' = {r}
                      ELSE RowsFor(t, n)' = {}
    BY <1>1 DEF RecordedInTurn
  <2>1. n # current[t] /\ n \in DOMAIN sources[t] \ unsure[t]
    BY <1>2
  <2>2. IF DoneWith(t, n) THEN \E r \in row : RowsFor(t, n) = {r} ELSE RowsFor(t, n) = {}
    BY <1>1, <2>1 DEF TaskOK, RecordedInTurn, AtWork
  <2>3. DoneWith(t, n)' <=> DoneWith(t, n)
    BY <1>1, <2>1 DEF DoneWith
  <2>4. RowsFor(t, n)' = RowsFor(t, n)
    BY <1>1, <1>5, <2>1 DEF RowsFor
  <2> QED BY <1>1, <2>2, <2>3, <2>4
<1>7. PlaceOK(t)' /\ ContentOK(t)' /\ WrittenOK(t)'
  BY <1>1, <1>3 DEF TaskOK, PlaceOK, ContentOK, WrittenOK, AtWork
<1> QED BY <1>1, <1>4, <1>5, <1>6, <1>7, TaskStep DEF TaskOK

LEMMA KillStep == ASSUME ImagesIInv, NEW t \in Tasks, Kill(t) PROVE ImagesIInv'
<1>1. /\ TaskTypes /\ TaskOK(t) /\ pc' = [pc EXCEPT ![t] = "killed"]
      /\ content' = [content EXCEPT ![t] = Nothing] /\ hops' = [hops EXCEPT ![t] = 0]
      /\ UNCHANGED <<id, sources, current, row, unsure>>
  BY DEF ImagesIInv, Kill, Goto, Got
<1>2. file' \in [Paths -> Images \cup {Nothing, Partial}] /\ FilesMaySuffer
  <2>1. CASE UNCHANGED file
    BY <1>1, <2>1 DEF TaskTypes, FilesMaySuffer
  <2>2. CASE pc[t] = "write" /\ file' = [file EXCEPT ![Path(t)] = Partial]
    BY <1>1, <2>2, CutShort
  <2> QED BY <2>1, <2>2 DEF Kill
<1>3. TaskTypes' /\ Frame(t) /\ pc'[t] = "killed"
  BY <1>1, <1>2 DEF TaskTypes, Frame, Pcs
<1>4. TaskOK(t)'
  BY <1>1, <1>3 DEF TaskOK, RecordedInTurn, PlaceOK, ContentOK, WrittenOK, AtWork
<1> QED BY <1>1, <1>2, <1>3, <1>4, TaskStep

LEMMA ImagesNextIInv == ImagesIInv /\ [ImagesNext]_imageVars => ImagesIInv'
<1>1. ASSUME ImagesIInv, UNCHANGED imageVars PROVE ImagesIInv'
  <2>1. /\ id' = id /\ sources' = sources /\ pc' = pc /\ current' = current /\ hops' = hops
        /\ content' = content /\ file' = file /\ row' = row /\ unsure' = unsure
    BY <1>1 DEF imageVars
  <2>2. TaskTypes'
    BY <1>1, <2>1 DEF ImagesIInv, TaskTypes
  <2>3. ASSUME NEW t \in Tasks PROVE TaskOK(t)'
    BY <1>1, <2>1 DEF ImagesIInv, TaskOK, RecordedInTurn, DoneWith, RowsFor,
                      PlaceOK, ContentOK, WrittenOK, Path, Source
  <2>4. ASSUME NEW r \in row' PROVE RowOK(r)'
    BY <1>1, <2>1 DEF ImagesIInv, RowOK
  <2> QED BY <2>2, <2>3, <2>4 DEF ImagesIInv
<1> QED
  BY <1>1, NextSourceStep, DecodeStep, DownloadStep, WriteStep, RecordStep, RecordRaisesStep,
     KillStep DEF ImagesNext, Work

LEMMA OnceRecorded == ImagesIInv => EachSourceRecordedOnce
<1> SUFFICES ASSUME ImagesIInv PROVE EachSourceRecordedOnce
  OBVIOUS
<1>1. RowsLeadToTheirImage
  BY DEF ImagesIInv, RowOK, RowsLeadToTheirImage
<1>2. ASSUME NEW t \in Tasks, pc[t] = "done", NEW n \in DOMAIN sources[t] \ unsure[t]
      PROVE  Cardinality({r \in row : r.task = t /\ r.source = n}) = 1
  <2>1. TaskOK(t) /\ sources[t] \in Seq(SourceRecords) /\ current[t] \in Nat
    BY DEF ImagesIInv, TaskTypes
  <2>2. DoneWith(t, n)
    <3>1. current[t] = Len(sources[t]) /\ n \in 1..Len(sources[t])
      BY <1>2, <2>1 DEF TaskOK, PlaceOK
    <3> QED BY <1>2, <2>1, <3>1 DEF DoneWith
  <2>3. PICK r \in row : RowsFor(t, n) = {r}
    BY <1>2, <2>1, <2>2 DEF TaskOK, RecordedInTurn
  <2> QED BY <2>3, FS_Singleton DEF RowsFor
<1> QED BY <1>1, <1>2 DEF EachSourceRecordedOnce

(* A task that ends has recorded each source once, whatever fails and      *)
(* whoever else writes the same files, and a completed row leads to its    *)
(* image (ImageAssetArchiver.archive_response).                            *)
THEOREM SourcesRecorded == ImagesSpec => []EachSourceRecordedOnce
BY ImagesInitIInv, ImagesNextIInv, OnceRecorded, PTL DEF ImagesSpec

-----------------------------------------------------------------------------
(* A streamed answer (StreamArchive).                                      *)
StreamSpec == StreamInit /\ [][StreamNext]_streamVars

Byte == Texts \cup {"open", "close", "nl", "[DONE]", "event: error", "error"}

(* What has been taken from the upstream so far, whether the client has    *)
(* got all of it or not.                                                   *)
Seen == passed \o chunk

StreamIInv ==
    /\ said \in Seq(Texts) /\ limit \in Nat \ {0} /\ pos \in Nat
    /\ passed \in Seq(Byte) /\ chunk \in Seq(Byte)
    /\ stage \in {"reading", "passing", "archived"}
    /\ stage = "reading" => chunk = <<>>
    /\ collected = First(Seen, limit) /\ original = Len(Seen)
    /\ ArchiveIsPrefix

LEMMA BytesType == ASSUME NEW answer \in Seq(Texts) PROVE Bytes(answer) \in Seq(Byte)
<1> DEFINE events == [i \in DOMAIN answer |-> <<"open", answer[i], "close", "nl">>]
<1>1. DOMAIN answer = 1..Len(answer) /\ Len(answer) \in Nat
  OBVIOUS
<1>2. \A i \in 1..Len(answer) : <<"open", answer[i], "close", "nl">> \in Seq(Byte)
  <2>1. \A b \in Byte : <<"open", b, "close", "nl">> \in Seq(Byte)
    <3>1. {"open", "close", "nl"} \subseteq Byte
      BY DEF Byte
    <3> QED BY <3>1
  <2>2. \A i \in 1..Len(answer) : answer[i] \in Texts
    OBVIOUS
  <2>3. \A i \in 1..Len(answer) : answer[i] \in Byte
    BY <2>2 DEF Byte
  <2> QED BY <2>1, <2>3
<1>3. events \in Seq(Seq(Byte))
  BY <1>1, <1>2
<1>4. <<"[DONE]", "nl">> \in Seq(Byte)
  BY DEF Byte
<1> HIDE DEF events
<1>5. FlattenSeq(events) \in Seq(Byte)
  BY <1>3, FlattenType
<1> QED BY <1>4, <1>5 DEF Bytes, events

LEMMA FirstType ==
    ASSUME NEW S, NEW s \in Seq(S), NEW n \in Nat
    PROVE  /\ First(s, n) \in Seq(S)
           /\ Len(First(s, n)) = IF n < Len(s) THEN n ELSE Len(s)
           /\ \A i \in 1..Len(First(s, n)) : First(s, n)[i] = s[i]
<1> DEFINE m == IF n < Len(s) THEN n ELSE Len(s)
<1>1. m \in Nat /\ m <= Len(s)
  OBVIOUS
<1>2. First(s, n) = SubSeq(s, 1, m)
  BY DEF First
<1> HIDE DEF m
<1>3. SubSeq(s, 1, m) \in Seq(S) /\ Len(SubSeq(s, 1, m)) = m
      /\ \A i \in 1..m : SubSeq(s, 1, m)[i] = s[i]
  BY <1>1
<1> QED BY <1>2, <1>3 DEF m

(* What the collector adds to the first bytes makes the first bytes of     *)
(* more.                                                                   *)
LEMMA CollectedOn ==
    ASSUME NEW S, NEW s \in Seq(S), NEW t \in Seq(S), NEW n \in Nat
    PROVE  First(s \o t, n) = IF n - Len(First(s, n)) <= 0 THEN First(s, n)
                              ELSE First(s, n) \o First(t, n - Len(First(s, n)))
<1>1. /\ s \o t \in Seq(S) /\ Len(s \o t) = Len(s) + Len(t) /\ Len(s) \in Nat /\ Len(t) \in Nat
      /\ \A i \in 1..Len(s) : (s \o t)[i] = s[i]
      /\ \A i \in 1..Len(t) : (s \o t)[Len(s) + i] = t[i]
  OBVIOUS
<1>2. CASE n <= Len(s)
  <2>1. Len(First(s, n)) = n /\ Len(First(s \o t, n)) = n
    <3>1. Len(First(s, n)) = IF n < Len(s) THEN n ELSE Len(s)
      BY FirstType
    <3>2. Len(First(s \o t, n)) = IF n < Len(s \o t) THEN n ELSE Len(s \o t)
      BY <1>1, FirstType
    <3> QED BY <1>1, <1>2, <3>1, <3>2
  <2>2. First(s, n) \in Seq(S) /\ First(s \o t, n) \in Seq(S)
    BY <1>1, FirstType
  <2>3. \A i \in 1..n : First(s, n)[i] = s[i] /\ First(s \o t, n)[i] = (s \o t)[i]
    <3>1. \A i \in 1..n : First(s, n)[i] = s[i]
      BY <2>1, FirstType
    <3>2. PICK w \in Seq(S) : w = s \o t
      BY <1>1
    <3>3. Len(First(w, n)) = n
      BY <2>1, <3>2, Zenon
    <3>4. \A i \in 1..n : First(w, n)[i] = w[i]
      BY <3>3, FirstType
    <3> QED BY <3>1, <3>2, <3>4, Zenon
  <2>4. First(s \o t, n) = First(s, n)
    BY <1>1, <1>2, <2>1, <2>2, <2>3, SameSeq
  <2> QED BY <2>1, <2>4
<1>3. CASE n > Len(s)
  <2> DEFINE rest == n - Len(s)
             u == First(t, rest)
  <2>1. rest \in Nat /\ ~(rest <= 0) /\ n = Len(s) + rest
    BY <1>1, <1>3
  <2>2. First(s, n) \in Seq(S) /\ Len(First(s, n)) = Len(s)
        /\ \A i \in 1..Len(s) : First(s, n)[i] = s[i]
    BY <1>1, <1>3, FirstType
  <2>3. First(s, n) = s
    BY <2>2, SameSeq
  <2>4. u \in Seq(S) /\ Len(u) = (IF rest < Len(t) THEN rest ELSE Len(t))
        /\ \A i \in 1..Len(u) : u[i] = t[i]
    <3> HIDE DEF rest
    <3> QED BY <2>1, FirstType
  <2>5. First(s \o t, n) \in Seq(S)
        /\ Len(First(s \o t, n)) = (IF n < Len(s) + Len(t) THEN n ELSE Len(s) + Len(t))
        /\ \A i \in 1..Len(First(s \o t, n)) : First(s \o t, n)[i] = (s \o t)[i]
    BY <1>1, FirstType
  <2> HIDE DEF rest, u
  <2>6. Len(First(s \o t, n)) = Len(s) + Len(u)
    BY <1>1, <2>1, <2>4, <2>5
  <2>7. s \o u \in Seq(S) /\ Len(s \o u) = Len(s) + Len(u)
    <3>1. s \in Seq(S) /\ u \in Seq(S)
      BY <2>4
    <3> QED BY ONLY <3>1
  <2>8. ASSUME NEW i \in 1..(Len(s) + Len(u)) PROVE First(s \o t, n)[i] = (s \o u)[i]
    <3>1. First(s \o t, n)[i] = (s \o t)[i]
      BY <2>5, <2>6
    <3>2. CASE i <= Len(s)
      BY <1>1, <2>4, <3>1, <3>2
    <3>3. CASE i > Len(s)
      <4>1. i - Len(s) \in 1..Len(u) /\ i - Len(s) \in 1..Len(t) /\ i = Len(s) + (i - Len(s))
        BY <1>1, <2>4, <3>3
      <4>2. (s \o t)[i] = t[i - Len(s)] /\ (s \o u)[i] = u[i - Len(s)]
        BY <1>1, <2>4, <4>1
      <4> QED BY <2>4, <3>1, <4>1, <4>2
    <3> QED BY <1>1, <2>4, <3>2, <3>3
  <2>9. First(s \o t, n) = s \o u
    BY <2>5, <2>6, <2>7, <2>8, SameSeq
  <2> QED BY <2>1, <2>3, <2>9 DEF rest, u
<1> QED BY <1>1, <1>2, <1>3

LEMMA StreamInitIInv == StreamInit => StreamIInv
<1> SUFFICES ASSUME StreamInit PROVE StreamIInv
  OBVIOUS
<1>1. said \in Seq(Texts) /\ limit \in Nat \ {0}
  BY SayingsAssumption, LimitsAssumption DEF StreamInit
<1>2. Seen = <<>> /\ <<>> \in Seq(Byte) /\ passed = <<>> /\ chunk = <<>>
      /\ collected = <<>> /\ original = 0 /\ pos = 0 /\ stage = "reading"
  BY DEF StreamInit, Seen
<1>3. First(<<>>, limit) = <<>>
  BY <1>1, FirstType, SameSeq, <1>2
<1> QED BY <1>1, <1>2, <1>3 DEF StreamIInv, ArchiveIsPrefix

(* A chunk, from the upstream or of an error, is counted and collected.    *)
LEMMA YieldStep ==
    ASSUME StreamIInv, stage = "reading", NEW bytes \in Seq(Byte), Yield(bytes), pos' \in Nat
    PROVE  StreamIInv'
<1>1. /\ chunk = <<>> /\ chunk' = bytes /\ stage' = "passing"
      /\ UNCHANGED <<said, limit, passed, payload>>
      /\ original' = original + Len(bytes)
      /\ collected' = IF limit - Len(collected) <= 0 THEN collected
                      ELSE collected \o First(bytes, limit - Len(collected))
  BY DEF StreamIInv, Yield, Collect
<1>2. passed \in Seq(Byte) /\ Seen = passed /\ Seen' = passed \o bytes /\ limit \in Nat
  BY <1>1 DEF StreamIInv, Seen
<1>3. collected' = First(Seen', limit)
  BY <1>1, <1>2, CollectedOn DEF StreamIInv
<1>4. original' = Len(Seen')
  BY <1>1, <1>2 DEF StreamIInv
<1>5. ArchiveIsPrefix'
  BY <1>1 DEF ArchiveIsPrefix
<1> QED BY <1>1, <1>3, <1>4, <1>5 DEF StreamIInv

LEMMA ArchiveStep == ASSUME StreamIInv, Archive PROVE StreamIInv'
<1>1. /\ stage' = "archived" /\ payload' = Payload /\ Seen' = Seen
      /\ UNCHANGED <<said, limit, pos, chunk, collected, original, passed>>
  BY DEF Archive, Seen
<1>2. Seen \in Seq(Byte) /\ limit \in Nat /\ collected = First(Seen, limit) /\ original = Len(Seen)
  BY DEF StreamIInv, Seen
<1>3. Len(Seen) > limit <=> collected # Seen
  <2>1. Len(collected) = IF limit < Len(Seen) THEN limit ELSE Len(Seen)
    BY <1>2, FirstType
  <2>2. CASE Len(Seen) > limit
    BY <1>2, <2>1, <2>2
  <2>3. CASE ~(Len(Seen) > limit)
    <3>1. collected \in Seq(Byte) /\ Len(collected) = Len(Seen)
          /\ \A i \in 1..Len(collected) : collected[i] = Seen[i]
      BY <1>2, <2>1, <2>3, FirstType
    <3> QED BY <1>2, <2>3, <3>1, SameSeq
  <2> QED BY <2>2, <2>3
<1>4. /\ payload'.content = collected /\ payload'.original = original
      /\ payload'.archived = Len(collected) /\ (payload'.truncated <=> original > limit)
  BY <1>1 DEF Payload
<1>5. ArchiveIsPrefix'
  BY <1>1, <1>2, <1>3, <1>4 DEF ArchiveIsPrefix, Seen
<1> QED BY <1>1, <1>5 DEF StreamIInv

LEMMA StreamNextIInv == StreamIInv /\ [StreamNext]_streamVars => StreamIInv'
<1> SUFFICES ASSUME StreamIInv, [StreamNext]_streamVars PROVE StreamIInv'
  OBVIOUS
<1>1. CASE ReadChunk
  <2>1. Bytes(said) \in Seq(Byte) /\ pos \in Nat
    BY BytesType DEF StreamIInv
  <2>2. PICK n \in 1..(Len(Bytes(said)) - pos) :
          Yield(SubSeq(Bytes(said), pos + 1, pos + n)) /\ pos' = pos + n
    BY <1>1 DEF ReadChunk
  <2>3. n \in Nat /\ pos + n <= Len(Bytes(said)) /\ pos' \in Nat
    BY <2>1, <2>2
  <2>4. SubSeq(Bytes(said), pos + 1, pos + n) \in Seq(Byte)
    BY <2>1, <2>3
  <2> QED BY <1>1, <2>2, <2>3, <2>4, YieldStep DEF ReadChunk
<1>2. CASE ReadFails
  <2>1. ErrorEvent \in Seq(Byte)
    BY DEF ErrorEvent, Byte
  <2> QED BY <1>2, <2>1, YieldStep DEF ReadFails, StreamIInv
<1>3. CASE Deliver
  <2>1. /\ passed' = Seen /\ chunk' = <<>> /\ stage' = "reading" /\ Seen \in Seq(Byte)
        /\ UNCHANGED <<said, limit, pos, collected, original>>
    BY <1>3 DEF Deliver, Seen, StreamIInv
  <2>2. Seen' = Seen
    BY <2>1 DEF Seen
  <2> QED BY <2>1, <2>2 DEF StreamIInv, ArchiveIsPrefix
<1>4. CASE Finish \/ ClientLeaves
  BY <1>4, ArchiveStep DEF Finish, ClientLeaves
<1>5. CASE UNCHANGED streamVars
  BY <1>5 DEF streamVars, StreamIInv, ArchiveIsPrefix, Seen
<1> QED BY <1>1, <1>2, <1>3, <1>4, <1>5 DEF StreamNext

(* The archive has the first bytes of what was passed on, up to the limit, *)
(* and its counts and its flag say what is missing, however the upstream   *)
(* cuts its bytes and whoever fails or leaves (StreamArchiveCollector).    *)
THEOREM ArchivesAreBeginnings == StreamSpec => []ArchiveIsPrefix
<1>1. StreamIInv => ArchiveIsPrefix
  BY DEF StreamIInv
<1> QED BY StreamInitIInv, StreamNextIInv, <1>1, PTL DEF StreamSpec

-----------------------------------------------------------------------------
(* The message that is read of the archive.  Lines takes the bytes with    *)
(* FoldLeft, which recurs over sets of positions: Folded is one step of    *)
(* that recursion, and LineStep what it does to a byte.                    *)
NoLines == [done |-> <<>>, line |-> <<>>]
LineStep(acc, b) ==
    IF b \in {"nl", Separator} THEN [done |-> acc.done \o TextIn(acc.line), line |-> <<>>]
    ELSE [acc EXCEPT !.line = Append(@, b)]
Folded(g, bytes, s) == IF s = {} THEN NoLines ELSE LineStep(g[s \ {Max(s)}], bytes[Max(s)])

LEMMA GreatestOf ==
    ASSUME NEW k \in Nat, NEW s \in SUBSET (1..k), s # {}
    PROVE  Max(s) \in s /\ \A i \in s : i <= Max(s)
<1> DEFINE Above == {k - i : i \in s}
<1>1. Above \in SUBSET Nat /\ Above # {}
  <2>1. \A i \in 1..k : k - i \in Nat
    OBVIOUS
  <2> QED BY <2>1
<1>2. PICK d \in Above : \A e \in Above : d <= e
  <2> HIDE DEF Above
  <2> QED BY <1>1, LeastNatural
<1>3. PICK m \in s : d = k - m
  OBVIOUS
<1>4. \A i \in s : m >= i
  <2>1. \A i \in s : k - m <= k - i
    BY <1>2, <1>3
  <2> QED BY <1>3, <2>1
<1>5. Max(s) \in s /\ \A i \in s : Max(s) >= i
  BY <1>4 DEF Max
<1> QED BY <1>5

(* There is a function that takes these steps.                             *)
LEMMA LinesExist ==
    ASSUME NEW bytes, NEW k \in Nat
    PROVE  \E g : g = [s \in SUBSET (1..k) |-> Folded(g, bytes, s)]
<1> DEFINE Good(m) == \E g : g = [s \in SUBSET (1..m) |-> Folded(g, bytes, s)]
           Bad == {m \in Nat : ~Good(m)}
<1>1. SUFFICES ASSUME Bad # {} PROVE FALSE
  OBVIOUS
<1>2. PICK m \in Bad : \A n \in Bad : m <= n
  <2>1. Bad \in SUBSET Nat
    OBVIOUS
  <2> HIDE DEF Bad
  <2> QED BY <1>1, <2>1, LeastNatural
<1>3. m \in Nat /\ ~Good(m)
  BY <1>2
<1>4. CASE m = 0
  <2> DEFINE g == [s \in SUBSET (1..m) |-> NoLines]
  <2>1. \A s \in SUBSET (1..m) : s = {}
    BY <1>4
  <2>2. g = [s \in SUBSET (1..m) |-> Folded(g, bytes, s)]
    BY <2>1 DEF Folded
  <2> QED BY <1>3, <2>2
<1>5. CASE m # 0
  <2>1. m - 1 \in Nat /\ m - 1 \notin Bad
    <3>1. m - 1 \in Nat /\ ~(m <= m - 1)
      BY <1>3, <1>5
    <3> HIDE DEF Bad
    <3> QED BY <1>2, <3>1
  <2>2. PICK g : g = [s \in SUBSET (1..(m - 1)) |-> Folded(g, bytes, s)]
    BY <2>1
  <2> DEFINE h == [s \in SUBSET (1..m) |->
                      IF m \in s THEN LineStep(g[s \ {m}], bytes[m]) ELSE g[s]]
  <2>3. \A s \in SUBSET (1..m) : m \notin s => s \in SUBSET (1..(m - 1))
    BY <1>3
  <2>4. ASSUME NEW s \in SUBSET (1..m) PROVE h[s] = Folded(h, bytes, s)
    <3>1. CASE m \in s
      <4>1. Max(s) = m
        <5>1. Max(s) \in s /\ m <= Max(s)
          BY <1>3, <3>1, GreatestOf
        <5>2. Max(s) \in 1..m
          BY <5>1
        <5> QED BY <1>3, <5>1, <5>2
      <4>2. s \ {m} \in SUBSET (1..m) /\ m \notin s \ {m}
        OBVIOUS
      <4>3. h[s \ {m}] = g[s \ {m}]
        BY <4>2
      <4>4. h[s] = LineStep(g[s \ {m}], bytes[m])
        BY <3>1
      <4> HIDE DEF h
      <4> QED BY <3>1, <4>1, <4>3, <4>4 DEF Folded
    <3>2. CASE m \notin s
      <4>1. s \in SUBSET (1..(m - 1)) /\ h[s] = g[s]
        BY <2>3, <3>2
      <4>2. g[s] = Folded(g, bytes, s)
        BY <2>2, <4>1
      <4>3. s # {} => Max(s) \in s
        BY <2>1, <4>1, GreatestOf
      <4>4. h[s \ {Max(s)}] = g[s \ {Max(s)}]
        BY <3>2
      <4> HIDE DEF h
      <4> QED BY <4>1, <4>2, <4>4 DEF Folded
    <3> QED BY <3>1, <3>2
  <2>5. h = [s \in SUBSET (1..m) |-> Folded(h, bytes, s)]
    <3>1. h = [s \in SUBSET (1..m) |-> h[s]]
      OBVIOUS
    <3> HIDE DEF h
    <3> QED BY <2>4, <3>1
  <2> QED BY <1>3, <2>5
<1> QED BY <1>4, <1>5

(* Whatever goes through the same steps has the same lines.                *)
LEMMA LinesAre ==
    ASSUME NEW bytes, NEW k \in Nat, DOMAIN bytes = 1..k,
           NEW h, h[0] = NoLines, \A n \in 1..k : h[n] = LineStep(h[n - 1], bytes[n])
    PROVE  Lines(bytes) = h[k]
<1> DEFINE f == CHOOSE g : g = [s \in SUBSET (1..k) |-> Folded(g, bytes, s)]
           Bad == {n \in 0..k : f[1..n] # h[n]}
<1>1. Lines(bytes) = f[1..k]
  BY DEF Lines, FoldLeft, MapThenFoldSet, Folded, LineStep, NoLines
<1>2. f = [s \in SUBSET (1..k) |-> Folded(f, bytes, s)]
  BY LinesExist
<1> HIDE DEF f
<1>3. \A s \in SUBSET (1..k) : f[s] = Folded(f, bytes, s)
  BY <1>2
<1>4. f[1..0] = NoLines
  <2>1. 1..0 = {}
    OBVIOUS
  <2> QED BY <1>3, <2>1 DEF Folded
<1>5. ASSUME NEW n \in 1..k PROVE f[1..n] = LineStep(f[1..(n - 1)], bytes[n])
  <2>1. 1..n \in SUBSET (1..k) /\ 1..n # {} /\ (1..n) \ {n} = 1..(n - 1)
    <3>1. n \in Nat /\ 1 <= n /\ n <= k
      OBVIOUS
    <3>2. \A i \in 1..n : i \in 1..k
      BY <3>1
    <3>3. n \in 1..n
      BY <3>1
    <3>4. \A i : i \in (1..n) \ {n} <=> i \in 1..(n - 1)
      BY <3>1
    <3> QED BY <3>2, <3>3, <3>4
  <2>2. Max(1..n) = n
    <3>1. n \in Nat /\ n \in 1..n /\ 1..n \in SUBSET (1..n) /\ 1..n # {}
      <4>1. n \in Nat /\ 1 <= n
        OBVIOUS
      <4>2. n \in 1..n
        BY <4>1
      <4> QED BY <4>1, <4>2
    <3>2. Max(1..n) \in 1..n /\ n <= Max(1..n)
      BY <3>1, GreatestOf
    <3> QED BY <3>2
  <2> QED BY <1>3, <2>1, <2>2 DEF Folded
<1>6. Bad = {}
  <2> SUFFICES ASSUME Bad # {} PROVE FALSE
    OBVIOUS
  <2>1. PICK n \in Bad : \A i \in Bad : n <= i
    <3>1. Bad \in SUBSET Nat
      OBVIOUS
    <3> HIDE DEF Bad
    <3> QED BY <3>1, LeastNatural
  <2>2. n \in 0..k /\ f[1..n] # h[n]
    BY <2>1
  <2>3. n # 0
    BY <1>4, <2>2
  <2>4. n \in 1..k /\ n - 1 \in 0..k /\ ~(n <= n - 1)
    BY <2>2, <2>3
  <2>5. f[1..(n - 1)] = h[n - 1]
    BY <2>1, <2>4
  <2> QED BY <1>5, <2>2, <2>4, <2>5
<1> QED BY <1>1, <1>6

-----------------------------------------------------------------------------
(* The bytes of an answer.                                                 *)
Piece(answer, n) == CASE n % 4 = 1 -> "open" [] n % 4 = 2 -> answer[n \div 4 + 1]
                      [] n % 4 = 3 -> "close" [] n % 4 = 0 -> "nl"

MadeOf(answer, s) == \A i \in 1..Len(s) : s[i] = Piece(answer, i)
NextEvent(answer, e, s) == Len(e) = 4 /\ \A c \in 1..4 : e[c] = Piece(answer, Len(s) + c)

(* One more event after the bytes of those before it.                      *)
LEMMA EventFollows ==
    ASSUME NEW T, NEW answer, NEW s \in Seq(T), MadeOf(answer, s),
           NEW e \in Seq(T), NextEvent(answer, e, s)
    PROVE  s \o e \in Seq(T) /\ Len(s \o e) = Len(s) + 4 /\ MadeOf(answer, s \o e)
<1>1. /\ s \o e \in Seq(T) /\ Len(s \o e) = Len(s) + Len(e) /\ Len(s) \in Nat
      /\ \A i \in 1..Len(s) : (s \o e)[i] = s[i]
      /\ \A c \in 1..Len(e) : (s \o e)[Len(s) + c] = e[c]
  BY SeqsJoined
<1>2. Len(e) = 4 /\ \A c \in 1..4 : (s \o e)[Len(s) + c] = Piece(answer, Len(s) + c)
  BY <1>1 DEF NextEvent
<1>3. ASSUME NEW n \in 1..(Len(s) + 4) PROVE (s \o e)[n] = Piece(answer, n)
  <2>1. n \in Int /\ (n <= Len(s) \/ n > Len(s))
    BY <1>1
  <2>2. CASE n <= Len(s)
    BY <1>1, <2>1, <2>2 DEF MadeOf
  <2>3. CASE n > Len(s)
    <3> DEFINE c == n - Len(s)
    <3>1. c \in 1..4 /\ n = Len(s) + c
      BY <1>1, <2>3
    <3> HIDE DEF c
    <3>2. (s \o e)[Len(s) + c] = Piece(answer, Len(s) + c)
      BY <1>2, <3>1
    <3> QED BY <3>1, <3>2
  <2> QED BY <2>1, <2>2, <2>3
<1> QED BY <1>1, <1>2, <1>3 DEF MadeOf

Event(answer, i) == <<"open", answer[i], "close", "nl">>
Events(answer) == [i \in DOMAIN answer |-> Event(answer, i)]

LEMMA EventIs ==
    ASSUME NEW S, NEW answer \in Seq(S), NEW i \in 1..Len(answer)
    PROVE  /\ Event(answer, i) \in Seq(S \cup {"open", "close", "nl"})
           /\ Len(Event(answer, i)) = 4
           /\ \A c \in 1..4 : Event(answer, i)[c] = Piece(answer, 4 * (i - 1) + c)
<1>1. i \in Nat /\ 1 <= i /\ answer[i] \in S
  OBVIOUS
<1>2. /\ (4 * (i - 1) + 1) % 4 = 1 /\ (4 * (i - 1) + 2) % 4 = 2
      /\ (4 * (i - 1) + 3) % 4 = 3 /\ (4 * (i - 1) + 4) % 4 = 0
      /\ (4 * (i - 1) + 2) \div 4 + 1 = i
  BY <1>1
<1>3. Event(answer, i) \in Seq(S \cup {"open", "close", "nl"}) /\ Len(Event(answer, i)) = 4
  BY <1>1 DEF Event
<1>4. /\ Event(answer, i)[1] = "open" /\ Event(answer, i)[2] = answer[i]
      /\ Event(answer, i)[3] = "close" /\ Event(answer, i)[4] = "nl"
  BY DEF Event
<1>5. /\ Piece(answer, 4 * (i - 1) + 1) = "open" /\ Piece(answer, 4 * (i - 1) + 2) = answer[i]
      /\ Piece(answer, 4 * (i - 1) + 3) = "close" /\ Piece(answer, 4 * (i - 1) + 4) = "nl"
  <2>1. /\ \A n : n % 4 = 1 => Piece(answer, n) = "open"
        /\ \A n : n % 4 = 2 => Piece(answer, n) = answer[n \div 4 + 1]
        /\ \A n : n % 4 = 3 => Piece(answer, n) = "close"
        /\ \A n : n % 4 = 0 => Piece(answer, n) = "nl"
    BY DEF Piece
  <2> QED BY <1>2, <2>1
<1>6. \A c \in 1..4 : c = 1 \/ c = 2 \/ c = 3 \/ c = 4
  OBVIOUS
<1> QED BY <1>3, <1>4, <1>5, <1>6

(* Event after event, the bytes of an answer are these.                    *)
LEMMA EventsAre ==
    ASSUME NEW S, NEW answer \in Seq(S), Len(answer) # 0
    PROVE  /\ Len(FlattenSeq(Events(answer))) = 4 * Len(answer)
           /\ MadeOf(answer, FlattenSeq(Events(answer)))
<1> DEFINE T == S \cup {"open", "close", "nl"}
<1>1. PICK k : k = Len(answer) /\ k \in Nat /\ k # 0 /\ DOMAIN answer = 1..k
  OBVIOUS
<1>2. \A i \in 1..k : Events(answer)[i] = Event(answer, i) /\ Events(answer)[i] \in Seq(T)
  BY <1>1, EventIs DEF Events
<1> HIDE DEF T
<1>3. Events(answer) \in Seq(Seq(T)) /\ Len(Events(answer)) = k
  BY <1>1, <1>2 DEF Events
<1>4. PICK f : /\ FlattenSeq(Events(answer)) = f[k]
               /\ \A i \in 1..k : f[i] = Flat(f, Events(answer), i)
  BY <1>1, <1>3, FlattenIs
<1> DEFINE Good(i) == f[i] \in Seq(T) /\ Len(f[i]) = 4 * i /\ MadeOf(answer, f[i])
           Bad == {i \in 1..k : ~Good(i)}
<1>5. Bad \in SUBSET Nat
  BY <1>1
<1>6. ASSUME NEW m \in 1..k, m # 1 => Good(m - 1) PROVE Good(m)
  <2>1. /\ Event(answer, m) \in Seq(T) /\ Len(Event(answer, m)) = 4
        /\ \A c \in 1..4 : Event(answer, m)[c] = Piece(answer, 4 * (m - 1) + c)
    BY <1>1, EventIs DEF T
  <2>2. CASE m = 1
    <3>1. f[m] = Event(answer, m)
      BY <1>2, <1>4, <2>2 DEF Flat
    <3>2. 4 * m = 4 /\ \A c \in 1..4 : 4 * (m - 1) + c = c
      BY <2>2
    <3> QED BY <2>1, <3>1, <3>2 DEF MadeOf
  <2>3. CASE m # 1
    <3>1. f[m] = f[m - 1] \o Event(answer, m)
      BY <1>2, <1>4, <2>3 DEF Flat
    <3>2. 4 * (m - 1) \in Nat /\ 4 * (m - 1) + 4 = 4 * m
      BY <2>3
    <3>3. f[m - 1] \in Seq(T) /\ Len(f[m - 1]) = 4 * (m - 1) /\ MadeOf(answer, f[m - 1])
      BY <1>6, <2>3
    <3>4. NextEvent(answer, Event(answer, m), f[m - 1])
      BY <2>1, <3>3 DEF NextEvent
    <3> HIDE DEF Good, Bad
    <3>5. f[m] \in Seq(T) /\ Len(f[m]) = Len(f[m - 1]) + 4 /\ MadeOf(answer, f[m])
      BY <2>1, <3>1, <3>3, <3>4, EventFollows
    <3> QED BY <3>2, <3>3, <3>5 DEF Good
  <2> QED BY <2>2, <2>3
<1> HIDE DEF Good
<1>7. Bad = {}
  <2> SUFFICES ASSUME Bad # {} PROVE FALSE
    OBVIOUS
  <2> HIDE DEF Bad
  <2>1. PICK m \in Bad : \A n \in Bad : m <= n
    BY <1>5, LeastNatural
  <2>2. m \in 1..k /\ ~Good(m)
    BY DEF Bad
  <2>3. m # 1 => Good(m - 1)
    <3>1. m # 1 => m - 1 \in 1..k /\ ~(m <= m - 1)
      BY <1>1, <2>2
    <3>2. m # 1 => m - 1 \notin Bad
      BY <2>1, <3>1
    <3> QED BY <3>1, <3>2 DEF Bad
  <2> QED BY <1>6, <2>2, <2>3
<1>8. k \in 1..k
  BY <1>1
<1>9. Good(k)
  BY <1>7, <1>8
<1> QED BY <1>1, <1>4, <1>9 DEF Good

(* And a last line ends them.                                              *)
LEMMA BytesAre ==
    ASSUME NEW a \in Seq(Texts)
    PROVE  LET k == 4 * Len(a) IN
           /\ Len(Bytes(a)) = k + 2 /\ \A n \in 1..k : Bytes(a)[n] = Piece(a, n)
           /\ Bytes(a)[k + 1] = "[DONE]" /\ Bytes(a)[k + 2] = "nl"
<1> DEFINE T == Texts \cup {"open", "close", "nl", "[DONE]"}
           s == FlattenSeq(Events(a))
           e == <<"[DONE]", "nl">>
<1>1. Bytes(a) = s \o e
  BY DEF Bytes, Events, Event
<1>2. Len(a) \in Nat /\ DOMAIN a = 1..Len(a)
  OBVIOUS
<1>3. Len(s) = 4 * Len(a) /\ MadeOf(a, s)
  <2>1. CASE Len(a) = 0
    <3>1. DOMAIN Events(a) = 1..0 /\ Events(a) \in Seq(T)
      BY <1>2, <2>1 DEF Events
    <3>2. Len(Events(a)) = 0
      BY <3>1
    <3>3. s = Events(a)
      BY <3>2 DEF FlattenSeq
    <3> QED BY <2>1, <3>2, <3>3 DEF MadeOf
  <2>2. CASE Len(a) # 0
    BY <2>2, EventsAre
  <2> QED BY <2>1, <2>2
<1>4. s \in Seq(T) /\ e \in Seq(T)
  <2>1. \A i \in 1..Len(a) : Event(a, i) \in Seq(T)
    BY <1>2 DEF Event
  <2>2. Events(a) \in Seq(Seq(T))
    BY <1>2, <2>1 DEF Events
  <2> HIDE DEF T
  <2>3. s \in Seq(T)
    BY <2>2, FlattenType
  <2> QED BY <2>3 DEF T
<1>5. Len(e) = 2 /\ e[1] = "[DONE]" /\ e[2] = "nl"
  OBVIOUS
<1> HIDE DEF T, s, e
<1>6. /\ Len(s \o e) = Len(s) + Len(e)
      /\ \A i \in 1..Len(s) : (s \o e)[i] = s[i]
      /\ \A i \in 1..Len(e) : (s \o e)[Len(s) + i] = e[i]
  BY <1>4, SeqsJoined
<1>7. (s \o e)[Len(s) + 1] = "[DONE]" /\ (s \o e)[Len(s) + 2] = "nl"
  BY <1>5, <1>6
<1>8. \A i \in 1..Len(s) : (s \o e)[i] = Piece(a, i)
  BY <1>3, <1>6 DEF MadeOf
<1> QED BY <1>1, <1>3, <1>5, <1>6, <1>7, <1>8

-----------------------------------------------------------------------------
(* What has been read of an answer after some of its bytes.                *)
LineAfter(a, n) ==
    IF n <= 4 * Len(a)
    THEN CASE n % 4 = 0 -> <<>> [] n % 4 = 1 -> <<"open">>
           [] n % 4 = 2 -> <<"open", a[n \div 4 + 1]>>
           [] n % 4 = 3 -> <<"open", a[n \div 4 + 1], "close">>
    ELSE IF n = 4 * Len(a) + 1 THEN <<"[DONE]">> ELSE <<>>
After(a, n) == [done |-> SubSeq(a, 1, n \div 4), line |-> LineAfter(a, n)]

(* No byte that frames an answer or an error is a text or ends a line in one. *)
LEMMA TextsApart ==
    /\ {"open", "close", "nl", "[DONE]", "event: error", "error"} \cap Texts = {}
    /\ Separator # "open" /\ Separator # "close" /\ Separator # "nl" /\ Separator # "[DONE]"
    /\ Separator # "event: error" /\ Separator # "error" /\ "error" \notin Texts /\ "nl" \notin Texts
BY SayingsAssumption, BytesAssumption

Plus(line, b) == Append(line, b)

(* What a byte does to the line that is being read.                        *)
LEMMA ByteAdded ==
    ASSUME NEW done, NEW line, NEW b, b # "nl", b # Separator
    PROVE  LineStep([done |-> done, line |-> line], b) = [done |-> done, line |-> Plus(line, b)]
BY DEF LineStep, Plus

LEMMA LineEnded ==
    ASSUME NEW done, NEW line
    PROVE  LineStep([done |-> done, line |-> line], "nl") = [done |-> done \o TextIn(line), line |-> <<>>]
BY DEF LineStep

LEMMA AppendIs ==
    ASSUME NEW S, NEW s \in Seq(S), NEW e \in S
    PROVE  /\ Plus(s, e) \in Seq(S) /\ Len(Plus(s, e)) = Len(s) + 1
           /\ \A i \in 1..Len(s) : Plus(s, e)[i] = s[i]
           /\ Plus(s, e)[Len(s) + 1] = e
BY DEF Plus

LEMMA PlusNone ==
    ASSUME NEW b
    PROVE  Plus(<<>>, b) = <<b>>
BY DEF Plus

LEMMA PlusOne ==
    ASSUME NEW b, NEW c
    PROVE  Plus(<<b>>, c) = <<b, c>>
<1> DEFINE S == {b, c}
           s == <<b>>
           t == <<b, c>>
<1>1. s \in Seq(S) /\ Len(s) = 1 /\ s[1] = b /\ c \in S
  OBVIOUS
<1>2. t \in Seq(S) /\ Len(t) = 2 /\ t[1] = b /\ t[2] = c
  OBVIOUS
<1> HIDE DEF S, s, t
<1>3. /\ Plus(s, c) \in Seq(S) /\ Len(Plus(s, c)) = Len(s) + 1
      /\ \A i \in 1..Len(s) : Plus(s, c)[i] = s[i]
      /\ Plus(s, c)[Len(s) + 1] = c
  BY <1>1, AppendIs
<1>4. Plus(s, c) \in Seq(S) /\ Len(Plus(s, c)) = 2 /\ Plus(s, c)[1] = b /\ Plus(s, c)[2] = c
  BY <1>1, <1>3
<1>5. \A i \in 1..2 : i = 1 \/ i = 2
  OBVIOUS
<1>6. Plus(s, c) = t
  BY <1>2, <1>4, <1>5, SameSeq
<1> QED BY <1>6 DEF s, t

LEMMA PlusTwo ==
    ASSUME NEW b, NEW c, NEW d
    PROVE  Plus(<<b, c>>, d) = <<b, c, d>>
<1> DEFINE S == {b, c, d}
           s == <<b, c>>
           t == <<b, c, d>>
<1>1. s \in Seq(S) /\ Len(s) = 2 /\ s[1] = b /\ s[2] = c /\ d \in S
  OBVIOUS
<1>2. t \in Seq(S) /\ Len(t) = 3 /\ t[1] = b /\ t[2] = c /\ t[3] = d
  OBVIOUS
<1> HIDE DEF S, s, t
<1>3. /\ Plus(s, d) \in Seq(S) /\ Len(Plus(s, d)) = Len(s) + 1
      /\ \A i \in 1..Len(s) : Plus(s, d)[i] = s[i]
      /\ Plus(s, d)[Len(s) + 1] = d
  BY <1>1, AppendIs
<1>4. /\ Plus(s, d) \in Seq(S) /\ Len(Plus(s, d)) = 3
      /\ Plus(s, d)[1] = b /\ Plus(s, d)[2] = c /\ Plus(s, d)[3] = d
  BY <1>1, <1>3
<1>5. \A i \in 1..3 : i = 1 \/ i = 2 \/ i = 3
  OBVIOUS
<1>6. Plus(s, d) = t
  BY <1>2, <1>4, <1>5, SameSeq
<1> QED BY <1>6 DEF s, t

(* Each byte of an answer without a separator takes the reading one on.    *)
LEMMA AnswerStep ==
    ASSUME NEW a \in Seq(Texts), ~Contains(a, Separator), NEW n \in 1..(4 * Len(a) + 2)
    PROVE  After(a, n) = LineStep(After(a, n - 1), Bytes(a)[n])
<1>1. Len(a) \in Nat /\ n \in Nat /\ 1 <= n
  OBVIOUS
<1>2. \A i \in 1..Len(a) : a[i] \in Texts /\ a[i] # Separator
  BY DEF Contains
<1>3. CASE n <= 4 * Len(a)
  <2>1. Bytes(a)[n] = Piece(a, n)
    BY <1>1, <1>3, BytesAre
  <2> DEFINE q == n \div 4
             done == SubSeq(a, 1, q)
  <2>2. CASE n % 4 = 1
    <3>1. n - 1 <= 4 * Len(a) /\ (n - 1) % 4 = 0 /\ (n - 1) \div 4 = q
      BY <1>1, <1>3, <2>2
    <3>2. LineAfter(a, n) = <<"open">> /\ LineAfter(a, n - 1) = <<>> /\ Piece(a, n) = "open"
      BY <1>3, <2>2, <3>1 DEF LineAfter, Piece
    <3>3. /\ After(a, n) = [done |-> done, line |-> <<"open">>]
          /\ After(a, n - 1) = [done |-> done, line |-> <<>>]
      BY <3>1, <3>2 DEF After
    <3>4. Plus(<<>>, "open") = <<"open">> /\ "open" # "nl" /\ "open" # Separator
      BY PlusNone, TextsApart
    <3>5. LineStep([done |-> done, line |-> <<>>], "open") = [done |-> done, line |-> <<"open">>]
      BY <3>4, ByteAdded
    <3> QED BY <2>1, <3>2, <3>3, <3>5
  <2>3. CASE n % 4 = 2
    <3>1. /\ n - 1 <= 4 * Len(a) /\ (n - 1) % 4 = 1 /\ (n - 1) \div 4 = q
          /\ q + 1 \in 1..Len(a)
      BY <1>1, <1>3, <2>3
    <3>2. /\ LineAfter(a, n) = <<"open", a[q + 1]>> /\ Piece(a, n) = a[q + 1]
          /\ LineAfter(a, n - 1) = <<"open">>
      <4>1. LineAfter(a, n) = <<"open", a[q + 1]>> /\ Piece(a, n) = a[q + 1]
        BY <1>3, <2>3 DEF LineAfter, Piece
      <4>2. LineAfter(a, n - 1) = <<"open">>
        <5>1. PICK k : k = n - 1 /\ k % 4 = 1 /\ k <= 4 * Len(a)
          BY <3>1
        <5>2. LineAfter(a, k) = <<"open">>
          BY ONLY <5>1 DEF LineAfter
        <5> QED BY <5>1, <5>2
      <4> QED BY <4>1, <4>2
    <3>3. /\ After(a, n) = [done |-> done, line |-> <<"open", a[q + 1]>>]
          /\ After(a, n - 1) = [done |-> done, line |-> <<"open">>]
      BY <3>1, <3>2 DEF After
    <3>4. a[q + 1] # "nl" /\ a[q + 1] # Separator
      BY <1>2, <3>1, TextsApart
    <3> HIDE DEF q, done
    <3>5. LineStep([done |-> done, line |-> <<"open">>], a[q + 1])
            = [done |-> done, line |-> <<"open", a[q + 1]>>]
      BY <3>4, PlusOne, ByteAdded
    <3> QED BY <2>1, <3>2, <3>3, <3>5
  <2>4. CASE n % 4 = 3
    <3>1. n - 1 <= 4 * Len(a) /\ (n - 1) % 4 = 2 /\ (n - 1) \div 4 = q
      BY <1>1, <1>3, <2>4
    <3>2. /\ LineAfter(a, n) = <<"open", a[q + 1], "close">> /\ Piece(a, n) = "close"
          /\ LineAfter(a, n - 1) = <<"open", a[q + 1]>>
      <4>1. LineAfter(a, n) = <<"open", a[q + 1], "close">> /\ Piece(a, n) = "close"
        BY <1>3, <2>4 DEF LineAfter, Piece
      <4>2. LineAfter(a, n - 1) = <<"open", a[q + 1]>>
        BY <3>1 DEF LineAfter
      <4> QED BY <4>1, <4>2
    <3>3. /\ After(a, n) = [done |-> done, line |-> <<"open", a[q + 1], "close">>]
          /\ After(a, n - 1) = [done |-> done, line |-> <<"open", a[q + 1]>>]
      BY <3>1, <3>2 DEF After
    <3> HIDE DEF q, done
    <3>4. /\ Plus(<<"open", a[q + 1]>>, "close") = <<"open", a[q + 1], "close">>
          /\ "close" # "nl" /\ "close" # Separator
      BY PlusTwo, TextsApart
    <3>5. LineStep([done |-> done, line |-> <<"open", a[q + 1]>>], "close")
            = [done |-> done, line |-> <<"open", a[q + 1], "close">>]
      <4> DEFINE l == <<"open", a[q + 1]>>
                 m == <<"open", a[q + 1], "close">>
      <4>1. Plus(l, "close") = m
        BY <3>4
      <4> HIDE DEF l, m
      <4>2. LineStep([done |-> done, line |-> l], "close") = [done |-> done, line |-> m]
        BY <3>4, <4>1, ByteAdded
      <4> QED BY <4>2 DEF l, m
    <3> QED BY <2>1, <3>2, <3>3, <3>5
  <2>5. CASE n % 4 = 0
    <3>1. /\ n - 1 <= 4 * Len(a) /\ (n - 1) % 4 = 3 /\ (n - 1) \div 4 = q - 1
          /\ q \in 1..Len(a) /\ q - 1 + 1 = q
      BY <1>1, <1>3, <2>5
    <3>2. /\ LineAfter(a, n) = <<>> /\ Piece(a, n) = "nl"
          /\ LineAfter(a, n - 1) = <<"open", a[q], "close">>
      <4>1. LineAfter(a, n) = <<>> /\ Piece(a, n) = "nl"
        BY <1>3, <2>5 DEF LineAfter, Piece
      <4>2. LineAfter(a, n - 1) = <<"open", a[q], "close">>
        BY <3>1 DEF LineAfter
      <4> QED BY <4>1, <4>2
    <3>3. /\ After(a, n) = [done |-> done, line |-> <<>>]
          /\ After(a, n - 1) = [done |-> SubSeq(a, 1, q - 1), line |-> <<"open", a[q], "close">>]
      BY <3>1, <3>2 DEF After
    <3> HIDE DEF q
    <3>4. TextIn(<<"open", a[q], "close">>) = <<a[q]>>
      BY <1>2, <3>1 DEF TextIn
    <3>5. done = SubSeq(a, 1, q - 1) \o <<a[q]>>
      BY <1>1, <3>1
    <3> HIDE DEF done
    <3>6. LineStep([done |-> SubSeq(a, 1, q - 1), line |-> <<"open", a[q], "close">>], "nl")
            = [done |-> done, line |-> <<>>]
      BY <3>4, <3>5, LineEnded
    <3> QED BY <2>1, <3>2, <3>3, <3>6
  <2>6. n % 4 \in 0..3
    BY <1>1
  <2> QED BY <2>2, <2>3, <2>4, <2>5, <2>6
<1>4. CASE n = 4 * Len(a) + 1
  <2>1. Bytes(a)[n] = "[DONE]"
    BY <1>4, BytesAre
  <2>2. n - 1 = 4 * Len(a) /\ (n - 1) % 4 = 0 /\ (n - 1) \div 4 = n \div 4 /\ ~(n <= 4 * Len(a))
    BY <1>1, <1>4
  <2>3. LineAfter(a, n) = <<"[DONE]">> /\ LineAfter(a, n - 1) = <<>>
    BY <1>1, <1>4, <2>2 DEF LineAfter
  <2>4. /\ After(a, n) = [done |-> SubSeq(a, 1, n \div 4), line |-> <<"[DONE]">>]
        /\ After(a, n - 1) = [done |-> SubSeq(a, 1, n \div 4), line |-> <<>>]
    BY <2>2, <2>3 DEF After
  <2>5. Plus(<<>>, "[DONE]") = <<"[DONE]">> /\ "[DONE]" # "nl" /\ "[DONE]" # Separator
    BY PlusNone, TextsApart
  <2>6. \A done : LineStep([done |-> done, line |-> <<>>], "[DONE]") = [done |-> done, line |-> <<"[DONE]">>]
    BY <2>5, ByteAdded
  <2> QED BY <2>1, <2>4, <2>6
<1>5. CASE n = 4 * Len(a) + 2
  <2>1. Bytes(a)[n] = "nl"
    BY <1>5, BytesAre
  <2>2. /\ n - 1 = 4 * Len(a) + 1 /\ n \div 4 = Len(a) /\ (n - 1) \div 4 = Len(a)
        /\ ~(n <= 4 * Len(a)) /\ ~(n - 1 <= 4 * Len(a)) /\ n # 4 * Len(a) + 1
    BY <1>1, <1>5
  <2>3. LineAfter(a, n) = <<>> /\ LineAfter(a, n - 1) = <<"[DONE]">>
    BY <2>2 DEF LineAfter
  <2>4. TextIn(<<"[DONE]">>) = <<>>
    BY DEF TextIn
  <2>5. SubSeq(a, 1, Len(a)) = SubSeq(a, 1, Len(a)) \o <<>>
    BY <1>1
  <2> QED BY <2>1, <2>2, <2>3, <2>4, <2>5 DEF After, LineStep
<1> QED BY <1>1, <1>3, <1>4, <1>5

(* What has been read after j bytes of an error event.                     *)
AfterError(acc, j) ==
    [done |-> acc.done,
     line |-> CASE j = 0 -> acc.line [] j = 1 -> Plus(acc.line, "event: error")
                [] j = 2 -> <<>> [] j = 3 -> <<"open">> [] j = 4 -> <<"open", "error">>
                [] j = 5 -> <<"open", "error", "close">> [] j = 6 -> <<>>]

(* No line of an error event has a text, nor has one that it cuts.         *)
LEMMA NoTextIn ==
    /\ \A line \in Seq(Byte) : TextIn(Plus(line, "event: error")) = <<>>
    /\ TextIn(<<"open", "error", "close">>) = <<>>
    /\ TextIn(<<>>) = <<>> /\ TextIn(<<"open">>) = <<>> /\ TextIn(<<"open", "error">>) = <<>>
<1>1. ASSUME NEW line \in Seq(Byte) PROVE TextIn(Plus(line, "event: error")) = <<>>
  <2> DEFINE l == Plus(line, "event: error")
  <2>1. l[Len(l)] = "event: error"
    <3>1. "event: error" \in Byte
      BY DEF Byte
    <3>2. Len(l) = Len(line) + 1 /\ l[Len(line) + 1] = "event: error"
      BY <3>1, AppendIs
    <3> QED BY <3>2
  <2> HIDE DEF l
  <2>2. ~(Len(l) = 3 /\ l[3] = "close")
    BY <2>1
  <2> QED BY <2>2 DEF TextIn, l
<1>2. TextIn(<<"open", "error", "close">>) = <<>>
  BY TextsApart DEF TextIn
<1>3. TextIn(<<>>) = <<>> /\ TextIn(<<"open">>) = <<>> /\ TextIn(<<"open", "error">>) = <<>>
  BY DEF TextIn
<1> QED BY <1>1, <1>2, <1>3

LEMMA ErrorStep ==
    ASSUME NEW done \in Seq(Texts), NEW line \in Seq(Byte), NEW j \in 1..6
    PROVE  LET acc == [done |-> done, line |-> line] IN
           AfterError(acc, j) = LineStep(AfterError(acc, j - 1), ErrorEvent[j])
<1> DEFINE acc == [done |-> done, line |-> line]
<1>1. \A l : l = <<>> => done \o l = done
  OBVIOUS
<1>2. /\ ErrorEvent[1] = "event: error" /\ ErrorEvent[2] = "nl" /\ ErrorEvent[3] = "open"
      /\ ErrorEvent[4] = "error" /\ ErrorEvent[5] = "close" /\ ErrorEvent[6] = "nl"
  BY DEF ErrorEvent
<1>3. /\ AfterError(acc, 0) = [done |-> done, line |-> line]
      /\ AfterError(acc, 1) = [done |-> done, line |-> Plus(line, "event: error")]
      /\ AfterError(acc, 2) = [done |-> done, line |-> <<>>]
      /\ AfterError(acc, 3) = [done |-> done, line |-> <<"open">>]
      /\ AfterError(acc, 4) = [done |-> done, line |-> <<"open", "error">>]
      /\ AfterError(acc, 5) = [done |-> done, line |-> <<"open", "error", "close">>]
      /\ AfterError(acc, 6) = [done |-> done, line |-> <<>>]
  BY DEF AfterError
<1> HIDE DEF acc
<1>4. j = 1 \/ j = 2 \/ j = 3 \/ j = 4 \/ j = 5 \/ j = 6
  OBVIOUS
<1> DEFINE none == <<>>
           one == <<"open">>
           two == <<"open", "error">>
           three == <<"open", "error", "close">>
<1>5. Plus(none, "open") = one /\ Plus(one, "error") = two /\ Plus(two, "close") = three
  BY PlusNone, PlusOne, PlusTwo
<1>6. /\ "event: error" # "nl" /\ "open" # "nl" /\ "error" # "nl" /\ "close" # "nl"
       /\ "event: error" # Separator /\ "open" # Separator
       /\ "error" # Separator /\ "close" # Separator
  BY TextsApart
<1>7. AfterError(acc, 1) = LineStep(AfterError(acc, 0), ErrorEvent[1])
  BY <1>2, <1>3, <1>6, ByteAdded
<1>8. AfterError(acc, 2) = LineStep(AfterError(acc, 1), ErrorEvent[2])
  BY <1>1, <1>2, <1>3, NoTextIn, LineEnded
<1>9. /\ AfterError(acc, 2) = [done |-> done, line |-> none]
       /\ AfterError(acc, 3) = [done |-> done, line |-> one]
       /\ AfterError(acc, 4) = [done |-> done, line |-> two]
       /\ AfterError(acc, 5) = [done |-> done, line |-> three]
  BY <1>3
<1> HIDE DEF none, one, two, three
<1>10. AfterError(acc, 3) = LineStep(AfterError(acc, 2), ErrorEvent[3])
  <2>1. LineStep([done |-> done, line |-> none], "open") = [done |-> done, line |-> one]
    BY <1>5, <1>6, ByteAdded
  <2> QED BY <1>2, <1>9, <2>1
<1>11. AfterError(acc, 4) = LineStep(AfterError(acc, 3), ErrorEvent[4])
  <2>1. LineStep([done |-> done, line |-> one], "error") = [done |-> done, line |-> two]
    BY <1>5, <1>6, ByteAdded
  <2> QED BY <1>2, <1>9, <2>1
<1>12. AfterError(acc, 5) = LineStep(AfterError(acc, 4), ErrorEvent[5])
  <2>1. LineStep([done |-> done, line |-> two], "close") = [done |-> done, line |-> three]
    BY <1>5, <1>6, ByteAdded
  <2> QED BY <1>2, <1>9, <2>1
<1>13. AfterError(acc, 6) = LineStep(AfterError(acc, 5), ErrorEvent[6])
  BY <1>1, <1>2, <1>3, NoTextIn, LineEnded
<1> QED BY <1>4, <1>7, <1>8, <1>10, <1>11, <1>12, <1>13 DEF acc

(* A line that is cut has a text only if the whole JSON object is there.   *)
LEMMA LineAfterIs ==
    ASSUME NEW a \in Seq(Texts), NEW m \in 0..(4 * Len(a) + 2)
    PROVE  /\ LineAfter(a, m) \in Seq(Byte)
           /\ m % 4 = 3 => m \div 4 + 1 \in 1..Len(a) /\ TextIn(LineAfter(a, m)) = <<a[m \div 4 + 1]>>
           /\ m % 4 # 3 => TextIn(LineAfter(a, m)) = <<>>
<1> DEFINE q == m \div 4
<1>1. Len(a) \in Nat /\ m \in Nat /\ m <= 4 * Len(a) + 2
  OBVIOUS
<1>2. m % 4 \in 0..3
  BY <1>1
<1>3. \A i \in 1..Len(a) : a[i] \in Texts
  OBVIOUS
<1>4. <<>> \in Seq(Byte) /\ TextIn(<<>>) = <<>>
  BY DEF TextIn
<1>5. CASE m <= 4 * Len(a)
  <2>1. m % 4 # 0 => q + 1 \in 1..Len(a)
    BY <1>1, <1>2, <1>5
  <2>2. CASE m % 4 = 0
    BY <1>4, <1>5, <2>2 DEF LineAfter
  <2>3. CASE m % 4 = 1
    <3>1. LineAfter(a, m) = <<"open">>
      BY <1>5, <2>3 DEF LineAfter
    <3>2. <<"open">> \in Seq(Byte) /\ TextIn(<<"open">>) = <<>>
      BY DEF Byte, TextIn
    <3> QED BY <2>3, <3>1, <3>2
  <2>4. CASE m % 4 = 2
    <3>1. LineAfter(a, m) = <<"open", a[q + 1]>>
      BY <1>5, <2>4 DEF LineAfter
    <3> HIDE DEF q
    <3>2. <<"open", a[q + 1]>> \in Seq(Byte) /\ TextIn(<<"open", a[q + 1]>>) = <<>>
      <4> DEFINE b == a[q + 1]
      <4>1. b \in Texts
        BY <1>3, <2>1, <2>4
      <4> HIDE DEF b
      <4>2. <<"open", b>> \in Seq(Byte) /\ Len(<<"open", b>>) = 2
        <5>1. "open" \in Byte /\ b \in Byte
          BY <4>1 DEF Byte
        <5> QED BY <5>1
      <4>3. TextIn(<<"open", b>>) = <<>>
        BY <4>2 DEF TextIn
      <4> QED BY <4>2, <4>3 DEF b
    <3> QED BY <2>4, <3>1, <3>2
  <2>5. CASE m % 4 = 3
    <3>1. LineAfter(a, m) = <<"open", a[q + 1], "close">>
      BY <1>5, <2>5 DEF LineAfter
    <3>2. q + 1 \in 1..Len(a)
      BY <2>1, <2>5
    <3>3. m \div 4 = q
      OBVIOUS
    <3> HIDE DEF q
    <3>4. /\ <<"open", a[q + 1], "close">> \in Seq(Byte)
          /\ TextIn(<<"open", a[q + 1], "close">>) = <<a[q + 1]>>
      <4> DEFINE b == a[q + 1]
      <4>1. b \in Texts
        BY <1>3, <3>2
      <4> HIDE DEF b
      <4>2. <<"open", b, "close">> \in Seq(Byte)
        <5>1. "open" \in Byte /\ b \in Byte /\ "close" \in Byte
          BY <4>1 DEF Byte
        <5> QED BY <5>1
      <4>3. TextIn(<<"open", b, "close">>) = <<b>>
        BY <4>1 DEF TextIn
      <4> QED BY <4>2, <4>3 DEF b
    <3> QED BY <2>5, <3>1, <3>2, <3>3, <3>4
  <2> QED BY <1>2, <2>2, <2>3, <2>4, <2>5
<1>6. CASE ~(m <= 4 * Len(a))
  <2>1. m % 4 # 3
    BY <1>1, <1>6
  <2>2. LineAfter(a, m) = <<"[DONE]">> \/ LineAfter(a, m) = <<>>
    BY <1>6 DEF LineAfter
  <2>3. <<"[DONE]">> \in Seq(Byte) /\ TextIn(<<"[DONE]">>) = <<>>
    BY DEF Byte, TextIn
  <2> QED BY <1>4, <2>1, <2>2, <2>3
<1> QED BY <1>5, <1>6

(* The first m bytes of an answer, and of an error event what follows them. *)
CutTo(a, m, k, c) ==
    /\ DOMAIN c = 1..k
    /\ \A n \in 1..m : c[n] = Bytes(a)[n]
    /\ \A j \in 1..(k - m) : c[m + j] = ErrorEvent[j]

(* Of m bytes, and what there is of an error event, the message has the    *)
(* texts whose objects are in the m bytes to their end.                    *)
LEMMA MessageRead ==
    ASSUME NEW a \in Seq(Texts), ~Contains(a, Separator),
           NEW m \in 0..(4 * Len(a) + 2), NEW k \in m..(m + 6),
           NEW c, CutTo(a, m, k, c)
    PROVE  \E q \in 0..Len(a) : /\ MessageContent(c) = SubSeq(a, 1, q)
                                /\ m \div 4 <= q /\ q <= (m + 1) \div 4
<1> DEFINE done == SubSeq(a, 1, m \div 4)
           line == LineAfter(a, m)
           acc == [done |-> done, line |-> line]
           h == [n \in 0..k |-> IF n <= m THEN After(a, n) ELSE AfterError(acc, n - m)]
<1>1. /\ Len(a) \in Nat /\ m \in Nat /\ k \in Nat /\ m <= k /\ k <= m + 6
      /\ m \div 4 \in 0..Len(a)
  OBVIOUS
<1>2. done \in Seq(Texts) /\ line \in Seq(Byte) /\ After(a, m) = acc
  BY <1>1, LineAfterIs DEF After
<1>3. h[0] = NoLines
  <2>1. h[0] = After(a, 0) /\ 0 % 4 = 0 /\ 0 \div 4 = 0 /\ 0 <= 4 * Len(a) /\ SubSeq(a, 1, 0) = <<>>
    BY <1>1
  <2> QED BY <2>1 DEF After, LineAfter, NoLines
<1>4. ASSUME NEW n \in 1..k PROVE h[n] = LineStep(h[n - 1], c[n])
  <2>1. n \in Nat /\ 1 <= n /\ n <= k /\ n - 1 \in 0..k /\ n \in 0..k
    BY <1>1
  <2>2. CASE n <= m
    <3>1. n - 1 <= m /\ n \in 1..(4 * Len(a) + 2) /\ n \in 1..m
      BY <1>1, <2>1, <2>2
    <3>2. h[n] = After(a, n) /\ h[n - 1] = After(a, n - 1) /\ c[n] = Bytes(a)[n]
      BY <2>1, <2>2, <3>1 DEF CutTo
    <3> HIDE DEF h
    <3> QED BY <3>1, <3>2, AnswerStep
  <2>3. CASE ~(n <= m)
    <3> DEFINE j == n - m
    <3>1. j \in 1..6 /\ j \in 1..(k - m) /\ n = m + j /\ n - 1 = m + (j - 1)
      BY <1>1, <2>1, <2>3
    <3>2. h[n] = AfterError(acc, j)
      BY <2>1, <2>3
    <3>3. h[n - 1] = AfterError(acc, j - 1)
      <4>1. CASE n - 1 <= m
        <5>1. n - 1 = m /\ j - 1 = 0
          BY <1>1, <2>1, <2>3, <4>1
        <5>2. h[n - 1] = acc
          BY <1>2, <2>1, <4>1, <5>1
        <5>3. AfterError(acc, 0) = acc
          BY DEF AfterError
        <5> QED BY <5>1, <5>2, <5>3
      <4>2. CASE ~(n - 1 <= m)
        <5>1. n - 1 - m = j - 1
          BY <1>1, <2>1
        <5> QED BY <2>1, <4>2, <5>1
      <4> QED BY <4>1, <4>2
    <3>4. c[n] = ErrorEvent[j]
      BY <3>1 DEF CutTo
    <3> HIDE DEF h, j, done, line
    <3>5. AfterError(acc, j) = LineStep(AfterError(acc, j - 1), ErrorEvent[j])
      BY <1>2, <3>1, ErrorStep
    <3> QED BY <3>2, <3>3, <3>4, <3>5
  <2> QED BY <2>2, <2>3
<1>5. Lines(c) = h[k]
  <2> HIDE DEF h
  <2>1. DOMAIN c = 1..k
    BY DEF CutTo
  <2> QED BY <1>1, <1>3, <1>4, <2>1, LinesAre
<1>6. CASE k = m
  <2>1. Lines(c) = acc
    BY <1>1, <1>2, <1>5, <1>6
  <2>2. MessageContent(c) = done \o TextIn(line)
    <3> HIDE DEF done, line
    <3> QED BY <2>1 DEF MessageContent
  <2>3. CASE m % 4 = 3
    <3> DEFINE q == m \div 4 + 1
    <3>1. q \in 0..Len(a) /\ m \div 4 <= q /\ q <= (m + 1) \div 4 /\ q \in 1..Len(a)
      BY <1>1, <2>3, LineAfterIs
    <3>2. TextIn(line) = <<a[q]>>
      BY <2>3, LineAfterIs
    <3>3. SubSeq(a, 1, q) = SubSeq(a, 1, q - 1) \o <<a[q]>> /\ q - 1 = m \div 4
      <4>1. q - 1 = m \div 4
        BY <1>1
      <4> HIDE DEF q
      <4> QED BY <1>1, <3>1, <4>1
    <3>4. MessageContent(c) = SubSeq(a, 1, q)
      BY <2>2, <3>2, <3>3
    <3> QED BY <3>1, <3>4
  <2>4. CASE m % 4 # 3
    <3>1. TextIn(line) = <<>>
      BY <2>4, LineAfterIs
    <3>2. done \o <<>> = done
      BY <1>2
    <3>3. m \div 4 <= (m + 1) \div 4
      BY <1>1
    <3> QED BY <1>1, <2>2, <3>1, <3>2, <3>3
  <2> QED BY <2>3, <2>4
<1>7. CASE k # m
  <2> DEFINE j == k - m
  <2>1. j \in 1..6 /\ ~(k <= m) /\ k \in 0..k
    BY <1>1, <1>7
  <2>2. Lines(c) = AfterError(acc, j)
    BY <1>5, <2>1
  <2>3. Lines(c).done = done /\ TextIn(Lines(c).line) = <<>>
    <3> HIDE DEF j, done, line
    <3>1. j = 1 \/ j = 2 \/ j = 3 \/ j = 4 \/ j = 5 \/ j = 6
      BY <2>1
    <3>2. /\ AfterError(acc, 1) = [done |-> done, line |-> Plus(line, "event: error")]
          /\ AfterError(acc, 2) = [done |-> done, line |-> <<>>]
          /\ AfterError(acc, 3) = [done |-> done, line |-> <<"open">>]
          /\ AfterError(acc, 4) = [done |-> done, line |-> <<"open", "error">>]
          /\ AfterError(acc, 5) = [done |-> done, line |-> <<"open", "error", "close">>]
          /\ AfterError(acc, 6) = [done |-> done, line |-> <<>>]
      BY DEF AfterError
    <3> HIDE DEF acc
    <3>3. TextIn(Plus(line, "event: error")) = <<>>
      BY <1>2, NoTextIn
    <3>4. \E l : Lines(c) = [done |-> done, line |-> l] /\ TextIn(l) = <<>>
      BY <2>2, <3>1, <3>2, <3>3, NoTextIn
    <3> QED BY <3>4
  <2>4. MessageContent(c) = done
    <3>1. done \o <<>> = done
      BY <1>2
    <3> QED BY <2>3, <3>1 DEF MessageContent
  <2>5. m \div 4 <= (m + 1) \div 4
    BY <1>1
  <2> QED BY <1>1, <2>4, <2>5
<1> QED BY <1>6, <1>7

(* Besides, what has been taken from the upstream is what it says, and an  *)
(* error event at the end if it failed.                                    *)
Taken == SubSeq(Bytes(said), 1, pos)
MessageIInv ==
    /\ pos <= Len(Bytes(said)) /\ failed \in BOOLEAN
    /\ Seen = IF failed THEN Taken \o ErrorEvent ELSE Taken
    /\ stage = "archived" => payload.message = MessageContent(collected)

LEMMA MessageInitIInv == StreamInit => MessageIInv
<1> SUFFICES ASSUME StreamInit PROVE MessageIInv
  OBVIOUS
<1>1. Bytes(said) \in Seq(Byte)
  BY BytesType, SayingsAssumption DEF StreamInit
<1>2. pos = 0 /\ failed = FALSE /\ stage = "reading" /\ Seen = <<>>
  BY DEF StreamInit, Seen
<1>3. Taken = <<>> /\ 0 <= Len(Bytes(said))
  BY <1>1, <1>2 DEF Taken
<1> QED BY <1>2, <1>3 DEF MessageIInv

LEMMA SaidAndSeen ==
    ASSUME StreamIInv, MessageIInv
    PROVE  /\ said \in Seq(Texts) /\ Bytes(said) \in Seq(Byte)
           /\ pos \in Nat /\ pos <= Len(Bytes(said))
           /\ passed \in Seq(Byte) /\ chunk \in Seq(Byte) /\ Seen \in Seq(Byte)
           /\ Taken \in Seq(Byte) /\ Len(Taken) = pos
           /\ \A n \in 1..pos : Taken[n] = Bytes(said)[n]
<1>1. /\ said \in Seq(Texts) /\ passed \in Seq(Byte) /\ chunk \in Seq(Byte)
      /\ pos \in Nat /\ pos <= Len(Bytes(said))
  BY DEF StreamIInv, MessageIInv
<1>2. Bytes(said) \in Seq(Byte)
  BY <1>1, BytesType
<1>3. Seen \in Seq(Byte)
  BY <1>1 DEF Seen
<1> DEFINE bytes == Bytes(said)
<1>4. Taken = SubSeq(bytes, 1, pos)
  BY DEF Taken
<1> HIDE DEF bytes
<1>5. Taken \in Seq(Byte) /\ Len(Taken) = pos /\ \A n \in 1..pos : Taken[n] = bytes[n]
  <2>1. bytes \in Seq(Byte) /\ pos <= Len(bytes)
    BY <1>1, <1>2 DEF bytes
  <2> QED BY <1>1, <1>4, <2>1
<1> QED BY <1>1, <1>2, <1>3, <1>5 DEF bytes

LEMMA MessageNextIInv == StreamIInv /\ MessageIInv /\ [StreamNext]_streamVars => MessageIInv'
<1> SUFFICES ASSUME StreamIInv, MessageIInv, [StreamNext]_streamVars PROVE MessageIInv'
  OBVIOUS
<1>1. /\ Bytes(said) \in Seq(Byte) /\ pos \in Nat /\ passed \in Seq(Byte) /\ chunk \in Seq(Byte)
      /\ Taken \in Seq(Byte) /\ Seen \in Seq(Byte) /\ pos <= Len(Bytes(said))
  BY SaidAndSeen
<1>2. CASE ReadChunk
  <2>1. PICK n \in 1..(Len(Bytes(said)) - pos) :
          Yield(SubSeq(Bytes(said), pos + 1, pos + n)) /\ pos' = pos + n
    BY <1>2 DEF ReadChunk
  <2>2. n \in Nat /\ pos + n <= Len(Bytes(said))
    BY <1>1, <2>1
  <2>3. /\ failed = FALSE /\ failed' = failed /\ stage = "reading" /\ stage' = "passing"
        /\ said' = said /\ passed' = passed
        /\ chunk = <<>> /\ chunk' = SubSeq(Bytes(said), pos + 1, pos + n)
    BY <1>2, <2>1 DEF ReadChunk, Yield, StreamIInv, MessageIInv
  <2>4. Seen = passed /\ Seen' = passed \o SubSeq(Bytes(said), pos + 1, pos + n)
    BY <1>1, <2>3 DEF Seen
  <2>5. Taken' = SubSeq(Bytes(said), 1, pos + n)
    BY <2>1, <2>3 DEF Taken
  <2>6. passed = SubSeq(Bytes(said), 1, pos)
    BY <2>3, <2>4 DEF MessageIInv, Taken
  <2>7. Seen' = Taken'
    BY <1>1, <2>2, <2>4, <2>5, <2>6, TakeOn
  <2>8. pos' <= Len(Bytes(said'))
    BY <2>1, <2>2, <2>3
  <2> QED BY <2>3, <2>7, <2>8 DEF MessageIInv
<1>3. CASE ReadFails
  <2>1. /\ failed = FALSE /\ failed' = TRUE /\ stage' = "passing" /\ said' = said /\ pos' = pos
        /\ passed' = passed /\ chunk = <<>> /\ chunk' = ErrorEvent
    BY <1>3 DEF ReadFails, Yield, StreamIInv, MessageIInv
  <2>2. Seen = passed /\ Seen' = passed \o ErrorEvent /\ Taken' = Taken
    BY <1>1, <2>1 DEF Seen, Taken
  <2>3. passed = Taken
    BY <2>1, <2>2 DEF MessageIInv
  <2> QED BY <1>1, <2>1, <2>2, <2>3 DEF MessageIInv
<1>4. CASE Deliver
  <2>1. /\ passed' = Seen /\ chunk' = <<>> /\ stage' = "reading"
        /\ UNCHANGED <<said, pos, failed>>
    BY <1>4 DEF Deliver, Seen
  <2>2. Seen' = Seen /\ Taken' = Taken
    BY <1>1, <2>1 DEF Seen, Taken
  <2> QED BY <2>1, <2>2 DEF MessageIInv
<1>5. CASE Finish \/ ClientLeaves
  <2>1. /\ stage' = "archived" /\ payload' = Payload
        /\ UNCHANGED <<said, pos, chunk, collected, passed, failed>>
    BY <1>5 DEF Finish, ClientLeaves, Archive
  <2>2. Seen' = Seen /\ Taken' = Taken /\ payload'.message = MessageContent(collected)
    BY <2>1 DEF Seen, Taken, Payload
  <2> QED BY <2>1, <2>2 DEF MessageIInv
<1>6. CASE UNCHANGED streamVars
  BY <1>6 DEF streamVars, MessageIInv, Seen, Taken
<1> QED BY <1>2, <1>3, <1>4, <1>5, <1>6 DEF StreamNext

LEMMA MessageSaid == StreamIInv /\ MessageIInv => MessageIsSaid
<1> DEFINE m == IF limit < pos THEN limit ELSE pos
           k == Len(collected)
<1> SUFFICES ASSUME StreamIInv, MessageIInv, stage = "archived", ~Contains(said, Separator)
             PROVE  /\ IsPrefix(payload.message, said)
                    /\ Len(payload.message) <= (m + 1) \div 4
                    /\ Len(payload.message) >= m \div 4 \/ Len(payload.message) = Len(said)
  BY DEF MessageIsSaid
<1>1. /\ said \in Seq(Texts) /\ limit \in Nat /\ pos \in Nat
      /\ Seen \in Seq(Byte) /\ Bytes(said) \in Seq(Byte) /\ Taken \in Seq(Byte)
      /\ pos <= Len(Bytes(said)) /\ collected = First(Seen, limit)
      /\ payload.message = MessageContent(collected)
      /\ Len(Bytes(said)) = 4 * Len(said) + 2
  <2>1. limit \in Nat /\ collected = First(Seen, limit) /\ payload.message = MessageContent(collected)
    BY DEF StreamIInv, MessageIInv
  <2>2. Len(Bytes(said)) = 4 * Len(said) + 2
    BY SaidAndSeen, BytesAre
  <2> QED BY <2>1, <2>2, SaidAndSeen
<1>2. /\ Len(Taken) = pos /\ \A n \in 1..pos : Taken[n] = Bytes(said)[n]
  BY SaidAndSeen
<1>3. ErrorEvent \in Seq(Byte) /\ Len(ErrorEvent) = 6
  BY DEF ErrorEvent, Byte
<1>4. /\ Len(Seen) \in pos..(pos + 6)
      /\ \A n \in 1..pos : Seen[n] = Bytes(said)[n]
      /\ \A j \in 1..(Len(Seen) - pos) : Seen[pos + j] = ErrorEvent[j]
  <2>1. CASE failed
    <3>1. Seen = Taken \o ErrorEvent
      BY <2>1 DEF MessageIInv
    <3> HIDE DEF m, k
    <3>2. /\ Len(Seen) = pos + 6 /\ \A n \in 1..pos : Seen[n] = Taken[n]
          /\ \A j \in 1..6 : Seen[pos + j] = ErrorEvent[j]
      <4>1. /\ Len(Seen) = Len(Taken) + Len(ErrorEvent)
            /\ \A n \in 1..Len(Taken) : Seen[n] = Taken[n]
            /\ \A j \in 1..Len(ErrorEvent) : Seen[Len(Taken) + j] = ErrorEvent[j]
        <5>1. Taken \in Seq(Byte) /\ ErrorEvent \in Seq(Byte)
          BY <1>1, <1>3
        <5> QED BY <3>1, <5>1, SeqsJoined
      <4> QED BY <1>2, <1>3, <4>1
    <3> QED BY <1>1, <1>2, <3>2
  <2>2. CASE ~failed
    <3>1. Seen = Taken
      BY <2>2 DEF MessageIInv
    <3> QED BY <1>1, <1>2, <3>1
  <2> QED BY <2>1, <2>2
<1>5. /\ k = IF limit < Len(Seen) THEN limit ELSE Len(Seen)
      /\ \A i \in 1..k : collected[i] = Seen[i] /\ collected \in Seq(Byte)
  BY <1>1, FirstType
<1>6. m \in 0..(4 * Len(said) + 2) /\ k \in m..(m + 6) /\ m <= pos /\ (k > m => m = pos)
  BY <1>1, <1>4, <1>5
<1>7. CutTo(said, m, k, collected)
  <2>1. DOMAIN collected = 1..k
    BY <1>1, FirstType
  <2> HIDE DEF m, k
  <2>2. \A n \in 1..m : collected[n] = Bytes(said)[n]
    BY <1>1, <1>4, <1>5, <1>6
  <2>3. ASSUME NEW j \in 1..(k - m) PROVE collected[m + j] = ErrorEvent[j]
    <3>1. m = pos /\ m + j \in 1..k /\ k <= Len(Seen) /\ j \in 1..(Len(Seen) - pos)
      BY <1>1, <1>4, <1>5, <1>6
    <3> QED BY <1>4, <1>5, <3>1
  <2> QED BY <2>1, <2>2, <2>3 DEF CutTo
<1> HIDE DEF m, k
<1>8. PICK q \in 0..Len(said) : /\ MessageContent(collected) = SubSeq(said, 1, q)
                                /\ m \div 4 <= q /\ q <= (m + 1) \div 4
  BY <1>1, <1>6, <1>7, MessageRead
<1>9. Len(SubSeq(said, 1, q)) = q /\ q <= Len(said) /\ q \in Nat /\ Len(said) \in Nat
  BY <1>1
<1>10. IsPrefix(SubSeq(said, 1, q), said)
  BY <1>1, <1>9 DEF IsPrefix
<1>11. m \div 4 \in Int /\ (m + 1) \div 4 \in Int
  BY <1>6
<1> QED BY <1>1, <1>8, <1>9, <1>10, <1>11

(* The archived message is a beginning of what the upstream said, with     *)
(* every text that is in the archive to its end and none that is cut,      *)
(* wherever the bytes are cut into chunks, by the limit, by an error or by *)
(* the client's leaving (_extract_sse_message_content).                    *)
THEOREM MessagesAsSaid == StreamSpec => []MessageIsSaid
<1>1. StreamInit => StreamIInv /\ MessageIInv
  BY StreamInitIInv, MessageInitIInv
<1>2. (StreamIInv /\ MessageIInv) /\ [StreamNext]_streamVars => (StreamIInv /\ MessageIInv)'
  BY StreamNextIInv, MessageNextIInv
<1> QED BY <1>1, <1>2, MessageSaid, PTL DEF StreamSpec

(* What is in a flattened sequence: the elements of its parts, and no      *)
(* others.                                                                 *)
LEMMA FlattenHolds ==
    ASSUME NEW S, NEW seqs \in Seq(Seq(S))
    PROVE  /\ FlattenSeq(seqs) \in Seq(S)
           /\ \A n \in 1..Len(FlattenSeq(seqs)) :
                 \E i \in 1..Len(seqs) : \E j \in 1..Len(seqs[i]) : FlattenSeq(seqs)[n] = seqs[i][j]
           /\ \A i \in 1..Len(seqs) : \A j \in 1..Len(seqs[i]) :
                 \E n \in 1..Len(FlattenSeq(seqs)) : FlattenSeq(seqs)[n] = seqs[i][j]
<1>1. CASE Len(seqs) = 0
  <2>1. FlattenSeq(seqs) = seqs /\ seqs = <<>>
    BY <1>1 DEF FlattenSeq
  <2> QED BY <1>1, <2>1, FlattenType
<1>2. CASE Len(seqs) # 0
  <2>1. PICK n : n = Len(seqs) /\ n \in Nat /\ n \in 1..n /\ \A i \in 1..n : seqs[i] \in Seq(S)
    BY <1>2
  <2>2. PICK f : FlattenSeq(seqs) = f[n] /\ \A i \in 1..n : f[i] = Flat(f, seqs, i)
    BY <1>2, <2>1, FlattenIs
  <2> DEFINE Holds(m) ==
               /\ f[m] \in Seq(S)
               /\ \A k \in 1..Len(f[m]) : \E i \in 1..m : \E j \in 1..Len(seqs[i]) : f[m][k] = seqs[i][j]
               /\ \A i \in 1..m : \A j \in 1..Len(seqs[i]) : \E k \in 1..Len(f[m]) : f[m][k] = seqs[i][j]
             Bad == {m \in 1..n : ~Holds(m)}
  <2>0. SUFFICES Holds(n)
    BY <2>1, <2>2
  <2>3. SUFFICES ASSUME Bad # {} PROVE FALSE
    BY <2>1
  <2>4. PICK m \in Bad : \A k \in Bad : m <= k
    <3>1. Bad \in SUBSET Nat
      OBVIOUS
    <3> HIDE DEF Bad
    <3> QED BY <2>3, <3>1, LeastNatural
  <2>5. m \in 1..n /\ ~Holds(m) /\ f[m] = Flat(f, seqs, m) /\ seqs[m] \in Seq(S)
    BY <2>1, <2>2, <2>4
  <2>6. CASE m = 1
    <3>1. f[m] = seqs[m] /\ \A i \in 1..m : i = m
      BY <2>5, <2>6 DEF Flat
    <3> QED BY <2>5, <2>6, <3>1
  <2>7. CASE m # 1
    <3>1. m - 1 \in 1..n /\ ~(m <= m - 1)
      BY <2>1, <2>5, <2>7
    <3>2. Holds(m - 1)
      BY <2>4, <3>1
    <3>3. PICK p : p = f[m - 1] /\ p \in Seq(S)
      BY <3>2
    <3>4. f[m] = p \o seqs[m]
      BY <2>5, <2>7, <3>3 DEF Flat
    <3>5. PICK q : q = seqs[m] /\ q \in Seq(S)
      BY <2>5
    <3>6. /\ f[m] \in Seq(S) /\ Len(f[m]) = Len(p) + Len(q) /\ Len(p) \in Nat /\ Len(q) \in Nat
          /\ \A k \in 1..Len(p) : f[m][k] = p[k]
          /\ \A k \in 1..Len(q) : f[m][Len(p) + k] = q[k]
      <4>1. f[m] = p \o q
        BY <3>4, <3>5
      <4>2. /\ p \o q \in Seq(S) /\ Len(p \o q) = Len(p) + Len(q) /\ Len(p) \in Nat /\ Len(q) \in Nat
            /\ \A k \in 1..Len(p) : (p \o q)[k] = p[k]
            /\ \A k \in 1..Len(q) : (p \o q)[Len(p) + k] = q[k]
        <5>1. p \in Seq(S) /\ q \in Seq(S)
          BY <3>3, <3>5
        <5> QED BY ONLY <5>1, SeqsJoined
      <4> QED BY <4>1, <4>2
    <3>7. ASSUME NEW k \in 1..Len(f[m])
          PROVE  \E i \in 1..m : \E j \in 1..Len(seqs[i]) : f[m][k] = seqs[i][j]
      <4>1. CASE k <= Len(p)
        <5>1. k \in 1..Len(p)
          BY <3>6, <3>7, <4>1
        <5>2. PICK i \in 1..(m - 1) : \E j \in 1..Len(seqs[i]) : p[k] = seqs[i][j]
          BY <3>2, <3>3, <5>1
        <5>3. i \in 1..m
          BY <2>5
        <5> QED BY <3>6, <5>1, <5>2, <5>3
      <4>2. CASE ~(k <= Len(p))
        <5>1. k - Len(p) \in 1..Len(q) /\ Len(p) + (k - Len(p)) = k
          BY <3>6, <3>7, <4>2
        <5>2. f[m][k] = q[k - Len(p)]
          BY <3>6, <5>1
        <5>3. m \in 1..m
          BY <2>5
        <5> QED BY <3>5, <5>1, <5>2, <5>3
      <4> QED BY <4>1, <4>2
    <3>8. ASSUME NEW i \in 1..m, NEW j \in 1..Len(seqs[i])
          PROVE  \E k \in 1..Len(f[m]) : f[m][k] = seqs[i][j]
      <4>1. CASE i = m
        <5>1. j \in 1..Len(q) /\ seqs[i][j] = q[j]
          BY <3>5, <3>8, <4>1
        <5>2. Len(p) + j \in 1..Len(f[m])
          <6>1. /\ Len(f[m]) = Len(p) + Len(q) /\ Len(p) \in Nat /\ Len(q) \in Nat
                /\ j \in 1..Len(q)
            BY <3>6, <5>1, Zenon
          <6> QED BY ONLY <6>1
        <5>3. f[m][Len(p) + j] = seqs[i][j]
          BY ONLY <3>6, <5>1
        <5> QED BY ONLY <5>2, <5>3
      <4>2. CASE i # m
        <5>1. i \in 1..(m - 1)
          BY <2>5, <4>2
        <5>2. PICK k \in 1..Len(p) : p[k] = seqs[i][j]
          BY <3>2, <3>3, <3>8, <5>1
        <5>3. k \in 1..Len(f[m])
          BY <3>6, <5>2
        <5> QED BY <3>6, <5>2, <5>3
      <4> QED BY <4>1, <4>2
    <3> QED BY <2>5, <3>6, <3>7, <3>8
  <2> QED BY <2>6, <2>7
<1> QED BY <1>1, <1>2

(* What is picked of a sequence.                                           *)
Picks(s, m, I) ==
    /\ \A n \in 1..Len(Picked(s, I)) : \E i \in 1..m : i \in I /\ Picked(s, I)[n] = s[i]
    /\ \A i \in 1..m : i \in I => \E n \in 1..Len(Picked(s, I)) : Picked(s, I)[n] = s[i]

LEMMA PickedElements ==
    ASSUME NEW m \in Nat, NEW s, DOMAIN s = 1..m, NEW I
    PROVE  Picked(s, I) \in Seq({s[i] : i \in 1..m}) /\ Picks(s, m, I)
<1> DEFINE seqs == [i \in 1..m |-> IF i \in I THEN <<s[i]>> ELSE <<>>]
<1>1. PICK S : S = {s[i] : i \in 1..m}
  OBVIOUS
<1>2. seqs \in Seq(Seq(S)) /\ Len(seqs) = m
  <2>1. \A i \in 1..m : s[i] \in S
    BY <1>1
  <2>2. \A i \in 1..m : seqs[i] \in Seq(S)
    BY <2>1
  <2> QED BY <2>2
<1>3. Picked(s, I) = FlattenSeq(seqs)
  BY DEF Picked
<1>4. \A i \in 1..m : \A j \in 1..Len(seqs[i]) : i \in I /\ seqs[i][j] = s[i]
  OBVIOUS
<1>5. \A i \in 1..m : i \in I => 1 \in 1..Len(seqs[i]) /\ seqs[i][1] = s[i]
  OBVIOUS
<1> HIDE DEF seqs
<1>6. PICK t : t = FlattenSeq(seqs)
  OBVIOUS
<1>7. FlattenSeq(seqs) \in Seq(S)
  BY <1>2, FlattenType
<1>8. \A n \in 1..Len(t) : \E i \in 1..m : \E j \in 1..Len(seqs[i]) : t[n] = seqs[i][j]
  <2>1. \A n \in 1..Len(FlattenSeq(seqs)) :
           \E i \in 1..Len(seqs) : \E j \in 1..Len(seqs[i]) : FlattenSeq(seqs)[n] = seqs[i][j]
    BY <1>2, FlattenHolds
  <2> QED BY <1>2, <1>6, <2>1, Zenon
<1>9. \A i \in 1..m : \A j \in 1..Len(seqs[i]) : \E n \in 1..Len(t) : t[n] = seqs[i][j]
  <2>1. \A i \in 1..Len(seqs) : \A j \in 1..Len(seqs[i]) :
           \E n \in 1..Len(FlattenSeq(seqs)) : FlattenSeq(seqs)[n] = seqs[i][j]
    BY <1>2, FlattenHolds
  <2> QED BY <1>2, <1>6, <2>1, Zenon
<1>10. \A i \in 1..m : i \in I => \E n \in 1..Len(t) : t[n] = s[i]
  BY ONLY <1>5, <1>9
<1>11. \A n \in 1..Len(t) : \E i \in 1..m : i \in I /\ t[n] = s[i]
  BY ONLY <1>4, <1>8
<1>12. Picked(s, I) \in Seq(S)
  BY ONLY <1>3, <1>7
<1>13. Picks(s, m, I)
  BY ONLY <1>3, <1>6, <1>10, <1>11 DEF Picks
<1> QED BY <1>1, <1>12, <1>13, Zenon

LEMMA PickedHolds ==
    ASSUME NEW S, NEW m \in Nat, NEW s, DOMAIN s = 1..m, NEW I,
           \A i \in 1..m : i \in I => s[i] \in S
    PROVE  Picked(s, I) \in Seq(S) /\ Picks(s, m, I)
<1>1. PICK T : T = {s[i] : i \in 1..m}
  OBVIOUS
<1>2. PICK p : p = Picked(s, I)
  OBVIOUS
<1>3. Picked(s, I) \in Seq({s[i] : i \in 1..m}) /\ Picks(s, m, I)
  BY PickedElements
<1>4. p \in Seq(T) /\ \A n \in 1..Len(p) : \E i \in 1..m : i \in I /\ p[n] = s[i]
  BY <1>1, <1>2, <1>3 DEF Picks
<1>5. \A n \in 1..Len(p) : p[n] \in S
  BY ONLY <1>4, \A i \in 1..m : i \in I => s[i] \in S
<1>6. p \in Seq(S)
  BY ONLY <1>4, <1>5
<1> QED BY <1>2, <1>3, <1>6


-----------------------------------------------------------------------------
(* Chats as text (ChatText): what the operators make of texts are texts.   *)
Writing == Seq(Pieces)

LEMMA GapType == Gap \in Pieces /\ <<Gap>> \in Seq(Pieces)
<1>1. Gap \in Pieces
  BY KindsAssumption DEF Gap, Pieces
<1> QED BY <1>1

LEMMA PieceOf ==
    ASSUME NEW t \in Writing
    PROVE  /\ Len(t) \in Nat /\ DOMAIN t = 1..Len(t)
           /\ \A i \in DOMAIN t : t[i] \in Pieces /\ t[i].is \in Kinds /\ t[i].coded \in Nat
<1>1. t \in Seq(Pieces)
  BY DEF Writing
<1>2. Len(t) \in Nat /\ DOMAIN t = 1..Len(t) /\ \A i \in DOMAIN t : t[i] \in Pieces
  BY <1>1
<1>3. \A p \in Pieces : p.is \in Kinds /\ p.coded \in Nat
  BY DEF Pieces
<1> QED BY <1>2, <1>3

(* A text is a function from an initial segment to pieces.                 *)
LEMMA TextOf ==
    ASSUME NEW n \in Nat, NEW f, f = [i \in 1..n |-> f[i]], \A i \in 1..n : f[i] \in Pieces
    PROVE  f \in Writing /\ Len(f) = n
<1>1. f \in Seq(Pieces) /\ Len(f) = n
  OBVIOUS
<1> QED BY <1>1 DEF Writing

LEMMA TextsOf ==
    ASSUME NEW n \in Nat, NEW f, f = [i \in 1..n |-> f[i]], \A i \in 1..n : f[i] \in Writing
    PROVE  f \in Seq(Writing) /\ Len(f) = n
OBVIOUS

LEMMA PickedText ==
    ASSUME NEW t \in Writing, NEW I PROVE Picked(t, I) \in Writing
<1>1. t \in Seq(Pieces) /\ Len(t) \in Nat /\ DOMAIN t = 1..Len(t) /\ \A i \in 1..Len(t) : t[i] \in Pieces
  BY DEF Writing
<1>2. Picked(t, I) \in Seq(Pieces)
  <2>1. PICK m \in Nat : m = Len(t)
    BY <1>1
  <2>2. DOMAIN t = 1..m /\ \A i \in 1..m : i \in I => t[i] \in Pieces
    BY <1>1, <2>1
  <2> QED BY <2>2, PickedHolds
<1> QED BY <1>2 DEF Writing

LEMMA DecodedText == ASSUME NEW t \in Writing PROVE DecodeOnce(t) \in Writing
<1>1. ASSUME NEW p \in Pieces PROVE [p EXCEPT !.coded = IF @ = 0 THEN 0 ELSE @ - 1] \in Pieces
  <2>1. p.coded \in Nat
    BY DEF Pieces
  <2>2. (IF p.coded = 0 THEN 0 ELSE p.coded - 1) \in Nat
    BY <2>1
  <2> QED BY <2>2 DEF Pieces
<1>2. PICK n \in Nat : n = Len(t) /\ DOMAIN t = 1..n /\ \A i \in 1..n : t[i] \in Pieces
  BY PieceOf
<1>3. /\ DecodeOnce(t) = [i \in 1..n |-> DecodeOnce(t)[i]]
      /\ \A i \in 1..n : DecodeOnce(t)[i] \in Pieces
  BY <1>1, <1>2 DEF DecodeOnce
<1> QED BY <1>3, TextOf

(* TextNormalizer.normalize gives a text.                                  *)
LEMMA NormalizedText == ASSUME NEW t \in Writing PROVE Normalized(t) \in Writing
<1>1. PICK u \in Writing : u = DecodeOnce(DecodeOnce(t))
  BY DecodedText
<1>2. PICK v \in Writing : v = Squeezed(Visible(u))
  <2>1. Visible(u) \in Writing
    BY PickedText DEF Visible
  <2> QED BY <2>1, PickedText DEF Squeezed
<1>3. Stripped(v) \in Writing
  <2>1. v \in Seq(Pieces)
    BY DEF Writing
  <2>2. CASE v # <<>> /\ Last(v) = Gap
    <3>1. Len(v) \in Nat /\ Len(v) > 0
      BY <2>1, <2>2
    <3>2. SubSeq(v, 1, Len(v) - 1) \in Seq(Pieces)
      BY <2>1, <3>1
    <3> QED BY <2>2, <3>2 DEF Stripped, Front, Writing
  <2>3. CASE ~(v # <<>> /\ Last(v) = Gap)
    BY <2>3 DEF Stripped
  <2> QED BY <2>2, <2>3
<1> QED BY <1>1, <1>2, <1>3 DEF Normalized

LEMMA LowerText ==
    ASSUME NEW t \in Writing PROVE Lower(t) \in Writing /\ Len(Lower(t)) = Len(t)
<1>1. ASSUME NEW p \in Pieces PROVE [p EXCEPT !.is = "word"] \in Pieces
  BY KindsAssumption DEF Pieces
<1>2. PICK n \in Nat : n = Len(t) /\ DOMAIN t = 1..n /\ \A i \in 1..n : t[i] \in Pieces
  BY PieceOf
<1>3. Lower(t) = [i \in 1..n |-> Lower(t)[i]] /\ \A i \in 1..n : Lower(t)[i] \in Pieces
  BY <1>1, <1>2 DEF Lower
<1> QED BY <1>2, <1>3, TextOf

LEMMA CasedText ==
    ASSUME NEW t \in Writing, NEW rule
    PROVE  Cased(rule, t) \in Writing /\ Len(Cased(rule, t)) = Len(t)
BY LowerText DEF Cased

(* What is extracted of a chat is a text.                                  *)
LEMMA PartsType ==
    ASSUME NEW c \in Contents PROVE Parts(c) \in Seq(Writing)
<1> DEFINE I == {i \in DOMAIN c : IsRead(c, c[i].at)}
           s == [i \in DOMAIN c |-> c[i].text]
<1>1. c \in Seq([at : Places, text : Writing])
  BY DEF Contents, Writing
<1>5. PICK m \in Nat : m = Len(c) /\ DOMAIN c = 1..m
  BY <1>1
<1>2. \A i \in 1..m : c[i].text \in Writing
  <2>1. PICK M : M = [at : Places, text : Writing]
    OBVIOUS
  <2>2. c \in Seq(M)
    BY <1>1, <2>1
  <2>3. \A i \in 1..m : c[i] \in M
    BY <1>5, <2>2
  <2> QED BY <2>1, <2>3
<1>3. DOMAIN s = 1..m /\ \A i \in 1..m : i \in I => s[i] \in Writing
  BY <1>2, <1>5
<1>4. Parts(c) = Picked(s, I)
  BY DEF Parts
<1> HIDE DEF s, I
<1> QED BY <1>3, <1>4, PickedHolds

LEMMA JoinedType ==
    ASSUME NEW parts \in Seq(Writing) PROVE Joined(parts) \in Writing
<1> DEFINE filled == Picked(parts, {i \in DOMAIN parts : parts[i] # <<>>})
           seqs == [i \in DOMAIN filled |-> IF i = 1 THEN filled[i] ELSE <<Gap>> \o filled[i]]
<1>1. filled \in Seq(Writing)
  <2>1. PICK m \in Nat : m = Len(parts) /\ DOMAIN parts = 1..m /\ \A i \in 1..m : parts[i] \in Writing
    OBVIOUS
  <2>2. PICK I : I = {i \in DOMAIN parts : parts[i] # <<>>}
    OBVIOUS
  <2>3. Picked(parts, I) \in Seq(Writing)
    BY <2>1, PickedHolds
  <2> QED BY <2>2, <2>3
<1> HIDE DEF filled
<1>2. seqs \in Seq(Writing)
  <2>1. \A i \in 1..Len(filled) : <<Gap>> \o filled[i] \in Writing
    <3>1. \A i \in 1..Len(filled) : filled[i] \in Seq(Pieces)
      BY <1>1 DEF Writing
    <3>2. \A w \in Seq(Pieces) : <<Gap>> \o w \in Seq(Pieces)
      BY GapType
    <3> QED BY <3>1, <3>2 DEF Writing
  <2>2. PICK n \in Nat : DOMAIN filled = 1..n /\ n = Len(filled) /\ \A i \in 1..n : filled[i] \in Writing
    BY <1>1
  <2>3. seqs = [i \in 1..n |-> seqs[i]] /\ \A i \in 1..n : seqs[i] \in Writing
    BY <2>1, <2>2
  <2> QED BY <2>3
<1>3. Joined(parts) = FlattenSeq(seqs)
  BY DEF Joined, filled
<1> HIDE DEF seqs
<1> QED BY <1>2, <1>3, FlattenType DEF Writing

(* The messages of a chat, and what each says to the scan.                 *)
ChatMessages == Seq([role : STRING, content : Contents])
Said(message) == IF message.role \in ScanRoles THEN Joined(Parts(message.content)) ELSE <<>>

LEMMA SaidType ==
    ASSUME NEW msgs \in ChatMessages, NEW i \in DOMAIN msgs PROVE Said(msgs[i]) \in Writing
<1>1. msgs[i].content \in Contents
  <2>1. PICK M : M = [role : STRING, content : Contents]
    OBVIOUS
  <2>2. msgs \in Seq(M)
    BY <2>1 DEF ChatMessages
  <2>3. msgs[i] \in M
    BY <2>2
  <2> QED BY <2>1, <2>3
<1>2. Joined(Parts(msgs[i].content)) \in Writing
  BY <1>1, PartsType, JoinedType
<1>3. <<>> \in Writing
  BY DEF Writing
<1> QED BY <1>2, <1>3 DEF Said

(* The latest text is that of the last message that says something.        *)
LEMMA LatestIs ==
    ASSUME NEW msgs \in ChatMessages
    PROVE  \/ LatestText(msgs) = <<>> /\ \A i \in DOMAIN msgs : Said(msgs[i]) = <<>>
           \/ \E i \in DOMAIN msgs : /\ LatestText(msgs) = Said(msgs[i]) /\ Said(msgs[i]) # <<>>
                                     /\ \A j \in DOMAIN msgs : j > i => Said(msgs[j]) = <<>>
<1> DEFINE Speaking == {i \in DOMAIN msgs : Said(msgs[i]) # <<>>}
<1>1. LatestText(msgs) = IF Speaking = {} THEN <<>>
                         ELSE Said(msgs[CHOOSE i \in Speaking : \A j \in Speaking : j <= i])
  BY DEF LatestText, Said
<1>2. CASE Speaking = {}
  BY <1>1, <1>2
<1>3. CASE Speaking # {}
  <2>1. PICK k \in Nat : DOMAIN msgs = 1..k
    BY DEF ChatMessages
  <2>2. Speaking \in SUBSET (1..k) /\ Speaking # {}
    BY <1>3, <2>1
  <2>3. \E i \in Speaking : \A j \in Speaking : j <= i
    <3> HIDE DEF Speaking
    <3>1. Max(Speaking) \in Speaking /\ \A j \in Speaking : j <= Max(Speaking)
      BY <2>2, GreatestOf
    <3> QED BY <3>1
  <2>4. PICK i : i = CHOOSE n \in Speaking : \A j \in Speaking : j <= n
    OBVIOUS
  <2>5. i \in Speaking /\ \A j \in Speaking : j <= i
    <3> HIDE DEF Speaking
    <3> QED BY <2>3, <2>4
  <2>6. LatestText(msgs) = Said(msgs[i])
    BY <1>1, <1>3, <2>4
  <2>7. \A j \in DOMAIN msgs : j > i => j \notin Speaking
    BY <2>1, <2>2, <2>5
  <2>8. i \in DOMAIN msgs /\ Said(msgs[i]) # <<>>
    BY <2>5
  <2>9. \A j \in DOMAIN msgs : j > i => Said(msgs[j]) = <<>>
    BY <2>7
  <2> QED BY <2>6, <2>8, <2>9
<1> QED BY <1>2, <1>3

LEMMA LatestType == ASSUME NEW msgs \in ChatMessages PROVE LatestText(msgs) \in Writing
<1>1. <<>> \in Writing
  BY DEF Writing
<1> QED BY <1>1, LatestIs, SaidType


-----------------------------------------------------------------------------
(* Where a hit may be: at a piece of the text or more.                     *)
PlacesIn(t) == {p \in Nat \X Nat : p[1] < p[2] /\ p[2] <= Len(t)}

(* The last of several places is one of them.                              *)
LEMMA LastOfIs ==
    ASSUME NEW t \in Writing, NEW places \in SUBSET PlacesIn(t)
    PROVE  /\ places # {} => LastOf(places) \in places
           /\ LastOf(places) # Nowhere <=> places # {}
<1>1. \A p \in places : p \in Nat \X Nat /\ p[1] < p[2] /\ p[2] <= Len(t) /\ Len(t) \in Nat
  BY PieceOf DEF PlacesIn
<1>2. \A p \in places : p # Nowhere
  BY <1>1 DEF Nowhere
<1>3. ASSUME places # {} PROVE LastOf(places) \in places
  <2> DEFINE Behind == {Len(t) - p[1] : p \in places}
  <2>1. Behind \in SUBSET Nat /\ Behind # {}
    <3>1. \A p \in places : Len(t) - p[1] \in Nat
      BY <1>1
    <3> QED BY <1>3, <3>1
  <2>2. PICK d \in Behind : \A e \in Behind : d <= e
    <3> HIDE DEF Behind
    <3> QED BY <2>1, LeastNatural
  <2>3. PICK m \in places : d = Len(t) - m[1]
    OBVIOUS
  <2>4. \A q \in places : q[1] <= m[1]
    <3>1. \A q \in places : Len(t) - m[1] <= Len(t) - q[1]
      BY <2>2, <2>3
    <3> QED BY <1>1, <2>3, <3>1
  <2>5. \E p \in places : \A q \in places : q[1] <= p[1]
    BY <2>3, <2>4
  <2>6. LastOf(places) = CHOOSE p \in places : \A q \in places : q[1] <= p[1]
    BY <1>3 DEF LastOf
  <2> QED BY <2>5, <2>6
<1> QED BY <1>2, <1>3 DEF LastOf

LEMMA KeywordPlaces ==
    ASSUME NEW t \in Writing, NEW k \in Writing, NEW mode
    PROVE  /\ PlacesOf(t, k, mode) \in SUBSET PlacesIn(t)
           /\ PlacesOf(t, k, mode) # {} <=>
                 /\ k # <<>>
                 /\ CASE mode = "exact"  -> t = k
                      [] mode = "prefix" -> IsPrefix(k, t)
                      [] OTHER -> \E i \in DOMAIN t : \E j \in i..Len(t) : SubSeq(t, i, j) = k
<1> DEFINE At(j) == /\ k # <<>> /\ j + Len(k) <= Len(t) /\ SubSeq(t, j + 1, j + Len(k)) = k
                    /\ (mode \in {"exact", "prefix"} => j = 0)
                    /\ (mode = "exact" => Len(k) = Len(t))
<1>1. t \in Seq(Pieces) /\ k \in Seq(Pieces)
  BY DEF Writing
<1>2. Len(t) \in Nat /\ Len(k) \in Nat /\ (k # <<>> => Len(k) > 0)
  BY <1>1
<1>3. PlacesOf(t, k, mode) = {<<i, i + Len(k)>> : i \in {j \in 0..Len(t) : At(j)}}
  BY DEF PlacesOf
<1>4. \A j \in 0..Len(t) : At(j) => <<j, j + Len(k)>> \in PlacesIn(t)
  BY <1>2 DEF PlacesIn
<1>5. PlacesOf(t, k, mode) # {} <=> \E j \in 0..Len(t) : At(j)
  BY <1>3
<1>6. PlacesOf(t, k, mode) \in SUBSET PlacesIn(t)
  <2> HIDE DEF At
  <2> QED BY <1>3, <1>4
<1>7. CASE mode = "exact"
  <2>1. ASSUME t = k, k # <<>> PROVE At(0)
    BY <1>1, <1>2, <1>7, <2>1
  <2>2. ASSUME NEW j \in 0..Len(t), At(j) PROVE t = k
    <3>1. j = 0 /\ Len(k) = Len(t) /\ SubSeq(t, 1, Len(t)) = k
      BY <1>2, <1>7, <2>2
    <3> QED BY <1>1, <3>1
  <2>3. 0 \in 0..Len(t)
    BY <1>2
  <2>4. (\E j \in 0..Len(t) : At(j)) <=> k # <<>> /\ t = k
    BY <2>1, <2>2, <2>3
  <2> HIDE DEF At
  <2> QED BY <1>5, <1>6, <1>7, <2>4
<1>8. CASE mode = "prefix"
  <2>1. IsPrefix(k, t) <=> Len(k) <= Len(t) /\ SubSeq(t, 1, Len(k)) = k
    BY <1>1, <1>2 DEF IsPrefix
  <2>2. At(0) <=> k # <<>> /\ IsPrefix(k, t)
    BY <1>2, <1>8, <2>1
  <2>3. \A j \in 0..Len(t) : At(j) => j = 0
    BY <1>8
  <2>4. 0 \in 0..Len(t)
    BY <1>2
  <2>5. (\E j \in 0..Len(t) : At(j)) <=> k # <<>> /\ IsPrefix(k, t)
    <3> HIDE DEF At
    <3> QED BY <2>2, <2>3, <2>4
  <2> HIDE DEF At
  <2> QED BY <1>5, <1>6, <1>8, <2>5
<1>9. CASE mode \notin {"exact", "prefix"}
  <2>1. ASSUME NEW j \in 0..Len(t), At(j)
        PROVE  k # <<>> /\ \E i \in DOMAIN t : \E n \in i..Len(t) : SubSeq(t, i, n) = k
    <3>1. j + 1 \in DOMAIN t /\ j + Len(k) \in (j + 1)..Len(t) /\ SubSeq(t, j + 1, j + Len(k)) = k
      BY <1>1, <1>2, <2>1
    <3> QED BY <2>1, <3>1
  <2>2. ASSUME k # <<>>, NEW i \in DOMAIN t, NEW n \in i..Len(t), SubSeq(t, i, n) = k
        PROVE  \E j \in 0..Len(t) : At(j)
    <3>1. i \in 1..Len(t) /\ n \in i..Len(t) /\ Len(SubSeq(t, i, n)) = n - i + 1
      BY <1>1, <1>2, <2>2
    <3>2. n = (i - 1) + Len(k) /\ i = (i - 1) + 1 /\ i - 1 \in 0..Len(t)
      <4>1. Len(k) = n - i + 1
        BY <2>2, <3>1
      <4>2. i \in Nat /\ n \in Nat /\ i >= 1 /\ i <= Len(t) /\ Len(t) \in Nat /\ Len(k) \in Nat
        BY <1>2, <3>1
      <4> QED BY ONLY <4>1, <4>2
    <3>3. At(i - 1)
      BY <1>2, <1>9, <2>2, <3>1, <3>2
    <3> HIDE DEF At
    <3> QED BY <3>2, <3>3
  <2>3. (\E j \in 0..Len(t) : At(j)) <=>
           k # <<>> /\ \E i \in DOMAIN t : \E n \in i..Len(t) : SubSeq(t, i, n) = k
    <3> HIDE DEF At
    <3> QED BY <2>1, <2>2
  <2> HIDE DEF At
  <2> QED BY <1>5, <1>6, <1>9, <2>3
<1> QED BY <1>7, <1>8, <1>9

LEMMA NumberPlaces ==
    ASSUME NEW t \in Writing, NEW rule
    PROVE  /\ LastMatch(t, rule) # Nowhere <=>
                 \E i \in DOMAIN t : t[i] = [is |-> rule.finds, coded |-> 0]
           /\ LastMatch(t, rule) # Nowhere => LastMatch(t, rule) \in PlacesIn(t)
<1> DEFINE I == {j \in DOMAIN t : t[j] = [is |-> rule.finds, coded |-> 0]}
           places == {<<i - 1, i>> : i \in I}
<1>1. Len(t) \in Nat /\ DOMAIN t = 1..Len(t)
  BY PieceOf
<1>2. \A i \in 1..Len(t) : <<i - 1, i>> \in PlacesIn(t)
  BY <1>1 DEF PlacesIn
<1>3. places \in SUBSET PlacesIn(t) /\ (places # {} <=> I # {})
  BY <1>1, <1>2
<1>4. LastMatch(t, rule) = LastOf(places)
  BY DEF LastMatch
<1>5. I # {} <=> \E i \in DOMAIN t : t[i] = [is |-> rule.finds, coded |-> 0]
  OBVIOUS
<1> HIDE DEF places, I
<1> QED BY <1>3, <1>4, <1>5, LastOfIs


-----------------------------------------------------------------------------
(* What the scanners find.                                                 *)
HitsOf(t, rule, scanner) == {Hit(rule, scanner, p) : p \in PlacesIn(t)}
HitsIn(t) == UNION {HitsOf(t, rule, scanner) : rule \in KeywordRules \cup RegexRules,
                                               scanner \in {"keyword", "regex"}}

LEMMA HitIs ==
    ASSUME NEW t, NEW rule, NEW scanner, NEW h \in HitsOf(t, rule, scanner)
    PROVE  h.rule = rule.id /\ h.level = Level(rule) /\ h.position \in PlacesIn(t)
BY DEF HitsOf, Hit

LEMMA HitsWithin ==
    ASSUME NEW t, NEW rule \in KeywordRules \cup RegexRules, NEW scanner \in {"keyword", "regex"}
    PROVE  HitsOf(t, rule, scanner) \subseteq HitsIn(t)
<1>1. PICK S : S = HitsOf(t, rule, scanner)
  OBVIOUS
<1>2. \A h \in S : h \in HitsIn(t)
  BY <1>1 DEF HitsIn
<1> QED BY <1>1, <1>2

LEMMA ElementOf ==
    ASSUME NEW S, NEW s \in Seq(S)
    PROVE  (\A i \in 1..Len(s) : s[i] \in S) /\ (s # <<>> <=> 1 \in 1..Len(s)) /\ Len(s) \in Nat
OBVIOUS

LEMMA KeywordPlace ==
    ASSUME NEW t \in Writing, NEW rule \in KeywordRules, NEW k \in DOMAIN rule.keywords
    PROVE  /\ PlaceOf(t, rule, k) # Nowhere => PlaceOf(t, rule, k) \in PlacesIn(t)
           /\ PlaceOf(t, rule, k) # Nowhere <=>
                 /\ rule.keywords[k] # <<>>
                 /\ LET u == Cased(rule, t)
                        w == Cased(rule, rule.keywords[k])
                        mode == Get(rule, "match_mode", "contains")
                    IN CASE mode = "exact"  -> u = w
                         [] mode = "prefix" -> IsPrefix(w, u)
                         [] OTHER -> \E i \in DOMAIN u : \E j \in i..Len(u) : SubSeq(u, i, j) = w
<1>1. rule.keywords[k] \in Writing
  BY RulesAssumption DEF Writing
<1>2. PICK u \in Writing : u = Cased(rule, t) /\ Len(u) = Len(t)
  BY CasedText
<1>3. PICK w \in Writing : w = Cased(rule, rule.keywords[k]) /\ Len(w) = Len(rule.keywords[k])
  BY <1>1, CasedText
<1>4. PICK mode : mode = Get(rule, "match_mode", "contains")
  OBVIOUS
<1>5. PlacesIn(u) = PlacesIn(t)
  BY <1>2 DEF PlacesIn
<1>6. w # <<>> <=> rule.keywords[k] # <<>>
  BY <1>1, <1>3 DEF Writing
<1>7. PlaceOf(t, rule, k) = LastOf(PlacesOf(u, w, mode))
  BY <1>2, <1>3, <1>4 DEF PlaceOf, MatchPosition
<1>8. PICK places \in SUBSET PlacesIn(u) : places = PlacesOf(u, w, mode)
  BY KeywordPlaces
<1>9. (places # {} => LastOf(places) \in places) /\ (LastOf(places) # Nowhere <=> places # {})
  BY LastOfIs
<1>10. places # {} <=>
         /\ w # <<>>
         /\ CASE mode = "exact"  -> u = w
              [] mode = "prefix" -> IsPrefix(w, u)
              [] OTHER -> \E i \in DOMAIN u : \E j \in i..Len(u) : SubSeq(u, i, j) = w
  BY <1>8, KeywordPlaces
<1>11. PlaceOf(t, rule, k) # Nowhere => PlaceOf(t, rule, k) \in PlacesIn(t)
  BY <1>5, <1>7, <1>8, <1>9
<1>12. PlaceOf(t, rule, k) # Nowhere <=>
         /\ w # <<>>
         /\ CASE mode = "exact"  -> u = w
              [] mode = "prefix" -> IsPrefix(w, u)
              [] OTHER -> \E i \in DOMAIN u : \E j \in i..Len(u) : SubSeq(u, i, j) = w
  BY <1>7, <1>8, <1>9, <1>10
<1> QED BY <1>2, <1>3, <1>4, <1>6, <1>11, <1>12

LEMMA RuleFinds ==
    ASSUME NEW t \in Writing, NEW rule \in KeywordRules
    PROVE  /\ ScanRule(t, rule) \in Seq(HitsOf(t, rule, "keyword"))
           /\ ScanRule(t, rule) # <<>> <=> \E k \in DOMAIN rule.keywords : PlaceOf(t, rule, k) # Nowhere
<1> DEFINE s == [k \in DOMAIN rule.keywords |-> Hit(rule, "keyword", PlaceOf(t, rule, k))]
           I == {k \in DOMAIN rule.keywords : PlaceOf(t, rule, k) # Nowhere}
           hits == Picked(s, I)
           S == HitsOf(t, rule, "keyword")
<1>1. PICK m \in Nat : DOMAIN rule.keywords = 1..m
  <2>1. rule.keywords \in Seq(Writing)
    BY RulesAssumption DEF Writing
  <2> QED BY <2>1
<1>2. \A k \in 1..m : k \in I => s[k] \in S
  BY <1>1, KeywordPlace DEF HitsOf
<1>3. DOMAIN s = 1..m /\ I \in SUBSET (1..m)
  BY <1>1
<1>4. I # {} <=> \E k \in DOMAIN rule.keywords : PlaceOf(t, rule, k) # Nowhere
  OBVIOUS
<1>5. ScanRule(t, rule) = IF hits # <<>> /\ Get(rule, "stop_on_first", TRUE) THEN <<hits[1]>> ELSE hits
  BY DEF ScanRule
<1> HIDE DEF s, I, S
<1>6. hits \in Seq(S) /\ (hits # <<>> <=> I # {})
  <2>1. /\ hits \in Seq(S)
        /\ \A n \in 1..Len(hits) : \E i \in 1..m : i \in I /\ hits[n] = s[i]
        /\ \A i \in 1..m : i \in I => \E n \in 1..Len(hits) : hits[n] = s[i]
    <3>1. m \in Nat /\ DOMAIN s = 1..m /\ \A i \in 1..m : i \in I => s[i] \in S
      BY <1>2, <1>3
    <3>2. Picked(s, I) \in Seq(S) /\ Picks(s, m, I)
      BY ONLY <3>1, PickedHolds
    <3> QED BY <3>2 DEF Picks
  <2>2. hits # <<>> <=> \E n \in 1..Len(hits) : TRUE
    BY <2>1
  <2> HIDE DEF hits
  <2> QED BY <1>3, <2>1, <2>2
<1> HIDE DEF hits
<1>7. hits # <<>> => <<hits[1]>> \in Seq(S) /\ <<hits[1]>> # <<>>
  <2>1. hits # <<>> => hits[1] \in S
    BY <1>6
  <2> QED BY <2>1
<1>8. ScanRule(t, rule) \in Seq(S) /\ (ScanRule(t, rule) # <<>> <=> I # {})
  BY <1>5, <1>6, <1>7
<1> QED BY <1>4, <1>8 DEF S

(* The keyword scanner finds what is written of its rules.                 *)
LEMMA KeywordsFound ==
    ASSUME NEW t \in Writing, rules \in RuleSets
    PROVE  /\ KeywordScan(t) \in Seq(HitsIn(t))
           /\ \A level : HasLevel(KeywordScan(t), level) <=>
                 \E i \in DOMAIN rules.keyword :
                    /\ IsEnabled(rules.keyword[i]) /\ Level(rules.keyword[i]) = level
                    /\ ScanRule(t, rules.keyword[i]) # <<>>
<1> DEFINE seqs == [i \in DOMAIN rules.keyword |->
                      IF IsEnabled(rules.keyword[i]) THEN ScanRule(t, rules.keyword[i]) ELSE <<>>]
<1>1. rules.keyword \in Seq(KeywordRules)
  BY RulesAssumption
<1>2. PICK m \in Nat : DOMAIN rules.keyword = 1..m /\ \A i \in 1..m : rules.keyword[i] \in KeywordRules
  BY <1>1
<1>3. ASSUME NEW i \in 1..m PROVE seqs[i] \in Seq(HitsOf(t, rules.keyword[i], "keyword"))
  <2>1. ScanRule(t, rules.keyword[i]) \in Seq(HitsOf(t, rules.keyword[i], "keyword"))
    BY <1>2, RuleFinds
  <2>2. seqs[i] = IF IsEnabled(rules.keyword[i]) THEN ScanRule(t, rules.keyword[i]) ELSE <<>>
    BY <1>2
  <2> HIDE DEF seqs
  <2>3. CASE IsEnabled(rules.keyword[i])
    BY <2>1, <2>2, <2>3
  <2>4. CASE ~IsEnabled(rules.keyword[i])
    <3>1. seqs[i] = <<>>
      BY <2>2, <2>4
    <3> QED BY <3>1
  <2> QED BY <2>3, <2>4
<1>4. ASSUME NEW i \in 1..m PROVE seqs[i] \in Seq(HitsIn(t))
  <2>1. HitsOf(t, rules.keyword[i], "keyword") \subseteq HitsIn(t)
    BY <1>2, HitsWithin
  <2> HIDE DEF seqs
  <2> QED BY <1>3, <2>1
<1>5. seqs \in Seq(Seq(HitsIn(t))) /\ Len(seqs) = m
  <2>1. seqs = [i \in 1..m |-> seqs[i]]
    BY <1>2
  <2> HIDE DEF seqs
  <2> QED BY <1>4, <2>1
<1>6. ASSUME NEW i \in 1..m, NEW j \in 1..Len(seqs[i])
      PROVE  /\ seqs[i][j].level = Level(rules.keyword[i])
             /\ IsEnabled(rules.keyword[i]) /\ ScanRule(t, rules.keyword[i]) # <<>>
  <2>1. seqs[i][j] \in HitsOf(t, rules.keyword[i], "keyword")
    BY <1>3, ElementOf, Zenon
  <2>2. seqs[i] # <<>>
    BY <1>3
  <2>3. seqs[i] = IF IsEnabled(rules.keyword[i]) THEN ScanRule(t, rules.keyword[i]) ELSE <<>>
    BY <1>2
  <2> HIDE DEF seqs
  <2> QED BY <2>1, <2>2, <2>3, HitIs
<1>7. ASSUME NEW i \in 1..m, IsEnabled(rules.keyword[i]), ScanRule(t, rules.keyword[i]) # <<>>
      PROVE  1 \in 1..Len(seqs[i])
  <2>1. seqs[i] # <<>> /\ seqs[i] \in Seq(HitsIn(t))
    BY <1>2, <1>4, <1>7
  <2> HIDE DEF seqs
  <2> QED BY <2>1
<1>8. KeywordScan(t) = FlattenSeq(seqs)
  BY DEF KeywordScan
<1> HIDE DEF seqs
<1>9. PICK hits : hits = FlattenSeq(seqs)
  OBVIOUS
<1>10. /\ hits \in Seq(HitsIn(t))
       /\ \A n \in 1..Len(hits) : \E i \in 1..m : \E j \in 1..Len(seqs[i]) : hits[n] = seqs[i][j]
       /\ \A i \in 1..m : \A j \in 1..Len(seqs[i]) : \E n \in 1..Len(hits) : hits[n] = seqs[i][j]
  <2>1. /\ FlattenSeq(seqs) \in Seq(HitsIn(t))
        /\ \A n \in 1..Len(FlattenSeq(seqs)) :
              \E i \in 1..Len(seqs) : \E j \in 1..Len(seqs[i]) : FlattenSeq(seqs)[n] = seqs[i][j]
        /\ \A i \in 1..Len(seqs) : \A j \in 1..Len(seqs[i]) :
              \E n \in 1..Len(FlattenSeq(seqs)) : FlattenSeq(seqs)[n] = seqs[i][j]
    BY <1>5, FlattenHolds, Zenon
  <2> QED BY <1>5, <1>9, <2>1
<1>11. ASSUME NEW level
       PROVE  HasLevel(hits, level) <=>
                 \E i \in 1..m : /\ IsEnabled(rules.keyword[i]) /\ Level(rules.keyword[i]) = level
                                 /\ ScanRule(t, rules.keyword[i]) # <<>>
  <2>1. HasLevel(hits, level) <=> \E n \in 1..Len(hits) : hits[n].level = level
    BY <1>10 DEF HasLevel
  <2>2. ASSUME NEW n \in 1..Len(hits), hits[n].level = level
        PROVE  \E i \in 1..m : /\ IsEnabled(rules.keyword[i]) /\ Level(rules.keyword[i]) = level
                               /\ ScanRule(t, rules.keyword[i]) # <<>>
    <3>1. PICK i \in 1..m : \E j \in 1..Len(seqs[i]) : hits[n] = seqs[i][j]
      BY <1>10
    <3> QED BY <1>6, <2>2, <3>1
  <2>3. ASSUME NEW i \in 1..m, IsEnabled(rules.keyword[i]), Level(rules.keyword[i]) = level,
               ScanRule(t, rules.keyword[i]) # <<>>
        PROVE  \E n \in 1..Len(hits) : hits[n].level = level
    <3>1. 1 \in 1..Len(seqs[i]) /\ seqs[i][1].level = level
      BY <1>6, <1>7, <2>3
    <3> QED BY <1>10, <3>1
  <2> QED BY <2>1, <2>2, <2>3
<1>12. KeywordScan(t) = hits /\ DOMAIN rules.keyword = 1..m
  BY <1>2, <1>8, <1>9
<1>13. ASSUME NEW level
       PROVE  HasLevel(KeywordScan(t), level) <=>
                 \E i \in DOMAIN rules.keyword :
                    /\ IsEnabled(rules.keyword[i]) /\ Level(rules.keyword[i]) = level
                    /\ ScanRule(t, rules.keyword[i]) # <<>>
  <2>1. HasLevel(KeywordScan(t), level) <=> HasLevel(hits, level)
    BY <1>12
  <2>2. DOMAIN rules.keyword = 1..m
    BY <1>12
  <2> QED BY <1>11, <2>1, <2>2
<1>14. KeywordScan(t) \in Seq(HitsIn(t))
  BY <1>10, <1>12
<1> QED BY <1>13, <1>14, Zenon

(* The regular expressions find their numbers.                             *)
LEMMA NumbersFound ==
    ASSUME NEW t \in Writing, rules \in RuleSets
    PROVE  /\ RegexScan(t) \in Seq(HitsIn(t))
           /\ \A level : HasLevel(RegexScan(t), level) <=>
                 \E i \in DOMAIN rules.regex :
                    /\ IsEnabled(rules.regex[i]) /\ Level(rules.regex[i]) = level
                    /\ LastMatch(t, rules.regex[i]) # Nowhere
<1> DEFINE s == [i \in DOMAIN rules.regex |->
                    Hit(rules.regex[i], "regex", LastMatch(t, rules.regex[i]))]
           I == {i \in DOMAIN rules.regex :
                    IsEnabled(rules.regex[i]) /\ LastMatch(t, rules.regex[i]) # Nowhere}
           hits == Picked(s, I)
<1>1. rules.regex \in Seq(RegexRules)
  BY RulesAssumption
<1>2. PICK m \in Nat : DOMAIN rules.regex = 1..m /\ \A i \in 1..m : rules.regex[i] \in RegexRules
  BY <1>1
<1>3. ASSUME NEW i \in 1..m, i \in I PROVE s[i] \in HitsOf(t, rules.regex[i], "regex")
  BY <1>2, <1>3, NumberPlaces DEF HitsOf
<1>4. \A i \in 1..m : i \in I => s[i] \in HitsIn(t) /\ s[i].level = Level(rules.regex[i])
  BY <1>2, <1>3, HitIs DEF HitsIn
<1>5. DOMAIN s = 1..m
  BY <1>2
<1>6. RegexScan(t) = hits
  BY DEF RegexScan
<1>7. \A i \in 1..m : i \in I <=> IsEnabled(rules.regex[i]) /\ LastMatch(t, rules.regex[i]) # Nowhere
  BY <1>2
<1> HIDE DEF s, I
<1>8. /\ hits \in Seq(HitsIn(t))
      /\ \A n \in 1..Len(hits) : \E i \in 1..m : i \in I /\ hits[n] = s[i]
      /\ \A i \in 1..m : i \in I => \E n \in 1..Len(hits) : hits[n] = s[i]
  <2>1. \A i \in 1..m : i \in I => s[i] \in HitsIn(t)
    BY <1>4
  <2>2. PICK S : S = HitsIn(t)
    OBVIOUS
  <2>3. m \in Nat /\ \A i \in 1..m : i \in I => s[i] \in S
    BY <2>1, <2>2
  <2>4. Picked(s, I) \in Seq(S) /\ Picks(s, m, I)
    BY <1>5, <2>3, PickedHolds
  <2> QED BY <2>2, <2>4 DEF Picks
<1> HIDE DEF hits
<1>9. ASSUME NEW level
      PROVE  HasLevel(hits, level) <=> \E i \in 1..m : i \in I /\ Level(rules.regex[i]) = level
  <2>1. HasLevel(hits, level) <=> \E n \in 1..Len(hits) : hits[n].level = level
    BY <1>8 DEF HasLevel
  <2>2. ASSUME NEW n \in 1..Len(hits), hits[n].level = level
        PROVE  \E i \in 1..m : i \in I /\ Level(rules.regex[i]) = level
    <3>1. PICK i \in 1..m : i \in I /\ hits[n] = s[i]
      BY <1>8
    <3> QED BY <1>4, <2>2, <3>1
  <2>3. ASSUME NEW i \in 1..m, i \in I, Level(rules.regex[i]) = level
        PROVE  \E n \in 1..Len(hits) : hits[n].level = level
    BY <1>4, <1>8, <2>3
  <2> QED BY <2>1, <2>2, <2>3
<1> QED BY <1>2, <1>6, <1>7, <1>8, <1>9


LEMMA HasLevelJoined ==
    ASSUME NEW S, NEW a \in Seq(S), NEW b \in Seq(S), NEW level
    PROVE  HasLevel(a \o b, level) <=> HasLevel(a, level) \/ HasLevel(b, level)
<1>1. /\ a \o b \in Seq(S) /\ Len(a \o b) = Len(a) + Len(b) /\ Len(a) \in Nat /\ Len(b) \in Nat
      /\ \A i \in 1..Len(a) : (a \o b)[i] = a[i]
      /\ \A i \in 1..Len(b) : (a \o b)[Len(a) + i] = b[i]
  BY SeqsJoined
<1>2. DOMAIN a = 1..Len(a) /\ DOMAIN b = 1..Len(b) /\ DOMAIN (a \o b) = 1..(Len(a) + Len(b))
  BY <1>1
<1>3. ASSUME HasLevel(a \o b, level) PROVE HasLevel(a, level) \/ HasLevel(b, level)
  <2>1. PICK i \in 1..(Len(a) + Len(b)) : (a \o b)[i].level = level
    BY <1>2, <1>3 DEF HasLevel
  <2>2. CASE i <= Len(a)
    <3>1. i \in 1..Len(a) /\ a[i].level = level
      BY <1>1, <2>1, <2>2
    <3> QED BY <1>2, <3>1 DEF HasLevel
  <2>3. CASE ~(i <= Len(a))
    <3>1. PICK j \in 1..Len(b) : i = Len(a) + j
      <4>1. i - Len(a) \in 1..Len(b) /\ i = Len(a) + (i - Len(a))
        BY <1>1, <2>1, <2>3
      <4> QED BY <4>1
    <3>2. b[j].level = level
      BY <1>1, <2>1, <3>1
    <3> QED BY <1>2, <3>2 DEF HasLevel
  <2> QED BY <2>2, <2>3
<1>4. ASSUME HasLevel(a, level) PROVE HasLevel(a \o b, level)
  <2>1. PICK i \in 1..Len(a) : a[i].level = level
    BY <1>2, <1>4 DEF HasLevel
  <2>2. i \in 1..(Len(a) + Len(b)) /\ (a \o b)[i].level = level
    BY <1>1, <2>1
  <2> QED BY <1>2, <2>2 DEF HasLevel
<1>5. ASSUME HasLevel(b, level) PROVE HasLevel(a \o b, level)
  <2>1. PICK i \in 1..Len(b) : b[i].level = level
    BY <1>2, <1>5 DEF HasLevel
  <2>2. Len(a) + i \in 1..(Len(a) + Len(b)) /\ (a \o b)[Len(a) + i].level = level
    BY <1>1, <2>1
  <2> QED BY <1>2, <2>2 DEF HasLevel
<1> QED BY <1>3, <1>4, <1>5

(* The first scanner to block is the last, and otherwise both are heard.   *)
LEMMA ScanFinds ==
    ASSUME NEW t \in Writing, rules \in RuleSets
    PROVE  /\ Scan(t) \in Seq(HitsIn(t))
           /\ HasLevel(Scan(t), "block") <=>
                 HasLevel(KeywordScan(t), "block") \/ HasLevel(RegexScan(t), "block")
           /\ ~HasLevel(Scan(t), "block") =>
                 \A level : HasLevel(Scan(t), level) <=>
                               HasLevel(KeywordScan(t), level) \/ HasLevel(RegexScan(t), level)
<1>1. PICK S : S = HitsIn(t)
  OBVIOUS
<1>2. PICK k \in Seq(S) : k = KeywordScan(t)
  BY <1>1, KeywordsFound
<1>3. PICK r \in Seq(S) : r = RegexScan(t)
  BY <1>1, NumbersFound
<1>4. Scan(t) = IF HasLevel(k, "block") THEN k ELSE k \o r
  BY <1>2, <1>3 DEF Scan
<1>5. k \o r \in Seq(S)
  OBVIOUS
<1>6. \A level : HasLevel(k \o r, level) <=> HasLevel(k, level) \/ HasLevel(r, level)
  BY HasLevelJoined
<1>7. CASE HasLevel(k, "block")
  BY <1>1, <1>2, <1>3, <1>4, <1>7
<1>8. CASE ~HasLevel(k, "block")
  <2>1. Scan(t) = k \o r
    BY <1>4, <1>8
  <2> QED BY <1>1, <1>2, <1>3, <1>5, <1>6, <2>1
<1> QED BY <1>7, <1>8

(* Whether a rule occurs in the normalised text, and whether it hits.      *)
LEMMA KeywordOccurs ==
    ASSUME normalized \in Writing, NEW rule \in KeywordRules
    PROVE  Occurs(rule) <=> ScanRule(normalized, rule) # <<>>
<1> DEFINE Written(w) ==
             /\ w # <<>>
             /\ LET u == Cased(rule, normalized)
                    mode == Get(rule, "match_mode", "contains")
                IN CASE mode = "exact"  -> u = Cased(rule, w)
                     [] mode = "prefix" -> IsPrefix(Cased(rule, w), u)
                     [] OTHER -> \E i \in DOMAIN u : \E j \in i..Len(u) :
                                     SubSeq(u, i, j) = Cased(rule, w)
<1>1. Occurs(rule) <=> \E w \in ToSet(rule.keywords) : Written(w)
  BY RulesAssumption DEF Occurs
<1>2. \A k \in DOMAIN rule.keywords :
         PlaceOf(normalized, rule, k) # Nowhere <=> Written(rule.keywords[k])
  BY KeywordPlace
<1> HIDE DEF Written
<1>3. Occurs(rule) <=> \E k \in DOMAIN rule.keywords : Written(rule.keywords[k])
  BY <1>1 DEF ToSet
<1> QED BY <1>2, <1>3, RuleFinds

LEMMA NumberOccurs ==
    ASSUME normalized \in Writing, NEW rule \in RegexRules
    PROVE  Occurs(rule) <=> LastMatch(normalized, rule) # Nowhere
BY NumberPlaces, RulesAssumption DEF Occurs

(* A rule of some level is enabled and occurs in the text.                 *)
InForce(level) ==
    \E r \in ToSet(rules.keyword) \cup ToSet(rules.regex) : IsEnabled(r) /\ Occurs(r) /\ Level(r) = level

LEMMA InForceIsFound ==
    ASSUME normalized \in Writing, rules \in RuleSets, NEW level
    PROVE  InForce(level) <=>
             HasLevel(KeywordScan(normalized), level) \/ HasLevel(RegexScan(normalized), level)
<1>1. \A i \in DOMAIN rules.keyword : rules.keyword[i] \in KeywordRules
  <2>1. rules.keyword \in Seq(KeywordRules)
    BY RulesAssumption
  <2> QED BY <2>1
<1>2. \A i \in DOMAIN rules.regex : rules.regex[i] \in RegexRules
  <2>1. rules.regex \in Seq(RegexRules)
    BY RulesAssumption
  <2> QED BY <2>1
<1>3. InForce(level) <=>
        \/ \E i \in DOMAIN rules.keyword : /\ IsEnabled(rules.keyword[i]) /\ Occurs(rules.keyword[i])
                                           /\ Level(rules.keyword[i]) = level
        \/ \E i \in DOMAIN rules.regex : /\ IsEnabled(rules.regex[i]) /\ Occurs(rules.regex[i])
                                         /\ Level(rules.regex[i]) = level
  BY DEF InForce, ToSet
<1>4. \A i \in DOMAIN rules.keyword :
         Occurs(rules.keyword[i]) <=> ScanRule(normalized, rules.keyword[i]) # <<>>
  BY <1>1, KeywordOccurs
<1>5. \A i \in DOMAIN rules.regex :
         Occurs(rules.regex[i]) <=> LastMatch(normalized, rules.regex[i]) # Nowhere
  BY <1>2, NumberOccurs
<1>6. HasLevel(KeywordScan(normalized), level) <=>
        \E i \in DOMAIN rules.keyword : /\ IsEnabled(rules.keyword[i]) /\ Level(rules.keyword[i]) = level
                                        /\ ScanRule(normalized, rules.keyword[i]) # <<>>
  BY KeywordsFound
<1>7. HasLevel(RegexScan(normalized), level) <=>
        \E i \in DOMAIN rules.regex : /\ IsEnabled(rules.regex[i]) /\ Level(rules.regex[i]) = level
                                      /\ LastMatch(normalized, rules.regex[i]) # Nowhere
  BY NumbersFound
<1> QED BY <1>3, <1>4, <1>5, <1>6, <1>7

(* What is in a window of a sequence is seen in it.                        *)
SeenIn(v, a, b, w) ==
    \E k \in 0..Len(w) : k + b - a <= Len(w) /\ SubSeq(w, k + 1, k + b - a) = v

LEMMA Through ==
    ASSUME NEW S, NEW s \in Seq(S), NEW lo \in Nat, NEW hi \in Nat, NEW a \in Nat, NEW b \in Nat,
           1 <= lo, lo <= a + 1, a < b, b <= hi, hi <= Len(s)
    PROVE  SeenIn(SubSeq(s, a + 1, b), a, b, SubSeq(s, lo, hi))
<1> DEFINE w == SubSeq(s, lo, hi)
           k == a + 1 - lo
           u == SubSeq(w, k + 1, k + b - a)
           v == SubSeq(s, a + 1, b)
<1>1. w \in Seq(S) /\ Len(w) = hi - lo + 1 /\ \A i \in 1..(hi - lo + 1) : w[i] = s[lo + i - 1]
  OBVIOUS
<1>2. k \in Nat /\ k + b - a \in Nat /\ k + b - a <= hi - lo + 1 /\ k \in 0..(hi - lo + 1)
  OBVIOUS
<1>3. v \in Seq(S) /\ Len(v) = b - a /\ \A i \in 1..(b - a) : v[i] = s[a + i]
  OBVIOUS
<1> HIDE DEF w
<1>4. u \in Seq(S) /\ Len(u) = b - a /\ \A i \in 1..(b - a) : u[i] = w[k + i]
  <2> HIDE DEF k
  <2> QED BY <1>1, <1>2
<1>5. \A i \in 1..(b - a) : w[k + i] = s[a + i]
  <2>1. \A i \in 1..(b - a) : k + i \in 1..(hi - lo + 1) /\ lo + (k + i) - 1 = a + i
    OBVIOUS
  <2> HIDE DEF k
  <2> QED BY <1>1, <2>1
<1> HIDE DEF k, u, v
<1>6. u = v
  BY <1>3, <1>4, <1>5, SameSeq
<1> QED BY <1>1, <1>2, <1>6 DEF SeenIn, u, v, w

(* The window around a place of a text shows what is there.                *)
LEMMA WindowShows ==
    ASSUME NEW t \in Writing, NEW p \in PlacesIn(t)
    PROVE  \E k \in 0..Len(ContextSnippet(t, p)) :
              /\ k + p[2] - p[1] <= Len(ContextSnippet(t, p))
              /\ SubSeq(ContextSnippet(t, p), k + 1, k + p[2] - p[1]) = SubSeq(t, p[1] + 1, p[2])
<1>1. t \in Seq(Pieces) /\ Len(t) \in Nat
  BY PieceOf DEF Writing
<1>2. p[1] \in Nat /\ p[2] \in Nat /\ p[1] < p[2] /\ p[2] <= Len(t)
  BY DEF PlacesIn
<1> DEFINE lo == 1 + IF p[1] < ContextPieces THEN 0 ELSE p[1] - ContextPieces
           hi == Lesser(Lesser(p[2], Len(t)) + ContextPieces, Len(t))
<1>3. lo \in Nat /\ 1 <= lo /\ lo <= p[1] + 1
  BY <1>2, ContextAssumption
<1>4. hi \in Nat /\ p[2] <= hi /\ hi <= Len(t)
  BY <1>1, <1>2, ContextAssumption DEF Lesser
<1>5. ContextSnippet(t, p) = SubSeq(t, lo, hi)
  <2>1. ~(p[2] <= p[1] \/ p[1] >= Len(t))
    BY <1>1, <1>2
  <2> QED BY <2>1 DEF ContextSnippet, Window
<1> HIDE DEF lo, hi
<1>6. PICK a \in Nat, b \in Nat, l \in Nat, h \in Nat : a = p[1] /\ b = p[2] /\ l = lo /\ h = hi
  BY <1>2, <1>3, <1>4
<1>7. SeenIn(SubSeq(t, a + 1, b), a, b, SubSeq(t, l, h))
  <2>1. 1 <= l /\ l <= a + 1 /\ a < b /\ b <= h /\ h <= Len(t)
    BY <1>2, <1>3, <1>4, <1>6
  <2> QED BY <1>1, <2>1, Through
<1> QED BY <1>5, <1>6, <1>7 DEF SeenIn


-----------------------------------------------------------------------------
(* What the steps of a request leave: the text that is scanned and what is *)
(* found are of its messages and the rules, and its end has followed from  *)
(* them as a block or as a pass.                                           *)
Refused ==
    /\ action = "blocked" /\ body = messages
    /\ reply = FakeResponse(results)
    /\ logs = Logs(results, text, normalized, <<>>, "blocked")
SentOn ==
    /\ body = Desensitized(messages)
    /\ action = IF body # messages THEN "desensitized" ELSE ActionOf(results)
    /\ logs = Logs(results, text, normalized, IF body # messages THEN LatestText(body) ELSE <<>>, action)

TextIInv ==
    /\ messages \in Chats /\ rules \in RuleSets
    /\ step \in {"received", "failed", "scanned", "audited"}
    /\ text = LatestText(messages)
    /\ step \in {"scanned", "audited"} =>
          normalized = Normalized(text) /\ results = Scan(normalized)
    /\ step # "audited" => body = messages
    /\ step = "audited" => IF HasLevel(results, "block") THEN Refused ELSE SentOn

LEMMA TextInitIInv == TextInit => TextIInv
BY DEF TextInit, TextIInv

(* The rules of a request stay, and so do their effects.                   *)
LEMMA RulesStay ==
    ASSUME rules' = rules
    PROVE  /\ normalized' = normalized => (Scan(normalized))' = Scan(normalized)
           /\ messages' = messages => (Desensitized(messages))' = Desensitized(messages)
<1>1. Patterns' = Patterns
  BY DEF Patterns
<1>2. ASSUME normalized' = normalized PROVE (Scan(normalized))' = Scan(normalized)
  <2>1. /\ (KeywordScan(normalized))' = KeywordScan(normalized)
        /\ (RegexScan(normalized))' = RegexScan(normalized)
    BY <1>2 DEF KeywordScan, RegexScan
  <2> QED BY <2>1 DEF Scan
<1>3. ASSUME messages' = messages PROVE (Desensitized(messages))' = Desensitized(messages)
  BY <1>1, <1>3 DEF Desensitized, MaskContent, MaskText
<1> QED BY <1>2, <1>3

LEMMA TextNextIInv == TextIInv /\ [TextNext]_textVars => TextIInv'
<1> SUFFICES ASSUME TextIInv, [TextNext]_textVars PROVE TextIInv'
  OBVIOUS
<1>1. messages' = messages /\ rules' = rules /\ text' = text
  BY DEF TextNext, NoText, ScanText, Block, Mask, textVars
<1>2. /\ messages' \in Chats /\ rules' \in RuleSets /\ text' = LatestText(messages')
  BY <1>1 DEF TextIInv
<1>3. CASE NoText
  BY <1>2, <1>3 DEF TextIInv, NoText
<1>4. CASE ScanText
  <2>1. normalized' = Normalized(text) /\ results' = Scan(Normalized(text)) /\ step' = "scanned"
        /\ body' = body /\ step = "received"
    BY <1>4 DEF ScanText
  <2>2. results' = (Scan(normalized))'
    <3>1. PICK t : t = Normalized(text)
      OBVIOUS
    <3>2. normalized' = t /\ results' = Scan(t)
      BY <2>1, <3>1
    <3>3. /\ (KeywordScan(normalized))' = KeywordScan(t)
          /\ (RegexScan(normalized))' = RegexScan(t)
      BY <1>1, <3>2 DEF KeywordScan, RegexScan
    <3> QED BY <3>2, <3>3 DEF Scan
  <2>3. body' = messages'
    BY <1>1, <2>1 DEF TextIInv
  <2> QED BY <1>1, <1>2, <2>1, <2>2, <2>3 DEF TextIInv
<1>5. CASE Block
  <2>1. /\ step = "scanned" /\ HasLevel(results, "block") /\ step' = "audited" /\ action' = "blocked"
        /\ reply' = FakeResponse(results)
        /\ logs' = Logs(results, text, normalized, <<>>, "blocked")
        /\ normalized' = normalized /\ results' = results /\ body' = body
    BY <1>5 DEF Block
  <2>2. results' = (Scan(normalized))' /\ normalized' = Normalized(text')
    BY <1>1, <2>1, RulesStay DEF TextIInv
  <2>3. body' = messages'
    BY <1>1, <2>1 DEF TextIInv
  <2>4. Refused' /\ HasLevel(results', "block")
    BY <1>1, <2>1, <2>3 DEF Refused
  <2> QED BY <1>2, <2>1, <2>2, <2>4 DEF TextIInv
<1>6. CASE Mask
  <2>1. /\ step = "scanned" /\ ~HasLevel(results, "block") /\ step' = "audited"
        /\ body' = Desensitized(messages)
        /\ action' = IF body' # messages THEN "desensitized" ELSE ActionOf(results)
        /\ logs' = Logs(results, text, normalized,
                        IF body' # messages THEN LatestText(body') ELSE <<>>, action')
        /\ normalized' = normalized /\ results' = results
    BY <1>6 DEF Mask
  <2>2. results' = (Scan(normalized))' /\ normalized' = Normalized(text')
    BY <1>1, <2>1, RulesStay DEF TextIInv
  <2>3. body' = (Desensitized(messages))'
    BY <1>1, <2>1, RulesStay
  <2>4. SentOn' /\ ~HasLevel(results', "block")
    BY <1>1, <2>1, <2>3 DEF SentOn
  <2> QED BY <1>2, <2>1, <2>2, <2>4 DEF TextIInv
<1>7. CASE UNCHANGED textVars
  <2>1. UNCHANGED <<messages, rules, step, text, normalized, results, body, action, reply, logs>>
    BY <1>7 DEF textVars
  <2>2. results = Scan(normalized) => results' = (Scan(normalized))'
    BY <2>1, RulesStay
  <2>3. Refused => Refused'
    BY <2>1 DEF Refused
  <2>4. SentOn => SentOn'
    BY <2>1, RulesStay DEF SentOn
  <2> QED BY <2>1, <2>2, <2>3, <2>4 DEF TextIInv
<1> QED BY <1>3, <1>4, <1>5, <1>6, <1>7 DEF TextNext

LEMMA TextIInvAlways == TextSpec => []TextIInv
<1> QED BY TextInitIInv, TextNextIInv, PTL DEF TextSpec

(* What is known of an audited request.                                    *)
LEMMA Scanned ==
    ASSUME TextIInv, step = "audited"
    PROVE  /\ text \in Writing /\ normalized \in Writing
           /\ results \in Seq(HitsIn(normalized)) /\ results = Scan(normalized)
           /\ messages \in ChatMessages
<1>1. messages \in ChatMessages
  BY ChatsAssumption DEF TextIInv, ChatMessages
<1>2. text \in Writing
  BY <1>1, LatestType DEF TextIInv
<1>3. normalized \in Writing
  BY <1>2, NormalizedText DEF TextIInv
<1> QED BY <1>1, <1>2, <1>3, ScanFinds DEF TextIInv

LEMMA MatchShown == TextIInv => AuditShowsMatch
<1> SUFFICES ASSUME TextIInv, step = "audited", NEW i \in DOMAIN logs
             PROVE  LET p == results[i].position IN
                    /\ logs[i].rule = results[i].rule
                    /\ p[1] < p[2] /\ p[2] <= Len(normalized)
                    /\ \E k \in 0..Len(logs[i].context) :
                          /\ k + p[2] - p[1] <= Len(logs[i].context)
                          /\ SubSeq(logs[i].context, k + 1, k + p[2] - p[1])
                                = SubSeq(normalized, p[1] + 1, p[2])
  BY DEF AuditShowsMatch
<1>1. PICK sent, taken : logs = Logs(results, text, normalized, sent, taken)
  BY DEF TextIInv, Refused, SentOn
<1>2. i \in DOMAIN results
  BY <1>1 DEF Logs
<1>3. results[i] \in HitsIn(normalized)
  BY <1>2, Scanned
<1>4. PICK p : p = results[i].position /\ p \in PlacesIn(normalized)
  <2>1. PICK rule, scanner : results[i] \in HitsOf(normalized, rule, scanner)
    BY <1>3 DEF HitsIn
  <2> QED BY <2>1, HitIs
<1>5. p[1] \in Nat /\ p[2] \in Nat /\ p[1] < p[2] /\ p[2] <= Len(normalized)
  BY <1>4 DEF PlacesIn
<1>6. normalized # <<>>
  BY <1>5, Scanned, PieceOf
<1>7. /\ logs[i].rule = results[i].rule
      /\ logs[i].context = ContextSnippet(normalized, p)
  BY <1>1, <1>2, <1>4, <1>6 DEF Logs
<1>8. \E k \in 0..Len(ContextSnippet(normalized, p)) :
         /\ k + p[2] - p[1] <= Len(ContextSnippet(normalized, p))
         /\ SubSeq(ContextSnippet(normalized, p), k + 1, k + p[2] - p[1])
               = SubSeq(normalized, p[1] + 1, p[2])
  BY <1>4, Scanned, WindowShows
<1> QED BY <1>4, <1>5, <1>7, <1>8

(* Each audit shows, in its context, what its rule hit, for every chat,    *)
(* rule and size of the context (_context_snippet).                        *)
THEOREM MatchesShown == TextSpec => []AuditShowsMatch
BY TextIInvAlways, MatchShown, PTL


(* A fake answer is its template, cut into chunks of two.                  *)
LEMMA BlockTemplate ==
    ASSUME NEW hits, HasLevel(hits, "block")
    PROVE  FlattenSeq(FakeResponse(hits)) = Templates["block"]
<1> DEFINE Words == {"b1", "b2", "b3"}
<1>1. PICK s : s = <<"b1", "b2", "b3">>
  OBVIOUS
<1>2. s \in Seq(Words) /\ Len(s) = 3 /\ s[1] = "b1" /\ s[2] = "b2" /\ s[3] = "b3"
  BY <1>1
<1>3. Templates["block"] = s /\ "block" \in DOMAIN Templates
  BY <1>1 DEF Templates
<1> HIDE DEF Words
<1> DEFINE chunks == [i \in 1..2 |-> SubSeq(s, 2 * i - 1, Lesser(2 * i, 3))]
<1>4. FakeResponse(hits) = chunks
  <2>1. FakeResponse(hits) = StreamFakeChunks(s)
    BY <1>3 DEF FakeResponse, SelectResult
  <2>2. (Len(s) + 1) \div 2 = 2
    BY <1>2
  <2> QED BY <1>2, <2>1, <2>2 DEF StreamFakeChunks
<1>5. chunks[1] = SubSeq(s, 1, 2) /\ chunks[2] = SubSeq(s, 3, 3)
  <2>1. Lesser(2 * 1, 3) = 2 /\ Lesser(2 * 2, 3) = 3 /\ 2 * 1 - 1 = 1 /\ 2 * 2 - 1 = 3
    BY DEF Lesser
  <2> QED BY <2>1
<1>6. PICK u, v : u = SubSeq(s, 1, 2) /\ v = SubSeq(s, 3, 3)
  OBVIOUS
<1>7. /\ u \in Seq(Words) /\ Len(u) = 2 /\ u[1] = s[1] /\ u[2] = s[2]
      /\ v \in Seq(Words) /\ Len(v) = 1 /\ v[1] = s[3]
  BY <1>2, <1>6
<1>8. chunks \in Seq(Seq(Words)) /\ Len(chunks) = 2 /\ chunks[1] = u /\ chunks[2] = v
  <2>1. \A i \in 1..2 : chunks[i] \in Seq(Words)
    <3>1. \A i \in 1..2 : i = 1 \/ i = 2
      OBVIOUS
    <3>2. chunks[1] \in Seq(Words) /\ chunks[2] \in Seq(Words)
      BY <1>5, <1>6, <1>7
    <3> HIDE DEF chunks
    <3> QED BY <3>1, <3>2
  <2> QED BY <1>5, <1>6, <2>1
<1>9. FlattenSeq(chunks) = u \o v
  <2> HIDE DEF chunks
  <2>1. PICK f : /\ FlattenSeq(chunks) = f[Len(chunks)]
                 /\ \A i \in 1..Len(chunks) : f[i] = Flat(f, chunks, i)
    <3>1. chunks \in Seq(Seq(Words)) /\ Len(chunks) # 0
      BY <1>8
    <3> QED BY ONLY <3>1, FlattenIs, Zenon
  <2>2. f[1] = chunks[1] /\ f[2] = f[1] \o chunks[2]
    BY <1>8, <2>1 DEF Flat
  <2> QED BY <1>8, <2>1, <2>2
<1> HIDE DEF chunks
<1>10. u \o v = s
  <2>1. /\ u \o v \in Seq(Words) /\ Len(u \o v) = 3
        /\ (u \o v)[1] = s[1] /\ (u \o v)[2] = s[2] /\ (u \o v)[3] = s[3]
    <3>1. /\ u \o v \in Seq(Words) /\ Len(u \o v) = Len(u) + Len(v)
          /\ \A i \in 1..Len(u) : (u \o v)[i] = u[i]
          /\ \A i \in 1..Len(v) : (u \o v)[Len(u) + i] = v[i]
      <4>1. u \in Seq(Words) /\ v \in Seq(Words)
        BY <1>7
      <4> QED BY ONLY <4>1, SeqsJoined
    <3> QED BY <1>7, <3>1
  <2>2. \A i \in 1..3 : (u \o v)[i] = s[i]
    <3>1. \A i \in 1..3 : i = 1 \/ i = 2 \/ i = 3
      OBVIOUS
    <3> QED BY <2>1, <3>1
  <2>3. PICK w : w = u \o v
    OBVIOUS
  <2> QED BY <1>2, <2>1, <2>2, <2>3, SameSeq
<1> QED BY <1>3, <1>4, <1>9, <1>10

LEMMA StrongestDecides == TextIInv => StrongestRuleDecides
<1> SUFFICES ASSUME TextIInv, step = "audited" PROVE StrongestRuleDecides
  BY DEF StrongestRuleDecides
<1>1. /\ normalized \in Writing /\ results = Scan(normalized) /\ rules \in RuleSets
      /\ IF HasLevel(results, "block") THEN Refused ELSE SentOn
  BY Scanned DEF TextIInv
<1>2. HasLevel(results, "block") <=> InForce("block")
  BY <1>1, ScanFinds, InForceIsFound
<1>3. ~InForce("block") => \A level : HasLevel(results, level) <=> InForce(level)
  BY <1>1, <1>2, ScanFinds, InForceIsFound
<1> DEFINE Claim ==
      /\ action = "blocked" <=> InForce("block")
      /\ action = "blocked" => FlattenSeq(reply) = Templates["block"]
      /\ action = "desensitized" <=> ~InForce("block") /\ (InForce("desensitize") \/ body # messages)
      /\ action = "warned" <=> /\ InForce("warn") /\ ~InForce("block") /\ ~InForce("desensitize")
                               /\ body = messages
<1>4. Claim
  <2>1. CASE InForce("block")
    <3>1. Refused /\ HasLevel(results, "block")
      BY <1>1, <1>2, <2>1
    <3>2. action = "blocked" /\ FlattenSeq(reply) = Templates["block"]
      BY <3>1, BlockTemplate DEF Refused
    <3> QED BY <2>1, <3>2
  <2>2. CASE ~InForce("block")
    <3>1. SentOn /\ ~HasLevel(results, "block")
      BY <1>1, <1>2, <2>2
    <3>2. /\ HasLevel(results, "desensitize") <=> InForce("desensitize")
          /\ HasLevel(results, "warn") <=> InForce("warn")
      BY <1>3, <2>2
    <3>3. action = IF body # messages THEN "desensitized" ELSE ActionOf(results)
      BY <3>1 DEF SentOn
    <3>4. ActionOf(results) = IF InForce("desensitize") THEN "desensitized"
                              ELSE IF InForce("warn") THEN "warned" ELSE "passed"
      BY <3>1, <3>2 DEF ActionOf
    <3> QED BY <2>2, <3>3, <3>4
  <2> QED BY <2>1, <2>2
<1>5. Claim => StrongestRuleDecides
  BY DEF StrongestRuleDecides, InForce
<1> QED BY <1>4, <1>5

(* The strongest rule that is enabled and occurs in the normalised text    *)
(* decides what becomes of a request, for every chat and set of rules      *)
(* (ScannerOrchestrator.scan, AggregatedScanResult.action).                *)
THEOREM StrongestAlwaysDecides == TextSpec => []StrongestRuleDecides
BY TextIInvAlways, StrongestDecides, PTL


-----------------------------------------------------------------------------
(* What is done to each element of some sequences is done to what they     *)
(* make together.                                                          *)
Changes(g, S) == g \in [S -> S]
Mapped(g, s) == [j \in DOMAIN s |-> g[s[j]]]

LEMMA MappedIs ==
    ASSUME NEW S, NEW g, Changes(g, S), NEW s \in Seq(S)
    PROVE  /\ Mapped(g, s) \in Seq(S) /\ Len(Mapped(g, s)) = Len(s) /\ Len(s) \in Nat
           /\ \A i \in 1..Len(s) : Mapped(g, s)[i] = g[s[i]]
<1>1. PICK n \in Nat : n = Len(s) /\ DOMAIN s = 1..n /\ \A i \in 1..n : s[i] \in S
  OBVIOUS
<1>2. Mapped(g, s) = [j \in 1..n |-> g[s[j]]] /\ \A i \in 1..n : g[s[i]] \in S
  BY <1>1 DEF Mapped, Changes
<1> QED BY <1>1, <1>2

LEMMA MappedJoined ==
    ASSUME NEW S, NEW g, Changes(g, S), NEW s \in Seq(S), NEW t \in Seq(S)
    PROVE  Mapped(g, s \o t) = Mapped(g, s) \o Mapped(g, t)
<1>1. PICK u \in Seq(S) : u = Mapped(g, s) /\ Len(u) = Len(s)
                          /\ \A i \in 1..Len(s) : u[i] = g[s[i]]
  BY MappedIs
<1>2. PICK v \in Seq(S) : v = Mapped(g, t) /\ Len(v) = Len(t)
                          /\ \A i \in 1..Len(t) : v[i] = g[t[i]]
  BY MappedIs
<1>3. PICK w \in Seq(S) : w = s \o t
  <2>1. s \o t \in Seq(S)
    BY SeqsJoined
  <2> QED BY <2>1, Zenon
<1>4. /\ Len(w) = Len(s) + Len(t) /\ Len(s) \in Nat /\ Len(t) \in Nat
      /\ \A i \in 1..Len(s) : w[i] = s[i]
      /\ \A i \in 1..Len(t) : w[Len(s) + i] = t[i]
  BY <1>3, SeqsJoined
<1>5. PICK x \in Seq(S) : x = Mapped(g, w) /\ Len(x) = Len(w)
                          /\ \A i \in 1..Len(w) : x[i] = g[w[i]]
  BY MappedIs
<1>6. PICK y \in Seq(S) : y = u \o v
  <2>1. u \o v \in Seq(S)
    BY SeqsJoined
  <2> QED BY <2>1, Zenon
<1>7. /\ Len(y) = Len(u) + Len(v)
      /\ \A i \in 1..Len(u) : y[i] = u[i]
      /\ \A i \in 1..Len(v) : y[Len(u) + i] = v[i]
  BY <1>6, SeqsJoined
<1>8. ASSUME NEW i \in 1..Len(w) PROVE x[i] = y[i]
  <2>1. CASE i \in 1..Len(s)
    <3>1. x[i] = g[w[i]] /\ w[i] = s[i] /\ u[i] = g[s[i]]
      BY <1>1, <1>4, <1>5, <2>1
    <3>2. y[i] = u[i]
      BY <1>1, <1>7, <2>1
    <3> QED BY <3>1, <3>2
  <2>2. CASE i \notin 1..Len(s)
    <3>1. PICK k \in 1..Len(t) : i = Len(s) + k
      <4>1. i - Len(s) \in 1..Len(t) /\ i = Len(s) + (i - Len(s))
        BY <1>4, <2>2
      <4> QED BY <4>1
    <3>2. x[i] = g[w[i]] /\ w[i] = t[k] /\ y[i] = v[k] /\ v[k] = g[t[k]]
      BY <1>1, <1>2, <1>4, <1>5, <1>7, <3>1
    <3> QED BY <3>2
  <2> QED BY <2>1, <2>2
<1>9. x = y
  BY <1>1, <1>2, <1>4, <1>5, <1>7, <1>8, SameSeq
<1> QED BY <1>1, <1>2, <1>3, <1>5, <1>6, <1>9

LEMMA FlattenMapped ==
    ASSUME NEW S, NEW g, Changes(g, S), NEW seqs \in Seq(Seq(S)), NEW maps \in Seq(Seq(S)),
           Len(maps) = Len(seqs), \A i \in 1..Len(seqs) : maps[i] = Mapped(g, seqs[i])
    PROVE  FlattenSeq(maps) = Mapped(g, FlattenSeq(seqs))
<1>1. CASE Len(seqs) = 0
  <2>1. seqs = <<>> /\ maps = <<>>
    BY <1>1
  <2>2. FlattenSeq(maps) = <<>> /\ FlattenSeq(seqs) = <<>>
    BY <2>1 DEF FlattenSeq
  <2> QED BY <2>2 DEF Mapped
<1>2. CASE Len(seqs) # 0
  <2>1. PICK n : n = Len(seqs) /\ n \in Nat /\ n \in 1..n
    <3>1. seqs \in Seq(Seq(S)) /\ Len(seqs) # 0
      BY <1>2
    <3>2. Len(seqs) \in Nat /\ Len(seqs) \in 1..Len(seqs)
      BY ONLY <3>1
    <3> QED BY <3>2, Zenon
  <2>2. PICK f : FlattenSeq(seqs) = f[n] /\ \A i \in 1..n : f[i] = Flat(f, seqs, i)
    BY <1>2, <2>1, FlattenIs
  <2>3. PICK h : FlattenSeq(maps) = h[n] /\ \A i \in 1..n : h[i] = Flat(h, maps, i)
    BY <1>2, <2>1, FlattenIs
  <2> DEFINE Good(m) == f[m] \in Seq(S) /\ h[m] = Mapped(g, f[m])
             Bad == {m \in 1..n : ~Good(m)}
  <2>4. SUFFICES ASSUME Bad # {} PROVE FALSE
    BY <2>1, <2>2, <2>3
  <2>5. PICK m \in Bad : \A k \in Bad : m <= k
    <3>1. Bad \in SUBSET Nat
      OBVIOUS
    <3> HIDE DEF Bad
    <3> QED BY <2>4, <3>1, LeastNatural
  <2>6. /\ m \in 1..n /\ ~Good(m) /\ f[m] = Flat(f, seqs, m) /\ h[m] = Flat(h, maps, m)
        /\ seqs[m] \in Seq(S) /\ maps[m] = Mapped(g, seqs[m])
    BY <2>1, <2>2, <2>3, <2>5
  <2>7. m # 1
    BY <2>6 DEF Flat
  <2>8. m - 1 \in 1..n /\ ~(m <= m - 1)
    BY <2>1, <2>6, <2>7
  <2>9. Good(m - 1)
    BY <2>5, <2>8
  <2>10. f[m] = f[m - 1] \o seqs[m] /\ h[m] = h[m - 1] \o maps[m]
    BY <2>6, <2>7 DEF Flat
  <2>11. PICK p \in Seq(S) : p = f[m - 1]
    BY <2>9
  <2>12. PICK q \in Seq(S) : q = seqs[m]
    BY <2>6
  <2>13. p \o q \in Seq(S)
    OBVIOUS
  <2>14. Mapped(g, p \o q) = Mapped(g, p) \o Mapped(g, q)
    BY MappedJoined
  <2> QED BY <2>6, <2>9, <2>10, <2>11, <2>12, <2>13, <2>14
<1> QED BY <1>1, <1>2

LEMMA PickedMapped ==
    ASSUME NEW S, NEW g, Changes(g, S), NEW m \in Nat, NEW s, NEW r, NEW I,
           DOMAIN s = 1..m, DOMAIN r = 1..m,
           \A i \in 1..m : i \in I => s[i] \in S /\ r[i] = g[s[i]]
    PROVE  Picked(r, I) = Mapped(g, Picked(s, I))
<1> DEFINE seqs == [i \in 1..m |-> IF i \in I THEN <<s[i]>> ELSE <<>>]
           maps == [i \in 1..m |-> IF i \in I THEN <<r[i]>> ELSE <<>>]
<1>1. Picked(s, I) = FlattenSeq(seqs) /\ Picked(r, I) = FlattenSeq(maps)
  BY DEF Picked
<1>2. \A i \in 1..m : i \in I => r[i] \in S
  BY DEF Changes
<1>3. seqs \in Seq(Seq(S)) /\ Len(seqs) = m
  <2>1. \A i \in 1..m : seqs[i] \in Seq(S)
    OBVIOUS
  <2> QED BY <2>1
<1>4. maps \in Seq(Seq(S)) /\ Len(maps) = m
  <2>1. \A i \in 1..m : maps[i] \in Seq(S)
    BY <1>2
  <2> QED BY <2>1
<1>5. \A i \in 1..m : maps[i] = Mapped(g, seqs[i])
  <2>1. \A i \in 1..m : i \in I => Mapped(g, <<s[i]>>) = <<r[i]>>
    BY DEF Mapped
  <2>2. Mapped(g, <<>>) = <<>>
    BY DEF Mapped
  <2> QED BY <2>1, <2>2
<1> HIDE DEF seqs, maps
<1> QED BY <1>1, <1>3, <1>4, <1>5, FlattenMapped

-----------------------------------------------------------------------------
(* The mask, on a piece and on a text.                                     *)
MaskPiece == [p \in Pieces |-> IF p.is \in Patterns /\ p.coded = 0
                               THEN [is |-> "mask", coded |-> 0] ELSE p]
MaskWriting == [t \in Writing |-> MaskText(t)]

LEMMA PatternsAreNumbers == ASSUME rules \in RuleSets PROVE Patterns \subseteq Numbers
<1>1. rules.regex \in Seq(RegexRules)
  BY RulesAssumption
<1>2. \A i \in DOMAIN rules.regex : rules.regex[i].finds \in Numbers
  BY <1>1, RulesAssumption
<1> QED BY <1>2 DEF Patterns

LEMMA MaskPieceType == Changes(MaskPiece, Pieces)
<1>1. [is |-> "mask", coded |-> 0] \in Pieces
  BY KindsAssumption DEF Pieces
<1> QED BY <1>1 DEF MaskPiece, Changes

LEMMA MaskIsMapped ==
    ASSUME NEW t \in Writing
    PROVE  /\ MaskText(t) = Mapped(MaskPiece, t) /\ MaskText(t) \in Writing
           /\ Len(MaskText(t)) = Len(t) /\ (MaskText(t) = <<>> <=> t = <<>>)
<1>1. PICK n \in Nat : n = Len(t) /\ DOMAIN t = 1..n /\ \A i \in DOMAIN t : t[i] \in Pieces
  BY PieceOf
<1>2. MaskText(t) = Mapped(MaskPiece, t)
  BY <1>1 DEF MaskText, Mapped, MaskPiece
<1>3. t \in Seq(Pieces)
  BY DEF Writing
<1>4. PICK u \in Seq(Pieces) : u = Mapped(MaskPiece, t) /\ Len(u) = Len(t)
  BY <1>3, MaskPieceType, MappedIs
<1>5. u = <<>> <=> t = <<>>
  BY <1>3, <1>4
<1> QED BY <1>2, <1>4, <1>5 DEF Writing

LEMMA MaskWritingType == Changes(MaskWriting, Writing)
BY MaskIsMapped DEF MaskWriting, Changes

LEMMA MaskBehindGap ==
    ASSUME rules \in RuleSets, NEW t \in Writing
    PROVE  /\ <<Gap>> \o t \in Writing
           /\ MaskText(<<Gap>> \o t) = <<Gap>> \o MaskText(t)
<1>1. t \in Seq(Pieces) /\ <<Gap>> \in Seq(Pieces) /\ Gap \in Pieces
  BY GapType DEF Writing
<1>2. <<Gap>> \o t \in Seq(Pieces)
  BY <1>1
<1>3. MaskPiece[Gap] = Gap
  <2>1. Gap.is \notin Patterns
    BY PatternsAreNumbers DEF Gap, Numbers
  <2> QED BY <1>1, <2>1 DEF MaskPiece
<1>4. Mapped(MaskPiece, <<Gap>>) = <<Gap>>
  BY <1>3 DEF Mapped
<1>5. Mapped(MaskPiece, <<Gap>> \o t) = Mapped(MaskPiece, <<Gap>>) \o Mapped(MaskPiece, t)
  <2>1. PICK g : g = MaskPiece /\ Changes(g, Pieces)
    BY MaskPieceType
  <2>2. PICK s \in Seq(Pieces) : s = <<Gap>>
    BY <1>1
  <2>3. PICK u \in Seq(Pieces) : u = t
    BY <1>1
  <2>4. Mapped(g, s \o u) = Mapped(g, s) \o Mapped(g, u)
    BY <2>1, MappedJoined
  <2> QED BY <2>1, <2>2, <2>3, <2>4
<1> QED BY <1>2, <1>4, <1>5, MaskIsMapped DEF Writing

-----------------------------------------------------------------------------
(* The masked form of a content is read where the content is, and its      *)
(* parts are the masked parts.                                             *)
Reachable(at) == \A k \in DOMAIN at : at[k].field \in Fields

LEMMA ItemOf ==
    ASSUME NEW c \in Contents
    PROVE  /\ Len(c) \in Nat /\ DOMAIN c = 1..Len(c)
           /\ \A i \in DOMAIN c : /\ c[i] \in [at : Places, text : Writing]
                                  /\ c[i].at \in Places /\ c[i].text \in Writing
<1>1. PICK M : M = [at : Places, text : Writing]
  OBVIOUS
<1>2. c \in Seq(M)
  BY <1>1 DEF Contents, Writing
<1>3. Len(c) \in Nat /\ DOMAIN c = 1..Len(c) /\ \A i \in DOMAIN c : c[i] \in M
  BY <1>2
<1>4. \A e \in M : e.at \in Places /\ e.text \in Writing
  BY <1>1
<1> QED BY <1>1, <1>3, <1>4

LEMMA MaskedItems ==
    ASSUME NEW c \in Contents
    PROVE  /\ MaskContent(c) \in Contents /\ DOMAIN MaskContent(c) = DOMAIN c
           /\ \A i \in DOMAIN c :
                 /\ MaskContent(c)[i].at = c[i].at
                 /\ MaskContent(c)[i].text = IF Reachable(c[i].at) THEN MaskText(c[i].text)
                                             ELSE c[i].text
<1>1. PICK M : M = [at : Places, text : Writing]
  OBVIOUS
<1>2. PICK n \in Nat : n = Len(c) /\ DOMAIN c = 1..n /\ \A i \in 1..n : c[i] \in M
  BY <1>1, ItemOf
<1>3. ASSUME NEW e \in M
      PROVE  LET d == [e EXCEPT !.text = MaskText(@)]
             IN d \in M /\ d.at = e.at /\ d.text = MaskText(e.text)
  <2>1. e.text \in Writing
    BY <1>1
  <2>2. MaskText(e.text) \in Writing
    BY <2>1, MaskIsMapped
  <2> QED BY <1>1, <2>2
<1>4. PICK d : d = MaskContent(c)
  OBVIOUS
<1>5. d = [i \in 1..n |-> IF Reachable(c[i].at) THEN [c[i] EXCEPT !.text = MaskText(@)] ELSE c[i]]
  BY <1>2, <1>4 DEF MaskContent, Reachable
<1>6. \A i \in 1..n : /\ d[i] \in M /\ d[i].at = c[i].at
                      /\ d[i].text = IF Reachable(c[i].at) THEN MaskText(c[i].text) ELSE c[i].text
  BY <1>2, <1>3, <1>5
<1>7. d \in Seq(M) /\ DOMAIN d = 1..n
  <2>1. d = [i \in 1..n |-> d[i]] /\ \A i \in 1..n : d[i] \in M
    BY <1>5, <1>6
  <2> QED BY ONLY <2>1, n \in Nat
<1>8. d \in Contents
  BY <1>1, <1>7 DEF Contents, Writing
<1> QED BY <1>2, <1>4, <1>6, <1>7, <1>8

LEMMA ReadAlike ==
    ASSUME NEW c \in Contents, NEW at
    PROVE  IsRead(MaskContent(c), at) <=> IsRead(c, at)
<1>1. \A list, item : HasText(MaskContent(c), list, item) <=> HasText(c, list, item)
  BY MaskedItems DEF HasText
<1> QED BY <1>1 DEF IsRead

LEMMA PartsMasked ==
    ASSUME NEW c \in Contents
    PROVE  Parts(MaskContent(c)) = Mapped(MaskWriting, Parts(c))
<1> DEFINE d == MaskContent(c)
           I == {i \in DOMAIN c : IsRead(c, c[i].at)}
           s == [i \in DOMAIN c |-> c[i].text]
           r == [i \in DOMAIN d |-> d[i].text]
<1>1. PICK m \in Nat : DOMAIN c = 1..m
  BY ItemOf
<1>2. DOMAIN d = 1..m
  BY <1>1, MaskedItems
<1>3. {i \in DOMAIN d : IsRead(d, d[i].at)} = I
  <2>1. \A i \in DOMAIN c : IsRead(d, d[i].at) <=> IsRead(c, c[i].at)
    BY MaskedItems, ReadAlike
  <2> QED BY <1>1, <1>2, <2>1
<1>4. Parts(c) = Picked(s, I) /\ Parts(d) = Picked(r, I)
  BY <1>3 DEF Parts
<1>5. ASSUME NEW i \in 1..m, i \in I PROVE s[i] \in Writing /\ r[i] = MaskWriting[s[i]]
  <2>1. c[i].text \in Writing
    BY <1>1, ItemOf
  <2>2. Reachable(c[i].at)
    BY <1>5 DEF IsRead, Reachable
  <2>3. d[i].text = MaskText(c[i].text)
    BY <1>1, <2>2, MaskedItems
  <2> QED BY <1>1, <1>2, <2>1, <2>3 DEF MaskWriting
<1>6. DOMAIN s = 1..m /\ DOMAIN r = 1..m
  BY <1>1, <1>2
<1> HIDE DEF s, r, I, d
<1>7. Picked(r, I) = Mapped(MaskWriting, Picked(s, I))
  BY <1>5, <1>6, MaskWritingType, PickedMapped
<1> QED BY <1>4, <1>7 DEF d

LEMMA JoinedMasked ==
    ASSUME rules \in RuleSets, NEW parts \in Seq(Writing)
    PROVE  Joined(Mapped(MaskWriting, parts)) = MaskText(Joined(parts))
<1>1. PICK maps \in Seq(Writing) :
         /\ maps = Mapped(MaskWriting, parts) /\ Len(maps) = Len(parts)
         /\ \A i \in 1..Len(parts) : maps[i] = MaskWriting[parts[i]]
  BY MaskWritingType, MappedIs
<1>2. PICK m \in Nat : m = Len(parts) /\ DOMAIN parts = 1..m /\ \A i \in 1..m : parts[i] \in Writing
  OBVIOUS
<1>3. DOMAIN maps = 1..m /\ \A i \in 1..m : maps[i] = MaskText(parts[i])
  BY <1>1, <1>2 DEF MaskWriting
<1>4. PICK I : I = {i \in DOMAIN parts : parts[i] # <<>>}
  OBVIOUS
<1>5. I = {i \in DOMAIN maps : maps[i] # <<>>}
  <2>1. \A i \in 1..m : maps[i] # <<>> <=> parts[i] # <<>>
    BY <1>2, <1>3, MaskIsMapped
  <2> QED BY <1>2, <1>3, <1>4, <2>1
<1>6. PICK filled : filled = Picked(parts, I) /\ filled \in Seq(Writing)
  BY <1>2, PickedHolds
<1>7. PICK masked : masked = Picked(maps, I)
  OBVIOUS
<1>8. masked = Mapped(MaskWriting, filled)
  <2>1. \A i \in 1..m : i \in I => parts[i] \in Writing /\ maps[i] = MaskWriting[parts[i]]
    BY <1>1, <1>2
  <2>2. Picked(maps, I) = Mapped(MaskWriting, Picked(parts, I))
    <3>1. /\ m \in Nat /\ DOMAIN parts = 1..m /\ DOMAIN maps = 1..m
          /\ \A i \in 1..m : i \in I => parts[i] \in Writing /\ maps[i] = MaskWriting[parts[i]]
      BY <1>2, <1>3, <2>1
    <3> QED BY ONLY <3>1, MaskWritingType, PickedMapped
  <2> QED BY <1>6, <1>7, <2>2
<1>9. PICK n \in Nat : n = Len(filled) /\ DOMAIN filled = 1..n /\ \A i \in 1..n : filled[i] \in Writing
  BY <1>6
<1>10. DOMAIN masked = 1..n /\ \A i \in 1..n : masked[i] = MaskText(filled[i])
  BY <1>8, <1>9 DEF Mapped, MaskWriting
<1> DEFINE seqs == [i \in 1..n |-> IF i = 1 THEN filled[i] ELSE <<Gap>> \o filled[i]]
           outs == [i \in 1..n |-> IF i = 1 THEN masked[i] ELSE <<Gap>> \o masked[i]]
<1>11. Joined(parts) = FlattenSeq(seqs)
  BY <1>4, <1>6, <1>9 DEF Joined
<1>12. Joined(maps) = FlattenSeq(outs)
  BY <1>5, <1>7, <1>10 DEF Joined
<1>13. \A i \in 1..n : seqs[i] \in Writing
  BY <1>9, MaskBehindGap
<1>14. \A i \in 1..n : outs[i] = MaskText(seqs[i])
  BY <1>9, <1>10, MaskBehindGap
<1>15. DOMAIN seqs = 1..n /\ DOMAIN outs = 1..n /\ seqs = [i \in 1..n |-> seqs[i]]
       /\ outs = [i \in 1..n |-> outs[i]]
  OBVIOUS
<1> HIDE DEF seqs, outs
<1>16. \A i \in 1..n : outs[i] \in Writing /\ outs[i] = Mapped(MaskPiece, seqs[i])
  BY <1>13, <1>14, MaskIsMapped
<1>17. seqs \in Seq(Writing) /\ Len(seqs) = n /\ outs \in Seq(Writing) /\ Len(outs) = n
  <2>1. n \in Nat /\ seqs = [i \in 1..n |-> seqs[i]] /\ \A i \in 1..n : seqs[i] \in Writing
    BY <1>13, <1>15
  <2>2. n \in Nat /\ outs = [i \in 1..n |-> outs[i]] /\ \A i \in 1..n : outs[i] \in Writing
    BY <1>15, <1>16
  <2>3. seqs \in Seq(Writing) /\ Len(seqs) = n
    BY ONLY <2>1, TextsOf
  <2>4. outs \in Seq(Writing) /\ Len(outs) = n
    BY ONLY <2>2, TextsOf
  <2> QED BY <2>3, <2>4
<1>18. FlattenSeq(outs) = Mapped(MaskPiece, FlattenSeq(seqs))
  <2>1. seqs \in Seq(Seq(Pieces)) /\ outs \in Seq(Seq(Pieces))
    BY <1>17 DEF Writing
  <2>2. Len(outs) = Len(seqs) /\ \A i \in 1..Len(seqs) : outs[i] = Mapped(MaskPiece, seqs[i])
    BY <1>16, <1>17
  <2>3. PICK g : g = MaskPiece /\ Changes(g, Pieces)
    BY MaskPieceType
  <2>4. FlattenSeq(outs) = Mapped(g, FlattenSeq(seqs))
    <3>1. PICK S : S = Pieces
      OBVIOUS
    <3>2. PICK a \in Seq(Seq(S)), b \in Seq(Seq(S)) : a = seqs /\ b = outs
      BY <2>1, <3>1
    <3>3. Changes(g, S) /\ Len(b) = Len(a) /\ \A i \in 1..Len(a) : b[i] = Mapped(g, a[i])
      BY <2>2, <2>3, <3>1, <3>2
    <3>4. FlattenSeq(b) = Mapped(g, FlattenSeq(a))
      BY <3>3, FlattenMapped
    <3> QED BY <3>2, <3>4
  <2> QED BY <2>3, <2>4
<1>19. FlattenSeq(seqs) \in Writing
  BY <1>17, FlattenType DEF Writing
<1> QED BY <1>1, <1>11, <1>12, <1>18, <1>19, MaskIsMapped

-----------------------------------------------------------------------------
(* The masked chat says the masked text.                                   *)
LEMMA MessageOf ==
    ASSUME NEW msgs \in ChatMessages
    PROVE  /\ Len(msgs) \in Nat /\ DOMAIN msgs = 1..Len(msgs)
           /\ \A i \in DOMAIN msgs : /\ msgs[i] \in [role : STRING, content : Contents]
                                     /\ msgs[i].content \in Contents
<1>1. PICK M : M = [role : STRING, content : Contents]
  OBVIOUS
<1>2. msgs \in Seq(M)
  BY <1>1 DEF ChatMessages
<1>3. Len(msgs) \in Nat /\ DOMAIN msgs = 1..Len(msgs) /\ \A i \in DOMAIN msgs : msgs[i] \in M
  BY <1>2
<1>4. \A e \in M : e.content \in Contents
  BY <1>1
<1> QED BY <1>1, <1>3, <1>4

LEMMA MaskedMessages ==
    ASSUME NEW msgs \in ChatMessages, Patterns # {}
    PROVE  /\ Desensitized(msgs) \in ChatMessages /\ DOMAIN Desensitized(msgs) = DOMAIN msgs
           /\ \A i \in DOMAIN msgs :
                 /\ Desensitized(msgs)[i].role = msgs[i].role
                 /\ Desensitized(msgs)[i].content = IF msgs[i].role \in ScanRoles
                                                    THEN MaskContent(msgs[i].content)
                                                    ELSE msgs[i].content
<1>1. PICK M : M = [role : STRING, content : Contents]
  OBVIOUS
<1>2. PICK n \in Nat : n = Len(msgs) /\ DOMAIN msgs = 1..n /\ \A i \in 1..n : msgs[i] \in M
  BY <1>1, MessageOf
<1>3. ASSUME NEW e \in M
      PROVE  LET d == [e EXCEPT !.content = MaskContent(@)]
             IN d \in M /\ d.role = e.role /\ d.content = MaskContent(e.content)
  <2>1. e.content \in Contents
    BY <1>1
  <2>2. MaskContent(e.content) \in Contents
    BY <2>1, MaskedItems
  <2> QED BY <1>1, <2>2
<1>4. PICK d : d = Desensitized(msgs)
  OBVIOUS
<1>5. d = [i \in 1..n |-> IF msgs[i].role \in ScanRoles
                          THEN [msgs[i] EXCEPT !.content = MaskContent(@)] ELSE msgs[i]]
  BY <1>2, <1>4 DEF Desensitized, MaskRoles, ScanRoles
<1>6. \A i \in 1..n : /\ d[i] \in M /\ d[i].role = msgs[i].role
                      /\ d[i].content = IF msgs[i].role \in ScanRoles
                                        THEN MaskContent(msgs[i].content) ELSE msgs[i].content
  BY <1>2, <1>3, <1>5
<1>7. d \in Seq(M) /\ DOMAIN d = 1..n
  <2>1. d = [i \in 1..n |-> d[i]] /\ \A i \in 1..n : d[i] \in M
    BY <1>5, <1>6
  <2> QED BY ONLY <2>1, n \in Nat
<1>8. d \in ChatMessages
  BY <1>1, <1>7 DEF ChatMessages
<1> QED BY <1>2, <1>4, <1>6, <1>7, <1>8

LEMMA SaidMasked ==
    ASSUME rules \in RuleSets, NEW msgs \in ChatMessages, Patterns # {}, NEW i \in DOMAIN msgs
    PROVE  Said(Desensitized(msgs)[i]) = MaskText(Said(msgs[i]))
<1>1. PICK e : e = Desensitized(msgs)[i] /\ e.role = msgs[i].role
               /\ e.content = IF msgs[i].role \in ScanRoles THEN MaskContent(msgs[i].content)
                              ELSE msgs[i].content
  BY MaskedMessages
<1>2. PICK c \in Contents : c = msgs[i].content
  BY MessageOf
<1>3. CASE msgs[i].role \in ScanRoles
  <2>1. Said(e) = Joined(Parts(MaskContent(c))) /\ Said(msgs[i]) = Joined(Parts(c))
    BY <1>1, <1>2, <1>3 DEF Said
  <2>2. Joined(Mapped(MaskWriting, Parts(c))) = MaskText(Joined(Parts(c)))
    BY PartsType, JoinedMasked
  <2> QED BY <1>1, <2>1, <2>2, PartsMasked
<1>4. CASE msgs[i].role \notin ScanRoles
  <2>1. Said(e) = <<>> /\ Said(msgs[i]) = <<>>
    BY <1>1, <1>4 DEF Said
  <2>2. MaskText(<<>>) = <<>>
    BY DEF MaskText
  <2> QED BY <1>1, <2>1, <2>2
<1> QED BY <1>3, <1>4

LEMMA LatestMasked ==
    ASSUME rules \in RuleSets, NEW msgs \in ChatMessages
    PROVE  LatestText(Desensitized(msgs)) = MaskText(LatestText(msgs))
<1>1. CASE Patterns = {}
  <2>1. PICK t \in Writing : t = LatestText(msgs)
    BY LatestType
  <2>2. MaskText(t) = t
    <3>1. MaskText(t) = [i \in DOMAIN t |-> t[i]]
      BY <1>1 DEF MaskText
    <3>2. t \in Seq(Pieces)
      BY DEF Writing
    <3> QED BY <3>1, <3>2
  <2>3. Desensitized(msgs) = msgs
    <3>1. Desensitized(msgs) = [i \in DOMAIN msgs |-> msgs[i]]
      BY <1>1 DEF Desensitized
    <3>2. PICK M : M = [role : STRING, content : Contents]
      OBVIOUS
    <3>3. msgs \in Seq(M)
      BY <3>2 DEF ChatMessages
    <3> QED BY <3>1, <3>3
  <2> QED BY <2>1, <2>2, <2>3
<1>2. CASE Patterns # {}
  <2>1. PICK sent \in ChatMessages : sent = Desensitized(msgs) /\ DOMAIN sent = DOMAIN msgs
    BY <1>2, MaskedMessages
  <2>2. \A i \in DOMAIN msgs : Said(sent[i]) = MaskText(Said(msgs[i]))
    BY <1>2, <2>1, SaidMasked
  <2>3. \A i \in DOMAIN msgs : Said(sent[i]) = <<>> <=> Said(msgs[i]) = <<>>
    BY <2>2, SaidType, MaskIsMapped
  <2>4. DOMAIN msgs \subseteq Nat
    BY MessageOf
  <2>5. CASE LatestText(msgs) = <<>> /\ \A i \in DOMAIN msgs : Said(msgs[i]) = <<>>
    <3>1. \A i \in DOMAIN sent : Said(sent[i]) = <<>>
      BY <2>1, <2>3, <2>5
    <3>2. LatestText(sent) = <<>>
      BY <3>1, LatestIs
    <3>3. MaskText(<<>>) = <<>>
      BY DEF MaskText
    <3> QED BY <2>1, <2>5, <3>2, <3>3
  <2>6. CASE \E i \in DOMAIN msgs : /\ LatestText(msgs) = Said(msgs[i]) /\ Said(msgs[i]) # <<>>
                                    /\ \A j \in DOMAIN msgs : j > i => Said(msgs[j]) = <<>>
    <3>1. PICK i \in DOMAIN msgs : /\ LatestText(msgs) = Said(msgs[i]) /\ Said(msgs[i]) # <<>>
                                   /\ \A j \in DOMAIN msgs : j > i => Said(msgs[j]) = <<>>
      BY <2>6
    <3>2. Said(sent[i]) # <<>>
      BY <2>3, <3>1
    <3>3. PICK k \in DOMAIN sent : /\ LatestText(sent) = Said(sent[k]) /\ Said(sent[k]) # <<>>
                                   /\ \A j \in DOMAIN sent : j > k => Said(sent[j]) = <<>>
      BY <2>1, <3>2, LatestIs
    <3>4. ~(k > i) /\ ~(i > k)
      BY <2>1, <2>3, <3>1, <3>2, <3>3
    <3>5. k = i
      BY <2>1, <2>4, <3>4
    <3> QED BY <2>1, <2>2, <3>1, <3>3, <3>5
  <2> QED BY <2>5, <2>6, LatestIs
<1> QED BY <1>1, <1>2

(* No number that a pattern finds is left where the mask goes.             *)
LEMMA NoneIsLeft ==
    ASSUME rules \in RuleSets, NEW t \in Writing, NEW n \in DOMAIN MaskText(t),
           MaskText(t)[n].coded = 0
    PROVE  MaskText(t)[n].is \notin Patterns
<1>1. n \in DOMAIN t
  BY DEF MaskText
<1>2. CASE t[n].is \in Patterns /\ t[n].coded = 0
  <2>1. MaskText(t)[n].is = "mask"
    BY <1>1, <1>2 DEF MaskText
  <2> QED BY <2>1, PatternsAreNumbers DEF Numbers
<1>3. CASE ~(t[n].is \in Patterns /\ t[n].coded = 0)
  <2>1. MaskText(t)[n] = t[n]
    BY <1>1, <1>3 DEF MaskText
  <2> QED BY <1>3, <2>1
<1> QED BY <1>2, <1>3

LEMMA TextIsMasked == TextIInv => ScannedIsMasked
<1> SUFFICES ASSUME TextIInv, step = "audited", action # "blocked" PROVE ScannedIsMasked
  BY DEF ScannedIsMasked
<1>1. /\ rules \in RuleSets /\ text = LatestText(messages) /\ messages \in ChatMessages
      /\ body = Desensitized(messages)
  BY Scanned DEF TextIInv, Refused, SentOn
<1>2. LatestText(body) = MaskText(text)
  BY <1>1, LatestMasked
<1>3. ASSUME NEW i \in DOMAIN body, body[i].role \in ScanRoles,
             NEW j \in DOMAIN body[i].content, Reachable(body[i].content[j].at),
             NEW n \in DOMAIN body[i].content[j].text, body[i].content[j].text[n].coded = 0
      PROVE  body[i].content[j].text[n].is \notin Patterns
  <2>1. CASE Patterns = {}
    BY <2>1
  <2>2. CASE Patterns # {}
    <3>1. i \in DOMAIN messages /\ body[i].content = MaskContent(messages[i].content)
      BY <1>1, <1>3, <2>2, MaskedMessages
    <3>2. PICK c \in Contents : c = messages[i].content
      BY <1>1, <3>1, MessageOf
    <3>3. j \in DOMAIN c /\ body[i].content[j].text = MaskText(c[j].text)
      BY <1>3, <3>1, <3>2, MaskedItems
    <3>4. c[j].text \in Writing
      BY <3>3, ItemOf
    <3> QED BY <1>1, <1>3, <3>3, <3>4, NoneIsLeft
  <2> QED BY <2>1, <2>2
<1> QED BY <1>2, <1>3 DEF ScannedIsMasked, Reachable, Fields

(* What the scan would read of the request that is sent is the masked form *)
(* of what it has read, and no number that a pattern finds is left, for    *)
(* every chat, however nested, and every set of rules                      *)
(* (desensitize_content, _extract_content_parts).                          *)
THEOREM ScanIsMasked == TextSpec => []ScannedIsMasked
BY TextIInvAlways, TextIsMasked, PTL
=============================================================================
