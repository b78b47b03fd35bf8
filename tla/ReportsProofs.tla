--------------------------- MODULE ReportsProofs ---------------------------
(***************************************************************************)
(* What a report's row says of its files is true of them, for every number *)
(* of workers, periods and formats, whatever fails or dies, unless clean-up *)
(* unlinks a lock file under a generation.  And every audit is counted once *)
(* in the reports of each type, or lost with a report that is not          *)
(* generated, for every first date, length of the run, division of the day *)
(* and sequence of audits and of reports missed.                           *)
(***************************************************************************)
EXTENDS Reports, ReportFigures, FiniteSetTheorems, WellFoundedInduction, TLAPS

ReportsSpec == ReportsInit /\ [][ReportsNext]_reportVars

PCs == {"idle", "open", "create", "save", "write", "record", "failed"}
Jobs == [period : Periods \cup {None}, sensitive : BOOLEAN, inode : Inodes \cup {None},
         id : Ids \cup {None}, version : Versions \cup {None}, written : 0..Len(Formats),
         hash : [Parts -> Versions \cup {None}]]

(* A worker at work has a lock file of its period open from before it      *)
(* knows an id until it is through, the one that is there unless that has  *)
(* been unlinked.                                                          *)
Linked(p, i) == lockFile[p] # None /\ lockFile[p].inode = i
AtWork(w) ==
    /\ pc[w] = "idle" => job[w] = NoJob
    /\ pc[w] # "idle" => job[w].period \in Periods /\ job[w].inode \in Inodes
    /\ pc[w] # "idle" /\ job[w].period \notin undercut => Linked(job[w].period, job[w].inode)
    /\ pc[w] \in {"open", "create"} => job[w].id = None
    /\ pc[w] \in {"open", "create", "save"} => job[w].written = 0
    /\ pc[w] \in {"write", "record", "failed"} => job[w].id \in Ids
    /\ pc[w] = "write" => job[w].version \in Versions

OneHolder == \A v, w \in Workers : Holds(v) /\ Holds(w) /\ job[v].inode = job[w].inode => v = w

(* No id belongs to two periods, whether to a row or to a worker, nor does *)
(* a clean-up change that.                                                 *)
RowsApart == \A p, q \in Periods :
    row[p] # None /\ row[q] # None /\ row[p].id = row[q].id => p = q
JobsApart == \A v, w \in Workers :
    job[v].id # None /\ job[v].id = job[w].id => job[v].period = job[w].period
OwnRow(w, p) == row[p] # None /\ job[w].id # None /\ row[p].id = job[w].id =>
    /\ p = job[w].period
    /\ pc[w] \in {"write", "record", "failed"} /\ p \notin undercut =>
           row[p].status = "running" /\ row[p].sensitive = job[w].sensitive

(* What a generation has written so far, and what it is about to record.   *)
OwnFiles(w) == job[w].period \notin undercut => \A k \in Parts :
    LET f == file[<<job[w].id, k>>] IN
    /\ pc[w] = "write" /\ k <= job[w].written /\ f # None =>
           f.version = job[w].version /\ f.sensitive = job[w].sensitive
    /\ pc[w] = "record" /\ f # None =>
           f.version = job[w].hash[k] /\ f.sensitive = job[w].sensitive

WorkersOK == \A w \in Workers : AtWork(w) /\ OwnFiles(w) /\ \A p \in Periods : OwnRow(w, p)
IInv == ReportsTypeOK /\ WorkersOK /\ OneHolder /\ RowsApart /\ JobsApart /\ RecordsTrue

-----------------------------------------------------------------------------
LEMMA Constants ==
    /\ Len(Formats) \in Nat /\ Len(Formats) >= 1 /\ Parts \subseteq Nat
    /\ None \notin Ids /\ None \notin Versions /\ None \notin Workers
    /\ None \notin Periods /\ None \notin Inodes
    /\ NoHash \in [Parts -> Versions \cup {None}]
    /\ NoJob \in Jobs /\ NoJob.id = None /\ NoJob.written = 0 /\ NoJob.period = None
    /\ 0 \in Ages /\ \A a \in Ages : Older(a) \in Ages
<1>1. /\ Len(Formats) \in Nat /\ Len(Formats) >= 1 /\ Parts \subseteq Nat
  BY FormatsAssumption DEF Parts
<1>2. /\ None \notin Ids /\ None \notin Versions /\ None \notin Workers
      /\ None \notin Periods /\ None \notin Inodes
  BY NoneAssumption
<1>3. NoHash \in [Parts -> Versions \cup {None}]
  BY DEF NoHash
<1>4. NoJob \in Jobs /\ NoJob.id = None /\ NoJob.written = 0 /\ NoJob.period = None
  BY <1>1, <1>3 DEF NoJob, Jobs
<1>5. 0 \in Ages /\ \A a \in Ages : Older(a) \in Ages
  BY BoundsAssumption DEF Ages, Older
<1> QED BY <1>1, <1>2, <1>3, <1>4, <1>5

LEMMA TypeParts ==
    ASSUME ReportsTypeOK
    PROVE  /\ \A w \in Workers : job[w] \in Jobs
           /\ job \in [Workers -> Jobs]
           /\ pc \in [Workers -> PCs]
           /\ \A p \in Periods : row[p] # None => row[p] \in Rows
           /\ \A f \in Files : file[f] # None => file[f] \in Contents
           /\ \A p \in Periods : lockFile[p] # None => lockFile[p] \in Locks
BY DEF ReportsTypeOK, Jobs, PCs

LEMMA InitIInv == ReportsInit => IInv
<1> SUFFICES ASSUME ReportsInit PROVE IInv
  OBVIOUS
<1>1. ReportsTypeOK
  <2>1. /\ row \in [Periods -> Rows \cup {None}] /\ lockFile \in [Periods -> Locks \cup {None}]
    BY DEF ReportsInit
  <2>2. file \in [Files -> Contents \cup {None}]
    BY DEF ReportsInit
  <2>3. job \in [Workers -> Jobs]
    BY Constants DEF ReportsInit
  <2>4. pc \in [Workers -> PCs]
    BY DEF ReportsInit, PCs
  <2>5. /\ cleaning \in BOOLEAN /\ sweep \in SUBSET (Files \cup Periods)
        /\ doomed \in Files \cup Periods \cup {None} /\ undercut \in SUBSET Periods
    BY DEF ReportsInit
  <2>6. crashes \in 0..MaxCrashes
    BY BoundsAssumption DEF ReportsInit
  <2> QED BY <2>1, <2>2, <2>3, <2>4, <2>5, <2>6 DEF ReportsTypeOK, Jobs, PCs
<1>2. WorkersOK
  BY Constants DEF ReportsInit, WorkersOK, AtWork, OwnFiles, OwnRow
<1>3. OneHolder /\ RowsApart /\ JobsApart /\ RecordsTrue
  BY Constants DEF ReportsInit, OneHolder, Holds, RowsApart, JobsApart, RecordsTrue
<1> QED BY <1>1, <1>2, <1>3 DEF IInv

-----------------------------------------------------------------------------
(* Where no lock file has been unlinked, the lock excludes.                *)
LEMMA Excluded ==
    ASSUME IInv, NEW v \in Workers, NEW w \in Workers, Holds(v), Holds(w),
           job[v].period = job[w].period, job[w].period \notin undercut
    PROVE  v = w
<1>1. pc[v] # "idle" /\ pc[w] # "idle" /\ AtWork(v) /\ AtWork(w)
  BY DEF Holds, IInv, WorkersOK
<1>2. job[v].inode = job[w].inode
  BY <1>1 DEF AtWork, Linked
<1> QED BY <1>2 DEF IInv, OneHolder

(* A worker with an id holds a lock, of a period.                          *)
LEMMA HoldsOwn ==
    ASSUME IInv, NEW w \in Workers
    PROVE  /\ job[w].id # None => Holds(w)
           /\ pc[w] \in {"write", "record", "failed"} => Holds(w) /\ job[w].id \in Ids
           /\ Holds(w) => pc[w] # "idle"
           /\ pc[w] # "idle" => job[w].period \in Periods
<1>1. AtWork(w)
  BY DEF IInv, WorkersOK
<1> QED BY <1>1, Constants DEF AtWork, Holds

(* A step of one worker, in which the rows of other periods and the files  *)
(* of other ids stay as they are.                                          *)
LEMMA OneWorker ==
    ASSUME IInv, NEW w \in Workers, ReportsTypeOK',
           \A v \in Workers : v # w => pc'[v] = pc[v] /\ job'[v] = job[v],
           undercut' \subseteq undercut,
           \A p \in undercut \ undercut', v \in Workers : v # w => job[v].period # p,
           \A p \in Periods : lockFile[p] # None =>
               lockFile'[p] # None /\ lockFile'[p].inode = lockFile[p].inode,
           \A p \in Periods : row'[p] = row[p] \/ (Holds(w) /\ p = job[w].period),
           \A i \in Ids, k \in Parts : i # job[w].id => file'[<<i, k>>] = file[<<i, k>>],
           AtWork(w)', OwnFiles(w)', \A p \in Periods : OwnRow(w, p)',
           RowsApart', RecordsTrue',
           \A p \in Periods : row'[p] # row[p] /\ row'[p] # None =>
               \/ row[p] # None /\ row'[p].id = row[p].id
               \/ row'[p].id = job'[w].id /\ p = job'[w].period,
           \A v \in Workers : v # w /\ job[v].id # None /\ job[v].id = job'[w].id =>
               job[v].period = job'[w].period,
           \A v \in Workers : v # w /\ Holds(v) /\ Holds(w)' => job[v].inode # job'[w].inode
    PROVE  IInv'
<1>1. ASSUME NEW v \in Workers, v # w, job[v].period \notin undercut'
      PROVE  job[v].period \notin undercut
  BY <1>1
<1>2. ASSUME NEW v \in Workers, v # w PROVE AtWork(v)'
  <2>1. AtWork(v)
    BY DEF IInv, WorkersOK
  <2>2. ASSUME pc[v] # "idle", job[v].period \notin undercut'
        PROVE  Linked(job[v].period, job[v].inode)'
    <3>1. Linked(job[v].period, job[v].inode) /\ job[v].period \in Periods
      BY <1>1, <1>2, <2>1, <2>2 DEF AtWork
    <3>2. job'[v] = job[v]
      BY <1>2
    <3> QED BY <3>1, <3>2 DEF Linked
  <2> QED BY <1>2, <2>1, <2>2 DEF AtWork
<1>3. ASSUME NEW v \in Workers, v # w PROVE OwnFiles(v)'
  <2>1. OwnFiles(v)
    BY DEF IInv, WorkersOK
  <2>2. pc'[v] = pc[v] /\ job'[v] = job[v]
    BY <1>3
  <2> SUFFICES ASSUME job[v].period \notin undercut',
                      NEW k \in Parts, pc[v] \in {"write", "record"}
               PROVE  file'[<<job[v].id, k>>] = file[<<job[v].id, k>>]
    BY <1>1, <1>3, <2>1, <2>2 DEF OwnFiles
  <2>3. job[v].id \in Ids /\ job[v].id # None /\ Holds(v) /\ job[v].period \notin undercut
    BY <1>1, <1>3, HoldsOwn, Constants
  <2>4. job[v].id # job[w].id
    BY <1>3, <2>3, HoldsOwn, Excluded DEF IInv, JobsApart
  <2> QED BY <2>3, <2>4
<1>4. ASSUME NEW v \in Workers, v # w, NEW p \in Periods PROVE OwnRow(v, p)'
  <2>1. OwnRow(v, p) /\ pc'[v] = pc[v] /\ job'[v] = job[v]
    BY <1>4 DEF IInv, WorkersOK
  <2> SUFFICES ASSUME row'[p] # None, job[v].id # None, row'[p].id = job[v].id
               PROVE  /\ p = job[v].period
                      /\ pc[v] \in {"write", "record", "failed"} /\ p \notin undercut' =>
                           row'[p].status = "running" /\ row'[p].sensitive = job[v].sensitive
    BY <2>1 DEF OwnRow
  <2>2. CASE row'[p] = row[p]
    <3>1. p = job[v].period
      BY <2>1, <2>2 DEF OwnRow
    <3>2. p \notin undercut' => p \notin undercut
      BY <1>1, <1>4, <3>1
    <3> QED BY <2>1, <2>2, <3>1, <3>2 DEF OwnRow
  <2>3. CASE row'[p] # row[p]
    <3>1. Holds(w) /\ p = job[w].period
      BY <2>3
    <3>2. p = job[v].period
      <4>1. CASE row[p] # None /\ row'[p].id = row[p].id
        BY <2>1, <4>1 DEF OwnRow
      <4>2. CASE row'[p].id = job'[w].id /\ p = job'[w].period
        BY <1>4, <4>2
      <4> QED BY <2>3, <4>1, <4>2
    <3>3. ~(pc[v] \in {"write", "record", "failed"} /\ p \notin undercut')
      <4> SUFFICES ASSUME pc[v] \in {"write", "record", "failed"}, p \notin undercut'
                   PROVE  FALSE
        OBVIOUS
      <4>1. p \notin undercut
        BY <1>1, <1>4, <3>2
      <4>2. Holds(v)
        BY HoldsOwn
      <4>3. v = w
        BY <3>1, <3>2, <4>1, <4>2, Excluded
      <4> QED BY <1>4, <4>3
    <3> QED BY <3>2, <3>3
  <2> QED BY <2>2, <2>3
<1>5. JobsApart'
  BY DEF IInv, JobsApart
<1>6. OneHolder'
  BY DEF IInv, OneHolder, Holds
<1> QED BY <1>2, <1>3, <1>4, <1>5, <1>6 DEF IInv, WorkersOK

(* A generation is over: its worker lets go of its period.                 *)
LEMMA Released ==
    ASSUME IInv, NEW w \in Workers, pc[w] # "idle", Release(w),
           UNCHANGED <<file, lockFile, cleaning, sweep, doomed, undercut, crashes>>,
           row' \in [Periods -> Rows \cup {None}], RecordsTrue',
           \A p \in Periods :
               /\ row'[p] = row[p] \/ (Holds(w) /\ p = job[w].period)
               /\ row'[p] # None => row[p] # None /\ row'[p].id = row[p].id
    PROVE  IInv'
<1>1. pc' = [pc EXCEPT ![w] = "idle"] /\ job' = [job EXCEPT ![w] = NoJob]
  BY DEF Release
<1>2. ReportsTypeOK'
  <2>1. job' \in [Workers -> Jobs]
    BY <1>1, Constants, TypeParts DEF IInv
  <2>2. pc' \in [Workers -> PCs]
    BY <1>1, TypeParts DEF IInv, PCs
  <2> QED BY <2>1, <2>2 DEF IInv, ReportsTypeOK, Jobs, PCs
<1>3. /\ pc'[w] = "idle" /\ job'[w] = NoJob
      /\ \A v \in Workers : v # w => pc'[v] = pc[v] /\ job'[v] = job[v]
  BY <1>1 DEF IInv, ReportsTypeOK
<1>4. AtWork(w)' /\ OwnFiles(w)' /\ \A p \in Periods : OwnRow(w, p)'
  BY <1>3, Constants DEF AtWork, OwnFiles, OwnRow
<1>5. RowsApart'
  BY DEF IInv, RowsApart
<1>6. /\ \A v \in Workers : v # w /\ job[v].id # None => job[v].id # job'[w].id
      /\ ~Holds(w)'
  BY <1>3, Constants DEF Holds
<1> QED BY <1>2, <1>3, <1>4, <1>5, <1>6, OneWorker

(* A worker goes on by itself, without a row or a file being written.      *)
LEMMA GoesOn ==
    ASSUME IInv, NEW w \in Workers, NEW j \in Jobs, NEW s \in PCs,
           pc' = [pc EXCEPT ![w] = s], job' = [job EXCEPT ![w] = j],
           UNCHANGED <<row, file, lockFile, cleaning, sweep, doomed, undercut, crashes>>,
           j.inode = job[w].inode, j.period = job[w].period,
           AtWork(w)', OwnFiles(w)', \A p \in Periods : OwnRow(w, p)',
           \A v \in Workers : v # w /\ job[v].id # None /\ job[v].id = j.id =>
               job[v].period = j.period,
           Holds(w) \/ ~Locked(job[w].inode)
    PROVE  IInv'
<1>1. /\ pc'[w] = s /\ job'[w] = j
      /\ \A v \in Workers : v # w => pc'[v] = pc[v] /\ job'[v] = job[v]
  BY DEF IInv, ReportsTypeOK
<1>2. ReportsTypeOK'
  <2>1. job' \in [Workers -> Jobs]
    BY TypeParts DEF IInv
  <2>2. pc' \in [Workers -> PCs]
    BY TypeParts DEF IInv
  <2> QED BY <2>1, <2>2 DEF IInv, ReportsTypeOK, Jobs, PCs
<1>3. RowsApart' /\ RecordsTrue'
  BY DEF IInv, RowsApart, RecordsTrue
<1>4. \A v \in Workers : v # w /\ Holds(v) => job[v].inode # job'[w].inode
  BY <1>1 DEF IInv, OneHolder, Locked
<1> QED BY <1>1, <1>2, <1>3, <1>4, OneWorker

(* Whoever opens a lock file holds nothing yet.                            *)
LEMMA OpenStep ==
    ASSUME IInv, NEW w \in Workers, NEW p \in Periods, NEW s \in Details, Open(w, p, s)
    PROVE  IInv'
<1>1. PICK i \in Inodes :
          /\ lockFile[p] # None => i = lockFile[p].inode
          /\ lockFile' = [lockFile EXCEPT ![p] = [inode |-> i, age |-> 0]]
          /\ job' = [job EXCEPT ![w] = [NoJob EXCEPT !.period = p, !.sensitive = s, !.inode = i]]
  BY DEF Open
<1> DEFINE j == [NoJob EXCEPT !.period = p, !.sensitive = s, !.inode = i]
           l == [inode |-> i, age |-> 0]
<1>2. /\ j \in Jobs /\ j.period = p /\ j.inode = i /\ j.id = None /\ j.written = 0
  BY Constants, BoundsAssumption DEF Jobs, NoJob
<1>3. l \in Locks /\ l.inode = i /\ l # None
  <2>1. l \in Locks
    BY Constants DEF Locks
  <2> QED BY <2>1, LocksAssumption
<1> HIDE DEF j, l
<1>4. /\ pc[w] = "idle" /\ pc' = [pc EXCEPT ![w] = "open"] /\ job' = [job EXCEPT ![w] = j]
      /\ lockFile' = [lockFile EXCEPT ![p] = l]
      /\ UNCHANGED <<row, file, cleaning, sweep, doomed, undercut, crashes>>
  BY <1>1 DEF Open, j, l
<1>5. /\ lockFile' \in [Periods -> Locks \cup {None}] /\ lockFile'[p] = l
      /\ \A q \in Periods : q # p => lockFile'[q] = lockFile[q]
      /\ pc'[w] = "open" /\ job'[w] = j
      /\ \A v \in Workers : v # w => pc'[v] = pc[v] /\ job'[v] = job[v]
  BY <1>3, <1>4 DEF IInv, ReportsTypeOK
<1>6. ReportsTypeOK'
  <2>1. job' \in [Workers -> Jobs]
    BY <1>2, <1>4, TypeParts DEF IInv
  <2>2. pc' \in [Workers -> PCs]
    BY <1>4, TypeParts DEF IInv, PCs
  <2> QED BY <1>4, <1>5, <2>1, <2>2 DEF IInv, ReportsTypeOK, Jobs, PCs
<1>7. AtWork(w)' /\ OwnFiles(w)' /\ \A q \in Periods : OwnRow(w, q)'
  BY <1>2, <1>3, <1>5 DEF AtWork, Linked, OwnFiles, OwnRow
<1>8. \A q \in Periods : lockFile[q] # None =>
          lockFile'[q] # None /\ lockFile'[q].inode = lockFile[q].inode
  BY <1>1, <1>3, <1>5
<1>9. RowsApart' /\ RecordsTrue' /\ ~Holds(w)'
  BY <1>4, <1>5 DEF IInv, RowsApart, RecordsTrue, Holds
<1>10. \A v \in Workers : v # w /\ job[v].id # None => job[v].id # job'[w].id
  BY <1>2, <1>5
<1> QED BY <1>4, <1>5, <1>6, <1>7, <1>8, <1>9, <1>10, OneWorker

LEMMA FlockStep == ASSUME IInv, NEW w \in Workers, Flock(w) PROVE IInv'
<1>1. /\ pc[w] = "open" /\ ~Locked(job[w].inode) /\ pc' = [pc EXCEPT ![w] = "create"]
      /\ UNCHANGED <<row, file, lockFile, job, cleaning, sweep, doomed, undercut, crashes>>
      /\ AtWork(w) /\ job[w] \in Jobs /\ pc \in [Workers -> PCs] /\ job \in [Workers -> Jobs]
  BY TypeParts DEF Flock, IInv, WorkersOK
<1>2. pc'[w] = "create" /\ job' = [job EXCEPT ![w] = job[w]] /\ job'[w] = job[w]
  BY <1>1
<1>3. AtWork(w)' /\ OwnFiles(w)' /\ \A p \in Periods : OwnRow(w, p)'
  BY <1>1, <1>2 DEF AtWork, Linked, OwnFiles, OwnRow
<1>4. \A v \in Workers : v # w /\ job[v].id # None /\ job[v].id = job[w].id =>
          job[v].period = job[w].period
  BY DEF IInv, JobsApart
<1>5. "create" \in PCs
  BY DEF PCs
<1> QED BY <1>1, <1>2, <1>3, <1>4, <1>5, GoesOn

(* Whoever found a row of its period has an id no other period has.        *)
LEMMA ReadStep == ASSUME IInv, NEW w \in Workers, Read(w) PROVE IInv'
<1> DEFINE old == row[job[w].period]
           i == IF old = None THEN None ELSE old.id
           j == [job[w] EXCEPT !.id = i]
<1>1. /\ AtWork(w) /\ pc[w] = "create" /\ job[w].period \in Periods
      /\ job[w].written = 0 /\ job[w] \in Jobs
  BY TypeParts DEF IInv, WorkersOK, AtWork, Read
<1>2. i \in Ids \cup {None} /\ (i # None => old # None /\ old.id = i)
  BY <1>1, TypeParts DEF IInv, Rows
<1>3. /\ pc' = [pc EXCEPT ![w] = "save"] /\ job' = [job EXCEPT ![w] = j]
      /\ UNCHANGED <<row, file, lockFile, cleaning, sweep, doomed, undercut, crashes>>
  BY TypeParts DEF IInv, Read
<1> HIDE DEF i
<1>4. /\ j \in Jobs /\ j.id = i /\ j.period = job[w].period /\ j.inode = job[w].inode
      /\ j.written = 0
  BY <1>1, <1>2 DEF Jobs
<1> HIDE DEF j
<1>5. pc'[w] = "save" /\ job'[w] = j
  BY <1>3 DEF IInv, ReportsTypeOK
<1>6. AtWork(w)' /\ OwnFiles(w)'
  BY <1>1, <1>3, <1>4, <1>5 DEF AtWork, Linked, OwnFiles
<1>7. ASSUME NEW q \in Periods PROVE OwnRow(w, q)'
  BY <1>1, <1>2, <1>3, <1>4, <1>5 DEF OwnRow, IInv, RowsApart
<1>8. ASSUME NEW v \in Workers, v # w, job[v].id # None, job[v].id = j.id
      PROVE  job[v].period = j.period
  <2>1. OwnRow(v, job[w].period)
    BY <1>1 DEF IInv, WorkersOK
  <2> QED BY <1>2, <1>4, <1>8, <2>1 DEF OwnRow
<1>9. Holds(w) /\ "save" \in PCs
  BY <1>1 DEF Holds, PCs
<1> QED BY <1>3, <1>4, <1>6, <1>7, <1>8, <1>9, GoesOn

LEMMA HashStep == ASSUME IInv, NEW w \in Workers, Hash(w) PROVE IInv'
<1> DEFINE h == [k \in Parts |-> file[<<job[w].id, k>>].version]
           j == [job[w] EXCEPT !.version = None, !.hash = h]
<1>1. /\ AtWork(w) /\ OwnFiles(w) /\ pc[w] = "write" /\ job[w].written = Len(Formats)
      /\ job[w].id \in Ids /\ job[w] \in Jobs /\ \A p \in Periods : OwnRow(w, p)
  BY TypeParts DEF IInv, WorkersOK, AtWork, Hash
<1>2. /\ pc' = [pc EXCEPT ![w] = "record"] /\ job' = [job EXCEPT ![w] = j]
      /\ UNCHANGED <<row, file, lockFile, cleaning, sweep, doomed, undercut, crashes>>
      /\ \A k \in Parts : file[<<job[w].id, k>>] # None
  BY TypeParts DEF IInv, Hash
<1>3. h \in [Parts -> Versions \cup {None}] /\ \A k \in Parts : h[k] = file[<<job[w].id, k>>].version
  BY <1>1, <1>2, TypeParts DEF IInv, Files, Contents
<1> HIDE DEF h
<1>4. /\ j \in Jobs /\ j.id = job[w].id /\ j.period = job[w].period /\ j.inode = job[w].inode
      /\ j.sensitive = job[w].sensitive /\ j.hash = h
  BY <1>1, <1>3 DEF Jobs
<1> HIDE DEF j
<1>5. pc'[w] = "record" /\ job'[w] = j
  BY <1>2 DEF IInv, ReportsTypeOK
<1>6. AtWork(w)' /\ \A p \in Periods : OwnRow(w, p)'
  BY <1>1, <1>2, <1>4, <1>5 DEF AtWork, Linked, OwnRow
<1>7. \A k \in Parts : k <= Len(Formats)
  BY Constants DEF Parts
<1>8. OwnFiles(w)'
  BY <1>1, <1>2, <1>3, <1>4, <1>5, <1>7 DEF OwnFiles
<1>9. \A v \in Workers : v # w /\ job[v].id # None /\ job[v].id = j.id => job[v].period = j.period
  BY <1>4 DEF IInv, JobsApart
<1>10. Holds(w) /\ "record" \in PCs
  BY <1>1 DEF Holds, PCs
<1> QED BY <1>2, <1>4, <1>6, <1>8, <1>9, <1>10, GoesOn

LEMMA FailStep == ASSUME IInv, NEW w \in Workers, Fail(w) PROVE IInv'
<1> DEFINE j == [job[w] EXCEPT !.version = None, !.written = 0, !.hash = NoHash]
<1>1. /\ AtWork(w) /\ pc[w] \in {"write", "record"}
      /\ job[w] \in Jobs /\ \A p \in Periods : OwnRow(w, p)
  BY TypeParts DEF IInv, WorkersOK, Fail
<1>2. /\ pc' = [pc EXCEPT ![w] = "failed"] /\ job' = [job EXCEPT ![w] = j]
      /\ UNCHANGED <<row, file, lockFile, cleaning, sweep, doomed, undercut, crashes>>
  BY DEF Fail
<1>3. /\ j \in Jobs /\ j.id = job[w].id /\ j.period = job[w].period /\ j.inode = job[w].inode
      /\ j.sensitive = job[w].sensitive
  BY <1>1, Constants DEF Jobs
<1> HIDE DEF j
<1>4. pc'[w] = "failed" /\ job'[w] = j
  BY <1>2 DEF IInv, ReportsTypeOK
<1>5. AtWork(w)' /\ OwnFiles(w)' /\ \A p \in Periods : OwnRow(w, p)'
  BY <1>1, <1>2, <1>3, <1>4 DEF AtWork, Linked, OwnRow, OwnFiles
<1>6. \A v \in Workers : v # w /\ job[v].id # None /\ job[v].id = j.id => job[v].period = j.period
  BY <1>3 DEF IInv, JobsApart
<1>7. Holds(w) /\ "failed" \in PCs
  BY <1>1 DEF Holds, PCs
<1> QED BY <1>2, <1>3, <1>5, <1>6, <1>7, GoesOn

-----------------------------------------------------------------------------
(* The row gets the id that the generation goes on with, a fresh one or    *)
(* its own.  A generation that then has the period to itself holds the     *)
(* lock of the file that is there.                                         *)
LEMMA SaveStep == ASSUME IInv, NEW w \in Workers, Save(w) PROVE IInv'
<1>1. /\ AtWork(w) /\ pc[w] = "save" /\ job[w] \in Jobs /\ job[w].period \in Periods
      /\ job[w].written = 0 /\ Holds(w)
  BY TypeParts DEF IInv, WorkersOK, AtWork, Save, Holds
<1>2. PICK i \in Ids, v \in Versions :
          /\ \/ job[w].id = None /\ row[job[w].period] = None /\ ~IdUsed(i)
             \/ job[w].id = i /\ RowOf(w)
          /\ job' = [job EXCEPT ![w].id = i, ![w].version = v]
          /\ row' = [row EXCEPT ![job[w].period] = Running(w, i)]
  BY DEF Save, Least
<1> DEFINE j == [job[w] EXCEPT !.id = i, !.version = v]
<1>3. i # None /\ i \in Ids
  BY Constants
<1>4. /\ job' = [job EXCEPT ![w] = j] /\ pc' = [pc EXCEPT ![w] = "write"]
      /\ UNCHANGED <<file, lockFile, cleaning, sweep, doomed, crashes>>
      /\ undercut' = IF Alone(w) THEN undercut \ {job[w].period} ELSE undercut
  BY <1>2, TypeParts DEF IInv, Save
<1>5. /\ j \in Jobs /\ j.id = i /\ j.period = job[w].period /\ j.inode = job[w].inode
      /\ j.written = 0 /\ j.sensitive = job[w].sensitive /\ j.version = v
  BY <1>1 DEF Jobs
<1> HIDE DEF j
<1>6. /\ Running(w, i) \in Rows /\ Running(w, i).id = i
      /\ Running(w, i).status = "running" /\ Running(w, i).sensitive = job[w].sensitive
  BY <1>1, Constants DEF Running, Rows, Jobs
<1>7. ReportsTypeOK'
  <2>1. job' \in [Workers -> Jobs]
    BY <1>4, <1>5, TypeParts DEF IInv
  <2>2. pc' \in [Workers -> PCs]
    BY <1>4, TypeParts DEF IInv, PCs
  <2>3. row' \in [Periods -> Rows \cup {None}]
    BY <1>2, <1>6 DEF IInv, ReportsTypeOK
  <2>4. undercut' \in SUBSET Periods
    BY <1>4 DEF IInv, ReportsTypeOK
  <2> QED BY <1>4, <2>1, <2>2, <2>3, <2>4 DEF IInv, ReportsTypeOK, Jobs, PCs
<1>8. /\ pc'[w] = "write" /\ job'[w] = j /\ row'[job[w].period] = Running(w, i)
      /\ \A u \in Workers : u # w => pc'[u] = pc[u] /\ job'[u] = job[u]
      /\ \A p \in Periods : p # job[w].period => row'[p] = row[p]
  BY <1>1, <1>2, <1>4 DEF IInv, ReportsTypeOK
<1>9. \A p \in Periods : p # job[w].period /\ row[p] # None => row[p].id # i
  BY <1>1, <1>2 DEF RowOf, IdUsed, IInv, RowsApart
<1>10. ASSUME NEW u \in Workers, u # w, job[u].id = i PROVE job[u].period = job[w].period
  BY <1>2, <1>3, <1>10 DEF IdUsed, IInv, JobsApart
<1>11. /\ undercut' \subseteq undercut
       /\ \A p \in undercut \ undercut' : p = job[w].period /\ Alone(w)
  BY <1>4
<1>12. AtWork(w)'
  <2>1. job[w].period \notin undercut' => Linked(job[w].period, job[w].inode)
    <3>1. CASE Alone(w)
      BY <3>1 DEF Alone, Linked
    <3>2. CASE ~Alone(w)
      BY <1>1, <1>4, <3>2 DEF AtWork
    <3> QED BY <3>1, <3>2
  <2>2. Linked(job[w].period, job[w].inode)' <=> Linked(job[w].period, job[w].inode)
    BY <1>4, <1>5, <1>8 DEF Linked
  <2> QED BY <1>1, <1>3, <1>5, <1>8, <2>1, <2>2 DEF AtWork, Linked
<1>13. OwnFiles(w)'
  <2>1. \A k \in Parts : ~(k <= 0)
    BY Constants DEF Parts
  <2> QED BY <1>5, <1>8, <2>1 DEF OwnFiles
<1>14. \A p \in Periods : OwnRow(w, p)'
  BY <1>5, <1>6, <1>8, <1>9 DEF OwnRow
<1>15. RowsApart'
  BY <1>6, <1>8, <1>9 DEF IInv, RowsApart
<1>16. RecordsTrue'
  BY <1>4, <1>6, <1>8, <1>11 DEF IInv, RecordsTrue
<1>17. /\ \A p \in Periods : row'[p] = row[p] \/ (Holds(w) /\ p = job[w].period)
       /\ \A p \in Periods : row'[p] # row[p] /\ row'[p] # None =>
              row'[p].id = job'[w].id /\ p = job'[w].period
       /\ \A u \in Workers : u # w /\ job[u].id # None /\ job[u].id = job'[w].id =>
              job[u].period = job'[w].period
  BY <1>1, <1>5, <1>6, <1>8, <1>10
<1>18. \A p \in undercut \ undercut', u \in Workers : u # w => job[u].period # p
  BY <1>11 DEF Alone
<1>19. \A u \in Workers : u # w /\ Holds(u) => job[u].inode # job'[w].inode
  BY <1>1, <1>5, <1>8 DEF IInv, OneHolder
<1> QED BY <1>4, <1>7, <1>8, <1>11, <1>12, <1>13, <1>14, <1>15, <1>16, <1>17, <1>18, <1>19, OneWorker

(* The files that are written are not those of a succeeded report.         *)
LEMMA WriteFileStep == ASSUME IInv, NEW w \in Workers, WriteFile(w) PROVE IInv'
<1> DEFINE n == job[w].written + 1
           j == [job[w] EXCEPT !.written = n]
           new == [version |-> job[w].version, sensitive |-> job[w].sensitive, age |-> 0]
<1>1. /\ AtWork(w) /\ OwnFiles(w) /\ pc[w] = "write" /\ job[w] \in Jobs /\ Holds(w)
      /\ job[w].id \in Ids /\ job[w].version \in Versions /\ \A p \in Periods : OwnRow(w, p)
      /\ job[w].written \in Nat /\ job[w].written < Len(Formats)
  BY TypeParts DEF IInv, WorkersOK, AtWork, WriteFile, Jobs, Holds
<1>2. n \in Parts /\ n \in 0..Len(Formats) /\ <<job[w].id, n>> \in Files
  BY <1>1, Constants DEF Parts, Files
<1>3. /\ job' = [job EXCEPT ![w] = j] /\ pc' = pc
      /\ file' = [file EXCEPT ![<<job[w].id, n>>] = new]
      /\ UNCHANGED <<row, lockFile, cleaning, sweep, doomed, undercut, crashes>>
  BY TypeParts DEF IInv, WriteFile
<1>4. /\ j \in Jobs /\ j.id = job[w].id /\ j.period = job[w].period /\ j.inode = job[w].inode
      /\ j.sensitive = job[w].sensitive /\ j.version = job[w].version /\ j.written = n
  BY <1>1, <1>2 DEF Jobs
<1> HIDE DEF j
<1>5. /\ new \in Contents /\ new.version = job[w].version /\ new.sensitive = job[w].sensitive
  BY <1>1, Constants DEF Contents, Jobs
<1> HIDE DEF new
<1>6. ReportsTypeOK'
  <2>1. job' \in [Workers -> Jobs]
    BY <1>3, <1>4, TypeParts DEF IInv
  <2>2. file' \in [Files -> Contents \cup {None}]
    BY <1>3, <1>5 DEF IInv, ReportsTypeOK
  <2> QED BY <1>3, <2>1, <2>2 DEF IInv, ReportsTypeOK, Jobs
<1>7. /\ job'[w] = j /\ file'[<<job[w].id, n>>] = new
      /\ \A u \in Workers : u # w => job'[u] = job[u]
      /\ \A i \in Ids, k \in Parts : i # job[w].id \/ k # n => file'[<<i, k>>] = file[<<i, k>>]
  <2>1. \A i \in Ids, k \in Parts : <<i, k>> \in Files
    BY DEF Files
  <2>2. file \in [Files -> Contents \cup {None}] /\ job \in [Workers -> Jobs]
    BY TypeParts DEF IInv, ReportsTypeOK
  <2> QED BY <1>2, <1>3, <2>1, <2>2
<1>8. AtWork(w)' /\ \A p \in Periods : OwnRow(w, p)'
  BY <1>1, <1>3, <1>4, <1>7 DEF AtWork, Linked, OwnRow
<1>9. OwnFiles(w)'
  <2> SUFFICES ASSUME job[w].period \notin undercut,
                      NEW k \in Parts, k <= n, file'[<<job[w].id, k>>] # None
               PROVE  /\ file'[<<job[w].id, k>>].version = job[w].version
                      /\ file'[<<job[w].id, k>>].sensitive = job[w].sensitive
    BY <1>1, <1>3, <1>4, <1>7 DEF OwnFiles
  <2>1. CASE k = n
    BY <1>5, <1>7, <2>1
  <2>2. CASE k # n
    <3>1. k <= job[w].written
      BY <1>1, <2>2, Constants
    <3> QED BY <1>1, <1>7, <2>2, <3>1 DEF OwnFiles
  <2> QED BY <2>1, <2>2
<1>10. RowsApart'
  BY <1>3 DEF IInv, RowsApart
<1>11. RecordsTrue'
  <2> SUFFICES ASSUME NEW p \in Periods \ undercut, row[p] # None, row[p].status = "succeeded",
                      NEW k \in Parts, file'[<<row[p].id, k>>] # None
               PROVE  /\ file'[<<row[p].id, k>>].version = row[p].hash[k]
                      /\ file'[<<row[p].id, k>>].sensitive = row[p].sensitive
    BY <1>3 DEF RecordsTrue
  <2>1. row[p].id # job[w].id
    BY <1>1, Constants DEF OwnRow
  <2>2. row[p].id \in Ids
    BY TypeParts DEF IInv, Rows
  <2> QED BY <1>7, <2>1, <2>2 DEF IInv, RecordsTrue
<1>12. /\ \A v \in Workers : v # w /\ job[v].id # None /\ job[v].id = job'[w].id =>
              job[v].period = job'[w].period
       /\ \A v \in Workers : v # w /\ Holds(v) => job[v].inode # job'[w].inode
  BY <1>1, <1>4, <1>7 DEF IInv, JobsApart, OneHolder
<1> QED BY <1>1, <1>3, <1>6, <1>7, <1>8, <1>9, <1>10, <1>11, <1>12, OneWorker

(* The row records what was written, and was of this generation.           *)
LEMMA MarkSucceededStep == ASSUME IInv, NEW w \in Workers, MarkSucceeded(w) PROVE IInv'
<1> DEFINE p == job[w].period
           new == [row[p] EXCEPT !.status = "succeeded", !.hash = job[w].hash]
<1>1. /\ OwnFiles(w) /\ pc[w] = "record" /\ RowOf(w) /\ job[w] \in Jobs /\ Holds(w)
      /\ p \in Periods /\ job[w].id \in Ids /\ OwnRow(w, p) /\ row[p] \in Rows
  BY TypeParts DEF IInv, WorkersOK, AtWork, MarkSucceeded, RowOf, Holds
<1>2. /\ row' = [row EXCEPT ![p] = new] /\ Release(w)
      /\ UNCHANGED <<file, lockFile, cleaning, sweep, doomed, undercut, crashes>>
  BY TypeParts DEF IInv, ReportsTypeOK, MarkSucceeded
<1>3. /\ new \in Rows /\ new.id = job[w].id /\ new.hash = job[w].hash
      /\ new.sensitive = row[p].sensitive
  BY <1>1 DEF Rows, Jobs, RowOf
<1>4. p \notin undercut => row[p].sensitive = job[w].sensitive
  BY <1>1, Constants DEF OwnRow, RowOf
<1> HIDE DEF new
<1>5. /\ row' \in [Periods -> Rows \cup {None}] /\ row'[p] = new
      /\ \A q \in Periods : q # p => row'[q] = row[q]
  BY <1>1, <1>2, <1>3 DEF IInv, ReportsTypeOK
<1>6. RecordsTrue'
  BY <1>1, <1>2, <1>3, <1>4, <1>5 DEF IInv, RecordsTrue, OwnFiles
<1>7. \A q \in Periods :
          /\ row'[q] = row[q] \/ (Holds(w) /\ q = p)
          /\ row'[q] # None => row[q] # None /\ row'[q].id = row[q].id
  BY <1>1, <1>3, <1>5 DEF RowOf
<1> QED BY <1>1, <1>2, <1>5, <1>6, <1>7, Released

LEMMA MarkFailedStep == ASSUME IInv, NEW w \in Workers, MarkFailed(w) PROVE IInv'
<1> DEFINE p == job[w].period
<1>1. /\ pc[w] = "failed" /\ Release(w) /\ p \in Periods /\ Holds(w)
      /\ UNCHANGED <<file, lockFile, cleaning, sweep, doomed, undercut, crashes>>
  BY DEF IInv, WorkersOK, AtWork, MarkFailed, Holds
<1>2. CASE ~RowOf(w)
  <2>1. row' = row
    BY <1>2 DEF MarkFailed
  <2>2. RecordsTrue'
    BY <1>1, <2>1 DEF IInv, RecordsTrue
  <2> QED BY <1>1, <2>1, <2>2, Released DEF IInv, ReportsTypeOK
<1>3. CASE RowOf(w)
  <2> DEFINE new == [row[p] EXCEPT !.status = "failed"]
  <2>1. row' = [row EXCEPT ![p] = new] /\ row[p] \in Rows
    BY <1>1, <1>3, TypeParts DEF IInv, ReportsTypeOK, MarkFailed, RowOf
  <2>2. new \in Rows /\ new.id = row[p].id /\ new.status = "failed"
    BY <2>1 DEF Rows
  <2> HIDE DEF new
  <2>3. /\ row' \in [Periods -> Rows \cup {None}] /\ row'[p] = new
        /\ \A q \in Periods : q # p => row'[q] = row[q]
    BY <1>1, <2>1, <2>2 DEF IInv, ReportsTypeOK
  <2>4. RecordsTrue'
    BY <1>1, <2>2, <2>3 DEF IInv, RecordsTrue
  <2>5. \A q \in Periods :
            /\ row'[q] = row[q] \/ (Holds(w) /\ q = p)
            /\ row'[q] # None => row[q] # None /\ row'[q].id = row[q].id
    BY <1>1, <1>3, <2>2, <2>3 DEF RowOf
  <2> QED BY <1>1, <2>3, <2>4, <2>5, Released
<1> QED BY <1>2, <1>3

(* A generation that stops leaves its row and its files as they are.       *)
LEMMA StopStep ==
    ASSUME IInv, NEW w \in Workers, Blocked(w) \/ Refuse(w) \/ MarkFailedRaises(w) \/ Crash(w)
    PROVE  IInv'
<1>1. /\ pc[w] # "idle" /\ Release(w)
      /\ UNCHANGED <<row, file, lockFile, cleaning, sweep, doomed, undercut, crashes>>
  BY DEF Blocked, Refuse, MarkFailedRaises, Crash
<1>2. RecordsTrue'
  BY <1>1 DEF IInv, RecordsTrue
<1> QED BY <1>1, <1>2, Released DEF IInv, ReportsTypeOK

-----------------------------------------------------------------------------
(* What days and clean-ups do: rows and files grow older or go, and a lock *)
(* file that goes under a generation is remembered.                        *)
LEMMA Aged ==
    ASSUME IInv, ReportsTypeOK', UNCHANGED <<pc, job>>, undercut \subseteq undercut',
           \A w \in Workers :
               /\ pc[w] # "idle" /\ job[w].period \notin undercut'
               /\ Linked(job[w].period, job[w].inode)
               => Linked(job[w].period, job[w].inode)',
           \A p \in Periods : row'[p] # None =>
               /\ row[p] # None /\ row'[p].id = row[p].id /\ row'[p].status = row[p].status
               /\ row'[p].sensitive = row[p].sensitive /\ row'[p].hash = row[p].hash,
           \A f \in Files : file'[f] # None =>
               /\ file[f] # None /\ file'[f].version = file[f].version
               /\ file'[f].sensitive = file[f].sensitive
    PROVE  IInv'
<1>1. \A i \in Ids, k \in Parts : <<i, k>> \in Files
  BY DEF Files
<1>2. ASSUME NEW w \in Workers PROVE AtWork(w)' /\ OwnFiles(w)' /\ \A p \in Periods : OwnRow(w, p)'
  <2>1. AtWork(w) /\ OwnFiles(w) /\ \A p \in Periods : OwnRow(w, p)
    BY DEF IInv, WorkersOK
  <2>2. AtWork(w)'
    <3>1. pc[w] # "idle" /\ job[w].period \notin undercut' =>
              Linked(job[w].period, job[w].inode)'
      BY <2>1 DEF AtWork
    <3>2. pc'[w] = pc[w] /\ job'[w] = job[w]
      OBVIOUS
    <3> QED BY <2>1, <3>1, <3>2 DEF AtWork, Linked
  <2>3. OwnFiles(w)'
    BY <1>1, <2>1 DEF AtWork, OwnFiles
  <2>4. \A p \in Periods : OwnRow(w, p)'
    BY <2>1 DEF OwnRow
  <2> QED BY <2>2, <2>3, <2>4
<1>3. RowsApart' /\ JobsApart' /\ OneHolder'
  BY DEF IInv, RowsApart, JobsApart, OneHolder, Holds
<1>4. RecordsTrue'
  <2>1. \A p \in Periods : row[p] # None => row[p].id \in Ids
    BY TypeParts DEF IInv, Rows
  <2> QED BY <1>1, <2>1 DEF IInv, RecordsTrue
<1> QED BY <1>2, <1>3, <1>4 DEF IInv, WorkersOK

LEMMA TickStep == ASSUME IInv, Tick PROVE IInv'
<1>1. ASSUME NEW p \in Periods, row[p] # None
      PROVE  /\ row'[p] \in Rows /\ row'[p].id = row[p].id /\ row'[p].status = row[p].status
             /\ row'[p].sensitive = row[p].sensitive /\ row'[p].hash = row[p].hash
  <2>1. row[p] \in Rows /\ row'[p] = [row[p] EXCEPT !.age = Older(@)]
    BY <1>1, TypeParts DEF IInv, Tick
  <2>2. Older(row[p].age) \in Ages
    BY <2>1, Constants DEF Rows
  <2> QED BY <2>1, <2>2 DEF Rows
<1>2. ASSUME NEW f \in Files, file[f] # None
      PROVE  /\ file'[f] \in Contents /\ file'[f].version = file[f].version
             /\ file'[f].sensitive = file[f].sensitive
  <2>1. file[f] \in Contents /\ file'[f] = [file[f] EXCEPT !.age = Older(@)]
    BY <1>2, TypeParts DEF IInv, Tick
  <2>2. Older(file[f].age) \in Ages
    BY <2>1, Constants DEF Contents
  <2> QED BY <2>1, <2>2 DEF Contents
<1>3. ASSUME NEW p \in Periods, lockFile[p] # None
      PROVE  lockFile'[p] \in Locks /\ lockFile'[p] # None /\ lockFile'[p].inode = lockFile[p].inode
  <2>1. lockFile[p] \in Locks /\ lockFile'[p] = [lockFile[p] EXCEPT !.age = Older(@)]
    BY <1>3, TypeParts DEF IInv, Tick
  <2>2. Older(lockFile[p].age) \in Ages
    BY <2>1, Constants DEF Locks
  <2>3. lockFile'[p] \in Locks /\ lockFile'[p].inode = lockFile[p].inode
    BY <2>1, <2>2 DEF Locks
  <2> QED BY <2>3, LocksAssumption
<1>4. /\ UNCHANGED <<pc, job, cleaning, sweep, doomed, undercut, crashes>>
      /\ \A p \in Periods : row[p] = None => row'[p] = None
      /\ \A f \in Files : file[f] = None => file'[f] = None
      /\ \A p \in Periods : lockFile[p] = None => lockFile'[p] = None
      /\ row' = [p \in Periods |-> row'[p]] /\ file' = [f \in Files |-> file'[f]]
      /\ lockFile' = [p \in Periods |-> lockFile'[p]]
  BY DEF Tick
<1>5. ReportsTypeOK'
  <2>1. row' \in [Periods -> Rows \cup {None}]
    BY <1>1, <1>4
  <2>2. file' \in [Files -> Contents \cup {None}]
    BY <1>2, <1>4
  <2>3. lockFile' \in [Periods -> Locks \cup {None}]
    BY <1>3, <1>4
  <2> QED BY <1>4, <2>1, <2>2, <2>3 DEF IInv, ReportsTypeOK
<1>6. ASSUME NEW w \in Workers, pc[w] # "idle", Linked(job[w].period, job[w].inode)
      PROVE  Linked(job[w].period, job[w].inode)'
  BY <1>3, <1>4, <1>6, HoldsOwn DEF Linked
<1> QED BY <1>1, <1>2, <1>4, <1>5, <1>6, Aged

LEMMA CleanupStep == ASSUME IInv, Cleanup \/ CrashCleanup PROVE IInv'
<1>1. CASE CleanRows
  <2>1. /\ UNCHANGED <<file, lockFile, pc, job, doomed, undercut, crashes>>
        /\ \A p \in Periods : row'[p] # None => row'[p] = row[p]
    BY <1>1 DEF CleanRows
  <2>2. ReportsTypeOK'
    <3>1. row' \in [Periods -> Rows \cup {None}]
      BY <1>1 DEF CleanRows, IInv, ReportsTypeOK
    <3>2. sweep' \in SUBSET (Files \cup Periods) /\ cleaning' \in BOOLEAN
      BY <1>1 DEF CleanRows, Listed
    <3> QED BY <2>1, <3>1, <3>2 DEF IInv, ReportsTypeOK
  <2> QED BY <2>1, <2>2, Aged DEF Linked
<1>2. CASE Unlink
  <2>1. /\ UNCHANGED <<row, lockFile, pc, job, cleaning, sweep, undercut, crashes>>
        /\ file' \in [Files -> Contents \cup {None}] /\ doomed' = None
        /\ \A f \in Files : file'[f] # None => file'[f] = file[f]
    BY <1>2 DEF Unlink, IInv, ReportsTypeOK
  <2>2. ReportsTypeOK'
    BY <2>1 DEF IInv, ReportsTypeOK
  <2> QED BY <2>1, <2>2, Aged DEF Linked
<1>3. CASE UnlinkLock
  <2>1. /\ UNCHANGED <<row, file, pc, job, cleaning, sweep, crashes>> /\ doomed' = None
        /\ doomed \in Periods /\ undercut \subseteq undercut' /\ undercut' \in SUBSET Periods
        /\ lockFile' \in [Periods -> Locks \cup {None}]
        /\ \A p \in Periods : p # doomed => lockFile'[p] = lockFile[p]
        /\ \A w \in Workers : job[w].period = doomed => doomed \in undercut'
    BY <1>3 DEF UnlinkLock, IInv, ReportsTypeOK
  <2>2. ReportsTypeOK'
    BY <2>1 DEF IInv, ReportsTypeOK
  <2>3. ASSUME NEW w \in Workers, pc[w] # "idle", job[w].period \notin undercut',
               Linked(job[w].period, job[w].inode)
        PROVE  Linked(job[w].period, job[w].inode)'
    BY <2>1, <2>3, HoldsOwn DEF Linked
  <2> QED BY <2>1, <2>2, <2>3, Aged
<1>4. CASE (\E f \in Files \cup Periods : Look(f)) \/ EndCleanup \/ CrashCleanup
  <2>1. UNCHANGED <<row, file, lockFile, pc, job, undercut>>
    BY <1>4 DEF Look, EndCleanup, CrashCleanup
  <2>2. /\ sweep' \in SUBSET (Files \cup Periods) /\ doomed' \in Files \cup Periods \cup {None}
        /\ crashes' \in 0..MaxCrashes
    BY <1>4, BoundsAssumption DEF Look, EndCleanup, CrashCleanup, IInv, ReportsTypeOK
  <2>3. cleaning' \in BOOLEAN
    BY <1>4 DEF Look, EndCleanup, CrashCleanup, IInv, ReportsTypeOK
  <2>4. ReportsTypeOK'
    BY <2>1, <2>2, <2>3 DEF IInv, ReportsTypeOK
  <2> QED BY <2>1, <2>4, Aged DEF Linked
<1> QED BY <1>1, <1>2, <1>3, <1>4 DEF Cleanup

-----------------------------------------------------------------------------
LEMMA NextIInv == IInv /\ [ReportsNext]_reportVars => IInv'
<1> SUFFICES ASSUME IInv, [ReportsNext]_reportVars PROVE IInv'
  OBVIOUS
<1>1. ASSUME NEW w \in Workers, NEW p \in Periods, NEW s \in Details, Open(w, p, s) PROVE IInv'
  BY <1>1, OpenStep
<1>2. ASSUME NEW w \in Workers, Generation(w) \/ Crash(w) PROVE IInv'
  BY <1>2, FlockStep, ReadStep, SaveStep, WriteFileStep, HashStep, MarkSucceededStep, FailStep,
     MarkFailedStep, StopStep DEF Generation
<1>3. CASE Cleanup \/ CrashCleanup
  BY <1>3, CleanupStep
<1>4. CASE Tick
  BY <1>4, TickStep
<1>5. CASE UNCHANGED reportVars
  <2>1. ReportsTypeOK' /\ UNCHANGED <<lockFile, pc, job, row, file, undercut>>
    BY <1>5 DEF reportVars, IInv, ReportsTypeOK
  <2> QED BY <2>1, Aged DEF Linked
<1> QED BY <1>1, <1>2, <1>3, <1>4, <1>5 DEF ReportsNext

(* Whatever generations, clean-ups and dying workers do to the report      *)
(* centre, its rows, files and locks keep their types and fit together.    *)
THEOREM ReportsInvariant == ReportsSpec => []IInv
BY InitIInv, NextIInv, PTL DEF ReportsSpec

(* A succeeded row's hashes and its mark of sensitivity are those of the   *)
(* files that are there (ReportService.generate, mark_succeeded), through  *)
(* any number of repeated, failed and killed generations, unless a         *)
(* clean-up unlinks the period's lock file under one of them.              *)
THEOREM RowsTellTheTruth == ReportsSpec => []RecordsTrue
<1>1. IInv => RecordsTrue
  BY DEF IInv
<1> QED BY <1>1, ReportsInvariant, PTL

(* Two generations write the same files only in a period whose lock file   *)
(* clean-up has unlinked under one of them (_cleanup_expired_files).       *)
THEOREM WritersExclusive == ReportsSpec => []OneWriterUnlessUndercut
<1>1. IInv => OneWriterUnlessUndercut
  <2> SUFFICES ASSUME IInv, NEW v \in Workers, NEW w \in Workers, v # w,
                      pc[v] \in {"write", "record"}, pc[w] \in {"write", "record"},
                      job[v].id = job[w].id, job[w].period \notin undercut
               PROVE  FALSE
    BY DEF OneWriterUnlessUndercut
  <2>1. Holds(v) /\ Holds(w) /\ job[v].id \in Ids /\ job[v].id # None
    BY HoldsOwn, Constants
  <2>2. job[v].period = job[w].period
    BY <2>1 DEF IInv, JobsApart
  <2> QED BY <2>1, <2>2, Excluded
<1> QED BY <1>1, ReportsInvariant, PTL

-----------------------------------------------------------------------------
(* The figures of reports (ReportFigures).                                 *)
(* A set of naturals has a least element, which serves as induction here.  *)
LEMMA LeastNatural ==
    ASSUME NEW S \in SUBSET Nat, S # {}
    PROVE  \E m \in S : \A n \in S : m <= n
<1> DEFINE R == {p \in Nat \X Nat : p[1] < p[2]}
<1>1. IsWellFoundedOn(R, Nat)
  BY NatLessThanWellFounded DEF OpToRel
<1>2. \A m, n \in Nat : n < m => <<n, m>> \in R
  OBVIOUS
<1> HIDE DEF R
<1>3. PICK m \in S : \A n \in S : <<n, m>> \notin R
  BY <1>1, WFMin
<1>4. \A n \in S : ~(n < m)
  BY <1>2, <1>3
<1> QED BY <1>4

(* The sum of a function's values, as MapThenSumSet takes them.            *)
SumOf(trend) == MapThenSumSet(LAMBDA b : trend[b], DOMAIN trend)
Chosen(s) == CHOOSE x \in s : TRUE
Summed(g, trend, s) == IF s = {} THEN 0 ELSE trend[Chosen(s)] + g[s \ {Chosen(s)}]

LEMMA SumUnfolds ==
    ASSUME NEW trend
    PROVE  SumOf(trend) =
             (CHOOSE g : g = [s \in SUBSET (DOMAIN trend) |-> Summed(g, trend, s)])[DOMAIN trend]
BY DEF SumOf, MapThenSumSet, MapThenFoldSet, Summed, Chosen

(* A function on the sets of indices that adds an index's value for each   *)
(* index tells the sum.                                                    *)
Adds(total, trend) ==
    /\ total = [s \in SUBSET (DOMAIN trend) |-> total[s]]
    /\ total[{}] = 0
    /\ \A s \in SUBSET (DOMAIN trend) : \A x \in s : total[s] = trend[x] + total[s \ {x}]

LEMMA SumIs ==
    ASSUME NEW trend, IsFiniteSet(DOMAIN trend), NEW total, Adds(total, trend)
    PROVE  SumOf(trend) = total[DOMAIN trend]
<1> DEFINE D == DOMAIN trend
           f == CHOOSE g : g = [s \in SUBSET D |-> Summed(g, trend, s)]
<1>1. SumOf(trend) = f[D]
  BY SumUnfolds
<1> HIDE DEF D
<1>2. \A s : s # {} => Chosen(s) \in s
  BY DEF Chosen
<1>3. \A s \in SUBSET D : total[s] = Summed(total, trend, s)
  BY <1>2 DEF Adds, Summed, D
<1>4. total = [s \in SUBSET D |-> Summed(total, trend, s)]
  <2>1. total = [s \in SUBSET D |-> total[s]]
    BY DEF Adds, D
  <2> QED BY <1>3, <2>1
<1>5. f = [s \in SUBSET D |-> Summed(f, trend, s)]
  BY <1>4
<1> HIDE DEF f
<1>6. \A s \in SUBSET D : f[s] = Summed(f, trend, s)
  BY <1>5
<1> DEFINE Bad == {n \in Nat : \E s \in SUBSET D : Cardinality(s) = n /\ f[s] # total[s]}
<1>7. Bad = {}
  <2> SUFFICES ASSUME Bad # {} PROVE FALSE
    OBVIOUS
  <2>1. Bad \in SUBSET Nat
    OBVIOUS
  <2>2. PICK n \in Bad : \A k \in Bad : n <= k
    <3> HIDE DEF Bad
    <3> QED BY <2>1, LeastNatural
  <2>3. PICK s \in SUBSET D : Cardinality(s) = n /\ f[s] # total[s]
    OBVIOUS
  <2>4. s # {}
    BY <1>3, <1>6, <2>3 DEF Summed
  <2> DEFINE rest == s \ {Chosen(s)}
  <2>5. Chosen(s) \in s /\ rest \in SUBSET D
    BY <1>2, <2>4
  <2>6. IsFiniteSet(s)
    BY FS_Subset DEF D
  <2>7. Cardinality(rest) = n - 1 /\ n \in Nat
    BY <2>3, <2>5, <2>6, FS_RemoveElement, FS_CardinalityType
  <2>8. Cardinality(rest) \in Nat
    BY <2>6, FS_Subset, FS_CardinalityType
  <2>9. Cardinality(rest) \notin Bad
    <3>1. ~(n <= n - 1)
      BY <2>7
    <3> HIDE DEF Bad
    <3> QED BY <2>2, <2>7, <3>1
  <2>10. f[rest] = total[rest]
    BY <2>5, <2>8, <2>9
  <2>11. Summed(f, trend, s) = Summed(total, trend, s)
    BY <2>4, <2>10 DEF Summed
  <2> QED BY <1>3, <1>6, <2>3, <2>11
<1>8. IsFiniteSet(D)
  BY DEF D
<1>9. Cardinality(D) \in Nat /\ Cardinality(D) \notin Bad /\ D \in SUBSET D
  BY <1>7, <1>8, FS_CardinalityType
<1>10. f[D] = total[D]
  BY <1>9
<1> QED BY <1>1, <1>10 DEF D

(* The numbers of the members of a finite set by what they are counted     *)
(* under add up to the number of members.                                  *)
LEMMA CountsAddUp ==
    ASSUME NEW A, IsFiniteSet(A), NEW key
    PROVE  SumOf([b \in {key[i] : i \in A} |-> Cardinality({i \in A : key[i] = b})]) = Cardinality(A)
<1> DEFINE D == {key[i] : i \in A}
           Of(s) == {i \in A : key[i] \in s}
           trend == [b \in D |-> Cardinality({i \in A : key[i] = b})]
           total == [s \in SUBSET D |-> Cardinality(Of(s))]
<1>1. IsFiniteSet(D)
  <2> DEFINE h == [i \in A |-> key[i]]
  <2>1. h \in Surjection(A, D)
    BY DEF Surjection
  <2> HIDE DEF h, D
  <2> QED BY <2>1, FS_Surjection
<1>2. DOMAIN trend = D /\ \A b \in D : trend[b] = Cardinality({i \in A : key[i] = b})
  OBVIOUS
<1>3. \A s \in SUBSET D : total[s] = Cardinality(Of(s))
  OBVIOUS
<1>4. total[{}] = 0
  <2>1. Of({}) = {} /\ {} \in SUBSET D
    OBVIOUS
  <2> HIDE DEF Of, D, total
  <2> QED BY <1>3, <2>1, FS_EmptySet
<1>5. ASSUME NEW s \in SUBSET D, NEW x \in s
      PROVE  total[s] = trend[x] + total[s \ {x}]
  <2> DEFINE here == {i \in A : key[i] = x}
             rest == s \ {x}
  <2>1. x \in D /\ rest \in SUBSET D
    OBVIOUS
  <2>2. Of(s) = here \cup Of(rest) /\ here \cap Of(rest) = {}
    OBVIOUS
  <2>3. here \in SUBSET A /\ Of(rest) \in SUBSET A
    OBVIOUS
  <2>4. trend[x] = Cardinality(here)
    BY <1>2, <2>1
  <2>5. total[s] = Cardinality(Of(s)) /\ total[rest] = Cardinality(Of(rest))
    BY <1>3, <2>1
  <2> HIDE DEF here, Of, trend, total
  <2>6. IsFiniteSet(here) /\ IsFiniteSet(Of(rest))
    BY <2>3, FS_Subset
  <2>7. Cardinality(here) \in Nat /\ Cardinality(Of(rest)) \in Nat
    BY <2>6, FS_CardinalityType
  <2>8. Cardinality(Of(s)) = Cardinality(here) + Cardinality(Of(rest)) - Cardinality({})
    BY <2>2, <2>6, FS_Union
  <2> QED BY <2>4, <2>5, <2>7, <2>8, FS_EmptySet
<1>6. total = [s \in SUBSET D |-> total[s]]
  OBVIOUS
<1>7. total[D] = Cardinality(A)
  <2>1. Of(D) = A /\ D \in SUBSET D
    OBVIOUS
  <2> QED BY <1>3, <2>1
<1> HIDE DEF trend, total
<1>8. Adds(total, trend)
  <2> HIDE DEF D
  <2> QED BY <1>2, <1>4, <1>5, <1>6 DEF Adds
<1>9. SumOf(trend) = total[D]
  <2> HIDE DEF D
  <2> QED BY <1>1, <1>2, <1>8, SumIs
<1> QED BY <1>7, <1>9 DEF trend

-----------------------------------------------------------------------------
(* The calendar.                                                           *)
LEMMA MonthsBefore == \A m \in Months : DaysBefore[m] \in Nat
BY DEF Months, DaysBefore

LEMMA NumberType ==
    ASSUME NEW y \in Int, NEW m \in Months, NEW d \in Int
    PROVE  Number(y, m, d) \in Int
<1>1. DaysBefore[m] \in Nat
  BY MonthsBefore
<1> QED BY <1>1 DEF Number, IsLeap

LEMMA DaysOn ==
    ASSUME NEW y \in Int, NEW m \in Months, NEW d \in Int
    PROVE  Number(y, m, d) = Number(y, m, 1) + d - 1
<1>1. DaysBefore[m] \in Nat
  BY MonthsBefore
<1> QED BY <1>1 DEF Number, IsLeap

LEMMA MonthTurns ==
    ASSUME NEW y \in Int, NEW m \in Months, m < 12
    PROVE  m + 1 \in Months /\ MonthLength(y, m) >= 28
           /\ Number(y, m + 1, 1) = Number(y, m, 1) + MonthLength(y, m)
<1>1. m \in 1..12 /\ m + 1 \in Months
  BY DEF Months
<1>2. MonthLength(y, m) = Number(y, m + 1, 1) - Number(y, m, 1)
  BY <1>1 DEF MonthLength
<1>3. DaysBefore[m + 1] - DaysBefore[m] >= 28
  BY <1>1 DEF DaysBefore
<1>4. Number(y, m, 1) \in Int /\ Number(y, m + 1, 1) \in Int
  <2>1. m \in Months
    OBVIOUS
  <2>2. 1 \in Int
    OBVIOUS
  <2> QED BY <1>1, <2>1, <2>2, NumberType
<1>5. Number(y, m + 1, 1) - Number(y, m, 1) >= 28
  <2>1. DaysBefore[m] \in Nat /\ DaysBefore[m + 1] \in Nat
    BY <1>1, MonthsBefore
  <2> QED BY <1>1, <1>3, <2>1 DEF Number, IsLeap
<1> QED BY <1>1, <1>2, <1>4, <1>5

LEMMA YearTurns ==
    ASSUME NEW y \in Int
    PROVE  Number(y + 1, 1, 1) = Number(y, 12, 1) + 31
<1>1. DaysBefore[1] = 0 /\ DaysBefore[12] = 334
  BY DEF DaysBefore
<1>2. (y - 2016) \div 4 = (y - 2017) \div 4 + (IF y % 4 = 0 THEN 1 ELSE 0)
  OBVIOUS
<1>3. y + 1 - 2017 = y - 2016
  OBVIOUS
<1> QED BY <1>1, <1>2, <1>3 DEF Number, IsLeap

(* A date, and the next one.                                               *)
Dates == [year : Int, month : Months, day : Int]
IsDate(date) == date \in Dates /\ 1 <= date.day /\ date.day <= MonthLength(date.year, date.month)

LEMMA LengthType ==
    ASSUME NEW y \in Int, NEW m \in Months
    PROVE  MonthLength(y, m) \in Int /\ MonthLength(y, m) >= 28
<1>1. CASE m = 12
  BY <1>1 DEF MonthLength
<1>2. CASE m # 12
  <2>1. m < 12 /\ m \in Int
    BY <1>2 DEF Months
  <2>2. MonthLength(y, m) = Number(y, m + 1, 1) - Number(y, m, 1)
    BY <1>2 DEF MonthLength
  <2>3. m + 1 \in Months /\ MonthLength(y, m) >= 28
    BY <2>1, MonthTurns
  <2>4. 1 \in Int
    OBVIOUS
  <2>5. Number(y, m, 1) \in Int /\ Number(y, m + 1, 1) \in Int
    BY <2>3, <2>4, NumberType
  <2> QED BY <2>2, <2>3, <2>5
<1> QED BY <1>1, <1>2

(* Tomorrow's number is one more than today's, and tomorrow is the first of *)
(* a month exactly when today is the last of one.                           *)
LEMMA TomorrowIsNext ==
    ASSUME IsDate(today)
    PROVE  /\ IsDate(Tomorrow)
           /\ Number(Tomorrow.year, Tomorrow.month, Tomorrow.day)
                 = Number(today.year, today.month, today.day) + 1
           /\ Tomorrow.day # 1 => /\ Tomorrow.year = today.year /\ Tomorrow.month = today.month
                                  /\ Tomorrow.day = today.day + 1
           /\ Tomorrow.day = 1 =>
                 /\ today.year = IF Tomorrow.month > 1 THEN Tomorrow.year ELSE Tomorrow.year - 1
                 /\ today.month = IF Tomorrow.month > 1 THEN Tomorrow.month - 1 ELSE 12
<1> DEFINE y == today.year
           m == today.month
           d == today.day
<1>1. y \in Int /\ m \in Months /\ d \in Int /\ 1 <= d /\ d <= MonthLength(y, m)
  BY DEF IsDate, Dates
<1>2. MonthLength(y, m) \in Int /\ 1 \in Int
  BY <1>1, LengthType
<1>3. Number(y, m, d) = Number(y, m, 1) + d - 1 /\ Number(y, m, 1) \in Int
  BY <1>1, <1>2, NumberType, DaysOn
<1>4. CASE d < MonthLength(y, m)
  <2>1. Tomorrow = [today EXCEPT !.day = @ + 1]
    BY <1>4 DEF Tomorrow
  <2>2. Tomorrow.year = y /\ Tomorrow.month = m /\ Tomorrow.day = d + 1 /\ Tomorrow \in Dates
    BY <1>1, <2>1 DEF IsDate, Dates
  <2>3. IsDate(Tomorrow)
    BY <1>1, <1>2, <1>4, <2>2 DEF IsDate
  <2>4. Number(y, m, d + 1) = Number(y, m, 1) + d + 1 - 1
    <3>1. d + 1 \in Int
      BY <1>1
    <3>2. Number(y, m, d + 1) = Number(y, m, 1) + (d + 1) - 1
      BY <1>1, <3>1, DaysOn
    <3> QED BY <1>1, <1>3, <3>2
  <2> QED BY <1>1, <1>3, <2>2, <2>3, <2>4
<1>5. CASE ~(d < MonthLength(y, m))
  <2>1. d = MonthLength(y, m)
    BY <1>1, <1>2, <1>5
  <2> DEFINE ny == IF m = 12 THEN y + 1 ELSE y
             nm == IF m = 12 THEN 1 ELSE m + 1
  <2>2. Tomorrow = [year |-> ny, month |-> nm, day |-> 1]
    BY <1>5 DEF Tomorrow
  <2>3. ny \in Int /\ nm \in Months /\ Number(ny, nm, 1) = Number(y, m, 1) + d
    <3>1. CASE m = 12
      <4>1. MonthLength(y, m) = 31
        BY <3>1 DEF MonthLength
      <4>2. 1 \in Months
        BY DEF Months
      <4> QED BY <1>1, <2>1, <3>1, <4>1, <4>2, YearTurns
    <3>2. CASE m # 12
      <4>1. m < 12
        BY <1>1, <3>2 DEF Months
      <4> QED BY <1>1, <2>1, <3>2, <4>1, MonthTurns
    <3> QED BY <3>1, <3>2
  <2>4. /\ y = IF nm > 1 THEN ny ELSE ny - 1
        /\ m = IF nm > 1 THEN nm - 1 ELSE 12
    BY <1>1 DEF Months
  <2> HIDE DEF ny, nm
  <2>5. Tomorrow.year = ny /\ Tomorrow.month = nm /\ Tomorrow.day = 1 /\ Tomorrow \in Dates
    BY <2>2, <2>3 DEF Dates
  <2>6. IsDate(Tomorrow)
    <3>1. MonthLength(ny, nm) >= 28 /\ MonthLength(ny, nm) \in Int
      BY <2>3, LengthType
    <3> QED BY <2>5, <3>1 DEF IsDate
  <2> QED BY <1>1, <1>3, <2>3, <2>4, <2>5, <2>6
<1> QED BY <1>4, <1>5

(* The year a day falls in can be found as long as the calendar goes.      *)
LEMMA YearExists ==
    ASSUME NEW n \in Int, Number(2019, 1, 1) <= n, n < Number(2101, 1, 1)
    PROVE  YearOf(n) \in 2019..2100
<1> DEFINE Later == {k \in Nat : n < Number(2020 + k, 1, 1)}
<1>0. 1 \in Months
  BY DEF Months
<1>1. 81 \in Later
  OBVIOUS
<1>2. PICK k \in Later : \A j \in Later : k <= j
  <2>1. Later \in SUBSET Nat
    OBVIOUS
  <2> HIDE DEF Later
  <2> QED BY <1>1, <2>1, LeastNatural
<1>3. k \in Nat /\ n < Number(2020 + k, 1, 1) /\ k <= 81
  BY <1>1, <1>2
<1>4. Number(2019 + k, 1, 1) <= n
  <2>1. CASE k = 0
    BY <2>1
  <2>2. CASE k # 0
    <3>1. k - 1 \in Nat /\ ~(k <= k - 1)
      BY <1>3, <2>2
    <3>2. k - 1 \notin Later
      <4> HIDE DEF Later
      <4> QED BY <1>2, <3>1
    <3>3. ~(n < Number(2020 + (k - 1), 1, 1))
      BY <3>1, <3>2
    <3>4. 2020 + (k - 1) = 2019 + k
      BY <1>3
    <3>5. Number(2019 + k, 1, 1) \in Int
      BY <1>0, <1>3, NumberType
    <3> QED BY <3>3, <3>4, <3>5
  <2> QED BY <2>1, <2>2
<1> DEFINE y == 2019 + k
<1>5. y \in 2019..2100 /\ Number(y, 1, 1) <= n /\ n < Number(y + 1, 1, 1)
  <2>1. y + 1 = 2020 + k
    BY <1>3
  <2> QED BY <1>3, <1>4, <2>1
<1> HIDE DEF y
<1> QED BY <1>5 DEF YearOf

-----------------------------------------------------------------------------
(* The period of each type that began last, up to today.                   *)
Turn(t) == CASE t = "daily"   -> day
             [] t = "weekly"  -> day - Weekday(day)
             [] t = "monthly" -> day - (today.day - 1)

OnCalendar ==
    /\ IsDate(today) /\ day = Number(today.year, today.month, today.day)
    /\ day \in Nat /\ limit \in Int /\ day <= limit /\ limit < Number(2100, 1, 1)
    /\ slot \in Nat /\ slot < Slots

PeriodOK(t) == LET p == PeriodFor(t) IN
    /\ p.start \in Int /\ p.end \in Int /\ p.start <= p.end /\ p.end <= day
    /\ p.end = Turn(t)
    /\ PeriodFromValues(t, p.label) = p

LEMMA DailyOK == ASSUME OnCalendar PROVE PeriodOK("daily")
<1>1. PeriodFor("daily") = [type |-> "daily", start |-> day - 1, end |-> day, label |-> <<day - 1>>]
  BY DEF PeriodFor, Daily
<1>2. Turn("daily") = day /\ day \in Nat
  BY DEF Turn, OnCalendar
<1>3. PeriodFromValues("daily", <<day - 1>>)
        = [type |-> "daily", start |-> day - 1, end |-> day - 1 + 1, label |-> <<day - 1>>]
  BY DEF PeriodFromValues
<1>4. day - 1 + 1 = day
  BY <1>2
<1> QED BY <1>1, <1>2, <1>3, <1>4 DEF PeriodOK

LEMMA WeeklyOK == ASSUME OnCalendar PROVE PeriodOK("weekly")
<1> DEFINE monday == day - (Weekday(day) + 7)
           year == IsoYear(monday)
           week == IsoWeek(monday)
           first == FirstMonday(year)
<1>1. day \in Nat /\ day < Number(2100, 1, 1) /\ Number(2100, 1, 1) \in Int
  <2>1. 1 \in Months /\ 2100 \in Int /\ 1 \in Int
    BY DEF Months
  <2>2. Number(2100, 1, 1) \in Int
    BY <2>1, NumberType
  <2> QED BY <2>2 DEF OnCalendar
<1>2. Weekday(day) \in 0..6 /\ monday \in Int /\ Weekday(monday) = 0
  BY <1>1 DEF Weekday
<1>3. PeriodFor("weekly")
        = [type |-> "weekly", start |-> monday, end |-> monday + 7, label |-> <<year, week>>]
  BY DEF PeriodFor, Weekly
<1>4. Turn("weekly") = day - Weekday(day)
  BY DEF Turn
<1>5. year \in 2019..2100
  <2>1. Number(2019, 1, 1) = -365 /\ Number(2101, 1, 1) = 365 + Number(2100, 1, 1) + 1
    BY DEF Number, IsLeap, DaysBefore
  <2>2. Number(2019, 1, 1) <= monday + 3 /\ monday + 3 < Number(2101, 1, 1) /\ monday + 3 \in Int
    BY <1>1, <1>2, <2>1
  <2> QED BY <2>2, YearExists DEF IsoYear
<1> HIDE DEF year
<1>6. first \in Int /\ Weekday(first) = 0
  <2>1. 1 \in Months /\ year \in Int /\ 4 \in Int
    BY <1>5 DEF Months
  <2>2. Number(year, 1, 4) \in Int
    BY <2>1, NumberType
  <2> QED BY <2>2 DEF FirstMonday, Weekday
<1>7. week = (monday - first) \div 7 + 1
  BY DEF IsoWeek, year
<1> HIDE DEF first, monday, week
<1>8. week \in Int /\ first + 7 * (week - 1) = monday
  BY <1>2, <1>6, <1>7 DEF Weekday
<1>9. PeriodFromValues("weekly", <<year, week>>)
        = [type |-> "weekly", start |-> first + 7 * (week - 1),
           end |-> first + 7 * (week - 1) + 7, label |-> <<year, week>>]
  BY DEF PeriodFromValues, first
<1>10. monday + 7 = day - Weekday(day) /\ monday + 7 <= day
  BY <1>1, <1>2 DEF monday
<1>11. /\ PeriodFor("weekly").start = monday /\ PeriodFor("weekly").end = monday + 7
       /\ PeriodFor("weekly").label = <<year, week>>
  BY <1>3
<1>12. PeriodFromValues("weekly", <<year, week>>) = PeriodFor("weekly")
  BY <1>3, <1>8, <1>9
<1>13. monday <= monday + 7 /\ monday + 7 \in Int
  BY <1>2
<1> QED BY <1>2, <1>4, <1>10, <1>11, <1>12, <1>13 DEF PeriodOK

LEMMA MonthlyOK == ASSUME OnCalendar PROVE PeriodOK("monthly")
<1> DEFINE year == IF today.month > 1 THEN today.year ELSE today.year - 1
           month == IF today.month > 1 THEN today.month - 1 ELSE 12
           first == day - (today.day - 1)
           ny == year + (IF month = 12 THEN 1 ELSE 0)
           nm == IF month = 12 THEN 1 ELSE month + 1
<1>1. /\ today.year \in Int /\ today.month \in Months /\ today.day \in Int /\ 1 <= today.day
      /\ day = Number(today.year, today.month, today.day) /\ day \in Nat
  BY DEF OnCalendar, IsDate, Dates
<1>2. first = Number(today.year, today.month, 1) /\ first \in Int /\ first <= day
  <2>1. day = Number(today.year, today.month, 1) + today.day - 1
    BY <1>1, DaysOn
  <2>2. Number(today.year, today.month, 1) \in Int
    <3>1. 1 \in Int
      OBVIOUS
    <3> QED BY <1>1, <3>1, NumberType
  <2> QED BY <1>1, <2>1, <2>2
<1>3. year \in Int /\ month \in Months /\ ny = today.year /\ nm = today.month
  BY <1>1 DEF Months
<1>4. PeriodFor("monthly") = [type |-> "monthly", start |-> Number(year, month, 1),
                              end |-> first, label |-> <<year, month>>]
  BY DEF PeriodFor, Monthly
<1>5. PeriodFromValues("monthly", <<year, month>>)
        = [type |-> "monthly", start |-> Number(year, month, 1), label |-> <<year, month>>,
           end |-> Number(ny, nm, 1)]
  BY DEF PeriodFromValues
<1>6. Turn("monthly") = first
  BY DEF Turn
<1> HIDE DEF first
<1>7. Number(year, month, 1) \in Int /\ Number(year, month, 1) <= first
  <2>0. 1 \in Int
    OBVIOUS
  <2>1. Number(year, month, 1) \in Int
    BY <1>3, <2>0, NumberType
  <2>2. CASE month = 12
    <3>1. first = Number(year + 1, 1, 1)
      BY <1>2, <1>3, <2>2
    <3>2. Number(year + 1, 1, 1) = Number(year, 12, 1) + 31
      BY <1>3, YearTurns
    <3> QED BY <2>1, <2>2, <3>1, <3>2
  <2>3. CASE month # 12
    <3>1. month < 12 /\ first = Number(year, month + 1, 1)
      BY <1>2, <1>3, <2>3 DEF Months
    <3>2. MonthLength(year, month) >= 28 /\ first = Number(year, month, 1) + MonthLength(year, month)
      BY <1>3, <3>1, MonthTurns
    <3>3. MonthLength(year, month) \in Int
      BY <1>3, LengthType
    <3> HIDE DEF year, month
    <3> QED BY <1>2, <2>1, <3>2, <3>3
  <2> QED BY <2>2, <2>3
<1> HIDE DEF year, month, ny, nm
<1>8. /\ PeriodFor("monthly").start = Number(year, month, 1) /\ PeriodFor("monthly").end = first
      /\ PeriodFor("monthly").label = <<year, month>>
  BY <1>4
<1>9. PeriodFromValues("monthly", <<year, month>>) = PeriodFor("monthly")
  BY <1>2, <1>3, <1>4, <1>5
<1> QED BY <1>2, <1>6, <1>7, <1>8, <1>9 DEF PeriodOK

LEMMA PeriodsOK == ASSUME OnCalendar, NEW t \in Types PROVE PeriodOK(t)
BY DailyOK, WeeklyOK, MonthlyOK DEF Types
-----------------------------------------------------------------------------
FiguresSpec == FiguresInit /\ [][FiguresNext]_figureVars

Entries == [at : Int, action : {"blocked", "warned", "desensitized"},
            level : {"block", "warn", "desensitize"}]
DueOK == /\ due \subseteq Types
         /\ "weekly" \in due => Weekday(day) = 0
         /\ "monthly" \in due => today.day = 1
LogOK == /\ log \in Seq(Entries)
         /\ \A i \in DOMAIN log : log[i].at <= day * Slots + slot
HistoryTypes == /\ since \in [Types -> Int \cup {NoReport}]
                /\ until \in [Types -> Int \cup {NoReport}]
                /\ counted \in [Types -> Nat] /\ lost \in [Types -> Nat] /\ DOMAIN last = Types

(* The audits of the days from one to another.                             *)
Between(from, to) == {i \in DOMAIN log : Within([start |-> from, end |-> to], log[i].at)}

(* The last period of a type ends where its next begins, whether that is   *)
(* over already or not; up to there, every audit was counted or lost.      *)
ReportOK(t) ==
    /\ since[t] = NoReport => counted[t] = 0 /\ lost[t] = 0
    /\ since[t] # NoReport =>
          /\ until[t] = IF t \in due THEN PeriodFor(t).start ELSE Turn(t)
          /\ since[t] <= until[t]
          /\ counted[t] + lost[t] = Cardinality(Between(since[t], until[t]))
    /\ last[t] # NoReport =>
          /\ PeriodFromValues(t, last[t].period.label) = last[t].period
          /\ SumOf(last[t].trend) = last[t].events

FiguresIInv == OnCalendar /\ DueOK /\ LogOK /\ HistoryTypes /\ \A t \in Types : ReportOK(t)

LEMMA Scaled ==
    ASSUME NEW a \in Int, NEW b \in Int, a <= b
    PROVE  a * Slots \in Int /\ b * Slots \in Int /\ a * Slots <= b * Slots
<1>1. Slots \in Int /\ Slots >= 0
  BY FigureBoundsAssumption
<1>2. (b - a) * Slots >= 0
  BY <1>1
<1>3. (b - a) * Slots = b * Slots - a * Slots
  BY <1>1
<1> QED BY <1>1, <1>2, <1>3

LEMMA LogFinite ==
    ASSUME LogOK
    PROVE  IsFiniteSet(DOMAIN log) /\ DOMAIN log = 1..Len(log) /\ Len(log) \in Nat
<1>1. DOMAIN log = 1..Len(log) /\ Len(log) \in Nat
  BY DEF LogOK
<1> QED BY <1>1, FS_Interval

LEMMA FiguresStart == FiguresInit => FiguresIInv
<1> SUFFICES ASSUME FiguresInit PROVE FiguresIInv
  OBVIOUS
<1>1. today \in [year : 2020..2098, month : Months, day : 1..28] /\ today \in Starts
  BY StartsAssumption DEF FiguresInit
<1>2. IsDate(today)
  <2>1. MonthLength(today.year, today.month) \in Int /\ MonthLength(today.year, today.month) >= 28
    BY <1>1, LengthType
  <2> QED BY <1>1, <2>1 DEF IsDate, Dates
<1>3. OnCalendar
  <2>1. day = Number(today.year, today.month, today.day) /\ limit = day + Span /\ slot = 0
    BY DEF FiguresInit
  <2>2. day \in Nat
    <3>1. DaysBefore[today.month] \in Nat
      BY <1>1, MonthsBefore
    <3>2. /\ today.year \in Int /\ today.year >= 2020 /\ today.day \in Int /\ today.day >= 1
      BY <1>1
    <3> QED BY <2>1, <3>1, <3>2 DEF Number, IsLeap
  <2>3. limit < Number(2100, 1, 1)
    BY <1>1, <2>1, CalendarAssumption
  <2> QED BY <1>2, <2>1, <2>2, <2>3, FigureBoundsAssumption DEF OnCalendar
<1>4. DueOK /\ LogOK /\ HistoryTypes
  BY DEF FiguresInit, DueOK, LogOK, HistoryTypes
<1>5. \A t \in Types : ReportOK(t)
  BY DEF FiguresInit, ReportOK
<1> QED BY <1>3, <1>4, <1>5 DEF FiguresIInv

(* An audit is of today, which no report has covered yet.                  *)
LEMMA AuditStep ==
    ASSUME FiguresIInv, NEW hit \in Hits, WriteAudit(hit)
    PROVE  FiguresIInv'
<1> DEFINE now == day * Slots + slot
           entry == [at |-> now, action |-> hit.action, level |-> hit.level]
<1>1. /\ log' = Append(log, entry)
      /\ UNCHANGED <<today, day, slot, limit, due, last, counted, lost, since, until>>
  BY DEF WriteAudit, histories
<1>2. now \in Int
  BY FigureBoundsAssumption DEF FiguresIInv, OnCalendar
<1>3. entry \in Entries
  BY <1>2, HitsAssumption DEF Entries
<1>4. entry.at = now
  OBVIOUS
<1> HIDE DEF entry
<1>5. /\ log' \in Seq(Entries) /\ Len(log) \in Nat /\ Len(log') = Len(log) + 1
      /\ DOMAIN log = 1..Len(log) /\ DOMAIN log' = 1..(Len(log) + 1)
      /\ \A i \in 1..Len(log) : log'[i] = log[i]
      /\ log'[Len(log) + 1] = entry
  BY <1>1, <1>3 DEF FiguresIInv, LogOK
<1>6. LogOK'
  <2>1. \A i \in DOMAIN log : log[i].at <= now
    BY DEF FiguresIInv, LogOK
  <2>2. ASSUME NEW i \in DOMAIN log' PROVE log'[i].at <= now
    <3>1. CASE i = Len(log) + 1
      BY <1>2, <1>4, <1>5, <3>1
    <3>2. CASE i # Len(log) + 1
      <4>1. i \in DOMAIN log
        BY <1>5, <3>2
      <4> QED BY <1>5, <2>1, <4>1
    <3> QED BY <3>1, <3>2
  <2>3. now' = now
    BY <1>1
  <2> HIDE DEF now
  <2>4. \A i \in DOMAIN log' : log'[i].at <= now'
    BY <2>2, <2>3
  <2> QED BY <1>5, <2>4 DEF LogOK, now
<1>7. ASSUME NEW t \in Types PROVE ReportOK(t)'
  <2>1. ReportOK(t)
    BY DEF FiguresIInv
  <2>2. PeriodFor(t)' = PeriodFor(t) /\ Turn(t)' = Turn(t)
    BY <1>1 DEF PeriodFor, Turn, Daily, Weekly, Monthly
  <2>3. ASSUME since[t] # NoReport
        PROVE  Between(since[t], until[t])' = Between(since[t], until[t])
    <3> DEFINE to == until[t]
    <3>1. to \in Int /\ to <= day
      BY <2>1, <2>3, PeriodsOK DEF ReportOK, PeriodOK, FiguresIInv, OnCalendar
    <3>2. to * Slots <= now
      <4>1. day \in Int /\ slot \in Nat
        BY DEF FiguresIInv, OnCalendar
      <4>2. to * Slots <= day * Slots /\ to * Slots \in Int /\ day * Slots \in Int
        BY <3>1, <4>1, Scaled
      <4> QED BY <4>1, <4>2
    <3>3. ~Within([start |-> since[t], end |-> to], entry.at)
      <4>1. to * Slots \in Int
        BY <3>1, Scaled
      <4> QED BY <1>2, <1>4, <3>2, <4>1 DEF Within
    <3>4. to' = to /\ since' = since
      BY <1>1
    <3> HIDE DEF to
    <3> DEFINE In(at) == Within([start |-> since[t], end |-> to], at)
    <3>5. Between(since[t], to) = {i \in DOMAIN log : In(log[i].at)}
      BY DEF Between
    <3>6. Between(since[t], to)' = {i \in DOMAIN log' : In(log'[i].at)}
      BY <3>4 DEF Between, Within
    <3>7. ~In(log'[Len(log) + 1].at)
      BY <1>5, <3>3
    <3> HIDE DEF In
    <3>8. {i \in DOMAIN log' : In(log'[i].at)} = {i \in DOMAIN log : In(log[i].at)}
      BY <1>5, <3>7
    <3> QED BY <3>5, <3>6, <3>8 DEF to
  <2> QED BY <1>1, <2>1, <2>2, <2>3 DEF ReportOK, PeriodFromValues
<1> QED BY <1>1, <1>6, <1>7 DEF FiguresIInv, OnCalendar, DueOK, HistoryTypes

LEMMA LogTyped ==
    ASSUME LogOK
    PROVE  \A i \in DOMAIN log : log[i].at \in Int
<1>1. ASSUME NEW i \in DOMAIN log PROVE log[i].at \in Int
  <2>1. log \in Seq(Entries) /\ DOMAIN log = 1..Len(log)
    BY DEF LogOK
  <2>2. log[i] \in Entries
    BY <2>1
  <2> QED BY <2>2 DEF Entries
<1> QED BY <1>1

(* Time goes on: what is logged stays in the past.                         *)
LEMMA LogStays ==
    ASSUME LogOK, UNCHANGED log, day * Slots + slot \in Int, day' * Slots + slot' \in Int,
           day * Slots + slot <= day' * Slots + slot'
    PROVE  LogOK'
<1> DEFINE now == day * Slots + slot
           then == day' * Slots + slot'
<1>1. /\ log \in Seq(Entries) /\ \A i \in DOMAIN log : log[i].at <= now
      /\ \A i \in DOMAIN log : log[i].at \in Int
  BY LogTyped DEF LogOK
<1>2. now \in Int /\ then \in Int /\ now <= then /\ log' = log
  OBVIOUS
<1> HIDE DEF now
<1>3. then = now'
  BY DEF now
<1> HIDE DEF then
<1>4. \A i \in DOMAIN log' : log'[i].at <= now'
  BY <1>1, <1>2, <1>3
<1> QED BY <1>1, <1>2, <1>4 DEF LogOK, now

LEMMA ReportStays ==
    ASSUME NEW t \in Types, ReportOK(t), UNCHANGED log,
           last'[t] = last[t], counted'[t] = counted[t], lost'[t] = lost[t],
           since'[t] = since[t], until'[t] = until[t],
           (IF t \in due THEN PeriodFor(t).start ELSE Turn(t))
              = (IF t \in due' THEN PeriodFor(t)'.start ELSE Turn(t)')
    PROVE  ReportOK(t)'
<1>1. Between(since[t], until[t])' = Between(since[t], until[t])
  BY DEF Between, Within
<1> QED BY <1>1 DEF ReportOK, PeriodFromValues

LEMMA SlotStep == ASSUME FiguresIInv, NextSlot PROVE FiguresIInv'
<1>1. /\ slot < Slots - 1 /\ slot' = slot + 1 /\ slot \in Nat /\ day \in Nat /\ Slots \in Nat
      /\ UNCHANGED <<today, day, limit, due, log, last, counted, lost, since, until>>
  BY FigureBoundsAssumption DEF NextSlot, FiguresIInv, OnCalendar, histories
<1>2. OnCalendar'
  BY <1>1 DEF FiguresIInv, OnCalendar
<1>3. day * Slots \in Int
  BY <1>1
<1>4. LogOK'
  <2>1. day * Slots + slot \in Int /\ day' * Slots + slot' \in Int
        /\ day * Slots + slot <= day' * Slots + slot'
    BY <1>1, <1>3
  <2> QED BY <1>1, <2>1, LogStays DEF FiguresIInv
<1>5. ASSUME NEW t \in Types PROVE ReportOK(t)'
  <2>1. PeriodFor(t)' = PeriodFor(t) /\ Turn(t)' = Turn(t)
    BY <1>1 DEF PeriodFor, Turn, Daily, Weekly, Monthly
  <2> QED BY <1>1, <2>1, ReportStays DEF FiguresIInv
<1> QED BY <1>1, <1>2, <1>4, <1>5 DEF FiguresIInv, DueOK, HistoryTypes

LEMMA MidnightStep == ASSUME FiguresIInv, NextDay PROVE FiguresIInv'
<1>1. /\ slot = Slots - 1 /\ due = {} /\ day < limit
      /\ slot' = 0 /\ day' = day + 1 /\ today' = Tomorrow
      /\ due' = {"daily"} \cup (IF Weekday(day + 1) = 0 THEN {"weekly"} ELSE {})
                  \cup (IF Tomorrow.day = 1 THEN {"monthly"} ELSE {})
      /\ UNCHANGED <<limit, log, last, counted, lost, since, until>>
  BY DEF NextDay, histories
<1>2. /\ OnCalendar /\ IsDate(today) /\ day \in Nat /\ limit \in Int /\ slot \in Nat
      /\ day = Number(today.year, today.month, today.day)
  BY DEF FiguresIInv, OnCalendar
<1>3. /\ IsDate(Tomorrow)
      /\ Number(Tomorrow.year, Tomorrow.month, Tomorrow.day) = day + 1
      /\ Tomorrow.day # 1 => /\ Tomorrow.year = today.year /\ Tomorrow.month = today.month
                             /\ Tomorrow.day = today.day + 1
      /\ Tomorrow.day = 1 =>
            /\ today.year = IF Tomorrow.month > 1 THEN Tomorrow.year ELSE Tomorrow.year - 1
            /\ today.month = IF Tomorrow.month > 1 THEN Tomorrow.month - 1 ELSE 12
  BY <1>2, TomorrowIsNext
<1>4. OnCalendar'
  <2>1. IsDate(today)'
    BY <1>1, <1>3 DEF IsDate, MonthLength, Number, IsLeap
  <2>2. day' = Number(today'.year, today'.month, today'.day)
    BY <1>1, <1>3
  <2>3. day' \in Nat /\ limit' \in Int /\ day' <= limit' /\ slot' \in Nat /\ slot' < Slots
    BY <1>1, <1>2, FigureBoundsAssumption
  <2>4. limit' < Number(2100, 1, 1)
    BY <1>1 DEF FiguresIInv, OnCalendar
  <2> QED BY <2>1, <2>2, <2>3, <2>4 DEF OnCalendar
<1>5. DueOK'
  BY <1>1 DEF DueOK, Types, Weekday
<1>6. LogOK'
  <2>1. day' * Slots = day * Slots + Slots /\ day * Slots \in Int /\ Slots \in Nat
    <3>1. Slots \in Nat /\ day \in Int
      BY <1>2, FigureBoundsAssumption
    <3>2. (day + 1) * Slots = day * Slots + Slots /\ day * Slots \in Int
      BY <3>1
    <3> QED BY <1>1, <3>1, <3>2
  <2>2. day * Slots + slot \in Int /\ day' * Slots + slot' \in Int
        /\ day * Slots + slot <= day' * Slots + slot'
    BY <1>1, <1>2, <2>1
  <2> QED BY <1>1, <2>2, LogStays DEF FiguresIInv
<1>7. Turn("daily") = IF "daily" \in due' THEN PeriodFor("daily")'.start ELSE Turn("daily")'
  BY <1>1, <1>2 DEF Turn, PeriodFor, Daily
<1>8. Turn("weekly") = IF "weekly" \in due' THEN PeriodFor("weekly")'.start ELSE Turn("weekly")'
  <2>1. "weekly" \in due' <=> Weekday(day + 1) = 0
    BY <1>1
  <2>2. /\ Turn("weekly") = day - Weekday(day) /\ Turn("weekly")' = day + 1 - Weekday(day + 1)
        /\ PeriodFor("weekly")'.start = day + 1 - (Weekday(day + 1) + 7)
    <3>1. Turn("weekly") = day - Weekday(day) /\ Turn("weekly")' = day' - Weekday(day')
      BY DEF Turn, Weekday
    <3>3. PeriodFor("weekly")'.start = day' - (Weekday(day') + 7)
      BY DEF PeriodFor, Weekly, Weekday
    <3>4. day' = day + 1 /\ day \in Int /\ Weekday(day + 1) \in Int
      BY <1>1, <1>2 DEF Weekday
    <3>5. Weekday(day') = Weekday(day + 1)
      BY <3>4
    <3> QED BY <3>1, <3>3, <3>4, <3>5
  <2>3. Weekday(day + 1) = IF Weekday(day) = 6 THEN 0 ELSE Weekday(day) + 1
    BY <1>2 DEF Weekday
  <2>4. Weekday(day) \in 0..6
    BY <1>2 DEF Weekday
  <2> QED BY <1>2, <2>1, <2>2, <2>3, <2>4
<1>9. Turn("monthly") = IF "monthly" \in due' THEN PeriodFor("monthly")'.start ELSE Turn("monthly")'
  <2>1. "monthly" \in due' <=> Tomorrow.day = 1
    BY <1>1
  <2>2. Turn("monthly") = day - (today.day - 1) /\ Turn("monthly")' = day + 1 - (Tomorrow.day - 1)
    <3>1. Turn("monthly") = day - (today.day - 1) /\ Turn("monthly")' = day' - (today'.day - 1)
      BY DEF Turn
    <3>2. day' = day + 1 /\ today'.day = Tomorrow.day
      BY <1>1
    <3>3. day \in Int /\ Tomorrow.day \in Int
      BY <1>2, <1>3 DEF IsDate, Dates
    <3> QED BY <3>1, <3>2, <3>3
  <2>3. /\ today.year \in Int /\ today.month \in Months /\ today.day \in Int
        /\ Tomorrow.day \in Int
    BY <1>2, <1>3 DEF IsDate, Dates
  <2>4. CASE Tomorrow.day = 1
    <3>1. PeriodFor("monthly")'.start = Number(today.year, today.month, 1)
      <4> DEFINE year == IF Tomorrow.month > 1 THEN Tomorrow.year ELSE Tomorrow.year - 1
                 month == IF Tomorrow.month > 1 THEN Tomorrow.month - 1 ELSE 12
      <4>1. PeriodFor("monthly")'.start = Number(year, month, 1)
        BY <1>1 DEF PeriodFor, Monthly, Number, IsLeap
      <4> QED BY <1>3, <2>4, <4>1
    <3>2. day = Number(today.year, today.month, 1) + today.day - 1
      BY <1>2, <2>3, DaysOn
    <3>3. Number(today.year, today.month, 1) \in Int
      <4>1. 1 \in Int
        OBVIOUS
      <4> QED BY <2>3, <4>1, NumberType
    <3> QED BY <1>2, <2>1, <2>2, <2>3, <2>4, <3>1, <3>2, <3>3
  <2>5. CASE Tomorrow.day # 1
    BY <1>2, <1>3, <2>1, <2>2, <2>3, <2>5
  <2> QED BY <2>4, <2>5
<1>10. ASSUME NEW t \in Types PROVE ReportOK(t)'
  <2>1. Turn(t) = IF t \in due' THEN PeriodFor(t)'.start ELSE Turn(t)'
    <3>1. t = "daily" \/ t = "weekly" \/ t = "monthly"
      BY DEF Types
    <3> QED BY <1>7, <1>8, <1>9, <3>1
  <2>2. (IF t \in due THEN PeriodFor(t).start ELSE Turn(t))
           = (IF t \in due' THEN PeriodFor(t)'.start ELSE Turn(t)')
    BY <1>1, <2>1
  <2> QED BY <1>1, <2>2, ReportStays DEF FiguresIInv
<1> QED BY <1>1, <1>4, <1>5, <1>6, <1>10 DEF FiguresIInv, HistoryTypes

(* A report counts, and puts into one bucket of its trend each, the audits *)
(* of its period, which are disjoint from those counted before.            *)
LEMMA TrendAddsUp ==
    ASSUME LogOK, NEW p
    PROVE  SumOf(Trend(p)) = Cardinality(AuditsOf(p)) /\ Cardinality(AuditsOf(p)) \in Nat
<1> DEFINE A == AuditsOf(p)
           key == [i \in A |-> Bucket(p, log[i].at)]
<1>1. IsFiniteSet(A)
  <2>1. A \in SUBSET DOMAIN log
    BY DEF AuditsOf
  <2> QED BY <2>1, LogFinite, FS_Subset
<1>2. \A i \in A : key[i] = Bucket(p, log[i].at)
  OBVIOUS
<1>3. Trend(p) = [b \in {Bucket(p, log[i].at) : i \in A} |->
                    Cardinality({i \in A : Bucket(p, log[i].at) = b})]
  BY DEF Trend
<1> HIDE DEF A, key
<1>4. {Bucket(p, log[i].at) : i \in A} = {key[i] : i \in A}
  BY <1>2
<1>5. \A b : {i \in A : Bucket(p, log[i].at) = b} = {i \in A : key[i] = b}
  BY <1>2
<1>6. Trend(p) = [b \in {key[i] : i \in A} |-> Cardinality({i \in A : key[i] = b})]
  BY <1>3, <1>4, <1>5
<1>7. SumOf(Trend(p)) = Cardinality(A)
  BY <1>1, <1>6, CountsAddUp
<1> QED BY <1>1, <1>7, FS_CardinalityType DEF A

(* The audits of the period that is over are of no period before.          *)
LEMMA PeriodEndsStep ==
    ASSUME FiguresIInv, NEW t \in Types, PeriodEnds(t, PeriodFor(t)),
           counted'[t] + lost'[t] = counted[t] + lost[t] + Cardinality(AuditsOf(PeriodFor(t))),
           counted' \in [Types -> Nat], lost' \in [Types -> Nat], DOMAIN last' = Types,
           \A u \in Types \ {t} : last'[u] = last[u] /\ counted'[u] = counted[u] /\ lost'[u] = lost[u],
           last'[t] # NoReport =>
               /\ PeriodFromValues(t, last'[t].period.label) = last'[t].period
               /\ SumOf(last'[t].trend) = last'[t].events
    PROVE  FiguresIInv'
<1> DEFINE p == PeriodFor(t)
<1>1. /\ t \in due /\ due' = due \ {t}
      /\ since' = [since EXCEPT ![t] = IF @ = NoReport THEN p.start ELSE @]
      /\ until' = [until EXCEPT ![t] = p.end]
      /\ UNCHANGED <<today, day, slot, limit, log>>
  BY DEF PeriodEnds
<1>2. Cardinality(AuditsOf(p)) \in Nat
  BY TrendAddsUp DEF FiguresIInv
<1>3. p.start \in Int /\ p.end \in Int /\ p.start <= p.end /\ p.end = Turn(t)
  BY PeriodsOK DEF PeriodOK, FiguresIInv
<1>4. \A u \in Types : PeriodFor(u)' = PeriodFor(u) /\ Turn(u)' = Turn(u)
  BY <1>1 DEF PeriodFor, Turn, Daily, Weekly, Monthly
<1>5. HistoryTypes /\ ReportOK(t)
  BY DEF FiguresIInv
<1> HIDE DEF p
<1>6. /\ since'[t] = IF since[t] = NoReport THEN p.start ELSE since[t]
      /\ until'[t] = p.end
      /\ \A u \in Types \ {t} : since'[u] = since[u] /\ until'[u] = until[u]
  BY <1>1, <1>5 DEF HistoryTypes
<1>7. HistoryTypes'
  BY <1>1, <1>3, <1>5 DEF HistoryTypes
<1>8. \A from, to : Between(from, to)' = Between(from, to)
  BY <1>1 DEF Between, Within
<1>9. AuditsOf(p) = Between(p.start, p.end)
  BY DEF AuditsOf, Between, Within
<1>10. counted'[t] + lost'[t] = Cardinality(Between(since'[t], p.end)) /\ since'[t] <= p.end
  <2>1. CASE since[t] = NoReport
    <3>1. counted[t] = 0 /\ lost[t] = 0
      BY <1>5, <2>1 DEF ReportOK
    <3>2. counted'[t] + lost'[t] = Cardinality(AuditsOf(p))
      BY <1>2, <3>1 DEF p
    <3> QED BY <1>3, <1>6, <1>9, <2>1, <3>2
  <2>2. CASE since[t] # NoReport
    <3> DEFINE s == since[t]
               e == p.start
    <3>1. s \in Int /\ s <= e /\ counted[t] + lost[t] = Cardinality(Between(s, e))
      BY <1>1, <1>5, <2>2 DEF ReportOK, HistoryTypes, p
    <3>2. /\ s * Slots \in Int /\ e * Slots \in Int /\ p.end * Slots \in Int
          /\ s * Slots <= e * Slots /\ e * Slots <= p.end * Slots
      BY <1>3, <3>1, Scaled
    <3>3. \A i \in DOMAIN log : log[i].at \in Int
      BY LogTyped DEF FiguresIInv
    <3>4. \A from, to : Between(from, to)
             = {i \in DOMAIN log : from * Slots <= log[i].at /\ log[i].at < to * Slots}
      BY DEF Between, Within
    <3> HIDE DEF s, e
    <3>5. /\ Between(s, p.end) = Between(s, e) \cup Between(e, p.end)
          /\ Between(s, e) \cap Between(e, p.end) = {}
      BY <3>2, <3>3, <3>4
    <3>6. IsFiniteSet(Between(s, e)) /\ IsFiniteSet(Between(e, p.end))
      <4>1. Between(s, e) \in SUBSET DOMAIN log /\ Between(e, p.end) \in SUBSET DOMAIN log
        BY <3>4
      <4> QED BY <4>1, LogFinite, FS_Subset DEF FiguresIInv
    <3>7. Cardinality(Between(s, p.end))
            = Cardinality(Between(s, e)) + Cardinality(Between(e, p.end)) - Cardinality({})
      BY <3>5, <3>6, FS_Union
    <3>8. Cardinality(Between(s, e)) \in Nat /\ Cardinality(Between(e, p.end)) \in Nat
      BY <3>6, FS_CardinalityType
    <3>9. Cardinality(Between(s, p.end)) = Cardinality(Between(s, e)) + Cardinality(AuditsOf(p))
      BY <1>9, <3>7, <3>8, FS_EmptySet DEF e
    <3>10. counted'[t] + lost'[t] = Cardinality(Between(s, p.end))
      BY <3>1, <3>9 DEF p
    <3>11. since'[t] = s
      BY <1>6, <2>2 DEF s
    <3> QED BY <1>3, <3>1, <3>10, <3>11 DEF e
  <2> QED BY <2>1, <2>2
<1>11. since'[t] # NoReport
  BY <1>3, <1>6, NoReportAssumption
<1>12. ReportOK(t)'
  <2>1. t \notin due' /\ Turn(t)' = p.end
    BY <1>1, <1>3, <1>4
  <2>2. Between(since[t], until[t])' = Between(since'[t], p.end)
    BY <1>1, <1>6 DEF Between, Within
  <2>3. ASSUME last'[t] # NoReport
        PROVE  PeriodFromValues(t, last[t].period.label)' = last'[t].period
    <3> DEFINE r == last'[t]
    <3>1. PeriodFromValues(t, r.period.label) = r.period
      BY <2>3
    <3>2. PeriodFromValues(t, last[t].period.label)' = PeriodFromValues(t, r.period.label)
      BY DEF PeriodFromValues
    <3> QED BY <3>1, <3>2
  <2>4. ASSUME last'[t] # NoReport
        PROVE  SumOf(last[t].trend)' = last'[t].events
    BY <2>4
  <2> QED BY <1>6, <1>10, <1>11, <2>1, <2>2, <2>3, <2>4 DEF ReportOK
<1>13. ASSUME NEW u \in Types, u # t PROVE ReportOK(u)'
  <2>1. ReportOK(u) /\ (u \in due' <=> u \in due)
    BY <1>1, <1>13 DEF FiguresIInv
  <2>2. /\ last'[u] = last[u] /\ counted'[u] = counted[u] /\ lost'[u] = lost[u]
        /\ since'[u] = since[u] /\ until'[u] = until[u] /\ log' = log
    BY <1>1, <1>6, <1>13
  <2> QED BY <1>4, <2>1, <2>2, ReportStays
<1>14. OnCalendar' /\ DueOK' /\ LogOK'
  BY <1>1 DEF FiguresIInv, OnCalendar, IsDate, DueOK, LogOK
<1> QED BY <1>7, <1>12, <1>13, <1>14 DEF FiguresIInv

LEMMA GenerateStep ==
    ASSUME FiguresIInv, NEW t \in Types, Generate(t)
    PROVE  FiguresIInv'
<1> DEFINE p == PeriodFor(t)
           figures == Figures(p)
<1>1. /\ PeriodEnds(t, p) /\ last' = [last EXCEPT ![t] = figures]
      /\ counted' = [counted EXCEPT ![t] = @ + figures.events] /\ lost' = lost
  BY DEF Generate
<1>2. /\ figures.period = p /\ figures.events = Cardinality(AuditsOf(p))
      /\ figures.trend = Trend(p)
  BY DEF Figures
<1>3. SumOf(Trend(p)) = Cardinality(AuditsOf(p)) /\ Cardinality(AuditsOf(p)) \in Nat
  BY TrendAddsUp DEF FiguresIInv
<1>4. PeriodFromValues(t, p.label) = p
  BY PeriodsOK DEF PeriodOK, FiguresIInv
<1>5. HistoryTypes
  BY DEF FiguresIInv
<1> HIDE DEF figures, p
<1>6. /\ last'[t] = figures /\ counted'[t] = counted[t] + Cardinality(AuditsOf(p))
      /\ DOMAIN last' = Types /\ counted[t] \in Nat /\ lost[t] \in Nat
      /\ \A u \in Types \ {t} : last'[u] = last[u] /\ counted'[u] = counted[u]
  BY <1>1, <1>2, <1>5 DEF HistoryTypes
<1>7. counted' \in [Types -> Nat] /\ lost' \in [Types -> Nat]
  <2>1. counted[t] + figures.events \in Nat
    BY <1>2, <1>3, <1>6
  <2> QED BY <1>1, <1>5, <2>1 DEF HistoryTypes
<1>8. counted'[t] + lost'[t] = counted[t] + lost[t] + Cardinality(AuditsOf(p))
  BY <1>1, <1>3, <1>6
<1> QED BY <1>1, <1>2, <1>3, <1>4, <1>6, <1>7, <1>8, PeriodEndsStep DEF p

LEMMA MissStep ==
    ASSUME FiguresIInv, NEW t \in Types, Miss(t)
    PROVE  FiguresIInv'
<1> DEFINE p == PeriodFor(t)
           n == Cardinality(AuditsOf(p))
<1>1. /\ PeriodEnds(t, p) /\ last' = [last EXCEPT ![t] = NoReport]
      /\ lost' = [lost EXCEPT ![t] = @ + n] /\ counted' = counted
  BY DEF Miss
<1>2. n \in Nat
  BY TrendAddsUp DEF FiguresIInv
<1>3. HistoryTypes
  BY DEF FiguresIInv
<1> HIDE DEF n
<1>4. /\ last'[t] = NoReport /\ lost'[t] = lost[t] + n
      /\ DOMAIN last' = Types /\ counted[t] \in Nat /\ lost[t] \in Nat
      /\ \A u \in Types \ {t} : last'[u] = last[u] /\ lost'[u] = lost[u]
  BY <1>1, <1>3 DEF HistoryTypes
<1>5. counted' \in [Types -> Nat] /\ lost' \in [Types -> Nat]
  <2>1. lost[t] + n \in Nat
    BY <1>2, <1>4
  <2> QED BY <1>1, <1>3, <2>1 DEF HistoryTypes
<1>6. counted'[t] + lost'[t] = counted[t] + lost[t] + n
  BY <1>1, <1>2, <1>4
<1> QED BY <1>1, <1>4, <1>5, <1>6, PeriodEndsStep DEF n

LEMMA FiguresStep == FiguresIInv /\ [FiguresNext]_figureVars => FiguresIInv'
<1> SUFFICES ASSUME FiguresIInv, [FiguresNext]_figureVars PROVE FiguresIInv'
  OBVIOUS
<1>1. ASSUME NEW hit \in Hits, WriteAudit(hit) PROVE FiguresIInv'
  BY <1>1, AuditStep
<1>2. CASE NextSlot
  BY <1>2, SlotStep
<1>3. CASE NextDay
  BY <1>3, MidnightStep
<1>4. ASSUME NEW t \in Types, Generate(t) \/ Miss(t) PROVE FiguresIInv'
  BY <1>4, GenerateStep, MissStep
<1>5. CASE UNCHANGED figureVars
  <2>1. \A t \in Types : PeriodFor(t)' = PeriodFor(t) /\ Turn(t)' = Turn(t)
    BY <1>5 DEF figureVars, PeriodFor, Turn, Daily, Weekly, Monthly
  <2>2. \A t \in Types : ReportOK(t)'
    BY <1>5, <2>1, ReportStays DEF figureVars, histories, FiguresIInv
  <2> QED BY <1>5, <2>2 DEF figureVars, histories, FiguresIInv, OnCalendar, IsDate, DueOK, LogOK, HistoryTypes
<1> QED BY <1>1, <1>2, <1>3, <1>4, <1>5 DEF FiguresNext

LEMMA CountedImplied == FiguresIInv => CountedOnce
<1> SUFFICES ASSUME FiguresIInv PROVE CountedOnce
  OBVIOUS
<1>1. \A t \in Types : ReportOK(t)
  BY DEF FiguresIInv
<1>2. LabelsParse
  BY <1>1 DEF ReportOK, LabelsParse
<1>3. ASSUME NEW t \in Types, since[t] # NoReport
      PROVE  counted[t] + lost[t] = Cardinality({i \in DOMAIN log :
                 Within([start |-> since[t], end |-> until[t]], log[i].at)})
  BY <1>1, <1>3 DEF ReportOK, Between
<1>4. ASSUME NEW t \in Types, last[t] # NoReport
      PROVE  MapThenSumSet(LAMBDA b : last[t].trend[b], DOMAIN last[t].trend) = last[t].events
  BY <1>1, <1>4 DEF ReportOK, SumOf
<1> QED BY <1>2, <1>3, <1>4 DEF CountedOnce

(* However long the scheduler runs, whenever it starts and whichever of    *)
(* its reports fail or are missed, no audit is counted in two reports of a *)
(* type, and one that is counted in none is of a period whose report was   *)
(* not generated.  In a report, each of its audits is in one bucket of the *)
(* trend; and its label leads back to its period (storage/reports.py,      *)
(* runtime/reports.py).                                                    *)
THEOREM EveryAuditOnce == FiguresSpec => []CountedOnce
<1>1. FiguresSpec => []FiguresIInv
  BY FiguresStart, FiguresStep, PTL DEF FiguresSpec
<1> QED BY <1>1, CountedImplied, PTL
=============================================================================
