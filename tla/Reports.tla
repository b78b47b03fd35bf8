------------------------------ MODULE Reports ------------------------------
(***************************************************************************)
(* The report centre: ReportService (runtime/reports.py) in every worker   *)
(* process, the generated_reports table (storage/reports.py) and the files *)
(* under the reports directory (reports/generator.py).                     *)
(*                                                                         *)
(* A report's period has one row and, named by the row's id, one file per  *)
(* format.  Generations of one period exclude one another by locking a     *)
(* file of the period, which the system unlocks when the worker dies.      *)
(* Clean-up has a lock of its own, so it runs beside the generations; the  *)
(* lock files lie in the directory it sweeps.  Time is counted in days, as *)
(* the age of each row and file, up to the day on which it is out of date. *)
(***************************************************************************)
EXTENDS Naturals, Sequences, FiniteSets

CONSTANTS
    Workers, Periods,
    Formats,       \* the formats in the order they are written
    Ids,           \* bound: row ids; one that left no trace is used again
    Versions,      \* bound: contents a file can have
    Details,       \* whether a report is asked for with sensitive details
    Retention,     \* reports_retention_days, at least 1
    Inodes,        \* bound: lock files there are or somebody has open at once
    MaxCrashes,    \* bound: clean-ups that are cut short
    None

ASSUME FormatsAssumption == Formats \in Seq(STRING) /\ Formats # <<>>
ASSUME BoundsAssumption == /\ Ids \subseteq Nat /\ Versions \subseteq Nat
                           /\ Inodes \subseteq Nat /\ Details \subseteq BOOLEAN
                           /\ Retention \in Nat \ {0} /\ MaxCrashes \in Nat
ASSUME NoneAssumption == None \notin Ids \cup Versions \cup Workers \cup Periods \cup Inodes

VARIABLES
    row,        \* generated_reports: what is stored of each period, or None
    file,       \* the files: content and age of each, or None
    lockFile,   \* the lock file of each period: its inode and age, or None
    pc, job,    \* each worker's generation and its local variables
    cleaning, sweep,  \* whether clean-up runs, and the files it has not looked at
    doomed,     \* a file whose age clean-up has read, and that it will unlink
    undercut,   \* history: periods whose lock file was unlinked under a generation
    crashes

reportVars == <<row, file, lockFile, pc, job, cleaning, sweep, doomed, undercut, crashes>>

Parts == 1..Len(Formats)
Files == Ids \X Parts
Ages == 0..(Retention + 1)
Older(age) == IF age > Retention THEN age ELSE age + 1

Rows == [id : Ids, status : {"running", "succeeded", "failed"}, sensitive : BOOLEAN,
         age : Ages, hash : [Parts -> Versions \cup {None}]]
Contents == [version : Versions, sensitive : BOOLEAN, age : Ages]
NoHash == [k \in Parts |-> None]
Locks == [inode : Inodes, age : Ages]
ASSUME LocksAssumption == None \notin Locks
NoJob == [period |-> None, sensitive |-> FALSE, inode |-> None, id |-> None,
          version |-> None, written |-> 0, hash |-> NoHash]

ReportsInit == /\ row = [p \in Periods |-> None]
               /\ file = [f \in Files |-> None]
               /\ lockFile = [p \in Periods |-> None]
               /\ pc = [w \in Workers |-> "idle"] /\ job = [w \in Workers |-> NoJob]
               /\ cleaning = FALSE /\ sweep = {} /\ doomed = None
               /\ undercut = {} /\ crashes = 0

-----------------------------------------------------------------------------
(* Fresh ids and contents, the least first.  A clean-up that is about to   *)
(* unlink a file of an id still uses it.                                   *)
IdUsed(i) == \/ \E p \in Periods : row[p] # None /\ row[p].id = i
             \/ \E k \in Parts : file[<<i, k>>] # None
             \/ \E w \in Workers : job[w].id = i
             \/ doomed \in Files /\ doomed[1] = i
VersionUsed(v) == \/ \E p \in Periods, k \in Parts : row[p] # None /\ row[p].hash[k] = v
                  \/ \E f \in Files : file[f] # None /\ file[f].version = v
                  \/ \E w \in Workers : job[w].version = v
                  \/ \E w \in Workers, k \in Parts : job[w].hash[k] = v
Least(S, i) == i \in S /\ \A k \in S : i <= k

InodeUsed(i) == \/ \E p \in Periods : lockFile[p] # None /\ lockFile[p].inode = i
                \/ \E w \in Workers : job[w].inode = i

(* generate takes the worker's own lock and opens the period's lock file,  *)
(* which makes it new again, or makes a new one ...                        *)
Open(w, p, s) ==
    /\ pc[w] = "idle"
    /\ \E i \in Inodes :
          /\ \/ lockFile[p] # None /\ i = lockFile[p].inode
             \/ lockFile[p] = None /\ Least({k \in Inodes : ~InodeUsed(k)}, i)
          /\ lockFile' = [lockFile EXCEPT ![p] = [inode |-> i, age |-> 0]]
          /\ job' = [job EXCEPT ![w] = [NoJob EXCEPT !.period = p, !.sensitive = s, !.inode = i]]
    /\ pc' = [pc EXCEPT ![w] = "open"]
    /\ UNCHANGED <<row, file, cleaning, sweep, doomed, undercut, crashes>>

(* ... locks what it has opened, if nobody has it locked ...               *)
Holds(w) == pc[w] \notin {"idle", "open"}
Locked(i) == \E w \in Workers : Holds(w) /\ job[w].inode = i

FlockAnyway(w) ==                                                  \* a mutant
    /\ pc[w] = "open"
    /\ pc' = [pc EXCEPT ![w] = "create"]
    /\ UNCHANGED <<row, file, lockFile, job, cleaning, sweep, doomed, undercut, crashes>>
Flock(w) ==
    /\ pc[w] = "open" /\ ~Locked(job[w].inode)
    /\ pc' = [pc EXCEPT ![w] = "create"]
    /\ UNCHANGED <<row, file, lockFile, job, cleaning, sweep, doomed, undercut, crashes>>

(* The generation is over, one way or another: its file is closed, and     *)
(* unlocked.                                                               *)
Release(w) == /\ pc' = [pc EXCEPT ![w] = "idle"]
              /\ job' = [job EXCEPT ![w] = NoJob]

(* ... or raises "report task is already running".                         *)
Blocked(w) == /\ pc[w] = "open" /\ Locked(job[w].inode)
              /\ Release(w)
              /\ UNCHANGED <<row, file, lockFile, cleaning, sweep, doomed, undercut, crashes>>

(* create_or_mark_running looks for the period's row and refuses one that  *)
(* is running ...                                                          *)
Read(w) ==
    LET old == row[job[w].period] IN
    /\ pc[w] = "create"
    /\ old # None => old.status # "running"
    /\ job' = [job EXCEPT ![w].id = IF old = None THEN None ELSE old.id]
    /\ pc' = [pc EXCEPT ![w] = "save"]
    /\ UNCHANGED <<row, file, lockFile, cleaning, sweep, doomed, undercut, crashes>>

(* ... and inserts one, or takes over the one it found, if both are still  *)
(* possible when it commits.  The hashes that a row keeps of an earlier    *)
(* generation are not read until it has succeeded again, and are forgotten *)
(* here.                                                                   *)
RowOf(w) == row[job[w].period] # None /\ row[job[w].period].id = job[w].id

(* The period's lock file is the one it has locked, and nobody else is at  *)
(* work on the period.                                                     *)
Alone(w) == /\ lockFile[job[w].period] # None
            /\ lockFile[job[w].period].inode = job[w].inode
            /\ \A v \in Workers \ {w} : job[v].period # job[w].period

RunningLater(w, i) ==                                              \* a mutant
    LET old == row[job[w].period] IN
    IF old # None THEN [old EXCEPT !.age = 0, !.sensitive = job[w].sensitive]
    ELSE [id |-> i, status |-> "running", age |-> 0, hash |-> NoHash,
          sensitive |-> job[w].sensitive]
Running(w, i) == [id |-> i, status |-> "running", age |-> 0, hash |-> NoHash,
                  sensitive |-> job[w].sensitive]

Save(w) ==
    /\ pc[w] = "save"
    /\ \E i \in Ids, v \in Versions :
          /\ \/ job[w].id = None /\ row[job[w].period] = None /\ Least({k \in Ids : ~IdUsed(k)}, i)
             \/ job[w].id = i /\ RowOf(w)
          /\ Least({u \in Versions : ~VersionUsed(u)}, v)
          /\ job' = [job EXCEPT ![w].id = i, ![w].version = v]
          /\ row' = [row EXCEPT ![job[w].period] = Running(w, i)]
    /\ pc' = [pc EXCEPT ![w] = "write"]
    /\ undercut' = IF Alone(w) THEN undercut \ {job[w].period} ELSE undercut
    /\ UNCHANGED <<file, lockFile, cleaning, sweep, doomed, crashes>>

(* "report is already running", a row that is gone or there when it should *)
(* not be, or a session that fails: the exception leaves generate.         *)
RefuseRestarting(w) ==                                             \* a mutant
    /\ pc[w] \in {"create", "save"}
    /\ row' = [row EXCEPT ![job[w].period] = IF @ = None THEN @ ELSE [@ EXCEPT !.age = 0]]
    /\ Release(w)
    /\ UNCHANGED <<file, lockFile, cleaning, sweep, doomed, undercut, crashes>>
Refuse(w) == /\ pc[w] \in {"create", "save"}
             /\ Release(w)
             /\ UNCHANGED <<row, file, lockFile, cleaning, sweep, doomed, undercut, crashes>>

(* generate_report_files, in a thread: the files one after the other, then *)
(* the hash of each as it is on the disk.                                  *)
WriteFile(w) ==
    /\ pc[w] = "write" /\ job[w].written < Len(Formats)
    /\ file' = [file EXCEPT ![<<job[w].id, job[w].written + 1>>] =
                  [version |-> job[w].version, sensitive |-> job[w].sensitive, age |-> 0]]
    /\ job' = [job EXCEPT ![w].written = @ + 1]
    /\ UNCHANGED <<row, lockFile, pc, cleaning, sweep, doomed, undercut, crashes>>

Hash(w) ==
    /\ pc[w] = "write" /\ job[w].written = Len(Formats)
    /\ \A k \in Parts : file[<<job[w].id, k>>] # None
    /\ job' = [job EXCEPT ![w].version = None, ![w].hash = [k \in Parts |-> file[<<job[w].id, k>>].version]]
    /\ pc' = [pc EXCEPT ![w] = "record"]
    /\ UNCHANGED <<row, file, lockFile, cleaning, sweep, doomed, undercut, crashes>>

(* mark_succeeded, if the row is still there.                              *)
MarkSucceeded(w) ==
    /\ pc[w] = "record" /\ RowOf(w)
    /\ row' = [row EXCEPT ![job[w].period].status = "succeeded",
                          ![job[w].period].hash = job[w].hash]
    /\ Release(w)
    /\ UNCHANGED <<file, lockFile, cleaning, sweep, doomed, undercut, crashes>>

(* An exception in the aggregation, the files, their hashes or the record. *)
Fail(w) == /\ pc[w] \in {"write", "record"}
           /\ pc' = [pc EXCEPT ![w] = "failed"]
           /\ job' = [job EXCEPT ![w] = [@ EXCEPT !.version = None, !.written = 0, !.hash = NoHash]]
           /\ UNCHANGED <<row, file, lockFile, cleaning, sweep, doomed, undercut, crashes>>

(* mark_failed, and the same when it raises in its turn.                   *)
MarkFailed(w) ==
    /\ pc[w] = "failed"
    /\ row' = IF RowOf(w) THEN [row EXCEPT ![job[w].period].status = "failed"] ELSE row
    /\ Release(w)
    /\ UNCHANGED <<file, lockFile, cleaning, sweep, doomed, undercut, crashes>>
MarkFailedRaises(w) == /\ pc[w] = "failed"
                       /\ Release(w)
                       /\ UNCHANGED <<row, file, lockFile, cleaning, sweep, doomed, undercut, crashes>>

Crash(w) == /\ pc[w] # "idle"
            /\ Release(w)
            /\ UNCHANGED <<row, file, lockFile, cleaning, sweep, doomed, undercut, crashes>>

-----------------------------------------------------------------------------
(* cleanup_expired: rows first, in one transaction; then the age of each   *)
(* file below the directory is read, a lock file's too, and the file is    *)
(* unlinked if it is too old.                                              *)
Expired(r) == r # None /\ r.age >= Retention
TooOld(f) == file[f] # None /\ file[f].age > Retention
Stale(f) == \/ f \in Files /\ TooOld(f)
            \/ f \in Periods /\ lockFile[f] # None /\ lockFile[f].age > Retention

ListedIfRemoved == IF \E p \in Periods : Expired(row[p])             \* a mutant
                   THEN {f \in Files : file[f] # None} ELSE {}
Listed == {f \in Files : file[f] # None} \cup {p \in Periods : lockFile[p] # None}

CleanRows ==
    /\ ~cleaning
    /\ row' = [p \in Periods |-> IF Expired(row[p]) THEN None ELSE row[p]]
    /\ cleaning' = TRUE /\ sweep' = Listed
    /\ UNCHANGED <<file, lockFile, pc, job, doomed, undercut, crashes>>

Look(f) ==
    /\ doomed = None /\ f \in sweep
    /\ sweep' = sweep \ {f}
    /\ doomed' = IF Stale(f) THEN f ELSE None
    /\ UNCHANGED <<row, file, lockFile, pc, job, cleaning, undercut, crashes>>

Unlink ==
    /\ doomed \in Files
    /\ file' = [file EXCEPT ![doomed] = None]
    /\ doomed' = None
    /\ UNCHANGED <<row, lockFile, pc, job, cleaning, sweep, undercut, crashes>>

UnlinkLock ==
    /\ doomed \in Periods
    /\ lockFile' = [lockFile EXCEPT ![doomed] = None]
    /\ undercut' = IF \E w \in Workers : job[w].period = doomed
                   THEN undercut \cup {doomed} ELSE undercut
    /\ doomed' = None
    /\ UNCHANGED <<row, file, pc, job, cleaning, sweep, crashes>>

EndCleanup ==
    /\ cleaning /\ sweep = {} /\ doomed = None
    /\ cleaning' = FALSE
    /\ UNCHANGED <<row, file, lockFile, pc, job, sweep, doomed, undercut, crashes>>

(* The worker that cleans up dies, or an exception ends its sweep.         *)
CrashCleanup ==
    /\ cleaning /\ crashes < MaxCrashes
    /\ cleaning' = FALSE /\ sweep' = {} /\ doomed' = None /\ crashes' = crashes + 1
    /\ UNCHANGED <<row, file, lockFile, pc, job, undercut>>

(* A day passes.                                                           *)
Tick ==
    /\ row' = [p \in Periods |-> IF row[p] = None THEN None
                                 ELSE [row[p] EXCEPT !.age = Older(@)]]
    /\ file' = [f \in Files |-> IF file[f] = None THEN None
                                ELSE [file[f] EXCEPT !.age = Older(@)]]
    /\ lockFile' = [p \in Periods |-> IF lockFile[p] = None THEN None
                                      ELSE [lockFile[p] EXCEPT !.age = Older(@)]]
    /\ UNCHANGED <<pc, job, cleaning, sweep, doomed, undercut, crashes>>

Generation(w) == \/ Flock(w) \/ Blocked(w) \/ Read(w) \/ Save(w) \/ Refuse(w)
                 \/ WriteFile(w) \/ Hash(w) \/ MarkSucceeded(w)
                 \/ Fail(w) \/ MarkFailed(w) \/ MarkFailedRaises(w)
Cleanup == \/ CleanRows \/ \E f \in Files \cup Periods : Look(f)
           \/ Unlink \/ UnlinkLock \/ EndCleanup

ReportsNext == \/ \E w \in Workers, p \in Periods, s \in Details : Open(w, p, s)
               \/ \E w \in Workers : Generation(w) \/ Crash(w)
               \/ Cleanup \/ CrashCleanup \/ Tick

-----------------------------------------------------------------------------
ReportsTypeOK == /\ row \in [Periods -> Rows \cup {None}]
                 /\ file \in [Files -> Contents \cup {None}]
                 /\ lockFile \in [Periods -> Locks \cup {None}]
                 /\ pc \in [Workers -> {"idle", "open", "create", "save", "write", "record", "failed"}]
                 /\ job \in [Workers -> [period : Periods \cup {None}, sensitive : BOOLEAN,
                                        inode : Inodes \cup {None}, id : Ids \cup {None}, version : Versions \cup {None},
                                        written : 0..Len(Formats),
                                        hash : [Parts -> Versions \cup {None}]]]
                 /\ cleaning \in BOOLEAN /\ sweep \in SUBSET (Files \cup Periods)
                 /\ doomed \in Files \cup Periods \cup {None}
                 /\ undercut \in SUBSET Periods /\ crashes \in 0..MaxCrashes

(* What a succeeded report's row records of its files, their hashes and     *)
(* whether they hold sensitive details, is true of the files that are       *)
(* there: no other generation of the period, finished, failed or killed     *)
(* half-way, has rewritten one of them.  Except where a clean-up has        *)
(* unlinked the period's lock file under a generation, which then excludes  *)
(* nobody, and until a generation has had the period to itself again.       *)
RecordsTrue == \A p \in Periods \ undercut :
    row[p] # None /\ row[p].status = "succeeded" =>
        \A k \in Parts : LET f == file[<<row[p].id, k>>] IN
            f # None => f.version = row[p].hash[k] /\ f.sensitive = row[p].sensitive

(* No two generations write the same files at once: a period has a task     *)
(* lock, as the definition of the report centre demands, lest a scheduled   *)
(* and a manual generation overwrite one another.                           *)
OneWriter == \A v, w \in Workers :
    v # w /\ pc[v] \in {"write", "record"} /\ pc[w] \in {"write", "record"} =>
        job[v].id # job[w].id

(* They do so only in a period whose lock file has been unlinked under a    *)
(* generation.                                                              *)
OneWriterUnlessUndercut == \A v, w \in Workers :
    v # w /\ pc[v] \in {"write", "record"} /\ pc[w] \in {"write", "record"} =>
        job[v].id # job[w].id \/ job[w].period \in undercut

(* A succeeded report that has not expired can be downloaded in each        *)
(* format, as the plan of the report centre says of successful reports.     *)
SucceededHasFiles == \A p \in Periods :
    row[p] # None /\ row[p].status = "succeeded" /\ row[p].age < Retention =>
        \A k \in Parts : file[<<row[p].id, k>>] # None

(* A period is not "running" for ever, whatever became of its generation    *)
(* and however often it is asked for: at the latest its row expires.        *)
RunningEnds == \A p \in Periods : LET running == row[p] # None /\ row[p].status = "running"
                                  IN running ~> ~running

(* Files beyond the retention are cleaned up, also when a clean-up fails.   *)
OldFilesGo == \A f \in Files : TooOld(f) ~> ~TooOld(f)
=============================================================================
