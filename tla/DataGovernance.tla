--------------------------- MODULE DataGovernance ---------------------------
(***************************************************************************)
(* Training conversations: how they are stored (storage/training.py), how  *)
(* coverage jobs find the ones that repeat the beginning of a longer one,  *)
(* and how clean-up removes covered and expired ones                       *)
(* (storage/data_governance.py).  Several administrators, in any worker,   *)
(* start jobs and clean-ups; every session is a separate transaction, so   *)
(* they interleave with one another and with the archive's inserts.        *)
(*                                                                         *)
(* A conversation is known by its position in conv, its id: the sequence   *)
(* hands ids out when rows are inserted, and rows become visible when      *)
(* their transactions commit, possibly in another order.                   *)
(***************************************************************************)
EXTENDS Naturals, Sequences, FiniteSets

CONSTANTS
    Groups,      \* pairs of user_id and api_key_id
    Messages,    \* normalised messages
    Payloads,    \* what the relay may archive
    Jobs,        \* calls of run_coverage_analysis
    Configs,     \* their CoverageAnalysisConfig: records [batch, max]
    MaxRows      \* bound: conversations ever stored

(* A payload carries the prompt's normalised messages and the response's   *)
(* text, which a truncated response has not.                               *)
ASSUME PayloadsAssumption ==
    Payloads \subseteq [group : Groups, chat : BOOLEAN, prompt : Seq(Messages),
                       blocked : BOOLEAN, action : {"passed", "warned", "desensitized"},
                       text : Messages, truncated : BOOLEAN]
ASSUME ConfigsAssumption == Configs \subseteq [batch : Nat \ {0}, max : Nat \ {0}]
ASSUME BoundsAssumption == MaxRows \in Nat

VARIABLES
    conv,        \* every conversation ever stored, in order of id
    status,      \* data_governance_jobs.status: whether a row exists and is "running"
    pc,          \* where a call of run_coverage_analysis is
    config, batch, uncovered, marks, cursor, processed, outcome   \* its locals

locals == <<config, batch, uncovered, marks, cursor, processed, outcome>>
vars   == <<conv, status, pc, locals>>

Rows == 1..MaxRows
Statuses == {"none", "running", "ended"}
Outcomes == {"completed", "limited", "timeout", "failed"}
PcStates == {"idle", "insert", "loop", "mark", "commit", "finish", "done"}

-----------------------------------------------------------------------------
(* What is stored.  row is "open" until the insert commits, and says       *)
(* afterwards whether and why it was deleted; late is history: the row     *)
(* became visible after one with a greater id.                             *)
IsTrainingCandidate(p) == p.chat /\ p.action \in {"passed", "desensitized"} /\ ~p.blocked
HasExchange(p) == p.prompt # <<>> /\ ~p.truncated
Conversation(p) == [group |-> p.group, trajectory |-> Append(p.prompt, p.text),
                    covered |-> 0, pending |-> TRUE,
                    row |-> "open", late |-> FALSE]

TrainingConversations ==
    [group : Groups, trajectory : Seq(Messages), covered : 0..MaxRows, pending : BOOLEAN,
     row : {"open", "live", "covered", "expired"}, late : BOOLEAN]

Live(i) == conv[i].row = "live"

(* candidate is a proper beginning of trajectory                           *)
IsPrefix(candidate, trajectory) ==
    /\ 0 < Len(candidate) /\ Len(candidate) < Len(trajectory)
    /\ \A i \in 1..Len(candidate) : candidate[i] = trajectory[i]

(* Conversation d may cover conversation c.                                *)
Covers(d, c) == /\ c < d
                /\ conv[c].group = conv[d].group
                /\ Len(conv[d].trajectory) >= 2
                /\ IsPrefix(conv[c].trajectory, conv[d].trajectory)

Init == /\ conv = <<>>
        /\ status = [j \in Jobs |-> "none"]
        /\ pc = [j \in Jobs |-> "idle"]
        /\ config \in [Jobs -> Configs]
        /\ batch = [j \in Jobs |-> {}] /\ uncovered = [j \in Jobs |-> {}]
        /\ marks = [j \in Jobs |-> [i \in Rows |-> 0]]
        /\ cursor = [j \in Jobs |-> 0] /\ processed = [j \in Jobs |-> 0]
        /\ outcome = [j \in Jobs |-> "completed"]

(* An archive queue's worker inserts a payload, if it is one to store.  An *)
(* insert that is rolled back is one that is never published.              *)
Insert(p) == /\ Len(conv) < MaxRows
             /\ IsTrainingCandidate(p) /\ HasExchange(p)
             /\ conv' = Append(conv, Conversation(p))
             /\ UNCHANGED <<status, pc, locals>>

Overtaken(i) == \E d \in DOMAIN conv : d > i /\ conv[d].row # "open"
Publish(i) == /\ conv[i].row = "open"
              /\ conv' = [conv EXCEPT ![i].row = "live", ![i].late = Overtaken(i)]
              /\ UNCHANGED <<status, pc, locals>>

-----------------------------------------------------------------------------
(* run_coverage_analysis looks for a running job, then inserts its own.    *)
RunningJobs == {j \in Jobs : status[j] = "running"}

Request(j) == /\ pc[j] = "idle"
              /\ pc' = [pc EXCEPT ![j] = IF RunningJobs = {} THEN "insert" ELSE "done"]
              /\ UNCHANGED <<conv, status, locals>>

InsertJob(j) == /\ pc[j] = "insert"
                /\ status' = [status EXCEPT ![j] = "running"]
                /\ pc' = [pc EXCEPT ![j] = "loop"]
                /\ UNCHANGED <<conv, locals>>

(* The session of a batch is closed.                                       *)
EndBatch(j) == /\ batch' = [batch EXCEPT ![j] = {}]
               /\ uncovered' = [uncovered EXCEPT ![j] = {}]
               /\ marks' = [marks EXCEPT ![j] = [i \in Rows |-> 0]]

(* The job leaves its loop; the time limit is noticed wherever it is read. *)
Leave(j, how) == /\ pc' = [pc EXCEPT ![j] = "finish"]
                 /\ outcome' = [outcome EXCEPT ![j] = how]
                 /\ EndBatch(j)
                 /\ UNCHANGED <<conv, status, config, cursor, processed>>

(* The call ends, and its local variables with it.                         *)
Return(j) == /\ pc' = [pc EXCEPT ![j] = "done"]
             /\ outcome' = [outcome EXCEPT ![j] = "completed"]
             /\ cursor' = [cursor EXCEPT ![j] = 0]
             /\ processed' = [processed EXCEPT ![j] = 0]
             /\ EndBatch(j)
             /\ UNCHANGED <<conv, config>>

ReachLimit(j) == /\ pc[j] = "loop" /\ processed[j] >= config[j].max
                 /\ Leave(j, "limited")
TimeOut(j) == /\ pc[j] = "loop" /\ processed[j] < config[j].max
              /\ Leave(j, "timeout")

(* The next batch: pending conversations beyond the cursor, by id.         *)
Pending(j) == {i \in DOMAIN conv : i > cursor[j] /\ Live(i) /\ conv[i].pending}
RoomFor(j) == IF config[j].batch < config[j].max - processed[j]
              THEN config[j].batch ELSE config[j].max - processed[j]
CountedByBatch(j, ids) == processed[j] + config[j].batch           \* a mutant
Counted(j, ids) == processed[j] + Cardinality(ids)

Exhaust(j) == /\ pc[j] = "loop" /\ processed[j] < config[j].max
              /\ Pending(j) = {}
              /\ Leave(j, "completed")

Fetch(j) ==
    /\ pc[j] = "loop" /\ processed[j] < config[j].max
    /\ \E last \in Pending(j) :
          LET ids == {i \in Pending(j) : i <= last} IN
          /\ \/ Cardinality(ids) = RoomFor(j)
             \/ Cardinality(ids) < RoomFor(j) /\ ids = Pending(j)
          /\ batch' = [batch EXCEPT ![j] = ids]
          /\ uncovered' = [uncovered EXCEPT ![j] = {i \in ids : conv[i].covered = 0}]
          /\ cursor' = [cursor EXCEPT ![j] = last]
          /\ processed' = [processed EXCEPT ![j] = Counted(j, ids)]
    /\ pc' = [pc EXCEPT ![j] = "mark"]
    /\ UNCHANGED <<conv, status, config, marks, outcome>>

(* _mark_covered_by_group: each candidate still uncovered in the database  *)
(* is covered by the last conversation of the batch that extends it.       *)
CoverersOfAnyUser(j, c) ==                                         \* a mutant
    {d \in uncovered[j] : c < d /\ IsPrefix(conv[c].trajectory, conv[d].trajectory)}
CoverersSwapped(j, c) == {d \in uncovered[j] : Covers(c, d)}       \* a mutant
Coverers(j, c) == {d \in uncovered[j] : Covers(d, c)}
CandidatesPending(j) == {c \in DOMAIN conv : /\ Live(c) /\ conv[c].covered = 0
                                             /\ conv[c].pending /\ Coverers(j, c) # {}}  \* a mutant
Candidates(j) == {c \in DOMAIN conv : Live(c) /\ conv[c].covered = 0 /\ Coverers(j, c) # {}}

Mark(j) ==
    /\ pc[j] = "mark"
    /\ \E m \in [Candidates(j) -> uncovered[j]] :
          /\ \A c \in Candidates(j) : /\ m[c] \in Coverers(j, c)
                                      /\ \A d \in Coverers(j, c) : d <= m[c]
          /\ marks' = [marks EXCEPT ![j] =
                         [c \in Rows |-> IF c \in Candidates(j) THEN m[c] ELSE 0]]
    /\ pc' = [pc EXCEPT ![j] = "commit"]
    /\ UNCHANGED <<conv, status, config, batch, uncovered, cursor, processed, outcome>>

(* The batch is written: marks and analysis_status.  Of a row deleted in   *)
(* the meantime the UPDATE finds nothing; the driver may not tell, or the  *)
(* session raises (Fail).                                                  *)
Commit(j) ==
    /\ pc[j] = "commit"
    /\ conv' = [i \in DOMAIN conv |->
                  IF ~Live(i) THEN conv[i]
                  ELSE [conv[i] EXCEPT
                          !.covered = IF marks[j][i] # 0 THEN marks[j][i] ELSE @,
                          !.pending = @ /\ i \notin batch[j]]]
    /\ pc' = [pc EXCEPT ![j] = "loop"]
    /\ EndBatch(j)
    /\ UNCHANGED <<status, config, cursor, processed, outcome>>

(* An exception anywhere in the loop: a lost connection, an UPDATE that    *)
(* matched no row.  The open transaction is rolled back.                   *)
FailGoesOn(j) == /\ pc[j] \in {"loop", "mark", "commit"}           \* a mutant
                 /\ pc' = [pc EXCEPT ![j] = "loop"]
                 /\ EndBatch(j)
                 /\ UNCHANGED <<conv, status, config, cursor, processed, outcome>>
Fail(j) == /\ pc[j] \in {"loop", "mark", "commit"}
           /\ Leave(j, "failed")

(* The last session writes the outcome: any of them ends the job.          *)
Finish(j) == /\ pc[j] = "finish"
             /\ status' = [status EXCEPT ![j] = "ended"]
             /\ Return(j)

(* The worker dies, the request's task is cancelled, or the last session   *)
(* fails: nobody writes the outcome, and the row stays "running".          *)
Crash(j) == /\ pc[j] \notin {"idle", "done"}
            /\ Return(j)
            /\ UNCHANGED status

-----------------------------------------------------------------------------
(* Of a deleted row only its group and trajectory are remembered, to state *)
(* what was lost.                                                          *)
Deleted(i, why) == [conv[i] EXCEPT !.row = why, !.covered = 0, !.pending = FALSE,
                                   !.late = FALSE]

(* cleanup selects ids, up to a limit, and deletes them in one transaction *)
(* that does not lock what it selected.  It is one step here, with any of  *)
(* the rows: what could be deleted when it was selected still can be when  *)
(* it is deleted, since no code un-marks a conversation or prolongs its    *)
(* life.  When expires_at passes is not modelled: any rows may be expired. *)
Cleanup ==
    /\ \E C \in SUBSET {i \in DOMAIN conv : Live(i) /\ conv[i].covered # 0},
          E \in SUBSET {i \in DOMAIN conv : Live(i)} :
          conv' = [i \in DOMAIN conv |->
                     CASE i \in C     -> Deleted(i, "covered")
                       [] i \in E \ C -> Deleted(i, "expired")
                       [] OTHER      -> conv[i]]
    /\ UNCHANGED <<status, pc, locals>>

Step(j) == InsertJob(j) \/ ReachLimit(j) \/ TimeOut(j) \/ Exhaust(j) \/ Fetch(j)
             \/ Mark(j) \/ Commit(j) \/ Finish(j)

Next == \/ \E p \in Payloads : Insert(p)
        \/ \E i \in DOMAIN conv : Publish(i)
        \/ \E j \in Jobs : Request(j) \/ Step(j) \/ Fail(j) \/ Crash(j)
        \/ Cleanup

Spec == Init /\ [][Next]_vars

-----------------------------------------------------------------------------
TypeOK == /\ conv \in Seq(TrainingConversations)
          /\ Len(conv) <= MaxRows
          /\ status \in [Jobs -> Statuses] /\ pc \in [Jobs -> PcStates]
          /\ config \in [Jobs -> Configs]
          /\ batch \in [Jobs -> SUBSET Rows] /\ uncovered \in [Jobs -> SUBSET Rows]
          /\ marks \in [Jobs -> [Rows -> 0..MaxRows]]
          /\ cursor \in [Jobs -> 0..MaxRows]
          /\ processed \in [Jobs -> Nat] /\ \A j \in Jobs : processed[j] <= config[j].max
          /\ outcome \in [Jobs -> Outcomes]

(* A conversation marked as covered repeats the beginning of a later one   *)
(* of the same user and key, whatever jobs and clean-ups ran meanwhile.    *)
CoveredByLonger == \A c \in DOMAIN conv : conv[c].covered # 0 =>
    conv[c].covered \in DOMAIN conv /\ Covers(conv[c].covered, c)

(* Clean-up of covered conversations loses no exchange: whatever is marked  *)
(* is covered indeed, and whatever is deleted is the beginning of one that  *)
(* is still there, or that has been deleted for its age.                    *)
NothingLost ==
    /\ CoveredByLonger
    /\ \A c \in DOMAIN conv : conv[c].row = "covered" =>
           \E e \in DOMAIN conv : Covers(e, c) /\ conv[e].row # "covered"

(* A job leaves nothing unanalysed behind its cursor, and a failed batch    *)
(* is reported as failed: what "completed" and "limited" promise for the    *)
(* conversations up to the cursor, whatever another job or a clean-up does. *)
NothingBehind == \A j \in Jobs :
    pc[j] = "loop" \/ (pc[j] = "finish" /\ outcome[j] # "failed") =>
        \A i \in DOMAIN conv : i <= cursor[j] /\ Live(i) /\ conv[i].pending => conv[i].late

(* Once a conversation is analysed, every earlier one that it extends is    *)
(* covered, unless it came late, and no job leaves one unanalysed behind    *)
(* it: two jobs on the same rows, failed batches and clean-ups between the  *)
(* reads and the writes leave no repetition unmarked.                       *)
NoneMissed ==
    /\ NothingBehind
    /\ \A c, d \in DOMAIN conv :
          Live(c) /\ ~conv[c].late /\ Live(d) /\ ~conv[d].pending /\ Covers(d, c)
              => conv[c].covered # 0

(* At most one job is running: what the "coverage analysis already running" *)
(* answer of run_coverage_analysis is for.                                  *)
OneJobRuns == Cardinality(RunningJobs) <= 1
=============================================================================
