---------------------------- MODULE ImageAssets ----------------------------
(***************************************************************************)
(* Generated images are archived by detached tasks (proxy/relay.py,        *)
(* storage/image_assets.py): each takes the sources of one answer in turn, *)
(* downloads or decodes them, writes a file and records a row.  A request  *)
(* id may come from the client, so tasks, in any workers, may share one.   *)
(***************************************************************************)
EXTENDS Naturals, Sequences, FiniteSets, SequencesExt

CONSTANTS
    Tasks,
    Ids,         \* request ids
    Images,      \* contents that pass every check
    Junk,        \* one that does not
    Answers,     \* the data of an answer: what lies behind each item's url and b64_json
    MaxHops,     \* 5: how many URLs a download may lead through
    Nothing      \* no content, no file

ASSUME AnswersAssumption ==
    Answers \subseteq Seq([url : Images \cup {Junk, Nothing}, b64_json : Images \cup {Junk, Nothing}])
ASSUME HopsAssumption == MaxHops \in Nat \ {0}

VARIABLES
    id, sources, \* what each task is given
    pc,
    current,     \* the source it is at
    hops,        \* URLs it has asked for this one
    content,     \* what it has got
    file,        \* the files
    row,         \* the rows: how often each task recorded each source as what
    unsure       \* history: sources of a task for which the database raised

imageVars == <<id, sources, pc, current, hops, content, file, row, unsure>>

(* extract_image_asset_sources                                             *)
Sources(answer) ==
    LET From(i, type, what) == IF what = Nothing THEN <<>>
                               ELSE <<[index |-> i - 1, type |-> type, content |-> what]>>
    IN FlattenSeq([i \in DOMAIN answer |-> From(i, "url", answer[i].url)
                                             \o From(i, "b64_json", answer[i].b64_json)])
Given == [Tasks -> {Sources(a) : a \in Answers}]

Source(t) == sources[t][current[t]]
Partial == "partial"

(* A file's name has the request id, the source's index, the hash of the   *)
(* content and an extension, which follows from it here.                   *)
PathByIndex(t) == <<id[t], Source(t).index, Junk>>                 \* a mutant
Path(t) == <<id[t], Source(t).index, content[t]>>
Indices == UNION {{i - 1 : i \in DOMAIN a} : a \in Answers}
Paths == Ids \X Indices \X (Images \cup {Junk})
Rows == [task : Tasks, source : Nat, status : {"completed", "failed"},
         path : Paths \cup {Nothing}, content : Images \cup {Nothing}]

ImagesInit == /\ id \in [Tasks -> Ids] /\ sources \in Given
              /\ pc = [t \in Tasks |-> "next"]
              /\ current = [t \in Tasks |-> 0] /\ hops = [t \in Tasks |-> 0]
              /\ content = [t \in Tasks |-> Nothing]
              /\ file = [p \in Paths |-> Nothing]
              /\ row = {} /\ unsure = [t \in Tasks |-> {}]

Goto(t, where) == pc' = [pc EXCEPT ![t] = where]
Got(t, what) == content' = [content EXCEPT ![t] = what]

-----------------------------------------------------------------------------
(* archive_response takes the next source, or ends.                        *)
NextSource(t) ==
    /\ pc[t] = "next"
    /\ IF current[t] = Len(sources[t]) THEN Goto(t, "done") /\ UNCHANGED current
       ELSE /\ current' = [current EXCEPT ![t] = @ + 1]
            /\ Goto(t, sources[t][current[t] + 1].type)
    /\ UNCHANGED <<id, sources, hops, content, file, row, unsure>>

DecodeUnchecked(t) == /\ pc[t] = "b64_json"                        \* a mutant
                      /\ Goto(t, "write") /\ Got(t, Source(t).content)
                      /\ UNCHANGED <<id, sources, current, hops, file, row, unsure>>
Decode(t) == /\ pc[t] = "b64_json"
             /\ IF Source(t).content = Junk THEN Goto(t, "failed") /\ UNCHANGED content
                ELSE Goto(t, "write") /\ Got(t, Source(t).content)
             /\ UNCHANGED <<id, sources, current, hops, file, row, unsure>>

(* _get_with_safe_redirects: each URL's host is checked, then asked; it    *)
(* answers with some image or redirects.                                   *)
Download(t) == /\ pc[t] = "url" /\ hops[t] < MaxHops
               /\ \E image \in Images : Got(t, image)
               /\ Goto(t, "write")
               /\ hops' = [hops EXCEPT ![t] = 0]
               /\ UNCHANGED <<id, sources, current, file, row, unsure>>

RedirectForever(t) == /\ pc[t] = "url" /\ hops[t] < MaxHops        \* a mutant
                      /\ hops' = [hops EXCEPT ![t] = 1 - @]
                      /\ UNCHANGED <<id, sources, pc, current, content, file, row, unsure>>
Redirect(t) == /\ pc[t] = "url" /\ hops[t] < MaxHops
               /\ hops' = [hops EXCEPT ![t] = @ + 1]
               /\ UNCHANGED <<id, sources, pc, current, content, file, row, unsure>>

(* A private host, a timeout, an error status, no image, too large, or too *)
(* many redirects.                                                         *)
DownloadRaises(t) == /\ pc[t] = "url"
                     /\ Goto(t, "failed")
                     /\ hops' = [hops EXCEPT ![t] = 0]
                     /\ UNCHANGED <<id, sources, current, content, file, row, unsure>>

WriteFile(t) == /\ pc[t] = "write"
                /\ file' = [file EXCEPT ![Path(t)] = content[t]]
                /\ Goto(t, "completed")
                /\ UNCHANGED <<id, sources, current, hops, content, row, unsure>>

WriteRaises(t) == /\ pc[t] = "write"
                  /\ file' \in {file, [file EXCEPT ![Path(t)] = Partial]}
                  /\ Goto(t, "failed")
                  /\ Got(t, Nothing)
                  /\ UNCHANGED <<id, sources, current, hops, row, unsure>>

-----------------------------------------------------------------------------
(* _record_asset, with what pc says.                                       *)
Row(t) == [task |-> t, source |-> current[t], status |-> pc[t],
           path |-> IF pc[t] = "completed" THEN Path(t) ELSE Nothing, content |-> content[t]]

RecordCompletedOnly(t) == /\ pc[t] \in {"completed", "failed"}     \* a mutant
                          /\ row' = IF pc[t] = "completed" THEN row \cup {Row(t)} ELSE row
                          /\ Goto(t, "next") /\ Got(t, Nothing)
                          /\ UNCHANGED <<id, sources, current, hops, file, unsure>>
Record(t) == /\ pc[t] \in {"completed", "failed"}
             /\ row' = row \cup {Row(t)}
             /\ Goto(t, "next") /\ Got(t, Nothing)
             /\ UNCHANGED <<id, sources, current, hops, file, unsure>>

(* The database raises before or after its commit.  If it was to record a  *)
(* completion, a failure is recorded; if a failure, the task ends with     *)
(* that exception.                                                         *)
RecordRaises(t) == /\ pc[t] \in {"completed", "failed"}
                   /\ row' \in {row, row \cup {Row(t)}}
                   /\ unsure' = [unsure EXCEPT ![t] = @ \cup {current[t]}]
                   /\ Goto(t, IF pc[t] = "completed" THEN "failed" ELSE "raised")
                   /\ Got(t, Nothing)
                   /\ UNCHANGED <<id, sources, current, hops, file>>

(* The worker dies, perhaps while it writes.                               *)
Kill(t) == /\ pc[t] \notin {"done", "raised", "killed"}
           /\ Goto(t, "killed") /\ Got(t, Nothing)
           /\ hops' = [hops EXCEPT ![t] = 0]
           /\ \/ UNCHANGED file
              \/ pc[t] = "write" /\ file' = [file EXCEPT ![Path(t)] = Partial]
           /\ UNCHANGED <<id, sources, current, row, unsure>>

Work(t) == \/ NextSource(t) \/ Decode(t) \/ Download(t) \/ Redirect(t) \/ DownloadRaises(t)
           \/ WriteFile(t) \/ WriteRaises(t) \/ Record(t) \/ RecordRaises(t)

ImagesNext == \E t \in Tasks : Work(t) \/ Kill(t)

-----------------------------------------------------------------------------
ImagesTypeOK == /\ id \in [Tasks -> Ids] /\ sources \in Given
                /\ pc \in [Tasks -> {"next", "url", "b64_json", "write", "completed", "failed",
                                     "done", "raised", "killed"}]
                /\ \A t \in Tasks : current[t] \in 0..Len(sources[t]) /\ hops[t] \in 0..MaxHops
                /\ content \in [Tasks -> Images \cup {Nothing}]
                /\ file \in [Paths -> Images \cup {Nothing, Partial}]
                /\ row \subseteq Rows
                /\ \A t \in Tasks : unsure[t] \subseteq DOMAIN sources[t]

(* A row that is completed leads to its own image, never to another, also  *)
(* when tasks share a request id and write one file; only a write that      *)
(* was cut short may have broken it.                                       *)
RowsLeadToTheirImage == \A r \in row :
    r.status = "completed" => file[r.path] \in {r.content, Partial}

(* A task that ends has recorded every source, and each once, as completed  *)
(* or as failed, unless the database raised while it recorded that very     *)
(* source: one source's failure takes no other with it.                     *)
EachSourceRecordedOnce == RowsLeadToTheirImage /\ \A t \in Tasks : pc[t] = "done" =>
    \A n \in DOMAIN sources[t] \ unsure[t] :
          Cardinality({r \in row : r.task = t /\ r.source = n}) = 1

Ended(t) == pc[t] \in {"done", "raised", "killed"}
=============================================================================
