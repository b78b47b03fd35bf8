---------------------------- MODULE KeyGovernance ----------------------------
(***************************************************************************)
(* API-key governance (governance/api_keys.py): the key records in the     *)
(* database, the tokens at the key provider                                *)
(* (governance/providers/oneapi_nanfu_yxai.py), and administrators' calls  *)
(* in several workers that change both.  There is no transaction over the  *)
(* two: each step is one request to the provider or one commit, and a call *)
(* may fail, or its worker die, between any two.                           *)
(*                                                                         *)
(* A call creates at most one record, so the call is the record's id.  The *)
(* provider numbers its tokens; a token's secret is its number.            *)
(***************************************************************************)
EXTENDS Naturals, Sequences

CONSTANTS Calls,   \* the calls administrators make
          Names,   \* names given to tokens
          Pasted,  \* upstream keys that administrators paste in
          None

ASSUME NoneIsNoToken == None \notin Nat
ASSUME KeysAreApart == Calls \cap (Pasted \cup Nat) = {} /\ Pasted \cap Nat = {}

VARIABLES
    job,      \* what each call asks for; never changes
    tellsId,  \* whether the provider's answer to a creation holds the token's id
    pc,       \* where each call is
    token,    \* upstream_info.key_id of a creation
    held,     \* the record an edit has read
    result,   \* what the administrator was told
    records,  \* the api_keys table
    made,     \* the call that made each token, in the order of their ids
    live      \* the tokens that exist at the provider

setup == <<job, tellsId>>
vars  == <<setup, pc, token, held, result, records, made, live>>

Creations == {"provider", "manual"}
Edits == {"revoke", "delete", "replace", "bulk"}
Jobs == [op : {"provider"}, name : Names, sync : BOOLEAN]
           \cup [op : {"manual"}, key : Pasted, sync : BOOLEAN]
           \cup [op : {"revoke", "delete"}, target : Calls]
           \cup [op : {"replace", "bulk"}, target : Calls, key : Pasted]

PcStates == {"called", "finding", "fetching", "checking", "saving", "saved",
             "compensating", "revoking", "marking", "deleting", "found", "replacing", "done"}
Results == {"none", "ok", "error", "missing", "refused"}
Records == [status : {"active", "revoked"},
            token  : Nat \cup {None},           \* upstream_key_id
            key    : Nat \cup Pasted \cup Calls, \* key_hash: the client's key
            secret : Nat \cup Pasted]           \* upstream_key_encrypted
ASSUME NoneIsNoRecord == None \notin Records

Init == /\ job \in [Calls -> Jobs]
        /\ \A c \in Calls : job[c].op \in Edits => job[job[c].target].op \in Creations
        /\ tellsId \in BOOLEAN
        /\ pc = [c \in Calls |-> "called"]
        /\ token = [c \in Calls |-> None]
        /\ held = [c \in Calls |-> None]
        /\ result = [c \in Calls |-> "none"]
        /\ records = [c \in Calls |-> None]
        /\ made = <<>> /\ live = {}

-----------------------------------------------------------------------------
At(c, place, ops) == pc[c] = place /\ job[c].op \in ops
Goto(c, place) == pc' = [pc EXCEPT ![c] = place] /\ UNCHANGED result
End(c, told) == pc' = [pc EXCEPT ![c] = "done"] /\ result' = [result EXCEPT ![c] = told]
Target(c) == records[job[c].target]

(* Faulty variant: a provider's record keeps the key of the form.          *)
UpstreamAsPasted(c) == IF job[c].op = "manual" THEN job[c].key ELSE None

(* The upstream key of a creation; the client's key is the same (K-Sync)   *)
(* or generated, unique to the call.                                       *)
Upstream(c) == IF job[c].op = "provider" THEN token[c] ELSE job[c].key
ClientKey(c) == IF job[c].sync THEN Upstream(c) ELSE c
NewRecord(c) == [status |-> "active", token |-> token[c],
                 key |-> ClientKey(c), secret |-> Upstream(c)]
KeyTaken(c) == \E d \in Calls : records[d] # None /\ records[d].key = ClientKey(c)

-----------------------------------------------------------------------------
(* Faulty variant: the id in the provider's answer is not used.            *)
CreateTokenUnread(c) == /\ At(c, "called", {"provider"})
                        /\ made' = Append(made, c)
                        /\ live' = live \cup {Len(made) + 1}
                        /\ Goto(c, "finding")
                        /\ UNCHANGED <<setup, token, held, records>>

(* create_key: the login and the POST that makes a token.                  *)
CreateToken(c) == /\ At(c, "called", {"provider"})
                  /\ made' = Append(made, c)
                  /\ live' = live \cup {Len(made) + 1}
                  /\ IF tellsId
                     THEN token' = [token EXCEPT ![c] = Len(made) + 1] /\ Goto(c, "fetching")
                     ELSE UNCHANGED token /\ Goto(c, "finding")
                  /\ UNCHANGED <<setup, held, records>>

(* _find_latest_token_id: the newest token of that name.                   *)
FindLatest(c) == /\ pc[c] = "finding"
                 /\ LET matches == {t \in live : job[made[t]].name = job[c].name}
                    IN  \E t \in matches : /\ \A u \in matches : u <= t
                                           /\ token' = [token EXCEPT ![c] = t]
                 /\ Goto(c, "fetching")
                 /\ UNCHANGED <<setup, held, records, made, live>>

(* _get_full_key.                                                          *)
FetchKey(c) == /\ pc[c] = "fetching" /\ token[c] \in live
               /\ Goto(c, "checking")
               /\ UNCHANGED <<setup, token, held, records, made, live>>

CreateManual(c) == /\ At(c, "called", {"manual"})
                   /\ Goto(c, "checking")
                   /\ UNCHANGED <<setup, token, held, records, made, live>>

(* _create_record: the select for a record with the same key ...           *)
CheckKey(c) == /\ pc[c] = "checking" /\ ~KeyTaken(c)
               /\ Goto(c, "saving")
               /\ UNCHANGED <<setup, token, held, records, made, live>>

(* Faulty variant: the column key_hash is not unique.                      *)
SaveAnyway(c) == /\ pc[c] = "saving"
                 /\ records' = [records EXCEPT ![c] = NewRecord(c)]
                 /\ Goto(c, "saved")
                 /\ UNCHANGED <<setup, token, held, made, live>>

(* ... the commit, which the unique column refuses if one came between ... *)
Save(c) == /\ pc[c] = "saving" /\ ~KeyTaken(c)
           /\ records' = [records EXCEPT ![c] = NewRecord(c)]
           /\ Goto(c, "saved")
           /\ UNCHANGED <<setup, token, held, made, live>>

(* ... and the refresh.                                                    *)
Created(c) == pc[c] = "saved" /\ End(c, "ok")
              /\ UNCHANGED <<setup, token, held, records, made, live>>

(* Any of the three raises: a provider's token is to be taken back, also   *)
(* when it was the refresh, after the commit.                              *)
SaveFails(c) == /\ pc[c] \in {"checking", "saving", "saved"}
                /\ IF job[c].op = "provider" THEN Goto(c, "compensating") ELSE End(c, "error")
                /\ UNCHANGED <<setup, token, held, records, made, live>>

Compensate(c) == /\ pc[c] = "compensating"
                 /\ live' = live \ {token[c]}
                 /\ End(c, "error")
                 /\ UNCHANGED <<setup, token, held, records, made>>

-----------------------------------------------------------------------------
(* The record to edit is read; told if there is none.                      *)
Read(c, next) == /\ IF Target(c) = None
                    THEN End(c, "missing") /\ UNCHANGED held
                    ELSE held' = [held EXCEPT ![c] = Target(c)] /\ Goto(c, next)
                 /\ UNCHANGED <<setup, token, records, made, live>>

(* Faulty variant: a record whose upstream key was replaced is no longer   *)
(* taken for the provider's.                                               *)
ReadForRevokeInUse(c) ==
    At(c, "called", {"revoke"})
    /\ Read(c, IF Target(c) # None /\ Target(c).token = Target(c).secret THEN "revoking" ELSE "marking")

(* revoke: a record with an upstream_key_id is the provider's.             *)
ReadForRevoke(c) ==
    At(c, "called", {"revoke"})
    /\ Read(c, IF Target(c) # None /\ Target(c).token # None THEN "revoking" ELSE "marking")

(* The provider may also refuse to delete a token that is gone: Abandon.   *)
RevokeUpstream(c) == /\ pc[c] = "revoking"
                     /\ live' = live \ {held[c].token}
                     /\ Goto(c, "marking")
                     /\ UNCHANGED <<setup, token, held, records, made>>

Mark(c) == /\ pc[c] = "marking"
           /\ IF Target(c) = None
              THEN End(c, "missing") /\ UNCHANGED records
              ELSE /\ records' = [records EXCEPT ![job[c].target].status = "revoked"]
                   /\ End(c, "ok")
           /\ UNCHANGED <<setup, token, held, made, live>>

(* Faulty variant: any record may be deleted.                              *)
ReadForDeleteAny(c) == At(c, "called", {"delete"}) /\ Read(c, "deleting")

(* delete_revoked: the status is tested, then the row is deleted by id.    *)
ReadForDelete(c) ==
    /\ At(c, "called", {"delete"})
    /\ IF Target(c) # None /\ Target(c).status # "revoked"
       THEN End(c, "refused") /\ UNCHANGED <<setup, token, held, records, made, live>>
       ELSE Read(c, "deleting")

Delete(c) == /\ pc[c] = "deleting"
             /\ records' = [records EXCEPT ![job[c].target] = None]
             /\ End(c, "ok")
             /\ UNCHANGED <<setup, token, held, made, live>>

(* bulk_replace looks the record up before it calls replace_upstream_key.  *)
Lookup(c) == At(c, "called", {"bulk"}) /\ Read(c, "found")

ReadForReplace(c) ==
    /\ At(c, "called", {"replace"}) \/ At(c, "found", {"bulk"})
    /\ IF job[c].op = "bulk" /\ Target(c) = None
       THEN End(c, "ok") /\ UNCHANGED <<setup, token, held, records, made, live>>
       ELSE Read(c, "replacing")

(* Faulty variant: every column is written back as it was read.            *)
ReplaceWholeRow(c) ==
    /\ pc[c] = "replacing" /\ Target(c) # None
    /\ records' = [records EXCEPT ![job[c].target] = [held[c] EXCEPT !.secret = job[c].key]]
    /\ End(c, "ok")
    /\ UNCHANGED <<setup, token, held, made, live>>

(* Only the changed columns are written, and only if the row still exists. *)
Replace(c) == /\ pc[c] = "replacing" /\ Target(c) # None
              /\ records' = [records EXCEPT ![job[c].target].secret = job[c].key]
              /\ End(c, "ok")
              /\ UNCHANGED <<setup, token, held, made, live>>

(* A request to the provider or to the database fails, its answer is lost, *)
(* or the worker dies: the call ends where it is.                          *)
Abandon(c) == pc[c] # "done" /\ End(c, "error")
              /\ UNCHANGED <<setup, token, held, records, made, live>>

Create(c) == CreateToken(c) \/ FindLatest(c) \/ FetchKey(c) \/ CreateManual(c) \/ CheckKey(c)
                \/ Save(c) \/ Created(c) \/ SaveFails(c) \/ Compensate(c)
Edit(c) == ReadForRevoke(c) \/ RevokeUpstream(c) \/ Mark(c) \/ ReadForDelete(c) \/ Delete(c)
                \/ Lookup(c) \/ ReadForReplace(c) \/ Replace(c)

(* All calls have been answered.                                           *)
Quiet == (\A c \in Calls : pc[c] = "done") /\ UNCHANGED vars

Next == (\E c \in Calls : Create(c) \/ Edit(c) \/ Abandon(c)) \/ Quiet

Spec == Init /\ [][Next]_vars

-----------------------------------------------------------------------------
TypeOK == /\ job \in [Calls -> Jobs] /\ tellsId \in BOOLEAN
          /\ pc \in [Calls -> PcStates]
          /\ token \in [Calls -> Nat \cup {None}]
          /\ held \in [Calls -> Records \cup {None}]
          /\ result \in [Calls -> Results]
          /\ records \in [Calls -> Records \cup {None}]
          /\ made \in Seq(Calls) /\ live \subseteq DOMAIN made

(* A revocation that was marked is real: the provider no longer has the    *)
(* token, however creations, replacements and failures came between.       *)
RevokedTokenIsDead ==
    \A r \in Calls : records[r] # None /\ records[r].status = "revoked"
                        => records[r].token \notin live

(* A revoked record is never active again, a record is deleted only after  *)
(* it was revoked, and its id and client key never change.                 *)
RevocationIsFinal ==
    [][\A r \in Calls : records[r] # None =>
          IF records'[r] = None THEN records[r].status = "revoked"
          ELSE /\ records[r].status = "revoked" => records'[r].status = "revoked"
               /\ records'[r].token = records[r].token /\ records'[r].key = records[r].key]_vars

(* A client's key finds at most one record, whoever creates at once.       *)
KeysUnambiguous ==
    \A r, s \in Calls : records[r] # None /\ records[s] # None /\ records[r].key = records[s].key
                            => r = s

(* If the provider names the token it made, a token whose creation was     *)
(* reported to have worked always has its record: none is left behind.     *)
NoStrayToken ==
    tellsId => \A t \in live : result[made[t]] = "ok" =>
                  records[made[t]] # None /\ records[made[t]].token = t

(* Under the same condition, the token of a created, active record is gone *)
(* only if a revocation of that record deleted it and did not get further. *)
ActiveTokenLives ==
    tellsId => \A r \in Calls :
        /\ records[r] # None /\ records[r].status = "active" /\ records[r].token # None
        /\ result[r] = "ok" /\ records[r].token \notin live
        => \E c \in Calls : /\ job[c].op = "revoke" /\ job[c].target = r
                            /\ pc[c] = "marking" \/ result[c] = "error"

(* The plan: when the record cannot be saved, the upstream key that was    *)
(* created is revoked; not one that another call created.                  *)
CompensationTakesItsOwn ==
    \A c \in Calls : pc[c] = "compensating" => made[token[c]] = c
=============================================================================
