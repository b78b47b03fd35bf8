------------------------- MODULE KeyGovernanceProofs -------------------------
(***************************************************************************)
(* Proofs, for every set of calls, names and pasted keys, that a marked    *)
(* revocation is real, that revocations are final, that client keys are    *)
(* unambiguous, and that records and tokens stay together if the provider  *)
(* names the tokens it makes; and, of the table of keys (KeyRecords), that *)
(* every record holds what it was last given, whoever writes it, and that  *)
(* imports can be repeated.                                                *)
(***************************************************************************)
EXTENDS KeyGovernance, KeyRecords, FiniteSetTheorems, TLAPS

Late == {"saved", "compensating", "done"}
Editing == {"revoking", "marking", "deleting", "found", "replacing"}

(* Where a call is agrees with what it asks for.                           *)
Roles == \A c \in Calls :
    /\ pc[c] \in {"checking", "saving", "saved", "compensating"} => job[c].op \in Creations
    /\ pc[c] \in {"finding", "fetching"} => job[c].op = "provider"
    /\ pc[c] \in Editing => job[c].op \in Edits
    /\ pc[c] = "deleting" => job[c].op = "delete"
    /\ pc[c] \in {"found", "replacing"} => job[c].op \in {"replace", "bulk"}

(* A record's creation is past its commit, so a deleted id does not return. *)
RowsAreLate == \A c \in Calls : records[c] # None => pc[c] \in Late

(* What an edit has read is still the row, but for its status and secret.  *)
HeldIsRow == \A c \in Calls : pc[c] \in Editing =>
    LET r == job[c].target IN
    /\ held[c] # None
    /\ pc[r] \in Late
    /\ records[r] # None => records[r].token = held[c].token
    /\ pc[c] = "deleting" => (records[r] # None => records[r].status = "revoked")
    /\ pc[c] = "marking" => held[c].token \notin live

(* Only tokens that were made are known.                                   *)
Known(t) == t = None \/ t \in DOMAIN made
TokensKnown == \A c \in Calls : /\ Known(token[c])
                                /\ records[c] # None => Known(records[c].token)
                                /\ held[c] # None => Known(held[c].token)

(* A provider's creation has its token once it has read the secret.        *)
TokenHeld == \A c \in Calls :
    /\ job[c].op = "provider" /\ pc[c] \in {"fetching", "checking", "saving"} => token[c] # None
    /\ job[c].op # "provider" => token[c] = None

IInv == TypeOK /\ Roles /\ RowsAreLate /\ HeldIsRow /\ TokensKnown /\ TokenHeld
          /\ RevokedTokenIsDead /\ KeysUnambiguous

-----------------------------------------------------------------------------
(* The initial states satisfy the invariant.                               *)
LEMMA InitInv == Init => IInv
<1> SUFFICES ASSUME Init PROVE IInv
  OBVIOUS
<1>1. /\ \A c \in Calls : pc[c] = "called" /\ token[c] = None
                             /\ held[c] = None /\ records[c] = None
      /\ made = <<>> /\ live = {}
  BY DEF Init
<1>2. TypeOK
  BY <1>1 DEF Init, TypeOK, PcStates, Results, Records
<1>3. Roles /\ RowsAreLate /\ HeldIsRow /\ TokensKnown /\ TokenHeld
  BY <1>1 DEF Roles, RowsAreLate, HeldIsRow, TokensKnown, TokenHeld, Known, Editing
<1> QED BY <1>1, <1>2, <1>3 DEF IInv, RevokedTokenIsDead, KeysUnambiguous

(* A call that only moves on.                                              *)
LEMMA MoveInv ==
    ASSUME IInv, NEW c \in Calls, NEW x \in PcStates \ Editing,
           pc' = [pc EXCEPT ![c] = x],
           result' \in [Calls -> Results],
           UNCHANGED <<setup, token, held, records, made, live>>,
           x \in {"checking", "saving", "saved", "compensating"} => job[c].op \in Creations,
           x \in {"finding", "fetching"} => job[c].op = "provider",
           pc[c] \in Late => x \in Late,
           job[c].op = "provider" /\ x \in {"fetching", "checking", "saving"} => token[c] # None
    PROVE  IInv'
<1>1. /\ pc' \in [Calls -> PcStates]
      /\ \A d \in Calls : pc'[d] = IF d = c THEN x ELSE pc[d]
      /\ job' = job /\ tellsId' = tellsId /\ token' = token /\ held' = held
      /\ records' = records /\ made' = made /\ live' = live
  BY DEF IInv, TypeOK, setup
<1>2. TypeOK'
  BY <1>1 DEF IInv, TypeOK
<1>3. Roles'
  BY <1>1 DEF IInv, Roles, Editing
<1>4. RowsAreLate'
  BY <1>1 DEF IInv, RowsAreLate
<1>5. HeldIsRow'
  BY <1>1 DEF IInv, HeldIsRow, Roles, TypeOK, Jobs, Edits
<1>6. TokensKnown' /\ TokenHeld'
  BY <1>1 DEF IInv, TokensKnown, TokenHeld, Known
<1>7. RevokedTokenIsDead' /\ KeysUnambiguous'
  BY <1>1 DEF IInv, RevokedTokenIsDead, KeysUnambiguous
<1> QED BY <1>2, <1>3, <1>4, <1>5, <1>6, <1>7 DEF IInv

-----------------------------------------------------------------------------
(* The target of an edit is a call.                                        *)
LEMMA TargetType ==
    ASSUME TypeOK, NEW c \in Calls, job[c].op \in Edits
    PROVE  job[c].target \in Calls
BY DEF TypeOK, Jobs, Edits

(* No token is called None.                                                *)
LEMMA NoneIsDead == TypeOK => None \notin live
BY NoneIsNoToken DEF TypeOK

(* An edit reads its record, or is told that there is none.                *)
LEMMA ReadInv ==
    ASSUME IInv, NEW c \in Calls, NEW x \in Editing, Read(c, x),
           job[c].op \in Edits, pc[c] \in {"called", "found"},
           x \in {"found", "replacing"} => job[c].op \in {"replace", "bulk"},
           x = "deleting" => job[c].op = "delete" /\ (Target(c) # None => Target(c).status = "revoked"),
           x = "marking" /\ Target(c) # None => Target(c).token = None
    PROVE  IInv'
<1> DEFINE r == job[c].target
<1>1. r \in Calls
  BY TargetType DEF IInv
<1>2. CASE Target(c) = None
  <2>1. /\ pc' = [pc EXCEPT ![c] = "done"] /\ result' \in [Calls -> Results]
        /\ UNCHANGED <<setup, token, held, records, made, live>>
    BY <1>2 DEF Read, End, IInv, TypeOK, Results
  <2> QED BY <2>1, MoveInv DEF PcStates, Editing, Late
<1>3. CASE Target(c) # None
  <2>1. /\ pc' \in [Calls -> PcStates] /\ held' \in [Calls -> Records \cup {None}]
        /\ \A d \in Calls : pc'[d] = IF d = c THEN x ELSE pc[d]
        /\ \A d \in Calls : held'[d] = IF d = c THEN records[r] ELSE held[d]
        /\ job' = job /\ tellsId' = tellsId /\ token' = token /\ result' = result
        /\ records' = records /\ made' = made /\ live' = live
    BY <1>1, <1>3 DEF Read, Goto, Target, IInv, TypeOK, PcStates, Editing, setup
  <2>2. pc[c] \notin Late /\ pc[r] \in Late /\ records[r] # None
    BY <1>1, <1>3 DEF Target, IInv, RowsAreLate, Late
  <2>3. TypeOK'
    BY <2>1 DEF IInv, TypeOK
  <2>4. Roles'
    BY <2>1 DEF IInv, Roles, Editing
  <2>5. RowsAreLate'
    BY <2>1, <2>2 DEF IInv, RowsAreLate
  <2>6. HeldIsRow'
    <3> SUFFICES ASSUME NEW d \in Calls, pc'[d] \in Editing
                 PROVE  LET t == job[d].target IN
                        /\ held'[d] # None
                        /\ pc'[t] \in Late
                        /\ records[t] # None => records[t].token = held'[d].token
                        /\ pc'[d] = "deleting" => (records[t] # None => records[t].status = "revoked")
                        /\ pc'[d] = "marking" => held'[d].token \notin live
      BY <2>1 DEF HeldIsRow
    <3>1. CASE d = c
      BY <1>1, <2>1, <2>2, <3>1, NoneIsDead DEF Target, IInv
    <3>2. CASE d # c
      <4>1. pc[d] \in Editing /\ job[d].target \in Calls
        BY <2>1, <3>2, TargetType DEF IInv, Roles
      <4> QED BY <2>1, <2>2, <3>2, <4>1 DEF IInv, HeldIsRow
    <3> QED BY <3>1, <3>2
  <2>7. TokensKnown' /\ TokenHeld'
    BY <1>1, <2>1, <2>2 DEF IInv, TokensKnown, TokenHeld, Known, Editing
  <2>8. RevokedTokenIsDead' /\ KeysUnambiguous'
    BY <2>1 DEF IInv, RevokedTokenIsDead, KeysUnambiguous
  <2> QED BY <2>3, <2>4, <2>5, <2>6, <2>7, <2>8 DEF IInv
<1> QED BY <1>2, <1>3

-----------------------------------------------------------------------------
(* A token is made: its number is new.                                     *)
LEMMA CreateTokenInv ==
    ASSUME IInv, NEW c \in Calls, CreateToken(c)
    PROVE  IInv'
<1> DEFINE n == Len(made) + 1
<1>1. /\ made \in Seq(Calls) /\ live \subseteq DOMAIN made /\ DOMAIN made = 1 .. Len(made)
      /\ Len(made) \in Nat
  BY DEF IInv, TypeOK
<1>2. /\ made' \in Seq(Calls) /\ DOMAIN made' = 1 .. n
  BY <1>1 DEF CreateToken
<1>3. PICK x \in {"fetching", "finding"} :
      /\ pc' = [pc EXCEPT ![c] = x]
      /\ IF x = "fetching" THEN token' = [token EXCEPT ![c] = n] ELSE token' = token
  BY DEF CreateToken, Goto
<1>4. /\ pc' \in [Calls -> PcStates] /\ token' \in [Calls -> Nat \cup {None}]
      /\ \A d \in Calls : pc'[d] = IF d = c THEN x ELSE pc[d]
      /\ \A d \in Calls : token'[d] = IF d = c /\ x = "fetching" THEN n ELSE token[d]
  BY <1>1, <1>3 DEF IInv, TypeOK, PcStates
<1>5. /\ job' = job /\ tellsId' = tellsId /\ held' = held /\ result' = result
      /\ records' = records /\ live' = live \cup {n}
      /\ job[c].op = "provider" /\ pc[c] = "called"
  BY DEF CreateToken, Goto, At, setup
<1>6. n \notin DOMAIN made /\ n # None
  BY <1>1, NoneIsNoToken
<1>7. TypeOK'
  BY <1>1, <1>2, <1>4, <1>5 DEF IInv, TypeOK
<1>8. Roles'
  BY <1>4, <1>5 DEF IInv, Roles, Editing
<1>9. RowsAreLate'
  BY <1>4, <1>5 DEF IInv, RowsAreLate, Late
<1>10. HeldIsRow'
  <2> SUFFICES ASSUME NEW d \in Calls, pc[d] \in Editing, d # c
               PROVE  LET t == job[d].target IN
                        /\ held[d] # None
                        /\ pc'[t] \in Late
                        /\ records[t] # None => records[t].token = held[d].token
                        /\ pc[d] = "deleting" => (records[t] # None => records[t].status = "revoked")
                        /\ pc[d] = "marking" => held[d].token \notin live'
    BY <1>4, <1>5 DEF HeldIsRow, Editing
  <2>1. job[d].target \in Calls /\ pc[job[d].target] \in Late
    BY TargetType DEF IInv, Roles, HeldIsRow
  <2>2. held[d] # None /\ Known(held[d].token)
    BY DEF IInv, HeldIsRow, TokensKnown
  <2>3. held[d].token # n
    BY <1>6, <2>2 DEF Known
  <2> QED BY <1>4, <1>5, <2>1, <2>3 DEF IInv, HeldIsRow, Late
<1>11. TokensKnown'
  <2>1. DOMAIN made \subseteq DOMAIN made' /\ n \in DOMAIN made'
    BY <1>1, <1>2
  <2> QED BY <1>4, <1>5, <2>1 DEF IInv, TokensKnown, Known
<1>12. TokenHeld'
  BY <1>4, <1>5, <1>6 DEF IInv, TokenHeld
<1>13. RevokedTokenIsDead' /\ KeysUnambiguous'
  BY <1>5, <1>6 DEF IInv, RevokedTokenIsDead, KeysUnambiguous, TokensKnown, Known
<1> QED BY <1>7, <1>8, <1>9, <1>10, <1>11, <1>12, <1>13 DEF IInv

-----------------------------------------------------------------------------
(* The newest token of a name is one that was made.                        *)
LEMMA FindLatestInv ==
    ASSUME IInv, NEW c \in Calls, FindLatest(c)
    PROVE  IInv'
<1>1. PICK t \in live : token' = [token EXCEPT ![c] = t]
  BY DEF FindLatest
<1>2. t \in DOMAIN made /\ t \in Nat /\ t # None /\ job[c].op = "provider" /\ pc[c] = "finding"
  BY NoneIsDead DEF FindLatest, IInv, TypeOK, Roles
<1>3. /\ pc' \in [Calls -> PcStates] /\ token' \in [Calls -> Nat \cup {None}]
      /\ \A d \in Calls : pc'[d] = IF d = c THEN "fetching" ELSE pc[d]
      /\ \A d \in Calls : token'[d] = IF d = c THEN t ELSE token[d]
      /\ job' = job /\ tellsId' = tellsId /\ held' = held /\ result' = result
      /\ records' = records /\ made' = made /\ live' = live
  BY <1>1, <1>2 DEF FindLatest, Goto, IInv, TypeOK, PcStates, setup
<1>4. TypeOK'
  BY <1>3 DEF IInv, TypeOK
<1>5. Roles'
  BY <1>2, <1>3 DEF IInv, Roles, Editing
<1>6. RowsAreLate'
  BY <1>2, <1>3 DEF IInv, RowsAreLate, Late
<1>7. HeldIsRow'
  BY <1>2, <1>3, TargetType DEF IInv, HeldIsRow, Roles, Late, Editing
<1>8. TokensKnown' /\ TokenHeld'
  BY <1>2, <1>3 DEF IInv, TokensKnown, TokenHeld, Known
<1>9. RevokedTokenIsDead' /\ KeysUnambiguous'
  BY <1>3 DEF IInv, RevokedTokenIsDead, KeysUnambiguous
<1> QED BY <1>4, <1>5, <1>6, <1>7, <1>8, <1>9 DEF IInv

(* A commit adds a record whose key no other has.                          *)
LEMMA SaveInv ==
    ASSUME IInv, NEW c \in Calls, Save(c)
    PROVE  IInv'
<1>1. /\ pc[c] = "saving" /\ records[c] = None
      /\ job[c].op \in Creations /\ job[c] \in Jobs
      /\ token[c] \in Nat \cup {None} /\ Known(token[c])
      /\ job[c].op = "provider" => token[c] \in Nat
  BY DEF Save, IInv, RowsAreLate, Late, Roles, TypeOK, TokensKnown, TokenHeld
<1>2. Upstream(c) \in Nat \cup Pasted
  BY <1>1 DEF Upstream, Jobs, Creations
<1>3. ClientKey(c) \in Nat \cup Pasted \cup Calls
  BY <1>2 DEF ClientKey
<1>4. NewRecord(c) \in Records
  BY <1>1, <1>2, <1>3 DEF NewRecord, Records
<1>5. /\ NewRecord(c).status = "active" /\ NewRecord(c).token = token[c]
      /\ NewRecord(c).key = ClientKey(c)
  BY DEF NewRecord
<1> HIDE DEF NewRecord, ClientKey
<1>6. /\ pc' \in [Calls -> PcStates] /\ records' \in [Calls -> Records \cup {None}]
      /\ \A d \in Calls : pc'[d] = IF d = c THEN "saved" ELSE pc[d]
      /\ \A d \in Calls : records'[d] = IF d = c THEN NewRecord(c) ELSE records[d]
      /\ job' = job /\ tellsId' = tellsId /\ held' = held /\ result' = result
      /\ token' = token /\ made' = made /\ live' = live
  BY <1>4 DEF Save, Goto, IInv, TypeOK, PcStates, setup
<1>7. TypeOK'
  BY <1>6 DEF IInv, TypeOK
<1>8. Roles'
  BY <1>1, <1>6 DEF IInv, Roles, Editing
<1>9. RowsAreLate'
  BY <1>6 DEF IInv, RowsAreLate, Late
<1>10. HeldIsRow'
  <2> SUFFICES ASSUME NEW d \in Calls, pc[d] \in Editing, d # c
               PROVE  LET t == job[d].target IN
                        /\ held[d] # None
                        /\ pc'[t] \in Late
                        /\ records'[t] # None => records'[t].token = held[d].token
                        /\ pc[d] = "deleting" => (records'[t] # None => records'[t].status = "revoked")
                        /\ pc[d] = "marking" => held[d].token \notin live
    BY <1>1, <1>6 DEF HeldIsRow, Editing
  <2>1. job[d].target \in Calls /\ pc[job[d].target] \in Late
    BY TargetType DEF IInv, Roles, HeldIsRow
  <2>2. job[d].target # c
    BY <1>1, <2>1 DEF Late
  <2> QED BY <1>6, <2>1, <2>2 DEF IInv, HeldIsRow
<1>11. TokensKnown' /\ TokenHeld'
  BY <1>1, <1>5, <1>6 DEF IInv, TokensKnown, TokenHeld, Known
<1>12. RevokedTokenIsDead'
  BY <1>5, <1>6 DEF IInv, RevokedTokenIsDead
<1>13. KeysUnambiguous'
  BY <1>5, <1>6 DEF IInv, KeysUnambiguous, Save, KeyTaken
<1> QED BY <1>7, <1>8, <1>9, <1>10, <1>11, <1>12, <1>13 DEF IInv

(* A token is deleted at the provider.                                     *)
LEMMA DropInv ==
    ASSUME IInv, NEW c \in Calls, NEW t, NEW x \in {"done", "marking"},
           live' = live \ {t}, pc' = [pc EXCEPT ![c] = x], result' \in [Calls -> Results],
           UNCHANGED <<setup, token, held, records, made>>,
           x = "marking" => pc[c] = "revoking" /\ t = held[c].token
    PROVE  IInv'
<1>1. /\ pc' \in [Calls -> PcStates]
      /\ \A d \in Calls : pc'[d] = IF d = c THEN x ELSE pc[d]
      /\ job' = job /\ tellsId' = tellsId /\ token' = token /\ held' = held
      /\ records' = records /\ made' = made
  BY DEF IInv, TypeOK, PcStates, setup
<1>2. TypeOK'
  BY <1>1 DEF IInv, TypeOK
<1>3. Roles'
  BY <1>1 DEF IInv, Roles, Editing
<1>4. pc[c] \in Late => x = "done"
  BY DEF Late
<1>5. RowsAreLate'
  BY <1>1, <1>4 DEF IInv, RowsAreLate, Late
<1>6. HeldIsRow'
  BY <1>1, <1>4, TargetType DEF IInv, HeldIsRow, Roles, Editing, Late
<1>7. TokensKnown' /\ TokenHeld'
  BY <1>1 DEF IInv, TokensKnown, TokenHeld, Known
<1>8. RevokedTokenIsDead' /\ KeysUnambiguous'
  BY <1>1 DEF IInv, RevokedTokenIsDead, KeysUnambiguous
<1> QED BY <1>2, <1>3, <1>5, <1>6, <1>7, <1>8 DEF IInv

(* An edit writes the columns it changes, or deletes the row.              *)
LEMMA RowInv ==
    ASSUME IInv, NEW c \in Calls, pc[c] \in Editing,
           NEW row \in Records \cup {None},
           row # None => /\ Target(c) # None
                         /\ row.token = Target(c).token /\ row.key = Target(c).key
                         /\ Target(c).status = "revoked" => row.status = "revoked"
                         /\ row.status = "revoked" => row.token \notin live,
           records' = [records EXCEPT ![job[c].target] = row],
           pc' = [pc EXCEPT ![c] = "done"], result' \in [Calls -> Results],
           UNCHANGED <<setup, token, held, made, live>>
    PROVE  IInv'
<1> DEFINE r == job[c].target
<1>1. r \in Calls
  BY TargetType DEF IInv, Roles
<1>2. /\ pc' \in [Calls -> PcStates] /\ records' \in [Calls -> Records \cup {None}]
      /\ \A d \in Calls : pc'[d] = IF d = c THEN "done" ELSE pc[d]
      /\ \A d \in Calls : records'[d] = IF d = r THEN row ELSE records[d]
      /\ job' = job /\ tellsId' = tellsId /\ held' = held
      /\ token' = token /\ made' = made /\ live' = live
  BY <1>1 DEF IInv, TypeOK, PcStates, setup
<1>3. row # None => /\ records[r] # None
                    /\ row.token = records[r].token /\ row.key = records[r].key
                    /\ records[r].status = "revoked" => row.status = "revoked"
                    /\ row.status = "revoked" => row.token \notin live
  BY DEF Target
<1>4. TypeOK'
  BY <1>2 DEF IInv, TypeOK
<1>5. Roles'
  BY <1>2 DEF IInv, Roles, Editing
<1>6. RowsAreLate'
  BY <1>2, <1>3 DEF IInv, RowsAreLate, Late
<1>7. HeldIsRow'
  <2> SUFFICES ASSUME NEW d \in Calls, pc[d] \in Editing
               PROVE  LET t == job[d].target IN
                        /\ held[d] # None
                        /\ pc'[t] \in Late
                        /\ records'[t] # None => records'[t].token = held[d].token
                        /\ pc[d] = "deleting" => (records'[t] # None => records'[t].status = "revoked")
                        /\ pc[d] = "marking" => held[d].token \notin live
    BY <1>2 DEF HeldIsRow, Editing
  <2>1. job[d].target \in Calls
    BY TargetType DEF IInv, Roles
  <2> QED BY <1>2, <1>3, <2>1 DEF IInv, HeldIsRow, Late
<1>8. TokensKnown' /\ TokenHeld'
  BY <1>2, <1>3 DEF IInv, TokensKnown, TokenHeld, Known
<1>9. RevokedTokenIsDead' /\ KeysUnambiguous'
  BY <1>2, <1>3 DEF IInv, RevokedTokenIsDead, KeysUnambiguous
<1> QED BY <1>4, <1>5, <1>6, <1>7, <1>8, <1>9 DEF IInv

-----------------------------------------------------------------------------
(* Steps of a creation.                                                    *)
LEMMA CreateInv ==
    ASSUME IInv, NEW c \in Calls, Create(c)
    PROVE  IInv'
<1>0. \A told \in Results : [result EXCEPT ![c] = told] \in [Calls -> Results]
  BY DEF IInv, TypeOK
<1>1. CASE FetchKey(c)
  <2>1. job[c].op = "provider" /\ pc[c] = "fetching"
    BY <1>1 DEF FetchKey, IInv, Roles
  <2> QED BY <1>1, <2>1, MoveInv DEF FetchKey, Goto, IInv, TypeOK, TokenHeld, PcStates, Editing,
             Late, Creations
<1>2. CASE CreateManual(c)
  BY <1>2, MoveInv DEF CreateManual, At, Goto, IInv, TypeOK, PcStates, Editing, Late, Creations
<1>3. CASE CheckKey(c)
  <2>1. /\ job[c].op \in Creations /\ pc[c] = "checking"
        /\ job[c].op = "provider" => token[c] # None
    BY <1>3 DEF CheckKey, IInv, Roles, TokenHeld
  <2> QED BY <1>3, <2>1, MoveInv DEF CheckKey, Goto, IInv, TypeOK, PcStates, Editing, Late
<1>4. CASE Created(c)
  BY <1>0, <1>4, MoveInv DEF Created, End, Results, PcStates, Editing, Late
<1>5. CASE SaveFails(c)
  <2>1. job[c].op \in Creations
    BY <1>5 DEF SaveFails, IInv, Roles
  <2>2. PICK x \in {"compensating", "done"} :
        /\ pc' = [pc EXCEPT ![c] = x] /\ result' \in [Calls -> Results]
        /\ UNCHANGED <<setup, token, held, records, made, live>>
    BY <1>0, <1>5 DEF SaveFails, Goto, End, Results, IInv, TypeOK
  <2> QED BY <2>1, <2>2, MoveInv DEF PcStates, Editing, Late
<1>6. CASE Compensate(c)
  BY <1>0, <1>6, DropInv DEF Compensate, End, Results
<1> QED BY <1>1, <1>2, <1>3, <1>4, <1>5, <1>6, CreateTokenInv, FindLatestInv, SaveInv DEF Create

(* Steps of an edit.                                                       *)
LEMMA EditInv ==
    ASSUME IInv, NEW c \in Calls, Edit(c)
    PROVE  IInv'
<1>0. \A told \in Results : [result EXCEPT ![c] = told] \in [Calls -> Results]
  BY DEF IInv, TypeOK
<1> DEFINE r == job[c].target
<1>1. CASE ReadForRevoke(c)
  <2>1. PICK x \in {"revoking", "marking"} :
        Read(c, x) /\ (x = "marking" /\ Target(c) # None => Target(c).token = None)
    BY <1>1 DEF ReadForRevoke
  <2> QED BY <1>1, <2>1, ReadInv DEF ReadForRevoke, At, Edits, Editing
<1>2. CASE RevokeUpstream(c)
  BY <1>2, DropInv DEF RevokeUpstream, Goto, IInv, TypeOK
<1>3. CASE Mark(c)
  <2>1. pc[c] \in Editing /\ r \in Calls /\ pc[c] = "marking"
    BY <1>3, TargetType DEF Mark, Editing, IInv, Roles
  <2>2. CASE Target(c) = None
    BY <1>0, <1>3, <2>2, MoveInv DEF Mark, End, Results, PcStates, Editing, Late
  <2>3. CASE Target(c) # None
    <3> DEFINE row == [Target(c) EXCEPT !.status = "revoked"]
    <3>1. Target(c) \in Records /\ Target(c).token \notin live
      BY <2>1, <2>3 DEF Target, IInv, TypeOK, HeldIsRow
    <3>2. /\ row \in Records /\ row.status = "revoked"
          /\ row.token = Target(c).token /\ row.key = Target(c).key
      BY <3>1 DEF Records
    <3>3. records' = [records EXCEPT ![r] = row]
      BY <1>3, <2>1, <2>3 DEF Mark, Target, IInv, TypeOK
    <3>4. pc' = [pc EXCEPT ![c] = "done"] /\ result' \in [Calls -> Results]
          /\ UNCHANGED <<setup, token, held, made, live>>
      BY <1>0, <1>3, <2>3 DEF Mark, End, Results
    <3> HIDE DEF row
    <3> QED BY <2>1, <2>3, <3>1, <3>2, <3>3, <3>4, RowInv
  <2> QED BY <2>2, <2>3
<1>4. CASE ReadForDelete(c)
  <2>1. CASE Target(c) # None /\ Target(c).status # "revoked"
    BY <1>0, <1>4, <2>1, MoveInv DEF ReadForDelete, At, End, Results, PcStates, Editing, Late
  <2>2. CASE ~(Target(c) # None /\ Target(c).status # "revoked")
    BY <1>4, <2>2, ReadInv DEF ReadForDelete, At, Edits, Editing
  <2> QED BY <2>1, <2>2
<1>5. CASE Delete(c)
  BY <1>0, <1>5, RowInv DEF Delete, End, Results, Editing
<1>6. CASE Lookup(c)
  BY <1>6, ReadInv DEF Lookup, At, Edits, Editing
<1>7. CASE ReadForReplace(c)
  <2>1. pc[c] \in {"called", "found"} /\ job[c].op \in {"replace", "bulk"} /\ job[c].op \in Edits
    BY <1>7 DEF ReadForReplace, At, Edits
  <2>2. CASE job[c].op = "bulk" /\ Target(c) = None
    BY <1>0, <1>7, <2>1, <2>2, MoveInv DEF ReadForReplace, End, Results, PcStates, Editing, Late
  <2>3. CASE ~(job[c].op = "bulk" /\ Target(c) = None)
    BY <1>7, <2>1, <2>3, ReadInv DEF ReadForReplace, Editing
  <2> QED BY <2>2, <2>3
<1>8. CASE Replace(c)
  <2>1. pc[c] \in Editing /\ r \in Calls /\ Target(c) \in Records /\ job[c].key \in Pasted
    <3>1. pc[c] \in Editing /\ r \in Calls
      BY <1>8, TargetType DEF Replace, Editing, IInv, Roles
    <3>2. Target(c) \in Records
      BY <1>8, <3>1 DEF Replace, Target, IInv, TypeOK
    <3>3. job[c].op \in {"replace", "bulk"} /\ job[c] \in Jobs
      BY <1>8 DEF Replace, IInv, Roles, TypeOK
    <3> QED BY <3>1, <3>2, <3>3 DEF Jobs
  <2> DEFINE row == [Target(c) EXCEPT !.secret = job[c].key]
  <2>2. /\ row \in Records /\ row.status = Target(c).status
        /\ row.token = Target(c).token /\ row.key = Target(c).key
    BY <2>1 DEF Records
  <2>3. records' = [records EXCEPT ![r] = row]
    BY <1>8, <2>1 DEF Replace, Target, IInv, TypeOK
  <2>4. pc' = [pc EXCEPT ![c] = "done"] /\ result' \in [Calls -> Results]
        /\ UNCHANGED <<setup, token, held, made, live>> /\ Target(c) # None
    BY <1>0, <1>8 DEF Replace, End, Results
  <2>5. Target(c).status = "revoked" => Target(c).token \notin live
    BY <2>1, <2>4 DEF Target, IInv, RevokedTokenIsDead
  <2> HIDE DEF row
  <2> QED BY <2>1, <2>2, <2>3, <2>4, <2>5, RowInv
<1> QED BY <1>1, <1>2, <1>3, <1>4, <1>5, <1>6, <1>7, <1>8 DEF Edit

(* The invariant is kept by every step.                                    *)
LEMMA NextInv == IInv /\ [Next]_vars => IInv'
<1> SUFFICES ASSUME IInv, [Next]_vars PROVE IInv'
  OBVIOUS
<1>1. ASSUME NEW c \in Calls, Abandon(c) PROVE IInv'
  <2>1. result' \in [Calls -> Results]
    BY <1>1 DEF Abandon, End, IInv, TypeOK, Results
  <2> QED BY <1>1, <2>1, MoveInv DEF Abandon, End, PcStates, Editing, Late
<1>2. CASE UNCHANGED vars
  BY <1>2 DEF vars, setup, IInv, TypeOK, Roles, RowsAreLate, HeldIsRow, TokensKnown, TokenHeld,
              Known, RevokedTokenIsDead, KeysUnambiguous
<1> QED BY <1>1, <1>2, CreateInv, EditInv DEF Next, Quiet

(* The invariant always holds.                                             *)
THEOREM Invariant == Spec => []IInv
BY InitInv, NextInv, PTL DEF Spec

(* Every variable keeps its type.                                          *)
THEOREM TypeCorrect == Spec => []TypeOK
BY Invariant, PTL DEF IInv

(* A record marked revoked has no live token, for any number of calls that *)
(* create, revoke, delete and replace at once and fail anywhere.           *)
THEOREM RevocationsAreReal == Spec => []RevokedTokenIsDead
BY Invariant, PTL DEF IInv

(* No two records ever share a client's key.                               *)
THEOREM ClientKeysUnique == Spec => []KeysUnambiguous
BY Invariant, PTL DEF IInv

(* A step never undoes a revocation, and deletes only revoked records.     *)
LEMMA RevocationStep ==
    ASSUME IInv, [Next]_vars, NEW r \in Calls, records[r] # None
    PROVE  IF records'[r] = None THEN records[r].status = "revoked"
           ELSE /\ records[r].status = "revoked" => records'[r].status = "revoked"
                /\ records'[r].token = records[r].token /\ records'[r].key = records[r].key
<1>0. records \in [Calls -> Records \cup {None}] /\ records[r] \in Records
  BY DEF IInv, TypeOK
<1>1. ASSUME NEW c \in Calls, Create(c) PROVE records'[r] = records[r]
  <2>1. CASE Save(c)
    <3>1. c # r
      BY <2>1 DEF Save, IInv, RowsAreLate, Late
    <3> QED BY <1>0, <2>1, <3>1 DEF Save
  <2>2. CASE ~Save(c)
    BY <1>1, <2>2 DEF Create, CreateToken, FindLatest, FetchKey, CreateManual, CheckKey,
                      Created, SaveFails, Compensate
  <2> QED BY <2>1, <2>2
<1>2. ASSUME NEW c \in Calls, Edit(c), ~Mark(c), ~Delete(c), ~Replace(c) PROVE records' = records
  BY <1>2 DEF Edit, ReadForRevoke, RevokeUpstream, ReadForDelete, Lookup, ReadForReplace, Read
<1>3. ASSUME NEW c \in Calls, Mark(c) \/ Delete(c) \/ Replace(c), job[c].target # r
      PROVE  records'[r] = records[r]
  BY <1>0, <1>3 DEF Mark, Delete, Replace
<1>4. ASSUME NEW c \in Calls, Mark(c), job[c].target = r
      PROVE  records'[r] = [records[r] EXCEPT !.status = "revoked"]
  BY <1>0, <1>4 DEF Mark, Target
<1>5. ASSUME NEW c \in Calls, Delete(c), job[c].target = r
      PROVE  records'[r] = None /\ records[r].status = "revoked"
  BY <1>0, <1>5 DEF Delete, IInv, HeldIsRow, Editing
<1>6. ASSUME NEW c \in Calls, Replace(c), job[c].target = r
      PROVE  records'[r] = [records[r] EXCEPT !.secret = job[c].key]
  BY <1>0, <1>6 DEF Replace, Target
<1>7. ASSUME NEW c \in Calls, Abandon(c) PROVE records' = records
  BY <1>7 DEF Abandon
<1>8. ASSUME NEW c \in Calls, Mark(c) \/ Replace(c), job[c].target = r
      PROVE  /\ records'[r] # None
             /\ records'[r].token = records[r].token /\ records'[r].key = records[r].key
             /\ records[r].status = "revoked" => records'[r].status = "revoked"
  <2>1. records'[r] \in Records
    <3>1. CASE Mark(c)
      BY <1>0, <1>4, <1>8, <3>1 DEF Records
    <3>2. CASE Replace(c)
      <4>1. job[c].key \in Pasted
        BY <3>2 DEF Replace, IInv, Roles, TypeOK, Jobs
      <4> QED BY <1>0, <1>6, <1>8, <3>2, <4>1 DEF Records
    <3> QED BY <1>8, <3>1, <3>2
  <2> QED BY <1>0, <1>4, <1>6, <1>8, <2>1, NoneIsNoRecord DEF Records
<1>9. CASE UNCHANGED vars
  BY <1>9 DEF vars
<1> QED BY <1>1, <1>2, <1>3, <1>5, <1>7, <1>8, <1>9 DEF Next, Quiet

(* Revocation is final, for any number of calls.                           *)
THEOREM RevocationsAreFinal == Spec => RevocationIsFinal
<1>1. IInv /\ [Next]_vars => [\A r \in Calls : records[r] # None =>
          IF records'[r] = None THEN records[r].status = "revoked"
          ELSE /\ records[r].status = "revoked" => records'[r].status = "revoked"
               /\ records'[r].token = records[r].token /\ records'[r].key = records[r].key]_vars
  BY RevocationStep
<1> QED BY <1>1, Invariant, PTL DEF Spec, RevocationIsFinal

-----------------------------------------------------------------------------
(* Records and tokens, for a provider that names the token it has made.    *)
(* An answer is the last thing of a call.                                  *)
Ended == \A c \in Calls : result[c] # "none" => pc[c] = "done"
Revokers == \A c \in Calls : pc[c] \in {"revoking", "marking"} => job[c].op = "revoke"

(* Each creation has the token it made, and no other has.                  *)
OwnTokens ==
    /\ \A c \in Calls : /\ pc[c] # "finding"
                        /\ pc[c] = "called" => token[c] = None
                        /\ token[c] # None => token[c] \in DOMAIN made /\ made[token[c]] = c
    /\ \A t \in DOMAIN made : token[made[t]] = t

(* A record, and what an edit has read of it, is about its own token.      *)
RowTokens == \A c \in Calls :
    /\ records[c] # None => records[c].token = token[c]
    /\ pc[c] \in Editing => held[c].token = token[job[c].target]

AliveUntilSaved == \A c \in Calls :
    job[c].op = "provider" /\ pc[c] \in {"fetching", "checking", "saving"} => token[c] \in live

(* A record goes only after its token.                                     *)
GoneWithRow == \A c \in Calls :
    job[c].op = "provider" /\ (pc[c] = "saved" \/ result[c] = "ok") /\ records[c] = None
        => token[c] \notin live

(* The token of an active record is gone because its creation failed, or   *)
(* because of a revocation that has got no further.                        *)
Revoked(r, e) == /\ job[e].op = "revoke" /\ job[e].target = r
                 /\ pc[e] = "marking" \/ result[e] = "error"
Missed == \A r \in Calls :
    /\ records[r] # None /\ records[r].status = "active" /\ token[r] # None
    /\ result[r] # "error" /\ token[r] \notin live
    => \E e \in Calls : Revoked(r, e)

Together == OwnTokens /\ RowTokens /\ AliveUntilSaved /\ GoneWithRow /\ Missed
TInv == Ended /\ Revokers /\ (tellsId => Together)

LEMMA InitTogether == Init => TInv
<1> SUFFICES ASSUME Init PROVE TInv
  OBVIOUS
<1>1. /\ \A c \in Calls : /\ pc[c] = "called" /\ token[c] = None /\ result[c] = "none"
                          /\ records[c] = None
      /\ made = <<>> /\ live = {}
  BY DEF Init
<1>2. Ended /\ Revokers  BY <1>1 DEF Ended, Revokers
<1>3. OwnTokens /\ RowTokens  BY <1>1 DEF OwnTokens, RowTokens, Editing
<1>4. AliveUntilSaved /\ GoneWithRow /\ Missed
  BY <1>1 DEF AliveUntilSaved, GoneWithRow, Missed
<1> QED  BY <1>2, <1>3, <1>4 DEF TInv, Together

(* A call that only moves on, or ends.                                     *)
LEMMA MoveTogether ==
    ASSUME IInv, TInv, NEW c \in Calls, NEW x \in PcStates \ (Editing \cup {"called", "finding", "saved"}),
           NEW told \in Results,
           pc[c] # "done", pc' = [pc EXCEPT ![c] = x], result' = [result EXCEPT ![c] = told],
           UNCHANGED <<setup, token, held, records, made, live>>,
           told # "none" => x = "done",
           told = "ok" /\ job[c].op = "provider" => pc[c] = "saved",
           tellsId /\ job[c].op = "provider" /\ x \in {"fetching", "checking", "saving"}
              => token[c] \in live,
           pc[c] = "marking" => told = "error" \/ Target(c) = None
    PROVE  TInv'
<1>1. /\ \A d \in Calls : pc'[d] = IF d = c THEN x ELSE pc[d]
      /\ \A d \in Calls : result'[d] = IF d = c THEN told ELSE result[d]
      /\ job' = job /\ tellsId' = tellsId /\ token' = token /\ held' = held
      /\ records' = records /\ made' = made /\ live' = live
  BY DEF IInv, TypeOK, setup
<1>2. result[c] = "none"  BY DEF TInv, Ended
<1>3. Ended' /\ Revokers'  BY <1>1, <1>2 DEF TInv, Ended, Revokers, Editing
<1>4. ASSUME tellsId PROVE Together'
  <2>1. Together  BY <1>4 DEF TInv
  <2>2. OwnTokens'  BY <1>1, <2>1 DEF Together, OwnTokens
  <2>3. RowTokens'  BY <1>1, <2>1 DEF Together, RowTokens
  <2>4. AliveUntilSaved'  BY <1>1, <1>4, <2>1 DEF Together, AliveUntilSaved
  <2>5. GoneWithRow'  BY <1>1, <2>1 DEF Together, GoneWithRow
  <2>6. Missed'
    <3> SUFFICES ASSUME NEW r \in Calls, records[r] # None, records[r].status = "active",
                        token[r] # None, result'[r] # "error", token[r] \notin live
                 PROVE  \E e \in Calls : Revoked(r, e)'
      BY <1>1 DEF Missed
    <3>1. result[r] # "error"  BY <1>1, <1>2
    <3>2. PICK e \in Calls : Revoked(r, e)  BY <2>1, <3>1 DEF Together, Missed
    <3>3. Revoked(r, e)'
      <4>1. CASE e # c  BY <1>1, <3>2, <4>1 DEF Revoked
      <4>2. CASE e = c  BY <1>1, <1>2, <3>2, <4>2 DEF Revoked, Target
      <4> QED  BY <4>1, <4>2
    <3> QED  BY <3>3
  <2> QED  BY <2>2, <2>3, <2>4, <2>5, <2>6 DEF Together
<1> QED  BY <1>1, <1>3, <1>4 DEF TInv

(* What an edit reads is about its record's token.                         *)
LEMMA ReadTogether ==
    ASSUME IInv, TInv, NEW c \in Calls, NEW x \in Editing, Read(c, x),
           job[c].op \in Edits, pc[c] \in {"called", "found"},
           x \in {"revoking", "marking"} => job[c].op = "revoke"
    PROVE  TInv'
<1> DEFINE r == job[c].target
<1>1. r \in Calls  BY TargetType DEF IInv
<1>2. CASE Target(c) = None
  <2>1. /\ pc' = [pc EXCEPT ![c] = "done"] /\ result' = [result EXCEPT ![c] = "missing"]
        /\ UNCHANGED <<setup, token, held, records, made, live>>
    BY <1>2 DEF Read, End
  <2> QED  BY <2>1, MoveTogether DEF PcStates, Editing, Results
<1>3. CASE Target(c) # None
  <2>1. /\ \A d \in Calls : pc'[d] = IF d = c THEN x ELSE pc[d]
        /\ \A d \in Calls : held'[d] = IF d = c THEN records[r] ELSE held[d]
        /\ job' = job /\ tellsId' = tellsId /\ token' = token /\ result' = result
        /\ records' = records /\ made' = made /\ live' = live /\ records[r] # None
    BY <1>1, <1>3 DEF Read, Goto, Target, IInv, TypeOK, PcStates, Editing, setup
  <2>2. Ended'  BY <2>1 DEF TInv, Ended
  <2>3. Revokers'  BY <2>1 DEF TInv, Revokers
  <2>4. ASSUME tellsId PROVE Together'
    <3>1. Together  BY <2>4 DEF TInv
    <3>2. OwnTokens'  BY <2>1, <3>1 DEF Together, OwnTokens, Editing
    <3>3. RowTokens'  BY <1>1, <2>1, <3>1 DEF Together, RowTokens
    <3>4. AliveUntilSaved'  BY <2>1, <3>1 DEF Together, AliveUntilSaved, Editing
    <3>5. GoneWithRow'  BY <2>1, <3>1 DEF Together, GoneWithRow, Editing
    <3>6. Missed'
      <4>1. \A q, e \in Calls : Revoked(q, e) => Revoked(q, e)'  BY <2>1 DEF Revoked
      <4> QED  BY <2>1, <3>1, <4>1 DEF Together, Missed
    <3> QED  BY <3>2, <3>3, <3>4, <3>5, <3>6 DEF Together
  <2> QED  BY <2>1, <2>2, <2>3, <2>4 DEF TInv
<1> QED  BY <1>2, <1>3

(* A new token is the creation's own.                                      *)
LEMMA CreateTokenTogether ==
    ASSUME IInv, TInv, NEW c \in Calls, CreateToken(c)
    PROVE  TInv'
<1> DEFINE n == Len(made) + 1
<1>1. /\ Len(made) \in Nat /\ DOMAIN made = 1 .. Len(made) /\ made \in Seq(Calls)
      /\ live \subseteq DOMAIN made
  BY DEF IInv, TypeOK
<1>2. /\ DOMAIN made' = DOMAIN made \cup {n} /\ made'[n] = c
      /\ \A t \in DOMAIN made : made'[t] = made[t]
  BY <1>1 DEF CreateToken
<1>3. n \notin DOMAIN made /\ n # None  BY <1>1, NoneIsNoToken
<1>4. /\ \A d \in Calls : d # c => pc'[d] = pc[d]
      /\ pc[c] = "called" /\ pc'[c] \in {"fetching", "finding"} /\ job[c].op = "provider"
      /\ job' = job /\ tellsId' = tellsId /\ held' = held /\ result' = result
      /\ records' = records /\ live' = live \cup {n}
      /\ tellsId => /\ pc'[c] = "fetching"
                    /\ \A d \in Calls : token'[d] = IF d = c THEN n ELSE token[d]
  BY DEF CreateToken, Goto, At, setup, IInv, TypeOK
<1>5. Ended' /\ Revokers'  BY <1>4 DEF TInv, Ended, Revokers
<1>6. ASSUME tellsId PROVE Together'
  <2>1. Together /\ token[c] = None /\ records[c] = None
    BY <1>4, <1>6 DEF TInv, Together, OwnTokens, IInv, RowsAreLate, Late
  <2>2. pc'[c] = "fetching" /\ \A d \in Calls : token'[d] = IF d = c THEN n ELSE token[d]
    BY <1>4, <1>6
  <2> HIDE DEF n
  <2>3. \A t \in DOMAIN made : made[t] \in Calls /\ made[t] # c
    <3>1. \A t \in DOMAIN made : made[t] \in Calls /\ t # None  BY <1>1, NoneIsNoToken
    <3> QED  BY <2>1, <3>1 DEF Together, OwnTokens
  <2>4. OwnTokens'  BY <1>2, <1>3, <1>4, <2>1, <2>2, <2>3 DEF Together, OwnTokens
  <2>5. RowTokens'
    <3>1. \A d \in Calls : pc[d] \in Editing => job[d].target \in Calls /\ job[d].target # c
      BY <1>4, TargetType DEF IInv, Roles, HeldIsRow, Late
    <3> QED  BY <1>4, <2>1, <2>2, <3>1 DEF Together, RowTokens, Editing
  <2>6. AliveUntilSaved'  BY <1>4, <2>1, <2>2 DEF Together, AliveUntilSaved
  <2>7. GoneWithRow'
    <3>1. \A d \in Calls : token[d] # n  BY <1>3, <2>1 DEF Together, OwnTokens
    <3>2. result[c] = "none"  BY <1>4 DEF TInv, Ended
    <3> QED  BY <1>4, <2>1, <2>2, <3>1, <3>2 DEF Together, GoneWithRow
  <2>8. Missed'
    <3>1. \A q, e \in Calls : Revoked(q, e) => Revoked(q, e)'  BY <1>4 DEF Revoked
    <3> QED  BY <1>4, <2>1, <2>2, <3>1 DEF Together, Missed
  <2> QED  BY <2>4, <2>5, <2>6, <2>7, <2>8 DEF Together
<1> QED  BY <1>4, <1>5, <1>6 DEF TInv

(* A provider that names its tokens is not asked for the newest.           *)
LEMMA FindLatestTogether ==
    ASSUME IInv, TInv, NEW c \in Calls, FindLatest(c)
    PROVE  TInv'
<1>1. /\ \A d \in Calls : pc'[d] = IF d = c THEN "fetching" ELSE pc[d]
      /\ job' = job /\ tellsId' = tellsId /\ result' = result /\ pc[c] = "finding"
  BY DEF FindLatest, Goto, setup, IInv, TypeOK
<1>2. Ended' /\ Revokers'  BY <1>1 DEF TInv, Ended, Revokers
<1>3. ~tellsId  BY <1>1 DEF TInv, Together, OwnTokens
<1> QED  BY <1>1, <1>2, <1>3 DEF TInv

(* A record is saved with a token that lives.                              *)
LEMMA SaveTogether ==
    ASSUME IInv, TInv, NEW c \in Calls, Save(c)
    PROVE  TInv'
<1>1. /\ pc[c] = "saving" /\ records[c] = None /\ job[c].op \in Creations
      /\ NewRecord(c).token = token[c] /\ NewRecord(c) # None
  <2>1. NewRecord(c).token = token[c]  BY DEF NewRecord
  <2>2. NewRecord(c) \in Records
    <3>1. /\ job[c].op \in Creations /\ job[c] \in Jobs /\ token[c] \in Nat \cup {None}
          /\ job[c].op = "provider" => token[c] \in Nat
      BY DEF Save, IInv, Roles, TypeOK, TokenHeld
    <3>2. Upstream(c) \in Nat \cup Pasted  BY <3>1 DEF Upstream, Jobs, Creations
    <3>3. ClientKey(c) \in Nat \cup Pasted \cup Calls  BY <3>2 DEF ClientKey
    <3> QED  BY <3>1, <3>2, <3>3 DEF NewRecord, Records
  <2> QED  BY <2>1, <2>2, NoneIsNoRecord DEF Save, IInv, RowsAreLate, Late, Roles
<1> HIDE DEF NewRecord
<1>2. /\ \A d \in Calls : pc'[d] = IF d = c THEN "saved" ELSE pc[d]
      /\ \A d \in Calls : records'[d] = IF d = c THEN NewRecord(c) ELSE records[d]
      /\ job' = job /\ tellsId' = tellsId /\ held' = held /\ result' = result
      /\ token' = token /\ made' = made /\ live' = live
  BY DEF Save, Goto, IInv, TypeOK, setup
<1>3. Ended' /\ Revokers'  BY <1>1, <1>2 DEF TInv, Ended, Revokers
<1>4. ASSUME tellsId PROVE Together'
  <2>1. Together  BY <1>4 DEF TInv
  <2>2. OwnTokens'  BY <1>2, <2>1 DEF Together, OwnTokens
  <2>3. RowTokens'  BY <1>1, <1>2, <2>1 DEF Together, RowTokens, Editing
  <2>4. AliveUntilSaved'  BY <1>2, <2>1 DEF Together, AliveUntilSaved
  <2>5. GoneWithRow'  BY <1>1, <1>2, <2>1 DEF Together, GoneWithRow
  <2>6. Missed'
    <3>1. \A q, e \in Calls : Revoked(q, e) => Revoked(q, e)'  BY <1>1, <1>2 DEF Revoked
    <3>2. token[c] = None \/ token[c] \in live
      BY <1>1, <2>1 DEF Together, AliveUntilSaved, IInv, TokenHeld
    <3> QED  BY <1>2, <2>1, <3>1, <3>2 DEF Together, Missed
  <2> QED  BY <2>2, <2>3, <2>4, <2>5, <2>6 DEF Together
<1> QED  BY <1>2, <1>3, <1>4 DEF TInv

(* A creation takes back its own token, and has failed.                    *)
LEMMA CompensateTogether ==
    ASSUME IInv, TInv, NEW c \in Calls, Compensate(c)
    PROVE  TInv'
<1>1. /\ \A d \in Calls : pc'[d] = IF d = c THEN "done" ELSE pc[d]
      /\ \A d \in Calls : result'[d] = IF d = c THEN "error" ELSE result[d]
      /\ job' = job /\ tellsId' = tellsId /\ token' = token /\ held' = held
      /\ records' = records /\ made' = made /\ live' = live \ {token[c]}
      /\ pc[c] = "compensating"
  BY DEF Compensate, End, IInv, TypeOK, setup
<1>2. Ended' /\ Revokers'  BY <1>1 DEF TInv, Ended, Revokers
<1>3. ASSUME tellsId PROVE Together'
  <2>1. Together  BY <1>3 DEF TInv
  <2>2. \A d \in Calls : d # c /\ token[d] # None => token[d] # token[c]
    BY <2>1 DEF Together, OwnTokens
  <2>3. OwnTokens' /\ RowTokens'  BY <1>1, <2>1 DEF Together, OwnTokens, RowTokens, Editing
  <2>4. AliveUntilSaved'
    BY <1>1, <2>1, <2>2, NoneIsDead DEF Together, AliveUntilSaved, IInv
  <2>5. GoneWithRow'  BY <1>1, <2>1 DEF Together, GoneWithRow
  <2>6. Missed'
    <3>1. \A q, e \in Calls : Revoked(q, e) => Revoked(q, e)'  BY <1>1 DEF Revoked
    <3> QED  BY <1>1, <2>1, <2>2, <3>1 DEF Together, Missed
  <2> QED  BY <2>3, <2>4, <2>5, <2>6 DEF Together
<1> QED  BY <1>1, <1>2, <1>3 DEF TInv

(* A revocation takes its record's token, and has not marked it yet.       *)
LEMMA RevokeUpstreamTogether ==
    ASSUME IInv, TInv, NEW c \in Calls, RevokeUpstream(c)
    PROVE  TInv'
<1> DEFINE r == job[c].target
<1>1. /\ \A d \in Calls : pc'[d] = IF d = c THEN "marking" ELSE pc[d]
      /\ job' = job /\ tellsId' = tellsId /\ token' = token /\ held' = held /\ result' = result
      /\ records' = records /\ made' = made /\ live' = live \ {held[c].token}
      /\ pc[c] = "revoking"
  BY DEF RevokeUpstream, Goto, IInv, TypeOK, setup
<1>2. job[c].op = "revoke" /\ r \in Calls /\ pc[r] \in Late
  BY <1>1, TargetType DEF TInv, Revokers, Edits, IInv, HeldIsRow, Editing
<1>3. Ended' /\ Revokers'  BY <1>1, <1>2 DEF TInv, Ended, Revokers
<1>4. ASSUME tellsId PROVE Together'
  <2>1. Together  BY <1>4 DEF TInv
  <2>2. held[c].token = token[r]  BY <1>1, <2>1 DEF Together, RowTokens, Editing
  <2>3. \A d \in Calls : d # r /\ token[d] # None => token[d] # token[r]
    BY <1>2, <2>1 DEF Together, OwnTokens
  <2>4. OwnTokens' /\ RowTokens'  BY <1>1, <2>1 DEF Together, OwnTokens, RowTokens, Editing
  <2>5. AliveUntilSaved'
    BY <1>1, <1>2, <2>1, <2>2, <2>3, NoneIsDead DEF Together, AliveUntilSaved, Late, IInv
  <2>6. GoneWithRow'  BY <1>1, <2>1 DEF Together, GoneWithRow
  <2>7. Missed'
    <3>1. \A q, e \in Calls : Revoked(q, e) => Revoked(q, e)'  BY <1>1 DEF Revoked
    <3>2. Revoked(r, c)'  BY <1>1, <1>2 DEF Revoked
    <3> QED  BY <1>1, <2>1, <2>2, <2>3, <3>1, <3>2 DEF Together, Missed
  <2> QED  BY <2>4, <2>5, <2>6, <2>7 DEF Together
<1> QED  BY <1>1, <1>3, <1>4 DEF TInv

(* Marking, replacing and deleting leave the row's token as it is; only a  *)
(* marking ends a revocation that had taken the token, and only a row      *)
(* whose token is gone is deleted.                                         *)
LEMMA RowTogether ==
    ASSUME IInv, TInv, NEW c \in Calls, pc[c] \in Editing,
           NEW row \in Records \cup {None},
           IF row = None THEN Target(c) # None => Target(c).status = "revoked"
           ELSE /\ Target(c) # None /\ row.token = Target(c).token
                /\ row.status = "active" => Target(c).status = "active" /\ pc[c] # "marking",
           pc[c] = "marking" => row # None,
           records' = [records EXCEPT ![job[c].target] = row],
           pc' = [pc EXCEPT ![c] = "done"], result' = [result EXCEPT ![c] = "ok"],
           UNCHANGED <<setup, token, held, made, live>>
    PROVE  TInv'
<1> DEFINE r == job[c].target
<1>1. r \in Calls /\ job[c].op # "provider"  BY TargetType DEF IInv, Roles, Edits
<1>2. /\ \A d \in Calls : pc'[d] = IF d = c THEN "done" ELSE pc[d]
      /\ \A d \in Calls : result'[d] = IF d = c THEN "ok" ELSE result[d]
      /\ \A d \in Calls : records'[d] = IF d = r THEN row ELSE records[d]
      /\ job' = job /\ tellsId' = tellsId /\ held' = held
      /\ token' = token /\ made' = made /\ live' = live
  BY <1>1 DEF IInv, TypeOK, setup
<1>3. result[c] = "none"  BY DEF TInv, Ended, Editing
<1>4. Ended' /\ Revokers'  BY <1>2 DEF TInv, Ended, Revokers
<1>5. ASSUME tellsId PROVE Together'
  <2>1. Together  BY <1>5 DEF TInv
  <2>2. OwnTokens'  BY <1>2, <2>1 DEF Together, OwnTokens
  <2>3. RowTokens'  BY <1>1, <1>2, <2>1 DEF Together, RowTokens, Target, Editing
  <2>4. AliveUntilSaved'  BY <1>2, <2>1 DEF Together, AliveUntilSaved
  <2>5. GoneWithRow'
    <3>1. row = None /\ records[r] # None => token[r] \notin live
      BY <1>1, <2>1 DEF Together, RowTokens, Target, IInv, RevokedTokenIsDead
    <3> QED  BY <1>1, <1>2, <2>1, <3>1 DEF Together, GoneWithRow
  <2>6. Missed'
    <3> SUFFICES ASSUME NEW q \in Calls, records'[q] # None, records'[q].status = "active",
                        token[q] # None, result'[q] # "error", token[q] \notin live
                 PROVE  \E e \in Calls : Revoked(q, e)'
      BY <1>2 DEF Missed
    <3>1. /\ records[q] # None /\ records[q].status = "active" /\ result[q] # "error"
          /\ q = r => pc[c] # "marking"
      BY <1>1, <1>2, <1>3 DEF Target
    <3>2. PICK e \in Calls : Revoked(q, e)  BY <2>1, <3>1 DEF Together, Missed
    <3>3. Revoked(q, e)'  BY <1>2, <1>3, <3>1, <3>2 DEF Revoked
    <3> QED  BY <3>3
  <2> QED  BY <2>2, <2>3, <2>4, <2>5, <2>6 DEF Together
<1> QED  BY <1>2, <1>4, <1>5 DEF TInv

(* Steps of a creation.                                                    *)
LEMMA CreateTogether ==
    ASSUME IInv, TInv, NEW c \in Calls, Create(c)
    PROVE  TInv'
<1>1. ASSUME NEW x, Goto(c, x), pc[c] # "done" PROVE result' = [result EXCEPT ![c] = "none"]
  BY <1>1 DEF Goto, TInv, Ended, IInv, TypeOK
<1>2. CASE FetchKey(c)
  <2>1. result' = [result EXCEPT ![c] = "none"]
    BY <1>1, <1>2 DEF FetchKey
  <2> QED BY <1>2, <2>1, MoveTogether DEF FetchKey, Goto, PcStates, Results, Editing
<1>3. CASE CreateManual(c)
  <2>1. result' = [result EXCEPT ![c] = "none"]
    BY <1>1, <1>3 DEF CreateManual, At
  <2> QED BY <1>3, <2>1, MoveTogether DEF CreateManual, At, Goto, PcStates, Results, Editing
<1>4. CASE CheckKey(c)
  <2>1. result' = [result EXCEPT ![c] = "none"]
    BY <1>1, <1>4 DEF CheckKey
  <2>2. tellsId /\ job[c].op = "provider" => token[c] \in live
    BY <1>4 DEF CheckKey, TInv, Together, AliveUntilSaved
  <2> QED BY <1>4, <2>1, <2>2, MoveTogether DEF CheckKey, Goto, PcStates, Results, Editing
<1>5. CASE Created(c)
  BY <1>5, MoveTogether DEF Created, End, PcStates, Results, Editing
<1>6. CASE SaveFails(c)
  <2>1. CASE job[c].op = "provider"
    <3>1. result' = [result EXCEPT ![c] = "none"]
      BY <1>1, <1>6, <2>1 DEF SaveFails
    <3> QED BY <1>6, <2>1, <3>1, MoveTogether DEF SaveFails, Goto, PcStates, Results, Editing
  <2>2. CASE job[c].op # "provider"
    BY <1>6, <2>2, MoveTogether DEF SaveFails, End, PcStates, Results, Editing
  <2> QED BY <2>1, <2>2
<1> QED BY <1>2, <1>3, <1>4, <1>5, <1>6, CreateTokenTogether, FindLatestTogether, SaveTogether,
           CompensateTogether DEF Create

(* Steps of an edit.                                                       *)
LEMMA EditTogether ==
    ASSUME IInv, TInv, NEW c \in Calls, Edit(c)
    PROVE  TInv'
<1> DEFINE r == job[c].target
<1>1. CASE ReadForRevoke(c)
  <2>1. PICK x \in {"revoking", "marking"} : Read(c, x)
    BY <1>1 DEF ReadForRevoke
  <2> QED BY <1>1, <2>1, ReadTogether DEF ReadForRevoke, At, Edits, Editing
<1>2. CASE Mark(c)
  <2>1. pc[c] \in Editing /\ r \in Calls /\ pc[c] = "marking"
    BY <1>2, TargetType DEF Mark, Editing, IInv, Roles
  <2>2. CASE Target(c) = None
    BY <1>2, <2>2, MoveTogether DEF Mark, End, Results, PcStates, Editing
  <2>3. CASE Target(c) # None
    <3> DEFINE row == [Target(c) EXCEPT !.status = "revoked"]
    <3>1. Target(c) \in Records
      BY <2>1, <2>3 DEF Target, IInv, TypeOK
    <3>2. row \in Records /\ row.status = "revoked" /\ row.token = Target(c).token
      BY <3>1 DEF Records
    <3>3. records' = [records EXCEPT ![r] = row]
      BY <1>2, <2>1, <2>3 DEF Mark, Target, IInv, TypeOK
    <3>4. /\ pc' = [pc EXCEPT ![c] = "done"] /\ result' = [result EXCEPT ![c] = "ok"]
          /\ UNCHANGED <<setup, token, held, made, live>>
      BY <1>2, <2>3 DEF Mark, End
    <3> HIDE DEF row
    <3> QED BY <2>1, <2>3, <3>2, <3>3, <3>4, RowTogether, NoneIsNoRecord
  <2> QED BY <2>2, <2>3
<1>3. CASE ReadForDelete(c)
  <2>1. CASE Target(c) # None /\ Target(c).status # "revoked"
    BY <1>3, <2>1, MoveTogether DEF ReadForDelete, At, End, Results, PcStates, Editing
  <2>2. CASE ~(Target(c) # None /\ Target(c).status # "revoked")
    BY <1>3, <2>2, ReadTogether DEF ReadForDelete, At, Edits, Editing
  <2> QED BY <2>1, <2>2
<1>4. CASE Delete(c)
  <2>1. Target(c) # None => Target(c).status = "revoked"
    BY <1>4 DEF Delete, Editing, Target, IInv, HeldIsRow
  <2> QED BY <1>4, <2>1, RowTogether DEF Delete, End, Editing
<1>5. CASE Lookup(c)
  BY <1>5, ReadTogether DEF Lookup, At, Edits, Editing
<1>6. CASE ReadForReplace(c)
  <2>1. pc[c] \in {"called", "found"} /\ job[c].op \in {"replace", "bulk"} /\ job[c].op \in Edits
    BY <1>6 DEF ReadForReplace, At, Edits
  <2>2. CASE job[c].op = "bulk" /\ Target(c) = None
    BY <1>6, <2>1, <2>2, MoveTogether DEF ReadForReplace, End, Results, PcStates, Editing
  <2>3. CASE ~(job[c].op = "bulk" /\ Target(c) = None)
    BY <1>6, <2>1, <2>3, ReadTogether DEF ReadForReplace, Editing
  <2> QED BY <2>2, <2>3
<1>7. CASE Replace(c)
  <2>1. pc[c] \in Editing /\ r \in Calls /\ Target(c) \in Records /\ job[c].key \in Pasted
    <3>1. pc[c] \in Editing /\ r \in Calls
      BY <1>7, TargetType DEF Replace, Editing, IInv, Roles
    <3>2. Target(c) \in Records
      BY <1>7, <3>1 DEF Replace, Target, IInv, TypeOK
    <3>3. job[c].op \in {"replace", "bulk"} /\ job[c] \in Jobs
      BY <1>7 DEF Replace, IInv, Roles, TypeOK
    <3> QED BY <3>1, <3>2, <3>3 DEF Jobs
  <2> DEFINE row == [Target(c) EXCEPT !.secret = job[c].key]
  <2>2. row \in Records /\ row.status = Target(c).status /\ row.token = Target(c).token
    BY <2>1 DEF Records
  <2>3. records' = [records EXCEPT ![r] = row]
    BY <1>7, <2>1 DEF Replace, Target, IInv, TypeOK
  <2>4. /\ pc' = [pc EXCEPT ![c] = "done"] /\ result' = [result EXCEPT ![c] = "ok"]
        /\ UNCHANGED <<setup, token, held, made, live>> /\ Target(c) # None
        /\ pc[c] # "marking"
    BY <1>7 DEF Replace, End
  <2> HIDE DEF row
  <2> QED BY <2>1, <2>2, <2>3, <2>4, RowTogether, NoneIsNoRecord
<1> QED BY <1>1, <1>2, <1>3, <1>4, <1>5, <1>6, <1>7, RevokeUpstreamTogether DEF Edit

(* Every step keeps records and tokens together.                           *)
LEMMA NextTogether == IInv /\ TInv /\ [Next]_vars => TInv'
<1> SUFFICES ASSUME IInv, TInv, [Next]_vars PROVE TInv'
  OBVIOUS
<1>1. ASSUME NEW c \in Calls, Abandon(c) PROVE TInv'
  BY <1>1, MoveTogether DEF Abandon, End, PcStates, Results, Editing
<1>2. CASE UNCHANGED vars
  <2>1. \A r, e \in Calls : Revoked(r, e) <=> Revoked(r, e)'
    BY <1>2 DEF Revoked, vars, setup
  <2> QED BY <1>2, <2>1 DEF vars, setup, TInv, Ended, Revokers, Together, OwnTokens, RowTokens,
             AliveUntilSaved, GoneWithRow, Missed
<1> QED BY <1>1, <1>2, CreateTogether, EditTogether DEF Next, Quiet

(* Records and tokens stay together, for any number of calls that create,  *)
(* revoke, delete and replace at once and fail anywhere.                   *)
THEOREM TokensStayTogether == Spec => [](IInv /\ TInv)
BY InitInv, NextInv, InitTogether, NextTogether, PTL DEF Spec

(* With a provider that names the token it has made, every live token of a *)
(* creation that was reported to have worked is in that creation's record. *)
THEOREM NoTokenStrays == Spec => []NoStrayToken
<1>1. IInv /\ TInv => NoStrayToken
  <2> SUFFICES ASSUME IInv, TInv, tellsId, NEW t \in live, result[made[t]] = "ok"
               PROVE  records[made[t]] # None /\ records[made[t]].token = t
    BY DEF NoStrayToken
  <2> DEFINE c == made[t]
  <2>1. t \in DOMAIN made /\ c \in Calls /\ token[c] = t /\ t # None
    BY NoneIsDead DEF IInv, TypeOK, TInv, Together, OwnTokens
  <2>2. job[c].op = "provider"
    BY <2>1 DEF IInv, TokenHeld
  <2>3. records[c] # None
    BY <2>1, <2>2 DEF TInv, Together, GoneWithRow
  <2> QED BY <2>1, <2>3 DEF TInv, Together, RowTokens
<1> QED BY <1>1, TokensStayTogether, PTL

(* Under the same condition, the live token of a created, active record is *)
(* lost only to a revocation of that record that got no further.           *)
THEOREM ActiveTokensLive == Spec => []ActiveTokenLives
<1>1. IInv /\ TInv => ActiveTokenLives
  <2> SUFFICES ASSUME IInv, TInv, tellsId, NEW r \in Calls,
                      records[r] # None, records[r].status = "active", records[r].token # None,
                      result[r] = "ok", records[r].token \notin live
               PROVE  \E e \in Calls : Revoked(r, e)
    BY DEF ActiveTokenLives, Revoked
  <2>1. records[r].token = token[r]
    BY DEF TInv, Together, RowTokens
  <2> QED BY <2>1 DEF TInv, Together, Missed
<1> QED BY <1>1, TokensStayTogether, PTL

-----------------------------------------------------------------------------
(* The table of keys itself, in KeyRecords, and all that write it.         *)
KeysSpec == KeysInit /\ [][KeysNext]_keyVars

Tables == [RecordIds -> KeyRecordsOf \cup {Nil}]
InUse(t) == {r \in RecordIds : t[r] # Nil}
OneEach(t) == \A r, s \in InUse(t) : r # s => t[r].client # t[s].client

(* What a record that an import has written is like.                       *)
Fresh(rec) == /\ rec \in KeyRecordsOf
              /\ rec.upstream = Encrypt(rec.client) /\ rec.safetyhub = Encrypt(rec.client)

(* How far an import has come, from the table it began with.               *)
ImportOK(acc, t) ==
    /\ acc = [ok |-> acc.ok, table |-> acc.table, touched |-> acc.touched]
    /\ acc.table \in Tables /\ OneEach(acc.table)
    /\ acc.touched \in SUBSET RecordIds
    /\ \A r \in acc.touched : Fresh(acc.table[r])
    /\ \A r \in RecordIds \ acc.touched : acc.table[r] = t[r]

RecordsAsGiven == \A r \in Used :
    /\ table[r].client = given[r].client
    /\ r \notin overtaken => /\ table[r].safetyhub.key = given[r].client
                             /\ table[r].upstream.key = given[r].upstream
AllRenewed == migrated => \A r \in Used : table[r].upstream.form = "v2" /\ table[r].safetyhub.form = "v2"

(* What was read is what was last given, or has been overtaken; and what   *)
(* is still in the old form was read so.                                   *)
ReadingOK == reading # Nil =>
    /\ reading \in Tables
    /\ \A r \in RecordIds : reading[r] # Nil /\ r \in Used /\ r \notin overtaken =>
           /\ reading[r].upstream.key = given[r].upstream
           /\ reading[r].safetyhub.key = given[r].client
    /\ \A r \in Used :
           /\ table[r].upstream.form = "v1" => reading[r] # Nil /\ reading[r].upstream.form = "v1"
           /\ table[r].safetyhub.form = "v1" => reading[r] # Nil /\ reading[r].safetyhub.form = "v1"

KeysIInv == /\ table \in Tables /\ OneEach(table) /\ migrated \in BOOLEAN
            /\ RecordsAsGiven /\ AllRenewed /\ ReadingOK

-----------------------------------------------------------------------------
(* A set of naturals has a least element, and a bounded one a greatest.    *)
LEMMA LeastNatural ==
    ASSUME NEW S \in SUBSET Nat, S # {}
    PROVE  \E m \in S : \A n \in S : m <= n
<1> DEFINE R == {p \in Nat \X Nat : p[1] < p[2]}
<1>1. IsWellFoundedOn(R, Nat)
  BY NatLessThanWellFounded DEF OpToRel
<1>2. \A m, n \in Nat : n < m => <<n, m>> \in R
  OBVIOUS
<1> HIDE DEF R
<1>3. PICK m \in S : \A n \in S : <<n, m>> \notin R
  BY <1>1, WFMin
<1>4. \A n \in S : ~(n < m)
  BY <1>2, <1>3
<1> QED BY <1>4

LEMMA GreatestOf ==
    ASSUME NEW k \in Nat, NEW S \in SUBSET (1..k), S # {}
    PROVE  Max(S) \in S /\ \A n \in S : n <= Max(S)
<1> DEFINE T == {k - n : n \in S}
<1>1. T \in SUBSET Nat /\ T # {}
  <2>1. \A n \in 1..k : k - n \in Nat
    OBVIOUS
  <2> QED BY <2>1
<1>2. PICK t \in T : \A u \in T : t <= u
  BY <1>1, LeastNatural
<1>3. PICK m \in S : t = k - m
  BY <1>2
<1>4. ASSUME NEW n \in S PROVE m >= n
  <2>1. k - m <= k - n
    BY <1>2, <1>3
  <2>2. m \in Nat /\ n \in Nat
    OBVIOUS
  <2> QED BY <2>1, <2>2
<1>5. Max(S) \in S /\ \A n \in S : Max(S) >= n
  BY <1>4 DEF Max
<1> QED BY <1>5

LEMMA GreatestOfAll == ASSUME NEW k \in Nat, k # 0 PROVE Max(1..k) = k
<1>1. k \in 1..k
  OBVIOUS
<1>2. Max(1..k) \in 1..k /\ k <= Max(1..k)
  BY <1>1, GreatestOf
<1> QED BY <1>2

(* The items up to the last of a set, as FoldLeft takes them.              *)
Folded(g, base, seq, s) == IF s = {} THEN base ELSE ImportItem(g[s \ {Max(s)}], seq[Max(s)])

LEMMA FoldExists ==
    ASSUME NEW base, NEW seq, NEW k \in Nat
    PROVE  \E g : g = [s \in SUBSET (1..k) |-> Folded(g, base, seq, s)]
<1> DEFINE Good(m) == \E g : g = [s \in SUBSET (1..m) |-> Folded(g, base, seq, s)]
           Bad == {m \in Nat : ~Good(m)}
<1>1. SUFFICES ASSUME Bad # {} PROVE FALSE
  OBVIOUS
<1>2. PICK m \in Bad : \A n \in Bad : m <= n
  <2>1. Bad \in SUBSET Nat
    OBVIOUS
  <2> HIDE DEF Bad
  <2> QED BY <1>1, <2>1, LeastNatural
<1>3. m \in Nat /\ ~Good(m)
  BY <1>2
<1>4. CASE m = 0
  <2> DEFINE g == [s \in SUBSET (1..m) |-> base]
  <2>1. \A s \in SUBSET (1..m) : s = {}
    BY <1>4
  <2>2. g = [s \in SUBSET (1..m) |-> Folded(g, base, seq, s)]
    BY <2>1 DEF Folded
  <2> QED BY <1>3, <2>2
<1>5. CASE m # 0
  <2>1. m - 1 \in Nat /\ m - 1 \notin Bad
    <3>1. m - 1 \in Nat /\ ~(m <= m - 1)
      BY <1>3, <1>5
    <3> HIDE DEF Bad
    <3> QED BY <1>2, <3>1
  <2>2. PICK g : g = [s \in SUBSET (1..(m - 1)) |-> Folded(g, base, seq, s)]
    BY <2>1
  <2> DEFINE h == [s \in SUBSET (1..m) |->
                      IF m \in s THEN ImportItem(g[s \ {m}], seq[m]) ELSE g[s]]
  <2>3. \A s \in SUBSET (1..m) : m \notin s => s \in SUBSET (1..(m - 1))
    BY <1>3
  <2>4. ASSUME NEW s \in SUBSET (1..m) PROVE h[s] = Folded(h, base, seq, s)
    <3>1. CASE m \in s
      <4>1. Max(s) = m
        <5>1. Max(s) \in s /\ m <= Max(s)
          BY <1>3, <3>1, GreatestOf
        <5>2. Max(s) \in 1..m
          BY <5>1
        <5> QED BY <1>3, <5>1, <5>2
      <4>2. s \ {m} \in SUBSET (1..m) /\ m \notin s \ {m}
        OBVIOUS
      <4>3. h[s \ {m}] = g[s \ {m}]
        BY <4>2
      <4>4. h[s] = ImportItem(g[s \ {m}], seq[m])
        BY <3>1
      <4> HIDE DEF h
      <4> QED BY <3>1, <4>1, <4>3, <4>4 DEF Folded
    <3>2. CASE m \notin s
      <4>1. s \in SUBSET (1..(m - 1)) /\ h[s] = g[s]
        BY <2>3, <3>2
      <4>2. g[s] = Folded(g, base, seq, s)
        BY <2>2, <4>1
      <4>3. s # {} => Max(s) \in s
        BY <2>1, <4>1, GreatestOf
      <4>4. h[s \ {Max(s)}] = g[s \ {Max(s)}]
        BY <3>2
      <4> HIDE DEF h
      <4> QED BY <4>1, <4>2, <4>4 DEF Folded
    <3> QED BY <3>1, <3>2
  <2>5. h = [s \in SUBSET (1..m) |-> Folded(h, base, seq, s)]
    <3>1. h = [s \in SUBSET (1..m) |-> h[s]]
      OBVIOUS
    <3> HIDE DEF h
    <3> QED BY <2>4, <3>1
  <2> QED BY <1>3, <2>5
<1> QED BY <1>4, <1>5

(* An import takes its items one after the other.                          *)
LEMMA FoldSteps ==
    ASSUME NEW t, NEW file, NEW k \in Nat, DOMAIN file = 1..k
    PROVE  \E g : /\ ImportResult(t, file) = g[1..k]
                  /\ g[{}] = [ok |-> TRUE, table |-> t, touched |-> {}]
                  /\ \A n \in 1..k : g[1..n] = ImportItem(g[1..(n - 1)], file[n])
<1> DEFINE base == [ok |-> TRUE, table |-> t, touched |-> {}]
           f == CHOOSE g : g = [s \in SUBSET (1..k) |-> Folded(g, base, file, s)]
<1>1. ImportResult(t, file) = f[1..k]
  BY DEF ImportResult, FoldLeft, MapThenFoldSet, Folded
<1> HIDE DEF base
<1>2. f = [s \in SUBSET (1..k) |-> Folded(f, base, file, s)]
  BY FoldExists
<1> HIDE DEF f
<1>3. \A s \in SUBSET (1..k) : f[s] = Folded(f, base, file, s)
  BY <1>2
<1>4. f[{}] = base
  BY <1>3 DEF Folded
<1>5. ASSUME NEW n \in 1..k PROVE f[1..n] = ImportItem(f[1..(n - 1)], file[n])
  <2>1. 1..n \in SUBSET (1..k) /\ 1..n # {} /\ (1..n) \ {n} = 1..(n - 1)
    <3>1. n \in Nat /\ 1 <= n /\ n <= k
      OBVIOUS
    <3>2. \A i \in 1..n : i \in 1..k
      BY <3>1
    <3>3. n \in 1..n
      BY <3>1
    <3>4. \A i : i \in (1..n) \ {n} <=> i \in 1..(n - 1)
      BY <3>1
    <3> QED BY <3>2, <3>3, <3>4
  <2>2. Max(1..n) = n
    BY GreatestOfAll
  <2> QED BY <1>3, <2>1, <2>2 DEF Folded
<1> QED BY <1>1, <1>4, <1>5 DEF base

-----------------------------------------------------------------------------
LEMMA Encrypted ==
    ASSUME NEW k \in AnyKey
    PROVE  Encrypt(k) \in Secrets /\ Encrypt(k).key = k /\ Encrypt(k).form = "v2"
BY DEF Encrypt, Secrets

LEMMA EncryptedFields == \A k : Encrypt(k).key = k /\ Encrypt(k).form = "v2"
BY DEF Encrypt

LEMMA ItemOfFile ==
    ASSUME NEW f \in Files
    PROVE  /\ Len(f) \in Nat /\ DOMAIN f = 1..Len(f)
           /\ \A i \in 1..Len(f) : f[i] \in [uid : Uids, key : Keys \cup {Nil}]
<1> DEFINE Items == [uid : Uids, key : Keys \cup {Nil}]
<1>1. f \in Seq(Items)
  BY FilesAssumption
<1> HIDE DEF Items
<1>2. Len(f) \in Nat /\ DOMAIN f = 1..Len(f) /\ \A i \in 1..Len(f) : f[i] \in Items
  BY <1>1
<1> QED BY <1>2 DEF Items

LEMMA ImportItemStep ==
    ASSUME NEW t \in Tables, NEW acc, ImportOK(acc, t),
           NEW item \in [uid : Uids, key : Keys \cup {Nil}]
    PROVE  ImportOK(ImportItem(acc, item), t)
<1> DEFINE found == FindExisting(acc.table, item)
           target == IF found = {} THEN ImportId[item.uid] ELSE CHOOSE r \in found : TRUE
           clash == \E r \in RecordIds \ {target} : HasClient(acc.table, r, item.key)
           rec == ImportedRecord(item)
           after == [ok |-> TRUE, table |-> [acc.table EXCEPT ![target] = rec],
                     touched |-> acc.touched \cup {target}]
<1>1. target \in RecordIds
  <2>1. found \subseteq RecordIds
    BY DEF FindExisting, FindByKey
  <2>2. ImportId[item.uid] \in RecordIds
    BY DEF RecordIds
  <2> HIDE DEF found
  <2> QED BY <2>1, <2>2
<1>2. CASE ~Usable(item) \/ ~acc.ok
  BY <1>2 DEF ImportItem
<1>3. CASE ~(~Usable(item) \/ ~acc.ok)
           /\ (Cardinality(found) > 1 \/ clash \/ (found = {} /\ acc.table[target] # Nil))
  <2>1. ImportItem(acc, item) = [acc EXCEPT !.ok = FALSE]
    BY <1>3 DEF ImportItem
  <2>2. ImportItem(acc, item) = [ok |-> FALSE, table |-> acc.table, touched |-> acc.touched]
    BY <2>1 DEF ImportOK
  <2> QED BY <2>2 DEF ImportOK
<1>4. CASE ~(~Usable(item) \/ ~acc.ok)
           /\ ~(Cardinality(found) > 1 \/ clash \/ (found = {} /\ acc.table[target] # Nil))
  <2>1. ImportItem(acc, item) = after
    BY <1>4 DEF ImportItem
  <2>2. item.key \in Keys /\ item.key \in AnyKey /\ item.uid \in Uids
    BY <1>4 DEF Usable, AnyKey
  <2>3. /\ rec.client = item.key /\ rec.upstream = Encrypt(item.key)
        /\ rec.safetyhub = Encrypt(item.key)
    BY DEF ImportedRecord
  <2>4. rec \in KeyRecordsOf
    <3>1. Encrypt(item.key) \in Secrets
      BY <2>2, Encrypted
    <3> QED BY <2>2, <3>1 DEF ImportedRecord, KeyRecordsOf
  <2>5. Fresh(rec)
    BY <2>3, <2>4 DEF Fresh
  <2>6. \A r \in RecordIds \ {target} : ~HasClient(acc.table, r, item.key)
    BY <1>4
  <2> HIDE DEF found, target, clash, rec
  <2> DEFINE now == [acc.table EXCEPT ![target] = rec]
  <2>8. /\ now \in Tables /\ now[target] = rec
        /\ \A r \in RecordIds \ {target} : now[r] = acc.table[r]
    BY <1>1, <2>4 DEF ImportOK, Tables
  <2> HIDE DEF now
  <2>9. OneEach(now)
    <3>1. \A r \in InUse(now) \ {target} : r \in InUse(acc.table) /\ now[r].client # item.key
      BY <2>6, <2>8 DEF InUse, HasClient
    <3>2. ASSUME NEW r \in InUse(now), NEW s \in InUse(now), r # s PROVE now[r].client # now[s].client
      <4>1. CASE r = target
        BY <2>3, <2>8, <3>1, <3>2, <4>1
      <4>2. CASE s = target
        BY <2>3, <2>8, <3>1, <3>2, <4>2
      <4>3. CASE r # target /\ s # target
        <5>1. r \in RecordIds /\ s \in RecordIds
          BY DEF InUse
        <5> QED BY <2>8, <3>1, <3>2, <4>3, <5>1 DEF OneEach, ImportOK
      <4> QED BY <4>1, <4>2, <4>3
    <3> QED BY <3>2 DEF OneEach
  <2>10. \A r \in acc.touched \cup {target} : Fresh(now[r])
    BY <2>5, <2>8 DEF ImportOK
  <2>11. \A r \in RecordIds \ (acc.touched \cup {target}) : now[r] = t[r]
    BY <2>8 DEF ImportOK
  <2>12. after = [ok |-> TRUE, table |-> now, touched |-> acc.touched \cup {target}]
    BY DEF now
  <2> HIDE DEF after
  <2> QED BY <1>1, <2>1, <2>8, <2>9, <2>10, <2>11, <2>12 DEF ImportOK
<1> QED BY <1>2, <1>3, <1>4

(* What an import makes of a table, however many items it has.             *)
LEMMA ImportKeeps ==
    ASSUME NEW t \in Tables, OneEach(t), NEW f \in Files
    PROVE  ImportOK(ImportResult(t, f), t)
<1> DEFINE base == [ok |-> TRUE, table |-> t, touched |-> {}]
           k == Len(f)
<1>1. k \in Nat /\ DOMAIN f = 1..k
      /\ \A i \in 1..k : f[i] \in [uid : Uids, key : Keys \cup {Nil}]
  BY ItemOfFile
<1>2. ImportOK(base, t)
  BY DEF ImportOK
<1> HIDE DEF base, k
<1>3. PICK g : /\ ImportResult(t, f) = g[1..k]
               /\ g[{}] = base
               /\ \A n \in 1..k : g[1..n] = ImportItem(g[1..(n - 1)], f[n])
  BY <1>1, FoldSteps DEF base
<1> DEFINE Bad == {n \in 0..k : ~ImportOK(g[1..n], t)}
<1>5. Bad = {}
  <2> SUFFICES ASSUME Bad # {} PROVE FALSE
    OBVIOUS
  <2>1. Bad \in SUBSET Nat
    BY <1>1
  <2>2. PICK n \in Bad : \A j \in Bad : n <= j
    <3> HIDE DEF Bad
    <3> QED BY <2>1, LeastNatural
  <2>3. n \in 0..k /\ ~ImportOK(g[1..n], t)
    OBVIOUS
  <2>4. CASE n = 0
    <3>1. 1..0 = {}
      OBVIOUS
    <3> QED BY <1>2, <1>3, <2>3, <2>4, <3>1
  <2>5. CASE n # 0
    <3>1. n \in 1..k /\ n - 1 \in 0..k /\ ~(n <= n - 1)
      BY <1>1, <2>3, <2>5
    <3>2. ImportOK(g[1..(n - 1)], t)
      <4>1. n - 1 \notin Bad
        <5> HIDE DEF Bad
        <5> QED BY <2>2, <3>1
      <4> QED BY <3>1, <4>1
    <3> QED BY <1>1, <1>3, <2>3, <3>1, <3>2, ImportItemStep
  <2> QED BY <2>4, <2>5
<1>6. k \in 0..k
  BY <1>1
<1> QED BY <1>3, <1>5, <1>6

-----------------------------------------------------------------------------
(* What the fields of a record are.                                        *)
LEMMA RecordFields ==
    ASSUME NEW rec \in KeyRecordsOf
    PROVE  /\ rec.client \in AnyKey /\ rec.upstream \in Secrets /\ rec.safetyhub \in Secrets
           /\ rec.upstream.form \in {"v1", "v2"} /\ rec.safetyhub.form \in {"v1", "v2"}
           /\ rec.upstream.key \in AnyKey /\ rec.safetyhub.key \in AnyKey
BY DEF KeyRecordsOf, Secrets

LEMMA ReplacedRecord ==
    ASSUME NEW t \in Tables, NEW r \in InUse(t), NEW new \in AnyKey
    PROVE  LET now == Replaced(t, r, new) IN
           /\ now \in Tables /\ InUse(now) \subseteq InUse(t)
           /\ now[r].client = t[r].client /\ now[r].safetyhub = t[r].safetyhub
           /\ now[r].upstream = Encrypt(new)
           /\ \A s \in RecordIds \ {r} : now[s] = t[s]
<1> DEFINE rec == [t[r] EXCEPT !.upstream = Encrypt(new), !.decoupled = TRUE]
           now == [t EXCEPT ![r] = rec]
<1>1. r \in RecordIds /\ t[r] \in KeyRecordsOf
  BY DEF InUse, Tables
<1>2. rec \in KeyRecordsOf
  BY <1>1, Encrypted DEF KeyRecordsOf
<1>3. rec.client = t[r].client /\ rec.safetyhub = t[r].safetyhub /\ rec.upstream = Encrypt(new)
  BY <1>1 DEF KeyRecordsOf
<1>4. Replaced(t, r, new) = now
  BY DEF Replaced
<1> HIDE DEF rec
<1>5. now \in Tables /\ now[r] = rec /\ \A s \in RecordIds \ {r} : now[s] = t[s]
  BY <1>1, <1>2 DEF Tables
<1> HIDE DEF now
<1>6. InUse(now) \subseteq InUse(t)
  BY <1>1, <1>5 DEF InUse
<1> QED BY <1>3, <1>4, <1>5, <1>6

-----------------------------------------------------------------------------
LEMMA KeysStart == KeysInit => KeysIInv
<1> SUFFICES ASSUME KeysInit PROVE KeysIInv
  OBVIOUS
<1>1. table \in Tables /\ OneEach(table)
  <2>1. table \in Initial
    BY DEF KeysInit
  <2> QED BY <2>1, InitialAssumption DEF Tables, OneEach, InUse
<1>2. RecordsAsGiven
  <2>1. table \in Initial
    BY DEF KeysInit
  <2>2. \A r \in Used : r \in RecordIds /\ table[r].safetyhub.key = table[r].client
    BY <2>1, InitialAssumption DEF Used
  <2>3. ASSUME NEW r \in Used
        PROVE  given[r].client = table[r].client /\ given[r].upstream = table[r].upstream.key
    <3> DEFINE its == [client |-> table[r].client, upstream |-> table[r].upstream.key]
    <3>1. given[r] = its
      BY DEF KeysInit, Used
    <3> QED BY <3>1
  <2> QED BY <2>2, <2>3 DEF RecordsAsGiven
<1> QED BY <1>1, <1>2 DEF KeysInit, KeysIInv, AllRenewed, ReadingOK

(* A change of some records, W, that gives them keys: the others keep      *)
(* theirs, what is written is what is given unless it was overtaken, and   *)
(* nothing is written in the old form.                                     *)
Kept(W) == \A r \in Used' \ W :
    /\ r \in Used /\ given'[r] = given[r] /\ table'[r].client = table[r].client
    /\ table'[r].upstream = table[r].upstream
    /\ table'[r].safetyhub = table[r].safetyhub
Written(W) == \A r \in Used' \cap W :
    /\ table'[r].client = given'[r].client
    /\ r \notin overtaken' => /\ table'[r].upstream.key = given'[r].upstream
                            /\ table'[r].safetyhub.key = given'[r].client
    /\ table'[r].upstream.form = "v2" \/ (r \in Used /\ table'[r].upstream = table[r].upstream)
    /\ table'[r].safetyhub.form = "v2" \/ (r \in Used /\ table'[r].safetyhub = table[r].safetyhub)

LEMMA Changes ==
    ASSUME KeysIInv, NEW W \in SUBSET RecordIds,
           UNCHANGED <<reading, migrated>>,
           table' \in Tables, OneEach(table'),
           overtaken \subseteq overtaken', reading # Nil => W \subseteq overtaken',
           Kept(W), Written(W)
    PROVE  KeysIInv'
<1> USE DEF Kept, Written
<1>1. RecordsAsGiven'
  BY DEF KeysIInv, RecordsAsGiven
<1>2. ASSUME migrated', NEW r \in Used'
      PROVE  table'[r].upstream.form = "v2" /\ table'[r].safetyhub.form = "v2"
  <2>1. r \in Used => table[r].upstream.form = "v2" /\ table[r].safetyhub.form = "v2"
    BY <1>2 DEF KeysIInv, AllRenewed
  <2> QED BY <2>1
<1>3. AllRenewed'
  BY <1>2 DEF AllRenewed
<1>4. ASSUME reading' # Nil, NEW r \in Used'
      PROVE  /\ table'[r].upstream.form = "v1" => reading'[r] # Nil /\ reading'[r].upstream.form = "v1"
             /\ table'[r].safetyhub.form = "v1" => reading'[r] # Nil /\ reading'[r].safetyhub.form = "v1"
  <2>1. reading' = reading
    OBVIOUS
  <2>2. r \in Used =>
           /\ table[r].upstream.form = "v1" => reading[r] # Nil /\ reading[r].upstream.form = "v1"
           /\ table[r].safetyhub.form = "v1" => reading[r] # Nil /\ reading[r].safetyhub.form = "v1"
    BY <1>4, <2>1 DEF KeysIInv, ReadingOK
  <2>3. CASE r \in W
    BY <2>1, <2>2, <2>3
  <2>4. CASE r \notin W
    BY <2>1, <2>2, <2>4
  <2> QED BY <2>3, <2>4
<1>5. ASSUME reading' # Nil, NEW r \in RecordIds, reading'[r] # Nil, r \in Used', r \notin overtaken'
      PROVE  reading'[r].upstream.key = given'[r].upstream /\ reading'[r].safetyhub.key = given'[r].client
  <2>1. r \notin W /\ reading' = reading /\ r \notin overtaken
    BY <1>5
  <2>2. r \in Used /\ given'[r] = given[r]
    BY <1>5, <2>1
  <2> QED BY <1>5, <2>1, <2>2 DEF KeysIInv, ReadingOK
<1>6. ReadingOK'
  <2>1. reading' # Nil => reading' \in Tables
    BY DEF KeysIInv, ReadingOK
  <2> QED BY <1>4, <1>5, <2>1 DEF ReadingOK
<1> QED BY <1>1, <1>3, <1>6 DEF KeysIInv

LEMMA GiveEffect ==
    ASSUME NEW what, DOMAIN what \in SUBSET RecordIds, Give(what)
    PROVE  /\ \A r \in RecordIds : given'[r] = IF r \in DOMAIN what THEN what[r] ELSE given[r]
           /\ overtaken \subseteq overtaken'
           /\ reading # Nil => DOMAIN what \subseteq overtaken'
BY DEF Give

Apart(t, r, key) == \A s \in InUse(t) \ {r} : t[s].client # key

LEMMA OneMore ==
    ASSUME NEW t \in Tables, OneEach(t), NEW r \in RecordIds, NEW rec, Apart(t, r, rec.client),
           NEW now \in Tables, now[r] = rec, \A s \in RecordIds \ {r} : now[s] = t[s]
    PROVE  OneEach(now)
<1>1. \A s \in InUse(t) \ {r} : t[s].client # rec.client
  BY DEF Apart
<1>2. OneEach(now)
  <2> SUFFICES ASSUME NEW a \in InUse(now), NEW b \in InUse(now), a # b
               PROVE  now[a].client # now[b].client
    BY DEF OneEach
  <2>1. a \in RecordIds /\ b \in RecordIds /\ (a # r => a \in InUse(t)) /\ (b # r => b \in InUse(t))
    BY <1>1 DEF InUse
  <2>2. CASE a = r
    BY <1>1, <2>1, <2>2
  <2>3. CASE b = r
    BY <1>1, <2>1, <2>3
  <2>4. CASE a # r /\ b # r
    BY <1>1, <2>1, <2>4 DEF OneEach
  <2> QED BY <2>2, <2>3, <2>4
<1> QED BY <1>2

-----------------------------------------------------------------------------
(* An identifier that names a record means that record alone.              *)
LEMMA NamedIsMeant ==
    ASSUME KeysIInv, NEW identifier, NEW r \in Used, Named(r, identifier)
    PROVE  Meant(identifier) = {r}
<1> DEFINE exactly == {s \in Used : identifier \in {s, table[s].client}}
           prefixed == {s \in Used : PrefixOf[table[s].client] = identifier}
<1>1. \A s \in Used : s \in RecordIds /\ table[s].client \in AnyKey
  <2>1. \A s \in Used : s \in RecordIds /\ table[s] \in KeyRecordsOf
    BY DEF Used, KeysIInv, Tables
  <2> QED BY <2>1, RecordFields
<1>2. \A s, o \in Used : s # o => table[s].client # table[o].client
  BY DEF KeysIInv, OneEach, InUse, Used
<1>3. CASE identifier = r
  <2>1. exactly = {r}
    BY <1>1, <1>3, IdentifiersAssumption
  <2> QED BY <2>1 DEF Meant
<1>4. CASE identifier = table[r].client
  <2>1. identifier \notin RecordIds
    BY <1>1, <1>4, IdentifiersAssumption
  <2>2. exactly = {r}
    BY <1>1, <1>2, <1>4, <2>1
  <2> QED BY <2>2 DEF Meant
<1>5. CASE /\ PrefixOf[table[r].client] = identifier
           /\ \A s \in Used \ {r} : PrefixOf[table[s].client] # identifier
  <2>1. prefixed = {r} /\ identifier \notin RecordIds
    BY <1>1, <1>5, IdentifiersAssumption
  <2>2. \A s \in exactly : s = r
    <3>1. ASSUME NEW s \in exactly PROVE s = r
      <4>1. table[s].client = identifier /\ s \in Used
        BY <1>1, <2>1
      <4>2. identifier \in AnyKey /\ table[r].client \in AnyKey
        BY <1>1, <4>1
      <4>3. PrefixOf[identifier] = identifier
        BY <1>5, <4>2, IdentifiersAssumption
      <4> QED BY <1>5, <4>1, <4>3
    <3> QED BY <3>1
  <2>3. exactly # {} => exactly = {r}
    <3> HIDE DEF exactly
    <3> QED BY <2>2
  <2> QED BY <2>1, <2>3 DEF Meant
<1> QED BY <1>3, <1>4, <1>5 DEF Named

LEMMA CreatedKeys ==
    ASSUME KeysIInv, NEW r \in RecordIds, NEW upstream \in Keys, NEW client \in AnyKey,
           NEW provider \in {"oneapi", "other"}, NEW uid \in Uids \cup {Nil},
           CreateRecord(r, client, upstream, provider, uid)
    PROVE  KeysIInv'
<1> DEFINE rec == BuildRecord(client, upstream, provider, uid)
           what == [s \in {r} |-> Pair(client, upstream)]
<1>1. /\ r \notin Used /\ table' = [table EXCEPT ![r] = rec] /\ UNCHANGED <<reading, migrated>>
      /\ \A s \in RecordIds : ~HasClient(table, s, client)
  BY DEF CreateRecord
<1>2. /\ rec \in KeyRecordsOf /\ rec.client = client
      /\ rec.upstream = Encrypt(upstream) /\ rec.safetyhub = Encrypt(client)
  <2>1. upstream \in AnyKey
    BY DEF AnyKey
  <2>2. Encrypt(client) \in Secrets /\ Encrypt(upstream) \in Secrets
    BY <2>1, Encrypted
  <2> QED BY <2>2 DEF BuildRecord, KeyRecordsOf
<1>3. table \in Tables /\ OneEach(table)
  BY DEF KeysIInv
<1>4. Apart(table, r, rec.client)
  BY <1>1, <1>2 DEF HasClient, InUse, Apart
<1>5. DOMAIN what = {r} /\ what[r] = Pair(client, upstream)
  OBVIOUS
<1>6. Give(what)
  BY DEF CreateRecord
<1> HIDE DEF rec, what
<1>7. /\ table' \in Tables /\ OneEach(table') /\ table'[r] = rec
      /\ \A s \in RecordIds \ {r} : table'[s] = table[s]
  <2>1. /\ table' \in Tables /\ table'[r] = rec
        /\ \A s \in RecordIds \ {r} : table'[s] = table[s]
    BY <1>1, <1>2, <1>3 DEF Tables
  <2> QED BY <1>3, <1>4, <2>1, OneMore
<1>8. /\ given'[r] = Pair(client, upstream) /\ \A s \in RecordIds \ {r} : given'[s] = given[s]
      /\ overtaken \subseteq overtaken' /\ (reading # Nil => {r} \subseteq overtaken')
  BY <1>5, <1>6, GiveEffect
<1>9. \A s \in Used' \ {r} : s \in Used /\ s \in RecordIds
  BY <1>7 DEF Used
<1>10. /\ table'[r].upstream.key = upstream /\ table'[r].upstream.form = "v2"
       /\ table'[r].safetyhub.key = client /\ table'[r].safetyhub.form = "v2"
  BY <1>2, <1>7 DEF Encrypt
<1>11. given'[r].client = client /\ given'[r].upstream = upstream
  BY <1>8 DEF Pair
<1>12. Kept({r})
  BY <1>7, <1>8, <1>9 DEF Kept
<1>13. Written({r})
  BY <1>2, <1>7, <1>10, <1>11 DEF Written
<1> QED BY <1>1, <1>7, <1>8, <1>12, <1>13, Changes

LEMMA Replacement ==
    ASSUME KeysIInv, NEW identifier, NEW new \in Keys, ReplaceKey(identifier, new)
    PROVE  KeysIInv'
<1>1. PICK r \in Used :
          /\ Named(r, identifier)
          /\ table' = Replaced(table, r, new)
          /\ LET meant == Meant(identifier) IN
             Give([s \in IF meant = {r} THEN meant ELSE {} |-> Pair(given[s].client, new)])
  BY DEF ReplaceKey
<1>2. Meant(identifier) = {r}
  BY <1>1, NamedIsMeant
<1> DEFINE what == [s \in {r} |-> Pair(given[s].client, new)]
<1>3. Give(what)
  BY <1>1, <1>2
<1>4. r \in RecordIds /\ r \in InUse(table) /\ new \in AnyKey /\ table \in Tables
  BY DEF Used, InUse, AnyKey, KeysIInv
<1>5. /\ table' \in Tables /\ InUse(table') \subseteq InUse(table)
      /\ table'[r].client = table[r].client /\ table'[r].safetyhub = table[r].safetyhub
      /\ table'[r].upstream = Encrypt(new)
      /\ \A s \in RecordIds \ {r} : table'[s] = table[s]
  BY <1>1, <1>4, ReplacedRecord
<1>6. \A s \in RecordIds : s \in Used' => s \in Used /\ table'[s].client = table[s].client
  BY <1>5 DEF Used, InUse
<1>7. OneEach(table')
  BY <1>6 DEF OneEach, InUse, Used, KeysIInv
<1>8. DOMAIN what = {r} /\ what[r] = Pair(given[r].client, new)
  OBVIOUS
<1> HIDE DEF what
<1>9. /\ given'[r] = Pair(given[r].client, new) /\ \A s \in RecordIds \ {r} : given'[s] = given[s]
      /\ overtaken \subseteq overtaken' /\ (reading # Nil => {r} \subseteq overtaken')
  BY <1>3, <1>4, <1>8, GiveEffect
<1>10. given'[r].client = given[r].client /\ given'[r].upstream = new
  BY <1>9 DEF Pair
<1>11. table[r].client = given[r].client /\ (r \notin overtaken => table[r].safetyhub.key = given[r].client)
  BY DEF KeysIInv, RecordsAsGiven
<1>12. table'[r].upstream.key = new /\ table'[r].upstream.form = "v2"
  BY <1>5 DEF Encrypt
<1>13. UNCHANGED <<reading, migrated>>
  BY DEF ReplaceKey
<1>14. \A s \in Used' \ {r} : s \in Used /\ s \in RecordIds
  BY <1>6 DEF Used
<1>15. Kept({r})
  BY <1>5, <1>9, <1>14 DEF Kept
<1>16. Written({r})
  BY <1>5, <1>9, <1>10, <1>11, <1>12 DEF Written
<1> QED BY <1>4, <1>5, <1>7, <1>9, <1>13, <1>15, <1>16, Changes

LEMMA RevokedKeys ==
    ASSUME KeysIInv, NEW r \in RecordIds, RevokeKey(r)
    PROVE  KeysIInv'
<1> DEFINE rec == [table[r] EXCEPT !.status = "revoked"]
<1>1. /\ table[r] \in KeyRecordsOf /\ r \in Used /\ table' = [table EXCEPT ![r] = rec]
      /\ UNCHANGED <<reading, migrated, given, overtaken>>
  BY DEF RevokeKey, KeysIInv, Tables, Used
<1>2. /\ rec \in KeyRecordsOf /\ rec.client = table[r].client
      /\ rec.upstream = table[r].upstream /\ rec.safetyhub = table[r].safetyhub
  BY <1>1 DEF KeyRecordsOf
<1> HIDE DEF rec
<1>3. /\ table' \in Tables /\ table'[r] = rec
      /\ \A s \in RecordIds \ {r} : table'[s] = table[s]
  BY <1>1, <1>2 DEF KeysIInv, Tables
<1>4. \A s \in Used' : /\ s \in Used /\ table'[s].client = table[s].client
                       /\ table'[s].upstream = table[s].upstream
                       /\ table'[s].safetyhub = table[s].safetyhub
  BY <1>1, <1>2, <1>3 DEF Used
<1>5. OneEach(table')
  BY <1>4 DEF OneEach, InUse, Used, KeysIInv
<1>6. Kept({}) /\ Written({})
  BY <1>1, <1>4 DEF Kept, Written
<1> QED BY <1>1, <1>3, <1>5, <1>6, Changes

LEMMA DeletedKeys ==
    ASSUME KeysIInv, NEW r \in RecordIds, DeleteKey(r)
    PROVE  KeysIInv'
<1> DEFINE what == [s \in {r} |-> Nil]
<1>1. table' = [table EXCEPT ![r] = Nil] /\ Give(what) /\ UNCHANGED <<reading, migrated>>
  BY DEF DeleteKey
<1>2. DOMAIN what = {r}
  OBVIOUS
<1> HIDE DEF what
<1>3. /\ table' \in Tables /\ table'[r] = Nil
      /\ \A s \in RecordIds \ {r} : table'[s] = table[s]
  BY <1>1 DEF KeysIInv, Tables
<1>4. \A s \in Used' : s \in Used /\ s \in RecordIds \ {r} /\ table'[s] = table[s]
  BY <1>3 DEF Used
<1>5. OneEach(table')
  BY <1>4 DEF OneEach, InUse, Used, KeysIInv
<1>6. /\ \A s \in RecordIds \ {r} : given'[s] = given[s]
      /\ overtaken \subseteq overtaken' /\ (reading # Nil => {r} \subseteq overtaken')
  BY <1>1, <1>2, GiveEffect
<1>7. Kept({r}) /\ Written({r})
  BY <1>4, <1>6 DEF Kept, Written
<1> QED BY <1>1, <1>3, <1>5, <1>6, <1>7, Changes

LEMMA ImportedKeys ==
    ASSUME KeysIInv, NEW f \in Files, Import(f)
    PROVE  KeysIInv'
<1> DEFINE after == ImportResult(table, f)
           what == [r \in after.touched |-> Pair(after.table[r].client, after.table[r].client)]
<1>1. table' = after.table /\ Give(what) /\ UNCHANGED <<reading, migrated>>
  BY DEF Import
<1>2. ImportOK(after, table)
  BY ImportKeeps DEF KeysIInv
<1> HIDE DEF after
<1> DEFINE W == after.touched
<1>3. /\ W \in SUBSET RecordIds /\ table' \in Tables /\ OneEach(table')
      /\ \A r \in W : Fresh(table'[r])
      /\ \A r \in RecordIds \ W : table'[r] = table[r]
  BY <1>1, <1>2 DEF ImportOK
<1>4. /\ DOMAIN what = W
      /\ \A r \in W : what[r] = Pair(table'[r].client, table'[r].client)
  BY <1>1
<1> HIDE DEF what, W
<1>5. /\ \A r \in RecordIds : given'[r] = IF r \in W THEN what[r] ELSE given[r]
      /\ overtaken \subseteq overtaken' /\ (reading # Nil => W \subseteq overtaken')
  BY <1>1, <1>3, <1>4, GiveEffect
<1>6. \A r \in W : r \in RecordIds /\ given'[r].client = table'[r].client
                                  /\ given'[r].upstream = table'[r].client
  BY <1>3, <1>4, <1>5 DEF Pair
<1>7. \A r \in W : /\ table'[r].upstream.key = table'[r].client /\ table'[r].upstream.form = "v2"
                   /\ table'[r].safetyhub.key = table'[r].client /\ table'[r].safetyhub.form = "v2"
  BY <1>3, EncryptedFields DEF Fresh
<1>8. Written(W)
  BY <1>6, <1>7 DEF Written
<1>9. \A r \in Used' \ W : r \in Used /\ r \in RecordIds /\ table'[r] = table[r]
  BY <1>3 DEF Used
<1>10. Kept(W)
  BY <1>5, <1>9 DEF Kept
<1> QED BY <1>1, <1>3, <1>5, <1>8, <1>10, Changes

LEMMA ReadAll == ASSUME KeysIInv, ReadSecrets PROVE KeysIInv'
<1>1. /\ reading' = table /\ UNCHANGED <<table, migrated, given, overtaken>>
  BY DEF ReadSecrets
<1>2. RecordsAsGiven' /\ AllRenewed'
  BY <1>1 DEF KeysIInv, RecordsAsGiven, AllRenewed, Used
<1>3. ReadingOK'
  <2>1. \A r \in Used : table[r] # Nil
    BY DEF Used
  <2> QED BY <1>1, <2>1 DEF KeysIInv, ReadingOK, RecordsAsGiven, Used
<1> QED BY <1>1, <1>2, <1>3 DEF KeysIInv

(* What a record is after its secrets were written anew.                   *)
LEMMA RenewedRecord ==
    ASSUME NEW old \in KeyRecordsOf, NEW now \in KeyRecordsOf
    PROVE  /\ Renew(old, now) \in KeyRecordsOf /\ Renew(old, now).client = now.client
           /\ Renew(old, now).upstream =
                  IF old.upstream.form = "v2" THEN now.upstream ELSE Encrypt(old.upstream.key)
           /\ Renew(old, now).safetyhub =
                  IF old.safetyhub.form = "v2" THEN now.safetyhub ELSE Encrypt(old.safetyhub.key)
<1> DEFINE up == IF old.upstream.form = "v2" THEN now.upstream ELSE Encrypt(old.upstream.key)
           hub == IF old.safetyhub.form = "v2" THEN now.safetyhub ELSE Encrypt(old.safetyhub.key)
           rec == [now EXCEPT !.upstream = up, !.safetyhub = hub]
<1>1. up \in Secrets /\ hub \in Secrets
  BY RecordFields, Encrypted
<1>2. Renew(old, now) = rec
  <2>1. old.upstream.form \in {"v1", "v2"} /\ old.safetyhub.form \in {"v1", "v2"}
    BY RecordFields
  <2>2. DecryptOld(old.upstream) = old.upstream.key \/ old.upstream.form = "v2"
    BY <2>1 DEF DecryptOld
  <2>3. DecryptOld(old.safetyhub) = old.safetyhub.key \/ old.safetyhub.form = "v2"
    BY <2>1 DEF DecryptOld
  <2> QED BY <2>2, <2>3 DEF Renew
<1> HIDE DEF up, hub
<1>3. rec \in KeyRecordsOf /\ rec.client = now.client /\ rec.upstream = up /\ rec.safetyhub = hub
  BY <1>1 DEF KeyRecordsOf
<1> HIDE DEF rec
<1> QED BY <1>2, <1>3 DEF up, hub

LEMMA RewrittenKeys == ASSUME KeysIInv, WriteSecrets PROVE KeysIInv'
<1>1. /\ reading # Nil /\ ToRenew \subseteq Used /\ reading' = Nil
      /\ table' = [r \in RecordIds |-> IF r \in ToRenew THEN Renew(reading[r], table[r]) ELSE table[r]]
      /\ migrated' = TRUE /\ UNCHANGED <<given, overtaken>>
  BY DEF WriteSecrets
<1>2. \A r \in RecordIds : table'[r] = IF r \in ToRenew THEN Renew(reading[r], table[r]) ELSE table[r]
  BY <1>1
<1>3. ASSUME NEW r \in ToRenew
      PROVE  r \in RecordIds /\ r \in Used /\ reading[r] # Nil
             /\ reading[r] \in KeyRecordsOf /\ table[r] \in KeyRecordsOf
  BY <1>1 DEF ToRenew, Used, KeysIInv, ReadingOK, Tables
<1>4. \A r \in ToRenew :
         /\ table'[r] \in KeyRecordsOf /\ table'[r].client = table[r].client
         /\ table'[r].upstream = IF reading[r].upstream.form = "v2" THEN table[r].upstream
                                 ELSE Encrypt(reading[r].upstream.key)
         /\ table'[r].safetyhub = IF reading[r].safetyhub.form = "v2" THEN table[r].safetyhub
                                  ELSE Encrypt(reading[r].safetyhub.key)
  BY <1>2, <1>3, RenewedRecord
<1>5. table' \in Tables
  <2>1. \A r \in RecordIds : table'[r] \in KeyRecordsOf \cup {Nil}
    BY <1>2, <1>4 DEF KeysIInv, Tables
  <2> QED BY <1>1, <2>1 DEF Tables
<1>6. \A r \in Used' : r \in Used /\ r \in RecordIds /\ table'[r].client = table[r].client
  BY <1>2, <1>3, <1>4 DEF Used
<1>7. OneEach(table')
  BY <1>6 DEF OneEach, InUse, Used, KeysIInv
<1>8. ASSUME NEW r \in Used'
      PROVE  table'[r].upstream.form = "v2" /\ table'[r].safetyhub.form = "v2"
  <2>1. r \in Used /\ r \in RecordIds
    BY <1>6
  <2>2. /\ table[r].upstream.form = "v1" => reading[r] # Nil /\ reading[r].upstream.form = "v1"
        /\ table[r].safetyhub.form = "v1" => reading[r] # Nil /\ reading[r].safetyhub.form = "v1"
    BY <1>1, <2>1 DEF KeysIInv, ReadingOK
  <2>3. table[r].upstream.form \in {"v1", "v2"} /\ table[r].safetyhub.form \in {"v1", "v2"}
    <3>1. table[r] \in KeyRecordsOf
      BY <2>1 DEF KeysIInv, Tables, Used
    <3> QED BY <3>1, RecordFields
  <2>4. CASE r \in ToRenew
    <3>1. /\ table'[r].upstream = IF reading[r].upstream.form = "v2" THEN table[r].upstream
                                  ELSE Encrypt(reading[r].upstream.key)
          /\ table'[r].safetyhub = IF reading[r].safetyhub.form = "v2" THEN table[r].safetyhub
                                   ELSE Encrypt(reading[r].safetyhub.key)
      BY <1>4, <2>4
    <3>2. /\ reading[r].upstream.form = "v2" => table[r].upstream.form = "v2"
          /\ reading[r].safetyhub.form = "v2" => table[r].safetyhub.form = "v2"
      BY <2>2, <2>3
    <3> QED BY <3>1, <3>2, EncryptedFields
  <2>5. CASE r \notin ToRenew
    BY <1>2, <2>1, <2>2, <2>3, <2>5 DEF ToRenew
  <2> QED BY <2>4, <2>5
<1>9. AllRenewed'
  BY <1>8 DEF AllRenewed
<1>10. ASSUME NEW r \in Used'
       PROVE  /\ table'[r].client = given'[r].client
              /\ r \notin overtaken' => /\ table'[r].safetyhub.key = given'[r].client
                                      /\ table'[r].upstream.key = given'[r].upstream
  <2>1. /\ r \in Used /\ r \in RecordIds /\ table'[r].client = table[r].client
        /\ given'[r] = given[r] /\ overtaken' = overtaken
    BY <1>1, <1>6
  <2>2. /\ table[r].client = given[r].client
        /\ r \notin overtaken => /\ table[r].safetyhub.key = given[r].client
                               /\ table[r].upstream.key = given[r].upstream
    BY <2>1 DEF KeysIInv, RecordsAsGiven
  <2>3. CASE r \in ToRenew
    <3>1. r \notin overtaken => /\ reading[r].upstream.key = given[r].upstream
                             /\ reading[r].safetyhub.key = given[r].client
      BY <1>1, <1>3, <2>1, <2>3 DEF KeysIInv, ReadingOK
    <3>2. /\ table'[r].upstream = IF reading[r].upstream.form = "v2" THEN table[r].upstream
                                  ELSE Encrypt(reading[r].upstream.key)
          /\ table'[r].safetyhub = IF reading[r].safetyhub.form = "v2" THEN table[r].safetyhub
                                   ELSE Encrypt(reading[r].safetyhub.key)
      BY <1>4, <2>3
    <3>3. /\ table'[r].upstream.key \in {table[r].upstream.key, reading[r].upstream.key}
          /\ table'[r].safetyhub.key \in {table[r].safetyhub.key, reading[r].safetyhub.key}
      BY <3>2, EncryptedFields
    <3> QED BY <2>1, <2>2, <3>1, <3>3
  <2>4. CASE r \notin ToRenew
    BY <1>2, <2>1, <2>2, <2>4
  <2> QED BY <2>3, <2>4
<1>11. RecordsAsGiven'
  BY <1>10 DEF RecordsAsGiven
<1> QED BY <1>1, <1>5, <1>7, <1>9, <1>11 DEF KeysIInv, ReadingOK

(* Every step keeps the invariant.                                         *)
LEMMA KeysStep == KeysIInv /\ [KeysNext]_keyVars => KeysIInv'
<1> SUFFICES ASSUME KeysIInv, [KeysNext]_keyVars PROVE KeysIInv'
  OBVIOUS
<1>1. ASSUME NEW r \in RecordIds, NEW upstream \in Keys, NEW client \in AnyKey,
             CreateKey(r, client, upstream)
      PROVE  KeysIInv'
  BY <1>1, CreatedKeys DEF CreateKey
<1>10. ASSUME NEW r \in RecordIds, NEW client \in AnyKey, NEW new \in Tokens,
              CreateFromProvider(r, client, new)
       PROVE  KeysIInv'
  <2>1. new.key \in Keys /\ new.uid \in Uids
    BY TokensAssumption
  <2>2. CreateRecord(r, client, new.key, "oneapi", new.uid)
    BY <1>10 DEF CreateFromProvider
  <2> QED BY <2>1, <2>2, CreatedKeys
<1>2. ASSUME NEW identifier \in Identifiers, NEW new \in Keys, ReplaceKey(identifier, new)
      PROVE  KeysIInv'
  BY <1>2, Replacement
<1>3. ASSUME NEW r \in RecordIds, RevokeKey(r) PROVE KeysIInv'
  BY <1>3, RevokedKeys
<1>4. ASSUME NEW r \in RecordIds, DeleteKey(r) PROVE KeysIInv'
  BY <1>4, DeletedKeys
<1>5. ASSUME NEW f \in Files, Import(f) PROVE KeysIInv'
  BY <1>5, ImportedKeys
<1>6. CASE ReadSecrets
  BY <1>6, ReadAll
<1>7. CASE WriteSecrets
  BY <1>7, RewrittenKeys
<1>8. CASE RollBack
  BY <1>8 DEF RollBack, KeysIInv, RecordsAsGiven, AllRenewed, ReadingOK, Used
<1>9. CASE UNCHANGED keyVars
  BY <1>9 DEF keyVars, KeysIInv, RecordsAsGiven, AllRenewed, ReadingOK, Used
<1> QED BY <1>1, <1>2, <1>3, <1>4, <1>5, <1>6, <1>7, <1>8, <1>9, <1>10 DEF KeysNext

(* What the invariant says of the keys: the records hold them, each has a  *)
(* client's key of its own, and the service reads what was renewed.        *)
LEMMA KeysImplied == KeysIInv => KeysAsGiven
<1> SUFFICES ASSUME KeysIInv, NEW r \in Used
             PROVE  /\ table[r].client = given[r].client
                    /\ r \notin overtaken => /\ table[r].safetyhub.key = given[r].client
                                           /\ table[r].upstream.key = given[r].upstream
                    /\ \A s \in Used \ {r} : table[s].client # table[r].client
                    /\ migrated => Nil \notin {Decrypt(table[r].upstream), Decrypt(table[r].safetyhub)}
  BY DEF KeysAsGiven
<1>1. /\ table[r].client = given[r].client
      /\ r \notin overtaken => /\ table[r].safetyhub.key = given[r].client
                             /\ table[r].upstream.key = given[r].upstream
  BY DEF KeysIInv, RecordsAsGiven
<1>2. \A s \in Used \ {r} : table[s].client # table[r].client
  BY DEF KeysIInv, OneEach, InUse, Used
<1>3. migrated => Nil \notin {Decrypt(table[r].upstream), Decrypt(table[r].safetyhub)}
  <2>1. table[r] \in KeyRecordsOf
    BY DEF KeysIInv, Tables, Used
  <2>2. table[r].upstream.key \in AnyKey /\ table[r].safetyhub.key \in AnyKey
    BY <2>1, RecordFields
  <2> QED BY <2>2, KeysAssumption DEF KeysIInv, AllRenewed, Decrypt
<1> QED BY <1>1, <1>2, <1>3

(* Whoever writes the table of keys - the service, an import of however    *)
(* many items, a re-encryption between whose reading and writing others    *)
(* write - in whatever order: each record holds the keys last given to it, *)
(* no two have one client's key, and after a re-encryption the service can *)
(* read them all (api_keys.py, import_yxai_keys.py,                        *)
(* migrate_apikeys_to_fernet.py).                                          *)
THEOREM RecordsHoldTheirKeys == KeysSpec => []KeysAsGiven
<1>1. KeysSpec => []KeysIInv
  BY KeysStart, KeysStep, PTL DEF KeysSpec
<1> QED BY <1>1, KeysImplied, PTL

-----------------------------------------------------------------------------
(* An import that is repeated.                                            *)

(* Once an item has been imported, its token's record has its key, and     *)
(* nothing takes it from there but another file.                           *)
ToldUpTo(t, f, n) == \A i \in 1..n : \A r \in RecordIds :
    Usable(f[i]) /\ OfToken(t, r, f[i].uid) => t[r].client = f[i].key
Told(t, f) == ToldUpTo(t, f, Len(f))
Listed(acc, f, n) == \A i \in 1..n :
    Usable(f[i]) => \E r \in acc.touched : acc.table[r] = ImportedRecord(f[i])

Progress(acc, t, f, n) ==
    /\ acc.ok => OwnIds(acc.table, f) /\ ToldUpTo(acc.table, f, n) /\ Listed(acc, f, n)
    /\ Told(t, f) => acc.ok /\ Told(acc.table, f)

RepeatIInv == \A f \in Files :
    /\ imported \subseteq {f} => OwnIds(table, f)
    /\ imported = {f} /\ OnTime(f) => Told(table, f)

TargetOf(T, item) == IF FindExisting(T, item) = {} THEN ImportId[item.uid]
                   ELSE CHOOSE r \in FindExisting(T, item) : TRUE
Fails(T, item) ==
    \/ Cardinality(FindExisting(T, item)) > 1
    \/ \E r \in RecordIds \ {TargetOf(T, item)} : HasClient(T, r, item.key)
    \/ FindExisting(T, item) = {} /\ T[TargetOf(T, item)] # Nil

(* What an item does: nothing, fail, or write its record.                  *)
LEMMA ItemEffect ==
    ASSUME NEW acc, NEW item, acc = [ok |-> acc.ok, table |-> acc.table, touched |-> acc.touched]
    PROVE  LET T == acc.table
               r == TargetOf(T, item)
           IN /\ ~Usable(item) \/ ~acc.ok => ImportItem(acc, item) = acc
              /\ Usable(item) /\ acc.ok /\ Fails(T, item) => ImportItem(acc, item).ok = FALSE
              /\ Usable(item) /\ acc.ok /\ ~Fails(T, item) =>
                    ImportItem(acc, item) =
                      [ok |-> TRUE, table |-> [T EXCEPT ![r] = ImportedRecord(item)],
                       touched |-> acc.touched \cup {r}]
<1> DEFINE failed == [acc EXCEPT !.ok = FALSE]
           r == TargetOf(acc.table, item)
           done == [ok |-> TRUE, table |-> [acc.table EXCEPT ![r] = ImportedRecord(item)],
                    touched |-> acc.touched \cup {r}]
<1>1. failed.ok = FALSE
  OBVIOUS
<1>2. ImportItem(acc, item) = IF ~Usable(item) \/ ~acc.ok THEN acc
                              ELSE IF Fails(acc.table, item) THEN failed ELSE done
  BY Zenon DEF ImportItem, TargetOf, Fails, failed, done, r
<1> HIDE DEF failed, done
<1>3. ~Usable(item) \/ ~acc.ok => ImportItem(acc, item) = acc
  BY ONLY <1>2
<1>4. Usable(item) /\ acc.ok /\ Fails(acc.table, item) => ImportItem(acc, item).ok = FALSE
  BY ONLY <1>1, <1>2
<1>5. Usable(item) /\ acc.ok /\ ~Fails(acc.table, item) => ImportItem(acc, item) = done
  BY ONLY <1>2
<1> QED BY ONLY <1>3, <1>4, <1>5 DEF done

(* Which record an item that does not fail is written to.                  *)
LEMMA TargetIs ==
    ASSUME NEW T \in Tables, NEW f \in Files, OwnIds(T, f),
           NEW item \in [uid : Uids, key : Keys \cup {Nil}], ~Fails(T, item)
    PROVE  LET target == TargetOf(T, item) IN
           /\ target \in RecordIds
           /\ \A r \in RecordIds : OfToken(T, r, item.uid) => r = target
           /\ \/ OfToken(T, target, item.uid)
              \/ HasClient(T, target, item.key)
              \/ T[target] = Nil /\ target = ImportId[item.uid]
<1> DEFINE found == FindExisting(T, item)
           byUid == {r \in RecordIds : OfToken(T, r, item.uid)}
           target == TargetOf(T, item)
<1>1. item.uid \in Uids /\ ImportId[item.uid] \in RecordIds
  BY DEF RecordIds
<1>2. found = IF byUid # {} THEN byUid ELSE FindByKey(T, item)
  BY DEF FindExisting
<1>3. found \in SUBSET RecordIds /\ ~(Cardinality(found) > 1)
  <2>1. FindByKey(T, item) \in SUBSET RecordIds
    BY DEF FindByKey
  <2> QED BY <1>2, <2>1 DEF Fails
<1>4. target = IF found = {} THEN ImportId[item.uid] ELSE CHOOSE r \in found : TRUE
  BY DEF TargetOf
<1>5. found = {} => T[target] = Nil
  BY DEF Fails
<1> HIDE DEF found, target
<1>6. \A r \in found : r = target
  <2>1. IsFiniteSet(found)
    BY <1>3, IdsAssumption, FS_Subset
  <2>2. target \in found \/ found = {}
    BY <1>4
  <2>3. ASSUME NEW r \in found, r # target PROVE FALSE
    <3>1. {r, target} \subseteq found /\ Cardinality({r, target}) = 2
      <4>1. {r, target} = {target} \cup {r} /\ r \notin {target}
        BY <2>3
      <4>2. IsFiniteSet({target}) /\ Cardinality({target}) = 1
        BY FS_Singleton
      <4>3. Cardinality({target} \cup {r}) = Cardinality({target}) + 1
        <5> DEFINE one == {target}
        <5>1. IsFiniteSet(one) /\ r \notin one
          BY <4>1, <4>2
        <5> HIDE DEF one
        <5>2. Cardinality(one \cup {r}) = Cardinality(one) + 1
          BY <5>1, FS_AddElement
        <5> QED BY <5>2 DEF one
      <4> QED BY <2>2, <2>3, <4>1, <4>2, <4>3
    <3>2. Cardinality({r, target}) <= Cardinality(found) /\ Cardinality(found) \in Nat
      BY <2>1, <3>1, FS_Subset, FS_CardinalityType
    <3> QED BY <1>3, <3>1, <3>2
  <2> QED BY <2>3
<1>7. target \in found \/ found = {}
  BY <1>4
<1>8. CASE found = {}
  BY <1>1, <1>2, <1>4, <1>5, <1>8 DEF target
<1>9. CASE target \in found
  <2>1. target \in RecordIds
    BY <1>3, <1>9
  <2>2. \A r \in RecordIds : OfToken(T, r, item.uid) => r = target
    BY <1>2, <1>6
  <2>3. OfToken(T, target, item.uid) \/ HasClient(T, target, item.key)
    BY <1>2, <1>9 DEF FindByKey
  <2> QED BY <2>1, <2>2, <2>3 DEF target
<1> QED BY <1>7, <1>8, <1>9

(* An item that was imported before does not fail.                         *)
LEMMA DoesNotFail ==
    ASSUME NEW T \in Tables, OneEach(T), NEW f \in Files, OwnIds(T, f), Told(T, f),
           NEW n \in 1..Len(f), Usable(f[n])
    PROVE  ~Fails(T, f[n])
<1> DEFINE item == f[n]
           found == FindExisting(T, item)
           byUid == {r \in RecordIds : OfToken(T, r, item.uid)}
           target == TargetOf(T, item)
<1>1. item.uid \in Uids /\ ImportId[item.uid] \in RecordIds
  BY ItemOfFile DEF RecordIds
<1>2. found = IF byUid # {} THEN byUid ELSE FindByKey(T, item)
  BY DEF FindExisting
<1>3. \A r \in found : r \in RecordIds /\ T[r] # Nil /\ T[r].client = item.key
  BY <1>2 DEF FindByKey, HasClient, OfToken, Told, ToldUpTo
<1>4. \A r \in RecordIds : HasClient(T, r, item.key) /\ byUid = {} => r \in found
  BY <1>2 DEF FindByKey
<1>5. target = IF found = {} THEN ImportId[item.uid] ELSE CHOOSE r \in found : TRUE
  BY DEF TargetOf
<1>6. found = {} => byUid = {}
  BY <1>2
<1>7. Cardinality(found) > 1 \/ (\E r \in RecordIds \ {target} : HasClient(T, r, item.key))
        \/ (found = {} /\ T[target] # Nil) <=> Fails(T, item)
  BY DEF Fails
<1> HIDE DEF found, target, item
<1>8. CASE found = {}
  <2>1. ~(Cardinality(found) > 1)
    BY <1>8, FS_EmptySet
  <2>2. ~\E r \in RecordIds \ {target} : HasClient(T, r, item.key)
    BY <1>4, <1>6, <1>8
  <2>3. T[target] = Nil
    BY <1>1, <1>5, <1>6, <1>8 DEF OwnIds
  <2> QED BY <1>7, <1>8, <2>1, <2>2, <2>3 DEF item
<1>9. CASE found # {}
  <2>1. target \in found
    BY <1>5, <1>9
  <2>2. \A r \in RecordIds : HasClient(T, r, item.key) => r = target
    BY <1>3, <2>1 DEF OneEach, InUse, HasClient
  <2>3. found = {target}
    BY <1>3, <2>1, <2>2 DEF HasClient
  <2>4. ~(Cardinality(found) > 1)
    <3>1. Cardinality({target}) = 1
      BY FS_Singleton
    <3> QED BY <2>3, <3>1
  <2> QED BY <1>7, <1>9, <2>2, <2>4 DEF item
<1> QED BY <1>8, <1>9

LEMMA ImportedFields ==
    ASSUME NEW item \in [uid : Uids, key : Keys \cup {Nil}], Usable(item)
    PROVE  LET rec == ImportedRecord(item) IN
           /\ rec \in KeyRecordsOf /\ rec # Nil
           /\ rec.client = item.key /\ rec.uid = item.uid /\ rec.provider = "oneapi"
<1>1. item.key \in AnyKey /\ item.uid \in Uids
  BY DEF Usable, AnyKey
<1>2. Encrypt(item.key) \in Secrets
  BY <1>1, Encrypted
<1>3. ImportedRecord(item) \in KeyRecordsOf
  BY <1>1, <1>2 DEF ImportedRecord, KeyRecordsOf
<1> QED BY <1>3, IdsAssumption DEF ImportedRecord

LEMMA ItemsApart ==
    ASSUME NEW f \in Files, NEW i \in 1..Len(f), NEW n \in 1..Len(f), Usable(f[n])
    PROVE  i # n => f[i].uid # f[n].uid /\ f[i].key # f[n].key
<1>1. i \in DOMAIN f /\ n \in DOMAIN f
  BY ItemOfFile
<1> QED BY <1>1, FilesAssumption DEF Usable

(* What an item changes, in a table where imported ids are their tokens'.  *)
ItemWritten(T, now, f, n, r) ==
    /\ r \in RecordIds /\ now[r] = ImportedRecord(f[n])
    /\ OwnIds(now, f)
    /\ \A i \in 1..Len(f), s \in RecordIds : Usable(f[i]) =>
          /\ OfToken(now, s, f[i].uid) /\ now[s].client # f[i].key =>
                 i # n /\ OfToken(T, s, f[i].uid) /\ T[s].client # f[i].key
          /\ i # n /\ T[s] = ImportedRecord(f[i]) => now[s] = ImportedRecord(f[i])

LEMMA WrittenItem ==
    ASSUME NEW T \in Tables, NEW f \in Files, OwnIds(T, f),
           NEW n \in 1..Len(f), Usable(f[n]), ~Fails(T, f[n]),
           NEW now, now = [T EXCEPT ![TargetOf(T, f[n])] = ImportedRecord(f[n])]
    PROVE  ItemWritten(T, now, f, n, TargetOf(T, f[n]))
<1> DEFINE item == f[n]
           target == TargetOf(T, item)
           rec == ImportedRecord(item)
<1>1. item \in [uid : Uids, key : Keys \cup {Nil}] /\ Usable(item) /\ ~Fails(T, item)
  BY ItemOfFile
<1>2. rec \in KeyRecordsOf /\ rec # Nil
      /\ rec.client = item.key /\ rec.uid = item.uid /\ rec.provider = "oneapi"
  BY <1>1, ImportedFields
<1>3. /\ target \in RecordIds
      /\ \A r \in RecordIds : OfToken(T, r, item.uid) => r = target
      /\ \/ OfToken(T, target, item.uid)
         \/ HasClient(T, target, item.key)
         \/ T[target] = Nil /\ target = ImportId[item.uid]
  BY <1>1, TargetIs
<1>4. \A i \in 1..Len(f) : i # n => f[i].uid # item.uid /\ f[i].key # item.key
  BY ItemsApart
<1>5. now = [T EXCEPT ![target] = rec]
  OBVIOUS
<1>6. DOMAIN f = 1..Len(f)
  BY ItemOfFile
<1> HIDE DEF item, target, rec
<1>7. now[target] = rec /\ \A r \in RecordIds \ {target} : now[r] = T[r]
  BY <1>3, <1>5 DEF Tables
<1>8. \A u \in Uids : ImportId[u] \in RecordIds
  BY DEF RecordIds
<1>9. ASSUME NEW u \in Uids, now[ImportId[u]] # Nil
      PROVE  /\ OfToken(now, ImportId[u], u)
             /\ \A i \in DOMAIN f : f[i].key = now[ImportId[u]].client => f[i].uid = u
  <2>1. CASE ImportId[u] # target
    <3>1. now[ImportId[u]] = T[ImportId[u]]
      BY <1>7, <1>8, <2>1
    <3> QED BY <1>9, <3>1 DEF OwnIds, OfToken
  <2>2. CASE ImportId[u] = target
    <3>1. u = item.uid
      <4>1. CASE OfToken(T, target, item.uid)
        BY <2>2, <4>1 DEF OwnIds, OfToken
      <4>2. CASE HasClient(T, target, item.key)
        BY <1>6, <2>2, <4>2 DEF OwnIds, HasClient, item
      <4>3. CASE T[target] = Nil /\ target = ImportId[item.uid]
        BY <1>1, <2>2, <4>3, IdsAssumption
      <4> QED BY <1>3, <4>1, <4>2, <4>3
    <3>2. OfToken(now, ImportId[u], u)
      BY <1>2, <1>7, <2>2, <3>1 DEF OfToken
    <3>3. \A i \in DOMAIN f : f[i].key = item.key => f[i].uid = u
      BY <1>4, <1>6, <3>1 DEF item
    <3> QED BY <1>2, <1>7, <2>2, <3>2, <3>3
  <2> QED BY <2>1, <2>2
<1>10. OwnIds(now, f)
  BY <1>9 DEF OwnIds
<1>11. ASSUME NEW i \in 1..Len(f), NEW r \in RecordIds, Usable(f[i])
       PROVE  /\ OfToken(now, r, f[i].uid) /\ now[r].client # f[i].key =>
                     i # n /\ OfToken(T, r, f[i].uid) /\ T[r].client # f[i].key
              /\ i # n /\ T[r] = ImportedRecord(f[i]) => now[r] = ImportedRecord(f[i])
  <2>1. CASE r = target
    <3>1. OfToken(now, r, f[i].uid) => i = n
      BY <1>2, <1>4, <1>7, <2>1 DEF OfToken
    <3>2. i = n => now[r].client = f[i].key
      BY <1>2, <1>7, <2>1 DEF item
    <3>3. i # n => T[r] # ImportedRecord(f[i])
      <4>1. /\ ImportedRecord(f[i]) # Nil /\ ImportedRecord(f[i]).client = f[i].key
            /\ ImportedRecord(f[i]).uid = f[i].uid
        BY <1>11, ItemOfFile, ImportedFields
      <4> QED BY <1>3, <1>4, <2>1, <4>1 DEF OfToken, HasClient
    <3> QED BY <3>1, <3>2, <3>3
  <2>2. CASE r # target
    <3>1. now[r] = T[r]
      BY <1>7, <2>2
    <3>2. i = n => ~OfToken(now, r, f[i].uid)
      BY <1>3, <2>2, <3>1 DEF OfToken, item
    <3> QED BY <3>1, <3>2 DEF OfToken
  <2> QED BY <2>1, <2>2
<1> QED BY <1>3, <1>7, <1>10, <1>11 DEF ItemWritten, item, target, rec

LEMMA ItemProgress ==
    ASSUME NEW t \in Tables, NEW f \in Files, NEW acc, ImportOK(acc, t),
           NEW n \in 1..Len(f), Progress(acc, t, f, n - 1)
    PROVE  Progress(ImportItem(acc, f[n]), t, f, n)
<1> DEFINE item == f[n]
           T == acc.table
           r == TargetOf(T, item)
           now == [T EXCEPT ![r] = ImportedRecord(item)]
<1>1. acc = [ok |-> acc.ok, table |-> acc.table, touched |-> acc.touched]
      /\ acc.table \in Tables /\ OneEach(acc.table) /\ acc.touched \in SUBSET RecordIds
  BY DEF ImportOK
<1>2. n \in Nat /\ 1 <= n /\ n <= Len(f) /\ Len(f) \in Nat
  BY ItemOfFile
<1>3. \A i \in 1..n : i = n \/ i \in 1..(n - 1)
  BY <1>2
<1>4. CASE ~acc.ok
  <2>1. ImportItem(acc, item) = acc
    BY <1>4 DEF ImportItem
  <2> QED BY <1>4, <2>1 DEF Progress
<1>5. CASE acc.ok /\ ~Usable(item)
  <2>1. ImportItem(acc, item) = acc
    BY <1>1, <1>5, ItemEffect
  <2> QED BY <1>3, <1>5, <2>1 DEF Progress, ToldUpTo, Listed
<1>6. CASE acc.ok /\ Usable(item) /\ Fails(T, item)
  <2>1. ImportItem(acc, item).ok = FALSE
    BY <1>1, <1>6, ItemEffect
  <2>2. ~Told(t, f)
    BY <1>1, <1>6, DoesNotFail DEF Progress
  <2> QED BY <2>1, <2>2 DEF Progress
<1>7. CASE acc.ok /\ Usable(item) /\ ~Fails(T, item)
  <2>1. ImportItem(acc, item) = [ok |-> TRUE, table |-> now, touched |-> acc.touched \cup {r}]
    <3>1. acc = [ok |-> acc.ok, table |-> T, touched |-> acc.touched]
      BY <1>1
    <3>2. Usable(item) /\ acc.ok /\ ~Fails(T, item)
      BY <1>7
    <3> HIDE DEF item
    <3> QED BY <3>1, <3>2, ItemEffect
  <2>2. OwnIds(T, f)
    BY <1>7 DEF Progress
  <2>3. /\ r \in RecordIds /\ now[r] = ImportedRecord(item)
        /\ OwnIds(now, f)
        /\ \A i \in 1..Len(f), s \in RecordIds : Usable(f[i]) =>
              /\ OfToken(now, s, f[i].uid) /\ now[s].client # f[i].key =>
                     i # n /\ OfToken(T, s, f[i].uid) /\ T[s].client # f[i].key
              /\ i # n /\ T[s] = ImportedRecord(f[i]) => now[s] = ImportedRecord(f[i])
    <3>1. now = [T EXCEPT ![TargetOf(T, f[n])] = ImportedRecord(f[n])]
      OBVIOUS
    <3>2. T \in Tables /\ Usable(f[n]) /\ ~Fails(T, f[n])
      BY <1>1, <1>7
    <3> HIDE DEF now, T
    <3>3. ItemWritten(T, now, f, n, TargetOf(T, f[n]))
      BY <2>2, <3>1, <3>2, WrittenItem
    <3> QED BY <3>3 DEF ItemWritten
  <2>4. ImportItem(acc, item).ok /\ ImportItem(acc, item).table = now
        /\ ImportItem(acc, item).touched = acc.touched \cup {r}
    BY <2>1
  <2> HIDE DEF now, r, item, T
  <2>5. \A i \in 1..n : i \in 1..Len(f)
    BY <1>2
  <2>6. ToldUpTo(now, f, n)
    <3>1. ToldUpTo(T, f, n - 1)
      BY <1>7 DEF Progress, T
    <3> QED BY <1>3, <2>3, <2>5, <3>1 DEF ToldUpTo
  <2>7. Told(t, f) => Told(now, f)
    <3>1. Told(t, f) => Told(T, f)
      BY DEF Progress, T
    <3> QED BY <2>3, <3>1 DEF Told, ToldUpTo
  <2>8. ASSUME NEW i \in 1..n, Usable(f[i])
        PROVE  \E s \in acc.touched \cup {r} : now[s] = ImportedRecord(f[i])
    <3>1. CASE i = n
      BY <2>3, <3>1 DEF item
    <3>2. CASE i # n
      <4>1. PICK s \in acc.touched : T[s] = ImportedRecord(f[i])
        BY <1>3, <1>7, <2>8, <3>2 DEF Progress, Listed, T
      <4>2. s \in RecordIds
        BY <1>1
      <4> QED BY <2>3, <2>5, <2>8, <3>2, <4>1, <4>2
    <3> QED BY <3>1, <3>2
  <2>9. Listed(ImportItem(acc, item), f, n)
    BY <2>4, <2>8 DEF Listed
  <2> QED BY <2>3, <2>4, <2>6, <2>7, <2>9 DEF Progress, item
<1> QED BY <1>4, <1>5, <1>6, <1>7

(* A file of however many items.                                          *)
LEMMA ImportProgress ==
    ASSUME NEW t \in Tables, OneEach(t), NEW f \in Files, OwnIds(t, f)
    PROVE  Progress(ImportResult(t, f), t, f, Len(f))
<1> DEFINE base == [ok |-> TRUE, table |-> t, touched |-> {}]
           k == Len(f)
<1>1. k \in Nat /\ DOMAIN f = 1..k
      /\ \A i \in 1..k : f[i] \in [uid : Uids, key : Keys \cup {Nil}]
  BY ItemOfFile
<1>2. ImportOK(base, t) /\ Progress(base, t, f, 0)
  BY DEF ImportOK, Progress, ToldUpTo, Listed
<1> HIDE DEF base
<1>3. PICK g : /\ ImportResult(t, f) = g[1..k]
               /\ g[{}] = base
               /\ \A n \in 1..k : g[1..n] = ImportItem(g[1..(n - 1)], f[n])
  <2> HIDE DEF base
  <2>1. k \in Nat /\ DOMAIN f = 1..k
    BY <1>1
  <2> HIDE DEF k
  <2>2. PICK g : /\ ImportResult(t, f) = g[1..k]
                 /\ g[{}] = [ok |-> TRUE, table |-> t, touched |-> {}]
                 /\ \A n \in 1..k : g[1..n] = ImportItem(g[1..(n - 1)], f[n])
    BY <2>1, FoldSteps
  <2> QED BY <2>2 DEF base
<1> DEFINE Good(n) == ImportOK(g[1..n], t) /\ Progress(g[1..n], t, f, n)
           Bad == {n \in 0..k : ~Good(n)}
<1>4. Good(0)
  <2>1. 1..0 = {}
    OBVIOUS
  <2> QED BY <1>2, <1>3, <2>1
<1>5. ASSUME NEW n \in 1..k, Good(n - 1) PROVE Good(n)
  <2>1. g[1..n] = ImportItem(g[1..(n - 1)], f[n])
    BY <1>3
  <2>2. ImportOK(g[1..n], t)
    BY <1>1, <1>5, <2>1, ImportItemStep
  <2>3. Progress(g[1..n], t, f, n)
    BY <1>5, <2>1, ItemProgress
  <2> QED BY <2>2, <2>3
<1> HIDE DEF Good
<1>6. Bad = {}
  <2> SUFFICES ASSUME Bad # {} PROVE FALSE
    OBVIOUS
  <2>1. Bad \in SUBSET Nat
    BY <1>1
  <2>2. PICK n \in Bad : \A j \in Bad : n <= j
    <3> HIDE DEF Bad
    <3> QED BY <2>1, LeastNatural
  <2>3. n \in 0..k /\ ~Good(n)
    OBVIOUS
  <2>4. n # 0
    BY <1>4, <2>3
  <2>5. n \in 1..k /\ n - 1 \in 0..k /\ ~(n <= n - 1)
    BY <1>1, <2>3, <2>4
  <2>6. n - 1 \notin Bad
    <3> HIDE DEF Bad
    <3> QED BY <2>2, <2>5
  <2>7. Good(n - 1)
    BY <2>5, <2>6
  <2> QED BY <1>5, <2>3, <2>5, <2>7
<1>7. Good(k)
  BY <1>1, <1>6
<1> QED BY <1>3, <1>7 DEF Good

(* What the service and the re-encryption leave of records, and what they  *)
(* make, is no import's, nor is it a token's that was imported in time.    *)
Inherited == \A r \in RecordIds : table'[r] # Nil =>
    \/ /\ table[r] # Nil /\ table'[r].client = table[r].client
       /\ table'[r].provider = table[r].provider /\ table'[r].uid = table[r].uid
    \/ r \in Made /\ table'[r].provider = "other"
    \/ /\ r \in Made
       /\ \A f \in imported : OnTime(f)' =>
              \A i \in DOMAIN f : Usable(f[i]) => f[i].uid # table'[r].uid

LEMMA InheritedRepeats ==
    ASSUME RepeatIInv, Inherited, imported' = imported, late \subseteq late'
    PROVE  RepeatIInv'
<1> SUFFICES ASSUME NEW f \in Files
             PROVE  /\ imported' \subseteq {f} => OwnIds(table', f)
                    /\ imported' = {f} /\ OnTime(f)' => Told(table', f)
  BY DEF RepeatIInv, OnTime
<1>1. ASSUME OwnIds(table, f) PROVE OwnIds(table', f)
  <2> SUFFICES ASSUME NEW u \in Uids, table'[ImportId[u]] # Nil
               PROVE  /\ OfToken(table', ImportId[u], u)
                      /\ \A i \in DOMAIN f : f[i].key = table'[ImportId[u]].client => f[i].uid = u
    BY DEF OwnIds
  <2>1. ImportId[u] \in RecordIds /\ ImportId[u] \notin Made
    BY IdsAssumption DEF RecordIds
  <2> QED BY <1>1, <2>1 DEF Inherited, OwnIds, OfToken
<1>2. ASSUME imported = {f}, OnTime(f)' PROVE Told(table', f)
  <2>1. OnTime(f)
    BY <1>2 DEF OnTime
  <2>2. Told(table, f)
    BY <1>2, <2>1 DEF RepeatIInv
  <2> SUFFICES ASSUME NEW i \in 1..Len(f), NEW r \in RecordIds,
                      Usable(f[i]), OfToken(table', r, f[i].uid)
               PROVE  table'[r].client = f[i].key
    BY DEF Told, ToldUpTo
  <2>3. i \in DOMAIN f /\ f \in imported
    BY <1>2, ItemOfFile
  <2>4. table'[r].client = table[r].client /\ OfToken(table, r, f[i].uid)
    BY <1>2, <2>3 DEF Inherited, OfToken
  <2> QED BY <2>2, <2>4 DEF Told, ToldUpTo
<1> QED BY <1>1, <1>2 DEF RepeatIInv

LEMMA RepeatInit == KeysInit => RepeatIInv
BY TokensAssumption DEF KeysInit, RepeatIInv

LEMMA ImportedAgain ==
    ASSUME KeysIInv, RepeatIInv, NEW g \in Files, Import(g)
    PROVE  RepeatIInv'
<1>1. ImportResult(table, g).ok /\ table' = ImportResult(table, g).table /\ imported' = imported \cup {g}
  BY DEF Import
<1> SUFFICES ASSUME NEW f \in Files, imported' \subseteq {f}
             PROVE  OwnIds(table', f) /\ Told(table', f)
  BY DEF RepeatIInv, OnTime
<1>2. f = g /\ imported \subseteq {f}
  BY <1>1
<1>3. OwnIds(table, f) /\ table \in Tables /\ OneEach(table)
  BY <1>2 DEF RepeatIInv, KeysIInv
<1>4. Progress(ImportResult(table, f), table, f, Len(f))
  BY <1>3, ImportProgress
<1> QED BY <1>1, <1>2, <1>4 DEF Progress, Told

LEMMA RewrittenInherited ==
    ASSUME KeysIInv, WriteSecrets
    PROVE  Inherited
<1> SUFFICES ASSUME NEW r \in RecordIds, table'[r] # Nil
             PROVE  /\ table[r] # Nil /\ table'[r].client = table[r].client
                    /\ table'[r].provider = table[r].provider /\ table'[r].uid = table[r].uid
  BY DEF Inherited
<1>1. /\ ToRenew \subseteq Used
      /\ table'[r] = IF r \in ToRenew THEN Renew(reading[r], table[r]) ELSE table[r]
  BY DEF WriteSecrets
<1>2. CASE r \in ToRenew
  <2>1. table[r] # Nil /\ table[r] \in KeyRecordsOf
    BY <1>1, <1>2 DEF Used, KeysIInv, Tables
  <2>2. \A now \in KeyRecordsOf : \A a, b : LET rec == [now EXCEPT !.upstream = a, !.safetyhub = b] IN
            rec.client = now.client /\ rec.provider = now.provider /\ rec.uid = now.uid
    BY DEF KeyRecordsOf
  <2>3. /\ Renew(reading[r], table[r]).client = table[r].client
        /\ Renew(reading[r], table[r]).provider = table[r].provider
        /\ Renew(reading[r], table[r]).uid = table[r].uid
    BY <2>1, <2>2 DEF Renew
  <2> QED BY <1>1, <1>2, <2>1, <2>3
<1>3. CASE r \notin ToRenew
  BY <1>1, <1>3
<1> QED BY <1>2, <1>3

LEMMA RepeatStep == KeysIInv /\ RepeatIInv /\ [KeysNext]_keyVars => RepeatIInv'
<1> SUFFICES ASSUME KeysIInv, RepeatIInv, [KeysNext]_keyVars PROVE RepeatIInv'
  OBVIOUS
<1>1. table \in Tables
  BY DEF KeysIInv
<1>2. ASSUME NEW r \in RecordIds, NEW upstream \in Keys, NEW client \in AnyKey,
             CreateKey(r, client, upstream)
      PROVE  RepeatIInv'
  <2>1. /\ r \in Made /\ table' = [table EXCEPT ![r] = BuildRecord(client, upstream, "other", Nil)]
        /\ imported' = imported /\ late' = late
    BY <1>2 DEF CreateKey, CreateRecord
  <2>2. table'[r].provider = "other" /\ \A s \in RecordIds \ {r} : table'[s] = table[s]
    BY <1>1, <2>1 DEF Tables, BuildRecord
  <2>3. Inherited
    BY <2>1, <2>2 DEF Inherited
  <2> QED BY <2>1, <2>3, InheritedRepeats
<1>3. ASSUME NEW identifier \in Identifiers, NEW new \in Keys, ReplaceKey(identifier, new)
      PROVE  RepeatIInv'
  <2>1. PICK r \in Used : table' = Replaced(table, r, new)
    BY <1>3 DEF ReplaceKey
  <2>2. r \in RecordIds /\ table[r] # Nil /\ table[r] \in KeyRecordsOf /\ imported' = imported /\ late' = late
    BY <1>1, <1>3 DEF Used, Tables, ReplaceKey
  <2> DEFINE rec == [table[r] EXCEPT !.upstream = Encrypt(new), !.decoupled = TRUE]
  <2>3. /\ rec.client = table[r].client /\ rec.provider = table[r].provider /\ rec.uid = table[r].uid
    BY <2>2 DEF KeyRecordsOf
  <2>4. table' = [table EXCEPT ![r] = rec]
    BY <2>1 DEF Replaced
  <2> HIDE DEF rec
  <2>5. table'[r] = rec /\ \A s \in RecordIds \ {r} : table'[s] = table[s]
    BY <1>1, <2>2, <2>4 DEF Tables
  <2>6. Inherited
    BY <2>2, <2>3, <2>5 DEF Inherited
  <2> QED BY <2>2, <2>6, InheritedRepeats
<1>4. ASSUME NEW r \in RecordIds, RevokeKey(r) PROVE RepeatIInv'
  <2> DEFINE rec == [table[r] EXCEPT !.status = "revoked"]
  <2>1. /\ table[r] # Nil /\ table[r] \in KeyRecordsOf /\ imported' = imported /\ late' = late
        /\ table' = [table EXCEPT ![r] = rec]
    BY <1>1, <1>4 DEF RevokeKey, Tables
  <2>2. rec.client = table[r].client /\ rec.provider = table[r].provider /\ rec.uid = table[r].uid
    BY <2>1 DEF KeyRecordsOf
  <2> HIDE DEF rec
  <2>3. table'[r] = rec /\ \A s \in RecordIds \ {r} : table'[s] = table[s]
    BY <1>1, <2>1 DEF Tables
  <2>4. Inherited
    BY <2>1, <2>2, <2>3 DEF Inherited
  <2> QED BY <2>1, <2>4, InheritedRepeats
<1>5. ASSUME NEW r \in RecordIds, DeleteKey(r) PROVE RepeatIInv'
  <2>1. table' = [table EXCEPT ![r] = Nil] /\ imported' = imported /\ late' = late
    BY <1>5 DEF DeleteKey
  <2>2. table'[r] = Nil /\ \A s \in RecordIds \ {r} : table'[s] = table[s]
    BY <1>1, <2>1 DEF Tables
  <2>3. Inherited
    BY <2>2 DEF Inherited
  <2> QED BY <2>1, <2>3, InheritedRepeats
<1>6. ASSUME NEW f \in Files, Import(f) PROVE RepeatIInv'
  BY <1>6, ImportedAgain
<1>7. CASE WriteSecrets
  <2>1. imported' = imported /\ late' = late
    BY <1>7 DEF WriteSecrets
  <2> QED BY <1>7, <2>1, RewrittenInherited, InheritedRepeats
<1>8. CASE ReadSecrets \/ RollBack \/ UNCHANGED keyVars
  <2>1. UNCHANGED <<table, imported, late>>
    BY <1>8 DEF ReadSecrets, RollBack, keyVars
  <2> QED BY <2>1 DEF RepeatIInv, OnTime
<1>9. ASSUME NEW r \in RecordIds, NEW client \in AnyKey, NEW new \in Tokens,
             CreateFromProvider(r, client, new)
      PROVE  RepeatIInv'
  <2> DEFINE rec == BuildRecord(client, new.key, "oneapi", new.uid)
  <2>1. r \in Made /\ table' = [table EXCEPT ![r] = rec] /\ imported' = imported
    BY <1>9 DEF CreateFromProvider, CreateRecord
  <2>2. rec.uid = new.uid
    BY DEF BuildRecord
  <2> HIDE DEF rec
  <2>3. table'[r] = rec /\ \A s \in RecordIds \ {r} : table'[s] = table[s]
    BY <1>1, <2>1 DEF Tables
  <2>4. late' = IF \E file \in imported : \E i \in DOMAIN file :
                     Usable(file[i]) /\ file[i].uid = new.uid
               THEN late \cup {new.uid} ELSE late
    BY <1>9 DEF CreateFromProvider
  <2>5. late \subseteq late'
    BY <2>4
  <2>6. ASSUME NEW f \in imported, OnTime(f)', NEW i \in DOMAIN f, Usable(f[i])
        PROVE  f[i].uid # rec.uid
    <3>1. f[i].uid \notin late'
      BY <2>6 DEF OnTime
    <3> QED BY <2>2, <2>4, <2>6, <3>1
  <2>7. Inherited
    BY <2>1, <2>3, <2>6 DEF Inherited
  <2> QED BY <2>1, <2>5, <2>7, InheritedRepeats
<1> QED BY <1>2, <1>3, <1>4, <1>5, <1>6, <1>7, <1>8, <1>9 DEF KeysNext

LEMMA RepeatImplied == KeysIInv /\ RepeatIInv => ImportRepeats
<1> SUFFICES ASSUME KeysIInv, RepeatIInv, NEW f \in Files, imported = {f}, OnTime(f)
             PROVE  LET again == ImportResult(table, f) IN
                    /\ again.ok
                    /\ \A r \in RecordIds \ again.touched : again.table[r] = table[r]
                    /\ \A i \in {i \in DOMAIN f : Usable(f[i])} : \E r \in again.touched :
                          /\ again.table[r] = ImportedRecord(f[i])
                          /\ \A s \in RecordIds \ {r} : ~HasClient(again.table, s, f[i].key)
  BY DEF ImportRepeats
<1> DEFINE again == ImportResult(table, f)
<1>1. OwnIds(table, f) /\ Told(table, f) /\ table \in Tables /\ OneEach(table)
  BY DEF RepeatIInv, KeysIInv
<1>2. Progress(again, table, f, Len(f)) /\ ImportOK(again, table)
  BY <1>1, ImportProgress, ImportKeeps
<1> HIDE DEF again
<1>3. again.ok /\ Listed(again, f, Len(f)) /\ OneEach(again.table)
      /\ again.touched \in SUBSET RecordIds
      /\ \A r \in RecordIds \ again.touched : again.table[r] = table[r]
  BY <1>1, <1>2 DEF Progress, ImportOK
<1>4. ASSUME NEW i \in DOMAIN f, Usable(f[i])
      PROVE  \E r \in again.touched :
                /\ again.table[r] = ImportedRecord(f[i])
                /\ \A s \in RecordIds \ {r} : ~HasClient(again.table, s, f[i].key)
  <2>1. i \in 1..Len(f) /\ f[i] \in [uid : Uids, key : Keys \cup {Nil}]
    BY ItemOfFile
  <2>2. PICK r \in again.touched : again.table[r] = ImportedRecord(f[i])
    BY <1>3, <1>4, <2>1 DEF Listed
  <2>3. again.table[r] # Nil /\ again.table[r].client = f[i].key
    BY <1>4, <2>1, <2>2, ImportedFields
  <2>4. \A s \in RecordIds \ {r} : ~HasClient(again.table, s, f[i].key)
    BY <1>3, <2>3 DEF OneEach, InUse, HasClient
  <2> QED BY <2>2, <2>4
<1> QED BY <1>3, <1>4 DEF again

(* A file that was imported can be imported again, whatever the service    *)
(* and a re-encryption have done since: every item finds the one record    *)
(* that is its token's, or makes it again (import_yxai_keys.py).  Only a   *)
(* creation that records one of its tokens after the import can prevent it *)
(* (create_from_provider).                                                 *)
THEOREM ImportsRepeat == KeysSpec => []ImportRepeats
<1>1. KeysInit => KeysIInv /\ RepeatIInv
  BY KeysStart, RepeatInit
<1>2. (KeysIInv /\ RepeatIInv) /\ [KeysNext]_keyVars => (KeysIInv /\ RepeatIInv)'
  BY KeysStep, RepeatStep
<1> QED BY <1>1, <1>2, RepeatImplied, PTL DEF KeysSpec
=============================================================================
