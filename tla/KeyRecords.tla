----------------------------- MODULE KeyRecords -----------------------------
(***************************************************************************)
(* What the table api_keys says of keys, and everything that writes it:    *)
(* the service (governance/api_keys.py), which creates records, replaces   *)
(* upstream keys one by one or from a list, and revokes and deletes; the   *)
(* import of the keys that an upstream station exports                     *)
(* (scripts/import_yxai_keys.py); and the re-encryption of old secrets     *)
(* (scripts/migrate_apikeys_to_fernet.py), beside which the service may    *)
(* run.  The tokens at the provider are in KeyGovernance.                  *)
(***************************************************************************)
EXTENDS Naturals, FiniteSets, Sequences, SequencesExt, TLC

CONSTANTS
    Keys,           \* keys that administrators and upstream stations know
    Generated,      \* client keys that the service draws
    PrefixOf,       \* the first characters of each key
    Uids,           \* token ids at the station
    ImportId,       \* ak_import_<uid>
    Tokens,         \* tokens that the station may make for the service
    Made,           \* ids of records the service makes: ak_<uuid>
    Files,          \* exports: sequences of [uid, key], which may lack the key
    Initial,        \* the tables to begin with
    MaxChanges,     \* bound: changes by the service and the scripts
    Nil

AnyKey == Keys \cup Generated

(* No file names a token or a key twice.                                   *)
ASSUME FilesAssumption == \A f \in Files :
    /\ f \in Seq([uid : Uids, key : Keys \cup {Nil}])
    /\ \A i, j \in DOMAIN f : i # j => f[i].uid # f[j].uid /\ (f[i].key # f[j].key \/ f[i].key = Nil)
ASSUME KeysAssumption == /\ Keys \cap Generated = {} /\ Nil \notin AnyKey \cup Uids
                         /\ DOMAIN PrefixOf = AnyKey /\ DOMAIN ImportId = Uids

RecordIds == Made \cup {ImportId[u] : u \in Uids}

(* Keys begin with sk- and ids with ak_, so no id is a key or the          *)
(* beginning of one; and the beginning of a beginning is the same.         *)
ASSUME IdentifiersAssumption ==
    /\ \A k \in AnyKey : k \notin RecordIds /\ PrefixOf[k] \notin RecordIds
    /\ \A k \in AnyKey : PrefixOf[k] \in AnyKey => PrefixOf[PrefixOf[k]] = PrefixOf[k]

VARIABLES
    table,       \* api_keys: each id's record, or Nil
    reading,     \* the records a re-encryption has read and not yet written, or Nil
    migrated,    \* history: one has succeeded
    imported,    \* history: the files that have been imported
    late,        \* history: tokens recorded by a creation after they were imported
    given,       \* history: the client's and the upstream key last given to each id
    overtaken,   \* history: ids to which they were given while one was reading
    changes

keyVars == <<table, reading, migrated, imported, late, given, overtaken, changes>>

(* A secret is encrypted in the old form, v1, or the new.  The service     *)
(* reads the new one only, and the re-encryption's own reader the old one. *)
Secrets == [form : {"v1", "v2"}, key : AnyKey]
Encrypt(k) == [form |-> "v2", key |-> k]
Decrypt(secret) == IF secret.form = "v2" THEN secret.key ELSE Nil
DecryptOld(secret) == IF secret.form = "v1" THEN secret.key ELSE Nil
KeyRecordsOf == [client : AnyKey, upstream : Secrets, safetyhub : Secrets, uid : Uids \cup {Nil},
                 provider : {"oneapi", "other"}, status : {"active", "revoked"},
                 decoupled : BOOLEAN]

(* What a table of the service or of an import is like: no two records     *)
(* have one client's key, and a record's own key is that.                  *)
ASSUME InitialAssumption == \A t \in Initial :
    /\ t \in [RecordIds -> KeyRecordsOf \cup {Nil}]
    /\ \A r \in RecordIds : t[r] # Nil =>
           /\ t[r].safetyhub.key = t[r].client
           /\ \A s \in RecordIds \ {r} : t[s] # Nil => t[s].client # t[r].client

(* The database is finite; and an import's ids are its own.                *)
ASSUME IdsAssumption ==
    /\ IsFiniteSet(RecordIds) /\ Nil \notin KeyRecordsOf
    /\ \A u \in Uids : ImportId[u] \notin Made /\ \A v \in Uids : ImportId[u] = ImportId[v] => u = v

(* The station gives a key to one token for good, so that what an import   *)
(* has made is still that token's.  An exported item may lack the key.     *)
Usable(item) == item.key # Nil
OfToken(t, r, u) == t[r] # Nil /\ t[r].provider = "oneapi" /\ t[r].uid = u
OwnIds(t, file) == \A u \in Uids : t[ImportId[u]] # Nil =>
    /\ OfToken(t, ImportId[u], u)
    /\ \A i \in DOMAIN file : file[i].key = t[ImportId[u]].client => file[i].uid = u
ASSUME TokensAssumption ==
    /\ \A t \in Initial, file \in Files : OwnIds(t, file)
    /\ Tokens \subseteq [uid : Uids, key : Keys]
    /\ \A new \in Tokens, file \in Files : \A i \in DOMAIN file :
          Usable(file[i]) => (file[i].key = new.key <=> file[i].uid = new.uid)

Used == {r \in RecordIds : table[r] # Nil}
HasClient(t, r, k) == t[r] # Nil /\ t[r].client = k

KeysInit == /\ table \in Initial
            /\ reading = Nil /\ migrated = FALSE /\ imported = {} /\ late = {}
            /\ overtaken = {} /\ changes = 0
            /\ given = [r \in RecordIds |-> IF table[r] = Nil THEN Nil
                           ELSE [client |-> table[r].client, upstream |-> table[r].upstream.key]]

Changed == changes < MaxChanges /\ changes' = changes + 1
Give(what) == /\ given' = [r \in RecordIds |-> IF r \in DOMAIN what THEN what[r] ELSE given[r]]
              /\ overtaken' = IF reading = Nil THEN overtaken ELSE overtaken \cup DOMAIN what
Pair(client, upstream) == [client |-> client, upstream |-> upstream]

-----------------------------------------------------------------------------
(* The service.                                                            *)

(* _build_api_key_record                                                   *)
BuildRecord(client, upstream, provider, uid) ==
    [client |-> client, upstream |-> Encrypt(upstream), safetyhub |-> Encrypt(client),
     uid |-> uid, provider |-> provider, status |-> "active", decoupled |-> client # upstream]

(* _create_record: the client's key is the upstream one or drawn, and must *)
(* be no other record's.                                                   *)
CreateRecord(r, client, upstream, provider, uid) ==
    /\ Changed
    /\ r \in Made \ Used
    /\ client \in {upstream} \cup Generated
    /\ \A s \in RecordIds : ~HasClient(table, s, client)
    /\ table' = [table EXCEPT ![r] = BuildRecord(client, upstream, provider, uid)]
    /\ Give([s \in {r} |-> Pair(client, upstream)])
    /\ UNCHANGED <<reading, migrated, imported>>

(* A key that is given.  The provider's name that may be given with it is  *)
(* only read of records that have a token's id.                            *)
CreateKey(r, client, upstream) ==
    CreateRecord(r, client, upstream, "other", Nil) /\ UNCHANGED late

(* create_from_provider has had the station make a token, or been told an  *)
(* older one of its name, and records its id.  The station may have        *)
(* exported the token before this.                                         *)
CreateFromProvider(r, client, new) ==
    /\ CreateRecord(r, client, new.key, "oneapi", new.uid)
    /\ late' = IF \E file \in imported : \E i \in DOMAIN file :
                     Usable(file[i]) /\ file[i].uid = new.uid
               THEN late \cup {new.uid} ELSE late

(* replace_upstream_key                                                    *)
Replaced(t, r, new) ==
    [t EXCEPT ![r] = [@ EXCEPT !.upstream = Encrypt(new), !.decoupled = TRUE]]

(* _find_for_bulk_replace: a row names a record by its id, by the client's *)
(* whole key, or by a prefix that only one has.                            *)
Identifiers == RecordIds \cup AnyKey \cup {PrefixOf[k] : k \in AnyKey}
NamedActive(r, identifier) ==                                      \* a mutant
    \/ r = identifier \/ table[r].client = identifier
    \/ /\ PrefixOf[table[r].client] = identifier
       /\ \A s \in Used \ {r} : table[s].status = "active" => PrefixOf[table[s].client] # identifier
Named(r, identifier) ==
    \/ r = identifier \/ table[r].client = identifier
    \/ /\ PrefixOf[table[r].client] = identifier
       /\ \A s \in Used \ {r} : PrefixOf[table[s].client] # identifier

(* One row of a list, or a single replacement.  It should mean the record  *)
(* whose id or whole key it gives, or else all that have the prefix.       *)
Meant(identifier) ==
    LET exactly == {s \in Used : identifier \in {s, table[s].client}}
    IN IF exactly # {} THEN exactly ELSE {s \in Used : PrefixOf[table[s].client] = identifier}
ReplaceKey(identifier, new) ==
    /\ Changed
    /\ \E r \in Used :
          /\ Named(r, identifier)
          /\ table' = Replaced(table, r, new)
          /\ LET meant == Meant(identifier) IN
             Give([s \in IF meant = {r} THEN meant ELSE {} |-> Pair(given[s].client, new)])
    /\ UNCHANGED <<reading, migrated, imported, late>>

RevokeKey(r) == /\ Changed
                /\ table[r] # Nil /\ table[r].status = "active"
                /\ table' = [table EXCEPT ![r].status = "revoked"]
                /\ UNCHANGED <<reading, migrated, imported, late, given, overtaken>>

DeleteKey(r) == /\ Changed
                /\ table[r] # Nil /\ table[r].status = "revoked"
                /\ table' = [table EXCEPT ![r] = Nil]
                /\ Give([s \in {r} |-> Nil])
                /\ UNCHANGED <<reading, migrated, imported, late>>

-----------------------------------------------------------------------------
(* The import, one transaction: each item's record is looked up among      *)
(* those that are there and those that the items before have made.         *)

(* find_existing: by the token's id, or else by the client's key           *)
FindByKey(t, item) == {r \in RecordIds : HasClient(t, r, item.key)}
FindByUid(t, item) == {r \in RecordIds : OfToken(t, r, item.uid)}     \* a mutant
FindExisting(t, item) ==
    LET byUid == {r \in RecordIds : OfToken(t, r, item.uid)}
    IN IF byUid # {} THEN byUid ELSE FindByKey(t, item)

(* build_record, update_record: both give all of a record, also to one     *)
(* that is revoked or decoupled.                                           *)
ImportedRecord(item) ==
    [client |-> item.key, upstream |-> Encrypt(item.key), safetyhub |-> Encrypt(item.key),
     uid |-> item.uid, provider |-> "oneapi", status |-> "active", decoupled |-> FALSE]

(* An item without a key is skipped; two records with one token's id, an   *)
(* id that is taken and a client's key that another record has are errors. *)
ImportItem(acc, item) ==
    LET found == FindExisting(acc.table, item)
        target == IF found = {} THEN ImportId[item.uid] ELSE CHOOSE r \in found : TRUE
        clash == \E r \in RecordIds \ {target} : HasClient(acc.table, r, item.key)
    IN IF ~Usable(item) \/ ~acc.ok THEN acc
       ELSE IF Cardinality(found) > 1 \/ clash \/ (found = {} /\ acc.table[target] # Nil)
       THEN [acc EXCEPT !.ok = FALSE]
       ELSE [ok |-> TRUE, table |-> [acc.table EXCEPT ![target] = ImportedRecord(item)],
             touched |-> acc.touched \cup {target}]
ImportResult(t, file) == FoldLeft(ImportItem, [ok |-> TRUE, table |-> t, touched |-> {}], file)

Import(file) ==
    LET after == ImportResult(table, file) IN
    /\ Changed /\ after.ok
    /\ table' = after.table
    /\ imported' = imported \cup {file}
    /\ Give([r \in after.touched |-> Pair(after.table[r].client, after.table[r].client)])
    /\ UNCHANGED <<reading, migrated, late>>

-----------------------------------------------------------------------------
(* The re-encryption reads every record and writes, in one transaction,    *)
(* each secret that was in the old form; a record that is gone by then is  *)
(* an error, and it can be run again.                                      *)
ReadSecrets == /\ Changed /\ reading = Nil
               /\ reading' = table
               /\ UNCHANGED <<table, migrated, imported, late, given, overtaken>>

Renew(old, now) ==
    LET Renewed(before, after) ==
            IF before.form = "v2" THEN after ELSE Encrypt(DecryptOld(before))
    IN [now EXCEPT !.upstream  = Renewed(old.upstream, @),
                   !.safetyhub = Renewed(old.safetyhub, @)]
ToRenew == {r \in RecordIds : reading[r] # Nil
              /\ "v1" \in {reading[r].upstream.form, reading[r].safetyhub.form}}

WriteSecrets ==
    /\ reading # Nil /\ ToRenew \subseteq Used
    /\ table' = [r \in RecordIds |-> IF r \in ToRenew THEN Renew(reading[r], table[r]) ELSE table[r]]
    /\ reading' = Nil /\ migrated' = TRUE
    /\ UNCHANGED <<imported, late, given, overtaken, changes>>

(* A dry run, an unreadable secret, a record that is gone.                 *)
RollBack == /\ reading # Nil /\ reading' = Nil
            /\ UNCHANGED <<table, migrated, imported, late, given, overtaken, changes>>

KeysNext ==
    \/ \E r \in RecordIds, upstream \in Keys, client \in AnyKey :
          CreateKey(r, client, upstream)
    \/ \E r \in RecordIds, client \in AnyKey, new \in Tokens : CreateFromProvider(r, client, new)
    \/ \E identifier \in Identifiers, new \in Keys : ReplaceKey(identifier, new)
    \/ \E r \in RecordIds : RevokeKey(r) \/ DeleteKey(r)
    \/ \E file \in Files : Import(file)
    \/ ReadSecrets \/ WriteSecrets \/ RollBack

-----------------------------------------------------------------------------
KeysTypeOK == /\ table \in [RecordIds -> KeyRecordsOf \cup {Nil}]
              /\ overtaken \subseteq RecordIds
              /\ reading \in [RecordIds -> KeyRecordsOf \cup {Nil}] \cup {Nil}
              /\ migrated \in BOOLEAN /\ imported \subseteq Files /\ late \subseteq Uids
              /\ changes \in 0..MaxChanges

(* Every record holds, in both its encrypted secrets and in the key it is  *)
(* looked up by, the keys that were last given to it, whoever wrote it in  *)
(* whatever order; no two records have one client key; and once a          *)
(* re-encryption has succeeded, the service can read all of them.  Only    *)
(* what is given while a re-encryption is between its reading and its      *)
(* writing may be overwritten by the key that was there before.            *)
KeysAsGiven == \A r \in Used :
    /\ table[r].client = given[r].client
    /\ r \notin overtaken => /\ table[r].safetyhub.key = given[r].client
                             /\ table[r].upstream.key = given[r].upstream
    /\ \A s \in Used \ {r} : table[s].client # table[r].client
    /\ migrated => Nil \notin {Decrypt(table[r].upstream), Decrypt(table[r].safetyhub)}

(* A file that has been imported can be imported again, whatever the       *)
(* service has done since: it makes no record beside those that were       *)
(* deleted, and leaves each of its items in one active record.  Except     *)
(* when a creation has recorded one of its tokens after the import did.    *)
OnTime(f) == \A i \in DOMAIN f : Usable(f[i]) => f[i].uid \notin late
ImportRepeats == \A f \in Files : imported = {f} /\ OnTime(f) =>
    LET again == ImportResult(table, f)
        items == {i \in DOMAIN f : Usable(f[i])}
    IN /\ again.ok
       /\ \A r \in RecordIds \ again.touched : again.table[r] = table[r]
       /\ \A i \in items : \E r \in again.touched :
             /\ again.table[r] = ImportedRecord(f[i])
             /\ \A s \in RecordIds \ {r} : ~HasClient(again.table, s, f[i].key)

(* The import is idempotent, as the plan of its stage says: a file that was *)
(* imported can always be imported again.                                  *)
ImportAlwaysRepeats == \A f \in Files : imported = {f} => ImportResult(table, f).ok
=============================================================================
