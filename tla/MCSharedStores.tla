--------------------------- MODULE MCSharedStores ---------------------------
(***************************************************************************)
(* What several writers change: the rules file and the runtime settings,   *)
(* of which every worker has a copy, the table of keys, and the database   *)
(* itself on its way to another.  They share no state and no lock, so a    *)
(* behaviour follows one of them, its subject, while the others rest.  A   *)
(* small instance: two workers, a page that refreshes beside the loop in   *)
(* one of them, and three changes of the setting, two in one worker; four  *)
(* changes of keys that share a prefix, which one of them is, from tables  *)
(* that are empty, old or of another provider; and two tables of up to     *)
(* three rows, copied two at a time.                                       *)
(***************************************************************************)
EXTENDS RuleFile, RuntimeSettings, KeyRecords, DatabaseMove

MCSiteOf == "loop1" :> "w1" @@ "page1" :> "w1" @@ "loop2" :> "w2"
              @@ "a" :> "w1" @@ "b" :> "w2" @@ "c" :> "w1"

MCPrefixOf == "sk-a" :> "sk-" @@ "sk-b" :> "sk-" @@ "sk-" :> "sk-" @@ "sk-sh" :> "sk-sh"
MCImportId == "1" :> "ak_import_1" @@ "2" :> "ak_import_2"

Item(tokenId, key) == [uid |-> tokenId, key |-> key]
MCTokens == {Item("2", "sk-b")}
MCFiles == {<<Item("1", "sk-a"), Item("2", "sk-b")>>, <<Item("1", "sk-"), Item("2", Nil)>>}

NoRecords == [r \in RecordIds |-> Nil]
OldRecord(client, upstream, tokenId, provider) ==
    [client |-> client, upstream |-> [form |-> "v1", key |-> upstream],
     safetyhub |-> [form |-> "v1", key |-> client], uid |-> tokenId, provider |-> provider,
     status |-> "active", decoupled |-> client # upstream]
MCInitial == {NoRecords,
              [NoRecords EXCEPT !["ak_1"] = OldRecord("sk-a", "sk-a", Nil, "other")],
              [NoRecords EXCEPT !["ak_1"] = OldRecord("sk-", "sk-", "1", "oneapi"),
                                !["ak_2"] = OldRecord("sk-b", "sk-a", Nil, "other")]}

MCTables == <<"audit_logs", "generated_reports">>
MCStock == {{}, {1}, {1, 2, 3}}

VARIABLE subject
all == <<subject, rulesVars, settingsVars, keyVars, moveVars>>

Rest == /\ subject # "rules" => file = Whole({})
        /\ subject # "settings" => stored = Absent /\ wanted = [s \in Setters |-> TRUE]
        /\ subject # "keys" => table = NoRecords
        /\ subject # "move" => source = [p \in Positions |-> {}]
Init == /\ subject \in {"rules", "settings", "keys", "move"}
        /\ Rest
        /\ RulesInit /\ SettingsInit /\ KeysInit /\ MoveInit

OnRules(A) == subject = "rules" /\ A /\ UNCHANGED <<subject, settingsVars, keyVars, moveVars>>
OnSettings(A) == subject = "settings" /\ A /\ UNCHANGED <<subject, rulesVars, keyVars, moveVars>>
OnKeys(A) == subject = "keys" /\ A /\ UNCHANGED <<subject, rulesVars, settingsVars, moveVars>>
OnMove(A) == subject = "move" /\ A /\ UNCHANGED <<subject, rulesVars, settingsVars, keyVars>>

Next == OnRules(RulesNext) \/ OnSettings(SettingsNext) \/ OnKeys(KeysNext) \/ OnMove(MoveNext)

(* A switch runs to its end; the periodic task reloads again and again and *)
(* does not fail every time; a killed worker is replaced.  The refresh     *)
(* loops run, and a change that has begun ends.  Of the others nothing is  *)
(* expected.                                                               *)
Fairness ==
    /\ \A w \in Workers : /\ WF_all(OnRules(OpenRules(w) \/ WriteRules(w)))
                          /\ WF_all(OnRules(BeginReload(w)))
                          /\ SF_all(OnRules(LoadKeywords(w)))
                          /\ SF_all(OnRules(LoadRegexes(w)))
                          /\ WF_all(OnRules(StartWorker(w)))
    /\ \A r \in Refreshers : WF_all(OnSettings(Fetch(r))) /\ WF_all(OnSettings(Assign(r)))
    /\ \A s \in Setters :
          WF_all(OnSettings(CommitSetting(s) \/ CommitRaises(s) \/ Remember(s)))

Spec == Init /\ [][Next]_all /\ Fairness

(* The types of all parts' variables.                                      *)
TypeOK == RulesTypeOK /\ SettingsTypeOK /\ KeysTypeOK /\ MoveTypeOK
=============================================================================
