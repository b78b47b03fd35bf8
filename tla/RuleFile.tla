------------------------------ MODULE RuleFile ------------------------------
(***************************************************************************)
(* The rules file, which every worker reads and any worker rewrites: the   *)
(* administrators' rule switches (admin/router.py), the periodic reload    *)
(* (main.py) and the scanners' loading (engine/rules_keyword.py,           *)
(* engine/rules_regex.py).                                                 *)
(*                                                                         *)
(* Inside a worker a switch and a reload never suspend, so a worker does   *)
(* one of them at a time; the workers' reads and writes of the file        *)
(* interleave.  A read takes the whole file, and a write puts it there in  *)
(* one piece: with some thirty rules it is shorter than the buffer.        *)
(* Opening the file for writing empties it.                                *)
(***************************************************************************)
EXTENDS Naturals

CONSTANTS
    Workers,
    KeywordRules, RegexRules,   \* the two sections of the file
    MaxSwitches, MaxCrashes,    \* bounds
    None

ASSUME SectionsAssumption == KeywordRules \cap RegexRules = {}
ASSUME RuleBoundsAssumption == MaxSwitches \in Nat /\ MaxCrashes \in Nat

VARIABLES
    file,        \* its state and the rules it enables: a torn one, which ends
                 \* in the tail of a longer text, is not YAML
    on,          \* the rules each worker enforces
    step,        \* what each worker is doing
    job,         \* the switch it is doing it for
    intended,    \* history: the rules on, had the switches come one by one
    alone,       \* history: they have, and no worker died
    switches, crashes

rulesVars == <<file, on, step, job, intended, alone, switches, crashes>>

Rules == KeywordRules \cup RegexRules
Contents == [state : {"whole", "empty", "torn"}, rules : SUBSET Rules]
Whole(rules) == [state |-> "whole", rules |-> rules]
Empty == [state |-> "empty", rules |-> {}]
Torn == [state |-> "torn", rules |-> {}]
Switches == [rule : Rules, enabled : BOOLEAN, data : SUBSET Rules]

RulesInit == /\ file \in {Whole(rules) : rules \in SUBSET Rules}
             /\ on = [w \in Workers |-> file.rules]
             /\ step = [w \in Workers |-> "idle"]
             /\ job = [w \in Workers |-> None]
             /\ intended = file.rules /\ alone = TRUE
             /\ switches = 0 /\ crashes = 0

(* _set_rule_enabled                                                       *)
Switched(rules, rule, enabled) == IF enabled THEN rules \cup {rule} ELSE rules \ {rule}

(* A switch reads the file.  An empty file has no such rule (404), a torn  *)
(* one raises (500): nothing happens then.                                 *)
ReadOwnRules(w, rule, enabled) ==                                  \* a mutant
    /\ step[w] = "idle" /\ switches < MaxSwitches
    /\ file.state = "whole"
    /\ job' = [job EXCEPT ![w] = [rule |-> rule, enabled |-> enabled,
                                  data |-> Switched(on[w], rule, enabled)]]
    /\ step' = [step EXCEPT ![w] = "open"]
    /\ switches' = switches + 1
    /\ alone' = (alone /\ \A v \in Workers : step[v] \notin {"open", "write"})
    /\ UNCHANGED <<file, on, intended, crashes>>
ReadRules(w, rule, enabled) ==
    /\ step[w] = "idle" /\ switches < MaxSwitches
    /\ file.state = "whole"
    /\ job' = [job EXCEPT ![w] = [rule |-> rule, enabled |-> enabled,
                                  data |-> Switched(file.rules, rule, enabled)]]
    /\ step' = [step EXCEPT ![w] = "open"]
    /\ switches' = switches + 1
    /\ alone' = (alone /\ \A v \in Workers : step[v] \notin {"open", "write"})
    /\ UNCHANGED <<file, on, intended, crashes>>

(* _write_rules_config: open(..., "w") ...                                 *)
OpenRules(w) == /\ step[w] = "open"
                /\ file' = Empty
                /\ step' = [step EXCEPT ![w] = "write"]
                /\ UNCHANGED <<on, job, intended, alone, switches, crashes>>

(* ... and what the dump left in the buffer, written when the file is      *)
(* closed.  Over another worker's longer text the end of that remains.     *)
WriteRules(w) ==
    /\ step[w] = "write"
    /\ file' \in {Whole(job[w].data)} \cup (IF file = Empty THEN {} ELSE {Torn})
    /\ intended' = Switched(intended, job[w].rule, job[w].enabled)
    /\ step' = [step EXCEPT ![w] = "keywords"]
    /\ job' = [job EXCEPT ![w] = None]
    /\ UNCHANGED <<on, alone, switches, crashes>>

-----------------------------------------------------------------------------
(* reload_all: each scanner reads the file and takes its section.          *)
Section(w, rules) ==
    on' = [on EXCEPT ![w] = (@ \ rules) \cup (file.rules \cap rules)]

BeginReload(w) == /\ step[w] = "idle"
                  /\ step' = [step EXCEPT ![w] = "keywords"]
                  /\ UNCHANGED <<file, on, job, intended, alone, switches, crashes>>

LoadKeywords(w) == /\ step[w] = "keywords" /\ file # Torn
                   /\ Section(w, KeywordRules)
                   /\ step' = [step EXCEPT ![w] = "regexes"]
                   /\ UNCHANGED <<file, job, intended, alone, switches, crashes>>

LoadKeywordsInstead(w) == /\ step[w] = "regexes" /\ file # Torn    \* a mutant
                          /\ Section(w, KeywordRules)
                          /\ step' = [step EXCEPT ![w] = "idle"]
                          /\ UNCHANGED <<file, job, intended, alone, switches, crashes>>
LoadRegexes(w) == /\ step[w] = "regexes" /\ file # Torn
                  /\ Section(w, RegexRules)
                  /\ step' = [step EXCEPT ![w] = "idle"]
                  /\ UNCHANGED <<file, job, intended, alone, switches, crashes>>

(* A torn file, or an error of the file system: the scanners after it are  *)
(* not reloaded; the periodic reload goes on (suppress), and a switch or a *)
(* manual reload is answered with an error.                                *)
LoadRaises(w) == /\ step[w] \in {"keywords", "regexes"}
                 /\ step' = [step EXCEPT ![w] = "idle"]
                 /\ UNCHANGED <<file, on, job, intended, alone, switches, crashes>>

(* A worker is killed, and another starts in its place once it can load    *)
(* the rules.                                                              *)
KillWorker(w) == /\ step[w] # "down" /\ crashes < MaxCrashes
                 /\ step' = [step EXCEPT ![w] = "down"]
                 /\ on' = [on EXCEPT ![w] = {}] /\ job' = [job EXCEPT ![w] = None]
                 /\ crashes' = crashes + 1
                 /\ alone' = (alone /\ step[w] # "write")
                 /\ UNCHANGED <<file, intended, switches>>

StartWorker(w) == /\ step[w] = "down" /\ file # Torn
                  /\ Section(w, Rules)
                  /\ step' = [step EXCEPT ![w] = "idle"]
                  /\ UNCHANGED <<file, job, intended, alone, switches, crashes>>

LoadRules(w) == BeginReload(w) \/ LoadKeywords(w) \/ LoadRegexes(w)
                  \/ (file = Torn /\ LoadRaises(w))

RulesNext == \E w \in Workers :
    \/ \E rule \in Rules, enabled \in BOOLEAN : ReadRules(w, rule, enabled)
    \/ OpenRules(w) \/ WriteRules(w)
    \/ LoadRules(w) \/ LoadRaises(w)
    \/ KillWorker(w) \/ StartWorker(w)

-----------------------------------------------------------------------------
RulesTypeOK == /\ file \in Contents
               /\ on \in [Workers -> SUBSET Rules]
               /\ step \in [Workers -> {"idle", "open", "write", "keywords", "regexes", "down"}]
               /\ job \in [Workers -> Switches \cup {None}]
               /\ intended \in SUBSET Rules /\ alone \in BOOLEAN
               /\ switches \in 0..MaxSwitches /\ crashes \in 0..MaxCrashes

(* Switches in whatever workers, as long as they do not overlap and none is *)
(* cut short by a kill, add up: between them the file holds what all of     *)
(* them asked for, also when the workers' own rules are old or empty.       *)
SwitchesKept == alone /\ (\A w \in Workers : step[w] # "write") => file = Whole(intended)

(* Once nobody switches rules any more, every worker comes to enforce the   *)
(* file, whatever reloads met an empty file or raised half-way, and however *)
(* the switches raced; unless they left a file that cannot be read.         *)
WorkersFollow ==
    <>[](file # Torn => \A w \in Workers :
            step[w] = "down" \/ on[w] = file.rules)

(* A rule that is on, and that nobody is about to switch, is dropped by no  *)
(* worker: the documents describe a switch as one of a single rule.         *)
(* Violated: a worker may load the file that another has just truncated.    *)
Asked == {job[w].rule : w \in {v \in Workers : job[v] # None}}
OthersStayArmed == [][\A w \in Workers : step'[w] # "down" =>
                        on[w] \ on'[w] \subseteq (Rules \ intended) \cup Asked]_rulesVars
=============================================================================
