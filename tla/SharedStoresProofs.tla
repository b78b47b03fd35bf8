------------------------- MODULE SharedStoresProofs -------------------------
(***************************************************************************)
(* What several writers change and others read late: the rules file, the   *)
(* database on its way to another, and what the workers keep in memory of  *)
(* it, the figures of the dashboard and the identities of callers.  None   *)
(* of them shares a variable with another; each part states the inductive  *)
(* invariant of its component, one lemma for each action, and what follows *)
(* for every number of workers, rules, tables, rows, viewers and requests. *)
(***************************************************************************)
EXTENDS RuleFile, DatabaseMove, Identity, StatsCache, FiniteSetTheorems, TLAPS

-----------------------------------------------------------------------------
(* The rules file (RuleFile).                                              *)
RulesSpec == RulesInit /\ [][RulesNext]_rulesVars

Switching(w) == step[w] \in {"open", "write"}

SwitchersHaveAJob == \A w \in Workers : Switching(w) => job[w] \in Switches

(* What holds for as long as the switches have come one by one: at most    *)
(* one is on its way, it will write what all of them asked for, and the    *)
(* file is empty from its opening to its writing.                          *)
OneByOne ==
    /\ \A v, w \in Workers : Switching(v) /\ Switching(w) => v = w
    /\ \A w \in Workers : Switching(w) =>
            job[w].data = Switched(intended, job[w].rule, job[w].enabled)
    /\ SwitchesKept
    /\ \A w \in Workers : step[w] = "write" => file = Empty

RulesIInv == RulesTypeOK /\ SwitchersHaveAJob /\ (alone => OneByOne)

-----------------------------------------------------------------------------
LEMMA WholeContents == \A rules \in SUBSET Rules : Whole(rules) \in Contents
BY DEF Whole, Contents

LEMMA SwitchedRules ==
    \A rules \in SUBSET Rules, rule \in Rules, enabled \in BOOLEAN :
        Switched(rules, rule, enabled) \in SUBSET Rules
BY DEF Switched

LEMMA EmptyTorn == Empty \in Contents /\ Torn \in Contents
BY DEF Empty, Torn, Contents

LEMMA RulesInitIInv == RulesInit => RulesIInv
<1> SUFFICES ASSUME RulesInit PROVE RulesIInv  OBVIOUS
<1>1. PICK rules \in SUBSET Rules : file = Whole(rules)  BY DEF RulesInit
<1>2. file.rules = rules  BY <1>1 DEF Whole
<1>3. RulesTypeOK
  BY <1>1, <1>2, WholeContents, RuleBoundsAssumption DEF RulesInit, RulesTypeOK
<1>4. \A w \in Workers : step[w] = "idle"  BY DEF RulesInit
<1> QED
  BY <1>1, <1>2, <1>3, <1>4
  DEF RulesInit, RulesIInv, SwitchersHaveAJob, Switching, OneByOne, SwitchesKept

-----------------------------------------------------------------------------
(* A worker that is not switching rules goes on to something else that is  *)
(* no switch either, and the file stays as it is.                          *)
LEMMA Elsewhere ==
    ASSUME RulesIInv, NEW w \in Workers, NEW s \in {"idle", "keywords", "regexes", "down"},
           step' = [step EXCEPT ![w] = s], RulesTypeOK',
           \A v \in Workers \ {w} : job'[v] = job[v],
           UNCHANGED <<file, intended>>, alone' => alone,
           alone' => step[w] # "write"
    PROVE  RulesIInv'
<1>1. \A v \in Workers : step'[v] = IF v = w THEN s ELSE step[v]
  BY DEF RulesIInv, RulesTypeOK
<1>2. \A v \in Workers : Switching(v)' => v # w /\ Switching(v) /\ job'[v] = job[v]
  BY <1>1 DEF Switching
<1>3. SwitchersHaveAJob'  BY <1>2 DEF RulesIInv, SwitchersHaveAJob
<1>4. ASSUME alone' PROVE OneByOne'
  <2>1. OneByOne /\ alone  BY <1>4 DEF RulesIInv
  <2>2. \A v \in Workers : step'[v] = "write" <=> step[v] = "write"  BY <1>1, <1>4
  <2>3. SwitchesKept'  BY <2>1, <2>2 DEF OneByOne, SwitchesKept
  <2> QED  BY <1>2, <2>1, <2>2, <2>3 DEF OneByOne
<1> QED  BY <1>3, <1>4 DEF RulesIInv

LEMMA LoadStep ==
    ASSUME RulesIInv, NEW w \in Workers,
           BeginReload(w) \/ LoadKeywords(w) \/ LoadRegexes(w) \/ LoadRaises(w) \/ StartWorker(w)
    PROVE  RulesIInv'
<1> USE DEF RulesIInv, RulesTypeOK
<1>1. file.rules \in SUBSET Rules  BY DEF Contents
<1>2. CASE BeginReload(w)
  <2>1. RulesTypeOK'  BY <1>2 DEF BeginReload
  <2> QED  BY <1>2, <2>1, Elsewhere DEF BeginReload
<1>3. CASE LoadKeywords(w)
  <2>1. RulesTypeOK'  BY <1>1, <1>3 DEF LoadKeywords, Section
  <2> QED  BY <1>3, <2>1, Elsewhere DEF LoadKeywords
<1>4. CASE LoadRegexes(w)
  <2>1. RulesTypeOK'  BY <1>1, <1>4 DEF LoadRegexes, Section
  <2> QED  BY <1>4, <2>1, Elsewhere DEF LoadRegexes
<1>5. CASE LoadRaises(w)
  <2>1. RulesTypeOK'  BY <1>5 DEF LoadRaises
  <2> QED  BY <1>5, <2>1, Elsewhere DEF LoadRaises
<1>6. CASE StartWorker(w)
  <2>1. RulesTypeOK'  BY <1>1, <1>6 DEF StartWorker, Section
  <2> QED  BY <1>6, <2>1, Elsewhere DEF StartWorker
<1> QED  BY <1>2, <1>3, <1>4, <1>5, <1>6

(* A kill in the middle of writing is what "alone" excludes; one before    *)
(* the file was opened takes back the switch.                              *)
LEMMA KillWorkerStep == ASSUME RulesIInv, NEW w \in Workers, KillWorker(w) PROVE RulesIInv'
<1>1. RulesTypeOK'  BY RuleBoundsAssumption DEF RulesIInv, RulesTypeOK, KillWorker
<1>2. \A v \in Workers \ {w} : job'[v] = job[v]  BY DEF RulesIInv, RulesTypeOK, KillWorker
<1> QED  BY <1>1, <1>2, Elsewhere DEF KillWorker

(* A switch that starts alone finds all former ones in the file.           *)
LEMMA ReadRulesStep ==
    ASSUME RulesIInv, NEW w \in Workers, NEW rule \in Rules, NEW enabled \in BOOLEAN,
           ReadRules(w, rule, enabled)
    PROVE  RulesIInv'
<1> DEFINE j == [rule |-> rule, enabled |-> enabled,
                 data |-> Switched(file.rules, rule, enabled)]
<1>1. file.rules \in SUBSET Rules  BY DEF RulesIInv, RulesTypeOK, Contents
<1>2. j \in Switches  BY <1>1, SwitchedRules DEF Switches
<1>3. /\ \A v \in Workers : step'[v] = IF v = w THEN "open" ELSE step[v]
      /\ \A v \in Workers : job'[v] = IF v = w THEN j ELSE job[v]
  BY DEF ReadRules, RulesIInv, RulesTypeOK
<1>4. RulesTypeOK'
  <2>1. job' \in [Workers -> Switches \cup {None}] /\ step' \in [Workers ->
            {"idle", "open", "write", "keywords", "regexes", "down"}]
    BY <1>2 DEF ReadRules, RulesIInv, RulesTypeOK
  <2> QED  BY <2>1, RuleBoundsAssumption DEF ReadRules, RulesIInv, RulesTypeOK
<1>5. SwitchersHaveAJob'
  BY <1>2, <1>3 DEF RulesIInv, SwitchersHaveAJob, Switching
<1>6. ASSUME alone' PROVE OneByOne'
  <2>1. alone /\ \A v \in Workers : ~Switching(v)  BY <1>6 DEF ReadRules, Switching
  <2>2. \A v \in Workers : step[v] # "write" /\ step'[v] # "write"
    BY <1>3, <2>1 DEF Switching
  <2>3. file = Whole(intended) /\ UNCHANGED <<file, intended>>
    BY <2>1, <2>2 DEF RulesIInv, OneByOne, SwitchesKept, ReadRules
  <2>4. j.data = Switched(intended, j.rule, j.enabled)  BY <2>3 DEF Whole
  <2>5. \A v \in Workers : Switching(v)' => v = w  BY <1>3, <2>1 DEF Switching
  <2>6. SwitchesKept'  BY <2>3 DEF SwitchesKept, Whole
  <2>7. job'[w] = j  BY <1>3
  <2> HIDE DEF j
  <2>8. ASSUME NEW v \in Workers, Switching(v)'
        PROVE  (job[v].data = Switched(intended, job[v].rule, job[v].enabled))'
    <3>1. v = w  BY <2>5, <2>8
    <3>2. job'[v] = j /\ intended' = intended  BY <2>3, <2>7, <3>1
    <3> QED  BY <2>4, <3>2 DEF Switched
  <2>9. \A u, v \in Workers : Switching(u)' /\ Switching(v)' => u = v  BY <2>5
  <2> QED  BY <2>2, <2>6, <2>8, <2>9 DEF OneByOne
<1> QED  BY <1>4, <1>5, <1>6 DEF RulesIInv

LEMMA OpenRulesStep == ASSUME RulesIInv, NEW w \in Workers, OpenRules(w) PROVE RulesIInv'
<1>1. \A v \in Workers : step'[v] = IF v = w THEN "write" ELSE step[v]
  BY DEF OpenRules, RulesIInv, RulesTypeOK
<1>2. \A v \in Workers : Switching(v)' <=> Switching(v)
  BY <1>1 DEF OpenRules, Switching
<1>3. RulesTypeOK'  BY EmptyTorn DEF OpenRules, RulesIInv, RulesTypeOK
<1>4. SwitchersHaveAJob'  BY <1>2 DEF OpenRules, RulesIInv, SwitchersHaveAJob
<1>5. ASSUME alone' PROVE OneByOne'
  <2>1. OneByOne  BY <1>5 DEF OpenRules, RulesIInv
  <2>2. SwitchesKept'  BY <1>1 DEF SwitchesKept
  <2>3. file' = Empty /\ UNCHANGED <<job, intended>>  BY DEF OpenRules
  <2> QED  BY <1>2, <2>1, <2>2, <2>3 DEF OneByOne, Switched, Empty
<1> QED  BY <1>3, <1>4, <1>5 DEF RulesIInv

LEMMA WriteRulesStep == ASSUME RulesIInv, NEW w \in Workers, WriteRules(w) PROVE RulesIInv'
<1>1. \A v \in Workers : step'[v] = IF v = w THEN "keywords" ELSE step[v]
  BY DEF WriteRules, RulesIInv, RulesTypeOK
<1>2. \A v \in Workers \ {w} : job'[v] = job[v]  BY DEF WriteRules, RulesIInv, RulesTypeOK
<1>3. \A v \in Workers : Switching(v)' => Switching(v) /\ v # w  BY <1>1 DEF Switching
<1>4. job[w] \in Switches /\ Switching(w)
  BY DEF WriteRules, RulesIInv, SwitchersHaveAJob, Switching
<1>5. RulesTypeOK'
  <2>1. file' \in Contents
    BY <1>4, WholeContents, EmptyTorn DEF WriteRules, Switches
  <2>2. intended' \in SUBSET Rules
    BY <1>4, SwitchedRules DEF WriteRules, Switches, RulesIInv, RulesTypeOK
  <2>3. job' \in [Workers -> Switches \cup {None}] /\ step' \in [Workers ->
            {"idle", "open", "write", "keywords", "regexes", "down"}]
    BY DEF WriteRules, RulesIInv, RulesTypeOK
  <2> QED  BY <2>1, <2>2, <2>3 DEF WriteRules, RulesIInv, RulesTypeOK
<1>6. SwitchersHaveAJob'  BY <1>2, <1>3 DEF RulesIInv, SwitchersHaveAJob
<1>7. ASSUME alone' PROVE OneByOne'
  <2>1. OneByOne  BY <1>7 DEF WriteRules, RulesIInv
  <2>2. \A v \in Workers : ~Switching(v)'  BY <1>3, <1>4, <2>1 DEF OneByOne
  <2>3. file' = Whole(job[w].data)  BY <2>1 DEF OneByOne, WriteRules
  <2>4. job[w].data = intended'  BY <1>4, <2>1 DEF OneByOne, WriteRules
  <2>5. SwitchesKept'  BY <2>3, <2>4 DEF SwitchesKept, Whole
  <2> QED  BY <2>2, <2>5 DEF OneByOne, Switching
<1> QED  BY <1>5, <1>6, <1>7 DEF RulesIInv

LEMMA RulesNextIInv == RulesIInv /\ [RulesNext]_rulesVars => RulesIInv'
<1> SUFFICES ASSUME RulesIInv, [RulesNext]_rulesVars PROVE RulesIInv'  OBVIOUS
<1>1. CASE UNCHANGED rulesVars
  BY <1>1 DEF rulesVars, RulesIInv, RulesTypeOK, SwitchersHaveAJob, Switching, OneByOne, SwitchesKept
<1>2. CASE RulesNext
  <2>1. PICK w \in Workers :
          \/ \E rule \in Rules, enabled \in BOOLEAN : ReadRules(w, rule, enabled)
          \/ OpenRules(w) \/ WriteRules(w)
          \/ LoadRules(w) \/ LoadRaises(w)
          \/ KillWorker(w) \/ StartWorker(w)
    BY <1>2 DEF RulesNext
  <2> QED
    BY <2>1, ReadRulesStep, OpenRulesStep, WriteRulesStep, LoadStep, KillWorkerStep DEF LoadRules
<1> QED  BY <1>1, <1>2

-----------------------------------------------------------------------------
(* The file, the workers' rules and their steps stay in their ranges.      *)
THEOREM RulesTypeCorrect == RulesSpec => []RulesTypeOK
<1>1. RulesIInv => RulesTypeOK  BY DEF RulesIInv
<1> QED  BY RulesInitIInv, RulesNextIInv, <1>1, PTL DEF RulesSpec

(* Switches that do not overlap and are not cut short by a kill add up:    *)
(* between them the rules file holds what all of them asked for.           *)
THEOREM SwitchesAddUp == RulesSpec => []SwitchesKept
<1>1. RulesIInv => SwitchesKept  BY DEF RulesIInv, OneByOne, SwitchesKept
<1> QED  BY RulesInitIInv, RulesNextIInv, <1>1, PTL DEF RulesSpec

-----------------------------------------------------------------------------
(* The move to PostgreSQL (DatabaseMove).                                  *)
MoveSpec == MoveInit /\ [][MoveNext]_moveVars

Ids == 1..MaxRow
Bounded(S) == S \in SUBSET Ids

(* What a copy has of a table is the beginning of what the table has.      *)
Beginning(T, S) == T \subseteq S /\ \A i \in S, t \in T : i <= t => i \in T

(* How far a copy of what nobody else writes to has come.                  *)
Progress ==
    /\ \A p \in Positions : Beginning(target[p], source[p])
    /\ stage \in {"fetch", "insert"} =>
           /\ \A p \in Positions : p < place => target[p] = source[p]
           /\ offset = 0 \/ offset = Cardinality(target[place])
    /\ stage = "insert" => batch = RowsFrom(source[place], offset)
    /\ stage \in {"max", "set"} => target = source

(* The tables whose sequence is set, or need not be, give a free id; and   *)
(* the one that is about to be set will.                                   *)
Numbered(p) == p \notin behind => \A i \in target[p] : i < sequence[p]
Sequences ==
    /\ stage \in {"max", "set"} => \A p \in Positions : p < place => Numbered(p)
    /\ stage = "set" =>
          /\ highest # 0
          /\ place \notin behind => \A i \in target[place] : i <= highest

MoveTypes == /\ source \in [Positions -> SUBSET Ids] /\ target \in [Positions -> SUBSET Ids]
             /\ sequence \in [Positions -> Nat \ {0}]
             /\ stage \in {"idle", "clear", "fetch", "insert", "max", "set"}
             /\ place \in Positions /\ offset \in Nat /\ batch \in SUBSET Ids
             /\ highest \in Nat /\ behind \in SUBSET Positions
             /\ ended \in BOOLEAN /\ quiet \in BOOLEAN
             /\ checked \in {"no", "ok", "mismatch"}

(* What has ended stays whole until something else is written; until then  *)
(* what is known is that the target is the beginning of the source, and    *)
(* that the offset counts it.                                              *)
MoveIInv == /\ MoveTypes
            /\ stage # "idle" => ~ended /\ checked = "no"
            /\ stage = "clear" => place = 1 /\ offset = 0
            /\ quiet => Progress
            /\ Sequences
            /\ EndedMoveIsWhole

-----------------------------------------------------------------------------
LEMMA MoveConstants ==
    /\ Len(Tables) \in Nat /\ Len(Tables) >= 1 /\ Positions = 1..Len(Tables)
    /\ BatchSize \in Nat /\ BatchSize >= 1 /\ MaxRow \in Nat
    /\ 1 \in Positions /\ Positions \subseteq Nat
<1>1. Len(Tables) \in Nat /\ Positions = 1..Len(Tables)
  BY TablesAssumption DEF Positions
<1>2. Len(Tables) >= 1
  BY TablesAssumption
<1>3. BatchSize \in Nat /\ BatchSize >= 1 /\ MaxRow \in Nat
  BY MoveAssumption
<1> QED BY <1>1, <1>2, <1>3

(* A set of naturals has a least element, and a bounded one a greatest.    *)
LEMMA LeastNatural ==
    ASSUME NEW S \in SUBSET Nat, S # {}
    PROVE  \E m \in S : \A n \in S : m <= n
<1> DEFINE R == {p \in Nat \X Nat : p[1] < p[2]}
<1>1. IsWellFoundedOn(R, Nat)
  BY NatLessThanWellFounded DEF OpToRel
<1>2. \A m, n \in Nat : n < m => <<n, m>> \in R
  OBVIOUS
<1> HIDE DEF R
<1>3. PICK m \in S : \A n \in S : <<n, m>> \notin R
  BY <1>1, WFMin
<1>4. \A n \in S : ~(n < m)
  BY <1>2, <1>3
<1> QED BY <1>4

LEMMA GreatestOf ==
    ASSUME NEW S, Bounded(S), S # {}
    PROVE  Max(S) \in S /\ \A n \in S : n <= Max(S)
<1> DEFINE T == {MaxRow - n : n \in S}
<1>1. T \in SUBSET Nat /\ T # {}
  <2>1. \A n \in S : n \in 1..MaxRow
    BY DEF Bounded, Ids
  <2>2. \A n \in 1..MaxRow : MaxRow - n \in Nat
    BY MoveConstants
  <2> QED BY <2>1, <2>2
<1>2. PICK t \in T : \A u \in T : t <= u
  BY <1>1, LeastNatural
<1>3. PICK m \in S : t = MaxRow - m
  BY <1>2
<1>4. ASSUME NEW n \in S PROVE m >= n
  <2>1. MaxRow - m <= MaxRow - n
    BY <1>2, <1>3
  <2>2. m \in Nat /\ n \in Nat
    BY DEF Bounded, Ids
  <2> QED BY <2>1, <2>2, MoveConstants
<1>5. Max(S) \in S /\ \A n \in S : Max(S) >= n
  BY <1>4 DEF Max
<1>6. S \subseteq Nat
  BY DEF Bounded, Ids
<1> QED BY <1>5, <1>6

LEMMA FiniteIds ==
    ASSUME NEW S, Bounded(S)
    PROVE  IsFiniteSet(S) /\ Cardinality(S) \in Nat /\ S \subseteq Nat
<1>1. IsFiniteSet(Ids)
  BY FS_Interval, MoveConstants DEF Ids
<1>2. S \in SUBSET Ids
  BY DEF Bounded
<1>3. IsFiniteSet(S)
  BY <1>1, <1>2, FS_Subset
<1> QED BY <1>2, <1>3, FS_CardinalityType DEF Ids

LEMMA RankType ==
    ASSUME NEW S, Bounded(S), NEW i
    PROVE  Rank(S, i) \in Nat
<1>1. Bounded({j \in S : j <= i})
  BY DEF Bounded
<1> QED BY <1>1, FiniteIds DEF Rank

(* The rank of a row tells whether a beginning has it.                     *)
LEMMA RankOfBeginning ==
    ASSUME NEW S, Bounded(S), NEW T, Beginning(T, S), NEW i \in S
    PROVE  i \in T <=> Rank(S, i) <= Cardinality(T)
<1> DEFINE A == {j \in S : j <= i}
<1>1. Bounded(T) /\ Bounded(A) /\ S \subseteq Nat
  BY FiniteIds DEF Beginning, Bounded
<1>2. IsFiniteSet(T) /\ IsFiniteSet(A) /\ Cardinality(T) \in Nat /\ Cardinality(A) \in Nat
  BY <1>1, FiniteIds
<1>3. ASSUME i \in T PROVE Cardinality(A) <= Cardinality(T)
  <2>1. A \in SUBSET T
    BY <1>3 DEF Beginning
  <2> HIDE DEF A
  <2> QED BY <1>2, <2>1, FS_Subset
<1>4. ASSUME i \notin T PROVE Cardinality(A) >= Cardinality(T) + 1
  <2>1. \A t \in T : t \in S /\ ~(i <= t) /\ t \in Nat /\ i \in Nat
    BY <1>1, <1>4 DEF Beginning
  <2>2. T \cup {i} \in SUBSET A
    BY <1>1, <2>1
  <2> HIDE DEF A
  <2>3. Cardinality(T \cup {i}) = Cardinality(T) + 1
    BY <1>2, <1>4, FS_AddElement
  <2>4. Cardinality(T \cup {i}) <= Cardinality(A)
    BY <1>2, <2>2, FS_Subset
  <2> QED BY <1>2, <2>3, <2>4
<1>5. Rank(S, i) = Cardinality(A)
  BY DEF Rank
<1> HIDE DEF A
<1> QED BY <1>2, <1>3, <1>4, <1>5

(* The first row that a beginning lacks comes next.                        *)
LEMMA NextRank ==
    ASSUME NEW S, Bounded(S), NEW T, Beginning(T, S), T # S
    PROVE  RowsFrom(S, Cardinality(T)) # {}
<1>1. Bounded(T) /\ S \subseteq Nat /\ IsFiniteSet(T) /\ Cardinality(T) \in Nat
  BY FiniteIds DEF Beginning, Bounded
<1>2. S \ T \in SUBSET Nat /\ S \ T # {}
  BY <1>1 DEF Beginning
<1>3. PICK m \in S \ T : \A n \in S \ T : m <= n
  BY <1>2, LeastNatural
<1>4. {j \in S : j <= m} \subseteq T \cup {m}
  <2>1. ASSUME NEW j \in S, j <= m, j \notin T PROVE j = m
    <3>1. m <= j /\ m \in Nat /\ j \in Nat
      BY <1>1, <1>3, <2>1
    <3> QED BY <2>1, <3>1
  <2> QED BY <2>1
<1>5. IsFiniteSet(T \cup {m}) /\ Cardinality(T \cup {m}) = Cardinality(T) + 1
  BY <1>1, <1>3, FS_AddElement
<1>6. Rank(S, m) <= Cardinality(T) + 1
  <2> DEFINE A == {j \in S : j <= m}
  <2>1. A \in SUBSET (T \cup {m})
    BY <1>4
  <2>2. Rank(S, m) = Cardinality(A)
    BY DEF Rank
  <2> HIDE DEF A
  <2> QED BY <1>5, <2>1, <2>2, FS_Subset
<1>7. Cardinality(T) < Rank(S, m)
  <2>1. ~(Rank(S, m) <= Cardinality(T))
    BY <1>3, RankOfBeginning
  <2> QED BY <1>1, <2>1, RankType
<1>8. m \in RowsFrom(S, Cardinality(T))
  <2>1. Rank(S, m) <= Cardinality(T) + BatchSize
    BY <1>1, <1>6, RankType, MoveConstants
  <2> QED BY <1>3, <1>7, <2>1 DEF RowsFrom
<1> QED BY <1>8

(* What a batch adds to a beginning makes a longer one.                    *)
LEMMA BatchContinues ==
    ASSUME NEW S, Bounded(S), NEW T, Beginning(T, S)
    PROVE  LET R == RowsFrom(S, Cardinality(T)) IN
           /\ R \cap T = {} /\ Beginning(T \cup R, S)
           /\ Cardinality(T \cup R) = Cardinality(T) + Cardinality(R)
<1> DEFINE n == Cardinality(T)
           R == RowsFrom(S, n)
<1>1. Bounded(T) /\ Bounded(R) /\ R \subseteq S /\ T \subseteq S /\ S \subseteq Nat
  BY FiniteIds DEF Beginning, Bounded, RowsFrom
<1>2. n \in Nat /\ Cardinality(R) \in Nat /\ IsFiniteSet(T) /\ IsFiniteSet(R)
  BY <1>1, FiniteIds
<1>3. \A i \in S : Rank(S, i) \in Nat /\ (i \in T <=> Rank(S, i) <= n)
  BY RankOfBeginning, RankType
<1>4. \A i \in S : i \in R <=> n < Rank(S, i) /\ Rank(S, i) <= n + BatchSize
  BY DEF RowsFrom
<1> HIDE DEF n, R
<1>5. R \cap T = {}
  BY <1>1, <1>2, <1>3, <1>4
<1>6. ASSUME NEW i \in S, NEW j \in S, i <= j PROVE Rank(S, i) <= Rank(S, j)
  <2> DEFINE A == {k \in S : k <= i}
             B == {k \in S : k <= j}
  <2>1. A \in SUBSET B
    <3>1. \A k \in S : k <= i => k <= j
      <4>1. i \in Nat /\ j \in Nat /\ \A k \in S : k \in Nat
        BY <1>1
      <4> QED BY <1>6, <4>1
    <3> QED BY <3>1
  <2>2. Bounded(B) /\ Rank(S, i) = Cardinality(A) /\ Rank(S, j) = Cardinality(B)
    BY DEF Bounded, Rank
  <2> HIDE DEF A, B
  <2> QED BY <2>1, <2>2, FS_Subset, FiniteIds
<1>7. Beginning(T \cup R, S)
  <2> SUFFICES ASSUME NEW i \in S, NEW t \in T \cup R, i <= t PROVE i \in T \cup R
    BY <1>1 DEF Beginning
  <2>1. Rank(S, i) <= Rank(S, t) /\ Rank(S, t) <= n + BatchSize
    BY <1>1, <1>2, <1>3, <1>4, <1>6, MoveConstants
  <2> QED BY <1>1, <1>2, <1>3, <1>4, <2>1, MoveConstants
<1>8. Cardinality(T \cup R) = Cardinality(T) + Cardinality(R)
  <2>1. Cardinality(T \cup R) = Cardinality(T) + Cardinality(R) - Cardinality(T \cap R)
    BY <1>2, FS_Union
  <2>2. T \cap R = {}
    BY <1>5
  <2>3. Cardinality(T \cap R) = 0
    BY <2>2, FS_EmptySet
  <2> QED BY <1>2, <2>1, <2>3 DEF n
<1> QED BY <1>5, <1>7, <1>8 DEF n, R

(* A copy that starts over finds the first rows there.                     *)
LEMMA StartsOver ==
    ASSUME NEW S, Bounded(S), NEW T, Beginning(T, S), T # {}
    PROVE  RowsFrom(S, 0) \cap T # {}
<1>1. S \subseteq Nat /\ S # {} /\ S \in SUBSET Nat
  BY FiniteIds DEF Beginning
<1>2. PICK m \in S : \A n \in S : m <= n
  BY <1>1, LeastNatural
<1>3. m \in T
  BY <1>2 DEF Beginning
<1>4. {j \in S : j <= m} = {m}
  <2>1. ASSUME NEW j \in S PROVE j <= m <=> j = m
    <3>1. m <= j /\ m \in Nat /\ j \in Nat
      BY <1>1, <1>2
    <3> QED BY <3>1
  <2> QED BY <1>2, <2>1
<1>5. Rank(S, m) = 1
  BY <1>4, FS_Singleton DEF Rank
<1>6. m \in RowsFrom(S, 0)
  BY <1>2, <1>5, MoveConstants DEF RowsFrom
<1> QED BY <1>3, <1>6

(* A table is whole when no rows are left to read.                         *)
LEMMA NoRows ==
    ASSUME NEW S, Bounded(S), NEW T, Beginning(T, S), NEW n, n = 0 \/ n = Cardinality(T),
           RowsFrom(S, n) = {}
    PROVE  T = S
<1>1. CASE n = Cardinality(T)
  BY <1>1, NextRank
<1>2. CASE n = 0
  <2>1. Beginning({}, S) /\ Cardinality({}) = 0
    BY FS_EmptySet DEF Beginning
  <2>2. S = {}
    BY <1>2, <2>1, NextRank
  <2> QED BY <2>2 DEF Beginning
<1> QED BY <1>1, <1>2

(* A beginning with as many rows is all of it: what the comparison finds.  *)
LEMMA SameCount ==
    ASSUME NEW S, Bounded(S), NEW T, Beginning(T, S), Cardinality(S) = Cardinality(T)
    PROVE  T = S
BY FiniteIds, FS_Subset DEF Beginning

-----------------------------------------------------------------------------
LEMMA MoveInitIInv == MoveInit => MoveIInv
<1> SUFFICES ASSUME MoveInit PROVE MoveIInv
  OBVIOUS
<1>1. MoveTypes
  <2>1. source \in [Positions -> SUBSET Ids] /\ target \in [Positions -> SUBSET Ids]
    BY StockAssumption DEF MoveInit, Ids
  <2>2. sequence \in [Positions -> Nat \ {0}] /\ place \in Positions /\ offset \in Nat
        /\ batch \in SUBSET Ids
    BY MoveConstants DEF MoveInit
  <2>3. stage = "idle" /\ ended \in BOOLEAN /\ quiet \in BOOLEAN /\ checked = "no"
    BY DEF MoveInit
  <2>4. highest \in Nat /\ behind \in SUBSET Positions
    BY DEF MoveInit
  <2> QED BY <2>1, <2>2, <2>3, <2>4 DEF MoveTypes
<1>2. Progress /\ Sequences
  BY DEF MoveInit, Progress, Beginning, Sequences
<1>3. EndedMoveIsWhole
  BY DEF MoveInit, EndedMoveIsWhole
<1> QED BY <1>1, <1>2, <1>3 DEF MoveInit, MoveIInv

LEMMA TableTypes ==
    ASSUME MoveTypes, NEW p \in Positions
    PROVE  Bounded(source[p]) /\ Bounded(target[p])
BY DEF MoveTypes, Bounded

LEMMA BeginStep ==
    ASSUME MoveIInv, NEW replace \in BOOLEAN, BeginMove(replace)
    PROVE  MoveIInv'
<1>1. /\ stage' = IF replace THEN "clear" ELSE "fetch"
      /\ place' = 1 /\ offset' = 0 /\ ~ended' /\ checked' = "no"
      /\ UNCHANGED <<source, target, sequence, batch, highest, behind, quiet>>
  BY DEF BeginMove
<1>2. MoveTypes'
  <2>1. MoveTypes
    BY DEF MoveIInv
  <2>2. stage' \in {"clear", "fetch"} /\ checked' = "no"
    BY <1>1
  <2>3. ended' = FALSE
    BY DEF BeginMove
  <2>4. place' \in Positions /\ offset' \in Nat
    BY <1>1, MoveConstants
  <2>5. UNCHANGED <<source, target, sequence, batch, highest, behind, quiet>>
    BY <1>1
  <2>6. /\ source' \in [Positions -> SUBSET Ids] /\ target' \in [Positions -> SUBSET Ids]
        /\ sequence' \in [Positions -> Nat \ {0}] /\ batch' \in SUBSET Ids
        /\ highest' \in Nat /\ behind' \in SUBSET Positions
    BY <2>1, <2>5 DEF MoveTypes
  <2>7. ended' \in BOOLEAN /\ quiet' \in BOOLEAN
    BY <2>1, <2>3, <2>5 DEF MoveTypes
  <2> QED BY <2>2, <2>4, <2>6, <2>7 DEF MoveTypes
<1>3. quiet' => Progress'
  <2> SUFFICES ASSUME quiet PROVE Progress'
    BY <1>1
  <2>1. Progress
    BY DEF MoveIInv
  <2>2. \A p \in Positions : ~(p < 1)
    BY MoveConstants
  <2> QED BY <1>1, <2>1, <2>2 DEF Progress
<1>4. EndedMoveIsWhole' /\ Sequences'
  BY <1>1 DEF EndedMoveIsWhole, Sequences
<1> QED BY <1>1, <1>2, <1>3, <1>4 DEF MoveIInv

LEMMA ClearStep == ASSUME MoveIInv, ClearTarget PROVE MoveIInv'
<1>1. /\ stage = "clear" /\ stage' = "fetch" /\ place' = 1 /\ offset' = 0
      /\ \A p \in Positions : target'[p] = {}
      /\ target' = [p \in Positions |-> {}]
      /\ UNCHANGED <<source, sequence, place, offset, batch, highest, behind, ended, checked>>
  BY DEF ClearTarget, MoveIInv
<1>2. ~ended' /\ checked' = "no"
  BY <1>1 DEF MoveIInv
<1>3. MoveTypes'
  BY <1>1 DEF MoveIInv, MoveTypes, ClearTarget
<1>4. Progress'
  <2>1. \A p \in Positions : ~(p < 1)
    BY MoveConstants
  <2> QED BY <1>1, <2>1 DEF Progress, Beginning
<1>5. EndedMoveIsWhole' /\ Sequences'
  BY <1>1, <1>2 DEF EndedMoveIsWhole, Sequences
<1> QED BY <1>1, <1>2, <1>3, <1>4, <1>5 DEF MoveIInv

LEMMA FetchStep == ASSUME MoveIInv, FetchRows PROVE MoveIInv'
<1> DEFINE rows == RowsFrom(source[place], offset)
<1>1. /\ stage = "fetch" /\ MoveTypes /\ ~ended /\ checked = "no" /\ (quiet => Progress)
      /\ UNCHANGED <<source, target, sequence, highest, behind, ended, quiet, checked>>
  BY DEF MoveIInv, FetchRows
<1>2. /\ place \in Positions /\ Bounded(source[place]) /\ rows \in SUBSET Ids
  BY <1>1, TableTypes DEF MoveTypes, Bounded, RowsFrom
<1>3. EndedMoveIsWhole'
  BY <1>1 DEF EndedMoveIsWhole
<1>4. CASE rows # {}
  <2>1. batch' = rows /\ stage' = "insert" /\ UNCHANGED <<place, offset>>
    BY <1>4 DEF FetchRows
  <2>2. MoveTypes'
    BY <1>1, <1>2, <2>1 DEF MoveTypes
  <2>3. quiet' => Progress'
    BY <1>1, <2>1 DEF Progress
  <2>4. Sequences'
    BY <2>1 DEF Sequences
  <2> QED BY <1>1, <1>3, <2>1, <2>2, <2>3, <2>4 DEF MoveIInv
<1>5. CASE rows = {}
  <2>1. ASSUME quiet PROVE \A p \in Positions : p <= place => target[p] = source[p]
    <3>1. Progress
      BY <1>1, <2>1
    <3>2. target[place] = source[place]
      BY <1>1, <1>2, <1>5, <3>1, NoRows DEF Progress
    <3>3. \A p \in Positions : p <= place => p < place \/ p = place
      BY <1>2, MoveConstants
    <3> QED BY <1>1, <3>1, <3>2, <3>3 DEF Progress
  <2>2. CASE place = Len(Tables)
    <3>1. stage' = "max" /\ place' = 1 /\ UNCHANGED <<batch, offset>>
      BY <1>5, <2>2 DEF FetchRows
    <3>2. MoveTypes'
      BY <1>1, <3>1, MoveConstants DEF MoveTypes
    <3>3. ASSUME quiet PROVE target = source
      <4>1. \A p \in Positions : target[p] = source[p]
        BY <2>1, <2>2, <3>3, MoveConstants
      <4> QED BY <1>1, <4>1 DEF MoveTypes
    <3>4. quiet' => Progress'
      BY <1>1, <3>1, <3>3 DEF Progress
    <3>5. Sequences'
      <4>1. \A p \in Positions : ~(p < 1)
        BY MoveConstants
      <4> QED BY <3>1, <4>1 DEF Sequences
    <3> QED BY <1>1, <1>3, <3>1, <3>2, <3>4, <3>5 DEF MoveIInv
  <2>3. CASE place # Len(Tables)
    <3>1. /\ stage' = "fetch" /\ place' = place + 1 /\ offset' = 0 /\ UNCHANGED batch
      BY <1>1, <1>5, <2>3 DEF FetchRows
    <3>2. place + 1 \in Positions /\ \A p \in Positions : p < place + 1 => p <= place
      BY <1>2, <2>3, MoveConstants
    <3>3. MoveTypes'
      BY <1>1, <3>1, <3>2 DEF MoveTypes
    <3>4. quiet' => Progress'
      BY <1>1, <2>1, <3>1, <3>2 DEF Progress
    <3>5. Sequences'
      BY <3>1 DEF Sequences
    <3> QED BY <1>1, <1>3, <3>1, <3>3, <3>4, <3>5 DEF MoveIInv
  <2> QED BY <2>2, <2>3
<1> QED BY <1>4, <1>5

(* Only a copy that has come that far inserts.                             *)
LEMMA InsertStep == ASSUME MoveIInv, InsertRows PROVE MoveIInv'
<1>1. /\ stage = "insert" /\ MoveTypes /\ ~ended /\ checked = "no" /\ (quiet => Progress)
      /\ UNCHANGED <<source, sequence, place, highest, behind, ended, quiet, checked>>
      /\ stage' = "fetch" /\ batch' = {} /\ batch \cap target[place] = {}
      /\ offset' = offset + Cardinality(batch)
  BY DEF MoveIInv, InsertRows
<1>2. target' = [target EXCEPT ![place] = target[place] \cup batch]
  BY DEF InsertRows
<1>3. /\ place \in Positions /\ Bounded(source[place]) /\ Bounded(target[place])
      /\ Bounded(batch)
  BY <1>1, TableTypes DEF MoveTypes, Bounded
<1>4. MoveTypes'
  <2>1. Cardinality(batch) \in Nat
    BY <1>3, FiniteIds
  <2>2. target' \in [Positions -> SUBSET Ids]
    BY <1>1, <1>2 DEF MoveTypes
  <2> QED BY <1>1, <2>1, <2>2 DEF MoveTypes
<1>5. EndedMoveIsWhole' /\ Sequences'
  BY <1>1 DEF EndedMoveIsWhole, Sequences
<1>6. ASSUME quiet PROVE Progress'
  <2>1. /\ Progress /\ batch = RowsFrom(source[place], offset)
        /\ Beginning(target[place], source[place])
        /\ offset = 0 \/ offset = Cardinality(target[place])
    BY <1>1, <1>3, <1>6 DEF Progress
  <2>2. offset = Cardinality(target[place])
    <3>1. CASE target[place] = {}
      BY <2>1, <3>1, FS_EmptySet
    <3>2. CASE target[place] # {}
      BY <1>1, <1>3, <2>1, <3>2, StartsOver
    <3> QED BY <3>1, <3>2
  <2>3. /\ Beginning(target[place] \cup batch, source[place])
        /\ Cardinality(target[place] \cup batch) = offset + Cardinality(batch)
    BY <1>3, <2>1, <2>2, BatchContinues
  <2>4. /\ target'[place] = target[place] \cup batch
        /\ \A p \in Positions : p # place => target'[p] = target[p]
    BY <1>1, <1>2, <1>3 DEF MoveTypes
  <2>5. \A p \in Positions : Beginning(target'[p], source[p])
    BY <2>1, <2>3, <2>4 DEF Progress
  <2>6. \A p \in Positions : p < place => p # place
    BY <1>3, MoveConstants
  <2>7. \A p \in Positions : p < place => target'[p] = source[p]
    BY <1>1, <2>1, <2>4, <2>6 DEF Progress
  <2>8. offset' = Cardinality(target'[place])
    BY <1>1, <2>3, <2>4
  <2> QED BY <1>1, <2>5, <2>7, <2>8 DEF Progress
<1> QED BY <1>1, <1>4, <1>5, <1>6 DEF MoveIInv

LEMMA StopStep == ASSUME MoveIInv, MoveStops PROVE MoveIInv'
<1>1. /\ stage' = "idle" /\ batch' = {} /\ ~ended' /\ checked' = "no"
      /\ UNCHANGED <<source, target, sequence, place, offset, highest, behind, ended, quiet, checked>>
  BY DEF MoveStops, MoveIInv
<1>2. MoveTypes'
  BY <1>1 DEF MoveIInv, MoveTypes
<1>3. quiet' => Progress'
  BY <1>1 DEF MoveIInv, Progress
<1> QED BY <1>1, <1>2, <1>3 DEF MoveIInv, EndedMoveIsWhole, Sequences

(* A table is through: its sequence is set, or it is empty.                *)
LEMMA NextTableStep ==
    ASSUME MoveIInv, stage \in {"max", "set"}, NextTable, MoveTypes',
           NEW q \in Positions, q = place, Numbered(q)',
           \A p \in Positions : p # place => sequence'[p] = sequence[p],
           behind' \in SUBSET behind, behind \subseteq behind' \cup {place},
           UNCHANGED <<source, target, quiet, checked>>
    PROVE  MoveIInv'
<1>1. \A p \in Positions : p <= place => Numbered(p)'
  <2>1. \A p \in Positions : p <= place => p < place \/ p = place
    BY MoveConstants DEF MoveIInv, MoveTypes
  <2>2. \A p \in Positions : p < place => Numbered(p) /\ p # place
    BY MoveConstants DEF MoveIInv, MoveTypes, Sequences
  <2>3. ASSUME NEW p \in Positions, p < place PROVE Numbered(p)'
    <3>1. Numbered(p) /\ p # place
      BY <2>2, <2>3
    <3>2. sequence'[p] = sequence[p] /\ (p \notin behind' => p \notin behind)
      BY <3>1
    <3> QED BY <3>1, <3>2 DEF Numbered
  <2> QED BY <2>1, <2>3
<1>2. /\ ~ended /\ checked = "no" /\ MoveTypes
      /\ quiet' => target' = source' /\ \A p \in Positions : Beginning(target'[p], source'[p])
  BY DEF MoveIInv, Progress
<1>3. CASE place = Len(Tables)
  <2>1. stage' = "idle" /\ ended' = TRUE
    BY <1>3 DEF NextTable
  <2>2. \A p \in Positions : Numbered(p)'
    BY <1>1, <1>3, MoveConstants
  <2>3. EndedMoveIsWhole'
    BY <1>2, <2>2 DEF EndedMoveIsWhole, Numbered
  <2>4. quiet' => Progress'
    BY <1>2, <2>1 DEF Progress
  <2> QED BY <2>1, <2>3, <2>4 DEF MoveIInv, Sequences
<1>4. CASE place # Len(Tables)
  <2>1. stage' = "max" /\ ended' = ended /\ place' = place + 1
    BY <1>4 DEF NextTable
  <2>2. \A p \in Positions : p < place + 1 => p <= place
    BY <1>2, MoveConstants DEF MoveTypes
  <2>3. Sequences'
    BY <1>1, <2>1, <2>2 DEF Sequences
  <2>4. EndedMoveIsWhole'
    BY <1>2, <2>1 DEF EndedMoveIsWhole
  <2>5. quiet' => Progress'
    BY <1>2, <2>1 DEF Progress
  <2> QED BY <1>2, <2>1, <2>3, <2>4, <2>5 DEF MoveIInv
<1> QED BY <1>3, <1>4

(* The next place, if there is one, is a place.                            *)
LEMMA NextPlace ==
    ASSUME MoveTypes, NextTable
    PROVE  place' \in Positions /\ stage' \in {"idle", "max"} /\ (ended' = TRUE \/ ended' = ended)
<1>1. CASE place = Len(Tables)
  BY <1>1 DEF NextTable, MoveTypes
<1>2. CASE place # Len(Tables)
  <2>1. stage' = "max" /\ place' = place + 1 /\ ended' = ended
    BY <1>2 DEF NextTable
  <2> QED BY <1>2, <2>1, MoveConstants DEF MoveTypes
<1> QED BY <1>1, <1>2

LEMMA ReadHighestStep == ASSUME MoveIInv, ReadHighest PROVE MoveIInv'
<1>1. /\ stage = "max" /\ behind' = behind \ {place} /\ MoveTypes /\ place \in Positions
      /\ UNCHANGED <<source, target, sequence, offset, batch, quiet, checked>>
  BY DEF ReadHighest, MoveIInv, MoveTypes
<1>2. CASE target[place] = {}
  <2>1. NextTable /\ UNCHANGED highest
    BY <1>2 DEF ReadHighest
  <2>2. place' \in Positions /\ stage' \in {"idle", "max"} /\ ended' \in BOOLEAN
    BY <1>1, <2>1, NextPlace DEF MoveTypes
  <2>3. behind' \in SUBSET behind /\ behind \subseteq behind' \cup {place}
    BY <1>1
  <2>4. MoveTypes'
    BY <1>1, <2>1, <2>2, <2>3 DEF MoveTypes
  <2>5. PICK q \in Positions : q = place
    BY <1>1
  <2>6. Numbered(q)'
    BY <1>1, <1>2, <2>5 DEF Numbered
  <2> QED BY <1>1, <2>1, <2>3, <2>4, <2>5, <2>6, NextTableStep
<1>3. CASE target[place] # {}
  <2>1. stage' = "set" /\ highest' = Max(target[place]) /\ UNCHANGED <<place, ended>>
    BY <1>3 DEF ReadHighest
  <2>2. Bounded(target[place]) /\ target[place] \subseteq Nat /\ ~(0 \in target[place])
    BY <1>1, TableTypes, FiniteIds DEF Bounded, Ids
  <2>3. highest' \in target[place] /\ \A i \in target[place] : i <= highest'
    BY <1>3, <2>1, <2>2, GreatestOf
  <2>4. highest' \in Nat /\ highest' # 0
    BY <2>2, <2>3
  <2>5. MoveTypes'
    BY <1>1, <2>1, <2>4 DEF MoveTypes
  <2>6. Sequences'
    <3>1. \A p \in Positions : p < place => Numbered(p) /\ p # place
      BY <1>1, MoveConstants DEF MoveIInv, MoveTypes, Sequences
    <3>2. \A p \in Positions : p < place => Numbered(p)'
      BY <1>1, <3>1 DEF Numbered
    <3> QED BY <1>1, <2>1, <2>3, <2>4, <3>2 DEF Sequences
  <2>7. quiet' => Progress'
    BY <1>1, <2>1 DEF MoveIInv, Progress
  <2>8. EndedMoveIsWhole'
    BY <1>1, <2>1 DEF MoveIInv, EndedMoveIsWhole
  <2> QED BY <1>1, <2>1, <2>5, <2>6, <2>7, <2>8 DEF MoveIInv
<1> QED BY <1>2, <1>3

LEMMA SetSequenceStep == ASSUME MoveIInv, SetSequence PROVE MoveIInv'
<1>1. /\ stage = "set" /\ NextTable /\ MoveTypes /\ place \in Positions
      /\ sequence' = [sequence EXCEPT ![place] = highest + 1]
      /\ UNCHANGED <<source, target, offset, batch, highest, behind, quiet, checked>>
  BY DEF SetSequence, MoveIInv, MoveTypes
<1>2. /\ sequence'[place] = highest + 1 /\ highest \in Nat
      /\ \A p \in Positions : p # place => sequence'[p] = sequence[p]
  BY <1>1 DEF MoveTypes
<1>3. MoveTypes'
  <2>1. place' \in Positions /\ stage' \in {"idle", "max"} /\ ended' \in BOOLEAN
    BY <1>1, NextPlace DEF MoveTypes
  <2>2. sequence' \in [Positions -> Nat \ {0}]
    BY <1>1, <1>2 DEF MoveTypes
  <2> QED BY <1>1, <2>1, <2>2 DEF MoveTypes
<1>4. PICK q \in Positions : q = place
  BY <1>1
<1>5. Numbered(q)'
  <2>1. \A i \in target[q] : i \in Nat
    BY <1>1, TableTypes, FiniteIds
  <2>2. q \notin behind => \A i \in target[q] : i <= highest
    BY <1>1, <1>4 DEF MoveIInv, Sequences
  <2> SUFFICES ASSUME q \notin behind, NEW i \in target[q]
               PROVE  i < highest + 1
    BY <1>1, <1>2, <1>4 DEF Numbered
  <2> QED BY <1>2, <2>1, <2>2
<1> QED BY <1>1, <1>2, <1>3, <1>4, <1>5, NextTableStep

(* Beginnings of equal length are the whole.                               *)
LEMMA VerifyStep == ASSUME MoveIInv, Verify PROVE MoveIInv'
<1>1. /\ stage = "idle" /\ checked' = IF Mismatch THEN "mismatch" ELSE "ok"
      /\ UNCHANGED <<source, target, sequence, stage, place, offset, batch, highest, behind,
                      ended, quiet>>
  BY DEF Verify
<1>2. MoveTypes'
  BY <1>1 DEF MoveIInv, MoveTypes
<1>3. quiet' => Progress'
  BY <1>1 DEF MoveIInv, Progress
<1>4. ASSUME quiet, ~Mismatch, NEW p \in Compared PROVE target[p] = source[p]
  <2>1. Cardinality(source[p]) = Cardinality(target[p]) /\ p \in Positions
    BY <1>4, ComparedAssumption DEF Mismatch, Positions
  <2>2. Beginning(target[p], source[p]) /\ Bounded(source[p])
    BY <1>4, <2>1, TableTypes DEF MoveIInv, Progress
  <2> QED BY <2>1, <2>2, SameCount
<1>5. EndedMoveIsWhole'
  BY <1>1, <1>4 DEF MoveIInv, EndedMoveIsWhole
<1>6. Sequences'
  BY <1>1 DEF Sequences
<1> QED BY <1>1, <1>2, <1>3, <1>5, <1>6 DEF MoveIInv

(* The service's writes to the source count before anything was copied.    *)
LEMMA WriteSourceStep == ASSUME MoveIInv, WriteSource PROVE MoveIInv'
<1>1. PICK p \in Positions :
        /\ Written
        /\ \/ \E i \in source[p] : source' = [source EXCEPT ![p] = @ \ {i}]
           \/ /\ NextRow(source[p]) <= MaxRow
              /\ source' = [source EXCEPT ![p] = @ \cup {NextRow(source[p])}]
        /\ quiet' = (stage = "idle" /\ ~ended /\ \A q \in Positions : target[q] = {})
        /\ UNCHANGED <<target, sequence, behind>>
  BY DEF WriteSource
<1>2. checked' = "no" /\ UNCHANGED <<stage, place, offset, batch, highest, ended>>
  BY <1>1 DEF Written
<1>3. source' \in [Positions -> SUBSET Ids]
  <2>1. CASE \E i \in source[p] : source' = [source EXCEPT ![p] = @ \ {i}]
    BY <2>1 DEF MoveIInv, MoveTypes
  <2>2. CASE /\ NextRow(source[p]) <= MaxRow
             /\ source' = [source EXCEPT ![p] = @ \cup {NextRow(source[p])}]
    <3>1. Bounded(source[p]) /\ source[p] \subseteq Nat
      BY TableTypes, FiniteIds DEF MoveIInv
    <3>2. NextRow(source[p]) \in Nat /\ NextRow(source[p]) >= 1
      <4>1. CASE source[p] = {}
        BY <4>1 DEF NextRow
      <4>2. CASE source[p] # {}
        BY <3>1, <4>2, GreatestOf DEF NextRow
      <4> QED BY <4>1, <4>2
    <3>3. NextRow(source[p]) \in Ids
      BY <2>2, <3>2, MoveConstants DEF Ids
    <3> QED BY <2>2, <3>3 DEF MoveIInv, MoveTypes
  <2> QED BY <1>1, <2>1, <2>2
<1>4. MoveTypes'
  <2>1. quiet' \in BOOLEAN
    BY <1>1
  <2> QED BY <1>1, <1>2, <1>3, <2>1 DEF MoveIInv, MoveTypes
<1>5. quiet' => Progress'
  BY <1>1, <1>2 DEF Progress, Beginning
<1>6. quiet' => ~ended'
  BY <1>1, <1>2
<1>7. EndedMoveIsWhole' /\ Sequences'
  BY <1>1, <1>2, <1>6 DEF MoveIInv, EndedMoveIsWhole, Sequences, Numbered
<1> QED BY <1>1, <1>2, <1>4, <1>5, <1>7 DEF MoveIInv

LEMMA WriteTargetStep == ASSUME MoveIInv, WriteTarget PROVE MoveIInv'
<1>1. PICK p \in Positions :
        /\ Written /\ sequence[p] <= MaxRow
        /\ sequence' = [sequence EXCEPT ![p] = @ + 1]
        /\ target' = [target EXCEPT ![p] = @ \cup {sequence[p]}]
        /\ quiet' = FALSE /\ UNCHANGED source
        /\ behind' = IF stage = "set" /\ p = place THEN behind \cup {p} ELSE behind
  BY DEF WriteTarget
<1>2. checked' = "no" /\ UNCHANGED <<stage, place, offset, batch, highest, ended>>
  BY <1>1 DEF Written
<1>3. sequence[p] \in Nat \ {0} /\ sequence[p] \in Ids
  BY <1>1, MoveConstants DEF MoveIInv, MoveTypes, Ids
<1>4. MoveTypes'
  <2>1. MoveTypes
    BY DEF MoveIInv
  <2>2. target[p] \cup {sequence[p]} \in SUBSET Ids /\ sequence[p] + 1 \in Nat \ {0}
    BY <1>1, <1>3, <2>1 DEF MoveTypes
  <2>3. target' \in [Positions -> SUBSET Ids]
    BY <1>1, <2>1, <2>2 DEF MoveTypes
  <2>4. sequence' \in [Positions -> Nat \ {0}]
    BY <1>1, <2>1, <2>2 DEF MoveTypes
  <2>5. behind' \in SUBSET Positions
    BY <1>1, <2>1 DEF MoveTypes
  <2> QED BY <1>1, <1>2, <2>1, <2>3, <2>4, <2>5 DEF MoveTypes
<1>5. ASSUME NEW q \in Positions, Numbered(q), ~(stage = "set" /\ q = place) PROVE Numbered(q)'
  <2> SUFFICES ASSUME q \notin behind', NEW i \in target'[q] PROVE i < sequence'[q]
    BY DEF Numbered
  <2>1. \A k \in target[q] : k < sequence[q]
    BY <1>1, <1>5 DEF Numbered
  <2>2. CASE q # p
    BY <1>1, <2>1, <2>2 DEF MoveIInv, MoveTypes
  <2>3. CASE q = p
    <3>1. sequence'[p] = sequence[p] + 1 /\ target'[p] = target[p] \cup {sequence[p]}
      BY <1>1 DEF MoveIInv, MoveTypes
    <3>2. \A k \in target[p] : k \in Nat
      BY TableTypes, FiniteIds DEF MoveIInv
    <3> QED BY <1>3, <2>1, <2>3, <3>1, <3>2
  <2> QED BY <2>2, <2>3
<1>6. Sequences'
  <2>1. ASSUME stage \in {"max", "set"}, NEW q \in Positions, q < place PROVE Numbered(q)'
    <3>1. Numbered(q) /\ q # place
      BY <2>1, MoveConstants DEF MoveIInv, MoveTypes, Sequences
    <3> QED BY <1>5, <3>1
  <2>2. ASSUME stage = "set", place \notin behind', NEW i \in target'[place] PROVE i <= highest
    <3>1. p # place /\ place \notin behind
      BY <1>1, <2>2
    <3>2. target'[place] = target[place]
      BY <1>1, <3>1 DEF MoveIInv, MoveTypes
    <3> QED BY <2>2, <3>1, <3>2 DEF MoveIInv, Sequences
  <2>3. stage = "set" => highest # 0
    BY DEF MoveIInv, Sequences
  <2> QED BY <1>2, <2>1, <2>2, <2>3 DEF Sequences
<1>7. EndedMoveIsWhole'
  <2>1. ASSUME ended, NEW q \in Positions PROVE Numbered(q)'
    <3>1. Numbered(q) /\ stage = "idle"
      BY <2>1 DEF MoveIInv, EndedMoveIsWhole, Numbered
    <3> QED BY <1>5, <3>1
  <2> QED BY <1>1, <1>2, <2>1 DEF EndedMoveIsWhole, Numbered
<1> QED BY <1>1, <1>2, <1>4, <1>6, <1>7 DEF MoveIInv

LEMMA MoveNextIInv == MoveIInv /\ [MoveNext]_moveVars => MoveIInv'
<1>1. ASSUME MoveIInv, UNCHANGED moveVars PROVE MoveIInv'
  BY <1>1 DEF moveVars, MoveIInv, MoveTypes, Progress, Sequences, Numbered, EndedMoveIsWhole
<1> QED BY <1>1, BeginStep, ClearStep, FetchStep, InsertStep, StopStep, ReadHighestStep,
           SetSequenceStep, VerifyStep, WriteSourceStep, WriteTargetStep DEF MoveNext

(* The strengthened invariant of the move holds in every state.            *)
THEOREM MoveInvariant == MoveSpec => []MoveIInv
BY MoveInitIInv, MoveNextIInv, PTL DEF MoveSpec

(* A copy that ends is whole, through any number of copies that died, and   *)
(* one whose numbers of rows agree is whole in the tables compared; and the *)
(* service finds a free id in every table it did not write between the      *)
(* reading of the greatest id and the setting of the sequence, for every    *)
(* number of tables and rows (migrate_table, insert_rows,                   *)
(* refresh_postgres_sequences, verify_postgres_migration).                  *)
THEOREM MovesAreWhole == MoveSpec => []EndedMoveIsWhole
<1>1. MoveIInv => EndedMoveIsWhole
  BY DEF MoveIInv
<1> QED BY <1>1, MoveInvariant, PTL

-----------------------------------------------------------------------------
(* The figures of the administration page (StatsCache).                    *)
StatsSpec == StatsInit /\ [][StatsNext]_statsVars

Views == [at : {"away", "locking", "loading", "served"},
          came : Nat, checked : Nat, read : Nat \cup {NoStats}]

(* The kept value does not outlive its lifetime from the moment of which   *)
(* it tells.                                                               *)
KeptIsFresh == figures # NoStats => expiresAt <= figures + StatsTtl

(* A request first comes, then has the lock and looks again, then reads.   *)
InTime(r) ==
    /\ r.came <= clock
    /\ r.at = "locking" => r.read = NoStats
    /\ r.at = "loading" => r.came <= r.checked /\ r.checked <= clock
    /\ r.at = "loading" /\ r.read # NoStats => r.checked <= r.read
    /\ r.at = "served" => r.read # NoStats /\ r.came <= r.read + StatsTtl

StatsIInv == /\ clock \in Nat /\ figures \in Nat \cup {NoStats} /\ expiresAt \in Nat
             /\ view \in [Viewers -> Views]
             /\ KeptIsFresh
             /\ \A v \in Viewers : InTime(view[v])

-----------------------------------------------------------------------------
LEMMA StatsInitIInv == StatsInit => StatsIInv
BY StatsTtlAssumption DEF StatsInit, StatsIInv, Views, Away, KeptIsFresh, InTime

(* A step of one request changes its own view only: what remains to show   *)
(* is about the kept value and that view.                                  *)
LEMMA OneView ==
    ASSUME StatsIInv, NEW v \in Viewers, NEW r \in Views,
           view' = [view EXCEPT ![v] = r], clock' = clock,
           figures' \in Nat \cup {NoStats}, expiresAt' \in Nat,
           KeptIsFresh', InTime(r)
    PROVE  StatsIInv'
<1>1. view' \in [Viewers -> Views]  BY DEF StatsIInv
<1>2. view'[v] = r /\ \A u \in Viewers \ {v} : view'[u] = view[u]  BY DEF StatsIInv
<1>3. ASSUME NEW u \in Viewers PROVE InTime(view[u])'
  <2>1. CASE u = v  BY <1>2, <2>1 DEF InTime
  <2>2. CASE u # v  BY <1>2, <2>2 DEF StatsIInv, InTime
  <2> QED  BY <2>1, <2>2
<1> QED  BY <1>1, <1>3 DEF StatsIInv

LEMMA LookStep == ASSUME StatsIInv, NEW v \in Viewers, Look(v) PROVE StatsIInv'
<1>1. CASE StatsValid
  <2> DEFINE r == [at |-> "served", came |-> clock, checked |-> 0, read |-> figures]
  <2>1. view' = [view EXCEPT ![v] = r]  BY <1>1 DEF Look, Away
  <2>2. r \in Views  BY DEF StatsIInv, Views
  <2>3. InTime(r)  BY <1>1, StatsTtlAssumption DEF StatsIInv, KeptIsFresh, StatsValid, InTime
  <2>4. KeptIsFresh'  BY DEF Look, StatsIInv, KeptIsFresh
  <2> QED  BY <2>1, <2>2, <2>3, <2>4, OneView DEF Look, StatsIInv
<1>2. CASE ~StatsValid
  <2> DEFINE r == [at |-> "locking", came |-> clock, checked |-> 0, read |-> NoStats]
  <2>1. view' = [view EXCEPT ![v] = r]  BY <1>2 DEF Look, Away
  <2>2. r \in Views /\ InTime(r)  BY DEF StatsIInv, Views, InTime
  <2>3. KeptIsFresh'  BY DEF Look, StatsIInv, KeptIsFresh
  <2> QED  BY <2>1, <2>2, <2>3, OneView DEF Look, StatsIInv
<1> QED  BY <1>1, <1>2

LEMMA LookAgainStep == ASSUME StatsIInv, NEW v \in Viewers, LookAgain(v) PROVE StatsIInv'
<1>0. view[v] \in Views /\ InTime(view[v])  BY DEF StatsIInv
<1>1. KeptIsFresh'  BY DEF LookAgain, StatsIInv, KeptIsFresh
<1>2. CASE StatsValid
  <2> DEFINE r == [view[v] EXCEPT !.at = "served", !.read = figures]
  <2>1. view' = [view EXCEPT ![v] = r]  BY <1>2 DEF LookAgain, StatsIInv
  <2>2. r \in Views  BY <1>0 DEF StatsIInv, Views
  <2>3. InTime(r)
    BY <1>0, <1>2, StatsTtlAssumption DEF StatsIInv, KeptIsFresh, StatsValid, InTime, Views
  <2> QED  BY <1>1, <2>1, <2>2, <2>3, OneView DEF LookAgain, StatsIInv
<1>3. CASE ~StatsValid
  <2> DEFINE r == [view[v] EXCEPT !.at = "loading", !.checked = clock]
  <2>1. view' = [view EXCEPT ![v] = r]  BY <1>3 DEF LookAgain, StatsIInv
  <2>2. r \in Views  BY <1>0 DEF StatsIInv, Views
  <2>3. InTime(r)  BY <1>0 DEF LookAgain, StatsIInv, InTime, Views
  <2> QED  BY <1>1, <2>1, <2>2, <2>3, OneView DEF LookAgain, StatsIInv
<1> QED  BY <1>2, <1>3

LEMMA LoadStatsStep == ASSUME StatsIInv, NEW v \in Viewers, LoadStats(v) PROVE StatsIInv'
<1> DEFINE r == [view[v] EXCEPT !.read = clock]
<1>0. view[v] \in Views /\ InTime(view[v])  BY DEF StatsIInv
<1>1. view' = [view EXCEPT ![v] = r]  BY DEF LoadStats, StatsIInv
<1>2. r \in Views  BY <1>0 DEF StatsIInv, Views
<1>3. InTime(r)  BY <1>0 DEF StatsIInv, InTime, Views, LoadStats
<1>4. KeptIsFresh'  BY DEF LoadStats, StatsIInv, KeptIsFresh
<1> QED  BY <1>1, <1>2, <1>3, <1>4, OneView DEF LoadStats, StatsIInv

(* The lifetime counts from the look that had found nothing, before the    *)
(* figures were read.                                                      *)
LEMMA KeepStep == ASSUME StatsIInv, NEW v \in Viewers, Keep(v) PROVE StatsIInv'
<1> DEFINE r == [view[v] EXCEPT !.at = "served", !.checked = 0]
<1>0. view[v] \in Views /\ InTime(view[v])  BY DEF StatsIInv
<1>1. view' = [view EXCEPT ![v] = r]  BY DEF Keep, StatsIInv
<1>2. r \in Views  BY <1>0 DEF Views
<1>3. view[v].read \in Nat /\ view[v].came <= view[v].checked /\ view[v].checked <= view[v].read
  BY <1>0 DEF Keep, InTime, Views
<1>4. InTime(r)  BY <1>0, <1>3, StatsTtlAssumption DEF InTime, Views, Keep, StatsIInv
<1>5. KeptIsFresh'  BY <1>0, <1>3, StatsTtlAssumption DEF Keep, KeptIsFresh, Views
<1>6. figures' \in Nat /\ expiresAt' \in Nat
  BY <1>0, <1>3, StatsTtlAssumption DEF Keep, Views
<1> QED  BY <1>1, <1>2, <1>4, <1>5, <1>6, OneView DEF Keep

LEMMA AwayStep ==
    ASSUME StatsIInv, NEW v \in Viewers, view' = [view EXCEPT ![v] = Away],
           UNCHANGED <<clock, figures, expiresAt>>
    PROVE  StatsIInv'
<1>1. Away \in Views /\ InTime(Away)  BY DEF Away, Views, InTime, StatsIInv
<1>2. KeptIsFresh'  BY DEF StatsIInv, KeptIsFresh
<1> QED  BY <1>1, <1>2, OneView DEF StatsIInv

LEMMA ClockStep == ASSUME StatsIInv, ClockTicks PROVE StatsIInv'
<1>1. clock' = clock + 1 /\ clock \in Nat /\ view' = view  BY DEF ClockTicks, StatsIInv
<1>2. ASSUME NEW v \in Viewers PROVE InTime(view[v])'
  <2>1. view[v] \in Views /\ InTime(view[v])  BY DEF StatsIInv
  <2> QED  BY <1>1, <2>1 DEF InTime, Views
<1> QED  BY <1>1, <1>2 DEF ClockTicks, StatsIInv, KeptIsFresh

LEMMA StatsNextIInv == StatsIInv /\ [StatsNext]_statsVars => StatsIInv'
<1> SUFFICES ASSUME StatsIInv, [StatsNext]_statsVars PROVE StatsIInv'  OBVIOUS
<1>1. ASSUME NEW v \in Viewers, Look(v) PROVE StatsIInv'  BY <1>1, LookStep
<1>2. ASSUME NEW v \in Viewers, LookAgain(v) PROVE StatsIInv'  BY <1>2, LookAgainStep
<1>3. ASSUME NEW v \in Viewers, LoadStats(v) PROVE StatsIInv'  BY <1>3, LoadStatsStep
<1>4. ASSUME NEW v \in Viewers, Keep(v) PROVE StatsIInv'  BY <1>4, KeepStep
<1>5. ASSUME NEW v \in Viewers, LoadStatsRaises(v) PROVE StatsIInv'
  BY <1>5, AwayStep DEF LoadStatsRaises
<1>6. ASSUME NEW v \in Viewers, Close(v) PROVE StatsIInv'  BY <1>6, AwayStep DEF Close
<1>7. CASE ClockTicks  BY <1>7, ClockStep
<1>8. CASE UNCHANGED statsVars  BY <1>8 DEF statsVars, StatsIInv, KeptIsFresh, InTime
<1> QED  BY <1>1, <1>2, <1>3, <1>4, <1>5, <1>6, <1>7, <1>8 DEF StatsNext

-----------------------------------------------------------------------------
LEMMA FreshNow == StatsIInv => StatsFresh
<1> SUFFICES ASSUME StatsIInv, NEW v \in Viewers, view[v].at = "served"
             PROVE  view[v].read + StatsTtl >= view[v].came
    BY DEF StatsFresh
<1>1. view[v] \in Views /\ InTime(view[v])  BY DEF StatsIInv
<1> QED  BY <1>1, StatsTtlAssumption DEF InTime, Views

(* The figures a request is served are no older than the lifetime, counted *)
(* from when it came, whatever loads and waits for the lock take           *)
(* (AdminStatsCache.get_or_load).                                          *)
THEOREM FiguresAreFresh == StatsSpec => []StatsFresh
<1>1. StatsInit => StatsIInv  BY StatsInitIInv
<1>2. StatsIInv /\ [StatsNext]_statsVars => StatsIInv'  BY StatsNextIInv
<1>3. StatsIInv => StatsFresh  BY FreshNow
<1> QED  BY <1>1, <1>2, <1>3, PTL DEF StatsSpec

-----------------------------------------------------------------------------
(* The identities of callers and the count of keys (Identity).  The moment *)
(* at which the table was last empty bounds how long an empty count may be *)
(* kept, and how long a key can have been active.                          *)
IdentitySpec == IdentityInit /\ [][IdentityNext]_identityVars

HistoryOK ==
    /\ emptyAt \in Nat /\ emptyAt <= now /\ (TableEmpty => emptyAt = now)
    /\ activeSince \in [Keys -> Nat \cup {Nobody}]
    /\ \A k \in Keys : activeSince[k] # Nobody => emptyAt <= activeSince[k]

EmptyCacheEnds == (cached # Nobody /\ cached) => until <= emptyAt + Ttl

(* A count of none is as old as the request, at most; a record that is     *)
(* still good now was good when it was found.                              *)
CountOK(r) == /\ req[r].start <= now
              /\ req[r].at = "counted" /\ req[r].empty => req[r].start <= emptyAt
AnonymousOK(r) == req[r].at = "anonymous" => req[r].start <= emptyAt + Ttl
PassedOK(r) == req[r].at = "anonymous" => passthrough
RefusedOK(r) ==
    req[r].at = "refused" /\ req[r].bearer # Nobody /\ activeSince[req[r].bearer] # Nobody
        => activeSince[req[r].bearer] + Ttl > req[r].start
RecordOK(r) ==
    /\ req[r].at = "found" /\ IsActive(req[r].record, now) => req[r].record.upstream \in valid[r]
    /\ req[r].at = "identified" => req[r].record.upstream \in valid[r]
FindingOK(r) == req[r].at = "finding" => req[r].bearer # Nobody
RequestOK(r) == /\ CountOK(r) /\ AnonymousOK(r) /\ PassedOK(r) /\ RefusedOK(r)
                /\ FindingOK(r) /\ RecordOK(r)

IdentityIInv ==
    IdentityTypeOK /\ HistoryOK /\ EmptyCacheEnds /\ \A r \in Requests : RequestOK(r)

Stages == {"idle", "counting", "counted", "finding", "found",
           "anonymous", "refused", "rejected", "identified"}
RequestStates == [at : Stages, bearer : Keys \cup {Nobody}, start : Times, empty : BOOLEAN,
                  record : Records \cup {Nobody}]

LEMMA Durations == Ttl \in Nat /\ Ttl > 0 /\ MaxTime \in Nat
BY TtlAssumption

LEMMA RequestTypes ==
    ASSUME IdentityTypeOK
    PROVE  /\ req \in [Requests -> RequestStates]
           /\ \A r \in Requests : req[r] \in RequestStates
           /\ now \in Nat /\ now \in Times
BY Durations DEF IdentityTypeOK, RequestStates, Stages, Times

LEMMA IdleState == Idle \in RequestStates /\ Idle.at = "idle" /\ Idle.start = 0
BY Durations DEF Idle, RequestStates, Stages, Times

LEMMA IdentityInitIInv == IdentityInit => IdentityIInv
<1> SUFFICES ASSUME IdentityInit PROVE IdentityIInv
  OBVIOUS
<1>1. Idle \in RequestStates /\ Idle.at = "idle" /\ Idle.start = 0
  BY IdleState
<1>2. IdentityTypeOK
  <2>1. /\ now \in Times /\ until \in 0..(MaxTime + Ttl) /\ keys \in [Keys -> Records \cup {Nobody}]
    BY Durations DEF IdentityInit, Times
  <2>2. passthrough \in BOOLEAN /\ cached \in BOOLEAN \cup {Nobody}
    BY DEF IdentityInit
  <2>3. req \in [Requests -> RequestStates]
    BY <1>1 DEF IdentityInit
  <2> QED BY <2>1, <2>2, <2>3 DEF IdentityTypeOK, RequestStates, Stages
<1>3. HistoryOK
  BY DEF IdentityInit, HistoryOK
<1>4. EmptyCacheEnds
  BY Durations DEF IdentityInit, EmptyCacheEnds
<1>5. ASSUME NEW r \in Requests PROVE RequestOK(r)
  BY <1>1 DEF IdentityInit, RequestOK, CountOK, AnonymousOK, PassedOK, RefusedOK, FindingOK, RecordOK
<1> QED BY <1>2, <1>3, <1>4, <1>5 DEF IdentityIInv

(* What every step does to the history.                                    *)
LEMMA HistoryKept ==
    ASSUME IdentityIInv, Observe, now' \in Nat, now <= now'
    PROVE  /\ HistoryOK' /\ emptyAt <= emptyAt'
           /\ \A k \in Keys : activeSince'[k] # Nobody =>
                  activeSince'[k] \in Nat
                  /\ (activeSince'[k] = activeSince[k] \/ activeSince'[k] = now')
<1>1. emptyAt' = IF TableEmpty' THEN now' ELSE emptyAt
  BY DEF Observe
<1>2. now \in Nat /\ emptyAt \in Nat /\ emptyAt <= now
  BY RequestTypes DEF IdentityIInv, HistoryOK
<1>3. \A k \in Keys : activeSince'[k] = IF ~IsActive(keys'[k], now') THEN Nobody
                 ELSE IF activeSince[k] = Nobody THEN now' ELSE activeSince[k]
  BY DEF Observe
<1>4. TableEmpty' => \A k \in Keys : activeSince'[k] = Nobody
  BY <1>3 DEF TableEmpty, IsActive
<1>5. activeSince' \in [Keys -> Nat \cup {Nobody}]
  <2>1. activeSince' = [k \in Keys |-> activeSince'[k]]
    BY DEF Observe
  <2>2. \A k \in Keys : activeSince'[k] \in Nat \cup {Nobody}
    BY <1>3 DEF IdentityIInv, HistoryOK
  <2> QED BY <2>1, <2>2
<1>6. \A k \in Keys : activeSince'[k] # Nobody =>
          activeSince'[k] = activeSince[k] \/ activeSince'[k] = now'
  BY <1>3
<1>7. \A k \in Keys : activeSince'[k] # Nobody => emptyAt' <= activeSince'[k]
  BY <1>1, <1>2, <1>3, <1>4 DEF IdentityIInv, HistoryOK
<1> QED BY <1>1, <1>2, <1>5, <1>6, <1>7 DEF HistoryOK

(* A request that waits is not disturbed by the others, by administrators  *)
(* or by time.                                                             *)
LEMMA RequestKept ==
    ASSUME IdentityIInv, Observe, now' \in Nat, now <= now', UNCHANGED passthrough,
           NEW r \in Requests, req'[r] = req[r]
    PROVE  RequestOK(r)'
<1>1. RequestOK(r) /\ req[r] \in RequestStates /\ now \in Nat /\ emptyAt \in Nat
  BY RequestTypes DEF IdentityIInv, HistoryOK
<1>2. /\ emptyAt <= emptyAt' /\ emptyAt' \in Nat
      /\ \A k \in Keys : activeSince'[k] # Nobody =>
                  activeSince'[k] \in Nat
                  /\ (activeSince'[k] = activeSince[k] \/ activeSince'[k] = now')
  BY HistoryKept DEF HistoryOK
<1>3. req[r].start \in Nat /\ req[r].bearer \in Keys \cup {Nobody}
  BY <1>1, Durations DEF RequestStates, Times
<1>4. CountOK(r)'
  BY <1>1, <1>2, <1>3 DEF RequestOK, CountOK
<1>5. AnonymousOK(r)' /\ PassedOK(r)'
  <2>1. AnonymousOK(r)'
    BY <1>1, <1>2, <1>3, Durations DEF RequestOK, AnonymousOK
  <2>2. PassedOK(r)'
    BY <1>1 DEF RequestOK, PassedOK
  <2> QED BY <2>1, <2>2
<1>6. RefusedOK(r)'
  BY <1>1, <1>2, <1>3, Durations DEF RequestOK, RefusedOK, CountOK
<1>7. IsActive(req[r].record, now') => IsActive(req[r].record, now)
  <2> SUFFICES ASSUME req[r].record # Nobody, req[r].record.expires # Nobody,
                      req[r].record.expires <= now
               PROVE  req[r].record.expires <= now'
    BY DEF IsActive, Expired
  <2>1. req[r].record.expires \in Nat
    BY <1>1, Durations DEF RequestStates, Records
  <2> QED BY <1>1, <2>1
<1>8. FindingOK(r)' /\ RecordOK(r)'
  <2>1. req[r].at \in {"found", "identified"} => valid[r] \subseteq valid'[r]
    BY DEF Observe
  <2>2. FindingOK(r)'
    BY <1>1 DEF RequestOK, FindingOK
  <2>3. RecordOK(r)'
    BY <1>1, <1>7, <2>1 DEF RequestOK, RecordOK, IsActive, Expired
  <2> QED BY <2>2, <2>3
<1> QED BY <1>4, <1>5, <1>6, <1>8 DEF RequestOK

(* A step of one request.                                                  *)
LEMMA OneRequest ==
    ASSUME IdentityIInv, Observe, NEW r \in Requests, NEW q \in RequestStates,
           req' = [req EXCEPT ![r] = q], UNCHANGED <<now, passthrough, keys>>,
           cached' \in BOOLEAN \cup {Nobody}, until' \in 0..(MaxTime + Ttl),
           EmptyCacheEnds', RequestOK(r)'
    PROVE  IdentityIInv'
<1>1. req' \in [Requests -> RequestStates] /\ req'[r] = q
      /\ \A o \in Requests : o # r => req'[o] = req[o]
  BY RequestTypes DEF IdentityIInv
<1>2. IdentityTypeOK'
  BY <1>1 DEF IdentityIInv, IdentityTypeOK, RequestStates, Stages
<1>3. HistoryOK'
  BY HistoryKept, RequestTypes DEF IdentityIInv
<1>4. \A o \in Requests : o # r => RequestOK(o)'
  BY <1>1, RequestKept, RequestTypes DEF IdentityIInv
<1> QED BY <1>2, <1>3, <1>4 DEF IdentityIInv

(* A cached count that is left alone stays right.                          *)
LEMMA CacheKept ==
    ASSUME IdentityIInv, Observe, now' \in Nat, now <= now', UNCHANGED <<cached, until>>
    PROVE  EmptyCacheEnds' /\ cached' \in BOOLEAN \cup {Nobody} /\ until' \in 0..(MaxTime + Ttl)
<1>1. emptyAt <= emptyAt' /\ emptyAt' \in Nat /\ emptyAt \in Nat
  BY HistoryKept DEF IdentityIInv, HistoryOK
<1>2. until \in Nat /\ cached \in BOOLEAN \cup {Nobody} /\ until \in 0..(MaxTime + Ttl)
  BY Durations DEF IdentityIInv, IdentityTypeOK
<1>3. cached' \in BOOLEAN \cup {Nobody} /\ until' \in 0..(MaxTime + Ttl)
  BY <1>2
<1>4. until <= emptyAt + Ttl => until' <= emptyAt' + Ttl
  <2>1. until' = until /\ until \in Nat
    BY <1>2
  <2>2. \A e, f, t \in Nat : e <= f /\ until <= e + t => until <= f + t
    BY <2>1
  <2> QED BY <1>1, <2>1, <2>2, Durations
<1> QED BY <1>3, <1>4 DEF EmptyCacheEnds, IdentityIInv
-----------------------------------------------------------------------------
(* What a request is sorted into, when it was counted as none or not.      *)
LEMMA SortedTo ==
    ASSUME NEW request \in RequestStates, NEW empty \in BOOLEAN
    PROVE  LET q == Sorted(request, empty) IN
           /\ q \in RequestStates
           /\ \/ q.at = "anonymous" /\ empty /\ passthrough /\ q.start = request.start
              \/ q.at = "finding" /\ q.start = 0 /\ q.bearer # Nobody
              \/ /\ q.at = "refused" /\ q.start = request.start /\ q.bearer = request.bearer
                 /\ q.bearer # Nobody => empty
<1>1. CASE empty /\ passthrough
  BY <1>1 DEF Sorted, Idle, RequestStates, Stages
<1>2. CASE ~(empty /\ passthrough) /\ ~empty /\ request.bearer # Nobody
  <2>1. 0 \in Times /\ request.bearer \in Keys \cup {Nobody}
    BY Durations DEF RequestStates, Times
  <2>2. Sorted(request, empty) = [Idle EXCEPT !.at = "finding", !.bearer = request.bearer]
    BY <1>2 DEF Sorted
  <2> QED BY <1>2, <2>1, <2>2, IdleState DEF RequestStates, Stages
<1>3. CASE ~(empty /\ passthrough) /\ ~(~empty /\ request.bearer # Nobody)
  BY <1>3 DEF Sorted, RequestStates, Stages
<1> QED BY <1>1, <1>2, <1>3

(* A request that is sorted by a count which is not too old for it.        *)
LEMMA SortedOK ==
    ASSUME IdentityIInv, Observe, NEW r \in Requests,
           NEW request \in RequestStates, NEW empty \in BOOLEAN,
           req'[r] = Sorted(request, empty), UNCHANGED <<now, passthrough>>,
           request.start <= now, empty => request.start < emptyAt + Ttl
    PROVE  RequestOK(r)' /\ Sorted(request, empty) \in RequestStates
<1> DEFINE q == Sorted(request, empty)
<1>1. /\ q \in RequestStates
      /\ \/ q.at = "anonymous" /\ empty /\ passthrough /\ q.start = request.start
         \/ q.at = "finding" /\ q.start = 0 /\ q.bearer # Nobody
         \/ /\ q.at = "refused" /\ q.start = request.start /\ q.bearer = request.bearer
            /\ q.bearer # Nobody => empty
  BY SortedTo
<1> HIDE DEF q
<1>2. /\ now \in Nat /\ emptyAt \in Nat /\ emptyAt' \in Nat /\ emptyAt <= emptyAt'
      /\ \A k \in Keys : activeSince'[k] # Nobody =>
            activeSince'[k] \in Nat /\ emptyAt' <= activeSince'[k]
  BY HistoryKept, RequestTypes DEF IdentityIInv, HistoryOK
<1>3. request.start \in Nat /\ q.bearer \in Keys \cup {Nobody}
  BY <1>1, Durations DEF RequestStates, Times
<1>4. req'[r] = q
  BY DEF q
<1>5. CountOK(r)'
  BY <1>1, <1>2, <1>3, <1>4 DEF CountOK
<1>6. AnonymousOK(r)' /\ PassedOK(r)'
  <2>1. AnonymousOK(r)'
    BY <1>1, <1>2, <1>3, <1>4, Durations DEF AnonymousOK
  <2>2. PassedOK(r)'
    BY <1>1, <1>4 DEF PassedOK
  <2> QED BY <2>1, <2>2
<1>7. RefusedOK(r)' /\ FindingOK(r)' /\ RecordOK(r)'
  <2>1. RefusedOK(r)'
    BY <1>1, <1>2, <1>3, <1>4, Durations DEF RefusedOK
  <2>2. FindingOK(r)' /\ RecordOK(r)'
    BY <1>1, <1>4 DEF FindingOK, RecordOK
  <2> QED BY <2>1, <2>2
<1>8. q \in RequestStates
  BY <1>1
<1> QED BY <1>5, <1>6, <1>7, <1>8 DEF q, RequestOK

LEMMA ArriveStep ==
    ASSUME IdentityIInv, Observe, NEW r \in Requests, NEW k \in Keys \cup {Nobody}, Arrive(r, k)
    PROVE  IdentityIInv'
<1> DEFINE request == [Idle EXCEPT !.at = "counting", !.bearer = k, !.start = now]
<1>1. /\ request \in RequestStates /\ request.start = now /\ request.at = "counting"
      /\ now \in Nat
  BY RequestTypes, Durations DEF IdentityIInv, Idle, RequestStates, Stages
<1> HIDE DEF request
<1>2. /\ UNCHANGED <<now, passthrough, keys, cached, until>>
      /\ req' = [req EXCEPT ![r] = IF CacheValid THEN Sorted(request, cached) ELSE request]
  BY DEF Arrive, request
<1>3. EmptyCacheEnds' /\ cached' \in BOOLEAN \cup {Nobody} /\ until' \in 0..(MaxTime + Ttl)
  BY <1>1, <1>2, CacheKept
<1>4. CASE CacheValid
  <2>1. req' = [req EXCEPT ![r] = Sorted(request, cached)] /\ req'[r] = Sorted(request, cached)
    BY <1>2, <1>4, RequestTypes DEF IdentityIInv
  <2>2. cached \in BOOLEAN /\ now < until
    BY <1>4 DEF CacheValid, IdentityIInv, IdentityTypeOK
  <2>3. until \in Nat /\ emptyAt \in Nat
    BY Durations DEF IdentityIInv, IdentityTypeOK, HistoryOK
  <2>4. ASSUME cached PROVE now < emptyAt + Ttl
    <3>1. until <= emptyAt + Ttl
      BY <1>4, <2>4 DEF IdentityIInv, EmptyCacheEnds, CacheValid
    <3> QED BY <1>1, <2>2, <2>3, <3>1, Durations
  <2>5. RequestOK(r)' /\ Sorted(request, cached) \in RequestStates
    BY <1>1, <1>2, <2>1, <2>2, <2>4, SortedOK
  <2> QED BY <1>2, <1>3, <2>1, <2>5, OneRequest
<1>5. CASE ~CacheValid
  <2>1. req' = [req EXCEPT ![r] = request] /\ req'[r] = request
    BY <1>2, <1>5, RequestTypes DEF IdentityIInv
  <2>2. RequestOK(r)'
    BY <1>1, <1>2, <2>1 DEF RequestOK, CountOK, AnonymousOK, PassedOK, RefusedOK, FindingOK, RecordOK
  <2> QED BY <1>1, <1>2, <1>3, <2>1, <2>2, OneRequest
<1> QED BY <1>4, <1>5

LEMMA CountStep ==
    ASSUME IdentityIInv, Observe, NEW r \in Requests, Count(r)
    PROVE  IdentityIInv'
<1> DEFINE q == [req[r] EXCEPT !.at = "counted", !.empty = TableEmpty]
<1>1. /\ req[r] \in RequestStates /\ RequestOK(r) /\ now \in Nat
      /\ UNCHANGED <<now, passthrough, keys, cached, until>>
  BY RequestTypes DEF IdentityIInv, Count
<1>2. req' = [req EXCEPT ![r] = q]
  BY RequestTypes DEF Count, IdentityIInv
<1>3. TableEmpty \in BOOLEAN
  BY DEF TableEmpty
<1>4. q \in RequestStates /\ q.at = "counted" /\ q.empty = TableEmpty /\ q.start = req[r].start
  BY <1>1, <1>3 DEF RequestStates, Stages
<1> HIDE DEF q
<1>5. req'[r] = q
  BY <1>2, RequestTypes DEF IdentityIInv
<1>6. /\ EmptyCacheEnds' /\ cached' \in BOOLEAN \cup {Nobody} /\ until' \in 0..(MaxTime + Ttl)
      /\ emptyAt <= emptyAt' /\ emptyAt \in Nat /\ emptyAt' \in Nat
  BY <1>1, CacheKept, HistoryKept DEF HistoryOK, IdentityIInv
<1>7. TableEmpty => emptyAt = now
  BY DEF IdentityIInv, HistoryOK
<1>8. RequestOK(r)'
  <2>1. req[r].start <= now
    BY <1>1 DEF RequestOK, CountOK
  <2>2. q.empty => q.start <= emptyAt'
    <3>1. q.empty => emptyAt = now
      BY <1>4, <1>7
    <3>2. req[r].start \in Nat
      BY <1>1, Durations DEF RequestStates, Times
    <3> QED BY <1>1, <1>4, <1>6, <2>1, <3>1, <3>2
  <2> QED BY <1>1, <1>4, <1>5, <2>1, <2>2 DEF RequestOK, CountOK, AnonymousOK, PassedOK,
                                              RefusedOK, FindingOK, RecordOK
<1> QED BY <1>1, <1>2, <1>4, <1>6, <1>8, OneRequest

(* A count that is stored late ends no later for it.                       *)
LEMMA StoreStep ==
    ASSUME IdentityIInv, Observe, NEW r \in Requests, Store(r)
    PROVE  IdentityIInv'
<1>1. /\ req[r] \in RequestStates /\ RequestOK(r) /\ now \in Nat /\ req[r].at = "counted"
      /\ UNCHANGED <<now, passthrough, keys>>
      /\ cached' = req[r].empty /\ until' = req[r].start + Ttl
  BY RequestTypes DEF IdentityIInv, Store
<1>2. req' = [req EXCEPT ![r] = Sorted(req[r], req[r].empty)]
  BY RequestTypes DEF Store, IdentityIInv
<1>3. req'[r] = Sorted(req[r], req[r].empty)
  BY <1>2, RequestTypes DEF IdentityIInv
<1>4. /\ req[r].empty \in BOOLEAN /\ req[r].start \in Nat /\ req[r].start <= MaxTime
      /\ emptyAt \in Nat /\ emptyAt' \in Nat /\ emptyAt <= emptyAt'
  BY <1>1, HistoryKept, Durations DEF RequestStates, Times, IdentityIInv, HistoryOK
<1>5. req[r].start <= now /\ (req[r].empty => req[r].start <= emptyAt)
  BY <1>1 DEF RequestOK, CountOK
<1>6. EmptyCacheEnds' /\ cached' \in BOOLEAN \cup {Nobody} /\ until' \in 0..(MaxTime + Ttl)
  <2>1. until' \in 0..(MaxTime + Ttl)
    BY <1>1, <1>4, Durations
  <2>2. cached' => until' <= emptyAt' + Ttl
    BY <1>1, <1>4, <1>5, Durations
  <2> QED BY <1>1, <1>4, <2>1, <2>2 DEF EmptyCacheEnds
<1>7. req[r].empty => req[r].start < emptyAt + Ttl
  BY <1>4, <1>5, Durations
<1>8. RequestOK(r)' /\ Sorted(req[r], req[r].empty) \in RequestStates
  BY <1>1, <1>3, <1>4, <1>5, <1>7, SortedOK
<1> QED BY <1>1, <1>2, <1>6, <1>8, OneRequest

(* What is found is what the key stands for now, if it stands for any.     *)
LEMMA FindStep ==
    ASSUME IdentityIInv, Observe, NEW r \in Requests, Find(r)
    PROVE  IdentityIInv'
<1> DEFINE q == [req[r] EXCEPT !.at = "found", !.record = keys[req[r].bearer]]
<1>1. /\ req[r] \in RequestStates /\ RequestOK(r) /\ now \in Nat
      /\ UNCHANGED <<now, passthrough, keys, cached, until>> /\ req[r].at = "finding"
  BY RequestTypes DEF IdentityIInv, Find
<1>2. req' = [req EXCEPT ![r] = q]
  BY RequestTypes DEF Find, IdentityIInv
<1>3. req[r].bearer \in Keys /\ req[r].bearer # Nobody
  BY <1>1 DEF RequestOK, FindingOK, RequestStates
<1>4. keys[req[r].bearer] \in Records \cup {Nobody}
  BY <1>3 DEF IdentityIInv, IdentityTypeOK
<1>5. /\ q \in RequestStates /\ q.at = "found" /\ q.start = req[r].start
      /\ q.bearer = req[r].bearer /\ q.record = keys[req[r].bearer]
  BY <1>1, <1>4 DEF RequestStates, Stages
<1> HIDE DEF q
<1>6. req'[r] = q
  BY <1>2, RequestTypes DEF IdentityIInv
<1>7. EmptyCacheEnds' /\ cached' \in BOOLEAN \cup {Nobody} /\ until' \in 0..(MaxTime + Ttl)
  BY <1>1, CacheKept
<1>8. valid'[r] = valid[r] \cup Stands(q.bearer)
  BY <1>5, <1>6 DEF Observe
<1>9. RequestOK(r)'
  <2>1. IsActive(q.record, now) => q.record.upstream \in valid'[r]
    BY <1>3, <1>5, <1>8 DEF Stands
  <2>2. RecordOK(r)'
    BY <1>1, <1>5, <1>6, <2>1 DEF RecordOK, IsActive, Expired
  <2>3. /\ AnonymousOK(r)' /\ PassedOK(r)' /\ RefusedOK(r)' /\ FindingOK(r)'
    BY <1>5, <1>6 DEF AnonymousOK, PassedOK, RefusedOK, FindingOK
  <2>4. CountOK(r)'
    BY <1>1, <1>5, <1>6 DEF RequestOK, CountOK
  <2> QED BY <2>2, <2>3, <2>4 DEF RequestOK
<1> QED BY <1>1, <1>2, <1>5, <1>7, <1>9, OneRequest

(* What was found is judged by its expiry now; a record that passes passed *)
(* when it was found.                                                      *)
LEMMA JudgeStep ==
    ASSUME IdentityIInv, Observe, NEW r \in Requests, Judge(r)
    PROVE  IdentityIInv'
<1>1. /\ req[r] \in RequestStates /\ RequestOK(r) /\ now \in Nat
      /\ UNCHANGED <<now, passthrough, keys, cached, until>> /\ req[r].at = "found"
  BY RequestTypes DEF IdentityIInv, Judge
<1>2. EmptyCacheEnds' /\ cached' \in BOOLEAN \cup {Nobody} /\ until' \in 0..(MaxTime + Ttl)
  BY <1>1, CacheKept
<1>3. CASE IsActive(req[r].record, now)
  <2> DEFINE q == [req[r] EXCEPT !.at = "identified"]
  <2>1. req' = [req EXCEPT ![r] = q]
    BY <1>3, RequestTypes DEF IdentityIInv, Judge
  <2>2. /\ q \in RequestStates /\ q.at = "identified" /\ q.start = req[r].start
        /\ q.record = req[r].record /\ q.bearer = req[r].bearer
    BY <1>1 DEF RequestStates, Stages
  <2> HIDE DEF q
  <2>3. req'[r] = q
    BY <2>1, RequestTypes DEF IdentityIInv
  <2>4. valid[r] \subseteq valid'[r]
    BY <2>2, <2>3 DEF Observe
  <2>5. RecordOK(r)'
    BY <1>1, <1>3, <2>2, <2>3, <2>4 DEF RequestOK, RecordOK
  <2>6. CountOK(r)'
    BY <1>1, <2>2, <2>3 DEF RequestOK, CountOK
  <2>7. AnonymousOK(r)' /\ PassedOK(r)' /\ RefusedOK(r)' /\ FindingOK(r)'
    BY <2>2, <2>3 DEF AnonymousOK, PassedOK, RefusedOK, FindingOK
  <2>8. RequestOK(r)'
    BY <2>5, <2>6, <2>7 DEF RequestOK
  <2> QED BY <1>1, <1>2, <2>1, <2>2, <2>8, OneRequest
<1>4. CASE ~IsActive(req[r].record, now)
  <2> DEFINE q == [Idle EXCEPT !.at = "rejected"]
  <2>1. req' = [req EXCEPT ![r] = q]
    BY <1>4, RequestTypes DEF IdentityIInv, Judge
  <2>2. q \in RequestStates /\ q.at = "rejected" /\ q.start = 0
    BY IdleState DEF RequestStates, Stages
  <2> HIDE DEF q
  <2>3. req'[r] = q
    BY <2>1, RequestTypes DEF IdentityIInv
  <2>4. RequestOK(r)'
    BY <1>1, <2>2, <2>3 DEF RequestOK, CountOK, AnonymousOK, PassedOK, RefusedOK, FindingOK, RecordOK
  <2> QED BY <1>1, <1>2, <2>1, <2>2, <2>4, OneRequest
<1> QED BY <1>3, <1>4

LEMMA ToIdle ==
    ASSUME IdentityIInv, Observe, NEW r \in Requests, LookupRaises(r) \/ Leave(r)
    PROVE  IdentityIInv'
<1>1. /\ req' = [req EXCEPT ![r] = Idle] /\ now \in Nat
      /\ UNCHANGED <<now, passthrough, keys, cached, until>>
  BY RequestTypes DEF LookupRaises, Leave, IdentityIInv
<1>2. EmptyCacheEnds' /\ cached' \in BOOLEAN \cup {Nobody} /\ until' \in 0..(MaxTime + Ttl)
  BY <1>1, CacheKept
<1>3. Idle \in RequestStates /\ Idle.at = "idle" /\ Idle.start = 0
  BY IdleState
<1>4. req'[r] = Idle
  BY <1>1, RequestTypes DEF IdentityIInv
<1>5. RequestOK(r)'
  BY <1>1, <1>3, <1>4 DEF RequestOK, CountOK, AnonymousOK, PassedOK, RefusedOK, FindingOK, RecordOK
<1> QED BY <1>1, <1>2, <1>3, <1>5, OneRequest

-----------------------------------------------------------------------------
(* Administrators and time leave the worker alone.                         *)
LEMMA Outside ==
    ASSUME IdentityIInv, Observe, UNCHANGED <<passthrough, inWorker>>,
           now' \in Times, now <= now', keys' \in [Keys -> Records \cup {Nobody}]
    PROVE  IdentityIInv'
<1>1. /\ now' \in Nat /\ req' = req /\ UNCHANGED <<cached, until>>
  BY Durations DEF inWorker, Times
<1>2. EmptyCacheEnds' /\ HistoryOK'
  BY <1>1, CacheKept, HistoryKept
<1>3. IdentityTypeOK'
  BY <1>1 DEF IdentityIInv, IdentityTypeOK
<1>4. \A r \in Requests : RequestOK(r)'
  BY <1>1, RequestKept
<1> QED BY <1>2, <1>3, <1>4 DEF IdentityIInv

LEMMA ChangeStep ==
    ASSUME IdentityIInv, Observe, NEW k \in Keys, NEW record \in Records \cup {Nobody},
           Change(k, record)
    PROVE  IdentityIInv'
<1>1. keys' \in [Keys -> Records \cup {Nobody}]
  BY DEF Change, IdentityIInv, IdentityTypeOK
<1>2. now' \in Times /\ now <= now'
  BY RequestTypes DEF Change, IdentityIInv
<1> QED BY <1>1, <1>2, Outside DEF Change

LEMMA AdministratorStep ==
    ASSUME IdentityIInv, Observe, NEW k \in Keys,
           \/ \E u \in Upstreams, t \in Expiries : Create(k, u, t)
           \/ Revoke(k) \/ Delete(k)
           \/ \E u \in Upstreams : ReplaceUpstream(k, u)
           \/ \E t \in Expiries : Update(k, t)
    PROVE  IdentityIInv'
<1>1. Expiries \subseteq 0..(MaxTime + 1) \cup {Nobody}
  BY Durations DEF Expiries, IdentityIInv, IdentityTypeOK, Times
<1>2. keys[k] # Nobody => keys[k] \in Records
  BY DEF IdentityIInv, IdentityTypeOK
<1>3. ASSUME NEW u \in Upstreams, NEW t \in Expiries, Create(k, u, t) PROVE IdentityIInv'
  <2>1. [active |-> TRUE, upstream |-> u, expires |-> t] \in Records
    BY <1>1 DEF Records
  <2> QED BY <1>3, <2>1, ChangeStep DEF Create
<1>4. CASE Revoke(k)
  <2>1. [keys[k] EXCEPT !.active = FALSE] \in Records
    BY <1>2, <1>4 DEF Revoke, Records
  <2> QED BY <1>4, <2>1, ChangeStep DEF Revoke
<1>5. CASE Delete(k)
  BY <1>5, ChangeStep DEF Delete
<1>6. ASSUME NEW u \in Upstreams, ReplaceUpstream(k, u) PROVE IdentityIInv'
  <2>1. [keys[k] EXCEPT !.upstream = u] \in Records
    BY <1>2, <1>6 DEF ReplaceUpstream, Records
  <2> QED BY <1>6, <2>1, ChangeStep DEF ReplaceUpstream
<1>7. ASSUME NEW t \in Expiries, Update(k, t) PROVE IdentityIInv'
  <2>1. [keys[k] EXCEPT !.expires = t] \in Records
    BY <1>1, <1>2, <1>7 DEF Update, Records
  <2> QED BY <1>7, <2>1, ChangeStep DEF Update
<1> QED BY <1>3, <1>4, <1>5, <1>6, <1>7

LEMMA IdentityNextIInv == IdentityIInv /\ [IdentityNext]_identityVars => IdentityIInv'
<1> SUFFICES ASSUME IdentityIInv, [IdentityNext]_identityVars PROVE IdentityIInv'
  OBVIOUS
<1>1. CASE UNCHANGED identityVars
  BY <1>1 DEF identityVars, IdentityIInv, IdentityTypeOK, HistoryOK, EmptyCacheEnds, TableEmpty,
     RequestOK, CountOK, AnonymousOK, PassedOK, RefusedOK, FindingOK, RecordOK, IsActive, Expired
<1>2. ASSUME Observe, NEW r \in Requests, Request(r) PROVE IdentityIInv'
  BY <1>2, ArriveStep, CountStep, StoreStep, FindStep, JudgeStep, ToIdle DEF Request
<1>3. ASSUME Observe, Tick PROVE IdentityIInv'
  <2>1. now' \in Times /\ now <= now'
    BY <1>3, RequestTypes, Durations DEF Tick, IdentityIInv, Times
  <2> QED BY <1>3, <2>1, Outside DEF Tick, IdentityIInv, IdentityTypeOK
<1> QED BY <1>1, <1>2, <1>3, AdministratorStep DEF IdentityNext

(* The invariant that the following rest on, at every moment.              *)
THEOREM IdentityInvariant == IdentitySpec => []IdentityIInv
BY IdentityInitIInv, IdentityNextIInv, PTL DEF IdentitySpec

(* A request passes without a key only if there was none at most a cache    *)
(* lifetime before it came, for every number of requests and keys that      *)
(* overtake one another (ApiKeyIdentityMiddleware, _api_key_count).         *)
THEOREM PassersWereKeyless == IdentitySpec => []AnonymousWasKeyless
<1>1. ASSUME IdentityIInv PROVE AnonymousWasKeyless
  <2> SUFFICES ASSUME NEW r \in Requests, req[r].at = "anonymous"
               PROVE  passthrough /\ emptyAt + Ttl >= req[r].start
    BY DEF AnonymousWasKeyless
  <2>1. RequestOK(r)
    BY <1>1 DEF IdentityIInv
  <2>2. passthrough
    BY <2>1 DEF RequestOK, PassedOK
  <2>3. req[r].start <= emptyAt + Ttl
    BY <2>1 DEF RequestOK, AnonymousOK
  <2>4. req[r].start \in Nat /\ emptyAt + Ttl \in Nat
    BY <1>1, RequestTypes, Durations DEF IdentityIInv, HistoryOK, RequestStates, Times
  <2> QED BY <2>2, <2>3, <2>4
<1> QED BY <1>1, IdentityInvariant, PTL

(* No request is refused unseen whose key was active a cache lifetime       *)
(* before it came and since (ApiKeyIdentityMiddleware).                     *)
THEOREM ActiveKeysPass == IdentitySpec => []ActiveKeyServed
<1>1. IdentityIInv => ActiveKeyServed
  BY DEF IdentityIInv, ActiveKeyServed, RequestOK, RefusedOK
<1> QED BY <1>1, IdentityInvariant, PTL

(* A request is identified as what its key stood for at some moment since   *)
(* it came (is_record_active, record_from_api_key).                         *)
THEOREM RecordsWereValid == IdentitySpec => []IdentifiedAsOfNow
<1>1. IdentityIInv => IdentifiedAsOfNow
  BY DEF IdentityIInv, IdentifiedAsOfNow, RequestOK, RecordOK
<1> QED BY <1>1, IdentityInvariant, PTL
=============================================================================
