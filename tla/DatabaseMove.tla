---------------------------- MODULE DatabaseMove ----------------------------
(***************************************************************************)
(* The move from SQLite to PostgreSQL: scripts/migrate_sqlite_to_postgres  *)
(* copies table after table in batches, a transaction each, and then sets, *)
(* table after table, the sequences that number new rows;                  *)
(* scripts/verify_postgres_migration compares the numbers of rows of some  *)
(* tables.  A copy may die anywhere and be run again, with or without      *)
(* clearing the target, and the service may still write to the source, or  *)
(* already to the target.  The tables are those whose rows the database    *)
(* numbers; the others are copied like them and have no sequence.          *)
(***************************************************************************)
EXTENDS Naturals, Sequences, FiniteSets, FiniteSetsExt

CONSTANTS
    Tables,      \* in the order in which they are copied
    Compared,    \* the places of those that the comparison names
    Stock,       \* the rows that a table of the source may have to begin with
    BatchSize,
    MaxRow,      \* bound: ids of rows
    MaxRuns,     \* bound: runs of the copy
    MaxWrites    \* bound: writes of the service

ASSUME TablesAssumption == Tables \in Seq(STRING) /\ Tables # <<>>
ASSUME ComparedAssumption == Compared \subseteq DOMAIN Tables
ASSUME StockAssumption == Stock \subseteq SUBSET (1..MaxRow)
ASSUME MoveAssumption == BatchSize \in Nat \ {0} /\ {MaxRow, MaxRuns, MaxWrites} \subseteq Nat

VARIABLES
    source, target,   \* the ids in each table
    sequence,         \* the id each target table gives next
    stage,            \* where the copy is
    place, offset,    \* the table and the row it is at
    batch,            \* the rows it has read
    highest,          \* the greatest id it has read to set a sequence by
    behind,           \* history: tables written between that reading and that setting
    ended,            \* history: a copy has run to its end, and none begun since
    quiet,            \* history: nothing else was written since the target was empty
    checked,          \* what the last comparison found, if nothing has changed since
    runs, writes

moveVars == <<source, target, sequence, stage, place, offset, batch, highest, behind, ended,
              quiet, checked, runs, writes>>

Positions == DOMAIN Tables

MoveInit == /\ source \in [Positions -> Stock]
            /\ target = [p \in Positions |-> {}] /\ sequence = [p \in Positions |-> 1]
            /\ stage = "idle" /\ place = 1 /\ offset = 0 /\ batch = {}
            /\ highest = 0 /\ behind = {}
            /\ ended = FALSE /\ quiet = TRUE /\ checked = "no" /\ runs = 0 /\ writes = 0

-----------------------------------------------------------------------------
BeginMove(replace) ==
    /\ stage = "idle" /\ runs < MaxRuns
    /\ stage' = IF replace THEN "clear" ELSE "fetch"
    /\ place' = 1 /\ offset' = 0 /\ ended' = FALSE /\ checked' = "no" /\ runs' = runs + 1
    /\ UNCHANGED <<source, target, sequence, batch, highest, behind, quiet, writes>>

(* clear_target_tables, in one transaction                                 *)
ClearTarget == /\ stage = "clear"
               /\ target' = [p \in Positions |-> {}]
               /\ quiet' = TRUE /\ stage' = "fetch"
               /\ UNCHANGED <<source, sequence, place, offset, batch, highest, behind, ended, checked,
                              runs, writes>>

(* SQLite's next id, and where setval starts a sequence.                   *)
NextRow(S) == IF S = {} THEN 1 ELSE Max(S) + 1

Rank(S, i) == Cardinality({j \in S : j <= i})
RowsFrom(S, n) == {i \in S : n < Rank(S, i) /\ Rank(S, i) <= n + BatchSize}

(* migrate_table reads the rows behind the offset, until there are none.   *)
FetchOn ==                                                         \* a mutant
    /\ stage = "fetch"
    /\ LET rows == RowsFrom(source[place], offset) IN
       IF rows # {} THEN batch' = rows /\ stage' = "insert" /\ UNCHANGED place
       ELSE /\ UNCHANGED batch
            /\ IF place = Len(Tables) THEN stage' = "max" /\ place' = 1
               ELSE place' = place + 1 /\ UNCHANGED stage
    /\ UNCHANGED <<source, target, sequence, offset, highest, behind, ended, quiet, checked,
                   runs, writes>>
FetchRows ==
    /\ stage = "fetch"
    /\ LET rows == RowsFrom(source[place], offset) IN
       IF rows # {} THEN /\ batch' = rows /\ stage' = "insert"
                         /\ UNCHANGED <<place, offset>>
       ELSE /\ UNCHANGED batch
            /\ IF place = Len(Tables) THEN stage' = "max" /\ place' = 1 /\ UNCHANGED offset
               ELSE place' = place + 1 /\ offset' = 0 /\ UNCHANGED stage
    /\ UNCHANGED <<source, target, sequence, highest, behind, ended, quiet, checked, runs, writes>>

(* insert_rows: all of the batch, if the target has none of it.            *)
InsertRows == /\ stage = "insert" /\ batch \cap target[place] = {}
              /\ target' = [target EXCEPT ![place] = @ \cup batch]
              /\ offset' = offset + Cardinality(batch)
              /\ batch' = {} /\ stage' = "fetch"
              /\ UNCHANGED <<source, sequence, place, highest, behind, ended, quiet, checked,
                             runs, writes>>

(* A row that the target has, another error, or the end of the process.    *)
MoveStops == /\ stage # "idle" /\ stage' = "idle" /\ batch' = {}
             /\ UNCHANGED <<source, target, sequence, place, offset, highest, behind, ended, quiet,
                            checked, runs, writes>>

(* refresh_postgres_sequences goes from table to table, reads the greatest *)
(* id, if there is one, and sets the sequence by it at once; what it has   *)
(* set stays so when its transaction fails.                                *)
NextTable == IF place = Len(Tables) THEN stage' = "idle" /\ ended' = TRUE /\ UNCHANGED place
             ELSE stage' = "max" /\ place' = place + 1 /\ UNCHANGED ended

ReadHighest ==
    /\ stage = "max"
    /\ IF target[place] = {} THEN NextTable /\ UNCHANGED highest
       ELSE stage' = "set" /\ highest' = Max(target[place]) /\ UNCHANGED <<place, ended>>
    /\ behind' = behind \ {place}
    /\ UNCHANGED <<source, target, sequence, offset, batch, quiet, checked, runs, writes>>

SetUncalled ==                                                     \* a mutant
    /\ stage = "set"
    /\ sequence' = [sequence EXCEPT ![place] = highest]
    /\ NextTable
    /\ UNCHANGED <<source, target, offset, batch, highest, behind, quiet, checked, runs, writes>>
SetSequence ==
    /\ stage = "set"
    /\ sequence' = [sequence EXCEPT ![place] = highest + 1]
    /\ NextTable
    /\ UNCHANGED <<source, target, offset, batch, highest, behind, quiet, checked, runs, writes>>

(* read_sqlite_counts, read_postgres_counts: of the tables it is given, by *)
(* default seven of the twelve (DEFAULT_TABLES).                           *)
Mismatch == \E p \in Compared : Cardinality(source[p]) # Cardinality(target[p])
Verify == /\ stage = "idle"
          /\ checked' = IF Mismatch THEN "mismatch" ELSE "ok"
          /\ UNCHANGED <<source, target, sequence, stage, place, offset, batch, highest, behind,
                         ended, quiet, runs, writes>>

-----------------------------------------------------------------------------
(* The service.  A write to the source while it is copied, or after, and   *)
(* one to the target, are none that the copy could know of.                *)
Written == /\ writes < MaxWrites /\ writes' = writes + 1 /\ checked' = "no"
           /\ UNCHANGED <<stage, place, offset, batch, highest, ended, runs>>

WriteSource == \E p \in Positions :
    /\ Written
    /\ \/ \E i \in source[p] : source' = [source EXCEPT ![p] = @ \ {i}]
       \/ /\ NextRow(source[p]) <= MaxRow
          /\ source' = [source EXCEPT ![p] = @ \cup {NextRow(source[p])}]
    /\ quiet' = (stage = "idle" /\ ~ended /\ \A q \in Positions : target[q] = {})
    /\ UNCHANGED <<target, sequence, behind>>

WriteTarget == \E p \in Positions :
    /\ Written /\ sequence[p] <= MaxRow
    /\ sequence' = [sequence EXCEPT ![p] = @ + 1]
    /\ target' = [target EXCEPT ![p] = @ \cup {sequence[p]}]
    /\ quiet' = FALSE
    /\ behind' = IF stage = "set" /\ p = place THEN behind \cup {p} ELSE behind
    /\ UNCHANGED source

MoveNext == \/ \E replace \in BOOLEAN : BeginMove(replace)
            \/ ClearTarget \/ FetchRows \/ InsertRows \/ MoveStops
            \/ ReadHighest \/ SetSequence \/ Verify \/ WriteSource \/ WriteTarget

-----------------------------------------------------------------------------
MoveTypeOK == /\ source \in [Positions -> SUBSET (1..MaxRow)]
              /\ target \in [Positions -> SUBSET (1..MaxRow)]
              /\ sequence \in [Positions -> 1..(MaxRow + 1)]
              /\ stage \in {"idle", "clear", "fetch", "insert", "max", "set"}
              /\ place \in Positions /\ offset \in 0..MaxRow /\ batch \subseteq 1..MaxRow
              /\ highest \in 0..MaxRow /\ behind \subseteq Positions
              /\ ended \in BOOLEAN /\ quiet \in BOOLEAN /\ checked \in {"no", "ok", "mismatch"}

(* A copy that ends has every row of every table, also after any number of *)
(* copies that died and were run again, as long as nobody else has written *)
(* meanwhile; and so has, in the tables it names, a target whose numbers   *)
(* of rows the comparison finds to agree.  From the end of a copy on, also *)
(* when both databases were written to, the service finds a free id in     *)
(* every table that it did not write while the copy was about to set the   *)
(* table's sequence.                                                       *)
EndedMoveIsWhole ==
    /\ quiet /\ ended => target = source
    /\ quiet /\ checked = "ok" => \A p \in Compared : target[p] = source[p]
    /\ ended => \A p \in Positions \ behind : \A i \in target[p] : i < sequence[p]

(* The comparison "verifies SafetyHub SQLite to PostgreSQL migration", as   *)
(* its description says: if it finds nothing amiss, nothing is missing.    *)
AgreementIsWhole == quiet /\ checked = "ok" => target = source
=============================================================================
