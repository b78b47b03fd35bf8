--------------------------- MODULE ReportFigures ---------------------------
(***************************************************************************)
(* What reports are about: the periods of the daily, weekly and monthly    *)
(* reports, the labels that name them, and the audits they count           *)
(* (storage/reports.py), as the scheduler has them generated day after day *)
(* (runtime/reports.py).                                                   *)
(*                                                                         *)
(* Days are numbered in the time zone of the reports, from 1 January 2020; *)
(* a day has Slots slots, each a bucket of the daily trend.                *)
(***************************************************************************)
EXTENDS Integers, Sequences, FiniteSets, FiniteSetsExt

CONSTANTS
    Starts,      \* dates on which the scheduler may be started
    Span,        \* bound: days it runs
    Slots,       \* slots of a day
    Hits,        \* what an audit can say: action taken, and level of the rule
    MaxAudits,   \* bound: audits written meanwhile
    NoReport

Months == 1..12
Types == {"daily", "weekly", "monthly"}

ASSUME StartsAssumption == Starts \subseteq [year : 2020..2098, month : Months, day : 1..28]
ASSUME HitsAssumption == Hits \subseteq [action : {"blocked", "warned", "desensitized"},
                                         level : {"block", "warn", "desensitize"}]
ASSUME FigureBoundsAssumption == Span \in Nat /\ Slots \in Nat \ {0} /\ MaxAudits \in Nat
ASSUME NoReportAssumption == NoReport \notin Int

VARIABLES
    today,       \* the date
    day,         \* its number
    slot,        \* the slot of the day
    limit,       \* the last day of the run
    due,         \* reports the scheduler has yet to generate today
    log,         \* audit_logs
    last,        \* the figures of the last report due of each type, or NoReport
    counted,     \* history: events in all scheduled reports of a type
    lost,        \* history: events of the periods whose report was not generated
    since,       \* history: where the first of a type's periods began, or NoReport
    until        \* history: where the last of them ended, or NoReport

histories == <<counted, lost, since, until>>
figureVars == <<today, day, slot, limit, due, log, last, histories>>

-----------------------------------------------------------------------------
(* The calendar.                                                           *)
IsLeap(y) == y % 4 = 0
DaysBefore == <<0, 31, 59, 90, 120, 151, 181, 212, 243, 273, 304, 334>>
Number(y, m, d) == 365 * (y - 2020) + (y - 2017) \div 4 + DaysBefore[m]
                     + (IF IsLeap(y) /\ m > 2 THEN 1 ELSE 0) + d - 1
ASSUME CalendarAssumption ==           \* 2100 is no leap year
    \A s \in Starts : Number(s.year, s.month, s.day) + Span < Number(2100, 1, 1)
Weekday(n) == (n + 2) % 7
YearOf(n) == CHOOSE y \in 2019..2100 : Number(y, 1, 1) <= n /\ n < Number(y + 1, 1, 1)
MonthLength(y, m) == IF m = 12 THEN 31 ELSE Number(y, m + 1, 1) - Number(y, m, 1)

Tomorrow == IF today.day < MonthLength(today.year, today.month)
            THEN [today EXCEPT !.day = @ + 1]
            ELSE [year |-> IF today.month = 12 THEN today.year + 1 ELSE today.year,
                  month |-> IF today.month = 12 THEN 1 ELSE today.month + 1, day |-> 1]

(* An ISO year begins with the week of 4 January, and a week belongs to    *)
(* the year of its Thursday.                                               *)
FirstMonday(y) == Number(y, 1, 4) - Weekday(Number(y, 1, 4))
IsoYear(monday) == YearOf(monday + 3)
IsoWeek(monday) == (monday - FirstMonday(IsoYear(monday))) \div 7 + 1

-----------------------------------------------------------------------------
(* period_for: the last complete day, week or month before a date; a       *)
(* period is from start to end, end not included.                          *)
Daily == [type |-> "daily", start |-> day - 1, end |-> day, label |-> <<day - 1>>]

WeeklyOfYear == LET monday == day - (Weekday(day) + 7) IN          \* a mutant
    [type |-> "weekly", start |-> monday, end |-> monday + 7,
     label |-> <<YearOf(monday), IsoWeek(monday)>>]
Weekly == LET monday == day - (Weekday(day) + 7) IN
    [type |-> "weekly", start |-> monday, end |-> monday + 7,
     label |-> <<IsoYear(monday), IsoWeek(monday)>>]

MonthlyThirty ==                                                   \* a mutant
    LET year == IF today.month > 1 THEN today.year ELSE today.year - 1
        month == IF today.month > 1 THEN today.month - 1 ELSE 12 IN
    [type |-> "monthly", start |-> Number(year, month, 1), end |-> Number(year, month, 1) + 30,
     label |-> <<year, month>>]
Monthly == LET year == IF today.month > 1 THEN today.year ELSE today.year - 1
               month == IF today.month > 1 THEN today.month - 1 ELSE 12 IN
    [type |-> "monthly", start |-> Number(year, month, 1), end |-> day - (today.day - 1),
     label |-> <<year, month>>]

PeriodFor(type) == CASE type = "daily" -> Daily [] type = "weekly" -> Weekly
                     [] type = "monthly" -> Monthly

(* period_from_values: the period an administrator asks for by its label.  *)
PeriodFromValues(type, label) ==
    CASE type = "daily" ->
           [type |-> type, start |-> label[1], end |-> label[1] + 1, label |-> label]
      [] type = "weekly" ->
           LET monday == FirstMonday(label[1]) + 7 * (label[2] - 1) IN
           [type |-> type, start |-> monday, end |-> monday + 7, label |-> label]
      [] type = "monthly" ->
           LET december == label[2] = 12 IN
           [type |-> type, start |-> Number(label[1], label[2], 1), label |-> label,
            end |-> Number(label[1] + (IF december THEN 1 ELSE 0),
                           IF december THEN 1 ELSE label[2] + 1, 1)]

-----------------------------------------------------------------------------
(* build_data: what a report says of the audits of its period.             *)
WithinClosed(p, at) == p.start * Slots <= at /\ at <= p.end * Slots   \* a mutant
Within(p, at) == p.start * Slots <= at /\ at < p.end * Slots
AuditsOf(p) == {i \in DOMAIN log : Within(p, log[i].at)}
WithAction(p, action) == Cardinality({i \in AuditsOf(p) : log[i].action = action})

(* _build_trend: the audits by bucket of the period.                       *)
Bucket(p, at) == CASE p.type = "daily"   -> <<at % Slots>>
                   [] p.type = "weekly"  -> <<at \div Slots, (at % Slots) \div 2>>
                   [] p.type = "monthly" -> <<at \div Slots>>
Trend(p) == [b \in {Bucket(p, log[i].at) : i \in AuditsOf(p)} |->
               Cardinality({i \in AuditsOf(p) : Bucket(p, log[i].at) = b})]

(* _high_risk_rows: blocked requests, and hits of a blocking rule.         *)
HighRisk(p) == {i \in AuditsOf(p) : log[i].level = "block" \/ log[i].action = "blocked"}

Figures(p) == [period |-> p, events |-> Cardinality(AuditsOf(p)),
               blocked |-> WithAction(p, "blocked"), warn |-> WithAction(p, "warn"),
               desensitized |-> WithAction(p, "desensitized"),
               trend |-> Trend(p), highRisk |-> HighRisk(p)]

-----------------------------------------------------------------------------
FiguresInit == /\ today \in Starts
               /\ day = Number(today.year, today.month, today.day)
               /\ slot = 0 /\ limit = day + Span
               /\ due = {} /\ log = <<>>
               /\ last = [t \in Types |-> NoReport]
               /\ counted = [t \in Types |-> 0] /\ lost = [t \in Types |-> 0]
               /\ since = [t \in Types |-> NoReport] /\ until = [t \in Types |-> NoReport]

(* The relay writes an audit of a request, with the time of its writing.   *)
WriteAudit(hit) ==
    /\ Len(log) < MaxAudits
    /\ log' = Append(log, [at |-> day * Slots + slot, action |-> hit.action, level |-> hit.level])
    /\ UNCHANGED <<today, day, slot, limit, due, last, histories>>

NextSlot == /\ slot < Slots - 1
            /\ slot' = slot + 1
            /\ UNCHANGED <<today, day, limit, due, log, last, histories>>

(* Midnight: the daily report is due, and the others on their days.  The   *)
(* reports of the day before have been generated by then or never will be. *)
NextDay == /\ slot = Slots - 1 /\ due = {} /\ day < limit
           /\ slot' = 0 /\ day' = day + 1 /\ today' = Tomorrow
           /\ due' = {"daily"} \cup (IF Weekday(day + 1) = 0 THEN {"weekly"} ELSE {})
                       \cup (IF Tomorrow.day = 1 THEN {"monthly"} ELSE {})
           /\ UNCHANGED <<limit, log, last, histories>>

(* Whatever becomes of a report that is due, its period is over.           *)
PeriodEnds(t, p) == /\ t \in due
                    /\ due' = due \ {t}
                    /\ since' = [since EXCEPT ![t] = IF @ = NoReport THEN p.start ELSE @]
                    /\ until' = [until EXCEPT ![t] = p.end]
                    /\ UNCHANGED <<today, day, slot, limit, log>>

(* generate_scheduled, in the worker that comes first.  The others find    *)
(* the period locked or generate the same report again.                    *)
Generate(t) == LET p == PeriodFor(t)
                   figures == Figures(p) IN
               /\ PeriodEnds(t, p)
               /\ last' = [last EXCEPT ![t] = figures]
               /\ counted' = [counted EXCEPT ![t] = @ + figures.events]
               /\ UNCHANGED lost

(* The generation fails, with an alert or without, or no worker is there   *)
(* at its time: the scheduler does not come back to it.                    *)
Miss(t) == LET p == PeriodFor(t) IN
           /\ PeriodEnds(t, p)
           /\ last' = [last EXCEPT ![t] = NoReport]
           /\ lost' = [lost EXCEPT ![t] = @ + Cardinality(AuditsOf(p))]
           /\ UNCHANGED counted

FiguresNext == \/ \E hit \in Hits : WriteAudit(hit)
               \/ NextSlot \/ NextDay \/ \E t \in Types : Generate(t) \/ Miss(t)

-----------------------------------------------------------------------------
(* The label of a scheduled report names the same period when an            *)
(* administrator has it generated again, also for the weeks and months at   *)
(* the turn of a year.                                                      *)
LabelsParse == \A t \in Types : last[t] # NoReport =>
    PeriodFromValues(t, last[t].period.label) = last[t].period

(* No audit is an event of two reports of a type, and one of no report is   *)
(* of a period whose report was not generated at its time: the periods of a *)
(* type follow one another without a gap and without overlap, although      *)
(* audits are written meanwhile.  In a report, each of its events is in     *)
(* exactly one bucket of the trend; and its label leads back to its period. *)
CountedOnce == LabelsParse /\ \A t \in Types :
    /\ since[t] # NoReport =>
          counted[t] + lost[t] = Cardinality({i \in DOMAIN log :
                                   Within([start |-> since[t], end |-> until[t]], log[i].at)})
    /\ last[t] # NoReport =>
          MapThenSumSet(LAMBDA b : last[t].trend[b], DOMAIN last[t].trend) = last[t].events

(* The warnings a report counts are the requests that were let through with *)
(* a warning.                                                               *)
WarningsCounted == \A t \in Types : last[t] # NoReport =>
    last[t].warn = WithAction(last[t].period, "warned")
=============================================================================
