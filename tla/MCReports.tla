------------------------------ MODULE MCReports ------------------------------
(***************************************************************************)
(* A small instance of the report centre: the generation and the figures   *)
(* of reports.  A generation says nothing of the figures and the figures   *)
(* nothing of files, so a behaviour follows one of them, its subject,      *)
(* while the other rests.                                                  *)
(*                                                                         *)
(* For the generation, two formats and one row's worth of files.  For the  *)
(* figures, five weeks around the ends of February, in a leap year and     *)
(* not, and around turns of the year whose weeks belong to either ISO      *)
(* year, one of them the 53rd.                                             *)
(***************************************************************************)
EXTENDS Reports, ReportFigures, TLC

MCFormat == <<"csv">>
MCFormats == <<"pdf", "csv">>
MCIds == {1}
MCVersions == 1..3
MCInodes == 1..3
Symmetric == Permutations(Workers)

FirstStart == [year |-> 2024, month |-> 2, day |-> 26]
MCStarts == {FirstStart, [year |-> 2025, month |-> 2, day |-> 26],
             [year |-> 2024, month |-> 12, day |-> 28], [year |-> 2026, month |-> 12, day |-> 28]}
MCHits == {[action |-> "warned", level |-> "warn"]}

VARIABLE subject
all == <<subject, reportVars, figureVars>>

Init == /\ subject \in {"generation", "figures"} /\ ReportsInit /\ FiguresInit
        /\ subject = "generation" => today = FirstStart

OnReports(A) == subject = "generation" /\ A /\ UNCHANGED <<subject, figureVars>>

Next == \/ OnReports(ReportsNext)
        \/ subject = "figures" /\ FiguresNext /\ UNCHANGED <<subject, reportVars>>

(* A generation goes on, days pass, and every day one of the workers'      *)
(* schedulers runs the clean-up to its end.                                *)
Spec == /\ Init /\ [][Next]_all
        /\ \A w \in Workers : WF_all(OnReports(Generation(w)))
        /\ WF_all(OnReports(Cleanup)) /\ WF_all(OnReports(Tick))
=============================================================================
