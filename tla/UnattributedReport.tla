-------------------------- MODULE UnattributedReport --------------------------
(***************************************************************************)
(* unattributed_report of src/src/finopsai/attribution/engine.py, read over *)
(* the table that collectors and allocation passes keep changing: five      *)
(* statements in one request, each of which sees what is committed when it  *)
(* starts.                                                                  *)
(***************************************************************************)
EXTENDS Allocation

CONSTANTS
    TopN,               \* slices listed per column
    PassesWithReports   \* bound: passes that begin where reports are requested

VARIABLES
    statement,   \* the next statement of the request, done, or none: no requests
    report,      \* the answers so far
    owned,       \* history: owned spend when the first statement ran
    arrived,     \* history: unattributed spend committed between the first two
    quiet        \* history: nothing has been committed since the first

history == <<owned, arrived, quiet>>

allVars == <<ledger, phase, todo, pending, sent, begun, failures,
             statement, report, owned, arrived, quiet>>

NoReport == [total |-> 0, unattributed |-> 0, by_source |-> {}, models |-> {}, resources |-> {}]

ReportInit ==
    /\ Init
    /\ statement \in {"total", "none"}
    /\ report = NoReport
    /\ owned = 0
    /\ arrived = 0
    /\ quiet = TRUE

Read(from, to, field, value) ==
    /\ statement = from
    /\ statement' = to
    /\ report' = [report EXCEPT ![field] = value]

\* Spend that has an owner.
Owned(rows) == Selected(rows, Period, NoFilters) \ Unowned(rows, Period)

ReadTotal ==
    /\ Read("total", "unattributed", "total", TotalSpend(ledger, Period, NoFilters))
    /\ owned' = Amount(Owned(ledger))
    /\ UNCHANGED <<arrived, quiet>> /\ UNCHANGED vars

ReadUnattributed ==
    /\ Read("unattributed", "sources", "unattributed", Amount(Unowned(ledger, Period)))
    /\ UNCHANGED history /\ UNCHANGED vars

ReadBySource ==
    /\ Read("sources", "models", "by_source", Slices(Unowned(ledger, Period), "source"))
    /\ UNCHANGED history /\ UNCHANGED vars

ReadTop(from, to, field, column) ==
    /\ \E slices \in TopSlices(ledger, column, Period, TopN) : Read(from, to, field, slices)
    /\ UNCHANGED history /\ UNCHANGED vars

ReadModels == ReadTop("models", "resources", "models", "model")

ReadResources == ReadTop("resources", "done", "resources", "project")

\* The response is sent; the next request starts afresh.
Respond ==
    /\ statement = "done"
    /\ statement' = "total"
    /\ report' = NoReport
    /\ owned' = 0
    /\ arrived' = 0
    /\ quiet' = TRUE
    /\ UNCHANGED vars

Reading == statement \notin {"none", "total", "done"}

\* Somebody else's step; what it commits is noted while the report is read.
Others ==
    /\ Next
    /\ statement # "none" => begun' <= PassesWithReports
    /\ quiet' = (quiet /\ (Reading => ledger' = ledger))
    /\ arrived' = arrived +
        IF statement = "unattributed"
        THEN Amount({r \in Unowned(ledger', Period) \ Unowned(ledger, Period) : r.amount > 0})
        ELSE 0
    /\ UNCHANGED <<statement, report, owned>>

ReportNext ==
    ReadTotal \/ ReadUnattributed \/ ReadBySource \/ ReadModels \/ ReadResources
    \/ Respond \/ Others

ReportSpec == ReportInit /\ [][ReportNext]_allVars

\* UnattributedReport.attributed_usd
AttributedUsd == report.total - report.unattributed

\* "Fraction of spend with no owner, between 0 and 1" (engine.py, schemas.py).
\* The share is zero without any spend.
ShareIsFraction ==
    statement = "done" /\ report.total # 0 =>
        0 <= report.unattributed /\ report.unattributed <= report.total

NoCredits == \A r \in ledger : r.amount >= 0

\* If nothing is committed while the report is read, it is one picture: the
\* attributed part is what teams own, sources and slices add up to the rest, unless
\* the limit cuts them, and the share is a fraction, credits apart. If something is,
\* then the attributed part is short of what teams owned when the report began by no
\* more than the unattributed spend that arrived between the two totals, whatever
\* else is ingested, split or rolled back; that it can be short at all is what
\* ShareIsFraction denies.
ReportConsistent ==
    statement = "done" =>
        /\ AttributedUsd >= owned - arrived
        /\ quiet =>
            /\ AttributedUsd = owned
            /\ NoCredits => ShareIsFraction
            /\ Amount(report.by_source) = report.unattributed
            /\ \A column \in {report.models, report.resources} :
                Cardinality(column) < TopN => Amount(column) = report.unattributed
=============================================================================
