----------------------------- MODULE Aggregation -----------------------------
(***************************************************************************)
(* The queries of src/src/finopsai/attribution/engine.py, as functions of   *)
(* the rows one statement sees. A row is a record with the fields source,   *)
(* owner (one text per dimension), model, at, amount and allocated.         *)
(*                                                                         *)
(* Every group carries at least one row, so an answer is a set of groups;   *)
(* the order in which they are listed is presentation.                      *)
(***************************************************************************)
EXTENDS Integers, FiniteSets, FiniteSetsExt

CONSTANTS
    Unattributed,   \* the team of spend nobody owns
    NoModel         \* a row whose model is NULL; its group is labelled "None"

OwnerDimensions == {"team", "project", "agent_id", "use_case"}

Groupable == OwnerDimensions \cup {"model"}

\* CostFilters(): an empty set of values does not narrow.
NoFilters == [parents |-> FALSE, only |-> [d \in OwnerDimensions \cup {"source"} |-> {}]]

FilterOn(dimension, values) == [NoFilters EXCEPT !.only[dimension] = values]

Value(row, d) ==
    CASE d = "model" -> row.model [] d = "source" -> row.source [] OTHER -> row.owner[d]

InPeriod(row, period) == period.start <= row.at /\ row.at < period.end

\* The WHERE clause every query shares.
Conditions(row, period, filters) ==
    /\ InPeriod(row, period)
    /\ filters.parents \/ ~row.allocated
    /\ \A d \in DOMAIN filters.only :
            filters.only[d] # {} => Value(row, d) \in filters.only[d]

Selected(rows, period, filters) == {r \in rows : Conditions(r, period, filters)}

SumOf(f) == MapThenSumSet(LAMBDA x : f[x], DOMAIN f)

Amount(rows) == SumOf([r \in rows |-> r.amount])

TotalSpend(rows, period, filters) == Amount(Selected(rows, period, filters))

KeyOf(row, groupBy) == [d \in groupBy |-> Value(row, d)]

KeysIn(rows, groupBy) == {KeyOf(r, groupBy) : r \in rows}

InGroup(rows, groupBy, k) == {r \in rows : KeyOf(r, groupBy) = k}

FromSource(rows, s) == {r \in rows : r.source = s}

SourcesIn(rows) == {r.source : r \in rows}

CostGroupLastSource(k, rows) ==   \* mutant: a total overwritten
    LET bySource == [s \in SourcesIn(rows) |-> Amount(FromSource(rows, s))]
    IN [key |-> k, total |-> bySource[CHOOSE s \in SourcesIn(rows) : TRUE], by_source |-> bySource,
        count |-> SumOf([s \in SourcesIn(rows) |-> Cardinality(FromSource(rows, s))])]

\* The rows of a key, one SQL row per source, folded in Python.
CostGroup(k, rows) ==
    LET bySource == [s \in SourcesIn(rows) |-> Amount(FromSource(rows, s))]
    IN [key |-> k, total |-> SumOf(bySource), by_source |-> bySource,
        count |-> SumOf([s \in SourcesIn(rows) |-> Cardinality(FromSource(rows, s))])]

\* Grouped by the dimensions and by source in SQL. group_by must name known
\* dimensions, at least one.
AggregateCosts(rows, groupBy, period, filters) ==
    LET hit == Selected(rows, period, filters)
    IN {CostGroup(k, InGroup(hit, groupBy, k)) : k \in KeysIn(hit, groupBy)}

KnownDimensions(groupBy) == groupBy # {} /\ groupBy \subseteq Groupable

\* A bucket starts at a multiple of its width.
Bucket(row, width) == row.at - (row.at % width)

InPointMixed(rows, groupBy, width, p) == {r \in rows : Bucket(r, width) = p[1]}   \* mutant

InPoint(rows, groupBy, width, p) ==
    {r \in rows : Bucket(r, width) = p[1] /\ KeyOf(r, groupBy) = p[2]}

\* One point per key per bucket.
AggregateTimeseries(rows, groupBy, period, width, filters) ==
    LET hit == Selected(rows, period, filters)
    IN {[bucket |-> p[1], key |-> p[2], amount |-> Amount(InPoint(hit, groupBy, width, p))]
        : p \in {<<Bucket(r, width), KeyOf(r, groupBy)>> : r \in hit}}

\* Spend nobody owns.
Unowned(rows, period) ==
    Selected(rows, period, FilterOn("team", {Unattributed}))

\* One line per value of a column.
Slices(rows, column) ==
    {[label |-> v, amount |-> Amount({r \in rows : Value(r, column) = v})]
     : v \in {Value(r, column) : r \in rows}}

TopSlicesOfAll(rows, column, period, limit) ==   \* mutant: owned spend is listed, too
    {top \in SUBSET Slices(Selected(rows, period, NoFilters), column) : Cardinality(top) <= limit}

\* What the unattributed report may list for a column: the largest groups, ties
\* at the limit broken either way.
TopSlices(rows, column, period, limit) ==
    LET slices == Slices(Unowned(rows, period), column)
        size == IF Cardinality(slices) < limit THEN Cardinality(slices) ELSE limit
    IN {top \in SUBSET slices :
            /\ Cardinality(top) = size
            /\ \A a \in top, b \in slices \ top : a.amount >= b.amount}
=============================================================================
