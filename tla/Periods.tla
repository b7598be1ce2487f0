------------------------------- MODULE Periods -------------------------------
(***************************************************************************)
(* Relative windows and the month's projection: src/src/finopsai/           *)
(* attribution/periods.py and forecast.py. A period is a size and a unit;   *)
(* instants are integers, months a set of first instants. Rates are         *)
(* compared as fractions: the code's last decimal places are left out.      *)
(***************************************************************************)
EXTENDS Integers, FiniteSets, FiniteSetsExt

CONSTANTS
    UnitLength,      \* the length of a unit of a period: [{"h", "d", "w"} -> Nat]
    MaxUnits,        \* MAX_UNITS
    MonthStarts,     \* first instants of months
    MinElapsed,      \* MIN_ELAPSED
    LowConfidence, MediumConfidence,   \* elapsed time below which it is low, medium
    None

ASSUME PeriodsAssumption ==
    /\ \A unit \in DOMAIN UnitLength : UnitLength[unit] \in Nat \ {0}
    /\ MinElapsed \in Nat \ {0}
    /\ MonthStarts \subseteq Int

\* The pattern admits digits and one unit; the size is checked after it.
ValidPeriod(period) ==
    period.unit \in DOMAIN UnitLength /\ period.size > 0 /\ period.size <= MaxUnits

ParsePeriod(period) == period.size * UnitLength[period.unit]

ResolvePeriodOverlapping(period, now) ==   \* mutant: the window before ends now, too
    LET duration == ParsePeriod(period)
        current == [start |-> now - duration, end |-> now]
    IN [current |-> current,
        previous |-> [start |-> current.start - duration, end |-> now]]

\* The window that ends now, and the one of the same length before it.
ResolvePeriod(period, now) ==
    LET duration == ParsePeriod(period)
        current == [start |-> now - duration, end |-> now]
    IN [current |-> current,
        previous |-> [start |-> current.start - duration, end |-> current.start]]

\* Whether a change has a percentage: growth from nothing has none.
HasChange(previous) == previous # 0

MonthBounds(moment) ==
    [start |-> Max({m \in MonthStarts : m <= moment}),
     end |-> Min({m \in MonthStarts : m > moment})]

Confidence(elapsed) ==
    IF elapsed < LowConfidence THEN "low"
    ELSE IF elapsed < MediumConfidence THEN "medium" ELSE "high"

BreachDateFromNothing(asOf, end, spend, elapsed, limit) ==   \* mutant: spend so far left out
    IF limit = None \/ limit <= 0 THEN None
    ELSE IF spend >= limit THEN asOf
    ELSE IF spend <= 0 THEN None
    ELSE IF limit * elapsed < (end - asOf) * spend
         THEN asOf + (limit * elapsed) \div spend
    ELSE None

\* The instant the limit is reached at this rate, if before the period's end.
BreachDate(asOf, end, spend, elapsed, limit) ==
    IF limit = None \/ limit <= 0 THEN None
    ELSE IF spend >= limit THEN asOf
    ELSE IF spend <= 0 THEN None
    ELSE IF (limit - spend) * elapsed < (end - asOf) * spend
         THEN asOf + ((limit - spend) * elapsed) \div spend
    ELSE None

\* The projection is the fraction spend * total / elapsed.
BuildForecast(spend, asOf, month, limit) ==
    LET elapsed == IF asOf - month.start > MinElapsed THEN asOf - month.start ELSE MinElapsed
        total == month.end - month.start
    IN [spend |-> spend, as_of |-> asOf, month |-> month, limit |-> limit,
        projected |-> [num |-> spend * total, den |-> elapsed],
        confidence |-> Confidence(elapsed),
        breach_date |-> BreachDate(asOf, month.end, spend, elapsed, limit)]

----------------------------------------------------------------------------
(* What must hold.                                                          *)

\* The projection and the breach date tell one story: whoever is projected past
\* the limit gets a date between now and the end of the month, and a date means
\* that the limit is passed or projected to be, except while the run rate is
\* floored in the first moments of a month.
OneStory(f) ==
    LET over == f.projected.num > f.limit * f.projected.den
    IN f.limit # None =>
        /\ over => f.breach_date # None
        /\ f.breach_date # None =>
            /\ f.as_of <= f.breach_date /\ f.breach_date < f.month.end
            /\ over \/ f.spend >= f.limit \/ f.as_of - f.month.start < MinElapsed
=============================================================================
