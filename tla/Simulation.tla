----------------------------- MODULE Simulation -----------------------------
(***************************************************************************)
(* The hours a mock collector reports: src/src/finopsai/demo/simulation.py  *)
(* and collect of collectors/compute.py and collectors/vectordb.py. What an *)
(* hour costs is drawn from a generator seeded by the hour, so a record is  *)
(* its profile and its hour. Times count in parts of an hour.               *)
(***************************************************************************)
EXTENDS Integers

CONSTANTS
    Hour,              \* parts of an hour
    BackfillParts,     \* backfill_days, in the same unit
    MaxBuckets,        \* MAX_BUCKETS_PER_CYCLE
    NoMark             \* no watermark stored

ASSUME SimulationAssumption ==
    /\ Hour \in Nat \ {0}
    /\ BackfillParts \in Nat
    /\ MaxBuckets \in Nat \ {0}
    /\ NoMark \notin Int

FloorHour(moment) == moment - (moment % Hour)

HourlyBucketsInclusive(since, until) ==    \* mutant: the hour under way is reported, too
    {b \in FloorHour(since)..FloorHour(until) : b % Hour = 0}

\* Every whole hour of since..until, the hour of until excluded.
HourlyBuckets(since, until) ==
    {b \in FloorHour(since)..FloorHour(until) - 1 : b % Hour = 0}

\* Where a cycle starts: at the watermark, or a fixed span before now.
Since(mark, now) == IF mark = NoMark THEN now - BackfillParts ELSE mark

CollectedHoursOneLess(mark, now) ==   \* mutant: the limit is one bucket early
    {b \in HourlyBuckets(Since(mark, now), now) :
        b - FloorHour(Since(mark, now)) < (MaxBuckets - 1) * Hour}

CollectedHoursAll(mark, now) ==       \* mutant: no limit to a cycle
    HourlyBuckets(Since(mark, now), now)

\* A cycle stops at the bucket whose index is the limit.
CollectedHours(mark, now) ==
    {b \in HourlyBuckets(Since(mark, now), now) :
        b - FloorHour(Since(mark, now)) < MaxBuckets * Hour}

\* One record for every profile and hour; the dedup key names both.
BuildRecords(profiles, hours) == profiles \X hours

\* The newest hour generated; None leaves the stored watermark as it is.
NextWatermark(hours, mark) ==
    IF hours = {} THEN mark ELSE CHOOSE b \in hours : \A other \in hours : other <= b
=============================================================================
