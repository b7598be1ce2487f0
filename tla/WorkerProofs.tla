----------------------------- MODULE WorkerProofs -----------------------------
(***************************************************************************)
(* Theorems about Worker for any collectors, any backfill, any limit of     *)
(* buckets per cycle and any number of failures and crashes.                *)
(***************************************************************************)
EXTENDS Worker, TLAPS

IsHour(b) == b % Hour = 0

\* The whole hours of an interval.
HoursOf(lo, hi) == {b \in lo..hi : IsHour(b)}

----------------------------------------------------------------------------
(* Whole hours.                                                             *)

\* Multiples of an hour are whole hours.
LEMMA HourMultiple ==
    ASSUME NEW k \in Int
    PROVE  Hour * k \in Int /\ IsHour(Hour * k)
BY SimulationAssumption DEF SimulationAssumption, IsHour

\* And there are no others.
LEMMA HourQuotient ==
    ASSUME NEW b \in Int, IsHour(b)
    PROVE  \E k \in Int : b = Hour * k
<1>1. b = Hour * (b \div Hour) + (b % Hour) /\ b \div Hour \in Int
  BY SimulationAssumption DEF SimulationAssumption
<1>2. b = Hour * (b \div Hour)
  <2>1. b % Hour = 0 /\ Hour \in Int
    BY SimulationAssumption DEF IsHour, SimulationAssumption
  <2> QED
    BY <1>1, <2>1
<1> QED
  BY <1>1, <1>2

\* The hour of an instant is the last whole hour up to it.
LEMMA FloorHourFact ==
    ASSUME NEW x \in Int
    PROVE  /\ FloorHour(x) \in Int /\ IsHour(FloorHour(x))
           /\ FloorHour(x) <= x /\ x < FloorHour(x) + Hour
<1>1. /\ x = Hour * (x \div Hour) + (x % Hour) /\ x \div Hour \in Int
      /\ x % Hour \in 0..Hour - 1
  BY SimulationAssumption DEF SimulationAssumption
<1>2. FloorHour(x) = Hour * (x \div Hour)
  BY <1>1, SimulationAssumption DEF FloorHour, SimulationAssumption
<1>3. FloorHour(x) \in Int /\ IsHour(FloorHour(x))
  BY <1>1, <1>2, HourMultiple
<1>4. FloorHour(x) <= x /\ x < FloorHour(x) + Hour
  BY <1>1, SimulationAssumption DEF FloorHour, SimulationAssumption
<1> QED
  BY <1>3, <1>4

\* Two different hours are an hour apart at least.
LEMMA HoursApart ==
    ASSUME NEW a \in Int, NEW b \in Int, IsHour(a), IsHour(b), a < b
    PROVE  a + Hour <= b
<1>1. PICK j \in Int : a = Hour * j
  BY HourQuotient
<1>2. PICK k \in Int : b = Hour * k
  BY HourQuotient
<1>3. Hour \in Int /\ Hour > 0
  BY SimulationAssumption DEF SimulationAssumption
<1>4. j < k
  <2>1. k <= j => Hour * k <= Hour * j
    BY <1>3
  <2> QED
    BY <1>1, <1>2, <2>1
<1>5. Hour * (j + 1) <= Hour * k
  BY <1>3, <1>4
<1>6. Hour * (j + 1) = Hour * j + Hour
  BY <1>3
<1> QED
  BY <1>1, <1>2, <1>5, <1>6

\* A whole hour is its own floor.
LEMMA FloorOfHour ==
    ASSUME NEW b \in Int, IsHour(b)
    PROVE  FloorHour(b) = b
BY SimulationAssumption DEF FloorHour, IsHour, SimulationAssumption

\* Whole hours lie an hour apart.
LEMMA NextHour ==
    ASSUME NEW b \in Int, IsHour(b), NEW n \in Int
    PROVE  b + n * Hour \in Int /\ IsHour(b + n * Hour)
<1>1. PICK k \in Int : b = Hour * k
  BY HourQuotient
<1>2. b + n * Hour = Hour * (k + n)
  BY <1>1, SimulationAssumption DEF SimulationAssumption
<1> QED
  BY <1>2, HourMultiple

\* What a cycle generates is an unbroken run of completed hours that begins with
\* the hour of the instant it starts from and is no longer than its limit.
LEMMA CollectedRun ==
    ASSUME NEW m \in Int \cup {NoMark}, NEW t \in Int, CollectedHours(m, t) # {}
    PROVE  LET lo == FloorHour(Since(m, t))
           IN \E hi \in Int :
                /\ lo \in Int /\ IsHour(lo) /\ IsHour(hi) /\ lo <= hi /\ hi + Hour <= t
                /\ CollectedHours(m, t) = HoursOf(lo, hi)
                /\ hi - lo < MaxBuckets * Hour
<1> DEFINE since == Since(m, t)
           lo == FloorHour(since)
           last == FloorHour(t) + (-1) * Hour
           cut == lo + (MaxBuckets - 1) * Hour
           hi == IF last <= cut THEN last ELSE cut
<1>1. Hour \in Nat /\ Hour > 0 /\ MaxBuckets \in Nat /\ MaxBuckets > 0 /\ since \in Int
  BY SimulationAssumption DEF SimulationAssumption, Since
<1>2. lo \in Int /\ IsHour(lo)
  BY <1>1, FloorHourFact
<1>3. last \in Int /\ IsHour(last) /\ last = FloorHour(t) - Hour /\ last + Hour <= t
  <2>1. FloorHour(t) \in Int /\ IsHour(FloorHour(t)) /\ FloorHour(t) <= t
    BY FloorHourFact
  <2> QED
    BY <1>1, <2>1, NextHour
<1>4. cut \in Int /\ IsHour(cut)
  <2>1. MaxBuckets - 1 \in Int
    BY <1>1
  <2> HIDE DEF lo
  <2> QED
    BY <1>2, <2>1, NextHour DEF cut
<1> HIDE DEF since, lo, last, cut
<1>5. hi \in Int /\ IsHour(hi) /\ hi + Hour <= t
  BY <1>1, <1>3, <1>4
<1>6. \A b \in Int : IsHour(b) => (b <= FloorHour(t) - 1 <=> b <= last)
  <2> SUFFICES ASSUME NEW b \in Int, IsHour(b)
               PROVE  b <= FloorHour(t) - 1 <=> b <= last
    OBVIOUS
  <2>1. FloorHour(t) \in Int /\ IsHour(FloorHour(t))
    BY FloorHourFact
  <2>2. b < FloorHour(t) => b + Hour <= FloorHour(t)
    BY <2>1, HoursApart
  <2> QED
    BY <1>1, <1>3, <2>1, <2>2
<1>7. \A b \in Int : IsHour(b) => (b - lo < MaxBuckets * Hour <=> b <= cut)
  <2> SUFFICES ASSUME NEW b \in Int, IsHour(b)
               PROVE  b - lo < MaxBuckets * Hour <=> b <= cut
    OBVIOUS
  <2> DEFINE over == lo + MaxBuckets * Hour
  <2>1. over \in Int /\ IsHour(over)
    BY <1>1, <1>2, NextHour
  <2>2. over = cut + Hour
    BY <1>1, <1>2 DEF cut
  <2>3. b - lo < MaxBuckets * Hour <=> b < over
    BY <1>1, <1>2
  <2> HIDE DEF over
  <2>4. b < over => b + Hour <= over
    BY <2>1, HoursApart
  <2> QED
    BY <1>1, <1>4, <2>1, <2>2, <2>3, <2>4
<1>8. CollectedHours(m, t) = HoursOf(lo, hi)
  <2>1. CollectedHours(m, t) =
            {b \in lo..FloorHour(t) - 1 : IsHour(b) /\ b - lo < MaxBuckets * Hour}
    BY DEF CollectedHours, HourlyBuckets, IsHour, lo, since
  <2>2. FloorHour(t) \in Int
    BY FloorHourFact
  <2>3. \A b \in Int : IsHour(b) =>
            (b <= FloorHour(t) - 1 /\ b - lo < MaxBuckets * Hour <=> b <= hi)
    BY <1>3, <1>4, <1>6, <1>7
  <2> HIDE DEF hi
  <2> QED
    BY <1>2, <1>5, <2>1, <2>2, <2>3 DEF HoursOf
<1>9. lo <= hi
  <2> HIDE DEF hi
  <2> QED
    BY <1>2, <1>5, <1>8 DEF HoursOf
<1>10. hi - lo < MaxBuckets * Hour
  <2>1. hi <= cut
    BY <1>3, <1>4
  <2> HIDE DEF hi
  <2> QED
    BY <1>5, <1>7, <2>1
<1> QED
  BY <1>2, <1>5, <1>8, <1>9, <1>10 DEF lo, since

\* The mark after a batch is the newest hour of it.
LEMMA NewestHour ==
    ASSUME NEW lo \in Int, NEW hi \in Int, lo <= hi, IsHour(hi), NEW m
    PROVE  NextWatermark(HoursOf(lo, hi), m) = hi
<1>1. hi \in HoursOf(lo, hi)
  BY DEF HoursOf
<1>2. \A b \in HoursOf(lo, hi) : b \in Int /\ b <= hi
  BY DEF HoursOf
<1>3. \A b \in HoursOf(lo, hi) : (\A other \in HoursOf(lo, hi) : other <= b) => b = hi
  BY <1>1, <1>2
<1> QED
  BY <1>1, <1>2, <1>3 DEF NextWatermark

----------------------------------------------------------------------------
(* The invariant.                                                           *)

\* An hour b of the instants, as TypeOK bounds them.
LEMMA InstantsFact ==
    /\ Instants \subseteq Int
    /\ \A b \in Int : b >= -(BackfillParts + Hour) /\ b <= MaxTime => b \in Instants
BY SimulationAssumption, WorkerAssumption
   DEF Instants, SimulationAssumption, WorkerAssumption

\* What a cycle has generated: nothing, or whole completed hours without a gap,
\* no more than a cycle may, which
\* begin at the watermark where there is one.
Run(c) ==
    \/ hours[c] = {}
    \/ \E lo, hi \in Instants :
            /\ IsHour(lo) /\ IsHour(hi) /\ lo <= hi /\ hi + Hour <= now
            /\ hours[c] = HoursOf(lo, hi)
            /\ hi - lo < MaxBuckets * Hour
            /\ mark[c] # NoMark => lo = mark[c]

\* The watermark a cycle has read is still the one in the warehouse.
CycleOK(c) ==
    /\ mark[c] # NoMark => IsHour(mark[c])
    /\ loop[c] \in {"collecting", "persisting"} => seen[c] = mark[c]
    /\ loop[c] = "persisting" => Run(c)

\* The part of HoursContiguous about one collector.
Contiguous(c) ==
    IF mark[c] = NoMark THEN stored[c] = {}
    ELSE /\ mark[c] + Hour <= now
         /\ \E first \in Instants :
                /\ first <= mark[c] /\ IsHour(first)
                /\ stored[c] = Profiles \X HoursOf(first, mark[c])

WorkerInv ==
    /\ TypeOK
    /\ \A c \in Collectors : CycleOK(c) /\ Contiguous(c)
    /\ process = "exited" => TasksDone

\* Where no hour is added and time does not run backwards, what is stored stays
\* contiguous.
LEMMA ContiguousKept ==
    ASSUME NEW c \in Collectors, TypeOK, Contiguous(c), now' \in Int, now <= now',
           stored'[c] = stored[c], mark'[c] = mark[c]
    PROVE  Contiguous(c)'
<1>1. now \in Int /\ mark[c] \in Int \cup {NoMark} /\ Hour \in Int
  <2>1. now \in Int /\ Hour \in Int
    BY SimulationAssumption, WorkerAssumption
       DEF TypeOK, SimulationAssumption, WorkerAssumption
  <2>2. mark[c] \in Instants \cup {NoMark}
    BY DEF TypeOK
  <2> QED
    BY <2>1, <2>2, InstantsFact
<1> CASE mark[c] = NoMark
  BY DEF Contiguous
<1> CASE mark[c] # NoMark
  <2>1. mark[c] + Hour <= now /\ mark[c] \in Int
    BY <1>1 DEF Contiguous
  <2>2. mark[c] + Hour <= now'
    BY <1>1, <2>1
  <2> QED
    BY <2>2 DEF Contiguous, HoursOf
<1> QED
  OBVIOUS

\* So does what a cycle has generated.
LEMMA CycleKept ==
    ASSUME NEW c \in Collectors, TypeOK, CycleOK(c), now' \in Int, now <= now',
           mark'[c] = mark[c],
           \/ loop'[c] \notin {"collecting", "persisting"}
           \/ loop'[c] = loop[c] /\ seen'[c] = seen[c] /\ hours'[c] = hours[c]
    PROVE  CycleOK(c)'
<1>1. now \in Int /\ Hour \in Int /\ Instants \subseteq Int
  BY InstantsFact, SimulationAssumption, WorkerAssumption
     DEF TypeOK, SimulationAssumption, WorkerAssumption
<1>2. Run(c) /\ hours'[c] = hours[c] => Run(c)'
  BY <1>1 DEF Run, HoursOf
<1> QED
  BY <1>2 DEF CycleOK

\* A fresh worker satisfies the invariant.
LEMMA WorkerInit == Init => WorkerInv
<1> SUFFICES ASSUME Init PROVE WorkerInv
  OBVIOUS
<1>1. TypeOK
  <2>1. now \in 0..MaxTime /\ failures \in 0..MaxFailures /\ crashes \in 0..MaxCrashes
    BY WorkerAssumption DEF Init, WorkerAssumption
  <2>2. /\ stored \in [Collectors -> SUBSET (Profiles \X Instants)]
        /\ mark \in [Collectors -> Instants \cup {NoMark}]
        /\ loop \in [Collectors -> {"top", "waiting", "stopped"} \cup InCycle]
        /\ seen \in [Collectors -> Instants \cup {NoMark}]
        /\ hours \in [Collectors -> SUBSET Instants]
    BY DEF Init
  <2>3. \A c \in Collectors : loop[c] \notin InCycle => seen[c] = NoMark /\ hours[c] = {}
    BY DEF Init
  <2>4. stop \in BOOLEAN /\ job \in BOOLEAN
    BY DEF Init
  <2>5. process \in {"running", "exited", "dead"} /\ (process # "running" => ~job)
    BY DEF Init
  <2> QED
    BY <2>1, <2>2, <2>3, <2>4, <2>5, Zenon DEF TypeOK
<1>2. \A c \in Collectors : CycleOK(c) /\ Contiguous(c)
  BY DEF Init, CycleOK, Contiguous
<1> QED
  BY <1>1, <1>2 DEF Init, WorkerInv

----------------------------------------------------------------------------
(* What a cycle generates and what it persists.                             *)

\* HoursOf takes its members from the instants.
LEMMA HoursInInstants ==
    ASSUME NEW lo \in Instants, NEW hi \in Instants
    PROVE  HoursOf(lo, hi) \subseteq Instants
BY SimulationAssumption, WorkerAssumption
   DEF HoursOf, Instants, SimulationAssumption, WorkerAssumption

\* What is generated from the watermark on is a run.
LEMMA CollectedIsRun ==
    ASSUME TypeOK, NEW c \in Collectors, CycleOK(c), loop[c] = "collecting",
           CollectedHours(seen[c], now) # {}
    PROVE  \E lo, hi \in Instants :
                /\ IsHour(lo) /\ IsHour(hi) /\ lo <= hi /\ hi + Hour <= now
                /\ CollectedHours(seen[c], now) = HoursOf(lo, hi)
                /\ hi - lo < MaxBuckets * Hour
                /\ mark[c] # NoMark => lo = mark[c]
<1> DEFINE since == Since(seen[c], now)
           lo == FloorHour(since)
<1>1. now \in Int /\ now >= 0 /\ now <= MaxTime /\ Hour \in Int /\ Hour > 0
      /\ MaxTime \in Int /\ BackfillParts \in Int /\ BackfillParts >= 0
  BY SimulationAssumption, WorkerAssumption
     DEF TypeOK, SimulationAssumption, WorkerAssumption
<1>2. seen[c] = mark[c] /\ mark[c] \in Instants \cup {NoMark} /\ NoMark \notin Int
      /\ Instants \subseteq Int
  BY InstantsFact, SimulationAssumption DEF TypeOK, CycleOK, SimulationAssumption
<1>3. PICK hi \in Int :
        /\ lo \in Int /\ IsHour(lo) /\ IsHour(hi) /\ lo <= hi /\ hi + Hour <= now
        /\ CollectedHours(seen[c], now) = HoursOf(lo, hi)
        /\ hi - lo < MaxBuckets * Hour
  BY <1>1, <1>2, CollectedRun
<1>4. mark[c] # NoMark => lo = mark[c]
  BY <1>2, FloorOfHour DEF CycleOK, Since
<1>5. lo >= -(BackfillParts + Hour)
  <2> CASE mark[c] # NoMark
    <3>1. lo \in Instants
      BY <1>2, <1>4
    <3> QED
      BY <3>1, <1>1 DEF Instants
  <2> CASE mark[c] = NoMark
    <3>1. since = now - BackfillParts /\ since \in Int
      BY <1>1, <1>2 DEF Since
    <3>2. since < lo + Hour
      BY <3>1, FloorHourFact
    <3> HIDE DEF lo, since
    <3> QED
      BY <1>1, <1>3, <3>1, <3>2
  <2> QED
    OBVIOUS
<1> HIDE DEF lo, since
<1>6. lo >= -(BackfillParts + Hour) /\ lo <= MaxTime
      /\ hi >= -(BackfillParts + Hour) /\ hi <= MaxTime
  BY <1>1, <1>3, <1>5
<1>7. lo \in Instants /\ hi \in Instants
  BY <1>3, <1>6, InstantsFact
<1> QED
  BY <1>3, <1>4, <1>7

\* What a run appends to hours without a gap, and the mark it moves to.
LEMMA PersistedRun ==
    ASSUME TypeOK, NEW c \in Collectors, CycleOK(c), Contiguous(c), loop[c] = "persisting",
           hours[c] # {}
    PROVE  \E hi, first \in Instants :
                /\ NextWatermark(hours[c], mark[c]) = hi
                /\ IsHour(hi) /\ hi + Hour <= now
                /\ first <= hi /\ IsHour(first)
                /\ stored[c] \cup BuildRecords(Profiles, hours[c])
                        = Profiles \X HoursOf(first, hi)
<1>0. Instants \subseteq Int /\ NoMark \notin Int /\ NoMark \notin Instants
  BY InstantsFact, SimulationAssumption DEF SimulationAssumption
<1>1. PICK lo, hi \in Instants :
            /\ IsHour(lo) /\ IsHour(hi) /\ lo <= hi /\ hi + Hour <= now
            /\ hours[c] = HoursOf(lo, hi)
            /\ mark[c] # NoMark => lo = mark[c]
  BY DEF CycleOK, Run
<1>2. NextWatermark(hours[c], mark[c]) = hi
  BY <1>0, <1>1, NewestHour
<1>3. CASE mark[c] = NoMark
  <2>1. stored[c] \cup BuildRecords(Profiles, hours[c]) = Profiles \X HoursOf(lo, hi)
    BY <1>1, <1>3 DEF Contiguous, BuildRecords
  <2> QED
    BY <1>1, <1>2, <2>1
<1>4. CASE mark[c] # NoMark
  <2>1. PICK first \in Instants :
            /\ first <= mark[c] /\ IsHour(first)
            /\ stored[c] = Profiles \X HoursOf(first, mark[c])
    BY <1>4 DEF Contiguous
  <2>2. lo = mark[c]
    BY <1>1, <1>4
  <2>3. HoursOf(first, lo) \cup HoursOf(lo, hi) = HoursOf(first, hi)
    BY <1>0, <1>1, <2>1, <2>2 DEF HoursOf
  <2>4. stored[c] \cup BuildRecords(Profiles, hours[c]) = Profiles \X HoursOf(first, hi)
    <3>1. (Profiles \X HoursOf(first, lo)) \cup (Profiles \X HoursOf(lo, hi))
              = Profiles \X (HoursOf(first, lo) \cup HoursOf(lo, hi))
      OBVIOUS
    <3> QED
      BY <1>1, <2>1, <2>2, <2>3, <3>1 DEF BuildRecords
  <2>5. first <= hi
    BY <1>0, <1>1, <2>1, <2>2
  <2> QED
    BY <1>1, <1>2, <2>1, <2>4, <2>5
<1> QED
  BY <1>3, <1>4

----------------------------------------------------------------------------
(* The steps of a collector.                                                *)

LoopStates == {"top", "waiting", "stopped"} \cup InCycle

\* The loop has moved, and the other collectors' are where they were.
LEMMA LoopMoves ==
    ASSUME TypeOK, NEW c \in Collectors, NEW from, NEW to \in LoopStates, Goes(c, from, to)
    PROVE  /\ process = "running" /\ loop[c] = from
           /\ loop' \in [Collectors -> LoopStates]
           /\ loop'[c] = to /\ \A d \in Collectors \ {c} : loop'[d] = loop[d]
BY DEF Goes, TypeOK, LoopStates

\* TypeOK after a collector's step, from the parts it can disturb.
LEMMA TypesAfter ==
    ASSUME TypeOK, process = "running",
           UNCHANGED <<now, stop, process, job, crashes>>,
           loop' \in [Collectors -> LoopStates],
           stored' \in [Collectors -> SUBSET (Profiles \X Instants)],
           mark' \in [Collectors -> Instants \cup {NoMark}],
           seen' \in [Collectors -> Instants \cup {NoMark}],
           hours' \in [Collectors -> SUBSET Instants],
           failures' \in 0..MaxFailures,
           \A d \in Collectors : loop'[d] \notin InCycle => seen'[d] = NoMark /\ hours'[d] = {}
    PROVE  TypeOK'
<1>1. UNCHANGED now /\ UNCHANGED stop /\ UNCHANGED process /\ UNCHANGED job
      /\ UNCHANGED crashes
  OBVIOUS
<1>2. now' \in 0..MaxTime /\ crashes' \in 0..MaxCrashes
  BY <1>1 DEF TypeOK
<1>3. stop' \in BOOLEAN /\ job' \in BOOLEAN /\ process' \in {"running", "exited", "dead"}
  BY <1>1, Zenon DEF TypeOK
<1>4. process' # "running" => ~job'
  BY <1>1
<1> QED
  BY <1>2, <1>3, <1>4, Zenon DEF TypeOK, LoopStates

\* A collector's step keeps the invariant.
LEMMA AdvanceKeeps ==
    ASSUME WorkerInv, NEW c \in Collectors, Advance(c)
    PROVE  WorkerInv'
<1> DEFINE Typed ==
              /\ process = "running"
              /\ UNCHANGED <<now, stop, process, job, crashes>>
              /\ loop' \in [Collectors -> LoopStates]
              /\ stored' \in [Collectors -> SUBSET (Profiles \X Instants)]
              /\ mark' \in [Collectors -> Instants \cup {NoMark}]
              /\ seen' \in [Collectors -> Instants \cup {NoMark}]
              /\ hours' \in [Collectors -> SUBSET Instants]
              /\ failures' \in 0..MaxFailures
              /\ \A d \in Collectors :
                    loop'[d] \notin InCycle => seen'[d] = NoMark /\ hours'[d] = {}
           Others ==
              \A d \in Collectors \ {c} :
                /\ loop'[d] = loop[d] /\ seen'[d] = seen[d] /\ hours'[d] = hours[d]
                /\ stored'[d] = stored[d] /\ mark'[d] = mark[d]
           Mine == CycleOK(c)' /\ Contiguous(c)'
<1>1. TypeOK /\ CycleOK(c) /\ Contiguous(c)
  BY DEF WorkerInv
<1>2. /\ stored \in [Collectors -> SUBSET (Profiles \X Instants)]
      /\ mark \in [Collectors -> Instants \cup {NoMark}]
      /\ seen \in [Collectors -> Instants \cup {NoMark}]
      /\ hours \in [Collectors -> SUBSET Instants]
      /\ loop \in [Collectors -> LoopStates]
      /\ failures \in 0..MaxFailures /\ now \in Int
      /\ \A d \in Collectors : loop[d] \notin InCycle => seen[d] = NoMark /\ hours[d] = {}
  BY <1>1 DEF TypeOK, LoopStates
<1>3. ASSUME TopOfLoop(c) PROVE Typed /\ Others /\ Mine
  <2>1. PICK to \in {"stopped", "reading"} : Goes(c, "top", to)
    BY <1>3 DEF TopOfLoop
  <2>2. to \in LoopStates
    BY <2>1 DEF LoopStates, InCycle
  <2>3. /\ process = "running" /\ loop[c] = "top"
        /\ loop' \in [Collectors -> LoopStates]
        /\ loop'[c] = to /\ \A d \in Collectors \ {c} : loop'[d] = loop[d]
    BY <1>1, <2>1, <2>2, LoopMoves
  <2>4. /\ UNCHANGED <<now, stored, mark, seen, hours, stop, process, job, failures, crashes>>
        /\ to \notin {"collecting", "persisting"}
    BY <1>3, <2>1 DEF TopOfLoop
  <2>5. Mine
    BY <1>1, <1>2, <2>3, <2>4, CycleKept, ContiguousKept
  <2>6. Typed
    BY <1>2, <2>3, <2>4 DEF InCycle
  <2> QED
    BY <2>3, <2>4, <2>5, <2>6
<1>4. ASSUME ReadWatermark(c) PROVE Typed /\ Others /\ Mine
  <2>1. /\ process = "running" /\ loop[c] = "reading"
        /\ loop' \in [Collectors -> LoopStates]
        /\ loop'[c] = "collecting" /\ \A d \in Collectors \ {c} : loop'[d] = loop[d]
    BY <1>1, <1>4, LoopMoves DEF ReadWatermark, LoopStates, InCycle
  <2>2. /\ UNCHANGED <<now, stored, mark, hours, stop, process, job, failures, crashes>>
        /\ seen' \in [Collectors -> Instants \cup {NoMark}]
        /\ seen'[c] = mark[c] /\ \A d \in Collectors \ {c} : seen'[d] = seen[d]
    BY <1>2, <1>4 DEF ReadWatermark
  <2>3. Mine
    <3>1. Contiguous(c)'
      BY <1>1, <1>2, <2>2, ContiguousKept
    <3>2. CycleOK(c)'
      BY <1>1, <2>1, <2>2 DEF CycleOK
    <3> QED
      BY <3>1, <3>2
  <2>4. Typed
    BY <1>2, <2>1, <2>2 DEF InCycle
  <2> QED
    BY <2>1, <2>2, <2>3, <2>4
<1>5. ASSUME Collect(c) PROVE Typed /\ Others /\ Mine
  <2>1. /\ process = "running" /\ loop[c] = "collecting"
        /\ loop' \in [Collectors -> LoopStates]
        /\ loop'[c] = "persisting" /\ \A d \in Collectors \ {c} : loop'[d] = loop[d]
    BY <1>1, <1>5, LoopMoves DEF Collect, LoopStates, InCycle
  <2>2. CollectedHours(seen[c], now) \in SUBSET Instants
    BY <1>1, <2>1, CollectedIsRun, HoursInInstants
  <2>3. /\ UNCHANGED <<now, stored, mark, seen, stop, process, job, failures, crashes>>
        /\ hours'[c] = CollectedHours(seen[c], now)
        /\ hours' \in [Collectors -> SUBSET Instants]
        /\ \A d \in Collectors \ {c} : hours'[d] = hours[d]
    BY <1>2, <1>5, <2>2 DEF Collect
  <2>4. Mine
    <3>1. Contiguous(c)'
      BY <1>1, <1>2, <2>3, ContiguousKept
    <3>2. Run(c)'
      BY <1>1, <2>1, <2>3, CollectedIsRun DEF Run, HoursOf
    <3>3. seen'[c] = mark'[c] /\ (mark'[c] # NoMark => IsHour(mark'[c]))
      BY <1>1, <2>1, <2>3 DEF CycleOK
    <3> QED
      BY <3>1, <3>2, <3>3 DEF CycleOK
  <2>5. Typed
    BY <1>2, <2>1, <2>3 DEF InCycle
  <2> QED
    BY <2>1, <2>3, <2>4, <2>5
<1>6. ASSUME Persist(c) PROVE Typed /\ Others /\ Mine
  <2>1. /\ process = "running" /\ loop[c] = "persisting"
        /\ loop' \in [Collectors -> LoopStates]
        /\ loop'[c] = "waiting" /\ \A d \in Collectors \ {c} : loop'[d] = loop[d]
    BY <1>1, <1>6, LoopMoves DEF Persist, LoopStates, InCycle
  <2> DEFINE st == stored[c] \cup BuildRecords(Profiles, hours[c])
             m  == NextWatermark(hours[c], mark[c])
  <2>2. st \in SUBSET (Profiles \X Instants)
    BY <1>2 DEF BuildRecords
  <2>3. m \in Instants \cup {NoMark}
    BY <1>1, <1>2, <2>1, PersistedRun DEF NextWatermark
  <2>4. /\ UNCHANGED <<now, stop, process, job, failures, crashes>>
        /\ stored' = [stored EXCEPT ![c] = st] /\ mark' = [mark EXCEPT ![c] = m]
        /\ seen' = [seen EXCEPT ![c] = NoMark] /\ hours' = [hours EXCEPT ![c] = {}]
    BY <1>6 DEF Persist, Forget
  <2> HIDE DEF st, m
  <2>5. /\ stored' \in [Collectors -> SUBSET (Profiles \X Instants)]
        /\ mark' \in [Collectors -> Instants \cup {NoMark}]
        /\ seen' \in [Collectors -> Instants \cup {NoMark}]
        /\ hours' \in [Collectors -> SUBSET Instants]
        /\ stored'[c] = st /\ mark'[c] = m /\ seen'[c] = NoMark /\ hours'[c] = {}
    BY <1>2, <2>2, <2>3, <2>4
  <2>6. Others
    BY <1>2, <2>1, <2>4
  <2>7. Mine
    <3>1. CASE hours[c] = {}
      <4>1. m = mark[c] /\ st = stored[c]
        BY <3>1 DEF m, st, NextWatermark, BuildRecords
      <4> QED
        BY <1>1, <1>2, <2>1, <2>4, <2>5, <4>1, CycleKept, ContiguousKept
    <3>2. CASE hours[c] # {}
      <4>1. PICK hi, first \in Instants :
              /\ m = hi /\ IsHour(hi) /\ hi + Hour <= now
              /\ first <= hi /\ IsHour(first)
              /\ st = Profiles \X HoursOf(first, hi)
        BY <1>1, <2>1, <3>2, PersistedRun DEF m, st
      <4>2. NoMark \notin Instants
        BY InstantsFact, SimulationAssumption DEF SimulationAssumption
      <4>3. Contiguous(c)'
        BY <2>4, <2>5, <4>1, <4>2 DEF Contiguous, HoursOf
      <4>4. CycleOK(c)'
        BY <2>1, <2>5, <4>1 DEF CycleOK
      <4> QED
        BY <4>3, <4>4
    <3> QED
      BY <3>1, <3>2
  <2>8. Typed
    BY <1>2, <2>1, <2>4, <2>5, <2>6 DEF InCycle
  <2> QED
    BY <2>6, <2>7, <2>8
<1>7. ASSUME CycleFails(c) PROVE Typed /\ Others /\ Mine
  <2>1. /\ process = "running"
        /\ loop' \in [Collectors -> LoopStates]
        /\ loop'[c] = "waiting" /\ \A d \in Collectors \ {c} : loop'[d] = loop[d]
    BY <1>1, <1>7, LoopMoves DEF CycleFails, LoopStates, InCycle
  <2>2. /\ UNCHANGED <<now, stored, mark, stop, process, job, crashes>>
        /\ seen' = [seen EXCEPT ![c] = NoMark] /\ hours' = [hours EXCEPT ![c] = {}]
    BY <1>7 DEF CycleFails, Forget
  <2>3. failures' \in 0..MaxFailures
    BY <1>2, <1>7, WorkerAssumption DEF CycleFails, WorkerAssumption
  <2>4. Others
    BY <1>2, <2>1, <2>2
  <2>5. Mine
    BY <1>1, <1>2, <2>1, <2>2, CycleKept, ContiguousKept
  <2>6. Typed
    BY <1>2, <2>1, <2>2, <2>3 DEF InCycle
  <2> QED
    BY <2>4, <2>5, <2>6
<1>8. ASSUME WaitEnds(c) PROVE Typed /\ Others /\ Mine
  <2>1. /\ process = "running" /\ loop[c] = "waiting"
        /\ loop' \in [Collectors -> LoopStates]
        /\ loop'[c] = "top" /\ \A d \in Collectors \ {c} : loop'[d] = loop[d]
    BY <1>1, <1>8, LoopMoves DEF WaitEnds, LoopStates, InCycle
  <2>2. UNCHANGED <<now, stored, mark, seen, hours, stop, process, job, failures, crashes>>
    BY <1>8 DEF WaitEnds
  <2>3. Mine
    BY <1>1, <1>2, <2>1, <2>2, CycleKept, ContiguousKept
  <2>4. Typed
    BY <1>2, <2>1, <2>2 DEF InCycle
  <2> QED
    BY <2>1, <2>2, <2>3, <2>4
<1>9. Typed /\ Others /\ Mine
  BY <1>3, <1>4, <1>5, <1>6, <1>7, <1>8 DEF Advance
<1>10. TypeOK'
  BY <1>1, <1>9, TypesAfter
<1>11. \A d \in Collectors : CycleOK(d)' /\ Contiguous(d)'
  <2> SUFFICES ASSUME NEW d \in Collectors PROVE CycleOK(d)' /\ Contiguous(d)'
    OBVIOUS
  <2> HIDE DEF Mine
  <2>1. CASE d = c
    BY <1>9, <2>1 DEF Mine
  <2>2. CASE d # c
    <3>1. CycleOK(d) /\ Contiguous(d) /\ UNCHANGED now
      BY <1>9 DEF WorkerInv
    <3>2. /\ loop'[d] = loop[d] /\ seen'[d] = seen[d] /\ hours'[d] = hours[d]
          /\ stored'[d] = stored[d] /\ mark'[d] = mark[d]
      BY <1>9, <2>2
    <3> QED
      BY <1>1, <1>2, <3>1, <3>2, CycleKept, ContiguousKept
  <2> QED
    BY <2>1, <2>2
<1>12. process' # "exited"
  BY <1>9
<1> QED
  BY <1>10, <1>11, <1>12 DEF WorkerInv

----------------------------------------------------------------------------
(* The steps of the process.                                                *)

\* Time, the stop event and the evaluations leave the collectors alone.
LEMMA AsideKeeps ==
    ASSUME WorkerInv, Tick \/ Signal \/ StartEvaluation \/ EndEvaluation \/ UNCHANGED vars
    PROVE  WorkerInv'
<1>1. TypeOK /\ UNCHANGED <<stored, mark, loop, seen, hours, process, failures, crashes>>
  BY DEF WorkerInv, Tick, Signal, StartEvaluation, EndEvaluation, vars
<1>2. now' \in 0..MaxTime /\ now <= now' /\ now' \in Int
  BY <1>1, WorkerAssumption
     DEF TypeOK, Tick, Signal, StartEvaluation, EndEvaluation, vars, WorkerAssumption
<1>3. stop' \in BOOLEAN /\ job' \in BOOLEAN
  BY <1>1, Zenon DEF TypeOK, Tick, Signal, StartEvaluation, EndEvaluation, vars
<1>4. process' # "running" => ~job'
  <2>1. process # "running" => ~job
    BY <1>1, Zenon DEF TypeOK
  <2>2. process' # "running" => process = process' /\ (job' = job \/ job' = FALSE)
    BY <1>1 DEF Tick, Signal, StartEvaluation, EndEvaluation, vars
  <2> QED
    BY <2>1, <2>2, Zenon
<1>5. TypeOK'
  BY <1>1, <1>2, <1>3, <1>4, Zenon DEF TypeOK
<1>6. \A c \in Collectors : CycleOK(c)' /\ Contiguous(c)'
  <2> SUFFICES ASSUME NEW c \in Collectors PROVE CycleOK(c)' /\ Contiguous(c)'
    OBVIOUS
  <2>1. CycleOK(c) /\ Contiguous(c)
    BY DEF WorkerInv
  <2> QED
    BY <1>1, <1>2, <2>1, CycleKept, ContiguousKept
<1>7. process' = "exited" => TasksDone'
  BY <1>1 DEF WorkerInv, TasksDone
<1> QED
  BY <1>5, <1>6, <1>7 DEF WorkerInv

\* The end of the process and the start of the next one.
LEMMA ProcessKeeps ==
    ASSUME WorkerInv, Exit \/ Crash \/ Restart
    PROVE  WorkerInv'
<1>1. TypeOK /\ UNCHANGED <<now, stored, mark, failures>> /\ now \in Int
  BY WorkerAssumption DEF WorkerInv, TypeOK, Exit, Crash, Restart, WorkerAssumption
<1>2. \/ UNCHANGED <<loop, seen, hours>>
      \/ /\ loop' = [c \in Collectors |-> "top"]
         /\ seen' = [c \in Collectors |-> NoMark] /\ hours' = [c \in Collectors |-> {}]
  BY DEF Exit, Crash, Restart
<1>3. TypeOK'
  <2>1. /\ loop' \in [Collectors -> LoopStates]
        /\ seen' \in [Collectors -> Instants \cup {NoMark}]
        /\ hours' \in [Collectors -> SUBSET Instants]
        /\ \A c \in Collectors : loop'[c] \notin InCycle => seen'[c] = NoMark /\ hours'[c] = {}
    BY <1>1, <1>2 DEF TypeOK, LoopStates
  <2>2. now' \in 0..MaxTime /\ failures' \in 0..MaxFailures /\ crashes' \in 0..MaxCrashes
    BY <1>1, WorkerAssumption DEF TypeOK, Exit, Crash, Restart, WorkerAssumption
  <2>3. /\ stored' \in [Collectors -> SUBSET (Profiles \X Instants)]
        /\ mark' \in [Collectors -> Instants \cup {NoMark}]
    BY <1>1 DEF TypeOK
  <2>4. ~job'
    <3>1. CASE Exit \/ Crash
      BY <3>1 DEF Exit, Crash
    <3>2. CASE Restart
      <4>1. process # "running" /\ job' = job
        BY <3>2 DEF Restart
      <4>2. process # "running" => ~job
        BY <1>1, Zenon DEF TypeOK
      <4> QED
        BY <4>1, <4>2
    <3> QED
      BY <3>1, <3>2
  <2>5. job' \in BOOLEAN
    BY <1>1, Zenon DEF TypeOK, Exit, Crash, Restart
  <2>6. stop' \in BOOLEAN /\ process' \in {"running", "exited", "dead"}
    BY <1>1, Zenon DEF TypeOK, Exit, Crash, Restart
  <2> QED
    BY <2>1, <2>2, <2>3, <2>4, <2>5, <2>6, Zenon DEF TypeOK, LoopStates
<1>4. \A c \in Collectors : CycleOK(c)' /\ Contiguous(c)'
  <2> SUFFICES ASSUME NEW c \in Collectors PROVE CycleOK(c)' /\ Contiguous(c)'
    OBVIOUS
  <2>1. CycleOK(c) /\ Contiguous(c)
    BY DEF WorkerInv
  <2> QED
    BY <1>1, <1>2, <2>1, CycleKept, ContiguousKept
<1>5. process' = "exited" => TasksDone'
  BY DEF Exit, Crash, Restart, TasksDone
<1> QED
  BY <1>3, <1>4, <1>5 DEF WorkerInv

\* Every step keeps it.
LEMMA WorkerStep == WorkerInv /\ [Next]_vars => WorkerInv'
BY AdvanceKeeps, AsideKeeps, ProcessKeeps DEF Next

----------------------------------------------------------------------------
(* The theorems.                                                            *)

\* The inductive invariant holds in every state the worker can reach.
THEOREM WorkerInvariant == Spec => []WorkerInv
BY WorkerInit, WorkerStep, PTL DEF Spec

\* Every variable keeps its type: marks and hours stay within the backfill and the
\* present, nothing of a cycle outlives it, and a process that does not run has no
\* evaluation under way.
THEOREM WorkerTypeCorrect == Spec => []TypeOK
<1>1. WorkerInv => TypeOK
  BY DEF WorkerInv
<1> QED
  BY <1>1, WorkerInvariant, PTL

\* No hour is skipped and none is stored before it is over, for any number of
\* collectors, any limit of buckets per cycle, any backfill, and whatever cycles
\* fail and processes die.
THEOREM HoursNeverSkipped == Spec => []HoursContiguous
<1>1. WorkerInv => HoursContiguous
  BY DEF WorkerInv, Contiguous, HoursContiguous, HoursOf, IsHour
<1> QED
  BY <1>1, WorkerInvariant, PTL

\* A shutdown starts no cycle, cuts none short, and leaves nothing of the process.
THEOREM OrderlyShutdown == Spec => ShutdownIsOrderly
<1> DEFINE Orderly ==
              /\ stop /\ stop' => \A c \in Collectors :
                    /\ loop[c] \notin InCycle => loop'[c] \notin InCycle
                    /\ loop[c] \in InCycle /\ process' # "dead" => loop'[c] # "stopped"
              /\ process' = "exited" =>
                    ~job' /\ \A c \in Collectors : loop'[c] \notin InCycle \cup {"waiting"}
              /\ process = "exited" => UNCHANGED <<stored, mark, job, process>>
<1>1. WorkerInv /\ WorkerInv' /\ [Next]_vars => [Orderly]_vars
  <2> SUFFICES ASSUME WorkerInv, WorkerInv', Next PROVE Orderly
    BY DEF Orderly
  <2>1. process' = "exited" =>
            ~job' /\ \A c \in Collectors : loop'[c] \notin InCycle \cup {"waiting"}
    <3>1. process' # "running" => ~job'
      BY Zenon DEF WorkerInv, TypeOK
    <3>2. process' = "exited" => \A c \in Collectors : loop'[c] = "stopped"
      BY DEF WorkerInv, TasksDone
    <3> QED
      BY <3>1, <3>2 DEF InCycle
  <2>2. process = "exited" => UNCHANGED <<stored, mark, job, process>>
    <3>1. \A c \in Collectors : Advance(c) => process = "running"
      BY DEF Advance, TopOfLoop, ReadWatermark, Collect, Persist, CycleFails, WaitEnds, Goes
    <3> QED
      BY <3>1 DEF Next, Tick, Signal, StartEvaluation, EndEvaluation, Exit, Crash, Restart
  <2>3. ASSUME stop, stop', NEW c \in Collectors
        PROVE  /\ loop[c] \notin InCycle => loop'[c] \notin InCycle
               /\ loop[c] \in InCycle /\ process' # "dead" => loop'[c] # "stopped"
    <3>1. CASE Tick \/ Signal \/ StartEvaluation \/ EndEvaluation \/ Exit \/ Restart
      <4>1. UNCHANGED loop
        BY <3>1 DEF Tick, Signal, StartEvaluation, EndEvaluation, Exit, Restart
      <4> QED
        BY <4>1 DEF InCycle
    <3>2. CASE Crash
      BY <3>2 DEF Crash, InCycle
    <3>3. ASSUME NEW d \in Collectors, Advance(d)
          PROVE  /\ loop[c] \notin InCycle => loop'[c] \notin InCycle
                 /\ loop[c] \in InCycle => loop'[c] # "stopped"
      <4>1. ASSUME NEW from, NEW to, Goes(d, from, to),
                   from \notin InCycle => to \notin InCycle,
                   from \in InCycle => to # "stopped"
            PROVE  /\ loop[c] \notin InCycle => loop'[c] \notin InCycle
                   /\ loop[c] \in InCycle => loop'[c] # "stopped"
        <5>1. loop \in [Collectors -> LoopStates]
          BY DEF WorkerInv, TypeOK, LoopStates
        <5> QED
          BY <4>1, <5>1 DEF Goes, InCycle
      <4>2. CASE TopOfLoop(d)
        <5>1. Goes(d, "top", "stopped")
          BY <2>3, <4>2 DEF TopOfLoop
        <5> QED
          BY <4>1, <5>1 DEF InCycle
      <4>3. CASE ReadWatermark(d) \/ Collect(d) \/ Persist(d) \/ CycleFails(d) \/ WaitEnds(d)
        BY <4>1, <4>3 DEF ReadWatermark, Collect, Persist, CycleFails, WaitEnds, InCycle
      <4> QED
        BY <3>3, <4>2, <4>3 DEF Advance
    <3> QED
      BY <3>1, <3>2, <3>3 DEF Next
  <2> QED
    BY <2>1, <2>2, <2>3 DEF Orderly
<1> HIDE DEF Orderly
<1>2. Spec => [][Orderly]_vars
  BY <1>1, WorkerInvariant, PTL DEF Spec
<1> QED
  BY <1>2 DEF ShutdownIsOrderly, Orderly

----------------------------------------------------------------------------
(* The feed.                                                                *)

\* The transaction of a cycle is a report, or leaves the warehouse as it is.
LEMMA PersistReports ==
    ASSUME TypeOK, NEW c \in Collectors, CycleOK(c), Persist(c)
    PROVE  [Feed!Next]_(Feed!vars)
<1>1. /\ loop[c] = "persisting" /\ now' = now
      /\ stored' = [stored EXCEPT ![c] = @ \cup BuildRecords(Profiles, hours[c])]
      /\ mark' = [mark EXCEPT ![c] = NextWatermark(hours[c], mark[c])]
  BY DEF Persist, Goes
<1>2. /\ stored \in [Collectors -> SUBSET (Profiles \X Instants)]
      /\ mark \in [Collectors -> Instants \cup {NoMark}]
  BY DEF TypeOK
<1>3. CASE hours[c] = {}
  <2>1. NextWatermark(hours[c], mark[c]) = mark[c]
        /\ stored[c] \cup BuildRecords(Profiles, hours[c]) = stored[c]
    BY <1>3 DEF NextWatermark, BuildRecords
  <2>2. UNCHANGED Feed!vars
    BY <1>1, <1>2, <2>1 DEF Feed!vars
  <2> QED
    BY <2>2
<1>4. CASE hours[c] # {}
  <2>1. PICK from, to \in Instants :
            /\ IsHour(from) /\ IsHour(to) /\ from <= to /\ to + Hour <= now
            /\ hours[c] = HoursOf(from, to)
            /\ to - from < MaxBuckets * Hour
            /\ mark[c] # NoMark => from = mark[c]
    BY <1>1, <1>4 DEF CycleOK, Run
  <2>2. from \in Int /\ to \in Int
    BY InstantsFact
  <2>3. NextWatermark(hours[c], mark[c]) = to
    BY <2>1, <2>2, NewestHour
  <2>4. BuildRecords(Profiles, hours[c]) = Profiles \X Feed!Interval(from, to)
    BY <2>1 DEF BuildRecords, HoursOf, IsHour, Feed!Interval
  <2>5. {from, to} \subseteq Feed!Interval(from, to)
    BY <2>1, <2>2 DEF IsHour, Feed!Interval
  <2>6. mark[c] \in {from, NoMark}
    BY <2>1
  <2>7. Feed!Report(c, from, to)
    BY <1>1, <2>1, <2>3, <2>4, <2>5, <2>6 DEF Feed!Report
  <2> QED
    BY <2>7 DEF Feed!Next
<1> QED
  BY <1>3, <1>4

\* Every step of the worker is a step of the feed or leaves it unchanged.
LEMMA StepFeeds == WorkerInv /\ [Next]_vars => [Feed!Next]_(Feed!vars)
<1> SUFFICES ASSUME WorkerInv, [Next]_vars PROVE [Feed!Next]_(Feed!vars)
  OBVIOUS
<1>1. CASE Tick
  BY <1>1 DEF Tick, Feed!Tick, Feed!Next
<1>2. ASSUME NEW c \in Collectors, Persist(c) PROVE [Feed!Next]_(Feed!vars)
  BY <1>2, PersistReports DEF WorkerInv
<1>3. ASSUME NEW c \in Collectors, Advance(c), ~Persist(c) PROVE UNCHANGED Feed!vars
  BY <1>3 DEF Advance, TopOfLoop, ReadWatermark, Collect, CycleFails, WaitEnds, Feed!vars
<1>4. CASE Signal \/ StartEvaluation \/ EndEvaluation \/ Exit \/ Crash \/ Restart
           \/ UNCHANGED vars
  BY <1>4 DEF Signal, StartEvaluation, EndEvaluation, Exit, Crash, Restart, vars, Feed!vars
<1> QED
  BY <1>1, <1>2, <1>3, <1>4 DEF Next

\* A worker is an hourly feed: whatever its tasks interleave, however often cycles
\* fail and processes die, the warehouse sees completed hours appended one interval
\* after the other, none twice, none left out and none taken back.
THEOREM WorkerFeedsHours == Spec => FeedsHours
<1>1. Init => Feed!Init
  BY DEF Init, Feed!Init
<1> QED
  BY <1>1, StepFeeds, WorkerInvariant, PTL DEF Spec, FeedsHours
=============================================================================
