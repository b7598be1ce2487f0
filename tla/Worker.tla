-------------------------------- MODULE Worker --------------------------------
(***************************************************************************)
(* The worker process: src/src/finopsai/collectors/__main__.py and          *)
(* runner.py, with the loop of BaseCollector.run_forever and the cycles of  *)
(* the mock collectors in it. One task per collector, a scheduler that      *)
(* starts the budget evaluation now and then, and a stop event that a       *)
(* signal sets: every task looks at it between cycles, and the scheduler is *)
(* shut down when the last task has ended.                                  *)
(*                                                                         *)
(* A cycle reads the watermark, generates the hours since, and writes new   *)
(* records and the watermark in one transaction (Collector.tla takes that   *)
(* transaction apart). Any of it can fail, which ends the cycle. Now and    *)
(* then the process dies and its container is restarted.                    *)
(***************************************************************************)
EXTENDS Simulation

CONSTANTS
    Collectors,    \* enabled collectors
    Profiles,      \* teams or indexes of a collector, the same number for each
    Broken,        \* collectors whose every cycle fails
    MaxTime,       \* bound: the last instant
    MaxFailures,   \* bound: failed cycles of the others
    MaxCrashes     \* bound: times the process dies

ASSUME WorkerAssumption ==
    /\ Broken \subseteq Collectors
    /\ MaxTime \in Nat /\ MaxFailures \in Nat /\ MaxCrashes \in Nat

VARIABLES
    now,
    stored,      \* per collector, the records in the warehouse: <<profile, hour>>
    mark,        \* per collector, its watermark
    loop,        \* where each task is
    seen,        \* the watermark a cycle has read
    hours,       \* the hours a cycle has generated
    stop,        \* the event is set
    process,     \* running, exited, or dead until it is restarted
    job,         \* an evaluation is under way
    failures, crashes

vars == <<now, stored, mark, loop, seen, hours, stop, process, job, failures, crashes>>

InCycle == {"reading", "collecting", "persisting"}

Init ==
    /\ now = 0
    /\ stored = [c \in Collectors |-> {}]
    /\ mark = [c \in Collectors |-> NoMark]
    /\ loop = [c \in Collectors |-> "top"]
    /\ seen = [c \in Collectors |-> NoMark]
    /\ hours = [c \in Collectors |-> {}]
    /\ stop = FALSE
    /\ process = "running"
    /\ job = FALSE
    /\ failures = 0
    /\ crashes = 0

Tick ==
    /\ now < MaxTime
    /\ now' = now + 1
    /\ UNCHANGED <<stored, mark, loop, seen, hours, stop, process, job, failures, crashes>>

----------------------------------------------------------------------------
(* One collector's loop.                                                    *)

Goes(c, from, to) ==
    /\ process = "running"
    /\ loop[c] = from
    /\ loop' = [loop EXCEPT ![c] = to]

TopOfLoopAnyway(c) ==                 \* mutant: the loop is left only while it waits
    /\ Goes(c, "top", "reading")
    /\ UNCHANGED <<now, stored, mark, seen, hours, stop, process, job, failures, crashes>>

\* The stop event is looked at before a cycle, never during one.
TopOfLoop(c) ==
    /\ Goes(c, "top", IF stop THEN "stopped" ELSE "reading")
    /\ UNCHANGED <<now, stored, mark, seen, hours, stop, process, job, failures, crashes>>

ReadWatermark(c) ==
    /\ Goes(c, "reading", "collecting")
    /\ seen' = [seen EXCEPT ![c] = mark[c]]
    /\ UNCHANGED <<now, stored, mark, hours, stop, process, job, failures, crashes>>

Collect(c) ==
    /\ Goes(c, "collecting", "persisting")
    /\ hours' = [hours EXCEPT ![c] = CollectedHours(seen[c], now)]
    /\ UNCHANGED <<now, stored, mark, seen, stop, process, job, failures, crashes>>

ForgetNothing(c) == UNCHANGED <<seen, hours>>   \* mutant: a cycle's state outlives it
\* A cycle's locals go with it.
Forget(c) ==
    /\ seen' = [seen EXCEPT ![c] = NoMark]
    /\ hours' = [hours EXCEPT ![c] = {}]

\* Records already stored are dropped; the rest and the watermark are committed.
Persist(c) ==
    /\ Goes(c, "persisting", "waiting")
    /\ c \notin Broken
    /\ stored' = [stored EXCEPT ![c] = @ \cup BuildRecords(Profiles, hours[c])]
    /\ mark' = [mark EXCEPT ![c] = NextWatermark(hours[c], mark[c])]
    /\ Forget(c)
    /\ UNCHANGED <<now, stop, process, job, failures, crashes>>

\* A cycle never raises: whatever failed is logged, and the loop goes on.
CycleFails(c) ==
    /\ \E from \in InCycle : Goes(c, from, "waiting")
    /\ \/ c \in Broken /\ UNCHANGED failures
       \/ failures < MaxFailures /\ failures' = failures + 1
    /\ Forget(c)
    /\ UNCHANGED <<now, stored, mark, stop, process, job, crashes>>

\* The interval has passed or the event was set; either way the loop looks again.
WaitEnds(c) ==
    /\ Goes(c, "waiting", "top")
    /\ UNCHANGED <<now, stored, mark, seen, hours, stop, process, job, failures, crashes>>

Advance(c) ==
    \/ TopOfLoop(c) \/ ReadWatermark(c) \/ Collect(c) \/ Persist(c)
    \/ CycleFails(c) \/ WaitEnds(c)

----------------------------------------------------------------------------
(* The process.                                                             *)

\* SIGTERM or SIGINT; a second one changes nothing.
Signal ==
    /\ process = "running" /\ ~stop
    /\ stop' = TRUE
    /\ UNCHANGED <<now, stored, mark, loop, seen, hours, process, job, failures, crashes>>

\* max_instances=1: not while one is under way. The stop event does not keep the
\* scheduler from starting one.
StartEvaluation ==
    /\ process = "running" /\ ~job
    /\ job' = TRUE
    /\ UNCHANGED <<now, stored, mark, loop, seen, hours, stop, process, failures, crashes>>

EndEvaluation ==
    /\ process = "running" /\ job
    /\ job' = FALSE
    /\ UNCHANGED <<now, stored, mark, loop, seen, hours, stop, process, failures, crashes>>

TasksDoneAndJob ==                    \* mutant: shutdown waits for an evaluation
    ~job /\ \A c \in Collectors : loop[c] = "stopped"
TasksDone == \A c \in Collectors : loop[c] = "stopped"

\* The task group has ended: the scheduler is shut down without waiting, which
\* cancels an evaluation under way, and the process exits.
Exit ==
    /\ process = "running" /\ TasksDone
    /\ process' = "exited"
    /\ job' = FALSE
    /\ UNCHANGED <<now, stored, mark, loop, seen, hours, stop, failures, crashes>>

\* Killed, out of memory, or the machine goes down.
Crash ==
    /\ process = "running" /\ crashes < MaxCrashes
    /\ crashes' = crashes + 1
    /\ process' = "dead"
    /\ job' = FALSE
    /\ loop' = [c \in Collectors |-> "top"]
    /\ seen' = [c \in Collectors |-> NoMark]
    /\ hours' = [c \in Collectors |-> {}]
    /\ UNCHANGED <<now, stored, mark, stop, failures>>

\* restart: unless-stopped. The new process has a stop event of its own.
Restart ==
    /\ process = "dead"
    /\ process' = "running"
    /\ stop' = FALSE
    /\ UNCHANGED <<now, stored, mark, loop, seen, hours, job, failures, crashes>>

Next ==
    \/ Tick \/ Signal \/ StartEvaluation \/ EndEvaluation \/ Exit \/ Crash \/ Restart
    \/ \E c \in Collectors : Advance(c)

Spec == Init /\ [][Next]_vars

\* Awaited calls return or fail, waits end, the loop schedules every task, and
\* the container is restarted. Evaluations need not end.
FairSpec ==
    /\ Spec
    /\ \A c \in Collectors : WF_vars(Advance(c))
    /\ WF_vars(Exit) /\ WF_vars(Restart)

----------------------------------------------------------------------------
(* What must hold.                                                          *)

Instants == -(BackfillParts + Hour)..MaxTime

TypeOK ==
    /\ now \in 0..MaxTime
    /\ stored \in [Collectors -> SUBSET (Profiles \X Instants)]
    /\ mark \in [Collectors -> Instants \cup {NoMark}]
    /\ loop \in [Collectors -> {"top", "waiting", "stopped"} \cup InCycle]
    /\ seen \in [Collectors -> Instants \cup {NoMark}]
    /\ hours \in [Collectors -> SUBSET Instants]
    /\ stop \in BOOLEAN /\ job \in BOOLEAN
    /\ process \in {"running", "exited", "dead"}
    /\ process # "running" => ~job
    /\ \A c \in Collectors : loop[c] \notin InCycle => seen[c] = NoMark /\ hours[c] = {}
    /\ failures \in 0..MaxFailures /\ crashes \in 0..MaxCrashes

\* What a collector has stored is every completed hour from its first one up to
\* the watermark, for every profile, whatever was cut at the limit, failed or
\* died: no hour is skipped, and none is reported before it is over.
HoursContiguous ==
    \A c \in Collectors :
        IF mark[c] = NoMark THEN stored[c] = {}
        ELSE /\ mark[c] + Hour <= now
             /\ \E first \in Instants :
                    /\ first <= mark[c] /\ first % Hour = 0
                    /\ stored[c] = Profiles \X {b \in first..mark[c] : b % Hour = 0}

\* The tasks, their failures and the deaths of the process add up to a feed: every
\* cycle that changes the warehouse appends the next completed hours, at most as
\* many as its limit, for every profile at once, and moves the mark to the last.
Feed == INSTANCE HourlyFeed WITH MostHours <- MaxBuckets

FeedsHours == Feed!Init /\ [][Feed!Next]_(Feed!vars)

\* Once the event is set no cycle begins, those under way are not cut short, and
\* when the process has exited nothing of it is left: no cycle, no evaluation.
ShutdownIsOrderly ==
    [][/\ stop /\ stop' => \A c \in Collectors :
            /\ loop[c] \notin InCycle => loop'[c] \notin InCycle
            /\ loop[c] \in InCycle /\ process' # "dead" => loop'[c] # "stopped"
       /\ process' = "exited" =>
            ~job' /\ \A c \in Collectors : loop'[c] \notin InCycle \cup {"waiting"}
       /\ process = "exited" => UNCHANGED <<stored, mark, job, process>>]_vars

\* A signal ends the process, whatever its tasks are waiting for.
StopEndsWorker == stop ~> (process # "running")

\* A collector catches up with a completed hour, over outages longer than a cycle
\* may cover, and although another collector fails for ever.
CatchesUp ==
    \A c \in Collectors \ Broken : \A b \in HourlyBuckets(0, MaxTime) :
        (mark[c] # NoMark /\ mark[c] <= b /\ b + Hour <= now)
            ~> (stop \/ process = "exited" \/ Profiles \X {b} \subseteq stored[c])
=============================================================================
