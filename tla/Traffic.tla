------------------------------- MODULE Traffic -------------------------------
(***************************************************************************)
(* run_traffic of the demo traffic generator (src/src/finopsai/demo/        *)
(* traffic.py): a producer that creates one task per planned call, a        *)
(* semaphore that lets a few of them through at a time, and a spend ceiling *)
(* that both of them check against what the responses reported so far.      *)
(*                                                                         *)
(* Tasks first run in the order they were created, and the semaphore serves *)
(* its waiters in order and lets nobody past them, so calls pass it in the  *)
(* order they were planned: counts say all there is to say about them.      *)
(***************************************************************************)
EXTENDS Integers

CONSTANTS
    Count,         \* options.count: planned calls
    Concurrency,   \* options.concurrency: permits of the semaphore
    Ceiling,       \* options.max_spend_usd, in units of the smallest cost
    MaxCost        \* the most a single response reports

ASSUME OptionsAssumption ==
    Count \in Nat /\ Concurrency \in Nat \ {0} /\ Ceiling \in Nat /\ MaxCost \in Nat

VARIABLES
    paced,      \* options.rate > 0: the producer sleeps after each call
    producer,   \* creating tasks, in the TaskGroup's exit, or done
    created,    \* tasks created
    passed,     \* tasks that have been through the semaphore
    inflight,   \* requests sent and not answered
    sent,       \* report.sent
    failed,     \* report.failed
    spend,      \* report.spend_usd
    aborted     \* report.aborted_reason is set

vars == <<paced, producer, created, passed, inflight, sent, failed, spend, aborted>>

TypeOK ==
    /\ paced \in BOOLEAN
    /\ producer \in {"creating", "waiting", "done"}
    /\ created \in 0..Count
    /\ passed \in 0..created
    /\ inflight \in 0..Concurrency
    /\ sent \in Nat /\ failed \in Nat /\ spend \in Nat
    /\ aborted \in BOOLEAN

Init ==
    /\ paced \in BOOLEAN
    /\ producer = "creating"
    /\ created = 0
    /\ passed = 0
    /\ inflight = 0
    /\ sent = 0
    /\ failed = 0
    /\ spend = 0
    /\ aborted = FALSE

OverBudget == spend >= Ceiling

----------------------------------------------------------------------------
(* The producer.                                                            *)

\* One task, and a pause in which the others run.
CreateTask ==
    /\ producer = "creating" /\ paced
    /\ created < Count /\ ~OverBudget
    /\ created' = created + 1
    /\ UNCHANGED <<paced, producer, passed, inflight, sent, failed, spend, aborted>>

\* Without pacing the loop has no await: every task is queued before one runs.
CreateAllTasks ==
    /\ producer = "creating" /\ ~paced
    /\ ~OverBudget
    /\ created' = Count
    /\ producer' = "waiting"
    /\ UNCHANGED <<paced, passed, inflight, sent, failed, spend, aborted>>

\* The ceiling is reached with calls left to plan.
StopCreating ==
    /\ producer = "creating"
    /\ created < Count /\ OverBudget
    /\ producer' = "waiting"
    /\ aborted' = TRUE
    /\ UNCHANGED <<paced, created, passed, inflight, sent, failed, spend>>

AllCreated ==
    /\ producer = "creating"
    /\ created = Count
    /\ producer' = "waiting"
    /\ UNCHANGED <<paced, created, passed, inflight, sent, failed, spend, aborted>>

\* The TaskGroup is left when its last task has ended.
AllPlannedEnd ==                     \* mutant: when every planned call has
    /\ producer = "waiting"
    /\ passed = Count /\ inflight = 0
    /\ producer' = "done"
    /\ UNCHANGED <<paced, created, passed, inflight, sent, failed, spend, aborted>>
TasksEnd ==
    /\ producer = "waiting"
    /\ passed = created /\ inflight = 0
    /\ producer' = "done"
    /\ UNCHANGED <<paced, created, passed, inflight, sent, failed, spend, aborted>>

----------------------------------------------------------------------------
(* The tasks.                                                               *)

\* The next task has a permit.
AdmittedFreely == passed < created   \* mutant: no semaphore
Admitted == passed < created /\ inflight < Concurrency

DispatchUnchecked ==                 \* mutant: only the producer checks
    /\ Admitted
    /\ passed' = passed + 1
    /\ inflight' = inflight + 1
    /\ UNCHANGED <<paced, producer, created, sent, failed, spend, aborted>>
Dispatch ==
    /\ Admitted
    /\ ~OverBudget
    /\ passed' = passed + 1
    /\ inflight' = inflight + 1
    /\ UNCHANGED <<paced, producer, created, sent, failed, spend, aborted>>

\* The ceiling was reached since the task was created.
RefuseSilently ==                    \* mutant: and nobody is told
    /\ Admitted
    /\ OverBudget
    /\ passed' = passed + 1
    /\ UNCHANGED <<paced, producer, created, inflight, sent, failed, spend, aborted>>
Refuse ==
    /\ Admitted
    /\ OverBudget
    /\ passed' = passed + 1
    /\ aborted' = TRUE
    /\ UNCHANGED <<paced, producer, created, inflight, sent, failed, spend>>

\* A response; one without a usable cost header counts as free.
Respond ==
    /\ inflight > 0
    /\ \E cost \in 0..MaxCost : spend' = spend + cost
    /\ inflight' = inflight - 1
    /\ sent' = sent + 1
    /\ UNCHANGED <<paced, producer, created, passed, failed, aborted>>

\* An error status, a lost connection or a timeout: counted, and the permit is
\* given back.
Fail ==
    /\ inflight > 0
    /\ inflight' = inflight - 1
    /\ failed' = failed + 1
    /\ UNCHANGED <<paced, producer, created, passed, sent, spend, aborted>>

----------------------------------------------------------------------------
Next ==
    \/ CreateTask \/ CreateAllTasks \/ StopCreating \/ AllCreated \/ TasksEnd
    \/ Dispatch \/ Refuse
    \/ Respond \/ Fail

Spec == Init /\ [][Next]_vars

\* The event loop runs whoever can run, and a request ends within its timeout.
FairSpec == Spec /\ WF_vars(Next)

----------------------------------------------------------------------------
(* Properties.                                                              *)

\* Spend passes the ceiling by less than one call for every permit: each call
\* in flight was sent while spend was still under the ceiling (the producer's
\* check alone "would never trip").
OvershootBounded == spend > 0 => spend < Ceiling + Concurrency * MaxCost

\* A report without aborted_reason accounts for every planned call; one with it
\* has reached the ceiling.
ReportIsHonest ==
    /\ producer = "done" /\ ~aborted => sent + failed = Count
    /\ aborted => OverBudget

\* The run ends, whatever fails and wherever the ceiling is reached.
RunEnds == <>(producer = "done")

----------------------------------------------------------------------------
(* Why: the inductive invariants behind the properties.                     *)

\* With the calls in flight all reporting the most they can, spend stays under
\* the ceiling by a call at least, plus a call for every permit.
RoomInv == inflight > 0 \/ spend > 0 => spend + inflight * MaxCost < Ceiling + Concurrency * MaxCost

\* Every task that went through is in flight, answered or failed, unless aborted.
AccountInv ==
    /\ aborted => OverBudget
    /\ ~aborted => passed = inflight + sent + failed
    /\ ~aborted /\ producer # "creating" => created = Count
    /\ producer = "done" => passed = created /\ inflight = 0
=============================================================================
