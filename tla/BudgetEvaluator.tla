-------------------------- MODULE BudgetEvaluator --------------------------
(***************************************************************************)
(* The budget evaluator and its alert state (src/src/finopsai/alerting/     *)
(* evaluator.py, state.py; the schedule of collectors/__main__.py): every   *)
(* cycle of every worker process, against the warehouse, the budget table   *)
(* and the marks in Redis that they share.                                  *)
(*                                                                         *)
(* An await is an action.  Meanwhile spend is ingested, budgets are patched *)
(* through the API, the month rolls over, Redis answers or does not, and    *)
(* processes die.  Amounts are counted in units of which a limit is a few;  *)
(* Budgets are those of monthly period (others are never selected).         *)
(***************************************************************************)
EXTENDS Integers

CONSTANTS
    Evaluators,    \* worker processes that run the evaluation job
    Budgets,       \* monthly budgets
    NoBudget,      \* the absence of one
    Thresholds,    \* percentages that occur in alert_thresholds
    Terms,         \* limit and alert_thresholds each budget may have, or Inactive
    Null,          \* JSON null, which PATCH accepts for alert_thresholds
    Periods,       \* bound: number of months
    MaxSpend,      \* bound: units each budget's team spends in a month
    MaxFailures,   \* bound: crashes, broker restarts and database failures
    SendCap,       \* bound: sends of one alert told apart
    WatchSlack     \* does the history keep what reached Slack?

ASSUME BudgetsAssumption == NoBudget \notin Budgets
ASSUME ThresholdsAssumption == Thresholds \subseteq Nat \ {0}
ASSUME TermsAssumption ==
    \A b \in Budgets : \A row \in Terms[b] :
        /\ row.limit \in Nat
        /\ row.thresholds # Null => row.thresholds \subseteq Thresholds
ASSUME BoundsAssumption ==
    /\ Periods \in Nat \ {0} /\ (\A b \in Budgets : MaxSpend[b] \in Nat) /\ MaxFailures \in Nat
    /\ SendCap \in Nat \ {0} /\ WatchSlack \in BOOLEAN

VARIABLES
    period,     \* the current month
    spend,      \* cost_record totals per budget's team and month
    terms,      \* the budget table: limit and alert_thresholds, or Inactive
    mark,       \* Redis: highest threshold recorded per budget and month
    sends,      \* history: notifier.send calls per budget, month, threshold
    delivered,  \* history: the alerts that reached Slack
    faulted,    \* history: budget and month whose announcing was disturbed
    failures,   \* failures so far
    pc,         \* where each evaluator's cycle is suspended
    moment,     \* the month of the cycle's "now"
    todo,       \* budgets it has loaded and not yet evaluated
    termsSeen,  \* the table as loaded
    budget,     \* the budget it is announcing for
    threshold   \* the threshold it is announcing

world  == <<period, spend, terms>>
alerts == <<sends, delivered, faulted>>
locals == <<pc, moment, todo, termsSeen, budget, threshold>>
vars   == <<period, spend, terms, mark, sends, delivered, faulted, failures,
            pc, moment, todo, termsSeen, budget, threshold>>

----------------------------------------------------------------------------
NoMark   == 0    \* no key in Redis, or one that does not parse
Never    == 0    \* the moment of a cycle that has not begun
Months   == 1..Periods

\* is_active is false, or the budget is deleted.
Inactive == [limit |-> 0, thresholds |-> {}]

\* What the budget table may hold.
Tables == {table \in [Budgets -> UNION {Terms[b] : b \in Budgets}] :
                \A b \in Budgets : table[b] \in Terms[b]}

\* Nothing is loaded.
NoTable == [b \in Budgets |-> Inactive]

Steps == {"idle", "loading", "picking", "checking", "drivers", "sending",
          "rereading", "writing"}

\* utilization * 100 >= threshold, the boundary included.
Reached(spent, row) == {t \in row.thresholds : spent * 100 >= t * row.limit}

\* crossed_threshold: the highest of them.
IsCrossed(t, spent, row) ==
    /\ t \in Reached(spent, row)
    /\ \A u \in Reached(spent, row) : u <= t

TypeOK ==
    /\ period \in Months
    /\ spend \in [Budgets -> [Months -> Nat]]
    /\ terms \in Tables
    /\ mark \in [Budgets -> [Months -> Thresholds \cup {NoMark}]]
    /\ sends \in [Budgets -> [Months -> [Thresholds -> 0..SendCap]]]
    /\ delivered \subseteq Budgets \X Months \X Thresholds
    /\ faulted \subseteq Budgets \X Months
    /\ failures \in 0..MaxFailures
    /\ pc \in [Evaluators -> Steps]
    /\ moment \in [Evaluators -> Months \cup {Never}]
    /\ todo \in [Evaluators -> SUBSET Budgets]
    /\ termsSeen \in [Evaluators -> Tables \cup {NoTable}]
    /\ budget \in [Evaluators -> Budgets \cup {NoBudget}]
    /\ threshold \in [Evaluators -> Thresholds \cup {NoMark}]

Init ==
    /\ period = 1
    /\ spend = [b \in Budgets |-> [p \in Months |-> 0]]
    /\ terms \in Tables
    /\ mark = [b \in Budgets |-> [p \in Months |-> NoMark]]
    /\ sends = [b \in Budgets |-> [p \in Months |-> [t \in Thresholds |-> 0]]]
    /\ delivered = {}
    /\ faulted = {}
    /\ failures = 0
    /\ pc = [e \in Evaluators |-> "idle"]
    /\ moment = [e \in Evaluators |-> Never]
    /\ todo = [e \in Evaluators |-> {}]
    /\ termsSeen = [e \in Evaluators |-> NoTable]
    /\ budget = [e \in Evaluators |-> NoBudget]
    /\ threshold = [e \in Evaluators |-> NoMark]

----------------------------------------------------------------------------
(* The world around the evaluator.                                          *)

\* A collector stores spend, late records of the month before included.
Ingest(b, p) ==
    /\ p \in {period - 1, period} \cap Months
    /\ spend[b][p] < MaxSpend[b]
    /\ spend' = [spend EXCEPT ![b][p] = @ + 1]
    /\ UNCHANGED <<period, terms, mark, alerts, failures, locals>>

\* PATCH or DELETE of a budget: another limit, another list of thresholds or none
\* that can be read, switched off or on again.
UpdateBudget(b, row) ==
    /\ row # terms[b]
    /\ terms' = [terms EXCEPT ![b] = row]
    /\ UNCHANGED <<period, spend, mark, alerts, failures, locals>>

\* The month ends; the marks of the next one are under keys of their own.
Rollover ==
    /\ period < Periods
    /\ period' = period + 1
    /\ UNCHANGED <<spend, terms, mark, alerts, failures, locals>>

\* The broker keeps nothing on disk (docker-compose.yml): a restart loses
\* every mark.
RedisRestarts ==
    /\ failures < MaxFailures
    /\ failures' = failures + 1
    /\ mark' = [b \in Budgets |-> [p \in Months |-> NoMark]]
    /\ faulted' = faulted \cup (Budgets \X (1..period))
    /\ UNCHANGED <<world, sends, delivered, locals>>

----------------------------------------------------------------------------
(* One cycle of an evaluator; the scheduler runs at most one at a time.     *)

\* run_once: "now" is taken once for the whole cycle.
BeginCycleAhead(e) ==               \* mutant: the month after
    /\ pc[e] = "idle"
    /\ pc' = [pc EXCEPT ![e] = "loading"]
    /\ moment' = [moment EXCEPT ![e] = period + 1]
    /\ UNCHANGED <<world, mark, alerts, failures, todo, termsSeen, budget, threshold>>
BeginCycle(e) ==
    /\ pc[e] = "idle"
    /\ pc' = [pc EXCEPT ![e] = "loading"]
    /\ moment' = [moment EXCEPT ![e] = period]
    /\ UNCHANGED <<world, mark, alerts, failures, todo, termsSeen, budget, threshold>>

\* The budgets are loaded once; the loop works on what was loaded.
LoadBudgets(e) ==
    /\ pc[e] = "loading"
    /\ pc' = [pc EXCEPT ![e] = "picking"]
    /\ todo' = [todo EXCEPT ![e] = {b \in Budgets : terms[b] # Inactive}]
    /\ termsSeen' = [termsSeen EXCEPT ![e] = terms]
    /\ UNCHANGED <<world, mark, alerts, failures, moment, budget, threshold>>

Malformed(e, b) == termsSeen[e][b].thresholds = Null

\* sorted() of something that is no list raises; the loop goes on.
SkipMalformedAborting(e, b) ==      \* mutant: the exception leaves the loop
    /\ pc[e] = "picking"
    /\ b \in todo[e]
    /\ Malformed(e, b)
    /\ todo' = [todo EXCEPT ![e] = {}]
    /\ UNCHANGED <<world, mark, alerts, failures, pc, moment, termsSeen, budget, threshold>>
SkipMalformed(e, b) ==
    /\ pc[e] = "picking"
    /\ b \in todo[e]
    /\ Malformed(e, b)
    /\ todo' = [todo EXCEPT ![e] = @ \ {b}]
    /\ UNCHANGED <<world, mark, alerts, failures, pc, moment, termsSeen, budget, threshold>>

\* Period-to-date spend reaches no threshold.
BelowThresholds(e, b) ==
    /\ pc[e] = "picking"
    /\ b \in todo[e]
    /\ ~Malformed(e, b)
    /\ Reached(spend[b][moment[e]], termsSeen[e][b]) = {}
    /\ todo' = [todo EXCEPT ![e] = @ \ {b}]
    /\ UNCHANGED <<world, mark, alerts, failures, pc, moment, termsSeen, budget, threshold>>

\* Period-to-date spend reaches a threshold: the highest is the candidate.
CrossThresholdNow(e, b) ==          \* mutant: spend of the month it is by now
    /\ pc[e] = "picking"
    /\ b \in todo[e]
    /\ ~Malformed(e, b)
    /\ \E t \in Thresholds :
          /\ IsCrossed(t, spend[b][period], termsSeen[e][b])
          /\ threshold' = [threshold EXCEPT ![e] = t]
    /\ pc' = [pc EXCEPT ![e] = "checking"]
    /\ todo' = [todo EXCEPT ![e] = @ \ {b}]
    /\ budget' = [budget EXCEPT ![e] = b]
    /\ UNCHANGED <<world, mark, alerts, failures, moment, termsSeen>>
CrossThreshold(e, b) ==
    /\ pc[e] = "picking"
    /\ b \in todo[e]
    /\ ~Malformed(e, b)
    /\ \E t \in Thresholds :
          /\ IsCrossed(t, spend[b][moment[e]], termsSeen[e][b])
          /\ threshold' = [threshold EXCEPT ![e] = t]
    /\ pc' = [pc EXCEPT ![e] = "checking"]
    /\ todo' = [todo EXCEPT ![e] = @ \ {b}]
    /\ budget' = [budget EXCEPT ![e] = b]
    /\ UNCHANGED <<world, mark, alerts, failures, moment, termsSeen>>

\* The budget is dealt with; the loop takes the next one.
NextBudget(e) ==
    /\ pc' = [pc EXCEPT ![e] = "picking"]
    /\ budget' = [budget EXCEPT ![e] = NoBudget]
    /\ threshold' = [threshold EXCEPT ![e] = NoMark]
    /\ UNCHANGED <<moment, todo, termsSeen>>

\* The loop suspends at its next await.
Proceed(e, from, to) ==
    /\ pc[e] = from
    /\ pc' = [pc EXCEPT ![e] = to]
    /\ UNCHANGED <<moment, todo, termsSeen, budget, threshold>>

\* The mark under the key of this budget and of the month the cycle began in.
MarkOfBudget(e) == mark[budget[e]][1]      \* mutant: the key lacks the month
MarkOf(e) == mark[budget[e]][moment[e]]

Faulted(e) == faulted' = faulted \cup {<<budget[e], moment[e]>>}

\* highest_fired: announced already, this threshold or a higher one.
AlreadyAnnounced(e) ==
    /\ pc[e] = "checking"
    /\ threshold[e] <= MarkOf(e)
    /\ NextBudget(e)
    /\ UNCHANGED <<world, mark, alerts, failures>>

\* highest_fired: nothing yet, or a lower threshold.
NewCrossingRepeats(e) ==            \* mutant: the threshold announced repeats
    /\ Proceed(e, "checking", "drivers")
    /\ threshold[e] >= MarkOf(e)
    /\ UNCHANGED <<world, mark, alerts, failures>>
NewCrossing(e) ==
    /\ Proceed(e, "checking", "drivers")
    /\ threshold[e] > MarkOf(e)
    /\ UNCHANGED <<world, mark, alerts, failures>>

\* highest_fired treats an outage as nothing announced.
MarkUnreadable(e) ==
    /\ Proceed(e, "checking", "drivers")
    /\ Faulted(e)
    /\ UNCHANGED <<world, mark, sends, delivered, failures>>

\* top_drivers queries the warehouse once more before the alert is built.
FindDriversThenRecord(e) ==         \* mutant: recorded, not yet sent
    /\ Proceed(e, "drivers", "rereading")
    /\ UNCHANGED <<world, mark, alerts, failures>>
FindDrivers(e) ==
    /\ Proceed(e, "drivers", "sending")
    /\ UNCHANGED <<world, mark, alerts, failures>>

\* notifier.send: delivered or not, it returns and the result is not looked at.
Send(e) ==
    /\ Proceed(e, "sending", "rereading")
    /\ sends' = [sends EXCEPT ![budget[e]][moment[e]][threshold[e]] = IF @ < SendCap THEN @ + 1 ELSE @]
    /\ \/ /\ WatchSlack
          /\ delivered' = delivered \cup {<<budget[e], moment[e], threshold[e]>>}
       \/ UNCHANGED delivered
    /\ UNCHANGED <<world, mark, faulted, failures>>

\* record_fired reads the mark again and keeps a larger one.
KeepMark(e) ==
    /\ pc[e] = "rereading"
    /\ threshold[e] <= MarkOf(e)
    /\ NextBudget(e)
    /\ UNCHANGED <<world, mark, alerts, failures>>

\* record_fired: the mark is smaller, or cannot be read and counts as absent.
RaiseMark(e) ==
    /\ Proceed(e, "rereading", "writing")
    /\ threshold[e] > MarkOf(e)
    /\ UNCHANGED <<world, mark, alerts, failures>>
RereadFails(e) ==
    /\ Proceed(e, "rereading", "writing")
    /\ UNCHANGED <<world, mark, alerts, failures>>

WriteMark(e) ==
    /\ pc[e] = "writing"
    /\ mark' = [mark EXCEPT ![budget[e]][moment[e]] = threshold[e]]
    /\ NextBudget(e)
    /\ UNCHANGED <<world, alerts, failures>>

\* The write fails and is only logged.
MarkUnwritable(e) ==
    /\ pc[e] = "writing"
    /\ NextBudget(e)
    /\ Faulted(e)
    /\ UNCHANGED <<world, mark, sends, delivered, failures>>

\* The cycle is over and its locals are gone.
EndCycle(e) ==
    /\ pc' = [pc EXCEPT ![e] = "idle"]
    /\ moment' = [moment EXCEPT ![e] = Never]
    /\ todo' = [todo EXCEPT ![e] = {}]
    /\ termsSeen' = [termsSeen EXCEPT ![e] = NoTable]
    /\ budget' = [budget EXCEPT ![e] = NoBudget]
    /\ threshold' = [threshold EXCEPT ![e] = NoMark]

FinishCycle(e) ==
    /\ pc[e] = "picking"
    /\ todo[e] = {}
    /\ EndCycle(e)
    /\ UNCHANGED <<world, mark, alerts, failures>>

\* A warehouse query fails: it leaves the session's transaction aborted, so the
\* queries of the remaining budgets fail too and nothing more comes of the cycle.
DatabaseFails(e) ==
    /\ pc[e] \in {"loading", "picking", "drivers"}
    /\ pc[e] = "picking" => todo[e] # {}
    /\ failures < MaxFailures
    /\ failures' = failures + 1
    /\ EndCycle(e)
    /\ UNCHANGED <<world, mark, alerts>>

\* The process is killed, or told to stop, which cancels the running job; after
\* sending and before recording this costs the mark.
Crash(e) ==
    /\ pc[e] # "idle"
    /\ failures < MaxFailures
    /\ failures' = failures + 1
    /\ EndCycle(e)
    /\ IF pc[e] \in {"rereading", "writing"} THEN Faulted(e) ELSE UNCHANGED faulted
    /\ UNCHANGED <<world, mark, sends, delivered>>

----------------------------------------------------------------------------
\* Everything a cycle does short of failing; an unreachable broker is no failure.
Advance(e) ==
    \/ BeginCycle(e)
    \/ LoadBudgets(e)
    \/ \E b \in Budgets : SkipMalformed(e, b) \/ BelowThresholds(e, b) \/ CrossThreshold(e, b)
    \/ AlreadyAnnounced(e) \/ NewCrossing(e) \/ MarkUnreadable(e)
    \/ FindDrivers(e)
    \/ Send(e)
    \/ KeepMark(e) \/ RaiseMark(e) \/ RereadFails(e)
    \/ WriteMark(e) \/ MarkUnwritable(e)
    \/ FinishCycle(e)

Next ==
    \/ \E b \in Budgets, p \in Months : Ingest(b, p)
    \/ \E b \in Budgets : \E row \in Terms[b] : UpdateBudget(b, row)
    \/ Rollover
    \/ RedisRestarts
    \/ \E e \in Evaluators : Advance(e) \/ DatabaseFails(e) \/ Crash(e)

Spec == Init /\ [][Next]_vars

\* The interval trigger starts a cycle after every cycle and its awaits return.
FairSpec == Spec /\ \A e \in Evaluators : WF_vars(Advance(e))

----------------------------------------------------------------------------
(* Properties.                                                              *)

\* Within a month a budget's announcements only escalate: as long as no mark
\* was lost or unreadable, an announcement is above all earlier ones, so it is
\* also the first of its threshold (evaluator.py: "a threshold announces once
\* per period").  Crashes elsewhere, unreadable marks in record_fired, changed
\* limits and lists and rollovers do not count as an excuse.
AnnouncesUpwards ==
    [][\A e \in Evaluators :
         pc[e] = "sending" /\ pc'[e] = "rereading" /\ <<budget[e], moment[e]>> \notin faulted =>
           \A u \in Thresholds : u >= threshold[e] => sends[budget[e]][moment[e]][u] = 0]_vars

\* The mark falls only when the broker loses it, or for a month in which a read
\* or write of it had failed before.
MarkFallsOnlyAfterFault ==
    [][\A b \in Budgets, p \in Months :
         mark'[b][p] < mark[b][p] => <<b, p>> \in faulted']_vars

\* A recorded threshold was announced before, in that very month.
MarkFollowsSend ==
    \A b \in Budgets, p \in Months :
        mark[b][p] # NoMark => sends[b][p][mark[b][p]] > 0

\* What is about to be announced is true of the month it will be recorded under
\* and of the budget as the cycle loaded it, however late the announcement is.
AlertIsJustified ==
    \A e \in Evaluators :
        budget[e] # NoBudget =>
            threshold[e] \in Reached(spend[budget[e]][moment[e]], termsSeen[e][budget[e]])

\* A threshold that is reached and stays reached within the month is announced:
\* it or a higher one is passed to notifier.send, whatever the other budgets
\* and the broker do ("alerting must survive a broker outage").  An attempt is all
\* the code sees to: an alert that is not delivered counts as announced, which
\* MarkMeansDelivered is about.
ReachedNow(b, t) == terms[b].thresholds # Null /\ t \in Reached(spend[b][period], terms[b])
SendAttempted(b, p, t) == \E u \in Thresholds : u >= t /\ sends[b][p][u] > 0
CrossingAnnounced ==
    \A b \in Budgets, p \in Months, t \in Thresholds :
        period = p /\ ReachedNow(b, t)
            ~> SendAttempted(b, p, t) \/ period # p \/ ~ReachedNow(b, t)

\* Nothing was disturbed, so each threshold was announced once at most
\* (state.py: "restarts and multiple workers do not re-announce").
AnnouncedOnce ==
    \A b \in Budgets, p \in Months, t \in Thresholds :
        <<b, p>> \notin faulted => sends[b][p][t] <= 1

\* The recorded threshold reached Slack (state.py: "the highest threshold
\* already announced").
MarkMeansDelivered ==
    \A b \in Budgets, p \in Months :
        mark[b][p] # NoMark => <<b, p, mark[b][p]>> \in delivered

\* record_fired keeps the larger of the two values (state.py); a broker that
\* loses its memory is not its doing.
RecordNeverLowers ==
    [][failures' = failures =>
         \A b \in Budgets, p \in Months : mark'[b][p] >= mark[b][p]]_vars
----------------------------------------------------------------------------
(* Why announcements only escalate: the invariants behind the properties.   *)

\* Between evaluate_budget's candidate threshold and its last await.
Announcing == {"checking", "drivers", "sending", "rereading", "writing"}

\* Nothing is recorded or sent for a month to come, and the locals of a cycle
\* name a month that has begun and, while announcing, a budget and a threshold.
LocalsInv ==
    /\ \A b \in Budgets, p \in Months :
          p > period => mark[b][p] = NoMark /\ \A t \in Thresholds : sends[b][p][t] = 0
    /\ \A e \in Evaluators :
          /\ pc[e] # "idle" => moment[e] \in 1..period
          /\ pc[e] \in Announcing => budget[e] \in Budgets /\ threshold[e] \in Thresholds
          /\ pc[e] \notin Announcing => budget[e] = NoBudget

\* What is being recorded was sent.
RecordingInv ==
    \A e \in Evaluators :
        pc[e] \in {"rereading", "writing"} => sends[budget[e]][moment[e]][threshold[e]] > 0

\* With one evaluator, and for a budget and month not disturbed: what is being
\* announced is above the mark, and whatever was sent is under the mark or under
\* the threshold that is being recorded.
EscalationInv ==
    /\ \A e \in Evaluators :
          /\ pc[e] \in Announcing \ {"checking"}
          /\ <<budget[e], moment[e]>> \notin faulted
          => threshold[e] > MarkOf(e)
    /\ \A b \in Budgets, p \in Months, t \in Thresholds :
          /\ sends[b][p][t] > 0
          /\ <<b, p>> \notin faulted
          => \/ t <= mark[b][p]
             \/ \E e \in Evaluators : /\ pc[e] \in {"rereading", "writing"}
                                      /\ budget[e] = b /\ moment[e] = p
                                      /\ t <= threshold[e]

\* The three together, inductive with one evaluator: the mark is what remembers
\* which announcements were made, across cycles, crashes and months (state.py).
AnnouncingInv == LocalsInv /\ RecordingInv /\ EscalationInv
=============================================================================
