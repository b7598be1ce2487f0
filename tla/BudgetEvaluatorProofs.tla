----------------------- MODULE BudgetEvaluatorProofs -----------------------
(***************************************************************************)
(* Theorems about BudgetEvaluator for every set of budgets, thresholds and  *)
(* limits and every value of the bounds.                                    *)
(***************************************************************************)
EXTENDS BudgetEvaluator, TLAPS

----------------------------------------------------------------------------
(* Type correctness.                                                        *)

\* The locals of a cycle stay in their types.
LocalsOK ==
    /\ pc \in [Evaluators -> Steps]
    /\ moment \in [Evaluators -> Months \cup {Never}]
    /\ todo \in [Evaluators -> SUBSET Budgets]
    /\ termsSeen \in [Evaluators -> Tables \cup {NoTable}]
    /\ budget \in [Evaluators -> Budgets \cup {NoBudget}]
    /\ threshold \in [Evaluators -> Thresholds \cup {NoMark}]

\* The ways a step of a cycle moves the locals keep their types.
LEMMA LocalsKept ==
    ASSUME TypeOK, NEW e \in Evaluators,
           \/ EndCycle(e) \/ NextBudget(e)
           \/ \E from \in Steps, to \in Steps : Proceed(e, from, to)
    PROVE  LocalsOK'
<1>1. CASE EndCycle(e)
  BY <1>1 DEF TypeOK, LocalsOK, Steps, EndCycle
<1>2. CASE NextBudget(e)
  BY <1>2 DEF TypeOK, LocalsOK, Steps, NextBudget
<1>3. ASSUME NEW from \in Steps, NEW to \in Steps, Proceed(e, from, to) PROVE LocalsOK'
  BY <1>3 DEF TypeOK, LocalsOK, Proceed
<1> QED
  BY <1>1, <1>2, <1>3

\* A cycle that announces has a budget, a month that has begun and a threshold.
LEMMA AnnouncingLocals ==
    ASSUME TypeOK, LocalsInv, NEW e \in Evaluators, pc[e] \in Announcing
    PROVE  /\ budget[e] \in Budgets /\ threshold[e] \in Thresholds
           /\ moment[e] \in Months /\ moment[e] \in 1..period
<1>1. period \in Months /\ 1..period \subseteq Months
  BY BoundsAssumption DEF TypeOK, Months
<1> QED
  BY <1>1 DEF LocalsInv, Announcing

\* notifier.send adds to the history of the alert at hand and to nothing else.
LEMMA SendCounts ==
    ASSUME TypeOK, LocalsInv, NEW e \in Evaluators, Send(e)
    PROVE  /\ sends' \in [Budgets -> [Months -> [Thresholds -> 0..SendCap]]]
           /\ sends'[budget[e]][moment[e]][threshold[e]] > 0
           /\ \A b \in Budgets, p \in Months, t \in Thresholds :
                 /\ sends'[b][p][t] >= sends[b][p][t] /\ sends'[b][p][t] <= sends[b][p][t] + 1
                 /\ sends'[b][p][t] # sends[b][p][t] =>
                       b = budget[e] /\ p = moment[e] /\ t = threshold[e]
<1> DEFINE b0 == budget[e]
           p0 == moment[e]
           t0 == threshold[e]
           old == sends[b0][p0][t0]
           new == IF old < SendCap THEN old + 1 ELSE old
<1>1. b0 \in Budgets /\ p0 \in Months /\ t0 \in Thresholds
  <2>1. pc[e] \in Announcing
    BY DEF Send, Proceed, Announcing
  <2> QED
    BY <2>1, AnnouncingLocals
<1>2. sends' = [sends EXCEPT ![b0] = [sends[b0] EXCEPT ![p0] = [sends[b0][p0] EXCEPT ![t0] = new]]]
  BY DEF Send
<1>3. SendCap \in Nat \ {0}
  BY BoundsAssumption
<1>4. sends \in [Budgets -> [Months -> [Thresholds -> 0..SendCap]]]
  BY DEF TypeOK
<1>5. old \in 0..SendCap
  BY <1>1, <1>4
<1>6. new \in 0..SendCap /\ new > 0 /\ new >= old /\ new <= old + 1
  BY <1>3, <1>5
<1> HIDE DEF b0, p0, t0, old, new
<1>7. [sends[b0][p0] EXCEPT ![t0] = new] \in [Thresholds -> 0..SendCap]
  BY <1>1, <1>4, <1>6
<1>8. [sends[b0] EXCEPT ![p0] = [sends[b0][p0] EXCEPT ![t0] = new]] \in [Months -> [Thresholds -> 0..SendCap]]
  BY <1>1, <1>4, <1>7
<1>9. sends' \in [Budgets -> [Months -> [Thresholds -> 0..SendCap]]]
  BY <1>1, <1>2, <1>4, <1>8
<1>10. sends'[b0][p0][t0] = new
  BY <1>1, <1>2, <1>4
<1>11. ASSUME NEW b \in Budgets, NEW p \in Months, NEW t \in Thresholds
       PROVE  sends'[b][p][t] = IF b = b0 /\ p = p0 /\ t = t0 THEN new ELSE sends[b][p][t]
  BY <1>1, <1>2, <1>4
<1>12. ASSUME NEW b \in Budgets, NEW p \in Months, NEW t \in Thresholds
       PROVE  sends[b][p][t] \in 0..SendCap
  BY <1>4
<1> QED
  BY <1>6, <1>9, <1>10, <1>11, <1>12 DEF b0, p0, t0, old

\* TypeOK and LocalsInv go together: a cycle writes the marks and the history
\* of the budget and the month that its locals name.
LEMMA TypeStep == TypeOK /\ LocalsInv /\ [Next]_vars => TypeOK'
<1> SUFFICES ASSUME TypeOK, LocalsInv, [Next]_vars PROVE TypeOK'
  OBVIOUS
<1> USE ThresholdsAssumption, BoundsAssumption DEF world, alerts
<1>1. ASSUME LocalsOK', UNCHANGED <<world, mark, sends, delivered>>,
             faulted' \subseteq Budgets \X Months, failures' \in 0..MaxFailures
      PROVE  TypeOK'
  BY <1>1 DEF TypeOK, LocalsOK
<1>2. LocalsOK
  BY DEF TypeOK, LocalsOK
<1>3. ASSUME UNCHANGED locals PROVE LocalsOK'
  BY <1>2, <1>3 DEF LocalsOK, locals
<1>4. ASSUME NEW e \in Evaluators, pc[e] \in Announcing
      PROVE  budget[e] \in Budgets /\ moment[e] \in Months /\ threshold[e] \in Thresholds
  BY <1>4, AnnouncingLocals
<1>5. CASE \E b \in Budgets, p \in Months : Ingest(b, p)
  <2>1. PICK b \in Budgets, p \in Months : Ingest(b, p)
    BY <1>5
  <2>2. spend' \in [Budgets -> [Months -> Nat]]
    BY <2>1 DEF Ingest, TypeOK
  <2> QED
    BY <2>1, <2>2, <1>2, <1>3 DEF Ingest, TypeOK, LocalsOK
<1>6. CASE \E b \in Budgets : \E row \in Terms[b] : UpdateBudget(b, row)
  <2>1. PICK b \in Budgets : \E row \in Terms[b] : UpdateBudget(b, row)
    BY <1>6
  <2>2. PICK row \in Terms[b] : terms' = [terms EXCEPT ![b] = row]
    BY <2>1 DEF UpdateBudget
  <2>3. DOMAIN terms = Budgets /\ \A a \in Budgets : terms[a] \in Terms[a]
    BY DEF TypeOK, Tables
  <2>4. terms' = [a \in Budgets |-> IF a = b THEN row ELSE terms[a]]
    BY <2>2, <2>3
  <2>5. terms' \in Tables
    BY <2>3, <2>4 DEF Tables
  <2> QED
    BY <2>1, <2>5, <1>2, <1>3 DEF UpdateBudget, TypeOK, LocalsOK
<1>7. CASE Rollover
  <2>1. period' \in Months
    BY <1>7 DEF Rollover, TypeOK, Months
  <2>2. LocalsOK'
    BY <1>3, <1>7 DEF Rollover
  <2> QED
    BY <1>7, <2>1, <2>2 DEF Rollover, TypeOK, LocalsOK
<1>8. CASE RedisRestarts
  <2>1. Budgets \X (1..period) \subseteq Budgets \X Months
    BY DEF TypeOK, Months
  <2>2. mark' \in [Budgets -> [Months -> Thresholds \cup {NoMark}]]
    BY <1>8 DEF RedisRestarts
  <2> QED
    BY <1>8, <2>1, <2>2, <1>2, <1>3 DEF RedisRestarts, TypeOK, LocalsOK
<1>9. ASSUME NEW e \in Evaluators, BeginCycle(e) PROVE TypeOK'
  BY <1>9, <1>1 DEF BeginCycle, TypeOK, LocalsOK, Steps
<1>10. ASSUME NEW e \in Evaluators, LoadBudgets(e) PROVE TypeOK'
  BY <1>10, <1>1 DEF LoadBudgets, TypeOK, LocalsOK, Steps
<1>11. ASSUME NEW e \in Evaluators, NEW b \in Budgets, SkipMalformed(e, b) \/ BelowThresholds(e, b)
       PROVE  TypeOK'
  <2>1. UNCHANGED <<world, mark, alerts, failures>>
    BY <1>11 DEF SkipMalformed, BelowThresholds
  <2>2. UNCHANGED <<pc, moment, termsSeen, budget, threshold>>
        /\ todo' = [todo EXCEPT ![e] = @ \ {b}]
    BY <1>11 DEF SkipMalformed, BelowThresholds
  <2>3. LocalsOK'
    BY <1>2, <2>2 DEF LocalsOK
  <2> QED
    BY <1>1, <2>1, <2>3 DEF TypeOK
<1>12. ASSUME NEW e \in Evaluators, NEW b \in Budgets, CrossThreshold(e, b) PROVE TypeOK'
  <2>1. PICK t \in Thresholds : threshold' = [threshold EXCEPT ![e] = t]
    BY <1>12 DEF CrossThreshold
  <2> QED
    BY <1>12, <2>1, <1>1 DEF CrossThreshold, TypeOK, LocalsOK, Steps
<1>13. ASSUME NEW e \in Evaluators,
              \/ AlreadyAnnounced(e) \/ NewCrossing(e) \/ FindDrivers(e) \/ KeepMark(e)
              \/ RaiseMark(e) \/ RereadFails(e)
       PROVE  TypeOK'
  <2>1. LocalsOK'
    BY <1>13, LocalsKept
    DEF AlreadyAnnounced, NewCrossing, FindDrivers, KeepMark, RaiseMark, RereadFails, Steps
  <2> QED
    BY <1>13, <2>1, <1>1
    DEF AlreadyAnnounced, NewCrossing, FindDrivers, KeepMark, RaiseMark, RereadFails, TypeOK
<1>14. ASSUME NEW e \in Evaluators, MarkUnreadable(e) \/ MarkUnwritable(e) PROVE TypeOK'
  <2>1. LocalsOK'
    BY <1>14, LocalsKept DEF MarkUnreadable, MarkUnwritable, Steps
  <2>2. faulted' \subseteq Budgets \X Months
    <3>1. pc[e] \in Announcing /\ faulted' = faulted \cup {<<budget[e], moment[e]>>}
      BY <1>14 DEF MarkUnreadable, MarkUnwritable, Proceed, Faulted, Announcing
    <3> QED
      BY <3>1, <1>4 DEF TypeOK
  <2> QED
    BY <1>14, <2>1, <2>2, <1>1 DEF MarkUnreadable, MarkUnwritable, TypeOK
<1>15. ASSUME NEW e \in Evaluators, Send(e) PROVE TypeOK'
  <2>1. LocalsOK'
    BY <1>15, LocalsKept DEF Send, Steps
  <2>2. budget[e] \in Budgets /\ moment[e] \in Months /\ threshold[e] \in Thresholds
    BY <1>15, <1>4 DEF Send, Proceed, Announcing
  <2>3. sends' \in [Budgets -> [Months -> [Thresholds -> 0..SendCap]]]
    BY <1>15, SendCounts DEF TypeOK
  <2>4. delivered' \subseteq Budgets \X Months \X Thresholds
    BY <1>15, <2>2 DEF Send, TypeOK
  <2> QED
    BY <1>15, <2>1, <2>3, <2>4 DEF Send, TypeOK, LocalsOK
<1>16. ASSUME NEW e \in Evaluators, WriteMark(e) PROVE TypeOK'
  <2>1. LocalsOK'
    BY <1>16, LocalsKept DEF WriteMark
  <2>2. budget[e] \in Budgets /\ moment[e] \in Months /\ threshold[e] \in Thresholds
    BY <1>16, <1>4 DEF WriteMark, Announcing
  <2>3. mark' \in [Budgets -> [Months -> Thresholds \cup {NoMark}]]
    BY <1>16, <2>2 DEF WriteMark, TypeOK
  <2> QED
    BY <1>16, <2>1, <2>3 DEF WriteMark, TypeOK, LocalsOK
<1>17. ASSUME NEW e \in Evaluators, FinishCycle(e) \/ DatabaseFails(e) PROVE TypeOK'
  <2>1. LocalsOK'
    BY <1>17, LocalsKept DEF FinishCycle, DatabaseFails
  <2> QED
    BY <1>17, <2>1, <1>1 DEF FinishCycle, DatabaseFails, TypeOK
<1>18. ASSUME NEW e \in Evaluators, Crash(e) PROVE TypeOK'
  <2>1. LocalsOK'
    BY <1>18, LocalsKept DEF Crash
  <2>2. faulted' \subseteq Budgets \X Months
    BY <1>18, <1>4 DEF Crash, Faulted, TypeOK, Announcing
  <2> QED
    BY <1>18, <2>1, <2>2, <1>1 DEF Crash, TypeOK
<1>19. CASE UNCHANGED vars
  BY <1>19 DEF vars, TypeOK
<1> QED
  BY <1>5, <1>6, <1>7, <1>8, <1>9, <1>10, <1>11, <1>12, <1>13, <1>14, <1>15, <1>16, <1>17,
     <1>18, <1>19 DEF Next, Advance
----------------------------------------------------------------------------
(* The locals of a cycle.                                                   *)

\* What a cycle of one evaluator does leaves the locals of the others alone.
LEMMA OthersKeep ==
    ASSUME TypeOK, NEW e \in Evaluators, NEW d \in Evaluators, d # e,
           Advance(e) \/ DatabaseFails(e) \/ Crash(e)
    PROVE  /\ pc'[d] = pc[d] /\ moment'[d] = moment[d] /\ termsSeen'[d] = termsSeen[d]
           /\ budget'[d] = budget[d] /\ threshold'[d] = threshold[d]
<1>1. CASE EndCycle(e)
  BY <1>1 DEF EndCycle, TypeOK
<1>2. CASE NextBudget(e)
  BY <1>2 DEF NextBudget, TypeOK
<1>3. CASE \E from \in Steps, to \in Steps : Proceed(e, from, to)
  BY <1>3 DEF Proceed, TypeOK
<1>4. CASE BeginCycle(e) \/ LoadBudgets(e)
  BY <1>4 DEF BeginCycle, LoadBudgets, TypeOK
<1>5. ASSUME NEW b \in Budgets, SkipMalformed(e, b) \/ BelowThresholds(e, b) \/ CrossThreshold(e, b)
      PROVE  /\ pc'[d] = pc[d] /\ moment'[d] = moment[d] /\ termsSeen'[d] = termsSeen[d]
             /\ budget'[d] = budget[d] /\ threshold'[d] = threshold[d]
  BY <1>5 DEF SkipMalformed, BelowThresholds, CrossThreshold, TypeOK
<1> QED
  BY <1>1, <1>2, <1>3, <1>4, <1>5
  DEF Advance, AlreadyAnnounced, NewCrossing, MarkUnreadable, FindDrivers, Send, KeepMark,
      RaiseMark, RereadFails, WriteMark, MarkUnwritable, FinishCycle, DatabaseFails, Crash, Steps

\* What LocalsInv says of one evaluator.
LocalsOf(e) ==
    /\ pc[e] # "idle" => moment[e] \in 1..period
    /\ pc[e] \in Announcing => budget[e] \in Budgets /\ threshold[e] \in Thresholds
    /\ pc[e] \notin Announcing => budget[e] = NoBudget

\* A step of a cycle keeps that of its own locals.
LEMMA OwnLocals ==
    ASSUME TypeOK, NEW e \in Evaluators, LocalsOf(e),
           Advance(e) \/ DatabaseFails(e) \/ Crash(e)
    PROVE  LocalsOf(e)' /\ period' = period
<1> USE DEF LocalsOf, Announcing, world
<1>1. CASE EndCycle(e) /\ period' = period
  BY <1>1 DEF EndCycle, TypeOK
<1>2. CASE NextBudget(e) /\ period' = period /\ pc[e] \in Announcing
  BY <1>2 DEF NextBudget, TypeOK
<1>3. CASE \E from \in Announcing, to \in Announcing : Proceed(e, from, to) /\ period' = period
  BY <1>3 DEF Proceed, TypeOK
<1>4. CASE BeginCycle(e)
  <2>1. period \in 1..period
    BY BoundsAssumption DEF TypeOK, Months
  <2> QED
    BY <1>4, <2>1 DEF BeginCycle, TypeOK
<1>5. CASE LoadBudgets(e)
  BY <1>5 DEF LoadBudgets, TypeOK
<1>6. ASSUME NEW b \in Budgets, SkipMalformed(e, b) \/ BelowThresholds(e, b) \/ CrossThreshold(e, b)
      PROVE  LocalsOf(e)' /\ period' = period
  BY <1>6 DEF SkipMalformed, BelowThresholds, CrossThreshold, TypeOK
<1> QED
  BY <1>1, <1>2, <1>3, <1>4, <1>5, <1>6
  DEF Advance, AlreadyAnnounced, NewCrossing, MarkUnreadable, FindDrivers, Send, KeepMark,
      RaiseMark, RereadFails, WriteMark, MarkUnwritable, FinishCycle, DatabaseFails, Crash

\* A mark is lost with the broker's memory or written by record_fired.
LEMMA MarksChange ==
    ASSUME TypeOK, LocalsInv, [Next]_vars, NEW b \in Budgets, NEW p \in Months,
           mark'[b][p] # mark[b][p]
    PROVE  \/ RedisRestarts
           \/ \E e \in Evaluators : /\ WriteMark(e)
                                    /\ b = budget[e] /\ p = moment[e]
                                    /\ mark'[b][p] = threshold[e]
<1>1. mark' # mark
  OBVIOUS
<1>2. RedisRestarts \/ \E e \in Evaluators : WriteMark(e)
  BY <1>1
  DEF Next, Advance, vars, Ingest, UpdateBudget, Rollover, BeginCycle, LoadBudgets,
      SkipMalformed, BelowThresholds, CrossThreshold, AlreadyAnnounced, NewCrossing,
      MarkUnreadable, FindDrivers, Send, KeepMark, RaiseMark, RereadFails, MarkUnwritable,
      FinishCycle, DatabaseFails, Crash
<1>3. ASSUME NEW e \in Evaluators, WriteMark(e)
      PROVE  /\ b = budget[e] /\ p = moment[e]
             /\ mark'[b][p] = threshold[e]
  <2>1. mark' = [mark EXCEPT ![budget[e]][moment[e]] = threshold[e]]
    BY <1>3 DEF WriteMark
  <2> QED
    BY <2>1 DEF TypeOK
<1> QED
  BY <1>2, <1>3

\* The history of announcements only grows, and only where notifier.send adds.
LEMMA SendsChange ==
    ASSUME TypeOK, LocalsInv, [Next]_vars, NEW b \in Budgets, NEW p \in Months, NEW t \in Thresholds
    PROVE  /\ sends'[b][p][t] >= sends[b][p][t] /\ sends'[b][p][t] <= sends[b][p][t] + 1
           /\ sends'[b][p][t] # sends[b][p][t] =>
                 \E e \in Evaluators :
                    Send(e) /\ b = budget[e] /\ p = moment[e] /\ t = threshold[e]
<1>1. sends' = sends \/ \E e \in Evaluators : Send(e)
  BY DEF Next, Advance, vars, alerts, Ingest, UpdateBudget, Rollover, RedisRestarts, BeginCycle,
      LoadBudgets, SkipMalformed, BelowThresholds, CrossThreshold, AlreadyAnnounced, NewCrossing,
      MarkUnreadable, FindDrivers, KeepMark, RaiseMark, RereadFails, WriteMark, MarkUnwritable,
      FinishCycle, DatabaseFails, Crash
<1>2. CASE sends' = sends
  <2>1. sends[b][p][t] \in 0..SendCap
    BY DEF TypeOK
  <2> QED
    BY <1>2, <2>1, BoundsAssumption
<1> QED
  BY <1>1, <1>2, SendCounts

\* LocalsInv is inductive, given the types.
LEMMA LocalsInvStep == TypeOK /\ LocalsInv /\ [Next]_vars => LocalsInv'
<1> SUFFICES ASSUME TypeOK, LocalsInv, [Next]_vars PROVE LocalsInv'
  OBVIOUS
<1>1. \A e \in Evaluators : LocalsOf(e)
  BY DEF LocalsInv, LocalsOf
<1>2. period' \in Nat /\ period' >= period /\ period \in Nat
  <2>1. period \in Nat
    BY DEF TypeOK, Months
  <2>2. period' = period \/ period' = period + 1
    BY DEF Next, Advance, vars, world, Ingest, UpdateBudget, Rollover, RedisRestarts,
        BeginCycle, LoadBudgets, SkipMalformed, BelowThresholds, CrossThreshold,
        AlreadyAnnounced, NewCrossing, MarkUnreadable, FindDrivers, Send, KeepMark, RaiseMark,
        RereadFails, WriteMark, MarkUnwritable, FinishCycle, DatabaseFails, Crash
  <2> QED
    BY <2>1, <2>2
<1>3. ASSUME NEW b \in Budgets, NEW p \in Months, p > period'
      PROVE  mark'[b][p] = NoMark /\ \A t \in Thresholds : sends'[b][p][t] = 0
  <2>1. p > period
    BY <1>2, <1>3 DEF Months
  <2>2. mark[b][p] = NoMark /\ \A t \in Thresholds : sends[b][p][t] = 0
    BY <2>1 DEF LocalsInv
  <2>3. ASSUME NEW e \in Evaluators, WriteMark(e) \/ Send(e) PROVE p # moment[e]
    <3>1. moment[e] \in 1..period
      BY <2>3, AnnouncingLocals DEF WriteMark, Send, Proceed, Announcing
    <3> QED
      BY <3>1, <2>1, <1>2
  <2>4. mark'[b][p] = NoMark
    <3>1. RedisRestarts => mark'[b][p] = NoMark
      BY DEF RedisRestarts
    <3> QED
      BY <3>1, <2>2, <2>3, MarksChange
  <2>5. ASSUME NEW t \in Thresholds PROVE sends'[b][p][t] = 0
    BY <2>2, <2>3, SendsChange
  <2> QED
    BY <2>4, <2>5
<1>4. ASSUME NEW d \in Evaluators PROVE LocalsOf(d)'
  <2>1. CASE UNCHANGED locals
    BY <2>1, <1>1, <1>2 DEF locals, LocalsOf
  <2>2. ASSUME NEW e \in Evaluators, Advance(e) \/ DatabaseFails(e) \/ Crash(e)
        PROVE  LocalsOf(d)'
    <3>1. period' = period
      BY <2>2, <1>1, OwnLocals
    <3>2. CASE d = e
      BY <2>2, <3>2, <1>1, OwnLocals
    <3>3. CASE d # e
      BY <2>2, <3>1, <3>3, <1>1, OthersKeep DEF LocalsOf
    <3> QED
      BY <3>2, <3>3
  <2> QED
    BY <2>1, <2>2 DEF Next, vars, locals, Ingest, UpdateBudget, Rollover, RedisRestarts
<1> QED
  BY <1>3, <1>4 DEF LocalsInv, LocalsOf

\* Thresholds and marks are numbers and can be compared.
LEMMA MarksAreNumbers ==
    ASSUME NEW b \in Budgets, NEW p \in Months
    PROVE  /\ Thresholds \subseteq Nat
           /\ TypeOK => mark[b][p] \in Nat
           /\ TypeOK' => mark'[b][p] \in Nat
<1>1. Thresholds \cup {NoMark} \subseteq Nat
  BY ThresholdsAssumption DEF NoMark
<1>2. TypeOK => mark[b][p] \in Thresholds \cup {NoMark}
  BY DEF TypeOK
<1>3. TypeOK' => mark'[b][p] \in Thresholds \cup {NoMark}
  BY DEF TypeOK
<1> QED
  BY <1>1, <1>2, <1>3

\* Where the system starts, both hold.
LEMMA StartsTyped == Init => TypeOK /\ LocalsInv
<1> SUFFICES ASSUME Init PROVE TypeOK /\ LocalsInv
  OBVIOUS
<1>1. /\ 1 \in Months /\ 0 \in Nat /\ 0 \in 0..SendCap /\ 0 \in 0..MaxFailures
      /\ "idle" \in Steps /\ "idle" \notin Announcing
  BY BoundsAssumption DEF Months, Steps, Announcing
<1>2. terms \in Tables
  BY DEF Init
<1>3. TypeOK
  BY <1>1, <1>2 DEF Init, TypeOK
<1>4. LocalsInv
  BY <1>1 DEF Init, LocalsInv
<1> QED
  BY <1>3, <1>4

\* Every variable keeps its type in every behaviour, and a cycle only touches
\* months that have begun and a budget and threshold it has really picked.
THEOREM EvaluatorTypeCorrect == Spec => [](TypeOK /\ LocalsInv)
<1>1. Init => TypeOK /\ LocalsInv
  BY StartsTyped
<1>2. TypeOK /\ LocalsInv /\ [Next]_vars => (TypeOK /\ LocalsInv)'
  BY TypeStep, LocalsInvStep
<1> QED
  BY <1>1, <1>2, PTL DEF Spec

----------------------------------------------------------------------------
(* What holds however many evaluators share the marks.                      *)

\* An evaluator that is recording got there by sending; nothing takes that back.
LEMMA RecordingStep ==
    TypeOK /\ LocalsInv /\ RecordingInv /\ [Next]_vars => RecordingInv'
<1> SUFFICES ASSUME TypeOK, LocalsInv, RecordingInv, [Next]_vars,
                    NEW d \in Evaluators, pc'[d] \in {"rereading", "writing"}
             PROVE  sends'[budget'[d]][moment'[d]][threshold'[d]] > 0
  BY DEF RecordingInv
<1>1. ASSUME pc[d] \in {"rereading", "writing"},
             budget'[d] = budget[d], moment'[d] = moment[d], threshold'[d] = threshold[d]
      PROVE  sends'[budget'[d]][moment'[d]][threshold'[d]] > 0
  <2>1. budget[d] \in Budgets /\ moment[d] \in Months /\ threshold[d] \in Thresholds
    BY <1>1, AnnouncingLocals DEF Announcing
  <2>2. sends[budget[d]][moment[d]][threshold[d]] > 0
    BY <1>1 DEF RecordingInv
  <2>3. /\ sends[budget[d]][moment[d]][threshold[d]] \in 0..SendCap
        /\ sends'[budget[d]][moment[d]][threshold[d]] \in 0..SendCap
    BY <2>1, TypeStep DEF TypeOK
  <2>4. sends'[budget[d]][moment[d]][threshold[d]] >= sends[budget[d]][moment[d]][threshold[d]]
    BY <2>1, SendsChange
  <2> QED
    BY <1>1, <2>2, <2>3, <2>4, BoundsAssumption
<1>2. CASE UNCHANGED locals
  BY <1>1, <1>2 DEF locals
<1>3. ASSUME NEW e \in Evaluators, Advance(e) \/ DatabaseFails(e) \/ Crash(e), d # e
      PROVE  sends'[budget'[d]][moment'[d]][threshold'[d]] > 0
  BY <1>1, <1>3, OthersKeep
<1>4. CASE Send(d)
  BY <1>4, SendCounts DEF Send, Proceed
<1>5. CASE RaiseMark(d) \/ RereadFails(d)
  BY <1>1, <1>5 DEF RaiseMark, RereadFails, Proceed
<1>6. CASE EndCycle(d)
  BY <1>6 DEF EndCycle, TypeOK
<1>7. CASE NextBudget(d)
  BY <1>7 DEF NextBudget, TypeOK
<1>8. CASE Proceed(d, "checking", "drivers") \/ Proceed(d, "drivers", "sending")
  BY <1>8 DEF Proceed, TypeOK
<1>9. CASE BeginCycle(d) \/ LoadBudgets(d)
  BY <1>9 DEF BeginCycle, LoadBudgets, TypeOK
<1>10. ASSUME NEW b \in Budgets, SkipMalformed(d, b) \/ BelowThresholds(d, b) \/ CrossThreshold(d, b)
       PROVE  FALSE
  BY <1>10 DEF SkipMalformed, BelowThresholds, CrossThreshold, TypeOK
<1>11. ASSUME Advance(d) \/ DatabaseFails(d) \/ Crash(d)
       PROVE  sends'[budget'[d]][moment'[d]][threshold'[d]] > 0
  BY <1>4, <1>5, <1>6, <1>7, <1>8, <1>9, <1>10, <1>11
  DEF Advance, AlreadyAnnounced, NewCrossing, MarkUnreadable, FindDrivers, KeepMark, WriteMark,
      MarkUnwritable, FinishCycle, DatabaseFails, Crash
<1> QED
  BY <1>2, <1>3, <1>11
  DEF Next, vars, locals, Ingest, UpdateBudget, Rollover, RedisRestarts

\* A mark is written by an evaluator that has sent.
LEMMA MarkFollowsStep ==
    TypeOK /\ LocalsInv /\ RecordingInv /\ MarkFollowsSend /\ [Next]_vars => MarkFollowsSend'
<1> SUFFICES ASSUME TypeOK, LocalsInv, RecordingInv, MarkFollowsSend, [Next]_vars,
                    NEW b \in Budgets, NEW p \in Months, mark'[b][p] # NoMark
             PROVE  sends'[b][p][mark'[b][p]] > 0
  BY DEF MarkFollowsSend
<1>1. TypeOK' /\ mark'[b][p] \in Thresholds
  BY TypeStep DEF TypeOK
<1>2. sends[b][p][mark'[b][p]] > 0
  <2>1. CASE mark'[b][p] = mark[b][p]
    BY <2>1 DEF MarkFollowsSend
  <2>2. CASE mark'[b][p] # mark[b][p]
    <3>1. ~RedisRestarts
      BY DEF RedisRestarts
    <3>2. PICK e \in Evaluators : /\ WriteMark(e)
                                  /\ b = budget[e] /\ p = moment[e]
                                  /\ mark'[b][p] = threshold[e]
      BY <2>2, <3>1, MarksChange
    <3> QED
      BY <3>2 DEF WriteMark, RecordingInv
  <2> QED
    BY <2>1, <2>2
<1>3. sends'[b][p][mark'[b][p]] >= sends[b][p][mark'[b][p]]
  BY <1>1, SendsChange
<1>4. sends'[b][p][mark'[b][p]] \in Nat /\ sends[b][p][mark'[b][p]] \in Nat
  BY <1>1, BoundsAssumption DEF TypeOK
<1> QED
  BY <1>2, <1>3, <1>4

\* No threshold is recorded as announced, for any month, unless notifier.send was
\* called for it in that month: whatever the interleaving of evaluators, outages
\* of the broker and crashes.
THEOREM MarksFollowSends == Spec => []MarkFollowsSend
<1>1. Init => TypeOK /\ LocalsInv /\ RecordingInv /\ MarkFollowsSend
  <2>1. Init => RecordingInv /\ MarkFollowsSend
    BY DEF Init, RecordingInv, MarkFollowsSend
  <2> QED
    BY <2>1, StartsTyped
<1>2. /\ TypeOK /\ LocalsInv /\ RecordingInv /\ MarkFollowsSend
      /\ [Next]_vars
      => (TypeOK /\ LocalsInv /\ RecordingInv /\ MarkFollowsSend)'
  BY TypeStep, LocalsInvStep, RecordingStep, MarkFollowsStep
<1> QED
  BY <1>1, <1>2, PTL DEF Spec
\* Spend of a month never shrinks.
LEMMA SpendGrows ==
    ASSUME TypeOK, [Next]_vars, NEW b \in Budgets, NEW p \in Months
    PROVE  spend[b][p] \in Nat /\ spend'[b][p] \in Nat /\ spend'[b][p] >= spend[b][p]
<1>1. spend[b][p] \in Nat
  BY BoundsAssumption DEF TypeOK
<1>2. CASE spend' = spend
  BY <1>1, <1>2
<1>3. ASSUME NEW a \in Budgets, NEW q \in Months, Ingest(a, q)
      PROVE  spend'[b][p] = spend[b][p] \/ spend'[b][p] = spend[b][p] + 1
  BY <1>3 DEF Ingest, TypeOK
<1>4. spend' = spend \/ \E a \in Budgets, q \in Months : Ingest(a, q)
  BY DEF Next, Advance, vars, world, UpdateBudget, Rollover, RedisRestarts, BeginCycle,
      LoadBudgets, SkipMalformed, BelowThresholds, CrossThreshold, AlreadyAnnounced, NewCrossing,
      MarkUnreadable, FindDrivers, Send, KeepMark, RaiseMark, RereadFails, WriteMark,
      MarkUnwritable, FinishCycle, DatabaseFails, Crash
<1> QED
  BY <1>1, <1>2, <1>3, <1>4

\* A threshold that was reached stays reached while spend grows.
LEMMA ReachedStays ==
    ASSUME NEW t \in Thresholds, NEW row, row.limit \in Nat, NEW s \in Nat, NEW r \in Nat,
           r >= s, t \in Reached(s, row)
    PROVE  t \in Reached(r, row)
<1> DEFINE bar == t * row.limit
<1>1. bar \in Nat
  BY ThresholdsAssumption
<1>2. s * 100 >= bar
  BY DEF Reached
<1> HIDE DEF bar
<1>3. r * 100 >= bar
  BY <1>1, <1>2
<1> QED
  BY <1>3 DEF Reached, bar

\* The justification is made when the threshold is picked and outlives the awaits.
LEMMA JustifiedStep ==
    TypeOK /\ LocalsInv /\ AlertIsJustified /\ [Next]_vars => AlertIsJustified'
<1> SUFFICES ASSUME TypeOK, LocalsInv, AlertIsJustified, [Next]_vars,
                    NEW d \in Evaluators, budget'[d] # NoBudget
             PROVE  threshold'[d] \in Reached(spend'[budget'[d]][moment'[d]],
                                              termsSeen'[d][budget'[d]])
  BY DEF AlertIsJustified, Reached
<1>1. ASSUME budget'[d] = budget[d], moment'[d] = moment[d], threshold'[d] = threshold[d],
             termsSeen'[d] = termsSeen[d]
      PROVE  threshold'[d] \in Reached(spend'[budget'[d]][moment'[d]],
                                       termsSeen'[d][budget'[d]])
  <2>1. pc[d] \in Announcing
    BY <1>1 DEF LocalsInv
  <2>2. budget[d] \in Budgets /\ moment[d] \in Months /\ threshold[d] \in Thresholds
    BY <2>1, AnnouncingLocals
  <2>3. termsSeen[d][budget[d]].limit \in Nat
    <3>1. CASE termsSeen[d] = NoTable
      BY <2>2, <3>1 DEF NoTable, Inactive
    <3>2. CASE termsSeen[d] \in Tables
      BY <2>2, <3>2, TermsAssumption DEF Tables
    <3> QED
      BY <3>1, <3>2 DEF TypeOK
  <2>4. threshold[d] \in Reached(spend[budget[d]][moment[d]], termsSeen[d][budget[d]])
    BY <1>1 DEF AlertIsJustified
  <2>5. threshold[d] \in Reached(spend'[budget[d]][moment[d]], termsSeen[d][budget[d]])
    BY <2>2, <2>3, <2>4, SpendGrows, ReachedStays
  <2> QED
    BY <1>1, <2>5
<1>2. CASE UNCHANGED locals
  BY <1>1, <1>2 DEF locals
<1>3. ASSUME NEW e \in Evaluators, Advance(e) \/ DatabaseFails(e) \/ Crash(e), d # e
      PROVE  threshold'[d] \in Reached(spend'[budget'[d]][moment'[d]],
                                       termsSeen'[d][budget'[d]])
  BY <1>1, <1>3, OthersKeep
<1>4. CASE EndCycle(d) \/ NextBudget(d)
  BY <1>4 DEF EndCycle, NextBudget, TypeOK
<1>5. CASE \E from \in Steps, to \in Steps : Proceed(d, from, to)
  BY <1>1, <1>5 DEF Proceed
<1>6. CASE BeginCycle(d) \/ LoadBudgets(d)
  <2>1. pc[d] \notin Announcing /\ budget' = budget
    BY <1>6 DEF BeginCycle, LoadBudgets, Announcing
  <2> QED
    BY <2>1 DEF LocalsInv
<1>7. ASSUME NEW b \in Budgets, SkipMalformed(d, b) \/ BelowThresholds(d, b)
      PROVE  threshold'[d] \in Reached(spend'[budget'[d]][moment'[d]],
                                       termsSeen'[d][budget'[d]])
  BY <1>1, <1>7 DEF SkipMalformed, BelowThresholds
<1>8. ASSUME NEW b \in Budgets, CrossThreshold(d, b)
      PROVE  threshold'[d] \in Reached(spend'[budget'[d]][moment'[d]],
                                       termsSeen'[d][budget'[d]])
  <2>1. PICK t \in Thresholds : /\ IsCrossed(t, spend[b][moment[d]], termsSeen[d][b])
                                /\ threshold' = [threshold EXCEPT ![d] = t]
    BY <1>8 DEF CrossThreshold
  <2>2. /\ budget'[d] = b /\ threshold'[d] = t
        /\ spend' = spend /\ moment' = moment /\ termsSeen' = termsSeen
    BY <1>8, <2>1 DEF CrossThreshold, TypeOK, world
  <2> QED
    BY <2>1, <2>2 DEF IsCrossed
<1>9. ASSUME Advance(d) \/ DatabaseFails(d) \/ Crash(d)
      PROVE  threshold'[d] \in Reached(spend'[budget'[d]][moment'[d]],
                                       termsSeen'[d][budget'[d]])
  BY <1>4, <1>5, <1>6, <1>7, <1>8, <1>9
  DEF Advance, AlreadyAnnounced, NewCrossing, MarkUnreadable, FindDrivers, Send, KeepMark,
      RaiseMark, RereadFails, WriteMark, MarkUnwritable, FinishCycle, DatabaseFails, Crash, Steps
<1> QED
  BY <1>2, <1>3, <1>9
  DEF Next, vars, locals, Ingest, UpdateBudget, Rollover, RedisRestarts

\* Every alert is true of its own month and of the limit its cycle loaded, however
\* much is ingested, patched or rolled over between picking and sending it.
THEOREM AlertsJustified == Spec => []AlertIsJustified
<1>1. Init => TypeOK /\ LocalsInv /\ AlertIsJustified
  <2>1. Init => AlertIsJustified
    BY DEF Init, AlertIsJustified
  <2> QED
    BY <2>1, StartsTyped
<1>2. TypeOK /\ LocalsInv /\ AlertIsJustified /\ [Next]_vars
      => (TypeOK /\ LocalsInv /\ AlertIsJustified)'
  BY TypeStep, LocalsInvStep, JustifiedStep
<1> QED
  BY <1>1, <1>2, PTL DEF Spec
----------------------------------------------------------------------------
(* What holds with one evaluator: announcements escalate.                   *)

\* A disturbed budget and month stay disturbed.
LEMMA FaultsStay == [Next]_vars => faulted \subseteq faulted'
<1>1. ASSUME NEW e \in Evaluators, Advance(e) \/ DatabaseFails(e) \/ Crash(e)
      PROVE  faulted \subseteq faulted'
  BY <1>1
  DEF Advance, alerts, BeginCycle, LoadBudgets, SkipMalformed, BelowThresholds, CrossThreshold,
      AlreadyAnnounced, NewCrossing, MarkUnreadable, FindDrivers, Send, KeepMark, RaiseMark,
      RereadFails, WriteMark, MarkUnwritable, FinishCycle, DatabaseFails, Crash, Faulted
<1> QED
  BY <1>1 DEF Next, vars, alerts, Ingest, UpdateBudget, Rollover, RedisRestarts

\* EscalationInv, taken apart.
AboveMark(e) ==
    pc[e] \in Announcing \ {"checking"} /\ <<budget[e], moment[e]>> \notin faulted
        => threshold[e] > MarkOf(e)
RecordingAbove(b, p, t) ==
    \E e \in Evaluators : /\ pc[e] \in {"rereading", "writing"}
                          /\ budget[e] = b /\ moment[e] = p
                          /\ t <= threshold[e]
Covered(b, p, t) ==
    sends[b][p][t] > 0 /\ <<b, p>> \notin faulted => t <= mark[b][p] \/ RecordingAbove(b, p, t)

LEMMA EscalationParts ==
    EscalationInv <=> /\ \A e \in Evaluators : AboveMark(e)
                      /\ \A b \in Budgets, p \in Months, t \in Thresholds : Covered(b, p, t)
  BY DEF EscalationInv, AboveMark, Covered, RecordingAbove

\* The lone evaluator stays above the mark it read: nobody else writes marks, and
\* where the broker lost or withheld one the budget and month are disturbed.
LEMMA AboveMarkStep ==
    ASSUME NEW lone, Evaluators = {lone}, TypeOK, LocalsInv, AboveMark(lone), [Next]_vars
    PROVE  AboveMark(lone)'
<1> SUFFICES ASSUME pc'[lone] \in Announcing \ {"checking"},
                    <<budget'[lone], moment'[lone]>> \notin faulted'
             PROVE  threshold'[lone] > mark'[budget'[lone]][moment'[lone]]
  BY DEF AboveMark, MarkOf, Announcing
<1>1. faulted \subseteq faulted'
  BY FaultsStay
<1>2. ASSUME pc[lone] \in Announcing \ {"checking"}, mark' = mark,
             budget'[lone] = budget[lone], moment'[lone] = moment[lone],
             threshold'[lone] = threshold[lone]
      PROVE  threshold'[lone] > mark'[budget'[lone]][moment'[lone]]
  BY <1>1, <1>2 DEF AboveMark, MarkOf
<1>3. CASE UNCHANGED locals /\ mark' = mark
  BY <1>2, <1>3 DEF locals
<1>4. CASE RedisRestarts
  <2>1. budget[lone] \in Budgets /\ moment[lone] \in 1..period
    BY <1>4, AnnouncingLocals DEF RedisRestarts, locals
  <2>2. <<budget'[lone], moment'[lone]>> \in faulted'
    BY <1>4, <2>1 DEF RedisRestarts, locals
  <2> QED
    BY <2>2
<1>5. CASE NewCrossing(lone)
  BY <1>5 DEF NewCrossing, Proceed, MarkOf
<1>6. CASE MarkUnreadable(lone)
  BY <1>6 DEF MarkUnreadable, Faulted, Proceed
<1>7. CASE FindDrivers(lone) \/ Send(lone) \/ RaiseMark(lone) \/ RereadFails(lone)
  BY <1>2, <1>7 DEF FindDrivers, Send, RaiseMark, RereadFails, Proceed, Announcing
<1>8. CASE EndCycle(lone) \/ NextBudget(lone)
  BY <1>8 DEF EndCycle, NextBudget, TypeOK, Announcing
<1>9. CASE BeginCycle(lone) \/ LoadBudgets(lone)
  BY <1>9 DEF BeginCycle, LoadBudgets, TypeOK, Announcing
<1>10. ASSUME NEW b \in Budgets,
              SkipMalformed(lone, b) \/ BelowThresholds(lone, b) \/ CrossThreshold(lone, b)
       PROVE  FALSE
  BY <1>10 DEF SkipMalformed, BelowThresholds, CrossThreshold, TypeOK, Announcing
<1>11. CASE Advance(lone) \/ DatabaseFails(lone) \/ Crash(lone)
  BY <1>5, <1>6, <1>7, <1>8, <1>9, <1>10, <1>11
  DEF Advance, AlreadyAnnounced, KeepMark, WriteMark, MarkUnwritable, FinishCycle,
      DatabaseFails, Crash
<1> QED
  BY <1>3, <1>4, <1>11 DEF Next, vars, locals, Ingest, UpdateBudget, Rollover

\* What was sent stays under the mark or under what is being recorded: the mark is
\* only replaced by something above it, and recording is only given up when the
\* mark is there already or the budget and month become disturbed.
LEMMA CoveredStep ==
    ASSUME NEW lone, Evaluators = {lone}, TypeOK, LocalsInv, AboveMark(lone), [Next]_vars,
           NEW b \in Budgets, NEW p \in Months, NEW t \in Thresholds, Covered(b, p, t)
    PROVE  Covered(b, p, t)'
<1> SUFFICES ASSUME sends'[b][p][t] > 0, <<b, p>> \notin faulted',
                    ~RecordingAbove(b, p, t)'
             PROVE  t <= mark'[b][p]
  BY DEF Covered
<1>1. <<b, p>> \notin faulted
  BY FaultsStay
<1>2. t \in Nat /\ mark[b][p] \in Nat /\ mark'[b][p] \in Nat
  <2>1. TypeOK'
    BY TypeStep
  <2>2. mark'[b][p] \in Nat
    BY <2>1, MarksAreNumbers
  <2> QED
    BY <2>2, MarksAreNumbers
<1>3. ~(Send(lone) /\ b = budget[lone] /\ p = moment[lone] /\ t = threshold[lone])
  BY <1>2 DEF Send, Proceed, RecordingAbove, TypeOK
<1>4. sends[b][p][t] > 0
  BY <1>3, SendsChange
<1>5. t <= mark[b][p] \/ RecordingAbove(b, p, t)
  BY <1>1, <1>4 DEF Covered
<1> DEFINE recording == /\ pc[lone] \in {"rereading", "writing"}
                        /\ budget[lone] = b /\ moment[lone] = p
                        /\ t <= threshold[lone]
<1>6. t <= mark[b][p] \/ recording
  BY <1>5 DEF RecordingAbove
<1>7. ~ /\ pc'[lone] \in {"rereading", "writing"}
        /\ budget'[lone] = b /\ moment'[lone] = p
        /\ t <= threshold'[lone]
  BY DEF RecordingAbove
<1>8. ASSUME mark' = mark, ~recording PROVE t <= mark'[b][p]
  BY <1>6, <1>8
<1>9. CASE UNCHANGED locals /\ mark' = mark
  BY <1>7, <1>8, <1>9 DEF locals
<1>10. ~RedisRestarts
  <2>1. p <= period
    BY <1>4 DEF LocalsInv, Months, TypeOK
  <2>2. p \in 1..period
    BY <2>1 DEF Months, TypeOK
  <2> QED
    BY <2>2 DEF RedisRestarts
<1>11. CASE WriteMark(lone)
  <2>1. /\ budget[lone] \in Budgets /\ moment[lone] \in Months /\ threshold[lone] \in Thresholds
        /\ pc[lone] \in Announcing \ {"checking"}
    BY <1>11, AnnouncingLocals DEF WriteMark, Announcing
  <2>2. mark' = [mark EXCEPT ![budget[lone]][moment[lone]] = threshold[lone]]
    BY <1>11 DEF WriteMark
  <2>3. CASE budget[lone] = b /\ moment[lone] = p
    <3>1. mark'[b][p] = threshold[lone] /\ threshold[lone] \in Nat
      BY <2>1, <2>2, <2>3, ThresholdsAssumption DEF TypeOK
    <3>2. threshold[lone] > mark[b][p]
      BY <1>1, <2>1, <2>3 DEF AboveMark, MarkOf
    <3> QED
      BY <1>2, <1>6, <3>1, <3>2
  <2>4. CASE ~(budget[lone] = b /\ moment[lone] = p)
    BY <1>6, <2>2, <2>4 DEF TypeOK
  <2> QED
    BY <2>3, <2>4
<1>12. CASE KeepMark(lone)
  <2>1. threshold[lone] <= mark[budget[lone]][moment[lone]] /\ mark' = mark
    BY <1>12 DEF KeepMark, MarkOf
  <2>2. recording => threshold[lone] \in Nat
    BY AnnouncingLocals, ThresholdsAssumption DEF Announcing
  <2> QED
    BY <1>2, <1>6, <2>1, <2>2
<1>13. CASE MarkUnwritable(lone) \/ Crash(lone)
  BY <1>8, <1>13 DEF MarkUnwritable, Crash, Faulted
<1>14. CASE RaiseMark(lone) \/ RereadFails(lone)
  BY <1>7, <1>8, <1>14 DEF RaiseMark, RereadFails, Proceed, TypeOK
<1>15. CASE \/ BeginCycle(lone) \/ LoadBudgets(lone) \/ FinishCycle(lone) \/ DatabaseFails(lone)
            \/ AlreadyAnnounced(lone) \/ NewCrossing(lone) \/ MarkUnreadable(lone)
            \/ FindDrivers(lone) \/ Send(lone)
  BY <1>8, <1>15
  DEF BeginCycle, LoadBudgets, FinishCycle, DatabaseFails, AlreadyAnnounced, NewCrossing,
      MarkUnreadable, FindDrivers, Send, Proceed
<1>16. ASSUME NEW a \in Budgets,
              SkipMalformed(lone, a) \/ BelowThresholds(lone, a) \/ CrossThreshold(lone, a)
       PROVE  t <= mark'[b][p]
  BY <1>8, <1>16 DEF SkipMalformed, BelowThresholds, CrossThreshold
<1> HIDE DEF recording
<1>17. CASE Advance(lone) \/ DatabaseFails(lone) \/ Crash(lone)
  BY <1>11, <1>12, <1>13, <1>14, <1>15, <1>16, <1>17 DEF Advance
<1> QED
  BY <1>9, <1>10, <1>17 DEF Next, vars, locals, Ingest, UpdateBudget, Rollover
\* With one evaluator the strengthened invariant is inductive.
LEMMA EscalationStep ==
    ASSUME NEW lone, Evaluators = {lone}
    PROVE  TypeOK /\ LocalsInv /\ EscalationInv /\ [Next]_vars => EscalationInv'
<1> SUFFICES ASSUME TypeOK, LocalsInv, EscalationInv, [Next]_vars PROVE EscalationInv'
  OBVIOUS
<1>1. /\ AboveMark(lone)
      /\ \A b \in Budgets, p \in Months, t \in Thresholds : Covered(b, p, t)
  BY EscalationParts
<1>2. AboveMark(lone)'
  BY <1>1, AboveMarkStep
<1>3. ASSUME NEW b \in Budgets, NEW p \in Months, NEW t \in Thresholds
      PROVE  Covered(b, p, t)'
  BY <1>1, CoveredStep
<1>4. EscalationInv' <=> /\ \A e \in Evaluators : AboveMark(e)'
                         /\ \A b \in Budgets, p \in Months, t \in Thresholds : Covered(b, p, t)'
  BY DEF EscalationInv, AboveMark, Covered, RecordingAbove, MarkOf
<1> QED
  BY <1>2, <1>3, <1>4

\* What the lone evaluator sends is above all it sent before.
LEMMA SendsUpwards ==
    ASSUME NEW lone, Evaluators = {lone}, TypeOK, LocalsInv, EscalationInv,
           pc[lone] = "sending", <<budget[lone], moment[lone]>> \notin faulted,
           NEW u \in Thresholds, u >= threshold[lone]
    PROVE  sends[budget[lone]][moment[lone]][u] = 0
<1> DEFINE b == budget[lone]
           p == moment[lone]
<1>1. b \in Budgets /\ p \in Months /\ threshold[lone] \in Thresholds
  BY AnnouncingLocals DEF Announcing
<1>2. AboveMark(lone) /\ Covered(b, p, u)
  BY <1>1, EscalationParts
<1>3. threshold[lone] > mark[b][p]
  BY <1>2 DEF AboveMark, MarkOf, Announcing
<1>4. ~(u <= mark[b][p])
  <2>1. u \in Nat /\ threshold[lone] \in Nat /\ mark[b][p] \in Nat
    BY <1>1, MarksAreNumbers
  <2> QED
    BY <1>3, <2>1
<1>5. ~RecordingAbove(b, p, u)
  BY DEF RecordingAbove
<1>6. sends[b][p][u] \in 0..SendCap
  BY <1>1 DEF TypeOK
<1>7. ~(sends[b][p][u] > 0)
  BY <1>2, <1>4, <1>5 DEF Covered
<1> QED
  BY <1>6, <1>7, BoundsAssumption

\* AnnouncingInv, the invariants together: with one evaluator the mark and what is
\* being recorded account for every announcement of an undisturbed budget.
THEOREM LoneEvaluatorInvariant ==
    ASSUME NEW lone, Evaluators = {lone}
    PROVE  Spec => []AnnouncingInv
<1>1. Init => TypeOK /\ AnnouncingInv
  <2>1. Init => RecordingInv /\ EscalationInv
    BY DEF Init, RecordingInv, EscalationInv, Announcing
  <2> QED
    BY <2>1, StartsTyped DEF AnnouncingInv
<1>2. TypeOK /\ AnnouncingInv /\ [Next]_vars => (TypeOK /\ AnnouncingInv)'
  <2> SUFFICES ASSUME TypeOK, LocalsInv, RecordingInv, EscalationInv, [Next]_vars
               PROVE  TypeOK' /\ LocalsInv' /\ RecordingInv' /\ EscalationInv'
    BY DEF AnnouncingInv
  <2> QED
    BY TypeStep, LocalsInvStep, RecordingStep, EscalationStep
<1> QED
  BY <1>1, <1>2, PTL DEF Spec

\* One evaluator process: within a month the announcements of a budget escalate,
\* across crashes, restarts, changed limits and months, unless the broker lost or
\* withheld the mark of that very budget and month.
THEOREM LoneEvaluatorEscalates ==
    ASSUME NEW lone, Evaluators = {lone}
    PROVE  Spec => AnnouncesUpwards
<1>1. Init => TypeOK /\ LocalsInv /\ EscalationInv
  <2>1. Init => EscalationInv
    BY DEF Init, EscalationInv, Announcing
  <2> QED
    BY <2>1, StartsTyped
<1>2. TypeOK /\ LocalsInv /\ EscalationInv /\ [Next]_vars
      => (TypeOK /\ LocalsInv /\ EscalationInv)'
  BY TypeStep, LocalsInvStep, EscalationStep
<1>3. TypeOK /\ LocalsInv /\ EscalationInv /\ [Next]_vars
      => [\A e \in Evaluators :
            pc[e] = "sending" /\ pc'[e] = "rereading" /\ <<budget[e], moment[e]>> \notin faulted =>
              \A u \in Thresholds : u >= threshold[e] => sends[budget[e]][moment[e]][u] = 0]_vars
  BY SendsUpwards
<1> QED
  BY <1>1, <1>2, <1>3, PTL DEF Spec, AnnouncesUpwards

\* One evaluator process: the recorded threshold never falls, except where the
\* broker lost it or a read or write of it had failed.
THEOREM LoneEvaluatorKeepsMark ==
    ASSUME NEW lone, Evaluators = {lone}
    PROVE  Spec => MarkFallsOnlyAfterFault
<1>1. Init => TypeOK /\ LocalsInv /\ EscalationInv
  <2>1. Init => EscalationInv
    BY DEF Init, EscalationInv, Announcing
  <2> QED
    BY <2>1, StartsTyped
<1>2. TypeOK /\ LocalsInv /\ EscalationInv /\ [Next]_vars
      => (TypeOK /\ LocalsInv /\ EscalationInv)'
  BY TypeStep, LocalsInvStep, EscalationStep
<1>3. TypeOK /\ LocalsInv /\ EscalationInv /\ [Next]_vars
      => [\A b \in Budgets, p \in Months :
            mark'[b][p] < mark[b][p] => <<b, p>> \in faulted']_vars
  <2> SUFFICES ASSUME TypeOK, LocalsInv, EscalationInv, [Next]_vars,
                      NEW b \in Budgets, NEW p \in Months, mark'[b][p] < mark[b][p]
               PROVE  <<b, p>> \in faulted'
    OBVIOUS
  <2>1. mark[b][p] \in Nat /\ mark'[b][p] \in Nat /\ mark'[b][p] # mark[b][p]
    <3>1. TypeOK'
      BY TypeStep
    <3>2. mark[b][p] \in Nat /\ mark'[b][p] \in Nat
      BY <3>1, MarksAreNumbers
    <3> QED
      BY <3>2
  <2>2. CASE RedisRestarts
    <3>1. mark[b][p] # NoMark
      BY <2>1 DEF NoMark
    <3>2. p <= period
      BY <3>1 DEF LocalsInv, Months, TypeOK
    <3>3. p \in 1..period
      BY <3>2 DEF Months, TypeOK
    <3> QED
      BY <2>2, <3>3 DEF RedisRestarts
  <2>3. CASE ~RedisRestarts
    <3>1. /\ WriteMark(lone)
          /\ b = budget[lone] /\ p = moment[lone]
          /\ mark'[b][p] = threshold[lone]
      BY <2>1, <2>3, MarksChange
    <3>2. AboveMark(lone)
      BY EscalationParts
    <3>3. <<b, p>> \notin faulted => mark'[b][p] > mark[b][p]
      BY <3>1, <3>2 DEF AboveMark, MarkOf, WriteMark, Announcing
    <3>4. <<b, p>> \in faulted
      BY <2>1, <3>3
    <3> QED
      BY <3>4, FaultsStay
  <2> QED
    BY <2>2, <2>3
<1> QED
  BY <1>1, <1>2, <1>3, PTL DEF Spec, MarkFallsOnlyAfterFault
\* One evaluator process: no threshold of an undisturbed budget and month is
\* announced twice.
THEOREM LoneEvaluatorAnnouncesOnce ==
    ASSUME NEW lone, Evaluators = {lone}
    PROVE  Spec => []AnnouncedOnce
<1>1. Init => TypeOK /\ LocalsInv /\ EscalationInv /\ AnnouncedOnce
  <2>1. Init => EscalationInv /\ AnnouncedOnce
    BY DEF Init, EscalationInv, AnnouncedOnce, Announcing
  <2> QED
    BY <2>1, StartsTyped
<1>2. ASSUME TypeOK, LocalsInv, EscalationInv, AnnouncedOnce, [Next]_vars,
             NEW b \in Budgets, NEW p \in Months, NEW t \in Thresholds, <<b, p>> \notin faulted'
      PROVE  sends'[b][p][t] <= 1
  <2>1. <<b, p>> \notin faulted
    BY <1>2, FaultsStay
  <2>2. sends[b][p][t] <= 1
    BY <1>2, <2>1 DEF AnnouncedOnce
  <2>3. sends'[b][p][t] <= sends[b][p][t] + 1
    BY <1>2, SendsChange
  <2>4. ASSUME Send(lone), b = budget[lone], p = moment[lone], t = threshold[lone]
        PROVE  sends[b][p][t] = 0
    BY <1>2, <2>1, <2>4, SendsUpwards, MarksAreNumbers DEF Send, Proceed
  <2>5. sends'[b][p][t] # sends[b][p][t] => sends[b][p][t] = 0
    BY <1>2, <2>4, SendsChange
  <2> QED
    BY <2>2, <2>3, <2>5
<1>3. TypeOK /\ LocalsInv /\ EscalationInv /\ AnnouncedOnce /\ [Next]_vars
      => (TypeOK /\ LocalsInv /\ EscalationInv /\ AnnouncedOnce)'
  <2>1. TypeOK /\ LocalsInv /\ EscalationInv /\ AnnouncedOnce /\ [Next]_vars => AnnouncedOnce'
    BY <1>2 DEF AnnouncedOnce
  <2> QED
    BY <2>1, TypeStep, LocalsInvStep, EscalationStep
<1> QED
  BY <1>1, <1>3, PTL DEF Spec
=============================================================================
