---------------------------- MODULE TrafficProofs ----------------------------
(***************************************************************************)
(* Theorems about Traffic for every number of calls and permits, every      *)
(* ceiling and every cost.                                                  *)
(***************************************************************************)
EXTENDS Traffic, TLAPS

\* The counts keep their types: no more requests are in flight than there are
\* permits, and no task passes the semaphore before it is created.
CountsOK ==
    /\ created \in Nat /\ created <= Count
    /\ passed \in Nat /\ passed <= created
    /\ inflight \in Nat /\ inflight <= Concurrency
    /\ sent \in Nat /\ failed \in Nat /\ spend \in Nat

LEMMA CountsStep == CountsOK /\ [Next]_vars => CountsOK'
<1> SUFFICES ASSUME CountsOK, [Next]_vars PROVE CountsOK'
  OBVIOUS
<1> USE OptionsAssumption DEF CountsOK
<1>1. CASE CreateTask
  BY <1>1 DEF CreateTask
<1>2. CASE CreateAllTasks
  BY <1>2 DEF CreateAllTasks
<1>3. CASE StopCreating \/ AllCreated \/ TasksEnd
  BY <1>3 DEF StopCreating, AllCreated, TasksEnd
<1>4. CASE Dispatch
  BY <1>4 DEF Dispatch, Admitted
<1>5. CASE Refuse
  BY <1>5 DEF Refuse, Admitted
<1>6. CASE Respond
  <2>1. PICK cost \in 0..MaxCost : spend' = spend + cost
    BY <1>6 DEF Respond
  <2> QED
    BY <1>6, <2>1 DEF Respond
<1>7. CASE Fail
  BY <1>7 DEF Fail
<1>8. CASE UNCHANGED vars
  BY <1>8 DEF vars
<1> QED
  BY <1>1, <1>2, <1>3, <1>4, <1>5, <1>6, <1>7, <1>8 DEF Next

\* Every variable keeps its type.
THEOREM TrafficTypeCorrect == Spec => []TypeOK
<1> DEFINE FlagsOK == /\ paced \in BOOLEAN
                      /\ producer \in {"creating", "waiting", "done"}
                      /\ aborted \in BOOLEAN
<1>1. Init => CountsOK
  BY OptionsAssumption DEF Init, CountsOK
<1>2. Init => FlagsOK
  BY DEF Init
<1>3. FlagsOK /\ [Next]_vars => FlagsOK'
  BY DEF Next, vars, CreateTask, CreateAllTasks, StopCreating, AllCreated, TasksEnd, Dispatch,
      Refuse, Respond, Fail
<1>4. CountsOK /\ FlagsOK => TypeOK
  BY OptionsAssumption DEF CountsOK, TypeOK
<1> HIDE DEF FlagsOK
<1> QED
  BY <1>1, <1>2, <1>3, <1>4, CountsStep, PTL DEF Spec

\* One call more in flight may cost once more, and a call less in flight frees
\* room for one cost.
LEMMA RoomForOne ==
    ASSUME NEW n \in Nat, NEW m \in Nat
    PROVE  /\ n * m \in Nat
           /\ (n + 1) * m = n * m + m
           /\ n > 0 => (n - 1) * m = n * m - m
  OBVIOUS

\* What fits under the permits costs no more than all of them.
LEMMA RoomUnderPermits ==
    ASSUME NEW n \in Nat, NEW k \in Nat, NEW m \in Nat, n <= k
    PROVE  n * m <= k * m
<1>1. k - n \in Nat /\ (k - n) * m \in Nat
  OBVIOUS
<1>2. k * m = n * m + (k - n) * m
  OBVIOUS
<1> QED
  BY <1>1, <1>2

\* The room is taken when a call is dispatched under the ceiling, and only used
\* up when it is answered.
LEMMA RoomStep == TypeOK /\ RoomInv /\ [Next]_vars => RoomInv'
<1> SUFFICES ASSUME TypeOK, RoomInv, [Next]_vars PROVE RoomInv'
  OBVIOUS
<1> USE OptionsAssumption
<1>1. /\ inflight \in Nat /\ inflight <= Concurrency /\ spend \in Nat
      /\ inflight * MaxCost \in Nat /\ Concurrency * MaxCost \in Nat
  BY RoomForOne DEF TypeOK
<1>2. CASE UNCHANGED <<inflight, spend>>
  BY <1>2 DEF RoomInv
<1>3. CASE Dispatch
  <2>1. spend' = spend /\ spend < Ceiling /\ inflight' = inflight + 1 /\ inflight + 1 <= Concurrency
    BY <1>1, <1>3 DEF Dispatch, Admitted, OverBudget
  <2>2. inflight' * MaxCost <= Concurrency * MaxCost /\ inflight' * MaxCost \in Nat
    BY <1>1, <2>1, RoomUnderPermits, RoomForOne
  <2> QED
    BY <1>1, <2>1, <2>2 DEF RoomInv
<1>4. CASE Respond
  <2>1. PICK cost \in 0..MaxCost : spend' = spend + cost
    BY <1>4 DEF Respond
  <2>2. inflight > 0 /\ inflight' = inflight - 1
    BY <1>4 DEF Respond
  <2>3. inflight' * MaxCost = inflight * MaxCost - MaxCost
    BY <1>1, <2>2, RoomForOne
  <2>4. spend + inflight * MaxCost < Ceiling + Concurrency * MaxCost
    BY <2>2 DEF RoomInv
  <2> QED
    BY <1>1, <2>1, <2>3, <2>4 DEF RoomInv
<1>5. CASE Fail
  <2>1. inflight > 0 /\ inflight' = inflight - 1 /\ spend' = spend
    BY <1>5 DEF Fail
  <2>2. inflight' * MaxCost = inflight * MaxCost - MaxCost
    BY <1>1, <2>1, RoomForOne
  <2>3. spend + inflight * MaxCost < Ceiling + Concurrency * MaxCost
    BY <2>1 DEF RoomInv
  <2> QED
    BY <1>1, <2>1, <2>2, <2>3 DEF RoomInv
<1> QED
  BY <1>2, <1>3, <1>4, <1>5
  DEF Next, vars, CreateTask, CreateAllTasks, StopCreating, AllCreated, TasksEnd, Refuse

\* However many calls run at once and whatever they cost, the ceiling is passed by
\* less than one call for every permit.
THEOREM CeilingOvershoot == Spec => []OvershootBounded
<1>1. Init => RoomInv
  BY DEF Init, RoomInv
<1>2. TypeOK /\ RoomInv => OvershootBounded
  <2> SUFFICES ASSUME TypeOK, RoomInv, spend > 0
               PROVE  spend < Ceiling + Concurrency * MaxCost
    BY DEF OvershootBounded
  <2>1. inflight * MaxCost \in Nat /\ Concurrency * MaxCost \in Nat
    BY OptionsAssumption, RoomForOne DEF TypeOK
  <2>2. spend + inflight * MaxCost < Ceiling + Concurrency * MaxCost
    BY DEF RoomInv
  <2> QED
    BY <2>1, <2>2, OptionsAssumption DEF TypeOK
<1> QED
  BY <1>1, <1>2, RoomStep, TrafficTypeCorrect, PTL DEF Spec

\* A task is lost only to the ceiling, and then the report says so.
LEMMA AccountStep == TypeOK /\ AccountInv /\ [Next]_vars => AccountInv'
<1> SUFFICES ASSUME TypeOK, AccountInv, [Next]_vars PROVE AccountInv'
  OBVIOUS
<1> USE OptionsAssumption DEF TypeOK, AccountInv, OverBudget
<1>1. CASE CreateTask \/ CreateAllTasks \/ StopCreating \/ AllCreated
  BY <1>1 DEF CreateTask, CreateAllTasks, StopCreating, AllCreated
<1>2. CASE TasksEnd
  BY <1>2 DEF TasksEnd
<1>3. CASE Dispatch \/ Refuse
  BY <1>3 DEF Dispatch, Refuse, Admitted
<1>4. CASE Respond
  <2>1. PICK cost \in 0..MaxCost : spend' = spend + cost
    BY <1>4 DEF Respond
  <2> QED
    BY <1>4, <2>1 DEF Respond
<1>5. CASE Fail
  BY <1>5 DEF Fail
<1>6. CASE UNCHANGED vars
  BY <1>6 DEF vars
<1> QED
  BY <1>1, <1>2, <1>3, <1>4, <1>5, <1>6 DEF Next

\* A finished run that names no reason has an outcome for every planned call.
THEOREM ReportHonest == Spec => []ReportIsHonest
<1>1. Init => AccountInv
  BY DEF Init, AccountInv
<1>2. TypeOK /\ AccountInv => ReportIsHonest
  BY DEF TypeOK, AccountInv, ReportIsHonest
<1> QED
  BY <1>1, <1>2, AccountStep, TrafficTypeCorrect, PTL DEF Spec
=============================================================================
