------------------------------ MODULE ApiProofs ------------------------------
(***************************************************************************)
(* Theorems about Api for any number of concurrent requests, and about the  *)
(* forecast for every spend, limit and instant of a month.                  *)
(***************************************************************************)
EXTENDS Api, AggregationProofs

Columns == {"id", "team", "period", "limit", "thresholds", "is_active"}

Steps == {"idle", "validate", "read", "write", "refresh", "answered"}

\* The budget table: ids below the sequence, columns of their types.
RowsOK ==
    /\ nextId \in Nat /\ nextId >= 1
    /\ \A b \in budgets :
        /\ b.id \in 1..nextId - 1
        /\ b.limit \in Int /\ b.limit > 0 /\ b.is_active \in BOOLEAN
        /\ DOMAIN b = Columns

SlotsOK ==
    /\ request \in [Slots -> Requests \cup {None}]
    /\ step \in [Slots -> Steps]
    /\ wrote \in [Slots -> BOOLEAN]
    /\ row = [s \in Slots |-> row[s]]
    /\ answer = [s \in Slots |-> answer[s]]
    /\ served \in 0..MaxRequests

\* The slot's handler holds a budget row.
HasRow(s) ==
    \/ At(s, "write", {"update_budget", "delete_budget"})
    \/ At(s, "refresh", {"create_budget", "update_budget"})
    \/ /\ At(s, "answered", {"create_budget", "update_budget", "delete_budget"})
       /\ wrote[s] \/ answer[s].status = 204

\* A row that is held names a budget as it is, or one that has gone for good.
RowKnown(s) ==
    /\ row[s].id \in 1..nextId - 1
    /\ \A b \in budgets : b.id = row[s].id =>
            b.team = row[s].team /\ b.period = row[s].period

\* What a handler may rely on where it is.
Handling(s) ==
    /\ step[s] = "idle" <=> request[s] = None
    /\ step[s] \in {"idle", "validate", "read", "write"} => ~wrote[s]
    /\ step[s] \in {"read", "write"} => ValidPayload(request[s])
    /\ HasRow(s) => RowKnown(s)
    /\ At(s, "write", {"update_budget", "delete_budget"}) => row[s].id = request[s].id
    /\ At(s, "refresh", {"create_budget", "create_team"}) => wrote[s]
    /\ At(s, "refresh", {"create_budget"}) =>
            row[s].team = request[s].team /\ row[s].period = request[s].period

Answered500(s) ==
    Status(s) = 500 /\ wrote[s] /\ request[s].kind # "create_team" =>
        Find(row[s].id) = {} \/ row[s].thresholds = None

\* What an answer says.
Honest(s) ==
    step[s] = "answered" =>
        /\ Status(s) \in 400..499 => ~wrote[s]
        /\ Answered500(s)
        /\ Status(s) = 500 /\ wrote[s] =>
                request[s].kind \in {"create_team", "create_budget", "update_budget"}
        /\ Status(s) = 201 => wrote[s]
        /\ Status(s) = 201 /\ request[s].kind = "create_budget" =>
                /\ answer[s].body.team = request[s].team
                /\ answer[s].body.period = request[s].period
        /\ Status(s) = 204 /\ request[s].kind = "delete_budget" =>
                Find(request[s].id) = {} /\ row[s].id = request[s].id

ApiInv ==
    /\ RowsOK /\ OneBudgetPerTeam /\ SlotsOK
    /\ \A s \in Slots : Handling(s) /\ Honest(s)

----------------------------------------------------------------------------
(* The budget table.                                                        *)

\* Every row of the table after a step was there before, perhaps with other
\* settings, or has the next id.
Evolves ==
    /\ nextId' \in {nextId, nextId + 1}
    /\ \A new \in budgets' :
        \/ \E old \in budgets : old.id = new.id /\ old.team = new.team /\ old.period = new.period
        \/ new.id = nextId /\ nextId' = nextId + 1

\* An update leaves the key of its row alone.
LEMMA UpdateKeepsKey ==
    ASSUME ApiInv, NEW s \in Slots, At(s, "write", {"update_budget"}), NEW b \in budgets
    PROVE  LET u == Updated(s, b)
           IN /\ DOMAIN u = Columns
              /\ u.id = b.id /\ u.team = b.team /\ u.period = b.period
              /\ \A f \in Columns :
                    u[f] = IF f \in ChangedFields(s) THEN request[s].fields[f] ELSE b[f]
<1>1. request[s] \in Requests /\ request[s].kind = "update_budget"
  BY DEF At, ApiInv, SlotsOK
<1>2. DOMAIN request[s].fields \subseteq {"limit", "thresholds", "is_active"}
  BY <1>1, ApiAssumption DEF ApiAssumption
<1>3. ChangedFields(s) \subseteq {"limit", "thresholds", "is_active"}
  BY <1>2 DEF ChangedFields
<1>4. DOMAIN b = Columns
  BY DEF ApiInv, RowsOK
<1> QED
  BY <1>3, <1>4 DEF Updated, Columns

\* A budget that may be stored is of the right type.
LEMMA InsertStep ==
    ASSUME ApiInv, NEW s \in Slots, CreateBudgetWrite(s)
    PROVE  RowsOK' /\ OneBudgetPerTeam' /\ Evolves
<1> DEFINE q == request[s]
           new == [id |-> nextId, team |-> q.team, period |-> q.period, limit |-> q.limit,
                   thresholds |-> q.thresholds, is_active |-> q.is_active]
<1>1. q \in Requests /\ q.kind = "create_budget" /\ ValidPayload(q)
  BY DEF CreateBudgetWrite, At, ApiInv, SlotsOK, Handling
<1>2. q.limit \in Int /\ q.limit > 0 /\ q.is_active \in BOOLEAN
  BY <1>1, ApiAssumption DEF ApiAssumption, ValidPayload
<1>3. nextId' = nextId + 1 /\ nextId \in Nat /\ nextId >= 1
  BY DEF CreateBudgetWrite, ApiInv, RowsOK
<1>4. \/ budgets' = budgets \cup {new} /\ UniqueBudget(q)
      \/ budgets' = budgets
  BY DEF CreateBudgetWrite
<1>5. /\ DOMAIN new = Columns
      /\ new.id = nextId /\ new.team = q.team /\ new.period = q.period
      /\ new.limit = q.limit /\ new.is_active = q.is_active
  BY DEF Columns
<1> HIDE DEF new, q
<1>6. RowsOK'
  <2> SUFFICES ASSUME NEW b \in budgets'
               PROVE  /\ b.id \in 1..nextId' - 1
                      /\ b.limit \in Int /\ b.limit > 0 /\ b.is_active \in BOOLEAN
                      /\ DOMAIN b = Columns
    BY <1>3 DEF RowsOK
  <2>1. CASE b = new
    BY <2>1, <1>2, <1>3, <1>5
  <2>2. CASE b \in budgets
    BY <2>2, <1>3 DEF ApiInv, RowsOK
  <2> QED
    BY <1>4, <2>1, <2>2
<1>7. OneBudgetPerTeam'
  <2>1. CASE budgets' = budgets
    BY <2>1 DEF ApiInv, OneBudgetPerTeam
  <2>2. CASE budgets' = budgets \cup {new} /\ UniqueBudget(q)
    <3>1. \A b \in budgets : b.id # new.id
      BY <1>3, <1>5 DEF ApiInv, RowsOK
    <3>2. \A b \in budgets : ~(b.team = new.team /\ b.period = new.period)
      BY <2>2, <1>5 DEF UniqueBudget, OfTeam
    <3> QED
      BY <2>2, <3>1, <3>2 DEF ApiInv, OneBudgetPerTeam
  <2> QED
    BY <1>4, <2>1, <2>2
<1>8. Evolves
  BY <1>3, <1>4, <1>5 DEF Evolves
<1> QED
  BY <1>6, <1>7, <1>8

\* A change of settings keeps ids, teams and periods.
LEMMA UpdateStep ==
    ASSUME ApiInv, NEW s \in Slots, UpdateBudgetWrite(s)
    PROVE  RowsOK' /\ OneBudgetPerTeam' /\ Evolves
<1>1. At(s, "write", {"update_budget"}) /\ nextId' = nextId
  BY DEF UpdateBudgetWrite
<1>2. CASE budgets' = budgets
  BY <1>1, <1>2 DEF ApiInv, RowsOK, OneBudgetPerTeam, Evolves
<1>3. CASE ~NullRefused(s) /\ \E b \in Find(row[s].id) :
                budgets' = (budgets \ {b}) \cup {Updated(s, b)}
  <2>1. PICK b \in budgets : budgets' = (budgets \ {b}) \cup {Updated(s, b)}
    BY <1>3 DEF Find
  <2> DEFINE u == Updated(s, b)
  <2>2. /\ DOMAIN u = Columns
        /\ u.id = b.id /\ u.team = b.team /\ u.period = b.period
        /\ \A f \in Columns :
              u[f] = IF f \in ChangedFields(s) THEN request[s].fields[f] ELSE b[f]
    BY <1>1, UpdateKeepsKey
  <2>3. request[s] \in Requests /\ request[s].kind = "update_budget" /\ ValidPayload(request[s])
    BY <1>1 DEF At, ApiInv, SlotsOK, Handling
  <2>4. b.limit \in Int /\ b.limit > 0 /\ b.is_active \in BOOLEAN /\ b.id \in 1..nextId - 1
    BY DEF ApiInv, RowsOK
  <2>5. \A f \in ChangedFields(s) : f \in DOMAIN request[s].fields
    BY DEF ChangedFields
  <2>6. "limit" \in ChangedFields(s) =>
            request[s].fields["limit"] \in Int /\ request[s].fields["limit"] > 0
    BY <1>3, <2>3, <2>5, ApiAssumption DEF ApiAssumption, NullRefused, ValidPayload
  <2>7. "is_active" \in ChangedFields(s) => request[s].fields["is_active"] \in BOOLEAN
    BY <1>3, <2>3, <2>5, ApiAssumption DEF ApiAssumption, NullRefused
  <2>8. u.limit \in Int /\ u.limit > 0 /\ u.is_active \in BOOLEAN
    <3>1. u.limit = IF "limit" \in ChangedFields(s)
                    THEN request[s].fields["limit"] ELSE b.limit
      BY <2>2 DEF Columns
    <3>2. u.is_active = IF "is_active" \in ChangedFields(s)
                        THEN request[s].fields["is_active"] ELSE b.is_active
      BY <2>2 DEF Columns
    <3>3. u.limit \in Int /\ u.limit > 0
      BY <3>1, <2>4, <2>6
    <3>4. u.is_active \in BOOLEAN
      BY <3>2, <2>4, <2>7
    <3> QED
      BY <3>3, <3>4
  <2> HIDE DEF u
  <2>9. RowsOK'
    <3> SUFFICES ASSUME NEW c \in budgets'
                 PROVE  /\ c.id \in 1..nextId' - 1
                        /\ c.limit \in Int /\ c.limit > 0 /\ c.is_active \in BOOLEAN
                        /\ DOMAIN c = Columns
      BY <1>1 DEF RowsOK, ApiInv
    <3>1. CASE c = u
      BY <3>1, <1>1, <2>2, <2>4, <2>8
    <3>2. CASE c \in budgets
      BY <3>2, <1>1 DEF ApiInv, RowsOK
    <3> QED
      BY <2>1, <3>1, <3>2 DEF u
  <2>10. OneBudgetPerTeam'
    <3>1. \A c \in budgets \ {b} : c.id # u.id /\ ~(c.team = u.team /\ c.period = u.period)
      BY <2>2 DEF ApiInv, OneBudgetPerTeam
    <3>2. budgets' = (budgets \ {b}) \cup {u}
      BY <2>1 DEF u
    <3> QED
      BY <3>1, <3>2 DEF ApiInv, OneBudgetPerTeam
  <2>11. Evolves
    <3>1. budgets' = (budgets \ {b}) \cup {u}
      BY <2>1 DEF u
    <3> QED
      BY <1>1, <2>2, <3>1 DEF Evolves
  <2> QED
    BY <2>9, <2>10, <2>11
<1> QED
  BY <1>2, <1>3 DEF UpdateBudgetWrite

\* Nothing else writes the table, but for deletions.
LEMMA TableStep ==
    ASSUME ApiInv, [Next]_vars
    PROVE  RowsOK' /\ OneBudgetPerTeam' /\ Evolves
<1>1. CASE budgets' \subseteq budgets /\ nextId' = nextId
  BY <1>1 DEF ApiInv, RowsOK, OneBudgetPerTeam, Evolves
<1>2. CASE \E s \in Slots : CreateBudgetWrite(s) \/ UpdateBudgetWrite(s)
  BY <1>2, InsertStep, UpdateStep
<1>3. ASSUME NEW s \in Slots, Serve(s), ~CreateBudgetWrite(s), ~UpdateBudgetWrite(s)
      PROVE  budgets' \subseteq budgets /\ nextId' = nextId
  BY <1>3 DEF Serve, Arrives, Validate, Respond, CreateTeamRead, CreateTeamWrite,
      CreateTeamRefresh, DeleteTeamRead, DeleteTeamWrite, GetTeam, ListTeams, CreateBudgetRead,
      Refresh, Load, DeleteBudgetWrite, ListBudgets, GetCosts, GetTimeseries, GetForecast
<1>4. UNCHANGED vars => budgets' \subseteq budgets /\ nextId' = nextId
  BY DEF vars
<1> QED
  BY <1>1, <1>2, <1>3, <1>4 DEF Next

----------------------------------------------------------------------------
(* The handlers.                                                            *)

Same(s) ==
    /\ request'[s] = request[s] /\ step'[s] = step[s] /\ wrote'[s] = wrote[s]
    /\ row'[s] = row[s] /\ answer'[s] = answer[s]

\* A handler touches its own slot only, and keeps the types.
LEMMA SlotStep ==
    ASSUME SlotsOK, NEW s \in Slots, Serve(s)
    PROVE  SlotsOK' /\ \A t \in Slots \ {s} : Same(t)
<1>1. \/ wrote' = wrote
      \/ wrote' = [wrote EXCEPT ![s] = TRUE]
      \/ wrote' = [wrote EXCEPT ![s] = FALSE]
  BY DEF Wrote, Serve, Arrives, Validate, Respond, CreateTeamRead, CreateTeamWrite,
      CreateTeamRefresh, DeleteTeamRead, DeleteTeamWrite, GetTeam, ListTeams,
      CreateBudgetRead, CreateBudgetWrite, Refresh, Load, UpdateBudgetWrite,
      DeleteBudgetWrite, ListBudgets, GetCosts, GetTimeseries, GetForecast
<1>2. wrote' \in [Slots -> BOOLEAN] /\ \A t \in Slots \ {s} : wrote'[t] = wrote[t]
  BY <1>1 DEF SlotsOK
<1>3. \/ step' = [step EXCEPT ![s] = step'[s]] /\ step'[s] \in Steps
      \/ step' = step
    <2>1. CASE Arrives(s)
    BY <2>1 DEF Arrives, SlotsOK, Steps, Goes, Answers, Presents
  <2>2. CASE Validate(s)
    BY <2>2 DEF Validate, SlotsOK, Steps, Goes, Answers, Presents
  <2>3. CASE Respond(s)
    BY <2>3 DEF Respond, SlotsOK, Steps, Goes, Answers, Presents
  <2>4. CASE CreateTeamRead(s)
    BY <2>4 DEF CreateTeamRead, SlotsOK, Steps, Goes, Answers, Presents
  <2>5. CASE CreateTeamWrite(s)
    BY <2>5 DEF CreateTeamWrite, SlotsOK, Steps, Goes, Answers, Presents
  <2>6. CASE CreateTeamRefresh(s)
    BY <2>6 DEF CreateTeamRefresh, SlotsOK, Steps, Goes, Answers, Presents
  <2>7. CASE DeleteTeamRead(s)
    BY <2>7 DEF DeleteTeamRead, SlotsOK, Steps, Goes, Answers, Presents
  <2>8. CASE DeleteTeamWrite(s)
    BY <2>8 DEF DeleteTeamWrite, SlotsOK, Steps, Goes, Answers, Presents
  <2>9. CASE GetTeam(s)
    BY <2>9 DEF GetTeam, SlotsOK, Steps, Goes, Answers, Presents
  <2>10. CASE ListTeams(s)
    BY <2>10 DEF ListTeams, SlotsOK, Steps, Goes, Answers, Presents
  <2>11. CASE CreateBudgetRead(s)
    BY <2>11 DEF CreateBudgetRead, SlotsOK, Steps, Goes, Answers, Presents
  <2>12. CASE CreateBudgetWrite(s)
    BY <2>12 DEF CreateBudgetWrite, SlotsOK, Steps, Goes, Answers, Presents
  <2>13. CASE Refresh(s)
    BY <2>13 DEF Refresh, SlotsOK, Steps, Goes, Answers, Presents
  <2>14. CASE Load(s)
    BY <2>14 DEF Load, SlotsOK, Steps, Goes, Answers, Presents
  <2>15. CASE UpdateBudgetWrite(s)
    BY <2>15 DEF UpdateBudgetWrite, SlotsOK, Steps, Goes, Answers, Presents
  <2>16. CASE DeleteBudgetWrite(s)
    BY <2>16 DEF DeleteBudgetWrite, SlotsOK, Steps, Goes, Answers, Presents
  <2>17. CASE ListBudgets(s)
    BY <2>17 DEF ListBudgets, SlotsOK, Steps, Goes, Answers, Presents
  <2>18. CASE GetCosts(s)
    BY <2>18 DEF GetCosts, SlotsOK, Steps, Goes, Answers, Presents
  <2>19. CASE GetTimeseries(s)
    BY <2>19 DEF GetTimeseries, SlotsOK, Steps, Goes, Answers, Presents
  <2>20. CASE GetForecast(s)
    BY <2>20 DEF GetForecast, SlotsOK, Steps, Goes, Answers, Presents
  <2> QED
    BY <2>1, <2>2, <2>3, <2>4, <2>5, <2>6, <2>7, <2>8, <2>9, <2>10, <2>11, <2>12, <2>13,
        <2>14, <2>15, <2>16, <2>17, <2>18, <2>19, <2>20 DEF Serve
<1>4. step' \in [Slots -> Steps] /\ \A t \in Slots \ {s} : step'[t] = step[t]
  BY <1>3 DEF SlotsOK
<1>5. \/ request' = request
      \/ \E q \in Requests \cup {None} : request' = [request EXCEPT ![s] = q]
    BY DEF Goes, Answers, Presents, Serve, Arrives, Validate, Respond, CreateTeamRead,
      CreateTeamWrite, CreateTeamRefresh, DeleteTeamRead, DeleteTeamWrite, GetTeam,
      ListTeams, CreateBudgetRead, CreateBudgetWrite, Refresh, Load, UpdateBudgetWrite,
      DeleteBudgetWrite, ListBudgets, GetCosts, GetTimeseries, GetForecast
<1>6. request' \in [Slots -> Requests \cup {None}]
      /\ \A t \in Slots \ {s} : request'[t] = request[t]
  BY <1>5 DEF SlotsOK
<1>7. row' = row \/ \E b : row' = [row EXCEPT ![s] = b]
    BY DEF Keeps, Serve, Arrives, Validate, Respond, CreateTeamRead, CreateTeamWrite,
      CreateTeamRefresh, DeleteTeamRead, DeleteTeamWrite, GetTeam, ListTeams,
      CreateBudgetRead, CreateBudgetWrite, Refresh, Load, UpdateBudgetWrite,
      DeleteBudgetWrite, ListBudgets, GetCosts, GetTimeseries, GetForecast
<1>8. row' = [t \in Slots |-> row'[t]] /\ \A t \in Slots \ {s} : row'[t] = row[t]
  BY <1>7 DEF SlotsOK
<1>9. answer' = answer \/ \E a : answer' = [answer EXCEPT ![s] = a]
    BY DEF Goes, Answers, Presents, Serve, Arrives, Validate, Respond, CreateTeamRead,
      CreateTeamWrite, CreateTeamRefresh, DeleteTeamRead, DeleteTeamWrite, GetTeam,
      ListTeams, CreateBudgetRead, CreateBudgetWrite, Refresh, Load, UpdateBudgetWrite,
      DeleteBudgetWrite, ListBudgets, GetCosts, GetTimeseries, GetForecast
<1>10. answer' = [t \in Slots |-> answer'[t]] /\ \A t \in Slots \ {s} : answer'[t] =
    answer[t]
  BY <1>9 DEF SlotsOK
<1>11. served' = served \/ (served < MaxRequests /\ served' = served + 1)
    BY DEF Goes, Answers, Presents, Serve, Arrives, Validate, Respond, CreateTeamRead,
      CreateTeamWrite, CreateTeamRefresh, DeleteTeamRead, DeleteTeamWrite, GetTeam,
      ListTeams, CreateBudgetRead, CreateBudgetWrite, Refresh, Load, UpdateBudgetWrite,
      DeleteBudgetWrite, ListBudgets, GetCosts, GetTimeseries, GetForecast
<1>12. served' \in 0..MaxRequests
  BY <1>11, ApiAssumption DEF ApiAssumption, SlotsOK
<1> QED
  BY <1>2, <1>4, <1>6, <1>8, <1>10, <1>12 DEF SlotsOK, Same

\* What a handler holds and has answered stays true while others change the table.
LEMMA OthersKeep ==
    ASSUME RowsOK, NEW t \in Slots, Handling(t), Honest(t), Same(t), Evolves
    PROVE  Handling(t)' /\ Honest(t)'
<1>1. HasRow(t)' <=> HasRow(t)
  BY DEF HasRow, Same, At
<1>2. RowKnown(t) => RowKnown(t)'
  BY DEF RowKnown, Same, Evolves, RowsOK
<1>3. Handling(t)'
  BY <1>1, <1>2 DEF Handling, Same, At
<1>4. ASSUME NEW id \in 1..nextId - 1, Find(id) = {}
      PROVE  Find(id)' = {}
  BY <1>4 DEF Find, Evolves, RowsOK
<1>5. Answered500(t) /\ RowKnown(t) => Answered500(t)'
  BY <1>4 DEF Answered500, RowKnown, Same, Status
<1>6. Honest(t)'
  <2>1. CASE step[t] # "answered"
    BY <2>1 DEF Honest, Same
  <2>2. CASE step[t] = "answered"
    <3>1. Answered500(t)'
      <4>1. CASE ~(Status(t) = 500 /\ wrote[t] /\ request[t].kind # "create_team")
        BY <4>1 DEF Answered500, Same, Status
      <4>2. CASE Status(t) = 500 /\ wrote[t] /\ request[t].kind # "create_team"
        <5>1. request[t] # None /\ request[t].kind \in {"create_budget", "update_budget"}
          BY <4>2, <2>2 DEF Honest, Handling
        <5>2. HasRow(t)
          BY <5>1, <4>2, <2>2 DEF HasRow, At
        <5> QED
          BY <5>2, <1>5, <2>2 DEF Handling, Honest
      <4> QED
        BY <4>1, <4>2
    <3>2. Status(t) = 204 /\ request[t].kind = "delete_budget" => Find(request[t].id)' = {}
      <4>1. HAVE Status(t) = 204 /\ request[t].kind = "delete_budget"
      <4>2. HasRow(t)
        BY <4>1, <2>2 DEF HasRow, At, Handling, Status
      <4> QED
        <5>1. row[t].id \in 1..nextId - 1 /\ row[t].id = request[t].id /\ Find(request[t].id) = {}
          BY <4>1, <4>2, <2>2 DEF Honest, Handling, RowKnown
        <5> QED
          BY <5>1, <1>4 DEF Same, Find
    <3> QED
      BY <2>2, <3>1, <3>2 DEF Honest, Same, Status
  <2> QED
    BY <2>1, <2>2
<1> QED
  BY <1>3, <1>6

\* A request comes in, is checked, and is taken leave of.
LEMMA FrontStep ==
    ASSUME ApiInv, NEW s \in Slots, Arrives(s) \/ Validate(s) \/ Respond(s), SlotsOK'
    PROVE  Handling(s)' /\ Honest(s)'
<1> USE DEF ApiInv, SlotsOK
<1>1. CASE Arrives(s)
  <2>1. step'[s] = "validate" /\ request'[s] \in Requests /\ ~wrote'[s]
    BY <1>1 DEF Arrives, Handling
  <2> QED
    BY <2>1, ApiAssumption DEF ApiAssumption, Handling, Honest, HasRow, At
<1>2. CASE Validate(s)
  BY <1>2 DEF Validate, Goes, Answers, Refusal, Handling, Honest, HasRow, At, Status, Answered500
<1>3. CASE Respond(s)
  BY <1>3 DEF Respond, Handling, Honest, HasRow, At
<1> QED
  BY <1>1, <1>2, <1>3

\* Reads that answer at once.
LEMMA ReadStep ==
    ASSUME ApiInv, NEW s \in Slots, SlotsOK',
           \/ GetTeam(s) \/ ListTeams(s) \/ ListBudgets(s)
           \/ GetCosts(s) \/ GetTimeseries(s) \/ GetForecast(s)
    PROVE  Handling(s)' /\ Honest(s)'
<1>1. /\ step[s] = "read" /\ ~wrote[s] /\ wrote'[s] = wrote[s] /\ step'[s] = "answered"
      /\ request[s] # None /\ request'[s] = request[s]
      /\ request[s].kind \in {"get_team", "list_teams", "list_budgets", "costs",
                             "timeseries", "forecast"}
  BY DEF ApiInv, SlotsOK, Handling, GetTeam, ListTeams, ListBudgets, GetCosts, GetTimeseries,
      GetForecast, At, Answers
<1>2. answer'[s].status \in {200, 404, 500}
  BY DEF ApiInv, SlotsOK, GetTeam, ListTeams, ListBudgets, GetCosts, GetTimeseries,
      GetForecast, Answers
<1> QED
  BY <1>1, <1>2 DEF Handling, Honest, HasRow, At, Status, Answered500

\* The handlers of teams.py keep the invariant.
LEMMA TeamStep ==
    ASSUME ApiInv, NEW s \in Slots, SlotsOK',
           \/ CreateTeamRead(s) \/ CreateTeamWrite(s) \/ CreateTeamRefresh(s)
           \/ DeleteTeamRead(s) \/ DeleteTeamWrite(s)
    PROVE  Handling(s)' /\ Honest(s)'
<1> USE DEF ApiInv, SlotsOK, Handling, Honest, HasRow, At, Status, Answered500, Goes, Answers
<1>1. CASE CreateTeamRead(s)
  BY <1>1 DEF CreateTeamRead
<1>2. CASE CreateTeamWrite(s)
  BY <1>2 DEF CreateTeamWrite, Wrote
<1>3. CASE CreateTeamRefresh(s)
  BY <1>3 DEF CreateTeamRefresh
<1>4. CASE DeleteTeamRead(s)
  BY <1>4 DEF DeleteTeamRead
<1>5. CASE DeleteTeamWrite(s)
  BY <1>5 DEF DeleteTeamWrite, Wrote
<1> QED
  BY <1>1, <1>2, <1>3, <1>4, <1>5

\* The handlers of budgets.py keep the invariant.
LEMMA BudgetStep ==
    ASSUME ApiInv, NEW s \in Slots, SlotsOK', Evolves, RowsOK', OneBudgetPerTeam',
           \/ CreateBudgetRead(s) \/ CreateBudgetWrite(s) \/ Refresh(s)
           \/ Load(s) \/ UpdateBudgetWrite(s) \/ DeleteBudgetWrite(s)
    PROVE  Handling(s)' /\ Honest(s)'
<1> USE DEF ApiInv, SlotsOK, At, Status, Goes, Answers, Keeps, Wrote
<1>1. CASE CreateBudgetRead(s)
  BY <1>1 DEF CreateBudgetRead, Handling, Honest, HasRow, Answered500
<1>2. CASE CreateBudgetWrite(s)
  <2> DEFINE q == request[s]
             new == [id |-> nextId, team |-> q.team, period |-> q.period, limit |-> q.limit,
                     thresholds |-> q.thresholds, is_active |-> q.is_active]
  <2>1. CASE UniqueBudget(q)
    <3>1. /\ step'[s] = "refresh" /\ wrote'[s] /\ row'[s] = new /\ request'[s] = request[s]
          /\ request[s] # None /\ request[s].kind = "create_budget" /\ new \in budgets'
      BY <1>2, <2>1 DEF CreateBudgetWrite
    <3>2. new.id = nextId /\ new.team = q.team /\ new.period = q.period
      OBVIOUS
    <3>3. RowKnown(s)'
      <4>1. row'[s].id \in 1..nextId' - 1
        BY <3>1 DEF RowsOK
      <4>2. \A b \in budgets' : b.id = row'[s].id => b = row'[s]
        BY <3>1 DEF OneBudgetPerTeam
      <4> QED
        BY <4>1, <4>2 DEF RowKnown
    <3> HIDE DEF new
    <3> QED
      BY <3>1, <3>2, <3>3 DEF Handling, Honest, HasRow
  <2>2. CASE ~UniqueBudget(q)
    BY <1>2, <2>2 DEF CreateBudgetWrite, Handling, Honest, HasRow, Answered500
  <2> QED
    BY <2>1, <2>2
<1>3. CASE Refresh(s)
  <2>1. /\ step[s] = "refresh" /\ request[s] # None /\ request'[s] = request[s]
        /\ request[s].kind \in {"create_budget", "update_budget"}
        /\ step'[s] = "answered" /\ wrote'[s] = wrote[s] /\ budgets' = budgets
        /\ nextId' = nextId
    BY <1>3 DEF Refresh, Presents
  <2>2. RowKnown(s)
    BY <2>1 DEF Handling, HasRow
  <2>3. CASE Find(row[s].id) = {}
    <3>1. answer'[s].status = 500 /\ row'[s] = row[s]
      BY <1>3, <2>3 DEF Refresh
    <3>2. Find(row[s].id)' = {}
      BY <2>1, <2>3, <3>1 DEF Find
    <3> QED
      BY <2>1, <2>2, <3>1, <3>2 DEF Handling, Honest, HasRow, RowKnown, Answered500
  <2>4. CASE Find(row[s].id) # {}
    <3>1. PICK b \in Find(row[s].id) :
            /\ Presents(s, b, IF request[s].kind = "create_budget" THEN 201 ELSE 200)
            /\ Keeps(s, b)
      BY <1>3, <2>4 DEF Refresh
    <3>2. b \in budgets /\ b.id = row[s].id /\ b.team = row[s].team /\ b.period = row[s].period
      BY <2>2 DEF Find, RowKnown
    <3>3. row'[s] = b /\ answer'[s].body = b
      BY <3>1 DEF Presents
    <3>4. /\ b.thresholds = None => answer'[s].status = 500
          /\ b.thresholds # None =>
                answer'[s].status = IF request[s].kind = "create_budget" THEN 201 ELSE 200
      BY <3>1 DEF Presents
    <3>5. RowKnown(s)'
      BY <2>1, <2>2, <3>2, <3>3 DEF RowKnown
    <3>6. request[s].kind = "create_budget" =>
            b.team = request[s].team /\ b.period = request[s].period /\ wrote[s]
      BY <2>1, <3>2 DEF Handling
    <3>7. Honest(s)'
      BY <2>1, <3>3, <3>4, <3>6 DEF Honest, Answered500
    <3> QED
      BY <2>1, <3>5, <3>7 DEF Handling, HasRow
  <2> QED
    BY <2>3, <2>4
<1>4. CASE Load(s)
  <2>1. /\ step[s] = "read" /\ request[s] # None /\ request'[s] = request[s] /\ ~wrote'[s]
        /\ request[s].kind \in {"update_budget", "delete_budget", "get_budget"}
        /\ budgets' = budgets /\ nextId' = nextId /\ ValidPayload(request[s])
    BY <1>4 DEF Load, Handling, Presents
  <2>2. CASE Find(request[s].id) = {}
    BY <1>4, <2>1, <2>2 DEF Load, Handling, Honest, HasRow, Answered500
  <2>3. CASE Find(request[s].id) # {}
    <3>1. PICK b \in Find(request[s].id) :
            /\ Keeps(s, b)
            /\ IF request[s].kind = "get_budget" THEN Presents(s, b, 200) ELSE Goes(s, "write")
      BY <1>4, <2>3 DEF Load
    <3>2. b \in budgets /\ b.id = request[s].id /\ row'[s] = b
      BY <3>1 DEF Find
    <3>3. RowKnown(s)'
      <4>1. \A c \in budgets : c.id = b.id => c = b
        BY <3>2 DEF OneBudgetPerTeam
      <4>2. b.id \in 1..nextId - 1
        BY <3>2 DEF RowsOK
      <4> QED
        BY <2>1, <3>2, <4>1, <4>2 DEF RowKnown
    <3>4. CASE request[s].kind = "get_budget"
      <4>1. step'[s] = "answered" /\ answer'[s].status \in {200, 500}
        BY <3>1, <3>4 DEF Presents
      <4> QED
        BY <2>1, <3>4, <4>1 DEF Handling, Honest, HasRow, Answered500
    <3>5. CASE request[s].kind # "get_budget"
      <4>1. step'[s] = "write"
        BY <3>1, <3>5
      <4> QED
        BY <2>1, <3>2, <3>3, <3>5, <4>1 DEF Handling, Honest, HasRow
    <3> QED
      BY <3>4, <3>5
  <2> QED
    BY <2>2, <2>3
<1>5. CASE UpdateBudgetWrite(s)
  <2>1. /\ step[s] = "write" /\ request[s] # None /\ request'[s] = request[s] /\ ~wrote[s]
        /\ request[s].kind = "update_budget" /\ row'[s] = row[s]
    BY <1>5 DEF UpdateBudgetWrite, Handling
  <2>2. RowKnown(s)'
    <3>1. RowKnown(s)
      BY <2>1 DEF Handling, HasRow
    <3> QED
      BY <2>1, <3>1 DEF RowKnown, Evolves, RowsOK
  <2>3. \/ step'[s] = "refresh"
        \/ step'[s] = "answered" /\ answer'[s].status = 500 /\ ~wrote'[s]
    BY <1>5, <2>1 DEF UpdateBudgetWrite
  <2> QED
    BY <2>1, <2>2, <2>3 DEF Handling, Honest, HasRow, Answered500
<1>6. CASE DeleteBudgetWrite(s)
  <2>1. /\ step[s] = "write" /\ request[s] # None /\ request'[s] = request[s]
        /\ request[s].kind = "delete_budget" /\ row'[s] = row[s] /\ row[s].id = request[s].id
        /\ step'[s] = "answered" /\ answer'[s].status = 204 /\ nextId' = nextId
    BY <1>6 DEF DeleteBudgetWrite, Handling
  <2>2. RowKnown(s)
    BY <2>1 DEF Handling, HasRow
  <2>3. RowKnown(s)' /\ Find(request[s].id)' = {}
    BY <1>6, <2>1, <2>2 DEF DeleteBudgetWrite, RowKnown, Find
  <2> QED
    BY <2>1, <2>3 DEF Handling, Honest, HasRow, Answered500
<1> QED
  BY <1>1, <1>2, <1>3, <1>4, <1>5, <1>6

\* Together.
LEMMA ApiStep == ApiInv /\ [Next]_vars => ApiInv'
<1> SUFFICES ASSUME ApiInv, [Next]_vars PROVE ApiInv'
  OBVIOUS
<1>1. RowsOK' /\ OneBudgetPerTeam' /\ Evolves
  BY TableStep
<1>2. CASE UNCHANGED vars
  <2>1. SlotsOK' /\ \A t \in Slots : Same(t)
    BY <1>2 DEF vars, ApiInv, SlotsOK, Same
  <2> QED
    BY <1>1, <2>1, OthersKeep DEF ApiInv
<1>3. ASSUME NEW s \in Slots, Serve(s) PROVE ApiInv'
  <2>1. SlotsOK' /\ \A t \in Slots \ {s} : Same(t)
    BY <1>3, SlotStep DEF ApiInv
  <2>2. \A t \in Slots \ {s} : Handling(t)' /\ Honest(t)'
    BY <1>1, <2>1, OthersKeep DEF ApiInv
  <2>3. Handling(s)' /\ Honest(s)'
    BY <1>1, <1>3, <2>1, FrontStep, ReadStep, TeamStep, BudgetStep DEF Serve
  <2> QED
    BY <1>1, <2>1, <2>2, <2>3 DEF ApiInv
<1> QED
  BY <1>2, <1>3 DEF Next

\* The invariant behind the theorems that follow: the table is well formed and
\* every handler's row is one of it, or of a budget that has gone for good.
THEOREM ApiInvariant == Spec => []ApiInv
<1>1. Init => ApiInv
  BY ApiAssumption DEF Init, ApiInv, RowsOK, OneBudgetPerTeam, SlotsOK, Steps, Handling, Honest,
      HasRow, At, ApiAssumption
<1> QED
  BY <1>1, ApiStep, PTL DEF Spec

\* Types, and that what is held and stored has passed validation.
THEOREM ApiTypeCorrect == Spec => []TypeOK
<1>1. ApiInv => TypeOK
  BY DEF ApiInv, RowsOK, SlotsOK, Steps, Handling, At, TypeOK
<1> QED
  BY <1>1, ApiInvariant, PTL

\* However many creations of the same team's budget overlap, one is stored.
THEOREM BudgetsUnique == Spec => []OneBudgetPerTeam
<1>1. ApiInv => OneBudgetPerTeam
  BY DEF ApiInv
<1> QED
  BY <1>1, ApiInvariant, PTL

\* What a client is told is what has become of its request.
THEOREM AnswersHonest == Spec => []AnswersAreHonest
<1>1. ApiInv => AnswersAreHonest
  BY DEF ApiInv, Honest, Answered500, AnswersAreHonest
<1> QED
  BY <1>1, ApiInvariant, PTL

\* A PATCH writes the fields it names and no other, whatever has been committed
\* since it loaded the row.
THEOREM PatchesKeepTheRest == Spec => PatchTouchesOnlyNamed
<1> DEFINE Step == \A old \in budgets, new \in budgets' : old.id = new.id /\ old # new =>
        \E s \in Slots :
            /\ At(s, "write", {"update_budget"}) /\ request[s].id = old.id
            /\ \A f \in DOMAIN old : old[f] # new[f] =>
                    f \in DOMAIN request[s].fields /\ new[f] = request[s].fields[f]
<1>1. ApiInv /\ [Next]_vars => Step
  <2> SUFFICES ASSUME ApiInv, [Next]_vars, NEW old \in budgets, NEW new \in budgets',
                      old.id = new.id, old # new
               PROVE  \E s \in Slots :
                        /\ At(s, "write", {"update_budget"}) /\ request[s].id = old.id
                        /\ \A f \in DOMAIN old : old[f] # new[f] =>
                                f \in DOMAIN request[s].fields /\ new[f] = request[s].fields[f]
    OBVIOUS
  <2>1. new \notin budgets
    BY DEF ApiInv, OneBudgetPerTeam
  <2>2. PICK s \in Slots : CreateBudgetWrite(s) \/ UpdateBudgetWrite(s)
    <3>1. ASSUME NEW t \in Slots, Serve(t), ~CreateBudgetWrite(t), ~UpdateBudgetWrite(t)
          PROVE  budgets' \subseteq budgets
      BY <3>1 DEF Serve, Arrives, Validate, Respond, CreateTeamRead, CreateTeamWrite,
          CreateTeamRefresh, DeleteTeamRead, DeleteTeamWrite, GetTeam, ListTeams,
          CreateBudgetRead, Refresh, Load, DeleteBudgetWrite, ListBudgets, GetCosts,
          GetTimeseries, GetForecast
    <3>2. UNCHANGED vars => budgets' = budgets
      BY DEF vars
    <3> QED
      BY <2>1, <3>1, <3>2 DEF Next
  <2>3. ~CreateBudgetWrite(s)
    <3>1. SUFFICES ASSUME CreateBudgetWrite(s) PROVE FALSE
      OBVIOUS
    <3>2. new.id = nextId
      BY <2>1, <3>1 DEF CreateBudgetWrite
    <3> QED
      BY <3>2 DEF ApiInv, RowsOK
  <2>4. UpdateBudgetWrite(s) /\ At(s, "write", {"update_budget"})
    BY <2>2, <2>3 DEF UpdateBudgetWrite
  <2>5. PICK b \in Find(row[s].id) : budgets' = (budgets \ {b}) \cup {Updated(s, b)}
    BY <2>1, <2>4 DEF UpdateBudgetWrite
  <2>6. b \in budgets /\ b.id = row[s].id /\ new = Updated(s, b)
    BY <2>1, <2>5 DEF Find
  <2>7. /\ new.id = b.id
        /\ \A f \in Columns :
              new[f] = IF f \in ChangedFields(s) THEN request[s].fields[f] ELSE b[f]
    BY <2>4, <2>6, UpdateKeepsKey
  <2>8. old = b /\ DOMAIN old = Columns
    BY <2>6, <2>7 DEF ApiInv, OneBudgetPerTeam, RowsOK
  <2>9. request[s].id = old.id
    <3>1. Handling(s)
      BY DEF ApiInv
    <3>2. row[s].id = request[s].id
      BY <2>4, <3>1, Zenon DEF Handling, At
    <3> QED
      BY <2>6, <2>8, <3>2
  <2>10. \A f \in ChangedFields(s) : f \in DOMAIN request[s].fields
    BY DEF ChangedFields
  <2> QED
    BY <2>4, <2>7, <2>8, <2>9, <2>10
<1>2. PatchTouchesOnlyNamed <=> [][Step]_vars
  BY PTL DEF PatchTouchesOnlyNamed
<1> HIDE DEF Step
<1> QED
  BY <1>1, <1>2, ApiInvariant, PTL DEF Spec

----------------------------------------------------------------------------
(* The forecast.                                                            *)

\* For every spend, limit and instant of a month, projection and breach date of a
\* forecast agree, and the date lies between now and the end of the month.
THEOREM ForecastConsistent ==
    ASSUME NEW spend \in Int, NEW asOf \in Int, NEW start \in Int, NEW end \in Int,
           start <= asOf, asOf < end, MinElapsed \in Nat, MinElapsed > 0,
           NEW limit, limit = None \/ (limit \in Int /\ limit > 0)
    PROVE  OneStory(BuildForecast(spend, asOf, [start |-> start, end |-> end], limit))
<1> SUFFICES ASSUME limit # None
             PROVE  OneStory(BuildForecast(spend, asOf, [start |-> start, end |-> end], limit))
  BY DEF OneStory, BuildForecast
<1>1. limit \in Int /\ limit > 0 /\ None \notin Int
  BY ApiAssumption DEF ApiAssumption
<1> DEFINE elapsed == IF asOf - start > MinElapsed THEN asOf - start ELSE MinElapsed
           total == end - start
           breach == BreachDate(asOf, end, spend, elapsed, limit)
           over == spend * total > limit * elapsed
<1>2. elapsed \in Int /\ elapsed > 0 /\ total \in Int /\ total > 0
      /\ elapsed >= asOf - start
  OBVIOUS
<1>3. asOf - start >= MinElapsed => elapsed = asOf - start
  OBVIOUS
<1> HIDE DEF elapsed
<1>4. over => breach # None
  <2> SUFFICES ASSUME over PROVE breach # None
    OBVIOUS
  <2>1. spend > 0
    <3>1. limit * elapsed > 0
      BY <1>1, <1>2
    <3>2. spend <= 0 => spend * total <= 0
      BY <1>2
    <3> QED
      BY <1>1, <1>2, <3>1, <3>2
  <2>2. CASE spend >= limit
    BY <1>1, <2>2 DEF BreachDate
  <2>3. CASE spend < limit
    <3>1. (limit - spend) * elapsed = limit * elapsed - spend * elapsed
      BY <1>1, <1>2
    <3>2. (end - asOf) * spend = spend * total - spend * (asOf - start)
      BY <1>2
    <3>3. spend * (asOf - start) <= spend * elapsed
      BY <1>2, <2>1
    <3>4. (limit - spend) * elapsed < (end - asOf) * spend
      BY <1>1, <1>2, <3>1, <3>2, <3>3
    <3>5. breach = asOf + ((limit - spend) * elapsed) \div spend
      BY <1>1, <2>1, <2>3, <3>4 DEF BreachDate
    <3>6. ((limit - spend) * elapsed) \div spend \in Int
      BY <1>1, <1>2, <2>1
    <3> QED
      BY <1>1, <3>5, <3>6
  <2> QED
    BY <1>1, <2>2, <2>3
<1>5. ASSUME breach # None
      PROVE  /\ asOf <= breach /\ breach < end
             /\ over \/ spend >= limit \/ asOf - start < MinElapsed
  <2>1. CASE spend >= limit
    <3>1. breach = asOf
      BY <1>1, <2>1 DEF BreachDate
    <3> QED
      BY <2>1, <3>1
  <2>2. CASE spend < limit
    <3>1. spend > 0 /\ (limit - spend) * elapsed < (end - asOf) * spend
      BY <1>1, <1>5, <2>2 DEF BreachDate
    <3>2. breach = asOf + ((limit - spend) * elapsed) \div spend
      BY <1>1, <2>2, <3>1 DEF BreachDate
    <3> DEFINE left == (limit - spend) * elapsed
    <3>3. left \in Int /\ left >= 0
      BY <1>1, <1>2, <2>2
    <3> HIDE DEF left
    <3>4. left \div spend \in Int /\ left \div spend >= 0 /\ left \div spend < end - asOf
      <4> DEFINE days == left \div spend
      <4>1. days \in Int /\ spend * days <= left
        BY <3>1, <3>3
      <4>2. days >= 0
        BY <3>1, <3>3
      <4>3. spend * days < (end - asOf) * spend
        BY <3>1, <4>1, <3>3 DEF left
      <4> HIDE DEF days
      <4>4. days < end - asOf
        <5>1. days >= end - asOf => spend * days >= (end - asOf) * spend
          BY <3>1, <4>1
        <5> QED
          BY <3>1, <4>1, <4>3, <5>1
      <4> QED
        BY <4>1, <4>2, <4>4 DEF days
    <3>5. asOf - start >= MinElapsed => over
      <4> SUFFICES ASSUME asOf - start >= MinElapsed PROVE over
        OBVIOUS
      <4>1. elapsed = asOf - start
        BY <1>3
      <4>2. (limit - spend) * elapsed = limit * elapsed - spend * elapsed
        BY <1>1, <1>2
      <4>3. (end - asOf) * spend = spend * total - spend * elapsed
        BY <1>2, <4>1
      <4> QED
        BY <1>1, <1>2, <3>1, <4>2, <4>3
    <3>6. breach = asOf + left \div spend
      BY <3>2 DEF left
    <3> QED
      BY <3>4, <3>5, <3>6
  <2> QED
    BY <1>1, <2>1, <2>2
<1>6. BuildForecast(spend, asOf, [start |-> start, end |-> end], limit) =
        [spend |-> spend, as_of |-> asOf, month |-> [start |-> start, end |-> end],
         limit |-> limit, projected |-> [num |-> spend * total, den |-> elapsed],
         confidence |-> Confidence(elapsed), breach_date |-> breach]
  BY DEF BuildForecast, elapsed
<1> HIDE DEF breach
<1> QED
  BY <1>1, <1>4, <1>5, <1>6 DEF OneStory

----------------------------------------------------------------------------
(* What the answers about spend are made of.                                *)

\* An answer about spend was computed from the records at some moment, for a
\* request that had passed validation; a forecast, with a budget that was stored.
Computed(s) ==
    /\ Answered(s, {"costs"}) /\ Status(s) = 200 =>
        /\ ValidPayload(request[s])
        /\ \E now \in Moments : answer[s].body = CostsAnswer(request[s], now)
    /\ Answered(s, {"timeseries"}) /\ Status(s) = 200 =>
        /\ ValidPayload(request[s])
        /\ \E now \in Moments : answer[s].body = TimeseriesAnswer(request[s], now)
    /\ Answered(s, {"forecast"}) =>
        \E now \in Moments : \E limit \in Int \cup {None} :
            /\ limit # None => limit > 0
            /\ answer[s].body =
                BuildForecast(SpendToDate(request[s].team, now), now, MonthBounds(now), limit)

AnswersInv == \A s \in Slots : Computed(s)

\* The limit a forecast is given is none or positive, whatever is stored.
LEMMA ForecastLimitFact ==
    ASSUME ApiInv, NEW team
    PROVE  ForecastLimit(team) = None \/ (ForecastLimit(team) \in Int /\ ForecastLimit(team) > 0)
<1> DEFINE active == {b \in OfTeam(team, "monthly") : b.is_active}
<1>1. ForecastLimit(team) = IF active = {} THEN None ELSE (CHOOSE b \in active : TRUE).limit
  BY DEF ForecastLimit
<1>2. active \subseteq budgets
  BY DEF OfTeam
<1> HIDE DEF active
<1>3. CASE active # {}
  <2>1. PICK b \in active : b = CHOOSE x \in active : TRUE
    BY <1>3
  <2>2. b.limit \in Int /\ b.limit > 0
    BY <1>2, <2>1 DEF ApiInv, RowsOK
  <2> QED
    BY <1>1, <1>3, <2>1, <2>2
<1> QED
  BY <1>1, <1>3

\* A step of the slot's own handler computes what it answers.
LEMMA HandlerComputes ==
    ASSUME ApiInv, NEW s \in Slots, Serve(s)
    PROVE  Computed(s)'
<1>1. SlotsOK /\ Handling(s)
  BY DEF ApiInv
<1>2. CASE Arrives(s) \/ Respond(s)
  <2>1. step'[s] # "answered"
    BY <1>1, <1>2 DEF Arrives, Respond, SlotsOK
  <2> QED
    BY <2>1 DEF Computed, Answered, At
<1>3. CASE Validate(s)
  <2>1. request'[s] = request[s]
    BY <1>3 DEF Validate, Goes, Answers
  <2>2. CASE ValidPayload(request[s])
    <3>1. step'[s] # "answered"
      BY <1>1, <1>3, <2>2 DEF Validate, Goes, SlotsOK
    <3> QED
      BY <3>1 DEF Computed, Answered, At
  <2>3. CASE ~ValidPayload(request[s])
    <3>1. answer'[s].status = Refusal(request[s])
      <4>1. Answers(s, Refusal(request[s]), None)
        BY <1>3, <2>3 DEF Validate
      <4>2. answer' = [answer EXCEPT ![s] = [status |-> Refusal(request[s]), body |-> None]]
        BY <4>1 DEF Answers
      <4> QED
        BY <1>1, <4>2 DEF SlotsOK
    <3>2. answer'[s].status # 200
      BY <3>1 DEF Refusal
    <3>3. request[s].kind # "forecast"
      BY <2>3 DEF ValidPayload
    <3> QED
      BY <2>1, <3>2, <3>3 DEF Computed, Answered, At, Status
  <2> QED
    BY <2>2, <2>3
<1>4. CASE GetCosts(s)
  <2>1. PICK now \in Moments : Answers(s, 200, CostsAnswer(request[s], now))
    BY <1>4 DEF GetCosts
  <2>2. /\ request[s].kind = "costs" /\ request'[s] = request[s] /\ step[s] = "read"
        /\ answer'[s].body = CostsAnswer(request[s], now)
    BY <1>1, <1>4, <2>1 DEF GetCosts, At, Answers, SlotsOK
  <2>3. ValidPayload(request[s])
    BY <1>1, <2>2 DEF Handling
  <2> QED
    BY <2>2, <2>3 DEF Computed, Answered, At
<1>5. CASE GetTimeseries(s)
  <2>1. PICK now \in Moments : Answers(s, 200, TimeseriesAnswer(request[s], now))
    BY <1>5 DEF GetTimeseries
  <2>2. /\ request[s].kind = "timeseries" /\ request'[s] = request[s] /\ step[s] = "read"
        /\ answer'[s].body = TimeseriesAnswer(request[s], now)
    BY <1>1, <1>5, <2>1 DEF GetTimeseries, At, Answers, SlotsOK
  <2>3. ValidPayload(request[s])
    BY <1>1, <2>2 DEF Handling
  <2> QED
    BY <2>2, <2>3 DEF Computed, Answered, At
<1>6. CASE GetForecast(s)
  <2> DEFINE limit == ForecastLimit(request[s].team)
             told(now) == BuildForecast(SpendToDate(request[s].team, now), now,
                                        MonthBounds(now), limit)
  <2>1. PICK now \in Moments : Answers(s, 200, told(now))
    BY <1>6 DEF GetForecast
  <2>2. request[s].kind = "forecast" /\ request'[s] = request[s] /\ answer'[s].body = told(now)
    BY <1>1, <1>6, <2>1 DEF GetForecast, At, Answers, SlotsOK
  <2>3. limit \in Int \cup {None} /\ (limit # None => limit > 0)
    BY ForecastLimitFact
  <2> HIDE DEF limit
  <2> QED
    BY <2>2, <2>3 DEF Computed, Answered, At
<1>7. ASSUME request'[s] = request[s], request[s].kind \notin {"costs", "timeseries", "forecast"}
      PROVE  Computed(s)'
  BY <1>7 DEF Computed, Answered, At
<1>8. CASE \/ CreateTeamRead(s) \/ CreateTeamWrite(s) \/ CreateTeamRefresh(s)
           \/ DeleteTeamRead(s) \/ DeleteTeamWrite(s) \/ GetTeam(s) \/ ListTeams(s)
  <2>1. request'[s] = request[s] /\ request[s].kind \notin {"costs", "timeseries", "forecast"}
    BY <1>8 DEF CreateTeamRead, CreateTeamWrite, CreateTeamRefresh, DeleteTeamRead,
                DeleteTeamWrite, GetTeam, ListTeams, At, Goes, Answers
  <2> QED
    BY <1>7, <2>1
<1>9. CASE \/ CreateBudgetRead(s) \/ CreateBudgetWrite(s) \/ Refresh(s)
           \/ Load(s) \/ UpdateBudgetWrite(s) \/ DeleteBudgetWrite(s) \/ ListBudgets(s)
  <2>1. request'[s] = request[s] /\ request[s].kind \notin {"costs", "timeseries", "forecast"}
    BY <1>9 DEF CreateBudgetRead, CreateBudgetWrite, Refresh, Load, UpdateBudgetWrite,
                DeleteBudgetWrite, ListBudgets, Presents, At, Goes, Answers
  <2> QED
    BY <1>7, <2>1
<1> QED
  BY <1>2, <1>3, <1>4, <1>5, <1>6, <1>8, <1>9 DEF Serve

\* Answers stay what they were while others are served.
LEMMA AnswersStep == ApiInv /\ AnswersInv /\ [Next]_vars => AnswersInv'
<1> SUFFICES ASSUME ApiInv, AnswersInv, [Next]_vars PROVE AnswersInv'
  OBVIOUS
<1>1. ASSUME NEW s \in Slots, Serve(s) PROVE AnswersInv'
  <2>1. \A t \in Slots \ {s} : Same(t)
    BY <1>1, SlotStep DEF ApiInv
  <2>2. ASSUME NEW t \in Slots \ {s} PROVE Computed(t)'
    BY <2>1, <2>2 DEF AnswersInv, Computed, Same, Answered, At, Status
  <2>3. Computed(s)'
    BY <1>1, HandlerComputes
  <2> QED
    BY <2>2, <2>3 DEF AnswersInv
<1>2. CASE UNCHANGED vars
  BY <1>2 DEF vars, AnswersInv, Computed, Answered, At, Status
<1> QED
  BY <1>1, <1>2 DEF Next

\* Answers about spend are computed as their handlers compute them.
THEOREM AnswersInvariant == Spec => [](ApiInv /\ AnswersInv)
<1>1. Init => AnswersInv
  BY DEF Init, AnswersInv, Computed, Answered, At
<1>2. AnswersInv /\ ApiInv /\ [Next]_vars => AnswersInv'
  BY AnswersStep
<1> QED
  BY <1>1, <1>2, ApiInvariant, PTL DEF Spec

----------------------------------------------------------------------------
(* Forecasts, totals and series.                                            *)

\* The table of cost records is money, and instants.
LEMMA RecordsFact == Money(CostRecords) /\ \A r \in CostRecords : r.at \in Int
BY RecordsAssumption DEF RecordsAssumption, Money

\* A moment is within the bounds of its month.
LEMMA MonthBoundsFact ==
    ASSUME NEW now \in Moments
    PROVE  /\ MonthBounds(now) = [start |-> MonthBounds(now).start, end |-> MonthBounds(now).end]
           /\ now \in Int /\ MonthBounds(now).start \in Int /\ MonthBounds(now).end \in Int
           /\ MonthBounds(now).start <= now /\ now < MonthBounds(now).end
<1>1. now \in Int /\ MonthStarts \subseteq Int
  BY RecordsAssumption, PeriodsAssumption DEF RecordsAssumption, PeriodsAssumption
<1>2. PICK start \in MonthStarts, end \in MonthStarts :
            /\ start <= now /\ now < end
            /\ \A m \in MonthStarts : m <= start \/ end <= m
  BY RecordsAssumption DEF RecordsAssumption
<1> DEFINE before == {m \in MonthStarts : m <= now}
           after == {m \in MonthStarts : m > now}
<1>3. Max(before) = start
  <2>1. start \in before /\ \A m \in before : start >= m
    BY <1>1, <1>2
  <2>2. \A x \in before : (\A m \in before : x >= m) => x = start
    BY <1>1, <1>2
  <2> HIDE DEF before
  <2> QED
    BY <2>1, <2>2 DEF Max
<1>4. Min(after) = end
  <2>1. end \in after /\ \A m \in after : end <= m
    BY <1>1, <1>2
  <2>2. \A x \in after : (\A m \in after : x <= m) => x = end
    BY <1>1, <1>2
  <2> HIDE DEF after
  <2> QED
    BY <2>1, <2>2 DEF Min
<1>5. MonthBounds(now) = [start |-> start, end |-> end]
  BY <1>3, <1>4 DEF MonthBounds
<1> QED
  BY <1>1, <1>2, <1>5

\* Every forecast the API gives tells one story, whatever is stored and whenever
\* the budget changes between its two statements.
THEOREM ForecastsAgree == Spec => []ForecastAgrees
<1>1. ASSUME AnswersInv PROVE ForecastAgrees
  <2> SUFFICES ASSUME NEW s \in Slots, Answered(s, {"forecast"}) PROVE OneStory(answer[s].body)
    BY DEF ForecastAgrees
  <2>1. PICK now \in Moments, limit \in Int \cup {None} :
            /\ limit # None => limit > 0
            /\ answer[s].body =
                BuildForecast(SpendToDate(request[s].team, now), now, MonthBounds(now), limit)
    BY <1>1 DEF AnswersInv, Computed
  <2> DEFINE spend == SpendToDate(request[s].team, now)
             start == MonthBounds(now).start
             end == MonthBounds(now).end
  <2>2. spend \in Int
    <3> DEFINE window == [MonthBounds(now) EXCEPT !.end =
                            IF now > MonthBounds(now).start THEN now ELSE @]
               hit == Selected(CostRecords, window, FilterOn("team", {request[s].team}))
    <3>1. spend = Amount(hit) /\ hit \in SUBSET CostRecords
      BY DEF SpendToDate, TotalSpend, Selected
    <3> HIDE DEF hit
    <3> QED
      BY <3>1, RecordsFact, AmountSplit
  <2>3. /\ now \in Int /\ start \in Int /\ end \in Int /\ start <= now /\ now < end
        /\ MonthBounds(now) = [start |-> start, end |-> end]
    BY MonthBoundsFact
  <2>4. MinElapsed \in Nat /\ MinElapsed > 0
    BY PeriodsAssumption DEF PeriodsAssumption
  <2> HIDE DEF spend, start, end
  <2>5. limit = None \/ (limit \in Int /\ limit > 0)
    BY <2>1
  <2>6. OneStory(BuildForecast(spend, now, [start |-> start, end |-> end], limit))
    BY <2>2, <2>3, <2>4, <2>5, ForecastConsistent
  <2> QED
    BY <2>1, <2>3, <2>6 DEF spend
<1> QED
  BY <1>1, AnswersInvariant, PTL

\* The points of a series add up to its window and each meets it, for any records,
\* any width of bucket, any grouping and any filters.
THEOREM SeriesAddUp == Spec => []SeriesAddsUp
<1>1. ASSUME SlotsOK, AnswersInv PROVE SeriesAddsUp
  <2> SUFFICES ASSUME NEW s \in Slots, Answered(s, {"timeseries"}), Status(s) = 200
               PROVE  LET a == answer[s].body
                          q == request[s]
        IN /\ Amount(a.points)
                = TotalSpend(CostRecords, a.window, q.filters)
           /\ \A p, o \in a.points : p.bucket = o.bucket /\ p.key = o.key => p = o
           /\ \A p \in a.points :
                p.bucket < a.window.end /\ p.bucket + UnitLength[q.interval] > a.window.start
    BY DEF SeriesAddsUp
  <2> DEFINE q == request[s]
             width == UnitLength[q.interval]
  <2>1. PICK now \in Moments : answer[s].body = TimeseriesAnswer(q, now)
    BY <1>1 DEF AnswersInv, Computed
  <2> DEFINE window == ResolvePeriod(q.period, now).current
             points == AggregateTimeseries(CostRecords, q.group_by, window, width, q.filters)
  <2>2. answer[s].body = [window |-> window, points |-> points]
    BY <2>1 DEF TimeseriesAnswer
  <2>3. q \in Requests /\ q.kind = "timeseries"
    BY <1>1 DEF SlotsOK, Answered, At
  <2>4. width \in Nat /\ width > 0
    BY <2>3, ApiAssumption, PeriodsAssumption DEF ApiAssumption, PeriodsAssumption
  <2>5. now \in Int /\ ParsePeriod(q.period) \in Int
    <3>1. ValidPeriod(q.period) /\ q.period.size \in Nat
      BY <1>1, <2>3, ApiAssumption DEF AnswersInv, Computed, ValidPayload, ApiAssumption
    <3>2. UnitLength[q.period.unit] \in Nat
      BY <3>1, PeriodsAssumption DEF ValidPeriod, PeriodsAssumption
    <3>3. now \in Int
      BY RecordsAssumption DEF RecordsAssumption
    <3> QED
      BY <3>1, <3>2, <3>3 DEF ParsePeriod
  <2>6. window.start \in Int /\ window.end \in Int
    BY <2>5 DEF ResolvePeriod
  <2> HIDE DEF q, width, window, points
  <2>7. /\ Amount(points) = TotalSpend(CostRecords, window, q.filters)
        /\ \A p, o \in points : p.bucket = o.bucket /\ p.key = o.key => p = o
        /\ \A p \in points : \E r \in Selected(CostRecords, window, q.filters) :
                p.bucket = Bucket(r, width) /\ p.key = KeyOf(r, q.group_by)
    BY RecordsFact, PointsAddUp DEF points
  <2>8. ASSUME NEW p \in points
        PROVE  p.bucket < window.end /\ p.bucket + width > window.start
    <3>1. PICK r \in Selected(CostRecords, window, q.filters) : p.bucket = Bucket(r, width)
      BY <2>7
    <3>2. r.at \in Int /\ window.start <= r.at /\ r.at < window.end
      BY RecordsFact DEF Selected, Conditions, InPeriod
    <3> DEFINE over == r.at % width
    <3>3. over \in 0..(width - 1)
      BY <2>4, <3>2
    <3>4. p.bucket = r.at - over
      BY <3>1 DEF Bucket
    <3> HIDE DEF over
    <3> QED
      BY <2>4, <2>6, <3>2, <3>3, <3>4
  <2> QED
    BY <2>2, <2>7, <2>8 DEF q, width
<1>2. ApiInv => SlotsOK
  BY DEF ApiInv
<1> QED
  BY <1>1, <1>2, AnswersInvariant, PTL

\* The window and the one before it, side by side.
LEMMA WindowsMeet ==
    ASSUME NEW now \in Int, NEW period, ParsePeriod(period) \in Nat
    PROVE  LET w == ResolvePeriod(period, now)
               both == [start |-> w.previous.start, end |-> w.current.end]
           IN /\ both.end - both.start = 2 * ParsePeriod(period)
              /\ \A r : r.at \in Int =>
                    /\ InPeriod(r, both) <=> InPeriod(r, w.current) \/ InPeriod(r, w.previous)
                    /\ ~(InPeriod(r, w.current) /\ InPeriod(r, w.previous))
<1> DEFINE d == ParsePeriod(period)
<1>1. ResolvePeriod(period, now) =
            [current |-> [start |-> now - d, end |-> now],
             previous |-> [start |-> (now - d) - d, end |-> now - d]]
  BY DEF ResolvePeriod
<1> HIDE DEF d
<1>2. d \in Nat
  BY DEF d
<1>3. now - ((now - d) - d) = 2 * d
  BY <1>2
<1> QED
  BY <1>1, <1>2, <1>3 DEF InPeriod, d

\* P gives each name that was there before its amount of then, once.
Priors(P, before, groupBy, names) ==
    /\ \A x \in P : /\ x.key \in names /\ x.key \in KeysIn(before, groupBy)
                    /\ x.prior = Amount(InGroup(before, groupBy, x.key))
    /\ \A x, y \in P : x.key = y.key => x = y
    /\ \A k \in names : k \in KeysIn(before, groupBy) => \E x \in P : x.key = k

PriorSum(P) == SumOf([x \in P |-> x.prior])

Lost(before, groupBy, names) == {r \in before : KeyOf(r, groupBy) \notin names}

\* The previous totals of the keys that are still there add up to what was spent on
\* them; what was spent on the others is missing.
LEMMA PriorsAddUp ==
    ASSUME NEW before, Money(before), NEW groupBy, NEW names, NEW P,
           Priors(P, before, groupBy, names)
    PROVE  PriorSum(P) = Amount(before) - Amount(Lost(before, groupBy, names))
<1> DEFINE gone == Lost(before, groupBy, names)
           e == [x \in P |-> x.prior]
           kept == {r \in before : KeyOf(r, groupBy) \in names}
           key == [r \in kept |-> KeyOf(r, groupBy)]
           keys == Image(key, kept)
           h == [k \in keys |-> CHOOSE x \in P : x.key = k]
<1> USE DEF Priors
<1>1. Amount(before) = Amount(gone) + Amount(kept) /\ Amount(gone) \in Int /\ Amount(kept) \in Int
  <2>1. gone \in SUBSET before /\ before \ gone = kept
    BY DEF Lost
  <2> HIDE DEF gone, kept
  <2> QED
    BY <2>1, AmountSplit
<1>2. Money(kept)
  <2>1. kept \in SUBSET before
    OBVIOUS
  <2> HIDE DEF kept
  <2> QED
    BY <2>1, AmountOfPart
<1>3. ASSUME NEW k \in keys
      PROVE  /\ k \in names /\ k \in KeysIn(before, groupBy)
             /\ Fibre(key, kept, k) = InGroup(before, groupBy, k)
  <2>1. PICK r \in kept : k = KeyOf(r, groupBy)
    BY DEF Image
  <2>2. k \in names /\ k \in KeysIn(before, groupBy)
    BY <2>1 DEF KeysIn
  <2> HIDE DEF keys
  <2>3. Fibre(key, kept, k) = InGroup(before, groupBy, k)
    BY <2>2 DEF Fibre, InGroup
  <2> QED
    BY <2>2, <2>3
<1>4. ASSUME NEW x \in P PROVE x.key \in keys
  <2>1. PICK r \in before : KeyOf(r, groupBy) = x.key
    BY DEF KeysIn
  <2>2. r \in kept
    BY <2>1
  <2> QED
    BY <2>1, <2>2 DEF Image
<1>5. ASSUME NEW k \in keys PROVE h[k] \in P /\ h[k].key = k
  <2>1. \E x \in P : x.key = k
    BY <1>3
  <2> QED
    BY <2>1
<1>6. \A x \in P : e[x] = x.prior
  OBVIOUS
<1>7. On(e, P) = e
  BY DEF On
<1> HIDE DEF h, e, keys, gone
<1>8. Image(h, keys) = P
  <2>1. ASSUME NEW x \in P PROVE x.key \in keys /\ h[x.key] = x
    BY <1>4, <1>5
  <2> QED
    BY <1>5, <2>1 DEF Image
<1>9. \A k \in keys : e[h[k]] = Amount(Fibre(key, kept, k))
  <2> SUFFICES ASSUME NEW k \in keys PROVE e[h[k]] = Amount(Fibre(key, kept, k))
    OBVIOUS
  <2>1. h[k] \in P /\ h[k].key = k
    BY <1>5
  <2>2. h[k].prior = Amount(InGroup(before, groupBy, k))
    BY <2>1
  <2> QED
    BY <1>3, <1>6, <2>1, <2>2
<1>10. \A k, l \in keys : h[k] = h[l] => k = l
  BY <1>5
<1>11. SumOf(On(e, Image(h, keys))) = Amount(kept)
  <2> HIDE DEF key, kept
  <2> QED
    BY <1>2, <1>9, <1>10, NamedGroupsAddUp DEF keys
<1>12. SumOf(e) = Amount(before) - Amount(gone)
  <2> HIDE DEF kept
  <2> QED
    BY <1>1, <1>7, <1>8, <1>11
<1> QED
  BY <1>12 DEF e, gone, PriorSum

\* The groups of the cost records in a window: their sum, keys and amounts.
LEMMA CostGroups ==
    ASSUME NEW period, NEW groupBy, NEW filters,
           NEW groups, groups = AggregateCosts(CostRecords, groupBy, period, filters),
           NEW hit, hit = Selected(CostRecords, period, filters)
    PROVE  /\ SumOf([g \in groups |-> g.total]) = Amount(hit)
           /\ {g.key : g \in groups} = KeysIn(hit, groupBy)
           /\ IsFiniteSet(groups)
           /\ \A g \in groups :
                /\ g.total \in Int /\ g.total = Amount(InGroup(hit, groupBy, g.key))
                /\ \A o \in groups : o.key = g.key => o = g
<1> DEFINE G == AggregateCosts(CostRecords, groupBy, period, filters)
           S == Selected(CostRecords, period, filters)
<1>1. Money(CostRecords)
  BY RecordsFact
<1>2. /\ SumOf([g \in G |-> g.total]) = TotalSpend(CostRecords, period, filters)
      /\ SumOf([g \in G |-> g.count]) = Cardinality(S)
      /\ {g.key : g \in G} = KeysIn(S, groupBy)
      /\ \A g \in G : /\ g.total = Amount(InGroup(S, groupBy, g.key))
                       /\ SumOf(g.by_source) = g.total
  BY <1>1, GroupsAddUp
<1>3. IsFiniteSet(G)
  BY <1>1, GroupsAddUp, Zenon
<1>4. \A g \in G : g.total \in Int
  BY <1>1, GroupsAddUp
<1>5. \A g \in G : \A o \in G : o.key = g.key => o = g
  BY <1>1, GroupsAddUp
<1>6. TotalSpend(CostRecords, period, filters) = Amount(hit)
  BY DEF TotalSpend
<1> HIDE DEF G, S
<1>7. groups = G /\ hit = S
  BY DEF G, S
<1> QED
  BY <1>2, <1>3, <1>4, <1>5, <1>6, <1>7

\* The comparison c of the costs q asks for adds up.
AddsUpTo(c, q) ==
    LET both == [start |-> c.window.previous.start, end |-> c.window.current.end]
        gone == {r \in Selected(CostRecords, c.window.previous, q.filters) :
                    \A g \in c.groups : g.key # KeyOf(r, q.group_by)}
    IN /\ both.end - both.start = 2 * ParsePeriod(q.period)
       /\ \A r \in CostRecords : InPeriod(r, both) =>
            (InPeriod(r, c.window.current) <=> ~InPeriod(r, c.window.previous))
       /\ SumOf([g \in c.groups |-> g.total]) = c.total
       /\ c.total + c.previous_total = TotalSpend(CostRecords, both, q.filters)
       /\ SumOf([g \in {x \in c.groups : x.prior # None} |-> g.prior])
            = c.previous_total - Amount(gone)

\* A comparison of costs, for any window, grouping and filters.
LEMMA ComparisonAddsUp ==
    ASSUME NEW q, NEW now \in Int, ParsePeriod(q.period) \in Nat
    PROVE  AddsUpTo(CostsAnswer(q, now), q)
<1> DEFINE w == ResolvePeriod(q.period, now)
           both == [start |-> w.previous.start, end |-> w.current.end]
           current == AggregateCosts(CostRecords, q.group_by, w.current, q.filters)
           previous == AggregateCosts(CostRecords, q.group_by, w.previous, q.filters)
           after == Selected(CostRecords, w.current, q.filters)
           before == Selected(CostRecords, w.previous, q.filters)
           prior(g) == {p.total : p \in {x \in previous : x.key = g.key}}
           line == [g \in current |-> [key |-> g.key, total |-> g.total, count |-> g.count,
                     prior |-> IF prior(g) = {} THEN None ELSE CHOOSE t \in prior(g) : TRUE]]
           lines == Image(line, current)
           sum(groups) == SumOf([g \in groups |-> g.total])
           c == CostsAnswer(q, now)
           gone == {r \in before : \A g \in lines : g.key # KeyOf(r, q.group_by)}
           P == {x \in lines : x.prior # None}
<1>1. /\ c.window = w /\ c.total = sum(current) /\ c.previous_total = sum(previous)
      /\ c.groups = lines
  BY DEF CostsAnswer, Image
<1>2. /\ both.end - both.start = 2 * ParsePeriod(q.period)
      /\ \A r \in CostRecords :
            /\ InPeriod(r, both) <=> InPeriod(r, w.current) \/ InPeriod(r, w.previous)
            /\ ~(InPeriod(r, w.current) /\ InPeriod(r, w.previous))
  BY RecordsFact, WindowsMeet
<1>3. /\ sum(current) = Amount(after) /\ {g.key : g \in current} = KeysIn(after, q.group_by)
      /\ IsFiniteSet(current)
      /\ \A g \in current : g.total \in Int /\ \A o \in current : o.key = g.key => o = g
  <2> HIDE DEF w
  <2> QED
    BY CostGroups
<1>4. /\ sum(previous) = Amount(before)
      /\ {g.key : g \in previous} = KeysIn(before, q.group_by)
      /\ \A g \in previous :
            /\ g.total \in Int /\ g.total = Amount(InGroup(before, q.group_by, g.key))
            /\ \A o \in previous : o.key = g.key => o = g
  <2> HIDE DEF w
  <2> QED
    BY CostGroups
<1>5. after \in SUBSET CostRecords /\ before \in SUBSET CostRecords
      /\ after \cap before = {} /\ Selected(CostRecords, both, q.filters) = after \cup before
  <2> HIDE DEF w, both
  <2> QED
    BY <1>2 DEF Selected, Conditions
<1> HIDE DEF c, w, both, current, previous, after, before
<1>6. Money(after) /\ Money(before)
  BY <1>5, RecordsFact, AmountOfPart
<1>7. Amount(after) + Amount(before) = TotalSpend(CostRecords, both, q.filters)
  BY <1>5, <1>6, AmountUnion DEF TotalSpend
<1>8. ASSUME NEW g \in current
      PROVE  /\ line[g].key = g.key /\ line[g].total = g.total
             /\ line[g].prior # None <=> g.key \in KeysIn(before, q.group_by)
             /\ line[g].prior # None => line[g].prior = Amount(InGroup(before, q.group_by, g.key))
  <2>1. line[g].prior = IF prior(g) = {} THEN None ELSE CHOOSE t \in prior(g) : TRUE
    OBVIOUS
  <2>2. line[g].key = g.key /\ line[g].total = g.total
    OBVIOUS
  <2>3. prior(g) # {} <=> g.key \in KeysIn(before, q.group_by)
    BY <1>4
  <2>4. \A t \in prior(g) : t \in Int /\ t = Amount(InGroup(before, q.group_by, g.key))
    BY <1>4
  <2>5. None \notin Int
    BY ApiAssumption DEF ApiAssumption
  <2> HIDE DEF line, prior
  <2>6. CASE prior(g) = {}
    BY <2>1, <2>2, <2>3, <2>6
  <2>7. CASE prior(g) # {}
    <3>1. line[g].prior \in prior(g)
      BY <2>1, <2>7
    <3> QED
      BY <2>2, <2>3, <2>4, <2>5, <2>7, <3>1
  <2> QED
    BY <2>6, <2>7
<1>9. \A x \in lines : \E g \in current : x = line[g]
  BY DEF Image
<1>10. \A g \in current : line[g] \in lines
  BY DEF Image
<1>11. SumOf([g \in lines |-> g.total]) = sum(current)
  <2> DEFINE f == [g \in current |-> g.total]
             e == [x \in lines |-> x.total]
  <2>1. ASSUME NEW g \in current PROVE f[g] \in Int /\ e[line[g]] = f[g]
    <3>1. f[g] = g.total /\ e[line[g]] = line[g].total
      BY <1>10
    <3> QED
      BY <1>3, <1>8, <3>1
  <2>2. \A g, o \in current : line[g] = line[o] => g = o
    BY <1>3, <1>8
  <2>3. On(f, current) = f /\ On(e, lines) = e
    BY DEF On
  <2> HIDE DEF f, e, line
  <2>4. SumOf(On(e, Image(line, current))) = SumOf(On(f, current))
    BY <1>3, <2>1, <2>2, SumImage
  <2>5. SumOf(e) = SumOf(f)
    BY <2>3, <2>4
  <2> QED
    BY <2>5 DEF e, f
<1> HIDE DEF line, lines
<1>12. {x.key : x \in lines} = KeysIn(after, q.group_by)
  BY <1>3, <1>8, <1>9, <1>10
<1>13. SumOf([x \in P |-> x.prior]) = Amount(before) - Amount(gone)
  <2> DEFINE names == KeysIn(after, q.group_by)
  <2>1. ASSUME NEW x \in P
        PROVE  /\ x.key \in names /\ x.key \in KeysIn(before, q.group_by)
               /\ x.prior = Amount(InGroup(before, q.group_by, x.key))
    <3>1. PICK g \in current : x = line[g]
      BY <1>9
    <3> QED
      BY <1>8, <1>12, <3>1
  <2>2. \A x, y \in P : x.key = y.key => x = y
    BY <1>3, <1>8, <1>9
  <2>3. ASSUME NEW k \in names, k \in KeysIn(before, q.group_by)
        PROVE  \E x \in P : x.key = k
    <3>1. PICK g \in current : g.key = k
      BY <1>3
    <3> QED
      BY <1>8, <1>10, <2>3, <3>1
  <2>4. gone = {r \in before : KeyOf(r, q.group_by) \notin names}
    BY <1>12
  <2>5. gone = Lost(before, q.group_by, names)
    BY <2>4 DEF Lost
  <2> HIDE DEF P, names, gone
  <2>6. Priors(P, before, q.group_by, names)
    BY <2>1, <2>2, <2>3 DEF Priors
  <2>7. PriorSum(P) = Amount(before) - Amount(Lost(before, q.group_by, names))
    BY <1>6, <2>6, PriorsAddUp
  <2> QED
    BY <2>5, <2>7 DEF PriorSum
<1>14. /\ SumOf([g \in c.groups |-> g.total]) = c.total
       /\ c.total + c.previous_total = TotalSpend(CostRecords, both, q.filters)
       /\ SumOf([x \in P |-> x.prior]) = c.previous_total - Amount(gone)
  BY <1>1, <1>3, <1>4, <1>7, <1>11, <1>13
<1>15. /\ P = {x \in c.groups : x.prior # None}
       /\ gone = {r \in Selected(CostRecords, c.window.previous, q.filters) :
                    \A g \in c.groups : g.key # KeyOf(r, q.group_by)}
       /\ both = [start |-> c.window.previous.start, end |-> c.window.current.end]
  BY <1>1 DEF before, both
<1>16. \A r \in CostRecords : InPeriod(r, both) =>
            (InPeriod(r, c.window.current) <=> ~InPeriod(r, c.window.previous))
  BY <1>1, <1>2
<1> HIDE DEF P, gone
<1> QED
  BY <1>2, <1>14, <1>15, <1>16 DEF c, AddsUpTo

\* Every comparison the API answers adds up: its groups to its total, the two totals
\* to both windows, and the previous amounts of its groups to what was not lost.
THEOREM CostAnswersAddUp == Spec => []CostsAddUp
<1>1. ASSUME SlotsOK, AnswersInv, NEW s \in Slots, Answered(s, {"costs"}), Status(s) = 200
      PROVE  \E now \in Int : /\ answer[s].body = CostsAnswer(request[s], now)
                               /\ ParsePeriod(request[s].period) \in Nat
  <2>1. ValidPayload(request[s])
        /\ \E now \in Moments : answer[s].body = CostsAnswer(request[s], now)
    BY <1>1 DEF AnswersInv, Computed
  <2>2. request[s] \in Requests /\ request[s].kind = "costs"
    BY <1>1 DEF SlotsOK, Answered, At
  <2>3. ValidPeriod(request[s].period) /\ request[s].period.size \in Nat
    BY <2>1, <2>2, ApiAssumption DEF ValidPayload, ApiAssumption
  <2>4. UnitLength[request[s].period.unit] \in Nat
    BY <2>3, PeriodsAssumption DEF ValidPeriod, PeriodsAssumption
  <2>5. ParsePeriod(request[s].period) \in Nat
    BY <2>3, <2>4 DEF ParsePeriod
  <2> QED
    BY <2>1, <2>5, RecordsAssumption DEF RecordsAssumption
<1>2. ASSUME SlotsOK, AnswersInv PROVE CostsAddUp
  <2>1. ASSUME NEW s \in Slots, Answered(s, {"costs"}), Status(s) = 200
        PROVE  AddsUpTo(answer[s].body, request[s])
    <3>1. PICK now \in Int : /\ answer[s].body = CostsAnswer(request[s], now)
                              /\ ParsePeriod(request[s].period) \in Nat
      BY <1>1, <1>2, <2>1
    <3> QED
      BY <3>1, ComparisonAddsUp
  <2> QED
    BY <2>1 DEF CostsAddUp, AddsUpTo
<1>3. ApiInv => SlotsOK
  BY DEF ApiInv
<1> QED
  BY <1>2, <1>3, AnswersInvariant, PTL
=============================================================================
