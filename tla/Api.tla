---------------------------------- MODULE Api ----------------------------------
(***************************************************************************)
(* The HTTP API: src/src/finopsai/api/routes. Requests are served           *)
(* concurrently, each with a session of its own, and give way to each other *)
(* at every statement: a handler reads, then writes and commits, then reads *)
(* its row again for the response. Every statement sees what is committed   *)
(* when it starts. Cost records do not change here (see Allocation).        *)
(***************************************************************************)
EXTENDS Aggregation, Periods

CONSTANTS
    Slots,         \* requests served at a time
    Requests,      \* what clients may ask
    CostRecords,   \* the cost_record table
    Sources,       \* the names of CostSource
    Moments,       \* instants at which a handler may look at the clock
    MaxRequests    \* bound: requests served

VARIABLES
    teams,      \* names in the team table
    budgets,    \* rows of the budget table
    nextId,     \* the budget table's sequence
    request,    \* per slot, the request being served or None
    step,       \* per slot, where its handler is
    row,        \* per slot, the budget row the handler holds
    wrote,      \* per slot, its transaction has changed a table
    answer,     \* per slot, what the client gets
    served

vars == <<teams, budgets, nextId, request, step, row, wrote, answer, served>>

ASSUME ApiAssumption ==
    /\ \A q \in Requests : q.kind \in
        {"create_team", "delete_team", "get_team", "list_teams", "create_budget",
         "update_budget", "delete_budget", "get_budget", "list_budgets",
         "costs", "timeseries", "forecast"}
    /\ \A q \in Requests :
        /\ q.kind = "create_budget" => q.limit \in Int /\ q.is_active \in BOOLEAN
        /\ q.kind = "update_budget" =>
            /\ DOMAIN q.fields \subseteq {"limit", "thresholds", "is_active"}
            /\ "limit" \in DOMAIN q.fields => q.fields["limit"] \in Int \cup {None}
            /\ "is_active" \in DOMAIN q.fields => q.fields["is_active"] \in BOOLEAN \cup {None}
        /\ q.kind \in {"costs", "timeseries"} => q.period.size \in Nat
        /\ q.kind = "timeseries" => q.interval \in DOMAIN UnitLength
    /\ None \notin Int \cup BOOLEAN \cup Requests
    /\ MaxRequests \in Nat

\* Cost records are finitely many, in steps of a column, and dated; every moment is
\* in a month.
ASSUME RecordsAssumption ==
    /\ IsFiniteSet(CostRecords)
    /\ \A r \in CostRecords : r.amount \in Int /\ r.at \in Int
    /\ \A now \in Moments :
        /\ now \in Int
        /\ \E start, end \in MonthStarts :
            /\ start <= now /\ now < end
            /\ \A m \in MonthStarts : m <= start \/ end <= m

Init ==
    /\ teams = {}
    /\ budgets = {}
    /\ nextId = 1
    /\ request = [s \in Slots |-> None]
    /\ step = [s \in Slots |-> "idle"]
    /\ row = [s \in Slots |-> None]
    /\ wrote = [s \in Slots |-> FALSE]
    /\ answer = [s \in Slots |-> None]
    /\ served = 0

Find(id) == {b \in budgets : b.id = id}

OfTeam(team, period) == {b \in budgets : b.team = team /\ b.period = period}

----------------------------------------------------------------------------
(* Serving a request.                                                       *)

At(s, here, kinds) ==
    /\ step[s] = here
    /\ request[s] # None /\ request[s].kind \in kinds

Goes(s, to) ==
    /\ step' = [step EXCEPT ![s] = to]
    /\ UNCHANGED <<request, answer, served>>

Answers(s, status, body) ==
    /\ step' = [step EXCEPT ![s] = "answered"]
    /\ answer' = [answer EXCEPT ![s] = [status |-> status, body |-> body]]
    /\ UNCHANGED <<request, served>>

Keeps(s, budget) == row' = [row EXCEPT ![s] = budget]
Wrote(s) == wrote' = [wrote EXCEPT ![s] = TRUE]

Arrives(s) ==
    /\ step[s] = "idle" /\ served < MaxRequests
    /\ \E q \in Requests : request' = [request EXCEPT ![s] = q]
    /\ step' = [step EXCEPT ![s] = "validate"]
    /\ served' = served + 1
    /\ UNCHANGED <<teams, budgets, nextId, row, wrote, answer>>

Respond(s) ==
    /\ step[s] = "answered"
    /\ step' = [step EXCEPT ![s] = "idle"]
    /\ request' = [request EXCEPT ![s] = None]
    /\ row' = [row EXCEPT ![s] = None]
    /\ wrote' = [wrote EXCEPT ![s] = FALSE]
    /\ answer' = [answer EXCEPT ![s] = None]
    /\ UNCHANGED <<teams, budgets, nextId, served>>

ValidPayloadNoLimit(q) ==             \* mutant: limits are taken as they are
    q.kind \in {"costs", "timeseries"} =>
        /\ ValidPeriod(q.period) /\ KnownDimensions(q.group_by)
        /\ q.filters.only["source"] \subseteq Sources

\* Pydantic: a limit, where one is given, is positive. Null is not refused.
ValidPayload(q) ==
    /\ q.kind = "create_budget" => q.limit > 0
    /\ q.kind = "update_budget" /\ "limit" \in DOMAIN q.fields =>
            q.fields["limit"] = None \/ q.fields["limit"] > 0
    /\ q.kind \in {"costs", "timeseries"} =>
            /\ ValidPeriod(q.period) /\ KnownDimensions(q.group_by)
            /\ q.filters.only["source"] \subseteq Sources

Refusal(q) == IF q.kind \in {"costs", "timeseries"} THEN 400 ELSE 422

Validate(s) ==
    /\ step[s] = "validate"
    /\ IF ValidPayload(request[s]) THEN Goes(s, "read")
       ELSE Answers(s, Refusal(request[s]), None)
    /\ UNCHANGED <<teams, budgets, nextId, row, wrote>>

----------------------------------------------------------------------------
(* Teams.                                                                   *)

CreateTeamRead(s) ==
    /\ At(s, "read", {"create_team"})
    /\ IF request[s].team \in teams THEN Answers(s, 409, None) ELSE Goes(s, "write")
    /\ UNCHANGED <<teams, budgets, nextId, row, wrote>>

\* The primary key decides between two that found no team.
CreateTeamWrite(s) ==
    /\ At(s, "write", {"create_team"})
    /\ IF request[s].team \in teams
       THEN Answers(s, 500, None) /\ UNCHANGED <<teams, wrote>>
       ELSE Goes(s, "refresh") /\ Wrote(s) /\ teams' = teams \cup {request[s].team}
    /\ UNCHANGED <<budgets, nextId, row>>

CreateTeamRefresh(s) ==
    /\ At(s, "refresh", {"create_team"})
    /\ Answers(s, IF request[s].team \in teams THEN 201 ELSE 500, None)
    /\ UNCHANGED <<teams, budgets, nextId, row, wrote>>

DeleteTeamRead(s) ==
    /\ At(s, "read", {"delete_team"})
    /\ IF request[s].team \in teams THEN Goes(s, "write") ELSE Answers(s, 404, None)
    /\ UNCHANGED <<teams, budgets, nextId, row, wrote>>

\* Deleting what somebody else has just deleted is no error. Budgets and cost
\* records of the team stay.
DeleteTeamWrite(s) ==
    /\ At(s, "write", {"delete_team"})
    /\ teams' = teams \ {request[s].team}
    /\ IF request[s].team \in teams THEN Wrote(s) ELSE UNCHANGED wrote
    /\ Answers(s, 204, None)
    /\ UNCHANGED <<budgets, nextId, row>>

GetTeam(s) ==
    /\ At(s, "read", {"get_team"})
    /\ Answers(s, IF request[s].team \in teams THEN 200 ELSE 404, None)
    /\ UNCHANGED <<teams, budgets, nextId, row, wrote>>

ListTeams(s) ==
    /\ At(s, "read", {"list_teams"})
    /\ Answers(s, 200, teams)
    /\ UNCHANGED <<teams, budgets, nextId, row, wrote>>

----------------------------------------------------------------------------
(* Budgets.                                                                 *)

\* response_model: thresholds that are null do not make a budget.
Presents(s, budget, status) ==
    Answers(s, IF budget.thresholds = None THEN 500 ELSE status, budget)

CreateBudgetRead(s) ==
    /\ At(s, "read", {"create_budget"})
    /\ IF OfTeam(request[s].team, request[s].period) # {}
       THEN Answers(s, 409, None) ELSE Goes(s, "write")
    /\ UNCHANGED <<teams, budgets, nextId, row, wrote>>

\* The unique constraint on team and period. A refused insert has taken its id.
UniqueBudgetDropped(q) == TRUE        \* mutant: no unique constraint
UniqueBudget(q) == OfTeam(q.team, q.period) = {}

CreateBudgetWrite(s) ==
    /\ At(s, "write", {"create_budget"})
    /\ LET q == request[s]
           new == [id |-> nextId, team |-> q.team, period |-> q.period, limit |-> q.limit,
                   thresholds |-> q.thresholds, is_active |-> q.is_active]
       IN IF UniqueBudget(q)
          THEN /\ budgets' = budgets \cup {new}
               /\ Keeps(s, new) /\ Wrote(s) /\ Goes(s, "refresh")
          ELSE Answers(s, 500, None) /\ UNCHANGED <<budgets, row, wrote>>
    /\ nextId' = nextId + 1
    /\ UNCHANGED teams

RefreshMissing(s) ==                  \* mutant: a row that has gone is "not found"
    /\ At(s, "refresh", {"create_budget", "update_budget"})
    /\ IF Find(row[s].id) = {} THEN Answers(s, 404, None) /\ UNCHANGED row
       ELSE \E b \in Find(row[s].id) : Presents(s, b, 200) /\ Keeps(s, b)
    /\ UNCHANGED <<teams, budgets, nextId, wrote>>

\* The row is read back after the commit: whoever came in between shows.
Refresh(s) ==
    /\ At(s, "refresh", {"create_budget", "update_budget"})
    /\ LET status == IF request[s].kind = "create_budget" THEN 201 ELSE 200
       IN IF Find(row[s].id) = {} THEN Answers(s, 500, None) /\ UNCHANGED row
          ELSE \E b \in Find(row[s].id) : Presents(s, b, status) /\ Keeps(s, b)
    /\ UNCHANGED <<teams, budgets, nextId, wrote>>

Load(s) ==
    /\ At(s, "read", {"update_budget", "delete_budget", "get_budget"})
    /\ IF Find(request[s].id) = {} THEN Answers(s, 404, None) /\ UNCHANGED row
       ELSE \E b \in Find(request[s].id) :
            /\ Keeps(s, b)
            /\ IF request[s].kind = "get_budget" THEN Presents(s, b, 200) ELSE Goes(s, "write")
    /\ UNCHANGED <<teams, budgets, nextId, wrote>>

\* Only fields the client sent are set, and only those that differ from the row
\* as it was loaded are written.
ChangedFields(s) ==
    {f \in DOMAIN request[s].fields : request[s].fields[f] # row[s][f]}

\* limit_usd and is_active are NOT NULL; JSON null is a value like any other.
NullRefused(s) ==
    \E f \in ChangedFields(s) \ {"thresholds"} : request[s].fields[f] = None

UpdatedWhole(s, b) ==                 \* mutant: every loaded field is written
    [f \in DOMAIN b |-> IF f \in ChangedFields(s) THEN request[s].fields[f] ELSE row[s][f]]
Updated(s, b) ==
    [f \in DOMAIN b |-> IF f \in ChangedFields(s) THEN request[s].fields[f] ELSE b[f]]

UpdateBudgetWrite(s) ==
    /\ At(s, "write", {"update_budget"})
    /\ IF ChangedFields(s) = {} THEN Goes(s, "refresh") /\ UNCHANGED <<budgets, wrote>>
       ELSE IF NullRefused(s) \/ Find(row[s].id) = {}
       THEN Answers(s, 500, None) /\ UNCHANGED <<budgets, wrote>>
       ELSE /\ \E b \in Find(row[s].id) : budgets' = (budgets \ {b}) \cup {Updated(s, b)}
            /\ Wrote(s) /\ Goes(s, "refresh")
    /\ UNCHANGED <<teams, nextId, row>>

DeleteBudgetWrite(s) ==
    /\ At(s, "write", {"delete_budget"})
    /\ budgets' = budgets \ Find(row[s].id)
    /\ IF Find(row[s].id) # {} THEN Wrote(s) ELSE UNCHANGED wrote
    /\ Answers(s, 204, None)
    /\ UNCHANGED <<teams, nextId, row>>

\* One budget that cannot be presented fails the whole list.
ListBudgets(s) ==
    /\ At(s, "read", {"list_budgets"})
    /\ LET listed == {b \in budgets : request[s].team \in {None, b.team}}
       IN Answers(s, IF \E b \in listed : b.thresholds = None THEN 500 ELSE 200, listed)
    /\ UNCHANGED <<teams, budgets, nextId, row, wrote>>

----------------------------------------------------------------------------
(* Costs and forecasts.                                                     *)

\* Groups are compared by key with those of the window before; a key that has
\* gone is in no group, but in the previous total.
CostsAnswer(q, now) ==
    LET window == ResolvePeriod(q.period, now)
        current == AggregateCosts(CostRecords, q.group_by, window.current, q.filters)
        previous == AggregateCosts(CostRecords, q.group_by, window.previous, q.filters)
        prior(g) == {p.total : p \in {x \in previous : x.key = g.key}}
        sum(groups) == SumOf([g \in groups |-> g.total])
    IN [window |-> window,
        total |-> sum(current), previous_total |-> sum(previous),
        has_change |-> HasChange(sum(previous)),
        groups |-> {[key |-> g.key, total |-> g.total, count |-> g.count,
                     prior |-> IF prior(g) = {} THEN None ELSE CHOOSE t \in prior(g) : TRUE]
                    : g \in current}]

GetCosts(s) ==
    /\ At(s, "read", {"costs"})
    /\ \E now \in Moments : Answers(s, 200, CostsAnswer(request[s], now))
    /\ UNCHANGED <<teams, budgets, nextId, row, wrote>>

TimeseriesAnswer(q, now) ==
    LET window == ResolvePeriod(q.period, now).current
    IN [window |-> window,
        points |-> AggregateTimeseries(CostRecords, q.group_by, window,
                                       UnitLength[q.interval], q.filters)]

GetTimeseries(s) ==
    /\ At(s, "read", {"timeseries"})
    /\ \E now \in Moments : Answers(s, 200, TimeseriesAnswer(request[s], now))
    /\ UNCHANGED <<teams, budgets, nextId, row, wrote>>

\* Month to date, and the whole month at its very first instant.
SpendToDate(team, now) ==
    LET month == MonthBounds(now)
        window == [month EXCEPT !.end = IF now > month.start THEN now ELSE @]
    IN TotalSpend(CostRecords, window, FilterOn("team", {team}))

ForecastLimit(team) ==
    LET active == {b \in OfTeam(team, "monthly") : b.is_active}
    IN IF active = {} THEN None ELSE (CHOOSE b \in active : TRUE).limit

\* The clock and the spend are read first, the budget in a second statement.
GetForecast(s) ==
    /\ At(s, "read", {"forecast"})
    /\ \E now \in Moments :
        Answers(s, 200, BuildForecast(SpendToDate(request[s].team, now), now,
                                      MonthBounds(now), ForecastLimit(request[s].team)))
    /\ UNCHANGED <<teams, budgets, nextId, row, wrote>>

----------------------------------------------------------------------------

Serve(s) ==
    \/ Arrives(s) \/ Validate(s) \/ Respond(s)
    \/ CreateTeamRead(s) \/ CreateTeamWrite(s) \/ CreateTeamRefresh(s)
    \/ DeleteTeamRead(s) \/ DeleteTeamWrite(s) \/ GetTeam(s) \/ ListTeams(s)
    \/ CreateBudgetRead(s) \/ CreateBudgetWrite(s) \/ Refresh(s)
    \/ Load(s) \/ UpdateBudgetWrite(s) \/ DeleteBudgetWrite(s) \/ ListBudgets(s)
    \/ GetCosts(s) \/ GetTimeseries(s) \/ GetForecast(s)

Next == \E s \in Slots : Serve(s)

Spec == Init /\ [][Next]_vars

----------------------------------------------------------------------------
(* What must hold.                                                          *)

TypeOK ==
    /\ nextId \in Nat /\ served \in 0..MaxRequests
    /\ \A b \in budgets :
        /\ b.id \in 1..nextId - 1
        /\ b.limit \in Int /\ b.limit > 0 /\ b.is_active \in BOOLEAN
    /\ \A s \in Slots :
        /\ request[s] \in Requests \cup {None} /\ wrote[s] \in BOOLEAN
        /\ step[s] \in {"idle", "validate", "read", "write", "refresh", "answered"}
        /\ step[s] = "idle" <=> request[s] = None
        /\ step[s] \in {"validate", "read", "write"} => ~wrote[s]
        /\ step[s] = "write" /\ request[s].kind \in {"update_budget", "delete_budget"} =>
                row[s].id = request[s].id

\* "One budget per team per period", although every create looks first and
\* inserts later; and an id is never given twice.
OneBudgetPerTeam ==
    \A a, b \in budgets :
        a.id = b.id \/ (a.team = b.team /\ a.period = b.period) => a = b

\* "Omitted fields keep their stored value", the value another client has stored
\* since the row was loaded included: a row changes only in fields that a PATCH
\* of this budget names, and to what it says.
PatchTouchesOnlyNamed ==
    [][\A old \in budgets, new \in budgets' : old.id = new.id /\ old # new =>
        \E s \in Slots :
            /\ At(s, "write", {"update_budget"}) /\ request[s].id = old.id
            /\ \A f \in DOMAIN old : old[f] # new[f] =>
                    f \in DOMAIN request[s].fields /\ new[f] = request[s].fields[f]]_vars

Answered(s, kinds) == At(s, "answered", kinds)

Status(s) == answer[s].status

\* The status says what has become of the tables. A refusal has changed nothing;
\* an internal error has only where the row could not be presented afterwards; a
\* creation has happened, as asked; a budget that was deleted stays deleted.
AnswersAreHonest ==
    \A s \in Slots : step[s] = "answered" =>
        /\ Status(s) \in 400..499 => ~wrote[s]
        /\ Status(s) = 500 /\ wrote[s] /\ request[s].kind # "create_team" =>
                Find(row[s].id) = {} \/ row[s].thresholds = None
        /\ Status(s) = 201 => wrote[s]
        /\ Status(s) = 201 /\ request[s].kind = "create_budget" =>
                /\ answer[s].body.team = request[s].team
                /\ answer[s].body.period = request[s].period
        /\ Status(s) = 204 /\ request[s].kind = "delete_budget" => Find(request[s].id) = {}

\* Every forecast the API gives is consistent (see OneStory), whatever budget the
\* second statement found.
ForecastAgrees ==
    \A s \in Slots : Answered(s, {"forecast"}) => OneStory(answer[s].body)

\* A period is compared with the one before it, of the same length and without
\* gap or overlap; the groups and those that have gone add up to the totals.
CostsAddUp ==
    \A s \in Slots : Answered(s, {"costs"}) /\ Status(s) = 200 =>
        LET c == answer[s].body
            q == request[s]
            both == [start |-> c.window.previous.start, end |-> c.window.current.end]
            gone == {r \in Selected(CostRecords, c.window.previous, q.filters) :
                        \A g \in c.groups : g.key # KeyOf(r, q.group_by)}
        IN /\ both.end - both.start = 2 * ParsePeriod(q.period)
           /\ \A r \in CostRecords : InPeriod(r, both) =>
                (InPeriod(r, c.window.current) <=> ~InPeriod(r, c.window.previous))
           /\ SumOf([g \in c.groups |-> g.total]) = c.total
           /\ c.total + c.previous_total = TotalSpend(CostRecords, both, q.filters)
           /\ SumOf([g \in {x \in c.groups : x.prior # None} |-> g.prior])
                = c.previous_total - Amount(gone)

\* The buckets of a series lose nothing and count nothing twice, and each of them
\* meets the window.
SeriesAddsUp ==
    \A s \in Slots : Answered(s, {"timeseries"}) /\ Status(s) = 200 =>
        LET a == answer[s].body
            q == request[s]
        IN /\ Amount(a.points)
                = TotalSpend(CostRecords, a.window, q.filters)
           /\ \A p, o \in a.points : p.bucket = o.bucket /\ p.key = o.key => p = o
           /\ \A p \in a.points :
                p.bucket < a.window.end /\ p.bucket + UnitLength[q.interval] > a.window.start
=============================================================================
