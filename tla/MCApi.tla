-------------------------------- MODULE MCApi --------------------------------
(***************************************************************************)
(* Api on a small instance: two requests at a time, four in all: enough to  *)
(* create a budget and race two changes of it with a reader. A month has    *)
(* four days of three hours.                                                *)
(***************************************************************************)
EXTENDS Api, TLC

CONSTANTS s1, s2

Units == "h" :> 1 @@ "d" :> 3 @@ "w" :> 6

Periodic(size, unit) == [size |-> size, unit |-> unit]

Ask(kind) == [kind |-> kind]
ForTeam(kind, team) == [kind |-> kind, team |-> team]
ForBudget(kind, id) == [kind |-> kind, id |-> id]
Patch(fields) == [kind |-> "update_budget", id |-> 1, fields |-> fields]

NewBudget(limit) ==
    [kind |-> "create_budget", team |-> "alpha", period |-> "monthly", limit |-> limit,
     thresholds |-> "usual", is_active |-> TRUE]

CostQuery(kind, groupBy, size, unit, filters, interval) ==
    [kind |-> kind, group_by |-> groupBy, period |-> Periodic(size, unit),
     filters |-> filters, interval |-> interval]

Asked == {
    ForTeam("create_team", "alpha"), ForTeam("delete_team", "alpha"),
    ForTeam("get_team", "alpha"), Ask("list_teams"),
    NewBudget(8), NewBudget(0),
    Patch("limit" :> 12), Patch("is_active" :> FALSE), Patch("thresholds" :> None),
    Patch("limit" :> None @@ "is_active" :> TRUE), Patch("limit" :> 0),
    ForBudget("delete_budget", 1), ForBudget("get_budget", 1), ForTeam("list_budgets", None),
    ForTeam("forecast", "alpha"),
    CostQuery("costs", {"team"}, 1, "d", NoFilters, "d"),
    CostQuery("costs", {"project", "model"}, 4, "h", FilterOn("team", {"alpha"}), "d"),
    CostQuery("costs", {"region"}, 1, "d", NoFilters, "d"),
    CostQuery("costs", {"team"}, 0, "d", NoFilters, "d"),
    CostQuery("timeseries", {"team"}, 2, "d", NoFilters, "d"),
    CostQuery("timeseries", {"team"}, 4, "h", FilterOn("source", {"stocks"}), "h")}

Row(key, team, project, model, at, amount, allocated) ==
    [key |-> key, source |-> IF model = NoModel THEN "infra" ELSE "llm",
     owner |-> [d \in OwnerDimensions |-> CASE d = "team" -> team [] d = "project" -> project
                                            [] OTHER -> Unattributed],
     model |-> model, at |-> at, amount |-> amount, allocated |-> allocated]

\* Spend at the edges of the windows, a credit, and a parent with its children.
Records == {
    Row(1, "alpha", "search", "small", 0, 1, FALSE),
    Row(2, "alpha", "search", "small", 3, 2, FALSE),
    Row(3, "alpha", "chat", "large", 4, 1, FALSE),
    Row(4, "beta", "chat", NoModel, 6, -1, FALSE),
    Row(5, Unattributed, "chat", NoModel, 5, 3, TRUE),
    Row(6, "alpha", "chat", NoModel, 5, 2, FALSE),
    Row(7, "beta", "chat", NoModel, 5, 1, FALSE),
    Row(8, "alpha", "search", "small", 12, 2, FALSE)}

\* Early and late moments of a month, and the first instant of the next one. A
\* limit of 12 is then forecast to be breached although the projection only meets it.
Clock == {1, 6, 8, 12, 13}

EitherSlot == Permutations({s1, s2})
=============================================================================
