------------------------------ MODULE MCReports ------------------------------
(***************************************************************************)
(* UnattributedReport on a small instance: two passes over a shared index   *)
(* whose split follows usage, a shared machine split evenly, spend nobody   *)
(* tagged, a credit that no pass can split, and a row of another window.    *)
(***************************************************************************)
EXTENDS UnattributedReport, TLC

CONSTANTS p1, p2

RawTexts == OwnerDimensions \cup {"user_api_key_team_alias", "team_alias"} \cup
    {"unattributed", "Team", "alpha", " Alpha ", "beta", "demo", "  "}

Cleaned == [t \in RawTexts \cup {Nothing} |->
    CASE t = "Team" -> "team" [] t = " Alpha " -> "alpha" [] t = "  " -> Nothing [] OTHER -> t]

Said(m) == [k \in Owners!MetadataKeys |-> IF k \in DOMAIN m THEN m[k] ELSE Nothing]

Tag(k, v) == [key |-> k, value |-> v]

Log(id, tags, metadata, model, spend) ==
    [id |-> id, tags |-> tags, metadata |-> metadata, model |-> model,
     spend |-> spend, tokens |-> spend]

Logs == {
    Log("l1", <<Malformed, Tag("team", "  "), Tag("Team", " Alpha "), Tag("team", "beta")>>,
        Said("team" :> "beta" @@ "team_alias" :> "beta"), "small", 2),
    Log("l2", <<Tag("team", "unattributed"), Tag("project", "demo")>>,
        Said("team_alias" :> "beta"), "small", 1),
    Log("l3", <<>>, Said([k \in {} |-> ""]), "large", 3)}

Nobody == [d \in OwnerDimensions |-> Unattributed]

Shared(id, source, amount, quantity) ==
    [key |-> <<id>>, source |-> source, owner |-> Nobody, model |-> NoModel, at |-> 0,
     amount |-> amount, quantity |-> quantity,
     allocated |-> FALSE, rule |-> Nothing, parent |-> Nothing]

SharedRows ==
    {Shared("v1", "vectordb", 5, 4), Shared("i1", "infra", 4, Nothing), Shared("c1", "infra", -1, 1),
     [Shared("o1", "vectordb", 7, 7) EXCEPT !.at = 1]}

\* The same without the credit.
CostsOnly == {row \in SharedRows : row.amount >= 0}

Rule(name, strategy, source, weights, priority) ==
    [name |-> name, strategy |-> strategy, targets |-> {"alpha", "beta", "gamma"},
     source |-> source, match_team |-> Unattributed, match_project |-> Nothing,
     weights |-> weights, usage_sources |-> {"llm"}, priority |-> priority]

\* The two default rules, and one of fixed percentages for what nobody tagged.
RuleSet == {
    Rule("vector", "usage_weighted", "vectordb", Nothing, 10),
    Rule("infra", "even_split", "infra", Nothing, 20),
    [Rule("rest", "fixed_percent", "llm",
        "alpha" :> 70 @@ "beta" :> 30 @@ "gamma" :> 0, 100) EXCEPT !.targets = {"alpha", "beta"}]}

Order == "alpha" :> 1 @@ "beta" :> 2 @@ "gamma" :> 3 @@
         "vector" :> 4 @@ "infra" :> 5 @@ "rest" :> 6

\* One log and the shared lines are there; the others arrive when they like.
Early == {<<"l2">>, <<"v1">>, <<"i1">>, <<"o1">>}

EitherPass == Permutations({p1, p2})
=============================================================================
