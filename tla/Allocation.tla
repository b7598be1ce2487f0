------------------------------ MODULE Allocation ------------------------------
(***************************************************************************)
(* The cost_record table while allocation passes run over it                *)
(* (src/src/finopsai/attribution/rules.py). A pass is one transaction of    *)
(* its caller: it selects the records not yet split, splits each of them in *)
(* the session, and writes when the session flushes: before each read of    *)
(* the usage weights (autoflush) and at the end. The caller commits.        *)
(*                                                                         *)
(* Collectors commit records in between, every statement of READ COMMITTED  *)
(* sees what is committed by then, a statement that fails rolls the pass    *)
(* back, and the unique constraint on (source, dedup_key) decides between   *)
(* passes that overlap. Money and quantities are integers, in units of the  *)
(* step of their column.                                                    *)
(***************************************************************************)
EXTENDS Aggregation

CONSTANTS
    Passes,        \* sessions that may apply the rules
    Rules,         \* the rules every pass is given
    NameRank,      \* the order of names: ties between rules, and between teams
    SpendLogs,     \* logs the LLM collector may ingest
    SharedCosts,   \* unattributed rows written by the collectors of other sources
    Collected,     \* keys of the rows that are there before the first pass
    MaxPasses,     \* bound: passes that begin
    MaxFailures,   \* bound: database errors that hit a pass
    Texts, Normalize, Nothing, Malformed   \* see Attribution

Owners == INSTANCE Attribution

Period == [start |-> 0, end |-> 1]   \* of the passes and the reports; logs fall into it

VARIABLES
    ledger,     \* committed rows of cost_record
    phase,      \* of each pass: idle, splitting, or flushed (awaiting its commit)
    todo,       \* rows a pass has selected and not come to
    pending,    \* rows changed in the session, not sent
    sent,       \* rows written by the transaction
    begun, failures

vars == <<ledger, phase, todo, pending, sent, begun, failures>>

ValidRule(rule) ==
    /\ rule.targets # {}
    /\ rule.strategy = "fixed_percent" => rule.targets \subseteq DOMAIN rule.weights

ASSUME AllocationAssumption ==
    /\ Owners!Normalization
    /\ \A rule \in Rules : ValidRule(rule)
    /\ MaxPasses \in Nat /\ MaxFailures \in Nat

Keys(rows) == {r.key : r \in rows}

----------------------------------------------------------------------------
(* Rules and shares.                                                        *)

IsChild(row) == row.parent # Nothing

Matches(rule, row) ==
    /\ ~row.allocated /\ ~IsChild(row)
    /\ row.owner["team"] = rule.match_team
    /\ rule.source # Nothing => row.source = rule.source
    /\ rule.match_project # Nothing => row.owner["project"] = rule.match_project

Precedes(a, b) ==
    \/ a.priority < b.priority
    \/ a.priority = b.priority /\ NameRank[a.name] <= NameRank[b.name]

\* sorted puts one of the rules that match first.
ASSUME RulesAreOrdered ==
    \A choice \in (SUBSET Rules) \ {{}} :
        \E rule \in choice : \A other \in choice : Precedes(rule, other)

Governed(row) == \E rule \in Rules : Matches(rule, row)

SelectRule(row) ==
    CHOOSE rule \in Rules :
        /\ Matches(rule, row)
        /\ \A other \in Rules : Matches(other, row) => Precedes(rule, other)

EvenWeights(targets) == [t \in targets |-> 1]

\* What each target has spent, or even weights where nobody has spent anything.
UsageWeights(rows, targets, sources) ==
    LET observed == [t \in targets |->
            Amount({r \in Selected(rows, Period, NoFilters) :
                        r.owner["team"] = t /\ r.source \in sources})]
    IN IF SumOf(observed) <= 0 THEN EvenWeights(targets) ELSE observed

ResolveWeights(rows, rule) ==
    CASE rule.strategy = "even_split" -> EvenWeights(rule.targets)
      [] rule.strategy = "fixed_percent" -> [t \in rule.targets |-> rule.weights[t]]
      [] OTHER -> UsageWeights(rows, rule.targets, rule.usage_sources)

\* ROUND_DOWN is towards zero.
RoundDown(a, b) == IF a >= 0 THEN a \div b ELSE -((-a) \div b)

Floors(amount, weights) ==
    [t \in DOMAIN weights |-> RoundDown(amount * weights[t], SumOf(weights))]

\* What rounding took from each share, in parts of a step.
Fractions(amount, weights) ==
    [t \in DOMAIN weights |->
        amount * weights[t] - Floors(amount, weights)[t] * SumOf(weights)]

AheadSmallest(fraction, t) ==         \* mutant: smallest fraction first
    {u \in DOMAIN fraction :
        \/ fraction[u] < fraction[t]
        \/ fraction[u] = fraction[t] /\ NameRank[u] < NameRank[t]}

\* Largest fraction first, ties by name.
Ahead(fraction, t) ==
    {u \in DOMAIN fraction :
        \/ fraction[u] > fraction[t]
        \/ fraction[u] = fraction[t] /\ NameRank[u] < NameRank[t]}

\* Rounded down, and the remainder handed out one step at a time.
SplitAmount(amount, weights) ==
    LET floor == Floors(amount, weights)
        fraction == Fractions(amount, weights)
        leftover == amount - SumOf(floor)
    IN [t \in DOMAIN weights |->
            floor[t] + IF Cardinality(Ahead(fraction, t)) < leftover THEN 1 ELSE 0]

\* A team with no share of the money still weighs one step of the quantity.
QuantityWeights(shares) ==
    [t \in DOMAIN shares |-> IF shares[t] = 0 THEN 1 ELSE shares[t]]

QuantityShares(quantity, shares) == SplitAmount(quantity, QuantityWeights(shares))

\* split_amount raises a ValueError on anything else.
Divisible(amount, weights) == amount >= 0 /\ SumOf(weights) > 0

Splittable(row, weights) ==
    /\ Divisible(row.amount, weights)
    /\ row.quantity # Nothing =>
            Divisible(row.quantity, QuantityWeights(SplitAmount(row.amount, weights)))

BuildChildren(row, rule, weights) ==
    LET shares == SplitAmount(row.amount, weights)
        quantities == QuantityShares(row.quantity, shares)
    IN {[row EXCEPT !.key = <<rule.name, row.key[1], t>>,
                    !.owner = [row.owner EXCEPT !["team"] = t],
                    !.amount = shares[t],
                    !.quantity = IF row.quantity = Nothing THEN Nothing ELSE quantities[t],
                    !.parent = row.key,
                    !.rule = rule.name] : t \in DOMAIN weights}

MarkAllocatedNameOnly(row, rule) == [row EXCEPT !.rule = rule.name]   \* mutant: it counts on
\* The parent keeps its amount and stops counting.
MarkAllocated(row, rule) == [row EXCEPT !.allocated = TRUE, !.rule = rule.name]

----------------------------------------------------------------------------
(* Rows the collectors write.                                               *)

ToRecord(log) ==
    [key |-> <<log.id>>, source |-> "llm",
     owner |-> Owners!ResolveAttribution(log.tags, log.metadata),
     model |-> log.model, at |-> 0, amount |-> log.spend, quantity |-> log.tokens,
     allocated |-> FALSE, rule |-> Nothing, parent |-> Nothing]

Ingestible == {ToRecord(log) : log \in SpendLogs} \cup SharedCosts

Columns == {"key", "source", "owner", "model", "at", "amount", "quantity",
            "allocated", "rule", "parent"}

\* What a collector writes is whole: no part of a split, and not split itself.
ASSUME CollectedRows ==
    /\ \A row \in SharedCosts :
        /\ row = [c \in Columns |-> row[c]]
        /\ row.key = <<row.key[1]>>
        /\ row.allocated = FALSE /\ row.rule = Nothing /\ row.parent = Nothing
    /\ \A row \in Ingestible : row.key # Nothing
    /\ \A a, b \in Ingestible : a.key = b.key /\ a.key \in Collected => a = b

\* Batches are finite. Money and quantities are numbers of steps of their column.
ASSUME CollectedAmounts ==
    /\ IsFiniteSet({row \in Ingestible : row.key \in Collected})
    /\ Nothing \notin Int
    /\ \A row \in Ingestible :
        /\ row.amount \in Int
        /\ row.quantity # Nothing => row.quantity \in Int
        /\ DOMAIN row.owner = OwnerDimensions

\* What split_amount relies on and nobody checks: no weight is negative. A contract
\* states percentages, and usage is counted in sources that hold no credits.
ASSUME WeightsNotNegative ==
    \A rule \in Rules :
        /\ IsFiniteSet(rule.targets)
        /\ \A t, u \in rule.targets :
            NameRank[t] \in Int /\ (NameRank[t] = NameRank[u] => t = u)
        /\ CASE rule.strategy = "even_split" -> TRUE
             [] rule.strategy = "fixed_percent" -> \A t \in rule.targets : rule.weights[t] \in Nat
             [] OTHER -> \A row \in Ingestible :
                            row.source \in rule.usage_sources => row.amount >= 0

Ingest ==
    /\ \E row \in Ingestible :
        /\ row.key \notin Keys(ledger)
        /\ ledger' = ledger \cup {row}
    /\ UNCHANGED <<phase, todo, pending, sent, begun, failures>>

----------------------------------------------------------------------------
(* A pass.                                                                  *)

Init ==
    /\ ledger = {row \in Ingestible : row.key \in Collected}
    /\ phase = [p \in Passes |-> "idle"]
    /\ todo = [p \in Passes |-> {}]
    /\ pending = [p \in Passes |-> {}]
    /\ sent = [p \in Passes |-> {}]
    /\ begun = 0
    /\ failures = 0

\* The table as a transaction leaves it: parents updated, children inserted.
Overlay(rows, changed) ==
    {r \in rows : IsChild(r) \/ r.key \notin Keys(changed)} \cup changed

Candidates == {r \in Selected(ledger, Period, NoFilters) : ~IsChild(r)}

\* Records no rule governs are counted and passed over.
Begin(p) ==
    /\ phase[p] = "idle" /\ begun < MaxPasses
    /\ begun' = begun + 1
    /\ phase' = [phase EXCEPT ![p] = "splitting"]
    /\ todo' = [todo EXCEPT ![p] = {r \in Candidates : Governed(r)}]
    /\ UNCHANGED <<ledger, pending, sent, failures>>

ReadsUsage(row) == SelectRule(row).strategy = "usage_weighted"

RollbackUnsent(p) ==                  \* mutant: what was sent is left in the session
    /\ phase' = [phase EXCEPT ![p] = "idle"]
    /\ todo' = [todo EXCEPT ![p] = {}]
    /\ pending' = [pending EXCEPT ![p] = {}]
    /\ UNCHANGED sent

Rollback(p) ==
    /\ phase' = [phase EXCEPT ![p] = "idle"]
    /\ todo' = [todo EXCEPT ![p] = {}]
    /\ pending' = [pending EXCEPT ![p] = {}]
    /\ sent' = [sent EXCEPT ![p] = {}]

\* The next record, in whatever order the database returned them. A query for
\* the usage weights sees the table with what this transaction has written.
Split(p) ==
    /\ phase[p] = "splitting"
    /\ \E row \in todo[p] :
        LET rule == SelectRule(row)
            weights == ResolveWeights(Overlay(ledger, sent[p]), rule)
        IN /\ ReadsUsage(row) => pending[p] = {}
           /\ Splittable(row, weights)
           /\ todo' = [todo EXCEPT ![p] = @ \ {row}]
           /\ pending' = [pending EXCEPT ![p] =
                @ \cup BuildChildren(row, rule, weights) \cup {MarkAllocated(row, rule)}]
    /\ UNCHANGED <<ledger, phase, sent, begun, failures>>

\* A negative amount or quantity, or weights that add up to nothing: the pass raises.
SplitRaises(p) ==
    /\ phase[p] = "splitting"
    /\ \E row \in todo[p] :
        /\ ReadsUsage(row) => pending[p] = {}
        /\ ~Splittable(row, ResolveWeights(Overlay(ledger, sent[p]), SelectRule(row)))
    /\ Rollback(p)
    /\ UNCHANGED <<ledger, begun, failures>>

\* The session writes before a query, or when the loop has ended.
FlushDue(p) ==
    /\ phase[p] = "splitting"
    /\ \/ todo[p] = {}
       \/ pending[p] # {} /\ \E row \in todo[p] : ReadsUsage(row)

\* Rows another transaction has written and not committed are waited for.
Unlocked(p) ==
    \A q \in Passes \ {p} : Keys(sent[q]) \cap Keys(pending[p]) = {}

NewRows(rows) == {r \in rows : IsChild(r)}

UniqueKeysDropped(p) == TRUE          \* mutant: no unique constraint
UniqueKeys(p) == Keys(NewRows(pending[p])) \cap Keys(ledger) = {}

Flush(p) ==
    /\ FlushDue(p) /\ Unlocked(p)
    /\ UniqueKeys(p)
    /\ sent' = [sent EXCEPT ![p] = @ \cup pending[p]]
    /\ pending' = [pending EXCEPT ![p] = {}]
    /\ phase' = [phase EXCEPT ![p] = IF todo[p] = {} THEN "flushed" ELSE @]
    /\ UNCHANGED <<ledger, todo, begun, failures>>

\* IntegrityError: another pass has split one of the records since.
Conflict(p) ==
    /\ FlushDue(p) /\ Unlocked(p)
    /\ ~UniqueKeys(p)
    /\ Rollback(p)
    /\ UNCHANGED <<ledger, begun, failures>>

Commit(p) ==
    /\ phase[p] = "flushed"
    /\ ledger' = Overlay(ledger, sent[p])
    /\ Rollback(p)
    /\ UNCHANGED <<begun, failures>>

\* The connection drops, the process dies, or two passes wait for each other and
\* the database ends one of them.
Fails(p) ==
    /\ phase[p] # "idle" /\ failures < MaxFailures
    /\ failures' = failures + 1
    /\ Rollback(p)
    /\ UNCHANGED <<ledger, begun>>

Pass(p) ==
    Begin(p) \/ Split(p) \/ SplitRaises(p) \/ Flush(p) \/ Conflict(p) \/ Commit(p) \/ Fails(p)

Next == Ingest \/ \E p \in Passes : Pass(p)

Spec == Init /\ [][Next]_vars

----------------------------------------------------------------------------
(* What must hold.                                                          *)

Teams == UNION {rule.targets : rule \in Rules}

\* Every row a pass may write for a collected record.
ChildKeys(row) == {<<rule.name, row.key[1], t>> : rule \in Rules, t \in Teams}

\* A pass's rows are collected records, marked or as they were, and children of
\* collected records.
TypeOK ==
    /\ phase \in [Passes -> {"idle", "splitting", "flushed"}]
    /\ \A r \in ledger : IsChild(r) \/ [r EXCEPT !.allocated = FALSE, !.rule = Nothing] \in Ingestible
    /\ \A p \in Passes :
        /\ todo[p] \subseteq Ingestible
        /\ \A r \in pending[p] \cup sent[p] :
                \E row \in Ingestible : r.key = row.key \/ r.key \in ChildKeys(row)
        /\ phase[p] = "idle" => todo[p] \cup pending[p] \cup sent[p] = {}
    /\ begun \in 0..MaxPasses /\ failures \in 0..MaxFailures

ChildrenOf(row, rows) == {c \in rows : c.parent = row.key}

\* A committed record is split as a whole or not at all, and only once: it is
\* marked exactly when it has one child for every target of the rule it names,
\* whatever passes overlapped, conflicted or died half-way.
SplitIsComplete ==
    /\ \A a, b \in ledger : a.key = b.key => a = b
    /\ \A c \in ledger : IsChild(c) => c.parent \in Keys(ledger)
    /\ \A row \in ledger : ~IsChild(row) =>
        IF ~row.allocated THEN ChildrenOf(row, ledger) = {}
        ELSE \E rule \in Rules :
                /\ rule.name = row.rule
                /\ Keys(ChildrenOf(row, ledger)) =
                        {<<rule.name, row.key[1], t>> : t \in rule.targets}

\* Filters that do not ask for a team: none, or one value of something else.
TeamBlind(rows) ==
    {NoFilters} \cup UNION {{FilterOn(d, {Value(r, d)}) : r \in rows} :
                                d \in (OwnerDimensions \ {"team"}) \cup {"source"}}

\* Allocated spend is counted exactly once, before, between and after the passes: what
\* the reports add up in the window is what the collectors wrote in it, in total and
\* of each source, project, agent and use case. Passes move spend between teams only.
SpendCountedOnce ==
    \A filters \in TeamBlind(ledger) :
        TotalSpend(ledger, Period, filters)
            = Amount({r \in Selected(ledger, Period, [filters EXCEPT !.parents = TRUE]) : ~IsChild(r)})

\* The records as they were written, and the children of each.
Divided ==
    [row \in {[r EXCEPT !.allocated = FALSE, !.rule = Nothing] : r \in {x \in ledger : ~IsChild(x)}}
        |-> ChildrenOf(row, ledger)]

\* Whatever passes interleave, fail and conflict, their commits divide records: each
\* at once and once for all, into parts that cost the same together and differ in
\* their teams only; and no record is lost or altered by it.
Books == INSTANCE CostLedger WITH Written <- Ingestible, Total <- Amount, parts <- Divided

DividesOnce == Books!Init /\ [][Books!Next]_Divided

\* Children add up to the parent in money and in quantity to the last unit, and
\* no team is more than a step away from its exact share.
SharesFollowWeights ==
    [][\A p \in Passes : \A row \in todo[p] :
        row \notin todo'[p] /\ phase'[p] # "idle" =>
            LET weights == ResolveWeights(Overlay(ledger, sent[p]), SelectRule(row))
                children == ChildrenOf(row, pending'[p])
            IN /\ Amount(children) = row.amount
               /\ row.quantity # Nothing =>
                    SumOf([c \in children |-> c.quantity]) = row.quantity
               /\ \A c \in children :
                    LET off == c.amount * SumOf(weights)
                                - row.amount * weights[c.owner["team"]]
                    IN off < SumOf(weights) /\ -off < SumOf(weights)]_vars

\* A log's owner in a dimension is what its first usable tag says, whatever later
\* tags and the metadata say; a team is given by the virtual key only where tags
\* and metadata give none, and spend is unattributed only where the key has none.
OwnerRespected ==
    \A log \in SpendLogs : \A row \in ledger : row.key = <<log.id>> =>
        \A d \in Owners!Dimensions :
            LET said == {i \in DOMAIN log.tags :
                    /\ log.tags[i] # Malformed
                    /\ Normalize[log.tags[i].key] = d
                    /\ Normalize[log.tags[i].value] # Nothing}
                first == Normalize[log.tags[Min(said)].value]
                given == Normalize[log.metadata[d]]
                aliases == IF d # "team" THEN {}
                           ELSE {Normalize[log.metadata["user_api_key_team_alias"]],
                                 Normalize[log.metadata["team_alias"]]} \ {Nothing}
            IN IF said # {} /\ first # Unattributed THEN row.owner[d] = first
               ELSE IF said = {} /\ given \notin {Nothing, Unattributed}
                    THEN row.owner[d] = given
               ELSE IF aliases = {} THEN row.owner[d] = Unattributed
                    ELSE row.owner[d] \in aliases

\* Grouping loses nothing and counts nothing twice: for every choice of
\* dimensions the groups, and each group's sources, add up to the total of the
\* same filters, and a filter on a key selects exactly that key's group.
GroupsPartitionSpend ==
    \A groupBy \in {{"team"}, {"model"}, {"team", "project"}} :
        LET groups == AggregateCosts(ledger, groupBy, Period, NoFilters)
        IN /\ SumOf([g \in groups |-> g.total]) = TotalSpend(ledger, Period, NoFilters)
           /\ SumOf([g \in groups |-> g.count])
                = Cardinality(Selected(ledger, Period, NoFilters))
           /\ \A g \in groups :
                /\ SumOf(g.by_source) = g.total
                /\ groupBy = {"team"} =>
                    g.total = TotalSpend(ledger, Period, FilterOn("team", {g.key["team"]}))
=============================================================================
