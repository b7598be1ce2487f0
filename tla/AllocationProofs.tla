--------------------------- MODULE AllocationProofs ---------------------------
(***************************************************************************)
(* Theorems about Allocation for any records, any rules, any number of      *)
(* passes that overlap and any number of database errors.                   *)
(***************************************************************************)
EXTENDS UnattributedReport, Sequences, TLAPS, WellFoundedInduction

----------------------------------------------------------------------------
(* Rows and their keys.                                                     *)

\* A row as its collector wrote it.
Origin(row) == [row EXCEPT !.allocated = FALSE, !.rule = Nothing]

\* The keys of the children a record is split into.
KidKeys(row) ==
    {<<SelectRule(row).name, row.key[1], t>> : t \in SelectRule(row).targets}

\* The keys a collected row and a child can have are told apart by their length.
LEMMA KeyShapes ==
    ASSUME NEW a, NEW b, NEW c, NEW d
    PROVE  <<a>> # <<b, c, d>>
<1>1. Len(<<a>>) = 1 /\ Len(<<b, c, d>>) = 3
  OBVIOUS
<1> QED
  BY <1>1

\* What a collector writes is whole.
LEMMA IngestibleFact ==
    ASSUME NEW row \in Ingestible
    PROVE  /\ row = [c \in Columns |-> row[c]]
           /\ row.key = <<row.key[1]>> /\ row.key # Nothing
           /\ row.allocated = FALSE /\ row.rule = Nothing /\ row.parent = Nothing
<1>1. row.key # Nothing
  BY CollectedRows DEF CollectedRows
<1>2. CASE row \in SharedCosts
  BY <1>1, <1>2, CollectedRows DEF CollectedRows
<1>3. CASE \E log \in SpendLogs : row = ToRecord(log)
  <2>1. PICK log \in SpendLogs : row = ToRecord(log)
    BY <1>3
  <2> DEFINE owner == Owners!ResolveAttribution(log.tags, log.metadata)
  <2>2. row = [key |-> <<log.id>>, source |-> "llm", owner |-> owner,
               model |-> log.model, at |-> 0, amount |-> log.spend, quantity |-> log.tokens,
               allocated |-> FALSE, rule |-> Nothing, parent |-> Nothing]
    BY <2>1 DEF ToRecord
  <2> HIDE DEF owner
  <2>3. row = [c \in Columns |-> row[c]]
    BY <2>2 DEF Columns
  <2> QED
    BY <1>1, <2>2, <2>3
<1> QED
  BY <1>2, <1>3 DEF Ingestible

\* A collected row is its own origin.
LEMMA OriginOfCollected ==
    ASSUME NEW row \in Ingestible
    PROVE  Origin(row) = row
BY IngestibleFact DEF Origin, Columns

\* The parent of a split, with its mark.
LEMMA Marked ==
    ASSUME NEW row \in Ingestible, NEW rule
    PROVE  LET mark == MarkAllocated(row, rule)
           IN /\ mark.key = row.key /\ mark.allocated = TRUE /\ mark.rule = rule.name
              /\ ~IsChild(mark) /\ Origin(mark) = row
<1> DEFINE mark == MarkAllocated(row, rule)
<1>1. row = [c \in Columns |-> row[c]] /\ row.allocated = FALSE /\ row.rule = Nothing
      /\ row.parent = Nothing
  BY IngestibleFact
<1>2. mark.key = row.key /\ mark.allocated = TRUE /\ mark.rule = rule.name
      /\ mark.parent = row.parent
  BY <1>1 DEF MarkAllocated, Columns
<1>3. Origin(mark) = row
  BY <1>1 DEF MarkAllocated, Origin, Columns
<1> QED
  BY <1>1, <1>2, <1>3 DEF IsChild

\* The rule a record gets is one of the rules.
LEMMA SelectedRule ==
    ASSUME NEW row, Governed(row)
    PROVE  SelectRule(row) \in Rules /\ Matches(SelectRule(row), row)
           /\ SelectRule(row).targets # {}
<1> DEFINE choice == {rule \in Rules : Matches(rule, row)}
<1>1. choice \in (SUBSET Rules) \ {{}}
  BY DEF Governed
<1>2. PICK rule \in choice : \A other \in choice : Precedes(rule, other)
  BY <1>1, RulesAreOrdered DEF RulesAreOrdered
<1>3. SelectRule(row) \in Rules /\ Matches(SelectRule(row), row)
  BY <1>2 DEF SelectRule
<1>4. ValidRule(SelectRule(row))
  BY <1>3, AllocationAssumption DEF AllocationAssumption
<1> QED
  BY <1>3, <1>4 DEF ValidRule

\* Every strategy weighs exactly the targets of the rule.
LEMMA WeightsDomain ==
    ASSUME NEW rows, NEW rule
    PROVE  DOMAIN ResolveWeights(rows, rule) = rule.targets
BY DEF ResolveWeights, EvenWeights, UsageWeights

\* The children of a split: one per target, told apart by their keys.
LEMMA Children ==
    ASSUME NEW row \in Ingestible, NEW rule, NEW weights
    PROVE  LET kids == BuildChildren(row, rule, weights)
           IN /\ \A c \in kids : c.parent = row.key /\ IsChild(c)
              /\ Keys(kids) = {<<rule.name, row.key[1], t>> : t \in DOMAIN weights}
              /\ \A a, b \in kids : a.key = b.key => a = b
<1> DEFINE shares == SplitAmount(row.amount, weights)
           quantities == QuantityShares(row.quantity, shares)
           kid(t) == [row EXCEPT !.key = <<rule.name, row.key[1], t>>,
                    !.owner = [row.owner EXCEPT !["team"] = t],
                    !.amount = shares[t],
                    !.quantity = IF row.quantity = Nothing THEN Nothing ELSE quantities[t],
                    !.parent = row.key,
                    !.rule = rule.name]
           kids == BuildChildren(row, rule, weights)
<1>1. kids = {kid(t) : t \in DOMAIN weights}
  BY DEF BuildChildren
<1>2. ASSUME NEW t \in DOMAIN weights
      PROVE  kid(t).key = <<rule.name, row.key[1], t>> /\ kid(t).parent = row.key
  <2>1. row = [c \in Columns |-> row[c]]
    BY IngestibleFact
  <2> HIDE DEF shares, quantities
  <2> QED
    BY <2>1 DEF Columns
<1>3. row.key # Nothing
  BY IngestibleFact
<1> HIDE DEF kid, kids
<1>4. \A c \in kids : c.parent = row.key /\ IsChild(c)
  BY <1>1, <1>2, <1>3 DEF IsChild
<1>5. Keys(kids) = {<<rule.name, row.key[1], t>> : t \in DOMAIN weights}
  BY <1>1, <1>2 DEF Keys
<1>6. ASSUME NEW a \in kids, NEW b \in kids, a.key = b.key
      PROVE  a = b
  <2>1. PICK t \in DOMAIN weights, u \in DOMAIN weights : a = kid(t) /\ b = kid(u)
    BY <1>1
  <2>2. <<rule.name, row.key[1], t>> = <<rule.name, row.key[1], u>>
    BY <1>2, <1>6, <2>1
  <2>3. t = u
    BY <2>2
  <2> QED
    BY <2>1, <2>3
<1> QED
  BY <1>4, <1>5, <1>6 DEF kids

----------------------------------------------------------------------------
(* Tables in which every split is whole.                                    *)

\* A collected row is as it was written and has no children, or it is marked and
\* has a child for every target of its rule.
ParentOK(x, rows) ==
    /\ Origin(x) \in Ingestible /\ x.key = Origin(x).key
    /\ \/ x = Origin(x) /\ ChildrenOf(x, rows) = {}
       \/ /\ x.allocated = TRUE /\ Governed(Origin(x))
          /\ x.rule = SelectRule(Origin(x)).name
          /\ Keys(ChildrenOf(x, rows)) = KidKeys(Origin(x))

\* A child belongs to a marked row of the same table.
ChildOK(c, rows) ==
    \E x \in rows :
        ~IsChild(x) /\ x.allocated = TRUE /\ x.key = c.parent /\ c.key \in KidKeys(Origin(x))

Whole(rows) ==
    /\ \A a, b \in rows : a.key = b.key => a = b
    /\ \A x \in rows : ~IsChild(x) => ParentOK(x, rows)
    /\ \A c \in rows : IsChild(c) => ChildOK(c, rows)

\* The collected rows of a table, as they were written.
Origins(rows) == {Origin(x) : x \in {y \in rows : ~IsChild(y)}}

\* A session that holds nothing is whole.
LEMMA EmptyIsWhole == Whole({}) /\ Keys({}) = {} /\ Origins({}) = {} /\ NewRows({}) = {}
BY DEF Whole, Keys, Origins, NewRows

\* Keys in a whole table: those of collected rows, and those of their children.
LEMMA WholeKeys ==
    ASSUME NEW rows, Whole(rows), NEW x \in rows
    PROVE  /\ ~IsChild(x) => Origin(x) \in Ingestible /\ x.key = <<x.key[1]>>
                             /\ x.key = Origin(x).key /\ Origin(x) \in Origins(rows)
           /\ IsChild(x) => \E row \in Origins(rows) :
                    /\ row \in Ingestible /\ row.key = x.parent
                    /\ x.key \in KidKeys(row) /\ x.key # <<row.key[1]>>
                    /\ \E a, b, c : x.key = <<a, b, c>> /\ b = row.key[1]
<1>1. CASE ~IsChild(x)
  <2>1. Origin(x) \in Ingestible /\ x.key = Origin(x).key
    BY <1>1 DEF Whole, ParentOK
  <2>2. Origin(x).key = <<Origin(x).key[1]>>
    BY <2>1, IngestibleFact
  <2> QED
    BY <1>1, <2>1, <2>2 DEF Origins
<1>2. CASE IsChild(x)
  <2>1. PICK y \in rows : ~IsChild(y) /\ y.key = x.parent /\ x.key \in KidKeys(Origin(y))
    BY <1>2 DEF Whole, ChildOK
  <2>2. Origin(y) \in Ingestible /\ y.key = Origin(y).key /\ Origin(y) \in Origins(rows)
    BY <2>1 DEF Whole, ParentOK, Origins
  <2> DEFINE row == Origin(y)
  <2>3. PICK t \in SelectRule(row).targets : x.key = <<SelectRule(row).name, row.key[1], t>>
    BY <2>1 DEF KidKeys
  <2>4. x.key # <<row.key[1]>>
    BY <2>3, KeyShapes
  <2> HIDE DEF row
  <2> QED
    BY <1>2, <2>1, <2>2, <2>3, <2>4 DEF row
<1> QED
  BY <1>1, <1>2

\* Whole tables with no collected row in common have no key in common.
LEMMA DisjointKeys ==
    ASSUME NEW X, NEW Y, Whole(X), Whole(Y),
           \A x \in Origins(X), y \in Origins(Y) : x.key # y.key
    PROVE  Keys(X) \cap Keys(Y) = {}
<1> SUFFICES ASSUME NEW x \in X, NEW y \in Y, x.key = y.key PROVE FALSE
  BY DEF Keys
<1>1. CASE ~IsChild(x) /\ ~IsChild(y)
  BY <1>1, WholeKeys
<1>2. CASE ~IsChild(x) /\ IsChild(y)
  <2>1. x.key = <<x.key[1]>>
    BY <1>2, WholeKeys
  <2>2. PICK a, b, c : y.key = <<a, b, c>>
    BY <1>2, WholeKeys
  <2> QED
    BY <2>1, <2>2, KeyShapes
<1>3. CASE IsChild(x) /\ ~IsChild(y)
  <2>1. y.key = <<y.key[1]>>
    BY <1>3, WholeKeys
  <2>2. PICK a, b, c : x.key = <<a, b, c>>
    BY <1>3, WholeKeys
  <2> QED
    BY <2>1, <2>2, KeyShapes
<1>4. CASE IsChild(x) /\ IsChild(y)
  <2>1. PICK row \in Origins(X) : /\ row \in Ingestible
                                  /\ \E a, b, c : x.key = <<a, b, c>> /\ b = row.key[1]
    BY <1>4, WholeKeys
  <2>2. PICK other \in Origins(Y) : /\ other \in Ingestible
                                    /\ \E a, b, c : y.key = <<a, b, c>> /\ b = other.key[1]
    BY <1>4, WholeKeys
  <2>3. row.key[1] = other.key[1]
    <3>1. PICK a, b, c : x.key = <<a, b, c>> /\ b = row.key[1]
      BY <2>1
    <3>2. PICK d, e, f : y.key = <<d, e, f>> /\ e = other.key[1]
      BY <2>2
    <3>3. <<a, b, c>> = <<d, e, f>>
      BY <3>1, <3>2
    <3>4. b = e
      BY <3>3
    <3> QED
      BY <3>1, <3>2, <3>4
  <2>4. row.key = <<row.key[1]>> /\ other.key = <<other.key[1]>>
    BY <2>1, <2>2, IngestibleFact
  <2> QED
    BY <2>1, <2>2, <2>3, <2>4
<1> QED
  BY <1>1, <1>2, <1>3, <1>4

\* Where the keys of two whole tables differ, a record's children are those in its
\* own table.
LEMMA ChildrenInUnion ==
    ASSUME NEW X, NEW Y, Whole(X), Whole(Y), Keys(X) \cap Keys(Y) = {}
    PROVE  /\ \A x \in X : ~IsChild(x) => ChildrenOf(x, X \cup Y) = ChildrenOf(x, X)
           /\ \A y \in Y : ~IsChild(y) => ChildrenOf(y, X \cup Y) = ChildrenOf(y, Y)
<1>1. \A x \in X, y \in Y : x.key # y.key
  BY DEF Keys
<1>2. \A x \in X : ~IsChild(x) => ChildrenOf(x, X \cup Y) = ChildrenOf(x, X)
  <2> SUFFICES ASSUME NEW x \in X, ~IsChild(x), NEW c \in Y, c.parent = x.key PROVE FALSE
    BY DEF ChildrenOf
  <2>1. IsChild(c)
    <3>1. Origin(x) \in Ingestible /\ x.key = Origin(x).key
      BY WholeKeys
    <3>2. x.key # Nothing
      BY <3>1, IngestibleFact
    <3> QED
      BY <3>2 DEF IsChild
  <2>2. PICK y \in Y : y.key = c.parent
    BY <2>1 DEF Whole, ChildOK
  <2> QED
    BY <1>1, <2>2
<1>3. \A y \in Y : ~IsChild(y) => ChildrenOf(y, X \cup Y) = ChildrenOf(y, Y)
  <2> SUFFICES ASSUME NEW y \in Y, ~IsChild(y), NEW c \in X, c.parent = y.key PROVE FALSE
    BY DEF ChildrenOf
  <2>1. IsChild(c)
    <3>1. Origin(y) \in Ingestible /\ y.key = Origin(y).key
      BY WholeKeys
    <3>2. y.key # Nothing
      BY <3>1, IngestibleFact
    <3> QED
      BY <3>2 DEF IsChild
  <2>2. PICK x \in X : x.key = c.parent
    BY <2>1 DEF Whole, ChildOK
  <2> QED
    BY <1>1, <2>2
<1> QED
  BY <1>2, <1>3

\* Two whole tables make a whole one where their keys differ.
LEMMA UnionIsWhole ==
    ASSUME NEW X, NEW Y, Whole(X), Whole(Y), Keys(X) \cap Keys(Y) = {}
    PROVE  Whole(X \cup Y) /\ Origins(X \cup Y) = Origins(X) \cup Origins(Y)
           /\ Keys(X \cup Y) = Keys(X) \cup Keys(Y)
<1>1. \A x \in X, y \in Y : x.key # y.key
  BY DEF Keys
<1>2. /\ \A x \in X : ~IsChild(x) => ChildrenOf(x, X \cup Y) = ChildrenOf(x, X)
      /\ \A y \in Y : ~IsChild(y) => ChildrenOf(y, X \cup Y) = ChildrenOf(y, Y)
  BY ChildrenInUnion
<1>4. \A a, b \in X \cup Y : a.key = b.key => a = b
  BY <1>1 DEF Whole
<1>5. \A x \in X \cup Y : ~IsChild(x) => ParentOK(x, X \cup Y)
  BY <1>2 DEF Whole, ParentOK
<1>6. \A c \in X \cup Y : IsChild(c) => ChildOK(c, X \cup Y)
  BY DEF Whole, ChildOK
<1>7. Origins(X \cup Y) = Origins(X) \cup Origins(Y) /\ Keys(X \cup Y) = Keys(X) \cup Keys(Y)
  BY DEF Origins, Keys
<1> QED
  BY <1>4, <1>5, <1>6, <1>7 DEF Whole

\* A row fresh from a collector is a whole table.
LEMMA FreshIsWhole ==
    ASSUME NEW row \in Ingestible
    PROVE  Whole({row}) /\ Origins({row}) = {row} /\ ~IsChild(row)
<1>1. ~IsChild(row) /\ Origin(row) = row /\ row.key # Nothing /\ row.parent = Nothing
  BY IngestibleFact, OriginOfCollected DEF IsChild
<1>2. ChildrenOf(row, {row}) = {}
  BY <1>1 DEF ChildrenOf
<1>3. ParentOK(row, {row})
  BY <1>1, <1>2 DEF ParentOK
<1> QED
  BY <1>1, <1>3 DEF Whole, Origins

\* So is what a pass makes of a record.
LEMMA SplitIsWhole ==
    ASSUME NEW row \in Ingestible, Governed(row), NEW rows
    PROVE  LET rule == SelectRule(row)
               group == BuildChildren(row, rule, ResolveWeights(rows, rule))
                            \cup {MarkAllocated(row, rule)}
           IN /\ Whole(group) /\ Origins(group) = {row}
              /\ ChildrenOf(MarkAllocated(row, rule), group)
                    = BuildChildren(row, rule, ResolveWeights(rows, rule))
<1> DEFINE rule == SelectRule(row)
           kids == BuildChildren(row, rule, ResolveWeights(rows, rule))
           mark == MarkAllocated(row, rule)
           group == kids \cup {mark}
<1>1. /\ mark.key = row.key /\ mark.allocated = TRUE /\ mark.rule = rule.name
      /\ ~IsChild(mark) /\ Origin(mark) = row
  BY Marked
<1>2. /\ \A c \in kids : c.parent = row.key /\ IsChild(c)
      /\ Keys(kids) = {<<rule.name, row.key[1], t>> : t \in DOMAIN ResolveWeights(rows, rule)}
      /\ \A a, b \in kids : a.key = b.key => a = b
  BY Children
<1>3. Keys(kids) = KidKeys(row)
  BY <1>2, WeightsDomain DEF KidKeys
<1>4. row.key = <<row.key[1]>> /\ row.key # Nothing
  BY IngestibleFact
<1>5. \A c \in kids : c.key # mark.key
  <2> SUFFICES ASSUME NEW c \in kids PROVE c.key # mark.key
    OBVIOUS
  <2>1. PICK t : c.key = <<rule.name, row.key[1], t>>
    BY <1>2 DEF Keys
  <2> QED
    BY <1>1, <1>4, <2>1, KeyShapes
<1> HIDE DEF mark, kids
<1>6. ChildrenOf(mark, group) = kids
  BY <1>1, <1>2, <1>4 DEF ChildrenOf, IsChild
<1>7. ParentOK(mark, group)
  BY <1>1, <1>3, <1>6 DEF ParentOK
<1>8. \A c \in kids : ChildOK(c, group)
  BY <1>1, <1>2, <1>3 DEF ChildOK, Keys
<1>9. \A a, b \in group : a.key = b.key => a = b
  BY <1>2, <1>5
<1>10. Whole(group)
  BY <1>1, <1>2, <1>7, <1>8, <1>9 DEF Whole
<1>11. Origins(group) = {row}
  BY <1>1, <1>2 DEF Origins
<1> QED
  BY <1>6, <1>10, <1>11 DEF mark, kids

----------------------------------------------------------------------------
(* The invariant.                                                           *)

\* What a pass still has to split, has split, and has written, are different
\* records of the table; what it has written, it has split as a whole, and nobody
\* has committed children of the same keys.
PassOK(p) ==
    /\ Whole(pending[p]) /\ Whole(sent[p])
    /\ \A x \in pending[p] \cup sent[p] : ~IsChild(x) => x.allocated = TRUE
    /\ \A row \in todo[p] : row \in Ingestible /\ Governed(row)
    /\ todo[p] \cup Origins(pending[p]) \cup Origins(sent[p]) \subseteq Origins(ledger)
    /\ todo[p] \cap (Origins(pending[p]) \cup Origins(sent[p])) = {}
    /\ Origins(pending[p]) \cap Origins(sent[p]) = {}
    /\ Keys(NewRows(sent[p])) \cap Keys(ledger) = {}
    /\ phase[p] = "idle" => todo[p] = {} /\ pending[p] = {} /\ sent[p] = {}

\* No two transactions have written the same row.
Apart == \A p, q \in Passes : p # q => Keys(sent[p]) \cap Keys(sent[q]) = {}

Shape ==
    /\ phase \in [Passes -> {"idle", "splitting", "flushed"}]
    /\ todo = [p \in Passes |-> todo[p]]
    /\ pending = [p \in Passes |-> pending[p]]
    /\ sent = [p \in Passes |-> sent[p]]
    /\ begun \in 0..MaxPasses /\ failures \in 0..MaxFailures

AllocationInv ==
    /\ Whole(ledger) /\ Shape /\ Apart
    /\ \A p \in Passes : PassOK(p)

\* Collected rows of a whole table have different keys.
LEMMA OriginsDiffer ==
    ASSUME NEW rows, Whole(rows), NEW a \in Origins(rows), NEW b \in Origins(rows),
           a.key = b.key
    PROVE  a = b
<1>1. PICK x \in rows : ~IsChild(x) /\ a = Origin(x)
  BY DEF Origins
<1>2. PICK y \in rows : ~IsChild(y) /\ b = Origin(y)
  BY DEF Origins
<1>3. x.key = a.key /\ y.key = b.key
  BY <1>1, <1>2, WholeKeys
<1> QED
  BY <1>1, <1>2, <1>3 DEF Whole

\* Records that are different in one table share no key after their splits.
LEMMA ApartInTable ==
    ASSUME NEW rows, Whole(rows), NEW X, NEW Y, Whole(X), Whole(Y),
           Origins(X) \subseteq Origins(rows), Origins(Y) \subseteq Origins(rows),
           Origins(X) \cap Origins(Y) = {}
    PROVE  Keys(X) \cap Keys(Y) = {}
BY OriginsDiffer, DisjointKeys

\* A pass that does not move is not disturbed by what others commit.
LEMMA PassKept ==
    ASSUME NEW p \in Passes, PassOK(p),
           phase'[p] = phase[p], todo'[p] = todo[p],
           pending'[p] = pending[p], sent'[p] = sent[p],
           Origins(ledger) \subseteq Origins(ledger'),
           Keys(NewRows(sent[p])) \cap Keys(ledger') = {}
    PROVE  PassOK(p)'
BY DEF PassOK

\* A pass that ends leaves nothing in its session.
LEMMA PassCleared ==
    ASSUME NEW p \in Passes, todo'[p] = {}, pending'[p] = {}, sent'[p] = {}
    PROVE  PassOK(p)'
BY EmptyIsWhole DEF PassOK

\* A rollback leaves the pass without rows and the others as they were.
LEMMA RollbackClears ==
    ASSUME Shape, NEW p \in Passes, Rollback(p)
    PROVE  /\ todo'[p] = {} /\ pending'[p] = {} /\ sent'[p] = {}
           /\ \A q \in Passes \ {p} : /\ phase'[q] = phase[q] /\ todo'[q] = todo[q]
                                      /\ pending'[q] = pending[q] /\ sent'[q] = sent[q]
           /\ phase' \in [Passes -> {"idle", "splitting", "flushed"}]
           /\ todo' = [q \in Passes |-> todo'[q]]
           /\ pending' = [q \in Passes |-> pending'[q]]
           /\ sent' = [q \in Passes |-> sent'[q]]
BY DEF Shape, Rollback

\* The first table holds collected rows only, and nobody has begun.
LEMMA AllocationInit == Init => AllocationInv
<1> SUFFICES ASSUME Init PROVE AllocationInv
  OBVIOUS
<1>1. Whole(ledger)
  <2>1. \A row \in ledger : row \in Ingestible /\ row.key \in Collected
    BY DEF Init
  <2>2. \A a, b \in ledger : a.key = b.key => a = b
    BY <2>1, CollectedRows DEF CollectedRows
  <2>3. \A x \in ledger : ~IsChild(x) /\ Origin(x) = x /\ x.key # Nothing /\ x.parent = Nothing
    BY <2>1, FreshIsWhole, OriginOfCollected, IngestibleFact
  <2>4. \A x \in ledger : ChildrenOf(x, ledger) = {}
    BY <2>3 DEF ChildrenOf
  <2> QED
    BY <2>1, <2>2, <2>3, <2>4 DEF Whole, ParentOK
<1>2. Shape
  BY AllocationAssumption DEF Init, Shape, AllocationAssumption
<1>3. Apart
  BY EmptyIsWhole DEF Init, Apart
<1>4. \A p \in Passes : PassOK(p)
  BY EmptyIsWhole DEF Init, PassOK
<1> QED
  BY <1>1, <1>2, <1>3, <1>4 DEF AllocationInv

----------------------------------------------------------------------------
(* The steps of one pass, seen from the others and from itself.             *)

\* Ingest: a new record has a key that no row has, split or not.
LEMMA IngestKeeps ==
    ASSUME AllocationInv, Ingest
    PROVE  AllocationInv'
<1>1. PICK row \in Ingestible : row.key \notin Keys(ledger) /\ ledger' = ledger \cup {row}
  BY DEF Ingest
<1>2. Whole(ledger) /\ Whole({row}) /\ Keys({row}) = {row.key}
  BY FreshIsWhole DEF AllocationInv, Keys
<1>3. /\ Whole(ledger') /\ Origins(ledger) \subseteq Origins(ledger')
      /\ Keys(ledger') = Keys(ledger) \cup {row.key}
  <2>1. Keys(ledger) \cap Keys({row}) = {}
    BY <1>1, <1>2
  <2>2. /\ Whole(ledger \cup {row})
        /\ Origins(ledger \cup {row}) = Origins(ledger) \cup Origins({row})
        /\ Keys(ledger \cup {row}) = Keys(ledger) \cup Keys({row})
    BY <1>2, <2>1, UnionIsWhole
  <2> QED
    BY <1>1, <1>2, <2>2
<1>4. UNCHANGED <<phase, todo, pending, sent, begun, failures>>
  BY DEF Ingest
<1>5. ASSUME NEW p \in Passes PROVE PassOK(p)'
  <2>1. PassOK(p)
    BY DEF AllocationInv
  <2>2. row.key \notin Keys(NewRows(sent[p]))
    <3> SUFFICES ASSUME NEW c \in sent[p], IsChild(c), c.key = row.key PROVE FALSE
      BY DEF Keys, NewRows
    <3>1. PICK a, b, d : c.key = <<a, b, d>>
      BY <2>1, WholeKeys DEF PassOK
    <3>2. row.key = <<row.key[1]>>
      BY IngestibleFact
    <3> QED
      BY <3>1, <3>2, KeyShapes
  <2>3. Keys(NewRows(sent[p])) \cap Keys(ledger') = {}
    BY <1>3, <2>1, <2>2 DEF PassOK
  <2> QED
    BY <1>3, <1>4, <2>1, <2>3, PassKept
<1>6. Shape' /\ Apart'
  BY <1>4 DEF AllocationInv, Shape, Apart
<1> QED
  BY <1>3, <1>5, <1>6 DEF AllocationInv

\* The passes but p keep what they rely on when the table does not change.
LEMMA OthersKept ==
    ASSUME AllocationInv, NEW p \in Passes, ledger' = ledger,
           \A q \in Passes \ {p} : /\ phase'[q] = phase[q] /\ todo'[q] = todo[q]
                                   /\ pending'[q] = pending[q] /\ sent'[q] = sent[q]
    PROVE  /\ \A q \in Passes \ {p} : PassOK(q)'
           /\ Whole(ledger')
<1>1. ASSUME NEW q \in Passes \ {p} PROVE PassOK(q)'
  <2>1. PassOK(q)
    BY DEF AllocationInv
  <2> QED
    BY <2>1, PassKept DEF PassOK
<1> QED
  BY <1>1 DEF AllocationInv

\* SplitRaises, Conflict, Fails: the table stays as it is and one pass lets go of its rows.
LEMMA RollbackKeeps ==
    ASSUME AllocationInv, NEW p \in Passes, SplitRaises(p) \/ Conflict(p) \/ Fails(p)
    PROVE  AllocationInv'
<1>1. Rollback(p) /\ UNCHANGED <<ledger, begun>>
  BY DEF SplitRaises, Conflict, Fails
<1>2. failures' \in 0..MaxFailures
  BY AllocationAssumption
     DEF AllocationInv, Shape, SplitRaises, Conflict, Fails, AllocationAssumption
<1>3. /\ todo'[p] = {} /\ pending'[p] = {} /\ sent'[p] = {}
      /\ \A q \in Passes \ {p} : /\ phase'[q] = phase[q] /\ todo'[q] = todo[q]
                                 /\ pending'[q] = pending[q] /\ sent'[q] = sent[q]
      /\ phase' \in [Passes -> {"idle", "splitting", "flushed"}]
      /\ todo' = [q \in Passes |-> todo'[q]]
      /\ pending' = [q \in Passes |-> pending'[q]]
      /\ sent' = [q \in Passes |-> sent'[q]]
  BY <1>1, RollbackClears DEF AllocationInv
<1>4. Shape'
  BY <1>1, <1>2, <1>3 DEF Shape, AllocationInv
<1>5. PassOK(p)'
  BY <1>3, PassCleared
<1>6. Whole(ledger') /\ \A q \in Passes \ {p} : PassOK(q)'
  BY <1>1, <1>3, OthersKept
<1>7. Apart'
  BY <1>3, EmptyIsWhole DEF AllocationInv, Apart
<1> QED
  BY <1>4, <1>5, <1>6, <1>7 DEF AllocationInv

\* Begin: what is selected are unsplit records of the table.
LEMMA BeginKeeps ==
    ASSUME AllocationInv, NEW p \in Passes, Begin(p)
    PROVE  AllocationInv'
<1>1. /\ UNCHANGED <<ledger, pending, sent, failures>>
      /\ phase' = [phase EXCEPT ![p] = "splitting"]
      /\ todo' = [todo EXCEPT ![p] = {r \in Candidates : Governed(r)}]
      /\ phase[p] = "idle" /\ Shape /\ Apart /\ PassOK(p) /\ Whole(ledger)
  BY DEF Begin, AllocationInv
<1>2. /\ todo'[p] = {r \in Candidates : Governed(r)}
      /\ pending'[p] = {} /\ sent'[p] = {}
      /\ \A q \in Passes \ {p} : /\ phase'[q] = phase[q] /\ todo'[q] = todo[q]
                                 /\ pending'[q] = pending[q] /\ sent'[q] = sent[q]
  BY <1>1 DEF Shape, PassOK
<1>3. \A r \in Candidates : r \in Ingestible /\ r \in Origins(ledger)
  <2> SUFFICES ASSUME NEW r \in Candidates PROVE r \in Ingestible /\ r \in Origins(ledger)
    OBVIOUS
  <2>1. r \in ledger /\ ~IsChild(r) /\ Conditions(r, Period, NoFilters)
    BY DEF Candidates, Selected
  <2>2. ~r.allocated
    BY <2>1 DEF Conditions, NoFilters
  <2>3. r = Origin(r) /\ Origin(r) \in Ingestible
    BY <1>1, <2>1, <2>2 DEF Whole, ParentOK
  <2> QED
    BY <2>1, <2>3 DEF Origins
<1>4. PassOK(p)'
  <2>1. phase'[p] = "splitting"
    BY <1>1 DEF Shape
  <2> QED
    BY <1>1, <1>2, <1>3, <2>1, EmptyIsWhole DEF PassOK
<1>5. Whole(ledger') /\ \A q \in Passes \ {p} : PassOK(q)'
  BY <1>1, <1>2, OthersKept
<1>6. Apart'
  BY <1>1 DEF Apart
<1>7. begun' \in 0..MaxPasses
  BY AllocationAssumption DEF Begin, AllocationInv, Shape, AllocationAssumption
<1>8. Shape'
  BY <1>1, <1>7 DEF Shape
<1> QED
  BY <1>4, <1>5, <1>6, <1>8 DEF AllocationInv

\* Split: parent and children join the pending rows as a whole set.
LEMMA SplitKeeps ==
    ASSUME AllocationInv, NEW p \in Passes, Split(p)
    PROVE  AllocationInv'
<1>1. PICK row \in todo[p] :
        LET rule == SelectRule(row)
            weights == ResolveWeights(Overlay(ledger, sent[p]), rule)
        IN /\ todo' = [todo EXCEPT ![p] = @ \ {row}]
           /\ pending' = [pending EXCEPT ![p] =
                @ \cup BuildChildren(row, rule, weights) \cup {MarkAllocated(row, rule)}]
  BY DEF Split
<1> DEFINE rule == SelectRule(row)
           weights == ResolveWeights(Overlay(ledger, sent[p]), rule)
           group == BuildChildren(row, rule, weights) \cup {MarkAllocated(row, rule)}
<1>2. UNCHANGED <<ledger, phase, sent, begun, failures>> /\ phase[p] = "splitting"
  BY DEF Split
<1>3. Shape /\ Apart /\ PassOK(p) /\ Whole(ledger)
  BY DEF AllocationInv
<1>4. row \in Ingestible /\ Governed(row)
  BY <1>3 DEF PassOK
<1>5. Whole(group) /\ Origins(group) = {row}
  BY <1>4, SplitIsWhole
<1>6. \A x \in group : ~IsChild(x) => x.allocated = TRUE
  <2>1. MarkAllocated(row, rule).allocated = TRUE
    BY <1>4, Marked
  <2>2. \A c \in BuildChildren(row, rule, weights) : IsChild(c)
    BY <1>4, Children
  <2> QED
    BY <2>1, <2>2
<1>7. /\ pending' = [pending EXCEPT ![p] = @ \cup group]
      /\ todo' = [todo EXCEPT ![p] = @ \ {row}]
  <2>1. pending[p] \cup BuildChildren(row, rule, weights) \cup {MarkAllocated(row, rule)}
            = pending[p] \cup group
    OBVIOUS
  <2> QED
    BY <1>1, <2>1
<1> HIDE DEF group, rule, weights
<1>8. /\ pending'[p] = pending[p] \cup group /\ todo'[p] = todo[p] \ {row}
      /\ sent'[p] = sent[p]
      /\ \A q \in Passes \ {p} : /\ phase'[q] = phase[q] /\ todo'[q] = todo[q]
                                 /\ pending'[q] = pending[q] /\ sent'[q] = sent[q]
  BY <1>2, <1>3, <1>7 DEF Shape
<1>9. Whole(pending'[p]) /\ Origins(pending'[p]) = Origins(pending[p]) \cup {row}
  <2>1. Keys(pending[p]) \cap Keys(group) = {}
    <3>1. Whole(pending[p]) /\ Origins(pending[p]) \subseteq Origins(ledger)
          /\ row \in Origins(ledger) /\ row \notin Origins(pending[p])
      BY <1>3 DEF PassOK
    <3> QED
      BY <1>3, <1>5, <3>1, ApartInTable
  <2>2. Whole(pending[p])
    BY <1>3 DEF PassOK
  <2>3. /\ Whole(pending[p] \cup group)
        /\ Origins(pending[p] \cup group) = Origins(pending[p]) \cup Origins(group)
    BY <1>5, <2>1, <2>2, UnionIsWhole
  <2> QED
    BY <1>5, <1>8, <2>3
<1>10. PassOK(p)'
  BY <1>2, <1>3, <1>6, <1>8, <1>9 DEF PassOK
<1>11. Whole(ledger') /\ \A q \in Passes \ {p} : PassOK(q)'
  BY <1>2, <1>8, OthersKept
<1>12. Shape' /\ Apart'
  BY <1>2, <1>3, <1>7 DEF Shape, Apart
<1> QED
  BY <1>10, <1>11, <1>12 DEF AllocationInv

\* Flush: the pending rows join the sent ones; their keys are nobody else's.
LEMMA FlushKeeps ==
    ASSUME AllocationInv, NEW p \in Passes, Flush(p)
    PROVE  AllocationInv'
<1>1. /\ UNCHANGED <<ledger, todo, begun, failures>>
      /\ sent' = [sent EXCEPT ![p] = @ \cup pending[p]]
      /\ pending' = [pending EXCEPT ![p] = {}]
      /\ phase' = [phase EXCEPT ![p] = IF todo[p] = {} THEN "flushed" ELSE @]
      /\ Unlocked(p) /\ UniqueKeys(p) /\ phase[p] = "splitting"
  BY DEF Flush, FlushDue
<1>2. Shape /\ Apart /\ PassOK(p) /\ Whole(ledger)
  BY DEF AllocationInv
<1>3. /\ sent'[p] = sent[p] \cup pending[p] /\ pending'[p] = {} /\ todo'[p] = todo[p]
      /\ \A q \in Passes \ {p} : /\ phase'[q] = phase[q] /\ todo'[q] = todo[q]
                                 /\ pending'[q] = pending[q] /\ sent'[q] = sent[q]
      /\ phase'[p] # "idle"
  BY <1>1, <1>2 DEF Shape
<1>4. /\ Whole(sent'[p]) /\ Origins(sent'[p]) = Origins(sent[p]) \cup Origins(pending[p])
      /\ Keys(sent'[p]) = Keys(sent[p]) \cup Keys(pending[p])
  <2>1. Keys(sent[p]) \cap Keys(pending[p]) = {}
    BY <1>2, ApartInTable DEF PassOK
  <2>2. Whole(sent[p]) /\ Whole(pending[p])
    BY <1>2 DEF PassOK
  <2>3. /\ Whole(sent[p] \cup pending[p])
        /\ Origins(sent[p] \cup pending[p]) = Origins(sent[p]) \cup Origins(pending[p])
        /\ Keys(sent[p] \cup pending[p]) = Keys(sent[p]) \cup Keys(pending[p])
    BY <2>1, <2>2, UnionIsWhole
  <2> QED
    BY <1>3, <2>3
<1>5. Keys(NewRows(sent'[p])) \cap Keys(ledger') = {}
  BY <1>1, <1>2, <1>3 DEF PassOK, UniqueKeys, Keys, NewRows
<1>6. PassOK(p)'
  BY <1>1, <1>2, <1>3, <1>4, <1>5, EmptyIsWhole DEF PassOK
<1>7. Whole(ledger') /\ \A q \in Passes \ {p} : PassOK(q)'
  BY <1>1, <1>3, OthersKept
<1>8. Apart'
  <2> SUFFICES ASSUME NEW q \in Passes, NEW r \in Passes, q # r
               PROVE  Keys(sent'[q]) \cap Keys(sent'[r]) = {}
    BY DEF Apart
  <2>1. \A o \in Passes \ {p} : Keys(sent[o]) \cap Keys(pending[p]) = {}
    BY <1>1 DEF Unlocked
  <2>2. \A o \in Passes \ {p} : Keys(sent'[o]) \cap Keys(sent'[p]) = {}
    BY <1>2, <1>3, <1>4, <2>1 DEF Apart
  <2>3. CASE q # p /\ r # p
    BY <1>2, <1>3, <2>3 DEF Apart
  <2> QED
    BY <2>2, <2>3
<1>9. Shape'
  BY <1>1, <1>2 DEF Shape
<1> QED
  BY <1>6, <1>7, <1>8, <1>9 DEF AllocationInv

\* The rows of the table that a pass leaves alone.
Kept(p) == {r \in ledger : IsChild(r) \/ r.key \notin Keys(sent[p])}

\* What a pass replaces are records without children, so that the rest is whole,
\* for whoever reads the table through the session or after the commit.
LEMMA KeptIsWhole ==
    ASSUME AllocationInv, NEW p \in Passes
    PROVE  /\ Overlay(ledger, sent[p]) = Kept(p) \cup sent[p] /\ Kept(p) \subseteq ledger
           /\ \A q \in ledger : ~IsChild(q) /\ q \notin Kept(p) =>
                /\ ChildrenOf(q, ledger) = {}
                /\ \E x \in sent[p] : ~IsChild(x) /\ x.key = q.key /\ Origin(x) = Origin(q)
           /\ Whole(Kept(p)) /\ Keys(Kept(p)) \cap Keys(sent[p]) = {}
           /\ \A x \in Kept(p) : ~IsChild(x) => ChildrenOf(x, Kept(p)) = ChildrenOf(x, ledger)
<1>2. Shape /\ Apart /\ PassOK(p) /\ Whole(ledger)
  BY DEF AllocationInv
<1> DEFINE kept == Kept(p)
<1> USE DEF Kept
<1>3. Overlay(ledger, sent[p]) = kept \cup sent[p] /\ kept \subseteq ledger
  BY DEF Overlay
<1>4. ASSUME NEW q \in ledger, ~IsChild(q), q \notin kept
      PROVE  /\ ChildrenOf(q, ledger) = {}
             /\ \E x \in sent[p] : ~IsChild(x) /\ x.key = q.key /\ Origin(x) = Origin(q)
  <2>1. PICK x \in sent[p] : x.key = q.key
    BY <1>4 DEF Keys
  <2>2. ~IsChild(x)
    <3> SUFFICES ASSUME IsChild(x) PROVE FALSE
      OBVIOUS
    <3>1. PICK a, b, c : x.key = <<a, b, c>>
      BY <1>2, WholeKeys DEF PassOK
    <3>2. q.key = <<q.key[1]>>
      BY <1>2, <1>4, WholeKeys
    <3> QED
      BY <2>1, <3>1, <3>2, KeyShapes
  <2>3. Origin(x) = Origin(q)
    <3>1. Origin(x) \in Origins(ledger) /\ x.key = Origin(x).key
      BY <1>2, <2>2, WholeKeys DEF PassOK
    <3>2. Origin(q) \in Origins(ledger) /\ q.key = Origin(q).key
      BY <1>2, <1>4, WholeKeys
    <3> QED
      BY <1>2, <2>1, <3>1, <3>2, OriginsDiffer
  <2>4. x.allocated = TRUE /\ ParentOK(x, sent[p])
    BY <1>2, <2>2 DEF PassOK, Whole
  <2>5. Governed(Origin(x)) /\ Keys(ChildrenOf(x, sent[p])) = KidKeys(Origin(x))
    <3>1. Origin(x).allocated = FALSE
      BY <2>4, IngestibleFact DEF ParentOK
    <3>2. x # Origin(x)
      BY <2>4, <3>1
    <3> QED
      BY <2>4, <3>2 DEF ParentOK
  <2>6. PICK k : k \in KidKeys(Origin(x))
    BY <2>5, SelectedRule DEF KidKeys
  <2>7. PICK c \in sent[p] : c.parent = x.key /\ c.key = k
    BY <2>5, <2>6 DEF Keys, ChildrenOf
  <2>8. IsChild(c)
    <3>1. x.key # Nothing
      BY <2>4, IngestibleFact DEF ParentOK
    <3> QED
      BY <2>7, <3>1 DEF IsChild
  <2>9. k \notin Keys(ledger)
    BY <1>2, <2>7, <2>8 DEF PassOK, Keys, NewRows
  <2>10. Keys(ChildrenOf(q, ledger)) # KidKeys(Origin(q))
    <3>1. Keys(ChildrenOf(q, ledger)) \subseteq Keys(ledger)
      BY DEF Keys, ChildrenOf
    <3> QED
      BY <2>3, <2>6, <2>9, <3>1
  <2>11. ChildrenOf(q, ledger) = {}
    BY <1>2, <1>4, <2>10 DEF Whole, ParentOK
  <2> QED
    BY <2>1, <2>2, <2>3, <2>11
<1>8. ASSUME NEW x \in kept, ~IsChild(x) PROVE ChildrenOf(x, kept) = ChildrenOf(x, ledger)
  <2> SUFFICES ASSUME NEW c \in ledger, c.parent = x.key PROVE c \in kept
    BY <1>3 DEF ChildrenOf
  <2>1. Origin(x) \in Ingestible /\ x.key = Origin(x).key
    BY <1>2, <1>3, <1>8, WholeKeys
  <2>2. x.key # Nothing
    BY <2>1, IngestibleFact
  <2> QED
    BY <2>2 DEF IsChild
<1>5. Whole(kept)
  <2>1. \A a, b \in kept : a.key = b.key => a = b
    BY <1>2, <1>3 DEF Whole
  <2>2. ASSUME NEW c \in kept, IsChild(c) PROVE ChildOK(c, kept)
    <3>1. PICK x \in ledger : /\ ~IsChild(x) /\ x.allocated = TRUE /\ x.key = c.parent
                              /\ c.key \in KidKeys(Origin(x))
      BY <1>2, <1>3, <2>2 DEF Whole, ChildOK
    <3>2. ChildrenOf(x, ledger) # {}
      BY <1>3, <3>1 DEF ChildrenOf
    <3>3. x \in kept
      BY <1>4, <3>1, <3>2
    <3> QED
      BY <3>1, <3>3 DEF ChildOK
  <2>3. ASSUME NEW x \in kept, ~IsChild(x) PROVE ParentOK(x, kept)
    <3>1. ParentOK(x, ledger) /\ ChildrenOf(x, kept) = ChildrenOf(x, ledger)
      BY <1>2, <1>3, <1>8, <2>3 DEF Whole
    <3> QED
      BY <3>1 DEF ParentOK
  <2> HIDE DEF kept
  <2> QED
    BY <2>1, <2>2, <2>3 DEF Whole
<1>6. Keys(kept) \cap Keys(sent[p]) = {}
  <2> SUFFICES ASSUME NEW r \in kept, NEW x \in sent[p], r.key = x.key PROVE FALSE
    BY DEF Keys
  <2>1. IsChild(r) /\ r \in ledger
    BY DEF Keys
  <2>2. CASE IsChild(x)
    BY <1>2, <2>1, <2>2 DEF PassOK, Keys, NewRows
  <2>3. CASE ~IsChild(x)
    <3>1. PICK a, b, c : r.key = <<a, b, c>>
      BY <1>2, <2>1, WholeKeys
    <3>2. x.key = <<x.key[1]>>
      BY <1>2, <2>3, WholeKeys DEF PassOK
    <3> QED
      BY <3>1, <3>2, KeyShapes
  <2> QED
    BY <2>2, <2>3
<1> QED
  BY <1>2, <1>3, <1>4, <1>5, <1>6, <1>8

\* Commit: the pass's rows take the place of the records they were made of.
LEMMA CommitKeeps ==
    ASSUME AllocationInv, NEW p \in Passes, Commit(p)
    PROVE  AllocationInv' /\ Origins(ledger) \subseteq Origins(ledger')
<1>1. Rollback(p) /\ UNCHANGED <<begun, failures>> /\ ledger' = Overlay(ledger, sent[p])
  BY DEF Commit
<1>2. Shape /\ Apart /\ PassOK(p) /\ Whole(ledger)
  BY DEF AllocationInv
<1> DEFINE kept == Kept(p)
<1>3. ledger' = kept \cup sent[p] /\ kept \subseteq ledger
  BY <1>1, KeptIsWhole
<1>4. ASSUME NEW q \in ledger, ~IsChild(q), q \notin kept
      PROVE  \E x \in sent[p] : ~IsChild(x) /\ x.key = q.key /\ Origin(x) = Origin(q)
  BY <1>4, KeptIsWhole
<1>5. Whole(kept) /\ Keys(kept) \cap Keys(sent[p]) = {}
  BY KeptIsWhole
<1> HIDE DEF kept
<1>7. /\ Whole(ledger') /\ Keys(ledger') = Keys(kept) \cup Keys(sent[p])
      /\ Origins(ledger') = Origins(kept) \cup Origins(sent[p])
  BY <1>2, <1>3, <1>5, UnionIsWhole DEF PassOK
<1>8. Origins(ledger) \subseteq Origins(ledger')
  <2> SUFFICES ASSUME NEW q \in ledger, ~IsChild(q) PROVE Origin(q) \in Origins(ledger')
    BY DEF Origins
  <2>1. CASE q \in kept
    BY <1>7, <2>1 DEF Origins
  <2>2. CASE q \notin kept
    BY <1>4, <1>7, <2>2 DEF Origins
  <2> QED
    BY <2>1, <2>2
<1>9. /\ todo'[p] = {} /\ pending'[p] = {} /\ sent'[p] = {}
      /\ \A q \in Passes \ {p} : /\ phase'[q] = phase[q] /\ todo'[q] = todo[q]
                                 /\ pending'[q] = pending[q] /\ sent'[q] = sent[q]
      /\ phase' \in [Passes -> {"idle", "splitting", "flushed"}]
      /\ todo' = [q \in Passes |-> todo'[q]]
      /\ pending' = [q \in Passes |-> pending'[q]]
      /\ sent' = [q \in Passes |-> sent'[q]]
  BY <1>1, <1>2, RollbackClears
<1>10. ASSUME NEW q \in Passes PROVE PassOK(q)'
  <2>1. CASE q = p
    BY <1>9, <2>1, PassCleared
  <2>2. CASE q # p
    <3>1. PassOK(q) /\ Keys(sent[q]) \cap Keys(sent[p]) = {}
      BY <1>2, <2>2 DEF AllocationInv, Apart
    <3>2. Keys(NewRows(sent[q])) \cap Keys(ledger') = {}
      <4>1. Keys(kept) \subseteq Keys(ledger) /\ Keys(NewRows(sent[q])) \subseteq Keys(sent[q])
        BY <1>3 DEF Keys, NewRows
      <4> QED
        BY <1>7, <3>1, <4>1 DEF PassOK
    <3> QED
      BY <1>8, <1>9, <2>2, <3>1, <3>2, PassKept
  <2> QED
    BY <2>1, <2>2
<1>11. Apart'
  BY <1>2, <1>9, EmptyIsWhole DEF Apart
<1>12. Shape'
  BY <1>1, <1>2, <1>9 DEF Shape
<1> QED
  BY <1>7, <1>8, <1>10, <1>11, <1>12 DEF AllocationInv

\* Every step keeps the invariant.
LEMMA AllocationStep == AllocationInv /\ [Next]_vars => AllocationInv'
<1> SUFFICES ASSUME AllocationInv, [Next]_vars PROVE AllocationInv'
  OBVIOUS
<1>1. CASE Ingest
  BY <1>1, IngestKeeps
<1>2. CASE \E p \in Passes : Pass(p)
  BY <1>2, BeginKeeps, SplitKeeps, RollbackKeeps, FlushKeeps, CommitKeeps DEF Pass
<1>3. CASE UNCHANGED vars
  BY <1>3 DEF vars, AllocationInv, Shape, Apart, PassOK
<1> QED
  BY <1>1, <1>2, <1>3 DEF Next

----------------------------------------------------------------------------
(* The theorems.                                                            *)

\* The inductive invariant holds in every state the passes can reach.
THEOREM AllocationInvariant == Spec => []AllocationInv
BY AllocationInit, AllocationStep, PTL DEF Spec

\* A committed record is split as a whole or not at all, and only once, for any
\* number of passes that overlap, conflict and die.
THEOREM SplitsAreWhole == Spec => []SplitIsComplete
<1>1. AllocationInv => SplitIsComplete
  <2> SUFFICES ASSUME AllocationInv PROVE SplitIsComplete
    OBVIOUS
  <2>1. Whole(ledger)
    BY DEF AllocationInv
  <2>2. \A a, b \in ledger : a.key = b.key => a = b
    BY <2>1 DEF Whole
  <2>3. \A c \in ledger : IsChild(c) => c.parent \in Keys(ledger)
    BY <2>1 DEF Whole, ChildOK, Keys
  <2>4. ASSUME NEW row \in ledger, ~IsChild(row), ~row.allocated
        PROVE  ChildrenOf(row, ledger) = {}
    BY <2>1, <2>4 DEF Whole, ParentOK
  <2>5. ASSUME NEW row \in ledger, ~IsChild(row), row.allocated
        PROVE  \E rule \in Rules :
                    /\ rule.name = row.rule
                    /\ Keys(ChildrenOf(row, ledger)) =
                            {<<rule.name, row.key[1], t>> : t \in rule.targets}
    <3>1. ParentOK(row, ledger)
      BY <2>1, <2>5 DEF Whole
    <3>2. row # Origin(row)
      BY <2>5, <3>1, IngestibleFact DEF ParentOK
    <3>3. /\ Governed(Origin(row)) /\ row.rule = SelectRule(Origin(row)).name
          /\ Keys(ChildrenOf(row, ledger)) = KidKeys(Origin(row))
          /\ row.key = Origin(row).key
      BY <3>1, <3>2 DEF ParentOK
    <3>4. SelectRule(Origin(row)) \in Rules
      BY <3>3, SelectedRule
    <3> QED
      BY <3>3, <3>4 DEF KidKeys
  <2> QED
    BY <2>2, <2>3, <2>4, <2>5 DEF SplitIsComplete
<1> QED
  BY <1>1, AllocationInvariant, PTL

\* The table holds collected rows, marked or not, and children; a session holds
\* rows of the records it was given, and nothing when no pass is under way.
THEOREM AllocationTypeCorrect == Spec => []TypeOK
<1>1. AllocationInv => TypeOK
  <2> SUFFICES ASSUME AllocationInv PROVE TypeOK
    OBVIOUS
  <2>1. Shape /\ Whole(ledger) /\ \A p \in Passes : PassOK(p)
    BY DEF AllocationInv
  <2>2. \A r \in ledger :
            IsChild(r) \/ [r EXCEPT !.allocated = FALSE, !.rule = Nothing] \in Ingestible
    BY <2>1 DEF Whole, ParentOK, Origin
  <2>3. ASSUME NEW row, Governed(row) PROVE KidKeys(row) \subseteq ChildKeys(row)
    BY <2>3, SelectedRule DEF KidKeys, ChildKeys, Teams
  <2>4. ASSUME NEW p \in Passes, NEW rows \in {pending[p], sent[p]}, NEW r \in rows
        PROVE  \E row \in Ingestible : r.key = row.key \/ r.key \in ChildKeys(row)
    <3>1. Whole(rows)
      BY <2>1 DEF PassOK
    <3>2. CASE ~IsChild(r)
      BY <3>1, <3>2, WholeKeys
    <3>3. CASE IsChild(r)
      <4>1. PICK x \in rows : ~IsChild(x) /\ x.allocated = TRUE /\ r.key \in KidKeys(Origin(x))
        BY <3>1, <3>3 DEF Whole, ChildOK
      <4>2. ParentOK(x, rows)
        BY <3>1, <4>1 DEF Whole
      <4>3. x # Origin(x)
        BY <4>1, <4>2, IngestibleFact DEF ParentOK
      <4>4. Origin(x) \in Ingestible /\ Governed(Origin(x))
        BY <4>2, <4>3 DEF ParentOK
      <4> QED
        BY <2>3, <4>1, <4>4
    <3> QED
      BY <3>2, <3>3
  <2>5. \A p \in Passes :
            /\ todo[p] \subseteq Ingestible
            /\ phase[p] = "idle" => todo[p] \cup pending[p] \cup sent[p] = {}
    BY <2>1 DEF PassOK
  <2> QED
    BY <2>1, <2>2, <2>4, <2>5 DEF TypeOK, Shape
<1> QED
  BY <1>1, AllocationInvariant, PTL

----------------------------------------------------------------------------
(* Who owns a spend log.                                                    *)

\* A set of naturals that is not empty has a least element.
LEMMA MinOfNaturals ==
    ASSUME NEW S \in SUBSET Nat, S # {}
    PROVE  Min(S) \in S /\ \A y \in S : Min(S) <= y
<1> DEFINE less == {ss \in Nat \X Nat : ss[1] < ss[2]}
<1>1. IsWellFoundedOn(less, Nat)
  BY NatLessThanWellFounded DEF OpToRel
<1>2. PICK x \in S : \A y \in S : ~(<<y, x>> \in less)
  <2> HIDE DEF less
  <2> QED
    BY <1>1, WFMin
<1>3. ASSUME NEW y \in S PROVE x <= y
  <2>1. y < x => <<y, x>> \in less
    OBVIOUS
  <2> QED
    BY <1>2, <2>1
<1> QED
  BY <1>3 DEF Min

\* The part of OwnerRespected about one log and one dimension.
OwnerFits(tags, metadata, d, owner) ==
    LET said == {i \in DOMAIN tags :
            /\ tags[i] # Malformed
            /\ Normalize[tags[i].key] = d
            /\ Normalize[tags[i].value] # Nothing}
        first == Normalize[tags[Min(said)].value]
        given == Normalize[metadata[d]]
        aliases == IF d # "team" THEN {}
                   ELSE {Normalize[metadata["user_api_key_team_alias"]],
                         Normalize[metadata["team_alias"]]} \ {Nothing}
    IN IF said # {} /\ first # Unattributed THEN owner = first
       ELSE IF said = {} /\ given \notin {Nothing, Unattributed} THEN owner = given
       ELSE IF aliases = {} THEN owner = Unattributed
            ELSE owner \in aliases

\* What a log's tags and metadata make of its owner in one dimension: its first
\* usable tag, else its metadata, else the alias of its key, else nobody.
LEMMA OwnerOfLog ==
    ASSUME NEW tags, DOMAIN tags \subseteq Nat, NEW metadata, NEW d \in Owners!Dimensions
    PROVE  OwnerFits(tags, metadata, d, Owners!ResolveAttribution(tags, metadata)[d])
<1> DEFINE said == {i \in DOMAIN tags :
                    /\ tags[i] # Malformed
                    /\ Normalize[tags[i].key] = d
                    /\ Normalize[tags[i].value] # Nothing}
           first == Normalize[tags[Min(said)].value]
           given == Normalize[metadata[d]]
           fromAlias == Normalize[metadata["user_api_key_team_alias"]]
           fromTeam == Normalize[metadata["team_alias"]]
           values == [i \in DOMAIN tags |->
                        IF tags[i] # Malformed /\ Normalize[tags[i].key] = d
                        THEN Normalize[tags[i].value] ELSE Nothing]
           usable == {i \in DOMAIN values : values[i] # Nothing}
           tagged == Owners!ParseTagList(tags)[d]
           either == Owners!FirstOf(<<tagged, given>>, Unattributed)
           alias == Owners!TeamFromKeyAlias(metadata)
           owner == Owners!ResolveAttribution(tags, metadata)[d]
<1>1. said = usable /\ said \in SUBSET Nat
  OBVIOUS
<1>2. tagged = IF usable = {} THEN Nothing ELSE values[Min(usable)]
  BY DEF Owners!ParseTagList, Owners!FirstOf, Owners!Min, Min
<1>3. tagged = IF said = {} THEN Nothing ELSE first
  <2>1. CASE said = {}
    BY <1>1, <1>2, <2>1
  <2>2. CASE said # {}
    <3>1. Min(said) \in said
      BY <1>1, <2>2, MinOfNaturals
    <3>2. values[Min(said)] = first
      BY <3>1
    <3> QED
      BY <1>1, <1>2, <2>2, <3>2
  <2> QED
    BY <2>1, <2>2
<1>4. said # {} => first # Nothing
  <2> SUFFICES ASSUME said # {} PROVE first # Nothing
    OBVIOUS
  <2>1. Min(said) \in said
    BY <1>1, MinOfNaturals
  <2> QED
    BY <2>1
<1>5. ASSUME NEW a, NEW b, NEW default
      PROVE  Owners!FirstOf(<<a, b>>, default) =
                IF a # Nothing THEN a ELSE IF b # Nothing THEN b ELSE default
  <2> DEFINE pair == <<a, b>>
             set == {i \in DOMAIN pair : pair[i] # Nothing}
  <2>1. DOMAIN pair = {1, 2} /\ pair[1] = a /\ pair[2] = b
    OBVIOUS
  <2>2. Owners!FirstOf(pair, default) = IF set = {} THEN default ELSE pair[Min(set)]
    BY DEF Owners!FirstOf, Owners!Min, Min
  <2>3. CASE a # Nothing
    <3>1. 1 \in set /\ \A i \in set : i \in {1, 2}
      BY <2>1, <2>3
    <3>2. Min(set) = 1
      <4>1. \A y \in set : 1 <= y
        BY <3>1
      <4>2. \A x \in set : (\A y \in set : x <= y) => x = 1
        BY <3>1
      <4> QED
        BY <3>1, <4>1, <4>2 DEF Min
    <3> QED
      BY <2>1, <2>2, <2>3, <3>1, <3>2
  <2>4. CASE a = Nothing /\ b # Nothing
    <3>1. set = {2}
      BY <2>1, <2>4
    <3>2. Min(set) = 2
      BY <3>1 DEF Min
    <3> QED
      BY <2>1, <2>2, <2>4, <3>1, <3>2
  <2>5. CASE a = Nothing /\ b = Nothing
    <3>1. set = {}
      BY <2>1, <2>5
    <3> QED
      BY <2>2, <2>5, <3>1
  <2> QED
    BY <2>3, <2>4, <2>5
<1>6. either = IF tagged # Nothing THEN tagged
               ELSE IF given # Nothing THEN given ELSE Unattributed
  BY <1>5
<1>7. alias = IF fromAlias # Nothing THEN fromAlias
              ELSE IF fromTeam # Nothing THEN fromTeam ELSE Unattributed
  <2>1. [i \in DOMAIN Owners!TeamAliasKeys |->
            Owners!FromMetadata(metadata, Owners!TeamAliasKeys[i])] = <<fromAlias, fromTeam>>
    BY DEF Owners!TeamAliasKeys, Owners!FromMetadata
  <2> HIDE DEF fromAlias, fromTeam
  <2> QED
    BY <1>5, <2>1 DEF Owners!TeamFromKeyAlias
<1>8. owner = IF d = "team" /\ either = Unattributed THEN alias ELSE either
  <2> HIDE DEF tagged, given, alias
  <2>1. "team" \in Owners!Dimensions
    BY DEF Owners!Dimensions
  <2>2. \A k \in Owners!Dimensions : Owners!FromMetadata(metadata, k) = Normalize[metadata[k]]
    BY DEF Owners!FromMetadata
  <2> QED
    BY <2>1, <2>2 DEF Owners!ResolveAttribution, tagged, given, alias
<1> HIDE DEF said, first, given, fromAlias, fromTeam, tagged, either, alias, owner
<1>9. IF said # {} /\ first # Unattributed THEN owner = first
      ELSE IF said = {} /\ given \notin {Nothing, Unattributed} THEN owner = given
      ELSE owner = IF d = "team" THEN alias ELSE Unattributed
  BY <1>3, <1>4, <1>6, <1>8
<1> QED
  BY <1>7, <1>9 DEF OwnerFits, said, first, given, fromAlias, fromTeam, owner

\* Where keys tell the collected rows apart (the proxy's request id is a primary
\* key), a log's row names the owner its tags and metadata give it, for any tags
\* and any metadata, and no pass changes that.
THEOREM OwnersAreRespected ==
    ASSUME \A a, b \in Ingestible : a.key = b.key => a = b,
           \A log \in SpendLogs : DOMAIN log.tags \subseteq Nat
    PROVE  Spec => []OwnerRespected
<1>1. AllocationInv => OwnerRespected
  <2> SUFFICES ASSUME AllocationInv, NEW log \in SpendLogs, NEW row \in ledger,
                      row.key = <<log.id>>, NEW d \in Owners!Dimensions
               PROVE  OwnerFits(log.tags, log.metadata, d, row.owner[d])
    BY DEF OwnerRespected, OwnerFits
  <2>1. Whole(ledger)
    BY DEF AllocationInv
  <2>2. ~IsChild(row)
    <3> SUFFICES ASSUME IsChild(row) PROVE FALSE
      OBVIOUS
    <3>1. PICK a, b, c : row.key = <<a, b, c>>
      BY <2>1, WholeKeys
    <3> QED
      BY <3>1, KeyShapes
  <2>3. Origin(row) \in Ingestible /\ row.key = Origin(row).key
    BY <2>1, <2>2, WholeKeys
  <2> DEFINE owner == Owners!ResolveAttribution(log.tags, log.metadata)
  <2>4. ToRecord(log) \in Ingestible /\ ToRecord(log).key = <<log.id>>
        /\ ToRecord(log).owner = owner
    BY DEF Ingestible, ToRecord
  <2>5. Origin(row) = ToRecord(log)
    BY <2>3, <2>4
  <2>6. row.owner = Origin(row).owner
    BY <2>1, <2>2, <2>3 DEF Origin
  <2>7. row.owner[d] = owner[d]
    BY <2>4, <2>5, <2>6
  <2> HIDE DEF owner
  <2> QED
    BY <2>7, OwnerOfLog DEF owner
<1> QED
  BY <1>1, AllocationInvariant, PTL

----------------------------------------------------------------------------
(* Reports.                                                                 *)

\* Whoever reads reports changes nothing: what holds of the passes holds while
\* reports are read, too.
THEOREM ReportsOnlyRead == ReportSpec => Spec /\ []SplitIsComplete
<1>1. ReportInit => Init
  BY DEF ReportInit
<1>2. [ReportNext]_allVars => [Next]_vars
  BY DEF ReportNext, ReadTotal, ReadUnattributed, ReadBySource, ReadModels, ReadResources,
         ReadTop, Respond, Others, allVars, vars
<1>3. ReportSpec => Spec
  BY <1>1, <1>2, PTL DEF ReportSpec, Spec
<1> QED
  BY <1>3, SplitsAreWhole, PTL
=============================================================================
