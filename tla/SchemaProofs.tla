---------------------------- MODULE SchemaProofs ----------------------------
(***************************************************************************)
(* Proofs about Schema, for any number of processes, rules and records and *)
(* any database an older version may have left: a process that serves      *)
(* finds a complete schema, an old threshold is divided once, and a start  *)
(* leaves what this version has written alone.                             *)
(***************************************************************************)
EXTENDS Schema, SequenceTheorems, TLAPS

Ops == {"create", "add", "derive status", "index", "scale", "copy funding",
        "copy spread", "fill caps", "commit"}
TableNames == ToSet(AuthTables) \cup ToSet(AccountTables) \cup ToSet(MarketTables)
              \cup ToSet(ExecutionTables) \cup ToSet(SnapshotTables)
ColumnNames == ToSet(UserColumns) \cup ToSet(AccountColumns) \cup ToSet(WorkerColumns)
               \cup ToSet(TransferColumns) \cup ToSet(CapColumns)
               \cup ToSet(FundingColumns) \cup ToSet(SpreadColumns)
               \cup ToSet(ExecutionColumns) \cup ToSet(LegColumns) \cup ToSet(FeeColumns)
Words == TableNames \cup ColumnNames \cup {"none"}
StatementRecords ==
    {x \in [op : Ops, name : Words] : x.op = "create" => x.name \in TableNames}

FundingColumn == "min_net_funding_rate_threshold"
AddFunding == [op |-> "add", name |-> FundingColumn]

(* Where the funding column is added; the next statement divides.           *)
FundingAt == CHOOSE i \in DOMAIN Statements : Statements[i] = AddFunding

(* Every statement but that one, the division and the last commit.          *)
Ordinary == {x \in StatementRecords :
                x.op \notin {"scale", "commit"} /\ x # AddFunding}

(* The statements before it.                                                *)
Before ==
    Create(AuthTables) \o Create(AccountTables) \o Create(MarketTables)
    \o Create(ExecutionTables) \o Create(SnapshotTables)
    \o Add(UserColumns) \o Add(AccountColumns) \o Add(WorkerColumns)
    \o Add(TransferColumns) \o Do("derive status") \o Do("index")
    \o Add(CapColumns)

(* A beginning of the bootstrap: n statements, the column, the division, and *)
(* more ordinary statements.                                                *)
Divides(u, n) ==
    /\ u \in Seq(StatementRecords)
    /\ n \in Nat /\ n + 2 <= Len(u)
    /\ u[n + 1] = AddFunding /\ u[n + 2].op = "scale"
    /\ \A i \in 1 .. Len(u) : i \notin {n + 1, n + 2} => u[i] \in Ordinary

Creates(x, t) == x = [op |-> "create", name |-> t]
Adds(x, c) == x = [op |-> "add", name |-> c]

-----------------------------------------------------------------------------
(* The inductive invariant.                                                 *)

ServerStates == [pc : {"down", "wait", "boot", "ready"},
                 at : 1 .. Len(Statements), added : BOOLEAN]


SchemaTypes ==
    /\ server \in [Servers -> ServerStates]
    /\ tables \subseteq AllTables /\ missing \subseteq AllColumns
    /\ rule \in [RuleIds -> RuleRows]
    /\ DOMAIN row = RecordIds
    /\ committed = [rule |-> committed.rule, row |-> committed.row]
    /\ committed.rule \in [RuleIds -> RuleRows]
    /\ DOMAIN committed.row = RecordIds
    /\ yearly \in [RuleIds -> Nat] /\ torn \in BOOLEAN

(* The lock is held by the one process that is in its bootstrap.            *)
OneBootstrap ==
    \A s \in Servers : server[s].pc = "boot" <=> lockedBy = s

(* What the first n statements create or add is there.                      *)
Done(n) ==
    \A i \in 1 .. n - 1 :
        /\ Statements[i].op = "create" => Statements[i].name \in tables
        /\ Statements[i].op = "add" => Statements[i].name \notin missing

BootstrapsProgress ==
    \A s \in Servers :
        /\ server[s].pc = "boot" => Done(server[s].at)
        /\ server[s].pc # "boot" => server[s].at = 1

SchemaComplete == tables = AllTables /\ missing = {}

(* Whoever serves, or has written a row, found the schema complete.         *)
ServedCompletes ==
    /\ (\E s \in Servers : server[s].pc = "ready") => SchemaComplete
    /\ authored # {} => SchemaComplete

(* A bootstrap that has added the funding column is behind it, and nobody   *)
(* has served before.                                                       *)
AddedFirst ==
    \A s \in Servers : server[s].added =>
        /\ server[s].pc = "boot" /\ server[s].at > FundingAt
        /\ authored = {}
        /\ \A q \in Servers : server[q].pc # "ready"

(* A rule or record of this version is committed, and as the bootstrap      *)
(* would leave it.                                                          *)
AuthoredStays ==
    /\ \A r \in RuleIds \cap authored :
          /\ rule[r].close > 0 /\ rule[r].cap > 0
          /\ committed.rule[r] = rule[r]
    /\ \A i \in RecordIds \cap authored :
          Derived(row[i]) = row[i] /\ committed.row[i] = row[i]

Dividing == \E s \in Servers : server[s].added /\ server[s].at = FundingAt + 1
HasDivided(r) == rule[r].open = PerPeriod(yearly[r])
DividedUncommitted ==
    \E s \in Servers : server[s].added /\ server[s].at > FundingAt + 1
                       /\ "division" \in unsettled

(* An old threshold is as it was until the column is added, and divided     *)
(* from the next statement on.                                              *)
YearlyDivided(r) ==
    /\ rule[r].kind = "funding" /\ committed.rule[r].kind = "funding"
    /\ FundingColumn \in missing => rule[r].open = yearly[r]
                                   /\ committed.rule[r].open = yearly[r]
    /\ FundingColumn \notin missing /\ Dividing => rule[r].open = yearly[r]
    /\ FundingColumn \notin missing /\ ~Dividing =>
          /\ HasDivided(r)
          /\ committed.rule[r].open = rule[r].open \/ DividedUncommitted

ThresholdsDivided == ~torn => \A r \in RuleIds : yearly[r] > 0 => YearlyDivided(r)

SchemaInv ==
    /\ SchemaTypes /\ OneBootstrap /\ BootstrapsProgress
    /\ ServedCompletes /\ AddedFirst /\ AuthoredStays /\ ThresholdsDivided

-----------------------------------------------------------------------------
(* The statements, and their order.                                         *)

(* What a concatenation contains.                                           *)
LEMMA Concatenated ==
    ASSUME NEW X, NEW u \in Seq(X), NEW v \in Seq(X)
    PROVE  u \o v \in Seq(X) /\ ToSet(u \o v) = ToSet(u) \cup ToSet(v)
<1>1. u \o v \in Seq(X) /\ Len(u \o v) = Len(u) + Len(v)
  BY ConcatProperties
<1>2. \A i \in 1 .. Len(u) + Len(v) :
          (u \o v)[i] = IF i <= Len(u) THEN u[i] ELSE v[i - Len(u)]
  BY ConcatProperties
<1>3. DOMAIN u = 1 .. Len(u) /\ DOMAIN v = 1 .. Len(v) /\ Len(u) \in Nat /\ Len(v) \in Nat
      /\ DOMAIN (u \o v) = 1 .. Len(u) + Len(v)
  BY <1>1, LenProperties
<1>4. ASSUME NEW x \in ToSet(u) PROVE x \in ToSet(u \o v)
  BY <1>2, <1>3, <1>4 DEF ToSet
<1>5. ASSUME NEW x \in ToSet(v) PROVE x \in ToSet(u \o v)
  <2>1. PICK j \in 1 .. Len(v) : x = v[j]
    BY <1>3, <1>5 DEF ToSet
  <2>2. j + Len(u) \in 1 .. Len(u) + Len(v) /\ ~(j + Len(u) <= Len(u))
        /\ (j + Len(u)) - Len(u) = j
    BY <1>3, SMT
  <2>3. (u \o v)[j + Len(u)] = x
    BY <1>2, <2>1, <2>2
  <2>4. QED
    BY <1>3, <2>2, <2>3 DEF ToSet
<1>6. ASSUME NEW x \in ToSet(u \o v) PROVE x \in ToSet(u) \cup ToSet(v)
  <2>1. PICK i \in 1 .. Len(u) + Len(v) : x = (u \o v)[i]
    BY <1>3, <1>6 DEF ToSet
  <2>2. CASE i <= Len(u)
    BY <1>2, <1>3, <2>1, <2>2 DEF ToSet
  <2>3. CASE ~(i <= Len(u))
    BY <1>2, <1>3, <2>1, <2>3 DEF ToSet
  <2>4. QED
    BY <2>2, <2>3
<1>7. QED
  BY <1>1, <1>4, <1>5, <1>6

(* The statements that create tables of the given names.                    *)
LEMMA CreateStatements ==
    ASSUME NEW names \in Seq(TableNames)
    PROVE  /\ Create(names) \in Seq(Ordinary)
           /\ \A t \in ToSet(names) : \E x \in ToSet(Create(names)) : Creates(x, t)
<1>1. DOMAIN names = 1 .. Len(names) /\ Len(names) \in Nat
      /\ \A i \in 1 .. Len(names) : names[i] \in TableNames
  BY LenProperties, ElementOfSeq
<1>2. ASSUME NEW t \in TableNames
      PROVE  [op |-> "create", name |-> t] \in Ordinary
  BY DEF Ordinary, StatementRecords, Ops, AddFunding, Words
<1>3. Create(names) \in [1 .. Len(names) -> Ordinary]
  BY <1>1, <1>2, Zenon DEF Create
<1>4. Create(names) \in Seq(Ordinary)
  BY <1>1, <1>3, SeqDef
<1>5. \A i \in 1 .. Len(names) : Creates(Create(names)[i], names[i])
  BY <1>1 DEF Create, Creates
<1>6. DOMAIN Create(names) = 1 .. Len(names)
  BY <1>1 DEF Create
<1>7. QED
  BY <1>1, <1>4, <1>5, <1>6, Zenon DEF ToSet

(* The statements that add columns of the given names.                      *)
LEMMA AddStatements ==
    ASSUME NEW names \in Seq(ColumnNames)
    PROVE  /\ FundingColumn \notin ToSet(names) => Add(names) \in Seq(Ordinary)
           /\ \A c \in ToSet(names) : \E x \in ToSet(Add(names)) : Adds(x, c)
<1>1. DOMAIN names = 1 .. Len(names) /\ Len(names) \in Nat
      /\ \A i \in 1 .. Len(names) : names[i] \in ColumnNames
  BY LenProperties, ElementOfSeq
<1>2. ASSUME NEW t \in ColumnNames, t # FundingColumn
      PROVE  [op |-> "add", name |-> t] \in Ordinary
  BY <1>2 DEF Ordinary, StatementRecords, Ops, AddFunding, Words
<1>3. ASSUME FundingColumn \notin ToSet(names)
      PROVE  Add(names) \in Seq(Ordinary)
  <2>1. \A i \in 1 .. Len(names) : names[i] # FundingColumn
    BY <1>1, <1>3, Zenon DEF ToSet
  <2>2. Add(names) \in [1 .. Len(names) -> Ordinary]
    BY <1>1, <1>2, <2>1, Zenon DEF Add
  <2>3. QED
    BY <1>1, <2>2, SeqDef
<1>4. \A i \in 1 .. Len(names) : Adds(Add(names)[i], names[i])
  BY <1>1 DEF Add, Adds
<1>5. DOMAIN Add(names) = 1 .. Len(names)
  BY <1>1 DEF Add
<1>6. QED
  BY <1>1, <1>3, <1>4, <1>5, Zenon DEF ToSet

(* A statement that is neither.                                             *)
LEMMA SingleStatement ==
    ASSUME NEW op \in Ops, op \notin {"create", "scale", "commit"}
    PROVE  Do(op) \in Seq(Ordinary)
<1>1. [op |-> op, name |-> "none"] \in Ordinary
  <2>1. [op |-> op, name |-> "none"] # AddFunding
    BY DEF AddFunding, FundingColumn
  <2>2. QED
    BY <2>1 DEF Ordinary, StatementRecords, Words
<1>2. QED
  BY <1>1 DEF Do

(* A list of names is a sequence of its names.                              *)
LEMMA Lists ==
    /\ AuthTables \in Seq(ToSet(AuthTables))
    /\ AccountTables \in Seq(ToSet(AccountTables))
    /\ MarketTables \in Seq(ToSet(MarketTables))
    /\ ExecutionTables \in Seq(ToSet(ExecutionTables))
    /\ SnapshotTables \in Seq(ToSet(SnapshotTables))
    /\ UserColumns \in Seq(ToSet(UserColumns))
    /\ AccountColumns \in Seq(ToSet(AccountColumns))
    /\ WorkerColumns \in Seq(ToSet(WorkerColumns))
    /\ TransferColumns \in Seq(ToSet(TransferColumns))
    /\ CapColumns \in Seq(ToSet(CapColumns))
    /\ FundingColumns \in Seq(ToSet(FundingColumns))
    /\ SpreadColumns \in Seq(ToSet(SpreadColumns))
    /\ ExecutionColumns \in Seq(ToSet(ExecutionColumns))
    /\ LegColumns \in Seq(ToSet(LegColumns))
    /\ FeeColumns \in Seq(ToSet(FeeColumns))
<1>1. AuthTables \in Seq(ToSet(AuthTables))
  BY SMT DEF AuthTables, ToSet
<1>2. AccountTables \in Seq(ToSet(AccountTables))
  BY SMT DEF AccountTables, ToSet
<1>3. MarketTables \in Seq(ToSet(MarketTables))
  BY SMT DEF MarketTables, ToSet
<1>4. ExecutionTables \in Seq(ToSet(ExecutionTables))
  BY SMT DEF ExecutionTables, ToSet
<1>5. SnapshotTables \in Seq(ToSet(SnapshotTables))
  BY SMT DEF SnapshotTables, ToSet
<1>6. UserColumns \in Seq(ToSet(UserColumns))
  BY SMT DEF UserColumns, ToSet
<1>7. AccountColumns \in Seq(ToSet(AccountColumns))
  BY SMT DEF AccountColumns, ToSet
<1>8. WorkerColumns \in Seq(ToSet(WorkerColumns))
  BY SMT DEF WorkerColumns, ToSet
<1>9. TransferColumns \in Seq(ToSet(TransferColumns))
  BY SMT DEF TransferColumns, ToSet
<1>10. CapColumns \in Seq(ToSet(CapColumns))
  BY SMT DEF CapColumns, ToSet
<1>11. FundingColumns \in Seq(ToSet(FundingColumns))
  BY SMT DEF FundingColumns, ToSet
<1>12. SpreadColumns \in Seq(ToSet(SpreadColumns))
  BY SMT DEF SpreadColumns, ToSet
<1>13. ExecutionColumns \in Seq(ToSet(ExecutionColumns))
  BY SMT DEF ExecutionColumns, ToSet
<1>14. LegColumns \in Seq(ToSet(LegColumns))
  BY SMT DEF LegColumns, ToSet
<1>15. FeeColumns \in Seq(ToSet(FeeColumns))
  BY SMT DEF FeeColumns, ToSet
<1>16. QED
  BY <1>1, <1>2, <1>3, <1>4, <1>5, <1>6, <1>7, <1>8, <1>9, <1>10, <1>11, <1>12, <1>13, <1>14, <1>15

(* All of them are names of the schema.                                     *)
LEMMA Names ==
    /\ AuthTables \in Seq(TableNames)
    /\ AccountTables \in Seq(TableNames)
    /\ MarketTables \in Seq(TableNames)
    /\ ExecutionTables \in Seq(TableNames)
    /\ SnapshotTables \in Seq(TableNames)
    /\ UserColumns \in Seq(ColumnNames)
    /\ AccountColumns \in Seq(ColumnNames)
    /\ WorkerColumns \in Seq(ColumnNames)
    /\ TransferColumns \in Seq(ColumnNames)
    /\ CapColumns \in Seq(ColumnNames)
    /\ FundingColumns \in Seq(ColumnNames)
    /\ SpreadColumns \in Seq(ColumnNames)
    /\ ExecutionColumns \in Seq(ColumnNames)
    /\ LegColumns \in Seq(ColumnNames)
    /\ FeeColumns \in Seq(ColumnNames)
<1>1. /\ ToSet(AuthTables) \subseteq TableNames
      /\ ToSet(AccountTables) \subseteq TableNames
      /\ ToSet(MarketTables) \subseteq TableNames
      /\ ToSet(ExecutionTables) \subseteq TableNames
      /\ ToSet(SnapshotTables) \subseteq TableNames
  BY DEF TableNames
<1>2. /\ ToSet(UserColumns) \subseteq ColumnNames /\ ToSet(AccountColumns) \subseteq ColumnNames
      /\ ToSet(WorkerColumns) \subseteq ColumnNames /\ ToSet(TransferColumns) \subseteq ColumnNames
      /\ ToSet(CapColumns) \subseteq ColumnNames /\ ToSet(FundingColumns) \subseteq ColumnNames
      /\ ToSet(SpreadColumns) \subseteq ColumnNames /\ ToSet(ExecutionColumns) \subseteq ColumnNames
      /\ ToSet(LegColumns) \subseteq ColumnNames /\ ToSet(FeeColumns) \subseteq ColumnNames
  BY DEF ColumnNames
<1>3. QED
  BY <1>1, <1>2, Lists, SeqMonotonic

(* The parts of the bootstrap.                                              *)
LEMMA Parts ==
    /\ Create(AuthTables) \in Seq(Ordinary)
    /\ Create(AccountTables) \in Seq(Ordinary)
    /\ Create(MarketTables) \in Seq(Ordinary)
    /\ Create(ExecutionTables) \in Seq(Ordinary)
    /\ Create(SnapshotTables) \in Seq(Ordinary)
    /\ Add(UserColumns) \in Seq(Ordinary)
    /\ Add(AccountColumns) \in Seq(Ordinary)
    /\ Add(WorkerColumns) \in Seq(Ordinary)
    /\ Add(TransferColumns) \in Seq(Ordinary)
    /\ Add(CapColumns) \in Seq(Ordinary)
    /\ Add(SpreadColumns) \in Seq(Ordinary)
    /\ Add(ExecutionColumns) \in Seq(Ordinary)
    /\ Add(LegColumns) \in Seq(Ordinary)
    /\ Add(FeeColumns) \in Seq(Ordinary)
    /\ Do("derive status") \in Seq(Ordinary) /\ Do("index") \in Seq(Ordinary)
    /\ Do("copy funding") \in Seq(Ordinary) /\ Do("copy spread") \in Seq(Ordinary)
    /\ Do("fill caps") \in Seq(Ordinary)
<1>1. FundingColumn \notin ToSet(UserColumns)
  BY DEF FundingColumn, ToSet, UserColumns
<1>2. FundingColumn \notin ToSet(AccountColumns)
  BY DEF FundingColumn, ToSet, AccountColumns
<1>3. FundingColumn \notin ToSet(WorkerColumns)
  BY DEF FundingColumn, ToSet, WorkerColumns
<1>4. FundingColumn \notin ToSet(TransferColumns)
  BY DEF FundingColumn, ToSet, TransferColumns
<1>5. FundingColumn \notin ToSet(CapColumns)
  BY DEF FundingColumn, ToSet, CapColumns
<1>6. FundingColumn \notin ToSet(SpreadColumns)
  BY DEF FundingColumn, ToSet, SpreadColumns
<1>7. FundingColumn \notin ToSet(ExecutionColumns)
  BY DEF FundingColumn, ToSet, ExecutionColumns
<1>8. FundingColumn \notin ToSet(LegColumns)
  BY DEF FundingColumn, ToSet, LegColumns
<1>9. FundingColumn \notin ToSet(FeeColumns)
  BY DEF FundingColumn, ToSet, FeeColumns
<1>10. QED
  BY <1>1, <1>2, <1>3, <1>4, <1>5, <1>6, <1>7, <1>8, <1>9, Names,
     CreateStatements, AddStatements, SingleStatement DEF Ops

(* An ordinary statement is one of its type.                                *)
LEMMA OrdinaryStatements ==
    ASSUME NEW u \in Seq(Ordinary)
    PROVE  u \in Seq(StatementRecords) /\ \A i \in 1 .. Len(u) : u[i] \in Ordinary
<1>1. Ordinary \subseteq StatementRecords
  BY DEF Ordinary
<1>2. QED
  BY <1>1, SeqMonotonic, ElementOfSeq

(* The beginning ends with the division, and goes on.                       *)
LEMMA Begins ==
    ASSUME NEW u \in Seq(Ordinary)
    PROVE  Divides(u \o Add(FundingColumns) \o Do("scale"), Len(u))
<1>1. Add(FundingColumns) = <<AddFunding>>
  BY DEF Add, FundingColumns, AddFunding, FundingColumn
<1>2. FundingColumn \in Words
  BY DEF Words, ColumnNames, ToSet, FundingColumns, FundingColumn
<1>3. AddFunding \in StatementRecords /\ [op |-> "scale", name |-> "none"] \in StatementRecords
  BY <1>2 DEF AddFunding, StatementRecords, Ops, Words
<1> DEFINE w == u \o <<AddFunding>>
           x == [op |-> "scale", name |-> "none"]
<1>4. u \in Seq(StatementRecords) /\ Len(u) \in Nat
      /\ \A i \in 1 .. Len(u) : u[i] \in Ordinary
  BY OrdinaryStatements, LenProperties
<1>5. /\ w \in Seq(StatementRecords) /\ Len(w) = Len(u) + 1
      /\ \A i \in 1 .. Len(u) + 1 : w[i] = IF i <= Len(u) THEN u[i] ELSE AddFunding
  BY <1>3, <1>4
<1> HIDE DEF w
<1>6. /\ w \o <<x>> \in Seq(StatementRecords) /\ Len(w \o <<x>>) = Len(u) + 2
      /\ \A i \in 1 .. Len(u) + 2 :
            (w \o <<x>>)[i] = IF i <= Len(u) + 1 THEN w[i] ELSE x
  BY <1>3, <1>4, <1>5
<1>7. Divides(w \o <<x>>, Len(u))
  BY <1>4, <1>5, <1>6 DEF Divides
<1>8. QED
  BY <1>1, <1>7 DEF w, x, Do

(* Ordinary statements after it change nothing.                             *)
LEMMA GoesOn ==
    ASSUME NEW u, NEW n, Divides(u, n), NEW v \in Seq(Ordinary)
    PROVE  Divides(u \o v, n)
<1>1. v \in Seq(StatementRecords) /\ \A i \in 1 .. Len(v) : v[i] \in Ordinary
  BY OrdinaryStatements
<1>2. u \in Seq(StatementRecords) /\ Len(u) \in Nat /\ Len(v) \in Nat
  BY <1>1, LenProperties DEF Divides
<1>3. /\ u \o v \in Seq(StatementRecords)
      /\ Len(u \o v) = Len(u) + Len(v)
      /\ \A i \in 1 .. Len(u) + Len(v) :
            (u \o v)[i] = IF i <= Len(u) THEN u[i] ELSE v[i - Len(u)]
  BY <1>1, <1>2, ConcatProperties
<1>4. QED
  BY <1>1, <1>2, <1>3 DEF Divides

(* All statements but the commit.                                           *)
AllButCommit ==
    Before \o Add(FundingColumns) \o Do("scale") \o Do("copy funding")
    \o Add(SpreadColumns) \o Do("copy spread") \o Add(ExecutionColumns)
    \o Do("index") \o Add(LegColumns) \o Add(FeeColumns) \o Do("fill caps")

(* They are divided where the funding column is added.                      *)
LEMMA Divided == Before \in Seq(Ordinary) /\ Divides(AllButCommit, Len(Before))
<1>1. \A u, v \in Seq(Ordinary) : u \o v \in Seq(Ordinary)
  BY ConcatProperties
<1>2. Before \in Seq(Ordinary)
  BY <1>1, Parts, Zenon DEF Before
<1>3. Divides(Before \o Add(FundingColumns) \o Do("scale"), Len(Before))
  BY <1>2, Begins
<1>4. QED
  BY <1>2, <1>3, Parts, GoesOn, Zenon DEF AllButCommit

(* The order the invariants rest on: the division follows the addition of   *)
(* the funding column at once, and the only commit of its kind is the last. *)
LEMMA Order ==
    /\ Statements \in Seq(StatementRecords) /\ Len(Statements) \in Nat
    /\ FundingAt \in 1 .. Len(Statements) /\ FundingAt + 1 \in 1 .. Len(Statements)
    /\ Statements[FundingAt] = AddFunding /\ Statements[FundingAt + 1].op = "scale"
    /\ \A i \in 1 .. Len(Statements) :
          /\ Statements[i] = AddFunding => i = FundingAt
          /\ Statements[i].op = "scale" => i = FundingAt + 1
          /\ Statements[i].op = "commit" <=> i = Len(Statements)
<1> DEFINE last == [op |-> "commit", name |-> "none"]
           n == Len(Before)
           m == Len(AllButCommit)
<1>1. last \in StatementRecords /\ last # AddFunding /\ last.op = "commit"
  BY DEF StatementRecords, Ops, Words, AddFunding
<1>2. Divides(AllButCommit, n)
  BY Divided
<1>3. Statements = AllButCommit \o <<last>>
  BY DEF Statements, AllButCommit, Before, Do
<1> HIDE DEF last, n
<1>4. AllButCommit \in Seq(StatementRecords) /\ m \in Nat /\ n \in Nat /\ n + 2 <= m
  BY <1>2, LenProperties DEF Divides
<1>5. /\ Statements \in Seq(StatementRecords) /\ Len(Statements) = m + 1
      /\ \A i \in 1 .. m + 1 : Statements[i] = IF i <= m THEN AllButCommit[i] ELSE last
  BY <1>1, <1>3, <1>4
<1> HIDE DEF m
<1>6. Statements[n + 1] = AddFunding /\ Statements[n + 2].op = "scale"
  BY <1>2, <1>4, <1>5 DEF Divides, m
<1>7. AddFunding.op = "add"
  BY DEF AddFunding
<1>8. \A i \in 1 .. m : i \notin {n + 1, n + 2} =>
          Statements[i] # AddFunding /\ Statements[i].op \notin {"scale", "commit"}
  BY <1>2, <1>4, <1>5 DEF Divides, Ordinary, m
<1>9. DOMAIN Statements = 1 .. m + 1
  BY <1>5, LenProperties
<1>10. \A i \in 1 .. m + 1 : Statements[i] = AddFunding <=> i = n + 1
  BY <1>1, <1>4, <1>5, <1>6, <1>7, <1>8
<1>11. FundingAt = n + 1
  <2>1. n + 1 \in DOMAIN Statements
    BY <1>4, <1>9
  <2>2. FundingAt \in DOMAIN Statements /\ Statements[FundingAt] = AddFunding
    BY <2>1, <1>6, Zenon DEF FundingAt
  <2>3. QED
    BY <2>2, <1>9, <1>10
<1>12. QED
  BY <1>1, <1>4, <1>5, <1>6, <1>7, <1>8, <1>10, <1>11

(* What is in a part is in the whole.                                       *)
LEMMA Whole ==
    /\ ToSet(Create(AuthTables)) \subseteq ToSet(Statements)
    /\ ToSet(Create(AccountTables)) \subseteq ToSet(Statements)
    /\ ToSet(Create(MarketTables)) \subseteq ToSet(Statements)
    /\ ToSet(Create(ExecutionTables)) \subseteq ToSet(Statements)
    /\ ToSet(Create(SnapshotTables)) \subseteq ToSet(Statements)
    /\ ToSet(Add(UserColumns)) \subseteq ToSet(Statements)
    /\ ToSet(Add(AccountColumns)) \subseteq ToSet(Statements)
    /\ ToSet(Add(WorkerColumns)) \subseteq ToSet(Statements)
    /\ ToSet(Add(TransferColumns)) \subseteq ToSet(Statements)
    /\ ToSet(Add(CapColumns)) \subseteq ToSet(Statements)
    /\ ToSet(Add(FundingColumns)) \subseteq ToSet(Statements)
    /\ ToSet(Add(SpreadColumns)) \subseteq ToSet(Statements)
    /\ ToSet(Add(ExecutionColumns)) \subseteq ToSet(Statements)
    /\ ToSet(Add(LegColumns)) \subseteq ToSet(Statements)
    /\ ToSet(Add(FeeColumns)) \subseteq ToSet(Statements)
<1>1. \A u : u \in Seq(Ordinary) => u \in Seq(StatementRecords)
  BY OrdinaryStatements
<1>2. \A u, v \in Seq(StatementRecords) : u \o v \in Seq(StatementRecords)
  BY ConcatProperties
<1>3. \A u, v \in Seq(StatementRecords) : \A x \in ToSet(u) \cup ToSet(v) : x \in ToSet(u \o v)
  BY Concatenated, Zenon
<1>4. /\ Add(FundingColumns) \in Seq(StatementRecords)
      /\ Do("scale") \in Seq(StatementRecords) /\ Do("commit") \in Seq(StatementRecords)
  <2>1. FundingColumn \in Words
    BY DEF Words, ColumnNames, ToSet, FundingColumns, FundingColumn
  <2>2. /\ AddFunding \in StatementRecords
        /\ [op |-> "scale", name |-> "none"] \in StatementRecords
        /\ [op |-> "commit", name |-> "none"] \in StatementRecords
    BY <2>1 DEF AddFunding, StatementRecords, Ops, Words
  <2>3. Add(FundingColumns) = <<AddFunding>>
    BY DEF Add, FundingColumns, AddFunding, FundingColumn
  <2>4. QED
    BY <2>2, <2>3 DEF Do
<1> DEFINE Early == Create(AuthTables) \o Create(AccountTables) \o Create(MarketTables)
                    \o Create(ExecutionTables) \o Create(SnapshotTables)
           Middle == Early \o Add(UserColumns) \o Add(AccountColumns)
                     \o Add(WorkerColumns) \o Add(TransferColumns)
                     \o Do("derive status") \o Do("index") \o Add(CapColumns)
           Late == Middle \o Add(FundingColumns) \o Do("scale") \o Do("copy funding")
                   \o Add(SpreadColumns) \o Do("copy spread") \o Add(ExecutionColumns)
<1>5. Early \in Seq(StatementRecords)
  BY <1>1, <1>2, Parts, Zenon
<1>6. \A x \in ToSet(Create(AuthTables)) \cup ToSet(Create(AccountTables))
             \cup ToSet(Create(MarketTables)) \cup ToSet(Create(ExecutionTables))
             \cup ToSet(Create(SnapshotTables)) : x \in ToSet(Early)
  BY <1>1, <1>2, <1>3, Parts, Zenon
<1>7. Statements = Late \o Do("index") \o Add(LegColumns) \o Add(FeeColumns)
                   \o Do("fill caps") \o Do("commit")
  BY DEF Statements
<1> HIDE DEF Early
<1>8. Middle \in Seq(StatementRecords)
  BY <1>1, <1>2, <1>5, Parts, Zenon
<1>9. \A x \in ToSet(Early) \cup ToSet(Add(UserColumns)) \cup ToSet(Add(AccountColumns))
             \cup ToSet(Add(WorkerColumns)) \cup ToSet(Add(TransferColumns))
             \cup ToSet(Add(CapColumns)) : x \in ToSet(Middle)
  BY <1>1, <1>2, <1>3, <1>5, Parts, Zenon
<1> HIDE DEF Middle
<1>10. Late \in Seq(StatementRecords)
  BY <1>1, <1>2, <1>4, <1>8, Parts, Zenon
<1>11. \A x \in ToSet(Middle) \cup ToSet(Add(FundingColumns)) \cup ToSet(Add(SpreadColumns))
              \cup ToSet(Add(ExecutionColumns)) : x \in ToSet(Late)
  BY <1>1, <1>2, <1>3, <1>4, <1>8, Parts, Zenon
<1> HIDE DEF Late
<1>12. \A x \in ToSet(Late) \cup ToSet(Add(LegColumns)) \cup ToSet(Add(FeeColumns)) :
          x \in ToSet(Statements)
  BY <1>1, <1>2, <1>3, <1>4, <1>7, <1>10, Parts, Zenon
<1>13. QED
  BY <1>6, <1>9, <1>11, <1>12

(* Every table and column of the schema has its statement.                  *)
LEMMA Complete ==
    /\ AllTables = TableNames /\ AllColumns = ColumnNames
    /\ \A t \in AllTables : \E i \in 1 .. Len(Statements) : Creates(Statements[i], t)
    /\ \A c \in AllColumns : \E i \in 1 .. Len(Statements) : Adds(Statements[i], c)
<1>1. \A u, v \in Seq(TableNames) : u \o v \in Seq(TableNames)
                                    /\ ToSet(u \o v) = ToSet(u) \cup ToSet(v)
  BY Concatenated
<1>2. \A u, v \in Seq(ColumnNames) : u \o v \in Seq(ColumnNames)
                                     /\ ToSet(u \o v) = ToSet(u) \cup ToSet(v)
  BY Concatenated
<1>3. AllTables = TableNames
  <2> DEFINE p2 == AuthTables \o AccountTables
  <2> DEFINE p3 == p2 \o MarketTables
  <2> DEFINE p4 == p3 \o ExecutionTables
  <2> DEFINE p5 == p4 \o SnapshotTables
  <2>1. p2 \in Seq(TableNames) /\ ToSet(p2) = ToSet(AuthTables) \cup ToSet(AccountTables)
    BY <1>1, Names, Zenon
  <2>2. p3 \in Seq(TableNames) /\ ToSet(p3) = ToSet(p2) \cup ToSet(MarketTables)
    BY <1>1, <2>1, Names, Zenon
  <2>3. p4 \in Seq(TableNames) /\ ToSet(p4) = ToSet(p3) \cup ToSet(ExecutionTables)
    BY <1>1, <2>2, Names, Zenon
  <2>4. p5 \in Seq(TableNames) /\ ToSet(p5) = ToSet(p4) \cup ToSet(SnapshotTables)
    BY <1>1, <2>3, Names, Zenon
  <2>5. QED
    BY <2>1, <2>2, <2>3, <2>4 DEF AllTables, TableNames
<1>4. AllColumns = ColumnNames
  <2> DEFINE p2 == UserColumns \o AccountColumns
  <2> DEFINE p3 == p2 \o WorkerColumns
  <2> DEFINE p4 == p3 \o TransferColumns
  <2> DEFINE p5 == p4 \o CapColumns
  <2> DEFINE p6 == p5 \o FundingColumns
  <2> DEFINE p7 == p6 \o SpreadColumns
  <2> DEFINE p8 == p7 \o ExecutionColumns
  <2> DEFINE p9 == p8 \o LegColumns
  <2> DEFINE p10 == p9 \o FeeColumns
  <2>1. p2 \in Seq(ColumnNames) /\ ToSet(p2) = ToSet(UserColumns) \cup ToSet(AccountColumns)
    BY <1>2, Names, Zenon
  <2>2. p3 \in Seq(ColumnNames) /\ ToSet(p3) = ToSet(p2) \cup ToSet(WorkerColumns)
    BY <1>2, <2>1, Names, Zenon
  <2>3. p4 \in Seq(ColumnNames) /\ ToSet(p4) = ToSet(p3) \cup ToSet(TransferColumns)
    BY <1>2, <2>2, Names, Zenon
  <2>4. p5 \in Seq(ColumnNames) /\ ToSet(p5) = ToSet(p4) \cup ToSet(CapColumns)
    BY <1>2, <2>3, Names, Zenon
  <2>5. p6 \in Seq(ColumnNames) /\ ToSet(p6) = ToSet(p5) \cup ToSet(FundingColumns)
    BY <1>2, <2>4, Names, Zenon
  <2>6. p7 \in Seq(ColumnNames) /\ ToSet(p7) = ToSet(p6) \cup ToSet(SpreadColumns)
    BY <1>2, <2>5, Names, Zenon
  <2>7. p8 \in Seq(ColumnNames) /\ ToSet(p8) = ToSet(p7) \cup ToSet(ExecutionColumns)
    BY <1>2, <2>6, Names, Zenon
  <2>8. p9 \in Seq(ColumnNames) /\ ToSet(p9) = ToSet(p8) \cup ToSet(LegColumns)
    BY <1>2, <2>7, Names, Zenon
  <2>9. p10 \in Seq(ColumnNames) /\ ToSet(p10) = ToSet(p9) \cup ToSet(FeeColumns)
    BY <1>2, <2>8, Names, Zenon
  <2>10. QED
    BY <2>1, <2>2, <2>3, <2>4, <2>5, <2>6, <2>7, <2>8, <2>9 DEF AllColumns, ColumnNames
<1>5. ASSUME NEW t \in AllTables
      PROVE  \E x \in ToSet(Statements) : Creates(x, t)
  BY <1>3, <1>5, Names, CreateStatements, Whole, Zenon DEF TableNames
<1>6. ASSUME NEW c \in AllColumns
      PROVE  \E x \in ToSet(Statements) : Adds(x, c)
  BY <1>4, <1>6, Names, AddStatements, Whole, Zenon DEF ColumnNames
<1>7. DOMAIN Statements = 1 .. Len(Statements)
  BY Order, LenProperties
<1>8. QED
  BY <1>3, <1>4, <1>5, <1>6, <1>7, Zenon DEF ToSet

-----------------------------------------------------------------------------
(* One process at a time moves.                                             *)

(* A process that moves, and nobody else.                                   *)
Moves(s, x) == server' = [server EXCEPT ![s] = x]

(* What a move does to the processes.                                       *)
LEMMA Moved ==
    ASSUME SchemaInv, NEW s \in Servers, NEW x \in ServerStates, Moves(s, x)
    PROVE  /\ server' \in [Servers -> ServerStates]
           /\ server'[s] = x
           /\ \A q \in Servers : q # s => server'[q] = server[q]
  BY DEF SchemaInv, SchemaTypes, Moves

(* The state of a process has its fields.                                   *)
LEMMA ServerFields ==
    ASSUME SchemaInv, NEW s \in Servers
    PROVE  /\ server[s].pc \in {"down", "wait", "boot", "ready"}
           /\ server[s].at \in 1 .. Len(Statements) /\ server[s].added \in BOOLEAN
           /\ server[s] = [pc |-> server[s].pc, at |-> server[s].at,
                           added |-> server[s].added]
           /\ server[s] \in ServerStates
<1>1. server[s] \in ServerStates
  BY DEF SchemaInv, SchemaTypes
<1>2. QED
  BY <1>1 DEF ServerStates

(* A state of a process, field by field.                                    *)
LEMMA ServerState ==
    ASSUME NEW p \in {"down", "wait", "boot", "ready"}, NEW n \in 1 .. Len(Statements),
           NEW b \in BOOLEAN
    PROVE  [pc |-> p, at |-> n, added |-> b] \in ServerStates
  BY DEF ServerStates

(* Where a process without a bootstrap is.                                  *)
LEMMA DownState ==
    /\ Down = [pc |-> "down", at |-> 1, added |-> FALSE]
    /\ \A p \in {"down", "wait", "boot", "ready"} :
          [Down EXCEPT !.pc = p] = [pc |-> p, at |-> 1, added |-> FALSE]
    /\ 1 \in 1 .. Len(Statements)
<1>1. 1 \in 1 .. Len(Statements)
  BY Order
<1>2. Down = [pc |-> "down", at |-> 1, added |-> FALSE]
  BY DEF Down
<1>3. ASSUME NEW p PROVE [Down EXCEPT !.pc = p] = [pc |-> p, at |-> 1, added |-> FALSE]
  <2>1. PICK b \in BOOLEAN : b = FALSE
    OBVIOUS
  <2>2. Down = [pc |-> "down", at |-> 1, added |-> b]
    BY <2>1, Zenon DEF Down
  <2>3. [Down EXCEPT !.pc = p] = [pc |-> p, at |-> 1, added |-> b]
    BY <2>2
  <2>4. QED
    BY <2>1, <2>3, Zenon
<1>4. QED
  BY <1>1, <1>2, <1>3, Zenon

(* A process goes on: its place changes, and whether it has added.          *)
LEMMA BothChanged ==
    ASSUME SchemaInv, NEW s \in Servers, NEW x, NEW y \in BOOLEAN,
           server' = [server EXCEPT ![s].at = x, ![s].added = y]
    PROVE  Moves(s, [pc |-> server[s].pc, at |-> x, added |-> y])
<1>0. PICK b \in BOOLEAN : b = server[s].added
  BY ServerFields
<1>1. PICK r, v : r = server[s] /\ v = [r EXCEPT !.at = x]
  OBVIOUS
<1>2. r = [pc |-> r.pc, at |-> r.at, added |-> b]
  BY <1>0, <1>1, ServerFields
<1>3. v = [pc |-> r.pc, at |-> x, added |-> b]
  BY <1>1, <1>2
<1>4. [v EXCEPT !.added = y] = [pc |-> r.pc, at |-> x, added |-> y]
  BY <1>3
<1>5. [server EXCEPT ![s].at = x, ![s].added = y]
      = [server EXCEPT ![s] = [[server[s] EXCEPT !.at = x] EXCEPT !.added = y]]
  BY Zenon
<1>6. QED
  BY <1>1, <1>4, <1>5, Zenon DEF Moves

(* Positions are numbers.                                                   *)
LEMMA Positions ==
    ASSUME SchemaInv, NEW s \in Servers
    PROVE  server[s].at \in Nat /\ server[s].at >= 1 /\ FundingAt \in Nat /\ FundingAt >= 1
<1>1. \A l \in Nat : \A n \in 1 .. l : n \in Nat /\ n >= 1
  OBVIOUS
<1>2. server[s].at \in 1 .. Len(Statements)
  BY ServerFields
<1>3. Len(Statements) \in Nat /\ FundingAt \in 1 .. Len(Statements)
  BY Order
<1>4. QED
  BY <1>1, <1>2, <1>3

(* Only the holder of the lock is in its bootstrap, and only it has added.  *)
LEMMA Alone ==
    ASSUME SchemaInv, NEW s \in Servers, server[s].pc = "boot"
    PROVE  /\ lockedBy = s
           /\ \A q \in Servers : q # s => server[q].pc # "boot" /\ ~server[q].added
  BY DEF SchemaInv, OneBootstrap, AddedFirst

(* Nobody has added while nobody holds the lock.                            *)
LEMMA NobodyAdded ==
    ASSUME SchemaInv, lockedBy \notin Servers
    PROVE  \A q \in Servers : server[q].pc # "boot" /\ ~server[q].added
  BY DEF SchemaInv, OneBootstrap, AddedFirst

(* The statement a bootstrap is at.                                         *)
LEMMA AtStatement ==
    ASSUME SchemaInv, NEW s \in Servers, server[s].pc = "boot"
    PROVE  /\ server[s].at \in 1 .. Len(Statements)
           /\ Statement(s) \in StatementRecords
           /\ Statement(s).op # "commit" => server[s].at + 1 \in 1 .. Len(Statements)
           /\ Statement(s) = AddFunding <=> server[s].at = FundingAt
           /\ Statement(s).op = "scale" <=> server[s].at = FundingAt + 1
           /\ Statement(s).op = "commit" <=> server[s].at = Len(Statements)
           /\ Statement(s).op = "create" => Statement(s).name \in AllTables
<1>1. server[s].at \in 1 .. Len(Statements)
  BY ServerFields
<1>2. Statement(s) \in StatementRecords
  BY <1>1, Order, ElementOfSeq DEF Statement
<1>3. Statement(s).op = "create" => Statement(s).name \in AllTables
  BY <1>2, Complete DEF StatementRecords
<1>4. QED
  BY <1>1, <1>2, <1>3, Order DEF Statement

(* The funding column is the only one of its list.                          *)
LEMMA FundingList == ToSet(FundingColumns) = {FundingColumn} /\ FundingColumn \in AllColumns
<1>1. ToSet(FundingColumns) = {FundingColumn}
  BY DEF ToSet, FundingColumns, FundingColumn
<1>2. QED
  BY <1>1, Complete DEF ColumnNames

-----------------------------------------------------------------------------
(* Initially.                                                               *)

(* The database an older version left satisfies the invariant.              *)
LEMMA SchemaInitially == SchemaInit => SchemaInv
<1> SUFFICES ASSUME SchemaInit PROVE SchemaInv
  OBVIOUS
<1>1. PICK z \in SchemaScenes :
          /\ tables = z.tables /\ missing = z.missing
          /\ rule = z.rule /\ row = z.row /\ chances = z.chances
  BY DEF SchemaInit
<1>2. /\ tables \subseteq AllTables /\ missing \subseteq AllColumns
      /\ rule \in [RuleIds -> RuleRows] /\ DOMAIN row = RecordIds
  BY <1>1, SchemaAssumption
<1>3. /\ committed = [rule |-> rule, row |-> row]
      /\ server = [q \in Servers |-> Down] /\ lockedBy = "nobody"
      /\ torn = FALSE /\ authored = {}
  BY DEF SchemaInit
<1>4. \A q \in Servers : server[q] = [pc |-> "down", at |-> 1, added |-> FALSE]
  BY <1>3, DownState
<1>5. server \in [Servers -> ServerStates]
  <2>1. Down \in ServerStates
    BY DownState, ServerState
  <2>2. QED
    BY <1>3, <2>1
<1>6. \A r \in RuleIds : rule[r] \in RuleRows
  BY <1>2
<1>7. \A r \in RuleIds : rule[r].open \in Nat /\ 0 \in Nat
  BY <1>6 DEF RuleRows
<1>8. \A r \in RuleIds : yearly[r] = IF rule[r].kind = "funding" /\ FundingColumn \in missing
                                     THEN rule[r].open ELSE 0
  BY FundingList DEF SchemaInit
<1>9. yearly \in [RuleIds -> Nat]
  BY <1>7, FundingList DEF SchemaInit
<1>10. SchemaTypes
  BY <1>2, <1>3, <1>5, <1>9 DEF SchemaTypes
<1>11. OneBootstrap /\ BootstrapsProgress /\ ServedCompletes /\ AddedFirst
  BY <1>3, <1>4, NobodyServes DEF OneBootstrap, BootstrapsProgress, ServedCompletes, AddedFirst
<1>12. AuthoredStays
  BY <1>3 DEF AuthoredStays
<1>13. ThresholdsDivided
  BY <1>3, <1>8 DEF ThresholdsDivided, YearlyDivided
<1>14. QED
  BY <1>10, <1>11, <1>12, <1>13 DEF SchemaInv

-----------------------------------------------------------------------------
(* A statement of a bootstrap.                                              *)

(* The move to the next statement, as its record.                           *)
LEMMA NextState ==
    ASSUME SchemaInv, NEW s \in Servers, server[s].pc = "boot",
           Statement(s).op # "commit", NEW b \in BOOLEAN
    PROVE  [pc |-> "boot", at |-> server[s].at + 1, added |-> b] \in ServerStates
  BY AtStatement, ServerState

(* Going on to the next statement is such a move.                           *)
LEMMA OnToMoves ==
    ASSUME SchemaInv, NEW s \in Servers, server[s].pc = "boot", OnTo(s)
    PROVE  Moves(s, [pc |-> "boot", at |-> server[s].at + 1, added |-> server[s].added])
<1>1. \A r : r = [pc |-> "boot", at |-> r.at, added |-> r.added] =>
          [r EXCEPT !.at = @ + 1] = [pc |-> "boot", at |-> r.at + 1, added |-> r.added]
  OBVIOUS
<1>2. server[s] = [pc |-> "boot", at |-> server[s].at, added |-> server[s].added]
  BY ServerFields
<1>3. server' = [server EXCEPT ![s] = [server[s] EXCEPT !.at = @ + 1]]
  BY DEF OnTo
<1>4. QED
  BY <1>1, <1>2, <1>3, Zenon DEF Moves

(* A statement that is done leaves the bootstrap where it should be.        *)
LEMMA StatementDone ==
    ASSUME SchemaInv, NEW s \in Servers, server[s].pc = "boot",
           Statement(s).op # "commit", NEW b \in BOOLEAN,
           Moves(s, [pc |-> "boot", at |-> server[s].at + 1, added |-> b]),
           b => server[s].added \/ (Statement(s) = AddFunding /\ missing # {}),
           UNCHANGED <<lockedBy, authored>>,
           tables \subseteq tables', tables' \subseteq AllTables, missing' \subseteq missing,
           Statement(s).op = "create" => Statement(s).name \in tables',
           Statement(s).op = "add" => Statement(s).name \notin missing'
    PROVE  /\ server' \in [Servers -> ServerStates]
           /\ OneBootstrap' /\ BootstrapsProgress' /\ ServedCompletes' /\ AddedFirst'
<1> DEFINE x == [pc |-> "boot", at |-> server[s].at + 1, added |-> b]
<1>1. x \in ServerStates /\ x.pc = "boot" /\ x.at = server[s].at + 1 /\ x.added = b
  BY NextState
<1> HIDE DEF x
<1>2. /\ server' \in [Servers -> ServerStates]
      /\ server'[s] = x
      /\ \A q \in Servers : q # s => server'[q] = server[q]
  BY <1>1, Moved DEF x
<1>3. OneBootstrap'
  BY <1>1, <1>2 DEF SchemaInv, OneBootstrap
<1>4. ASSUME NEW n \in 1 .. Len(Statements), Done(n) PROVE Done(n)'
  BY <1>4 DEF Done
<1>5. ASSUME NEW n \in Nat, n = server[s].at, Done(n) PROVE Done(n + 1)'
  <2>1. \A i \in 1 .. (n + 1) - 1 : i \in 1 .. n - 1 \/ i = n
    OBVIOUS
  <2>2. Statements[n] = Statement(s)
    BY <1>5 DEF Statement
  <2>3. QED
    BY <1>5, <2>1, <2>2 DEF Done
<1>6. BootstrapsProgress'
  <2>0. ASSUME NEW q \in Servers, server'[q].pc # "boot" PROVE server'[q].at = 1
    BY <1>1, <1>2, <2>0 DEF SchemaInv, BootstrapsProgress
  <2> SUFFICES ASSUME NEW q \in Servers, server'[q].pc = "boot"
               PROVE  Done(server[q].at)'
    BY <2>0 DEF BootstrapsProgress
  <2>1. CASE q = s
    <3>1. PICK n \in Nat : n = server[s].at /\ Done(n)
      BY Positions DEF SchemaInv, BootstrapsProgress
    <3>2. Done(n + 1)'
      BY <1>5, <3>1
    <3>3. server'[q].at = n + 1
      BY <1>1, <1>2, <2>1, <3>1
    <3>4. QED
      BY <3>2, <3>3 DEF Done
  <2>2. CASE q # s
    BY <1>2, <2>2, Alone
  <2>3. QED
    BY <2>1, <2>2
<1>7. SchemaComplete => SchemaComplete'
  BY DEF SchemaComplete
<1>8. ServedCompletes'
  BY <1>1, <1>2, <1>7 DEF SchemaInv, ServedCompletes
<1>9. b => server[s].at >= FundingAt /\ authored = {}
           /\ \A q \in Servers : server[q].pc # "ready"
  BY AtStatement, Order, ServerFields DEF SchemaInv, AddedFirst, ServedCompletes, SchemaComplete
<1>10. AddedFirst'
  <2> SUFFICES ASSUME NEW q \in Servers, server'[q].added
               PROVE  /\ server'[q].pc = "boot" /\ server'[q].at > FundingAt
                      /\ authored' = {}
                      /\ \A p \in Servers : server'[p].pc # "ready"
    BY DEF AddedFirst
  <2>1. q = s /\ b
    BY <1>1, <1>2, Alone
  <2>2. server[s].at \in Nat /\ FundingAt \in Nat
    BY Positions
  <2>3. QED
    BY <1>1, <1>2, <1>9, <2>1, <2>2
<1>11. QED
  BY <1>2, <1>3, <1>6, <1>8, <1>10

(* A bootstrap is dividing just when it is at the division and has added.   *)
LEMMA WhenDividing ==
    ASSUME SchemaInv, NEW s \in Servers, server[s].pc = "boot"
    PROVE  /\ Dividing <=> server[s].added /\ Statement(s).op = "scale"
           /\ DividedUncommitted <=> /\ server[s].added /\ server[s].at > FundingAt + 1
                                     /\ "division" \in unsettled
  BY Alone, AtStatement DEF Dividing, DividedUncommitted

(* The same, after a step to the next statement.                            *)
LEMMA WhenDividingNext ==
    ASSUME SchemaInv, NEW s \in Servers, server[s].pc = "boot",
           Statement(s).op # "commit", NEW b \in BOOLEAN,
           Moves(s, [pc |-> "boot", at |-> server[s].at + 1, added |-> b])
    PROVE  /\ Dividing' <=> b /\ Statement(s) = AddFunding
           /\ DividedUncommitted' <=> /\ b /\ server[s].at >= FundingAt + 1
                                      /\ "division" \in unsettled'
<1> DEFINE x == [pc |-> "boot", at |-> server[s].at + 1, added |-> b]
<1>1. x \in ServerStates /\ x.at = server[s].at + 1 /\ x.added = b
  BY NextState
<1> HIDE DEF x
<1>2. server'[s] = x /\ \A q \in Servers : q # s => server'[q] = server[q]
  BY <1>1, Moved DEF x
<1>3. \A q \in Servers : q # s => ~server'[q].added
  BY <1>2, Alone
<1>4. server[s].at \in Nat /\ FundingAt \in Nat
  BY Positions
<1>5. Dividing' <=> b /\ server[s].at + 1 = FundingAt + 1
  BY <1>1, <1>2, <1>3 DEF Dividing
<1>6. DividedUncommitted' <=> /\ b /\ server[s].at + 1 > FundingAt + 1
                              /\ "division" \in unsettled'
  BY <1>1, <1>2, <1>3 DEF DividedUncommitted
<1>7. QED
  BY <1>4, <1>5, <1>6, AtStatement

-----------------------------------------------------------------------------
(* What the statements do to the rows.                                      *)

(* Whether an old threshold has been divided does not change when no opening *)
(* threshold does, or when all that changes is that it is committed.        *)
LEMMA RowsStand ==
    ASSUME SchemaInv, UNCHANGED <<yearly, torn>>,
           \A r \in RuleIds : rule'[r].open = rule[r].open /\ rule'[r].kind = rule[r].kind,
           \/ committed'.rule = committed.rule
              /\ (DividedUncommitted => DividedUncommitted')
           \/ committed'.rule = rule,
           FundingColumn \in missing' <=> FundingColumn \in missing,
           Dividing' <=> Dividing
    PROVE  ThresholdsDivided'
  BY DEF SchemaInv, ThresholdsDivided, YearlyDivided, HasDivided

(* A step that leaves the rows of this version alone.                       *)
LEMMA AuthoredStand ==
    ASSUME SchemaInv, UNCHANGED authored,
           \A r \in RuleIds \cap authored :
              rule'[r] = rule[r] /\ committed'.rule[r] \in {committed.rule[r], rule[r]},
           \A i \in RecordIds \cap authored :
              row'[i] = row[i] /\ committed'.row[i] \in {committed.row[i], row[i]}
    PROVE  AuthoredStays'
<1>1. \A r \in RuleIds \cap authored : rule'[r].close > 0 /\ rule'[r].cap > 0
                                       /\ committed'.rule[r] = rule'[r]
  BY DEF SchemaInv, AuthoredStays
<1>2. \A i \in RecordIds \cap authored : Derived(row'[i]) = row'[i]
                                         /\ committed'.row[i] = row'[i]
  BY DEF SchemaInv, AuthoredStays
<1>3. QED
  BY <1>1, <1>2 DEF AuthoredStays, Derived

(* A commit leaves the rows what they are.                                  *)
LEMMA CommitTypes ==
    ASSUME SchemaInv, Commits
    PROVE  /\ committed'.rule = rule /\ committed'.row = row
           /\ UNCHANGED <<rule, row>> /\ unsettled' = {}
           /\ committed' = [rule |-> committed'.rule, row |-> committed'.row]
  BY DEF Commits

(* CREATE TABLE.                                                            *)
LEMMA CreateTableKeeps ==
    ASSUME SchemaInv, NEW s \in Servers, CreateTable(s)
    PROVE  SchemaInv'
<1>1. /\ server[s].pc = "boot" /\ Statement(s).op = "create"
      /\ tables' = tables \cup {Statement(s).name} /\ Commits /\ OnTo(s)
      /\ UNCHANGED <<missing, lockedBy, yearly, torn, authored>>
  BY DEF CreateTable, At, past
<1>2. Statement(s) # AddFunding /\ server[s].added \in BOOLEAN /\ tables \subseteq AllTables
      /\ Statement(s).name \in AllTables
  BY <1>1, ServerFields, AtStatement DEF AddFunding, SchemaInv, SchemaTypes
<1>3. Moves(s, [pc |-> "boot", at |-> server[s].at + 1, added |-> server[s].added])
  BY <1>1, OnToMoves
<1>4. /\ server' \in [Servers -> ServerStates]
      /\ OneBootstrap' /\ BootstrapsProgress' /\ ServedCompletes' /\ AddedFirst'
  BY <1>1, <1>2, <1>3, StatementDone
<1>5. ~Dividing /\ ~Dividing'
  BY <1>1, <1>2, <1>3, WhenDividing, WhenDividingNext
<1>6. ThresholdsDivided'
  BY <1>1, <1>5, CommitTypes, RowsStand
<1>7. AuthoredStays'
  BY <1>1, CommitTypes, AuthoredStand
<1>8. SchemaTypes'
  BY <1>1, <1>2, <1>4, CommitTypes DEF SchemaInv, SchemaTypes
<1>9. QED
  BY <1>4, <1>6, <1>7, <1>8 DEF SchemaInv

(* DROP or ADD KEY.                                                         *)
LEMMA IndexKeeps ==
    ASSUME SchemaInv, NEW s \in Servers, Index(s)
    PROVE  SchemaInv'
<1>1. /\ server[s].pc = "boot" /\ Statement(s).op = "index"
      /\ Commits /\ OnTo(s)
      /\ UNCHANGED <<tables, missing, lockedBy, yearly, torn, authored>>
  BY DEF Index, At, past
<1>2. Statement(s) # AddFunding /\ server[s].added \in BOOLEAN /\ tables \subseteq AllTables
  BY <1>1, ServerFields DEF AddFunding, SchemaInv, SchemaTypes
<1>3. Moves(s, [pc |-> "boot", at |-> server[s].at + 1, added |-> server[s].added])
  BY <1>1, OnToMoves
<1>4. /\ server' \in [Servers -> ServerStates]
      /\ OneBootstrap' /\ BootstrapsProgress' /\ ServedCompletes' /\ AddedFirst'
  BY <1>1, <1>2, <1>3, StatementDone
<1>5. ~Dividing /\ ~Dividing'
  BY <1>1, <1>2, <1>3, WhenDividing, WhenDividingNext
<1>6. ThresholdsDivided'
  BY <1>1, <1>5, CommitTypes, RowsStand
<1>7. AuthoredStays'
  BY <1>1, CommitTypes, AuthoredStand
<1>8. SchemaTypes'
  BY <1>1, <1>2, <1>4, CommitTypes DEF SchemaInv, SchemaTypes
<1>9. QED
  BY <1>4, <1>6, <1>7, <1>8 DEF SchemaInv

(* ADD COLUMN, for any column but the funding column.                       *)
LEMMA AddOtherKeeps ==
    ASSUME SchemaInv, NEW s \in Servers, AddColumn(s), Statement(s) # AddFunding
    PROVE  SchemaInv'
<1>1. /\ server[s].pc = "boot" /\ Statement(s).op = "add"
      /\ missing' = missing \ {Statement(s).name}
      /\ \/ Commits
         \/ UNCHANGED <<rule, row, committed, unsettled>>
      /\ UNCHANGED <<tables, lockedBy, yearly, torn, authored>>
  BY DEF AddColumn, At, past, rows
<1>2. Statement(s).name # FundingColumn
  <2>1. \A x \in StatementRecords : x = [op |-> x.op, name |-> x.name]
    BY DEF StatementRecords
  <2>2. QED
    BY <1>1, <2>1, AtStatement DEF AddFunding
<1>3. Moves(s, [pc |-> "boot", at |-> server[s].at + 1, added |-> server[s].added])
  <2>1. server' = [server EXCEPT ![s].at = @ + 1,
                     ![s].added = @ \/ Statement(s).name \in missing \cap ToSet(FundingColumns)]
    BY DEF AddColumn
  <2>2. server[s] = [pc |-> "boot", at |-> server[s].at, added |-> server[s].added]
        /\ server[s].added \in BOOLEAN
    BY <1>1, ServerFields
  <2>3. Statement(s).name \notin missing \cap ToSet(FundingColumns)
    BY <1>2, FundingList
  <2>4. (server[s].added \/ Statement(s).name \in missing \cap ToSet(FundingColumns))
        = server[s].added
    BY <2>2, <2>3
  <2>5. server' = [server EXCEPT ![s].at = server[s].at + 1, ![s].added = server[s].added]
    BY <2>1, <2>4, Zenon
  <2>6. QED
    BY <1>1, <2>2, <2>5, BothChanged
<1>4. server[s].added \in BOOLEAN /\ tables \subseteq AllTables /\ missing \subseteq AllColumns
  BY <1>1, ServerFields DEF SchemaInv, SchemaTypes
<1>5. /\ server' \in [Servers -> ServerStates]
      /\ OneBootstrap' /\ BootstrapsProgress' /\ ServedCompletes' /\ AddedFirst'
  BY <1>1, <1>3, <1>4, StatementDone
<1>6. ~Dividing /\ ~Dividing'
  BY <1>1, <1>3, <1>4, WhenDividing, WhenDividingNext
<1>7. CASE Commits
  <2>1. ThresholdsDivided'
    BY <1>1, <1>2, <1>6, <1>7, CommitTypes, RowsStand
  <2>2. AuthoredStays'
    BY <1>1, <1>7, CommitTypes, AuthoredStand
  <2>3. SchemaTypes'
    BY <1>1, <1>4, <1>5, <1>7, CommitTypes DEF SchemaInv, SchemaTypes
  <2>4. QED
    BY <1>5, <2>1, <2>2, <2>3 DEF SchemaInv
<1>8. CASE UNCHANGED <<rule, row, committed, unsettled>>
  <2>1. DividedUncommitted => DividedUncommitted'
    BY <1>1, <1>3, <1>4, <1>8, Positions, WhenDividing, WhenDividingNext
  <2>2. ThresholdsDivided'
    BY <1>1, <1>2, <1>6, <1>8, <2>1, RowsStand
  <2>3. AuthoredStays'
    BY <1>1, <1>8, AuthoredStand
  <2>4. SchemaTypes'
    BY <1>1, <1>4, <1>5, <1>8 DEF SchemaInv, SchemaTypes
  <2>5. QED
    BY <1>5, <2>2, <2>3, <2>4 DEF SchemaInv
<1>9. QED
  BY <1>1, <1>7, <1>8

(* ADD COLUMN, for the funding column: nothing serves, and if the column is *)
(* new the thresholds are still those of the older version.                 *)
LEMMA AddFundingKeeps ==
    ASSUME SchemaInv, NEW s \in Servers, AddColumn(s), Statement(s) = AddFunding
    PROVE  SchemaInv'
<1>0. PICK b \in BOOLEAN : b = (server[s].added \/ FundingColumn \in missing)
  BY ServerFields
<1>1. /\ server[s].pc = "boot" /\ Statement(s).op = "add"
      /\ Statement(s).name = FundingColumn
      /\ missing' = missing \ {FundingColumn}
      /\ FundingColumn \in missing => Commits
      /\ FundingColumn \notin missing => UNCHANGED <<rule, row, committed, unsettled>>
      /\ UNCHANGED <<tables, lockedBy, yearly, torn, authored>>
  BY DEF AddColumn, At, past, rows, AddFunding
<1>2. server[s].added \in BOOLEAN /\ tables \subseteq AllTables /\ missing \subseteq AllColumns
      /\ ~server[s].added
  BY <1>1, ServerFields, AtStatement, Positions DEF SchemaInv, SchemaTypes, AddedFirst
<1>3. Moves(s, [pc |-> "boot", at |-> server[s].at + 1, added |-> b])
  <2>1. server' = [server EXCEPT ![s].at = @ + 1,
                     ![s].added = @ \/ Statement(s).name \in missing \cap ToSet(FundingColumns)]
    BY DEF AddColumn
  <2>2. server[s] = [pc |-> "boot", at |-> server[s].at, added |-> server[s].added]
    BY <1>1, ServerFields
  <2>3. Statement(s).name \in missing \cap ToSet(FundingColumns) <=> FundingColumn \in missing
    BY <1>1, FundingList
  <2>4. (server[s].added \/ Statement(s).name \in missing \cap ToSet(FundingColumns)) = b
    BY <1>0, <1>2, <2>3
  <2>5. server' = [server EXCEPT ![s].at = server[s].at + 1, ![s].added = b]
    BY <2>1, <2>4, Zenon
  <2>6. QED
    BY <1>1, <2>5, BothChanged
<1>4. b <=> FundingColumn \in missing
  BY <1>0, <1>2
<1>5. /\ server' \in [Servers -> ServerStates]
      /\ OneBootstrap' /\ BootstrapsProgress' /\ ServedCompletes' /\ AddedFirst'
  <2>1. b => missing # {}
    BY <1>4
  <2>2. QED
    BY <1>1, <1>2, <1>3, <2>1, StatementDone DEF AddFunding
<1>6. ~Dividing /\ (Dividing' <=> FundingColumn \in missing) /\ ~DividedUncommitted
  BY <1>1, <1>2, <1>3, <1>4, WhenDividing, WhenDividingNext
<1>7. CASE FundingColumn \in missing
  <2>1. ThresholdsDivided'
    BY <1>1, <1>6, <1>7, CommitTypes
       DEF SchemaInv, ThresholdsDivided, YearlyDivided
  <2>2. AuthoredStays'
    BY <1>1, <1>7, CommitTypes, AuthoredStand
  <2>3. SchemaTypes'
    BY <1>1, <1>2, <1>5, <1>7, CommitTypes DEF SchemaInv, SchemaTypes
  <2>4. QED
    BY <1>5, <2>1, <2>2, <2>3 DEF SchemaInv
<1>8. CASE FundingColumn \notin missing
  <2>1. ThresholdsDivided'
    BY <1>1, <1>6, <1>8, RowsStand
  <2>2. AuthoredStays'
    BY <1>1, <1>8, AuthoredStand
  <2>3. SchemaTypes'
    BY <1>1, <1>2, <1>5, <1>8 DEF SchemaInv, SchemaTypes
  <2>4. QED
    BY <1>5, <2>1, <2>2, <2>3 DEF SchemaInv
<1>9. QED
  BY <1>7, <1>8

(* A statement that neither creates nor adds, nor divides.                  *)
LEMMA OrdinaryStep ==
    ASSUME SchemaInv, NEW s \in Servers, server[s].pc = "boot", OnTo(s),
           Statement(s).op \notin {"create", "add", "scale", "commit"},
           UNCHANGED <<tables, missing, lockedBy, yearly, torn, authored>>
    PROVE  /\ server' \in [Servers -> ServerStates]
           /\ OneBootstrap' /\ BootstrapsProgress' /\ ServedCompletes' /\ AddedFirst'
           /\ tables' \subseteq AllTables /\ missing' \subseteq AllColumns
           /\ ~Dividing /\ ~Dividing'
           /\ unsettled \subseteq unsettled' => (DividedUncommitted => DividedUncommitted')
<1>1. Statement(s) # AddFunding /\ server[s].added \in BOOLEAN
      /\ tables \subseteq AllTables /\ missing \subseteq AllColumns
  BY ServerFields DEF AddFunding, SchemaInv, SchemaTypes
<1>2. Moves(s, [pc |-> "boot", at |-> server[s].at + 1, added |-> server[s].added])
  BY OnToMoves
<1>3. /\ server' \in [Servers -> ServerStates]
      /\ OneBootstrap' /\ BootstrapsProgress' /\ ServedCompletes' /\ AddedFirst'
  BY <1>1, <1>2, StatementDone
<1>4. ~Dividing /\ ~Dividing'
  BY <1>1, <1>2, WhenDividing, WhenDividingNext
<1>5. ASSUME unsettled \subseteq unsettled', DividedUncommitted PROVE DividedUncommitted'
  BY <1>1, <1>2, <1>5, Positions, WhenDividing, WhenDividingNext
<1>6. QED
  BY <1>1, <1>3, <1>4, <1>5

(* The statuses of the records.                                             *)
LEMMA DeriveStatusKeeps ==
    ASSUME SchemaInv, NEW s \in Servers, DeriveStatus(s)
    PROVE  SchemaInv'
<1>1. /\ server[s].pc = "boot" /\ Statement(s).op = "derive status"
      /\ row' = [i \in RecordIds |-> Derived(row[i])] /\ OnTo(s)
      /\ unsettled \subseteq unsettled'
      /\ UNCHANGED <<tables, missing, rule, lockedBy, yearly, torn, authored, committed>>
  BY DEF DeriveStatus, At, past, Writes
<1>2. /\ server' \in [Servers -> ServerStates]
      /\ OneBootstrap' /\ BootstrapsProgress' /\ ServedCompletes' /\ AddedFirst'
      /\ ~Dividing /\ ~Dividing' /\ (DividedUncommitted => DividedUncommitted')
      /\ tables' \subseteq AllTables /\ missing' \subseteq AllColumns
  BY <1>1, OrdinaryStep
<1>3. ThresholdsDivided'
  BY <1>1, <1>2, RowsStand
<1>4. AuthoredStays'
  <2>1. \A i \in RecordIds \cap authored : row'[i] = row[i]
    BY <1>1, Zenon DEF SchemaInv, AuthoredStays
  <2>2. QED
    BY <1>1, <2>1, AuthoredStand
<1>5. SchemaTypes'
  BY <1>1, <1>2 DEF SchemaInv, SchemaTypes
<1>6. QED
  BY <1>2, <1>3, <1>4, <1>5 DEF SchemaInv

(* A rule with another number in one of its fields.                         *)
LEMMA RuleChanged ==
    ASSUME NEW p \in RuleRows, NEW n \in Nat
    PROVE  /\ [p EXCEPT !.open = n] \in RuleRows
           /\ [p EXCEPT !.open = n].open = n /\ [p EXCEPT !.open = n].kind = p.kind
           /\ [p EXCEPT !.close = n] \in RuleRows
           /\ [p EXCEPT !.close = n].open = p.open /\ [p EXCEPT !.close = n].kind = p.kind
           /\ [p EXCEPT !.cap = n] \in RuleRows
           /\ [p EXCEPT !.cap = n].open = p.open /\ [p EXCEPT !.cap = n].kind = p.kind
  BY DEF RuleRows

(* Numbers are kept in the fields of a rule.                                *)
LEMMA RuleFields ==
    ASSUME SchemaInv, NEW r \in RuleIds
    PROVE  /\ rule[r] \in RuleRows
           /\ rule[r].open \in Nat /\ rule[r].close \in Nat
           /\ rule[r].cap \in Nat /\ rule[r].size \in Nat
<1>1. rule[r] \in RuleRows
  BY DEF SchemaInv, SchemaTypes
<1>2. QED
  BY <1>1 DEF RuleRows

(* A closing threshold where a rule has none.                               *)
LEMMA CopyThresholdKeeps ==
    ASSUME SchemaInv, NEW s \in Servers, CopyThreshold(s)
    PROVE  SchemaInv'
<1>1. PICK kind \in {"funding", "spread"} :
        /\ At(s, IF kind = "funding" THEN "copy funding" ELSE "copy spread")
        /\ rule' = [r \in RuleIds |->
              IF rule[r].kind = kind /\ rule[r].close = 0 /\ rule[r].open > 0
              THEN [rule[r] EXCEPT !.close = rule[r].open] ELSE rule[r]]
        /\ Writes("strategy_rules") /\ OnTo(s)
        /\ UNCHANGED <<tables, missing, row, lockedBy, yearly, torn, authored>>
  BY DEF CopyThreshold, past
<1>2. /\ server[s].pc = "boot" /\ Statement(s).op \in {"copy funding", "copy spread"}
      /\ unsettled \subseteq unsettled' /\ committed' = committed
  BY <1>1 DEF At, Writes
<1>3. /\ server' \in [Servers -> ServerStates]
      /\ OneBootstrap' /\ BootstrapsProgress' /\ ServedCompletes' /\ AddedFirst'
      /\ ~Dividing /\ ~Dividing' /\ (DividedUncommitted => DividedUncommitted')
      /\ tables' \subseteq AllTables /\ missing' \subseteq AllColumns
  BY <1>1, <1>2, OrdinaryStep
<1>4. ASSUME NEW r \in RuleIds
      PROVE  /\ rule'[r] \in RuleRows
             /\ rule'[r].open = rule[r].open /\ rule'[r].kind = rule[r].kind
             /\ rule[r].close > 0 => rule'[r] = rule[r]
  <2>1. PICK new : new = [rule[r] EXCEPT !.close = rule[r].open]
    OBVIOUS
  <2>2. rule'[r] = rule[r] \/ (rule[r].close = 0 /\ rule'[r] = new)
    BY <1>1, <2>1, Zenon
  <2>3. rule[r] \in RuleRows /\ rule[r].open \in Nat
    BY RuleFields
  <2>4. new \in RuleRows /\ new.open = rule[r].open /\ new.kind = rule[r].kind
    BY <2>1, <2>3, RuleChanged, Zenon
  <2>5. rule[r].close = 0 => ~(rule[r].close > 0)
    OBVIOUS
  <2>6. QED
    BY <2>2, <2>3, <2>4, <2>5, Zenon
<1>5. ThresholdsDivided'
  BY <1>1, <1>2, <1>3, <1>4, RowsStand
<1>6. AuthoredStays'
  <2>1. \A r \in RuleIds \cap authored : rule'[r] = rule[r]
    BY <1>4 DEF SchemaInv, AuthoredStays
  <2>2. QED
    BY <1>1, <1>2, <2>1, AuthoredStand
<1>7. SchemaTypes'
  BY <1>1, <1>2, <1>3, <1>4 DEF SchemaInv, SchemaTypes
<1>8. QED
  BY <1>3, <1>5, <1>6, <1>7 DEF SchemaInv

(* A cap where a rule has none.                                             *)
LEMMA FillCapsKeeps ==
    ASSUME SchemaInv, NEW s \in Servers, FillCaps(s)
    PROVE  SchemaInv'
<1>1. /\ server[s].pc = "boot" /\ Statement(s).op = "fill caps"
      /\ rule' = [r \in RuleIds |-> IF rule[r].cap = 0
                                   THEN [rule[r] EXCEPT !.cap = rule[r].size] ELSE rule[r]]
      /\ OnTo(s) /\ unsettled \subseteq unsettled' /\ committed' = committed
      /\ UNCHANGED <<tables, missing, row, lockedBy, yearly, torn, authored>>
  BY DEF FillCaps, past, At, Writes
<1>2. /\ server' \in [Servers -> ServerStates]
      /\ OneBootstrap' /\ BootstrapsProgress' /\ ServedCompletes' /\ AddedFirst'
      /\ ~Dividing /\ ~Dividing' /\ (DividedUncommitted => DividedUncommitted')
      /\ tables' \subseteq AllTables /\ missing' \subseteq AllColumns
  BY <1>1, OrdinaryStep
<1>3. ASSUME NEW r \in RuleIds
      PROVE  /\ rule'[r] \in RuleRows
             /\ rule'[r].open = rule[r].open /\ rule'[r].kind = rule[r].kind
             /\ rule[r].cap > 0 => rule'[r] = rule[r]
  <2>1. PICK new : new = [rule[r] EXCEPT !.cap = rule[r].size]
    OBVIOUS
  <2>2. rule'[r] = rule[r] \/ (rule[r].cap = 0 /\ rule'[r] = new)
    BY <1>1, <2>1, Zenon
  <2>3. rule[r] \in RuleRows /\ rule[r].size \in Nat
    BY RuleFields
  <2>4. new \in RuleRows /\ new.open = rule[r].open /\ new.kind = rule[r].kind
    BY <2>1, <2>3, RuleChanged, Zenon
  <2>5. rule[r].cap = 0 => ~(rule[r].cap > 0)
    OBVIOUS
  <2>6. QED
    BY <2>2, <2>3, <2>4, <2>5, Zenon
<1>4. ThresholdsDivided'
  BY <1>1, <1>2, <1>3, RowsStand
<1>5. AuthoredStays'
  <2>1. \A r \in RuleIds \cap authored : rule'[r] = rule[r]
    BY <1>3 DEF SchemaInv, AuthoredStays
  <2>2. QED
    BY <1>1, <2>1, AuthoredStand
<1>6. SchemaTypes'
  BY <1>1, <1>2, <1>3 DEF SchemaInv, SchemaTypes
<1>7. QED
  BY <1>2, <1>4, <1>5, <1>6 DEF SchemaInv

(* A rate of a period is a number.                                          *)
LEMMA RateOfPeriod == ASSUME NEW n \in Nat PROVE PerPeriod(n) \in Nat
  BY DEF PerPeriod

(* The division.  It happens when this bootstrap has added the column, and  *)
(* the thresholds are then still those of the older version.                *)
LEMMA ScaleKeeps ==
    ASSUME SchemaInv, NEW s \in Servers, Scale(s)
    PROVE  SchemaInv'
<1>1. /\ server[s].pc = "boot" /\ Statement(s).op = "scale" /\ OnTo(s)
      /\ UNCHANGED <<tables, missing, row, lockedBy, yearly, torn, authored>>
  BY DEF Scale, At, past
<1>2. Statement(s) # AddFunding /\ server[s].added \in BOOLEAN
      /\ tables \subseteq AllTables /\ missing \subseteq AllColumns
      /\ server[s].at = FundingAt + 1
  BY <1>1, ServerFields, AtStatement DEF AddFunding, SchemaInv, SchemaTypes
<1>3. Moves(s, [pc |-> "boot", at |-> server[s].at + 1, added |-> server[s].added])
  BY <1>1, OnToMoves
<1>4. /\ server' \in [Servers -> ServerStates]
      /\ OneBootstrap' /\ BootstrapsProgress' /\ ServedCompletes' /\ AddedFirst'
  BY <1>1, <1>2, <1>3, StatementDone
<1>5. ~Dividing' /\ (Dividing <=> server[s].added)
      /\ (DividedUncommitted' <=> server[s].added /\ "division" \in unsettled')
  BY <1>1, <1>2, <1>3, Positions, WhenDividing, WhenDividingNext
<1>6. FundingColumn \notin missing
  <2>1. PICK n \in Nat : n = server[s].at /\ Done(n)
    BY <1>1, Positions DEF SchemaInv, BootstrapsProgress
  <2>2. FundingAt \in 1 .. n - 1
    BY <1>2, <2>1, Positions
  <2>3. QED
    BY <2>1, <2>2, Order DEF Done, AddFunding
<1>7. CASE server[s].added
  <2>1. /\ rule' = [r \in RuleIds |-> IF rule[r].kind = "funding"
                       THEN [rule[r] EXCEPT !.open = PerPeriod(@)] ELSE rule[r]]
        /\ "division" \in unsettled' /\ committed' = committed
    BY <1>7 DEF Scale, MustScale
  <2>2. ASSUME NEW r \in RuleIds
        PROVE  /\ rule'[r] \in RuleRows /\ rule'[r].kind = rule[r].kind
               /\ rule[r].kind = "funding" => rule'[r].open = PerPeriod(rule[r].open)
    <3>1. /\ rule[r].kind # "funding" => rule'[r] = rule[r]
          /\ rule[r].kind = "funding" =>
                rule'[r] = [rule[r] EXCEPT !.open = PerPeriod(rule[r].open)]
      BY <2>1, Zenon
    <3>2. rule[r] \in RuleRows /\ PerPeriod(rule[r].open) \in Nat
      BY RuleFields, RateOfPeriod
    <3>3. /\ [rule[r] EXCEPT !.open = PerPeriod(rule[r].open)] \in RuleRows
          /\ [rule[r] EXCEPT !.open = PerPeriod(rule[r].open)].open = PerPeriod(rule[r].open)
          /\ [rule[r] EXCEPT !.open = PerPeriod(rule[r].open)].kind = rule[r].kind
      BY <3>2, RuleChanged, Zenon
    <3>4. QED
      BY <3>1, <3>2, <3>3
  <2>3. authored = {}
    BY <1>7 DEF SchemaInv, AddedFirst
  <2>4. ThresholdsDivided'
    BY <1>1, <1>5, <1>6, <1>7, <2>1, <2>2
       DEF SchemaInv, ThresholdsDivided, YearlyDivided, HasDivided
  <2>5. AuthoredStays'
    BY <1>1, <2>3 DEF AuthoredStays
  <2>6. SchemaTypes'
    BY <1>1, <1>2, <1>4, <2>1, <2>2 DEF SchemaInv, SchemaTypes
  <2>7. QED
    BY <1>4, <2>4, <2>5, <2>6 DEF SchemaInv
<1>8. CASE ~server[s].added
  <2>1. UNCHANGED <<rule, committed, unsettled>>
    BY <1>8 DEF Scale, MustScale
  <2>2. ~DividedUncommitted
    BY <1>1, <1>8, WhenDividing
  <2>3. ThresholdsDivided'
    BY <1>1, <1>5, <1>8, <2>1, <2>2, RowsStand
  <2>4. AuthoredStays'
    BY <1>1, <2>1, AuthoredStand
  <2>5. SchemaTypes'
    BY <1>1, <1>2, <1>4, <2>1 DEF SchemaInv, SchemaTypes
  <2>6. QED
    BY <1>4, <2>3, <2>4, <2>5 DEF SchemaInv
<1>9. QED
  BY <1>7, <1>8

(* The last commit: every table and column is there, and the process serves. *)
LEMMA FinishKeeps ==
    ASSUME SchemaInv, NEW s \in Servers, FinishBootstrap(s)
    PROVE  SchemaInv'
<1>1. /\ server[s].pc = "boot" /\ Statement(s).op = "commit" /\ Commits
      /\ lockedBy' = "nobody" /\ server' = [server EXCEPT ![s] = [Down EXCEPT !.pc = "ready"]]
      /\ UNCHANGED <<tables, missing, yearly, torn, authored>>
  BY DEF FinishBootstrap, At, past
<1>2. PICK n \in Nat : n = server[s].at /\ Done(n) /\ n = Len(Statements)
  BY <1>1, Positions, AtStatement DEF SchemaInv, BootstrapsProgress
<1>3. \A i \in 1 .. n : i = n \/ i \in 1 .. n - 1
  BY <1>2
<1>4. Statements[n].op = "commit"
  BY <1>1, <1>2 DEF Statement
<1>5. ASSUME NEW t \in AllTables PROVE t \in tables
  <2>1. PICK i \in 1 .. n : Creates(Statements[i], t)
    BY <1>2, Complete
  <2>2. Statements[i].op = "create" /\ Statements[i].name = t
    BY <2>1 DEF Creates
  <2>3. QED
    BY <1>2, <1>3, <1>4, <2>2 DEF Done
<1>6. ASSUME NEW c \in AllColumns PROVE c \notin missing
  <2>1. PICK i \in 1 .. n : Adds(Statements[i], c)
    BY <1>2, Complete
  <2>2. Statements[i].op = "add" /\ Statements[i].name = c
    BY <2>1 DEF Adds
  <2>3. QED
    BY <1>2, <1>3, <1>4, <2>2 DEF Done
<1>7. SchemaComplete /\ SchemaComplete'
  BY <1>1, <1>5, <1>6 DEF SchemaComplete, SchemaInv, SchemaTypes
<1>8. PICK b \in BOOLEAN, x \in ServerStates :
          b = FALSE /\ x = [pc |-> "ready", at |-> 1, added |-> b]
  BY DownState, ServerState
<1>9. Moves(s, x)
  BY <1>1, <1>8, DownState DEF Moves
<1>10. x.pc = "ready" /\ x.at = 1 /\ ~x.added
  BY <1>8
<1>11. /\ server' \in [Servers -> ServerStates] /\ server'[s] = x
       /\ \A q \in Servers : q # s => server'[q] = server[q]
  BY <1>9, Moved
<1>12. \A q \in Servers : ~server'[q].added /\ server'[q].pc # "boot"
  BY <1>1, <1>10, <1>11, Alone
<1>13. OneBootstrap'
  BY <1>1, <1>12, NobodyServes DEF OneBootstrap
<1>14. BootstrapsProgress'
  BY <1>10, <1>11, <1>12 DEF BootstrapsProgress, SchemaInv
<1>15. ServedCompletes' /\ AddedFirst'
  BY <1>7, <1>12 DEF ServedCompletes, AddedFirst
<1>16. ~Dividing /\ ~Dividing'
  BY <1>1, <1>12, WhenDividing DEF Dividing
<1>17. ThresholdsDivided'
  BY <1>1, <1>16, CommitTypes, RowsStand
<1>18. AuthoredStays'
  BY <1>1, CommitTypes, AuthoredStand
<1>19. SchemaTypes'
  BY <1>1, <1>11, CommitTypes DEF SchemaInv, SchemaTypes
<1>20. QED
  BY <1>13, <1>14, <1>15, <1>17, <1>18, <1>19 DEF SchemaInv

-----------------------------------------------------------------------------
(* Processes that start, wait, and die.                                     *)

(* A process outside the bootstrap goes elsewhere outside it, but not to    *)
(* serving.                                                                 *)
LEMMA OutsideMove ==
    ASSUME SchemaInv, NEW s \in Servers, server[s].pc # "boot",
           NEW p \in {"down", "wait"}, server' = [server EXCEPT ![s] = [Down EXCEPT !.pc = p]],
           UNCHANGED <<tables, missing, rule, row, committed, unsettled, lockedBy,
                       yearly, torn, authored>>
    PROVE  SchemaInv'
<1>1. PICK b \in BOOLEAN, x \in ServerStates :
          b = FALSE /\ x = [pc |-> p, at |-> 1, added |-> b]
  BY DownState, ServerState
<1>2. Moves(s, x)
  BY <1>1, DownState DEF Moves
<1>3. x.pc = p /\ x.at = 1 /\ ~x.added
  BY <1>1
<1>4. /\ server' \in [Servers -> ServerStates] /\ server'[s] = x
      /\ \A q \in Servers : q # s => server'[q] = server[q]
  BY <1>2, Moved
<1>5. \A q \in Servers : (server'[q].added <=> server[q].added)
                         /\ (server'[q].pc = "boot" <=> server[q].pc = "boot")
                         /\ (server'[q].pc = "ready" => server[q].pc = "ready")
                         /\ (server[q].pc = "boot" => server'[q] = server[q])
                         /\ (server[q].added => server'[q] = server[q])
  BY <1>3, <1>4 DEF SchemaInv, AddedFirst
<1>6. OneBootstrap'
  BY <1>5 DEF SchemaInv, OneBootstrap
<1>7. BootstrapsProgress'
  BY <1>3, <1>4, <1>5 DEF SchemaInv, BootstrapsProgress, Done
<1>8. ServedCompletes'
  BY <1>5 DEF SchemaInv, ServedCompletes, SchemaComplete
<1>9. AddedFirst'
  BY <1>5 DEF SchemaInv, AddedFirst
<1>10. (Dividing' <=> Dividing) /\ (DividedUncommitted' <=> DividedUncommitted)
  BY <1>5 DEF Dividing, DividedUncommitted
<1>11. ThresholdsDivided' /\ AuthoredStays'
  BY <1>10, RowsStand, AuthoredStand
<1>12. SchemaTypes'
  BY <1>4 DEF SchemaInv, SchemaTypes
<1>13. QED
  BY <1>6, <1>7, <1>8, <1>9, <1>11, <1>12 DEF SchemaInv

(* A start, and one that waits in vain.                                     *)
LEMMA StartKeeps ==
    ASSUME SchemaInv, NEW s \in Servers, Start(s) \/ LockTimesOut(s)
    PROVE  SchemaInv'
<1>1. CASE Start(s)
  BY <1>1, OutsideMove DEF Start, rows, past
<1>2. CASE LockTimesOut(s)
  <2>1. PICK d : d = Down
    OBVIOUS
  <2>2. server' = [server EXCEPT ![s] = [Down EXCEPT !.pc = "down"]]
    BY <1>2, DownState DEF LockTimesOut
  <2>3. QED
    BY <1>2, <2>2, OutsideMove DEF LockTimesOut, rows, past
<1>3. QED
  BY <1>1, <1>2

(* The lock is taken, by one process.                                       *)
LEMMA TakeLockKeeps ==
    ASSUME SchemaInv, NEW s \in Servers, TakeLock(s)
    PROVE  SchemaInv'
<1>1. /\ server[s].pc = "wait" /\ lockedBy = "nobody" /\ lockedBy' = s
      /\ server' = [server EXCEPT ![s].pc = "boot"]
      /\ UNCHANGED <<tables, missing, rule, row, committed, unsettled, yearly, torn, authored>>
  BY DEF TakeLock, rows, past
<1>2. \A q \in Servers : server[q].pc # "boot" /\ ~server[q].added
  BY <1>1, NobodyAdded, NobodyServes
<1>3. server[s] = [pc |-> "wait", at |-> 1, added |-> server[s].added]
      /\ server[s].added \in BOOLEAN /\ server[s].at = 1
  BY <1>1, ServerFields DEF SchemaInv, BootstrapsProgress
<1>4. PICK b \in BOOLEAN, x \in ServerStates :
          b = server[s].added /\ x = [pc |-> "boot", at |-> 1, added |-> b]
  BY <1>3, DownState, ServerState
<1>5. [server[s] EXCEPT !.pc = "boot"] = x
  <2>1. PICK r : r = server[s]
    OBVIOUS
  <2>2. r = [pc |-> "wait", at |-> 1, added |-> b]
    BY <1>3, <1>4, <2>1
  <2>3. [r EXCEPT !.pc = "boot"] = x
    BY <1>4, <2>2
  <2>4. QED
    BY <2>1, <2>3
<1>6. Moves(s, x)
  BY <1>1, <1>5, Zenon DEF Moves
<1>7. x.pc = "boot" /\ x.at = 1 /\ ~x.added
  BY <1>2, <1>4
<1>8. /\ server' \in [Servers -> ServerStates] /\ server'[s] = x
      /\ \A q \in Servers : q # s => server'[q] = server[q]
  BY <1>6, Moved
<1>9. \A q \in Servers : ~server'[q].added /\ (server'[q].pc = "boot" <=> q = s)
  BY <1>2, <1>7, <1>8
<1>10. OneBootstrap'
  BY <1>1, <1>9 DEF OneBootstrap
<1>11. BootstrapsProgress'
  <2>1. Done(1)'
    BY DEF Done
  <2>2. QED
    BY <1>7, <1>8, <1>9, <2>1 DEF SchemaInv, BootstrapsProgress, Done
<1>12. ServedCompletes' /\ AddedFirst'
  BY <1>1, <1>7, <1>8, <1>9 DEF SchemaInv, ServedCompletes, SchemaComplete, AddedFirst
<1>13. ~Dividing /\ ~Dividing' /\ ~DividedUncommitted
  BY <1>2, <1>9 DEF Dividing, DividedUncommitted
<1>14. ThresholdsDivided' /\ AuthoredStays'
  BY <1>1, <1>13, RowsStand, AuthoredStand
<1>15. SchemaTypes'
  BY <1>1, <1>8 DEF SchemaInv, SchemaTypes
<1>16. QED
  BY <1>10, <1>11, <1>12, <1>14, <1>15 DEF SchemaInv

(* A process dies.  In its bootstrap it leaves the rows as they were        *)
(* committed: divided or not yet, unless the column is there already and    *)
(* the division is not.                                                     *)
LEMMA CrashKeeps ==
    ASSUME SchemaInv, NEW s \in Servers, Crash(s)
    PROVE  SchemaInv'
<1>1. /\ server[s].pc # "down" /\ server' = [server EXCEPT ![s] = Down]
      /\ UNCHANGED <<tables, missing, committed, yearly, authored>>
  BY DEF Crash
<1>2. CASE lockedBy = s
  <2>1. /\ lockedBy' = "nobody" /\ rule' = committed.rule /\ row' = committed.row
        /\ torn' = (torn \/ (server[s].added
                             /\ (At(s, "scale") \/ "division" \in unsettled)))
    BY <1>2 DEF Crash
  <2>2. server[s].pc = "boot"
    BY <1>2 DEF SchemaInv, OneBootstrap
  <2>3. PICK b \in BOOLEAN, x \in ServerStates :
            b = FALSE /\ x = [pc |-> "down", at |-> 1, added |-> b]
    BY DownState, ServerState
  <2>4. Moves(s, x)
    BY <1>1, <2>3, DownState DEF Moves
  <2>5. x.pc = "down" /\ x.at = 1 /\ ~x.added
    BY <2>3
  <2>6. /\ server' \in [Servers -> ServerStates] /\ server'[s] = x
        /\ \A q \in Servers : q # s => server'[q] = server[q]
    BY <2>4, Moved
  <2>7. \A q \in Servers : /\ ~server'[q].added /\ server'[q].pc # "boot"
                           /\ server'[q].pc = "ready" => server[q].pc = "ready"
    BY <2>2, <2>5, <2>6, Alone
  <2>8. OneBootstrap'
    BY <2>1, <2>7, NobodyServes DEF OneBootstrap
  <2>9. BootstrapsProgress'
    BY <2>5, <2>6, <2>7 DEF SchemaInv, BootstrapsProgress
  <2>10. ServedCompletes' /\ AddedFirst'
    BY <1>1, <2>7 DEF SchemaInv, ServedCompletes, SchemaComplete, AddedFirst
  <2>11. ~Dividing'
    BY <2>7 DEF Dividing
  <2>12. ~torn' => ~torn /\ ~Dividing /\ ~DividedUncommitted
    BY <2>1, <2>2, WhenDividing DEF At
  <2>13. ThresholdsDivided'
    BY <1>1, <2>1, <2>11, <2>12
       DEF SchemaInv, ThresholdsDivided, YearlyDivided, HasDivided
  <2>14. AuthoredStays'
    BY <1>1, <2>1, AuthoredStand DEF SchemaInv, AuthoredStays
  <2>15. torn' \in BOOLEAN
    BY <2>1, ServerFields DEF SchemaInv, SchemaTypes
  <2>16. SchemaTypes'
    BY <1>1, <2>1, <2>6, <2>15 DEF SchemaInv, SchemaTypes
  <2>17. QED
    BY <2>8, <2>9, <2>10, <2>13, <2>14, <2>16 DEF SchemaInv
<1>3. CASE lockedBy # s
  <2>1. UNCHANGED <<lockedBy, rule, row, unsettled, torn>>
    BY <1>3 DEF Crash
  <2>2. server[s].pc # "boot"
    BY <1>3 DEF SchemaInv, OneBootstrap
  <2>3. server' = [server EXCEPT ![s] = [Down EXCEPT !.pc = "down"]]
    BY <1>1, DownState
  <2>4. QED
    BY <1>1, <2>1, <2>2, <2>3, OutsideMove
<1>4. QED
  BY <1>2, <1>3

-----------------------------------------------------------------------------
(* Processes that serve.                                                    *)

(* While one serves the schema is complete, and nobody divides.             *)
LEMMA WhileServing ==
    ASSUME SchemaInv, NEW s \in Servers, server[s].pc = "ready"
    PROVE  SchemaComplete /\ ~Dividing /\ ~DividedUncommitted
  BY DEF SchemaInv, ServedCompletes, AddedFirst, Dividing, DividedUncommitted

(* A write of a serving process leaves the bootstraps where they are.       *)
LEMMA ServingStep ==
    ASSUME SchemaInv, NEW s \in Servers, server[s].pc = "ready",
           UNCHANGED <<tables, missing, lockedBy, server>>
    PROVE  OneBootstrap' /\ BootstrapsProgress' /\ ServedCompletes' /\ AddedFirst'
<1>1. SchemaComplete /\ SchemaComplete'
  BY WhileServing DEF SchemaComplete
<1>2. \A q \in Servers : ~server[q].added
  BY DEF SchemaInv, AddedFirst
<1>3. OneBootstrap' /\ BootstrapsProgress'
  BY DEF SchemaInv, OneBootstrap, BootstrapsProgress, Done
<1>4. QED
  BY <1>1, <1>2, <1>3 DEF ServedCompletes, AddedFirst

(* A part of what is committed, replaced.                                   *)
LEMMA CommittedChanged ==
    ASSUME NEW c, c = [rule |-> c.rule, row |-> c.row], NEW f
    PROVE  /\ [c EXCEPT !.rule = f] = [rule |-> f, row |-> c.row]
           /\ [c EXCEPT !.row = f] = [rule |-> c.rule, row |-> f]
  OBVIOUS

(* A rule is written, and committed at once.                                *)
LEMMA StoreRuleKeeps ==
    ASSUME SchemaInv, NEW s \in Servers, server[s].pc = "ready",
           NEW r \in RuleIds, NEW new \in RuleRows, StoreRule(r, new),
           \/ authored' = authored \cup {r} /\ new.close > 0 /\ new.cap > 0
           \/ authored' = authored \ {r}
    PROVE  SchemaInv'
<1>1. /\ rule' = [rule EXCEPT ![r] = new] /\ yearly' = [yearly EXCEPT ![r] = 0]
      /\ committed' = [committed EXCEPT !.rule[r] = new]
      /\ UNCHANGED <<tables, missing, row, unsettled, lockedBy, server, torn>>
  BY DEF StoreRule
<1>2. SchemaTypes
  BY DEF SchemaInv
<1>3. committed' = [rule |-> [committed.rule EXCEPT ![r] = new], row |-> committed.row]
  <2>1. committed' = [committed EXCEPT !.rule = [committed.rule EXCEPT ![r] = new]]
    BY <1>1, Zenon
  <2>2. committed = [rule |-> committed.rule, row |-> committed.row]
    BY <1>2 DEF SchemaTypes
  <2>3. QED
    BY <2>1, <2>2, CommittedChanged, Zenon
<1>4. committed'.rule = [committed.rule EXCEPT ![r] = new] /\ committed'.row = committed.row
  BY <1>3
<1>5. /\ rule'[r] = new /\ committed'.rule[r] = new /\ yearly'[r] = 0
      /\ \A q \in RuleIds : q # r => /\ rule'[q] = rule[q] /\ yearly'[q] = yearly[q]
                                     /\ committed'.rule[q] = committed.rule[q]
  BY <1>1, <1>2, <1>4 DEF SchemaTypes
<1>6. OneBootstrap' /\ BootstrapsProgress' /\ ServedCompletes' /\ AddedFirst'
  BY <1>1, ServingStep
<1>7. ~Dividing /\ ~Dividing' /\ ~DividedUncommitted
  BY <1>1, WhileServing DEF Dividing
<1>8. ThresholdsDivided'
  <2> SUFFICES ASSUME ~torn', NEW q \in RuleIds, yearly'[q] > 0
               PROVE  YearlyDivided(q)'
    BY DEF ThresholdsDivided
  <2>1. q # r
    BY <1>5
  <2>2. YearlyDivided(q)
    BY <1>1, <1>5, <2>1 DEF SchemaInv, ThresholdsDivided
  <2>3. QED
    BY <1>1, <1>5, <1>7, <2>1, <2>2 DEF YearlyDivided, HasDivided
<1>9. AuthoredStays'
  <2>1. ASSUME NEW q \in RuleIds \cap authored'
        PROVE  rule'[q].close > 0 /\ rule'[q].cap > 0 /\ committed'.rule[q] = rule'[q]
    BY <1>5, <2>1 DEF SchemaInv, AuthoredStays
  <2>2. ASSUME NEW i \in RecordIds \cap authored'
        PROVE  Derived(row'[i]) = row'[i] /\ committed'.row[i] = row'[i]
    BY <1>1, <1>4, <2>2, DifferentRows DEF SchemaInv, AuthoredStays
  <2>3. QED
    BY <2>1, <2>2 DEF AuthoredStays, Derived
<1>10. SchemaTypes'
  <2>1. committed' = [rule |-> committed'.rule, row |-> committed'.row]
    BY <1>3, <1>4
  <2>2. rule' \in [RuleIds -> RuleRows] /\ committed'.rule \in [RuleIds -> RuleRows]
        /\ yearly' \in [RuleIds -> Nat]
    BY <1>1, <1>2, <1>4 DEF SchemaTypes
  <2>3. QED
    BY <1>1, <1>2, <1>4, <2>1, <2>2 DEF SchemaTypes
<1>11. QED
  BY <1>6, <1>8, <1>9, <1>10 DEF SchemaInv

(* The steps of the rule service.                                           *)
LEMMA RuleServiceKeeps ==
    ASSUME SchemaInv, NEW s \in Servers, NEW r \in RuleIds,
           \/ \E p \in Payloads : CreateRule(s, r, p) \/ UpdateRule(s, r, p)
           \/ DeleteRule(s, r)
    PROVE  SchemaInv'
<1>1. Payloads \subseteq RuleRows
  BY SchemaAssumption DEF Payloads, RuleRows, RuleKinds
<1>2. CASE \E p \in Payloads : CreateRule(s, r, p) \/ UpdateRule(s, r, p)
  <2>1. PICK p \in Payloads : CreateRule(s, r, p) \/ UpdateRule(s, r, p)
    BY <1>2
  <2>2. /\ server[s].pc = "ready" /\ StoreRule(r, p) /\ authored' = authored \cup {r}
        /\ p.close > 0 /\ p.cap > 0
    BY <2>1 DEF CreateRule, UpdateRule, MayWrite, Valid
  <2>3. QED
    BY <1>1, <2>2, StoreRuleKeeps
<1>3. CASE DeleteRule(s, r)
  <2>1. NoRule \in RuleRows
    BY DEF NoRule, RuleRows, RuleKinds
  <2>2. server[s].pc = "ready" /\ StoreRule(r, NoRule) /\ authored' = authored \ {r}
    BY <1>3 DEF DeleteRule, MayWrite
  <2>3. QED
    BY <2>1, <2>2, StoreRuleKeeps
<1>4. QED
  BY <1>2, <1>3

(* A record is written, and committed at once.                              *)
LEMMA StoreRowKeeps ==
    ASSUME SchemaInv, NEW s \in Servers, server[s].pc = "ready",
           NEW i \in RecordIds, NEW new, Derived(new) = new, StoreRow(i, new)
    PROVE  SchemaInv'
<1>1. /\ row' = [row EXCEPT ![i] = new] /\ authored' = authored \cup {i}
      /\ committed' = [committed EXCEPT !.row[i] = new]
      /\ UNCHANGED <<tables, missing, rule, unsettled, lockedBy, server, yearly, torn>>
  BY DEF StoreRow
<1>2. SchemaTypes
  BY DEF SchemaInv
<1>3. committed' = [rule |-> committed.rule, row |-> [committed.row EXCEPT ![i] = new]]
  <2>1. committed' = [committed EXCEPT !.row = [committed.row EXCEPT ![i] = new]]
    BY <1>1, Zenon
  <2>2. committed = [rule |-> committed.rule, row |-> committed.row]
    BY <1>2 DEF SchemaTypes
  <2>3. QED
    BY <2>1, <2>2, CommittedChanged, Zenon
<1>4. committed'.rule = committed.rule /\ committed'.row = [committed.row EXCEPT ![i] = new]
  BY <1>3
<1>5. DOMAIN row = RecordIds /\ DOMAIN committed.row = RecordIds
  BY <1>2 DEF SchemaTypes
<1>6. /\ row'[i] = new /\ committed'.row[i] = new
      /\ \A j \in RecordIds : j # i => row'[j] = row[j] /\ committed'.row[j] = committed.row[j]
      /\ DOMAIN row' = RecordIds /\ DOMAIN committed'.row = RecordIds
  BY <1>1, <1>4, <1>5
<1>7. OneBootstrap' /\ BootstrapsProgress' /\ ServedCompletes' /\ AddedFirst'
  BY <1>1, ServingStep
<1>8. ~Dividing /\ ~Dividing' /\ ~DividedUncommitted
  BY <1>1, WhileServing DEF Dividing
<1>9. ThresholdsDivided'
  BY <1>1, <1>4, <1>8, RowsStand
<1>10. AuthoredStays'
  <2>1. ASSUME NEW q \in RuleIds \cap authored'
        PROVE  rule'[q].close > 0 /\ rule'[q].cap > 0 /\ committed'.rule[q] = rule'[q]
    BY <1>1, <1>4, <2>1, DifferentRows DEF SchemaInv, AuthoredStays
  <2>2. ASSUME NEW j \in RecordIds \cap authored'
        PROVE  Derived(row'[j]) = row'[j] /\ committed'.row[j] = row'[j]
    BY <1>1, <1>6, <2>2 DEF SchemaInv, AuthoredStays
  <2>3. QED
    BY <2>1, <2>2 DEF AuthoredStays, Derived
<1>11. SchemaTypes'
  <2>1. committed' = [rule |-> committed'.rule, row |-> committed'.row]
    BY <1>3, <1>4
  <2>2. QED
    BY <1>1, <1>2, <1>4, <1>6, <2>1 DEF SchemaTypes
<1>12. QED
  BY <1>7, <1>9, <1>10, <1>11 DEF SchemaInv

(* The statuses this version writes are those it would derive.              *)
LEMMA WrittenStatuses ==
    /\ Derived([status |-> "pending", execute |-> "pending_execute", result |-> "none"])
       = [status |-> "pending", execute |-> "pending_execute", result |-> "none"]
    /\ Derived([status |-> "processing", execute |-> "executing", result |-> "none"])
       = [status |-> "processing", execute |-> "executing", result |-> "none"]
    /\ \A end \in {"success", "failed"} :
          Derived([status |-> end, execute |-> "processed", result |-> end])
          = [status |-> end, execute |-> "processed", result |-> end]
  BY DEF Derived

(* The steps of the transfer worker.                                        *)
LEMMA WorkerKeeps ==
    ASSUME SchemaInv, NEW s \in Servers, NEW i \in RecordIds,
           CreateRow(s, i) \/ ClaimRow(s, i) \/ FinishRow(s, i)
    PROVE  SchemaInv'
<1>1. CASE CreateRow(s, i)
  BY <1>1, WrittenStatuses, StoreRowKeeps DEF CreateRow, MayWrite
<1>2. CASE ClaimRow(s, i)
  BY <1>2, WrittenStatuses, StoreRowKeeps DEF ClaimRow, ClaimedRow, MayWrite
<1>3. CASE FinishRow(s, i)
  BY <1>3, WrittenStatuses, StoreRowKeeps DEF FinishRow, MayWrite
<1>4. QED
  BY <1>1, <1>2, <1>3

-----------------------------------------------------------------------------
(* Every step keeps the invariant.                                          *)

(* A statement of the bootstrap does.                                       *)
LEMMA BootstrapKeeps ==
    ASSUME SchemaInv, NEW s \in Servers, Bootstrap(s)
    PROVE  SchemaInv'
<1>1. CASE CreateTable(s)
  BY <1>1, CreateTableKeeps
<1>2. CASE AddColumn(s)
  BY <1>2, AddOtherKeeps, AddFundingKeeps
<1>3. CASE Index(s)
  BY <1>3, IndexKeeps
<1>4. CASE DeriveStatus(s)
  BY <1>4, DeriveStatusKeeps
<1>5. CASE Scale(s)
  BY <1>5, ScaleKeeps
<1>6. CASE CopyThreshold(s)
  BY <1>6, CopyThresholdKeeps
<1>7. CASE FillCaps(s)
  BY <1>7, FillCapsKeeps
<1>8. CASE FinishBootstrap(s)
  BY <1>8, FinishKeeps
<1>9. QED
  BY <1>1, <1>2, <1>3, <1>4, <1>5, <1>6, <1>7, <1>8 DEF Bootstrap

(* So does every step.                                                      *)
LEMMA SchemaStep == SchemaInv /\ [SchemaNext]_schemaVars => SchemaInv'
<1> SUFFICES ASSUME SchemaInv, [SchemaNext]_schemaVars PROVE SchemaInv'
  OBVIOUS
<1>1. CASE UNCHANGED schemaVars
  <2>1. (Dividing' <=> Dividing) /\ (DividedUncommitted' <=> DividedUncommitted)
    BY <1>1 DEF schemaVars, Dividing, DividedUncommitted
  <2>2. ThresholdsDivided' /\ AuthoredStays'
    BY <1>1, <2>1, RowsStand, AuthoredStand DEF schemaVars
  <2>3. OneBootstrap' /\ BootstrapsProgress' /\ ServedCompletes' /\ AddedFirst'
    BY <1>1 DEF schemaVars, SchemaInv, OneBootstrap, BootstrapsProgress, Done,
                ServedCompletes, SchemaComplete, AddedFirst
  <2>4. SchemaTypes'
    BY <1>1 DEF schemaVars, SchemaInv, SchemaTypes
  <2>5. QED
    BY <2>2, <2>3, <2>4 DEF SchemaInv
<1>2. ASSUME NEW s \in Servers, Start(s) \/ LockTimesOut(s) PROVE SchemaInv'
  BY <1>2, StartKeeps
<1>3. ASSUME NEW s \in Servers, TakeLock(s) PROVE SchemaInv'
  BY <1>3, TakeLockKeeps
<1>4. ASSUME NEW s \in Servers, Bootstrap(s) PROVE SchemaInv'
  BY <1>4, BootstrapKeeps
<1>5. ASSUME NEW s \in Servers, Crash(s) PROVE SchemaInv'
  BY <1>5, CrashKeeps
<1>6. ASSUME NEW s \in Servers, NEW r \in RuleIds,
             \/ \E p \in Payloads : CreateRule(s, r, p) \/ UpdateRule(s, r, p)
             \/ DeleteRule(s, r)
      PROVE  SchemaInv'
  BY <1>6, RuleServiceKeeps
<1>7. ASSUME NEW s \in Servers, NEW i \in RecordIds,
             CreateRow(s, i) \/ ClaimRow(s, i) \/ FinishRow(s, i)
      PROVE  SchemaInv'
  BY <1>7, WorkerKeeps
<1>8. QED
  BY <1>1, <1>2, <1>3, <1>4, <1>5, <1>6, <1>7 DEF SchemaNext

-----------------------------------------------------------------------------
(* What the invariant gives.                                                *)

(* The invariant, in every state of the system.                             *)
THEOREM SchemaInvariance == SchemaSpec => []SchemaInv
<1>1. SchemaInit => SchemaInv
  BY SchemaInitially
<1>2. SchemaInv /\ [SchemaNext]_schemaVars => SchemaInv'
  BY SchemaStep
<1>3. QED
  BY <1>1, <1>2, PTL DEF SchemaSpec

(* A process serves only with all tables and columns, also while another    *)
(* runs the statements of mysql.py again.                                   *)
THEOREM SchemaServedComplete == SchemaSpec => []ServesCompleteSchema
<1>1. SchemaInv => ServesCompleteSchema
  BY DEF SchemaInv, ServedCompletes, SchemaComplete, ServesCompleteSchema
<1>2. QED
  BY <1>1, SchemaInvariance, PTL

(* Once a process serves, a threshold an older version stored per year is   *)
(* divided, and only once, however many processes start and die; unless one *)
(* died between adding the column and committing the division.              *)
THEOREM ThresholdsAreScaledOnce == SchemaSpec => []ThresholdScaledOnce
<1>1. SchemaInv => ThresholdScaledOnce
  <2> SUFFICES ASSUME SchemaInv, ~torn, NEW s \in Servers, NEW r \in RuleIds,
                      server[s].pc = "ready", yearly[r] > 0
               PROVE  HasDivided(r)
    BY DEF ThresholdScaledOnce, HasDivided
  <2>1. SchemaComplete /\ ~Dividing
    BY WhileServing
  <2>2. YearlyDivided(r)
    BY DEF SchemaInv, ThresholdsDivided
  <2>3. QED
    BY <2>1, <2>2 DEF YearlyDivided, SchemaComplete
<1>2. QED
  BY <1>1, SchemaInvariance, PTL

(* No statement of a bootstrap, and no death, changes a row this version    *)
(* has written.                                                             *)
LEMMA BootstrapLeavesAuthored ==
    ASSUME SchemaInv, NEW s \in Servers, Bootstrap(s)
    PROVE  /\ \A r \in RuleIds \cap authored : rule'[r] = rule[r]
           /\ \A i \in RecordIds \cap authored : row'[i] = row[i]
<1>1. /\ \A r \in RuleIds \cap authored : rule[r].close > 0 /\ rule[r].cap > 0
      /\ \A r \in RuleIds \cap authored : ~(rule[r].close = 0) /\ ~(rule[r].cap = 0)
      /\ \A i \in RecordIds \cap authored : Derived(row[i]) = row[i]
  BY DEF SchemaInv, AuthoredStays
<1>2. CASE CreateTable(s) \/ Index(s) \/ FinishBootstrap(s)
  BY <1>2 DEF CreateTable, Index, FinishBootstrap, Commits
<1>3. CASE AddColumn(s)
  BY <1>3 DEF AddColumn, Commits, rows
<1>4. CASE DeriveStatus(s)
  <2>1. row' = [i \in RecordIds |-> Derived(row[i])] /\ rule' = rule
    BY <1>4 DEF DeriveStatus
  <2>2. QED
    BY <1>1, <2>1, Zenon
<1>5. CASE Scale(s)
  <2>1. row' = row /\ (~server[s].added => rule' = rule)
    BY <1>5 DEF Scale, MustScale
  <2>2. server[s].added => authored = {}
    BY DEF SchemaInv, AddedFirst
  <2>3. QED
    BY <2>1, <2>2
<1>6. CASE CopyThreshold(s)
  <2>1. PICK kind \in {"funding", "spread"} :
          /\ rule' = [r \in RuleIds |->
                IF rule[r].kind = kind /\ rule[r].close = 0 /\ rule[r].open > 0
                THEN [rule[r] EXCEPT !.close = rule[r].open] ELSE rule[r]]
          /\ row' = row
    BY <1>6 DEF CopyThreshold
  <2>2. QED
    BY <1>1, <2>1, Zenon
<1>7. CASE FillCaps(s)
  <2>1. /\ rule' = [r \in RuleIds |-> IF rule[r].cap = 0
                       THEN [rule[r] EXCEPT !.cap = rule[r].size] ELSE rule[r]]
        /\ row' = row
    BY <1>7 DEF FillCaps
  <2>2. QED
    BY <1>1, <2>1, Zenon
<1>8. QED
  BY <1>2, <1>3, <1>4, <1>5, <1>6, <1>7 DEF Bootstrap

(* A step of a start leaves them alone, whichever it is.                    *)
LEMMA RestartLeavesAuthored ==
    ASSUME SchemaInv, SchemaNext, Restarting
    PROVE  /\ \A r \in RuleIds \cap authored : rule'[r] = rule[r]
           /\ \A i \in RecordIds \cap authored : row'[i] = row[i]
<1>1. server' # server
  BY DEF Restarting
<1>2. PICK s \in Servers :
        \/ Start(s) \/ TakeLock(s) \/ LockTimesOut(s) \/ Bootstrap(s) \/ Crash(s)
        \/ \E r \in RuleIds : \E new : StoreRule(r, new)
        \/ \E i \in RecordIds : \E new : StoreRow(i, new)
  BY Zenon DEF SchemaNext, CreateRule, UpdateRule, DeleteRule, CreateRow, ClaimRow, FinishRow
<1>3. CASE Start(s) \/ TakeLock(s) \/ LockTimesOut(s)
  BY <1>3 DEF Start, TakeLock, LockTimesOut, rows
<1>4. CASE Bootstrap(s)
  BY <1>4, BootstrapLeavesAuthored
<1>5. CASE Crash(s)
  <2>1. \/ rule' = rule /\ row' = row
        \/ rule' = committed.rule /\ row' = committed.row
    BY <1>5 DEF Crash
  <2>2. QED
    BY <2>1 DEF SchemaInv, AuthoredStays
<1>6. CASE (\E r \in RuleIds : \E new : StoreRule(r, new))
           \/ (\E i \in RecordIds : \E new : StoreRow(i, new))
  BY <1>1, <1>6 DEF StoreRule, StoreRow
<1>7. QED
  BY <1>2, <1>3, <1>4, <1>5, <1>6

(* A start, complete, repeated or cut short, never changes a rule that this *)
(* version's validation accepted.                                           *)
THEOREM RestartsKeepRules == SchemaSpec => RestartKeepsRules
<1>1. SchemaInv /\ [SchemaNext]_schemaVars
      => [Restarting => \A r \in RuleIds \cap authored : rule'[r] = rule[r]]_schemaVars
  BY RestartLeavesAuthored
<1>2. QED
  BY <1>1, SchemaInvariance, PTL DEF SchemaSpec, RestartKeepsRules

(* Nor does it move a transfer record this version has written.             *)
THEOREM RestartsKeepRecords == SchemaSpec => RestartKeepsRecords
<1>1. SchemaInv /\ [SchemaNext]_schemaVars
      => [Restarting => \A i \in RecordIds \cap authored : row'[i] = row[i]]_schemaVars
  BY RestartLeavesAuthored
<1>2. QED
  BY <1>1, SchemaInvariance, PTL DEF SchemaSpec, RestartKeepsRecords
=============================================================================
