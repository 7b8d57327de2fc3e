------------------------------- MODULE Schema -------------------------------
(***************************************************************************)
(* The bootstrap of the MySQL schema (mysql.py) and the rows it rewrites   *)
(* at every start of a process: strategy rules, which the rule service     *)
(* edits, and transfer records, which the transfer worker moves on.  The   *)
(* web process and the worker process each run the whole bootstrap, one at *)
(* a time under an advisory lock, while the other may already be serving.  *)
(*                                                                         *)
(* One action is one statement.  DDL commits what was written before it;   *)
(* rows written and not yet committed are locked, and are restored when    *)
(* the process dies.  Thresholds are in units of the fourth decimal.  What *)
(* every start repeats with the same result is left out: the first user is *)
(* made administrator, snapshots of an older key are copied, the exchanges *)
(* are seeded, the default of a column is set.                             *)
(***************************************************************************)
EXTENDS Integers, Sequences, SequencesExt

CONSTANTS
    Servers,        \* processes that initialize the connection manager
    RuleIds, Rates, Sizes,
    RecordIds,
    SchemaScenes    \* the database found, and how often things may happen

StartKinds == {"start", "crash", "slow", "edit", "record"}
RuleKinds == {"none", "funding", "spread"}
RuleRows == [kind : RuleKinds, open : Nat, close : Nat, cap : Nat, size : Nat]

NoRule == [kind |-> "none", open |-> 0, close |-> 0, cap |-> 0, size |-> 0]
NoRow == [status |-> "none", execute |-> "none", result |-> "none"]

-----------------------------------------------------------------------------
(* The statements of _ensure_schema_with_connection, in order.              *)

Do(op) == <<[op |-> op, name |-> "none"]>>
Create(names) == [i \in DOMAIN names |-> [op |-> "create", name |-> names[i]]]
Add(names) == [i \in DOMAIN names |-> [op |-> "add", name |-> names[i]]]

AuthTables == <<"users", "user_sessions", "auth_login_logs">>
AccountTables == <<"exchange_accounts", "account_funding_addresses",
    "exchange_asset_networks", "account_transfer_records",
    "account_auto_transfer_configs">>
MarketTables == <<"strategy_rules", "exchange_markets", "exchange_market_pairs">>
ExecutionTables == <<"arbitrage_executions", "arbitrage_order_legs",
    "arbitrage_fill_records", "arbitrage_positions">>
SnapshotTables == <<"opportunity_snapshots", "public_opportunity_snapshots",
    "system_exchange_configs">>

UserColumns == <<"is_admin">>
AccountColumns == <<"connection_test_status", "funding_ratio_percent",
    "current_available_amount", "current_available_synced_at">>
WorkerColumns == <<"is_worker_enabled">>
TransferColumns == <<"execute_status", "result_status", "failure_type",
    "failure_reason", "config_fingerprint", "processed_at", "actual_to_network",
    "actual_to_address_value", "actual_to_memo_tag">>
CapColumns == <<"max_position_usdt">>
FundingColumns == <<"min_net_funding_rate_threshold">>
SpreadColumns == <<"max_spread_rate_threshold", "min_close_spread_rate_threshold">>
ExecutionColumns == <<"source_execution_id", "pair_key", "action">>
LegColumns == <<"retry_count", "last_retry_at">>
FeeColumns == <<"maker_fee_rate", "taker_fee_rate", "fee_rate_synced_at">>

AllTables == ToSet(AuthTables \o AccountTables \o MarketTables \o ExecutionTables
                   \o SnapshotTables)
AllColumns == ToSet(UserColumns \o AccountColumns \o WorkerColumns
                    \o TransferColumns \o CapColumns \o FundingColumns
                    \o SpreadColumns \o ExecutionColumns \o LegColumns
                    \o FeeColumns)

Statements ==
    Create(AuthTables) \o Create(AccountTables) \o Create(MarketTables)
    \o Create(ExecutionTables) \o Create(SnapshotTables)
    \o Add(UserColumns) \o Add(AccountColumns) \o Add(WorkerColumns)
    \o Add(TransferColumns) \o Do("derive status") \o Do("index")
    \o Add(CapColumns) \o Add(FundingColumns) \o Do("scale") \o Do("copy funding")
    \o Add(SpreadColumns) \o Do("copy spread") \o Add(ExecutionColumns)
    \o Do("index") \o Add(LegColumns) \o Add(FeeColumns) \o Do("fill caps")
    \o Do("commit")

-----------------------------------------------------------------------------
VARIABLES
    tables,     \* tables there are
    missing,    \* columns an older version's tables lack
    rule,       \* strategy_rules, as the latest statement left them
    row,        \* account_transfer_records, likewise
    committed,  \* the rows as last committed
    unsettled,  \* tables with rows written and not committed, and "division"
                \* while the division of the thresholds is not committed
    lockedBy,   \* who holds schema_bootstrap
    server,
    yearly,     \* history: thresholds an older version stored, per year
    torn,       \* history: a bootstrap died between adding a column and the
                \* commit of the update that goes with it
    authored,   \* history: rules and records this version has written
    chances

schemaVars == <<tables, missing, rule, row, committed, unsettled, lockedBy, server,
                yearly, torn, authored, chances>>
rows == <<rule, row, committed, unsettled>>
past == <<yearly, torn, authored>>

Takes(k) == chances[k] > 0 /\ chances' = [chances EXCEPT ![k] = @ - 1]

Down == [pc |-> "down", at |-> 1, added |-> FALSE]

(* Rules and records are rows of different tables, and no process has the   *)
(* name a free lock has.                                                    *)
ASSUME DifferentRows == RuleIds \cap RecordIds = {}
ASSUME NobodyServes == "nobody" \notin Servers

ASSUME SchemaAssumption ==
    /\ Rates \subseteq Nat /\ Sizes \subseteq Nat
    /\ SchemaScenes \subseteq [tables : SUBSET AllTables,
                               missing : SUBSET AllColumns,
                               rule : [RuleIds -> RuleRows],
                               row : [RecordIds -> [status : STRING,
                                         execute : STRING, result : STRING]],
                               chances : [StartKinds -> Nat]]

SchemaInit ==
    /\ \E s \in SchemaScenes :
          /\ tables = s.tables /\ missing = s.missing
          /\ rule = s.rule /\ row = s.row /\ chances = s.chances
    /\ committed = [rule |-> rule, row |-> row]
    /\ unsettled = {}
    /\ lockedBy = "nobody"
    /\ server = [s \in Servers |-> Down]
    /\ yearly = [r \in RuleIds |->
                    IF rule[r].kind = "funding" /\ ToSet(FundingColumns) \subseteq missing
                    THEN rule[r].open ELSE 0]
    /\ torn = FALSE
    /\ authored = {}

-----------------------------------------------------------------------------
(* A process starts; initialize runs the bootstrap before anything else.    *)

Start(s) ==
    /\ server[s].pc = "down"
    /\ Takes("start")
    /\ server' = [server EXCEPT ![s] = [Down EXCEPT !.pc = "wait"]]
    /\ UNCHANGED <<tables, missing, rows, lockedBy, past>>

TakeLock(s) ==
    /\ server[s].pc = "wait"
    /\ lockedBy = "nobody"
    /\ lockedBy' = s
    /\ server' = [server EXCEPT ![s].pc = "boot"]
    /\ UNCHANGED <<tables, missing, rows, past, chances>>

(* Mutant: the lock is only a courtesy.                                     *)
GoesOnWithoutLock(s) ==
    /\ server[s].pc = "wait"
    /\ lockedBy # "nobody"
    /\ Takes("slow")
    /\ server' = [server EXCEPT ![s].pc = "ready"]
    /\ UNCHANGED <<tables, missing, rows, lockedBy, past>>

(* Sixty seconds pass: the start fails.                                     *)
LockTimesOut(s) ==
    /\ server[s].pc = "wait"
    /\ lockedBy # "nobody"
    /\ Takes("slow")
    /\ server' = [server EXCEPT ![s] = Down]
    /\ UNCHANGED <<tables, missing, rows, lockedBy, past>>

Statement(s) == Statements[server[s].at]
At(s, op) == server[s].pc = "boot" /\ Statement(s).op = op
OnTo(s) == server' = [server EXCEPT ![s].at = @ + 1]

Commits == committed' = [rule |-> rule, row |-> row] /\ unsettled' = {}
          /\ UNCHANGED <<rule, row>>

CreateTable(s) ==
    /\ At(s, "create")
    /\ tables' = tables \cup {Statement(s).name}
    /\ Commits
    /\ OnTo(s)
    /\ UNCHANGED <<missing, lockedBy, past, chances>>

(* A column that is there is left alone, and nothing is committed.          *)
AddColumn(s) ==
    LET c == Statement(s).name
    IN  /\ At(s, "add")
        /\ missing' = missing \ {c}
        /\ IF c \in missing THEN Commits ELSE UNCHANGED rows
        /\ server' = [server EXCEPT ![s].at = @ + 1,
                         ![s].added = @ \/ c \in missing \cap ToSet(FundingColumns)]
        /\ UNCHANGED <<tables, lockedBy, past, chances>>

(* Dropping or adding a key commits, whether the key was there or not.      *)
Index(s) ==
    /\ At(s, "index")
    /\ Commits
    /\ OnTo(s)
    /\ UNCHANGED <<tables, missing, lockedBy, past, chances>>

Writes(table) == unsettled' = unsettled \cup {table} /\ UNCHANGED committed

(* The statuses of a record follow from the one an older version had.       *)
Derived(r) ==
    IF r.status = "none" THEN r
    ELSE [r EXCEPT
        !.execute = CASE r.status \in {"pending", "created"} -> "pending_execute"
                      [] r.status = "processing" -> "executing"
                      [] OTHER -> "processed",
        !.result = IF r.status \in {"success", "failed", "ignored"}
                   THEN r.status ELSE "none"]

DeriveStatus(s) ==
    /\ At(s, "derive status")
    /\ row' = [i \in RecordIds |-> Derived(row[i])]
    /\ Writes("account_transfer_records")
    /\ OnTo(s)
    /\ UNCHANGED <<tables, missing, rule, lockedBy, past, chances>>

(* Three funding periods a day: a yearly rate becomes one of a period.      *)
PerPeriod(rate) == (rate + 547) \div 1095

(* Mutant: every start scales.                                              *)
MustAlwaysScale(s) == s \in Servers

MustScale(s) == server[s].added

Scale(s) ==
    /\ At(s, "scale")
    /\ IF MustScale(s)
       THEN /\ rule' = [r \in RuleIds |->
                  IF rule[r].kind = "funding"
                  THEN [rule[r] EXCEPT !.open = PerPeriod(@)] ELSE rule[r]]
            /\ unsettled' = unsettled \cup {"strategy_rules", "division"}
            /\ UNCHANGED committed
       ELSE UNCHANGED <<rule, committed, unsettled>>
    /\ OnTo(s)
    /\ UNCHANGED <<tables, missing, row, lockedBy, past, chances>>

(* A rule without a closing threshold closes where it opens.                *)
CopyThreshold(s) ==
    \E kind \in {"funding", "spread"} :
        /\ At(s, IF kind = "funding" THEN "copy funding" ELSE "copy spread")
        /\ rule' = [r \in RuleIds |->
              IF rule[r].kind = kind /\ rule[r].close = 0 /\ rule[r].open > 0
              THEN [rule[r] EXCEPT !.close = rule[r].open] ELSE rule[r]]
        /\ Writes("strategy_rules")
        /\ OnTo(s)
        /\ UNCHANGED <<tables, missing, row, lockedBy, past, chances>>

FillCaps(s) ==
    /\ At(s, "fill caps")
    /\ rule' = [r \in RuleIds |->
          IF rule[r].cap = 0 THEN [rule[r] EXCEPT !.cap = rule[r].size]
          ELSE rule[r]]
    /\ Writes("strategy_rules")
    /\ OnTo(s)
    /\ UNCHANGED <<tables, missing, row, lockedBy, past, chances>>

(* The last commit, the release of the lock; account names are cleaned of a *)
(* suffix, and the process is initialized.                                  *)
FinishBootstrap(s) ==
    /\ At(s, "commit")
    /\ Commits
    /\ lockedBy' = "nobody"
    /\ server' = [server EXCEPT ![s] = [Down EXCEPT !.pc = "ready"]]
    /\ UNCHANGED <<tables, missing, past, chances>>

(* A process dies.  Its connection goes, and with it the lock and what was  *)
(* not committed.                                                           *)
Crash(s) ==
    LET holds == lockedBy = s
    IN  /\ server[s].pc # "down"
        /\ Takes("crash")
        /\ server' = [server EXCEPT ![s] = Down]
        /\ IF holds
           THEN /\ lockedBy' = "nobody"
                /\ rule' = committed.rule /\ row' = committed.row
                /\ unsettled' = {}
                /\ torn' = (torn \/ (server[s].added
                                    /\ (At(s, "scale") \/ "division" \in unsettled)))
           ELSE UNCHANGED <<lockedBy, rule, row, unsettled, torn>>
        /\ UNCHANGED <<tables, missing, committed, yearly, authored>>

-----------------------------------------------------------------------------
(* Processes that serve.  A write waits for rows a bootstrap has written.   *)

MayWrite(s, table) == server[s].pc = "ready" /\ table \notin unsettled

StoreRule(r, new) ==
    /\ rule' = [rule EXCEPT ![r] = new]
    /\ committed' = [committed EXCEPT !.rule[r] = new]
    /\ yearly' = [yearly EXCEPT ![r] = 0]
    /\ UNCHANGED <<tables, missing, row, unsettled, lockedBy, server, torn>>

(* Mutant: a rule may leave its closing threshold out.                      *)
ValidWithoutClose(p) ==
    /\ p.size > 0 /\ p.cap > 0
    /\ p.open > 0
    /\ p.close <= p.open

(* _validate_payload.                                                       *)
Valid(p) ==
    /\ p.size > 0 /\ p.cap > 0
    /\ p.open > 0 /\ p.close > 0
    /\ p.close <= p.open

Payloads == [kind : {"funding", "spread"}, open : Rates, close : Rates,
             cap : Sizes, size : Sizes]

CreateRule(s, r, p) ==
    /\ MayWrite(s, "strategy_rules") /\ Takes("edit")
    /\ rule[r].kind = "none"
    /\ Valid(p)
    /\ StoreRule(r, p)
    /\ authored' = authored \cup {r}

UpdateRule(s, r, p) ==
    /\ MayWrite(s, "strategy_rules") /\ Takes("edit")
    /\ rule[r].kind # "none"
    /\ Valid(p)
    /\ StoreRule(r, p)
    /\ authored' = authored \cup {r}

DeleteRule(s, r) ==
    /\ MayWrite(s, "strategy_rules") /\ Takes("edit")
    /\ rule[r].kind # "none"
    /\ StoreRule(r, NoRule)
    /\ authored' = authored \ {r}

StoreRow(i, new) ==
    /\ row' = [row EXCEPT ![i] = new]
    /\ committed' = [committed EXCEPT !.row[i] = new]
    /\ authored' = authored \cup {i}
    /\ UNCHANGED <<tables, missing, rule, unsettled, lockedBy, server, yearly, torn>>

(* create_transfer_record, mark_transfer_record_processing and              *)
(* update_transfer_record_status write the old status with the new ones.    *)
CreateRow(s, i) ==
    /\ MayWrite(s, "account_transfer_records") /\ Takes("record")
    /\ row[i] = NoRow
    /\ StoreRow(i, [status |-> "pending", execute |-> "pending_execute",
                    result |-> "none"])

(* Mutant: a claim leaves the old status alone.                             *)
ClaimedRowOnly(r) == [r EXCEPT !.execute = "executing", !.result = "none"]

ClaimedRow(r) == [status |-> "processing", execute |-> "executing", result |-> "none"]

ClaimRow(s, i) ==
    /\ MayWrite(s, "account_transfer_records") /\ Takes("record")
    /\ row[i].execute = "pending_execute"
    /\ StoreRow(i, ClaimedRow(row[i]))

FinishRow(s, i) ==
    /\ MayWrite(s, "account_transfer_records") /\ Takes("record")
    /\ row[i].execute = "executing"
    /\ \E end \in {"success", "failed"} :
          StoreRow(i, [status |-> end, execute |-> "processed", result |-> end])

Bootstrap(s) ==
    \/ CreateTable(s) \/ AddColumn(s) \/ Index(s) \/ DeriveStatus(s)
    \/ Scale(s) \/ CopyThreshold(s) \/ FillCaps(s) \/ FinishBootstrap(s)

SchemaNext ==
    \E s \in Servers :
        \/ Start(s) \/ TakeLock(s) \/ LockTimesOut(s) \/ Bootstrap(s) \/ Crash(s)
        \/ \E r \in RuleIds :
              \/ \E p \in Payloads : CreateRule(s, r, p) \/ UpdateRule(s, r, p)
              \/ DeleteRule(s, r)
        \/ \E i \in RecordIds : CreateRow(s, i) \/ ClaimRow(s, i) \/ FinishRow(s, i)

SchemaSpec == SchemaInit /\ [][SchemaNext]_schemaVars

-----------------------------------------------------------------------------
(* Properties.                                                              *)

(* Once any process serves, a funding threshold an older version stored has *)
(* been turned into a rate per period, and turned only once, however many   *)
(* processes start and die; unless one died after adding the column and     *)
(* before the commit of the division, which nothing then repeats.           *)
ThresholdScaledOnce ==
    ~torn =>
        \A s \in Servers, r \in RuleIds :
            server[s].pc = "ready" /\ yearly[r] > 0 =>
                rule[r].open = PerPeriod(yearly[r])

(* A process that serves finds every table and column its queries name,     *)
(* also while another one is half way through its bootstrap.                *)
ServesCompleteSchema ==
    (\E s \in Servers : server[s].pc = "ready") =>
        tables = AllTables /\ missing = {}

Restarting == \E s \in Servers : server[s].pc \in {"boot", "wait", "down"}
                                 /\ server'[s] # server[s]

(* A start never changes a rule that this version's validation accepted: the *)
(* updates of the bootstrap only see rules of an older one.                 *)
RestartKeepsRules ==
    [][Restarting => \A r \in RuleIds \cap authored : rule'[r] = rule[r]]_schemaVars

(* A start never moves a transfer record between pending, executing and     *)
(* processed: the bootstrap derives the statuses from the old one, which    *)
(* every writer keeps in step.                                              *)
RestartKeepsRecords ==
    [][Restarting => \A i \in RecordIds \cap authored : row'[i] = row[i]]_schemaVars
=============================================================================
