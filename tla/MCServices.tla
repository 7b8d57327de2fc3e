----------------------------- MODULE MCServices -----------------------------
(***************************************************************************)
(* The instances of the services TLC checks in one run: in each behaviour  *)
(* one part moves, from one of its scenes, and the others rest.            *)
(***************************************************************************)
EXTENDS Transfers, Accounts, Schema, Sessions, RuntimeStore, MCOpportunities

VARIABLE part

Parts == {"transfers", "accounts", "schema", "sessions", "store", "opportunities"}

-----------------------------------------------------------------------------
(* Transfers: an account of a spot market and one of a swap market, at two  *)
(* exchanges, of one, or with an address only internal transfers reach.     *)
WalletRow(k, d) == [live |-> TRUE, key |-> k, tested |-> TRUE, address |-> d]
TwoExchanges == <<WalletRow("a", "chain"), WalletRow("b", "chain")>>
OneExchange == <<WalletRow("a", "none"), WalletRow("a", "none")>>
Unreachable == <<WalletRow("a", "chain"), WalletRow("b", "internal")>>

TransferScene(wallets, crew, d) ==
    [wallet |-> wallets, crew |-> crew, budget |-> Times(BudgetKinds, d)]
One == {"w1"}

MCTransferScenes ==
    {TransferScene(TwoExchanges, {}, <<>>),
     TransferScene(TwoExchanges, TransferWorkers, [plan |-> 2]),
     TransferScene(OneExchange, TransferWorkers,
                   [plan |-> 1, manual |-> 1, lost |-> 1]),
     TransferScene(Unreachable, One, [plan |-> 1, redis |-> 1, edit |-> 1]),
     TransferScene(TwoExchanges, One,
                   [plan |-> 2, refuse |-> 2, redis |-> 1, unlock |-> 1]),
     TransferScene(OneExchange, One, [plan |-> 2, refuse |-> 2, test |-> 1]),
     TransferScene(TwoExchanges, One,
                   [plan |-> 1, manual |-> 1, refuse |-> 1, lost |-> 1]),
     TransferScene(TwoExchanges, One, [plan |-> 1, db |-> 2, manual |-> 1]),
     TransferScene(TwoExchanges, One, [plan |-> 2, death |-> 1, delete |-> 1])}

-----------------------------------------------------------------------------
(* Accounts: a new one, an old one that has proved itself, and two of which *)
(* one may be short of its share.                                           *)
AccountRow(life, verdict, amount, ratio) ==
    [life |-> life, key |-> "a", verdict |-> verdict, amount |-> amount,
     ratio |-> ratio]
Unborn == AccountRow("unborn", "untested", 0, 0)
NewAccount == <<AccountRow("live", "untested", 0, 0), Unborn>>
OldAccount == <<AccountRow("live", "success", 1960, 37), Unborn>>
TwoAccounts == <<AccountRow("live", "success", 1960, 37),
                 AccountRow("live", "success", 900, 37)>>

AccountScene(accounts, first, d) ==
    [account |-> accounts, funds |-> <<first, 0>>, budget |-> Times(AccountKinds, d)]

MCAccountScenes ==
    {AccountScene(NewAccount, 900, <<>>),
     AccountScene(NewAccount, 900, [update |-> 1, test |-> 1, revoke |-> 1, outage |-> 1]),
     AccountScene(NewAccount, 900, [create |-> 1, test |-> 1, database |-> 1]),
     AccountScene(OldAccount, 900, [delete |-> 1, test |-> 1, death |-> 1, redis |-> 1]),
     AccountScene(OldAccount, 900,
                  [expire |-> 1, test |-> 1, move |-> 1, refresh |-> 1]),
     AccountScene(OldAccount, 900,
                  [test |-> 1, move |-> 1, redis |-> 1, database |-> 1]),
     AccountScene(TwoAccounts, 1960, [plan |-> 1, move |-> 1, update |-> 1])}

-----------------------------------------------------------------------------
(* Schema: a database of an older version, one whose upgrade was cut short, *)
(* an empty one, and a complete one with a rule and a record.               *)
Database(names, columns, rules, status, d) ==
    [tables |-> names, missing |-> columns,
     rule |-> [r \in RuleIds |-> rules],
     row |-> [i \in RecordIds |->
                 IF status = "none" THEN NoRow
                 ELSE [status |-> status, execute |-> "pending_execute",
                       result |-> "none"]],
     chances |-> Times(StartKinds, d)]

YearlyRule == [kind |-> "funding", open |-> 10950, close |-> 0, cap |-> 0, size |-> 5]
SpreadRule == [kind |-> "spread", open |-> 20, close |-> 0, cap |-> 0, size |-> 5]

MCSchemaScenes ==
    {Database({}, {}, NoRule, "none", <<>>),
     Database(AllTables \ {"system_exchange_configs"}, AllColumns, YearlyRule,
              "processing", [start |-> 3, crash |-> 1]),
     Database(AllTables, {"min_net_funding_rate_threshold", "action"}, YearlyRule,
              "none", [start |-> 2, crash |-> 1, slow |-> 1, edit |-> 1]),
     Database({}, {}, NoRule, "none",
              [start |-> 2, crash |-> 1, slow |-> 1, edit |-> 1]),
     Database(AllTables, {}, SpreadRule, "created",
              [start |-> 3, record |-> 3, edit |-> 1])}

-----------------------------------------------------------------------------
(* Sessions, and the hash of states in Redis.                               *)
MCSessionScenes ==
    {Times(SessionKinds, <<>>),
     Times(SessionKinds, [register |-> 3, abort |-> 1]),
     Times(SessionKinds, [register |-> 1, login |-> 1, resolve |-> 3,
                          logout |-> 1, outage |-> 1, lapse |-> 1])}

StoreScene(copies, d) == [copies |-> copies, calls |-> Times(CallKinds, d)]

MCStoreScenes ==
    {StoreScene(FALSE, <<>>),
     StoreScene(FALSE, [mark |-> 2, clear |-> 2, again |-> 1]),
     StoreScene(FALSE, [mark |-> 2, clear |-> 1, away |-> 1]),
     StoreScene(TRUE, [mark |-> 3, lapse |-> 1, away |-> 1, again |-> 1]),
     StoreScene(TRUE, [mark |-> 2, clear |-> 2])}

MCAllOpportunityScenes == <<NoOpportunities>> \o MCOpportunityScenes

-----------------------------------------------------------------------------
(* The part that moves starts from a scene in which something may happen,   *)
(* every other one from its scene without.                                  *)
Starts(name, quota) == part = name <=> \E k \in DOMAIN quota : quota[k] > 0

ServicesInit ==
    /\ part \in Parts
    /\ TransferInit /\ Starts("transfers", budget)
    /\ AccountInit /\ Starts("accounts", allowance)
    /\ SchemaInit /\ Starts("schema", chances)
    /\ SessionInit /\ Starts("sessions", tries)
    /\ StoreInit /\ Starts("store", calls)
    /\ OpportunityInit /\ Starts("opportunities", times)

Rests(vars, name) == part # name => UNCHANGED vars

ServicesNext ==
    /\ UNCHANGED part
    /\ \/ part = "transfers" /\ TransferNext
       \/ part = "accounts" /\ AccountNext
       \/ part = "schema" /\ SchemaNext
       \/ part = "sessions" /\ SessionNext
       \/ part = "store" /\ StoreNext
       \/ part = "opportunities" /\ OpportunityNext
    /\ Rests(transferVars, "transfers")
    /\ Rests(accountVars, "accounts")
    /\ Rests(schemaVars, "schema")
    /\ Rests(sessionVars, "sessions")
    /\ Rests(storeVars, "store")
    /\ Rests(rowVars, "opportunities")

servicesVars == <<part, transferVars, accountVars, schemaVars, sessionVars,
                  storeVars, rowVars>>

(* TransferFairness and OpportunityFairness, of the part that moves.        *)
ServicesFairness ==
    /\ \A w \in TransferWorkers :
          WF_transferVars(part = "transfers" /\ WorkerStep(w))
    /\ WF_rowVars(part = "opportunities" /\ WorkerSteps)

ServicesSpec == ServicesInit /\ [][ServicesNext]_servicesVars /\ ServicesFairness

(* RowsCatchUp, which says something of behaviours in which rows are built. *)
RowsOfThePartCatchUp == <>[](part = "opportunities" => RowsAreOfNow)
=============================================================================
