------------------------------ MODULE Accounts ------------------------------
(***************************************************************************)
(* Exchange accounts of one user and what is known of their balances: the  *)
(* rows of exchange_accounts, the balance cache in Redis, the account      *)
(* monitor of the worker process (account_monitor_service) and the         *)
(* requests of the web process (account_command_service).  One action is   *)
(* one committed repository call, one Redis call or one exchange call.     *)
(* What the automatic transfers make of the balances is TransferPlan's.    *)
(***************************************************************************)
EXTENDS Integers, FiniteSetsExt, TransferPlan

CONSTANTS
    AccountIds,
    Credentials,     \* exchange and API keys, as one value
    Amounts,         \* what an account may have available
    Ratios,          \* choices of funding_ratio_percent
    TriggerRatio,    \* percent
    Networks,        \* chains an exchange may offer for USDT
    AccountScenes    \* where a behaviour starts, and its bounds

AccountKinds == {"create", "update", "delete", "test", "move", "expire",
                 "revoke", "outage", "redis", "database", "death", "plan",
                 "refresh"}

(* Accounts are told apart by the primary key of their row.                 *)
ASSUME AccountIdAssumption == AccountIds \subseteq Nat
ASSUME AmountAssumption == Amounts \subseteq Nat /\ 0 \in Amounts
ASSUME RatioAssumption == Ratios \subseteq 0 .. 100 /\ TriggerRatio \in 1 .. 100

Verdicts == {"untested", "success", "failed"}
AccountRows == [life : {"unborn", "live", "deleted"}, key : Credentials,
                verdict : Verdicts, amount : Amounts, ratio : Ratios]

(* A scene: the accounts there are, what they hold, and how often each      *)
(* request and each fault may happen.                                       *)
ASSUME AccountSceneAssumption ==
    AccountScenes \subseteq [account : [AccountIds -> AccountRows],
                             funds : [AccountIds -> Amounts],
                             budget : [AccountKinds -> Nat]]

Absent == 0 - 1

VARIABLES
    account,     \* rows of exchange_accounts
    cached,      \* account-balance:user:...:account:..., or Absent
    catalogue,   \* exchange_asset_networks of one exchange
    funds,       \* what the exchange has available for the account
    accepted,    \* credentials the exchange accepts
    pass,        \* the monitor's pass: rows as read, accounts still to do
    request,     \* the web request under way
    planned,     \* the last transfer planned, with what its rows showed
    proven,      \* history: accounts whose verdict is about their credentials
    outrun,      \* history: accounts written while a pass or form held them
    crossed,     \* history: same, or only one of cache and row written,
                 \* since the last undisturbed refresh
    unforgotten, \* history: accounts whose cached balance was not deleted
    allowance

accountVars == <<account, cached, catalogue, funds, accepted, pass, request,
                 planned, proven, outrun, crossed, unforgotten, allowance>>
world == <<funds, accepted>>
ghosts == <<proven, outrun, crossed, unforgotten>>

Uses(k) == allowance[k] > 0 /\ allowance' = [allowance EXCEPT ![k] = @ - 1]

NoPass == [pc |-> "idle", rows |-> <<>>, todo |-> {}, amount |-> 0]
NoRequest == [pc |-> "idle", id |-> 0, amount |-> 0]
NoPlan == [amount |-> 0, spare |-> 0, need |-> 0]

Live == {a \in AccountIds : account[a].life = "live"}
ReadByPass(a) == pass.pc # "idle" /\ a \in pass.todo
Requested(a) == request.pc # "idle" /\ request.id = a

(* exchange_asset_network_service: nothing stored means the default list.   *)
Offered == IF catalogue = {} THEN Networks \cup {"internal"} ELSE catalogue

AccountInit ==
    /\ \E s \in AccountScenes :
          account = s.account /\ funds = s.funds /\ allowance = s.budget
    /\ cached = [a \in AccountIds |-> Absent]
    /\ catalogue = {}
    /\ accepted = Credentials
    /\ pass = NoPass
    /\ request = NoRequest
    /\ planned = NoPlan
    /\ proven = {a \in AccountIds : account[a].verdict = "success"}
    /\ outrun = {} /\ crossed = {} /\ unforgotten = {}

-----------------------------------------------------------------------------
(* The account monitor: start, and a pass every thirty seconds.             *)

(* start, when the worker process is there again: the rows are read,        *)
(* _prime_cache_from_database, and then written to the cache.  A write      *)
(* Redis does not take is logged and lost (redis_runtime_support).          *)
ReadToPrime ==
    /\ pass.pc = "dead"
    /\ pass' = [pc |-> "prime", rows |-> account, todo |-> Live, amount |-> 0]
    /\ UNCHANGED <<account, cached, catalogue, world, request, planned, ghosts,
                   allowance>>

Prime(lost) ==
    /\ pass.pc = "prime"
    /\ IF lost = {} THEN UNCHANGED allowance ELSE Uses("redis")
    /\ cached' = [a \in AccountIds |-> IF a \in pass.todo \ lost
                                      THEN pass.rows[a].amount ELSE cached[a]]
    /\ pass' = NoPass
    /\ crossed' = crossed \cup lost
    /\ UNCHANGED <<account, catalogue, world, request, planned, proven, outrun,
                   unforgotten>>

BeginPass ==
    /\ pass.pc = "idle"
    /\ Live # {}
    /\ pass' = [pc |-> "fetch", rows |-> account, todo |-> Live, amount |-> 0]
    /\ UNCHANGED <<account, cached, catalogue, world, request, planned, ghosts,
                   allowance>>

Current == Min(pass.todo)

ToNextAccount == pass' =
    IF pass.todo = {Current} THEN NoPass
    ELSE [pass EXCEPT !.pc = "fetch", !.todo = @ \ {Current}]

FetchBalance ==
    /\ pass.pc = "fetch"
    /\ pass.rows[Current].key \in accepted
    /\ pass' = [pass EXCEPT !.pc = "cache", !.amount = funds[Current]]
    /\ crossed' = IF Requested(Current) THEN crossed \cup {Current}
                  ELSE crossed \ {Current}
    /\ UNCHANGED <<account, cached, catalogue, world, request, planned, proven,
                   outrun, unforgotten, allowance>>

(* A fetch that is refused, or does not get through, skips the account.     *)
FetchFails ==
    /\ pass.pc = "fetch"
    /\ \/ pass.rows[Current].key \notin accepted /\ UNCHANGED allowance
       \/ Uses("outage")
    /\ ToNextAccount
    /\ UNCHANGED <<account, cached, catalogue, world, request, planned, ghosts>>

CacheBalance ==
    /\ pass.pc = "cache"
    /\ cached' = [cached EXCEPT ![Current] = pass.amount]
    /\ pass' = [pass EXCEPT !.pc = "amount"]
    /\ UNCHANGED <<account, catalogue, world, request, planned, ghosts, allowance>>

(* Redis does not take the balance: the row gets it all the same.           *)
CacheWriteFails ==
    /\ pass.pc = "cache"
    /\ Uses("redis")
    /\ pass' = [pass EXCEPT !.pc = "amount"]
    /\ crossed' = crossed \cup {Current}
    /\ UNCHANGED <<account, cached, catalogue, world, request, planned, proven,
                   outrun, unforgotten>>

(* Mutant: the row is written only with the verdict.                        *)
StoreBalanceOfUnproven ==
    /\ pass.pc = "amount"
    /\ account' = [account EXCEPT ![Current] =
                      IF @.life = "live" /\ pass.rows[Current].verdict # "success"
                      THEN [@ EXCEPT !.amount = pass.amount] ELSE @]
    /\ IF pass.rows[Current].verdict # "success"
       THEN pass' = [pass EXCEPT !.pc = "verdict"] ELSE ToNextAccount
    /\ UNCHANGED <<cached, catalogue, world, request, planned, ghosts, allowance>>

StoreBalance ==
    /\ pass.pc = "amount"
    /\ account' = [account EXCEPT ![Current] =
                      IF @.life = "live" THEN [@ EXCEPT !.amount = pass.amount]
                      ELSE @]
    /\ IF pass.rows[Current].verdict # "success"
       THEN pass' = [pass EXCEPT !.pc = "verdict"] ELSE ToNextAccount
    /\ UNCHANGED <<cached, catalogue, world, request, planned, ghosts, allowance>>

(* The verdict is written because of the row as it was read.                *)
StoreVerdict ==
    /\ pass.pc = "verdict"
    /\ account' = [account EXCEPT ![Current] =
                      IF @.life = "live" THEN [@ EXCEPT !.verdict = "success"]
                      ELSE @]
    /\ proven' = IF account[Current].key = pass.rows[Current].key
                 THEN proven \cup {Current} ELSE proven
    /\ ToNextAccount
    /\ UNCHANGED <<cached, catalogue, world, request, planned, outrun, crossed,
                   unforgotten, allowance>>

(* Only errors of the exchange are caught account by account: one of the    *)
(* database ends the pass.                                                  *)
RowWriteFails ==
    /\ pass.pc \in {"amount", "verdict"}
    /\ Uses("database")
    /\ pass' = NoPass
    /\ crossed' = IF pass.pc = "amount" THEN crossed \cup {Current} ELSE crossed
    /\ UNCHANGED <<account, cached, catalogue, world, request, planned, proven,
                   outrun, unforgotten>>

MonitorDies ==
    /\ pass.pc # "dead"
    /\ Uses("death")
    /\ pass' = [NoPass EXCEPT !.pc = "dead"]
    /\ UNCHANGED <<account, cached, catalogue, world, request, planned, ghosts>>

-----------------------------------------------------------------------------
(* Requests, one at a time: a handler does not await.                       *)

Quiet == request.pc = "idle"

Overtakes(a) ==
    /\ outrun' = IF ReadByPass(a) THEN outrun \cup {a} ELSE outrun
    /\ crossed' = IF ReadByPass(a) THEN crossed \cup {a} ELSE crossed

(* A new or edited account has the verdict its form brings.  The row, its   *)
(* address and the first cached balance are written one after the other.    *)
CreateAccount(a, k, v) ==
    /\ Quiet
    /\ account[a].life = "unborn"
    /\ Uses("create")
    /\ account' = [account EXCEPT ![a] = [life |-> "live", key |-> k, verdict |-> v,
                                          amount |-> 0, ratio |-> 0]]
    /\ request' = [NoRequest EXCEPT !.pc = "cache", !.id = a]
    /\ proven' = proven \cup {a}
    /\ UNCHANGED <<cached, catalogue, world, pass, planned, outrun, crossed,
                   unforgotten>>

(* Mutant: new credentials keep the old verdict.                            *)
UpdateKeepsVerdict(a, k, v) ==
    /\ Quiet
    /\ a \in Live
    /\ Uses("update")
    /\ account' = [account EXCEPT ![a] = [@ EXCEPT !.key = k]]
    /\ proven' = proven \ {a}
    /\ Overtakes(a)
    /\ UNCHANGED <<cached, catalogue, world, pass, request, planned, unforgotten>>

UpdateAccount(a, k, v) ==
    /\ Quiet
    /\ a \in Live
    /\ Uses("update")
    /\ account' = [account EXCEPT ![a] = [@ EXCEPT !.key = k, !.verdict = v]]
    /\ proven' = IF v = "success" THEN proven \cup {a} ELSE proven \ {a}
    /\ Overtakes(a)
    /\ UNCHANGED <<cached, catalogue, world, pass, request, planned, unforgotten>>

DeleteAccount(a) ==
    /\ Quiet
    /\ a \in Live
    /\ Uses("delete")
    /\ account' = [account EXCEPT ![a] = [@ EXCEPT !.life = "deleted"]]
    /\ request' = [NoRequest EXCEPT !.pc = "forget", !.id = a]
    /\ Overtakes(a)
    /\ UNCHANGED <<cached, catalogue, world, pass, planned, proven, unforgotten>>

(* Mutant: the row goes, the cached balance stays.                          *)
ForgetNothing ==
    /\ request.pc = "forget"
    /\ request' = NoRequest
    /\ UNCHANGED <<account, cached, catalogue, world, pass, planned, ghosts,
                   allowance>>

ForgetBalance ==
    /\ request.pc = "forget"
    /\ cached' = [cached EXCEPT ![request.id] = Absent]
    /\ request' = NoRequest
    /\ UNCHANGED <<account, catalogue, world, pass, planned, ghosts, allowance>>

(* A delete Redis does not carry out is logged, and the request answered.   *)
ForgetFails ==
    /\ request.pc = "forget"
    /\ Uses("redis")
    /\ request' = NoRequest
    /\ unforgotten' = unforgotten \cup {request.id}
    /\ UNCHANGED <<account, cached, catalogue, world, pass, planned, proven, outrun,
                   crossed>>

(* The form tests the credentials k it shows, saved or not; the verdict goes *)
(* to the row.                                                              *)
TestConnection(a, k) ==
    /\ Quiet
    /\ a \in Live
    /\ Uses("test")
    /\ account' = [account EXCEPT ![a] = [@ EXCEPT !.verdict =
                      IF k \in accepted THEN "success" ELSE "failed"]]
    /\ request' = IF k \in accepted
                  THEN [NoRequest EXCEPT !.pc = "snapshot", !.id = a] ELSE NoRequest
    /\ proven' = IF k = account[a].key THEN proven \cup {a} ELSE proven \ {a}
    /\ outrun' = IF k = account[a].key /\ ~ReadByPass(a)
                 THEN outrun ELSE outrun \cup {a}
    /\ UNCHANGED <<cached, catalogue, world, pass, planned, crossed, unforgotten>>

(* After a good test the balance is read with the row's credentials; if     *)
(* that fails the request is done.                                          *)
TakeSnapshot ==
    /\ request.pc = "snapshot"
    /\ \/ /\ account[request.id].key \in accepted
          /\ request' = [request EXCEPT !.pc = "amount", !.amount = funds[request.id]]
          /\ UNCHANGED allowance
       \/ /\ account[request.id].key \notin accepted
          /\ request' = NoRequest
          /\ UNCHANGED allowance
       \/ request' = NoRequest /\ Uses("outage")
    /\ UNCHANGED <<account, cached, catalogue, world, pass, planned, ghosts>>

StoreSnapshot ==
    /\ request.pc = "amount"
    /\ account' = [account EXCEPT ![request.id] =
                      [@ EXCEPT !.amount = request.amount]]
    /\ request' = [request EXCEPT !.pc = "cache"]
    /\ Overtakes(request.id)
    /\ UNCHANGED <<cached, catalogue, world, pass, planned, proven, unforgotten,
                   allowance>>

(* Every error of the database ends the request without a word.             *)
SnapshotWriteFails ==
    /\ request.pc = "amount"
    /\ Uses("database")
    /\ request' = NoRequest
    /\ UNCHANGED <<account, cached, catalogue, world, pass, planned, ghosts>>

(* seed_account                                                             *)
SeedBalance ==
    /\ request.pc = "cache"
    /\ cached' = [cached EXCEPT ![request.id] = request.amount]
    /\ request' = NoRequest
    /\ Overtakes(request.id)
    /\ UNCHANGED <<account, catalogue, world, pass, planned, proven, unforgotten,
                   allowance>>

(* The row is there, the balance does not get to Redis: its write fails, or *)
(* the one to the database that comes before it (the address of a new       *)
(* account, the fees of a tested one).                                      *)
SeedFails ==
    /\ request.pc = "cache"
    /\ Uses("redis") \/ Uses("database")
    /\ request' = NoRequest
    /\ crossed' = crossed \cup {request.id}
    /\ UNCHANGED <<account, cached, catalogue, world, pass, planned, proven, outrun,
                   unforgotten>>

SetRatio(a, r) ==
    /\ Quiet
    /\ a \in Live
    /\ Uses("update")
    /\ account' = [account EXCEPT ![a] = [@ EXCEPT !.ratio = r]]
    /\ UNCHANGED <<cached, catalogue, world, pass, request, planned, ghosts>>

(* The rows an exchange returns, and always the internal one: an answer     *)
(* without any chain is stored like the others.                             *)
FetchedNetworks(answer) == answer \cup {"internal"}

RefreshNetworks(answer) ==
    /\ Quiet
    /\ Uses("refresh")
    /\ IF FetchedNetworks(answer) = {} THEN UNCHANGED catalogue
       ELSE catalogue' = FetchedNetworks(answer)
    /\ UNCHANGED <<account, cached, world, pass, request, planned, ghosts>>

(* The web process dies with a request half done.                           *)
RequestDies ==
    /\ ~Quiet
    /\ Uses("death")
    /\ request' = NoRequest
    /\ outrun' = outrun \cup {request.id}
    /\ crossed' = crossed \cup {request.id}
    /\ UNCHANGED <<account, cached, catalogue, world, pass, planned, proven,
                   unforgotten>>

-----------------------------------------------------------------------------
(* Planning an automatic transfer from the cached balances.                 *)

(* A cached balance that cannot be read is one that is not there.           *)
Available(a) == IF cached[a] # Absent THEN cached[a] ELSE account[a].amount

Total == MapThenSumSet(Available, Live)

Target(a) == TargetOf(Total, account[a].ratio, Available(a))

ShownRows ==
    {rows \in [Live -> [available : UNION {Shows(Available(a)) : a \in Live},
                        target : UNION {Shows(Target(a)) : a \in Live},
                        trigger : UNION {Shows(TriggerOf(Target(a), TriggerRatio)) :
                                            a \in Live}]] :
        \A a \in Live :
            /\ rows[a].available \in Shows(Available(a))
            /\ rows[a].target \in Shows(Target(a))
            /\ rows[a].trigger \in Shows(TriggerOf(Target(a), TriggerRatio))}

(* Both accounts have passed their test.  A candidate may be passed over for *)
(* a guard that freezes an account or a route there is not, so any one of   *)
(* the candidates can be the first that will do.                            *)
Usable == {a \in Live : account[a].verdict = "success"}

PlanTransfer ==
    /\ Uses("plan")
    /\ \E rows \in ShownRows : \E p \in Candidates(rows) \cap (Usable \X Usable) :
          planned' = [amount |-> AmountBetween(rows[p[1]], rows[p[2]]),
                      spare |-> Available(p[1]) - Target(p[1]),
                      need |-> Target(p[2]) - Available(p[2])]
    /\ UNCHANGED <<account, cached, catalogue, world, pass, request, ghosts>>

-----------------------------------------------------------------------------
(* The exchange, and the clock.                                             *)

FundsMove(a) ==
    /\ Uses("move")
    /\ \E m \in Amounts : funds' = [funds EXCEPT ![a] = m]
    /\ UNCHANGED <<account, cached, catalogue, accepted, pass, request, planned,
                   ghosts>>

RevokeKey(k) ==
    /\ Uses("revoke")
    /\ accepted' = accepted \ {k}
    /\ UNCHANGED <<account, cached, catalogue, funds, pass, request, planned,
                   ghosts>>

(* Ten minutes pass.                                                        *)
Expire(a) ==
    /\ cached[a] # Absent
    /\ Uses("expire")
    /\ cached' = [cached EXCEPT ![a] = Absent]
    /\ UNCHANGED <<account, catalogue, world, pass, request, planned, ghosts>>

MonitorStep ==
    \/ ReadToPrime
    \/ \E lost \in SUBSET pass.todo : Prime(lost)
    \/ BeginPass
    \/ FetchBalance \/ FetchFails
    \/ CacheBalance \/ CacheWriteFails
    \/ StoreBalance \/ StoreVerdict \/ RowWriteFails

AccountNext ==
    \/ MonitorStep
    \/ MonitorDies
    \/ \E a \in AccountIds :
          \/ \E k \in Credentials, v \in Verdicts :
                CreateAccount(a, k, v) \/ UpdateAccount(a, k, v)
          \/ DeleteAccount(a)
          \/ \E k \in Credentials : TestConnection(a, k)
          \/ \E r \in Ratios : SetRatio(a, r)
          \/ FundsMove(a)
          \/ Expire(a)
    \/ ForgetBalance \/ ForgetFails
    \/ TakeSnapshot
    \/ StoreSnapshot \/ SnapshotWriteFails
    \/ SeedBalance \/ SeedFails
    \/ \E answer \in SUBSET Networks : RefreshNetworks(answer)
    \/ RequestDies
    \/ PlanTransfer
    \/ \E k \in Credentials : RevokeKey(k)

AccountSpec == AccountInit /\ [][AccountNext]_accountVars

-----------------------------------------------------------------------------
(* Properties.                                                              *)

(* A verdict of success is about the credentials of the row: a balance was  *)
(* read with them, a test of them passed, or the form claimed it; unless    *)
(* the row changed under a pass of the monitor, or the form tested other    *)
(* credentials than the row's.                                              *)
VerdictIsEarned ==
    \A a \in Live : account[a].verdict = "success" => a \in proven \cup outrun

(* The cached balance of a deleted account is gone, unless Redis did not    *)
(* take the delete, a pass of the monitor that had still read the account   *)
(* writes it back, or the request died half way; then it stays until it     *)
(* expires.                                                                 *)
CacheFollowsRows ==
    \A a \in AccountIds : account[a].life = "deleted" /\ cached[a] # Absent =>
        Requested(a) \/ a \in outrun \cup unforgotten

(* Cache and row say the same of an account nobody is working on.  A request *)
(* and the monitor write them in opposite order, so their overlap can leave *)
(* them different, as does a failure of the one write or the other; but     *)
(* never beyond the monitor's next visit that succeeds undisturbed.         *)
AmountsAgree ==
    \A a \in Live \ crossed :
        ~ReadByPass(a) /\ ~Requested(a) /\ pass.pc # "dead" =>
            cached[a] \in {Absent, account[a].amount}

(* A planned transfer takes from the source no more than it has beyond its  *)
(* target, and gives no more than the other account lacks, except for what  *)
(* the display texts round away (below a million: 101 dollars).             *)
PlanIsModest ==
    planned.amount <= planned.spare + 101 /\ planned.amount <= planned.need + 101
=============================================================================
