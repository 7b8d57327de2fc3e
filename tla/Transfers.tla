----------------------------- MODULE Transfers -----------------------------
(***************************************************************************)
(* Money transfers between the exchange accounts of one user: the records  *)
(* in account_transfer_records, the two threads that create automatic ones *)
(* (a web request and the auto-transfer monitor), the workers that execute *)
(* them (transfer_execution_monitor_service and transfer_execution_service)*)
(* and the failure guard in Redis that freezes an account                  *)
(* (auto_transfer_account_guard_service).                                  *)
(*                                                                         *)
(* One action is one committed repository call, one Redis call or one      *)
(* exchange call.  Every transfer moves one unit: which pair of accounts   *)
(* the planner picks is left open here (TransferPlan computes it).  An     *)
(* account has one place for its own market ("spot" or "swap") and the     *)
(* place withdrawals leave from and deposits arrive in; they are the same  *)
(* unless the account is in TwoPlaces.                                     *)
(***************************************************************************)
EXTENDS Integers

CONSTANTS
    Wallets,          \* the user's exchange accounts
    SwapWallets,      \* those of market type swap
    TwoPlaces,        \* those whose market is apart from the withdrawal account
    MasterKeys,       \* exchange and API credentials, as one value
    MaxTransfers,     \* bound: records ever created
    TransferWorkers,  \* worker processes: nothing stops a second one
    RefusalKinds,     \* what an exchange call may fail with
    TransferScenes    \* where a behaviour starts, and its bounds

ASSUME WalletAssumption ==
    SwapWallets \subseteq TwoPlaces /\ TwoPlaces \subseteq Wallets
ASSUME MaxTransfersAssumption == MaxTransfers \in Nat

(* AUTO_TRANSFER_FAILURE_META: whose fault, and may it freeze an account.   *)
SourceFaults == {"permission_denied", "api_auth_failed", "ip_whitelist_blocked",
                 "withdraw_disabled", "account_mapping_invalid"}
TargetFaults == {"address_invalid", "network_invalid", "deposit_info_invalid"}
PassingFaults == {"route_unsupported", "temporary_network",
                  "temporary_exchange", "unknown"}
FreezeWorthy == SourceFaults \cup TargetFaults
FaultKinds == FreezeWorthy \cup PassingFaults

ClearedByConnection == SourceFaults
ClearedByAddress == TargetFaults
ClearedByTest == SourceFaults \ {"withdraw_disabled"}

ASSUME RefusalAssumption == RefusalKinds \subseteq FaultKinds

BudgetKinds == {"plan", "manual", "edit", "test", "delete", "unlock",
                "refuse", "lost", "db", "redis", "death"}
WalletRows == [live : BOOLEAN, key : MasterKeys, tested : BOOLEAN,
               address : {"none", "internal", "chain"}]

(* A scene: the accounts, the worker processes that run, and how often each *)
(* request and each fault may happen.                                       *)
ASSUME SceneAssumption ==
    TransferScenes \subseteq [wallet : [Wallets -> WalletRows],
                              crew : SUBSET TransferWorkers,
                              budget : [BudgetKinds -> Nat]]

Transfer == 1 .. MaxTransfers
Creators == {"web", "monitor"}

VARIABLES
    wallet,    \* exchange_accounts with account_funding_addresses
    autoOn,    \* the auto transfer configuration is enabled
    record,    \* account_transfer_records
    lastId,    \* the last id given out
    guard,     \* the Redis hash of account guards
    work,      \* what each worker's thread holds
    hand,      \* what the web request and the monitor hold
    pot,       \* units in the withdrawal account of each wallet
    money,     \* history: what the exchanges did for each record
    dropped,   \* history: records abandoned by a death or a database error
    blamed,    \* history: <<record, wallet, kind>> reported to the guard
    unclear,    \* history: records with a lost reply or a database error
    budget

transferVars == <<wallet, autoOn, record, lastId, guard, work, hand, pot,
                  money, dropped, blamed, unclear, budget>>
ledger == <<wallet, autoOn, record, lastId>>
exchange == <<pot, money>>
history == <<dropped, blamed, unclear>>

Open == {"pending", "executing"}
Closed == {"success", "failed"}
RecordStatuses == {"none", "deleted"} \cup Open \cup Closed

NoGuard == [kind |-> "none", count |-> 0, frozen |-> FALSE]
GuardStates == [kind : FaultKinds \cup {"none"}, count : Nat, frozen : BOOLEAN]

Unladen(pc, todo) == [pc |-> pc, todo |-> todo, id |-> 0, resolved |-> FALSE,
                      before |-> 0, kind |-> "none", seen |-> NoGuard]
IdleWork == Unladen("idle", {})
NoWork == Unladen("off", {})

Asking(pc, a, kinds) ==
    [pc |-> pc, from |-> a, to |-> 0, seen |-> NoGuard, kinds |-> kinds]
IdleHand == Asking("idle", 0, {})

(* The calls a worker makes for the record it claimed.                      *)
ExchangeSteps == {"load", "internal", "inner", "resolve", "withdraw",
                  "before", "credit", "forward"}
SuccessSteps == {"persist", "clear_from", "clear_to", "succeed"}
FailureSteps == {"fail_persist", "fail_status", "oops_persist", "oops_status"}
Holding == ExchangeSteps \cup SuccessSteps \cup FailureSteps
            \cup {"oops_read", "oops_write"}
AfterStatus == {"guard_read", "guard_write"}

Spend(k) == budget[k] > 0 /\ budget' = [budget EXCEPT ![k] = @ - 1]

Fresh == [from |-> 0, to |-> 0, by |-> "none", status |-> "none"]
Untouched == [inner |-> 0, out |-> 0, credited |-> FALSE, forward |-> 0]

TransferInit ==
    /\ \E s \in TransferScenes :
          /\ wallet = s.wallet
          /\ work = [w \in TransferWorkers |->
                       IF w \in s.crew THEN IdleWork ELSE NoWork]
          /\ budget = s.budget
    /\ autoOn = TRUE
    /\ record = [r \in Transfer |-> Fresh]
    /\ lastId = 0
    /\ guard = [a \in Wallets |-> NoGuard]
    /\ hand = [c \in Creators |-> IdleHand]
    /\ pot = [a \in Wallets |-> 0]
    /\ money = [r \in Transfer |-> Untouched]
    /\ dropped = {}
    /\ blamed = {}
    /\ unclear = {}

-----------------------------------------------------------------------------
(* The guard: two failures of one kind in a row freeze an account.          *)

(* Mutant: every failure counts, whatever its kind.                         *)
AfterAnyFailure(seen, kind) ==
    [kind |-> kind, count |-> seen.count + 1,
     frozen |-> seen.frozen \/ seen.count >= 1]

AfterFailure(seen, kind) ==
    LET count == IF seen.kind = kind THEN seen.count + 1 ELSE 1
    IN  [kind |-> kind, count |-> count, frozen |-> seen.frozen \/ count >= 2]

(* With Redis away a state reads as absent and a write is lost.             *)
ReadGuard(a, seen) ==
    \/ seen = guard[a] /\ UNCHANGED budget
    \/ seen = NoGuard /\ guard[a] # NoGuard /\ Spend("redis")

WriteGuard(a, state) ==
    \/ guard' = [guard EXCEPT ![a] = state] /\ UNCHANGED budget
    \/ guard[a] # state /\ UNCHANGED guard /\ Spend("redis")

(* Mutant: a frozen account is cleared like any other.                      *)
ClearableThoughFrozen(seen, kinds) == seen.kind \in kinds

(* clear_non_frozen_account_by_categories: what was read decides.           *)
Clearable(seen, kinds) == ~seen.frozen /\ seen.kind \in kinds

-----------------------------------------------------------------------------
(* Creating records.                                                        *)

(* build_transfer_capability                                                *)
SameMaster(a, b) == wallet[a].key = wallet[b].key

RouteSupported(a, b) == SameMaster(a, b) \/ wallet[b].address = "chain"

Insert(a, b, by) ==
    /\ record' = [record EXCEPT ![lastId + 1] =
                     [from |-> a, to |-> b, by |-> by, status |-> "pending"]]
    /\ lastId' = lastId + 1

WebFree == hand["web"].pc = "idle"

(* One of the planner's candidates that passes every check.                 *)
PickPair(c, a, b) ==
    /\ hand[c].pc = "idle" /\ autoOn
    /\ a # b
    /\ \A x \in {a, b} :
          wallet[x].live /\ wallet[x].tested /\ ~guard[x].frozen
    /\ RouteSupported(a, b)
    /\ Spend("plan")
    /\ hand' = [hand EXCEPT ![c] =
                   [@ EXCEPT !.pc = "check", !.from = a, !.to = b]]
    /\ UNCHANGED <<ledger, guard, work, exchange, history>>

(* Mutant: the check looks for claimed records only.                        *)
ClaimedFor(b) ==
    \E r \in Transfer : record[r].status = "executing" /\ record[r].to = b

OpenFor(b) ==
    \E r \in Transfer : record[r].status \in Open /\ record[r].to = b

CheckOpen(c) ==
    /\ hand[c].pc = "check"
    /\ hand' = [hand EXCEPT ![c] = IF OpenFor(hand[c].to) THEN IdleHand
                                   ELSE [@ EXCEPT !.pc = "insert"]]
    /\ UNCHANGED <<ledger, guard, work, exchange, history, budget>>

(* The foreign keys refuse a record of an account deleted meanwhile.        *)
InsertAuto(c) ==
    /\ hand[c].pc = "insert"
    /\ lastId < MaxTransfers
    /\ IF wallet[hand[c].from].live /\ wallet[hand[c].to].live
       THEN Insert(hand[c].from, hand[c].to, c)
       ELSE UNCHANGED <<record, lastId>>
    /\ hand' = [hand EXCEPT ![c] = IdleHand]
    /\ UNCHANGED <<wallet, autoOn, guard, work, exchange, history, budget>>

(* A manual transfer checks neither guard, balance nor open records.        *)
ManualTransfer(a, b) ==
    /\ WebFree
    /\ a # b /\ wallet[a].live /\ wallet[b].live
    /\ lastId < MaxTransfers
    /\ Spend("manual")
    /\ Insert(a, b, "manual")
    /\ UNCHANGED <<wallet, autoOn, guard, work, hand, exchange, history>>

-----------------------------------------------------------------------------
(* The user's other requests.  A handler never awaits, so the web process   *)
(* runs one at a time; its steps interleave with the workers.               *)

SetAutoTransfer ==
    /\ WebFree
    /\ Spend("edit")
    /\ autoOn' = ~autoOn
    /\ UNCHANGED <<wallet, record, lastId, guard, work, hand, exchange, history>>

EditRow(a) ==
    /\ WebFree
    /\ wallet[a].live
    /\ Spend("edit")
    /\ \E k \in MasterKeys, t \in BOOLEAN :
          /\ wallet' = [wallet EXCEPT ![a] = [@ EXCEPT !.key = k, !.tested = t]]
          /\ hand' = [hand EXCEPT !["web"] =
                Asking("address", a, IF k # wallet[a].key
                                     THEN ClearedByConnection ELSE {})]
    /\ UNCHANGED <<autoOn, record, lastId, guard, work, exchange, history>>

EditAddress ==
    LET a == hand["web"].from
    IN  /\ hand["web"].pc = "address"
        /\ \E d \in {"none", "internal", "chain"} :
             LET kinds == hand["web"].kinds \cup
                             (IF d # wallet[a].address THEN ClearedByAddress
                              ELSE {})
             IN  /\ wallet' = [wallet EXCEPT ![a] = [@ EXCEPT !.address = d]]
                 /\ hand' = [hand EXCEPT !["web"] =
                       IF kinds = {} THEN IdleHand
                       ELSE [@ EXCEPT !.pc = "look", !.kinds = kinds]]
        /\ UNCHANGED <<autoOn, record, lastId, guard, work, exchange, history,
                       budget>>

(* mark_connection_test_status                                              *)
MarkTest(a, t) ==
    /\ WebFree
    /\ wallet[a].live
    /\ Spend("test")
    /\ wallet' = [wallet EXCEPT ![a] = [@ EXCEPT !.tested = t]]
    /\ hand' = [hand EXCEPT !["web"] =
          IF t THEN Asking("look", a, ClearedByTest) ELSE IdleHand]
    /\ UNCHANGED <<autoOn, record, lastId, guard, work, exchange, history>>

LookAtGuard ==
    /\ hand["web"].pc = "look"
    /\ \E seen \in {guard[hand["web"].from], NoGuard} :
          /\ ReadGuard(hand["web"].from, seen)
          /\ hand' = [hand EXCEPT !["web"] =
                IF Clearable(seen, @.kinds)
                THEN [@ EXCEPT !.pc = "clear", !.seen = seen]
                ELSE IdleHand]
    /\ UNCHANGED <<ledger, guard, work, exchange, history>>

ClearGuard ==
    /\ hand["web"].pc = "clear"
    /\ WriteGuard(hand["web"].from, NoGuard)
    /\ hand' = [hand EXCEPT !["web"] = IdleHand]
    /\ UNCHANGED <<ledger, work, exchange, history>>

(* Its guard stays behind, and nobody can unlock it any more.               *)
DeleteWallet(a) ==
    /\ WebFree
    /\ wallet[a].live
    /\ Spend("delete")
    /\ wallet' = [wallet EXCEPT ![a] = [@ EXCEPT !.live = FALSE]]
    /\ record' = [r \in Transfer |->
          IF record[r].status # "none" /\ a \in {record[r].from, record[r].to}
          THEN [record[r] EXCEPT !.status = "deleted"] ELSE record[r]]
    /\ UNCHANGED <<autoOn, lastId, guard, work, hand, exchange, history>>

Unlock(a) ==
    /\ WebFree
    /\ wallet[a].live
    /\ Spend("unlock")
    /\ guard' = [guard EXCEPT ![a] = NoGuard]
    /\ UNCHANGED <<ledger, work, hand, exchange, history>>

-----------------------------------------------------------------------------
(* The worker.                                                              *)

Goes(w, pc) == work' = [work EXCEPT ![w] = [@ EXCEPT !.pc = pc]]

NextRecord(w) == work' = [work EXCEPT ![w] = Unladen("scan", work[w].todo)]

Scan(w) ==
    /\ work[w].pc = "idle"
    /\ \E r \in Transfer : record[r].status = "pending"
    /\ work' = [work EXCEPT ![w] = [@ EXCEPT !.pc = "scan",
                   !.todo = {r \in Transfer : record[r].status = "pending"}]]
    /\ UNCHANGED <<ledger, guard, hand, exchange, history, budget>>

(* Mutant: the update names the record only.                                *)
MayClaimAgain(r) == record[r].status \in Open

(* mark_transfer_record_processing: an update that names the status.        *)
MayClaim(r) == record[r].status = "pending"

TakeUp(w, r) ==
    IF MayClaim(r)
    THEN /\ record' = [record EXCEPT ![r] = [@ EXCEPT !.status = "executing"]]
         /\ work' = [work EXCEPT ![w] = [@ EXCEPT !.pc = "load", !.id = r,
                                                  !.todo = work[w].todo \ {r}]]
    ELSE /\ UNCHANGED record
         /\ work' = [work EXCEPT ![w] = [@ EXCEPT !.todo = work[w].todo \ {r}]]

(* The oldest record read comes first.                                      *)
Claim(w) ==
    /\ work[w].pc = "scan"
    /\ \E r \in work[w].todo :
          (\A s \in work[w].todo : r <= s) /\ TakeUp(w, r)
    /\ UNCHANGED <<wallet, autoOn, lastId, guard, hand, exchange, history, budget>>

EndPass(w) ==
    /\ work[w].pc = "scan" /\ work[w].todo = {}
    /\ Goes(w, "idle")
    /\ UNCHANGED <<ledger, guard, hand, exchange, history, budget>>

From(w) == record[work[w].id].from
To(w) == record[work[w].id].to
IsAuto(w) == record[work[w].id].by # "manual"
Blamed(w) == IF work[w].kind \in TargetFaults THEN To(w) ELSE From(w)

(* The handler of ExchangeError and the one of everything else.             *)
Fails(w, kind) ==
    work' = [work EXCEPT ![w] = [@ EXCEPT !.kind = kind,
                !.pc = IF work[w].resolved THEN "fail_persist" ELSE "fail_status"]]

(* Mutant: every fault of an automatic record counts against an account.    *)
ToReportAnything(w, kind) == IsAuto(w) /\ kind \in FaultKinds

ToReport(w, kind) == IsAuto(w) /\ kind \in FreezeWorthy

Breaks(w, kind) ==
    work' = [work EXCEPT ![w] = [@ EXCEPT !.kind = kind,
                !.pc = IF work[w].resolved THEN "oops_persist"
                       ELSE IF ToReport(w, kind) THEN "oops_read"
                       ELSE "oops_status"]]

(* An exception inside a handler, or before the first one: the pass ends,   *)
(* the record stays executing.                                              *)
Abandons(w) ==
    /\ Spend("db")
    /\ work' = [work EXCEPT ![w] = IdleWork]
    /\ dropped' = dropped \cup {work[w].id}
    /\ UNCHANGED <<record, guard, exchange, blamed, unclear>>

(* Validation and the choice of the route.                                  *)
Route(w) ==
    IF SameMaster(From(w), To(w))
    THEN IF From(w) \in SwapWallets <=> To(w) \in SwapWallets
         THEN Fails(w, "account_mapping_invalid")
         ELSE Goes(w, "internal")
    ELSE CASE wallet[To(w)].address = "none" -> Fails(w, "address_invalid")
           [] wallet[To(w)].address = "internal" -> Fails(w, "network_invalid")
           [] OTHER -> Goes(w, IF From(w) \in TwoPlaces THEN "inner" ELSE "resolve")

Load(w) ==
    /\ work[w].pc = "load"
    /\ \/ /\ IF record[work[w].id].status = "deleted"
             THEN NextRecord(w) ELSE Route(w)
          /\ UNCHANGED <<record, guard, exchange, history, budget>>
       \/ Abandons(w)
    /\ UNCHANGED <<wallet, autoOn, lastId, hand>>

(* An exchange call: it is done, it is refused, or it is done and its reply *)
(* is lost.                                                                 *)
Call(w, next, account, potAfter) ==
    LET r == work[w].id
    IN  /\ \/ /\ work' = next
              /\ money' = [money EXCEPT ![r] = account]
              /\ pot' = potAfter
              /\ UNCHANGED <<unclear, budget>>
           \/ /\ \E k \in RefusalKinds : Fails(w, k)
              /\ Spend("refuse")
              /\ UNCHANGED <<exchange, unclear>>
           \/ /\ Fails(w, "temporary_network")
              /\ Spend("lost")
              /\ money' = [money EXCEPT ![r] = account]
              /\ pot' = potAfter
              /\ unclear' = unclear \cup {r}
        /\ UNCHANGED <<ledger, guard, hand, dropped, blamed>>

(* A call that only reads.                                                  *)
Ask(w, next) ==
    /\ \/ work' = next /\ UNCHANGED budget
       \/ \E k \in RefusalKinds : Fails(w, k) /\ Spend("refuse")
    /\ UNCHANGED <<ledger, guard, hand, exchange, history>>

WithPc(w, pc) == [work EXCEPT ![w] = [@ EXCEPT !.pc = pc]]

(* The first step of the branch of success.                                 *)
Done(w) ==
    WithPc(w, IF work[w].resolved THEN "persist"
              ELSE IF IsAuto(w) THEN "clear_from" ELSE "succeed")

InternalTransfer(w) ==
    LET m == money[work[w].id]
    IN  /\ work[w].pc = "internal"
        /\ Call(w, Done(w), [m EXCEPT !.out = @ + 1, !.credited = TRUE,
                                      !.forward = @ + 1], pot)

MoveToWithdrawal(w) ==
    /\ work[w].pc = "inner"
    /\ Call(w, WithPc(w, "resolve"),
            [money[work[w].id] EXCEPT !.inner = @ + 1],
            [pot EXCEPT ![From(w)] = @ + 1])

(* A deposit address of the wrong OKX account is classified by the words    *)
(* "account type", as a fault of the source.                                *)
ResolveDestination(w) ==
    /\ work[w].pc = "resolve"
    /\ \/ work' = [work EXCEPT ![w] = [@ EXCEPT !.pc = "withdraw",
                                               !.resolved = TRUE]]
          /\ UNCHANGED budget
       \/ Fails(w, "account_mapping_invalid") /\ Spend("refuse")
    /\ UNCHANGED <<ledger, guard, hand, exchange, history>>

(* Mutant: no account waits.                                                *)
NeverWaits(w) == To(w) \notin Wallets

(* Mutant: every account waits.                                             *)
AlwaysWaits(w) == To(w) \in Wallets

(* Only a swap account waits for the money, to move it on.                  *)
WaitsForCredit(w) == To(w) \in SwapWallets

Withdraw(w) ==
    LET m == money[work[w].id]
        taken == IF From(w) \in TwoPlaces THEN 1 ELSE 0
    IN  /\ work[w].pc = "withdraw"
        /\ IF pot[From(w)] < taken
           THEN Fails(w, "temporary_exchange")
                /\ UNCHANGED <<ledger, guard, hand, exchange, history, budget>>
           ELSE Call(w, IF WaitsForCredit(w) THEN WithPc(w, "before") ELSE Done(w),
                     [m EXCEPT !.out = @ + 1],
                     [pot EXCEPT ![From(w)] = @ - taken])

(* balance_before is read after the withdrawal was sent.                    *)
ReadBefore(w) ==
    /\ work[w].pc = "before"
    /\ Ask(w, [work EXCEPT ![w] = [@ EXCEPT !.pc = "credit",
                                            !.before = pot[To(w)]]])

CreditSeen(w) == pot[To(w)] - work[w].before >= 1

(* Mutant: the polls go on until the money is there.                        *)
AwaitCreditForEver(w) ==
    /\ work[w].pc = "credit"
    /\ CreditSeen(w)
    /\ Ask(w, WithPc(w, "forward"))

(* Eighteen polls of ten seconds.                                           *)
AwaitCredit(w) ==
    /\ work[w].pc = "credit"
    /\ IF CreditSeen(w)
       THEN Ask(w, WithPc(w, "forward"))
       ELSE /\ Fails(w, "temporary_network")
            /\ UNCHANGED <<ledger, guard, hand, exchange, history, budget>>

Forward(w) ==
    /\ work[w].pc = "forward"
    /\ IF pot[To(w)] = 0
       THEN /\ Fails(w, "temporary_exchange")
            /\ UNCHANGED <<ledger, guard, hand, exchange, history, budget>>
       ELSE Call(w, Done(w), [money[work[w].id] EXCEPT !.forward = @ + 1],
                 [pot EXCEPT ![To(w)] = @ - 1])

(* The branch of success: the destination, the guards of both accounts, the *)
(* status.  A database error here ends in the handler of everything else,   *)
(* which writes "failed" although the money has moved.                      *)
DatabaseBreaks(w) ==
    /\ \E k \in RefusalKinds \cup {"temporary_exchange"} : Breaks(w, k)
    /\ Spend("db")
    /\ unclear' = unclear \cup {work[w].id}

PersistDestination(w) ==
    /\ work[w].pc = "persist"
    /\ \/ Goes(w, IF IsAuto(w) THEN "clear_from" ELSE "succeed")
          /\ UNCHANGED <<unclear, budget>>
       \/ DatabaseBreaks(w)
    /\ UNCHANGED <<ledger, guard, hand, exchange, dropped, blamed>>

ClearAfterSuccess(w) ==
    /\ \/ /\ work[w].pc = "clear_from"
          /\ WriteGuard(From(w), NoGuard)
          /\ Goes(w, "clear_to")
       \/ /\ work[w].pc = "clear_to"
          /\ WriteGuard(To(w), NoGuard)
          /\ Goes(w, "succeed")
    /\ UNCHANGED <<ledger, hand, exchange, history>>

(* Mutant: a failure is not written to the record.                          *)
FinishSuccess(w, status) ==
    record' = [record EXCEPT ![work[w].id] =
                  IF @.status = "deleted" \/ status = "failed" THEN @
                  ELSE [@ EXCEPT !.status = status]]

(* update_transfer_record_status: a deleted record is not found.            *)
Finish(w, status) ==
    record' = [record EXCEPT ![work[w].id] =
                  IF @.status = "deleted" THEN @ ELSE [@ EXCEPT !.status = status]]

Succeed(w) ==
    /\ work[w].pc = "succeed"
    /\ \/ Finish(w, "success") /\ NextRecord(w) /\ UNCHANGED <<unclear, budget>>
       \/ DatabaseBreaks(w) /\ UNCHANGED record
    /\ UNCHANGED <<wallet, autoOn, lastId, guard, hand, exchange, dropped, blamed>>

(* The handlers of failure: ExchangeError writes the status and then the    *)
(* guard, everything else the guard and then the status.                    *)
PersistAfterFailure(w) ==
    /\ work[w].pc \in {"fail_persist", "oops_persist"}
    /\ \/ /\ Goes(w, IF work[w].pc = "fail_persist" THEN "fail_status"
                     ELSE IF ToReport(w, work[w].kind) THEN "oops_read"
                     ELSE "oops_status")
          /\ UNCHANGED <<record, guard, exchange, history, budget>>
       \/ Abandons(w)
    /\ UNCHANGED <<wallet, autoOn, lastId, hand>>

WriteFailed(w) ==
    /\ work[w].pc \in {"fail_status", "oops_status"}
    /\ \/ /\ Finish(w, "failed")
          /\ IF work[w].pc = "fail_status" /\ ToReport(w, work[w].kind)
             THEN Goes(w, "guard_read") ELSE NextRecord(w)
          /\ UNCHANGED <<guard, exchange, history, budget>>
       \/ Abandons(w)
    /\ UNCHANGED <<wallet, autoOn, lastId, hand>>

(* record_failure: read, add one, write back.                               *)
ReadBlamed(w) ==
    /\ work[w].pc \in {"guard_read", "oops_read"}
    /\ \E seen \in {guard[Blamed(w)], NoGuard} :
          /\ ReadGuard(Blamed(w), seen)
          /\ work' = [work EXCEPT ![w] = [@ EXCEPT !.seen = seen,
                !.pc = IF work[w].pc = "guard_read" THEN "guard_write"
                       ELSE "oops_write"]]
    /\ blamed' = blamed \cup {<<work[w].id, Blamed(w), work[w].kind>>}
    /\ UNCHANGED <<ledger, guard, hand, exchange, dropped, unclear>>

WriteBlamed(w) ==
    /\ work[w].pc \in {"guard_write", "oops_write"}
    /\ WriteGuard(Blamed(w), AfterFailure(work[w].seen, work[w].kind))
    /\ IF work[w].pc = "guard_write" THEN NextRecord(w) ELSE Goes(w, "oops_status")
    /\ UNCHANGED <<ledger, hand, exchange, history>>

-----------------------------------------------------------------------------
(* The rest of the world.                                                   *)

(* A withdrawal arrives at its target; only a swap account looks.           *)
Credit(r) ==
    LET b == record[r].to
    IN  /\ money[r].out > 0 /\ ~money[r].credited
        /\ b \in SwapWallets
        /\ money' = [money EXCEPT ![r] = [@ EXCEPT !.credited = TRUE]]
        /\ pot' = [pot EXCEPT ![b] = @ + 1]
        /\ UNCHANGED <<ledger, guard, work, hand, history, budget>>

(* The account monitor marks an account tested when its balance was read.   *)
MonitorTests(a) ==
    /\ wallet[a].live /\ ~wallet[a].tested
    /\ Spend("test")
    /\ wallet' = [wallet EXCEPT ![a] = [@ EXCEPT !.tested = TRUE]]
    /\ UNCHANGED <<autoOn, record, lastId, guard, work, hand, exchange, history>>

WorkerDies(w) ==
    /\ work[w].pc \notin {"idle", "off"}
    /\ Spend("death")
    /\ work' = [work EXCEPT ![w] = IdleWork]
    /\ dropped' = IF work[w].pc \in Holding
                  THEN dropped \cup {work[w].id} ELSE dropped
    /\ UNCHANGED <<ledger, guard, hand, exchange, blamed, unclear>>

CreatorDies(c) ==
    /\ hand[c].pc # "idle"
    /\ Spend("death")
    /\ hand' = [hand EXCEPT ![c] = IdleHand]
    /\ UNCHANGED <<ledger, guard, work, exchange, history>>

WorkerStep(w) ==
    \/ Scan(w) \/ Claim(w) \/ EndPass(w) \/ Load(w)
    \/ InternalTransfer(w) \/ MoveToWithdrawal(w) \/ ResolveDestination(w)
    \/ Withdraw(w) \/ ReadBefore(w) \/ AwaitCredit(w) \/ Forward(w)
    \/ PersistDestination(w) \/ ClearAfterSuccess(w) \/ Succeed(w)
    \/ PersistAfterFailure(w) \/ WriteFailed(w)
    \/ ReadBlamed(w) \/ WriteBlamed(w)

CreatorStep(c) ==
    \/ \E a, b \in Wallets : PickPair(c, a, b)
    \/ CheckOpen(c)
    \/ InsertAuto(c)
    \/ CreatorDies(c)

WebStep ==
    \/ \E a, b \in Wallets : ManualTransfer(a, b)
    \/ SetAutoTransfer
    \/ \E a \in Wallets : EditRow(a)
    \/ EditAddress
    \/ \E a \in Wallets, t \in BOOLEAN : MarkTest(a, t)
    \/ LookAtGuard
    \/ ClearGuard
    \/ \E a \in Wallets : DeleteWallet(a)
    \/ \E a \in Wallets : Unlock(a)

TransferNext ==
    \/ \E w \in TransferWorkers : WorkerStep(w) \/ WorkerDies(w)
    \/ \E c \in Creators : CreatorStep(c)
    \/ WebStep
    \/ \E r \in Transfer : Credit(r)
    \/ \E a \in Wallets : MonitorTests(a)

TransferSpec == TransferInit /\ [][TransferNext]_transferVars

-----------------------------------------------------------------------------
(* Properties.                                                              *)

TransferTypeOK ==
    /\ wallet \in [Wallets -> WalletRows]
    /\ autoOn \in BOOLEAN
    /\ record \in [Transfer -> [from : Wallets \cup {0}, to : Wallets \cup {0},
                                by : Creators \cup {"manual", "none"},
                                status : RecordStatuses]]
    /\ lastId \in 0 .. MaxTransfers
    /\ guard \in [Wallets -> GuardStates]
    /\ \A w \in TransferWorkers :
          /\ work[w].pc \in {"off", "idle", "scan"} \cup Holding \cup AfterStatus
          /\ work[w].todo \subseteq Transfer
          /\ work[w].id \in Transfer \cup {0}
          /\ work[w].kind \in FaultKinds \cup {"none"}
          /\ work[w].seen \in GuardStates
    /\ pot \in [Wallets -> Nat]
    /\ dropped \subseteq Transfer
    /\ unclear \subseteq Transfer
    /\ blamed \subseteq Transfer \X Wallets \X FreezeWorthy
    /\ budget \in [BudgetKinds -> Nat]

(* Money leaves the source of a record at most once, whatever number of     *)
(* workers scan the table and wherever one of them dies: the claim          *)
(* (mark_transfer_record_processing) is the only thing that prevents it.    *)
MovedOnce ==
    \A r \in Transfer : money[r].inner <= 1 /\ money[r].out <= 1
                        /\ money[r].forward <= 1

(* A record that is executing is in the hands of exactly one worker, unless *)
(* a death or a database error inside a handler dropped it; then it stays   *)
(* so for ever and blocks every automatic transfer to its target.           *)
ExecutingHasExecutor ==
    \A r \in Transfer :
        record[r].status = "executing" /\ r \notin dropped =>
            \E w \in TransferWorkers : work[w].id = r /\ work[w].pc \in Holding

OneExecutor ==
    \A v, w \in TransferWorkers :
        v # w /\ work[v].id = work[w].id => work[v].id = 0

(* Two automatic records open for one target come from the two creators,    *)
(* each of which looked before the other had inserted: one creator alone    *)
(* never asks for the same money twice.                                     *)
OneOpenPerCreator ==
    \A r, s \in Transfer :
        /\ r # s /\ record[r].to = record[s].to
        /\ {record[r].status, record[s].status} \subseteq Open
        /\ "manual" \notin {record[r].by, record[s].by}
        => record[r].by # record[s].by

(* An account is frozen only after two automatic records failed for it with *)
(* one and the same kind of fault, however the reads and writes of the      *)
(* guard interleave.                                                        *)
FreezeIsEarned ==
    \A a \in Wallets : guard[a].frozen =>
        \E k \in FreezeWorthy :
            \E r, s \in Transfer :
                r # s /\ {<<r, a, k>>, <<s, a, k>>} \subseteq blamed

(* A frozen account is released by the user's unlocking, by the success of  *)
(* an automatic record of it, or by a request or worker that had read the   *)
(* guard before it froze: never by an edit or a test made afterwards.       *)
ReleaseIsExplained ==
    [][\A a \in Wallets : guard[a].frozen /\ ~guard'[a].frozen =>
          \/ budget'["unlock"] < budget["unlock"]
          \/ \E w \in TransferWorkers :
                \/ work[w].pc \in {"clear_from", "clear_to"}
                   /\ a \in {From(w), To(w)}
                \/ work[w].pc \in {"guard_write", "oops_write"}
                   /\ Blamed(w) = a /\ ~work[w].seen.frozen
          \/ hand["web"].pc = "clear" /\ hand["web"].from = a
             /\ ~hand["web"].seen.frozen]_transferVars

(* A record that says success moved the money all the way: out of the       *)
(* source, and into the market of a swap account.                           *)
SuccessIsReal ==
    \A r \in Transfer : record[r].status = "success" =>
        /\ money[r].out = 1
        /\ record[r].to \in SwapWallets => money[r].forward = 1

(* A record that says failed left the money where it was, apart from the    *)
(* ways the code allows: a reply that was lost, a database error after the  *)
(* exchange had answered, and a swap account into whose market the money    *)
(* was not moved on, since its credit was not seen in time or the call was  *)
(* refused.                                                                 *)
FailureIsExplained ==
    \A r \in Transfer :
        record[r].status = "failed" /\ money[r].out > 0 =>
            \/ r \in unclear
            \/ record[r].to \in SwapWallets /\ money[r].forward = 0

(* The worker's loop survives every exception, so a pending record does not *)
(* wait for ever.                                                           *)
RecordsSettle ==
    \A r \in Transfer :
        record[r].status = "pending" ~>
            record[r].status \in Closed \cup {"deleted"} \/ r \in dropped

TransferFairness == \A w \in TransferWorkers : WF_transferVars(WorkerStep(w))
TransferFairSpec == TransferSpec /\ TransferFairness
=============================================================================
