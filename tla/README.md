# taoli: TLA+ models of an arbitrage application

taoli is a web application with a worker process that runs cross-exchange
arbitrage for its users: it opens a pair of positions (a left leg on one
exchange, a right leg on another), watches them, and closes them together; it
moves money between a user's accounts, watches their balances, and ranks the
opportunities the market offers. The database (MySQL) and Redis are shared by
the two processes; apart from three places that take an advisory lock or update
by compare-and-set, every check and the act that follows it are separate
transactions. This directory holds TLA+ models of these parts, TLC
configurations that check them, and TLAPS proofs.

Short names of source files used below (all in `src/app/application/services/`
unless a path is given):

| short | file |
|---|---|
| ES | `arbitrage_execution_service.py` |
| EM | `arbitrage_execution_monitor_service.py` |
| PL | `arbitrage_execution_plan_service.py` |
| PM | `arbitrage_position_monitor_service.py` |
| OM | `arbitrage_opportunity_monitor_service.py` |
| SU | `arbitrage_runtime_support_service.py` |
| SR | `strategy_runtime_service.py` |
| RU | `strategy_rule_service.py` |
| R | `src/app/infrastructure/persistence/arbitrage_execution_repository.py` |
| TX, TM | `transfer_execution_service.py`, `transfer_execution_monitor_service.py` |
| GU | `auto_transfer_account_guard_service.py` |
| AM | `account_monitor_service.py` |
| OR | `opportunity_runtime_service.py` |
| RS | `src/app/infrastructure/cache/redis_runtime_support.py` |
| MY | `src/app/infrastructure/persistence/mysql.py` |

## 1. Inventory

### The executions

| component | state | operations | interacts with |
|---|---|---|---|
| order leg processing (ES 41-170 and 286-740, EM) | a row of `arbitrage_order_legs`: status, order id, requested, filled, retry count; a row of `arbitrage_positions` per side; fill records | one round: gate, submit, monitor, record what is new, cancel and repost, give up | exchange client, R; called by the execution thread every 2 s |
| execution reconciliation (ES 76-285, 741-839) | a row of `arbitrage_executions`: action, status, source; the pair's cooldown key | derive the execution's status from its legs, end the legs of a failed one, force a close, write the source back | ends every round on a leg; calls PL |
| execution planning (PL) | none of its own | insert an execution and its legs, one transaction each | called by four creators |
| position monitor (PM) | the list it read | scan open executions, forget empty ones, close single legs, close for a reason | R, PL |
| opportunity monitor (OM) | none but the cooldown keys | find an opportunity, check interval, balance and limit, open | Redis (opportunities), R, PL |
| strategy runtime and rules (SR, RU) | the rule rows | request a close; disable a rule, with or without closing | web process; R, PL |

Behaviours that are hard here: three worker threads and the web process check
and then act in separate transactions; the execution thread computes with rows
it read at the start of its scan; a call of the exchange may succeed and its
reply be lost; the worker may die between any two writes; a status that no
thread looks at is a dead end.

What makes the part correct:

- a leg never trades through an order nobody can name any more, never through
  two at once, and never for more than its plan (leg level);
- a fill is booked at most once, and a retry is paid for by the retry count;
- a leg ends, and an ended leg stays ended;
- a position of the pair is never left without somebody who will act on it;
- a position that lost its counterpart is closed or gets it back;
- an execution marked closed holds no position, and one marked closing gets
  out of that status.

The code does not have all of these without exceptions. Section 5 says which
hold, up to which exceptions, and which are violated.

### The other services

| component | state | operations | what makes it correct |
|---|---|---|---|
| transfer execution (TX, TM) | rows of `account_transfer_records` | claim by compare-and-set, route, withdraw, wait for the credit, move on, classify a failure | money moves once per record; success means it arrived; a pending record ends; a failure is explained |
| automatic transfers and guards (`auto_transfer_monitor_service.py`, `account_auto_transfer_service.py`, GU, `account_transfer_planning_service.py`) | failure count and frozen flag per account, in a Redis hash | pick source and target, look for an open record, insert one; count failures, freeze, clear, unlock | one creator never asks twice; a freeze is earned and its release explained; a plan takes what is to spare |
| accounts and balances (`account_service.py`, `account_command_service.py`, AM, `account_balance_cache.py`) | account rows, cached balances, network catalogue | create, change, delete, test; the monitor's pass | a verdict is about the row's credentials; cache and row agree; a deleted account leaves nothing behind |
| schema (MY) and rules (RU) | tables, columns, thresholds, statuses derived from older ones | the bootstrap of every start, by two processes in turn | a threshold is converted once; a start changes nothing this version wrote; whoever serves finds everything |
| sessions (`auth_service.py`, `redis_session_cache.py`, `auth_repository.py`) | users, session rows, their copies in the cache | register, log in, resolve, log out, expire | there is an administrator; an ended session stays ended |
| Redis support (RS), monitor center | hashes with a field per account or worker, second copies of states | mark, clear, repeat after a lost reply, skip when away | what was marked is found |
| opportunities (OR, `opportunity_snapshot_service.py`, `opportunity_status_service.py`, OM) | rows in Redis, a snapshot in MySQL, a strategy payload | refresh every second, warm up, show, look for openings | a live page is live; the rows are of the present market in the end; a rate shown is earned; rules take part |
| exchange connection | ccxt clients | orders, balances, transfers, withdrawals: the models' exchange | |
| market data, controllers, pages, static assets, maintenance | | | not modelled, see section 7 |

Behaviours that are hard here: a claim that outlives its worker; an exchange
call that is done although its reply is lost; a balance read too late to see
the money come; rows read at the start of a pass and acted on at its end;
read, change and write back of one Redis value by several threads; the web
process and the worker each running the bootstrap while the other serves; DDL
that commits in the middle; a snapshot written over fresh rows.

`PROJECT.json` lists every component with its files and status, and every
hazard found in the code with the line where it bites and the properties that
cover it.

## 2. Plan

The order is that of importance: what can lose or strand money first.

1. done: `OrderLeg`, one leg against one exchange; `LegLifecycle`, what its
   readers rely on; `OrderLegProofs`.
2. done: `PairExecution`, the four actors on the executions of one pair;
   `PairProofs`.
3. done: `Transfers` and `TransferPlan`, `TransferProofs`; `Accounts`, whose
   balances the plan reads, `AccountProofs`; `RuntimeStore` and its proof, which
   opens up the Redis hash `Transfers` takes as one step.
4. done: `Schema`, `Sessions`, `Opportunities`, each with its proofs.
5. done: a theorem for every invariant and every action property the passing
   runs check. What is left of the properties is liveness, which stays with TLC.
6. next: a round of `OrderLeg` as an implementation of `process_order_leg` as
   `PairExecution` takes it, so that what is proved of the pair rests on what is
   proved of the leg; a bound on how much a pair holds, for the position limit.
7. if worth it: several pairs for `max_pairs` (OM), several web requests at a
   time in `PairExecution`, the subscriptions of the market data service.

`PairExecution` takes a round on one leg as a single action, and `OrderLeg`
opens that action up. The abstract specification worth stating between them is
`LegLifecycle`: it is what everything outside a round sees of a leg. In the same
way `Transfers` takes a Redis call as one step which is done or lost, and
`RuntimeStore` opens it up: that a step of one account may undo another's mark
is visible only there.

## 3. Modules

| module | models | lines of code it stands for |
|---|---|---|
| `OrderLeg` | `process_order_leg` down to each call of the repository and the exchange | ES, R, EM; RU and accounts for the switches |
| `LegLifecycle` | the life of a leg's row as its readers see it | ES |
| `PairExecution` | executions, legs, positions and cooldown of one pair under four actors | ES, PL, PM, OM, SR, RU, R, EM, `main.py` |
| `Transfers` | records, workers, creators, guards, the money itself | TX, TM, GU, the repository, account commands |
| `TransferPlan` | display amounts, targets, candidates: operators only | `account_query_service.py`, `account_support.py`, the planner |
| `Accounts` | accounts and balances; EXTENDS `TransferPlan` for the planning step | AM, account commands, `account_balance_cache.py` |
| `Schema` | the bootstrap and the rows it rewrites | MY, RU, the repository |
| `Sessions` | users and sessions | `auth_service.py` and its two stores |
| `RuntimeStore` | one Redis hash, with or without copies | RS, GU, `monitor_center_service.py` |
| `Opportunities` | one channel from quotes to page and monitor | OR and its snapshot, status, filter and overlay services, OM |
| `OrderLegProofs`, `PairProofs`, `TransferProofs`, `AccountProofs`, `SchemaProofs`, `SessionProofs`, `RuntimeStoreProofs`, `OpportunityProofs` | theorems about the module each is named for | |
| `MCOrderLeg`, `MCPairExecution`, `MCOpportunities` | values of constants, the state constraint | |
| `MCServices` | the six services in one run: each behaviour moves one of them | |

`PROJECT.json` maps each definition to its lines.

### OrderLeg

`row` is the row of `arbitrage_order_legs`; `snap` is the copy the thread took
in its scan, with which all the code in a round computes. `aged` is the test
for five seconds since `submitted_at`, `polls` bounds how often the leg is
polled before it ages. `position` and `recorded` are the row of
`arbitrage_positions` and the sum of the fill records. The exchange is `orders`
(quantity, filled, state), `placed` and `held`, from which one reads off what it
traded for the leg (`ExchangeFilled`).
`enabled` and `account` are the switches a user may flip under a running leg.
`pc` says where the thread is between two calls:

| pc | the thread has | actions from here |
|---|---|---|
| idle | nothing | `Scan` (EM, `list_pending_order_legs`) |
| picked | read the row and checked the gates | `BlockDisabledOpening`, `FailWithoutAccount`, `SkipCloseLeg`, `BeginSubmit`, `MonitorWithoutOrder`, `FetchOrder`, `FetchFails` |
| create | written submitting | `CreateAccepted`, `CreateLost`, `CreateRefused` (`create_order`) |
| ack | an order id in hand | `RecordSubmitted`, `RecordSubmittedFails` |
| raised | an exception in `_submit_order` | `RecordSubmitError` |
| fetched, position | a reply of `fetch_order`, a fill to book | `RecordFill`, `UpdatePosition` |
| decide | booked what is new | `MarkFilled`, `KeepPartial`, `KeepOpen`, `RepostCancelled`, `FailUnknownStatus`, `CancelOrder`, `CancelRaises` |
| repost | cancelled (or failed to) | `Repost` (`_retry_order`) |

Quantities of orders are contracts and those of fills base units, with the
code's own conversions (`ToBase`, `ToOrder`), since the remaining quantity of a
retry is computed across the two. Surroundings: `Fill`, `ExchangeCancels`,
`ExchangeRejects`, `Age`, `DisableRule`, `DropAccount`, `Crash`. `Crash` is
the death of the worker as well as an exception that leaves
`process_order_leg`: both make the thread forget what it held.

`astray` is a history variable: orders the code loses sight of, because the
reply of `create_order` was lost, the write of the id failed or never came, or
a failing `cancel_order` was swallowed. The code has no answer to these; the
properties say that there is no other way.

One branch of `_submit_order` is left out: it fails a leg whose price or quantity
is not positive (ES:300-309). A plan with such a value is refused before it is
stored (SU:47-91), and `_retry_order` keeps the former value where it would write
one (ES:553-555, 571-572). Only a remainder below the twelve decimals of the
column could get there, which whole contracts do not have.

### PairExecution

The tables are sequences `execs` and `legs` (a row's id is its index),
`position` per side, `cooldown` and `enabled`. The execution thread has a
program counter `pc`, the rows of its `batch` by id (it works them off in that
order, `This` being the next), the status it read (`seen`) and the one it is
about to write (`verdict`); the position thread has `watch`, the executions it
listed and takes in the order of their ids. Each creator of executions (execution thread, position
thread, opportunity thread, web process) has a record in `plan`: idle, about to
plan, inserting legs, about to mark the source. `sweep` holds the executions
the disabling of a rule is still to close.

| code | actions |
|---|---|
| `process_order_leg` (one round) | `BlockDisabledOpening`, `SkipCloseLeg`, `SubmitLeg`, `SubmitFails`, `LegRefused`, `MonitorWithoutOrder`, `LegFills`, `LegWaits`, `LegReposted`, `LegCancelled`, `LegRejected` |
| `reconcile_execution` | `ReconcileUnderWay`, `ReconcileClosed`, `ReconcileFailed`, then `ReadSource`, `WriteSource` |
| failed opening | `DropFailedOpening`, `ScheduleForceClose`, `ForceCloseMarked`, `ForceCloseImpossible` |
| `create_close_execution` | `CreateClose(p)`, `InsertLeg(p)`, `MarkClosing(p)`, `NothingToPlan(p)` |
| position monitor | `ScanPositions`, `CheckClose`, `InspectPositions`, `Forget`, `ResolveCloseReason`, `MarkWatched`, `PositionPlanImpossible` |
| opportunity monitor | `CreateOpen`, `InsertLeg("opportunity")` |
| `request_close_execution` | `RequestClose(e)`, `RequestMarked`, `RequestImpossible` |
| `update_rule` disabling | `DisableRule`, `ListOpenExecutions`, `CloseDisabled(e)` |
| surroundings | `CooldownExpires`, `WorkerDies`, `RequestDies` |

A leg's row has `qty` (requested_quantity) and `filled` (filled_quantity) as
the code has them; `traded` is no column but what the exchange last said of the
present order, which counts from zero for every order. `Book(n)` moves the
position by what n is beyond `filled`, before any branch on the order's status, as
`_sync_incremental_fill_progress` does (ES:423, 590-593). A repost leaves in
`filled` what the cancelled order had (ES:526, 577), so of the next order only
what exceeds it is booked. An order the exchange cancelled has its fills booked
but not written, and the same quantity is posted again: a leg may fill more than
was planned.

`lapses` is a history variable: the kinds of failure the code does not make up
for, recorded when they happen.

| lapse | what happened | where |
|---|---|---|
| crash | a death between two writes that belong together: legs half inserted, the source not marked, a leg written but its execution not reconciled, a leg left submitting | PL:111, ES:41 |
| gap | a side with a position left out of a close (no price, below the minimum) | PL:103 |
| refused | a closing leg failed at once, not by its retries | ES:212 |
| half | reconcile took an execution for open or closed whose second leg was not inserted yet | ES:76 |
| late | a creator marked the source closing when no close of it was in flight any more | PM:102 |
| early | a close was sized while a leg of its source still traded | ES:157 |
| borrowed | a failed opening adopted a close in flight that was not made for it | ES:171 |
| stale | a leg ended by reconcile was submitted again from the batch read before | EM:72 |
| misbooked | a close booked something else than its order traded since it was last asked for, because `filled_quantity` was still an earlier order's | ES:590 |

The code is right up to these; the lapses are not the model's licence, they are
its list of the code's own holes. Four of them are shown by runs of their own
(section 5). Of "misbooked" there is none, but it takes no fault at all: a closing
leg of 2 fills 1, is posted again for 1, fills that too, and nothing of it is booked.
The leg is filled, the source marked closed, and a position of 1 stays behind. That
is what `pair_partial` finds when `Misbooked` is never recorded. Only closes lapse
by it: what an opening books too little is still looked after.

One caveat. The opportunity and position threads of `PairExecution` see an
opportunity or a reason to close as a free choice. In the code they read both
from a Redis key that nothing writes at this commit (run `opportunity_opens`);
the model is of what these threads do once the rows are there.

### Transfers

| code | actions |
|---|---|
| both creators of automatic records | `PickPair`, `CheckOpen`, `InsertAuto`, `CreatorDies` |
| the user's requests | `ManualTransfer`, `SetAutoTransfer`, `EditRow` then `EditAddress`, `MarkTest`, `LookAtGuard`, `ClearGuard`, `DeleteWallet`, `Unlock` |
| `_scan_pending_records` | `Scan`, `Claim`, `EndPass` |
| execution of a record | `Load`, `InternalTransfer`, `MoveToWithdrawal`, `ResolveDestination`, `Withdraw`, `ReadBefore`, `AwaitCredit`, `Forward` |
| success | `PersistDestination`, `ClearAfterSuccess`, `Succeed` |
| the two failure handlers | `PersistAfterFailure`, `WriteFailed`, `ReadBlamed`, `WriteBlamed` |
| surroundings | `Credit`, `MonitorTests`, `WorkerDies` |

Every exchange call is done, refused, or done with its reply lost (`Call`). The
code has two handlers of failure, which write status and guard in opposite
orders; a database error after the exchange answered ends in the second and
says failed though the money moved (`unclear`). `money`, `dropped`, `blamed`
and `unclear` are history variables. `pot` is what lies in the withdrawal place
of an account: the credit a target waits for is seen there, or not.

### Accounts, TransferPlan

`pass` is the monitor's pass with the rows as read at its start, `request` the
web request between its writes. `outrun` and `crossed` remember accounts written
while the other side held them: the exceptions the properties name. Redis and the
database may fail one write at a time. A write or a delete that Redis does not
take is logged and the work goes on (RS:80-83, 214-218: `CacheWriteFails`,
`SeedFails`, `ForgetFails`, the accounts `Prime` loses); an error of the database
ends a pass, since only errors of the exchange are caught account by account
(`RowWriteFails`, AM:135-150), and ends a request without a word
(`SnapshotWriteFails`, `SeedFails`). `crossed` has the accounts of which one of the two
was written and not the other, `unforgotten` those whose cached balance was not
deleted. A read that Redis does not answer is like an entry that expired.
The start of the worker reads all rows (`ReadToPrime`) and then writes
them to the cache (`Prime`); requests come between the two. A planned transfer
takes any pair of candidates whose accounts passed their test: the code goes
through them in order and passes over those that are frozen or have no route
(`account_auto_transfer_service.py:133-158`), so any of them may be the first that
will do. It is computed from amounts that went through a display text; `Shows` is
the set of amounts a text may parse back to.

### Schema

`Statements` is the bootstrap in order, one action per statement. `unsettled`
are tables with rows written and not committed: other processes wait for them,
a death restores them, the next DDL commits them. `server[s].added` is the local
flag that ties the division of yearly thresholds to having added the column.

### Sessions

Requests run side by side, each with its own record in `serving`, one action
per repository or cache call. A draft is an inserted user not yet committed.
`admitted` records with what end (none, left, expired) a session a request that
was let in had begun.

### RuntimeStore

`hash` and `copy` map fields to how often they were marked. `client` says where
each thread is in its mark or clear. `copied` tells the two kinds of user apart:
the account guards keep none, the monitor center keeps a copy of every state.
(`auto_transfer_runtime_guard_service.py` marks and clears with copies; nothing
calls it at this commit.)

### Opportunities

`market` holds two quotes per pair with their ages; `RowOf` builds a row,
`Ranked` orders them. The worker goes keys, write, save, strategy; both
processes may warm up from the snapshot. `overlap` remembers that the two wrote
across each other: a warm-up over rows of a refresh, or a refresh over rows of a
warm-up it had not seen when it read the keys and so will not remove.

## 4. Runs

All on instances small enough to be exhausted.

| run | question | instance | result |
|---|---|---|---|
| `leg_faults` | does a leg keep track of its orders and stay in its plan whatever happens? | open and close, 2 contracts of 2 units, 2 retries, 1 cancel by the exchange, 1 death, both ways a driver reports partial fills, lost replies, switches: 3.3 M states | holds |
| `leg_settles` | does it implement `LegLifecycle`, book no more than was traded, and end? | 2 contracts, 2 retries, 1 cancel, 1 death, lost replies, fairness: 0.5 M states | holds |
| `leg_reposts` | is an order reposted at most the limit of times? | 3 cancels by the exchange, limit 2 | violated |
| `pair_watch` | is every position looked after, with two openings and a death of the worker? | 3 executions, 2 openings of size 1, 1 death: 2.0 M states | holds |
| `pair_request` | and when the user may ask to close at any moment? | 3 executions, 1 opening, 1 request: 3.7 M states | holds |
| `pair_partial` | and with partial fills, reposts and what they book? or with a rule disabled, deaths of worker or request? | 2 executions, legs of 2, 2 retries, 1 request, 1 death; partial fills on one side, or disturbances: 2.3 M states | holds |
| `pair_settles` | is a position that lost its counterpart closed or does it get it back? | fairness, 3 executions, 1 opening, every fault, 1 death that is followed up: 0.6 M states | holds |
| `pair_closed` | does "closed" mean flat? | a request while the opening fills | violated |
| `pair_ended` | does an ended leg stay ended? | two legs of a failed opening | violated |
| `pair_closing` | does closing end? | a refused closing leg, fairness | violated |
| `services` | is each of the other services correct, from each of its scenes? | see below: 0.32 M states | holds |
| `opportunity_opens` | do the rules take part in automatic execution? | the scenes of `MCOpportunities`, fairness of both loops | violated |

Why the bounds are enough for the cases that matter. A leg with two contracts
has a partial fill, two retries have one that is counted and one that is the
last, one cancel and one death come at every point of a round, before and after
each other. In a pair, an execution has two legs; three executions are an
opening, a close and a second close (or a second opening and its close), which
is what two creators racing need. A leg of one unit either fills or does not,
so the runs with three executions have no partial fills; `pair_partial` has
them with two executions. Legs of two that are posted twice are what it takes for
one order's fills to be booked against another's. The constraint
`PartsOrDisturbances` of that run keeps partial fills to one side at a time and
apart from requests, the disabled rule and deaths. What only partial fills on both
sides, with these, or with three executions could show is not covered by a run; the
theorem `PositionsAreLookedAfter` has no such bounds. `MaxHeld` bounds what orders the exchange cancels add up to: each is
posted again in full, so without it an opening could grow for ever.

`services` puts one part in motion per behaviour, from a scene: an initial
state with a quota for every kind of request and fault. A scene isolates a
question, and the quotas make the faults come together that have to. Parts do
not touch in the model, so putting them side by side would only multiply the
states; what they share is stated where it matters (an account that goes away
in `OrderLeg` and `Transfers`, the balances a plan reads in `Accounts`).

| part | scenes | why this is enough |
|---|---|---|
| transfers | two accounts, one swap; two records; at two exchanges, of one, or reachable only inside; two workers, or one with refusals, lost replies, database errors, Redis away, deaths, edits and deletions | two workers race for one claim; two failures of one kind freeze; two creators race for one target |
| accounts | a new account, an old one, two of which one is short; one or two kinds of request each, with a death, an outage, a revoked key, a write that Redis or the database does not take | a pass or a request holds one account while the other writes it |
| schema | empty, of an older version, cut short between two columns, complete; two or three starts by two processes, one death | the second start meets what the first left; one process serves while the other upgrades |
| sessions | three registrations of two names with one that breaks; three resolutions of one session with a logout, an expiry and an outage | a session put back, then used; a first user that fails and a second that counts |
| store | two clients, two fields, up to three marks and two clears, a lost reply, an outage | the field written between the removal of the last one and the DELETE |
| opportunities | two pairs over three exchanges, five scenes of market situations, both channels; a tick, an outage, an expiry or a death each, up to two switches | one pair appears as the other goes; a warm-up meets a refresh, from either side |

`UpToALapse`, the state constraint of the pair runs that pass, stops
exploring at the first lapse; `UpToALapseOrDeath`, that of `pair_settles`, at
the first one that is not a death. `PositionLookedAfter` and `UnhedgedIsResolved`
claim nothing beyond a lapse and `lapses` never shrinks, so nothing is lost,
for the liveness property neither: a behaviour with a lapse satisfies it from
there on. `TypeOK` of `PairExecution` however is checked only up to there (and in
the states just after); the theorem `PairTyped` covers what comes after any lapse.
The runs that show violations have no constraint.

Deadlock is not checked: a leg that has ended has nothing to do any more,
neither has a pair that is flat once its bounds are used up, and a service
rests when its quotas are spent.

### Fairness

- `WF(Thread)`, `WF(ExecutionThread)`, `WF(PositionThread)`: `_run_loop` of
  every monitor catches every exception, sleeps and goes on; a thread is never
  stopped while the process lives, and a process that dies is started again.
- `WF(Age)`: a row turns five seconds old.
- `SF(FetchOrder)` (OrderLeg): a status request that is tried again and again
  is answered some time.
- `WF(InsertLeg("opportunity"))`, `WF(WebRequest)`: a creator that began goes
  on to its next statement. Nothing makes a user ask for a close or an
  opportunity appear.
- `SF(LegFills \/ LegReposted)` (PairExecution): an order that is polled again
  and again fills or turns five seconds old and is reposted at the price of a
  retry, and the exchange does not cancel all its successors by itself. This is
  the round-level consequence of the fairness of `OrderLeg`.

- `WF(WorkerStep(w))` (Transfers): the loop of the transfer thread catches
  every exception, sleeps and goes on; its waits are bounded (eighteen polls of
  ten seconds).
- `WF(WorkerSteps)`, `WF(ScanUser)` (Opportunities): the loops of the refresh
  and of the opportunity monitor. The web process has none: nobody need ask for
  a page.
- `ServicesFairness` is the first and the refresh part of the second, each for
  the behaviours in which that part moves. No quota of faults has fairness, and
  each is finite: a property of the kind "from some time on" speaks of the time
  after the last fault.

## 5. What the checks show

### Executions

What holds:

- A live order is always the one the leg's row names or the one whose id is
  just being written, orders astray apart (`LiveOrdersKnown`); a leg that waits
  or has ended leaves none live, unless it was failed by a switch
  (`RestingLeavesNothingLive`); hence never two (`OneLiveOrder`).
- The orders sent are paid for by retries, cancels of the exchange and deaths
  (`OrdersPaidFor`, `RetryBudget`).
- A retry never asks for what it has seen filled (`LiveOrderWithinPlan`).
- Fills are not booked twice (`NoOverRecording`), provided the driver reports a
  partly filled order as partial and the worker does not die between the fill
  record and the row's update. With a driver that says open, `KeepOpen` books
  the same fill at each poll.
- A leg ends unless a death left it submitting without an order id
  (`EventuallySettled`), and its row follows `LegLifecycle`. That module says
  ended is for good; it speaks of one leg alone, whose row nobody else writes.
  Inside a pair it is not so: see `pair_ended`.
- Short of the lapses no position is left with no thread to act on it
  (`PositionLookedAfter`), also through reposts and orders the exchange cancels,
  with fills booked as the code books them, and a single position is resolved
  (`UnhedgedIsResolved`).

What does not (findings in `PROJECT.json`):

1. `pair_closed`: a close asked for while a leg of the opening still trades
   closes only what is there; the other leg fills afterwards, the execution is
   marked closed, and further requests are refused with
   "该组合已经完成平仓。".
2. `pair_ended`: a leg ended with its failed execution is submitted all the
   same, from the batch that was read before.
3. `pair_closing`: a closing leg that fails before its retries are used up
   leaves its source closing for ever; no thread looks at it and the page
   disables its button.
4. `leg_reposts`: an order the exchange cancels is reposted without counting a
   retry, so the limit of ten is never reached; the filled part is not
   subtracted either.

### Other services

- Transfers. Money moves at most once per record with any number of workers
  and deaths (`MovedOnce`), an executing record is in a worker's hands
  (`ExecutingHasExecutor`) unless it was abandoned: then it stays executing for
  ever and blocks automatic transfers to its target, which is the known price.
  Success means the money arrived (`SuccessIsReal`). Failed means it stayed,
  but for a lost reply, a database error after the exchange's answer, and a
  swap account into whose market the money was not moved on: money that made it
  all the way is called failed only after a lost reply or a database error
  (`FailureIsExplained`).
  A pending record ends or is abandoned (`RecordsSettle`). One creator never
  has two open records for a target; the two together may (`OneOpenPerCreator`).
- Guards. A freeze takes two automatic records that failed with one kind of
  fault (`FreezeIsEarned`). It ends by the user's unlocking, by the success of
  another record, or by a writer that read the guard before it froze
  (`ReleaseIsExplained`). The second and third are not what the first comment
  of GU promises (manual unlock); they are named in the property.
- Planning. Rounding through display texts costs at most 101 dollars against
  what the source has to spare and the target lacks, below a million
  (`PlanIsModest`).
- Accounts. A verdict is about the row's credentials unless these changed under
  a pass or form (`VerdictIsEarned`); cache and row agree after the monitor's
  next undisturbed visit, whichever write failed or crossed before
  (`AmountsAgree`); a deleted account leaves a cached balance only if a pass held
  it, the request died, or Redis did not carry out the delete (`CacheFollowsRows`).
- Schema. A threshold is divided once, unless a death comes between the ALTER
  and the commit of the division (`ThresholdScaledOnce`); a start changes
  neither rules nor records this version wrote (`RestartKeepsRules`,
  `RestartKeepsRecords`); who serves finds everything (`ServesCompleteSchema`).
- Sessions. There is an administrator as soon as there is a user
  (`SomeoneIsAdmin`); a session that ended lets nobody in that comes later,
  unless its copy slipped back into the cache, and an expired one never
  (`EndedStaysEnded`).
- Redis. A mark is found, but for the window between the removal of the last
  other field and the DELETE, where there are no copies (`MarkedIsFound`).
- Opportunities. A page that calls itself live shows rows of a refresh, unless
  a warm-up and a refresh wrote across each other (`LivePageIsLive`); the net rate is what the legs
  earn when both settle at the same interval (`NetRateIsEarned`); once the
  market stands still, the hash holds its rows (`RowsOfThePartCatchUp`).

What does not:

5. `opportunity_opens`: the rule page says its rules really take part in
   automatic execution, but the rows the opportunity monitor (and the position
   monitor, for its closing metrics) reads are written by `set_user_rows`, which
   nothing calls. A pair that stays a candidate for ever is never opened.

Every property of a passing run is broken by a plausible bug: the operators
marked `Mutant` in the modules stand for them and are not part of any
specification.

## 6. What is proved

Every invariant and every action property of a passing run is a theorem, for
every value of the constants; deaths, faults and requests are bounded by quotas,
which the theorems leave arbitrary. Nothing is assumed about the order of
events. The two newest and longest invariants, `PairInv` and `Booked`, were also
model-checked: `PairInv` on the runs pair_watch, pair_request and
pair_partial, `Booked` on an instance of the leg.

### OrderLeg

`OrderLegProofs`, for every quantity, contract size, retry limit and bound:

| theorem | says |
|---|---|
| `Invariance` | `IndInv` holds in every reachable state |
| `TypeCorrect` | `TypeOK` |
| `NoUnknownOrders` | `LiveOrdersKnown` |
| `RestIsQuiet` | `RestingLeavesNothingLive` |
| `AtMostOneOrder` | `OneLiveOrder` |
| `EveryOrderPaidFor` | `OrdersPaidFor` |
| `RetriesBounded` | `RetryBudget` |
| `StaysWithinPlan` | `LiveOrderWithinPlan` |
| `IdsSuffice` | the bounded set of order ids never refuses an order the code would send |
| `LifecycleImplemented` | `OrderLeg` implements `LegLifecycle` (its safety part) |
| `FillsBookedOnce` | `NoOverRecording`, with a driver that reports a partly filled order as partial |

From the named assumptions of `OrderLeg`: quantities, contract size and retry
limit are positive, bounds are natural numbers, the rest are flags.

The properties are not inductive by themselves. `IndInv` adds what they lean on:

- `CopyAgrees`: the thread's copy is still right except for the status it wrote
  itself. Without it, a retry computed from `snap` could miss anything.
- `BookSane`: ids are handed out in order, a live order has something left.
- `ReplyStands`: an order reported ended stays so; one reported live had less
  than its quantity filled. Between `fetch_order` and the decision the exchange
  goes on trading, so the invariant keeps only what that cannot undo.
- `Quiet`, `Tracked`: in which states which orders may be live, and that they
  are as large as the row asks for, with the fills already counted inside the
  plan. `RestingLeavesNothingLive`, `LiveOrdersKnown` and
  `LiveOrderWithinPlan` follow from these two.
- `Paid`: who has paid for the orders so far, one stronger where the next order
  is about to be sent. It gives `OrdersPaidFor` and `IdsSuffice`.

`FillsBookedOnce` takes a second invariant, `Booked`. That the fill records do
not exceed what was traded is not inductive: it must be known how much of the
present order is booked. A row that was reposted says more is filled than its
new order has, so the invariant has two cases: nothing of the present order is
booked yet, or no more than the row says, and the row says no more than the
order has. The hypothesis on `PartialReports` is needed: with a driver that says
open, `KeepOpen` leaves the row behind and the next poll books again.

Each action, or group of actions that leave the round in the same way, has a
lemma that it keeps `IndInv` (`ScanKeeps`, `EndOfRoundKeeps`, `RepostKeeps`,
...); `StepIndInv` collects them. `StepLifecycle` maps each step to a step of
`LegLifecycle` or a stutter, using `IndInv`.

### PairExecution

`PairProofs`, for any number of executions, openings, requests and deaths, any
retry limit and any quantities:

| theorem | says |
|---|---|
| `PairInvariance` | `PairInv` holds in every reachable state |
| `PairTyped` | `TypeOK` |
| `PositionsAreLookedAfter` | `PositionLookedAfter` |

`PairInv` is `PairTypes`, which holds whatever happens, and `Calm`, which holds
as long as nothing lapses.

`PairTypes` says more than `TypeOK`: a close refers to an opening; a planner that
inserts legs has an execution of its own, and inserts only sides that have no
leg yet; what the order of a leg in progress has traded is less than it asks for,
and is what the row says is filled or nothing yet (`Trading`), so that a close is
booked right or is seen to be booked amiss; a leg the worker holds was active when it read it, and its row is as
it read it (`Fresh`) or was ended since because its execution failed
(`EndedSince`); what the worker knows in the middle of a round fits where it is.

`PositionLookedAfter` says that at any moment somebody acts on a position. What
survives a step is not that, but that there is a keeper (`PositionIsKept`): an
opening which is alive while nobody has made a close of it, and once there are
closes, each of them is good for all that is held (`Covers`: its leg is still to
be inserted, or its order has that much left to trade, or it cannot be filled
without being booked amiss, because the row counts an earlier order's fills), the opening is not marked closed
nor about to be, and it is open or one of its closes is unfinished. The keeper
need not be the same opening all along: a forced close may adopt the position. An opening that the
position thread is about to write off does not count (`Spared`).

A keeper stays one only because the rest is in order:

- `ActiveIsReachable`: an active leg can be submitted or asked for.
  `FailedIsUsedUp`: a close fails only by its retries, so the failed close gives
  its opening back. `OpeningsGetLegs`: an opening has its legs or is getting them.
- `ClosedAfterEnd`, `OpenIsSettled`, `WatchedIsSettled`: what is closed, open or
  watched has traded to the end, and no leg of it is left in the worker's list.
  Otherwise a leg could fill after a close was sized.
- `ClosesComeLater`: a close made while its opening is still in the list is not
  in the list.
- `InFlightMoves`: a close in flight has a leg to work on, or the worker at its
  end; `SeenIsStatus`: the status the worker read of an opening is still right.

Each action has a lemma for the types (`...KeepsTypes`) and one for the order
(`...Calm`), and the second assumes that the step adds no lapse: `LapsesStay`
says that there was none before either. What all actions share is in the lemmas
between them: what it means that a row, a plan, a list or a leg is left alone
(`RowsUntouched`, `PlannerCalm`, `KeeperStands`), that an execution begins
(`BegunCalm`, `BegunKeepsOthers`), and that a leg is processed (`LegIsDone`,
`DoneKeeper`).

One thing the proof found. A creator marks its source closing after it has made
the close, or found one in flight. The model called that late when no close of
the pair was in flight any more. With more than two openings that is not enough:
the close in flight may belong to another opening, the one that is marked has
none left, and nobody looks at it again. The runs with two openings do not get
there. `MarkClosing` now asks for a close of the source, as the code's promise
would need it.

### Transfers

`TransferProofs`, for any number of accounts, records, workers and faults:

| theorem | says |
|---|---|
| `TransferInvariance` | `AllInv` holds in every reachable state |
| `TransferTypeCorrect` | `TransferTypeOK` |
| `MoneyMovesOnce` | `MovedOnce` |
| `ExecutorExists`, `ExecutorIsAlone` | `ExecutingHasExecutor`, and never two workers hold one record |
| `SuccessMoved` | `SuccessIsReal` |
| `FreezeEarned` | `FreezeIsEarned` |
| `ReleaseExplained` | `ReleaseIsExplained` |
| `OneOpenRecord` | `OneOpenPerCreator` |
| `FailureExplained` | `FailureIsExplained` |

From `MaxTransfers` being a natural number, the sets of accounts and of faults
being what `WalletAssumption` and `RefusalAssumption` say, and the scenes having
the shape `SceneAssumption` gives. `AllInv` is three invariants, proved one
after the other:

- `CoreInv`: `OneExecutor`; `WorkSound`, a worker has an id exactly from the
  claim to the end of the pass, its record is executing (or deleted under it),
  and `MoneyAt` says what has moved at each of its steps; `RecordSound`, nothing
  has moved of a record not claimed yet, and everything of one that succeeded.
  `MovedOnce` alone is not inductive: a second withdrawal is excluded only by
  knowing that the worker before its withdrawal has not moved anything and that
  nobody else holds the record.
- `SideInv`: the types of the rest, and that a request about to clear a guard
  saw it not frozen.
- `BlameInv`: behind a count of one there is a record that was reported and
  whose worker will not report it again; a worker about to write a guard has
  reported its own record and, if it saw a count, another one. So the second
  failure is another record's, also when the two reads and writes interleave.

The lemmas group the actions by what they do to records and workers (create,
delete, claim, turn, report, settle, leave); each action is reduced to one of
these, and `TransferInvariance` collects them.

Two invariants are added relative to `AllInv`:

- `AskInv`: a creator about to insert has no record of its own open for the
  target. It found none when it looked, workers only claim and close records,
  and nobody inserts under its name. `OneOpenPerCreator` alone is not inductive:
  it does not know what a creator saw before it inserts.
- `ExcuseInv`: the money of a record whose failure is being handled, or was, is
  at the source, in doubt, or waiting at a swap account. Each step of a worker
  is shown to be of one form (`Explains`), which keeps it.

### Sessions and the Redis hash

| module | theorem | says |
|---|---|---|
| `SessionProofs` | `SessionInvariance` | `SessionInv` holds in every reachable state |
| | `AdminExists` | `SomeoneIsAdmin` |
| | `EndedSessionsStayOut` | `EndedStaysEnded` |
| `RuntimeStoreProofs` | `StoreFindsMarks` | `MarkedIsFound` |

`UsersSound`: while nobody is saved, every draft is an administrator's and every
request about to insert has counted nobody. The lock is not needed for it, and
is let go before the commit: what it is for, that only one is first, does not
hold. `EndsSound`: a session that was left is revoked and in the cache only if
it slipped; a request that began after that gets past the table only by the
cache. `StoreInv`: as long as a client is about to DELETE the hash, all the
hash has was written since its removal, so what the DELETE takes is exposed; a
field with a copy is in the copy.

### Accounts, the schema and the opportunities

| module | theorem | says |
|---|---|---|
| `AccountProofs` | `AccountInvariance` | `AccountInv` holds in every reachable state |
| | `VerdictsAreEarned` | `VerdictIsEarned` |
| | `CachedBalancesFollow` | `CacheFollowsRows` |
| | `CacheAndRowsAgree` | `AmountsAgree` |
| | `PlansAreModest` | `PlanIsModest`, for balances below a million |
| `SchemaProofs` | `SchemaInvariance` | `SchemaInv` holds in every reachable state |
| | `SchemaServedComplete` | `ServesCompleteSchema` |
| | `ThresholdsAreScaledOnce` | `ThresholdScaledOnce` |
| | `RestartsKeepRules`, `RestartsKeepRecords` | `RestartKeepsRules`, `RestartKeepsRecords` |
| `OpportunityProofs` | `OpportunityInvariance` | `OpportunityInv` holds in every reachable state |
| | `LivePagesAreLive` | `LivePageIsLive` |
| | `NetRatesAreEarned` | `NetRateIsEarned` |

Accounts, for any number of accounts, credentials, amounts and faults.
`ReadsStand` says what the monitor's stale rows are still good for: an account
it will visit is as it was read, or has been overtaken (`outrun`). `SameAmounts`
has cache and row agree except between the two writes of whoever is at work, and
`VisitGoesOn`, `AnswerGoesOn` say that the second write brings what the first
did, `PrimeGoesOn` that the start writes what the rows still say, or else the two
have crossed. A write that fails may come at any of them: it puts the account among
the `crossed` or `unforgotten` (`RequestEnds`, `RowWriteFailsKeeps`, ...), and
only an undisturbed visit takes it out again. `PlansAreModest` has the hypothesis that balances
stay below a million (`SmallBalances`, about the balances alone): above it the text
shows two decimals of a million, a unit of ten thousand, and the bound of 101
dollars is false. Ids are numbers (`AccountIdAssumption`: the key of a table), since the
pass takes the accounts by id.

The schema, for any number of processes, starts, rules, records and any database
an older version may have left. `Done` follows the bootstrap: what the first n
statements create or add is there. `ServedCompletes`: once a process serves,
everything is there for good. The division of the thresholds needs the most: while the flag `added` of a
bootstrap is set it is behind the statement that adds the column (`FundingAt`)
and nobody has served before (`AddedFirst`). Until the commit a death takes the
division back but not the column, which is the one case that remains (`torn`: a
death after the column and before the commit of the division, not one after it). The
list of statements is concatenated from parts of known form, and the lemmas about
`Divides` find the two statements in it. `DifferentRows` and `NobodyServes` say
that a rule is not a record and that the name for no process is not a process's.

Opportunities, for any number of pairs and exchanges and any market. A page is
live if the row of its first rank is ready; what makes the others be rows of a
refresh too is that ready rows are only ever in the company of such rows
(`ReadyTogether`), unless warm-up and refresh wrote across each other. To find
a row of the first rank takes that ranks differ, for which the set of pairs has
to be finite; and that the two legs of a pair are at different exchanges is how
the synchronisation of markets makes pairs (`PairAssumption`,
`market_sync_service.py:207`). The proof found that `overlap` has to be recorded
in both orders: with two switches of an exchange a refresh that read the keys
before a warm-up wrote leaves a row of the warm-up behind. The services run has a
scene with two switches since.

### Only model-checked

Liveness, which the prover cannot do (`EventuallySettled`,
`UnhedgedIsResolved`, `RecordsSettle`, `RowsOfThePartCatchUp`), and the
properties of the runs that find a violation, which are false. That the amounts a
text may parse back to are those of `Shows`, and that the scenes are states the
program can be in, is what the models say of the code and no theorem.

## 7. What is not modelled, and why

- Prices, values, fees, funding and profit: numeric, and they decide only
  whether a step is taken, which is a free choice here.
- Precision: a close is planned for the whole position. The dust a rounded
  quantity leaves, and the execution that is then closed over it, is not seen.
- A `create_order` that succeeds with a reply that has no id.
- Deleting and re-enabling a rule; several requests of the web process at a
  time (one is under way at a time; it races with the three threads).
- `max_pairs` and several pairs; the batch limit of thirty legs, which starves
  younger legs only when thirty older ones never end.
- Cooldown keys expire at any time, instead of after their seconds.
- In `PairExecution` the local position is the truth about what is held; where
  it parts from the exchange's own position is `OrderLeg`'s matter.
- An exception between two writes of a round is taken for a death.

Of the other services:

- Market data: websockets, subscriptions, REST polling, the synchronisation of
  markets and funding intervals. They make quotes appear and age; the models let
  quotes be of any age, so what a subscription that silently stops does is seen,
  but not why it stops.
- Transfer fees and minimum withdrawals: a transfer moves one unit, and a credit
  smaller than what was sent is taken for one.
- The time of a lock or a key: they expire at any time, not after their seconds.
  The ninety days of the account guards are taken as for ever.
- `auto_transfer_runtime_guard_service.py`, but for its pattern of writes: it
  has no caller.
- The database's types, connection pool and isolation beyond row locks of the
  bootstrap; what every start repeats with the same result.
- Passwords, the login log, names and secrets of accounts; fees and profits of
  opportunities; controllers, pages, presenters and operator tools.
