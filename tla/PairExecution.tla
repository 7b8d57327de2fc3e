---------------------------- MODULE PairExecution ----------------------------
(***************************************************************************)
(* The executions of one arbitrage pair (one user, one rule, one pair_key) *)
(* and the four actors that work on them through the shared database:      *)
(*   the execution thread     arbitrage_execution_monitor_service drives   *)
(*                            process_order_leg and reconcile_execution,   *)
(*   the position thread      arbitrage_position_monitor_service,          *)
(*   the opportunity thread   arbitrage_opportunity_monitor_service,       *)
(*   the web process          strategy_runtime_service.request_close_...   *)
(*                            and strategy_rule_service.update_rule        *)
(* Each of the last three and the execution thread itself may create an    *)
(* execution (arbitrage_execution_plan_service); none holds a lock.        *)
(*                                                                         *)
(* One action is one committed repository call, or a run of calls between  *)
(* which no other actor's step can matter.  A round of process_order_leg   *)
(* on one leg is one action here: OrderLeg opens it up, with the requests   *)
(* that get lost and the drivers that say open of an order filled in part. *)
(* The two tables are sequences, a row's id its index.  Of a leg's row qty *)
(* is requested_quantity, what its next or present order asks for, filled  *)
(* is filled_quantity; traded is no column: it is what the exchange has    *)
(* last said of the order, which counts from zero for every order.         *)
(***************************************************************************)
EXTENDS Integers, SequencesExt

CONSTANTS
    MaxExecutions,   \* bound: rows of the executions table
    MaxOpenings,     \* bound: executions the opportunity thread starts
    MaxRequests,     \* bound: requests of the user to close, of either kind
    CrashLimit,      \* bound: deaths of the worker or of a web request
    RetryLimit,      \* 10 in the code
    LegSize,         \* quantity of an opening leg
    MaxPosition,     \* max_position_quantity of the rule
    MaxHeld,         \* bound: what orders the exchange cancels may add up to
    Gaps,            \* may a price or a minimum amount leave a leg unplanned
    Refusals,        \* may a leg fail for another reason than its retries
    Switchable       \* may the user disable the rule

ASSUME BoundAssumption ==
    /\ MaxExecutions \in Nat \ {0}
    /\ {MaxOpenings, MaxRequests, CrashLimit, MaxHeld} \subseteq Nat
ASSUME SizeAssumption ==
    {RetryLimit, LegSize, MaxPosition} \subseteq Nat \ {0}
ASSUME SwitchAssumption == {Gaps, Refusals, Switchable} \subseteq BOOLEAN

Sides == {"left", "right"}
ActiveLeg == {"pending", "submitting", "submitted", "partial"}
EndedLeg == {"filled", "failed"}
ActiveExecution == {"pending", "opening", "open", "closing"}
Planners == {"execution", "position", "opportunity", "web"}
None == 0
Unread == "unread"

VARIABLES
    execs,      \* the arbitrage_executions rows
    legs,       \* the arbitrage_order_legs rows
    position,   \* quantity of the local position row of each side
    cooldown,   \* the pair's cooldown key is alive
    enabled,    \* the rule is enabled
    pc,         \* where the execution thread is
    batch,      \* the leg rows it read and has not worked off, by id
    seen,       \* the execution status it read last
    verdict,    \* the status it is about to give the source execution
    watch,      \* the executions the position thread has not worked off
    plan,       \* what each creator of executions is doing
    sweep,      \* the executions the disabling of the rule is still to close
    openings, requests, crashes,   \* bounds spent
    lapses      \* history: kinds of failures the code does not make up for

tables == <<execs, legs, position, cooldown>>
rule == <<enabled, sweep>>
worker == <<pc, batch, seen, verdict>>
bounds == <<openings, requests, crashes>>
vars == <<execs, legs, position, cooldown, enabled, pc, batch, seen, verdict,
          watch, plan, sweep, openings, requests, crashes, lapses>>

Idle == [pc |-> "idle", source |-> None, exec |-> None, todo |-> {},
         qty |-> [s \in Sides |-> 0]]

NoLegs == [i \in {} |-> 0]

Init ==
    /\ execs = <<>>
    /\ legs = <<>>
    /\ position = [s \in Sides |-> 0]
    /\ cooldown = FALSE
    /\ enabled = TRUE
    /\ pc = "idle"
    /\ batch = NoLegs
    /\ seen = Unread
    /\ verdict = Unread
    /\ watch = {}
    /\ plan = [p \in Planners |-> Idle]
    /\ sweep = {}
    /\ openings = 0
    /\ requests = 0
    /\ crashes = 0
    /\ lapses = {}

-----------------------------------------------------------------------------
(* Queries.                                                                 *)

LegsOf(e) == {i \in DOMAIN legs : legs[i].exec = e}
StatusesOf(e) == {legs[i].status : i \in LegsOf(e)}
HasBothLegs(e) == {legs[i].side : i \in LegsOf(e)} = Sides
InProgress(e) == StatusesOf(e) \cap ActiveLeg # {}
UsedUp(e) == \E i \in LegsOf(e) : legs[i].retry >= RetryLimit

ClosesInFlight ==
    {e \in DOMAIN execs :
        execs[e].action = "close" /\ execs[e].status \in ActiveExecution}

HasOpenClose == ClosesInFlight # {}

ClosesOf(e) == {c \in DOMAIN execs : execs[c].source = e}

LatestClose(e) == Max({None} \cup ClosesOf(e))

LatestOpen ==
    Max({None} \cup {e \in DOMAIN execs : execs[e].action = "open"})

Held == {s \in Sides : position[s] > 0}
Unhedged == Held # {} /\ Held # Sides

SetStatus(e, status) == execs' = [execs EXCEPT ![e].status = status]

-----------------------------------------------------------------------------
(* Creating an execution: the row, its left leg, its right leg, the mark on *)
(* the source.  Planner p may be "execution" (forced close), "position",    *)
(* "web" or "opportunity".                                                  *)

(* Which sides create_close_execution plans: those with a position, unless  *)
(* one cannot be priced or falls below the minimum.                         *)
Plannable == IF Gaps THEN SUBSET Held ELSE {Held}

(* A close takes the quantity of the position as it finds it: a leg of the  *)
(* source that still trades fills what nobody has planned to close.         *)

NotPlanned(p, sides) ==
    lapses' = lapses \cup (IF sides = Held THEN {} ELSE {"gap"})
                     \cup (IF InProgress(plan[p].source)
                              THEN {"early"} ELSE {})

NewExecution(p, act, source) ==
    /\ Len(execs) < MaxExecutions
    /\ execs' = Append(execs, [action |-> act, status |-> "pending",
                               source |-> source, by |-> p])

CreateClose(p) ==
    /\ plan[p].pc = "plan"
    /\ HasBothLegs(plan[p].source)
    /\ \E sides \in Plannable \ {{}} :
          /\ NotPlanned(p, sides)
          /\ plan' = [plan EXCEPT ![p].pc = "insert", ![p].todo = sides,
                                  ![p].qty = position,
                                  ![p].exec = Len(execs) + 1]
    /\ NewExecution(p, "close", plan[p].source)
    /\ UNCHANGED <<legs, position, cooldown, rule, worker, watch, bounds>>

(* The legs are inserted left before right, each in its own transaction.    *)
NextSide(p) == IF "left" \in plan[p].todo THEN "left" ELSE "right"

InsertLeg(p) ==
    /\ plan[p].pc = "insert"
    /\ legs' = Append(legs, [exec |-> plan[p].exec, side |-> NextSide(p),
                             status |-> "pending", oid |-> FALSE, retry |-> 0,
                             qty |-> plan[p].qty[NextSide(p)], filled |-> 0,
                             traded |-> 0])
    /\ LET left == plan[p].todo \ {NextSide(p)} IN
       plan' = [plan EXCEPT
            ![p] = IF left # {} THEN [@ EXCEPT !.todo = left]
                   ELSE IF p = "opportunity" THEN Idle
                   ELSE [@ EXCEPT !.todo = {}, !.pc = "mark"]]
    /\ UNCHANGED <<execs, position, cooldown, rule, worker, watch, bounds,
                   lapses>>

(* The creator marks the source.  It may come late: the close it has made,  *)
(* or found in flight, has ended by now, and no other one of the source is  *)
(* in flight.                                                               *)
MarkClosing(p) ==
    /\ plan[p].pc = "mark"
    /\ SetStatus(plan[p].source, "closing")
    /\ lapses' = IF ClosesInFlight \cap ClosesOf(plan[p].source) # {}
                    THEN lapses ELSE lapses \cup {"late"}

-----------------------------------------------------------------------------
(* The execution thread, one leg of the batch after another.                *)

ActiveLegIds == {i \in DOMAIN legs : legs[i].status \in ActiveLeg}

(* list_pending_order_legs: the rows as they are now, worked off in the     *)
(* order of their ids.                                                      *)
ScanLegs ==
    /\ pc = "idle"
    /\ ActiveLegIds # {}
    /\ batch' = Restrict(legs, ActiveLegIds)
    /\ pc' = "leg"
    /\ UNCHANGED <<tables, rule, seen, verdict, watch, plan, bounds, lapses>>

(* The leg in work: its id, and its row as the scan read it.                *)
This == Min(DOMAIN batch)
Row == batch[This]
Exec == Row.exec
Action == execs[Exec].action

(* On to the next leg, or to the next scan; what reconcile_execution held   *)
(* goes out of scope.                                                       *)
Remaining == DOMAIN batch \ {This}

Advance ==
    /\ batch' = Restrict(batch, Remaining)
    /\ pc' = IF Remaining = {} THEN "idle" ELSE "leg"
    /\ seen' = Unread
    /\ verdict' = Unread

(* process_order_leg ends with reconcile_execution, which reads the         *)
(* execution's status first.                                                *)
ThenReconcile ==
    /\ pc' = "status"
    /\ seen' = execs[Exec].status
    /\ UNCHANGED <<execs, cooldown, rule, batch, verdict, watch, plan, bounds>>

Blocked == Action = "open" /\ ~enabled

BlockDisabledOpening ==
    /\ pc = "leg"
    /\ Blocked
    /\ legs' = [legs EXCEPT ![This].status = "failed"]
    /\ UNCHANGED <<position, lapses>>
    /\ ThenReconcile

Submitting == pc = "leg" /\ ~Blocked /\ Row.status = "pending"
Monitoring == pc = "leg" /\ ~Blocked /\ Row.status # "pending"

(* Mutant: a closing leg is skipped when the position of either side is 0.  *)
SkipCloseLegOfEitherSide ==
    /\ Submitting
    /\ Action = "close" /\ \E s \in Sides : position[s] = 0
    /\ legs' = [legs EXCEPT ![This].status = "filled", ![This].filled = 0]
    /\ UNCHANGED <<position, lapses>>
    /\ ThenReconcile

SkipCloseLeg ==
    /\ Submitting
    /\ Action = "close" /\ position[Row.side] = 0
    /\ legs' = [legs EXCEPT ![This].status = "filled", ![This].filled = 0]
    /\ UNCHANGED <<position, lapses>>
    /\ ThenReconcile

CanSubmit == Submitting /\ ~(Action = "close" /\ position[Row.side] = 0)

(* The copy is older than the end reconcile_execution has put to the leg:   *)
(* nothing in _submit_order notices.                                        *)
Outdated ==
    lapses' = IF legs[This].status \in EndedLeg THEN lapses \cup {"stale"}
                                                ELSE lapses

SubmitLeg ==
    /\ CanSubmit
    /\ legs' = [legs EXCEPT ![This].status = "submitted", ![This].oid = TRUE]
    /\ Outdated
    /\ UNCHANGED position
    /\ ThenReconcile

(* Mutant: the limit is compared with > instead of >=.                      *)
RetryStatusOneMore == IF Row.retry + 1 > RetryLimit THEN "failed" ELSE "pending"

RetryStatus == IF Row.retry + 1 >= RetryLimit THEN "failed" ELSE "pending"

SubmitFails ==
    /\ CanSubmit
    /\ legs' = [legs EXCEPT ![This].status = RetryStatus,
                            ![This].retry = Row.retry + 1]
    /\ Outdated
    /\ UNCHANGED position
    /\ ThenReconcile

(* A leg fails at once: its account is gone, its price or quantity invalid. *)
LegRefused ==
    /\ pc = "leg" /\ ~Blocked
    /\ Refusals
    /\ legs' = [legs EXCEPT ![This].status = "failed"]
    /\ lapses' = IF Action = "close" THEN lapses \cup {"refused"} ELSE lapses
    /\ UNCHANGED position
    /\ ThenReconcile

(* The status "submitting" without an order id: nothing to ask for.         *)
MonitorWithoutOrder ==
    /\ Monitoring
    /\ ~Row.oid
    /\ UNCHANGED <<legs, position, lapses>>
    /\ ThenReconcile

Asking == Monitoring /\ Row.oid

(* _sync_incremental_fill_progress, with n filled of the present order: the *)
(* local position of the leg's side moves by what n is beyond the row's     *)
(* filled_quantity.                                                         *)
Delta(n) == Max({0, n - Row.filled})

Book(n) ==
    position' = [position EXCEPT ![Row.side] =
                    IF Action = "open" THEN @ + Delta(n) ELSE Max({0, @ - Delta(n)})]

(* filled_quantity may still be an earlier order's: then what is booked is  *)
(* not what this order has traded since it was last asked for, and a close  *)
(* leaves behind more than there is at the exchange.                        *)
Misbooked(n) == Action = "close" /\ Delta(n) # n - Row.traded

BookingLapse(n) ==
    lapses' = IF Misbooked(n) THEN lapses \cup {"misbooked"} ELSE lapses

(* What an order that is not filled may have filled by now.                 *)
PartFills == Row.traded .. Row.qty - 1

LegFills ==
    /\ Asking
    /\ Book(Row.qty) /\ BookingLapse(Row.qty)
    /\ legs' = [legs EXCEPT ![This].status = "filled", ![This].filled = Row.qty,
                            ![This].traded = Row.qty]
    /\ ThenReconcile

(* Nothing new, or a partial fill within the five seconds.                  *)
LegWaits ==
    /\ Asking
    /\ \E n \in PartFills :
          /\ Book(n) /\ BookingLapse(n)
          /\ legs' = IF n = Row.traded THEN legs
                     ELSE [legs EXCEPT ![This].status = "partial",
                                       ![This].filled = n, ![This].traded = n]
    /\ ThenReconcile

(* _retry_order: what is left of the request after the n filled of this     *)
(* order, or after the row's filled_quantity when there are none.           *)
TotalFilled(n) == Max({Row.filled, n})
LeftOver(n) == Row.qty - (IF n > 0 THEN n ELSE TotalFilled(n))

NextQty(n) ==
    IF RetryStatus = "pending" /\ LeftOver(n) > 0 THEN LeftOver(n) ELSE Row.qty

(* Five seconds passed: cancelled and posted again, or given up.            *)
LegReposted ==
    /\ Asking
    /\ \E n \in PartFills :
          /\ Book(n) /\ BookingLapse(n)
          /\ legs' = [legs EXCEPT ![This].status = RetryStatus,
                                  ![This].retry = Row.retry + 1,
                                  ![This].filled = TotalFilled(n),
                                  ![This].traded = 0,
                                  ![This].qty = NextQty(n)]
    /\ ThenReconcile

(* The exchange ended the order by itself.  What it had filled is booked,   *)
(* not written; the same quantity is posted again, at no retry.             *)
CancelStatus == IF Row.retry >= RetryLimit THEN "failed" ELSE "pending"

LegCancelled ==
    /\ Asking
    /\ \E n \in PartFills :
          /\ Book(n) /\ BookingLapse(n)
          /\ Action = "open" => position'[Row.side] <= MaxHeld
    /\ legs' = [legs EXCEPT ![This].status = CancelStatus, ![This].traded = 0]
    /\ ThenReconcile

(* The exchange says of the order what the code does not know: what it had  *)
(* filled is booked, and the leg fails.                                     *)
LegRejected ==
    /\ Asking
    /\ Refusals
    /\ \E n \in PartFills :
          /\ Book(n)
          /\ lapses' = lapses \cup (IF Action = "close" THEN {"refused"} ELSE {})
                               \cup (IF Misbooked(n) THEN {"misbooked"} ELSE {})
    /\ legs' = [legs EXCEPT ![This].status = "failed"]
    /\ ThenReconcile

ProcessLeg ==
    \/ BlockDisabledOpening \/ SkipCloseLeg \/ SubmitLeg \/ SubmitFails
    \/ LegRefused \/ MonitorWithoutOrder \/ LegFills \/ LegWaits \/ LegReposted
    \/ LegCancelled \/ LegRejected

-----------------------------------------------------------------------------
(* The execution thread: reconcile_execution.                               *)

(* The execution's status as its legs' statuses decide it.                  *)
ReconciledStatus(e) ==
    CASE "failed" \in StatusesOf(e) -> "failed"
      [] StatusesOf(e) = {"filled"} ->
            IF execs[e].action = "open" THEN "open" ELSE "closed"
      [] OTHER -> IF execs[e].action = "open" THEN "opening" ELSE "closing"

(* The creator of the execution has not inserted its last leg yet.          *)
HalfInserted(e) ==
    \E p \in Planners : plan[p].pc = "insert" /\ plan[p].exec = e

(* The status is written when it differs from the one read before.          *)
WriteStatus ==
    /\ pc = "status"
    /\ IF ReconciledStatus(Exec) = seen THEN UNCHANGED execs
       ELSE SetStatus(Exec, ReconciledStatus(Exec))

ReconcileUnderWay ==
    /\ WriteStatus
    /\ ReconciledStatus(Exec) \in {"opening", "open", "closing"}
    /\ lapses' = IF ReconciledStatus(Exec) = "open" /\ HalfInserted(Exec)
                    THEN lapses \cup {"half"} ELSE lapses
    /\ Advance
    /\ UNCHANGED <<legs, position, cooldown, rule, watch, plan, bounds>>

(* Every leg of a close is filled: the source execution is closed.          *)
ReconcileClosed ==
    /\ WriteStatus
    /\ ReconciledStatus(Exec) = "closed"
    /\ lapses' = IF HalfInserted(Exec) THEN lapses \cup {"half"} ELSE lapses
    /\ verdict' = "closed"
    /\ seen' = Unread
    /\ pc' = "readSource"
    /\ UNCHANGED <<legs, position, cooldown, rule, batch, watch, plan, bounds>>

(* _finalize_failed_execution_active_legs ends the legs without an order id.*)
FinalizedLeg(leg) ==
    IF leg.status \notin ActiveLeg \/ leg.oid THEN leg
    ELSE IF Action = "close" /\ position[leg.side] = 0
         THEN [leg EXCEPT !.status = "filled", !.filled = 0]
         ELSE [leg EXCEPT !.status = "failed"]

(* Mutant: a close that failed for good leaves its source closing.          *)
ReconcileFailedKeepsClosing ==
    /\ WriteStatus
    /\ ReconciledStatus(Exec) = "failed"
    /\ legs' = [i \in DOMAIN legs |->
                   IF i \in LegsOf(Exec) THEN FinalizedLeg(legs[i]) ELSE legs[i]]
    /\ seen' = Unread
    /\ IF Action = "close"
         THEN /\ cooldown' = (cooldown \/ UsedUp(Exec))
              /\ verdict' = "closing"
              /\ pc' = "readSource"
         ELSE /\ pc' = "openFailed"
              /\ UNCHANGED <<cooldown, verdict>>
    /\ UNCHANGED <<position, rule, batch, watch, plan, bounds, lapses>>

(* A leg has failed.  _handle_failed_close_execution: with the retries used *)
(* up the pair cools down and the source goes back to open, else the source *)
(* stays closing.                                                           *)
ReconcileFailed ==
    /\ WriteStatus
    /\ ReconciledStatus(Exec) = "failed"
    /\ legs' = [i \in DOMAIN legs |->
                   IF i \in LegsOf(Exec) THEN FinalizedLeg(legs[i]) ELSE legs[i]]
    /\ seen' = Unread
    /\ IF Action = "close"
         THEN /\ cooldown' = (cooldown \/ UsedUp(Exec))
              /\ verdict' = IF UsedUp(Exec) THEN "open" ELSE "closing"
              /\ pc' = "readSource"
         ELSE /\ pc' = "openFailed"
              /\ UNCHANGED <<cooldown, verdict>>
    /\ UNCHANGED <<position, rule, batch, watch, plan, bounds, lapses>>

ReadSource ==
    /\ pc = "readSource"
    /\ seen' = execs[execs[Exec].source].status
    /\ pc' = "writeSource"
    /\ UNCHANGED <<tables, rule, batch, verdict, watch, plan, bounds, lapses>>

WriteSource ==
    /\ pc = "writeSource"
    /\ IF seen = "closed" THEN UNCHANGED execs
                          ELSE SetStatus(execs[Exec].source, verdict)
    /\ Advance
    /\ UNCHANGED <<legs, position, cooldown, rule, watch, plan, bounds,
                   lapses>>

(* _has_exposed_position                                                    *)
Exposed(e) ==
    \E i \in LegsOf(e) : legs[i].filled > 0 \/ position[legs[i].side] > 0

CoolIfUsedUp == cooldown' = (cooldown \/ UsedUp(Exec))

(* Mutant: a failed opening is dropped whatever it holds.                   *)
DropAnyFailedOpening ==
    /\ pc = "openFailed"
    /\ CoolIfUsedUp
    /\ Advance
    /\ UNCHANGED <<execs, legs, position, rule, watch, plan, bounds, lapses>>

(* A failed opening that holds nothing is done.                             *)
DropFailedOpening ==
    /\ pc = "openFailed"
    /\ ~Exposed(Exec)
    /\ CoolIfUsedUp
    /\ Advance
    /\ UNCHANGED <<execs, legs, position, rule, watch, plan, bounds, lapses>>

(* One that holds something is closed by force: by the close in flight, if  *)
(* there is one, else by a new one.                                         *)
ScheduleForceClose ==
    /\ pc = "openFailed"
    /\ Exposed(Exec)
    /\ plan' = [plan EXCEPT !["execution"] =
                  [Idle EXCEPT !.pc = IF HasOpenClose THEN "mark" ELSE "plan",
                               !.source = Exec]]
    /\ pc' = "forced"
    /\ lapses' = IF ClosesInFlight \subseteq ClosesOf(Exec) THEN lapses
                                                       ELSE lapses \cup {"borrowed"}
    /\ UNCHANGED <<tables, rule, batch, seen, verdict, watch, bounds>>

ForceCloseMarked ==
    /\ pc = "forced"
    /\ MarkClosing("execution")
    /\ plan' = [plan EXCEPT !["execution"] = Idle]
    /\ Advance
    /\ UNCHANGED <<legs, position, cooldown, rule, watch, bounds>>

(* create_close_execution returns nothing: no second leg, no position, or   *)
(* no plan.  The pair cools down; the execution stays failed.               *)
NothingToPlan(p) ==
    /\ plan[p].pc = "plan"
    /\ ~HasBothLegs(plan[p].source) \/ {} \in Plannable
    /\ NotPlanned(p, {})

ForceCloseImpossible ==
    /\ pc = "forced"
    /\ NothingToPlan("execution")
    /\ cooldown' = TRUE
    /\ plan' = [plan EXCEPT !["execution"] = Idle]
    /\ Advance
    /\ UNCHANGED <<execs, legs, position, rule, watch, bounds>>

ExecutionThread ==
    \/ ScanLegs
    \/ ProcessLeg
    \/ ReconcileUnderWay
    \/ ReconcileClosed
    \/ ReconcileFailed
    \/ ReadSource
    \/ WriteSource
    \/ DropFailedOpening
    \/ ScheduleForceClose
    \/ ForceCloseMarked
    \/ ForceCloseImpossible
    \/ CreateClose("execution")
    \/ InsertLeg("execution")

-----------------------------------------------------------------------------
(* The position thread.                                                     *)

Watching(state) == plan["position"].pc = state
Watched == Min(watch)

OpenExecutions ==
    {e \in DOMAIN execs : execs[e].action = "open" /\ execs[e].status = "open"}

ScanPositions ==
    /\ Watching("idle")
    /\ watch = {}
    /\ OpenExecutions # {}
    /\ watch' = OpenExecutions
    /\ UNCHANGED <<tables, rule, worker, plan, bounds, lapses>>

NextWatched ==
    /\ watch' = watch \ {Watched}
    /\ plan' = [plan EXCEPT !["position"] = Idle]

(* The position thread goes on to one of the next steps of _scan_open_...   *)
GoOn(state) ==
    /\ plan' = [plan EXCEPT !["position"] =
                    [Idle EXCEPT !.pc = state, !.source = Watched]]
    /\ UNCHANGED watch

CheckClose ==
    /\ Watching("idle")
    /\ watch # {}
    /\ IF HasOpenClose THEN NextWatched ELSE GoOn("inspect")
    /\ UNCHANGED <<tables, rule, worker, bounds, lapses>>

(* Mutant: a single leg counts as no position.                              *)
InspectPositionsOfBothSides ==
    /\ Watching("inspect")
    /\ GoOn(IF Held # Sides THEN "forget" ELSE "recheck")
    /\ UNCHANGED <<tables, rule, worker, bounds, lapses>>

InspectPositions ==
    /\ Watching("inspect")
    /\ GoOn(IF ~HasBothLegs(Watched) \/ Held = {} THEN "forget"
            ELSE IF Unhedged THEN "plan" ELSE "recheck")
    /\ UNCHANGED <<tables, rule, worker, bounds, lapses>>

(* No live position, or a leg is missing: the execution counts as closed.   *)
Forget ==
    /\ Watching("forget")
    /\ SetStatus(Watched, "closed")
    /\ NextWatched
    /\ UNCHANGED <<legs, position, cooldown, rule, worker, bounds, lapses>>

(* A hedged pair is closed when the market or the rule gives a reason.      *)
ResolveCloseReason ==
    /\ Watching("recheck")
    /\ \/ NextWatched
       \/ ~HasOpenClose /\ GoOn("plan")
    /\ UNCHANGED <<tables, rule, worker, bounds, lapses>>

PositionPlanImpossible ==
    /\ NothingToPlan("position")
    /\ NextWatched
    /\ UNCHANGED <<tables, rule, worker, bounds>>

MarkWatched ==
    /\ MarkClosing("position")
    /\ NextWatched
    /\ UNCHANGED <<legs, position, cooldown, rule, worker, bounds>>

PositionThread ==
    \/ ScanPositions
    \/ CheckClose
    \/ InspectPositions
    \/ Forget
    \/ ResolveCloseReason
    \/ PositionPlanImpossible
    \/ MarkWatched
    \/ CreateClose("position")
    \/ InsertLeg("position")

-----------------------------------------------------------------------------
(* The opportunity thread.                                                  *)

(* _can_continue_after_interval and the limit on the pair's position, which *)
(* looks at the latest opening only.                                        *)
MayOpenAgain ==
    LatestOpen # None /\ execs[LatestOpen].status = "open" =>
        /\ HasBothLegs(LatestOpen)
        /\ Held = Sides
        /\ position["left"] = position["right"]

PairQuantity ==
    IF LatestOpen = None \/ ~HasBothLegs(LatestOpen) THEN 0
    ELSE Max({position[s] : s \in Sides})

MayOpen ==
    /\ enabled
    /\ ~cooldown
    /\ MayOpenAgain
    /\ PairQuantity < MaxPosition

(* create_open_execution: the row, then its two legs.                       *)
CreateOpen ==
    /\ plan["opportunity"].pc = "idle"
    /\ openings < MaxOpenings
    /\ MayOpen
    /\ NewExecution("opportunity", "open", None)
    /\ openings' = openings + 1
    /\ plan' = [plan EXCEPT !["opportunity"] =
                  [Idle EXCEPT !.pc = "insert", !.todo = Sides,
                               !.exec = Len(execs) + 1,
                               !.qty = [s \in Sides |-> LegSize]]]
    /\ UNCHANGED <<legs, position, cooldown, rule, worker, watch, requests,
                   crashes, lapses>>

OpportunityThread == CreateOpen \/ InsertLeg("opportunity")

-----------------------------------------------------------------------------
(* The web process: request_close_execution, and update_rule disabling the   *)
(* rule.  One request is under way at a time.                               *)

InFlight(c) == c # None /\ execs[c].status \in ActiveExecution

RequestClose(e) ==
    /\ plan["web"].pc = "idle"
    /\ requests < MaxRequests
    /\ execs[e].action = "open"
    /\ execs[e].status # "closed"
    /\ requests' = requests + 1
    /\ IF InFlight(LatestClose(e)) /\ execs[e].status = "closing"
         THEN UNCHANGED plan
         ELSE plan' = [plan EXCEPT !["web"] =
                [Idle EXCEPT !.pc = IF InFlight(LatestClose(e))
                                       THEN "mark" ELSE "plan",
                             !.source = e]]
    /\ UNCHANGED <<tables, rule, worker, watch, openings, crashes, lapses>>

(* The request is answered, or the sweep goes on to its next execution.     *)
NextRequested == plan' = [plan EXCEPT !["web"] =
    [Idle EXCEPT !.pc = IF sweep = {} THEN "idle" ELSE "sweep"]]

RequestImpossible ==
    /\ NothingToPlan("web")
    /\ NextRequested
    /\ UNCHANGED <<tables, rule, worker, watch, bounds>>

RequestMarked ==
    /\ MarkClosing("web")
    /\ NextRequested
    /\ UNCHANGED <<legs, position, cooldown, rule, worker, watch, bounds>>

(* update_rule: the rule is disabled, and when the user asked for it every  *)
(* open execution of the rule is to be closed.                              *)
DisableRule ==
    /\ Switchable
    /\ enabled
    /\ plan["web"].pc = "idle"
    /\ enabled' = FALSE
    /\ \/ UNCHANGED <<plan, requests>>
       \/ /\ requests < MaxRequests
          /\ requests' = requests + 1
          /\ plan' = [plan EXCEPT !["web"].pc = "list"]
    /\ UNCHANGED <<tables, sweep, worker, watch, openings, crashes, lapses>>

ListOpenExecutions ==
    /\ plan["web"].pc = "list"
    /\ sweep' = OpenExecutions
    /\ plan' = [plan EXCEPT !["web"].pc = IF sweep' = {} THEN "idle" ELSE "sweep"]
    /\ UNCHANGED <<tables, enabled, worker, watch, bounds, lapses>>

(* The executions come in the order of their last update, which is any.     *)
CloseDisabled(e) ==
    /\ plan["web"].pc = "sweep"
    /\ sweep' = sweep \ {e}
    /\ plan' = [plan EXCEPT !["web"] =
            IF HasOpenClose
            THEN [Idle EXCEPT !.pc = IF sweep' = {} THEN "idle" ELSE "sweep"]
            ELSE [Idle EXCEPT !.pc = "plan", !.source = e]]
    /\ UNCHANGED <<tables, enabled, worker, watch, bounds, lapses>>

(* What a request does once it is under way.                                *)
WebRequest ==
    \/ RequestImpossible
    \/ RequestMarked
    \/ ListOpenExecutions
    \/ \E e \in sweep : CloseDisabled(e)
    \/ CreateClose("web")
    \/ InsertLeg("web")

WebProcess ==
    \/ \E e \in DOMAIN execs : RequestClose(e)
    \/ DisableRule
    \/ WebRequest

-----------------------------------------------------------------------------
(* The surroundings.                                                        *)

CooldownExpires ==
    /\ cooldown
    /\ cooldown' = FALSE
    /\ UNCHANGED <<execs, legs, position, rule, worker, watch, plan, bounds,
                   lapses>>

(* A death between two writes that belong together leaves work behind that   *)
(* no thread takes up again; at any other point the next scan finds it.     *)
HalfWritten(planners) ==
    \E p \in planners : plan[p].pc \in {"insert", "mark"}

Crashed(planners) ==
    /\ crashes < CrashLimit
    /\ crashes' = crashes + 1
    /\ plan' = [p \in Planners |-> IF p \in planners THEN Idle ELSE plan[p]]

(* The worker process dies and is started again: its three threads forget   *)
(* what they held.  A leg whose submission was under way stays behind as    *)
(* submitting, without an order id.                                         *)
WorkerDies ==
    /\ \/ pc # "idle"
       \/ \E p \in Planners \ {"web"} : plan[p].pc # "idle"
    /\ Crashed(Planners \ {"web"})
    /\ pc' = "idle"
    /\ batch' = NoLegs
    /\ watch' = {}
    /\ legs' \in {legs} \cup IF CanSubmit
                    THEN {[legs EXCEPT ![This].status = "submitting"]} ELSE {}
    /\ lapses' = IF \/ HalfWritten(Planners \ {"web"})
                     \/ pc \notin {"idle", "leg"}
                     \/ legs' # legs
                    THEN lapses \cup {"crash"} ELSE lapses
    /\ seen' = Unread
    /\ verdict' = Unread
    /\ UNCHANGED <<execs, position, cooldown, rule, openings, requests>>

RequestDies ==
    /\ plan["web"].pc # "idle"
    /\ Crashed({"web"})
    /\ lapses' = IF HalfWritten({"web"}) THEN lapses \cup {"crash"} ELSE lapses
    /\ sweep' = {}
    /\ UNCHANGED <<tables, enabled, worker, watch, openings, requests>>

Surroundings == CooldownExpires \/ WorkerDies \/ RequestDies

Next ==
    \/ ExecutionThread
    \/ PositionThread
    \/ OpportunityThread
    \/ WebProcess
    \/ Surroundings

Spec == Init /\ [][Next]_vars

-----------------------------------------------------------------------------
(* Properties.                                                              *)

Executions ==
    [action : {"open", "close"},
     status : ActiveExecution \cup {"closed", "failed"},
     source : 0 .. MaxExecutions, by : Planners]

Legs ==
    [exec : 1 .. MaxExecutions, side : Sides, status : ActiveLeg \cup EndedLeg,
     oid : BOOLEAN, retry : 0 .. RetryLimit, qty : Nat \ {0}, filled : Nat,
     traded : Nat]

(* Every variable stays in its range; a leg belongs to an execution there   *)
(* is and a close to an opening; a leg in progress has retries left and an  *)
(* order that is not filled.                                                *)
TypeOK ==
    /\ execs \in Seq(Executions)
    /\ legs \in Seq(Legs)
    /\ \A e \in DOMAIN execs : execs[e].action = "close" =>
          execs[e].source \in DOMAIN execs /\ execs[execs[e].source].action = "open"
    /\ \A i \in DOMAIN legs :
          /\ legs[i].exec \in DOMAIN execs
          /\ legs[i].status \in ActiveLeg =>
                legs[i].retry < RetryLimit /\ legs[i].traded < legs[i].qty
    /\ position \in [Sides -> Nat]
    /\ {cooldown, enabled} \subseteq BOOLEAN
    /\ pc \in {"idle", "leg", "status", "openFailed", "forced", "readSource",
              "writeSource"}
    /\ DOMAIN batch \subseteq DOMAIN legs
    /\ pc = "idle" <=> DOMAIN batch = {}
    /\ \A e \in watch \cup sweep : e \in DOMAIN execs /\ execs[e].action = "open"
    /\ lapses \subseteq {"crash", "gap", "refused", "half", "late", "early",
                          "borrowed", "stale", "misbooked"}

(* Something will still act on what the pair holds: the execution thread on *)
(* a leg it can submit or ask for, the position thread on an execution that *)
(* is open, or a thread that is in the middle of its work.                  *)
LegInHand == \E i \in DOMAIN legs :
    \/ legs[i].status = "pending"
    \/ legs[i].status \in ActiveLeg /\ legs[i].oid

OpenAndWatched ==
    \E e \in DOMAIN execs : execs[e].action = "open" /\ execs[e].status = "open"

SomeoneWorks == pc # "idle" \/ \E p \in Planners : plan[p].pc # "idle"

(* A position of the pair is never left with nobody to look after it, short *)
(* of the lapses recorded: a death in the middle of a write, a close that   *)
(* leaves a side unplanned, a closing leg that fails before its retries are *)
(* used up, a closing leg whose second order is booked against the fills of *)
(* its first (Misbooked), the races named in NotPlanned, MarkClosing,       *)
(* Outdated, ReconcileUnderWay and ScheduleForceClose.                      *)
PositionLookedAfter ==
    lapses = {} /\ Held # {} => LegInHand \/ OpenAndWatched \/ SomeoneWorks

(* The loops of the worker's threads survive every exception (_run_loop of  *)
(* the monitors), a creator of executions finishes what it began, and an    *)
(* order does not stay open for ever: after five seconds it is reposted at  *)
(* the price of a retry.  The exchange does not cancel for ever either.     *)
Fairness ==
    /\ WF_vars(ExecutionThread)
    /\ WF_vars(PositionThread)
    /\ WF_vars(InsertLeg("opportunity"))
    /\ WF_vars(WebRequest)
    /\ SF_vars(LegFills \/ LegReposted)

FairSpec == Spec /\ Fairness

OutOfRows == Len(execs) = MaxExecutions

(* A position that lost its counterpart does not stay alone: some thread    *)
(* closes it, or the other side follows.                                    *)
UnhedgedIsResolved == Unhedged ~> ~Unhedged \/ lapses # {} \/ OutOfRows

(* "该组合已经完成平仓": an execution whose status is closed, with nothing of  *)
(* the pair in work, has closed its position.  (For a pair opened once: a   *)
(* position belongs to all executions of its pair; and apart from the races *)
(* around a half-inserted execution.)                                       *)
ClosedIsFlat ==
    \A e \in DOMAIN execs :
        /\ execs[e].action = "open" /\ execs[e].status = "closed"
        /\ ~LegInHand /\ ~SomeoneWorks /\ "half" \notin lapses
        => Held = {}

(* "关联执行已失败，结束未真正提交的订单腿": a leg that was ended stays ended. *)
EndedLegStaysEnded ==
    [][\A i \in DOMAIN legs :
         legs[i].status = "failed" => legs'[i].status = "failed"]_vars

IsClosing(e) ==
    /\ e \in DOMAIN execs
    /\ execs[e].action = "open"
    /\ execs[e].status = "closing"

(* "平仓中": an execution that is closing does not stay so for ever.        *)
ClosingEnds ==
    \A e \in 1 .. MaxExecutions : IsClosing(e) ~> ~IsClosing(e) \/ OutOfRows
=============================================================================
