------------------------------ MODULE OrderLeg ------------------------------
(***************************************************************************)
(* One order leg of an arbitrage execution against one exchange account:   *)
(* arbitrage_execution_service.process_order_leg with _submit_order,       *)
(* _monitor_order, _retry_order, _sync_incremental_fill_progress and       *)
(* _upsert_position_from_fill, driven by the execution thread's scan.      *)
(*                                                                         *)
(* One action is one committed repository call or one exchange call; the   *)
(* worker may die between any two of them, and the exchange, the user and  *)
(* the clock move in between.  The row in the database is "row"; "snap" is *)
(* the copy of it the thread took when it scanned, which is what the code  *)
(* computes with.                                                          *)
(*                                                                         *)
(* Quantities of orders are contracts, quantities of fills and positions   *)
(* are base units (ContractSize of them to a contract), as in the code.    *)
(* Prices, values and messages are left out.                               *)
(***************************************************************************)
EXTENDS Integers

CONSTANTS
    Actions,         \* what the leg's execution may be: "open", "close"
    Quantity,        \* contracts the leg is planned for
    ContractSize,    \* base units in one contract
    RetryLimit,      \* 10 in the code
    CancelLimit,     \* bound: orders the exchange cancels on its own
    CrashLimit,      \* bound: deaths of the worker process
    PollLimit,       \* polls that fit into the 5 seconds (loop of 2 seconds)
    PartialReports,  \* how the driver reports a live, partly filled order
    Lossy,           \* may an exchange call fail after, or without, its effect
    Switchable       \* may the user disable the rule or the account

ASSUME ActionAssumption == Actions \subseteq {"open", "close"}
ASSUME QuantityAssumption == Quantity \in Nat \ {0}
ASSUME ContractAssumption == ContractSize \in Nat \ {0}
ASSUME RetryAssumption == RetryLimit \in Nat \ {0}
ASSUME LimitAssumption ==
    CancelLimit \in Nat /\ CrashLimit \in Nat /\ PollLimit \in Nat
ASSUME ReportAssumption == PartialReports \subseteq {"open", "partial"}
ASSUME FlagAssumption == Lossy \in BOOLEAN /\ Switchable \in BOOLEAN

None == 0

(* Every order is paid for by the first submission, a retry or a            *)
(* cancellation by the exchange: OrdersPaidFor below says so.               *)
OrderIds == 1 .. (RetryLimit + CancelLimit + CrashLimit + 1)

ActiveStatuses == {"pending", "submitting", "submitted", "partial"}
FinalStatuses == {"filled", "failed"}
LegStatuses == ActiveStatuses \cup FinalStatuses

Legs == [status : LegStatuses, oid : OrderIds \cup {None},
         requested : 0 .. Quantity, filled : Nat, retry : 0 .. RetryLimit]

OrderStates == {"none", "live", "closed", "canceled", "rejected"}
Orders == [qty : 0 .. Quantity, filled : 0 .. Quantity, state : OrderStates]

Replies == [status : {"open", "partial", "filled", "cancelled", "rejected"},
            filled : 0 .. Quantity]

VARIABLES
    action,    \* the action of the leg's execution, never written again
    row,       \* the arbitrage_order_legs row
    aged,      \* 5 seconds have passed since row.submitted_at
    polls,     \* fetches since then, while not aged
    position,  \* quantity of the local position row (arbitrage_positions)
    recorded,  \* sum of the leg's fill records
    pc,        \* where the execution thread is
    snap,      \* the row as the thread read it
    reply,     \* the order as fetch_order returned it
    newId,     \* the id create_order returned
    orders,    \* the exchange's orders
    placed,    \* how many orders the exchange has accepted
    held,      \* the exchange's own position, in contracts
    enabled,   \* the rule and the exchange are enabled
    account,   \* the account is active
    cancels, crashes, \* bounds spent
    astray,    \* history: orders whose id was lost or whose cancel failed
    counted    \* history: fills the retries had seen when they reposted

legVars == <<action, row, aged, polls, position, recorded>>
threadVars == <<pc, snap, reply, newId>>
exchangeVars == <<orders, placed, held>>
switchVars == <<enabled, account>>
ghostVars == <<cancels, crashes, astray, counted>>
vars == <<action, row, aged, polls, position, recorded, pc, snap, reply, newId,
          orders, placed, held, enabled, account,
          cancels, crashes, astray, counted>>

PCs == {"idle", "picked", "create", "ack", "raised",
        "fetched", "position", "decide", "repost"}

-----------------------------------------------------------------------------
(* Conversions and the exchange's arithmetic.                               *)

ToBase(q) == q * ContractSize

ToOrder(base, exchangeFilled) ==
    IF exchangeFilled > 0 THEN exchangeFilled ELSE base \div ContractSize

Larger(a, b) == IF a > b THEN a ELSE b

(* What a live order may still fill.  A closing order is reduce-only, or    *)
(* runs in hedge mode: it cannot fill beyond the position the exchange has. *)
MayFill(o) ==
    /\ orders[o].state = "live"
    /\ action = "close" => held > 0

NoReply == [status |-> "open", filled |-> 0]

NewLeg == [status |-> "pending", oid |-> None, requested |-> Quantity,
           filled |-> 0, retry |-> 0]

Init ==
    /\ action \in Actions
    /\ row = NewLeg
    /\ aged = FALSE
    /\ polls = 0
    /\ position = IF action = "close" THEN ToBase(Quantity) ELSE 0
    /\ recorded = 0
    /\ pc = "idle"
    /\ snap = NewLeg
    /\ reply = NoReply
    /\ newId = None
    /\ orders = [o \in OrderIds |->
                    [qty |-> 0, filled |-> 0, state |-> "none"]]
    /\ placed = 0
    /\ held = IF action = "close" THEN Quantity ELSE 0
    /\ enabled = TRUE
    /\ account = TRUE
    /\ cancels = 0
    /\ crashes = 0
    /\ astray = {}
    /\ counted = 0

-----------------------------------------------------------------------------
(* The thread: scan, gate, submit.                                          *)

(* Mutant: the scan forgets the status filter.                              *)
ScanEveryLeg ==
    /\ pc = "idle"
    /\ snap' = row
    /\ pc' = "picked"
    /\ UNCHANGED <<legVars, reply, newId, exchangeVars, switchVars, ghostVars>>

(* list_pending_order_legs hands the thread a copy of every active row.     *)
Scan ==
    /\ pc = "idle"
    /\ row.status \in ActiveStatuses
    /\ snap' = row
    /\ pc' = "picked"
    /\ UNCHANGED <<legVars, reply, newId, exchangeVars, switchVars, ghostVars>>

(* process_order_leg returns: what the thread held goes out of scope.       *)
Return ==
    /\ pc' = "idle"
    /\ snap' = NewLeg
    /\ reply' = NoReply
    /\ newId' = None

(* A leg's last write of a round.                                           *)
Finish(leg) == row' = leg /\ Return

Blocked == action = "open" /\ ~enabled

(* The rule or the exchange was switched off: the leg fails, whatever its   *)
(* state at the exchange.                                                   *)
BlockDisabledOpening ==
    /\ pc = "picked"
    /\ Blocked
    /\ Finish([row EXCEPT !.status = "failed"])
    /\ UNCHANGED <<action, aged, polls, position, recorded,
                   exchangeVars, switchVars, ghostVars>>

(* The account is gone: neither submitting nor monitoring goes on.          *)
FailWithoutAccount ==
    /\ pc = "picked"
    /\ ~Blocked
    /\ ~account
    /\ Finish([row EXCEPT !.status = "failed"])
    /\ UNCHANGED <<action, aged, polls, position, recorded,
                   exchangeVars, switchVars, ghostVars>>

Submitting == pc = "picked" /\ ~Blocked /\ account /\ snap.status = "pending"
Monitoring == pc = "picked" /\ ~Blocked /\ account /\ snap.status # "pending"

ShouldSkipCloseLeg == action = "close" /\ position = 0

SkipCloseLeg ==
    /\ Submitting
    /\ ShouldSkipCloseLeg
    /\ Finish([row EXCEPT !.status = "filled", !.filled = 0])
    /\ UNCHANGED <<action, aged, polls, position, recorded,
                   exchangeVars, switchVars, ghostVars>>

(* A price or quantity that is not positive would fail the leg here.  Plans  *)
(* with one are refused before they are stored, and _retry_order keeps the  *)
(* former value instead of writing one, so no whole number of contracts     *)
(* gets here with it.                                                       *)
BeginSubmit ==
    /\ Submitting
    /\ ~ShouldSkipCloseLeg
    /\ row' = [row EXCEPT !.status = "submitting"]
    /\ aged' = FALSE
    /\ polls' = 0
    /\ pc' = "create"
    /\ UNCHANGED <<action, position, recorded, snap, reply, newId,
                   exchangeVars, switchVars, ghostVars>>

(* The exchange takes the order under the next id.                          *)
PlaceOrder ==
    /\ placed + 1 \in OrderIds
    /\ placed' = placed + 1
    /\ orders' = [orders EXCEPT ![placed + 1] =
                    [qty |-> snap.requested, filled |-> 0, state |-> "live"]]

CreateAccepted ==
    /\ pc = "create"
    /\ PlaceOrder
    /\ newId' = placed + 1
    /\ pc' = "ack"
    /\ UNCHANGED <<legVars, snap, reply, held, switchVars, ghostVars>>

(* The order is in, but create_order raises: the reply was lost.            *)
CreateLost ==
    /\ pc = "create"
    /\ Lossy
    /\ PlaceOrder
    /\ astray' = astray \cup {placed + 1}
    /\ pc' = "raised"
    /\ UNCHANGED <<legVars, snap, reply, newId, held, switchVars,
                   cancels, crashes, counted>>

CreateRefused ==
    /\ pc = "create"
    /\ pc' = "raised"
    /\ UNCHANGED <<legVars, snap, reply, newId, exchangeVars, switchVars,
                   ghostVars>>

(* Mutant: the order id is not written.                                     *)
RecordSubmittedWithoutId ==
    /\ pc = "ack"
    /\ Finish([row EXCEPT !.status = "submitted"])
    /\ UNCHANGED <<action, aged, polls, position, recorded,
                   exchangeVars, switchVars, ghostVars>>

RecordSubmitted ==
    /\ pc = "ack"
    /\ Finish([row EXCEPT !.status = "submitted", !.oid = newId])
    /\ UNCHANGED <<action, aged, polls, position, recorded,
                   exchangeVars, switchVars, ghostVars>>

(* The write of "submitted" fails inside the try: the handler takes it for a *)
(* refused order.                                                           *)
RecordSubmittedFails ==
    /\ pc = "ack"
    /\ Lossy
    /\ astray' = astray \cup {newId}
    /\ pc' = "raised"
    /\ UNCHANGED <<legVars, snap, reply, newId, exchangeVars, switchVars,
                   cancels, crashes, counted>>

(* Mutant: the limit is compared with > instead of >=.                      *)
RetryStatusOneMore ==
    IF snap.retry + 1 > RetryLimit THEN "failed" ELSE "pending"

RetryStatus == IF snap.retry + 1 >= RetryLimit THEN "failed" ELSE "pending"

(* Mutant: a refused order costs no retry.                                  *)
RecordSubmitErrorForFree ==
    /\ pc = "raised"
    /\ Finish([row EXCEPT !.status = "pending"])
    /\ UNCHANGED <<action, aged, polls, position, recorded,
                   exchangeVars, switchVars, ghostVars>>

RecordSubmitError ==
    /\ pc = "raised"
    /\ Finish([row EXCEPT !.status = RetryStatus, !.retry = snap.retry + 1])
    /\ UNCHANGED <<action, aged, polls, position, recorded,
                   exchangeVars, switchVars, ghostVars>>

-----------------------------------------------------------------------------
(* The thread: monitor.                                                     *)

(* Nothing to ask for: the round ends without a write.                      *)
MonitorWithoutOrder ==
    /\ Monitoring
    /\ snap.oid = None
    /\ Return
    /\ UNCHANGED <<legVars, exchangeVars, switchVars, ghostVars>>

(* What the driver says of an order, after _normalize_order_status.         *)
ReportsOf(o) ==
    CASE orders[o].state = "closed"   -> {"filled"}
      [] orders[o].state = "canceled" -> {"cancelled"}
      [] orders[o].state = "rejected" -> {"rejected"}
      [] OTHER -> IF orders[o].filled = 0 THEN {"open"} ELSE PartialReports

FetchOrder ==
    /\ Monitoring
    /\ snap.oid # None
    /\ aged \/ polls < PollLimit
    /\ polls' = IF aged THEN polls ELSE polls + 1
    /\ \E s \in ReportsOf(snap.oid) :
          reply' = [status |-> s, filled |-> orders[snap.oid].filled]
    /\ pc' = "fetched"
    /\ UNCHANGED <<action, row, aged, position, recorded, snap, newId,
                   exchangeVars, switchVars, ghostVars>>

(* Mutant: a failed status request is taken for a lost order.               *)
FetchFailsAndReposts ==
    /\ Monitoring
    /\ snap.oid # None
    /\ Lossy
    /\ Finish([row EXCEPT !.status = "pending"])
    /\ UNCHANGED <<action, aged, polls, position, recorded,
                   exchangeVars, switchVars, ghostVars>>

(* fetch_order raises: the leg stays as it was.                             *)
FetchFails ==
    /\ Monitoring
    /\ snap.oid # None
    /\ Lossy
    /\ Return
    /\ UNCHANGED <<legVars, exchangeVars, switchVars, ghostVars>>

(* Mutant: the cumulative fill is taken for the increment.                  *)
DeltaCumulative == ToBase(reply.filled)

(* What the fetched order filled beyond the row's filled_quantity.          *)
Delta == Larger(0, ToBase(reply.filled) - snap.filled)

RecordFill ==
    /\ pc = "fetched"
    /\ recorded' = recorded + Delta
    /\ pc' = IF Delta > 0 THEN "position" ELSE "decide"
    /\ UNCHANGED <<action, row, aged, polls, position, snap, reply, newId,
                   exchangeVars, switchVars, ghostVars>>

(* Mutant: a close is subtracted without the floor at zero.                 *)
UpdatePositionWithoutFloor ==
    /\ pc = "position"
    /\ position' = IF action = "open" THEN position + Delta
                                      ELSE position - Delta
    /\ pc' = "decide"
    /\ UNCHANGED <<action, row, aged, polls, recorded, snap, reply, newId,
                   exchangeVars, switchVars, ghostVars>>

UpdatePosition ==
    /\ pc = "position"
    /\ position' = IF action = "open" THEN position + Delta
                                      ELSE Larger(0, position - Delta)
    /\ pc' = "decide"
    /\ UNCHANGED <<action, row, aged, polls, recorded, snap, reply, newId,
                   exchangeVars, switchVars, ghostVars>>

MarkFilled ==
    /\ pc = "decide"
    /\ reply.status = "filled"
    /\ Finish([row EXCEPT !.status = "filled",
                          !.filled = ToBase(reply.filled)])
    /\ UNCHANGED <<action, aged, polls, position, recorded,
                   exchangeVars, switchVars, ghostVars>>

KeepPartial ==
    /\ pc = "decide"
    /\ reply.status = "partial"
    /\ ~aged
    /\ Finish([row EXCEPT !.status = "partial",
                          !.filled = ToBase(reply.filled)])
    /\ UNCHANGED <<action, aged, polls, position, recorded,
                   exchangeVars, switchVars, ghostVars>>

(* An order reported open keeps its row, filled_quantity included.          *)
KeepOpen ==
    /\ pc = "decide"
    /\ reply.status = "open"
    /\ ~aged
    /\ Return
    /\ UNCHANGED <<legVars, exchangeVars, switchVars, ghostVars>>

(* The exchange cancelled the order: back to pending, with the same         *)
(* requested quantity and the same retry count.  The code's other branch    *)
(* (retry count already at the limit) needs an active leg at the limit,     *)
(* which RetryBudget excludes.                                              *)
RepostCancelled ==
    /\ pc = "decide"
    /\ reply.status = "cancelled"
    /\ Finish([row EXCEPT !.status =
                  IF snap.retry >= RetryLimit THEN "failed" ELSE "pending"])
    /\ UNCHANGED <<action, aged, polls, position, recorded,
                   exchangeVars, switchVars, ghostVars>>

FailUnknownStatus ==
    /\ pc = "decide"
    /\ reply.status = "rejected"
    /\ Finish([row EXCEPT !.status = "failed"])
    /\ UNCHANGED <<action, aged, polls, position, recorded,
                   exchangeVars, switchVars, ghostVars>>

TimedOut == pc = "decide" /\ reply.status \in {"open", "partial"} /\ aged

(* Mutant: the cancel is left out.                                          *)
CancelOrderLeftOut ==
    /\ TimedOut
    /\ orders[snap.oid].state = "live"
    /\ pc' = "repost"
    /\ UNCHANGED <<legVars, snap, reply, newId, exchangeVars, switchVars,
                   ghostVars>>

(* cancel_order reaches an order that is still live.                        *)
CancelOrder ==
    /\ TimedOut
    /\ orders[snap.oid].state = "live"
    /\ orders' = [orders EXCEPT ![snap.oid].state = "canceled"]
    /\ pc' = "repost"
    /\ UNCHANGED <<legVars, snap, reply, newId, placed, held, switchVars,
                   ghostVars>>

(* cancel_order raises and the exception is swallowed: the order was done   *)
(* already, or the request was lost and the order lives on.                 *)
CancelRaises ==
    /\ TimedOut
    /\ orders[snap.oid].state = "live" => Lossy
    /\ astray' = IF orders[snap.oid].state = "live"
                    THEN astray \cup {snap.oid} ELSE astray
    /\ pc' = "repost"
    /\ UNCHANGED <<legVars, snap, reply, newId, exchangeVars, switchVars,
                   cancels, crashes, counted>>

TotalFilled == Larger(snap.filled, ToBase(reply.filled))

Remaining == Larger(0, snap.requested - ToOrder(TotalFilled, reply.filled))

(* Mutant: the whole request is posted again.                               *)
NextRequestedInFull == snap.requested

NextRequested == IF Remaining > 0 THEN Remaining ELSE snap.requested

(* _retry_order after the cancel: give up at the limit, else ask for the    *)
(* rest.  exchange_order_id keeps the cancelled order's id.                 *)
Repost ==
    /\ pc = "repost"
    /\ Finish([row EXCEPT !.status = RetryStatus,
                          !.retry = snap.retry + 1,
                          !.filled = TotalFilled,
                          !.requested = IF RetryStatus = "failed"
                                           THEN @ ELSE NextRequested])
    /\ counted' = counted + reply.filled
    /\ UNCHANGED <<action, aged, polls, position, recorded,
                   exchangeVars, switchVars, cancels, crashes, astray>>

-----------------------------------------------------------------------------
(* The surroundings: exchange, clock, user, process.                        *)

Fill(o) ==
    /\ MayFill(o)
    /\ LET done == orders[o].filled + 1 IN
       orders' = [orders EXCEPT ![o].filled = done,
                                ![o].state = IF done = orders[o].qty
                                                THEN "closed" ELSE "live"]
    /\ held' = IF action = "open" THEN held + 1 ELSE held - 1
    /\ UNCHANGED <<legVars, threadVars, placed, switchVars, ghostVars>>

(* The exchange ends an order by itself (its own cancel, post-only, risk).  *)
ExchangeCancels(o) ==
    /\ orders[o].state = "live"
    /\ cancels < CancelLimit
    /\ cancels' = cancels + 1
    /\ orders' = [orders EXCEPT ![o].state = "canceled"]
    /\ UNCHANGED <<legVars, threadVars, placed, held, switchVars,
                   crashes, astray, counted>>

ExchangeRejects(o) ==
    /\ orders[o].state = "live"
    /\ orders' = [orders EXCEPT ![o].state = "rejected"]
    /\ UNCHANGED <<legVars, threadVars, placed, held, switchVars, ghostVars>>

Age ==
    /\ ~aged
    /\ row.status \in {"submitting", "submitted", "partial"}
    /\ aged' = TRUE
    /\ UNCHANGED <<action, row, polls, position, recorded, threadVars,
                   exchangeVars, switchVars, ghostVars>>

DisableRule ==
    /\ Switchable
    /\ enabled
    /\ enabled' = FALSE
    /\ UNCHANGED <<legVars, threadVars, exchangeVars, account, ghostVars>>

DropAccount ==
    /\ Switchable
    /\ account
    /\ account' = FALSE
    /\ UNCHANGED <<legVars, threadVars, exchangeVars, enabled, ghostVars>>

(* The worker dies, or an exception leaves process_order_leg (a client that *)
(* cannot be built, a repository call that fails): the thread forgets all   *)
(* it held.  An order accepted but not yet written down goes astray.        *)
Crash ==
    /\ pc # "idle"
    /\ crashes < CrashLimit
    /\ crashes' = crashes + 1
    /\ Return
    /\ astray' = IF pc = "ack" THEN astray \cup {newId} ELSE astray
    /\ UNCHANGED <<legVars, exchangeVars, switchVars, cancels, counted>>

-----------------------------------------------------------------------------
Thread ==
    \/ Scan
    \/ BlockDisabledOpening
    \/ FailWithoutAccount
    \/ SkipCloseLeg
    \/ BeginSubmit
    \/ CreateAccepted
    \/ CreateLost
    \/ CreateRefused
    \/ RecordSubmitted
    \/ RecordSubmittedFails
    \/ RecordSubmitError
    \/ MonitorWithoutOrder
    \/ FetchOrder
    \/ FetchFails
    \/ RecordFill
    \/ UpdatePosition
    \/ MarkFilled
    \/ KeepPartial
    \/ KeepOpen
    \/ RepostCancelled
    \/ FailUnknownStatus
    \/ CancelOrder
    \/ CancelRaises
    \/ Repost

Surroundings ==
    \/ \E o \in OrderIds : Fill(o) \/ ExchangeCancels(o) \/ ExchangeRejects(o)
    \/ Age
    \/ DisableRule
    \/ DropAccount
    \/ Crash

Next == Thread \/ Surroundings

Spec == Init /\ [][Next]_vars

(***************************************************************************)
(* The loop runs every two seconds and survives exceptions (_run_loop of   *)
(* the execution monitor), so the thread never stops for good; a limit     *)
(* order left alone does turn five seconds old; and the exchange does      *)
(* answer a status request some time, however often it failed before.      *)
(***************************************************************************)
Fairness == WF_vars(Thread) /\ WF_vars(Age) /\ SF_vars(FetchOrder)

FairSpec == Spec /\ Fairness

-----------------------------------------------------------------------------
(* Properties.                                                              *)

(* Every variable stays in its range.                                       *)
TypeOK ==
    /\ action \in {"open", "close"}
    /\ row \in Legs
    /\ aged \in BOOLEAN
    /\ polls \in 0 .. PollLimit
    /\ position \in Nat
    /\ recorded \in Nat
    /\ pc \in PCs
    /\ snap \in Legs
    /\ reply \in Replies
    /\ newId \in OrderIds \cup {None}
    /\ orders \in [OrderIds -> Orders]
    /\ placed \in OrderIds \cup {None}
    /\ held \in Int
    /\ enabled \in BOOLEAN
    /\ account \in BOOLEAN
    /\ cancels \in 0 .. CancelLimit
    /\ crashes \in 0 .. CrashLimit
    /\ astray \subseteq OrderIds
    /\ counted \in Nat

Live == {o \in OrderIds : orders[o].state = "live"}

(* An order that can still trade is the one the leg's row names, or the one *)
(* whose id the thread is about to write, or one of those that went astray  *)
(* in the ways the code allows: a lost reply of create_order, a failed      *)
(* write or a death before the id was written, a swallowed failure of       *)
(* cancel_order.                                                            *)
LiveOrdersKnown ==
    \A o \in Live \ astray : o = row.oid \/ (pc = "ack" /\ o = newId)

(* While the leg waits to be submitted none of its orders can trade except  *)
(* those astray: _retry_order cancels before it reposts.  A leg that ended  *)
(* leaves none either, unless the rule, the exchange or the account was     *)
(* switched off under it: then the code fails it without a cancel.          *)
RestingLeavesNothingLive ==
    \/ row.status = "pending"
    \/ row.status \in FinalStatuses /\ enabled /\ account
    => Live \subseteq astray

(* Hence the leg never trades through two orders at once, short of that.    *)
OneLiveOrder == \A o, p \in Live \ astray : o = p

(* Every order sent for the leg is paid for: the first one, one for each    *)
(* retry counted, one for each cancel of the exchange, one for each death.  *)
OrdersPaidFor == placed <= row.retry + cancels + crashes + 1

(* A leg whose retries are used up has failed, and so is never posted again.*)
RetryBudget == row.retry >= RetryLimit => row.status = "failed"

(* As long as no order went astray, what a live order may reach, with the   *)
(* fills earlier retries had seen, stays within the leg's plan: a retry     *)
(* never asks for a quantity it has seen filled.                            *)
LiveOrderWithinPlan ==
    astray = {} => \A o \in Live : orders[o].qty + counted <= Quantity

(* What the exchange traded for the leg, as its own position shows: a       *)
(* position opened from nothing, or one reduced from what was planned.      *)
ExchangeFilled == IF action = "open" THEN held ELSE Quantity - held

(* Without a death between the fill record and the row's update, the fill   *)
(* records of the leg never exceed what the exchange traded for it.  It     *)
(* takes a driver that reports a partly filled order as partial: KeepOpen   *)
(* leaves filled_quantity behind and the next poll records the fill again.  *)
NoOverRecording == crashes = 0 => recorded <= ToBase(ExchangeFilled)

(* The row goes through the life of a leg that its readers rely on: in      *)
(* particular "filled" and "failed" are for good.                           *)
Lifecycle == INSTANCE LegLifecycle
    WITH status <- row.status, retries <- row.retry, sent <- placed

FollowsLifecycle == Lifecycle!Spec

(* "撤单重挂超过 10 次": an order is cancelled and posted again at most      *)
(* RetryLimit times before the leg is given up.                             *)
RepostsBounded == placed <= RetryLimit + 1

Wedged == row.status = "submitting" /\ row.oid = None

(* A leg ends, unless the thread was lost between the write of "submitting" *)
(* and that of the first order id: such a leg is polled for ever.           *)
EventuallySettled == <>[](row.status \in FinalStatuses \/ Wedged)
=============================================================================
