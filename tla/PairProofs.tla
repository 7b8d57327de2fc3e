----------------------------- MODULE PairProofs -----------------------------
(***************************************************************************)
(* Proofs about PairExecution, for any number of executions, openings,     *)
(* requests and deaths, any retry limit and any quantities: the tables     *)
(* stay well formed, and a position is never left to itself.               *)
(*                                                                         *)
(* That somebody looks after the position is no inductive fact: it follows *)
(* from the existence of a keeper, an opening that is alive while nobody   *)
(* closes it and whose closes each cover all that is held (Keeper), and    *)
(* the keeper stays one only because the rows, the worker's list and its   *)
(* work in hand are in order (Calm).  The types (PairTypes) hold whatever  *)
(* happens, the order as long as nothing lapses.                           *)
(*                                                                         *)
(* The file has, in this order: the invariant; numbers, rows, legs and     *)
(* plans; every step keeps the types; what is carried over from one state  *)
(* to the next; every step keeps the order; the theorems.                  *)
(***************************************************************************)
EXTENDS PairExecution, WellFoundedInduction, TLAPS

Statuses == ActiveExecution \cup {"closed", "failed"}
LegStatuses == ActiveLeg \cup EndedLeg
Making == {"plan", "insert", "mark"}
PlanSteps == Making \cup {"idle", "list", "sweep", "inspect", "forget", "recheck"}
Plans == [pc : PlanSteps, source : Nat, exec : Nat, todo : SUBSET Sides,
          qty : [Sides -> Nat]]
StepsOf(p) ==
    CASE p = "execution" -> {"idle"} \cup Making
      [] p = "opportunity" -> {"idle", "insert"}
      [] p = "position" -> {"idle", "inspect", "forget", "recheck"} \cup Making
      [] p = "web" -> {"idle", "list", "sweep"} \cup Making

IsOpening(e) == e \in DOMAIN execs /\ execs[e].action = "open"
SidesOf(e) == {legs[i].side : i \in LegsOf(e)}

-----------------------------------------------------------------------------
(* The types, in parts.                                                     *)

(* An opening has no source, and a close has an opening.                    *)
ExecTypes ==
    /\ execs \in Seq(Executions) /\ Len(execs) <= MaxExecutions
    /\ \A e \in DOMAIN execs :
          /\ execs[e].action = "open" => execs[e].source = None
          /\ execs[e].action = "close" => IsOpening(execs[e].source)

(* A leg in progress has retries left and an order that is not filled; what *)
(* the order has traded is what the row says is filled, or nothing yet.     *)
Trading(q, t, f) == t < q /\ t \in {0, f}

LegTypes ==
    /\ legs \in Seq(Legs)
    /\ \A i \in DOMAIN legs :
          /\ legs[i].exec \in DOMAIN execs
          /\ legs[i].status \in ActiveLeg =>
                /\ legs[i].retry < RetryLimit
                /\ Trading(legs[i].qty, legs[i].traded, legs[i].filled)
          /\ ~legs[i].oid => legs[i].traded = 0

OtherTypes ==
    /\ position \in [Sides -> Nat]
    /\ cooldown \in BOOLEAN /\ enabled \in BOOLEAN
    /\ lapses \subseteq {"crash", "gap", "refused", "half", "late", "early",
                         "borrowed", "stale", "misbooked"}
    /\ \A e \in watch \cup sweep : IsOpening(e)

(* What a planner that is inserting legs is still to insert.                *)
Inserts(p) ==
    /\ plan[p].exec \in DOMAIN execs
    /\ execs[plan[p].exec].by = p
    /\ plan[p].todo # {}
    /\ \A s \in plan[p].todo : plan[p].qty[s] > 0
    /\ plan[p].todo \cap SidesOf(plan[p].exec) = {}
    /\ IF p = "opportunity"
         THEN /\ execs[plan[p].exec].action = "open"
              /\ plan[p].todo \cup SidesOf(plan[p].exec) = Sides
         ELSE /\ execs[plan[p].exec].action = "close"
              /\ execs[plan[p].exec].source = plan[p].source

PlannerTypes(p) ==
    /\ plan[p].pc \in StepsOf(p)
    /\ p = "position" /\ plan[p].pc # "idle" =>
          watch # {} /\ plan[p].source = Watched
    /\ p # "opportunity" /\ plan[p].pc \in Making => IsOpening(plan[p].source)
    /\ plan[p].pc = "insert" => Inserts(p)

PlanTypes ==
    /\ plan \in [Planners -> Plans]
    /\ \A p \in Planners : PlannerTypes(p)

(* A row as the scan read it is the row, or one that was ended since        *)
(* without an order, up to the one in work.                                 *)
EndedSince(row, leg, act) ==
    /\ ~row.oid /\ ~leg.oid /\ leg.status \in EndedLeg
    /\ leg.status = "filled" => act = "close"
    /\ leg.retry = row.retry

Fresh(i) ==
    \/ batch[i] = legs[i]
    \/ EndedSince(batch[i], legs[i], execs[legs[i].exec].action)

ReadTypes(i) ==
    /\ i \in DOMAIN legs
    /\ batch[i] \in Legs
    /\ batch[i].status \in ActiveLeg
    /\ batch[i].retry < RetryLimit
    /\ batch[i].exec = legs[i].exec
    /\ batch[i].side = legs[i].side
    /\ i # This \/ pc = "leg" => Fresh(i)

ThreadSteps == {"leg", "status", "openFailed", "forced", "readSource", "writeSource"}

BatchTypes ==
    /\ pc \in ThreadSteps \cup {"idle"}
    /\ pc = "idle" <=> DOMAIN batch = {}
    /\ \A i \in DOMAIN batch : ReadTypes(i)

(* What the thread holds while it reconciles.                               *)
Returning == pc \in {"readSource", "writeSource"}

WorkTypes ==
    /\ pc \in {"openFailed", "forced"} => Action = "open"
    /\ Returning => Action = "close" /\ verdict \in {"closed", "open", "closing"}
    /\ pc = "forced" =>
          plan["execution"].pc # "idle" /\ plan["execution"].source = Exec
    /\ pc # "forced" => plan["execution"].pc = "idle"
    /\ pc = "status" /\ Action = "close" => seen = execs[Exec].status

PairTypes ==
    /\ ExecTypes /\ LegTypes /\ OtherTypes /\ PlanTypes /\ BatchTypes /\ WorkTypes

-----------------------------------------------------------------------------
(* What holds beyond the types as long as nothing has lapsed.               *)
InBatch(e) == \E i \in DOMAIN batch : batch[i].exec = e
Ended(e) == HasBothLegs(e) /\ ~InProgress(e) /\ ~HalfInserted(e)
Settled(e) == Ended(e) /\ ~InBatch(e)

(* A leg in progress can be submitted or asked for.                         *)
ActiveIsReachable ==
    \A i \in DOMAIN legs :
        legs[i].status \in ActiveLeg => legs[i].status = "pending" \/ legs[i].oid

(* A close fails only with its retries used up.                             *)
FailedIsUsedUp ==
    \A i \in DOMAIN legs :
        legs[i].status = "failed" /\ execs[legs[i].exec].action = "close"
            => UsedUp(legs[i].exec)

(* An opening has its two legs, or is getting them.                         *)
OpeningsGetLegs ==
    \A e \in DOMAIN execs : execs[e].action = "open" => HasBothLegs(e) \/ HalfInserted(e)

(* What is closed has been traded to the end, and so has what is open.      *)
ClosedAfterEnd ==
    \A e \in DOMAIN execs : ClosesOf(e) # {} => Ended(e)

OpenIsSettled ==
    \A e \in DOMAIN execs :
        execs[e].action = "open" /\ execs[e].status \in {"open", "closed"} => Settled(e)

WatchedIsSettled == \A e \in watch : Settled(e)

(* A close made while its source is still in the batch has not been read.   *)
ClosesComeLater ==
    \A i \in DOMAIN batch : \A c \in ClosesOf(batch[i].exec) :
        execs[c].status = "pending" /\ ~InBatch(c)

(* A close in flight has a leg to work on, or the thread at its end.        *)
InFlightMoves ==
    \A c \in ClosesInFlight :
        InProgress(c) \/ HalfInserted(c) \/ (pc = "status" /\ Exec = c)

SeenIsStatus ==
    pc = "status" /\ ClosesOf(Exec) = {} => seen = execs[Exec].status

(* An execution that will still be seen by some thread.                     *)
Working(e) == pc \in {"status", "openFailed", "forced"} /\ Exec = e
Live(e) == execs[e].status = "open" \/ InProgress(e) \/ HalfInserted(e) \/ Working(e)

(* Close c is still to trade n of side s: its leg is to be inserted, or to  *)
(* be filled.                                                               *)
ToInsert(c, s, n) ==
    \E p \in Planners : /\ plan[p].pc = "insert" /\ plan[p].exec = c
                        /\ s \in plan[p].todo /\ n <= plan[p].qty[s]

(* A leg that still takes n off a position: its order may trade as much, or *)
(* it cannot be filled any more without being booked amiss, because the row *)
(* still counts what an earlier order has filled.                           *)
Takes(n, st, f, q, t) == st # "filled" /\ (n <= q - t \/ f # t)
Unfilled(c, s, n) ==
    \E i \in DOMAIN legs :
        /\ legs[i].exec = c /\ legs[i].side = s
        /\ Takes(n, legs[i].status, legs[i].filled, legs[i].qty, legs[i].traded)
Covers(c) ==
    \A s \in Held : ToInsert(c, s, position[s]) \/ Unfilled(c, s, position[s])

Unfinished(c) == execs[c].status \in ActiveExecution \/ (Returning /\ Exec = c)
GivenBack(e) ==
    Returning /\ execs[Exec].source = e =>
        verdict = "open" /\ (pc = "writeSource" => seen # "closed")

(* The opening that keeps the position: it is alive while nobody closes it, *)
(* and afterwards each of its closes is good for all that is held.          *)
Keeper(e) ==
    /\ IsOpening(e)
    /\ ClosesOf(e) = {} => Live(e)
    /\ ClosesOf(e) # {} =>
          /\ \A c \in ClosesOf(e) : Covers(c)
          /\ execs[e].status # "closed" /\ GivenBack(e)
          /\ execs[e].status = "open" \/ \E c \in ClosesOf(e) : Unfinished(c)

(* The position thread is about to write this one off.                      *)
Spared == IF plan["position"].pc = "forget" THEN {Watched} ELSE {}
PositionIsKept == Held # {} => \E e \in DOMAIN execs \ Spared : Keeper(e)

CalmRows == ActiveIsReachable /\ FailedIsUsedUp /\ OpeningsGetLegs /\ ClosedAfterEnd
CalmBatch == OpenIsSettled /\ WatchedIsSettled /\ ClosesComeLater
CalmWork == InFlightMoves /\ SeenIsStatus
Calm == CalmRows /\ CalmBatch /\ CalmWork /\ PositionIsKept

PairInv == PairTypes /\ (lapses = {} => Calm)

-----------------------------------------------------------------------------
(* Numbers.                                                                 *)

(* A set of natural numbers has a least one.                                *)
LEMMA LeastNumber ==
    ASSUME NEW S \in SUBSET Nat, S # {}
    PROVE  Min(S) \in S
<1>1. IsWellFoundedOn(OpToRel(<, Nat), Nat)
  BY NatLessThanWellFounded
<1>2. PICK x \in S : \A y \in S : ~(<<y, x>> \in OpToRel(<, Nat))
  BY <1>1, WFMin, Zenon
<1>3. \A y \in S : ~(y < x)
  BY <1>2 DEF OpToRel
<1>4. \A y \in S : x =< y
  BY <1>3
<1>5. QED
  BY <1>4 DEF Min

(* What is less than nothing counts as nothing.                             *)
LEMMA NotNegative ==
    ASSUME NEW n \in Int
    PROVE  /\ Max({0, n}) \in Nat
           /\ n <= 0 => Max({0, n}) = 0
           /\ n >= 0 => Max({0, n}) = n
<1>1. CASE n <= 0
  <2>1. \A y \in {0, n} : 0 >= y
    BY <1>1
  <2>2. \A x \in {0, n} : (\A y \in {0, n} : x >= y) => x = 0
    BY <1>1
  <2>3. Max({0, n}) = 0
    BY <2>1, <2>2 DEF Max
  <2>4. QED
    BY <2>3, <1>1
<1>2. CASE n > 0
  <2>1. \A y \in {0, n} : n >= y
    BY <1>2
  <2>2. \A x \in {0, n} : (\A y \in {0, n} : x >= y) => x = n
    BY <1>2
  <2>3. Max({0, n}) = n
    BY <2>1, <2>2 DEF Max
  <2>4. QED
    BY <2>3, <1>2
<1>3. QED
  BY <1>1, <1>2

-----------------------------------------------------------------------------
(* Rows.                                                                    *)

(* What a row of arbitrage_executions is.                                   *)
LEMMA ExecIs ==
    ASSUME ExecTypes, NEW e \in DOMAIN execs
    PROVE  /\ execs[e] \in Executions
           /\ e \in Nat \ {0} /\ e <= Len(execs)
           /\ DOMAIN execs = 1 .. Len(execs) /\ Len(execs) \in Nat
  BY DEF ExecTypes

(* The executions are numbered from one.                                    *)
LEMMA ExecCount ==
    ASSUME ExecTypes
    PROVE  DOMAIN execs = 1 .. Len(execs) /\ Len(execs) \in Nat
  BY DEF ExecTypes

(* What a row of arbitrage_execution_orders is, and that its execution      *)
(* exists.                                                                  *)
LEMMA LegIs ==
    ASSUME LegTypes, NEW i \in DOMAIN legs
    PROVE  legs[i] \in Legs /\ legs[i].exec \in DOMAIN execs /\ i \in Nat \ {0}
  BY DEF LegTypes

(* The legs are numbered from one.                                          *)
LEMMA LegCount ==
    ASSUME LegTypes
    PROVE  DOMAIN legs = 1 .. Len(legs) /\ Len(legs) \in Nat
  BY DEF LegTypes

(* No execution changes what it is for.                                     *)
SameRoles ==
    /\ DOMAIN execs' = DOMAIN execs
    /\ \A e \in DOMAIN execs :
          /\ execs'[e].action = execs[e].action
          /\ execs'[e].source = execs[e].source
          /\ execs'[e].by = execs[e].by

RolesKept ==
    \A e \in DOMAIN execs :
        /\ e \in DOMAIN execs'
        /\ execs'[e].action = execs[e].action
        /\ execs'[e].source = execs[e].source
        /\ execs'[e].by = execs[e].by

StatusesKeptBut(e) ==
    \A x \in DOMAIN execs : x # e => execs'[x].status = execs[x].status

(* No leg changes whose it is.                                              *)
SameLegRoles ==
    /\ DOMAIN legs' = DOMAIN legs
    /\ \A i \in DOMAIN legs :
          /\ legs'[i].exec = legs[i].exec
          /\ legs'[i].side = legs[i].side

(* An execution whose status is rewritten keeps everything else.            *)
LEMMA RowRestated ==
    ASSUME NEW x \in Executions, NEW st \in Statuses, NEW y,
           y = [x EXCEPT !.status = st]
    PROVE  /\ y \in Executions
           /\ y.action = x.action /\ y.source = x.source /\ y.by = x.by
           /\ y.status = st
  BY DEF Executions, Statuses

(* An execution gets another status.                                        *)
LEMMA Restated ==
    ASSUME ExecTypes, NEW e \in DOMAIN execs, NEW st \in Statuses, SetStatus(e, st)
    PROVE  /\ ExecTypes' /\ SameRoles /\ StatusesKeptBut(e)
           /\ execs'[e].status = st
<1>1. PICK y : y = [execs[e] EXCEPT !.status = st]
  OBVIOUS
<1>2. execs' = [execs EXCEPT ![e] = y]
  BY <1>1 DEF SetStatus
<1>3. /\ y \in Executions
      /\ y.action = execs[e].action /\ y.source = execs[e].source
      /\ y.by = execs[e].by /\ y.status = st
  BY <1>1, ExecIs, RowRestated
<1>4. execs' \in Seq(Executions) /\ Len(execs') = Len(execs) /\ DOMAIN execs' = DOMAIN execs
  BY <1>2, <1>3 DEF ExecTypes
<1>5. \A x \in DOMAIN execs : execs'[x] = IF x = e THEN y ELSE execs[x]
  BY <1>2 DEF ExecTypes
<1>6. SameRoles /\ StatusesKeptBut(e) /\ execs'[e].status = st
  BY <1>3, <1>4, <1>5 DEF SameRoles, StatusesKeptBut
<1>7. ExecTypes'
  BY <1>4, <1>6 DEF ExecTypes, SameRoles, IsOpening
<1>8. QED
  BY <1>6, <1>7

(* Executions that nobody touches keep their types and their roles.         *)
LEMMA SameExecs ==
    ASSUME ExecTypes, UNCHANGED execs
    PROVE  ExecTypes' /\ SameRoles /\ \A e : StatusesKeptBut(e)
  BY DEF ExecTypes, SameRoles, StatusesKeptBut, IsOpening

(* Rows with the same roles keep their roles.                               *)
LEMMA SameIsKept == ASSUME SameRoles PROVE RolesKept
  BY DEF SameRoles, RolesKept

(* An execution is added.                                                   *)
LEMMA Added ==
    ASSUME ExecTypes, NEW p \in Planners, NEW act \in {"open", "close"},
           NEW src \in Nat, NewExecution(p, act, src),
           act = "open" => src = None,
           act = "close" => IsOpening(src)
    PROVE  /\ ExecTypes' /\ RolesKept /\ \A e : StatusesKeptBut(e)
           /\ DOMAIN execs' = DOMAIN execs \cup {Len(execs) + 1}
           /\ Len(execs) + 1 \notin DOMAIN execs
           /\ execs'[Len(execs) + 1] = [action |-> act, status |-> "pending",
                                        source |-> src, by |-> p]
<1> DEFINE n == Len(execs) + 1
           y == [action |-> act, status |-> "pending", source |-> src, by |-> p]
<1>1. src <= MaxExecutions /\ MaxExecutions \in Nat
  BY ExecIs, BoundAssumption DEF IsOpening, ExecTypes, None
<1>2. y \in Executions
  BY <1>1 DEF Executions, ActiveExecution
<1>3. execs' = Append(execs, y) /\ Len(execs) < MaxExecutions
  BY DEF NewExecution
<1> HIDE DEF y
<1>4. /\ execs' \in Seq(Executions) /\ Len(execs') = n
      /\ DOMAIN execs' = DOMAIN execs \cup {n} /\ n \notin DOMAIN execs
      /\ execs'[n] = y /\ \A x \in DOMAIN execs : execs'[x] = execs[x]
  BY <1>2, <1>3 DEF ExecTypes
<1>5. Len(execs') <= MaxExecutions
  BY <1>3, <1>4, <1>1 DEF ExecTypes
<1>6. RolesKept /\ \A e : StatusesKeptBut(e)
  BY <1>4 DEF RolesKept, StatusesKeptBut
<1>7. y.action = act /\ y.source = src
  BY DEF y
<1>8. ExecTypes'
  BY <1>4, <1>5, <1>7 DEF ExecTypes, IsOpening
<1>9. QED
  BY <1>4, <1>6, <1>8 DEF y

(* The leg i gets another status, order, retry count, fill or request.      *)
LegBecomes(i, st, o, n, f, q, t) ==
    /\ legs' \in Seq(Legs) /\ DOMAIN legs' = DOMAIN legs
    /\ \A j \in DOMAIN legs : j # i => legs'[j] = legs[j]
    /\ legs'[i].status = st /\ legs'[i].oid = o
    /\ legs'[i].retry = n /\ legs'[i].filled = f
    /\ legs'[i].exec = legs[i].exec /\ legs'[i].side = legs[i].side
    /\ legs'[i].qty = q /\ legs'[i].traded = t

(* What the row and the exchange say of the order stays as it is.           *)
OrderStays(i, st, o, n, f) == LegBecomes(i, st, o, n, f, legs[i].qty, legs[i].traded)

LegFields == {"exec", "side", "status", "oid", "retry", "qty", "filled", "traded"}

(* The columns of a leg.                                                    *)
LEMMA FieldsOfLeg == ASSUME NEW x \in Legs PROVE DOMAIN x = LegFields
  BY DEF Legs, LegFields

(* A leg with another status is a leg.                                      *)
LEMMA LegStatus ==
    ASSUME NEW x \in Legs, NEW st \in LegStatuses PROVE [x EXCEPT !.status = st] \in Legs
  BY DEF Legs, LegStatuses

(* A leg with or without an order id is a leg.                              *)
LEMMA LegOrder ==
    ASSUME NEW x \in Legs, NEW o \in BOOLEAN PROVE [x EXCEPT !.oid = o] \in Legs
  BY DEF Legs

(* A leg with another number of retries is a leg.                           *)
LEMMA LegRetry ==
    ASSUME NEW x \in Legs, NEW n \in 0 .. RetryLimit PROVE [x EXCEPT !.retry = n] \in Legs
  BY DEF Legs

(* A leg with another filled quantity is a leg.                             *)
LEMMA LegFill ==
    ASSUME NEW x \in Legs, NEW f \in Nat PROVE [x EXCEPT !.filled = f] \in Legs
  BY DEF Legs

(* A leg whose order has traded another quantity is a leg.                  *)
LEMMA LegTrade ==
    ASSUME NEW x \in Legs, NEW t \in Nat PROVE [x EXCEPT !.traded = t] \in Legs
  BY DEF Legs

(* A leg that asks for another quantity is a leg.                           *)
LEMMA LegRequest ==
    ASSUME NEW x \in Legs, NEW q \in Nat \ {0} PROVE [x EXCEPT !.qty = q] \in Legs
  BY DEF Legs

(* A leg is put in the place of another.                                    *)
LEMMA LegPut ==
    ASSUME LegTypes, NEW i \in DOMAIN legs, NEW y \in Legs,
           y.exec = legs[i].exec, y.side = legs[i].side,
           legs' = [legs EXCEPT ![i] = y]
    PROVE  LegBecomes(i, y.status, y.oid, y.retry, y.filled, y.qty, y.traded)
  BY DEF LegTypes, LegBecomes

(* A write of the status alone.                                             *)
LEMMA StatusPut ==
    ASSUME LegTypes, NEW i \in DOMAIN legs, NEW st \in LegStatuses,
           legs' = [legs EXCEPT ![i].status = st]
    PROVE  OrderStays(i, st, legs[i].oid, legs[i].retry, legs[i].filled)
<1>1. PICK y : y = [legs[i] EXCEPT !.status = st]
  OBVIOUS
<1>2. y \in Legs /\ DOMAIN legs[i] = LegFields
  BY <1>1, LegIs, FieldsOfLeg, LegStatus
<1>3. /\ y.exec = legs[i].exec /\ y.side = legs[i].side /\ y.qty = legs[i].qty
      /\ y.traded = legs[i].traded
      /\ y.status = st /\ y.oid = legs[i].oid /\ y.retry = legs[i].retry
      /\ y.filled = legs[i].filled
  BY <1>1, <1>2 DEF LegFields
<1>4. legs' = [legs EXCEPT ![i] = y]
  BY <1>1
<1>5. QED
  BY <1>2, <1>3, <1>4, LegPut DEF OrderStays

(* A write of the status and of what is filled.                             *)
LEMMA FillPut ==
    ASSUME LegTypes, NEW i \in DOMAIN legs, NEW st \in LegStatuses, NEW f \in Nat,
           legs' = [legs EXCEPT ![i].status = st, ![i].filled = f]
    PROVE  OrderStays(i, st, legs[i].oid, legs[i].retry, f)
<1>1. PICK x : x = [legs[i] EXCEPT !.status = st]
  OBVIOUS
<1>2. PICK y : y = [x EXCEPT !.filled = f]
  OBVIOUS
<1>3. x \in Legs /\ DOMAIN legs[i] = LegFields
  BY <1>1, LegIs, FieldsOfLeg, LegStatus
<1>4. y \in Legs /\ DOMAIN x = LegFields
  BY <1>2, <1>3, FieldsOfLeg, LegFill
<1>5. /\ y.exec = legs[i].exec /\ y.side = legs[i].side /\ y.qty = legs[i].qty
      /\ y.traded = legs[i].traded
      /\ y.status = st /\ y.oid = legs[i].oid /\ y.retry = legs[i].retry
      /\ y.filled = f
  BY <1>1, <1>2, <1>3, <1>4 DEF LegFields
<1>6. legs' = [legs EXCEPT ![i] = y]
  BY <1>1, <1>2 DEF LegTypes
<1>7. QED
  BY <1>4, <1>5, <1>6, LegPut DEF OrderStays

(* A write of the status and of the order id.                               *)
LEMMA OrderPut ==
    ASSUME LegTypes, NEW i \in DOMAIN legs, NEW st \in LegStatuses, NEW o \in BOOLEAN,
           legs' = [legs EXCEPT ![i].status = st, ![i].oid = o]
    PROVE  OrderStays(i, st, o, legs[i].retry, legs[i].filled)
<1>1. PICK x : x = [legs[i] EXCEPT !.status = st]
  OBVIOUS
<1>2. PICK y : y = [x EXCEPT !.oid = o]
  OBVIOUS
<1>3. x \in Legs /\ DOMAIN legs[i] = LegFields
  BY <1>1, LegIs, FieldsOfLeg, LegStatus
<1>4. y \in Legs /\ DOMAIN x = LegFields
  BY <1>2, <1>3, FieldsOfLeg, LegOrder
<1>5. /\ y.exec = legs[i].exec /\ y.side = legs[i].side /\ y.qty = legs[i].qty
      /\ y.traded = legs[i].traded
      /\ y.status = st /\ y.oid = o /\ y.retry = legs[i].retry
      /\ y.filled = legs[i].filled
  BY <1>1, <1>2, <1>3, <1>4 DEF LegFields
<1>6. legs' = [legs EXCEPT ![i] = y]
  BY <1>1, <1>2 DEF LegTypes
<1>7. QED
  BY <1>4, <1>5, <1>6, LegPut DEF OrderStays

(* A write of the status and of the retries.                                *)
LEMMA RetryPut ==
    ASSUME LegTypes, NEW i \in DOMAIN legs, NEW st \in LegStatuses, NEW n \in 0 .. RetryLimit,
           legs' = [legs EXCEPT ![i].status = st, ![i].retry = n]
    PROVE  OrderStays(i, st, legs[i].oid, n, legs[i].filled)
<1>1. PICK x : x = [legs[i] EXCEPT !.status = st]
  OBVIOUS
<1>2. PICK y : y = [x EXCEPT !.retry = n]
  OBVIOUS
<1>3. x \in Legs /\ DOMAIN legs[i] = LegFields
  BY <1>1, LegIs, FieldsOfLeg, LegStatus
<1>4. y \in Legs /\ DOMAIN x = LegFields
  BY <1>2, <1>3, FieldsOfLeg, LegRetry
<1>5. /\ y.exec = legs[i].exec /\ y.side = legs[i].side /\ y.qty = legs[i].qty
      /\ y.traded = legs[i].traded
      /\ y.status = st /\ y.oid = legs[i].oid /\ y.retry = n
      /\ y.filled = legs[i].filled
  BY <1>1, <1>2, <1>3, <1>4 DEF LegFields
<1>6. legs' = [legs EXCEPT ![i] = y]
  BY <1>1, <1>2 DEF LegTypes
<1>7. QED
  BY <1>4, <1>5, <1>6, LegPut DEF OrderStays

(* A write of the status and of what the order has traded.                  *)
LEMMA CancelPut ==
    ASSUME LegTypes, NEW i \in DOMAIN legs, NEW st \in LegStatuses, NEW t \in Nat,
           legs' = [legs EXCEPT ![i].status = st, ![i].traded = t]
    PROVE  LegBecomes(i, st, legs[i].oid, legs[i].retry, legs[i].filled, legs[i].qty, t)
<1>1. PICK x : x = [legs[i] EXCEPT !.status = st]
  OBVIOUS
<1>2. PICK y : y = [x EXCEPT !.traded = t]
  OBVIOUS
<1>3. x \in Legs /\ DOMAIN legs[i] = LegFields
  BY <1>1, LegIs, FieldsOfLeg, LegStatus
<1>4. y \in Legs /\ DOMAIN x = LegFields
  BY <1>2, <1>3, FieldsOfLeg, LegTrade
<1>5. /\ y.exec = legs[i].exec /\ y.side = legs[i].side /\ y.qty = legs[i].qty
      /\ y.status = st /\ y.oid = legs[i].oid /\ y.retry = legs[i].retry
      /\ y.filled = legs[i].filled /\ y.traded = t
  BY <1>1, <1>2, <1>3, <1>4 DEF LegFields
<1>6. legs' = [legs EXCEPT ![i] = y]
  BY <1>1, <1>2 DEF LegTypes
<1>7. QED
  BY <1>4, <1>5, <1>6, LegPut

(* A write of the status, of what is filled and of what the order traded.   *)
LEMMA TradePut ==
    ASSUME LegTypes, NEW i \in DOMAIN legs, NEW st \in LegStatuses, NEW f \in Nat,
           NEW t \in Nat,
           legs' = [legs EXCEPT ![i].status = st, ![i].filled = f, ![i].traded = t]
    PROVE  LegBecomes(i, st, legs[i].oid, legs[i].retry, f, legs[i].qty, t)
<1>1. PICK x : x = [legs[i] EXCEPT !.status = st]
  OBVIOUS
<1>2. PICK w : w = [x EXCEPT !.filled = f]
  OBVIOUS
<1>3. PICK y : y = [w EXCEPT !.traded = t]
  OBVIOUS
<1>4. x \in Legs /\ DOMAIN legs[i] = LegFields
  BY <1>1, LegIs, FieldsOfLeg, LegStatus
<1>5. w \in Legs /\ DOMAIN x = LegFields
  BY <1>2, <1>4, FieldsOfLeg, LegFill
<1>6. y \in Legs /\ DOMAIN w = LegFields
  BY <1>3, <1>5, FieldsOfLeg, LegTrade
<1>7. /\ y.exec = legs[i].exec /\ y.side = legs[i].side /\ y.qty = legs[i].qty
      /\ y.status = st /\ y.oid = legs[i].oid /\ y.retry = legs[i].retry
      /\ y.filled = f /\ y.traded = t
  BY <1>1, <1>2, <1>3, <1>4, <1>5, <1>6 DEF LegFields
<1>8. legs' = [legs EXCEPT ![i] = y]
  BY <1>1, <1>2, <1>3 DEF LegTypes
<1>9. QED
  BY <1>6, <1>7, <1>8, LegPut

(* A write of everything a repost writes.                                   *)
LEMMA RepostPut ==
    ASSUME LegTypes, NEW i \in DOMAIN legs, NEW st \in LegStatuses, NEW n \in 0 .. RetryLimit,
           NEW f \in Nat, NEW t \in Nat, NEW q \in Nat \ {0},
           legs' = [legs EXCEPT ![i].status = st, ![i].retry = n, ![i].filled = f,
                                ![i].traded = t, ![i].qty = q]
    PROVE  LegBecomes(i, st, legs[i].oid, n, f, q, t)
<1>1. PICK x : x = [legs[i] EXCEPT !.status = st]
  OBVIOUS
<1>2. PICK w : w = [x EXCEPT !.retry = n]
  OBVIOUS
<1>3. PICK v : v = [w EXCEPT !.filled = f]
  OBVIOUS
<1>4. PICK u : u = [v EXCEPT !.traded = t]
  OBVIOUS
<1>5. PICK y : y = [u EXCEPT !.qty = q]
  OBVIOUS
<1>6. x \in Legs /\ DOMAIN legs[i] = LegFields
  BY <1>1, LegIs, FieldsOfLeg, LegStatus
<1>7. w \in Legs /\ DOMAIN x = LegFields
  BY <1>2, <1>6, FieldsOfLeg, LegRetry
<1>8. v \in Legs /\ DOMAIN w = LegFields
  BY <1>3, <1>7, FieldsOfLeg, LegFill
<1>9. u \in Legs /\ DOMAIN v = LegFields
  BY <1>4, <1>8, FieldsOfLeg, LegTrade
<1>10. y \in Legs /\ DOMAIN u = LegFields
  BY <1>5, <1>9, FieldsOfLeg, LegRequest
<1>11. /\ v.exec = legs[i].exec /\ v.side = legs[i].side /\ v.oid = legs[i].oid
       /\ v.status = st /\ v.retry = n /\ v.filled = f
  BY <1>1, <1>2, <1>3, <1>6, <1>7, <1>8 DEF LegFields
<1>12. /\ y.exec = v.exec /\ y.side = v.side /\ y.oid = v.oid
       /\ y.status = v.status /\ y.retry = v.retry /\ y.filled = v.filled
       /\ y.qty = q /\ y.traded = t
  BY <1>4, <1>5, <1>9, <1>10 DEF LegFields
<1>13. legs' = [legs EXCEPT ![i] = y]
  BY <1>1, <1>2, <1>3, <1>4, <1>5 DEF LegTypes
<1>14. QED
  BY <1>10, <1>11, <1>12, <1>13, LegPut

(* No write at all, seen as a write of what was there.                      *)
LEMMA NothingPut ==
    ASSUME LegTypes, NEW i \in DOMAIN legs, UNCHANGED legs
    PROVE  OrderStays(i, legs[i].status, legs[i].oid, legs[i].retry, legs[i].filled)
  BY DEF LegTypes, LegBecomes, OrderStays

(* A leg is appended.                                                       *)
LEMMA LegAppended ==
    ASSUME LegTypes, NEW y \in Legs, legs' = Append(legs, y)
    PROVE  /\ legs' \in Seq(Legs)
           /\ DOMAIN legs' = DOMAIN legs \cup {Len(legs) + 1}
           /\ Len(legs) + 1 \notin DOMAIN legs
           /\ legs'[Len(legs) + 1] = y
           /\ \A i \in DOMAIN legs : legs'[i] = legs[i]
  BY DEF LegTypes

(* A leg that is written keeps its execution and its side.                  *)
LEMMA BecomesSameRoles ==
    ASSUME NEW i \in DOMAIN legs, NEW st, NEW o, NEW n, NEW f, NEW q, NEW t,
           LegBecomes(i, st, o, n, f, q, t)
    PROVE  SameLegRoles
  BY DEF LegBecomes, SameLegRoles

(* Legs that nobody touches keep their roles.                               *)
LEMMA SameLegs == ASSUME UNCHANGED legs PROVE SameLegRoles
  BY DEF SameLegRoles

(* What is asked of the legs' roles stays the same.                         *)
LEMMA SameSides ==
    ASSUME SameLegRoles
    PROVE  \A e : /\ LegsOf(e)' = LegsOf(e)
                  /\ SidesOf(e)' = SidesOf(e)
                  /\ HasBothLegs(e)' = HasBothLegs(e)
<1> TAKE e
<1>1. LegsOf(e)' = LegsOf(e)
  BY DEF SameLegRoles, LegsOf
<1>2. SidesOf(e)' = SidesOf(e)
  BY <1>1 DEF SidesOf, SameLegRoles, LegsOf
<1>3. HasBothLegs(e) = (SidesOf(e) = Sides)
  BY DEF HasBothLegs, SidesOf
<1>4. HasBothLegs(e)' = (SidesOf(e)' = Sides)
  BY DEF HasBothLegs, SidesOf
<1>5. QED
  BY <1>1, <1>2, <1>3, <1>4, Zenon

-----------------------------------------------------------------------------
(* The execution thread on one leg.                                         *)

(* What the worker knows of the leg in hand: an active row that was in the  *)
(* table when it was listed.                                                *)
LEMMA InWork ==
    ASSUME LegTypes, BatchTypes, pc # "idle"
    PROVE  /\ This \in DOMAIN batch /\ This \in DOMAIN legs
           /\ Row \in Legs /\ Row.status \in ActiveLeg /\ Row.retry < RetryLimit
           /\ Row.exec = legs[This].exec /\ Row.side = legs[This].side
           /\ Exec \in DOMAIN execs
           /\ pc = "leg" => \/ Row = legs[This]
                            \/ EndedSince(Row, legs[This], Action)
           /\ pc = "leg" =>
                 Trading(legs[This].qty, legs[This].traded, legs[This].filled)
<1>1. DOMAIN batch \in SUBSET Nat /\ DOMAIN batch # {}
  BY LegIs DEF BatchTypes, ReadTypes
<1>2. This \in DOMAIN batch
  BY <1>1, LeastNumber DEF This
<1>3. ReadTypes(This)
  BY <1>2 DEF BatchTypes
<1>4. /\ This \in DOMAIN legs /\ Row \in Legs /\ Row.status \in ActiveLeg
      /\ Row.retry < RetryLimit /\ Row.exec = legs[This].exec
      /\ Row.side = legs[This].side
      /\ pc = "leg" => Fresh(This)
  BY <1>3 DEF ReadTypes, Row
<1>5. Exec \in DOMAIN execs
  BY <1>4, LegIs DEF Exec
<1>6. pc = "leg" => Row = legs[This] \/ EndedSince(Row, legs[This], Action)
  BY <1>4 DEF Fresh, Row, Exec, Action
<1>7. legs[This].qty \in Nat \ {0}
  BY <1>4, LegIs DEF Legs
<1>8. pc = "leg" => Trading(legs[This].qty, legs[This].traded, legs[This].filled)
  <2>1. Row = legs[This] => Trading(legs[This].qty, legs[This].traded, legs[This].filled)
    BY <1>4 DEF LegTypes
  <2>2. ~legs[This].oid => Trading(legs[This].qty, legs[This].traded, legs[This].filled)
    BY <1>4, <1>7 DEF LegTypes, Trading
  <2>3. QED
    BY <1>6, <2>1, <2>2 DEF EndedSince
<1>9. QED
  BY <1>2, <1>4, <1>5, <1>6, <1>8

(* The leg's new values as long as nothing has lapsed: an ended leg does    *)
(* not trade again, and a closing leg that could take all of the position   *)
(* can still take what it leaves.                                           *)
Tame(st, o, n, f, q, t) ==
    /\ legs[This].status \in EndedLeg => st \in EndedLeg
    /\ st \in ActiveLeg => \/ st = "pending" \/ o
                           \/ st = legs[This].status /\ o = legs[This].oid
    /\ st = "failed" /\ Action = "close" =>
          n >= RetryLimit \/ legs[This].status = "failed"
    /\ Action = "open" /\ legs[This].status \in EndedLeg => position' = position
    /\ Action = "close" => \A s \in Sides :
          /\ position'[s] <= position[s]
          /\ /\ s = legs[This].side /\ position'[s] > 0
             /\ Takes(position[s], legs[This].status, legs[This].filled,
                      legs[This].qty, legs[This].traded)
             => Takes(position'[s], st, f, q, t)

LapseKinds == {"crash", "gap", "refused", "half", "late", "early", "borrowed", "stale",
               "misbooked"}
MoreLapses == lapses \subseteq lapses' /\ lapses' \subseteq LapseKinds

LegWork(st, o, n, f, q, t) ==
    /\ LegBecomes(This, st, o, n, f, q, t)
    /\ st \in ActiveLeg => n < RetryLimit /\ Trading(q, t, f)
    /\ ~o => t = 0
    /\ n >= legs[This].retry
    /\ lapses' = {} => Tame(st, o, n, f, q, t)

LegWorked ==
    /\ pc = "leg"
    /\ \E st \in LegStatuses, o \in BOOLEAN, n \in 0 .. RetryLimit, f \in Nat,
         q \in Nat \ {0}, t \in Nat : LegWork(st, o, n, f, q, t)
    /\ position' \in [Sides -> Nat]
    /\ MoreLapses
    /\ ThenReconcile

(* The values a leg's columns may have.                                     *)
LEMMA LegFacts ==
    ASSUME LegTypes, NEW i \in DOMAIN legs
    PROVE  /\ legs[i].exec \in DOMAIN execs /\ legs[i].side \in Sides
           /\ legs[i].status \in LegStatuses /\ legs[i].oid \in BOOLEAN
           /\ legs[i].retry \in 0 .. RetryLimit /\ legs[i].qty \in Nat \ {0}
           /\ legs[i].filled \in Nat /\ legs[i].traded \in Nat
           /\ legs[i].status \in ActiveLeg => legs[i].retry < RetryLimit
           /\ ~legs[i].oid => legs[i].traded = 0
           /\ RetryLimit \in Nat
<1>1. legs[i] \in Legs /\ legs[i].exec \in DOMAIN execs
  BY LegIs
<1>2. /\ legs[i].status \in ActiveLeg => legs[i].retry < RetryLimit
      /\ ~legs[i].oid => legs[i].traded = 0
  BY DEF LegTypes
<1>3. QED
  BY <1>1, <1>2, SizeAssumption DEF Legs, LegStatuses

(* The status a failed attempt leads to.                                    *)
LEMMA RetryLeadsTo ==
    ASSUME Row.retry \in Nat, Row.retry < RetryLimit
    PROVE  /\ RetryStatus \in {"failed", "pending"}
           /\ RetryStatus = "failed" => Row.retry + 1 >= RetryLimit
           /\ RetryStatus = "pending" => Row.retry + 1 < RetryLimit
           /\ Row.retry + 1 \in 0 .. RetryLimit
  BY SizeAssumption DEF RetryStatus

(* A leg that is only given another status or order.                        *)
LEMMA NoFill ==
    ASSUME LegTypes, OtherTypes, BatchTypes, pc = "leg",
           NEW st \in LegStatuses, NEW o \in BOOLEAN, NEW n \in 0 .. RetryLimit,
           OrderStays(This, st, o, n, legs[This].filled), UNCHANGED position,
           MoreLapses, ThenReconcile,
           o \/ o = legs[This].oid,
           st \in ActiveLeg => n < RetryLimit,
           n >= legs[This].retry,
           lapses' = {} =>
              /\ legs[This].status \in EndedLeg => st \in EndedLeg
              /\ st \in ActiveLeg => \/ st = "pending" \/ o
                                     \/ st = legs[This].status /\ o = legs[This].oid
              /\ st = "failed" /\ Action = "close" =>
                    n >= RetryLimit \/ legs[This].status = "failed"
              /\ st = "filled" => legs[This].status = "filled"
    PROVE  LegWorked
<1> DEFINE f == legs[This].filled
           q == legs[This].qty
           t == legs[This].traded
<1>1. This \in DOMAIN legs /\ Trading(q, t, f)
  BY InWork
<1>2. f \in Nat /\ q \in Nat \ {0} /\ t \in Nat /\ (~o => t = 0)
  BY <1>1, LegFacts
<1>3. position' \in [Sides -> Nat] /\ \A s \in Sides : position'[s] = position[s] /\ position[s] \in Nat
  BY DEF OtherTypes
<1>4. lapses' = {} => Tame(st, o, n, f, q, t)
  BY <1>2, <1>3 DEF Tame, Takes
<1>5. LegBecomes(This, st, o, n, f, q, t)
  BY DEF OrderStays
<1>6. LegWork(st, o, n, f, q, t)
  BY <1>1, <1>2, <1>4, <1>5 DEF LegWork
<1> HIDE DEF f, q, t
<1>7. QED
  BY <1>2, <1>3, <1>6 DEF LegWorked

(* Each outcome of process_order_leg is work of this kind.                  *)
LEMMA BlockWorks ==
    ASSUME LegTypes, OtherTypes, BatchTypes, BlockDisabledOpening PROVE LegWorked
<1>1. This \in DOMAIN legs /\ pc = "leg" /\ Action = "open"
  BY InWork DEF BlockDisabledOpening, Blocked
<1>2. /\ legs[This].oid \in BOOLEAN /\ legs[This].retry \in 0 .. RetryLimit
      /\ "failed" \in LegStatuses
  BY <1>1, LegFacts DEF LegStatuses, EndedLeg
<1>3. OrderStays(This, "failed", legs[This].oid, legs[This].retry, legs[This].filled)
  BY <1>1, <1>2, StatusPut DEF BlockDisabledOpening
<1>4. MoreLapses /\ ThenReconcile /\ UNCHANGED position
  BY DEF BlockDisabledOpening, MoreLapses, OtherTypes, LapseKinds
<1>5. QED
  BY <1>1, <1>2, <1>3, <1>4, NoFill DEF ActiveLeg, EndedLeg

(* A closing leg of a side that holds nothing is skipped.                   *)
LEMMA SkipWorks ==
    ASSUME LegTypes, OtherTypes, BatchTypes, SkipCloseLeg PROVE LegWorked
<1>1. /\ This \in DOMAIN legs /\ pc = "leg" /\ Action = "close"
      /\ position[legs[This].side] = 0
  BY InWork DEF SkipCloseLeg, Submitting
<1>2. /\ legs[This].oid \in BOOLEAN /\ legs[This].retry \in 0 .. RetryLimit
      /\ "filled" \in LegStatuses /\ 0 \in Nat
  BY <1>1, LegFacts DEF LegStatuses, EndedLeg
<1>3. OrderStays(This, "filled", legs[This].oid, legs[This].retry, 0)
  BY <1>1, <1>2, FillPut DEF SkipCloseLeg
<1>4. MoreLapses /\ ThenReconcile /\ UNCHANGED position
  BY DEF SkipCloseLeg, MoreLapses, OtherTypes, LapseKinds
<1>5. /\ position' \in [Sides -> Nat]
      /\ \A s \in Sides : position'[s] = position[s] /\ position[s] \in Nat
  BY <1>4 DEF OtherTypes
<1>6. Tame("filled", legs[This].oid, legs[This].retry, 0, legs[This].qty,
           legs[This].traded)
  BY <1>1, <1>5 DEF Tame, ActiveLeg, EndedLeg
<1>7. LegWork("filled", legs[This].oid, legs[This].retry, 0, legs[This].qty,
              legs[This].traded)
  BY <1>1, <1>2, <1>3, <1>6, LegFacts DEF LegWork, ActiveLeg, OrderStays
<1>8. legs[This].qty \in Nat \ {0} /\ legs[This].traded \in Nat
  BY <1>1, LegFacts
<1>9. QED
  BY <1>1, <1>2, <1>4, <1>5, <1>7, <1>8 DEF LegWorked

(* A leg is sent to the exchange.                                           *)
LEMMA SubmitWorks ==
    ASSUME LegTypes, OtherTypes, BatchTypes, SubmitLeg PROVE LegWorked
<1>1. This \in DOMAIN legs /\ pc = "leg" /\ Row.retry < RetryLimit
  BY InWork DEF SubmitLeg, CanSubmit, Submitting
<1>2. /\ legs[This].oid \in BOOLEAN /\ legs[This].retry \in 0 .. RetryLimit
      /\ "submitted" \in LegStatuses /\ TRUE \in BOOLEAN
  BY <1>1, LegFacts DEF LegStatuses, ActiveLeg
<1>3. OrderStays(This, "submitted", TRUE, legs[This].retry, legs[This].filled)
  BY <1>1, <1>2, OrderPut DEF SubmitLeg
<1>4. legs[This].retry < RetryLimit /\ legs[This].retry >= legs[This].retry
  BY <1>1, <1>2, InWork DEF EndedSince
<1>5. MoreLapses /\ ThenReconcile /\ UNCHANGED position
  BY DEF SubmitLeg, Outdated, MoreLapses, OtherTypes, LapseKinds
<1>6. lapses' = {} => legs[This].status \notin EndedLeg
  BY DEF SubmitLeg, Outdated
<1>7. QED
  BY <1>1, <1>2, <1>3, <1>4, <1>5, <1>6, NoFill

(* The submission of a leg fails, and a retry is used up.                   *)
LEMMA SubmitFailWorks ==
    ASSUME LegTypes, OtherTypes, BatchTypes, SubmitFails PROVE LegWorked
<1>1. /\ This \in DOMAIN legs /\ pc = "leg" /\ Row.retry < RetryLimit /\ Row.retry \in Nat
      /\ Row.retry = legs[This].retry
  BY InWork DEF SubmitFails, CanSubmit, Submitting, EndedSince, Legs
<1>2. /\ RetryStatus \in {"failed", "pending"}
      /\ RetryStatus = "failed" => Row.retry + 1 >= RetryLimit
      /\ RetryStatus = "pending" => Row.retry + 1 < RetryLimit
      /\ Row.retry + 1 \in 0 .. RetryLimit
  BY <1>1, RetryLeadsTo
<1>3. /\ RetryStatus \in LegStatuses /\ legs[This].oid \in BOOLEAN
  BY <1>1, <1>2, LegFacts DEF LegStatuses, EndedLeg, ActiveLeg
<1>4. OrderStays(This, RetryStatus, legs[This].oid, Row.retry + 1, legs[This].filled)
  BY <1>1, <1>2, <1>3, RetryPut DEF SubmitFails
<1>5. MoreLapses /\ ThenReconcile /\ UNCHANGED position
  BY DEF SubmitFails, Outdated, MoreLapses, OtherTypes, LapseKinds
<1>6. lapses' = {} => legs[This].status \notin EndedLeg
  BY DEF SubmitFails, Outdated
<1>7. /\ RetryStatus \in ActiveLeg => RetryStatus = "pending"
      /\ RetryStatus # "filled"
      /\ Row.retry + 1 >= legs[This].retry
  BY <1>1, <1>2 DEF ActiveLeg
<1>8. QED
  BY <1>1, <1>2, <1>3, <1>4, <1>5, <1>6, <1>7, NoFill

(* A leg fails at once.                                                     *)
LEMMA RefusalWorks ==
    ASSUME LegTypes, OtherTypes, BatchTypes, LegRefused PROVE LegWorked
<1>1. This \in DOMAIN legs /\ pc = "leg"
  BY InWork DEF LegRefused
<1>2. /\ legs[This].oid \in BOOLEAN /\ legs[This].retry \in 0 .. RetryLimit
      /\ "failed" \in LegStatuses
  BY <1>1, LegFacts DEF LegStatuses, EndedLeg
<1>3. OrderStays(This, "failed", legs[This].oid, legs[This].retry, legs[This].filled)
  BY <1>1, <1>2, StatusPut DEF LegRefused
<1>4. MoreLapses /\ ThenReconcile /\ UNCHANGED position
  BY DEF LegRefused, MoreLapses, OtherTypes, LapseKinds
<1>5. lapses' = {} => Action # "close"
  BY DEF LegRefused
<1>6. QED
  BY <1>1, <1>2, <1>3, <1>4, <1>5, NoFill DEF ActiveLeg, EndedLeg

(* A leg that is being submitted has no order to ask for.                   *)
LEMMA MonitorWorks ==
    ASSUME LegTypes, OtherTypes, BatchTypes, MonitorWithoutOrder PROVE LegWorked
<1>1. This \in DOMAIN legs /\ pc = "leg"
  BY InWork DEF MonitorWithoutOrder, Monitoring
<1>2. /\ legs[This].oid \in BOOLEAN /\ legs[This].retry \in 0 .. RetryLimit
      /\ legs[This].status \in LegStatuses
      /\ legs[This].status \in ActiveLeg => legs[This].retry < RetryLimit
  BY <1>1, LegFacts
<1>3. OrderStays(This, legs[This].status, legs[This].oid, legs[This].retry,
                 legs[This].filled)
  BY <1>1, <1>2, NothingPut DEF MonitorWithoutOrder
<1>4. MoreLapses /\ ThenReconcile /\ UNCHANGED position
  BY DEF MonitorWithoutOrder, MoreLapses, OtherTypes, LapseKinds
<1>5. legs[This].retry >= legs[This].retry
  BY <1>2
<1>6. QED
  BY <1>1, <1>2, <1>3, <1>4, <1>5, NoFill

(* The larger of two numbers.                                               *)
LEMMA LargerOfTwo ==
    ASSUME NEW a \in Nat, NEW b \in Nat
    PROVE  Max({a, b}) \in {a, b} /\ Max({a, b}) >= a /\ Max({a, b}) >= b
<1>1. PICK x \in {a, b} : \A y \in {a, b} : x >= y
  <2>1. CASE a >= b
    <3>1. \A y \in {a, b} : a >= y
      BY <2>1
    <3>2. QED
      BY <3>1
  <2>2. CASE b >= a
    <3>1. \A y \in {a, b} : b >= y
      BY <2>2
    <3>2. QED
      BY <3>1
  <2>3. QED
    BY <2>1, <2>2
<1>2. Max({a, b}) \in {a, b} /\ \A y \in {a, b} : Max({a, b}) >= y
  BY <1>1 DEF Max
<1>3. QED
  BY <1>2

(* The action of an execution in hand.                                      *)
LEMMA ActionIs ==
    ASSUME ExecTypes, LegTypes, BatchTypes, pc # "idle"
    PROVE  Action \in {"open", "close"}
  BY InWork, ExecIs DEF Action, Executions

(* A leg whose order was asked for: its row is the copy, and active.        *)
LEMMA AskedIsRow ==
    ASSUME LegTypes, BatchTypes, Asking
    PROVE  /\ pc = "leg" /\ This \in DOMAIN legs /\ Row = legs[This]
           /\ legs[This].status \in ActiveLeg /\ legs[This].status \notin EndedLeg
           /\ Row.filled \in Nat /\ Row.qty \in Nat \ {0} /\ Row.retry \in Nat
           /\ Row.traded \in Nat /\ Row.side \in Sides
           /\ Row.retry < RetryLimit /\ legs[This].oid = TRUE
           /\ Row.traded < Row.qty /\ Row.traded \in {0, Row.filled}
           /\ Row.retry \in 0 .. RetryLimit /\ RetryLimit \in Nat
<1>1. pc = "leg" /\ This \in DOMAIN legs /\ Row = legs[This] /\ Row.status \in ActiveLeg
      /\ Row.retry < RetryLimit
      /\ Trading(legs[This].qty, legs[This].traded, legs[This].filled)
  BY InWork DEF Asking, Monitoring, EndedSince
<1>2. /\ legs[This].filled \in Nat /\ legs[This].qty \in Nat \ {0}
      /\ legs[This].traded \in Nat /\ legs[This].side \in Sides
      /\ legs[This].retry \in 0 .. RetryLimit /\ legs[This].oid \in BOOLEAN
      /\ RetryLimit \in Nat
  BY <1>1, LegFacts
<1>3. legs[This].oid = TRUE
  BY <1>1, <1>2 DEF Asking
<1>4. QED
  BY <1>1, <1>2, <1>3 DEF ActiveLeg, EndedLeg, Trading

(* What Book(m) does to the positions.                                      *)
LEMMA Booked ==
    ASSUME LegTypes, OtherTypes, BatchTypes, Asking,
           NEW m \in Nat, Book(m), Action \in {"open", "close"}
    PROVE  /\ position' \in [Sides -> Nat] /\ Delta(m) \in Nat
           /\ Action = "close" =>
                 /\ \A s \in Sides : position'[s] <= position[s]
                 /\ position'[Row.side] > 0 =>
                       position'[Row.side] = position[Row.side] - Delta(m)
<1>1. /\ Row.side \in Sides /\ Row.filled \in Nat
      /\ position \in [Sides -> Nat]
  BY AskedIsRow DEF OtherTypes
<1>2. PICK d \in Nat : d = Delta(m)
  BY <1>1, NotNegative DEF Delta
<1>3. PICK q : q = Max({0, position[Row.side] - d})
  OBVIOUS
<1>4. /\ q \in Nat /\ q <= position[Row.side]
      /\ q > 0 => q = position[Row.side] - d
  BY <1>1, <1>2, <1>3, NotNegative
<1>5. CASE Action = "open"
  <2>1. position' = [position EXCEPT ![Row.side] = @ + d]
    BY <1>2, <1>5 DEF Book
  <2>2. QED
    BY <2>1, <1>1, <1>2, <1>5
<1>6. CASE Action = "close"
  <2>1. position' = [position EXCEPT ![Row.side] = q]
    BY <1>2, <1>3, <1>6 DEF Book
  <2>2. position' \in [Sides -> Nat]
    BY <2>1, <1>1, <1>4
  <2>3. \A s \in Sides : position'[s] = IF s = Row.side THEN q ELSE position[s]
    BY <2>1, <1>1
  <2>4. QED
    BY <2>2, <2>3, <1>1, <1>2, <1>4
<1>7. QED
  BY <1>5, <1>6

(* What a closing leg that could take all of v has taken off it when m of   *)
(* its order has traded and w is left: nothing yet, or exactly what is new. *)
Took(m, v, w) ==
    \/ m = Row.traded /\ w = v
    \/ Row.filled = Row.traded /\ m > Row.traded /\ w <= Row.qty - m

(* As long as nothing is booked amiss.                                      *)
LEMMA TakesWhatTrades ==
    ASSUME LegTypes, BatchTypes, Asking, Action = "close",
           NEW m \in Row.traded .. Row.qty, ~Misbooked(m), NEW v \in Nat, NEW w \in Nat,
           w = v - Delta(m),
           Takes(v, Row.status, Row.filled, Row.qty, Row.traded)
    PROVE  Took(m, v, w)
<1>1. /\ Row.filled \in Nat /\ Row.qty \in Nat /\ Row.traded \in Nat
  BY AskedIsRow
<1>2. m \in Nat /\ m >= Row.traded
  BY <1>1
<1>3. Delta(m) = m - Row.traded
  BY DEF Misbooked
<1>4. CASE m = Row.traded
  BY <1>1, <1>3, <1>4 DEF Took
<1>5. CASE m > Row.traded
  <2>1. m - Row.filled \in Int /\ Delta(m) > 0
    BY <1>1, <1>2, <1>3, <1>5
  <2>2. Delta(m) = m - Row.filled
    BY <2>1, NotNegative DEF Delta
  <2>3. Row.filled = Row.traded
    BY <1>1, <1>2, <1>3, <2>2
  <2>4. v <= Row.qty - Row.traded
    BY <2>3 DEF Takes
  <2>5. QED
    BY <1>1, <1>2, <1>3, <1>5, <2>3, <2>4 DEF Took
<1>6. QED
  BY <1>1, <1>2, <1>4, <1>5

(* A leg whose order was asked for, with m traded: what a fill books, and   *)
(* what the leg still takes after it.                                       *)
LEMMA FillCounts ==
    ASSUME LegTypes, OtherTypes, BatchTypes, Asking, Action \in {"open", "close"},
           NEW m \in Row.traded .. Row.qty, Book(m),
           NEW st \in LegStatuses, NEW n \in 0 .. RetryLimit,
           NEW f \in Nat, NEW q \in Nat \ {0}, NEW t \in Nat,
           LegBecomes(This, st, legs[This].oid, n, f, q, t),
           st \in ActiveLeg => n < RetryLimit /\ Trading(q, t, f),
           n >= legs[This].retry,
           lapses' = {} /\ Action = "close" =>
               /\ ~Misbooked(m)
               /\ st = "failed" => n >= RetryLimit
               /\ \A v, w \in Nat :
                     /\ w > 0 /\ Took(m, v, w)
                     /\ Takes(v, Row.status, Row.filled, Row.qty, Row.traded)
                     => Takes(w, st, f, q, t),
           MoreLapses, ThenReconcile
    PROVE  LegWorked
<1>1. /\ pc = "leg" /\ This \in DOMAIN legs /\ Row = legs[This]
      /\ legs[This].status \notin EndedLeg /\ legs[This].oid = TRUE
      /\ Row.qty \in Nat /\ Row.traded \in Nat /\ Row.side \in Sides
  BY AskedIsRow
<1>2. m \in Nat
  BY <1>1
<1>3. /\ position' \in [Sides -> Nat] /\ Delta(m) \in Nat
      /\ Action = "close" =>
            /\ \A s \in Sides : position'[s] <= position[s]
            /\ position'[Row.side] > 0 =>
                  position'[Row.side] = position[Row.side] - Delta(m)
  BY <1>2, Booked
<1>4. ASSUME lapses' = {}, Action = "close", NEW s \in Sides,
             s = legs[This].side, position'[s] > 0,
             Takes(position[s], legs[This].status, legs[This].filled,
                   legs[This].qty, legs[This].traded)
      PROVE  Takes(position'[s], st, f, q, t)
  <2>1. PICK v, w : v = position[s] /\ w = position'[s]
    OBVIOUS
  <2>2. v \in Nat /\ w \in Nat /\ w > 0 /\ w = v - Delta(m)
    BY <1>1, <1>3, <1>4, <2>1 DEF OtherTypes
  <2>3. Takes(v, Row.status, Row.filled, Row.qty, Row.traded)
    BY <1>1, <1>4, <2>1
  <2>4. Took(m, v, w)
    BY <1>4, <2>2, <2>3, TakesWhatTrades
  <2>5. QED
    BY <1>4, <2>1, <2>2, <2>3, <2>4
<1>5. lapses' = {} => Tame(st, legs[This].oid, n, f, q, t)
  BY <1>1, <1>3, <1>4 DEF Tame
<1>6. LegWork(st, legs[This].oid, n, f, q, t)
  BY <1>1, <1>5 DEF LegWork
<1>7. legs[This].oid \in BOOLEAN
  BY <1>1
<1>8. QED
  BY <1>1, <1>3, <1>6, <1>7 DEF LegWorked

(* What BookingLapse says of the lapses.                                    *)
LEMMA Lapsing ==
    ASSUME OtherTypes, NEW m, BookingLapse(m)
    PROVE  MoreLapses /\ (lapses' = {} => ~Misbooked(m))
  BY DEF BookingLapse, MoreLapses, OtherTypes, LapseKinds

(* The order is filled, and the position moves with it.                     *)
LEMMA FillWorks ==
    ASSUME LegTypes, OtherTypes, BatchTypes, Action \in {"open", "close"}, LegFills
    PROVE  LegWorked
<1>1. Asking /\ Book(Row.qty) /\ BookingLapse(Row.qty) /\ ThenReconcile
  BY DEF LegFills
<1>2. /\ This \in DOMAIN legs /\ Row = legs[This] /\ Row.qty \in Nat \ {0}
      /\ Row.traded \in Nat /\ Row.traded < Row.qty
      /\ Row.retry \in 0 .. RetryLimit /\ RetryLimit \in Nat
  BY <1>1, AskedIsRow
<1>3. "filled" \in LegStatuses /\ "filled" \notin ActiveLeg
  BY DEF LegStatuses, EndedLeg, ActiveLeg
<1>4. LegBecomes(This, "filled", legs[This].oid, legs[This].retry, Row.qty, Row.qty, Row.qty)
  BY <1>2, <1>3, TradePut DEF LegFills
<1>5. MoreLapses /\ (lapses' = {} => ~Misbooked(Row.qty))
  BY <1>1, Lapsing
<1>6. \A v, w \in Nat : Took(Row.qty, v, w) => ~(w > 0)
  BY <1>2 DEF Took
<1>7. Row.qty \in Row.traded .. Row.qty /\ Row.retry >= Row.retry
  BY <1>2
<1>8. QED
  BY <1>1, <1>2, <1>3, <1>4, <1>5, <1>6, <1>7, FillCounts

(* The order waits, perhaps filled in part.                                 *)
LEMMA WaitWorks ==
    ASSUME LegTypes, OtherTypes, BatchTypes, Action \in {"open", "close"}, LegWaits
    PROVE  LegWorked
<1>1. Asking /\ ThenReconcile
  BY DEF LegWaits
<1>2. /\ This \in DOMAIN legs /\ Row = legs[This] /\ Row.qty \in Nat \ {0}
      /\ Row.traded \in Nat /\ Row.filled \in Nat /\ Row.traded < Row.qty
      /\ Row.traded \in {0, Row.filled}
      /\ legs[This].status \in ActiveLeg /\ legs[This].status \notin EndedLeg
      /\ Row.retry \in 0 .. RetryLimit /\ RetryLimit \in Nat /\ Row.retry < RetryLimit
  BY <1>1, AskedIsRow
<1>3. PICK m \in PartFills :
          /\ Book(m) /\ BookingLapse(m)
          /\ legs' = IF m = Row.traded THEN legs
                     ELSE [legs EXCEPT ![This].status = "partial",
                                       ![This].filled = m, ![This].traded = m]
  BY DEF LegWaits
<1>4. m \in Nat /\ m \in Row.traded .. Row.qty /\ m < Row.qty /\ m >= Row.traded
  BY <1>2 DEF PartFills
<1>5. MoreLapses /\ (lapses' = {} => ~Misbooked(m))
  BY <1>3, Lapsing
<1>6. Row.retry >= Row.retry
  BY <1>2
<1>7. CASE m = Row.traded
  <2>1. LegBecomes(This, legs[This].status, legs[This].oid, legs[This].retry,
                   Row.filled, Row.qty, Row.traded)
    BY <1>2, <1>3, <1>7, NothingPut DEF OrderStays
  <2>2. legs[This].status \in LegStatuses /\ legs[This].status # "failed"
    BY <1>2 DEF EndedLeg, LegStatuses
  <2>3. \A v, w \in Nat : Took(m, v, w) => w = v
    BY <1>7, <1>2 DEF Took
  <2>4. QED
    BY <1>1, <1>2, <1>3, <1>4, <1>5, <1>6, <2>1, <2>2, <2>3, FillCounts DEF Trading
<1>8. CASE m # Row.traded
  <2>1. "partial" \in LegStatuses
    BY DEF LegStatuses, ActiveLeg
  <2>2. LegBecomes(This, "partial", legs[This].oid, legs[This].retry, m, Row.qty, m)
    BY <1>2, <1>3, <1>4, <1>8, <2>1, TradePut
  <2>3. \A v, w \in Nat : Took(m, v, w) => Takes(w, "partial", m, Row.qty, m)
    BY <1>8 DEF Took, Takes
  <2>4. Trading(Row.qty, m, m)
    BY <1>4 DEF Trading
  <2>5. QED
    BY <1>1, <1>2, <1>3, <1>4, <1>5, <1>6, <2>1, <2>2, <2>3, <2>4, FillCounts
<1>9. QED
  BY <1>7, <1>8

(* What _retry_order writes of the quantities.                              *)
LEMMA Requested ==
    ASSUME LegTypes, BatchTypes, Asking, NEW m \in Nat
    PROVE  /\ TotalFilled(m) \in Nat /\ TotalFilled(m) >= m /\ TotalFilled(m) >= Row.filled
           /\ TotalFilled(m) \in {m, Row.filled}
           /\ NextQty(m) \in Nat \ {0}
           /\ m = 0 /\ Row.filled = 0 => NextQty(m) = Row.qty
<1>1. Row.filled \in Nat /\ Row.qty \in Nat \ {0}
  BY AskedIsRow
<1>2. PICK f : f = TotalFilled(m)
  OBVIOUS
<1>3. f \in {Row.filled, m} /\ f >= Row.filled /\ f >= m
  BY <1>1, <1>2, LargerOfTwo DEF TotalFilled
<1>4. LeftOver(m) = Row.qty - (IF m > 0 THEN m ELSE f)
  BY <1>2 DEF LeftOver
<1>5. LeftOver(m) \in Int
  BY <1>1, <1>3, <1>4
<1>6. NextQty(m) \in Nat \ {0}
  BY <1>1, <1>5 DEF NextQty
<1>7. m = 0 /\ Row.filled = 0 => NextQty(m) = Row.qty
  BY <1>1, <1>3, <1>4 DEF NextQty
<1>8. QED
  BY <1>1, <1>2, <1>3, <1>6, <1>7

(* The order is cancelled and sent again.                                   *)
LEMMA RepostWorks ==
    ASSUME LegTypes, OtherTypes, BatchTypes, Action \in {"open", "close"}, LegReposted
    PROVE  LegWorked
<1>1. Asking /\ ThenReconcile
  BY DEF LegReposted
<1>2. /\ This \in DOMAIN legs /\ Row = legs[This] /\ Row.qty \in Nat \ {0}
      /\ Row.traded \in Nat /\ Row.filled \in Nat /\ Row.retry \in Nat
      /\ Row.retry < RetryLimit
  BY <1>1, AskedIsRow
<1>3. /\ RetryStatus \in {"failed", "pending"}
      /\ RetryStatus = "failed" => Row.retry + 1 >= RetryLimit
      /\ RetryStatus = "pending" => Row.retry + 1 < RetryLimit
      /\ Row.retry + 1 \in 0 .. RetryLimit
  BY <1>2, RetryLeadsTo
<1>4. PICK m \in PartFills :
          /\ Book(m) /\ BookingLapse(m)
          /\ legs' = [legs EXCEPT ![This].status = RetryStatus,
                                  ![This].retry = Row.retry + 1,
                                  ![This].filled = TotalFilled(m),
                                  ![This].traded = 0,
                                  ![This].qty = NextQty(m)]
  BY DEF LegReposted
<1>5. m \in Nat /\ m \in Row.traded .. Row.qty
  BY <1>2 DEF PartFills
<1>6. MoreLapses /\ (lapses' = {} => ~Misbooked(m))
  BY <1>4, Lapsing
<1>7. PICK f, q : f = TotalFilled(m) /\ q = NextQty(m)
  OBVIOUS
<1>8. /\ f \in Nat /\ f >= m /\ f >= Row.filled /\ f \in {m, Row.filled}
      /\ q \in Nat \ {0} /\ (m = 0 /\ Row.filled = 0 => q = Row.qty)
  BY <1>1, <1>5, <1>7, Requested
<1>9. /\ RetryStatus \in LegStatuses /\ RetryStatus # "filled"
      /\ RetryStatus \in ActiveLeg => Row.retry + 1 < RetryLimit
      /\ Row.retry + 1 >= Row.retry
  BY <1>2, <1>3 DEF LegStatuses, EndedLeg, ActiveLeg
<1>10. LegBecomes(This, RetryStatus, legs[This].oid, Row.retry + 1, f, q, 0)
  BY <1>2, <1>3, <1>4, <1>7, <1>8, <1>9, RepostPut
<1>11. Trading(q, 0, f)
  BY <1>8 DEF Trading
<1>12. \A v, w \in Nat :
          /\ w > 0 /\ Took(m, v, w)
          /\ Takes(v, Row.status, Row.filled, Row.qty, Row.traded)
          => Takes(w, RetryStatus, f, q, 0)
  BY <1>2, <1>5, <1>8, <1>9 DEF Took, Takes
<1>13. QED
  BY <1>1, <1>2, <1>3, <1>4, <1>5, <1>6, <1>8, <1>9, <1>10, <1>11, <1>12, FillCounts

(* The exchange has ended the order by itself.                              *)
LEMMA CancelWorks ==
    ASSUME LegTypes, OtherTypes, BatchTypes, Action \in {"open", "close"}, LegCancelled
    PROVE  LegWorked
<1>1. Asking /\ ThenReconcile
  BY DEF LegCancelled
<1>2. /\ This \in DOMAIN legs /\ Row = legs[This] /\ Row.qty \in Nat \ {0}
      /\ Row.traded \in Nat /\ Row.filled \in Nat /\ Row.traded \in {0, Row.filled}
      /\ Row.retry \in 0 .. RetryLimit /\ RetryLimit \in Nat /\ Row.retry < RetryLimit
  BY <1>1, AskedIsRow
<1>3. PICK m \in PartFills : Book(m) /\ BookingLapse(m)
  BY DEF LegCancelled
<1>4. m \in Nat /\ m \in Row.traded .. Row.qty
  BY <1>2 DEF PartFills
<1>5. MoreLapses /\ (lapses' = {} => ~Misbooked(m))
  BY <1>3, Lapsing
<1>6. CancelStatus = "pending" /\ "pending" \in LegStatuses
  BY <1>2 DEF CancelStatus, LegStatuses, ActiveLeg
<1>7. LegBecomes(This, "pending", legs[This].oid, legs[This].retry, Row.filled, Row.qty, 0)
  BY <1>2, <1>6, CancelPut DEF LegCancelled
<1>8. Trading(Row.qty, 0, Row.filled) /\ Row.retry >= Row.retry
  BY <1>2 DEF Trading
<1>9. \A v, w \in Nat :
          /\ w > 0 /\ Took(m, v, w)
          /\ Takes(v, Row.status, Row.filled, Row.qty, Row.traded)
          => Takes(w, "pending", Row.filled, Row.qty, 0)
  BY <1>2, <1>4 DEF Took, Takes
<1>10. QED
  BY <1>1, <1>2, <1>3, <1>4, <1>5, <1>6, <1>7, <1>8, <1>9, FillCounts

(* The exchange says of the order what the code does not know.              *)
LEMMA RejectionWorks ==
    ASSUME LegTypes, OtherTypes, BatchTypes, Action \in {"open", "close"}, LegRejected
    PROVE  LegWorked
<1>1. Asking /\ ThenReconcile
  BY DEF LegRejected
<1>2. /\ This \in DOMAIN legs /\ Row = legs[This] /\ Row.qty \in Nat \ {0}
      /\ Row.traded \in Nat /\ Row.filled \in Nat
      /\ Row.retry \in 0 .. RetryLimit /\ RetryLimit \in Nat
  BY <1>1, AskedIsRow
<1>3. PICK m \in PartFills :
          /\ Book(m)
          /\ lapses' = lapses \cup (IF Action = "close" THEN {"refused"} ELSE {})
                               \cup (IF Misbooked(m) THEN {"misbooked"} ELSE {})
  BY DEF LegRejected
<1>4. m \in Nat /\ m \in Row.traded .. Row.qty
  BY <1>2 DEF PartFills
<1>5. MoreLapses /\ (lapses' = {} => Action # "close")
  BY <1>3 DEF MoreLapses, OtherTypes, LapseKinds
<1>6. "failed" \in LegStatuses /\ "failed" \notin ActiveLeg
  BY DEF LegStatuses, EndedLeg, ActiveLeg
<1>7. LegBecomes(This, "failed", legs[This].oid, legs[This].retry, Row.filled, Row.qty,
                 Row.traded)
  BY <1>2, <1>6, StatusPut DEF LegRejected, OrderStays
<1>8. Row.retry >= Row.retry
  BY <1>2
<1>9. QED
  BY <1>1, <1>2, <1>3, <1>4, <1>5, <1>6, <1>7, <1>8, FillCounts

(* Every way to process a leg is one write of one row.                      *)
LEMMA ProcessLegWorks ==
    ASSUME ExecTypes, LegTypes, OtherTypes, BatchTypes, ProcessLeg
    PROVE  LegWorked
<1>1. pc = "leg"
  BY DEF ProcessLeg, BlockDisabledOpening, SkipCloseLeg, SubmitLeg, SubmitFails,
         LegRefused, MonitorWithoutOrder, LegFills, LegWaits, LegReposted,
         LegCancelled, LegRejected, CanSubmit, Submitting, Asking, Monitoring
<1>2. Action \in {"open", "close"}
  BY <1>1, ActionIs
<1>3. QED
  BY <1>2, BlockWorks, SkipWorks, SubmitWorks, SubmitFailWorks, RefusalWorks,
     MonitorWorks, CancelWorks, RejectionWorks, FillWorks, WaitWorks, RepostWorks
     DEF ProcessLeg

-----------------------------------------------------------------------------
(* The types outlast the steps.                                             *)

(* A planner that does not move keeps its types.                            *)
LEMMA PlannerStands ==
    ASSUME NEW r \in Planners, PlannerTypes(r), RolesKept, plan'[r] = plan[r],
           SidesOf(plan[r].exec)' = SidesOf(plan[r].exec),
           r = "position" => UNCHANGED watch
    PROVE  PlannerTypes(r)'
<1>1. \A e : IsOpening(e) => IsOpening(e)'
  BY DEF IsOpening, RolesKept
<1>2. plan[r].pc = "insert" => Inserts(r)'
  <2> SUFFICES ASSUME plan[r].pc = "insert" PROVE Inserts(r)'
    OBVIOUS
  <2>1. Inserts(r)
    BY DEF PlannerTypes
  <2>2. /\ plan[r].exec \in DOMAIN execs'
        /\ execs'[plan[r].exec].action = execs[plan[r].exec].action
        /\ execs'[plan[r].exec].source = execs[plan[r].exec].source
        /\ execs'[plan[r].exec].by = execs[plan[r].exec].by
    BY <2>1 DEF Inserts, RolesKept
  <2>3. QED
    BY <2>1, <2>2, Zenon DEF Inserts
<1>3. r = "position" => Watched' = Watched
  BY DEF Watched
<1>4. QED
  BY <1>1, <1>2, <1>3 DEF PlannerTypes

(* One planner goes on, or none.                                            *)
LEMMA OnePlannerMoves ==
    ASSUME PlanTypes, NEW p \in Planners, RolesKept,
           plan' \in [Planners -> Plans],
           \A r \in Planners \ {p} : plan'[r] = plan[r],
           \A r \in Planners \ {p} : plan[r].pc = "insert" =>
               SidesOf(plan[r].exec)' = SidesOf(plan[r].exec),
           p # "position" => UNCHANGED watch,
           PlannerTypes(p)'
    PROVE  PlanTypes'
<1>1. ASSUME NEW r \in Planners, r # p PROVE PlannerTypes(r)'
  <2>1. PlannerTypes(r) /\ plan'[r] = plan[r] /\ (r = "position" => UNCHANGED watch)
    BY <1>1 DEF PlanTypes
  <2>2. CASE plan[r].pc = "insert"
    BY <1>1, <2>1, <2>2, PlannerStands
  <2>3. CASE plan[r].pc # "insert"
    <3>1. \A e : IsOpening(e) => IsOpening(e)'
      BY DEF IsOpening, RolesKept
    <3>2. r = "position" => Watched' = Watched
      BY <2>1 DEF Watched
    <3>3. QED
      BY <2>1, <2>3, <3>1, <3>2 DEF PlannerTypes
  <2>4. QED
    BY <2>2, <2>3
<1>2. QED
  BY <1>1 DEF PlanTypes

(* So do all of them, when no leg appears.                                  *)
LEMMA PlansStand ==
    ASSUME PlanTypes, RolesKept, SameLegRoles, UNCHANGED <<plan, watch>>
    PROVE  PlanTypes'
<1>1. ASSUME NEW r \in Planners PROVE PlannerTypes(r)'
  <2>1. SidesOf(plan[r].exec)' = SidesOf(plan[r].exec)
    BY SameSides
  <2>2. QED
    BY <2>1, PlannerStands DEF PlanTypes
<1>2. QED
  BY <1>1 DEF PlanTypes

(* Legs that nobody touches keep their types.                               *)
LEMMA LegsStand ==
    ASSUME LegTypes, RolesKept, UNCHANGED legs
    PROVE  LegTypes'
  BY DEF LegTypes, RolesKept

(* A leg that is written keeps its types.                                   *)
LEMMA LegTypesAfter ==
    ASSUME LegTypes, RolesKept, NEW i \in DOMAIN legs, NEW st \in LegStatuses,
           NEW o, NEW n, NEW f, NEW q, NEW t, LegBecomes(i, st, o, n, f, q, t),
           st \in ActiveLeg => n < RetryLimit /\ Trading(q, t, f), ~o => t = 0
    PROVE  LegTypes'
  BY DEF LegTypes, LegBecomes, RolesKept

(* The list of the worker stays good while no leg is written.               *)
LEMMA BatchStands ==
    ASSUME BatchTypes, LegTypes, RolesKept, UNCHANGED <<legs, pc, batch>>
    PROVE  BatchTypes'
<1>1. ASSUME NEW i \in DOMAIN batch PROVE ReadTypes(i)'
  <2>1. ReadTypes(i) /\ This' = This
    BY DEF BatchTypes, This
  <2>2. i \in DOMAIN legs /\ legs[i].exec \in DOMAIN execs
    BY <2>1, LegIs DEF ReadTypes
  <2>3. execs'[legs[i].exec].action = execs[legs[i].exec].action
    BY <2>2 DEF RolesKept
  <2>4. Fresh(i) => Fresh(i)'
    BY <2>3 DEF Fresh
  <2>5. QED
    BY <2>1, <2>4 DEF ReadTypes
<1>2. QED
  BY <1>1 DEF BatchTypes

(* The thread goes on to the next leg.                                      *)
LEMMA BatchAdvances ==
    ASSUME BatchTypes, LegTypes, RolesKept, UNCHANGED legs, pc # "idle", Advance
    PROVE  BatchTypes'
<1>1. DOMAIN batch' = DOMAIN batch \ {This}
      /\ \A i \in DOMAIN batch' : batch'[i] = batch[i]
  BY DEF Advance, Restrict, Remaining
<1>2. ASSUME NEW i \in DOMAIN batch' PROVE ReadTypes(i)'
  <2>1. ReadTypes(i) /\ i # This /\ batch'[i] = batch[i]
    BY <1>1, <1>2 DEF BatchTypes
  <2>2. i \in DOMAIN legs /\ legs[i].exec \in DOMAIN execs /\ Fresh(i)
    BY <2>1, LegIs DEF ReadTypes
  <2>3. execs'[legs[i].exec].action = execs[legs[i].exec].action
    BY <2>2 DEF RolesKept
  <2>4. Fresh(i)'
    BY <2>1, <2>2, <2>3 DEF Fresh
  <2>5. QED
    BY <2>1, <2>4 DEF ReadTypes
<1>3. /\ pc' \in ThreadSteps \cup {"idle"}
      /\ pc' = "idle" <=> DOMAIN batch' = {}
  BY <1>1 DEF Advance, Remaining, ThreadSteps
<1>4. QED
  BY <1>2, <1>3 DEF BatchTypes

(* When the worker goes on to its next leg it knows nothing of it yet.      *)
LEMMA AdvancedWork ==
    ASSUME Advance, plan'["execution"].pc = "idle"
    PROVE  WorkTypes'
<1>1. pc' \in {"idle", "leg"}
  BY DEF Advance
<1>2. QED
  BY <1>1 DEF WorkTypes, Returning

ClosesKeepStatus ==
    \A x \in DOMAIN execs :
        execs[x].action = "close" => execs'[x].status = execs[x].status

(* What the worker knows in the middle of a leg stands while others work.   *)
LEMMA WorkStands ==
    ASSUME WorkTypes, BatchTypes, LegTypes, RolesKept, ClosesKeepStatus,
           UNCHANGED <<pc, batch, seen, verdict>>,
           \/ plan'["execution"] = plan["execution"]
           \/ /\ pc = "forced" /\ plan'["execution"].pc # "idle"
              /\ plan'["execution"].source = plan["execution"].source
    PROVE  WorkTypes'
<1>1. CASE pc = "idle"
  BY <1>1 DEF WorkTypes, Returning
<1>2. CASE pc # "idle"
  <2>1. Exec \in DOMAIN execs /\ Exec' = Exec
    BY <1>2, InWork DEF Exec, Row, This
  <2>2. Action' = Action /\ (Action = "close" => execs'[Exec].status = execs[Exec].status)
    BY <2>1 DEF Action, RolesKept, ClosesKeepStatus
  <2>3. QED
    BY <2>1, <2>2 DEF WorkTypes, Returning
<1>3. QED
  BY <1>1, <1>2

(* A planner's own step: it may append an execution, or restate an opening. *)
LEMMA PlannerSteps ==
    ASSUME PairTypes, NEW p \in Planners,
           UNCHANGED <<legs, pc, batch, seen, verdict>>,
           ExecTypes', RolesKept, ClosesKeepStatus, OtherTypes',
           plan' \in [Planners -> Plans],
           \A r \in Planners \ {p} : plan'[r] = plan[r],
           p # "position" => UNCHANGED watch,
           p = "execution" => /\ pc = "forced" /\ plan'["execution"].pc # "idle"
                              /\ plan'["execution"].source = plan["execution"].source,
           PlannerTypes(p)'
    PROVE  PairTypes'
<1>1. LegTypes'
  BY LegsStand DEF PairTypes
<1>2. BatchTypes'
  BY BatchStands DEF PairTypes
<1>3. plan'["execution"] = plan["execution"] \/ p = "execution"
  BY DEF Planners
<1>4. WorkTypes'
  BY <1>3, WorkStands DEF PairTypes
<1>5. \A r \in Planners \ {p} : SidesOf(plan[r].exec)' = SidesOf(plan[r].exec)
  BY SameLegs, SameSides
<1>6. PlanTypes'
  BY <1>5, OnePlannerMoves DEF PairTypes
<1>7. QED
  BY <1>1, <1>2, <1>4, <1>6 DEF PairTypes

-----------------------------------------------------------------------------
(* Planners.                                                                *)

(* The fields of a plan.                                                    *)
LEMMA PlanFields ==
    ASSUME NEW x \in Plans
    PROVE  DOMAIN x = {"pc", "source", "exec", "todo", "qty"}
  BY DEF Plans

(* A plan at another step is a plan.                                        *)
LEMMA PlanStep ==
    ASSUME NEW x \in Plans, NEW v \in PlanSteps PROVE [x EXCEPT !.pc = v] \in Plans
  BY DEF Plans

(* A plan for another opening is a plan.                                    *)
LEMMA PlanSource ==
    ASSUME NEW x \in Plans, NEW v \in Nat PROVE [x EXCEPT !.source = v] \in Plans
  BY DEF Plans

(* A plan with another execution is a plan.                                 *)
LEMMA PlanExec ==
    ASSUME NEW x \in Plans, NEW v \in Nat PROVE [x EXCEPT !.exec = v] \in Plans
  BY DEF Plans

(* A plan with other sides to insert is a plan.                             *)
LEMMA PlanTodo ==
    ASSUME NEW x \in Plans, NEW v \in SUBSET Sides PROVE [x EXCEPT !.todo = v] \in Plans
  BY DEF Plans

(* A plan with other quantities is a plan.                                  *)
LEMMA PlanQty ==
    ASSUME NEW x \in Plans, NEW v \in [Sides -> Nat] PROVE [x EXCEPT !.qty = v] \in Plans
  BY DEF Plans

(* The plan of a thread that does nothing.                                  *)
LEMMA IdleIsPlan ==
    /\ Idle \in Plans /\ Idle.pc = "idle" /\ Idle.source = 0 /\ Idle.exec = 0
    /\ Idle.todo = {}
  BY DEF Idle, Plans, PlanSteps, None

(* One planner's plan is replaced.                                          *)
LEMMA PlanReplaced ==
    ASSUME PlanTypes, NEW p \in Planners, NEW y \in Plans, plan' = [plan EXCEPT ![p] = y]
    PROVE  /\ plan' \in [Planners -> Plans] /\ plan'[p] = y
           /\ \A r \in Planners \ {p} : plan'[r] = plan[r]
  BY DEF PlanTypes

(* A plan that begins: its step and its source.                             *)
Beginning(v, src) == [Idle EXCEPT !.pc = v, !.source = src]

(* The plan of a thread that begins.                                        *)
LEMMA PlanBegins ==
    ASSUME NEW v \in PlanSteps, NEW src \in Nat, NEW y, y = Beginning(v, src)
    PROVE  /\ y \in Plans /\ y.pc = v /\ y.source = src
<1>1. PICK x : x = [Idle EXCEPT !.pc = v]
  OBVIOUS
<1>2. x \in Plans /\ x.pc = v
  BY <1>1, IdleIsPlan, PlanFields, PlanStep
<1>3. y = [x EXCEPT !.source = src]
  BY <1>1 DEF Beginning
<1>4. y \in Plans
  BY <1>2, <1>3, PlanSource
<1>5. y.pc = v /\ y.source = src
  BY <1>2, <1>3, PlanFields
<1>6. QED
  BY <1>4, <1>5

(* Positions, switches and lists that do not grow keep their types.         *)
LEMMA OtherStand ==
    ASSUME OtherTypes, RolesKept, UNCHANGED <<position, cooldown, enabled>>, MoreLapses,
           watch' \cup sweep' \subseteq watch \cup sweep
    PROVE  OtherTypes'
<1>1. \A e : IsOpening(e) => IsOpening(e)'
  BY DEF IsOpening, RolesKept
<1>2. QED
  BY <1>1 DEF OtherTypes, MoreLapses, LapseKinds

(* The values a plan's fields may have.                                     *)
LEMMA PlanIs ==
    ASSUME PlanTypes, NEW p \in Planners
    PROVE  /\ plan[p] \in Plans /\ plan[p].source \in Nat /\ plan[p].exec \in Nat
           /\ plan[p].todo \in SUBSET Sides /\ plan[p].qty \in [Sides -> Nat]
           /\ plan[p].pc \in StepsOf(p)
  BY DEF PlanTypes, PlannerTypes, Plans

(* An execution that is not in the table has no legs.                       *)
LEMMA NoLegsYet ==
    ASSUME LegTypes, NEW n, n \notin DOMAIN execs
    PROVE  LegsOf(n) = {} /\ SidesOf(n) = {}
  BY DEF LegTypes, LegsOf, SidesOf

(* The values of a plan about to insert.                                    *)
Inserting(x, todo, q, n) ==
    [x EXCEPT !.pc = "insert", !.todo = todo, !.qty = q, !.exec = n]

(* The plan of a thread that has just inserted an execution.                *)
LEMMA PlanMade ==
    ASSUME NEW x \in Plans, NEW todo \in SUBSET Sides,
           NEW q \in [Sides -> Nat], NEW n \in Nat,
           NEW y, y = Inserting(x, todo, q, n)
    PROVE  /\ y \in Plans /\ y.pc = "insert" /\ y.todo = todo /\ y.qty = q /\ y.exec = n
           /\ y.source = x.source
<1>1. PICK v : v = [x EXCEPT !.pc = "insert"]
  OBVIOUS
<1>2. PICK w : w = [v EXCEPT !.todo = todo]
  OBVIOUS
<1>3. PICK u : u = [w EXCEPT !.qty = q]
  OBVIOUS
<1>4. y = [u EXCEPT !.exec = n]
  BY <1>1, <1>2, <1>3 DEF Inserting
<1>5. "insert" \in PlanSteps
  BY DEF PlanSteps, Making
<1>6. v \in Plans /\ v.pc = "insert" /\ v.source = x.source
  BY <1>1, <1>5, PlanFields, PlanStep
<1>7. w \in Plans /\ w.pc = "insert" /\ w.todo = todo /\ w.source = x.source
  BY <1>2, <1>6, PlanFields, PlanTodo
<1>8. u \in Plans /\ u.pc = "insert" /\ u.todo = todo /\ u.qty = q /\ u.source = x.source
  BY <1>3, <1>7, PlanFields, PlanQty
<1>9. [u EXCEPT !.exec = n] \in Plans
  BY <1>8, PlanExec
<1>10. QED
  BY <1>4, <1>8, <1>9, PlanFields

Closers == {"execution", "position", "web"}

(* What CreateClose does.                                                   *)
LEMMA CloseCreated ==
    ASSUME PairTypes, NEW p \in Closers, CreateClose(p)
    PROVE  /\ ExecTypes' /\ RolesKept /\ \A e : StatusesKeptBut(e)
           /\ DOMAIN execs' = DOMAIN execs \cup {Len(execs) + 1}
           /\ Len(execs) + 1 \notin DOMAIN execs
           /\ execs'[Len(execs) + 1] = [action |-> "close", status |-> "pending",
                                        source |-> plan[p].source, by |-> p]
           /\ IsOpening(plan[p].source)
<1>1. p \in Planners /\ p # "opportunity"
  BY DEF Planners, Closers
<1>2. IsOpening(plan[p].source) /\ plan[p].source \in Nat
  BY <1>1, PlanIs DEF PairTypes, PlanTypes, PlannerTypes, CreateClose, Making
<1>3. NewExecution(p, "close", plan[p].source)
  BY DEF CreateClose
<1>4. QED
  BY <1>1, <1>2, <1>3, Added DEF PairTypes

(* Types: the row of a close is inserted.                                   *)
LEMMA CreateCloseKeepsTypes ==
    ASSUME PairTypes, NEW p \in Closers, CreateClose(p)
    PROVE  PairTypes'
<1>0. PICK n : n = Len(execs) + 1
  OBVIOUS
<1>1. p \in Planners /\ p # "opportunity"
  BY DEF Planners, Closers
<1>2. /\ ExecTypes' /\ RolesKept /\ (\A e : StatusesKeptBut(e))
      /\ n \in DOMAIN execs' /\ n \notin DOMAIN execs
      /\ execs'[n] = [action |-> "close", status |-> "pending",
                      source |-> plan[p].source, by |-> p]
      /\ IsOpening(plan[p].source)
  BY <1>0, CloseCreated
<1>3. PICK sides \in Plannable \ {{}} :
          /\ NotPlanned(p, sides)
          /\ plan' = [plan EXCEPT ![p].pc = "insert", ![p].todo = sides,
                                  ![p].qty = position, ![p].exec = n]
  BY <1>0 DEF CreateClose
<1>4. /\ sides \subseteq Held /\ sides # {} /\ sides \in SUBSET Sides
      /\ \A s \in sides : position[s] > 0
  BY DEF Plannable, Held
<1>5. position \in [Sides -> Nat] /\ n \in Nat
  BY <1>0, ExecCount DEF PairTypes, OtherTypes
<1>6. PICK x : x = plan[p]
  OBVIOUS
<1>20. PICK q : q = position
  OBVIOUS
<1>21. PICK y : y = Inserting(x, sides, q, n)
  OBVIOUS
<1>7. plan' = [plan EXCEPT ![p] = y]
  BY <1>1, <1>3, <1>6, <1>20, <1>21 DEF PairTypes, PlanTypes, Inserting
<1>22. x \in Plans
  BY <1>1, <1>6, PlanIs DEF PairTypes
<1>8. /\ y \in Plans /\ y.pc = "insert" /\ y.todo = sides /\ y.qty = position
      /\ y.exec = n /\ y.source = plan[p].source
  <2>1. sides \in SUBSET Sides /\ q \in [Sides -> Nat] /\ n \in Nat
    BY <1>4, <1>5, <1>20
  <2>2. /\ y \in Plans /\ y.pc = "insert" /\ y.todo = sides /\ y.qty = q
        /\ y.exec = n /\ y.source = x.source
    BY <1>21, <1>22, <2>1, PlanMade
  <2>3. QED
    BY <2>2, <1>6, <1>20
<1>9. /\ plan' \in [Planners -> Plans] /\ plan'[p] = y
      /\ \A r \in Planners \ {p} : plan'[r] = plan[r]
  BY <1>1, <1>7, <1>8, PlanReplaced DEF PairTypes
<1>10. UNCHANGED <<legs, position, cooldown, enabled, sweep, pc, batch, seen, verdict, watch>>
  BY DEF CreateClose, rule, worker
<1>11. ClosesKeepStatus
  BY <1>2 DEF ClosesKeepStatus, StatusesKeptBut, RolesKept
<1>12. MoreLapses
  BY <1>3 DEF NotPlanned, MoreLapses, LapseKinds, PairTypes, OtherTypes
<1>13. OtherTypes'
  BY <1>2, <1>10, <1>12, OtherStand DEF PairTypes
<1>14. SidesOf(n)' = {}
  <2>1. SidesOf(n) = {}
    BY <1>2, NoLegsYet DEF PairTypes
  <2>2. SidesOf(n)' = SidesOf(n)
    BY <1>10, SameLegs, SameSides
  <2>3. QED
    BY <2>1, <2>2
<1>15. Inserts(p)'
  <2>1. /\ execs'[n].action = "close" /\ execs'[n].by = p
        /\ execs'[n].source = plan[p].source
    BY <1>2
  <2>2. plan'[p].exec = n /\ plan'[p].todo = sides /\ plan'[p].qty = position
        /\ plan'[p].source = plan[p].source
    BY <1>8, <1>9
  <2>3. SidesOf(plan[p].exec)' = {}
    BY <1>14, <2>2
  <2>4. QED
    BY <1>1, <1>2, <1>4, <2>1, <2>2, <2>3 DEF Inserts
<1>16. plan[p].pc = "plan" /\ plan[p].pc # "idle"
  BY DEF CreateClose
<1>17. PlannerTypes(p)'
  <2>1. p = "position" => watch' # {} /\ plan'[p].source = Watched'
    BY <1>1, <1>8, <1>9, <1>10, <1>16 DEF PairTypes, PlanTypes, PlannerTypes, Watched
  <2>2. IsOpening(plan[p].source)'
    BY <1>2, <1>8, <1>9 DEF IsOpening, RolesKept
  <2>3. "insert" \in StepsOf(p)
    BY DEF StepsOf, Closers, Making
  <2>4. QED
    BY <1>8, <1>9, <1>15, <2>1, <2>2, <2>3 DEF PlannerTypes
<1>18. p = "execution" => /\ pc = "forced" /\ plan'["execution"].pc # "idle"
                          /\ plan'["execution"].source = plan["execution"].source
  BY <1>8, <1>9, <1>16 DEF PairTypes, WorkTypes
<1>19. QED
  BY <1>1, <1>2, <1>9, <1>10, <1>11, <1>13, <1>17, <1>18, PlannerSteps

(* Types: the row of an opening is inserted.                                *)
LEMMA CreateOpenKeepsTypes ==
    ASSUME PairTypes, CreateOpen
    PROVE  PairTypes'
<1>1. PICK n : n = Len(execs) + 1
  OBVIOUS
<1>2. /\ ExecTypes' /\ RolesKept /\ (\A e : StatusesKeptBut(e))
      /\ n \in DOMAIN execs' /\ n \notin DOMAIN execs
      /\ execs'[n] = [action |-> "open", status |-> "pending", source |-> None,
                      by |-> "opportunity"]
  <2>1. NewExecution("opportunity", "open", None)
    BY DEF CreateOpen
  <2>2. None \in Nat /\ "opportunity" \in Planners /\ "open" \in {"open", "close"}
    BY DEF None, Planners
  <2>3. QED
    BY <1>1, <2>1, <2>2, Added DEF PairTypes
<1>3. PICK q : q = [s \in Sides |-> LegSize]
  OBVIOUS
<1>4. q \in [Sides -> Nat] /\ n \in Nat /\ \A s \in Sides : q[s] > 0
  BY <1>1, <1>3, ExecCount, SizeAssumption DEF PairTypes
<1>5. PICK y : y = Inserting(Idle, Sides, q, n)
  OBVIOUS
<1>6. /\ y \in Plans /\ y.pc = "insert" /\ y.todo = Sides /\ y.qty = q /\ y.exec = n
  <2>1. Sides \in SUBSET Sides
    OBVIOUS
  <2>2. QED
    BY <1>4, <1>5, <2>1, IdleIsPlan, PlanMade
<1>7. y = [Idle EXCEPT !.pc = "insert", !.todo = Sides, !.exec = Len(execs) + 1,
                       !.qty = [s \in Sides |-> LegSize]]
  BY <1>1, <1>3, <1>5 DEF Inserting, Idle
<1>8. plan' = [plan EXCEPT !["opportunity"] = y]
  BY <1>7 DEF CreateOpen
<1>9. /\ plan' \in [Planners -> Plans] /\ plan'["opportunity"] = y
      /\ \A r \in Planners \ {"opportunity"} : plan'[r] = plan[r]
      /\ "opportunity" \in Planners
  BY <1>6, <1>8, PlanReplaced DEF PairTypes, Planners
<1>10. UNCHANGED <<legs, position, cooldown, enabled, sweep, pc, batch, seen, verdict, watch,
                   lapses>>
  BY DEF CreateOpen, rule, worker
<1>11. ClosesKeepStatus
  BY <1>2 DEF ClosesKeepStatus, StatusesKeptBut, RolesKept
<1>12. MoreLapses
  BY <1>10 DEF MoreLapses, LapseKinds, PairTypes, OtherTypes
<1>13. OtherTypes'
  BY <1>2, <1>10, <1>12, OtherStand DEF PairTypes
<1>14. SidesOf(n)' = {}
  <2>1. SidesOf(n) = {}
    BY <1>2, NoLegsYet DEF PairTypes
  <2>2. SidesOf(n)' = SidesOf(n)
    BY <1>10, SameLegs, SameSides
  <2>3. QED
    BY <2>1, <2>2
<1>15. Inserts("opportunity")'
  <2>1. /\ execs'[n].action = "open" /\ execs'[n].by = "opportunity"
    BY <1>2
  <2>2. /\ plan'["opportunity"].exec = n /\ plan'["opportunity"].todo = Sides
        /\ plan'["opportunity"].qty = q
    BY <1>6, <1>9
  <2>3. SidesOf(plan["opportunity"].exec)' = {}
    BY <1>14, <2>2
  <2>4. QED
    BY <1>2, <1>4, <2>1, <2>2, <2>3 DEF Inserts, Sides
<1>16. PlannerTypes("opportunity")'
  <2>1. "insert" \in StepsOf("opportunity")
    BY DEF StepsOf
  <2>2. QED
    BY <1>6, <1>9, <1>15, <2>1 DEF PlannerTypes
<1>17. QED
  BY <1>2, <1>9, <1>10, <1>11, <1>13, <1>16, PlannerSteps

(* The legs after one has been appended.                                    *)
LEMMA AppendedLegs ==
    ASSUME LegTypes, NEW y \in Legs, legs' = Append(legs, y)
    PROVE  \A e : /\ e = y.exec => /\ LegsOf(e)' = LegsOf(e) \cup {Len(legs) + 1}
                                   /\ SidesOf(e)' = SidesOf(e) \cup {y.side}
                  /\ e # y.exec => LegsOf(e)' = LegsOf(e) /\ SidesOf(e)' = SidesOf(e)
<1>1. PICK m : m = Len(legs) + 1
  OBVIOUS
<1>2. /\ DOMAIN legs' = DOMAIN legs \cup {m} /\ m \notin DOMAIN legs /\ legs'[m] = y
      /\ \A i \in DOMAIN legs : legs'[i] = legs[i]
  BY <1>1, LegAppended
<1> TAKE e
<1>3. CASE e = y.exec
  <2>1. LegsOf(e)' = LegsOf(e) \cup {m}
    BY <1>2, <1>3 DEF LegsOf
  <2>2. SidesOf(e)' = SidesOf(e) \cup {y.side}
    BY <1>2, <2>1 DEF SidesOf, LegsOf
  <2>3. QED
    BY <1>1, <1>3, <2>1, <2>2
<1>4. CASE e # y.exec
  <2>1. LegsOf(e)' = LegsOf(e)
    BY <1>2, <1>4 DEF LegsOf
  <2>2. SidesOf(e)' = SidesOf(e)
    BY <1>2, <2>1 DEF SidesOf, LegsOf
  <2>3. QED
    BY <1>4, <2>1, <2>2
<1>5. QED
  BY <1>3, <1>4

(* The leg a planner inserts.                                               *)
NextLeg(p) == [exec |-> plan[p].exec, side |-> NextSide(p),
               status |-> "pending", oid |-> FALSE, retry |-> 0,
               qty |-> plan[p].qty[NextSide(p)], filled |-> 0, traded |-> 0]

(* The leg that InsertLeg appends is one of those its planner has still to  *)
(* insert.                                                                  *)
LEMMA LegInserted ==
    ASSUME PairTypes, NEW p \in Planners, InsertLeg(p)
    PROVE  /\ Inserts(p) /\ NextSide(p) \in plan[p].todo
           /\ NextLeg(p) \in Legs
           /\ legs' = Append(legs, NextLeg(p))
<1>1. Inserts(p)
  BY DEF PairTypes, PlanTypes, PlannerTypes, InsertLeg
<1>2. NextSide(p) \in plan[p].todo /\ NextSide(p) \in Sides
  BY <1>1, PlanIs DEF PairTypes, Inserts, NextSide, Sides
<1>3. plan[p].qty[NextSide(p)] \in Nat \ {0}
  <2>1. plan[p].qty \in [Sides -> Nat]
    BY PlanIs DEF PairTypes
  <2>2. plan[p].qty[NextSide(p)] > 0
    BY <1>1, <1>2 DEF Inserts
  <2>3. QED
    BY <1>2, <2>1, <2>2
<1>4. plan[p].exec \in 1 .. MaxExecutions
  <2>1. plan[p].exec \in DOMAIN execs /\ ExecTypes
    BY <1>1 DEF Inserts, PairTypes
  <2>2. Len(execs) <= MaxExecutions /\ MaxExecutions \in Nat
    BY <2>1, BoundAssumption DEF ExecTypes
  <2>3. QED
    BY <2>1, <2>2, ExecIs
<1>5. "pending" \in ActiveLeg \cup EndedLeg /\ 0 \in 0 .. RetryLimit /\ FALSE \in BOOLEAN
  BY SizeAssumption DEF ActiveLeg
<1>6. NextLeg(p) \in Legs
  BY <1>2, <1>3, <1>4, <1>5 DEF NextLeg, Legs
<1>7. QED
  BY <1>1, <1>2, <1>6 DEF InsertLeg, NextLeg

(* What becomes of the planner that inserts.                                *)
PlanGoesOn(p) ==
    LET left == plan[p].todo \ {NextSide(p)} IN
    /\ plan' \in [Planners -> Plans]
    /\ \A r \in Planners \ {p} : plan'[r] = plan[r]
    /\ left # {} => /\ plan'[p].pc = "insert" /\ plan'[p].todo = left
                    /\ plan'[p].qty = plan[p].qty /\ plan'[p].exec = plan[p].exec
                    /\ plan'[p].source = plan[p].source
    /\ left = {} /\ p = "opportunity" => plan'[p] = Idle
    /\ left = {} /\ p # "opportunity" =>
          plan'[p].pc = "mark" /\ plan'[p].source = plan[p].source

(* After it the planner has one side less to insert, or is done.            *)
LEMMA InsertGoesOn ==
    ASSUME PairTypes, NEW p \in Planners, InsertLeg(p)
    PROVE  PlanGoesOn(p)
<1> DEFINE left == plan[p].todo \ {NextSide(p)}
<1>1. plan[p] \in Plans /\ plan[p].pc = "insert" /\ left \in SUBSET Sides
  BY PlanIs DEF PairTypes, InsertLeg
<1>2. plan' = [plan EXCEPT
            ![p] = IF left # {} THEN [@ EXCEPT !.todo = left]
                   ELSE IF p = "opportunity" THEN Idle
                   ELSE [@ EXCEPT !.todo = {}, !.pc = "mark"]]
  BY DEF InsertLeg
<1>3. PICK x : x = plan[p]
  OBVIOUS
<1>4. PICK y : y = IF left # {} THEN [x EXCEPT !.todo = left]
                   ELSE IF p = "opportunity" THEN Idle
                   ELSE [x EXCEPT !.todo = {}, !.pc = "mark"]
  OBVIOUS
<1>5. plan' = [plan EXCEPT ![p] = y]
  BY <1>2, <1>3, <1>4
<1>6. x \in Plans /\ DOMAIN x = {"pc", "source", "exec", "todo", "qty"} /\ x.pc = "insert"
  BY <1>1, <1>3, PlanFields
<1>7. CASE left # {}
  <2>1. y = [x EXCEPT !.todo = left]
    BY <1>4, <1>7
  <2>2. y \in Plans
    BY <1>1, <1>6, <2>1, PlanTodo
  <2>3. /\ y.pc = "insert" /\ y.todo = left /\ y.qty = x.qty /\ y.exec = x.exec
        /\ y.source = x.source
    BY <2>1, <1>6
  <2>4. QED
    BY <1>3, <1>5, <1>7, <2>2, <2>3, PlanReplaced DEF PlanGoesOn, PairTypes
<1>8. CASE left = {} /\ p = "opportunity"
  <2>1. y = Idle
    BY <1>4, <1>8
  <2>2. QED
    BY <1>5, <1>8, <2>1, IdleIsPlan, PlanReplaced DEF PlanGoesOn, PairTypes
<1>9. CASE left = {} /\ p # "opportunity"
  <2>1. PICK w : w = [x EXCEPT !.todo = {}]
    OBVIOUS
  <2>2. w \in Plans /\ w.source = x.source
    BY <1>6, <2>1, PlanTodo
  <2>3. y = [w EXCEPT !.pc = "mark"]
    BY <1>4, <1>9, <2>1
  <2>4. "mark" \in PlanSteps
    BY DEF PlanSteps, Making
  <2>5. y \in Plans /\ y.pc = "mark" /\ y.source = x.source
    BY <2>2, <2>3, <2>4, PlanStep, PlanFields
  <2>6. QED
    BY <1>3, <1>5, <1>9, <2>5, PlanReplaced DEF PlanGoesOn, PairTypes
<1>10. QED
  BY <1>7, <1>8, <1>9

(* Types: a leg is inserted.                                                *)
LEMMA InsertLegKeepsTypes ==
    ASSUME PairTypes, NEW p \in Planners, InsertLeg(p)
    PROVE  PairTypes'
<1> DEFINE left == plan[p].todo \ {NextSide(p)}
<1>1. PICK y : y = NextLeg(p)
  OBVIOUS
<1>2. /\ Inserts(p) /\ NextSide(p) \in plan[p].todo /\ y \in Legs
      /\ legs' = Append(legs, y)
      /\ y.exec = plan[p].exec /\ y.side = NextSide(p) /\ y.status = "pending"
      /\ y.retry = 0 /\ y.filled = 0 /\ y.traded = 0 /\ y.qty \in Nat \ {0}
  BY <1>1, LegInserted DEF NextLeg, Legs
<1>3. UNCHANGED <<execs, position, cooldown, enabled, sweep, pc, batch, seen, verdict, watch,
                  lapses>> /\ plan[p].pc = "insert"
  BY DEF InsertLeg, rule, worker
<1>4. ExecTypes' /\ RolesKept /\ ClosesKeepStatus
  BY <1>3, SameExecs, SameIsKept DEF PairTypes, ClosesKeepStatus
<1>5. PlanGoesOn(p)
  BY InsertGoesOn
<1>6. /\ DOMAIN legs' = DOMAIN legs \cup {Len(legs) + 1}
      /\ legs'[Len(legs) + 1] = y /\ legs' \in Seq(Legs)
      /\ \A i \in DOMAIN legs : legs'[i] = legs[i]
  BY <1>2, LegAppended DEF PairTypes
<1>7. y.exec \in DOMAIN execs
  BY <1>2 DEF Inserts
<1>8. LegTypes'
  <2>1. RetryLimit > 0
    BY SizeAssumption
  <2>2. QED
    BY <1>2, <1>3, <1>6, <1>7, <2>1 DEF LegTypes, PairTypes, Trading
<1>9. OtherTypes'
  <2>1. MoreLapses
    BY <1>3 DEF MoreLapses, LapseKinds, PairTypes, OtherTypes
  <2>2. QED
    BY <1>3, <1>4, <2>1, OtherStand DEF PairTypes
<1>10. BatchTypes'
  <2>1. ASSUME NEW i \in DOMAIN batch PROVE ReadTypes(i)'
    <3>1. ReadTypes(i) /\ This' = This
      BY <1>3 DEF PairTypes, BatchTypes, This
    <3>2. i \in DOMAIN legs /\ legs'[i] = legs[i] /\ i \in DOMAIN legs'
      BY <1>6, <3>1 DEF ReadTypes
    <3>3. Fresh(i) => Fresh(i)'
      BY <1>3, <3>2 DEF Fresh
    <3>4. QED
      BY <1>3, <3>1, <3>2, <3>3 DEF ReadTypes
  <2>2. QED
    BY <1>3, <2>1 DEF BatchTypes, PairTypes
<1>11. p = "execution" => pc = "forced"
  BY <1>3 DEF PairTypes, WorkTypes
<1>12. p # "opportunity" => plan'[p].pc \in {"insert", "mark"} /\ plan'[p].source = plan[p].source
  BY <1>5 DEF PlanGoesOn
<1>13. WorkTypes'
  <2>1. plan'["execution"] = plan["execution"] \/ p = "execution"
    BY <1>5 DEF PlanGoesOn, Planners
  <2>2. plan'["execution"] = plan["execution"] \/
           /\ pc = "forced" /\ plan'["execution"].pc # "idle"
           /\ plan'["execution"].source = plan["execution"].source
    BY <2>1, <1>11, <1>12
  <2>3. QED
    BY <1>3, <1>4, <2>2, WorkStands DEF PairTypes
<1>14. \A e : /\ e = y.exec => SidesOf(e)' = SidesOf(e) \cup {y.side}
              /\ e # y.exec => SidesOf(e)' = SidesOf(e)
  BY <1>2, AppendedLegs DEF PairTypes
<1>15. ASSUME NEW r \in Planners \ {p}, plan[r].pc = "insert"
       PROVE  SidesOf(plan[r].exec)' = SidesOf(plan[r].exec)
  <2>1. Inserts(r)
    BY <1>15 DEF PairTypes, PlanTypes, PlannerTypes
  <2>2. plan[r].exec # y.exec
    BY <1>2, <2>1 DEF Inserts
  <2>3. plan'[r].exec = plan[r].exec
    BY <1>5 DEF PlanGoesOn
  <2>4. PICK x : x = plan[r].exec
    OBVIOUS
  <2>5. SidesOf(x)' = SidesOf(x)
    BY <1>14, <2>2, <2>4
  <2>6. QED
    BY <2>3, <2>4, <2>5
<1>16. PlannerTypes(p)'
  <2>1. p = "position" => watch' # {} /\ plan'[p].source = Watched'
    BY <1>3, <1>12 DEF PairTypes, PlanTypes, PlannerTypes, Watched
  <2>2. p # "opportunity" => IsOpening(plan[p].source)'
    <3>1. p # "opportunity" => IsOpening(plan[p].source)
      BY <1>3 DEF PairTypes, PlanTypes, PlannerTypes, Making
    <3>2. QED
      BY <1>4, <1>12, <3>1 DEF IsOpening, RolesKept
  <2>3. CASE left # {}
    <3>1. /\ plan'[p].pc = "insert" /\ plan'[p].todo = left
          /\ plan'[p].qty = plan[p].qty /\ plan'[p].exec = plan[p].exec
          /\ plan'[p].source = plan[p].source
      BY <1>5, <2>3 DEF PlanGoesOn
    <3>2. SidesOf(plan[p].exec)' = SidesOf(plan[p].exec) \cup {NextSide(p)}
      <4>1. PICK x : x = plan[p].exec
        OBVIOUS
      <4>2. SidesOf(x)' = SidesOf(x) \cup {NextSide(p)}
        BY <1>2, <1>14, <4>1
      <4>3. QED
        BY <3>1, <4>1, <4>2
    <3>3. Inserts(p)'
      BY <1>2, <1>3, <2>3, <3>1, <3>2 DEF Inserts
    <3>4. plan'[p].pc \in StepsOf(p)
      BY <1>3, <3>1 DEF PairTypes, PlanTypes, PlannerTypes
    <3>5. QED
      BY <2>1, <2>2, <3>1, <3>3, <3>4 DEF PlannerTypes
  <2>4. CASE left = {} /\ p = "opportunity"
    <3>1. plan'[p].pc = "idle" /\ "idle" \in StepsOf(p)
      BY <1>5, <2>4, IdleIsPlan DEF PlanGoesOn, StepsOf
    <3>2. QED
      BY <2>4, <3>1 DEF PlannerTypes
  <2>5. CASE left = {} /\ p # "opportunity"
    <3>1. plan'[p].pc = "mark" /\ "mark" \in StepsOf(p)
      BY <1>5, <2>5 DEF PlanGoesOn, StepsOf, Planners, Making
    <3>2. QED
      BY <2>1, <2>2, <2>5, <3>1 DEF PlannerTypes
  <2>6. QED
    BY <2>3, <2>4, <2>5
<1>17. PlanTypes'
  BY <1>3, <1>4, <1>5, <1>15, <1>16, OnePlannerMoves DEF PairTypes, PlanGoesOn
<1>18. QED
  BY <1>4, <1>8, <1>9, <1>10, <1>13, <1>17 DEF PairTypes

(* The parts a step of the position thread or of the web leaves alone.      *)
Aside == UNCHANGED <<legs, position, cooldown, enabled, pc, batch, seen, verdict>>

(* The position thread looks at openings only.                              *)
LEMMA WatchedIsOpening ==
    ASSUME ExecTypes, OtherTypes, watch # {}
    PROVE  Watched \in watch /\ IsOpening(Watched) /\ Watched \in Nat
<1>1. watch \in SUBSET Nat /\ \A e \in watch : IsOpening(e)
  BY ExecIs DEF OtherTypes, IsOpening
<1>2. Watched \in watch
  BY <1>1, LeastNumber DEF Watched
<1>3. QED
  BY <1>1, <1>2

(* The position thread goes to its next execution.                          *)
LEMMA NextWatchedTypes ==
    ASSUME PairTypes, NextWatched, Aside, UNCHANGED sweep,
           ExecTypes', RolesKept, ClosesKeepStatus, MoreLapses
    PROVE  PairTypes'
<1>1. /\ plan' \in [Planners -> Plans] /\ plan'["position"] = Idle
      /\ \A r \in Planners \ {"position"} : plan'[r] = plan[r]
      /\ "position" \in Planners
  BY IdleIsPlan, PlanReplaced DEF NextWatched, PairTypes, Planners
<1>2. OtherTypes'
  BY OtherStand DEF PairTypes, NextWatched, Aside
<1>3. PlannerTypes("position")'
  <2>1. "idle" \in StepsOf("position")
    BY DEF StepsOf
  <2>2. QED
    BY <1>1, <2>1, IdleIsPlan DEF PlannerTypes, Making
<1>4. QED
  BY <1>1, <1>2, <1>3, PlannerSteps DEF Aside

(* The position thread goes to its next step.                               *)
LEMMA GoOnTypes ==
    ASSUME PairTypes, NEW state \in {"inspect", "forget", "recheck", "plan"}, watch # {},
           GoOn(state), Aside, UNCHANGED <<execs, sweep, lapses>>
    PROVE  PairTypes'
<1>1. IsOpening(Watched) /\ Watched \in Nat
  BY WatchedIsOpening DEF PairTypes
<1>2. PICK y : y = Beginning(state, Watched)
  OBVIOUS
<1>3. state \in PlanSteps /\ state \in StepsOf("position")
  BY DEF PlanSteps, Making, StepsOf
<1>4. y \in Plans /\ y.pc = state /\ y.source = Watched
  BY <1>1, <1>2, <1>3, PlanBegins
<1>5. plan' = [plan EXCEPT !["position"] = y]
  BY <1>2 DEF GoOn, Beginning
<1>6. /\ plan' \in [Planners -> Plans] /\ plan'["position"] = y
      /\ \A r \in Planners \ {"position"} : plan'[r] = plan[r]
      /\ "position" \in Planners
  BY <1>4, <1>5, PlanReplaced DEF PairTypes, Planners
<1>7. ExecTypes' /\ RolesKept /\ ClosesKeepStatus /\ MoreLapses
  BY SameExecs, SameIsKept DEF PairTypes, ClosesKeepStatus, MoreLapses, LapseKinds, OtherTypes
<1>8. OtherTypes'
  BY <1>7, OtherStand DEF PairTypes, GoOn, Aside
<1>9. PlannerTypes("position")'
  <2>1. Watched' = Watched /\ watch' # {} /\ IsOpening(Watched)'
    BY <1>1 DEF GoOn, Watched, IsOpening
  <2>2. plan'["position"].source = Watched' /\ plan'["position"].pc = state
    BY <1>4, <1>6, <2>1
  <2>3. IsOpening(plan["position"].source)'
    BY <2>1, <2>2
  <2>4. state # "insert"
    OBVIOUS
  <2>5. QED
    BY <1>3, <2>1, <2>2, <2>3, <2>4 DEF PlannerTypes
<1>10. QED
  BY <1>6, <1>7, <1>8, <1>9, PlannerSteps DEF Aside

(* A step that touches none of the rows.                                    *)
LEMMA RowsStand ==
    ASSUME PairTypes, UNCHANGED <<execs, lapses>>
    PROVE  ExecTypes' /\ RolesKept /\ ClosesKeepStatus /\ MoreLapses
  BY SameExecs, SameIsKept DEF PairTypes, ClosesKeepStatus, MoreLapses, LapseKinds, OtherTypes

(* Types: the position thread lists the open executions.                    *)
LEMMA ScanPositionsKeepsTypes ==
    ASSUME PairTypes, ScanPositions PROVE PairTypes'
<1>1. Aside /\ UNCHANGED <<execs, lapses, sweep, plan>> /\ watch' = OpenExecutions
      /\ plan["position"].pc = "idle"
  BY DEF ScanPositions, Aside, tables, rule, worker, Watching
<1>2. ExecTypes' /\ RolesKept /\ ClosesKeepStatus /\ MoreLapses
  BY <1>1, RowsStand
<1>3. OtherTypes'
  BY <1>1, <1>2 DEF OtherTypes, PairTypes, OpenExecutions, IsOpening, Aside
<1>4. PlannerTypes("position")'
  <2>1. "idle" \in StepsOf("position")
    BY DEF StepsOf
  <2>2. QED
    BY <1>1, <2>1 DEF PlannerTypes, Making
<1>5. plan' \in [Planners -> Plans] /\ "position" \in Planners
      /\ \A r \in Planners \ {"position"} : plan'[r] = plan[r]
  BY <1>1 DEF PairTypes, PlanTypes, Planners
<1>6. QED
  BY <1>1, <1>2, <1>3, <1>4, <1>5, PlannerSteps DEF Aside

(* Types: the position thread finds a close on its way, or none.            *)
LEMMA CheckCloseKeepsTypes ==
    ASSUME PairTypes, CheckClose PROVE PairTypes'
<1>1. Aside /\ UNCHANGED <<execs, lapses, sweep>> /\ watch # {}
  BY DEF CheckClose, Aside, tables, rule, worker
<1>2. ExecTypes' /\ RolesKept /\ ClosesKeepStatus /\ MoreLapses
  BY <1>1, RowsStand
<1>3. NextWatched \/ GoOn("inspect")
  BY DEF CheckClose
<1>4. QED
  BY <1>1, <1>2, <1>3, NextWatchedTypes, GoOnTypes

(* The position thread is at an execution.                                  *)
LEMMA AtWatched ==
    ASSUME PairTypes, plan["position"].pc # "idle"
    PROVE  watch # {} /\ plan["position"].source = Watched
  BY DEF PairTypes, PlanTypes, PlannerTypes, Planners

(* Types: the positions are compared with the legs.                         *)
LEMMA InspectKeepsTypes ==
    ASSUME PairTypes, InspectPositions PROVE PairTypes'
<1>1. Aside /\ UNCHANGED <<execs, lapses, sweep>> /\ watch # {}
  BY AtWatched DEF InspectPositions, Aside, tables, rule, worker, Watching
<1>2. GoOn("forget") \/ GoOn("plan") \/ GoOn("recheck")
  BY DEF InspectPositions
<1>3. QED
  BY <1>1, <1>2, GoOnTypes

(* An opening gets another status.                                          *)
LEMMA OpeningRestated ==
    ASSUME ExecTypes, NEW e, IsOpening(e), NEW st \in Statuses, SetStatus(e, st)
    PROVE  /\ ExecTypes' /\ SameRoles /\ RolesKept /\ StatusesKeptBut(e) /\ ClosesKeepStatus
           /\ execs'[e].status = st
<1>1. e \in DOMAIN execs /\ execs[e].action = "open"
  BY DEF IsOpening
<1>2. ExecTypes' /\ SameRoles /\ StatusesKeptBut(e) /\ execs'[e].status = st
  BY <1>1, Restated
<1>3. QED
  BY <1>1, <1>2, SameIsKept DEF ClosesKeepStatus, StatusesKeptBut

(* Types: an opening with nothing left is written off.                      *)
LEMMA ForgetKeepsTypes ==
    ASSUME PairTypes, Forget PROVE PairTypes'
<1>1. Aside /\ UNCHANGED <<lapses, sweep>> /\ watch # {} /\ NextWatched /\ MoreLapses
  BY AtWatched DEF Forget, Aside, rule, worker, Watching, MoreLapses, LapseKinds, PairTypes,
     OtherTypes
<1>2. IsOpening(Watched) /\ "closed" \in Statuses /\ SetStatus(Watched, "closed")
  BY <1>1, WatchedIsOpening DEF PairTypes, Statuses, Forget
<1>3. ExecTypes' /\ RolesKept /\ ClosesKeepStatus
  BY <1>2, OpeningRestated DEF PairTypes
<1>4. QED
  BY <1>1, <1>3, NextWatchedTypes

(* Types: a reason to close is found, or none.                              *)
LEMMA ResolveKeepsTypes ==
    ASSUME PairTypes, ResolveCloseReason PROVE PairTypes'
<1>1. Aside /\ UNCHANGED <<execs, lapses, sweep>> /\ watch # {}
  BY AtWatched DEF ResolveCloseReason, Aside, tables, rule, worker, Watching
<1>2. ExecTypes' /\ RolesKept /\ ClosesKeepStatus /\ MoreLapses
  BY <1>1, RowsStand
<1>3. NextWatched \/ GoOn("plan")
  BY DEF ResolveCloseReason
<1>4. QED
  BY <1>1, <1>2, <1>3, NextWatchedTypes, GoOnTypes

(* A close that is not planned can only add a lapse.                        *)
LEMMA NotPlannedLapses ==
    ASSUME OtherTypes, NEW p, NEW sides, NotPlanned(p, sides) PROVE MoreLapses
  BY DEF NotPlanned, MoreLapses, LapseKinds, OtherTypes

(* Types: the position thread finds no close to plan.                       *)
LEMMA PlanImpossibleKeepsTypes ==
    ASSUME PairTypes, PositionPlanImpossible PROVE PairTypes'
<1>1. Aside /\ UNCHANGED <<execs, sweep>> /\ NextWatched /\ MoreLapses
  BY NotPlannedLapses
     DEF PositionPlanImpossible, NothingToPlan, Aside, tables, rule, worker, PairTypes
<1>2. ExecTypes' /\ RolesKept /\ ClosesKeepStatus
  BY <1>1, SameExecs, SameIsKept DEF PairTypes, ClosesKeepStatus
<1>3. QED
  BY <1>1, <1>2, NextWatchedTypes

(* What MarkClosing does.                                                   *)
LEMMA Marked ==
    ASSUME PairTypes, NEW p \in Closers, MarkClosing(p)
    PROVE  /\ IsOpening(plan[p].source)
           /\ ExecTypes' /\ SameRoles /\ RolesKept /\ StatusesKeptBut(plan[p].source)
           /\ ClosesKeepStatus /\ MoreLapses
           /\ execs'[plan[p].source].status = "closing"
           /\ plan[p].pc = "mark"
<1>1. /\ IsOpening(plan[p].source) /\ "closing" \in Statuses
      /\ SetStatus(plan[p].source, "closing")
  BY DEF MarkClosing, PairTypes, PlanTypes, PlannerTypes, Closers, Planners, Making, Statuses,
         ActiveExecution
<1>2. PICK q : q = plan[p].source
  OBVIOUS
<1>3. /\ ExecTypes' /\ SameRoles /\ RolesKept /\ StatusesKeptBut(q) /\ ClosesKeepStatus
      /\ execs'[q].status = "closing"
  BY <1>1, <1>2, OpeningRestated DEF PairTypes
<1>4. MoreLapses
  BY DEF MarkClosing, MoreLapses, LapseKinds, PairTypes, OtherTypes
<1>5. QED
  BY <1>1, <1>2, <1>3, <1>4 DEF MarkClosing

(* Types: the position thread marks the opening as closing.                 *)
LEMMA MarkWatchedKeepsTypes ==
    ASSUME PairTypes, MarkWatched PROVE PairTypes'
<1>1. Aside /\ UNCHANGED sweep /\ NextWatched /\ MarkClosing("position")
      /\ "position" \in Closers
  BY DEF MarkWatched, Aside, rule, worker, Closers
<1>2. ExecTypes' /\ RolesKept /\ ClosesKeepStatus /\ MoreLapses
  BY <1>1, Marked
<1>3. QED
  BY <1>1, <1>2, NextWatchedTypes

(* The web process.                                                         *)
LEMMA WebTypes ==
    ASSUME PairTypes, Aside, UNCHANGED watch, sweep' \subseteq sweep \cup OpenExecutions,
           ExecTypes', RolesKept, ClosesKeepStatus, MoreLapses,
           NEW y \in Plans, plan' = [plan EXCEPT !["web"] = y],
           y.pc \in {"idle", "sweep", "list", "plan", "mark"},
           y.pc \in Making => IsOpening(y.source)
    PROVE  PairTypes'
<1>1. /\ plan' \in [Planners -> Plans] /\ plan'["web"] = y
      /\ \A r \in Planners \ {"web"} : plan'[r] = plan[r]
      /\ "web" \in Planners
  BY PlanReplaced DEF PairTypes, Planners
<1>2. \A e : IsOpening(e) => IsOpening(e)'
  BY DEF IsOpening, RolesKept
<1>3. OtherTypes'
  <2>1. \A e \in OpenExecutions : IsOpening(e)
    BY DEF OpenExecutions, IsOpening
  <2>2. QED
    BY <1>2, <2>1 DEF OtherTypes, PairTypes, Aside, MoreLapses, LapseKinds
<1>4. PlannerTypes("web")'
  <2>1. y.pc \in StepsOf("web")
    BY DEF StepsOf, Making
  <2>2. y.pc # "insert"
    OBVIOUS
  <2>3. QED
    BY <1>1, <1>2, <2>1, <2>2 DEF PlannerTypes
<1>5. QED
  BY <1>1, <1>3, <1>4, PlannerSteps DEF Aside

(* The web comes to rest, or to its next execution.                         *)
LEMMA WebRests ==
    ASSUME NEW v \in {"idle", "sweep", "list"}, NEW y, y = [Idle EXCEPT !.pc = v]
    PROVE  y \in Plans /\ y.pc = v /\ v \notin Making
<1>1. v \in PlanSteps
  BY DEF PlanSteps
<1>2. QED
  BY <1>1, IdleIsPlan, PlanFields, PlanStep DEF Making

(* Types: the web asks to close an opening.                                 *)
LEMMA RequestCloseKeepsTypes ==
    ASSUME PairTypes, NEW e \in DOMAIN execs, RequestClose(e) PROVE PairTypes'
<1>1. Aside /\ UNCHANGED <<execs, lapses, watch, sweep>> /\ IsOpening(e)
  BY DEF RequestClose, Aside, tables, rule, worker, IsOpening
<1>2. ExecTypes' /\ RolesKept /\ ClosesKeepStatus /\ MoreLapses
  BY <1>1, RowsStand
<1>3. CASE UNCHANGED plan
  <2>1. plan' = [plan EXCEPT !["web"] = plan["web"]] /\ plan["web"] \in Plans
        /\ plan["web"].pc = "idle"
    BY <1>3 DEF PairTypes, PlanTypes, Planners, RequestClose
  <2>2. PICK y : y = plan["web"]
    OBVIOUS
  <2>3. QED
    BY <1>1, <1>2, <2>1, <2>2, WebTypes DEF Making
<1>4. CASE ~UNCHANGED plan
  <2>1. PICK v \in {"mark", "plan"} :
            plan' = [plan EXCEPT !["web"] = Beginning(v, e)]
    BY <1>4 DEF RequestClose, Beginning
  <2>2. PICK y : y = Beginning(v, e)
    OBVIOUS
  <2>3. v \in PlanSteps /\ e \in Nat
    BY ExecIs DEF PlanSteps, Making, PairTypes
  <2>4. y \in Plans /\ y.pc = v /\ y.source = e
    BY <2>2, <2>3, PlanBegins
  <2>5. QED
    BY <1>1, <1>2, <2>1, <2>2, <2>4, WebTypes
<1>5. QED
  BY <1>3, <1>4

(* A request goes to its next execution.                                    *)
LEMMA NextRequestedTypes ==
    ASSUME PairTypes, Aside, UNCHANGED <<watch, sweep>>, NextRequested,
           ExecTypes', RolesKept, ClosesKeepStatus, MoreLapses
    PROVE  PairTypes'
<1>1. PICK v \in {"idle", "sweep"} : plan' = [plan EXCEPT !["web"] = [Idle EXCEPT !.pc = v]]
  BY DEF NextRequested
<1>2. PICK y : y = [Idle EXCEPT !.pc = v]
  OBVIOUS
<1>3. y \in Plans /\ y.pc = v /\ v \notin Making
  BY <1>2, WebRests
<1>4. QED
  BY <1>1, <1>2, <1>3, WebTypes

(* Types: the web finds no close to plan.                                   *)
LEMMA RequestImpossibleKeepsTypes ==
    ASSUME PairTypes, RequestImpossible PROVE PairTypes'
<1>1. Aside /\ UNCHANGED <<execs, watch, sweep>> /\ NextRequested /\ MoreLapses
  BY NotPlannedLapses
     DEF RequestImpossible, NothingToPlan, Aside, tables, rule, worker, PairTypes
<1>2. ExecTypes' /\ RolesKept /\ ClosesKeepStatus
  BY <1>1, SameExecs, SameIsKept DEF PairTypes, ClosesKeepStatus
<1>3. QED
  BY <1>1, <1>2, NextRequestedTypes

(* Types: the web marks the opening as closing.                             *)
LEMMA RequestMarkedKeepsTypes ==
    ASSUME PairTypes, RequestMarked PROVE PairTypes'
<1>1. Aside /\ UNCHANGED <<watch, sweep>> /\ NextRequested /\ MarkClosing("web")
      /\ "web" \in Closers
  BY DEF RequestMarked, Aside, rule, worker, Closers
<1>2. ExecTypes' /\ RolesKept /\ ClosesKeepStatus /\ MoreLapses
  BY <1>1, Marked
<1>3. QED
  BY <1>1, <1>2, NextRequestedTypes

(* Types: the sweep lists the open executions.                              *)
LEMMA ListKeepsTypes ==
    ASSUME PairTypes, ListOpenExecutions PROVE PairTypes'
<1>1. Aside /\ UNCHANGED <<execs, lapses, watch>> /\ sweep' = OpenExecutions
  BY DEF ListOpenExecutions, Aside, tables, worker
<1>2. ExecTypes' /\ RolesKept /\ ClosesKeepStatus /\ MoreLapses
  BY <1>1, RowsStand
<1>3. PICK v \in {"idle", "sweep"} : plan' = [plan EXCEPT !["web"].pc = v]
  BY DEF ListOpenExecutions
<1>4. PICK y : y = [plan["web"] EXCEPT !.pc = v]
  OBVIOUS
<1>5. plan' = [plan EXCEPT !["web"] = y]
  BY <1>3, <1>4
<1>6. plan["web"] \in Plans /\ v \in PlanSteps /\ v \notin Making
  BY DEF PairTypes, PlanTypes, Planners, PlanSteps, Making
<1>7. y \in Plans /\ y.pc = v
  BY <1>4, <1>6, PlanFields, PlanStep
<1>8. QED
  BY <1>1, <1>2, <1>5, <1>6, <1>7, WebTypes

(* Types: the sweep closes an execution of a disabled rule.                 *)
LEMMA CloseDisabledKeepsTypes ==
    ASSUME PairTypes, NEW e \in sweep, CloseDisabled(e) PROVE PairTypes'
<1>1. Aside /\ UNCHANGED <<execs, lapses, watch>> /\ sweep' = sweep \ {e}
      /\ IsOpening(e)
  BY DEF CloseDisabled, Aside, tables, worker, PairTypes, OtherTypes
<1>2. ExecTypes' /\ RolesKept /\ ClosesKeepStatus /\ MoreLapses
  BY <1>1, RowsStand
<1>3. CASE HasOpenClose
  <2>1. PICK v \in {"idle", "sweep"} : plan' = [plan EXCEPT !["web"] = [Idle EXCEPT !.pc = v]]
    BY <1>3 DEF CloseDisabled
  <2>2. PICK y : y = [Idle EXCEPT !.pc = v]
    OBVIOUS
  <2>3. y \in Plans /\ y.pc = v /\ v \notin Making
    BY <2>2, WebRests
  <2>4. QED
    BY <1>1, <1>2, <2>1, <2>2, <2>3, WebTypes
<1>4. CASE ~HasOpenClose
  <2>1. plan' = [plan EXCEPT !["web"] = Beginning("plan", e)]
    BY <1>4 DEF CloseDisabled, Beginning
  <2>2. PICK y : y = Beginning("plan", e)
    OBVIOUS
  <2>3. "plan" \in PlanSteps /\ e \in Nat
    BY <1>1, ExecIs DEF PlanSteps, Making, PairTypes, IsOpening
  <2>4. y \in Plans /\ y.pc = "plan" /\ y.source = e
    BY <2>2, <2>3, PlanBegins
  <2>5. QED
    BY <1>1, <1>2, <2>1, <2>2, <2>4, WebTypes
<1>5. QED
  BY <1>3, <1>4

(* Types: the rule is disabled.                                             *)
LEMMA DisableRuleKeepsTypes ==
    ASSUME PairTypes, DisableRule PROVE PairTypes'
<1>1. UNCHANGED <<legs, position, cooldown, execs, pc, batch, seen, verdict, watch, sweep,
                  lapses>> /\ enabled' = FALSE /\ plan["web"].pc = "idle"
  BY DEF DisableRule, tables, worker
<1>2. ExecTypes' /\ RolesKept /\ ClosesKeepStatus /\ MoreLapses
  BY <1>1, RowsStand
<1>3. OtherTypes'
  BY <1>1, <1>2 DEF OtherTypes, PairTypes, MoreLapses, LapseKinds, IsOpening
<1>4. PICK v \in {"idle", "list"} : plan' = [plan EXCEPT !["web"].pc = v]
  <2>1. UNCHANGED plan => plan' = [plan EXCEPT !["web"].pc = "idle"]
    <3>1. plan["web"] \in Plans /\ plan \in [Planners -> Plans]
      BY DEF PairTypes, PlanTypes, Planners
    <3>2. plan["web"] = [plan["web"] EXCEPT !.pc = "idle"]
      BY <1>1, <3>1 DEF Plans
    <3>3. QED
      BY <3>1, <3>2
  <2>2. QED
    BY <2>1 DEF DisableRule
<1>5. PICK y : y = [plan["web"] EXCEPT !.pc = v]
  OBVIOUS
<1>6. plan' = [plan EXCEPT !["web"] = y]
  BY <1>4, <1>5
<1>7. plan["web"] \in Plans /\ v \in PlanSteps /\ v \notin Making /\ v \in StepsOf("web")
  BY DEF PairTypes, PlanTypes, Planners, PlanSteps, Making, StepsOf
<1>8. y \in Plans /\ y.pc = v
  BY <1>5, <1>7, PlanFields, PlanStep
<1>9. /\ plan' \in [Planners -> Plans] /\ plan'["web"] = y
      /\ \A r \in Planners \ {"web"} : plan'[r] = plan[r]
      /\ "web" \in Planners
  BY <1>6, <1>8, PlanReplaced DEF PairTypes, Planners
<1>10. PlannerTypes("web")'
  BY <1>7, <1>8, <1>9 DEF PlannerTypes, Making
<1>11. QED
  BY <1>1, <1>2, <1>3, <1>9, <1>10, PlannerSteps

(* The surroundings.                                                        *)
LEMMA CooldownKeepsTypes ==
    ASSUME PairTypes, CooldownExpires PROVE PairTypes'
<1>1. UNCHANGED <<legs, position, enabled, execs, pc, batch, seen, verdict, watch, sweep,
                  plan, lapses>> /\ cooldown' = FALSE
  BY DEF CooldownExpires, rule, worker
<1>2. ExecTypes' /\ RolesKept /\ ClosesKeepStatus /\ MoreLapses
  BY <1>1, RowsStand
<1>3. OtherTypes'
  BY <1>1, <1>2 DEF OtherTypes, PairTypes, MoreLapses, LapseKinds, IsOpening
<1>4. PlanTypes'
  BY <1>1, <1>2, SameLegs, PlansStand DEF PairTypes
<1>5. PlannerTypes("web")' /\ "web" \in Planners /\ plan' \in [Planners -> Plans]
  BY <1>4 DEF PlanTypes, Planners
<1>6. QED
  BY <1>1, <1>2, <1>3, <1>5, PlannerSteps

(* The planners of a process that dies are idle.                            *)
LEMMA DeadPlanners ==
    ASSUME PlanTypes, NEW dead \in SUBSET Planners, RolesKept, SameLegRoles,
           plan' = [p \in Planners |-> IF p \in dead THEN Idle ELSE plan[p]],
           "position" \notin dead => UNCHANGED watch
    PROVE  PlanTypes'
<1>1. plan' \in [Planners -> Plans]
  BY IdleIsPlan DEF PlanTypes
<1>2. ASSUME NEW r \in Planners PROVE PlannerTypes(r)'
  <2>1. CASE r \in dead
    <3>1. plan'[r].pc = "idle" /\ "idle" \in StepsOf(r)
      BY <2>1, IdleIsPlan DEF StepsOf, Planners
    <3>2. QED
      BY <3>1 DEF PlannerTypes, Making
  <2>2. CASE r \notin dead
    <3>1. plan'[r] = plan[r] /\ PlannerTypes(r) /\ (r = "position" => UNCHANGED watch)
      BY <2>2 DEF PlanTypes
    <3>2. SidesOf(plan[r].exec)' = SidesOf(plan[r].exec)
      <4>1. PICK x : x = plan[r].exec
        OBVIOUS
      <4>2. QED
        BY <3>1, <4>1, SameSides
    <3>3. QED
      BY <3>1, <3>2, PlannerStands
  <2>3. QED
    BY <2>1, <2>2
<1>3. QED
  BY <1>1, <1>2 DEF PlanTypes

(* Types: the worker dies.                                                  *)
LEMMA WorkerDiesKeepsTypes ==
    ASSUME PairTypes, WorkerDies PROVE PairTypes'
<1>1. /\ UNCHANGED <<execs, position, cooldown, enabled, sweep>>
      /\ pc' = "idle" /\ batch' = NoLegs /\ watch' = {}
      /\ plan' = [p \in Planners |-> IF p \in Planners \ {"web"} THEN Idle ELSE plan[p]]
  BY DEF WorkerDies, rule, Crashed
<1>2. ExecTypes' /\ RolesKept
  BY <1>1, SameExecs, SameIsKept DEF PairTypes
<1>3. LegTypes' /\ SameLegRoles
  <2>1. CASE UNCHANGED legs
    BY <1>2, <2>1, LegsStand, SameLegs DEF PairTypes
  <2>2. CASE CanSubmit /\ legs' = [legs EXCEPT ![This].status = "submitting"]
    <3>1. /\ This \in DOMAIN legs /\ Row.retry < RetryLimit
          /\ (Row = legs[This] \/ EndedSince(Row, legs[This], Action))
          /\ Trading(legs[This].qty, legs[This].traded, legs[This].filled)
      BY <2>2, InWork DEF CanSubmit, Submitting, PairTypes
    <3>2. legs[This].retry < RetryLimit /\ "submitting" \in LegStatuses
      BY <3>1 DEF EndedSince, LegStatuses, ActiveLeg
    <3>3. LegBecomes(This, "submitting", legs[This].oid, legs[This].retry,
                     legs[This].filled, legs[This].qty, legs[This].traded)
      BY <2>2, <3>1, <3>2, StatusPut DEF PairTypes, OrderStays
    <3>4. PICK o, n, f, q, t :
             /\ o = legs[This].oid /\ n = legs[This].retry /\ f = legs[This].filled
             /\ q = legs[This].qty /\ t = legs[This].traded
      OBVIOUS
    <3>5. ~o => t = 0
      BY <3>1, <3>4, LegFacts DEF PairTypes
    <3>6. QED
      BY <1>2, <3>1, <3>2, <3>3, <3>4, <3>5, LegTypesAfter, BecomesSameRoles DEF PairTypes
  <2>3. QED
    BY <2>1, <2>2 DEF WorkerDies
<1>4. OtherTypes'
  <2>1. MoreLapses
    BY DEF WorkerDies, MoreLapses, LapseKinds, PairTypes, OtherTypes
  <2>2. QED
    BY <1>1, <1>2, <2>1, OtherStand DEF PairTypes
<1>5. PlanTypes'
  <2>1. "position" \in Planners \ {"web"}
    BY DEF Planners
  <2>2. QED
    BY <1>1, <1>2, <1>3, <2>1, DeadPlanners DEF PairTypes
<1>6. DOMAIN batch' = {} /\ pc' = "idle"
  BY <1>1 DEF NoLegs
<1>7. BatchTypes'
  BY <1>6 DEF BatchTypes
<1>8. plan'["execution"].pc = "idle"
  BY <1>1, IdleIsPlan DEF Planners
<1>9. WorkTypes'
  BY <1>6, <1>8 DEF WorkTypes, Returning
<1>10. QED
  BY <1>2, <1>3, <1>4, <1>5, <1>7, <1>9 DEF PairTypes

(* Types: the web process dies.                                             *)
LEMMA RequestDiesKeepsTypes ==
    ASSUME PairTypes, RequestDies PROVE PairTypes'
<1>1. /\ UNCHANGED <<execs, legs, position, cooldown, enabled, pc, batch, seen, verdict,
                     watch>>
      /\ sweep' = {}
      /\ plan' = [p \in Planners |-> IF p \in {"web"} THEN Idle ELSE plan[p]]
  BY DEF RequestDies, tables, worker, Crashed
<1>2. ExecTypes' /\ RolesKept /\ ClosesKeepStatus /\ SameLegRoles
  BY <1>1, SameExecs, SameIsKept, SameLegs DEF PairTypes, ClosesKeepStatus
<1>3. OtherTypes'
  <2>1. MoreLapses
    BY DEF RequestDies, MoreLapses, LapseKinds, PairTypes, OtherTypes
  <2>2. QED
    BY <1>1, <1>2, <2>1, OtherStand DEF PairTypes
<1>4. PlanTypes'
  <2>1. {"web"} \in SUBSET Planners
    BY DEF Planners
  <2>2. QED
    BY <1>1, <1>2, <2>1, DeadPlanners DEF PairTypes
<1>5. LegTypes' /\ BatchTypes'
  BY <1>1, <1>2, LegsStand, BatchStands DEF PairTypes
<1>6. plan'["execution"] = plan["execution"]
  BY <1>1 DEF Planners
<1>7. WorkTypes'
  BY <1>1, <1>2, <1>6, WorkStands DEF PairTypes
<1>8. QED
  BY <1>2, <1>3, <1>4, <1>5, <1>7 DEF PairTypes

-----------------------------------------------------------------------------
(* The execution thread.                                                    *)

(* Types: the worker lists the active legs.                                 *)
LEMMA ScanLegsKeepsTypes ==
    ASSUME PairTypes, ScanLegs PROVE PairTypes'
<1>1. UNCHANGED <<legs, position, cooldown, enabled, execs, seen, verdict, watch, sweep,
                  plan, lapses>>
      /\ batch' = Restrict(legs, ActiveLegIds) /\ pc' = "leg" /\ ActiveLegIds # {}
      /\ pc = "idle"
  BY DEF ScanLegs, tables, rule
<1>2. ExecTypes' /\ RolesKept /\ SameLegRoles /\ MoreLapses
  BY <1>1, RowsStand, SameLegs
<1>3. LegTypes' /\ PlanTypes'
  BY <1>1, <1>2, LegsStand, PlansStand DEF PairTypes
<1>4. OtherTypes'
  BY <1>1, <1>2, OtherStand DEF PairTypes
<1>5. DOMAIN batch' = ActiveLegIds /\ \A i \in ActiveLegIds : batch'[i] = legs[i]
  BY <1>1 DEF Restrict
<1>6. ASSUME NEW i \in DOMAIN batch' PROVE ReadTypes(i)'
  <2>1. i \in DOMAIN legs /\ batch'[i] = legs[i] /\ legs[i].status \in ActiveLeg
    BY <1>5, <1>6 DEF ActiveLegIds
  <2>2. legs[i] \in Legs /\ legs[i].retry < RetryLimit
    BY <2>1, LegIs DEF PairTypes, LegTypes
  <2>3. Fresh(i)'
    BY <1>1, <2>1 DEF Fresh
  <2>4. QED
    BY <1>1, <2>1, <2>2, <2>3 DEF ReadTypes
<1>7. BatchTypes'
  BY <1>1, <1>5, <1>6 DEF BatchTypes, ThreadSteps
<1>8. WorkTypes'
  BY <1>1 DEF WorkTypes, PairTypes, Returning
<1>9. QED
  BY <1>2, <1>3, <1>4, <1>7, <1>8 DEF PairTypes

(* Types: a leg is processed.                                               *)
LEMMA ProcessLegKeepsTypes ==
    ASSUME PairTypes, ProcessLeg PROVE PairTypes'
<1>1. LegWorked
  BY ProcessLegWorks DEF PairTypes
<1>2. PICK st \in LegStatuses, o \in BOOLEAN, n \in 0 .. RetryLimit, f \in Nat,
            q \in Nat \ {0}, t \in Nat : LegWork(st, o, n, f, q, t)
  BY <1>1 DEF LegWorked
<1>3. /\ pc = "leg" /\ pc' = "status" /\ seen' = execs[Exec].status
      /\ UNCHANGED <<execs, cooldown, enabled, sweep, batch, verdict, watch, plan>>
      /\ position' \in [Sides -> Nat] /\ MoreLapses
  BY <1>1 DEF LegWorked, ThenReconcile, rule
<1>4. This \in DOMAIN legs /\ This \in DOMAIN batch /\ Exec \in DOMAIN execs
  BY <1>3, InWork DEF PairTypes
<1>5. ExecTypes' /\ RolesKept
  BY <1>3, SameExecs, SameIsKept DEF PairTypes
<1>6. SameLegRoles /\ LegTypes'
  BY <1>2, <1>4, <1>5, LegTypesAfter, BecomesSameRoles DEF LegWork, PairTypes
<1>7. OtherTypes'
  BY <1>3, <1>5 DEF PairTypes, OtherTypes, MoreLapses, LapseKinds, IsOpening
<1>8. PlanTypes'
  BY <1>3, <1>5, <1>6, PlansStand DEF PairTypes
<1>9. BatchTypes'
  <2>1. ASSUME NEW i \in DOMAIN batch PROVE ReadTypes(i)'
    <3>1. ReadTypes(i) /\ This' = This
      BY <1>3 DEF PairTypes, BatchTypes, This
    <3>2. i # This => legs'[i] = legs[i]
      BY <1>2, <3>1 DEF LegWork, LegBecomes, ReadTypes
    <3>3. i # This => Fresh(i)'
      BY <1>3, <3>1, <3>2 DEF Fresh, ReadTypes
    <3>4. QED
      BY <1>3, <1>6, <3>1, <3>3 DEF ReadTypes, SameLegRoles
  <2>2. pc' \in ThreadSteps \cup {"idle"}
    BY <1>3 DEF ThreadSteps
  <2>3. QED
    BY <1>3, <2>1, <2>2 DEF BatchTypes, PairTypes
<1>10. WorkTypes'
  <2>1. Exec' = Exec
    BY <1>3 DEF Exec, Row, This
  <2>2. seen' = execs'[Exec'].status
    BY <1>3, <2>1
  <2>3. plan'["execution"].pc = "idle"
    BY <1>3 DEF PairTypes, WorkTypes
  <2>4. QED
    BY <1>3, <2>2, <2>3 DEF WorkTypes, Returning
<1>11. QED
  BY <1>5, <1>6, <1>7, <1>8, <1>9, <1>10 DEF PairTypes

(* What the status of an execution says of its legs after the refresh.      *)
LEMMA ReconciledIs ==
    ASSUME ExecTypes, NEW e \in DOMAIN execs
    PROVE  /\ ReconciledStatus(e) \in Statuses
           /\ ReconciledStatus(e) = "closed" => execs[e].action = "close"
           /\ ReconciledStatus(e) = "open" => execs[e].action = "open"
           /\ ReconciledStatus(e) = "failed" <=> "failed" \in StatusesOf(e)
           /\ ReconciledStatus(e) \in {"closed", "open"} => StatusesOf(e) = {"filled"}
           /\ ReconciledStatus(e) \in {"opening", "closing"} =>
                 StatusesOf(e) # {"filled"} /\ "failed" \notin StatusesOf(e)
           /\ execs[e].action = "open" => ReconciledStatus(e) \notin {"closing", "closed"}
           /\ execs[e].action = "close" => ReconciledStatus(e) \notin {"opening", "open"}
<1>1. execs[e].action \in {"open", "close"}
  BY ExecIs DEF Executions
<1>2. QED
  BY <1>1 DEF ReconciledStatus, Statuses, ActiveExecution

(* The status reconcile_execution writes.                                   *)
LEMMA StatusWritten ==
    ASSUME PairTypes, WriteStatus
    PROVE  /\ pc = "status" /\ Exec \in DOMAIN execs
           /\ ExecTypes' /\ SameRoles /\ RolesKept /\ StatusesKeptBut(Exec)
           /\ seen # ReconciledStatus(Exec) => execs'[Exec].status = ReconciledStatus(Exec)
           /\ seen = ReconciledStatus(Exec) => UNCHANGED execs
           /\ Action = "close" => execs'[Exec].status = ReconciledStatus(Exec)
<1>1. pc = "status" /\ Exec \in DOMAIN execs
  BY InWork DEF WriteStatus, PairTypes
<1>2. ReconciledStatus(Exec) \in Statuses
  BY <1>1, ReconciledIs DEF PairTypes
<1>3. CASE ReconciledStatus(Exec) = seen
  <2>1. UNCHANGED execs
    BY <1>3 DEF WriteStatus
  <2>2. ExecTypes' /\ SameRoles /\ StatusesKeptBut(Exec)
    BY <2>1, SameExecs DEF PairTypes
  <2>3. Action = "close" => seen = execs[Exec].status
    BY <1>1 DEF PairTypes, WorkTypes
  <2>4. QED
    BY <1>1, <1>3, <2>1, <2>2, <2>3, SameIsKept
<1>4. CASE ReconciledStatus(Exec) # seen
  <2>1. PICK e, st : e = Exec /\ st = ReconciledStatus(Exec)
    OBVIOUS
  <2>2. SetStatus(e, st)
    BY <1>4, <2>1 DEF WriteStatus
  <2>3. ExecTypes' /\ SameRoles /\ StatusesKeptBut(e) /\ execs'[e].status = st
    BY <1>1, <1>2, <2>1, <2>2, Restated DEF PairTypes
  <2>4. QED
    BY <1>1, <1>4, <2>1, <2>3, SameIsKept
<1>5. QED
  BY <1>3, <1>4

(* The thread goes on with its next leg, the legs and the plans as before.  *)
LEMMA AdvanceTypes ==
    ASSUME PairTypes, pc # "idle", Advance, ExecTypes', RolesKept,
           UNCHANGED <<legs, position, enabled, sweep, watch, plan>>,
           cooldown' \in BOOLEAN, MoreLapses, plan["execution"].pc = "idle"
    PROVE  PairTypes'
<1>1. SameLegRoles
  BY SameLegs
<1>2. LegTypes' /\ PlanTypes' /\ BatchTypes' /\ WorkTypes'
  BY <1>1, LegsStand, PlansStand, BatchAdvances, AdvancedWork DEF PairTypes
<1>3. OtherTypes'
  BY DEF PairTypes, OtherTypes, MoreLapses, LapseKinds, IsOpening, RolesKept
<1>4. QED
  BY <1>2, <1>3 DEF PairTypes

(* Types: the refresh finds the execution under way.                        *)
LEMMA UnderWayKeepsTypes ==
    ASSUME PairTypes, ReconcileUnderWay PROVE PairTypes'
<1>1. /\ pc = "status" /\ ExecTypes' /\ RolesKept
  BY StatusWritten DEF ReconcileUnderWay
<1>2. /\ UNCHANGED <<legs, position, enabled, sweep, watch, plan, cooldown>> /\ Advance
      /\ MoreLapses
  BY DEF ReconcileUnderWay, rule, MoreLapses, LapseKinds, PairTypes, OtherTypes
<1>3. cooldown' \in BOOLEAN /\ plan["execution"].pc = "idle"
  BY <1>1, <1>2 DEF PairTypes, OtherTypes, WorkTypes
<1>4. QED
  BY <1>1, <1>2, <1>3, AdvanceTypes

(* The thread stays at its leg, beyond process_order_leg.                   *)
LEMMA BatchKeepsOn ==
    ASSUME BatchTypes, LegTypes, RolesKept, UNCHANGED <<legs, batch>>,
           pc # "idle", pc' \in ThreadSteps \ {"leg"}
    PROVE  BatchTypes'
<1>1. ASSUME NEW i \in DOMAIN batch PROVE ReadTypes(i)'
  <2>1. ReadTypes(i) /\ This' = This
    BY DEF BatchTypes, This
  <2>2. i \in DOMAIN legs /\ legs[i].exec \in DOMAIN execs
    BY <2>1, LegIs DEF ReadTypes
  <2>3. execs'[legs[i].exec].action = execs[legs[i].exec].action
    BY <2>2 DEF RolesKept
  <2>4. Fresh(i) => Fresh(i)'
    BY <2>3 DEF Fresh
  <2>5. QED
    BY <2>1, <2>4 DEF ReadTypes
<1>2. QED
  BY <1>1 DEF BatchTypes, ThreadSteps

(* Types: the refresh finds the close filled.                               *)
LEMMA ClosedKeepsTypes ==
    ASSUME PairTypes, ReconcileClosed PROVE PairTypes'
<1>1. /\ pc = "status" /\ Exec \in DOMAIN execs /\ ExecTypes' /\ RolesKept
  BY StatusWritten DEF ReconcileClosed
<1>2. /\ UNCHANGED <<legs, position, enabled, sweep, watch, plan, cooldown, batch>>
      /\ MoreLapses /\ pc' = "readSource" /\ verdict' = "closed"
      /\ ReconciledStatus(Exec) = "closed"
  BY DEF ReconcileClosed, rule, MoreLapses, LapseKinds, PairTypes, OtherTypes
<1>3. Action = "close"
  BY <1>1, <1>2, ReconciledIs DEF PairTypes, Action
<1>4. SameLegRoles
  BY <1>2, SameLegs
<1>5. LegTypes' /\ PlanTypes' /\ OtherTypes'
  BY <1>1, <1>2, <1>4, LegsStand, PlansStand, OtherStand DEF PairTypes
<1>6. BatchTypes'
  BY <1>1, <1>2, BatchKeepsOn DEF PairTypes, ThreadSteps
<1>7. WorkTypes'
  <2>1. Action' = "close"
    BY <1>1, <1>2, <1>3 DEF Action, Exec, Row, This, RolesKept
  <2>2. plan["execution"].pc = "idle"
    BY <1>1 DEF PairTypes, WorkTypes
  <2>3. QED
    BY <1>2, <2>1, <2>2 DEF WorkTypes, Returning
<1>8. QED
  BY <1>1, <1>5, <1>6, <1>7 DEF PairTypes

(* What a leg becomes when its execution has failed.                        *)
LEMMA FinalizedLegIs ==
    ASSUME NEW x \in Legs, NEW y, y = FinalizedLeg(x)
    PROVE  /\ y \in Legs /\ y.exec = x.exec /\ y.side = x.side /\ y.qty = x.qty
           /\ y.oid = x.oid /\ y.retry = x.retry /\ y.traded = x.traded
           /\ x.status \notin ActiveLeg \/ x.oid => y = x
           /\ x.status \in ActiveLeg /\ ~x.oid =>
                 \/ /\ y.status = "filled" /\ y.filled = 0
                    /\ Action = "close" /\ position[x.side] = 0
                 \/ y.status = "failed" /\ y.filled = x.filled
<1>1. DOMAIN x = LegFields
  BY FieldsOfLeg
<1>2. CASE x.status \notin ActiveLeg \/ x.oid
  BY <1>2 DEF FinalizedLeg
<1>3. CASE x.status \in ActiveLeg /\ ~x.oid
  <2>1. CASE Action = "close" /\ position[x.side] = 0
    <3>1. PICK w : w = [x EXCEPT !.status = "filled"]
      OBVIOUS
    <3>2. y = [w EXCEPT !.filled = 0]
      BY <1>3, <2>1, <3>1 DEF FinalizedLeg
    <3>3. w \in Legs /\ DOMAIN w = LegFields
      BY <3>1, LegStatus, FieldsOfLeg DEF LegStatuses, EndedLeg
    <3>4. y \in Legs
      BY <3>2, <3>3, LegFill
    <3>5. /\ y.exec = x.exec /\ y.side = x.side /\ y.qty = x.qty
          /\ y.oid = x.oid /\ y.retry = x.retry /\ y.traded = x.traded
          /\ y.status = "filled" /\ y.filled = 0
      BY <1>1, <3>1, <3>2, <3>3 DEF LegFields
    <3>6. QED
      BY <1>3, <2>1, <3>4, <3>5
  <2>2. CASE ~(Action = "close" /\ position[x.side] = 0)
    <3>1. y = [x EXCEPT !.status = "failed"]
      BY <1>3, <2>2 DEF FinalizedLeg
    <3>2. y \in Legs
      BY <3>1, LegStatus DEF LegStatuses, EndedLeg
    <3>3. QED
      BY <1>1, <1>3, <3>1, <3>2 DEF LegFields
  <2>3. QED
    BY <2>1, <2>2
<1>4. QED
  BY <1>2, <1>3

(* The legs after an execution has failed.                                  *)
LEMMA LegsFinalized ==
    ASSUME PairTypes, ReconcileFailed
    PROVE  /\ legs' \in Seq(Legs) /\ SameLegRoles
           /\ \A i \in DOMAIN legs :
                 /\ legs[i].exec # Exec => legs'[i] = legs[i]
                 /\ legs'[i].oid = legs[i].oid /\ legs'[i].retry = legs[i].retry
                 /\ legs'[i].qty = legs[i].qty /\ legs'[i].traded = legs[i].traded
                 /\ legs[i].status \notin ActiveLeg \/ legs[i].oid => legs'[i] = legs[i]
                 /\ legs[i].exec = Exec /\ legs[i].status \in ActiveLeg /\ ~legs[i].oid =>
                       \/ /\ legs'[i].status = "filled" /\ legs'[i].filled = 0
                          /\ Action = "close" /\ position[legs[i].side] = 0
                       \/ legs'[i].status = "failed" /\ legs'[i].filled = legs[i].filled
<1>1. legs' = [i \in DOMAIN legs |->
                  IF i \in LegsOf(Exec) THEN FinalizedLeg(legs[i]) ELSE legs[i]]
  BY DEF ReconcileFailed
<1>2. DOMAIN legs' = DOMAIN legs
  BY <1>1
<1>3. ASSUME NEW i \in DOMAIN legs
      PROVE  /\ legs'[i] \in Legs
             /\ legs'[i].exec = legs[i].exec /\ legs'[i].side = legs[i].side
             /\ legs[i].exec # Exec => legs'[i] = legs[i]
             /\ legs'[i].oid = legs[i].oid /\ legs'[i].retry = legs[i].retry
             /\ legs'[i].qty = legs[i].qty /\ legs'[i].traded = legs[i].traded
             /\ legs[i].status \notin ActiveLeg \/ legs[i].oid => legs'[i] = legs[i]
             /\ legs[i].exec = Exec /\ legs[i].status \in ActiveLeg /\ ~legs[i].oid =>
                   \/ /\ legs'[i].status = "filled" /\ legs'[i].filled = 0
                      /\ Action = "close" /\ position[legs[i].side] = 0
                   \/ legs'[i].status = "failed" /\ legs'[i].filled = legs[i].filled
  <2>1. legs[i] \in Legs
    BY LegIs DEF PairTypes
  <2>2. CASE legs[i].exec = Exec
    <3>1. legs'[i] = FinalizedLeg(legs[i])
      BY <1>1, <2>2 DEF LegsOf
    <3>2. PICK x, y : x = legs[i] /\ y = legs'[i]
      OBVIOUS
    <3>3. x \in Legs /\ y = FinalizedLeg(x)
      BY <2>1, <3>1, <3>2
    <3>4. QED
      BY <2>2, <3>2, <3>3, FinalizedLegIs
  <2>3. CASE legs[i].exec # Exec
    <3>1. legs'[i] = legs[i]
      BY <1>1, <2>3 DEF LegsOf
    <3>2. QED
      BY <2>1, <2>3, <3>1
  <2>4. QED
    BY <2>2, <2>3
<1>4. legs' \in Seq(Legs)
  <2>1. DOMAIN legs = 1 .. Len(legs) /\ Len(legs) \in Nat
    BY LegCount DEF PairTypes
  <2>2. legs' \in [1 .. Len(legs) -> Legs]
    BY <1>1, <1>3, <2>1
  <2>3. QED
    BY <2>1, <2>2
<1>5. SameLegRoles
  BY <1>2, <1>3 DEF SameLegRoles
<1>6. QED
  BY <1>3, <1>4, <1>5

(* Types: the refresh finds a failed leg.                                   *)
LEMMA FailedKeepsTypes ==
    ASSUME PairTypes, ReconcileFailed PROVE PairTypes'
<1>1. /\ pc = "status" /\ Exec \in DOMAIN execs /\ ExecTypes' /\ RolesKept
  BY StatusWritten DEF ReconcileFailed
<1>2. /\ UNCHANGED <<position, enabled, sweep, watch, plan, batch, lapses>>
      /\ IF Action = "close"
           THEN /\ cooldown' = (cooldown \/ UsedUp(Exec))
                /\ verdict' = IF UsedUp(Exec) THEN "open" ELSE "closing"
                /\ pc' = "readSource"
           ELSE /\ pc' = "openFailed"
                /\ UNCHANGED <<cooldown, verdict>>
  BY DEF ReconcileFailed, rule
<1>3. /\ legs' \in Seq(Legs) /\ SameLegRoles
      /\ \A i \in DOMAIN legs :
            /\ legs[i].exec # Exec => legs'[i] = legs[i]
            /\ legs'[i].oid = legs[i].oid /\ legs'[i].retry = legs[i].retry
            /\ legs'[i].qty = legs[i].qty /\ legs'[i].traded = legs[i].traded
            /\ legs[i].status \notin ActiveLeg \/ legs[i].oid => legs'[i] = legs[i]
            /\ legs[i].exec = Exec /\ legs[i].status \in ActiveLeg /\ ~legs[i].oid =>
                  \/ /\ legs'[i].status = "filled" /\ legs'[i].filled = 0
                     /\ Action = "close" /\ position[legs[i].side] = 0
                  \/ legs'[i].status = "failed" /\ legs'[i].filled = legs[i].filled
  BY LegsFinalized
<1>4. LegTypes'
  <2>1. ASSUME NEW i \in DOMAIN legs
        PROVE  /\ legs'[i].exec \in DOMAIN execs'
               /\ legs'[i].status \in ActiveLeg =>
                     /\ legs'[i].retry < RetryLimit
                     /\ Trading(legs'[i].qty, legs'[i].traded, legs'[i].filled)
               /\ ~legs'[i].oid => legs'[i].traded = 0
    <3>1. /\ legs[i].exec \in DOMAIN execs
          /\ legs[i].status \in ActiveLeg =>
                /\ legs[i].retry < RetryLimit
                /\ Trading(legs[i].qty, legs[i].traded, legs[i].filled)
          /\ ~legs[i].oid => legs[i].traded = 0
      BY DEF PairTypes, LegTypes
    <3>2. /\ legs'[i].exec = legs[i].exec /\ legs'[i].oid = legs[i].oid
          /\ legs'[i].traded = legs[i].traded
      BY <1>3 DEF SameLegRoles
    <3>3. legs'[i] = legs[i] \/ legs'[i].status \notin ActiveLeg
      BY <1>3, <3>1 DEF ActiveLeg
    <3>4. QED
      BY <1>1, <3>1, <3>2, <3>3 DEF RolesKept
  <2>2. DOMAIN legs' = DOMAIN legs
    BY <1>3 DEF SameLegRoles
  <2>3. QED
    BY <1>3, <2>1, <2>2 DEF LegTypes
<1>5. PlanTypes'
  BY <1>1, <1>2, <1>3, PlansStand DEF PairTypes
<1>6. Action \in {"open", "close"}
  BY <1>1, ActionIs DEF PairTypes
<1>7. OtherTypes'
  BY <1>1, <1>2 DEF PairTypes, OtherTypes, IsOpening, RolesKept, UsedUp
<1>8. Exec' = Exec /\ Action' = Action /\ This' = This
  BY <1>1, <1>2 DEF Action, Exec, Row, This, RolesKept
<1>9. BatchTypes'
  <2>1. ASSUME NEW i \in DOMAIN batch PROVE ReadTypes(i)'
    <3>1. ReadTypes(i)
      BY DEF PairTypes, BatchTypes
    <3>2. i \in DOMAIN legs /\ legs[i].exec \in DOMAIN execs
      BY <3>1, LegIs DEF ReadTypes, PairTypes
    <3>3. execs'[legs[i].exec].action = execs[legs[i].exec].action
          /\ legs'[i].exec = legs[i].exec
      BY <1>1, <1>3, <3>2 DEF RolesKept, SameLegRoles
    <3>4. ASSUME Fresh(i) PROVE Fresh(i)'
      <4>1. CASE legs'[i] = legs[i]
        BY <1>2, <3>3, <3>4, <4>1 DEF Fresh
      <4>2. CASE legs'[i] # legs[i]
        <5>1. /\ legs[i].exec = Exec /\ legs[i].status \in ActiveLeg /\ ~legs[i].oid
              /\ legs'[i].oid = legs[i].oid /\ legs'[i].retry = legs[i].retry
              /\ legs'[i].status \in EndedLeg
              /\ legs'[i].status = "filled" => Action = "close"
          BY <1>3, <3>2, <4>2 DEF EndedLeg
        <5>2. batch[i] = legs[i]
          BY <3>4, <5>1 DEF Fresh, EndedSince, EndedLeg, ActiveLeg
        <5>3. EndedSince(batch[i], legs'[i], execs[legs[i].exec].action)
          BY <5>1, <5>2 DEF EndedSince, Action
        <5>4. QED
          BY <1>2, <3>3, <5>3 DEF Fresh
      <4>3. QED
        BY <4>1, <4>2
    <3>5. pc' # "leg"
      BY <1>2
    <3>6. QED
      BY <1>2, <1>3, <1>8, <3>1, <3>4, <3>5 DEF ReadTypes, SameLegRoles
  <2>2. pc' \in ThreadSteps /\ pc' # "idle"
    BY <1>2 DEF ThreadSteps
  <2>3. QED
    BY <1>1, <1>2, <2>1, <2>2 DEF BatchTypes, PairTypes
<1>10. WorkTypes'
  <2>1. plan["execution"].pc = "idle"
    BY <1>1 DEF PairTypes, WorkTypes
  <2>2. QED
    BY <1>2, <1>6, <1>8, <2>1 DEF WorkTypes, Returning
<1>11. QED
  BY <1>1, <1>4, <1>5, <1>7, <1>9, <1>10 DEF PairTypes

(* Types: the worker reads the opening of a close.                          *)
LEMMA ReadSourceKeepsTypes ==
    ASSUME PairTypes, ReadSource PROVE PairTypes'
<1>1. /\ UNCHANGED <<legs, position, enabled, sweep, watch, plan, cooldown, batch, execs,
                     verdict, lapses>>
      /\ pc = "readSource" /\ pc' = "writeSource"
  BY DEF ReadSource, tables, rule
<1>2. ExecTypes' /\ RolesKept /\ MoreLapses /\ SameLegRoles
  BY <1>1, RowsStand, SameLegs
<1>3. LegTypes' /\ PlanTypes' /\ OtherTypes' /\ BatchTypes'
  BY <1>1, <1>2, LegsStand, PlansStand, OtherStand, BatchKeepsOn DEF PairTypes, ThreadSteps
<1>4. WorkTypes'
  <2>1. Action' = Action
    BY <1>1 DEF Action, Exec, Row, This
  <2>2. QED
    BY <1>1, <2>1 DEF PairTypes, WorkTypes, Returning
<1>5. QED
  BY <1>2, <1>3, <1>4 DEF PairTypes

(* The source of the close in work.                                         *)
LEMMA SourceIs ==
    ASSUME PairTypes, Returning
    PROVE  /\ Exec \in DOMAIN execs /\ Action = "close" /\ pc # "idle"
           /\ IsOpening(execs[Exec].source) /\ verdict \in Statuses
<1>1. pc # "idle"
  BY DEF Returning
<1>2. Exec \in DOMAIN execs
  BY <1>1, InWork DEF PairTypes
<1>3. Action = "close" /\ verdict \in Statuses
  BY DEF PairTypes, WorkTypes, Statuses, ActiveExecution
<1>4. IsOpening(execs[Exec].source)
  BY <1>2, <1>3 DEF PairTypes, ExecTypes, Action
<1>5. QED
  BY <1>1, <1>2, <1>3, <1>4

(* The verdict is written, or the source was closed before.                 *)
LEMMA SourceWritten ==
    ASSUME PairTypes, WriteSource, NEW src, src = execs[Exec].source
    PROVE  /\ ExecTypes' /\ SameRoles /\ RolesKept /\ StatusesKeptBut(src)
           /\ ClosesKeepStatus
           /\ seen = "closed" => UNCHANGED execs
           /\ seen # "closed" => execs'[src].status = verdict
<1>1. IsOpening(src) /\ verdict \in Statuses
  BY SourceIs DEF WriteSource, Returning
<1>2. CASE seen = "closed"
  <2>1. UNCHANGED execs
    BY <1>2 DEF WriteSource
  <2>2. QED
    BY <1>2, <2>1, SameExecs, SameIsKept DEF PairTypes, ClosesKeepStatus
<1>3. CASE seen # "closed"
  <2>1. SetStatus(src, verdict)
    BY <1>3 DEF WriteSource
  <2>2. PICK st : st = verdict
    OBVIOUS
  <2>3. QED
    BY <1>1, <1>3, <2>1, <2>2, OpeningRestated DEF PairTypes
<1>4. QED
  BY <1>2, <1>3

(* Types: the worker writes the opening of a close.                         *)
LEMMA WriteSourceKeepsTypes ==
    ASSUME PairTypes, WriteSource PROVE PairTypes'
<1>1. ExecTypes' /\ RolesKept
  BY SourceWritten
<1>2. /\ UNCHANGED <<legs, position, enabled, sweep, watch, plan, cooldown, lapses>>
      /\ Advance /\ pc = "writeSource"
  BY DEF WriteSource, rule
<1>3. /\ MoreLapses /\ cooldown' \in BOOLEAN /\ plan["execution"].pc = "idle"
  BY <1>2 DEF MoreLapses, LapseKinds, PairTypes, OtherTypes, WorkTypes
<1>4. QED
  BY <1>1, <1>2, <1>3, AdvanceTypes

(* Types: an opening that bought nothing is dropped.                        *)
LEMMA DropKeepsTypes ==
    ASSUME PairTypes, DropFailedOpening PROVE PairTypes'
<1>1. /\ UNCHANGED <<execs, legs, position, enabled, sweep, watch, plan, lapses>>
      /\ Advance /\ pc = "openFailed" /\ cooldown' = (cooldown \/ UsedUp(Exec))
  BY DEF DropFailedOpening, rule, CoolIfUsedUp
<1>2. ExecTypes' /\ RolesKept /\ MoreLapses
  BY <1>1, RowsStand
<1>3. cooldown' \in BOOLEAN /\ plan["execution"].pc = "idle"
  BY <1>1 DEF PairTypes, OtherTypes, WorkTypes, UsedUp
<1>4. QED
  BY <1>1, <1>2, <1>3, AdvanceTypes

(* A forced close is planned for the opening in hand.                       *)
LEMMA ForceCloseScheduled ==
    ASSUME PairTypes, ScheduleForceClose
    PROVE  /\ plan' \in [Planners -> Plans]
           /\ \A r \in Planners \ {"execution"} : plan'[r] = plan[r]
           /\ plan'["execution"].pc \in {"mark", "plan"}
           /\ plan'["execution"].source = Exec
           /\ Exec \in DOMAIN execs /\ IsOpening(Exec)
<1>1. pc = "openFailed"
  BY DEF ScheduleForceClose
<1>2. Exec \in DOMAIN execs /\ Exec \in Nat
  BY <1>1, InWork, ExecIs DEF PairTypes
<1>3. IsOpening(Exec)
  BY <1>1, <1>2 DEF PairTypes, WorkTypes, Action, IsOpening
<1>4. PICK v \in {"mark", "plan"} : plan' = [plan EXCEPT !["execution"] = Beginning(v, Exec)]
  BY DEF ScheduleForceClose, Beginning
<1>5. PICK y : y = Beginning(v, Exec)
  OBVIOUS
<1>6. v \in PlanSteps
  BY DEF PlanSteps, Making
<1>7. y \in Plans /\ y.pc = v /\ y.source = Exec
  BY <1>2, <1>5, <1>6, PlanBegins
<1>8. /\ plan' \in [Planners -> Plans] /\ plan'["execution"] = y
      /\ \A r \in Planners \ {"execution"} : plan'[r] = plan[r]
  BY <1>4, <1>5, <1>7, PlanReplaced DEF PairTypes, Planners
<1>9. QED
  BY <1>2, <1>3, <1>7, <1>8

(* Types: a forced close is planned.                                        *)
LEMMA ScheduleKeepsTypes ==
    ASSUME PairTypes, ScheduleForceClose PROVE PairTypes'
<1>1. /\ UNCHANGED <<execs, legs, position, cooldown, enabled, sweep, batch, seen, verdict,
                     watch>>
      /\ pc = "openFailed" /\ pc' = "forced" /\ MoreLapses
  BY DEF ScheduleForceClose, tables, rule, MoreLapses, LapseKinds, PairTypes, OtherTypes
<1>2. ExecTypes' /\ RolesKept /\ SameLegRoles
  BY <1>1, SameExecs, SameIsKept, SameLegs DEF PairTypes
<1>3. /\ plan' \in [Planners -> Plans]
      /\ \A r \in Planners \ {"execution"} : plan'[r] = plan[r]
      /\ plan'["execution"].pc \in {"mark", "plan"}
      /\ plan'["execution"].source = Exec
      /\ IsOpening(Exec)
  BY ForceCloseScheduled
<1>4. LegTypes' /\ OtherTypes' /\ BatchTypes'
  BY <1>1, <1>2, LegsStand, OtherStand, BatchKeepsOn DEF PairTypes, ThreadSteps
<1>5. Exec' = Exec /\ Action' = Action
  BY <1>1 DEF Action, Exec, Row, This
<1>6. WorkTypes'
  BY <1>1, <1>3, <1>5 DEF PairTypes, WorkTypes, Returning
<1>7. PlannerTypes("execution")'
  <2>1. IsOpening(plan["execution"].source)'
    BY <1>1, <1>3 DEF IsOpening
  <2>2. plan'["execution"].pc \in StepsOf("execution")
    BY <1>3 DEF StepsOf, Making
  <2>3. plan'["execution"].pc # "insert"
    BY <1>3
  <2>4. QED
    BY <2>1, <2>2, <2>3 DEF PlannerTypes
<1>8. PlanTypes'
  <2>1. \A r \in Planners \ {"execution"} : SidesOf(plan[r].exec)' = SidesOf(plan[r].exec)
    <3>1. TAKE r \in Planners \ {"execution"}
    <3>2. PICK x : x = plan[r].exec
      OBVIOUS
    <3>3. QED
      BY <1>2, <1>3, <3>2, SameSides
  <2>2. "execution" \in Planners
    BY DEF Planners
  <2>3. QED
    BY <1>1, <1>2, <1>3, <1>7, <2>1, <2>2, OnePlannerMoves DEF PairTypes
<1>9. QED
  BY <1>2, <1>4, <1>6, <1>8 DEF PairTypes

(* The forced close is through, and the thread goes on.                     *)
LEMMA ForcedEndsTypes ==
    ASSUME PairTypes, pc = "forced", Advance, ExecTypes', RolesKept,
           plan' = [plan EXCEPT !["execution"] = Idle],
           UNCHANGED <<legs, position, enabled, sweep, watch>>,
           cooldown' \in BOOLEAN, MoreLapses
    PROVE  PairTypes'
<1>1. SameLegRoles
  BY SameLegs
<1>2. /\ plan' \in [Planners -> Plans] /\ plan'["execution"] = Idle
      /\ \A r \in Planners \ {"execution"} : plan'[r] = plan[r]
      /\ "execution" \in Planners
  BY IdleIsPlan, PlanReplaced DEF PairTypes, Planners
<1>3. PlannerTypes("execution")'
  BY <1>2, IdleIsPlan DEF PlannerTypes, StepsOf, Making
<1>4. PlanTypes'
  <2>1. \A r \in Planners \ {"execution"} : SidesOf(plan[r].exec)' = SidesOf(plan[r].exec)
    <3>1. TAKE r \in Planners \ {"execution"}
    <3>2. PICK x : x = plan[r].exec
      OBVIOUS
    <3>3. QED
      BY <1>1, <1>2, <3>2, SameSides
  <2>2. QED
    BY <1>2, <1>3, <2>1, OnePlannerMoves DEF PairTypes
<1>5. LegTypes' /\ BatchTypes' /\ WorkTypes'
  BY <1>2, LegsStand, BatchAdvances, AdvancedWork, IdleIsPlan DEF PairTypes
<1>6. OtherTypes'
  BY DEF PairTypes, OtherTypes, MoreLapses, LapseKinds, IsOpening, RolesKept
<1>7. QED
  BY <1>4, <1>5, <1>6 DEF PairTypes

(* Types: the forced close has its opening marked.                          *)
LEMMA ForcedMarkKeepsTypes ==
    ASSUME PairTypes, ForceCloseMarked PROVE PairTypes'
<1>1. MarkClosing("execution") /\ "execution" \in Closers /\ pc = "forced" /\ Advance
      /\ plan' = [plan EXCEPT !["execution"] = Idle]
      /\ UNCHANGED <<legs, position, enabled, sweep, watch, cooldown>>
  BY DEF ForceCloseMarked, Closers, rule
<1>2. ExecTypes' /\ RolesKept /\ MoreLapses
  BY <1>1, Marked
<1>3. cooldown' \in BOOLEAN
  BY <1>1 DEF PairTypes, OtherTypes
<1>4. QED
  BY <1>1, <1>2, <1>3, ForcedEndsTypes

(* Types: the forced close finds nothing to plan.                           *)
LEMMA ForcedStopKeepsTypes ==
    ASSUME PairTypes, ForceCloseImpossible PROVE PairTypes'
<1>1. pc = "forced" /\ Advance /\ cooldown' = TRUE
      /\ plan' = [plan EXCEPT !["execution"] = Idle]
      /\ UNCHANGED <<execs, legs, position, enabled, sweep, watch>>
      /\ NotPlanned("execution", {})
  BY DEF ForceCloseImpossible, NothingToPlan, rule
<1>2. ExecTypes' /\ RolesKept /\ MoreLapses
  BY <1>1, SameExecs, SameIsKept, NotPlannedLapses DEF PairTypes
<1>3. cooldown' \in BOOLEAN
  BY <1>1
<1>4. QED
  BY <1>1, <1>2, <1>3, ForcedEndsTypes

-----------------------------------------------------------------------------
(* With no row there is nothing to keep.                                    *)
LEMMA TypesInitially == Init => PairTypes
<1> SUFFICES ASSUME Init PROVE PairTypes
  OBVIOUS
<1>1. ExecTypes /\ LegTypes
  BY BoundAssumption DEF Init, ExecTypes, LegTypes
<1>2. OtherTypes
  BY DEF Init, OtherTypes
<1>3. PlanTypes
  <2>1. plan \in [Planners -> Plans] /\ \A p \in Planners : plan[p].pc = "idle"
    BY IdleIsPlan DEF Init
  <2>2. \A p \in Planners : "idle" \in StepsOf(p)
    BY DEF StepsOf, Planners
  <2>3. QED
    BY <2>1, <2>2 DEF PlanTypes, PlannerTypes, Making
<1>4. BatchTypes
  BY DEF Init, BatchTypes, NoLegs
<1>5. WorkTypes
  BY IdleIsPlan DEF Init, WorkTypes, Returning, Planners
<1>6. QED
  BY <1>1, <1>2, <1>3, <1>4, <1>5 DEF PairTypes

(* Every step keeps the types.                                              *)
LEMMA StepsKeepTypes ==
    ASSUME PairTypes, Next PROVE PairTypes'
<1>1. /\ {"execution", "position", "web"} \subseteq Closers
      /\ {"execution", "position", "web", "opportunity"} \subseteq Planners
  BY DEF Closers, Planners
<1>2. CASE ExecutionThread
  BY <1>1, <1>2, ScanLegsKeepsTypes, ProcessLegKeepsTypes, UnderWayKeepsTypes, ClosedKeepsTypes,
     FailedKeepsTypes, ReadSourceKeepsTypes, WriteSourceKeepsTypes, DropKeepsTypes,
     ScheduleKeepsTypes, ForcedMarkKeepsTypes, ForcedStopKeepsTypes, CreateCloseKeepsTypes,
     InsertLegKeepsTypes DEF ExecutionThread
<1>3. CASE PositionThread
  BY <1>1, <1>3, ScanPositionsKeepsTypes, CheckCloseKeepsTypes, InspectKeepsTypes,
     ForgetKeepsTypes, ResolveKeepsTypes, PlanImpossibleKeepsTypes, MarkWatchedKeepsTypes,
     CreateCloseKeepsTypes, InsertLegKeepsTypes DEF PositionThread
<1>4. CASE OpportunityThread
  BY <1>1, <1>4, CreateOpenKeepsTypes, InsertLegKeepsTypes DEF OpportunityThread
<1>5. CASE WebProcess
  BY <1>1, <1>5, RequestCloseKeepsTypes, DisableRuleKeepsTypes, RequestImpossibleKeepsTypes,
     RequestMarkedKeepsTypes, ListKeepsTypes, CloseDisabledKeepsTypes, CreateCloseKeepsTypes,
     InsertLegKeepsTypes DEF WebProcess, WebRequest
<1>6. CASE Surroundings
  BY <1>6, CooldownKeepsTypes, WorkerDiesKeepsTypes, RequestDiesKeepsTypes DEF Surroundings
<1>7. QED
  BY <1>2, <1>3, <1>4, <1>5, <1>6 DEF Next

-----------------------------------------------------------------------------
(* What the rest of the invariant is made of, from one state to the next.   *)

(* Nobody begins, goes on or ends inserting.                                *)
SameInserts ==
    \A p \in Planners :
        plan[p].pc = "insert" \/ plan'[p].pc = "insert" => plan'[p] = plan[p]

(* The rows that are half inserted stay so while no planner moves.          *)
LEMMA InsertsStand ==
    ASSUME SameInserts
    PROVE  /\ \A e : HalfInserted(e)' = HalfInserted(e)
           /\ \A e, s, n : ToInsert(e, s, n)' = ToInsert(e, s, n)
  BY DEF SameInserts, HalfInserted, ToInsert

(* Planners that do not move insert what they did.                          *)
LEMMA SamePlanInserts == ASSUME UNCHANGED plan PROVE SameInserts
  BY DEF SameInserts

(* One planner moves that neither was nor is inserting.                     *)
LEMMA MoveInserts ==
    ASSUME NEW p, \A r \in Planners \ {p} : plan'[r] = plan[r],
           plan[p].pc # "insert", plan'[p].pc # "insert"
    PROVE  SameInserts
  BY DEF SameInserts

(* What is asked of the legs of one execution.                              *)
LEMMA LegsAnswer ==
    ASSUME SameLegRoles, NEW e,
           \A i \in DOMAIN legs : legs[i].exec = e => legs'[i] = legs[i]
    PROVE  /\ StatusesOf(e)' = StatusesOf(e)
           /\ InProgress(e)' = InProgress(e)
           /\ UsedUp(e)' = UsedUp(e)
           /\ HasBothLegs(e)' = HasBothLegs(e)
           /\ \A s, n : Unfilled(e, s, n)' = Unfilled(e, s, n)
<1>1. LegsOf(e)' = LegsOf(e) /\ HasBothLegs(e)' = HasBothLegs(e)
  BY SameSides
<1>2. \A i \in LegsOf(e) : legs'[i] = legs[i]
  BY DEF LegsOf
<1>3. StatusesOf(e)' = StatusesOf(e)
  BY <1>1, <1>2 DEF StatusesOf
<1>4. UsedUp(e)' = UsedUp(e)
  BY <1>1, <1>2 DEF UsedUp
<1>5. InProgress(e)' = InProgress(e)
  BY <1>3 DEF InProgress
<1>6. \A s, n : Unfilled(e, s, n)' = Unfilled(e, s, n)
  BY DEF Unfilled, SameLegRoles
<1>7. QED
  BY <1>1, <1>3, <1>4, <1>5, <1>6

(* Legs that nobody touches give the same answers.                          *)
LEMMA LegsSayTheSame ==
    ASSUME UNCHANGED legs
    PROVE  \A e : /\ StatusesOf(e)' = StatusesOf(e)
                  /\ InProgress(e)' = InProgress(e)
                  /\ UsedUp(e)' = UsedUp(e)
                  /\ HasBothLegs(e)' = HasBothLegs(e)
                  /\ \A s, n : Unfilled(e, s, n)' = Unfilled(e, s, n)
  BY SameLegs, LegsAnswer

(* Executions that keep their roles keep their closes.                      *)
LEMMA SameClosesOf ==
    ASSUME SameRoles
    PROVE  \A e : ClosesOf(e)' = ClosesOf(e) /\ IsOpening(e)' = IsOpening(e)
  BY DEF SameRoles, ClosesOf, IsOpening

(* The closes of an execution are closes.                                   *)
LEMMA ClosesAre ==
    ASSUME ExecTypes, NEW e \in DOMAIN execs, NEW c \in ClosesOf(e)
    PROVE  /\ c \in DOMAIN execs /\ execs[c].action = "close" /\ execs[c].source = e
           /\ IsOpening(e) /\ c # e
<1>1. c \in DOMAIN execs /\ execs[c].source = e
  BY DEF ClosesOf
<1>2. execs[c].action \in {"open", "close"} /\ e # 0
  BY <1>1, ExecIs DEF Executions
<1>3. execs[c].action = "close" /\ IsOpening(e)
  BY <1>1, <1>2 DEF ExecTypes, None
<1>4. QED
  BY <1>1, <1>3 DEF IsOpening

(* A close has no closes.                                                   *)
LEMMA CloseOfClose ==
    ASSUME ExecTypes, NEW e \in DOMAIN execs, execs[e].action = "close"
    PROVE  ClosesOf(e) = {}
  BY ClosesAre DEF IsOpening

(* The rows' part stands where no row is touched but a status.              *)
LEMMA CalmRowsStand ==
    ASSUME PairTypes, CalmRows, UNCHANGED legs, SameInserts, SameRoles
    PROVE  /\ CalmRows'
           /\ \A e : Ended(e)' = Ended(e)
<1>1. \A e : /\ InProgress(e)' = InProgress(e) /\ UsedUp(e)' = UsedUp(e)
             /\ HasBothLegs(e)' = HasBothLegs(e) /\ HalfInserted(e)' = HalfInserted(e)
             /\ ClosesOf(e)' = ClosesOf(e)
  BY LegsSayTheSame, InsertsStand, SameClosesOf
<1>2. \A e : Ended(e)' = Ended(e)
  BY <1>1 DEF Ended
<1>3. ActiveIsReachable'
  BY DEF CalmRows, ActiveIsReachable
<1>4. FailedIsUsedUp'
  BY <1>1, LegIs DEF CalmRows, FailedIsUsedUp, SameRoles, PairTypes
<1>5. OpeningsGetLegs'
  BY <1>1 DEF CalmRows, OpeningsGetLegs, SameRoles
<1>6. ClosedAfterEnd'
  BY <1>1, <1>2 DEF CalmRows, ClosedAfterEnd, SameRoles
<1>7. QED
  BY <1>2, <1>3, <1>4, <1>5, <1>6 DEF CalmRows

(* The batch loses legs, or stays.                                          *)
BatchShrinks ==
    /\ DOMAIN batch' \subseteq DOMAIN batch
    /\ \A i \in DOMAIN batch' : batch'[i] = batch[i]

(* The worker only drops legs from its list.                                *)
LEMMA AdvanceShrinks == ASSUME Advance PROVE BatchShrinks
  BY DEF Advance, Restrict, Remaining, BatchShrinks

(* A list that nobody touches has not grown.                                *)
LEMMA SameBatchShrinks == ASSUME UNCHANGED batch PROVE BatchShrinks
  BY DEF BatchShrinks

(* An execution is in a shorter list only if it was in the longer one.      *)
LEMMA ShrinkingBatch ==
    ASSUME BatchShrinks
    PROVE  \A e : InBatch(e)' => InBatch(e)
  BY DEF BatchShrinks, InBatch

(* The batch's part.                                                        *)
LEMMA CalmBatchStands ==
    ASSUME CalmBatch, BatchShrinks, SameRoles,
           \A e : Ended(e) => Ended(e)',
           \A e \in DOMAIN execs :
               execs[e].action = "open" /\ execs'[e].status \in {"open", "closed"} =>
                   execs'[e].status = execs[e].status \/ Settled(e)',
           \A c \in DOMAIN execs :
               execs[c].action = "close" =>
                   execs'[c].status = execs[c].status \/ InBatch(c),
           \A e \in watch' : e \in watch \/ Settled(e)',
           PairTypes
    PROVE  CalmBatch'
<1>1. \A e : InBatch(e)' => InBatch(e)
  BY ShrinkingBatch
<1>2. \A e : Settled(e) => Settled(e)'
  BY <1>1 DEF Settled
<1>3. OpenIsSettled'
  BY <1>2 DEF CalmBatch, OpenIsSettled, SameRoles
<1>4. WatchedIsSettled'
  BY <1>2 DEF CalmBatch, WatchedIsSettled
<1>5. ClosesComeLater'
  <2>1. ASSUME NEW i \in DOMAIN batch', NEW e, e = batch'[i].exec, NEW c \in ClosesOf(e)'
        PROVE  execs'[c].status = "pending" /\ ~InBatch(c)'
    <3>1. i \in DOMAIN batch /\ e = batch[i].exec /\ c \in ClosesOf(e)
      BY <2>1, SameClosesOf DEF BatchShrinks
    <3>2. execs[c].status = "pending" /\ ~InBatch(c)
      BY <3>1 DEF CalmBatch, ClosesComeLater
    <3>3. e \in DOMAIN execs
      BY <3>1, LegIs DEF PairTypes, BatchTypes, ReadTypes
    <3>4. c \in DOMAIN execs /\ execs[c].action = "close"
      BY <3>1, <3>3, ClosesAre DEF PairTypes
    <3>5. QED
      BY <1>1, <3>2, <3>4
  <2>2. QED
    BY <2>1 DEF ClosesComeLater
<1>6. QED
  BY <1>3, <1>4, <1>5 DEF CalmBatch

(* A close still covers what is held.                                       *)
LEMMA CoversStands ==
    ASSUME UNCHANGED <<legs, position>>, SameInserts, NEW c
    PROVE  Covers(c)' = Covers(c)
<1>1. \A s, n : Unfilled(c, s, n)' = Unfilled(c, s, n) /\ ToInsert(c, s, n)' = ToInsert(c, s, n)
  BY LegsSayTheSame, InsertsStand
<1>2. Held' = Held /\ \A s : position'[s] = position[s]
  BY DEF Held
<1>3. Covers(c) = \A s \in Held : ToInsert(c, s, position[s]) \/ Unfilled(c, s, position[s])
  BY DEF Covers
<1>4. Covers(c)' = \A s \in Held : ToInsert(c, s, position[s])' \/ Unfilled(c, s, position[s])'
  BY <1>2, Zenon DEF Covers
<1>5. ASSUME NEW s PROVE /\ ToInsert(c, s, position[s])' = ToInsert(c, s, position[s])
                         /\ Unfilled(c, s, position[s])' = Unfilled(c, s, position[s])
  <2>1. PICK n : n = position[s]
    OBVIOUS
  <2>2. n = position'[s]
    BY <1>2, <2>1
  <2>3. ToInsert(c, s, n)' = ToInsert(c, s, n) /\ Unfilled(c, s, n)' = Unfilled(c, s, n)
    BY <1>1
  <2>4. QED
    BY <2>1, <2>2, <2>3, Zenon
<1>6. QED
  BY <1>3, <1>4, <1>5, Zenon

(* An opening stays the keeper: it is open, or its status stays, or it is   *)
(* marked closing while a close of it is in flight.                         *)
LEMMA KeeperStands ==
    ASSUME PairTypes, NEW k \in DOMAIN execs, Keeper(k), SameRoles,
           UNCHANGED <<legs, position>>, SameInserts,
           \/ execs'[k].status = execs[k].status
           \/ execs'[k].status = "open"
           \/ execs'[k].status = "closing" /\ ClosesInFlight \cap ClosesOf(k) # {},
           Working(k) /\ ClosesOf(k) = {} => Live(k)',
           \/ execs'[k].status = "open"
           \/ \A c \in ClosesOf(k) : Unfinished(c) => Unfinished(c)',
           ClosesOf(k) # {} => GivenBack(k)'
    PROVE  Keeper(k)'
<1>1. IsOpening(k)' /\ ClosesOf(k)' = ClosesOf(k)
  BY SameClosesOf DEF Keeper
<1>2. ClosesOf(k) = {} => Live(k)'
  <2>1. InProgress(k)' = InProgress(k) /\ HalfInserted(k)' = HalfInserted(k)
    BY LegsSayTheSame, InsertsStand
  <2>2. ClosesOf(k) = {} => execs'[k].status = execs[k].status \/ execs'[k].status = "open"
    OBVIOUS
  <2>3. QED
    BY <2>1, <2>2 DEF Keeper, Live
<1>3. \A c \in ClosesOf(k) : Covers(c) => Covers(c)'
  BY CoversStands
<1>4. ASSUME ClosesOf(k) # {}
      PROVE  /\ execs'[k].status # "closed"
             /\ execs'[k].status = "open" \/ \E c \in ClosesOf(k) : Unfinished(c)'
  <2>1. /\ execs[k].status # "closed"
        /\ execs[k].status = "open" \/ \E c \in ClosesOf(k) : Unfinished(c)
    BY <1>4 DEF Keeper
  <2>2. CASE execs'[k].status = execs[k].status
    BY <2>1, <2>2
  <2>3. CASE execs'[k].status = "open"
    BY <2>3
  <2>4. CASE execs'[k].status = "closing" /\ ClosesInFlight \cap ClosesOf(k) # {}
    <3>1. PICK c \in ClosesOf(k) : c \in ClosesInFlight
      BY <2>4
    <3>2. Unfinished(c)
      BY <3>1 DEF Unfinished, ClosesInFlight
    <3>3. QED
      BY <2>4, <3>1, <3>2
  <2>5. QED
    BY <2>2, <2>3, <2>4
<1>5. QED
  BY <1>1, <1>2, <1>3, <1>4 DEF Keeper

(* The thread's part, in a step of another.                                 *)
LEMMA CalmWorkStands ==
    ASSUME PairTypes, CalmWork, UNCHANGED <<legs, pc, batch, seen>>, SameInserts, SameRoles,
           ClosesKeepStatus,
           pc = "status" /\ ClosesOf(Exec) = {} => execs'[Exec].status = execs[Exec].status
    PROVE  CalmWork'
<1>1. Exec' = Exec
  BY DEF Exec, Row, This
<1>2. ClosesInFlight' = ClosesInFlight
  BY DEF ClosesInFlight, ClosesKeepStatus, SameRoles
<1>3. \A e : InProgress(e)' = InProgress(e) /\ HalfInserted(e)' = HalfInserted(e)
             /\ ClosesOf(e)' = ClosesOf(e)
  BY LegsSayTheSame, InsertsStand, SameClosesOf
<1>4. InFlightMoves'
  BY <1>1, <1>2, <1>3 DEF CalmWork, InFlightMoves
<1>5. SeenIsStatus'
  <2>1. PICK x : x = Exec
    OBVIOUS
  <2>2. Exec' = x /\ ClosesOf(x)' = ClosesOf(x)
    BY <1>1, <1>3, <2>1
  <2>3. QED
    BY <2>1, <2>2 DEF CalmWork, SeenIsStatus
<1>6. QED
  BY <1>4, <1>5 DEF CalmWork

(* A step of a planner that does not insert, with at most one opening       *)
(* restated.                                                                *)
LEMMA PlannerCalm ==
    ASSUME PairTypes, Calm, UNCHANGED <<legs, position, pc, batch, seen, verdict>>,
           SameInserts, SameRoles, ClosesKeepStatus,
           \A e \in DOMAIN execs : execs[e].action = "open" =>
               \/ execs'[e].status = execs[e].status
               \/ execs'[e].status = "closing" /\ ClosesInFlight \cap ClosesOf(e) # {}
               \/ execs'[e].status = "closed" /\ e \in Spared /\ e \in watch,
           \A e \in watch' : e \in watch \/ Settled(e),
           Held = {} \/ Spared' \subseteq Spared
    PROVE  Calm'
<1>1. CalmRows' /\ \A e : Ended(e)' = Ended(e)
  BY CalmRowsStand DEF Calm
<1>2. \A e : Settled(e)' = Settled(e)
  BY <1>1 DEF Settled, InBatch
<1>3. CalmBatch'
  <2>1. BatchShrinks
    BY SameBatchShrinks
  <2>2. \A e \in DOMAIN execs :
           execs[e].action = "open" /\ execs'[e].status \in {"open", "closed"} =>
               execs'[e].status = execs[e].status \/ Settled(e)'
    BY <1>2 DEF Calm, CalmBatch, WatchedIsSettled
  <2>3. QED
    BY <1>1, <1>2, <2>1, <2>2, CalmBatchStands DEF Calm, ClosesKeepStatus
<1>4. CalmWork'
  <2>1. ASSUME pc = "status", ClosesOf(Exec) = {}
        PROVE  execs'[Exec].status = execs[Exec].status
    <3>1. Exec \in DOMAIN execs /\ InBatch(Exec)
      <4>1. Exec \in DOMAIN execs /\ This \in DOMAIN batch /\ batch[This].exec = Exec
        BY <2>1, InWork DEF PairTypes, Exec, Row
      <4>2. QED
        BY <4>1 DEF InBatch
    <3>2. CASE execs[Exec].action = "open"
      <4>1. Exec \notin watch
        BY <3>1 DEF Calm, CalmBatch, WatchedIsSettled, Settled
      <4>2. QED
        BY <2>1, <3>1, <3>2, <4>1
    <3>3. CASE execs[Exec].action # "open"
      BY <3>1, <3>3, ExecIs DEF ClosesKeepStatus, Executions, PairTypes
    <3>4. QED
      BY <3>2, <3>3
  <2>2. QED
    BY <2>1, CalmWorkStands DEF Calm
<1>5. PositionIsKept'
  <2>1. CASE Held = {}
    BY <2>1 DEF PositionIsKept, Held
  <2>2. CASE Held # {} /\ Spared' \subseteq Spared
    <3>1. PICK k \in DOMAIN execs \ Spared : Keeper(k)
      BY <2>2 DEF Calm, PositionIsKept
    <3>2. Exec' = Exec /\ (pc = "status" => Exec' = Exec)
      BY DEF Exec, Row, This
    <3>3. execs[k].action = "open"
      BY <3>1 DEF Keeper, IsOpening
    <3>4. \/ execs'[k].status = execs[k].status
          \/ execs'[k].status = "open"
          \/ execs'[k].status = "closing" /\ ClosesInFlight \cap ClosesOf(k) # {}
      BY <3>1, <3>3
    <3>5. Working(k) => Live(k)'
      BY <3>2 DEF Working, Live
    <3>6. \A c \in ClosesOf(k) : Unfinished(c) => Unfinished(c)'
      <4>1. TAKE c \in ClosesOf(k)
      <4>2. c \in DOMAIN execs /\ execs[c].action = "close"
        BY <3>1, ClosesAre DEF PairTypes
      <4>3. QED
        BY <3>2, <4>2 DEF Unfinished, ClosesKeepStatus, Returning
    <3>7. ClosesOf(k) # {} => GivenBack(k)'
      <4>1. Returning => Exec \in DOMAIN execs
        BY SourceIs
      <4>2. Returning => execs'[Exec'].source = execs[Exec].source
        BY <3>2, <4>1 DEF SameRoles
      <4>3. Returning' = Returning
        BY DEF Returning
      <4>4. ClosesOf(k) # {} => GivenBack(k)
        BY <3>1 DEF Keeper
      <4>5. GivenBack(k) => GivenBack(k)'
        BY <4>2, <4>3, Zenon DEF GivenBack
      <4>6. QED
        BY <4>4, <4>5
    <3>8. Keeper(k)'
      BY <3>1, <3>4, <3>5, <3>6, <3>7, KeeperStands
    <3>9. QED
      BY <2>2, <3>1, <3>8 DEF PositionIsKept, SameRoles
  <2>3. QED
    BY <2>1, <2>2
<1>6. QED
  BY <1>1, <1>3, <1>4, <1>5 DEF Calm

-----------------------------------------------------------------------------
(* The steps of the position thread, of the web and of the surroundings     *)
(* keep what holds beyond the types.                                        *)

(* A step that touches no row.                                              *)
LEMMA RowsUntouched ==
    ASSUME PairTypes, Calm, UNCHANGED <<execs, legs, position, worker>>, SameInserts,
           \A e \in watch' : e \in watch \/ Settled(e),
           Held = {} \/ Spared' \subseteq Spared
    PROVE  Calm'
<1>1. SameRoles /\ ClosesKeepStatus
  BY SameExecs DEF PairTypes, ClosesKeepStatus
<1>2. QED
  BY <1>1, PlannerCalm DEF worker

(* The position thread goes to its next execution.                          *)
LEMMA WatchGoesOn ==
    ASSUME PairTypes, NextWatched, plan["position"].pc # "insert"
    PROVE  SameInserts /\ watch' \subseteq watch /\ Spared' = {}
<1>1. /\ plan'["position"] = Idle /\ \A r \in Planners \ {"position"} : plan'[r] = plan[r]
  BY IdleIsPlan, PlanReplaced DEF NextWatched, PairTypes, Planners
<1>2. SameInserts
  BY <1>1, IdleIsPlan, MoveInserts
<1>3. QED
  BY <1>1, <1>2, IdleIsPlan DEF NextWatched, Spared

(* The position thread goes on with the same execution.                     *)
LEMMA WatchStays ==
    ASSUME PairTypes, NEW state \in {"inspect", "forget", "recheck", "plan"},
           GoOn(state), watch # {}, plan["position"].pc # "insert"
    PROVE  SameInserts /\ watch' = watch /\ (state # "forget" => Spared' = {})
<1>1. IsOpening(Watched) /\ Watched \in Nat
  BY WatchedIsOpening DEF PairTypes
<1>2. PICK y : y = Beginning(state, Watched)
  OBVIOUS
<1>3. state \in PlanSteps /\ state # "insert"
  BY DEF PlanSteps, Making
<1>4. y \in Plans /\ y.pc = state
  BY <1>1, <1>2, <1>3, PlanBegins
<1>5. /\ plan'["position"] = y /\ \A r \in Planners \ {"position"} : plan'[r] = plan[r]
  BY <1>2, <1>4, PlanReplaced DEF GoOn, Beginning, PairTypes, Planners
<1>6. SameInserts
  BY <1>3, <1>4, <1>5, MoveInserts
<1>7. QED
  BY <1>4, <1>5, <1>6 DEF GoOn, Spared

(* Order: the position thread lists the open executions.                    *)
LEMMA ScanPositionsCalm ==
    ASSUME PairTypes, Calm, ScanPositions PROVE Calm'
<1>1. Aside /\ UNCHANGED <<execs, plan>> /\ watch' = OpenExecutions
      /\ plan["position"].pc = "idle"
  BY DEF ScanPositions, Aside, tables, rule, worker, Watching
<1>2. \A e \in watch' : Settled(e)
  BY <1>1 DEF Calm, CalmBatch, OpenIsSettled, OpenExecutions
<1>3. Spared' = {}
  BY <1>1 DEF Spared
<1>4. QED
  BY <1>1, <1>2, <1>3, SamePlanInserts, RowsUntouched DEF Aside, worker

(* Order: the position thread finds a close on its way, or none.            *)
LEMMA CheckCloseCalm ==
    ASSUME PairTypes, Calm, CheckClose PROVE Calm'
<1>1. Aside /\ UNCHANGED execs /\ watch # {} /\ plan["position"].pc = "idle"
  BY DEF CheckClose, Aside, tables, rule, worker, Watching
<1>2. NextWatched \/ GoOn("inspect")
  BY DEF CheckClose
<1>3. SameInserts /\ watch' \subseteq watch /\ Spared' = {}
  BY <1>1, <1>2, WatchGoesOn, WatchStays
<1>4. QED
  BY <1>1, <1>3, RowsUntouched DEF Aside, worker

(* The execution in view has its two legs: it is written off only when      *)
(* nothing is held.                                                         *)
LEMMA InspectCalm ==
    ASSUME PairTypes, Calm, InspectPositions PROVE Calm'
<1>1. Aside /\ UNCHANGED execs /\ watch # {} /\ plan["position"].pc = "inspect"
  BY AtWatched DEF InspectPositions, Aside, tables, rule, worker, Watching
<1>2. HasBothLegs(Watched)
  BY <1>1, WatchedIsOpening
     DEF PairTypes, Calm, CalmBatch, WatchedIsSettled, Settled, Ended
<1>3. GoOn("plan") \/ GoOn("recheck") \/ (GoOn("forget") /\ Held = {})
  BY <1>2 DEF InspectPositions
<1>4. SameInserts /\ watch' = watch /\ (Held = {} \/ Spared' = {})
  BY <1>1, <1>3, WatchStays
<1>5. QED
  BY <1>1, <1>4, RowsUntouched DEF Aside, worker

(* Order: an opening with nothing left is written off.                      *)
LEMMA ForgetCalm ==
    ASSUME PairTypes, Calm, Forget PROVE Calm'
<1>1. Aside /\ watch # {} /\ NextWatched /\ plan["position"].pc = "forget"
  BY AtWatched DEF Forget, Aside, rule, worker, Watching
<1>2. IsOpening(Watched) /\ Watched \in watch
      /\ "closed" \in Statuses /\ SetStatus(Watched, "closed")
  BY <1>1, WatchedIsOpening DEF PairTypes, Statuses, Forget
<1>3. PICK w : w = Watched
  OBVIOUS
<1>4. SameRoles /\ ClosesKeepStatus /\ StatusesKeptBut(w) /\ execs'[w].status = "closed"
  BY <1>2, <1>3, OpeningRestated DEF PairTypes
<1>5. w \in Spared /\ w \in watch
  BY <1>1, <1>2, <1>3 DEF Spared
<1>6. SameInserts /\ watch' \subseteq watch /\ Spared' = {}
  BY <1>1, WatchGoesOn
<1>7. QED
  BY <1>1, <1>4, <1>5, <1>6, PlannerCalm DEF Aside, StatusesKeptBut

(* Order: a reason to close is found, or none.                              *)
LEMMA ResolveCalm ==
    ASSUME PairTypes, Calm, ResolveCloseReason PROVE Calm'
<1>1. Aside /\ UNCHANGED execs /\ watch # {} /\ plan["position"].pc = "recheck"
  BY AtWatched DEF ResolveCloseReason, Aside, tables, rule, worker, Watching
<1>2. NextWatched \/ GoOn("plan")
  BY DEF ResolveCloseReason
<1>3. SameInserts /\ watch' \subseteq watch /\ Spared' = {}
  BY <1>1, <1>2, WatchGoesOn, WatchStays
<1>4. QED
  BY <1>1, <1>3, RowsUntouched DEF Aside, worker

(* Order: the position thread finds no close to plan.                       *)
LEMMA PlanImpossibleCalm ==
    ASSUME PairTypes, Calm, PositionPlanImpossible PROVE Calm'
<1>1. Aside /\ UNCHANGED execs /\ NextWatched /\ plan["position"].pc = "plan"
  BY DEF PositionPlanImpossible, NothingToPlan, Aside, tables, rule, worker
<1>2. SameInserts /\ watch' \subseteq watch /\ Spared' = {}
  BY <1>1, WatchGoesOn
<1>3. QED
  BY <1>1, <1>2, RowsUntouched DEF Aside, worker

(* The source marked closing has a close in flight, or the mark is late.    *)
LEMMA MarkedInTime ==
    ASSUME PairTypes, NEW p \in Closers, MarkClosing(p), lapses' = {}
    PROVE  \A e \in DOMAIN execs : execs[e].action = "open" =>
               \/ execs'[e].status = execs[e].status
               \/ execs'[e].status = "closing" /\ ClosesInFlight \cap ClosesOf(e) # {}
<1>1. PICK q : q = plan[p].source
  OBVIOUS
<1>2. StatusesKeptBut(q) /\ execs'[q].status = "closing"
  BY <1>1, Marked
<1>3. ClosesInFlight \cap ClosesOf(q) # {}
  BY <1>1 DEF MarkClosing
<1>4. QED
  BY <1>2, <1>3 DEF StatusesKeptBut

(* Order: the position thread marks the opening as closing.                 *)
LEMMA MarkWatchedCalm ==
    ASSUME PairTypes, Calm, MarkWatched, lapses' = {} PROVE Calm'
<1>1. Aside /\ NextWatched /\ MarkClosing("position") /\ "position" \in Closers
  BY DEF MarkWatched, Aside, rule, worker, Closers
<1>2. SameRoles /\ ClosesKeepStatus /\ plan["position"].pc = "mark"
  BY <1>1, Marked
<1>3. SameInserts /\ watch' \subseteq watch /\ Spared' = {}
  BY <1>1, <1>2, WatchGoesOn
<1>4. QED
  BY <1>1, <1>2, <1>3, MarkedInTime, PlannerCalm DEF Aside
(* The web process goes on.                                                 *)
LEMMA WebCalm ==
    ASSUME PairTypes, Calm, UNCHANGED <<execs, legs, position, worker, watch>>,
           NEW y, plan' = [plan EXCEPT !["web"] = y],
           plan["web"].pc # "insert", y.pc # "insert"
    PROVE  Calm'
<1>1. "web" \in Planners /\ "position" \in Planners /\ DOMAIN plan = Planners
  BY DEF PairTypes, PlanTypes, Planners
<1>2. plan'["web"] = y /\ \A r \in Planners \ {"web"} : plan'[r] = plan[r]
  BY <1>1
<1>3. SameInserts
  BY <1>2, MoveInserts
<1>4. Spared' = Spared
  BY <1>1, <1>2 DEF Spared, Watched
<1>5. QED
  BY <1>3, <1>4, RowsUntouched

(* Order: the web asks to close an opening.                                 *)
LEMMA RequestCloseCalm ==
    ASSUME PairTypes, Calm, NEW e \in DOMAIN execs, RequestClose(e) PROVE Calm'
<1>1. UNCHANGED <<execs, legs, position, worker, watch>> /\ plan["web"].pc = "idle"
  BY DEF RequestClose, tables
<1>2. CASE UNCHANGED plan
  <2>1. Spared' = Spared
    BY <1>1, <1>2 DEF Spared, Watched
  <2>2. QED
    BY <1>1, <1>2, <2>1, SamePlanInserts, RowsUntouched
<1>3. CASE ~UNCHANGED plan
  <2>1. PICK v \in {"mark", "plan"} : plan' = [plan EXCEPT !["web"] = Beginning(v, e)]
    BY <1>3 DEF RequestClose, Beginning
  <2>2. PICK y : y = Beginning(v, e)
    OBVIOUS
  <2>3. v \in PlanSteps /\ e \in Nat
    BY ExecIs DEF PlanSteps, Making, PairTypes
  <2>4. y.pc # "insert"
    BY <2>2, <2>3, PlanBegins
  <2>5. plan' = [plan EXCEPT !["web"] = y]
    BY <2>1, <2>2
  <2>6. QED
    BY <1>1, <2>4, <2>5, WebCalm
<1>4. QED
  BY <1>2, <1>3

(* The web's request is answered.                                           *)
LEMMA RequestAnswered ==
    ASSUME PairTypes, NextRequested, UNCHANGED watch, plan["web"].pc # "insert"
    PROVE  /\ SameInserts /\ Spared' = Spared
           /\ \E y : y.pc # "insert" /\ plan' = [plan EXCEPT !["web"] = y]
<1>1. PICK v \in {"idle", "sweep"} : plan' = [plan EXCEPT !["web"] = [Idle EXCEPT !.pc = v]]
  BY DEF NextRequested
<1>2. PICK y : y = [Idle EXCEPT !.pc = v]
  OBVIOUS
<1>3. y.pc # "insert" /\ plan' = [plan EXCEPT !["web"] = y]
  BY <1>1, <1>2, WebRests
<1>4. "web" \in Planners /\ "position" \in Planners /\ DOMAIN plan = Planners
  BY DEF PairTypes, PlanTypes, Planners
<1>5. plan'["web"] = y /\ \A r \in Planners \ {"web"} : plan'[r] = plan[r]
  BY <1>3, <1>4
<1>6. SameInserts
  BY <1>3, <1>5, MoveInserts
<1>7. Spared' = Spared
  BY <1>4, <1>5 DEF Spared, Watched
<1>8. QED
  BY <1>3, <1>6, <1>7

(* Order: the web finds no close to plan.                                   *)
LEMMA RequestImpossibleCalm ==
    ASSUME PairTypes, Calm, RequestImpossible PROVE Calm'
<1>1. UNCHANGED <<execs, legs, position, worker, watch>> /\ NextRequested
      /\ plan["web"].pc = "plan"
  BY DEF RequestImpossible, NothingToPlan, tables
<1>2. SameInserts /\ Spared' = Spared
  BY <1>1, RequestAnswered
<1>3. QED
  BY <1>1, <1>2, RowsUntouched

(* Order: the web marks the opening as closing.                             *)
LEMMA RequestMarkedCalm ==
    ASSUME PairTypes, Calm, RequestMarked, lapses' = {} PROVE Calm'
<1>1. UNCHANGED <<legs, position, worker, watch>> /\ NextRequested /\ MarkClosing("web")
      /\ "web" \in Closers
  BY DEF RequestMarked, Closers
<1>2. SameRoles /\ ClosesKeepStatus /\ plan["web"].pc = "mark"
  BY <1>1, Marked
<1>3. SameInserts /\ Spared' = Spared
  BY <1>1, <1>2, RequestAnswered
<1>4. QED
  BY <1>1, <1>2, <1>3, MarkedInTime, PlannerCalm DEF worker

(* Order: the sweep lists the open executions.                              *)
LEMMA ListCalm ==
    ASSUME PairTypes, Calm, ListOpenExecutions PROVE Calm'
<1>1. UNCHANGED <<execs, legs, position, worker, watch>> /\ plan["web"].pc = "list"
  BY DEF ListOpenExecutions, tables
<1>2. PICK v \in {"idle", "sweep"} : plan' = [plan EXCEPT !["web"].pc = v]
  BY DEF ListOpenExecutions
<1>3. PICK y : y = [plan["web"] EXCEPT !.pc = v]
  OBVIOUS
<1>4. plan' = [plan EXCEPT !["web"] = y]
  BY <1>2, <1>3
<1>5. plan["web"] \in Plans /\ v \in PlanSteps
  BY DEF PairTypes, PlanTypes, Planners, PlanSteps
<1>6. y.pc = v
  BY <1>3, <1>5, PlanFields, PlanStep
<1>7. QED
  BY <1>1, <1>4, <1>6, WebCalm

(* Order: the rule is disabled.                                             *)
LEMMA DisableRuleCalm ==
    ASSUME PairTypes, Calm, DisableRule PROVE Calm'
<1>1. UNCHANGED <<execs, legs, position, worker, watch>> /\ plan["web"].pc = "idle"
  BY DEF DisableRule, tables
<1>2. CASE UNCHANGED plan
  <2>1. Spared' = Spared
    BY <1>1, <1>2 DEF Spared, Watched
  <2>2. QED
    BY <1>1, <1>2, <2>1, SamePlanInserts, RowsUntouched
<1>3. CASE plan' = [plan EXCEPT !["web"].pc = "list"]
  <2>1. PICK y : y = [plan["web"] EXCEPT !.pc = "list"]
    OBVIOUS
  <2>2. plan' = [plan EXCEPT !["web"] = y]
    BY <1>3, <2>1
  <2>3. plan["web"] \in Plans /\ "list" \in PlanSteps
    BY DEF PairTypes, PlanTypes, Planners, PlanSteps
  <2>4. y.pc = "list"
    BY <2>1, <2>3, PlanFields, PlanStep
  <2>5. QED
    BY <1>1, <2>2, <2>4, WebCalm
<1>4. QED
  BY <1>2, <1>3 DEF DisableRule

(* Order: the sweep closes an execution of a disabled rule.                 *)
LEMMA CloseDisabledCalm ==
    ASSUME PairTypes, Calm, NEW e \in sweep, CloseDisabled(e) PROVE Calm'
<1>1. UNCHANGED <<execs, legs, position, worker, watch>> /\ plan["web"].pc = "sweep"
  BY DEF CloseDisabled, tables
<1>2. CASE HasOpenClose
  <2>1. PICK v \in {"idle", "sweep"} : plan' = [plan EXCEPT !["web"] = [Idle EXCEPT !.pc = v]]
    BY <1>2 DEF CloseDisabled
  <2>2. PICK y : y = [Idle EXCEPT !.pc = v]
    OBVIOUS
  <2>3. y.pc # "insert" /\ plan' = [plan EXCEPT !["web"] = y]
    BY <2>1, <2>2, WebRests
  <2>4. QED
    BY <1>1, <2>3, WebCalm
<1>3. CASE ~HasOpenClose
  <2>1. plan' = [plan EXCEPT !["web"] = Beginning("plan", e)]
    BY <1>3 DEF CloseDisabled, Beginning
  <2>2. PICK y : y = Beginning("plan", e)
    OBVIOUS
  <2>3. e \in Nat /\ "plan" \in PlanSteps
    BY ExecIs DEF PairTypes, OtherTypes, IsOpening, PlanSteps, Making
  <2>4. y.pc = "plan"
    BY <2>2, <2>3, PlanBegins
  <2>5. plan' = [plan EXCEPT !["web"] = y]
    BY <2>1, <2>2
  <2>6. QED
    BY <1>1, <2>4, <2>5, WebCalm
<1>4. QED
  BY <1>2, <1>3

(* Order: the cooldown expires.                                             *)
LEMMA CooldownCalm ==
    ASSUME PairTypes, Calm, CooldownExpires PROVE Calm'
<1>1. UNCHANGED <<execs, legs, position, worker, watch, plan>>
  BY DEF CooldownExpires
<1>2. Spared' = Spared
  BY <1>1 DEF Spared, Watched
<1>3. QED
  BY <1>1, <1>2, SamePlanInserts, RowsUntouched

(* Order: the web process dies.                                             *)
LEMMA RequestDiesCalm ==
    ASSUME PairTypes, Calm, RequestDies, lapses' = {} PROVE Calm'
<1>1. UNCHANGED <<execs, legs, position, worker, watch>> /\ plan["web"].pc # "insert"
  BY DEF RequestDies, HalfWritten, tables
<1>2. plan' = [p \in Planners |-> IF p \in {"web"} THEN Idle ELSE plan[p]]
  BY DEF RequestDies, Crashed
<1>3. plan'["web"] = Idle /\ \A r \in Planners \ {"web"} : plan'[r] = plan[r]
  BY <1>2 DEF Planners
<1>4. SameInserts
  BY <1>1, <1>3, IdleIsPlan, MoveInserts
<1>5. Spared' = Spared
  BY <1>1, <1>3 DEF Spared, Watched, Planners
<1>6. QED
  BY <1>1, <1>4, <1>5, RowsUntouched

(* The execution thread rests, or is at the start of a leg, before and      *)
(* after.                                                                   *)
LEMMA ThreadAtLegs ==
    ASSUME PairTypes, Calm, UNCHANGED <<execs, legs, position>>, SameInserts,
           pc \in {"idle", "leg"}, pc' \in {"idle", "leg"}, Spared' \subseteq Spared
    PROVE  /\ CalmRows' /\ CalmWork' /\ PositionIsKept'
           /\ \A e : Ended(e)' = Ended(e)
<1>1. SameRoles
  BY SameExecs DEF PairTypes
<1>2. CalmRows' /\ \A e : Ended(e)' = Ended(e)
  BY <1>1, CalmRowsStand DEF Calm
<1>3. CalmWork'
  <2>1. ClosesInFlight' = ClosesInFlight
    BY DEF ClosesInFlight
  <2>2. \A e : InProgress(e)' = InProgress(e) /\ HalfInserted(e)' = HalfInserted(e)
    BY LegsSayTheSame, InsertsStand
  <2>3. InFlightMoves'
    BY <2>1, <2>2 DEF Calm, CalmWork, InFlightMoves
  <2>4. SeenIsStatus'
    BY DEF SeenIsStatus
  <2>5. QED
    BY <2>3, <2>4 DEF CalmWork
<1>4. PositionIsKept'
  <2> SUFFICES ASSUME Held' # {} PROVE \E e \in DOMAIN execs' \ Spared' : Keeper(e)'
    BY DEF PositionIsKept
  <2>1. Held # {}
    BY DEF Held
  <2>2. PICK k \in DOMAIN execs \ Spared : Keeper(k)
    BY <2>1 DEF Calm, PositionIsKept
  <2>3. ~Working(k)
    BY DEF Working
  <2>4. \A c \in ClosesOf(k) : Unfinished(c) => Unfinished(c)'
    BY DEF Unfinished, Returning
  <2>5. GivenBack(k)'
    BY DEF GivenBack, Returning
  <2>6. Keeper(k)'
    BY <1>1, <2>2, <2>3, <2>4, <2>5, KeeperStands
  <2>7. QED
    BY <2>2, <2>6
<1>5. QED
  BY <1>2, <1>3, <1>4

(* Order: the worker dies.                                                  *)
LEMMA WorkerDiesCalm ==
    ASSUME PairTypes, Calm, WorkerDies, lapses' = {} PROVE Calm'
<1>1. /\ UNCHANGED <<execs, legs, position>> /\ pc \in {"idle", "leg"} /\ pc' = "idle"
      /\ batch' = NoLegs /\ watch' = {}
      /\ \A p \in Planners \ {"web"} : plan[p].pc # "insert"
  BY DEF WorkerDies, HalfWritten, PairTypes, BatchTypes, ThreadSteps
<1>2. plan' = [p \in Planners |-> IF p \in Planners \ {"web"} THEN Idle ELSE plan[p]]
  BY DEF WorkerDies, Crashed
<1>3. plan'["web"] = plan["web"] /\ \A r \in Planners \ {"web"} : plan'[r] = Idle
  BY <1>2 DEF Planners
<1>4. SameInserts
  BY <1>1, <1>3, IdleIsPlan DEF SameInserts
<1>5. Spared' = {}
  BY <1>3, IdleIsPlan DEF Spared, Planners
<1>6. CalmRows' /\ CalmWork' /\ PositionIsKept' /\ \A e : Ended(e)' = Ended(e)
  BY <1>1, <1>4, <1>5, ThreadAtLegs
<1>7. CalmBatch'
  <2>1. BatchShrinks
    BY <1>1 DEF BatchShrinks, NoLegs
  <2>2. SameRoles /\ \A e \in DOMAIN execs : execs'[e].status = execs[e].status
    BY <1>1, SameExecs DEF PairTypes
  <2>3. QED
    BY <1>1, <1>6, <2>1, <2>2, CalmBatchStands DEF Calm
<1>8. QED
  BY <1>6, <1>7 DEF Calm

(* An execution is in progress when a leg of it is.                         *)
LEMMA InProgressMeans ==
    ASSUME NEW e
    PROVE  InProgress(e) <=>
               \E i \in DOMAIN legs : legs[i].exec = e /\ legs[i].status \in ActiveLeg
  BY DEF InProgress, StatusesOf, LegsOf

(* Order: the worker lists the active legs.                                 *)
LEMMA ScanLegsCalm ==
    ASSUME PairTypes, Calm, ScanLegs PROVE Calm'
<1>1. /\ UNCHANGED <<execs, legs, position, watch, plan>> /\ pc = "idle" /\ pc' = "leg"
      /\ batch' = Restrict(legs, ActiveLegIds)
  BY DEF ScanLegs, tables
<1>2. Spared' = Spared
  BY <1>1 DEF Spared, Watched
<1>3. CalmRows' /\ CalmWork' /\ PositionIsKept' /\ \A e : Ended(e)' = Ended(e)
  BY <1>1, <1>2, SamePlanInserts, ThreadAtLegs
<1>4. \A i \in DOMAIN batch' :
         /\ i \in DOMAIN legs /\ batch'[i] = legs[i] /\ legs[i].status \in ActiveLeg
  BY <1>1 DEF Restrict, ActiveLegIds
<1>5. \A i \in DOMAIN batch' : ~Ended(batch'[i].exec)
  BY <1>4, InProgressMeans DEF Ended
<1>6. \A e : Settled(e) => Settled(e)'
  BY <1>3, <1>5 DEF Settled, InBatch
<1>7. OpenIsSettled' /\ WatchedIsSettled'
  BY <1>1, <1>6 DEF Calm, CalmBatch, OpenIsSettled, WatchedIsSettled
<1>8. ClosesComeLater'
  <2>1. ASSUME NEW i \in DOMAIN batch', NEW e, e = batch'[i].exec PROVE ClosesOf(e)' = {}
    <3>1. e \in DOMAIN execs'
      BY <1>1, <1>4, <2>1, LegIs DEF PairTypes
    <3>2. ~Ended(e)'
      BY <1>3, <1>5, <2>1
    <3>3. QED
      BY <1>3, <3>1, <3>2 DEF CalmRows, ClosedAfterEnd
  <2>2. QED
    BY <2>1 DEF ClosesComeLater
<1>9. QED
  BY <1>3, <1>7, <1>8 DEF Calm, CalmBatch

-----------------------------------------------------------------------------
(* The steps that insert rows.                                              *)

(* Planner p has created execution n and goes on to its legs.               *)
Begun(p, n, act, src) ==
    /\ DOMAIN execs' = DOMAIN execs \cup {n} /\ n \notin DOMAIN execs /\ n \in Nat \ {0}
    /\ RolesKept /\ \A e \in DOMAIN execs : execs'[e].status = execs[e].status
    /\ execs'[n].action = act /\ execs'[n].status = "pending" /\ execs'[n].source = src
    /\ p \in Planners /\ plan[p].pc # "insert" /\ plan'[p].pc = "insert" /\ plan'[p].exec = n
    /\ \A r \in Planners \ {p} : plan'[r] = plan[r]
    /\ UNCHANGED <<legs, position, worker, watch>>

(* A close begins: it is to close all that is held, of an opening whose     *)
(* legs have ended.                                                         *)
LEMMA CloseBegins ==
    ASSUME PairTypes, NEW p \in Closers, CreateClose(p), lapses' = {}
    PROVE  /\ Begun(p, Len(execs) + 1, "close", plan[p].source)
           /\ plan'[p].todo = Held /\ plan'[p].qty = position
           /\ IsOpening(plan[p].source) /\ plan[p].pc = "plan"
           /\ Ended(plan[p].source)
<1>0. PICK n : n = Len(execs) + 1
  OBVIOUS
<1>1. p \in Planners /\ p # "opportunity" /\ n \in Nat \ {0}
  BY <1>0, ExecCount DEF Planners, Closers, PairTypes
<1>2. /\ RolesKept /\ (\A e : StatusesKeptBut(e))
      /\ DOMAIN execs' = DOMAIN execs \cup {n} /\ n \notin DOMAIN execs
      /\ execs'[n] = [action |-> "close", status |-> "pending",
                      source |-> plan[p].source, by |-> p]
      /\ IsOpening(plan[p].source)
  BY <1>0, CloseCreated
<1>3. PICK sides \in Plannable \ {{}} :
          /\ NotPlanned(p, sides)
          /\ plan' = [plan EXCEPT ![p].pc = "insert", ![p].todo = sides,
                                  ![p].qty = position, ![p].exec = n]
  BY <1>0 DEF CreateClose
<1>4. sides = Held /\ ~InProgress(plan[p].source)
  BY <1>3 DEF NotPlanned
<1>5. position \in [Sides -> Nat] /\ sides \in SUBSET Sides
  BY <1>4 DEF PairTypes, OtherTypes, Held
<1>6. PICK x : x = plan[p]
  OBVIOUS
<1>7. PICK q : q = position
  OBVIOUS
<1>8. PICK y : y = Inserting(x, sides, q, n)
  OBVIOUS
<1>9. plan' = [plan EXCEPT ![p] = y]
  BY <1>1, <1>3, <1>6, <1>7, <1>8 DEF PairTypes, PlanTypes, Inserting
<1>10. x \in Plans
  BY <1>1, <1>6, PlanIs DEF PairTypes
<1>11. y \in Plans /\ y.pc = "insert" /\ y.todo = sides /\ y.qty = q /\ y.exec = n
  <2>1. q \in [Sides -> Nat] /\ n \in Nat
    BY <1>1, <1>5, <1>7
  <2>2. QED
    BY <1>5, <1>8, <1>10, <2>1, PlanMade
<1>12. plan'[p] = y /\ \A r \in Planners \ {p} : plan'[r] = plan[r]
  BY <1>1, <1>9, <1>11, PlanReplaced DEF PairTypes
<1>13. UNCHANGED <<legs, position, worker, watch>> /\ plan[p].pc = "plan"
       /\ HasBothLegs(plan[p].source)
  BY DEF CreateClose
<1>14. \A e \in DOMAIN execs : execs'[e].status = execs[e].status
  <2>1. StatusesKeptBut(n)
    BY <1>2
  <2>2. QED
    BY <1>2, <2>1 DEF StatusesKeptBut
<1>15. ~HalfInserted(plan[p].source)
  <2> SUFFICES ASSUME NEW r \in Planners, plan[r].pc = "insert",
                      plan[r].exec = plan[p].source
               PROVE FALSE
    BY DEF HalfInserted
  <2>1. plan[r].todo # {} /\ plan[r].todo \cap SidesOf(plan[r].exec) = {}
        /\ plan[r].todo \subseteq Sides
    BY PlanIs DEF PairTypes, PlanTypes, PlannerTypes, Inserts
  <2>2. SidesOf(plan[r].exec) = Sides
    BY <1>13 DEF SidesOf, HasBothLegs
  <2>3. QED
    BY <2>1, <2>2
<1>16. Begun(p, n, "close", plan[p].source)
  BY <1>1, <1>2, <1>11, <1>12, <1>13, <1>14 DEF Begun
<1>17. Ended(plan[p].source)
  BY <1>4, <1>13, <1>15 DEF Ended
<1>18. QED
  BY <1>0, <1>2, <1>4, <1>7, <1>11, <1>12, <1>13, <1>16, <1>17

(* An opening begins.                                                       *)
LEMMA OpenBegins ==
    ASSUME PairTypes, CreateOpen
    PROVE  Begun("opportunity", Len(execs) + 1, "open", None)
<1>1. PICK n : n = Len(execs) + 1
  OBVIOUS
<1>2. /\ RolesKept /\ (\A e : StatusesKeptBut(e))
      /\ DOMAIN execs' = DOMAIN execs \cup {n} /\ n \notin DOMAIN execs
      /\ execs'[n] = [action |-> "open", status |-> "pending", source |-> None,
                      by |-> "opportunity"]
  <2>1. NewExecution("opportunity", "open", None)
    BY DEF CreateOpen
  <2>2. None \in Nat /\ "opportunity" \in Planners /\ "open" \in {"open", "close"}
    BY DEF None, Planners
  <2>3. QED
    BY <1>1, <2>1, <2>2, Added DEF PairTypes
<1>3. PICK q : q = [s \in Sides |-> LegSize]
  OBVIOUS
<1>4. q \in [Sides -> Nat] /\ n \in Nat \ {0}
  BY <1>1, <1>3, ExecCount, SizeAssumption DEF PairTypes
<1>5. PICK y : y = Inserting(Idle, Sides, q, n)
  OBVIOUS
<1>6. y \in Plans /\ y.pc = "insert" /\ y.exec = n
  <2>1. Sides \in SUBSET Sides
    OBVIOUS
  <2>2. QED
    BY <1>4, <1>5, <2>1, IdleIsPlan, PlanMade
<1>7. y = [Idle EXCEPT !.pc = "insert", !.todo = Sides, !.exec = Len(execs) + 1,
                       !.qty = [s \in Sides |-> LegSize]]
  BY <1>1, <1>3, <1>5 DEF Inserting, Idle
<1>8. plan' = [plan EXCEPT !["opportunity"] = y]
  BY <1>7 DEF CreateOpen
<1>9. /\ plan'["opportunity"] = y /\ "opportunity" \in Planners
      /\ \A r \in Planners \ {"opportunity"} : plan'[r] = plan[r]
  BY <1>6, <1>8, PlanReplaced DEF PairTypes, Planners
<1>10. UNCHANGED <<legs, position, worker, watch>> /\ plan["opportunity"].pc = "idle"
  BY DEF CreateOpen
<1>11. \A e \in DOMAIN execs : execs'[e].status = execs[e].status
  <2>1. StatusesKeptBut(n)
    BY <1>2
  <2>2. QED
    BY <1>2, <2>1 DEF StatusesKeptBut
<1>12. Begun("opportunity", n, "open", None)
  BY <1>2, <1>4, <1>6, <1>9, <1>10, <1>11 DEF Begun
<1>13. QED
  BY <1>1, <1>12

(* The new execution changes no answer about the others.                    *)
LEMMA BegunIsNew ==
    ASSUME PairTypes, NEW p, NEW n, NEW act, NEW src, Begun(p, n, act, src), src # n
    PROVE  /\ \A e : /\ InProgress(e)' = InProgress(e)
                     /\ HasBothLegs(e)' = HasBothLegs(e)
                     /\ UsedUp(e)' = UsedUp(e)
                     /\ HalfInserted(e)' <=> HalfInserted(e) \/ e = n
                     /\ \A s, m : /\ Unfilled(e, s, m)' = Unfilled(e, s, m)
                                  /\ ToInsert(e, s, m) => ToInsert(e, s, m)'
           /\ \A e \in DOMAIN execs : Ended(e)' = Ended(e) /\ IsOpening(e)' = IsOpening(e)
           /\ \A e \in DOMAIN execs : e # src => ClosesOf(e)' = ClosesOf(e)
           /\ ClosesOf(src)' = ClosesOf(src) \cup {n} /\ ClosesOf(n)' = {}
<1>1. UNCHANGED legs
  BY DEF Begun
<1>2. \A e : /\ InProgress(e)' = InProgress(e) /\ HasBothLegs(e)' = HasBothLegs(e)
             /\ UsedUp(e)' = UsedUp(e)
             /\ \A s, m : Unfilled(e, s, m)' = Unfilled(e, s, m)
  BY <1>1, LegsSayTheSame
<1>3. \A e : HalfInserted(e)' <=> HalfInserted(e) \/ e = n
  BY DEF HalfInserted, Begun
<1>4. \A e, s, m : ToInsert(e, s, m) => ToInsert(e, s, m)'
  BY DEF ToInsert, Begun
<1>5. \A e \in DOMAIN execs : Ended(e)' = Ended(e) /\ IsOpening(e)' = IsOpening(e)
  BY <1>2, <1>3 DEF Ended, IsOpening, Begun, RolesKept
<1>6. \A e : e # src => ClosesOf(e)' = ClosesOf(e)
  BY DEF ClosesOf, Begun, RolesKept
<1>7. ClosesOf(src)' = ClosesOf(src) \cup {n}
  BY DEF ClosesOf, Begun, RolesKept
<1>8. ClosesOf(n) = {}
  <2> SUFFICES ASSUME NEW c \in DOMAIN execs, execs[c].source = n PROVE FALSE
    BY DEF ClosesOf
  <2>1. execs[c].action \in {"open", "close"}
    BY ExecIs DEF PairTypes, Executions
  <2>2. QED
    BY <2>1 DEF PairTypes, ExecTypes, Begun, IsOpening, None
<1>9. QED
  BY <1>2, <1>3, <1>4, <1>5, <1>6, <1>7, <1>8

(* Rows, list and work stay in order when an execution begins.              *)
LEMMA BegunCalm ==
    ASSUME PairTypes, CalmRows, CalmBatch, CalmWork, NEW p, NEW n, NEW act \in {"open", "close"},
           NEW src, Begun(p, n, act, src), src # n,
           act = "open" => src = None,
           act = "close" => src \in DOMAIN execs /\ Ended(src)
    PROVE  CalmRows' /\ CalmBatch' /\ CalmWork'
<1> USE BegunIsNew
<1>1. /\ UNCHANGED <<legs, position, pc, batch, seen, verdict, watch>> /\ RolesKept
      /\ DOMAIN execs' = DOMAIN execs \cup {n} /\ n \notin DOMAIN execs
      /\ \A e \in DOMAIN execs : execs'[e].status = execs[e].status
      /\ execs'[n].action = act /\ execs'[n].status = "pending"
  BY DEF Begun, worker
<1>2. \A e \in DOMAIN execs : ClosesOf(e)' # {} => Ended(e)'
  <2> TAKE e \in DOMAIN execs
  <2>1. Ended(e)' = Ended(e)
    OBVIOUS
  <2>2. e # src => ClosesOf(e)' = ClosesOf(e)
    OBVIOUS
  <2>3. e = src => act = "close"
    BY ExecIs DEF None, PairTypes
  <2>4. QED
    BY <2>1, <2>2, <2>3 DEF CalmRows, ClosedAfterEnd
<1>3. CalmRows'
  <2>1. ActiveIsReachable'
    BY <1>1 DEF CalmRows, ActiveIsReachable
  <2>2. FailedIsUsedUp'
    <3>1. \A e : UsedUp(e)' = UsedUp(e)
      OBVIOUS
    <3>2. QED
      BY <1>1, <3>1, LegIs DEF CalmRows, FailedIsUsedUp, RolesKept, PairTypes
  <2>3. OpeningsGetLegs'
    <3>1. \A e \in DOMAIN execs : HasBothLegs(e) \/ HalfInserted(e) =>
                                  HasBothLegs(e)' \/ HalfInserted(e)'
      OBVIOUS
    <3>2. HalfInserted(n)'
      OBVIOUS
    <3>3. QED
      BY <1>1, <3>1, <3>2 DEF CalmRows, OpeningsGetLegs, RolesKept
  <2>4. ClosedAfterEnd'
    <3>1. ClosesOf(n)' = {}
      OBVIOUS
    <3>2. QED
      BY <1>1, <1>2, <3>1 DEF ClosedAfterEnd
  <2>5. QED
    BY <2>1, <2>2, <2>3, <2>4 DEF CalmRows
<1>4. \A i \in DOMAIN batch : batch[i].exec \in DOMAIN execs
  BY LegIs DEF PairTypes, BatchTypes, ReadTypes
<1>5. \A e : InBatch(e)' = InBatch(e)
  BY <1>1 DEF InBatch
<1>6. \A e \in DOMAIN execs : Settled(e)' = Settled(e)
  <2>1. \A e \in DOMAIN execs : Ended(e)' = Ended(e)
    OBVIOUS
  <2>2. QED
    BY <1>5, <2>1 DEF Settled
<1>7. CalmBatch'
  <2>1. OpenIsSettled'
    BY <1>1, <1>6 DEF CalmBatch, OpenIsSettled, RolesKept
  <2>2. WatchedIsSettled'
    BY <1>1, <1>6 DEF CalmBatch, WatchedIsSettled, PairTypes, OtherTypes, IsOpening
  <2>3. ClosesComeLater'
    <3>1. ASSUME NEW i \in DOMAIN batch, NEW e, e = batch[i].exec, NEW c \in ClosesOf(e)'
          PROVE  execs'[c].status = "pending" /\ ~InBatch(c)
      <4>1. e \in DOMAIN execs
        BY <1>4, <3>1
      <4>2. c \in ClosesOf(e) \/ c = n
        BY <3>1, <4>1
      <4>3. CASE c \in ClosesOf(e)
        <5>1. execs[c].status = "pending" /\ ~InBatch(c) /\ c \in DOMAIN execs
          BY <3>1, <4>3 DEF CalmBatch, ClosesComeLater, ClosesOf
        <5>2. QED
          BY <1>1, <5>1
      <4>4. CASE c = n
        BY <1>1, <1>4, <4>4 DEF InBatch
      <4>5. QED
        BY <4>2, <4>3, <4>4
    <3>2. QED
      BY <1>1, <1>5, <3>1 DEF ClosesComeLater
  <2>4. QED
    BY <2>1, <2>2, <2>3 DEF CalmBatch
<1>8. Exec' = Exec /\ (pc = "status" => Exec \in DOMAIN execs)
  <2>1. pc = "status" => Exec \in DOMAIN execs
    BY InWork DEF PairTypes, Exec, Row
  <2>2. QED
    BY <1>1, <2>1 DEF Exec, Row, This
<1>9. CalmWork'
  <2>1. ClosesInFlight' \subseteq ClosesInFlight \cup {n}
    BY <1>1 DEF ClosesInFlight, RolesKept
  <2>2. \A c : /\ InProgress(c)' = InProgress(c)
               /\ HalfInserted(c)' <=> HalfInserted(c) \/ c = n
    OBVIOUS
  <2>3. InFlightMoves'
    BY <1>1, <1>8, <2>1, <2>2 DEF CalmWork, InFlightMoves
  <2>4. SeenIsStatus'
    <3>1. PICK x : x = Exec
      OBVIOUS
    <3>2. SUFFICES ASSUME pc = "status", ClosesOf(x)' = {} PROVE seen = execs'[x].status
      BY <1>1, <1>8, <3>1 DEF SeenIsStatus
    <3>3. x \in DOMAIN execs
      BY <1>8, <3>1, <3>2
    <3>4. ClosesOf(x) = {}
      BY <3>2, <3>3
    <3>5. QED
      BY <1>1, <3>1, <3>2, <3>3, <3>4 DEF CalmWork, SeenIsStatus
  <2>5. QED
    BY <2>3, <2>4 DEF CalmWork
<1>10. QED
  BY <1>3, <1>7, <1>9

(* A close still covers what is held when its legs, inserted or not, do.    *)
LEMMA CoversGrows ==
    ASSUME UNCHANGED position, NEW c, Covers(c),
           \A s, m : ToInsert(c, s, m) \/ Unfilled(c, s, m) =>
                     ToInsert(c, s, m)' \/ Unfilled(c, s, m)'
    PROVE  Covers(c)'
<1>1. Held' = Held
  BY DEF Held
<1>2. ASSUME NEW s \in Held
      PROVE  ToInsert(c, s, position[s])' \/ Unfilled(c, s, position[s])'
  <2>1. PICK m : m = position[s]
    OBVIOUS
  <2>2. m = position'[s]
    BY <2>1
  <2>3. ToInsert(c, s, m) \/ Unfilled(c, s, m)
    BY <2>1 DEF Covers
  <2>4. ToInsert(c, s, m)' \/ Unfilled(c, s, m)'
    BY <2>3
  <2>5. QED
    BY <2>1, <2>2, <2>4, Zenon
<1>3. QED
  BY <1>1, <1>2, Zenon DEF Covers

(* What the thread is at, in a step of another that inserts an execution.   *)
LEMMA BegunWork ==
    ASSUME PairTypes, NEW p, NEW n, NEW act, NEW src, Begun(p, n, act, src)
    PROVE  /\ Exec' = Exec /\ Returning' = Returning
           /\ \A e : Working(e)' = Working(e)
           /\ \A e : GivenBack(e)' = GivenBack(e)
           /\ \A c \in DOMAIN execs : Unfinished(c)' = Unfinished(c)
<1>1. UNCHANGED <<pc, batch, seen, verdict>>
  BY DEF Begun, worker
<1>2. Exec' = Exec /\ Returning' = Returning
  BY <1>1 DEF Exec, Row, This, Returning
<1>3. \A e : Working(e)' = Working(e)
  BY <1>1, <1>2 DEF Working
<1>4. Returning => execs'[Exec].source = execs[Exec].source
  BY SourceIs DEF Begun, RolesKept, Returning
<1>5. ASSUME NEW e PROVE GivenBack(e)' = GivenBack(e)
  <2>1. PICK x : x = Exec
    OBVIOUS
  <2>2. Exec' = x /\ (Returning => execs'[x].source = execs[x].source)
    BY <1>2, <1>4, <2>1
  <2>3. QED
    BY <1>1, <1>2, <2>1, <2>2 DEF GivenBack
<1>6. \A c \in DOMAIN execs : Unfinished(c)' = Unfinished(c)
  BY <1>2 DEF Unfinished, Begun
<1>7. QED
  BY <1>2, <1>3, <1>5, <1>6

(* A keeper stays one when a close of another opening begins.               *)
LEMMA BegunKeepsOthers ==
    ASSUME PairTypes, NEW p, NEW n, NEW act, NEW src, Begun(p, n, act, src), src # n,
           NEW k \in DOMAIN execs, Keeper(k), k # src
    PROVE  Keeper(k)'
<1>1. IsOpening(k)' /\ ClosesOf(k)' = ClosesOf(k)
  BY BegunIsNew DEF Keeper
<1>2. execs'[k].status = execs[k].status /\ UNCHANGED position
  BY DEF Begun
<1>3. Live(k) => Live(k)'
  BY <1>2, BegunIsNew, BegunWork DEF Live
<1>4. \A c \in ClosesOf(k) : Covers(c) => Covers(c)'
  BY <1>2, BegunIsNew, CoversGrows
<1>5. \A c \in ClosesOf(k) : Unfinished(c)' = Unfinished(c)
  BY BegunWork DEF ClosesOf
<1>6. GivenBack(k)' = GivenBack(k)
  BY BegunWork
<1>7. QED
  BY <1>1, <1>2, <1>3, <1>4, <1>5, <1>6 DEF Keeper

(* The opening to be closed is still the keeper: its new close takes all    *)
(* that is held.                                                            *)
LEMMA CloseKeepsSource ==
    ASSUME PairTypes, CalmBatch, NEW p \in Closers, CreateClose(p), lapses' = {},
           NEW q, q = plan[p].source, Keeper(q)
    PROVE  Keeper(q)'
<1>2. PICK n : n = Len(execs) + 1
  OBVIOUS
<1>3. /\ Begun(p, n, "close", q) /\ plan'[p].todo = Held /\ plan'[p].qty = position
      /\ IsOpening(q) /\ Ended(q) /\ plan[p].pc = "plan"
  BY <1>2, CloseBegins
<1>4. /\ n \notin DOMAIN execs /\ p \in Planners /\ plan'[p].pc = "insert" /\ plan'[p].exec = n
      /\ UNCHANGED <<position, pc, batch, legs>> /\ execs'[n].status = "pending"
      /\ q \in DOMAIN execs /\ q # n /\ execs'[q].status = execs[q].status
  BY <1>3 DEF Begun, worker, IsOpening
<1>5. IsOpening(q)' /\ ClosesOf(q)' = ClosesOf(q) \cup {n}
  BY <1>3, <1>4, BegunIsNew
<1>6. Covers(n)'
  <2>1. Held' = Held
    BY <1>4 DEF Held
  <2>2. ASSUME NEW s \in Held PROVE ToInsert(n, s, position[s])'
    <3>1. PICK m : m = position[s]
      OBVIOUS
    <3>2. plan'[p].qty[s] = m /\ m \in Nat
      BY <1>3, <3>1 DEF Held, PairTypes, OtherTypes
    <3>3. ToInsert(n, s, m)'
      BY <1>3, <1>4, <2>2, <3>2 DEF ToInsert
    <3>4. m = position'[s]
      BY <1>4, <3>1
    <3>5. QED
      BY <3>1, <3>3, <3>4, Zenon
  <2>3. QED
    BY <2>1, <2>2, Zenon DEF Covers
<1>7. \A c \in ClosesOf(q) : Covers(c) => Covers(c)'
  BY <1>3, <1>4, BegunIsNew, CoversGrows
<1>8. Unfinished(n)'
  BY <1>4 DEF Unfinished, ActiveExecution
<1>9. execs[q].status # "closed"
  <2>1. CASE ClosesOf(q) # {}
    BY <2>1 DEF Keeper
  <2>2. CASE ClosesOf(q) = {}
    <3>1. execs[q].status = "open" \/ Working(q)
      BY <1>3, <2>2 DEF Keeper, Live, Ended
    <3>2. Working(q) => InBatch(q)
      BY InWork DEF Working, InBatch, PairTypes, Exec, Row
    <3>3. execs[q].status = "closed" => ~InBatch(q)
      BY <1>3 DEF CalmBatch, OpenIsSettled, Settled, IsOpening
    <3>4. QED
      BY <3>1, <3>2, <3>3
  <2>3. QED
    BY <2>1, <2>2
<1>10. GivenBack(q)
  <2>1. CASE ClosesOf(q) # {}
    BY <2>1 DEF Keeper
  <2>2. CASE ClosesOf(q) = {}
    <3>1. Returning => Exec \in DOMAIN execs
      BY SourceIs
    <3>2. QED
      BY <2>2, <3>1 DEF GivenBack, ClosesOf
  <2>3. QED
    BY <2>1, <2>2
<1>11. GivenBack(q)'
  BY <1>3, <1>10, BegunWork
<1>12. QED
  BY <1>4, <1>5, <1>6, <1>7, <1>8, <1>9, <1>11 DEF Keeper

(* A row is added, and the keeper outlasts it.                              *)
LEMMA KeptOver ==
    ASSUME PositionIsKept, UNCHANGED position, DOMAIN execs \subseteq DOMAIN execs',
           Spared' \subseteq Spared,
           \A k \in DOMAIN execs : Keeper(k) => Keeper(k)'
    PROVE  PositionIsKept'
  BY DEF PositionIsKept, Held

(* Order: the row of a close is inserted.                                   *)
LEMMA CreateCloseCalm ==
    ASSUME PairTypes, Calm, NEW p \in Closers, CreateClose(p), lapses' = {} PROVE Calm'
<1>1. PICK q : q = plan[p].source
  OBVIOUS
<1>2. PICK n : n = Len(execs) + 1
  OBVIOUS
<1>3. Begun(p, n, "close", q) /\ IsOpening(q) /\ Ended(q)
  BY <1>1, <1>2, CloseBegins
<1>4. q \in DOMAIN execs /\ q # n /\ UNCHANGED <<position, watch>>
      /\ DOMAIN execs \subseteq DOMAIN execs'
  BY <1>3 DEF Begun, IsOpening
<1>5. CalmRows' /\ CalmBatch' /\ CalmWork'
  BY <1>3, <1>4, BegunCalm DEF Calm
<1>6. Spared' \subseteq Spared
  BY <1>3, <1>4 DEF Begun, Spared, Watched, Planners
<1>7. ASSUME NEW k \in DOMAIN execs, Keeper(k) PROVE Keeper(k)'
  <2>1. CASE k = q
    BY <1>1, <1>7, <2>1, CloseKeepsSource DEF Calm
  <2>2. CASE k # q
    BY <1>3, <1>4, <1>7, <2>2, BegunKeepsOthers
  <2>3. QED
    BY <2>1, <2>2
<1>8. PositionIsKept'
  BY <1>4, <1>6, <1>7, KeptOver DEF Calm
<1>9. QED
  BY <1>5, <1>8 DEF Calm

(* Order: the row of an opening is inserted.                                *)
LEMMA CreateOpenCalm ==
    ASSUME PairTypes, Calm, CreateOpen PROVE Calm'
<1>1. PICK n : n = Len(execs) + 1
  OBVIOUS
<1>2. PICK p : p = "opportunity"
  OBVIOUS
<1>3. Begun(p, n, "open", None)
  BY <1>1, <1>2, OpenBegins
<1>4. None # n /\ UNCHANGED <<position, watch>> /\ DOMAIN execs \subseteq DOMAIN execs'
  BY <1>3 DEF Begun, None
<1>5. CalmRows' /\ CalmBatch' /\ CalmWork'
  BY <1>3, <1>4, BegunCalm DEF Calm
<1>6. Spared' \subseteq Spared
  BY <1>2, <1>3, <1>4 DEF Begun, Spared, Watched, Planners
<1>7. ASSUME NEW k \in DOMAIN execs, Keeper(k) PROVE Keeper(k)'
  <2>1. k # None
    BY ExecIs DEF None, PairTypes
  <2>2. QED
    BY <1>3, <1>4, <1>7, <2>1, BegunKeepsOthers
<1>8. PositionIsKept'
  BY <1>4, <1>6, <1>7, KeptOver DEF Calm
<1>9. QED
  BY <1>5, <1>8 DEF Calm

(* What becomes of the queries when a leg is inserted.                      *)
LEMMA LegAdds ==
    ASSUME PairTypes, NEW p \in Planners, InsertLeg(p), NEW x, x = plan[p].exec
    PROVE  /\ x \in DOMAIN execs /\ HalfInserted(x) /\ InProgress(x)'
           /\ \A e : InProgress(e)' <=> InProgress(e) \/ e = x
           /\ \A e : UsedUp(e) => UsedUp(e)'
           /\ \A e : e # x => HalfInserted(e)' = HalfInserted(e)
                              /\ HasBothLegs(e)' = HasBothLegs(e)
           /\ execs[x].action = "open" => HasBothLegs(x)' \/ HalfInserted(x)'
           /\ \A e : Ended(e)' = Ended(e)
           /\ \A c, s, k : ToInsert(c, s, k) \/ Unfilled(c, s, k) =>
                           ToInsert(c, s, k)' \/ Unfilled(c, s, k)'
           /\ \A i \in DOMAIN legs' : \/ i \in DOMAIN legs /\ legs'[i] = legs[i]
                                      \/ legs'[i].status = "pending"
           /\ UNCHANGED <<execs, position, worker, watch>> /\ Spared' \subseteq Spared
<1>1. /\ Inserts(p) /\ NextSide(p) \in plan[p].todo /\ NextLeg(p) \in Legs
      /\ legs' = Append(legs, NextLeg(p))
  BY LegInserted
<1>2. PlanGoesOn(p) /\ plan[p].pc = "insert"
  BY InsertGoesOn DEF InsertLeg
<1>3. UNCHANGED <<execs, position, worker, watch>>
  BY DEF InsertLeg
<1>4. PICK y : y = NextLeg(p)
  OBVIOUS
<1>5. PICK m : m = Len(legs) + 1
  OBVIOUS
<1>6. /\ y.exec = x /\ y.side = NextSide(p) /\ y.status = "pending" /\ y.filled = 0
      /\ y.traded = 0 /\ y.qty = plan[p].qty[NextSide(p)] /\ y \in Legs
  BY <1>1, <1>4 DEF NextLeg
<1>7. /\ DOMAIN legs' = DOMAIN legs \cup {m} /\ m \notin DOMAIN legs /\ legs'[m] = y
      /\ \A i \in DOMAIN legs : legs'[i] = legs[i]
  BY <1>1, <1>4, <1>5, <1>6, LegAppended DEF PairTypes
<1>8. x \in DOMAIN execs /\ HalfInserted(x)
  BY <1>1, <1>2 DEF Inserts, HalfInserted
<1>9. \A e : InProgress(e)' <=> InProgress(e) \/ e = x
  <2> TAKE e
  <2>1. InProgress(e)' <=> \E i \in DOMAIN legs' :
                               legs'[i].exec = e /\ legs'[i].status \in ActiveLeg
    BY DEF InProgress, StatusesOf, LegsOf
  <2>2. InProgress(e) <=> \E i \in DOMAIN legs :
                              legs[i].exec = e /\ legs[i].status \in ActiveLeg
    BY InProgressMeans
  <2>3. QED
    BY <1>6, <1>7, <2>1, <2>2 DEF ActiveLeg
<1>10. \A e : UsedUp(e) => UsedUp(e)'
  BY <1>7 DEF UsedUp, LegsOf
<1>11. \A e : e # x => HalfInserted(e)' = HalfInserted(e)
  <2>1. plan'[p].pc = "insert" => plan'[p].exec = x
    BY <1>2, IdleIsPlan DEF PlanGoesOn
  <2>2. \A r \in Planners \ {p} : plan'[r] = plan[r]
    BY <1>2 DEF PlanGoesOn
  <2>3. QED
    BY <1>2, <2>1, <2>2 DEF HalfInserted
<1>12. \A e : /\ e # x => SidesOf(e)' = SidesOf(e)
              /\ e = x => SidesOf(e)' = SidesOf(e) \cup {NextSide(p)}
  BY <1>1, <1>4, <1>6, AppendedLegs DEF PairTypes
<1>13. \A e : e # x => HasBothLegs(e)' = HasBothLegs(e)
  BY <1>12 DEF HasBothLegs, SidesOf
<1>14. execs[x].action = "open" => HasBothLegs(x)' \/ HalfInserted(x)'
  <2> SUFFICES ASSUME execs[x].action = "open", ~HalfInserted(x)' PROVE HasBothLegs(x)'
    OBVIOUS
  <2>1. p = "opportunity" /\ plan[p].todo \cup SidesOf(x) = Sides
    BY <1>1 DEF Inserts
  <2>2. plan[p].todo \ {NextSide(p)} = {}
    BY <1>2 DEF PlanGoesOn, HalfInserted
  <2>3. SidesOf(x)' = Sides
    BY <1>1, <1>12, <2>1, <2>2
  <2>4. QED
    BY <2>3 DEF HasBothLegs, SidesOf
<1>15. \A e : Ended(e)' = Ended(e)
  BY <1>8, <1>9, <1>11, <1>13 DEF Ended
<1>16. ASSUME NEW c, NEW s, NEW k, ToInsert(c, s, k)
       PROVE  ToInsert(c, s, k)' \/ Unfilled(c, s, k)'
  <2>1. PICK r \in Planners : /\ plan[r].pc = "insert" /\ plan[r].exec = c
                              /\ s \in plan[r].todo /\ k <= plan[r].qty[s]
    BY <1>16 DEF ToInsert
  <2>2. CASE r # p
    BY <1>2, <2>1, <2>2 DEF PlanGoesOn, ToInsert
  <2>3. CASE r = p /\ s = NextSide(p)
    <3>1. /\ y.exec = c /\ y.side = s
          /\ Takes(k, y.status, y.filled, y.qty, y.traded)
      <4>1. plan[p].qty[s] \in Nat
        BY <1>6, <2>3 DEF Legs
      <4>2. QED
        BY <1>6, <2>1, <2>3, <4>1 DEF Takes
    <3>2. QED
      BY <1>7, <3>1 DEF Unfilled
  <2>4. CASE r = p /\ s # NextSide(p)
    BY <1>2, <2>1, <2>4 DEF PlanGoesOn, ToInsert
  <2>5. QED
    BY <2>2, <2>3, <2>4
<1>17. ASSUME NEW c, NEW s, NEW k, Unfilled(c, s, k) PROVE Unfilled(c, s, k)'
  BY <1>7, <1>17 DEF Unfilled
<1>18. Spared' \subseteq Spared
  <2>1. plan'["position"].pc # "forget" \/ plan'["position"] = plan["position"]
    BY <1>2, IdleIsPlan DEF PlanGoesOn, Planners
  <2>2. QED
    BY <1>3, <2>1 DEF Spared, Watched
<1>19. \A i \in DOMAIN legs' : \/ i \in DOMAIN legs /\ legs'[i] = legs[i]
                               \/ legs'[i].status = "pending"
  BY <1>6, <1>7
<1>20. InProgress(x)'
  BY <1>9
<1>21. QED
  BY <1>3, <1>8, <1>9, <1>10, <1>11, <1>13, <1>14, <1>15, <1>16, <1>17, <1>18, <1>19, <1>20

(* Order: a leg is inserted.                                                *)
LEMMA InsertLegCalm ==
    ASSUME PairTypes, Calm, NEW p \in Planners, InsertLeg(p) PROVE Calm'
<1>0. PICK x : x = plan[p].exec
  OBVIOUS
<1>1. /\ HalfInserted(x) /\ InProgress(x)'
      /\ \A e : InProgress(e)' <=> InProgress(e) \/ e = x
      /\ \A e : UsedUp(e) => UsedUp(e)'
      /\ \A e : e # x => HalfInserted(e)' = HalfInserted(e)
                         /\ HasBothLegs(e)' = HasBothLegs(e)
      /\ execs[x].action = "open" => HasBothLegs(x)' \/ HalfInserted(x)'
      /\ \A e : Ended(e)' = Ended(e)
  BY <1>0, LegAdds
<1>2. /\ \A i \in DOMAIN legs' : \/ i \in DOMAIN legs /\ legs'[i] = legs[i]
                                 \/ legs'[i].status = "pending"
      /\ UNCHANGED <<execs, position, worker, watch>> /\ Spared' \subseteq Spared
  BY <1>0, LegAdds
<1>3. \A e : ClosesOf(e)' = ClosesOf(e) /\ IsOpening(e)' = IsOpening(e)
  BY <1>2 DEF ClosesOf, IsOpening
<1>4. CalmRows'
  <2>1. ActiveIsReachable'
    BY <1>2 DEF Calm, CalmRows, ActiveIsReachable
  <2>2. FailedIsUsedUp'
    BY <1>1, <1>2 DEF Calm, CalmRows, FailedIsUsedUp
  <2>3. OpeningsGetLegs'
    BY <1>1, <1>2 DEF Calm, CalmRows, OpeningsGetLegs
  <2>4. ClosedAfterEnd'
    BY <1>1, <1>2, <1>3 DEF Calm, CalmRows, ClosedAfterEnd
  <2>5. QED
    BY <2>1, <2>2, <2>3, <2>4 DEF CalmRows
<1>5. CalmBatch'
  <2>1. BatchShrinks /\ SameRoles
    BY <1>2, SameBatchShrinks, SameExecs DEF worker, PairTypes
  <2>2. QED
    BY <1>1, <1>2, <2>1, CalmBatchStands DEF Calm
<1>6. UNCHANGED <<pc, batch, seen, verdict>> /\ Exec' = Exec
  BY <1>2 DEF worker, Exec, Row, This
<1>7. CalmWork'
  <2>1. InFlightMoves'
    BY <1>1, <1>2, <1>6 DEF Calm, CalmWork, InFlightMoves, ClosesInFlight
  <2>2. SeenIsStatus'
    <3>1. PICK z : z = Exec
      OBVIOUS
    <3>2. ClosesOf(z)' = ClosesOf(z)
      BY <1>3
    <3>3. QED
      BY <1>2, <1>6, <3>1, <3>2 DEF Calm, CalmWork, SeenIsStatus
  <2>3. QED
    BY <2>1, <2>2 DEF CalmWork
<1>8. ASSUME NEW k \in DOMAIN execs, Keeper(k) PROVE Keeper(k)'
  <2>1. Live(k) => Live(k)'
    BY <1>1, <1>2, <1>6 DEF Live, Working
  <2>2. \A c, s, m : ToInsert(c, s, m) \/ Unfilled(c, s, m) =>
                     ToInsert(c, s, m)' \/ Unfilled(c, s, m)'
    BY <1>0, LegAdds
  <2>3. \A c : Covers(c) => Covers(c)'
    BY <1>2, <2>2, CoversGrows
  <2>4. \A c : Unfinished(c)' = Unfinished(c)
    BY <1>2, <1>6 DEF Unfinished, Returning
  <2>5. GivenBack(k)' = GivenBack(k)
    BY <1>2, <1>6 DEF GivenBack, Returning
  <2>6. QED
    BY <1>2, <1>3, <1>8, <2>1, <2>3, <2>4, <2>5 DEF Keeper
<1>9. PositionIsKept'
  BY <1>2, <1>8, KeptOver DEF Calm
<1>10. QED
  BY <1>4, <1>5, <1>7, <1>9 DEF Calm

-----------------------------------------------------------------------------
(* The steps of the execution thread.                                       *)

(* What process_order_leg leaves, when nothing lapses.                      *)
LegDone(i, x, st, o, n, f, q, t) ==
    /\ pc = "leg" /\ i = This /\ i \in DOMAIN legs /\ x = Exec /\ x = legs[i].exec
    /\ x \in DOMAIN execs /\ InBatch(x)
    /\ LegBecomes(i, st, o, n, f, q, t) /\ st \in LegStatuses
    /\ n >= legs[i].retry /\ n \in 0 .. RetryLimit
    /\ f \in Nat /\ q \in Nat \ {0} /\ t \in Nat
    /\ Tame(st, o, n, f, q, t)
    /\ position' \in [Sides -> Nat]
    /\ UNCHANGED <<execs, batch, verdict, watch, plan>>
    /\ pc' = "status" /\ seen' = execs[x].status /\ Exec' = x

(* Processing a leg without a lapse is a write that leaves the others       *)
(* alone.                                                                   *)
LEMMA LegIsDone ==
    ASSUME PairTypes, ProcessLeg, lapses' = {}
    PROVE  \E i, x, st, o, n, f, q, t : LegDone(i, x, st, o, n, f, q, t)
<1>1. LegWorked
  BY ProcessLegWorks DEF PairTypes
<1>2. PICK st \in LegStatuses, o \in BOOLEAN, n \in 0 .. RetryLimit, f \in Nat,
            q \in Nat \ {0}, t \in Nat : LegWork(st, o, n, f, q, t)
  BY <1>1 DEF LegWorked
<1>3. /\ pc = "leg" /\ pc' = "status" /\ seen' = execs[Exec].status
      /\ UNCHANGED <<execs, batch, verdict, watch, plan>> /\ position' \in [Sides -> Nat]
  BY <1>1 DEF LegWorked, ThenReconcile, rule
<1>4. /\ This \in DOMAIN legs /\ This \in DOMAIN batch /\ Exec \in DOMAIN execs
      /\ Exec = legs[This].exec
  BY <1>3, InWork DEF PairTypes, Exec
<1>5. InBatch(Exec) /\ Exec' = Exec
  BY <1>3, <1>4 DEF InBatch, Exec, Row, This
<1>6. PICK i, x : i = This /\ x = Exec
  OBVIOUS
<1>7. LegDone(i, x, st, o, n, f, q, t)
  BY <1>2, <1>3, <1>4, <1>5, <1>6 DEF LegDone, LegWork
<1>8. QED
  BY <1>7

(* The queries about the other executions, and about this one.              *)
LEMMA DoneAnswers ==
    ASSUME PairTypes, NEW i, NEW x, NEW st, NEW o, NEW n, NEW f, NEW q, NEW t,
           LegDone(i, x, st, o, n, f, q, t)
    PROVE  /\ SameLegRoles
           /\ \A e : HasBothLegs(e)' = HasBothLegs(e) /\ HalfInserted(e)' = HalfInserted(e)
           /\ \A e : e # x => InProgress(e)' = InProgress(e)
           /\ \A e : UsedUp(e) => UsedUp(e)'
           /\ \A e : Ended(e) => Ended(e)'
           /\ Ended(x) => legs[i].status \in EndedLeg
<1>1. /\ i \in DOMAIN legs /\ x = legs[i].exec /\ DOMAIN legs' = DOMAIN legs
      /\ (\A j \in DOMAIN legs : j # i => legs'[j] = legs[j])
      /\ legs'[i].status = st /\ legs'[i].retry = n /\ n >= legs[i].retry
      /\ n \in 0 .. RetryLimit
  BY DEF LegDone, LegBecomes
<1>2. SameLegRoles
  BY <1>1, BecomesSameRoles DEF LegDone
<1>3. \A e : HasBothLegs(e)' = HasBothLegs(e) /\ LegsOf(e)' = LegsOf(e)
  BY <1>2, SameSides
<1>4. \A e : HalfInserted(e)' = HalfInserted(e)
  BY DEF LegDone, HalfInserted
<1>5. \A e : e # x => InProgress(e)' = InProgress(e)
  BY <1>1, <1>2, LegsAnswer
<1>6. \A e : UsedUp(e) => UsedUp(e)'
  <2>1. \A j \in DOMAIN legs : legs[j].retry >= RetryLimit => legs'[j].retry >= RetryLimit
    BY <1>1, LegFacts DEF PairTypes
  <2>2. QED
    BY <1>3, <2>1 DEF UsedUp, LegsOf
<1>7. legs[i].status \in ActiveLeg \/ legs[i].status \in EndedLeg
  BY <1>1, LegFacts DEF PairTypes, LegStatuses
<1>8. Ended(x) => legs[i].status \in EndedLeg
  BY <1>1, <1>7, InProgressMeans DEF Ended
<1>9. legs[i].status \in EndedLeg => st \in EndedLeg
  BY DEF LegDone, Tame
<1>10. Ended(x) => ~InProgress(x)'
  <2> SUFFICES ASSUME Ended(x), NEW j \in DOMAIN legs', legs'[j].exec = x,
                      legs'[j].status \in ActiveLeg
               PROVE FALSE
    BY DEF InProgress, StatusesOf, LegsOf
  <2>1. j # i
    BY <1>1, <1>8, <1>9 DEF EndedLeg, ActiveLeg
  <2>2. legs[j].exec = x /\ legs[j].status \in ActiveLeg /\ j \in DOMAIN legs
    BY <1>1, <2>1
  <2>3. QED
    BY <2>2, InProgressMeans DEF Ended
<1>11. \A e : Ended(e) => Ended(e)'
  BY <1>3, <1>4, <1>5, <1>10 DEF Ended
<1>12. QED
  BY <1>2, <1>3, <1>4, <1>5, <1>6, <1>8, <1>11

(* The rows' part, the batch's and the thread's.                            *)
LEMMA DoneCalm ==
    ASSUME PairTypes, CalmRows, CalmBatch, CalmWork,
           NEW i, NEW x, NEW st, NEW o, NEW n, NEW f, NEW q, NEW t,
           LegDone(i, x, st, o, n, f, q, t)
    PROVE  CalmRows' /\ CalmBatch' /\ CalmWork'
<1> USE DoneAnswers
<1>1. /\ pc = "leg" /\ i = This /\ i \in DOMAIN legs /\ x = Exec /\ x = legs[i].exec
      /\ DOMAIN legs' = DOMAIN legs /\ (\A j \in DOMAIN legs : j # i => legs'[j] = legs[j])
      /\ legs'[i].status = st /\ legs'[i].oid = o /\ legs'[i].retry = n /\ legs'[i].exec = x
      /\ n \in 0 .. RetryLimit
      /\ UNCHANGED <<execs, batch, verdict, watch, plan>>
      /\ pc' = "status" /\ seen' = execs[x].status /\ Exec' = x
      /\ Tame(st, o, n, f, q, t)
  BY DEF LegDone, LegBecomes
<1>2. SameRoles
  BY <1>1, SameExecs DEF PairTypes
<1>3. CalmRows'
  <2>1. ActiveIsReachable'
    <3>1. st \in ActiveLeg => st = "pending" \/ o
      BY <1>1 DEF Tame, CalmRows, ActiveIsReachable
    <3>2. QED
      BY <1>1, <3>1 DEF CalmRows, ActiveIsReachable
  <2>2. FailedIsUsedUp'
    <3>1. ASSUME st = "failed", execs[x].action = "close" PROVE UsedUp(x)'
      <4>1. n >= RetryLimit \/ legs[i].status = "failed"
        BY <1>1, <3>1 DEF Tame, Action
      <4>2. legs[i].status = "failed" => UsedUp(x)
        BY <1>1, <3>1 DEF CalmRows, FailedIsUsedUp
      <4>3. \A e : UsedUp(e) => UsedUp(e)'
        OBVIOUS
      <4>4. n >= RetryLimit => UsedUp(x)'
        BY <1>1 DEF UsedUp, LegsOf
      <4>5. QED
        BY <4>1, <4>2, <4>3, <4>4
    <3>2. \A e : UsedUp(e) => UsedUp(e)'
      OBVIOUS
    <3>3. \A j \in DOMAIN legs : j # i /\ legs'[j].status = "failed"
                                 /\ execs[legs'[j].exec].action = "close"
                                 => UsedUp(legs'[j].exec)
      BY <1>1 DEF CalmRows, FailedIsUsedUp
    <3>4. ASSUME NEW j \in DOMAIN legs', NEW e, e = legs'[j].exec,
                 legs'[j].status = "failed", execs[e].action = "close"
          PROVE  UsedUp(e)'
      BY <1>1, <3>1, <3>2, <3>3, <3>4
    <3>5. QED
      BY <1>1, <3>4 DEF FailedIsUsedUp
  <2>3. OpeningsGetLegs'
    BY <1>1 DEF CalmRows, OpeningsGetLegs
  <2>4. ClosedAfterEnd'
    BY <1>1 DEF CalmRows, ClosedAfterEnd, ClosesOf
  <2>5. QED
    BY <2>1, <2>2, <2>3, <2>4 DEF CalmRows
<1>4. CalmBatch'
  <2>1. BatchShrinks
    BY <1>1, SameBatchShrinks
  <2>2. \A e : Ended(e) => Ended(e)'
    OBVIOUS
  <2>3. QED
    BY <1>1, <1>2, <2>1, <2>2, CalmBatchStands
<1>5. CalmWork'
  <2>1. InFlightMoves'
    <3>1. ASSUME NEW c \in ClosesInFlight, c # x PROVE (InProgress(c) \/ HalfInserted(c))'
      <4>1. InProgress(c) \/ HalfInserted(c)
        BY <1>1, <3>1 DEF CalmWork, InFlightMoves
      <4>2. InProgress(c)' = InProgress(c) /\ HalfInserted(c)' = HalfInserted(c)
        BY <3>1
      <4>3. QED
        BY <4>1, <4>2
    <3>2. ClosesInFlight' = ClosesInFlight
      BY <1>1 DEF ClosesInFlight
    <3>3. QED
      BY <1>1, <3>1, <3>2 DEF InFlightMoves
  <2>2. SeenIsStatus'
    BY <1>1 DEF SeenIsStatus
  <2>3. QED
    BY <2>1, <2>2 DEF CalmWork
<1>6. QED
  BY <1>3, <1>4, <1>5

(* A close that covers what is held covers what is left of it.              *)
LEMMA DoneCovers ==
    ASSUME PairTypes, NEW i, NEW x, NEW st, NEW o, NEW n, NEW f, NEW q, NEW t,
           LegDone(i, x, st, o, n, f, q, t),
           position' = position \/ Action = "close",
           NEW c \in DOMAIN execs, execs[c].action = "close", Covers(c)
    PROVE  Covers(c)'
<1>1. /\ i = This /\ i \in DOMAIN legs /\ x = legs[i].exec /\ x = Exec
      /\ DOMAIN legs' = DOMAIN legs /\ (\A j \in DOMAIN legs : j # i => legs'[j] = legs[j])
      /\ legs'[i].status = st /\ legs'[i].filled = f /\ legs'[i].exec = legs[i].exec
      /\ legs'[i].side = legs[i].side /\ legs'[i].qty = q /\ legs'[i].traded = t
      /\ Tame(st, o, n, f, q, t) /\ position' \in [Sides -> Nat] /\ UNCHANGED plan
      /\ f \in Nat
  BY DEF LegDone, LegBecomes
<1>2. position \in [Sides -> Nat]
  BY DEF PairTypes, OtherTypes
<1>3. \A s \in Sides : position'[s] <= position[s]
  BY <1>1, <1>2 DEF Tame
<1>4. ASSUME NEW s, s \in Held' PROVE ToInsert(c, s, position[s])' \/ Unfilled(c, s, position[s])'
  <2>1. PICK m : m = position[s]
    OBVIOUS
  <2>2. PICK k : k = position'[s]
    OBVIOUS
  <2>3. s \in Sides /\ k > 0 /\ k <= m /\ k \in Nat /\ m \in Nat /\ s \in Held
    BY <1>1, <1>2, <1>3, <1>4, <2>1, <2>2 DEF Held
  <2>4. ToInsert(c, s, m) \/ Unfilled(c, s, m)
    BY <2>1, <2>3 DEF Covers
  <2>5. CASE ToInsert(c, s, m)
    <3>1. PICK r \in Planners : /\ plan[r].pc = "insert" /\ plan[r].exec = c
                                /\ s \in plan[r].todo /\ m <= plan[r].qty[s]
      BY <2>5 DEF ToInsert
    <3>2. plan[r].qty[s] \in Nat
      BY <2>3, PlanIs DEF PairTypes
    <3>3. ToInsert(c, s, k)'
      BY <1>1, <2>3, <3>1, <3>2 DEF ToInsert
    <3>4. QED
      BY <2>2, <3>3, Zenon
  <2>6. CASE Unfilled(c, s, m)
    <3>1. PICK j \in DOMAIN legs :
              /\ legs[j].exec = c /\ legs[j].side = s
              /\ Takes(m, legs[j].status, legs[j].filled, legs[j].qty, legs[j].traded)
      BY <2>6 DEF Unfilled
    <3>2. legs[j].qty \in Nat /\ legs[j].traded \in Nat
      BY LegFacts DEF PairTypes
    <3>3. CASE j # i
      <4>1. Takes(k, legs[j].status, legs[j].filled, legs[j].qty, legs[j].traded)
        BY <2>3, <3>1, <3>2 DEF Takes
      <4>2. Unfilled(c, s, k)'
        BY <1>1, <3>1, <3>3, <4>1 DEF Unfilled
      <4>3. QED
        BY <2>2, <4>2, Zenon
    <3>4. CASE j = i
      <4>1. Action = "close"
        BY <1>1, <3>1, <3>4 DEF Action
      <4>2. Takes(k, st, f, q, t)
        BY <1>1, <2>1, <2>2, <2>3, <3>1, <3>4, <4>1 DEF Tame
      <4>3. Unfilled(c, s, k)'
        BY <1>1, <3>1, <3>4, <4>2 DEF Unfilled
      <4>4. QED
        BY <2>2, <4>3, Zenon
    <3>5. QED
      BY <3>3, <3>4
  <2>7. QED
    BY <2>4, <2>5, <2>6
<1>5. QED
  BY <1>4, Zenon DEF Covers

(* A keeper stays one when a leg is processed that only reduces the         *)
(* position.                                                                *)
LEMMA DoneKeeper ==
    ASSUME PairTypes, NEW i, NEW x, NEW st, NEW o, NEW n, NEW f, NEW q, NEW t,
           LegDone(i, x, st, o, n, f, q, t),
           position' = position \/ Action = "close",
           NEW k \in DOMAIN execs, Keeper(k)
    PROVE  Keeper(k)'
<1>1. pc = "leg" /\ pc' = "status" /\ Exec' = x /\ UNCHANGED <<execs, plan>>
  BY DEF LegDone
<1>2. IsOpening(k)' = IsOpening(k) /\ ClosesOf(k)' = ClosesOf(k)
  BY <1>1 DEF IsOpening, ClosesOf
<1>3. Live(k) => Live(k)'
  <2>1. ~Working(k) /\ (k = x => Working(k)')
    BY <1>1 DEF Working
  <2>2. HalfInserted(k)' = HalfInserted(k) /\ (k # x => InProgress(k)' = InProgress(k))
    BY DoneAnswers
  <2>3. QED
    BY <1>1, <2>1, <2>2 DEF Live
<1>4. \A c \in ClosesOf(k) : Covers(c) => Covers(c)'
  BY ClosesAre, DoneCovers DEF PairTypes
<1>5. \A c \in ClosesOf(k) : Unfinished(c) => Unfinished(c)'
  BY <1>1 DEF Unfinished, Returning
<1>6. GivenBack(k)'
  BY <1>1 DEF GivenBack, Returning
<1>7. QED
  BY <1>1, <1>2, <1>3, <1>4, <1>5, <1>6 DEF Keeper

(* Order: a leg is processed.                                               *)
LEMMA ProcessLegCalm ==
    ASSUME PairTypes, Calm, ProcessLeg, lapses' = {} PROVE Calm'
<1>1. PICK i, x, st, o, n, f, q, t : LegDone(i, x, st, o, n, f, q, t)
  BY LegIsDone
<1>2. CalmRows' /\ CalmBatch' /\ CalmWork'
  BY <1>1, DoneCalm DEF Calm
<1>3. /\ UNCHANGED <<execs, watch, plan>> /\ x = Exec /\ x \in DOMAIN execs /\ InBatch(x)
      /\ i = This /\ pc' = "status" /\ Exec' = x
      /\ Tame(st, o, n, f, q, t) /\ position' \in [Sides -> Nat]
  BY <1>1 DEF LegDone
<1>4. Spared' = Spared
  BY <1>3 DEF Spared, Watched
<1>5. PositionIsKept'
  <2> SUFFICES ASSUME Held' # {} PROVE \E e \in DOMAIN execs' \ Spared' : Keeper(e)'
    BY DEF PositionIsKept
  <2>1. CASE Action = "open" /\ ClosesOf(x) = {}
    <3>1. IsOpening(x)' /\ ClosesOf(x)' = {} /\ Working(x)'
      BY <1>3, <2>1 DEF IsOpening, ClosesOf, Working, Action
    <3>2. Keeper(x)'
      BY <3>1 DEF Keeper, Live
    <3>3. x \notin watch
      BY <1>3 DEF Calm, CalmBatch, WatchedIsSettled, Settled
    <3>4. x \notin Spared
      BY <3>3, AtWatched, WatchedIsOpening DEF Spared, PairTypes
    <3>5. QED
      BY <1>3, <1>4, <3>2, <3>4
  <2>2. CASE Action = "close" \/ (Action = "open" /\ ClosesOf(x) # {})
    <3>1. position' = position \/ Action = "close"
      <4>1. CASE Action = "open" /\ ClosesOf(x) # {}
        <5>1. Ended(x)
          BY <1>3, <4>1 DEF Calm, CalmRows, ClosedAfterEnd
        <5>2. legs[i].status \in EndedLeg
          BY <1>1, <5>1, DoneAnswers
        <5>3. QED
          BY <1>3, <4>1, <5>2 DEF Tame
      <4>2. QED
        BY <2>2, <4>1
    <3>2. Held # {}
      <4>1. position' = position => Held' = Held
        BY DEF Held
      <4>2. Action = "close" => Held' \subseteq Held
        <5>1. Action = "close" => \A s \in Sides : position'[s] <= position[s]
          BY <1>3 DEF Tame
        <5>2. position \in [Sides -> Nat]
          BY DEF PairTypes, OtherTypes
        <5>3. QED
          BY <1>3, <5>1, <5>2 DEF Held
      <4>3. QED
        BY <3>1, <4>1, <4>2
    <3>3. PICK k \in DOMAIN execs \ Spared : Keeper(k)
      BY <3>2 DEF Calm, PositionIsKept
    <3>4. Keeper(k)'
      BY <1>1, <3>1, <3>3, DoneKeeper
    <3>5. QED
      BY <1>3, <1>4, <3>3, <3>4
  <2>3. Action \in {"open", "close"}
    BY <1>1, ActionIs DEF PairTypes, LegDone
  <2>4. QED
    BY <2>1, <2>2, <2>3
<1>6. QED
  BY <1>2, <1>5 DEF Calm

(* The thread beyond process_order_leg, but for its own legs and execution. *)
LEMMA ThreadCalm ==
    ASSUME PairTypes, CalmRows, CalmBatch, CalmWork,
           UNCHANGED <<legs, watch>>, SameInserts, SameRoles, BatchShrinks, pc' # "status",
           \A e \in DOMAIN execs :
               execs[e].action = "open" /\ execs'[e].status \in {"open", "closed"} =>
                   execs'[e].status = execs[e].status \/ Settled(e)',
           \A c \in DOMAIN execs :
               execs[c].action = "close" =>
                   execs'[c].status = execs[c].status \/ InBatch(c),
           \A c \in ClosesInFlight' :
               InProgress(c) \/ (c \in ClosesInFlight /\ (pc = "status" => Exec # c))
    PROVE  CalmRows' /\ CalmBatch' /\ CalmWork'
<1>1. CalmRows' /\ \A e : Ended(e)' = Ended(e)
  BY CalmRowsStand
<1>2. CalmBatch'
  BY <1>1, CalmBatchStands
<1>3. \A c : InProgress(c)' = InProgress(c) /\ HalfInserted(c)' = HalfInserted(c)
  BY LegsSayTheSame, InsertsStand
<1>4. InFlightMoves'
  BY <1>3 DEF CalmWork, InFlightMoves
<1>5. SeenIsStatus'
  BY DEF SeenIsStatus
<1>6. QED
  BY <1>1, <1>2, <1>4, <1>5 DEF CalmWork

(* What the thread has at hand is in its batch.                             *)
LEMMA AtHand ==
    ASSUME PairTypes, pc # "idle"
    PROVE  InBatch(Exec) /\ Exec \in DOMAIN execs /\ Action \in {"open", "close"}
<1>1. This \in DOMAIN batch /\ Exec \in DOMAIN execs
  BY InWork DEF PairTypes
<1>2. InBatch(Exec)
  BY <1>1 DEF InBatch, Exec, Row
<1>3. QED
  BY <1>1, <1>2, ActionIs DEF PairTypes

(* An opening all of whose legs are filled has none left in the batch.      *)
LEMMA FilledLeavesBatch ==
    ASSUME PairTypes, CalmRows, pc # "idle", NEW x, x = Exec, Action = "open",
           StatusesOf(x) = {"filled"}, ~HalfInserted(x), Advance, UNCHANGED legs, SameInserts
    PROVE  Settled(x)'
<1>1. x \in DOMAIN execs /\ execs[x].action = "open"
  BY AtHand DEF Action
<1>2. Ended(x)
  BY <1>1 DEF Ended, CalmRows, OpeningsGetLegs, InProgress, ActiveLeg
<1>3. Ended(x)'
  BY <1>2, LegsSayTheSame, InsertsStand DEF Ended
<1>4. ~InBatch(x)'
  <2> SUFFICES ASSUME NEW i \in DOMAIN batch', batch'[i].exec = x PROVE FALSE
    BY DEF InBatch
  <2>1. i \in DOMAIN batch /\ i # This /\ batch[i].exec = x
    BY DEF Advance, Restrict, Remaining
  <2>2. /\ i \in DOMAIN legs /\ legs[i].exec = x /\ Fresh(i)
        /\ batch[i].status \in ActiveLeg
    BY <2>1 DEF PairTypes, BatchTypes, ReadTypes
  <2>3. legs[i].status = "filled"
    BY <2>2 DEF StatusesOf, LegsOf
  <2>4. QED
    BY <1>1, <2>2, <2>3 DEF Fresh, EndedSince, ActiveLeg
<1>5. QED
  BY <1>3, <1>4 DEF Settled

(* Order: the refresh finds the execution under way.                        *)
LEMMA UnderWayCalm ==
    ASSUME PairTypes, Calm, ReconcileUnderWay, lapses' = {} PROVE Calm'
<1>1. PICK x, r : x = Exec /\ r = ReconciledStatus(Exec)
  OBVIOUS
<1>2. /\ pc = "status" /\ x \in DOMAIN execs /\ SameRoles /\ StatusesKeptBut(x)
      /\ (seen # r => execs'[x].status = r) /\ (seen = r => UNCHANGED execs)
      /\ (Action = "close" => execs'[x].status = r)
  BY <1>1, StatusWritten DEF ReconcileUnderWay
<1>3. /\ UNCHANGED <<legs, position, watch, plan>> /\ Advance
      /\ r \in {"opening", "open", "closing"} /\ (r = "open" => ~HalfInserted(x))
  BY <1>1 DEF ReconcileUnderWay
<1>4. /\ InBatch(x) /\ Action \in {"open", "close"} /\ Action = execs[x].action
      /\ pc' \in {"idle", "leg"}
  BY <1>1, <1>2, <1>3, AtHand DEF Action, Advance
<1>5. SameInserts /\ BatchShrinks
  BY <1>3, SamePlanInserts, AdvanceShrinks
<1>6. /\ r \in {"closed", "open"} => StatusesOf(x) = {"filled"}
      /\ r \in {"opening", "closing"} =>
            StatusesOf(x) # {"filled"} /\ "failed" \notin StatusesOf(x)
      /\ Action = "open" => r \in {"opening", "open"}
      /\ Action = "close" => r = "closing"
  BY <1>1, <1>2, <1>3, <1>4, ReconciledIs DEF PairTypes
<1>7. r \in {"opening", "closing"} => InProgress(x)
  <2>1. This \in DOMAIN legs /\ legs[This].exec = x
    BY <1>1, <1>2, InWork DEF PairTypes, Exec
  <2>2. \A i \in DOMAIN legs : legs[i].status \in ActiveLeg \cup {"filled", "failed"}
    BY LegFacts DEF PairTypes, LegStatuses, EndedLeg
  <2>3. QED
    BY <1>6, <2>1, <2>2 DEF InProgress, StatusesOf, LegsOf
<1>8. r = "open" => Settled(x)'
  BY <1>1, <1>2, <1>3, <1>4, <1>5, <1>6, FilledLeavesBatch DEF Calm
<1>9. CalmRows' /\ CalmBatch' /\ CalmWork'
  <2>1. \A e \in DOMAIN execs :
           execs[e].action = "open" /\ execs'[e].status \in {"open", "closed"} =>
               execs'[e].status = execs[e].status \/ Settled(e)'
    BY <1>2, <1>3, <1>8 DEF StatusesKeptBut
  <2>2. \A c \in DOMAIN execs : execs'[c].status = execs[c].status \/ InBatch(c)
    BY <1>2, <1>4 DEF StatusesKeptBut
  <2>3. \A c \in ClosesInFlight' :
           InProgress(c) \/ (c \in ClosesInFlight /\ (pc = "status" => Exec # c))
    <3>1. TAKE c \in ClosesInFlight'
    <3>2. c \in DOMAIN execs /\ execs[c].action = "close" /\ execs'[c].status \in ActiveExecution
      BY <1>2 DEF ClosesInFlight, SameRoles
    <3>3. c = x => InProgress(c)
      BY <1>4, <1>6, <1>7, <3>2
    <3>4. c # x => c \in ClosesInFlight
      BY <1>2, <3>2 DEF ClosesInFlight, StatusesKeptBut
    <3>5. QED
      BY <1>1, <3>3, <3>4
  <2>4. QED
    BY <1>2, <1>3, <1>4, <1>5, <2>1, <2>2, <2>3, ThreadCalm DEF Calm
<1>10. ASSUME NEW k \in DOMAIN execs, Keeper(k) PROVE Keeper(k)'
  <2>1. execs[k].action = "open" /\ IsOpening(k)' /\ ClosesOf(k)' = ClosesOf(k)
    BY <1>2, <1>10, SameClosesOf DEF Keeper, IsOpening
  <2>2. GivenBack(k)'
    BY <1>4 DEF GivenBack, Returning
  <2>3. \A c \in ClosesOf(k) : Unfinished(c) => Unfinished(c)'
    <3>1. TAKE c \in ClosesOf(k)
    <3>2. c \in DOMAIN execs /\ execs[c].action = "close"
      BY <1>10, ClosesAre DEF PairTypes
    <3>3. c = x => execs'[c].status \in ActiveExecution
      BY <1>2, <1>4, <1>6, <3>2 DEF ActiveExecution
    <3>4. c # x => execs'[c].status = execs[c].status
      BY <1>2, <3>2 DEF StatusesKeptBut
    <3>5. QED
      BY <1>2, <3>3, <3>4 DEF Unfinished, Returning
  <2>4. CASE k # x
    <3>1. execs'[k].status = execs[k].status
      BY <1>2, <2>4 DEF StatusesKeptBut
    <3>2. ~Working(k)
      BY <1>1, <2>4 DEF Working
    <3>3. QED
      BY <1>2, <1>3, <1>5, <1>10, <2>2, <2>3, <3>1, <3>2, KeeperStands
  <2>5. CASE k = x /\ ClosesOf(k) = {}
    <3>1. seen = execs[x].status
      BY <1>1, <1>2, <2>5 DEF Calm, CalmWork, SeenIsStatus
    <3>2. r = "open" => execs'[k].status = "open"
      BY <1>2, <2>5, <3>1
    <3>3. r = "opening" => InProgress(k)'
      BY <1>3, <1>7, <2>5, LegsSayTheSame
    <3>4. Live(k)'
      BY <1>4, <1>6, <2>1, <2>5, <3>2, <3>3 DEF Live
    <3>5. QED
      BY <2>1, <2>5, <3>4 DEF Keeper
  <2>6. CASE k = x /\ ClosesOf(k) # {}
    <3>1. Ended(k)
      BY <2>6 DEF Calm, CalmRows, ClosedAfterEnd
    <3>2. r = "open"
      BY <1>4, <1>6, <1>7, <2>1, <2>6, <3>1 DEF Ended
    <3>3. execs'[k].status = execs[k].status \/ execs'[k].status = "open"
      BY <1>2, <2>6, <3>2
    <3>4. QED
      BY <1>2, <1>3, <1>5, <1>10, <2>2, <2>3, <2>6, <3>3, KeeperStands
  <2>7. QED
    BY <2>4, <2>5, <2>6
<1>11. PositionIsKept'
  <2>1. Spared' = Spared
    BY <1>3 DEF Spared, Watched
  <2>2. QED
    BY <1>2, <1>3, <1>10, <2>1, KeptOver DEF Calm, SameRoles
<1>12. QED
  BY <1>9, <1>11 DEF Calm

(* The thread has closed an execution: nothing is left of what it covered.  *)
LEMMA ClosedCalm ==
    ASSUME PairTypes, Calm, ReconcileClosed, lapses' = {} PROVE Calm'
<1>1. PICK x : x = Exec
  OBVIOUS
<1>2. ReconciledStatus(x) = "closed" /\ ~HalfInserted(x)
  BY <1>1 DEF ReconcileClosed
<1>3. /\ pc = "status" /\ x \in DOMAIN execs /\ SameRoles /\ StatusesKeptBut(x)
  BY <1>1, StatusWritten DEF ReconcileClosed
<1>4. Action = "close" /\ execs[x].action = "close" /\ StatusesOf(x) = {"filled"}
  BY <1>1, <1>2, <1>3, ReconciledIs DEF PairTypes, Action
<1>5. execs'[x].status = "closed"
  BY <1>1, <1>2, <1>4, StatusWritten DEF ReconcileClosed
<1>6. /\ UNCHANGED <<legs, position, watch, plan, batch>> /\ pc' = "readSource"
  BY DEF ReconcileClosed
<1>7. InBatch(x) /\ Exec' = x
  BY <1>1, <1>3, <1>6, AtHand DEF Exec, Row, This
<1>8. SameInserts /\ BatchShrinks
  BY <1>6, SamePlanInserts, SameBatchShrinks
<1>9. CalmRows' /\ CalmBatch' /\ CalmWork'
  <2>1. \A e \in DOMAIN execs :
           execs[e].action = "open" => execs'[e].status = execs[e].status
    BY <1>4, <1>3 DEF StatusesKeptBut
  <2>2. \A c \in DOMAIN execs : execs'[c].status = execs[c].status \/ InBatch(c)
    BY <1>3, <1>7 DEF StatusesKeptBut
  <2>3. \A c \in ClosesInFlight' : c \in ClosesInFlight /\ x # c
    BY <1>3, <1>5 DEF ClosesInFlight, SameRoles, StatusesKeptBut, ActiveExecution
  <2>4. QED
    BY <1>1, <1>3, <1>6, <1>8, <2>1, <2>2, <2>3, ThreadCalm DEF Calm
<1>10. ASSUME Held # {}, NEW k \in DOMAIN execs, Keeper(k) PROVE Keeper(k)'
  <2>1. ~Covers(x)
    <3>1. PICK s \in Held : TRUE
      BY <1>10
    <3>2. ~ToInsert(x, s, position[s])
      BY <1>2 DEF ToInsert, HalfInserted
    <3>3. ~Unfilled(x, s, position[s])
      BY <1>4 DEF Unfilled, Takes, StatusesOf, LegsOf
    <3>4. QED
      BY <3>1, <3>2, <3>3 DEF Covers
  <2>2. x \notin ClosesOf(k)
    BY <1>10, <2>1 DEF Keeper
  <2>3. k # x /\ execs'[k].status = execs[k].status /\ ~Working(k)
    BY <1>1, <1>3, <1>4, <1>10 DEF Keeper, IsOpening, StatusesKeptBut, Working
  <2>4. \A c \in ClosesOf(k) : Unfinished(c) => Unfinished(c)'
    BY <1>3, <2>2 DEF Unfinished, Returning, ClosesOf, StatusesKeptBut
  <2>5. GivenBack(k)'
    <3>1. execs'[x].source # k
      BY <1>3, <2>2 DEF SameRoles, ClosesOf
    <3>2. QED
      BY <1>7, <3>1 DEF GivenBack
  <2>6. QED
    BY <1>3, <1>6, <1>8, <1>10, <2>3, <2>4, <2>5, KeeperStands
<1>11. PositionIsKept'
  <2>1. Spared' = Spared /\ Held' = Held
    BY <1>6 DEF Spared, Watched, Held
  <2>2. QED
    BY <1>3, <1>10, <2>1 DEF Calm, PositionIsKept, SameRoles
<1>12. QED
  BY <1>9, <1>11 DEF Calm

(* Order: the worker reads the opening of a close.                          *)
LEMMA ReadSourceCalm ==
    ASSUME PairTypes, Calm, ReadSource PROVE Calm'
<1>1. /\ UNCHANGED <<execs, legs, position, watch, plan, batch, verdict>>
      /\ pc = "readSource" /\ pc' = "writeSource" /\ seen' = execs[execs[Exec].source].status
  BY DEF ReadSource, tables
<1>2. PICK x, q : x = Exec /\ q = execs[x].source
  OBVIOUS
<1>3. Exec' = x /\ x \in DOMAIN execs /\ seen' = execs[q].status
  BY <1>1, <1>2, SourceIs DEF Exec, Row, This, Returning
<1>4. SameInserts /\ BatchShrinks /\ SameRoles
  BY <1>1, SamePlanInserts, SameBatchShrinks, SameExecs DEF PairTypes
<1>5. CalmRows' /\ CalmBatch' /\ CalmWork'
  <2>1. \A c \in ClosesInFlight' : c \in ClosesInFlight
    BY <1>1 DEF ClosesInFlight
  <2>2. QED
    BY <1>1, <1>4, <2>1, ThreadCalm DEF Calm
<1>6. ASSUME NEW k \in DOMAIN execs, Keeper(k) PROVE Keeper(k)'
  <2>1. ~Working(k)
    BY <1>1 DEF Working
  <2>2. \A c \in ClosesOf(k) : Unfinished(c) => Unfinished(c)'
    BY <1>1, <1>2, <1>3 DEF Unfinished, Returning
  <2>3. ClosesOf(k) # {} => GivenBack(k)'
    <3>1. ClosesOf(k) # {} => GivenBack(k) /\ execs[k].status # "closed"
      BY <1>6 DEF Keeper
    <3>2. QED
      BY <1>1, <1>2, <1>3, <3>1 DEF GivenBack, Returning
  <2>4. QED
    BY <1>1, <1>4, <1>6, <2>1, <2>2, <2>3, KeeperStands
<1>7. PositionIsKept'
  <2>1. Spared' = Spared
    BY <1>1 DEF Spared, Watched
  <2>2. QED
    BY <1>1, <1>6, <2>1, KeptOver DEF Calm
<1>8. QED
  BY <1>5, <1>7 DEF Calm

(* The source gets the verdict: open again, as its keeper has to be.        *)
LEMMA WriteSourceCalm ==
    ASSUME PairTypes, Calm, WriteSource PROVE Calm'
<1>1. PICK x, q : x = Exec /\ q = execs[x].source
  OBVIOUS
<1>2. /\ UNCHANGED <<legs, position, watch, plan>> /\ Advance
      /\ pc = "writeSource" /\ pc' \in {"idle", "leg"}
  BY DEF WriteSource, Advance
<1>3. /\ x \in DOMAIN execs /\ IsOpening(q) /\ InBatch(x) /\ Returning /\ x \in ClosesOf(q)
  BY <1>1, <1>2, SourceIs, AtHand DEF Returning, ClosesOf
<1>4. /\ SameRoles /\ StatusesKeptBut(q) /\ ClosesKeepStatus
      /\ seen = "closed" => UNCHANGED execs
      /\ seen # "closed" => execs'[q].status = verdict
  BY <1>1, SourceWritten
<1>5. SameInserts /\ BatchShrinks
  BY <1>2, SamePlanInserts, AdvanceShrinks
<1>6. Settled(q)'
  <2>1. Ended(q)
    BY <1>3 DEF Calm, CalmRows, ClosedAfterEnd, IsOpening
  <2>2. ~InBatch(q)
    BY <1>3 DEF Calm, CalmBatch, ClosesComeLater, InBatch
  <2>3. Ended(q)' = Ended(q)
    BY <1>2, <1>4, <1>5, CalmRowsStand DEF Calm
  <2>4. QED
    BY <1>5, <2>1, <2>2, <2>3, ShrinkingBatch DEF Settled
<1>7. CalmRows' /\ CalmBatch' /\ CalmWork'
  <2>1. \A e \in DOMAIN execs : execs'[e].status = execs[e].status \/ Settled(e)'
    BY <1>4, <1>6 DEF StatusesKeptBut
  <2>2. \A c \in DOMAIN execs : execs[c].action = "close" => execs'[c].status = execs[c].status
    BY <1>4 DEF ClosesKeepStatus
  <2>3. \A c \in ClosesInFlight' : c \in ClosesInFlight
    BY <1>4, <2>2 DEF ClosesInFlight, SameRoles
  <2>4. QED
    BY <1>2, <1>4, <1>5, <2>1, <2>2, <2>3, ThreadCalm DEF Calm
<1>8. ASSUME NEW k \in DOMAIN execs, Keeper(k) PROVE Keeper(k)'
  <2>1. GivenBack(k)' /\ ~Working(k)
    BY <1>2 DEF GivenBack, Returning, Working
  <2>2. CASE k # q
    <3>1. execs'[k].status = execs[k].status
      BY <1>4, <2>2 DEF StatusesKeptBut
    <3>2. ASSUME NEW c \in ClosesOf(k), Unfinished(c) PROVE Unfinished(c)'
      <4>1. c \in DOMAIN execs /\ execs[c].action = "close" /\ execs[c].source = k
        BY <1>8, ClosesAre DEF PairTypes
      <4>2. c # x
        BY <1>1, <2>2, <4>1
      <4>3. QED
        BY <1>1, <1>4, <3>2, <4>1, <4>2 DEF Unfinished, ClosesKeepStatus
    <3>3. QED
      BY <1>2, <1>4, <1>5, <1>8, <2>1, <3>1, <3>2, KeeperStands
  <2>3. CASE k = q
    <3>1. GivenBack(q)
      BY <1>3, <1>8, <2>3 DEF Keeper
    <3>2. verdict = "open" /\ seen # "closed"
      BY <1>1, <1>2, <1>3, <3>1 DEF GivenBack
    <3>3. execs'[k].status = "open"
      BY <1>4, <2>3, <3>2
    <3>4. QED
      BY <1>2, <1>4, <1>5, <1>8, <2>1, <3>3, KeeperStands
  <2>4. QED
    BY <2>2, <2>3
<1>9. PositionIsKept'
  <2>1. Spared' = Spared
    BY <1>2 DEF Spared, Watched
  <2>2. QED
    BY <1>2, <1>4, <1>8, <2>1, KeptOver DEF Calm, SameRoles
<1>10. QED
  BY <1>7, <1>9 DEF Calm

(* A failed opening is dropped: it holds nothing, or is still getting legs. *)
LEMMA DropCalm ==
    ASSUME PairTypes, Calm, DropFailedOpening PROVE Calm'
<1>1. PICK x : x = Exec
  OBVIOUS
<1>2. /\ UNCHANGED <<execs, legs, position, watch, plan>> /\ Advance
      /\ pc = "openFailed" /\ pc' \in {"idle", "leg"} /\ ~Exposed(x)
  BY <1>1 DEF DropFailedOpening, Advance
<1>3. SameInserts /\ BatchShrinks /\ SameRoles
  BY <1>2, SamePlanInserts, AdvanceShrinks, SameExecs DEF PairTypes
<1>4. CalmRows' /\ CalmBatch' /\ CalmWork'
  <2>1. \A c \in ClosesInFlight' : c \in ClosesInFlight
    BY <1>2 DEF ClosesInFlight
  <2>2. QED
    BY <1>2, <1>3, <2>1, ThreadCalm DEF Calm
<1>5. x \in DOMAIN execs /\ execs[x].action = "open"
  BY <1>1, <1>2, AtHand DEF PairTypes, WorkTypes, Action
<1>6. Held # {} => HalfInserted(x)
  <2> SUFFICES ASSUME NEW s \in Held, HasBothLegs(x) PROVE FALSE
    BY <1>5 DEF Calm, CalmRows, OpeningsGetLegs
  <2>1. PICK i \in LegsOf(x) : legs[i].side = s
    BY DEF Held, HasBothLegs
  <2>2. QED
    BY <1>2, <2>1 DEF Exposed, Held
<1>7. ASSUME Held # {}, NEW k \in DOMAIN execs, Keeper(k) PROVE Keeper(k)'
  <2>1. Working(k) /\ ClosesOf(k) = {} => Live(k)'
    <3>1. Working(k) => HalfInserted(k)
      BY <1>1, <1>6, <1>7 DEF Working
    <3>2. QED
      BY <1>3, <3>1, InsertsStand DEF Live
  <2>2. \A c \in ClosesOf(k) : Unfinished(c) => Unfinished(c)'
    BY <1>2 DEF Unfinished, Returning
  <2>3. GivenBack(k)'
    BY <1>2 DEF GivenBack, Returning
  <2>4. QED
    BY <1>2, <1>3, <1>7, <2>1, <2>2, <2>3, KeeperStands
<1>8. PositionIsKept'
  <2>1. Spared' = Spared /\ Held' = Held
    BY <1>2 DEF Spared, Watched, Held
  <2>2. QED
    BY <1>2, <1>7, <2>1 DEF Calm, PositionIsKept
<1>9. QED
  BY <1>4, <1>8 DEF Calm

(* Order: a forced close is planned.                                        *)
LEMMA ScheduleCalm ==
    ASSUME PairTypes, Calm, ScheduleForceClose PROVE Calm'
<1>1. /\ UNCHANGED <<execs, legs, position, watch, batch>>
      /\ pc = "openFailed" /\ pc' = "forced"
  BY DEF ScheduleForceClose, tables
<1>2. /\ \A r \in Planners \ {"execution"} : plan'[r] = plan[r]
      /\ plan'["execution"].pc # "insert" /\ plan["execution"].pc # "insert"
  BY <1>1, ForceCloseScheduled DEF PairTypes, WorkTypes
<1>3. SameInserts
  BY <1>2, MoveInserts
<1>4. BatchShrinks /\ SameRoles /\ Exec' = Exec
  BY <1>1, SameBatchShrinks, SameExecs DEF PairTypes, Exec, Row, This
<1>5. CalmRows' /\ CalmBatch' /\ CalmWork'
  <2>1. \A c \in ClosesInFlight' : c \in ClosesInFlight
    BY <1>1 DEF ClosesInFlight
  <2>2. QED
    BY <1>1, <1>3, <1>4, <2>1, ThreadCalm DEF Calm
<1>6. ASSUME NEW k \in DOMAIN execs, Keeper(k) PROVE Keeper(k)'
  <2>1. Working(k) => Live(k)'
    BY <1>1, <1>4 DEF Working, Live
  <2>2. \A c \in ClosesOf(k) : Unfinished(c) => Unfinished(c)'
    BY <1>1 DEF Unfinished, Returning
  <2>3. GivenBack(k)'
    BY <1>1 DEF GivenBack, Returning
  <2>4. QED
    BY <1>1, <1>3, <1>4, <1>6, <2>1, <2>2, <2>3, KeeperStands
<1>7. PositionIsKept'
  <2>1. Spared' = Spared
    BY <1>1, <1>2 DEF Spared, Watched, Planners
  <2>2. QED
    BY <1>1, <1>6, <2>1, KeptOver DEF Calm
<1>8. QED
  BY <1>5, <1>7 DEF Calm

(* The forced close is at its end, one way or the other.                    *)
LEMMA ForcedEnds ==
    ASSUME PairTypes, Calm, pc = "forced", Advance, UNCHANGED <<legs, position, watch>>,
           SameRoles, ClosesKeepStatus, plan["execution"].pc # "insert",
           plan' = [plan EXCEPT !["execution"] = Idle],
           \A e \in DOMAIN execs : execs[e].action = "open" =>
               execs'[e].status = execs[e].status \/ execs'[e].status = "closing"
    PROVE  CalmRows' /\ CalmBatch' /\ CalmWork' /\ SameInserts /\ Spared' = Spared
<1>1. /\ plan'["execution"] = Idle /\ \A r \in Planners \ {"execution"} : plan'[r] = plan[r]
      /\ "position" \in Planners
  BY IdleIsPlan, PlanReplaced DEF PairTypes, Planners
<1>2. SameInserts
  BY <1>1, IdleIsPlan, MoveInserts
<1>3. Spared' = Spared
  BY <1>1 DEF Spared, Watched
<1>4. BatchShrinks /\ pc' # "status"
  BY AdvanceShrinks DEF Advance
<1>5. \A c \in ClosesInFlight' : c \in ClosesInFlight
  BY DEF ClosesInFlight, SameRoles, ClosesKeepStatus
<1>6. CalmRows' /\ CalmBatch' /\ CalmWork'
  BY <1>2, <1>4, <1>5, ThreadCalm DEF Calm, ClosesKeepStatus
<1>7. QED
  BY <1>2, <1>3, <1>6

(* Order: the forced close has its opening marked.                          *)
LEMMA ForcedMarkCalm ==
    ASSUME PairTypes, Calm, ForceCloseMarked, lapses' = {} PROVE Calm'
<1>1. PICK x : x = Exec
  OBVIOUS
<1>2. /\ pc = "forced" /\ Advance /\ UNCHANGED <<legs, position, watch>>
      /\ MarkClosing("execution") /\ plan' = [plan EXCEPT !["execution"] = Idle]
      /\ "execution" \in Closers /\ pc' \in {"idle", "leg"}
  BY DEF ForceCloseMarked, Closers, Advance
<1>3. SameRoles /\ ClosesKeepStatus /\ plan["execution"].pc = "mark"
  BY <1>2, Marked
<1>4. \A e \in DOMAIN execs : execs[e].action = "open" =>
          \/ execs'[e].status = execs[e].status
          \/ execs'[e].status = "closing" /\ ClosesInFlight \cap ClosesOf(e) # {}
  BY <1>2, MarkedInTime
<1>5. CalmRows' /\ CalmBatch' /\ CalmWork' /\ SameInserts /\ Spared' = Spared
  BY <1>2, <1>3, <1>4, ForcedEnds
<1>6. ClosesOf(x) # {}
  <2>1. x = plan["execution"].source
    BY <1>1, <1>2 DEF PairTypes, WorkTypes
  <2>2. QED
    BY <1>2, <2>1 DEF MarkClosing
<1>7. ASSUME NEW k \in DOMAIN execs, Keeper(k) PROVE Keeper(k)'
  <2>1. execs[k].action = "open"
    BY <1>7 DEF Keeper, IsOpening
  <2>2. Working(k) => ClosesOf(k) # {}
    BY <1>1, <1>6 DEF Working
  <2>3. ASSUME NEW c \in ClosesOf(k), Unfinished(c) PROVE Unfinished(c)'
    <3>1. c \in DOMAIN execs /\ execs[c].action = "close"
      BY <1>7, ClosesAre DEF PairTypes
    <3>2. QED
      BY <1>2, <1>3, <2>3, <3>1 DEF Unfinished, Returning, ClosesKeepStatus
  <2>4. GivenBack(k)'
    BY <1>2 DEF GivenBack, Returning
  <2>5. QED
    BY <1>2, <1>3, <1>4, <1>5, <1>7, <2>1, <2>2, <2>3, <2>4, KeeperStands
<1>8. PositionIsKept'
  BY <1>2, <1>3, <1>5, <1>7, KeptOver DEF Calm, SameRoles
<1>9. QED
  BY <1>5, <1>8 DEF Calm

(* Order: the forced close finds nothing to plan.                           *)
LEMMA ForcedStopCalm ==
    ASSUME PairTypes, Calm, ForceCloseImpossible, lapses' = {} PROVE Calm'
<1>1. /\ pc = "forced" /\ Advance /\ UNCHANGED <<execs, legs, position, watch>>
      /\ plan' = [plan EXCEPT !["execution"] = Idle] /\ plan["execution"].pc = "plan"
      /\ NotPlanned("execution", {})
  BY DEF ForceCloseImpossible, NothingToPlan
<1>2. SameRoles /\ ClosesKeepStatus
  BY <1>1, SameExecs DEF PairTypes, ClosesKeepStatus
<1>3. CalmRows' /\ CalmBatch' /\ CalmWork'
  BY <1>1, <1>2, ForcedEnds
<1>4. Held' = {}
  BY <1>1 DEF NotPlanned, Held
<1>5. QED
  BY <1>3, <1>4 DEF Calm, PositionIsKept

(* An execution has failed: its legs without an order are ended, the retries *)
(* of a close are used up, and what it covered is still to be traded.        *)
FailedLegs(x) ==
    /\ SameLegRoles
    /\ \A i \in DOMAIN legs :
          /\ legs[i].exec # x => legs'[i] = legs[i]
          /\ legs'[i].oid = legs[i].oid /\ legs'[i].retry = legs[i].retry
          /\ legs'[i].qty = legs[i].qty /\ legs'[i].traded = legs[i].traded
          /\ legs[i].status \notin ActiveLeg \/ legs[i].oid => legs'[i] = legs[i]
          /\ legs[i].exec = x /\ legs[i].status \in ActiveLeg /\ ~legs[i].oid =>
                \/ /\ legs'[i].status = "filled" /\ legs'[i].filled = 0
                   /\ position[legs[i].side] = 0
                \/ legs'[i].status = "failed" /\ legs'[i].filled = legs[i].filled

(* When the legs of a failed execution are ended, no other execution        *)
(* notices.                                                                 *)
LEMMA FailedAnswers ==
    ASSUME PairTypes, NEW x, FailedLegs(x), UNCHANGED plan
    PROVE  /\ \A e : e # x => InProgress(e)' = InProgress(e)
           /\ \A e : HasBothLegs(e)' = HasBothLegs(e) /\ HalfInserted(e)' = HalfInserted(e)
           /\ \A e : UsedUp(e)' = UsedUp(e)
           /\ \A e : Ended(e) => Ended(e)'
<1>1. SameLegRoles
  BY DEF FailedLegs
<1>2. \A e : HasBothLegs(e)' = HasBothLegs(e) /\ LegsOf(e)' = LegsOf(e)
  BY <1>1, SameSides
<1>3. \A e : e # x => InProgress(e)' = InProgress(e)
  BY <1>1, LegsAnswer DEF FailedLegs
<1>4. \A e : HalfInserted(e)' = HalfInserted(e)
  BY DEF HalfInserted
<1>5. \A e : UsedUp(e)' = UsedUp(e)
  BY <1>2 DEF UsedUp, FailedLegs, LegsOf
<1>6. \A e : ~InProgress(e) => ~InProgress(e)'
  <2> SUFFICES ASSUME NEW e, NEW i \in DOMAIN legs', legs'[i].exec = e,
                      legs'[i].status \in ActiveLeg
               PROVE InProgress(e)
    BY DEF InProgress, StatusesOf, LegsOf
  <2>1. i \in DOMAIN legs /\ legs[i].exec = e
    BY <1>1 DEF SameLegRoles
  <2>2. legs[i].status \in ActiveLeg
    BY <2>1 DEF FailedLegs, ActiveLeg
  <2>3. QED
    BY <2>1, <2>2, InProgressMeans
<1>7. \A e : Ended(e) => Ended(e)'
  BY <1>2, <1>4, <1>6 DEF Ended
<1>8. QED
  BY <1>2, <1>3, <1>4, <1>5, <1>7

(* A close that covers what is held still does.                             *)
LEMMA FailedCovers ==
    ASSUME PairTypes, NEW x, FailedLegs(x), UNCHANGED <<plan, position>>, NEW c, Covers(c)
    PROVE  Covers(c)'
<1>1. Held' = Held /\ position \in [Sides -> Nat]
  BY DEF Held, PairTypes, OtherTypes
<1>2. ASSUME NEW s \in Held
      PROVE  ToInsert(c, s, position[s])' \/ Unfilled(c, s, position[s])'
  <2>1. PICK m : m = position[s]
    OBVIOUS
  <2>2. m = position'[s] /\ m > 0
    BY <2>1 DEF Held
  <2>3. CASE ToInsert(c, s, m)
    <3>1. ToInsert(c, s, m)'
      BY <2>3 DEF ToInsert
    <3>2. QED
      BY <2>2, <3>1, Zenon
  <2>4. CASE Unfilled(c, s, m)
    <3>1. PICK i \in DOMAIN legs :
              /\ legs[i].exec = c /\ legs[i].side = s
              /\ Takes(m, legs[i].status, legs[i].filled, legs[i].qty, legs[i].traded)
      BY <2>4 DEF Unfilled
    <3>2. /\ legs'[i].status # "filled" /\ legs'[i].filled = legs[i].filled
          /\ legs'[i].qty = legs[i].qty /\ legs'[i].traded = legs[i].traded
      BY <2>1, <2>2, <3>1 DEF FailedLegs, Takes
    <3>3. Takes(m, legs'[i].status, legs'[i].filled, legs'[i].qty, legs'[i].traded)
      BY <3>1, <3>2 DEF Takes
    <3>4. Unfilled(c, s, m)'
      BY <3>1, <3>3 DEF Unfilled, FailedLegs, SameLegRoles
    <3>5. QED
      BY <2>2, <3>4, Zenon
  <2>5. QED
    BY <2>1, <2>3, <2>4 DEF Covers
<1>3. QED
  BY <1>1, <1>2, Zenon DEF Covers

(* Order: the refresh finds a failed leg.                                   *)
LEMMA FailedCalm ==
    ASSUME PairTypes, Calm, ReconcileFailed PROVE Calm'
<1>1. PICK x : x = Exec
  OBVIOUS
<1>2. /\ pc = "status" /\ x \in DOMAIN execs /\ SameRoles /\ StatusesKeptBut(x)
      /\ Action = "close" => execs'[x].status = "failed"
      /\ execs'[x].status \in {"failed", execs[x].status}
      /\ ReconciledStatus(x) = "failed"
  <2>1. WriteStatus /\ ReconciledStatus(x) = "failed"
    BY <1>1 DEF ReconcileFailed
  <2>2. QED
    BY <1>1, <2>1, StatusWritten
<1>3. "failed" \in StatusesOf(x) /\ Action = execs[x].action /\ InBatch(x)
      /\ Action \in {"open", "close"}
  BY <1>1, <1>2, ReconciledIs, AtHand DEF PairTypes, Action
<1>4. /\ UNCHANGED <<position, watch, plan, batch>> /\ Exec' = x
      /\ Action = "close" => pc' = "readSource" /\ verdict' = IF UsedUp(x) THEN "open" ELSE "closing"
      /\ Action # "close" => pc' = "openFailed"
  BY <1>1 DEF ReconcileFailed, Exec, Row, This
<1>5. FailedLegs(x)
  BY <1>1, LegsFinalized DEF ReconcileFailed, FailedLegs
<1>6. /\ \A e : e # x => InProgress(e)' = InProgress(e)
      /\ \A e : HasBothLegs(e)' = HasBothLegs(e) /\ HalfInserted(e)' = HalfInserted(e)
      /\ \A e : UsedUp(e)' = UsedUp(e)
      /\ \A e : Ended(e) => Ended(e)'
  BY <1>4, <1>5, FailedAnswers
<1>7. Action = "close" => UsedUp(x)
  <2>1. PICK i \in LegsOf(x) : legs[i].status = "failed"
    BY <1>3 DEF StatusesOf
  <2>2. QED
    BY <1>3, <2>1 DEF Calm, CalmRows, FailedIsUsedUp, LegsOf
<1>8. CalmRows'
  <2>1. ActiveIsReachable'
    <3>1. \A i \in DOMAIN legs : legs'[i] = legs[i] \/ legs'[i].status \notin ActiveLeg
      BY <1>5 DEF FailedLegs, ActiveLeg
    <3>2. QED
      BY <1>5, <3>1 DEF FailedLegs, SameLegRoles, Calm, CalmRows, ActiveIsReachable
  <2>2. FailedIsUsedUp'
    <3>1. ASSUME NEW i \in DOMAIN legs', legs'[i].status = "failed", NEW e, e = legs'[i].exec,
                 execs'[e].action = "close"
          PROVE  UsedUp(e)'
      <4>1. i \in DOMAIN legs /\ e = legs[i].exec /\ e \in DOMAIN execs
        BY <1>5, <3>1, LegIs DEF FailedLegs, SameLegRoles, PairTypes
      <4>2. execs[e].action = "close"
        BY <1>2, <3>1, <4>1 DEF SameRoles
      <4>3. CASE e = x
        BY <1>3, <1>6, <1>7, <4>2, <4>3
      <4>4. CASE e # x
        <5>1. legs[i].status = "failed"
          BY <1>5, <3>1, <4>1, <4>4 DEF FailedLegs
        <5>2. QED
          BY <1>6, <4>1, <4>2, <5>1 DEF Calm, CalmRows, FailedIsUsedUp
      <4>5. QED
        BY <4>3, <4>4
    <3>2. QED
      BY <3>1 DEF FailedIsUsedUp
  <2>3. OpeningsGetLegs'
    BY <1>2, <1>6 DEF Calm, CalmRows, OpeningsGetLegs, SameRoles
  <2>4. ClosedAfterEnd'
    BY <1>2, <1>6, SameClosesOf DEF Calm, CalmRows, ClosedAfterEnd, SameRoles
  <2>5. QED
    BY <2>1, <2>2, <2>3, <2>4 DEF CalmRows
<1>9. CalmBatch'
  <2>1. BatchShrinks
    BY <1>4, SameBatchShrinks
  <2>2. \A e \in DOMAIN execs :
           execs'[e].status = execs[e].status \/ (e = x /\ execs'[e].status = "failed")
    BY <1>2 DEF StatusesKeptBut
  <2>3. QED
    BY <1>2, <1>3, <1>4, <1>6, <2>1, <2>2, CalmBatchStands DEF Calm
<1>10. CalmWork'
  <2>1. InFlightMoves'
    <3>1. ASSUME NEW c \in ClosesInFlight' PROVE (InProgress(c) \/ HalfInserted(c))'
      <4>1. c \in DOMAIN execs /\ execs[c].action = "close" /\ execs'[c].status \in ActiveExecution
        BY <1>2 DEF ClosesInFlight, SameRoles
      <4>2. c # x
        BY <1>2, <1>3, <4>1 DEF ActiveExecution
      <4>3. c \in ClosesInFlight
        BY <1>2, <4>1, <4>2 DEF ClosesInFlight, StatusesKeptBut
      <4>4. InProgress(c) \/ HalfInserted(c)
        BY <1>1, <4>2, <4>3 DEF Calm, CalmWork, InFlightMoves
      <4>5. InProgress(c)' = InProgress(c) /\ HalfInserted(c)' = HalfInserted(c)
        BY <1>6, <4>2
      <4>6. QED
        BY <4>4, <4>5
    <3>2. QED
      BY <3>1 DEF InFlightMoves
  <2>2. SeenIsStatus'
    BY <1>4 DEF SeenIsStatus
  <2>3. QED
    BY <2>1, <2>2 DEF CalmWork
<1>11. ASSUME NEW k \in DOMAIN execs, Keeper(k) PROVE Keeper(k)'
  <2>1. IsOpening(k)' /\ ClosesOf(k)' = ClosesOf(k) /\ execs[k].action = "open"
    BY <1>2, <1>11, SameClosesOf DEF Keeper, IsOpening
  <2>2. \A c : Covers(c) => Covers(c)'
    BY <1>4, <1>5, FailedCovers
  <2>3. ClosesOf(k) = {} => Live(k)'
    <3>1. CASE k = x
      BY <1>3, <1>4, <2>1, <3>1 DEF Live, Working
    <3>2. CASE k # x
      <4>1. execs'[k].status = execs[k].status /\ ~Working(k)
        BY <1>1, <1>2, <3>2 DEF StatusesKeptBut, Working
      <4>2. InProgress(k)' = InProgress(k) /\ HalfInserted(k)' = HalfInserted(k)
        BY <1>6, <3>2
      <4>3. QED
        BY <1>11, <4>1, <4>2 DEF Keeper, Live
    <3>3. QED
      BY <3>1, <3>2
  <2>4. \A c \in ClosesOf(k) : Unfinished(c) => Unfinished(c)'
    <3>1. TAKE c \in ClosesOf(k)
    <3>2. c \in DOMAIN execs /\ execs[c].action = "close"
      BY <1>11, ClosesAre DEF PairTypes
    <3>3. c = x => Unfinished(c)'
      BY <1>3, <1>4, <3>2 DEF Unfinished, Returning
    <3>4. c # x => execs'[c].status = execs[c].status
      BY <1>2, <3>2 DEF StatusesKeptBut
    <3>5. QED
      BY <1>2, <3>3, <3>4 DEF Unfinished, Returning
  <2>5. GivenBack(k)'
    BY <1>3, <1>4, <1>7 DEF GivenBack, Returning
  <2>6. ASSUME ClosesOf(k) # {}
        PROVE  /\ execs'[k].status # "closed"
               /\ execs'[k].status = "open" \/ \E c \in ClosesOf(k) : Unfinished(c)
    <3>1. /\ execs[k].status # "closed"
          /\ execs[k].status = "open" \/ \E c \in ClosesOf(k) : Unfinished(c)
      BY <1>11, <2>6 DEF Keeper
    <3>2. k # x => execs'[k].status = execs[k].status
      BY <1>2 DEF StatusesKeptBut
    <3>3. k = x => execs[k].status # "open"
      BY <1>3, <2>1 DEF Calm, CalmBatch, OpenIsSettled, Settled
    <3>4. QED
      BY <1>2, <3>1, <3>2, <3>3
  <2>7. QED
    BY <1>11, <2>1, <2>2, <2>3, <2>4, <2>5, <2>6 DEF Keeper
<1>12. PositionIsKept'
  <2>1. Spared' = Spared
    BY <1>4 DEF Spared, Watched
  <2>2. QED
    BY <1>2, <1>4, <1>11, <2>1, KeptOver DEF Calm, SameRoles
<1>13. QED
  BY <1>8, <1>9, <1>10, <1>12 DEF Calm

-----------------------------------------------------------------------------
(* The invariant.                                                           *)

(* A lapse is never forgotten.                                              *)
LEMMA LapsesStay == ASSUME PairTypes, Next PROVE lapses \subseteq lapses'
<1>1. ProcessLeg => lapses \subseteq lapses'
  BY ProcessLegWorks DEF PairTypes, LegWorked, MoreLapses
<1>2. ASSUME NEW p, CreateClose(p) \/ MarkClosing(p) \/ NothingToPlan(p) \/ InsertLeg(p)
      PROVE  lapses \subseteq lapses'
  BY <1>2 DEF CreateClose, MarkClosing, NothingToPlan, NotPlanned, InsertLeg
<1>3. ExecutionThread => lapses \subseteq lapses'
  BY <1>1, <1>2 DEF ExecutionThread, ScanLegs, ReconcileUnderWay, ReconcileClosed,
     ReconcileFailed, ReadSource, WriteSource, DropFailedOpening, ScheduleForceClose,
     ForceCloseMarked, ForceCloseImpossible
<1>4. PositionThread => lapses \subseteq lapses'
  BY <1>2 DEF PositionThread, ScanPositions, CheckClose, InspectPositions, Forget,
     ResolveCloseReason, PositionPlanImpossible, MarkWatched
<1>5. OpportunityThread \/ WebProcess => lapses \subseteq lapses'
  BY <1>2 DEF OpportunityThread, CreateOpen, WebProcess, WebRequest, RequestClose,
     DisableRule, RequestImpossible, RequestMarked, ListOpenExecutions, CloseDisabled
<1>6. Surroundings => lapses \subseteq lapses'
  BY DEF Surroundings, CooldownExpires, WorkerDies, RequestDies
<1>7. QED
  BY <1>3, <1>4, <1>5, <1>6 DEF Next

(* With no row nothing is out of order.                                     *)
LEMMA CalmInitially == Init => Calm
<1> SUFFICES ASSUME Init PROVE Calm
  OBVIOUS
<1>1. DOMAIN execs = {} /\ DOMAIN legs = {} /\ DOMAIN batch = {} /\ watch = {} /\ Held = {}
      /\ pc = "idle"
  BY DEF Init, NoLegs, Held
<1>2. CalmRows
  BY <1>1 DEF CalmRows, ActiveIsReachable, FailedIsUsedUp, OpeningsGetLegs, ClosedAfterEnd
<1>3. CalmBatch
  BY <1>1 DEF CalmBatch, OpenIsSettled, WatchedIsSettled, ClosesComeLater
<1>4. CalmWork
  BY <1>1 DEF CalmWork, InFlightMoves, ClosesInFlight, SeenIsStatus
<1>5. QED
  BY <1>1, <1>2, <1>3, <1>4 DEF Calm, PositionIsKept

(* Every step that is no lapse keeps the pair in order.                     *)
LEMMA StepsKeepCalm == ASSUME PairTypes, Calm, Next, lapses' = {} PROVE Calm'
<1>1. {"execution", "position", "web"} \subseteq Closers
      /\ {"execution", "position", "web", "opportunity"} \subseteq Planners
  BY DEF Closers, Planners
<1>2. CASE ExecutionThread
  BY <1>1, <1>2, ScanLegsCalm, ProcessLegCalm, UnderWayCalm, ClosedCalm, FailedCalm,
     ReadSourceCalm, WriteSourceCalm, DropCalm, ScheduleCalm, ForcedMarkCalm, ForcedStopCalm,
     CreateCloseCalm, InsertLegCalm DEF ExecutionThread
<1>3. CASE PositionThread
  BY <1>1, <1>3, ScanPositionsCalm, CheckCloseCalm, InspectCalm, ForgetCalm, ResolveCalm,
     PlanImpossibleCalm, MarkWatchedCalm, CreateCloseCalm, InsertLegCalm DEF PositionThread
<1>4. CASE OpportunityThread
  BY <1>1, <1>4, CreateOpenCalm, InsertLegCalm DEF OpportunityThread
<1>5. CASE WebProcess
  BY <1>1, <1>5, RequestCloseCalm, DisableRuleCalm, RequestImpossibleCalm, RequestMarkedCalm,
     ListCalm, CloseDisabledCalm, CreateCloseCalm, InsertLegCalm DEF WebProcess, WebRequest
<1>6. CASE Surroundings
  BY <1>6, CooldownCalm, WorkerDiesCalm, RequestDiesCalm DEF Surroundings
<1>7. QED
  BY <1>2, <1>3, <1>4, <1>5, <1>6 DEF Next

(* The invariant holds at the start.                                        *)
LEMMA InvInitially == Init => PairInv
  BY TypesInitially, CalmInitially DEF PairInv

(* The invariant is inductive.                                              *)
LEMMA StepsKeepInv == PairInv /\ [Next]_vars => PairInv'
<1>1. ASSUME PairInv, Next PROVE PairInv'
  BY <1>1, StepsKeepTypes, StepsKeepCalm, LapsesStay DEF PairInv
<1>2. ASSUME PairInv, UNCHANGED vars PROVE PairInv'
  <2>1. /\ UNCHANGED <<execs, legs, position, cooldown, enabled, pc, batch, seen, verdict,
                       watch, plan, sweep, lapses>>
    BY <1>2 DEF vars
  <2>2. PairTypes'
    <3>1. ExecTypes' /\ RolesKept /\ ClosesKeepStatus /\ MoreLapses /\ SameLegRoles
      BY <1>2, <2>1, RowsStand, SameLegs DEF PairInv
    <3>2. LegTypes' /\ OtherTypes' /\ PlanTypes' /\ BatchTypes' /\ WorkTypes'
      BY <1>2, <2>1, <3>1, LegsStand, OtherStand, PlansStand, BatchStands, WorkStands
         DEF PairInv, PairTypes
    <3>3. QED
      BY <3>1, <3>2 DEF PairTypes
  <2>3. PairTypes /\ Calm => Calm'
    <3>1. Spared' = Spared
      BY <2>1 DEF Spared, Watched
    <3>2. QED
      BY <2>1, <3>1, SamePlanInserts, RowsUntouched DEF worker
  <2>4. QED
    BY <1>2, <2>1, <2>2, <2>3 DEF PairInv
<1>3. QED
  BY <1>1, <1>2

(* The inductive invariant: the types, and what holds as long as nothing    *)
(* the code does not guard against has happened.                            *)
THEOREM PairInvariance == Spec => []PairInv
  BY InvInitially, StepsKeepInv, PTL DEF Spec

(* The types in parts are the types, and more.                              *)
LEMMA TypesSuffice == PairTypes => TypeOK
<1> SUFFICES ASSUME PairTypes PROVE TypeOK
  OBVIOUS
<1> USE DEF PairTypes
<1>1. \A e \in DOMAIN execs : execs[e].action = "close" =>
        execs[e].source \in DOMAIN execs /\ execs[execs[e].source].action = "open"
  BY DEF ExecTypes, IsOpening
<1>2. \A i \in DOMAIN legs :
        /\ legs[i].exec \in DOMAIN execs
        /\ legs[i].status \in ActiveLeg =>
              legs[i].retry < RetryLimit /\ legs[i].traded < legs[i].qty
  BY DEF LegTypes, Trading
<1>3. execs \in Seq(Executions) /\ legs \in Seq(Legs)
  BY DEF ExecTypes, LegTypes
<1>4. /\ position \in [Sides -> Nat]
      /\ {cooldown, enabled} \subseteq BOOLEAN
      /\ \A e \in watch \cup sweep : e \in DOMAIN execs /\ execs[e].action = "open"
      /\ lapses \subseteq {"crash", "gap", "refused", "half", "late", "early",
                           "borrowed", "stale", "misbooked"}
  BY DEF OtherTypes, IsOpening
<1>5. /\ pc \in {"idle", "leg", "status", "openFailed", "forced", "readSource",
                  "writeSource"}
      /\ pc = "idle" <=> DOMAIN batch = {}
  BY DEF BatchTypes, ThreadSteps
<1>6. DOMAIN batch \subseteq DOMAIN legs
  BY DEF BatchTypes, ReadTypes
<1>7. QED
  BY <1>1, <1>2, <1>3, <1>4, <1>5, <1>6 DEF TypeOK

(* However many executions there are, a row of arbitrage_order_legs belongs *)
(* to an execution there is and a close to an opening there is, a leg in    *)
(* progress has retries left and an order that is not filled, the worker    *)
(* has legs in hand exactly when it is not idle, and the position thread    *)
(* and the sweep of a disabled rule work on openings only.                  *)
THEOREM PairTyped == Spec => []TypeOK
<1>1. PairInv => TypeOK
  BY TypesSuffice DEF PairInv
<1>2. QED
  BY <1>1, PairInvariance, PTL

(* While a position is held, its keeper, or a close of its keeper that is   *)
(* in flight, is what looks after it.                                       *)
LEMMA KeptIsLookedAfter == PairInv => PositionLookedAfter
<1> SUFFICES ASSUME PairTypes, Calm, Held # {}, ~SomeoneWorks
             PROVE  LegInHand \/ OpenAndWatched
  BY DEF PairInv, PositionLookedAfter
<1>1. PICK k \in DOMAIN execs : Keeper(k)
  BY DEF Calm, PositionIsKept
<1>2. execs[k].action = "open"
  BY <1>1 DEF Keeper, IsOpening
<1>3. \A e : InProgress(e) => LegInHand
  BY InProgressMeans DEF Calm, CalmRows, ActiveIsReachable, LegInHand
<1>4. pc = "idle" /\ \A e : ~HalfInserted(e)
  BY DEF SomeoneWorks, HalfInserted
<1>5. CASE ClosesOf(k) = {}
  BY <1>1, <1>2, <1>3, <1>4, <1>5 DEF Keeper, Live, Working, OpenAndWatched
<1>6. CASE ClosesOf(k) # {}
  <2>1. execs[k].status = "open" \/ \E c \in ClosesOf(k) : Unfinished(c)
    BY <1>1, <1>6 DEF Keeper
  <2>2. CASE execs[k].status = "open"
    BY <1>2, <2>2 DEF OpenAndWatched
  <2>3. ASSUME NEW c \in ClosesOf(k), Unfinished(c) PROVE LegInHand
    <3>1. c \in ClosesInFlight
      BY <1>1, <1>4, <2>3, ClosesAre DEF Unfinished, Returning, ClosesInFlight, PairTypes
    <3>2. QED
      BY <1>3, <1>4, <3>1 DEF Calm, CalmWork, InFlightMoves
  <2>4. QED
    BY <2>1, <2>2, <2>3
<1>7. QED
  BY <1>5, <1>6

(* A position is never left to itself.  With no lapse behind it and no      *)
(* thread in the middle of its work, either the worker has a leg of it to   *)
(* process, or its opening is open and the position thread watches it: the  *)
(* refresh of a pair (arbitrage_execution_service.py) and the thread that   *)
(* closes it (arbitrage_position_service.py) never both consider it done.   *)
THEOREM PositionsAreLookedAfter == Spec => []PositionLookedAfter
  BY KeptIsLookedAfter, PairInvariance, PTL
=============================================================================
