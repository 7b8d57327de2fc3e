--------------------------- MODULE TransferProofs ---------------------------
(***************************************************************************)
(* Proofs about Transfers, for any number of accounts, records, workers    *)
(* and faults: money moves at most once, an executing record has its       *)
(* worker, what a record says is true, a freeze is earned.                 *)
(*                                                                         *)
(* Worker and web requests change the records and the workers' state in    *)
(* few ways, and there is one lemma for each (QuietKeeps, CreateKeeps,     *)
(* DeleteKeeps, ClaimKeeps, TurnKeeps, ReportKeeps, SettleKeeps,           *)
(* LeaveKeeps); the lemma of an action reduces it to one of them.  The     *)
(* types of the rest (SideInv) and the guards (BlameInv) are taken one     *)
(* after the other in the same way.                                        *)
(***************************************************************************)
EXTENDS Transfers, TLAPS

IdsOrNone == Transfer \cup {0}
WalletsOrNone == Wallets \cup {0}
KindsOrNone == FaultKinds \cup {"none"}
Makers == Creators \cup {"manual", "none"}
WorkSteps == {"off", "idle", "scan"} \cup Holding \cup AfterStatus
TodoSets == SUBSET Transfer

RecordStates == [from : WalletsOrNone, to : WalletsOrNone, by : Makers,
                 status : RecordStatuses]
Loads(P, T, I, K, G) == [pc : P, todo : T, id : I, resolved : BOOLEAN,
                         before : Int, kind : K, seen : G]
WorkStates == Loads(WorkSteps, TodoSets, IdsOrNone, KindsOrNone, GuardStates)
MoneyStates == [inner : Nat, out : Nat, credited : BOOLEAN, forward : Nat]
HandSteps == {"idle", "check", "insert", "address", "look", "clear"}
HandStates == [pc : HandSteps, from : WalletsOrNone, to : WalletsOrNone,
               seen : GuardStates, kinds : SUBSET FaultKinds]

-----------------------------------------------------------------------------
(* The invariant.                                                           *)

CoreTypes ==
    /\ record \in [Transfer -> RecordStates]
    /\ lastId \in 0 .. MaxTransfers
    /\ work \in [TransferWorkers -> WorkStates]
    /\ money \in [Transfer -> MoneyStates]
    /\ dropped \subseteq Transfer

(* Where the money of a record is, given the step of its worker.            *)
BeforeOut == {"load", "internal", "inner", "resolve", "withdraw"}
AfterOut == {"before", "credit", "forward"}

AtMostOnce(m) == m.inner <= 1 /\ m.out <= 1 /\ m.forward <= 1

MoneyAt(pc, m, swap) ==
    /\ AtMostOnce(m)
    /\ pc \in {"load", "internal", "inner"} => m.inner = 0
    /\ pc \in BeforeOut => m.out = 0
    /\ pc \in BeforeOut \cup AfterOut => m.forward = 0
    /\ pc \in AfterOut \cup SuccessSteps => m.out = 1
    /\ pc \in SuccessSteps => (swap => m.forward = 1)

(* An id is kept exactly from the claim to the end of the record's pass.    *)
WorkSound(w) ==
    /\ work[w].pc \in Holding \cup AfterStatus <=> work[w].id \in Transfer
    /\ work[w].pc \in Holding =>
          /\ record[work[w].id].status \in {"executing", "deleted"}
          /\ MoneyAt(work[w].pc, money[work[w].id], record[work[w].id].to \in SwapWallets)
    /\ work[w].pc \in AfterStatus =>
          record[work[w].id].status \in {"failed", "deleted"}

RecordSound(r) ==
    /\ r > lastId => record[r].status = "none"
    /\ record[r].status # "none" => record[r].from \in Wallets /\ record[r].to \in Wallets
    /\ record[r].status \in {"none", "pending"} =>
          money[r].inner = 0 /\ money[r].out = 0 /\ money[r].forward = 0
    /\ record[r].status = "executing" /\ r \notin dropped =>
          \E w \in TransferWorkers : work[w].id = r /\ work[w].pc \in Holding
    /\ record[r].status = "success" =>
          money[r].out = 1 /\ (record[r].to \in SwapWallets => money[r].forward = 1)
    /\ AtMostOnce(money[r])

CoreInv ==
    /\ CoreTypes
    /\ OneExecutor
    /\ \A w \in TransferWorkers : WorkSound(w)
    /\ \A r \in Transfer : RecordSound(r)

-----------------------------------------------------------------------------
(* What a change of a worker's state leaves of it.                          *)
Shows(e, pc, id, kind, seen) ==
    e.pc = pc /\ e.id = id /\ e.kind = kind /\ e.seen = seen

Becomes(w, pc, id, kind, seen) ==
    /\ work' \in [TransferWorkers -> WorkStates]
    /\ Shows(work'[w], pc, id, kind, seen)
    /\ \A v \in TransferWorkers : v # w => work'[v] = work[v]

(* Writing a whole new state into work[w] is a Becomes.                     *)
LEMMA Replaced ==
    ASSUME work \in [TransferWorkers -> WorkStates], NEW w \in TransferWorkers,
           NEW r \in WorkStates, work' = [work EXCEPT ![w] = r],
           NEW pc, NEW id, NEW kind, NEW seen, Shows(r, pc, id, kind, seen)
    PROVE  Becomes(w, pc, id, kind, seen)
  BY SMT DEF Becomes

(* An unladen worker is in a state of its type and shows what it says.      *)
LEMMA NewLoad ==
    ASSUME NEW P, NEW T, NEW I, NEW K, NEW G, NEW p \in P, NEW t \in T,
           0 \in I, "none" \in K, NoGuard \in G
    PROVE  /\ Unladen(p, t) \in Loads(P, T, I, K, G)
           /\ Shows(Unladen(p, t), p, 0, "none", NoGuard)
  BY DEF Loads, Unladen, Shows

(* The absent guard is a guard state that blames nobody.                    *)
LEMMA NoGuardState == NoGuard \in GuardStates /\ ~NoGuard.frozen /\ NoGuard.count = 0
  BY DEF NoGuard, GuardStates

(* The same, for the actual types.                                          *)
LEMMA NewWork ==
    ASSUME NEW p \in WorkSteps, NEW t \in TodoSets
    PROVE  /\ Unladen(p, t) \in WorkStates
           /\ Shows(Unladen(p, t), p, 0, "none", NoGuard)
<1>1. 0 \in IdsOrNone /\ "none" \in KindsOrNone
  BY DEF IdsOrNone, KindsOrNone
<1>2. QED
  BY <1>1, NoGuardState, NewLoad, Zenon DEF WorkStates

(* Changing the step keeps the type and everything the proof looks at.      *)
LEMMA LoadPc ==
    ASSUME NEW P, NEW T, NEW I, NEW K, NEW G, NEW r \in Loads(P, T, I, K, G),
           NEW x \in P
    PROVE  /\ [r EXCEPT !.pc = x] \in Loads(P, T, I, K, G)
           /\ Shows([r EXCEPT !.pc = x], x, r.id, r.kind, r.seen)
  BY DEF Loads, Shows

(* A worker that only changes its step.                                     *)
LEMMA WorkPc ==
    ASSUME work \in [TransferWorkers -> WorkStates], NEW w \in TransferWorkers,
           NEW x \in WorkSteps,
           work' = [work EXCEPT ![w] = [work[w] EXCEPT !.pc = x]]
    PROVE  Becomes(w, x, work[w].id, work[w].kind, work[w].seen)
<1>1. work[w] \in WorkStates
  BY SMT
<1>2. /\ [work[w] EXCEPT !.pc = x] \in WorkStates
      /\ Shows([work[w] EXCEPT !.pc = x], x, work[w].id, work[w].kind, work[w].seen)
  BY <1>1, LoadPc, Zenon DEF WorkStates
<1>3. QED
  BY <1>2, Replaced, Zenon

(* Changing the fault and the step keeps the type.                          *)
LEMMA LoadKindPc ==
    ASSUME NEW P, NEW T, NEW I, NEW K, NEW G, NEW r \in Loads(P, T, I, K, G),
           NEW x \in P, NEW y \in K
    PROVE  /\ [r EXCEPT !.kind = y, !.pc = x] \in Loads(P, T, I, K, G)
           /\ Shows([r EXCEPT !.kind = y, !.pc = x], x, r.id, y, r.seen)
  BY DEF Loads, Shows

(* A worker that notes a fault and changes its step.                        *)
LEMMA WorkKindPc ==
    ASSUME work \in [TransferWorkers -> WorkStates], NEW w \in TransferWorkers,
           NEW x \in WorkSteps, NEW y \in KindsOrNone,
           work' = [work EXCEPT ![w] = [work[w] EXCEPT !.kind = y, !.pc = x]]
    PROVE  Becomes(w, x, work[w].id, y, work[w].seen)
<1>1. work[w] \in WorkStates
  BY SMT
<1>2. /\ [work[w] EXCEPT !.kind = y, !.pc = x] \in WorkStates
      /\ Shows([work[w] EXCEPT !.kind = y, !.pc = x], x, work[w].id, y, work[w].seen)
  BY <1>1, LoadKindPc, Zenon DEF WorkStates
<1>3. QED
  BY <1>2, Replaced, Zenon

(* Changing the step and the list keeps the type.                           *)
LEMMA LoadPcTodo ==
    ASSUME NEW P, NEW T, NEW I, NEW K, NEW G, NEW r \in Loads(P, T, I, K, G),
           NEW x \in P, NEW y \in T
    PROVE  /\ [r EXCEPT !.pc = x, !.todo = y] \in Loads(P, T, I, K, G)
           /\ Shows([r EXCEPT !.pc = x, !.todo = y], x, r.id, r.kind, r.seen)
  BY DEF Loads, Shows

(* A worker that reads its list of records and changes its step.            *)
LEMMA WorkPcTodo ==
    ASSUME work \in [TransferWorkers -> WorkStates], NEW w \in TransferWorkers,
           NEW x \in WorkSteps, NEW y \in TodoSets,
           work' = [work EXCEPT ![w] = [work[w] EXCEPT !.pc = x, !.todo = y]]
    PROVE  Becomes(w, x, work[w].id, work[w].kind, work[w].seen)
<1>1. work[w] \in WorkStates
  BY SMT
<1>2. /\ [work[w] EXCEPT !.pc = x, !.todo = y] \in WorkStates
      /\ Shows([work[w] EXCEPT !.pc = x, !.todo = y], x, work[w].id, work[w].kind, work[w].seen)
  BY <1>1, LoadPcTodo, Zenon DEF WorkStates
<1>3. QED
  BY <1>2, Replaced, Zenon

(* Changing the list keeps the type.                                        *)
LEMMA LoadTodo ==
    ASSUME NEW P, NEW T, NEW I, NEW K, NEW G, NEW r \in Loads(P, T, I, K, G),
           NEW y \in T
    PROVE  /\ [r EXCEPT !.todo = y] \in Loads(P, T, I, K, G)
           /\ Shows([r EXCEPT !.todo = y], r.pc, r.id, r.kind, r.seen)
  BY DEF Loads, Shows

(* A worker that passes over a record of its list.                          *)
LEMMA WorkTodo ==
    ASSUME work \in [TransferWorkers -> WorkStates], NEW w \in TransferWorkers,
           NEW y \in TodoSets,
           work' = [work EXCEPT ![w] = [work[w] EXCEPT !.todo = y]]
    PROVE  Becomes(w, work[w].pc, work[w].id, work[w].kind, work[w].seen)
<1>1. work[w] \in WorkStates
  BY SMT
<1>2. /\ [work[w] EXCEPT !.todo = y] \in WorkStates
      /\ Shows([work[w] EXCEPT !.todo = y], work[w].pc, work[w].id, work[w].kind, work[w].seen)
  BY <1>1, LoadTodo, Zenon DEF WorkStates
<1>3. QED
  BY <1>2, Replaced, Zenon

(* Changing the step, the record and the list keeps the type.               *)
LEMMA LoadPcIdTodo ==
    ASSUME NEW P, NEW T, NEW I, NEW K, NEW G, NEW r \in Loads(P, T, I, K, G),
           NEW x \in P, NEW y \in T, NEW z \in I
    PROVE  /\ [r EXCEPT !.pc = x, !.id = z, !.todo = y] \in Loads(P, T, I, K, G)
           /\ Shows([r EXCEPT !.pc = x, !.id = z, !.todo = y], x, z, r.kind, r.seen)
  BY DEF Loads, Shows

(* A worker that takes up a record of its list.                             *)
LEMMA WorkPcIdTodo ==
    ASSUME work \in [TransferWorkers -> WorkStates], NEW w \in TransferWorkers,
           NEW x \in WorkSteps, NEW y \in TodoSets, NEW z \in IdsOrNone,
           work' = [work EXCEPT ![w] = [work[w] EXCEPT !.pc = x, !.id = z, !.todo = y]]
    PROVE  Becomes(w, x, z, work[w].kind, work[w].seen)
<1>1. work[w] \in WorkStates
  BY SMT
<1>2. /\ [work[w] EXCEPT !.pc = x, !.id = z, !.todo = y] \in WorkStates
      /\ Shows([work[w] EXCEPT !.pc = x, !.id = z, !.todo = y], x, z, work[w].kind, work[w].seen)
  BY <1>1, LoadPcIdTodo, Zenon DEF WorkStates
<1>3. QED
  BY <1>2, Replaced, Zenon

(* Noting the destination keeps the type.                                   *)
LEMMA LoadPcResolved ==
    ASSUME NEW P, NEW T, NEW I, NEW K, NEW G, NEW r \in Loads(P, T, I, K, G),
           NEW x \in P, NEW y \in BOOLEAN
    PROVE  /\ [r EXCEPT !.pc = x, !.resolved = y] \in Loads(P, T, I, K, G)
           /\ Shows([r EXCEPT !.pc = x, !.resolved = y], x, r.id, r.kind, r.seen)
  BY DEF Loads, Shows

(* A worker that has resolved the destination and goes on.                  *)
LEMMA WorkPcResolved ==
    ASSUME work \in [TransferWorkers -> WorkStates], NEW w \in TransferWorkers,
           NEW x \in WorkSteps, NEW y \in BOOLEAN,
           work' = [work EXCEPT ![w] = [work[w] EXCEPT !.pc = x, !.resolved = y]]
    PROVE  Becomes(w, x, work[w].id, work[w].kind, work[w].seen)
<1>1. work[w] \in WorkStates
  BY SMT
<1>2. /\ [work[w] EXCEPT !.pc = x, !.resolved = y] \in WorkStates
      /\ Shows([work[w] EXCEPT !.pc = x, !.resolved = y], x, work[w].id, work[w].kind, work[w].seen)
  BY <1>1, LoadPcResolved, Zenon DEF WorkStates
<1>3. QED
  BY <1>2, Replaced, Zenon

(* Noting a balance keeps the type.                                         *)
LEMMA LoadPcBefore ==
    ASSUME NEW P, NEW T, NEW I, NEW K, NEW G, NEW r \in Loads(P, T, I, K, G),
           NEW x \in P, NEW y \in Int
    PROVE  /\ [r EXCEPT !.pc = x, !.before = y] \in Loads(P, T, I, K, G)
           /\ Shows([r EXCEPT !.pc = x, !.before = y], x, r.id, r.kind, r.seen)
  BY DEF Loads, Shows

(* A worker that notes the balance before the credit and goes on.           *)
LEMMA WorkPcBefore ==
    ASSUME work \in [TransferWorkers -> WorkStates], NEW w \in TransferWorkers,
           NEW x \in WorkSteps, NEW y \in Int,
           work' = [work EXCEPT ![w] = [work[w] EXCEPT !.pc = x, !.before = y]]
    PROVE  Becomes(w, x, work[w].id, work[w].kind, work[w].seen)
<1>1. work[w] \in WorkStates
  BY SMT
<1>2. /\ [work[w] EXCEPT !.pc = x, !.before = y] \in WorkStates
      /\ Shows([work[w] EXCEPT !.pc = x, !.before = y], x, work[w].id, work[w].kind, work[w].seen)
  BY <1>1, LoadPcBefore, Zenon DEF WorkStates
<1>3. QED
  BY <1>2, Replaced, Zenon

(* Noting a guard keeps the type.                                           *)
LEMMA LoadSeenPc ==
    ASSUME NEW P, NEW T, NEW I, NEW K, NEW G, NEW r \in Loads(P, T, I, K, G),
           NEW x \in P, NEW y \in G
    PROVE  /\ [r EXCEPT !.seen = y, !.pc = x] \in Loads(P, T, I, K, G)
           /\ Shows([r EXCEPT !.seen = y, !.pc = x], x, r.id, r.kind, y)
  BY DEF Loads, Shows

(* A worker that notes the guard it has read and goes on.                   *)
LEMMA WorkSeenPc ==
    ASSUME work \in [TransferWorkers -> WorkStates], NEW w \in TransferWorkers,
           NEW x \in WorkSteps, NEW y \in GuardStates,
           work' = [work EXCEPT ![w] = [work[w] EXCEPT !.seen = y, !.pc = x]]
    PROVE  Becomes(w, x, work[w].id, work[w].kind, y)
<1>1. work[w] \in WorkStates
  BY SMT
<1>2. /\ [work[w] EXCEPT !.seen = y, !.pc = x] \in WorkStates
      /\ Shows([work[w] EXCEPT !.seen = y, !.pc = x], x, work[w].id, work[w].kind, y)
  BY <1>1, LoadSeenPc, Zenon DEF WorkStates
<1>3. QED
  BY <1>2, Replaced, Zenon

-----------------------------------------------------------------------------
(* The ways in which a step may change what CoreInv is about.               *)
LEMMA CoreFacts ==
    ASSUME CoreInv, NEW w \in TransferWorkers
    PROVE  /\ work \in [TransferWorkers -> WorkStates] /\ WorkSound(w)
           /\ work[w].pc \in WorkSteps /\ work[w].id \in IdsOrNone
           /\ work[w].kind \in KindsOrNone /\ work[w].todo \subseteq Transfer
           /\ work[w].seen \in GuardStates
  BY SMT DEF CoreInv, CoreTypes, WorkStates, Loads, TodoSets

(* The steps that hold a record, those after the status, and the rest.      *)
LEMMA StepSets ==
    /\ Holding \cap AfterStatus = {}
    /\ \A x \in Holding \cup AfterStatus : x \notin {"off", "idle", "scan"}
    /\ Holding \cup AfterStatus \cup {"idle", "scan"} \subseteq WorkSteps
  BY SMT DEF Holding, AfterStatus, ExchangeSteps, SuccessSteps, FailureSteps, WorkSteps

(* 0 stands for no record.                                                  *)
LEMMA IdKinds == /\ 0 \notin Transfer /\ 0 \in IdsOrNone
                 /\ \A i \in IdsOrNone : i \in Transfer \/ i = 0
  BY SMT DEF Transfer, IdsOrNone

(* A step that leaves records, workers and money alone keeps the invariant. *)
LEMMA QuietKeeps ==
    ASSUME CoreInv, UNCHANGED <<record, lastId, work, money, dropped>>
    PROVE  CoreInv'
  BY Zenon DEF CoreInv, CoreTypes, OneExecutor, WorkSound, RecordSound, MoneyAt, AtMostOnce

(* A worker goes on with the record it holds.                               *)
LEMMA TurnKeeps ==
    ASSUME CoreInv, NEW w \in TransferWorkers, NEW pc, NEW kind, NEW seen,
           Becomes(w, pc, work[w].id, kind, seen), UNCHANGED <<record, lastId, dropped>>,
           money' \in [Transfer -> MoneyStates],
           \A s \in Transfer : s # work[w].id => money'[s] = money[s],
           work[w].pc \in Holding, pc \in Holding,
           MoneyAt(pc, money'[work[w].id], record[work[w].id].to \in SwapWallets)
    PROVE  CoreInv'
<1>1. work[w].id \in Transfer /\ WorkSound(w)
  BY CoreFacts, Zenon DEF WorkSound
<1>2. \A v \in TransferWorkers : v # w => work'[v] = work[v] /\ work[v].id # work[w].id
  BY <1>1, IdKinds, Zenon DEF CoreInv, OneExecutor, Becomes
<1>3. work'[w].id = work[w].id /\ work'[w].pc = pc
  BY Zenon DEF Becomes, Shows
<1>4. CoreTypes'
  BY Zenon DEF CoreInv, CoreTypes, Becomes
<1>5. OneExecutor'
  BY <1>2, <1>3, Zenon DEF CoreInv, OneExecutor
<1>6. WorkSound(w)'
  BY <1>1, <1>3, StepSets, Zenon DEF WorkSound
<1>7. ASSUME NEW v \in TransferWorkers, v # w PROVE WorkSound(v)'
  <2>1. WorkSound(v) /\ work'[v] = work[v] /\ work[v].id # work[w].id
    BY <1>2, <1>7, Zenon DEF CoreInv
  <2>2. work[v].id \in Transfer => money'[work[v].id] = money[work[v].id]
    BY <2>1, Zenon
  <2>3. QED
    BY <2>1, <2>2, Zenon DEF WorkSound
<1>8. ASSUME NEW s \in Transfer PROVE RecordSound(s)'
  <2>1. RecordSound(s)
    BY Zenon DEF CoreInv
  <2>2. CASE s # work[w].id
    BY <1>2, <2>1, <2>2, Zenon DEF RecordSound
  <2>3. CASE s = work[w].id
    <3>1. record[s].status \in {"executing", "deleted"}
      BY <1>1, <2>3, Zenon DEF WorkSound
    <3>2. AtMostOnce(money'[s])
      BY <2>3, Zenon DEF MoneyAt
    <3>3. record[s].status \notin {"none", "pending", "success"}
      BY <3>1
    <3>4. QED
      BY <1>3, <2>1, <2>3, <3>2, <3>3, Zenon DEF RecordSound
  <2>4. QED
    BY <2>2, <2>3, Zenon
<1>9. QED
  BY <1>4, <1>5, <1>6, <1>7, <1>8, Zenon DEF CoreInv

(* A worker reports a fault of a record it has closed.                      *)
LEMMA ReportKeeps ==
    ASSUME CoreInv, NEW w \in TransferWorkers, NEW pc, NEW kind, NEW seen,
           Becomes(w, pc, work[w].id, kind, seen),
           UNCHANGED <<record, lastId, dropped, money>>,
           work[w].pc \in AfterStatus, pc \in AfterStatus
    PROVE  CoreInv'
<1>1. work[w].id \in Transfer /\ WorkSound(w)
  BY CoreFacts, Zenon DEF WorkSound
<1>2. \A v \in TransferWorkers : v # w => work'[v] = work[v]
  BY Zenon DEF Becomes
<1>3. work'[w].id = work[w].id /\ work'[w].pc = pc
  BY Zenon DEF Becomes, Shows
<1>4. CoreTypes'
  BY Zenon DEF CoreInv, CoreTypes, Becomes
<1>5. OneExecutor'
  BY <1>2, <1>3, Zenon DEF CoreInv, OneExecutor
<1>6. WorkSound(w)'
  BY <1>1, <1>3, StepSets, Zenon DEF WorkSound
<1>7. \A v \in TransferWorkers : v # w => WorkSound(v)'
  BY <1>2, Zenon DEF CoreInv, WorkSound
<1>8. ASSUME NEW s \in Transfer PROVE RecordSound(s)'
  <2>1. RecordSound(s)
    BY Zenon DEF CoreInv
  <2>2. work[w].pc \notin Holding
    BY StepSets, Zenon
  <2>3. QED
    BY <1>2, <2>1, <2>2, Zenon DEF RecordSound
<1>9. QED
  BY <1>4, <1>5, <1>6, <1>7, <1>8, Zenon DEF CoreInv

(* A worker lets go of its record, which is closed, deleted or dropped.     *)
LEMMA LeaveKeeps ==
    ASSUME CoreInv, NEW w \in TransferWorkers, NEW pc \in {"idle", "scan"},
           NEW kind, NEW seen, Becomes(w, pc, 0, kind, seen),
           UNCHANGED <<record, lastId, money>>,
           dropped \subseteq dropped', dropped' \subseteq Transfer,
           work[w].pc \in Holding =>
              record[work[w].id].status = "deleted" \/ work[w].id \in dropped'
    PROVE  CoreInv'
<1>1. WorkSound(w)
  BY Zenon DEF CoreInv
<1>2. \A v \in TransferWorkers : v # w => work'[v] = work[v]
  BY Zenon DEF Becomes
<1>3. work'[w].id = 0 /\ work'[w].pc = pc
  BY Zenon DEF Becomes, Shows
<1>4. CoreTypes'
  BY Zenon DEF CoreInv, CoreTypes, Becomes
<1>5. OneExecutor'
  BY <1>2, <1>3, Zenon DEF CoreInv, OneExecutor
<1>6. WorkSound(w)'
  <2>1. pc \notin Holding \cup AfterStatus
    BY StepSets, Zenon
  <2>2. QED
    BY <1>3, <2>1, IdKinds, Zenon DEF WorkSound
<1>7. \A v \in TransferWorkers : v # w => WorkSound(v)'
  BY <1>2, Zenon DEF CoreInv, WorkSound
<1>8. ASSUME NEW s \in Transfer PROVE RecordSound(s)'
  <2>1. RecordSound(s)
    BY Zenon DEF CoreInv
  <2>2. ASSUME record[s].status = "executing", s \notin dropped'
        PROVE  \E v \in TransferWorkers : work'[v].id = s /\ work'[v].pc \in Holding
    <3>1. PICK v \in TransferWorkers : work[v].id = s /\ work[v].pc \in Holding
      BY <2>1, <2>2, Zenon DEF RecordSound
    <3>2. record[s].status # "deleted"
      BY <2>2
    <3>3. v # w
      BY <2>2, <3>1, <3>2, Zenon
    <3>4. QED
      BY <1>2, <3>1, <3>3, Zenon
  <2>3. QED
    BY <2>1, <2>2, Zenon DEF RecordSound
<1>9. QED
  BY <1>4, <1>5, <1>6, <1>7, <1>8, Zenon DEF CoreInv

(* Another status leaves the rest of a record as it is.                     *)
LEMMA RowStatus ==
    ASSUME NEW F, NEW T, NEW B, NEW S, NEW x \in S,
           NEW r \in [from : F, to : T, by : B, status : S]
    PROVE  /\ [r EXCEPT !.status = x] \in [from : F, to : T, by : B, status : S]
           /\ [r EXCEPT !.status = x].status = x
           /\ [r EXCEPT !.status = x].from = r.from
           /\ [r EXCEPT !.status = x].to = r.to
           /\ [r EXCEPT !.status = x].by = r.by
  OBVIOUS

(* Changing the status of a record keeps the rest of it.                    *)
LEMMA RecordStatus ==
    ASSUME NEW x \in RecordStatuses, NEW r \in RecordStates
    PROVE  /\ [r EXCEPT !.status = x] \in RecordStates
           /\ [r EXCEPT !.status = x].status = x
           /\ [r EXCEPT !.status = x].from = r.from
           /\ [r EXCEPT !.status = x].to = r.to
           /\ [r EXCEPT !.status = x].by = r.by
  BY RowStatus, Zenon DEF RecordStates

(* One record changes its status, the rest of the table stays.              *)
Marked(r, x) ==
    /\ record' \in [Transfer -> RecordStates]
    /\ record'[r].status = x /\ record'[r].from = record[r].from
    /\ record'[r].to = record[r].to /\ record'[r].by = record[r].by
    /\ \A s \in Transfer : s # r => record'[s] = record[s]

(* The same, written into the table.                                        *)
LEMMA StatusMarked ==
    ASSUME record \in [Transfer -> RecordStates], NEW r \in Transfer,
           NEW x \in RecordStatuses,
           record' = [record EXCEPT ![r] = [record[r] EXCEPT !.status = x]]
    PROVE  Marked(r, x)
<1>1. record[r] \in RecordStates
  BY SMT
<1>2. record'[r] = [record[r] EXCEPT !.status = x]
  BY SMT
<1>3. /\ record'[r] \in RecordStates /\ record'[r].status = x
      /\ record'[r].from = record[r].from /\ record'[r].to = record[r].to
      /\ record'[r].by = record[r].by
  BY <1>1, <1>2, RecordStatus, Zenon
<1>4. DEFINE e == [record[r] EXCEPT !.status = x]
<1>5. record' = [record EXCEPT ![r] = e] /\ e \in RecordStates
  BY <1>2, <1>3, Zenon
<1>6. \A s \in Transfer : s # r => record'[s] = record[s]
  <2> HIDE DEF e
  <2>1. QED
    BY <1>5, SMT
<1>7. record' \in [Transfer -> RecordStates]
  <2> HIDE DEF e
  <2>1. QED
    BY <1>5, SMT
<1>8. QED
  BY <1>3, <1>6, <1>7, Zenon DEF Marked

(* Every status by name.                                                    *)
LEMMA StatusKinds ==
    /\ {"none", "deleted", "pending", "executing", "success", "failed"}
          \subseteq RecordStatuses
  BY SMT DEF RecordStatuses, Open, Closed

(* What a worker's last update does to its record.                          *)
LEMMA FinishMarks ==
    ASSUME CoreInv, NEW w \in TransferWorkers, work[w].pc \in Holding,
           NEW status \in {"success", "failed"}, Finish(w, status)
    PROVE  \/ record[work[w].id].status = "executing" /\ Marked(work[w].id, status)
           \/ record[work[w].id].status = "deleted" /\ Marked(work[w].id, "deleted")
<1> DEFINE r == work[w].id
<1>1. r \in Transfer /\ record[r].status \in {"executing", "deleted"}
  BY CoreFacts, Zenon DEF WorkSound
<1>2. record \in [Transfer -> RecordStates]
  BY Zenon DEF CoreInv, CoreTypes
<1>3. CASE record[r].status = "deleted"
  <2>1. record' = [record EXCEPT ![r] = record[r]]
    BY <1>3, Zenon DEF Finish
  <2>2. record' = record
    BY <1>1, <1>2, <2>1, SMT
  <2>3. QED
    BY <1>2, <1>3, <2>2, Zenon DEF Marked
<1>4. CASE record[r].status = "executing"
  <2>1. record[r].status # "deleted"
    BY <1>4
  <2>2. record' = [record EXCEPT ![r] = [record[r] EXCEPT !.status = status]]
    BY <2>1, Zenon DEF Finish
  <2>3. status \in RecordStatuses
    BY StatusKinds, Zenon
  <2>4. QED
    BY <1>1, <1>2, <1>4, <2>2, <2>3, StatusMarked, Zenon
<1>5. QED
  BY <1>1, <1>3, <1>4, Zenon

(* A worker closes its record, and lets go of it or reports the fault.      *)
LEMMA SettleKeeps ==
    ASSUME CoreInv, NEW w \in TransferWorkers, work[w].pc \in Holding,
           NEW status \in {"success", "failed"}, Finish(w, status),
           status = "success" => work[w].pc \in SuccessSteps,
           NEW pc, NEW i, NEW kind, NEW seen, Becomes(w, pc, i, kind, seen),
           \/ pc \in {"idle", "scan"} /\ i = 0
           \/ pc \in AfterStatus /\ i = work[w].id /\ status = "failed",
           UNCHANGED <<lastId, money, dropped>>
    PROVE  CoreInv'
<1> DEFINE r == work[w].id
<1>1. /\ r \in Transfer /\ WorkSound(w) /\ RecordSound(r)
      /\ record[r].status \in {"executing", "deleted"}
  BY CoreFacts, Zenon DEF WorkSound, CoreInv
<1>2. \A v \in TransferWorkers : v # w => work'[v] = work[v] /\ work[v].id # r
  BY <1>1, IdKinds, Zenon DEF CoreInv, OneExecutor, Becomes
<1>3. work'[w].id = i /\ work'[w].pc = pc
  BY Zenon DEF Becomes, Shows
<1>4. PICK x \in {"success", "failed", "deleted"} :
         Marked(r, x) /\ (x = status \/ x = "deleted")
  BY FinishMarks, Zenon
<1>5. CoreTypes'
  BY <1>4, Zenon DEF CoreInv, CoreTypes, Becomes, Marked
<1>6. OneExecutor'
  BY <1>2, <1>3, Zenon DEF CoreInv, OneExecutor
<1>7. WorkSound(w)'
  <2>1. CASE pc \in {"idle", "scan"} /\ i = 0
    <3>1. pc \notin Holding \cup AfterStatus
      BY <2>1, StepSets, Zenon
    <3>2. QED
      BY <1>3, <2>1, <3>1, IdKinds, Zenon DEF WorkSound
  <2>2. CASE pc \in AfterStatus /\ i = r /\ status = "failed"
    <3>1. pc \notin Holding
      BY <2>2, StepSets, Zenon
    <3>2. record'[r].status \in {"failed", "deleted"}
      BY <1>4, <2>2, Zenon DEF Marked
    <3>3. QED
      BY <1>1, <1>3, <2>2, <3>1, <3>2, Zenon DEF WorkSound
  <2>3. QED
    BY <2>1, <2>2, Zenon
<1>8. ASSUME NEW v \in TransferWorkers, v # w PROVE WorkSound(v)'
  <2>1. WorkSound(v) /\ work'[v] = work[v] /\ work[v].id # r
    BY <1>2, <1>8, Zenon DEF CoreInv
  <2>2. work[v].id \in Transfer => record'[work[v].id] = record[work[v].id]
    BY <1>4, <2>1, Zenon DEF Marked
  <2>3. QED
    BY <2>1, <2>2, Zenon DEF WorkSound
<1>9. ASSUME NEW s \in Transfer PROVE RecordSound(s)'
  <2>1. RecordSound(s)
    BY Zenon DEF CoreInv
  <2>2. CASE s # r
    <3>1. record'[s] = record[s]
      BY <1>4, <2>2, Zenon DEF Marked
    <3>2. QED
      BY <1>2, <2>1, <2>2, <3>1, Zenon DEF RecordSound
  <2>3. CASE s = r
    <3>1. /\ record'[s].status = x /\ record'[s].from = record[s].from
          /\ record'[s].to = record[s].to
      BY <1>4, <2>3, Zenon DEF Marked
    <3>2. x \notin {"none", "pending", "executing"} /\ record[s].status # "none"
      BY <1>1, <2>3
    <3>3. x = "success" => work[w].pc \in SuccessSteps
      BY <1>4
    <3>4. x = "success" => money[s].out = 1
                           /\ (record[s].to \in SwapWallets => money[s].forward = 1)
      BY <1>1, <2>3, <3>3, Zenon DEF WorkSound, MoneyAt
    <3>5. ~(s > lastId)
      BY <2>1, <3>2, Zenon DEF RecordSound
    <3>6. QED
      BY <2>1, <3>1, <3>2, <3>4, <3>5, Zenon DEF RecordSound
  <2>4. QED
    BY <2>2, <2>3, Zenon
<1>10. QED
  BY <1>5, <1>6, <1>7, <1>8, <1>9, Zenon DEF CoreInv

(* A worker takes a pending record: nobody else has it.                     *)
LEMMA ClaimKeeps ==
    ASSUME CoreInv, NEW w \in TransferWorkers, work[w].pc = "scan",
           NEW r \in Transfer, record[r].status = "pending",
           record' = [record EXCEPT ![r] = [record[r] EXCEPT !.status = "executing"]],
           NEW kind, NEW seen, Becomes(w, "load", r, kind, seen),
           UNCHANGED <<lastId, money, dropped>>
    PROVE  CoreInv'
<1>1. Marked(r, "executing")
  BY StatusMarked, StatusKinds, Zenon DEF CoreInv, CoreTypes
<1>2. RecordSound(r) /\ record[r].status \notin {"none", "executing", "deleted", "failed"}
  BY SMT DEF CoreInv
<1>3. \A v \in TransferWorkers : v # w => work'[v] = work[v]
  BY Zenon DEF Becomes
<1>4. \A v \in TransferWorkers : work[v].id # r
  <2> SUFFICES ASSUME NEW v \in TransferWorkers, work[v].id = r PROVE FALSE
    OBVIOUS
  <2>1. WorkSound(v) /\ work[v].pc \in Holding \cup AfterStatus
    BY CoreFacts, Zenon DEF WorkSound
  <2>2. record[r].status \in {"executing", "deleted"} \cup {"failed", "deleted"}
    BY <2>1, Zenon DEF WorkSound
  <2>3. QED
    BY <1>2, <2>2
<1>5. work'[w].id = r /\ work'[w].pc = "load"
  BY Zenon DEF Becomes, Shows
<1>6. CoreTypes'
  BY <1>1, Zenon DEF CoreInv, CoreTypes, Becomes, Marked
<1>7. OneExecutor'
  BY <1>3, <1>4, <1>5, Zenon DEF CoreInv, OneExecutor
<1>8. "load" \in Holding /\ "load" \notin AfterStatus /\ "load" \notin AfterOut \cup SuccessSteps
  BY SMT DEF Holding, ExchangeSteps, AfterStatus, AfterOut, SuccessSteps
<1>9. WorkSound(w)'
  <2>1. record'[r].status = "executing"
    BY <1>1, Zenon DEF Marked
  <2>2. MoneyAt("load", money[r], record'[r].to \in SwapWallets)
    BY <1>2, <1>8, Zenon DEF RecordSound, MoneyAt
  <2>3. QED
    BY <1>5, <1>8, <2>1, <2>2, Zenon DEF WorkSound
<1>10. ASSUME NEW v \in TransferWorkers, v # w PROVE WorkSound(v)'
  <2>1. WorkSound(v) /\ work'[v] = work[v] /\ work[v].id # r
    BY <1>3, <1>4, <1>10, Zenon DEF CoreInv
  <2>2. work[v].id \in Transfer => record'[work[v].id] = record[work[v].id]
    BY <1>1, <2>1, Zenon DEF Marked
  <2>3. QED
    BY <2>1, <2>2, Zenon DEF WorkSound
<1>11. ASSUME NEW s \in Transfer PROVE RecordSound(s)'
  <2>1. RecordSound(s)
    BY Zenon DEF CoreInv
  <2>2. CASE s # r
    <3>1. record'[s] = record[s]
      BY <1>1, <2>2, Zenon DEF Marked
    <3>2. "scan" \notin Holding
      BY StepSets, Zenon
    <3>3. QED
      BY <1>3, <2>1, <3>1, <3>2, Zenon DEF RecordSound
  <2>3. CASE s = r
    <3>1. /\ record'[s].status = "executing" /\ record'[s].from = record[s].from
          /\ record'[s].to = record[s].to
      BY <1>1, <2>3, Zenon DEF Marked
    <3>2. record'[s].status \notin {"none", "pending", "success"}
      BY <3>1
    <3>3. ~(s > lastId) /\ record[s].from \in Wallets /\ record[s].to \in Wallets
      BY <1>2, <2>3, Zenon DEF RecordSound
    <3>4. QED
      BY <1>5, <1>8, <2>1, <2>3, <3>1, <3>2, <3>3, Zenon DEF RecordSound
  <2>4. QED
    BY <2>2, <2>3, Zenon
<1>12. QED
  BY <1>6, <1>7, <1>9, <1>10, <1>11, Zenon DEF CoreInv

(* A new record: its number was never given out before.                     *)
LEMMA CreateKeeps ==
    ASSUME CoreInv, NEW a \in Wallets, NEW b \in Wallets, NEW by \in Makers,
           Insert(a, b, by), lastId < MaxTransfers,
           UNCHANGED <<work, money, dropped>>
    PROVE  CoreInv'
<1> DEFINE n == lastId + 1
           new == [from |-> a, to |-> b, by |-> by, status |-> "pending"]
<1>1. record \in [Transfer -> RecordStates] /\ lastId \in 0 .. MaxTransfers
  BY Zenon DEF CoreInv, CoreTypes
<1>2. n \in Transfer /\ lastId' \in 0 .. MaxTransfers /\ n > lastId
  BY <1>1, MaxTransfersAssumption, SMT DEF Transfer, Insert
<1>3. \A s \in Transfer : s > lastId' => s > lastId
  BY <1>1, SMT DEF Insert, Transfer
<1>4. record' = [record EXCEPT ![n] = new]
  BY Zenon DEF Insert
<1>5. /\ new \in RecordStates
      /\ new.from = a /\ new.to = b /\ new.status = "pending"
  BY SMT DEF RecordStates, WalletsOrNone, RecordStatuses, Open
<1>6. /\ record' \in [Transfer -> RecordStates] /\ record'[n] = new
      /\ \A s \in Transfer : s # n => record'[s] = record[s]
  <2> HIDE DEF n, new
  <2>1. QED
    BY <1>1, <1>2, <1>4, <1>5, SMT
<1>7. RecordSound(n) /\ record[n].status = "none"
  BY <1>2, Zenon DEF CoreInv, RecordSound
<1>8. ASSUME NEW v \in TransferWorkers PROVE WorkSound(v)'
  <2>1. WorkSound(v) /\ work[v].pc \in WorkSteps
    BY CoreFacts, Zenon
  <2>2. work[v].id # n
    <3>1. work[v].id = n => record[n].status \in {"executing", "deleted", "failed"}
      BY <1>2, <2>1, SMT DEF WorkSound
    <3>2. QED
      BY <1>7, <3>1, SMT
  <2>3. work[v].id \in Transfer => record'[work[v].id] = record[work[v].id]
    BY <1>6, <2>2, Zenon
  <2>4. QED
    BY <2>1, <2>3, Zenon DEF WorkSound
<1>9. ASSUME NEW s \in Transfer PROVE RecordSound(s)'
  <2>1. RecordSound(s)
    BY Zenon DEF CoreInv
  <2>2. CASE s # n
    <3>1. record'[s] = record[s]
      BY <1>6, <2>2, Zenon
    <3>2. QED
      BY <1>3, <2>1, <3>1, Zenon DEF RecordSound
  <2>3. CASE s = n
    <3>1. /\ record'[s].status = "pending" /\ record'[s].from \in Wallets
          /\ record'[s].to \in Wallets
      BY <1>5, <1>6, <2>3, Zenon
    <3>2. ~(s > lastId')
      BY <1>1, <2>3, SMT DEF Insert
    <3>3. record'[s].status \notin {"executing", "success"}
      BY <3>1
    <3>4. QED
      BY <1>7, <2>1, <2>3, <3>1, <3>2, <3>3, Zenon DEF RecordSound
  <2>4. QED
    BY <2>2, <2>3, Zenon
<1>10. CoreTypes' /\ OneExecutor'
  BY <1>2, <1>6, Zenon DEF CoreInv, CoreTypes, OneExecutor
<1>11. QED
  BY <1>8, <1>9, <1>10, Zenon DEF CoreInv

(* An account is deleted with its records: a worker may still hold one.     *)
LEMMA DeleteKeeps ==
    ASSUME CoreInv, NEW a \in Wallets,
           record' = [r \in Transfer |->
              IF record[r].status # "none" /\ a \in {record[r].from, record[r].to}
              THEN [record[r] EXCEPT !.status = "deleted"] ELSE record[r]],
           UNCHANGED <<lastId, work, money, dropped>>
    PROVE  CoreInv'
<1>1. record \in [Transfer -> RecordStates]
  BY Zenon DEF CoreInv, CoreTypes
<1>2. ASSUME NEW r \in Transfer
      PROVE  /\ record'[r] \in RecordStates
             /\ record'[r].from = record[r].from /\ record'[r].to = record[r].to
             /\ \/ record'[r] = record[r]
                \/ record[r].status # "none" /\ record'[r].status = "deleted"
  <2>1. record[r] \in RecordStates
    BY <1>1, SMT
  <2>2. CASE record[r].status # "none" /\ a \in {record[r].from, record[r].to}
    <3>1. record'[r] = [record[r] EXCEPT !.status = "deleted"]
      BY <2>2, Zenon
    <3>2. "deleted" \in RecordStatuses
      BY StatusKinds, SMT
    <3>3. /\ record'[r] \in RecordStates /\ record'[r].status = "deleted"
          /\ record'[r].from = record[r].from /\ record'[r].to = record[r].to
      BY <2>1, <3>1, <3>2, RecordStatus, Zenon
    <3>4. QED
      BY <2>2, <3>3, Zenon
  <2>3. CASE ~(record[r].status # "none" /\ a \in {record[r].from, record[r].to})
    <3>1. record'[r] = record[r]
      BY <2>3, Zenon
    <3>2. QED
      BY <2>1, <3>1, Zenon
  <2>4. QED
    BY <2>2, <2>3, Zenon
<1>3. CoreTypes' /\ OneExecutor'
  <2>1. record' = [r \in Transfer |-> record'[r]]
    BY Zenon
  <2>2. record' \in [Transfer -> RecordStates]
    BY <1>2, <2>1, Zenon
  <2>3. QED
    BY <2>2, Zenon DEF CoreInv, CoreTypes, OneExecutor
<1>4. ASSUME NEW v \in TransferWorkers PROVE WorkSound(v)'
  BY <1>2, Zenon DEF CoreInv, WorkSound
<1>5. ASSUME NEW s \in Transfer PROVE RecordSound(s)'
  <2>1. RecordSound(s)
    BY Zenon DEF CoreInv
  <2>2. CASE record'[s] = record[s]
    BY <2>1, <2>2, Zenon DEF RecordSound
  <2>3. CASE record[s].status # "none" /\ record'[s].status = "deleted"
    <3>1. record'[s].status \notin {"none", "pending", "executing", "success"}
      BY <2>3
    <3>2. QED
      BY <1>2, <2>1, <2>3, <3>1, Zenon DEF RecordSound
  <2>4. QED
    BY <1>2, <2>2, <2>3, Zenon
<1>6. QED
  BY <1>3, <1>4, <1>5, Zenon DEF CoreInv

(* What a function is after one of its values was replaced.                 *)
LEMMA Updated ==
    ASSUME NEW A, NEW B, NEW f \in [A -> B], NEW a \in A, NEW e \in B
    PROVE  /\ [f EXCEPT ![a] = e] \in [A -> B]
           /\ [f EXCEPT ![a] = e][a] = e
           /\ \A b \in A : b # a => [f EXCEPT ![a] = e][b] = f[b]
  BY SMT

(* A credit changes neither of the three counts.                            *)
LEMMA MoneyCredited ==
    ASSUME NEW m \in MoneyStates
    PROVE  /\ [m EXCEPT !.credited = TRUE] \in MoneyStates
           /\ [m EXCEPT !.credited = TRUE].inner = m.inner
           /\ [m EXCEPT !.credited = TRUE].out = m.out
           /\ [m EXCEPT !.credited = TRUE].forward = m.forward
  BY DEF MoneyStates

(* A credit arrives: it counts for nothing the worker did.                  *)
LEMMA CreditKeeps ==
    ASSUME CoreInv, NEW r \in Transfer,
           money' = [money EXCEPT ![r] = [money[r] EXCEPT !.credited = TRUE]],
           UNCHANGED <<record, lastId, work, dropped>>
    PROVE  CoreInv'
<1>1. money \in [Transfer -> MoneyStates] /\ money[r] \in MoneyStates
  BY SMT DEF CoreInv, CoreTypes
<1>2. money' \in [Transfer -> MoneyStates]
  <2>1. [money[r] EXCEPT !.credited = TRUE] \in MoneyStates
    BY <1>1, MoneyCredited, Zenon
  <2>2. QED
    BY <1>1, <2>1, Updated, Zenon
<1>3. ASSUME NEW s \in Transfer
      PROVE  /\ money'[s].inner = money[s].inner /\ money'[s].out = money[s].out
             /\ money'[s].forward = money[s].forward
  <2>1. money'[s] = IF s = r THEN [money[r] EXCEPT !.credited = TRUE] ELSE money[s]
    BY <1>1, SMT
  <2>2. QED
    BY <1>1, <2>1, MoneyCredited, Zenon
<1>4. CoreTypes' /\ OneExecutor'
  BY <1>2, Zenon DEF CoreInv, CoreTypes, OneExecutor
<1>5. ASSUME NEW v \in TransferWorkers PROVE WorkSound(v)'
  <2>1. WorkSound(v)
    BY Zenon DEF CoreInv
  <2>2. ASSUME work[v].pc \in Holding
        PROVE  MoneyAt(work[v].pc, money'[work[v].id],
                       record[work[v].id].to \in SwapWallets)
    <3>1. work[v].id \in Transfer
      BY <2>1, <2>2, Zenon DEF WorkSound
    <3>2. MoneyAt(work[v].pc, money[work[v].id], record[work[v].id].to \in SwapWallets)
      BY <2>1, <2>2, Zenon DEF WorkSound
    <3>3. QED
      BY <1>3, <3>1, <3>2, Zenon DEF MoneyAt, AtMostOnce
  <2>3. QED
    BY <2>1, <2>2, Zenon DEF WorkSound
<1>6. ASSUME NEW s \in Transfer PROVE RecordSound(s)'
  BY <1>3, Zenon DEF CoreInv, RecordSound, AtMostOnce
<1>7. QED
  BY <1>4, <1>5, <1>6, Zenon DEF CoreInv

-----------------------------------------------------------------------------
(* The actions of a worker.                                                 *)
LEMMA FailSteps ==
    /\ {"fail_persist", "fail_status", "oops_persist", "oops_read", "oops_status"}
          \subseteq Holding
    /\ \A x \in {"fail_persist", "fail_status", "oops_persist", "oops_read",
                 "oops_write", "oops_status"} :
          x \in Holding /\ x \notin BeforeOut \cup AfterOut \cup SuccessSteps
          /\ x \notin {"load", "internal", "inner"}
  BY SMT DEF Holding, ExchangeSteps, FailureSteps, BeforeOut, AfterOut, SuccessSteps

(* The steps of failure ask no more of the money than its bounds.           *)
LEMMA FailedMoney ==
    ASSUME NEW x \in {"fail_persist", "fail_status", "oops_persist", "oops_read",
                      "oops_write", "oops_status"}, NEW m, AtMostOnce(m), NEW swap
    PROVE  x \in Holding /\ MoneyAt(x, m, swap)
<1>1. /\ x \in Holding /\ x \notin BeforeOut \cup AfterOut \cup SuccessSteps
      /\ x \notin {"load", "internal", "inner"}
  BY FailSteps, Zenon
<1>2. QED
  BY <1>1, Zenon DEF MoneyAt

(* Steps that hold a record are steps.                                      *)
LEMMA HoldingInSteps == Holding \subseteq WorkSteps /\ AfterStatus \subseteq WorkSteps
  BY StepSets, Zenon

(* What is known of the record a worker holds.                              *)
LEMMA HeldFacts ==
    ASSUME CoreInv, NEW w \in TransferWorkers, work[w].pc \in Holding
    PROVE  /\ work[w].id \in Transfer
           /\ record[work[w].id].status \in {"executing", "deleted"}
           /\ MoneyAt(work[w].pc, money[work[w].id], record[work[w].id].to \in SwapWallets)
           /\ AtMostOnce(money[work[w].id])
           /\ money[work[w].id] \in MoneyStates
           /\ money \in [Transfer -> MoneyStates]
<1>1. WorkSound(w)
  BY Zenon DEF CoreInv
<1>2. /\ work[w].id \in Transfer
      /\ record[work[w].id].status \in {"executing", "deleted"}
      /\ MoneyAt(work[w].pc, money[work[w].id], record[work[w].id].to \in SwapWallets)
  BY <1>1, Zenon DEF WorkSound
<1>3. money \in [Transfer -> MoneyStates]
  BY Zenon DEF CoreInv, CoreTypes
<1>4. money[work[w].id] \in MoneyStates
  BY <1>2, <1>3, SMT
<1>5. QED
  BY <1>2, <1>3, <1>4, Zenon DEF MoneyAt

(* ExchangeError turns the worker to the failure branch.                    *)
LEMMA FailsTurns ==
    ASSUME CoreInv, NEW w \in TransferWorkers, NEW k \in FaultKinds, Fails(w, k)
    PROVE  \E pc \in {"fail_persist", "fail_status"} :
              Becomes(w, pc, work[w].id, k, work[w].seen)
<1>1. work \in [TransferWorkers -> WorkStates]
  BY CoreFacts, Zenon
<1>2. PICK pc \in {"fail_persist", "fail_status"} :
         work' = [work EXCEPT ![w] = [work[w] EXCEPT !.kind = k, !.pc = pc]]
  BY Zenon DEF Fails
<1>3. pc \in WorkSteps /\ k \in KindsOrNone
  <2>1. pc \in Holding
    BY FailSteps, Zenon
  <2>2. QED
    BY <2>1, HoldingInSteps, Zenon DEF KindsOrNone
<1>4. QED
  BY <1>1, <1>2, <1>3, WorkKindPc, Zenon

(* Any other error turns it to the last handler.                            *)
LEMMA BreaksTurns ==
    ASSUME CoreInv, NEW w \in TransferWorkers, NEW k \in FaultKinds, Breaks(w, k)
    PROVE  \E pc \in {"oops_persist", "oops_read", "oops_status"} :
              /\ Becomes(w, pc, work[w].id, k, work[w].seen)
              /\ pc = "oops_read" => k \in FreezeWorthy
<1>1. work \in [TransferWorkers -> WorkStates]
  BY CoreFacts, Zenon
<1>2. PICK pc \in {"oops_persist", "oops_read", "oops_status"} :
         /\ work' = [work EXCEPT ![w] = [work[w] EXCEPT !.kind = k, !.pc = pc]]
         /\ pc = "oops_read" => k \in FreezeWorthy
  <2> DEFINE p == IF work[w].resolved THEN "oops_persist"
                  ELSE IF ToReport(w, k) THEN "oops_read" ELSE "oops_status"
  <2>1. work' = [work EXCEPT ![w] = [work[w] EXCEPT !.kind = k, !.pc = p]]
    BY Zenon DEF Breaks
  <2>2. p \in {"oops_persist", "oops_read", "oops_status"}
    BY Zenon
  <2>3. p = "oops_read" => k \in FreezeWorthy
    BY SMT DEF ToReport
  <2> HIDE DEF p
  <2>4. QED
    BY <2>1, <2>2, <2>3, Zenon
<1>3. pc \in WorkSteps /\ k \in KindsOrNone
  <2>1. pc \in Holding
    BY FailSteps, Zenon
  <2>2. QED
    BY <2>1, HoldingInSteps, Zenon DEF KindsOrNone
<1>4. QED
  BY <1>1, <1>2, <1>3, WorkKindPc, Zenon

(* A failure of a call that moved nothing.                                  *)
LEMMA FailsKeeps ==
    ASSUME CoreInv, NEW w \in TransferWorkers, work[w].pc \in Holding,
           NEW k \in FaultKinds, Fails(w, k),
           UNCHANGED <<record, lastId, dropped, money>>
    PROVE  CoreInv'
<1>1. PICK pc \in {"fail_persist", "fail_status"} :
         Becomes(w, pc, work[w].id, k, work[w].seen)
  BY FailsTurns, Zenon
<1>2. pc \in Holding /\ MoneyAt(pc, money[work[w].id], record[work[w].id].to \in SwapWallets)
  BY HeldFacts, FailedMoney, Zenon
<1>3. QED
  BY <1>1, <1>2, HeldFacts, TurnKeeps, Zenon

(* The last handler keeps the invariant.                                    *)
LEMMA BreaksKeeps ==
    ASSUME CoreInv, NEW w \in TransferWorkers, work[w].pc \in Holding,
           NEW k \in FaultKinds, Breaks(w, k),
           UNCHANGED <<record, lastId, dropped, money>>
    PROVE  CoreInv'
<1>1. PICK pc \in {"oops_persist", "oops_read", "oops_status"} :
         Becomes(w, pc, work[w].id, k, work[w].seen)
  BY BreaksTurns, Zenon
<1>2. pc \in Holding /\ MoneyAt(pc, money[work[w].id], record[work[w].id].to \in SwapWallets)
  BY HeldFacts, FailedMoney, Zenon
<1>3. QED
  BY <1>1, <1>2, HeldFacts, TurnKeeps, Zenon

(* A worker goes on and nothing moved.                                      *)
LEMMA GoesKeeps ==
    ASSUME CoreInv, NEW w \in TransferWorkers, work[w].pc \in Holding,
           NEW pc \in Holding, NEW kind, NEW seen,
           Becomes(w, pc, work[w].id, kind, seen),
           MoneyAt(pc, money[work[w].id], record[work[w].id].to \in SwapWallets),
           UNCHANGED <<record, lastId, dropped, money>>
    PROVE  CoreInv'
  BY HeldFacts, TurnKeeps, Zenon

(* An exchange call, whether it answers, refuses or loses its reply.        *)
LEMMA CallKeeps ==
    ASSUME CoreInv, NEW w \in TransferWorkers, work[w].pc \in Holding,
           NEW pc \in Holding, NEW account \in MoneyStates, NEW potAfter,
           MoneyAt(pc, account, record[work[w].id].to \in SwapWallets),
           Call(w, WithPc(w, pc), account, potAfter)
    PROVE  CoreInv'
<1> DEFINE r == work[w].id
<1>1. UNCHANGED <<record, lastId, dropped>>
  BY Zenon DEF Call, ledger
<1>2. ASSUME money' = [money EXCEPT ![r] = account]
      PROVE  /\ money' \in [Transfer -> MoneyStates] /\ money'[r] = account
             /\ \A s \in Transfer : s # r => money'[s] = money[s]
  BY <1>2, HeldFacts, Updated, Zenon
<1>3. CASE work' = WithPc(w, pc) /\ money' = [money EXCEPT ![r] = account]
  <2>1. pc \in WorkSteps
    BY HoldingInSteps, Zenon
  <2>2. Becomes(w, pc, r, work[w].kind, work[w].seen)
    BY <1>3, <2>1, CoreFacts, WorkPc, Zenon DEF WithPc
  <2>3. QED
    BY <1>1, <1>2, <1>3, <2>2, TurnKeeps, Zenon
<1>4. CASE (\E k \in RefusalKinds : Fails(w, k)) /\ UNCHANGED money
  <2>1. PICK k \in FaultKinds : Fails(w, k)
    BY <1>4, RefusalAssumption, Zenon
  <2>2. QED
    BY <1>1, <1>4, <2>1, FailsKeeps, Zenon
<1>5. CASE Fails(w, "temporary_network") /\ money' = [money EXCEPT ![r] = account]
  <2>1. "temporary_network" \in FaultKinds
    BY DEF FaultKinds, PassingFaults
  <2>2. PICK x \in {"fail_persist", "fail_status"} :
           Becomes(w, x, r, "temporary_network", work[w].seen)
    BY <1>5, <2>1, FailsTurns, Zenon
  <2>3. AtMostOnce(account)
    BY Zenon DEF MoneyAt
  <2>4. x \in Holding /\ MoneyAt(x, account, record[r].to \in SwapWallets)
    BY <2>3, FailedMoney, Zenon
  <2>5. QED
    BY <1>1, <1>2, <1>5, <2>2, <2>4, TurnKeeps, Zenon
<1>6. QED
  BY <1>3, <1>4, <1>5, Zenon DEF Call, exchange

(* A worker between records holds none.                                     *)
LEMMA RestingId ==
    ASSUME CoreInv, NEW w \in TransferWorkers, work[w].pc \in {"idle", "scan"}
    PROVE  work[w].id = 0 /\ work[w].pc \notin Holding
<1>1. work[w].pc \notin Holding \cup AfterStatus
  BY StepSets, Zenon
<1>2. QED
  BY <1>1, CoreFacts, IdKinds, Zenon DEF WorkSound

(* What a scan reads is a list of records.                                  *)
LEMMA PendingIsTransfer == {r \in Transfer : record[r].status = "pending"} \in TodoSets
  BY DEF TodoSets

(* Reading the pending records keeps the invariant.                         *)
LEMMA ScanKeeps ==
    ASSUME CoreInv, NEW w \in TransferWorkers, Scan(w) PROVE CoreInv'
<1> DEFINE seen == {r \in Transfer : record[r].status = "pending"}
<1>1. /\ work' = [work EXCEPT ![w] = [work[w] EXCEPT !.pc = "scan", !.todo = seen]]
      /\ UNCHANGED <<record, lastId, money, dropped>> /\ work[w].pc = "idle"
  BY Zenon DEF Scan, ledger, exchange, history
<1>2. seen \in TodoSets /\ "scan" \in WorkSteps
  BY PendingIsTransfer DEF WorkSteps
<1>3. work[w].id = 0 /\ work[w].pc \notin Holding
  BY <1>1, RestingId, Zenon
<1>4. Becomes(w, "scan", 0, work[w].kind, work[w].seen)
  <2> HIDE DEF seen
  <2>1. QED
    BY <1>1, <1>2, <1>3, CoreFacts, WorkPcTodo, Zenon
<1>5. dropped' \subseteq Transfer /\ dropped \subseteq dropped'
  BY <1>1, Zenon DEF CoreInv, CoreTypes
<1>6. QED
  BY <1>1, <1>3, <1>4, <1>5, LeaveKeeps, Zenon

(* So does claiming the first of them, or passing over it.                  *)
LEMMA ClaimActionKeeps ==
    ASSUME CoreInv, NEW w \in TransferWorkers, Claim(w) PROVE CoreInv'
<1>1. PICK r \in work[w].todo : TakeUp(w, r)
  BY Zenon DEF Claim
<1>2. work[w].pc = "scan" /\ UNCHANGED <<lastId, money, dropped>>
  BY Zenon DEF Claim, exchange, history
<1>3. /\ r \in Transfer /\ r \in IdsOrNone
      /\ work[w].todo \ {r} \in TodoSets
      /\ work \in [TransferWorkers -> WorkStates]
  <2>1. work[w].todo \subseteq Transfer /\ work \in [TransferWorkers -> WorkStates]
    BY CoreFacts, Zenon
  <2>2. QED
    BY <2>1, SMT DEF IdsOrNone, TodoSets
<1>4. "load" \in WorkSteps
  BY SMT DEF WorkSteps, Holding, ExchangeSteps
<1>5. CASE MayClaim(r)
  <2>1. record[r].status = "pending"
    BY <1>5, Zenon DEF MayClaim
  <2>2. record' = [record EXCEPT ![r] = [record[r] EXCEPT !.status = "executing"]]
    BY <1>1, <1>5, Zenon DEF TakeUp
  <2>3. work' = [work EXCEPT ![w] = [work[w] EXCEPT !.pc = "load", !.id = r,
                                            !.todo = work[w].todo \ {r}]]
    BY <1>1, <1>5, Zenon DEF TakeUp
  <2>4. Becomes(w, "load", r, work[w].kind, work[w].seen)
    BY <1>3, <1>4, <2>3, WorkPcIdTodo, Zenon
  <2>5. QED
    BY <1>2, <1>3, <2>1, <2>2, <2>4, ClaimKeeps, Zenon
<1>6. CASE ~MayClaim(r)
  <2>1. work[w].id = 0 /\ work[w].pc \notin Holding
    BY <1>2, RestingId, Zenon
  <2>2. /\ UNCHANGED record
        /\ work' = [work EXCEPT ![w] = [work[w] EXCEPT !.todo = work[w].todo \ {r}]]
    BY <1>1, <1>6, Zenon DEF TakeUp
  <2>3. Becomes(w, "scan", 0, work[w].kind, work[w].seen)
    BY <1>2, <1>3, <2>1, <2>2, WorkTodo, Zenon
  <2>4. dropped' \subseteq Transfer /\ dropped \subseteq dropped'
    BY <1>2, Zenon DEF CoreInv, CoreTypes
  <2>5. QED
    BY <1>2, <2>1, <2>2, <2>3, <2>4, LeaveKeeps, Zenon
<1>7. QED
  BY <1>5, <1>6, Zenon

(* So does the end of a pass.                                               *)
LEMMA EndPassKeeps ==
    ASSUME CoreInv, NEW w \in TransferWorkers, EndPass(w) PROVE CoreInv'
<1>1. /\ work' = [work EXCEPT ![w] = [work[w] EXCEPT !.pc = "idle"]]
      /\ UNCHANGED <<record, lastId, money, dropped>> /\ work[w].pc = "scan"
  BY Zenon DEF EndPass, Goes, ledger, exchange, history
<1>2. "idle" \in WorkSteps
  BY DEF WorkSteps
<1>3. work[w].id = 0 /\ work[w].pc \notin Holding
  BY <1>1, RestingId, Zenon
<1>4. Becomes(w, "idle", 0, work[w].kind, work[w].seen)
  BY <1>1, <1>2, <1>3, CoreFacts, WorkPc, Zenon
<1>5. dropped' \subseteq Transfer /\ dropped \subseteq dropped'
  BY <1>1, Zenon DEF CoreInv, CoreTypes
<1>6. QED
  BY <1>1, <1>3, <1>4, <1>5, LeaveKeeps, Zenon

(* Going to the next record lets go of this one.                            *)
LEMMA NextRecordLeaves ==
    ASSUME CoreInv, NEW w \in TransferWorkers, NextRecord(w)
    PROVE  Becomes(w, "scan", 0, "none", NoGuard)
<1>1. work[w].todo \in TodoSets /\ "scan" \in WorkSteps
  BY CoreFacts, SMT DEF TodoSets, WorkSteps
<1>2. QED
  BY <1>1, CoreFacts, NewWork, Replaced, Zenon DEF NextRecord

(* So does starting from the beginning.                                     *)
LEMMA IdleLeaves ==
    ASSUME CoreInv, NEW w \in TransferWorkers, work' = [work EXCEPT ![w] = IdleWork]
    PROVE  Becomes(w, "idle", 0, "none", NoGuard)
<1>1. {} \in TodoSets /\ "idle" \in WorkSteps
  BY DEF TodoSets, WorkSteps
<1>2. QED
  BY <1>1, CoreFacts, NewWork, Replaced, Zenon DEF IdleWork

(* Leaving a record behind keeps the invariant: it counts as dropped.       *)
LEMMA AbandonsKeeps ==
    ASSUME CoreInv, NEW w \in TransferWorkers, work[w].pc \in Holding, Abandons(w),
           UNCHANGED lastId
    PROVE  CoreInv'
<1>1. /\ work' = [work EXCEPT ![w] = IdleWork]
      /\ dropped' = dropped \cup {work[w].id}
      /\ UNCHANGED <<record, lastId, money>>
  BY Zenon DEF Abandons, exchange
<1>2. Becomes(w, "idle", 0, "none", NoGuard)
  BY <1>1, IdleLeaves, Zenon
<1>3. /\ dropped' \subseteq Transfer /\ dropped \subseteq dropped'
      /\ work[w].id \in dropped'
  BY <1>1, HeldFacts, SMT DEF CoreInv, CoreTypes
<1>4. QED
  BY <1>1, <1>2, <1>3, LeaveKeeps, Zenon

(* Every step of the exchange and of success holds a record.                *)
LEMMA ExchangeStepsHold ==
    /\ {"load", "internal", "inner", "resolve", "withdraw", "before", "credit",
        "forward", "persist", "clear_from", "clear_to", "succeed"} \subseteq Holding
    /\ \A x \in Holding : x \in WorkSteps
  BY HoldingInSteps, SMT DEF Holding, ExchangeSteps, SuccessSteps

(* The money before the first step, and where it may go next.               *)
LEMMA FreshMoney ==
    ASSUME NEW m, NEW swap, AtMostOnce(m), m.inner = 0, m.out = 0, m.forward = 0,
           NEW pc \in {"load", "internal", "inner", "resolve"}
    PROVE  MoneyAt(pc, m, swap)
<1>1. pc \notin AfterOut \cup SuccessSteps
  BY SMT DEF AfterOut, SuccessSteps
<1>2. QED
  BY <1>1, Zenon DEF MoneyAt

(* Validation fails or picks one of three first calls.                      *)
LEMMA RouteTurns ==
    ASSUME NEW w, Route(w)
    PROVE  \/ \E k \in FaultKinds : Fails(w, k)
           \/ \E pc \in {"internal", "inner", "resolve"} : Goes(w, pc)
<1>1. /\ "account_mapping_invalid" \in FaultKinds
      /\ "address_invalid" \in FaultKinds /\ "network_invalid" \in FaultKinds
  BY DEF FaultKinds, FreezeWorthy, SourceFaults, TargetFaults
<1>2. CASE SameMaster(From(w), To(w))
  BY <1>1, <1>2, Zenon DEF Route
<1>3. CASE ~SameMaster(From(w), To(w))
  <2>1. \/ Fails(w, "address_invalid") \/ Fails(w, "network_invalid")
        \/ Goes(w, IF From(w) \in TwoPlaces THEN "inner" ELSE "resolve")
    BY <1>3, Zenon DEF Route
  <2>2. CASE From(w) \in TwoPlaces
    BY <1>1, <2>1, <2>2, Zenon
  <2>3. CASE From(w) \notin TwoPlaces
    BY <1>1, <2>1, <2>3, Zenon
  <2>4. QED
    BY <2>2, <2>3, Zenon
<1>4. QED
  BY <1>2, <1>3, Zenon

(* Reading the record and choosing the route keeps the invariant.           *)
LEMMA LoadKeeps ==
    ASSUME CoreInv, NEW w \in TransferWorkers, Load(w) PROVE CoreInv'
<1>1. work[w].pc = "load" /\ work[w].pc \in Holding /\ UNCHANGED lastId
  BY ExchangeStepsHold, SMT DEF Load
<1>2. CASE Abandons(w)
  BY <1>1, <1>2, AbandonsKeeps, Zenon
<1>3. CASE /\ IF record[work[w].id].status = "deleted"
              THEN NextRecord(w) ELSE Route(w)
           /\ UNCHANGED <<record, guard, exchange, history, budget>>
  <2>1. UNCHANGED <<record, lastId, money, dropped>>
    BY <1>1, <1>3, Zenon DEF exchange, history
  <2>2. CASE record[work[w].id].status = "deleted"
    <3>1. Becomes(w, "scan", 0, "none", NoGuard)
      BY <1>3, <2>2, NextRecordLeaves, Zenon
    <3>2. dropped' \subseteq Transfer /\ dropped \subseteq dropped'
      BY <2>1, Zenon DEF CoreInv, CoreTypes
    <3>3. QED
      BY <2>1, <2>2, <3>1, <3>2, LeaveKeeps, Zenon
  <2>3. CASE record[work[w].id].status # "deleted"
    <3>1. Route(w)
      BY <1>3, <2>3, Zenon
    <3>2. ASSUME NEW k \in FaultKinds, Fails(w, k) PROVE CoreInv'
      BY <1>1, <2>1, <3>2, FailsKeeps, Zenon
    <3>3. ASSUME NEW pc \in {"internal", "inner", "resolve"}, Goes(w, pc)
          PROVE  CoreInv'
      <4>1. pc \in Holding /\ pc \in WorkSteps
        BY ExchangeStepsHold, SMT
      <4>2. Becomes(w, pc, work[w].id, work[w].kind, work[w].seen)
        BY <3>3, <4>1, CoreFacts, WorkPc, Zenon DEF Goes
      <4>3. /\ AtMostOnce(money[work[w].id]) /\ money[work[w].id].inner = 0
            /\ money[work[w].id].out = 0 /\ money[work[w].id].forward = 0
        <5>1. "load" \in BeforeOut
          BY DEF BeforeOut
        <5>2. QED
          BY <1>1, <5>1, HeldFacts, SMT DEF MoneyAt
      <4>4. MoneyAt(pc, money[work[w].id], record[work[w].id].to \in SwapWallets)
        BY <4>3, FreshMoney, Zenon
      <4>5. QED
        BY <1>1, <2>1, <4>1, <4>2, <4>4, GoesKeeps, Zenon
    <3>4. QED
      BY <3>1, <3>2, <3>3, RouteTurns, Zenon
  <2>4. QED
    BY <2>2, <2>3, Zenon
<1>4. QED
  BY <1>2, <1>3, Zenon DEF Load

(* Counting one more of one kind keeps the others.                          *)
LEMMA MoneyAdds ==
    ASSUME NEW m \in MoneyStates
    PROVE  /\ [m EXCEPT !.inner = m.inner + 1] \in MoneyStates
           /\ [m EXCEPT !.inner = m.inner + 1].inner = m.inner + 1
           /\ [m EXCEPT !.inner = m.inner + 1].out = m.out
           /\ [m EXCEPT !.inner = m.inner + 1].forward = m.forward
           /\ [m EXCEPT !.out = m.out + 1] \in MoneyStates
           /\ [m EXCEPT !.out = m.out + 1].inner = m.inner
           /\ [m EXCEPT !.out = m.out + 1].out = m.out + 1
           /\ [m EXCEPT !.out = m.out + 1].forward = m.forward
           /\ [m EXCEPT !.forward = m.forward + 1] \in MoneyStates
           /\ [m EXCEPT !.forward = m.forward + 1].inner = m.inner
           /\ [m EXCEPT !.forward = m.forward + 1].out = m.out
           /\ [m EXCEPT !.forward = m.forward + 1].forward = m.forward + 1
  BY DEF MoneyStates

(* Setting three fields keeps the fourth.                                   *)
LEMMA MoneySets ==
    ASSUME NEW N, NEW B, NEW x \in N, NEW y \in B, NEW z \in N,
           NEW m \in [inner : N, out : N, credited : B, forward : N]
    PROVE  /\ [m EXCEPT !.out = x, !.credited = y, !.forward = z]
                 \in [inner : N, out : N, credited : B, forward : N]
           /\ [m EXCEPT !.out = x, !.credited = y, !.forward = z].inner = m.inner
           /\ [m EXCEPT !.out = x, !.credited = y, !.forward = z].out = x
           /\ [m EXCEPT !.out = x, !.credited = y, !.forward = z].forward = z
  OBVIOUS

(* An internal transfer takes the money out and all the way.                *)
LEMMA MoneyAddsBoth ==
    ASSUME NEW m \in MoneyStates,
           NEW e, e = [m EXCEPT !.out = m.out + 1, !.credited = TRUE,
                                !.forward = m.forward + 1]
    PROVE  /\ e \in MoneyStates
           /\ e.inner = m.inner /\ e.out = m.out + 1 /\ e.forward = m.forward + 1
<1>1. m.out + 1 \in Nat /\ m.forward + 1 \in Nat /\ TRUE \in BOOLEAN
  BY SMT DEF MoneyStates
<1>2. QED
  BY <1>1, MoneySets, Zenon DEF MoneyStates

(* The steps of the branch of success are reached with the money moved.     *)
LEMMA DoneTurns ==
    ASSUME NEW w
    PROVE  \E pc \in SuccessSteps : Done(w) = WithPc(w, pc)
  BY SMT DEF Done, SuccessSteps

(* What the branch of success asks of the money.                            *)
LEMMA SuccessMoney ==
    ASSUME NEW m, NEW swap, AtMostOnce(m), m.out = 1, swap => m.forward = 1,
           NEW pc \in SuccessSteps
    PROVE  pc \in Holding /\ MoneyAt(pc, m, swap)
<1>1. pc \notin {"load", "internal", "inner"} /\ pc \notin BeforeOut \cup AfterOut
  BY SMT DEF SuccessSteps, BeforeOut, AfterOut
<1>2. pc \in Holding
  BY SMT DEF Holding
<1>3. QED
  BY <1>1, <1>2, Zenon DEF MoneyAt

(* The internal transfer keeps the invariant.                               *)
LEMMA InternalKeeps ==
    ASSUME CoreInv, NEW w \in TransferWorkers, InternalTransfer(w) PROVE CoreInv'
<1> DEFINE m == money[work[w].id]
           e == [m EXCEPT !.out = m.out + 1, !.credited = TRUE,
                          !.forward = m.forward + 1]
<1>1. work[w].pc = "internal" /\ Call(w, Done(w), e, pot)
  BY Zenon DEF InternalTransfer
<1>2. work[w].pc \in Holding
  BY <1>1, ExchangeStepsHold, SMT
<1>3. m \in MoneyStates /\ MoneyAt("internal", m, record[work[w].id].to \in SwapWallets)
  BY <1>1, <1>2, HeldFacts, Zenon
<1>4. m.inner = 0 /\ m.out = 0 /\ m.forward = 0
  BY <1>3, SMT DEF MoneyAt, BeforeOut
<1>5. /\ e \in MoneyStates
      /\ e.inner = m.inner /\ e.out = m.out + 1 /\ e.forward = m.forward + 1
  BY <1>3, MoneyAddsBoth, Zenon
<1> HIDE DEF e
<1>6. AtMostOnce(e) /\ e.out = 1 /\ e.forward = 1
  BY <1>4, <1>5, SMT DEF AtMostOnce
<1>7. PICK pc \in SuccessSteps : Done(w) = WithPc(w, pc)
  BY DoneTurns, Zenon
<1>8. pc \in Holding /\ MoneyAt(pc, e, record[work[w].id].to \in SwapWallets)
  BY <1>6, SuccessMoney, Zenon
<1>9. QED
  BY <1>1, <1>2, <1>5, <1>7, <1>8, CallKeeps, Zenon

(* So does the move to the withdrawal account.                              *)
LEMMA InnerKeeps ==
    ASSUME CoreInv, NEW w \in TransferWorkers, MoveToWithdrawal(w) PROVE CoreInv'
<1> DEFINE m == money[work[w].id]
           e == [m EXCEPT !.inner = m.inner + 1]
<1>1. /\ work[w].pc = "inner"
      /\ Call(w, WithPc(w, "resolve"), e, [pot EXCEPT ![From(w)] = @ + 1])
  BY Zenon DEF MoveToWithdrawal
<1>2. work[w].pc \in Holding /\ "resolve" \in Holding
  BY <1>1, ExchangeStepsHold, SMT
<1>3. m \in MoneyStates /\ MoneyAt("inner", m, record[work[w].id].to \in SwapWallets)
  BY <1>1, <1>2, HeldFacts, Zenon
<1>4. m.inner = 0 /\ m.out = 0 /\ m.forward = 0
  BY <1>3, SMT DEF MoneyAt, BeforeOut
<1>5. /\ e \in MoneyStates
      /\ e.inner = m.inner + 1 /\ e.out = m.out /\ e.forward = m.forward
  BY <1>3, MoneyAdds, Zenon
<1> HIDE DEF e
<1>6. MoneyAt("resolve", e, record[work[w].id].to \in SwapWallets)
  BY <1>4, <1>5, SMT DEF MoneyAt, AtMostOnce, AfterOut, SuccessSteps
<1>7. QED
  BY <1>1, <1>2, <1>5, <1>6, CallKeeps, Zenon

(* So does resolving the destination.                                       *)
LEMMA ResolveKeeps ==
    ASSUME CoreInv, NEW w \in TransferWorkers, ResolveDestination(w) PROVE CoreInv'
<1>1. work[w].pc = "resolve" /\ UNCHANGED <<record, lastId, dropped, money>>
  BY Zenon DEF ResolveDestination, ledger, exchange, history
<1>2. work[w].pc \in Holding /\ "withdraw" \in Holding /\ "withdraw" \in WorkSteps
  BY <1>1, ExchangeStepsHold, SMT
<1>3. CASE Fails(w, "account_mapping_invalid")
  <2>1. "account_mapping_invalid" \in FaultKinds
    BY DEF FaultKinds, FreezeWorthy, SourceFaults
  <2>2. QED
    BY <1>1, <1>2, <1>3, <2>1, FailsKeeps, Zenon
<1>4. CASE work' = [work EXCEPT ![w] = [work[w] EXCEPT !.pc = "withdraw",
                                                       !.resolved = TRUE]]
  <2>1. Becomes(w, "withdraw", work[w].id, work[w].kind, work[w].seen)
    BY <1>2, <1>4, CoreFacts, WorkPcResolved, Zenon
  <2>2. MoneyAt("resolve", money[work[w].id], record[work[w].id].to \in SwapWallets)
    BY <1>1, <1>2, HeldFacts, Zenon
  <2>3. MoneyAt("withdraw", money[work[w].id], record[work[w].id].to \in SwapWallets)
    BY <2>2, SMT DEF MoneyAt, BeforeOut, AfterOut, SuccessSteps
  <2>4. QED
    BY <1>1, <1>2, <2>1, <2>3, GoesKeeps, Zenon
<1>5. QED
  BY <1>3, <1>4, Zenon DEF ResolveDestination

(* So does the withdrawal, sent, refused or sent without an answer.         *)
LEMMA WithdrawKeeps ==
    ASSUME CoreInv, NEW w \in TransferWorkers, Withdraw(w) PROVE CoreInv'
<1> DEFINE m == money[work[w].id]
           e == [m EXCEPT !.out = m.out + 1]
           swap == record[work[w].id].to \in SwapWallets
<1>1. work[w].pc = "withdraw"
  BY Zenon DEF Withdraw
<1>2. work[w].pc \in Holding /\ "before" \in Holding
  BY <1>1, ExchangeStepsHold, SMT
<1>3. m \in MoneyStates /\ MoneyAt("withdraw", m, swap)
  BY <1>1, <1>2, HeldFacts, Zenon
<1>4. m.out = 0 /\ m.forward = 0 /\ m.inner <= 1
  BY <1>3, SMT DEF MoneyAt, AtMostOnce, BeforeOut
<1>5. /\ e \in MoneyStates
      /\ e.inner = m.inner /\ e.out = m.out + 1 /\ e.forward = m.forward
  BY <1>3, MoneyAdds, Zenon
<1>6. \/ Fails(w, "temporary_exchange") /\ UNCHANGED <<record, lastId, dropped, money>>
      \/ \E potAfter :
            Call(w, IF WaitsForCredit(w) THEN WithPc(w, "before") ELSE Done(w),
                 e, potAfter)
  BY Zenon DEF Withdraw, ledger, exchange, history
<1> HIDE DEF e
<1>7. AtMostOnce(e) /\ e.out = 1 /\ e.forward = 0
  BY <1>4, <1>5, SMT DEF AtMostOnce
<1>8. CASE Fails(w, "temporary_exchange") /\ UNCHANGED <<record, lastId, dropped, money>>
  <2>1. "temporary_exchange" \in FaultKinds
    BY DEF FaultKinds, PassingFaults
  <2>2. QED
    BY <1>2, <1>8, <2>1, FailsKeeps, Zenon
<1>9. ASSUME NEW potAfter,
             Call(w, IF WaitsForCredit(w) THEN WithPc(w, "before") ELSE Done(w),
                  e, potAfter)
      PROVE  CoreInv'
  <2>1. CASE swap
    <3>1. WaitsForCredit(w)
      BY <2>1, Zenon DEF WaitsForCredit, To
    <3>2. Call(w, WithPc(w, "before"), e, potAfter)
      BY <1>9, <3>1, Zenon
    <3>3. MoneyAt("before", e, swap)
      BY <1>7, SMT DEF MoneyAt, BeforeOut, SuccessSteps
    <3>4. QED
      BY <1>2, <1>5, <3>2, <3>3, CallKeeps, Zenon
  <2>2. CASE ~swap
    <3>1. ~WaitsForCredit(w)
      BY <2>2, Zenon DEF WaitsForCredit, To
    <3>2. Call(w, Done(w), e, potAfter)
      BY <1>9, <3>1, Zenon
    <3>3. PICK pc \in SuccessSteps : Done(w) = WithPc(w, pc)
      BY DoneTurns, Zenon
    <3>4. pc \in Holding /\ MoneyAt(pc, e, swap)
      BY <1>7, <2>2, SuccessMoney, Zenon
    <3>5. QED
      BY <1>2, <1>5, <3>2, <3>3, <3>4, CallKeeps, Zenon
  <2>3. QED
    BY <2>1, <2>2, Zenon
<1>10. QED
  BY <1>6, <1>8, <1>9, Zenon

(* A call that only reads either turns the worker or fails.                 *)
LEMMA AskKeeps ==
    ASSUME CoreInv, NEW w \in TransferWorkers, work[w].pc \in Holding,
           NEW next, Ask(w, next), NEW pc \in Holding,
           work' = next => Becomes(w, pc, work[w].id, work[w].kind, work[w].seen),
           MoneyAt(pc, money[work[w].id], record[work[w].id].to \in SwapWallets)
    PROVE  CoreInv'
<1>1. UNCHANGED <<record, lastId, dropped, money>>
  BY Zenon DEF Ask, ledger, exchange, history
<1>2. CASE work' = next
  BY <1>1, <1>2, GoesKeeps, Zenon
<1>3. CASE \E k \in RefusalKinds : Fails(w, k)
  <2>1. PICK k \in FaultKinds : Fails(w, k)
    BY <1>3, RefusalAssumption, Zenon
  <2>2. QED
    BY <1>1, <2>1, FailsKeeps, Zenon
<1>4. QED
  BY <1>2, <1>3, Zenon DEF Ask

(* Between the withdrawal and the move into the market nothing moves.       *)
LEMMA AfterOutMoney ==
    ASSUME NEW m, NEW swap, NEW old \in AfterOut, NEW new \in AfterOut,
           MoneyAt(old, m, swap)
    PROVE  MoneyAt(new, m, swap)
<1>1. new \notin {"load", "internal", "inner"} /\ new \notin BeforeOut \cup SuccessSteps
  BY SMT DEF AfterOut, BeforeOut, SuccessSteps
<1>2. AtMostOnce(m) /\ m.out = 1 /\ m.forward = 0
  BY Zenon DEF MoneyAt
<1>3. QED
  BY <1>1, <1>2, Zenon DEF MoneyAt

(* Those steps hold a record.                                               *)
LEMMA AfterOutSteps == {"before", "credit", "forward"} \subseteq AfterOut
                       /\ AfterOut \subseteq Holding /\ Holding \subseteq WorkSteps
  BY HoldingInSteps, SMT DEF AfterOut, Holding, ExchangeSteps


(* The record in a worker's hands names two accounts.                       *)
LEMMA HeldWallets ==
    ASSUME CoreInv, NEW w \in TransferWorkers,
           work[w].pc \in Holding \cup AfterStatus
    PROVE  From(w) \in Wallets /\ To(w) \in Wallets
<1>1. WorkSound(w) /\ work[w].id \in Transfer
  BY CoreFacts, Zenon DEF WorkSound
<1>2. record[work[w].id].status \in {"executing", "deleted", "failed"}
  BY <1>1, SMT DEF WorkSound
<1>3. record[work[w].id].status # "none"
  BY <1>2
<1>4. QED
  BY <1>1, <1>3, Zenon DEF CoreInv, RecordSound, From, To

(* Reading the balance keeps the invariant.                                 *)
LEMMA ReadBeforeKeeps ==
    ASSUME CoreInv, pot \in [Wallets -> Int], NEW w \in TransferWorkers, ReadBefore(w)
    PROVE  CoreInv'
<1>1. /\ work[w].pc = "before"
      /\ Ask(w, [work EXCEPT ![w] = [work[w] EXCEPT !.pc = "credit",
                                                    !.before = pot[To(w)]]])
  BY Zenon DEF ReadBefore
<1>2. work[w].pc \in Holding /\ "credit" \in Holding /\ "credit" \in WorkSteps
  BY <1>1, ExchangeStepsHold, SMT
<1>3. pot[To(w)] \in Int
  <2>1. To(w) \in Wallets
    BY <1>2, HeldWallets, Zenon
  <2>2. QED
    BY <2>1, SMT
<1>4. ASSUME work' = [work EXCEPT ![w] = [work[w] EXCEPT !.pc = "credit",
                                                         !.before = pot[To(w)]]]
      PROVE  Becomes(w, "credit", work[w].id, work[w].kind, work[w].seen)
  BY <1>2, <1>3, <1>4, CoreFacts, WorkPcBefore, Zenon
<1>5. MoneyAt("credit", money[work[w].id], record[work[w].id].to \in SwapWallets)
  <2>1. "before" \in AfterOut /\ "credit" \in AfterOut
    BY AfterOutSteps, SMT
  <2>2. MoneyAt("before", money[work[w].id], record[work[w].id].to \in SwapWallets)
    BY <1>1, <1>2, HeldFacts, Zenon
  <2>3. QED
    BY <2>1, <2>2, AfterOutMoney, Zenon
<1>6. QED
  BY <1>1, <1>2, <1>4, <1>5, AskKeeps, Zenon

(* So does waiting for the credit.                                          *)
LEMMA AwaitCreditKeeps ==
    ASSUME CoreInv, NEW w \in TransferWorkers, AwaitCredit(w) PROVE CoreInv'
<1>1. work[w].pc = "credit"
  BY Zenon DEF AwaitCredit
<1>2. work[w].pc \in Holding /\ "forward" \in Holding /\ "forward" \in WorkSteps
  BY <1>1, ExchangeStepsHold, SMT
<1>3. CASE Fails(w, "temporary_network") /\ UNCHANGED <<ledger, guard, hand, exchange, history, budget>>
  <2>1. "temporary_network" \in FaultKinds
    BY DEF FaultKinds, PassingFaults
  <2>2. UNCHANGED <<record, lastId, dropped, money>>
    BY <1>3, Zenon DEF ledger, exchange, history
  <2>3. QED
    BY <1>2, <1>3, <2>1, <2>2, FailsKeeps, Zenon
<1>4. CASE Ask(w, WithPc(w, "forward"))
  <2>1. work' = WithPc(w, "forward")
          => Becomes(w, "forward", work[w].id, work[w].kind, work[w].seen)
    BY <1>2, CoreFacts, WorkPc, Zenon DEF WithPc
  <2>2. "credit" \in AfterOut /\ "forward" \in AfterOut
    BY AfterOutSteps, SMT
  <2>3. MoneyAt("credit", money[work[w].id], record[work[w].id].to \in SwapWallets)
    BY <1>1, <1>2, HeldFacts, Zenon
  <2>4. MoneyAt("forward", money[work[w].id], record[work[w].id].to \in SwapWallets)
    BY <2>2, <2>3, AfterOutMoney, Zenon
  <2>5. QED
    BY <1>2, <1>4, <2>1, <2>4, AskKeeps, Zenon
<1>5. QED
  BY <1>3, <1>4, Zenon DEF AwaitCredit

(* So does the move into the market.                                        *)
LEMMA ForwardKeeps ==
    ASSUME CoreInv, NEW w \in TransferWorkers, Forward(w) PROVE CoreInv'
<1> DEFINE m == money[work[w].id]
           e == [m EXCEPT !.forward = m.forward + 1]
<1>1. work[w].pc = "forward"
  BY Zenon DEF Forward
<1>2. work[w].pc \in Holding
  BY <1>1, ExchangeStepsHold, SMT
<1>3. m \in MoneyStates /\ MoneyAt("forward", m, record[work[w].id].to \in SwapWallets)
  BY <1>1, <1>2, HeldFacts, Zenon
<1>4. m.out = 1 /\ m.forward = 0 /\ m.inner <= 1
  BY <1>3, SMT DEF MoneyAt, AtMostOnce, AfterOut
<1>5. /\ e \in MoneyStates
      /\ e.inner = m.inner /\ e.out = m.out /\ e.forward = m.forward + 1
  BY <1>3, MoneyAdds, Zenon
<1>6. \/ Fails(w, "temporary_exchange") /\ UNCHANGED <<record, lastId, dropped, money>>
      \/ \E potAfter : Call(w, Done(w), e, potAfter)
  BY Zenon DEF Forward, ledger, exchange, history
<1> HIDE DEF e
<1>7. AtMostOnce(e) /\ e.out = 1 /\ e.forward = 1
  BY <1>4, <1>5, SMT DEF AtMostOnce
<1>8. CASE Fails(w, "temporary_exchange") /\ UNCHANGED <<record, lastId, dropped, money>>
  <2>1. "temporary_exchange" \in FaultKinds
    BY DEF FaultKinds, PassingFaults
  <2>2. QED
    BY <1>2, <1>8, <2>1, FailsKeeps, Zenon
<1>9. ASSUME NEW potAfter, Call(w, Done(w), e, potAfter) PROVE CoreInv'
  <2>1. PICK pc \in SuccessSteps : Done(w) = WithPc(w, pc)
    BY DoneTurns, Zenon
  <2>2. pc \in Holding /\ MoneyAt(pc, e, record[work[w].id].to \in SwapWallets)
    BY <1>7, SuccessMoney, Zenon
  <2>3. QED
    BY <1>2, <1>5, <1>9, <2>1, <2>2, CallKeeps, Zenon
<1>10. QED
  BY <1>6, <1>8, <1>9, Zenon

(* The branch of success by name.                                           *)
LEMMA SuccessStepsHold ==
    /\ {"persist", "clear_from", "clear_to", "succeed"} = SuccessSteps
    /\ SuccessSteps \subseteq Holding /\ SuccessSteps \subseteq WorkSteps
  BY HoldingInSteps, SMT DEF Holding, SuccessSteps

(* Going on within that branch keeps the invariant.                         *)
LEMMA SuccessGoes ==
    ASSUME CoreInv, NEW w \in TransferWorkers, work[w].pc \in SuccessSteps,
           NEW pc \in SuccessSteps, Goes(w, pc),
           UNCHANGED <<record, lastId, dropped, money>>
    PROVE  CoreInv'
<1>1. Becomes(w, pc, work[w].id, work[w].kind, work[w].seen)
  BY SuccessStepsHold, CoreFacts, WorkPc, Zenon DEF Goes
<1>2. work[w].pc \in Holding
  BY SuccessStepsHold, Zenon
<1>3. /\ AtMostOnce(money[work[w].id]) /\ money[work[w].id].out = 1
      /\ record[work[w].id].to \in SwapWallets => money[work[w].id].forward = 1
  BY <1>2, HeldFacts, Zenon DEF MoneyAt
<1>4. pc \in Holding /\ MoneyAt(pc, money[work[w].id], record[work[w].id].to \in SwapWallets)
  BY <1>3, SuccessMoney, Zenon
<1>5. QED
  BY <1>1, <1>2, <1>4, GoesKeeps, Zenon

(* A database error there keeps it too.                                     *)
LEMMA DatabaseBreaksKeeps ==
    ASSUME CoreInv, NEW w \in TransferWorkers, work[w].pc \in Holding,
           DatabaseBreaks(w), UNCHANGED <<record, lastId, dropped, money>>
    PROVE  CoreInv'
<1>1. RefusalKinds \cup {"temporary_exchange"} \subseteq FaultKinds
  BY RefusalAssumption, SMT DEF FaultKinds, PassingFaults
<1>2. PICK k \in FaultKinds : Breaks(w, k)
  BY <1>1, Zenon DEF DatabaseBreaks
<1>3. QED
  BY <1>2, BreaksKeeps, Zenon

(* Writing the destination after success keeps the invariant.               *)
LEMMA PersistKeeps ==
    ASSUME CoreInv, NEW w \in TransferWorkers, PersistDestination(w) PROVE CoreInv'
<1>1. work[w].pc = "persist" /\ UNCHANGED <<record, lastId, dropped, money>>
  BY Zenon DEF PersistDestination, ledger, exchange
<1>2. work[w].pc \in SuccessSteps /\ work[w].pc \in Holding
  BY <1>1, SuccessStepsHold, Zenon
<1>3. CASE DatabaseBreaks(w)
  BY <1>1, <1>2, <1>3, DatabaseBreaksKeeps, Zenon
<1>4. CASE Goes(w, IF IsAuto(w) THEN "clear_from" ELSE "succeed")
  <2>1. PICK pc \in SuccessSteps : Goes(w, pc)
    BY <1>4, SuccessStepsHold, Zenon
  <2>2. QED
    BY <1>1, <1>2, <2>1, SuccessGoes, Zenon
<1>5. QED
  BY <1>3, <1>4, Zenon DEF PersistDestination

(* So does clearing the guards of both accounts.                            *)
LEMMA ClearAfterKeeps ==
    ASSUME CoreInv, NEW w \in TransferWorkers, ClearAfterSuccess(w) PROVE CoreInv'
<1>1. UNCHANGED <<record, lastId, dropped, money>>
  BY Zenon DEF ClearAfterSuccess, ledger, exchange, history
<1>2. /\ work[w].pc \in {"clear_from", "clear_to"}
      /\ Goes(w, "clear_to") \/ Goes(w, "succeed")
  BY Zenon DEF ClearAfterSuccess
<1>3. work[w].pc \in SuccessSteps /\ "clear_to" \in SuccessSteps /\ "succeed" \in SuccessSteps
  BY <1>2, SuccessStepsHold, Zenon
<1>4. QED
  BY <1>1, <1>2, <1>3, SuccessGoes, Zenon

(* So does writing the success, which the money bears out.                  *)
LEMMA SucceedKeeps ==
    ASSUME CoreInv, NEW w \in TransferWorkers, Succeed(w) PROVE CoreInv'
<1>1. work[w].pc = "succeed" /\ UNCHANGED <<lastId, dropped, money>>
  BY Zenon DEF Succeed, exchange
<1>2. work[w].pc \in SuccessSteps /\ work[w].pc \in Holding
  BY <1>1, SuccessStepsHold, Zenon
<1>3. CASE DatabaseBreaks(w) /\ UNCHANGED record
  BY <1>1, <1>2, <1>3, DatabaseBreaksKeeps, Zenon
<1>4. CASE Finish(w, "success") /\ NextRecord(w)
  <2>1. Becomes(w, "scan", 0, "none", NoGuard)
    BY <1>4, NextRecordLeaves, Zenon
  <2>2. QED
    BY <1>1, <1>2, <1>4, <2>1, SettleKeeps, Zenon
<1>5. QED
  BY <1>3, <1>4, Zenon DEF Succeed

(* The steps of the handlers of failure.                                    *)
LEMMA FailureGoes ==
    ASSUME CoreInv, NEW w \in TransferWorkers, work[w].pc \in Holding,
           NEW pc \in {"fail_persist", "fail_status", "oops_persist", "oops_read",
                       "oops_write", "oops_status"}, Goes(w, pc),
           UNCHANGED <<record, lastId, dropped, money>>
    PROVE  CoreInv'
<1>1. pc \in Holding /\ pc \in WorkSteps
  BY FailSteps, HoldingInSteps, Zenon
<1>2. Becomes(w, pc, work[w].id, work[w].kind, work[w].seen)
  BY <1>1, CoreFacts, WorkPc, Zenon DEF Goes
<1>3. MoneyAt(pc, money[work[w].id], record[work[w].id].to \in SwapWallets)
  BY HeldFacts, FailedMoney, Zenon
<1>4. QED
  BY <1>1, <1>2, <1>3, GoesKeeps, Zenon

(* So does writing the destination after a failure.                         *)
LEMMA PersistAfterKeeps ==
    ASSUME CoreInv, NEW w \in TransferWorkers, PersistAfterFailure(w) PROVE CoreInv'
<1>1. work[w].pc \in {"fail_persist", "oops_persist"} /\ UNCHANGED lastId
  BY Zenon DEF PersistAfterFailure
<1>2. work[w].pc \in Holding
  BY <1>1, FailSteps, Zenon
<1>3. CASE Abandons(w)
  BY <1>1, <1>2, <1>3, AbandonsKeeps, Zenon
<1>4. CASE /\ Goes(w, IF work[w].pc = "fail_persist" THEN "fail_status"
                      ELSE IF ToReport(w, work[w].kind) THEN "oops_read"
                      ELSE "oops_status")
           /\ UNCHANGED <<record, guard, exchange, history, budget>>
  <2>1. UNCHANGED <<record, lastId, dropped, money>>
    BY <1>1, <1>4, Zenon DEF exchange, history
  <2>2. \E pc \in {"fail_persist", "fail_status", "oops_persist", "oops_read",
                   "oops_write", "oops_status"} : Goes(w, pc)
    BY <1>4, Zenon
  <2>3. QED
    BY <1>2, <2>1, <2>2, FailureGoes, Zenon
<1>5. QED
  BY <1>3, <1>4, Zenon DEF PersistAfterFailure

(* So does writing the failure.                                             *)
LEMMA WriteFailedKeeps ==
    ASSUME CoreInv, NEW w \in TransferWorkers, WriteFailed(w) PROVE CoreInv'
<1>1. work[w].pc \in {"fail_status", "oops_status"} /\ UNCHANGED lastId
  BY Zenon DEF WriteFailed
<1>2. work[w].pc \in Holding
  BY <1>1, FailSteps, Zenon
<1>3. CASE Abandons(w)
  BY <1>1, <1>2, <1>3, AbandonsKeeps, Zenon
<1>4. CASE /\ Finish(w, "failed")
           /\ IF work[w].pc = "fail_status" /\ ToReport(w, work[w].kind)
              THEN Goes(w, "guard_read") ELSE NextRecord(w)
           /\ UNCHANGED <<guard, exchange, history, budget>>
  <2>1. UNCHANGED <<lastId, dropped, money>>
    BY <1>1, <1>4, Zenon DEF exchange, history
  <2>2. CASE Goes(w, "guard_read")
    <3>1. "guard_read" \in AfterStatus /\ "guard_read" \in WorkSteps
      BY HoldingInSteps, SMT DEF AfterStatus
    <3>2. Becomes(w, "guard_read", work[w].id, work[w].kind, work[w].seen)
      BY <2>2, <3>1, CoreFacts, WorkPc, Zenon DEF Goes
    <3>3. "failed" # "success"
      OBVIOUS
    <3>4. QED
      BY <1>2, <1>4, <2>1, <3>1, <3>2, <3>3, SettleKeeps, Zenon
  <2>3. CASE NextRecord(w)
    <3>1. Becomes(w, "scan", 0, "none", NoGuard)
      BY <2>3, NextRecordLeaves, Zenon
    <3>2. "failed" # "success"
      OBVIOUS
    <3>3. QED
      BY <1>2, <1>4, <2>1, <3>1, <3>2, SettleKeeps, Zenon
  <2>4. QED
    BY <1>4, <2>2, <2>3, Zenon
<1>5. QED
  BY <1>3, <1>4, Zenon DEF WriteFailed

(* What a worker reads of a guard is a guard.                               *)
LEMMA SeenTurns ==
    ASSUME CoreInv, guard \in [Wallets -> GuardStates], NEW w \in TransferWorkers,
           ReadBlamed(w)
    PROVE  \E seen \in {guard[Blamed(w)], NoGuard} :
              /\ seen \in GuardStates /\ Blamed(w) \in Wallets
              /\ \/ /\ work[w].pc = "guard_read"
                    /\ Becomes(w, "guard_write", work[w].id, work[w].kind, seen)
                 \/ /\ work[w].pc = "oops_read"
                    /\ Becomes(w, "oops_write", work[w].id, work[w].kind, seen)
<1>1. PICK seen \in {guard[Blamed(w)], NoGuard} :
         work' = [work EXCEPT ![w] = [work[w] EXCEPT !.seen = seen,
                    !.pc = IF work[w].pc = "guard_read" THEN "guard_write"
                           ELSE "oops_write"]]
  BY Zenon DEF ReadBlamed
<1>2. work[w].pc \in {"guard_read", "oops_read"}
  BY Zenon DEF ReadBlamed
<1>3. work[w].pc \in Holding \cup AfterStatus
  BY <1>2, FailSteps, SMT DEF AfterStatus
<1>4. Blamed(w) \in Wallets
  BY <1>3, HeldWallets, Zenon DEF Blamed
<1>5. guard[Blamed(w)] \in GuardStates
  BY <1>4, SMT
<1>6. seen \in GuardStates
  BY <1>5, NoGuardState, Zenon
<1>7. "guard_write" \in WorkSteps /\ "oops_write" \in WorkSteps
  BY FailSteps, HoldingInSteps, SMT DEF AfterStatus
<1>8. CASE work[w].pc = "guard_read"
  <2>1. work' = [work EXCEPT ![w] = [work[w] EXCEPT !.seen = seen, !.pc = "guard_write"]]
    BY <1>1, <1>8, Zenon
  <2>2. QED
    BY <1>4, <1>6, <1>7, <1>8, <2>1, CoreFacts, WorkSeenPc, Zenon
<1>9. CASE work[w].pc = "oops_read"
  <2>1. work[w].pc # "guard_read"
    BY <1>9
  <2>2. work' = [work EXCEPT ![w] = [work[w] EXCEPT !.seen = seen, !.pc = "oops_write"]]
    BY <1>1, <2>1, Zenon
  <2>3. QED
    BY <1>4, <1>6, <1>7, <1>9, <2>2, CoreFacts, WorkSeenPc, Zenon
<1>10. QED
  BY <1>2, <1>8, <1>9, Zenon

(* The steps after the status by name.                                      *)
LEMMA AfterSteps == AfterStatus = {"guard_read", "guard_write"}
  BY DEF AfterStatus

(* Reading the guard to blame keeps the invariant.                          *)
LEMMA ReadBlamedKeeps ==
    ASSUME CoreInv, guard \in [Wallets -> GuardStates], NEW w \in TransferWorkers,
           ReadBlamed(w)
    PROVE  CoreInv'
<1>1. UNCHANGED <<record, lastId, dropped, money>>
  BY Zenon DEF ReadBlamed, ledger, exchange
<1>2. PICK seen \in GuardStates :
         \/ /\ work[w].pc = "guard_read"
            /\ Becomes(w, "guard_write", work[w].id, work[w].kind, seen)
         \/ /\ work[w].pc = "oops_read"
            /\ Becomes(w, "oops_write", work[w].id, work[w].kind, seen)
  BY SeenTurns, Zenon
<1>3. CASE /\ work[w].pc = "guard_read"
           /\ Becomes(w, "guard_write", work[w].id, work[w].kind, seen)
  BY <1>1, <1>3, AfterSteps, ReportKeeps, Zenon
<1>4. CASE /\ work[w].pc = "oops_read"
           /\ Becomes(w, "oops_write", work[w].id, work[w].kind, seen)
  <2>1. work[w].pc \in Holding
    BY <1>4, FailSteps, Zenon
  <2>2. "oops_write" \in Holding
        /\ MoneyAt("oops_write", money[work[w].id], record[work[w].id].to \in SwapWallets)
    BY <2>1, HeldFacts, FailedMoney, Zenon
  <2>3. QED
    BY <1>1, <1>4, <2>1, <2>2, GoesKeeps, Zenon
<1>5. QED
  BY <1>2, <1>3, <1>4, Zenon

(* So does writing it.                                                      *)
LEMMA WriteBlamedKeeps ==
    ASSUME CoreInv, NEW w \in TransferWorkers, WriteBlamed(w) PROVE CoreInv'
<1>1. UNCHANGED <<record, lastId, dropped, money>>
  BY Zenon DEF WriteBlamed, ledger, exchange, history
<1>2. CASE work[w].pc = "guard_write"
  <2>1. NextRecord(w)
    BY <1>2, Zenon DEF WriteBlamed
  <2>2. Becomes(w, "scan", 0, "none", NoGuard)
    BY <2>1, NextRecordLeaves, Zenon
  <2>3. work[w].pc \notin Holding
    BY <1>2, AfterSteps, StepSets, Zenon
  <2>4. dropped' \subseteq Transfer /\ dropped \subseteq dropped'
    BY <1>1, Zenon DEF CoreInv, CoreTypes
  <2>5. QED
    BY <1>1, <2>2, <2>3, <2>4, LeaveKeeps, Zenon
<1>3. CASE work[w].pc = "oops_write"
  <2>1. work[w].pc # "guard_write"
    BY <1>3
  <2>2. Goes(w, "oops_status")
    BY <2>1, Zenon DEF WriteBlamed
  <2>3. work[w].pc \in Holding
    BY <1>3, FailSteps, Zenon
  <2>4. QED
    BY <1>1, <2>2, <2>3, FailureGoes, Zenon
<1>4. QED
  BY <1>2, <1>3, Zenon DEF WriteBlamed

(* So does a death: its record counts as dropped.                           *)
LEMMA WorkerDiesKeeps ==
    ASSUME CoreInv, NEW w \in TransferWorkers, WorkerDies(w) PROVE CoreInv'
<1>1. /\ work' = [work EXCEPT ![w] = IdleWork]
      /\ UNCHANGED <<record, lastId, money>>
      /\ dropped' = IF work[w].pc \in Holding
                    THEN dropped \cup {work[w].id} ELSE dropped
  BY Zenon DEF WorkerDies, ledger, exchange
<1>2. Becomes(w, "idle", 0, "none", NoGuard)
  BY <1>1, IdleLeaves, Zenon
<1>3. dropped \subseteq Transfer
  BY Zenon DEF CoreInv, CoreTypes
<1>4. CASE work[w].pc \in Holding
  <2>1. dropped' = dropped \cup {work[w].id}
    BY <1>1, <1>4, Zenon
  <2>2. /\ dropped' \subseteq Transfer /\ dropped \subseteq dropped'
        /\ work[w].id \in dropped'
    BY <1>3, <1>4, <2>1, HeldFacts, SMT
  <2>3. QED
    BY <1>1, <1>2, <2>2, LeaveKeeps, Zenon
<1>5. CASE work[w].pc \notin Holding
  <2>1. dropped' = dropped
    BY <1>1, <1>5, Zenon
  <2>2. dropped' \subseteq Transfer /\ dropped \subseteq dropped'
    BY <1>3, <2>1, Zenon
  <2>3. QED
    BY <1>1, <1>2, <1>5, <2>2, LeaveKeeps, Zenon
<1>6. QED
  BY <1>4, <1>5, Zenon

-----------------------------------------------------------------------------
(* The rest of the state: types, and what a request may hold.               *)
HandSound(c) ==
    /\ hand[c].pc \in {"check", "insert"} =>
          hand[c].from \in Wallets /\ hand[c].to \in Wallets
    /\ hand[c].pc \in {"address", "look", "clear"} => hand[c].from \in Wallets
    /\ hand[c].pc = "clear" => ~hand[c].seen.frozen

SideTypes ==
    /\ wallet \in [Wallets -> WalletRows]
    /\ autoOn \in BOOLEAN
    /\ guard \in [Wallets -> GuardStates]
    /\ hand \in [Creators -> HandStates]
    /\ pot \in [Wallets -> Nat]
    /\ unclear \subseteq Transfer
    /\ budget \in [BudgetKinds -> Nat]

SideInv == SideTypes /\ \A c \in Creators : HandSound(c)

(* Spending takes one of one budget.                                        *)
LEMMA SpendTypes ==
    ASSUME budget \in [BudgetKinds -> Nat], NEW k \in BudgetKinds, Spend(k)
    PROVE  /\ budget' \in [BudgetKinds -> Nat] /\ budget'[k] < budget[k]
           /\ \A j \in BudgetKinds : j # k => budget'[j] = budget[j]
<1>1. budget[k] \in Nat /\ budget[k] > 0 /\ budget' = [budget EXCEPT ![k] = budget[k] - 1]
  BY SMT DEF Spend
<1>2. budget[k] - 1 \in Nat /\ budget[k] - 1 < budget[k]
  BY <1>1, SMT
<1>3. QED
  BY <1>1, <1>2, Updated, Zenon

(* The budgets by name.                                                     *)
LEMMA KindsOfBudget ==
    /\ "plan" \in BudgetKinds /\ "manual" \in BudgetKinds /\ "edit" \in BudgetKinds
    /\ "test" \in BudgetKinds /\ "delete" \in BudgetKinds /\ "unlock" \in BudgetKinds
    /\ "refuse" \in BudgetKinds /\ "lost" \in BudgetKinds /\ "db" \in BudgetKinds
    /\ "redis" \in BudgetKinds /\ "death" \in BudgetKinds
  BY DEF BudgetKinds

(* Whatever an action spends, the budget stays one.                         *)
LEMMA BudgetNext ==
    ASSUME SideTypes, UNCHANGED budget \/ \E k \in BudgetKinds : Spend(k)
    PROVE  budget' \in [BudgetKinds -> Nat]
  BY SpendTypes, Zenon DEF SideTypes

(* What a guard may become.                                                 *)
LEMMA WriteGuardTypes ==
    ASSUME guard \in [Wallets -> GuardStates], NEW a \in Wallets,
           NEW state \in GuardStates, WriteGuard(a, state)
    PROVE  /\ guard' \in [Wallets -> GuardStates]
           /\ guard'[a] \in {guard[a], state}
           /\ \A b \in Wallets : b # a => guard'[b] = guard[b]
  BY Updated, Zenon DEF WriteGuard

(* The guard after a failure: frozen by a second one of the same kind.      *)
LEMMA FailureState ==
    ASSUME NEW seen \in GuardStates, NEW kind \in FaultKinds
    PROVE  /\ AfterFailure(seen, kind) \in GuardStates
           /\ AfterFailure(seen, kind).kind = kind
           /\ AfterFailure(seen, kind).count >= 1
           /\ AfterFailure(seen, kind).frozen
                 => seen.frozen \/ (seen.kind = kind /\ seen.count >= 1)
           /\ seen.frozen => AfterFailure(seen, kind).frozen
<1> DEFINE count == IF seen.kind = kind THEN seen.count + 1 ELSE 1
           frozen == seen.frozen \/ count >= 2
<1>1. AfterFailure(seen, kind) = [kind |-> kind, count |-> count, frozen |-> frozen]
  BY DEF AfterFailure
<1>2. /\ count \in Nat /\ count >= 1
      /\ count >= 2 => seen.kind = kind /\ seen.count >= 1
  BY SMT DEF GuardStates
<1>3. frozen \in BOOLEAN
  BY Zenon
<1> HIDE DEF count
<1>4. QED
  BY <1>1, <1>2, <1>3 DEF GuardStates

(* What is known of a creator's state.                                      *)
LEMMA HandFacts ==
    ASSUME SideInv, NEW c \in Creators
    PROVE  hand[c] \in HandStates /\ HandSound(c) /\ hand \in [Creators -> HandStates]
  BY SMT DEF SideInv, SideTypes

(* A creator's new state.                                                   *)
LEMMA HandReplaced ==
    ASSUME SideInv, NEW c \in Creators, NEW h \in HandStates,
           hand' = [hand EXCEPT ![c] = h],
           h.pc \in {"check", "insert"} => h.from \in Wallets /\ h.to \in Wallets,
           h.pc \in {"address", "look", "clear"} => h.from \in Wallets,
           h.pc = "clear" => ~h.seen.frozen
    PROVE  hand' \in [Creators -> HandStates] /\ \A d \in Creators : HandSound(d)'
<1>1. /\ hand' \in [Creators -> HandStates] /\ hand'[c] = h
      /\ \A d \in Creators : d # c => hand'[d] = hand[d]
  BY HandFacts, Updated, Zenon
<1>2. HandSound(c)'
  BY <1>1, Zenon DEF HandSound
<1>3. ASSUME NEW d \in Creators, d # c PROVE HandSound(d)'
  BY <1>1, <1>3, HandFacts, Zenon DEF HandSound
<1>4. QED
  BY <1>1, <1>2, <1>3, Zenon

(* Changing a creator's step keeps the rest.                                *)
LEMMA HandPc ==
    ASSUME NEW P, NEW F, NEW T, NEW G, NEW K, NEW x \in P,
           NEW h \in [pc : P, from : F, to : T, seen : G, kinds : K]
    PROVE  /\ [h EXCEPT !.pc = x] \in [pc : P, from : F, to : T, seen : G, kinds : K]
           /\ [h EXCEPT !.pc = x].pc = x
           /\ [h EXCEPT !.pc = x].from = h.from
           /\ [h EXCEPT !.pc = x].to = h.to
  OBVIOUS

(* Changing the step and the kinds to clear keeps the account.              *)
LEMMA HandPcKinds ==
    ASSUME NEW P, NEW F, NEW T, NEW G, NEW K, NEW x \in P, NEW k \in K,
           NEW h \in [pc : P, from : F, to : T, seen : G, kinds : K]
    PROVE  /\ [h EXCEPT !.pc = x, !.kinds = k] \in [pc : P, from : F, to : T, seen : G, kinds : K]
           /\ [h EXCEPT !.pc = x, !.kinds = k].pc = x
           /\ [h EXCEPT !.pc = x, !.kinds = k].from = h.from
  OBVIOUS

(* Noting the guard that was read keeps the account.                        *)
LEMMA HandPcSeen ==
    ASSUME NEW P, NEW F, NEW T, NEW G, NEW K, NEW x \in P, NEW g \in G,
           NEW h \in [pc : P, from : F, to : T, seen : G, kinds : K]
    PROVE  /\ [h EXCEPT !.pc = x, !.seen = g] \in [pc : P, from : F, to : T, seen : G, kinds : K]
           /\ [h EXCEPT !.pc = x, !.seen = g].pc = x
           /\ [h EXCEPT !.pc = x, !.seen = g].from = h.from
           /\ [h EXCEPT !.pc = x, !.seen = g].seen = g
  OBVIOUS

(* Noting the pair that was picked.                                         *)
LEMMA HandPcFromTo ==
    ASSUME NEW P, NEW F, NEW T, NEW G, NEW K, NEW x \in P, NEW a \in F, NEW b \in T,
           NEW h \in [pc : P, from : F, to : T, seen : G, kinds : K]
    PROVE  /\ [h EXCEPT !.pc = x, !.from = a, !.to = b] \in [pc : P, from : F, to : T, seen : G, kinds : K]
           /\ [h EXCEPT !.pc = x, !.from = a, !.to = b].pc = x
           /\ [h EXCEPT !.pc = x, !.from = a, !.to = b].from = a
           /\ [h EXCEPT !.pc = x, !.from = a, !.to = b].to = b
  OBVIOUS

(* A request about an account is in a state of its type.                    *)
LEMMA AskingState ==
    ASSUME NEW x \in HandSteps, NEW a \in WalletsOrNone, NEW k \in SUBSET FaultKinds
    PROVE  /\ Asking(x, a, k) \in HandStates
           /\ Asking(x, a, k).pc = x /\ Asking(x, a, k).from = a
           /\ Asking(x, a, k).seen = NoGuard
<1>1. 0 \in WalletsOrNone /\ NoGuard \in GuardStates
  BY NoGuardState DEF WalletsOrNone
<1>2. QED
  BY <1>1, SMT DEF Asking, HandStates

(* An idle creator is in a state of its type.                               *)
LEMMA IdleHandState ==
    IdleHand \in HandStates /\ IdleHand.pc = "idle"
<1>1. "idle" \in HandSteps /\ 0 \in WalletsOrNone /\ {} \in SUBSET FaultKinds
  BY DEF HandSteps, WalletsOrNone
<1>2. QED
  BY <1>1, AskingState, Zenon DEF IdleHand

(* A creator may always become idle.                                        *)
LEMMA HandIdles ==
    ASSUME SideInv, NEW c \in Creators, hand' = [hand EXCEPT ![c] = IdleHand]
    PROVE  hand' \in [Creators -> HandStates] /\ \A d \in Creators : HandSound(d)'
<1>1. IdleHand.pc \notin {"check", "insert", "address", "look", "clear"}
  BY IdleHandState, SMT
<1>2. QED
  BY <1>1, IdleHandState, HandReplaced, Zenon

(* A step that leaves the creators alone keeps what is known of them.       *)
LEMMA HandStays ==
    ASSUME SideInv, UNCHANGED hand
    PROVE  hand' \in [Creators -> HandStates] /\ \A d \in Creators : HandSound(d)'
  BY HandFacts, Zenon DEF SideInv, SideTypes, HandSound

Spends == UNCHANGED budget \/ \E k \in BudgetKinds : Spend(k)

(* The parts of the invariant put together.                                 *)
LEMMA SideFrom ==
    ASSUME SideInv, wallet' \in [Wallets -> WalletRows], autoOn' \in BOOLEAN,
           guard' \in [Wallets -> GuardStates], pot' \in [Wallets -> Nat],
           unclear' \subseteq Transfer, Spends,
           hand' \in [Creators -> HandStates] /\ \A d \in Creators : HandSound(d)'
    PROVE  SideInv'
  BY BudgetNext, Zenon DEF SideInv, SideTypes, Spends

(* The parts of the invariant taken apart.                                  *)
LEMMA SideFacts ==
    ASSUME SideInv
    PROVE  /\ wallet \in [Wallets -> WalletRows] /\ autoOn \in BOOLEAN
           /\ guard \in [Wallets -> GuardStates] /\ pot \in [Wallets -> Nat]
           /\ pot \in [Wallets -> Int]
           /\ unclear \subseteq Transfer /\ budget \in [BudgetKinds -> Nat]
  BY SMT DEF SideInv, SideTypes

(* A step that leaves accounts and creators alone.                          *)
LEMMA WorkerSide ==
    ASSUME SideInv, UNCHANGED <<wallet, autoOn, hand>>,
           guard' \in [Wallets -> GuardStates], pot' \in [Wallets -> Nat],
           unclear' \subseteq Transfer, Spends
    PROVE  SideInv'
  BY HandStays, SideFacts, SideFrom, Zenon

(* A step that leaves the guards and the pots alone too.                    *)
LEMMA PlainSide ==
    ASSUME SideInv, UNCHANGED <<wallet, autoOn, hand, guard, pot, unclear>>, Spends
    PROVE  SideInv'
  BY SideFacts, WorkerSide, Zenon

(* An exchange call, given the pots after it.                               *)
LEMMA CallSide ==
    ASSUME CoreInv, SideInv, NEW w \in TransferWorkers, work[w].pc \in Holding,
           NEW next, NEW account, NEW potAfter \in [Wallets -> Nat],
           Call(w, next, account, potAfter)
    PROVE  SideInv'
<1>1. UNCHANGED <<wallet, autoOn, hand, guard>>
  BY Zenon DEF Call, ledger
<1>2. pot' \in [Wallets -> Nat]
  BY SideFacts, Zenon DEF Call, exchange
<1>3. Spends
  BY KindsOfBudget, Zenon DEF Call, Spends
<1>4. unclear' \subseteq Transfer
  <2>1. work[w].id \in Transfer /\ unclear \subseteq Transfer
    BY HeldFacts, SideFacts, Zenon
  <2>2. unclear' = unclear \/ unclear' = unclear \cup {work[w].id}
    BY Zenon DEF Call
  <2>3. QED
    BY <2>1, <2>2, SMT
<1>5. QED
  BY <1>1, <1>2, <1>3, <1>4, SideFacts, WorkerSide, Zenon

(* A call that only reads.                                                  *)
LEMMA AskSide ==
    ASSUME SideInv, NEW w, NEW next, Ask(w, next) PROVE SideInv'
<1>1. UNCHANGED <<wallet, autoOn, hand, guard, pot, unclear>>
  BY Zenon DEF Ask, ledger, exchange, history
<1>2. Spends
  BY KindsOfBudget, Zenon DEF Ask, Spends
<1>3. QED
  BY <1>1, <1>2, PlainSide, Zenon

(* A unit more in a pot.                                                    *)
LEMMA PotGrows ==
    ASSUME SideInv, NEW a \in Wallets
    PROVE  [pot EXCEPT ![a] = @ + 1] \in [Wallets -> Nat]
  BY SideFacts, SMT

(* Units taken from a pot that holds them.                                  *)
LEMMA PotShrinks ==
    ASSUME SideInv, NEW a \in Wallets, NEW n \in Nat, pot[a] >= n
    PROVE  [pot EXCEPT ![a] = @ - n] \in [Wallets -> Nat]
<1>1. pot[a] \in Nat /\ pot[a] - n \in Nat
  BY SideFacts, SMT
<1>2. QED
  BY <1>1, SideFacts, Updated, Zenon

(* The calls of a worker keep the types.                                    *)
LEMMA ExchangeSide ==
    ASSUME CoreInv, SideInv, NEW w \in TransferWorkers,
           \/ InternalTransfer(w) \/ MoveToWithdrawal(w) \/ ResolveDestination(w)
           \/ Withdraw(w) \/ ReadBefore(w) \/ AwaitCredit(w) \/ Forward(w)
    PROVE  SideInv'
<1>1. CASE InternalTransfer(w)
  <2>1. work[w].pc \in Holding
    BY <1>1, ExchangeStepsHold, SMT DEF InternalTransfer
  <2>2. PICK account : Call(w, Done(w), account, pot)
    BY <1>1, Zenon DEF InternalTransfer
  <2>3. QED
    BY <2>1, <2>2, SideFacts, CallSide, Zenon
<1>2. CASE MoveToWithdrawal(w)
  <2>1. work[w].pc \in Holding
    BY <1>2, ExchangeStepsHold, SMT DEF MoveToWithdrawal
  <2>2. PICK account : Call(w, WithPc(w, "resolve"), account, [pot EXCEPT ![From(w)] = @ + 1])
    BY <1>2, Zenon DEF MoveToWithdrawal
  <2>3. From(w) \in Wallets
    BY <2>1, HeldWallets, Zenon
  <2>4. QED
    BY <2>1, <2>2, <2>3, PotGrows, CallSide, Zenon
<1>3. CASE ResolveDestination(w)
  <2>1. UNCHANGED <<wallet, autoOn, hand, guard, pot, unclear>>
    BY <1>3, Zenon DEF ResolveDestination, ledger, exchange, history
  <2>2. Spends
    BY <1>3, KindsOfBudget, Zenon DEF ResolveDestination, Spends
  <2>3. QED
    BY <2>1, <2>2, PlainSide, Zenon
<1>4. CASE Withdraw(w)
  <2> DEFINE taken == IF From(w) \in TwoPlaces THEN 1 ELSE 0
  <2>1. work[w].pc \in Holding
    BY <1>4, ExchangeStepsHold, SMT DEF Withdraw
  <2>2. \/ pot[From(w)] < taken
           /\ UNCHANGED <<ledger, guard, hand, exchange, history, budget>>
        \/ /\ ~(pot[From(w)] < taken)
           /\ \E next, account : Call(w, next, account, [pot EXCEPT ![From(w)] = @ - taken])
    BY <1>4, Zenon DEF Withdraw
  <2>3. taken \in Nat
    BY SMT
  <2>4. CASE UNCHANGED <<ledger, guard, hand, exchange, history, budget>>
    BY <2>4, PlainSide, Zenon DEF Spends, ledger, exchange, history
  <2>5. CASE /\ ~(pot[From(w)] < taken)
             /\ \E next, account : Call(w, next, account, [pot EXCEPT ![From(w)] = @ - taken])
    <3>1. From(w) \in Wallets
      BY <2>1, HeldWallets, Zenon
    <3>2. pot[From(w)] >= taken
      BY <2>3, <2>5, <3>1, SideFacts, SMT
    <3> HIDE DEF taken
    <3>3. [pot EXCEPT ![From(w)] = @ - taken] \in [Wallets -> Nat]
      BY <2>3, <3>1, <3>2, PotShrinks, Zenon
    <3>4. PICK next, account : Call(w, next, account, [pot EXCEPT ![From(w)] = @ - taken])
      BY <2>5, Zenon
    <3>5. QED
      BY <2>1, <3>3, <3>4, CallSide, Zenon
  <2>6. QED
    BY <2>2, <2>4, <2>5, Zenon
<1>5. CASE ReadBefore(w)
  BY <1>5, AskSide, Zenon DEF ReadBefore
<1>6. CASE AwaitCredit(w)
  <2>1. \/ Ask(w, WithPc(w, "forward"))
        \/ UNCHANGED <<ledger, guard, hand, exchange, history, budget>>
    BY <1>6, Zenon DEF AwaitCredit
  <2>2. CASE UNCHANGED <<ledger, guard, hand, exchange, history, budget>>
    BY <2>2, PlainSide, Zenon DEF Spends, ledger, exchange, history
  <2>3. QED
    BY <2>1, <2>2, AskSide, Zenon
<1>7. CASE Forward(w)
  <2>1. work[w].pc \in Holding
    BY <1>7, ExchangeStepsHold, SMT DEF Forward
  <2>2. \/ UNCHANGED <<ledger, guard, hand, exchange, history, budget>>
        \/ /\ pot[To(w)] # 0
           /\ \E account : Call(w, Done(w), account, [pot EXCEPT ![To(w)] = @ - 1])
    BY <1>7, Zenon DEF Forward
  <2>3. CASE UNCHANGED <<ledger, guard, hand, exchange, history, budget>>
    BY <2>3, PlainSide, Zenon DEF Spends, ledger, exchange, history
  <2>4. CASE /\ pot[To(w)] # 0
             /\ \E account : Call(w, Done(w), account, [pot EXCEPT ![To(w)] = @ - 1])
    <3>1. To(w) \in Wallets
      BY <2>1, HeldWallets, Zenon
    <3>2. pot[To(w)] >= 1 /\ 1 \in Nat
      BY <2>4, <3>1, SideFacts, SMT
    <3>3. [pot EXCEPT ![To(w)] = @ - 1] \in [Wallets -> Nat]
      BY <3>1, <3>2, PotShrinks, Zenon
    <3>4. PICK account : Call(w, Done(w), account, [pot EXCEPT ![To(w)] = @ - 1])
      BY <2>4, Zenon
    <3>5. QED
      BY <2>1, <3>3, <3>4, CallSide, Zenon
  <2>5. QED
    BY <2>2, <2>3, <2>4, Zenon
<1>8. QED
  BY <1>1, <1>2, <1>3, <1>4, <1>5, <1>6, <1>7, Zenon

(* Leaving a record behind keeps them.                                      *)
LEMMA AbandonsSide ==
    ASSUME SideInv, NEW w, Abandons(w), UNCHANGED <<wallet, autoOn, hand>>
    PROVE  SideInv'
<1>1. UNCHANGED <<guard, pot, unclear>> /\ Spends
  BY KindsOfBudget, Zenon DEF Abandons, exchange, Spends
<1>2. QED
  BY <1>1, PlainSide, Zenon

(* A database error keeps them.                                             *)
LEMMA BreaksSide ==
    ASSUME SideInv, NEW w, work[w].id \in Transfer, DatabaseBreaks(w),
           UNCHANGED <<wallet, autoOn, hand, guard, pot>>
    PROVE  SideInv'
<1>1. Spends /\ unclear' = unclear \cup {work[w].id}
  BY KindsOfBudget, Zenon DEF DatabaseBreaks, Spends
<1>2. unclear' \subseteq Transfer
  BY <1>1, SideFacts, SMT
<1>3. QED
  BY <1>1, <1>2, SideFacts, WorkerSide, Zenon

(* A write to a guard keeps them.                                           *)
LEMMA GuardSide ==
    ASSUME SideInv, NEW a \in Wallets, NEW state \in GuardStates, WriteGuard(a, state)
    PROVE  guard' \in [Wallets -> GuardStates] /\ Spends
<1>1. guard' \in [Wallets -> GuardStates]
  BY SideFacts, WriteGuardTypes, Zenon
<1>2. Spends
  BY KindsOfBudget, Zenon DEF WriteGuard, Spends
<1>3. QED
  BY <1>1, <1>2

(* The worker's steps on the table keep them.                               *)
LEMMA RecordSide ==
    ASSUME CoreInv, SideInv, NEW w \in TransferWorkers,
           \/ Scan(w) \/ Claim(w) \/ EndPass(w) \/ Load(w)
           \/ PersistDestination(w) \/ Succeed(w)
           \/ PersistAfterFailure(w) \/ WriteFailed(w) \/ WorkerDies(w)
    PROVE  SideInv'
<1>1. CASE Scan(w) \/ Claim(w) \/ EndPass(w)
  <2>1. UNCHANGED <<wallet, autoOn, hand, guard, pot, unclear, budget>>
    BY <1>1, Zenon DEF Scan, Claim, EndPass, ledger, exchange, history
  <2>2. QED
    BY <2>1, PlainSide, Zenon DEF Spends
<1>2. CASE Load(w)
  <2>1. UNCHANGED <<wallet, autoOn, hand>>
    BY <1>2, Zenon DEF Load
  <2>2. \/ Abandons(w)
        \/ UNCHANGED <<guard, pot, unclear, budget>>
    BY <1>2, Zenon DEF Load, exchange, history
  <2>3. QED
    BY <2>1, <2>2, AbandonsSide, PlainSide, Zenon DEF Spends
<1>3. CASE PersistDestination(w)
  <2>1. work[w].pc \in Holding
    BY <1>3, ExchangeStepsHold, SMT DEF PersistDestination
  <2>2. work[w].id \in Transfer
    BY <2>1, HeldFacts, Zenon
  <2>3. UNCHANGED <<wallet, autoOn, hand, guard, pot>>
    BY <1>3, Zenon DEF PersistDestination, ledger, exchange
  <2>4. DatabaseBreaks(w) \/ UNCHANGED <<unclear, budget>>
    BY <1>3, Zenon DEF PersistDestination
  <2>5. QED
    BY <2>2, <2>3, <2>4, BreaksSide, PlainSide, Zenon DEF Spends
<1>4. CASE Succeed(w)
  <2>1. work[w].pc \in Holding
    BY <1>4, ExchangeStepsHold, SMT DEF Succeed
  <2>2. work[w].id \in Transfer
    BY <2>1, HeldFacts, Zenon
  <2>3. UNCHANGED <<wallet, autoOn, hand, guard, pot>>
    BY <1>4, Zenon DEF Succeed, exchange
  <2>4. DatabaseBreaks(w) \/ UNCHANGED <<unclear, budget>>
    BY <1>4, Zenon DEF Succeed
  <2>5. QED
    BY <2>2, <2>3, <2>4, BreaksSide, PlainSide, Zenon DEF Spends
<1>5. CASE PersistAfterFailure(w)
  <2>1. UNCHANGED <<wallet, autoOn, hand>>
    BY <1>5, Zenon DEF PersistAfterFailure
  <2>2. \/ Abandons(w)
        \/ UNCHANGED <<guard, pot, unclear, budget>>
    BY <1>5, Zenon DEF PersistAfterFailure, exchange, history
  <2>3. QED
    BY <2>1, <2>2, AbandonsSide, PlainSide, Zenon DEF Spends
<1>6. CASE WriteFailed(w)
  <2>1. UNCHANGED <<wallet, autoOn, hand>>
    BY <1>6, Zenon DEF WriteFailed
  <2>2. \/ Abandons(w)
        \/ UNCHANGED <<guard, pot, unclear, budget>>
    BY <1>6, Zenon DEF WriteFailed, exchange, history
  <2>3. QED
    BY <2>1, <2>2, AbandonsSide, PlainSide, Zenon DEF Spends
<1>7. CASE WorkerDies(w)
  <2>1. UNCHANGED <<wallet, autoOn, hand, guard, pot, unclear>>
    BY <1>7, Zenon DEF WorkerDies, ledger, exchange
  <2>2. Spends
    BY <1>7, KindsOfBudget, Zenon DEF WorkerDies, Spends
  <2>3. QED
    BY <2>1, <2>2, PlainSide, Zenon
<1>8. QED
  BY <1>1, <1>2, <1>3, <1>4, <1>5, <1>6, <1>7, Zenon

(* The fault a worker reports is one that may freeze an account.            *)
Reading == {"guard_read", "oops_read"}
Writing == {"guard_write", "oops_write"}
FaultSound(w) == work[w].pc \in Reading \cup Writing => work[w].kind \in FreezeWorthy

(* The steps that report to a guard hold a record or come after it.         *)
LEMMA ReportSteps ==
    /\ Reading \cup Writing \subseteq Holding \cup AfterStatus
    /\ FreezeWorthy \subseteq FaultKinds
  BY SMT DEF Reading, Writing, Holding, FailureSteps, AfterStatus, FaultKinds

(* The worker's steps on the guards keep the types.                         *)
LEMMA GuardStepsSide ==
    ASSUME CoreInv, SideInv, NEW w \in TransferWorkers, FaultSound(w),
           \/ ClearAfterSuccess(w) \/ ReadBlamed(w) \/ WriteBlamed(w)
    PROVE  SideInv'
<1>1. CASE ClearAfterSuccess(w)
  <2>1. UNCHANGED <<wallet, autoOn, hand, pot, unclear>>
    BY <1>1, Zenon DEF ClearAfterSuccess, ledger, exchange, history
  <2>2. work[w].pc \in Holding
    BY <1>1, ExchangeStepsHold, SMT DEF ClearAfterSuccess
  <2>3. PICK a \in Wallets : WriteGuard(a, NoGuard)
    BY <1>1, <2>2, HeldWallets, Zenon DEF ClearAfterSuccess
  <2>4. QED
    BY <2>1, <2>3, NoGuardState, GuardSide, SideFacts, WorkerSide, Zenon
<1>2. CASE ReadBlamed(w)
  <2>1. UNCHANGED <<wallet, autoOn, hand, pot, unclear, guard>>
    BY <1>2, Zenon DEF ReadBlamed, ledger, exchange
  <2>2. Spends
    BY <1>2, KindsOfBudget, Zenon DEF ReadBlamed, ReadGuard, Spends
  <2>3. QED
    BY <2>1, <2>2, PlainSide, Zenon
<1>3. CASE WriteBlamed(w)
  <2>1. UNCHANGED <<wallet, autoOn, hand, pot, unclear>>
    BY <1>3, Zenon DEF WriteBlamed, ledger, exchange, history
  <2>2. work[w].pc \in Writing
    BY <1>3, Zenon DEF WriteBlamed, Writing
  <2>3. work[w].pc \in Holding \cup AfterStatus /\ work[w].kind \in FaultKinds
    BY <2>2, ReportSteps, Zenon DEF FaultSound
  <2>4. Blamed(w) \in Wallets
    BY <2>3, HeldWallets, Zenon DEF Blamed
  <2>5. AfterFailure(work[w].seen, work[w].kind) \in GuardStates
    BY <2>3, CoreFacts, FailureState, Zenon
  <2>6. WriteGuard(Blamed(w), AfterFailure(work[w].seen, work[w].kind))
    BY <1>3, Zenon DEF WriteBlamed
  <2>7. QED
    BY <2>1, <2>4, <2>5, <2>6, GuardSide, SideFacts, WorkerSide, Zenon
<1>4. QED
  BY <1>1, <1>2, <1>3, Zenon

(* Changing the step of a creator, for the actual types.                    *)
LEMMA HandStep ==
    ASSUME SideInv, NEW c \in Creators, NEW x \in HandSteps
    PROVE  /\ [hand[c] EXCEPT !.pc = x] \in HandStates
           /\ [hand[c] EXCEPT !.pc = x].pc = x
           /\ [hand[c] EXCEPT !.pc = x].from = hand[c].from
           /\ [hand[c] EXCEPT !.pc = x].to = hand[c].to
  BY HandFacts, HandPc, Zenon DEF HandStates

(* Planning, checking and inserting keep the types.                         *)
LEMMA CreatorSide ==
    ASSUME SideInv, NEW c \in Creators, CreatorStep(c) PROVE SideInv'
<1>1. CASE \E a, b \in Wallets : PickPair(c, a, b)
  <2>1. PICK a \in Wallets, b \in Wallets : PickPair(c, a, b)
    BY <1>1, Zenon
  <2>2. /\ hand' = [hand EXCEPT ![c] = [hand[c] EXCEPT !.pc = "check", !.from = a, !.to = b]]
        /\ UNCHANGED <<wallet, autoOn, guard, pot, unclear>>
    BY <2>1, Zenon DEF PickPair, ledger, exchange, history
  <2>3. Spends
    BY <2>1, KindsOfBudget, Zenon DEF PickPair, Spends
  <2>4. "check" \in HandSteps /\ a \in WalletsOrNone /\ b \in WalletsOrNone
    BY DEF HandSteps, WalletsOrNone
  <2> DEFINE h == [hand[c] EXCEPT !.pc = "check", !.from = a, !.to = b]
  <2>5. h \in HandStates /\ h.pc = "check" /\ h.from = a /\ h.to = b
    BY <2>4, HandFacts, HandPcFromTo, Zenon DEF HandStates
  <2> HIDE DEF h
  <2>6. h.pc # "clear"
    BY <2>5
  <2>7. hand' \in [Creators -> HandStates] /\ \A d \in Creators : HandSound(d)'
    BY <2>2, <2>5, <2>6, HandReplaced, Zenon DEF h
  <2>8. QED
    BY <2>2, <2>3, <2>7, SideFacts, SideFrom, Zenon
<1>2. CASE CheckOpen(c)
  <2>1. /\ hand[c].pc = "check" /\ UNCHANGED <<wallet, autoOn, guard, pot, unclear, budget>>
        /\ \/ hand' = [hand EXCEPT ![c] = IdleHand]
           \/ hand' = [hand EXCEPT ![c] = [hand[c] EXCEPT !.pc = "insert"]]
    BY <1>2, Zenon DEF CheckOpen, ledger, exchange, history
  <2>2. CASE hand' = [hand EXCEPT ![c] = IdleHand]
    BY <2>1, <2>2, HandIdles, SideFacts, SideFrom, Zenon DEF Spends
  <2>3. CASE hand' = [hand EXCEPT ![c] = [hand[c] EXCEPT !.pc = "insert"]]
    <3>1. "insert" \in HandSteps /\ hand[c].from \in Wallets /\ hand[c].to \in Wallets
      BY <2>1, HandFacts, SMT DEF HandSteps, HandSound
    <3> DEFINE h == [hand[c] EXCEPT !.pc = "insert"]
    <3>2. h \in HandStates /\ h.pc = "insert" /\ h.from \in Wallets /\ h.to \in Wallets
      BY <3>1, HandStep, Zenon
    <3> HIDE DEF h
    <3>3. h.pc # "clear"
      BY <3>2
    <3>4. hand' \in [Creators -> HandStates] /\ \A d \in Creators : HandSound(d)'
      BY <2>3, <3>2, <3>3, HandReplaced, Zenon DEF h
    <3>5. QED
      BY <2>1, <3>4, SideFacts, SideFrom, Zenon DEF Spends
  <2>4. QED
    BY <2>1, <2>2, <2>3, Zenon
<1>3. CASE InsertAuto(c)
  <2>1. /\ hand' = [hand EXCEPT ![c] = IdleHand]
        /\ UNCHANGED <<wallet, autoOn, guard, pot, unclear, budget>>
    BY <1>3, Zenon DEF InsertAuto, exchange, history
  <2>2. QED
    BY <2>1, HandIdles, SideFacts, SideFrom, Zenon DEF Spends
<1>4. CASE CreatorDies(c)
  <2>1. /\ hand' = [hand EXCEPT ![c] = IdleHand]
        /\ UNCHANGED <<wallet, autoOn, guard, pot, unclear>>
    BY <1>4, Zenon DEF CreatorDies, ledger, exchange, history
  <2>2. Spends
    BY <1>4, KindsOfBudget, Zenon DEF CreatorDies, Spends
  <2>3. QED
    BY <2>1, <2>2, HandIdles, SideFacts, SideFrom, Zenon
<1>5. QED
  BY <1>1, <1>2, <1>3, <1>4, Zenon DEF CreatorStep

(* An edited account is an account.                                         *)
LEMMA RowKeyTested ==
    ASSUME NEW L, NEW K, NEW T, NEW A, NEW k \in K, NEW t \in T,
           NEW r \in [live : L, key : K, tested : T, address : A]
    PROVE  [r EXCEPT !.key = k, !.tested = t] \in [live : L, key : K, tested : T, address : A]
  OBVIOUS

(* So is one with another address.                                          *)
LEMMA RowAddress ==
    ASSUME NEW L, NEW K, NEW T, NEW A, NEW d \in A,
           NEW r \in [live : L, key : K, tested : T, address : A]
    PROVE  [r EXCEPT !.address = d] \in [live : L, key : K, tested : T, address : A]
  OBVIOUS

(* So is one that was tested.                                               *)
LEMMA RowTested ==
    ASSUME NEW L, NEW K, NEW T, NEW A, NEW t \in T,
           NEW r \in [live : L, key : K, tested : T, address : A]
    PROVE  [r EXCEPT !.tested = t] \in [live : L, key : K, tested : T, address : A]
  OBVIOUS

(* So is one that was deleted.                                              *)
LEMMA RowLive ==
    ASSUME NEW L, NEW K, NEW T, NEW A, NEW l \in L,
           NEW r \in [live : L, key : K, tested : T, address : A]
    PROVE  [r EXCEPT !.live = l] \in [live : L, key : K, tested : T, address : A]
  OBVIOUS

(* The table of accounts after a test.                                      *)
LEMMA TestedRows ==
    ASSUME SideInv, NEW a \in Wallets, NEW t \in BOOLEAN,
           wallet' = [wallet EXCEPT ![a] = [wallet[a] EXCEPT !.tested = t]]
    PROVE  wallet' \in [Wallets -> WalletRows]
<1>1. wallet \in [Wallets -> WalletRows]
  BY SideFacts, Zenon
<1>2. wallet[a] \in WalletRows
  BY <1>1, Zenon
<1>3. [wallet[a] EXCEPT !.tested = t] \in WalletRows
  BY <1>2, RowTested, Zenon DEF WalletRows
<1>4. QED
  BY <1>1, <1>3, Updated, Zenon

(* What edits and tests clear are sets of faults.                           *)
LEMMA ClearedKinds ==
    /\ ClearedByConnection \in SUBSET FaultKinds
    /\ ClearedByAddress \in SUBSET FaultKinds
    /\ ClearedByTest \in SUBSET FaultKinds
    /\ {} \in SUBSET FaultKinds
  BY SMT DEF ClearedByConnection, ClearedByAddress, ClearedByTest, FaultKinds, FreezeWorthy

(* A request that begins by naming an account.                              *)
LEMMA AsksHand ==
    ASSUME SideInv, NEW x \in {"address", "look"}, NEW a \in Wallets,
           NEW k \in SUBSET FaultKinds,
           hand' = [hand EXCEPT !["web"] = Asking(x, a, k)]
    PROVE  hand' \in [Creators -> HandStates] /\ \A d \in Creators : HandSound(d)'
<1>1. "web" \in Creators /\ x \in HandSteps /\ a \in WalletsOrNone
  BY SMT DEF Creators, HandSteps, WalletsOrNone
<1>2. /\ Asking(x, a, k) \in HandStates
      /\ Asking(x, a, k).pc = x /\ Asking(x, a, k).from = a
  BY <1>1, AskingState, Zenon
<1>3. x \notin {"check", "insert", "clear"}
  OBVIOUS
<1> DEFINE h == Asking(x, a, k)
<1> HIDE DEF h
<1>4. h \in HandStates /\ h.pc = x /\ h.from \in Wallets /\ hand' = [hand EXCEPT !["web"] = h]
  BY <1>2, Zenon DEF h
<1>5. QED
  BY <1>1, <1>3, <1>4, HandReplaced, Zenon

(* Editing the address keeps the types.                                     *)
LEMMA AddressSide ==
    ASSUME SideInv, EditAddress PROVE SideInv'
<1> DEFINE a == hand["web"].from
<1>1. /\ hand["web"].pc = "address"
      /\ UNCHANGED <<autoOn, guard, pot, unclear, budget>>
  BY Zenon DEF EditAddress, exchange, history
<1>2. /\ "web" \in Creators /\ a \in Wallets /\ hand["web"] \in HandStates
      /\ hand["web"].kinds \in SUBSET FaultKinds
  <2>1. "web" \in Creators
    BY DEF Creators
  <2>2. a \in Wallets /\ hand["web"] \in HandStates
    BY <1>1, <2>1, HandFacts, SMT DEF HandSound
  <2>3. QED
    BY <2>1, <2>2, SMT DEF HandStates
<1>3. PICK d \in {"none", "internal", "chain"}, k \in {ClearedByAddress, {}} :
         /\ wallet' = [wallet EXCEPT ![a] = [wallet[a] EXCEPT !.address = d]]
         /\ hand' = [hand EXCEPT !["web"] =
               IF hand["web"].kinds \cup k = {} THEN IdleHand
               ELSE [hand["web"] EXCEPT !.pc = "look",
                                        !.kinds = hand["web"].kinds \cup k]]
  BY Zenon DEF EditAddress
<1> DEFINE kinds == hand["web"].kinds \cup k
<1>4. kinds \in SUBSET FaultKinds
  BY <1>2, ClearedKinds, SMT
<1> HIDE DEF kinds
<1>5. wallet' \in [Wallets -> WalletRows]
  <2>1. wallet \in [Wallets -> WalletRows]
    BY SideFacts, Zenon
  <2>2. wallet[a] \in WalletRows
    BY <1>2, <2>1, Zenon
  <2>3. [wallet[a] EXCEPT !.address = d] \in WalletRows
    BY <2>2, RowAddress, Zenon DEF WalletRows
  <2>4. QED
    BY <1>2, <1>3, <2>1, <2>3, Updated, Zenon
<1>6. hand' \in [Creators -> HandStates] /\ \A c \in Creators : HandSound(c)'
  <2>1. CASE kinds = {}
    <3>1. hand' = [hand EXCEPT !["web"] = IdleHand]
      BY <1>3, <2>1, Zenon DEF kinds
    <3>2. QED
      BY <1>2, <3>1, HandIdles, Zenon
  <2>2. CASE kinds # {}
    <3> DEFINE h == [hand["web"] EXCEPT !.pc = "look", !.kinds = kinds]
    <3>1. hand' = [hand EXCEPT !["web"] = h]
      BY <1>3, <2>2, Zenon DEF kinds
    <3>2. "look" \in HandSteps
      BY DEF HandSteps
    <3>3. h \in HandStates /\ h.pc = "look" /\ h.from = a
      BY <1>2, <1>4, <3>2, HandPcKinds, Zenon DEF HandStates
    <3>4. h.pc \notin {"check", "insert", "clear"} /\ h.from \in Wallets
      BY <1>2, <3>3
    <3> HIDE DEF h
    <3>5. QED
      BY <1>2, <3>1, <3>3, <3>4, HandReplaced, Zenon
  <2>3. QED
    BY <2>1, <2>2, Zenon
<1>7. QED
  BY <1>1, <1>5, <1>6, SideFacts, SideFrom, Zenon DEF Spends

(* Reading the guard before clearing it does: only an unfrozen one is kept. *)
LEMMA LookSide ==
    ASSUME SideInv, LookAtGuard PROVE SideInv'
<1> DEFINE a == hand["web"].from
<1>1. /\ hand["web"].pc = "look"
      /\ UNCHANGED <<wallet, autoOn, guard, pot, unclear>>
  BY Zenon DEF LookAtGuard, ledger, exchange, history
<1>2. "web" \in Creators /\ a \in Wallets /\ hand["web"] \in HandStates
  <2>1. "web" \in Creators
    BY DEF Creators
  <2>2. QED
    BY <1>1, <2>1, HandFacts, SMT DEF HandSound
<1>3. PICK seen \in {guard[a], NoGuard} :
         /\ ReadGuard(a, seen)
         /\ hand' = [hand EXCEPT !["web"] =
               IF Clearable(seen, hand["web"].kinds)
               THEN [hand["web"] EXCEPT !.pc = "clear", !.seen = seen]
               ELSE IdleHand]
  BY Zenon DEF LookAtGuard
<1>4. seen \in GuardStates
  <2>1. guard[a] \in GuardStates
    BY <1>2, SideFacts, Zenon
  <2>2. QED
    BY <2>1, NoGuardState, Zenon
<1>5. Spends
  BY <1>3, KindsOfBudget, Zenon DEF ReadGuard, Spends
<1>6. hand' \in [Creators -> HandStates] /\ \A c \in Creators : HandSound(c)'
  <2>1. CASE ~Clearable(seen, hand["web"].kinds)
    <3>1. hand' = [hand EXCEPT !["web"] = IdleHand]
      BY <1>3, <2>1, Zenon
    <3>2. QED
      BY <1>2, <3>1, HandIdles, Zenon
  <2>2. CASE Clearable(seen, hand["web"].kinds)
    <3> DEFINE h == [hand["web"] EXCEPT !.pc = "clear", !.seen = seen]
    <3>1. hand' = [hand EXCEPT !["web"] = h]
      BY <1>3, <2>2, Zenon
    <3>2. "clear" \in HandSteps /\ ~seen.frozen
      BY <2>2, SMT DEF HandSteps, Clearable
    <3>3. h \in HandStates /\ h.pc = "clear" /\ h.from = a /\ h.seen = seen
      BY <1>2, <1>4, <3>2, HandPcSeen, Zenon DEF HandStates
    <3>4. h.pc \notin {"check", "insert"} /\ h.from \in Wallets
      BY <1>2, <3>3
    <3> HIDE DEF h
    <3>5. QED
      BY <1>2, <3>1, <3>2, <3>3, <3>4, HandReplaced, Zenon
  <2>3. QED
    BY <2>1, <2>2, Zenon
<1>7. QED
  BY <1>1, <1>5, <1>6, SideFacts, SideFrom, Zenon

(* Every request keeps them.                                                *)
LEMMA RequestSide ==
    ASSUME SideInv, WebStep PROVE SideInv'
<1>1. CASE \E a, b \in Wallets : ManualTransfer(a, b)
  <2>1. UNCHANGED <<wallet, autoOn, hand, guard, pot, unclear>> /\ Spends
    BY <1>1, KindsOfBudget, Zenon DEF ManualTransfer, exchange, history, Spends
  <2>2. QED
    BY <2>1, PlainSide, Zenon
<1>2. CASE SetAutoTransfer
  <2>1. /\ UNCHANGED <<wallet, hand, guard, pot, unclear>> /\ Spends
        /\ autoOn' = ~autoOn
    BY <1>2, KindsOfBudget, Zenon DEF SetAutoTransfer, exchange, history, Spends
  <2>2. autoOn' \in BOOLEAN
    BY <2>1, Zenon
  <2>3. QED
    BY <2>1, <2>2, HandStays, SideFacts, SideFrom, Zenon
<1>3. CASE \E a \in Wallets : EditRow(a)
  <2>1. PICK a \in Wallets : EditRow(a)
    BY <1>3, Zenon
  <2>2. UNCHANGED <<autoOn, guard, pot, unclear>> /\ Spends
    BY <2>1, KindsOfBudget, Zenon DEF EditRow, exchange, history, Spends
  <2>3. PICK k \in MasterKeys, t \in BOOLEAN :
           /\ wallet' = [wallet EXCEPT ![a] = [wallet[a] EXCEPT !.key = k, !.tested = t]]
           /\ hand' = [hand EXCEPT !["web"] =
                 Asking("address", a, IF k # wallet[a].key THEN ClearedByConnection
                                      ELSE {})]
    BY <2>1, Zenon DEF EditRow
  <2>4. wallet' \in [Wallets -> WalletRows]
    <3>1. wallet \in [Wallets -> WalletRows]
      BY SideFacts, Zenon
    <3>2. wallet[a] \in WalletRows
      BY <3>1, Zenon
    <3>3. [wallet[a] EXCEPT !.key = k, !.tested = t] \in WalletRows
      BY <3>2, RowKeyTested, Zenon DEF WalletRows
    <3>4. QED
      BY <2>3, <3>1, <3>3, Updated, Zenon
  <2>5. (IF k # wallet[a].key THEN ClearedByConnection ELSE {}) \in SUBSET FaultKinds
    BY ClearedKinds, Zenon
  <2>6. hand' \in [Creators -> HandStates] /\ \A c \in Creators : HandSound(c)'
    BY <2>3, <2>5, AsksHand, Zenon
  <2>7. QED
    BY <2>2, <2>4, <2>6, SideFacts, SideFrom, Zenon
<1>4. CASE EditAddress
  BY <1>4, AddressSide, Zenon
<1>5. CASE \E a \in Wallets, t \in BOOLEAN : MarkTest(a, t)
  <2>1. PICK a \in Wallets, t \in BOOLEAN : MarkTest(a, t)
    BY <1>5, Zenon
  <2>2. UNCHANGED <<autoOn, guard, pot, unclear>> /\ Spends
    BY <2>1, KindsOfBudget, Zenon DEF MarkTest, exchange, history, Spends
  <2>3. /\ wallet' = [wallet EXCEPT ![a] = [wallet[a] EXCEPT !.tested = t]]
        /\ hand' = [hand EXCEPT !["web"] =
              IF t THEN Asking("look", a, ClearedByTest) ELSE IdleHand]
    BY <2>1, Zenon DEF MarkTest
  <2>4. wallet' \in [Wallets -> WalletRows]
    BY <2>3, TestedRows, Zenon
  <2>5. hand' \in [Creators -> HandStates] /\ \A c \in Creators : HandSound(c)'
    <3>1. CASE t
      BY <2>3, <3>1, ClearedKinds, AsksHand, Zenon
    <3>2. CASE ~t
      <4>1. "web" \in Creators
        BY DEF Creators
      <4>2. QED
        BY <2>3, <3>2, <4>1, HandIdles, Zenon
    <3>3. QED
      BY <3>1, <3>2, Zenon
  <2>6. QED
    BY <2>2, <2>4, <2>5, SideFacts, SideFrom, Zenon
<1>6. CASE LookAtGuard
  BY <1>6, LookSide, Zenon
<1>7. CASE ClearGuard
  <2>1. /\ UNCHANGED <<wallet, autoOn, pot, unclear>>
        /\ hand' = [hand EXCEPT !["web"] = IdleHand]
        /\ WriteGuard(hand["web"].from, NoGuard) /\ hand["web"].pc = "clear"
    BY <1>7, Zenon DEF ClearGuard, ledger, exchange, history
  <2>2. "web" \in Creators /\ hand["web"].from \in Wallets
    <3>1. "web" \in Creators
      BY DEF Creators
    <3>2. QED
      BY <2>1, <3>1, HandFacts, SMT DEF HandSound
  <2>3. guard' \in [Wallets -> GuardStates] /\ Spends
    BY <2>1, <2>2, NoGuardState, GuardSide, Zenon
  <2>4. QED
    BY <2>1, <2>2, <2>3, HandIdles, SideFacts, SideFrom, Zenon
<1>8. CASE \E a \in Wallets : DeleteWallet(a)
  <2>1. PICK a \in Wallets : DeleteWallet(a)
    BY <1>8, Zenon
  <2>2. /\ UNCHANGED <<autoOn, hand, guard, pot, unclear>> /\ Spends
        /\ wallet' = [wallet EXCEPT ![a] = [wallet[a] EXCEPT !.live = FALSE]]
    BY <2>1, KindsOfBudget, Zenon DEF DeleteWallet, exchange, history, Spends
  <2>3. wallet' \in [Wallets -> WalletRows]
    <3>1. wallet \in [Wallets -> WalletRows]
      BY SideFacts, Zenon
    <3>2. wallet[a] \in WalletRows /\ FALSE \in BOOLEAN
      BY <3>1, Zenon
    <3>3. [wallet[a] EXCEPT !.live = FALSE] \in WalletRows
      BY <3>2, RowLive, Zenon DEF WalletRows
    <3>4. QED
      BY <2>2, <3>1, <3>3, Updated, Zenon
  <2>4. QED
    BY <2>2, <2>3, HandStays, SideFacts, SideFrom, Zenon
<1>9. CASE \E a \in Wallets : Unlock(a)
  <2>1. PICK a \in Wallets : Unlock(a)
    BY <1>9, Zenon
  <2>2. /\ UNCHANGED <<wallet, autoOn, hand, pot, unclear>> /\ Spends
        /\ guard' = [guard EXCEPT ![a] = NoGuard]
    BY <2>1, KindsOfBudget, Zenon DEF Unlock, ledger, exchange, history, Spends
  <2>3. guard' \in [Wallets -> GuardStates]
    BY <2>2, NoGuardState, SideFacts, Updated, Zenon
  <2>4. QED
    BY <2>2, <2>3, SideFacts, WorkerSide, Zenon
<1>10. QED
  BY <1>1, <1>2, <1>3, <1>4, <1>5, <1>6, <1>7, <1>8, <1>9, Zenon DEF WebStep

(* Credits and the account monitor keep them.                               *)
LEMMA WorldSide ==
    ASSUME SideInv, CoreInv,
           (\E r \in Transfer : Credit(r)) \/ (\E a \in Wallets : MonitorTests(a))
    PROVE  SideInv'
<1>1. CASE \E r \in Transfer : Credit(r)
  <2>1. PICK r \in Transfer : Credit(r)
    BY <1>1, Zenon
  <2>2. /\ UNCHANGED <<wallet, autoOn, hand, guard, unclear, budget>>
        /\ record[r].to \in SwapWallets
        /\ pot' = [pot EXCEPT ![record[r].to] = @ + 1]
    BY <2>1, Zenon DEF Credit, ledger, history
  <2>3. record[r].to \in Wallets
    BY <2>2, WalletAssumption, Zenon
  <2>4. pot' \in [Wallets -> Nat]
    BY <2>2, <2>3, PotGrows, Zenon
  <2>5. QED
    BY <2>2, <2>4, SideFacts, WorkerSide, Zenon DEF Spends
<1>2. CASE \E a \in Wallets : MonitorTests(a)
  <2>1. PICK a \in Wallets : MonitorTests(a)
    BY <1>2, Zenon
  <2>2. /\ UNCHANGED <<autoOn, hand, guard, pot, unclear>> /\ Spends
        /\ wallet' = [wallet EXCEPT ![a] = [wallet[a] EXCEPT !.tested = TRUE]]
    BY <2>1, KindsOfBudget, Zenon DEF MonitorTests, exchange, history, Spends
  <2>3. TRUE \in BOOLEAN
    OBVIOUS
  <2>4. wallet' \in [Wallets -> WalletRows]
    BY <2>2, <2>3, TestedRows, Zenon
  <2>5. QED
    BY <2>2, <2>4, HandStays, SideFacts, SideFrom, Zenon
<1>3. QED
  BY <1>1, <1>2, Zenon

-----------------------------------------------------------------------------
(* The guards: what is in a guard was reported, by records that are done    *)
(* with reporting.                                                          *)
Known(r) == record[r].status \notin {"none", "pending"}

RecordsGoOn ==
    \A r \in Transfer :
        Known(r) => Known(r)' /\ record'[r].from = record[r].from
                              /\ record'[r].to = record[r].to

Earned(a) ==
    \E k \in FreezeWorthy :
        \E r, s \in Transfer : r # s /\ {<<r, a, k>>, <<s, a, k>>} \subseteq blamed

Reported(r) ==
    Known(r) /\ \A w \in TransferWorkers : work[w].id = r => work[w].pc = "oops_status"

GuardSound(a) ==
    /\ guard[a].count >= 1 =>
          \E r \in Transfer : <<r, a, guard[a].kind>> \in blamed /\ Reported(r)
    /\ guard[a].frozen => Earned(a)

ReportSound(w) ==
    /\ FaultSound(w)
    /\ work[w].pc \in Writing =>
          /\ <<work[w].id, Blamed(w), work[w].kind>> \in blamed
          /\ work[w].seen.count >= 1 =>
                \E r \in Transfer : r # work[w].id
                                    /\ <<r, Blamed(w), work[w].seen.kind>> \in blamed
          /\ work[w].seen.frozen => Earned(Blamed(w))

BlameInv ==
    /\ blamed \subseteq Transfer \X Wallets \X FreezeWorthy
    /\ \A a \in Wallets : GuardSound(a)
    /\ \A w \in TransferWorkers : ReportSound(w)

(* A record in a worker's hands is neither new nor pending.                 *)
LEMMA HeldIsKnown ==
    ASSUME CoreInv, NEW w \in TransferWorkers, work[w].id \in Transfer
    PROVE  Known(work[w].id)
<1>1. WorkSound(w)
  BY Zenon DEF CoreInv
<1>2. record[work[w].id].status \in {"executing", "deleted", "failed"}
  BY <1>1, SMT DEF WorkSound
<1>3. QED
  BY <1>2, SMT DEF Known

(* A record that gets a later status stays known, and so do the others.     *)
LEMMA MarkedGoesOn ==
    ASSUME NEW r \in Transfer, NEW x, x \notin {"none", "pending"}, Marked(r, x)
    PROVE  RecordsGoOn
<1>1. record'[r].status \notin {"none", "pending"}
  BY Zenon DEF Marked
<1>2. QED
  BY <1>1, Zenon DEF RecordsGoOn, Marked, Known

(* Records nobody touches stay known.                                       *)
LEMMA SameRecordsGoOn == ASSUME UNCHANGED record PROVE RecordsGoOn
  BY Zenon DEF RecordsGoOn, Known

(* An insert takes a number nobody knows.                                   *)
LEMMA InsertGoesOn ==
    ASSUME CoreInv, NEW a, NEW b, NEW by, Insert(a, b, by), lastId < MaxTransfers
    PROVE  RecordsGoOn
<1>1. /\ lastId \in 0 .. MaxTransfers /\ record \in [Transfer -> RecordStates]
      /\ record' = [record EXCEPT ![lastId + 1] =
                       [from |-> a, to |-> b, by |-> by, status |-> "pending"]]
  BY Zenon DEF CoreInv, CoreTypes, Insert
<1>2. lastId + 1 \in Transfer /\ lastId + 1 > lastId
  BY <1>1, MaxTransfersAssumption, SMT DEF Transfer
<1>3. record[lastId + 1].status = "none"
  BY <1>2, Zenon DEF CoreInv, RecordSound
<1>4. \A r \in Transfer : r # lastId + 1 => record'[r] = record[r]
  BY <1>1, <1>2, Zenon
<1>5. ~Known(lastId + 1)
  BY <1>3 DEF Known
<1>6. QED
  BY <1>4, <1>5, Zenon DEF RecordsGoOn, Known

(* A deleted record stays known.                                            *)
LEMMA DeleteGoesOn ==
    ASSUME NEW a, CoreInv,
           record' = [r \in Transfer |->
              IF record[r].status # "none" /\ a \in {record[r].from, record[r].to}
              THEN [record[r] EXCEPT !.status = "deleted"] ELSE record[r]]
    PROVE  RecordsGoOn
<1> SUFFICES ASSUME NEW r \in Transfer, Known(r)
             PROVE  Known(r)' /\ record'[r].from = record[r].from
                              /\ record'[r].to = record[r].to
  BY DEF RecordsGoOn
<1>1. record[r] \in RecordStates
  BY SMT DEF CoreInv, CoreTypes
<1>2. CASE record[r].status # "none" /\ a \in {record[r].from, record[r].to}
  <2>1. record'[r] = [record[r] EXCEPT !.status = "deleted"]
    BY <1>2, Zenon
  <2>2. "deleted" \in RecordStatuses
    BY StatusKinds, SMT
  <2>3. /\ record'[r].status = "deleted"
        /\ record'[r].from = record[r].from /\ record'[r].to = record[r].to
    BY <1>1, <2>1, <2>2, RecordStatus, Zenon
  <2>4. "deleted" \notin {"none", "pending"}
    OBVIOUS
  <2>5. QED
    BY <2>3, <2>4, Zenon DEF Known
<1>3. CASE ~(record[r].status # "none" /\ a \in {record[r].from, record[r].to})
  <2>1. record'[r] = record[r]
    BY <1>3, Zenon
  <2>2. QED
    BY <2>1, Zenon DEF Known
<1>4. QED
  BY <1>2, <1>3, Zenon

(* So does one that ends.                                                   *)
LEMMA FinishGoesOn ==
    ASSUME CoreInv, NEW w \in TransferWorkers, work[w].pc \in Holding,
           NEW status \in {"success", "failed"}, Finish(w, status)
    PROVE  RecordsGoOn
<1>1. PICK x \in {"success", "failed", "deleted"} : Marked(work[w].id, x)
  BY FinishMarks, Zenon
<1>2. x \notin {"none", "pending"} /\ work[w].id \in Transfer
  BY HeldFacts, SMT
<1>3. QED
  BY <1>1, <1>2, MarkedGoesOn, Zenon

(* The invariant of the guards is kept by a step of a worker that reports   *)
(* nothing, and by a step of anyone else that writes no failure.            *)
OnlyReleases == \A a \in Wallets : guard'[a] \in {guard[a], NoGuard}

StepsOn(w) ==
    \E pc, i, kind, seen :
        /\ Becomes(w, pc, i, kind, seen)
        /\ pc \notin Writing
        /\ pc \in Reading => kind \in FreezeWorthy
        /\ i \in Transfer => \/ i = work[w].id /\ work[w].pc # "oops_status"
                             \/ ~Known(i)

(* A guard that is released or left alone stays accounted for.              *)
LEMMA GuardKeeps ==
    ASSUME BlameInv, blamed \subseteq blamed',
           \A r \in Transfer : Reported(r) => Reported(r)',
           NEW a \in Wallets, guard'[a] \in {guard[a], NoGuard}
    PROVE  GuardSound(a)'
<1>1. GuardSound(a)
  BY Zenon DEF BlameInv
<1>2. CASE guard'[a] = NoGuard
  <2>1. ~(guard'[a].count >= 1) /\ ~guard'[a].frozen
    BY <1>2, NoGuardState, SMT
  <2>2. QED
    BY <2>1, Zenon DEF GuardSound
<1>3. CASE guard'[a] = guard[a]
  <2>1. Earned(a) => Earned(a)'
    BY Zenon DEF Earned
  <2>2. QED
    BY <1>1, <1>3, <2>1, Zenon DEF GuardSound
<1>4. QED
  BY <1>2, <1>3, Zenon

(* A worker that does not move keeps its report.                            *)
LEMMA OthersReport ==
    ASSUME CoreInv, BlameInv, RecordsGoOn, blamed \subseteq blamed',
           NEW v \in TransferWorkers, work'[v] = work[v]
    PROVE  ReportSound(v)'
<1>1. ReportSound(v)
  BY Zenon DEF BlameInv
<1>2. FaultSound(v)'
  BY <1>1, Zenon DEF ReportSound, FaultSound
<1>3. ASSUME work[v].pc \in Writing
      PROVE  Blamed(v)' = Blamed(v)
  <2>1. work[v].id \in Transfer
    BY <1>3, ReportSteps, CoreFacts, Zenon DEF WorkSound
  <2>2. From(v)' = From(v) /\ To(v)' = To(v)
    BY <2>1, HeldIsKnown, Zenon DEF RecordsGoOn, From, To
  <2>3. QED
    BY <2>2, Zenon DEF Blamed
<1>4. \A a : Earned(a) => Earned(a)'
  BY Zenon DEF Earned
<1>5. QED
  BY <1>1, <1>2, <1>3, <1>4, Zenon DEF ReportSound

(* A worker's step that reports nothing keeps guards and reports sound.     *)
LEMMA StepKeepsBlame ==
    ASSUME CoreInv, BlameInv, NEW w \in TransferWorkers, StepsOn(w),
           RecordsGoOn, OnlyReleases, UNCHANGED blamed
    PROVE  BlameInv'
<1>1. PICK pc, i, kind, seen :
        /\ Becomes(w, pc, i, kind, seen)
        /\ pc \notin Writing
        /\ pc \in Reading => kind \in FreezeWorthy
        /\ i \in Transfer => \/ i = work[w].id /\ work[w].pc # "oops_status"
                             \/ ~Known(i)
  BY Zenon DEF StepsOn
<1>2. /\ work'[w].pc = pc /\ work'[w].id = i /\ work'[w].kind = kind
      /\ \A v \in TransferWorkers : v # w => work'[v] = work[v]
  BY <1>1, Zenon DEF Becomes, Shows
<1>3. ASSUME NEW r \in Transfer, Reported(r) PROVE Reported(r)'
  <2>1. Known(r)'
    BY <1>3, Zenon DEF Reported, RecordsGoOn
  <2>2. work'[w].id # r
    BY <1>1, <1>2, <1>3, Zenon DEF Reported
  <2>3. QED
    BY <1>2, <1>3, <2>1, <2>2, Zenon DEF Reported
<1>4. \A a \in Wallets : GuardSound(a)'
  BY <1>3, GuardKeeps, Zenon DEF OnlyReleases
<1>5. ReportSound(w)'
  BY <1>1, <1>2, Zenon DEF ReportSound, FaultSound
<1>6. \A v \in TransferWorkers : v # w => ReportSound(v)'
  BY <1>2, OthersReport, Zenon
<1>7. QED
  BY <1>4, <1>5, <1>6, Zenon DEF BlameInv

(* So does every step of somebody else.                                     *)
LEMMA RestKeepsBlame ==
    ASSUME CoreInv, BlameInv, RecordsGoOn, OnlyReleases, UNCHANGED <<work, blamed>>
    PROVE  BlameInv'
<1>1. \A r \in Transfer : Reported(r) => Reported(r)'
  BY Zenon DEF Reported, RecordsGoOn
<1>2. \A a \in Wallets : GuardSound(a)'
  BY <1>1, GuardKeeps, Zenon DEF OnlyReleases
<1>3. \A v \in TransferWorkers : ReportSound(v)'
  BY OthersReport, Zenon
<1>4. QED
  BY <1>2, <1>3, Zenon DEF BlameInv

(* A worker that lets go of its record has nothing left to report.          *)
LEMMA LeavesOn ==
    ASSUME NEW w \in TransferWorkers, NEW pc \in {"idle", "scan"}, NEW kind, NEW seen,
           Becomes(w, pc, 0, kind, seen)
    PROVE  StepsOn(w)
<1>1. pc \notin Writing /\ pc \notin Reading
  BY SMT DEF Writing, Reading
<1>2. QED
  BY <1>1, IdKinds, Zenon DEF StepsOn

(* A worker that goes to another step.                                      *)
LEMMA GoesOn ==
    ASSUME CoreInv, NEW w \in TransferWorkers, NEW pc \in WorkSteps, Goes(w, pc),
           pc \notin Writing, pc \in Reading => work[w].kind \in FreezeWorthy,
           work[w].pc # "oops_status"
    PROVE  StepsOn(w)
<1>1. Becomes(w, pc, work[w].id, work[w].kind, work[w].seen)
  BY CoreFacts, WorkPc, Zenon DEF Goes
<1>2. QED
  BY <1>1, Zenon DEF StepsOn

(* A worker that meets an ExchangeError.                                    *)
LEMMA FailsOn ==
    ASSUME CoreInv, NEW w \in TransferWorkers, NEW k \in FaultKinds, Fails(w, k),
           work[w].pc # "oops_status"
    PROVE  StepsOn(w)
<1>1. PICK pc \in {"fail_persist", "fail_status"} :
         Becomes(w, pc, work[w].id, k, work[w].seen)
  BY FailsTurns, Zenon
<1>2. pc \notin Writing /\ pc \notin Reading
  BY SMT DEF Writing, Reading
<1>3. QED
  BY <1>1, <1>2, Zenon DEF StepsOn

(* A worker that meets another error.                                       *)
LEMMA BreaksOn ==
    ASSUME CoreInv, NEW w \in TransferWorkers, NEW k \in FaultKinds, Breaks(w, k),
           work[w].pc # "oops_status"
    PROVE  StepsOn(w)
<1>1. PICK pc \in {"oops_persist", "oops_read", "oops_status"} :
         /\ Becomes(w, pc, work[w].id, k, work[w].seen)
         /\ pc = "oops_read" => k \in FreezeWorthy
  BY BreaksTurns, Zenon
<1>2. pc \notin Writing /\ (pc \in Reading => pc = "oops_read")
  BY SMT DEF Writing, Reading
<1>3. QED
  BY <1>1, <1>2, Zenon DEF StepsOn

(* The steps that report nothing.                                           *)
LEMMA ReportsApart ==
    /\ \A x \in {"internal", "inner", "resolve", "withdraw", "before", "credit",
                 "forward", "persist", "clear_from", "clear_to", "succeed"} :
          x \in WorkSteps /\ x \notin Writing /\ x \notin Reading /\ x # "oops_status"
    /\ \A x \in SuccessSteps :
          x \in WorkSteps /\ x \notin Writing /\ x \notin Reading /\ x # "oops_status"
    /\ \A x \in {"load", "fail_persist", "oops_persist", "fail_status"} :
          x \in WorkSteps /\ x \notin Writing /\ x \notin Reading /\ x # "oops_status"
  BY SMT DEF Writing, Reading, WorkSteps, Holding, ExchangeSteps, SuccessSteps, FailureSteps

(* An exchange call, done, refused or without an answer.                    *)
LEMMA CallOn ==
    ASSUME CoreInv, NEW w \in TransferWorkers, NEW pc \in WorkSteps,
           pc \notin Writing, pc \notin Reading, work[w].pc # "oops_status",
           NEW account, NEW potAfter, Call(w, WithPc(w, pc), account, potAfter)
    PROVE  StepsOn(w)
<1>1. \/ Goes(w, pc) \/ (\E k \in RefusalKinds : Fails(w, k))
      \/ Fails(w, "temporary_network")
  BY Zenon DEF Call, WithPc, Goes
<1>2. RefusalKinds \subseteq FaultKinds /\ "temporary_network" \in FaultKinds
  BY RefusalAssumption DEF FaultKinds, PassingFaults
<1>3. QED
  BY <1>1, <1>2, GoesOn, FailsOn, Zenon

(* Every exchange step.                                                     *)
LEMMA ExchangeOn ==
    ASSUME CoreInv, SideInv, NEW w \in TransferWorkers,
           \/ InternalTransfer(w) \/ MoveToWithdrawal(w) \/ ResolveDestination(w)
           \/ Withdraw(w) \/ ReadBefore(w) \/ AwaitCredit(w) \/ Forward(w)
    PROVE  StepsOn(w) /\ UNCHANGED <<record, guard, blamed>>
<1>1. RefusalKinds \subseteq FaultKinds /\ "temporary_network" \in FaultKinds
      /\ "temporary_exchange" \in FaultKinds /\ "account_mapping_invalid" \in FaultKinds
  BY RefusalAssumption DEF FaultKinds, PassingFaults, FreezeWorthy, SourceFaults
<1>2. ASSUME NEW next, NEW account, NEW potAfter, Call(w, next, account, potAfter)
      PROVE  UNCHANGED <<record, guard, blamed>>
  BY <1>2, Zenon DEF Call, ledger
<1>3. ASSUME NEW account, NEW potAfter, Call(w, Done(w), account, potAfter),
             work[w].pc # "oops_status"
      PROVE  StepsOn(w)
  <2>1. PICK pc \in SuccessSteps : Done(w) = WithPc(w, pc)
    BY DoneTurns, Zenon
  <2>2. Call(w, WithPc(w, pc), account, potAfter)
    BY <1>3, <2>1, Zenon
  <2>3. QED
    BY <1>3, <2>2, ReportsApart, CallOn, Zenon
<1>4. CASE InternalTransfer(w)
  <2>1. work[w].pc # "oops_status"
    BY <1>4, SMT DEF InternalTransfer
  <2>2. QED
    BY <1>2, <1>3, <1>4, <2>1, Zenon DEF InternalTransfer
<1>5. CASE MoveToWithdrawal(w)
  <2>1. work[w].pc # "oops_status"
    BY <1>5, SMT DEF MoveToWithdrawal
  <2>2. QED
    BY <1>2, <1>5, <2>1, ReportsApart, CallOn, Zenon DEF MoveToWithdrawal
<1>6. CASE ResolveDestination(w)
  <2>1. work[w].pc # "oops_status"
    BY <1>6, SMT DEF ResolveDestination
  <2>2. UNCHANGED <<record, guard, blamed>>
    BY <1>6, Zenon DEF ResolveDestination, ledger, history
  <2>3. CASE Fails(w, "account_mapping_invalid")
    BY <1>1, <2>1, <2>2, <2>3, FailsOn, Zenon
  <2>4. CASE work' = [work EXCEPT ![w] = [work[w] EXCEPT !.pc = "withdraw",
                                                         !.resolved = TRUE]]
    <3>1. Becomes(w, "withdraw", work[w].id, work[w].kind, work[w].seen)
      BY <2>4, ReportsApart, CoreFacts, WorkPcResolved, Zenon
    <3>2. QED
      BY <2>1, <2>2, <3>1, ReportsApart, Zenon DEF StepsOn
  <2>5. QED
    BY <1>6, <2>3, <2>4, Zenon DEF ResolveDestination
<1>7. CASE Withdraw(w)
  <2>1. work[w].pc # "oops_status"
    BY <1>7, SMT DEF Withdraw
  <2>2. \/ Fails(w, "temporary_exchange") /\ UNCHANGED <<record, guard, blamed>>
        \/ \E next \in {WithPc(w, "before"), Done(w)} :
              \E account, potAfter : Call(w, next, account, potAfter)
    BY <1>7, Zenon DEF Withdraw, ledger, history
  <2>3. QED
    BY <1>1, <1>2, <1>3, <2>1, <2>2, ReportsApart, CallOn, FailsOn, Zenon
<1>8. CASE ReadBefore(w)
  <2>1. work[w].pc = "before" /\ work[w].pc # "oops_status"
    BY <1>8, SMT DEF ReadBefore
  <2>2. UNCHANGED <<record, guard, blamed>>
    BY <1>8, Zenon DEF ReadBefore, Ask, ledger, history
  <2>3. CASE \E k \in RefusalKinds : Fails(w, k)
    BY <1>1, <2>1, <2>2, <2>3, FailsOn, Zenon
  <2>4. CASE work' = [work EXCEPT ![w] = [work[w] EXCEPT !.pc = "credit",
                                                         !.before = pot[To(w)]]]
            /\ pot[To(w)] \in Int
    <3>1. Becomes(w, "credit", work[w].id, work[w].kind, work[w].seen)
      BY <2>4, ReportsApart, CoreFacts, WorkPcBefore, Zenon
    <3>2. QED
      BY <2>1, <2>2, <3>1, ReportsApart, Zenon DEF StepsOn
  <2>5. pot[To(w)] \in Int
    <3>1. To(w) \in Wallets
      BY <2>1, ExchangeStepsHold, HeldWallets, SMT
    <3>2. QED
      BY <3>1, SideFacts, SMT
  <2>6. QED
    BY <1>8, <2>3, <2>4, <2>5, Zenon DEF ReadBefore, Ask
<1>9. CASE AwaitCredit(w)
  <2>1. work[w].pc # "oops_status"
    BY <1>9, SMT DEF AwaitCredit
  <2>2. UNCHANGED <<record, guard, blamed>>
    BY <1>9, Zenon DEF AwaitCredit, Ask, ledger, history
  <2>3. \/ Goes(w, "forward") \/ (\E k \in FaultKinds : Fails(w, k))
    BY <1>1, <1>9, Zenon DEF AwaitCredit, Ask, WithPc, Goes
  <2>4. QED
    BY <2>1, <2>2, <2>3, ReportsApart, GoesOn, FailsOn, Zenon
<1>10. CASE Forward(w)
  <2>1. work[w].pc # "oops_status"
    BY <1>10, SMT DEF Forward
  <2>2. \/ Fails(w, "temporary_exchange") /\ UNCHANGED <<record, guard, blamed>>
        \/ \E account, potAfter : Call(w, Done(w), account, potAfter)
    BY <1>10, Zenon DEF Forward, ledger, history
  <2>3. QED
    BY <1>1, <1>2, <1>3, <2>1, <2>2, FailsOn, Zenon
<1>11. QED
  BY <1>4, <1>5, <1>6, <1>7, <1>8, <1>9, <1>10, Zenon

(* Guards nobody touches.                                                   *)
LEMMA QuietGuards == ASSUME UNCHANGED guard PROVE OnlyReleases
  BY Zenon DEF OnlyReleases

(* A worker that leaves its record behind.                                  *)
LEMMA AbandonsOn ==
    ASSUME CoreInv, NEW w \in TransferWorkers, Abandons(w)
    PROVE  StepsOn(w) /\ UNCHANGED <<record, guard, blamed>>
<1>1. work' = [work EXCEPT ![w] = IdleWork] /\ UNCHANGED <<record, guard, blamed>>
  BY Zenon DEF Abandons
<1>2. QED
  BY <1>1, IdleLeaves, LeavesOn, Zenon

(* Every other step of a worker, but for the two of the report.             *)
LEMMA WorkerOn ==
    ASSUME CoreInv, SideInv, NEW w \in TransferWorkers,
           WorkerStep(w) \/ WorkerDies(w), ~ReadBlamed(w), ~WriteBlamed(w)
    PROVE  StepsOn(w) /\ RecordsGoOn /\ OnlyReleases /\ UNCHANGED blamed
<1>1. CASE Scan(w)
  <2>1. /\ work' = [work EXCEPT ![w] = [work[w] EXCEPT !.pc = "scan",
                       !.todo = {r \in Transfer : record[r].status = "pending"}]]
        /\ UNCHANGED <<record, guard, blamed>> /\ work[w].pc = "idle"
    BY <1>1, Zenon DEF Scan, ledger, history
  <2> DEFINE seen == {r \in Transfer : record[r].status = "pending"}
  <2>2. seen \in TodoSets /\ "scan" \in WorkSteps
    BY PendingIsTransfer DEF WorkSteps
  <2> HIDE DEF seen
  <2>3. work[w].id = 0
    BY <2>1, RestingId, Zenon
  <2>4. Becomes(w, "scan", 0, work[w].kind, work[w].seen)
    BY <2>1, <2>2, <2>3, CoreFacts, WorkPcTodo, Zenon DEF seen
  <2>5. QED
    BY <2>1, <2>4, LeavesOn, SameRecordsGoOn, QuietGuards, Zenon
<1>2. CASE Claim(w)
  <2>1. PICK r \in work[w].todo : TakeUp(w, r)
    BY <1>2, Zenon DEF Claim
  <2>2. work[w].pc = "scan" /\ UNCHANGED <<guard, blamed>> /\ work[w].id = 0
    BY <1>2, RestingId, Zenon DEF Claim, history
  <2>3. /\ r \in Transfer /\ r \in IdsOrNone /\ work[w].todo \ {r} \in TodoSets
        /\ work \in [TransferWorkers -> WorkStates]
        /\ record \in [Transfer -> RecordStates]
    <3>1. work[w].todo \subseteq Transfer /\ work \in [TransferWorkers -> WorkStates]
      BY CoreFacts, Zenon
    <3>2. record \in [Transfer -> RecordStates]
      BY Zenon DEF CoreInv, CoreTypes
    <3>3. QED
      BY <3>1, <3>2, SMT DEF IdsOrNone, TodoSets
  <2>4. CASE MayClaim(r)
    <3>1. record[r].status = "pending"
      BY <2>4, Zenon DEF MayClaim
    <3>2. record' = [record EXCEPT ![r] = [record[r] EXCEPT !.status = "executing"]]
      BY <2>1, <2>4, Zenon DEF TakeUp
    <3>3. work' = [work EXCEPT ![w] = [work[w] EXCEPT !.pc = "load", !.id = r,
                                              !.todo = work[w].todo \ {r}]]
      BY <2>1, <2>4, Zenon DEF TakeUp
    <3>4. Becomes(w, "load", r, work[w].kind, work[w].seen)
      BY <2>3, <3>3, ReportsApart, WorkPcIdTodo, Zenon
    <3>5. ~Known(r)
      BY <3>1 DEF Known
    <3>6. StepsOn(w)
      BY <3>4, <3>5, ReportsApart, Zenon DEF StepsOn
    <3>7. \A s \in Transfer : s # r => record'[s] = record[s]
      BY <2>3, <3>2, Zenon
    <3>8. RecordsGoOn
      BY <3>5, <3>7, Zenon DEF RecordsGoOn, Known
    <3>9. QED
      BY <2>2, <3>6, <3>8, QuietGuards, Zenon
  <2>5. CASE ~MayClaim(r)
    <3>1. /\ UNCHANGED record
          /\ work' = [work EXCEPT ![w] = [work[w] EXCEPT !.todo = work[w].todo \ {r}]]
      BY <2>1, <2>5, Zenon DEF TakeUp
    <3>2. Becomes(w, "scan", 0, work[w].kind, work[w].seen)
      BY <2>2, <2>3, <3>1, WorkTodo, Zenon
    <3>3. QED
      BY <2>2, <3>1, <3>2, LeavesOn, SameRecordsGoOn, QuietGuards, Zenon
  <2>6. QED
    BY <2>4, <2>5, Zenon
<1>3. CASE EndPass(w)
  <2>1. /\ work' = [work EXCEPT ![w] = [work[w] EXCEPT !.pc = "idle"]]
        /\ UNCHANGED <<record, guard, blamed>> /\ work[w].id = 0
    BY <1>3, RestingId, Zenon DEF EndPass, Goes, ledger, history
  <2>2. "idle" \in WorkSteps
    BY DEF WorkSteps
  <2>3. Becomes(w, "idle", 0, work[w].kind, work[w].seen)
    BY <2>1, <2>2, CoreFacts, WorkPc, Zenon
  <2>4. QED
    BY <2>1, <2>3, LeavesOn, SameRecordsGoOn, QuietGuards, Zenon
<1>4. CASE Load(w)
  <2>1. work[w].pc # "oops_status"
    BY <1>4, SMT DEF Load
  <2>2. \/ Abandons(w)
        \/ NextRecord(w) /\ UNCHANGED <<record, guard, blamed>>
        \/ Route(w) /\ UNCHANGED <<record, guard, blamed>>
    BY <1>4, Zenon DEF Load, history
  <2>3. ASSUME NextRecord(w) PROVE StepsOn(w)
    BY <2>3, NextRecordLeaves, LeavesOn, Zenon
  <2>4. ASSUME Route(w) PROVE StepsOn(w)
    BY <2>1, <2>4, RouteTurns, ReportsApart, GoesOn, FailsOn, Zenon
  <2>5. QED
    BY <2>2, <2>3, <2>4, AbandonsOn, SameRecordsGoOn, QuietGuards, Zenon
<1>5. CASE \/ InternalTransfer(w) \/ MoveToWithdrawal(w) \/ ResolveDestination(w)
           \/ Withdraw(w) \/ ReadBefore(w) \/ AwaitCredit(w) \/ Forward(w)
  BY <1>5, ExchangeOn, SameRecordsGoOn, QuietGuards, Zenon
<1>6. ASSUME DatabaseBreaks(w), work[w].pc # "oops_status" PROVE StepsOn(w)
  <2>1. RefusalKinds \cup {"temporary_exchange"} \subseteq FaultKinds
    BY RefusalAssumption, SMT DEF FaultKinds, PassingFaults
  <2>2. PICK k \in FaultKinds : Breaks(w, k)
    BY <1>6, <2>1, Zenon DEF DatabaseBreaks
  <2>3. QED
    BY <1>6, <2>2, BreaksOn, Zenon
<1>7. CASE PersistDestination(w)
  <2>1. work[w].pc # "oops_status"
    BY <1>7, SMT DEF PersistDestination
  <2>2. UNCHANGED <<record, guard, blamed>>
    BY <1>7, Zenon DEF PersistDestination, ledger
  <2>3. DatabaseBreaks(w) \/ \E pc \in {"clear_from", "succeed"} : Goes(w, pc)
    BY <1>7, Zenon DEF PersistDestination
  <2>4. StepsOn(w)
    BY <1>6, <2>1, <2>3, ReportsApart, GoesOn, Zenon
  <2>5. QED
    BY <2>2, <2>4, SameRecordsGoOn, QuietGuards, Zenon
<1>8. CASE ClearAfterSuccess(w)
  <2>1. work[w].pc \in {"clear_from", "clear_to"} /\ work[w].pc # "oops_status"
    BY <1>8, SMT DEF ClearAfterSuccess
  <2>2. UNCHANGED <<record, blamed>>
    BY <1>8, Zenon DEF ClearAfterSuccess, ledger, history
  <2>3. StepsOn(w)
    BY <1>8, <2>1, ReportsApart, GoesOn, Zenon DEF ClearAfterSuccess
  <2>4. work[w].pc \in Holding
    BY <2>1, ExchangeStepsHold, SMT
  <2>5. PICK a \in Wallets : WriteGuard(a, NoGuard)
    BY <1>8, <2>4, HeldWallets, Zenon DEF ClearAfterSuccess
  <2>6. OnlyReleases
    BY <2>5, NoGuardState, SideFacts, WriteGuardTypes, Zenon DEF OnlyReleases
  <2>7. QED
    BY <2>2, <2>3, <2>6, SameRecordsGoOn, Zenon
<1>9. CASE Succeed(w)
  <2>1. work[w].pc # "oops_status" /\ work[w].pc \in Holding
    BY <1>9, ExchangeStepsHold, SMT DEF Succeed
  <2>2. UNCHANGED <<guard, blamed>>
    BY <1>9, Zenon DEF Succeed
  <2>3. CASE Finish(w, "success") /\ NextRecord(w)
    <3>1. StepsOn(w)
      BY <2>3, NextRecordLeaves, LeavesOn, Zenon
    <3>2. RecordsGoOn
      BY <2>1, <2>3, FinishGoesOn, Zenon
    <3>3. QED
      BY <2>2, <3>1, <3>2, QuietGuards, Zenon
  <2>4. CASE DatabaseBreaks(w) /\ UNCHANGED record
    BY <1>6, <2>1, <2>2, <2>4, SameRecordsGoOn, QuietGuards, Zenon
  <2>5. QED
    BY <1>9, <2>3, <2>4, Zenon DEF Succeed
<1>10. CASE PersistAfterFailure(w)
  <2>1. work[w].pc # "oops_status"
    BY <1>10, SMT DEF PersistAfterFailure
  <2>2. \/ Abandons(w)
        \/ /\ UNCHANGED <<record, guard, blamed>>
           /\ \E pc \in {"fail_status", "oops_read", "oops_status"} :
                 Goes(w, pc) /\ (pc = "oops_read" => ToReport(w, work[w].kind))
    BY <1>10, Zenon DEF PersistAfterFailure, history
  <2>3. ASSUME NEW pc \in {"fail_status", "oops_read", "oops_status"},
               Goes(w, pc), pc = "oops_read" => ToReport(w, work[w].kind)
        PROVE  StepsOn(w)
    <3>1. /\ pc \in WorkSteps /\ pc \notin Writing
          /\ pc \in Reading => work[w].kind \in FreezeWorthy
      <4>1. pc \in WorkSteps
        BY FailSteps, HoldingInSteps, SMT
      <4>2. pc \notin Writing /\ (pc \in Reading => pc = "oops_read")
        BY SMT DEF Writing, Reading
      <4>3. QED
        BY <2>3, <4>1, <4>2, Zenon DEF ToReport
    <3>2. QED
      BY <2>1, <2>3, <3>1, GoesOn, Zenon
  <2>4. QED
    BY <2>2, <2>3, AbandonsOn, SameRecordsGoOn, QuietGuards, Zenon
<1>11. CASE WriteFailed(w)
  <2>1. work[w].pc \in {"fail_status", "oops_status"} /\ work[w].pc \in Holding
    BY <1>11, FailSteps, SMT DEF WriteFailed
  <2>2. CASE Abandons(w)
    BY <2>2, AbandonsOn, SameRecordsGoOn, QuietGuards, Zenon
  <2>3. CASE /\ Finish(w, "failed")
             /\ IF work[w].pc = "fail_status" /\ ToReport(w, work[w].kind)
                THEN Goes(w, "guard_read") ELSE NextRecord(w)
             /\ UNCHANGED <<guard, exchange, history, budget>>
    <3>1. UNCHANGED <<guard, blamed>> /\ RecordsGoOn
      BY <2>1, <2>3, FinishGoesOn, Zenon DEF history
    <3>2. CASE work[w].pc = "fail_status" /\ ToReport(w, work[w].kind)
      <4>1. Goes(w, "guard_read") /\ work[w].kind \in FreezeWorthy
        BY <2>3, <3>2, Zenon DEF ToReport
      <4>2. "guard_read" \in WorkSteps /\ "guard_read" \notin Writing
        BY HoldingInSteps, SMT DEF AfterStatus, Writing
      <4>3. work[w].pc # "oops_status"
        BY <3>2
      <4>4. QED
        BY <3>1, <4>1, <4>2, <4>3, GoesOn, QuietGuards, Zenon
    <3>3. CASE ~(work[w].pc = "fail_status" /\ ToReport(w, work[w].kind))
      <4>1. StepsOn(w)
        BY <2>3, <3>3, NextRecordLeaves, LeavesOn, Zenon
      <4>2. QED
        BY <3>1, <4>1, QuietGuards, Zenon
    <3>4. QED
      BY <3>2, <3>3, Zenon
  <2>4. QED
    BY <1>11, <2>2, <2>3, Zenon DEF WriteFailed
<1>12. CASE WorkerDies(w)
  <2>1. /\ work' = [work EXCEPT ![w] = IdleWork] /\ UNCHANGED <<record, guard, blamed>>
    BY <1>12, Zenon DEF WorkerDies, ledger
  <2>2. QED
    BY <2>1, IdleLeaves, LeavesOn, SameRecordsGoOn, QuietGuards, Zenon
<1>13. QED
  BY <1>1, <1>2, <1>3, <1>4, <1>5, <1>7, <1>8, <1>9, <1>10, <1>11, <1>12, Zenon
     DEF WorkerStep

(* A freeze once earned stays so.                                           *)
LEMMA EarnedGrows ==
    ASSUME blamed \subseteq blamed', NEW a PROVE Earned(a) => Earned(a)'
  BY Zenon DEF Earned

(* Reading the guard notes the report before the guard can count it.        *)
LEMMA ReadBlamedBlames ==
    ASSUME CoreInv, SideInv, BlameInv, NEW w \in TransferWorkers, ReadBlamed(w),
           NEW b, b = Blamed(w), NEW r0, r0 = work[w].id,
           NEW kind, kind = work[w].kind
    PROVE  BlameInv'
<1>1. /\ work[w].pc \in Reading /\ UNCHANGED <<record, guard>>
      /\ blamed' = blamed \cup {<<r0, b, kind>>}
  BY Zenon DEF ReadBlamed, ledger, Reading
<1>2. work[w].pc # "oops_status" /\ kind \in FreezeWorthy
  <2>1. work[w].pc # "oops_status"
    BY <1>1, SMT DEF Reading
  <2>2. kind \in FreezeWorthy
    BY <1>1, Zenon DEF BlameInv, ReportSound, FaultSound
  <2>3. QED
    BY <2>1, <2>2
<1>3. work[w].pc \in Holding \cup AfterStatus
  BY <1>1, ReportSteps, Zenon
<1>4. r0 \in Transfer /\ b \in Wallets
  BY <1>3, CoreFacts, HeldWallets, Zenon DEF WorkSound, Blamed
<1>5. PICK seen \in {guard[b], NoGuard}, pc \in Writing :
         Becomes(w, pc, r0, kind, seen)
  BY SideFacts, SeenTurns, Zenon DEF Writing
<1>6. /\ work'[w].pc = pc /\ work'[w].id = r0 /\ work'[w].kind = kind
      /\ work'[w].seen = seen
      /\ \A v \in TransferWorkers : v # w => work'[v] = work[v]
  BY <1>5, Zenon DEF Becomes, Shows
<1>7. blamed \subseteq blamed' /\ <<r0, b, kind>> \in blamed'
  BY <1>1, Zenon
<1>8. blamed' \subseteq Transfer \X Wallets \X FreezeWorthy
  BY <1>1, <1>2, <1>4, SMT DEF BlameInv
<1>9. \A r \in Transfer : Reported(r) => r # r0
  BY <1>2, Zenon DEF Reported
<1>10. RecordsGoOn
  BY <1>1, SameRecordsGoOn, Zenon
<1>11. \A r \in Transfer : Reported(r) => Reported(r)'
  <2>1. \A r \in Transfer : Reported(r) => work'[w].id # r
    BY <1>6, <1>9, Zenon
  <2>2. QED
    BY <1>1, <1>6, <2>1, Zenon DEF Reported, Known
<1>12. \A a \in Wallets : GuardSound(a)'
  BY <1>1, <1>7, <1>11, GuardKeeps, Zenon
<1>13. \A v \in TransferWorkers : v # w => ReportSound(v)'
  BY <1>6, <1>7, <1>10, OthersReport, Zenon
<1>14. Blamed(w)' = b
  BY <1>1, <1>6, Zenon DEF Blamed, From, To
<1>15. seen.count >= 1 => \E r \in Transfer : r # r0 /\ <<r, b, seen.kind>> \in blamed'
  <2>1. CASE seen = NoGuard
    BY <2>1, NoGuardState, SMT
  <2>2. CASE seen = guard[b]
    BY <1>4, <1>7, <1>9, <2>2, Zenon DEF BlameInv, GuardSound
  <2>3. QED
    BY <2>1, <2>2, Zenon
<1>16. seen.frozen => Earned(b)'
  <2>1. CASE seen = NoGuard
    BY <2>1, NoGuardState, Zenon
  <2>2. CASE seen = guard[b]
    <3>1. seen.frozen => Earned(b)
      BY <1>4, <2>2, Zenon DEF BlameInv, GuardSound
    <3>2. Earned(b) => Earned(b)'
      BY <1>7, EarnedGrows, Zenon
    <3>3. QED
      BY <3>1, <3>2, Zenon
  <2>3. QED
    BY <2>1, <2>2, Zenon
<1>17. ReportSound(w)'
  <2>1. FaultSound(w)'
    BY <1>2, <1>6, Zenon DEF FaultSound
  <2>2. <<work'[w].id, Blamed(w)', work'[w].kind>> \in blamed'
    BY <1>6, <1>7, <1>14, Zenon
  <2>3. work'[w].seen.count >= 1 =>
           \E r \in Transfer : r # work'[w].id
                               /\ <<r, Blamed(w)', work'[w].seen.kind>> \in blamed'
    BY <1>6, <1>14, <1>15, Zenon
  <2>4. work'[w].seen.frozen => Earned(Blamed(w))'
    <3>1. ASSUME work'[w].seen.frozen
          PROVE  \E k \in FreezeWorthy : \E r, s \in Transfer :
                    r # s /\ {<<r, Blamed(w)', k>>, <<s, Blamed(w)', k>>} \subseteq blamed'
      <4>1. PICK k \in FreezeWorthy, r \in Transfer, s \in Transfer :
               r # s /\ {<<r, b, k>>, <<s, b, k>>} \subseteq blamed'
        BY <1>6, <1>16, <3>1, Zenon DEF Earned
      <4>2. <<r, Blamed(w)', k>> \in blamed' /\ <<s, Blamed(w)', k>> \in blamed'
        BY <1>14, <4>1, Zenon
      <4>3. QED
        BY <4>1, <4>2, Zenon
    <3>2. QED
      BY <3>1, Zenon DEF Earned
  <2>5. QED
    BY <2>1, <2>2, <2>3, <2>4, Zenon DEF ReportSound
<1>18. QED
  BY <1>8, <1>12, <1>13, <1>17, Zenon DEF BlameInv

(* Two reports of one kind earn a freeze.                                   *)
LEMMA EarnedByTwo ==
    ASSUME NEW a, NEW k \in FreezeWorthy, NEW r \in Transfer, NEW s \in Transfer,
           r # s, <<r, a, k>> \in blamed, <<s, a, k>> \in blamed
    PROVE  Earned(a)
  BY Zenon DEF Earned

(* Writing it back counts what was read and this report: two different      *)
(* records.                                                                 *)
LEMMA WriteBlamedBlames ==
    ASSUME CoreInv, SideInv, BlameInv, NEW w \in TransferWorkers, WriteBlamed(w),
           NEW b, b = Blamed(w), NEW r0, r0 = work[w].id,
           NEW kind, kind = work[w].kind
    PROVE  BlameInv'
<1> DEFINE after == AfterFailure(work[w].seen, kind)
<1>1. /\ work[w].pc \in Writing /\ UNCHANGED <<record, blamed>>
      /\ WriteGuard(b, after)
      /\ IF work[w].pc = "guard_write" THEN NextRecord(w) ELSE Goes(w, "oops_status")
  BY Zenon DEF WriteBlamed, ledger, history, Writing
<1>2. work[w].pc # "oops_status" /\ kind \in FreezeWorthy /\ kind \in FaultKinds
  <2>1. work[w].pc # "oops_status"
    BY <1>1, SMT DEF Writing
  <2>2. kind \in FreezeWorthy
    BY <1>1, Zenon DEF BlameInv, ReportSound, FaultSound
  <2>3. QED
    BY <2>1, <2>2, ReportSteps
<1>3. work[w].pc \in Holding \cup AfterStatus
  BY <1>1, ReportSteps, Zenon
<1>4. r0 \in Transfer /\ b \in Wallets
  BY <1>3, CoreFacts, HeldWallets, Zenon DEF WorkSound, Blamed
<1>5. /\ <<r0, b, kind>> \in blamed
      /\ work[w].seen.count >= 1 =>
            \E r \in Transfer : r # r0 /\ <<r, b, work[w].seen.kind>> \in blamed
      /\ work[w].seen.frozen => Earned(b)
  BY <1>1, Zenon DEF BlameInv, ReportSound
<1>6. /\ after \in GuardStates /\ after.kind = kind /\ after.count >= 1
      /\ after.frozen =>
            work[w].seen.frozen \/ (work[w].seen.kind = kind /\ work[w].seen.count >= 1)
  BY <1>2, CoreFacts, FailureState, Zenon
<1>7. after.frozen => Earned(b)
  BY <1>2, <1>4, <1>5, <1>6, EarnedByTwo, Zenon
<1>8. \E pc, i, k, s :
         /\ pc \in {"scan", "oops_status"}
         /\ Becomes(w, pc, i, k, s)
         /\ i = 0 \/ (i = r0 /\ pc = "oops_status")
  <2>1. CASE work[w].pc = "guard_write"
    <3>1. Becomes(w, "scan", 0, "none", NoGuard) /\ "scan" \in {"scan", "oops_status"}
      BY <1>1, <2>1, NextRecordLeaves, Zenon
    <3>2. QED
      BY <3>1, SMT
  <2>2. CASE work[w].pc # "guard_write"
    <3>1. "oops_status" \in WorkSteps
      BY FailSteps, HoldingInSteps, Zenon
    <3>2. Goes(w, "oops_status")
      BY <1>1, <2>2, Zenon
    <3>3. Becomes(w, "oops_status", r0, kind, work[w].seen)
      BY <3>1, <3>2, CoreFacts, WorkPc, Zenon DEF Goes
    <3>4. "oops_status" \in {"scan", "oops_status"}
      OBVIOUS
    <3>5. QED
      BY <3>3, <3>4, SMT
  <2>3. QED
    BY <2>1, <2>2, Zenon
<1>9. PICK pc, i, k, s :
         /\ pc \in {"scan", "oops_status"}
         /\ Becomes(w, pc, i, k, s)
         /\ i = 0 \/ (i = r0 /\ pc = "oops_status")
  BY <1>8, Zenon
<1>10. /\ work'[w].pc = pc /\ work'[w].id = i
       /\ \A v \in TransferWorkers : v # w => work'[v] = work[v]
  BY <1>9, Zenon DEF Becomes, Shows
<1>11. RecordsGoOn
  BY <1>1, SameRecordsGoOn, Zenon
<1>12. \A r \in Transfer : Reported(r) => Reported(r)'
  <2>1. \A r \in Transfer : Reported(r) => r # r0
    BY <1>2, Zenon DEF Reported
  <2>2. \A r \in Transfer : Reported(r) => work'[w].id # r
    BY <1>9, <1>10, <2>1, IdKinds, Zenon
  <2>3. QED
    BY <1>1, <1>10, <2>2, Zenon DEF Reported, Known
<1>13. Reported(r0)'
  <2>1. Known(r0)'
    BY <1>1, <1>4, HeldIsKnown, Zenon DEF Known
  <2>2. \A v \in TransferWorkers : v # w => work'[v].id # r0
    BY <1>4, <1>10, IdKinds, Zenon DEF CoreInv, OneExecutor
  <2>3. work'[w].id = r0 => work'[w].pc = "oops_status"
    BY <1>4, <1>9, <1>10, IdKinds, Zenon
  <2>4. QED
    BY <2>1, <2>2, <2>3, Zenon DEF Reported
<1>14. /\ guard'[b] \in {guard[b], after}
       /\ \A a \in Wallets : a # b => guard'[a] = guard[a]
  BY <1>1, <1>4, <1>6, SideFacts, WriteGuardTypes, Zenon
<1>15. blamed \subseteq blamed'
  BY <1>1, Zenon
<1>16. ASSUME NEW a \in Wallets PROVE GuardSound(a)'
  <2>1. CASE guard'[a] = guard[a]
    BY <1>12, <1>15, <2>1, GuardKeeps, Zenon
  <2>2. CASE a = b /\ guard'[a] = after
    <3>1. <<r0, a, guard'[a].kind>> \in blamed'
      BY <1>1, <1>5, <1>6, <2>2, Zenon
    <3>2. guard'[a].frozen => Earned(a)
      BY <1>7, <2>2, Zenon
    <3>3. Earned(a) => Earned(a)'
      BY <1>15, EarnedGrows, Zenon
    <3>4. QED
      BY <1>4, <1>13, <3>1, <3>2, <3>3, Zenon DEF GuardSound
  <2>3. QED
    BY <1>14, <2>1, <2>2, Zenon
<1>17. \A v \in TransferWorkers : v # w => ReportSound(v)'
  BY <1>10, <1>11, <1>15, OthersReport, Zenon
<1>18. ReportSound(w)'
  <2>1. pc \notin Writing /\ pc \notin Reading
    BY <1>9, SMT DEF Writing, Reading
  <2>2. QED
    BY <1>10, <2>1, Zenon DEF ReportSound, FaultSound
<1>19. QED
  BY <1>1, <1>16, <1>17, <1>18, Zenon DEF BlameInv

(* The steps of everyone else.                                              *)
LEMMA RestOn ==
    ASSUME CoreInv, SideInv,
           \/ \E c \in Creators : CreatorStep(c)
           \/ WebStep
           \/ \E r \in Transfer : Credit(r)
           \/ \E a \in Wallets : MonitorTests(a)
    PROVE  RecordsGoOn /\ OnlyReleases /\ UNCHANGED <<work, blamed>>
<1>1. ASSUME NEW c \in Creators, CreatorStep(c)
      PROVE  RecordsGoOn /\ OnlyReleases /\ UNCHANGED <<work, blamed>>
  <2>1. CASE (\E a, b \in Wallets : PickPair(c, a, b)) \/ CheckOpen(c) \/ CreatorDies(c)
    <3>1. UNCHANGED <<record, guard, work, blamed>>
      BY <2>1, Zenon DEF PickPair, CheckOpen, CreatorDies, ledger, history
    <3>2. QED
      BY <3>1, SameRecordsGoOn, QuietGuards, Zenon
  <2>2. CASE InsertAuto(c)
    <3>1. /\ UNCHANGED <<guard, work, blamed>> /\ lastId < MaxTransfers
          /\ UNCHANGED record \/ Insert(hand[c].from, hand[c].to, c)
      BY <2>2, Zenon DEF InsertAuto, history
    <3>2. QED
      BY <3>1, InsertGoesOn, SameRecordsGoOn, QuietGuards, Zenon
  <2>3. QED
    BY <1>1, <2>1, <2>2, Zenon DEF CreatorStep
<1>2. ASSUME WebStep
      PROVE  RecordsGoOn /\ OnlyReleases /\ UNCHANGED <<work, blamed>>
  <2>1. CASE \E a, b \in Wallets : ManualTransfer(a, b)
    <3>1. PICK a \in Wallets, b \in Wallets : ManualTransfer(a, b)
      BY <2>1, Zenon
    <3>2. /\ UNCHANGED <<guard, work, blamed>> /\ lastId < MaxTransfers
          /\ Insert(a, b, "manual")
      BY <3>1, Zenon DEF ManualTransfer, history
    <3>3. QED
      BY <3>2, InsertGoesOn, QuietGuards, Zenon
  <2>2. CASE \/ SetAutoTransfer \/ (\E a \in Wallets : EditRow(a)) \/ EditAddress
             \/ (\E a \in Wallets, t \in BOOLEAN : MarkTest(a, t)) \/ LookAtGuard
    <3>1. UNCHANGED <<record, guard, work, blamed>>
      BY <2>2, Zenon DEF SetAutoTransfer, EditRow, EditAddress, MarkTest, LookAtGuard,
                         ledger, history
    <3>2. QED
      BY <3>1, SameRecordsGoOn, QuietGuards, Zenon
  <2>3. CASE ClearGuard
    <3>1. /\ UNCHANGED <<record, work, blamed>> /\ hand["web"].pc = "clear"
          /\ WriteGuard(hand["web"].from, NoGuard)
      BY <2>3, Zenon DEF ClearGuard, ledger, history
    <3>2. hand["web"].from \in Wallets
      <4>1. "web" \in Creators
        BY DEF Creators
      <4>2. QED
        BY <3>1, <4>1, HandFacts, SMT DEF HandSound
    <3>3. OnlyReleases
      BY <3>1, <3>2, NoGuardState, SideFacts, WriteGuardTypes, Zenon DEF OnlyReleases
    <3>4. QED
      BY <3>1, <3>3, SameRecordsGoOn, Zenon
  <2>4. CASE \E a \in Wallets : DeleteWallet(a)
    <3>1. PICK a \in Wallets : DeleteWallet(a)
      BY <2>4, Zenon
    <3>2. UNCHANGED <<guard, work, blamed>>
      BY <3>1, Zenon DEF DeleteWallet, history
    <3>3. RecordsGoOn
      BY <3>1, DeleteGoesOn, Zenon DEF DeleteWallet
    <3>4. QED
      BY <3>2, <3>3, QuietGuards, Zenon
  <2>5. CASE \E a \in Wallets : Unlock(a)
    <3>1. PICK a \in Wallets : Unlock(a)
      BY <2>5, Zenon
    <3>2. UNCHANGED <<record, work, blamed>> /\ guard' = [guard EXCEPT ![a] = NoGuard]
      BY <3>1, Zenon DEF Unlock, ledger, history
    <3>3. OnlyReleases
      BY <3>2, NoGuardState, SideFacts, Updated, Zenon DEF OnlyReleases
    <3>4. QED
      BY <3>2, <3>3, SameRecordsGoOn, Zenon
  <2>6. QED
    BY <1>2, <2>1, <2>2, <2>3, <2>4, <2>5, Zenon DEF WebStep
<1>3. CASE (\E r \in Transfer : Credit(r)) \/ (\E a \in Wallets : MonitorTests(a))
  <2>1. UNCHANGED <<record, guard, work, blamed>>
    BY <1>3, Zenon DEF Credit, MonitorTests, ledger, history
  <2>2. QED
    BY <2>1, SameRecordsGoOn, QuietGuards, Zenon
<1>4. QED
  BY <1>1, <1>2, <1>3, Zenon

-----------------------------------------------------------------------------
(* The whole invariant.                                                     *)
AllInv == CoreInv /\ SideInv /\ BlameInv

(* The invariant at the start: no record, no money moved.                   *)
LEMMA InitCore ==
    ASSUME TransferInit PROVE CoreInv
<1>1. /\ record = [r \in Transfer |-> Fresh] /\ lastId = 0
      /\ money = [r \in Transfer |-> Untouched] /\ dropped = {}
  BY Zenon DEF TransferInit
<1>2. PICK s \in TransferScenes :
         work = [w \in TransferWorkers |-> IF w \in s.crew THEN IdleWork ELSE NoWork]
  BY Zenon DEF TransferInit
<1>3. /\ IdleWork \in WorkStates /\ Shows(IdleWork, "idle", 0, "none", NoGuard)
      /\ NoWork \in WorkStates /\ Shows(NoWork, "off", 0, "none", NoGuard)
  <2>1. "idle" \in WorkSteps /\ "off" \in WorkSteps /\ {} \in TodoSets
    BY DEF WorkSteps, TodoSets
  <2>2. QED
    BY <2>1, NewWork, Zenon DEF IdleWork, NoWork
<1>4. /\ work \in [TransferWorkers -> WorkStates]
      /\ \A w \in TransferWorkers : work[w].pc \in {"idle", "off"} /\ work[w].id = 0
  BY <1>2, <1>3 DEF Shows
<1>5. \A r \in Transfer : record[r] = Fresh /\ money[r] = Untouched
  BY <1>1, Zenon
<1>6. Fresh \in RecordStates /\ Fresh.status = "none"
  BY SMT DEF Fresh, RecordStates, WalletsOrNone, Makers, RecordStatuses
<1>7. /\ Untouched \in MoneyStates
      /\ Untouched.inner = 0 /\ Untouched.out = 0 /\ Untouched.forward = 0
  BY SMT DEF Untouched, MoneyStates
<1>8. CoreTypes
  <2>1. record \in [Transfer -> RecordStates] /\ money \in [Transfer -> MoneyStates]
    <3> HIDE DEF Fresh, Untouched
    <3>1. QED
      BY <1>1, <1>6, <1>7, Zenon
  <2>2. lastId \in 0 .. MaxTransfers /\ dropped \subseteq Transfer
    BY <1>1, MaxTransfersAssumption, SMT
  <2>3. QED
    BY <1>4, <2>1, <2>2, Zenon DEF CoreTypes
<1>9. OneExecutor
  BY <1>4, Zenon DEF OneExecutor
<1>10. ASSUME NEW w \in TransferWorkers PROVE WorkSound(w)
  <2>1. work[w].pc \notin Holding \cup AfterStatus /\ work[w].id \notin Transfer
    BY <1>4, IdKinds, SMT DEF Holding, AfterStatus, ExchangeSteps, SuccessSteps, FailureSteps
  <2>2. QED
    BY <2>1, Zenon DEF WorkSound
<1>11. ASSUME NEW r \in Transfer PROVE RecordSound(r)
  <2>1. /\ record[r].status = "none" /\ money[r].inner = 0
        /\ money[r].out = 0 /\ money[r].forward = 0
    BY <1>5, <1>6, <1>7, Zenon
  <2>2. AtMostOnce(money[r])
    BY <2>1, SMT DEF AtMostOnce
  <2>3. record[r].status # "executing" /\ record[r].status # "success"
    BY <2>1
  <2>4. QED
    BY <2>1, <2>2, <2>3, Zenon DEF RecordSound
<1>12. QED
  BY <1>8, <1>9, <1>10, <1>11, Zenon DEF CoreInv

(* The types at the start.                                                  *)
LEMMA InitSide ==
    ASSUME TransferInit PROVE SideInv
<1>1. PICK s \in TransferScenes : wallet = s.wallet /\ budget = s.budget
  BY Zenon DEF TransferInit
<1>2. wallet \in [Wallets -> WalletRows] /\ budget \in [BudgetKinds -> Nat]
  BY <1>1, SceneAssumption, SMT
<1>3. /\ autoOn = TRUE /\ guard = [a \in Wallets |-> NoGuard]
      /\ hand = [c \in Creators |-> IdleHand]
      /\ pot = [a \in Wallets |-> 0] /\ unclear = {}
  BY Zenon DEF TransferInit
<1>4. guard \in [Wallets -> GuardStates]
  BY <1>3, NoGuardState, Zenon
<1>5. IdleHand \in HandStates /\ IdleHand.pc = "idle"
  BY IdleHandState, Zenon
<1>6. /\ hand \in [Creators -> HandStates]
      /\ \A c \in Creators : hand[c].pc = "idle"
  BY <1>3, <1>5, Zenon
<1>7. \A c \in Creators : HandSound(c)
  BY <1>6, SMT DEF HandSound
<1>8. pot \in [Wallets -> Nat] /\ unclear \subseteq Transfer /\ autoOn \in BOOLEAN
  BY <1>3, SMT
<1>9. QED
  BY <1>2, <1>4, <1>6, <1>7, <1>8, Zenon DEF SideInv, SideTypes

(* The guards at the start: none.                                           *)
LEMMA InitBlame ==
    ASSUME TransferInit PROVE BlameInv
<1>1. blamed = {} /\ guard = [a \in Wallets |-> NoGuard]
  BY Zenon DEF TransferInit
<1>2. \A a \in Wallets : guard[a] = NoGuard
  BY <1>1, Zenon
<1>3. ~NoGuard.frozen /\ ~(NoGuard.count >= 1)
  BY NoGuardState, SMT
<1>4. \A a \in Wallets : GuardSound(a)
  BY <1>2, <1>3, Zenon DEF GuardSound
<1>5. ASSUME NEW w \in TransferWorkers PROVE ReportSound(w)
  <2>1. work[w].pc \in {"idle", "off"}
    <3>1. PICK s \in TransferScenes :
             work = [v \in TransferWorkers |-> IF v \in s.crew THEN IdleWork ELSE NoWork]
      BY Zenon DEF TransferInit
    <3>2. work[w] \in {IdleWork, NoWork}
      BY <3>1, Zenon
    <3>3. IdleWork.pc = "idle" /\ NoWork.pc = "off"
      BY DEF IdleWork, NoWork, Unladen
    <3>4. QED
      BY <3>2, <3>3, Zenon
  <2>2. work[w].pc \notin Reading \cup Writing
    BY <2>1 DEF Reading, Writing
  <2>3. QED
    BY <2>2, Zenon DEF ReportSound, FaultSound
<1>6. QED
  BY <1>1, <1>4, <1>5, Zenon DEF BlameInv

(* Every step of a worker, and its death, keeps the whole invariant.        *)
LEMMA WorkerKeeps ==
    ASSUME AllInv, NEW w \in TransferWorkers, WorkerStep(w) \/ WorkerDies(w)
    PROVE  AllInv'
<1>1. CoreInv /\ SideInv /\ BlameInv
  BY Zenon DEF AllInv
<1>2. /\ pot \in [Wallets -> Int] /\ guard \in [Wallets -> GuardStates]
      /\ FaultSound(w)
  <2>1. pot \in [Wallets -> Nat] /\ guard \in [Wallets -> GuardStates]
    BY <1>1, Zenon DEF SideInv, SideTypes
  <2>2. FaultSound(w)
    BY <1>1, Zenon DEF BlameInv, ReportSound
  <2>3. QED
    BY <2>1, <2>2, SMT
<1>3. CASE ReadBlamed(w)
  <2>1. CoreInv' /\ SideInv'
    BY <1>1, <1>2, <1>3, ReadBlamedKeeps, GuardStepsSide, Zenon
  <2>2. BlameInv'
    BY <1>1, <1>3, ReadBlamedBlames, Zenon
  <2>3. QED
    BY <2>1, <2>2, Zenon DEF AllInv
<1>4. CASE WriteBlamed(w)
  <2>1. CoreInv' /\ SideInv'
    BY <1>1, <1>2, <1>4, WriteBlamedKeeps, GuardStepsSide, Zenon
  <2>2. BlameInv'
    BY <1>1, <1>4, WriteBlamedBlames, Zenon
  <2>3. QED
    BY <2>1, <2>2, Zenon DEF AllInv
<1>5. CASE ~ReadBlamed(w) /\ ~WriteBlamed(w)
  <2>1. CoreInv'
    <3>1. CASE Scan(w) \/ Claim(w) \/ EndPass(w) \/ Load(w)
      BY <1>1, <3>1, ScanKeeps, ClaimActionKeeps, EndPassKeeps, LoadKeeps, Zenon
    <3>2. CASE \/ InternalTransfer(w) \/ MoveToWithdrawal(w)
               \/ ResolveDestination(w) \/ Withdraw(w)
      BY <1>1, <3>2, InternalKeeps, InnerKeeps, ResolveKeeps, WithdrawKeeps, Zenon
    <3>3. CASE ReadBefore(w) \/ AwaitCredit(w) \/ Forward(w)
      BY <1>1, <1>2, <3>3, ReadBeforeKeeps, AwaitCreditKeeps, ForwardKeeps, Zenon
    <3>4. CASE PersistDestination(w) \/ ClearAfterSuccess(w) \/ Succeed(w)
      BY <1>1, <3>4, PersistKeeps, ClearAfterKeeps, SucceedKeeps, Zenon
    <3>5. CASE PersistAfterFailure(w) \/ WriteFailed(w) \/ WorkerDies(w)
      BY <1>1, <3>5, PersistAfterKeeps, WriteFailedKeeps, WorkerDiesKeeps, Zenon
    <3>6. QED
      BY <1>5, <3>1, <3>2, <3>3, <3>4, <3>5, Zenon DEF WorkerStep
  <2>2. SideInv'
    <3>1. CASE ClearAfterSuccess(w)
      BY <1>1, <1>2, <3>1, GuardStepsSide, Zenon
    <3>2. CASE \/ InternalTransfer(w) \/ MoveToWithdrawal(w) \/ ResolveDestination(w)
               \/ Withdraw(w) \/ ReadBefore(w) \/ AwaitCredit(w) \/ Forward(w)
      BY <1>1, <3>2, ExchangeSide, Zenon
    <3>3. CASE \/ Scan(w) \/ Claim(w) \/ EndPass(w) \/ Load(w)
               \/ PersistDestination(w) \/ Succeed(w)
               \/ PersistAfterFailure(w) \/ WriteFailed(w) \/ WorkerDies(w)
      BY <1>1, <3>3, RecordSide, Zenon
    <3>4. QED
      BY <1>5, <3>1, <3>2, <3>3, Zenon DEF WorkerStep
  <2>3. StepsOn(w) /\ RecordsGoOn /\ OnlyReleases /\ UNCHANGED blamed
    BY <1>1, <1>5, WorkerOn, Zenon
  <2>4. BlameInv'
    BY <1>1, <2>3, StepKeepsBlame, Zenon
  <2>5. QED
    BY <2>1, <2>2, <2>4, Zenon DEF AllInv
<1>6. QED
  BY <1>3, <1>4, <1>5, Zenon

(* The steps of everyone else keep records and workers in agreement.        *)
LEMMA RestCore ==
    ASSUME CoreInv, SideInv,
           \/ \E c \in Creators : CreatorStep(c)
           \/ WebStep
           \/ \E r \in Transfer : Credit(r)
           \/ \E a \in Wallets : MonitorTests(a)
    PROVE  CoreInv'
<1>1. ASSUME NEW c \in Creators, CreatorStep(c) PROVE CoreInv'
  <2>1. CASE (\E a, b \in Wallets : PickPair(c, a, b)) \/ CheckOpen(c) \/ CreatorDies(c)
    <3>1. UNCHANGED <<record, lastId, work, money, dropped>>
      BY <2>1, Zenon DEF PickPair, CheckOpen, CreatorDies, ledger, exchange, history
    <3>2. QED
      BY <3>1, QuietKeeps, Zenon
  <2>2. CASE InsertAuto(c)
    <3>1. /\ hand[c].pc = "insert" /\ lastId < MaxTransfers
          /\ UNCHANGED <<work, money, dropped>>
          /\ \/ Insert(hand[c].from, hand[c].to, c)
             \/ UNCHANGED <<record, lastId>>
      BY <2>2, Zenon DEF InsertAuto, exchange, history
    <3>2. hand[c].from \in Wallets /\ hand[c].to \in Wallets /\ c \in Makers
      <4>1. HandSound(c)
        BY Zenon DEF SideInv
      <4>2. QED
        BY <3>1, <4>1, SMT DEF HandSound, Makers
    <3>3. QED
      BY <3>1, <3>2, CreateKeeps, QuietKeeps, Zenon
  <2>3. QED
    BY <1>1, <2>1, <2>2, Zenon DEF CreatorStep
<1>2. ASSUME WebStep PROVE CoreInv'
  <2>1. CASE \E a, b \in Wallets : ManualTransfer(a, b)
    <3>1. PICK a \in Wallets, b \in Wallets : ManualTransfer(a, b)
      BY <2>1, Zenon
    <3>2. /\ Insert(a, b, "manual") /\ lastId < MaxTransfers
          /\ UNCHANGED <<work, money, dropped>>
      BY <3>1, Zenon DEF ManualTransfer, exchange, history
    <3>3. "manual" \in Makers
      BY DEF Makers
    <3>4. QED
      BY <3>2, <3>3, CreateKeeps, Zenon
  <2>2. CASE \E a \in Wallets : DeleteWallet(a)
    <3>1. PICK a \in Wallets : DeleteWallet(a)
      BY <2>2, Zenon
    <3>2. UNCHANGED <<lastId, work, money, dropped>>
      BY <3>1, Zenon DEF DeleteWallet, exchange, history
    <3>3. QED
      BY <3>1, <3>2, DeleteKeeps, Zenon DEF DeleteWallet
  <2>3. CASE \/ SetAutoTransfer \/ (\E a \in Wallets : EditRow(a)) \/ EditAddress
             \/ (\E a \in Wallets, t \in BOOLEAN : MarkTest(a, t)) \/ LookAtGuard
             \/ ClearGuard \/ (\E a \in Wallets : Unlock(a))
    <3>1. UNCHANGED <<record, lastId, work, money, dropped>>
      BY <2>3, Zenon DEF SetAutoTransfer, EditRow, EditAddress, MarkTest, LookAtGuard,
                         ClearGuard, Unlock, ledger, exchange, history
    <3>2. QED
      BY <3>1, QuietKeeps, Zenon
  <2>4. QED
    BY <1>2, <2>1, <2>2, <2>3, Zenon DEF WebStep
<1>3. ASSUME NEW r \in Transfer, Credit(r) PROVE CoreInv'
  <2>1. /\ UNCHANGED <<record, lastId, work, dropped>>
        /\ money' = [money EXCEPT ![r] = [money[r] EXCEPT !.credited = TRUE]]
    BY <1>3, Zenon DEF Credit, ledger, history
  <2>2. QED
    BY <2>1, CreditKeeps, Zenon
<1>4. ASSUME NEW a \in Wallets, MonitorTests(a) PROVE CoreInv'
  <2>1. UNCHANGED <<record, lastId, work, money, dropped>>
    BY <1>4, Zenon DEF MonitorTests, exchange, history
  <2>2. QED
    BY <2>1, QuietKeeps, Zenon
<1>5. QED
  BY <1>1, <1>2, <1>3, <1>4, Zenon

(* A stuttering step changes nothing.                                       *)
LEMMA StillKeeps ==
    ASSUME AllInv, UNCHANGED transferVars PROVE AllInv'
<1>1. CoreInv /\ SideInv /\ BlameInv
  BY Zenon DEF AllInv
<1>2. /\ UNCHANGED <<wallet, autoOn, hand, guard, pot, unclear, budget>>
      /\ UNCHANGED <<record, lastId, work, money, dropped, blamed>>
  BY Zenon DEF transferVars
<1>3. CoreInv'
  BY <1>1, <1>2, QuietKeeps, Zenon
<1>4. SideInv'
  BY <1>1, <1>2, PlainSide, Zenon DEF Spends
<1>5. RecordsGoOn /\ OnlyReleases
  BY <1>2, SameRecordsGoOn, QuietGuards, Zenon
<1>6. BlameInv'
  BY <1>1, <1>2, <1>5, RestKeepsBlame, Zenon
<1>7. QED
  BY <1>3, <1>4, <1>6, Zenon DEF AllInv

(* The whole invariant is inductive.                                        *)
LEMMA NextKeeps ==
    ASSUME AllInv, [TransferNext]_transferVars PROVE AllInv'
<1>1. CoreInv /\ SideInv /\ BlameInv
  BY Zenon DEF AllInv
<1>2. CASE \E w \in TransferWorkers : WorkerStep(w) \/ WorkerDies(w)
  BY <1>2, WorkerKeeps, Zenon
<1>3. CASE \/ \E c \in Creators : CreatorStep(c)
           \/ WebStep
           \/ \E r \in Transfer : Credit(r)
           \/ \E a \in Wallets : MonitorTests(a)
  <2>1. CoreInv'
    BY <1>1, <1>3, RestCore, Zenon
  <2>2. SideInv'
    BY <1>1, <1>3, CreatorSide, RequestSide, WorldSide, Zenon
  <2>3. RecordsGoOn /\ OnlyReleases /\ UNCHANGED <<work, blamed>>
    BY <1>1, <1>3, RestOn, Zenon
  <2>4. BlameInv'
    BY <1>1, <2>3, RestKeepsBlame, Zenon
  <2>5. QED
    BY <2>1, <2>2, <2>4, Zenon DEF AllInv
<1>4. CASE UNCHANGED transferVars
  BY <1>4, StillKeeps, Zenon
<1>5. QED
  BY <1>2, <1>3, <1>4, Zenon DEF TransferNext

-----------------------------------------------------------------------------
(* The theorems.                                                            *)

(* However many workers, creators and requests act on the records, and      *)
(* wherever they die, the worker that claimed a record and the record agree *)
(* about it, and guards hold nothing but what was reported.                 *)
THEOREM TransferInvariance == TransferSpec => []AllInv
<1>1. TransferInit => AllInv
  BY InitCore, InitSide, InitBlame, Zenon DEF AllInv
<1>2. AllInv /\ [TransferNext]_transferVars => AllInv'
  BY NextKeeps, Zenon
<1>3. QED
  BY <1>1, <1>2, PTL DEF TransferSpec

(* The state of records, workers, requests and guards keeps its form in     *)
(* every behaviour of transfer_execution_service, its workers and requests. *)
THEOREM TransferTypeCorrect == TransferSpec => []TransferTypeOK
<1>1. ASSUME AllInv PROVE TransferTypeOK
  <2>1. CoreTypes /\ SideTypes /\ blamed \subseteq Transfer \X Wallets \X FreezeWorthy
    BY <1>1, Zenon DEF AllInv, CoreInv, SideInv, BlameInv
  <2>2. ASSUME NEW w \in TransferWorkers
        PROVE  /\ work[w].pc \in WorkSteps /\ work[w].todo \in TodoSets
               /\ work[w].id \in IdsOrNone /\ work[w].kind \in KindsOrNone
               /\ work[w].seen \in GuardStates
    <3>1. work[w] \in WorkStates
      BY <2>1, Zenon DEF CoreTypes
    <3>2. QED
      BY <3>1, SMT DEF WorkStates, Loads
  <2>3. QED
    BY <2>1, <2>2, Zenon DEF TransferTypeOK, CoreTypes, SideTypes, RecordStates, WalletsOrNone,
       Makers, WorkSteps, TodoSets, IdsOrNone, KindsOrNone
<1>2. QED
  BY <1>1, TransferInvariance, PTL

(* The money of a record leaves its source once at most: the claim is       *)
(* exclusive, and nothing claims a record again, not even after a death.    *)
THEOREM MoneyMovesOnce == TransferSpec => []MovedOnce
<1>1. ASSUME AllInv PROVE MovedOnce
  <2>1. \A r \in Transfer : AtMostOnce(money[r])
    BY <1>1, Zenon DEF AllInv, CoreInv, RecordSound
  <2>2. QED
    BY <2>1, Zenon DEF MovedOnce, AtMostOnce
<1>2. QED
  BY <1>1, TransferInvariance, PTL

(* An executing record is in a worker's hands unless a death or a database  *)
(* error dropped it.                                                        *)
THEOREM ExecutorExists == TransferSpec => []ExecutingHasExecutor
<1>1. ASSUME AllInv PROVE ExecutingHasExecutor
  BY <1>1, Zenon DEF AllInv, CoreInv, RecordSound, ExecutingHasExecutor
<1>2. QED
  BY <1>1, TransferInvariance, PTL

(* No two workers hold one record.                                          *)
THEOREM ExecutorIsAlone == TransferSpec => []OneExecutor
<1>1. ASSUME AllInv PROVE OneExecutor
  BY <1>1, Zenon DEF AllInv, CoreInv
<1>2. QED
  BY <1>1, TransferInvariance, PTL

(* A record that says success has moved the money all the way.              *)
THEOREM SuccessMoved == TransferSpec => []SuccessIsReal
<1>1. ASSUME AllInv PROVE SuccessIsReal
  BY <1>1, Zenon DEF AllInv, CoreInv, RecordSound, SuccessIsReal
<1>2. QED
  BY <1>1, TransferInvariance, PTL

(* An account is frozen only after two records failed for it with the same  *)
(* kind of fault, though the guard is read and written in separate steps.   *)
THEOREM FreezeEarned == TransferSpec => []FreezeIsEarned
<1>1. ASSUME AllInv PROVE FreezeIsEarned
  BY <1>1, Zenon DEF AllInv, BlameInv, GuardSound, Earned, FreezeIsEarned
<1>2. QED
  BY <1>1, TransferInvariance, PTL

(* Only four steps touch a guard at all.                                    *)
LEMMA GuardsRest ==
    ASSUME NEW w \in TransferWorkers, WorkerStep(w) \/ WorkerDies(w),
           ~ClearAfterSuccess(w), ~ReadBlamed(w), ~WriteBlamed(w)
    PROVE  UNCHANGED guard
<1>1. CASE Scan(w) \/ Claim(w) \/ EndPass(w) \/ WorkerDies(w)
  BY <1>1, Zenon DEF Scan, Claim, EndPass, WorkerDies
<1>2. CASE Load(w)
  BY <1>2, Zenon DEF Load, Abandons
<1>3. CASE InternalTransfer(w) \/ MoveToWithdrawal(w) \/ ResolveDestination(w)
  BY <1>3, Zenon DEF InternalTransfer, MoveToWithdrawal, ResolveDestination, Call
<1>4. CASE Withdraw(w)
  BY <1>4, Zenon DEF Withdraw, Call
<1>5. CASE ReadBefore(w) \/ AwaitCredit(w)
  BY <1>5, Zenon DEF ReadBefore, AwaitCredit, Ask
<1>6. CASE Forward(w)
  BY <1>6, Zenon DEF Forward, Call
<1>7. CASE PersistDestination(w) \/ Succeed(w)
  BY <1>7, Zenon DEF PersistDestination, Succeed
<1>8. CASE PersistAfterFailure(w) \/ WriteFailed(w)
  BY <1>8, Zenon DEF PersistAfterFailure, WriteFailed, Abandons
<1>9. QED
  BY <1>1, <1>2, <1>3, <1>4, <1>5, <1>6, <1>7, <1>8, Zenon DEF WorkerStep

(* A write to the guard of one account is not felt by another.              *)
LEMMA WriteTouchesOne ==
    ASSUME guard \in [Wallets -> GuardStates], NEW b, NEW state, NEW a \in Wallets,
           WriteGuard(b, state), guard[a].frozen, ~guard'[a].frozen
    PROVE  a = b /\ ~state.frozen
<1>1. guard' = [guard EXCEPT ![b] = state]
  BY Zenon DEF WriteGuard
<1>2. guard'[a] = IF a = b THEN state ELSE guard[a]
  BY <1>1, SMT
<1>3. QED
  BY <1>2, Zenon

(* Why the guard of an account may be found released.                       *)
Explained(a) ==
    \/ budget'["unlock"] < budget["unlock"]
    \/ \E w \in TransferWorkers :
          \/ work[w].pc \in {"clear_from", "clear_to"} /\ a \in {From(w), To(w)}
          \/ work[w].pc \in {"guard_write", "oops_write"}
             /\ Blamed(w) = a /\ ~work[w].seen.frozen
    \/ hand["web"].pc = "clear" /\ hand["web"].from = a /\ ~hand["web"].seen.frozen

(* A worker releases a guard after success, or having read it unfrozen.     *)
LEMMA WorkerExplains ==
    ASSUME AllInv, NEW w \in TransferWorkers, WorkerStep(w) \/ WorkerDies(w),
           NEW a \in Wallets, guard[a].frozen, ~guard'[a].frozen
    PROVE  Explained(a)
<1>1. CoreTypes /\ guard \in [Wallets -> GuardStates] /\ FaultSound(w)
  BY Zenon DEF AllInv, CoreInv, SideInv, SideTypes, BlameInv, ReportSound
<1>2. CASE ClearAfterSuccess(w)
  <2>1. CASE work[w].pc = "clear_from" /\ WriteGuard(From(w), NoGuard)
    <3>1. a = From(w)
      BY <1>1, <2>1, WriteTouchesOne, Zenon
    <3>2. QED
      BY <2>1, <3>1, Zenon DEF Explained
  <2>2. CASE work[w].pc = "clear_to" /\ WriteGuard(To(w), NoGuard)
    <3>1. a = To(w)
      BY <1>1, <2>2, WriteTouchesOne, Zenon
    <3>2. QED
      BY <2>2, <3>1, Zenon DEF Explained
  <2>3. QED
    BY <1>2, <2>1, <2>2, Zenon DEF ClearAfterSuccess
<1>3. CASE WriteBlamed(w)
  <2>1. /\ work[w].pc \in {"guard_write", "oops_write"}
        /\ WriteGuard(Blamed(w), AfterFailure(work[w].seen, work[w].kind))
    BY <1>3, Zenon DEF WriteBlamed
  <2>2. a = Blamed(w) /\ ~AfterFailure(work[w].seen, work[w].kind).frozen
    BY <1>1, <2>1, WriteTouchesOne, Zenon
  <2>3. work[w].kind \in FaultKinds /\ work[w].seen \in GuardStates
    <3>1. work[w] \in WorkStates
      BY <1>1, Zenon DEF CoreTypes
    <3>2. work[w].kind \in FreezeWorthy
      BY <1>1, <2>1, SMT DEF FaultSound, Writing
    <3>3. QED
      BY <3>1, <3>2, SMT DEF WorkStates, Loads, FaultKinds
  <2>4. ~work[w].seen.frozen
    BY <2>2, <2>3, SMT DEF AfterFailure, GuardStates
  <2>5. QED
    BY <2>1, <2>2, <2>4, Zenon DEF Explained
<1>4. ~ReadBlamed(w)
  <2>1. UNCHANGED guard => FALSE
    BY Zenon
  <2>2. QED
    BY <2>1, Zenon DEF ReadBlamed
<1>5. CASE ~ClearAfterSuccess(w) /\ ~WriteBlamed(w)
  BY <1>4, <1>5, GuardsRest, Zenon
<1>6. QED
  BY <1>2, <1>3, <1>5, Zenon

(* A request releases one by unlocking, or having read it unfrozen.         *)
LEMMA RestExplains ==
    ASSUME AllInv,
           \/ \E c \in Creators : CreatorStep(c)
           \/ WebStep
           \/ \E r \in Transfer : Credit(r)
           \/ \E a \in Wallets : MonitorTests(a),
           NEW a \in Wallets, guard[a].frozen, ~guard'[a].frozen
    PROVE  Explained(a)
<1>1. guard \in [Wallets -> GuardStates] /\ budget \in [BudgetKinds -> Nat]
  BY Zenon DEF AllInv, SideInv, SideTypes
<1>2. ~UNCHANGED guard
  BY Zenon
<1>3. WebStep
  BY <1>2, Zenon DEF CreatorStep, PickPair, CheckOpen, InsertAuto, CreatorDies,
                     Credit, MonitorTests
<1>4. ClearGuard \/ \E b \in Wallets : Unlock(b)
  BY <1>2, <1>3, Zenon DEF WebStep, ManualTransfer, SetAutoTransfer, EditRow,
                           EditAddress, MarkTest, LookAtGuard, DeleteWallet
<1>5. CASE ClearGuard
  <2>1. hand["web"].pc = "clear" /\ WriteGuard(hand["web"].from, NoGuard)
    BY <1>5, Zenon DEF ClearGuard
  <2>2. a = hand["web"].from
    BY <1>1, <2>1, WriteTouchesOne, Zenon
  <2>3. ~hand["web"].seen.frozen
    BY <2>1, SMT DEF AllInv, SideInv, HandSound, Creators
  <2>4. QED
    BY <2>1, <2>2, <2>3, Zenon DEF Explained
<1>6. CASE \E b \in Wallets : Unlock(b)
  <2>1. Spend("unlock")
    BY <1>6, Zenon DEF Unlock
  <2>2. "unlock" \in BudgetKinds
    BY DEF BudgetKinds
  <2>3. budget'["unlock"] < budget["unlock"]
    BY <1>1, <2>1, <2>2, SpendTypes, Zenon
  <2>4. QED
    BY <2>3, Zenon DEF Explained
<1>7. QED
  BY <1>4, <1>5, <1>6, Zenon

(* A frozen account is released only for a reason: the user unlocked it, a  *)
(* record of it succeeded, or someone wrote who had read it before it froze.*)
THEOREM ReleaseExplained == TransferSpec => ReleaseIsExplained
<1>1. ASSUME AllInv, [TransferNext]_transferVars,
             NEW a \in Wallets, guard[a].frozen, ~guard'[a].frozen
      PROVE  Explained(a)
  <2>1. TransferNext
    BY <1>1, Zenon DEF transferVars
  <2>2. CASE \E w \in TransferWorkers : WorkerStep(w) \/ WorkerDies(w)
    BY <1>1, <2>2, WorkerExplains, Zenon
  <2>3. CASE \/ \E c \in Creators : CreatorStep(c)
             \/ WebStep
             \/ \E r \in Transfer : Credit(r)
             \/ \E b \in Wallets : MonitorTests(b)
    BY <1>1, <2>3, RestExplains, Zenon
  <2>4. QED
    BY <2>1, <2>2, <2>3, Zenon DEF TransferNext
<1>2. AllInv /\ [TransferNext]_transferVars =>
        [\A a \in Wallets : guard[a].frozen /\ ~guard'[a].frozen =>
          \/ budget'["unlock"] < budget["unlock"]
          \/ \E w \in TransferWorkers :
                \/ work[w].pc \in {"clear_from", "clear_to"}
                   /\ a \in {From(w), To(w)}
                \/ work[w].pc \in {"guard_write", "oops_write"}
                   /\ Blamed(w) = a /\ ~work[w].seen.frozen
          \/ hand["web"].pc = "clear" /\ hand["web"].from = a
             /\ ~hand["web"].seen.frozen]_transferVars
  BY <1>1, Zenon DEF Explained
<1>3. QED
  BY <1>2, TransferInvariance, PTL DEF TransferSpec, ReleaseIsExplained

-----------------------------------------------------------------------------
(***************************************************************************)
(* Two more facts about Transfers, on top of that invariant: one creator   *)
(* has at most one record open for a target (AskInv), and what a record    *)
(* calls failed did not go all the way (ExcuseInv).                        *)
(***************************************************************************)

(* Open records.  A creator about to insert has seen that none of its own   *)
(* is open for the target, and nobody but itself could open one since.      *)
NoneOfItsOwn(c, a) ==
    \A r \in Transfer :
        record[r].status \in Open /\ record[r].to = a => record[r].by # c

AskInv ==
    /\ OneOpenPerCreator
    /\ \A c \in Creators : hand[c].pc = "insert" => NoneOfItsOwn(c, hand[c].to)

(* No record is opened, and the open ones keep their target and creator.    *)
Narrows ==
    \A r \in Transfer :
        record'[r].status \in Open =>
            /\ record[r].status \in Open
            /\ record'[r].to = record[r].to /\ record'[r].by = record[r].by

(* No creator comes to the point of inserting.                              *)
NobodyArrives ==
    \A c \in Creators : hand'[c].pc = "insert" => hand'[c] = hand[c]

(* The creators themselves are left alone.                                  *)
LEMMA SameHands == ASSUME UNCHANGED hand PROVE NobodyArrives
  BY Zenon DEF NobodyArrives

(* The records are left alone.                                              *)
LEMMA SameRecordsNarrow == ASSUME UNCHANGED record PROVE Narrows
  BY Zenon DEF Narrows

(* A record that changes its status from an open one, or to a closed one.   *)
LEMMA MarkedNarrows ==
    ASSUME NEW r \in Transfer, NEW x, Marked(r, x),
           x \in Open => record[r].status \in Open
    PROVE  Narrows
  BY Zenon DEF Marked, Narrows

(* The status of an open record by name.                                    *)
LEMMA OpenByName ==
    /\ "pending" \in Open /\ "executing" \in Open
    /\ "success" \notin Open /\ "failed" \notin Open
    /\ "deleted" \notin Open /\ "none" \notin Open
  BY DEF Open

(* Where no record is opened and no creator arrives, AskInv stays.          *)
LEMMA NarrowingKeeps ==
    ASSUME AskInv, Narrows, NobodyArrives PROVE AskInv'
<1>1. OneOpenPerCreator'
  <2> SUFFICES ASSUME NEW r \in Transfer, NEW s \in Transfer,
                      r # s, record'[r].to = record'[s].to,
                      {record'[r].status, record'[s].status} \subseteq Open,
                      "manual" \notin {record'[r].by, record'[s].by}
               PROVE  record'[r].by # record'[s].by
    BY Zenon DEF OneOpenPerCreator
  <2>1. record'[r].status \in Open /\ record'[s].status \in Open
    BY Zenon
  <2>2. /\ record[r].status \in Open /\ record[s].status \in Open
        /\ record'[r].to = record[r].to /\ record'[r].by = record[r].by
        /\ record'[s].to = record[s].to /\ record'[s].by = record[s].by
    BY <2>1, Zenon DEF Narrows
  <2>3. /\ record[r].to = record[s].to
        /\ {record[r].status, record[s].status} \subseteq Open
        /\ "manual" \notin {record[r].by, record[s].by}
    <3>1. record'[r].by # "manual" /\ record'[s].by # "manual"
      BY Zenon
    <3>2. QED
      BY <2>2, <3>1, Zenon
  <2>4. record[r].by # record[s].by
    BY <2>3, Zenon DEF AskInv, OneOpenPerCreator
  <2>5. QED
    BY <2>2, <2>4, Zenon
<1>2. ASSUME NEW c \in Creators, hand'[c].pc = "insert"
      PROVE  NoneOfItsOwn(c, hand[c].to)' /\ hand'[c].to = hand[c].to
  <2>1. hand[c].pc = "insert" /\ hand'[c] = hand[c]
    BY <1>2, Zenon DEF NobodyArrives
  <2>2. NoneOfItsOwn(c, hand[c].to)
    BY <2>1, Zenon DEF AskInv
  <2>3. QED
    BY <2>1, <2>2, Zenon DEF NoneOfItsOwn, Narrows
<1>3. QED
  BY <1>1, <1>2, Zenon DEF AskInv

(* Workers open no record: they claim and close them.                       *)
LEMMA WorkerNarrows ==
    ASSUME CoreInv, NEW w \in TransferWorkers, WorkerStep(w) \/ WorkerDies(w)
    PROVE  Narrows /\ UNCHANGED hand
<1>1. CASE Claim(w)
  <2>1. PICK r \in work[w].todo : TakeUp(w, r)
    BY <1>1, Zenon DEF Claim
  <2>2. UNCHANGED hand
    BY <1>1, Zenon DEF Claim
  <2>3. r \in Transfer
    BY CoreFacts, Zenon
  <2>4. CASE MayClaim(r)
    <3>1. /\ record[r].status = "pending"
          /\ record' = [record EXCEPT ![r] = [record[r] EXCEPT !.status = "executing"]]
      BY <2>1, <2>4, Zenon DEF TakeUp, MayClaim
    <3>2. record \in [Transfer -> RecordStates]
      BY Zenon DEF CoreInv, CoreTypes
    <3>3. Marked(r, "executing")
      BY <2>3, <3>1, <3>2, StatusKinds, StatusMarked, Zenon
    <3>4. QED
      BY <2>2, <2>3, <3>1, <3>3, OpenByName, MarkedNarrows, Zenon
  <2>5. CASE ~MayClaim(r)
    BY <2>1, <2>2, <2>5, SameRecordsNarrow, Zenon DEF TakeUp
  <2>6. QED
    BY <2>4, <2>5, Zenon
<1>2. ASSUME NEW status \in {"success", "failed"}, Finish(w, status),
             work[w].pc \in Holding
      PROVE  Narrows
  <2>1. PICK x \in {"success", "failed", "deleted"} : Marked(work[w].id, x)
    BY <1>2, FinishMarks, Zenon
  <2>2. x \notin Open /\ work[w].id \in Transfer
    BY <1>2, HeldFacts, OpenByName, Zenon
  <2>3. QED
    BY <2>1, <2>2, MarkedNarrows, Zenon
<1>3. CASE Succeed(w)
  <2>1. work[w].pc \in Holding
    BY <1>3, ExchangeStepsHold, SMT DEF Succeed
  <2>2. Finish(w, "success") \/ UNCHANGED record
    BY <1>3, Zenon DEF Succeed
  <2>3. UNCHANGED hand
    BY <1>3, Zenon DEF Succeed
  <2>4. QED
    BY <1>2, <2>1, <2>2, <2>3, SameRecordsNarrow, Zenon
<1>4. CASE WriteFailed(w)
  <2>1. work[w].pc \in Holding
    BY <1>4, FailSteps, SMT DEF WriteFailed
  <2>2. Finish(w, "failed") \/ UNCHANGED record
    BY <1>4, Zenon DEF WriteFailed, Abandons
  <2>3. UNCHANGED hand
    BY <1>4, Zenon DEF WriteFailed
  <2>4. QED
    BY <1>2, <2>1, <2>2, <2>3, SameRecordsNarrow, Zenon
<1>5. CASE Scan(w) \/ EndPass(w) \/ ReadBefore(w) \/ ResolveDestination(w)
           \/ WorkerDies(w)
  BY <1>5, SameRecordsNarrow, Zenon
     DEF Scan, EndPass, ReadBefore, ResolveDestination, WorkerDies, Ask, ledger
<1>6. CASE \/ InternalTransfer(w) \/ MoveToWithdrawal(w) \/ Withdraw(w)
           \/ AwaitCredit(w) \/ Forward(w)
  <2>1. ASSUME NEW next, NEW account, NEW potAfter, Call(w, next, account, potAfter)
        PROVE  UNCHANGED <<record, hand>>
    BY <2>1, Zenon DEF Call, ledger
  <2>2. UNCHANGED <<record, hand>>
    BY <1>6, <2>1, Zenon DEF InternalTransfer, MoveToWithdrawal, Withdraw,
                             AwaitCredit, Forward, Ask, ledger
  <2>3. QED
    BY <2>2, SameRecordsNarrow, Zenon
<1>7. CASE Load(w) \/ PersistAfterFailure(w)
  BY <1>7, SameRecordsNarrow, Zenon DEF Load, PersistAfterFailure, Abandons
<1>8. CASE PersistDestination(w) \/ ClearAfterSuccess(w) \/ ReadBlamed(w)
           \/ WriteBlamed(w)
  BY <1>8, SameRecordsNarrow, Zenon
     DEF PersistDestination, ClearAfterSuccess, ReadBlamed, WriteBlamed, ledger
<1>9. QED
  BY <1>1, <1>3, <1>4, <1>5, <1>6, <1>7, <1>8, Zenon DEF WorkerStep

(* What an insert does to the table.                                        *)
LEMMA InsertOpens ==
    ASSUME CoreInv, NEW a, NEW b, NEW by, Insert(a, b, by), lastId < MaxTransfers
    PROVE  /\ lastId + 1 \in Transfer
           /\ record'[lastId + 1].to = b /\ record'[lastId + 1].by = by
           /\ record'[lastId + 1].status = "pending"
           /\ \A r \in Transfer : r # lastId + 1 => record'[r] = record[r]
<1>1. /\ lastId \in 0 .. MaxTransfers /\ record \in [Transfer -> RecordStates]
      /\ record' = [record EXCEPT ![lastId + 1] =
                       [from |-> a, to |-> b, by |-> by, status |-> "pending"]]
  BY Zenon DEF CoreInv, CoreTypes, Insert
<1>2. lastId + 1 \in Transfer
  BY <1>1, MaxTransfersAssumption, SMT DEF Transfer
<1>3. QED
  BY <1>1, <1>2, SMT

(* An insert keeps AskInv when the creator had nothing open for the target; *)
(* the hand that inserted is empty afterwards.                              *)
LEMMA InsertKeepsAsk ==
    ASSUME CoreInv, AskInv, NobodyArrives, NEW a, NEW b, NEW by,
           Insert(a, b, by), lastId < MaxTransfers,
           by = "manual" \/ NoneOfItsOwn(by, b),
           \A c \in Creators : c = by => hand'[c].pc # "insert"
    PROVE  AskInv'
<1> DEFINE n == lastId + 1
<1>1. /\ n \in Transfer /\ record'[n].to = b /\ record'[n].by = by
      /\ \A r \in Transfer : r # n => record'[r] = record[r]
  BY InsertOpens, Zenon
<1> HIDE DEF n
<1>2. ASSUME NEW s \in Transfer, s # n, record'[s].to = b,
             record'[s].status \in Open, by # "manual"
      PROVE  record'[s].by # by
  BY <1>1, <1>2, Zenon DEF NoneOfItsOwn
<1>3. OneOpenPerCreator'
  <2> SUFFICES ASSUME NEW r \in Transfer, NEW s \in Transfer,
                      r # s, record'[r].to = record'[s].to,
                      {record'[r].status, record'[s].status} \subseteq Open,
                      "manual" \notin {record'[r].by, record'[s].by}
               PROVE  record'[r].by # record'[s].by
    BY Zenon DEF OneOpenPerCreator
  <2>1. /\ record'[r].status \in Open /\ record'[s].status \in Open
        /\ record'[r].by # "manual" /\ record'[s].by # "manual"
    BY Zenon
  <2>2. CASE r = n
    BY <1>1, <1>2, <2>1, <2>2, Zenon
  <2>3. CASE s = n
    BY <1>1, <1>2, <2>1, <2>3, Zenon
  <2>4. CASE r # n /\ s # n
    <3>1. record'[r] = record[r] /\ record'[s] = record[s]
      BY <1>1, <2>4, Zenon
    <3>2. QED
      BY <3>1, Zenon DEF AskInv, OneOpenPerCreator
  <2>5. QED
    BY <2>2, <2>3, <2>4, Zenon
<1>4. ASSUME NEW c \in Creators, hand'[c].pc = "insert"
      PROVE  NoneOfItsOwn(c, hand[c].to)' /\ hand'[c].to = hand[c].to
  <2>1. hand[c].pc = "insert" /\ hand'[c] = hand[c] /\ c # by
    BY <1>4, Zenon DEF NobodyArrives
  <2>2. NoneOfItsOwn(c, hand[c].to)
    BY <2>1, Zenon DEF AskInv
  <2>3. QED
    BY <1>1, <2>1, <2>2, Zenon DEF NoneOfItsOwn
<1>5. QED
  BY <1>3, <1>4, Zenon DEF AskInv

(* What a creator that only moves on has in hand.                           *)
LEMMA HandMoves ==
    ASSUME SideInv, NEW c \in Creators, NEW h,
           hand' = [hand EXCEPT ![c] = h]
    PROVE  hand'[c] = h /\ \A d \in Creators : d # c => hand'[d] = hand[d]
<1>1. hand \in [Creators -> HandStates]
  BY HandFacts, Zenon
<1>2. QED
  BY <1>1, SMT

(* The step of a request that notes what it will clear, or what it read.    *)
LEMMA RequestPc ==
    ASSUME NEW P, NEW F, NEW T, NEW G, NEW K, NEW x, NEW y,
           NEW h \in [pc : P, from : F, to : T, seen : G, kinds : K]
    PROVE  /\ [h EXCEPT !.pc = x, !.kinds = y].pc = x
           /\ [h EXCEPT !.pc = x, !.seen = y].pc = x
  OBVIOUS

(* A hand that is emptied.                                                  *)
LEMMA HandEmpties ==
    ASSUME SideInv, NEW c \in Creators, hand' = [hand EXCEPT ![c] = IdleHand]
    PROVE  NobodyArrives /\ hand'[c].pc # "insert"
<1>1. hand'[c] = IdleHand /\ \A d \in Creators : d # c => hand'[d] = hand[d]
  BY IdleHandState, HandMoves, Zenon
<1>2. hand'[c].pc # "insert"
  BY <1>1, IdleHandState, SMT
<1>3. QED
  BY <1>1, <1>2, Zenon DEF NobodyArrives

(* A creator's steps.                                                       *)
LEMMA CreatorKeepsAsk ==
    ASSUME CoreInv, SideInv, AskInv, NEW c \in Creators, CreatorStep(c)
    PROVE  AskInv'
<1>1. CASE \E a, b \in Wallets : PickPair(c, a, b)
  <2>1. PICK a \in Wallets, b \in Wallets : PickPair(c, a, b)
    BY <1>1, Zenon
  <2> DEFINE h == [hand[c] EXCEPT !.pc = "check", !.from = a, !.to = b]
  <2>2. hand' = [hand EXCEPT ![c] = h] /\ UNCHANGED record
    BY <2>1, Zenon DEF PickPair, ledger
  <2>3. h \in HandStates /\ h.pc = "check"
    <3>1. "check" \in HandSteps /\ a \in WalletsOrNone /\ b \in WalletsOrNone
      BY DEF HandSteps, WalletsOrNone
    <3>2. QED
      BY <3>1, HandFacts, HandPcFromTo, Zenon DEF HandStates
  <2> HIDE DEF h
  <2>4. hand'[c] = h /\ \A d \in Creators : d # c => hand'[d] = hand[d]
    BY <2>2, <2>3, HandMoves, Zenon
  <2>5. hand'[c].pc # "insert"
    BY <2>3, <2>4, SMT
  <2>6. NobodyArrives
    BY <2>4, <2>5, Zenon DEF NobodyArrives
  <2>7. QED
    BY <2>2, <2>6, SameRecordsNarrow, NarrowingKeeps, Zenon
<1>2. CASE CheckOpen(c)
  <2>1. UNCHANGED record
    BY <1>2, Zenon DEF CheckOpen, ledger
  <2>2. CASE hand' = [hand EXCEPT ![c] = IdleHand]
    BY <2>1, <2>2, HandEmpties, SameRecordsNarrow, NarrowingKeeps, Zenon
  <2>3. CASE /\ ~OpenFor(hand[c].to)
             /\ hand' = [hand EXCEPT ![c] = [hand[c] EXCEPT !.pc = "insert"]]
    <3> DEFINE h == [hand[c] EXCEPT !.pc = "insert"]
    <3>1. h \in HandStates /\ h.to = hand[c].to
      <4>1. "insert" \in HandSteps
        BY DEF HandSteps
      <4>2. QED
        BY <4>1, HandFacts, HandPc, Zenon DEF HandStates
    <3>2. hand' = [hand EXCEPT ![c] = h]
      BY <2>3, Zenon
    <3> HIDE DEF h
    <3>3. /\ hand'[c].to = hand[c].to
          /\ \A d \in Creators : d # c => hand'[d] = hand[d]
      BY <3>1, <3>2, HandMoves, Zenon
    <3>4. NoneOfItsOwn(c, hand[c].to)
      BY <2>3, Zenon DEF OpenFor, NoneOfItsOwn
    <3>5. ASSUME NEW d \in Creators, hand'[d].pc = "insert"
          PROVE  NoneOfItsOwn(d, hand'[d].to)
      <4>1. CASE d = c
        BY <3>3, <3>4, <4>1, Zenon
      <4>2. CASE d # c
        BY <3>3, <3>5, <4>2, Zenon DEF AskInv
      <4>3. QED
        BY <4>1, <4>2, Zenon
    <3>6. \A d \in Creators : hand'[d].pc = "insert" => NoneOfItsOwn(d, hand[d].to)'
      BY <2>1, <3>5, Zenon DEF NoneOfItsOwn
    <3>7. OneOpenPerCreator'
      BY <2>1, Zenon DEF AskInv, OneOpenPerCreator
    <3>8. QED
      BY <3>6, <3>7, Zenon DEF AskInv
  <2>4. QED
    BY <1>2, <2>2, <2>3, Zenon DEF CheckOpen
<1>3. CASE InsertAuto(c)
  <2>1. /\ hand[c].pc = "insert" /\ lastId < MaxTransfers
        /\ hand' = [hand EXCEPT ![c] = IdleHand]
        /\ Insert(hand[c].from, hand[c].to, c) \/ UNCHANGED record
    BY <1>3, Zenon DEF InsertAuto
  <2>2. NobodyArrives /\ hand'[c].pc # "insert"
    BY <2>1, HandEmpties, Zenon
  <2>3. NoneOfItsOwn(c, hand[c].to)
    BY <2>1, Zenon DEF AskInv
  <2>4. CASE Insert(hand[c].from, hand[c].to, c)
    BY <2>1, <2>2, <2>3, <2>4, InsertKeepsAsk, Zenon
  <2>5. QED
    BY <2>1, <2>2, <2>4, SameRecordsNarrow, NarrowingKeeps, Zenon
<1>4. CASE CreatorDies(c)
  <2>1. UNCHANGED record /\ hand' = [hand EXCEPT ![c] = IdleHand]
    BY <1>4, Zenon DEF CreatorDies, ledger
  <2>2. QED
    BY <2>1, HandEmpties, SameRecordsNarrow, NarrowingKeeps, Zenon
<1>5. QED
  BY <1>1, <1>2, <1>3, <1>4, Zenon DEF CreatorStep

(* The web is one of the creators.                                          *)
LEMMA WebIsCreator == "web" \in Creators
  BY DEF Creators

(* A web request that goes on to another step of its own.                   *)
LEMMA WebTurns ==
    ASSUME SideInv, NEW h, hand' = [hand EXCEPT !["web"] = h], h.pc # "insert"
    PROVE  NobodyArrives
<1>1. hand'["web"] = h /\ \A d \in Creators : d # "web" => hand'[d] = hand[d]
  BY WebIsCreator, HandMoves, Zenon
<1>2. QED
  BY <1>1, Zenon DEF NobodyArrives

(* The user's requests never arrive at the insert of an automatic record.   *)
LEMMA RequestKeepsAsk ==
    ASSUME CoreInv, SideInv, AskInv, WebStep PROVE AskInv'
<1>1. ASSUME UNCHANGED record, NobodyArrives PROVE AskInv'
  BY <1>1, SameRecordsNarrow, NarrowingKeeps, Zenon
<1>2. CASE \E a, b \in Wallets : ManualTransfer(a, b)
  <2>1. PICK a \in Wallets, b \in Wallets : ManualTransfer(a, b)
    BY <1>2, Zenon
  <2>2. /\ Insert(a, b, "manual") /\ lastId < MaxTransfers /\ UNCHANGED hand
    BY <2>1, Zenon DEF ManualTransfer
  <2>3. \A c \in Creators : c # "manual"
    BY DEF Creators
  <2>4. QED
    BY <2>2, <2>3, SameHands, InsertKeepsAsk, Zenon
<1>3. CASE SetAutoTransfer \/ \E a \in Wallets : Unlock(a)
  BY <1>1, <1>3, SameHands, Zenon DEF SetAutoTransfer, Unlock, ledger
<1>4. CASE \E a \in Wallets : EditRow(a)
  <2>1. PICK a \in Wallets : EditRow(a)
    BY <1>4, Zenon
  <2>2. UNCHANGED record
    BY <2>1, Zenon DEF EditRow
  <2>3. PICK kinds \in {ClearedByConnection, {}} :
           hand' = [hand EXCEPT !["web"] = Asking("address", a, kinds)]
    BY <2>1, Zenon DEF EditRow
  <2>4. "address" \in HandSteps /\ a \in WalletsOrNone
        /\ ClearedByConnection \in SUBSET FaultKinds /\ {} \in SUBSET FaultKinds
    BY ClearedKinds DEF HandSteps, WalletsOrNone
  <2>5. /\ Asking("address", a, kinds) \in HandStates
        /\ Asking("address", a, kinds).pc = "address"
    <3>1. kinds \in SUBSET FaultKinds
      BY <2>4, Zenon
    <3>2. QED
      BY <2>4, <3>1, AskingState, Zenon
  <2>6. Asking("address", a, kinds).pc # "insert"
    BY <2>5
  <2>7. QED
    BY <1>1, <2>2, <2>3, <2>5, <2>6, WebTurns, Zenon
<1>5. CASE EditAddress \/ LookAtGuard
  <2>1. UNCHANGED record
    BY <1>5, Zenon DEF EditAddress, LookAtGuard, ledger
  <2>2. PICK y :
           \/ hand' = [hand EXCEPT !["web"] = IdleHand]
           \/ hand' = [hand EXCEPT !["web"] =
                          [hand["web"] EXCEPT !.pc = "look", !.kinds = y]]
           \/ hand' = [hand EXCEPT !["web"] =
                          [hand["web"] EXCEPT !.pc = "clear", !.seen = y]]
    BY <1>5, Zenon DEF EditAddress, LookAtGuard
  <2>3. hand["web"] \in HandStates
    BY WebIsCreator, HandFacts, Zenon
  <2>4. /\ [hand["web"] EXCEPT !.pc = "look", !.kinds = y].pc # "insert"
        /\ [hand["web"] EXCEPT !.pc = "clear", !.seen = y].pc # "insert"
    <3>1. /\ [hand["web"] EXCEPT !.pc = "look", !.kinds = y].pc = "look"
          /\ [hand["web"] EXCEPT !.pc = "clear", !.seen = y].pc = "clear"
      BY <2>3, RequestPc, Zenon DEF HandStates
    <3>2. QED
      BY <3>1
  <2>5. NobodyArrives
    BY <2>2, <2>4, WebIsCreator, WebTurns, HandEmpties, Zenon
  <2>6. QED
    BY <1>1, <2>1, <2>5, Zenon
<1>6. CASE \E a \in Wallets, t \in BOOLEAN : MarkTest(a, t)
  <2>1. PICK a \in Wallets, t \in BOOLEAN : MarkTest(a, t)
    BY <1>6, Zenon
  <2>2. UNCHANGED record
    BY <2>1, Zenon DEF MarkTest
  <2>3. CASE hand' = [hand EXCEPT !["web"] = IdleHand]
    BY <1>1, <2>2, <2>3, WebIsCreator, HandEmpties, Zenon
  <2>4. CASE hand' = [hand EXCEPT !["web"] = Asking("look", a, ClearedByTest)]
    <3>1. "look" \in HandSteps /\ a \in WalletsOrNone
          /\ ClearedByTest \in SUBSET FaultKinds
      BY ClearedKinds DEF HandSteps, WalletsOrNone
    <3>2. /\ Asking("look", a, ClearedByTest) \in HandStates
          /\ Asking("look", a, ClearedByTest).pc = "look"
      BY <3>1, AskingState, Zenon
    <3>3. Asking("look", a, ClearedByTest).pc # "insert"
      BY <3>2
    <3>4. QED
      BY <1>1, <2>2, <2>4, <3>2, <3>3, WebTurns, Zenon
  <2>5. QED
    BY <2>1, <2>3, <2>4, Zenon DEF MarkTest
<1>7. CASE ClearGuard
  BY <1>1, <1>7, WebIsCreator, HandEmpties, Zenon DEF ClearGuard, ledger
<1>8. CASE \E a \in Wallets : DeleteWallet(a)
  <2>1. PICK a \in Wallets : DeleteWallet(a)
    BY <1>8, Zenon
  <2>2. UNCHANGED hand
    BY <2>1, Zenon DEF DeleteWallet
  <2>3. Narrows
    <3> SUFFICES ASSUME NEW r \in Transfer, record'[r].status \in Open
                 PROVE  record'[r] = record[r]
      BY Zenon DEF Narrows
    <3>1. record'[r] = IF record[r].status # "none"
                             /\ a \in {record[r].from, record[r].to}
                       THEN [record[r] EXCEPT !.status = "deleted"] ELSE record[r]
      BY <2>1, Zenon DEF DeleteWallet
    <3>2. record[r] \in RecordStates
      BY Zenon DEF CoreInv, CoreTypes
    <3>3. [record[r] EXCEPT !.status = "deleted"].status \notin Open
      BY <3>2, StatusKinds, OpenByName, RecordStatus, Zenon
    <3>4. QED
      BY <3>1, <3>3, Zenon
  <2>4. QED
    BY <2>2, <2>3, SameHands, NarrowingKeeps, Zenon
<1>9. QED
  BY <1>2, <1>3, <1>4, <1>5, <1>6, <1>7, <1>8, Zenon DEF WebStep

(* No step breaks AskInv.                                                   *)
LEMMA NextKeepsAsk ==
    ASSUME AllInv, AskInv, [TransferNext]_transferVars PROVE AskInv'
<1>1. CoreInv /\ SideInv
  BY Zenon DEF AllInv
<1>2. CASE \E w \in TransferWorkers : WorkerStep(w) \/ WorkerDies(w)
  BY <1>1, <1>2, WorkerNarrows, SameHands, NarrowingKeeps, Zenon
<1>3. CASE \E c \in Creators : CreatorStep(c)
  BY <1>1, <1>3, CreatorKeepsAsk, Zenon
<1>4. CASE WebStep
  BY <1>1, <1>4, RequestKeepsAsk, Zenon
<1>5. ASSUME UNCHANGED <<record, hand>> PROVE AskInv'
  BY <1>5, SameRecordsNarrow, SameHands, NarrowingKeeps, Zenon
<1>6. CASE (\E r \in Transfer : Credit(r)) \/ (\E a \in Wallets : MonitorTests(a))
  BY <1>5, <1>6, Zenon DEF Credit, MonitorTests, ledger
<1>7. CASE UNCHANGED transferVars
  BY <1>5, <1>7, Zenon DEF transferVars
<1>8. QED
  BY <1>2, <1>3, <1>4, <1>6, <1>7, Zenon DEF TransferNext

(* At the start nothing is open and nobody asks.                            *)
LEMMA InitAsk == ASSUME TransferInit PROVE AskInv
<1>1. /\ record = [r \in Transfer |-> Fresh]
      /\ hand = [c \in Creators |-> IdleHand]
  BY Zenon DEF TransferInit
<1>2. Fresh.status \notin Open
  BY OpenByName DEF Fresh
<1>3. \A r \in Transfer : record[r].status \notin Open
  BY <1>1, <1>2, Zenon
<1>4. IdleHand.pc # "insert"
  BY IdleHandState, SMT
<1>5. \A c \in Creators : hand[c].pc # "insert"
  BY <1>1, <1>4, Zenon
<1>6. QED
  BY <1>3, <1>5, Zenon DEF AskInv, OneOpenPerCreator

(* One creator alone never has two records open for one target, so that two *)
(* automatic records for it come from the web request and the monitor.      *)
THEOREM OneOpenRecord == TransferSpec => []OneOpenPerCreator
<1>1. TransferInit => AskInv
  BY InitAsk
<1>2. AllInv /\ AskInv /\ [TransferNext]_transferVars => AskInv'
  BY NextKeepsAsk
<1>3. AskInv => OneOpenPerCreator
  BY DEF AskInv
<1>4. QED
  BY <1>1, <1>2, <1>3, TransferInvariance, PTL DEF TransferSpec

-----------------------------------------------------------------------------
(* Failures.  The money of a record whose failure is being handled, or was, *)
(* did not leave the source, or the record is one of the unclear, or the    *)
(* money waits at a swap account.                                           *)
Handling == {"fail_persist", "fail_status", "oops_persist", "oops_read",
             "oops_write", "oops_status"}

Excused(r) ==
    money[r].out > 0 =>
        r \in unclear \/ (record[r].to \in SwapWallets /\ money[r].forward = 0)

ExcuseInv ==
    /\ \A r \in Transfer : record[r].status = "failed" => Excused(r)
    /\ \A w \in TransferWorkers :
          /\ work[w].pc \in Handling => Excused(work[w].id)
          /\ work[w].pc \in AfterOut => To(w) \in SwapWallets

(* The money of a record counts as it did.                                  *)
SameCounts(r) == money'[r].out = money[r].out /\ money'[r].forward = money[r].forward

(* What a step of a worker may do.                                          *)
Explains(w) ==
    /\ \A v \in TransferWorkers : v # w => work'[v] = work[v]
    /\ RecordsGoOn
    /\ unclear \subseteq unclear'
    /\ \A r \in Transfer : r # work[w].id \/ work[w].pc \notin Holding => SameCounts(r)
    /\ \A r \in Transfer : record'[r].status = "failed" =>
          record[r].status = "failed" \/ (r = work[w].id /\ Excused(r)')
    /\ work'[w].pc \in Handling => Excused(work[w].id)' /\ work'[w].id = work[w].id
    /\ work'[w].pc \in AfterOut => To(w)' \in SwapWallets

(* An excuse stays good when the counts do.                                 *)
LEMMA ExcuseLasts ==
    ASSUME NEW r \in Transfer, Known(r), Excused(r), RecordsGoOn,
           unclear \subseteq unclear', SameCounts(r)
    PROVE  Excused(r)'
<1>1. record'[r].to = record[r].to
  BY Zenon DEF RecordsGoOn
<1>2. QED
  BY <1>1, Zenon DEF Excused, SameCounts

(* The sets of steps, apart and within each other.                          *)
LEMMA HandlingHolds ==
    /\ Handling \subseteq Holding
    /\ AfterOut \subseteq Holding
    /\ ExchangeSteps = BeforeOut \cup AfterOut
    /\ \A x \in Handling : x \notin AfterOut
    /\ \A x \in SuccessSteps \cup {"internal", "inner", "resolve", "withdraw",
          "idle", "scan", "load"} \cup AfterStatus : x \notin Handling /\ x \notin AfterOut
    /\ \A x \in AfterOut : x \notin Handling
  BY SMT DEF Handling, Holding, AfterOut, BeforeOut, ExchangeSteps, SuccessSteps,
             FailureSteps, AfterStatus

(* A step that explains itself keeps ExcuseInv.                             *)
LEMMA ExplainingKeeps ==
    ASSUME CoreInv, ExcuseInv, NEW w \in TransferWorkers, Explains(w)
    PROVE  ExcuseInv'
<1>1. RecordsGoOn /\ unclear \subseteq unclear'
  BY Zenon DEF Explains
<1>2. ASSUME NEW r \in Transfer, record'[r].status = "failed"
      PROVE  Excused(r)'
  <2>1. CASE r = work[w].id /\ Excused(r)'
    BY <2>1
  <2>2. CASE record[r].status = "failed"
    <3>1. Known(r)
      BY <2>2 DEF Known
    <3>2. r # work[w].id \/ work[w].pc \notin Holding
      <4>1. record[r].status \notin {"executing", "deleted"}
        BY <2>2
      <4>2. QED
        BY <4>1, HeldFacts, Zenon
    <3>3. SameCounts(r) /\ Excused(r)
      BY <2>2, <3>2, Zenon DEF Explains, ExcuseInv
    <3>4. QED
      BY <1>1, <3>1, <3>3, ExcuseLasts, Zenon
  <2>3. QED
    BY <1>2, <2>1, <2>2, Zenon DEF Explains
<1>3. ASSUME NEW v \in TransferWorkers
      PROVE  /\ work'[v].pc \in Handling => Excused(work[v].id)'
             /\ work'[v].pc \in AfterOut => To(v)' \in SwapWallets
  <2>1. CASE v = w
    BY <2>1, Zenon DEF Explains
  <2>2. CASE v # w
    <3>1. work'[v] = work[v]
      BY <2>2, Zenon DEF Explains
    <3>2. ASSUME work[v].pc \in Handling \cup AfterOut
          PROVE  /\ work[v].id \in Transfer /\ Known(work[v].id)
                 /\ work[v].id # work[w].id
      <4>1. work[v].id \in Transfer
        BY <3>2, HandlingHolds, HeldFacts, Zenon
      <4>2. work[v].id # work[w].id
        BY <2>2, <4>1, IdKinds, Zenon DEF CoreInv, OneExecutor
      <4>3. QED
        BY <4>1, <4>2, HeldIsKnown, Zenon
    <3>3. ASSUME work[v].pc \in Handling PROVE Excused(work[v].id)'
      <4>1. PICK r \in Transfer : r = work[v].id
        BY <3>2, <3>3, Zenon
      <4>2. Known(r) /\ r # work[w].id
        BY <3>2, <3>3, <4>1, Zenon
      <4>3. Excused(r)
        BY <3>3, <4>1, Zenon DEF ExcuseInv
      <4>4. SameCounts(r)
        BY <4>2, Zenon DEF Explains
      <4>5. Excused(r)'
        BY <1>1, <4>2, <4>3, <4>4, ExcuseLasts, Zenon
      <4>6. QED
        BY <3>1, <4>1, <4>5, Zenon DEF Excused
    <3>4. ASSUME work[v].pc \in AfterOut PROVE To(v)' \in SwapWallets
      <4>1. To(v) \in SwapWallets
        BY <3>4, Zenon DEF ExcuseInv
      <4>2. record'[work[v].id].to = record[work[v].id].to
        BY <1>1, <3>2, <3>4, Zenon DEF RecordsGoOn
      <4>3. QED
        BY <3>1, <4>1, <4>2, Zenon DEF To
    <3>5. QED
      BY <3>1, <3>3, <3>4, Zenon
  <2>3. QED
    BY <2>1, <2>2, Zenon
<1>4. QED
  BY <1>2, <1>3, Zenon DEF ExcuseInv

(* While a call is being made or a failure handled, the money excuses it.   *)
LEMMA HeldExcuse ==
    ASSUME CoreInv, ExcuseInv, NEW w \in TransferWorkers,
           work[w].pc \in ExchangeSteps \cup Handling
    PROVE  /\ work[w].pc \in Holding /\ work[w].id \in Transfer
           /\ Known(work[w].id) /\ Excused(work[w].id)
<1>1. work[w].pc \in Holding
  BY HandlingHolds, Zenon DEF Holding
<1>2. /\ work[w].id \in Transfer /\ Known(work[w].id)
      /\ MoneyAt(work[w].pc, money[work[w].id], record[work[w].id].to \in SwapWallets)
  BY <1>1, HeldFacts, HeldIsKnown, Zenon
<1>3. CASE work[w].pc \in BeforeOut
  <2>1. money[work[w].id].out = 0
    BY <1>2, <1>3, Zenon DEF MoneyAt
  <2>2. QED
    BY <1>1, <1>2, <2>1, SMT DEF Excused
<1>4. CASE work[w].pc \in AfterOut
  <2>1. money[work[w].id].forward = 0 /\ To(w) \in SwapWallets
    BY <1>2, <1>4, Zenon DEF MoneyAt, ExcuseInv
  <2>2. QED
    BY <1>1, <1>2, <2>1, Zenon DEF Excused, To
<1>5. CASE work[w].pc \in Handling
  BY <1>1, <1>2, <1>5, Zenon DEF ExcuseInv
<1>6. QED
  BY <1>3, <1>4, <1>5, HandlingHolds, Zenon

(* A worker goes on with its record.                                        *)
LEMMA TurnExplains ==
    ASSUME CoreInv, ExcuseInv, NEW w \in TransferWorkers, NEW pc, NEW kind, NEW seen,
           Becomes(w, pc, work[w].id, kind, seen), work[w].pc \in Holding,
           UNCHANGED record, unclear \subseteq unclear',
           \A s \in Transfer : s # work[w].id => money'[s] = money[s],
           pc \in Handling =>
              \/ work[w].id \in unclear'
              \/ work[w].pc \in ExchangeSteps \cup Handling /\ UNCHANGED money,
           pc \in AfterOut => To(w) \in SwapWallets
    PROVE  Explains(w)
<1>1. /\ \A v \in TransferWorkers : v # w => work'[v] = work[v]
      /\ work'[w].pc = pc /\ work'[w].id = work[w].id
  BY Zenon DEF Becomes, Shows
<1>2. RecordsGoOn
  BY SameRecordsGoOn, Zenon
<1>3. PICK r \in Transfer : r = work[w].id
  BY HeldFacts, Zenon
<1>4. ASSUME pc \in Handling PROVE Excused(r)'
  <2>1. CASE work[w].id \in unclear'
    BY <1>3, <2>1, Zenon DEF Excused
  <2>2. CASE work[w].pc \in ExchangeSteps \cup Handling /\ UNCHANGED money
    <3>1. Known(r) /\ Excused(r)
      BY <1>3, <2>2, HeldExcuse, Zenon
    <3>2. SameCounts(r)
      BY <2>2, Zenon DEF SameCounts
    <3>3. QED
      BY <1>2, <3>1, <3>2, ExcuseLasts, Zenon
  <2>3. QED
    BY <1>4, <2>1, <2>2, Zenon
<1>5. pc \in Handling => Excused(work[w].id)'
  BY <1>1, <1>3, <1>4, Zenon DEF Excused
<1>6. pc \in AfterOut => To(w)' \in SwapWallets
  BY <1>1, Zenon DEF To
<1>7. \A s \in Transfer : s # work[w].id \/ work[w].pc \notin Holding => SameCounts(s)
  BY Zenon DEF SameCounts
<1>8. QED
  BY <1>1, <1>2, <1>5, <1>6, <1>7, Zenon DEF Explains

(* A worker takes a record up, lets go of it or reports it.                 *)
LEMMA LeaveExplains ==
    ASSUME CoreInv, ExcuseInv, NEW w \in TransferWorkers,
           NEW pc \in {"idle", "scan", "load"} \cup AfterStatus,
           NEW id, NEW kind, NEW seen, Becomes(w, pc, id, kind, seen),
           RecordsGoOn, UNCHANGED <<money, unclear>>,
           \A r \in Transfer : record'[r].status = "failed" =>
              record[r].status = "failed" \/ (r = work[w].id /\ Excused(r)')
    PROVE  Explains(w)
<1>1. /\ \A v \in TransferWorkers : v # w => work'[v] = work[v]
      /\ work'[w].pc = pc
  BY Zenon DEF Becomes, Shows
<1>2. pc \notin Handling /\ pc \notin AfterOut
  BY HandlingHolds, Zenon
<1>3. \A r \in Transfer : SameCounts(r)
  BY Zenon DEF SameCounts
<1>4. QED
  BY <1>1, <1>2, <1>3, Zenon DEF Explains

(* A worker whose call failed, with the money where it was or in doubt.     *)
LEMMA FailsExplain ==
    ASSUME CoreInv, ExcuseInv, NEW w \in TransferWorkers,
           work[w].pc \in ExchangeSteps, NEW k \in FaultKinds, Fails(w, k),
           UNCHANGED record, unclear \subseteq unclear',
           \A s \in Transfer : s # work[w].id => money'[s] = money[s],
           UNCHANGED money \/ work[w].id \in unclear'
    PROVE  Explains(w)
<1>1. PICK pc \in {"fail_persist", "fail_status"} :
         Becomes(w, pc, work[w].id, k, work[w].seen)
  BY FailsTurns, Zenon
<1>2. work[w].pc \in Holding
  BY HeldExcuse, Zenon
<1>3. pc \notin AfterOut
  BY SMT DEF AfterOut
<1>4. QED
  BY <1>1, <1>2, <1>3, TurnExplains, Zenon

(* A worker goes on to a call, or to the branch of success.                 *)
LEMMA GoesExplains ==
    ASSUME CoreInv, ExcuseInv, NEW w \in TransferWorkers, work[w].pc \in Holding,
           NEW pc \in Holding, Goes(w, pc), pc \notin Handling,
           UNCHANGED record, unclear \subseteq unclear',
           \A s \in Transfer : s # work[w].id => money'[s] = money[s],
           pc \in AfterOut => To(w) \in SwapWallets
    PROVE  Explains(w)
<1>1. Becomes(w, pc, work[w].id, work[w].kind, work[w].seen)
  BY HoldingInSteps, CoreFacts, WorkPc, Zenon DEF Goes
<1>2. QED
  BY <1>1, TurnExplains, Zenon

(* An exchange call: done, refused, or in doubt.                            *)
LEMMA CallExplains ==
    ASSUME CoreInv, ExcuseInv, NEW w \in TransferWorkers,
           work[w].pc \in ExchangeSteps, NEW pc \in Holding, pc \notin Handling,
           pc \in AfterOut => To(w) \in SwapWallets,
           NEW account, NEW potAfter, Call(w, WithPc(w, pc), account, potAfter)
    PROVE  Explains(w)
<1>1. work[w].pc \in Holding /\ money \in [Transfer -> MoneyStates]
  BY HeldExcuse, HeldFacts, Zenon
<1>2. UNCHANGED record
  BY Zenon DEF Call, ledger
<1>3. ASSUME money' = [money EXCEPT ![work[w].id] = account]
      PROVE  \A s \in Transfer : s # work[w].id => money'[s] = money[s]
  BY <1>1, <1>3, SMT
<1>4. CASE /\ work' = WithPc(w, pc) /\ money' = [money EXCEPT ![work[w].id] = account]
           /\ UNCHANGED unclear
  BY <1>1, <1>2, <1>3, <1>4, GoesExplains, Zenon DEF Goes, WithPc
<1>5. CASE (\E k \in RefusalKinds : Fails(w, k)) /\ UNCHANGED <<money, unclear>>
  <2>1. PICK k \in FaultKinds : Fails(w, k)
    BY <1>5, RefusalAssumption, Zenon
  <2>2. QED
    BY <1>2, <1>5, <2>1, FailsExplain, Zenon
<1>6. CASE /\ Fails(w, "temporary_network")
           /\ money' = [money EXCEPT ![work[w].id] = account]
           /\ unclear' = unclear \cup {work[w].id}
  <2>1. "temporary_network" \in FaultKinds
    BY DEF FaultKinds, PassingFaults
  <2>2. unclear \subseteq unclear' /\ work[w].id \in unclear'
    BY <1>6, Zenon
  <2>3. QED
    BY <1>2, <1>3, <1>6, <2>1, <2>2, FailsExplain, Zenon
<1>7. QED
  BY <1>4, <1>5, <1>6, Zenon DEF Call, exchange

(* A worker that notes a balance holds the record it held.                  *)
LEMMA BalanceTurns ==
    ASSUME CoreInv, NEW w \in TransferWorkers, NEW x, NEW y,
           work' = [work EXCEPT ![w] = [work[w] EXCEPT !.pc = x, !.before = y]]
    PROVE  /\ work'[w].pc = x /\ work'[w].id = work[w].id
           /\ \A v \in TransferWorkers : v # w => work'[v] = work[v]
<1> DEFINE e == [work[w] EXCEPT !.pc = x, !.before = y]
<1>1. work[w] \in WorkStates /\ work \in [TransferWorkers -> WorkStates]
  BY CoreFacts, SMT
<1>2. e.pc = x /\ e.id = work[w].id
  BY <1>1 DEF WorkStates, Loads
<1>3. work' = [work EXCEPT ![w] = e]
  BY Zenon
<1> HIDE DEF e
<1>4. work'[w] = e /\ \A v \in TransferWorkers : v # w => work'[v] = work[v]
  BY <1>1, <1>3, Zenon
<1>5. QED
  BY <1>2, <1>4, Zenon

(* Every exchange step: only a swap account waits for the money.            *)
LEMMA ExchangeExplains ==
    ASSUME CoreInv, ExcuseInv, NEW w \in TransferWorkers,
           \/ InternalTransfer(w) \/ MoveToWithdrawal(w) \/ ResolveDestination(w)
           \/ Withdraw(w) \/ ReadBefore(w) \/ AwaitCredit(w) \/ Forward(w)
    PROVE  Explains(w)
<1>1. /\ work[w].pc \in ExchangeSteps /\ work[w].pc \in Holding
      /\ work[w].pc \in WorkSteps
  <2>1. work[w].pc \in ExchangeSteps
    BY SMT DEF InternalTransfer, MoveToWithdrawal, ResolveDestination, Withdraw,
               ReadBefore, AwaitCredit, Forward, ExchangeSteps
  <2>2. QED
    BY <2>1, HeldExcuse, CoreFacts, Zenon
<1>2. /\ RefusalKinds \subseteq FaultKinds /\ "temporary_network" \in FaultKinds
      /\ "temporary_exchange" \in FaultKinds /\ "account_mapping_invalid" \in FaultKinds
  BY RefusalAssumption DEF FaultKinds, PassingFaults, FreezeWorthy, SourceFaults
<1>3. /\ "resolve" \in Holding /\ "resolve" \notin Handling \cup AfterOut
      /\ "withdraw" \in Holding /\ "withdraw" \notin Handling \cup AfterOut
      /\ {"before", "credit", "forward"} \subseteq AfterOut \cap Holding
      /\ \A pc \in SuccessSteps : pc \in Holding /\ pc \notin Handling \cup AfterOut
      /\ \A pc \in AfterOut : pc \notin Handling
  BY ExchangeStepsHold, AfterOutSteps, SuccessStepsHold, HandlingHolds, Zenon
<1>4. ASSUME NEW account, NEW potAfter, Call(w, Done(w), account, potAfter)
      PROVE  Explains(w)
  <2>1. PICK pc \in SuccessSteps : Done(w) = WithPc(w, pc)
    BY DoneTurns, Zenon
  <2>2. Call(w, WithPc(w, pc), account, potAfter)
    BY <1>4, <2>1, Zenon
  <2>3. QED
    BY <1>1, <1>3, <2>2, CallExplains, Zenon
<1>5. ASSUME NEW k \in FaultKinds, Fails(w, k), UNCHANGED <<record, money, unclear>>
      PROVE  Explains(w)
  BY <1>1, <1>5, FailsExplain, Zenon
<1>6. ASSUME NEW pc \in AfterOut, Goes(w, pc), work[w].pc \in AfterOut,
             UNCHANGED <<record, money, unclear>>
      PROVE  Explains(w)
  <2>1. To(w) \in SwapWallets /\ pc \in Holding
    BY <1>6, AfterOutSteps, Zenon DEF ExcuseInv
  <2>2. QED
    BY <1>1, <1>3, <1>6, <2>1, GoesExplains, Zenon
<1>7. CASE InternalTransfer(w)
  BY <1>4, <1>7, Zenon DEF InternalTransfer
<1>8. CASE MoveToWithdrawal(w)
  BY <1>1, <1>3, <1>8, CallExplains, Zenon DEF MoveToWithdrawal
<1>9. CASE ResolveDestination(w)
  <2>1. UNCHANGED <<record, money, unclear>>
    BY <1>9, Zenon DEF ResolveDestination, ledger, exchange, history
  <2>2. CASE Fails(w, "account_mapping_invalid")
    BY <1>2, <1>5, <2>1, <2>2, Zenon
  <2>3. CASE work' = [work EXCEPT ![w] = [work[w] EXCEPT !.pc = "withdraw",
                                                         !.resolved = TRUE]]
    <3>1. "withdraw" \in WorkSteps
      BY <1>3, HoldingInSteps, Zenon
    <3>2. Becomes(w, "withdraw", work[w].id, work[w].kind, work[w].seen)
      BY <2>3, <3>1, CoreFacts, WorkPcResolved, Zenon
    <3>3. QED
      BY <1>1, <1>3, <2>1, <3>2, TurnExplains, Zenon
  <2>4. QED
    BY <1>9, <2>2, <2>3, Zenon DEF ResolveDestination
<1>10. CASE Withdraw(w)
  <2>1. \/ Fails(w, "temporary_exchange") /\ UNCHANGED <<record, money, unclear>>
        \/ \E account, potAfter : Call(w, WithPc(w, "before"), account, potAfter)
                                   /\ To(w) \in SwapWallets
        \/ \E account, potAfter : Call(w, Done(w), account, potAfter)
    BY <1>10, Zenon DEF Withdraw, WaitsForCredit, ledger, exchange, history
  <2>2. QED
    BY <1>1, <1>2, <1>3, <1>4, <1>5, <2>1, CallExplains, Zenon
<1>11. CASE ReadBefore(w)
  <2>1. work[w].pc = "before" /\ UNCHANGED <<record, money, unclear>>
    BY <1>11, Zenon DEF ReadBefore, Ask, ledger, exchange, history
  <2>2. CASE \E k \in RefusalKinds : Fails(w, k)
    BY <1>2, <1>5, <2>1, <2>2, Zenon
  <2>3. CASE work' = [work EXCEPT ![w] = [work[w] EXCEPT !.pc = "credit",
                                                         !.before = pot[To(w)]]]
    <3>1. PICK y : work' = [work EXCEPT ![w] = [work[w] EXCEPT !.pc = "credit",
                                                               !.before = y]]
      BY <2>3, Zenon
    <3>2. /\ work'[w].pc = "credit" /\ work'[w].id = work[w].id
          /\ \A v \in TransferWorkers : v # w => work'[v] = work[v]
      BY <3>1, BalanceTurns, Zenon
    <3>3. To(w) \in SwapWallets /\ "credit" \notin Handling
      BY <1>3, <2>1, Zenon DEF ExcuseInv
    <3>4. To(w)' \in SwapWallets
      BY <2>1, <3>2, <3>3, Zenon DEF To
    <3>5. \A r \in Transfer : SameCounts(r)
      BY <2>1, Zenon DEF SameCounts
    <3>6. QED
      BY <2>1, <3>2, <3>3, <3>4, <3>5, SameRecordsGoOn, Zenon DEF Explains
  <2>4. QED
    BY <1>11, <2>2, <2>3, Zenon DEF ReadBefore, Ask
<1>12. CASE AwaitCredit(w)
  <2>1. work[w].pc = "credit" /\ UNCHANGED <<record, money, unclear>>
    BY <1>12, Zenon DEF AwaitCredit, Ask, ledger, exchange, history
  <2>2. \/ Goes(w, "forward") \/ (\E k \in FaultKinds : Fails(w, k))
    BY <1>2, <1>12, Zenon DEF AwaitCredit, Ask, WithPc, Goes
  <2>3. QED
    BY <1>3, <1>5, <1>6, <2>1, <2>2, Zenon
<1>13. CASE Forward(w)
  <2>1. \/ Fails(w, "temporary_exchange") /\ UNCHANGED <<record, money, unclear>>
        \/ \E account, potAfter : Call(w, Done(w), account, potAfter)
    BY <1>13, Zenon DEF Forward, ledger, exchange, history
  <2>2. QED
    BY <1>2, <1>4, <1>5, <2>1, Zenon
<1>14. QED
  BY <1>7, <1>8, <1>9, <1>10, <1>11, <1>12, <1>13, Zenon

(* What a worker's last update fails is excused; it leaves the rest known.  *)
LEMMA FinishExplains ==
    ASSUME CoreInv, ExcuseInv, NEW w \in TransferWorkers,
           work[w].pc \in Holding, NEW status \in {"success", "failed"},
           Finish(w, status), status = "failed" => work[w].pc \in Handling,
           UNCHANGED <<money, unclear>>
    PROVE  /\ RecordsGoOn
           /\ \A r \in Transfer : record'[r].status = "failed" =>
                 record[r].status = "failed" \/ (r = work[w].id /\ Excused(r)')
<1>1. RecordsGoOn
  BY FinishGoesOn, Zenon
<1>2. ASSUME NEW r \in Transfer, record'[r].status = "failed"
      PROVE  record[r].status = "failed" \/ (r = work[w].id /\ Excused(r)')
  <2>1. CASE r # work[w].id
    BY <1>2, <2>1, FinishMarks, Zenon DEF Marked
  <2>2. CASE r = work[w].id
    <3>1. record'[r].status \in {status, "deleted"}
      BY <2>2, FinishMarks, Zenon DEF Marked
    <3>2. status = "failed"
      BY <1>2, <3>1
    <3>3. Known(r) /\ Excused(r)
      BY <2>2, <3>2, HeldExcuse, Zenon
    <3>4. SameCounts(r)
      BY Zenon DEF SameCounts
    <3>5. QED
      BY <1>1, <2>2, <3>3, <3>4, ExcuseLasts, Zenon
  <2>3. QED
    BY <2>1, <2>2, Zenon
<1>3. QED
  BY <1>1, <1>2, Zenon

(* A worker goes on within the handling of a failure.                       *)
LEMMA HandlingGoes ==
    ASSUME CoreInv, ExcuseInv, NEW w \in TransferWorkers, work[w].pc \in Handling,
           NEW pc \in {"fail_status", "oops_read", "oops_status"}, Goes(w, pc),
           UNCHANGED <<record, money, unclear>>
    PROVE  Explains(w)
<1>1. pc \in WorkSteps /\ pc \notin AfterOut /\ work[w].pc \in Holding
  BY FailSteps, HoldingInSteps, HandlingHolds, Zenon
<1>2. Becomes(w, pc, work[w].id, work[w].kind, work[w].seen)
  BY <1>1, CoreFacts, WorkPc, Zenon DEF Goes
<1>3. QED
  BY <1>1, <1>2, TurnExplains, Zenon

(* Every step of a worker explains itself.                                  *)
LEMMA WorkerExplainsMoney ==
    ASSUME CoreInv, SideInv, ExcuseInv, NEW w \in TransferWorkers,
           WorkerStep(w) \/ WorkerDies(w)
    PROVE  Explains(w)
<1>1. ASSUME NEW pc \in {"idle", "scan", "load"} \cup AfterStatus,
             NEW id, NEW kind, NEW seen, Becomes(w, pc, id, kind, seen),
             UNCHANGED <<record, money, unclear>>
      PROVE  Explains(w)
  BY <1>1, SameRecordsGoOn, LeaveExplains, Zenon
<1>2. ASSUME Abandons(w) PROVE Explains(w)
  <2>1. work' = [work EXCEPT ![w] = IdleWork] /\ UNCHANGED <<record, money, unclear>>
    BY <1>2, Zenon DEF Abandons, exchange
  <2>2. QED
    BY <1>1, <2>1, IdleLeaves, Zenon
<1>3. CASE Scan(w)
  <2>1. /\ work' = [work EXCEPT ![w] = [work[w] EXCEPT !.pc = "scan",
                       !.todo = {r \in Transfer : record[r].status = "pending"}]]
        /\ UNCHANGED <<record, money, unclear>>
    BY <1>3, Zenon DEF Scan, ledger, exchange, history
  <2> DEFINE seen == {r \in Transfer : record[r].status = "pending"}
  <2>2. seen \in TodoSets /\ "scan" \in WorkSteps
    BY PendingIsTransfer DEF WorkSteps
  <2> HIDE DEF seen
  <2>3. Becomes(w, "scan", work[w].id, work[w].kind, work[w].seen)
    BY <2>1, <2>2, CoreFacts, WorkPcTodo, Zenon DEF seen
  <2>4. QED
    BY <1>1, <2>1, <2>3, Zenon
<1>4. CASE Claim(w)
  <2>1. PICK r \in work[w].todo : TakeUp(w, r)
    BY <1>4, Zenon DEF Claim
  <2>2. UNCHANGED <<money, unclear>>
    BY <1>4, Zenon DEF Claim, exchange, history
  <2>3. RecordsGoOn
    <3>1. ~ReadBlamed(w) /\ ~WriteBlamed(w)
      BY <1>4, SMT DEF Claim, ReadBlamed, WriteBlamed
    <3>2. WorkerStep(w)
      BY <1>4, Zenon DEF WorkerStep
    <3>3. QED
      BY <3>1, <3>2, WorkerOn, Zenon
  <2>4. /\ r \in Transfer /\ r \in IdsOrNone /\ work[w].todo \ {r} \in TodoSets
        /\ work \in [TransferWorkers -> WorkStates]
        /\ record \in [Transfer -> RecordStates]
    <3>1. work[w].todo \subseteq Transfer /\ work \in [TransferWorkers -> WorkStates]
      BY CoreFacts, Zenon
    <3>2. record \in [Transfer -> RecordStates]
      BY Zenon DEF CoreInv, CoreTypes
    <3>3. QED
      BY <3>1, <3>2, SMT DEF IdsOrNone, TodoSets
  <2>5. CASE MayClaim(r)
    <3>1. record' = [record EXCEPT ![r] = [record[r] EXCEPT !.status = "executing"]]
      BY <2>1, <2>5, Zenon DEF TakeUp
    <3>2. work' = [work EXCEPT ![w] = [work[w] EXCEPT !.pc = "load", !.id = r,
                                              !.todo = work[w].todo \ {r}]]
      BY <2>1, <2>5, Zenon DEF TakeUp
    <3>3. "load" \in WorkSteps
      BY ExchangeStepsHold, SMT
    <3>4. Becomes(w, "load", r, work[w].kind, work[w].seen)
      BY <2>4, <3>2, <3>3, WorkPcIdTodo, Zenon
    <3>5. Marked(r, "executing") /\ "executing" # "failed"
      BY <2>4, <3>1, StatusKinds, StatusMarked, Zenon
    <3>6. \A s \in Transfer : record'[s].status = "failed" => record[s].status = "failed"
      BY <3>5, Zenon DEF Marked
    <3>7. QED
      BY <2>2, <2>3, <3>4, <3>6, LeaveExplains, Zenon
  <2>6. CASE ~MayClaim(r)
    <3>1. /\ UNCHANGED record
          /\ work' = [work EXCEPT ![w] = [work[w] EXCEPT !.todo = work[w].todo \ {r}]]
      BY <2>1, <2>6, Zenon DEF TakeUp
    <3>2. work[w].pc = "scan"
      BY <1>4, Zenon DEF Claim
    <3>3. Becomes(w, "scan", work[w].id, work[w].kind, work[w].seen)
      BY <2>4, <3>1, <3>2, WorkTodo, Zenon
    <3>4. QED
      BY <1>1, <2>2, <3>1, <3>3, Zenon
  <2>7. QED
    BY <2>5, <2>6, Zenon
<1>5. CASE EndPass(w)
  <2>1. /\ work' = [work EXCEPT ![w] = [work[w] EXCEPT !.pc = "idle"]]
        /\ UNCHANGED <<record, money, unclear>>
    BY <1>5, Zenon DEF EndPass, Goes, ledger, exchange, history
  <2>2. "idle" \in WorkSteps
    BY DEF WorkSteps
  <2>3. Becomes(w, "idle", work[w].id, work[w].kind, work[w].seen)
    BY <2>1, <2>2, CoreFacts, WorkPc, Zenon
  <2>4. QED
    BY <1>1, <2>1, <2>3, Zenon
<1>6. CASE Load(w)
  <2>1. work[w].pc \in ExchangeSteps /\ work[w].pc \in Holding
    BY <1>6, ExchangeStepsHold, SMT DEF Load, ExchangeSteps
  <2>2. \/ Abandons(w)
        \/ (NextRecord(w) \/ Route(w)) /\ UNCHANGED <<record, money, unclear>>
    BY <1>6, Zenon DEF Load, exchange, history
  <2>3. ASSUME NextRecord(w), UNCHANGED <<record, money, unclear>> PROVE Explains(w)
    BY <1>1, <2>3, NextRecordLeaves, Zenon
  <2>4. ASSUME NEW k \in FaultKinds, Fails(w, k), UNCHANGED <<record, money, unclear>>
        PROVE  Explains(w)
    BY <2>1, <2>4, FailsExplain, Zenon
  <2>5. ASSUME NEW pc \in {"internal", "inner", "resolve"}, Goes(w, pc),
               UNCHANGED <<record, money, unclear>>
        PROVE  Explains(w)
    <3>1. pc \in Holding /\ pc \notin Handling /\ pc \notin AfterOut
      BY ExchangeStepsHold, HandlingHolds, Zenon
    <3>2. QED
      BY <2>1, <2>5, <3>1, GoesExplains, Zenon
  <2>6. QED
    BY <1>2, <2>2, <2>3, <2>4, <2>5, RouteTurns, Zenon
<1>7. CASE \/ InternalTransfer(w) \/ MoveToWithdrawal(w) \/ ResolveDestination(w)
           \/ Withdraw(w) \/ ReadBefore(w) \/ AwaitCredit(w) \/ Forward(w)
  BY <1>7, ExchangeExplains, Zenon
<1>8. ASSUME DatabaseBreaks(w), UNCHANGED <<record, money>>, work[w].pc \in Holding
      PROVE  Explains(w)
  <2>1. RefusalKinds \cup {"temporary_exchange"} \subseteq FaultKinds
    BY RefusalAssumption, SMT DEF FaultKinds, PassingFaults
  <2>2. PICK k \in FaultKinds : Breaks(w, k)
    BY <1>8, <2>1, Zenon DEF DatabaseBreaks
  <2>3. PICK pc \in {"oops_persist", "oops_read", "oops_status"} :
           Becomes(w, pc, work[w].id, k, work[w].seen)
    BY <2>2, BreaksTurns, Zenon
  <2>4. work[w].id \in unclear' /\ unclear \subseteq unclear'
    BY <1>8, Zenon DEF DatabaseBreaks
  <2>5. pc \notin AfterOut
    BY SMT DEF AfterOut
  <2>6. QED
    BY <1>8, <2>3, <2>4, <2>5, TurnExplains, Zenon
<1>9. ASSUME NEW pc \in SuccessSteps, Goes(w, pc), work[w].pc \in Holding,
             UNCHANGED <<record, money, unclear>>
      PROVE  Explains(w)
  <2>1. pc \in Holding /\ pc \notin Handling /\ pc \notin AfterOut
    BY SuccessStepsHold, HandlingHolds, Zenon
  <2>2. QED
    BY <1>9, <2>1, GoesExplains, Zenon
<1>10. CASE PersistDestination(w)
  <2>1. work[w].pc \in Holding /\ UNCHANGED <<record, money>>
    <3>1. work[w].pc = "persist" /\ UNCHANGED <<record, money>>
      BY <1>10, Zenon DEF PersistDestination, ledger, exchange
    <3>2. QED
      BY <3>1, ExchangeStepsHold, SMT
  <2>2. \/ DatabaseBreaks(w)
        \/ UNCHANGED unclear /\ \E pc \in {"clear_from", "succeed"} : Goes(w, pc)
    BY <1>10, Zenon DEF PersistDestination
  <2>3. QED
    BY <1>8, <1>9, <2>1, <2>2, SuccessStepsHold, Zenon
<1>11. CASE ClearAfterSuccess(w)
  <2>1. work[w].pc \in {"clear_from", "clear_to"}
    BY <1>11, SMT DEF ClearAfterSuccess
  <2>2. work[w].pc \in Holding
    BY <2>1, ExchangeStepsHold, SMT
  <2>3. /\ UNCHANGED <<record, money, unclear>>
        /\ \E pc \in {"clear_to", "succeed"} : Goes(w, pc)
    BY <1>11, Zenon DEF ClearAfterSuccess, ledger, exchange, history
  <2>4. QED
    BY <1>9, <2>2, <2>3, SuccessStepsHold, Zenon
<1>12. CASE Succeed(w)
  <2>1. work[w].pc \in Holding
    BY <1>12, ExchangeStepsHold, SMT DEF Succeed
  <2>2. UNCHANGED money
    BY <1>12, Zenon DEF Succeed, exchange
  <2>3. CASE Finish(w, "success") /\ NextRecord(w) /\ UNCHANGED unclear
    <3>1. "success" # "failed"
      OBVIOUS
    <3>2. /\ RecordsGoOn
          /\ \A r \in Transfer : record'[r].status = "failed" =>
                record[r].status = "failed" \/ (r = work[w].id /\ Excused(r)')
      BY <2>1, <2>2, <2>3, <3>1, FinishExplains, Zenon
    <3>3. QED
      BY <2>2, <2>3, <3>2, NextRecordLeaves, LeaveExplains, Zenon
  <2>4. CASE DatabaseBreaks(w) /\ UNCHANGED record
    BY <1>8, <2>1, <2>2, <2>4, Zenon
  <2>5. QED
    BY <1>12, <2>3, <2>4, Zenon DEF Succeed
<1>13. CASE PersistAfterFailure(w)
  <2>1. work[w].pc \in Handling
    BY <1>13, SMT DEF PersistAfterFailure, Handling
  <2>2. \/ Abandons(w)
        \/ /\ UNCHANGED <<record, money, unclear>>
           /\ \E pc \in {"fail_status", "oops_read", "oops_status"} : Goes(w, pc)
    BY <1>13, Zenon DEF PersistAfterFailure, exchange, history
  <2>3. QED
    BY <1>2, <2>1, <2>2, HandlingGoes, Zenon
<1>14. CASE WriteFailed(w)
  <2>1. work[w].pc \in Handling /\ work[w].pc \in Holding
    BY <1>14, FailSteps, SMT DEF WriteFailed, Handling
  <2>2. CASE Abandons(w)
    BY <1>2, <2>2
  <2>3. CASE /\ Finish(w, "failed") /\ UNCHANGED <<money, unclear>>
             /\ Goes(w, "guard_read") \/ NextRecord(w)
    <3>1. /\ RecordsGoOn
          /\ \A r \in Transfer : record'[r].status = "failed" =>
                record[r].status = "failed" \/ (r = work[w].id /\ Excused(r)')
      BY <2>1, <2>3, FinishExplains, Zenon
    <3>2. CASE NextRecord(w)
      BY <2>3, <3>1, <3>2, NextRecordLeaves, LeaveExplains, Zenon
    <3>3. CASE Goes(w, "guard_read")
      <4>1. "guard_read" \in WorkSteps /\ "guard_read" \in AfterStatus
        BY HoldingInSteps, AfterSteps, SMT
      <4>2. Becomes(w, "guard_read", work[w].id, work[w].kind, work[w].seen)
        BY <3>3, <4>1, CoreFacts, WorkPc, Zenon DEF Goes
      <4>3. QED
        BY <2>3, <3>1, <4>1, <4>2, LeaveExplains, Zenon
    <3>4. QED
      BY <2>3, <3>2, <3>3, Zenon
  <2>4. QED
    BY <1>14, <2>2, <2>3, Zenon DEF WriteFailed, exchange, history
<1>15. CASE ReadBlamed(w)
  <2>1. UNCHANGED <<record, money, unclear>>
    BY <1>15, Zenon DEF ReadBlamed, ledger, exchange
  <2>2. guard \in [Wallets -> GuardStates]
    BY SideFacts, Zenon
  <2>3. PICK seen :
           \/ Becomes(w, "guard_write", work[w].id, work[w].kind, seen)
           \/ /\ work[w].pc = "oops_read"
              /\ Becomes(w, "oops_write", work[w].id, work[w].kind, seen)
    BY <1>15, <2>2, SeenTurns, Zenon
  <2>4. CASE Becomes(w, "guard_write", work[w].id, work[w].kind, seen)
    BY <1>1, <2>1, <2>4, AfterSteps, Zenon
  <2>5. CASE /\ work[w].pc = "oops_read"
             /\ Becomes(w, "oops_write", work[w].id, work[w].kind, seen)
    <3>1. work[w].pc \in Handling /\ work[w].pc \in Holding
      BY <2>5, FailSteps, SMT DEF Handling
    <3>2. "oops_write" \notin AfterOut
      BY DEF AfterOut
    <3>3. QED
      BY <2>1, <2>5, <3>1, <3>2, TurnExplains, Zenon
  <2>6. QED
    BY <2>3, <2>4, <2>5, Zenon
<1>16. CASE WriteBlamed(w)
  <2>1. UNCHANGED <<record, money, unclear>>
    BY <1>16, Zenon DEF WriteBlamed, ledger, exchange, history
  <2>2. CASE NextRecord(w)
    BY <1>1, <2>1, <2>2, NextRecordLeaves, Zenon
  <2>3. CASE work[w].pc = "oops_write" /\ Goes(w, "oops_status")
    <3>1. work[w].pc \in Handling
      BY <2>3 DEF Handling
    <3>2. QED
      BY <2>1, <2>3, <3>1, HandlingGoes, Zenon
  <2>4. NextRecord(w) \/ (work[w].pc = "oops_write" /\ Goes(w, "oops_status"))
    BY <1>16, SMT DEF WriteBlamed
  <2>5. QED
    BY <2>2, <2>3, <2>4, Zenon
<1>17. CASE WorkerDies(w)
  <2>1. work' = [work EXCEPT ![w] = IdleWork] /\ UNCHANGED <<record, money, unclear>>
    BY <1>17, Zenon DEF WorkerDies, ledger, exchange
  <2>2. QED
    BY <1>1, <2>1, IdleLeaves, Zenon
<1>18. QED
  BY <1>3, <1>4, <1>5, <1>6, <1>7, <1>10, <1>11, <1>12, <1>13, <1>14, <1>15, <1>16,
     <1>17, Zenon DEF WorkerStep

(* Where workers stand still, counts stay and nothing fails, so does it.    *)
LEMMA StandingKeeps ==
    ASSUME CoreInv, ExcuseInv, RecordsGoOn, UNCHANGED <<work, unclear>>,
           \A r \in Transfer : SameCounts(r),
           \A r \in Transfer : record'[r].status = "failed" => record[r].status = "failed"
    PROVE  ExcuseInv'
<1>1. ASSUME NEW r \in Transfer, Known(r), Excused(r) PROVE Excused(r)'
  BY <1>1, ExcuseLasts, Zenon
<1>2. ASSUME NEW r \in Transfer, record'[r].status = "failed" PROVE Excused(r)'
  <2>1. record[r].status = "failed"
    BY <1>2, Zenon
  <2>2. Known(r) /\ Excused(r)
    BY <2>1, SMT DEF Known, ExcuseInv
  <2>3. QED
    BY <1>1, <2>2, Zenon
<1>3. ASSUME NEW w \in TransferWorkers, work[w].pc \in Handling
      PROVE  Excused(work[w].id)'
  <2>1. work[w].pc \in ExchangeSteps \cup Handling
    BY <1>3, Zenon
  <2>2. PICK r \in Transfer : r = work[w].id
    BY <2>1, HeldExcuse, Zenon
  <2>3. Known(r) /\ Excused(r)
    BY <2>1, <2>2, HeldExcuse, Zenon
  <2>4. Excused(r)'
    BY <1>1, <2>3, Zenon
  <2>5. QED
    BY <2>2, <2>4, Zenon DEF Excused
<1>4. ASSUME NEW w \in TransferWorkers, work[w].pc \in AfterOut
      PROVE  To(w)' \in SwapWallets
  <2>1. work[w].pc \in Holding /\ To(w) \in SwapWallets
    BY <1>4, HandlingHolds, Zenon DEF ExcuseInv
  <2>2. work[w].id \in Transfer /\ Known(work[w].id)
    BY <2>1, HeldFacts, HeldIsKnown, Zenon
  <2>3. QED
    BY <2>1, <2>2, Zenon DEF RecordsGoOn, To
<1>5. QED
  BY <1>2, <1>3, <1>4, Zenon DEF ExcuseInv

(* What is not a worker's step closes no record and moves no money on.      *)
LEMMA RestStands ==
    ASSUME CoreInv, SideInv,
           \/ \E c \in Creators : CreatorStep(c)
           \/ WebStep
           \/ \E r \in Transfer : Credit(r)
           \/ \E a \in Wallets : MonitorTests(a)
    PROVE  /\ UNCHANGED unclear /\ \A r \in Transfer : SameCounts(r)
           /\ \A r \in Transfer : record'[r].status = "failed" =>
                 record[r].status = "failed"
<1>1. ASSUME UNCHANGED <<record, money, unclear>>
      PROVE  /\ UNCHANGED unclear /\ \A r \in Transfer : SameCounts(r)
             /\ \A r \in Transfer : record'[r].status = "failed" =>
                   record[r].status = "failed"
  BY <1>1, Zenon DEF SameCounts
<1>2. ASSUME NEW a, NEW b, NEW by, Insert(a, b, by), lastId < MaxTransfers,
             UNCHANGED <<money, unclear>>
      PROVE  /\ UNCHANGED unclear /\ \A r \in Transfer : SameCounts(r)
             /\ \A r \in Transfer : record'[r].status = "failed" =>
                   record[r].status = "failed"
  <2>1. /\ record'[lastId + 1].status # "failed"
        /\ \A r \in Transfer : r # lastId + 1 => record'[r] = record[r]
    <3>1. record'[lastId + 1].status = "pending"
      BY <1>2, InsertOpens, Zenon
    <3>2. QED
      BY <1>2, <3>1, InsertOpens, Zenon
  <2>2. QED
    BY <1>2, <2>1, Zenon DEF SameCounts
<1>3. ASSUME NEW c \in Creators, CreatorStep(c)
      PROVE  \/ UNCHANGED <<record, money, unclear>>
             \/ /\ Insert(hand[c].from, hand[c].to, c) /\ lastId < MaxTransfers
                /\ UNCHANGED <<money, unclear>>
  <2>1. CASE \E a, b \in Wallets : PickPair(c, a, b)
    BY <2>1, Zenon DEF PickPair, ledger, exchange, history
  <2>2. CASE CheckOpen(c) \/ InsertAuto(c) \/ CreatorDies(c)
    BY <2>2, Zenon DEF CheckOpen, InsertAuto, CreatorDies, ledger, exchange, history
  <2>3. QED
    BY <1>3, <2>1, <2>2, Zenon DEF CreatorStep
<1>4. CASE WebStep
  <2>1. CASE \E a, b \in Wallets : ManualTransfer(a, b)
    <3>1. PICK a \in Wallets, b \in Wallets : ManualTransfer(a, b)
      BY <2>1, Zenon
    <3>2. /\ Insert(a, b, "manual") /\ lastId < MaxTransfers
          /\ UNCHANGED <<money, unclear>>
      BY <3>1, Zenon DEF ManualTransfer, exchange, history
    <3>3. QED
      BY <1>2, <3>2, Zenon
  <2>2. CASE \/ SetAutoTransfer \/ (\E a \in Wallets : EditRow(a)) \/ EditAddress
             \/ (\E a \in Wallets, t \in BOOLEAN : MarkTest(a, t)) \/ LookAtGuard
             \/ ClearGuard \/ (\E a \in Wallets : Unlock(a))
    <3>1. UNCHANGED <<record, money, unclear>>
      BY <2>2, Zenon DEF SetAutoTransfer, EditRow, EditAddress, MarkTest, LookAtGuard,
                         ClearGuard, Unlock, ledger, exchange, history
    <3>2. QED
      BY <1>1, <3>1, Zenon
  <2>3. CASE \E a \in Wallets : DeleteWallet(a)
    <3>1. PICK a \in Wallets : DeleteWallet(a)
      BY <2>3, Zenon
    <3>2. UNCHANGED <<money, unclear>>
      BY <3>1, Zenon DEF DeleteWallet, exchange, history
    <3>3. ASSUME NEW r \in Transfer, record'[r].status = "failed"
          PROVE  record[r].status = "failed"
      <4>1. record'[r] = IF record[r].status # "none"
                               /\ a \in {record[r].from, record[r].to}
                         THEN [record[r] EXCEPT !.status = "deleted"] ELSE record[r]
        BY <3>1, Zenon DEF DeleteWallet
      <4>2. record[r] \in RecordStates
        BY Zenon DEF CoreInv, CoreTypes
      <4>3. [record[r] EXCEPT !.status = "deleted"].status # "failed"
        BY <4>2, StatusKinds, RecordStatus, Zenon
      <4>4. QED
        BY <3>3, <4>1, <4>3, Zenon
    <3>4. QED
      BY <3>2, <3>3, Zenon DEF SameCounts
  <2>4. QED
    BY <1>4, <2>1, <2>2, <2>3, Zenon DEF WebStep
<1>5. CASE \E r \in Transfer : Credit(r)
  <2>1. PICK r \in Transfer : Credit(r)
    BY <1>5, Zenon
  <2>2. /\ money' = [money EXCEPT ![r] = [money[r] EXCEPT !.credited = TRUE]]
        /\ UNCHANGED <<record, unclear>>
    BY <2>1, Zenon DEF Credit, ledger, history
  <2>3. money \in [Transfer -> MoneyStates] /\ money[r] \in MoneyStates
    BY SMT DEF CoreInv, CoreTypes
  <2>4. /\ [money[r] EXCEPT !.credited = TRUE].out = money[r].out
        /\ [money[r] EXCEPT !.credited = TRUE].forward = money[r].forward
        /\ [money[r] EXCEPT !.credited = TRUE] \in MoneyStates
    BY <2>3, MoneyCredited, Zenon
  <2>5. /\ money'[r] = [money[r] EXCEPT !.credited = TRUE]
        /\ \A s \in Transfer : s # r => money'[s] = money[s]
    BY <2>2, <2>3, <2>4, Updated, Zenon
  <2>6. \A s \in Transfer : SameCounts(s)
    BY <2>4, <2>5, Zenon DEF SameCounts
  <2>7. QED
    BY <2>2, <2>6, Zenon
<1>6. CASE \E a \in Wallets : MonitorTests(a)
  <2>1. UNCHANGED <<record, money, unclear>>
    BY <1>6, Zenon DEF MonitorTests, exchange, history
  <2>2. QED
    BY <1>1, <2>1, Zenon
<1>7. QED
  BY <1>1, <1>2, <1>3, <1>4, <1>5, <1>6, Zenon

(* No step breaks ExcuseInv.                                                *)
LEMMA NextKeepsExcuse ==
    ASSUME AllInv, ExcuseInv, [TransferNext]_transferVars PROVE ExcuseInv'
<1>1. CoreInv /\ SideInv
  BY Zenon DEF AllInv
<1>2. CASE \E w \in TransferWorkers : WorkerStep(w) \/ WorkerDies(w)
  BY <1>1, <1>2, WorkerExplainsMoney, ExplainingKeeps, Zenon
<1>3. CASE \/ \E c \in Creators : CreatorStep(c)
           \/ WebStep
           \/ \E r \in Transfer : Credit(r)
           \/ \E a \in Wallets : MonitorTests(a)
  <2>1. RecordsGoOn /\ UNCHANGED work
    BY <1>1, <1>3, RestOn, Zenon
  <2>2. /\ UNCHANGED unclear /\ \A r \in Transfer : SameCounts(r)
        /\ \A r \in Transfer : record'[r].status = "failed" =>
              record[r].status = "failed"
    BY <1>1, <1>3, RestStands, Zenon
  <2>3. QED
    BY <1>1, <2>1, <2>2, StandingKeeps, Zenon
<1>4. CASE UNCHANGED transferVars
  <2>1. UNCHANGED <<record, work, money, unclear>>
    BY <1>4, Zenon DEF transferVars
  <2>2. \A r \in Transfer : SameCounts(r)
    BY <2>1, Zenon DEF SameCounts
  <2>3. QED
    BY <1>1, <2>1, <2>2, SameRecordsGoOn, StandingKeeps, Zenon
<1>5. QED
  BY <1>2, <1>3, <1>4, Zenon DEF TransferNext

(* At the start no record failed and no worker holds one.                   *)
LEMMA InitExcuse == ASSUME TransferInit PROVE ExcuseInv
<1>1. record = [r \in Transfer |-> Fresh]
  BY Zenon DEF TransferInit
<1>2. Fresh.status # "failed"
  BY DEF Fresh
<1>3. \A r \in Transfer : record[r].status # "failed"
  BY <1>1, <1>2, Zenon
<1>4. PICK s \in TransferScenes :
         work = [w \in TransferWorkers |-> IF w \in s.crew THEN IdleWork ELSE NoWork]
  BY Zenon DEF TransferInit
<1>5. /\ IdleWork.pc \notin Handling /\ IdleWork.pc \notin AfterOut
      /\ NoWork.pc \notin Handling /\ NoWork.pc \notin AfterOut
  BY SMT DEF IdleWork, NoWork, Unladen, Handling, AfterOut
<1>6. \A w \in TransferWorkers :
         work[w].pc \notin Handling /\ work[w].pc \notin AfterOut
  BY <1>4, <1>5, Zenon
<1>7. QED
  BY <1>3, <1>6, Zenon DEF ExcuseInv

(* A record that says failed did not move its money all the way, unless a   *)
(* reply was lost or the database broke after the exchange had answered:    *)
(* what is out waits at a swap account and was not moved on.                *)
THEOREM FailureExplained == TransferSpec => []FailureIsExplained
<1>1. TransferInit => ExcuseInv
  BY InitExcuse
<1>2. AllInv /\ ExcuseInv /\ [TransferNext]_transferVars => ExcuseInv'
  BY NextKeepsExcuse
<1>3. ExcuseInv => FailureIsExplained
  BY Zenon DEF ExcuseInv, FailureIsExplained, Excused
<1>4. QED
  BY <1>1, <1>2, <1>3, TransferInvariance, PTL DEF TransferSpec
=============================================================================
