---------------------------- MODULE AccountProofs ----------------------------
(***************************************************************************)
(* Proofs about Accounts, for any number of accounts, credentials, amounts *)
(* and faults: what the monitor and the requests leave in a row and in the *)
(* balance cache, however their writes interleave.                         *)
(***************************************************************************)
EXTENDS Accounts, WellFoundedInduction, TLAPS

RowStates == [life : {"unborn", "live", "deleted"}, key : Credentials,
              verdict : Verdicts, amount : Nat, ratio : 0 .. 100]

Visiting == {"fetch", "cache", "amount", "verdict"}
Answering == {"cache", "snapshot", "amount"}

AccountTypes ==
    /\ account \in [AccountIds -> RowStates]
    /\ cached \in [AccountIds -> Nat \cup {Absent}]
    /\ funds \in [AccountIds -> Nat]

(* A pass has accounts to do as long as it lasts.                           *)
PassTypes ==
    /\ pass = [pc |-> pass.pc, rows |-> pass.rows, todo |-> pass.todo,
               amount |-> pass.amount]
    /\ pass.todo \subseteq AccountIds /\ pass.amount \in Nat
    /\ \/ pass.pc \in Visiting /\ pass.todo # {}
       \/ pass.pc \in {"idle", "dead"} /\ pass.todo = {}
       \/ pass.pc = "prime" /\ \A a \in pass.todo : pass.rows[a].amount \in Nat

RequestTypes ==
    /\ request \in [pc : Answering \cup {"forget", "idle"}, id : Nat, amount : Nat]
    /\ request.pc # "idle" => request.id \in AccountIds
    /\ request.pc \in Answering => account[request.id].life = "live"

(* What a pass has read is as it was read, or has been overtaken.           *)
ReadsStand ==
    \A a \in pass.todo :
        /\ account[a].life # "unborn"
        /\ account[a].life = "deleted" => a \in outrun
        /\ account[a].key = pass.rows[a].key \/ a \in outrun

(* Somebody is between the two writes that bring cache and row together.    *)
Meanwhile(a) ==
    \/ pass.pc \in {"cache", "amount"} /\ a = Current
    \/ pass.pc = "prime" /\ a \in pass.todo
    \/ request.pc = "cache" /\ request.id = a

SameAmounts ==
    pass.pc # "dead" =>
        \A a \in Live \ crossed : ~Meanwhile(a) => cached[a] \in {Absent, account[a].amount}

(* The second write brings what the first did.                              *)
VisitGoesOn ==
    pass.pc = "amount" /\ Current \in Live \ crossed =>
        cached[Current] \in {Absent, pass.amount}

(* The rows read at the start are the rows, or have been overtaken.         *)
PrimeGoesOn ==
    pass.pc = "prime" => \A a \in pass.todo \ crossed :
        account[a].life = "live" => pass.rows[a].amount = account[a].amount

AnswerGoesOn ==
    request.pc = "cache" =>
        /\ request.id \in crossed \/ request.amount = account[request.id].amount
        /\ pass.pc \in {"cache", "amount", "verdict"} /\ request.id = Current =>
              request.id \in crossed

AccountInv ==
    /\ AccountTypes /\ PassTypes /\ RequestTypes /\ ReadsStand
    /\ VerdictIsEarned /\ CacheFollowsRows
    /\ SameAmounts /\ VisitGoesOn /\ PrimeGoesOn /\ AnswerGoesOn

-----------------------------------------------------------------------------
(* The account a pass is at, and rows with another field.                   *)

(* A set of natural numbers has a least one.                                *)
LEMMA LeastNumber ==
    ASSUME NEW S \in SUBSET Nat, S # {}
    PROVE  Min(S) \in S
<1>1. IsWellFoundedOn(OpToRel(<, Nat), Nat)
  BY NatLessThanWellFounded
<1>2. PICK x \in S : \A y \in S : ~(<<y, x>> \in OpToRel(<, Nat))
  BY <1>1, WFMin, Zenon
<1>3. \A y \in S : ~(y < x)
  BY <1>2 DEF OpToRel
<1>4. \A y \in S : x =< y
  BY <1>3
<1>5. QED
  BY <1>4 DEF Min

(* A pass that is under way is at one of the accounts it has to do.         *)
LEMMA AtAccount ==
    ASSUME AccountInv, pass.pc \in Visiting
    PROVE  Current \in pass.todo /\ Current \in AccountIds
<1>1. pass.todo \subseteq AccountIds /\ pass.todo # {}
  BY DEF AccountInv, PassTypes, Visiting
<1>2. QED
  BY <1>1, LeastNumber, AccountIdAssumption DEF Current

(* A row with another amount, verdict, key, ratio or life is a row.         *)
LEMMA RowAmount ==
    ASSUME NEW p \in RowStates, NEW m \in Nat
    PROVE  /\ [p EXCEPT !.amount = m] \in RowStates
           /\ [p EXCEPT !.amount = m].amount = m
           /\ [p EXCEPT !.amount = m].life = p.life
           /\ [p EXCEPT !.amount = m].key = p.key
           /\ [p EXCEPT !.amount = m].verdict = p.verdict
  BY DEF RowStates

(* A row with another verdict is a row, and nothing else of it changes.     *)
LEMMA RowVerdict ==
    ASSUME NEW p \in RowStates, NEW v \in Verdicts
    PROVE  /\ [p EXCEPT !.verdict = v] \in RowStates
           /\ [p EXCEPT !.verdict = v].amount = p.amount
           /\ [p EXCEPT !.verdict = v].life = p.life
           /\ [p EXCEPT !.verdict = v].key = p.key
           /\ [p EXCEPT !.verdict = v].verdict = v
  BY DEF RowStates

(* A row with another credential is a row.                                  *)
LEMMA RowKey ==
    ASSUME NEW p \in RowStates, NEW k \in Credentials
    PROVE  /\ [p EXCEPT !.key = k] \in RowStates
           /\ [p EXCEPT !.key = k].amount = p.amount
           /\ [p EXCEPT !.key = k].life = p.life
  BY DEF RowStates

(* A row with another ratio is a row.                                       *)
LEMMA RowRatio ==
    ASSUME NEW p \in RowStates, NEW r \in 0 .. 100
    PROVE  /\ [p EXCEPT !.ratio = r] \in RowStates
           /\ [p EXCEPT !.ratio = r].amount = p.amount
           /\ [p EXCEPT !.ratio = r].life = p.life
           /\ [p EXCEPT !.ratio = r].key = p.key
           /\ [p EXCEPT !.ratio = r].verdict = p.verdict
  BY DEF RowStates

(* A row that is deleted is a row.                                          *)
LEMMA RowLife ==
    ASSUME NEW p \in RowStates
    PROVE  /\ [p EXCEPT !.life = "deleted"] \in RowStates
           /\ [p EXCEPT !.life = "deleted"].amount = p.amount
           /\ [p EXCEPT !.life = "deleted"].life = "deleted"
           /\ [p EXCEPT !.life = "deleted"].key = p.key
           /\ [p EXCEPT !.life = "deleted"].verdict = p.verdict
  BY DEF RowStates

(* A new row.                                                               *)
LEMMA NewRow ==
    ASSUME NEW k \in Credentials, NEW v \in Verdicts
    PROVE  [life |-> "live", key |-> k, verdict |-> v, amount |-> 0, ratio |-> 0] \in RowStates
  BY DEF RowStates

(* One row is replaced, by one of its type.                                 *)
LEMMA RowReplaced ==
    ASSUME AccountInv, NEW a \in AccountIds, NEW new \in RowStates,
           account' = [account EXCEPT ![a] = new]
    PROVE  /\ account' \in [AccountIds -> RowStates] /\ account'[a] = new
           /\ \A b \in AccountIds : b # a => account'[b] = account[b]
  BY DEF AccountInv, AccountTypes

(* One cached balance is.                                                   *)
LEMMA BalanceReplaced ==
    ASSUME AccountInv, NEW a \in AccountIds, NEW m \in Nat \cup {Absent},
           cached' = [cached EXCEPT ![a] = m]
    PROVE  /\ cached' \in [AccountIds -> Nat \cup {Absent}] /\ cached'[a] = m
           /\ \A b \in AccountIds : b # a => cached'[b] = cached[b]
  BY DEF AccountInv, AccountTypes

(* The rows, the balances and the request have their types.                 *)
LEMMA AccountFields ==
    ASSUME AccountInv
    PROVE  /\ \A a \in AccountIds :
                 /\ account[a] \in RowStates /\ account[a].amount \in Nat
                 /\ account[a].life \in {"unborn", "live", "deleted"}
                 /\ funds[a] \in Nat /\ cached[a] \in Nat \cup {Absent}
           /\ pass.amount \in Nat /\ request.amount \in Nat /\ request.id \in Nat
           /\ request.pc \in Answering \cup {"forget", "idle"}
           /\ request.pc # "idle" => request.id \in AccountIds
<1>1. \A a \in AccountIds : /\ account[a] \in RowStates /\ funds[a] \in Nat
                            /\ cached[a] \in Nat \cup {Absent}
  BY DEF AccountInv, AccountTypes
<1>2. \A p \in RowStates : p.amount \in Nat /\ p.life \in {"unborn", "live", "deleted"}
  BY DEF RowStates
<1>3. pass.amount \in Nat /\ request.amount \in Nat /\ request.id \in Nat
      /\ request.pc \in Answering \cup {"forget", "idle"}
      /\ (request.pc # "idle" => request.id \in AccountIds)
  BY DEF AccountInv, PassTypes, RequestTypes
<1>4. QED
  BY <1>1, <1>2, <1>3

(* A request begins, or changes its step and perhaps its amount.            *)
LEMMA RequestChanged ==
    ASSUME AccountInv, NEW p, NEW m
    PROVE  /\ [request EXCEPT !.pc = p]
              = [pc |-> p, id |-> request.id, amount |-> request.amount]
           /\ [request EXCEPT !.pc = p, !.amount = m]
              = [pc |-> p, id |-> request.id, amount |-> m]
           /\ \A i : [NoRequest EXCEPT !.pc = p, !.id = i]
                     = [pc |-> p, id |-> i, amount |-> 0]
<1>1. PICK r : r = request /\ r = [pc |-> r.pc, id |-> r.id, amount |-> r.amount]
  BY DEF AccountInv, RequestTypes
<1>2. [r EXCEPT !.pc = p] = [pc |-> p, id |-> r.id, amount |-> r.amount]
  BY <1>1
<1>3. [r EXCEPT !.pc = p, !.amount = m] = [pc |-> p, id |-> r.id, amount |-> m]
  <2>1. PICK x : x = [pc |-> p, id |-> r.id, amount |-> r.amount]
    OBVIOUS
  <2>2. [x EXCEPT !.amount = m] = [pc |-> p, id |-> r.id, amount |-> m]
    BY <2>1
  <2>3. [r EXCEPT !.pc = p, !.amount = m] = [[r EXCEPT !.pc = p] EXCEPT !.amount = m]
    BY Zenon
  <2>4. QED
    BY <1>2, <2>1, <2>2, <2>3, Zenon
<1>4. ASSUME NEW i
      PROVE  [NoRequest EXCEPT !.pc = p, !.id = i] = [pc |-> p, id |-> i, amount |-> 0]
  <2>1. PICK x : x = [pc |-> p, id |-> 0, amount |-> 0]
    OBVIOUS
  <2>2. [NoRequest EXCEPT !.pc = p] = x
    BY <2>1 DEF NoRequest
  <2>3. [x EXCEPT !.id = i] = [pc |-> p, id |-> i, amount |-> 0]
    BY <2>1
  <2>4. [NoRequest EXCEPT !.pc = p, !.id = i] = [[NoRequest EXCEPT !.pc = p] EXCEPT !.id = i]
    BY Zenon
  <2>5. QED
    BY <2>2, <2>3, <2>4, Zenon
<1>5. QED
  BY <1>1, <1>2, <1>3, <1>4, Zenon

(* A pass changes its step, its amount, or what it has to do.               *)
LEMMA PassChanged ==
    ASSUME AccountInv, NEW p, NEW m, NEW T
    PROVE  /\ [pass EXCEPT !.pc = p]
              = [pc |-> p, rows |-> pass.rows, todo |-> pass.todo, amount |-> pass.amount]
           /\ [pass EXCEPT !.pc = p, !.amount = m]
              = [pc |-> p, rows |-> pass.rows, todo |-> pass.todo, amount |-> m]
           /\ [pass EXCEPT !.pc = p, !.todo = T]
              = [pc |-> p, rows |-> pass.rows, todo |-> T, amount |-> pass.amount]
<1>1. PICK r : r = pass /\ r = [pc |-> r.pc, rows |-> r.rows, todo |-> r.todo,
                               amount |-> r.amount]
  BY DEF AccountInv, PassTypes
<1>2. PICK x : x = [pc |-> p, rows |-> r.rows, todo |-> r.todo, amount |-> r.amount]
  OBVIOUS
<1>3. [r EXCEPT !.pc = p] = x
  BY <1>1, <1>2
<1>4. /\ [x EXCEPT !.amount = m] = [pc |-> p, rows |-> r.rows, todo |-> r.todo, amount |-> m]
      /\ [x EXCEPT !.todo = T] = [pc |-> p, rows |-> r.rows, todo |-> T, amount |-> r.amount]
  BY <1>2
<1>5. /\ [r EXCEPT !.pc = p, !.amount = m] = [[r EXCEPT !.pc = p] EXCEPT !.amount = m]
      /\ [r EXCEPT !.pc = p, !.todo = T] = [[r EXCEPT !.pc = p] EXCEPT !.todo = T]
  BY Zenon
<1>6. QED
  BY <1>1, <1>2, <1>3, <1>4, <1>5, Zenon

-----------------------------------------------------------------------------
(* Initially.                                                               *)

(* Nothing is cached, nothing under way.                                    *)
LEMMA AccountInitially == AccountInit => AccountInv
<1> SUFFICES ASSUME AccountInit PROVE AccountInv
  OBVIOUS
<1>1. PICK z \in AccountScenes : account = z.account /\ funds = z.funds
  BY DEF AccountInit
<1>2. z.account \in [AccountIds -> AccountRows] /\ z.funds \in [AccountIds -> Amounts]
  BY <1>1, AccountSceneAssumption
<1>3. AccountRows \subseteq RowStates /\ Amounts \subseteq Nat
  BY AmountAssumption, RatioAssumption DEF AccountRows, RowStates
<1>4. /\ cached = [a \in AccountIds |-> Absent] /\ pass = NoPass /\ request = NoRequest
      /\ proven = {a \in AccountIds : account[a].verdict = "success"}
  BY DEF AccountInit
<1>5. AccountTypes
  BY <1>1, <1>2, <1>3, <1>4 DEF AccountTypes
<1>6. pass.pc = "idle" /\ pass.todo = {} /\ request.pc = "idle"
  BY <1>4 DEF NoPass, NoRequest
<1>7. PassTypes /\ RequestTypes
  BY <1>4 DEF PassTypes, RequestTypes, NoPass, NoRequest, Answering
<1>8. QED
  BY <1>4, <1>5, <1>6, <1>7
     DEF AccountInv, ReadsStand, VerdictIsEarned, CacheFollowsRows, SameAmounts,
         VisitGoesOn, PrimeGoesOn, AnswerGoesOn, Live

-----------------------------------------------------------------------------
(* The steps of the monitor.                                                *)

(* What the monitor's own steps leave alone.                                *)
LEMMA RowsStandStill ==
    ASSUME AccountInv, UNCHANGED <<account, cached, funds, request, proven, outrun, unforgotten>>
    PROVE  AccountTypes' /\ RequestTypes' /\ VerdictIsEarned' /\ CacheFollowsRows'
           /\ Live' = Live
<1>1. AccountTypes' /\ RequestTypes' /\ Live' = Live
  BY DEF AccountInv, AccountTypes, RequestTypes, Live
<1>2. VerdictIsEarned'
  BY <1>1 DEF AccountInv, VerdictIsEarned
<1>3. CacheFollowsRows'
  BY DEF AccountInv, CacheFollowsRows, Requested
<1>4. QED
  BY <1>1, <1>2, <1>3

(* A pass begins with what the rows say.                                    *)
LEMMA BeginPassKeeps == ASSUME AccountInv, BeginPass PROVE AccountInv'
<1>1. /\ pass.pc = "idle" /\ Live # {}
      /\ pass' = [pc |-> "fetch", rows |-> account, todo |-> Live, amount |-> 0]
      /\ UNCHANGED <<account, cached, funds, request, proven, outrun, crossed, unforgotten>>
  BY DEF BeginPass, world, ghosts
<1>2. AccountTypes' /\ RequestTypes' /\ VerdictIsEarned' /\ CacheFollowsRows' /\ Live' = Live
  BY <1>1, RowsStandStill
<1>3. PassTypes'
  BY <1>1 DEF PassTypes, Visiting, Live
<1>4. ReadsStand'
  BY <1>1 DEF ReadsStand, Live
<1>5. SameAmounts'
  BY <1>1, <1>2 DEF AccountInv, SameAmounts, Meanwhile
<1>6. VisitGoesOn' /\ PrimeGoesOn' /\ AnswerGoesOn'
  BY <1>1 DEF AccountInv, VisitGoesOn, PrimeGoesOn, AnswerGoesOn
<1>7. QED
  BY <1>2, <1>3, <1>4, <1>5, <1>6 DEF AccountInv

(* A pass goes on within an account: its step and its amount change.        *)
LEMMA PassGoesOn ==
    ASSUME AccountInv, pass.pc \in Visiting, NEW p \in Visiting, NEW m \in Nat,
           pass' = [pc |-> p, rows |-> pass.rows, todo |-> pass.todo, amount |-> m]
    PROVE  /\ pass'.pc = p /\ pass'.amount = m /\ UNCHANGED Current
           /\ pass'.todo = pass.todo /\ pass'.rows = pass.rows /\ PassTypes'
<1>1. pass'.pc = p /\ pass'.amount = m /\ pass'.todo = pass.todo /\ pass'.rows = pass.rows
  OBVIOUS
<1>2. PassTypes'
  BY <1>1 DEF AccountInv, PassTypes, Visiting
<1>3. QED
  BY <1>1, <1>2 DEF Current

(* The balance is fetched: what somebody overtook before does not matter    *)
(* any more, unless a request is about to write.                            *)
LEMMA FetchBalanceKeeps == ASSUME AccountInv, FetchBalance PROVE AccountInv'
<1>1. /\ pass.pc = "fetch"
      /\ pass' = [pass EXCEPT !.pc = "cache", !.amount = funds[Current]]
      /\ crossed' = IF Requested(Current) THEN crossed \cup {Current}
                    ELSE crossed \ {Current}
      /\ UNCHANGED <<account, cached, funds, request, proven, outrun, unforgotten>>
  BY DEF FetchBalance, world
<1>2. Current \in AccountIds /\ funds[Current] \in Nat
  BY <1>1, AtAccount, AccountFields DEF Visiting
<1>3. pass' = [pc |-> "cache", rows |-> pass.rows, todo |-> pass.todo,
               amount |-> funds[Current]]
  BY <1>1, PassChanged
<1>4. /\ pass'.pc = "cache" /\ UNCHANGED Current
      /\ pass'.todo = pass.todo /\ pass'.rows = pass.rows /\ PassTypes'
  BY <1>1, <1>2, <1>3, PassGoesOn DEF Visiting
<1>5. AccountTypes' /\ RequestTypes' /\ VerdictIsEarned' /\ CacheFollowsRows' /\ Live' = Live
  BY <1>1, RowsStandStill
<1>6. ReadsStand'
  BY <1>1, <1>4 DEF AccountInv, ReadsStand
<1>7. SameAmounts'
  <2> SUFFICES ASSUME NEW a \in Live, a \notin crossed', ~Meanwhile(a)'
               PROVE  cached[a] \in {Absent, account[a].amount}
    BY <1>1, <1>5 DEF SameAmounts
  <2>1. a # Current /\ ~(request.pc = "cache" /\ request.id = a)
    BY <1>1, <1>4 DEF Meanwhile
  <2>2. a \notin crossed /\ ~Meanwhile(a)
    BY <1>1, <2>1 DEF Meanwhile
  <2>3. QED
    BY <1>1, <2>2 DEF AccountInv, SameAmounts
<1>8. VisitGoesOn' /\ PrimeGoesOn'
  BY <1>4 DEF VisitGoesOn, PrimeGoesOn
<1>9. AnswerGoesOn'
  <2> SUFFICES ASSUME request.pc = "cache"
               PROVE  /\ \/ request.id \in crossed'
                         \/ request.amount = account[request.id].amount
                      /\ request.id = Current => request.id \in crossed'
    BY <1>1, <1>4 DEF AnswerGoesOn
  <2>1. CASE request.id = Current
    BY <1>1, <2>1 DEF Requested
  <2>2. CASE request.id # Current
    BY <1>1, <2>2 DEF AccountInv, AnswerGoesOn
  <2>3. QED
    BY <2>1, <2>2
<1>10. QED
  BY <1>4, <1>5, <1>6, <1>7, <1>8, <1>9 DEF AccountInv

(* What the balance was goes to the cache.                                  *)
LEMMA CacheBalanceKeeps == ASSUME AccountInv, CacheBalance PROVE AccountInv'
<1>1. /\ pass.pc = "cache" /\ pass' = [pass EXCEPT !.pc = "amount"]
      /\ cached' = [cached EXCEPT ![Current] = pass.amount]
      /\ UNCHANGED <<account, funds, request, proven, outrun, crossed, unforgotten>>
  BY DEF CacheBalance, world, ghosts
<1>2. Current \in pass.todo /\ Current \in AccountIds /\ pass.amount \in Nat
  BY <1>1, AtAccount, AccountFields DEF Visiting
<1>3. pass' = [pc |-> "amount", rows |-> pass.rows, todo |-> pass.todo,
               amount |-> pass.amount]
  BY <1>1, PassChanged
<1>4. /\ pass'.pc = "amount" /\ UNCHANGED Current /\ pass'.amount = pass.amount
      /\ pass'.todo = pass.todo /\ pass'.rows = pass.rows /\ PassTypes'
  BY <1>1, <1>2, <1>3, PassGoesOn DEF Visiting
<1>5. /\ cached' \in [AccountIds -> Nat \cup {Absent}] /\ cached'[Current] = pass.amount
      /\ \A b \in AccountIds : b # Current => cached'[b] = cached[b]
  BY <1>1, <1>2, BalanceReplaced
<1>6. Live' = Live /\ \A a \in Live : a \in AccountIds
  BY <1>1 DEF Live
<1>7. AccountTypes' /\ RequestTypes' /\ ReadsStand'
  BY <1>1, <1>4, <1>5 DEF AccountInv, AccountTypes, RequestTypes, ReadsStand
<1>8. VerdictIsEarned'
  BY <1>1, <1>6 DEF AccountInv, VerdictIsEarned
<1>9. CacheFollowsRows'
  BY <1>1, <1>2, <1>5 DEF AccountInv, CacheFollowsRows, ReadsStand, Requested
<1>10. SameAmounts'
  BY <1>1, <1>4, <1>5, <1>6 DEF AccountInv, SameAmounts, Meanwhile
<1>11. VisitGoesOn' /\ PrimeGoesOn' /\ AnswerGoesOn'
  BY <1>1, <1>4, <1>5 DEF AccountInv, VisitGoesOn, PrimeGoesOn, AnswerGoesOn
<1>12. QED
  BY <1>4, <1>7, <1>8, <1>9, <1>10, <1>11 DEF AccountInv

(* Redis does not take it: then the account counts as crossed.              *)
LEMMA CacheWriteFailsKeeps == ASSUME AccountInv, CacheWriteFails PROVE AccountInv'
<1>1. /\ pass.pc = "cache" /\ pass' = [pass EXCEPT !.pc = "amount"]
      /\ crossed' = crossed \cup {Current}
      /\ UNCHANGED <<account, cached, funds, request, proven, outrun, unforgotten>>
  BY DEF CacheWriteFails, world
<1>2. pass.amount \in Nat
  BY AccountFields
<1>3. pass' = [pc |-> "amount", rows |-> pass.rows, todo |-> pass.todo,
               amount |-> pass.amount]
  BY <1>1, PassChanged
<1>4. /\ pass'.pc = "amount" /\ UNCHANGED Current
      /\ pass'.todo = pass.todo /\ pass'.rows = pass.rows /\ PassTypes'
  BY <1>1, <1>2, <1>3, PassGoesOn DEF Visiting
<1>5. AccountTypes' /\ RequestTypes' /\ VerdictIsEarned' /\ CacheFollowsRows' /\ Live' = Live
  BY <1>1, RowsStandStill
<1>6. ReadsStand'
  BY <1>1, <1>4 DEF AccountInv, ReadsStand
<1>7. SameAmounts' /\ VisitGoesOn' /\ PrimeGoesOn' /\ AnswerGoesOn'
  BY <1>1, <1>4, <1>5
     DEF AccountInv, SameAmounts, Meanwhile, VisitGoesOn, PrimeGoesOn, AnswerGoesOn
<1>8. QED
  BY <1>4, <1>5, <1>6, <1>7 DEF AccountInv

(* An error of the database ends the pass, the account crossed if it was    *)
(* the amount that was to be written.                                       *)
LEMMA RowWriteFailsKeeps == ASSUME AccountInv, RowWriteFails PROVE AccountInv'
<1>1. /\ pass.pc \in {"amount", "verdict"} /\ pass' = NoPass
      /\ crossed' = IF pass.pc = "amount" THEN crossed \cup {Current} ELSE crossed
      /\ UNCHANGED <<account, cached, funds, request, proven, outrun, unforgotten>>
  BY DEF RowWriteFails, world
<1>2. PassTypes' /\ pass'.pc = "idle" /\ pass'.todo = {}
  BY <1>1 DEF NoPass, PassTypes
<1>3. AccountTypes' /\ RequestTypes' /\ VerdictIsEarned' /\ CacheFollowsRows' /\ Live' = Live
  BY <1>1, RowsStandStill
<1>4. ReadsStand' /\ SameAmounts' /\ VisitGoesOn' /\ PrimeGoesOn' /\ AnswerGoesOn'
  BY <1>1, <1>2, <1>3
     DEF AccountInv, ReadsStand, SameAmounts, Meanwhile, VisitGoesOn, PrimeGoesOn,
         AnswerGoesOn
<1>5. QED
  BY <1>2, <1>3, <1>4 DEF AccountInv

(* An account is done.                                                      *)
LEMMA NextAccount ==
    ASSUME AccountInv, pass.pc \in Visiting, ToNextAccount
    PROVE  /\ PassTypes' /\ pass'.pc \in {"idle", "fetch"}
           /\ pass'.todo \subseteq pass.todo
           /\ \A a \in pass'.todo : pass'.rows = pass.rows
<1>1. pass' = IF pass.todo = {Current} THEN NoPass
              ELSE [pass EXCEPT !.pc = "fetch", !.todo = pass.todo \ {Current}]
  BY DEF ToNextAccount
<1>2. CASE pass.todo = {Current}
  BY <1>1, <1>2 DEF NoPass, PassTypes
<1>3. CASE pass.todo # {Current}
  <2>1. pass' = [pc |-> "fetch", rows |-> pass.rows, todo |-> pass.todo \ {Current},
                 amount |-> pass.amount]
    BY <1>1, <1>3, PassChanged
  <2>2. pass.todo \ {Current} # {}
    BY <1>3, AtAccount
  <2>3. QED
    BY <2>1, <2>2 DEF AccountInv, PassTypes, Visiting
<1>4. QED
  BY <1>2, <1>3

(* A fetch that fails, and a pass that is cut short.                        *)
LEMMA FetchFailsKeeps == ASSUME AccountInv, FetchFails PROVE AccountInv'
<1>1. /\ pass.pc = "fetch" /\ ToNextAccount
      /\ UNCHANGED <<account, cached, funds, request, proven, outrun, crossed, unforgotten>>
  BY DEF FetchFails, world, ghosts
<1>2. /\ PassTypes' /\ pass'.pc \in {"idle", "fetch"}
      /\ pass'.todo \subseteq pass.todo
      /\ \A a \in pass'.todo : pass'.rows = pass.rows
  BY <1>1, NextAccount DEF Visiting
<1>3. AccountTypes' /\ RequestTypes' /\ VerdictIsEarned' /\ CacheFollowsRows' /\ Live' = Live
  BY <1>1, RowsStandStill
<1>4. ReadsStand'
  BY <1>1, <1>2 DEF AccountInv, ReadsStand
<1>5. SameAmounts' /\ VisitGoesOn' /\ PrimeGoesOn' /\ AnswerGoesOn'
  BY <1>1, <1>2, <1>3 DEF AccountInv, SameAmounts, Meanwhile, VisitGoesOn, PrimeGoesOn, AnswerGoesOn
<1>6. QED
  BY <1>2, <1>3, <1>4, <1>5 DEF AccountInv

(* The monitor dies.                                                        *)
LEMMA MonitorDiesKeeps == ASSUME AccountInv, MonitorDies PROVE AccountInv'
<1>1. /\ pass' = [NoPass EXCEPT !.pc = "dead"]
      /\ UNCHANGED <<account, cached, funds, request, proven, outrun, crossed, unforgotten>>
  BY DEF MonitorDies, world, ghosts
<1>2. PassTypes' /\ pass'.pc = "dead" /\ pass'.todo = {}
  BY <1>1 DEF NoPass, PassTypes
<1>3. AccountTypes' /\ RequestTypes' /\ VerdictIsEarned' /\ CacheFollowsRows' /\ Live' = Live
  BY <1>1, RowsStandStill
<1>4. ReadsStand' /\ SameAmounts' /\ VisitGoesOn' /\ PrimeGoesOn' /\ AnswerGoesOn'
  BY <1>1, <1>2 DEF AccountInv, ReadsStand, SameAmounts, VisitGoesOn, PrimeGoesOn, AnswerGoesOn
<1>5. QED
  BY <1>2, <1>3, <1>4 DEF AccountInv

(* The worker process starts again, and reads the rows.                     *)
LEMMA ReadToPrimeKeeps == ASSUME AccountInv, ReadToPrime PROVE AccountInv'
<1>1. /\ pass.pc = "dead"
      /\ pass' = [pc |-> "prime", rows |-> account, todo |-> Live, amount |-> 0]
      /\ UNCHANGED <<account, cached, funds, request, proven, outrun, crossed, unforgotten>>
  BY DEF ReadToPrime, world, ghosts
<1>2. AccountTypes' /\ RequestTypes' /\ VerdictIsEarned' /\ CacheFollowsRows' /\ Live' = Live
  BY <1>1, RowsStandStill
<1>3. PassTypes' /\ ReadsStand'
  BY <1>1, AccountFields DEF PassTypes, ReadsStand, Live
<1>4. SameAmounts' /\ VisitGoesOn' /\ PrimeGoesOn'
  BY <1>1, <1>2 DEF SameAmounts, Meanwhile, VisitGoesOn, PrimeGoesOn
<1>5. AnswerGoesOn'
  BY <1>1 DEF AccountInv, AnswerGoesOn
<1>6. QED
  BY <1>2, <1>3, <1>4, <1>5 DEF AccountInv

(* The cache says what the rows did, where Redis takes it.                  *)
LEMMA PrimeKeeps ==
    ASSUME AccountInv, NEW lost \in SUBSET pass.todo, Prime(lost)
    PROVE  AccountInv'
<1>1. /\ pass.pc = "prime" /\ pass' = NoPass
      /\ cached' = [a \in AccountIds |-> IF a \in pass.todo \ lost
                                        THEN pass.rows[a].amount ELSE cached[a]]
      /\ crossed' = crossed \cup lost
      /\ UNCHANGED <<account, funds, request, proven, outrun, unforgotten>>
  BY DEF Prime, world
<1>2. PassTypes' /\ pass'.pc = "idle" /\ pass'.todo = {}
  BY <1>1 DEF NoPass, PassTypes
<1>3. Live' = Live /\ \A a \in Live : a \in AccountIds /\ account[a].life = "live"
  BY <1>1 DEF Live
<1>4. cached' \in [AccountIds -> Nat \cup {Absent}]
  <2>1. \A a \in pass.todo : pass.rows[a].amount \in Nat
    BY <1>1 DEF AccountInv, PassTypes, Visiting
  <2>2. \A a \in AccountIds : cached[a] \in Nat \cup {Absent}
    BY AccountFields
  <2>3. QED
    BY <1>1, <2>1, <2>2
<1>5. AccountTypes' /\ RequestTypes' /\ ReadsStand'
  BY <1>1, <1>2, <1>4 DEF AccountInv, AccountTypes, RequestTypes, ReadsStand
<1>6. VerdictIsEarned'
  BY <1>1, <1>3 DEF AccountInv, VerdictIsEarned
<1>7. CacheFollowsRows'
  <2> SUFFICES ASSUME NEW a \in AccountIds, account[a].life = "deleted", cached'[a] # Absent
               PROVE  Requested(a) \/ a \in outrun \cup unforgotten
    BY <1>1 DEF CacheFollowsRows, Requested
  <2>1. CASE a \in pass.todo
    BY <2>1 DEF AccountInv, ReadsStand
  <2>2. CASE a \notin pass.todo
    BY <1>1, <2>2 DEF AccountInv, CacheFollowsRows
  <2>3. QED
    BY <2>1, <2>2
<1>8. SameAmounts'
  <2> SUFFICES ASSUME NEW a \in Live, a \notin crossed, a \notin lost,
                      ~(request.pc = "cache" /\ request.id = a)
               PROVE  cached'[a] \in {Absent, account[a].amount}
    BY <1>1, <1>2, <1>3 DEF SameAmounts, Meanwhile
  <2>1. CASE a \in pass.todo
    BY <1>1, <1>3, <2>1 DEF AccountInv, PrimeGoesOn
  <2>2. CASE a \notin pass.todo
    BY <1>1, <1>3, <2>2 DEF AccountInv, SameAmounts, Meanwhile
  <2>3. QED
    BY <2>1, <2>2
<1>9. VisitGoesOn' /\ PrimeGoesOn' /\ AnswerGoesOn'
  BY <1>1, <1>2 DEF AccountInv, VisitGoesOn, PrimeGoesOn, AnswerGoesOn
<1>10. QED
  BY <1>2, <1>5, <1>6, <1>7, <1>8, <1>9 DEF AccountInv

(* The balance goes to the row, as it went to the cache.                    *)
LEMMA StoreBalanceKeeps == ASSUME AccountInv, StoreBalance PROVE AccountInv'
<1>1. /\ pass.pc = "amount"
      /\ account' = [account EXCEPT ![Current] =
                        IF account[Current].life = "live"
                        THEN [account[Current] EXCEPT !.amount = pass.amount]
                        ELSE account[Current]]
      /\ pass' = [pass EXCEPT !.pc = "verdict"] \/ ToNextAccount
      /\ UNCHANGED <<cached, funds, request, proven, outrun, crossed, unforgotten>>
  BY DEF StoreBalance, world, ghosts
<1>2. /\ Current \in pass.todo /\ Current \in AccountIds /\ pass.amount \in Nat
      /\ account[Current] \in RowStates
  BY <1>1, AtAccount, AccountFields DEF Visiting
<1>3. PICK new \in RowStates :
        /\ account' = [account EXCEPT ![Current] = new]
        /\ new.life = account[Current].life /\ new.key = account[Current].key
        /\ new.verdict = account[Current].verdict
        /\ new.life = "live" => new.amount = pass.amount
  <2>1. CASE account[Current].life = "live"
    BY <1>1, <1>2, <2>1, RowAmount
  <2>2. CASE account[Current].life # "live"
    BY <1>1, <1>2, <2>2
  <2>3. QED
    BY <2>1, <2>2
<1>4. /\ account' \in [AccountIds -> RowStates] /\ account'[Current] = new
      /\ \A b \in AccountIds : b # Current => account'[b] = account[b]
  BY <1>2, <1>3, RowReplaced
<1>5. \A b \in AccountIds : /\ account'[b].life = account[b].life
                            /\ account'[b].key = account[b].key
                            /\ account'[b].verdict = account[b].verdict
  BY <1>3, <1>4
<1>6. /\ PassTypes' /\ pass'.pc \in {"verdict", "idle", "fetch"}
      /\ pass'.todo \subseteq pass.todo
      /\ \A a \in pass'.todo : pass'.rows = pass.rows
      /\ pass'.pc = "verdict" => Current' = Current
  <2>1. CASE pass' = [pass EXCEPT !.pc = "verdict"]
    <3>1. pass' = [pc |-> "verdict", rows |-> pass.rows, todo |-> pass.todo,
                   amount |-> pass.amount]
      BY <2>1, PassChanged
    <3>2. QED
      BY <1>1, <1>2, <3>1, PassGoesOn DEF Visiting
  <2>2. CASE ToNextAccount
    BY <1>1, <2>2, NextAccount DEF Visiting
  <2>3. QED
    BY <1>1, <2>1, <2>2
<1>7. Live' = Live /\ \A a \in Live : a \in AccountIds /\ account[a].life = "live"
  BY <1>5 DEF Live
<1>8. AccountTypes'
  BY <1>1, <1>4 DEF AccountInv, AccountTypes
<1>9. RequestTypes'
  BY <1>1, <1>5, AccountFields DEF AccountInv, RequestTypes, Answering
<1>10. ReadsStand'
  BY <1>1, <1>5, <1>6 DEF AccountInv, ReadsStand, PassTypes
<1>11. VerdictIsEarned'
  BY <1>1, <1>5, <1>7 DEF AccountInv, VerdictIsEarned
<1>12. CacheFollowsRows'
  BY <1>1, <1>5 DEF AccountInv, CacheFollowsRows, Requested
<1>13. SameAmounts'
  <2> SUFFICES ASSUME NEW a \in Live, a \notin crossed,
                      ~(request.pc = "cache" /\ request.id = a)
               PROVE  cached[a] \in {Absent, account'[a].amount}
    BY <1>1, <1>7 DEF SameAmounts, Meanwhile
  <2>1. CASE a = Current
    BY <1>1, <1>3, <1>4, <1>7, <2>1 DEF AccountInv, VisitGoesOn
  <2>2. CASE a # Current
    BY <1>1, <1>4, <1>7, <2>2 DEF AccountInv, SameAmounts, Meanwhile
  <2>3. QED
    BY <2>1, <2>2
<1>14. VisitGoesOn' /\ PrimeGoesOn'
  BY <1>6 DEF VisitGoesOn, PrimeGoesOn
<1>15. AnswerGoesOn'
  <2> SUFFICES ASSUME request.pc = "cache"
               PROVE  /\ \/ request.id \in crossed
                         \/ request.amount = account'[request.id].amount
                      /\ request.id = Current => request.id \in crossed
    BY <1>1, <1>6 DEF AnswerGoesOn
  <2>1. request.id = Current => request.id \in crossed
    BY <1>1 DEF AccountInv, AnswerGoesOn
  <2>2. request.id # Current => account'[request.id] = account[request.id]
    BY <1>4, AccountFields
  <2>3. QED
    BY <2>1, <2>2 DEF AccountInv, AnswerGoesOn
<1>16. QED
  BY <1>6, <1>8, <1>9, <1>10, <1>11, <1>12, <1>13, <1>14, <1>15 DEF AccountInv

(* The verdict follows, earned if the row is still the one that was read.   *)
LEMMA StoreVerdictKeeps == ASSUME AccountInv, StoreVerdict PROVE AccountInv'
<1>1. /\ pass.pc = "verdict"
      /\ account' = [account EXCEPT ![Current] =
                        IF account[Current].life = "live"
                        THEN [account[Current] EXCEPT !.verdict = "success"]
                        ELSE account[Current]]
      /\ proven' = IF account[Current].key = pass.rows[Current].key
                   THEN proven \cup {Current} ELSE proven
      /\ ToNextAccount
      /\ UNCHANGED <<cached, funds, request, outrun, crossed, unforgotten>>
  BY DEF StoreVerdict, world
<1>2. /\ Current \in pass.todo /\ Current \in AccountIds
      /\ account[Current] \in RowStates /\ "success" \in Verdicts
  BY <1>1, AtAccount, AccountFields DEF Visiting, Verdicts
<1>3. PICK new \in RowStates :
        /\ account' = [account EXCEPT ![Current] = new]
        /\ new.life = account[Current].life /\ new.key = account[Current].key
        /\ new.amount = account[Current].amount
  <2>1. CASE account[Current].life = "live"
    BY <1>1, <1>2, <2>1, RowVerdict
  <2>2. CASE account[Current].life # "live"
    BY <1>1, <1>2, <2>2
  <2>3. QED
    BY <2>1, <2>2
<1>4. /\ account' \in [AccountIds -> RowStates] /\ account'[Current] = new
      /\ \A b \in AccountIds : b # Current => account'[b] = account[b]
  BY <1>2, <1>3, RowReplaced
<1>5. \A b \in AccountIds : /\ account'[b].life = account[b].life
                            /\ account'[b].key = account[b].key
                            /\ account'[b].amount = account[b].amount
  BY <1>3, <1>4
<1>6. /\ PassTypes' /\ pass'.pc \in {"idle", "fetch"}
      /\ pass'.todo \subseteq pass.todo
      /\ \A a \in pass'.todo : pass'.rows = pass.rows
  BY <1>1, NextAccount DEF Visiting
<1>7. Live' = Live /\ \A a \in Live : a \in AccountIds
  BY <1>5 DEF Live
<1>8. AccountTypes'
  BY <1>1, <1>4 DEF AccountInv, AccountTypes
<1>9. RequestTypes'
  BY <1>1, <1>5, AccountFields DEF AccountInv, RequestTypes, Answering
<1>10. ReadsStand'
  BY <1>1, <1>5, <1>6 DEF AccountInv, ReadsStand, PassTypes
<1>11. VerdictIsEarned'
  <2> SUFFICES ASSUME NEW a \in Live, account'[a].verdict = "success"
               PROVE  a \in proven' \cup outrun
    BY <1>1, <1>7 DEF VerdictIsEarned
  <2>1. CASE a = Current
    BY <1>1, <1>2, <2>1 DEF AccountInv, ReadsStand
  <2>2. CASE a # Current
    BY <1>1, <1>4, <1>7, <2>2 DEF AccountInv, VerdictIsEarned
  <2>3. QED
    BY <2>1, <2>2
<1>12. CacheFollowsRows'
  BY <1>1, <1>5 DEF AccountInv, CacheFollowsRows, Requested
<1>13. SameAmounts'
  BY <1>1, <1>5, <1>7 DEF AccountInv, SameAmounts, Meanwhile
<1>14. VisitGoesOn' /\ PrimeGoesOn' /\ AnswerGoesOn'
  BY <1>1, <1>5, <1>6, AccountFields DEF AccountInv, VisitGoesOn, PrimeGoesOn, AnswerGoesOn
<1>15. QED
  BY <1>6, <1>8, <1>9, <1>10, <1>11, <1>12, <1>13, <1>14 DEF AccountInv

-----------------------------------------------------------------------------
(* The requests.                                                            *)

(* A request leaves a pass alone.                                           *)
LEMMA PassStandsStill ==
    ASSUME AccountInv, UNCHANGED pass
    PROVE  PassTypes' /\ UNCHANGED Current
  BY DEF AccountInv, PassTypes, Current

(* Who overtakes a pass is written down.                                    *)
LEMMA WhoOvertakes ==
    ASSUME AccountInv, NEW a \in AccountIds, Overtakes(a)
    PROVE  /\ outrun \subseteq outrun' /\ crossed \subseteq crossed'
           /\ crossed' \subseteq crossed \cup {a}
           /\ a \in pass.todo => a \in outrun' /\ a \in crossed'
<1>1. a \in pass.todo => ReadByPass(a)
  BY DEF AccountInv, PassTypes, Visiting, ReadByPass
<1>2. \/ outrun' = outrun \cup {a} /\ crossed' = crossed \cup {a}
      \/ outrun' = outrun /\ crossed' = crossed /\ ~ReadByPass(a)
  BY DEF Overtakes
<1>3. QED
  BY <1>1, <1>2

(* A new account is read by no pass yet.                                    *)
LEMMA CreateAccountKeeps ==
    ASSUME AccountInv, NEW a \in AccountIds, NEW k \in Credentials, NEW v \in Verdicts,
           CreateAccount(a, k, v)
    PROVE  AccountInv'
<1>1. /\ request.pc = "idle" /\ account[a].life = "unborn"
      /\ account' = [account EXCEPT ![a] = [life |-> "live", key |-> k, verdict |-> v,
                                            amount |-> 0, ratio |-> 0]]
      /\ request' = [NoRequest EXCEPT !.pc = "cache", !.id = a]
      /\ proven' = proven \cup {a}
      /\ UNCHANGED <<cached, funds, pass, outrun, crossed, unforgotten>>
  BY DEF CreateAccount, Quiet, world
<1>2. PICK new \in RowStates : /\ new.life = "live" /\ new.amount = 0
                               /\ account' = [account EXCEPT ![a] = new]
  BY <1>1, NewRow
<1>3. /\ account' \in [AccountIds -> RowStates] /\ account'[a] = new
      /\ \A b \in AccountIds : b # a => account'[b] = account[b]
  BY <1>2, RowReplaced
<1>4. request' = [pc |-> "cache", id |-> a, amount |-> 0] /\ a \in Nat
  BY <1>1, RequestChanged, AccountIdAssumption
<1>5. request'.pc = "cache" /\ request'.id = a /\ request'.amount = 0
  BY <1>4
<1>6. PassTypes' /\ UNCHANGED Current /\ a \notin pass.todo
  BY <1>1, PassStandsStill DEF AccountInv, ReadsStand
<1>7. \A b \in Live' : b \in AccountIds /\ (b # a => b \in Live)
  BY <1>3 DEF Live
<1>8. AccountTypes' /\ RequestTypes'
  BY <1>1, <1>2, <1>3, <1>4 DEF AccountInv, AccountTypes, RequestTypes, Answering
<1>9. ReadsStand'
  BY <1>1, <1>3, <1>6 DEF AccountInv, ReadsStand, PassTypes
<1>10. VerdictIsEarned'
  BY <1>1, <1>3, <1>7 DEF AccountInv, VerdictIsEarned
<1>11. CacheFollowsRows'
  BY <1>1, <1>2, <1>3 DEF AccountInv, CacheFollowsRows, Requested
<1>12. SameAmounts'
  BY <1>1, <1>3, <1>5, <1>6, <1>7 DEF AccountInv, SameAmounts, Meanwhile
<1>13. pass.pc \in Visiting => Current \in pass.todo
  BY AtAccount
<1>14. VisitGoesOn' /\ PrimeGoesOn' /\ AnswerGoesOn'
  BY <1>1, <1>2, <1>3, <1>5, <1>6, <1>7, <1>13
     DEF AccountInv, VisitGoesOn, PrimeGoesOn, AnswerGoesOn, Visiting
<1>15. QED
  BY <1>6, <1>8, <1>9, <1>10, <1>11, <1>12, <1>14 DEF AccountInv

(* An edited account has the verdict its form brings.                       *)
LEMMA UpdateAccountKeeps ==
    ASSUME AccountInv, NEW a \in AccountIds, NEW k \in Credentials, NEW v \in Verdicts,
           UpdateAccount(a, k, v)
    PROVE  AccountInv'
<1>1. /\ request.pc = "idle" /\ a \in Live
      /\ account' = [account EXCEPT ![a] = [account[a] EXCEPT !.key = k, !.verdict = v]]
      /\ proven' = IF v = "success" THEN proven \cup {a} ELSE proven \ {a}
      /\ Overtakes(a)
      /\ UNCHANGED <<cached, funds, pass, request, unforgotten>>
  BY DEF UpdateAccount, Quiet, world
<1>2. account[a] \in RowStates
  BY AccountFields
<1>3. PICK new :
        /\ account' = [account EXCEPT ![a] = new] /\ new \in RowStates
        /\ new.life = account[a].life /\ new.amount = account[a].amount /\ new.verdict = v
  <2>1. PICK y \in RowStates : /\ y = [account[a] EXCEPT !.key = k]
                               /\ y.life = account[a].life
                               /\ y.amount = account[a].amount
    BY <1>2, RowKey
  <2>2. PICK x \in RowStates : /\ x = [y EXCEPT !.verdict = v]
                               /\ x.life = y.life /\ x.amount = y.amount
                               /\ x.verdict = v
    BY RowVerdict
  <2>3. account' = [account EXCEPT ![a] = x]
    BY <1>1, <2>1, <2>2, Zenon
  <2>4. QED
    BY <2>1, <2>2, <2>3
<1>4. /\ account' \in [AccountIds -> RowStates] /\ account'[a] = new
      /\ \A b \in AccountIds : b # a => account'[b] = account[b]
  BY <1>3, RowReplaced
<1>5. \A b \in AccountIds : /\ account'[b].life = account[b].life
                            /\ account'[b].amount = account[b].amount
  BY <1>3, <1>4
<1>6. /\ outrun \subseteq outrun' /\ crossed \subseteq crossed'
      /\ a \in pass.todo => a \in outrun' /\ a \in crossed'
  BY <1>1, WhoOvertakes
<1>7. PassTypes' /\ UNCHANGED Current
  BY <1>1, PassStandsStill
<1>8. Live' = Live /\ \A b \in Live : b \in AccountIds
  BY <1>5 DEF Live
<1>9. AccountTypes'
  BY <1>1, <1>4 DEF AccountInv, AccountTypes
<1>10. RequestTypes'
  BY <1>1, <1>5, AccountFields DEF AccountInv, RequestTypes, Answering
<1>11. ReadsStand'
  BY <1>1, <1>4, <1>5, <1>6 DEF AccountInv, ReadsStand, PassTypes
<1>12. VerdictIsEarned'
  BY <1>1, <1>3, <1>4, <1>6, <1>8 DEF AccountInv, VerdictIsEarned
<1>13. CacheFollowsRows'
  BY <1>1, <1>5, <1>6 DEF AccountInv, CacheFollowsRows, Requested
<1>14. SameAmounts' /\ VisitGoesOn' /\ PrimeGoesOn' /\ AnswerGoesOn'
  BY <1>1, <1>5, <1>6, <1>7, <1>8
     DEF AccountInv, SameAmounts, Meanwhile, VisitGoesOn, PrimeGoesOn, AnswerGoesOn
<1>15. QED
  BY <1>7, <1>9, <1>10, <1>11, <1>12, <1>13, <1>14 DEF AccountInv

(* A deleted account has a request that is to forget its balance.           *)
LEMMA DeleteAccountKeeps ==
    ASSUME AccountInv, NEW a \in AccountIds, DeleteAccount(a)
    PROVE  AccountInv'
<1>1. /\ request.pc = "idle" /\ a \in Live
      /\ account' = [account EXCEPT ![a] = [account[a] EXCEPT !.life = "deleted"]]
      /\ request' = [NoRequest EXCEPT !.pc = "forget", !.id = a]
      /\ Overtakes(a)
      /\ UNCHANGED <<cached, funds, pass, proven, unforgotten>>
  BY DEF DeleteAccount, Quiet, world
<1>2. account[a] \in RowStates
  BY AccountFields
<1>3. PICK new \in RowStates :
        account' = [account EXCEPT ![a] = new] /\ new.life = "deleted"
        /\ new.key = account[a].key
  BY <1>1, <1>2, RowLife
<1>4. /\ account' \in [AccountIds -> RowStates] /\ account'[a] = new
      /\ \A b \in AccountIds : b # a => account'[b] = account[b]
  BY <1>3, RowReplaced
<1>5. request' = [pc |-> "forget", id |-> a, amount |-> 0] /\ a \in Nat
  BY <1>1, RequestChanged, AccountIdAssumption
<1>6. request'.pc = "forget" /\ request'.id = a
  BY <1>5
<1>7. /\ outrun \subseteq outrun' /\ crossed \subseteq crossed'
      /\ a \in pass.todo => a \in outrun' /\ a \in crossed'
  BY <1>1, WhoOvertakes
<1>8. PassTypes' /\ UNCHANGED Current
  BY <1>1, PassStandsStill
<1>9. \A b \in Live' : b \in AccountIds /\ b # a /\ b \in Live
  BY <1>3, <1>4 DEF Live
<1>10. AccountTypes' /\ RequestTypes'
  BY <1>1, <1>4, <1>5 DEF AccountInv, AccountTypes, RequestTypes, Answering
<1>11. ReadsStand'
  BY <1>1, <1>3, <1>4, <1>7 DEF AccountInv, ReadsStand, PassTypes
<1>12. VerdictIsEarned'
  BY <1>1, <1>4, <1>7, <1>9 DEF AccountInv, VerdictIsEarned
<1>13. CacheFollowsRows'
  BY <1>1, <1>4, <1>6, <1>7 DEF AccountInv, CacheFollowsRows, Requested
<1>14. SameAmounts' /\ VisitGoesOn' /\ PrimeGoesOn' /\ AnswerGoesOn'
  BY <1>1, <1>4, <1>6, <1>7, <1>8, <1>9
     DEF AccountInv, SameAmounts, Meanwhile, VisitGoesOn, PrimeGoesOn, AnswerGoesOn
<1>15. QED
  BY <1>8, <1>10, <1>11, <1>12, <1>13, <1>14 DEF AccountInv

(* Its balance is forgotten.                                                *)
LEMMA ForgetBalanceKeeps == ASSUME AccountInv, ForgetBalance PROVE AccountInv'
<1>1. /\ request.pc = "forget" /\ request' = NoRequest
      /\ cached' = [cached EXCEPT ![request.id] = Absent]
      /\ UNCHANGED <<account, funds, pass, proven, outrun, crossed, unforgotten>>
  BY DEF ForgetBalance, world, ghosts
<1>2. request.id \in AccountIds
  BY <1>1, AccountFields
<1>3. /\ cached' \in [AccountIds -> Nat \cup {Absent}] /\ cached'[request.id] = Absent
      /\ \A b \in AccountIds : b # request.id => cached'[b] = cached[b]
  BY <1>1, <1>2, BalanceReplaced
<1>4. request'.pc = "idle"
  BY <1>1 DEF NoRequest
<1>5. PassTypes' /\ UNCHANGED Current
  BY <1>1, PassStandsStill
<1>6. Live' = Live /\ \A b \in Live : b \in AccountIds
  BY <1>1 DEF Live
<1>7. AccountTypes' /\ RequestTypes' /\ ReadsStand'
  BY <1>1, <1>3 DEF AccountInv, AccountTypes, RequestTypes, ReadsStand, NoRequest, Answering
<1>8. VerdictIsEarned'
  BY <1>1, <1>6 DEF AccountInv, VerdictIsEarned
<1>9. CacheFollowsRows'
  BY <1>1, <1>3 DEF AccountInv, CacheFollowsRows, Requested
<1>10. SameAmounts' /\ VisitGoesOn' /\ PrimeGoesOn' /\ AnswerGoesOn'
  BY <1>1, <1>3, <1>4, <1>5, <1>6
     DEF AccountInv, SameAmounts, Meanwhile, VisitGoesOn, PrimeGoesOn, AnswerGoesOn
<1>11. QED
  BY <1>5, <1>7, <1>8, <1>9, <1>10 DEF AccountInv

(* A request that ends with nothing written leaves all the rest as it is.   *)
LEMMA RequestEnds ==
    ASSUME AccountInv, request' = NoRequest, crossed \subseteq crossed',
           request.pc = "cache" => request.id \in crossed',
           request.pc = "forget" => request.id \in outrun' \cup unforgotten',
           request.pc # "forget" => account[request.id].life # "deleted",
           outrun \subseteq outrun', unforgotten \subseteq unforgotten',
           UNCHANGED <<account, cached, funds, pass, proven>>
    PROVE  AccountInv'
<1>1. request'.pc = "idle" /\ RequestTypes'
  BY DEF NoRequest, RequestTypes, Answering
<1>2. PassTypes' /\ UNCHANGED Current /\ Live' = Live
  BY PassStandsStill DEF Live
<1>3. AccountTypes' /\ ReadsStand' /\ VerdictIsEarned'
  BY <1>2 DEF AccountInv, AccountTypes, ReadsStand, VerdictIsEarned
<1>4. CacheFollowsRows'
  BY <1>1 DEF AccountInv, CacheFollowsRows, Requested
<1>5. SameAmounts' /\ VisitGoesOn' /\ PrimeGoesOn' /\ AnswerGoesOn'
  BY <1>1, <1>2
     DEF AccountInv, SameAmounts, Meanwhile, VisitGoesOn, PrimeGoesOn, AnswerGoesOn
<1>6. QED
  BY <1>1, <1>2, <1>3, <1>4, <1>5 DEF AccountInv

(* Redis does not forget, the row is not written, or Redis does not learn.  *)
LEMMA RequestFailsKeeps ==
    ASSUME AccountInv, ForgetFails \/ SnapshotWriteFails \/ SeedFails
    PROVE  AccountInv'
<1>1. CASE ForgetFails
  BY <1>1, RequestEnds DEF ForgetFails, world
<1>2. CASE SnapshotWriteFails
  BY <1>2, RequestEnds DEF SnapshotWriteFails, world, ghosts, AccountInv, RequestTypes,
                           Answering
<1>3. CASE SeedFails
  BY <1>3, RequestEnds DEF SeedFails, world, AccountInv, RequestTypes, Answering
<1>4. QED
  BY <1>1, <1>2, <1>3

(* A test of the row's own credentials earns the verdict.                   *)
LEMMA TestConnectionKeeps ==
    ASSUME AccountInv, NEW a \in AccountIds, NEW k \in Credentials, TestConnection(a, k)
    PROVE  AccountInv'
<1>1. /\ request.pc = "idle" /\ a \in Live
      /\ account' = [account EXCEPT ![a] = [account[a] EXCEPT !.verdict =
                        IF k \in accepted THEN "success" ELSE "failed"]]
      /\ request' = IF k \in accepted
                    THEN [NoRequest EXCEPT !.pc = "snapshot", !.id = a] ELSE NoRequest
      /\ proven' = IF k = account[a].key THEN proven \cup {a} ELSE proven \ {a}
      /\ outrun' = IF k = account[a].key /\ ~ReadByPass(a)
                   THEN outrun ELSE outrun \cup {a}
      /\ UNCHANGED <<cached, funds, pass, crossed, unforgotten>>
  BY DEF TestConnection, Quiet, world
<1>2. account[a] \in RowStates /\ {"success", "failed"} \subseteq Verdicts
  BY AccountFields DEF Verdicts
<1>3. PICK new \in RowStates :
        /\ account' = [account EXCEPT ![a] = new]
        /\ new.life = account[a].life /\ new.amount = account[a].amount
        /\ new.key = account[a].key
  <2>1. PICK v \in Verdicts :
            account' = [account EXCEPT ![a] = [account[a] EXCEPT !.verdict = v]]
    BY <1>1, <1>2
  <2>2. QED
    BY <1>2, <2>1, RowVerdict
<1>4. /\ account' \in [AccountIds -> RowStates] /\ account'[a] = new
      /\ \A b \in AccountIds : b # a => account'[b] = account[b]
  BY <1>3, RowReplaced
<1>5. \A b \in AccountIds : /\ account'[b].life = account[b].life
                            /\ account'[b].amount = account[b].amount
                            /\ account'[b].key = account[b].key
  BY <1>3, <1>4
<1>6. \/ request' = [pc |-> "snapshot", id |-> a, amount |-> 0]
      \/ request' = [pc |-> "idle", id |-> 0, amount |-> 0]
  BY <1>1, RequestChanged, Zenon DEF NoRequest
<1>7. PassTypes' /\ UNCHANGED Current
  BY <1>1, PassStandsStill
<1>8. Live' = Live /\ \A b \in Live : b \in AccountIds /\ account[b].life = "live"
  BY <1>5 DEF Live
<1>9. outrun \subseteq outrun' /\ (a \in proven' \/ a \in outrun')
      /\ \A b : b # a /\ b \in proven => b \in proven'
  BY <1>1
<1>10. AccountTypes'
  BY <1>1, <1>4 DEF AccountInv, AccountTypes
<1>11. RequestTypes'
  <2>1. a \in Nat /\ account'[a].life = "live"
    BY <1>1, <1>5, <1>8, AccountIdAssumption
  <2>2. CASE request' = [pc |-> "snapshot", id |-> a, amount |-> 0]
    BY <2>1, <2>2 DEF RequestTypes, Answering
  <2>3. CASE request' = [pc |-> "idle", id |-> 0, amount |-> 0]
    BY <2>3 DEF RequestTypes, Answering
  <2>4. QED
    BY <1>6, <2>2, <2>3
<1>12. ReadsStand'
  BY <1>1, <1>5, <1>9 DEF AccountInv, ReadsStand, PassTypes
<1>13. VerdictIsEarned'
  BY <1>4, <1>8, <1>9 DEF AccountInv, VerdictIsEarned
<1>14. CacheFollowsRows'
  BY <1>1, <1>5, <1>9 DEF AccountInv, CacheFollowsRows, Requested
<1>15. SameAmounts' /\ VisitGoesOn' /\ PrimeGoesOn' /\ AnswerGoesOn'
  BY <1>1, <1>5, <1>6, <1>7, <1>8
     DEF AccountInv, SameAmounts, Meanwhile, VisitGoesOn, PrimeGoesOn, AnswerGoesOn
<1>16. QED
  BY <1>7, <1>10, <1>11, <1>12, <1>13, <1>14, <1>15 DEF AccountInv

(* The balance is read for the row; nothing is written yet.                 *)
LEMMA TakeSnapshotKeeps == ASSUME AccountInv, TakeSnapshot PROVE AccountInv'
<1>1. /\ request.pc = "snapshot"
      /\ \/ request' = [request EXCEPT !.pc = "amount", !.amount = funds[request.id]]
         \/ request' = NoRequest
      /\ UNCHANGED <<account, cached, funds, pass, proven, outrun, crossed, unforgotten>>
  BY DEF TakeSnapshot, world, ghosts
<1>2. /\ request.id \in AccountIds /\ request.id \in Nat /\ funds[request.id] \in Nat
      /\ account[request.id].life = "live"
  BY <1>1, AccountFields DEF AccountInv, RequestTypes, Answering
<1>3. \/ request' = [pc |-> "amount", id |-> request.id, amount |-> funds[request.id]]
      \/ request' = [pc |-> "idle", id |-> 0, amount |-> 0]
  BY <1>1, RequestChanged, Zenon DEF NoRequest
<1>4. PassTypes' /\ UNCHANGED Current /\ Live' = Live
  BY <1>1, PassStandsStill DEF Live
<1>5. \A b \in Live : b \in AccountIds
  BY DEF Live
<1>6. AccountTypes' /\ ReadsStand' /\ VerdictIsEarned'
  BY <1>1, <1>4 DEF AccountInv, AccountTypes, ReadsStand, VerdictIsEarned
<1>7. RequestTypes'
  BY <1>1, <1>2, <1>3 DEF RequestTypes, Answering
<1>8. CacheFollowsRows'
  BY <1>1, <1>2 DEF AccountInv, CacheFollowsRows, Requested
<1>9. SameAmounts' /\ VisitGoesOn' /\ PrimeGoesOn' /\ AnswerGoesOn'
  BY <1>1, <1>3, <1>4 DEF AccountInv, SameAmounts, Meanwhile, VisitGoesOn, PrimeGoesOn, AnswerGoesOn
<1>10. QED
  BY <1>4, <1>6, <1>7, <1>8, <1>9 DEF AccountInv

(* It goes to the row.                                                      *)
LEMMA StoreSnapshotKeeps == ASSUME AccountInv, StoreSnapshot PROVE AccountInv'
<1>1. /\ request.pc = "amount"
      /\ account' = [account EXCEPT ![request.id] =
                        [account[request.id] EXCEPT !.amount = request.amount]]
      /\ request' = [request EXCEPT !.pc = "cache"]
      /\ Overtakes(request.id)
      /\ UNCHANGED <<cached, funds, pass, proven, unforgotten>>
  BY DEF StoreSnapshot, world
<1>2. PICK a \in AccountIds : a = request.id
  BY <1>1, AccountFields
<1>3. /\ account[a] \in RowStates /\ account[a].life = "live"
      /\ request.amount \in Nat /\ a \in Nat
  BY <1>1, <1>2, AccountFields DEF AccountInv, RequestTypes, Answering
<1>4. PICK new \in RowStates :
        /\ account' = [account EXCEPT ![a] = new]
        /\ new.life = "live" /\ new.amount = request.amount
        /\ new.key = account[a].key /\ new.verdict = account[a].verdict
  <2>1. account' = [account EXCEPT ![a] = [account[a] EXCEPT !.amount = request.amount]]
    BY <1>1, <1>2, Zenon
  <2>2. PICK x : x = [account[a] EXCEPT !.amount = request.amount]
    OBVIOUS
  <2>3. /\ x \in RowStates /\ x.life = "live" /\ x.amount = request.amount
        /\ x.key = account[a].key /\ x.verdict = account[a].verdict
    BY <1>3, <2>2, RowAmount
  <2>4. QED
    BY <2>1, <2>2, <2>3, Zenon
<1>5. /\ account' \in [AccountIds -> RowStates] /\ account'[a] = new
      /\ \A b \in AccountIds : b # a => account'[b] = account[b]
  BY <1>4, RowReplaced
<1>6. \A b \in AccountIds : /\ account'[b].life = account[b].life
                            /\ account'[b].key = account[b].key
                            /\ account'[b].verdict = account[b].verdict
  BY <1>3, <1>4, <1>5
<1>7. request' = [pc |-> "cache", id |-> a, amount |-> request.amount]
  BY <1>1, <1>2, RequestChanged
<1>8. /\ outrun \subseteq outrun' /\ crossed \subseteq crossed'
      /\ a \in pass.todo => a \in outrun' /\ a \in crossed'
  BY <1>1, <1>2, WhoOvertakes
<1>9. PassTypes' /\ UNCHANGED Current
  BY <1>1, PassStandsStill
<1>10. Live' = Live /\ \A b \in Live : b \in AccountIds
  BY <1>6 DEF Live
<1>11. AccountTypes' /\ RequestTypes'
  BY <1>1, <1>3, <1>4, <1>5, <1>7 DEF AccountInv, AccountTypes, RequestTypes, Answering
<1>12. ReadsStand'
  BY <1>1, <1>6, <1>8 DEF AccountInv, ReadsStand, PassTypes
<1>13. VerdictIsEarned'
  BY <1>1, <1>6, <1>8, <1>10 DEF AccountInv, VerdictIsEarned
<1>14. CacheFollowsRows'
  BY <1>1, <1>2, <1>6, <1>7, <1>8 DEF AccountInv, CacheFollowsRows, Requested
<1>15. SameAmounts'
  BY <1>1, <1>5, <1>7, <1>8, <1>9, <1>10 DEF AccountInv, SameAmounts, Meanwhile
<1>16. PrimeGoesOn'
  BY <1>1, <1>5, <1>8 DEF AccountInv, PrimeGoesOn, PassTypes
<1>17. VisitGoesOn'
  <2> SUFFICES ASSUME pass.pc = "amount", Current \in Live, Current \notin crossed'
               PROVE  cached[Current] \in {Absent, pass.amount}
    BY <1>1, <1>9, <1>10 DEF VisitGoesOn
  <2>1. Current \notin crossed
    BY <1>8
  <2>2. QED
    BY <2>1 DEF AccountInv, VisitGoesOn
<1>18. AnswerGoesOn'
  <2>1. pass.pc \in Visiting => Current \in pass.todo
    BY AtAccount
  <2>2. QED
    BY <1>1, <1>4, <1>5, <1>7, <1>8, <1>9, <2>1 DEF AnswerGoesOn, Visiting
<1>19. QED
  BY <1>9, <1>11, <1>12, <1>13, <1>14, <1>15, <1>16, <1>17, <1>18 DEF AccountInv

(* And from there to the cache.                                             *)
LEMMA SeedBalanceKeeps == ASSUME AccountInv, SeedBalance PROVE AccountInv'
<1>1. /\ request.pc = "cache" /\ request' = NoRequest
      /\ cached' = [cached EXCEPT ![request.id] = request.amount]
      /\ Overtakes(request.id)
      /\ UNCHANGED <<account, funds, pass, proven, unforgotten>>
  BY DEF SeedBalance, world
<1>2. PICK a \in AccountIds : a = request.id
  BY <1>1, AccountFields
<1>3. request.amount \in Nat /\ account[a].life = "live"
  BY <1>1, <1>2, AccountFields DEF AccountInv, RequestTypes, Answering
<1>4. /\ cached' \in [AccountIds -> Nat \cup {Absent}] /\ cached'[a] = request.amount
      /\ \A b \in AccountIds : b # a => cached'[b] = cached[b]
  BY <1>1, <1>2, <1>3, BalanceReplaced
<1>5. request'.pc = "idle" /\ RequestTypes'
  BY <1>1 DEF NoRequest, RequestTypes, Answering
<1>6. /\ outrun \subseteq outrun' /\ crossed \subseteq crossed'
      /\ a \in pass.todo => a \in outrun' /\ a \in crossed'
  BY <1>1, <1>2, WhoOvertakes
<1>7. PassTypes' /\ UNCHANGED Current /\ Live' = Live
  BY <1>1, PassStandsStill DEF Live
<1>8. \A b \in Live : b \in AccountIds
  BY DEF Live
<1>9. AccountTypes'
  BY <1>1, <1>4 DEF AccountInv, AccountTypes
<1>10. ReadsStand' /\ VerdictIsEarned'
  BY <1>1, <1>6, <1>7 DEF AccountInv, ReadsStand, VerdictIsEarned
<1>11. CacheFollowsRows'
  BY <1>1, <1>2, <1>3, <1>4, <1>6 DEF AccountInv, CacheFollowsRows, Requested
<1>12. SameAmounts'
  <2> SUFFICES ASSUME pass.pc # "dead", NEW b \in Live, b \notin crossed', ~Meanwhile(b)'
               PROVE  cached'[b] \in {Absent, account[b].amount}
    BY <1>1, <1>7 DEF SameAmounts
  <2>1. CASE b = a
    BY <1>1, <1>2, <1>4, <1>6, <2>1 DEF AccountInv, AnswerGoesOn
  <2>2. CASE b # a
    BY <1>1, <1>2, <1>4, <1>6, <1>7, <1>8, <2>2 DEF AccountInv, SameAmounts, Meanwhile
  <2>3. QED
    BY <2>1, <2>2
<1>13. VisitGoesOn'
  <2> SUFFICES ASSUME pass.pc = "amount", Current \in Live, Current \notin crossed'
               PROVE  cached'[Current] \in {Absent, pass.amount}
    BY <1>1, <1>7 DEF VisitGoesOn
  <2>1. Current \in pass.todo /\ Current \in AccountIds
    BY AtAccount DEF Visiting
  <2>2. Current # a /\ Current \notin crossed
    BY <1>6, <2>1
  <2>3. QED
    BY <1>4, <2>1, <2>2 DEF AccountInv, VisitGoesOn
<1>14. PrimeGoesOn' /\ AnswerGoesOn'
  BY <1>1, <1>5, <1>6 DEF AccountInv, PrimeGoesOn, AnswerGoesOn
<1>15. QED
  BY <1>5, <1>7, <1>9, <1>10, <1>11, <1>12, <1>13, <1>14 DEF AccountInv

(* A request that is cut short.                                             *)
LEMMA RequestDiesKeeps == ASSUME AccountInv, RequestDies PROVE AccountInv'
<1>1. /\ request' = NoRequest /\ request.pc # "idle"
      /\ outrun' = outrun \cup {request.id} /\ crossed' = crossed \cup {request.id}
      /\ UNCHANGED <<account, cached, funds, pass, proven, unforgotten>>
  BY DEF RequestDies, Quiet, world
<1>2. request'.pc = "idle" /\ RequestTypes'
  BY <1>1 DEF NoRequest, RequestTypes, Answering
<1>3. PassTypes' /\ UNCHANGED Current /\ Live' = Live
  BY <1>1, PassStandsStill DEF Live
<1>4. AccountTypes' /\ ReadsStand' /\ VerdictIsEarned'
  BY <1>1, <1>3 DEF AccountInv, AccountTypes, ReadsStand, VerdictIsEarned
<1>5. CacheFollowsRows'
  BY <1>1 DEF AccountInv, CacheFollowsRows, Requested
<1>6. SameAmounts' /\ VisitGoesOn' /\ PrimeGoesOn' /\ AnswerGoesOn'
  BY <1>1, <1>2, <1>3 DEF AccountInv, SameAmounts, Meanwhile, VisitGoesOn, PrimeGoesOn, AnswerGoesOn
<1>7. QED
  BY <1>2, <1>3, <1>4, <1>5, <1>6 DEF AccountInv

(* The share of an account is set.                                          *)
LEMMA SetRatioKeeps ==
    ASSUME AccountInv, NEW a \in AccountIds, NEW r \in Ratios, SetRatio(a, r)
    PROVE  AccountInv'
<1>1. /\ account' = [account EXCEPT ![a] = [account[a] EXCEPT !.ratio = r]]
      /\ UNCHANGED <<cached, funds, pass, request, proven, outrun, crossed, unforgotten>>
  BY DEF SetRatio, world, ghosts
<1>2. account[a] \in RowStates /\ r \in 0 .. 100
  BY AccountFields, RatioAssumption
<1>3. PICK new \in RowStates :
        /\ account' = [account EXCEPT ![a] = new]
        /\ new.life = account[a].life /\ new.key = account[a].key
        /\ new.amount = account[a].amount /\ new.verdict = account[a].verdict
  BY <1>1, <1>2, RowRatio
<1>4. /\ account' \in [AccountIds -> RowStates] /\ account'[a] = new
      /\ \A b \in AccountIds : b # a => account'[b] = account[b]
  BY <1>3, RowReplaced
<1>5. \A b \in AccountIds : /\ account'[b].life = account[b].life
                            /\ account'[b].key = account[b].key
                            /\ account'[b].amount = account[b].amount
                            /\ account'[b].verdict = account[b].verdict
  BY <1>3, <1>4
<1>6. PassTypes' /\ UNCHANGED Current
  BY <1>1, PassStandsStill
<1>7. Live' = Live /\ \A b \in Live : b \in AccountIds
  BY <1>5 DEF Live
<1>8. AccountTypes'
  BY <1>1, <1>4 DEF AccountInv, AccountTypes
<1>9. RequestTypes'
  BY <1>1, <1>5, AccountFields DEF AccountInv, RequestTypes, Answering
<1>10. ReadsStand'
  BY <1>1, <1>5 DEF AccountInv, ReadsStand, PassTypes
<1>11. VerdictIsEarned' /\ CacheFollowsRows'
  BY <1>1, <1>5, <1>7 DEF AccountInv, VerdictIsEarned, CacheFollowsRows, Requested
<1>12. SameAmounts' /\ VisitGoesOn' /\ PrimeGoesOn'
  BY <1>1, <1>5, <1>6, <1>7
     DEF AccountInv, SameAmounts, Meanwhile, VisitGoesOn, PrimeGoesOn, PassTypes
<1>13. AnswerGoesOn'
  BY <1>1, <1>5, <1>6, AccountFields DEF AccountInv, AnswerGoesOn
<1>14. QED
  BY <1>6, <1>8, <1>9, <1>10, <1>11, <1>12, <1>13 DEF AccountInv

-----------------------------------------------------------------------------
(* The exchange, the clock, and all steps.                                  *)

(* A cached balance expires.                                                *)
LEMMA ExpireKeeps ==
    ASSUME AccountInv, NEW a \in AccountIds, Expire(a)
    PROVE  AccountInv'
<1>1. /\ cached' = [cached EXCEPT ![a] = Absent]
      /\ UNCHANGED <<account, funds, pass, request, proven, outrun, crossed, unforgotten>>
  BY DEF Expire, world, ghosts
<1>2. /\ cached' \in [AccountIds -> Nat \cup {Absent}] /\ cached'[a] = Absent
      /\ \A b \in AccountIds : b # a => cached'[b] = cached[b]
  BY <1>1, BalanceReplaced
<1>3. PassTypes' /\ UNCHANGED Current /\ Live' = Live
  BY <1>1, PassStandsStill DEF Live
<1>4. \A b \in Live : b \in AccountIds
  BY DEF Live
<1>5. AccountTypes' /\ RequestTypes' /\ ReadsStand' /\ VerdictIsEarned'
  BY <1>1, <1>2, <1>3
     DEF AccountInv, AccountTypes, RequestTypes, ReadsStand, VerdictIsEarned
<1>6. CacheFollowsRows'
  BY <1>1, <1>2 DEF AccountInv, CacheFollowsRows, Requested
<1>7. SameAmounts' /\ VisitGoesOn' /\ PrimeGoesOn' /\ AnswerGoesOn'
  BY <1>1, <1>2, <1>3, <1>4
     DEF AccountInv, SameAmounts, Meanwhile, VisitGoesOn, PrimeGoesOn, AnswerGoesOn
<1>8. QED
  BY <1>3, <1>5, <1>6, <1>7 DEF AccountInv

(* Steps that leave rows, cache, pass and request alone.                    *)
LEMMA ElsewhereKeeps ==
    ASSUME AccountInv, funds' \in [AccountIds -> Nat],
           UNCHANGED <<account, cached, pass, request, proven, outrun, crossed, unforgotten>>
    PROVE  AccountInv'
<1>1. PassTypes' /\ UNCHANGED Current /\ Live' = Live
  BY PassStandsStill DEF Live
<1>2. AccountTypes' /\ RequestTypes' /\ ReadsStand' /\ VerdictIsEarned' /\ CacheFollowsRows'
  BY <1>1 DEF AccountInv, AccountTypes, RequestTypes, ReadsStand, VerdictIsEarned,
              CacheFollowsRows, Requested
<1>3. SameAmounts' /\ VisitGoesOn' /\ PrimeGoesOn' /\ AnswerGoesOn'
  BY <1>1 DEF AccountInv, SameAmounts, Meanwhile, VisitGoesOn, PrimeGoesOn, AnswerGoesOn
<1>4. QED
  BY <1>1, <1>2, <1>3 DEF AccountInv

(* A step of the monitor.                                                   *)
LEMMA MonitorKeeps == ASSUME AccountInv, MonitorStep \/ MonitorDies PROVE AccountInv'
  BY ReadToPrimeKeeps, PrimeKeeps, BeginPassKeeps, FetchBalanceKeeps, FetchFailsKeeps,
     CacheBalanceKeeps, CacheWriteFailsKeeps, StoreBalanceKeeps, StoreVerdictKeeps,
     RowWriteFailsKeeps, MonitorDiesKeeps
     DEF MonitorStep

(* Every step keeps the invariant.                                          *)
LEMMA AccountStep == AccountInv /\ [AccountNext]_accountVars => AccountInv'
<1> SUFFICES ASSUME AccountInv, [AccountNext]_accountVars PROVE AccountInv'
  OBVIOUS
<1>1. CASE UNCHANGED accountVars
  BY <1>1, ElsewhereKeeps DEF accountVars, AccountInv, AccountTypes
<1>2. CASE MonitorStep \/ MonitorDies
  BY <1>2, MonitorKeeps
<1>3. ASSUME NEW a \in AccountIds, NEW k \in Credentials, NEW v \in Verdicts,
             CreateAccount(a, k, v) \/ UpdateAccount(a, k, v)
      PROVE  AccountInv'
  BY <1>3, CreateAccountKeeps, UpdateAccountKeeps
<1>4. ASSUME NEW a \in AccountIds, DeleteAccount(a) PROVE AccountInv'
  BY <1>4, DeleteAccountKeeps
<1>5. ASSUME NEW a \in AccountIds, NEW k \in Credentials, TestConnection(a, k)
      PROVE  AccountInv'
  BY <1>5, TestConnectionKeeps
<1>6. ASSUME NEW a \in AccountIds, NEW r \in Ratios, SetRatio(a, r) PROVE AccountInv'
  BY <1>6, SetRatioKeeps
<1>7. ASSUME NEW a \in AccountIds, FundsMove(a) PROVE AccountInv'
  <2>1. PICK m \in Amounts : funds' = [funds EXCEPT ![a] = m]
    BY <1>7 DEF FundsMove
  <2>2. funds' \in [AccountIds -> Nat]
    BY <2>1, AmountAssumption DEF AccountInv, AccountTypes
  <2>3. QED
    BY <1>7, <2>2, ElsewhereKeeps DEF FundsMove, ghosts
<1>8. ASSUME NEW a \in AccountIds, Expire(a) PROVE AccountInv'
  BY <1>8, ExpireKeeps
<1>9. CASE \/ ForgetBalance \/ TakeSnapshot \/ StoreSnapshot \/ SeedBalance \/ RequestDies
           \/ ForgetFails \/ SnapshotWriteFails \/ SeedFails
  BY <1>9, ForgetBalanceKeeps, TakeSnapshotKeeps, StoreSnapshotKeeps, SeedBalanceKeeps,
     RequestDiesKeeps, RequestFailsKeeps
<1>10. CASE \/ \E answer \in SUBSET Networks : RefreshNetworks(answer)
            \/ PlanTransfer
            \/ \E k \in Credentials : RevokeKey(k)
  <2>1. UNCHANGED <<account, cached, funds, pass, request, proven, outrun, crossed, unforgotten>>
    BY <1>10 DEF RefreshNetworks, PlanTransfer, RevokeKey, world, ghosts
  <2>2. QED
    BY <2>1, ElsewhereKeeps DEF AccountInv, AccountTypes
<1>11. QED
  BY <1>1, <1>2, <1>3, <1>4, <1>5, <1>6, <1>7, <1>8, <1>9, <1>10 DEF AccountNext

-----------------------------------------------------------------------------
(* What the invariant gives.                                                *)

(* The invariant, in every state of the system.                             *)
THEOREM AccountInvariance == AccountSpec => []AccountInv
<1>1. AccountInit => AccountInv
  BY AccountInitially
<1>2. AccountInv /\ [AccountNext]_accountVars => AccountInv'
  BY AccountStep
<1>3. QED
  BY <1>1, <1>2, PTL DEF AccountSpec

(* A verdict of success is about the credentials its row has, unless the    *)
(* row changed under a pass of the monitor or the form tested others.       *)
THEOREM VerdictsAreEarned == AccountSpec => []VerdictIsEarned
<1>1. AccountInv => VerdictIsEarned
  BY DEF AccountInv
<1>2. QED
  BY <1>1, AccountInvariance, PTL

(* Nothing stays cached of a deleted account, unless Redis did not carry    *)
(* out the delete, the monitor had read the account, or the request died    *)
(* half way.                                                                *)
THEOREM CachedBalancesFollow == AccountSpec => []CacheFollowsRows
<1>1. AccountInv => CacheFollowsRows
  BY DEF AccountInv
<1>2. QED
  BY <1>1, AccountInvariance, PTL

(* Cache and row agree about an account nobody is working on, unless since  *)
(* the last undisturbed visit a request and the monitor crossed, or Redis   *)
(* or the database did not take one of the two writes.                      *)
THEOREM CacheAndRowsAgree == AccountSpec => []AmountsAgree
<1>1. AccountInv => AmountsAgree
  <2> SUFFICES ASSUME AccountInv, NEW a \in Live \ crossed, ~ReadByPass(a),
                      ~Requested(a), pass.pc # "dead"
               PROVE  cached[a] \in {Absent, account[a].amount}
    BY DEF AmountsAgree
  <2>1. pass.pc \in {"cache", "amount"} => a # Current
    BY AtAccount DEF ReadByPass, Visiting
  <2>2. ~Meanwhile(a)
    BY <2>1 DEF Meanwhile, Requested, ReadByPass
  <2>3. QED
    BY <2>2 DEF AccountInv, SameAmounts
<1>2. QED
  BY <1>1, AccountInvariance, PTL

-----------------------------------------------------------------------------
(* What a plan moves.                                                       *)

SmallAmount == {v \in Nat : v < 1000000}

(* Below a million a text loses at most 51 dollars of an amount, and adds at *)
(* most 50.                                                                 *)
LEMMA ShownNearby ==
    ASSUME NEW v \in SmallAmount, NEW x \in Shows(v)
    PROVE  x \in Int /\ v - 51 <= x /\ x <= v + 50
<1>1. v \in Nat /\ v < 1000000
  BY SMT DEF SmallAmount
<1>2. CASE v >= 1000
  <2>1. DisplayUnit(v) = 100
    BY <1>1, <1>2, SMT DEF DisplayUnit
  <2>2. x = v \/ x \in v - 51 .. v + 50
    BY <1>1, <2>1, SMT DEF Shows
  <2>3. QED
    BY <1>1, <2>2, SMT
<1>3. CASE ~(v >= 1000)
  <2>1. DisplayUnit(v) = 1
    BY <1>1, <1>3, SMT DEF DisplayUnit
  <2>2. x = v
    BY <2>1, SMT DEF Shows
  <2>3. QED
    BY <1>1, <2>2, SMT
<1>4. QED
  BY <1>2, <1>3, SMT

(* A share of a hundred percent at most is at most the whole.               *)
LEMMA ShareOfTotal ==
    ASSUME NEW total \in SmallAmount, NEW ratio \in 0 .. 100
    PROVE  Rounded(total * ratio, 100) \in SmallAmount
<1>1. PICK n \in Nat : n = total * ratio /\ n <= 100 * total
  BY SMT DEF SmallAmount
<1>2. ASSUME NEW m \in Nat, NEW t \in SmallAmount, m <= 100 * t
      PROVE  Rounded(m, 100) \in SmallAmount
  BY <1>2, SMT DEF Rounded, SmallAmount
<1>3. QED
  BY <1>1, <1>2, SMT

(* All there is, and what each account has, is below a million.             *)
SmallBalances == Total \in SmallAmount /\ \A a \in Live : Available(a) \in SmallAmount

(* Then a plan keeps to what the accounts have and need, but for the texts. *)
LEMMA PlanIsNear ==
    ASSUME AccountInv, SmallBalances, PlanTransfer
    PROVE  PlanIsModest'
<1>1. PICK rows \in ShownRows : \E p \in Candidates(rows) :
        planned' = [amount |-> AmountBetween(rows[p[1]], rows[p[2]]),
                    spare |-> Available(p[1]) - Target(p[1]),
                    need |-> Target(p[2]) - Available(p[2])]
  BY DEF PlanTransfer
<1>2. PICK p \in Candidates(rows) :
        planned' = [amount |-> AmountBetween(rows[p[1]], rows[p[2]]),
                    spare |-> Available(p[1]) - Target(p[1]),
                    need |-> Target(p[2]) - Available(p[2])]
  BY <1>1
<1>3. /\ DOMAIN rows = Live
      /\ \A a \in Live : /\ rows[a].available \in Shows(Available(a))
                         /\ rows[a].target \in Shows(Target(a))
  BY DEF ShownRows
<1>4. PICK a, b : a = p[1] /\ b = p[2] /\ a \in Live /\ b \in Live
  BY <1>3 DEF Candidates
<1>5. ASSUME NEW c \in Live
      PROVE  Available(c) \in SmallAmount /\ Target(c) \in SmallAmount
  <2>1. account[c].ratio \in 0 .. 100
    BY AccountFields DEF Live, RowStates
  <2>2. QED
    BY <2>1, ShareOfTotal DEF SmallBalances, Target, TargetOf
<1>6. ASSUME NEW c \in Live
      PROVE  /\ rows[c].available \in Int /\ rows[c].available >= Available(c) - 51
             /\ rows[c].available <= Available(c) + 50
             /\ rows[c].target \in Int /\ rows[c].target >= Target(c) - 51
             /\ rows[c].target <= Target(c) + 50
  BY <1>3, <1>5, ShownNearby
<1>7. /\ planned'.amount = AmountBetween(rows[a], rows[b])
      /\ planned'.spare = Available(a) - Target(a)
      /\ planned'.need = Target(b) - Available(b)
  BY <1>2, <1>4
<1>8. \A c \in Live : Available(c) \in Int /\ Target(c) \in Int
  BY <1>5, SMT DEF SmallAmount
<1>9. AmountBetween(rows[a], rows[b]) <= rows[a].available - rows[a].target
      /\ AmountBetween(rows[a], rows[b]) <= rows[b].target - rows[b].available
      /\ AmountBetween(rows[a], rows[b]) \in Int
  BY <1>4, <1>6 DEF AmountBetween, Smaller
<1>10. QED
  BY <1>4, <1>6, <1>7, <1>8, <1>9 DEF PlanIsModest

(* As long as the balances are below a million, no planned transfer takes   *)
(* more than the source has beyond its target, or gives more than the other *)
(* account lacks, by more than the 101 dollars the texts round away.        *)
THEOREM PlansAreModest == AccountSpec /\ []SmallBalances => []PlanIsModest
<1>1. AccountInit => PlanIsModest
  BY DEF AccountInit, PlanIsModest, NoPlan
<1>2. AccountInv /\ SmallBalances /\ PlanIsModest /\ [AccountNext]_accountVars => PlanIsModest'
  <2> SUFFICES ASSUME AccountInv, SmallBalances, PlanIsModest, [AccountNext]_accountVars
               PROVE  PlanIsModest'
    OBVIOUS
  <2>1. CASE PlanTransfer
    BY <2>1, PlanIsNear
  <2>2. CASE ~PlanTransfer
    <3>1. planned' = planned
      BY <2>2 DEF AccountNext, accountVars, MonitorStep, ReadToPrime, Prime, BeginPass,
         FetchBalance, FetchFails, CacheBalance, CacheWriteFails, StoreBalance,
         StoreVerdict, RowWriteFails, MonitorDies, CreateAccount, UpdateAccount,
         DeleteAccount, TestConnection, SetRatio, FundsMove, Expire, ForgetBalance,
         ForgetFails, TakeSnapshot, StoreSnapshot, SnapshotWriteFails, SeedBalance,
         SeedFails, RefreshNetworks, RequestDies, RevokeKey, ghosts, world
    <3>2. QED
      BY <3>1 DEF PlanIsModest
  <2>3. QED
    BY <2>1, <2>2
<1>3. QED
  BY <1>1, <1>2, AccountInvariance, PTL DEF AccountSpec
=============================================================================
