--------------------------- MODULE OrderLegProofs ---------------------------
(***************************************************************************)
(* Proofs about OrderLeg, for every quantity, contract size, retry limit   *)
(* and bound.  The safety properties are conjuncts or consequences of one  *)
(* inductive invariant, IndInv, whose parts say                            *)
(*   - what the thread's copy of the row still has in common with the row  *)
(*     at each point of a round (CopyAgrees),                              *)
(*   - what the exchange's book looks like and what a reply of fetch_order *)
(*     still says about it (BookSane, ReplyStands),                        *)
(*   - which orders may be live, and how large they are (Quiet, Tracked),  *)
(*   - who has paid for the orders sent so far (Paid).                     *)
(* That no fill is booked twice takes a second invariant on top of it,     *)
(* Booked, and a driver that reports a partly filled order as partial.     *)
(***************************************************************************)
EXTENDS OrderLeg, TLAPS

Placing == {"create", "ack", "raised"}
Judging == {"fetched", "position", "decide"}

(* Nobody else writes the row, so what the thread read of it stays right    *)
(* but for the status it has overwritten itself.                            *)
CopyAgrees ==
    /\ pc # "idle" =>
          /\ snap.oid = row.oid
          /\ snap.requested = row.requested
          /\ snap.filled = row.filled
          /\ snap.retry = row.retry
          /\ row.status \in ActiveStatuses
    /\ pc = "picked" => snap.status = row.status
    /\ pc \in Placing => row.status = "submitting"
    /\ pc \in Judging \cup {"repost"} =>
          /\ row.status \in {"submitting", "submitted", "partial"}
          /\ snap.oid # None

(* Ids are given out in order; a live order has something left to fill.     *)
BookSane ==
    /\ \A o \in OrderIds :
          /\ o <= placed <=> orders[o].state # "none"
          /\ orders[o].state = "live" => orders[o].filled < orders[o].qty
    /\ row.oid <= placed
    /\ row.requested > 0
    /\ pc = "ack" => newId = placed /\ newId \in OrderIds

(* An order that ended stays as fetch_order reported it; an order reported  *)
(* live had less than its quantity filled.                                  *)
ReplyStands ==
    /\ pc \in Judging =>
          /\ reply.status = "filled" => orders[snap.oid].state = "closed"
          /\ reply.status = "cancelled" => orders[snap.oid].state = "canceled"
          /\ reply.status = "rejected" => orders[snap.oid].state = "rejected"
    /\ pc \in Judging \cup {"repost"} =>
          \/ reply.status \in {"filled", "cancelled", "rejected"}
          \/ astray = {} => reply.filled < snap.requested
    /\ pc = "repost" => reply.status \in {"open", "partial"}

(* No order trades on behind the back of a leg at rest or about to be sent. *)
Quiet ==
    /\ row.status = "pending" \/ pc \in {"create", "raised", "repost"} =>
          Live \subseteq astray
    /\ pc = "ack" => Live \ astray \subseteq {newId}
    /\ row.status \in FinalStatuses /\ enabled /\ account => Live \subseteq astray

(* The orders the thread can still name are as large as the row asks for.   *)
Tracked ==
    /\ LiveOrdersKnown
    /\ \A o \in Live \ astray : orders[o].qty = row.requested
    /\ astray = {} /\ (row.status # "failed" \/ Live # {}) =>
          counted + row.requested <= Quantity

Funds == row.retry + cancels + crashes

(* An order not yet followed by a retry, a cancel or a death is the last.   *)
Paid ==
    /\ placed <= Funds + 1
    /\ row.status = "pending" \/ pc = "create" => placed <= Funds
    /\ pc = "ack" /\ orders[newId].state = "canceled" => placed <= Funds
    /\ /\ pc \notin {"ack", "raised", "repost"}
       /\ row.oid # None
       /\ orders[row.oid].state = "canceled"
       => placed <= Funds

IndInv ==
    /\ TypeOK
    /\ CopyAgrees
    /\ BookSane
    /\ ReplyStands
    /\ Quiet
    /\ Tracked
    /\ RetryBudget
    /\ Paid

-----------------------------------------------------------------------------
USE ActionAssumption, QuantityAssumption, ContractAssumption, RetryAssumption,
    LimitAssumption, ReportAssumption, FlagAssumption

(* The leg a plan creates, and the reply of an order just sent, are typed.  *)
LEMMA InitialTypes == NewLeg \in Legs /\ NoReply \in Replies
  BY DEF NewLeg, NoReply, Legs, Replies, LegStatuses, ActiveStatuses, None

(* What fields a row has.                                                   *)
LEMMA LegFields ==
  ASSUME NEW leg \in Legs
  PROVE  /\ leg.status \in LegStatuses
         /\ leg.oid \in OrderIds \cup {None}
         /\ leg.requested \in 0 .. Quantity
         /\ leg.filled \in Nat
         /\ leg.retry \in 0 .. RetryLimit
  BY DEF Legs

(* A rewritten status, and a rewritten retry count or id, keep a row a row. *)
LEMMA StatusWrite ==
  ASSUME NEW leg \in Legs, NEW s \in LegStatuses
  PROVE  LET new == [leg EXCEPT !.status = s] IN
         /\ new \in Legs
         /\ new.status = s
         /\ new.oid = leg.oid
         /\ new.requested = leg.requested
         /\ new.filled = leg.filled
         /\ new.retry = leg.retry
  BY DEF Legs

(* Contracts and base units are counted in natural numbers.                 *)
LEMMA BaseIsNat == \A q \in Nat : ToBase(q) \in Nat
<1>1. ASSUME NEW q \in Nat, NEW c \in Nat
      PROVE  q * c \in Nat
  OBVIOUS
<1>2. QED
  BY <1>1 DEF ToBase

(* The larger of a natural number and an integer is a natural number no     *)
(* smaller than either.                                                     *)
LEMMA LargerIsNat ==
  ASSUME NEW a \in Nat, NEW b \in Int
  PROVE  Larger(a, b) \in Nat /\ Larger(a, b) >= a /\ Larger(a, b) >= b
  BY DEF Larger

(* What the thread holds after a round, nothing, is typed.                  *)
LEMMA ReturnTypes ==
  ASSUME Return
  PROVE  /\ pc' = "idle"
         /\ pc' \in PCs
         /\ snap' \in Legs
         /\ reply' \in Replies
         /\ newId' \in OrderIds \cup {None}
  BY InitialTypes DEF Return, PCs

(* A round that ends keeps the invariant, if the row it leaves behind does: *)
(* the thread has nothing in its hands any more.                            *)
LEMMA RoundEnds ==
  ASSUME IndInv,
         Return,
         UNCHANGED <<action, exchangeVars, switchVars, cancels, crashes, astray>>,
         UNCHANGED <<aged, polls, position, recorded>>,
         counted' \in Nat,
         row' \in Legs,
         row'.oid = row.oid,
         row'.requested > 0,
         Live \ astray \subseteq {row.oid},
         Live \subseteq astray \/ row'.requested = row.requested,
         row'.status = "pending"
            \/ (row'.status \in FinalStatuses /\ enabled /\ account)
            => Live \subseteq astray,
         astray = {} /\ (row'.status # "failed" \/ Live # {})
            => counted' + row'.requested <= Quantity,
         row'.retry >= RetryLimit => row'.status = "failed",
         placed <= row'.retry + cancels + crashes + 1,
         row'.status = "pending"
            \/ (row.oid # None /\ orders[row.oid].state = "canceled")
            => placed <= row'.retry + cancels + crashes
  PROVE  IndInv'
<1> USE DEF IndInv
<1>1. TypeOK'
  BY ReturnTypes DEF TypeOK, exchangeVars, switchVars
<1>2. Live' = Live
  BY DEF Live, exchangeVars
<1>3. CopyAgrees' /\ ReplyStands'
  BY ReturnTypes DEF CopyAgrees, ReplyStands, Placing, Judging
<1>4. BookSane'
  BY ReturnTypes DEF BookSane, exchangeVars
<1>5. Quiet'
  <2>1. pc' = "idle" /\ astray' = astray /\ enabled' = enabled /\ account' = account
    BY ReturnTypes DEF switchVars
  <2>2. QED
    BY <1>2, <2>1 DEF Quiet
<1>6. Tracked'
  BY <1>2, ReturnTypes DEF Tracked, LiveOrdersKnown, exchangeVars
<1>7. RetryBudget'
  BY DEF RetryBudget
<1>8. Paid'
  <2>1. pc' = "idle" /\ orders' = orders /\ placed' = placed
    BY ReturnTypes DEF exchangeVars
  <2>2. QED
    BY <2>1 DEF Paid, Funds
<1>9. QED
  BY <1>1, <1>3, <1>4, <1>5, <1>6, <1>7, <1>8

-----------------------------------------------------------------------------
(* Rounds that end with one write, or with none.                            *)

(* What the invariant says about the ranges of the variables, for citing.   *)
LEMMA InvTypes ==
  ASSUME IndInv
  PROVE  /\ row \in Legs /\ snap \in Legs /\ reply \in Replies
         /\ row.requested > 0
         /\ placed \in Nat /\ cancels \in Nat /\ crashes \in Nat /\ counted \in Nat
  BY DEF IndInv, TypeOK, BookSane, OrderIds, None

(* A round the thread may end by rewriting the row's status, and what it    *)
(* knows to be filled.                                                      *)
LEMMA StatusRoundEnds ==
  ASSUME IndInv,
         pc \in {"picked"} \cup Judging,
         Return,
         UNCHANGED <<action, exchangeVars, switchVars, ghostVars>>,
         UNCHANGED <<aged, polls, position, recorded>>,
         row' \in Legs,
         row'.oid = row.oid,
         row'.requested = row.requested,
         row'.retry = row.retry,
         (row'.status = "pending"
            \/ (row'.status \in FinalStatuses /\ enabled /\ account))
            => Live \subseteq astray,
         row'.status = "pending" => placed <= Funds
  PROVE  IndInv'
<1>1. pc \notin {"idle", "ack", "raised", "repost"}
  BY DEF Judging
<1>2. row.retry < RetryLimit
  BY <1>1, InvTypes, LegFields DEF IndInv, CopyAgrees, RetryBudget, ActiveStatuses
<1>3. Live \ astray \subseteq {row.oid}
  BY <1>1 DEF IndInv, Tracked, LiveOrdersKnown
<1>4. astray = {} => counted + row.requested <= Quantity
  BY <1>1 DEF IndInv, CopyAgrees, ActiveStatuses, Tracked
<1>5. placed <= row.retry + cancels + crashes + 1
  BY DEF IndInv, Paid, Funds
<1>6. row.oid # None /\ orders[row.oid].state = "canceled"
         => placed <= row.retry + cancels + crashes
  BY <1>1 DEF IndInv, Paid, Funds
<1>7. UNCHANGED <<cancels, crashes, astray, counted>>
  BY DEF ghostVars
<1>8. row.retry \in Nat
  BY InvTypes, LegFields
<1>9. QED
  BY <1>2, <1>3, <1>4, <1>5, <1>6, <1>7, <1>8, InvTypes, RoundEnds DEF Funds

(* The statuses the code writes.                                            *)
LEMMA StatusNames ==
  /\ {"pending", "submitting", "submitted", "partial", "filled", "failed"}
        \subseteq LegStatuses
  /\ "filled" \in FinalStatuses /\ "failed" \in FinalStatuses
  /\ "pending" \notin FinalStatuses /\ "partial" \notin FinalStatuses
  BY DEF LegStatuses, ActiveStatuses, FinalStatuses

(* The fill an exchange reports is a natural number of base units.          *)
LEMMA ReplyIsNat == IndInv => ToBase(reply.filled) \in Nat
  BY InvTypes, BaseIsNat DEF Replies

(* What the thread sees ended at the exchange is ended: no order is live.   *)
LEMMA EndedReplyIsQuiet ==
  ASSUME IndInv,
         pc \in Judging,
         reply.status \in {"filled", "cancelled", "rejected"}
  PROVE  /\ Live \subseteq astray
         /\ reply.status = "cancelled" => placed <= Funds
<1>1. /\ snap.oid = row.oid /\ row.oid # None /\ pc \notin {"idle", "ack", "raised", "repost"}
  BY DEF IndInv, CopyAgrees, Judging
<1>2. orders[row.oid].state # "live"
  BY <1>1 DEF IndInv, ReplyStands
<1>3. Live \subseteq astray
  BY <1>1, <1>2 DEF IndInv, Tracked, LiveOrdersKnown, Live
<1>4. reply.status = "cancelled" => orders[row.oid].state = "canceled"
  BY <1>1 DEF IndInv, ReplyStands
<1>5. QED
  BY <1>1, <1>3, <1>4 DEF IndInv, Paid

(* Every way a round may end without a retry keeps the invariant.           *)
LEMMA EndOfRoundKeeps ==
  ASSUME IndInv,
         \/ BlockDisabledOpening \/ FailWithoutAccount \/ SkipCloseLeg
         \/ MonitorWithoutOrder \/ FetchFails \/ KeepOpen \/ KeepPartial
         \/ MarkFilled \/ RepostCancelled \/ FailUnknownStatus
  PROVE  IndInv'
<1>1. CASE BlockDisabledOpening
  <2>1. row' = [row EXCEPT !.status = "failed"] /\ ~enabled
    BY <1>1 DEF BlockDisabledOpening, Blocked, Finish
  <2>2. QED
    BY <1>1, <2>1, InvTypes, StatusNames, StatusWrite, StatusRoundEnds
       DEF BlockDisabledOpening, Finish
<1>2. CASE FailWithoutAccount
  <2>1. row' = [row EXCEPT !.status = "failed"]
    BY <1>2 DEF FailWithoutAccount, Finish
  <2>2. QED
    BY <1>2, <2>1, InvTypes, StatusNames, StatusWrite, StatusRoundEnds
       DEF FailWithoutAccount, Finish
<1>3. CASE SkipCloseLeg
  <2>1. /\ row' \in Legs
        /\ row'.status = "filled"
        /\ row'.oid = row.oid
        /\ row'.requested = row.requested
        /\ row'.retry = row.retry
    <3>1. row' = [row EXCEPT !.status = "filled", !.filled = 0]
      BY <1>3 DEF SkipCloseLeg, Finish
    <3>2. QED
      BY <3>1, InvTypes, StatusNames DEF Legs
  <2>2. Live \subseteq astray
    BY <1>3 DEF SkipCloseLeg, Submitting, IndInv, CopyAgrees, Quiet
  <2>3. QED
    BY <1>3, <2>1, <2>2, StatusRoundEnds DEF SkipCloseLeg, Submitting, Finish
<1>4. CASE MonitorWithoutOrder \/ FetchFails \/ KeepOpen
  <2>1. /\ pc \in {"picked"} \cup Judging
        /\ Return
        /\ row' = row
        /\ UNCHANGED <<action, exchangeVars, switchVars, ghostVars>>
        /\ UNCHANGED <<aged, polls, position, recorded>>
    BY <1>4 DEF MonitorWithoutOrder, FetchFails, KeepOpen, Monitoring, Judging,
                legVars
  <2>2. row.status \notin FinalStatuses
    BY <2>1 DEF IndInv, CopyAgrees, Judging, ActiveStatuses, FinalStatuses
  <2>3. row.status = "pending" => Live \subseteq astray /\ placed <= Funds
    BY DEF IndInv, Quiet, Paid
  <2>4. QED
    BY <2>1, <2>2, <2>3, InvTypes, StatusRoundEnds
<1>5. CASE KeepPartial
  <2>1. /\ row' \in Legs
        /\ row'.status = "partial"
        /\ row'.oid = row.oid
        /\ row'.requested = row.requested
        /\ row'.retry = row.retry
    <3>1. row' = [row EXCEPT !.status = "partial", !.filled = ToBase(reply.filled)]
      BY <1>5 DEF KeepPartial, Finish
    <3>2. QED
      BY <3>1, InvTypes, StatusNames, ReplyIsNat DEF Legs
  <2>2. QED
    BY <1>5, <2>1, StatusNames, StatusRoundEnds
       DEF KeepPartial, Finish, Judging
<1>6. CASE MarkFilled
  <2>1. /\ row' \in Legs
        /\ row'.status = "filled"
        /\ row'.oid = row.oid
        /\ row'.requested = row.requested
        /\ row'.retry = row.retry
    <3>1. row' = [row EXCEPT !.status = "filled", !.filled = ToBase(reply.filled)]
      BY <1>6 DEF MarkFilled, Finish
    <3>2. QED
      BY <3>1, InvTypes, StatusNames, ReplyIsNat DEF Legs
  <2>2. Live \subseteq astray
    BY <1>6, EndedReplyIsQuiet DEF MarkFilled, Judging
  <2>3. QED
    BY <1>6, <2>1, <2>2, StatusRoundEnds DEF MarkFilled, Finish, Judging
<1>7. CASE RepostCancelled
  <2>1. row' = [row EXCEPT !.status = "pending"]
    <3>1. row.retry < RetryLimit /\ snap.retry = row.retry
      BY <1>7, InvTypes, LegFields
         DEF RepostCancelled, IndInv, CopyAgrees, RetryBudget, ActiveStatuses
    <3>2. QED
      BY <1>7, <3>1, InvTypes, LegFields DEF RepostCancelled, Finish
  <2>2. Live \subseteq astray /\ placed <= Funds
    BY <1>7, EndedReplyIsQuiet DEF RepostCancelled, Judging
  <2>3. QED
    BY <1>7, <2>1, <2>2, InvTypes, StatusNames, StatusWrite, StatusRoundEnds
       DEF RepostCancelled, Finish, Judging
<1>8. CASE FailUnknownStatus
  <2>1. row' = [row EXCEPT !.status = "failed"]
    BY <1>8 DEF FailUnknownStatus, Finish
  <2>2. Live \subseteq astray
    BY <1>8, EndedReplyIsQuiet DEF FailUnknownStatus, Judging
  <2>3. QED
    BY <1>8, <2>1, <2>2, InvTypes, StatusNames, StatusWrite, StatusRoundEnds
       DEF FailUnknownStatus, Finish, Judging
<1>9. QED
  BY <1>1, <1>2, <1>3, <1>4, <1>5, <1>6, <1>7, <1>8

-----------------------------------------------------------------------------
(* Scan and submission.                                                     *)

(* Reading the leg (list_pending_order_legs) keeps the invariant.           *)
LEMMA ScanKeeps == IndInv /\ Scan => IndInv'
<1> SUFFICES ASSUME IndInv, Scan PROVE IndInv'
  OBVIOUS
<1> USE DEF IndInv, Scan, legVars, exchangeVars, switchVars, ghostVars
<1>1. TypeOK'
  BY DEF TypeOK, PCs
<1>2. CopyAgrees' /\ ReplyStands'
  BY DEF CopyAgrees, ReplyStands, Placing, Judging
<1>3. BookSane'
  BY DEF BookSane
<1>4. Quiet' /\ Tracked'
  BY DEF Quiet, Tracked, LiveOrdersKnown, Live
<1>5. RetryBudget' /\ Paid'
  BY DEF RetryBudget, Paid, Funds
<1>6. QED
  BY <1>1, <1>2, <1>3, <1>4, <1>5

(* Writing submitting before the order is sent keeps the invariant: a leg   *)
(* that is sent has nothing trading and has paid for the orders before.     *)
LEMMA BeginSubmitKeeps == IndInv /\ BeginSubmit => IndInv'
<1> SUFFICES ASSUME IndInv, BeginSubmit PROVE IndInv'
  OBVIOUS
<1> USE DEF IndInv
<1>1. /\ pc = "picked" /\ pc' = "create"
      /\ row.status = "pending"
      /\ UNCHANGED <<orders, placed, astray, snap, enabled, account, counted>>
  BY DEF BeginSubmit, Submitting, CopyAgrees, exchangeVars, switchVars, ghostVars
<1>2. /\ row' \in Legs /\ row'.status = "submitting" /\ row'.oid = row.oid
      /\ row'.requested = row.requested /\ row'.filled = row.filled
      /\ row'.retry = row.retry
  BY InvTypes, StatusNames, StatusWrite DEF BeginSubmit
<1>3. TypeOK'
  <2>1. polls' \in 0 .. PollLimit
    BY DEF BeginSubmit
  <2>2. QED
    BY <1>2, <2>1 DEF BeginSubmit, TypeOK, PCs, exchangeVars, switchVars, ghostVars
<1>4. CopyAgrees' /\ ReplyStands'
  BY <1>1, <1>2 DEF CopyAgrees, ReplyStands, Placing, Judging, ActiveStatuses
<1>5. BookSane'
  BY <1>1, <1>2 DEF BookSane
<1>6. Quiet' /\ Tracked'
  BY <1>1, <1>2 DEF Quiet, Tracked, LiveOrdersKnown, Live, FinalStatuses
<1>7. RetryBudget' /\ Paid'
  <2>1. row.retry < RetryLimit
    BY <1>1, InvTypes, LegFields DEF RetryBudget
  <2>2. placed <= Funds /\ Funds' = Funds
    BY <1>1, <1>2 DEF Paid, Funds, BeginSubmit, ghostVars
  <2>3. Funds \in Nat
    BY InvTypes, LegFields DEF Funds
  <2>4. QED
    BY <1>1, <1>2, <2>1, <2>2, <2>3, InvTypes, LegFields DEF RetryBudget, Paid
<1>8. QED
  BY <1>3, <1>4, <1>5, <1>6, <1>7

(* An order is sent: the exchange knows one id more, and it is live.        *)
LEMMA PlacedBook ==
  ASSUME IndInv, pc = "create", PlaceOrder
  PROVE  /\ placed' = placed + 1
         /\ placed + 1 \in OrderIds
         /\ orders' \in [OrderIds -> Orders]
         /\ orders'[placed + 1].state = "live"
         /\ orders'[placed + 1].qty = row.requested
         /\ \A o \in OrderIds \ {placed + 1} : orders'[o] = orders[o]
         /\ Live' = Live \cup {placed + 1}
         /\ \A o \in OrderIds :
               /\ o <= placed' <=> orders'[o].state # "none"
               /\ orders'[o].state = "live" => orders'[o].filled < orders'[o].qty
<1> DEFINE new == [qty |-> snap.requested, filled |-> 0, state |-> "live"]
<1>1. snap.requested = row.requested /\ row.requested \in 1 .. Quantity
  BY InvTypes, LegFields DEF IndInv, CopyAgrees
<1>2. new \in Orders
  BY <1>1 DEF Orders, OrderStates
<1>3. orders \in [OrderIds -> Orders] /\ placed \in Nat
  BY InvTypes DEF IndInv, TypeOK
<1>4. /\ placed' = placed + 1
      /\ placed + 1 \in OrderIds
      /\ orders' = [orders EXCEPT ![placed + 1] = new]
  BY DEF PlaceOrder
<1>5. /\ orders' \in [OrderIds -> Orders]
      /\ orders'[placed + 1] = new
      /\ \A o \in OrderIds \ {placed + 1} : orders'[o] = orders[o]
  BY <1>2, <1>3, <1>4
<1>6. new.state = "live" /\ new.qty = row.requested /\ new.filled = 0
  BY <1>1
<1> HIDE DEF new
<1>7. Live' = Live \cup {placed + 1}
  BY <1>4, <1>5, <1>6 DEF Live
<1>8. \A o \in OrderIds :
         /\ o <= placed <=> orders[o].state # "none"
         /\ orders[o].state = "live" => orders[o].filled < orders[o].qty
  BY DEF IndInv, BookSane
<1>9. ASSUME NEW o \in OrderIds
      PROVE  /\ o <= placed' <=> orders'[o].state # "none"
             /\ orders'[o].state = "live" => orders'[o].filled < orders'[o].qty
  <2>1. o \in Nat
    BY DEF OrderIds
  <2>2. CASE o = placed + 1
    BY <2>2, <1>1, <1>3, <1>4, <1>5, <1>6
  <2>3. CASE o # placed + 1
    BY <2>1, <2>3, <1>3, <1>4, <1>5, <1>8
  <2>4. QED
    BY <2>2, <2>3
<1>10. QED
  BY <1>4, <1>5, <1>6, <1>7, <1>9

(* An order sent and acknowledged is the only one that trades; the thread   *)
(* holds its id.                                                            *)
LEMMA CreateAcceptedKeeps == IndInv /\ CreateAccepted => IndInv'
<1> SUFFICES ASSUME IndInv, CreateAccepted PROVE IndInv'
  OBVIOUS
<1> USE DEF IndInv
<1>1. /\ pc = "create" /\ pc' = "ack" /\ newId' = placed + 1 /\ PlaceOrder
      /\ UNCHANGED <<row, snap, astray, enabled, account, counted>>
      /\ UNCHANGED <<cancels, crashes>>
  BY DEF CreateAccepted, legVars, switchVars, ghostVars
<1>2. row.status = "submitting" /\ Live \subseteq astray
  BY <1>1 DEF CopyAgrees, Placing, Quiet
<1>3. TypeOK'
  BY <1>1, PlacedBook
     DEF CreateAccepted, TypeOK, PCs, legVars, switchVars, ghostVars
<1>4. CopyAgrees' /\ ReplyStands'
  BY <1>1 DEF CopyAgrees, ReplyStands, Placing, Judging
<1>5. BookSane'
  BY <1>1, PlacedBook, InvTypes, LegFields DEF BookSane, OrderIds, None
<1>6. Quiet' /\ Tracked'
  BY <1>1, <1>2, PlacedBook
     DEF Quiet, Tracked, LiveOrdersKnown, FinalStatuses
<1>7. RetryBudget' /\ Paid'
  <2>1. placed <= Funds /\ Funds' = Funds /\ Funds \in Nat
    BY <1>1, InvTypes, LegFields DEF Paid, Funds
  <2>2. orders'[newId'].state = "live"
    BY <1>1, PlacedBook
  <2>3. QED
    BY <1>1, <1>2, <2>1, <2>2, PlacedBook, InvTypes DEF RetryBudget, Paid
<1>8. QED
  BY <1>3, <1>4, <1>5, <1>6, <1>7

(* An order whose acknowledgement is lost goes astray.                      *)
LEMMA CreateLostKeeps == IndInv /\ CreateLost => IndInv'
<1> SUFFICES ASSUME IndInv, CreateLost PROVE IndInv'
  OBVIOUS
<1> USE DEF IndInv
<1>1. /\ pc = "create" /\ pc' = "raised" /\ astray' = astray \cup {placed + 1}
      /\ PlaceOrder
      /\ UNCHANGED <<row, snap, enabled, account, counted, cancels, crashes>>
  BY DEF CreateLost, legVars, switchVars
<1>2. row.status = "submitting" /\ Live \subseteq astray
  BY <1>1 DEF CopyAgrees, Placing, Quiet
<1>3. Live' \subseteq astray'
  BY <1>1, <1>2, PlacedBook
<1>4. TypeOK'
  BY <1>1, PlacedBook DEF CreateLost, TypeOK, PCs, legVars, switchVars
<1>5. CopyAgrees' /\ ReplyStands'
  BY <1>1 DEF CopyAgrees, ReplyStands, Placing, Judging
<1>6. BookSane'
  BY <1>1, PlacedBook, InvTypes, LegFields DEF BookSane, OrderIds, None
<1>7. Quiet' /\ Tracked'
  BY <1>1, <1>2, <1>3 DEF Quiet, Tracked, LiveOrdersKnown, FinalStatuses
<1>8. RetryBudget' /\ Paid'
  <2>1. placed <= Funds /\ Funds' = Funds /\ Funds \in Nat
    BY <1>1, InvTypes, LegFields DEF Paid, Funds
  <2>2. QED
    BY <1>1, <1>2, <2>1, PlacedBook, InvTypes DEF RetryBudget, Paid
<1>9. QED
  BY <1>4, <1>5, <1>6, <1>7, <1>8

(* An order the exchange refuses changes nothing at the exchange.           *)
LEMMA CreateRefusedKeeps == IndInv /\ CreateRefused => IndInv'
<1> SUFFICES ASSUME IndInv, CreateRefused PROVE IndInv'
  OBVIOUS
<1> USE DEF IndInv, CreateRefused, legVars, exchangeVars, switchVars, ghostVars
<1>1. TypeOK'
  BY DEF TypeOK, PCs
<1>2. CopyAgrees' /\ ReplyStands'
  BY DEF CopyAgrees, ReplyStands, Placing, Judging
<1>3. BookSane'
  BY DEF BookSane
<1>4. Quiet' /\ Tracked'
  BY DEF Quiet, Tracked, LiveOrdersKnown, Live
<1>5. RetryBudget' /\ Paid'
  BY DEF RetryBudget, Paid, Funds, CopyAgrees, Placing
<1>6. QED
  BY <1>1, <1>2, <1>3, <1>4, <1>5

(* The id written to the row names the only order that trades.              *)
LEMMA RecordSubmittedKeeps == IndInv /\ RecordSubmitted => IndInv'
<1> SUFFICES ASSUME IndInv, RecordSubmitted PROVE IndInv'
  OBVIOUS
<1> USE DEF IndInv
<1>1. /\ pc = "ack" /\ pc' = "idle" /\ Return
      /\ row' = [row EXCEPT !.status = "submitted", !.oid = newId]
      /\ UNCHANGED <<action, exchangeVars, switchVars, ghostVars>>
      /\ UNCHANGED <<aged, polls, position, recorded>>
  BY DEF RecordSubmitted, Finish, Return
<1>2. newId = placed /\ newId \in OrderIds
  BY <1>1 DEF BookSane
<1>3. /\ row' \in Legs /\ row'.status = "submitted" /\ row'.oid = newId
      /\ row'.requested = row.requested /\ row'.retry = row.retry
  BY <1>1, <1>2, InvTypes, StatusNames DEF Legs
<1>4. Live' = Live /\ astray' = astray
  BY <1>1 DEF Live, exchangeVars, ghostVars
<1>5. TypeOK'
  BY <1>1, <1>3, ReturnTypes DEF TypeOK, exchangeVars, switchVars, ghostVars
<1>6. CopyAgrees' /\ ReplyStands'
  BY <1>1 DEF CopyAgrees, ReplyStands, Placing, Judging
<1>7. BookSane'
  BY <1>1, <1>2, <1>3, InvTypes DEF BookSane, exchangeVars
<1>8. Quiet'
  BY <1>1, <1>3, <1>4 DEF Quiet, FinalStatuses
<1>9. Tracked'
  BY <1>1, <1>3, <1>4 DEF Quiet, Tracked, LiveOrdersKnown, CopyAgrees, Placing,
                          exchangeVars, ghostVars
<1>10. RetryBudget' /\ Paid'
  <2>1. Funds' = Funds /\ placed' = placed /\ orders' = orders
    BY <1>1, <1>3 DEF Funds, exchangeVars, ghostVars
  <2>2. row.status = "submitting"
    BY <1>1 DEF CopyAgrees, Placing
  <2>3. QED
    BY <1>1, <1>2, <1>3, <2>1, <2>2 DEF RetryBudget, Paid
<1>11. QED
  BY <1>5, <1>6, <1>7, <1>8, <1>9, <1>10

(* When that write fails, the order just sent goes astray.                  *)
LEMMA RecordSubmittedFailsKeeps == IndInv /\ RecordSubmittedFails => IndInv'
<1> SUFFICES ASSUME IndInv, RecordSubmittedFails PROVE IndInv'
  OBVIOUS
<1> USE DEF IndInv
<1>1. /\ pc = "ack" /\ pc' = "raised" /\ astray' = astray \cup {newId}
      /\ UNCHANGED <<row, snap, enabled, account, counted, cancels, crashes>>
      /\ UNCHANGED <<orders, placed>>
  BY DEF RecordSubmittedFails, legVars, switchVars, exchangeVars
<1>2. newId \in OrderIds /\ row.status = "submitting"
  BY <1>1 DEF BookSane, CopyAgrees, Placing
<1>3. Live' = Live /\ Live \subseteq astray'
  BY <1>1 DEF Live, Quiet
<1>4. TypeOK'
  BY <1>1, <1>2 DEF RecordSubmittedFails, TypeOK, PCs, legVars, switchVars,
                    exchangeVars
<1>5. CopyAgrees' /\ ReplyStands'
  BY <1>1 DEF CopyAgrees, ReplyStands, Placing, Judging
<1>6. BookSane'
  BY <1>1 DEF BookSane
<1>7. Quiet' /\ Tracked'
  BY <1>1, <1>2, <1>3 DEF Quiet, Tracked, LiveOrdersKnown, FinalStatuses
<1>8. RetryBudget' /\ Paid'
  BY <1>1, <1>2 DEF RetryBudget, Paid, Funds
<1>9. QED
  BY <1>4, <1>5, <1>6, <1>7, <1>8

(* A retry is spent: it is within the budget, and it pays for the order.    *)
LEMMA RetrySpent ==
  ASSUME IndInv, pc \in {"raised", "repost"}
  PROVE  /\ RetryStatus \in LegStatuses /\ RetryStatus # "filled"
         /\ snap.retry + 1 = row.retry + 1
         /\ snap.retry + 1 \in 0 .. RetryLimit
         /\ snap.retry + 1 >= RetryLimit <=> RetryStatus = "failed"
         /\ placed <= (snap.retry + 1) + cancels + crashes
         /\ Live \subseteq astray
<1>1. row.retry < RetryLimit /\ snap.retry = row.retry /\ row.retry \in Nat
  BY InvTypes, LegFields DEF IndInv, CopyAgrees, RetryBudget, ActiveStatuses
<1>2. Live \subseteq astray
  BY DEF IndInv, Quiet
<1>3. placed <= row.retry + cancels + crashes + 1
  BY DEF IndInv, Paid, Funds
<1>4. /\ RetryStatus \in LegStatuses /\ RetryStatus # "filled"
      /\ snap.retry + 1 >= RetryLimit <=> RetryStatus = "failed"
  BY <1>1, StatusNames DEF RetryStatus
<1>5. QED
  BY <1>1, <1>2, <1>3, <1>4, InvTypes

(* A failed submission spends a retry, or ends the leg; nothing but orders  *)
(* astray trades then.                                                      *)
LEMMA RecordSubmitErrorKeeps == IndInv /\ RecordSubmitError => IndInv'
<1> SUFFICES ASSUME IndInv, RecordSubmitError PROVE IndInv'
  OBVIOUS
<1>1. /\ pc = "raised" /\ Return
      /\ row' = [row EXCEPT !.status = RetryStatus, !.retry = snap.retry + 1]
      /\ UNCHANGED <<action, exchangeVars, switchVars>>
      /\ UNCHANGED <<cancels, crashes, astray, counted>>
      /\ UNCHANGED <<aged, polls, position, recorded>>
  BY DEF RecordSubmitError, Finish, ghostVars
<1>2. /\ row' \in Legs /\ row'.status = RetryStatus /\ row'.oid = row.oid
      /\ row'.requested = row.requested /\ row'.retry = snap.retry + 1
  BY <1>1, InvTypes, RetrySpent DEF Legs
<1>3. astray = {} => counted + row.requested <= Quantity
  BY <1>1 DEF IndInv, Tracked, CopyAgrees, ActiveStatuses
<1>4. row'.retry \in Nat /\ row'.retry >= RetryLimit => row'.status = "failed"
  BY <1>1, <1>2, RetrySpent
<1>5. placed <= row'.retry + cancels + crashes
  BY <1>1, <1>2, RetrySpent
<1>6. Live \subseteq astray
  BY <1>1, RetrySpent
<1>7. row'.retry \in Nat
  BY <1>2, LegFields
<1>8. QED
  BY <1>1, <1>2, <1>3, <1>4, <1>5, <1>6, <1>7, InvTypes, RoundEnds

-----------------------------------------------------------------------------
(* Monitoring.                                                              *)

(* A reply of fetch_order is true when it is read, and stays true as far as *)
(* ReplyStands says.                                                        *)
LEMMA FetchOrderKeeps == IndInv /\ FetchOrder => IndInv'
<1> SUFFICES ASSUME IndInv, FetchOrder PROVE IndInv'
  OBVIOUS
<1> USE DEF IndInv
<1>1. /\ pc = "picked" /\ pc' = "fetched"
      /\ snap.oid = row.oid /\ row.oid \in OrderIds
      /\ row.status \in {"submitting", "submitted", "partial"}
      /\ UNCHANGED <<row, snap, orders, placed, enabled, account>>
      /\ UNCHANGED <<cancels, crashes, astray, counted>>
  BY InvTypes, LegFields
     DEF FetchOrder, Monitoring, CopyAgrees, ActiveStatuses, exchangeVars,
         switchVars, ghostVars
<1>2. PICK s \in ReportsOf(row.oid) :
         reply' = [status |-> s, filled |-> orders[row.oid].filled]
  BY <1>1 DEF FetchOrder
<1>3. /\ s \in {"open", "partial", "filled", "cancelled", "rejected"}
      /\ s = "filled" => orders[row.oid].state = "closed"
      /\ s = "cancelled" => orders[row.oid].state = "canceled"
      /\ s = "rejected" => orders[row.oid].state = "rejected"
      /\ s \in {"open", "partial"} => orders[row.oid].state \in {"none", "live"}
  <2>1. orders[row.oid].state \in OrderStates
    BY <1>1 DEF TypeOK, Orders
  <2>2. QED
    BY <2>1 DEF ReportsOf, OrderStates
<1>4. orders[row.oid] \in Orders
  BY <1>1 DEF TypeOK
<1>5. reply' \in Replies /\ reply'.status = s
         /\ reply'.filled = orders[row.oid].filled
  BY <1>2, <1>3, <1>4 DEF Replies, Orders
<1>6. astray = {} /\ s \in {"open", "partial"} => reply'.filled < row.requested
  <2>1. orders[row.oid].state # "none"
    BY <1>1 DEF BookSane
  <2>2. orders[row.oid].state = "live" =>
           orders[row.oid].filled < orders[row.oid].qty
    BY <1>1 DEF BookSane
  <2>3. orders[row.oid].state = "live" /\ astray = {} =>
           orders[row.oid].qty = row.requested
    BY <1>1 DEF Tracked, Live
  <2>4. QED
    BY <1>3, <1>5, <2>1, <2>2, <2>3
<1>7. TypeOK'
  <2>1. polls' \in 0 .. PollLimit
    BY DEF FetchOrder, TypeOK
  <2>2. QED
    BY <1>5, <2>1 DEF FetchOrder, TypeOK, PCs, exchangeVars, switchVars, ghostVars
<1>8. CopyAgrees'
  BY <1>1 DEF CopyAgrees, Placing, Judging, ActiveStatuses, OrderIds, None
<1>9. ReplyStands'
  BY <1>1, <1>3, <1>5, <1>6 DEF ReplyStands, Judging, CopyAgrees
<1>10. BookSane'
  BY <1>1 DEF BookSane
<1>11. Quiet' /\ Tracked'
  BY <1>1 DEF Quiet, Tracked, LiveOrdersKnown, Live
<1>12. RetryBudget' /\ Paid'
  BY <1>1 DEF RetryBudget, Paid, Funds
<1>13. QED
  BY <1>7, <1>8, <1>9, <1>10, <1>11, <1>12

(* Booking a fill touches neither the row nor the exchange.                 *)
LEMMA BookingKeeps ==
  ASSUME IndInv, RecordFill \/ UpdatePosition
  PROVE  IndInv'
<1> USE DEF IndInv
<1>1. Delta \in Nat
  <2>1. ToBase(reply.filled) \in Nat /\ snap.filled \in Nat
    BY InvTypes, LegFields, ReplyIsNat
  <2>2. QED
    BY <2>1, LargerIsNat DEF Delta, Larger
<1>2. /\ pc \in Judging /\ pc' \in {"position", "decide"}
      /\ UNCHANGED <<action, row, snap, reply, newId, orders, placed, held>>
      /\ UNCHANGED <<aged, polls, enabled, account>>
      /\ UNCHANGED <<cancels, crashes, astray, counted>>
  BY DEF RecordFill, UpdatePosition, Judging, exchangeVars, switchVars, ghostVars
<1>3. position' \in Nat /\ recorded' \in Nat
  BY <1>1, LargerIsNat DEF RecordFill, UpdatePosition, TypeOK, Larger
<1>4. TypeOK'
  BY <1>2, <1>3 DEF TypeOK, PCs
<1>5. CopyAgrees' /\ ReplyStands'
  BY <1>2 DEF CopyAgrees, ReplyStands, Placing, Judging
<1>6. BookSane'
  BY <1>2 DEF BookSane, Judging
<1>7. Quiet' /\ Tracked'
  BY <1>2 DEF Quiet, Tracked, LiveOrdersKnown, Live, Judging
<1>8. RetryBudget' /\ Paid'
  BY <1>2 DEF RetryBudget, Paid, Funds, Judging
<1>9. QED
  BY <1>4, <1>5, <1>6, <1>7, <1>8

(* After the cancel, successful or swallowed, the leg's order is ended or   *)
(* astray.                                                                  *)
LEMMA CancelKeeps ==
  ASSUME IndInv, CancelOrder \/ CancelRaises
  PROVE  IndInv'
<1> USE DEF IndInv
<1> DEFINE c == row.oid
<1>1. /\ pc = "decide" /\ pc' = "repost" /\ reply.status \in {"open", "partial"}
      /\ snap.oid = c /\ c \in OrderIds
      /\ row.status \in {"submitting", "submitted", "partial"}
      /\ UNCHANGED <<row, snap, reply, newId, placed, held, enabled, account>>
      /\ UNCHANGED <<action, aged, polls, position, recorded>>
      /\ UNCHANGED <<cancels, crashes, counted>>
  BY InvTypes, LegFields
     DEF CancelOrder, CancelRaises, TimedOut, CopyAgrees, Judging, exchangeVars,
         switchVars, ghostVars, legVars
<1>2. Live \ astray \subseteq {c}
  BY <1>1 DEF Tracked, LiveOrdersKnown
<1>3. /\ orders' \in [OrderIds -> Orders]
      /\ \A o \in OrderIds \ {c} : orders'[o] = orders[o]
      /\ orders'[c].qty = orders[c].qty /\ orders'[c].filled = orders[c].filled
      /\ orders'[c].state # orders[c].state =>
            orders[c].state = "live" /\ orders'[c].state = "canceled"
      /\ astray' \subseteq OrderIds /\ astray \subseteq astray'
      /\ Live' \subseteq astray'
  <2>1. orders \in [OrderIds -> Orders] /\ orders[c] \in Orders
        /\ astray \subseteq OrderIds
    BY <1>1 DEF TypeOK
  <2>2. CASE CancelOrder
    <3>1. /\ orders' = [orders EXCEPT ![c].state = "canceled"]
          /\ orders[c].state = "live" /\ astray' = astray
      BY <1>1, <2>2 DEF CancelOrder, ghostVars
    <3>2. /\ orders' \in [OrderIds -> Orders]
          /\ orders'[c].state = "canceled"
          /\ orders'[c].qty = orders[c].qty
          /\ orders'[c].filled = orders[c].filled
          /\ \A o \in OrderIds \ {c} : orders'[o] = orders[o]
      BY <1>1, <2>1, <3>1 DEF Orders, OrderStates
    <3>3. Live' \subseteq Live \ {c}
      BY <3>2 DEF Live
    <3>4. QED
      BY <1>2, <2>1, <3>1, <3>2, <3>3
  <2>3. CASE CancelRaises
    <3>1. /\ orders' = orders
          /\ astray' = IF orders[c].state = "live" THEN astray \cup {c} ELSE astray
      BY <1>1, <2>3 DEF CancelRaises, exchangeVars
    <3>2. Live' = Live /\ (c \in Live <=> orders[c].state = "live")
      BY <1>1, <3>1 DEF Live
    <3>3. QED
      BY <1>1, <1>2, <2>1, <3>1, <3>2
  <2>4. QED
    BY <2>2, <2>3
<1>4. TypeOK'
  BY <1>1, <1>3 DEF TypeOK, PCs
<1>5. CopyAgrees'
  BY <1>1 DEF CopyAgrees, Placing, Judging, ActiveStatuses, OrderIds, None
<1>6. ReplyStands'
  BY <1>1, <1>3 DEF ReplyStands, Judging
<1>7. BookSane'
  <2>1. ASSUME NEW o \in OrderIds
        PROVE  /\ o <= placed <=> orders'[o].state # "none"
               /\ orders'[o].state = "live" => orders'[o].filled < orders'[o].qty
    BY <1>1, <1>3 DEF BookSane
  <2>2. QED
    BY <1>1, <2>1 DEF BookSane
<1>8. Quiet' /\ Tracked'
  BY <1>1, <1>3 DEF Quiet, Tracked, LiveOrdersKnown, FinalStatuses
<1>9. RetryBudget' /\ Paid'
  BY <1>1 DEF RetryBudget, Paid, Funds
<1>10. QED
  BY <1>4, <1>5, <1>6, <1>7, <1>8, <1>9

(* What a retry asks for: something, and no more than the plan leaves over. *)
LEMMA NextRequestedFits ==
  ASSUME IndInv, pc = "repost"
  PROVE  /\ NextRequested \in 1 .. row.requested
         /\ astray = {} => reply.filled + NextRequested <= row.requested
         /\ TotalFilled \in Nat
<1>1. /\ snap.requested = row.requested /\ row.requested \in 1 .. Quantity
      /\ reply.filled \in Nat /\ snap.filled \in Nat
  BY InvTypes, LegFields DEF IndInv, CopyAgrees, Replies
<1>2. TotalFilled \in Nat
  BY <1>1, ReplyIsNat DEF TotalFilled, Larger
<1>3. astray = {} => reply.filled < row.requested
  BY <1>1 DEF IndInv, ReplyStands
<1>4. ToOrder(TotalFilled, reply.filled) \in Nat
  <2>1. ASSUME NEW b \in Nat, NEW c \in Nat \ {0}
        PROVE  b \div c \in Nat
    OBVIOUS
  <2>2. QED
    BY <1>1, <1>2, <2>1 DEF ToOrder
<1>5. reply.filled > 0 => ToOrder(TotalFilled, reply.filled) = reply.filled
  BY DEF ToOrder
<1>6. QED
  BY <1>1, <1>2, <1>3, <1>4, <1>5 DEF NextRequested, Remaining, Larger

(* A leg posted again asks for no more than the plan leaves over, at the    *)
(* price of a retry.                                                        *)
LEMMA RepostKeeps == IndInv /\ Repost => IndInv'
<1> SUFFICES ASSUME IndInv, Repost PROVE IndInv'
  OBVIOUS
<1>1. /\ pc = "repost" /\ Return
      /\ UNCHANGED <<action, exchangeVars, switchVars>>
      /\ UNCHANGED <<cancels, crashes, astray>>
      /\ UNCHANGED <<aged, polls, position, recorded>>
      /\ counted' = counted + reply.filled
  BY DEF Repost, Finish
<1> DEFINE asked == IF RetryStatus = "failed" THEN row.requested ELSE NextRequested
<1>2. asked \in 1 .. Quantity
  BY <1>1, NextRequestedFits, InvTypes, LegFields
<1>3. /\ row' \in Legs /\ row'.status = RetryStatus /\ row'.oid = row.oid
      /\ row'.requested = asked /\ row'.retry = snap.retry + 1
  <2>1. row' = [row EXCEPT !.status = RetryStatus,
                           !.retry = snap.retry + 1,
                           !.filled = TotalFilled,
                           !.requested = asked]
    BY DEF Repost, Finish
  <2> HIDE DEF asked
  <2>2. /\ RetryStatus \in LegStatuses /\ snap.retry + 1 \in 0 .. RetryLimit
        /\ TotalFilled \in Nat /\ asked \in 0 .. Quantity
    BY <1>1, <1>2, RetrySpent, NextRequestedFits
  <2>3. QED
    BY <2>1, <2>2, InvTypes DEF Legs
<1>4. astray = {} /\ (row'.status # "failed" \/ Live # {})
         => counted' + row'.requested <= Quantity
  <2>1. astray = {} => counted + row.requested <= Quantity
    BY <1>1 DEF IndInv, Tracked, CopyAgrees, ActiveStatuses
  <2>2. reply.filled \in Nat
    BY InvTypes DEF Replies
  <2>3. Live \subseteq astray
    BY <1>1, RetrySpent
  <2>4. QED
    BY <1>1, <1>3, <2>1, <2>2, <2>3, NextRequestedFits, InvTypes, LegFields
<1>5. row'.retry >= RetryLimit => row'.status = "failed"
  BY <1>1, <1>3, RetrySpent
<1>6. placed <= row'.retry + cancels + crashes
  BY <1>1, <1>3, RetrySpent
<1>7. Live \subseteq astray
  BY <1>1, RetrySpent
<1>8. row'.retry \in Nat /\ counted' \in Nat
  BY <1>1, <1>3, LegFields, InvTypes DEF Replies
<1>9. row'.requested > 0
  BY <1>2, <1>3
<1>10. QED
  BY <1>1, <1>3, <1>4, <1>5, <1>6, <1>7, <1>8, <1>9, InvTypes, RoundEnds

-----------------------------------------------------------------------------
(* The surroundings.                                                        *)

(* The exchange moves one live order: it fills, or it ends; a cancel of the *)
(* exchange's own counts.                                                   *)
LEMMA BookMoves ==
  ASSUME IndInv,
         NEW c \in OrderIds,
         orders[c].state = "live",
         orders' \in [OrderIds -> Orders],
         \A o \in OrderIds \ {c} : orders'[o] = orders[o],
         orders'[c].qty = orders[c].qty,
         orders'[c].state # "none",
         orders'[c].state = "live" => orders'[c].filled < orders'[c].qty,
         cancels' = IF orders'[c].state = "canceled" THEN cancels + 1 ELSE cancels,
         cancels' \in 0 .. CancelLimit,
         held' \in Int,
         UNCHANGED <<legVars, threadVars, placed, switchVars>>,
         UNCHANGED <<crashes, astray, counted>>
  PROVE  IndInv'
<1> USE DEF IndInv
<1>1. /\ UNCHANGED <<action, row, aged, polls, position, recorded>>
      /\ UNCHANGED <<pc, snap, reply, newId, placed, enabled, account>>
  BY DEF legVars, threadVars, switchVars
<1>2. Live' \subseteq Live
  BY DEF Live
<1>3. TypeOK'
  BY <1>1 DEF TypeOK
<1>4. CopyAgrees'
  BY <1>1 DEF CopyAgrees
<1>5. ReplyStands'
  <2>1. ASSUME pc \in Judging, reply.status \in {"filled", "cancelled", "rejected"}
        PROVE  orders'[snap.oid] = orders[snap.oid]
    <3>1. snap.oid \in OrderIds /\ snap.oid # c
      BY <2>1, InvTypes, LegFields DEF CopyAgrees, ReplyStands, Judging
    <3>2. QED
      BY <3>1
  <2>2. QED
    BY <1>1, <2>1 DEF ReplyStands
<1>6. BookSane'
  <2>1. ASSUME NEW o \in OrderIds
        PROVE  /\ o <= placed <=> orders'[o].state # "none"
               /\ orders'[o].state = "live" => orders'[o].filled < orders'[o].qty
    BY DEF BookSane
  <2>2. QED
    BY <1>1, <2>1 DEF BookSane
<1>7. Quiet' /\ Tracked'
  <2>1. \A o \in Live' : o \in Live /\ orders'[o].qty = orders[o].qty
    BY <1>2 DEF Live
  <2>2. QED
    BY <1>1, <1>2, <2>1 DEF Quiet, Tracked, LiveOrdersKnown
<1>8. RetryBudget'
  BY <1>1 DEF RetryBudget
<1>9. Paid'
  <2>1. row.retry \in Nat
    BY InvTypes, LegFields
  <2>2. CASE orders'[c].state = "canceled"
    <3>1. placed <= Funds' /\ Funds' = Funds + 1 /\ Funds \in Nat
      BY <1>1, <2>1, <2>2, InvTypes DEF Paid, Funds
    <3>2. QED
      BY <1>1, <2>2, <3>1, InvTypes DEF Paid
  <2>3. CASE orders'[c].state # "canceled"
    <3>1. Funds' = Funds
      BY <1>1, <2>3 DEF Funds
    <3>2. ASSUME NEW o \in OrderIds, orders'[o].state = "canceled"
          PROVE  orders[o].state = "canceled"
      BY <2>3, <3>2
    <3>3. pc = "ack" => newId \in OrderIds
      BY DEF BookSane
    <3>4. row.oid # None => row.oid \in OrderIds
      BY InvTypes, LegFields
    <3>5. QED
      BY <1>1, <3>1, <3>2, <3>3, <3>4 DEF Paid
  <2>4. QED
    BY <2>2, <2>3
<1>10. QED
  BY <1>3, <1>4, <1>5, <1>6, <1>7, <1>8, <1>9

(* Fills, cancels and rejections by the exchange keep the invariant.        *)
LEMMA ExchangeKeeps ==
  ASSUME IndInv, NEW o \in OrderIds,
         Fill(o) \/ ExchangeCancels(o) \/ ExchangeRejects(o)
  PROVE  IndInv'
<1>1. /\ orders \in [OrderIds -> Orders] /\ orders[o] \in Orders
      /\ held \in Int /\ cancels \in 0 .. CancelLimit
  BY DEF IndInv, TypeOK
<1>2. CASE Fill(o)
  <2> DEFINE done == orders[o].filled + 1
             after == IF done = orders[o].qty THEN "closed" ELSE "live"
  <2>1. /\ orders[o].state = "live"
        /\ orders' = [orders EXCEPT ![o].filled = done, ![o].state = after]
        /\ held' = IF action = "open" THEN held + 1 ELSE held - 1
        /\ UNCHANGED <<legVars, threadVars, placed, switchVars>>
        /\ UNCHANGED <<cancels, crashes, astray, counted>>
    BY <1>2 DEF Fill, MayFill, ghostVars
  <2>2. orders[o].filled < orders[o].qty
    BY <2>1 DEF IndInv, BookSane
  <2>3. done \in 0 .. Quantity /\ done <= orders[o].qty
    BY <1>1, <2>2 DEF Orders
  <2>4. after \in {"closed", "live"} /\ (after = "live" => done < orders[o].qty)
    BY <1>1, <2>3 DEF Orders
  <2> HIDE DEF done, after
  <2>5. /\ orders' \in [OrderIds -> Orders]
        /\ \A p \in OrderIds \ {o} : orders'[p] = orders[p]
        /\ orders'[o].filled = done
        /\ orders'[o].state = after
        /\ orders'[o].qty = orders[o].qty
    <3> DEFINE mid == [orders EXCEPT ![o].filled = done]
    <3>1. orders' = [mid EXCEPT ![o].state = after]
      BY <2>1
    <3>2. /\ mid \in [OrderIds -> Orders] /\ mid[o] \in Orders
          /\ \A p \in OrderIds \ {o} : mid[p] = orders[p]
          /\ mid[o].filled = done /\ mid[o].qty = orders[o].qty
      BY <1>1, <2>3 DEF Orders
    <3> HIDE DEF mid
    <3>3. QED
      BY <1>1, <2>4, <3>1, <3>2 DEF Orders, OrderStates
  <2>6. held' \in Int
    BY <1>1, <2>1
  <2>7. QED
    BY <1>1, <2>1, <2>4, <2>5, <2>6, BookMoves
<1>3. CASE ExchangeCancels(o)
  <2>1. /\ orders[o].state = "live"
        /\ orders' = [orders EXCEPT ![o].state = "canceled"]
        /\ cancels < CancelLimit /\ cancels' = cancels + 1
        /\ UNCHANGED <<legVars, threadVars, placed, held, switchVars>>
        /\ UNCHANGED <<crashes, astray, counted>>
    BY <1>3 DEF ExchangeCancels
  <2>2. /\ orders' \in [OrderIds -> Orders]
        /\ \A p \in OrderIds \ {o} : orders'[p] = orders[p]
        /\ orders'[o].state = "canceled"
        /\ orders'[o].qty = orders[o].qty
    BY <1>1, <2>1 DEF Orders, OrderStates
  <2>3. cancels' \in 0 .. CancelLimit
    BY <1>1, <2>1
  <2>4. QED
    BY <1>1, <2>1, <2>2, <2>3, BookMoves
<1>4. CASE ExchangeRejects(o)
  <2>1. /\ orders[o].state = "live"
        /\ orders' = [orders EXCEPT ![o].state = "rejected"]
        /\ UNCHANGED <<legVars, threadVars, placed, held, switchVars>>
        /\ UNCHANGED <<cancels, crashes, astray, counted>>
    BY <1>4 DEF ExchangeRejects, ghostVars
  <2>2. /\ orders' \in [OrderIds -> Orders]
        /\ \A p \in OrderIds \ {o} : orders'[p] = orders[p]
        /\ orders'[o].state = "rejected"
        /\ orders'[o].qty = orders[o].qty
    BY <1>1, <2>1 DEF Orders, OrderStates
  <2>3. QED
    BY <1>1, <2>1, <2>2, BookMoves
<1>5. QED
  BY <1>2, <1>3, <1>4

(* Time, a rule disabled and an account removed keep the invariant: they    *)
(* touch neither the row nor the exchange.                                  *)
LEMMA ClockAndUserKeep ==
  ASSUME IndInv, Age \/ DisableRule \/ DropAccount
  PROVE  IndInv'
<1> USE DEF IndInv
<1>1. /\ UNCHANGED <<action, row, polls, position, recorded>>
      /\ UNCHANGED <<pc, snap, reply, newId, orders, placed, held>>
      /\ UNCHANGED <<cancels, crashes, astray, counted>>
  BY DEF Age, DisableRule, DropAccount, legVars, threadVars, exchangeVars,
         ghostVars
<1>2. TypeOK' /\ (enabled' => enabled) /\ (account' => account)
  <2>1. aged \in BOOLEAN /\ enabled \in BOOLEAN /\ account \in BOOLEAN
    BY DEF TypeOK
  <2>2. CASE Age
    <3>1. aged' = TRUE /\ enabled' = enabled /\ account' = account
      BY <2>2 DEF Age, switchVars
    <3>2. QED
      BY <1>1, <2>1, <3>1 DEF TypeOK
  <2>3. CASE DisableRule
    <3>1. aged' = aged /\ enabled' = FALSE /\ account' = account
      BY <2>3 DEF DisableRule, legVars
    <3>2. QED
      BY <1>1, <2>1, <3>1 DEF TypeOK
  <2>4. CASE DropAccount
    <3>1. aged' = aged /\ enabled' = enabled /\ account' = FALSE
      BY <2>4 DEF DropAccount, legVars
    <3>2. QED
      BY <1>1, <2>1, <3>1 DEF TypeOK
  <2>5. QED
    BY <2>2, <2>3, <2>4
<1>3. CopyAgrees' /\ ReplyStands' /\ BookSane' /\ RetryBudget'
  BY <1>1 DEF CopyAgrees, ReplyStands, BookSane, RetryBudget
<1>4. Quiet' /\ Tracked'
  BY <1>1, <1>2 DEF Quiet, Tracked, LiveOrdersKnown, Live
<1>5. Paid'
  BY <1>1 DEF Paid, Funds
<1>6. QED
  BY <1>2, <1>3, <1>4, <1>5

(* A death of the worker keeps the invariant: an order sent and not yet     *)
(* written down goes astray.                                                *)
LEMMA CrashKeeps == IndInv /\ Crash => IndInv'
<1> SUFFICES ASSUME IndInv, Crash PROVE IndInv'
  OBVIOUS
<1> USE DEF IndInv
<1>1. /\ pc # "idle" /\ pc' = "idle" /\ Return
      /\ crashes < CrashLimit /\ crashes' = crashes + 1
      /\ astray' = IF pc = "ack" THEN astray \cup {newId} ELSE astray
      /\ UNCHANGED <<action, row, aged, polls, position, recorded>>
      /\ UNCHANGED <<orders, placed, held, enabled, account, cancels, counted>>
  BY DEF Crash, Return, legVars, exchangeVars, switchVars
<1>2. astray \subseteq astray' /\ astray' \subseteq OrderIds
  BY <1>1 DEF BookSane, TypeOK
<1>3. Live' = Live
  BY <1>1 DEF Live
<1>4. TypeOK'
  <2>1. crashes' \in 0 .. CrashLimit
    BY <1>1 DEF TypeOK
  <2>2. QED
    BY <1>1, <1>2, <2>1, ReturnTypes DEF TypeOK
<1>5. CopyAgrees' /\ ReplyStands'
  BY <1>1 DEF CopyAgrees, ReplyStands, Placing, Judging
<1>6. BookSane'
  BY <1>1 DEF BookSane
<1>7. Quiet'
  BY <1>1, <1>2, <1>3 DEF Quiet
<1>8. Tracked'
  BY <1>1, <1>2, <1>3 DEF Tracked, LiveOrdersKnown, Quiet
<1>9. RetryBudget' /\ Paid'
  <2>1. placed <= Funds' /\ Funds' = Funds + 1 /\ Funds \in Nat
    BY <1>1, InvTypes, LegFields DEF Paid, Funds
  <2>2. QED
    BY <1>1, <2>1, InvTypes DEF RetryBudget, Paid
<1>10. QED
  BY <1>4, <1>5, <1>6, <1>7, <1>8, <1>9

-----------------------------------------------------------------------------
(* The invariant, and what follows from it.                                 *)

(* The invariant holds when the leg is planned.                             *)
LEMMA InitIndInv == Init => IndInv
<1> SUFFICES ASSUME Init PROVE IndInv
  OBVIOUS
<1> DEFINE blank == [qty |-> 0, filled |-> 0, state |-> "none"]
<1>1. /\ row = NewLeg /\ snap = NewLeg /\ reply = NoReply /\ pc = "idle"
      /\ placed = 0 /\ cancels = 0 /\ crashes = 0 /\ counted = 0 /\ astray = {}
      /\ orders = [o \in OrderIds |-> blank]
      /\ newId = None
  BY DEF Init
<1>2. /\ row.status = "pending" /\ row.oid = 0 /\ row.requested = Quantity
      /\ row.retry = 0
  BY <1>1 DEF NewLeg, None
<1>3. orders \in [OrderIds -> Orders]
  <2>1. blank \in Orders
    BY DEF Orders, OrderStates
  <2>2. QED
    BY <1>1, <2>1
<1>4. \A o \in OrderIds : orders[o].state = "none" /\ o > 0
  BY <1>1 DEF OrderIds
<1>5. Live = {}
  BY <1>4 DEF Live
<1>6. TypeOK
  <2>1. position \in Nat /\ held \in Int
    <3>1. Quantity \in Nat
      OBVIOUS
    <3>2. ToBase(Quantity) \in Nat
      BY <3>1, BaseIsNat
    <3>3. QED
      BY <3>1, <3>2 DEF Init
  <2>2. polls \in 0 .. PollLimit /\ cancels \in 0 .. CancelLimit
        /\ crashes \in 0 .. CrashLimit /\ recorded \in Nat /\ counted \in Nat
    BY DEF Init
  <2>3. aged \in BOOLEAN /\ enabled \in BOOLEAN /\ account \in BOOLEAN
    BY DEF Init
  <2>4. action \in {"open", "close"}
    BY DEF Init
  <2>5. QED
    BY <1>1, <1>3, <2>1, <2>2, <2>3, <2>4, InitialTypes DEF TypeOK, PCs, None
<1>7. CopyAgrees /\ ReplyStands
  BY <1>1 DEF CopyAgrees, ReplyStands, Placing, Judging
<1>8. BookSane
  BY <1>1, <1>2, <1>4 DEF BookSane, OrderIds
<1>9. Quiet /\ Tracked
  BY <1>1, <1>2, <1>5 DEF Quiet, Tracked, LiveOrdersKnown
<1>10. RetryBudget /\ Paid
  BY <1>1, <1>2 DEF RetryBudget, Paid, Funds, None
<1>11. QED
  BY <1>6, <1>7, <1>8, <1>9, <1>10 DEF IndInv

(* Every step keeps the invariant.                                          *)
LEMMA StepIndInv == IndInv /\ [Next]_vars => IndInv'
<1> SUFFICES ASSUME IndInv, [Next]_vars PROVE IndInv'
  OBVIOUS
<1>1. CASE Thread
  BY <1>1, ScanKeeps, EndOfRoundKeeps, BeginSubmitKeeps, CreateAcceptedKeeps,
     CreateLostKeeps, CreateRefusedKeeps, RecordSubmittedKeeps,
     RecordSubmittedFailsKeeps, RecordSubmitErrorKeeps, FetchOrderKeeps,
     BookingKeeps, CancelKeeps, RepostKeeps DEF Thread
<1>2. CASE Surroundings
  BY <1>2, ExchangeKeeps, ClockAndUserKeep, CrashKeeps DEF Surroundings
<1>3. CASE UNCHANGED vars
  BY <1>3 DEF vars, IndInv, TypeOK, CopyAgrees, BookSane, ReplyStands, Quiet,
              Tracked, LiveOrdersKnown, Live, RetryBudget, Paid, Funds
<1>4. QED
  BY <1>1, <1>2, <1>3 DEF Next

(* IndInv holds in every reachable state.                                   *)
THEOREM Invariance == Spec => []IndInv
  BY InitIndInv, StepIndInv, PTL DEF Spec

(* Every variable stays in its range, whatever the bounds.                  *)
THEOREM TypeCorrect == Spec => []TypeOK
<1>1. IndInv => TypeOK
  BY DEF IndInv
<1>2. QED
  BY <1>1, Invariance, PTL

(* No order trades that neither the row nor the thread can name, short of   *)
(* those that went astray.                                                  *)
THEOREM NoUnknownOrders == Spec => []LiveOrdersKnown
<1>1. IndInv => LiveOrdersKnown
  BY DEF IndInv, Tracked
<1>2. QED
  BY <1>1, Invariance, PTL

(* A leg at rest, waiting or ended, has no order trading at the exchange,   *)
(* orders astray apart and unless its rule was disabled or its account      *)
(* removed.                                                                 *)
THEOREM RestIsQuiet == Spec => []RestingLeavesNothingLive
<1>1. IndInv => RestingLeavesNothingLive
  BY DEF IndInv, Quiet, RestingLeavesNothingLive
<1>2. QED
  BY <1>1, Invariance, PTL

(* Orders astray apart, the leg never trades through two orders at once.    *)
THEOREM AtMostOneOrder == Spec => []OneLiveOrder
<1>1. ASSUME IndInv, NEW o \in Live \ astray, NEW p \in Live \ astray
      PROVE  o = p
  <2>1. CASE pc = "ack"
    BY <1>1, <2>1 DEF IndInv, Quiet
  <2>2. CASE pc # "ack"
    BY <1>1, <2>2 DEF IndInv, Tracked, LiveOrdersKnown
  <2>3. QED
    BY <2>1, <2>2
<1>2. IndInv => OneLiveOrder
  BY <1>1 DEF OneLiveOrder
<1>3. QED
  BY <1>2, Invariance, PTL

(* Each order is paid for by a retry, a cancel of the exchange or a death.  *)
THEOREM EveryOrderPaidFor == Spec => []OrdersPaidFor
<1>1. IndInv => OrdersPaidFor
  BY DEF IndInv, Paid, Funds, OrdersPaidFor
<1>2. QED
  BY <1>1, Invariance, PTL

(* A leg that used up its retries has failed.                               *)
THEOREM RetriesBounded == Spec => []RetryBudget
<1>1. IndInv => RetryBudget
  BY DEF IndInv
<1>2. QED
  BY <1>1, Invariance, PTL

(* With no order astray, a live order and the fills already counted stay    *)
(* within the leg's plan.                                                   *)
THEOREM StaysWithinPlan == Spec => []LiveOrderWithinPlan
<1>1. ASSUME IndInv, astray = {}, NEW o \in Live
      PROVE  orders[o].qty + counted <= Quantity
  <2>1. counted + row.requested <= Quantity
    BY <1>1 DEF IndInv, Tracked
  <2>2. orders[o].qty = row.requested
    BY <1>1 DEF IndInv, Tracked
  <2>3. QED
    BY <1>1, <2>1, <2>2, InvTypes, LegFields
<1>2. IndInv => LiveOrderWithinPlan
  BY <1>1 DEF LiveOrderWithinPlan
<1>3. QED
  BY <1>2, Invariance, PTL

(* The model always has an id left for an order that is about to be sent:   *)
(* the size of OrderIds restrains nothing.                                  *)
THEOREM IdsSuffice == Spec => [](pc = "create" => placed + 1 \in OrderIds)
<1>1. ASSUME IndInv, pc = "create"
      PROVE  placed + 1 \in OrderIds
  <2>1. placed <= Funds
    BY <1>1 DEF IndInv, Paid
  <2>2. row.retry \in 0 .. RetryLimit /\ cancels \in 0 .. CancelLimit
        /\ crashes \in 0 .. CrashLimit
    BY <1>1, InvTypes, LegFields DEF IndInv, TypeOK
  <2>3. QED
    BY <1>1, <2>1, <2>2, InvTypes DEF Funds, OrderIds
<1>2. IndInv => (pc = "create" => placed + 1 \in OrderIds)
  BY <1>1
<1>3. QED
  BY <1>2, Invariance, PTL

-----------------------------------------------------------------------------
(* The row follows the life of a leg.                                       *)

(* A leg starts its abstract life pending and unsent.                       *)
LEMMA InitLifecycle == Init => Lifecycle!Init
  BY DEF Init, NewLeg, Lifecycle!Init

(* Every step of OrderLeg is a step of the abstract life, or leaves it as   *)
(* it is.                                                                   *)
LEMMA StepLifecycle ==
  ASSUME IndInv, [Next]_vars
  PROVE  [Lifecycle!Next]_Lifecycle!vars
<1> USE DEF Lifecycle!vars
<1>1. CASE UNCHANGED <<row, placed>>
  BY <1>1
<1>2. CASE BlockDisabledOpening \/ FailWithoutAccount \/ SkipCloseLeg
           \/ MarkFilled \/ FailUnknownStatus
  <2>1. /\ row.status \in ActiveStatuses /\ row.retry \in 0 .. RetryLimit
        /\ UNCHANGED placed
    BY <1>2, InvTypes, LegFields
       DEF BlockDisabledOpening, FailWithoutAccount, SkipCloseLeg, Submitting,
           MarkFilled, FailUnknownStatus, IndInv, CopyAgrees, exchangeVars
  <2>2. row'.status \in {"filled", "failed"} /\ row'.retry = row.retry
    BY <1>2, InvTypes
       DEF BlockDisabledOpening, FailWithoutAccount, SkipCloseLeg, MarkFilled,
           FailUnknownStatus, Finish, Legs
  <2>3. Lifecycle!End
    BY <2>1, <2>2 DEF Lifecycle!End, Lifecycle!Ended, ActiveStatuses,
                      Lifecycle!SpendAtMostOneRetry
  <2>4. QED
    BY <2>3 DEF Lifecycle!Next
<1>3. CASE BeginSubmit
  <2>1. Lifecycle!Begin
    BY <1>3, InvTypes
       DEF BeginSubmit, Submitting, IndInv, CopyAgrees, Lifecycle!Begin, Legs,
           exchangeVars
  <2>2. QED
    BY <2>1 DEF Lifecycle!Next
<1>4. CASE CreateAccepted \/ CreateLost
  <2>1. pc = "create" /\ PlaceOrder /\ row' = row
    BY <1>4 DEF CreateAccepted, CreateLost, legVars
  <2>2. row.status = "submitting"
    BY <2>1 DEF IndInv, CopyAgrees, Placing
  <2>3. Lifecycle!Send
    BY <2>1, <2>2 DEF PlaceOrder, Lifecycle!Send
  <2>4. QED
    BY <2>3 DEF Lifecycle!Next
<1>5. CASE RecordSubmitted
  <2>1. row.status = "submitting"
    BY <1>5 DEF RecordSubmitted, IndInv, CopyAgrees, Placing
  <2>2. row'.status = "submitted" /\ row'.retry = row.retry
    BY <1>5, InvTypes DEF RecordSubmitted, Finish, Legs
  <2>3. Lifecycle!Acknowledge
    BY <1>5, <2>1, <2>2 DEF RecordSubmitted, exchangeVars, Lifecycle!Acknowledge
  <2>4. QED
    BY <2>3 DEF Lifecycle!Next
<1>6. CASE KeepPartial
  <2>1. row.status \in {"submitting", "submitted", "partial"}
    BY <1>6 DEF KeepPartial, IndInv, CopyAgrees, Judging
  <2>2. row'.status = "partial" /\ row'.retry = row.retry
    BY <1>6, InvTypes DEF KeepPartial, Finish, Legs
  <2>3. Lifecycle!ObservePartial
    BY <1>6, <2>1, <2>2 DEF KeepPartial, exchangeVars, Lifecycle!ObservePartial,
                            Lifecycle!AtExchange
  <2>4. QED
    BY <2>3 DEF Lifecycle!Next
<1>7. CASE RepostCancelled
  <2>1. /\ row.status \in {"submitting", "submitted", "partial"}
        /\ row.retry < RetryLimit /\ snap.retry = row.retry
        /\ row.retry \in Nat
    BY <1>7, InvTypes, LegFields
       DEF RepostCancelled, IndInv, CopyAgrees, Judging, RetryBudget
  <2>2. row'.status = "pending" /\ row'.retry = row.retry
    BY <1>7, <2>1, InvTypes DEF RepostCancelled, Finish, Legs
  <2>3. Lifecycle!Repost
    BY <1>7, <2>1, <2>2
       DEF RepostCancelled, exchangeVars, Lifecycle!Repost, Lifecycle!AtExchange,
           Lifecycle!SpendAtMostOneRetry
  <2>4. QED
    BY <2>3 DEF Lifecycle!Next
<1>8. CASE RecordSubmitError \/ Repost
  <2>1. /\ row.status \in {"submitting", "submitted", "partial"}
        /\ pc \in {"raised", "repost"}
        /\ UNCHANGED placed
    BY <1>8 DEF RecordSubmitError, Repost, IndInv, CopyAgrees, Judging, Placing,
                exchangeVars
  <2>2. row'.status = RetryStatus /\ row'.retry = snap.retry + 1
    BY <1>8, InvTypes DEF RecordSubmitError, Repost, Finish, Legs
  <2>3. /\ row'.retry = row.retry + 1
        /\ row'.retry \in 0 .. RetryLimit
        /\ row'.status \in {"pending", "failed"}
        /\ row'.retry >= RetryLimit <=> row'.status = "failed"
    BY <2>1, <2>2, RetrySpent DEF RetryStatus
  <2>4. CASE row'.status = "pending"
    <3>1. Lifecycle!Repost
      BY <2>1, <2>3, <2>4 DEF Lifecycle!Repost, Lifecycle!AtExchange,
                              Lifecycle!SpendAtMostOneRetry
    <3>2. QED
      BY <3>1 DEF Lifecycle!Next
  <2>5. CASE row'.status = "failed"
    <3>1. Lifecycle!End
      BY <2>1, <2>3, <2>5 DEF Lifecycle!End, Lifecycle!Ended,
                              Lifecycle!SpendAtMostOneRetry
    <3>2. QED
      BY <3>1 DEF Lifecycle!Next
  <2>6. QED
    BY <2>3, <2>4, <2>5
<1>9. CASE Scan \/ CreateRefused \/ RecordSubmittedFails \/ MonitorWithoutOrder
           \/ FetchOrder \/ FetchFails \/ RecordFill \/ UpdatePosition \/ KeepOpen
           \/ CancelOrder \/ CancelRaises
  <2>1. UNCHANGED <<row, placed>>
    BY <1>9 DEF Scan, CreateRefused, RecordSubmittedFails, MonitorWithoutOrder,
                FetchOrder, FetchFails, RecordFill, UpdatePosition, KeepOpen,
                CancelOrder, CancelRaises, legVars, exchangeVars
  <2>2. QED
    BY <1>1, <2>1
<1>10. CASE Surroundings
  <2>1. UNCHANGED <<row, placed>>
    BY <1>10 DEF Surroundings, Fill, ExchangeCancels, ExchangeRejects, Age,
                 DisableRule, DropAccount, Crash, legVars, exchangeVars
  <2>2. QED
    BY <1>1, <2>1
<1>11. CASE UNCHANGED vars
  BY <1>1, <1>11 DEF vars
<1>12. QED
  BY <1>2, <1>3, <1>4, <1>5, <1>6, <1>7, <1>8, <1>9, <1>10, <1>11
     DEF Next, Thread

(* OrderLeg implements LegLifecycle: what the readers of the row rely on    *)
(* holds for every leg, "filled" and "failed" being for good in particular. *)
THEOREM LifecycleImplemented == Spec => FollowsLifecycle
<1>1. Spec => Lifecycle!Init
  BY InitLifecycle, PTL DEF Spec
<1>2. IndInv /\ [Next]_vars => [Lifecycle!Next]_Lifecycle!vars
  BY StepLifecycle
<1>3. Spec => [][Lifecycle!Next]_Lifecycle!vars
  BY <1>2, Invariance, PTL DEF Spec
<1>4. QED
  BY <1>1, <1>3, PTL DEF FollowsLifecycle, Lifecycle!Spec

-----------------------------------------------------------------------------
(* Fills are booked once.  It takes a driver that reports a partly filled   *)
(* order as partial, and no death: then what is booked never exceeds what   *)
(* the orders before the present one traded, with what the row says of the  *)
(* present one.  A row reposted with fills may say more than its new order  *)
(* has; until that order has caught up nothing of it is booked.             *)
Truthful == PartialReports \subseteq {"partial"}

(* What the exchange traded for the leg without order o.                    *)
Without(o) == ToBase(ExchangeFilled - orders[o].filled)

BookedWith(n) ==
    \/ recorded <= Without(row.oid)
    \/ row.filled <= n /\ recorded <= Without(row.oid) + row.filled

Resting == pc \in {"idle", "picked"} /\ row.status \in {"submitted", "partial"}

Booked ==
    /\ NoOverRecording
    /\ crashes = 0 =>
          /\ row.status = "submitting" => pc \in Placing
          /\ row.status \in {"submitted", "partial"} => row.oid \in OrderIds
          /\ pc = "ack" => recorded <= Without(newId)
          /\ Resting => BookedWith(ToBase(orders[row.oid].filled))
          /\ pc = "fetched" => BookedWith(ToBase(reply.filled))
          /\ pc \in {"position", "decide"} =>
                recorded <= Without(row.oid) + ToBase(reply.filled)
          /\ pc \in Judging =>
                /\ reply.filled <= orders[row.oid].filled
                /\ reply.status = "open" => reply.filled = 0

(* Conversion to base units keeps the order and takes differences along.    *)
LEMMA BaseInOrder ==
    /\ ToBase(0) = 0
    /\ \A a \in Int : ToBase(a) \in Int
    /\ \A a, b \in Int : a <= b => ToBase(a) <= ToBase(b)
    /\ \A a, b \in Int : ToBase(a - b) + ToBase(b) = ToBase(a)
<1> SUFFICES ASSUME NEW a \in Int, NEW b \in Int
             PROVE  /\ ToBase(0) = 0
                    /\ ToBase(a) \in Int
                    /\ a <= b => ToBase(a) <= ToBase(b)
                    /\ ToBase(a - b) + ToBase(b) = ToBase(a)
  OBVIOUS
<1>1. \A c \in Nat : /\ a * c \in Int
                     /\ (a - b) * c + b * c = a * c
                     /\ 0 * c = 0
  OBVIOUS
<1>2. ASSUME NEW c \in Nat, a <= b PROVE a * c <= b * c
  <2>1. \A d \in Nat : d * c \in Nat /\ b * c = a * c + (b - a) * c
    OBVIOUS
  <2>2. b - a \in Nat
    BY <1>2
  <2>3. a * c \in Int /\ b * c \in Int
    OBVIOUS
  <2>4. QED
    BY <2>1, <2>2, <2>3
<1>3. ContractSize \in Nat
  OBVIOUS
<1>4. /\ a * ContractSize \in Int
      /\ (a - b) * ContractSize + b * ContractSize = a * ContractSize
      /\ 0 * ContractSize = 0
      /\ a <= b => a * ContractSize <= b * ContractSize
  BY <1>1, <1>2, <1>3, Zenon
<1>5. QED
  BY <1>4, Zenon DEF ToBase

(* The numbers of the exchange.                                             *)
LEMMA Numbers ==
    ASSUME IndInv
    PROVE  /\ ExchangeFilled \in Int /\ recorded \in Nat /\ crashes \in Nat
           /\ \A o \in OrderIds : orders[o].filled \in Nat /\ Without(o) \in Int
                                  /\ Without(o) + ToBase(orders[o].filled)
                                        = ToBase(ExchangeFilled)
                                  /\ ToBase(orders[o].filled) \in Nat
           /\ row.filled \in Nat /\ reply.filled \in Nat /\ ToBase(reply.filled) \in Nat
           /\ orders \in [OrderIds -> Orders]
<1>1. held \in Int /\ recorded \in Nat /\ crashes \in Nat /\ orders \in [OrderIds -> Orders]
  BY DEF IndInv, TypeOK
<1>2. ExchangeFilled \in Int
  BY <1>1 DEF ExchangeFilled
<1>3. \A o \in OrderIds : orders[o].filled \in Nat
  BY <1>1 DEF Orders
<1>4. \A o \in OrderIds : /\ Without(o) \in Int
                          /\ Without(o) + ToBase(orders[o].filled) = ToBase(ExchangeFilled)
                          /\ ToBase(orders[o].filled) \in Nat
  <2>1. \A o \in OrderIds : /\ orders[o].filled \in Int
                            /\ ExchangeFilled - orders[o].filled \in Int
    BY <1>2, <1>3
  <2>2. QED
    BY <1>2, <1>3, <2>1, BaseInOrder, BaseIsNat, Zenon DEF Without
<1>5. row.filled \in Nat /\ reply.filled \in Nat /\ ToBase(reply.filled) \in Nat
  BY InvTypes, LegFields, ReplyIsNat DEF Replies
<1>6. QED
  BY <1>1, <1>2, <1>3, <1>4, <1>5

(* Nothing is booked at the start.                                          *)
LEMMA BookedInitially == Init => Booked
<1> SUFFICES ASSUME Init PROVE Booked
  OBVIOUS
<1>1. ExchangeFilled = 0 /\ recorded = 0 /\ pc = "idle" /\ row.status = "pending"
  BY DEF Init, ExchangeFilled, NewLeg
<1>2. ToBase(ExchangeFilled) = 0
  BY <1>1, BaseInOrder
<1>3. QED
  BY <1>1, <1>2 DEF Booked, NoOverRecording, Resting, Placing, Judging

(* Nothing is booked and nothing is traded.                                 *)
StandsStill == UNCHANGED <<action, recorded, orders, held, crashes>>

(* Then what the exchange traded is what it was.                            *)
LEMMA StillWithout ==
    ASSUME StandsStill
    PROVE  ExchangeFilled' = ExchangeFilled /\ \A o \in OrderIds : Without(o)' = Without(o)
  BY DEF StandsStill, ExchangeFilled, Without

(* A round ends with a leg that waits to be sent, or has ended.             *)
LEMMA RestingBooked ==
    ASSUME Booked, StandsStill, Return,
           row'.status \in {"pending"} \cup FinalStatuses
    PROVE  Booked'
<1>1. NoOverRecording'
  BY StillWithout DEF Booked, NoOverRecording, StandsStill
<1>2. pc' = "idle"
  BY DEF Return
<1>3. QED
  BY <1>1, <1>2 DEF Booked, Resting, Placing, Judging, FinalStatuses

(* Every way a round leaves a leg waiting or ended.                         *)
LEMMA EndingBooked ==
    ASSUME IndInv, Booked,
           \/ BlockDisabledOpening \/ FailWithoutAccount \/ SkipCloseLeg \/ MarkFilled
           \/ RepostCancelled \/ FailUnknownStatus \/ RecordSubmitError \/ Repost
    PROVE  Booked'
<1>1. StandsStill /\ Return
  BY DEF BlockDisabledOpening, FailWithoutAccount, SkipCloseLeg, MarkFilled, RepostCancelled,
         FailUnknownStatus, RecordSubmitError, Repost, Finish, StandsStill, exchangeVars,
         ghostVars
<1>2. row'.status \in {"pending"} \cup FinalStatuses
  <2>1. row \in Legs
    BY InvTypes
  <2>2. RetryStatus \in {"pending", "failed"}
    BY DEF RetryStatus
  <2>3. QED
    BY <2>1, <2>2
       DEF BlockDisabledOpening, FailWithoutAccount, SkipCloseLeg, MarkFilled, RepostCancelled,
           FailUnknownStatus, RecordSubmitError, Repost, Finish, Legs, FinalStatuses
<1>3. QED
  BY <1>1, <1>2, RestingBooked

(* The row is looked at, or left as it was.                                 *)
LEMMA LookingBooked ==
    ASSUME IndInv, Booked, pc \in {"idle", "picked"}, pc' \in {"idle", "picked"},
           StandsStill, UNCHANGED row
    PROVE  Booked'
<1>1. NoOverRecording'
  BY StillWithout DEF Booked, NoOverRecording, StandsStill
<1>2. ASSUME crashes = 0, row.status \in {"submitted", "partial"}
      PROVE  row.oid \in OrderIds /\ BookedWith(ToBase(orders[row.oid].filled))'
  <2>1. row.oid \in OrderIds /\ BookedWith(ToBase(orders[row.oid].filled))
    BY <1>2 DEF Booked, Resting
  <2>2. Without(row.oid)' = Without(row.oid)
    BY <2>1, StillWithout DEF StandsStill
  <2>3. QED
    BY <2>1, <2>2 DEF BookedWith, StandsStill, ToBase
<1>3. row.status = "submitting" => crashes # 0
  BY DEF Booked, Placing
<1>4. QED
  BY <1>1, <1>2, <1>3 DEF Booked, Resting, Placing, Judging, StandsStill

(* A scan, and the rounds that end without a write.                         *)
LEMMA ReadingBooked ==
    ASSUME IndInv, Booked, Scan \/ MonitorWithoutOrder \/ FetchFails
    PROVE  Booked'
  BY LookingBooked
     DEF Scan, MonitorWithoutOrder, FetchFails, Monitoring, Return, StandsStill, legVars,
         exchangeVars, ghostVars

(* A leg is sent; the order it gets has traded nothing yet.                 *)
LEMMA SendingBooked ==
    ASSUME IndInv, Booked,
           BeginSubmit \/ CreateAccepted \/ CreateLost \/ CreateRefused \/ RecordSubmittedFails
    PROVE  Booked'
<1>1. CASE BeginSubmit \/ CreateRefused \/ RecordSubmittedFails
  <2>1. StandsStill /\ pc' \in {"create", "raised"}
    BY <1>1 DEF BeginSubmit, CreateRefused, RecordSubmittedFails, StandsStill, legVars,
                exchangeVars, ghostVars
  <2>2. row'.status = "submitting"
    BY <1>1, InvTypes DEF BeginSubmit, CreateRefused, RecordSubmittedFails, legVars, IndInv,
                          CopyAgrees, Placing, Legs
  <2>3. NoOverRecording'
    BY <2>1, StillWithout DEF Booked, NoOverRecording, StandsStill
  <2>4. QED
    BY <2>1, <2>2, <2>3 DEF Booked, Resting, Placing, Judging
<1>2. CASE CreateAccepted \/ CreateLost
  <2>1. /\ pc = "create" /\ PlaceOrder /\ pc' \in {"ack", "raised"}
        /\ UNCHANGED <<row, recorded, action, held, crashes>>
        /\ pc' = "ack" => newId' = placed + 1
    BY <1>2 DEF CreateAccepted, CreateLost, legVars, ghostVars
  <2>2. row.status = "submitting"
    BY <2>1 DEF IndInv, CopyAgrees, Placing
  <2>3. ExchangeFilled' = ExchangeFilled
    BY <2>1 DEF ExchangeFilled
  <2>4. NoOverRecording'
    BY <2>1, <2>3 DEF Booked, NoOverRecording
  <2>5. placed + 1 \in OrderIds /\ orders'[placed + 1].filled = 0
    BY <2>1, Numbers DEF PlaceOrder
  <2>6. pc' = "ack" /\ crashes' = 0 => recorded' <= Without(newId)'
    <3>1. ExchangeFilled - 0 = ExchangeFilled
      BY Numbers
    <3>2. QED
      BY <2>1, <2>3, <2>4, <2>5, <3>1 DEF Without, NoOverRecording
  <2>7. QED
    BY <2>1, <2>2, <2>4, <2>6 DEF Booked, Resting, Placing, Judging
<1>3. QED
  BY <1>1, <1>2

(* The id of the new order is written to the row.                           *)
LEMMA SentBooked ==
    ASSUME IndInv, Booked, RecordSubmitted
    PROVE  Booked'
<1>1. /\ pc = "ack" /\ pc' = "idle" /\ StandsStill
      /\ row' = [row EXCEPT !.status = "submitted", !.oid = newId]
  BY DEF RecordSubmitted, Finish, Return, StandsStill, exchangeVars, ghostVars
<1>2. newId \in OrderIds
  BY <1>1 DEF IndInv, BookSane
<1>3. row'.status = "submitted" /\ row'.oid = newId
  BY <1>1, InvTypes DEF Legs
<1>4. NoOverRecording'
  BY <1>1, StillWithout DEF Booked, NoOverRecording, StandsStill
<1>5. crashes' = 0 => recorded' <= Without(row.oid)'
  <2>1. ExchangeFilled' = ExchangeFilled /\ orders' = orders
    BY <1>1, StillWithout DEF StandsStill
  <2>2. Without(row.oid)' = Without(newId)
    BY <1>3, <2>1 DEF Without
  <2>3. QED
    BY <1>1, <2>2 DEF Booked, StandsStill
<1>6. QED
  BY <1>1, <1>2, <1>3, <1>4, <1>5 DEF Booked, BookedWith, Resting, Placing, Judging

(* A reply tells what the order has traded so far.                          *)
LEMMA FetchedBooked ==
    ASSUME Truthful, IndInv, Booked, FetchOrder
    PROVE  Booked'
<1>1. /\ pc = "picked" /\ pc' = "fetched" /\ StandsStill /\ UNCHANGED row
      /\ snap.oid = row.oid /\ row.oid \in OrderIds
      /\ row.status \in {"submitting", "submitted", "partial"}
  BY InvTypes, LegFields
     DEF FetchOrder, Monitoring, IndInv, CopyAgrees, ActiveStatuses, exchangeVars, ghostVars,
         StandsStill
<1>2. PICK s \in ReportsOf(row.oid) :
         reply' = [status |-> s, filled |-> orders[row.oid].filled]
  BY <1>1 DEF FetchOrder
<1>3. s = "open" => orders[row.oid].filled = 0
  BY <1>1 DEF ReportsOf, Truthful
<1>4. NoOverRecording'
  BY <1>1, StillWithout DEF Booked, NoOverRecording, StandsStill
<1>5. crashes' = 0 => Resting /\ BookedWith(ToBase(orders[row.oid].filled))
  BY <1>1 DEF Booked, Resting, StandsStill, Placing
<1>6. crashes' = 0 => BookedWith(ToBase(reply.filled))'
  <2>1. Without(row.oid)' = Without(row.oid)
    BY <1>1, StillWithout DEF StandsStill
  <2>2. reply'.filled = orders[row.oid].filled
    BY <1>2
  <2>3. QED
    BY <1>1, <1>5, <2>1, <2>2 DEF BookedWith, StandsStill, ToBase
<1>7. reply'.filled <= orders'[row'.oid].filled
  BY <1>1, <1>2, Numbers DEF StandsStill
<1>8. QED
  BY <1>1, <1>2, <1>3, <1>4, <1>5, <1>6, <1>7 DEF Booked, Resting, Placing, Judging, StandsStill

(* What is new in the reply is booked.                                      *)
LEMMA FillBooked ==
    ASSUME IndInv, Booked, RecordFill
    PROVE  Booked'
<1>1. /\ pc = "fetched" /\ pc' \in {"position", "decide"}
      /\ recorded' = recorded + Delta /\ snap.filled = row.filled
      /\ UNCHANGED <<action, row, reply, orders, held, crashes>>
      /\ snap.oid = row.oid /\ row.oid \in OrderIds
      /\ row.status \in {"submitting", "submitted", "partial"}
  BY InvTypes, LegFields
     DEF RecordFill, IndInv, CopyAgrees, Judging, exchangeVars, ghostVars
<1>2. /\ ExchangeFilled' = ExchangeFilled /\ Without(row.oid)' = Without(row.oid)
      /\ ToBase(reply.filled)' = ToBase(reply.filled)
  BY <1>1 DEF ExchangeFilled, Without, ToBase
<1>3. Delta \in Nat /\ Delta = Larger(0, ToBase(reply.filled) - row.filled)
  BY <1>1, Numbers DEF Delta, Larger
<1>4. ASSUME crashes = 0
      PROVE  recorded + Delta <= Without(row.oid) + ToBase(reply.filled)
  <2>1. BookedWith(ToBase(reply.filled))
    BY <1>1, <1>4 DEF Booked
  <2>2. QED
    BY <1>1, <1>3, <2>1, Numbers DEF BookedWith, Larger
<1>5. ASSUME crashes = 0
      PROVE  ToBase(reply.filled) <= ToBase(orders[row.oid].filled)
  <2>1. reply.filled <= orders[row.oid].filled
    BY <1>1, <1>5 DEF Booked, Judging
  <2>2. reply.filled \in Int /\ orders[row.oid].filled \in Int
    BY <1>1, Numbers
  <2>3. QED
    BY <2>1, <2>2, BaseInOrder, Zenon
<1>6. crashes = 0 => recorded + Delta <= ToBase(ExchangeFilled)
  BY <1>1, <1>3, <1>4, <1>5, Numbers
<1>7. NoOverRecording'
  BY <1>1, <1>2, <1>6 DEF NoOverRecording, ToBase
<1>8. QED
  BY <1>1, <1>2, <1>4, <1>7 DEF Booked, Resting, Placing, Judging

(* The position follows, and an order that runs out of time is cancelled;   *)
(* the cancel changes no fill.                                              *)
LEMMA DecidingBooked ==
    ASSUME IndInv, Booked, UpdatePosition \/ CancelOrder \/ CancelRaises
    PROVE  Booked'
<1>1. /\ UNCHANGED <<action, row, reply, held, crashes, recorded>>
      /\ row.oid \in OrderIds /\ snap.oid = row.oid
      /\ \A o \in OrderIds : orders'[o].filled = orders[o].filled
  <2>1. pc \in Judging
    BY DEF UpdatePosition, CancelOrder, CancelRaises, TimedOut, Judging
  <2>2. row.oid \in OrderIds /\ snap.oid = row.oid
    BY <2>1, InvTypes, LegFields DEF IndInv, CopyAgrees, Judging
  <2>3. \A o \in OrderIds : orders'[o].filled = orders[o].filled
    <3>1. CASE UpdatePosition \/ CancelRaises
      BY <3>1 DEF UpdatePosition, CancelRaises, exchangeVars
    <3>2. CASE CancelOrder
      BY <2>2, <3>2, Numbers DEF CancelOrder, Orders
    <3>3. QED
      BY <3>1, <3>2
  <2>4. QED
    BY <2>2, <2>3
       DEF UpdatePosition, CancelOrder, CancelRaises, exchangeVars, ghostVars, legVars
<1>2. /\ ExchangeFilled' = ExchangeFilled /\ Without(row.oid)' = Without(row.oid)
  BY <1>1 DEF ExchangeFilled, Without
<1>3. NoOverRecording'
  BY <1>1, <1>2 DEF Booked, NoOverRecording
<1>4. CASE UpdatePosition
  <2>1. pc = "position" /\ pc' = "decide"
    BY <1>4 DEF UpdatePosition
  <2>2. QED
    BY <1>1, <1>2, <1>3, <2>1 DEF Booked, Resting, Placing, Judging, ToBase
<1>5. CASE CancelOrder \/ CancelRaises
  <2>1. pc = "decide" /\ pc' = "repost"
    BY <1>5 DEF CancelOrder, CancelRaises, TimedOut
  <2>2. QED
    BY <1>1, <1>3, <2>1 DEF Booked, Resting, Placing, Judging
<1>6. QED
  BY <1>4, <1>5

(* A partly filled order is kept with what it has filled, an open one has   *)
(* filled nothing and is kept as it is.                                     *)
LEMMA KeepingBooked ==
    ASSUME IndInv, Booked, KeepPartial \/ KeepOpen
    PROVE  Booked'
<1>1. /\ pc = "decide" /\ pc' = "idle" /\ StandsStill
      /\ row.oid \in OrderIds
      /\ row.status \in {"submitting", "submitted", "partial"}
  BY InvTypes, LegFields
     DEF KeepPartial, KeepOpen, Finish, Return, StandsStill, IndInv, CopyAgrees, Judging,
         legVars, exchangeVars, ghostVars
<1>2. /\ row'.oid = row.oid
      /\ \/ row'.status = "partial" /\ row'.filled = ToBase(reply.filled)
         \/ row' = row /\ reply.status = "open"
  BY InvTypes DEF KeepPartial, KeepOpen, Finish, Legs, legVars
<1>3. NoOverRecording'
  BY <1>1, StillWithout DEF Booked, NoOverRecording, StandsStill
<1>4. ASSUME crashes' = 0 PROVE BookedWith(ToBase(orders[row.oid].filled))'
  <2>1. /\ recorded <= Without(row.oid) + ToBase(reply.filled)
        /\ reply.filled <= orders[row.oid].filled
        /\ reply.status = "open" => reply.filled = 0
    BY <1>1, <1>4 DEF Booked, Judging, StandsStill
  <2>2. ToBase(reply.filled) <= ToBase(orders[row.oid].filled)
    <3>1. reply.filled \in Int /\ orders[row.oid].filled \in Int
      BY <1>1, Numbers
    <3>2. QED
      BY <2>1, <3>1, BaseInOrder, Zenon
  <2>3. Without(row.oid)' = Without(row.oid) /\ recorded' = recorded
    BY <1>1, <1>2, StillWithout DEF StandsStill, Without
  <2>4. ToBase(orders[row.oid].filled)' = ToBase(orders[row.oid].filled)
    BY <1>1, <1>2 DEF StandsStill, ToBase
  <2>5. CASE row'.filled = ToBase(reply.filled)
    BY <2>1, <2>2, <2>3, <2>4, <2>5 DEF BookedWith
  <2>6. CASE reply.status = "open"
    <3>1. ToBase(reply.filled) = 0
      BY <2>1, <2>6, BaseInOrder
    <3>2. recorded <= Without(row.oid)
      BY <1>1, <2>1, <3>1, Numbers
    <3>3. QED
      BY <2>3, <3>2 DEF BookedWith
  <2>7. QED
    BY <1>2, <2>5, <2>6
<1>5. crashes' = 0 => row.status # "submitting"
  BY <1>1 DEF Booked, Placing, StandsStill
<1>6. QED
  BY <1>1, <1>2, <1>3, <1>4, <1>5 DEF Booked, Resting, Placing, Judging

(* The exchange trades for an order: it and the sum grow by one.            *)
LEMMA TradeBooked ==
    ASSUME IndInv, Booked, NEW x \in OrderIds, Fill(x)
    PROVE  Booked'
<1>1. /\ UNCHANGED <<action, row, reply, recorded, crashes, pc, newId>>
      /\ held' = IF action = "open" THEN held + 1 ELSE held - 1
  BY DEF Fill, legVars, threadVars, ghostVars
<1>2. \A o \in OrderIds :
         orders'[o].filled = IF o = x THEN orders[o].filled + 1 ELSE orders[o].filled
  BY Numbers DEF Fill, Orders
<1>3. ExchangeFilled' = ExchangeFilled + 1
  BY <1>1 DEF ExchangeFilled, IndInv, TypeOK
<1>4. ToBase(ExchangeFilled) <= ToBase(ExchangeFilled')
  BY <1>3, BaseInOrder, Numbers
<1>5. NoOverRecording'
  BY <1>1, <1>4, Numbers, BaseInOrder, <1>3 DEF Booked, NoOverRecording, ToBase
<1>6. ASSUME NEW o \in OrderIds
      PROVE  /\ orders[o].filled <= orders'[o].filled
             /\ ToBase(orders[o].filled) <= ToBase(orders'[o].filled)
             /\ ToBase(ExchangeFilled - orders[o].filled)
                   <= ToBase(ExchangeFilled' - orders'[o].filled)
             /\ ToBase(ExchangeFilled' - orders'[o].filled) \in Int
             /\ ToBase(orders'[o].filled) \in Int
  <2>1. /\ orders[o].filled \in Nat /\ orders'[o].filled \in Nat
        /\ orders[o].filled <= orders'[o].filled
        /\ ExchangeFilled - orders[o].filled <= ExchangeFilled' - orders'[o].filled
        /\ ExchangeFilled - orders[o].filled \in Int
        /\ ExchangeFilled' - orders'[o].filled \in Int
        /\ orders[o].filled \in Int /\ orders'[o].filled \in Int
    BY <1>2, <1>3, Numbers
  <2>2. QED
    BY <2>1, BaseInOrder, Zenon
<1>7. pc = "ack" => newId \in OrderIds
  BY DEF IndInv, BookSane
<1>8. pc \in Judging => row.oid \in OrderIds
  BY InvTypes, LegFields DEF IndInv, CopyAgrees, Judging
<1>9. ASSUME NEW o \in OrderIds
      PROVE  /\ Without(o) <= ToBase(ExchangeFilled' - orders'[o].filled)
             /\ Without(o) \in Int
  BY <1>6, Numbers DEF Without
<1>10. ASSUME crashes = 0, Resting
       PROVE  BookedWith(ToBase(orders[row.oid].filled))'
  <2>1. row.oid \in OrderIds /\ BookedWith(ToBase(orders[row.oid].filled))
    BY <1>10 DEF Booked, Resting
  <2>2. ToBase(orders[row.oid].filled)' = ToBase(orders'[row.oid].filled)
    BY <1>1 DEF ToBase
  <2>3. Without(row.oid)' = ToBase(ExchangeFilled' - orders'[row.oid].filled)
    BY <1>1 DEF Without, ToBase
  <2>4. QED
    BY <1>1, <1>6, <1>9, <2>1, <2>2, <2>3, Numbers DEF BookedWith
<1>11. ASSUME crashes = 0, pc = "fetched"
       PROVE  BookedWith(ToBase(reply.filled))'
  <2>1. row.oid \in OrderIds /\ BookedWith(ToBase(reply.filled))
    BY <1>8, <1>11 DEF Booked, Judging
  <2>2. ToBase(reply.filled)' = ToBase(reply.filled)
    BY <1>1 DEF ToBase
  <2>3. Without(row.oid)' = ToBase(ExchangeFilled' - orders'[row.oid].filled)
    BY <1>1 DEF Without, ToBase
  <2>4. QED
    BY <1>1, <1>6, <1>9, <2>1, <2>2, <2>3, Numbers DEF BookedWith
<1>12. ASSUME crashes = 0, pc \in {"position", "decide"}
       PROVE  (recorded <= Without(row.oid) + ToBase(reply.filled))'
  <2>1. row.oid \in OrderIds /\ recorded <= Without(row.oid) + ToBase(reply.filled)
    BY <1>8, <1>12 DEF Booked, Judging
  <2>2. /\ ToBase(reply.filled)' = ToBase(reply.filled)
        /\ Without(row.oid)' = ToBase(ExchangeFilled' - orders'[row.oid].filled)
    BY <1>1 DEF Without, ToBase
  <2>3. QED
    BY <1>1, <1>6, <1>9, <2>1, <2>2, Numbers
<1>13. ASSUME crashes = 0, pc = "ack"
       PROVE  (recorded <= Without(newId))'
  <2>1. newId \in OrderIds /\ recorded <= Without(newId)
    BY <1>7, <1>13 DEF Booked
  <2>2. Without(newId)' = ToBase(ExchangeFilled' - orders'[newId].filled)
    BY <1>1 DEF Without, ToBase
  <2>3. QED
    BY <1>1, <1>6, <1>9, <2>1, <2>2, Numbers
<1>14. ASSUME crashes = 0, pc \in Judging
       PROVE  reply.filled <= orders'[row.oid].filled
  <2>1. reply.filled <= orders[row.oid].filled /\ row.oid \in OrderIds
    BY <1>8, <1>14 DEF Booked
  <2>2. orders'[row.oid].filled \in Nat
    BY <1>2, <2>1, Numbers
  <2>3. QED
    BY <1>6, <2>1, <2>2, Numbers
<1>15. QED
  BY <1>1, <1>5, <1>10, <1>11, <1>12, <1>13, <1>14 DEF Booked, Resting

(* The exchange ends an order, the clock moves, the user switches something *)
(* off: no fill and no row changes.                                         *)
LEMMA QuietBooked ==
    ASSUME IndInv, Booked,
           UNCHANGED <<action, row, recorded, pc, reply, newId, held, crashes>>,
           \A o \in OrderIds : orders'[o].filled = orders[o].filled
    PROVE  Booked'
<1>1. ExchangeFilled' = ExchangeFilled
  BY DEF ExchangeFilled
<1>2. NoOverRecording'
  BY <1>1 DEF Booked, NoOverRecording
<1>3. ASSUME NEW o \in OrderIds, o = row.oid
      PROVE  /\ Without(row.oid)' = Without(row.oid)
             /\ ToBase(orders[row.oid].filled)' = ToBase(orders[row.oid].filled)
             /\ ToBase(reply.filled)' = ToBase(reply.filled)
             /\ BookedWith(ToBase(orders[row.oid].filled))'
                   = BookedWith(ToBase(orders[row.oid].filled))
             /\ BookedWith(ToBase(reply.filled))' = BookedWith(ToBase(reply.filled))
  <2>1. /\ Without(row.oid)' = Without(row.oid)
        /\ ToBase(orders[row.oid].filled)' = ToBase(orders[row.oid].filled)
        /\ ToBase(reply.filled)' = ToBase(reply.filled)
    BY <1>1, <1>3 DEF Without, ToBase
  <2>2. QED
    BY <2>1 DEF BookedWith
<1>4. pc \in Judging => row.oid \in OrderIds
  BY InvTypes, LegFields DEF IndInv, CopyAgrees, Judging
<1>5. pc = "ack" => newId \in OrderIds /\ Without(newId)' = Without(newId)
  BY <1>1 DEF IndInv, BookSane, Without
<1>6. QED
  BY <1>2, <1>3, <1>4, <1>5 DEF Booked, Resting, Judging

(* Whatever the surroundings do keeps the books.                            *)
LEMMA SurroundingsBooked ==
    ASSUME IndInv, Booked, Surroundings
    PROVE  Booked'
<1>1. CASE \E o \in OrderIds : Fill(o)
  BY <1>1, TradeBooked
<1>2. CASE \E o \in OrderIds : ExchangeCancels(o) \/ ExchangeRejects(o)
  <2>1. PICK x \in OrderIds : ExchangeCancels(x) \/ ExchangeRejects(x)
    BY <1>2
  <2>2. \A o \in OrderIds : orders'[o].filled = orders[o].filled
    BY <2>1, Numbers DEF ExchangeCancels, ExchangeRejects, Orders
  <2>3. UNCHANGED <<action, row, recorded, pc, reply, newId, held, crashes>>
    BY <2>1 DEF ExchangeCancels, ExchangeRejects, legVars, threadVars, ghostVars
  <2>4. QED
    BY <2>2, <2>3, QuietBooked
<1>3. CASE Age \/ DisableRule \/ DropAccount
  BY <1>3, QuietBooked DEF Age, DisableRule, DropAccount, legVars, threadVars, exchangeVars,
                           ghostVars
<1>4. CASE Crash
  <2>1. crashes' # 0
    BY <1>4, Numbers DEF Crash
  <2>2. QED
    BY <2>1 DEF Booked, NoOverRecording
<1>5. QED
  BY <1>1, <1>2, <1>3, <1>4 DEF Surroundings

(* Every step keeps the books.                                              *)
LEMMA StepBooked ==
    ASSUME Truthful, IndInv, Booked, [Next]_vars
    PROVE  Booked'
<1>1. CASE Thread
  BY <1>1, EndingBooked, ReadingBooked, SendingBooked, SentBooked, FetchedBooked, FillBooked,
     DecidingBooked, KeepingBooked DEF Thread
<1>2. CASE UNCHANGED vars
  BY <1>2, QuietBooked DEF vars
<1>3. QED
  BY <1>1, <1>2, SurroundingsBooked DEF Next

(* Short of a death between the fill record and the row's update, the fill  *)
(* records of a leg never exceed what the exchange traded for it: a fill    *)
(* seen by several polls, by the last poll before a cancel, or in part by   *)
(* each, is booked once (_sync_incremental_fill_progress).  The driver has  *)
(* to report a partly filled order as partial.                              *)
THEOREM FillsBookedOnce ==
    ASSUME PartialReports \subseteq {"partial"}
    PROVE  Spec => []NoOverRecording
<1>1. IndInv /\ Booked /\ [Next]_vars => Booked'
  BY StepBooked DEF Truthful
<1>2. Booked => NoOverRecording
  BY DEF Booked
<1>3. QED
  BY <1>1, <1>2, BookedInitially, Invariance, PTL DEF Spec
=============================================================================
