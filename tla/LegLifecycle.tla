---------------------------- MODULE LegLifecycle ----------------------------
(***************************************************************************)
(* What an order leg promises to everything that reads its row: reconcile, *)
(* the execution monitor's scan, the strategy pages.  Its status goes from *)
(* pending over submitting to submitted and partial, comes back to pending *)
(* only while retries are left, and ends for good as filled or failed; the *)
(* retry count grows by one at a time and a leg is sent to the exchange    *)
(* only while it says submitting.                                          *)
(*                                                                         *)
(* How a round of process_order_leg brings these steps about, and what the *)
(* exchange does meanwhile, is OrderLeg's matter.                          *)
(***************************************************************************)
EXTENDS Integers

CONSTANT RetryLimit   \* a positive number: OrderLeg's RetryAssumption

VARIABLES
    status,   \* the leg's status
    retries,  \* its retry_count
    sent      \* orders the exchange accepted for it

vars == <<status, retries, sent>>

AtExchange == {"submitting", "submitted", "partial"}
Ended == {"filled", "failed"}

Init ==
    /\ status = "pending"
    /\ retries = 0
    /\ sent = 0

Begin ==
    /\ status = "pending"
    /\ status' = "submitting"
    /\ UNCHANGED <<retries, sent>>

Send ==
    /\ status = "submitting"
    /\ sent' = sent + 1
    /\ UNCHANGED <<status, retries>>

Acknowledge ==
    /\ status = "submitting"
    /\ status' = "submitted"
    /\ UNCHANGED <<retries, sent>>

ObservePartial ==
    /\ status \in AtExchange
    /\ status' = "partial"
    /\ UNCHANGED <<retries, sent>>

(* One more retry, or none when the exchange itself ended the order.        *)
SpendAtMostOneRetry == retries' \in {retries, retries + 1}

Repost ==
    /\ status \in AtExchange
    /\ status' = "pending"
    /\ SpendAtMostOneRetry
    /\ retries' < RetryLimit
    /\ UNCHANGED sent

End ==
    /\ status \notin Ended
    /\ status' \in Ended
    /\ SpendAtMostOneRetry
    /\ retries' <= RetryLimit
    /\ UNCHANGED sent

Next == Begin \/ Send \/ Acknowledge \/ ObservePartial \/ Repost \/ End

Spec == Init /\ [][Next]_vars
=============================================================================
