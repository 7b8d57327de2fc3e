---------------------------- MODULE TransferPlan ----------------------------
(***************************************************************************)
(* What the automatic transfer wants to move: the balance rows of          *)
(* account_query_service.build_balance_rows_from_accounts, whose amounts   *)
(* pass through a display text ("$4.6K") and back, and the candidates of   *)
(* account_transfer_planning_service.list_auto_transfer_candidates.        *)
(* Amounts are whole dollars, ratios are percent.                          *)
(***************************************************************************)
EXTENDS Integers

(* Python's round of n / d.                                                 *)
Rounded(n, d) ==
    LET q == n \div d
        r == 2 * (n % d)
    IN  IF r < d \/ (r = d /\ q % 2 = 0) THEN q ELSE q + 1

(* Two decimals of a million, one of a thousand, everything below.          *)
DisplayUnit(v) == IF v >= 1000000 THEN 10000 ELSE IF v >= 1000 THEN 100 ELSE 1

(* _parse_amount(_format_amount(v)): the text is rounded, a tie either way  *)
(* (v / 1000 is seldom exact), and int() may lose one of what float makes   *)
(* of the text.                                                             *)
Shows(v) ==
    LET unit == DisplayUnit(v)
    IN  IF unit = 1 \/ (unit = 100 /\ v % 1000 = 0) THEN {v}
        ELSE {s \in v - unit \div 2 - 1 .. v + unit \div 2 :
                 \/ s % unit = 0
                 \/ (s + 1) % unit = 0 /\ s + 1 >= v - unit \div 2}

(* The target share of one account: its own ratio, or what it has.          *)
TargetOf(total, ratio, available) ==
    IF ratio > 0 THEN Rounded(total * ratio, 100) ELSE available

TriggerOf(target, triggerRatio) == Rounded(target * triggerRatio, 100)

(* Rows are [available, target, trigger], as shown.  The balance is never   *)
(* below what is available of it, so what is available decides.             *)
Wants(row) == row.target > 0 /\ row.trigger > 0 /\ row.available < row.trigger
Spares(row) == row.available > row.target

Smaller(a, b) == IF a < b THEN a ELSE b

(* Mutant: the target's need alone decides.                                 *)
AmountNeeded(source, target) == target.target - target.available

AmountBetween(source, target) ==
    Smaller(source.available - source.target, target.target - target.available)

(* In which order they come does not matter here (Accounts).                *)
Candidates(rows) ==
    {p \in (DOMAIN rows) \X (DOMAIN rows) :
        /\ p[1] # p[2]
        /\ Spares(rows[p[1]]) /\ Wants(rows[p[2]])
        /\ AmountBetween(rows[p[1]], rows[p[2]]) > 0}
=============================================================================
