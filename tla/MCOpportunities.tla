--------------------------- MODULE MCOpportunities ---------------------------
(***************************************************************************)
(* The instance of Opportunities that TLC checks: two pairs over three     *)
(* exchanges, and the market situations and scenes they go through.        *)
(***************************************************************************)
EXTENDS Opportunities

(* A function on all kinds, zero where d does not say otherwise.            *)
Times(kinds, d) == [k \in kinds |-> IF k \in DOMAIN d THEN d[k] ELSE 0]

MCLeftVenue == [p \in Pairs |-> "okx"]
MCRightVenue == [p \in Pairs |-> IF p = 1 THEN "gate" ELSE "htx"]

Quote(price, width, age, rate, hours) ==
    [bid |-> price - width, ask |-> price, last |-> price, age |-> age,
     rate |-> rate, hours |-> hours, fundingAge |-> age]
NoQuote == [bid |-> 0, ask |-> 0, last |-> 0, age |-> "none",
            rate |-> 0, hours |-> 0, fundingAge |-> "none"]

Fair == [left |-> Quote(1000, 1, "now", 100, 8), right |-> Quote(1010, 1, "now", -40, 8)]
Apart == [left |-> Quote(1000, 1, "slow", -80, 4), right |-> Quote(1300, 1, "now", 40, 8)]
Stale == [left |-> Quote(1020, 1, "late", 20, 8), right |-> Quote(1000, 0, "old", 60, 8)]
Missing == [left |-> NoQuote, right |-> Quote(1000, 1, "now", 60, 8)]

Holder == [v \in Venues |-> [proven |-> v # "htx", synced |-> TRUE, amount |-> 500]]

OpportunityScene(channel, first, second, snap, d) ==
    [channel |-> channel, start |-> [p \in Pairs |-> IF p = 1 THEN first ELSE second],
     markets |-> {Fair, Apart, Stale, Missing},
     rule |-> [enabled |-> TRUE, open |-> 10, stop |-> 0],
     holder |-> Holder, snapshot |-> snap, times |-> Times(RowKinds, d)]

NoOpportunities == OpportunityScene("funding", Fair, Fair, FALSE, <<>>)

MCOpportunityScenes ==
    <<OpportunityScene("funding", Fair, Apart, TRUE, [tick |-> 1, outage |-> 1]),
      OpportunityScene("funding", Fair, Fair, TRUE, [switch |-> 2]),
      OpportunityScene("funding", Fair, Missing, TRUE, [expire |-> 1]),
      OpportunityScene("spread", Fair, Stale, FALSE,
                      [tick |-> 1, death |-> 1, halfhour |-> 1]),
      OpportunityScene("spread", Fair, Fair, TRUE,
                      [outage |-> 1, fail |-> 1, death |-> 1])>>
=============================================================================
