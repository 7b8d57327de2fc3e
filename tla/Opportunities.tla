---------------------------- MODULE Opportunities ----------------------------
(***************************************************************************)
(* One opportunity channel, funding or spread, from market data to the     *)
(* page: opportunity_runtime_service builds the rows of all active pairs   *)
(* every second and keeps them in a Redis hash, a snapshot in MySQL stands *)
(* in after a cold start (opportunity_snapshot_service), the web process   *)
(* shows them (opportunity_status_service), and the opportunity monitor    *)
(* looks for rows to open.                                                 *)
(*                                                                         *)
(* A market situation of a pair is two sides, each a ticker and a funding  *)
(* rate with their ages; the tickers are read at one instant here.  Rates  *)
(* are in units of the fourth decimal of a percent and gaps in millionths. *)
(***************************************************************************)
EXTENDS Integers, Sequences, FiniteSets, Functions

CONSTANTS
    Pairs,             \* active rows of exchange_market_pairs, by id
    FrozenPairs,       \* those of an index symbol
    LeftVenue, RightVenue,
    OpportunityScenes  \* a sequence: channel, rule, accounts, markets, and bounds

Venues == {LeftVenue[p] : p \in Pairs} \cup {RightVenue[p] : p \in Pairs}
Ages == {"none", "now", "slow", "late", "old"}
Sides == [bid : Nat, ask : Nat, last : Nat, age : Ages,
          rate : Int, hours : Nat, fundingAge : Ages]
Markets == [left : Sides, right : Sides]
RowKinds == {"tick", "switch", "outage", "expire", "halfhour", "fail", "death"}

(* A pair is made of markets of two exchanges.                              *)
ASSUME PairAssumption == \A p \in Pairs : LeftVenue[p] # RightVenue[p]

ASSUME OpportunityAssumption ==
    /\ Pairs \subseteq Nat /\ IsFiniteSet(Pairs) /\ FrozenPairs \subseteq Pairs
    /\ DOMAIN LeftVenue = Pairs /\ DOMAIN RightVenue = Pairs
    /\ \A s \in Range(OpportunityScenes) :
          /\ s.channel \in {"funding", "spread"}
          /\ s.start \in [Pairs -> Markets] /\ s.markets \subseteq Markets
          /\ s.rule \in [enabled : BOOLEAN, open : Nat, stop : Nat]
          /\ s.holder \in [Venues -> [proven : BOOLEAN, synced : BOOLEAN,
                                      amount : Nat]]
          /\ s.snapshot \in BOOLEAN
          /\ s.times \in [RowKinds -> Nat]

VARIABLES
    scene,      \* the number of the scene this behaviour plays in
    market,     \* tickers and funding rates in Redis
    enabled,    \* exchanges enabled in the system configuration
    rowHash,    \* opportunity:<channel>:public, a function on some pairs
    snapshot,   \* public_opportunity_snapshots
    saved,      \* the refreshing process has saved one within half an hour
    strategy,   \* strategy-runtime:user, with its snapshot in step
    userRows,   \* opportunity:<channel>:user
    task,       \* what the worker and the web process are doing
    page,       \* the page as last answered
    opened,     \* pairs the opportunity monitor has opened
    overlap,    \* history: a warm-up and a refresh wrote across each other
    times

rowVars == <<scene, market, enabled, rowHash, snapshot, saved, strategy, userRows,
             task, page, opened, overlap, times>>

Scene == OpportunityScenes[scene]
Happens(k) == times[k] > 0 /\ times' = [times EXCEPT ![k] = @ - 1]

-----------------------------------------------------------------------------
(* Building rows.                                                           *)

Abs(n) == IF n < 0 THEN -n ELSE n

(* _is_market_data_fresh: sides without a time do not count, but one must.  *)
Within(ages, limit) == ages \ {"none"} # {} /\ ages \ {"none"} \subseteq limit
TickerAges(m) == {m.left.age, m.right.age}
FundingAges(m) == {m.left.fundingAge, m.right.fundingAge}
ForStatus == {"now"}
ForExecution == {"now", "slow"}
ForDisplay == {"now", "slow", "late"}

Funded(m) == "none" \notin FundingAges(m)
Hours(side) == IF side.fundingAge # "none" /\ side.hours > 0 THEN side.hours ELSE 8

GapOf(sell, buy) == IF sell <= 0 \/ buy <= 0 THEN 0
                    ELSE (Abs(sell - buy) * 1000000) \div buy
Aligned(a, b) == LET low == IF a < b THEN a ELSE b
                 IN  Abs(a - b) * 100 <= 20 * low

(* _resolve_status_code: 5 frozen, 4 missing, 3 gap, 2 stale, 1 normal.     *)
Status(frozen, complete, aligned, recent) ==
    CASE frozen -> 5
      [] ~frozen /\ ~complete -> 4
      [] ~frozen /\ complete /\ ~aligned -> 3
      [] ~frozen /\ complete /\ aligned /\ ~recent -> 2
      [] OTHER -> 1
Priority(status) == IF status = 5 THEN 2 ELSE IF status \in {3, 4} THEN 1 ELSE 0

Row(p, leftBuys, metric, data, priced, ages, m, aligned, funded, diff) ==
    [pair |-> p,
     long |-> IF leftBuys THEN LeftVenue[p] ELSE RightVenue[p],
     short |-> IF leftBuys THEN RightVenue[p] ELSE LeftVenue[p],
     metric |-> metric, diff |-> diff,
     data |-> data,
     fresh |-> Within(ages, ForExecution),
     shown |-> Within(ages, ForDisplay),
     aligned |-> data /\ aligned,
     frozen |-> p \in FrozenPairs,
     status |-> Status(p \in FrozenPairs, data /\ funded /\ priced, data /\ aligned,
                       Within(TickerAges(m) \cup FundingAges(m), ForStatus))]

(* Mutant: the rate is what the holder of a long position is paid.          *)
LeftIsShortOfLower(m) == m.left.rate <= m.right.rate

(* The side with the higher rate is shorted.                                *)
LeftIsShort(m) == m.left.rate >= m.right.rate

(* The net rate of four hours, each rate over its own settlement interval.  *)
FourHours(side) == (side.rate * 4) \div Hours(side)

FundingRow(p, m) ==
    LET data == /\ "none" \notin TickerAges(m) /\ Funded(m)
                /\ m.left.last > 0 /\ m.right.last > 0
        leftBuys == data /\ ~LeftIsShort(m)
    IN  Row(p, leftBuys,
            IF data THEN Abs(FourHours(m.left) - FourHours(m.right)) ELSE 0,
            data, m.left.last > 0 /\ m.right.last > 0,
            TickerAges(m) \cup FundingAges(m), m,
            Aligned(m.left.last, m.right.last), Funded(m),
            IF data THEN Abs(m.left.last - m.right.last) ELSE 0)

(* Each direction's gap is taken without its sign and the wider one wins.   *)
SpreadRow(p, m) ==
    LET data == "none" \notin TickerAges(m)
                /\ \A n \in {m.left.bid, m.left.ask, m.right.bid, m.right.ask} : n > 0
        toRight == IF data THEN GapOf(m.right.bid, m.left.ask) ELSE 0
        toLeft == IF data THEN GapOf(m.left.bid, m.right.ask) ELSE 0
        leftBuys == toRight >= toLeft
        buy == IF leftBuys THEN m.left.ask ELSE m.right.ask
        sell == IF leftBuys THEN m.right.bid ELSE m.left.bid
    IN  Row(p, leftBuys, IF leftBuys THEN toRight ELSE toLeft,
            data, buy > 0 /\ sell > 0, TickerAges(m), m,
            Aligned(m.left.bid + m.left.ask, m.right.bid + m.right.ask),
            Funded(m), IF data THEN Abs(sell - buy) ELSE 0)

RowOf(p, m) == IF Scene.channel = "funding" THEN FundingRow(p, m) ELSE SpreadRow(p, m)

(* _finalize_rows: by status, then by metric.                               *)
Ahead(a, b) ==
    \/ Priority(a.status) < Priority(b.status)
    \/ Priority(a.status) = Priority(b.status)
       /\ (a.metric > b.metric \/ (a.metric = b.metric /\ a.pair < b.pair))
RankOf(rows, row) == 1 + Cardinality({other \in rows : Ahead(other, row)})

Visible(row) == row.long \in enabled /\ row.short \in enabled
Built == {row \in {RowOf(p, market[p]) : p \in Pairs} : Visible(row)}

IsLive(row) == row.data /\ row.shown /\ row.aligned /\ ~row.frozen
LiveRows(rows) == {row \in rows : IsLive(row)}

Item(rows, row, ready, source) ==
    [row |-> row, ready |-> ready, source |-> source, rank |-> RankOf(rows, row)]
PairsOf(rows) == {row.pair : row \in rows}
Items(rows, ready, source) ==
    [p \in PairsOf(rows) |->
        Item(rows, CHOOSE row \in rows : row.pair = p, ready, source)]

-----------------------------------------------------------------------------
(* What a user may do with a row.                                           *)

Ready(account) == account.proven \/ account.synced
ExecutionReady(row) ==
    /\ row.data /\ row.fresh /\ row.aligned
    /\ \A v \in {row.long, row.short} :
          Ready(Scene.holder[v]) /\ Scene.holder[v].amount > 0

Meets(row) ==
    /\ Scene.rule.enabled
    /\ IF Scene.channel = "funding" THEN row.metric > Scene.rule.open
                                    ELSE row.metric >= Scene.rule.open
    /\ Scene.rule.stop > 0 => row.diff <= Scene.rule.stop

Actionable == {row.pair : row \in {r \in LiveRows(Built) : ExecutionReady(r) /\ Meets(r)}}

(* _should_open, of the opportunity monitor.                                *)
ShouldOpen(row) == ExecutionReady(row) /\ Meets(row)

-----------------------------------------------------------------------------
NoRows == [p \in {} |-> 0]
Processes == {"worker", "web"}
NoTask == [pc |-> "idle", rows |-> {}, live |-> {}, ready |-> FALSE,
           source |-> "none", seen |-> {}]
NoStrategy == [candidates |-> {}, ready |-> FALSE, source |-> "none"]
NoPage == [rows |-> {}, ready |-> FALSE, source |-> "none"]

OpportunityInit ==
    /\ scene \in DOMAIN OpportunityScenes
    /\ market = Scene.start
    /\ enabled = Venues
    /\ rowHash = NoRows
    /\ snapshot = IF Scene.snapshot THEN LiveRows(Built) ELSE {}
    /\ saved = FALSE
    /\ strategy = NoStrategy
    /\ userRows = {}
    /\ task = [x \in Processes |-> IF x = "worker" THEN [NoTask EXCEPT !.pc = "check"]
                                                  ELSE NoTask]
    /\ page = NoPage
    /\ opened = {}
    /\ overlap = FALSE
    /\ times = Scene.times

Moves(x, pc) == task' = [task EXCEPT ![x].pc = pc]

(* With Redis away a read finds nothing.                                    *)
Reads(hash) == \/ hash = rowHash /\ UNCHANGED times
               \/ hash = NoRows /\ rowHash # NoRows /\ Happens("outage")

(* ... and a write is lost.                                                 *)
Stores(hash) == \/ rowHash' = hash /\ UNCHANGED times
                \/ rowHash # hash /\ UNCHANGED rowHash /\ Happens("outage")

-----------------------------------------------------------------------------
(* The worker: a warm-up when it starts, then a refresh every second.       *)

Refresh ==
    /\ task["worker"].pc = "idle"
    /\ task' = [task EXCEPT !["worker"] =
          [pc |-> "keys", rows |-> Built, live |-> LiveRows(Built),
           ready |-> LiveRows(Built) # {}, source |-> "runtime", seen |-> {}]]
    /\ UNCHANGED <<scene, market, enabled, rowHash, snapshot, saved, strategy,
                   userRows, page, opened, overlap, times>>

(* sync_hash_json reads the fields there are ...                            *)
ReadKeys(x) ==
    /\ task[x].pc = "keys"
    /\ \E hash \in {rowHash, NoRows} :
          Reads(hash) /\ task' = [task EXCEPT ![x].pc = "write",
                                              ![x].seen = DOMAIN hash]
    /\ UNCHANGED <<scene, market, enabled, rowHash, snapshot, saved, strategy,
                   userRows, page, opened, overlap>>

(* Mutant: rows that are gone are not removed.                              *)
SyncedOver(hash, seen, new) ==
    IF DOMAIN new = {} THEN hash
    ELSE [p \in DOMAIN hash \cup DOMAIN new |->
             IF p \in DOMAIN new THEN new[p] ELSE hash[p]]

(* ... and writes its rows, removing those it saw and does not have.        *)
Synced(hash, seen, new) ==
    IF DOMAIN new = {} THEN NoRows
    ELSE [p \in (DOMAIN hash \ seen) \cup DOMAIN new |->
             IF p \in DOMAIN new THEN new[p] ELSE hash[p]]

(* A warm-up writes over rows of a refresh, or a refresh over rows of a     *)
(* warm-up it has not seen and will not remove.                             *)
Across(t) ==
    IF t.source = "snapshot"
    THEN \E p \in DOMAIN rowHash : rowHash[p].source = "runtime"
    ELSE \E p \in DOMAIN rowHash \ t.seen : rowHash[p].source = "snapshot"

WriteRows(x) ==
    LET t == task[x]
    IN  /\ t.pc = "write"
        /\ Stores(Synced(rowHash, t.seen, Items(t.rows, t.ready, t.source)))
        /\ overlap' = (overlap \/ Across(t))
        /\ Moves(x, IF t.source = "runtime" THEN "save"
                    ELSE IF x = "web" THEN "show" ELSE "idle")
        /\ UNCHANGED <<scene, market, enabled, snapshot, saved, strategy, userRows,
                       page, opened>>

(* _persist_public_snapshot_if_due: the live rows, none of them included.   *)
SaveSnapshot ==
    /\ task["worker"].pc = "save"
    /\ snapshot' = IF saved THEN snapshot
                   ELSE {row \in task["worker"].live : Visible(row)}
    /\ saved' = TRUE
    /\ Moves("worker", "strategy")
    /\ UNCHANGED <<scene, market, enabled, rowHash, strategy, userRows, page, opened,
                   overlap, times>>

(* The user's payload, and its snapshot whenever it changed.                *)
StoreStrategy ==
    /\ task["worker"].pc = "strategy"
    /\ strategy' = [candidates |->
                       {row.pair : row \in {r \in task["worker"].live :
                                               ExecutionReady(r) /\ Meets(r)}},
                    ready |-> task["worker"].ready, source |-> "runtime"]
    /\ task' = [task EXCEPT !["worker"] = NoTask]
    /\ UNCHANGED <<scene, market, enabled, rowHash, snapshot, saved, userRows, page,
                   opened, overlap, times>>

(* A query fails: the round ends, the next one starts from the beginning.   *)
RefreshFails ==
    /\ task["worker"].pc \in {"save", "strategy"}
    /\ Happens("fail")
    /\ task' = [task EXCEPT !["worker"] = NoTask]
    /\ UNCHANGED <<scene, market, enabled, rowHash, snapshot, saved, strategy,
                   userRows, page, opened, overlap>>

(* The worker dies, and starts again with a warm-up.                        *)
WorkerRestarts ==
    /\ Happens("death")
    /\ task' = [task EXCEPT !["worker"] = [NoTask EXCEPT !.pc = "check"]]
    /\ saved' = FALSE
    /\ UNCHANGED <<scene, market, enabled, rowHash, snapshot, strategy, userRows, page,
                   opened, overlap>>

-----------------------------------------------------------------------------
(* The web process, and the warm-up both may do.                            *)

RequestPage ==
    /\ task["web"].pc = "idle"
    /\ \E hash \in {rowHash, NoRows} :
          Reads(hash) /\ Moves("web", IF hash = NoRows THEN "check" ELSE "show")
    /\ UNCHANGED <<scene, market, enabled, rowHash, snapshot, saved, strategy,
                   userRows, page, opened, overlap>>

(* Mutant: rows of the snapshot count as ready.                             *)
WarmedIsReadyAtOnce == TRUE

(* _warm_public_channel_rows: rows there are stay; else those of the        *)
(* snapshot are to be written, as not ready.                                *)
WarmedIsReady == FALSE

CheckRows(x) ==
    /\ task[x].pc = "check"
    /\ \E hash \in {rowHash, NoRows} :
          /\ Reads(hash)
          /\ task' = [task EXCEPT ![x] =
                IF hash # NoRows \/ snapshot = {}
                THEN [NoTask EXCEPT !.pc = IF x = "web" THEN "show" ELSE "idle"]
                ELSE [NoTask EXCEPT !.pc = "keys",
                         !.rows = {row \in snapshot : Visible(row)},
                         !.ready = WarmedIsReady, !.source = "snapshot"]]
    /\ UNCHANGED <<scene, market, enabled, rowHash, snapshot, saved, strategy,
                   userRows, page, opened, overlap>>

First(hash) == CHOOSE p \in DOMAIN hash : \A q \in DOMAIN hash :
                   \/ p = q \/ hash[p].rank < hash[q].rank
                   \/ (hash[p].rank = hash[q].rank /\ p < q)

(* get_public_rows_state takes its meta from the row of the first rank; a   *)
(* channel that is not ready and has no rows shows the snapshot.            *)
ShowPage ==
    /\ task["web"].pc = "show"
    /\ \E hash \in {rowHash, NoRows} :
          /\ Reads(hash)
          /\ LET shown == {p \in DOMAIN hash : Visible(hash[p].row)}
             IN  page' = IF hash = NoRows THEN NoPage
                         ELSE [rows |-> IF shown = {} /\ ~hash[First(hash)].ready
                                        THEN {<<row.pair, "snapshot">> :
                                                row \in {r \in snapshot : Visible(r)}}
                                        ELSE {<<p, hash[p].source>> : p \in shown},
                               ready |-> hash[First(hash)].ready,
                               source |-> hash[First(hash)].source]
    /\ task' = [task EXCEPT !["web"] = NoTask]
    /\ UNCHANGED <<scene, market, enabled, rowHash, snapshot, saved, strategy,
                   userRows, opened, overlap>>

-----------------------------------------------------------------------------
(* The opportunity monitor reads the user's own rows.                       *)
ScanUser ==
    /\ opened' = opened \cup {row.pair : row \in {r \in userRows : ShouldOpen(r)}}
    /\ UNCHANGED <<scene, market, enabled, rowHash, snapshot, saved, strategy,
                   userRows, task, page, overlap, times>>

(* Outside.                                                                 *)
MarketMoves ==
    /\ Happens("tick")
    /\ \E p \in Pairs, m \in Scene.markets : market' = [market EXCEPT ![p] = m]
    /\ UNCHANGED <<scene, enabled, rowHash, snapshot, saved, strategy, userRows, task,
                   page, opened, overlap>>

SwitchExchange ==
    /\ Happens("switch")
    /\ \E v \in Venues :
          enabled' = IF v \in enabled THEN enabled \ {v} ELSE enabled \cup {v}
    /\ UNCHANGED <<scene, market, rowHash, snapshot, saved, strategy, userRows, task,
                   page, opened, overlap>>

RowsExpire ==
    /\ Happens("expire")
    /\ rowHash' = NoRows
    /\ UNCHANGED <<scene, market, enabled, snapshot, saved, strategy, userRows, task,
                   page, opened, overlap>>

HalfHourPasses ==
    /\ saved /\ Happens("halfhour")
    /\ saved' = FALSE
    /\ UNCHANGED <<scene, market, enabled, rowHash, snapshot, strategy, userRows, task,
                   page, opened, overlap>>

Work(x) == ReadKeys(x) \/ WriteRows(x) \/ CheckRows(x)
WorkerSteps == Refresh \/ Work("worker") \/ SaveSnapshot \/ StoreStrategy

OpportunityNext ==
    \/ Refresh \/ SaveSnapshot \/ StoreStrategy \/ RefreshFails \/ WorkerRestarts
    \/ \E x \in Processes : ReadKeys(x) \/ WriteRows(x) \/ CheckRows(x)
    \/ RequestPage \/ ShowPage
    \/ ScanUser
    \/ MarketMoves \/ SwitchExchange \/ RowsExpire \/ HalfHourPasses

OpportunitySpec == OpportunityInit /\ [][OpportunityNext]_rowVars

(* The loops of the worker's threads never end.                             *)
OpportunityFairness == WF_rowVars(WorkerSteps) /\ WF_rowVars(ScanUser)
OpportunityFairSpec == OpportunitySpec /\ OpportunityFairness

-----------------------------------------------------------------------------
(* Properties.                                                              *)

(* A page that calls itself live shows rows of a refresh only, although the *)
(* web process may write the snapshot's rows into the same hash; unless     *)
(* such a warm-up wrote over rows of a refresh, or a refresh over rows the  *)
(* warm-up had written since it looked at the hash.                         *)
LivePageIsLive ==
    page.ready /\ ~overlap => \A r \in page.rows : r[2] = "runtime"

(* When both sides settle at the same interval, the net rate of a funding   *)
(* row is what its own legs earn in four hours: the short side is paid its  *)
(* rate and the long side pays.  (With different intervals the side is      *)
(* chosen by the plain rates, and the rate shown may be lost, not earned.)  *)
NetRateIsEarned ==
    \A p \in Pairs :
        LET m == market[p]
            row == FundingRow(p, m)
            side(v) == IF v = LeftVenue[p] THEN m.left ELSE m.right
        IN  row.data /\ Hours(m.left) = Hours(m.right) =>
                row.metric = FourHours(side(row.short)) - FourHours(side(row.long))

(* When the market, the switches and Redis are left alone, the hash ends up *)
(* holding exactly the rows of the present market, whatever warm-ups and    *)
(* half finished refreshes wrote before.                                    *)
RowsAreOfNow == rowHash = Items(Built, LiveRows(Built) # {}, "runtime")
RowsCatchUp == <>[]RowsAreOfNow

(* The rules really take part in automatic execution                        *)
(* (views/templates/pages/strategy_list.html): a pair that from some time   *)
(* on always is a candidate is opened.                                      *)
RulesTakePart ==
    \A p \in Pairs : <>[](p \in Actionable) => <>(p \in opened)
=============================================================================
