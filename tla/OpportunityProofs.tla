-------------------------- MODULE OpportunityProofs --------------------------
(***************************************************************************)
(* Proofs about Opportunities, for any number of pairs and exchanges and   *)
(* any market: what a page that calls itself live shows, however warm-ups  *)
(* and refreshes write into one hash, and what a funding row promises.     *)
(***************************************************************************)
EXTENDS Opportunities, FiniteSetTheorems, WellFoundedInduction, TLAPS

Rows == [pair : Pairs, long : Venues, short : Venues, metric : Nat, diff : Nat,
         data : BOOLEAN, fresh : BOOLEAN, shown : BOOLEAN, aligned : BOOLEAN,
         frozen : BOOLEAN, status : 1 .. 5]
RowSets == {rows \in SUBSET Rows : IsFiniteSet(rows)}
Origins == {"runtime", "snapshot"}
HashItems == [row : Rows, ready : BOOLEAN, source : Origins, rank : Nat]
Tasks == [pc : {"idle", "check", "keys", "write", "save", "strategy", "show"},
          rows : RowSets, live : RowSets, ready : BOOLEAN,
          source : Origins \cup {"none"}, seen : SUBSET Pairs]

(* What is outside, and what is kept between the rounds.                    *)
WorldTypes ==
    /\ scene \in DOMAIN OpportunityScenes
    /\ market \in [Pairs -> Markets]
    /\ enabled \subseteq Venues
    /\ times \in [RowKinds -> Nat]
    /\ overlap \in BOOLEAN
    /\ userRows = {}

StoreTypes ==
    /\ DOMAIN rowHash \subseteq Pairs /\ rowHash \in [DOMAIN rowHash -> HashItems]
    /\ snapshot \in RowSets
    /\ saved \in BOOLEAN
    /\ task \in [Processes -> Tasks]
    /\ strategy.candidates \subseteq Pairs /\ strategy.ready \in BOOLEAN
    /\ opened = {}

(* A warm-up knows its rows for old ones, and what is to be written has an  *)
(* origin.                                                                  *)
OriginsKnown ==
    \A x \in Processes :
        /\ task[x].source = "snapshot" => task[x].ready = FALSE
        /\ task[x].pc \in {"keys", "write"} => task[x].source \in Origins

(* A row that is ready is in the company of rows of a refresh only, unless  *)
(* a warm-up and a refresh wrote across each other.                         *)
ReadyTogether ==
    ~overlap => \A p \in DOMAIN rowHash, q \in DOMAIN rowHash :
                    rowHash[p].ready => rowHash[q].source = "runtime"

OpportunityInv ==
    /\ WorldTypes /\ StoreTypes /\ OriginsKnown /\ ReadyTogether /\ LivePageIsLive

-----------------------------------------------------------------------------
(* Numbers and sets.                                                        *)

(* A set of natural numbers has a least one.                                *)
LEMMA LeastPair ==
    ASSUME NEW S \in SUBSET Nat, S # {}
    PROVE  \E x \in S : \A y \in S : x =< y
<1>1. IsWellFoundedOn(OpToRel(<, Nat), Nat)
  BY NatLessThanWellFounded
<1>2. PICK x \in S : \A y \in S : ~(<<y, x>> \in OpToRel(<, Nat))
  BY <1>1, WFMin, Zenon
<1>3. \A y \in S : ~(y < x)
  BY <1>2 DEF OpToRel
<1>4. QED
  BY <1>3

(* A gap is a natural number.                                               *)
LEMMA GapIsNatural == ASSUME NEW a \in Nat, NEW b \in Nat PROVE GapOf(a, b) \in Nat
  BY DEF GapOf, Abs

(* Division by one number keeps the order.                                  *)
LEMMA QuotientsInOrder ==
    ASSUME NEW a \in Int, NEW b \in Int, NEW n \in Nat \ {0}, a <= b
    PROVE  a \div n \in Int /\ b \div n \in Int /\ a \div n <= b \div n
<1>1. PICK x \in Int, y \in Int : x = a \div n /\ y = b \div n
  BY SMT
<1>2. n * x <= a /\ b < n * y + n
  BY <1>1, SMT
<1>3. SUFFICES ASSUME y + 1 <= x PROVE FALSE
  BY <1>1, SMT
<1>4. n * (y + 1) <= n * x
  BY <1>3, SMT
<1>5. n * (y + 1) = n * y + n
  BY SMT
<1>6. QED
  BY <1>2, <1>4, <1>5, SMT

(* At the same funding interval the higher rate stays the higher one.       *)
LEMMA RatesInOrder ==
    ASSUME NEW l \in Sides, NEW r \in Sides, Hours(l) = Hours(r), l.rate <= r.rate
    PROVE  FourHours(l) <= FourHours(r)
<1>1. Hours(l) \in Nat \ {0} /\ l.rate \in Int /\ r.rate \in Int
  BY DEF Sides, Hours
<1>2. l.rate * 4 \in Int /\ r.rate * 4 \in Int /\ l.rate * 4 <= r.rate * 4
  BY <1>1
<1>3. QED
  BY <1>1, <1>2, QuotientsInOrder DEF FourHours

(* A four-hour rate is a number.                                            *)
LEMMA RateIsNumber == ASSUME NEW s \in Sides PROVE FourHours(s) \in Int
<1>1. Hours(s) \in Nat \ {0} /\ s.rate * 4 \in Int
  BY DEF Sides, Hours
<1>2. QED
  BY <1>1, QuotientsInOrder DEF FourHours

-----------------------------------------------------------------------------
(* Rows.                                                                    *)

(* What a scene fixes is of its type.                                       *)
LEMMA SceneIsListed ==
    ASSUME scene \in DOMAIN OpportunityScenes
    PROVE  /\ Scene.start \in [Pairs -> Markets] /\ Scene.markets \subseteq Markets
           /\ Scene.times \in [RowKinds -> Nat]
<1>1. Scene \in Range(OpportunityScenes)
  BY DEF Scene, Range
<1>2. QED
  BY <1>1, OpportunityAssumption

(* A row of the page is a row.                                              *)
LEMMA RowIsTyped ==
    ASSUME NEW p \in Pairs, NEW leftBuys \in BOOLEAN, NEW metric \in Nat,
           NEW data \in BOOLEAN, NEW priced \in BOOLEAN, NEW ages, NEW m,
           NEW aligned \in BOOLEAN, NEW funded \in BOOLEAN, NEW diff \in Nat
    PROVE  Row(p, leftBuys, metric, data, priced, ages, m, aligned, funded, diff) \in Rows
<1>1. LeftVenue[p] \in Venues /\ RightVenue[p] \in Venues
  BY DEF Venues
<1>2. ASSUME NEW limit PROVE Within(ages, limit) \in BOOLEAN
  BY DEF Within
<1>3. ASSUME NEW f \in BOOLEAN, NEW c \in BOOLEAN, NEW a \in BOOLEAN, NEW r
      PROVE  Status(f, c, a, r) \in 1 .. 5
  BY DEF Status
<1>4. (p \in FrozenPairs) \in BOOLEAN /\ (data /\ aligned) \in BOOLEAN
      /\ (data /\ funded /\ priced) \in BOOLEAN
  OBVIOUS
<1>5. PICK long \in Venues, short \in Venues :
        /\ long = IF leftBuys THEN LeftVenue[p] ELSE RightVenue[p]
        /\ short = IF leftBuys THEN RightVenue[p] ELSE LeftVenue[p]
  BY <1>1, Zenon
<1>6. PICK status \in 1 .. 5 :
        status = Status(p \in FrozenPairs, data /\ funded /\ priced, data /\ aligned,
                        Within(TickerAges(m) \cup FundingAges(m), ForStatus))
  BY <1>3, <1>4, Zenon
<1>7. PICK fresh \in BOOLEAN, shown \in BOOLEAN :
        fresh = Within(ages, ForExecution) /\ shown = Within(ages, ForDisplay)
  BY <1>2, Zenon
<1>8. PICK near \in BOOLEAN, frozen \in BOOLEAN :
        near = (data /\ aligned) /\ frozen = (p \in FrozenPairs)
  BY <1>4, Zenon
<1>9. Row(p, leftBuys, metric, data, priced, ages, m, aligned, funded, diff) =
        [pair |-> p, long |-> long, short |-> short, metric |-> metric, diff |-> diff,
         data |-> data, fresh |-> fresh, shown |-> shown, aligned |-> near,
         frozen |-> frozen, status |-> status]
  BY <1>5, <1>6, <1>7, <1>8, Zenon DEF Row
<1>10. QED
  BY <1>9 DEF Rows

(* A funding row is a row.                                                  *)
LEMMA FundingRowIsTyped ==
    ASSUME NEW p \in Pairs, NEW m \in Markets PROVE FundingRow(p, m) \in Rows
<1>1. m.left \in Sides /\ m.right \in Sides
  BY DEF Markets
<1>2. PICK data \in BOOLEAN :
        data = (/\ "none" \notin TickerAges(m) /\ Funded(m)
                /\ m.left.last > 0 /\ m.right.last > 0)
  BY Zenon
<1>3. PICK metric \in Nat :
        metric = IF data THEN Abs(FourHours(m.left) - FourHours(m.right)) ELSE 0
  <2>1. FourHours(m.left) \in Int /\ FourHours(m.right) \in Int
    BY <1>1, RateIsNumber
  <2>2. QED
    BY <2>1 DEF Abs
<1>4. PICK diff \in Nat : diff = IF data THEN Abs(m.left.last - m.right.last) ELSE 0
  BY <1>1 DEF Abs, Sides
<1>5. PICK leftBuys \in BOOLEAN, priced \in BOOLEAN, near \in BOOLEAN, funded \in BOOLEAN :
        /\ leftBuys = (data /\ ~LeftIsShort(m))
        /\ priced = (m.left.last > 0 /\ m.right.last > 0)
        /\ near = Aligned(m.left.last, m.right.last)
        /\ funded = Funded(m)
  <2>1. Aligned(m.left.last, m.right.last) \in BOOLEAN
    BY DEF Aligned
  <2>2. Funded(m) \in BOOLEAN
    BY DEF Funded
  <2>3. QED
    BY <2>1, <2>2, Zenon
<1>6. FundingRow(p, m) =
        Row(p, leftBuys, metric, data, priced, TickerAges(m) \cup FundingAges(m), m,
            near, funded, diff)
  BY <1>2, <1>3, <1>4, <1>5, Zenon DEF FundingRow
<1>7. QED
  BY <1>6, RowIsTyped

(* A spread row is a row.                                                   *)
LEMMA SpreadRowIsTyped ==
    ASSUME NEW p \in Pairs, NEW m \in Markets PROVE SpreadRow(p, m) \in Rows
<1>1. /\ m.left.bid \in Nat /\ m.left.ask \in Nat
      /\ m.right.bid \in Nat /\ m.right.ask \in Nat
  BY DEF Markets, Sides
<1>2. PICK data \in BOOLEAN :
        data = ("none" \notin TickerAges(m)
                /\ \A n \in {m.left.bid, m.left.ask, m.right.bid, m.right.ask} : n > 0)
  BY Zenon
<1>3. PICK toRight \in Nat, toLeft \in Nat :
        /\ toRight = IF data THEN GapOf(m.right.bid, m.left.ask) ELSE 0
        /\ toLeft = IF data THEN GapOf(m.left.bid, m.right.ask) ELSE 0
  BY <1>1, GapIsNatural
<1>4. PICK leftBuys \in BOOLEAN : leftBuys = (toRight >= toLeft)
  <2>1. (toRight >= toLeft) = TRUE \/ (toRight >= toLeft) = FALSE
    BY SMT
  <2>2. QED
    BY <2>1, Zenon
<1>5. PICK buy \in Nat, sell \in Nat :
        /\ buy = IF leftBuys THEN m.left.ask ELSE m.right.ask
        /\ sell = IF leftBuys THEN m.right.bid ELSE m.left.bid
  BY <1>1
<1>6. PICK metric \in Nat : metric = IF leftBuys THEN toRight ELSE toLeft
  BY <1>3
<1>7. PICK diff \in Nat : diff = IF data THEN Abs(sell - buy) ELSE 0
  BY <1>5 DEF Abs
<1>8. PICK priced \in BOOLEAN, near \in BOOLEAN, funded \in BOOLEAN :
        /\ priced = (buy > 0 /\ sell > 0)
        /\ near = Aligned(m.left.bid + m.left.ask, m.right.bid + m.right.ask)
        /\ funded = Funded(m)
  <2>1. Aligned(m.left.bid + m.left.ask, m.right.bid + m.right.ask) \in BOOLEAN
    BY DEF Aligned
  <2>2. Funded(m) \in BOOLEAN
    BY DEF Funded
  <2>3. QED
    BY <2>1, <2>2, Zenon
<1>9. SpreadRow(p, m) =
        Row(p, leftBuys, metric, data, priced, TickerAges(m), m, near, funded, diff)
  BY <1>2, <1>3, <1>4, <1>5, <1>6, <1>7, <1>8, Zenon DEF SpreadRow
<1>10. QED
  BY <1>9, RowIsTyped

(* The row of a pair is a row of that pair.                                 *)
LEMMA RowOfIsTyped ==
    ASSUME NEW p \in Pairs, NEW m \in Markets
    PROVE  RowOf(p, m) \in Rows /\ RowOf(p, m).pair = p
<1>1. RowOf(p, m) \in Rows
  BY FundingRowIsTyped, SpreadRowIsTyped DEF RowOf
<1>2. FundingRow(p, m).pair = p /\ SpreadRow(p, m).pair = p
  BY DEF FundingRow, SpreadRow, Row
<1>3. QED
  BY <1>1, <1>2 DEF RowOf

(* A part of a page is a page.                                              *)
LEMMA SubsetIsRowSet ==
    ASSUME NEW rows \in RowSets, NEW part \in SUBSET rows
    PROVE  part \in RowSets
  BY FS_Subset DEF RowSets

(* The page built from the markets is a page.                               *)
LEMMA BuiltIsTyped == ASSUME WorldTypes PROVE Built \in RowSets
<1> DEFINE f == [p \in Pairs |-> RowOf(p, market[p])]
           all == {RowOf(p, market[p]) : p \in Pairs}
<1>1. f \in Surjection(Pairs, all)
  BY DEF Surjection
<1>2. IsFiniteSet(all)
  BY <1>1, FS_Surjection, OpportunityAssumption
<1>3. all \subseteq Rows
  BY RowOfIsTyped DEF WorldTypes
<1>4. all \in RowSets
  BY <1>2, <1>3 DEF RowSets
<1>5. Built \subseteq all
  BY DEF Built
<1>6. QED
  BY <1>4, <1>5, SubsetIsRowSet

(* What is live of a page is a page.                                        *)
LEMMA LiveIsTyped == ASSUME NEW rows \in RowSets PROVE LiveRows(rows) \in RowSets
  BY SubsetIsRowSet DEF LiveRows

(* The items stored for a page carry its flag and its origin.               *)
LEMMA ItemsAreTyped ==
    ASSUME NEW rows \in RowSets, NEW ready \in BOOLEAN, NEW source \in Origins
    PROVE  /\ Items(rows, ready, source) \in [PairsOf(rows) -> HashItems]
           /\ PairsOf(rows) \subseteq Pairs
           /\ \A p \in PairsOf(rows) : /\ Items(rows, ready, source)[p].ready = ready
                                       /\ Items(rows, ready, source)[p].source = source
<1>1. PairsOf(rows) \subseteq Pairs
  BY DEF PairsOf, RowSets, Rows
<1>2. ASSUME NEW row \in rows PROVE Item(rows, row, ready, source) \in HashItems
  <2>1. Cardinality({other \in rows : Ahead(other, row)}) \in Nat
    <3>1. {other \in rows : Ahead(other, row)} \in RowSets
      BY SubsetIsRowSet
    <3>2. QED
      BY <3>1, FS_CardinalityType DEF RowSets
  <2>2. RankOf(rows, row) \in Nat
    BY <2>1 DEF RankOf
  <2>3. row \in Rows
    BY DEF RowSets
  <2>4. QED
    BY <2>2, <2>3 DEF Item, HashItems
<1>3. ASSUME NEW p \in PairsOf(rows)
      PROVE  (CHOOSE row \in rows : row.pair = p) \in rows
  BY DEF PairsOf
<1>4. ASSUME NEW p \in PairsOf(rows) PROVE Items(rows, ready, source)[p] =
        Item(rows, CHOOSE row \in rows : row.pair = p, ready, source)
  BY DEF Items
<1>5. ASSUME NEW p \in PairsOf(rows)
      PROVE  /\ Items(rows, ready, source)[p] \in HashItems
             /\ Items(rows, ready, source)[p].ready = ready
             /\ Items(rows, ready, source)[p].source = source
  <2>1. PICK row \in rows : row = CHOOSE r \in rows : r.pair = p
    BY <1>3
  <2>2. Items(rows, ready, source)[p] = Item(rows, row, ready, source)
    BY <1>4, <2>1
  <2>3. QED
    BY <1>2, <2>2 DEF Item
<1>6. Items(rows, ready, source) =
        [p \in PairsOf(rows) |-> Items(rows, ready, source)[p]]
  BY DEF Items
<1>7. Items(rows, ready, source) \in [PairsOf(rows) -> HashItems]
  BY <1>5, <1>6
<1>8. QED
  BY <1>1, <1>5, <1>7

-----------------------------------------------------------------------------
(* The hash.                                                                *)

(* An empty hash is a hash.                                                 *)
LEMMA NoRowsIsTyped == DOMAIN NoRows = {} /\ NoRows \in [DOMAIN NoRows -> HashItems]
  BY DEF NoRows

(* A hash that is not NoRows has a row of the first rank.                   *)
LEMMA FirstIsThere ==
    ASSUME NEW hash, DOMAIN hash \subseteq Pairs, hash \in [DOMAIN hash -> HashItems],
           hash # NoRows
    PROVE  First(hash) \in DOMAIN hash
<1> DEFINE ranks == {hash[p].rank : p \in DOMAIN hash}
<1>1. DOMAIN hash # {}
  BY DEF NoRows
<1>2. ranks \subseteq Nat /\ ranks # {}
  BY <1>1 DEF HashItems
<1> HIDE DEF ranks
<1>3. PICK r \in ranks : \A s \in ranks : r =< s
  BY <1>2, LeastPair
<1> DEFINE best == {p \in DOMAIN hash : hash[p].rank = r}
<1>4. best \subseteq Nat /\ best # {}
  BY OpportunityAssumption DEF ranks
<1> HIDE DEF best
<1>5. PICK p \in best : \A q \in best : p =< q
  BY <1>4, LeastPair
<1>6. p \in DOMAIN hash /\ hash[p].rank = r
  BY DEF best
<1>7. ASSUME NEW q \in DOMAIN hash
      PROVE  \/ p = q \/ hash[p].rank < hash[q].rank
             \/ (hash[p].rank = hash[q].rank /\ p < q)
  <2>1. hash[q].rank \in ranks
    BY DEF ranks
  <2>2. r =< hash[q].rank /\ hash[q].rank \in Nat /\ r \in Nat
    BY <1>2, <1>3, <2>1
  <2>3. CASE hash[q].rank = r
    <3>1. q \in best /\ q \in Nat /\ p \in Nat
      BY <1>4, <2>3 DEF best
    <3>2. QED
      BY <1>5, <1>6, <2>3, <3>1
  <2>4. CASE hash[q].rank # r
    BY <1>6, <2>2, <2>4
  <2>5. QED
    BY <2>3, <2>4
<1>8. QED
  BY <1>6, <1>7 DEF First

(* After a synchronisation each row is a new one, or an old one that was    *)
(* not seen.                                                                *)
LEMMA SyncedRows ==
    ASSUME NEW hash, DOMAIN hash \subseteq Pairs, hash \in [DOMAIN hash -> HashItems],
           NEW seen, NEW S \in SUBSET Pairs, NEW new \in [S -> HashItems],
           NEW next, next = Synced(hash, seen, new)
    PROVE  /\ DOMAIN next \subseteq Pairs /\ next \in [DOMAIN next -> HashItems]
           /\ \A p \in DOMAIN next :
                 \/ p \in S /\ next[p] = new[p]
                 \/ p \in DOMAIN hash \ seen /\ next[p] = hash[p]
<1>1. CASE S = {}
  <2>1. next = NoRows
    BY <1>1 DEF Synced
  <2>2. QED
    BY <2>1, NoRowsIsTyped
<1>2. CASE S # {}
  <2>1. next = [p \in (DOMAIN hash \ seen) \cup S |->
                   IF p \in S THEN new[p] ELSE hash[p]]
    BY <1>2 DEF Synced
  <2>2. QED
    BY <2>1
<1>3. QED
  BY <1>1, <1>2

-----------------------------------------------------------------------------
(* Tasks.                                                                   *)

(* A process with nothing in hand.                                          *)
LEMMA NoTaskIsTyped ==
    /\ NoTask \in Tasks
    /\ \A pc \in {"idle", "check", "show"} :
          /\ [NoTask EXCEPT !.pc = pc] \in Tasks
          /\ [NoTask EXCEPT !.pc = pc].source = "none"
          /\ [NoTask EXCEPT !.pc = pc].pc = pc
<1>1. {} \in RowSets
  BY FS_EmptySet DEF RowSets
<1>2. NoTask \in Tasks
  BY <1>1 DEF NoTask, Tasks
<1>3. QED
  BY <1>2 DEF NoTask, Tasks

(* Moving on to a step that is not keys or write, or from one of these,     *)
(* changes nothing else in a task.                                          *)
LEMMA TaskMoves ==
    ASSUME NEW t \in Tasks, NEW pc \in {"idle", "check", "write", "save", "strategy", "show"},
           NEW u, u = [t EXCEPT !.pc = pc]
    PROVE  u \in Tasks /\ u.source = t.source /\ u.ready = t.ready /\ u.pc = pc
  BY DEF Tasks

TaskKnown(t) ==
    /\ t.source = "snapshot" => t.ready = FALSE
    /\ t.pc \in {"keys", "write"} => t.source \in Origins

(* A step that changes one task into one that is known keeps the others.    *)
LEMMA OneTaskChanges ==
    ASSUME OpportunityInv, NEW x \in Processes, NEW t \in Tasks, TaskKnown(t),
           task' = [task EXCEPT ![x] = t]
    PROVE  task' \in [Processes -> Tasks] /\ OriginsKnown'
  BY DEF OpportunityInv, StoreTypes, OriginsKnown, TaskKnown

(* What a process has in hand.                                              *)
LEMMA TasksAreKnown ==
    ASSUME OpportunityInv, NEW x \in Processes
    PROVE  task[x] \in Tasks /\ TaskKnown(task[x])
  BY DEF OpportunityInv, StoreTypes, OriginsKnown, TaskKnown

(* A budget that is spent stays a budget.                                   *)
LEMMA BudgetsSpent ==
    ASSUME OpportunityInv, NEW k \in RowKinds, Happens(k)
    PROVE  times' \in [RowKinds -> Nat]
  BY DEF OpportunityInv, WorldTypes, Happens

(* The kinds of event that are counted.                                     *)
LEMMA KindsAreThere == /\ "tick" \in RowKinds /\ "switch" \in RowKinds
                       /\ "outage" \in RowKinds /\ "expire" \in RowKinds
                       /\ "halfhour" \in RowKinds /\ "fail" \in RowKinds
                       /\ "death" \in RowKinds
  BY DEF RowKinds

(* A read of the hash gives all of it or nothing.                           *)
LEMMA ReadsSpend ==
    ASSUME OpportunityInv, NEW hash, Reads(hash)
    PROVE  /\ times' \in [RowKinds -> Nat]
           /\ DOMAIN hash \subseteq Pairs /\ hash \in [DOMAIN hash -> HashItems]
           /\ hash # NoRows => hash = rowHash
<1>1. times' \in [RowKinds -> Nat]
  BY BudgetsSpent, KindsAreThere DEF Reads, OpportunityInv, WorldTypes
<1>2. QED
  BY <1>1, NoRowsIsTyped DEF Reads, OpportunityInv, StoreTypes

(* What looks at neither rows nor page keeps what is said of them.          *)
LEMMA HashStands ==
    ASSUME OpportunityInv, UNCHANGED <<rowHash, page, overlap>>
    PROVE  ReadyTogether' /\ LivePageIsLive'
  BY DEF OpportunityInv, ReadyTogether, LivePageIsLive

-----------------------------------------------------------------------------
(* The invariant holds at the start.                                        *)
LEMMA OpportunityInitially == OpportunityInit => OpportunityInv
<1> SUFFICES ASSUME OpportunityInit PROVE OpportunityInv
  OBVIOUS
<1>1. WorldTypes
  BY SceneIsListed DEF OpportunityInit, WorldTypes
<1>2. snapshot \in RowSets
  <2>1. {} \in RowSets
    BY FS_EmptySet DEF RowSets
  <2>2. LiveRows(Built) \in RowSets
    BY <1>1, BuiltIsTyped, LiveIsTyped
  <2>3. QED
    BY <2>1, <2>2 DEF OpportunityInit
<1>3. PICK t \in Tasks : t = [NoTask EXCEPT !.pc = "check"] /\ t.source = "none" /\ t.pc = "check"
  BY NoTaskIsTyped
<1>4. task = [x \in Processes |-> IF x = "worker" THEN t ELSE NoTask]
  BY <1>3, Zenon DEF OpportunityInit
<1>5. task \in [Processes -> Tasks]
  BY <1>4, NoTaskIsTyped
<1>6. OriginsKnown
  BY <1>3, <1>4 DEF OriginsKnown, NoTask
<1>7. StoreTypes
  BY <1>2, <1>5, NoRowsIsTyped DEF OpportunityInit, StoreTypes, NoStrategy
<1>8. ReadyTogether
  BY NoRowsIsTyped DEF OpportunityInit, ReadyTogether
<1>9. LivePageIsLive
  BY DEF OpportunityInit, LivePageIsLive, NoPage
<1>10. QED
  BY <1>1, <1>6, <1>7, <1>8, <1>9 DEF OpportunityInv

(* The monitor rebuilds the page.                                           *)
LEMMA RefreshKeeps == ASSUME OpportunityInv, Refresh PROVE OpportunityInv'
<1>1. Built \in RowSets /\ LiveRows(Built) \in RowSets
  BY BuiltIsTyped, LiveIsTyped DEF OpportunityInv
<1>2. PICK b \in BOOLEAN : b = (LiveRows(Built) # {})
  BY Zenon
<1>3. PICK t : t = [pc |-> "keys", rows |-> Built, live |-> LiveRows(Built),
                    ready |-> b, source |-> "runtime", seen |-> {}]
  OBVIOUS
<1>4. t \in Tasks /\ TaskKnown(t)
  BY <1>1, <1>3 DEF Tasks, TaskKnown, Origins
<1>5. task' = [task EXCEPT !["worker"] = t]
  BY <1>2, <1>3, Zenon DEF Refresh
<1>6. task' \in [Processes -> Tasks] /\ OriginsKnown'
  BY <1>4, <1>5, OneTaskChanges DEF Processes
<1>7. ReadyTogether' /\ LivePageIsLive'
  BY HashStands DEF Refresh
<1>8. QED
  BY <1>6, <1>7 DEF OpportunityInv, Refresh, WorldTypes, StoreTypes

(* A process reads which rows the hash has.                                 *)
LEMMA ReadKeysKeeps ==
    ASSUME OpportunityInv, NEW x \in Processes, ReadKeys(x) PROVE OpportunityInv'
<1>1. PICK hash \in {rowHash, NoRows} :
        Reads(hash) /\ task' = [task EXCEPT ![x].pc = "write", ![x].seen = DOMAIN hash]
  BY DEF ReadKeys
<1>2. task[x] \in Tasks /\ TaskKnown(task[x]) /\ task[x].source \in Origins
  BY TasksAreKnown DEF ReadKeys, TaskKnown
<1>3. times' \in [RowKinds -> Nat] /\ DOMAIN hash \subseteq Pairs
  BY <1>1, ReadsSpend
<1>4. PICK t : t = [task[x] EXCEPT !.pc = "write"]
  OBVIOUS
<1>5. /\ t \in Tasks /\ t.source = task[x].source /\ t.ready = task[x].ready
      /\ t.pc = "write"
  BY <1>2, <1>4, TaskMoves
<1>6. PICK u : u = [t EXCEPT !.seen = DOMAIN hash]
  OBVIOUS
<1>7. u \in Tasks /\ u.source = t.source /\ u.ready = t.ready /\ u.pc = "write"
  BY <1>3, <1>5, <1>6 DEF Tasks
<1>8. TaskKnown(u)
  BY <1>2, <1>5, <1>7 DEF TaskKnown
<1>9. task' = [task EXCEPT ![x] = u]
  <2>1. task \in [Processes -> Tasks]
    BY DEF OpportunityInv, StoreTypes
  <2>2. task' = [task EXCEPT ![x] = [[task[x] EXCEPT !.pc = "write"]
                                        EXCEPT !.seen = DOMAIN hash]]
    BY <1>1, <2>1
  <2>3. QED
    BY <1>4, <1>6, <2>2, Zenon
<1>10. task' \in [Processes -> Tasks] /\ OriginsKnown'
  BY <1>7, <1>8, <1>9, OneTaskChanges
<1>11. ReadyTogether' /\ LivePageIsLive'
  BY HashStands DEF ReadKeys
<1>12. QED
  BY <1>3, <1>10, <1>11 DEF OpportunityInv, ReadKeys, WorldTypes, StoreTypes

(* A process writes the rows of its page.                                   *)
LEMMA WriteRowsKeeps ==
    ASSUME OpportunityInv, NEW x \in Processes, WriteRows(x) PROVE OpportunityInv'
<1>1. PICK t \in Tasks : t = task[x] /\ TaskKnown(t) /\ t.pc = "write"
  BY TasksAreKnown DEF WriteRows
<1>2. /\ t.rows \in RowSets /\ t.ready \in BOOLEAN /\ t.source \in Origins
      /\ t.source = "snapshot" => t.ready = FALSE
  BY <1>1 DEF Tasks, TaskKnown
<1>3. PICK new \in [PairsOf(t.rows) -> HashItems] :
        /\ new = Items(t.rows, t.ready, t.source)
        /\ \A p \in PairsOf(t.rows) : new[p].ready = t.ready /\ new[p].source = t.source
  BY <1>2, ItemsAreTyped
<1>4. PICK next : next = Synced(rowHash, t.seen, new)
  OBVIOUS
<1>5. PairsOf(t.rows) \in SUBSET Pairs
  BY <1>2, ItemsAreTyped
<1>6. /\ DOMAIN next \subseteq Pairs /\ next \in [DOMAIN next -> HashItems]
      /\ \A p \in DOMAIN next :
            \/ p \in PairsOf(t.rows) /\ next[p] = new[p]
            \/ p \in DOMAIN rowHash \ t.seen /\ next[p] = rowHash[p]
  <2>1. DOMAIN rowHash \subseteq Pairs /\ rowHash \in [DOMAIN rowHash -> HashItems]
    BY DEF OpportunityInv, StoreTypes
  <2>2. QED
    <3>0. PICK hash, seen : hash = rowHash /\ seen = t.seen
      OBVIOUS
    <3>1. PICK S \in SUBSET Pairs : S = PairsOf(t.rows)
      BY <1>5
    <3>2. new \in [S -> HashItems] /\ next = Synced(hash, seen, new)
      BY <1>3, <1>4, <3>0, <3>1
    <3>3. DOMAIN hash \subseteq Pairs /\ hash \in [DOMAIN hash -> HashItems]
      BY <2>1, <3>0
    <3>4. /\ DOMAIN next \subseteq Pairs /\ next \in [DOMAIN next -> HashItems]
          /\ \A p \in DOMAIN next :
                \/ p \in S /\ next[p] = new[p]
                \/ p \in DOMAIN hash \ seen /\ next[p] = hash[p]
      BY <3>2, <3>3, SyncedRows
    <3>5. QED
      BY <3>0, <3>1, <3>4, Zenon
<1>7. Stores(next) /\ overlap' = (overlap \/ Across(t))
  BY <1>1, <1>3, <1>4, Zenon DEF WriteRows
<1>8. times' \in [RowKinds -> Nat]
  BY <1>7, BudgetsSpent, KindsAreThere DEF Stores, OpportunityInv, WorldTypes
<1>9. rowHash' = next \/ rowHash' = rowHash
  BY <1>7 DEF Stores
<1>10. DOMAIN rowHash' \subseteq Pairs /\ rowHash' \in [DOMAIN rowHash' -> HashItems]
  BY <1>6, <1>9 DEF OpportunityInv, StoreTypes
<1>11. overlap' \in BOOLEAN
  BY <1>7
<1>12. ReadyTogether'
  <2>1. SUFFICES ASSUME ~overlap', NEW p \in DOMAIN rowHash', NEW q \in DOMAIN rowHash',
                        rowHash'[p].ready
                 PROVE  rowHash'[q].source = "runtime"
    BY DEF ReadyTogether
  <2>2. ~overlap /\ ~Across(t)
    BY <1>7, <2>1
  <2>3. CASE rowHash' = rowHash
    BY <2>1, <2>2, <2>3 DEF OpportunityInv, ReadyTogether
  <2>4. CASE rowHash' = next
    <3>1. \A r \in DOMAIN rowHash : rowHash[r].source \in Origins
      BY DEF OpportunityInv, StoreTypes, HashItems
    <3>2. CASE t.source = "snapshot"
      <4>1. p \in DOMAIN rowHash /\ rowHash[p].ready
        BY <1>2, <1>3, <1>6, <2>1, <2>4, <3>2
      <4>2. rowHash[p].source = "runtime"
        BY <2>2, <4>1 DEF OpportunityInv, ReadyTogether
      <4>3. QED
        BY <2>2, <3>2, <4>1, <4>2 DEF Across
    <3>3. CASE t.source = "runtime"
      <4>1. CASE q \in PairsOf(t.rows) /\ next[q] = new[q]
        BY <1>3, <2>4, <3>3, <4>1
      <4>2. CASE q \in DOMAIN rowHash \ t.seen /\ next[q] = rowHash[q]
        BY <2>2, <2>4, <3>1, <3>3, <4>2 DEF Across, Origins
      <4>3. QED
        BY <1>6, <2>1, <2>4, <4>1, <4>2
    <3>4. QED
      BY <1>2, <3>2, <3>3 DEF Origins
  <2>5. QED
    BY <1>9, <2>3, <2>4
<1>13. LivePageIsLive'
  BY <1>7 DEF OpportunityInv, LivePageIsLive, WriteRows
<1>14. PICK pc \in {"save", "show", "idle"} : task' = [task EXCEPT ![x].pc = pc]
  <2>1. Moves(x, IF t.source = "runtime" THEN "save"
                 ELSE IF x = "web" THEN "show" ELSE "idle")
    BY <1>1, Zenon DEF WriteRows
  <2>2. QED
    BY <2>1 DEF Moves
<1>15. task' \in [Processes -> Tasks] /\ OriginsKnown'
  <2>1. PICK u : u = [t EXCEPT !.pc = pc]
    OBVIOUS
  <2>2. u \in Tasks /\ u.source = t.source /\ u.ready = t.ready /\ u.pc = pc
    BY <1>1, <1>14, <2>1, TaskMoves
  <2>3. TaskKnown(u)
    BY <1>2, <2>2 DEF TaskKnown
  <2>4. task' = [task EXCEPT ![x] = u]
    BY <1>1, <1>14, <2>1, Zenon
  <2>5. QED
    BY <2>2, <2>3, <2>4, OneTaskChanges
<1>16. QED
  BY <1>8, <1>10, <1>11, <1>12, <1>13, <1>15
     DEF OpportunityInv, WriteRows, WorldTypes, StoreTypes

(* A task that is given up, or another one that reads nothing yet.          *)
LEMMA TaskGivenUp ==
    ASSUME OpportunityInv, NEW x \in Processes, NEW t, task' = [task EXCEPT ![x] = t],
           t = NoTask \/ \E pc \in {"idle", "check", "show"} : t = [NoTask EXCEPT !.pc = pc]
    PROVE  task' \in [Processes -> Tasks] /\ OriginsKnown'
<1>1. NoTask.source = "none" /\ NoTask.pc = "idle"
  BY DEF NoTask
<1>2. t \in Tasks /\ t.source = "none" /\ t.pc \in {"idle", "check", "show"}
  BY <1>1, NoTaskIsTyped
<1>3. TaskKnown(t)
  BY <1>2 DEF TaskKnown
<1>4. QED
  BY <1>2, <1>3, OneTaskChanges

(* A process that goes on with its page keeps what it knows.                *)
LEMMA TaskMovesOn ==
    ASSUME OpportunityInv, NEW x \in Processes,
           NEW pc \in {"idle", "check", "save", "strategy", "show"}, Moves(x, pc)
    PROVE  task' \in [Processes -> Tasks] /\ OriginsKnown'
<1>1. PICK t : t = [task[x] EXCEPT !.pc = pc]
  OBVIOUS
<1>2. task[x] \in Tasks /\ TaskKnown(task[x])
  BY TasksAreKnown
<1>3. t \in Tasks /\ t.source = task[x].source /\ t.ready = task[x].ready /\ t.pc = pc
  BY <1>1, <1>2, TaskMoves
<1>4. TaskKnown(t)
  BY <1>2, <1>3 DEF TaskKnown
<1>5. task' = [task EXCEPT ![x] = t]
  BY <1>1, Zenon DEF Moves
<1>6. QED
  BY <1>3, <1>4, <1>5, OneTaskChanges

(* The monitor saves the snapshot.                                          *)
LEMMA SaveSnapshotKeeps == ASSUME OpportunityInv, SaveSnapshot PROVE OpportunityInv'
<1>1. task["worker"].live \in RowSets /\ snapshot \in RowSets
  BY TasksAreKnown DEF OpportunityInv, StoreTypes, Tasks, Processes
<1>2. snapshot' \in RowSets
  BY <1>1, SubsetIsRowSet DEF SaveSnapshot
<1>3. task' \in [Processes -> Tasks] /\ OriginsKnown'
  BY TaskMovesOn DEF SaveSnapshot, Processes
<1>4. ReadyTogether' /\ LivePageIsLive'
  BY HashStands DEF SaveSnapshot
<1>5. QED
  BY <1>2, <1>3, <1>4 DEF OpportunityInv, SaveSnapshot, WorldTypes, StoreTypes

(* The monitor stores the rows of the strategies.                           *)
LEMMA StoreStrategyKeeps == ASSUME OpportunityInv, StoreStrategy PROVE OpportunityInv'
<1>1. task["worker"].live \in RowSets /\ task["worker"].ready \in BOOLEAN
  BY TasksAreKnown DEF Tasks, Processes
<1>2. PICK c : c = {row.pair : row \in {r \in task["worker"].live :
                                           ExecutionReady(r) /\ Meets(r)}}
  OBVIOUS
<1>3. c \subseteq Pairs
  BY <1>1, <1>2 DEF RowSets, Rows
<1>4. strategy' = [candidates |-> c, ready |-> task["worker"].ready, source |-> "runtime"]
  BY <1>2, Zenon DEF StoreStrategy
<1>5. strategy'.candidates \subseteq Pairs /\ strategy'.ready \in BOOLEAN
  BY <1>1, <1>3, <1>4
<1>6. task' \in [Processes -> Tasks] /\ OriginsKnown'
  BY TaskGivenUp DEF StoreStrategy, Processes
<1>7. ReadyTogether' /\ LivePageIsLive'
  BY HashStands DEF StoreStrategy
<1>8. QED
  BY <1>5, <1>6, <1>7 DEF OpportunityInv, StoreStrategy, WorldTypes, StoreTypes

(* The refresh fails.                                                       *)
LEMMA RefreshFailsKeeps == ASSUME OpportunityInv, RefreshFails PROVE OpportunityInv'
<1>1. task' \in [Processes -> Tasks] /\ OriginsKnown'
  BY TaskGivenUp DEF RefreshFails, Processes
<1>2. ReadyTogether' /\ LivePageIsLive' /\ times' \in [RowKinds -> Nat]
  BY HashStands, BudgetsSpent, KindsAreThere DEF RefreshFails
<1>3. QED
  BY <1>1, <1>2 DEF OpportunityInv, RefreshFails, WorldTypes, StoreTypes

(* The worker restarts.                                                     *)
LEMMA WorkerRestartsKeeps == ASSUME OpportunityInv, WorkerRestarts PROVE OpportunityInv'
<1>1. task' \in [Processes -> Tasks] /\ OriginsKnown'
  <2>1. PICK t : t = [NoTask EXCEPT !.pc = "check"]
    OBVIOUS
  <2>2. task' = [task EXCEPT !["worker"] = t]
    BY <2>1, Zenon DEF WorkerRestarts
  <2>3. QED
    BY <2>1, <2>2, TaskGivenUp DEF Processes
<1>2. ReadyTogether' /\ LivePageIsLive' /\ times' \in [RowKinds -> Nat]
  BY HashStands, BudgetsSpent, KindsAreThere DEF WorkerRestarts
<1>3. QED
  BY <1>1, <1>2 DEF OpportunityInv, WorkerRestarts, WorldTypes, StoreTypes

(* A page is requested.                                                     *)
LEMMA RequestPageKeeps == ASSUME OpportunityInv, RequestPage PROVE OpportunityInv'
<1>1. PICK hash \in {rowHash, NoRows} :
        Reads(hash) /\ Moves("web", IF hash = NoRows THEN "check" ELSE "show")
  BY DEF RequestPage
<1>2. task' \in [Processes -> Tasks] /\ OriginsKnown'
  BY <1>1, TaskMovesOn DEF Processes
<1>3. times' \in [RowKinds -> Nat]
  BY <1>1, ReadsSpend
<1>4. ReadyTogether' /\ LivePageIsLive'
  BY HashStands DEF RequestPage
<1>5. QED
  BY <1>2, <1>3, <1>4 DEF OpportunityInv, RequestPage, WorldTypes, StoreTypes

(* A process checks the rows it has read.                                   *)
LEMMA CheckRowsKeeps ==
    ASSUME OpportunityInv, NEW x \in Processes, CheckRows(x) PROVE OpportunityInv'
<1>1. PICK hash \in {rowHash, NoRows} :
        /\ Reads(hash)
        /\ task' = [task EXCEPT ![x] =
              IF hash # NoRows \/ snapshot = {}
              THEN [NoTask EXCEPT !.pc = IF x = "web" THEN "show" ELSE "idle"]
              ELSE [NoTask EXCEPT !.pc = "keys",
                       !.rows = {row \in snapshot : Visible(row)},
                       !.ready = WarmedIsReady, !.source = "snapshot"]]
  BY Zenon DEF CheckRows
<1>2. times' \in [RowKinds -> Nat]
  BY <1>1, ReadsSpend
<1>3. task' \in [Processes -> Tasks] /\ OriginsKnown'
  <2>1. CASE hash # NoRows \/ snapshot = {}
    <3>1. PICK pc \in {"show", "idle"} : pc = IF x = "web" THEN "show" ELSE "idle"
      BY Zenon
    <3>2. PICK t : t = [NoTask EXCEPT !.pc = pc]
      OBVIOUS
    <3>3. task' = [task EXCEPT ![x] = t]
      BY <1>1, <2>1, <3>1, <3>2, Zenon
    <3>4. QED
      BY <3>2, <3>3, TaskGivenUp
  <2>2. CASE ~(hash # NoRows \/ snapshot = {})
    <3>1. PICK rows \in RowSets : rows = {row \in snapshot : Visible(row)}
      BY SubsetIsRowSet DEF OpportunityInv, StoreTypes
    <3>2. PICK b \in BOOLEAN : b = WarmedIsReady /\ b = FALSE
      BY DEF WarmedIsReady
    <3>3. PICK t : t = [NoTask EXCEPT !.pc = "keys", !.rows = rows, !.ready = b,
                                      !.source = "snapshot"]
      OBVIOUS
    <3>4. t = [pc |-> "keys", rows |-> rows, live |-> {}, ready |-> b,
               source |-> "snapshot", seen |-> {}]
      BY <3>3 DEF NoTask
    <3>5. {} \in RowSets
      BY FS_EmptySet DEF RowSets
    <3>6. t \in Tasks
      BY <3>4, <3>5 DEF Tasks, Origins
    <3>7. TaskKnown(t)
      BY <3>2, <3>4 DEF TaskKnown, Origins
    <3>8. task' = [task EXCEPT ![x] = t]
      BY <1>1, <2>2, <3>1, <3>2, <3>3, Zenon
    <3>9. QED
      BY <3>6, <3>7, <3>8, OneTaskChanges
  <2>3. QED
    BY <2>1, <2>2
<1>4. ReadyTogether' /\ LivePageIsLive'
  BY HashStands DEF CheckRows
<1>5. QED
  BY <1>2, <1>3, <1>4 DEF OpportunityInv, CheckRows, WorldTypes, StoreTypes

(* The page is shown.                                                       *)
LEMMA ShowPageKeeps == ASSUME OpportunityInv, ShowPage PROVE OpportunityInv'
<1> DEFINE Shown(hash) == {p \in DOMAIN hash : Visible(hash[p].row)}
           Stored == {<<row.pair, "snapshot">> : row \in {r \in snapshot : Visible(r)}}
<1>1. PICK hash \in {rowHash, NoRows} :
        /\ Reads(hash)
        /\ page' = IF hash = NoRows THEN NoPage
                   ELSE [rows |-> IF Shown(hash) = {} /\ ~hash[First(hash)].ready
                                  THEN Stored
                                  ELSE {<<p, hash[p].source>> : p \in Shown(hash)},
                         ready |-> hash[First(hash)].ready,
                         source |-> hash[First(hash)].source]
  BY Zenon DEF ShowPage
<1>2. /\ times' \in [RowKinds -> Nat]
      /\ DOMAIN hash \subseteq Pairs /\ hash \in [DOMAIN hash -> HashItems]
      /\ hash # NoRows => hash = rowHash
  BY <1>1, ReadsSpend
<1>3. task' \in [Processes -> Tasks] /\ OriginsKnown'
  BY TaskGivenUp DEF ShowPage, Processes
<1>4. ReadyTogether'
  BY DEF ShowPage, OpportunityInv, ReadyTogether
<1>5. LivePageIsLive'
  <2>1. SUFFICES ASSUME page'.ready, ~overlap, NEW r \in page'.rows
                 PROVE  r[2] = "runtime"
    BY DEF LivePageIsLive, ShowPage
  <2>2. CASE hash = NoRows
    BY <1>1, <2>1, <2>2 DEF NoPage
  <2>3. CASE hash # NoRows
    <3>1. PICK first \in DOMAIN hash : first = First(hash)
      BY <1>2, <2>3, FirstIsThere
    <3>2. PICK rows : rows = IF Shown(hash) = {} /\ ~hash[first].ready
                             THEN Stored
                             ELSE {<<p, hash[p].source>> : p \in Shown(hash)}
      OBVIOUS
    <3> HIDE DEF Shown, Stored
    <3>3. page' = [rows |-> rows, ready |-> hash[first].ready,
                   source |-> hash[first].source]
      BY <1>1, <2>3, <3>1, <3>2, Zenon
    <3>4. hash[first].ready /\ r \in rows
      BY <2>1, <3>3
    <3>5. PICK p \in Shown(hash) : r = <<p, hash[p].source>>
      BY <3>2, <3>4
    <3>6. p \in DOMAIN hash /\ hash = rowHash
      BY <1>2, <2>3, <3>5 DEF Shown
    <3>7. hash[p].source = "runtime"
      BY <2>1, <3>1, <3>4, <3>6 DEF OpportunityInv, ReadyTogether
    <3>8. QED
      BY <3>5, <3>7
  <2>4. QED
    BY <2>2, <2>3
<1>6. QED
  BY <1>2, <1>3, <1>4, <1>5 DEF OpportunityInv, ShowPage, WorldTypes, StoreTypes

(* The strategies of a user are scanned.                                    *)
LEMMA ScanUserKeeps == ASSUME OpportunityInv, ScanUser PROVE OpportunityInv'
<1>1. opened' = {}
  BY DEF OpportunityInv, ScanUser, WorldTypes, StoreTypes
<1>2. ReadyTogether' /\ LivePageIsLive' /\ OriginsKnown'
  BY HashStands DEF ScanUser, OpportunityInv, OriginsKnown
<1>3. QED
  BY <1>1, <1>2 DEF OpportunityInv, ScanUser, WorldTypes, StoreTypes

(* Markets, switches and clocks touch no page.                              *)
LEMMA OutsideKeeps ==
    ASSUME OpportunityInv,
           MarketMoves \/ SwitchExchange \/ RowsExpire \/ HalfHourPasses
    PROVE  OpportunityInv'
<1>1. times' \in [RowKinds -> Nat]
  BY BudgetsSpent, KindsAreThere
     DEF MarketMoves, SwitchExchange, RowsExpire, HalfHourPasses
<1>2. OriginsKnown'
  BY DEF OpportunityInv, OriginsKnown, MarketMoves, SwitchExchange, RowsExpire,
         HalfHourPasses
<1>3. CASE MarketMoves
  <2>1. Scene.markets \subseteq Markets
    BY SceneIsListed DEF OpportunityInv, WorldTypes
  <2>2. market' \in [Pairs -> Markets]
    BY <1>3, <2>1 DEF OpportunityInv, WorldTypes, MarketMoves
  <2>3. ReadyTogether' /\ LivePageIsLive'
    BY <1>3, HashStands DEF MarketMoves
  <2>4. QED
    BY <1>1, <1>2, <1>3, <2>2, <2>3
       DEF OpportunityInv, MarketMoves, WorldTypes, StoreTypes
<1>4. CASE SwitchExchange
  <2>1. enabled' \subseteq Venues
    BY <1>4 DEF OpportunityInv, WorldTypes, SwitchExchange
  <2>2. ReadyTogether' /\ LivePageIsLive'
    BY <1>4, HashStands DEF SwitchExchange
  <2>3. QED
    BY <1>1, <1>2, <1>4, <2>1, <2>2
       DEF OpportunityInv, SwitchExchange, WorldTypes, StoreTypes
<1>5. CASE RowsExpire
  <2>1. ReadyTogether' /\ LivePageIsLive'
    BY <1>5, NoRowsIsTyped DEF RowsExpire, OpportunityInv, ReadyTogether, LivePageIsLive
  <2>2. QED
    BY <1>1, <1>2, <1>5, <2>1, NoRowsIsTyped
       DEF OpportunityInv, RowsExpire, WorldTypes, StoreTypes
<1>6. CASE HalfHourPasses
  <2>1. ReadyTogether' /\ LivePageIsLive'
    BY <1>6, HashStands DEF HalfHourPasses
  <2>2. QED
    BY <1>1, <1>2, <1>6, <2>1
       DEF OpportunityInv, HalfHourPasses, WorldTypes, StoreTypes
<1>7. QED
  BY <1>3, <1>4, <1>5, <1>6

(* The invariant is inductive.                                              *)
LEMMA OpportunityStep == OpportunityInv /\ [OpportunityNext]_rowVars => OpportunityInv'
<1> SUFFICES ASSUME OpportunityInv, [OpportunityNext]_rowVars PROVE OpportunityInv'
  OBVIOUS
<1>1. CASE UNCHANGED rowVars
  BY <1>1 DEF rowVars, OpportunityInv, WorldTypes, StoreTypes, OriginsKnown,
     ReadyTogether, LivePageIsLive
<1>2. CASE OpportunityNext
  BY <1>2, RefreshKeeps, SaveSnapshotKeeps, StoreStrategyKeeps, RefreshFailsKeeps,
     WorkerRestartsKeeps, ReadKeysKeeps, WriteRowsKeeps, CheckRowsKeeps,
     RequestPageKeeps, ShowPageKeeps, ScanUserKeeps, OutsideKeeps DEF OpportunityNext
<1>3. QED
  BY <1>1, <1>2

-----------------------------------------------------------------------------
(* The inductive invariant holds in every reachable state: rows, hash,      *)
(* snapshot and tasks are what they should be, and rows that are ready are  *)
(* among rows of a refresh.                                                 *)
THEOREM OpportunityInvariance == OpportunitySpec => []OpportunityInv
<1>1. QED
  BY OpportunityInitially, OpportunityStep, PTL DEF OpportunitySpec

(* A page that calls itself live shows rows of a refresh only, although the *)
(* web process may write rows of the snapshot into the same hash; unless    *)
(* one of the two wrote across the other.                                   *)
THEOREM LivePagesAreLive == OpportunitySpec => []LivePageIsLive
<1>1. OpportunityInv => LivePageIsLive
  BY DEF OpportunityInv
<1>2. QED
  BY <1>1, OpportunityInvariance, PTL

(* The metric of a funding row is the rate of its short side less that of   *)
(* its long side.                                                           *)
LEMMA RateOfRow ==
    ASSUME NEW p \in Pairs, NEW m \in Markets, FundingRow(p, m).data,
           Hours(m.left) = Hours(m.right)
    PROVE  /\ FundingRow(p, m).long # FundingRow(p, m).short
           /\ FundingRow(p, m).short = LeftVenue[p] =>
                 FundingRow(p, m).metric = FourHours(m.left) - FourHours(m.right)
           /\ FundingRow(p, m).short # LeftVenue[p] =>
                 /\ FundingRow(p, m).long = LeftVenue[p]
                 /\ FundingRow(p, m).metric = FourHours(m.right) - FourHours(m.left)
<1>1. m.left \in Sides /\ m.right \in Sides
  BY DEF Markets
<1>2. PICK data \in BOOLEAN :
        data = (/\ "none" \notin TickerAges(m) /\ Funded(m)
                /\ m.left.last > 0 /\ m.right.last > 0)
  BY Zenon
<1>3. FundingRow(p, m).data = data
  BY <1>2, Zenon DEF FundingRow, Row
<1>4. /\ FundingRow(p, m).long = (IF LeftIsShort(m) THEN RightVenue[p] ELSE LeftVenue[p])
      /\ FundingRow(p, m).short = (IF LeftIsShort(m) THEN LeftVenue[p] ELSE RightVenue[p])
      /\ FundingRow(p, m).metric = Abs(FourHours(m.left) - FourHours(m.right))
  BY <1>2, <1>3, Zenon DEF FundingRow, Row
<1>5. LeftVenue[p] # RightVenue[p]
  BY PairAssumption
<1>6. FourHours(m.left) \in Int /\ FourHours(m.right) \in Int
  BY <1>1, RateIsNumber
<1>7. CASE LeftIsShort(m)
  <2>1. FourHours(m.right) <= FourHours(m.left)
    BY <1>1, <1>7, RatesInOrder DEF LeftIsShort, Sides
  <2>2. QED
    BY <1>4, <1>5, <1>6, <1>7, <2>1 DEF Abs
<1>8. CASE ~LeftIsShort(m)
  <2>1. FourHours(m.left) <= FourHours(m.right)
    BY <1>1, <1>8, RatesInOrder DEF LeftIsShort, Sides
  <2>2. QED
    BY <1>4, <1>5, <1>6, <1>8, <2>1 DEF Abs
<1>9. QED
  BY <1>7, <1>8

(* For every market and every pair whose sides settle at the same interval, *)
(* the net rate a funding row shows is what its legs earn in four hours,    *)
(* and its legs are at two exchanges.                                       *)
THEOREM NetRatesAreEarned == OpportunitySpec => []NetRateIsEarned
<1>1. OpportunityInv => NetRateIsEarned
  <2> SUFFICES ASSUME OpportunityInv PROVE NetRateIsEarned
    OBVIOUS
  <2>1. ASSUME NEW p \in Pairs, FundingRow(p, market[p]).data,
               Hours(market[p].left) = Hours(market[p].right)
        PROVE  FundingRow(p, market[p]).metric =
                  FourHours(IF FundingRow(p, market[p]).short = LeftVenue[p]
                            THEN market[p].left ELSE market[p].right)
                  - FourHours(IF FundingRow(p, market[p]).long = LeftVenue[p]
                              THEN market[p].left ELSE market[p].right)
    <3>1. market[p] \in Markets
      BY DEF OpportunityInv, WorldTypes
    <3>2. QED
      BY <2>1, <3>1, RateOfRow, Zenon
  <2>2. QED
    BY <2>1, Zenon DEF NetRateIsEarned
<1>2. QED
  BY <1>1, OpportunityInvariance, PTL

=============================================================================
