----------------------------- MODULE PartsProofs -----------------------------
(***************************************************************************)
(* The parts that share nothing: each behaviour of MCParts is a behaviour  *)
(* of every part, so that what is proved of a part alone holds beside the  *)
(* others; and the helpers of the grid and the formulas, for every grid    *)
(* and all arguments.                                                      *)
(***************************************************************************)
EXTENDS MCParts, WireProofs, DeviceProofs, ReservationTableProofs, FiniteSetTheorems

Bidding == INSTANCE TaskAuctionProofs WITH Agent <- Bidder

-----------------------------------------------------------------------------
(* Each part beside the others.                                            *)

\* A step of the composition is a step of one part, or leaves it alone.
LEMMA PartsStep ==
  ASSUME [PartsNext]_partsVars
  PROVE  /\ [TransportNext]_transportVars /\ [TelemetryNext]_telemetryVars
         /\ [CfpNext]_cfpVars /\ [DriveNext]_driveVars
         /\ [LocalizerNext]_localizerVars /\ [InterlockNext]_interlockVars
         /\ [PacketsNext]_packetVars /\ [GridNext]_gridVars /\ [FormulasNext]_formulaVars
         /\ [Next]_vars /\ [Auction!Next]_auctionVars /\ part' = part
<1>1. CASE Radio
  BY <1>1 DEF Radio, deviceVars, pureVars, taskVars
<1>2. CASE Device
  BY <1>2 DEF Device, radioVars, pureVars, taskVars
<1>3. CASE Pure
  BY <1>3 DEF Pure, deviceVars, radioVars, taskVars
<1>4. CASE Tasks
  BY <1>4 DEF Tasks, deviceVars, radioVars, pureVars
<1>5. CASE UNCHANGED partsVars
  BY <1>5 DEF partsVars, deviceVars, radioVars, pureVars, taskVars
<1> QED BY <1>1, <1>2, <1>3, <1>4, <1>5 DEF PartsNext

\* A behaviour of the composition is a behaviour of each part.
THEOREM PartsAreParts ==
  PartsSpec => /\ TransportSpec /\ TelemetrySpec /\ CfpSpec
               /\ DriveSpec /\ LocalizerSpec
               /\ InterlockInit /\ [][InterlockNext]_interlockVars
               /\ PacketsSpec /\ GridSpec /\ FormulasSpec /\ Spec
<1>1. PartsInit => /\ TransportInit /\ TelemetryInit /\ CfpInit /\ DriveInit
                   /\ LocalizerInit /\ InterlockInit /\ PacketsInit /\ GridInit
                   /\ FormulasInit /\ Init
  BY DEF PartsInit
<1> QED BY <1>1, PartsStep, PTL
     DEF PartsSpec, TransportSpec, TelemetrySpec, CfpSpec, DriveSpec, LocalizerSpec,
         PacketsSpec, GridSpec, FormulasSpec, Spec

\* The contract net of the composition is the one TaskAuctionProofs is about.
LEMMA SameAuction ==
  /\ Auction!Init => Bidding!Init
  /\ [Auction!Next]_auctionVars => [Bidding!Next]_Bidding!vars
<1>1. \A S : Auction!Cardinality(S) = Bidding!Cardinality(S)
  BY DEF Auction!Cardinality, Bidding!Cardinality
<1>2. Auction!CreateTask => Bidding!CreateTask
  BY <1>1 DEF Auction!CreateTask, Bidding!CreateTask, Auction!bidders, Bidding!bidders
<1>3. Auction!CheckAwards => Bidding!CheckAwards
  BY DEF Auction!CheckAwards, Bidding!CheckAwards, Auction!Closed, Bidding!Closed,
         Auction!Handled, Bidding!Handled, Auction!Best, Bidding!Best,
         Auction!Better, Bidding!Better, Auction!bidders, Bidding!bidders
<1>4. Auction!CheckRetries => Bidding!CheckRetries
  BY DEF Auction!CheckRetries, Bidding!CheckRetries, Auction!Spent, Bidding!Spent,
         Auction!Retried, Bidding!Retried, Auction!Backoff, Bidding!Backoff,
         Auction!MinOf, Bidding!MinOf, Auction!bidders, Bidding!bidders
<1>5. Auction!ManagerGc => Bidding!ManagerGc
  BY DEF Auction!ManagerGc, Bidding!ManagerGc, Auction!Kept, Bidding!Kept,
         Auction!bidders, Bidding!bidders
<1>6. Auction!Tick => Bidding!Tick
  BY DEF Auction!Tick, Bidding!Tick, Auction!MinOf, Bidding!MinOf,
         Auction!bidders, Bidding!bidders
<1>7. \A m : Auction!ReceiveBid(m) => Bidding!ReceiveBid(m)
  BY DEF Auction!ReceiveBid, Bidding!ReceiveBid, Auction!Accepts, Bidding!Accepts,
         Auction!bidders, Bidding!bidders
<1>8. \A a, t, u : Auction!ComputeBid(a, t, u) => Bidding!ComputeBid(a, t, u)
  BY DEF Auction!ComputeBid, Bidding!ComputeBid, Auction!manager, Bidding!manager
<1>9. \A a : Auction!BidderGc(a) => Bidding!BidderGc(a)
  BY <1>1 DEF Auction!BidderGc, Bidding!BidderGc, Auction!Recent, Bidding!Recent,
              Auction!manager, Bidding!manager
<1>10. Auction!Next => Bidding!Next
  BY <1>2, <1>3, <1>4, <1>5, <1>6, <1>7, <1>8, <1>9 DEF Auction!Next, Bidding!Next
<1>11. UNCHANGED auctionVars => UNCHANGED Bidding!vars
  BY DEF auctionVars, Bidding!vars, Bidding!manager, Bidding!bidders
<1>12. Auction!Init => Bidding!Init
  BY DEF Auction!Init, Bidding!Init
<1> QED BY <1>10, <1>11, <1>12

LEMMA BiddingNumbers ==
  Bidding!NumbersAssumption /\ Bidding!IdsAssumption /\ MaxBids < SeqSpace
BY AuctionAssumption
   DEF Auction!NumbersAssumption, Auction!IdsAssumption,
       Bidding!NumbersAssumption, Bidding!IdsAssumption

LEMMA PartsBid == PartsSpec => Bidding!Spec
<1>1. PartsInit => Auction!Init
  BY DEF PartsInit
<1>2. [PartsNext]_partsVars => [Auction!Next]_auctionVars
  BY PartsStep
<1> QED BY <1>1, <1>2, SameAuction, PTL DEF PartsSpec, Bidding!Spec

\* Every part keeps its types beside the others.
THEOREM PartsTypes == PartsSpec => []PartsTypeOK
<1>1. PartsInit => part \in Part
  BY DEF PartsInit
<1>2. part \in Part /\ [PartsNext]_partsVars => (part \in Part)'
  BY PartsStep DEF Part
<1>3. Spec => []TypeOK
  <2>1. TableInv => TypeOK
    BY DEF TableInv
  <2> QED BY <2>1, TableInductive, PTL
<1>4. Bidding!Spec => []Bidding!TypeOK
  BY BiddingNumbers, Bidding!AuctionTypes
<1>5. Bidding!TypeOK => Auction!TypeOK
  BY DEF Bidding!TypeOK, Auction!TypeOK, Bidding!TaskId, Auction!TaskId,
         Bidding!AuctionState, Auction!AuctionState, Bidding!Bid, Auction!Bid,
         Bidding!DeferredTask, Auction!DeferredTask
<1>6. PartsSpec => /\ []TransportTypeOK /\ []TelemetryTypeOK /\ []CfpTypeOK /\ []DriveTypeOK
                   /\ []LocalizerTypeOK /\ []InterlockTypeOK /\ []TypeOK /\ []Auction!TypeOK
  BY <1>3, <1>4, <1>5, PartsAreParts, PartsBid, TransportTypes, TelemetryTypes, CfpTypes,
     DriveTypes, LocalizerTypes, InterlockTypes, PTL
<1>7. PartsSpec => [](part \in Part)
  BY <1>1, <1>2, PTL DEF PartsSpec
<1> QED BY <1>6, <1>7, PTL DEF PartsTypeOK

\* A bidder whose sequence numbers do not wrap remembers its recent bids.
THEOREM BidsRemembered == PartsSpec => []RecentBidsKnown
<1>1. Bidding!Spec => []Bidding!RecentBidsKnown
  BY BiddingNumbers, Bidding!RecentBidsRemembered
<1>2. Bidding!RecentBidsKnown => RecentBidsKnown
  BY DEF Bidding!RecentBidsKnown, RecentBidsKnown, Auction!RecentBidsKnown
<1> QED BY <1>1, <1>2, PartsBid, PTL

\* What is read is what was written, beside the other parts.
THEOREM PacketsAreExact == PartsSpec => []WireExact
BY PartsAreParts, WireIsExact, PTL

-----------------------------------------------------------------------------
(* The grid.                                                               *)

GridTypes ==
  /\ here \in GridCell /\ there \in GridCell /\ blocked \subseteq GridCell
  /\ connectivity \in {4, 8} /\ heading \in Heading

\* A cell is its row and its column, and the other way round.
LEMMA CellCoordinates ==
  ASSUME NEW cell \in GridCell
  PROVE  /\ cell \in Nat /\ OnGrid(cell % Width, cell \div Width)
         /\ cell % Width \in Int /\ cell \div Width \in Int
         /\ CellFromCoord(cell % Width, cell \div Width) = cell
<1> DEFINE q == cell \div Width
           r == cell % Width
<1>1. Width \in Nat \ {0} /\ Height \in Nat \ {0} /\ Width * Height \in Nat
  BY GridAssumption
<1>2. cell \in Nat /\ cell < Width * Height
  BY <1>1 DEF GridCell
<1>3. q \in Int /\ r \in 0 .. Width - 1 /\ cell = Width * q + r
  BY <1>1, <1>2, Division, Remainder
<1> HIDE DEF q, r
<1>4. 0 =< q
  <2>1. SUFFICES ASSUME q =< -1 PROVE FALSE
    BY <1>3
  <2>2. Width * (-1 - q) >= 0
    BY <1>1, <1>3, <2>1
  <2>3. Width * q =< -Width
    BY <1>1, <1>3, <2>2
  <2> QED BY <1>1, <1>2, <1>3, <2>3
<1>5. q < Height
  <2>1. SUFFICES ASSUME q >= Height PROVE FALSE
    BY <1>1, <1>3
  <2>2. Width * (q - Height) >= 0
    BY <1>1, <1>3, <2>1
  <2>3. Width * q >= Width * Height
    BY <1>1, <1>3, <2>2
  <2> QED BY <1>1, <1>2, <1>3, <2>3
<1>6. CellFromCoord(r, q) = cell
  BY <1>1, <1>3 DEF CellFromCoord
<1> QED BY <1>1, <1>2, <1>3, <1>4, <1>5, <1>6 DEF OnGrid, q, r

LEMMA CoordinatesCell ==
  ASSUME NEW px \in Int, NEW py \in Int, OnGrid(px, py)
  PROVE  /\ CellFromCoord(px, py) \in GridCell
         /\ CellFromCoord(px, py) % Width = px /\ CellFromCoord(px, py) \div Width = py
<1> DEFINE cell == CellFromCoord(px, py)
<1>1. Width \in Nat \ {0} /\ Height \in Nat \ {0} /\ Width * Height \in Nat
  BY GridAssumption
<1>2. px \in Nat /\ py \in Nat /\ px < Width /\ py < Height
  BY <1>1 DEF OnGrid
<1>3. Width * py \in Nat /\ cell = Width * py + px
  BY <1>1, <1>2 DEF CellFromCoord
<1>4. Width * py + Width =< Width * Height
  <2>1. Width * (Height - 1 - py) >= 0
    BY <1>1, <1>2
  <2> QED BY <1>1, <1>2, <2>1
<1> HIDE DEF cell
<1>5. cell \in Nat /\ cell < Width * Height /\ Width * py =< cell /\ cell < Width * py + Width
  BY <1>1, <1>2, <1>3, <1>4
<1>6. cell \div Width = py
  BY <1>1, <1>2, <1>5, Quotients
<1>7. cell % Width = px
  <2>1. cell = Width * (cell \div Width) + (cell % Width) /\ cell % Width \in Int
    BY <1>1, <1>5, Remainder, Division
  <2>2. cell = Width * py + (cell % Width)
    BY <1>6, <2>1
  <2> QED BY <1>2, <1>3, <2>1, <2>2
<1>8. cell \in GridCell
  BY <1>1, <1>5 DEF GridCell
<1> QED BY <1>6, <1>7, <1>8 DEF cell

\* The cells a step away, as the steps to them.
LEMMA ReachedMeaning ==
  ASSUME NEW cell \in GridCell, NEW other_cell \in GridCell,
         NEW steps \in SUBSET (Int \X Int)
  PROVE  other_cell \in Reached(cell % Width, cell \div Width, steps) <=>
           /\ IsTraversable(other_cell)
           /\ <<(other_cell % Width) - (cell % Width),
                (other_cell \div Width) - (cell \div Width)>> \in steps
<1> DEFINE px == cell % Width
           py == cell \div Width
           ox == other_cell % Width
           oy == other_cell \div Width
<1>1. px \in Int /\ py \in Int
  BY CellCoordinates
<1>2. ox \in Int /\ oy \in Int /\ OnGrid(ox, oy) /\ CellFromCoord(ox, oy) = other_cell
  BY CellCoordinates
<1>3. ASSUME NEW d \in steps, OnGrid(px + d[1], py + d[2]),
             other_cell = CellFromCoord(px + d[1], py + d[2])
      PROVE  <<ox - px, oy - py>> = d
  <2>1. d = <<d[1], d[2]>> /\ d[1] \in Int /\ d[2] \in Int
    BY <1>3
  <2> HIDE DEF px, py
  <2>2. px + d[1] \in Int /\ py + d[2] \in Int
    BY <1>1, <2>1
  <2>3. ox = px + d[1] /\ oy = py + d[2]
    BY <1>3, <2>2, CoordinatesCell
  <2> HIDE DEF ox, oy
  <2>4. ox - px = d[1] /\ oy - py = d[2]
    BY <1>1, <2>1, <2>3
  <2> QED BY <2>1, <2>4
<1>4. ASSUME <<ox - px, oy - py>> \in steps, IsTraversable(other_cell)
      PROVE  other_cell \in Reached(px, py, steps)
  <2> DEFINE d == <<ox - px, oy - py>>
  <2>1. px + d[1] = ox /\ py + d[2] = oy
    <3> HIDE DEF px, py, ox, oy
    <3> QED BY <1>1, <1>2
  <2>2. d \in {s \in steps : OnGrid(px + s[1], py + s[2])}
    BY <1>2, <1>4, <2>1
  <2>3. other_cell = CellFromCoord(px + d[1], py + d[2])
    BY <1>2, <2>1
  <2> HIDE DEF d, px, py, ox, oy
  <2> QED BY <1>4, <2>2, <2>3 DEF Reached
<1>5. ASSUME other_cell \in Reached(px, py, steps)
      PROVE  IsTraversable(other_cell) /\ <<ox - px, oy - py>> \in steps
  <2> HIDE DEF px, py, ox, oy
  <2>1. PICK d \in steps : /\ OnGrid(px + d[1], py + d[2])
                           /\ other_cell = CellFromCoord(px + d[1], py + d[2])
    BY <1>5 DEF Reached
  <2> QED BY <1>3, <1>5, <2>1 DEF Reached
<1> QED BY <1>4, <1>5

LEMMA StepsAreSteps ==
  /\ Dirs \in SUBSET (Int \X Int)
  /\ \A h : SideOffsets(h) \in SUBSET (Int \X Int)
BY DEF Dirs, SideOffsets

\* The distance of two cells in their coordinates.
LEMMA DistanceMeaning ==
  ASSUME NEW a \in GridCell, NEW b \in GridCell
  PROVE  ManhattanDistance(a, b) =
           Distance((a % Width) - (b % Width)) + Distance((a \div Width) - (b \div Width))
BY DEF ManhattanDistance, Coordinate

LEMMA RadiusExact ==
  ASSUME NEW a \in GridCell, NEW b \in GridCell
  PROVE  b \in CellsInRadius(a) <=> IsPeerInRadius(b, {a})
<1> DEFINE ax == a % Width
           ay == a \div Width
           bx == b % Width
           by == b \div Width
           Offset == (-LockRadius .. LockRadius) \X (-LockRadius .. LockRadius)
           Close == {o \in Offset : /\ Distance(o[1]) =< LockRadius - Distance(o[2])
                                    /\ OnGrid(ax + o[1], ay + o[2])}
<1>1. /\ ax \in Int /\ ay \in Int /\ bx \in Int /\ by \in Int
      /\ OnGrid(bx, by) /\ CellFromCoord(bx, by) = b
  BY CellCoordinates
<1>2. LockRadius \in Nat
  BY GridAssumption
<1>3. IsPeerInRadius(b, {a}) <=> Distance(bx - ax) + Distance(by - ay) =< LockRadius
  BY DistanceMeaning DEF IsPeerInRadius
<1>4. CellsInRadius(a) = {CellFromCoord(ax + d[1], ay + d[2]) : d \in Close}
  BY DEF CellsInRadius, Coordinate
<1> HIDE DEF ax, ay, bx, by
<1>5. ASSUME NEW d \in Close, b = CellFromCoord(ax + d[1], ay + d[2])
      PROVE  Distance(bx - ax) + Distance(by - ay) =< LockRadius
  <2>1. d[1] \in Int /\ d[2] \in Int /\ ax + d[1] \in Int /\ ay + d[2] \in Int
    BY <1>1, <1>2
  <2>2. bx = ax + d[1] /\ by = ay + d[2]
    BY <1>5, <2>1, CoordinatesCell DEF bx, by
  <2>3. bx - ax = d[1] /\ by - ay = d[2]
    BY <1>1, <2>1, <2>2
  <2>4. Distance(d[1]) \in Int /\ Distance(d[2]) \in Int
    BY <2>1 DEF Distance
  <2> QED BY <1>2, <2>3, <2>4
<1>6. ASSUME Distance(bx - ax) + Distance(by - ay) =< LockRadius
      PROVE  \E d \in Close : b = CellFromCoord(ax + d[1], ay + d[2])
  <2> DEFINE dx == bx - ax
             dy == by - ay
  <2>1. /\ dx \in Int /\ dy \in Int /\ ax + dx = bx /\ ay + dy = by
        /\ Distance(dx) + Distance(dy) =< LockRadius
    BY <1>1, <1>6
  <2> HIDE DEF dx, dy
  <2>2. /\ dx \in -LockRadius .. LockRadius /\ dy \in -LockRadius .. LockRadius
        /\ Distance(dx) =< LockRadius - Distance(dy)
    BY <1>2, <2>1 DEF Distance
  <2>3. <<dx, dy>> \in Close
    BY <1>1, <2>1, <2>2
  <2> QED BY <1>1, <2>1, <2>3
<1> HIDE DEF Close
<1> QED BY <1>3, <1>4, <1>5, <1>6

\* A step to a neighbour, straight ahead or, with eight of them, across.
LEMMA StepsToNeighbors ==
  ASSUME GridTypes, NEW dx \in Int, NEW dy \in Int
  PROVE  /\ <<dx, dy>> \in Dirs => <<-dx, -dy>> \in Dirs
         /\ Distance(dx) + Distance(dy) = 1 => <<dx, dy>> \in Dirs
         /\ connectivity = 4 /\ <<dx, dy>> \in Dirs => Distance(dx) + Distance(dy) = 1
<1>1. CASE connectivity = 4
  <2>1. <<dx, dy>> \in Dirs <=> \/ (dx = 0 /\ dy = -1) \/ (dx = 1 /\ dy = 0)
                               \/ (dx = 0 /\ dy = 1) \/ (dx = -1 /\ dy = 0)
    BY <1>1 DEF Dirs
  <2>2. <<-dx, -dy>> \in Dirs <=> \/ (-dx = 0 /\ -dy = -1) \/ (-dx = 1 /\ -dy = 0)
                                 \/ (-dx = 0 /\ -dy = 1) \/ (-dx = -1 /\ -dy = 0)
    BY <1>1 DEF Dirs
  <2> QED BY <2>1, <2>2 DEF Distance
<1>2. CASE connectivity = 8
  <2>1. <<dx, dy>> \in Dirs <=>
          dx \in -1 .. 1 /\ dy \in -1 .. 1 /\ ~(dx = 0 /\ dy = 0)
    BY <1>2 DEF Dirs
  <2>2. <<-dx, -dy>> \in Dirs <=>
          -dx \in -1 .. 1 /\ -dy \in -1 .. 1 /\ ~(-dx = 0 /\ -dy = 0)
    BY <1>2 DEF Dirs
  <2> QED BY <1>2, <2>1, <2>2 DEF Distance
<1> QED BY <1>1, <1>2 DEF GridTypes

LEMMA NeighborsExact ==
  ASSUME GridTypes
  PROVE  /\ CellsAdjacent(here, there) /\ IsTraversable(there) => there \in Neighbors(here)
         /\ connectivity = 4 /\ there \in Neighbors(here) => CellsAdjacent(here, there)
         /\ IsTraversable(here) => (there \in Neighbors(here) /\ IsTraversable(there)
                                      <=> here \in Neighbors(there) /\ IsTraversable(there))
<1> DEFINE dx == (there % Width) - (here % Width)
           dy == (there \div Width) - (here \div Width)
<1>1. here \in GridCell /\ there \in GridCell
  BY DEF GridTypes
<1>2. /\ dx \in Int /\ dy \in Int
      /\ (here % Width) - (there % Width) = -dx
      /\ (here \div Width) - (there \div Width) = -dy
  <2>1. /\ here % Width \in Int /\ there % Width \in Int
        /\ here \div Width \in Int /\ there \div Width \in Int
    BY <1>1, CellCoordinates
  <2> QED BY <2>1
<1>3. there \in Neighbors(here) <=> IsTraversable(there) /\ <<dx, dy>> \in Dirs
  BY <1>1, ReachedMeaning, StepsAreSteps DEF Neighbors
<1>4. here \in Neighbors(there) <=> IsTraversable(here) /\ <<-dx, -dy>> \in Dirs
  BY <1>1, <1>2, ReachedMeaning, StepsAreSteps DEF Neighbors
<1>5. CellsAdjacent(here, there) <=> Distance(dx) + Distance(dy) = 1
  BY <1>1, <1>2, DistanceMeaning DEF CellsAdjacent, Distance
<1> HIDE DEF dx, dy
<1>6. <<-dx, -dy>> \in Dirs => <<dx, dy>> \in Dirs
  <2>1. -dx \in Int /\ -dy \in Int /\ -(-dx) = dx /\ -(-dy) = dy
    BY <1>2
  <2> QED BY <2>1, StepsToNeighbors
<1> QED BY <1>2, <1>3, <1>4, <1>5, <1>6, StepsToNeighbors

LEMMA MoreSteps ==
  ASSUME NEW px, NEW py, NEW few, NEW many, few \subseteq many
  PROVE  Reached(px, py, few) \subseteq Reached(px, py, many)
BY DEF Reached

\* A cell with neither side open has at most two neighbours in a line.
LEMMA NoSideNoIntersection ==
  ASSUME GridTypes, Pullovers(here, heading) = {}, connectivity = 4
  PROVE  ~IsIntersection(here)
<1> DEFINE px == here % Width
           py == here \div Width
           Ahead == IF heading \in {0, 2} THEN <<0, -1>> ELSE <<1, 0>>
           Behind == IF heading \in {0, 2} THEN <<0, 1>> ELSE <<-1, 0>>
           Line == {CellFromCoord(px + Ahead[1], py + Ahead[2]),
                    CellFromCoord(px + Behind[1], py + Behind[2])}
<1>1. Dirs = SideOffsets(heading) \cup {Ahead, Behind}
  BY DEF Dirs, SideOffsets
<1>2. Reached(px, py, SideOffsets(heading)) = {}
  BY DEF Pullovers
<1> HIDE DEF px, py, Ahead, Behind
<1>3. ASSUME NEW cell \in Reached(px, py, Dirs) PROVE cell \in Line
  <2>1. PICK d \in Dirs : /\ OnGrid(px + d[1], py + d[2])
                          /\ cell = CellFromCoord(px + d[1], py + d[2])
                          /\ IsTraversable(cell)
    BY <1>3 DEF Reached
  <2>2. d \notin SideOffsets(heading)
    BY <1>2, <2>1 DEF Reached
  <2> QED BY <1>1, <2>1, <2>2
<1>4. IsFiniteSet(Line) /\ Cardinality(Line) =< 2
  <2>1. ASSUME NEW a, NEW b PROVE IsFiniteSet({a, b}) /\ Cardinality({a, b}) =< 2
    <3>1. IsFiniteSet({a}) /\ Cardinality({a}) = 1
      BY FS_Singleton
    <3>2. /\ IsFiniteSet({a} \cup {b})
          /\ Cardinality({a} \cup {b}) = IF b \in {a} THEN 1 ELSE 1 + 1
      BY <3>1, FS_AddElement
    <3>3. {a} \cup {b} = {a, b}
      OBVIOUS
    <3> QED BY <3>2, <3>3
  <2> QED BY <2>1
<1>5. Reached(px, py, Dirs) \subseteq Line
  BY <1>3
<1> HIDE DEF Line
<1>6. /\ Cardinality(Reached(px, py, Dirs)) =< Cardinality(Line)
      /\ Cardinality(Reached(px, py, Dirs)) \in Nat /\ Cardinality(Line) \in Nat
  BY <1>4, <1>5, FS_Subset, FS_CardinalityType
<1>7. Neighbors(here) = Reached(px, py, Dirs)
  BY DEF Neighbors, px, py
<1> QED BY <1>4, <1>6, <1>7 DEF IsIntersection

LEMMA PulloversExact ==
  ASSUME GridTypes
  PROVE  /\ Pullovers(here, heading) \subseteq Neighbors(here)
         /\ Pullovers(here, heading) = Pullovers(here, Opposite(heading))
         /\ Pullovers(here, heading) = {} =>
              \A turn \in {1, 3} :
                LET d == Delta((heading + turn) % 4)
                IN Reached(here % Width, here \div Width, {d}) = {}
         /\ Pullovers(here, heading) = {} /\ connectivity = 4 => PulloverScore(here) < 100
<1>1. heading \in {0, 1, 2, 3}
  BY DEF GridTypes, Heading
<1>2. SideOffsets(heading) \subseteq Dirs
  BY DEF SideOffsets, Dirs
<1>3. SideOffsets(heading) = SideOffsets(Opposite(heading))
  <2>1. (0 + 2) % 4 = 2 /\ (1 + 2) % 4 = 3 /\ (2 + 2) % 4 = 0 /\ (3 + 2) % 4 = 1
    OBVIOUS
  <2> QED BY <1>1, <2>1 DEF SideOffsets, Opposite
<1>4. ASSUME NEW turn \in {1, 3} PROVE {Delta((heading + turn) % 4)} \subseteq SideOffsets(heading)
  <2>1. (heading + turn) % 4 \in (IF heading \in {0, 2} THEN {1, 3} ELSE {0, 2})
    BY <1>1
  <2> DEFINE way == (heading + turn) % 4
  <2> HIDE DEF way
  <2>2. Delta(way) \in SideOffsets(heading)
    BY <1>1, <2>1 DEF Delta, SideOffsets, way
  <2> QED BY <2>2 DEF way
<1>5. Pullovers(here, heading) \subseteq Neighbors(here)
  BY <1>2, MoreSteps DEF Pullovers, Neighbors
<1>6. ASSUME Pullovers(here, heading) = {}, NEW turn \in {1, 3}
      PROVE  Reached(here % Width, here \div Width, {Delta((heading + turn) % 4)}) = {}
  BY <1>4, <1>6, MoreSteps DEF Pullovers
<1>7. ASSUME Pullovers(here, heading) = {}, connectivity = 4 PROVE PulloverScore(here) < 100
  BY <1>7, NoSideNoIntersection DEF PulloverScore
<1> QED BY <1>3, <1>5, <1>6, <1>7 DEF Pullovers

LEMMA HeadingsExact ==
  ASSUME NEW h \in Heading
  PROVE  ToHeading(PoseTheta(h)) = (5 - h) % 4 /\ FromU8(h) = {FromU8Masked(h + 4)}
<1>1. h \in {0, 1, 2, 3}
  BY DEF Heading
<1>2. /\ HeadingToRad(0) = 1 /\ HeadingToRad(1) = 0
      /\ HeadingToRad(2) = 3 /\ HeadingToRad(3) = 2
  BY DEF HeadingToRad
<1>3. (PoseTheta(h) + 4) % 4 = IF h = 3 THEN 3 ELSE h
  BY <1>1 DEF PoseTheta, ToRad
<1>4. \A n \in {0, 1, 2, 3} : \E m \in Heading :
        HeadingToRad(m) = n /\ m = (5 - n) % 4 /\ \A k \in Heading : HeadingToRad(k) = n => k = m
  <2>1. (5 - 0) % 4 = 1 /\ (5 - 1) % 4 = 0 /\ (5 - 2) % 4 = 3 /\ (5 - 3) % 4 = 2
    OBVIOUS
  <2>2. \A k \in Heading : k = 0 \/ k = 1 \/ k = 2 \/ k = 3
    BY DEF Heading
  <2>3. 0 \in Heading /\ 1 \in Heading /\ 2 \in Heading /\ 3 \in Heading
    BY DEF Heading
  <2> QED BY <1>2, <2>1, <2>2, <2>3
<1>5. ToHeading(PoseTheta(h)) = (5 - h) % 4
  <2>1. (PoseTheta(h) + 4) % 4 = h
    BY <1>3
  <2>2. PICK m \in Heading : /\ HeadingToRad(m) = h /\ m = (5 - h) % 4
                             /\ \A k \in Heading : HeadingToRad(k) = h => k = m
    BY <1>1, <1>4
  <2>3. ToHeading(PoseTheta(h)) = CHOOSE k \in Heading : HeadingToRad(k) = h
    BY <2>1 DEF ToHeading
  <2> QED BY <2>2, <2>3
<1>6. (h + 4) % 4 = h
  BY <1>1
<1> QED BY <1>5, <1>6 DEF FromU8, FromU8Masked

\* The helpers of the grid agree with each other, on every grid, with any set
\* of blocked cells and for all arguments.
THEOREM GridsExact == GridSpec => []GridExact
<1>1. GridInit => GridTypes
  <2>1. 0 \in GridCell
    <3>1. Width * Height \in Nat \ {0}
      <4>1. (Width - 1) * (Height - 1) >= 0 /\ Width \in Nat \ {0} /\ Height \in Nat \ {0}
        BY GridAssumption
      <4> QED BY <4>1
    <3> QED BY <3>1 DEF GridCell
  <2> QED BY <2>1 DEF GridInit, GridTypes, Heading
<1>2. GridTypes /\ [GridNext]_gridVars => GridTypes'
  BY DEF GridTypes, GridNext, ChooseArguments, gridVars, GridCell, Heading
<1>3. GridTypes => GridExact
  <2> SUFFICES ASSUME GridTypes PROVE GridExact
    OBVIOUS
  <2>1. /\ CellFromCoord(Coordinate(here)[1], Coordinate(here)[2]) = here
        /\ there \in CellsInRadius(here) <=> IsPeerInRadius(there, {here})
    BY CellCoordinates, RadiusExact DEF GridTypes, Coordinate
  <2>2. ToHeading(PoseTheta(heading)) = (5 - heading) % 4
        /\ FromU8(heading) = {FromU8Masked(heading + 4)}
    BY HeadingsExact DEF GridTypes
  <2> QED BY <2>1, <2>2, NeighborsExact, PulloversExact DEF GridExact
<1> QED BY <1>1, <1>2, <1>3, PTL DEF GridSpec

-----------------------------------------------------------------------------
(* The formulas.                                                           *)

AgentArguments ==
  [yield_count : Nat, urgency : 0 .. 4, d_goal : Nat, battery : 0 .. 100, id : 0 .. 255]

FormulaTypes ==
  /\ mine \in AgentArguments /\ other \in AgentArguments
  /\ span \in SafeInterval /\ gap \in SafeInterval /\ speed \in 0 .. VMax

\* Division is monotone in what is divided, antitone in the divisor.
DividedBy(a, c) == a \div c

LEMMA QuotientGrows ==
  ASSUME NEW a \in Nat, NEW b \in Nat, a =< b, NEW c \in Nat \ {0}, NEW d \in Nat \ {0}, d =< c
  PROVE  /\ DividedBy(a, c) =< DividedBy(b, d)
         /\ DividedBy(a, c) \in Nat /\ DividedBy(b, d) \in Nat
<1> DEFINE p == a \div c
           q == b \div d
<1>1. p \in Int /\ c * p =< a /\ a < c * p + c /\ q \in Int /\ d * q =< b /\ b < d * q + d
  BY Division
<1> HIDE DEF p, q
<1>2. p >= 0
  <2>1. SUFFICES ASSUME p + 1 =< 0 PROVE FALSE
    BY <1>1
  <2>2. c * (p + 1) =< 0
    BY <1>1, <2>1
  <2>3. c * (p + 1) = c * p + c
    BY <1>1
  <2> QED BY <1>1, <2>2, <2>3
<1>3. p =< q
  <2>1. SUFFICES ASSUME p >= q + 1 PROVE FALSE
    BY <1>1
  <2>2. d * (q + 1) =< d * p
    BY <1>1, <2>1
  <2>3. d * p =< c * p
    <3>1. (c - d) * p >= 0
      BY <1>1, <1>2
    <3> QED BY <1>1, <3>1
  <2>4. d * (q + 1) = d * q + d
    BY <1>1
  <2>5. d * p \in Int /\ c * p \in Int /\ d * q \in Int
    BY <1>1
  <2> QED BY <1>1, <2>2, <2>3, <2>4, <2>5
<1>4. DividedBy(a, c) = p /\ DividedBy(b, d) = q
  BY DEF DividedBy, p, q
<1> QED BY <1>1, <1>2, <1>3, <1>4

\* The parts of a priority: the yields, a term below their weight, and the id.
LEMMA PriorityParts ==
  ASSUME NEW p \in AgentArguments
  PROVE  \E rest \in Nat :
           /\ Compute(p) = 10000 * p.yield_count + rest + p.id
           /\ p.urgency < 4 /\ p.d_goal > 0 => rest =< 7510
           /\ rest = DividedBy(50 * p.urgency * 100, p.d_goal + 1)
                     + DividedBy(10, p.battery + 1)
<1> DEFINE a == 50 * p.urgency * 100
           c == p.d_goal + 1
           urgent == DividedBy(a, c)
           tired == DividedBy(10, p.battery + 1)
<1>1. /\ p.yield_count \in Nat /\ p.urgency \in 0 .. 4 /\ p.d_goal \in Nat
      /\ p.battery \in 0 .. 100 /\ p.id \in 0 .. 255
  BY DEF AgentArguments
<1>2. a \in Nat /\ c \in Nat \ {0} /\ p.battery + 1 \in Nat \ {0}
  BY <1>1
<1> HIDE DEF a, c
<1>3. tired \in Nat /\ tired =< 10
  <2>1. 10 \in Nat /\ 1 \in Nat \ {0} /\ 1 =< p.battery + 1
    BY <1>1
  <2>2. tired =< DividedBy(10, 1) /\ tired \in Nat
    BY <1>2, <2>1, QuotientGrows
  <2>3. DividedBy(10, 1) = 10
    BY DEF DividedBy
  <2> QED BY <2>2, <2>3
<1>4. urgent \in Nat
  BY <1>2, QuotientGrows
<1>5. ASSUME p.urgency < 4, p.d_goal > 0 PROVE urgent =< 7500
  <2>1. a =< 15000 /\ c >= 2
    BY <1>1, <1>5 DEF a, c
  <2>2. urgent =< DividedBy(15000, 2)
    BY <1>2, <2>1, QuotientGrows
  <2>3. DividedBy(15000, 2) = 7500
    BY DEF DividedBy
  <2> QED BY <2>2, <2>3
<1>6. Compute(p) = 10000 * p.yield_count + urgent + tired + p.id
  BY DEF Compute, DividedBy, a, c
<1> HIDE DEF urgent, tired
<1>7. urgent + tired \in Nat
  BY <1>3, <1>4
<1>8. Compute(p) = 10000 * p.yield_count + (urgent + tired) + p.id
  BY <1>1, <1>3, <1>4, <1>6
<1>9. urgent + tired = DividedBy(50 * p.urgency * 100, p.d_goal + 1)
                       + DividedBy(10, p.battery + 1)
  BY DEF urgent, tired, a, c
<1>10. p.urgency < 4 /\ p.d_goal > 0 => urgent + tired =< 7510
  BY <1>3, <1>4, <1>5
<1> QED BY <1>7, <1>8, <1>9, <1>10

LEMMA AgentsAreOrdered == ASSUME FormulaTypes PROVE AgentsOrdered
<1>1. /\ mine \in AgentArguments /\ other \in AgentArguments
      /\ mine.yield_count \in Nat /\ mine.d_goal \in Nat /\ mine.battery \in 0 .. 100
      /\ other.yield_count \in Nat /\ other.d_goal \in Nat /\ other.battery \in 0 .. 100
      /\ mine.id \in 0 .. 255 /\ other.id \in 0 .. 255
  BY DEF FormulaTypes, AgentArguments
<1>2. PICK m \in Nat :
        /\ Compute(mine) = 10000 * mine.yield_count + m + mine.id
        /\ m = DividedBy(50 * mine.urgency * 100, mine.d_goal + 1) + DividedBy(10, mine.battery + 1)
  BY <1>1, PriorityParts
<1>3. PICK o \in Nat :
        /\ Compute(other) = 10000 * other.yield_count + o + other.id
        /\ other.urgency < 4 /\ other.d_goal > 0 => o =< 7510
        /\ o = DividedBy(50 * other.urgency * 100, other.d_goal + 1) + DividedBy(10, other.battery + 1)
  BY <1>1, PriorityParts
<1> DEFINE cm == Compute(mine)
           co == Compute(other)
           ym == mine.yield_count
           yo == other.yield_count
           im == mine.id
           io == other.id
<1>4. cm = 10000 * ym + m + im /\ co = 10000 * yo + o + io
  BY <1>2, <1>3
<1>5. ym \in Nat /\ yo \in Nat /\ im \in 0 .. 255 /\ io \in 0 .. 255
  BY <1>1
<1>6. Dominates(mine, other) <=> cm > co
  BY DEF Dominates
<1>7. Dominates(other, mine) <=> co > cm
  BY DEF Dominates
<1> HIDE DEF cm, co, ym, yo, im, io
<1>8. cm \in Int /\ co \in Int
  BY <1>4, <1>5
<1>9. ASSUME mine.yield_count > other.yield_count, other.urgency < 4, other.d_goal > 0
      PROVE  Dominates(mine, other)
  <2>1. o =< 7510
    BY <1>3, <1>9
  <2>2. ym > yo
    BY <1>9 DEF ym, yo
  <2>3. 10000 * ym >= 10000 * yo + 10000
    BY <1>5, <2>2
  <2>4. cm > co
    BY <1>4, <1>5, <2>1, <2>3
  <2> QED BY <1>6, <2>4
<1>10. ~(Dominates(mine, other) /\ Dominates(other, mine))
  BY <1>6, <1>7, <1>8
<1>11. ASSUME mine # other, mine = [other EXCEPT !.id = mine.id]
      PROVE  Dominates(mine, other) # Dominates(other, mine)
  <2>1. /\ mine.yield_count = other.yield_count /\ mine.urgency = other.urgency
        /\ mine.d_goal = other.d_goal /\ mine.battery = other.battery
    BY <1>1, <1>11 DEF AgentArguments
  <2>2. mine.id # other.id
    <3>1. SUFFICES ASSUME mine.id = other.id PROVE FALSE
      OBVIOUS
    <3>2. [other EXCEPT !.id = other.id] = other
      BY <1>1 DEF AgentArguments
    <3> QED BY <1>11, <3>1, <3>2
  <2>3. m = o
    BY <1>2, <1>3, <2>1
  <2>4. im # io /\ ym = yo
    BY <2>1, <2>2 DEF im, io, ym, yo
  <2>5. cm > co <=> ~(co > cm)
    BY <1>4, <1>5, <1>8, <2>3, <2>4
  <2> QED BY <1>6, <1>7, <2>5
<1>12. ASSUME NEW s \in 0 .. 1, NEW t \in 0 .. 1, <<s, mine.id>> # <<t, other.id>>
      PROVE  OrderedBefore(s, mine.id, t, other.id) # OrderedBefore(t, other.id, s, mine.id)
  <2>1. s # t \/ im # io
    BY <1>12 DEF im, io
  <2>2. (s < t \/ (s = t /\ im < io)) <=> ~(t < s \/ (t = s /\ io < im))
    BY <1>5, <2>1
  <2> QED BY <2>2 DEF OrderedBefore, im, io
<1>13. ASSUME mine.d_goal =< other.d_goal, mine.battery >= other.battery,
             NEW q \in Queues, NEW r \in Queues, q =< r
      PROVE  UtilityOf(mine.d_goal, mine.battery, q) >= UtilityOf(other.d_goal, other.battery, r)
  <2>1. q \in Nat /\ r \in Nat
    BY FormulasAssumption
  <2> DEFINE gm == 10 * (mine.d_goal + 1)
             go == 10 * (other.d_goal + 1)
             bm == 64 * mine.battery
             bo == 64 * other.battery
             qm == 10 * (q + 1)
             ro == 10 * (r + 1)
  <2>2. gm \in Nat \ {0} /\ go \in Nat \ {0} /\ gm =< go
    BY <1>1, <1>13
  <2>3. bm \in Nat /\ bo \in Nat /\ bo =< bm
    <3>1. mine.battery \in Nat /\ other.battery \in Nat
      BY <1>1
    <3>2. \A m1 \in Nat, o1 \in Nat : o1 =< m1 => 64 * o1 =< 64 * m1
      OBVIOUS
    <3> QED BY <1>13, <3>1, <3>2
  <2>4. qm \in Nat \ {0} /\ ro \in Nat \ {0} /\ qm =< ro
    BY <1>13, <2>1
  <2>5. /\ UtilityOf(mine.d_goal, mine.battery, q) =
             DividedBy(1536, gm) + DividedBy(bm, 100) + DividedBy(384, qm)
        /\ UtilityOf(other.d_goal, other.battery, r) =
             DividedBy(1536, go) + DividedBy(bo, 100) + DividedBy(384, ro)
    BY DEF UtilityOf, DividedBy
  <2> HIDE DEF gm, go, bm, bo, qm, ro
  <2>6. 1536 \in Nat /\ 1536 =< 1536 /\ 384 \in Nat /\ 384 =< 384 /\ 100 \in Nat \ {0} /\ 100 =< 100
    OBVIOUS
  <2>7. /\ DividedBy(1536, go) =< DividedBy(1536, gm)
        /\ DividedBy(1536, go) \in Nat /\ DividedBy(1536, gm) \in Nat
    BY <2>2, <2>6, QuotientGrows
  <2>8. /\ DividedBy(bo, 100) =< DividedBy(bm, 100)
        /\ DividedBy(bo, 100) \in Nat /\ DividedBy(bm, 100) \in Nat
    BY <2>3, <2>6, QuotientGrows
  <2>9. /\ DividedBy(384, ro) =< DividedBy(384, qm)
        /\ DividedBy(384, ro) \in Nat /\ DividedBy(384, qm) \in Nat
    BY <2>4, <2>6, QuotientGrows
  <2> QED BY <2>5, <2>7, <2>8, <2>9
<1> QED BY <1>9, <1>10, <1>11, <1>12, <1>13 DEF AgentsOrdered


\* Two intervals agree tick by tick.
LEMMA IntervalsDoAgree == ASSUME FormulaTypes PROVE IntervalsAgree
<1> DEFINE a == span[1]
           b == span[2]
           c == gap[1]
           d == gap[2]
<1>1. /\ a \in Nat /\ b \in Nat /\ c \in Nat /\ d \in Nat
      /\ a =< b /\ b =< TickMax /\ c =< d /\ d =< TickMax
  BY FormulasAssumption DEF FormulaTypes, SafeInterval
<1>2. Intersection(span, gap) =
        IF Larger(a, c) < Smaller(b, d) THEN {<<Larger(a, c), Smaller(b, d)>>} ELSE {}
  BY DEF Intersection
<1>3. ASSUME NEW t \in 0 .. TickMax
      PROVE  (\E i \in Intersection(span, gap) : Holds(i, t)) <=> Holds(span, t) /\ Holds(gap, t)
  <2>1. t \in Int
    BY <1>3, FormulasAssumption
  <2>2. Holds(span, t) /\ Holds(gap, t) <=> a =< t /\ t < b /\ c =< t /\ t < d
    BY DEF Holds
  <2>3. (\E i \in Intersection(span, gap) : Holds(i, t))
          <=> Larger(a, c) < Smaller(b, d) /\ Larger(a, c) =< t /\ t < Smaller(b, d)
    <3> DEFINE lo == Larger(a, c)
               hi == Smaller(b, d)
    <3>1. Intersection(span, gap) = IF lo < hi THEN {<<lo, hi>>} ELSE {}
      BY <1>2
    <3> HIDE DEF lo, hi
    <3>2. Holds(<<lo, hi>>, t) <=> lo =< t /\ t < hi
      BY DEF Holds
    <3>3. (\E i \in Intersection(span, gap) : Holds(i, t)) <=> lo < hi /\ Holds(<<lo, hi>>, t)
      BY <3>1, Zenon
    <3>4. (\E i \in Intersection(span, gap) : Holds(i, t)) <=> lo < hi /\ lo =< t /\ t < hi
      BY <3>2, <3>3, Zenon
    <3> QED BY <3>4 DEF lo, hi
  <2> HIDE DEF a, b, c, d
  <2>4. (Larger(a, c) < Smaller(b, d) /\ Larger(a, c) =< t /\ t < Smaller(b, d))
          <=> (a =< t /\ t < b /\ c =< t /\ t < d)
    BY <1>1, <2>1 DEF Larger, Smaller
  <2> QED BY <2>2, <2>3, <2>4
<1>4. ASSUME Duration(span) > 0, Duration(gap) > 0
      PROVE  OverlapsWith(span, gap) <=> Intersection(span, gap) # {}
  <2>1. b - a > 0 /\ d - c > 0
    BY <1>4 DEF Duration
  <2>2. OverlapsWith(span, gap) <=> ~(b =< c \/ d =< a)
    BY DEF OverlapsWith
  <2>3. Intersection(span, gap) # {} <=> Larger(a, c) < Smaller(b, d)
    BY <1>2
  <2> HIDE DEF a, b, c, d
  <2>4. Larger(a, c) < Smaller(b, d) <=> ~(b =< c \/ d =< a)
    BY <1>1, <2>1 DEF Larger, Smaller
  <2> QED BY <2>2, <2>3, <2>4
<1>5. ASSUME NEW n \in Pads
      PROVE  /\ PaddedBy(span, n) \in SafeInterval
             /\ PaddedBy(span, n)[1] =< span[1] /\ span[2] =< PaddedBy(span, n)[2]
  <2> DEFINE lo == Larger(a - n, 0)
             hi == Smaller(b + n, TickMax)
  <2>1. PaddedBy(span, n) = <<lo, hi>>
    BY DEF PaddedBy
  <2>2. n \in Nat /\ TickMax \in Nat
    BY FormulasAssumption
  <2>3. lo \in 0 .. TickMax /\ hi \in 0 .. TickMax /\ lo =< a /\ b =< hi /\ lo =< hi
    <3> HIDE DEF a, b, c, d
    <3> QED BY <1>1, <2>2 DEF Larger, Smaller
  <2> HIDE DEF lo, hi
  <2> QED BY <2>1, <2>3 DEF SafeInterval
<1>6. \A t \in 0 .. TickMax :
        (\E i \in Intersection(span, gap) : Holds(i, t)) <=> Holds(span, t) /\ Holds(gap, t)
  BY <1>3
<1>7. \A n \in Pads : LET wide == PaddedBy(span, n)
        IN wide \in SafeInterval /\ wide[1] =< span[1] /\ span[2] =< wide[2]
  BY <1>5
<1>8. Duration(span) > 0 /\ Duration(gap) > 0 =>
        (OverlapsWith(span, gap) <=> Intersection(span, gap) # {})
  BY <1>4
<1> QED BY <1>6, <1>7, <1>8 DEF IntervalsAgree

\* A braking profile is decreasing by two until it is at rest.
LEMMA ProfileShape ==
  ASSUME NEW v \in 0 .. 10
  PROVE  LET k == StoppingTimeTicks(v)
             profile == BrakingProfile(v)
         IN /\ k \in 0 .. 5 /\ v =< 2 * k /\ 2 * k =< v + 1 /\ Len(profile) = k + 1
            /\ \A i \in 1 .. k : profile[i] = v - 2 * (i - 1) /\ profile[i] > 0
            /\ profile[k + 1] = 0
<1> DEFINE k == StoppingTimeTicks(v)
           profile == BrakingProfile(v)
<1>1. k = (v + 1) \div 2
  BY DEF StoppingTimeTicks, Ceiling
<1>2. k \in Int /\ 2 * k =< v + 1 /\ v + 1 < 2 * k + 2
  <2>1. v + 1 \in Int /\ 2 \in Nat \ {0}
    OBVIOUS
  <2> HIDE DEF k
  <2> QED BY <1>1, <2>1, Division
<1>3. profile = [i \in 1 .. k + 1 |-> Larger(v - 2 * (i - 1), 0)]
  BY DEF BrakingProfile
<1> HIDE DEF k, profile
<1>4. k \in 0 .. 5 /\ v =< 2 * k /\ 2 * k =< v + 1
  BY <1>2
<1>5. \A i \in 1 .. k + 1 : Larger(v - 2 * (i - 1), 0) \in Int
  BY <1>4 DEF Larger
<1>6. Len(profile) = k + 1
  BY <1>3, <1>4, <1>5
<1>7. ASSUME NEW i \in 1 .. k PROVE profile[i] = v - 2 * (i - 1) /\ profile[i] > 0
  <2>1. v - 2 * (i - 1) > 0 /\ i \in 1 .. k + 1
    BY <1>4
  <2> QED BY <1>3, <2>1 DEF Larger
<1>8. profile[k + 1] = 0
  <2>1. v - 2 * (k + 1 - 1) =< 0 /\ k + 1 \in 1 .. k + 1
    BY <1>4
  <2> QED BY <1>3, <1>4, <2>1 DEF Larger
<1> QED BY <1>4, <1>6, <1>7, <1>8 DEF k, profile

\* It travels the sum of its speeds, which the stopping distance covers.
LEMMA ProfileTravels ==
  ASSUME NEW v \in 0 .. 10
  PROVE  /\ Travelled(BrakingProfile(v)) \in 0 .. 30
         /\ v = 0 => Travelled(BrakingProfile(v)) = 0
<1> DEFINE k == StoppingTimeTicks(v)
           profile == BrakingProfile(v)
           upto[i \in 0 .. Len(profile)] == IF i = 0 THEN 0 ELSE upto[i - 1] + profile[i]
           sum == [i \in 0 .. Len(profile) |-> IF i = k + 1 THEN k * v - k * (k - 1)
                                               ELSE i * v - i * (i - 1)]
<1>1. /\ k \in 0 .. 5 /\ v =< 2 * k /\ 2 * k =< v + 1 /\ Len(profile) = k + 1
      /\ \A i \in 1 .. k : profile[i] = v - 2 * (i - 1) /\ profile[i] > 0
      /\ profile[k + 1] = 0
  BY ProfileShape
<1>2. Travelled(profile) = upto[Len(profile)]
  BY DEF Travelled
<1> HIDE DEF k, profile
<1>3. ASSUME NEW i \in 0 .. Len(profile)
      PROVE  sum[i] = IF i = 0 THEN 0 ELSE sum[i - 1] + profile[i]
  <2>1. CASE i = 0
    <3>1. i # k + 1
      BY <1>1, <2>1
    <3> QED BY <2>1, <3>1
  <2>2. CASE i \in 1 .. k
    <3>1. i - 1 \in 0 .. Len(profile) /\ i # k + 1 /\ i - 1 # k + 1 /\ i # 0
      BY <1>1, <2>2
    <3>2. sum[i] = i * v - i * (i - 1) /\ sum[i - 1] = (i - 1) * v - (i - 1) * (i - 1 - 1)
      BY <3>1
    <3>3. i * v - i * (i - 1) = (i - 1) * v - (i - 1) * (i - 1 - 1) + (v - 2 * (i - 1))
      BY <1>1, <2>2
    <3> QED BY <1>1, <2>2, <3>1, <3>2, <3>3
  <2>3. CASE i = k + 1
    <3>1. i - 1 = k /\ k \in 0 .. Len(profile) /\ k # k + 1 /\ i # 0
      BY <1>1, <2>3
    <3>2. sum[i] = k * v - k * (k - 1) /\ sum[k] = k * v - k * (k - 1)
      BY <2>3, <3>1
    <3>3. k * v - k * (k - 1) \in Int
      BY <1>1
    <3> QED BY <1>1, <2>3, <3>1, <3>2, <3>3
  <2> QED BY <1>1, <2>1, <2>2, <2>3
<1>4. sum = [i \in 0 .. Len(profile) |-> IF i = 0 THEN 0 ELSE sum[i - 1] + profile[i]]
  <2>1. sum = [i \in 0 .. Len(profile) |-> sum[i]]
    OBVIOUS
  <2> HIDE DEF sum
  <2> QED BY <1>3, <2>1
<1>5. \E f : f = [i \in 0 .. Len(profile) |-> IF i = 0 THEN 0 ELSE f[i - 1] + profile[i]]
  <2> HIDE DEF sum
  <2> QED BY <1>4
<1>6. upto = [i \in 0 .. Len(profile) |-> IF i = 0 THEN 0 ELSE upto[i - 1] + profile[i]]
  BY <1>5
<1> HIDE DEF upto
<1>7. \A i \in 0 .. Len(profile) : upto[i] = IF i = 0 THEN 0 ELSE upto[i - 1] + profile[i]
  BY <1>6
<1>8. ASSUME NEW i \in 0 .. 6, i =< Len(profile), i = 0 \/ upto[i - 1] = sum[i - 1]
      PROVE  upto[i] = sum[i]
  <2>1. i \in 0 .. Len(profile)
    BY <1>1, <1>8
  <2> HIDE DEF sum
  <2> QED BY <1>3, <1>7, <1>8, <2>1
<1>9. upto[k + 1] = sum[k + 1]
  <2> HIDE DEF sum
  <2>1. upto[0] = sum[0]
    BY <1>1, <1>8
  <2>2. 1 =< Len(profile) => upto[1] = sum[1]
    BY <1>8, <2>1
  <2>3. 2 =< Len(profile) => upto[2] = sum[2]
    BY <1>1, <1>8, <2>2
  <2>4. 3 =< Len(profile) => upto[3] = sum[3]
    BY <1>1, <1>8, <2>3
  <2>5. 4 =< Len(profile) => upto[4] = sum[4]
    BY <1>1, <1>8, <2>4
  <2>6. 5 =< Len(profile) => upto[5] = sum[5]
    BY <1>1, <1>8, <2>5
  <2>7. 6 =< Len(profile) => upto[6] = sum[6]
    BY <1>1, <1>8, <2>6
  <2> QED BY <1>1, <2>2, <2>3, <2>4, <2>5, <2>6, <2>7
<1>10. Travelled(profile) = k * v - k * (k - 1)
  BY <1>1, <1>2, <1>9
<1>11. k * v - k * (k - 1) = k * (v - k + 1)
  BY <1>1
<1>12. k * (v - k + 1) \in 0 .. 30 /\ (v = 0 => k = 0)
  <2>1. k = 0 \/ k = 1 \/ k = 2 \/ k = 3 \/ k = 4 \/ k = 5
    BY <1>1
  <2> QED BY <1>1, <2>1
<1> QED BY <1>10, <1>11, <1>12 DEF profile

LEMMA BrakesDoStop == ASSUME FormulaTypes PROVE BrakesInTime
<1> DEFINE v == speed
           k == StoppingTimeTicks(v)
           profile == BrakingProfile(v)
           stop == StoppingDistanceCells(v)
<1>1. v \in 0 .. 10
  BY DEF FormulaTypes, VMax
<1>2. /\ k \in 0 .. 5 /\ Len(profile) = k + 1 /\ profile[k + 1] = 0
      /\ \A i \in 1 .. k : profile[i] > 0
  <2> HIDE DEF v
  <2> QED BY <1>1, ProfileShape
<1>3. Travelled(profile) \in 0 .. 30 /\ (v = 0 => Travelled(profile) = 0)
  <2> HIDE DEF v
  <2> QED BY <1>1, ProfileTravels
<1>4. stop \in Nat /\ (v # 0 => stop >= 1)
  <2>1. stop = (v * v + 200 - 1) \div 200
    BY DEF StoppingDistanceCells, Ceiling
  <2> DEFINE square == v * v
  <2> HIDE DEF v, stop
  <2>2. square \in Nat /\ (v # 0 => square >= 1)
    BY <1>1
  <2>3. stop = (square + 200 - 1) \div 200
    BY <2>1
  <2> DEFINE raised == square + 200 - 1
  <2> HIDE DEF square
  <2>4. raised \in Int /\ 200 \in Nat \ {0} /\ stop = raised \div 200
    BY <2>2, <2>3
  <2> HIDE DEF raised
  <2>5. stop \in Int /\ raised < 200 * stop + 200
    BY <2>4, Division
  <2>6. stop >= 0 /\ (square >= 1 => stop >= 1)
    <3> HIDE DEF square, stop
    <3>1. square \in Int /\ square >= 0
      BY <2>2
    <3>2. 0 < 200 * stop + 1 /\ (square >= 1 => 0 < 200 * stop)
      BY <2>5, <3>1 DEF raised
    <3> QED BY <2>5, <3>2
  <2> QED BY <2>2, <2>5, <2>6
<1>5. CanStopBefore(v, SafeFollowingDistance(v))
  BY <1>4 DEF CanStopBefore, SafeFollowingDistance
<1>6. ASSUME NEW cells \in 1 .. 3, CanStopBefore(v, cells)
      PROVE  Travelled(profile) =< 50 * (cells - 1)
  <2>1. stop < cells
    BY <1>6 DEF CanStopBefore
  <2> HIDE DEF v, stop, profile
  <2> QED BY <1>3, <1>4, <2>1
<1>7. \A i \in 1 .. Len(profile) - 1 : profile[i] > 0
  BY <1>2
<1>8. profile[Len(profile)] = 0
  BY <1>2
<1>9. \A cells \in 1 .. 3 : CanStopBefore(v, cells) => Travelled(profile) =< 50 * (cells - 1)
  BY <1>6
<1> QED BY <1>5, <1>7, <1>8, <1>9 DEF BrakesInTime

\* The formulas are exact for all arguments a run may pick, of whatever size.
THEOREM FormulasAreExact == FormulasSpec => []FormulasExact
<1>1. FormulasInit => FormulaTypes
  BY FormulasAssumption DEF FormulasInit, FormulaTypes, AgentArguments, SafeInterval, VMax
<1>2. FormulaTypes /\ [FormulasNext]_formulaVars => FormulaTypes'
  <2> SUFFICES ASSUME FormulaTypes, [FormulasNext]_formulaVars PROVE FormulaTypes'
    OBVIOUS
  <2>1. PriorityState \subseteq AgentArguments
    <3> SUFFICES ASSUME NEW p \in PriorityState PROVE p \in AgentArguments
      OBVIOUS
    <3>1. /\ p.yield_count \in Nat /\ p.urgency \in 0 .. 4 /\ p.d_goal \in Nat
          /\ p.battery \in 0 .. 100 /\ p.id \in 0 .. 255
      <4>1. /\ p.yield_count \in Yields /\ p.urgency \in 0 .. 4 /\ p.d_goal \in Goals
            /\ p.battery \in Batteries /\ p.id \in Ids
        BY DEF PriorityState
      <4>2. /\ Yields \subseteq Nat /\ Goals \subseteq Nat
            /\ Batteries \subseteq 0 .. 100 /\ Ids \subseteq 0 .. 255
        BY FormulasAssumption
      <4>3. p.yield_count \in Nat /\ p.d_goal \in Nat
        BY <4>1, <4>2
      <4> DEFINE percent == 0 .. 100
                 bytes == 0 .. 255
      <4>4. p.battery \in Batteries /\ Batteries \subseteq percent /\ p.id \in Ids /\ Ids \subseteq bytes
        BY <4>1, <4>2
      <4> HIDE DEF percent, bytes
      <4>5. p.battery \in percent /\ p.id \in bytes
        BY <4>4
      <4> QED BY <4>1, <4>3, <4>5 DEF percent, bytes
    <3>2. p = [yield_count |-> p.yield_count, urgency |-> p.urgency, d_goal |-> p.d_goal,
               battery |-> p.battery, id |-> p.id]
      BY DEF PriorityState
    <3> QED BY <3>1, <3>2 DEF AgentArguments
  <2>2. CASE PickAgents
    BY <2>1, <2>2 DEF PickAgents, FormulaTypes
  <2>3. CASE PickIntervals
    BY <2>3 DEF PickIntervals, FormulaTypes
  <2>4. CASE PickSpeed
    BY <2>4 DEF PickSpeed, FormulaTypes
  <2>5. CASE UNCHANGED formulaVars
    BY <2>5 DEF formulaVars, FormulaTypes
  <2> QED BY <2>2, <2>3, <2>4, <2>5 DEF FormulasNext
<1>3. FormulaTypes => FormulasExact
  BY AgentsAreOrdered, IntervalsDoAgree, BrakesDoStop DEF FormulasExact
<1> QED BY <1>1, <1>2, <1>3, PTL DEF FormulasSpec

\* The helpers agree with each other and with what they are used for, beside
\* the other parts.
THEOREM HelpersAreExact == PartsSpec => []HelpersExact
<1>1. PartsSpec => GridSpec /\ FormulasSpec
  BY PartsAreParts
<1> QED BY <1>1, GridsExact, FormulasAreExact, PTL DEF HelpersExact

=============================================================================
