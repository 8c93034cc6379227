------------------------------- MODULE MCParts -------------------------------
(***************************************************************************)
(* The parts of the system that share nothing, checked side by side.  In   *)
(* a behaviour one part moves, which the initial state chooses, and the    *)
(* others rest in their initial states: the states of the parts add up     *)
(* instead of multiplying.                                                 *)
(***************************************************************************)
EXTENDS Transport, Telemetry, CfpBurst, Packets, Drive, Localizer, Interlock,
        Grid, Formulas, ReservationTable

\* Gains small enough for the controllers to have few states; the distance
\* controller winds up, the heading controller has no integral.
MCHeadingGains == [kp |-> 30, ki |-> 0, kd |-> 1, out |-> 20, int |-> 0]
MCDistanceGains == [kp |-> 15, ki |-> 1, kd |-> 3, out |-> 10, int |-> 2]
MCHeadingError == {-3, 0, 3}
MCDistanceError == {-10, 10, 40}
MCDisplacement == {-4, 0, 4}

\* One bidder that forgets old bids and answers the same CFP again.
CONSTANTS
  Bidder, Utility, MaxUtility, IdSpace, SeqSpace, BidWindow, RetryInterval,
  BackoffCap, MaxRetries, AuctionAge, HistoryCap, MaxTasks, MaxBids, MaxOpen
VARIABLES next_task_id, auctions, deferred, bid_history, seq_no, cfps, bids,
          awards, gone, heard
Auction == INSTANCE TaskAuction WITH Agent <- Bidder

ASSUME AuctionAssumption ==
  Auction!NumbersAssumption /\ Auction!IdsAssumption /\ MaxBids < SeqSpace

VARIABLE part   \* the part that moves

deviceVars == <<driveVars, localizerVars, interlockVars>>
pureVars == <<packetVars, gridVars, formulaVars>>
radioVars == <<transportVars, telemetryVars, cfpVars>>
auctionVars == <<next_task_id, auctions, deferred, bid_history, seq_no, cfps, bids,
                 awards, gone, heard>>
taskVars == <<auctionVars, vars>>
partsVars == <<part, deviceVars, pureVars, radioVars, taskVars>>

Part == {"transport", "telemetry", "cfp", "packets", "drive", "localizer",
         "interlock", "grid", "formulas", "reservations", "auction"}

PartsInit ==
  /\ part \in Part
  /\ TransportInit /\ TelemetryInit /\ CfpInit /\ PacketsInit /\ DriveInit
  /\ LocalizerInit /\ InterlockInit /\ GridInit /\ FormulasInit /\ Init
  /\ Auction!Init
  /\ part = "localizer" \/ (x = Centre(0) /\ y = Centre(0))

Radio ==
  /\ \/ part = "transport" /\ TransportNext /\ UNCHANGED <<telemetryVars, cfpVars>>
     \/ part = "telemetry" /\ TelemetryNext /\ UNCHANGED <<transportVars, cfpVars>>
     \/ part = "cfp" /\ CfpNext /\ UNCHANGED <<transportVars, telemetryVars>>
  /\ UNCHANGED <<part, deviceVars, pureVars, taskVars>>
Device ==
  /\ \/ part = "drive" /\ DriveNext /\ UNCHANGED <<localizerVars, interlockVars>>
     \/ part = "localizer" /\ LocalizerNext /\ UNCHANGED <<driveVars, interlockVars>>
     \/ part = "interlock" /\ InterlockNext /\ UNCHANGED <<driveVars, localizerVars>>
  /\ UNCHANGED <<part, radioVars, pureVars, taskVars>>
Pure ==
  /\ \/ part = "packets" /\ PacketsNext /\ UNCHANGED <<gridVars, formulaVars>>
     \/ part = "grid" /\ GridNext /\ UNCHANGED <<packetVars, formulaVars>>
     \/ part = "formulas" /\ FormulasNext /\ UNCHANGED <<packetVars, gridVars>>
  /\ UNCHANGED <<part, radioVars, deviceVars, taskVars>>
Tasks ==
  /\ \/ part = "reservations" /\ Next /\ UNCHANGED auctionVars
     \/ part = "auction" /\ Auction!Next /\ UNCHANGED vars
  /\ UNCHANGED <<part, radioVars, deviceVars, pureVars>>

PartsNext == Radio \/ Device \/ Pure \/ Tasks

ListenAlone ==
  /\ part = "interlock" /\ Listen
  /\ UNCHANGED <<part, driveVars, localizerVars, radioVars, pureVars, taskVars>>

PartsSpec == PartsInit /\ [][PartsNext]_partsVars /\ WF_partsVars(ListenAlone)

-----------------------------------------------------------------------------
\* Every part keeps the types of its variables.
PartsTypeOK ==
  /\ part \in Part
  /\ TransportTypeOK /\ TelemetryTypeOK /\ CfpTypeOK /\ DriveTypeOK
  /\ LocalizerTypeOK /\ InterlockTypeOK /\ TypeOK /\ Auction!TypeOK

\* The helpers of the grid and the formulas agree with each other and with
\* what they are used for (GridExact, FormulasExact).
HelpersExact == GridExact /\ FormulasExact

\* A bidder remembers its most recent bids, so that the next copy of a CFP is
\* not answered again ("Keep only the most recent half").
RecentBidsKnown == Auction!RecentBidsKnown
=============================================================================
