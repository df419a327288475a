---------------------------- MODULE PositionHistory ----------------------------
(***************************************************************************)
(* The position stream with a history variable: how long each node has     *)
(* waited.                                                                 *)
(***************************************************************************)
EXTENDS PositionStream

VARIABLES
    waits   \* [Node -> Nat]: frames in a row, since the view or the settings last
            \* changed, that left the node behind

historyVars == <<vars, waits>>

(* The frame this step puts on its way, if any.                             *)
NewFrames == wire' \ wire

HistoryInit ==
    /\ Init
    /\ waits = [n \in Node |-> 0]

(* A change of the view or of the settings starts the count afresh.         *)
WaitsBefore == IF UNCHANGED <<visible, settings>> THEN waits ELSE [n \in Node |-> 0]

HistoryNext ==
    /\ Next
    /\ \/ /\ NewFrames = {}
          /\ waits' = WaitsBefore
       \/ \E f \in NewFrames :
             LET behind == Candidates(acked', cache', cached', settings') \ Carried(f)
             IN  waits' = [n \in Node |-> IF n \in behind THEN WaitsBefore[n] + 1 ELSE 0]

HistorySpec == HistoryInit /\ [][HistoryNext]_historyVars

-----------------------------------------------------------------------------

(* "Nodes that move a little cannot be starved forever by nodes that move   *)
(* a lot": each frame that leaves a node behind takes a fair share of nodes *)
(* that waited longer, and the first one also takes its movers, so while    *)
(* chunks are acknowledged in time the frames that pass a node over are     *)
(* bounded (the fair share of plan).                                        *)
NotStarved ==
    LET k == AtLeastOne(settings.chunk_nodes)
        fair == MinOf(k \div FairShareDivisor, k - 1)
    IN  \A n \in Node : waits[n] > 0 =>
            waits[n] * fair <= Cardinality(Node) - 1 - (k - fair)

===============================================================================
