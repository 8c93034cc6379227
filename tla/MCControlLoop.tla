---------------------------- MODULE MCControlLoop ----------------------------
(* A corridor of three cells with the charger at one end.                   *)
EXTENDS ControlLoop

CONSTANTS t1, t2

MCNeighbors == [c \in Cell |-> {d \in Cell : d = c + 1 \/ c = d + 1}]
MCTaskGoal == [t \in Task |-> IF t = t1 THEN 3 ELSE 2]

=============================================================================
