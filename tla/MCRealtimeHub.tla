--------------------------- MODULE MCRealtimeHub ---------------------------
(* Small instances of RealtimeHub: c1 belongs to account a1, any other      *)
(* connection to a2.                                                        *)
EXTENDS RealtimeHub

CONSTANTS a1, a2, c1, c2

MCAccountOf == [c \in Conns |-> IF c = c1 THEN a1 ELSE a2]
=============================================================================
