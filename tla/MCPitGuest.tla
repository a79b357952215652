---------------------------- MODULE MCPitGuest ----------------------------
EXTENDS PitGuest

SmallFloor == [c \in 0 .. 2 |-> IF c = 1 THEN 1 ELSE 0]
=============================================================================
