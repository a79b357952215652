------------------------------- MODULE MCPit -------------------------------
EXTENDS Pit

\* The floors of the code are 8, 2 and 1; the counts here are smaller.
SmallFloor == [c \in 0 .. 2 |-> IF c = 1 THEN 1 ELSE 0]
=============================================================================
