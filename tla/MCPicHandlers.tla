--------------------------- MODULE MCPicHandlers ---------------------------
EXTENDS PicHandlers

\* The timer on the master and two cards on the slave; one line is masked now
\* and then.
CardsGuest ==
  {[inputs |-> {<<Master, 0>>, <<Slave, 0>>, <<Slave, 1>>}, withdrawn |-> {},
    masks |-> {{}, {1}}, levels |-> {}, smm |-> {}, icw4 |-> {},
    port64 |-> FALSE]}

NoneMasked == [c \in Chip |-> {}]
=============================================================================
