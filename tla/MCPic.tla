------------------------------- MODULE MCPic -------------------------------
EXTENDS Pic

Quiet == [inputs |-> {<<Master, 0>>, <<Slave, 0>>}, withdrawn |-> {},
          masks |-> {{}}, levels |-> {}, smm |-> {}, icw4 |-> {}, port64 |-> FALSE]

\* A guest that masks, rotates, names levels and uses the special mask mode, with
\* the timer on the master and two cards on the slave.
NestingGuest ==
  [Quiet EXCEPT !.inputs = {<<Master, 0>>, <<Slave, 0>>, <<Slave, 1>>},
                !.masks = {{}, {0, 2}}, !.levels = {1}, !.smm = {TRUE, FALSE}]

\* A guest that initialises the master and waits for V-sync, with the timer and a
\* card that takes its request back.
RequestsGuest ==
  [Quiet EXCEPT !.withdrawn = {<<Slave, 0>>}, !.masks = {{}, {0, 1}},
                !.icw4 = {<<Master, TRUE>>, <<Master, FALSE>>}, !.port64 = TRUE]

BothGuests == {NestingGuest, RequestsGuest}

\* A guest that masks and unmasks the cascade.
CascadeGuest == {[Quiet EXCEPT !.masks = {{}, {2}}]}

AllMasked == [c \in Chip |-> Lines]
=============================================================================
