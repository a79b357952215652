------------------------------ MODULE MCRs232c ------------------------------
EXTENDS Rs232c

Open == {"tx", "rx"}

Quiet == [sends |-> 0, receives |-> 0, switches |-> FALSE, enables |-> {},
          bits |-> {}, commands |-> {}, polls |-> FALSE, resets |-> FALSE,
          boot |-> Open]

\* A guest that is slow to read, closes the receiver and opens it again.
Receiver == [Quiet EXCEPT !.receives = LastByte, !.commands = {Open, {"tx"}},
                          !.enables = {{"rxready", "txready"}, {"txready"}},
                          !.polls = TRUE]

\* Both directions, with either interrupt of the transmitter.
Both == [Quiet EXCEPT !.sends = 3, !.receives = 3,
                      !.enables = {{"rxready"}, {"rxready", "txready"},
                                   {"rxready", "txempty"}}]

\* The same, bit by bit, in a build that starts with the line closed.
BitByBit == [Quiet EXCEPT !.sends = 2, !.receives = 1, !.bits = Enables,
                         !.commands = {Open}, !.boot = {}]

\* The FIFO mode, entered and left.
Fifo == [Quiet EXCEPT !.sends = LastByte, !.receives = 1, !.switches = TRUE,
                      !.enables = {{"rxready", "txready"}}]

FifoReceiver == [Fifo EXCEPT !.sends = 1, !.receives = LastByte]

\* A reset of the machine with bytes on their way.
Resets == [Quiet EXCEPT !.sends = 4, !.receives = 2, !.switches = TRUE,
                        !.polls = TRUE, !.resets = TRUE]

Senders == {BitByBit}

Lines == {Receiver, Both, BitByBit, Fifo, FifoReceiver, Resets}
=============================================================================
