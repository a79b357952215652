------------------------------- MODULE MCFdc -------------------------------
EXTENDS Fdc

T(op, us, hd, r, eot, mt) ==
  [op |-> op, us |-> us, hd |-> hd, c |-> 0, r |-> r, eot |-> eot, mt |-> mt]

Nobody == [ext |-> FALSE, vm86 |-> FALSE, transfers |-> {}, counts |-> {}, media |-> {"writable"},
           changed |-> {}, units |-> {}, tracks |-> {}, ports |-> {}]

\* All the transfers of a track, with counts on both sides of a sector's end, from
\* disks of both kinds.
Transfers ==
  [Nobody EXCEPT !.transfers = {t \in Transfer : t.us = 0 /\ t.c = 0},
                 !.counts = {0, 1, 2, 5, 15}, !.media = Media]

\* Seeks of both drives, begun again, while one of them is read.
Seeks ==
  [Nobody EXCEPT !.transfers = {T("read", 0, 0, 1, 1, FALSE)}, !.counts = {15},
                 !.units = {0, 1}, !.ports = {"seek", "sense"}]

\* A disk of either drive is changed while one is read or written.
Swaps ==
  [Nobody EXCEPT !.transfers = {T("read", 0, 0, 1, 2, FALSE),
                                T("write", 0, 0, 1, 2, FALSE)},
                 !.counts = {3}, !.changed = {0, 1}]

\* The same while int 1Bh is used, with the drives of a newer machine.
Bios ==
  [Nobody EXCEPT !.changed = {1}, !.units = {0, 1}, !.tracks = {0},
                 !.ports = {"bios", "motor"}, !.ext = TRUE]

\* int 1Bh gives up and is called again, among seeks by the ports.
Vm86 ==
  [Nobody EXCEPT !.units = {0, 1}, !.tracks = {0}, !.ports = {"bios", "seek"},
                 !.vm86 = TRUE]

\* READ ID and seeks, then a transfer.
Ids ==
  [Nobody EXCEPT !.transfers = {T("read", 0, 0, 1, 1, FALSE)}, !.counts = {1},
                 !.units = {0}, !.tracks = {0, 1}, !.ports = {"id", "seek"}]

\* A guest that resets the controller and the DMA controller at any time.
Resets ==
  [Nobody EXCEPT !.transfers = {T("read", 0, 0, 1, 2, FALSE)}, !.counts = {2},
                 !.ports = {"reset", "dmae", "motor", "clear"}]

Guests == {Transfers, Seeks, Swaps, Bios, Vm86, Ids, Resets}
=============================================================================
