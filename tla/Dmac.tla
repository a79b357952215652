-------------------------------- MODULE Dmac --------------------------------
(***************************************************************************)
(* A channel of the DMA controller (io/dmac.c, mem/dmax86.c), as operators *)
(* on a record that belongs to the device which uses the channel.  The     *)
(* device is one that accepts DMAEXT_START; addresses and the automatic    *)
(* reload, which the code does not have, are left out.                     *)
(***************************************************************************)
EXTENDS Integers

CONSTANT CountRange  \* 65536, the values of the count register

ASSUME CountAssumption == CountRange \in Nat \ {0}

\* work: the device has been started; working: dmax86 moves its bytes.
Channel == [masked : BOOLEAN, ready : BOOLEAN, work : BOOLEAN,
            working : BOOLEAN, leng : 0 .. CountRange - 1]

ChannelReset ==
  [masked |-> TRUE, ready |-> FALSE, work |-> FALSE, working |-> FALSE,
   leng |-> 0]

\* dmac_check: a channel starts when it is neither masked nor idle, and stops when
\* it is.  One whose count has run out is not started again before that.
Check(ch) ==
  LET on == ~ch.masked /\ ch.ready
  IN [ch EXCEPT !.work = on,
                !.working = on /\ (~ch.work \/ ch.working)]

SetReady(ch, enable) == Check([ch EXCEPT !.ready = enable])

\* dmac_o15, o1d and o1f.
SetMask(ch, masked) == Check([ch EXCEPT !.masked = masked])

\* dmac_o03, both bytes.
SetCount(ch, n) == [ch EXCEPT !.leng = n]

\* dmac_o1b masks the channel without dmac_check: it moves one byte more.
MasterClear(ch) == [ch EXCEPT !.masked = TRUE, !.leng = 0]

\* The byte to come is the last one: DMAEXT_END.
Terminal(ch) == ch.leng = 0

\* dmax86, but for the byte itself.
Step(ch) ==
  [ch EXCEPT !.working = @ /\ ~Terminal(ch),
             !.leng = (@ - 1) % CountRange]
=============================================================================
