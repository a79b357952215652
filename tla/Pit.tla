-------------------------------- MODULE Pit --------------------------------
(***************************************************************************)
(* io/pit.c, the uPD71054 interval timer: channel 0 is the system timer,   *)
(* channel 1 the beep, channel 2 the clock of the RS-232C.  A channel does *)
(* not count: its output is an event of the scheduler, and the count the   *)
(* guest reads is what remains of that event.  The scheduler is what       *)
(* module Timers promises, which NEvent implements.                        *)
(*                                                                         *)
(* Included is what pic.c does with the request of channel 0: a tick that  *)
(* comes while the line is masked is forgotten after a quarter of the      *)
(* period (NEVENT_PICMASK).                                                *)
(***************************************************************************)
EXTENDS Integers, FiniteSets

CONSTANTS
  Channels,  \* the channels there are, among 0, 1 and 2
  Writable,  \* the channels that the guest programs
  Readable,  \* the channels that the guest latches and reads
  Base,      \* the values a byte can take (256)
  Floor,     \* the largest count a channel takes for 65536
  Multiple,  \* pccore.multiple
  Mul,       \* rs232c.mul
  IdleMin,   \* the shortest wait of the idle beep (0x100000)
  Modes,     \* modes the guest programs, among 0 .. 7
  Access,    \* byte orders (RL) the guest programs
  Bytes,     \* bytes the guest writes to a count
  ReadBacks, \* what multiple latch commands ask for: sets of "S" and "C"
  Masking,   \* what the guest writes to the mask of the timer's line
  Costs      \* clocks an instruction takes

ASSUME PitAssumption ==
  /\ Channels \subseteq 0 .. 2 /\ 0 \in Channels
  /\ Writable \subseteq Channels /\ Readable \subseteq Channels
  /\ Base \in Nat \ {0, 1}
  /\ Floor \in [0 .. 2 -> Nat]
  /\ Multiple \in Nat \ {0}
  /\ Mul \in Nat \ {0}
  /\ IdleMin \in Nat
  /\ Modes \subseteq 0 .. 7
  /\ Access \subseteq {"L", "H", "ALL"}
  /\ Bytes \subseteq 0 .. Base - 1
  /\ ReadBacks \subseteq SUBSET {"S", "C"}
  /\ Masking \subseteq BOOLEAN
  /\ Costs \subseteq Nat \ {0}

Whole == Base * Base

\* The events NEVENT_ITIMER, NEVENT_BEEP, NEVENT_RS232C and NEVENT_PICMASK.
PicMask == 3
Events == Channels \cup {PicMask}

VARIABLES
  pit,      \* pit.ch
  irq,      \* bit 0 of pic.pi[0].irr, the request of the system timer
  masked,   \* bit 0 of pic.pi[0].imr
  low,      \* g_beep.low: the gate of the beep is open
  beepmode, \* g_beep.mode
  phase,    \* where the main loop is
  armed, pending, remain  \* the scheduler: see module Timers

line == <<irq, masked>>
beep == <<low, beepmode>>
timers == <<armed, pending, remain>>
vars == <<pit, line, beep, phase, timers>>

\* cpu: before an instruction; io: inside one; events: callbacks are run.
Phases == {"cpu", "io", "events"}

\* R, W: the high byte is read, written next; L: a latched word is half read;
\* S, C: status, count latched; I: the channel has an interrupt to give.
Flags == {"R", "W", "L", "S", "C", "I"}

\* A control word: byte order, mode, and PIT_STAT_CMD, no count written since.
Control == [rl : {"none", "L", "H", "ALL"}, mode : 0 .. 7, cmd : BOOLEAN]

Channel == [ctrl : Control, flag : SUBSET Flags, value : 0 .. Whole - 1,
            latch : 0 .. Whole - 1, stat : Control]

-----------------------------------------------------------------------------
(* Counts and clocks. *)

\* Modes 2 and 3, "(ctrl & 0x0c) == 0x04".
IsRate(p) == p.ctrl.mode \in {2, 3}

\* Modes 1 and 5, "(ctrl & 0x06) == 0x02".
IsTriggered(p) == p.ctrl.mode \in {1, 5}

\* setsystimerevent, setbeepevent and setrs232cevent.
Ticks(c, count) ==
  (IF count > Floor[c] THEN count ELSE Whole) * Multiple
    * (IF c = 2 THEN Mul ELSE 1)

\* setbeepeventex doubles the wait until it is long enough: what it reaches is
\* the longest of its doublings below two shortest waits, or the wait itself.
Doublings(n) ==
  {m \in n .. n + 2 * IdleMin :
     (m = n \/ m < 2 * IdleMin) /\ \E k \in 0 .. IdleMin : m = n * 2^k}

IdleTicks(count) ==
  LET n == Ticks(1, count)
  IN CHOOSE m \in Doublings(n) : \A o \in Doublings(n) : o <= m

Tick == INSTANCE Timers WITH ID <- Events, Delays <- Nat, Loose <- {}

\* nevent_getremain, rounded down to the counter's clock.
Left(c) ==
  IF c \in armed /\ remain[c] > 0 THEN (remain[c] \div Multiple) % Whole ELSE 0

\* getcount.  Channel 1 has no "break" when its event is not armed: it reads
\* the count of channel 2.
Count(c) ==
  LET p == pit[c]
      beepleft == remain[1] \div Multiple
  IN CASE c # 1 -> Left(c)
       [] c = 1 /\ p.ctrl.mode \in {2, 6} -> p.value
       [] c = 1 /\ p.ctrl.mode \in {3, 7} -> p.value - (p.value % 2)
       [] OTHER -> IF 1 \in armed /\ remain[1] >= 0
                     THEN IF p.value > 2 THEN beepleft % p.value
                                         ELSE beepleft % Whole
                     ELSE Left(2)

-----------------------------------------------------------------------------
(* The registers of a channel. *)

Toggle(S, f) == IF f \in S THEN S \ {f} ELSE S \cup {f}

Low(w) == w % Base
High(w) == w \div Base

\* pit_setflag, for a control word that is no latch command.
Programmed(p, rl, mode) ==
  [p EXCEPT !.ctrl = [rl |-> rl, mode |-> mode, cmd |-> TRUE],
            !.flag = @ \cap {"I"}]

\* latchcmd.
Latched(p, what, count) ==
  LET status == IF "S" \in what
                  THEN [p EXCEPT !.flag = @ \cup {"S"}, !.stat = p.ctrl] ELSE p
  IN IF "C" \in what
       THEN [status EXCEPT !.flag = (@ \cup {"C"}) \ {"L"}, !.latch = count]
       ELSE status

FirstOfTwo(p) == p.ctrl.rl = "ALL" /\ "W" \notin p.flag

\* pit_setcount.
CountWritten(p, b) ==
  CASE p.ctrl.rl = "L" -> [p EXCEPT !.value = b, !.ctrl.cmd = FALSE]
    [] p.ctrl.rl = "H" -> [p EXCEPT !.value = b * Base, !.ctrl.cmd = FALSE]
    [] FirstOfTwo(p) -> [p EXCEPT !.value = High(@) * Base + b,
                                  !.flag = @ \cup {"W"}]
    [] p.ctrl.rl = "ALL" /\ ~FirstOfTwo(p) ->
         [p EXCEPT !.value = b * Base + Low(@), !.flag = @ \ {"W"},
                   !.ctrl.cmd = FALSE]
    [] OTHER -> [p EXCEPT !.ctrl.cmd = FALSE]

\* pit_setcount returns FALSE: the channel starts with its count.
Starts(p) == ~FirstOfTwo(p) /\ ~(IsTriggered(p) /\ "I" \in p.flag)

FromLatch(p) == p.flag \cap {"C", "L"} # {}

\* Mutant of Read: the toggle of the latch is lost.
ReadOnce(p) ==
  IF "S" \in p.flag THEN [p EXCEPT !.flag = @ \ {"S"}]
  ELSE LET rest == p.flag \ {"C", "L"}
       IN [p EXCEPT !.flag =
             IF p.ctrl.rl \in {"ALL", "none"} THEN Toggle(rest, "R") ELSE rest]

\* pit_getstat: the channel after a read of its port.
Read(p) ==
  IF "S" \in p.flag THEN [p EXCEPT !.flag = @ \ {"S"}]
  ELSE LET rest == IF FromLatch(p) /\ p.ctrl.rl = "ALL"
                     THEN Toggle(p.flag \ {"C"}, "L") ELSE p.flag \ {"C"}
       IN [p EXCEPT !.flag =
             IF p.ctrl.rl \in {"ALL", "none"} THEN Toggle(rest, "R") ELSE rest]

\* pit_getstat: the byte of a count that it returns.
ByteRead(c) ==
  LET p == pit[c]
      word == IF FromLatch(p) THEN p.latch ELSE Count(c)
  IN IF p.ctrl.rl = "H" \/ (p.ctrl.rl # "L" /\ "R" \in p.flag)
       THEN High(word) ELSE Low(word)

-----------------------------------------------------------------------------
(* Initial state and the main loop. *)

ResetChannel(c) ==
  [ctrl |-> CASE c = 0 -> [rl |-> "L", mode |-> 3, cmd |-> FALSE]
              [] c = 1 -> [rl |-> "none", mode |-> 0, cmd |-> FALSE]
              [] c = 2 -> [rl |-> "ALL", mode |-> 3, cmd |-> FALSE],
   flag |-> IF c = 0 THEN {"I"} ELSE {},
   value |-> IF c = 1 THEN Whole - 1 ELSE 0,
   latch |-> 0,
   stat |-> [rl |-> "none", mode |-> 0, cmd |-> FALSE]]

ResetChannels == [c \in Channels |-> ResetChannel(c)]

\* Only the event of the system timer is armed.
ResetWaits == [e \in Events |-> IF e = 0 THEN Ticks(0, 0) ELSE 0]

\* itimer_reset, after pic_reset and before beep_reset.
Init ==
  /\ pit = ResetChannels
  /\ irq = FALSE /\ masked = TRUE
  /\ low = 0 /\ beepmode = 1
  /\ phase = "cpu"
  /\ armed = {0} /\ pending = {} /\ remain = ResetWaits

\* pccore_reset, between two frames.
MachineReset ==
  /\ phase = "cpu"
  /\ pit' = ResetChannels
  /\ irq' = FALSE /\ masked' = TRUE
  /\ low' = 0 /\ beepmode' = 1
  /\ armed' = {0} /\ pending' = {} /\ remain' = ResetWaits
  /\ UNCHANGED phase

\* An instruction takes its clocks, then accesses a port (phase io).
Instruction(n) ==
  /\ phase = "cpu" /\ pending = {}
  /\ \A e \in armed : remain[e] > 0
  /\ remain' = [e \in Events |-> IF e \in armed THEN remain[e] - n ELSE remain[e]]
  /\ phase' = "io"
  /\ UNCHANGED <<pit, line, beep, armed, pending>>

EndInstruction ==
  /\ phase = "io"
  /\ phase' = "cpu"
  /\ UNCHANGED <<pit, line, beep, timers>>

\* nevent_progress takes the earliest events off the queue.
Progress ==
  /\ phase = "cpu"
  /\ LET due == {e \in armed : remain[e] <= 0
                                 /\ \A f \in armed : remain[e] <= remain[f]}
     IN due # {} /\ Tick!Expire(due)
  /\ phase' = "events"
  /\ UNCHANGED <<pit, line, beep>>

EndEvents ==
  /\ phase = "events" /\ pending = {}
  /\ phase' = "cpu"
  /\ UNCHANGED <<pit, line, beep, timers>>

-----------------------------------------------------------------------------
(* The callbacks. *)

Fires(e) == phase = "events" /\ e \in pending

\* Mutant of Systimer: a rate generator is not told of its next interrupt.
SystimerOnce ==
  /\ Fires(0)
  /\ pit' = [pit EXCEPT ![0].flag = @ \ {"I"}]
  /\ irq' = (irq \/ "I" \in pit[0].flag)
  /\ Tick!Rearm(0, Ticks(0, IF IsRate(pit[0]) THEN pit[0].value ELSE 0))
  /\ UNCHANGED <<masked, beep, phase>>

\* systimer, with pic_setirq(0).
Systimer ==
  /\ Fires(0)
  /\ LET p == pit[0]
         forgotten == {e \in {PicMask} :
                         "I" \in p.flag /\ masked /\ IsRate(p)}
     IN /\ pit' = [pit EXCEPT ![0].flag =
                     IF IsRate(p) THEN @ \cup {"I"} ELSE @ \ {"I"}]
        /\ irq' = (irq \/ "I" \in p.flag)
        /\ armed' = armed \cup {0} \cup forgotten
        /\ pending' = pending \ ({0} \cup forgotten)
        /\ remain' = [remain EXCEPT
             ![0] = @ + Ticks(0, IF IsRate(p) THEN p.value ELSE 0),
             ![PicMask] = IF forgotten = {} THEN @ ELSE Ticks(0, p.value) \div 4]
  /\ UNCHANGED <<masked, beep, phase>>

\* Mutant of PicMaskCallback: the request goes although the line is unmasked.
PicMaskAlways ==
  /\ Fires(PicMask)
  /\ irq' = FALSE
  /\ Tick!Return(PicMask)
  /\ UNCHANGED <<pit, masked, beep, phase>>

\* picmask.
PicMaskCallback ==
  /\ Fires(PicMask)
  /\ irq' = (irq /\ ~masked)
  /\ Tick!Return(PicMask)
  /\ UNCHANGED <<pit, masked, beep, phase>>

\* beeponeshot.
BeepOneShot ==
  /\ Fires(1)
  /\ low' = IF pit[1].ctrl.mode \in {0, 1} THEN 0 ELSE low
  /\ IF IsTriggered(pit[1])
       THEN Tick!Rearm(1, IdleTicks(pit[1].value))
       ELSE Tick!Return(1)
  /\ UNCHANGED <<pit, line, beepmode, phase>>

\* Mutant of Rs232cTimer: only a rate generator goes on.
Rs232cTimerOnce ==
  /\ Fires(2)
  /\ IF IsRate(pit[2]) THEN Tick!Rearm(2, Ticks(2, pit[2].value)) ELSE Tick!Return(2)
  /\ UNCHANGED <<pit, line, beep, phase>>

\* rs232ctimer, without rs232c_callback, which it calls when I is set.
Rs232cTimer ==
  /\ Fires(2)
  /\ Tick!Rearm(2, Ticks(2, IF IsRate(pit[2]) THEN pit[2].value ELSE 0))
  /\ UNCHANGED <<pit, line, beep, phase>>

-----------------------------------------------------------------------------
(* The ports. *)

\* Mutant of Start: an old request stays.
StartKeepsIrq(c, p) ==
  /\ pit' = [pit EXCEPT ![c] = IF c = 1 THEN p ELSE [p EXCEPT !.flag = @ \cup {"I"}]]
  /\ low' = IF c = 1 THEN 1 ELSE low
  /\ Tick!Arm(c, Ticks(c, p.value))
  /\ UNCHANGED irq

\* Mutant of Start: a channel under way takes the count at its next reload.
StartAtReload(c, p) ==
  /\ pit' = [pit EXCEPT ![c] = IF c = 1 THEN p ELSE [p EXCEPT !.flag = @ \cup {"I"}]]
  /\ irq' = (irq /\ c # 0)
  /\ low' = IF c = 1 THEN 1 ELSE low
  /\ IF c \in armed THEN UNCHANGED timers ELSE Tick!Arm(c, Ticks(c, p.value))

\* Mutant of Start: no event ends the beep.
StartEndless(c, p) ==
  /\ pit' = [pit EXCEPT ![c] = IF c = 1 THEN p ELSE [p EXCEPT !.flag = @ \cup {"I"}]]
  /\ irq' = (irq /\ c # 0)
  /\ low' = IF c = 1 THEN 1 ELSE low
  /\ IF c = 1 THEN UNCHANGED timers ELSE Tick!Arm(c, Ticks(c, p.value))

\* What pit_o71, pit_o73 and pit_o75 do with a count that is complete.
Start(c, p) ==
  /\ pit' = [pit EXCEPT ![c] = IF c = 1 THEN p ELSE [p EXCEPT !.flag = @ \cup {"I"}]]
  /\ irq' = (irq /\ c # 0)
  /\ low' = IF c = 1 THEN 1 ELSE low
  /\ Tick!Arm(c, Ticks(c, p.value))

\* pit_o71, pit_o73, pit_o75: a byte of a count.
OutCount(c, b) ==
  LET p == CountWritten(pit[c], b)
  IN /\ phase = "io" /\ phase' = "cpu"
     /\ IF Starts(pit[c])
          THEN Start(c, p)
          ELSE pit' = [pit EXCEPT ![c] = p] /\ UNCHANGED <<irq, low, timers>>
     /\ UNCHANGED <<masked, beepmode>>

\* Mutant of BeepModeSet: the mode is not shifted.
BeepModeUnshifted(c, mode) ==
  IF c = 1 THEN /\ beepmode' = mode
                /\ low' = IF beepmode = mode THEN low ELSE 0
           ELSE UNCHANGED beep

\* beep_modeset: another mode closes the gate.
BeepModeSet(c, mode) ==
  IF c = 1 THEN /\ beepmode' = mode \div 2
                /\ low' = IF beepmode = mode \div 2 THEN low ELSE 0
           ELSE UNCHANGED beep

\* pit_o77 with a byte order.  The event that is under way goes on.
OutControl(c, rl, mode) ==
  LET p == Programmed(pit[c], rl, mode)
  IN /\ phase = "io" /\ phase' = "cpu"
     /\ pit' = [pit EXCEPT ![c] =
                  IF c = 0 THEN [p EXCEPT !.flag = @ \cup {"I"}] ELSE p]
     /\ irq' = (irq /\ c # 0)
     /\ BeepModeSet(c, mode)
     /\ UNCHANGED <<masked, timers>>

\* pit_o77 without a byte order latches the count.  It takes back the request
\* of the system timer too.
OutLatch(c) ==
  /\ phase = "io" /\ phase' = "cpu"
  /\ pit' = [pit EXCEPT ![c] = Latched(@, {"C"}, Count(c))]
  /\ irq' = (irq /\ c # 0)
  /\ BeepModeSet(c, pit[c].ctrl.mode)
  /\ UNCHANGED <<masked, timers>>

\* pit_o77, the multiple latch command of the uPD71054.
OutReadBack(which, what) ==
  /\ phase = "io" /\ phase' = "cpu"
  /\ pit' = [c \in Channels |->
               IF c \in which THEN Latched(pit[c], what, Count(c)) ELSE pit[c]]
  /\ UNCHANGED <<line, beep, timers>>

\* pit_i71.
InCount(c) ==
  /\ phase = "io" /\ phase' = "cpu"
  /\ pit' = [pit EXCEPT ![c] = Read(@)]
  /\ UNCHANGED <<line, beep, timers>>

\* pic_irq delivers the interrupt of the timer and resets NEVENT_PICMASK.
PicIrq ==
  /\ phase = "cpu" /\ irq /\ ~masked
  /\ irq' = FALSE
  /\ Tick!Disarm(PicMask)
  /\ UNCHANGED <<pit, masked, beep, phase>>

\* pic_o02, as far as the line of the timer is concerned.
OutMask(mask) ==
  /\ phase = "io" /\ phase' = "cpu"
  /\ masked' = mask
  /\ UNCHANGED <<pit, irq, beep, timers>>

-----------------------------------------------------------------------------

Callbacks == Systimer \/ PicMaskCallback \/ BeepOneShot \/ Rs232cTimer

System ==
  \/ \E n \in Costs : Instruction(n)
  \/ EndInstruction \/ Progress \/ EndEvents
  \/ Callbacks

GuestPrograms ==
  \E c \in Writable :
    \/ \E b \in Bytes : OutCount(c, b)
    \/ \E rl \in Access, mode \in Modes : OutControl(c, rl, mode)

GuestLatches ==
  \/ \E c \in Readable : OutLatch(c)
  \/ \E which \in (SUBSET Readable) \ {{}}, what \in ReadBacks :
       OutReadBack(which, what)

GuestReads == \E c \in Readable : InCount(c)

Next ==
  System \/ GuestPrograms \/ GuestLatches \/ GuestReads \/ PicIrq \/ MachineReset
  \/ \E mask \in Masking : OutMask(mask)

Spec == Init /\ [][Next]_vars

-----------------------------------------------------------------------------
(* Properties. *)

\* The type of the state.
TypeOK ==
  /\ pit \in [Channels -> Channel]
  /\ irq \in BOOLEAN /\ masked \in BOOLEAN
  /\ low \in {0, 1} /\ beepmode \in 0 .. 3
  /\ phase \in Phases
  /\ armed \subseteq Events /\ pending \subseteq Events
  /\ remain \in [Events -> Int]

\* The system timer never dies, whatever the guest writes in whatever order: its
\* event is armed or its callback owed (that of the RS-232C likewise once it was
\* started), and as a rate generator it has its interrupt to give each time.
TimerNeverStops ==
  /\ 0 \in armed \cup pending
  /\ 2 \in Channels /\ "I" \in pit[2].flag => 2 \in armed \cup pending
  /\ IsRate(pit[0]) => "I" \in pit[0].flag

\* A channel with a whole count: no byte of it is missing.
HasCount(c) == ~pit[c].ctrl.cmd /\ "W" \notin pit[c].flag

\* systimer and rs232ctimer may re-arm a rate generator with a count of which the
\* guest has written the first byte only, but the second byte always puts it
\* right: with a whole count, the wait is never longer than the period.
WaitWithinPeriod ==
  \A c \in {0, 2} \cap armed :
    IsRate(pit[c]) /\ HasCount(c) => remain[c] <= Ticks(c, pit[c].value)

\* A beep of mode 0 ends: while the gate is open, an event is under way that
\* closes it.  (After a reset channel 1 is in mode 0 by mistake, but beep_reset
\* closes the gate.)
BeepHasAnEnd ==
  1 \in Channels /\ low = 1 /\ pit[1].ctrl.mode \in {0, 1} =>
    1 \in armed \cup pending

\* picmask forgets a tick that came while the timer was masked, but never one
\* that the guest has unmasked meanwhile: an unmasked request goes when it is
\* delivered or when the guest programs, latches or resets.
UnmaskedTickKept ==
  [][ irq /\ ~masked /\ ~irq' => phase \in {"cpu", "io"} ]_vars

TimerIsTouched ==
  \/ \E b \in Bytes : OutCount(0, b)
  \/ \E rl \in Access, mode \in Modes : OutControl(0, rl, mode)
  \/ OutLatch(0)
  \/ MachineReset

\* A rate generator that the guest leaves alone keeps asking for interrupts,
\* masked or not and whatever happens on the other channels.
TicksKeepComing ==
  <>[][~TimerIsTouched]_vars /\ []<>IsRate(pit[0]) => []<>irq
=============================================================================
