-------------------------------- MODULE Pic --------------------------------
(***************************************************************************)
(* io/pic.c, the two cascaded 8259A interrupt controllers, with what they  *)
(* share with the rest of the machine: the interrupt flag of the CPU, the  *)
(* head of the main loop, where pic_irq runs, the NEVENT_PICMASK event and *)
(* the V-sync interrupt that gdc.vsyncint asks for (pccore.c, io/gdc.c).   *)
(*                                                                         *)
(* The bit masks imr, isr and irr of pic.pi[chip] are sets of lines.  The  *)
(* input of the master that the slave drives (icw[2]) is Cascade; guests   *)
(* that reprogram the cascade or the vectors are not modelled.             *)
(***************************************************************************)
EXTENDS Integers, FiniteSets

CONSTANTS
  Top,        \* the highest line of a chip (7)
  Cascade,    \* the line of the master that the slave drives (7)
  Timer,      \* the line of the system timer (0)
  Crtv,       \* the line of the V-sync interrupt (2)
  DefaultImr, \* imr of the two chips after pic_reset
  Guests      \* what a guest and its devices may do, see Repertoire

Chip == {0, 1}
Master == 0
Slave == 1
Lines == 0 .. Top

\* inputs: lines with a device, as pairs <<chip, line>>; withdrawn: those that a
\* device passes to pic_resetirq; masks: values of OCW1; levels: levels named in
\* an OCW2 with SL; smm: values of the SMM bit of OCW3; icw4: the chips that get
\* an ICW1, and whether it announces an ICW4; port64: writes to port 64h.
Repertoire ==
  [inputs : SUBSET ((Chip \X Lines) \ {<<Master, Cascade>>, <<Master, Crtv>>}),
   withdrawn : SUBSET ((Chip \X Lines) \ {<<Master, Crtv>>}),
   masks : SUBSET SUBSET Lines,
   levels : SUBSET Lines,
   smm : SUBSET BOOLEAN,
   icw4 : SUBSET (Chip \X BOOLEAN),
   port64 : BOOLEAN]

ASSUME LinesAssumption ==
  /\ Top \in Nat
  /\ {Cascade, Timer, Crtv} \subseteq Lines
  /\ Timer # Cascade /\ Crtv # Cascade /\ Timer # Crtv
  /\ DefaultImr \in [Chip -> SUBSET Lines]
  /\ Guests \subseteq Repertoire

VARIABLES
  imr, isr, irr,  \* mask, in-service and request registers of the chips
  pry,            \* the line of highest priority
  smm,            \* ocw3 has PIC_OCW3_SMM
  writeicw,       \* the ICW that the next write to the data port is, or 0
  ic4,            \* bit 0 of icw[0]
  maskevent,      \* NEVENT_PICMASK is armed
  vsyncint,       \* gdc.vsyncint: the guest waits for a V-sync interrupt
  vsync,          \* gdc.vsync: between screenvsync and screendisp
  ei,             \* CPU_isEI
  guest,          \* the repertoire of this guest; never changes
  phase           \* where the main loop is

ocw == <<pry, smm, writeicw, ic4>>
pic == <<imr, isr, irr, ocw, maskevent>>
vars == <<pic, vsyncint, vsync, ei, phase>>

\* head: at pic_irq; cpu: in CPU_EXEC; shadow: in the instruction after STI,
\* which ends the slice; events: in nevent_progress or between two frames.
Phases == {"head", "cpu", "shadow", "events"}

-----------------------------------------------------------------------------
(* Priorities: the lines from p up, then those from 0. *)

Succ(n) == IF n = Top THEN 0 ELSE n + 1

Distance(p, n) == IF n >= p THEN n - p ELSE n - p + Top + 1

\* The loop "while (!(dat & bit)) num = (num + 1) & 7" that starts from p.
First(p, S) ==
  CHOOSE n \in S : \A m \in S : Distance(p, n) <= Distance(p, m)

\* Lines of a chip that hold back the lines below them.
Blocking(chip) == IF smm[chip] THEN {} ELSE isr[chip]

Requests(chip) == irr[chip] \ imr[chip]

\* Mutant of MasterRequests: the mask of the master spares the cascade.
MasterRequestsPastMask ==
  Requests(Master) \cup (IF Requests(Slave) = {} THEN {} ELSE {Cascade})

MasterRequests ==
  (irr[Master] \cup (IF Requests(Slave) = {} THEN {} ELSE {Cascade}))
    \ imr[Master]

\* Mutant of Winner: the lines in service do not take part.
WinnerAmongRequests(chip, S) == First(pry[chip], S)

Winner(chip, S) == First(pry[chip], S \cup Blocking(chip))

\* The interrupt that pic_irq would deliver were interrupts enabled: a set with
\* at most one pair <<chip, line>>.
Deliverable ==
  IF MasterRequests = {} THEN {}
  ELSE LET m == Winner(Master, MasterRequests)
       IN IF m # Cascade
            THEN {<<Master, m>>} \ {<<Master, n>> : n \in isr[Master]}
            ELSE IF Requests(Slave) = {} THEN {}
                 ELSE {<<Slave, Winner(Slave, Requests(Slave))>>}
                        \ {<<Slave, n>> : n \in isr[Slave]}

-----------------------------------------------------------------------------
(* The registers change. *)

\* Mutant of InService: every request of the chip is acknowledged.
InServiceClears(chip, line) ==
  LET entered == {<<chip, line>>}
                   \cup (IF chip = Slave THEN {<<Master, Cascade>>} ELSE {})
  IN /\ isr' = [c \in Chip |-> isr[c] \cup {n \in Lines : <<c, n>> \in entered}]
     /\ irr' = [irr EXCEPT ![chip] = {}]
     /\ maskevent' = (maskevent /\ <<chip, line>> # <<Master, Timer>>)

\* The line enters service: isr |= bit, irr &= ~bit.
InService(chip, line) ==
  LET entered == {<<chip, line>>}
                   \cup (IF chip = Slave THEN {<<Master, Cascade>>} ELSE {})
  IN /\ isr' = [c \in Chip |-> isr[c] \cup {n \in Lines : <<c, n>> \in entered}]
     /\ irr' = [c \in Chip |-> irr[c] \ {n \in Lines : <<c, n>> \in entered}]
     /\ maskevent' = (maskevent /\ <<chip, line>> # <<Master, Timer>>)

\* pic_setirq, without the event and gdc.vsyncint.
Raised(chip, line) ==
  /\ irr' = [irr EXCEPT ![chip] =
               IF <<chip, line>> = <<Master, Crtv>> /\ line \in isr[chip]
                 THEN @ \ {line}
                 ELSE @ \cup {line}]
  /\ UNCHANGED <<imr, isr, ocw>>

\* The level an OCW2 names or, without SL, the one of highest priority in
\* service (a set, empty when there is none).
Ocw2Level(chip, level) ==
  IF level # {} THEN level
  ELSE IF isr[chip] = {} THEN {} ELSE {First(pry[chip], isr[chip])}

\* The lines in service after an end of interrupt.
EndOfInterrupt(chip, level) == isr[chip] \ Ocw2Level(chip, level)

\* Mutant of Rotated: the level stays the highest.
RotatedToSelf(chip, level) ==
  IF Ocw2Level(chip, level) = {} THEN pry[chip]
  ELSE CHOOSE n \in Ocw2Level(chip, level) : TRUE

\* The priority after a rotation, which makes the level the lowest.
Rotated(chip, level) ==
  IF Ocw2Level(chip, level) = {} THEN pry[chip]
  ELSE Succ(CHOOSE n \in Ocw2Level(chip, level) : TRUE)

-----------------------------------------------------------------------------
(* The main loop. *)

Init ==
  /\ imr = DefaultImr
  /\ isr = [c \in Chip |-> {}] /\ irr = [c \in Chip |-> {}]
  /\ pry = [c \in Chip |-> 0] /\ smm = [c \in Chip |-> FALSE]
  /\ writeicw = [c \in Chip |-> 0] /\ ic4 = [c \in Chip |-> TRUE]
  /\ maskevent = FALSE
  /\ vsyncint = FALSE /\ vsync = FALSE
  /\ ei = FALSE
  /\ guest \in Guests
  /\ phase = "head"

\* pccore_reset: pic_reset, gdc_reset, nevent_allreset and CPU_RESET.
MachineReset ==
  /\ phase = "events"
  /\ imr' = DefaultImr
  /\ isr' = [c \in Chip |-> {}] /\ irr' = [c \in Chip |-> {}]
  /\ pry' = [c \in Chip |-> 0] /\ smm' = [c \in Chip |-> FALSE]
  /\ writeicw' = [c \in Chip |-> 0] /\ ic4' = [c \in Chip |-> TRUE]
  /\ maskevent' = FALSE
  /\ vsyncint' = FALSE /\ vsync' = FALSE
  /\ ei' = FALSE
  /\ phase' = "head"

\* pic_irq; CPU_INTERRUPT clears the interrupt flag.
PicIrq ==
  /\ phase = "head"
  /\ IF ei /\ Deliverable # {}
       THEN /\ \E d \in Deliverable : InService(d[1], d[2])
            /\ ei' = FALSE
       ELSE UNCHANGED <<isr, irr, maskevent, ei>>
  /\ phase' = "cpu"
  /\ UNCHANGED <<imr, ocw, vsyncint, vsync>>

\* The slice is used up.
SliceEnds ==
  /\ phase \in {"cpu", "shadow"}
  /\ phase' = "events"
  /\ UNCHANGED <<pic, vsyncint, vsync, ei>>

\* nevent_progress returns.
LoopAgain ==
  /\ phase = "events"
  /\ phase' = "head"
  /\ UNCHANGED <<pic, vsyncint, vsync, ei>>

-----------------------------------------------------------------------------
(* The devices, in an I/O handler or in the callback of an event. *)

DeviceRuns == phase \in {"cpu", "shadow", "events"}

\* pic_setirq.  A masked request of the system timer arms NEVENT_PICMASK when
\* the timer is in mode 2 or 6.
SetIrq(chip, line, mode2) ==
  /\ DeviceRuns
  /\ Raised(chip, line)
  /\ maskevent' = \/ maskevent
                  \/ /\ <<chip, line>> = <<Master, Timer>>
                     /\ line \in imr[chip] /\ mode2
  /\ UNCHANGED <<vsyncint, vsync, ei, phase>>

ResetIrq(chip, line) ==
  /\ DeviceRuns
  /\ irr' = [irr EXCEPT ![chip] = @ \ {line}]
  /\ UNCHANGED <<imr, isr, ocw, maskevent, vsyncint, vsync, ei, phase>>

\* The callback picmask.
PicMask ==
  /\ phase = "events" /\ maskevent
  /\ irr' = [irr EXCEPT ![Master] = @ \ (imr[Master] \cap {Timer})]
  /\ maskevent' = FALSE
  /\ UNCHANGED <<imr, isr, ocw, vsyncint, vsync, ei, phase>>

\* Mutant of ScreenVsync: the guest's wish is dropped when a handler runs.
ScreenVsyncForgets ==
  /\ phase = "events" /\ ~vsync
  /\ vsync' = TRUE
  /\ vsyncint' = FALSE
  /\ IF vsyncint THEN Raised(Master, Crtv) ELSE UNCHANGED <<imr, isr, irr, ocw>>
  /\ UNCHANGED <<maskevent, ei, phase>>

\* The callback screenvsync, when the retrace begins.
ScreenVsync ==
  /\ phase = "events" /\ ~vsync
  /\ vsync' = TRUE
  /\ vsyncint' = (vsyncint /\ Crtv \in isr[Master])
  /\ IF vsyncint THEN Raised(Master, Crtv) ELSE UNCHANGED <<imr, isr, irr, ocw>>
  /\ UNCHANGED <<maskevent, ei, phase>>

\* Mutant of ScreenDisp: a request that was not served stays.
ScreenDispKeeps ==
  /\ phase = "events" /\ vsync
  /\ vsync' = FALSE
  /\ UNCHANGED <<pic, vsyncint, ei, phase>>

\* The callback screendisp takes back a request that was not served in time.
ScreenDisp ==
  /\ phase = "events" /\ vsync
  /\ vsync' = FALSE
  /\ vsyncint' = (vsyncint \/ Crtv \in irr[Master])
  /\ irr' = [irr EXCEPT ![Master] = @ \ {Crtv}]
  /\ UNCHANGED <<imr, isr, ocw, maskevent, ei, phase>>

-----------------------------------------------------------------------------
(* The guest. *)

GuestRuns == phase \in {"cpu", "shadow"}

\* The slice goes on, unless nevent_forceexit was called.
Continue(exit) ==
  phase' = IF exit \/ phase = "shadow" THEN "events" ELSE "cpu"

\* CLI; also a reset of the CPU alone (CPU_SHUT), which leaves the chips as they are.
Cli ==
  /\ GuestRuns
  /\ ei' = FALSE
  /\ Continue(FALSE)
  /\ UNCHANGED <<pic, vsyncint, vsync>>

\* STI executes one more instruction and leaves the slice.
Sti ==
  /\ GuestRuns
  /\ ei' = TRUE
  /\ phase' = "shadow"
  /\ UNCHANGED <<pic, vsyncint, vsync>>

\* IRET and POPF leave the slice.
Popf(flag) ==
  /\ GuestRuns
  /\ ei' = flag
  /\ Continue(TRUE)
  /\ UNCHANGED <<pic, vsyncint, vsync>>

\* A write of OCW2 to the command port (pic_o00).
Ocw2(chip, level, rotate, eoi) ==
  /\ GuestRuns
  /\ pry' = [pry EXCEPT ![chip] = IF rotate THEN Rotated(chip, level) ELSE @]
  /\ isr' = [isr EXCEPT ![chip] = IF eoi THEN EndOfInterrupt(chip, level) ELSE @]
  /\ writeicw' = [writeicw EXCEPT ![chip] = 0]
  /\ Continue(level # {} \/ isr[chip] # {})
  /\ UNCHANGED <<imr, irr, smm, ic4, maskevent, vsyncint, vsync, ei>>

\* A write of OCW3 with ESMM.  Without RR, "dat &= PIC_OCW3_RIS" drops ESMM and
\* SMM as well, so the mode changes only in an OCW3 that also selects a register
\* to read.
Ocw3(chip, rr, special) ==
  /\ GuestRuns
  /\ smm' = [smm EXCEPT ![chip] = IF rr THEN special ELSE @]
  /\ writeicw' = [writeicw EXCEPT ![chip] = 0]
  /\ Continue(FALSE)
  /\ UNCHANGED <<imr, isr, irr, pry, ic4, maskevent, vsyncint, vsync, ei>>

\* A write of ICW1: what is in service stays in service.
Icw1(chip, needed) ==
  /\ GuestRuns
  /\ imr' = [imr EXCEPT ![chip] = {}]
  /\ irr' = [irr EXCEPT ![chip] = {}]
  /\ smm' = [smm EXCEPT ![chip] = FALSE]
  /\ pry' = [pry EXCEPT ![chip] = 0]
  /\ ic4' = [ic4 EXCEPT ![chip] = needed]
  /\ writeicw' = [writeicw EXCEPT ![chip] = 1]
  /\ Continue(FALSE)
  /\ UNCHANGED <<isr, maskevent, vsyncint, vsync, ei>>

\* Mutant of IcwNext: one word too many.
IcwNextOverrun(chip) ==
  /\ GuestRuns
  /\ writeicw[chip] # 0
  /\ writeicw' = [writeicw EXCEPT ![chip] =
                    IF @ >= (IF ic4[chip] THEN 4 ELSE 3) THEN 0 ELSE @ + 1]
  /\ Continue(TRUE)
  /\ UNCHANGED <<imr, isr, irr, pry, smm, ic4, maskevent, vsyncint, vsync, ei>>

\* A write of ICW2, 3 or 4 to the data port (pic_o02).
IcwNext(chip) ==
  /\ GuestRuns
  /\ writeicw[chip] # 0
  /\ writeicw' = [writeicw EXCEPT ![chip] =
                    IF @ + 1 >= (IF ic4[chip] THEN 4 ELSE 3) THEN 0 ELSE @ + 1]
  /\ Continue(TRUE)
  /\ UNCHANGED <<imr, isr, irr, pry, smm, ic4, maskevent, vsyncint, vsync, ei>>

\* Mutant of Ocw1: the CPU stays in the slice.
Ocw1Stays(chip, mask) ==
  /\ GuestRuns
  /\ writeicw[chip] = 0
  /\ imr' = [imr EXCEPT ![chip] = mask]
  /\ Continue(FALSE)
  /\ UNCHANGED <<isr, irr, ocw, maskevent, vsyncint, vsync, ei>>

\* A write of OCW1 to the data port: the slice ends when a request is unmasked.
Ocw1(chip, mask) ==
  /\ GuestRuns
  /\ writeicw[chip] = 0
  /\ imr' = [imr EXCEPT ![chip] = mask]
  /\ Continue(ei /\ irr[chip] \cap (imr[chip] \ mask) # {})
  /\ UNCHANGED <<isr, irr, ocw, maskevent, vsyncint, vsync, ei>>

\* A write to port 64h asks for a V-sync interrupt (gdc_o64).
GdcO64 ==
  /\ GuestRuns /\ guest.port64
  /\ vsyncint' = TRUE
  /\ Continue(FALSE)
  /\ UNCHANGED <<pic, vsync, ei>>

-----------------------------------------------------------------------------

Devices ==
  \/ \E i \in guest.inputs, mode2 \in BOOLEAN : SetIrq(i[1], i[2], mode2)
  \/ \E i \in guest.withdrawn : ResetIrq(i[1], i[2])
  \/ PicMask \/ ScreenVsync \/ ScreenDisp

Guest ==
  \/ Cli \/ Sti \/ GdcO64
  \/ \E flag \in BOOLEAN : Popf(flag)
  \/ \E icw \in guest.icw4 : Icw1(icw[1], icw[2])
  \/ \E chip \in Chip :
       \/ \E level \in {{}} \cup {{n} : n \in guest.levels}, rotate, eoi \in BOOLEAN :
            Ocw2(chip, level, rotate, eoi)
       \/ \E rr \in BOOLEAN, special \in guest.smm : Ocw3(chip, rr, special)
       \/ IcwNext(chip)
       \/ \E mask \in guest.masks : Ocw1(chip, mask)

MainLoop == PicIrq \/ SliceEnds \/ LoopAgain

Next == MainLoop \/ MachineReset \/ Devices \/ Guest

Spec == Init /\ [][Next /\ UNCHANGED guest]_<<vars, guest>>

-----------------------------------------------------------------------------
(* Properties. *)

\* The type of the state; an ICW sequence is never left open beyond its last
\* word.
TypeOK ==
  /\ imr \in [Chip -> SUBSET Lines]
  /\ isr \in [Chip -> SUBSET Lines]
  /\ irr \in [Chip -> SUBSET Lines]
  /\ pry \in [Chip -> Lines]
  /\ smm \in [Chip -> BOOLEAN]
  /\ writeicw \in [Chip -> 0 .. 3]
  /\ ic4 \in [Chip -> BOOLEAN]
  /\ {maskevent, vsyncint, vsync, ei} \subseteq BOOLEAN
  /\ guest \in Guests
  /\ phase \in Phases

\* pic_setirq, screenvsync and screendisp between them keep a V-sync request
\* inside the retrace it belongs to and never behind its own handler, so the
\* guest never sees a V-sync interrupt that is a frame late.
VsyncInRetrace ==
  Crtv \in irr[Master] => vsync /\ Crtv \notin isr[Master]

\* What an interrupt step takes up on a chip.
Entered(chip, line) ==
  \/ line \in isr'[chip] \ isr[chip]
  \/ /\ chip = Master /\ line = Cascade
     /\ isr'[Slave] \ isr[Slave] # {}

\* pic_irq never interrupts a handler by a line of the same or a lower priority,
\* and takes no line while a more urgent one is asking, through the cascade as
\* well, unless the special mask mode asks for it.
FullyNested ==
  [][ \A chip \in Chip, n \in Lines :
        Entered(chip, n) =>
          \A m \in (Requests(chip) \cup Blocking(chip)) \ {n} :
            Distance(pry[chip], n) < Distance(pry[chip], m) ]_vars

\* A line that enters service was asked for and is not masked by its chip.  The
\* master's mask holds the slave back too, unless a rotation has put another line
\* of the master below the cascade: pic_irq then serves a slave that is already
\* in service although the guest masked it meanwhile.
MaskIsObeyed ==
  [][ \A n \in Lines :
        /\ n # Cascade /\ Entered(Master, n) => n \in Requests(Master)
        /\ Entered(Slave, n) =>
             /\ n \in Requests(Slave)
             /\ pry[Master] = Succ(Cascade) => Cascade \notin imr[Master] ]_vars

\* A request leaves irr only when it is served, when its device takes it back,
\* when the chip is initialised, when it is a V-sync request that is put off, or
\* when it is a masked timer request that has run out.
RequestsKept ==
  [][ MachineReset \/
      \A chip \in Chip : \A n \in irr[chip] \ irr'[chip] :
        \/ Entered(chip, n)
        \/ <<chip, n>> \in guest.withdrawn /\ phase # "head"
        \/ writeicw'[chip] = 1 /\ imr'[chip] = {}
        \/ chip = Master /\ n = Crtv /\ vsyncint'
        \/ chip = Master /\ n = Timer /\ n \in imr[chip] /\ phase = "events" ]_vars

\* A V-sync interrupt the guest asked for through port 64h is owed until it is
\* served: the hand-over between gdc.vsyncint and irr loses none.
VsyncWanted == vsyncint \/ Crtv \in irr[Master]

VsyncKept ==
  [][ VsyncWanted =>
        \/ VsyncWanted'
        \/ Entered(Master, Crtv)
        \/ writeicw'[Master] = 1
        \/ MachineReset ]_vars

\* When an instruction of the guest makes an interrupt deliverable (it unmasks a
\* line, ends an interrupt, enables interrupts), the CPU leaves the slice, so the
\* interrupt is taken before the next instruction (STI: the one after it).  The
\* exceptions are the special mask mode, a line that is masked and frees those it
\* held back, and an OCW1 that unmasks the cascade.
MadeDeliverable ==
  ei' /\ Deliverable' # {} /\ ~ (ei /\ Deliverable # {})

PromptService ==
  [][ /\ GuestRuns /\ UNCHANGED <<irr, smm>>
      /\ \A chip \in Chip : ~smm[chip] /\ imr'[chip] \subseteq imr[chip]
      /\ Cascade \notin imr[Master] \ imr'[Master]
      /\ MadeDeliverable
      => phase' # "cpu" ]_vars

\* pic_o02 comments its test "is there an interrupt for the bits that were
\* reset?": when there is one, the CPU leaves the slice.
UnmaskIsPrompt ==
  [][ \A chip \in Chip, mask \in guest.masks :
        Ocw1(chip, mask) /\ MadeDeliverable => phase' # "cpu" ]_vars
=============================================================================
