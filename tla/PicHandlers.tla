---------------------------- MODULE PicHandlers ----------------------------
(***************************************************************************)
(* The interrupt controllers of module Pic serving a guest whose handlers  *)
(* end the way the handlers of the emulated BIOS do (bios09.c, bios0c.c,   *)
(* bios12.c and bios13.c): an EOI without a level to the slave, and one to *)
(* the master when the slave has nothing left in service, in one go; then  *)
(* IRET.  A handler may enable interrupts and be interrupted in its turn,  *)
(* but disables them before it ends.  Any device may ask at any time, and  *)
(* the guest may mask and unmask lines.  The handlers of one guest rotate  *)
(* the priorities when they end, or leave them fixed.                      *)
(***************************************************************************)
EXTENDS Pic, Sequences

CONSTANT Rotations  \* whether the handlers rotate the priorities when they end

ASSUME RotationsAssumption == Rotations \subseteq BOOLEAN

VARIABLES
  stack,   \* the handlers that have not returned, the running one last
  rotates  \* what the handlers of this guest do; never changes

allvars == <<vars, stack, rotates>>

\* A handler: the interrupt it serves and whether it has sent its EOI.
Handler(irq) == [irq |-> irq, done |-> FALSE]

HInit == Init /\ stack = <<>> /\ rotates \in Rotations

Running == stack # <<>>
Current == stack[Len(stack)]

\* pic_irq starts the handler of the interrupt it delivers.
Interrupt ==
  /\ PicIrq
  /\ stack' = IF ei /\ Deliverable # {}
                THEN Append(stack, Handler(CHOOSE d \in Deliverable : TRUE))
                ELSE stack
  /\ UNCHANGED rotates

\* Mutant of EndedChips: the master is told although the slave is still busy.
EndedAlways(irq) == {Master, irq[1]}

\* The chips that a handler sends an EOI.
EndedChips(irq) ==
  IF irq[1] = Slave /\ EndOfInterrupt(Slave, {}) # {}
    THEN {Slave} ELSE {Master, irq[1]}

\* The end of a BIOS handler; other guests send A0h for 20h, to rotate.
Epilogue ==
  /\ GuestRuns
  /\ ~ei /\ Running /\ ~Current.done
  /\ isr' = [c \in Chip |-> IF c \in EndedChips(Current.irq)
                              THEN EndOfInterrupt(c, {}) ELSE isr[c]]
  /\ pry' = [c \in Chip |-> IF rotates /\ c \in EndedChips(Current.irq)
                              THEN Rotated(c, {}) ELSE pry[c]]
  /\ writeicw' = [c \in Chip |->
                    IF c \in EndedChips(Current.irq) THEN 0 ELSE writeicw[c]]
  /\ stack' = [stack EXCEPT ![Len(stack)].done = TRUE]
  /\ Continue(TRUE)
  /\ UNCHANGED <<imr, irr, smm, ic4, maskevent, vsyncint, vsync, ei, rotates>>

Iret ==
  /\ Running /\ Current.done
  /\ Popf(TRUE)
  /\ stack' = SubSeq(stack, 1, Len(stack) - 1)
  /\ UNCHANGED rotates

\* The program, or a handler before its end, opens the window for interrupts.
OpenWindow ==
  /\ ~ei /\ (Running => ~Current.done)
  /\ Sti
  /\ UNCHANGED <<stack, rotates>>

\* A program does not close the window in the very next instruction.
CloseWindow == phase = "cpu" /\ Cli /\ UNCHANGED <<stack, rotates>>

OtherStep ==
  /\ SliceEnds \/ LoopAgain \/ Devices \/ GdcO64
     \/ \E chip \in Chip, mask \in guest.masks : Ocw1(chip, mask)
  /\ UNCHANGED <<stack, rotates>>

HNext ==
  Interrupt \/ Epilogue \/ Iret \/ OpenWindow \/ CloseWindow \/ OtherStep

HSpec == HInit /\ [][HNext /\ UNCHANGED guest]_<<allvars, guest>>

\* The main loop runs, handlers end and return, and the program keeps opening
\* the window: the guest's part of the bargain.
HFairSpec ==
  /\ HSpec
  /\ WF_allvars(Interrupt) /\ WF_allvars(SliceEnds /\ UNCHANGED <<stack, rotates>>)
  /\ WF_allvars(LoopAgain /\ UNCHANGED <<stack, rotates>>)
  /\ SF_allvars(CloseWindow /\ Running) /\ SF_allvars(Epilogue)
  /\ SF_allvars(Iret) /\ SF_allvars(OpenWindow /\ ~Running)

-----------------------------------------------------------------------------
(* Properties. *)

\* The handlers still to send their EOI, by chip.
Unfinished(chip) ==
  {stack[i].irq[2] :
     i \in {j \in DOMAIN stack : ~stack[j].done /\ stack[j].irq[1] = chip}}

\* The in-service registers hold exactly the handlers that have not ended, and
\* the cascade while one of them serves the slave: no EOI of a handler ever ended
\* another one, however deep they nest.
InServiceIsStack ==
  /\ isr[Slave] = Unfinished(Slave)
  /\ isr[Master] = Unfinished(Master)
                     \cup (IF Unfinished(Slave) = {} THEN {} ELSE {Cascade})

\* The line of the master that an interrupt comes in by.
MasterLine(irq) == IF irq[1] = Master THEN irq[2] ELSE Cascade

\* An interrupt with the most urgent line of its chip and of the master or, when
\* the handlers rotate the priorities, any interrupt, is served in the end,
\* unless the guest masks it or initialises the machine.
Prompt ==
  IF rotates THEN guest.inputs
  ELSE {i \in guest.inputs : \A j \in guest.inputs \cup {<<Master, Crtv>>} :
          \/ MasterLine(i) < MasterLine(j)
          \/ MasterLine(i) = MasterLine(j) /\ i[2] <= j[2]}

RequestsServed ==
  \A i \in Chip \X Lines :
    i \in Prompt /\ i[2] \in irr[i[1]] ~> i[2] \notin irr[i[1]] \/ i[2] \in imr[i[1]]
=============================================================================
