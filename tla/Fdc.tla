--------------------------------- MODULE Fdc ---------------------------------
(***************************************************************************)
(* The floppy disk controller (io/fdc.c) with its DMA channel, the disk    *)
(* changes of fdd/diskdrv.c, the interrupt handler of the BIOS             *)
(* (bios/bios12.c) and the way int 1Bh uses the controller                 *)
(* (bios/bios1b.c).                                                        *)
(*                                                                         *)
(* The guest uses one interface (bit 0 of chgreg) and DMA (ND = 0), and    *)
(* sends a command with its parameters at once, H being the head.  Drives  *)
(* are equipped and not forced ready.  Disks are sector images of one      *)
(* format.  The bits RQM, CB and DIO of the status register follow from    *)
(* event, so they are not state; the busy bits of the drives and the       *)
(* bytes of a result but the drive are left out.  The handler of the BIOS  *)
(* is native code, which nothing interrupts.                               *)
(*                                                                         *)
(* Registers that the next command sets are cleared with the result of a   *)
(* command.                                                                *)
(*                                                                         *)
(* int 1Bh waits in rounds, which give the clocks to the machine; the      *)
(* rounds in which the motor of a drive is busy are left out.  In virtual  *)
(* 8086 mode it counts the rounds, and gives up in the end.                *)
(*                                                                         *)
(* fdc.asked, fdc.moved, shown, at, owed and upset are history.            *)
(***************************************************************************)
EXTENDS SequencesExt, Dmac

CONSTANTS
  LastDrive,   \* drives 0 .. LastDrive
  LastTrack,   \* cylinders 0 .. LastTrack
  Sectors,     \* of a track
  SectorSize,  \* bytes of a sector
  IntDelay,    \* FDC_INT_DELAY
  DiskDelay,   \* DISK_DELAY
  WaitLimit,   \* pccore.realclock * 3, in rounds of bios0x1b_wait
  Setups       \* what a user and a guest do, see Setup

Drives == 0 .. LastDrive
Media == {"writable", "protected"}
DataPhases == {"bufrecv", "bufsend2"}

\* The parameters of a read or write command.
Transfer == [op : {"read", "write"}, us : Drives, hd : {0, 1},
             c : 0 .. LastTrack, r : 1 .. Sectors, eot : 1 .. Sectors,
             mt : BOOLEAN]

\* ext is bit 2 of chgreg; counts what the DMA controller is programmed with; media
\* the disks there are; changed the drives whose disk the user changes; units and
\* tracks where the guest uses the other commands; ports those commands; vm86 whether
\* the guest runs in virtual 8086 mode.
Setup == [ext : BOOLEAN, vm86 : BOOLEAN, transfers : SUBSET Transfer,
          counts : SUBSET (0 .. CountRange - 1), media : SUBSET Media,
          changed : SUBSET Drives, units : SUBSET Drives,
          tracks : SUBSET (0 .. LastTrack),
          ports : SUBSET {"seek", "sense", "id", "bios", "motor", "dmae",
                          "reset", "clear"}]

\* A byte of a write that is moved after a reset is a command to the controller: no
\* guest that resets it writes.
ASSUME FdcAssumption ==
  /\ {LastDrive, LastTrack, WaitLimit} \subseteq Nat
  /\ {Sectors, SectorSize, IntDelay, DiskDelay} \subseteq Nat \ {0}
  /\ Setups \subseteq Setup
  /\ \A s \in Setups : {"dmae", "reset"} \cap s.ports # {} =>
                         \A t \in s.transfers : t.op = "read"

VARIABLES
  fdc,      \* the controller, its DMA channel and drives, see Controller
  irq,      \* its request at the interrupt controller
  diskInt,  \* the bits of MEMB_DISK_INTL: drives that have interrupted
  waiting,  \* int 1Bh waits for such a bit
  timeout,  \* int_timeout of bios0x1b_wait, in rounds
  shown,    \* history: what int 1Bh has shown and nobody has read, while it waits
  at,       \* history: where the guest put the heads
  owed,     \* history: drives whose seek was not reported yet
  upset,    \* history: what may spoil a transfer, see Upsets
  setup     \* this user and guest; never changes

history == <<at, owed, upset>>
call == <<waiting, timeout, shown>>
vars == <<fdc, irq, diskInt, call, history>>

Events == {"neutral", "result"} \cup DataPhases

\* stat is 0 ("none"), holds an address only, the end of a seek or a change of the
\* ready line.  from is the drive in ST0 and ok its interrupt code.  asked is the
\* transfer that goes on, bytes its count (0 when there is none), and moved the
\* sectors of it so far.
Controller ==
  [event : Events, us : Drives, hd : {0, 1}, r : 1 .. Sectors + 1,
   bufcnt : 0 .. SectorSize, tc : BOOLEAN, ok : BOOLEAN, from : Drives,
   treg : [Drives -> 0 .. LastTrack + 1], lasttreg : [Drives -> 0 .. LastTrack],
   crcn : 0 .. Sectors,
   stat : [Drives -> {"none", "address", "seek", "attention"}],
   istat : [Drives -> {"none", "address", "seek", "attention"}],
   timer : [Drives -> 0 .. IntDelay], armed : BOOLEAN,
   ctrl : SUBSET {"motor", "dmae", "reset"}, dma : Channel,
   media : [Drives -> Media \cup {"none"}],
   delay : [Drives -> 0 .. DiskDelay], next : [Drives -> Media],
   asked : Transfer, bytes : 0 .. CountRange,
   moved : Seq(Drives \X (0 .. LastTrack) \X {0, 1} \X (1 .. Sectors))]

NoTransfer ==
  [op |-> "read", us |-> 0, hd |-> 0, c |-> 0, r |-> 1, eot |-> 1, mt |-> FALSE]

Upsets == {"changed", "stolen", "stepped", "reset", "cleared"}

-----------------------------------------------------------------------------
(* The controller. *)

\* (fdc.hd << 2) | fdc.us.
Address(q) == IF q.us = 0 /\ q.hd = 0 THEN "none" ELSE "address"

\* Mutant of Result: the request of the DMA channel is not taken back.
ResultKeepsReady(q, ok) ==
  [q EXCEPT !.tc = FALSE, !.event = "result", !.ok = ok, !.from = q.us,
            !.stat[q.us] = "none", !.armed = TRUE]

\* Mutant of Result: the interrupt is forgotten.
ResultSilent(q, ok) ==
  [q EXCEPT !.tc = FALSE, !.event = "result", !.ok = ok, !.from = q.us,
            !.stat[q.us] = "none", !.dma = SetReady(@, FALSE)]

\* fdcsend_success7 and fdcsend_error7.
Result(q, ok) ==
  [q EXCEPT !.tc = FALSE, !.event = "result", !.ok = ok, !.from = q.us,
            !.stat[q.us] = "none", !.dma = SetReady(@, FALSE), !.armed = TRUE]

\* FDC_DriveCheck.
DriveCheck(q, protectcheck) ==
  q.media[q.us] \in IF protectcheck THEN {"writable"} ELSE Media

\* Mutant of SectorFound: the sector's number is not looked at.
SectorFoundAnywhere(q) == q.treg[q.us] <= LastTrack

\* fdd_seeksector_common, of fdd_read and fdd_write.
SectorFound(q) == q.treg[q.us] <= LastTrack /\ q.r <= Sectors

Moved(q) == Append(q.moved, <<q.us, q.treg[q.us], q.hd, q.r>>)

\* The next sector's data, by DMA.
DataPhase(q, phase) ==
  [q EXCEPT !.event = phase, !.bufcnt = SectorSize, !.dma = SetReady(@, TRUE)]

\* readsector.
ReadSector(q) ==
  IF DriveCheck(q, FALSE) /\ SectorFound(q)
    THEN DataPhase([q EXCEPT !.stat[q.us] = Address(q), !.moved = Moved(q)],
                   "bufsend2")
    ELSE Result(q, FALSE)

\* Mutant of NextRead: the other head is not taken.
NextReadOneSide(q) ==
  LET end == q.r = q.asked.eot
      s == [q EXCEPT !.r = IF end THEN 1 ELSE @ + 1]
  IN IF end THEN Result(s, TRUE) ELSE ReadSector(s)

\* FDC_ReadData, FDCEVENT_NEXTDATA: the sector after the last one is the first of
\* the other head, when the command says so and that is head 1.
NextRead(q) ==
  LET end == q.r = q.asked.eot
      turns == end /\ q.asked.mt
      s == [q EXCEPT !.r = IF end THEN 1 ELSE @ + 1,
                     !.hd = IF turns THEN 1 - @ ELSE @]
  IN IF end /\ ~(turns /\ s.hd = 1) THEN Result(s, TRUE) ELSE ReadSector(s)

\* fdc_dataread in the data phase; in the other phases the DMA channel that still
\* runs reads a byte that nobody sent.
DataRead(q) ==
  LET s == [q EXCEPT !.bufcnt = @ - 1]
  IN IF q.event # "bufsend2" THEN q
     ELSE IF q.tc THEN Result([s EXCEPT !.r = 1], TRUE)
     ELSE IF s.bufcnt = 0 THEN NextRead(s) ELSE s

\* FDC_WriteData, FDCEVENT_BUFRECV: the sector is written, and the transfer ends
\* with the terminal count or after the last sector.
WriteSector(q) ==
  LET end == q.tc \/ q.r = q.asked.eot
      turns == end /\ q.asked.mt
      s == DataPhase(
             [q EXCEPT !.moved = Moved(q), !.r = IF end THEN 1 ELSE @ + 1,
                       !.hd = IF turns THEN 1 - @ ELSE @], "bufrecv")
      t == [s EXCEPT !.stat[q.us] = Address(s)]
  IN IF ~DriveCheck(q, TRUE) \/ ~SectorFound(q) THEN Result(q, FALSE)
     ELSE IF end /\ (q.tc \/ ~(turns /\ s.hd = 1)) THEN Result(t, TRUE) ELSE t

\* fdc_datawrite in the data phase.
DataWrite(q) ==
  LET s == [q EXCEPT !.bufcnt = @ - 1]
  IN IF s.bufcnt = 0 \/ q.tc THEN WriteSector(s) ELSE s

\* FDC_ReadData and FDC_WriteData, FDCEVENT_CMDRECV.  Unless the last seek put the
\* head where it is, the head is where the command says.
Begin(q, t) ==
  LET a == [q EXCEPT !.asked = t, !.us = t.us, !.hd = t.hd, !.r = t.r,
                     !.treg[t.us] = IF q.lasttreg[t.us] # @ THEN t.c ELSE @]
      b == [a EXCEPT !.stat[t.us] = Address(a)]
  IN IF t.op = "read" THEN ReadSector(b)
     ELSE IF DriveCheck(b, TRUE) THEN DataPhase(b, "bufrecv")
     ELSE Result(b, FALSE)

\* fdd_readid_common, without its result: after the last sector of the track the
\* next track follows.
NextId(q, mt) ==
  LET over == q.crcn >= Sectors
      turns == over /\ mt
  IN [q EXCEPT !.crcn = IF over THEN 1 ELSE @ + 1,
               !.hd = IF turns THEN 1 - @ ELSE @,
               !.treg[q.us] = IF over /\ (~mt \/ q.hd = 1) THEN @ + 1 ELSE @]

\* What FDC_Seek and FDC_Recalibrate have to report waits for FDC_INT_DELAY frames.
SetAside(q, d, status) ==
  [q EXCEPT !.istat[d] = status, !.timer[d] = IntDelay]

\* FDC_SenceintStatus and the reading of its answer: the drive it speaks of.
Sensed(q) ==
  IF q.stat[q.us] # "none" THEN q.us
  ELSE CHOOSE d \in Drives : /\ q.stat[d] # "none"
                             /\ \A e \in 0 .. d - 1 : q.stat[e] = "none"

\* The answer turns the motor on, in the register.
AfterSense(q, drives) ==
  [q EXCEPT !.stat = [d \in Drives |-> IF d \in drives THEN "none" ELSE @[d]],
            !.ctrl = IF drives = {} THEN @ ELSE @ \cup {"motor"}]

Pending(q) == {d \in Drives : q.stat[d] # "none"}

\* The statuses that tell the guest something.
Announced == {"seek", "attention"}
Told(q) == {d \in Drives : q.stat[d] \in Announced}

\* The command is over.
Neutral(q) ==
  [q EXCEPT !.event = "neutral", !.hd = 0, !.r = 1, !.bufcnt = 0, !.ok = FALSE,
            !.from = 0, !.asked = NoTransfer, !.bytes = 0, !.moved = <<>>]

-----------------------------------------------------------------------------
(* The user and the time. *)

\* History: a disk that is changed while the controller or int 1Bh is busy takes the
\* place of fdc.us.
Busy == fdc.event # "neutral" \/ waiting
Changes == upset' = IF Busy THEN upset \cup {"changed"} ELSE upset

\* diskdrv_setfddex: the disk is taken out, and another one, if any, is in some
\* frames later.
SetDisk(d, m) ==
  /\ fdc' = [fdc EXCEPT !.media[d] = "none", !.stat[d] = "attention",
                        !.us = d, !.armed = TRUE,
                        !.delay[d] = IF m = "none" THEN 0 ELSE DiskDelay,
                        !.next[d] = IF m = "none" THEN @ ELSE m]
  /\ Changes
  /\ UNCHANGED <<irq, diskInt, call, at, owed>>

\* diskdrv_readyfddex: the drives whose disk is in now and which tell of it.
Heard(q) ==
  {d \in Drives : q.delay[d] = 1 /\ (~setup.ext \/ "motor" \in q.ctrl)}

\* diskdrv_callback: the last drive that is heard is fdc.us.
DiskDelays(q) ==
  LET ready == {d \in Drives : q.delay[d] = 1}
      heard == Heard(q)
  IN [q EXCEPT !.delay = [d \in Drives |-> IF q.delay[d] = 0 THEN 0 ELSE q.delay[d] - 1],
               !.media = [d \in Drives |-> IF d \in ready THEN q.next[d] ELSE q.media[d]],
               !.stat = [d \in Drives |-> IF d \in heard THEN "attention" ELSE q.stat[d]],
               !.us = IF heard = {} THEN q.us ELSE Max(heard),
               !.armed = q.armed \/ heard # {}]

\* Mutant of SeekDelays: the interrupt of a seek comes without its status.
SeekDelaysEmpty(q) ==
  [q EXCEPT !.timer = [d \in Drives |-> IF q.timer[d] = 0 THEN 0 ELSE q.timer[d] - 1],
            !.armed = q.armed \/ \E d \in Drives : q.timer[d] = 1]

\* fdc_intdelay.
SeekDelays(q) ==
  LET due == {d \in Drives : q.timer[d] = 1}
  IN [q EXCEPT !.timer = [d \in Drives |-> IF q.timer[d] = 0 THEN 0 ELSE q.timer[d] - 1],
               !.stat = [d \in Drives |-> IF d \in due THEN q.istat[d] ELSE q.stat[d]],
               !.armed = q.armed \/ due # {}]

\* The end of a frame.
Frame ==
  /\ \E d \in Drives : fdc.delay[d] + fdc.timer[d] > 0
  /\ fdc' = SeekDelays(DiskDelays(fdc))
  /\ IF fdc'.us # fdc.us THEN Changes ELSE UNCHANGED upset
  /\ UNCHANGED <<irq, diskInt, call, at, owed>>

\* fdc_intwait, 512 clocks after fdc_interrupt.
Interrupt ==
  /\ fdc.armed
  /\ fdc' = [fdc EXCEPT !.armed = FALSE] /\ irq' = TRUE
  /\ UNCHANGED <<diskInt, call, history>>

\* dmax86: a byte by DMA.
DmaByte ==
  /\ fdc.dma.working
  /\ LET q == [fdc EXCEPT !.dma = Step(@), !.tc = @ \/ Terminal(fdc.dma)]
     IN fdc' = IF fdc.asked.op = "read" THEN DataRead(q) ELSE DataWrite(q)
  /\ UNCHANGED <<irq, diskInt, call, history>>

-----------------------------------------------------------------------------
(* The handler of the BIOS. *)

\* Mutant of BiosHandler: one status is sensed for an interrupt.
BiosHandlerOnce ==
  /\ irq /\ irq' = FALSE
  /\ fdc.event = "neutral" /\ Pending(fdc) # {}
  /\ fdc' = AfterSense(fdc, {Sensed(fdc)})
  /\ diskInt' = diskInt \cup {Sensed(fdc)}
  /\ owed' = owed \ ({Sensed(fdc)} \cap Told(fdc))
  /\ UNCHANGED <<call, at, upset>>

\* History: the handler that reads q reads what int 1Bh has shown, with the result or
\* with a status of its drive.
ShownIn(q) ==
  \/ shown = "result" /\ q.event = "result"
  \/ shown = "seek" /\ q.us \in Pending(q)

\* bios0x12: the result, if there is one, then all that can be sensed.  In the data
\* phase of a read it takes the rest of the data for the result, up to the end of the
\* result, but when the first byte looks like the end of the statuses.
BiosHandler ==
  /\ irq /\ irq' = FALSE
  /\ \E one \in BOOLEAN, d \in Drives :
       LET reading == fdc.event = "bufsend2"
           q == IF reading THEN Result(fdc, TRUE) ELSE fdc
           from == IF reading THEN {d}
                   ELSE IF fdc.event = "result" THEN {fdc.from} ELSE {}
       IN /\ one => reading
          /\ fdc' = IF one THEN DataRead(fdc)
                    ELSE IF fdc.event = "bufrecv" THEN fdc
                    ELSE AfterSense(Neutral(q), Pending(q))
          /\ IF one \/ fdc.event = "bufrecv" THEN UNCHANGED <<diskInt, owed, shown>>
             ELSE /\ diskInt' = diskInt \cup from \cup Pending(q)
                  /\ owed' = owed \ Told(q)
                  /\ shown' = IF ShownIn(q) THEN "nothing" ELSE shown
          /\ upset' = IF reading THEN upset \cup {"stolen"} ELSE upset
  /\ UNCHANGED <<waiting, timeout, at>>

\* bios0x1b_wait looks at the bit of the drive that fdc.us is now.  A round that finds
\* nothing is counted in virtual 8086 mode.
WaitPolls ==
  /\ waiting /\ fdc.us \notin diskInt
  /\ setup.vm86 /\ timeout <= WaitLimit
  /\ timeout' = timeout + 1
  /\ UNCHANGED <<fdc, irq, diskInt, waiting, shown, history>>

\* It returns with the bit, or without it when it has counted beyond its limit.
WaitReturns ==
  /\ waiting /\ (fdc.us \in diskInt \/ timeout > WaitLimit)
  /\ waiting' = FALSE /\ timeout' = 0 /\ shown' = "nothing"
  /\ diskInt' = diskInt \ {fdc.us}
  /\ UNCHANGED <<fdc, irq, history>>

-----------------------------------------------------------------------------
(* The guest.  It does not disturb a drive whose seek it waits for, but with     *)
(* another seek.                                                                 *)

Idle == ~waiting /\ fdc.event = "neutral"
Free(d) == Idle /\ d \notin owed

\* The DMA channel is masked, given its count and unmasked; then READ DATA or WRITE
\* DATA, where the head is.
Command(t, n) ==
  /\ Free(t.us) /\ at[t.us] = t.c
  /\ LET dma == SetMask(SetCount(SetMask(fdc.dma, TRUE), n), FALSE)
     IN fdc' = Begin([fdc EXCEPT !.dma = dma, !.bytes = n + 1], t)
  /\ UNCHANGED <<irq, diskInt, call, history>>

\* The result is read without an interrupt.
ReadResult ==
  /\ ~waiting /\ fdc.event = "result"
  /\ fdc' = Neutral(fdc)
  /\ UNCHANGED <<irq, diskInt, call, history>>

\* FDC_Seek.
Seek(d, c) ==
  /\ Idle
  /\ LET q == [fdc EXCEPT !.us = d, !.hd = 0]
         ready == [q EXCEPT !.treg[d] = c, !.lasttreg[d] = c,
                            !.r = 1, !.crcn = 1]
     IN fdc' = SetAside(IF q.media[d] = "none" THEN q ELSE ready, d, "seek")
  /\ at' = [at EXCEPT ![d] = IF fdc.media[d] = "none" THEN @ ELSE c]
  /\ owed' = owed \cup {d}
  /\ UNCHANGED <<irq, diskInt, call, upset>>

\* FDC_Recalibrate, which does not tell lasttreg.
Recalibrate(d) ==
  /\ Idle
  /\ LET q == [fdc EXCEPT !.us = d, !.hd = 0, !.r = 1, !.crcn = 1]
     IN fdc' = SetAside(IF q.media[d] = "none" THEN q ELSE [q EXCEPT !.treg[d] = 0],
                        d, "seek")
  /\ at' = [at EXCEPT ![d] = IF fdc.media[d] = "none" THEN @ ELSE 0]
  /\ owed' = owed \cup {d}
  /\ UNCHANGED <<irq, diskInt, call, upset>>

\* SENSE INTERRUPT STATUS, without an interrupt.
SenseInterrupt ==
  /\ Idle
  /\ LET drives == IF Pending(fdc) = {} THEN {} ELSE {Sensed(fdc)}
     IN /\ fdc' = AfterSense(fdc, drives)
        /\ owed' = owed \ (drives \cap Told(fdc))
  /\ UNCHANGED <<irq, diskInt, call, at, upset>>

\* FDC_SenseDeviceStatus, and the reading of its answer.
SenseDeviceStatus(d, hd) ==
  /\ Free(d)
  /\ LET q == [fdc EXCEPT !.us = d, !.hd = hd]
     IN fdc' = Neutral([q EXCEPT !.stat[d] = Address(q)])
  /\ UNCHANGED <<irq, diskInt, call, history>>

\* FDC_ReadID.  Bound: the head stays where a transfer may still find a sector.
ReadID(d, mt) ==
  /\ Free(d) /\ fdc.treg[d] <= LastTrack
  /\ LET q == [fdc EXCEPT !.us = d, !.hd = 0]
         ready == fdc.media[d] # "none"
     IN fdc' = Result(IF ready THEN NextId(q, mt) ELSE q, ready)
  /\ upset' = IF fdc'.treg = fdc.treg THEN upset ELSE upset \cup {"stepped"}
  /\ UNCHANGED <<irq, diskInt, call, at, owed>>

\* int 1Bh does not look at the controller.  When the last call has given up, its
\* result may still be there.
Callable(d) ==
  /\ ~waiting /\ d \notin owed
  /\ fdc.event = "neutral" \/ (fdc.event = "result" /\ fdc.bytes = 0)

\* Mutant of BiosCall: the bit that the wait looks at is not cleared.
BiosCallKeepsBit(d, c, seek) ==
  /\ Callable(d)
  /\ \E ok \in {fdc.media[d] # "none"} \cup {FALSE} :
       LET ready == fdc.media[d] # "none"
           q == [Neutral(fdc) EXCEPT !.us = d, !.crcn = 0,
                                     !.treg[d] = IF ready THEN c ELSE @]
       IN IF seek /\ ready
            THEN fdc' = [q EXCEPT !.stat[d] = "seek", !.armed = TRUE] /\ shown' = "seek"
            ELSE fdc' = Result(q, ok) /\ shown' = "result"
  /\ waiting' = TRUE
  /\ at' = [at EXCEPT ![d] = IF fdc.media[d] = "none" THEN @ ELSE c]
  /\ UNCHANGED <<irq, diskInt, timeout, owed, upset>>

\* fdd_operate and fdd_int: int 1Bh moves the data itself and then shows the result
\* phase, or the end of a seek, to the handler that it waits for.
BiosCall(d, c, seek) ==
  /\ Callable(d)
  /\ \E ok \in {fdc.media[d] # "none"} \cup {FALSE} :
       LET ready == fdc.media[d] # "none"
           q == [Neutral(fdc) EXCEPT !.us = d, !.crcn = 0,
                                     !.treg[d] = IF ready THEN c ELSE @]
       IN IF seek /\ ready
            THEN fdc' = [q EXCEPT !.stat[d] = "seek", !.armed = TRUE] /\ shown' = "seek"
            ELSE fdc' = Result(q, ok) /\ shown' = "result"
  /\ diskInt' = diskInt \ {d} /\ waiting' = TRUE
  /\ at' = [at EXCEPT ![d] = IF fdc.media[d] = "none" THEN @ ELSE c]
  /\ UNCHANGED <<irq, timeout, owed, upset>>

\* fdc_o94, for the new bits.  A reset leaves the request to the DMA controller.
OutCtrl(dat) ==
  /\ ~waiting
  /\ LET toggled == (fdc.ctrl \ dat) \cup (dat \ fdc.ctrl)
         rises == dat \ fdc.ctrl
         q == IF "dmae" \notin toggled THEN fdc
              ELSE [Neutral(fdc) EXCEPT !.dma = SetReady(@, FALSE)]
         r == IF "reset" \notin rises THEN q ELSE Neutral(q)
         s == IF "reset" \in rises /\ "motor" \in dat
                THEN [r EXCEPT !.istat = r.stat,
                               !.timer = [d \in Drives |-> IntDelay]]
                ELSE r
         spun == IF setup.ext /\ "motor" \in rises
                   THEN {d \in Drives : s.media[d] # "none"} ELSE {}
     IN /\ fdc' = [s EXCEPT
                     !.istat = [d \in Drives |->
                                  IF d \in spun THEN "attention" ELSE @[d]],
                     !.timer = [d \in Drives |-> IF d \in spun THEN IntDelay ELSE @[d]],
                     !.ctrl = dat]
        /\ upset' = IF "reset" \in rises \/ s.event # fdc.event
                      THEN upset \cup {"reset"} ELSE upset
  /\ UNCHANGED <<irq, diskInt, call, at, owed>>

\* dmac_o1b.
ClearDma ==
  /\ ~waiting
  /\ fdc' = [fdc EXCEPT !.dma = MasterClear(@)]
  /\ upset' = IF fdc.dma.working THEN upset \cup {"cleared"} ELSE upset
  /\ UNCHANGED <<irq, diskInt, call, at, owed>>

-----------------------------------------------------------------------------

\* fdc_reset, with the same kind of disk in all drives.
Init ==
  /\ setup \in Setups
  /\ \E m \in setup.media \cup {"none"} :
       fdc = [event |-> "neutral", us |-> 0, hd |-> 0, r |-> 1, bufcnt |-> 0,
              tc |-> FALSE, ok |-> FALSE, from |-> 0, crcn |-> 0,
              treg |-> [d \in Drives |-> 0], lasttreg |-> [d \in Drives |-> 0],
              stat |-> [d \in Drives |-> "none"],
              istat |-> [d \in Drives |-> "none"],
              timer |-> [d \in Drives |-> 0], armed |-> FALSE, ctrl |-> {},
              dma |-> ChannelReset, media |-> [d \in Drives |-> m],
              delay |-> [d \in Drives |-> 0],
              next |-> [d \in Drives |-> "writable"],
              asked |-> NoTransfer, bytes |-> 0, moved |-> <<>>]
  /\ irq = FALSE /\ diskInt = {}
  /\ waiting = FALSE /\ timeout = 0 /\ shown = "nothing"
  /\ at = [d \in Drives |-> 0] /\ owed = {} /\ upset = {}

User == \E d \in setup.changed, m \in setup.media \cup {"none"} : SetDisk(d, m)

GuestCommands ==
  \/ \E t \in setup.transfers, n \in setup.counts : Command(t, n)
  \/ ReadResult
  \/ /\ "seek" \in setup.ports
     /\ \E d \in setup.units : Recalibrate(d) \/ \E c \in setup.tracks : Seek(d, c)
  \/ /\ "sense" \in setup.ports
     /\ \/ SenseInterrupt
        \/ \E d \in setup.units, hd \in {0, 1} : SenseDeviceStatus(d, hd)
  \/ "id" \in setup.ports /\ \E d \in setup.units, mt \in BOOLEAN : ReadID(d, mt)
  \/ /\ "bios" \in setup.ports
     /\ \E d \in setup.units, c \in setup.tracks, seek \in BOOLEAN :
          BiosCall(d, c, seek)
  \/ \E b \in setup.ports \cap {"motor", "dmae", "reset"} :
       OutCtrl(IF b \in fdc.ctrl THEN fdc.ctrl \ {b} ELSE fdc.ctrl \cup {b})
  \/ "clear" \in setup.ports /\ ClearDma

Machine ==
  DmaByte \/ Interrupt \/ BiosHandler \/ WaitPolls \/ WaitReturns \/ Frame

Next == User \/ GuestCommands \/ Machine

Spec == Init /\ [][Next /\ UNCHANGED setup]_<<vars, setup>>

\* The machine goes on as long as there is something to do.
FairSpec == Spec /\ WF_vars(Machine)

-----------------------------------------------------------------------------
(* Properties. *)

\* The type of the state.
TypeOK ==
  /\ fdc \in Controller
  /\ {irq, waiting} \subseteq BOOLEAN
  /\ timeout \in 0 .. WaitLimit + 1 /\ shown \in {"nothing", "result", "seek"}
  /\ diskInt \subseteq Drives /\ owed \subseteq Drives /\ upset \subseteq Upsets
  /\ at \in [Drives -> 0 .. LastTrack]
  /\ setup \in Setups

\* What a transfer is to move: the sectors r .. eot of the head, then those of the
\* other head; when r is beyond eot, those that the track has.
Side(t, hd, first, last) ==
  [i \in 1 .. last + 1 - first |-> <<t.us, t.c, hd, first + i - 1>>]

Plan(t) ==
  IF t.r > t.eot THEN Side(t, t.hd, t.r, Sectors)
  ELSE IF t.mt /\ t.hd = 0 THEN Side(t, 0, t.r, t.eot) \o Side(t, 1, 1, t.eot)
  ELSE Side(t, t.hd, t.r, t.eot)

\* A transfer moves the sectors that were asked for, in their order, of the drive and
\* the cylinder that were asked for, never one more than the bytes of the DMA
\* channel fill; and when it reports success it has moved them all.  A disk change,
\* the handler of another interrupt, a READ ID that steps to the next track, and a
\* reset may spoil that.
SectorsInOrder ==
  fdc.bytes > 0 /\ upset = {} =>
    LET plan == Plan(fdc.asked)
        filled == (fdc.bytes + SectorSize - 1) \div SectorSize
        due == IF filled < Len(plan) THEN filled ELSE Len(plan)
    IN /\ IsPrefix(fdc.moved, plan) /\ Len(fdc.moved) <= due
       /\ fdc.event = "result" /\ fdc.ok => Len(fdc.moved) = due

\* Outside the data phases the DMA channel is asked for nothing, and no terminal
\* count is left to end the next transfer at its first byte.
RequestInDataPhase ==
  "reset" \notin upset =>
    /\ fdc.dma.ready = (fdc.event \in DataPhases)
    /\ fdc.dma.working => fdc.dma.ready
    /\ ~fdc.tc

\* The end of a seek and a change of a disk stay announced until they are sensed,
\* even when the handler that came for them could not sense them, in the data phase
\* of a write.
PendingIsAnnounced ==
  "reset" \notin upset
  /\ Told(fdc) # {}
    => fdc.armed \/ irq \/ fdc.event # "neutral"

\* A guest that leaves a seeking drive alone hears of the seek, whatever it does with
\* the other drive, and also when it has started it again meanwhile.
SeekIsReported ==
  upset \cap {"changed", "reset"} = {} =>
    \A d \in owed : fdc.timer[d] > 0 \/ d \in Told(fdc)

\* int 1Bh returns when the handler has read what this call has shown it, never by the
\* bit of an older interrupt, be it one that an earlier call has given up; or, in
\* virtual 8086 mode, when its own rounds have run out.
WaitMeansDone ==
  [][ waiting /\ ~waiting' /\ "changed" \notin upset =>
        shown = "nothing" \/ (setup.vm86 /\ timeout > WaitLimit) ]_vars

AtRest ==
  /\ fdc.event = "neutral" /\ ~fdc.armed /\ ~irq /\ ~waiting
  /\ \A d \in Drives : /\ fdc.delay[d] = 0 /\ fdc.timer[d] = 0
                       /\ fdc.stat[d] \in {"none", "address"}

\* When user and guest leave it alone, all that was begun comes to its end: the
\* transfer, the seeks, the disk changes, their interrupts and the wait of int 1Bh.
\* (A reset may leave statuses without an interrupt, and a DMA controller that was
\* cleared in a transfer may leave that to wait for it.)
Settles ==
  <>[][~User /\ ~GuestCommands]_vars =>
    []<>(AtRest \/ upset \cap {"reset", "cleared"} # {})
=============================================================================
