# A TLA+ development of Neko Project II (np2)

Neko Project II emulates the NEC PC-9801 and PC-9821 personal computers. This directory models the
part of it that is hardest to test: the virtual time on which everything else runs, and the
devices whose handlers, callbacks and guest programs interleave. Paths in this file are relative
to the root of the repository.

 1. [The system](#1-the-system): its components, their state and operations, how they interact
 2. [What is modelled](#2-what-is-modelled): module by module, against the code
 3. [What is checked](#3-what-is-checked): the runs, their bounds and the fairness
 4. [What is proved](#4-what-is-proved)
 5. [What was found](#5-what-was-found)
 6. [What is not modelled](#6-what-is-not-modelled)
 7. [The plan](#7-the-plan)

`PROJECT.json` holds the same facts for tools: the components, the runs, the lines of code each
definition translates ("map"), the hazards and the properties that cover them, and for each
property a mutated definition that breaks it.


## 1. The system

The emulator is one loop around one event queue. `pccore_exec` (`pccore.c`) runs a frame: as long
as `pcstat.screendispflag` is set it calls `pic_irq`, lets the CPU core execute until
`CPU_REMCLOCK` is used up, and then closes the slice with `nevent_progress` and `nevent_execute`,
which run the callbacks of the events that are due. A device has no thread of its own. It is a
structure with I/O handlers, which the CPU calls in the middle of an instruction, and callbacks,
which the event queue calls between two slices. Front end and host add the user's actions between
two frames. So concurrency is cooperative, but the order in which handlers, callbacks, frames and
user actions follow one another is open, and the time that a handler sees is that of an
instruction somewhere inside a slice.

| Component | State | Operations | Interacts with | What is hard |
|---|---|---|---|---|
| Event scheduler, `nevent.c` | `g_nevent`: array of items, sorted array `level`, `waitevent`; `CPU_BASECLOCK`, `CPU_REMCLOCK`, `CPU_CLOCK` | `nevent_set` (absolute, relative), `nevent_reset`, `nevent_progress`, `nevent_execute`, `nevent_forceexit`, `nevent_changeclock` | everything | time inside a slice, callbacks that arm or reset one another, a change of the clock |
| Main loop and machine reset, `pccore.c` | `pcstat`, `pccore`, `gdc.vsync` | `pccore_exec`, `screenvsync`, `screendisp`, `pccore_asynccpu`, `pccore_reset` | scheduler, every device | the frame event re-arms itself; resets happen in a fixed order |
| Interrupt controllers, `io/pic.c` | two chips: mask, request, service, priority, OCW3, ICW counter | `pic_irq`, `pic_setirq`, `pic_resetirq`, OCW1-3, ICW1-4, `picmask` | CPU, timer, V-sync, BIOS | two chips with rotation, special mask mode and a slice that must be left in time |
| Interval timer, `io/pit.c` | three channels: control word, value, latch, status, flags | control words, counts, latches, reads; `systimer`, `beeponeshot`, `rs232ctimer` | scheduler, PIC, beep, RS-232C | a channel is an event; programs and ticks interleave |
| Keyboard, `keystat.c`, `io/serial.c` | `keystat.ref`, repeat buffer, two rings, 8251 port | keys, repeats, focus, commands, reset signal, `keyboard_callback` | host, scheduler, PIC, BIOS | a code lost or doubled makes a key stick |
| RS-232C, `io/serial.c`, `io/sysport.c` | 8251, receive and send rings, cause of the interrupt, interrupt enables | data, status, command and FIFO ports, `rs232c_callback`, retry | COM manager, PIC, PIT | retries, a ring that drops its oldest byte, one variable for two causes |
| DMA controller, `io/dmac.c` | four channels, `work`, `working` | address, count, mask, mode; the data functions | FDC, sound boards | request, mask, count and phase change one by one |
| Floppy controller and drives, `io/fdc.c`, `fdd/diskdrv.c` | command, phase, per-drive status, images | phases of each command, delayed interrupts, disk changes | DMAC, PIC, front end | the user changes a disk between two phases |
| FM timers and PCM, `sound/opntimer.c`, `sound/pcm86c.c` | timers A and B, PCM FIFO | start, overflow, acknowledge | PIC (a shared line) | acknowledging one source must not hide another |
| Mouse, calendar, timer, `io/mouseif.c`, `io/upd4990.c` | counters, shift register | ports, periodic callbacks | scheduler, PIC | the same hazards as the timers |
| Fixed disks and CD-ROM, `cbus/*`, `fdd/sxsi*.c` | task file, command and data buffers | ATA, ATAPI, SASI and SCSI commands | scheduler, PIC, images | large command sets over image files |
| Disk images, `diskimage/`, `tools/pc98fat` | file formats | read, write, format | FDC | formats; cluster chains |
| Display, `io/gdc.c`, `vram/` | GDC FIFO, VRAM | commands, drawing | main loop | data, little control |
| Sound, `sound/` | generators, mixing buffers | registers, mixing | scheduler's time stamps, DMAC | sample arithmetic |
| MIDI, network and other boards, `cbus/`, `network/` | queues | ports, callbacks | host devices | bounded queues |
| CPU cores, `i286c/`, `i386c/` | registers | the instruction set | main loop | an interpreter |
| BIOS, `bios/` | work area in guest memory | interrupt handlers | PIC, keyboard, FDC | ends of interrupts |
| State save, `statsave.c` | a file | save, load | everything | rebuilding queues |
| Pacing and threads, `timing.c`, `np2_thread.c` | host clock | `timing_*` | front end | rounding |
| Host files, `generic/hostdrv*.c` | file handles | DOS redirector calls | BIOS | host semantics |
| Front ends, `sdl/`, `x/`, `windows/`, `wx/`, `web/` | user interface | menus, events | main loop | host event order |
| Tests, `tests/` | | | | |
| Vendored code, `deps/`, `sound/fmgen`, SoftFloat | | | | not this project's code |

What makes each part correct, and is stated as a property where the part is modelled:

- Scheduler: the array is ordered and holds each event once, an event fires when it is due and no
  later than the instruction in progress makes it, no operation but an instruction moves time,
  every frame ends.
- Interrupt controllers: an interrupt is delivered in the order of the priorities, never while it
  is masked or outranked; a request is not lost; one that becomes deliverable is delivered at the
  next instruction; a handler ends itself and no other.
- Timer: the system timer survives any programming, a count is read whole, a tick belongs to the
  count that brought it about, a beep ends.
- Keyboard: what the guest takes for pressed is what is pressed, the queue empties, interrupts
  come with a byte.
- DMAC and FDC: a transfer moves the sectors that were asked for and no more than its count fills,
  the channel is asked in the data phases only, the ends of seeks and the changes of disks stay
  announced until they are sensed, int 1Bh waits for its own interrupt, all comes to rest.
- RS-232C: a byte leaves once and in order, a byte is read once and in order or was dropped by the
  ring, and no interrupt is missing that the traffic needs.
- FM (planned): the shared line is up as long as one of its sources is.


## 2. What is modelled

| Module | Models | Uses |
|---|---|---|
| `Timers` | what the scheduler promises, with neither array nor slices | |
| `NEvent` | `nevent.c` and the main loop | `Timers` (refinement) |
| `NEventProofs`, `NEventTimersProofs` | theorems about `NEvent` | `NEvent`, TLAPS |
| `Pic` | `io/pic.c`, interrupt flag, V-sync hand-over | |
| `PicHandlers` | a guest whose handlers end like those of the BIOS | `Pic` |
| `PicProofs` | theorems about `Pic` | `Pic`, TLAPS |
| `PicHandlersProofs` | theorems about `PicHandlers` | `PicHandlers`, `PicProofs` |
| `Pit` | `io/pit.c`, the gate of the beep, the timer's line | `Timers` |
| `PitGuest` | a guest that latches and reads whole words | `Pit` |
| `PitProofs` | theorems about `Pit` and `PitGuest` | `PitGuest`, TLAPS |
| `Keyboard` | `keystat.c` and the keyboard half of `io/serial.c` | |
| `KeyboardProofs` | theorems about `Keyboard` | `Keyboard`, TLAPS |
| `Dmac` | a channel of `io/dmac.c` and `mem/dmax86.c`, as operators | |
| `Fdc` | `io/fdc.c`, `fdd/diskdrv.c`, `bios/bios12.c`, the wait of `bios/bios1b.c` | `Dmac` |
| `FdcProofs` | theorems about `Fdc` | `Fdc`, TLAPS |
| `Rs232c` | the RS-232C half of `io/serial.c`, its bits of `io/sysport.c`, the host's port | |
| `Rs232cProofs` | theorems about `Rs232c` | `Rs232c`, TLAPS |

`Timers` is the hinge. `NEvent` is shown to implement it (checked and proved), and `Pit` is built
on it: its ticks are steps of `Timers`, so nothing about arrays and slices has to be carried
through the models of the devices. The `MC...` modules only give values to constants.

Operators whose comment begins with "Mutant of X" are no part of any specification. Each is a
plausible bug in the code that X translates (a dropped guard, a missing reset, an off-by-one) and
breaks the property it is listed with in `PROJECT.json`: they show that the properties say
something about the code.

### NEvent

| State | Code |
|---|---|
| `level` | `g_nevent.level[0 .. readyevents-1]`, a sequence |
| `waitevent` | `g_nevent.waitevent`, without those that were run |
| `clock[id]`, `fired[id]`, `proc[id]` | `item[id].clock`, its flag `NEVENT_SETEVENT`, `item[id].proc` |
| `base`, `rem`, `cpuclock` | `CPU_BASECLOCK`, `CPU_REMCLOCK`, `CPU_CLOCK` (modulo `ClockMod`, 2^32 in the code) |
| `multiple`, `screendispflag` | `pccore.multiple`, `pcstat.screendispflag` |
| `phase` | where `pccore_exec` is |

`StartFrame`, `EnterCpu`, `Instruction`, `Halt`, `EndInstruction`, `Progress`, `EndCallback`,
`EndExecute` and `AsyncCpu` are the main loop; `ScreenVsync` and `ScreenDisp` its own two
callbacks. `ClientSet`, `ClientRearm`, `ClientStart`, `ClientReset`, `ClientForceExit` and
`ClientChangeClock` are the calls that devices make, from an I/O handler (phase `io`), from their
callbacks (`exec`), or between two frames (`frame`). The sets `Periodic`, `Guarded`, `Resettable`
and `IoRelative` say which event is used in which way, as the code's clients do. `Place` is the
insertion of `nevent_set` with its shortening of the slice. An instruction first takes its clocks;
in phase `io` its handlers, if it accesses a port, run any number of them.

### Pic and PicHandlers

`imr`, `isr`, `irr` and `pry` are the fields of `pic.pi[chip]`, as sets of lines; `smm`,
`writeicw` and `ic4` the parts of `ocw3` and `icw` that anything depends on; `maskevent` whether
`NEVENT_PICMASK` is armed; `vsyncint` and `vsync` the fields of `gdc`; `ei` the interrupt flag.
`PicIrq` is `pic_irq`, `SetIrq` and `ResetIrq` the functions devices call, `Ocw2`, `Ocw3`, `Icw1`,
`IcwNext` and `Ocw1` the two ports of a chip, `PicMask` the callback, `ScreenVsync` and
`ScreenDisp` what those callbacks do for the V-sync interrupt, and `GdcO64` the port that asks for
it. A write that calls `nevent_forceexit` ends the slice (phase `events`); the instruction after
STI is phase `shadow`.

`PicHandlers` keeps a stack of the handlers that have not returned. `Epilogue` is the end of
interrupt of `bios09.c`, `bios0c.c`, `bios12.c` and `bios13.c`: EOI to the slave, a look at what
it still has in service, EOI to the master.

### Pit and PitGuest

`pit[c]` has the control word, flags, value, latch and status of `pit.ch[c]`, with the bits of
`flag` as a set. `armed`, `pending` and `remain` are the scheduler. `OutCount`, `OutControl`,
`OutLatch`, `OutReadBack` and `InCount` are the ports; `Systimer`, `BeepOneShot`, `Rs232cTimer`
and `PicMaskCallback` the callbacks; `low` and `beepmode` belong to the gate of the beep.
`PitGuest` adds a program that latches a word and reads its two bytes while ticks, counts and
status read-backs come in between, and history: the count at the time of the latch (`taken`), and
the clocks since the system timer was started (`since`).

### Keyboard

`ref` is `keystat.ref` (who holds a key), `rep` `keyrepeat_buf`, `ctr` and `buf` the two rings of
`keybrd`, `data`, `rxrdy` and `overrun` the port, `param` and `stop` the state of the keyboard's
own commands. `KeyDown`, `KeyUp`, `AllRelease`, `KeyRepeatProc` and `ToggleRepeat` are the host;
`KeyboardCallback` the event; `Deliver`, `ReadData` and `HandlerReturns` the guest's interrupt;
`Command`, `Parameter`, `OutCommand` what it writes, with the reset signal. `seen` and `synced`
are history: the keys that the guest takes for pressed, and whether it was told all it needs (not,
after a code was dropped or the user switched the repeating with a key held). What the host does to
keys goes through `Send(released, pressed)`, the breaks of some keys and the make of at most one,
which `Through` leads past `keyrepeat_buf` when the emulator repeats the keys. `MachineReset` ends,
like `pccore_reset`, with `keystat_initialize`, which releases all keys but keeps the keys of
`keyrepeat_buf`.

### Fdc and Dmac

`fdc` is the controller as one record: `event`, `us`, `hd`, `R`, `bufcnt`, `tc`, `treg`, `crcn`,
`stat`, `int_stat` and `int_timer` are fields of `fdc` in the code, `lasttreg` is
`fdc_lasttreg`, `ctrl` three bits of `ctrlreg`, `armed` the event `NEVENT_FDCINT`, `dma` the
channel, `media`, `delay` and `next` the drives of `diskdrv.c`. `stat` keeps what the code asks of
it: whether it is 0, an address only, the end of a seek or a change of the ready line. Bits of the
status register that follow from `event` are no state.

The functions of the code that call one another are operators on that record (`Result` for
`fdcsend_success7` and `fdcsend_error7`, `ReadSector`, `NextRead`, `WriteSector`, `DataRead`,
`DataWrite`), so that an action is the whole of a handler: `DmaByte` is a byte that `dmax86` moves
with everything that follows from it, up to the result and the next sector. `Command`,
`ReadResult`, `Seek`, `Recalibrate`, `SenseInterrupt`, `SenseDeviceStatus`, `ReadID`, `OutCtrl`
and `ClearDma` are the guest, `SetDisk` the user, `Frame` the end of a frame (`diskdrv_callback`,
then `fdc_intdelay`), `Interrupt` the event, `BiosHandler` the handler of `bios12.c`, and
`BiosCall`, `WaitPolls` and `WaitReturns` int 1Bh, which moves the data itself and then shows the
result phase, or the end of a seek, to the handler. Its wait returns with the bit of the drive or,
in virtual 8086 mode (`vm86` in a setup), when `timeout` has passed `WaitLimit`: `timeout` is
`int_timeout` in rounds, and `WaitLimit` stands for three seconds of them. A call may follow one
that has given up while the result of that is still there and its interrupt on the way
(`Callable`). `Told` are the drives whose status tells the guest something. `shown`, `at`, `owed`,
`upset` and the fields `asked`, `bytes` and `moved` are history: what int 1Bh has shown and nobody
has read, where the guest put the heads, the seeks it waits for, what the properties must make
exceptions for, and what a transfer was to do and did.

`Dmac` has the channel that the disk uses: `Check` is `dmac_check`, which starts a channel that is
neither masked nor idle, and `Step` a turn of `dmax86`.

### Rs232c

`rs` is the port as one record: `cmd`, `result`, `data` and `send` are fields of `rs232c`,
`lastfail` the static variable of `rs232c_o30`, `fifo` bit 0 of `port138`, `irqflag` the cause,
`ring` and `wbuf` the two rings from the read to the write position, `count`
`rs232c_removecounter`. `held`, `line` and `inbox` are the host's port, which takes a byte or
keeps it for `writeretry`. `enabled` is bits 0 to 2 of `sysport.c`. `Retry` is
`rs232c_writeretry`, which the callback and every access begin with; `Received` and `Transmitted`
are the two halves of `rs232c_callback`. Bytes are numbers in the order in which they are sent, so
that order and doubling show. `handler` is the guest's program counter: its handler reads the
cause (port 136h, in FIFO mode) and then serves what the line status says.

With `Inverted` FALSE the host's port is that of Windows, which answers what became of a byte and
keeps one that has not left (giving it up after three seconds, `windows/commng/cmserial.cpp:368`,
is left out). With `Inverted` TRUE it is that of `sdl` on a POSIX host: `lastwritesuccess` answers
the opposite, which is finding 3, and a retry that cannot write loses the byte (`PortRetry`). A
reset leaves the line open, or closed in builds with `VAEG_FIX` (`boot` in a setup).

### Repertoires

`Pic`, `Keyboard`, `Fdc` and `Rs232c` have a variable (`guest`, `setup`) that is chosen at the
start and never changes: what this guest, its devices and its user do. One run checks all its
values, and its states are the sum of several small instances and not the product. `rotates` in
`PicHandlers` works the same way.


## 3. What is checked

| Run | Module, configuration | What it asks | States |
|---|---|---|---|
| `nevent_core` | `MCNEvent`, `NEventCore.cfg` | the scheduler at a fixed CPU clock: lateness, time stamps, frames end | 46,582 |
| `nevent_clocks` | `MCNEvent`, `NEventClocks.cfg` | order and refinement when the clock changes and events are started from I/O handlers | 95,643 |
| `nevent_start` | `MCNEvent`, `NEventStart.cfg` | violation: finding 1 | |
| `pic` | `MCPic`, `Pic.cfg` | priorities, masks, requests, prompt delivery, V-sync | 730,052 |
| `pic_unmask` | `MCPic`, `PicUnmask.cfg` | violation: finding 2 | |
| `pic_handlers` | `MCPicHandlers`, `PicHandlers.cfg` | nested handlers end themselves only; requests are served | 30,656 |
| `pit_guest` | `MCPitGuest`, `PitGuest.cfg` | the system timer, a program that reads it, its interrupt | 856,940 |
| `pit_beep` | `MCPit`, `PitBeep.cfg` | the beep and the RS-232C clock beside the system timer | 2,931,279 |
| `keyboard` | `MCKeyboard`, `Keyboard.cfg` | keys, repeats, queues, commands, resets | 365,824 |
| `fdc` | `MCFdc`, `Fdc.cfg` | transfers by DMA, seeks, disk changes, the BIOS and its wait, resets | 283,192 |
| `rs232c` | `MCRs232c`, `Rs232c.cfg` | retries, rings, FIFO mode, interrupts, a reset | 287,440 |
| `rs232c_sdl` | `MCRs232c`, `Rs232cInverted.cfg` | violation: finding 3 | |

All state spaces are explored to the end, with deadlock checking on.

### Bounds, and why they are enough

- **Scheduler.** Three events: the frame, one that re-arms itself and may be reset, one that is
  armed only when idle. Three is the least number at which an insertion has a middle, and at which
  a callback can meddle with an event that is due at the same moment and with one that is not.
  Delays of 1 and 3 (1 and 2) clocks against instructions of 1 and 3 (1 and 2), frames of 4+2
  clocks and slices of at most 3 give every order of due times, two events due at once, a slice
  cut short by `NEVENT_MAXCLOCK`, and instructions that overrun one or two events. Delays are not
  0: every client passes at least one clock. `ClockMod` 4 lets `CPU_CLOCK` wrap. `StaleBound`
  bounds how far `ClientStart` adds to an old `item->clock`; it is the only counter that would
  grow for ever.
- **Interrupt controllers.** Three lines per chip for eight (`Top` 2): the timer, V-sync and the
  cascade on the master. A rotation then has lines before, at and behind the winner. Two guests,
  one that nests, rotates and uses the special mask mode and one that initialises the chip and
  waits for V-sync.
- **Timer.** Bytes of base 2 for 256, so that a word is two digits and 4 stands for 65536; the
  floors 0, 1 and 0 for 8, 2 and 1 leave small counts on both sides. Both values of a byte in
  `pit_guest`, every access that needs two bytes, one rate generator and one one-shot mode.
  `pit_beep` has all three channels, and its modes are one of each kind that the code tells apart.
  `Costs` include an instruction that runs past a tick.
- **Keyboard.** Four setups: two host keys of one code; two keys with the emulator's own repeat; a
  guest that stops the repeating; a locking key and lamp commands. The ring of the codes (3, in
  the code 128) overflows and the repeat buffer (2, in the code 16) fills. The ring of the answers
  (4, in the code 8) is shown not to fill. The guest looks at the status before it reads.
- **Floppy disk.** Two drives, two cylinders, two heads, two sectors of two bytes: a transfer has
  a sector that is neither first nor last and turns to the other head. One setup has every
  transfer of a track (heads, first and last sectors, multi-track or not, read or write) with
  counts that end in the middle of a sector, at its end, and not at all. The others let one thing
  at a time come between: seeks of both drives, disk changes under a transfer, the same under int
  1Bh with a drive that reports its motor, int 1Bh in virtual 8086 mode among seeks by the ports,
  READ ID, resets. `WaitLimit` 1 lets a wait give up before and after its interrupt, and the next
  call come before the late one. `IntDelay` 2 (in the code 6) and
  `DiskDelay` 1 let a seek be started again before it is reported.
- **RS-232C.** Rings of three bytes (in the code 63 and 255) that are nearly full from two bytes
  on, one byte that the host's port takes at once, and 5 bytes in a direction, so that the receive
  ring fills and drops, and its interrupt near the end comes again. The send buffer never fills,
  for a guest that heeds TxRDY. `ClearCount` 3 (in the code 16) drops a byte that is read late.
  The setups are a slow receiver that closes the line, both directions with either interrupt of
  the transmitter, the same bit by bit over port 37h from a closed line, the FIFO mode for each
  direction, and a reset in the middle.

### Fairness, and what justifies it

- `NEvent!FairSpec`: the main loop goes on (weak fairness of `System`). `pccore_exec` is called
  again and again, and an instruction, handler or callback returns. Clients have none: they may
  never call the scheduler.
- `PicHandlers!HFairSpec`: the main loop, weakly. For the guest strong fairness: its handlers end
  and return, and outside of them it opens the interrupt window now and then. That is the guest's
  part of the bargain and not a fact of the code; without it no controller can serve anything.
- `PitGuest!GFairSpec`: weak fairness of `Time`, that is instructions, slices and callbacks.
- `Fdc!FairSpec`: weak fairness of `Machine`: frames, events, `dmax86` and the handler of the BIOS
  go on. The guest and the user have none; `Settles` speaks of the time when they have stopped.
- `Rs232c!FairSpec`: weak fairness of the callback, of the host's port and of the guest's handler.
  `TrafficFlows` asks besides that the guest keeps the line open and the interrupts enabled.
- `Keyboard!FairSpec`: the event comes (which `NEvent` shows of an event that is not reset), the
  interrupt is taken, and the handler reads its byte.

### The properties that took thought

- `LateByOneInstruction` measures how late a callback can be: the slice is cut at the first event,
  so only the instruction in progress can pass it.
- `MaskIsObeyed` has an exception that the code really has: with a rotated priority, `pic_irq`
  goes on to serve a slave that is in service although the guest masked the cascade meanwhile
  (`io/pic.c:163-172`).
- `PromptService` lists when a request may become deliverable and the CPU stay in the slice: in
  the special mask mode, or when a line is masked and thereby frees others (the code compares only
  the bits that were cleared), or by unmasking the cascade, which is finding 2.
- `WaitWithinPeriod` is a subtle point of `pit.c`: a rate generator re-arms itself with a count of
  which only one byte may have been written, and the second byte starts it anew. It measures the
  period by the model's own `Ticks`: that the floors under which a count stands for 65536 are the
  right ones is taken from the code.
- `NoKeySticks` relates the host to the guest over everything that is on the way.
- `SectorsInOrder` holds the sectors that a transfer has moved against a plan made from the
  command alone; its exceptions (`upset`) are real, see the observations below. They last to the
  end of a behaviour: of what follows a disk change under a transfer, or a reset, it says nothing.
- `WaitMeansDone` follows what a call of int 1Bh has shown (`shown`) to the handler that reads it.
  A bit that an earlier call has left must not end the wait of the next one; only the timeout of
  virtual 8086 mode may return before the handler has read. A disk change (`upset`) is excepted,
  as it moves `fdc.us`, and with it the bit that is looked at.
- `WordsAreWhole` is about ticks, new counts and status read-backs in the middle of a word. A
  handler that latches or reads the same channel replaces the word or takes a byte of it (see the
  observations below); the program of `PitGuest` has no such handler.
- `ImplementsTimers` lets a change of the clock move the due times as long as their order stays:
  what is left of an event may be rounded to nothing (`nevent.c:276`).
- `PendingIsAnnounced` is about the handler that comes too early: in the data phase of a write it
  can sense nothing, and what it left must be found with the interrupt of the result.
- `TrafficFlows` needs the handler to look at both bits of the line status. The variant that
  follows the cause alone fails, which is among the observations.


## 4. What is proved

By TLAPS, for all values of the constants that satisfy the assumptions of the modules.

| Theorem | Says | Run with the same property |
|---|---|---|
| `NEventProofs!TypeCorrect` | `Spec => []TypeOK` | `nevent_core` |
| `NEventProofs!LevelIsOrdered` | `Spec => []LevelOrdered` | `nevent_clocks` |
| `NEventProofs!NothingIsOverrun` | `Spec => []NoOverrun` | `nevent_core` |
| `NEventProofs!ClocksTellPending` | `Spec => []ClockTellsPending` | `nevent_core` |
| `NEventProofs!TimeIsPreserved` | `Spec => TimePreserved` | `nevent_core` |
| `NEventProofs!EventsAreOnTime` | `Spec => []LateByOneInstruction` (1) | `nevent_core` |
| `NEventTimersProofs!ImplementsAbstractTimers` | `Spec => Abstract!Spec`: the scheduler implements `Timers` | `nevent_clocks` |
| `PicProofs!TypeCorrect` | `Spec => []TypeOK` | `pic` |
| `PicProofs!VsyncIsPrompt` | `Spec => []VsyncInRetrace` | `pic` |
| `PicProofs!NestingIsKept` | `Spec => FullyNested` | `pic` |
| `PicProofs!MasksAreObeyed` | `Spec => MaskIsObeyed` | `pic` |
| `PicProofs!RequestsAreKept` | `Spec => RequestsKept` | `pic` |
| `PicProofs!VsyncIsOwed` | `Spec => VsyncKept` | `pic` |
| `PicProofs!ServiceIsPrompt` | `Spec => PromptService` (3) | `pic` |
| `PicHandlersProofs!EoiEndsItsHandler` | `HSpec => []InServiceIsStack` | `pic_handlers` |
| `PitProofs!TypeCorrect` | `Spec => []TypeOK` | `pit_beep` |
| `PitProofs!TimersGoOn` | `Spec => []TimerNeverStops` | `pit_beep` |
| `PitProofs!BeepsEnd` | `Spec => []BeepHasAnEnd` | `pit_beep` |
| `PitProofs!WaitsAreBounded` | `Spec => []WaitWithinPeriod` | `pit_guest` |
| `PitProofs!UnmaskedTicksAreKept` | `Spec => UnmaskedTickKept` | `pit_guest` |
| `PitProofs!WordsAreNotTorn` | `GSpec => []WordsAreWhole` | `pit_guest` |
| `PitProofs!TicksAreFresh` | `GSpec => []NoStaleTick` | `pit_guest` |
| `KeyboardProofs!TypeCorrect` | `Spec => []TypeOK` | `keyboard` |
| `KeyboardProofs!NoKeyEverSticks` | `Spec => []NoKeySticks` | `keyboard` |
| `KeyboardProofs!InterruptsBringBytes` | `Spec => NoSpuriousInterrupt` | `keyboard` |
| `Rs232cProofs!TypeCorrect` | `Spec => []TypeOK` | `rs232c` |
| `Rs232cProofs!ReceivesInOrder` | `Spec => []ReceivedInOrder` | `rs232c` |
| `Rs232cProofs!SendsInOrder` | `Spec => []SentInOrder` (2) | `rs232c` |
| `FdcProofs!TypeCorrect` | `Spec => []TypeOK` | `fdc` |
| `FdcProofs!RequestsMatchPhases` | `Spec => []RequestInDataPhase` | `fdc` |
| `FdcProofs!StatusesAreAnnounced` | `Spec => []PendingIsAnnounced` | `fdc` |
| `FdcProofs!SeeksAreReported` | `Spec => []SeekIsReported` | `fdc` |
| `FdcProofs!WaitsMeanDone` | `Spec => WaitMeansDone` | `fdc` |
| `FdcProofs!SectorsMoveInOrder` | `Spec => []SectorsInOrder` | `fdc` |

**Assumptions.** `EventsAssumption` (the roles of events are subsets of the events, and the frame
event has none), `ClocksAssumption` (delays and costs are positive; they may be infinite sets),
`LinesAssumption` (timer, V-sync and cascade are different lines of the chip), `PitAssumption` (a
byte has at least two values, channel 0 is there), `KeyboardAssumption` (the ring of codes holds
one for every key and the ring of answers more than three, which is the longest answer: 128 and 16
in the program; the keys are finitely many), `Rs232cAssumption` (the rings hold at least two
bytes, and their thresholds lie within), `FdcAssumption` and `CountAssumption` (there is a drive
and a track, and a sector has bytes; a guest that switches the DMA requests or resets the
controller does not write to disks), and some that only give constants their type. The sets of
events, channels, drives, users and guests need not be finite. Three theorems have hypotheses of
their own:

1. `IoRelative = {}` and one clock multiple: no handler arms an event relative to a clock that may
   be stale (where one does, finding 1 is about it), and the clock does not change, which would
   rescale what an event is late by.
2. `Inverted = FALSE`: the host's port answers what became of a byte. Finding 3 is about the ports
   that answer the opposite.
3. `Cascade = Top`: the slave drives the last line of the master, as it does in the PC-98 (line 7).
   Were there a line behind it, an ICW1, which resets the priorities and leaves the handlers in
   service, could put a handler behind the cascade and so make a request of the slave deliverable
   without leaving the slice.

**The scheduler.** `LevelOrdered` is not inductive: that the slice ends by the first event says
nothing of an event which is inserted before it when the slice is shortened, and a callback may
re-arm an event that is still owed. `SchedulerInv` adds that the rest of the slice is no longer
than the slice, that every armed event lies at or behind its end and is not owed, that an owed
event has clock 0, is still in `waitevent`, and is owed only in phase `exec`, and that otherwise
`waitevent` is empty. It splits into the type, the queue (`QueueInv`) and the callbacks
(`OwedInv`), and each operation on the array has its lemma: `RemovedQueue`, `PlaceQueue`,
`ProgressQueue` and `ChangeClockQueue`. The lemmas under them say what `Keep` (the loop that
removes entries), the insertion and the scaling of a clock do to an ordered sequence; `Keep` is
defined with `Rank` and not by recursion, so that they can be proved. `EventsAreOnTime` rests on
it: an event that is due lies at the end of a slice, and the slice is overrun by the last
instruction only.

**The refinement.** `armed` is the set of the entries of `level`, `pending` the set of owed
events, and `remain` the clock less the time since the slice began. `StepRefines` goes through the
actions under `SchedulerInv`: an instruction is `Tick`, `Progress` is `Expire` (which needs the
order of the array: the events that are due are those with the least remaining times),
`nevent_set` is `Arm`, `ArmStale` or `Rearm` according to the flag and the caller, a change of the
clock is `Rescale`, and the rest are stuttering steps.

**The interrupt controllers.** `Inv`, the conjunction of `TypeOK` and `VsyncInRetrace`, is
inductive. `DeliverableProperties` is the lemma on which nesting and masks rest: what `pic_irq`
picks on a chip is the least, by distance from `pry`, of the requests and the lines in service.
That there is a least one comes from `LeastNat`, as distances are natural numbers. For
`PromptService` an instruction that stays in the slice is compared with the state before it: an
OCW1 or an OCW2 that does not leave the slice changes nothing that `pic_irq` looks at
(`SameDeliverable`), and an ICW1 drops the requests of its chip, so that only the new priorities
could let the cascade through, behind which there is no line (`Icw1IsPrompt`).

**The handlers.** That the lines in service are those of the handlers on the stack is not enough:
an EOI without a level ends the most urgent line in service, and that this is the line of the
running handler needs `Nested`. The handlers that are not done lie on the stack in the order of
their priorities, on each chip and through the cascade, and only the running one may have sent its
EOI, with interrupts disabled. A handler that rotates the priorities moves its own line behind all
others, which keeps the order of the rest (`RotationKeepsOrder`).

**The timer.** `PitInv` joins the properties with each other (a rate generator that never waits
longer than its period also never stops) and adds that an owed callback is due and that mode 0 of
the beeper comes from the mode of channel 1. The wait of an idle beep
is doubled until it is long enough; `Doublings` is a closed form of that loop, whose largest
element exists (`LargestInt`). `WordInv` follows a word through the latch: between its
bytes the flags say which half comes next. `StaleInv` bounds the time since the timer was
programmed by what its event still waits for.

**The keyboard.** `NoKeySticks` says of a queue of codes what a guest knows when it has read them.
That is a fold over the queue, stated without recursion by `After`: the last code of a key counts.
The lemmas are those of a fold (`AfterConcat`, `AfterOne`) and say what the breaks and makes of
some keys tell (`BreaksFacts`, `MakesFacts`). `KeyInv` adds that keys which do not repeat are never
in `keyrepeat_buf` (`RepeatsOnly`): without it a guest that switches a lamp off by a command could
leave its key there. `Without`, which takes keys out of that buffer, is a recursive function; that
its equation has a solution, and what it returns, is shown by a least counterexample
(`WithoutExists`, `WithoutFacts`). A reset of the keyboard finds room for every key that is held,
because a key is in the list once and the ring holds them all (`ResetSignalFacts`).

**The RS-232C.** `QueueInv` says of the bytes that came in that what was read, what the ring
holds, and what the port holds are in order one behind the other, and with the dropped ones all
there are; `ReadyInv` that with RxRDY set `data` is the next one of them. For the transmitter
`Stream` is what has left with what waits, and each operation leaves it as it is or appends the
byte that the guest writes (`Sends`). `SenderInv` relates TxRDY and TxEMP to the byte that waits
and the buffer; without it a byte could be taken while one waits. After a reset the stream is no
longer in order, but `SendInv` still has no byte in it twice. The loop of `rs232c_callback` over
the buffer is `Drained`, with the number `Passed` of the bytes that the port takes, in a closed
form, so that it could be reasoned about without recursion.

**The floppy disk.** `IInv` has a part per property. `TransferInv`: a data phase has bytes to come
and its sector exists, which keeps every counter in its range. `MatchedInv`: phase and request of
the DMA channel go together, and no terminal count is left, until the controller is reset; a guest
that writes never resets it, so this holds of all its transfers. `AnnouncedInv`: a result comes
with an interrupt, so what a handler could not sense in the data phase is found then. `SeekInv`: a
command is for a drive that is not sought, and what the timer of a drive sets aside is worth
announcing; hence seeks of many drives, started again at any time, are reported. `WaitInv`: while
int 1Bh waits and no disk has changed, the bit of its drive says that the handler has read what
the call has shown; a result that was shown is still the phase of the controller, and a seek that
was shown finds it idle, so that the next interrupt reads either; and only a wait in virtual 8086
mode counts its rounds. It holds of the call after one that has given up as well: a call clears
the bit first, and what a late interrupt finds then is what the new call has shown. A frame is
`SeekDelays` after `DiskDelays`, closed forms of the loops over the drives, with a lemma each.

`SectorsInOrder` compares the sectors that were moved with a plan that is made from the command,
and says nothing of where the controller stands. `OrderInv` does: while a transfer goes on and
nothing upsets it, a sector that is being sent is the last one moved, one that is being received is
the next one, and either is where the plan has it (`Comes`); and the bytes that went through the
DMA channel (`Gone`) make up the transfer's with those that it still counts. `PlanFacts` says that
a sector at which `Comes` holds is that element of the plan, and when it is the last;
`ComesNext` that what the code turns to next comes next; `FilledFacts` relates the sectors that
some bytes fill to the bytes; and `MovedMore` joins them. It is inductive together with `IInv`, and
like the property it says nothing once something has upset the transfer. TLC checked it on every
state of `fdc` before it was proved.

**Only model-checked.** All liveness (`FrameEnds`, `RequestsServed`, `TicksKeepComing`,
`BytesArrive`, `Settles`, `TrafficFlows`), which needs fairness and `ENABLED`, out of this
prover's reach.


## 5. What was found

Three disagreements between the code and what it says of itself, each with a run that shows it.

1. **A Sound Blaster DMA may start too early** (`nevent_start`). `ct1741dmafunc` computes a first
   delay under the comment that too short a wait causes noise (`sound/ct1741c.c:404`) and passes
   it with `NEVENT_RELATIVE`, from an I/O handler. Relative means relative to whatever
   `item->clock` holds. That is right in the event's own callback only; here it may be 0, and then
   the delay counts from the start of the slice.
2. **Unmasking the cascade does not end the slice** (`pic_unmask`). `pic_o02` asks whether there
   is an interrupt for the bits that were cleared (`io/pic.c:353`) with `picp->irr & set`, but the
   request of the slave is never in the `irr` of the master, so the answer is always no for that
   bit, and the interrupt waits for the end of the slice.
3. **A successful write counts as a failed one** (`rs232c_sdl`). `seriallastwritesuccess` of
   `sdl/cmserial.c:160`, `x/cmserial.c:117` and `wx/cmserial.cpp:121` returns `lastdatafail`,
   which is 1 when the write failed. `io/serial.c` takes the answer for success (comments at
   `:198`, `:200` and `:524`), as the port of Windows gives it. So TxRDY and TxEMP do not come
   back after a byte that has left, and a byte that was not taken counts as sent.

Other observations, of which no document of the repository says how they should be. The models do
what the code does, except where they leave it out, as an entry then says.

- `io/pic.c:316`: `dat &= PIC_OCW3_RIS` drops ESMM and SMM unless the OCW3 also selects a
  register.
- `io/pic.c:331-334`: ICW1 leaves the in-service register as it is.
- `io/pit.c:513` and `:516` assign `pit.ch[0].ctrl` twice; the second seems meant for channel 1,
  which stays in mode 0 after a reset. `beep_reset` closes the gate, so nothing is heard.
- `io/pit.c:189-206`: the count of channel 1 falls through to the formula of channel 2 when no
  event is under way.
- `io/pit.c:470`: latching the count of channel 0 takes back the request of the timer.
- `io/pit.c:236`: a second latch before the first was read replaces the word, one byte of which
  may have been read.
- `keystat.c:23`: a switch of the emulator's own repeating while a key is down, and
  `pccore.c:1466`: a machine reset, both leave a key in `keyrepeat_buf` that nobody holds.
- `keystat.c:651`: with 16 keys in the repeat buffer, another key is marked as pressed but not
  sent.
- A reset of the keyboard leaves its request at the interrupt controller.
- `pccore.c:1784`: `pccore_asynccpu` comes after `nevent_progress`, which adds a new slice to what
  is left of the old one. An instruction that overran its slice leaves `CPU_REMCLOCK` below
  `CPU_BASECLOCK`, so the branch of `nevent_changeclock` for automatic changes, which a comment
  says was arranged for (`nevent.c:283`), is not always taken. The other one is harmless but
  rounds.
- `fdd/diskdrv.c:221,245`: a disk change sets `fdc.us`, so the rest of a transfer goes to the
  drive whose disk was changed, and the wait of int 1Bh looks at the bit of that drive.
- `bios/bios12.c:59-67`: a handler that comes in the data phase of a read takes bytes of the
  sector for the result and writes them from 5D0h on. `bios0x13` lacks the guard that `bios0x12`
  has at the interface that is selected (`:26`).
- `io/fdc.c:1006`: a reset by bit 7 takes neither the request of the DMA channel nor a terminal
  count back; what is left ends the next transfer at its first byte. With the motor on it
  overwrites what a delayed seek had to report. `io/dmac.c:204`: a master clear masks the channel
  without `dmac_check`; the next sector of a transfer that goes on then waits for ever.
- `bios/bios1b.c:1101`: in virtual 8086 mode the wait of int 1Bh gives up after three seconds, a
  provisional remedy for an endless loop as its comment says, and returns as if it had been served.
- `io/fdc.c:589`: SENSE INTERRUPT STATUS prefers the drive of the last command; the commands that
  set `stat` to an address overwrite what that drive had to report.
- `diskimage/fddfile.c:328,332`: READ ID steps `treg` behind the last sector, so that a read after
  enough of them moves the sectors of the next cylinder.
- `io/serial.c:352,371`: in FIFO mode "receive" may be overwritten by "send" before the guest
  reads it. A guest that follows the cause and not the line status is not interrupted again for
  what waits in the ring. Outside of FIFO mode the cause is set and nobody clears it: a guest that
  enters FIFO mode without reading port 136h receives nothing.
- `io/serial.c:206`: the retry takes a byte out of the FIFO buffer although it may have been
  written before the mode was entered; the buffer then seems to hold 255 bytes.
- `io/serial.c:337`: when the only byte of the ring is dropped RxRDY stays, and outside of FIFO
  mode a later byte brings no interrupt.
- `io/serial.c:638-646`: a read of port 130h with an empty ring takes a byte from the port and
  drops it.
- `io/serial.c:895`: a reset leaves both rings and `lastfail`; old bytes leave and arrive later.
- `sdl/cmserial.c:149`: the retry tests for 0, while `write` returns -1 when it fails; the byte
  counts as written and is lost. `x/cmserial.c` and `wx/cmserial.cpp` do the same, and do not
  clear `lastdatafail` when a write succeeds (which is not in the model).


## 6. What is not modelled

The last columns of `components` in `PROJECT.json` give the reason for each part. In short:

- The CPU's instruction set, drawing, sound samples, file formats and host files are data and not
  control, or out of a model checker's reach.
- The FM timers with the line they share, the mouse and the calendar are control of the kind that
  is modelled here; they come next. The queues of the MIDI board and the task files of the fixed
  disks would be worth a module as well.
- Within the modelled parts: vectors, the polling mode and reprogrammed cascades of the interrupt
  controllers; the value of the status byte and the BCD bit of the timer; joystick and
  user-defined keys; transfers without DMA, formatting, the second interface and the bytes of a
  result of the floppy disk; the mode words, speeds, errors and block transfers of the RS-232C,
  and the build for libretro, whose port 30h sends nothing; the flags `NEVENT_ENABLE` and
  `NEVENT_WAIT`, which the program never sets; the locks that builds with `SUPPORT_MULTITHREAD`
  put around the scheduler.
- Threads and host time. Emulated time is the only time of these models.
- Saving and loading the state.


## 7. The plan

Done, in this order: the scheduler and its contract (modelled, proved to implement the contract),
the interrupt controllers (modelled and proved, with nested handlers), the timer over the contract
of the scheduler, the keyboard, the floppy disk with its DMA channel and the BIOS, the RS-232C.

Next modules:

1. `Opna`: timers A and B of `sound/opntimer.c` and the FIFO of `sound/pcm86c.c`, which share a
   line.
2. The second interface of the floppy disk and transfers without DMA, in `Fdc`.
3. If there is room, the allocation of clusters in `tools/pc98fat/pc98fat.c` as a pure algorithm
   against a reference definition.

Next proofs: theorems about these modules. Of the present ones every safety property that a
passing run checks is a theorem.
