------------------------------- MODULE NEvent -------------------------------
(***************************************************************************)
(* nevent.c, the event scheduler of the emulator, driven by the main loop  *)
(* pccore_exec of pccore.c.                                                *)
(*                                                                         *)
(* Virtual time is counted in CPU clocks.  The CPU runs in slices: base is *)
(* the length of the current slice (CPU_BASECLOCK), rem what is left of it *)
(* (CPU_REMCLOCK, negative when the last instruction ran past the end), so *)
(* base - rem clocks have passed since the slice began.  An armed event    *)
(* sits in level, ordered by clock[id], its distance from the start of the *)
(* slice.  nevent_progress closes a slice, moves the events that are due   *)
(* to waitevent and runs their callbacks.                                  *)
(*                                                                         *)
(* The arrays are sequences and item[id] is three functions: clock, fired  *)
(* (flag NEVENT_SETEVENT) and proc.  NEVENT_ENABLE is only ever cleared    *)
(* and NEVENT_WAIT never set in the program, so neither is modelled.       *)
(***************************************************************************)
EXTENDS Integers, Sequences, FiniteSets

CONSTANTS
  ID,          \* event numbers (NEVENTID)
  Flames,      \* NEVENT_FLAMES, the frame event of pccore_exec
  Periodic,    \* events whose callback re-arms them NEVENT_RELATIVE
  Guarded,     \* events armed only when nevent_iswork says they are not
  Resettable,  \* events some code passes to nevent_reset
  IoRelative,  \* events an I/O handler arms NEVENT_RELATIVE (NEVENT_CT1741)
  Delays,      \* delays and periods the clients pass
  DispClock,   \* gdc.dispclock
  VsyncClock,  \* gdc.vsyncclock
  MaxClock,    \* NEVENT_MAXCLOCK, the longest slice
  Costs,       \* clocks an instruction takes
  Multiples,   \* values of pccore.multiple
  StaleBound,  \* bound: largest clock an IoRelative event is armed with
  ClockMod     \* CPU_CLOCK wraps at this value (2^32 in the code)

ASSUME EventsAssumption ==
  /\ Flames \in ID
  /\ Periodic \subseteq ID \ {Flames}
  /\ Guarded \subseteq ID \ {Flames}
  /\ Resettable \subseteq ID \ {Flames}
  /\ IoRelative \subseteq ID \ {Flames}

ASSUME ClocksAssumption ==
  /\ Delays \subseteq Nat \ {0}
  /\ Costs \subseteq Nat \ {0}
  /\ Multiples \subseteq Nat \ {0} /\ Multiples # {}
  /\ DispClock \in Nat \ {0}
  /\ VsyncClock \in Nat \ {0}
  /\ MaxClock \in Nat \ {0}
  /\ StaleBound \in Nat
  /\ ClockMod \in Nat \ {0}

VARIABLES
  level,           \* g_nevent.level[0 .. readyevents-1]
  waitevent,       \* events whose callback nevent_execute has still to run
  clock,           \* item[id].clock
  fired,           \* item[id].flag has NEVENT_SETEVENT
  proc,            \* item[id].proc
  base,            \* CPU_BASECLOCK
  rem,             \* CPU_REMCLOCK
  cpuclock,        \* CPU_CLOCK
  multiple,        \* pccore.multiple
  screendispflag,  \* pcstat.screendispflag: the frame goes on
  phase            \* where pccore_exec is

items == <<clock, fired, proc>>
timebase == <<base, rem, cpuclock, multiple>>
vars == <<level, waitevent, items, timebase, screendispflag, phase>>

\* frame: between two calls of pccore_exec; loop: at the head of its loop;
\* cpu: before an instruction; io: inside one; exec: in nevent_execute.
Phases == {"frame", "loop", "cpu", "io", "exec"}

Procs == {"NULL", "screenvsync", "screendisp", "callback"}

Armed == {level[i] : i \in DOMAIN level}

\* Clocks since the slice began.
Elapsed == base - rem

\* nevent_getremain of an armed event.
Remain(id) == clock[id] - Elapsed

-----------------------------------------------------------------------------
(* The array level. *)

Rank(S, i) == Cardinality({j \in S : j <= i})

\* The elements of s that are in S, in the order of s.
Keep(s, S) ==
  LET kept == {i \in DOMAIN s : s[i] \in S}
  IN [k \in 1 .. Cardinality(kept) |->
        s[CHOOSE i \in kept : Rank(kept, i) = k]]

\* Where nevent_set puts an event due at c: before the first later one.
InsertionPoint(s, c) ==
  CHOOSE p \in 1 .. Len(s) + 1 :
    /\ p <= Len(s) => c < clock[s[p]]
    /\ \A i \in 1 .. p - 1 : clock[s[i]] <= c

\* Mutant of InsertBefore: the later events are not moved up.
OverwritingInsert(s, p, id) ==
  IF p <= Len(s) THEN [s EXCEPT ![p] = id] ELSE Append(s, id)

InsertBefore(s, p, id) ==
  [i \in 1 .. Len(s) + 1 |->
     IF i < p THEN s[i] ELSE IF i = p THEN id ELSE s[i - 1]]

-----------------------------------------------------------------------------
(* The operations of nevent.c. *)

\* Mutant of Place: a slice that is under way keeps its end.
PlaceInFixedSlice(id, c, callback) ==
  LET others == Keep(level, ID \ {id})
      p == InsertionPoint(others, c)
  IN /\ level' = InsertBefore(others, p, id)
     /\ clock' = [clock EXCEPT ![id] = c]
     /\ fired' = [fired EXCEPT ![id] = FALSE]
     /\ proc' = [proc EXCEPT ![id] = callback]
     /\ IF level = <<>>
          THEN base' = c /\ rem' = c - Elapsed
          ELSE UNCHANGED <<base, rem>>
     /\ UNCHANGED <<cpuclock, multiple>>

\* The tail of nevent_set, once the new clock c is known.
Place(id, c, callback) ==
  LET others == Keep(level, ID \ {id})
      p == InsertionPoint(others, c)
  IN /\ level' = InsertBefore(others, p, id)
     /\ clock' = [clock EXCEPT ![id] = c]
     /\ fired' = [fired EXCEPT ![id] = FALSE]
     /\ proc' = [proc EXCEPT ![id] = callback]
     /\ IF p = 1
          THEN base' = c /\ rem' = c - Elapsed
          ELSE UNCHANGED <<base, rem>>
     /\ UNCHANGED <<cpuclock, multiple>>

\* Mutant of SetAbsolute: the clocks already spent are subtracted.
SetBeforeElapsed(id, d, callback) == Place(id, d - Elapsed, callback)

SetAbsolute(id, d, callback) == Place(id, d + Elapsed, callback)

SetRelative(id, d, callback) == Place(id, clock[id] + d, callback)

\* nevent_reset leaves the clock of the event as it is.
ResetEvent(id) ==
  /\ level' = Keep(level, ID \ {id})
  /\ UNCHANGED <<items, timebase>>

\* Mutant of ForceExit: the clocks not spent are not taken off the slice.
ForceExitKeepsBase == rem' = 0 /\ UNCHANGED <<level, items, base, cpuclock, multiple>>

ForceExit ==
  /\ IF rem > 0
       THEN base' = base - rem /\ rem' = 0
       ELSE UNCHANGED <<base, rem>>
  /\ UNCHANGED <<level, items, cpuclock, multiple>>

\* a * new / old rounded as C does it, with truncation towards zero (clocks stay
\* far below INT_MAX, so the clamp to it is left out).
Scale(a, old, new) ==
  LET n == a * new + old \div 2
  IN IF n >= 0 THEN n \div old ELSE -((-n) \div old)

ScaleClock(a, old, new) ==
  IF a > 0 /\ Scale(a, old, new) <= 0 THEN 1 ELSE Scale(a, old, new)

\* Mutant of ChangeClock: only the first event is rescaled.
ChangeFirstClock(new) ==
  /\ multiple' = new
  /\ IF level = <<>>
       THEN UNCHANGED <<clock, base, rem>>
       ELSE /\ clock' = [clock EXCEPT ![level[1]] =
                           IF @ > 0 THEN ScaleClock(@, multiple, new) ELSE @]
            /\ base' = Scale(base, multiple, new)
            /\ rem' = Scale(rem, multiple, new)
  /\ UNCHANGED <<level, fired, proc, cpuclock>>

ChangeClock(new) ==
  /\ multiple' = new
  /\ IF level = <<>>
       THEN UNCHANGED <<clock, base, rem>>
       ELSE /\ clock' = [id \in ID |->
                           IF id \in Armed /\ clock[id] > 0
                             THEN ScaleClock(clock[id], multiple, new)
                             ELSE clock[id]]
            /\ base' = IF base = rem THEN clock'[level[1]]
                                     ELSE Scale(base, multiple, new)
            /\ rem' = IF base = rem THEN clock'[level[1]]
                                    ELSE Scale(rem, multiple, new)
  /\ UNCHANGED <<level, fired, proc, cpuclock>>

-----------------------------------------------------------------------------
(* The main loop of pccore_exec. *)

Init ==
  /\ level = <<>> /\ waitevent = <<>>
  /\ clock = [id \in ID |-> 0]
  /\ fired = [id \in ID |-> FALSE]
  /\ proc = [id \in ID |-> "NULL"]
  /\ base = 0 /\ rem = 0 /\ cpuclock = 0
  /\ multiple \in Multiples
  /\ screendispflag = FALSE
  /\ phase = "frame"

\* pccore_reset between two frames: nevent_allreset and CPU_RESET.
MachineReset ==
  /\ phase = "frame"
  /\ level' = <<>> /\ waitevent' = <<>>
  /\ clock' = [id \in ID |-> 0]
  /\ fired' = [id \in ID |-> FALSE]
  /\ proc' = [id \in ID |-> "NULL"]
  /\ base' = 0 /\ rem' = 0 /\ cpuclock' = 0
  /\ multiple' \in Multiples
  /\ UNCHANGED <<screendispflag, phase>>

\* pccore_exec up to its loop.
StartFrame ==
  /\ phase = "frame"
  /\ screendispflag' = TRUE
  /\ SetRelative(Flames, DispClock, "screenvsync")
  /\ phase' = "loop"
  /\ UNCHANGED waitevent

\* CPU_EXEC is called only with clocks left.
EnterCpu ==
  /\ phase = "loop" /\ rem > 0
  /\ phase' = "cpu"
  /\ UNCHANGED <<level, waitevent, items, timebase, screendispflag>>

\* Mutant of Instruction: the CPU does not look at the clocks that are left.
InstructionPastEnd(c) ==
  /\ phase = "cpu"
  /\ rem' = rem - c
  /\ phase' = "io"
  /\ UNCHANGED <<level, waitevent, items, base, cpuclock, multiple,
                 screendispflag>>

\* An instruction takes its clocks first, then accesses its I/O port (phase io).
Instruction(c) ==
  /\ phase = "cpu" /\ rem > 0
  /\ rem' = rem - c
  /\ phase' = "io"
  /\ UNCHANGED <<level, waitevent, items, base, cpuclock, multiple,
                 screendispflag>>

\* HLT and the waits of the BIOS give up the rest of the slice.
Halt == Instruction(rem + 1)

EndInstruction ==
  /\ phase = "io"
  /\ phase' = "cpu"
  /\ UNCHANGED <<level, waitevent, items, timebase, screendispflag>>

\* Mutant of Progress: the clock of an event that is due is left as it was.
ProgressKeepsClock ==
  /\ phase \in {"loop", "cpu"} /\ rem <= 0
  /\ LET later == {id \in Armed : clock[id] > base}
         due == Armed \ later
         left == [id \in ID |-> IF id \in later THEN clock[id] - base
                                                ELSE clock[id]]
         next == CHOOSE n \in {MaxClock} \cup {left[id] : id \in later} :
                   /\ n <= MaxClock
                   /\ \A id \in later : n <= left[id]
     IN /\ clock' = left
        /\ level' = Keep(level, later)
        /\ waitevent' = Keep(level, {id \in due : ~fired[id]})
        /\ fired' = [id \in ID |-> fired[id] \/ id \in due]
        /\ base' = next
        /\ rem' = rem + next
        /\ cpuclock' = (cpuclock + base) % ClockMod
  /\ screendispflag' = (screendispflag /\ Flames \in Armed)
  /\ phase' = "exec"
  /\ UNCHANGED <<proc, multiple>>

\* nevent_progress up to its call of nevent_execute.
Progress ==
  /\ phase \in {"loop", "cpu"} /\ rem <= 0
  /\ LET left == [id \in ID |-> IF id \in Armed THEN clock[id] - base
                                                ELSE clock[id]]
         later == {id \in Armed : left[id] > 0}
         due == Armed \ later
         next == CHOOSE n \in {MaxClock} \cup {left[id] : id \in later} :
                   /\ n <= MaxClock
                   /\ \A id \in later : n <= left[id]
     IN /\ clock' = left
        /\ level' = Keep(level, later)
        /\ waitevent' = Keep(level, {id \in due : ~fired[id]})
        /\ fired' = [id \in ID |-> fired[id] \/ id \in due]
        /\ base' = next
        /\ rem' = rem + next
        /\ cpuclock' = (cpuclock + base) % ClockMod
  \* The workaround for a lost NEVENT_FLAMES ends the frame.
  /\ screendispflag' = (screendispflag /\ Flames \in Armed)
  /\ phase' = "exec"
  /\ UNCHANGED <<proc, multiple>>

\* The callback of id is running, or about to.
Running(id) == phase = "exec" /\ waitevent # <<>> /\ id = Head(waitevent)

\* nevent_execute after the callback of id returned.
EndCallback(id) ==
  /\ Running(id)
  /\ proc[id] \notin {"screenvsync", "screendisp"}
  /\ fired' = [fired EXCEPT ![id] = FALSE]
  /\ waitevent' = Tail(waitevent)
  /\ UNCHANGED <<level, clock, proc, timebase, screendispflag, phase>>

\* Mutant of ScreenVsync: the callback is not replaced by screendisp.
ScreenVsyncAgain ==
  /\ Running(Flames) /\ proc[Flames] = "screenvsync"
  /\ SetRelative(Flames, VsyncClock, "screenvsync")
  /\ waitevent' = Tail(waitevent)
  /\ UNCHANGED <<screendispflag, phase>>

\* The callback screenvsync chains screendisp.
ScreenVsync ==
  /\ Running(Flames) /\ proc[Flames] = "screenvsync"
  /\ SetRelative(Flames, VsyncClock, "screendisp")
  /\ waitevent' = Tail(waitevent)
  /\ UNCHANGED <<screendispflag, phase>>

\* The callback screendisp ends the frame.
ScreenDisp ==
  /\ Running(Flames) /\ proc[Flames] = "screendisp"
  /\ screendispflag' = FALSE
  /\ fired' = [fired EXCEPT ![Flames] = FALSE]
  /\ waitevent' = Tail(waitevent)
  /\ UNCHANGED <<level, clock, proc, timebase, phase>>

NextPhase == IF screendispflag THEN "loop" ELSE "frame"

\* nevent_execute is done; pccore_asynccpu may then change the CPU multiple.
EndExecute ==
  /\ phase = "exec" /\ waitevent = <<>>
  /\ phase' = NextPhase
  /\ UNCHANGED <<level, waitevent, items, timebase, screendispflag>>

AsyncCpu(new) ==
  /\ phase = "exec" /\ waitevent = <<>>
  /\ new # multiple
  /\ ChangeClock(new)
  /\ phase' = NextPhase
  /\ UNCHANGED <<waitevent, screendispflag>>

-----------------------------------------------------------------------------
(* The clients: I/O handlers, callbacks and the code between two frames. *)

ClientRuns ==
  \/ phase \in {"io", "frame"}
  \/ phase = "exec" /\ waitevent # <<>> /\ Head(waitevent) # Flames

ClientUnchanged == UNCHANGED <<waitevent, screendispflag, phase>>

\* nevent_set with NEVENT_ABSOLUTE.
ClientSet(id, d) ==
  /\ ClientRuns
  /\ id # Flames
  /\ id \in Guarded => id \notin Armed
  /\ SetAbsolute(id, d, "callback")
  /\ ClientUnchanged

\* A callback that finds NEVENT_SETEVENT re-arms its event.
ClientRearm(id, d) ==
  /\ Running(id)
  /\ id \in Periodic /\ fired[id]
  /\ SetRelative(id, d, "callback")
  /\ ClientUnchanged

\* An I/O handler passes NEVENT_RELATIVE for an event that did not just fire.
ClientStart(id, d) ==
  /\ phase = "io"
  /\ id \in IoRelative
  /\ clock[id] + d <= StaleBound
  /\ SetRelative(id, d, "callback")
  /\ ClientUnchanged

\* pic_irq resets NEVENT_PICMASK at the head of the loop too.
ClientReset(id) ==
  /\ ClientRuns \/ phase = "loop"
  /\ id \in Resettable
  /\ ResetEvent(id)
  /\ ClientUnchanged

ClientForceExit ==
  /\ ClientRuns /\ phase # "frame"
  /\ ForceExit
  /\ ClientUnchanged

\* The guest writes the clock multiple to the np2 system port.
ClientChangeClock(new) ==
  /\ phase = "io"
  /\ new # multiple
  /\ ChangeClock(new)
  /\ ClientUnchanged

-----------------------------------------------------------------------------

System ==
  \/ StartFrame \/ EnterCpu \/ Halt \/ EndInstruction \/ Progress
  \/ ScreenVsync \/ ScreenDisp \/ EndExecute
  \/ \E c \in Costs : Instruction(c)
  \/ \E id \in ID : EndCallback(id)
  \/ \E new \in Multiples : AsyncCpu(new)

Client ==
  \/ \E id \in ID :
       \/ \E d \in Delays :
            ClientSet(id, d) \/ ClientRearm(id, d) \/ ClientStart(id, d)
       \/ ClientReset(id)
  \/ ClientForceExit
  \/ \E new \in Multiples : ClientChangeClock(new)

Next == System \/ Client \/ MachineReset

Spec == Init /\ [][Next]_vars

\* The main loop never stops, and a handler or callback returns.
FairSpec == Spec /\ WF_vars(System)

-----------------------------------------------------------------------------
(* Properties. *)

\* The type of the state.  Clocks and slices are never negative: no event is
\* ever placed before the start of the slice.
TypeOK ==
  /\ level \in Seq(ID)
  /\ waitevent \in Seq(ID)
  /\ clock \in [ID -> Nat]
  /\ fired \in [ID -> BOOLEAN]
  /\ proc \in [ID -> Procs]
  /\ base \in Nat
  /\ rem \in Int
  /\ cpuclock \in 0 .. ClockMod - 1
  /\ multiple \in Multiples
  /\ screendispflag \in BOOLEAN
  /\ phase \in Phases

\* The array level of nevent_set and nevent_progress holds an event once and
\* in the order of the clocks, and the slice ends by the first of them.
LevelOrdered ==
  /\ \A i, j \in DOMAIN level :
       i < j => level[i] # level[j] /\ clock[level[i]] <= clock[level[j]]
  /\ level # <<>> => base <= clock[level[1]]

\* The inductive invariant behind them: nothing in the queue lies before the end
\* of the slice, and only nevent_execute leaves callbacks to be run, each for an
\* event that left the queue with a clock of 0.
SchedulerInv ==
  /\ TypeOK
  /\ LevelOrdered
  /\ rem <= base
  /\ \A id \in Armed : base <= clock[id] /\ ~fired[id]
  /\ \A id \in ID : fired[id] =>
       /\ phase = "exec"
       /\ clock[id] = 0
       /\ \E i \in DOMAIN waitevent : waitevent[i] = id
  /\ phase # "exec" => waitevent = <<>>

\* CPU_EXEC never starts an instruction when an event is due or when a
\* callback is owed: what a guest instruction sees is up to date.
NoOverrun ==
  phase = "cpu" /\ rem > 0 =>
    /\ \A id \in Armed : Remain(id) > 0
    /\ \A id \in ID : ~fired[id]

\* However the instructions, callbacks and forced exits fall, no event is ever
\* later than one instruction may make it (HLT: one clock).
LateByOneInstruction ==
  \A id \in ID : id \in Armed \/ fired[id] =>
    \/ Remain(id) >= -1
    \/ \E c \in Costs : Remain(id) + c > 0

\* atapicmd.c takes item[NEVENT_CDWAIT].clock > 0 to mean that the event is
\* pending: right for an event that nobody resets, because it fires with a
\* clock of exactly 0.
ClockTellsPending ==
  \A id \in ID \ Resettable : clock[id] > 0 => id \in Armed

\* CPU_CLOCK + CPU_BASECLOCK - CPU_REMCLOCK is the time stamp of the sound, FDC
\* and CG ROM code.  Only an instruction advances it; every operation of the
\* scheduler preserves it (a change of the CPU clock rescales the slice).
TimeStamp == (cpuclock + base - rem) % ClockMod

TimePreserved ==
  [][ \/ phase = "cpu" /\ phase' = "io"
      \/ multiple' # multiple
      \/ MachineReset
      \/ TimeStamp' = TimeStamp ]_vars

\* The scheduler implements the timers of module Timers.
Owed == {id \in ID : fired[id]}

TimeLeft ==
  [id \in ID |-> IF id \in Armed \/ fired[id] THEN Remain(id) ELSE 0]

Abstract == INSTANCE Timers WITH
  armed <- Armed, pending <- Owed, remain <- TimeLeft,
  Delays <- Delays \cup {VsyncClock},
  Loose <- IoRelative \cup {Flames}

ImplementsTimers == Abstract!Spec

\* Every frame ends: pccore_exec returns and is called again.
FrameEnds == []<>(phase = "frame")

\* ct1741dmafunc comments its first event "wait just the clocks in which the
\* buffer is consumed; too short a wait causes noise".
StartWaitsItsDelay ==
  [][ \A id \in IoRelative, d \in Delays :
        ClientStart(id, d) => Remain(id)' >= d ]_vars

=============================================================================
