----------------------------- MODULE PicProofs -----------------------------
(***************************************************************************)
(* Proofs about the interrupt controllers of module Pic, for chips with    *)
(* any number of lines and for every repertoire of the guest.  Inv, the    *)
(* types and the V-sync invariant, is inductive; the action properties of  *)
(* pic_irq follow from it and from what the search for the most urgent     *)
(* line returns.                                                           *)
(***************************************************************************)
EXTENDS Pic, NaturalsInduction, WellFoundedInduction, TLAPS

-----------------------------------------------------------------------------
(* Priorities. *)

\* Every non-empty set of natural numbers has a smallest element.
LEMMA LeastNat ==
  ASSUME NEW S \in SUBSET Nat, S # {}
  PROVE  \E least \in S : \A k \in S : least <= k
<1>1. PICK least \in S : \A k \in S : ~ (<<k, least>> \in OpToRel(<, Nat))
  BY WFMin, NatLessThanWellFounded, Zenon
<1>2. \A k \in S : ~ (k < least)
  BY <1>1 DEF OpToRel
<1> QED BY <1>2

\* The distances of the lines from the line of highest priority are different
\* numbers from 0 to Top.
LEMMA DistanceProperties ==
  ASSUME NEW p \in Lines
  PROVE  /\ \A n \in Lines : Distance(p, n) \in 0 .. Top
         /\ \A n, m \in Lines : Distance(p, n) = Distance(p, m) => n = m
BY LinesAssumption DEF Lines, Distance

\* The search of pic_irq stops at the line of the set that comes first, and at
\* no other.
LEMMA FirstProperties ==
  ASSUME NEW p \in Lines, NEW S \in SUBSET Lines, S # {}
  PROVE  /\ First(p, S) \in S
         /\ \A m \in S \ {First(p, S)} : Distance(p, First(p, S)) < Distance(p, m)
<1> DEFINE D == {Distance(p, n) : n \in S}
           best(n) == \A m \in S : Distance(p, n) <= Distance(p, m)
<1>1. Top \in Nat /\ \A n \in Lines : Distance(p, n) \in Nat
  BY DistanceProperties, LinesAssumption
<1>2. D \in SUBSET Nat /\ D # {}
  BY <1>1
<1>3. PICK least \in D : \A k \in D : least <= k
  <2> HIDE DEF D
  <2> QED BY <1>2, LeastNat
<1>4. \E n \in S : best(n)
  BY <1>3
<1>5. First(p, S) \in S /\ best(First(p, S))
  BY <1>4 DEF First
<1>6. \A m \in S \ {First(p, S)} : Distance(p, First(p, S)) # Distance(p, m)
  BY <1>5, DistanceProperties
<1> QED BY <1>1, <1>5, <1>6

\* A line after the one of lowest priority has the highest.
LEMMA SuccProperties ==
  ASSUME NEW n \in Lines
  PROVE  /\ Succ(n) \in Lines
         /\ Distance(Succ(n), n) = Top
         /\ \A m \in Lines \ {n} : Distance(Succ(n), m) < Top
BY LinesAssumption DEF Lines, Succ, Distance

-----------------------------------------------------------------------------
(* What pic_irq delivers. *)

\* The lines of a chip that take part in the search of pic_irq.
LEMMA SetTypes ==
  ASSUME TypeOK, NEW chip \in Chip
  PROVE  /\ Requests(chip) \in SUBSET Lines
         /\ Blocking(chip) \in SUBSET Lines
         /\ MasterRequests \in SUBSET Lines
         /\ pry[chip] \in Lines
         /\ Cascade \in Lines
BY LinesAssumption DEF TypeOK, Requests, Blocking, MasterRequests, Chip, Master, Slave

\* The search on one chip: the winner is among the lines, and all others come
\* after it; when it is not in service itself, it was asked for.
LEMMA WinnerProperties ==
  ASSUME TypeOK, NEW chip \in Chip, NEW S \in SUBSET Lines, S # {}
  PROVE  /\ Winner(chip, S) \in Lines
         /\ \A m \in (S \cup Blocking(chip)) \ {Winner(chip, S)} :
              Distance(pry[chip], Winner(chip, S)) < Distance(pry[chip], m)
         /\ Winner(chip, S) \in S \cup Blocking(chip)
         /\ Winner(chip, S) \notin isr[chip] => Winner(chip, S) \in S
<1> DEFINE all == S \cup Blocking(chip)
<1>1. all \in SUBSET Lines /\ all # {} /\ pry[chip] \in Lines
  BY SetTypes
<1>2. Winner(chip, S) = First(pry[chip], all)
  BY DEF Winner
<1>3. /\ First(pry[chip], all) \in all
      /\ \A m \in all \ {First(pry[chip], all)} :
           Distance(pry[chip], First(pry[chip], all)) < Distance(pry[chip], m)
  <2> HIDE DEF all
  <2> QED BY <1>1, FirstProperties
<1>4. Blocking(chip) \subseteq isr[chip]
  BY DEF Blocking
<1> QED BY <1>1, <1>2, <1>3, <1>4

\* An interrupt that pic_irq delivers is the winner of its chip, was asked for
\* and not masked there and, on the slave, has won the cascade on the master.
LEMMA DeliverableProperties ==
  ASSUME TypeOK, NEW d \in Deliverable
  PROVE  /\ d \in Chip \X Lines
         /\ d[2] \in Requests(d[1])
         /\ d[2] \notin isr[d[1]]
         /\ d[1] = Master => d[2] # Cascade
         /\ \A m \in (Requests(d[1]) \cup Blocking(d[1])) \ {d[2]} :
              Distance(pry[d[1]], d[2]) < Distance(pry[d[1]], m)
         /\ d[1] = Slave =>
              /\ MasterRequests # {}
              /\ Cascade \in MasterRequests \cup Blocking(Master)
              /\ \A m \in (MasterRequests \cup Blocking(Master)) \ {Cascade} :
                   Distance(pry[Master], Cascade) < Distance(pry[Master], m)
<1>0. Master \in Chip /\ Slave \in Chip /\ Master # Slave
  BY DEF Chip, Master, Slave
<1> DEFINE m == Winner(Master, MasterRequests)
           n == Winner(Slave, Requests(Slave))
<1>1. MasterRequests # {}
  BY DEF Deliverable
<1>2. /\ m \in Lines
      /\ \A k \in (MasterRequests \cup Blocking(Master)) \ {m} :
           Distance(pry[Master], m) < Distance(pry[Master], k)
      /\ m \in MasterRequests \cup Blocking(Master)
      /\ m \notin isr[Master] => m \in MasterRequests
  BY <1>0, <1>1, SetTypes, WinnerProperties
<1>3. /\ Requests(Master) \subseteq MasterRequests
      /\ \A k \in MasterRequests : k = Cascade \/ k \in Requests(Master)
  BY DEF Requests, MasterRequests
<1>4. CASE m # Cascade
  <2>1. d = <<Master, m>> /\ m \notin isr[Master]
    BY <1>1, <1>4 DEF Deliverable
  <2>2. m \in Requests(Master)
    BY <1>2, <1>3, <1>4, <2>1
  <2> HIDE DEF m
  <2> QED BY <1>0, <1>2, <1>3, <1>4, <2>1, <2>2
<1>5. CASE m = Cascade
  <2>1. Requests(Slave) # {} /\ d = <<Slave, n>> /\ n \notin isr[Slave]
    BY <1>1, <1>5 DEF Deliverable
  <2>2. /\ n \in Lines
        /\ \A k \in (Requests(Slave) \cup Blocking(Slave)) \ {n} :
             Distance(pry[Slave], n) < Distance(pry[Slave], k)
        /\ n \notin isr[Slave] => n \in Requests(Slave)
    BY <1>0, <2>1, SetTypes, WinnerProperties
  <2> HIDE DEF m, n
  <2> QED BY <1>0, <1>1, <1>2, <1>5, <2>1, <2>2
<1> QED BY <1>4, <1>5

-----------------------------------------------------------------------------
(* The invariant. *)

Inv == TypeOK /\ VsyncInRetrace

\* The constants of the chips.
LEMMA ChipFacts ==
  /\ Chip = {Master, Slave} /\ Master # Slave
  /\ Cascade \in Lines /\ Crtv \in Lines /\ Timer \in Lines
  /\ Crtv # Cascade /\ Timer # Crtv
  /\ 0 \in Lines
  /\ \A n \in Lines : Succ(n) \in Lines
BY LinesAssumption, SuccProperties DEF Chip, Master, Slave, Lines

\* The machine starts with empty registers.
LEMMA InitInv == Init => Inv
<1> SUFFICES ASSUME Init PROVE TypeOK /\ VsyncInRetrace
  BY DEF Inv
<1>1. imr \in [Chip -> SUBSET Lines]
  BY LinesAssumption DEF Init
<1>2. /\ isr \in [Chip -> SUBSET Lines] /\ irr \in [Chip -> SUBSET Lines]
      /\ pry \in [Chip -> Lines] /\ smm \in [Chip -> BOOLEAN]
      /\ writeicw \in [Chip -> 0 .. 3] /\ ic4 \in [Chip -> BOOLEAN]
  BY ChipFacts DEF Init
<1>3. {maskevent, vsyncint, vsync, ei} \subseteq BOOLEAN /\ phase \in Phases
  BY DEF Init, Phases
<1>4. guest \in Guests
  BY DEF Init
<1>5. Crtv \notin irr[Master]
  BY ChipFacts DEF Init
<1> QED BY <1>1, <1>2, <1>3, <1>4, <1>5 DEF TypeOK, VsyncInRetrace

\* No device is on the line of the V-sync interrupt.
LEMMA InputFacts ==
  ASSUME TypeOK, NEW i \in guest.inputs
  PROVE  i[1] \in Chip /\ i[2] \in Lines /\ i # <<Master, Crtv>>
         /\ i = <<i[1], i[2]>>
BY LinesAssumption DEF TypeOK, Repertoire

\* The whole repertoire is of the right types.
LEMMA GuestFacts ==
  ASSUME TypeOK
  PROVE  /\ \A i \in guest.withdrawn : i[1] \in Chip /\ i[2] \in Lines
         /\ \A mask \in guest.masks : mask \in SUBSET Lines
         /\ \A n \in guest.levels : n \in Lines
         /\ \A special \in guest.smm : special \in BOOLEAN
         /\ \A icw \in guest.icw4 : icw[1] \in Chip /\ icw[2] \in BOOLEAN
BY LinesAssumption DEF TypeOK, Repertoire

\* What takes a line into service keeps the types and the V-sync request.
LEMMA IrqKeepsInv ==
  ASSUME Inv, PicIrq, UNCHANGED guest
  PROVE  Inv'
<1>1. CASE ei /\ Deliverable # {}
  <2>1. PICK d \in Deliverable : InService(d[1], d[2])
    BY <1>1 DEF PicIrq
  <2>2. d[1] \in Chip /\ d[2] \in Lines
    BY <2>1, DeliverableProperties DEF Inv
  <2>3. isr' \in [Chip -> SUBSET Lines] /\ irr' \in [Chip -> SUBSET Lines]
    BY <2>1, <2>2 DEF InService, Inv, TypeOK
  <2>4. TypeOK'
    BY <1>1, <2>1, <2>3 DEF PicIrq, InService, Inv, TypeOK, ocw, Phases
  <2>5. ASSUME Crtv \in irr'[Master] PROVE vsync' /\ Crtv \notin isr'[Master]
    <3>1. Crtv \in irr[Master] /\ <<Master, Crtv>> # <<d[1], d[2]>>
      BY <2>1, <2>2, <2>5, ChipFacts DEF InService, Inv, TypeOK
    <3>2. vsync /\ Crtv \notin isr[Master]
      BY <3>1 DEF Inv, VsyncInRetrace
    <3>3. vsync' = vsync
      BY DEF PicIrq
    <3> QED BY <2>1, <2>2, <3>1, <3>2, <3>3, ChipFacts DEF InService, Inv, TypeOK
  <2> QED BY <2>4, <2>5 DEF Inv, VsyncInRetrace
<1>2. CASE ~(ei /\ Deliverable # {})
  BY <1>2 DEF PicIrq, Inv, TypeOK, VsyncInRetrace, ocw, Phases
<1> QED BY <1>1, <1>2

\* The devices: no request of a device is a V-sync request.
LEMMA DevicesKeepInv ==
  ASSUME Inv, Devices, UNCHANGED guest
  PROVE  Inv'
<1>1. ASSUME NEW i \in guest.inputs, NEW mode2 \in BOOLEAN, SetIrq(i[1], i[2], mode2)
      PROVE  Inv'
  <2>1. i[1] \in Chip /\ i[2] \in Lines /\ <<i[1], i[2]>> # <<Master, Crtv>>
    BY InputFacts DEF Inv
  <2>2. irr' = [irr EXCEPT ![i[1]] = @ \cup {i[2]}]
    BY <1>1, <2>1 DEF SetIrq, Raised
  <2>3. maskevent' \in BOOLEAN
    BY <1>1 DEF SetIrq, Inv, TypeOK
  <2>4. TypeOK'
    BY <1>1, <2>1, <2>2, <2>3 DEF SetIrq, Raised, Inv, TypeOK, ocw
  <2>5. Crtv \in irr'[Master] => Crtv \in irr[Master]
    BY <2>1, <2>2, ChipFacts DEF Inv, TypeOK
  <2> QED BY <1>1, <2>4, <2>5 DEF SetIrq, Raised, Inv, VsyncInRetrace
<1>2. ASSUME NEW i \in guest.withdrawn, ResetIrq(i[1], i[2])
      PROVE  Inv'
  <2>1. i[1] \in Chip /\ i[2] \in Lines
    BY GuestFacts DEF Inv
  <2> QED BY <1>2, <2>1, ChipFacts DEF ResetIrq, Inv, TypeOK, VsyncInRetrace, ocw
<1>3. CASE PicMask
  BY <1>3, ChipFacts DEF PicMask, Inv, TypeOK, VsyncInRetrace, ocw
<1>4. CASE ScreenVsync
  <2>1. CASE vsyncint
    BY <1>4, <2>1, ChipFacts DEF ScreenVsync, Raised, Inv, TypeOK, VsyncInRetrace, ocw
  <2>2. CASE ~vsyncint
    BY <1>4, <2>2, ChipFacts DEF ScreenVsync, Inv, TypeOK, VsyncInRetrace, ocw
  <2> QED BY <2>1, <2>2
<1>5. CASE ScreenDisp
  BY <1>5, ChipFacts DEF ScreenDisp, Inv, TypeOK, VsyncInRetrace, ocw
<1> QED BY <1>1, <1>2, <1>3, <1>4, <1>5 DEF Devices

\* The highest line in service is a line.
LEMMA LevelFacts ==
  ASSUME TypeOK, NEW chip \in Chip, NEW level \in SUBSET Lines,
         level = {} \/ \E n \in Lines : level = {n}
  PROVE  /\ EndOfInterrupt(chip, level) \in SUBSET isr[chip]
         /\ Rotated(chip, level) \in Lines
<1>1. isr[chip] \in SUBSET Lines /\ pry[chip] \in Lines
  BY DEF TypeOK
<1>2. Ocw2Level(chip, level) = {} \/ \E n \in Lines : Ocw2Level(chip, level) = {n}
  BY <1>1, FirstProperties DEF Ocw2Level
<1> QED BY <1>1, <1>2, ChipFacts DEF EndOfInterrupt, Rotated

\* The guest: no handler of the guest raises a line.
LEMMA GuestKeepsInv ==
  ASSUME Inv, Guest, UNCHANGED guest
  PROVE  Inv'
<1>0. \A exit : Continue(exit) => phase' \in Phases
  BY DEF Continue, Phases
<1>1. CASE Cli
  BY <1>0, <1>1 DEF Cli, Inv, TypeOK, VsyncInRetrace, pic, ocw
<1>2. CASE Sti
  BY <1>2 DEF Sti, Inv, TypeOK, VsyncInRetrace, pic, ocw, Phases
<1>3. CASE GdcO64
  BY <1>0, <1>3 DEF GdcO64, Inv, TypeOK, VsyncInRetrace, pic, ocw
<1>4. ASSUME NEW flag \in BOOLEAN, Popf(flag) PROVE Inv'
  BY <1>0, <1>4 DEF Popf, Inv, TypeOK, VsyncInRetrace, pic, ocw
<1>5. ASSUME NEW icw \in guest.icw4, Icw1(icw[1], icw[2]) PROVE Inv'
  <2>1. icw[1] \in Chip /\ icw[2] \in BOOLEAN
    BY GuestFacts DEF Inv
  <2>2. irr' = [irr EXCEPT ![icw[1]] = {}] /\ UNCHANGED <<isr, vsync>>
    BY <1>5 DEF Icw1
  <2>3. /\ imr' \in [Chip -> SUBSET Lines] /\ irr' \in [Chip -> SUBSET Lines]
        /\ isr' \in [Chip -> SUBSET Lines]
    BY <1>5, <2>1 DEF Icw1, Inv, TypeOK
  <2>4. pry' \in [Chip -> Lines] /\ writeicw' \in [Chip -> 0 .. 3]
    BY <1>5, <2>1, ChipFacts DEF Icw1, Inv, TypeOK
  <2>5. smm' \in [Chip -> BOOLEAN] /\ ic4' \in [Chip -> BOOLEAN]
    BY <1>5, <2>1, Zenon DEF Icw1, Inv, TypeOK
  <2>6. phase' \in Phases
    BY <1>0, <1>5 DEF Icw1
  <2>7. UNCHANGED <<maskevent, vsyncint, vsync, ei, guest>>
    BY <1>5 DEF Icw1
  <2>8. TypeOK'
    BY <2>3, <2>4, <2>5, <2>6, <2>7 DEF Inv, TypeOK
  <2>9. Crtv \in irr'[Master] => Crtv \in irr[Master]
    BY <2>1, <2>2, ChipFacts DEF Inv, TypeOK
  <2> QED BY <2>2, <2>8, <2>9 DEF Inv, VsyncInRetrace
<1>6. ASSUME NEW chip \in Chip, NEW level \in {{}} \cup {{n} : n \in guest.levels},
             NEW rotate \in BOOLEAN, NEW eoi \in BOOLEAN,
             Ocw2(chip, level, rotate, eoi)
      PROVE  Inv'
  <2>1. level \in SUBSET Lines /\ (level = {} \/ \E n \in Lines : level = {n})
    BY GuestFacts DEF Inv
  <2>2. EndOfInterrupt(chip, level) \in SUBSET isr[chip] /\ Rotated(chip, level) \in Lines
    BY <2>1, LevelFacts DEF Inv
  <2>3. TypeOK'
    BY <1>0, <1>6, <2>2 DEF Ocw2, Inv, TypeOK
  <2>4. isr'[Master] \subseteq isr[Master] /\ UNCHANGED <<irr, vsync>>
    BY <1>6, <2>2, ChipFacts DEF Ocw2, Inv, TypeOK
  <2> QED BY <2>3, <2>4 DEF Inv, VsyncInRetrace
<1>7. ASSUME NEW chip \in Chip, NEW rr \in BOOLEAN, NEW special \in guest.smm,
             Ocw3(chip, rr, special)
      PROVE  Inv'
  <2>1. special \in BOOLEAN
    BY GuestFacts DEF Inv
  <2>2. smm' \in [Chip -> BOOLEAN]
    BY <1>7, <2>1, Zenon DEF Ocw3, Inv, TypeOK
  <2>3. writeicw' \in [Chip -> 0 .. 3]
    BY <1>7 DEF Ocw3, Inv, TypeOK
  <2>4. phase' \in Phases
    BY <1>0, <1>7 DEF Ocw3
  <2>5. UNCHANGED <<imr, isr, irr, pry, ic4, maskevent, vsyncint, vsync, ei>>
    BY <1>7 DEF Ocw3
  <2> QED BY <2>2, <2>3, <2>4, <2>5 DEF Inv, TypeOK, VsyncInRetrace
<1>8. ASSUME NEW chip \in Chip, IcwNext(chip) PROVE Inv'
  <2>1. writeicw' \in [Chip -> 0 .. 3]
    BY <1>8 DEF IcwNext, Inv, TypeOK
  <2> QED BY <1>0, <1>8, <2>1 DEF IcwNext, Inv, TypeOK, VsyncInRetrace
<1>9. ASSUME NEW chip \in Chip, NEW mask \in guest.masks, Ocw1(chip, mask) PROVE Inv'
  <2>1. mask \in SUBSET Lines
    BY GuestFacts DEF Inv
  <2> QED BY <1>0, <1>9, <2>1 DEF Ocw1, Inv, TypeOK, VsyncInRetrace, ocw
<1> QED BY <1>1, <1>2, <1>3, <1>4, <1>5, <1>6, <1>7, <1>8, <1>9 DEF Guest

\* Every step keeps the types and the V-sync invariant.
LEMMA InductiveStep ==
  ASSUME Inv, [Next /\ UNCHANGED guest]_<<vars, guest>>
  PROVE  Inv'
<1>1. CASE PicIrq /\ UNCHANGED guest
  BY <1>1, IrqKeepsInv
<1>2. CASE (SliceEnds \/ LoopAgain) /\ UNCHANGED guest
  BY <1>2 DEF SliceEnds, LoopAgain, Inv, TypeOK, VsyncInRetrace, pic, ocw, Phases
<1>3. CASE Devices /\ UNCHANGED guest
  BY <1>3, DevicesKeepInv
<1>4. CASE Guest /\ UNCHANGED guest
  BY <1>4, GuestKeepsInv
<1>5. CASE MachineReset /\ UNCHANGED guest
  <2>1. /\ imr' \in [Chip -> SUBSET Lines]
        /\ isr' \in [Chip -> SUBSET Lines] /\ irr' \in [Chip -> SUBSET Lines]
        /\ pry' \in [Chip -> Lines] /\ smm' \in [Chip -> BOOLEAN]
        /\ writeicw' \in [Chip -> 0 .. 3] /\ ic4' \in [Chip -> BOOLEAN]
    BY <1>5, ChipFacts, LinesAssumption DEF MachineReset
  <2>2. {maskevent', vsyncint', vsync', ei'} \subseteq BOOLEAN /\ phase' \in Phases
    BY <1>5 DEF MachineReset, Phases
  <2>3. Crtv \notin irr'[Master]
    BY <1>5, ChipFacts DEF MachineReset
  <2> QED BY <1>5, <2>1, <2>2, <2>3 DEF Inv, TypeOK, VsyncInRetrace
<1>6. CASE UNCHANGED <<vars, guest>>
  BY <1>6 DEF vars, Inv, TypeOK, VsyncInRetrace, pic, ocw
<1> QED BY <1>1, <1>2, <1>3, <1>4, <1>5, <1>6 DEF Next, MainLoop

\* The types and the V-sync invariant hold always.
THEOREM Invariant == Spec => []Inv
BY InitInv, InductiveStep, PTL DEF Spec

\* Type correctness: an ICW sequence never runs beyond its last word.
THEOREM TypeCorrect == Spec => []TypeOK
<1>1. Inv => TypeOK
  BY DEF Inv
<1> QED BY <1>1, Invariant, PTL

\* A V-sync request is inside the retrace it belongs to, and never behind its
\* own handler.
THEOREM VsyncIsPrompt == Spec => []VsyncInRetrace
<1>1. Inv => VsyncInRetrace
  BY DEF Inv
<1> QED BY <1>1, Invariant, PTL
-----------------------------------------------------------------------------
(* What a step may do. *)

\* Only pic_irq takes a line into service.
LEMMA OnlyPicIrqEnters ==
  ASSUME TypeOK, [Next /\ UNCHANGED guest]_<<vars, guest>>, ~PicIrq
  PROVE  \A chip \in Chip, n \in Lines : ~Entered(chip, n)
<1>1. \A chip \in Chip : isr'[chip] \in SUBSET isr[chip]
  <2>1. CASE SliceEnds \/ LoopAgain
    BY <2>1 DEF SliceEnds, LoopAgain, pic
  <2>2. CASE Devices
    <3>1. isr' = isr
      BY <2>2 DEF Devices, SetIrq, ResetIrq, PicMask, ScreenVsync, ScreenDisp, Raised, pic
    <3> QED BY <3>1
  <2>3. CASE Guest
    <3>1. CASE isr' = isr
      BY <3>1
    <3>2. ASSUME NEW chip \in Chip, NEW level \in {{}} \cup {{n} : n \in guest.levels},
                 NEW rotate \in BOOLEAN, NEW eoi \in BOOLEAN,
                 Ocw2(chip, level, rotate, eoi)
          PROVE  \A c \in Chip : isr'[c] \in SUBSET isr[c]
      BY <3>2 DEF Ocw2, TypeOK, EndOfInterrupt
    <3> QED BY <2>3, <3>1, <3>2
          DEF Guest, Cli, Sti, GdcO64, Popf, Icw1, Ocw3, IcwNext, Ocw1, pic
  <2>4. CASE MachineReset
    BY <2>4 DEF MachineReset
  <2>5. CASE UNCHANGED <<vars, guest>>
    BY <2>5 DEF vars, pic
  <2> QED BY <2>1, <2>2, <2>3, <2>4, <2>5 DEF Next, MainLoop
<1> QED BY <1>1, ChipFacts DEF Entered

\* What enters service in pic_irq is the line it delivers and, for a line of the
\* slave, the cascade of the master.
LEMMA PicIrqEnters ==
  ASSUME TypeOK, PicIrq, NEW chip \in Chip, NEW n \in Lines, Entered(chip, n)
  PROVE  \E d \in Deliverable :
           \/ d = <<chip, n>>
           \/ chip = Master /\ n = Cascade /\ d[1] = Slave
<1>1. PICK d \in Deliverable : InService(d[1], d[2])
  BY ChipFacts DEF PicIrq, Entered
<1>2. d \in Chip \X Lines
  BY DeliverableProperties
<1>3. CASE n \in isr'[chip] \ isr[chip]
  BY <1>1, <1>2, <1>3, ChipFacts DEF InService
<1>4. CASE chip = Master /\ n = Cascade /\ isr'[Slave] \ isr[Slave] # {}
  BY <1>1, <1>2, <1>4, ChipFacts DEF InService
<1> QED BY <1>1, <1>3, <1>4 DEF Entered

\* pic_irq keeps the nesting: an interrupt never interrupts a handler of the
\* same or a higher priority, and never overtakes a more urgent request.
THEOREM NestingIsKept == Spec => FullyNested
<1>1. ASSUME TypeOK, [Next /\ UNCHANGED guest]_<<vars, guest>>,
             NEW chip \in Chip, NEW n \in Lines, Entered(chip, n),
             NEW m \in (Requests(chip) \cup Blocking(chip)) \ {n}
      PROVE  Distance(pry[chip], n) < Distance(pry[chip], m)
  <2>1. PicIrq
    BY <1>1, OnlyPicIrqEnters
  <2>2. PICK d \in Deliverable :
          \/ d = <<chip, n>>
          \/ chip = Master /\ n = Cascade /\ d[1] = Slave
    BY <1>1, <2>1, PicIrqEnters
  <2>3. CASE d = <<chip, n>>
    BY <1>1, <2>2, <2>3, DeliverableProperties
  <2>4. CASE chip = Master /\ n = Cascade /\ d[1] = Slave
    <3>1. Requests(Master) \subseteq MasterRequests
      BY DEF Requests, MasterRequests
    <3> QED BY <1>1, <2>2, <2>4, <3>1, DeliverableProperties
  <2> QED BY <2>2, <2>3, <2>4
<1>2. TypeOK /\ [Next /\ UNCHANGED guest]_<<vars, guest>> =>
        [\A chip \in Chip, n \in Lines :
           Entered(chip, n) =>
             \A m \in (Requests(chip) \cup Blocking(chip)) \ {n} :
               Distance(pry[chip], n) < Distance(pry[chip], m)]_vars
  BY <1>1
<1> QED BY <1>2, TypeCorrect, PTL DEF Spec, FullyNested

\* pic_irq obeys the masks: a masked line is not delivered, and a line of the
\* slave is not delivered while the master masks the cascade and no rotation has
\* put another line below it.
THEOREM MasksAreObeyed == Spec => MaskIsObeyed
<1>1. ASSUME TypeOK, [Next /\ UNCHANGED guest]_<<vars, guest>>,
             NEW n \in Lines, n # Cascade, Entered(Master, n)
      PROVE  n \in Requests(Master)
  <2>1. PicIrq
    BY <1>1, ChipFacts, OnlyPicIrqEnters
  <2>2. PICK d \in Deliverable : d = <<Master, n>>
    BY <1>1, <2>1, ChipFacts, PicIrqEnters
  <2> QED BY <1>1, <2>2, DeliverableProperties
<1>2. ASSUME TypeOK, [Next /\ UNCHANGED guest]_<<vars, guest>>,
             NEW n \in Lines, Entered(Slave, n)
      PROVE  /\ n \in Requests(Slave)
             /\ pry[Master] = Succ(Cascade) => Cascade \notin imr[Master]
  <2>1. PicIrq
    BY <1>2, ChipFacts, OnlyPicIrqEnters
  <2>2. PICK d \in Deliverable : d = <<Slave, n>>
    BY <1>2, <2>1, ChipFacts, PicIrqEnters
  <2>3. n \in Requests(Slave)
    BY <1>2, <2>2, DeliverableProperties
  <2>4. ASSUME pry[Master] = Succ(Cascade) PROVE Cascade \notin imr[Master]
    <3>1. /\ MasterRequests # {} /\ MasterRequests \in SUBSET Lines
          /\ \A m \in MasterRequests \ {Cascade} :
               Distance(pry[Master], Cascade) < Distance(pry[Master], m)
      BY <1>2, <2>2, ChipFacts, DeliverableProperties, SetTypes
    <3>2. \A m \in MasterRequests \ {Cascade} : FALSE
      <4>1. Distance(Succ(Cascade), Cascade) = Top
            /\ \A m \in Lines \ {Cascade} : Distance(Succ(Cascade), m) < Top
        BY ChipFacts, SuccProperties
      <4>2. \A m \in Lines : Distance(Succ(Cascade), m) \in 0 .. Top
        BY ChipFacts, DistanceProperties
      <4> QED BY <2>4, <3>1, <4>1, <4>2, LinesAssumption
    <3> QED BY <3>1, <3>2 DEF MasterRequests
  <2> QED BY <2>3, <2>4
<1>3. TypeOK /\ [Next /\ UNCHANGED guest]_<<vars, guest>> =>
        [\A n \in Lines :
           /\ n # Cascade /\ Entered(Master, n) => n \in Requests(Master)
           /\ Entered(Slave, n) =>
                /\ n \in Requests(Slave)
                /\ pry[Master] = Succ(Cascade) => Cascade \notin imr[Master]]_vars
  BY <1>1, <1>2
<1> QED BY <1>3, TypeCorrect, PTL DEF Spec, MaskIsObeyed
\* A line that a delivery takes out of irr has entered service.
LEMMA ServedEntered ==
  ASSUME TypeOK, PicIrq, NEW chip \in Chip, NEW n \in irr[chip] \ irr'[chip]
  PROVE  Entered(chip, n)
<1>1. PICK d \in Deliverable : InService(d[1], d[2])
  BY ChipFacts DEF PicIrq
<1>2. /\ d \in Chip \X Lines /\ d[2] \notin isr[d[1]] /\ d[2] \in Lines
  BY DeliverableProperties
<1>3. n \in Lines
  BY DEF TypeOK
<1>4. \/ d = <<chip, n>>
      \/ chip = Master /\ n = Cascade /\ d[1] = Slave
  BY <1>1, <1>2, <1>3, ChipFacts DEF InService
<1>5. CASE d = <<chip, n>>
  BY <1>1, <1>2, <1>3, <1>5, ChipFacts DEF InService, Entered
<1>6. CASE chip = Master /\ n = Cascade /\ d[1] = Slave
  BY <1>1, <1>2, <1>6, ChipFacts DEF InService, Entered
<1> QED BY <1>4, <1>5, <1>6

\* The guest takes requests out of irr only with an ICW1.
LEMMA GuestKeepsRequests ==
  ASSUME TypeOK, Guest, NEW chip \in Chip, irr'[chip] # irr[chip]
  PROVE  irr'[chip] = {} /\ writeicw'[chip] = 1 /\ imr'[chip] = {}
<1>1. PICK icw \in guest.icw4 : Icw1(icw[1], icw[2])
  BY DEF Guest, Cli, Sti, GdcO64, Popf, Ocw2, Ocw3, IcwNext, Ocw1, pic, ocw
<1>2. icw[1] \in Chip
  BY GuestFacts
<1> QED BY <1>1, <1>2 DEF Icw1, TypeOK

\* No request is lost: it is served, or taken back by its device, or dropped by
\* an ICW1, or put off to the next retrace, or a masked timer tick that ran out.
THEOREM RequestsAreKept == Spec => RequestsKept
<1> DEFINE excuse(chip, n) ==
             \/ Entered(chip, n)
             \/ <<chip, n>> \in guest.withdrawn /\ phase # "head"
             \/ writeicw'[chip] = 1 /\ imr'[chip] = {}
             \/ chip = Master /\ n = Crtv /\ vsyncint'
             \/ chip = Master /\ n = Timer /\ n \in imr[chip] /\ phase = "events"
<1>1. ASSUME Inv, [Next /\ UNCHANGED guest]_<<vars, guest>>, ~MachineReset,
             NEW chip \in Chip, NEW n \in irr[chip] \ irr'[chip]
      PROVE  excuse(chip, n)
  <2>0. TypeOK
    BY <1>1 DEF Inv
  <2>1. CASE PicIrq
    BY <1>1, <2>0, <2>1, ServedEntered
  <2>2. CASE Guest
    BY <1>1, <2>0, <2>2, GuestKeepsRequests
  <2>3. ASSUME NEW i \in guest.inputs, NEW mode2 \in BOOLEAN, SetIrq(i[1], i[2], mode2)
        PROVE  FALSE
    BY <1>1, <2>0, <2>3, InputFacts DEF SetIrq, Raised, TypeOK
  <2>4. ASSUME NEW i \in guest.withdrawn, ResetIrq(i[1], i[2])
        PROVE  <<chip, n>> \in guest.withdrawn /\ phase # "head"
    <3>1. i[1] = chip /\ i[2] = n
      BY <1>1, <2>0, <2>4, GuestFacts DEF ResetIrq, TypeOK
    <3>2. i = <<i[1], i[2]>>
      BY <2>0, LinesAssumption DEF TypeOK, Repertoire
    <3> QED BY <2>4, <3>1, <3>2 DEF ResetIrq, DeviceRuns
  <2>5. CASE PicMask
    BY <1>1, <2>0, <2>5, ChipFacts DEF PicMask, TypeOK
  <2>6. CASE ScreenVsync
    BY <1>1, <2>6, ChipFacts DEF ScreenVsync, Raised, Inv, TypeOK, VsyncInRetrace
  <2>7. CASE ScreenDisp
    BY <1>1, <2>0, <2>7, ChipFacts DEF ScreenDisp, TypeOK
  <2>8. CASE SliceEnds \/ LoopAgain \/ UNCHANGED <<vars, guest>>
    BY <1>1, <2>8 DEF SliceEnds, LoopAgain, pic, vars
  <2> HIDE DEF excuse
  <2>9. CASE Devices
    <3>1. excuse(chip, n)
      <4> USE DEF excuse
      <4> QED BY <2>3, <2>4, <2>5, <2>6, <2>7, <2>9 DEF Devices
    <3> QED BY <3>1
  <2> QED
    <3> USE DEF excuse
    <3> QED BY <1>1, <2>1, <2>2, <2>8, <2>9 DEF Next, MainLoop
<1>2. Inv /\ [Next /\ UNCHANGED guest]_<<vars, guest>> =>
        [MachineReset \/ \A chip \in Chip : \A n \in irr[chip] \ irr'[chip] :
           excuse(chip, n)]_vars
  BY <1>1
<1> QED BY <1>2, Invariant, PTL DEF Spec, RequestsKept

\* No V-sync interrupt the guest asked for is lost between gdc.vsyncint and irr:
\* it stays wanted until it is served.
THEOREM VsyncIsOwed == Spec => VsyncKept
<1>1. ASSUME Inv, [Next /\ UNCHANGED guest]_<<vars, guest>>, ~MachineReset,
             VsyncWanted, ~VsyncWanted'
      PROVE  Entered(Master, Crtv) \/ writeicw'[Master] = 1
  <2>0. TypeOK /\ Master \in Chip
    BY <1>1, ChipFacts DEF Inv
  <2>1. CASE PicIrq
    BY <1>1, <2>0, <2>1, ServedEntered DEF VsyncWanted, PicIrq
  <2>2. CASE Guest
    <3>1. vsyncint => vsyncint'
      BY <2>2 DEF Guest, Cli, Sti, GdcO64, Popf, Icw1, Ocw2, Ocw3, IcwNext, Ocw1
    <3> QED BY <1>1, <2>0, <2>2, <3>1, GuestKeepsRequests DEF VsyncWanted
  <2>3. ASSUME NEW i \in guest.inputs, NEW mode2 \in BOOLEAN, SetIrq(i[1], i[2], mode2)
        PROVE  FALSE
    BY <1>1, <2>0, <2>3, InputFacts DEF SetIrq, Raised, TypeOK, VsyncWanted
  <2>4. ASSUME NEW i \in guest.withdrawn, ResetIrq(i[1], i[2])
        PROVE  FALSE
    <3>1. i \in (Chip \X Lines) \ {<<Master, Crtv>>}
      BY <2>0, LinesAssumption DEF TypeOK, Repertoire
    <3>2. vsyncint' = vsyncint /\ irr' = [irr EXCEPT ![i[1]] = @ \ {i[2]}]
      BY <2>4 DEF ResetIrq
    <3>3. Crtv \in irr[Master] => Crtv \in irr'[Master]
      BY <2>0, <3>1, <3>2 DEF TypeOK
    <3> QED BY <1>1, <3>2, <3>3 DEF VsyncWanted
  <2>5. CASE PicMask
    BY <1>1, <2>0, <2>5, ChipFacts DEF PicMask, TypeOK, VsyncWanted
  <2>6. CASE ScreenVsync
    BY <1>1, <2>6, ChipFacts DEF ScreenVsync, Raised, Inv, TypeOK, VsyncInRetrace, VsyncWanted
  <2>7. CASE ScreenDisp
    BY <1>1, <2>0, <2>7, ChipFacts DEF ScreenDisp, TypeOK, VsyncWanted
  <2>8. CASE SliceEnds \/ LoopAgain \/ UNCHANGED <<vars, guest>>
    BY <1>1, <2>8 DEF SliceEnds, LoopAgain, pic, vars, VsyncWanted
  <2> QED BY <1>1, <2>1, <2>2, <2>3, <2>4, <2>5, <2>6, <2>7, <2>8
          DEF Next, MainLoop, Devices
<1>2. Inv /\ [Next /\ UNCHANGED guest]_<<vars, guest>> =>
        [VsyncWanted => \/ VsyncWanted'
                        \/ Entered(Master, Crtv)
                        \/ writeicw'[Master] = 1
                        \/ MachineReset]_vars
  BY <1>1
<1> QED BY <1>2, Invariant, PTL DEF Spec, VsyncKept


-----------------------------------------------------------------------------
(* What makes an interrupt deliverable. *)

\* What can be delivered depends on the registers alone.
LEMMA SameDeliverable ==
  ASSUME UNCHANGED <<isr, pry, smm>>,
         Requests(Slave)' = Requests(Slave), MasterRequests' = MasterRequests
  PROVE  Deliverable' = Deliverable
BY DEF Deliverable, Winner, Blocking

\* The cascade, as the last line of the chip, comes first only among itself.
LEMMA CascadeIsLast ==
  ASSUME Cascade = Top, NEW S \in SUBSET Lines, First(0, {Cascade} \cup S) = Cascade
  PROVE  S \subseteq {Cascade}
<1>1. {Cascade} \cup S \in SUBSET Lines BY ChipFacts
<1>2. \A m \in ({Cascade} \cup S) \ {Cascade} : Distance(0, Cascade) < Distance(0, m)
  BY <1>1, ChipFacts, FirstProperties
<1>3. \A m \in Lines : Distance(0, m) = m /\ ~ (Top < m)
  BY LinesAssumption DEF Distance, Lines
<1> QED BY <1>1, <1>2, <1>3

\* An ICW1 for the master that leaves the cascade as it was masked, and finds no
\* request there, changes what can be delivered by the priorities only.
LEMMA Icw1IsPrompt ==
  ASSUME Inv, Inv', Cascade = Top, NEW chip \in Chip, NEW needed,
         Icw1(chip, needed), UNCHANGED <<irr, smm>>, \A c \in Chip : ~smm[c],
         Cascade \notin imr[Master] \ imr'[Master]
  PROVE  Deliverable' # {} => Deliverable # {}
<1>0. TypeOK /\ TypeOK' /\ UNCHANGED isr BY DEF Icw1, Inv
<1>1. irr[chip] = {} BY <1>0 DEF Icw1, TypeOK
<1>2. /\ imr' = [imr EXCEPT ![chip] = {}]
      /\ pry' = [pry EXCEPT ![chip] = 0]
  BY DEF Icw1
<1>3. /\ imr'[chip] = {} /\ pry'[chip] = 0
      /\ \A c \in Chip \ {chip} : imr'[c] = imr[c] /\ pry'[c] = pry[c]
  BY <1>0, <1>2 DEF TypeOK
<1>4. Requests(Slave)' = Requests(Slave)
  BY <1>1, <1>3, ChipFacts DEF Requests
<1>5. MasterRequests' = MasterRequests
  BY <1>1, <1>3, <1>4, ChipFacts DEF MasterRequests
<1>6. Blocking(Master)' = Blocking(Master) /\ Blocking(Slave)' = Blocking(Slave)
  BY <1>0 DEF Blocking
<1>7. CASE chip = Slave
  <2>1. Requests(Slave) = {} BY <1>1, <1>7 DEF Requests
  <2>2. pry'[Master] = pry[Master] BY <1>3, <1>7, ChipFacts
  <2> QED BY <1>0, <1>4, <1>5, <1>6, <2>1, <2>2 DEF Deliverable, Winner
<1>8. CASE chip = Master
  <2> SUFFICES ASSUME Deliverable' # {} PROVE Deliverable # {} OBVIOUS
  <2>1. MasterRequests \subseteq {Cascade}
    BY <1>1, <1>8 DEF MasterRequests
  <2>2. /\ pry'[Master] = 0 /\ pry'[Slave] = pry[Slave] /\ ~smm'[Master]
    BY <1>3, <1>8, ChipFacts
  <2>3. MasterRequests = {Cascade}
    BY <1>5, <2>1 DEF Deliverable
  <2>4. Blocking(Master) = isr[Master] /\ isr[Master] \in SUBSET Lines
    BY <1>0, ChipFacts DEF Blocking, TypeOK
  <2>5. isr[Master] \subseteq {Cascade}
    <3> DEFINE w == First(0, {Cascade} \cup isr[Master])
    <3>1. Winner(Master, MasterRequests)' = w
      BY <1>5, <1>6, <2>2, <2>3, <2>4 DEF Winner
    <3>2. w \in {Cascade} \cup isr[Master]
      BY <2>4, ChipFacts, FirstProperties
    <3>3. w = Cascade
      <4> HIDE DEF w
      <4> QED BY <1>0, <3>1, <3>2 DEF Deliverable
    <3> QED BY <2>4, <3>3, CascadeIsLast
  <2>6. /\ First(pry[Master], {Cascade}) = Cascade
        /\ First(pry'[Master], {Cascade}) = Cascade
    <3>1. pry[Master] \in Lines /\ pry'[Master] \in Lines /\ {Cascade} \in SUBSET Lines
      BY <1>0, ChipFacts DEF TypeOK
    <3> QED BY <3>1, FirstProperties
  <2>7. MasterRequests \cup Blocking(Master) = {Cascade} BY <2>3, <2>4, <2>5
  <2>8. /\ Winner(Master, MasterRequests) = Cascade
        /\ Winner(Master, MasterRequests)' = Cascade
    BY <1>5, <1>6, <2>6, <2>7 DEF Winner
  <2>9. Winner(Slave, Requests(Slave))' = Winner(Slave, Requests(Slave))
    BY <1>4, <1>6, <2>2 DEF Winner
  <2> QED BY <1>0, <1>4, <1>5, <2>8, <2>9 DEF Deliverable
<1> QED BY <1>7, <1>8, ChipFacts


\* Where the slave drives the last line of the master, as in the PC-98, an instruction
\* that makes an interrupt deliverable leaves the slice, by itself or with the special
\* mask mode, masking and the unmasking of the cascade left aside.  (Were there a line
\* behind the cascade, an ICW1 could put its handler behind it by the priorities.)
THEOREM ServiceIsPrompt ==
  ASSUME Cascade = Top
  PROVE  Spec => PromptService
<1> DEFINE Made == /\ GuestRuns /\ UNCHANGED <<irr, smm>>
                   /\ \A chip \in Chip : ~smm[chip] /\ imr'[chip] \subseteq imr[chip]
                   /\ Cascade \notin imr[Master] \ imr'[Master]
                   /\ MadeDeliverable
<1>1. ASSUME Inv, Inv', [Next /\ UNCHANGED guest]_<<vars, guest>>, Made, phase' = "cpu"
      PROVE  FALSE
  <2>1. /\ phase \in {"cpu", "shadow"} /\ UNCHANGED <<irr, smm>>
        /\ \A chip \in Chip : ~smm[chip] /\ imr'[chip] \subseteq imr[chip]
        /\ Cascade \notin imr[Master] \ imr'[Master]
        /\ ei' /\ Deliverable' # {} /\ (ei => Deliverable = {})
    BY <1>1 DEF GuestRuns, MadeDeliverable
  <2> HIDE DEF Made
  <2>2. TypeOK BY <1>1 DEF Inv
  <2>3. UNCHANGED <<imr, isr, pry>> => ~ei
    <3> SUFFICES ASSUME UNCHANGED <<imr, isr, pry>> PROVE ~ei OBVIOUS
    <3>1. Requests(Slave)' = Requests(Slave) BY <2>1 DEF Requests
    <3>2. MasterRequests' = MasterRequests BY <2>1, <3>1 DEF MasterRequests
    <3> QED BY <2>1, <3>1, <3>2, SameDeliverable
  <2>4. ~ (UNCHANGED <<imr, isr, pry, ei>>) BY <2>1, <2>3
  <2>5. CASE MainLoop \/ MachineReset
    BY <2>1, <1>1, <2>5 DEF MainLoop, PicIrq, SliceEnds, LoopAgain, MachineReset
  <2>6. CASE Devices
    BY <2>4, <2>6 DEF Devices, SetIrq, ResetIrq, PicMask, ScreenVsync, ScreenDisp, Raised,
                      ocw, pic
  <2>7. CASE Cli \/ Sti \/ GdcO64 \/ \E flag \in BOOLEAN : Popf(flag)
    BY <1>1, <2>1, <2>4, <2>7 DEF Cli, Sti, GdcO64, Popf, Continue, pic, ocw
  <2>8. ASSUME NEW icw \in guest.icw4, Icw1(icw[1], icw[2]) PROVE FALSE
    <3>1. icw[1] \in Chip BY <2>2, GuestFacts
    <3>2. Deliverable # {} BY <1>1, <2>1, <2>8, <3>1, Icw1IsPrompt
    <3>3. ei' = ei BY <2>8 DEF Icw1
    <3> QED BY <2>1, <3>2, <3>3
  <2>9. ASSUME NEW chip \in Chip,
               NEW level \in {{}} \cup {{n} : n \in guest.levels},
               NEW rotate \in BOOLEAN, NEW eoi \in BOOLEAN,
               Ocw2(chip, level, rotate, eoi)
        PROVE  FALSE
    <3>1. level = {} /\ isr[chip] = {} BY <1>1, <2>9 DEF Ocw2, Continue
    <3>2. Ocw2Level(chip, level) = {} BY <3>1 DEF Ocw2Level
    <3>3. pry' = pry /\ isr' = isr
      BY <2>2, <2>9, <3>2 DEF Ocw2, Rotated, EndOfInterrupt, TypeOK
    <3> QED BY <2>4, <2>9, <3>3 DEF Ocw2
  <2>10. ASSUME NEW chip \in Chip, NEW rr \in BOOLEAN, NEW special \in guest.smm,
                Ocw3(chip, rr, special)
         PROVE  FALSE
    BY <2>4, <2>10 DEF Ocw3
  <2>11. ASSUME NEW chip \in Chip, IcwNext(chip) PROVE FALSE
    BY <2>4, <2>11 DEF IcwNext
  <2>12. ASSUME NEW chip \in Chip, NEW mask \in guest.masks, Ocw1(chip, mask)
         PROVE  FALSE
    <3>1. /\ UNCHANGED <<isr, irr, pry, smm, ei>> /\ imr' = [imr EXCEPT ![chip] = mask]
          /\ ~ (ei /\ irr[chip] \cap (imr[chip] \ mask) # {})
      BY <1>1, <2>12 DEF Ocw1, Continue, ocw
    <3>2. imr'[chip] = mask /\ mask \subseteq imr[chip]
          /\ \A c \in Chip \ {chip} : imr'[c] = imr[c]
      BY <2>1, <2>2, <3>1 DEF TypeOK
    <3>3. ei /\ irr[chip] \ mask = irr[chip] \ imr[chip] BY <2>1, <3>1, <3>2
    <3>4. \A c \in Chip : Requests(c)' = Requests(c)
      BY <3>1, <3>2, <3>3 DEF Requests
    <3>5. MasterRequests' = MasterRequests
      <4>1. Requests(Master)' = Requests(Master) /\ Requests(Slave)' = Requests(Slave)
        BY <3>4, ChipFacts
      <4>2. Cascade \in imr'[Master] <=> Cascade \in imr[Master] BY <2>1, ChipFacts
      <4> QED BY <4>1, <4>2 DEF MasterRequests, Requests
    <3> QED BY <2>1, <3>1, <3>3, <3>4, <3>5, ChipFacts, SameDeliverable
  <2>13. CASE Guest
    BY <2>7, <2>8, <2>9, <2>10, <2>11, <2>12, <2>13 DEF Guest
  <2>14. CASE UNCHANGED <<vars, guest>> BY <2>4, <2>14 DEF vars, pic, ocw
  <2> QED BY <1>1, <2>5, <2>6, <2>13, <2>14 DEF Next
<1>2. Inv /\ Inv' /\ [Next /\ UNCHANGED guest]_<<vars, guest>>
        => [Made => phase' # "cpu"]_vars
  BY <1>1
<1>3. PromptService <=> [][Made => phase' # "cpu"]_vars
  BY PTL DEF PromptService
<1> QED BY <1>2, <1>3, Invariant, PTL DEF Spec
=============================================================================
