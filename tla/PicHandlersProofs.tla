------------------------- MODULE PicHandlersProofs -------------------------
(***************************************************************************)
(* Proofs about the interrupt handlers of module PicHandlers, for chips    *)
(* with any number of lines, any devices, and handlers that nest to any    *)
(* depth: what is in service is what the handlers have not ended.  An EOI  *)
(* without a level ends the most urgent line in service, so the invariant  *)
(* must say that the handlers lie on the stack in the order of their       *)
(* priorities, on each chip and through the cascade, and that the          *)
(* rotation of the priorities keeps this order.                            *)
(***************************************************************************)
EXTENDS PicHandlers, PicProofs, SequenceTheorems

Handlers == [irq : Chip \X Lines, done : BOOLEAN]

\* A handler is interrupted only by more urgent lines, of its chip and of the
\* master.
Nested ==
  \A i, j \in 1 .. Len(stack) :
    i < j /\ ~stack[i].done /\ ~stack[j].done =>
      /\ stack[i].irq[1] = stack[j].irq[1] =>
           Distance(pry[stack[i].irq[1]], stack[j].irq[2])
             < Distance(pry[stack[i].irq[1]], stack[i].irq[2])
      /\ MasterLine(stack[i].irq) # MasterLine(stack[j].irq) =>
           Distance(pry[Master], MasterLine(stack[j].irq))
             < Distance(pry[Master], MasterLine(stack[i].irq))

\* Only the running handler has sent its EOI, and interrupts are disabled then.
StackInv ==
  /\ stack \in Seq(Handlers)
  /\ \A i \in 1 .. Len(stack) :
       /\ stack[i].irq # <<Master, Cascade>>
       /\ stack[i].done => i = Len(stack) /\ ~ei

HandlersInv ==
  /\ Inv
  /\ smm = [c \in Chip |-> FALSE]
  /\ StackInv
  /\ Nested
  /\ InServiceIsStack

-----------------------------------------------------------------------------
(* Priorities. *)

\* The search stops at the line that comes before all others of the set.
LEMMA FirstIs ==
  ASSUME NEW p \in Lines, NEW S \in SUBSET Lines, NEW n \in S,
         \A m \in S \ {n} : Distance(p, n) < Distance(p, m)
  PROVE  First(p, S) = n
<1>1. First(p, S) \in S BY FirstProperties
<1>2. First(p, S) # n => Distance(p, First(p, S)) < Distance(p, n)
  BY FirstProperties
<1>3. \A m \in S : Distance(p, m) \in Int BY DistanceProperties
<1> QED BY <1>1, <1>2, <1>3

\* When a rotation makes the most urgent line the last, the others keep their
\* order.
LEMMA RotationKeepsOrder ==
  ASSUME NEW p \in Lines, NEW n \in Lines, NEW a \in Lines, NEW b \in Lines,
         Distance(p, n) < Distance(p, a), Distance(p, a) < Distance(p, b)
  PROVE  Distance(Succ(n), a) < Distance(Succ(n), b)
BY LinesAssumption DEF Lines, Distance, Succ

-----------------------------------------------------------------------------
(* The handlers on the stack. *)

LEMMA UnfinishedMembers ==
  ASSUME stack \in Seq(Handlers), NEW c, NEW n
  PROVE  n \in Unfinished(c) <=>
           \E i \in 1 .. Len(stack) :
             ~stack[i].done /\ stack[i].irq[1] = c /\ stack[i].irq[2] = n
<1>1. DOMAIN stack = 1 .. Len(stack) OBVIOUS
<1> QED BY <1>1 DEF Unfinished

LEMMA UnfinishedMembersPrime ==
  ASSUME stack' \in Seq(Handlers), NEW c, NEW n
  PROVE  n \in Unfinished(c)' <=>
           \E i \in 1 .. Len(stack') :
             ~stack'[i].done /\ stack'[i].irq[1] = c /\ stack'[i].irq[2] = n
<1>1. DOMAIN stack' = 1 .. Len(stack') OBVIOUS
<1> QED BY <1>1 DEF Unfinished

\* The interrupt that a handler on the stack serves.
LEMMA HandlerFacts ==
  ASSUME HandlersInv, NEW i \in 1 .. Len(stack)
  PROVE  /\ stack[i] \in Handlers /\ stack[i].done \in BOOLEAN
         /\ stack[i].irq \in Chip \X Lines
         /\ stack[i].irq = <<stack[i].irq[1], stack[i].irq[2]>>
         /\ stack[i].irq[1] \in {Master, Slave} /\ stack[i].irq[2] \in Lines
         /\ stack[i].irq[1] = Master => stack[i].irq[2] # Cascade
         /\ MasterLine(stack[i].irq) \in Lines
         /\ MasterLine(stack[i].irq) = Cascade <=> stack[i].irq[1] = Slave
<1>1. stack[i] \in Handlers BY DEF HandlersInv, StackInv
<1>2. /\ stack[i].irq \in Chip \X Lines /\ stack[i].done \in BOOLEAN
  BY <1>1 DEF Handlers
<1>3. stack[i].irq # <<Master, Cascade>> BY DEF HandlersInv, StackInv
<1> QED BY <1>1, <1>2, <1>3, ChipFacts DEF MasterLine

\* A handler that has not ended is in service, on the slave with the cascade.
LEMMA UnfinishedIsInService ==
  ASSUME HandlersInv, NEW i \in 1 .. Len(stack), ~stack[i].done
  PROVE  /\ stack[i].irq[2] \in isr[stack[i].irq[1]]
         /\ MasterLine(stack[i].irq) \in isr[Master]
<1>1. stack[i].irq[2] \in Unfinished(stack[i].irq[1])
  BY UnfinishedMembers DEF HandlersInv, StackInv
<1>2. CASE stack[i].irq[1] = Master
  BY <1>1, <1>2 DEF HandlersInv, InServiceIsStack, MasterLine
<1>3. CASE stack[i].irq[1] = Slave
  <2>1. Unfinished(Slave) # {} BY <1>1, <1>3
  <2>2. Cascade \in isr[Master] BY <2>1 DEF HandlersInv, InServiceIsStack
  <2> QED BY <1>1, <1>3, <2>2, ChipFacts DEF HandlersInv, InServiceIsStack, MasterLine
<1> QED BY <1>2, <1>3, HandlerFacts

\* A step that changes neither the stack nor what is in service nor the
\* priorities.
LEMMA HandlersKept ==
  ASSUME HandlersInv, Inv', UNCHANGED <<isr, pry, smm, stack>>,
         ei' => ei \/ \A i \in 1 .. Len(stack) : ~stack[i].done
  PROVE  HandlersInv'
<1>1. StackInv' BY DEF HandlersInv, StackInv
<1>2. Nested' BY DEF HandlersInv, Nested
<1>3. \A c : Unfinished(c)' = Unfinished(c) BY DEF Unfinished
<1>4. InServiceIsStack' BY <1>3 DEF HandlersInv, InServiceIsStack
<1> QED BY <1>1, <1>2, <1>4 DEF HandlersInv

-----------------------------------------------------------------------------
(* The steps. *)

\* pic_irq delivers one interrupt at most.
LEMMA OneDeliverable ==
  ASSUME NEW d \in Deliverable, NEW e \in Deliverable
  PROVE  d = e
BY DEF Deliverable

\* An interrupt: its line is more urgent than all that are in service.
LEMMA InterruptKeeps ==
  ASSUME HandlersInv, Interrupt, UNCHANGED guest
  PROVE  HandlersInv'
<1>0. Inv' BY IrqKeepsInv DEF HandlersInv, Interrupt
<1>1. CASE ~(ei /\ Deliverable # {})
  BY <1>0, <1>1, HandlersKept DEF Interrupt, PicIrq, ocw
<1>2. CASE ei /\ Deliverable # {}
  <2> DEFINE d == CHOOSE x \in Deliverable : TRUE
             h == Handler(d)
             n == Len(stack)
  <2>1. d \in Deliverable BY <1>2
  <2> HIDE DEF d
  <2>2. /\ InService(d[1], d[2]) /\ stack' = Append(stack, h) /\ ei' = FALSE
        /\ UNCHANGED <<pry, smm>>
    BY <1>2, <2>1, OneDeliverable DEF Interrupt, PicIrq, ocw, d
  <2>3. TypeOK BY DEF HandlersInv, Inv
  <2>4. /\ d \in Chip \X Lines
        /\ d[2] \notin isr[d[1]]
        /\ d[1] = Master => d[2] # Cascade
        /\ \A m \in Blocking(d[1]) \ {d[2]} :
             Distance(pry[d[1]], d[2]) < Distance(pry[d[1]], m)
        /\ d[1] = Slave =>
             \A m \in Blocking(Master) \ {Cascade} :
               Distance(pry[Master], Cascade) < Distance(pry[Master], m)
    BY <2>1, <2>3, DeliverableProperties
  <2>5. \A c \in Chip : Blocking(c) = isr[c]
    BY DEF HandlersInv, Blocking
  <2>6. d[1] \in Chip /\ d[2] \in Lines /\ d = <<d[1], d[2]>> /\ Master \in Chip
    BY <2>4, ChipFacts
  <2>7. h \in Handlers /\ h.irq = d /\ h.done = FALSE
    BY <2>4 DEF Handlers, Handler
  <2> HIDE DEF h
  <2>8. stack \in Seq(Handlers) /\ n \in Nat BY DEF HandlersInv, StackInv
  <2>9. /\ stack' \in Seq(Handlers) /\ Len(stack') = n + 1 /\ stack'[n + 1] = h
        /\ \A i \in 1 .. n : stack'[i] = stack[i]
    BY <2>2, <2>7, <2>8, AppendProperties
  <2>10. \A i \in 1 .. n : ~stack[i].done
    BY <1>2, <2>8 DEF HandlersInv, StackInv
  <2>11. StackInv'
    <3> SUFFICES ASSUME NEW i \in 1 .. n + 1
                 PROVE  stack'[i].irq # <<Master, Cascade>> /\ ~stack'[i].done
      BY <2>9 DEF StackInv
    <3>1. CASE i = n + 1 BY <2>4, <2>6, <2>7, <2>9, <3>1
    <3>2. CASE i # n + 1
      <4>1. i \in 1 .. n BY <2>8, <3>2
      <4> QED BY <2>9, <2>10, <4>1 DEF HandlersInv, StackInv
    <3> QED BY <3>1, <3>2
  <2>12. Nested'
    <3> SUFFICES ASSUME NEW i \in 1 .. n + 1, NEW j \in 1 .. n + 1, i < j
                 PROVE  /\ stack'[i].irq[1] = stack'[j].irq[1] =>
                             Distance(pry[stack'[i].irq[1]], stack'[j].irq[2])
                               < Distance(pry[stack'[i].irq[1]], stack'[i].irq[2])
                        /\ MasterLine(stack'[i].irq) # MasterLine(stack'[j].irq) =>
                             Distance(pry[Master], MasterLine(stack'[j].irq))
                               < Distance(pry[Master], MasterLine(stack'[i].irq))
      BY <2>2, <2>9 DEF Nested, MasterLine
    <3>1. i \in 1 .. n /\ stack'[i] = stack[i] /\ ~stack[i].done BY <2>8, <2>9, <2>10
    <3>2. CASE j # n + 1
      <4>1. j \in 1 .. n /\ stack'[j] = stack[j] /\ ~stack[j].done
        BY <2>8, <2>9, <2>10, <3>2
      <4> QED BY <3>1, <4>1 DEF HandlersInv, Nested
    <3>3. CASE j = n + 1
      <4>1. stack'[j].irq = d BY <2>7, <2>9, <3>3
      <4>2. /\ stack[i].irq[2] \in isr[stack[i].irq[1]]
            /\ MasterLine(stack[i].irq) \in isr[Master]
        BY <3>1, UnfinishedIsInService
      <4>3. ASSUME stack[i].irq[1] = d[1]
            PROVE  Distance(pry[d[1]], d[2]) < Distance(pry[d[1]], stack[i].irq[2])
        BY <2>4, <2>5, <2>6, <4>2, <4>3
      <4>4. ASSUME MasterLine(stack[i].irq) # MasterLine(d)
            PROVE  Distance(pry[Master], MasterLine(d))
                     < Distance(pry[Master], MasterLine(stack[i].irq))
        <5>1. CASE d[1] = Master
          <6>1. MasterLine(d) = d[2] BY <5>1 DEF MasterLine
          <6> QED BY <2>4, <2>5, <2>6, <4>2, <4>4, <5>1, <6>1
        <5>2. CASE d[1] = Slave
          <6>1. MasterLine(d) = Cascade BY <5>2, ChipFacts DEF MasterLine
          <6> QED BY <2>4, <2>5, <2>6, <4>2, <4>4, <5>2, <6>1
        <5> QED BY <2>6, <5>1, <5>2, ChipFacts
      <4> QED BY <3>1, <4>1, <4>3, <4>4
    <3> QED BY <3>2, <3>3
  <2>13. InServiceIsStack'
    <3>1. ASSUME NEW c, NEW x
          PROVE  x \in Unfinished(c)' <=> x \in Unfinished(c) \/ <<c, x>> = d
      <4>1. x \in Unfinished(c)' <=>
              \E i \in 1 .. n + 1 :
                ~stack'[i].done /\ stack'[i].irq[1] = c /\ stack'[i].irq[2] = x
        BY <2>9, UnfinishedMembersPrime
      <4>2. x \in Unfinished(c) <=>
              \E i \in 1 .. n :
                ~stack[i].done /\ stack[i].irq[1] = c /\ stack[i].irq[2] = x
        BY <2>8, UnfinishedMembers
      <4>3. 1 .. n + 1 = (1 .. n) \cup {n + 1} BY <2>8
      <4> QED BY <2>6, <2>7, <2>9, <4>1, <4>2, <4>3
    <3>2. \A c \in Chip : \A x :
            x \in isr'[c] <=> \/ x \in isr[c] \/ <<c, x>> = d
                              \/ d[1] = Slave /\ c = Master /\ x = Cascade
      BY <2>2, <2>3, <2>6, ChipFacts DEF InService, TypeOK
    <3>3. Slave \in Chip /\ Master # Slave BY ChipFacts
    <3>4. isr'[Slave] = Unfinished(Slave)'
      <4>1. \A x : x \in isr'[Slave] <=> x \in Unfinished(Slave)'
        BY <3>1, <3>2, <3>3 DEF HandlersInv, InServiceIsStack
      <4> QED BY <4>1
    <3>5. Unfinished(Slave)' # {} <=> Unfinished(Slave) # {} \/ d[1] = Slave
      BY <2>6, <3>1
    <3>6. isr'[Master] = Unfinished(Master)'
                           \cup (IF Unfinished(Slave)' = {} THEN {} ELSE {Cascade})
      <4>1. \A x : x \in isr[Master] <=>
                     x \in Unfinished(Master) \/ (Unfinished(Slave) # {} /\ x = Cascade)
        BY DEF HandlersInv, InServiceIsStack
      <4>2. \A x : x \in isr'[Master] <=>
                     \/ x \in Unfinished(Master)'
                     \/ Unfinished(Slave)' # {} /\ x = Cascade
        BY <2>6, <3>1, <3>2, <3>5, <4>1
      <4> QED BY <4>2
    <3> QED BY <3>4, <3>6 DEF InServiceIsStack
  <2>14. smm' = [c \in Chip |-> FALSE] BY <2>2 DEF HandlersInv
  <2> QED BY <1>0, <2>11, <2>12, <2>13, <2>14 DEF HandlersInv
<1> QED BY <1>1, <1>2

\* The line that an EOI of the running handler ends is its own, and on the master
\* the cascade for the last handler of the slave.
LEMMA CurrentIsFirst ==
  ASSUME HandlersInv, Running, ~Current.done
  PROVE  /\ Current.irq[1] \in Chip /\ Current.irq[2] \in Lines
         /\ Current.irq[2] \in isr[Current.irq[1]]
         /\ First(pry[Current.irq[1]], isr[Current.irq[1]]) = Current.irq[2]
         /\ \A m \in isr[Current.irq[1]] \ {Current.irq[2]} :
              Distance(pry[Current.irq[1]], Current.irq[2])
                < Distance(pry[Current.irq[1]], m)
         /\ MasterLine(Current.irq) \in isr[Master]
         /\ First(pry[Master], isr[Master]) = MasterLine(Current.irq)
         /\ \A m \in isr[Master] \ {MasterLine(Current.irq)} :
              Distance(pry[Master], MasterLine(Current.irq)) < Distance(pry[Master], m)
<1> DEFINE n == Len(stack)
           chip == Current.irq[1]
           own == Current.irq[2]
           line == MasterLine(Current.irq)
<1>1. stack \in Seq(Handlers) /\ n \in Nat /\ n \in 1 .. n
  BY DEF HandlersInv, StackInv, Running
<1>2. /\ chip \in {Master, Slave} /\ own \in Lines /\ line \in Lines
      /\ chip = Master => own # Cascade
      /\ line = Cascade <=> chip = Slave
      /\ own \in isr[chip] /\ line \in isr[Master]
  BY <1>1, HandlerFacts, UnfinishedIsInService DEF Current
<1>3. /\ isr \in [Chip -> SUBSET Lines] /\ pry \in [Chip -> Lines]
  BY DEF HandlersInv, Inv, TypeOK
<1>4. ASSUME NEW m \in isr[Master] \ {line}
      PROVE  Distance(pry[Master], line) < Distance(pry[Master], m)
  <2>1. \E i \in 1 .. n : ~stack[i].done /\ MasterLine(stack[i].irq) = m
    <3>1. m \in Unfinished(Master) \/ (m = Cascade /\ Unfinished(Slave) # {})
      BY DEF HandlersInv, InServiceIsStack
    <3>2. CASE m \in Unfinished(Master)
      BY <1>1, <3>2, UnfinishedMembers DEF MasterLine
    <3>3. CASE m = Cascade /\ Unfinished(Slave) # {}
      <4>1. PICK x : x \in Unfinished(Slave) BY <3>3
      <4>2. PICK i \in 1 .. n : ~stack[i].done /\ stack[i].irq[1] = Slave
        BY <1>1, <4>1, UnfinishedMembers
      <4> QED BY <3>3, <4>2, HandlerFacts
    <3> QED BY <3>1, <3>2, <3>3
  <2>2. PICK i \in 1 .. n : ~stack[i].done /\ MasterLine(stack[i].irq) = m BY <2>1
  <2>3. i # n BY <2>2 DEF Current
  <2>4. i < n BY <1>1, <2>3
  <2> QED BY <1>1, <2>2, <2>4 DEF HandlersInv, Nested, Current
<1>5. ASSUME NEW m \in isr[chip] \ {own}
      PROVE  Distance(pry[chip], own) < Distance(pry[chip], m)
  <2>1. CASE chip = Master
    <3>1. line = own BY <2>1 DEF MasterLine
    <3> QED BY <1>4, <2>1, <3>1
  <2>2. CASE chip = Slave
    <3>1. m \in Unfinished(Slave) BY <2>2 DEF HandlersInv, InServiceIsStack
    <3>2. PICK i \in 1 .. n : ~stack[i].done /\ stack[i].irq[1] = Slave /\ stack[i].irq[2] = m
      BY <1>1, <3>1, UnfinishedMembers
    <3>3. i # n BY <3>2 DEF Current
    <3>4. i < n BY <1>1, <3>3
    <3> QED BY <1>1, <2>2, <3>2, <3>4 DEF HandlersInv, Nested, Current
  <2> QED BY <1>2, <2>1, <2>2
<1>6. chip \in Chip /\ Master \in Chip BY <1>2, ChipFacts
<1> HIDE DEF chip, own, line
<1>7. First(pry[Master], isr[Master]) = line
  BY <1>2, <1>3, <1>4, <1>6, FirstIs
<1>8. First(pry[chip], isr[chip]) = own
  BY <1>2, <1>3, <1>5, <1>6, FirstIs
<1> QED BY <1>2, <1>4, <1>5, <1>6, <1>7, <1>8 DEF chip, own, line

\* The end of a handler: its own line leaves service, and the cascade when no
\* other handler of the slave is left.
LEMMA EpilogueKeeps ==
  ASSUME HandlersInv, Epilogue, UNCHANGED guest
  PROVE  HandlersInv'
<1> DEFINE n == Len(stack)
           chip == Current.irq[1]
           own == Current.irq[2]
           line == MasterLine(Current.irq)
           E == EndedChips(Current.irq)
           top(c) == IF c = chip THEN own ELSE line
<1>1. stack \in Seq(Handlers) /\ n \in Nat /\ n \in 1 .. n /\ stack[n] \in Handlers
  BY DEF HandlersInv, StackInv, Running, Epilogue
<1>2. /\ chip \in {Master, Slave} /\ own \in Lines /\ line \in Lines
      /\ chip = Master => own # Cascade /\ line = own
      /\ line = Cascade <=> chip = Slave
  BY <1>1, HandlerFacts DEF Current, MasterLine
<1>3. /\ isr \in [Chip -> SUBSET Lines] /\ pry \in [Chip -> Lines]
      /\ TypeOK /\ Chip = {Master, Slave} /\ Master # Slave
  BY ChipFacts DEF HandlersInv, Inv, TypeOK
<1>4. /\ ~ei /\ ei' = ei /\ Running /\ ~Current.done
      /\ UNCHANGED <<imr, irr, smm, ic4, maskevent, vsyncint, vsync>>
      /\ isr' = [c \in Chip |-> IF c \in E THEN EndOfInterrupt(c, {}) ELSE isr[c]]
      /\ pry' = [c \in Chip |-> IF rotates /\ c \in E THEN Rotated(c, {}) ELSE pry[c]]
      /\ writeicw' = [c \in Chip |-> IF c \in E THEN 0 ELSE writeicw[c]]
      /\ stack' = [stack EXCEPT ![n].done = TRUE]
      /\ phase' = "events"
  BY DEF Epilogue, Continue
<1>5. /\ own \in isr[chip] /\ line \in isr[Master]
      /\ First(pry[chip], isr[chip]) = own
      /\ \A m \in isr[chip] \ {own} : Distance(pry[chip], own) < Distance(pry[chip], m)
      /\ First(pry[Master], isr[Master]) = line
      /\ \A m \in isr[Master] \ {line} :
           Distance(pry[Master], line) < Distance(pry[Master], m)
  BY <1>4, CurrentIsFirst
<1>6. /\ EndOfInterrupt(chip, {}) = isr[chip] \ {own}
      /\ Rotated(chip, {}) = Succ(own)
      /\ EndOfInterrupt(Master, {}) = isr[Master] \ {line}
      /\ Rotated(Master, {}) = Succ(line)
  BY <1>5 DEF EndOfInterrupt, Rotated, Ocw2Level
<1>7. E = IF chip = Slave /\ isr[Slave] # {own} THEN {Slave} ELSE {Master, chip}
  BY <1>2, <1>5, <1>6 DEF EndedChips
<1> HIDE DEF chip, own, line, E
<1>8. \A c \in E : c \in Chip /\ (c = chip \/ c = Master)
  BY <1>2, <1>3, <1>7
<1>9. \A c \in Chip : isr'[c] \subseteq isr[c] /\ pry'[c] \in Lines
  BY <1>2, <1>3, <1>4, <1>6, <1>8, ChipFacts
<1>10. Inv'
  <2>1. isr' \in [Chip -> SUBSET Lines] /\ pry' \in [Chip -> Lines]
    BY <1>3, <1>4, <1>9
  <2>2. writeicw' \in [Chip -> 0 .. 3] BY <1>3, <1>4 DEF TypeOK
  <2>3. TypeOK' BY <1>3, <1>4, <2>1, <2>2 DEF TypeOK, Phases
  <2>4. VsyncInRetrace'
    BY <1>3, <1>4, <1>9 DEF HandlersInv, Inv, VsyncInRetrace
  <2> QED BY <2>3, <2>4 DEF Inv
<1>11. /\ stack' \in Seq(Handlers) /\ Len(stack') = n
       /\ stack'[n].irq = stack[n].irq /\ stack'[n].done = TRUE
       /\ \A i \in 1 .. n : i # n => stack'[i] = stack[i]
  <2> DEFINE h == [stack[n] EXCEPT !.done = TRUE]
  <2>1. h \in Handlers /\ h.irq = stack[n].irq /\ h.done = TRUE
    BY <1>1 DEF Handlers
  <2>2. stack' = [stack EXCEPT ![n] = h] BY <1>4
  <2> HIDE DEF h
  <2> QED BY <1>1, <2>1, <2>2, ExceptSeq
<1>12. StackInv'
  BY <1>1, <1>4, <1>11 DEF HandlersInv, StackInv
<1>13. \A i \in 1 .. n : i # n => i < n /\ ~stack[i].done
  BY <1>1 DEF HandlersInv, StackInv
<1>14. Nested'
  <2> SUFFICES ASSUME NEW i \in 1 .. n, NEW j \in 1 .. n, i < j,
                      ~stack'[i].done, ~stack'[j].done
               PROVE  /\ stack'[i].irq[1] = stack'[j].irq[1] =>
                           Distance(pry'[stack'[i].irq[1]], stack'[j].irq[2])
                             < Distance(pry'[stack'[i].irq[1]], stack'[i].irq[2])
                      /\ MasterLine(stack'[i].irq) # MasterLine(stack'[j].irq) =>
                           Distance(pry'[Master], MasterLine(stack'[j].irq))
                             < Distance(pry'[Master], MasterLine(stack'[i].irq))
    BY <1>11 DEF Nested, MasterLine
  <2>1. /\ i # n /\ j # n /\ stack'[i] = stack[i] /\ stack'[j] = stack[j]
        /\ ~stack[i].done /\ ~stack[j].done /\ i < n /\ j < n
    BY <1>11, <1>13
  <2>2. /\ stack[i].irq[1] \in Chip /\ stack[i].irq[2] \in Lines
        /\ stack[j].irq[1] \in Chip /\ stack[j].irq[2] \in Lines
        /\ MasterLine(stack[i].irq) \in Lines /\ MasterLine(stack[j].irq) \in Lines
        /\ MasterLine(stack[i].irq) = Cascade <=> stack[i].irq[1] = Slave
        /\ MasterLine(stack[j].irq) = Cascade <=> stack[j].irq[1] = Slave
    BY <1>3, HandlerFacts
  <2>3. /\ stack[i].irq[1] = stack[j].irq[1] =>
             Distance(pry[stack[i].irq[1]], stack[j].irq[2])
               < Distance(pry[stack[i].irq[1]], stack[i].irq[2])
        /\ MasterLine(stack[i].irq) # MasterLine(stack[j].irq) =>
             Distance(pry[Master], MasterLine(stack[j].irq))
               < Distance(pry[Master], MasterLine(stack[i].irq))
    BY <2>1 DEF HandlersInv, Nested
  <2>4. ASSUME NEW k \in {i, j}, stack[k].irq[1] = chip
        PROVE  Distance(pry[chip], own) < Distance(pry[chip], stack[k].irq[2])
    BY <1>1, <1>4, <2>1, <2>4 DEF HandlersInv, Nested, Current, chip, own
  <2>5. ASSUME NEW k \in {i, j}, MasterLine(stack[k].irq) # line
        PROVE  Distance(pry[Master], line) < Distance(pry[Master], MasterLine(stack[k].irq))
    BY <1>1, <1>4, <2>1, <2>5 DEF HandlersInv, Nested, Current, line
  <2>6. ASSUME stack[i].irq[1] = stack[j].irq[1]
        PROVE  Distance(pry'[stack[i].irq[1]], stack[j].irq[2])
                 < Distance(pry'[stack[i].irq[1]], stack[i].irq[2])
    <3> DEFINE c == stack[i].irq[1]
    <3>1. CASE pry'[c] = pry[c] BY <2>3, <2>6, <3>1
    <3>2. CASE pry'[c] # pry[c]
      <4>1. c \in E /\ pry'[c] = Rotated(c, {}) BY <1>4, <2>2, <3>2
      <4>2. CASE c = chip
        <5>1. pry'[c] = Succ(own) BY <1>6, <4>1, <4>2
        <5>2. Distance(pry[c], own) < Distance(pry[c], stack[j].irq[2])
          BY <2>4, <2>6, <4>2
        <5>3. pry[c] \in Lines BY <1>3, <2>2
        <5> QED BY <1>2, <2>2, <2>3, <2>6, <5>1, <5>2, <5>3, RotationKeepsOrder
      <4>3. CASE c # chip
        <5>1. c = Master /\ chip = Slave BY <1>2, <1>8, <4>1, <4>3
        <5>2. pry'[c] = Succ(line) BY <1>6, <4>1, <5>1
        <5>3. MasterLine(stack[i].irq) = stack[i].irq[2]
                /\ MasterLine(stack[j].irq) = stack[j].irq[2]
          BY <2>6, <5>1 DEF MasterLine
        <5>4. line = Cascade BY <1>2, <5>1
        <5>5. MasterLine(stack[j].irq) # line BY <1>3, <2>2, <2>6, <5>1, <5>4
        <5>6. Distance(pry[c], line) < Distance(pry[c], stack[j].irq[2])
          BY <2>5, <5>1, <5>3, <5>5
        <5>7. pry[c] \in Lines BY <1>3, <2>2
        <5> QED BY <1>2, <2>2, <2>3, <2>6, <5>2, <5>6, <5>7, RotationKeepsOrder
      <4> QED BY <4>2, <4>3
    <3> QED BY <3>1, <3>2
  <2>7. ASSUME MasterLine(stack[i].irq) # MasterLine(stack[j].irq)
        PROVE  Distance(pry'[Master], MasterLine(stack[j].irq))
                 < Distance(pry'[Master], MasterLine(stack[i].irq))
    <3>1. CASE pry'[Master] = pry[Master] BY <2>3, <2>7, <3>1
    <3>2. CASE pry'[Master] # pry[Master]
      <4>1. Master \in E /\ pry'[Master] = Succ(line) BY <1>3, <1>4, <1>6, <3>2
      <4>2. MasterLine(stack[j].irq) # line
        <5>1. CASE chip = Master
          <6>1. line = own /\ own # Cascade BY <1>2, <5>1
          <6>2. ASSUME stack[j].irq[1] = Master
                PROVE  Distance(pry[Master], own) < Distance(pry[Master], stack[j].irq[2])
            BY <2>4, <5>1, <6>2
          <6>3. \A x \in Lines : Distance(pry[Master], x) \in Int
            BY <1>3, DistanceProperties
          <6>4. stack[j].irq[1] = Master => stack[j].irq[2] # own
            BY <1>2, <6>2, <6>3
          <6>5. stack[j].irq[1] = Master => MasterLine(stack[j].irq) = stack[j].irq[2]
            BY DEF MasterLine
          <6> QED BY <1>3, <2>2, <6>1, <6>4, <6>5
        <5>2. CASE chip = Slave
          <6>1. isr[Slave] = {own} /\ line = Cascade BY <1>2, <1>3, <1>7, <4>1, <5>2
          <6>2. ASSUME stack[j].irq[1] = Slave PROVE FALSE
            <7>1. stack[j].irq[2] \in isr[Slave] BY <2>1, <6>2, UnfinishedIsInService
            <7>2. stack[j].irq[2] = own BY <6>1, <7>1
            <7>3. Distance(pry[chip], own) < Distance(pry[chip], own)
              BY <2>4, <5>2, <6>2, <7>2
            <7>4. Distance(pry[chip], own) \in Int
              BY SMTT(30), <1>2, <1>3, DistanceProperties
            <7> QED BY <7>3, <7>4
          <6> QED BY <2>2, <6>1, <6>2
        <5> QED BY <1>2, <5>1, <5>2
      <4>3. Distance(pry[Master], line) < Distance(pry[Master], MasterLine(stack[j].irq))
        BY <2>5, <4>2
      <4>4. pry[Master] \in Lines BY <1>3
      <4> QED BY <1>2, <2>2, <2>3, <2>7, <4>1, <4>3, <4>4, RotationKeepsOrder
    <3> QED BY <3>1, <3>2
  <2> QED BY <2>1, <2>6, <2>7
<1>15. ASSUME NEW c, NEW x
       PROVE  x \in Unfinished(c)' <=> x \in Unfinished(c) /\ <<c, x>> # <<chip, own>>
  <2>1. x \in Unfinished(c)' <=>
          \E i \in 1 .. n :
            i # n /\ ~stack[i].done /\ stack[i].irq[1] = c /\ stack[i].irq[2] = x
    BY <1>11, <1>13, UnfinishedMembersPrime
  <2>2. x \in Unfinished(c) <=>
          \E i \in 1 .. n :
            ~stack[i].done /\ stack[i].irq[1] = c /\ stack[i].irq[2] = x
    BY <1>1, UnfinishedMembers
  <2>3. stack[n].irq[1] = chip /\ stack[n].irq[2] = own /\ ~stack[n].done
    BY <1>4 DEF chip, own, Current
  <2>4. ASSUME NEW i \in 1 .. n, i # n, stack[i].irq[1] = chip
        PROVE  stack[i].irq[2] # own
    <3>1. Distance(pry[chip], own) < Distance(pry[chip], stack[i].irq[2])
      BY <1>1, <1>13, <2>3, <2>4 DEF HandlersInv, Nested
    <3>2. Distance(pry[chip], own) \in Int BY SMTT(30), <1>2, <1>3, DistanceProperties
    <3> QED BY <3>1, <3>2
  <2> QED BY <1>1, <2>1, <2>2, <2>3, <2>4
<1>16. InServiceIsStack'
  <2>1. /\ isr[Slave] = Unfinished(Slave)
        /\ isr[Master] = Unfinished(Master)
                           \cup (IF Unfinished(Slave) = {} THEN {} ELSE {Cascade})
    BY DEF HandlersInv, InServiceIsStack
  <2>2. CASE chip = Master
    <3>1. E = {Master} BY <1>3, <1>7, <2>2
    <3>2. isr'[Master] = isr[Master] \ {own} /\ isr'[Slave] = isr[Slave]
      BY <1>3, <1>4, <1>6, <2>2, <3>1
    <3>3. Unfinished(Master)' = Unfinished(Master) \ {own}
      <4>1. \A x : x \in Unfinished(Master)' <=> x \in Unfinished(Master) \ {own}
        BY <1>15, <2>2
      <4> QED BY <4>1
    <3>4. Unfinished(Slave)' = Unfinished(Slave)
      <4>1. \A x : x \in Unfinished(Slave)' <=> x \in Unfinished(Slave)
        BY <1>3, <1>15, <2>2
      <4> QED BY <4>1
    <3> QED BY <1>2, <2>1, <2>2, <3>2, <3>3, <3>4 DEF InServiceIsStack
  <2>3. CASE chip = Slave
    <3>1. Unfinished(Slave)' = Unfinished(Slave) \ {own}
      <4>1. \A x : x \in Unfinished(Slave)' <=> x \in Unfinished(Slave) \ {own}
        BY <1>15, <2>3
      <4> QED BY <4>1
    <3>2. Unfinished(Master)' = Unfinished(Master)
      <4>1. \A x : x \in Unfinished(Master)' <=> x \in Unfinished(Master)
        BY <1>3, <1>15, <2>3
      <4> QED BY <4>1
    <3>3. line = Cascade /\ Slave \in E /\ isr'[Slave] = isr[Slave] \ {own}
      BY <1>2, <1>3, <1>4, <1>6, <1>7, <2>3
    <3>4. CASE isr[Slave] # {own}
      <4>1. Master \notin E BY <1>3, <1>7, <2>3, <3>4
      <4>2. isr'[Master] = isr[Master] BY <1>3, <1>4, <4>1
      <4>3. Unfinished(Slave)' # {} /\ Unfinished(Slave) # {}
        BY <1>5, <2>1, <2>3, <3>1, <3>4
      <4> QED BY <2>1, <3>1, <3>2, <3>3, <4>2, <4>3 DEF InServiceIsStack
    <3>5. CASE isr[Slave] = {own}
      <4>1. Master \in E BY <1>7, <2>3, <3>5
      <4>2. isr'[Master] = isr[Master] \ {Cascade} BY <1>3, <1>4, <1>6, <3>3, <4>1
      <4>3. Unfinished(Slave)' = {} /\ Unfinished(Slave) # {} BY <2>1, <3>1, <3>5
      <4>4. Cascade \notin Unfinished(Master)
        BY <1>1, HandlerFacts, UnfinishedMembers
      <4> QED BY <2>1, <3>1, <3>2, <3>3, <4>2, <4>3, <4>4 DEF InServiceIsStack
    <3> QED BY <3>4, <3>5
  <2> QED BY <1>2, <2>2, <2>3
<1>17. smm' = [c \in Chip |-> FALSE] BY <1>4 DEF HandlersInv
<1> QED BY <1>10, <1>12, <1>14, <1>16, <1>17 DEF HandlersInv

\* The handler that returns has sent its EOI.
LEMMA IretKeeps ==
  ASSUME HandlersInv, Iret, UNCHANGED guest
  PROVE  HandlersInv'
<1> DEFINE n == Len(stack)
<1>1. stack \in Seq(Handlers) /\ n \in Nat /\ n >= 1 /\ stack[n].done
  BY DEF HandlersInv, StackInv, Running, Current, Iret
<1>2. /\ stack' = SubSeq(stack, 1, n - 1)
      /\ UNCHANGED <<pic, vsyncint, vsync>> /\ ei' = TRUE /\ phase' = "events"
  BY DEF Iret, Popf, Continue
<1>3. /\ stack' \in Seq(Handlers) /\ Len(stack') = n - 1
      /\ \A i \in 1 .. n - 1 : stack'[i] = stack[i]
  <2>1. \A i \in 1 .. n - 1 : stack[i] \in Handlers BY <1>1
  <2>2. n - 1 \in Int /\ 1 \in Int BY <1>1
  <2>3. /\ SubSeq(stack, 1, n - 1) \in Seq(Handlers)
        /\ Len(SubSeq(stack, 1, n - 1)) = IF 1 <= n - 1 THEN (n - 1) - 1 + 1 ELSE 0
        /\ \A i \in 1 .. (n - 1) - 1 + 1 : SubSeq(stack, 1, n - 1)[i] = stack[1 + i - 1]
    BY <2>1, <2>2, SubSeqProperties
  <2>4. (n - 1) - 1 + 1 = n - 1 /\ \A i \in 1 .. n - 1 : 1 + i - 1 = i BY <1>1
  <2>5. Len(SubSeq(stack, 1, n - 1)) = n - 1
    <3> DEFINE l == Len(SubSeq(stack, 1, n - 1))
    <3>1. l = IF 1 <= n - 1 THEN (n - 1) - 1 + 1 ELSE 0 BY <2>3
    <3> HIDE DEF l, n
    <3>2. l = n - 1 BY <1>1, <3>1
    <3> QED BY <3>2 DEF l
  <2> QED BY <1>2, <2>3, <2>4, <2>5
<1>4. \A i \in 1 .. n - 1 : i \in 1 .. n /\ ~stack[i].done
  BY <1>1 DEF HandlersInv, StackInv
<1>5. Inv'
  BY <1>2 DEF HandlersInv, Inv, TypeOK, VsyncInRetrace, pic, ocw, Phases
<1>6. StackInv' BY <1>3, <1>4 DEF HandlersInv, StackInv
<1>7. Nested' BY <1>2, <1>3, <1>4 DEF HandlersInv, Nested, pic, ocw
<1>8. \A c : Unfinished(c)' = Unfinished(c)
  <2> TAKE c
  <2>1. 1 .. n = (1 .. n - 1) \cup {n} BY <1>1
  <2>2. \A x : x \in Unfinished(c)' <=> x \in Unfinished(c)
    BY SMTT(30), <1>1, <1>3, <2>1, UnfinishedMembers, UnfinishedMembersPrime
  <2> QED BY <2>2
<1>9. InServiceIsStack' BY <1>2, <1>8 DEF HandlersInv, InServiceIsStack, pic
<1> QED BY <1>2, <1>5, <1>6, <1>7, <1>9 DEF HandlersInv, pic, ocw

LEMMA HandlersStep ==
  ASSUME HandlersInv, [HNext /\ UNCHANGED guest]_<<allvars, guest>>
  PROVE  HandlersInv'
<1>1. CASE Interrupt /\ UNCHANGED guest BY <1>1, InterruptKeeps
<1>2. CASE Epilogue /\ UNCHANGED guest BY <1>2, EpilogueKeeps
<1>3. CASE Iret /\ UNCHANGED guest BY <1>3, IretKeeps
<1>4. CASE OpenWindow /\ UNCHANGED guest
  <2>1. Inv' BY <1>4, GuestKeepsInv DEF OpenWindow, Guest, HandlersInv
  <2>2. UNCHANGED <<isr, pry, smm, stack>> BY <1>4 DEF OpenWindow, Sti, pic, ocw
  <2>3. stack \in Seq(Handlers) BY DEF HandlersInv, StackInv
  <2>4. Running => ~Current.done BY <1>4 DEF OpenWindow
  <2>5. \A i \in 1 .. Len(stack) : ~stack[i].done
    BY <2>3, <2>4 DEF HandlersInv, StackInv, Running, Current
  <2> QED BY <2>1, <2>2, <2>5, HandlersKept
<1>5. CASE CloseWindow /\ UNCHANGED guest
  <2>1. Inv' BY <1>5, GuestKeepsInv DEF CloseWindow, Guest, HandlersInv
  <2> QED BY <1>5, <2>1, HandlersKept DEF CloseWindow, Cli, pic, ocw
<1>6. CASE OtherStep /\ UNCHANGED guest
  <2>1. Inv'
    <3>1. CASE SliceEnds \/ LoopAgain
      BY <1>6, <3>1, InductiveStep DEF HandlersInv, MainLoop, Next
    <3>2. CASE Devices BY <1>6, <3>2, DevicesKeepInv DEF HandlersInv
    <3>3. CASE GdcO64 \/ \E chip \in Chip, mask \in guest.masks : Ocw1(chip, mask)
      BY <1>6, <3>3, GuestKeepsInv DEF HandlersInv, Guest
    <3> QED BY <1>6, <3>1, <3>2, <3>3 DEF OtherStep
  <2>2. UNCHANGED <<isr, pry, smm, ei>>
    <3>1. CASE SliceEnds \/ LoopAgain \/ GdcO64
      BY <3>1 DEF SliceEnds, LoopAgain, GdcO64, pic, ocw
    <3>2. CASE Devices
      BY <3>2 DEF Devices, SetIrq, Raised, ResetIrq, PicMask, ScreenVsync, ScreenDisp, ocw
    <3>3. CASE \E chip \in Chip, mask \in guest.masks : Ocw1(chip, mask)
      BY <3>3 DEF Ocw1, ocw
    <3> QED BY <1>6, <3>1, <3>2, <3>3 DEF OtherStep
  <2>3. stack' = stack BY <1>6 DEF OtherStep
  <2> QED BY <2>1, <2>2, <2>3, HandlersKept
<1>7. CASE UNCHANGED <<allvars, guest>>
  <2>1. Inv' BY <1>7, InductiveStep DEF HandlersInv, allvars
  <2> QED BY <1>7, <2>1, HandlersKept DEF allvars, vars, pic, ocw
<1> QED BY <1>1, <1>2, <1>3, <1>4, <1>5, <1>6, <1>7 DEF HNext

LEMMA HandlersInit == HInit => HandlersInv
<1> SUFFICES ASSUME HInit PROVE HandlersInv OBVIOUS
<1>1. Inv /\ smm = [c \in Chip |-> FALSE] BY InitInv DEF HInit, Init
<1>2. stack = <<>> /\ stack \in Seq(Handlers) /\ Len(stack) = 0 BY DEF HInit
<1>3. StackInv /\ Nested BY <1>2 DEF StackInv, Nested
<1>4. \A c : Unfinished(c) = {}
  <2>1. \A c, x : x \notin Unfinished(c) BY <1>2, UnfinishedMembers
  <2> QED BY <2>1
<1>5. isr[Master] = {} /\ isr[Slave] = {} BY ChipFacts DEF HInit, Init
<1> QED BY <1>1, <1>3, <1>4, <1>5 DEF HandlersInv, InServiceIsStack

THEOREM HandlersInvariant == HSpec => []HandlersInv
BY HandlersInit, HandlersStep, PTL DEF HSpec

\* What pic_o00 ends with an EOI without a level is the handler that sends it: the
\* in-service registers are those of the handlers that have not ended, for any
\* depth of nesting and with rotating priorities too.
THEOREM EoiEndsItsHandler == HSpec => []InServiceIsStack
<1>1. HandlersInv => InServiceIsStack BY DEF HandlersInv
<1> QED BY <1>1, HandlersInvariant, PTL
=============================================================================
