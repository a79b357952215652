------------------------- MODULE NEventTimersProofs -------------------------
(***************************************************************************)
(* The event scheduler of nevent.c implements the abstract timers.         *)
(***************************************************************************)
EXTENDS NEventProofs

\* What SchedulerInv says of the state the refinement maps.
LEMMA TypeFacts ==
  ASSUME SchedulerInv
  PROVE  /\ Armed \subseteq ID /\ Owed \subseteq ID
         /\ clock \in [ID -> Nat] /\ fired \in [ID -> BOOLEAN]
         /\ base \in Nat /\ rem \in Int /\ rem <= base
         /\ Elapsed \in Nat
         /\ \A id \in ID : Remain(id) \in Int /\ Remain(id) = clock[id] - Elapsed
         /\ TimeLeft \in [ID -> Int]
         /\ \A id \in ID : TimeLeft[id] =
              IF id \in Armed \/ id \in Owed THEN clock[id] - Elapsed ELSE 0
         /\ \A id \in Armed : id \notin Owed /\ base <= clock[id]
         /\ QueueInv
<1>1. /\ clock \in [ID -> Nat] /\ fired \in [ID -> BOOLEAN]
      /\ base \in Nat /\ rem \in Int /\ rem <= base
      /\ level \in Seq(ID)
  BY DEF SchedulerInv, TypeOK
<1>2. Elapsed \in Nat BY <1>1 DEF Elapsed
<1>3. \A id \in ID : Remain(id) \in Int /\ Remain(id) = clock[id] - Elapsed
  BY <1>1, <1>2 DEF Remain
<1>4. Armed \subseteq ID /\ Owed \subseteq ID BY <1>1 DEF Armed, Owed
<1>5. \A id \in ID : TimeLeft[id] =
        IF id \in Armed \/ id \in Owed THEN clock[id] - Elapsed ELSE 0
  BY <1>3 DEF TimeLeft, Owed
<1>6. TimeLeft \in [ID -> Int] BY <1>3 DEF TimeLeft
<1>7. \A id \in Armed : id \notin Owed /\ base <= clock[id]
  BY <1>4 DEF SchedulerInv, Owed
<1> QED BY <1>1, <1>2, <1>3, <1>4, <1>5, <1>6, <1>7, SchedulerInvParts

\* The same facts about the next state.
LEMMA TypeFactsPrime ==
  ASSUME SchedulerInv'
  PROVE  /\ Armed' \subseteq ID /\ Owed' \subseteq ID
         /\ Elapsed' \in Nat
         /\ TimeLeft' \in [ID -> Int]
         /\ \A id \in ID : TimeLeft'[id] =
              IF id \in Armed' \/ id \in Owed' THEN clock'[id] - Elapsed' ELSE 0
         /\ \A id \in ID : fired'[id] \in BOOLEAN
         /\ clock' \in [ID -> Nat]
<1>1. /\ clock' \in [ID -> Nat] /\ fired' \in [ID -> BOOLEAN]
      /\ base' \in Nat /\ rem' \in Int /\ rem' <= base'
      /\ level' \in Seq(ID)
  BY DEF SchedulerInv, TypeOK
<1>2. Elapsed' \in Nat
  <2>a. base' \in Int /\ rem' \in Int BY <1>1
  <2>b. rem' <= base' BY <1>1
  <2>1. \A x, y \in Int : y <= x => x - y \in Nat OBVIOUS
  <2>2. base' - rem' \in Nat BY <2>a, <2>b, <2>1, Zenon
  <2> QED BY <2>2 DEF Elapsed
<1>3. \A id \in ID : Remain(id)' \in Int /\ Remain(id)' = clock'[id] - Elapsed'
  BY <1>1, <1>2 DEF Remain
<1>4. Armed' \subseteq ID /\ Owed' \subseteq ID BY <1>1 DEF Armed, Owed
<1>5. \A id \in ID : TimeLeft'[id] =
        IF id \in Armed' \/ id \in Owed' THEN clock'[id] - Elapsed' ELSE 0
  BY <1>3 DEF TimeLeft, Owed
<1>6. TimeLeft' \in [ID -> Int] BY <1>3 DEF TimeLeft
<1> QED BY <1>1, <1>2, <1>4, <1>5, <1>6

\* A step that leaves queue, clocks and slice alone leaves the timers alone.
LEMMA SameTimers ==
  ASSUME SchedulerInv, SchedulerInv', Armed' = Armed, Owed' = Owed,
         clock' = clock, Elapsed' = Elapsed
  PROVE  UNCHANGED Abstract!vars
<1>1. TimeLeft' = TimeLeft
  <2>1. \A id \in ID : TimeLeft'[id] = TimeLeft[id] BY TypeFacts, TypeFactsPrime
  <2>2. TimeLeft \in [ID -> Int] /\ TimeLeft' \in [ID -> Int]
    BY TypeFacts, TypeFactsPrime
  <2> QED BY <2>1, <2>2
<1> QED BY <1>1 DEF Abstract!vars

\* nevent_set arms one timer, and calls off its owed callback.
LEMMA PlaceArms ==
  ASSUME SchedulerInv, SchedulerInv', NEW id \in ID, NEW c \in Nat, NEW callback,
         Place(id, c, callback)
  PROVE  Abstract!Arm(id, c - Elapsed)
<1>1. /\ Armed' = Armed \cup {id} /\ Elapsed' = Elapsed
  BY TypeFacts, PlaceQueue
<1>2. /\ clock' = [clock EXCEPT ![id] = c]
      /\ fired' = [fired EXCEPT ![id] = FALSE]
  BY DEF Place
<1>3. Owed' = Owed \ {id}
  <2>1. \A x \in ID : fired'[x] <=> fired[x] /\ x # id BY <1>2, TypeFacts
  <2>2. \A x : x \in Owed' <=> x \in Owed \ {id} BY <2>1 DEF Owed
  <2> QED BY <2>2, Zenon
<1>4. TimeLeft' = [TimeLeft EXCEPT ![id] = c - Elapsed]
  <2>1. \A x \in ID : x # id => TimeLeft'[x] = TimeLeft[x]
    BY <1>1, <1>2, <1>3, TypeFacts, TypeFactsPrime
  <2>2. TimeLeft'[id] = c - Elapsed
    BY <1>1, <1>2, TypeFacts, TypeFactsPrime
  <2>3. TimeLeft \in [ID -> Int] /\ TimeLeft' \in [ID -> Int]
    BY TypeFacts, TypeFactsPrime
  <2> QED BY <2>1, <2>2, <2>3
<1> QED BY <1>1, <1>3, <1>4 DEF Abstract!Arm

\* An instruction, and a halt of the CPU, is a Tick.
LEMMA InstructionTicks ==
  ASSUME SchedulerInv, SchedulerInv', NEW c \in Nat \ {0}, Instruction(c),
         c \in Costs \/ c = rem + 1
  PROVE  Abstract!Tick
<1>1. /\ phase = "cpu" /\ rem > 0 /\ rem' = rem - c
      /\ UNCHANGED <<level, clock, fired, base>>
  BY DEF Instruction, items
<1>2. Armed' = Armed /\ Owed' = Owed BY <1>1 DEF Armed, Owed
<1>3. Elapsed' = Elapsed + c BY <1>1, TypeFacts DEF Elapsed
<1>4. Owed = {} BY <1>1 DEF Owed, SchedulerInv
<1>5. \A id \in Armed : /\ TimeLeft[id] = clock[id] - Elapsed
                        /\ TimeLeft'[id] = clock[id] - Elapsed - c
  BY <1>1, <1>2, <1>3, TypeFacts, TypeFactsPrime
<1>6. \A id \in Armed : clock[id] - Elapsed >= rem /\ clock[id] \in Nat
  BY <1>1, TypeFacts DEF Elapsed
<1>7. \A id \in Armed : TimeLeft[id] > 0 /\ TimeLeft[id] >= rem
  BY <1>1, <1>5, <1>6, TypeFacts
<1>8. \A id \in Armed : TimeLeft[id] - TimeLeft'[id] = c
  BY <1>5, <1>6, TypeFacts
<1>9. \A id \in Armed : TimeLeft'[id] < TimeLeft[id]
  BY <1>5, <1>6, TypeFacts
<1>10. \A id \in Armed : TimeLeft[id] - TimeLeft'[id] \in Costs \/ TimeLeft'[id] >= -1
  BY <1>5, <1>6, <1>7, <1>8, TypeFacts
<1>11. \A id \in ID \ Armed : TimeLeft'[id] = 0
  BY <1>2, <1>4, TypeFactsPrime
<1>12. TimeLeft' \in [ID -> Int] BY TypeFactsPrime
<1> QED BY <1>2, <1>4, <1>7, <1>8, <1>9, <1>10, <1>11, <1>12 DEF Abstract!Tick

\* nevent_progress makes the earliest timers expire.
LEMMA ProgressExpires ==
  ASSUME SchedulerInv, SchedulerInv', Progress
  PROVE  \E S \in SUBSET Armed : Abstract!Expire(S)
<1> DEFINE S == {id \in Armed : clock[id] = base}
<1>1. \A id \in ID : ~fired[id] BY DEF Progress, SchedulerInv
<1>2. /\ Armed' = {id \in Armed : clock[id] > base}
      /\ \A id \in ID : fired'[id] = (id \in Armed /\ clock[id] = base)
      /\ \A id \in ID : clock'[id] = IF id \in Armed THEN clock[id] - base
                                                     ELSE clock[id]
      /\ Elapsed' = -rem
  BY <1>1, ClocksAssumption, TypeFacts, ProgressQueue
<1>3. Owed = {} BY <1>1 DEF Owed
<1>4. rem <= 0 BY DEF Progress
<1>5. \A id \in Armed : clock[id] \in Nat /\ base <= clock[id]
  BY TypeFacts
<1>6. \A id \in Armed : TimeLeft[id] = clock[id] - base + rem
  BY <1>5, TypeFacts DEF Elapsed
<1>7. Armed' = Armed \ S
  <2>1. \A id \in Armed : clock[id] > base <=> ~(clock[id] = base)
    BY <1>5, TypeFacts
  <2>2. \A id : id \in Armed' <=> id \in Armed \ S BY <1>2, <2>1
  <2> QED BY <2>2, Zenon
<1>8. Owed' = S
  <2>1. \A id : id \in Owed' <=> id \in S BY <1>2, TypeFacts DEF Owed
  <2> QED BY <2>1, Zenon
<1>9. \A id \in ID : TimeLeft'[id] = TimeLeft[id]
  <2> TAKE id \in ID
  <2>1. CASE id \in Armed
    <3>1. id \in Armed' \/ id \in Owed' BY <1>7, <1>8, <2>1
    <3>2. TimeLeft'[id] = clock[id] - base - (-rem)
      BY <1>2, <2>1, <3>1, TypeFactsPrime
    <3> QED BY <1>5, <1>6, <2>1, <3>2, TypeFacts
  <2>2. CASE id \notin Armed
    <3>1. id \notin Armed' /\ id \notin Owed' BY <1>7, <1>8, <2>2
    <3> QED BY <1>3, <2>2, <3>1, TypeFacts, TypeFactsPrime
  <2> QED BY <2>1, <2>2
<1>10. TimeLeft' = TimeLeft
  <2>1. TimeLeft \in [ID -> Int] /\ TimeLeft' \in [ID -> Int]
    BY TypeFacts, TypeFactsPrime
  <2> QED BY <1>9, <2>1
<1>11. \A id \in S : TimeLeft[id] <= 0 BY <1>4, <1>6, TypeFacts
<1>12. \A id \in S : \A j \in Armed \ S : TimeLeft[id] < TimeLeft[j]
  <2> SUFFICES ASSUME NEW id \in S, NEW j \in Armed \ S
               PROVE  TimeLeft[id] < TimeLeft[j]
    OBVIOUS
  <2>1. clock[id] = base /\ clock[j] > base BY <1>5, TypeFacts
  <2> QED BY <1>5, <1>6, <2>1, TypeFacts
<1>13. S \in SUBSET Armed OBVIOUS
<1> HIDE DEF S
<1>14. Abstract!Expire(S)
  BY <1>3, <1>7, <1>8, <1>10, <1>11, <1>12 DEF Abstract!Expire
<1> QED BY <1>13, <1>14

\* A callback that returns is a Return, or a stutter when it re-armed its event.
LEMMA CallbackReturns ==
  ASSUME SchedulerInv, SchedulerInv', NEW id \in ID,
         fired' = [fired EXCEPT ![id] = FALSE],
         UNCHANGED <<level, clock, timebase>>
  PROVE  \/ Abstract!Return(id)
         \/ UNCHANGED Abstract!vars
<1>1. Armed' = Armed /\ Elapsed' = Elapsed BY DEF Armed, Elapsed, timebase
<1>2. Owed' = Owed \ {id}
  <2>1. \A x \in ID : fired'[x] <=> fired[x] /\ x # id BY TypeFacts
  <2>2. \A x : x \in Owed' <=> x \in Owed \ {id} BY <2>1 DEF Owed
  <2> QED BY <2>2, Zenon
<1>3. CASE id \in Owed
  <2>1. id \notin Armed BY <1>3, TypeFacts
  <2>2. \A x \in ID : TimeLeft'[x] = IF x = id THEN 0 ELSE TimeLeft[x]
    BY <1>1, <1>2, <2>1, TypeFacts, TypeFactsPrime
  <2>3. TimeLeft \in [ID -> Int] /\ TimeLeft' \in [ID -> Int]
    BY TypeFacts, TypeFactsPrime
  <2>4. TimeLeft' = [TimeLeft EXCEPT ![id] = 0] BY <2>2, <2>3
  <2> QED BY <1>1, <1>2, <1>3, <2>4 DEF Abstract!Return
<1>4. CASE id \notin Owed
  <2>1. Owed' = Owed BY <1>2, <1>4
  <2> QED BY <1>1, <2>1, SameTimers
<1> QED BY <1>3, <1>4

\* nevent_changeclock is a Rescale: no two timers change places.
LEMMA ChangeRescales ==
  ASSUME SchedulerInv, SchedulerInv', NEW new \in Multiples, ChangeClock(new),
         waitevent = <<>>
  PROVE  Abstract!Rescale
<1>1. Owed = {} BY DEF SchedulerInv, Owed
<1>2. fired' = fired BY DEF ChangeClock
<1>3. Owed' = {} BY <1>1, <1>2 DEF Owed
<1>4. multiple \in Nat \ {0} /\ new \in Nat \ {0}
  BY ClocksAssumption DEF SchedulerInv, TypeOK
<1>5. /\ Armed' = Armed
      /\ \A i, j \in Armed : clock[i] <= clock[j] => clock'[i] <= clock'[j]
  BY <1>4, TypeFacts, ChangeClockQueue
<1>6. TimeLeft' \in [ID -> Int] BY TypeFactsPrime
<1>7. \A i, j \in Armed : TimeLeft'[i] < TimeLeft'[j] => TimeLeft[i] < TimeLeft[j]
  <2> SUFFICES ASSUME NEW i \in Armed, NEW j \in Armed,
                      ~ (TimeLeft[i] < TimeLeft[j])
               PROVE  ~ (TimeLeft'[i] < TimeLeft'[j])
    OBVIOUS
  <2>1. /\ i \in ID /\ j \in ID
        /\ clock[i] \in Nat /\ clock[j] \in Nat
        /\ clock'[i] \in Nat /\ clock'[j] \in Nat
        /\ Elapsed \in Nat /\ Elapsed' \in Nat
    BY TypeFacts, TypeFactsPrime
  <2>2. TimeLeft[i] = clock[i] - Elapsed /\ TimeLeft[j] = clock[j] - Elapsed
    BY <2>1, TypeFacts
  <2>3. TimeLeft'[i] = clock'[i] - Elapsed' /\ TimeLeft'[j] = clock'[j] - Elapsed'
    BY <1>5, <2>1, TypeFactsPrime
  <2>4. clock'[j] <= clock'[i] BY <1>5, <2>1, <2>2
  <2> QED BY <2>1, <2>3, <2>4
<1>8. \A i \in ID \ Armed : TimeLeft'[i] = 0
  BY <1>3, <1>5, TypeFactsPrime
<1> QED BY <1>1, <1>3, <1>5, <1>6, <1>7, <1>8 DEF Abstract!Rescale

\* Arming an event whose clock is stale: the remaining time may be anything.
LEMMA PlaceArmsStale ==
  ASSUME SchedulerInv, SchedulerInv', NEW id \in ID, NEW c \in Nat, NEW callback,
         Place(id, c, callback), id \notin Owed,
         id \in IoRelative \cup {Flames}
  PROVE  Abstract!ArmStale(id)
<1>1. Abstract!Arm(id, c - Elapsed) BY PlaceArms
<1>2. Armed' = Armed \cup {id} /\ Owed' = Owed
  <2>1. Owed' = Owed \ {id} BY <1>1 DEF Abstract!Arm
  <2>2. \A x : x \in Owed' <=> x \in Owed BY <2>1
  <2>3. Owed' = Owed BY <2>2, Zenon
  <2> QED BY <1>1, <2>3 DEF Abstract!Arm
<1>3. TimeLeft' \in [ID -> Int] BY TypeFactsPrime
<1>4. \A j \in ID \ {id} : TimeLeft'[j] = TimeLeft[j]
  BY <1>1, TypeFacts DEF Abstract!Arm
<1> QED BY <1>2, <1>3, <1>4 DEF Abstract!ArmStale

\* nevent_set from the callback of the event itself, whose clock is then 0,
\* counts from the time it was due.
LEMMA PlaceRearms ==
  ASSUME SchedulerInv, SchedulerInv', NEW id \in ID, NEW d \in Nat, NEW callback,
         Place(id, clock[id] + d, callback), id \in Owed
  PROVE  Abstract!Rearm(id, d)
<1> DEFINE c == clock[id] + d
           left == TimeLeft[id] + d
<1>1. clock[id] \in Nat /\ c \in Nat /\ c - Elapsed = left BY TypeFacts
<1>2. Place(id, c, callback) OBVIOUS
<1>3. Abstract!Arm(id, left)
  <2> HIDE DEF c, left
  <2>1. Abstract!Arm(id, c - Elapsed) BY <1>1, <1>2, PlaceArms
  <2>2. \A x, y : x = y /\ Abstract!Arm(id, x) => Abstract!Arm(id, y)
    BY Zenon DEF Abstract!Arm
  <2> QED BY <1>1, <2>1, <2>2, Zenon
<1> QED BY <1>3 DEF Abstract!Rearm

\* nevent_reset takes one timer away.
LEMMA ResetDisarms ==
  ASSUME SchedulerInv, SchedulerInv', NEW id \in ID, ResetEvent(id)
  PROVE  Abstract!Disarm(id)
<1>1. /\ clock' = clock /\ fired' = fired /\ base' = base /\ rem' = rem
      /\ level' = Keep(level, ID \ {id})
  BY DEF ResetEvent, items, timebase
<1>2. Armed' = Armed \ {id}
  <2>1. level \in Seq(ID) BY DEF SchedulerInv, TypeOK
  <2>2. {level'[i] : i \in DOMAIN level'} = Armed \cap (ID \ {id})
    BY <1>1, <2>1, KeepProperties DEF Armed
  <2>3. \A x : x \in Armed' <=> x \in Armed \ {id}
    BY <2>2, TypeFacts DEF Armed
  <2> QED BY <2>3, Zenon
<1>3. Owed' = Owed /\ Elapsed' = Elapsed BY <1>1 DEF Owed, Elapsed
<1>4. \A x \in ID : TimeLeft'[x] = IF x = id /\ x \notin Owed THEN 0 ELSE TimeLeft[x]
  BY <1>1, <1>2, <1>3, TypeFacts, TypeFactsPrime
<1>5. TimeLeft \in [ID -> Int] /\ TimeLeft' \in [ID -> Int]
  BY TypeFacts, TypeFactsPrime
<1>6. TimeLeft' = [TimeLeft EXCEPT ![id] = IF id \in Owed THEN @ ELSE 0]
  BY <1>4, <1>5
<1> QED BY <1>2, <1>3, <1>6 DEF Abstract!Disarm

\* Every step of the scheduler is a step of the timers.
LEMMA StepRefines ==
  ASSUME SchedulerInv, SchedulerInv', [Next]_vars
  PROVE  [Abstract!Next]_(Abstract!vars)
<1> DEFINE AllDelays == Delays \cup {VsyncClock}
<1>1. ASSUME NEW id \in ID, NEW d \in AllDelays,
             Abstract!Arm(id, d) \/ Abstract!Rearm(id, d)
      PROVE  Abstract!Next
  BY <1>1 DEF Abstract!Next
<1>2. ASSUME NEW id \in ID,
             Abstract!ArmStale(id) \/ Abstract!Disarm(id) \/ Abstract!Return(id)
      PROVE  Abstract!Next
  BY <1>2 DEF Abstract!Next
<1>3. Flames \in ID BY EventsAssumption
<1>4. ASSUME phase # "exec" PROVE Owed = {}
  BY <1>4 DEF SchedulerInv, Owed
<1>5. CASE StartFrame
  <2>1. clock[Flames] + DispClock \in Nat BY <1>3, ClocksAssumption, TypeFacts
  <2>2. Place(Flames, clock[Flames] + DispClock, "screenvsync") /\ phase # "exec"
    BY <1>5 DEF StartFrame, SetRelative
  <2>3. Abstract!ArmStale(Flames) BY <1>3, <1>4, <2>1, <2>2, PlaceArmsStale
  <2> QED BY <1>2, <1>3, <2>3
<1>6. CASE EnterCpu \/ EndInstruction \/ EndExecute
  <2>1. UNCHANGED <<level, clock, fired, base, rem>>
    BY <1>6 DEF EnterCpu, EndInstruction, EndExecute, items, timebase
  <2>2. Armed' = Armed /\ Owed' = Owed /\ Elapsed' = Elapsed /\ clock' = clock
    BY <2>1 DEF Armed, Owed, Elapsed
  <2> QED BY <2>2, SameTimers
<1>7. CASE ClientForceExit
  <2>1. UNCHANGED <<level, clock, fired>> BY <1>7 DEF ClientForceExit, ForceExit, items
  <2>2. Elapsed' = Elapsed
    BY <1>7, TypeFacts DEF ClientForceExit, ForceExit, Elapsed
  <2>3. Armed' = Armed /\ Owed' = Owed /\ clock' = clock
    BY <2>1 DEF Armed, Owed
  <2> QED BY <2>2, <2>3, SameTimers
<1>8. CASE Halt \/ \E c \in Costs : Instruction(c)
  <2>1. PICK c \in Nat \ {0} : Instruction(c) /\ (c \in Costs \/ c = rem + 1)
    <3>1. CASE Halt
      <4>1. rem > 0 BY <3>1 DEF Halt, Instruction
      <4>2. rem + 1 \in Nat \ {0} BY <4>1, TypeFacts
      <4> QED BY <3>1, <4>2 DEF Halt
    <3>2. CASE \E c \in Costs : Instruction(c) BY <3>2, ClocksAssumption
    <3> QED BY <1>8, <3>1, <3>2
  <2>2. Abstract!Tick BY <2>1, InstructionTicks
  <2> QED BY <2>2 DEF Abstract!Next
<1>9. CASE Progress
  <2>1. \E S \in SUBSET Armed : Abstract!Expire(S) BY <1>9, ProgressExpires
  <2> QED BY <2>1 DEF Abstract!Next
<1>10. CASE ScreenVsync
  <2>1. Place(Flames, clock[Flames] + VsyncClock, "screendisp")
    BY <1>10 DEF ScreenVsync, SetRelative
  <2>2. VsyncClock \in Nat /\ VsyncClock \in AllDelays /\ clock[Flames] \in Nat
    BY <1>3, ClocksAssumption, TypeFacts
  <2>3. clock[Flames] + VsyncClock \in Nat BY <2>2
  <2>4. CASE Flames \in Owed
    <3>1. Abstract!Rearm(Flames, VsyncClock) BY <1>3, <2>1, <2>2, <2>4, PlaceRearms
    <3> QED BY <1>1, <1>3, <2>2, <3>1
  <2>5. CASE Flames \notin Owed
    <3>1. Abstract!ArmStale(Flames) BY <1>3, <2>1, <2>3, <2>5, PlaceArmsStale
    <3> QED BY <1>2, <1>3, <3>1
  <2> QED BY <2>4, <2>5
<1>11. CASE ScreenDisp \/ \E id \in ID : EndCallback(id)
  <2>1. PICK id \in ID : /\ fired' = [fired EXCEPT ![id] = FALSE]
                         /\ UNCHANGED <<level, clock, timebase>>
    <3>1. CASE ScreenDisp BY <1>3, <3>1 DEF ScreenDisp
    <3>2. CASE \E id \in ID : EndCallback(id) BY <3>2 DEF EndCallback
    <3> QED BY <1>11, <3>1, <3>2
  <2>2. Abstract!Return(id) \/ UNCHANGED Abstract!vars BY <2>1, CallbackReturns
  <2> QED BY <1>2, <2>2
<1>12. CASE \E new \in Multiples : AsyncCpu(new) \/ ClientChangeClock(new)
  <2>1. PICK new \in Multiples : ChangeClock(new) /\ waitevent = <<>>
    BY <1>12 DEF AsyncCpu, ClientChangeClock, SchedulerInv
  <2>2. Abstract!Rescale BY <2>1, ChangeRescales
  <2> QED BY <2>2 DEF Abstract!Next
<1>13. CASE \E id \in ID, d \in Delays : ClientSet(id, d)
  <2>1. PICK id \in ID, d \in Delays : Place(id, d + Elapsed, "callback")
    BY <1>13 DEF ClientSet, SetAbsolute
  <2>2. d \in Nat /\ Elapsed \in Nat /\ d + Elapsed \in Nat /\ d + Elapsed - Elapsed = d
    BY ClocksAssumption, TypeFacts
  <2>3. Abstract!Arm(id, d + Elapsed - Elapsed) BY <2>1, <2>2, PlaceArms
  <2>4. Abstract!Arm(id, d) BY <2>2, <2>3
  <2> QED BY <1>1, <2>4
<1>14. CASE \E id \in ID, d \in Delays : ClientRearm(id, d)
  <2>1. PICK id \in ID, d \in Delays :
          Place(id, clock[id] + d, "callback") /\ fired[id]
    BY <1>14 DEF ClientRearm, SetRelative
  <2>2. d \in Nat BY ClocksAssumption
  <2>3. id \in Owed BY <2>1 DEF Owed
  <2>4. Abstract!Rearm(id, d) BY <2>1, <2>2, <2>3, PlaceRearms
  <2> QED BY <1>1, <2>4
<1>15. CASE \E id \in ID, d \in Delays : ClientStart(id, d)
  <2>1. PICK id \in ID, d \in Delays :
          /\ Place(id, clock[id] + d, "callback") /\ phase = "io"
          /\ id \in IoRelative
    BY <1>15 DEF ClientStart, SetRelative
  <2>2. d \in Nat /\ clock[id] \in Nat /\ clock[id] + d \in Nat
    BY ClocksAssumption, TypeFacts
  <2>3. id \notin Owed BY <1>4, <2>1
  <2>4. Abstract!ArmStale(id) BY <2>1, <2>2, <2>3, PlaceArmsStale
  <2> QED BY <1>2, <2>4
<1>16. CASE \E id \in ID : ClientReset(id)
  <2>1. PICK id \in ID : ResetEvent(id) BY <1>16 DEF ClientReset
  <2>2. Abstract!Disarm(id) BY <2>1, ResetDisarms
  <2> QED BY <1>2, <2>2
<1>17. CASE MachineReset
  <2>1. /\ level' = <<>> /\ base' = 0 /\ rem' = 0
        /\ fired' = [id \in ID |-> FALSE]
    BY <1>17 DEF MachineReset
  <2>2. Armed' = {} /\ Owed' = {} BY <2>1 DEF Armed, Owed
  <2>3. \A id \in ID : TimeLeft'[id] = 0 BY <2>2, TypeFactsPrime
  <2>4. TimeLeft' = [id \in ID |-> 0] BY <2>3, TypeFactsPrime
  <2>5. Abstract!Reset BY <2>2, <2>4 DEF Abstract!Reset, Abstract!Idle
  <2> QED BY <2>5 DEF Abstract!Next
<1>18. CASE UNCHANGED vars
  <2>1. Armed' = Armed /\ Owed' = Owed /\ Elapsed' = Elapsed /\ clock' = clock
    BY <1>18 DEF vars, items, timebase, Armed, Owed, Elapsed
  <2> QED BY <2>1, SameTimers
<1> QED
  BY <1>5, <1>6, <1>7, <1>8, <1>9, <1>10, <1>11, <1>12, <1>13, <1>14, <1>15,
     <1>16, <1>17, <1>18 DEF Next, System, Client

\* The initial state is one of the timers.
LEMMA InitRefines == Init => Abstract!Init
<1> SUFFICES ASSUME Init PROVE Abstract!Init OBVIOUS
<1>1. level = <<>> /\ fired = [id \in ID |-> FALSE] BY DEF Init
<1>2. Armed = {} /\ \A id \in ID : ~fired[id] BY <1>1 DEF Armed
<1>3. Owed = {} BY <1>2 DEF Owed
<1>4. TimeLeft = [id \in ID |-> 0] BY <1>2 DEF TimeLeft
<1> QED BY <1>2, <1>3, <1>4 DEF Abstract!Init, Abstract!Idle

\* nevent.c and the main loop of pccore.c implement the abstract timers: for
\* every set of events, delays, costs and clock multiples, no timer is late,
\* drifts, is lost, moved by another one, or fires before its time.
THEOREM ImplementsAbstractTimers == Spec => ImplementsTimers
<1>1. Init => Abstract!Init BY InitRefines
<1>2. SchedulerInv /\ SchedulerInv' /\ [Next]_vars => [Abstract!Next]_(Abstract!vars)
  BY StepRefines
<1> QED BY <1>1, <1>2, SchedulerInvariant, PTL
     DEF Spec, ImplementsTimers, Abstract!Spec
=============================================================================
