----------------------------- MODULE PitProofs -----------------------------
(***************************************************************************)
(* Proofs about the interval timer of module Pit and about its guest of    *)
(* module PitGuest, for every choice of their constants.                   *)
(***************************************************************************)
EXTENDS PitGuest, WellFoundedInduction, SequenceTheorems, TLAPS

(***************************************************************************)
(* Numbers: bytes, words and waits.                                        *)
(***************************************************************************)
LEMMA LeastNatural ==
  ASSUME NEW S \in SUBSET Nat, S # {}
  PROVE  \E m \in S : \A k \in S : m <= k
<1>1. PICK m \in S : \A k \in S : ~ (<<k, m>> \in OpToRel(<, Nat))
  BY WFMin, NatLessThanWellFounded, Zenon
<1>2. \A k \in S : ~ (k < m) BY <1>1 DEF OpToRel
<1> QED BY <1>2

LEMMA LargestInt ==
  ASSUME NEW hi \in Int, NEW S \in SUBSET Int, S # {}, \A s \in S : s <= hi
  PROVE  \E m \in S : \A o \in S : o <= m
<1> DEFINE D == {k \in Nat : hi - k \in S}
<1>1. \A o \in S : hi - o \in D
  <2>1. \A o \in S : o \in Int /\ hi - o \in Nat /\ hi - (hi - o) = o OBVIOUS
  <2> QED BY <2>1
<1>2. D \in SUBSET Nat /\ D # {} BY <1>1
<1>3. \A k \in D : hi - k \in S OBVIOUS
<1> HIDE DEF D
<1>4. PICK k \in D : \A j \in D : k <= j BY <1>2, LeastNatural
<1>5. \A o \in S : o <= hi - k BY <1>1, <1>2, <1>4
<1> QED BY <1>3, <1>5

\* A byte makes up a word together with a byte above it or below it.
LEMMA ByteBounds ==
  ASSUME NEW w \in 0 .. Whole - 1, NEW b \in 0 .. Base - 1
  PROVE  /\ Whole \in Nat /\ Whole >= 2
         /\ Low(w) \in 0 .. Base - 1 /\ High(w) \in 0 .. Base - 1
         /\ High(w) * Base + b \in 0 .. Whole - 1
         /\ b * Base + Low(w) \in 0 .. Whole - 1
         /\ b * Base \in 0 .. Whole - 1
         /\ b \in 0 .. Whole - 1
         /\ Low(w) + High(w) * Base = w
<1>1. Base \in Nat /\ Base >= 2 BY PitAssumption
<1>2. Whole \in Nat /\ Whole = Base * Base /\ Whole >= Base + Base
  BY <1>1 DEF Whole
<1>3. Low(w) \in 0 .. Base - 1 /\ Low(w) + High(w) * Base = w
      /\ High(w) \in Int
  BY <1>1, <1>2 DEF Low, High
<1>4. High(w) \in 0 .. Base - 1
  <2>1. ASSUME High(w) >= Base PROVE FALSE
    <3>1. High(w) * Base >= Base * Base BY <1>1, <1>3, <2>1
    <3> QED BY <1>1, <1>2, <1>3, <3>1
  <2>2. ASSUME High(w) < 0 PROVE FALSE
    <3>1. High(w) * Base <= -Base BY <1>1, <1>3, <2>2
    <3> QED BY <1>1, <1>2, <1>3, <3>1
  <2> QED BY <1>1, <1>3, <2>1, <2>2
<1>5. \A h, l \in 0 .. Base - 1 : h * Base + l \in 0 .. Whole - 1
  <2> TAKE h, l \in 0 .. Base - 1
  <2>1. h * Base <= (Base - 1) * Base BY <1>1
  <2>2. (Base - 1) * Base = Whole - Base BY <1>1, <1>2
  <2>3. h * Base \in Nat BY <1>1
  <2> QED BY <1>1, <1>2, <2>1, <2>2, <2>3
<1>6. b * Base + 0 = b * Base /\ 0 \in 0 .. Base - 1 /\ 0 * Base + b = b
  BY <1>1
<1> QED BY <1>1, <1>2, <1>3, <1>4, <1>5, <1>6

\* A wait is a positive number of clocks, and that for 65536 is the longest.
LEMMA TicksBounds ==
  ASSUME NEW c \in 0 .. 2, NEW count \in 0 .. Whole - 1
  PROVE  /\ Ticks(c, count) \in Nat \ {0}
         /\ Ticks(c, 0) \in Nat \ {0}
         /\ Ticks(c, count) <= Ticks(c, 0)
<1> DEFINE n == IF count > Floor[c] THEN count ELSE Whole
           f == IF c = 2 THEN Mul ELSE 1
<1>1. Base \in Nat /\ Base >= 2 BY PitAssumption
<1>2. Whole \in Nat /\ Whole >= 2 BY <1>1 DEF Whole
<1>3. Floor[c] \in Nat /\ Multiple \in Nat \ {0} /\ f \in Nat \ {0}
  BY PitAssumption
<1>4. n \in Nat \ {0} /\ n <= Whole BY <1>2, <1>3
<1> HIDE DEF n, f
<1>5. \A x, y \in Nat \ {0} : x * y \in Nat \ {0} OBVIOUS
<1>6. \A x, y, z \in Nat : x <= y => x * z <= y * z OBVIOUS
<1>7. n * Multiple \in Nat \ {0} /\ Whole * Multiple \in Nat \ {0}
  BY <1>2, <1>3, <1>4, <1>5
<1>8. n * Multiple <= Whole * Multiple BY <1>2, <1>3, <1>4, <1>6
<1>9. /\ n * Multiple * f \in Nat \ {0} /\ Whole * Multiple * f \in Nat \ {0}
      /\ n * Multiple * f <= Whole * Multiple * f
  <2> DEFINE x == n * Multiple
             y == Whole * Multiple
  <2>1. x \in Nat \ {0} /\ y \in Nat \ {0} /\ x <= y BY <1>7, <1>8
  <2> HIDE DEF x, y
  <2>2. x * f \in Nat \ {0} /\ y * f \in Nat \ {0} /\ x * f <= y * f
    BY <2>1, <1>3, <1>5, <1>6
  <2> QED BY <2>2 DEF x, y
<1>10. Ticks(c, count) = n * Multiple * f BY DEF Ticks, n, f
<1>11. Ticks(c, 0) = Whole * Multiple * f BY <1>3 DEF Ticks, f
<1> QED BY <1>9, <1>10, <1>11

\* The idle beep waits for a positive number of clocks too.
LEMMA IdleTicksBounds ==
  ASSUME NEW count \in 0 .. Whole - 1
  PROVE  IdleTicks(count) \in Nat
<1> DEFINE n == Ticks(1, count)
           D == Doublings(n)
<1>1. n \in Nat \ {0} BY TicksBounds
<1>2. IdleMin \in Nat BY PitAssumption
<1> HIDE DEF n
<1>3. 2 ^ 0 = 1 OBVIOUS
<1>4. n = n * 2 ^ 0 BY <1>1, <1>3
<1>5. n \in n .. n + 2 * IdleMin /\ 0 \in 0 .. IdleMin BY <1>1, <1>2
<1>6. n \in D BY <1>4, <1>5 DEF Doublings
<1>7. D \in SUBSET Int /\ \A m \in D : m <= n + 2 * IdleMin /\ n <= m
  BY <1>1 DEF Doublings
<1> HIDE DEF D
<1>8. n + 2 * IdleMin \in Int BY <1>1, <1>2
<1>9. \E m \in D : \A o \in D : o <= m BY <1>6, <1>7, <1>8, LargestInt
<1>10. (CHOOSE m \in D : \A o \in D : o <= m) \in D BY <1>9, Zenon
<1>11. IdleTicks(count) \in D BY <1>10 DEF IdleTicks, D, n
<1>12. \A m \in D : m \in Nat BY <1>1, <1>7
<1> QED BY <1>11, <1>12, Zenon

(***************************************************************************)
(* The registers of a channel.                                             *)
(***************************************************************************)
LEMMA ChannelFields ==
  ASSUME NEW p \in Channel
  PROVE  /\ p.ctrl \in Control /\ p.stat \in Control /\ p.flag \subseteq Flags
         /\ p.ctrl.rl \in {"none", "L", "H", "ALL"} /\ p.ctrl.mode \in 0 .. 7
         /\ p.ctrl.cmd \in BOOLEAN
         /\ p.value \in 0 .. Whole - 1 /\ p.latch \in 0 .. Whole - 1
BY DEF Channel, Control

\* A channel with the same control word and the same count, which it lacks no
\* byte of unless it lacked it before.
SameCount(p, q) ==
  /\ q.ctrl = p.ctrl /\ q.value = p.value
  /\ "W" \in q.flag <=> "W" \in p.flag
  /\ "I" \in q.flag <=> "I" \in p.flag

LEMMA LatchedFacts ==
  ASSUME NEW p \in Channel, NEW what, NEW count \in 0 .. Whole - 1
  PROVE  /\ Latched(p, what, count) \in Channel
         /\ SameCount(p, Latched(p, what, count))
<1> DEFINE status == IF "S" \in what
                       THEN [p EXCEPT !.flag = @ \cup {"S"}, !.stat = p.ctrl] ELSE p
<1>1. p.ctrl \in Control /\ p.flag \subseteq Flags BY ChannelFields
<1>2. p.flag \cup {"S"} \in SUBSET Flags BY <1>1 DEF Flags
<1>3. status \in Channel /\ SameCount(p, status)
  BY <1>1, <1>2 DEF Channel, SameCount
<1> HIDE DEF status
<1>4. (status.flag \cup {"C"}) \ {"L"} \in SUBSET Flags
  BY <1>3, ChannelFields DEF Flags
<1>5. [status EXCEPT !.flag = (@ \cup {"C"}) \ {"L"}, !.latch = count] \in Channel
  BY <1>3, <1>4 DEF Channel
<1>6. SameCount(p, [status EXCEPT !.flag = (@ \cup {"C"}) \ {"L"}, !.latch = count])
  BY <1>3 DEF Channel, SameCount
<1> QED BY <1>3, <1>5, <1>6 DEF Latched, status

LEMMA ReadFacts ==
  ASSUME NEW p \in Channel
  PROVE  Read(p) \in Channel /\ SameCount(p, Read(p))
<1> DEFINE rest == IF FromLatch(p) /\ p.ctrl.rl = "ALL"
                     THEN Toggle(p.flag \ {"C"}, "L") ELSE p.flag \ {"C"}
           last == IF p.ctrl.rl \in {"ALL", "none"} THEN Toggle(rest, "R") ELSE rest
<1>1. p.flag \subseteq Flags BY ChannelFields
<1>2. /\ rest \subseteq Flags
      /\ "W" \in rest <=> "W" \in p.flag
      /\ "I" \in rest <=> "I" \in p.flag
  BY <1>1 DEF Toggle, Flags
<1> HIDE DEF rest
<1>3. /\ last \in SUBSET Flags
      /\ "W" \in last <=> "W" \in p.flag
      /\ "I" \in last <=> "I" \in p.flag
  BY <1>2 DEF Toggle, Flags
<1> HIDE DEF last
<1>4. CASE "S" \in p.flag
  <2>1. p.flag \ {"S"} \in SUBSET Flags BY <1>1
  <2>2. Read(p) = [p EXCEPT !.flag = @ \ {"S"}] BY <1>4 DEF Read
  <2> QED BY <2>1, <2>2 DEF Channel, SameCount
<1>5. CASE "S" \notin p.flag
  <2>1. Read(p) = [p EXCEPT !.flag = last] BY <1>5 DEF Read, last, rest
  <2> QED BY <1>3, <2>1 DEF Channel, SameCount
<1> QED BY <1>4, <1>5

LEMMA ProgrammedFacts ==
  ASSUME NEW p \in Channel, NEW rl \in {"L", "H", "ALL"}, NEW mode \in 0 .. 7
  PROVE  /\ Programmed(p, rl, mode) \in Channel
         /\ Programmed(p, rl, mode).ctrl = [rl |-> rl, mode |-> mode, cmd |-> TRUE]
         /\ Programmed(p, rl, mode).flag = p.flag \cap {"I"}
<1>1. [rl |-> rl, mode |-> mode, cmd |-> TRUE] \in Control BY DEF Control
<1>2. p.flag \cap {"I"} \in SUBSET Flags BY DEF Flags
<1> QED BY <1>1, <1>2 DEF Programmed, Channel

\* A byte of a count: unless the channel starts, its count is not whole or it is
\* one that waits for a trigger.
LEMMA CountWrittenFacts ==
  ASSUME NEW p \in Channel, NEW b \in 0 .. Base - 1
  PROVE  /\ CountWritten(p, b) \in Channel
         /\ CountWritten(p, b).ctrl.mode = p.ctrl.mode
         /\ CountWritten(p, b).ctrl.rl = p.ctrl.rl
         /\ CountWritten(p, b).latch = p.latch
         /\ CountWritten(p, b).flag \ {"W"} = p.flag \ {"W"}
         /\ Starts(p) \/ "W" \in CountWritten(p, b).flag \/ IsTriggered(p)
<1> DEFINE q == CountWritten(p, b)
<1>1. /\ p.ctrl \in Control /\ p.flag \subseteq Flags
      /\ p.value \in 0 .. Whole - 1
      /\ p.ctrl.rl \in {"none", "L", "H", "ALL"}
  BY ChannelFields
<1>2. /\ High(p.value) * Base + b \in 0 .. Whole - 1
      /\ b * Base + Low(p.value) \in 0 .. Whole - 1
      /\ b * Base \in 0 .. Whole - 1 /\ b \in 0 .. Whole - 1
  BY <1>1, ByteBounds
<1>3. [p.ctrl EXCEPT !.cmd = FALSE] \in Control BY <1>1 DEF Control
<1>4. p.flag \cup {"W"} \in SUBSET Flags /\ p.flag \ {"W"} \in SUBSET Flags
  BY <1>1 DEF Flags
<1>5. CASE p.ctrl.rl = "L"
  <2>1. q = [p EXCEPT !.value = b, !.ctrl.cmd = FALSE]
    BY <1>5 DEF CountWritten, FirstOfTwo
  <2> QED BY ZenonT(60), <1>1, <1>2, <1>3, <1>5, <2>1 DEF Channel, Control, Starts, FirstOfTwo
<1>6. CASE p.ctrl.rl = "H"
  <2>1. q = [p EXCEPT !.value = b * Base, !.ctrl.cmd = FALSE]
    BY <1>6 DEF CountWritten, FirstOfTwo
  <2> QED BY ZenonT(60), <1>1, <1>2, <1>3, <1>6, <2>1 DEF Channel, Control, Starts, FirstOfTwo
<1>7. CASE p.ctrl.rl = "ALL" /\ FirstOfTwo(p)
  <2>1. q = [p EXCEPT !.value = High(@) * Base + b, !.flag = @ \cup {"W"}]
    BY <1>7 DEF CountWritten
  <2> HIDE DEF q
  <2>2. q \in Channel BY <1>2, <1>4, <2>1 DEF Channel
  <2>3. q.ctrl = p.ctrl /\ q.latch = p.latch /\ q.flag = p.flag \cup {"W"}
    BY <2>1 DEF Channel
  <2> QED BY <2>2, <2>3 DEF q
<1>8. CASE p.ctrl.rl = "ALL" /\ ~FirstOfTwo(p)
  <2>1. q = [p EXCEPT !.value = b * Base + Low(@), !.flag = @ \ {"W"},
                      !.ctrl.cmd = FALSE]
    BY <1>8 DEF CountWritten
  <2> HIDE DEF q
  <2>2. q = [p EXCEPT !.value = b * Base + Low(@), !.flag = @ \ {"W"},
                      !.ctrl = [p.ctrl EXCEPT !.cmd = FALSE]]
    BY <2>1
  <2>3. q \in Channel BY <1>2, <1>3, <1>4, <2>2 DEF Channel
  <2>4. /\ q.ctrl = [p.ctrl EXCEPT !.cmd = FALSE] /\ q.latch = p.latch
        /\ q.flag = p.flag \ {"W"}
    BY <2>2 DEF Channel
  <2>5. q.ctrl.mode = p.ctrl.mode /\ q.ctrl.rl = p.ctrl.rl
    BY <1>1, <2>4 DEF Control
  <2>6. Starts(p) \/ IsTriggered(p) BY <1>8 DEF Starts
  <2> QED BY <2>3, <2>4, <2>5, <2>6 DEF q
<1>9. CASE p.ctrl.rl = "none"
  <2>1. q = [p EXCEPT !.ctrl.cmd = FALSE]
    BY <1>9 DEF CountWritten, FirstOfTwo
  <2> QED BY <1>1, <1>3, <1>9, <2>1 DEF Channel, Control, Starts, FirstOfTwo
<1> QED BY <1>1, <1>5, <1>6, <1>7, <1>8, <1>9

\* The count that a latch command takes is a word.
LEMMA CountIsWord ==
  ASSUME TypeOK, NEW c \in Channels
  PROVE  Count(c) \in 0 .. Whole - 1
<1>1. /\ pit[c] \in Channel /\ remain \in [Events -> Int]
      /\ Channels \subseteq Events /\ armed \subseteq Events /\ 1 \in Nat
  BY DEF TypeOK, Events
<1>2. Multiple \in Nat \ {0} /\ Whole \in Nat /\ Whole >= 2
  BY PitAssumption, ByteBounds, 0 \in 0 .. Whole - 1 DEF Whole
<1>3. \A x \in Int : \A w \in Nat \ {0} : x % w \in 0 .. w - 1 OBVIOUS
<1>4. \A x \in Int : x \div Multiple \in Int BY <1>2
<1>5. ASSUME NEW x PROVE Left(x) \in 0 .. Whole - 1
  <2>1. CASE x \in armed /\ remain[x] > 0
    <3>1. remain[x] \in Int BY <1>1, <2>1
    <3> DEFINE clocks == remain[x] \div Multiple
    <3>2. clocks \in Int BY <1>4, <3>1
    <3> HIDE DEF clocks
    <3>3. clocks % Whole \in 0 .. Whole - 1 BY <1>2, <1>3, <3>2
    <3> QED BY <2>1, <3>3 DEF Left, clocks
  <2>2. CASE ~(x \in armed /\ remain[x] > 0) BY <1>2, <2>2 DEF Left
  <2> QED BY <2>1, <2>2
<1>6. CASE c # 1 BY <1>5, <1>6 DEF Count
<1>7. CASE c = 1
  <2> DEFINE v == pit[1].value
             beepleft == remain[1] \div Multiple
  <2>1. v \in 0 .. Whole - 1 BY <1>1, <1>7, ChannelFields
  <2>2. beepleft \in Int BY <1>1, <1>4, <1>7
  <2>3. v % 2 \in 0 .. 1 /\ v % 2 <= v BY <2>1
  <2>4. v - (v % 2) \in 0 .. Whole - 1 BY <1>2, <2>1, <2>3
  <2> HIDE DEF beepleft
  <2>5. beepleft % Whole \in 0 .. Whole - 1 BY <1>2, <1>3, <2>2
  <2>6. v > 2 => beepleft % v \in 0 .. Whole - 1
    <3> HAVE v > 2
    <3>1. v \in Nat \ {0} BY <1>2, <2>1
    <3>2. beepleft % v \in 0 .. v - 1 BY <1>3, <2>2, <3>1
    <3> QED BY <1>2, <2>1, <3>2
  <2>7. Left(2) \in 0 .. Whole - 1 BY <1>5
  <2> QED BY <1>7, <2>1, <2>4, <2>5, <2>6, <2>7 DEF Count, beepleft
<1> QED BY <1>6, <1>7

(***************************************************************************)
(* The inductive invariant of the interval timer.                          *)
(***************************************************************************)

\* A callback that is owed was due; what it re-arms counts from then.
PendingIsDue == \A e \in pending : remain[e] <= 0

\* The beeper has mode 0 only while channel 1 has mode 0 or 1.
BeepModeFollows ==
  1 \in Channels /\ beepmode = 0 => pit[1].ctrl.mode \in {0, 1}

PitInv ==
  /\ TypeOK
  /\ TimerNeverStops
  /\ PendingIsDue
  /\ WaitWithinPeriod
  /\ BeepHasAnEnd
  /\ BeepModeFollows

LEMMA EventFacts ==
  /\ 0 \in Channels /\ Channels \subseteq 0 .. 2 /\ Channels \subseteq Events
  /\ PicMask \in Events /\ PicMask \notin Channels
  /\ 0 \in Events /\ 0 # PicMask
BY PitAssumption DEF Events, PicMask

\* The machine as reset leaves it.
AfterReset ==
  /\ pit = ResetChannels /\ irq = FALSE /\ masked = TRUE /\ low = 0 /\ beepmode = 1
  /\ phase \in Phases /\ armed = {0} /\ pending = {} /\ remain = ResetWaits

LEMMA ResetInv == AfterReset => PitInv
<1> SUFFICES ASSUME AfterReset PROVE PitInv OBVIOUS
<1> USE DEF AfterReset
<1>1. Base \in Nat /\ Base >= 2 /\ Whole \in Nat /\ Whole >= 2
  <2>1. Base \in Nat /\ Base >= 2 BY PitAssumption
  <2> QED BY <2>1 DEF Whole
<1>2. 0 \in 0 .. Whole - 1 /\ Whole - 1 \in 0 .. Whole - 1 BY <1>1
<1>3. \A c \in Channels : ResetChannel(c) \in Channel
  <2> TAKE c \in Channels
  <2>1. c = 0 \/ c = 1 \/ c = 2 BY EventFacts
  <2>2. ResetChannel(c).ctrl \in Control
    BY <2>1 DEF ResetChannel, Control
  <2>3. ResetChannel(c).stat \in Control BY DEF ResetChannel, Control
  <2>4. ResetChannel(c).flag \in SUBSET Flags BY DEF ResetChannel, Flags
  <2>5. ResetChannel(c).value \in 0 .. Whole - 1 /\ ResetChannel(c).latch \in 0 .. Whole - 1
    BY <1>2 DEF ResetChannel
  <2> QED BY <2>2, <2>3, <2>4, <2>5 DEF ResetChannel, Channel
<1>4. Ticks(0, 0) \in Nat \ {0} BY <1>2, TicksBounds, 0 \in 0 .. 2
<1>5. ResetWaits \in [Events -> Int] BY <1>4 DEF ResetWaits
<1>6. TypeOK
  <2>1. pit \in [Channels -> Channel] BY <1>3 DEF ResetChannels
  <2>2. armed \subseteq Events /\ pending \subseteq Events BY EventFacts
  <2>3. remain \in [Events -> Int] BY <1>5
  <2>4. low \in {0, 1} /\ beepmode \in 0 .. 3 /\ phase \in Phases OBVIOUS
  <2>5. irq \in BOOLEAN /\ masked \in BOOLEAN BY Zenon
  <2> QED BY <2>1, <2>2, <2>3, <2>4, <2>5, Zenon DEF TypeOK
<1>7. /\ pit[0].flag = {"I"} /\ pit[0].ctrl.mode = 3 /\ pit[0].value = 0
      /\ 2 \in Channels => pit[2].flag = {}
      /\ remain[0] = Ticks(0, 0)
  BY EventFacts DEF ResetChannels, ResetChannel, ResetWaits
<1>8. TimerNeverStops BY <1>7 DEF TimerNeverStops
<1>9. WaitWithinPeriod BY <1>4, <1>7 DEF WaitWithinPeriod
<1> QED BY <1>6, <1>8, <1>9 DEF PitInv, PendingIsDue, BeepHasAnEnd, BeepModeFollows

LEMMA ResetInvPrime == AfterReset' => PitInv'
BY ResetInv, PTL

LEMMA PitInit == Init => PitInv
<1>1. Init => AfterReset BY DEF Init, AfterReset, Phases
<1> QED BY <1>1, ResetInv

\* What the invariant says of the state before a step.
LEMMA PitFacts ==
  ASSUME PitInv
  PROVE  /\ pit \in [Channels -> Channel]
         /\ irq \in BOOLEAN /\ masked \in BOOLEAN
         /\ low \in {0, 1} /\ beepmode \in 0 .. 3
         /\ phase \in Phases
         /\ armed \subseteq Events /\ pending \subseteq Events
         /\ remain \in [Events -> Int]
         /\ \A c \in Channels : pit[c] \in Channel /\ pit[c].value \in 0 .. Whole - 1
         /\ TypeOK
<1>1. TypeOK BY DEF PitInv
<1>2. \A c \in Channels : pit[c] \in Channel BY <1>1 DEF TypeOK
<1>3. \A c \in Channels : pit[c].value \in 0 .. Whole - 1 BY <1>2, ChannelFields
<1> QED BY <1>1, <1>2, <1>3, Zenon DEF TypeOK

LEMMA WaitFacts ==
  ASSUME PitInv, NEW c \in Channels
  PROVE  /\ Ticks(c, pit[c].value) \in Nat \ {0} /\ Ticks(c, 0) \in Nat \ {0}
         /\ Ticks(c, pit[c].value) <= Ticks(c, 0)
         /\ remain[c] \in Int
<1>1. c \in 0 .. 2 /\ c \in Events BY EventFacts
<1>2. pit[c].value \in 0 .. Whole - 1 BY PitFacts
<1>3. remain[c] \in Int BY <1>1, PitFacts
<1> QED BY <1>1, <1>2, <1>3, TicksBounds

\* A step that leaves the timers, the gate and every count alone.
LEMMA CountsKept ==
  ASSUME PitInv, UNCHANGED timers, pit' \in [Channels -> Channel],
         \A c \in Channels : SameCount(pit[c], pit'[c]),
         irq' \in BOOLEAN, masked' \in BOOLEAN,
         low' = low \/ low' = 0, beepmode' \in 0 .. 3, phase' \in Phases,
         BeepModeFollows'
  PROVE  PitInv'
<1> USE DEF timers
<1>1. TypeOK'
  <2>1. low' \in {0, 1} BY PitFacts
  <2>2. armed' \subseteq Events /\ pending' \subseteq Events /\ remain' \in [Events -> Int]
    BY PitFacts
  <2> QED BY <2>1, <2>2, Zenon DEF TypeOK
<1>2. \A c \in Channels :
        /\ pit'[c].ctrl = pit[c].ctrl /\ pit'[c].value = pit[c].value
        /\ "W" \in pit'[c].flag <=> "W" \in pit[c].flag
        /\ "I" \in pit'[c].flag <=> "I" \in pit[c].flag
  BY DEF SameCount
<1>3. TimerNeverStops'
  BY <1>2, EventFacts DEF PitInv, TimerNeverStops, IsRate
<1>4. PendingIsDue' BY DEF PitInv, PendingIsDue
<1>5. WaitWithinPeriod'
  <2> SUFFICES ASSUME NEW c \in {0, 2} \cap armed, IsRate(pit'[c]), HasCount(c)'
               PROVE  remain[c] <= Ticks(c, pit'[c].value)
    BY DEF WaitWithinPeriod
  <2>1. c \in Channels BY PitFacts DEF Events, PicMask
  <2>2. IsRate(pit[c]) /\ HasCount(c) BY <1>2, <2>1 DEF IsRate, HasCount
  <2> QED BY <1>2, <2>1, <2>2 DEF PitInv, WaitWithinPeriod
<1>6. BeepHasAnEnd'
  BY <1>2, PitFacts DEF PitInv, BeepHasAnEnd
<1> QED BY <1>1, <1>3, <1>4, <1>5, <1>6 DEF PitInv

\* A step that changes the timers only: what is armed anew is none of the waits
\* of the channels, and what is taken off is due.
LEMMA TimersMove ==
  ASSUME PitInv, UNCHANGED <<pit, beep>>, irq' \in BOOLEAN, masked' \in BOOLEAN,
         phase' \in Phases,
         armed' \subseteq Events, pending' \subseteq Events, remain' \in [Events -> Int],
         (armed' \cup pending') \ {PicMask} = (armed \cup pending) \ {PicMask},
         \A e \in armed' \ {PicMask} : e \in armed /\ remain'[e] <= remain[e],
         \A e \in pending' : remain'[e] <= 0
  PROVE  PitInv'
<1> USE DEF beep
<1>1. TypeOK' BY PitFacts, Zenon DEF TypeOK
<1>2. \A c \in Channels : c # PicMask BY EventFacts
<1>3. TimerNeverStops' BY <1>2, EventFacts DEF PitInv, TimerNeverStops
<1>4. PendingIsDue' BY DEF PendingIsDue
<1>5. WaitWithinPeriod'
  <2> SUFFICES ASSUME NEW c \in {0, 2} \cap armed', IsRate(pit[c]), HasCount(c)
               PROVE  remain'[c] <= Ticks(c, pit[c].value)
    BY DEF WaitWithinPeriod, HasCount
  <2>1. c \in Channels /\ c # PicMask BY DEF Events, PicMask
  <2>2. c \in armed /\ remain'[c] <= remain[c] BY <2>1
  <2>3. remain[c] <= Ticks(c, pit[c].value)
    BY <2>2 DEF PitInv, WaitWithinPeriod
  <2>4. Ticks(c, pit[c].value) \in Int BY <2>1, WaitFacts
  <2>5. remain[c] \in Int /\ remain'[c] \in Int BY <2>1, PitFacts, EventFacts
  <2> QED BY <2>2, <2>3, <2>4, <2>5
<1>6. BeepHasAnEnd' BY <1>2 DEF PitInv, BeepHasAnEnd
<1>7. BeepModeFollows' BY DEF PitInv, BeepModeFollows
<1> QED BY <1>1, <1>3, <1>4, <1>5, <1>6, <1>7 DEF PitInv

\* An instruction takes time: every wait grows shorter.
LEMMA InstructionKeepsPit ==
  ASSUME PitInv, NEW n \in Costs, Instruction(n)
  PROVE  PitInv'
<1>1. n \in Nat \ {0} BY PitAssumption
<1>2. remain' = [e \in Events |-> IF e \in armed THEN remain[e] - n ELSE remain[e]]
  BY DEF Instruction
<1>3. \A e \in Events : remain[e] \in Int BY PitFacts
<1>4. remain' \in [Events -> Int] BY <1>1, <1>2, <1>3
<1>5. \A e \in armed : remain'[e] <= remain[e] BY <1>1, <1>2, <1>3, PitFacts
<1>6. UNCHANGED <<pit, irq, masked, beep, armed, pending>> /\ pending = {}
  BY DEF Instruction, line
<1>7. phase' \in Phases BY DEF Instruction, Phases
<1> QED BY <1>4, <1>5, <1>6, <1>7, PitFacts, TimersMove

LEMMA ProgressKeepsPit ==
  ASSUME PitInv, Progress
  PROVE  PitInv'
<1>1. PICK due \in SUBSET armed :
        /\ \A e \in due : remain[e] <= 0
        /\ armed' = armed \ due /\ pending = {} /\ pending' = due
        /\ UNCHANGED remain
  BY DEF Progress, Tick!Expire
<1>2. UNCHANGED <<pit, irq, masked, beep>> BY DEF Progress, line
<1>3. phase' \in Phases BY DEF Progress, Phases
<1>4. \A e \in armed' : remain'[e] <= remain[e] BY <1>1, PitFacts
<1>5. \A e \in pending' : remain'[e] <= 0 BY <1>1
<1> QED BY <1>1, <1>2, <1>3, <1>4, <1>5, PitFacts, TimersMove

LEMMA PicMaskKeepsPit ==
  ASSUME PitInv, PicMaskCallback \/ PicIrq
  PROVE  PitInv'
<1>1. UNCHANGED <<pit, masked, beep, phase>> /\ irq' \in BOOLEAN
  BY PitFacts DEF PicMaskCallback, PicIrq
<1>2. /\ armed' \in {armed, armed \ {PicMask}}
      /\ pending' \in {pending, pending \ {PicMask}}
      /\ remain' \in {remain, [remain EXCEPT ![PicMask] = 0]}
  BY PitFacts DEF PicMaskCallback, PicIrq, Tick!Return, Tick!Disarm
<1>3. remain' \in [Events -> Int] BY <1>2, PitFacts
<1>4. \A e \in armed' \ {PicMask} : e \in armed /\ remain'[e] <= remain[e]
  BY <1>2, PitFacts
<1>5. \A e \in pending' : remain'[e] <= 0 BY <1>2, PitFacts DEF PitInv, PendingIsDue
<1> QED BY <1>1, <1>2, <1>3, <1>4, <1>5, PitFacts, TimersMove

\* The ports that change no count.
LEMMA QuietPortsKeepPit ==
  ASSUME PitInv,
         \/ EndInstruction \/ EndEvents
         \/ \E mask \in Masking : OutMask(mask)
         \/ \E c \in Readable : InCount(c)
         \/ \E which, what : OutReadBack(which, what)
         \/ UNCHANGED vars
  PROVE  PitInv'
<1>1. UNCHANGED <<timers, irq, beep>> /\ phase' \in Phases /\ masked' \in BOOLEAN
  BY PitFacts, PitAssumption
  DEF EndInstruction, EndEvents, OutMask, InCount, OutReadBack, vars, line, Phases
<1>2. Readable \subseteq Channels BY PitAssumption
<1>3. /\ pit' \in [Channels -> Channel]
      /\ \A c \in Channels : SameCount(pit[c], pit'[c])
  <2>1. CASE UNCHANGED pit BY <2>1, PitFacts DEF SameCount
  <2>2. CASE \E c \in Readable : InCount(c)
    <3>1. PICK c \in Readable : pit' = [pit EXCEPT ![c] = Read(@)]
      BY <2>2 DEF InCount
    <3>2. c \in Channels /\ Read(pit[c]) \in Channel /\ SameCount(pit[c], Read(pit[c]))
      BY <1>2, PitFacts, ReadFacts
    <3> QED BY <3>1, <3>2, PitFacts DEF SameCount
  <2>3. CASE \E which, what : OutReadBack(which, what)
    <3>1. PICK which, what :
            pit' = [c \in Channels |->
                      IF c \in which THEN Latched(pit[c], what, Count(c)) ELSE pit[c]]
      BY <2>3 DEF OutReadBack
    <3>2. \A c \in Channels : /\ Latched(pit[c], what, Count(c)) \in Channel
                             /\ SameCount(pit[c], Latched(pit[c], what, Count(c)))
      BY PitFacts, CountIsWord, LatchedFacts
    <3> QED BY <3>1, <3>2, PitFacts DEF SameCount
  <2> QED BY <2>1, <2>2, <2>3 DEF EndInstruction, EndEvents, OutMask, vars
<1>4. BeepModeFollows'
  BY <1>1, <1>3 DEF PitInv, BeepModeFollows, beep, SameCount
<1> QED BY <1>1, <1>3, <1>4, PitFacts, CountsKept DEF beep

\* systimer counts on from the time its event was due.
LEMMA SystimerKeepsPit ==
  ASSUME PitInv, Systimer
  PROVE  PitInv'
<1> DEFINE p == pit[0]
           forgotten == {e \in {PicMask} : "I" \in p.flag /\ masked /\ IsRate(p)}
           d == Ticks(0, IF IsRate(p) THEN p.value ELSE 0)
<1>1. /\ pit' = [pit EXCEPT ![0].flag = IF IsRate(p) THEN @ \cup {"I"} ELSE @ \ {"I"}]
      /\ irq' = (irq \/ "I" \in p.flag)
      /\ armed' = armed \cup {0} \cup forgotten
      /\ pending' = pending \ ({0} \cup forgotten)
      /\ remain' = [remain EXCEPT
             ![0] = @ + d,
             ![PicMask] = IF forgotten = {} THEN @ ELSE Ticks(0, p.value) \div 4]
      /\ UNCHANGED <<masked, beep, phase>>
      /\ 0 \in pending
  BY DEF Systimer, Fires
<1>2. p \in Channel /\ 0 \in Channels BY EventFacts, PitFacts
<1>3. d \in Nat \ {0} /\ Ticks(0, p.value) \in Nat /\ remain[0] \in Int
  BY EventFacts, WaitFacts
<1>4. forgotten \subseteq {PicMask} OBVIOUS
<1>5. (p.flag \cup {"I"}) \in SUBSET Flags /\ (p.flag \ {"I"}) \in SUBSET Flags
  BY <1>2, ChannelFields DEF Flags
<1>6. pit' \in [Channels -> Channel]
  BY <1>1, <1>2, <1>5, PitFacts DEF Channel
<1>7. /\ \A c \in Channels \ {0} : pit'[c] = pit[c]
      /\ pit'[0].ctrl = p.ctrl /\ pit'[0].value = p.value
      /\ "W" \in pit'[0].flag <=> "W" \in p.flag
      /\ IsRate(p) => "I" \in pit'[0].flag
  BY <1>1, <1>2, PitFacts DEF Channel
<1> HIDE DEF d, forgotten
<1>8. remain' \in [Events -> Int]
  <2>1. Ticks(0, p.value) \div 4 \in Int BY <1>3
  <2> QED BY <1>1, <1>3, <2>1, PitFacts, EventFacts
<1>9. /\ remain'[0] = remain[0] + d
      /\ \A e \in Events \ {0, PicMask} : remain'[e] = remain[e]
  BY <1>1, PitFacts, EventFacts
<1>10. TypeOK'
  <2>1. armed' \subseteq Events /\ pending' \subseteq Events
    BY <1>1, <1>4, PitFacts, EventFacts
  <2>2. irq' \in BOOLEAN BY <1>1, Zenon
  <2>3. low' \in {0, 1} /\ beepmode' \in 0 .. 3 /\ phase' \in Phases /\ masked' \in BOOLEAN
    BY <1>1, PitFacts DEF beep
  <2> QED BY <1>6, <1>8, <2>1, <2>2, <2>3, Zenon DEF TypeOK
<1>11. \A c \in Channels \ {0} : c \in armed' <=> c \in armed
  BY <1>1, <1>4, EventFacts
<1>12. \A c \in Channels \ {0} : c \in pending' <=> c \in pending
  BY <1>1, <1>4, EventFacts
<1>13. TimerNeverStops'
  BY <1>1, <1>7, <1>11, <1>12, EventFacts DEF PitInv, TimerNeverStops, IsRate
<1>14. PendingIsDue'
  <2> SUFFICES ASSUME NEW e \in pending' PROVE remain'[e] <= 0 BY DEF PendingIsDue
  <2>1. e \in pending /\ e # 0 BY <1>1
  <2>2. CASE e \in forgotten BY <1>1, <2>2
  <2>3. CASE e = PicMask /\ e \notin forgotten
    <3>1. forgotten = {} BY <1>4, <2>3
    <3> QED BY <1>1, <2>1, <2>3, <3>1, PitFacts, EventFacts DEF PitInv, PendingIsDue
  <2>4. CASE e # PicMask BY <1>9, <2>1, <2>4, PitFacts DEF PitInv, PendingIsDue
  <2> QED BY <2>2, <2>3, <2>4
<1>15. WaitWithinPeriod'
  <2> SUFFICES ASSUME NEW c \in {0, 2} \cap armed', IsRate(pit'[c]), HasCount(c)'
               PROVE  remain'[c] <= Ticks(c, pit'[c].value)
    BY DEF WaitWithinPeriod
  <2>1. CASE c = 0
    <3>1. IsRate(p) BY <1>7, <2>1 DEF IsRate
    <3>2. d = Ticks(0, pit'[0].value) BY <1>7, <3>1 DEF d
    <3>3. remain[0] <= 0 BY <1>1 DEF PitInv, PendingIsDue
    <3> QED BY <1>3, <1>9, <2>1, <3>2, <3>3
  <2>2. CASE c = 2
    <3>1. 2 \in Channels \ {0} BY <1>10, <2>2 DEF TypeOK, Events, PicMask
    <3>2. 2 \in armed /\ pit'[2] = pit[2] /\ remain'[2] = remain[2]
      BY <1>7, <1>9, <1>11, <2>2, <3>1, EventFacts
    <3> QED BY <2>2, <3>2 DEF PitInv, WaitWithinPeriod, HasCount
  <2> QED BY <2>1, <2>2
<1>16. 1 \in Channels => pit'[1] = pit[1] BY <1>7
<1>17. BeepHasAnEnd'
  BY <1>1, <1>11, <1>12, <1>16 DEF PitInv, BeepHasAnEnd, beep
<1>18. BeepModeFollows' BY <1>1, <1>16 DEF PitInv, BeepModeFollows, beep
<1> QED BY <1>10, <1>13, <1>14, <1>15, <1>17, <1>18 DEF PitInv

LEMMA BeepOneShotKeepsPit ==
  ASSUME PitInv, BeepOneShot
  PROVE  PitInv'
<1>0. 1 \in Channels /\ 1 \in pending
  BY PitFacts DEF BeepOneShot, Fires, Events, PicMask
<1>1. /\ UNCHANGED <<pit, line, beepmode, phase>> /\ 1 \in Events
      /\ low' = IF pit[1].ctrl.mode \in {0, 1} THEN 0 ELSE low
  BY <1>0, EventFacts DEF BeepOneShot
<1>2. IdleTicks(pit[1].value) \in Nat BY <1>0, PitFacts, IdleTicksBounds
<1>3. /\ armed' \in {armed, armed \cup {1}} /\ pending' = pending \ {1}
      /\ remain' \in [Events -> Int]
      /\ \A e \in Events \ {1} : remain'[e] = remain[e]
  <2>1. CASE IsTriggered(pit[1])
    <3>1. /\ armed' = armed \cup {1} /\ pending' = pending \ {1}
          /\ remain' = [remain EXCEPT ![1] = remain[1] + IdleTicks(pit[1].value)]
      BY <2>1 DEF BeepOneShot, Tick!Rearm, Tick!Arm
    <3>2. remain[1] \in Int BY <1>1, PitFacts
    <3> QED BY <1>1, <1>2, <3>1, <3>2, PitFacts
  <2>2. CASE ~IsTriggered(pit[1])
    <3>1. /\ armed' = armed /\ pending' = pending \ {1}
          /\ remain' = [remain EXCEPT ![1] = 0]
      BY <2>2 DEF BeepOneShot, Tick!Return
    <3> QED BY <1>1, <3>1, PitFacts
  <2> QED BY <2>1, <2>2
<1>4. TypeOK'
  <2>1. armed' \subseteq Events /\ pending' \subseteq Events /\ low' \in {0, 1}
    BY <1>1, <1>3, PitFacts
  <2> QED BY <1>1, <1>3, <2>1, PitFacts, Zenon DEF TypeOK, line
<1>5. TimerNeverStops'
  BY <1>1, <1>3 DEF PitInv, TimerNeverStops
<1>6. PendingIsDue' BY <1>3, PitFacts DEF PitInv, PendingIsDue
<1>7. WaitWithinPeriod'
  <2>1. \A c \in {0, 2} \cap armed' : c \in armed /\ remain'[c] = remain[c]
    BY <1>3, PitFacts
  <2> QED BY <1>1, <2>1 DEF PitInv, WaitWithinPeriod, HasCount
<1>8. BeepHasAnEnd' BY <1>1 DEF BeepHasAnEnd
<1>9. BeepModeFollows' BY <1>1 DEF PitInv, BeepModeFollows
<1> QED BY <1>4, <1>5, <1>6, <1>7, <1>8, <1>9 DEF PitInv

LEMMA Rs232cTimerKeepsPit ==
  ASSUME PitInv, Rs232cTimer
  PROVE  PitInv'
<1> DEFINE d == Ticks(2, IF IsRate(pit[2]) THEN pit[2].value ELSE 0)
<1>0. 2 \in Channels /\ 2 \in pending /\ 2 \in Events
  BY PitFacts, EventFacts DEF Rs232cTimer, Fires, Events, PicMask
<1>1. /\ UNCHANGED <<pit, line, beep, phase>>
      /\ armed' = armed \cup {2} /\ pending' = pending \ {2}
      /\ remain' = [remain EXCEPT ![2] = remain[2] + d]
  BY DEF Rs232cTimer, Tick!Rearm, Tick!Arm
<1>2. d \in Nat \ {0} /\ remain[2] \in Int BY <1>0, WaitFacts
<1> HIDE DEF d
<1>3. remain' \in [Events -> Int]
  <2>1. remain[2] + d \in Int BY <1>2
  <2> QED BY <1>1, <2>1, PitFacts
<1>4. TypeOK'
  <2>1. armed' \subseteq Events /\ pending' \subseteq Events BY <1>0, <1>1, PitFacts
  <2> QED BY <1>1, <1>3, <2>1, PitFacts, Zenon DEF TypeOK, line, beep
<1>5. TimerNeverStops' BY <1>1 DEF PitInv, TimerNeverStops
<1>6. PendingIsDue' BY <1>1, PitFacts DEF PitInv, PendingIsDue
<1>7. WaitWithinPeriod'
  <2> SUFFICES ASSUME NEW c \in {0, 2} \cap armed', IsRate(pit[c]), HasCount(c)
               PROVE  remain'[c] <= Ticks(c, pit[c].value)
    BY <1>1 DEF WaitWithinPeriod, HasCount
  <2>1. CASE c = 0
    BY <1>1, <2>1, PitFacts DEF PitInv, WaitWithinPeriod
  <2>2. CASE c = 2
    <3>1. d = Ticks(2, pit[2].value) BY <2>2 DEF d
    <3>2. remain[2] <= 0 BY <1>0 DEF PitInv, PendingIsDue
    <3>3. remain'[2] = remain[2] + d BY <1>0, <1>1, PitFacts
    <3> QED BY <1>2, <2>2, <3>1, <3>2, <3>3
  <2> QED BY <2>1, <2>2
<1>8. BeepHasAnEnd' BY <1>1 DEF PitInv, BeepHasAnEnd, beep
<1>9. BeepModeFollows' BY <1>1 DEF PitInv, BeepModeFollows, beep
<1> QED BY <1>4, <1>5, <1>6, <1>7, <1>8, <1>9 DEF PitInv

\* A byte of a count.  A channel that starts has its whole count and its wait; one
\* that does not start lacks a byte or waits for a trigger.
LEMMA OutCountKeepsPit ==
  ASSUME PitInv, NEW c \in Writable, NEW b \in Bytes, OutCount(c, b)
  PROVE  PitInv'
<1> DEFINE p == pit[c]
           w == CountWritten(p, b)
           q == IF c = 1 THEN w ELSE [w EXCEPT !.flag = @ \cup {"I"}]
           d == Ticks(c, w.value)
<1>1. c \in Channels /\ b \in 0 .. Base - 1 /\ c \in 0 .. 2 /\ c \in Events
      /\ c # PicMask
  BY PitAssumption, EventFacts
<1>2. p \in Channel BY <1>1, PitFacts
<1>3. /\ w \in Channel /\ w.ctrl.mode = p.ctrl.mode
      /\ w.flag \ {"W"} = p.flag \ {"W"}
      /\ Starts(p) \/ "W" \in w.flag \/ IsTriggered(p)
  BY <1>1, <1>2, CountWrittenFacts
<1>4. UNCHANGED <<masked, beepmode>> /\ phase' = "cpu" BY DEF OutCount
<1>5. w.value \in 0 .. Whole - 1 BY <1>3, ChannelFields
<1>6. d \in Nat \ {0} BY <1>1, <1>5, TicksBounds
<1>7. (w.flag \cup {"I"}) \in SUBSET Flags BY <1>3, ChannelFields DEF Flags
<1> HIDE DEF w
<1>8. q \in Channel BY <1>3, <1>7 DEF Channel
<1>9. /\ q.ctrl = w.ctrl /\ q.value = w.value
      /\ c # 1 => "I" \in q.flag
      /\ "W" \in q.flag <=> "W" \in w.flag
  BY <1>3 DEF Channel
<1> HIDE DEF q, d
<1>10. phase' \in Phases BY <1>4 DEF Phases
<1>11. CASE Starts(p)
  <2>1. /\ pit' = [pit EXCEPT ![c] = q] /\ irq' = (irq /\ c # 0)
        /\ low' = IF c = 1 THEN 1 ELSE low
        /\ armed' = armed \cup {c} /\ pending' = pending \ {c}
        /\ remain' = [remain EXCEPT ![c] = d]
    BY <1>11 DEF OutCount, Start, Tick!Arm, q, d, w
  <2>2. pit'[c] = q /\ \A x \in Channels \ {c} : pit'[x] = pit[x]
    BY <1>1, <2>1, PitFacts
  <2>3. remain'[c] = d /\ \A e \in Events \ {c} : remain'[e] = remain[e]
    BY <1>1, <2>1, PitFacts
  <2>4. TypeOK'
    <3>1. pit' \in [Channels -> Channel] BY <1>8, <2>1, PitFacts
    <3>0. d \in Int BY <1>6
    <3>2. remain' \in [Events -> Int] BY <3>0, <2>1, PitFacts
    <3>3. armed' \subseteq Events /\ pending' \subseteq Events /\ low' \in {0, 1}
      BY <1>1, <2>1, PitFacts
    <3>4. irq' \in BOOLEAN BY <2>1, Zenon
    <3> QED BY <1>4, <1>10, <3>1, <3>2, <3>3, <3>4, PitFacts, Zenon DEF TypeOK
  <2>5. TimerNeverStops'
    BY <1>1, <1>9, <2>1, <2>2, EventFacts DEF PitInv, TimerNeverStops
  <2>6. PendingIsDue' BY <2>1, <2>3, PitFacts DEF PitInv, PendingIsDue
  <2>7. WaitWithinPeriod'
    <3> SUFFICES ASSUME NEW x \in {0, 2} \cap armed', IsRate(pit'[x]), HasCount(x)'
                 PROVE  remain'[x] <= Ticks(x, pit'[x].value)
      BY DEF WaitWithinPeriod
    <3>1. CASE x = c
      <4>1. Ticks(x, pit'[x].value) = d BY <1>9, <2>2, <3>1 DEF d
      <4> QED BY <1>6, <2>3, <3>1, <4>1
    <3>2. CASE x # c
      <4>1. x \in armed BY <2>1, <3>2
      <4>2. x \in Channels BY <4>1, PitFacts DEF Events, PicMask
      <4> QED BY <2>2, <2>3, <3>2, <4>1, <4>2, EventFacts
              DEF PitInv, WaitWithinPeriod, HasCount
    <3> QED BY <3>1, <3>2
  <2>8. BeepHasAnEnd' BY <2>1, <2>2 DEF PitInv, BeepHasAnEnd
  <2>9. BeepModeFollows'
    BY <1>3, <1>4, <1>9, <2>2 DEF PitInv, BeepModeFollows
  <2> QED BY <2>4, <2>5, <2>6, <2>7, <2>8, <2>9 DEF PitInv
<1>12. CASE ~Starts(p)
  <2>1. pit' = [pit EXCEPT ![c] = w] /\ UNCHANGED <<irq, low, armed, pending, remain>>
    BY <1>12 DEF OutCount, timers, w
  <2>2. pit'[c] = w /\ \A x \in Channels \ {c} : pit'[x] = pit[x]
    BY <1>1, <2>1, PitFacts
  <2>3. "I" \in w.flag <=> "I" \in p.flag BY <1>3
  <2>4. TypeOK'
    <3>1. pit' \in [Channels -> Channel] BY <1>3, <2>1, PitFacts
    <3> QED BY <1>4, <1>10, <2>1, <3>1, PitFacts, Zenon DEF TypeOK
  <2>5. TimerNeverStops'
    BY <1>1, <1>3, <2>1, <2>2, <2>3, EventFacts DEF PitInv, TimerNeverStops, IsRate
  <2>6. PendingIsDue' BY <2>1 DEF PitInv, PendingIsDue
  <2>7. WaitWithinPeriod'
    <3> SUFFICES ASSUME NEW x \in {0, 2} \cap armed', IsRate(pit'[x]), HasCount(x)'
                 PROVE  remain'[x] <= Ticks(x, pit'[x].value)
      BY DEF WaitWithinPeriod
    <3>1. CASE x = c
      <4>1. "W" \notin w.flag /\ w.ctrl.mode \in {2, 3}
        BY <2>2, <3>1 DEF HasCount, IsRate
      <4>2. IsTriggered(p) BY <1>3, <1>12, <4>1
      <4> QED BY <1>3, <4>1, <4>2 DEF IsTriggered
    <3>2. CASE x # c
      <4>1. x \in armed BY <2>1
      <4>2. x \in Channels BY <4>1, PitFacts DEF Events, PicMask
      <4> QED BY <2>1, <2>2, <3>2, <4>1, <4>2
              DEF PitInv, WaitWithinPeriod, HasCount
    <3> QED BY <3>1, <3>2
  <2>8. BeepHasAnEnd' BY <1>3, <2>1, <2>2 DEF PitInv, BeepHasAnEnd
  <2>9. BeepModeFollows'
    BY <1>3, <1>4, <2>2 DEF PitInv, BeepModeFollows
  <2> QED BY <2>4, <2>5, <2>6, <2>7, <2>8, <2>9 DEF PitInv
<1> QED BY <1>11, <1>12

\* beep_modeset keeps the gate open only in the mode in which it was open.
LEMMA BeepModeSetFacts ==
  ASSUME PitInv, NEW c \in Channels, NEW mode \in 0 .. 7, BeepModeSet(c, mode)
  PROVE  /\ low' \in {0, 1} /\ (low' = low \/ low' = 0) /\ beepmode' \in 0 .. 3
         /\ c # 1 => UNCHANGED beep
         /\ c = 1 /\ beepmode' = 0 => mode \in {0, 1}
         /\ c = 1 /\ low' = 1 => low = 1 /\ beepmode = mode \div 2
         /\ mode \in {0, 1} => mode \div 2 = 0
<1>1. mode \div 2 \in 0 .. 3 /\ (mode \div 2 = 0 <=> mode \in {0, 1}) OBVIOUS
<1> QED BY <1>1, PitFacts DEF BeepModeSet, beep

\* A control word: the channel has no whole count until one is written.
LEMMA OutControlKeepsPit ==
  ASSUME PitInv, NEW c \in Writable, NEW rl \in Access, NEW mode \in Modes,
         OutControl(c, rl, mode)
  PROVE  PitInv'
<1> DEFINE w == Programmed(pit[c], rl, mode)
           q == IF c = 0 THEN [w EXCEPT !.flag = @ \cup {"I"}] ELSE w
<1>1. c \in Channels /\ rl \in {"L", "H", "ALL"} /\ mode \in 0 .. 7
  BY PitAssumption
<1>2. pit[c] \in Channel BY <1>1, PitFacts
<1>3. /\ w \in Channel /\ w.ctrl = [rl |-> rl, mode |-> mode, cmd |-> TRUE]
      /\ w.flag = pit[c].flag \cap {"I"}
  BY ZenonT(60), <1>1, <1>2, ProgrammedFacts
<1> HIDE DEF w
<1>4. (w.flag \cup {"I"}) \in SUBSET Flags BY <1>3 DEF Flags
<1>5. /\ q \in Channel /\ q.ctrl.mode = mode /\ q.ctrl.cmd = TRUE
      /\ c = 0 => "I" \in q.flag
      /\ c # 0 => ("I" \in q.flag <=> "I" \in pit[c].flag)
  BY <1>3, <1>4 DEF Channel
<1>6. /\ pit' = [pit EXCEPT ![c] = q] /\ irq' = (irq /\ c # 0)
      /\ phase' = "cpu" /\ BeepModeSet(c, mode)
      /\ UNCHANGED <<masked, armed, pending, remain>>
  <2>1. pit' = [pit EXCEPT ![c] = q] BY DEF OutControl, q, w
  <2> QED BY <2>1, Zenon DEF OutControl, timers
<1> HIDE DEF q
<1>7. pit'[c] = q /\ \A x \in Channels \ {c} : pit'[x] = pit[x]
  BY <1>1, <1>6, PitFacts
<1>8. /\ low' \in {0, 1} /\ (low' = low \/ low' = 0) /\ beepmode' \in 0 .. 3
      /\ c # 1 => UNCHANGED <<low, beepmode>>
      /\ c = 1 /\ beepmode' = 0 => mode \in {0, 1}
      /\ c = 1 /\ low' = 1 => low = 1 /\ beepmode = mode \div 2
      /\ mode \in {0, 1} => mode \div 2 = 0
  BY <1>1, <1>6, BeepModeSetFacts DEF beep
<1>9. TypeOK'
  <2>1. pit' \in [Channels -> Channel] BY <1>5, <1>6, PitFacts
  <2>2. irq' \in BOOLEAN BY <1>6, Zenon
  <2>3. phase' \in Phases BY <1>6 DEF Phases
  <2> QED BY <1>6, <1>8, <2>1, <2>2, <2>3, PitFacts, Zenon DEF TypeOK
<1>10. TimerNeverStops'
  BY <1>5, <1>6, <1>7, EventFacts DEF PitInv, TimerNeverStops
<1>11. PendingIsDue' BY <1>6 DEF PitInv, PendingIsDue
<1>12. WaitWithinPeriod'
  <2> SUFFICES ASSUME NEW x \in {0, 2} \cap armed', IsRate(pit'[x]), HasCount(x)'
               PROVE  remain'[x] <= Ticks(x, pit'[x].value)
    BY DEF WaitWithinPeriod
  <2>1. x # c BY <1>5, <1>7 DEF HasCount
  <2>2. x \in armed /\ x \in Channels BY <1>6, PitFacts DEF Events, PicMask
  <2> QED BY <1>6, <1>7, <2>1, <2>2 DEF PitInv, WaitWithinPeriod, HasCount
<1>13. BeepHasAnEnd'
  <2> SUFFICES ASSUME 1 \in Channels, low' = 1, pit'[1].ctrl.mode \in {0, 1}
               PROVE  1 \in armed' \cup pending'
    BY DEF BeepHasAnEnd
  <2>1. low = 1 /\ pit[1].ctrl.mode \in {0, 1}
    BY <1>5, <1>7, <1>8 DEF PitInv, BeepModeFollows
  <2> QED BY <1>6, <2>1 DEF PitInv, BeepHasAnEnd
<1>14. BeepModeFollows'
  BY <1>5, <1>7, <1>8 DEF PitInv, BeepModeFollows
<1> QED BY <1>9, <1>10, <1>11, <1>12, <1>13, <1>14 DEF PitInv

LEMMA OutLatchKeepsPit ==
  ASSUME PitInv, NEW c \in Readable, OutLatch(c)
  PROVE  PitInv'
<1> DEFINE q == Latched(pit[c], {"C"}, Count(c))
           mode == pit[c].ctrl.mode
<1>1. c \in Channels BY PitAssumption
<1>2. pit[c] \in Channel /\ mode \in 0 .. 7 BY <1>1, PitFacts, ChannelFields
<1>3. q \in Channel /\ SameCount(pit[c], q)
  BY <1>1, <1>2, PitFacts, CountIsWord, LatchedFacts
<1>4. /\ pit' = [pit EXCEPT ![c] = q] /\ irq' = (irq /\ c # 0)
      /\ phase' = "cpu" /\ BeepModeSet(c, mode)
      /\ UNCHANGED <<masked, timers>>
  BY DEF OutLatch
<1> HIDE DEF q
<1>5. pit' \in [Channels -> Channel] BY <1>3, <1>4, PitFacts
<1>6. \A x \in Channels : SameCount(pit[x], pit'[x])
  BY <1>1, <1>3, <1>4, PitFacts DEF SameCount
<1>7. irq' \in BOOLEAN /\ phase' \in Phases
  BY <1>4, Zenon DEF Phases
<1>8. /\ (low' = low \/ low' = 0) /\ beepmode' \in 0 .. 3
      /\ c # 1 => UNCHANGED beepmode
      /\ c = 1 /\ beepmode' = 0 => mode \in {0, 1}
  BY <1>1, <1>2, <1>4, BeepModeSetFacts DEF beep
<1>9. BeepModeFollows'
  BY <1>6, <1>8 DEF PitInv, BeepModeFollows, SameCount
<1> QED BY <1>4, <1>5, <1>6, <1>7, <1>8, <1>9, PitFacts, CountsKept

LEMMA PitStep == PitInv /\ [Next]_vars => PitInv'
<1> SUFFICES ASSUME PitInv, [Next]_vars PROVE PitInv' OBVIOUS
<1>1. CASE \E n \in Costs : Instruction(n) BY <1>1, InstructionKeepsPit
<1>2. CASE Progress BY <1>2, ProgressKeepsPit
<1>3. CASE Systimer BY <1>3, SystimerKeepsPit
<1>4. CASE PicMaskCallback \/ PicIrq BY <1>4, PicMaskKeepsPit
<1>5. CASE BeepOneShot BY <1>5, BeepOneShotKeepsPit
<1>6. CASE Rs232cTimer BY <1>6, Rs232cTimerKeepsPit
<1>7. CASE \E c \in Writable, b \in Bytes : OutCount(c, b)
  BY <1>7, OutCountKeepsPit
<1>8. CASE \E c \in Writable, rl \in Access, mode \in Modes : OutControl(c, rl, mode)
  BY <1>8, OutControlKeepsPit
<1>9. CASE \E c \in Readable : OutLatch(c) BY <1>9, OutLatchKeepsPit
<1>10. CASE MachineReset
  <2>1. AfterReset' BY <1>10, PitFacts DEF MachineReset, AfterReset
  <2> QED BY <2>1, ResetInvPrime
<1>11. CASE \/ EndInstruction \/ EndEvents
            \/ \E mask \in Masking : OutMask(mask)
            \/ \E c \in Readable : InCount(c)
            \/ \E which, what : OutReadBack(which, what)
            \/ UNCHANGED vars
  BY <1>11, QuietPortsKeepPit
<1> QED
  BY <1>1, <1>2, <1>3, <1>4, <1>5, <1>6, <1>7, <1>8, <1>9, <1>10, <1>11
  DEF Next, System, Callbacks, GuestPrograms, GuestLatches, GuestReads

\* The inductive invariant holds in every reachable state.
THEOREM PitInvariant == Spec => []PitInv
BY PitInit, PitStep, PTL DEF Spec

\* The registers, the gate of the beeper and the waits keep their types: every
\* count and latch of pit.ch is a word, whatever bytes the guest writes.
THEOREM TypeCorrect == Spec => []TypeOK
<1>1. PitInv => TypeOK BY DEF PitInv
<1> QED BY <1>1, PitInvariant, PTL

\* systimer is always armed or owed, and rs232ctimer once it was started; as a
\* rate generator channel 0 always has its next interrupt to give.
THEOREM TimersGoOn == Spec => []TimerNeverStops
<1>1. PitInv => TimerNeverStops BY DEF PitInv
<1> QED BY <1>1, PitInvariant, PTL

\* A gate that beep_lheventset opened in mode 0 or 1 has an event under way that
\* closes it.
THEOREM BeepsEnd == Spec => []BeepHasAnEnd
<1>1. PitInv => BeepHasAnEnd BY DEF PitInv
<1> QED BY <1>1, PitInvariant, PTL

\* A rate generator whose count is whole never waits longer than its period.
THEOREM WaitsAreBounded == Spec => []WaitWithinPeriod
<1>1. PitInv => WaitWithinPeriod BY DEF PitInv
<1> QED BY <1>1, PitInvariant, PTL

\* picmask takes back no request of an unmasked line, and no other callback takes
\* one back at all.
THEOREM UnmaskedTicksAreKept == Spec => UnmaskedTickKept
<1>1. ASSUME PitInv, [Next]_vars
      PROVE  [irq /\ ~masked /\ ~irq' => phase \in {"cpu", "io"}]_vars
  <2> SUFFICES ASSUME irq, ~masked, ~irq', phase \notin {"cpu", "io"}, Next
               PROVE  FALSE
    BY <1>1
  <2>1. CASE System
    <3>1. CASE Systimer BY <3>1 DEF Systimer
    <3>2. CASE PicMaskCallback BY <3>2 DEF PicMaskCallback
    <3>3. CASE BeepOneShot \/ Rs232cTimer
      BY <3>3 DEF BeepOneShot, Rs232cTimer, line
    <3>4. CASE (\E n \in Costs : Instruction(n)) \/ EndInstruction \/ Progress
      BY <3>4 DEF Instruction, EndInstruction, Progress
    <3>5. CASE EndEvents BY <3>5 DEF EndEvents, line
    <3> QED BY <2>1, <3>1, <3>2, <3>3, <3>4, <3>5 DEF System, Callbacks
  <2>2. CASE GuestPrograms BY <2>2 DEF GuestPrograms, OutCount, OutControl
  <2>3. CASE GuestLatches BY <2>3 DEF GuestLatches, OutLatch, OutReadBack
  <2>4. CASE GuestReads BY <2>4 DEF GuestReads, InCount
  <2>5. CASE PicIrq \/ MachineReset BY <2>5 DEF PicIrq, MachineReset
  <2>6. CASE \E mask \in Masking : OutMask(mask) BY <2>6 DEF OutMask
  <2> QED BY <2>1, <2>2, <2>3, <2>4, <2>5, <2>6 DEF Next
<1> QED BY <1>1, PitInvariant, PTL DEF Spec, UnmaskedTickKept

(***************************************************************************)
(* The guest of module PitGuest is one that module Pit allows, so that all *)
(* of the above holds for it.                                              *)
(***************************************************************************)
LEMMA GuestSteps == [GNext]_allvars => [Next]_vars
<1> SUFFICES ASSUME [GNext]_allvars PROVE [Next]_vars OBVIOUS
<1>1. CASE ResetAll BY <1>1 DEF ResetAll, Next
<1>2. CASE TakeWord BY <1>2, ReaderAssumption DEF TakeWord, GuestLatches, Next
<1>3. CASE ReadByte BY <1>3, ReaderAssumption DEF ReadByte, GuestReads, Next
<1>4. CASE WordDone BY <1>4 DEF WordDone
<1>5. CASE Time BY <1>5 DEF Time, System, Next
<1>6. CASE GuestCounts BY <1>6 DEF GuestCounts, GuestPrograms, Next
<1>7. CASE GuestControls BY <1>7 DEF GuestControls, GuestPrograms, Next
<1>8. CASE StatusAsked
  <2>1. {Reader} \in (SUBSET Readable) \ {{}} BY ReaderAssumption
  <2> QED BY <1>8, <2>1 DEF StatusAsked, GuestLatches, Next
<1>9. CASE StatusRead BY <1>9, ReaderAssumption DEF StatusRead, GuestReads, Next
<1>10. CASE UNCHANGED allvars BY <1>10 DEF allvars
<1> QED
  BY <1>1, <1>2, <1>3, <1>4, <1>5, <1>6, <1>7, <1>8, <1>9, <1>10 DEF GNext

THEOREM GuestIsAllowed == GSpec => Spec
<1>1. GInit => Init BY DEF GInit
<1> QED BY <1>1, GuestSteps, PTL DEF GSpec, Spec

(***************************************************************************)
(* The word that the guest reads.                                          *)
(***************************************************************************)

\* While a word is read the latch holds it, and the flags say which byte of it
\* is next; between two words the low byte is next.
WordInv ==
  LET p == pit[Reader]
  IN /\ reads => /\ p.ctrl.rl = "ALL" /\ p.latch = taken
                 /\ \/ bytes = <<>> /\ "C" \in p.flag /\ "L" \notin p.flag
                                   /\ "R" \notin p.flag
                    \/ bytes = <<Low(taken)>> /\ "L" \in p.flag /\ "R" \in p.flag
                    \/ bytes = <<Low(taken), High(taken)>> /\ "R" \notin p.flag
     /\ ~reads /\ p.ctrl.rl = "ALL" => "R" \notin p.flag

\* A channel with the same byte order, the same latch and the same byte next.
SameWord(p, q) ==
  /\ q.ctrl.rl = p.ctrl.rl /\ q.latch = p.latch
  /\ \A f \in {"C", "L", "R"} : f \in q.flag <=> f \in p.flag

LEMMA WordKept ==
  ASSUME WordInv, SameWord(pit[Reader], pit'[Reader]), UNCHANGED word
  PROVE  WordInv'
BY DEF WordInv, SameWord, word

LEMMA ReaderFacts ==
  ASSUME PitInv
  PROVE  Reader \in Channels /\ pit[Reader] \in Channel
BY ReaderAssumption, PitAssumption, PitFacts

LEMMA TimeKeepsWord ==
  ASSUME PitInv, WordInv, Time, UNCHANGED word
  PROVE  WordInv'
<1>1. SameWord(pit[Reader], pit'[Reader])
  <2>1. CASE UNCHANGED pit BY <2>1 DEF SameWord
  <2>2. CASE Systimer
    <3>1. \E S \in {pit[0].flag \cup {"I"}, pit[0].flag \ {"I"}} :
            pit' = [pit EXCEPT ![0].flag = S]
      BY <2>2 DEF Systimer
    <3> QED BY <3>1, ReaderFacts, PitFacts, EventFacts DEF SameWord, Channel
  <2> QED
    BY <2>1, <2>2
    DEF Time, Instruction, EndInstruction, Progress, EndEvents, Callbacks, PicIrq,
        OutMask, PicMaskCallback, BeepOneShot, Rs232cTimer
<1> QED BY <1>1, WordKept

LEMMA CountsKeepWord ==
  ASSUME PitInv, WordInv, GuestCounts, UNCHANGED word
  PROVE  WordInv'
<1>1. PICK c \in Writable, b \in Bytes : OutCount(c, b) BY DEF GuestCounts
<1> DEFINE w == CountWritten(pit[c], b)
           q == [w EXCEPT !.flag = @ \cup {"I"}]
<1>2. c \in Channels /\ pit[c] \in Channel /\ b \in 0 .. Base - 1
  BY PitAssumption, PitFacts
<1>3. /\ w \in Channel /\ w.ctrl.rl = pit[c].ctrl.rl /\ w.latch = pit[c].latch
      /\ w.flag \ {"W"} = pit[c].flag \ {"W"}
  BY <1>2, CountWrittenFacts
<1>4. SameWord(pit[c], w) BY <1>3 DEF SameWord
<1>5. pit' = [pit EXCEPT ![c] = w] \/ pit' = [pit EXCEPT ![c] = q]
  BY <1>1 DEF OutCount, Start
<1> HIDE DEF w
<1>6. SameWord(pit[c], q) BY <1>3, <1>4 DEF SameWord, Channel
<1> HIDE DEF q
<1>7. SameWord(pit[Reader], pit'[Reader])
  BY <1>2, <1>4, <1>5, <1>6, PitFacts, ReaderFacts DEF SameWord
<1> QED BY <1>7, WordKept

LEMMA ControlsKeepWord ==
  ASSUME PitInv, WordInv, GuestControls, UNCHANGED word
  PROVE  WordInv'
<1>1. PICK c \in Writable, rl \in Access, mode \in Modes : OutControl(c, rl, mode)
  BY DEF GuestControls
<1> DEFINE w == Programmed(pit[c], rl, mode)
           q == IF c = 0 THEN [w EXCEPT !.flag = @ \cup {"I"}] ELSE w
<1>2. /\ c \in Channels /\ pit[c] \in Channel
      /\ rl \in {"L", "H", "ALL"} /\ mode \in 0 .. 7
  BY PitAssumption, PitFacts
<1>3. w \in Channel /\ w.flag = pit[c].flag \cap {"I"}
  BY SMTT(30), <1>2, ProgrammedFacts
<1>4. pit' = [pit EXCEPT ![c] = q] BY <1>1 DEF OutControl
<1> HIDE DEF w
<1>5. "R" \notin q.flag BY <1>3 DEF Channel
<1> HIDE DEF q
<1>6. ~reads /\ ~reads' BY DEF GuestControls, word
<1>7. CASE c = Reader BY <1>4, <1>5, <1>6, <1>7, PitFacts, ReaderFacts DEF WordInv
<1>8. CASE c # Reader
  <2>1. pit'[Reader] = pit[Reader] BY <1>4, <1>8, PitFacts, ReaderFacts
  <2> QED BY <2>1, WordKept DEF SameWord
<1> QED BY <1>7, <1>8

\* The status is latched and read beside the word.
LEMMA StatusKeepsWord ==
  ASSUME PitInv, WordInv, StatusAsked \/ StatusRead, UNCHANGED word
  PROVE  WordInv'
<1>1. CASE StatusAsked
  <2>1. pit'[Reader] = Latched(pit[Reader], {"S"}, Count(Reader))
    BY <1>1, ReaderFacts DEF StatusAsked, OutReadBack
  <2>2. pit'[Reader] = [pit[Reader] EXCEPT !.flag = @ \cup {"S"}, !.stat = pit[Reader].ctrl]
    BY <2>1 DEF Latched
  <2>3. SameWord(pit[Reader], pit'[Reader])
    BY <2>2, ReaderFacts DEF SameWord, Channel
  <2> QED BY <2>3, WordKept
<1>2. CASE StatusRead
  <2>1. pit'[Reader] = Read(pit[Reader]) /\ "S" \in pit[Reader].flag
    BY <1>2, PitFacts, ReaderFacts DEF StatusRead, InCount
  <2>2. pit'[Reader] = [pit[Reader] EXCEPT !.flag = @ \ {"S"}]
    BY <2>1 DEF Read
  <2>3. SameWord(pit[Reader], pit'[Reader])
    BY <2>2, ReaderFacts DEF SameWord, Channel
  <2> QED BY <2>3, WordKept
<1> QED BY <1>1, <1>2

LEMMA TakeStartsWord ==
  ASSUME PitInv, WordInv, TakeWord
  PROVE  WordInv'
<1> DEFINE p == pit[Reader]
<1>1. /\ p \in Channel /\ ~reads /\ p.ctrl.rl = "ALL" /\ "R" \notin p.flag
  BY ReaderFacts DEF TakeWord, WordInv
<1>2. pit'[Reader] = Latched(p, {"C"}, Count(Reader))
  BY ReaderFacts, PitFacts DEF TakeWord, OutLatch
<1>3. pit'[Reader] = [p EXCEPT !.flag = (@ \cup {"C"}) \ {"L"}, !.latch = Count(Reader)]
  BY <1>2 DEF Latched
<1>4. taken' = Count(Reader) /\ bytes' = <<>> /\ reads' = TRUE BY DEF TakeWord
<1> HIDE DEF p
<1>5. /\ pit'[Reader].ctrl = p.ctrl /\ pit'[Reader].latch = Count(Reader)
      /\ pit'[Reader].flag = (p.flag \cup {"C"}) \ {"L"}
  BY <1>1, <1>3 DEF Channel
<1> QED BY <1>1, <1>4, <1>5 DEF WordInv

LEMMA ByteContinuesWord ==
  ASSUME PitInv, WordInv, ReadByte
  PROVE  WordInv'
<1> DEFINE p == pit[Reader]
           q == pit'[Reader]
           rest == Toggle(p.flag \ {"C"}, "L")
<1>1. /\ p \in Channel /\ reads /\ p.ctrl.rl = "ALL" /\ "S" \notin p.flag
      /\ p.latch = taken /\ FromLatch(p) /\ Len(bytes) < 2
      /\ \/ bytes = <<>> /\ "C" \in p.flag /\ "L" \notin p.flag /\ "R" \notin p.flag
         \/ bytes = <<Low(taken)>> /\ "L" \in p.flag /\ "R" \in p.flag
  BY ReaderFacts DEF ReadByte, WordInv, FromLatch
<1>2. /\ bytes' = Append(bytes, ByteRead(Reader)) /\ taken' = taken /\ reads' = reads
      /\ q = Read(p)
  BY ReaderFacts, PitFacts DEF ReadByte, InCount
<1>3. q = [p EXCEPT !.flag = Toggle(rest, "R")]
  BY <1>1, <1>2 DEF Read
<1>4. ByteRead(Reader) = IF "R" \in p.flag THEN High(taken) ELSE Low(taken)
  BY <1>1 DEF ByteRead
<1>5. q.ctrl = p.ctrl /\ q.latch = p.latch /\ q.flag = Toggle(rest, "R")
  BY <1>1, <1>3 DEF Channel
<1>6. "L" \in q.flag <=> "L" \notin p.flag BY <1>5 DEF Toggle
<1>7. "R" \in q.flag <=> "R" \notin p.flag BY <1>5 DEF Toggle
<1> HIDE DEF p, q
<1>8. CASE bytes = <<>>
  <2>1. "L" \notin p.flag /\ "R" \notin p.flag BY <1>1, <1>8
  <2>2. bytes' = <<Low(taken)>> BY <1>2, <1>4, <1>8, <2>1
  <2> QED BY <1>1, <1>2, <1>5, <1>6, <1>7, <2>1, <2>2 DEF WordInv, q
<1>9. CASE bytes = <<Low(taken)>>
  <2>1. "L" \in p.flag /\ "R" \in p.flag BY <1>1, <1>9
  <2>0. taken \in 0 .. Whole - 1 /\ 0 \in 0 .. Base - 1
    BY <1>1, ChannelFields, PitAssumption
  <2>a. Low(taken) \in Nat /\ High(taken) \in Nat BY <2>0, ByteBounds
  <2>b. ASSUME NEW x \in Nat, NEW y \in Nat
        PROVE  Append(<<x>>, y) = <<x, y>>
    <3> DEFINE s == Append(<<x>>, y)
    <3>1. <<x>> \in Seq(Nat) /\ Len(<<x>>) = 1 /\ <<x>>[1] = x OBVIOUS
    <3>2. s \in Seq(Nat) /\ Len(s) = 2 /\ s[1] = x /\ s[2] = y
      BY <3>1, AppendProperties
    <3>3. <<x, y>> \in Seq(Nat) /\ Len(<<x, y>>) = 2 OBVIOUS
    <3>4. \A i \in 1 .. 2 : s[i] = <<x, y>>[i] BY <3>2
    <3> HIDE DEF s
    <3>5. s = <<x, y>> BY <3>2, <3>3, <3>4, SeqEqual
    <3> QED BY <3>5 DEF s
  <2>2. bytes' = <<Low(taken), High(taken)>> BY <1>2, <1>4, <1>9, <2>1, <2>a, <2>b, Zenon
  <2> QED BY <1>1, <1>2, <1>5, <1>7, <2>1, <2>2 DEF WordInv, q
<1> QED BY <1>1, <1>8, <1>9

LEMMA WordStep == PitInv /\ WordInv /\ [GNext]_allvars => WordInv'
<1> SUFFICES ASSUME PitInv, WordInv, [GNext]_allvars PROVE WordInv' OBVIOUS
<1>1. CASE ResetAll
  <2>1. /\ pit'[Reader] = ResetChannel(Reader) /\ ~reads'
    BY <1>1, ReaderFacts DEF ResetAll, MachineReset, ResetChannels
  <2> QED BY <2>1 DEF WordInv, ResetChannel
<1>2. CASE TakeWord BY <1>2, TakeStartsWord
<1>3. CASE ReadByte BY <1>3, ByteContinuesWord
<1>4. CASE WordDone
  <2>1. Len(bytes) = 2 /\ reads /\ reads' = FALSE /\ pit' = pit
    BY <1>4 DEF WordDone, vars
  <2> QED BY <2>1 DEF WordInv
<1>5. CASE Time /\ UNCHANGED word BY <1>5, TimeKeepsWord
<1>6. CASE GuestCounts /\ UNCHANGED word BY <1>6, CountsKeepWord
<1>7. CASE GuestControls /\ UNCHANGED word BY <1>7, ControlsKeepWord
<1>8. CASE (StatusAsked \/ StatusRead) /\ UNCHANGED word BY <1>8, StatusKeepsWord
<1>9. CASE UNCHANGED allvars BY <1>9, WordKept DEF allvars, vars, SameWord
<1> QED
  BY <1>1, <1>2, <1>3, <1>4, <1>5, <1>6, <1>7, <1>8, <1>9 DEF GNext

LEMMA WordInit == GInit => WordInv
<1> SUFFICES ASSUME GInit PROVE WordInv OBVIOUS
<1>1. pit[Reader] = ResetChannel(Reader) /\ ~reads
  BY ReaderAssumption, PitAssumption DEF GInit, Init, ResetChannels
<1> QED BY <1>1 DEF WordInv, ResetChannel

\* The bytes that pit_getstat returns after a latch command are those of the
\* latched count, whatever happens in between.
THEOREM WordsAreNotTorn == GSpec => []WordsAreWhole
<1>1. PitInv /\ WordInv => WordsAreWhole
  <2> SUFFICES ASSUME PitInv, WordInv, reads, Len(bytes) = 2
               PROVE  bytes[1] + bytes[2] * Base = taken
    BY DEF WordsAreWhole
  <2>1. bytes = <<Low(taken), High(taken)>> /\ pit[Reader].latch = taken
    BY DEF WordInv
  <2>2. taken \in 0 .. Whole - 1 BY <2>1, ReaderFacts, ChannelFields
  <2>3. 0 \in 0 .. Base - 1 BY PitAssumption
  <2> QED BY <2>1, <2>2, <2>3, ByteBounds
<1>2. PitInv /\ WordInv /\ [GNext]_allvars => WordInv' BY WordStep
<1> QED BY <1>1, <1>2, WordInit, GuestIsAllowed, PitInvariant, PTL DEF GSpec

(***************************************************************************)
(* The requests of the system timer.                                       *)
(***************************************************************************)

\* With a whole count that started the timer, the event of the timer comes no
\* sooner than its wait after the start, so that a request is one of that count.
StaleInv ==
  /\ since \in Nat /\ since <= Ticks(0, 0)
  /\ HasCount(0) /\ ~IsTriggered(pit[0]) =>
       /\ irq => since >= Ticks(0, pit[0].value)
       /\ since >= Ticks(0, pit[0].value)
            \/ remain[0] + since >= Ticks(0, pit[0].value)

\* A step that takes no time and moves neither the timer nor its count.
LEMMA StaleKept ==
  ASSUME PitInv, StaleInv, since' = since, remain'[0] = remain[0],
         SameCount(pit[0], pit'[0]), irq' => irq
  PROVE  StaleInv'
BY DEF StaleInv, SameCount, HasCount, IsTriggered

LEMMA TimeKeepsStale ==
  ASSUME PitInv, StaleInv, Time
  PROVE  StaleInv'
<1> DEFINE T == Ticks(0, pit[0].value)
<1>0. /\ 0 \in Channels /\ 0 \in Events /\ 0 # PicMask /\ remain[0] \in Int
      /\ T \in Nat \ {0} /\ Ticks(0, 0) \in Nat \ {0} /\ T <= Ticks(0, 0)
  BY EventFacts, WaitFacts
<1>1. CASE \E n \in Costs : Instruction(n) /\ since' = Later(n)
  <2>1. PICK n \in Costs : Instruction(n) /\ since' = Later(n) BY <1>1
  <2>2. n \in Nat \ {0} BY PitAssumption
  <2>3. UNCHANGED <<pit, irq>> BY <2>1 DEF Instruction, line
  <2>4. remain'[0] = remain[0] - n \/ remain'[0] = remain[0]
    BY <1>0, <2>1 DEF Instruction
  <2>5. since \in Nat /\ since <= Ticks(0, 0) BY DEF StaleInv
  <2>6. since' = IF since + n > Ticks(0, 0) THEN Ticks(0, 0) ELSE since + n
    BY <2>1 DEF Later
  <2>7. since' \in Nat /\ since' <= Ticks(0, 0) /\ since <= since'
    BY <1>0, <2>2, <2>5, <2>6
  <2> HIDE DEF T
  <2>8. since >= T => since' >= T BY <1>0, <2>5, <2>7
  <2>9. remain[0] + since >= T => since' >= T \/ remain'[0] + since' >= T
    BY <1>0, <2>2, <2>4, <2>5, <2>6
  <2> QED BY <2>3, <2>7, <2>8, <2>9 DEF StaleInv, HasCount, T
<1>2. CASE Systimer /\ UNCHANGED since
  <2> DEFINE d == Ticks(0, IF IsRate(pit[0]) THEN pit[0].value ELSE 0)
  <2>1. 0 \in pending BY <1>2 DEF Systimer, Fires
  <2>2. remain[0] <= 0 BY <2>1 DEF PitInv, PendingIsDue
  <2>3. \E S \in {pit[0].flag \cup {"I"}, pit[0].flag \ {"I"}} :
          pit' = [pit EXCEPT ![0].flag = S]
    BY <1>2 DEF Systimer
  <2>4. /\ pit'[0].ctrl = pit[0].ctrl /\ pit'[0].value = pit[0].value
        /\ "W" \in pit'[0].flag <=> "W" \in pit[0].flag
    BY <1>0, <2>3, PitFacts DEF Channel
  <2>5. since \in Nat BY DEF StaleInv
  <2> HIDE DEF T
  <2>6. remain[0] + since >= T => since >= T BY <1>0, <2>2, <2>5
  <2> QED BY <1>2, <2>4, <2>5, <2>6 DEF StaleInv, HasCount, IsTriggered, T
<1>3. CASE BeepOneShot /\ UNCHANGED since
  <2>1. remain'[0] = remain[0] /\ UNCHANGED <<pit, irq>>
    BY <1>0, <1>3, PitFacts
    DEF BeepOneShot, Tick!Rearm, Tick!Arm, Tick!Return, line
  <2> QED BY <1>3, <2>1, StaleKept DEF SameCount
<1>4. CASE Rs232cTimer /\ UNCHANGED since
  <2>1. remain'[0] = remain[0] /\ UNCHANGED <<pit, irq>>
    BY <1>0, <1>4, PitFacts DEF Rs232cTimer, Tick!Rearm, Tick!Arm, line
  <2> QED BY <1>4, <2>1, StaleKept DEF SameCount
<1>5. CASE (PicMaskCallback \/ PicIrq) /\ UNCHANGED since
  <2>1. remain'[0] = remain[0] /\ UNCHANGED pit /\ (irq' => irq)
    BY <1>0, <1>5, PitFacts
    DEF PicMaskCallback, PicIrq, Tick!Return, Tick!Disarm
  <2> QED BY <1>5, <2>1, StaleKept DEF SameCount
<1>6. CASE /\ \/ EndInstruction \/ Progress \/ EndEvents
              \/ \E mask \in Masking : OutMask(mask)
           /\ UNCHANGED since
  <2>1. UNCHANGED <<pit, irq, remain>>
    BY <1>6 DEF EndInstruction, Progress, EndEvents, OutMask, Tick!Expire, line, timers
  <2> QED BY <1>6, <2>1, StaleKept DEF SameCount
<1> QED BY <1>1, <1>2, <1>3, <1>4, <1>5, <1>6 DEF Time, Callbacks

\* A new count sets the clock back and takes back the request of the old one.
LEMMA CountsKeepStale ==
  ASSUME PitInv, StaleInv, GuestCounts
  PROVE  StaleInv'
<1>1. PICK c \in Writable, b \in Bytes :
        OutCount(c, b) /\ since' = IF c = 0 /\ Starts(pit[0]) THEN 0 ELSE since
  BY DEF GuestCounts
<1>2. c \in Channels /\ c \in Events /\ b \in 0 .. Base - 1 /\ pit[c] \in Channel
  BY PitAssumption, PitFacts, EventFacts
<1>3. CASE c # 0
  <2>1. pit'[0] = pit[0] /\ remain'[0] = remain[0] /\ since' = since
    BY <1>1, <1>2, <1>3, PitFacts, EventFacts
    DEF OutCount, Start, Tick!Arm, timers
  <2>2. irq' => irq BY <1>1, <1>3 DEF OutCount, Start
  <2> QED BY <2>1, <2>2, StaleKept DEF SameCount
<1>4. CASE c = 0
  <2> DEFINE w == CountWritten(pit[0], b)
             q == [w EXCEPT !.flag = @ \cup {"I"}]
  <2>1. /\ w \in Channel /\ w.ctrl.mode = pit[0].ctrl.mode
        /\ Starts(pit[0]) \/ "W" \in w.flag \/ IsTriggered(pit[0])
    BY <1>2, <1>4, CountWrittenFacts
  <2>2. w.value \in 0 .. Whole - 1 BY <2>1, ChannelFields
  <2>3. Ticks(0, w.value) \in Nat \ {0} /\ Ticks(0, 0) \in Nat \ {0}
    BY <2>2, TicksBounds, 0 \in 0 .. 2
  <2>4. CASE Starts(pit[0])
    <3>1. /\ pit' = [pit EXCEPT ![0] = q] /\ irq' = (irq /\ 0 # 0)
          /\ remain' = [remain EXCEPT ![0] = Ticks(0, w.value)]
      BY <1>1, <1>4, <2>4 DEF OutCount, Start, Tick!Arm
    <3> HIDE DEF w
    <3>2. q.value = w.value BY <2>1 DEF Channel
    <3> HIDE DEF q
    <3>3. remain'[0] = Ticks(0, w.value) /\ pit'[0].value = w.value /\ ~irq' /\ since' = 0
      BY <1>1, <1>2, <1>4, <2>4, <3>1, <3>2, PitFacts
    <3> QED BY <2>3, <3>3 DEF StaleInv
  <2>5. CASE ~Starts(pit[0])
    <3>1. pit' = [pit EXCEPT ![0] = w] /\ since' = since
      BY <1>1, <1>4, <2>5 DEF OutCount
    <3> HIDE DEF w
    <3>2. pit'[0] = w BY <1>2, <1>4, <3>1, PitFacts
    <3>3. ~HasCount(0)' \/ IsTriggered(pit'[0])
      BY <2>1, <2>5, <3>2 DEF HasCount, IsTriggered
    <3> QED BY <3>1, <3>3 DEF StaleInv
  <2> QED BY <2>4, <2>5
<1> QED BY <1>3, <1>4

LEMMA ControlsKeepStale ==
  ASSUME PitInv, StaleInv, GuestControls
  PROVE  StaleInv'
<1>1. PICK c \in Writable, rl \in Access, mode \in Modes : OutControl(c, rl, mode)
  BY DEF GuestControls
<1> DEFINE w == Programmed(pit[c], rl, mode)
           q == IF c = 0 THEN [w EXCEPT !.flag = @ \cup {"I"}] ELSE w
<1>2. /\ c \in Channels /\ pit[c] \in Channel
      /\ rl \in {"L", "H", "ALL"} /\ mode \in 0 .. 7
  BY PitAssumption, PitFacts
<1>3. w \in Channel /\ w.ctrl = [rl |-> rl, mode |-> mode, cmd |-> TRUE]
  BY <1>2, ProgrammedFacts
<1>4. /\ pit' = [pit EXCEPT ![c] = q] /\ UNCHANGED <<remain, since>>
      /\ irq' = (irq /\ c # 0)
  BY <1>1 DEF OutControl, timers, GuestControls
<1> HIDE DEF w
<1>5. q.ctrl.cmd = TRUE BY <1>3 DEF Channel
<1> HIDE DEF q
<1>6. CASE c = 0
  <2>1. ~HasCount(0)' BY <1>2, <1>4, <1>5, <1>6, PitFacts DEF HasCount
  <2> QED BY <1>4, <2>1 DEF StaleInv
<1>7. CASE c # 0
  <2>1. pit'[0] = pit[0] BY <1>4, <1>7, PitFacts, EventFacts
  <2> QED BY <1>4, <2>1, StaleKept DEF SameCount
<1> QED BY <1>6, <1>7

\* Latching and reading change no count.
LEMMA ReadsKeepStale ==
  ASSUME PitInv, StaleInv, TakeWord \/ ReadByte \/ StatusAsked \/ StatusRead
  PROVE  StaleInv'
<1>1. \/ \E c \in Readable : OutLatch(c) \/ InCount(c)
      \/ \E which, what : OutReadBack(which, what)
  BY ReaderAssumption DEF TakeWord, ReadByte, StatusAsked, StatusRead
<1>2. UNCHANGED <<remain, since>> /\ (irq' => irq)
  <2>1. CASE TakeWord BY <2>1 DEF TakeWord, OutLatch, timers
  <2>2. CASE ReadByte BY <2>2 DEF ReadByte, InCount, timers, line
  <2>3. CASE StatusAsked BY <2>3 DEF StatusAsked, OutReadBack, timers, line
  <2>4. CASE StatusRead BY <2>4 DEF StatusRead, InCount, timers, line
  <2> QED BY <2>1, <2>2, <2>3, <2>4
<1>3. SameCount(pit[0], pit'[0])
  <2>0. Readable \subseteq Channels /\ pit[0] \in Channel /\ 0 \in Channels
    BY PitAssumption, PitFacts
  <2>1. CASE \E c \in Readable : OutLatch(c) \/ InCount(c)
    <3>1. PICK c \in Readable :
            pit' = [pit EXCEPT ![c] = Latched(@, {"C"}, Count(c))]
              \/ pit' = [pit EXCEPT ![c] = Read(@)]
      BY <2>1 DEF OutLatch, InCount
    <3>2. /\ SameCount(pit[c], Latched(pit[c], {"C"}, Count(c)))
          /\ SameCount(pit[c], Read(pit[c]))
      BY <2>0, PitFacts, CountIsWord, LatchedFacts, ReadFacts
    <3>3. CASE c = 0 BY <2>0, <3>1, <3>2, <3>3, PitFacts
    <3>4. CASE c # 0
      <4>1. pit'[0] = pit[0] BY <2>0, <3>1, <3>4, PitFacts
      <4> QED BY <4>1 DEF SameCount
    <3> QED BY <3>3, <3>4
  <2>2. CASE \E which, what : OutReadBack(which, what)
    <3>1. PICK which, what :
            pit' = [c \in Channels |->
                      IF c \in which THEN Latched(pit[c], what, Count(c)) ELSE pit[c]]
      BY <2>2 DEF OutReadBack
    <3>2. SameCount(pit[0], Latched(pit[0], what, Count(0)))
      BY <2>0, PitFacts, CountIsWord, LatchedFacts
    <3> QED BY <2>0, <3>1, <3>2 DEF SameCount
  <2> QED BY <1>1, <2>1, <2>2
<1> QED BY <1>2, <1>3, StaleKept

LEMMA ResetIsFresh ==
  /\ GInit => StaleInv
  /\ ResetAll => StaleInv'
<1>1. 0 \in Channels /\ 0 \in Events BY EventFacts
<1>2. 0 \in 0 .. Whole - 1
  <2>1. Base \in Nat /\ Base >= 2 BY PitAssumption
  <2> QED BY <2>1 DEF Whole
<1>3. Ticks(0, 0) \in Nat \ {0} BY <1>2, TicksBounds, 0 \in 0 .. 2
<1>4. ResetChannels[0].value = 0 /\ ResetWaits[0] = Ticks(0, 0)
  BY <1>1 DEF ResetChannels, ResetChannel, ResetWaits
<1>5. ASSUME GInit PROVE StaleInv
  BY <1>3, <1>4, <1>5 DEF GInit, Init, StaleInv
<1>6. ASSUME ResetAll PROVE StaleInv'
  BY <1>3, <1>4, <1>6 DEF ResetAll, MachineReset, StaleInv
<1> QED BY <1>5, <1>6

LEMMA StaleStep == PitInv /\ StaleInv /\ [GNext]_allvars => StaleInv'
<1> SUFFICES ASSUME PitInv, StaleInv, [GNext]_allvars PROVE StaleInv' OBVIOUS
<1>1. CASE ResetAll BY <1>1, ResetIsFresh
<1>2. CASE TakeWord \/ ReadByte \/ StatusAsked \/ StatusRead BY <1>2, ReadsKeepStale
<1>3. CASE WordDone \/ UNCHANGED allvars
  BY <1>3, StaleKept DEF WordDone, allvars, vars, line, timers, SameCount
<1>4. CASE Time BY <1>4, TimeKeepsStale
<1>5. CASE GuestCounts BY <1>5, CountsKeepStale
<1>6. CASE GuestControls BY <1>6, ControlsKeepStale
<1> QED BY <1>1, <1>2, <1>3, <1>4, <1>5, <1>6 DEF GNext

\* pit_o71 and pit_o77 take back the request of the count that they replace, and
\* the new one brings about no request before its time.
THEOREM TicksAreFresh == GSpec => []NoStaleTick
<1>1. StaleInv => NoStaleTick BY DEF StaleInv, NoStaleTick
<1>2. PitInv /\ StaleInv /\ [GNext]_allvars => StaleInv' BY StaleStep
<1> QED BY <1>1, <1>2, ResetIsFresh, GuestIsAllowed, PitInvariant, PTL DEF GSpec
=============================================================================
