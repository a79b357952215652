----------------------------- MODULE FdcProofs -----------------------------
(***************************************************************************)
(* Proofs about module Fdc, for every number of drives, tracks and         *)
(* sectors, every delay and every user and guest.                          *)
(***************************************************************************)
EXTENDS Fdc, WellFoundedInduction, TLAPS

\* The assumptions, one by one.
LEMMA Sizes ==
  /\ LastDrive \in Nat /\ LastTrack \in Nat /\ WaitLimit \in Nat
  /\ Sectors \in Nat /\ Sectors > 0
  /\ SectorSize \in Nat /\ SectorSize > 0
  /\ IntDelay \in Nat /\ IntDelay > 0
  /\ DiskDelay \in Nat /\ DiskDelay > 0
  /\ CountRange \in Nat /\ CountRange > 0
<1>1. LastDrive \in Nat /\ LastTrack \in Nat /\ WaitLimit \in Nat BY FdcAssumption
<1>2. Sectors \in Nat \ {0} BY FdcAssumption
<1>3. SectorSize \in Nat \ {0} BY FdcAssumption
<1>4. IntDelay \in Nat \ {0} BY FdcAssumption
<1>5. DiskDelay \in Nat \ {0} BY FdcAssumption
<1> QED BY <1>1, <1>2, <1>3, <1>4, <1>5, CountAssumption

LEMMA NoTransferIsTransfer == NoTransfer \in Transfer
<1>1. 0 \in Drives /\ 0 \in 0 .. LastTrack /\ 1 \in 1 .. Sectors BY Sizes DEF Drives
<1> QED BY <1>1 DEF NoTransfer, Transfer

-----------------------------------------------------------------------------
(***************************************************************************)
(* The DMA channel.                                                        *)
(***************************************************************************)

\* dmac_check starts no channel that is not asked for anything.
LEMMA ChannelFacts ==
  ASSUME NEW ch \in Channel
  PROVE  /\ \A e \in BOOLEAN : /\ SetReady(ch, e) \in Channel
                               /\ SetReady(ch, e).ready = e
                               /\ SetReady(ch, e).working => e
         /\ \A m \in BOOLEAN : /\ SetMask(ch, m) \in Channel
                               /\ SetMask(ch, m).ready = ch.ready
                               /\ SetMask(ch, m).working => ch.ready
         /\ \A n \in 0 .. CountRange - 1 :
              /\ SetCount(ch, n) \in Channel
              /\ SetCount(ch, n).ready = ch.ready
         /\ MasterClear(ch) \in Channel /\ MasterClear(ch).ready = ch.ready
         /\ MasterClear(ch).working = ch.working
         /\ Step(ch) \in Channel /\ Step(ch).ready = ch.ready
         /\ Step(ch).working => ch.working
<1>1. CountRange \in Nat /\ CountRange > 0 BY Sizes
<1>2. \A e \in BOOLEAN : /\ SetReady(ch, e) \in Channel
                         /\ SetReady(ch, e).ready = e
                         /\ SetReady(ch, e).working => e
  BY DEF SetReady, Check, Channel
<1>3. \A m \in BOOLEAN : /\ SetMask(ch, m) \in Channel
                         /\ SetMask(ch, m).ready = ch.ready
                         /\ SetMask(ch, m).working => ch.ready
  BY DEF SetMask, Check, Channel
<1>4. \A n \in 0 .. CountRange - 1 : /\ SetCount(ch, n) \in Channel
                                     /\ SetCount(ch, n).ready = ch.ready
  BY DEF SetCount, Channel
<1>5. /\ MasterClear(ch) \in Channel /\ MasterClear(ch).ready = ch.ready
      /\ MasterClear(ch).working = ch.working
  <2>1. 0 \in 0 .. CountRange - 1 BY <1>1
  <2> QED BY <2>1 DEF MasterClear, Channel
<1>6. Step(ch) \in Channel /\ Step(ch).ready = ch.ready /\ (Step(ch).working => ch.working)
  <2>1. (ch.leng - 1) % CountRange \in 0 .. CountRange - 1 BY <1>1 DEF Channel
  <2> QED BY <2>1 DEF Step, Channel, Terminal
<1> QED BY <1>2, <1>3, <1>4, <1>5, <1>6

-----------------------------------------------------------------------------
(***************************************************************************)
(* The controller.                                                         *)
(***************************************************************************)

\* What a transfer of the drive q.us leaves alone.
Kept(p, q) ==
  /\ p.us = q.us /\ p.istat = q.istat /\ p.timer = q.timer /\ p.ctrl = q.ctrl
  /\ p.media = q.media /\ p.delay = q.delay /\ p.next = q.next
  /\ \A d \in Drives \ {q.us} : p.stat[d] = q.stat[d]
  /\ p.stat[q.us] \in {"none", "address", q.stat[q.us]}

LEMMA ResultFacts ==
  ASSUME NEW q \in Controller, NEW ok \in BOOLEAN
  PROVE  LET p == Result(q, ok)
         IN /\ p \in Controller /\ Kept(p, q) /\ p.asked = q.asked
            /\ p.event = "result" /\ p.armed /\ ~p.tc
            /\ p.stat[q.us] = "none"
            /\ ~p.dma.ready /\ ~p.dma.working
<1> DEFINE p == Result(q, ok)
<1>1. q.dma \in Channel /\ q.us \in Drives BY DEF Controller
<1>2. SetReady(q.dma, FALSE) \in Channel /\ ~SetReady(q.dma, FALSE).ready
      /\ ~SetReady(q.dma, FALSE).working
  BY <1>1, ChannelFacts
<1>3. p \in Controller BY <1>1, <1>2 DEF Result, Controller, Events
<1>4. Kept(p, q) BY <1>1 DEF Kept, Result, Controller
<1>5. /\ p.asked = q.asked /\ p.event = "result" /\ p.armed /\ ~p.tc
      /\ p.stat[q.us] = "none" /\ p.dma = SetReady(q.dma, FALSE)
  BY <1>1 DEF Result, Controller
<1> QED BY <1>2, <1>3, <1>4, <1>5

LEMMA AddressFacts == \A q : Address(q) \in {"none", "address"}
BY DEF Address

\* What the data phase needs of the record.
DataOK(q) ==
  /\ q.event \in DataPhases => q.bufcnt > 0
  /\ q.event = "bufsend2" => q.asked.op = "read" /\ q.r <= Sectors
  /\ q.event = "bufrecv" => q.asked.op = "write"

\* The DMA channel is asked for bytes in the data phases, and runs in no other.
Matched(q) ==
  /\ q.dma.ready <=> q.event \in DataPhases
  /\ q.dma.working => q.dma.ready

\* A step of a transfer, from q to p, in the data phases or into the result.
Transferred(p, q) ==
  /\ p \in Controller /\ Kept(p, q) /\ p.asked = q.asked
  /\ p.event \in DataPhases \cup {"result"}
  /\ DataOK(p)
  /\ p.event = "result" => p.armed /\ ~p.tc
  /\ p.event \in DataPhases => p.tc = q.tc
  /\ p.armed \/ p.armed = q.armed

LEMMA ResultTransferred ==
  ASSUME NEW q \in Controller, NEW ok \in BOOLEAN
  PROVE  Transferred(Result(q, ok), q) /\ Matched(Result(q, ok))
<1> DEFINE p == Result(q, ok)
<1>1. /\ p \in Controller /\ Kept(p, q) /\ p.asked = q.asked
      /\ p.event = "result" /\ p.armed /\ ~p.tc
      /\ ~p.dma.ready /\ ~p.dma.working
  BY ResultFacts
<1> HIDE DEF p
<1>2. p.event \notin DataPhases BY <1>1 DEF DataPhases
<1>3. Matched(p) BY <1>1, <1>2 DEF Matched
<1>4. DataOK(p) BY <1>1 DEF DataOK, DataPhases
<1>5. Transferred(p, q) BY <1>1, <1>2, <1>4 DEF Transferred
<1> QED BY <1>3, <1>5 DEF p

\* The request of a data phase.
LEMMA DataPhaseFacts ==
  ASSUME NEW q \in Controller, NEW phase \in DataPhases
  PROVE  LET p == DataPhase(q, phase)
         IN /\ p \in Controller /\ Matched(p)
            /\ p = [q EXCEPT !.event = phase, !.bufcnt = SectorSize, !.dma = p.dma]
            /\ p.event = phase /\ p.bufcnt > 0
<1> DEFINE p == DataPhase(q, phase)
<1> DEFINE dma == SetReady(q.dma, TRUE)
<1>1. q.dma \in Channel BY DEF Controller
<1>2. dma \in Channel /\ dma.ready BY <1>1, ChannelFacts
<1>3. SectorSize \in 0 .. SectorSize /\ SectorSize > 0 BY Sizes
<1>4. p = [q EXCEPT !.event = phase, !.bufcnt = SectorSize, !.dma = dma]
  BY DEF DataPhase, Controller
<1> HIDE DEF p, dma
<1>5. p \in Controller BY ZenonT(60), <1>2, <1>3, <1>4 DEF Controller, Events
<1>6. p.event = phase /\ p.bufcnt > 0 /\ p.dma = dma BY <1>3, <1>4 DEF Controller
<1>7. Matched(p)
  <2>1. p.event \in DataPhases /\ p.dma.ready BY <1>2, <1>6
  <2> QED BY <2>1 DEF Matched
<1> QED BY <1>4, <1>5, <1>6, <1>7 DEF p

\* A sector is read, when there is one, or the command ends.
LEMMA ReadSectorFacts ==
  ASSUME NEW q \in Controller, q.asked.op = "read"
  PROVE  /\ Transferred(ReadSector(q), q) /\ Matched(ReadSector(q))
         /\ ReadSector(q).stat[q.us] \in {"none", "address"}
<1>1. CASE ~(DriveCheck(q, FALSE) /\ SectorFound(q))
  <2>1. ReadSector(q) = Result(q, FALSE) BY <1>1 DEF ReadSector
  <2> QED BY <2>1, ResultTransferred, ResultFacts
<1>2. CASE DriveCheck(q, FALSE) /\ SectorFound(q)
  <2> DEFINE s == [q EXCEPT !.stat[q.us] = Address(q), !.moved = Moved(q)]
  <2> DEFINE p == DataPhase(s, "bufsend2")
  <2>1. q.us \in Drives /\ q.treg[q.us] \in 0 .. LastTrack + 1 /\ q.hd \in {0, 1}
        /\ q.r \in 1 .. Sectors + 1
        /\ q.moved \in Seq(Drives \X (0 .. LastTrack) \X {0, 1} \X (1 .. Sectors))
    BY DEF Controller
  <2>2. q.treg[q.us] \in 0 .. LastTrack /\ q.r \in 1 .. Sectors
    BY <1>2, <2>1, Sizes DEF SectorFound
  <2>3. Moved(q) \in Seq(Drives \X (0 .. LastTrack) \X {0, 1} \X (1 .. Sectors))
    BY <2>1, <2>2 DEF Moved
  <2>4. s \in Controller BY <2>1, <2>3, AddressFacts DEF Controller
  <2>5. /\ Kept(s, q) /\ s.asked = q.asked /\ s.tc = q.tc /\ s.armed = q.armed
        /\ s.r = q.r /\ s.us = q.us /\ s.stat[q.us] \in {"none", "address"}
    BY <2>1, AddressFacts DEF Kept, Controller
  <2>6. ReadSector(q) = p BY <1>2 DEF ReadSector
  <2> HIDE DEF s
  <2>7. /\ p \in Controller /\ Matched(p)
        /\ p = [s EXCEPT !.event = "bufsend2", !.bufcnt = SectorSize, !.dma = p.dma]
        /\ p.event = "bufsend2" /\ p.bufcnt > 0
    BY <2>4, DataPhaseFacts DEF DataPhases
  <2> HIDE DEF p
  <2>8. /\ Kept(p, q) /\ p.asked = q.asked /\ p.tc = q.tc /\ p.armed = q.armed
        /\ p.r = q.r /\ p.stat[q.us] \in {"none", "address"}
    <3>1. /\ p.us = s.us /\ p.istat = s.istat /\ p.timer = s.timer
          /\ p.ctrl = s.ctrl /\ p.media = s.media /\ p.delay = s.delay
          /\ p.next = s.next /\ p.stat = s.stat
      BY <2>4, <2>7 DEF Controller
    <3>2. p.asked = s.asked /\ p.tc = s.tc /\ p.armed = s.armed /\ p.r = s.r
      BY <2>4, <2>7 DEF Controller
    <3> QED BY <2>5, <3>1, <3>2 DEF Kept
  <2>9. DataOK(p) BY <2>2, <2>7, <2>8 DEF DataOK, DataPhases
  <2> QED BY <2>6, <2>7, <2>8, <2>9 DEF Transferred, DataPhases
<1> QED BY <1>1, <1>2

\* A change of the transfer's own registers, from q to s.
Touched(s, q) ==
  /\ s \in Controller /\ Kept(s, q) /\ s.asked = q.asked /\ s.tc = q.tc
  /\ s.armed = q.armed

LEMMA TransferredAfter ==
  ASSUME NEW q \in Controller, NEW s, NEW p, Touched(s, q), Transferred(p, s)
  PROVE  Transferred(p, q)
<1>1. q.us \in Drives /\ s.us = q.us BY DEF Controller, Touched, Kept
<1>2. Kept(p, q) BY <1>1 DEF Touched, Transferred, Kept
<1> QED BY <1>2 DEF Touched, Transferred

LEMMA DataPhaseTouched ==
  ASSUME NEW q \in Controller, NEW phase \in DataPhases
  PROVE  LET p == DataPhase(q, phase)
         IN Touched(p, q) /\ p.r = q.r /\ p.stat = q.stat /\ p.hd = q.hd
<1> DEFINE p == DataPhase(q, phase)
<1>1. /\ p \in Controller
      /\ p = [q EXCEPT !.event = phase, !.bufcnt = SectorSize, !.dma = p.dma]
  BY DataPhaseFacts
<1> HIDE DEF p
<1>2. /\ p.us = q.us /\ p.istat = q.istat /\ p.timer = q.timer
      /\ p.ctrl = q.ctrl /\ p.media = q.media /\ p.delay = q.delay
      /\ p.next = q.next /\ p.stat = q.stat
  BY <1>1 DEF Controller
<1>3. p.asked = q.asked /\ p.tc = q.tc /\ p.armed = q.armed /\ p.r = q.r /\ p.hd = q.hd
  BY <1>1 DEF Controller
<1>4. Touched(p, q) BY <1>1, <1>2, <1>3 DEF Touched, Kept
<1> QED BY <1>2, <1>3, <1>4 DEF p

LEMMA NextReadFacts ==
  ASSUME NEW q \in Controller, q.asked.op = "read", q.r <= Sectors
  PROVE  Transferred(NextRead(q), q) /\ Matched(NextRead(q))
<1> DEFINE end == q.r = q.asked.eot
<1> DEFINE turns == end /\ q.asked.mt
<1> DEFINE s == [q EXCEPT !.r = IF end THEN 1 ELSE @ + 1,
                          !.hd = IF turns THEN 1 - @ ELSE @]
<1>1. q.r \in 1 .. Sectors + 1 /\ q.hd \in {0, 1} /\ q.us \in Drives BY DEF Controller
<1>2. (IF end THEN 1 ELSE q.r + 1) \in 1 .. Sectors + 1 BY <1>1, Sizes
<1>3. (IF turns THEN 1 - q.hd ELSE q.hd) \in {0, 1} BY <1>1
<1>4. s \in Controller BY <1>2, <1>3 DEF Controller
<1>5. Touched(s, q)
  <2>1. \E r, hd : s = [q EXCEPT !.r = r, !.hd = hd] OBVIOUS
  <2> HIDE DEF s
  <2>2. /\ s.us = q.us /\ s.istat = q.istat /\ s.timer = q.timer /\ s.ctrl = q.ctrl
        /\ s.media = q.media /\ s.delay = q.delay /\ s.next = q.next /\ s.stat = q.stat
    BY <2>1 DEF Controller
  <2>3. s.asked = q.asked /\ s.tc = q.tc /\ s.armed = q.armed BY <2>1 DEF Controller
  <2> QED BY <1>4, <2>2, <2>3 DEF Touched, Kept
<1>6. NextRead(q) = Result(s, TRUE) \/ NextRead(q) = ReadSector(s) BY DEF NextRead
<1> HIDE DEF s
<1>7. s.asked.op = "read" BY <1>5 DEF Touched
<1>8. Transferred(NextRead(q), s) /\ Matched(NextRead(q))
  BY <1>4, <1>6, <1>7, ResultTransferred, ReadSectorFacts
<1> QED BY <1>5, <1>8, TransferredAfter

\* A byte of a read: the terminal count ends it.
LEMMA DataReadFacts ==
  ASSUME NEW q \in Controller, DataOK(q)
  PROVE  /\ q.event # "bufsend2" => DataRead(q) = q
         /\ q.event = "bufsend2" =>
              /\ Transferred(DataRead(q), q) /\ ~DataRead(q).tc
              /\ Matched(q) => Matched(DataRead(q))
<1>1. CASE q.event # "bufsend2" BY <1>1 DEF DataRead
<1>2. CASE q.event = "bufsend2"
  <2> DEFINE s == [q EXCEPT !.bufcnt = @ - 1]
  <2>1. q.bufcnt > 0 /\ q.asked.op = "read" /\ q.r <= Sectors
    BY <1>2 DEF DataOK, DataPhases
  <2>2. q.bufcnt \in 0 .. SectorSize /\ q.us \in Drives /\ q.tc \in BOOLEAN
    BY DEF Controller
  <2>3. q.bufcnt - 1 \in 0 .. SectorSize BY <2>1, <2>2, Sizes
  <2>4. s \in Controller BY <2>3 DEF Controller
  <2>5. /\ Touched(s, q) /\ s.event = q.event /\ s.r = q.r /\ s.dma = q.dma
        /\ s.bufcnt = q.bufcnt - 1
    BY <2>2, <2>4 DEF Touched, Kept, Controller
  <2>6. /\ q.tc => DataRead(q) = Result([s EXCEPT !.r = 1], TRUE)
        /\ ~q.tc /\ s.bufcnt = 0 => DataRead(q) = NextRead(s)
        /\ ~q.tc /\ s.bufcnt # 0 => DataRead(q) = s
    BY <1>2 DEF DataRead
  <2> HIDE DEF s
  <2>7. CASE q.tc
    <3> DEFINE u == [s EXCEPT !.r = 1]
    <3>1. 1 \in 1 .. Sectors + 1 BY Sizes
    <3>2. u \in Controller BY <2>4, <3>1 DEF Controller
    <3>3. Touched(u, q) BY <2>2, <2>4, <2>5, <3>2 DEF Touched, Kept, Controller
    <3> HIDE DEF u
    <3>4. Transferred(Result(u, TRUE), u) /\ Matched(Result(u, TRUE))
          /\ ~Result(u, TRUE).tc
      BY <3>2, ResultTransferred, ResultFacts
    <3>5. Transferred(Result(u, TRUE), q) BY <3>3, <3>4, TransferredAfter
    <3> QED BY <1>2, <2>6, <2>7, <3>4, <3>5 DEF u
  <2>8. CASE ~q.tc /\ s.bufcnt = 0
    <3>1. s.asked.op = "read" /\ s.r <= Sectors BY <2>1, <2>5 DEF Touched
    <3>2. Transferred(NextRead(s), s) /\ Matched(NextRead(s))
      BY <2>4, <3>1, NextReadFacts
    <3>3. Transferred(NextRead(s), q) BY <2>5, <3>2, TransferredAfter
    <3>4. ~NextRead(s).tc
      BY <2>8, <3>3 DEF Transferred
    <3> QED BY <1>2, <2>6, <2>8, <3>2, <3>3, <3>4
  <2>9. CASE ~q.tc /\ s.bufcnt # 0
    <3>1. DataRead(q) = s BY <2>6, <2>9
    <3>2. s.bufcnt > 0
      <4>1. s.bufcnt # 0 BY <2>9
      <4>2. s.bufcnt \in 0 .. SectorSize BY <2>3, <2>5
      <4> QED BY <4>1, <4>2, Sizes
    <3>3. s.event = "bufsend2" /\ s.asked = q.asked BY <1>2, <2>5 DEF Touched
    <3>4. DataOK(s) BY <2>1, <2>5, <3>2, <3>3 DEF DataOK, DataPhases
    <3>5. Transferred(s, q) BY <2>5, <3>3, <3>4 DEF Transferred, Touched, DataPhases
    <3>6. ~s.tc BY <2>5, <2>9 DEF Touched
    <3>7. Matched(q) => Matched(s) BY <2>5 DEF Matched
    <3> QED BY <1>2, <3>1, <3>5, <3>6, <3>7
  <2> QED BY <2>2, <2>7, <2>8, <2>9
<1> QED BY <1>1, <1>2

LEMMA WriteSectorFacts ==
  ASSUME NEW q \in Controller, q.asked.op = "write"
  PROVE  LET p == WriteSector(q)
         IN Transferred(p, q) /\ Matched(p) /\ ~p.tc
<1> DEFINE p == WriteSector(q)
<1>1. CASE ~DriveCheck(q, TRUE) \/ ~SectorFound(q)
  <2>1. p = Result(q, FALSE) BY <1>1 DEF WriteSector
  <2> HIDE DEF p
  <2>2. Transferred(p, q) /\ Matched(p) /\ ~p.tc BY <2>1, ResultTransferred, ResultFacts
  <2> QED BY <2>2 DEF p
<1>2. CASE DriveCheck(q, TRUE) /\ SectorFound(q)
  <2> DEFINE end == q.tc \/ q.r = q.asked.eot
  <2> DEFINE turns == end /\ q.asked.mt
  <2> DEFINE a == [q EXCEPT !.moved = Moved(q), !.r = IF end THEN 1 ELSE @ + 1,
                            !.hd = IF turns THEN 1 - @ ELSE @]
  <2> DEFINE s == DataPhase(a, "bufrecv")
  <2> DEFINE t == [s EXCEPT !.stat[q.us] = Address(s)]
  <2>1. q.us \in Drives /\ q.treg[q.us] \in 0 .. LastTrack + 1 /\ q.hd \in {0, 1}
        /\ q.r \in 1 .. Sectors + 1 /\ q.tc \in BOOLEAN
        /\ q.moved \in Seq(Drives \X (0 .. LastTrack) \X {0, 1} \X (1 .. Sectors))
    BY DEF Controller
  <2>2. q.treg[q.us] \in 0 .. LastTrack /\ q.r \in 1 .. Sectors
    BY <1>2, <2>1, Sizes DEF SectorFound
  <2>3. Moved(q) \in Seq(Drives \X (0 .. LastTrack) \X {0, 1} \X (1 .. Sectors))
    BY <2>1, <2>2 DEF Moved
  <2>4. (IF end THEN 1 ELSE q.r + 1) \in 1 .. Sectors + 1 BY <2>2, Sizes
  <2>5. (IF turns THEN 1 - q.hd ELSE q.hd) \in {0, 1} BY <2>1
  <2>6. a \in Controller BY <2>3, <2>4, <2>5 DEF Controller
  <2>7. Touched(a, q)
    <3>1. /\ a.us = q.us /\ a.istat = q.istat /\ a.timer = q.timer
          /\ a.ctrl = q.ctrl /\ a.media = q.media /\ a.delay = q.delay
          /\ a.next = q.next /\ a.stat = q.stat
      BY DEF Controller
    <3>2. a.asked = q.asked /\ a.tc = q.tc /\ a.armed = q.armed BY DEF Controller
    <3> HIDE DEF a
    <3> QED BY <2>6, <3>1, <3>2 DEF Touched, Kept
  <2>8. \/ p = Result(t, TRUE)
        \/ p = t /\ ~q.tc
    BY <1>2 DEF WriteSector
  <2> HIDE DEF a
  <2>9. s \in Controller /\ Matched(s) /\ s.event = "bufrecv" /\ s.bufcnt > 0
        /\ Touched(s, a)
    BY <2>6, DataPhaseFacts, DataPhaseTouched DEF DataPhases
  <2> HIDE DEF s
  <2>10. s.us = q.us BY <2>7, <2>9 DEF Touched, Kept
  <2>11. t \in Controller /\ t.event = "bufrecv" /\ t.bufcnt > 0 /\ t.dma = s.dma
         /\ Touched(t, s)
    <3>1. t \in Controller BY <2>1, <2>9, AddressFacts DEF Controller
    <3>2. t.event = "bufrecv" /\ t.bufcnt > 0 /\ t.dma = s.dma
      BY <2>9 DEF Controller
    <3>3. /\ t.us = s.us /\ t.istat = s.istat /\ t.timer = s.timer
          /\ t.ctrl = s.ctrl /\ t.media = s.media /\ t.delay = s.delay
          /\ t.next = s.next
      BY <2>9 DEF Controller
    <3>4. t.asked = s.asked /\ t.tc = s.tc /\ t.armed = s.armed BY <2>9 DEF Controller
    <3>5. t.stat = [s.stat EXCEPT ![q.us] = Address(s)] BY <2>9 DEF Controller
    <3>6. s.stat \in [Drives -> {"none", "address", "seek", "attention"}]
      BY <2>9 DEF Controller
    <3>7. \A d \in Drives \ {s.us} : t.stat[d] = s.stat[d] BY <2>10, <3>5, <3>6
    <3>8. t.stat[s.us] \in {"none", "address"} BY <2>1, <2>10, <3>5, <3>6, AddressFacts
    <3>9. Kept(t, s) BY <3>3, <3>7, <3>8 DEF Kept
    <3>10. Touched(t, s) BY <3>1, <3>4, <3>9 DEF Touched
    <3> QED BY <3>1, <3>2, <3>10
  <2> HIDE DEF t, p
  <2>12. Touched(t, q)
    <3>1. t.us = q.us /\ a.us = q.us /\ s.us = q.us
      BY <2>7, <2>9, <2>11 DEF Touched, Kept
    <3>2. Kept(t, q) BY <2>1, <2>7, <2>9, <2>11, <3>1 DEF Touched, Kept
    <3> QED BY <2>7, <2>9, <2>11, <3>2 DEF Touched
  <2>13. Matched(t) BY <2>9, <2>11 DEF Matched, DataPhases
  <2>14. CASE p = Result(t, TRUE)
    <3>1. Transferred(p, t) /\ Matched(p) /\ ~p.tc
      BY <2>11, <2>14, ResultTransferred, ResultFacts
    <3>2. Transferred(p, q) BY <2>12, <3>1, TransferredAfter
    <3> QED BY <3>1, <3>2 DEF p
  <2>15. CASE p = t /\ ~q.tc
    <3>1. t.asked.op = "write" BY <2>12 DEF Touched
    <3>2. DataOK(t) BY <2>11, <3>1 DEF DataOK, DataPhases
    <3>3. Transferred(t, q) BY <2>11, <2>12, <3>2 DEF Transferred, Touched, DataPhases
    <3>4. ~t.tc BY <2>12, <2>15 DEF Touched
    <3> QED BY <2>13, <2>15, <3>3, <3>4 DEF p
  <2> QED BY <2>8, <2>14, <2>15
<1> QED BY <1>1, <1>2

\* A byte of a write.
LEMMA DataWriteFacts ==
  ASSUME NEW q \in Controller, DataOK(q), q.event = "bufrecv"
  PROVE  LET p == DataWrite(q)
         IN /\ Transferred(p, q) /\ ~p.tc
            /\ Matched(q) => Matched(p)
<1> DEFINE p == DataWrite(q)
<1> DEFINE s == [q EXCEPT !.bufcnt = @ - 1]
<1>1. q.bufcnt > 0 /\ q.asked.op = "write" BY DEF DataOK, DataPhases
<1>2. q.bufcnt \in 0 .. SectorSize /\ q.us \in Drives /\ q.tc \in BOOLEAN
  BY DEF Controller
<1>3. q.bufcnt - 1 \in 0 .. SectorSize BY <1>1, <1>2, Sizes
<1>4. s \in Controller BY <1>3 DEF Controller
<1>5. Touched(s, q) /\ s.event = q.event /\ s.dma = q.dma /\ s.bufcnt = q.bufcnt - 1
  BY <1>2, <1>4 DEF Touched, Kept, Controller
<1>6. \/ p = WriteSector(s)
      \/ p = s /\ s.bufcnt # 0 /\ ~q.tc
  BY <1>5 DEF DataWrite, Touched
<1> HIDE DEF s, p
<1>7. CASE p = WriteSector(s)
  <2>1. s.asked.op = "write" BY <1>1, <1>5 DEF Touched
  <2>2. Transferred(p, s) /\ Matched(p) /\ ~p.tc BY <1>4, <1>7, <2>1, WriteSectorFacts
  <2>3. Transferred(p, q) BY <1>5, <2>2, TransferredAfter
  <2> QED BY <2>2, <2>3 DEF p
<1>8. CASE p = s /\ s.bufcnt # 0 /\ ~q.tc
  <2>1. s.bufcnt > 0
    <3>1. s.bufcnt # 0 BY <1>8
    <3>2. s.bufcnt \in 0 .. SectorSize BY <1>3, <1>5
    <3> QED BY <3>1, <3>2, Sizes
  <2>2. s.asked.op = "write" /\ s.event = "bufrecv" BY <1>1, <1>5 DEF Touched
  <2>3. DataOK(s) BY <2>1, <2>2 DEF DataOK, DataPhases
  <2>4. Transferred(s, q) BY <1>5, <2>2, <2>3 DEF Transferred, Touched, DataPhases
  <2>5. ~s.tc BY <1>5, <1>8 DEF Touched
  <2>6. Matched(q) => Matched(s) BY <1>5 DEF Matched
  <2> QED BY <1>8, <2>4, <2>5, <2>6 DEF p
<1> QED BY <1>6, <1>7, <1>8

\* What a command for drive d leaves alone.
Left(p, q, d) ==
  /\ p.us = d /\ p.istat = q.istat /\ p.timer = q.timer /\ p.ctrl = q.ctrl
  /\ p.media = q.media /\ p.delay = q.delay /\ p.next = q.next
  /\ \A e \in Drives \ {d} : p.stat[e] = q.stat[e]
  /\ p.stat[d] \in {"none", "address", q.stat[d]}

LEMMA LeftAfter ==
  ASSUME NEW q, NEW s, NEW p, NEW d \in Drives, Left(s, q, d), Kept(p, s)
  PROVE  Left(p, q, d)
BY DEF Left, Kept

\* A transfer begins.
LEMMA BeginFacts ==
  ASSUME NEW q \in Controller, NEW t \in Transfer
  PROVE  LET p == Begin(q, t)
         IN /\ p \in Controller /\ Left(p, q, t.us) /\ p.asked = t
            /\ p.event \in DataPhases \cup {"result"}
            /\ DataOK(p) /\ Matched(p)
            /\ p.event = "result" => p.armed /\ ~p.tc
            /\ p.event \in DataPhases => p.tc = q.tc
<1> DEFINE p == Begin(q, t)
<1> DEFINE c == [q EXCEPT !.asked = t, !.us = t.us, !.hd = t.hd, !.r = t.r]
<1> DEFINE a == [c EXCEPT !.treg[t.us] = IF q.lasttreg[t.us] # @ THEN t.c ELSE @]
<1> DEFINE b == [a EXCEPT !.stat[t.us] = Address(a)]
<1>1. t.us \in Drives /\ t.hd \in {0, 1} /\ t.c \in 0 .. LastTrack
      /\ t.r \in 1 .. Sectors /\ t.op \in {"read", "write"}
  BY DEF Transfer
<1>2. t.c \in 0 .. LastTrack + 1 /\ t.r \in 1 .. Sectors + 1 BY <1>1, Sizes
<1>3. c \in Controller BY <1>1, <1>2 DEF Controller
<1>4. /\ c.asked = t /\ c.us = t.us /\ c.treg = q.treg /\ c.lasttreg = q.lasttreg
      /\ c.stat = q.stat /\ c.istat = q.istat /\ c.timer = q.timer
  BY DEF Controller
<1>5. /\ c.ctrl = q.ctrl /\ c.media = q.media /\ c.delay = q.delay
      /\ c.next = q.next /\ c.tc = q.tc
  BY DEF Controller
<1>6. /\ p = IF t.op = "read" THEN ReadSector(b)
             ELSE IF DriveCheck(b, TRUE) THEN DataPhase(b, "bufrecv")
             ELSE Result(b, FALSE)
  BY <1>4 DEF Begin
<1> HIDE DEF c
<1>7. (IF q.lasttreg[t.us] # c.treg[t.us] THEN t.c ELSE c.treg[t.us]) \in 0 .. LastTrack + 1
  <2>1. c.treg \in [Drives -> 0 .. LastTrack + 1] BY <1>3 DEF Controller
  <2>2. c.treg[t.us] \in 0 .. LastTrack + 1 BY <1>1, <2>1
  <2> QED BY <1>2, <2>2
<1>8. a \in Controller BY <1>3, <1>7 DEF Controller
<1>9. /\ a.asked = t /\ a.us = t.us
      /\ a.stat = q.stat /\ a.istat = q.istat /\ a.timer = q.timer
      /\ a.ctrl = q.ctrl /\ a.media = q.media /\ a.delay = q.delay
      /\ a.next = q.next /\ a.tc = q.tc
  BY <1>3, <1>4, <1>5 DEF Controller
<1> HIDE DEF a
<1>10. b \in Controller BY <1>1, <1>8, AddressFacts DEF Controller
<1>11. /\ b.asked = t /\ b.us = t.us
       /\ b.istat = q.istat /\ b.timer = q.timer
       /\ b.ctrl = q.ctrl /\ b.media = q.media /\ b.delay = q.delay
       /\ b.next = q.next /\ b.tc = q.tc
  BY <1>8, <1>9 DEF Controller
<1>12. b.stat = [a.stat EXCEPT ![t.us] = Address(a)] BY <1>8 DEF Controller
<1>13. a.stat \in [Drives -> {"none", "address", "seek", "attention"}]
  BY <1>8 DEF Controller
<1>14. \A e \in Drives \ {t.us} : b.stat[e] = q.stat[e] BY <1>9, <1>12, <1>13
<1>15. b.stat[t.us] \in {"none", "address"} BY <1>1, <1>12, <1>13, AddressFacts
<1>16. Left(b, q, t.us) BY <1>11, <1>14, <1>15 DEF Left
<1> HIDE DEF b, p
<1>17. Kept(p, b) => Left(p, q, t.us) BY <1>1, <1>16, LeftAfter
<1>18. CASE t.op = "read"
  <2>1. p = ReadSector(b) BY <1>6, <1>18
  <2>2. Transferred(p, b) /\ Matched(p) BY <1>10, <1>11, <1>18, <2>1, ReadSectorFacts
  <2>3. /\ p \in Controller /\ Kept(p, b) /\ p.asked = b.asked
        /\ p.event \in DataPhases \cup {"result"} /\ DataOK(p)
        /\ p.event = "result" => p.armed /\ ~p.tc
        /\ p.event \in DataPhases => p.tc = b.tc
    BY <2>2 DEF Transferred
  <2> QED BY <1>11, <1>17, <2>2, <2>3 DEF p
<1>19. CASE t.op # "read" /\ DriveCheck(b, TRUE)
  <2>1. p = DataPhase(b, "bufrecv") BY <1>6, <1>19
  <2>2. /\ p \in Controller /\ Matched(p) /\ p.event = "bufrecv" /\ p.bufcnt > 0
        /\ Touched(p, b)
    BY <1>10, <2>1, DataPhaseFacts, DataPhaseTouched DEF DataPhases
  <2>3. p.asked = t /\ p.asked.op = "write" /\ Kept(p, b) /\ p.tc = q.tc
    BY <1>1, <1>11, <1>19, <2>2 DEF Touched
  <2>4. DataOK(p) BY <2>2, <2>3 DEF DataOK, DataPhases
  <2> QED BY <1>17, <2>2, <2>3, <2>4 DEF p, DataPhases
<1>20. CASE t.op # "read" /\ ~DriveCheck(b, TRUE)
  <2>1. p = Result(b, FALSE) BY <1>6, <1>20
  <2>2. Transferred(p, b) /\ Matched(p) /\ p.event = "result" /\ p.armed /\ ~p.tc
    BY <1>10, <2>1, ResultTransferred, ResultFacts
  <2>3. p \in Controller /\ Kept(p, b) /\ p.asked = b.asked /\ DataOK(p)
    BY <2>2 DEF Transferred
  <2> QED BY <1>11, <1>17, <2>2, <2>3 DEF p, DataPhases
<1> QED BY <1>18, <1>19, <1>20

\* The command is over.
LEMMA NeutralFacts ==
  ASSUME NEW q \in Controller
  PROVE  LET p == Neutral(q)
         IN /\ p \in Controller /\ Kept(p, q) /\ p.stat = q.stat
            /\ p.event = "neutral" /\ p.asked = NoTransfer
            /\ p.tc = q.tc /\ p.armed = q.armed /\ p.dma = q.dma
<1> DEFINE p == Neutral(q)
<1> DEFINE nothing == <<>>
<1> DEFINE c == [q EXCEPT !.event = "neutral", !.hd = 0, !.r = 1, !.bufcnt = 0]
<1> DEFINE a == [c EXCEPT !.ok = FALSE, !.from = 0, !.asked = NoTransfer,
                          !.bytes = 0, !.moved = nothing]
<1>1. 0 \in Drives /\ 1 \in 1 .. Sectors + 1 /\ 0 \in 0 .. SectorSize
      /\ 0 \in 0 .. CountRange
  BY Sizes DEF Drives
<1>2. nothing \in Seq(Drives \X (0 .. LastTrack) \X {0, 1} \X (1 .. Sectors)) OBVIOUS
<1>3. c \in Controller BY <1>1 DEF Controller, Events
<1>4. /\ c.event = "neutral" /\ c.stat = q.stat /\ c.us = q.us /\ c.istat = q.istat
      /\ c.timer = q.timer /\ c.ctrl = q.ctrl /\ c.media = q.media
  BY DEF Controller
<1>5. /\ c.delay = q.delay /\ c.next = q.next /\ c.tc = q.tc /\ c.armed = q.armed
      /\ c.dma = q.dma
  BY DEF Controller
<1>6. p = a BY DEF Neutral
<1> HIDE DEF c, p, nothing
<1>7. a \in Controller
  <2> DEFINE b == [c EXCEPT !.ok = FALSE, !.from = 0]
  <2>1. b \in Controller BY <1>1, <1>3 DEF Controller
  <2>2. a = [b EXCEPT !.asked = NoTransfer, !.bytes = 0, !.moved = nothing] OBVIOUS
  <2> HIDE DEF b, a
  <2> QED BY <1>1, <1>2, <2>1, <2>2, NoTransferIsTransfer DEF Controller
<1>8. /\ a.event = "neutral" /\ a.stat = q.stat /\ a.us = q.us /\ a.istat = q.istat
      /\ a.timer = q.timer /\ a.ctrl = q.ctrl /\ a.media = q.media
  BY <1>3, <1>4 DEF Controller
<1>9. /\ a.delay = q.delay /\ a.next = q.next /\ a.tc = q.tc /\ a.armed = q.armed
      /\ a.dma = q.dma /\ a.asked = NoTransfer
  BY <1>3, <1>5 DEF Controller
<1> HIDE DEF a
<1>10. Kept(a, q) BY <1>8, <1>9 DEF Kept
<1> QED BY <1>6, <1>7, <1>8, <1>9, <1>10 DEF p

\* The statuses of the drives that were sensed are gone.
LEMMA AfterSenseFacts ==
  ASSUME NEW q \in Controller, NEW drives \in SUBSET Drives
  PROVE  LET p == AfterSense(q, drives)
         IN /\ p \in Controller
            /\ p.event = q.event /\ p.asked = q.asked /\ p.us = q.us
            /\ p.r = q.r /\ p.bufcnt = q.bufcnt /\ p.dma = q.dma /\ p.tc = q.tc
            /\ p.istat = q.istat /\ p.timer = q.timer /\ p.armed = q.armed
            /\ \A d \in Drives : p.stat[d] = IF d \in drives THEN "none" ELSE q.stat[d]
<1> DEFINE p == AfterSense(q, drives)
<1> DEFINE ctrl == IF drives = {} THEN q.ctrl ELSE q.ctrl \cup {"motor"}
<1> DEFINE stat == [d \in Drives |-> IF d \in drives THEN "none" ELSE q.stat[d]]
<1>1. ctrl \in SUBSET {"motor", "dmae", "reset"} BY DEF Controller
<1>2. stat \in [Drives -> {"none", "address", "seek", "attention"}]
  BY DEF Controller
<1>3. \A d \in Drives : stat[d] = IF d \in drives THEN "none" ELSE q.stat[d]
  OBVIOUS
<1>4. p = [q EXCEPT !.stat = stat, !.ctrl = ctrl] BY DEF AfterSense, Controller
<1> HIDE DEF stat, ctrl, p
<1>5. p \in Controller BY <1>1, <1>2, <1>4 DEF Controller
<1>6. /\ p.event = q.event /\ p.asked = q.asked /\ p.us = q.us
      /\ p.r = q.r /\ p.bufcnt = q.bufcnt /\ p.dma = q.dma /\ p.tc = q.tc
  BY <1>4 DEF Controller
<1>7. p.istat = q.istat /\ p.timer = q.timer /\ p.armed = q.armed /\ p.stat = stat
  BY <1>4 DEF Controller
<1> QED BY <1>3, <1>5, <1>6, <1>7 DEF p

\* The drive that a sense speaks of is one that has something to tell.
LEMMA SensedFacts ==
  ASSUME NEW q \in Controller, Pending(q) # {}
  PROVE  Sensed(q) \in Pending(q)
<1> DEFINE P == Pending(q)
<1>1. P \subseteq Nat BY Sizes DEF Pending, Drives
<1>2. PICK d \in P : \A e \in P : ~(<<e, d>> \in OpToRel(<, Nat))
  BY <1>1, WFMin, NatLessThanWellFounded, Zenon
<1>3. \A e \in P : ~(e < d) BY <1>1, <1>2 DEF OpToRel
<1>4. d \in Drives /\ q.stat[d] # "none" BY DEF Pending
<1>5. \A e \in 0 .. d - 1 : q.stat[e] = "none"
  <2> SUFFICES ASSUME NEW e \in 0 .. d - 1, q.stat[e] # "none" PROVE FALSE OBVIOUS
  <2>1. d \in 0 .. LastDrive /\ LastDrive \in Nat BY <1>4, Sizes DEF Drives
  <2>2. e \in Drives /\ e < d BY <2>1 DEF Drives
  <2>3. e \in P BY <2>2 DEF Pending
  <2> QED BY <1>3, <2>2, <2>3
<1>6. CASE q.stat[q.us] # "none"
  <2>1. q.us \in Drives BY DEF Controller
  <2> QED BY <1>6, <2>1 DEF Sensed, Pending
<1>7. CASE q.stat[q.us] = "none"
  <2>1. \E x \in Drives : q.stat[x] # "none" /\ \A e \in 0 .. x - 1 : q.stat[e] = "none"
    BY <1>4, <1>5
  <2>2. Sensed(q) \in Drives /\ q.stat[Sensed(q)] # "none"
    BY <1>7, <2>1 DEF Sensed
  <2> QED BY <2>2 DEF Pending
<1> QED BY <1>6, <1>7

\* READ ID goes to the next sector, head and track.
LEMMA NextIdFacts ==
  ASSUME NEW q \in Controller, NEW mt \in BOOLEAN, q.treg[q.us] <= LastTrack
  PROVE  NextId(q, mt) \in Controller /\ Kept(NextId(q, mt), q)
         /\ NextId(q, mt).stat = q.stat
<1> DEFINE over == q.crcn >= Sectors
<1> DEFINE turns == over /\ mt
<1> DEFINE steps == over /\ (~mt \/ q.hd = 1)
<1> DEFINE crcn == IF over THEN 1 ELSE q.crcn + 1
<1> DEFINE hd == IF turns THEN 1 - q.hd ELSE q.hd
<1> DEFINE trk == IF steps THEN q.treg[q.us] + 1 ELSE q.treg[q.us]
<1> DEFINE p == [q EXCEPT !.crcn = crcn, !.hd = hd, !.treg[q.us] = trk]
<1>1. q.crcn \in 0 .. Sectors /\ q.hd \in {0, 1} /\ q.us \in Drives
      /\ q.treg \in [Drives -> 0 .. LastTrack + 1]
  BY DEF Controller
<1>2. crcn \in 0 .. Sectors BY <1>1, Sizes
<1>3. hd \in {0, 1} BY <1>1
<1>4. q.treg[q.us] \in 0 .. LastTrack + 1 BY <1>1
<1>5. trk \in 0 .. LastTrack + 1 BY <1>4, Sizes
<1>6. NextId(q, mt) = p BY DEF NextId
<1> HIDE DEF crcn, hd, trk
<1>7. p \in Controller BY <1>1, <1>2, <1>3, <1>5 DEF Controller
<1>8. Kept(p, q) /\ p.stat = q.stat BY <1>1 DEF Kept, Controller
<1> QED BY <1>6, <1>7, <1>8

\* The status of a seek is set aside.
LEMMA SetAsideFacts ==
  ASSUME NEW q \in Controller, NEW d \in Drives
  PROVE  LET p == SetAside(q, d, "seek")
         IN /\ p \in Controller
            /\ p.event = q.event /\ p.asked = q.asked /\ p.us = q.us
            /\ p.r = q.r /\ p.bufcnt = q.bufcnt /\ p.dma = q.dma /\ p.tc = q.tc
            /\ p.stat = q.stat /\ p.armed = q.armed
            /\ p.timer[d] = IntDelay /\ p.istat[d] = "seek"
            /\ \A e \in Drives \ {d} :
                 p.timer[e] = q.timer[e] /\ p.istat[e] = q.istat[e]
<1> DEFINE p == SetAside(q, d, "seek")
<1>1. IntDelay \in 0 .. IntDelay BY Sizes
<1>2. p \in Controller BY <1>1 DEF SetAside, Controller
<1>3. /\ p.event = q.event /\ p.asked = q.asked /\ p.us = q.us
      /\ p.r = q.r /\ p.bufcnt = q.bufcnt /\ p.dma = q.dma /\ p.tc = q.tc
      /\ p.stat = q.stat /\ p.armed = q.armed
  BY DEF SetAside, Controller
<1>4. p.timer[d] = IntDelay /\ p.istat[d] = "seek" BY DEF SetAside, Controller
<1>5. \A e \in Drives \ {d} : p.timer[e] = q.timer[e] /\ p.istat[e] = q.istat[e]
  BY DEF SetAside, Controller
<1> QED BY <1>2, <1>3, <1>4, <1>5

\* The largest number of a set of drives.
LEMMA MaxDrive ==
  ASSUME NEW S \in SUBSET Drives, S # {}
  PROVE  Max(S) \in Drives
<1> DEFINE D == {LastDrive - d : d \in S}
<1>1. LastDrive \in Nat /\ \A d \in S : d \in 0 .. LastDrive BY Sizes DEF Drives
<1>2. D \subseteq Nat /\ D # {} BY <1>1
<1> HIDE DEF D
<1>3. PICK n \in D : \A k \in D : ~(<<k, n>> \in OpToRel(<, Nat))
  BY <1>2, WFMin, NatLessThanWellFounded, Zenon
<1>4. \A k \in D : ~(k < n) BY <1>2, <1>3 DEF OpToRel
<1>5. PICK d \in S : n = LastDrive - d BY <1>3 DEF D
<1>6. \A e \in S : LastDrive - e \in D BY DEF D
<1>7. \A e \in S : d >= e BY <1>1, <1>4, <1>5, <1>6
<1>8. Max(S) \in S BY <1>7 DEF Max
<1> QED BY <1>8

\* The disks that are in now.
LEMMA DiskDelaysFacts ==
  ASSUME NEW q \in Controller
  PROVE  LET p == DiskDelays(q)
         IN /\ p \in Controller
            /\ p.event = q.event /\ p.asked = q.asked
            /\ p.r = q.r /\ p.bufcnt = q.bufcnt /\ p.dma = q.dma /\ p.tc = q.tc
            /\ p.istat = q.istat /\ p.timer = q.timer
            /\ p.armed = (q.armed \/ Heard(q) # {})
            /\ \A d \in Drives :
                 p.stat[d] = IF d \in Heard(q) THEN "attention" ELSE q.stat[d]
<1> DEFINE heard == Heard(q)
<1> DEFINE delay == [d \in Drives |-> IF q.delay[d] = 0 THEN 0 ELSE q.delay[d] - 1]
<1> DEFINE media == [d \in Drives |->
                       IF d \in {e \in Drives : q.delay[e] = 1} THEN q.next[d]
                       ELSE q.media[d]]
<1> DEFINE stat == [d \in Drives |-> IF d \in heard THEN "attention" ELSE q.stat[d]]
<1> DEFINE us == IF heard = {} THEN q.us ELSE Max(heard)
<1> DEFINE armed == q.armed \/ heard # {}
<1> DEFINE p == DiskDelays(q)
<1>1. heard \in SUBSET Drives BY DEF Heard
<1>2. /\ q.us \in Drives /\ q.delay \in [Drives -> 0 .. DiskDelay]
      /\ q.next \in [Drives -> Media] /\ q.media \in [Drives -> Media \cup {"none"}]
      /\ q.stat \in [Drives -> {"none", "address", "seek", "attention"}]
      /\ q.armed \in BOOLEAN
  BY DEF Controller
<1>3. p = [q EXCEPT !.delay = delay, !.media = media, !.stat = stat, !.us = us,
                    !.armed = armed]
  BY DEF DiskDelays
<1> HIDE DEF heard
<1>4. delay \in [Drives -> 0 .. DiskDelay]
  <2>1. \A d \in Drives : q.delay[d] \in 0 .. DiskDelay BY <1>2
  <2>2. \A d \in Drives : (IF q.delay[d] = 0 THEN 0 ELSE q.delay[d] - 1) \in 0 .. DiskDelay
    BY <2>1, Sizes
  <2> QED BY <2>2
<1>5. media \in [Drives -> Media \cup {"none"}] BY <1>2
<1>6. stat \in [Drives -> {"none", "address", "seek", "attention"}] BY <1>2
<1>7. us \in Drives BY <1>1, <1>2, MaxDrive
<1>8. armed \in BOOLEAN BY <1>2
<1>9. \A d \in Drives : stat[d] = IF d \in heard THEN "attention" ELSE q.stat[d]
  OBVIOUS
<1> HIDE DEF delay, media, stat, us, p
<1>10. /\ p.event = q.event /\ p.asked = q.asked
       /\ p.r = q.r /\ p.bufcnt = q.bufcnt /\ p.dma = q.dma /\ p.tc = q.tc
       /\ p.istat = q.istat /\ p.timer = q.timer
       /\ p.stat = stat
  BY <1>3 DEF Controller
<1>11. p.armed = armed
  <2> HIDE DEF armed
  <2> QED BY <1>3 DEF Controller
<1>12. p \in Controller
  <2> DEFINE s == [q EXCEPT !.delay = delay, !.media = media, !.stat = stat]
  <2> DEFINE u == [s EXCEPT !.us = us]
  <2>1. s \in Controller BY <1>4, <1>5, <1>6 DEF Controller
  <2>2. p = [u EXCEPT !.armed = armed] BY <1>3
  <2> HIDE DEF s, armed
  <2>3. u \in Controller BY <1>7, <2>1 DEF Controller
  <2> HIDE DEF u
  <2>4. [u EXCEPT !.armed = armed] \in Controller BY <1>8, <2>3 DEF Controller
  <2> QED BY <2>2, <2>4
<1> QED BY <1>9, <1>10, <1>11, <1>12 DEF p, heard

\* The seeks that are reported now.
LEMMA SeekDelaysFacts ==
  ASSUME NEW q \in Controller
  PROVE  LET p == SeekDelays(q)
         IN /\ p \in Controller
            /\ p.event = q.event /\ p.asked = q.asked /\ p.us = q.us
            /\ p.r = q.r /\ p.bufcnt = q.bufcnt /\ p.dma = q.dma /\ p.tc = q.tc
            /\ p.istat = q.istat
            /\ p.armed = (q.armed \/ \E d \in Drives : q.timer[d] = 1)
            /\ \A d \in Drives :
                 /\ p.stat[d] = IF q.timer[d] = 1 THEN q.istat[d] ELSE q.stat[d]
                 /\ q.timer[d] > 1 => p.timer[d] > 0
<1> DEFINE due == {d \in Drives : q.timer[d] = 1}
<1> DEFINE timer == [d \in Drives |-> IF q.timer[d] = 0 THEN 0 ELSE q.timer[d] - 1]
<1> DEFINE stat == [d \in Drives |-> IF d \in due THEN q.istat[d] ELSE q.stat[d]]
<1> DEFINE armed == q.armed \/ due # {}
<1> DEFINE p == SeekDelays(q)
<1>1. /\ q.timer \in [Drives -> 0 .. IntDelay]
      /\ q.stat \in [Drives -> {"none", "address", "seek", "attention"}]
      /\ q.istat \in [Drives -> {"none", "address", "seek", "attention"}]
      /\ q.armed \in BOOLEAN
  BY DEF Controller
<1>2. p = [q EXCEPT !.timer = timer, !.stat = stat, !.armed = armed]
  BY DEF SeekDelays
<1>3. \A d \in Drives : q.timer[d] \in 0 .. IntDelay BY <1>1
<1>4. timer \in [Drives -> 0 .. IntDelay]
  <2>1. \A d \in Drives : (IF q.timer[d] = 0 THEN 0 ELSE q.timer[d] - 1) \in 0 .. IntDelay
    BY <1>3, Sizes
  <2> QED BY <2>1
<1>5. stat \in [Drives -> {"none", "address", "seek", "attention"}] BY <1>1
<1>6. armed \in BOOLEAN BY <1>1
<1>7. \A d \in Drives :
        /\ stat[d] = IF q.timer[d] = 1 THEN q.istat[d] ELSE q.stat[d]
        /\ q.timer[d] > 1 => timer[d] > 0
  <2>1. \A d \in Drives : q.timer[d] > 1 => timer[d] > 0 BY <1>3, Sizes
  <2> QED BY <2>1
<1>8. armed = (q.armed \/ \E d \in Drives : q.timer[d] = 1)
  <2>1. due # {} <=> \E d \in Drives : q.timer[d] = 1 OBVIOUS
  <2> HIDE DEF due
  <2> QED BY <2>1
<1> HIDE DEF timer, stat, armed, p
<1>9. /\ p.event = q.event /\ p.asked = q.asked /\ p.us = q.us
      /\ p.r = q.r /\ p.bufcnt = q.bufcnt /\ p.dma = q.dma /\ p.tc = q.tc
      /\ p.istat = q.istat /\ p.stat = stat /\ p.timer = timer /\ p.armed = armed
  BY <1>2 DEF Controller
<1>10. p \in Controller BY <1>2, <1>4, <1>5, <1>6 DEF Controller
<1> QED BY <1>7, <1>8, <1>9, <1>10 DEF p

-----------------------------------------------------------------------------
(***************************************************************************)
(* The inductive invariant.                                                *)
(***************************************************************************)

\* The data phase has bytes to come, of the transfer that was asked for; no guest
\* that writes resets the controller.
TransferInv ==
  /\ DataOK(fdc)
  /\ fdc.asked \in setup.transfers \cup {NoTransfer}
  /\ "reset" \in upset => setup.ports \cap {"dmae", "reset"} # {}

MatchedInv == "reset" \notin upset => Matched(fdc) /\ ~fdc.tc

\* A result, like a status, comes with an interrupt: one that is read before may
\* leave the status of a drive behind.
AnnouncedInv ==
  "reset" \notin upset =>
    /\ fdc.event = "result" => fdc.armed \/ irq
    /\ (\E d \in Drives : fdc.stat[d] \in Announced)
         => fdc.armed \/ irq \/ fdc.event # "neutral"

\* A command is for a drive that is not sought, and what is set aside for one that
\* is has something to tell.
SeekInv ==
  upset \cap {"changed", "reset"} = {} =>
    /\ fdc.event # "neutral" => fdc.us \notin owed
    /\ \A d \in Drives : fdc.timer[d] > 0 => fdc.istat[d] \in Announced
    /\ \A d \in owed : fdc.timer[d] > 0 \/ fdc.stat[d] \in Announced

\* While int 1Bh waits, the bit of its drive says that what it has shown was read;
\* what was not read is there.  Its rounds are counted for this call.
WaitInv ==
  /\ waiting => fdc.event \notin DataPhases
  /\ ~waiting => timeout = 0 /\ shown = "nothing"
  /\ timeout > 0 => setup.vm86
  /\ waiting /\ "changed" \notin upset =>
       /\ fdc.us \in diskInt => shown = "nothing"
       /\ shown = "result" => fdc.event = "result"
       /\ shown = "seek" => fdc.event = "neutral"

IInv == TypeOK /\ TransferInv /\ MatchedInv /\ AnnouncedInv /\ SeekInv /\ WaitInv

LEMMA TypeFacts ==
  ASSUME TypeOK
  PROVE  /\ fdc \in Controller /\ setup \in Setup /\ setup \in Setups
         /\ irq \in BOOLEAN /\ waiting \in BOOLEAN
      /\ timeout \in 0 .. WaitLimit + 1
         /\ diskInt \subseteq Drives /\ owed \subseteq Drives /\ upset \subseteq Upsets
         /\ at \in [Drives -> 0 .. LastTrack]
         /\ fdc.event \in Events /\ fdc.us \in Drives
         /\ fdc.stat \in [Drives -> {"none", "address", "seek", "attention"}]
         /\ fdc.istat \in [Drives -> {"none", "address", "seek", "attention"}]
         /\ fdc.timer \in [Drives -> 0 .. IntDelay]
<1>1. fdc \in Controller /\ setup \in Setup /\ setup \in Setups
      /\ irq \in BOOLEAN /\ waiting \in BOOLEAN
      /\ timeout \in 0 .. WaitLimit + 1
      /\ diskInt \subseteq Drives /\ owed \subseteq Drives /\ upset \subseteq Upsets
      /\ at \in [Drives -> 0 .. LastTrack]
  BY FdcAssumption DEF TypeOK
<1>2. /\ fdc.event \in Events /\ fdc.us \in Drives
      /\ fdc.stat \in [Drives -> {"none", "address", "seek", "attention"}]
      /\ fdc.istat \in [Drives -> {"none", "address", "seek", "attention"}]
      /\ fdc.timer \in [Drives -> 0 .. IntDelay]
  BY <1>1 DEF Controller
<1> QED BY <1>1, <1>2

\* What a guest that writes does not do.
LEMMA WriterDoesNotReset ==
  ASSUME TypeOK, TransferInv, fdc.asked.op = "write"
  PROVE  "reset" \notin upset
<1>1. fdc.asked \in setup.transfers BY DEF TransferInv, NoTransfer
<1>2. setup \in Setups BY DEF TypeOK
<1>3. {"dmae", "reset"} \cap setup.ports # {} => \A t \in setup.transfers : t.op = "read"
  BY <1>2, FdcAssumption
<1>4. {"dmae", "reset"} \cap setup.ports = {} BY <1>1, <1>3
<1> QED BY <1>4 DEF TransferInv

\* A step that leaves int 1Bh and its drive alone.
LEMMA CallStays ==
  ASSUME WaitInv, fdc'.event = fdc.event,
         waiting => fdc'.us = fdc.us \/ "changed" \in upset',
         UNCHANGED <<waiting, timeout, shown, diskInt, setup>>,
         upset \subseteq upset'
  PROVE  WaitInv'
BY DEF WaitInv

\* A step while int 1Bh does not wait.
LEMMA NoCall ==
  ASSUME WaitInv, ~waiting, UNCHANGED <<waiting, timeout, shown, setup>>
  PROVE  WaitInv'
BY DEF WaitInv

LEMMA KeptAfter ==
  ASSUME NEW q \in Controller, NEW s, NEW p, Kept(s, q), Kept(p, s)
  PROVE  Kept(p, q)
<1>1. q.us \in Drives BY DEF Controller
<1> QED BY <1>1 DEF Kept

\* A step of a transfer, by a byte or by the handler.
LEMMA TransferStep ==
  ASSUME IInv, TypeOK',
         Kept(fdc', fdc), fdc'.asked = fdc.asked,
         fdc.event \in DataPhases, fdc'.event \in DataPhases \cup {"result"},
         DataOK(fdc'), "reset" \notin upset => Matched(fdc') /\ ~fdc'.tc,
         fdc'.event = "result" => fdc'.armed,
         upset' \in {upset, upset \cup {"stolen"}},
         UNCHANGED <<waiting, timeout, shown, diskInt, owed, setup>>
  PROVE  IInv'
<1>1. /\ fdc.us \in Drives /\ fdc'.us \in Drives
      /\ fdc'.us = fdc.us /\ fdc'.istat = fdc.istat /\ fdc'.timer = fdc.timer
      /\ \A d \in Drives \ {fdc.us} : fdc'.stat[d] = fdc.stat[d]
      /\ fdc'.stat[fdc.us] \in {"none", "address", fdc.stat[fdc.us]}
  BY TypeFacts DEF IInv, Kept
<1>2. \A x \in {"reset", "changed"} : x \in upset' <=> x \in upset OBVIOUS
<1>3. fdc.event # "neutral" /\ fdc'.event # "neutral" BY DEF DataPhases
<1>4. TransferInv' BY <1>2 DEF IInv, TransferInv
<1>5. MatchedInv' BY <1>2 DEF MatchedInv
<1>6. AnnouncedInv' BY <1>3 DEF AnnouncedInv
<1>7. SeekInv'
  <2> SUFFICES ASSUME (upset \cap {"changed", "reset"} = {})'
               PROVE  /\ (fdc.event # "neutral" => fdc.us \notin owed)'
                      /\ \A d \in Drives : fdc'.timer[d] > 0 => fdc'.istat[d] \in Announced
                      /\ \A d \in owed : fdc'.timer[d] > 0 \/ fdc'.stat[d] \in Announced
    BY DEF SeekInv
  <2>1. upset \cap {"changed", "reset"} = {} BY <1>2
  <2>2. /\ fdc.us \notin owed
        /\ \A d \in Drives : fdc.timer[d] > 0 => fdc.istat[d] \in Announced
        /\ \A d \in owed : fdc.timer[d] > 0 \/ fdc.stat[d] \in Announced
    BY <1>3, <2>1 DEF IInv, SeekInv
  <2>3. owed \subseteq Drives BY TypeFacts DEF IInv
  <2> QED BY <1>1, <2>2, <2>3
<1>8. WaitInv'
  <2>1. WaitInv /\ ~waiting BY DEF IInv, WaitInv
  <2> QED BY <2>1, NoCall
<1> QED BY <1>4, <1>5, <1>6, <1>7, <1>8 DEF IInv

\* A command for drive d that goes into a data phase or the result.
LEMMA CommandStep ==
  ASSUME IInv, TypeOK', NEW d \in Drives, d \notin owed, ~waiting,
         Left(fdc', fdc, d), fdc'.asked \in setup.transfers \cup {NoTransfer},
         fdc'.event \in DataPhases \cup {"result"}, DataOK(fdc'),
         "reset" \notin upset => Matched(fdc') /\ ~fdc'.tc,
         fdc'.event = "result" => fdc'.armed,
         upset' \in {upset, upset \cup {"stepped"}},
         UNCHANGED <<timeout, owed, setup>>,
         \/ UNCHANGED <<waiting, shown>>
         \/ /\ waiting' = TRUE /\ shown' = "result" /\ diskInt' = diskInt \ {d}
            /\ fdc'.event = "result"
  PROVE  IInv'
<1>1. /\ fdc'.us = d /\ fdc'.istat = fdc.istat /\ fdc'.timer = fdc.timer
      /\ \A e \in Drives \ {d} : fdc'.stat[e] = fdc.stat[e]
      /\ fdc'.stat[d] \in {"none", "address", fdc.stat[d]}
  BY DEF Left
<1>2. \A x \in {"reset", "changed"} : x \in upset' <=> x \in upset OBVIOUS
<1>3. fdc'.event # "neutral" BY DEF DataPhases
<1>4. TransferInv' BY <1>2 DEF IInv, TransferInv
<1>5. MatchedInv' BY <1>2 DEF MatchedInv
<1>6. AnnouncedInv' BY <1>3 DEF AnnouncedInv
<1>7. SeekInv'
  <2> SUFFICES ASSUME (upset \cap {"changed", "reset"} = {})'
               PROVE  /\ (fdc.event # "neutral" => fdc.us \notin owed)'
                      /\ \A e \in Drives : fdc'.timer[e] > 0 => fdc'.istat[e] \in Announced
                      /\ \A e \in owed : fdc'.timer[e] > 0 \/ fdc'.stat[e] \in Announced
    BY DEF SeekInv
  <2>1. upset \cap {"changed", "reset"} = {} BY <1>2
  <2>2. /\ \A e \in Drives : fdc.timer[e] > 0 => fdc.istat[e] \in Announced
        /\ \A e \in owed : fdc.timer[e] > 0 \/ fdc.stat[e] \in Announced
    BY <2>1 DEF IInv, SeekInv
  <2>3. owed \subseteq Drives BY TypeFacts DEF IInv
  <2> QED BY <1>1, <2>2, <2>3
<1>8. WaitInv'
  <2>1. WaitInv /\ timeout = 0 BY DEF IInv, WaitInv
  <2>2. CASE UNCHANGED <<waiting, shown>> BY <2>1, <2>2, NoCall
  <2>3. CASE /\ waiting' = TRUE /\ shown' = "result" /\ diskInt' = diskInt \ {d}
             /\ fdc'.event = "result"
    <3>1. fdc'.us \notin diskInt' /\ fdc'.event \notin DataPhases
      BY <1>1, <2>3 DEF DataPhases
    <3> QED BY <2>1, <2>3, <3>1 DEF WaitInv
  <2> QED BY <2>2, <2>3
<1> QED BY <1>4, <1>5, <1>6, <1>7, <1>8 DEF IInv

LEMMA InitLemma == Init => IInv
<1> SUFFICES ASSUME Init PROVE IInv OBVIOUS
<1> DEFINE nothing == <<>>
<1>1. PICK m \in setup.media \cup {"none"} :
       fdc = [event |-> "neutral", us |-> 0, hd |-> 0, r |-> 1, bufcnt |-> 0,
              tc |-> FALSE, ok |-> FALSE, from |-> 0, crcn |-> 0,
              treg |-> [d \in Drives |-> 0], lasttreg |-> [d \in Drives |-> 0],
              stat |-> [d \in Drives |-> "none"],
              istat |-> [d \in Drives |-> "none"],
              timer |-> [d \in Drives |-> 0], armed |-> FALSE, ctrl |-> {},
              dma |-> ChannelReset, media |-> [d \in Drives |-> m],
              delay |-> [d \in Drives |-> 0],
              next |-> [d \in Drives |-> "writable"],
              asked |-> NoTransfer, bytes |-> 0, moved |-> nothing]
  BY DEF Init
<1>2. setup \in Setups /\ irq = FALSE /\ diskInt = {}
      /\ waiting = FALSE /\ timeout = 0 /\ shown = "nothing"
      /\ at = [d \in Drives |-> 0] /\ owed = {} /\ upset = {}
  BY DEF Init
<1>3. 0 \in Drives /\ 1 \in 1 .. Sectors + 1 /\ 0 \in 0 .. SectorSize
      /\ 0 \in 0 .. CountRange /\ 0 \in 0 .. CountRange - 1 /\ 0 \in 0 .. Sectors
      /\ 0 \in 0 .. LastTrack /\ 0 \in 0 .. LastTrack + 1
      /\ 0 \in 0 .. IntDelay /\ 0 \in 0 .. DiskDelay
  BY Sizes DEF Drives
<1>4. nothing \in Seq(Drives \X (0 .. LastTrack) \X {0, 1} \X (1 .. Sectors)) OBVIOUS
<1>5. ChannelReset \in Channel BY <1>3 DEF ChannelReset, Channel
<1>6. m \in Media \cup {"none"} BY <1>2, FdcAssumption DEF Setup
<1>7. [d \in Drives |-> m] \in [Drives -> Media \cup {"none"}] BY <1>6
<1> HIDE DEF nothing
<1>8. fdc \in Controller
  BY <1>1, <1>3, <1>4, <1>5, <1>7, NoTransferIsTransfer DEF Controller, Events, Media
<1>9. TypeOK
  <2>1. 0 \in 0 .. WaitLimit + 1 BY Sizes
  <2> QED BY <1>2, <1>3, <1>8, <2>1 DEF TypeOK
<1>10. fdc.event = "neutral" /\ fdc.asked = NoTransfer /\ fdc.dma = ChannelReset
       /\ fdc.tc = FALSE
  BY <1>1
<1>11. fdc.stat = [d \in Drives |-> "none"] /\ fdc.istat = [d \in Drives |-> "none"]
  BY <1>1
<1>12. TransferInv BY <1>2, <1>10 DEF TransferInv, DataOK, DataPhases
<1>13. MatchedInv BY <1>10 DEF MatchedInv, Matched, ChannelReset, DataPhases
<1>14. AnnouncedInv BY <1>10, <1>11 DEF AnnouncedInv, Announced
<1>15. SeekInv
  <2>1. fdc.timer = [d \in Drives |-> 0] BY <1>1
  <2>2. \A d \in Drives : ~(fdc.timer[d] > 0) BY <2>1
  <2> QED BY <1>2, <1>10, <2>2 DEF SeekInv
<1>16. WaitInv BY <1>2 DEF WaitInv
<1> QED BY <1>9, <1>12, <1>13, <1>14, <1>15, <1>16 DEF IInv

-----------------------------------------------------------------------------
(***************************************************************************)
(* The machine's steps.                                                    *)
(***************************************************************************)

\* A byte by DMA.
LEMMA DmaByteStep ==
  ASSUME IInv, DmaByte, UNCHANGED setup
  PROVE  IInv'
<1> DEFINE q == [fdc EXCEPT !.dma = Step(@), !.tc = @ \/ Terminal(fdc.dma)]
<1>1. /\ fdc \in Controller /\ fdc.us \in Drives /\ fdc.event \in Events
      /\ TypeOK /\ TransferInv /\ DataOK(fdc)
  BY TypeFacts DEF IInv, TransferInv
<1>2. /\ fdc.dma.working
      /\ fdc' = IF fdc.asked.op = "read" THEN DataRead(q) ELSE DataWrite(q)
      /\ UNCHANGED <<irq, diskInt, waiting, timeout, shown, at, owed, upset>>
  BY DEF DmaByte, history, call
<1>3. fdc.dma \in Channel /\ fdc.tc \in BOOLEAN /\ fdc.asked.op \in {"read", "write"}
  BY <1>1 DEF Controller, Transfer
<1>4. Step(fdc.dma) \in Channel /\ Step(fdc.dma).ready = fdc.dma.ready
      /\ (Step(fdc.dma).working => fdc.dma.working)
  BY <1>3, ChannelFacts
<1>5. q \in Controller
  <2> DEFINE tc == fdc.tc \/ Terminal(fdc.dma)
  <2>1. tc \in BOOLEAN OBVIOUS
  <2> DEFINE s == [fdc EXCEPT !.dma = Step(fdc.dma)]
  <2>2. s \in Controller BY <1>1, <1>4 DEF Controller
  <2>3. s.tc = fdc.tc BY <1>1 DEF Controller
  <2>4. q = [s EXCEPT !.tc = tc] BY <2>3
  <2> HIDE DEF s, tc, q
  <2> QED BY <2>1, <2>2, <2>4 DEF Controller
<1>6. /\ q.event = fdc.event /\ q.asked = fdc.asked /\ q.bufcnt = fdc.bufcnt
      /\ q.r = fdc.r /\ q.dma = Step(fdc.dma) /\ q.armed = fdc.armed
      /\ Kept(q, fdc)
  BY <1>1 DEF Controller, Kept
<1> HIDE DEF q
<1>7. DataOK(q) BY <1>1, <1>6 DEF DataOK
<1>8. Matched(fdc) => Matched(q) BY <1>4, <1>6 DEF Matched
<1>9. UNCHANGED <<diskInt, waiting, timeout, shown, owed, upset, setup>> /\ (fdc' \in Controller => TypeOK')
  BY <1>1, <1>2 DEF TypeOK
<1>10. CASE Transferred(fdc', q) /\ ~fdc'.tc /\ (Matched(q) => Matched(fdc'))
            /\ fdc.event \in DataPhases
  <2>1. /\ fdc' \in Controller /\ Kept(fdc', q) /\ fdc'.asked = fdc.asked
        /\ fdc'.event \in DataPhases \cup {"result"} /\ DataOK(fdc')
        /\ fdc'.event = "result" => fdc'.armed
    BY <1>6, <1>10 DEF Transferred
  <2>2. Kept(fdc', fdc) BY <1>1, <1>6, <2>1, KeptAfter
  <2>3. "reset" \notin upset => Matched(fdc') /\ ~fdc'.tc
    BY <1>8, <1>10 DEF IInv, MatchedInv
  <2> QED BY <1>9, <1>10, <2>1, <2>2, <2>3, TransferStep
<1>11. CASE "reset" \in upset /\ fdc' = q
  <2>1. TypeOK' BY <1>5, <1>9, <1>11
  <2>2. TransferInv' BY <1>1, <1>6, <1>7, <1>9, <1>11 DEF TransferInv
  <2>3. MatchedInv' /\ AnnouncedInv' /\ SeekInv'
    BY <1>9, <1>11 DEF MatchedInv, AnnouncedInv, SeekInv
  <2>4. WaitInv'
    <3>1. fdc'.us = fdc.us /\ fdc'.event = fdc.event BY <1>6, <1>11 DEF Kept
    <3> QED BY <1>9, <3>1, CallStays DEF IInv
  <2> QED BY <2>1, <2>2, <2>3, <2>4 DEF IInv
<1>12. CASE fdc.asked.op = "write"
  <2>1. "reset" \notin upset BY <1>1, <1>12, WriterDoesNotReset
  <2>2. fdc.event \in DataPhases BY <1>2, <2>1 DEF IInv, MatchedInv, Matched
  <2>3. fdc.event = "bufrecv" BY <1>1, <1>12, <2>2 DEF DataOK, DataPhases
  <2>4. fdc' = DataWrite(q) BY <1>2, <1>12
  <2>5. Transferred(fdc', q) /\ ~fdc'.tc /\ (Matched(q) => Matched(fdc'))
    BY <1>5, <1>6, <1>7, <2>3, <2>4, DataWriteFacts
  <2> QED BY <1>10, <2>2, <2>5
<1>13. CASE fdc.asked.op = "read" /\ fdc.event = "bufsend2"
  <2>1. fdc' = DataRead(q) BY <1>2, <1>13
  <2>2. Transferred(fdc', q) /\ ~fdc'.tc /\ (Matched(q) => Matched(fdc'))
    BY <1>5, <1>6, <1>7, <1>13, <2>1, DataReadFacts
  <2> QED BY <1>10, <1>13, <2>2 DEF DataPhases
<1>14. CASE fdc.asked.op = "read" /\ fdc.event # "bufsend2"
  <2>1. fdc' = DataRead(q) BY <1>2, <1>14
  <2>2. fdc' = q BY <1>5, <1>6, <1>7, <1>14, <2>1, DataReadFacts
  <2>3. fdc.event \notin DataPhases BY <1>1, <1>14 DEF DataOK, DataPhases
  <2>4. "reset" \in upset BY <1>2, <2>3 DEF IInv, MatchedInv, Matched
  <2> QED BY <1>11, <2>2, <2>4
<1> QED BY <1>3, <1>12, <1>13, <1>14

\* The interrupt arrives.
LEMMA InterruptStep ==
  ASSUME IInv, Interrupt, UNCHANGED setup
  PROVE  IInv'
<1>1. fdc \in Controller /\ TypeOK BY TypeFacts DEF IInv
<1>2. fdc' = [fdc EXCEPT !.armed = FALSE] /\ irq' = TRUE
      /\ UNCHANGED <<diskInt, waiting, timeout, shown, at, owed, upset, setup>>
  BY DEF Interrupt, history, call
<1>3. fdc' \in Controller BY ZenonT(60), <1>1, <1>2 DEF Controller
<1>4. /\ fdc'.event = fdc.event /\ fdc'.asked = fdc.asked /\ fdc'.us = fdc.us
      /\ fdc'.r = fdc.r /\ fdc'.bufcnt = fdc.bufcnt /\ fdc'.dma = fdc.dma
      /\ fdc'.tc = fdc.tc /\ fdc'.istat = fdc.istat /\ fdc'.timer = fdc.timer
      /\ fdc'.stat = fdc.stat
  BY <1>1, <1>2 DEF Controller
<1>5. TypeOK' BY <1>1, <1>2, <1>3 DEF TypeOK
<1>6. TransferInv' BY <1>2, <1>4 DEF IInv, TransferInv, DataOK
<1>7. MatchedInv' BY <1>2, <1>4 DEF IInv, MatchedInv, Matched
<1>8. AnnouncedInv' BY <1>2 DEF AnnouncedInv
<1>9. SeekInv' BY <1>2, <1>4 DEF IInv, SeekInv
<1>10. WaitInv' BY <1>2, <1>4, CallStays DEF IInv
<1> QED BY <1>5, <1>6, <1>7, <1>8, <1>9, <1>10 DEF IInv

\* int 1Bh goes on waiting.
LEMMA WaitPollsStep ==
  ASSUME IInv, WaitPolls, UNCHANGED setup
  PROVE  IInv'
<1>1. setup.vm86 /\ timeout <= WaitLimit /\ timeout' = timeout + 1 /\ waiting
      /\ UNCHANGED <<fdc, irq, diskInt, waiting, shown, at, owed, upset, setup>>
  BY DEF WaitPolls, history
<1>2. timeout' \in 0 .. WaitLimit + 1
  <2>1. timeout \in 0 .. WaitLimit + 1 BY TypeFacts DEF IInv
  <2> QED BY <1>1, <2>1, Sizes
<1>3. TypeOK' BY <1>1, <1>2 DEF IInv, TypeOK
<1>4. TransferInv' BY <1>1 DEF IInv, TransferInv, DataOK
<1>5. MatchedInv' BY <1>1 DEF IInv, MatchedInv, Matched
<1>6. AnnouncedInv' BY <1>1 DEF IInv, AnnouncedInv
<1>7. SeekInv' BY <1>1 DEF IInv, SeekInv
<1>8. WaitInv' BY <1>1 DEF IInv, WaitInv
<1> QED BY <1>3, <1>4, <1>5, <1>6, <1>7, <1>8 DEF IInv

\* int 1Bh goes on, with the bit or without it.
LEMMA WaitReturnsStep ==
  ASSUME IInv, WaitReturns, UNCHANGED setup
  PROVE  IInv'
<1>1. waiting' = FALSE /\ timeout' = 0 /\ shown' = "nothing"
      /\ diskInt' = diskInt \ {fdc.us}
      /\ UNCHANGED <<fdc, irq, at, owed, upset, setup>>
  BY DEF WaitReturns, history
<1>2. TypeOK'
  <2>1. 0 \in 0 .. WaitLimit + 1 BY Sizes
  <2>2. TypeOK BY DEF IInv
  <2> QED BY <1>1, <2>1, <2>2 DEF TypeOK
<1>3. TransferInv' BY <1>1 DEF IInv, TransferInv, DataOK
<1>4. MatchedInv' BY <1>1 DEF IInv, MatchedInv, Matched
<1>5. AnnouncedInv' BY <1>1 DEF IInv, AnnouncedInv
<1>6. SeekInv' BY <1>1 DEF IInv, SeekInv
<1>7. WaitInv' BY <1>1 DEF WaitInv
<1> QED BY <1>2, <1>3, <1>4, <1>5, <1>6, <1>7 DEF IInv

\* The handler takes the result and senses all statuses.
LEMMA HandlerSenses ==
  ASSUME IInv, TypeOK', NEW q \in Controller, Kept(q, fdc),
         q = fdc \/ fdc.event = "bufsend2",
         "reset" \notin upset => ~q.dma.ready /\ ~q.dma.working /\ ~q.tc,
         fdc' = AfterSense(Neutral(q), Pending(q)),
         owed' = owed \ Told(q),
         fdc.event \notin {"bufsend2", "result"} => diskInt' = diskInt \cup Pending(q),
         shown' = IF ShownIn(q) THEN "nothing" ELSE shown,
         upset' \in {upset, upset \cup {"stolen"}},
         UNCHANGED <<waiting, timeout, setup>>
  PROVE  IInv'
<1> DEFINE n == Neutral(q)
<1>1. /\ n \in Controller /\ Kept(n, q) /\ n.stat = q.stat
      /\ n.event = "neutral" /\ n.asked = NoTransfer
      /\ n.tc = q.tc /\ n.armed = q.armed /\ n.dma = q.dma
  BY NeutralFacts
<1>2. Pending(q) \in SUBSET Drives BY DEF Pending
<1>3. fdc' = AfterSense(n, Pending(q)) OBVIOUS
<1> HIDE DEF n
<1>4. /\ fdc'.event = "neutral" /\ fdc'.asked = NoTransfer /\ fdc'.us = n.us
      /\ fdc'.dma = q.dma /\ fdc'.tc = q.tc /\ fdc'.istat = n.istat
      /\ fdc'.timer = n.timer
      /\ \A d \in Drives : fdc'.stat[d] = IF d \in Pending(q) THEN "none" ELSE q.stat[d]
  BY <1>1, <1>2, <1>3, AfterSenseFacts
<1>5. /\ fdc'.us = fdc.us /\ fdc'.istat = fdc.istat /\ fdc'.timer = fdc.timer
      /\ \A d \in Drives \ {fdc.us} : q.stat[d] = fdc.stat[d]
  BY <1>1, <1>4 DEF Kept
<1>6. \A d \in Drives : fdc'.stat[d] = "none" BY <1>4 DEF Pending
<1>7. \A x \in {"reset", "changed"} : x \in upset' <=> x \in upset OBVIOUS
<1>8. TransferInv'
  BY <1>4, <1>7 DEF IInv, TransferInv, DataOK, DataPhases
<1>9. MatchedInv' BY <1>4, <1>7 DEF MatchedInv, Matched, DataPhases
<1>10. AnnouncedInv' BY <1>4, <1>6 DEF AnnouncedInv, Announced
<1>11. SeekInv'
  <2> SUFFICES ASSUME (upset \cap {"changed", "reset"} = {})'
               PROVE  /\ \A d \in Drives : fdc.timer[d] > 0 => fdc.istat[d] \in Announced
                      /\ \A d \in owed' : fdc.timer[d] > 0
    BY <1>4, <1>5 DEF SeekInv
  <2>1. upset \cap {"changed", "reset"} = {} BY <1>7
  <2> SUFFICES ASSUME NEW d \in owed' PROVE fdc.timer[d] > 0
    BY <2>1 DEF IInv, SeekInv
  <2>2. d \in Drives /\ d \in owed /\ d \notin Told(q)
    BY TypeFacts DEF IInv
  <2>3. fdc.timer[d] > 0 \/ fdc.stat[d] \in Announced
    BY <2>1, <2>2 DEF IInv, SeekInv
  <2>4. fdc.stat[d] = q.stat[d]
    <3>1. CASE q = fdc BY <3>1
    <3>2. CASE fdc.event = "bufsend2"
      <4>1. fdc.us \notin owed BY <2>1, <3>2 DEF IInv, SeekInv
      <4> QED BY <1>5, <2>2, <4>1
    <3> QED BY <3>1, <3>2
  <2>5. fdc.stat[d] \notin Announced BY <2>2, <2>4 DEF Told
  <2> QED BY <1>5, <2>3, <2>5
<1>12. WaitInv'
  <2>1. WaitInv BY DEF IInv
  <2>2. CASE ~waiting
    <3>1. shown = "nothing" BY <2>1, <2>2 DEF WaitInv
    <3> QED BY <2>1, <2>2, <3>1 DEF WaitInv
  <2>3. CASE waiting
    <3>1. fdc.event # "bufsend2" /\ q = fdc BY <2>1, <2>3 DEF WaitInv, DataPhases
    <3>2. fdc.us \in diskInt' => fdc.us \in diskInt \/ fdc.event = "result"
                                  \/ fdc.us \in Pending(q)
      BY <3>1
    <3>3. "changed" \notin upset =>
            shown' # "result" /\ (fdc.us \in diskInt' => shown' = "nothing")
      <4> SUFFICES ASSUME "changed" \notin upset
                   PROVE  shown' # "result" /\ (fdc.us \in diskInt' => shown' = "nothing")
        OBVIOUS
      <4>1. /\ fdc.us \in diskInt => shown = "nothing"
            /\ shown = "result" => fdc.event = "result"
            /\ shown = "seek" => fdc.event = "neutral"
        BY <2>1, <2>3 DEF WaitInv
      <4>2. shown \in {"nothing", "result", "seek"} BY DEF IInv, TypeOK
      <4>3. CASE shown = "nothing" BY <4>3 DEF ShownIn
      <4>4. CASE shown = "result"
        <5>1. ShownIn(q) BY <3>1, <4>1, <4>4 DEF ShownIn
        <5> QED BY <5>1
      <4>5. CASE shown = "seek"
        <5>1. fdc.us \in diskInt' => fdc.us \in Pending(q) BY <3>2, <4>1, <4>5
        <5>2. fdc.us \in diskInt' => ShownIn(q) BY <3>1, <4>5, <5>1 DEF ShownIn
        <5> QED BY <4>5, <5>2
      <4> QED BY <4>2, <4>3, <4>4, <4>5
    <3> QED BY <1>4, <1>5, <1>7, <2>1, <2>3, <3>3 DEF WaitInv, DataPhases
  <2> QED BY <2>2, <2>3
<1> QED BY <1>8, <1>9, <1>10, <1>11, <1>12 DEF IInv

LEMMA BiosHandlerStep ==
  ASSUME IInv, BiosHandler, UNCHANGED setup
  PROVE  IInv'
<1> DEFINE reading == fdc.event = "bufsend2"
<1> DEFINE q == IF reading THEN Result(fdc, TRUE) ELSE fdc
<1>1. /\ fdc \in Controller /\ TypeOK /\ DataOK(fdc)
      /\ fdc.event \in Events /\ fdc.from \in Drives
  <2>1. fdc \in Controller /\ TypeOK /\ DataOK(fdc) /\ fdc.event \in Events
    BY TypeFacts DEF IInv, TransferInv
  <2> QED BY <2>1 DEF Controller
<1>2. PICK one \in BOOLEAN, d \in Drives :
        LET from == IF reading THEN {d}
                    ELSE IF fdc.event = "result" THEN {fdc.from} ELSE {}
        IN /\ one => reading
           /\ fdc' = IF one THEN DataRead(fdc)
                     ELSE IF fdc.event = "bufrecv" THEN fdc
                     ELSE AfterSense(Neutral(q), Pending(q))
           /\ IF one \/ fdc.event = "bufrecv" THEN UNCHANGED <<diskInt, owed, shown>>
              ELSE /\ diskInt' = diskInt \cup from \cup Pending(q)
                   /\ owed' = owed \ Told(q)
                   /\ shown' = IF ShownIn(q) THEN "nothing" ELSE shown
           /\ upset' = IF reading THEN upset \cup {"stolen"} ELSE upset
  BY DEF BiosHandler
<1>3. irq' = FALSE /\ UNCHANGED <<waiting, timeout, at, setup>> BY DEF BiosHandler
<1>4. CASE one
  <2>1. fdc.event = "bufsend2" /\ fdc' = DataRead(fdc)
        /\ UNCHANGED <<diskInt, owed, shown>> /\ upset' = upset \cup {"stolen"}
    BY <1>2, <1>4
  <2>2. Transferred(fdc', fdc) /\ ~fdc'.tc /\ (Matched(fdc) => Matched(fdc'))
    BY <1>1, <2>1, DataReadFacts
  <2>3. /\ fdc' \in Controller /\ Kept(fdc', fdc) /\ fdc'.asked = fdc.asked
        /\ fdc'.event \in DataPhases \cup {"result"} /\ DataOK(fdc')
        /\ fdc'.event = "result" => fdc'.armed
    BY <2>2 DEF Transferred
  <2>4. "reset" \notin upset => Matched(fdc') /\ ~fdc'.tc
    BY <2>2 DEF IInv, MatchedInv
  <2>5. TypeOK' BY <1>1, <1>3, <2>1, <2>3 DEF TypeOK, Upsets
  <2>6. fdc.event \in DataPhases BY <2>1 DEF DataPhases
  <2>7. upset' \in {upset, upset \cup {"stolen"}} BY <2>1
  <2> QED BY <1>3, <2>1, <2>3, <2>4, <2>5, <2>6, <2>7, TransferStep
<1>5. CASE ~one /\ fdc.event = "bufrecv"
  <2>1. UNCHANGED <<fdc, diskInt, owed, shown, upset>> BY <1>2, <1>5
  <2>2. TypeOK' BY <1>1, <1>3, <2>1 DEF TypeOK
  <2>3. TransferInv' BY <1>3, <2>1 DEF IInv, TransferInv, DataOK
  <2>4. MatchedInv' BY <2>1 DEF IInv, MatchedInv, Matched
  <2>5. AnnouncedInv' BY <1>5, <2>1 DEF AnnouncedInv
  <2>6. SeekInv' BY <2>1 DEF IInv, SeekInv
  <2>7. WaitInv' BY <1>3, <2>1, CallStays DEF IInv
  <2> QED BY <2>2, <2>3, <2>4, <2>5, <2>6, <2>7 DEF IInv
<1>6. CASE ~one /\ fdc.event # "bufrecv"
  <2> DEFINE from == IF reading THEN {d}
                     ELSE IF fdc.event = "result" THEN {fdc.from} ELSE {}
  <2>1. /\ fdc' = AfterSense(Neutral(q), Pending(q))
        /\ diskInt' = diskInt \cup from \cup Pending(q)
        /\ owed' = owed \ Told(q)
        /\ shown' = IF ShownIn(q) THEN "nothing" ELSE shown
        /\ upset' \in {upset, upset \cup {"stolen"}}
    BY <1>2, <1>6
  <2>2. from \subseteq Drives BY <1>1
  <2>3. /\ q \in Controller /\ Kept(q, fdc)
        /\ q = fdc \/ fdc.event = "bufsend2"
        /\ "reset" \notin upset => ~q.dma.ready /\ ~q.dma.working /\ ~q.tc
    <3>1. CASE reading
      <4>1. q = Result(fdc, TRUE) BY <3>1
      <4> QED BY <1>1, <3>1, <4>1, ResultFacts
    <3>2. CASE ~reading
      <4>1. q = fdc BY <3>2
      <4>2. fdc.event \notin DataPhases BY <1>6, <3>2 DEF DataPhases
      <4>3. "reset" \notin upset => ~fdc.dma.ready /\ ~fdc.dma.working /\ ~fdc.tc
        BY <4>2 DEF IInv, MatchedInv, Matched
      <4>4. Kept(fdc, fdc) BY DEF Kept
      <4> QED BY <1>1, <4>1, <4>3, <4>4
    <3> QED BY <3>1, <3>2
  <2>7. fdc.event \notin {"bufsend2", "result"} => diskInt' = diskInt \cup Pending(q)
    <3> HIDE DEF q
    <3> QED BY <2>1
  <2> HIDE DEF q, from
  <2>4. Pending(q) \in SUBSET Drives BY DEF Pending
  <2>5. fdc' \in Controller BY <2>1, <2>3, <2>4, NeutralFacts, AfterSenseFacts
  <2>6. TypeOK' BY <1>1, <1>3, <2>1, <2>2, <2>4, <2>5 DEF TypeOK, Upsets
  <2> QED BY <1>3, <2>1, <2>3, <2>6, <2>7, HandlerSenses
<1> QED BY <1>4, <1>5, <1>6

\* The delays of a frame.
LEMMA FrameStep ==
  ASSUME IInv, Frame, UNCHANGED setup
  PROVE  IInv'
<1> DEFINE q == DiskDelays(fdc)
<1>1. /\ fdc \in Controller /\ TypeOK
      /\ fdc.us \in Drives /\ fdc.event \in Events /\ owed \subseteq Drives
      /\ fdc.timer \in [Drives -> 0 .. IntDelay]
      /\ fdc.stat \in [Drives -> {"none", "address", "seek", "attention"}]
  BY TypeFacts DEF IInv
<1>2. /\ fdc' = SeekDelays(q)
      /\ IF fdc'.us # fdc.us THEN Changes ELSE UNCHANGED upset
      /\ UNCHANGED <<irq, diskInt, waiting, timeout, shown, at, owed, setup>>
  BY DEF Frame, call
<1>3. /\ q \in Controller
      /\ q.event = fdc.event /\ q.asked = fdc.asked
      /\ q.r = fdc.r /\ q.bufcnt = fdc.bufcnt /\ q.dma = fdc.dma /\ q.tc = fdc.tc
      /\ q.istat = fdc.istat /\ q.timer = fdc.timer
      /\ q.armed = (fdc.armed \/ Heard(fdc) # {})
      /\ \A d \in Drives :
           q.stat[d] = IF d \in Heard(fdc) THEN "attention" ELSE fdc.stat[d]
  BY <1>1, DiskDelaysFacts
<1> HIDE DEF q
<1>4. /\ fdc' \in Controller
      /\ fdc'.event = fdc.event /\ fdc'.asked = fdc.asked
      /\ fdc'.r = fdc.r /\ fdc'.bufcnt = fdc.bufcnt /\ fdc'.dma = fdc.dma
      /\ fdc'.tc = fdc.tc /\ fdc'.istat = fdc.istat
      /\ fdc'.armed = (q.armed \/ \E d \in Drives : fdc.timer[d] = 1)
      /\ \A d \in Drives :
           /\ fdc'.stat[d] = IF fdc.timer[d] = 1 THEN fdc.istat[d] ELSE q.stat[d]
           /\ fdc.timer[d] > 1 => fdc'.timer[d] > 0
  BY <1>2, <1>3, SeekDelaysFacts
<1>5. /\ upset' \in {upset, upset \cup {"changed"}}
      /\ fdc'.us # fdc.us /\ Busy => "changed" \in upset'
  BY <1>2 DEF Changes
<1>6. \A d \in Drives : \/ fdc'.stat[d] = fdc.istat[d] /\ fdc.timer[d] = 1
                        \/ fdc'.stat[d] = "attention"
                        \/ fdc'.stat[d] = fdc.stat[d]
  BY <1>3, <1>4
<1>7. TypeOK' BY <1>1, <1>2, <1>4, <1>5 DEF TypeOK, Upsets
<1>8. TransferInv' BY <1>2, <1>4, <1>5 DEF IInv, TransferInv, DataOK
<1>9. MatchedInv' BY <1>4, <1>5 DEF IInv, MatchedInv, Matched
<1>10. AnnouncedInv'
  <2>1. fdc.armed => fdc'.armed BY <1>3, <1>4
  <2>2. (\E d \in Drives : fdc'.stat[d] # fdc.stat[d]) => fdc'.armed BY <1>3, <1>4
  <2> QED BY <1>2, <1>4, <1>5, <2>1, <2>2 DEF IInv, AnnouncedInv
<1>11. SeekInv'
  <2> SUFFICES ASSUME (upset \cap {"changed", "reset"} = {})' PROVE SeekInv'
    BY DEF SeekInv
  <2>1. upset \cap {"changed", "reset"} = {} BY <1>5
  <2>2. /\ fdc.event # "neutral" => fdc.us \notin owed
        /\ \A d \in Drives : fdc.timer[d] > 0 => fdc.istat[d] \in Announced
        /\ \A d \in owed : fdc.timer[d] > 0 \/ fdc.stat[d] \in Announced
    BY <2>1 DEF IInv, SeekInv
  <2>3. fdc'.event # "neutral" => fdc'.us \notin owed' BY <1>2, <1>4, <1>5, <2>2 DEF Busy
  <2>4. \A d \in Drives : /\ fdc.timer[d] \in 0 .. IntDelay
                          /\ fdc'.timer[d] > 0 => fdc.timer[d] > 0
    <3>1. fdc'.timer = [d \in Drives |-> IF q.timer[d] = 0 THEN 0 ELSE q.timer[d] - 1]
      BY <1>2, <1>3 DEF SeekDelays, Controller
    <3>2. \A d \in Drives : fdc.timer[d] \in 0 .. IntDelay BY <1>1
    <3> QED BY <1>3, <3>1, <3>2, Sizes
  <2>5. \A d \in Drives : fdc'.timer[d] > 0 => fdc'.istat[d] \in Announced
    BY <1>4, <2>2, <2>4
  <2>6. \A d \in owed : fdc'.timer[d] > 0 \/ fdc'.stat[d] \in Announced
    <3> SUFFICES ASSUME NEW d \in owed
                 PROVE  fdc'.timer[d] > 0 \/ fdc'.stat[d] \in Announced
      OBVIOUS
    <3>1. d \in Drives BY <1>1
    <3>2. CASE fdc.timer[d] = 1
      <4>1. fdc'.stat[d] = fdc.istat[d] /\ fdc.istat[d] \in Announced
        BY <1>4, <2>2, <3>1, <3>2
      <4> QED BY <4>1
    <3>3. CASE fdc.timer[d] > 1 BY <1>4, <3>1, <3>3
    <3>4. CASE fdc.timer[d] = 0
      <4>1. fdc.stat[d] \in Announced BY <2>2, <3>4
      <4>2. fdc.timer[d] # 1 BY <3>4
      <4>3. fdc'.stat[d] = "attention" \/ fdc'.stat[d] = fdc.stat[d] BY <1>6, <3>1, <4>2
      <4> QED BY <4>1, <4>3 DEF Announced
    <3> QED BY <2>4, <3>1, <3>2, <3>3, <3>4, Sizes
  <2> QED BY <1>2, <2>3, <2>5, <2>6 DEF SeekInv
<1>12. WaitInv'
  <2>1. waiting => fdc'.us = fdc.us \/ "changed" \in upset' BY <1>5 DEF Busy
  <2>2. upset \subseteq upset' BY <1>5
  <2> QED BY <1>2, <1>4, <2>1, <2>2, CallStays DEF IInv
<1> QED BY <1>7, <1>8, <1>9, <1>10, <1>11, <1>12 DEF IInv

\* The user changes a disk.
LEMMA SetDiskStep ==
  ASSUME IInv, NEW d \in Drives, NEW m \in Media \cup {"none"}, SetDisk(d, m),
         UNCHANGED setup
  PROVE  IInv'
<1>1. /\ fdc \in Controller /\ TypeOK
      /\ fdc.stat \in [Drives -> {"none", "address", "seek", "attention"}]
      /\ fdc.next \in [Drives -> Media]
  BY TypeFacts DEF IInv, Controller
<1> DEFINE delay == IF m = "none" THEN 0 ELSE DiskDelay
<1> DEFINE next == IF m = "none" THEN fdc.next[d] ELSE m
<1> DEFINE s == [fdc EXCEPT !.media[d] = "none", !.stat[d] = "attention",
                            !.us = d, !.armed = TRUE]
<1>2. /\ fdc' = [s EXCEPT !.delay[d] = delay, !.next[d] = next]
      /\ Changes /\ UNCHANGED <<irq, diskInt, waiting, timeout, shown, at, owed, setup>>
  <2>1. s.next = fdc.next BY <1>1 DEF Controller
  <2> QED BY <2>1 DEF SetDisk, call
<1>3. s \in Controller BY ZenonT(60), <1>1 DEF Controller
<1>4. /\ s.event = fdc.event /\ s.asked = fdc.asked /\ s.us = d
      /\ s.r = fdc.r /\ s.bufcnt = fdc.bufcnt /\ s.dma = fdc.dma
      /\ s.tc = fdc.tc /\ s.istat = fdc.istat /\ s.timer = fdc.timer
      /\ s.armed = TRUE /\ s.stat = [fdc.stat EXCEPT ![d] = "attention"]
  BY <1>1 DEF Controller
<1>5. delay \in 0 .. DiskDelay BY Sizes
<1>6. next \in Media BY <1>1 DEF Media
<1> HIDE DEF s, delay, next
<1>7. fdc' \in Controller BY <1>2, <1>3, <1>5, <1>6 DEF Controller
<1>8. /\ fdc'.event = fdc.event /\ fdc'.asked = fdc.asked /\ fdc'.us = d
      /\ fdc'.r = fdc.r /\ fdc'.bufcnt = fdc.bufcnt /\ fdc'.dma = fdc.dma
      /\ fdc'.tc = fdc.tc /\ fdc'.istat = fdc.istat /\ fdc'.timer = fdc.timer
      /\ fdc'.armed = TRUE /\ fdc'.stat = [fdc.stat EXCEPT ![d] = "attention"]
  BY <1>2, <1>3, <1>4 DEF Controller
<1>9. \A e \in Drives : fdc'.stat[e] = IF e = d THEN "attention" ELSE fdc.stat[e]
  BY <1>1, <1>8
<1>10. /\ upset' \in {upset, upset \cup {"changed"}}
       /\ Busy => "changed" \in upset'
  BY <1>2 DEF Changes
<1>11. TypeOK' BY <1>1, <1>2, <1>7, <1>10 DEF TypeOK, Upsets
<1>12. TransferInv' BY <1>2, <1>8, <1>10 DEF IInv, TransferInv, DataOK
<1>13. MatchedInv' BY <1>8, <1>10 DEF IInv, MatchedInv, Matched
<1>14. AnnouncedInv' BY <1>8 DEF AnnouncedInv
<1>15. SeekInv'
  <2> SUFFICES ASSUME (upset \cap {"changed", "reset"} = {})' PROVE SeekInv'
    BY DEF SeekInv
  <2>1. upset \cap {"changed", "reset"} = {} /\ ~Busy BY <1>10
  <2>2. owed \subseteq Drives BY TypeFacts DEF IInv
  <2>3. fdc.event = "neutral" BY <2>1 DEF Busy
  <2>4. \A e \in owed : fdc'.timer[e] > 0 \/ fdc'.stat[e] \in Announced
    BY <1>8, <1>9, <2>1, <2>2 DEF IInv, SeekInv, Announced
  <2> QED BY <1>2, <1>8, <2>1, <2>3, <2>4 DEF IInv, SeekInv
<1>16. WaitInv'
  <2>1. waiting => "changed" \in upset' BY <1>10 DEF Busy
  <2>2. upset \subseteq upset' BY <1>10
  <2> QED BY <1>2, <1>8, <2>1, <2>2, CallStays DEF IInv
<1> QED BY <1>11, <1>12, <1>13, <1>14, <1>15, <1>16 DEF IInv

-----------------------------------------------------------------------------
(***************************************************************************)
(* The guest's steps.                                                      *)
(***************************************************************************)

\* A transfer is programmed.
LEMMA CommandIsStep ==
  ASSUME IInv, NEW t \in setup.transfers, NEW n \in setup.counts, Command(t, n),
         UNCHANGED setup
  PROVE  IInv'
<1>1. fdc \in Controller /\ TypeOK /\ fdc.dma \in Channel /\ fdc.tc \in BOOLEAN
  BY TypeFacts DEF IInv, Controller
<1>2. /\ t \in Transfer /\ n \in 0 .. CountRange - 1
  BY TypeFacts DEF IInv, Setup
<1>3. t.us \in Drives BY <1>2 DEF Transfer
<1> DEFINE dma == SetMask(SetCount(SetMask(fdc.dma, TRUE), n), FALSE)
<1> DEFINE q == [fdc EXCEPT !.dma = dma, !.bytes = n + 1]
<1>4. fdc' = Begin(q, t) /\ Free(t.us)
      /\ UNCHANGED <<irq, diskInt, waiting, timeout, shown, at, owed, upset, setup>>
  BY DEF Command, history, call
<1>5. dma \in Channel BY <1>1, <1>2, ChannelFacts
<1>6. n + 1 \in 0 .. CountRange BY <1>2, Sizes
<1> HIDE DEF dma
<1>7. q \in Controller BY <1>1, <1>5, <1>6 DEF Controller
<1>8. /\ q.istat = fdc.istat /\ q.timer = fdc.timer /\ q.ctrl = fdc.ctrl
      /\ q.media = fdc.media /\ q.delay = fdc.delay /\ q.next = fdc.next
      /\ q.stat = fdc.stat /\ q.tc = fdc.tc
  BY <1>1 DEF Controller
<1> HIDE DEF q
<1>9. /\ fdc' \in Controller /\ Left(fdc', q, t.us) /\ fdc'.asked = t
      /\ fdc'.event \in DataPhases \cup {"result"}
      /\ DataOK(fdc') /\ Matched(fdc')
      /\ fdc'.event = "result" => fdc'.armed /\ ~fdc'.tc
      /\ fdc'.event \in DataPhases => fdc'.tc = q.tc
  BY <1>2, <1>4, <1>7, BeginFacts
<1>10. Left(fdc', fdc, t.us) BY <1>8, <1>9 DEF Left
<1>11. TypeOK' BY <1>1, <1>4, <1>9 DEF TypeOK
<1>12. "reset" \notin upset => ~fdc'.tc BY <1>8, <1>9 DEF IInv, MatchedInv
<1>13. ~waiting /\ t.us \notin owed BY <1>4 DEF Free, Idle
<1> QED BY <1>3, <1>4, <1>9, <1>10, <1>11, <1>12, <1>13, CommandStep

\* The guest reads the result itself.
LEMMA ReadResultStep ==
  ASSUME IInv, ReadResult, UNCHANGED setup
  PROVE  IInv'
<1>1. fdc \in Controller /\ TypeOK BY TypeFacts DEF IInv
<1>2. fdc' = Neutral(fdc) /\ fdc.event = "result" /\ ~waiting
      /\ UNCHANGED <<irq, diskInt, waiting, timeout, shown, at, owed, upset, setup>>
  BY DEF ReadResult, history, call
<1>3. /\ fdc' \in Controller /\ Kept(fdc', fdc) /\ fdc'.stat = fdc.stat
      /\ fdc'.event = "neutral" /\ fdc'.asked = NoTransfer
      /\ fdc'.tc = fdc.tc /\ fdc'.armed = fdc.armed /\ fdc'.dma = fdc.dma
  BY <1>1, <1>2, NeutralFacts
<1>4. fdc'.us = fdc.us /\ fdc'.istat = fdc.istat /\ fdc'.timer = fdc.timer
  BY <1>3 DEF Kept
<1>5. TypeOK' BY <1>1, <1>2, <1>3 DEF TypeOK
<1>6. TransferInv' BY <1>2, <1>3 DEF IInv, TransferInv, DataOK, DataPhases
<1>7. MatchedInv' BY <1>2, <1>3 DEF IInv, MatchedInv, Matched, DataPhases
<1>8. AnnouncedInv' BY <1>2, <1>3 DEF IInv, AnnouncedInv
<1>9. SeekInv' BY <1>2, <1>3, <1>4 DEF IInv, SeekInv
<1>10. WaitInv' BY <1>2, NoCall DEF IInv
<1> QED BY <1>5, <1>6, <1>7, <1>8, <1>9, <1>10 DEF IInv

\* A command of the guest that only sets the status of a seek aside.
LEMMA SeekStep ==
  ASSUME IInv, NEW d \in Drives, NEW q \in Controller, Idle,
         q.event = fdc.event, q.asked = fdc.asked, q.us = d, q.dma = fdc.dma,
         q.tc = fdc.tc, q.stat = fdc.stat, q.istat = fdc.istat, q.timer = fdc.timer,
         q.armed = fdc.armed, fdc' = SetAside(q, d, "seek"),
         owed' = owed \cup {d}, at' \in [Drives -> 0 .. LastTrack],
         UNCHANGED <<irq, diskInt, waiting, timeout, shown, upset, setup>>
  PROVE  IInv'
<1>1. fdc \in Controller /\ TypeOK /\ owed \subseteq Drives BY TypeFacts DEF IInv
<1>2. /\ fdc' \in Controller
      /\ fdc'.event = fdc.event /\ fdc'.asked = fdc.asked /\ fdc'.us = d
      /\ fdc'.dma = fdc.dma /\ fdc'.tc = fdc.tc
      /\ fdc'.stat = fdc.stat /\ fdc'.armed = fdc.armed
      /\ fdc'.timer[d] = IntDelay /\ fdc'.istat[d] = "seek"
      /\ \A e \in Drives \ {d} :
           fdc'.timer[e] = fdc.timer[e] /\ fdc'.istat[e] = fdc.istat[e]
  <2> DEFINE p == SetAside(q, d, "seek")
  <2>1. /\ p \in Controller
        /\ p.event = q.event /\ p.asked = q.asked /\ p.us = q.us
        /\ p.r = q.r /\ p.bufcnt = q.bufcnt /\ p.dma = q.dma /\ p.tc = q.tc
        /\ p.stat = q.stat /\ p.armed = q.armed
        /\ p.timer[d] = IntDelay /\ p.istat[d] = "seek"
        /\ \A e \in Drives \ {d} :
             p.timer[e] = q.timer[e] /\ p.istat[e] = q.istat[e]
    BY SetAsideFacts
  <2>2. fdc' = p OBVIOUS
  <2> HIDE DEF p
  <2> QED BY <2>1, <2>2
<1>3. fdc.event = "neutral" /\ ~waiting BY DEF Idle
<1>4. TypeOK' BY <1>1, <1>2 DEF TypeOK
<1>5. TransferInv' BY <1>2, <1>3 DEF IInv, TransferInv, DataOK, DataPhases
<1>6. MatchedInv' BY <1>2 DEF IInv, MatchedInv, Matched
<1>7. AnnouncedInv' BY <1>2 DEF IInv, AnnouncedInv
<1>8. SeekInv'
  <2> SUFFICES ASSUME upset \cap {"changed", "reset"} = {} PROVE SeekInv'
    BY DEF SeekInv
  <2>1. /\ \A e \in Drives : fdc.timer[e] > 0 => fdc.istat[e] \in Announced
        /\ \A e \in owed : fdc.timer[e] > 0 \/ fdc.stat[e] \in Announced
    BY DEF IInv, SeekInv
  <2>2. \A e \in Drives : fdc'.timer[e] > 0 => fdc'.istat[e] \in Announced
    BY <1>2, <2>1 DEF Announced
  <2>3. \A e \in owed' : fdc'.timer[e] > 0 \/ fdc'.stat[e] \in Announced
    BY <1>1, <1>2, <2>1, Sizes
  <2> QED BY <1>2, <1>3, <2>2, <2>3 DEF SeekInv
<1>9. WaitInv' BY <1>3, NoCall DEF IInv
<1> QED BY <1>4, <1>5, <1>6, <1>7, <1>8, <1>9 DEF IInv

LEMMA SeekIsStep ==
  ASSUME IInv, NEW d \in Drives, NEW c \in 0 .. LastTrack, Seek(d, c),
         UNCHANGED setup
  PROVE  IInv'
<1>1. fdc \in Controller /\ at \in [Drives -> 0 .. LastTrack] BY TypeFacts DEF IInv
<1> DEFINE q == [fdc EXCEPT !.us = d, !.hd = 0]
<1> DEFINE ready == [q EXCEPT !.treg[d] = c, !.lasttreg[d] = c, !.r = 1, !.crcn = 1]
<1> DEFINE s == IF q.media[d] = "none" THEN q ELSE ready
<1>2. /\ Idle /\ fdc' = SetAside(s, d, "seek") /\ owed' = owed \cup {d}
      /\ at' = [at EXCEPT ![d] = IF fdc.media[d] = "none" THEN @ ELSE c]
      /\ UNCHANGED <<irq, diskInt, waiting, timeout, shown, upset>>
  BY DEF Seek, call
<1>3. at' \in [Drives -> 0 .. LastTrack] BY <1>1, <1>2
<1>4. c \in 0 .. LastTrack + 1 /\ 1 \in 1 .. Sectors + 1 /\ 1 \in 0 .. Sectors
  BY Sizes
<1>5. q \in Controller BY ZenonT(60), <1>1 DEF Controller
<1>6. /\ q.event = fdc.event /\ q.asked = fdc.asked /\ q.us = d /\ q.dma = fdc.dma
      /\ q.tc = fdc.tc /\ q.stat = fdc.stat /\ q.istat = fdc.istat
      /\ q.timer = fdc.timer /\ q.armed = fdc.armed
  BY <1>1 DEF Controller
<1> HIDE DEF q
<1>7. ready \in Controller BY <1>4, <1>5 DEF Controller
<1>8. /\ ready.event = fdc.event /\ ready.asked = fdc.asked /\ ready.us = d
      /\ ready.dma = fdc.dma /\ ready.tc = fdc.tc /\ ready.stat = fdc.stat
      /\ ready.istat = fdc.istat /\ ready.timer = fdc.timer
      /\ ready.armed = fdc.armed
  BY <1>5, <1>6 DEF Controller
<1> HIDE DEF ready
<1>9. /\ s \in Controller /\ s.event = fdc.event /\ s.asked = fdc.asked /\ s.us = d
      /\ s.dma = fdc.dma /\ s.tc = fdc.tc /\ s.stat = fdc.stat
      /\ s.istat = fdc.istat /\ s.timer = fdc.timer /\ s.armed = fdc.armed
  BY <1>5, <1>6, <1>7, <1>8
<1> HIDE DEF s
<1> QED BY <1>2, <1>3, <1>9, SeekStep

LEMMA RecalibrateStep ==
  ASSUME IInv, NEW d \in Drives, Recalibrate(d), UNCHANGED setup
  PROVE  IInv'
<1>1. fdc \in Controller /\ at \in [Drives -> 0 .. LastTrack] BY TypeFacts DEF IInv
<1> DEFINE q == [fdc EXCEPT !.us = d, !.hd = 0, !.r = 1, !.crcn = 1]
<1> DEFINE s == IF q.media[d] = "none" THEN q ELSE [q EXCEPT !.treg[d] = 0]
<1>2. /\ Idle /\ fdc' = SetAside(s, d, "seek") /\ owed' = owed \cup {d}
      /\ at' = [at EXCEPT ![d] = IF fdc.media[d] = "none" THEN @ ELSE 0]
      /\ UNCHANGED <<irq, diskInt, waiting, timeout, shown, upset>>
  BY DEF Recalibrate, call
<1>3. 0 \in 0 .. LastTrack /\ 0 \in 0 .. LastTrack + 1 /\ 1 \in 1 .. Sectors + 1
      /\ 1 \in 0 .. Sectors
  BY Sizes
<1>4. at' \in [Drives -> 0 .. LastTrack] BY <1>1, <1>2, <1>3
<1>5. q \in Controller BY ZenonT(60), <1>1, <1>3 DEF Controller
<1>6. /\ q.event = fdc.event /\ q.asked = fdc.asked /\ q.us = d /\ q.dma = fdc.dma
      /\ q.tc = fdc.tc /\ q.stat = fdc.stat /\ q.istat = fdc.istat
      /\ q.timer = fdc.timer /\ q.armed = fdc.armed
  BY <1>1 DEF Controller
<1> HIDE DEF q
<1>7. /\ s \in Controller /\ s.event = fdc.event /\ s.asked = fdc.asked /\ s.us = d
      /\ s.dma = fdc.dma /\ s.tc = fdc.tc /\ s.stat = fdc.stat
      /\ s.istat = fdc.istat /\ s.timer = fdc.timer /\ s.armed = fdc.armed
  BY <1>3, <1>5, <1>6 DEF Controller
<1> HIDE DEF s
<1> QED BY <1>2, <1>4, <1>7, SeekStep

\* The guest senses a status without an interrupt.
LEMMA SenseInterruptStep ==
  ASSUME IInv, SenseInterrupt, UNCHANGED setup
  PROVE  IInv'
<1>1. fdc \in Controller /\ TypeOK /\ owed \subseteq Drives BY TypeFacts DEF IInv
<1> DEFINE drives == IF Pending(fdc) = {} THEN {} ELSE {Sensed(fdc)}
<1>2. /\ Idle /\ fdc' = AfterSense(fdc, drives)
      /\ owed' = owed \ (drives \cap Told(fdc))
      /\ UNCHANGED <<irq, diskInt, waiting, timeout, shown, at, upset, setup>>
  BY DEF SenseInterrupt, call
<1>3. drives \in SUBSET Drives
  <2>1. Pending(fdc) # {} => Sensed(fdc) \in Pending(fdc) BY <1>1, SensedFacts
  <2> QED BY <2>1 DEF Pending
<1> HIDE DEF drives
<1>4. /\ fdc' \in Controller
      /\ fdc'.event = fdc.event /\ fdc'.asked = fdc.asked /\ fdc'.us = fdc.us
      /\ fdc'.dma = fdc.dma /\ fdc'.tc = fdc.tc
      /\ fdc'.istat = fdc.istat /\ fdc'.timer = fdc.timer /\ fdc'.armed = fdc.armed
      /\ \A d \in Drives :
           fdc'.stat[d] = IF d \in drives THEN "none" ELSE fdc.stat[d]
  BY <1>1, <1>2, <1>3, AfterSenseFacts
<1>5. fdc.event = "neutral" /\ ~waiting BY <1>2 DEF Idle
<1>6. TypeOK' BY <1>1, <1>2, <1>4 DEF TypeOK
<1>7. TransferInv' BY <1>2, <1>4, <1>5 DEF IInv, TransferInv, DataOK, DataPhases
<1>8. MatchedInv' BY <1>2, <1>4 DEF IInv, MatchedInv, Matched
<1>9. AnnouncedInv'
  <2>1. \A d \in Drives : fdc'.stat[d] \in Announced => fdc.stat[d] \in Announced
    BY <1>4 DEF Announced
  <2> QED BY <1>2, <1>4, <2>1 DEF IInv, AnnouncedInv
<1>10. SeekInv'
  <2> SUFFICES ASSUME upset \cap {"changed", "reset"} = {} PROVE SeekInv'
    BY <1>2 DEF SeekInv
  <2>1. /\ \A d \in Drives : fdc.timer[d] > 0 => fdc.istat[d] \in Announced
        /\ \A d \in owed : fdc.timer[d] > 0 \/ fdc.stat[d] \in Announced
    BY DEF IInv, SeekInv
  <2>2. \A d \in owed' : fdc'.timer[d] > 0 \/ fdc'.stat[d] \in Announced
    BY <1>1, <1>2, <1>4, <2>1 DEF Told
  <2> QED BY <1>4, <1>5, <2>1, <2>2 DEF SeekInv
<1>11. WaitInv' BY <1>2, <1>5, NoCall DEF IInv
<1> QED BY <1>6, <1>7, <1>8, <1>9, <1>10, <1>11 DEF IInv

LEMMA SenseDeviceStatusStep ==
  ASSUME IInv, NEW d \in Drives, NEW hd \in {0, 1}, SenseDeviceStatus(d, hd),
         UNCHANGED setup
  PROVE  IInv'
<1>1. fdc \in Controller /\ TypeOK /\ owed \subseteq Drives BY TypeFacts DEF IInv
<1> DEFINE q == [fdc EXCEPT !.us = d, !.hd = hd]
<1> DEFINE s == [q EXCEPT !.stat[d] = Address(q)]
<1>2. /\ Free(d) /\ fdc' = Neutral(s)
      /\ UNCHANGED <<irq, diskInt, waiting, timeout, shown, at, owed, upset, setup>>
  BY DEF SenseDeviceStatus, history, call
<1>3. q \in Controller BY ZenonT(60), <1>1 DEF Controller
<1>4. /\ q.us = d /\ q.dma = fdc.dma /\ q.tc = fdc.tc /\ q.stat = fdc.stat
      /\ q.istat = fdc.istat /\ q.timer = fdc.timer /\ q.armed = fdc.armed
  BY <1>1 DEF Controller
<1> HIDE DEF q
<1>5. s \in Controller BY <1>3, AddressFacts DEF Controller
<1>6. /\ s.us = d /\ s.dma = fdc.dma /\ s.tc = fdc.tc
      /\ s.istat = fdc.istat /\ s.timer = fdc.timer /\ s.armed = fdc.armed
  BY <1>3, <1>4 DEF Controller
<1>7. s.stat = [q.stat EXCEPT ![d] = Address(q)] BY <1>3 DEF Controller
<1>8. q.stat \in [Drives -> {"none", "address", "seek", "attention"}]
  BY <1>3 DEF Controller
<1>9. /\ \A e \in Drives \ {d} : s.stat[e] = fdc.stat[e]
      /\ s.stat[d] \in {"none", "address"}
  BY <1>4, <1>7, <1>8, AddressFacts
<1> HIDE DEF s
<1>10. /\ fdc' \in Controller /\ Kept(fdc', s) /\ fdc'.stat = s.stat
       /\ fdc'.event = "neutral" /\ fdc'.asked = NoTransfer
       /\ fdc'.tc = s.tc /\ fdc'.armed = s.armed /\ fdc'.dma = s.dma
  BY <1>2, <1>5, NeutralFacts
<1>11. fdc'.istat = fdc.istat /\ fdc'.timer = fdc.timer BY <1>6, <1>10 DEF Kept
<1>12. fdc.event = "neutral" /\ ~waiting /\ d \notin owed BY <1>2 DEF Free, Idle
<1>13. TypeOK' BY <1>1, <1>2, <1>10 DEF TypeOK
<1>14. TransferInv' BY <1>2, <1>10 DEF IInv, TransferInv, DataOK, DataPhases
<1>15. MatchedInv'
  BY <1>2, <1>6, <1>10, <1>12 DEF IInv, MatchedInv, Matched, DataPhases
<1>16. AnnouncedInv'
  <2>1. \A e \in Drives : fdc'.stat[e] \in Announced => fdc.stat[e] \in Announced
    BY <1>9, <1>10 DEF Announced
  <2> QED BY <1>2, <1>6, <1>10, <1>12, <2>1 DEF IInv, AnnouncedInv
<1>17. SeekInv'
  <2> SUFFICES ASSUME upset \cap {"changed", "reset"} = {} PROVE SeekInv'
    BY <1>2 DEF SeekInv
  <2>1. /\ \A e \in Drives : fdc.timer[e] > 0 => fdc.istat[e] \in Announced
        /\ \A e \in owed : fdc.timer[e] > 0 \/ fdc.stat[e] \in Announced
    BY DEF IInv, SeekInv
  <2>2. \A e \in owed' : fdc'.timer[e] > 0 \/ fdc'.stat[e] \in Announced
    BY <1>1, <1>2, <1>9, <1>10, <1>11, <1>12, <2>1
  <2> QED BY <1>10, <1>11, <2>1, <2>2 DEF SeekInv
<1>18. WaitInv' BY <1>2, <1>12, NoCall DEF IInv
<1> QED BY <1>13, <1>14, <1>15, <1>16, <1>17, <1>18 DEF IInv

\* READ ID.
LEMMA ReadIDStep ==
  ASSUME IInv, NEW d \in Drives, NEW mt \in BOOLEAN, ReadID(d, mt), UNCHANGED setup
  PROVE  IInv'
<1>1. fdc \in Controller /\ TypeOK BY TypeFacts DEF IInv
<1> DEFINE q == [fdc EXCEPT !.us = d, !.hd = 0]
<1> DEFINE ready == fdc.media[d] # "none"
<1> DEFINE s == IF ready THEN NextId(q, mt) ELSE q
<1>2. /\ Free(d) /\ fdc.treg[d] <= LastTrack
      /\ fdc' = Result(s, ready)
      /\ upset' = IF fdc'.treg = fdc.treg THEN upset ELSE upset \cup {"stepped"}
      /\ UNCHANGED <<irq, diskInt, waiting, timeout, shown, at, owed, setup>>
  BY DEF ReadID, call
<1>3. ready \in BOOLEAN OBVIOUS
<1> HIDE DEF ready
<1>4. q \in Controller BY ZenonT(60), <1>1 DEF Controller
<1>5. /\ q.us = d /\ q.treg = fdc.treg /\ q.stat = fdc.stat
      /\ q.istat = fdc.istat /\ q.timer = fdc.timer /\ q.ctrl = fdc.ctrl
      /\ q.media = fdc.media /\ q.delay = fdc.delay /\ q.next = fdc.next
  BY <1>1 DEF Controller
<1>6. Left(q, fdc, d) BY <1>5 DEF Left
<1> HIDE DEF q
<1>7. s \in Controller /\ Kept(s, q)
  <2>1. Kept(q, q) BY DEF Kept
  <2>2. q.treg[q.us] <= LastTrack BY <1>2, <1>5
  <2>3. NextId(q, mt) \in Controller /\ Kept(NextId(q, mt), q)
    BY <1>4, <2>2, NextIdFacts
  <2> QED BY <1>4, <2>1, <2>3
<1> HIDE DEF s
<1>8. /\ fdc' \in Controller /\ Kept(fdc', s) /\ fdc'.asked = s.asked
      /\ fdc'.event = "result" /\ fdc'.armed /\ ~fdc'.tc
  BY <1>2, <1>3, <1>7, ResultFacts
<1>9. Matched(fdc') /\ DataOK(fdc')
  BY <1>2, <1>3, <1>7, ResultTransferred DEF Transferred
<1>10. Left(fdc', fdc, d)
  <2>1. Kept(fdc', q) BY <1>4, <1>7, <1>8, KeptAfter
  <2> QED BY <1>6, <2>1, LeftAfter
<1>11. fdc'.asked = fdc.asked
  <2>1. q.asked = fdc.asked BY <1>1 DEF q, Controller
  <2>2. NextId(q, mt).asked = q.asked BY <1>4 DEF NextId, Controller
  <2>3. s.asked = fdc.asked BY <2>1, <2>2 DEF s
  <2> QED BY <1>8, <2>3
<1>12. fdc'.asked \in setup.transfers \cup {NoTransfer}
  BY <1>11 DEF IInv, TransferInv
<1>13. upset' \in {upset, upset \cup {"stepped"}} BY <1>2
<1>14. TypeOK' BY <1>1, <1>2, <1>8, <1>13 DEF TypeOK, Upsets
<1>15. ~waiting /\ d \notin owed BY <1>2 DEF Free, Idle
<1> QED BY <1>2, <1>8, <1>9, <1>10, <1>12, <1>13, <1>14, <1>15, CommandStep

\* int 1Bh.
LEMMA BiosCallStep ==
  ASSUME IInv, NEW d \in Drives, NEW c \in 0 .. LastTrack, NEW seek \in BOOLEAN,
         BiosCall(d, c, seek), UNCHANGED setup
  PROVE  IInv'
<1>1. /\ fdc \in Controller /\ TypeOK /\ at \in [Drives -> 0 .. LastTrack]
      /\ fdc.treg \in [Drives -> 0 .. LastTrack + 1] /\ owed \subseteq Drives
  BY TypeFacts DEF IInv, Controller
<1> DEFINE ready == fdc.media[d] # "none"
<1> DEFINE n == Neutral(fdc)
<1> DEFINE trk == IF ready THEN c ELSE n.treg[d]
<1> DEFINE q == [n EXCEPT !.us = d, !.crcn = 0, !.treg[d] = trk]
<1>2. /\ Callable(d) /\ diskInt' = diskInt \ {d} /\ waiting' = TRUE
      /\ at' = [at EXCEPT ![d] = IF fdc.media[d] = "none" THEN @ ELSE c]
      /\ UNCHANGED <<irq, timeout, owed, upset, setup>>
  BY DEF BiosCall
<1>3. PICK ok \in {ready} \cup {FALSE} :
        IF seek /\ ready
          THEN fdc' = [q EXCEPT !.stat[d] = "seek", !.armed = TRUE] /\ shown' = "seek"
          ELSE fdc' = Result(q, ok) /\ shown' = "result"
  BY DEF BiosCall
<1>4. ok \in BOOLEAN OBVIOUS
<1>5. at' \in [Drives -> 0 .. LastTrack] BY <1>1, <1>2
<1>6. /\ n \in Controller /\ Kept(n, fdc) /\ n.stat = fdc.stat
      /\ n.event = "neutral" /\ n.asked = NoTransfer
      /\ n.tc = fdc.tc /\ n.armed = fdc.armed /\ n.dma = fdc.dma
  BY <1>1, NeutralFacts
<1>7. ~waiting /\ d \notin owed /\ fdc.event \in {"neutral", "result"}
  BY <1>2 DEF Callable
<1> HIDE DEF ready, n
<1>8. q \in Controller
  <2>1. n.treg \in [Drives -> 0 .. LastTrack + 1] BY <1>6 DEF Controller
  <2>2. trk \in 0 .. LastTrack + 1 /\ 0 \in 0 .. Sectors BY <2>1, Sizes
  <2> HIDE DEF trk
  <2> QED BY ZenonT(60), <1>6, <2>2 DEF Controller
<1>9. /\ q.us = d /\ q.stat = fdc.stat /\ q.event = "neutral" /\ q.asked = NoTransfer
      /\ q.istat = fdc.istat /\ q.timer = fdc.timer /\ q.ctrl = fdc.ctrl
      /\ q.media = fdc.media /\ q.delay = fdc.delay /\ q.next = fdc.next
  BY <1>6 DEF Controller, Kept
<1>10. q.dma = fdc.dma /\ q.tc = fdc.tc BY <1>6 DEF Controller
<1> HIDE DEF q
<1>11. CASE seek /\ ready
  <2>1. fdc' = [q EXCEPT !.stat[d] = "seek", !.armed = TRUE] /\ shown' = "seek"
    BY <1>3, <1>11
  <2>2. fdc' \in Controller BY <1>8, <2>1 DEF Controller
  <2>3. /\ fdc'.us = d /\ fdc'.event = "neutral" /\ fdc'.asked = NoTransfer
        /\ fdc'.istat = fdc.istat /\ fdc'.timer = fdc.timer
        /\ fdc'.dma = fdc.dma /\ fdc'.tc = fdc.tc /\ fdc'.armed
        /\ fdc'.stat = [q.stat EXCEPT ![d] = "seek"]
    BY <1>8, <1>9, <1>10, <2>1 DEF Controller
  <2>4. q.stat \in [Drives -> {"none", "address", "seek", "attention"}]
    BY <1>8 DEF Controller
  <2>5. \A e \in Drives \ {d} : fdc'.stat[e] = fdc.stat[e] BY <1>9, <2>3, <2>4
  <2>6. TypeOK' BY <1>1, <1>2, <1>5, <2>1, <2>2 DEF TypeOK
  <2>7. TransferInv' BY <1>2, <2>3 DEF IInv, TransferInv, DataOK, DataPhases
  <2>8. MatchedInv' BY <1>2, <1>7, <2>3 DEF IInv, MatchedInv, Matched, DataPhases
  <2>9. AnnouncedInv' BY <2>3 DEF AnnouncedInv
  <2>10. SeekInv' BY <1>1, <1>2, <1>7, <2>3, <2>5 DEF IInv, SeekInv
  <2>11. WaitInv'
    <3>1. timeout' = 0 BY <1>2, <1>7 DEF IInv, WaitInv
    <3> QED BY <1>2, <2>1, <2>3, <3>1 DEF WaitInv, DataPhases
  <2> QED BY <2>6, <2>7, <2>8, <2>9, <2>10, <2>11 DEF IInv
<1>12. CASE ~(seek /\ ready)
  <2>1. fdc' = Result(q, ok) /\ shown' = "result" BY <1>3, <1>12
  <2>2. /\ fdc' \in Controller /\ Kept(fdc', q) /\ fdc'.asked = NoTransfer
        /\ fdc'.event = "result" /\ fdc'.armed /\ ~fdc'.tc
    BY <1>4, <1>8, <1>9, <2>1, ResultFacts
  <2>3. Matched(fdc') /\ DataOK(fdc')
    BY <1>4, <1>8, <2>1, ResultTransferred DEF Transferred
  <2>4. Left(fdc', fdc, d)
    <3>1. Left(q, fdc, d) BY <1>9 DEF Left
    <3> QED BY <2>2, <3>1, LeftAfter
  <2>5. fdc'.asked \in setup.transfers \cup {NoTransfer} BY <2>2
  <2>6. TypeOK' BY <1>1, <1>2, <1>5, <2>1, <2>2 DEF TypeOK
  <2> QED BY <1>2, <1>7, <2>1, <2>2, <2>3, <2>4, <2>5, <2>6, CommandStep
<1> QED BY <1>11, <1>12

\* The control register.
LEMMA OutCtrlStep ==
  ASSUME IInv, NEW b \in setup.ports \cap {"motor", "dmae", "reset"},
         NEW dat, dat = IF b \in fdc.ctrl THEN fdc.ctrl \ {b} ELSE fdc.ctrl \cup {b},
         OutCtrl(dat), UNCHANGED setup
  PROVE  IInv'
<1>1. /\ fdc \in Controller /\ TypeOK /\ DataOK(fdc) /\ fdc.dma \in Channel
      /\ fdc.ctrl \in SUBSET {"motor", "dmae", "reset"}
      /\ fdc.timer \in [Drives -> 0 .. IntDelay]
  BY TypeFacts DEF IInv, TransferInv, Controller
<1> DEFINE toggled == (fdc.ctrl \ dat) \cup (dat \ fdc.ctrl)
<1> DEFINE rises == dat \ fdc.ctrl
<1> DEFINE n == Neutral(fdc)
<1> DEFINE m == [n EXCEPT !.dma = SetReady(n.dma, FALSE)]
<1> DEFINE q == IF "dmae" \notin toggled THEN fdc ELSE m
<1> DEFINE r == IF "reset" \notin rises THEN q ELSE Neutral(q)
<1> DEFINE s == IF "reset" \in rises /\ "motor" \in dat
                  THEN [r EXCEPT !.istat = r.stat,
                                 !.timer = [d \in Drives |-> IntDelay]]
                  ELSE r
<1> DEFINE spun == IF setup.ext /\ "motor" \in rises
                     THEN {d \in Drives : s.media[d] # "none"} ELSE {}
<1> DEFINE istat == [d \in Drives |-> IF d \in spun THEN "attention" ELSE s.istat[d]]
<1> DEFINE timer == [d \in Drives |-> IF d \in spun THEN IntDelay ELSE s.timer[d]]
<1>2. /\ ~waiting
      /\ fdc' = [s EXCEPT
                   !.istat = [d \in Drives |-> IF d \in spun THEN "attention" ELSE @[d]],
                   !.timer = [d \in Drives |-> IF d \in spun THEN IntDelay ELSE @[d]],
                   !.ctrl = dat]
      /\ upset' = IF "reset" \in rises \/ s.event # fdc.event
                    THEN upset \cup {"reset"} ELSE upset
      /\ UNCHANGED <<irq, diskInt, waiting, timeout, shown, at, owed, setup>>
  BY DEF OutCtrl, call
<1>3. /\ dat \in SUBSET {"motor", "dmae", "reset"}
      /\ "dmae" \in toggled => "dmae" \in setup.ports
      /\ "reset" \in rises => "reset" \in setup.ports
  BY <1>1
<1>4. /\ n \in Controller /\ Kept(n, fdc) /\ n.stat = fdc.stat
      /\ n.event = "neutral" /\ n.asked = NoTransfer
      /\ n.tc = fdc.tc /\ n.armed = fdc.armed /\ n.dma = fdc.dma
  BY <1>1, NeutralFacts
<1> HIDE DEF toggled, rises, n
<1>5. /\ m \in Controller /\ m.us = fdc.us /\ m.stat = fdc.stat /\ m.istat = fdc.istat
      /\ m.timer = fdc.timer /\ m.event = "neutral" /\ m.asked = NoTransfer
      /\ m.tc = fdc.tc /\ m.armed = fdc.armed
      /\ ~m.dma.ready /\ ~m.dma.working
  <2> DEFINE ch == SetReady(n.dma, FALSE)
  <2>1. ch \in Channel /\ ~ch.ready /\ ~ch.working BY <1>1, <1>4, ChannelFacts
  <2>2. m = [n EXCEPT !.dma = ch] OBVIOUS
  <2> HIDE DEF ch, m
  <2>3. m \in Controller BY <1>4, <2>1, <2>2 DEF Controller
  <2>4. /\ m.us = n.us /\ m.stat = n.stat /\ m.istat = n.istat
        /\ m.timer = n.timer /\ m.event = n.event /\ m.asked = n.asked
        /\ m.tc = n.tc /\ m.armed = n.armed /\ m.dma = ch
    BY <1>4, <2>2 DEF Controller
  <2> QED BY <1>4, <2>1, <2>3, <2>4 DEF Kept
<1> HIDE DEF m
<1>6. /\ q \in Controller /\ q.us = fdc.us /\ q.stat = fdc.stat /\ q.istat = fdc.istat
      /\ q.timer = fdc.timer /\ q.armed = fdc.armed
  BY <1>1, <1>5
<1>7. q = fdc \/ (q = m /\ "dmae" \in toggled) OBVIOUS
<1> HIDE DEF q
<1> DEFINE w == Neutral(q)
<1>8. /\ w \in Controller /\ w.us = fdc.us /\ w.stat = fdc.stat
      /\ w.istat = fdc.istat /\ w.timer = fdc.timer /\ w.event = "neutral"
      /\ w.asked = NoTransfer /\ w.armed = fdc.armed
  <2>1. /\ w \in Controller /\ Kept(w, q) /\ w.stat = q.stat
        /\ w.event = "neutral" /\ w.asked = NoTransfer /\ w.armed = q.armed
    BY <1>6, NeutralFacts
  <2> HIDE DEF w
  <2> QED BY <1>6, <2>1 DEF Kept
<1>9. r = q \/ (r = w /\ "reset" \in rises) OBVIOUS
<1> HIDE DEF w
<1>10. /\ r \in Controller /\ r.us = fdc.us /\ r.stat = fdc.stat
       /\ r.istat = fdc.istat /\ r.timer = fdc.timer /\ r.armed = fdc.armed
  BY <1>6, <1>8, <1>9
<1> HIDE DEF r
<1>11. IntDelay \in 0 .. IntDelay /\ IntDelay > 0 BY Sizes
<1>12. /\ s \in Controller /\ s.us = fdc.us /\ s.stat = fdc.stat /\ s.event = r.event
       /\ s.asked = r.asked /\ s.armed = fdc.armed /\ s.dma = r.dma /\ s.tc = r.tc
       /\ s.bufcnt = r.bufcnt /\ s.r = r.r
       /\ \A d \in Drives : s.istat[d] \in {fdc.istat[d], fdc.stat[d]}
       /\ "reset" \notin rises => s = r
  <2>1. CASE s = r BY <1>10, <2>1
  <2>2. CASE s # r
    <3> DEFINE delays == [d \in Drives |-> IntDelay]
    <3>1. /\ s = [r EXCEPT !.istat = r.stat, !.timer = delays] /\ "reset" \in rises
      BY <2>2
    <3>2. delays \in [Drives -> 0 .. IntDelay] BY <1>11
    <3> HIDE DEF s, delays
    <3>3. s \in Controller BY <1>10, <3>1, <3>2 DEF Controller
    <3>4. /\ s.us = r.us /\ s.stat = r.stat /\ s.event = r.event /\ s.asked = r.asked
          /\ s.armed = r.armed /\ s.dma = r.dma /\ s.tc = r.tc /\ s.bufcnt = r.bufcnt
          /\ s.r = r.r /\ s.istat = r.stat
      BY <1>10, <3>1 DEF Controller
    <3> QED BY <1>10, <3>1, <3>3, <3>4
  <2> QED BY <2>1, <2>2
<1>13. /\ s.istat \in [Drives -> {"none", "address", "seek", "attention"}]
       /\ s.timer \in [Drives -> 0 .. IntDelay]
  BY <1>12 DEF Controller
<1>14. fdc' = [s EXCEPT !.istat = istat, !.timer = timer, !.ctrl = dat]
  <2> HIDE DEF s, spun
  <2> QED BY <1>2, <1>12 DEF Controller
<1> HIDE DEF s, spun
<1>15. /\ istat \in [Drives -> {"none", "address", "seek", "attention"}]
       /\ timer \in [Drives -> 0 .. IntDelay]
       /\ \A d \in Drives : \/ istat[d] = "attention" /\ timer[d] = IntDelay
                            \/ istat[d] = s.istat[d] /\ timer[d] = s.timer[d]
  BY <1>11, <1>13
<1> HIDE DEF istat, timer
<1>16. fdc' \in Controller BY ZenonT(60), <1>3, <1>12, <1>14, <1>15 DEF Controller
<1>17. /\ fdc'.us = fdc.us /\ fdc'.stat = fdc.stat /\ fdc'.event = r.event
       /\ fdc'.asked = r.asked /\ fdc'.armed = fdc.armed /\ fdc'.dma = r.dma
       /\ fdc'.tc = r.tc /\ fdc'.bufcnt = r.bufcnt /\ fdc'.r = r.r
       /\ fdc'.istat = istat /\ fdc'.timer = timer
  BY <1>12, <1>14 DEF Controller
<1>18. upset' \in {upset, upset \cup {"reset"}} BY <1>2
<1>19. "reset" \notin upset' =>
         /\ "reset" \notin upset /\ "reset" \notin rises
         /\ r = q /\ s = r /\ r.event = fdc.event /\ upset' = upset
  BY <1>2, <1>9, <1>12
<1>20. TypeOK' BY <1>1, <1>2, <1>16, <1>18 DEF TypeOK, Upsets
<1>21. TransferInv'
  <2>1. r = fdc \/ (r.event = "neutral" /\ r.asked = NoTransfer)
    BY <1>5, <1>7, <1>8, <1>9
  <2>2. DataOK(fdc') BY <1>1, <1>17, <2>1 DEF DataOK, DataPhases
  <2>3. fdc'.asked \in setup.transfers \cup {NoTransfer}
    BY <1>17, <2>1 DEF IInv, TransferInv
  <2>4. s.event # fdc.event => "dmae" \in toggled \/ "reset" \in rises
    BY <1>7, <1>9, <1>12
  <2>5. "reset" \in upset' => setup.ports \cap {"dmae", "reset"} # {}
    BY <1>2, <1>3, <2>4 DEF IInv, TransferInv
  <2> QED BY <1>2, <2>2, <2>3, <2>5 DEF TransferInv
<1>22. MatchedInv'
  <2>1. CASE q = fdc BY <1>17, <1>19, <2>1 DEF IInv, MatchedInv, Matched
  <2>2. CASE q = m
    <3>1. "reset" \notin upset' => fdc'.event = "neutral" /\ fdc'.dma = m.dma
                                   /\ fdc'.tc = fdc.tc
      BY <1>5, <1>17, <1>19, <2>2
    <3> QED BY <1>5, <1>19, <3>1 DEF IInv, MatchedInv, Matched, DataPhases
  <2> QED BY <1>7, <2>1, <2>2
<1>23. AnnouncedInv' BY <1>2, <1>17, <1>19 DEF IInv, AnnouncedInv
<1>24. SeekInv'
  <2> SUFFICES ASSUME (upset \cap {"changed", "reset"} = {})' PROVE SeekInv'
    BY DEF SeekInv
  <2>1. /\ upset \cap {"changed", "reset"} = {} /\ s.istat = fdc.istat
        /\ s.timer = fdc.timer /\ r.event = fdc.event
    BY <1>10, <1>19
  <2>2. /\ fdc.event # "neutral" => fdc.us \notin owed
        /\ \A d \in Drives : fdc.timer[d] > 0 => fdc.istat[d] \in Announced
        /\ \A d \in owed : fdc.timer[d] > 0 \/ fdc.stat[d] \in Announced
    BY <2>1 DEF IInv, SeekInv
  <2>3. owed \subseteq Drives BY TypeFacts DEF IInv
  <2>4. \A d \in Drives : fdc'.timer[d] > 0 => fdc'.istat[d] \in Announced
    BY <1>15, <1>17, <2>1, <2>2 DEF Announced
  <2>5. \A d \in owed : fdc'.timer[d] > 0 \/ fdc'.stat[d] \in Announced
    BY <1>11, <1>15, <1>17, <2>1, <2>2, <2>3
  <2> QED BY <1>2, <1>17, <2>1, <2>2, <2>4, <2>5 DEF SeekInv
<1>25. WaitInv' BY <1>2, NoCall DEF IInv
<1> QED BY <1>20, <1>21, <1>22, <1>23, <1>24, <1>25 DEF IInv

\* The DMA controller is cleared.
LEMMA ClearDmaStep ==
  ASSUME IInv, ClearDma, UNCHANGED setup
  PROVE  IInv'
<1>1. fdc \in Controller /\ TypeOK /\ fdc.dma \in Channel
  BY TypeFacts DEF IInv, Controller
<1>2. /\ fdc' = [fdc EXCEPT !.dma = MasterClear(@)] /\ ~waiting
      /\ upset' \in {upset, upset \cup {"cleared"}}
      /\ UNCHANGED <<irq, diskInt, waiting, timeout, shown, at, owed, setup>>
  BY DEF ClearDma, call
<1>3. MasterClear(fdc.dma) \in Channel /\ MasterClear(fdc.dma).ready = fdc.dma.ready
      /\ MasterClear(fdc.dma).working = fdc.dma.working
  BY <1>1, ChannelFacts
<1>4. fdc' \in Controller BY <1>1, <1>2, <1>3 DEF Controller
<1>5. /\ fdc'.event = fdc.event /\ fdc'.asked = fdc.asked /\ fdc'.us = fdc.us
      /\ fdc'.r = fdc.r /\ fdc'.bufcnt = fdc.bufcnt
      /\ fdc'.dma = MasterClear(fdc.dma)
      /\ fdc'.tc = fdc.tc /\ fdc'.istat = fdc.istat /\ fdc'.timer = fdc.timer
      /\ fdc'.stat = fdc.stat /\ fdc'.armed = fdc.armed
  BY <1>1, <1>2 DEF Controller
<1>6. \A x \in {"reset", "changed"} : x \in upset' <=> x \in upset BY <1>2
<1>7. TypeOK' BY <1>1, <1>2, <1>4 DEF TypeOK, Upsets
<1>8. TransferInv' BY <1>2, <1>5, <1>6 DEF IInv, TransferInv, DataOK
<1>9. MatchedInv' BY <1>3, <1>5, <1>6 DEF IInv, MatchedInv, Matched
<1>10. AnnouncedInv' BY <1>2, <1>5, <1>6 DEF IInv, AnnouncedInv
<1>11. SeekInv' BY <1>2, <1>5, <1>6 DEF IInv, SeekInv
<1>12. WaitInv' BY <1>2, NoCall DEF IInv
<1> QED BY <1>7, <1>8, <1>9, <1>10, <1>11, <1>12 DEF IInv

-----------------------------------------------------------------------------

\* No step leaves the invariant.
LEMMA NextLemma == IInv /\ [Next /\ UNCHANGED setup]_<<vars, setup>> => IInv'
<1> SUFFICES ASSUME IInv, [Next /\ UNCHANGED setup]_<<vars, setup>> PROVE IInv'
  OBVIOUS
<1>1. CASE UNCHANGED <<vars, setup>>
  <2>1. UNCHANGED <<fdc, irq, diskInt, waiting, timeout, shown, at, owed, upset, setup>>
    BY <1>1 DEF vars, history, call
  <2>2. TypeOK' BY <2>1 DEF IInv, TypeOK
  <2>3. TransferInv' BY <2>1 DEF IInv, TransferInv, DataOK
  <2>4. MatchedInv' BY <2>1 DEF IInv, MatchedInv, Matched
  <2>5. AnnouncedInv' BY <2>1 DEF IInv, AnnouncedInv
  <2>6. SeekInv' BY <2>1 DEF IInv, SeekInv
  <2>7. WaitInv' BY <2>1 DEF IInv, WaitInv
  <2> QED BY <2>2, <2>3, <2>4, <2>5, <2>6, <2>7 DEF IInv
<1>2. CASE Next /\ UNCHANGED setup
  <2>1. /\ setup.changed \subseteq Drives /\ setup.units \subseteq Drives
        /\ setup.media \subseteq Media /\ setup.tracks \subseteq 0 .. LastTrack
    BY TypeFacts DEF IInv, Setup
  <2>2. CASE User
    <3>1. PICK d \in setup.changed, m \in setup.media \cup {"none"} : SetDisk(d, m)
      BY <2>2 DEF User
    <3> QED BY <1>2, <2>1, <3>1, SetDiskStep
  <2>3. CASE Machine
    BY <1>2, <2>3, DmaByteStep, InterruptStep, BiosHandlerStep, WaitPollsStep,
       WaitReturnsStep, FrameStep
    DEF Machine
  <2>4. CASE GuestCommands
    <3>1. CASE \E t \in setup.transfers, n \in setup.counts : Command(t, n)
      BY <1>2, <3>1, CommandIsStep
    <3>2. CASE ReadResult BY <1>2, <3>2, ReadResultStep
    <3>3. CASE /\ "seek" \in setup.ports
               /\ \E d \in setup.units :
                    Recalibrate(d) \/ \E c \in setup.tracks : Seek(d, c)
      BY <1>2, <2>1, <3>3, RecalibrateStep, SeekIsStep
    <3>4. CASE SenseInterrupt BY <1>2, <3>4, SenseInterruptStep
    <3>5. CASE \E d \in setup.units, hd \in {0, 1} : SenseDeviceStatus(d, hd)
      BY <1>2, <2>1, <3>5, SenseDeviceStatusStep
    <3>6. CASE \E d \in setup.units, mt \in BOOLEAN : ReadID(d, mt)
      BY <1>2, <2>1, <3>6, ReadIDStep
    <3>7. CASE /\ "bios" \in setup.ports
               /\ \E d \in setup.units, c \in setup.tracks, seek \in BOOLEAN :
                    BiosCall(d, c, seek)
      BY <1>2, <2>1, <3>7, BiosCallStep
    <3>8. CASE \E b \in setup.ports \cap {"motor", "dmae", "reset"} :
                 OutCtrl(IF b \in fdc.ctrl THEN fdc.ctrl \ {b} ELSE fdc.ctrl \cup {b})
      <4>1. PICK b \in setup.ports \cap {"motor", "dmae", "reset"} :
              OutCtrl(IF b \in fdc.ctrl THEN fdc.ctrl \ {b} ELSE fdc.ctrl \cup {b})
        BY <3>8
      <4> DEFINE dat == IF b \in fdc.ctrl THEN fdc.ctrl \ {b} ELSE fdc.ctrl \cup {b}
      <4>2. OutCtrl(dat) /\ dat = IF b \in fdc.ctrl THEN fdc.ctrl \ {b}
                                  ELSE fdc.ctrl \cup {b}
        BY <4>1
      <4> HIDE DEF dat
      <4> QED BY <1>2, <4>2, OutCtrlStep
    <3>9. CASE ClearDma BY <1>2, <3>9, ClearDmaStep
    <3> QED BY <2>4, <3>1, <3>2, <3>3, <3>4, <3>5, <3>6, <3>7, <3>8, <3>9
            DEF GuestCommands
  <2> QED BY <1>2, <2>2, <2>3, <2>4 DEF Next
<1> QED BY <1>1, <1>2

THEOREM FdcInvariant == Spec => []IInv
<1>1. Init => IInv BY InitLemma
<1>2. IInv /\ [Next /\ UNCHANGED setup]_<<vars, setup>> => IInv' BY NextLemma
<1> QED BY <1>1, <1>2, PTL DEF Spec

\* The registers of the controller, of its DMA channel and of its drives stay within
\* their ranges: no cylinder beyond the one after the last, no sector beyond the one
\* after the last of a track, no byte beyond the end of a sector.
THEOREM TypeCorrect == Spec => []TypeOK
<1>1. IInv => TypeOK BY DEF IInv
<1> QED BY <1>1, FdcInvariant, PTL

\* fdc_interrupt and dmac_check keep together: the DMA channel is asked for bytes in
\* the data phases only, and no terminal count is left over.
THEOREM RequestsMatchPhases == Spec => []RequestInDataPhase
<1>1. IInv => RequestInDataPhase
  <2> SUFFICES ASSUME IInv, "reset" \notin upset
               PROVE  /\ fdc.dma.ready = (fdc.event \in DataPhases)
                      /\ fdc.dma.working => fdc.dma.ready
                      /\ ~fdc.tc
    BY DEF RequestInDataPhase
  <2>1. /\ fdc.dma.ready <=> fdc.event \in DataPhases
        /\ fdc.dma.working => fdc.dma.ready
        /\ ~fdc.tc
    BY DEF IInv, MatchedInv, Matched
  <2>2. fdc.dma.ready \in BOOLEAN
    <3>1. fdc.dma \in Channel BY TypeFacts DEF IInv, Controller
    <3> QED BY <3>1 DEF Channel
  <2>3. fdc.dma.ready = (fdc.event \in DataPhases) BY <2>1, <2>2
  <2> QED BY <2>1, <2>3
<1> QED BY <1>1, FdcInvariant, PTL

\* No interrupt is lost: while the controller is at rest and a drive has the end of a
\* seek or a change of its disk to tell, an interrupt is on its way.
THEOREM StatusesAreAnnounced == Spec => []PendingIsAnnounced
<1>1. IInv => PendingIsAnnounced
  BY DEF IInv, AnnouncedInv, PendingIsAnnounced, Told
<1> QED BY <1>1, FdcInvariant, PTL

\* Every seek is reported, for any number of drives that are sought at once.
THEOREM SeeksAreReported == Spec => []SeekIsReported
<1>1. IInv => SeekIsReported
  BY TypeFacts DEF IInv, SeekInv, SeekIsReported, Told
<1> QED BY <1>1, FdcInvariant, PTL

\* bios0x1b_wait returns only when the handler has read what this call has shown, or
\* in virtual 8086 mode, when its own rounds have run out; whatever else the guest
\* does, and also after a call that has given up.
THEOREM WaitsMeanDone == Spec => WaitMeansDone
<1>1. IInv /\ [Next /\ UNCHANGED setup]_<<vars, setup>> =>
        [waiting /\ ~waiting' /\ "changed" \notin upset =>
           shown = "nothing" \/ (setup.vm86 /\ timeout > WaitLimit)]_vars
  <2> SUFFICES ASSUME IInv, Next, waiting, ~waiting', "changed" \notin upset
               PROVE  shown = "nothing" \/ (setup.vm86 /\ timeout > WaitLimit)
    BY DEF vars
  <2>1. fdc.us \in diskInt \/ timeout > WaitLimit
    BY ZenonT(60) DEF Next, User, SetDisk, Machine, DmaByte, Interrupt, BiosHandler,
           WaitPolls, WaitReturns, Frame, GuestCommands, Command, ReadResult, Recalibrate,
           Seek, SenseInterrupt, SenseDeviceStatus, ReadID, BiosCall, OutCtrl, ClearDma,
           call
  <2>2. CASE fdc.us \in diskInt BY <2>2 DEF IInv, WaitInv
  <2>3. CASE timeout > WaitLimit
    <3>1. timeout > 0 BY <2>3, TypeFacts, Sizes DEF IInv
    <3> QED BY <2>3, <3>1 DEF IInv, WaitInv
  <2> QED BY <2>1, <2>2, <2>3
<1> QED BY <1>1, FdcInvariant, PTL DEF Spec, WaitMeansDone

-----------------------------------------------------------------------------
(***************************************************************************)
(* The order of the sectors.  While a transfer goes on, the head is at the *)
(* sector that comes next in its plan, and the bytes that have gone        *)
(* through the DMA channel and those it still counts make up its bytes.    *)
(***************************************************************************)

\* The sector r of head hd comes after n sectors of the transfer t.
Comes(t, n, hd, r) ==
  \/ hd = t.hd /\ r = t.r + n /\ (t.r <= t.eot => r <= t.eot)
  \/ /\ hd = 1 /\ t.hd = 0 /\ t.mt /\ t.r <= t.eot /\ r <= t.eot
     /\ n = (t.eot + 1 - t.r) + (r - 1)

\* The sectors m are the first of p.
Begins(m, p) == Len(m) <= Len(p) /\ \A i \in 1 .. Len(m) : m[i] = p[i]

Bytes(n) == n * SectorSize

\* The sectors that n bytes fill, the last one perhaps in part.
Filled(n) == (n + SectorSize - 1) \div SectorSize

\* The bytes that have gone through the DMA channel: a sector is read before its
\* bytes go, and written behind them.
Gone(q) ==
  IF q.event = "bufsend2" THEN Bytes(Len(q.moved)) - q.bufcnt
  ELSE Bytes(Len(q.moved)) + SectorSize - q.bufcnt

\* What a transfer has moved, and what it has moved when it reports success.
MovedOK(q) ==
  /\ Begins(q.moved, Plan(q.asked)) /\ Len(q.moved) <= Filled(q.bytes)
  /\ q.event = "result" /\ q.ok => Len(q.moved) \in {Filled(q.bytes), Len(Plan(q.asked))}

\* The sector in the buffer, and the bytes to come.
BufferOK(q) ==
  /\ q.us = q.asked.us /\ q.treg[q.us] = q.asked.c
  /\ q.event = "bufsend2" => /\ Len(q.moved) > 0
                             /\ Comes(q.asked, Len(q.moved) - 1, q.hd, q.r)
  /\ q.event = "bufrecv" => Comes(q.asked, Len(q.moved), q.hd, q.r)
  /\ q.dma.working => ~q.dma.masked
  /\ ~q.dma.masked => Gone(q) + q.dma.leng + 1 = q.bytes

\* The heads are where the guest put them, and the transfer, if any, is in order.
OrderOK(q, heads) ==
  /\ q.treg = heads
  /\ q.event = "neutral" => q.bytes = 0 /\ q.moved = <<>>
  /\ q.event \in DataPhases => q.bytes > 0 /\ BufferOK(q)
  /\ q.bytes > 0 => MovedOK(q)

OrderInv == upset = {} => OrderOK(fdc, at)

LEMMA BytesFacts ==
  ASSUME NEW n \in Int
  PROVE  /\ SectorSize \in Int /\ SectorSize > 0 /\ Bytes(n) \in Int
         /\ Bytes(n + 1) = Bytes(n) + SectorSize
         /\ Bytes(n + 1) - SectorSize = Bytes(n)
<1>1. SectorSize \in Nat /\ SectorSize > 0 BY Sizes
<1> QED BY <1>1 DEF Bytes

LEMMA FilledFacts ==
  ASSUME NEW n \in Nat
  PROVE  /\ Filled(n) \in Int
         /\ \A k \in Nat : k + 1 <= Filled(n) <=> Bytes(k) < n
<1>1. SectorSize \in Nat /\ SectorSize > 0 BY Sizes
<1> DEFINE S == SectorSize
           f == (n + S - 1) \div S
<1>2. f \in Int /\ S * f <= n + S - 1 /\ n + S - 1 < S * f + S
  <2>1. n + S - 1 \in Int BY <1>1
  <2> QED BY <1>1, <2>1
<1> HIDE DEF f
<1>3. ASSUME NEW k \in Nat PROVE k + 1 <= f <=> k * S < n
  <2>1. ASSUME k + 1 <= f PROVE k * S < n
    <3>1. S * (k + 1) <= S * f BY <1>1, <1>2, <2>1
    <3>2. S * (k + 1) = k * S + S BY <1>1
    <3>3. k * S \in Int /\ S * f \in Int BY <1>1, <1>2
    <3> QED BY <1>1, <1>2, <3>1, <3>2, <3>3
  <2>2. ASSUME ~ (k + 1 <= f) PROVE ~ (k * S < n)
    <3>1. f <= k BY <1>2, <2>2
    <3>2. S * f <= S * k BY <1>1, <1>2, <3>1
    <3>3. S * k = k * S /\ k * S \in Int /\ S * f \in Int BY <1>1, <1>2
    <3> QED BY <1>1, <1>2, <3>2, <3>3
  <2> QED BY <2>1, <2>2
<1> QED BY <1>2, <1>3 DEF Filled, Bytes, f

-----------------------------------------------------------------------------

\* The sector that comes after n others is the next one of the plan, and the last one
\* of it when no other head follows.
LEMMA PlanFacts ==
  ASSUME NEW t \in Transfer, NEW n \in Nat, NEW hd \in {0, 1}, NEW r \in 1 .. Sectors,
         Comes(t, n, hd, r)
  PROVE  /\ Len(Plan(t)) \in Nat /\ n + 1 <= Len(Plan(t))
         /\ Plan(t)[n + 1] = <<t.us, t.c, hd, r>>
         /\ r = t.eot /\ ~ (t.mt /\ hd = 0) => Len(Plan(t)) = n + 1
<1>1. /\ t.r \in 1 .. Sectors /\ t.eot \in 1 .. Sectors /\ Sectors \in Nat
      /\ t.hd \in {0, 1} /\ t.mt \in BOOLEAN
  BY Sizes DEF Transfer
<1>5. /\ t.r \in Nat /\ t.eot \in Nat /\ 1 \in Nat
      /\ t.r <= Sectors + 1 /\ 1 <= t.eot + 1
      /\ ~ (t.r > t.eot) => t.r <= t.eot + 1
  BY <1>1
<1>2. CASE t.r > t.eot
  <2>1. hd = t.hd /\ r = t.r + n BY <1>1, <1>2 DEF Comes
  <2>2. Plan(t) = Side(t, t.hd, t.r, Sectors) BY <1>2 DEF Plan
  <2>3. /\ Len(Plan(t)) = Sectors + 1 - t.r
        /\ \A i \in 1 .. Sectors + 1 - t.r : Plan(t)[i] = <<t.us, t.c, t.hd, t.r + i - 1>>
    <3> DEFINE m == Sectors + 1 - t.r
               p == Plan(t)
    <3>1. t.r \in Nat /\ Sectors \in Nat /\ m \in Nat /\ m = Sectors + 1 - t.r
      BY <1>1, <1>5
    <3>2. p = [i \in 1 .. m |-> <<t.us, t.c, t.hd, t.r + i - 1>>]
      BY <2>2, <3>1 DEF Side
    <3> HIDE DEF m, p
    <3>3. Len(p) = m /\ \A i \in 1 .. m : p[i] = <<t.us, t.c, t.hd, t.r + i - 1>>
      <4>1. \A i \in 1 .. m : t.r + i - 1 \in Nat /\ 1 + i - 1 \in Nat BY <1>5, <3>1
      <4> QED BY SMTT(30), <3>1, <3>2, <4>1
    <3> QED BY <3>3 DEF m, p
  <2>4. n + 1 \in 1 .. Sectors + 1 - t.r /\ t.r + (n + 1) - 1 = r BY <1>1, <2>1
  <2>5. r # t.eot BY <1>1, <1>2, <2>1
  <2> QED BY <1>1, <2>1, <2>3, <2>4, <2>5
<1>3. CASE ~ (t.r > t.eot) /\ ~ (t.mt /\ t.hd = 0)
  <2>1. hd = t.hd /\ r = t.r + n /\ r <= t.eot BY <1>1, <1>3 DEF Comes
  <2>2. Plan(t) = Side(t, t.hd, t.r, t.eot) BY <1>3 DEF Plan
  <2>3. /\ Len(Plan(t)) = t.eot + 1 - t.r
        /\ \A i \in 1 .. t.eot + 1 - t.r : Plan(t)[i] = <<t.us, t.c, t.hd, t.r + i - 1>>
    <3> DEFINE m == t.eot + 1 - t.r
               p == Plan(t)
    <3>1. t.r \in Nat /\ t.eot \in Nat /\ m \in Nat /\ m = t.eot + 1 - t.r
      BY <1>3, <1>5
    <3>2. p = [i \in 1 .. m |-> <<t.us, t.c, t.hd, t.r + i - 1>>]
      BY <2>2, <3>1 DEF Side
    <3> HIDE DEF m, p
    <3>3. Len(p) = m /\ \A i \in 1 .. m : p[i] = <<t.us, t.c, t.hd, t.r + i - 1>>
      <4>1. \A i \in 1 .. m : t.r + i - 1 \in Nat /\ 1 + i - 1 \in Nat BY <1>5, <3>1
      <4> QED BY <3>1, <3>2, <4>1
    <3> QED BY <3>3 DEF m, p
  <2>4. n + 1 \in 1 .. t.eot + 1 - t.r /\ t.r + (n + 1) - 1 = r BY <1>1, <2>1
  <2> QED BY SMTT(30), <1>1, <2>1, <2>3, <2>4
<1>4. CASE ~ (t.r > t.eot) /\ t.mt /\ t.hd = 0
  <2> DEFINE a == Side(t, 0, t.r, t.eot)
             b == Side(t, 1, 1, t.eot)
             T == {t.us} \X {t.c} \X {0, 1} \X Nat
  <2>1. Plan(t) = a \o b BY <1>4 DEF Plan
  <2>2. /\ a \in Seq({t.us} \X {t.c} \X {0} \X Nat) /\ Len(a) = t.eot + 1 - t.r
        /\ \A i \in 1 .. t.eot + 1 - t.r : a[i] = <<t.us, t.c, 0, t.r + i - 1>>
    <3> DEFINE m == t.eot + 1 - t.r
    <3>1. t.r \in Nat /\ t.eot \in Nat /\ m \in Nat /\ m = t.eot + 1 - t.r
      BY <1>4, <1>5
    <3> HIDE DEF m
    <3>2. a = [i \in 1 .. m |-> <<t.us, t.c, 0, t.r + i - 1>>] BY <3>1 DEF Side
    <3> HIDE DEF a
    <3>3. \A i \in 1 .. m : t.r + i - 1 \in Nat BY <3>1
    <3>4. \A i \in 1 .. m : <<t.us, t.c, 0, t.r + i - 1>> \in {t.us} \X {t.c} \X {0} \X Nat
      BY <3>3
    <3>5. a \in Seq({t.us} \X {t.c} \X {0} \X Nat) BY <3>1, <3>2, <3>4
    <3>6. Len(a) = m BY <3>1, <3>2
    <3>7. \A i \in 1 .. m : a[i] = <<t.us, t.c, 0, t.r + i - 1>> BY <3>2
    <3> QED BY <3>5, <3>6, <3>7 DEF m
  <2>3. /\ b \in Seq({t.us} \X {t.c} \X {1} \X Nat) /\ Len(b) = t.eot + 1 - 1
        /\ \A i \in 1 .. t.eot + 1 - 1 : b[i] = <<t.us, t.c, 1, 1 + i - 1>>
    <3> DEFINE m == t.eot + 1 - 1
    <3>1. 1 \in Nat /\ t.eot \in Nat /\ m \in Nat /\ m = t.eot + 1 - 1
      BY <1>5
    <3> HIDE DEF m
    <3>2. b = [i \in 1 .. m |-> <<t.us, t.c, 1, 1 + i - 1>>] BY <3>1 DEF Side
    <3> HIDE DEF b
    <3>3. \A i \in 1 .. m : 1 + i - 1 \in Nat BY <3>1
    <3>4. \A i \in 1 .. m : <<t.us, t.c, 1, 1 + i - 1>> \in {t.us} \X {t.c} \X {1} \X Nat
      BY <3>3
    <3>5. b \in Seq({t.us} \X {t.c} \X {1} \X Nat) BY <3>1, <3>2, <3>4
    <3>6. Len(b) = m BY <3>1, <3>2
    <3>7. \A i \in 1 .. m : b[i] = <<t.us, t.c, 1, 1 + i - 1>> BY <3>2
    <3> QED BY <3>5, <3>6, <3>7 DEF m
  <2> HIDE DEF a, b
  <2>4. a \in Seq(T) /\ b \in Seq(T)
    <3>1. \A i \in 1 .. Len(a) : a[i] \in T BY <2>2
    <3>2. \A i \in 1 .. Len(b) : b[i] \in T BY <2>3
    <3> QED BY <2>2, <2>3, <3>1, <3>2
  <2> HIDE DEF T
  <2>5. /\ Len(a \o b) = Len(a) + Len(b)
        /\ \A i \in 1 .. Len(a) + Len(b) :
             (a \o b)[i] = IF i <= Len(a) THEN a[i] ELSE b[i - Len(a)]
    BY <2>4
  <2>6. Len(a) = t.eot + 1 - t.r /\ Len(b) = t.eot /\ Len(a) \in Nat /\ Len(b) \in Nat
    BY <1>1, <1>4, <2>2, <2>3
  <2>7. CASE hd = 0 /\ r = t.r + n /\ r <= t.eot
    <3>1. n + 1 \in 1 .. Len(a) /\ t.r + (n + 1) - 1 = r /\ n + 1 <= Len(a)
      BY <1>1, <2>6, <2>7
    <3>2. n + 1 \in 1 .. Len(a) + Len(b) BY <2>6, <3>1
    <3>3. (a \o b)[n + 1] = a[n + 1] BY <2>5, <3>1, <3>2
    <3>4. a[n + 1] = <<t.us, t.c, 0, r>> BY <2>2, <2>6, <3>1
    <3> QED BY <1>4, <2>1, <2>5, <2>6, <2>7, <3>1, <3>2, <3>3, <3>4
  <2>8. CASE hd = 1 /\ r <= t.eot /\ n = (t.eot + 1 - t.r) + (r - 1)
    <3>1. /\ n + 1 = Len(a) + r /\ r \in 1 .. Len(b) /\ ~ (n + 1 <= Len(a))
          /\ n + 1 - Len(a) = r /\ 1 + r - 1 = r
      <4>1. r \in Int /\ r >= 1 /\ r <= t.eot BY <1>1, <2>8
      <4>2. n + 1 = (t.eot + 1 - t.r) + r BY <1>5, <2>8, <4>1
      <4>3. n + 1 = Len(a) + r BY <2>6, <4>2
      <4> QED BY <2>6, <4>1, <4>3
    <3>2. n + 1 \in 1 .. Len(a) + Len(b) BY <2>6, <3>1
    <3>3. (a \o b)[n + 1] = b[r] BY <2>5, <3>1, <3>2
    <3>4. b[r] = <<t.us, t.c, 1, r>> BY <2>3, <2>6, <3>1
    <3>5. r = t.eot => Len(a) + Len(b) = n + 1 BY <2>6, <3>1
    <3>6. Len(Plan(t)) = Len(a) + Len(b) BY <2>1, <2>5
    <3>7. Len(Plan(t)) \in Nat /\ n + 1 <= Len(Plan(t)) BY <2>6, <3>2, <3>6
    <3>8. Plan(t)[n + 1] = <<t.us, t.c, hd, r>> BY <2>1, <2>8, <3>3, <3>4
    <3> HIDE DEF a, b
    <3> QED BY <3>5, <3>6, <3>7, <3>8
  <2>9. \/ hd = 0 /\ r = t.r + n /\ r <= t.eot
        \/ hd = 1 /\ r <= t.eot /\ n = (t.eot + 1 - t.r) + (r - 1)
    <3>1. t.r <= t.eot BY <1>4, <1>5
    <3> QED BY <1>4, <3>1 DEF Comes
  <2> QED BY <2>7, <2>8, <2>9
<1> QED BY <1>2, <1>3, <1>4, Zenon

\* Which sector comes next.
LEMMA ComesNext ==
  ASSUME NEW t \in Transfer, NEW n \in Nat, NEW hd \in {0, 1}, NEW r \in 1 .. Sectors,
         Comes(t, n, hd, r)
  PROVE  /\ r # t.eot => Comes(t, n + 1, hd, r + 1)
         /\ r = t.eot /\ t.mt /\ hd = 0 => Comes(t, n + 1, 1, 1)
<1>1. /\ t.r \in 1 .. Sectors /\ t.eot \in 1 .. Sectors /\ Sectors \in Nat
      /\ t.hd \in {0, 1} /\ t.mt \in BOOLEAN
  BY Sizes DEF Transfer
<1> QED BY <1>1 DEF Comes

-----------------------------------------------------------------------------

\* The sector at the head comes next in the plan, and bytes are left for it.
Fits(q) ==
  /\ q.us = q.asked.us /\ q.treg[q.us] = q.asked.c
  /\ Comes(q.asked, Len(q.moved), q.hd, q.r)
  /\ Begins(q.moved, Plan(q.asked)) /\ Len(q.moved) + 1 <= Filled(q.bytes)

LEMMA MovedFacts ==
  ASSUME NEW q \in Controller
  PROVE  /\ q.moved \in Seq(Drives \X (0 .. LastTrack) \X {0, 1} \X (1 .. Sectors))
         /\ Len(q.moved) \in Nat /\ q.asked \in Transfer /\ q.bytes \in Nat
         /\ q.hd \in {0, 1} /\ q.us \in Drives /\ q.dma \in Channel
         /\ q.dma.leng \in Nat /\ q.bufcnt \in Nat /\ q.bufcnt <= SectorSize
<1>1. CountRange \in Nat /\ SectorSize \in Nat BY Sizes
<1>2. q.moved \in Seq(Drives \X (0 .. LastTrack) \X {0, 1} \X (1 .. Sectors))
  BY DEF Controller
<1>3. Len(q.moved) \in Nat BY <1>2
<1>4. q.bytes \in 0 .. CountRange /\ q.bufcnt \in 0 .. SectorSize BY DEF Controller
<1>5. q.dma \in Channel /\ q.asked \in Transfer /\ q.us \in Drives /\ q.hd \in {0, 1}
  BY DEF Controller
<1>6. q.dma.leng \in 0 .. CountRange - 1 BY <1>5 DEF Channel
<1> QED BY <1>1, <1>2, <1>3, <1>4, <1>5, <1>6

\* The sector that is moved next begins the plan with those before.
LEMMA MovedMore ==
  ASSUME NEW q \in Controller, Fits(q), SectorFound(q)
  PROVE  /\ Begins(Moved(q), Plan(q.asked)) /\ Len(Moved(q)) = Len(q.moved) + 1
         /\ Len(Moved(q)) <= Filled(q.bytes)
         /\ q.r = q.asked.eot /\ ~ (q.asked.mt /\ q.hd = 0) =>
              Len(Moved(q)) = Len(Plan(q.asked))
<1> DEFINE m == q.moved
           p == Plan(q.asked)
           e == <<q.us, q.treg[q.us], q.hd, q.r>>
<1>1. /\ m \in Seq(Drives \X (0 .. LastTrack) \X {0, 1} \X (1 .. Sectors))
      /\ Len(m) \in Nat /\ q.asked \in Transfer /\ q.hd \in {0, 1}
  BY MovedFacts
<1>2. q.r \in 1 .. Sectors
  <2>1. q.r \in 1 .. Sectors + 1 /\ q.r <= Sectors BY DEF Controller, SectorFound
  <2> QED BY <2>1, Sizes
<1>3. Comes(q.asked, Len(m), q.hd, q.r) BY DEF Fits
<1>4. /\ Len(p) \in Nat /\ Len(m) + 1 <= Len(p)
      /\ p[Len(m) + 1] = <<q.asked.us, q.asked.c, q.hd, q.r>>
      /\ q.r = q.asked.eot /\ ~ (q.asked.mt /\ q.hd = 0) => Len(p) = Len(m) + 1
  BY <1>1, <1>2, <1>3, PlanFacts
<1>5. p[Len(m) + 1] = e BY <1>4 DEF Fits
<1>6. Moved(q) = Append(m, e) BY DEF Moved
<1>7. \A i \in 1 .. Len(m) : m[i] = p[i] BY DEF Fits, Begins
<1> HIDE DEF m, p, e
<1>8. Len(Append(m, e)) = Len(m) + 1 BY <1>1
<1>9. \A i \in 1 .. Len(m) + 1 : Append(m, e)[i] = p[i]
  <2>1. TAKE i \in 1 .. Len(m) + 1
  <2>2. CASE i = Len(m) + 1
    <3>1. Append(m, e)[Len(m) + 1] = e BY <1>1
    <3> QED BY <1>5, <2>2, <3>1
  <2>3. CASE i # Len(m) + 1
    <3>1. i \in 1 .. Len(m) BY <1>1, <2>3
    <3>2. Append(m, e)[i] = m[i] BY <1>1, <3>1
    <3> QED BY <1>7, <3>1, <3>2
  <2> QED BY <2>2, <2>3
<1>10. Begins(Append(m, e), p) BY <1>4, <1>8, <1>9 DEF Begins
<1>11. Len(m) + 1 <= Filled(q.bytes) BY DEF Fits, m
<1> QED BY <1>4, <1>6, <1>8, <1>10, <1>11 DEF p, m

\* The end of a command.
LEMMA ResultOrder ==
  ASSUME NEW q \in Controller, NEW ok \in BOOLEAN,
         q.bytes > 0 =>
           /\ Begins(q.moved, Plan(q.asked)) /\ Len(q.moved) <= Filled(q.bytes)
           /\ ok => Len(q.moved) \in {Filled(q.bytes), Len(Plan(q.asked))}
  PROVE  OrderOK(Result(q, ok), q.treg)
<1> DEFINE p == Result(q, ok)
<1>1. /\ p.event = "result" /\ p.ok = ok /\ p.treg = q.treg /\ p.asked = q.asked
      /\ p.bytes = q.bytes /\ p.moved = q.moved
  BY DEF Result, Controller
<1> HIDE DEF p
<1>2. p.bytes > 0 => MovedOK(p) BY <1>1 DEF MovedOK
<1>3. OrderOK(p, q.treg) BY <1>1, <1>2 DEF OrderOK, DataPhases
<1> QED BY <1>3 DEF p

\* The DMA channel in a data phase.
LEMMA ReadyKeeps ==
  ASSUME NEW ch \in Channel
  PROVE  /\ SetReady(ch, TRUE).masked = ch.masked
         /\ SetReady(ch, TRUE).leng = ch.leng
         /\ SetReady(ch, TRUE).working => ~ch.masked
BY DEF SetReady, Check, Channel

LEMMA DataPhaseKeeps ==
  ASSUME NEW q \in Controller, NEW phase \in DataPhases
  PROVE  LET p == DataPhase(q, phase)
         IN /\ p.event = phase /\ p.bufcnt = SectorSize
            /\ p.us = q.us /\ p.hd = q.hd /\ p.r = q.r /\ p.treg = q.treg
            /\ p.asked = q.asked /\ p.bytes = q.bytes /\ p.moved = q.moved
            /\ p.dma.masked = q.dma.masked /\ p.dma.leng = q.dma.leng
            /\ p.dma.working => ~p.dma.masked
<1> DEFINE p == DataPhase(q, phase)
<1> DEFINE dma == SetReady(q.dma, TRUE)
<1>1. q.dma \in Channel BY DEF Controller
<1>2. dma.masked = q.dma.masked /\ dma.leng = q.dma.leng /\ (dma.working => ~q.dma.masked)
  BY <1>1, ReadyKeeps
<1>3. p = [q EXCEPT !.event = phase, !.bufcnt = SectorSize, !.dma = dma]
  BY DEF DataPhase, Controller
<1> HIDE DEF p, dma
<1>4. /\ p.event = phase /\ p.bufcnt = SectorSize
      /\ p.us = q.us /\ p.hd = q.hd /\ p.r = q.r /\ p.treg = q.treg
      /\ p.asked = q.asked /\ p.bytes = q.bytes /\ p.moved = q.moved /\ p.dma = dma
  BY <1>3 DEF Controller
<1>5. p.dma.working => ~p.dma.masked BY <1>2, <1>4
<1> QED BY <1>2, <1>4, <1>5 DEF p

\* A sector is read.
LEMMA ReadSectorOrder ==
  ASSUME NEW q \in Controller, Fits(q), q.bytes > 0,
         ~q.dma.masked => Bytes(Len(q.moved)) + q.dma.leng + 1 = q.bytes
  PROVE  OrderOK(ReadSector(q), q.treg)
<1>1. /\ Len(q.moved) \in Nat /\ q.bytes \in Nat /\ q.us \in Drives
      /\ q.dma.leng \in Nat
  BY MovedFacts
<1>2. CASE ~(DriveCheck(q, FALSE) /\ SectorFound(q))
  <2>1. ReadSector(q) = Result(q, FALSE) BY <1>2 DEF ReadSector
  <2>2. Len(q.moved) <= Filled(q.bytes)
    <3>1. Filled(q.bytes) \in Int BY <1>1, FilledFacts
    <3> QED BY <1>1, <3>1 DEF Fits
  <2>3. Begins(q.moved, Plan(q.asked)) BY DEF Fits
  <2> QED BY <2>1, <2>2, <2>3, ResultOrder
<1>3. CASE DriveCheck(q, FALSE) /\ SectorFound(q)
  <2> DEFINE s == [q EXCEPT !.stat[q.us] = Address(q), !.moved = Moved(q)]
             p == DataPhase(s, "bufsend2")
  <2>1. ReadSector(q) = p BY <1>3 DEF ReadSector
  <2>2. /\ Begins(Moved(q), Plan(q.asked)) /\ Len(Moved(q)) = Len(q.moved) + 1
        /\ Len(Moved(q)) <= Filled(q.bytes)
    BY <1>3, MovedMore
  <2>3. s \in Controller
    <3>1. q.us \in Drives /\ q.treg[q.us] \in 0 .. LastTrack + 1 /\ q.hd \in {0, 1}
          /\ q.r \in 1 .. Sectors + 1
          /\ q.moved \in Seq(Drives \X (0 .. LastTrack) \X {0, 1} \X (1 .. Sectors))
      BY DEF Controller
    <3>2. q.treg[q.us] \in 0 .. LastTrack /\ q.r \in 1 .. Sectors
      BY <1>3, <3>1, Sizes DEF SectorFound
    <3>3. Moved(q) \in Seq(Drives \X (0 .. LastTrack) \X {0, 1} \X (1 .. Sectors))
      BY <3>1, <3>2 DEF Moved
    <3> QED BY <3>1, <3>3, AddressFacts DEF Controller
  <2>4. /\ s.us = q.us /\ s.hd = q.hd /\ s.r = q.r /\ s.treg = q.treg
        /\ s.asked = q.asked /\ s.bytes = q.bytes /\ s.moved = Moved(q) /\ s.dma = q.dma
    BY DEF Controller
  <2> HIDE DEF s
  <2>5. /\ p.event = "bufsend2" /\ p.bufcnt = SectorSize
        /\ p.us = s.us /\ p.hd = s.hd /\ p.r = s.r /\ p.treg = s.treg
        /\ p.asked = s.asked /\ p.bytes = s.bytes /\ p.moved = s.moved
        /\ p.dma.masked = s.dma.masked /\ p.dma.leng = s.dma.leng
        /\ p.dma.working => ~p.dma.masked
    BY <2>3, DataPhaseKeeps DEF DataPhases
  <2> HIDE DEF p
  <2>6. p.event \in DataPhases /\ p.event # "result" /\ p.event # "bufrecv"
        /\ p.event # "neutral"
    BY <2>5 DEF DataPhases
  <2>7. MovedOK(p) BY <2>2, <2>4, <2>5, <2>6 DEF MovedOK
  <2>8. Len(p.moved) = Len(q.moved) + 1 /\ Len(p.moved) - 1 = Len(q.moved)
    BY <1>1, <2>2, <2>4, <2>5
  <2>9. Gone(p) = Bytes(Len(q.moved))
    <3>1. Gone(p) = Bytes(Len(q.moved) + 1) - SectorSize BY <2>5, <2>8 DEF Gone
    <3> DEFINE n == Len(q.moved)
    <3>2. n \in Int BY <1>1
    <3> HIDE DEF n
    <3>3. Bytes(n + 1) - SectorSize = Bytes(n) BY <3>2, BytesFacts, Zenon
    <3> QED BY <3>1, <3>3 DEF n
  <2>10. ~p.dma.masked => Gone(p) + p.dma.leng + 1 = p.bytes BY <2>4, <2>5, <2>9
  <2>11. Comes(p.asked, Len(p.moved) - 1, p.hd, p.r) BY <2>4, <2>5, <2>8 DEF Fits
  <2>12. p.us = p.asked.us /\ p.treg[p.us] = p.asked.c BY <2>4, <2>5 DEF Fits
  <2>13. BufferOK(p) BY <1>1, <2>5, <2>6, <2>8, <2>10, <2>11, <2>12 DEF BufferOK
  <2>14. OrderOK(p, q.treg) BY <2>4, <2>5, <2>6, <2>7, <2>13 DEF OrderOK
  <2> QED BY <2>1, <2>14
<1> QED BY <1>2, <1>3

\* The bytes of a sector, all but the last one, and the count of the channel.
LEMMA StepLeng ==
  ASSUME NEW ch \in Channel
  PROVE  /\ Step(ch).masked = ch.masked
         /\ ch.leng > 0 => Step(ch).leng = ch.leng - 1
         /\ Step(ch).working => ch.working
<1>1. CountRange \in Nat /\ CountRange > 0 BY Sizes
<1>2. ch.leng \in 0 .. CountRange - 1 /\ ch.working \in BOOLEAN BY DEF Channel
<1>3. Step(ch).masked = ch.masked /\ Step(ch).leng = (ch.leng - 1) % CountRange
      /\ Step(ch).working = (ch.working /\ ~Terminal(ch))
  BY DEF Step, Channel
<1>4. ch.leng > 0 => (ch.leng - 1) % CountRange = ch.leng - 1
  <2> DEFINE n == ch.leng - 1
  <2>1. ch.leng > 0 => n \in Nat /\ n < CountRange BY <1>1, <1>2
  <2> HIDE DEF n
  <2>2. ch.leng > 0 => n % CountRange = n BY <1>1, <2>1
  <2> QED BY <2>2 DEF n
<1> QED BY <1>2, <1>3, <1>4

\* The sector that was read is done, and bytes are left for the next one.
LEMMA NextReadOrder ==
  ASSUME NEW q \in Controller, q.bytes > 0, MovedOK(q), Len(q.moved) > 0,
         q.r <= Sectors,
         q.us = q.asked.us, q.treg[q.us] = q.asked.c,
         Comes(q.asked, Len(q.moved) - 1, q.hd, q.r),
         Len(q.moved) + 1 <= Filled(q.bytes),
         ~q.dma.masked => Bytes(Len(q.moved)) + q.dma.leng + 1 = q.bytes
  PROVE  OrderOK(NextRead(q), q.treg)
<1> DEFINE end == q.r = q.asked.eot
           turns == end /\ q.asked.mt
           r == IF end THEN 1 ELSE q.r + 1
           hd == IF turns THEN 1 - q.hd ELSE q.hd
           s == [q EXCEPT !.r = IF end THEN 1 ELSE @ + 1,
                          !.hd = IF turns THEN 1 - @ ELSE @]
           n == Len(q.moved) - 1
<1>1. /\ q.asked \in Transfer /\ q.hd \in {0, 1} /\ Len(q.moved) \in Nat
      /\ q.bytes \in Nat
  BY MovedFacts
<1>2. q.r \in 1 .. Sectors
  <2>1. q.r \in 1 .. Sectors + 1 BY DEF Controller
  <2> QED BY <2>1, Sizes
<1>3. n \in Nat /\ n + 1 = Len(q.moved) BY <1>1
<1>4. Comes(q.asked, n, q.hd, q.r) OBVIOUS
<1>5. /\ q.r # q.asked.eot => Comes(q.asked, n + 1, q.hd, q.r + 1)
      /\ q.r = q.asked.eot /\ q.asked.mt /\ q.hd = 0 => Comes(q.asked, n + 1, 1, 1)
      /\ q.r = q.asked.eot /\ ~ (q.asked.mt /\ q.hd = 0) =>
           Len(Plan(q.asked)) = n + 1
  <2> HIDE DEF n
  <2>1. /\ q.r # q.asked.eot => Comes(q.asked, n + 1, q.hd, q.r + 1)
        /\ q.r = q.asked.eot /\ q.asked.mt /\ q.hd = 0 => Comes(q.asked, n + 1, 1, 1)
    BY <1>1, <1>2, <1>3, <1>4, ComesNext
  <2>2. q.r = q.asked.eot /\ ~ (q.asked.mt /\ q.hd = 0) => Len(Plan(q.asked)) = n + 1
    BY <1>1, <1>2, <1>3, <1>4, PlanFacts
  <2> QED BY <2>1, <2>2
<1>6. r \in 1 .. Sectors + 1 /\ hd \in {0, 1} BY <1>1, <1>2, Sizes
<1>7. s \in Controller BY <1>6 DEF Controller
<1>8. /\ s.r = r /\ s.hd = hd /\ s.us = q.us /\ s.treg = q.treg /\ s.asked = q.asked
      /\ s.bytes = q.bytes /\ s.moved = q.moved /\ s.dma = q.dma
  BY DEF Controller
<1>9. NextRead(q) = IF end /\ ~(turns /\ s.hd = 1) THEN Result(s, TRUE) ELSE ReadSector(s)
  BY DEF NextRead
<1> HIDE DEF s
<1>10. CASE end /\ ~(turns /\ hd = 1)
  <2>1. q.r = q.asked.eot /\ ~ (q.asked.mt /\ q.hd = 0) BY <1>1, <1>10
  <2>2. Len(q.moved) = Len(Plan(q.asked)) BY <1>3, <1>5, <2>1
  <2>3. Begins(q.moved, Plan(q.asked)) /\ Len(q.moved) <= Filled(q.bytes)
    BY DEF MovedOK
  <2>4. NextRead(q) = Result(s, TRUE) BY <1>8, <1>9, <1>10
  <2>5. OrderOK(Result(s, TRUE), s.treg) BY <1>7, <1>8, <2>2, <2>3, ResultOrder
  <2> QED BY <1>8, <2>4, <2>5
<1>11. CASE ~ (end /\ ~(turns /\ hd = 1))
  <2>1. Comes(q.asked, n + 1, hd, r)
    <3>1. CASE ~end BY <1>5, <3>1
    <3>2. CASE end
      <4>1. q.asked.mt /\ hd = 1 /\ q.hd = 0 /\ r = 1 BY <1>1, <1>11, <3>2
      <4> QED BY <1>5, <3>2, <4>1
    <3> QED BY <3>1, <3>2
  <2>2. Comes(s.asked, Len(s.moved), s.hd, s.r) BY <1>3, <1>8, <2>1
  <2>3. Begins(s.moved, Plan(s.asked)) BY <1>8 DEF MovedOK
  <2>4. Fits(s) BY <1>8, <2>2, <2>3 DEF Fits
  <2>5. NextRead(q) = ReadSector(s) BY <1>8, <1>9, <1>11
  <2>6. OrderOK(ReadSector(s), s.treg) BY <1>7, <1>8, <2>4, ReadSectorOrder
  <2> QED BY <1>8, <2>5, <2>6
<1> QED BY <1>10, <1>11

LEMMA FilledBy ==
  ASSUME NEW k \in Nat, NEW n \in Nat, Bytes(k) < n
  PROVE  /\ k + 1 <= Filled(n)
         /\ n <= Bytes(k + 1) => Filled(n) = k + 1
<1>1. Filled(n) \in Int /\ (k + 1 <= Filled(n) <=> Bytes(k) < n) BY FilledFacts
<1>2. k + 1 \in Nat /\ Bytes(k + 1) \in Int
  <2> DEFINE m == k + 1
  <2>1. m \in Nat /\ m \in Int OBVIOUS
  <2> HIDE DEF m
  <2>2. Bytes(m) \in Int BY <2>1, BytesFacts
  <2> QED BY <2>1, <2>2 DEF m
<1>3. (k + 1) + 1 <= Filled(n) <=> Bytes(k + 1) < n BY <1>2, FilledFacts
<1> QED BY <1>1, <1>2, <1>3

\* The buffer while its bytes go through the DMA channel: q after the count of the
\* channel went down.
Flows(q) ==
  /\ q.us = q.asked.us /\ q.treg[q.us] = q.asked.c
  /\ q.bytes > 0 /\ MovedOK(q) /\ q.bufcnt > 0 /\ ~q.dma.masked
  /\ q.tc => Gone(q) + 1 = q.bytes
  /\ ~q.tc => Gone(q) + 1 + q.dma.leng + 1 = q.bytes

\* A byte of a read.
LEMMA DataReadOrder ==
  ASSUME NEW q \in Controller, Flows(q), q.event = "bufsend2", q.r <= Sectors,
         Len(q.moved) > 0, Comes(q.asked, Len(q.moved) - 1, q.hd, q.r)
  PROVE  OrderOK(DataRead(q), q.treg)
<1> DEFINE s == [q EXCEPT !.bufcnt = @ - 1]
           k == Len(q.moved) - 1
<1>1. /\ Len(q.moved) \in Nat /\ q.bytes \in Nat /\ q.dma.leng \in Nat
      /\ q.bufcnt \in Nat /\ q.bufcnt <= SectorSize /\ q.tc \in BOOLEAN
  BY MovedFacts DEF Controller
<1>2. k \in Nat /\ k \in Int /\ k + 1 = Len(q.moved) BY <1>1
<1>3. SectorSize \in Int /\ Bytes(k) \in Int /\ Bytes(k + 1) = Bytes(k) + SectorSize
  <2> HIDE DEF k
  <2> QED BY <1>2, BytesFacts
<1>4. Gone(q) = Bytes(k + 1) - q.bufcnt BY <1>2 DEF Gone
<1>5. q.bufcnt > 0 BY DEF Flows
<1>6. Bytes(k) < q.bytes BY SMTT(30), <1>1, <1>3, <1>4, <1>5 DEF Flows
<1>7. q.bufcnt - 1 \in 0 .. SectorSize BY <1>1, <1>3, <1>5
<1>8. s \in Controller BY <1>7 DEF Controller
<1>9. /\ s.r = q.r /\ s.hd = q.hd /\ s.us = q.us /\ s.treg = q.treg /\ s.asked = q.asked
      /\ s.bytes = q.bytes /\ s.moved = q.moved /\ s.dma = q.dma /\ s.event = q.event
      /\ s.bufcnt = q.bufcnt - 1 /\ s.ok = q.ok
  BY DEF Controller
<1>10. /\ q.tc => DataRead(q) = Result([s EXCEPT !.r = 1], TRUE)
       /\ ~q.tc /\ s.bufcnt = 0 => DataRead(q) = NextRead(s)
       /\ ~q.tc /\ s.bufcnt # 0 => DataRead(q) = s
  BY DEF DataRead
<1>11. MovedOK(s) BY <1>9 DEF Flows, MovedOK
<1> HIDE DEF s, k
<1>12. CASE q.tc
  <2> DEFINE u == [s EXCEPT !.r = 1]
  <2>1. 1 \in 1 .. Sectors + 1 BY Sizes
  <2>2. u \in Controller BY <1>8, <2>1 DEF Controller
  <2>3. /\ u.moved = q.moved /\ u.bytes = q.bytes /\ u.asked = q.asked
        /\ u.treg = q.treg
    BY <1>8, <1>9 DEF Controller
  <2>4. q.bytes <= Bytes(k + 1) BY <1>1, <1>3, <1>4, <1>5, <1>12 DEF Flows
  <2>5. Filled(q.bytes) = k + 1 BY <1>1, <1>2, <1>6, <2>4, FilledBy
  <2> HIDE DEF u
  <2>6. OrderOK(Result(u, TRUE), u.treg)
    <3>1. Begins(u.moved, Plan(u.asked)) /\ Len(u.moved) <= Filled(u.bytes)
      BY <1>9, <1>11, <2>3 DEF MovedOK
    <3>2. Len(u.moved) = Filled(u.bytes) BY <1>2, <2>3, <2>5
    <3> QED BY <2>2, <3>1, <3>2, ResultOrder
  <2> QED BY <1>10, <1>12, <2>3, <2>6 DEF u
<1>13. CASE ~q.tc /\ s.bufcnt = 0
  <2>1. Bytes(k + 1) + q.dma.leng + 1 = q.bytes
    BY <1>1, <1>3, <1>4, <1>5, <1>9, <1>13 DEF Flows
  <2>2. Bytes(Len(s.moved)) + s.dma.leng + 1 = s.bytes BY <1>2, <1>9, <2>1
  <2>3. Len(s.moved) + 1 <= Filled(s.bytes)
    <3>1. Bytes(k + 1) < q.bytes BY <1>1, <1>3, <2>1
    <3> DEFINE m == k + 1
    <3>2. m \in Nat BY <1>2
    <3> HIDE DEF m
    <3>3. Bytes(m) < q.bytes BY <3>1 DEF m
    <3>4. m + 1 <= Filled(q.bytes) BY <1>1, <3>2, <3>3, FilledBy
    <3> QED BY <1>2, <1>9, <3>4 DEF m
  <2>4. /\ s.bytes > 0 /\ Len(s.moved) > 0 /\ s.r <= Sectors
        /\ s.us = s.asked.us /\ s.treg[s.us] = s.asked.c
        /\ Comes(s.asked, Len(s.moved) - 1, s.hd, s.r)
    BY <1>9 DEF Flows
  <2>5. OrderOK(NextRead(s), s.treg) BY <1>8, <1>11, <2>2, <2>3, <2>4, NextReadOrder
  <2> QED BY <1>9, <1>10, <1>13, <2>5
<1>14. CASE ~q.tc /\ s.bufcnt # 0
  <2>1. DataRead(q) = s BY <1>10, <1>14
  <2>2. Gone(s) = Gone(q) + 1 BY <1>1, <1>2, <1>3, <1>4, <1>9 DEF Gone
  <2>3. Gone(s) + s.dma.leng + 1 = s.bytes
    BY <1>1, <1>9, <1>14, <2>2 DEF Flows
  <2>4. BufferOK(s) BY <1>9, <2>3 DEF BufferOK, Flows
  <2>5. OrderOK(s, q.treg) BY <1>9, <1>11, <2>4 DEF OrderOK, Flows
  <2> QED BY <2>1, <2>5
<1> QED BY <1>1, <1>12, <1>13, <1>14

\* A sector is written: with the terminal count it is the last one that the bytes fill.
LEMMA WriteSectorOrder ==
  ASSUME NEW q \in Controller, Fits(q), q.bytes > 0,
         q.tc => Filled(q.bytes) = Len(q.moved) + 1,
         ~q.tc => Bytes(Len(q.moved) + 1) + q.dma.leng + 1 = q.bytes
  PROVE  OrderOK(WriteSector(q), q.treg)
<1> DEFINE p == WriteSector(q)
<1>1. /\ q.asked \in Transfer /\ q.hd \in {0, 1} /\ Len(q.moved) \in Nat
      /\ q.bytes \in Nat /\ q.us \in Drives /\ q.tc \in BOOLEAN
  BY MovedFacts DEF Controller
<1>2. CASE ~DriveCheck(q, TRUE) \/ ~SectorFound(q)
  <2>1. p = Result(q, FALSE) BY <1>2 DEF WriteSector
  <2>2. Len(q.moved) <= Filled(q.bytes)
    <3>1. Filled(q.bytes) \in Int BY <1>1, FilledFacts
    <3> QED BY <1>1, <3>1 DEF Fits
  <2>3. Begins(q.moved, Plan(q.asked)) BY DEF Fits
  <2> QED BY <2>1, <2>2, <2>3, ResultOrder
<1>3. CASE DriveCheck(q, TRUE) /\ SectorFound(q)
  <2> DEFINE end == q.tc \/ q.r = q.asked.eot
             turns == end /\ q.asked.mt
             r == IF end THEN 1 ELSE q.r + 1
             hd == IF turns THEN 1 - q.hd ELSE q.hd
             a == [q EXCEPT !.moved = Moved(q), !.r = IF end THEN 1 ELSE @ + 1,
                            !.hd = IF turns THEN 1 - @ ELSE @]
             s == DataPhase(a, "bufrecv")
             t == [s EXCEPT !.stat[q.us] = Address(s)]
             n == Len(q.moved)
  <2>1. /\ Begins(Moved(q), Plan(q.asked)) /\ Len(Moved(q)) = n + 1
        /\ Len(Moved(q)) <= Filled(q.bytes)
        /\ q.r = q.asked.eot /\ ~ (q.asked.mt /\ q.hd = 0) =>
             Len(Moved(q)) = Len(Plan(q.asked))
    BY <1>3, MovedMore
  <2>2. q.r \in 1 .. Sectors
    <3>1. q.r \in 1 .. Sectors + 1 /\ q.r <= Sectors BY <1>3 DEF Controller, SectorFound
    <3> QED BY <3>1, Sizes
  <2>3. /\ q.r # q.asked.eot => Comes(q.asked, n + 1, q.hd, q.r + 1)
        /\ q.r = q.asked.eot /\ q.asked.mt /\ q.hd = 0 => Comes(q.asked, n + 1, 1, 1)
    <3>1. Comes(q.asked, n, q.hd, q.r) /\ n \in Nat BY <1>1 DEF Fits
    <3> HIDE DEF n
    <3> QED BY <1>1, <2>2, <3>1, ComesNext
  <2>4. r \in 1 .. Sectors + 1 /\ hd \in {0, 1} BY <1>1, <2>2, Sizes
  <2>5. Moved(q) \in Seq(Drives \X (0 .. LastTrack) \X {0, 1} \X (1 .. Sectors))
    <3>1. q.treg[q.us] \in 0 .. LastTrack + 1
          /\ q.moved \in Seq(Drives \X (0 .. LastTrack) \X {0, 1} \X (1 .. Sectors))
      BY <1>1 DEF Controller
    <3>2. q.treg[q.us] \in 0 .. LastTrack BY <1>3, <3>1, Sizes DEF SectorFound
    <3> QED BY <1>1, <2>2, <3>1, <3>2 DEF Moved
  <2>6. a \in Controller BY <2>4, <2>5 DEF Controller
  <2>7. /\ a.r = r /\ a.hd = hd /\ a.us = q.us /\ a.treg = q.treg /\ a.asked = q.asked
        /\ a.bytes = q.bytes /\ a.moved = Moved(q) /\ a.dma = q.dma
    BY DEF Controller
  <2>8. p = IF end /\ (q.tc \/ ~(turns /\ s.hd = 1)) THEN Result(t, TRUE) ELSE t
    BY <1>3 DEF WriteSector
  <2> HIDE DEF a
  <2>9. /\ s.event = "bufrecv" /\ s.bufcnt = SectorSize
        /\ s.us = a.us /\ s.hd = a.hd /\ s.r = a.r /\ s.treg = a.treg
        /\ s.asked = a.asked /\ s.bytes = a.bytes /\ s.moved = a.moved
        /\ s.dma.masked = a.dma.masked /\ s.dma.leng = a.dma.leng
        /\ s.dma.working => ~s.dma.masked
    BY <2>6, DataPhaseKeeps DEF DataPhases
  <2>10. s \in Controller BY <2>6, DataPhaseFacts DEF DataPhases
  <2> HIDE DEF s
  <2>11. t \in Controller BY <1>1, <2>10, AddressFacts DEF Controller
  <2>12. /\ t.event = "bufrecv" /\ t.bufcnt = SectorSize
         /\ t.us = q.us /\ t.hd = hd /\ t.r = r /\ t.treg = q.treg
         /\ t.asked = q.asked /\ t.bytes = q.bytes /\ t.moved = Moved(q)
         /\ t.dma = s.dma
    BY <2>7, <2>9, <2>10 DEF Controller
  <2> HIDE DEF t, p
  <2>13. CASE end /\ (q.tc \/ ~(turns /\ hd = 1))
    <3>1. p = Result(t, TRUE) BY <2>7, <2>8, <2>9, <2>13
    <3>2. ~q.tc => q.r = q.asked.eot /\ ~ (q.asked.mt /\ q.hd = 0) BY <1>1, <2>13
    <3>3. Len(Moved(q)) \in {Filled(q.bytes), Len(Plan(q.asked))}
      BY <2>1, <2>13, <3>2
    <3>4. /\ Begins(t.moved, Plan(t.asked)) /\ Len(t.moved) <= Filled(t.bytes)
          /\ Len(t.moved) \in {Filled(t.bytes), Len(Plan(t.asked))}
      BY <2>1, <2>12, <3>3
    <3>5. OrderOK(Result(t, TRUE), t.treg) BY <2>11, <3>4, ResultOrder
    <3> QED BY <2>12, <3>1, <3>5 DEF p
  <2>14. CASE ~ (end /\ (q.tc \/ ~(turns /\ hd = 1)))
    <3>1. p = t BY <2>7, <2>8, <2>9, <2>14
    <3>2. ~q.tc BY <2>14
    <3>3. Comes(q.asked, n + 1, hd, r)
      <4>1. CASE ~end BY <2>3, <4>1
      <4>2. CASE end
        <5>1. q.asked.mt /\ hd = 1 /\ q.hd = 0 /\ r = 1 /\ q.r = q.asked.eot
          BY <1>1, <2>14, <4>2
        <5> QED BY <2>3, <4>2, <5>1
      <4> QED BY <4>1, <4>2
    <3>4. Comes(t.asked, Len(t.moved), t.hd, t.r) BY <2>1, <2>12, <3>3
    <3>5. t.us = t.asked.us /\ t.treg[t.us] = t.asked.c BY <2>12 DEF Fits
    <3>6. Gone(t) = Bytes(n + 1)
      <4>1. Gone(t) = Bytes(n + 1) + SectorSize - SectorSize
        BY <2>1, <2>12 DEF Gone
      <4> DEFINE m == n + 1
      <4>2. m \in Int BY <1>1
      <4> HIDE DEF m
      <4>3. Bytes(m) \in Int /\ SectorSize \in Int BY <4>2, BytesFacts
      <4>4. Bytes(m) + SectorSize - SectorSize = Bytes(m) BY <4>3
      <4> QED BY <4>1, <4>4 DEF m
    <3>7. Gone(t) + t.dma.leng + 1 = t.bytes BY <2>7, <2>9, <2>12, <3>2, <3>6
    <3>8. BufferOK(t) BY <2>9, <2>12, <3>4, <3>5, <3>7 DEF BufferOK
    <3>9. MovedOK(t) BY <2>1, <2>12 DEF MovedOK
    <3>10. OrderOK(t, q.treg) BY <2>12, <3>8, <3>9 DEF OrderOK
    <3> QED BY <3>1, <3>10 DEF p
  <2> QED BY <2>13, <2>14
<1> QED BY <1>2, <1>3

\* A byte of a write.
LEMMA DataWriteOrder ==
  ASSUME NEW q \in Controller, Flows(q), q.event = "bufrecv",
         Comes(q.asked, Len(q.moved), q.hd, q.r)
  PROVE  OrderOK(DataWrite(q), q.treg)
<1> DEFINE s == [q EXCEPT !.bufcnt = @ - 1]
           k == Len(q.moved)
<1>1. /\ k \in Nat /\ k \in Int /\ q.bytes \in Nat /\ q.dma.leng \in Nat
      /\ q.bufcnt \in Nat /\ q.bufcnt <= SectorSize /\ q.tc \in BOOLEAN
  <2>1. /\ Len(q.moved) \in Nat /\ q.bytes \in Nat /\ q.dma.leng \in Nat
        /\ q.bufcnt \in Nat /\ q.bufcnt <= SectorSize
    BY MovedFacts
  <2>2. q.tc \in BOOLEAN BY DEF Controller
  <2> QED BY <2>1, <2>2
<1>2. Gone(q) = Bytes(k) + SectorSize - q.bufcnt BY DEF Gone
<1>3. /\ s.r = q.r /\ s.hd = q.hd /\ s.us = q.us /\ s.treg = q.treg /\ s.asked = q.asked
      /\ s.bytes = q.bytes /\ s.moved = q.moved /\ s.dma = q.dma /\ s.event = q.event
      /\ s.bufcnt = q.bufcnt - 1 /\ s.ok = q.ok /\ s.tc = q.tc
  BY DEF Controller
<1>4. DataWrite(q) = IF s.bufcnt = 0 \/ q.tc THEN WriteSector(s) ELSE s
  BY DEF DataWrite
<1>5. q.bufcnt > 0 BY DEF Flows
<1>6. q.bufcnt - 1 \in 0 .. SectorSize BY <1>1, <1>5, Sizes
<1>7. s \in Controller BY <1>6 DEF Controller
<1> HIDE DEF s
<1>8. MovedOK(s) BY <1>3 DEF Flows, MovedOK
<1>9. CASE s.bufcnt = 0 \/ q.tc
  <2> HIDE DEF k
  <2>1. SectorSize \in Int /\ Bytes(k) \in Int /\ Bytes(k + 1) = Bytes(k) + SectorSize
    BY <1>1, BytesFacts
  <2>2. Bytes(k) < q.bytes
    <3>1. Gone(q) \in Int /\ Bytes(k) <= Gone(q) BY <1>1, <1>2, <2>1
    <3>2. Gone(q) + 1 = q.bytes \/ Gone(q) + 1 + q.dma.leng + 1 = q.bytes BY DEF Flows
    <3> QED BY <1>1, <2>1, <3>1, <3>2
  <2>3. k + 1 <= Filled(q.bytes) BY <1>1, <2>2, FilledBy
  <2>4. q.tc => q.bytes <= Bytes(k + 1) BY <1>1, <1>2, <1>5, <2>1 DEF Flows
  <2>5. q.tc => Filled(q.bytes) = k + 1 BY <1>1, <2>2, <2>4, FilledBy
  <2>6. ~q.tc => Bytes(k + 1) + q.dma.leng + 1 = q.bytes
    BY <1>1, <1>2, <1>3, <1>5, <1>9, <2>1 DEF Flows
  <2>7. Fits(s) BY <1>3, <1>8, <2>3 DEF Fits, Flows, MovedOK, k
  <2>8. /\ s.tc => Filled(s.bytes) = Len(s.moved) + 1
        /\ ~s.tc => Bytes(Len(s.moved) + 1) + s.dma.leng + 1 = s.bytes
    BY <1>3, <2>5, <2>6 DEF k
  <2>9. s.bytes > 0 BY <1>3 DEF Flows
  <2>10. OrderOK(WriteSector(s), s.treg) BY <1>7, <2>7, <2>8, <2>9, WriteSectorOrder
  <2> QED BY <1>3, <1>4, <1>9, <2>10
<1>10. CASE ~ (s.bufcnt = 0 \/ q.tc)
  <2>1. DataWrite(q) = s BY <1>4, <1>10
  <2>2. Gone(s) = Gone(q) + 1
    <3>1. Gone(s) = Bytes(k) + SectorSize - (q.bufcnt - 1) BY <1>3 DEF Gone
    <3> HIDE DEF k
    <3>2. SectorSize \in Int /\ Bytes(k) \in Int BY <1>1, BytesFacts
    <3> QED BY <1>1, <1>2, <3>1, <3>2
  <2>3. Gone(s) + s.dma.leng + 1 = s.bytes BY <1>3, <1>10, <2>2 DEF Flows
  <2>4. BufferOK(s) BY <1>3, <2>3 DEF BufferOK, Flows
  <2>5. OrderOK(s, q.treg) BY <1>3, <1>8, <2>4 DEF OrderOK, Flows
  <2> QED BY <2>1, <2>5
<1> QED BY <1>9, <1>10

\* What Begin makes of q, step by step.
LEMMA BeginParts ==
  ASSUME NEW q \in Controller, NEW t \in Transfer
  PROVE  LET c == [q EXCEPT !.asked = t, !.us = t.us, !.hd = t.hd, !.r = t.r]
             a == [c EXCEPT !.treg[t.us] = IF q.lasttreg[t.us] # @ THEN t.c ELSE @]
             b == [a EXCEPT !.stat[t.us] = Address(a)]
         IN Begin(q, t) = IF t.op = "read" THEN ReadSector(b)
                          ELSE IF DriveCheck(b, TRUE) THEN DataPhase(b, "bufrecv")
                          ELSE Result(b, FALSE)
<1> DEFINE c == [q EXCEPT !.asked = t, !.us = t.us, !.hd = t.hd, !.r = t.r]
<1>1. c.asked = t /\ c.us = t.us /\ c.treg = q.treg /\ c.lasttreg = q.lasttreg
  BY DEF Controller
<1> QED BY <1>1 DEF Begin

\* A transfer begins, with the head where the command says.
LEMMA BeginOrder ==
  ASSUME NEW q \in Controller, NEW t \in Transfer, q.moved = <<>>,
         q.treg[t.us] = t.c, q.bytes > 0, q.dma.leng + 1 = q.bytes
  PROVE  OrderOK(Begin(q, t), q.treg)
<1> DEFINE c == [q EXCEPT !.asked = t, !.us = t.us, !.hd = t.hd, !.r = t.r]
           a == [c EXCEPT !.treg[t.us] = IF q.lasttreg[t.us] # @ THEN t.c ELSE @]
           b == [a EXCEPT !.stat[t.us] = Address(a)]
<1>1. t.us \in Drives /\ t.hd \in {0, 1} /\ t.c \in 0 .. LastTrack
      /\ t.r \in 1 .. Sectors /\ t.op \in {"read", "write"}
  BY DEF Transfer
<1>2. t.r \in 1 .. Sectors + 1 BY <1>1, Sizes
<1>3. c \in Controller BY <1>1, <1>2 DEF Controller
<1>4. /\ c.asked = t /\ c.us = t.us /\ c.hd = t.hd /\ c.r = t.r /\ c.treg = q.treg
      /\ c.bytes = q.bytes /\ c.moved = q.moved /\ c.dma = q.dma
  BY DEF Controller
<1>5. Begin(q, t) = IF t.op = "read" THEN ReadSector(b)
                    ELSE IF DriveCheck(b, TRUE) THEN DataPhase(b, "bufrecv")
                    ELSE Result(b, FALSE)
  BY BeginParts
<1> HIDE DEF c
<1>6. a = c
  <2>1. c.treg \in [Drives -> 0 .. LastTrack + 1] BY <1>3 DEF Controller
  <2>2. (IF q.lasttreg[t.us] # c.treg[t.us] THEN t.c ELSE c.treg[t.us]) = c.treg[t.us]
    BY <1>4
  <2>3. [c.treg EXCEPT ![t.us] = c.treg[t.us]] = c.treg BY <1>1, <2>1
  <2>4. a = [c EXCEPT !.treg = [c.treg EXCEPT ![t.us] = c.treg[t.us]]]
    BY <1>3, <2>2 DEF Controller
  <2>5. [c EXCEPT !.treg = c.treg] = c BY <1>3 DEF Controller
  <2> QED BY <2>3, <2>4, <2>5
<1> HIDE DEF a
<1>7. b \in Controller BY ZenonT(60), <1>1, <1>3, <1>6, AddressFacts DEF Controller
<1>8. /\ b.asked = t /\ b.us = t.us /\ b.hd = t.hd /\ b.r = t.r /\ b.treg = q.treg
      /\ b.bytes = q.bytes /\ b.moved = q.moved /\ b.dma = q.dma
  BY <1>3, <1>4, <1>6 DEF Controller
<1> HIDE DEF b
<1>9. Len(b.moved) = 0 BY <1>8
<1>10. Bytes(0) = 0 /\ Bytes(1) = SectorSize /\ SectorSize \in Int
  BY Sizes DEF Bytes
<1>11. q.bytes \in Nat /\ q.dma.leng \in Nat BY MovedFacts
<1>12. 1 <= Filled(q.bytes) /\ Filled(q.bytes) \in Int
  <2>1. 0 \in Nat /\ Bytes(0) < q.bytes BY <1>10, <1>11
  <2>2. 0 + 1 <= Filled(q.bytes) BY <1>11, <2>1, FilledBy
  <2>3. Filled(q.bytes) \in Int BY <1>11, FilledFacts
  <2> QED BY <2>2, <2>3
<1>13. Comes(t, 0, t.hd, t.r) BY <1>1 DEF Comes
<1>14. Begins(b.moved, Plan(t))
  <2>1. Len(Plan(t)) \in Nat
    <3>1. 0 \in Nat BY SMT
    <3> QED BY <1>1, <1>13, <3>1, PlanFacts
  <2> QED BY <1>9, <2>1 DEF Begins
<1>15. Fits(b) BY <1>8, <1>9, <1>12, <1>13, <1>14 DEF Fits
<1>16. CASE t.op = "read"
  <2>1. Bytes(Len(b.moved)) + b.dma.leng + 1 = b.bytes BY <1>8, <1>9, <1>10, <1>11
  <2>2. OrderOK(ReadSector(b), b.treg) BY <1>7, <1>8, <1>15, <2>1, ReadSectorOrder
  <2> QED BY <1>5, <1>8, <1>16, <2>2
<1>17. CASE t.op # "read" /\ DriveCheck(b, TRUE)
  <2> DEFINE p == DataPhase(b, "bufrecv")
  <2>1. /\ p.event = "bufrecv" /\ p.bufcnt = SectorSize
        /\ p.us = b.us /\ p.hd = b.hd /\ p.r = b.r /\ p.treg = b.treg
        /\ p.asked = b.asked /\ p.bytes = b.bytes /\ p.moved = b.moved
        /\ p.dma.masked = b.dma.masked /\ p.dma.leng = b.dma.leng
        /\ p.dma.working => ~p.dma.masked
    BY <1>7, DataPhaseKeeps DEF DataPhases
  <2> HIDE DEF p
  <2>2. MovedOK(p) BY <1>8, <1>9, <1>12, <1>14, <2>1 DEF MovedOK
  <2>3. Gone(p) = 0 BY <1>9, <1>10, <2>1 DEF Gone
  <2>4. Gone(p) + p.dma.leng + 1 = p.bytes BY <1>8, <1>11, <2>1, <2>3
  <2>5. BufferOK(p) BY <1>8, <1>9, <1>13, <2>1, <2>4 DEF BufferOK
  <2>6. OrderOK(p, q.treg) BY <1>8, <2>1, <2>2, <2>5 DEF OrderOK
  <2> QED BY <1>5, <1>17, <2>6 DEF p
<1>18. CASE t.op # "read" /\ ~DriveCheck(b, TRUE)
  <2>1. Begins(b.moved, Plan(b.asked)) /\ Len(b.moved) <= Filled(b.bytes)
    BY <1>8, <1>9, <1>12, <1>14
  <2>2. OrderOK(Result(b, FALSE), b.treg) BY <1>7, <2>1, ResultOrder
  <2> QED BY <1>5, <1>8, <1>18, <2>2
<1> QED BY <1>16, <1>17, <1>18

\* What the order of a transfer speaks of is the same in p and q.
Same(p, q) ==
  /\ p.event = q.event /\ p.ok = q.ok /\ p.treg = q.treg
  /\ p.asked = q.asked /\ p.bytes = q.bytes /\ p.moved = q.moved
  /\ q.event \in DataPhases => /\ p.us = q.us /\ p.hd = q.hd /\ p.r = q.r
                               /\ p.bufcnt = q.bufcnt /\ p.dma = q.dma

LEMMA SameOrder ==
  ASSUME NEW p, NEW q, NEW heads, Same(p, q), OrderOK(q, heads)
  PROVE  OrderOK(p, heads)
<1>1. /\ p.event = q.event /\ p.ok = q.ok /\ p.treg = q.treg
      /\ p.asked = q.asked /\ p.bytes = q.bytes /\ p.moved = q.moved
  BY DEF Same
<1>2. p.bytes > 0 => MovedOK(p) BY <1>1 DEF OrderOK, MovedOK
<1>3. p.event \in DataPhases => p.bytes > 0 /\ BufferOK(p)
  <2> SUFFICES ASSUME p.event \in DataPhases PROVE p.bytes > 0 /\ BufferOK(p) OBVIOUS
  <2>1. p.us = q.us /\ p.hd = q.hd /\ p.r = q.r /\ p.bufcnt = q.bufcnt /\ p.dma = q.dma
    BY <1>1 DEF Same
  <2>2. q.bytes > 0 /\ BufferOK(q) BY <1>1 DEF OrderOK
  <2>3. Gone(p) = Gone(q) BY <1>1, <2>1 DEF Gone
  <2> QED BY <1>1, <2>1, <2>2, <2>3 DEF BufferOK
<1> QED BY <1>1, <1>2, <1>3 DEF OrderOK

\* No transfer is left when the command is over.
LEMMA NeutralOrder ==
  ASSUME NEW q \in Controller
  PROVE  /\ OrderOK(Neutral(q), q.treg)
         /\ Neutral(q).event = "neutral" /\ Neutral(q).treg = q.treg
         /\ Neutral(q).bytes = 0 /\ Neutral(q).moved = <<>>
<1> DEFINE p == Neutral(q)
<1>1. /\ p.event = "neutral" /\ p.treg = q.treg /\ p.bytes = 0 /\ p.moved = <<>>
  BY DEF Neutral, Controller
<1> HIDE DEF p
<1>2. OrderOK(p, q.treg) BY <1>1 DEF OrderOK, DataPhases
<1> QED BY <1>1, <1>2 DEF p

-----------------------------------------------------------------------------

\* A byte by DMA.
LEMMA DmaByteOrder ==
  ASSUME IInv, OrderInv, DmaByte
  PROVE  OrderInv'
<1> SUFFICES ASSUME upset' = {} PROVE OrderOK(fdc', at') BY DEF OrderInv
<1> DEFINE q == [fdc EXCEPT !.dma = Step(@), !.tc = @ \/ Terminal(fdc.dma)]
<1>1. /\ fdc.dma.working
      /\ fdc' = IF fdc.asked.op = "read" THEN DataRead(q) ELSE DataWrite(q)
      /\ UNCHANGED <<at, upset>>
  BY DEF DmaByte, history
<1>2. /\ fdc \in Controller /\ DataOK(fdc) /\ Matched(fdc) /\ ~fdc.tc
      /\ OrderOK(fdc, at)
  <2>1. upset = {} BY <1>1
  <2>2. fdc \in Controller BY TypeFacts DEF IInv
  <2> QED BY <2>1, <2>2 DEF IInv, TransferInv, MatchedInv, OrderInv
<1>3. fdc.event \in DataPhases BY <1>1, <1>2 DEF Matched
<1>4. /\ fdc.dma \in Channel /\ Len(fdc.moved) \in Nat /\ fdc.dma.leng \in Nat
      /\ fdc.asked \in Transfer /\ fdc.bytes \in Nat
  BY <1>2, MovedFacts
<1>5. Step(fdc.dma) \in Channel BY <1>4, ChannelFacts
<1>6. /\ Step(fdc.dma).masked = fdc.dma.masked
      /\ fdc.dma.leng > 0 => Step(fdc.dma).leng = fdc.dma.leng - 1
  BY <1>4, StepLeng
<1>7. q \in Controller
  <2> DEFINE tc == fdc.tc \/ Terminal(fdc.dma)
  <2>1. tc \in BOOLEAN OBVIOUS
  <2> DEFINE s == [fdc EXCEPT !.dma = Step(fdc.dma)]
  <2>2. s \in Controller BY <1>2, <1>5 DEF Controller
  <2>3. s.tc = fdc.tc BY <1>2 DEF Controller
  <2>4. q = [s EXCEPT !.tc = tc] BY <2>3
  <2> HIDE DEF s, tc, q
  <2> QED BY <2>1, <2>2, <2>4 DEF Controller
<1>8. /\ q.event = fdc.event /\ q.ok = fdc.ok /\ q.asked = fdc.asked
      /\ q.bufcnt = fdc.bufcnt /\ q.us = fdc.us /\ q.hd = fdc.hd /\ q.r = fdc.r
      /\ q.treg = fdc.treg /\ q.bytes = fdc.bytes /\ q.moved = fdc.moved
      /\ q.dma = Step(fdc.dma)
  BY <1>2 DEF Controller
<1>9. q.tc <=> fdc.dma.leng = 0 BY <1>2 DEF Controller, Terminal
<1> HIDE DEF q
<1>10. BufferOK(fdc) /\ fdc.bytes > 0 /\ MovedOK(fdc) BY <1>2, <1>3 DEF OrderOK
<1>11. Flows(q)
  <2>1. ~fdc.dma.masked /\ Gone(fdc) + fdc.dma.leng + 1 = fdc.bytes
    BY <1>1, <1>10 DEF BufferOK
  <2>2. Gone(q) = Gone(fdc) BY <1>8 DEF Gone
  <2>3. Gone(q) \in Int
    <3> DEFINE n == Len(fdc.moved)
    <3>1. n \in Int BY <1>4
    <3> HIDE DEF n
    <3>2. Bytes(n) \in Int /\ SectorSize \in Int BY <3>1, BytesFacts
    <3>3. fdc.bufcnt \in Int BY <1>2, MovedFacts
    <3> QED BY <2>2, <3>2, <3>3 DEF Gone, n
  <2>4. q.tc => Gone(q) + 1 = q.bytes BY <1>4, <1>8, <1>9, <2>1, <2>2, <2>3
  <2>5. ~q.tc => Gone(q) + 1 + q.dma.leng + 1 = q.bytes
    <3> SUFFICES ASSUME ~q.tc PROVE Gone(q) + 1 + q.dma.leng + 1 = q.bytes OBVIOUS
    <3>1. fdc.dma.leng > 0 BY <1>4, <1>9
    <3>2. q.dma.leng = fdc.dma.leng - 1 BY <1>6, <1>8, <3>1
    <3> QED BY <1>4, <1>8, <2>1, <2>2, <2>3, <3>2
  <2>6. MovedOK(q) BY <1>8, <1>10 DEF MovedOK
  <2>7. q.bufcnt > 0 BY <1>2, <1>3, <1>8 DEF DataOK
  <2>8. q.us = q.asked.us /\ q.treg[q.us] = q.asked.c BY <1>8, <1>10 DEF BufferOK
  <2> QED BY <1>6, <1>8, <1>10, <2>1, <2>4, <2>5, <2>6, <2>7, <2>8 DEF Flows
<1>12. q.treg = at' BY <1>1, <1>2, <1>8 DEF OrderOK
<1>13. CASE fdc.event = "bufsend2"
  <2>1. fdc.asked.op = "read" /\ q.r <= Sectors BY <1>2, <1>8, <1>13 DEF DataOK
  <2>2. Len(q.moved) > 0 /\ Comes(q.asked, Len(q.moved) - 1, q.hd, q.r)
    BY <1>8, <1>10, <1>13 DEF BufferOK
  <2>3. OrderOK(DataRead(q), q.treg) BY <1>7, <1>8, <1>11, <1>13, <2>1, <2>2, DataReadOrder
  <2> QED BY <1>1, <1>12, <2>1, <2>3
<1>14. CASE fdc.event = "bufrecv"
  <2>1. fdc.asked.op # "read" BY <1>2, <1>14 DEF DataOK
  <2>2. Comes(q.asked, Len(q.moved), q.hd, q.r) BY <1>8, <1>10, <1>14 DEF BufferOK
  <2>3. OrderOK(DataWrite(q), q.treg) BY <1>7, <1>8, <1>11, <1>14, <2>2, DataWriteOrder
  <2> QED BY <1>1, <1>12, <2>1, <2>3
<1> QED BY <1>3, <1>13, <1>14 DEF DataPhases

\* READ DATA or WRITE DATA.
LEMMA CommandOrder ==
  ASSUME IInv, OrderInv, NEW t \in setup.transfers, NEW n \in setup.counts, Command(t, n)
  PROVE  OrderInv'
<1> SUFFICES ASSUME upset' = {} PROVE OrderOK(fdc', at') BY DEF OrderInv
<1> DEFINE dma == SetMask(SetCount(SetMask(fdc.dma, TRUE), n), FALSE)
<1> DEFINE q == [fdc EXCEPT !.dma = dma, !.bytes = n + 1]
<1>1. /\ fdc' = Begin(q, t) /\ fdc.event = "neutral" /\ at[t.us] = t.c
      /\ UNCHANGED <<at, upset>>
  BY DEF Command, Free, Idle, history
<1>2. fdc \in Controller /\ OrderOK(fdc, at)
  BY <1>1, TypeFacts DEF IInv, OrderInv
<1>3. /\ t \in Transfer /\ n \in 0 .. CountRange - 1
  BY TypeFacts DEF IInv, Setup
<1>4. fdc.dma \in Channel BY <1>2 DEF Controller
<1>5. dma \in Channel BY <1>3, <1>4, ChannelFacts
<1>6. dma.leng = n BY <1>3, <1>4 DEF SetMask, SetCount, Check, Channel
<1>7. n + 1 \in 0 .. CountRange /\ n + 1 > 0 BY <1>3, Sizes
<1> HIDE DEF dma
<1>8. q \in Controller BY <1>2, <1>5, <1>7 DEF Controller
<1>9. q.moved = fdc.moved /\ q.treg = fdc.treg /\ q.bytes = n + 1 /\ q.dma = dma
  BY <1>2 DEF Controller
<1> HIDE DEF q
<1>10. fdc.moved = <<>> /\ fdc.treg = at BY <1>1, <1>2 DEF OrderOK
<1>11. /\ q.moved = <<>> /\ q.treg[t.us] = t.c /\ q.bytes > 0
       /\ q.dma.leng + 1 = q.bytes
  BY <1>1, <1>6, <1>7, <1>9, <1>10
<1>12. OrderOK(Begin(q, t), q.treg) BY <1>3, <1>8, <1>11, BeginOrder
<1> QED BY <1>1, <1>9, <1>10, <1>12

\* The handler of the BIOS.
LEMMA BiosHandlerOrder ==
  ASSUME IInv, OrderInv, BiosHandler
  PROVE  OrderInv'
<1> SUFFICES ASSUME upset' = {} PROVE OrderOK(fdc', at') BY DEF OrderInv
<1>1. fdc.event # "bufsend2" /\ upset = {} BY DEF BiosHandler
<1>2. at' = at /\ (fdc' = fdc \/ fdc' = AfterSense(Neutral(fdc), Pending(fdc)))
  BY <1>1 DEF BiosHandler
<1>3. fdc \in Controller /\ OrderOK(fdc, at)
  BY <1>1, TypeFacts DEF IInv, OrderInv
<1>4. CASE fdc' = fdc BY <1>2, <1>3, <1>4
<1>5. CASE fdc' = AfterSense(Neutral(fdc), Pending(fdc))
  <2> DEFINE q == Neutral(fdc)
  <2>1. q \in Controller /\ q.event = "neutral" BY <1>3, NeutralFacts
  <2>2. OrderOK(q, fdc.treg) BY <1>3, NeutralOrder
  <2> HIDE DEF q
  <2>3. fdc' = AfterSense(q, Pending(fdc)) BY <1>5 DEF q
  <2>4. Same(fdc', q) BY <2>1, <2>3 DEF Same, AfterSense, Controller, DataPhases
  <2>5. OrderOK(fdc', fdc.treg) BY <2>2, <2>4, SameOrder
  <2> QED BY <1>2, <1>3, <2>5 DEF OrderOK
<1> QED BY <1>2, <1>4, <1>5

\* A disk is taken out while no command goes on.
LEMMA SetDiskOrder ==
  ASSUME IInv, OrderInv, NEW d, NEW m, SetDisk(d, m)
  PROVE  OrderInv'
<1> SUFFICES ASSUME upset' = {} PROVE OrderOK(fdc', at') BY DEF OrderInv
<1>1. ~Busy /\ upset = {} /\ at' = at BY DEF SetDisk, Changes
<1>2. fdc \in Controller /\ OrderOK(fdc, at) /\ fdc.event = "neutral"
  BY <1>1, TypeFacts DEF IInv, OrderInv, Busy
<1>3. Same(fdc', fdc) BY <1>2 DEF Same, SetDisk, Controller, DataPhases
<1> QED BY <1>1, <1>2, <1>3, SameOrder

\* The delays of a frame leave fdc.us alone, or no command goes on.
LEMMA FrameOrder ==
  ASSUME IInv, OrderInv, Frame
  PROVE  OrderInv'
<1> SUFFICES ASSUME upset' = {} PROVE OrderOK(fdc', at') BY DEF OrderInv
<1> DEFINE q == DiskDelays(fdc)
<1>1. /\ upset = {} /\ at' = at /\ fdc' = SeekDelays(q)
      /\ fdc'.us # fdc.us => ~Busy
  BY DEF Frame, Changes
<1>2. fdc \in Controller /\ OrderOK(fdc, at) BY <1>1, TypeFacts DEF IInv, OrderInv
<1>3. q \in Controller BY <1>2, DiskDelaysFacts
<1>4. /\ q.event = fdc.event /\ q.ok = fdc.ok /\ q.treg = fdc.treg
      /\ q.asked = fdc.asked /\ q.bytes = fdc.bytes /\ q.moved = fdc.moved
      /\ q.hd = fdc.hd /\ q.r = fdc.r /\ q.bufcnt = fdc.bufcnt /\ q.dma = fdc.dma
  BY <1>2 DEF DiskDelays, Controller
<1> HIDE DEF q
<1>5. /\ fdc'.event = q.event /\ fdc'.ok = q.ok /\ fdc'.treg = q.treg
      /\ fdc'.asked = q.asked /\ fdc'.bytes = q.bytes /\ fdc'.moved = q.moved
      /\ fdc'.hd = q.hd /\ fdc'.r = q.r /\ fdc'.bufcnt = q.bufcnt /\ fdc'.dma = q.dma
  BY <1>1, <1>3 DEF SeekDelays, Controller
<1>6. fdc.event \in DataPhases => fdc'.us = fdc.us BY <1>1 DEF Busy, DataPhases
<1>7. Same(fdc', fdc) BY <1>4, <1>5, <1>6 DEF Same
<1> QED BY <1>1, <1>2, <1>7, SameOrder

\* Steps that leave the transfer alone.
LEMMA RestOrder ==
  ASSUME IInv, OrderInv,
         Interrupt \/ WaitPolls \/ WaitReturns \/ ReadResult \/ SenseInterrupt
           \/ ClearDma \/ \E d, hd : SenseDeviceStatus(d, hd)
  PROVE  OrderInv'
<1> SUFFICES ASSUME upset' = {} PROVE OrderOK(fdc', at') BY DEF OrderInv
<1>1. upset = {} /\ at' = at
  BY DEF Interrupt, WaitPolls, WaitReturns, ReadResult, SenseInterrupt, ClearDma,
         SenseDeviceStatus, history
<1>2. fdc \in Controller /\ OrderOK(fdc, at) BY <1>1, TypeFacts DEF IInv, OrderInv
<1>3. CASE Interrupt
  <2>1. Same(fdc', fdc) BY <1>2, <1>3 DEF Same, Interrupt, Controller
  <2> QED BY <1>1, <1>2, <2>1, SameOrder
<1>4. CASE WaitPolls \/ WaitReturns BY <1>1, <1>2, <1>4 DEF WaitPolls, WaitReturns
<1>5. CASE ReadResult
  <2>1. OrderOK(fdc', fdc.treg) BY <1>2, <1>5, NeutralOrder DEF ReadResult
  <2> QED BY <1>1, <1>2, <2>1 DEF OrderOK
<1>6. CASE SenseInterrupt
  <2>1. fdc.event = "neutral" /\ \E drives : fdc' = AfterSense(fdc, drives)
    BY <1>6 DEF SenseInterrupt, Idle
  <2>2. Same(fdc', fdc) BY <1>2, <2>1 DEF Same, AfterSense, Controller, DataPhases
  <2> QED BY <1>1, <1>2, <2>2, SameOrder
<1>7. CASE ClearDma
  <2>1. fdc' = [fdc EXCEPT !.dma = MasterClear(@)] /\ ~fdc.dma.working
    BY <1>7 DEF ClearDma
  <2>2. /\ fdc'.event = fdc.event /\ fdc'.ok = fdc.ok /\ fdc'.treg = fdc.treg
        /\ fdc'.asked = fdc.asked /\ fdc'.bytes = fdc.bytes /\ fdc'.moved = fdc.moved
        /\ fdc'.us = fdc.us /\ fdc'.hd = fdc.hd /\ fdc'.r = fdc.r
        /\ fdc'.dma = MasterClear(fdc.dma)
    BY <1>2, <2>1 DEF Controller
  <2>3. fdc'.dma.masked /\ ~fdc'.dma.working
    <3>1. fdc.dma \in Channel BY <1>2 DEF Controller
    <3> QED BY <2>1, <2>2, <3>1 DEF MasterClear, Channel
  <2>4. fdc.event \in DataPhases => BufferOK(fdc')
    BY <1>2, <2>2, <2>3 DEF OrderOK, BufferOK
  <2>5. fdc.bytes > 0 => MovedOK(fdc') BY <1>2, <2>2 DEF OrderOK, MovedOK
  <2> QED BY <1>1, <1>2, <2>2, <2>4, <2>5 DEF OrderOK
<1>8. CASE \E d, hd : SenseDeviceStatus(d, hd)
  <2>1. PICK d, hd : SenseDeviceStatus(d, hd) BY <1>8
  <2> DEFINE q == [fdc EXCEPT !.us = d, !.hd = hd]
             s == [q EXCEPT !.stat[d] = Address(q)]
  <2>2. fdc' = Neutral(s) BY <2>1 DEF SenseDeviceStatus
  <2>3. /\ fdc'.event = "neutral" /\ fdc'.bytes = 0 /\ fdc'.moved = <<>>
        /\ fdc'.treg = s.treg
    <3>1. s.treg = fdc.treg BY <1>2 DEF Controller
    <3>2. fdc' = [s EXCEPT !.event = "neutral", !.hd = 0, !.r = 1, !.bufcnt = 0,
                           !.ok = FALSE, !.from = 0, !.asked = NoTransfer,
                           !.bytes = 0, !.moved = <<>>]
      BY <2>2 DEF Neutral
    <3> QED BY <1>2, <3>1, <3>2 DEF Controller
  <2>4. s.treg = fdc.treg BY <1>2 DEF Controller
  <2> QED BY <1>1, <1>2, <2>3, <2>4 DEF OrderOK, DataPhases
<1> QED BY <1>3, <1>4, <1>5, <1>6, <1>7, <1>8

\* The heads move between transfers only, and the guest knows where to.
LEMMA SeekOrder ==
  ASSUME IInv, OrderInv, NEW d \in Drives, NEW c \in 0 .. LastTrack,
         Seek(d, c) \/ (c = 0 /\ Recalibrate(d))
  PROVE  OrderInv'
<1> SUFFICES ASSUME upset' = {} PROVE OrderOK(fdc', at') BY DEF OrderInv
<1>1. /\ upset = {} /\ fdc.event = "neutral"
      /\ at' = [at EXCEPT ![d] = IF fdc.media[d] = "none" THEN @ ELSE c]
  BY DEF Seek, Recalibrate, Idle
<1>2. fdc \in Controller /\ OrderOK(fdc, at) BY <1>1, TypeFacts DEF IInv, OrderInv
<1>3. fdc.bytes = 0 /\ fdc.moved = <<>> /\ fdc.treg = at BY <1>1, <1>2 DEF OrderOK
<1>4. fdc.treg \in [Drives -> 0 .. LastTrack + 1] BY <1>2 DEF Controller
<1>5. /\ fdc'.event = fdc.event /\ fdc'.bytes = fdc.bytes /\ fdc'.moved = fdc.moved
      /\ fdc'.treg = IF fdc.media[d] = "none" THEN fdc.treg
                     ELSE [fdc.treg EXCEPT ![d] = c]
  <2>1. CASE Seek(d, c) BY <1>2, <2>1 DEF Seek, SetAside, Controller
  <2>2. CASE c = 0 /\ Recalibrate(d) BY <1>2, <2>2 DEF Recalibrate, SetAside, Controller
  <2> QED BY <2>1, <2>2
<1>6. fdc'.treg = at'
  <2>1. CASE fdc.media[d] = "none"
    <3>1. [at EXCEPT ![d] = at[d]] = at BY <1>3, <1>4
    <3> QED BY <1>1, <1>3, <1>5, <2>1, <3>1
  <2>2. CASE fdc.media[d] # "none" BY <1>1, <1>3, <1>5, <2>2
  <2> QED BY <2>1, <2>2
<1> QED BY <1>1, <1>3, <1>5, <1>6 DEF OrderOK, DataPhases

\* READ ID, when it stays on the track.
LEMMA ReadIDOrder ==
  ASSUME IInv, OrderInv, NEW d \in Drives, NEW mt \in BOOLEAN, ReadID(d, mt)
  PROVE  OrderInv'
<1> SUFFICES ASSUME upset' = {} PROVE OrderOK(fdc', at') BY DEF OrderInv
<1> DEFINE q == [fdc EXCEPT !.us = d, !.hd = 0]
           ready == fdc.media[d] # "none"
           s == IF ready THEN NextId(q, mt) ELSE q
<1>1. /\ fdc.event = "neutral" /\ fdc.treg[d] <= LastTrack /\ at' = at
      /\ fdc' = Result(s, ready)
      /\ upset' = IF fdc'.treg = fdc.treg THEN upset ELSE upset \cup {"stepped"}
  BY DEF ReadID, Free, Idle
<1>2. fdc'.treg = fdc.treg /\ upset = {} BY <1>1
<1>3. fdc \in Controller /\ OrderOK(fdc, at) BY <1>2, TypeFacts DEF IInv, OrderInv
<1>4. q \in Controller BY ZenonT(60), <1>3 DEF Controller
<1>5. q.us = d /\ q.treg = fdc.treg /\ q.bytes = fdc.bytes /\ q.moved = fdc.moved
  BY <1>3 DEF Controller
<1> HIDE DEF q, ready
<1>6. s \in Controller /\ s.bytes = fdc.bytes /\ s.moved = fdc.moved
  <2>1. q.treg[q.us] <= LastTrack BY <1>1, <1>5
  <2>2. NextId(q, mt) \in Controller BY <1>4, <2>1, NextIdFacts
  <2>3. NextId(q, mt).bytes = q.bytes /\ NextId(q, mt).moved = q.moved
    BY <1>4 DEF NextId, Controller
  <2> QED BY <1>4, <1>5, <2>2, <2>3
<1> HIDE DEF s
<1>7. fdc'.event = "result" /\ fdc'.bytes = s.bytes /\ fdc'.moved = s.moved
  BY <1>1, <1>6 DEF Result, Controller
<1>8. fdc'.bytes = 0 BY <1>1, <1>3, <1>6, <1>7 DEF OrderOK
<1> QED BY <1>1, <1>2, <1>3, <1>7, <1>8 DEF OrderOK, DataPhases

\* int 1Bh moves its data itself.
LEMMA BiosCallOrder ==
  ASSUME IInv, OrderInv, NEW d \in Drives, NEW c \in 0 .. LastTrack,
         NEW seek \in BOOLEAN, BiosCall(d, c, seek)
  PROVE  OrderInv'
<1> SUFFICES ASSUME upset' = {} PROVE OrderOK(fdc', at') BY DEF OrderInv
<1> DEFINE ready == fdc.media[d] # "none"
           n == Neutral(fdc)
           trk == IF ready THEN c ELSE n.treg[d]
           q == [n EXCEPT !.us = d, !.crcn = 0, !.treg[d] = trk]
<1>1. /\ upset = {}
      /\ at' = [at EXCEPT ![d] = IF fdc.media[d] = "none" THEN @ ELSE c]
  BY DEF BiosCall
<1>2. PICK ok \in {ready} \cup {FALSE} :
        fdc' = IF seek /\ ready THEN [q EXCEPT !.stat[d] = "seek", !.armed = TRUE]
               ELSE Result(q, ok)
  BY DEF BiosCall
<1>3. fdc \in Controller /\ fdc.treg = at
  BY <1>1, TypeFacts DEF IInv, OrderInv, OrderOK
<1>4. n \in Controller /\ n.event = "neutral" /\ n.bytes = 0 /\ n.moved = <<>>
      /\ n.treg = at
  BY <1>3, NeutralFacts, NeutralOrder
<1> HIDE DEF n
<1>5. trk \in 0 .. LastTrack + 1 /\ 0 \in 0 .. Sectors
  <2>1. n.treg \in [Drives -> 0 .. LastTrack + 1] BY <1>4 DEF Controller
  <2> QED BY <2>1, Sizes
<1>6. at' = [n.treg EXCEPT ![d] = trk] BY <1>1, <1>4
<1> HIDE DEF ready, trk
<1>7. n \in Controller BY <1>4
<1>8. q \in Controller BY ZenonT(60), <1>5, <1>7 DEF Controller
<1>9. /\ q.event = "neutral" /\ q.bytes = 0 /\ q.moved = <<>> /\ q.treg = at'
  BY ZenonT(60), <1>4, <1>6 DEF Controller
<1> HIDE DEF q
<1>10. /\ fdc'.event \in {"neutral", "result"} /\ fdc'.bytes = q.bytes
      /\ fdc'.moved = q.moved /\ fdc'.treg = q.treg
  <2>1. CASE seek /\ ready
    <3>1. fdc' = [q EXCEPT !.stat[d] = "seek", !.armed = TRUE] BY <1>2, <2>1
    <3> QED BY <1>8, <1>9, <3>1 DEF Controller
  <2>2. CASE ~(seek /\ ready)
    <3>1. fdc' = Result(q, ok) BY <1>2, <2>2
    <3> QED BY <1>8, <3>1 DEF Result, Controller
  <2> QED BY <2>1, <2>2
<1> QED BY <1>9, <1>10 DEF OrderOK, DataPhases

\* The control register, when no command is broken off.
LEMMA OutCtrlOrder ==
  ASSUME IInv, OrderInv, NEW dat, OutCtrl(dat)
  PROVE  OrderInv'
<1> SUFFICES ASSUME upset' = {} PROVE OrderOK(fdc', at') BY DEF OrderInv
<1> DEFINE toggled == (fdc.ctrl \ dat) \cup (dat \ fdc.ctrl)
           rises == dat \ fdc.ctrl
           n == Neutral(fdc)
           m == [n EXCEPT !.dma = SetReady(n.dma, FALSE)]
           q == IF "dmae" \notin toggled THEN fdc ELSE m
           r == IF "reset" \notin rises THEN q ELSE Neutral(q)
           s == IF "reset" \in rises /\ "motor" \in dat
                  THEN [r EXCEPT !.istat = r.stat,
                                 !.timer = [d \in Drives |-> IntDelay]]
                  ELSE r
           spun == IF setup.ext /\ "motor" \in rises
                     THEN {d \in Drives : s.media[d] # "none"} ELSE {}
<1>1. /\ fdc' = [s EXCEPT
                   !.istat = [d \in Drives |-> IF d \in spun THEN "attention" ELSE @[d]],
                   !.timer = [d \in Drives |-> IF d \in spun THEN IntDelay ELSE @[d]],
                   !.ctrl = dat]
      /\ upset' = IF "reset" \in rises \/ s.event # fdc.event
                    THEN upset \cup {"reset"} ELSE upset
      /\ at' = at
  BY DEF OutCtrl
<1>2. "reset" \notin rises /\ s = q /\ q.event = fdc.event /\ upset = {} BY <1>1
<1>3. fdc \in Controller /\ OrderOK(fdc, at) BY <1>2, TypeFacts DEF IInv, OrderInv
<1>4. n.event = "neutral" /\ n.treg = fdc.treg /\ n.bytes = 0 /\ n.moved = <<>>
  BY <1>3, NeutralOrder
<1>9. n \in Controller BY <1>3, NeutralFacts
<1> HIDE DEF n, spun
<1>5. m \in Controller /\ m.event = n.event /\ m.treg = n.treg /\ m.bytes = n.bytes
      /\ m.moved = n.moved
  <2> DEFINE ch == SetReady(n.dma, FALSE)
  <2>1. n.dma \in Channel BY <1>9 DEF Controller
  <2>2. ch \in Channel BY <2>1, ChannelFacts
  <2>3. m = [n EXCEPT !.dma = ch] OBVIOUS
  <2> HIDE DEF ch, m
  <2>4. m \in Controller BY ZenonT(60), <1>9, <2>2, <2>3 DEF Controller
  <2>5. m.event = n.event /\ m.treg = n.treg /\ m.bytes = n.bytes /\ m.moved = n.moved
    BY <1>9, <2>3 DEF Controller
  <2> QED BY <2>4, <2>5
<1> HIDE DEF m
<1>6. q \in Controller /\ OrderOK(q, at)
  <2>1. CASE q = fdc BY <1>3, <2>1
  <2>2. CASE q = m
    <3>1. m.treg = at BY <1>3, <1>4, <1>5 DEF OrderOK
    <3>2. OrderOK(m, at) BY <1>4, <1>5, <3>1 DEF OrderOK, DataPhases
    <3> QED BY <1>5, <2>2, <3>2
  <2> QED BY <2>1, <2>2
<1>7. fdc' = [q EXCEPT
                !.istat = [d \in Drives |-> IF d \in spun THEN "attention" ELSE @[d]],
                !.timer = [d \in Drives |-> IF d \in spun THEN IntDelay ELSE @[d]],
                !.ctrl = dat]
  BY <1>1, <1>2
<1> HIDE DEF q, s, r
<1>8. Same(fdc', q) BY <1>6, <1>7 DEF Same, Controller
<1> QED BY <1>1, <1>6, <1>8, SameOrder

-----------------------------------------------------------------------------

LEMMA OrderInit == Init => OrderInv
<1> SUFFICES ASSUME Init PROVE OrderOK(fdc, at) BY DEF OrderInv
<1>1. /\ fdc.event = "neutral" /\ fdc.treg = [d \in Drives |-> 0] /\ fdc.bytes = 0
      /\ fdc.moved = <<>> /\ at = [d \in Drives |-> 0]
  BY DEF Init
<1> QED BY <1>1 DEF OrderOK, DataPhases

LEMMA OrderNext ==
  IInv /\ OrderInv /\ [Next /\ UNCHANGED setup]_<<vars, setup>> => OrderInv'
<1> SUFFICES ASSUME IInv, OrderInv, [Next /\ UNCHANGED setup]_<<vars, setup>>
             PROVE  OrderInv'
  OBVIOUS
<1>1. CASE UNCHANGED <<vars, setup>>
  <2>1. UNCHANGED <<fdc, at, upset>> BY <1>1 DEF vars, history
  <2> QED BY <2>1 DEF OrderInv, OrderOK, MovedOK, BufferOK, Gone
<1>2. CASE Next
  <2>1. /\ setup.units \subseteq Drives /\ setup.tracks \subseteq 0 .. LastTrack
    BY TypeFacts DEF IInv, Setup
  <2>2. CASE User BY <2>2, SetDiskOrder DEF User
  <2>3. CASE Machine
    BY <2>3, DmaByteOrder, RestOrder, BiosHandlerOrder, FrameOrder DEF Machine
  <2>4. CASE GuestCommands
    <3>1. CASE \E t \in setup.transfers, n \in setup.counts : Command(t, n)
      BY <3>1, CommandOrder
    <3>2. CASE ReadResult \/ SenseInterrupt \/ ClearDma BY <3>2, RestOrder
    <3>3. CASE \E d \in setup.units : Recalibrate(d) \/ \E c \in setup.tracks : Seek(d, c)
      <4>1. 0 \in 0 .. LastTrack BY Sizes
      <4> QED BY <2>1, <3>3, <4>1, SeekOrder
    <3>4. CASE \E d \in setup.units, hd \in {0, 1} : SenseDeviceStatus(d, hd)
      BY <3>4, RestOrder
    <3>5. CASE \E d \in setup.units, mt \in BOOLEAN : ReadID(d, mt)
      BY <2>1, <3>5, ReadIDOrder
    <3>6. CASE \E d \in setup.units, c \in setup.tracks, seek \in BOOLEAN :
                 BiosCall(d, c, seek)
      BY <2>1, <3>6, BiosCallOrder
    <3>7. CASE \E b \in setup.ports \cap {"motor", "dmae", "reset"} :
                 OutCtrl(IF b \in fdc.ctrl THEN fdc.ctrl \ {b} ELSE fdc.ctrl \cup {b})
      BY <3>7, OutCtrlOrder
    <3> QED BY <2>4, <3>1, <3>2, <3>3, <3>4, <3>5, <3>6, <3>7 DEF GuestCommands
  <2> QED BY <1>2, <2>2, <2>3, <2>4 DEF Next
<1> QED BY <1>1, <1>2

\* A transfer moves the sectors it was asked for in their order, from the drive and
\* the cylinder it was asked for, never one more than its bytes fill, and all of them
\* when it reports success; of every number of sectors, of every size, with every
\* count of the DMA channel.
THEOREM SectorsMoveInOrder == Spec => []SectorsInOrder
<1>1. IInv /\ OrderInv => SectorsInOrder
  <2> SUFFICES ASSUME IInv, OrderInv, fdc.bytes > 0, upset = {}
               PROVE  LET plan == Plan(fdc.asked)
                          filled == (fdc.bytes + SectorSize - 1) \div SectorSize
                          due == IF filled < Len(plan) THEN filled ELSE Len(plan)
                      IN /\ IsPrefix(fdc.moved, plan) /\ Len(fdc.moved) <= due
                         /\ fdc.event = "result" /\ fdc.ok => Len(fdc.moved) = due
    BY DEF SectorsInOrder
  <2> DEFINE m == fdc.moved
             plan == Plan(fdc.asked)
             filled == Filled(fdc.bytes)
  <2>1. MovedOK(fdc) BY DEF OrderInv, OrderOK
  <2>2. fdc \in Controller BY TypeFacts DEF IInv
  <2>3. Len(m) \in Nat /\ fdc.bytes \in Nat /\ fdc.asked \in Transfer
    BY <2>2, MovedFacts
  <2>4. filled \in Int BY <2>3, FilledFacts
  <2>5. /\ Begins(m, plan) /\ Len(m) <= filled
        /\ fdc.event = "result" /\ fdc.ok => Len(m) \in {filled, Len(plan)}
    BY <2>1 DEF MovedOK
  <2> HIDE DEF m, plan, filled
  <2>6. IsPrefix(m, plan)
    <3>1. Len(m) <= Len(plan) /\ \A i \in 1 .. Len(m) : m[i] = plan[i]
      BY <2>5 DEF Begins
    <3>2. SubSeq(m, 1, Len(m)) = [i \in 1 .. Len(m) |-> m[i]] BY <2>3
    <3>3. SubSeq(plan, 1, Len(m)) = [i \in 1 .. Len(m) |-> plan[i]] BY <2>3
    <3> QED BY <3>1, <3>2, <3>3 DEF IsPrefix
  <2>7. Len(plan) \in Nat
    <3>1. 0 \in Nat BY SMT
    <3>2. Comes(fdc.asked, 0, fdc.asked.hd, fdc.asked.r) BY <2>3 DEF Comes, Transfer
    <3>3. fdc.asked.hd \in {0, 1} /\ fdc.asked.r \in 1 .. Sectors
      BY <2>3 DEF Transfer
    <3> QED BY <2>3, <3>1, <3>2, <3>3, PlanFacts DEF plan
  <2> DEFINE due == IF filled < Len(plan) THEN filled ELSE Len(plan)
  <2>8. Len(m) <= due /\ (fdc.event = "result" /\ fdc.ok => Len(m) = due)
    <3>1. Len(m) <= Len(plan) BY <2>5 DEF Begins
    <3> QED BY <2>3, <2>4, <2>5, <2>7, <3>1
  <2> QED BY <2>6, <2>8 DEF Filled, m, plan, filled
<1> QED BY <1>1, OrderInit, OrderNext, InitLemma, NextLemma, PTL DEF Spec
=============================================================================
