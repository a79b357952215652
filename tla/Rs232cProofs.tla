---------------------------- MODULE Rs232cProofs ----------------------------
(***************************************************************************)
(* Proofs about module Rs232c, for every size of its rings, every bound    *)
(* and every guest and host.                                               *)
(***************************************************************************)
EXTENDS Rs232c, SequenceTheorems, TLAPS

(***************************************************************************)
(* Sequences.                                                              *)
(***************************************************************************)

\* A sequence with its first element apart.
LEMMA HeadAndTail ==
  ASSUME NEW S, NEW s \in Seq(S), s # <<>>
  PROVE  /\ Head(s) \in S /\ Tail(s) \in Seq(S)
         /\ Len(s) \in Nat \ {0} /\ Len(Tail(s)) = Len(s) - 1
         /\ <<Head(s)>> \in Seq(S)
         /\ <<Head(s)>> \o Tail(s) = s
<1>1. /\ Head(s) \in S /\ Tail(s) \in Seq(S)
      /\ Len(s) \in Nat \ {0} /\ Len(Tail(s)) = Len(s) - 1
  BY HeadTailProperties
<1>2. SubSeq(s, 1, Len(s)) = <<s[1]>> \o SubSeq(s, 2, Len(s))
  <2>1. 1 \in 1 .. Len(s) /\ Len(s) \in 1 .. Len(s) BY <1>1
  <2> QED BY <2>1, SubSeqRecursiveFirst
<1>3. SubSeq(s, 1, Len(s)) = s BY SubSeqFull
<1>4. Tail(s) = SubSeq(s, 2, Len(s)) BY TailIsSubSeq
<1>5. Head(s) = s[1] OBVIOUS
<1>6. <<Head(s)>> \in Seq(S) BY <1>1
<1> QED BY <1>1, <1>2, <1>3, <1>4, <1>5, <1>6

\* A sequence cut in two.
LEMMA CutInTwo ==
  ASSUME NEW S, NEW s \in Seq(S), NEW n \in 0 .. Len(s)
  PROVE  /\ SubSeq(s, 1, n) \in Seq(S)
         /\ SubSeq(s, n + 1, Len(s)) \in Seq(S)
         /\ Len(SubSeq(s, n + 1, Len(s))) = Len(s) - n
         /\ SubSeq(s, 1, n) \o SubSeq(s, n + 1, Len(s)) = s
<1>1. Len(s) \in Nat /\ n \in Nat /\ \A i \in 1 .. Len(s) : s[i] \in S OBVIOUS
<1>2. /\ SubSeq(s, 1, n) \in Seq(S)
      /\ SubSeq(s, n + 1, Len(s)) \in Seq(S)
      /\ Len(SubSeq(s, n + 1, Len(s))) = Len(s) - n
  <2>1. \A i \in 1 .. n : s[i] \in S BY <1>1
  <2>2. \A i \in n + 1 .. Len(s) : s[i] \in S BY <1>1
  <2>3. SubSeq(s, 1, n) \in Seq(S) BY <1>1, <2>1, SubSeqProperties
  <2>4. n + 1 \in Int /\ Len(s) \in Int BY <1>1
  <2>5. /\ SubSeq(s, n + 1, Len(s)) \in Seq(S)
        /\ Len(SubSeq(s, n + 1, Len(s))) =
             IF n + 1 <= Len(s) THEN Len(s) - (n + 1) + 1 ELSE 0
    BY <2>2, <2>4, SubSeqProperties
  <2> QED BY <1>1, <2>3, <2>5
<1>3. SubSeq(s, 1, n) \o SubSeq(s, n + 1, Len(s)) = SubSeq(s, 1, Len(s))
  <2>1. 1 \in 1 .. Len(s) + 1 /\ n \in 1 - 1 .. Len(s) /\ Len(s) \in n .. Len(s)
    BY <1>1
  <2> QED BY <2>1, ConcatAdjacentSubSeq
<1> QED BY <1>2, <1>3, SubSeqFull

-----------------------------------------------------------------------------
(***************************************************************************)
(* Transmission.                                                           *)
(***************************************************************************)

\* The parts of the record that the transmitter leaves alone.
SameReceiver(p, q) ==
  /\ p.ring = q.ring /\ p.inbox = q.inbox /\ p.data = q.data
  /\ p.dropped = q.dropped /\ p.count = q.count
  /\ p.fifo = q.fifo /\ p.cmd = q.cmd
  /\ "RxRDY" \in p.result <=> "RxRDY" \in q.result

\* The parts that make up what the guest sends.
SameSender(p, q) ==
  /\ p.wbuf = q.wbuf /\ p.held = q.held /\ p.out = q.out /\ p.line = q.line
  /\ p.fifo = q.fifo /\ p.cmd = q.cmd
  /\ "TxRDY" \in p.result <=> "TxRDY" \in q.result
  /\ "TxEMP" \in p.result <=> "TxEMP" \in q.result

\* The fields of the record.
LEMMA Fields ==
  ASSUME NEW q \in Serial
  PROVE  /\ q.cmd \in SUBSET {"tx", "rx"}
         /\ q.result \in SUBSET {"TxRDY", "RxRDY", "TxEMP"}
         /\ q.data \in 0 .. LastByte /\ q.send \in BOOLEAN
         /\ q.lastfail \in BOOLEAN /\ q.fifo \in BOOLEAN
         /\ q.irqflag \in {"none", "send", "receive", "end"} /\ q.irq \in BOOLEAN
         /\ q.ring \in Seq(Bytes) /\ q.count \in 0 .. ClearCount - 1
         /\ q.wbuf \in Seq(Bytes) /\ q.held \in 0 .. LastByte
         /\ q.line \in 0 .. LineRoom /\ q.inbox \in Seq(Bytes)
         /\ q.out \in Seq(Bytes) /\ q.dropped \in SUBSET Bytes
  BY DEF Serial

\* Interrupts: the sender and the receiver are as they were.
LEMMA InterruptFacts ==
  ASSUME NEW q \in Serial
  PROVE  /\ \A c \in {"none", "send", "receive", "end"} :
              /\ Cause(q, c) \in Serial
              /\ SameReceiver(Cause(q, c), q) /\ SameSender(Cause(q, c), q)
         /\ Raise(q) \in Serial
         /\ SameReceiver(Raise(q), q) /\ SameSender(Raise(q), q)
         /\ TxInterrupt(q) \in Serial
         /\ SameReceiver(TxInterrupt(q), q) /\ SameSender(TxInterrupt(q), q)
  BY DEF Cause, Raise, TxInterrupt, Serial, SameReceiver, SameSender

\* The host's port takes the byte or keeps it.
LEMMA PortWriteFacts ==
  ASSUME NEW q \in Serial, NEW b \in Bytes
  PROVE  /\ PortWrite(q, b) \in Serial
         /\ SameReceiver(PortWrite(q, b), q)
         /\ PortWrite(q, b).wbuf = q.wbuf
         /\ PortWrite(q, b).result = q.result
         /\ q.line > 0 => /\ PortWrite(q, b).held = 0
                          /\ PortWrite(q, b).out = Append(q.out, b)
         /\ q.line = 0 => /\ PortWrite(q, b).held = b
                          /\ PortWrite(q, b).out = q.out
<1>1. b \in 0 .. LastByte /\ LineRoom \in Nat /\ LastByte \in Nat
  BY Rs232cAssumption DEF Bytes
<1>2. q.line \in 0 .. LineRoom BY Fields
<1>3. CASE q.line > 0
  <2> DEFINE w == [q EXCEPT !.line = q.line - 1, !.held = 0, !.out = Append(q.out, b)]
  <2>1. PortWrite(q, b) = w BY <1>3 DEF PortWrite
  <2>2. q.line - 1 \in 0 .. LineRoom /\ 0 \in 0 .. LastByte BY <1>1, <1>2, <1>3
  <2>3. Append(q.out, b) \in Seq(Bytes) BY Fields
  <2>4. w \in Serial BY <2>2, <2>3 DEF Serial
  <2>5. SameReceiver(w, q) /\ w.wbuf = q.wbuf /\ w.result = q.result
        /\ w.held = 0 /\ w.out = Append(q.out, b)
    BY DEF SameReceiver, Serial
  <2> QED BY <1>3, <2>1, <2>4, <2>5
<1>4. CASE q.line = 0
  <2> DEFINE w == [q EXCEPT !.held = b]
  <2>1. PortWrite(q, b) = w BY <1>4 DEF PortWrite
  <2>2. w \in Serial BY <1>1 DEF Serial
  <2>3. SameReceiver(w, q) /\ w.wbuf = q.wbuf /\ w.result = q.result
        /\ w.held = b /\ w.out = q.out
    BY DEF SameReceiver, Serial
  <2> QED BY <1>4, <2>1, <2>2, <2>3
<1> QED BY <1>1, <1>2, <1>3, <1>4

\* TxRDY tells whether there is room.
LEMMA LevelFacts ==
  ASSUME NEW q \in Serial
  PROVE  /\ Level(q) \in Serial
         /\ SameReceiver(Level(q), q)
         /\ Level(q).wbuf = q.wbuf /\ Level(q).held = q.held
         /\ Level(q).out = q.out /\ Level(q).line = q.line
         /\ "TxEMP" \in Level(q).result <=> "TxEMP" \in q.result
         /\ "TxRDY" \in Level(q).result => Len(q.wbuf) <= FifoHigh
<1>1. Len(q.wbuf) \in Nat /\ FifoHigh \in Int BY Fields, Rs232cAssumption
<1> DEFINE r == IF Len(q.wbuf) > FifoHigh THEN q.result \ {"TxRDY"}
                ELSE q.result \cup {"TxRDY"}
           w == [q EXCEPT !.result = r]
<1>2. Level(q) = w BY DEF Level, Serial
<1>3. /\ r \in SUBSET {"TxRDY", "RxRDY", "TxEMP"}
      /\ "TxEMP" \in r <=> "TxEMP" \in q.result
      /\ "RxRDY" \in r <=> "RxRDY" \in q.result
      /\ "TxRDY" \in r => Len(q.wbuf) <= FifoHigh
  BY <1>1, Fields
<1> HIDE DEF r
<1>4. w \in Serial BY <1>3 DEF Serial
<1>5. SameReceiver(w, q) BY <1>3 DEF SameReceiver, Serial
<1>6. /\ w.wbuf = q.wbuf /\ w.held = q.held /\ w.out = q.out
      /\ w.line = q.line /\ w.result = r
  BY DEF Serial
<1> QED BY <1>2, <1>3, <1>4, <1>5, <1>6

\* Nothing waits any more.
LEMMA EmptyFacts ==
  ASSUME NEW q \in Serial
  PROVE  /\ Empty(q) \in Serial
         /\ SameReceiver(Empty(q), q)
         /\ Empty(q).wbuf = q.wbuf /\ Empty(q).held = q.held
         /\ Empty(q).out = q.out /\ Empty(q).line = q.line
         /\ {"TxRDY", "TxEMP"} \subseteq Empty(q).result
  BY DEF Empty, Serial, SameReceiver

\* No more bytes leave the buffer than it holds; a port that answers for itself
\* takes as many as it has room for.
LEMMA PassedFacts ==
  ASSUME NEW q \in Serial
  PROVE  /\ Passed(q) \in 0 .. Len(q.wbuf)
         /\ ~Inverted => /\ Passed(q) <= q.line
                         /\ Passed(q) < Len(q.wbuf) => Passed(q) = q.line
<1>1. Len(q.wbuf) \in Nat /\ q.line \in Nat
  BY Fields, Rs232cAssumption
<1>2. CASE ~Inverted
  <2> DEFINE S == {q.line, Len(q.wbuf)}
  <2>1. \E x \in S : \A y \in S : x <= y BY <1>1
  <2>2. Min(S) \in S /\ \A y \in S : Min(S) <= y BY <2>1 DEF Min
  <2>3. Passed(q) = Min(S) BY <1>2 DEF Passed
  <2>4. Passed(q) \in {q.line, Len(q.wbuf)} /\ Passed(q) <= q.line
        /\ Passed(q) <= Len(q.wbuf)
    BY <2>2, <2>3
  <2> QED BY <1>1, <2>4
<1>3. CASE Inverted
  BY <1>1, <1>3 DEF Passed
<1> QED BY <1>2, <1>3

\* The loop of the transmitter.  What has left and what still waits are the bytes
\* that there were, in their order, and a byte that waits has been offered.
LEMMA DrainedFacts ==
  ASSUME NEW q \in Serial
  PROVE  LET d == Drained(q)
         IN /\ d.q \in Serial
            /\ SameReceiver(d.q, q)
            /\ Len(d.q.wbuf) <= Len(q.wbuf)
            /\ "TxEMP" \in d.q.result <=> "TxEMP" \in q.result
            /\ d.waits \in BOOLEAN
            /\ ~d.waits => d.q.wbuf = <<>>
            /\ d.waits => d.q.wbuf # <<>>
            /\ ~Inverted =>
                 /\ d.q.out \o d.q.wbuf = q.out \o q.wbuf
                 /\ ~d.waits /\ (q.held = 0 \/ q.wbuf # <<>>) => d.q.held = 0
                 /\ d.waits => d.q.held = Head(d.q.wbuf)
                 /\ d.waits /\ "TxRDY" \in d.q.result => Len(d.q.wbuf) <= FifoHigh
<1> DEFINE n == Passed(q)
           taken == IF Inverted THEN 0 ELSE n
           first == SubSeq(q.wbuf, 1, taken)
           rest == SubSeq(q.wbuf, n + 1, Len(q.wbuf))
           held == IF n = 0 THEN q.held ELSE IF Inverted THEN q.wbuf[n] ELSE 0
           s == [q EXCEPT !.wbuf = rest, !.line = q.line - taken, !.held = held,
                          !.out = q.out \o first]
           d == Drained(q)
<1>1. /\ q.wbuf \in Seq(Bytes) /\ q.out \in Seq(Bytes) /\ Len(q.wbuf) \in Nat
      /\ q.held \in 0 .. LastByte /\ q.line \in 0 .. LineRoom
      /\ LineRoom \in Nat /\ LastByte \in Nat
  BY Fields, Rs232cAssumption
<1>2. /\ n \in 0 .. Len(q.wbuf)
      /\ ~Inverted => n <= q.line /\ (n < Len(q.wbuf) => n = q.line)
  BY PassedFacts
<1>3. d = IF rest = <<>> THEN [q |-> s, waits |-> FALSE]
          ELSE [q |-> PortWrite(Level(s), Head(rest)), waits |-> TRUE]
  BY DEF Drained
<1> HIDE DEF n, d
<1>4. taken \in 0 .. Len(q.wbuf) /\ q.line - taken \in 0 .. LineRoom
  BY <1>1, <1>2
<1>5. rest \in Seq(Bytes) /\ Len(rest) = Len(q.wbuf) - n
  BY <1>1, <1>2, CutInTwo
<1>6. first \in Seq(Bytes) BY <1>1, <1>4, CutInTwo
<1>7. q.out \o first \in Seq(Bytes) BY <1>1, <1>6, ConcatProperties
<1>8. held \in 0 .. LastByte
  <2>1. n # 0 => q.wbuf[n] \in Bytes BY <1>1, <1>2
  <2> QED BY <1>1, <2>1 DEF Bytes
<1>9. ~Inverted => first \o rest = q.wbuf BY <1>1, <1>2, CutInTwo
<1>10. ~Inverted => (q.out \o first) \o rest = q.out \o q.wbuf
  <2> HIDE DEF first, rest, taken
  <2>1. \A a, b, c \in Seq(Bytes) : (a \o b) \o c = a \o (b \o c)
    BY ConcatAssociative
  <2>2. (q.out \o first) \o rest = q.out \o (first \o rest)
    BY ZenonT(60), <1>1, <1>5, <1>6, <2>1
  <2> QED BY <1>9, <2>2
<1>11. ~Inverted /\ (q.held = 0 \/ n # 0) => held = 0 OBVIOUS
<1> DEFINE line == q.line - taken
           out == q.out \o first
<1> HIDE DEF first, rest, held
<1>12. line \in 0 .. LineRoom BY <1>4
<1>13. out \in Seq(Bytes) BY <1>7
<1>14. s = [q EXCEPT !.wbuf = rest, !.line = line, !.held = held, !.out = out]
  OBVIOUS
<1>15. ~Inverted => line = q.line - n OBVIOUS
<1>16. ~Inverted => out \o rest = q.out \o q.wbuf BY <1>10
<1> HIDE DEF taken, line, out, s
<1>17. s \in Serial BY <1>5, <1>8, <1>12, <1>13, <1>14 DEF Serial
<1>18. SameReceiver(s, q) BY <1>14 DEF SameReceiver, Serial
<1>19. /\ s.wbuf = rest /\ s.line = line /\ s.held = held /\ s.out = out
       /\ s.result = q.result
  BY <1>14 DEF Serial
<1>20. CASE rest = <<>>
  <2>1. d.q = s /\ d.waits = FALSE BY <1>3, <1>20
  <2>2. 0 <= Len(q.wbuf) /\ Len(rest) = 0 /\ n = Len(q.wbuf)
    BY <1>1, <1>2, <1>5, <1>20
  <2>3. ~Inverted /\ (q.held = 0 \/ q.wbuf # <<>>) => held = 0
    BY <1>1, <1>11, <2>2
  <2> QED BY <1>16, <1>17, <1>18, <1>19, <1>20, <2>1, <2>2, <2>3 DEF d
<1>21. CASE rest # <<>>
  <2> DEFINE l == Level(s)
             b == Head(rest)
             w == PortWrite(l, b)
  <2>1. d.q = w /\ d.waits = TRUE BY <1>3, <1>21
  <2>2. b \in Bytes BY <1>5, <1>21, HeadAndTail
  <2>3. /\ l \in Serial /\ SameReceiver(l, s) /\ l.wbuf = rest /\ l.out = out
        /\ l.line = line
        /\ "TxEMP" \in l.result <=> "TxEMP" \in q.result
        /\ "TxRDY" \in l.result => Len(rest) <= FifoHigh
    BY <1>17, <1>19, LevelFacts
  <2> HIDE DEF l, b
  <2>4. /\ w \in Serial /\ SameReceiver(w, l) /\ w.wbuf = l.wbuf
        /\ w.result = l.result
        /\ l.line = 0 => w.held = b /\ w.out = l.out
    BY <2>2, <2>3, PortWriteFacts
  <2> HIDE DEF w
  <2>5. SameReceiver(w, q) BY <1>18, <2>3, <2>4 DEF SameReceiver
  <2>6. Len(rest) <= Len(q.wbuf) BY <1>1, <1>2, <1>5
  <2>7. ~Inverted => l.line = 0
    <3>1. Len(rest) # 0 BY <1>5, <1>21
    <3>2. n < Len(q.wbuf) BY <1>1, <1>2, <1>5, <3>1
    <3> QED BY <1>1, <1>2, <1>15, <2>3, <3>2
  <2> QED BY <1>16, <1>21, <2>1, <2>3, <2>4, <2>5, <2>6, <2>7 DEF d, b
<1> QED BY <1>20, <1>21

\* The flags of the transmitter that are not its state.
LEMMA FlagFacts ==
  ASSUME NEW q \in Serial, NEW b \in BOOLEAN
  PROVE  /\ [q EXCEPT !.send = b] \in Serial
         /\ SameReceiver([q EXCEPT !.send = b], q)
         /\ SameSender([q EXCEPT !.send = b], q)
         /\ [q EXCEPT !.lastfail = b] \in Serial
         /\ SameReceiver([q EXCEPT !.lastfail = b], q)
         /\ SameSender([q EXCEPT !.lastfail = b], q)
  BY DEF Serial, SameReceiver, SameSender

\* In FIFO mode the byte that waits is in the buffer.
Buffered(q) == q.fifo /\ "TxEMP" \notin q.result => q.wbuf # <<>>

\* TxEMP and TxRDY tell what waits; in FIFO mode it is the oldest of the buffer.
SenderInv(q) ==
  /\ "TxEMP" \in q.result => q.held = 0 /\ "TxRDY" \in q.result
  /\ "TxEMP" \notin q.result =>
       IF q.fifo
         THEN /\ q.wbuf # <<>> /\ q.held = Head(q.wbuf)
              /\ "TxRDY" \in q.result => Len(q.wbuf) <= FifoHigh
         ELSE q.held # 0 /\ "TxRDY" \notin q.result

\* All that has left or waits, in its order.
Pending(q) == IF q.fifo \/ q.held = 0 THEN q.wbuf ELSE <<q.held>> \o q.wbuf

Stream(q) == q.out \o Pending(q)

\* What a reset may leave behind is not there.
Clean(q) ==
  /\ ~q.fifo => q.wbuf = <<>>
  /\ "TxEMP" \in q.result => q.wbuf = <<>>

\* These depend on the sender's part of the record only.
LEMMA SameSenderSame ==
  ASSUME NEW p, NEW q, SameSender(p, q)
  PROVE  /\ Buffered(p) <=> Buffered(q)
         /\ SenderInv(p) <=> SenderInv(q)
         /\ Clean(p) <=> Clean(q)
         /\ Stream(p) = Stream(q)
         /\ p.wbuf = q.wbuf
  BY DEF SameSender, Buffered, SenderInv, Clean, Stream, Pending

\* What the operations of the transmitter do to a record: nothing to the receiver,
\* and nothing is lost from what is sent.
Sends(p, q) ==
  /\ p \in Serial
  /\ SameReceiver(p, q)
  /\ Buffered(p)
  /\ Len(p.wbuf) <= Len(q.wbuf)
  /\ Clean(q) => Clean(p)
  /\ ~Inverted /\ SenderInv(q) =>
       /\ SenderInv(p)
       /\ Stream(p) = Stream(q)

\* The interrupt that tells that a byte has left.
LEMMA SentFacts ==
  ASSUME NEW q \in Serial, NEW p \in Serial, Sends(p, q)
  PROVE  /\ Sends(TxInterrupt(p), q)
         /\ Sends([p EXCEPT !.send = TRUE], q)
<1>1. ASSUME NEW r \in Serial, SameReceiver(r, p), SameSender(r, p)
      PROVE  Sends(r, q)
  <2>1. SameReceiver(r, q) BY <1>1 DEF Sends, SameReceiver
  <2> QED BY <1>1, <2>1, SameSenderSame DEF Sends
<1>2. Sends(TxInterrupt(p), q) BY <1>1, InterruptFacts
<1>3. Sends([p EXCEPT !.send = TRUE], q) BY <1>1, FlagFacts
<1> QED BY <1>2, <1>3

\* The retry of the host's port.
LEMMA PortRetryFacts ==
  ASSUME NEW q \in Serial
  PROVE  LET r == PortRetry(q)
         IN /\ r \in Serial /\ SameReceiver(r, q)
            /\ r.wbuf = q.wbuf /\ r.result = q.result
            /\ ~Inverted /\ q.held # 0 =>
                 \/ r.held = 0 /\ r.out = Append(q.out, q.held)
                 \/ r.held = q.held /\ r.out = q.out
<1>1. q.held \in 0 .. LastByte /\ q.line \in 0 .. LineRoom BY Fields
<1>2. CASE q.held = 0
  <2>1. PortRetry(q) = q BY <1>2 DEF PortRetry
  <2> QED BY <1>2, <2>1 DEF SameReceiver
<1>3. CASE q.held # 0 /\ Inverted /\ q.line = 0
  <2>1. PortRetry(q) = [q EXCEPT !.held = 0] BY <1>3 DEF PortRetry
  <2>2. 0 \in 0 .. LastByte BY Rs232cAssumption
  <2>3. /\ [q EXCEPT !.held = 0] \in Serial /\ SameReceiver([q EXCEPT !.held = 0], q)
        /\ [q EXCEPT !.held = 0].wbuf = q.wbuf
        /\ [q EXCEPT !.held = 0].result = q.result
    BY <2>2 DEF Serial, SameReceiver
  <2> QED BY <1>3, <2>1, <2>3
<1>4. CASE q.held # 0 /\ ~(Inverted /\ q.line = 0)
  <2>1. q.held \in Bytes BY <1>1, <1>4, Rs232cAssumption DEF Bytes
  <2>2. PortRetry(q) = PortWrite(q, q.held) BY <1>4 DEF PortRetry
  <2>3. q.line > 0 \/ q.line = 0 BY <1>1, Rs232cAssumption
  <2> QED BY <2>1, <2>2, <2>3, PortWriteFacts
<1> QED BY <1>2, <1>3, <1>4

\* rs232c_writeretry.
LEMMA RetryFacts ==
  ASSUME NEW q \in Serial, Buffered(q)
  PROVE  Sends(Retry(q), q)
<1> DEFINE r == PortRetry(q)
           Sent(s) == IF TxEnabled THEN TxInterrupt(s) ELSE [s EXCEPT !.send = TRUE]
           bare == [r EXCEPT !.wbuf = Tail(r.wbuf)]
           next == Level(bare)
           drain == IF TxEnabled /\ "TxRDY" \in next.result THEN TxInterrupt(next)
                    ELSE next
           d == Drained(drain)
<1>1. Retry(q) = IF "TxEMP" \in q.result THEN q
                 ELSE IF ~Success(r) THEN r
                 ELSE IF ~q.fifo THEN Sent(Empty(r))
                 ELSE IF d.waits THEN d.q ELSE Sent(Empty(d.q))
  <2>1. [r EXCEPT !.wbuf = Tail(@)] = bare BY PortRetryFacts DEF Serial
  <2> QED BY <2>1 DEF Retry
<1>2. /\ r \in Serial /\ SameReceiver(r, q)
      /\ r.wbuf = q.wbuf /\ r.result = q.result
      /\ ~Inverted /\ q.held # 0 =>
           \/ r.held = 0 /\ r.out = Append(q.out, q.held)
           \/ r.held = q.held /\ r.out = q.out
  BY PortRetryFacts
<1>3. /\ q.wbuf \in Seq(Bytes) /\ q.out \in Seq(Bytes) /\ q.held \in 0 .. LastByte
      /\ Len(q.wbuf) \in Nat
  BY Fields
<1>4. r.fifo = q.fifo BY <1>2 DEF SameReceiver
<1>5. ~Inverted => (Success(r) <=> r.held = 0)
  <2>1. Inverted \in BOOLEAN BY Rs232cAssumption
  <2> QED BY <2>1, Zenon DEF Success
<1>6. ASSUME NEW p \in Serial, Sends(p, q) PROVE Sends(Sent(p), q)
  BY <1>6, SentFacts
<1>7. \A a, b, c \in Seq(Bytes) : (a \o b) \o c = a \o (b \o c)
  BY ConcatAssociative
<1>8. q.held # 0 => /\ q.held \in Bytes /\ <<q.held>> \in Seq(Bytes)
                    /\ Append(q.out, q.held) = q.out \o <<q.held>>
  <2>1. q.held # 0 => q.held \in Bytes BY <1>3, Rs232cAssumption DEF Bytes
  <2> QED BY <1>3, <2>1, AppendIsConcat
<1> HIDE DEF r, Sent
<1>9. CASE "TxEMP" \in q.result
  BY <1>1, <1>9, <1>3 DEF Sends, SameReceiver
<1>10. CASE "TxEMP" \notin q.result /\ ~Success(r)
  <2>1. Retry(q) = r BY <1>1, <1>10
  <2>2. Buffered(r) /\ (Clean(q) => Clean(r)) BY <1>2, <1>4 DEF Buffered, Clean
  <2>3. ~Inverted /\ SenderInv(q) => SenderInv(r) /\ Stream(r) = Stream(q)
    <3> SUFFICES ASSUME ~Inverted, SenderInv(q)
                 PROVE  SenderInv(r) /\ Stream(r) = Stream(q)
      OBVIOUS
    <3>1. r.held # 0 BY <1>5, <1>10
    <3>2. q.held # 0
      <4>1. q.fifo => q.held \in Bytes
        BY <1>3, <1>10, HeadAndTail DEF SenderInv
      <4> QED BY <1>10, <4>1 DEF SenderInv, Bytes
    <3>3. r.held = q.held /\ r.out = q.out BY <1>2, <3>1, <3>2
    <3> QED BY <1>2, <1>4, <3>3 DEF SenderInv, Stream, Pending
  <2> QED BY <1>2, <1>3, <2>1, <2>2, <2>3 DEF Sends
<1>11. CASE "TxEMP" \notin q.result /\ Success(r) /\ ~q.fifo
  <2> DEFINE e == Empty(r)
  <2>1. /\ e \in Serial /\ SameReceiver(e, r) /\ e.wbuf = r.wbuf
        /\ e.held = r.held /\ e.out = r.out
        /\ {"TxRDY", "TxEMP"} \subseteq e.result
    BY <1>2, EmptyFacts
  <2>2. Retry(q) = Sent(e) BY <1>1, <1>11
  <2> HIDE DEF e
  <2>3. SameReceiver(e, q) /\ e.fifo = FALSE
    BY <1>2, <1>3, <1>11, <2>1, Fields DEF SameReceiver
  <2>4. ~Inverted /\ SenderInv(q) => SenderInv(e) /\ Stream(e) = Stream(q)
    <3> SUFFICES ASSUME ~Inverted, SenderInv(q)
                 PROVE  SenderInv(e) /\ Stream(e) = Stream(q)
      OBVIOUS
    <3>1. r.held = 0 /\ q.held # 0 BY <1>5, <1>11 DEF SenderInv
    <3>2. e.out = q.out \o <<q.held>> BY <1>2, <1>8, <2>1, <3>1
    <3>3. Stream(e) = (q.out \o <<q.held>>) \o q.wbuf
      BY <1>2, <2>1, <3>1, <3>2 DEF Stream, Pending
    <3>4. Stream(q) = q.out \o (<<q.held>> \o q.wbuf)
      BY <1>11, <3>1 DEF Stream, Pending
    <3>5. Stream(e) = Stream(q) BY <1>3, <1>7, <1>8, <3>1, <3>3, <3>4
    <3> QED BY <2>1, <3>1, <3>5 DEF SenderInv
  <2>5. Buffered(e) /\ (Clean(q) => Clean(e))
    BY <1>2, <1>11, <2>1, <2>3 DEF Buffered, Clean
  <2>6. Sends(e, q) BY <1>2, <1>3, <2>1, <2>3, <2>4, <2>5 DEF Sends
  <2> QED BY <1>6, <2>1, <2>2, <2>6
<1>12. CASE "TxEMP" \notin q.result /\ Success(r) /\ q.fifo
  <2>1. q.wbuf # <<>> BY <1>12 DEF Buffered
  <2> DEFINE t == Tail(q.wbuf)
             h == Head(q.wbuf)
  <2>2. /\ t \in Seq(Bytes) /\ h \in Bytes /\ <<h>> \in Seq(Bytes)
        /\ Len(t) = Len(q.wbuf) - 1 /\ <<h>> \o t = q.wbuf
    BY <1>3, <2>1, HeadAndTail
  <2> HIDE DEF t
  <2>3. bare = [r EXCEPT !.wbuf = t] BY <1>2 DEF t
  <2>4. /\ bare \in Serial /\ SameReceiver(bare, r) /\ bare.wbuf = t
        /\ bare.held = r.held /\ bare.out = r.out /\ bare.result = r.result
    BY ZenonT(60), <1>2, <2>2, <2>3 DEF Serial, SameReceiver
  <2> HIDE DEF bare, h
  <2>5. /\ next \in Serial /\ SameReceiver(next, bare) /\ next.wbuf = t
        /\ next.held = r.held /\ next.out = r.out
        /\ "TxEMP" \notin next.result
    BY <1>2, <1>12, <2>4, LevelFacts
  <2> HIDE DEF next
  <2>6. /\ drain \in Serial /\ SameReceiver(drain, next) /\ drain.wbuf = t
        /\ drain.held = r.held /\ drain.out = r.out
        /\ "TxEMP" \notin drain.result
    BY <2>5, InterruptFacts DEF SameSender, SameReceiver
  <2>7. SameReceiver(drain, q) BY <1>2, <2>4, <2>5, <2>6 DEF SameReceiver
  <2> HIDE DEF drain
  <2>8. /\ d.q \in Serial /\ SameReceiver(d.q, drain)
        /\ Len(d.q.wbuf) <= Len(t) /\ "TxEMP" \notin d.q.result
        /\ d.waits \in BOOLEAN
        /\ ~d.waits => d.q.wbuf = <<>>
        /\ d.waits => d.q.wbuf # <<>>
        /\ ~Inverted =>
             /\ d.q.out \o d.q.wbuf = drain.out \o t
             /\ ~d.waits /\ (drain.held = 0 \/ t # <<>>) => d.q.held = 0
             /\ d.waits => d.q.held = Head(d.q.wbuf)
             /\ d.waits /\ "TxRDY" \in d.q.result => Len(d.q.wbuf) <= FifoHigh
    BY <2>6, DrainedFacts
  <2> DEFINE v == d.q
  <2>9. SameReceiver(v, q) /\ v.fifo = TRUE
    BY <1>3, <1>12, <2>7, <2>8, Fields DEF SameReceiver
  <2>10. Len(v.wbuf) \in Nat /\ Len(t) \in Nat /\ Len(v.wbuf) <= Len(q.wbuf)
    BY <1>3, <2>2, <2>8, Fields
  <2>11. ~Inverted /\ SenderInv(q) =>
           /\ v.out \o v.wbuf = Stream(q)
           /\ ~d.waits => v.held = 0
    <3> SUFFICES ASSUME ~Inverted, SenderInv(q)
                 PROVE  v.out \o v.wbuf = Stream(q) /\ (~d.waits => v.held = 0)
      OBVIOUS
    <3>1. r.held = 0 /\ q.held = h /\ q.held # 0
      BY <1>5, <1>12, <2>2 DEF SenderInv, h, Bytes
    <3>2. r.out = q.out \o <<h>> BY <1>2, <1>8, <3>1
    <3>3. v.out \o v.wbuf = (q.out \o <<h>>) \o t BY <2>6, <2>8, <3>2
    <3>4. Stream(q) = q.out \o (<<h>> \o t)
      BY <1>12, <2>2 DEF Stream, Pending
    <3> QED BY ZenonT(60), <1>3, <1>7, <2>2, <2>6, <2>8, <3>1, <3>3, <3>4
  <2> HIDE DEF d
  <2>12. CASE d.waits
    <3>1. Retry(q) = v BY <1>1, <1>12, <2>12
    <3>2. Buffered(v) /\ Clean(v) BY <2>8, <2>9, <2>12 DEF Buffered, Clean
    <3>3. ~Inverted /\ SenderInv(q) => SenderInv(v) /\ Stream(v) = Stream(q)
      BY <2>8, <2>9, <2>11, <2>12 DEF SenderInv, Stream, Pending
    <3> QED BY <2>8, <2>9, <2>10, <3>1, <3>2, <3>3 DEF Sends
  <2>13. CASE ~d.waits
    <3> DEFINE e == Empty(v)
    <3>1. /\ e \in Serial /\ SameReceiver(e, v) /\ e.wbuf = v.wbuf
          /\ e.held = v.held /\ e.out = v.out
          /\ {"TxRDY", "TxEMP"} \subseteq e.result
      BY <2>8, EmptyFacts
    <3>2. Retry(q) = Sent(e) BY <1>1, <1>12, <2>13
    <3> HIDE DEF e
    <3>3. SameReceiver(e, q) /\ e.fifo = TRUE BY <2>9, <3>1 DEF SameReceiver
    <3>4. Buffered(e) /\ Clean(e) BY <2>8, <2>13, <3>1, <3>3 DEF Buffered, Clean
    <3>5. ~Inverted /\ SenderInv(q) => SenderInv(e) /\ Stream(e) = Stream(q)
      BY <2>11, <2>13, <3>1, <3>3 DEF SenderInv, Stream, Pending
    <3>6. Sends(e, q) BY <2>10, <3>1, <3>3, <3>4, <3>5 DEF Sends
    <3> QED BY <1>6, <3>1, <3>2, <3>6
  <2> QED BY <2>12, <2>13
<1> QED BY <1>9, <1>10, <1>11, <1>12

\* A new byte between two sequences that have no byte twice.
LEMMA InsertedByte ==
  ASSUME NEW S, NEW u \in Seq(S), NEW v \in Seq(S), NEW b \in S,
         IsInjective(u \o v), b \notin ToSet(u \o v)
  PROVE  /\ IsInjective(u \o (<<b>> \o v))
         /\ ToSet(u \o (<<b>> \o v)) \subseteq ToSet(u \o v) \cup {b}
<1> DEFINE s == u \o v
           t == u \o (<<b>> \o v)
           m == Len(u)
           n == Len(v)
           at(i) == IF i <= m THEN i ELSE i - 1
<1>1. m \in Nat /\ n \in Nat OBVIOUS
<1>2. /\ s \in Seq(S) /\ Len(s) = m + n
      /\ \A i \in 1 .. m + n : s[i] = IF i <= m THEN u[i] ELSE v[i - m]
  BY ConcatProperties
<1>3. <<b>> \in Seq(S) /\ Len(<<b>>) = 1 /\ <<b>>[1] = b OBVIOUS
<1>4. /\ <<b>> \o v \in Seq(S) /\ Len(<<b>> \o v) = 1 + n
      /\ \A i \in 1 .. 1 + n : (<<b>> \o v)[i] = IF i <= 1 THEN <<b>>[i] ELSE v[i - 1]
  <2> DEFINE one == <<b>>
  <2>1. one \in Seq(S) /\ Len(one) = 1 BY <1>3
  <2> HIDE DEF one
  <2>2. /\ one \o v \in Seq(S) /\ Len(one \o v) = Len(one) + Len(v)
        /\ \A i \in 1 .. Len(one) + Len(v) :
             (one \o v)[i] = IF i <= Len(one) THEN one[i] ELSE v[i - Len(one)]
    BY <2>1, ConcatProperties
  <2> QED BY <2>1, <2>2 DEF one
<1>5. /\ t \in Seq(S) /\ Len(t) = m + (1 + n)
      /\ \A i \in 1 .. m + (1 + n) :
           t[i] = IF i <= m THEN u[i] ELSE (<<b>> \o v)[i - m]
  <2> DEFINE w == <<b>> \o v
  <2>1. w \in Seq(S) /\ Len(w) = 1 + n BY <1>4
  <2> HIDE DEF w
  <2>2. /\ u \o w \in Seq(S) /\ Len(u \o w) = Len(u) + Len(w)
        /\ \A i \in 1 .. Len(u) + Len(w) :
             (u \o w)[i] = IF i <= Len(u) THEN u[i] ELSE w[i - Len(u)]
    BY ZenonT(60), <2>1, ConcatProperties
  <2> QED BY <2>1, <2>2 DEF w
<1> HIDE DEF s, t
<1>6. DOMAIN s = 1 .. m + n /\ DOMAIN t = 1 .. m + n + 1 BY <1>1, <1>2, <1>5
<1>7. t[m + 1] = b
  <2>1. m + 1 \in 1 .. m + (1 + n) /\ ~ (m + 1 <= m) /\ (m + 1) - m = 1 BY <1>1
  <2>2. t[m + 1] = (<<b>> \o v)[1] BY <1>5, <2>1
  <2>3. 1 \in 1 .. 1 + n BY <1>1
  <2> QED BY <1>3, <1>4, <2>2, <2>3
<1>8. \A i \in 1 .. m + n + 1 :
        i # m + 1 => at(i) \in 1 .. m + n /\ t[i] = s[at(i)]
  <2> SUFFICES ASSUME NEW i \in 1 .. m + n + 1, i # m + 1
               PROVE  at(i) \in 1 .. m + n /\ t[i] = s[at(i)]
    OBVIOUS
  <2>1. CASE i <= m
    <3>1. at(i) = i /\ i \in 1 .. m + n /\ i \in 1 .. m + (1 + n) BY <1>1, <2>1
    <3> QED BY <1>2, <1>5, <2>1, <3>1
  <2>2. CASE ~ (i <= m)
    <3>1. /\ at(i) = i - 1 /\ i - 1 \in 1 .. m + n /\ ~ (i - 1 <= m)
          /\ i \in 1 .. m + (1 + n) /\ i - m \in 1 .. 1 + n /\ ~ (i - m <= 1)
          /\ (i - m) - 1 = (i - 1) - m
      BY <1>1, <2>2
    <3>2. t[i] = (<<b>> \o v)[i - m] BY <1>5, <2>2, <3>1
    <3>3. (<<b>> \o v)[i - m] = v[(i - m) - 1] BY <1>4, <3>1
    <3>4. s[i - 1] = v[(i - 1) - m] BY <1>2, <3>1
    <3> QED BY <3>1, <3>2, <3>3, <3>4
  <2> QED BY <2>1, <2>2
<1>9. \A i \in DOMAIN s : s[i] \in ToSet(s) BY DEF ToSet
<1>10. IsInjective(t)
  <2> SUFFICES ASSUME NEW i \in 1 .. m + n + 1, NEW j \in 1 .. m + n + 1,
                      t[i] = t[j]
               PROVE  i = j
    BY <1>6 DEF IsInjective
  <2>1. \A k \in 1 .. m + n + 1 : k # m + 1 => t[k] # b
    <3>1. b \notin ToSet(s) BY DEF s
    <3> QED BY <1>6, <1>8, <1>9, <3>1
  <2>2. CASE i # m + 1 /\ j # m + 1
    <3>1. s[at(i)] = s[at(j)] /\ at(i) \in DOMAIN s /\ at(j) \in DOMAIN s
      BY <1>6, <1>8, <2>2
    <3>2. at(i) = at(j) BY <3>1 DEF IsInjective, s
    <3> QED BY <1>1, <2>2, <3>2
  <2> QED BY <1>7, <2>1, <2>2
<1>11. ToSet(t) \subseteq ToSet(s) \cup {b}
  <2> SUFFICES ASSUME NEW i \in 1 .. m + n + 1 PROVE t[i] \in ToSet(s) \cup {b}
    BY <1>6 DEF ToSet
  <2> QED BY <1>6, <1>7, <1>8, <1>9
<1> QED BY <1>10, <1>11 DEF s, t

\* The oldest byte of the buffer is dropped.
LEMMA DroppedByte ==
  ASSUME NEW S, NEW u \in Seq(S), NEW v \in Seq(S), v # <<>>, IsInjective(u \o v)
  PROVE  /\ IsInjective(u \o Tail(v))
         /\ ToSet(u \o Tail(v)) \subseteq ToSet(u \o v)
<1> DEFINE s == u \o v
           w == Tail(v)
           t == u \o w
           m == Len(u)
           n == Len(v)
           at(i) == IF i <= m THEN i ELSE i + 1
<1>1. m \in Nat /\ n \in Nat \ {0} OBVIOUS
<1>2. /\ s \in Seq(S) /\ Len(s) = m + n
      /\ \A i \in 1 .. m + n : s[i] = IF i <= m THEN u[i] ELSE v[i - m]
  BY ConcatProperties
<1>3. /\ w \in Seq(S) /\ Len(w) = n - 1
      /\ \A i \in 1 .. Len(w) : w[i] = v[i + 1]
  BY HeadTailProperties
<1> HIDE DEF w
<1>4. /\ t \in Seq(S) /\ Len(t) = m + Len(w)
      /\ \A i \in 1 .. m + Len(w) : t[i] = IF i <= m THEN u[i] ELSE w[i - m]
  BY <1>3, ConcatProperties
<1> HIDE DEF s, t
<1>5. DOMAIN s = 1 .. m + n /\ DOMAIN t = 1 .. m + n - 1 BY <1>1, <1>2, <1>3, <1>4
<1>6. \A i \in 1 .. m + n - 1 : at(i) \in 1 .. m + n /\ t[i] = s[at(i)]
  <2> TAKE i \in 1 .. m + n - 1
  <2>1. CASE i <= m
    <3>1. at(i) = i /\ i \in 1 .. m + n /\ i \in 1 .. m + Len(w)
      BY <1>1, <1>3, <2>1
    <3> QED BY <1>2, <1>4, <2>1, <3>1
  <2>2. CASE ~ (i <= m)
    <3>1. /\ at(i) = i + 1 /\ i + 1 \in 1 .. m + n /\ ~ (i + 1 <= m)
          /\ i \in 1 .. m + Len(w) /\ i - m \in 1 .. Len(w)
          /\ (i - m) + 1 = (i + 1) - m
      BY <1>1, <1>3, <2>2
    <3>2. t[i] = w[i - m] BY <1>4, <2>2, <3>1
    <3>3. w[i - m] = v[(i - m) + 1] BY <1>3, <3>1
    <3>4. s[i + 1] = v[(i + 1) - m] BY <1>2, <3>1
    <3> QED BY <3>1, <3>2, <3>3, <3>4
  <2> QED BY <2>1, <2>2
<1>7. IsInjective(t)
  <2> SUFFICES ASSUME NEW i \in 1 .. m + n - 1, NEW j \in 1 .. m + n - 1,
                      t[i] = t[j]
               PROVE  i = j
    BY <1>5 DEF IsInjective
  <2>1. s[at(i)] = s[at(j)] /\ at(i) \in DOMAIN s /\ at(j) \in DOMAIN s
    BY <1>5, <1>6
  <2>2. at(i) = at(j) BY <2>1 DEF IsInjective, s
  <2> QED BY <1>1, <2>2
<1>8. ToSet(t) \subseteq ToSet(s)
  <2> SUFFICES ASSUME NEW i \in 1 .. m + n - 1 PROVE t[i] \in ToSet(s)
    BY <1>5 DEF ToSet
  <2>1. at(i) \in DOMAIN s BY <1>5, <1>6
  <2> QED BY <1>6, <2>1 DEF ToSet
<1> QED BY <1>7, <1>8 DEF s, t, w

\* The end of rs232c_o30 and the flag of a write that failed.
LEMMA WrittenFacts ==
  ASSUME NEW q \in Serial
  PROVE  LET f == [(IF TxEnabled THEN TxInterrupt(q) ELSE q) EXCEPT !.lastfail = TRUE]
         IN /\ Written(q) \in Serial
            /\ SameReceiver(Written(q), q) /\ SameSender(Written(q), q)
            /\ f \in Serial /\ SameReceiver(f, q) /\ SameSender(f, q)
<1> DEFINE w == IF q.lastfail /\ TxEnabled THEN TxInterrupt(q) ELSE [q EXCEPT !.send = TRUE]
           i == IF TxEnabled THEN TxInterrupt(q) ELSE q
<1>1. w \in Serial /\ SameReceiver(w, q) /\ SameSender(w, q)
  BY InterruptFacts, FlagFacts
<1>2. i \in Serial /\ SameReceiver(i, q) /\ SameSender(i, q)
  BY InterruptFacts DEF SameReceiver, SameSender
<1>3. Written(q) = [w EXCEPT !.lastfail = FALSE] BY DEF Written
<1> HIDE DEF w, i
<1> DEFINE y == [w EXCEPT !.lastfail = FALSE]
           z == [i EXCEPT !.lastfail = TRUE]
<1>4. y \in Serial /\ SameReceiver(y, w) /\ SameSender(y, w) BY <1>1, FlagFacts
<1>5. z \in Serial /\ SameReceiver(z, i) /\ SameSender(z, i) BY <1>2, FlagFacts
<1> HIDE DEF y, z
<1>6. SameReceiver(y, q) /\ SameSender(y, q)
  BY <1>1, <1>4 DEF SameReceiver, SameSender
<1>7. SameReceiver(z, q) /\ SameSender(z, q)
  BY <1>2, <1>5 DEF SameReceiver, SameSender
<1> QED BY <1>3, <1>4, <1>5, <1>6, <1>7 DEF y, z, i

\* What a write does: a buffer with room, and nothing left over from before a
\* reset, takes the new byte behind all others; else it may come before what the
\* buffer holds, or take the place of the oldest; never is a byte there twice.
Accepts(p, q, b) ==
  /\ p \in Serial
  /\ SameReceiver(p, q)
  /\ Buffered(p)
  /\ Len(p.wbuf) < FifoSize
  /\ Clean(q) => Clean(p)
  /\ ~Inverted /\ SenderInv(q) =>
       /\ SenderInv(p)
       /\ Clean(q) /\ Len(q.wbuf) < FifoSize - 1 => Stream(p) = Stream(q) \o <<b>>
       /\ IsInjective(Stream(q)) /\ b \notin ToSet(Stream(q)) =>
            /\ IsInjective(Stream(p))
            /\ ToSet(Stream(p)) \subseteq ToSet(Stream(q)) \cup {b}

\* The stream of a record is a sequence of bytes.
LEMMA StreamType ==
  ASSUME NEW q \in Serial
  PROVE  Pending(q) \in Seq(Bytes) /\ Stream(q) \in Seq(Bytes)
<1>1. /\ q.wbuf \in Seq(Bytes) /\ q.out \in Seq(Bytes) /\ q.held \in 0 .. LastByte
  BY Fields
<1>2. q.held # 0 => q.held \in Bytes BY <1>1, Rs232cAssumption DEF Bytes
<1>3. Pending(q) \in Seq(Bytes)
  <2>1. CASE q.fifo \/ q.held = 0 BY <1>1, <2>1 DEF Pending
  <2>2. CASE ~ (q.fifo \/ q.held = 0)
    <3> DEFINE one == <<q.held>>
    <3>1. one \in Seq(Bytes) BY <1>2, <2>2
    <3> HIDE DEF one
    <3>2. one \o q.wbuf \in Seq(Bytes) BY <1>1, <3>1, ConcatProperties
    <3> QED BY <2>2, <3>2 DEF Pending, one
  <2> QED BY <2>1, <2>2
<1> QED BY <1>1, <1>3, ConcatProperties DEF Stream

\* rs232c_o30 without the FIFO mode.
LEMMA WriteByteFacts ==
  ASSUME NEW q \in Serial, NEW b \in Bytes, ~q.fifo, Len(q.wbuf) < FifoSize,
         ~Inverted => "TxEMP" \in q.result
  PROVE  Accepts(WriteByte(q, b), q, b)
<1> DEFINE w == PortWrite(q, b)
           p == WriteByte(q, b)
<1>1. /\ w \in Serial /\ SameReceiver(w, q)
      /\ w.wbuf = q.wbuf /\ w.result = q.result
      /\ q.line > 0 => w.held = 0 /\ w.out = Append(q.out, b)
      /\ q.line = 0 => w.held = b /\ w.out = q.out
  BY PortWriteFacts
<1>2. p = IF Success(w) THEN Written(Empty(w))
          ELSE [w EXCEPT !.result = w.result \ {"TxRDY", "TxEMP"}, !.lastfail = TRUE]
  BY <1>1 DEF WriteByte, Serial
<1>3. ~Inverted => (Success(w) <=> w.held = 0)
  <2>1. Inverted \in BOOLEAN BY Rs232cAssumption
  <2> QED BY <2>1, Zenon DEF Success
<1>4. /\ q.wbuf \in Seq(Bytes) /\ q.out \in Seq(Bytes) /\ q.line \in 0 .. LineRoom
      /\ Len(q.wbuf) \in Nat
  BY Fields
<1>5. q.line > 0 \/ q.line = 0 BY <1>4, Rs232cAssumption
<1>6. b # 0 BY DEF Bytes
<1> HIDE DEF w, p
<1>7. /\ p \in Serial /\ SameReceiver(p, q) /\ p.wbuf = q.wbuf
      /\ p.held = w.held /\ p.out = w.out
      /\ Success(w) => {"TxRDY", "TxEMP"} \subseteq p.result
      /\ ~Success(w) => p.result \cap {"TxRDY", "TxEMP"} = {}
  <2>1. CASE Success(w)
    <3> DEFINE e == Empty(w)
    <3>1. /\ e \in Serial /\ SameReceiver(e, w) /\ e.wbuf = w.wbuf
          /\ e.held = w.held /\ e.out = w.out
          /\ {"TxRDY", "TxEMP"} \subseteq e.result
      BY <1>1, EmptyFacts
    <3> HIDE DEF e
    <3>2. Written(e) \in Serial /\ SameReceiver(Written(e), e)
          /\ SameSender(Written(e), e)
      BY <3>1, WrittenFacts
    <3>3. p = Written(e) BY <1>2, <2>1 DEF e
    <3> QED BY <1>1, <2>1, <3>1, <3>2, <3>3 DEF SameReceiver, SameSender
  <2>2. CASE ~Success(w)
    <3> DEFINE r == w.result \ {"TxRDY", "TxEMP"}
    <3>1. r \in SUBSET {"TxRDY", "RxRDY", "TxEMP"} BY <1>1, Fields
    <3>2. p = [w EXCEPT !.result = r, !.lastfail = TRUE] BY <1>2, <2>2
    <3>3. "RxRDY" \in r <=> "RxRDY" \in w.result OBVIOUS
    <3>4. r \cap {"TxRDY", "TxEMP"} = {} OBVIOUS
    <3> HIDE DEF r
    <3>5. p \in Serial BY <1>1, <3>1, <3>2 DEF Serial
    <3>6. /\ SameReceiver(p, w) /\ p.wbuf = w.wbuf /\ p.held = w.held
          /\ p.out = w.out /\ p.result = r
      BY <1>1, <3>2, <3>3 DEF Serial, SameReceiver
    <3> QED BY <1>1, <2>2, <3>4, <3>5, <3>6 DEF SameReceiver
  <2> QED BY <2>1, <2>2
<1>8. p.fifo = FALSE BY <1>7, Fields DEF SameReceiver
<1>9. Buffered(p) /\ (Clean(q) => Clean(p)) BY <1>7, <1>8 DEF Buffered, Clean
<1>10. ASSUME ~Inverted, SenderInv(q)
       PROVE  /\ SenderInv(p)
              /\ Stream(p) = q.out \o (<<b>> \o q.wbuf)
              /\ Stream(q) = q.out \o q.wbuf
  <2>1. q.held = 0 BY <1>10 DEF SenderInv
  <2>2. Stream(q) = q.out \o q.wbuf BY <2>1 DEF Stream, Pending
  <2>3. CASE q.line > 0
    <3>1. p.held = 0 /\ Success(w) /\ p.out = q.out \o <<b>>
      BY <1>1, <1>3, <1>4, <1>7, <1>10, <2>3, AppendIsConcat
    <3>2. SenderInv(p) BY <1>7, <3>1 DEF SenderInv
    <3>3. Stream(p) = (q.out \o <<b>>) \o q.wbuf BY <1>7, <3>1 DEF Stream, Pending
    <3>4. \A x, y, z \in Seq(Bytes) : (x \o y) \o z = x \o (y \o z)
      BY ConcatAssociative
    <3>5. <<b>> \in Seq(Bytes) OBVIOUS
    <3>6. Stream(p) = q.out \o (<<b>> \o q.wbuf) BY <1>4, <3>3, <3>4, <3>5
    <3> QED BY <2>2, <3>2, <3>6
  <2>4. CASE q.line = 0
    <3>1. p.held = b /\ ~Success(w) /\ p.out = q.out
      BY <1>1, <1>3, <1>6, <1>7, <1>10, <2>4
    <3>2. SenderInv(p) BY <1>6, <1>7, <1>8, <3>1 DEF SenderInv
    <3>3. Stream(p) = q.out \o (<<b>> \o q.wbuf)
      BY <1>6, <1>7, <1>8, <3>1 DEF Stream, Pending
    <3> QED BY <2>2, <3>2, <3>3
  <2> QED BY <1>5, <2>3, <2>4
<1>11. ASSUME Clean(q)
       PROVE  q.out \o (<<b>> \o q.wbuf) = (q.out \o q.wbuf) \o <<b>>
  <2>1. q.wbuf = <<>> BY <1>11 DEF Clean
  <2>2. <<b>> \in Seq(Bytes) OBVIOUS
  <2>3. <<b>> \o q.wbuf = <<b>> BY <2>1, <2>2, ConcatEmptySeq
  <2>4. q.out \o q.wbuf = q.out BY <1>4, <2>1, ConcatEmptySeq
  <2> QED BY <2>3, <2>4
<1>12. IsInjective(q.out \o q.wbuf) /\ b \notin ToSet(q.out \o q.wbuf) =>
         /\ IsInjective(q.out \o (<<b>> \o q.wbuf))
         /\ ToSet(q.out \o (<<b>> \o q.wbuf)) \subseteq ToSet(q.out \o q.wbuf) \cup {b}
  BY <1>4, InsertedByte
<1> QED BY <1>7, <1>9, <1>10, <1>11, <1>12 DEF Accepts, p

\* A new byte behind all others.
LEMMA AppendedByte ==
  ASSUME NEW S, NEW s \in Seq(S), NEW b \in S, IsInjective(s), b \notin ToSet(s)
  PROVE  IsInjective(s \o <<b>>) /\ ToSet(s \o <<b>>) \subseteq ToSet(s) \cup {b}
<1> DEFINE e == <<>>
<1>1. e \in Seq(S) /\ <<b>> \in Seq(S) OBVIOUS
<1>2. s \o e = s /\ <<b>> \o e = <<b>> BY <1>1, ConcatEmptySeq
<1> HIDE DEF e
<1>3. IsInjective(s \o e) /\ b \notin ToSet(s \o e) BY <1>2
<1>4. /\ IsInjective(s \o (<<b>> \o e))
      /\ ToSet(s \o (<<b>> \o e)) \subseteq ToSet(s \o e) \cup {b}
  BY <1>1, <1>3, InsertedByte
<1> QED BY <1>2, <1>4

\* rs232c_o30 in FIFO mode.
LEMMA WriteFifoFacts ==
  ASSUME NEW q \in Serial, NEW b \in Bytes, q.fifo, Len(q.wbuf) < FifoSize
  PROVE  Accepts(WriteFifo(q, b), q, b)
<1> DEFINE room == IF Len(q.wbuf) = FifoSize - 1 THEN Tail(q.wbuf) ELSE q.wbuf
           full == Append(room, b)
           low == q.result \ {"TxEMP"}
           start == [q EXCEPT !.result = low, !.wbuf = full]
           d == Drained(start)
           p == WriteFifo(q, b)
           late == [(IF TxEnabled THEN TxInterrupt(d.q) ELSE d.q)
                      EXCEPT !.lastfail = TRUE]
<1>1. p = IF ~d.waits THEN Written(Empty(d.q))
          ELSE IF "TxRDY" \notin d.q.result THEN d.q ELSE late
  BY DEF WriteFifo, Serial
<1>2. /\ q.wbuf \in Seq(Bytes) /\ q.out \in Seq(Bytes) /\ Len(q.wbuf) \in Nat
      /\ FifoSize \in Nat /\ FifoSize >= 2
  BY Fields, Rs232cAssumption
<1>3. /\ room \in Seq(Bytes) /\ Len(room) < FifoSize - 1
      /\ Len(q.wbuf) < FifoSize - 1 => room = q.wbuf
      /\ room # q.wbuf => q.wbuf # <<>> /\ room = Tail(q.wbuf)
  <2>1. CASE Len(q.wbuf) = FifoSize - 1
    <3>1. q.wbuf # <<>> BY <1>2, <2>1
    <3>2. Tail(q.wbuf) \in Seq(Bytes) /\ Len(Tail(q.wbuf)) = Len(q.wbuf) - 1
      BY <1>2, <3>1, HeadAndTail
    <3> QED BY <1>2, <2>1, <3>1, <3>2
  <2>2. CASE Len(q.wbuf) # FifoSize - 1 BY <1>2, <2>2
  <2> QED BY <2>1, <2>2
<1> HIDE DEF room
<1>4. /\ full \in Seq(Bytes) /\ full # <<>> /\ Len(full) = Len(room) + 1
      /\ full = room \o <<b>>
  BY <1>3, AppendProperties, AppendIsConcat
<1>5. low \in SUBSET {"TxRDY", "RxRDY", "TxEMP"} /\ "TxEMP" \notin low
      /\ ("RxRDY" \in low <=> "RxRDY" \in q.result)
  BY Fields
<1>6. Len(full) < FifoSize /\ Len(full) \in Nat BY <1>2, <1>3, <1>4
<1> HIDE DEF full, low, p
<1>7. /\ start \in Serial /\ SameReceiver(start, q) /\ start.wbuf = full
      /\ start.out = q.out /\ "TxEMP" \notin start.result
  BY <1>4, <1>5 DEF Serial, SameReceiver
<1> HIDE DEF start
<1>8. /\ d.q \in Serial /\ SameReceiver(d.q, start)
      /\ Len(d.q.wbuf) <= Len(full) /\ "TxEMP" \notin d.q.result
      /\ d.waits \in BOOLEAN
      /\ ~d.waits => d.q.wbuf = <<>>
      /\ d.waits => d.q.wbuf # <<>>
      /\ ~Inverted =>
           /\ d.q.out \o d.q.wbuf = q.out \o full
           /\ ~d.waits => d.q.held = 0
           /\ d.waits => d.q.held = Head(d.q.wbuf)
           /\ d.waits /\ "TxRDY" \in d.q.result => Len(d.q.wbuf) <= FifoHigh
  BY <1>4, <1>7, DrainedFacts
<1> DEFINE v == d.q
           e == Empty(v)
<1>9. SameReceiver(v, q) /\ v.fifo = TRUE
  BY <1>7, <1>8, Fields DEF SameReceiver
<1>10. Len(v.wbuf) \in Nat /\ Len(v.wbuf) < FifoSize BY <1>2, <1>6, <1>8, Fields
<1>11. /\ Written(e) \in Serial /\ SameReceiver(Written(e), v)
       /\ Written(e).wbuf = v.wbuf /\ Written(e).held = v.held
       /\ Written(e).out = v.out
       /\ {"TxRDY", "TxEMP"} \subseteq Written(e).result
  <2>1. /\ e \in Serial /\ SameReceiver(e, v) /\ e.wbuf = v.wbuf
        /\ e.held = v.held /\ e.out = v.out
        /\ {"TxRDY", "TxEMP"} \subseteq e.result
    BY <1>8, EmptyFacts
  <2> HIDE DEF e
  <2>2. Written(e) \in Serial /\ SameReceiver(Written(e), e)
        /\ SameSender(Written(e), e)
    BY <2>1, WrittenFacts
  <2> QED BY <2>1, <2>2 DEF SameReceiver, SameSender
<1>12. late \in Serial /\ SameReceiver(late, v) /\ SameSender(late, v)
  BY <1>8, WrittenFacts
<1> HIDE DEF late, d
<1>13. /\ p \in Serial /\ SameReceiver(p, q) /\ p.fifo = TRUE
       /\ p.wbuf = v.wbuf /\ p.out = v.out /\ p.held = v.held
       /\ ~d.waits => {"TxRDY", "TxEMP"} \subseteq p.result
       /\ d.waits => /\ "TxEMP" \notin p.result
                     /\ "TxRDY" \in p.result <=> "TxRDY" \in v.result
  <2>1. CASE ~d.waits
    <3>1. p = Written(e) BY <1>1, <2>1
    <3> HIDE DEF e
    <3> QED BY <1>9, <1>11, <2>1, <3>1 DEF SameReceiver
  <2>2. CASE d.waits /\ p = v
    BY <1>8, <1>9, <2>2 DEF SameReceiver
  <2>3. CASE d.waits /\ p = late
    BY <1>8, <1>9, <1>12, <2>3 DEF SameReceiver, SameSender
  <2> QED BY <1>1, <2>1, <2>2, <2>3
<1>14. Buffered(p) /\ (Clean(q) => Clean(p))
  BY <1>8, <1>13 DEF Buffered, Clean
<1>15. ~Inverted => SenderInv(p)
  BY <1>8, <1>13 DEF SenderInv
<1>16. ~Inverted => Stream(p) = (q.out \o room) \o <<b>>
  <2>1. Stream(p) = v.out \o v.wbuf BY <1>13 DEF Stream, Pending
  <2>2. \A x, y, z \in Seq(Bytes) : (x \o y) \o z = x \o (y \o z)
    BY ConcatAssociative
  <2>3. <<b>> \in Seq(Bytes) OBVIOUS
  <2> QED BY ZenonT(60), <1>2, <1>3, <1>4, <1>8, <2>1, <2>2, <2>3
<1>17. Stream(q) = q.out \o q.wbuf BY DEF Stream, Pending
<1>18. IsInjective(Stream(q)) =>
         IsInjective(q.out \o room) /\ ToSet(q.out \o room) \subseteq ToSet(Stream(q))
  BY <1>2, <1>3, <1>17, DroppedByte
<1>19. IsInjective(q.out \o room) /\ b \notin ToSet(q.out \o room) =>
         /\ IsInjective((q.out \o room) \o <<b>>)
         /\ ToSet((q.out \o room) \o <<b>>) \subseteq ToSet(q.out \o room) \cup {b}
  <2>1. q.out \o room \in Seq(Bytes) BY <1>2, <1>3, ConcatProperties
  <2> QED BY <2>1, AppendedByte
<1>20. IsInjective(Stream(q)) /\ b \notin ToSet(Stream(q)) /\ ~Inverted =>
         /\ IsInjective(Stream(p))
         /\ ToSet(Stream(p)) \subseteq ToSet(Stream(q)) \cup {b}
  BY <1>16, <1>18, <1>19
<1> QED BY <1>3, <1>10, <1>13, <1>14, <1>15, <1>16, <1>17, <1>20 DEF Accepts, p

-----------------------------------------------------------------------------
(***************************************************************************)
(* Reception.                                                              *)
(***************************************************************************)

\* The first of an increasing sequence is the least.
LEMMA TailOfIncreasing ==
  ASSUME NEW s \in Seq(Bytes), s # <<>>, Increasing(s)
  PROVE  /\ Increasing(Tail(s))
         /\ ToSet(s) = ToSet(Tail(s)) \cup {Head(s)}
         /\ \A x \in ToSet(Tail(s)) : Head(s) < x
<1> DEFINE t == Tail(s)
<1>1. /\ Head(s) = s[1] /\ t \in Seq(Bytes) /\ Len(t) = Len(s) - 1
      /\ Len(s) \in Nat \ {0}
      /\ \A i \in 1 .. Len(t) : t[i] = s[i + 1]
  BY HeadTailProperties
<1>2. DOMAIN s = 1 .. Len(s) /\ DOMAIN t = 1 .. Len(t) BY <1>1
<1> HIDE DEF t
<1>3. \A i \in DOMAIN t : i + 1 \in DOMAIN s /\ t[i] = s[i + 1] BY <1>1, <1>2
<1>4. \A i \in DOMAIN s : i = 1 \/ (i - 1 \in DOMAIN t /\ t[i - 1] = s[i])
  <2> TAKE i \in DOMAIN s
  <2>1. CASE i = 1 BY <2>1
  <2>2. CASE i # 1
    <3>1. i - 1 \in 1 .. Len(t) /\ (i - 1) + 1 = i BY <1>1, <1>2, <2>2
    <3> QED BY <1>1, <1>2, <3>1
  <2> QED BY <2>1, <2>2
<1>5. Increasing(t)
  <2> SUFFICES ASSUME NEW i \in DOMAIN t, NEW j \in DOMAIN t, i < j
               PROVE  t[i] < t[j]
    BY DEF Increasing
  <2>1. i + 1 \in DOMAIN s /\ j + 1 \in DOMAIN s /\ i + 1 < j + 1 BY <1>2, <1>3
  <2>2. s[i + 1] < s[j + 1] BY <2>1 DEF Increasing
  <2> QED BY <1>3, <2>2
<1>6. ToSet(s) = ToSet(t) \cup {s[1]}
  <2>1. 1 \in DOMAIN s BY <1>1, <1>2
  <2>2. \A x \in ToSet(s) : x \in ToSet(t) \cup {s[1]} BY <1>4 DEF ToSet
  <2>3. \A x \in ToSet(t) \cup {s[1]} : x \in ToSet(s) BY <1>3, <2>1 DEF ToSet
  <2> QED BY <2>2, <2>3
<1>7. \A x \in ToSet(t) : s[1] < x
  <2> SUFFICES ASSUME NEW i \in DOMAIN t PROVE s[1] < t[i] BY DEF ToSet
  <2>1. 1 \in DOMAIN s /\ i + 1 \in DOMAIN s /\ 1 < i + 1 BY <1>1, <1>2, <1>3
  <2>2. s[1] < s[i + 1] BY <2>1 DEF Increasing
  <2> QED BY <1>3, <2>2
<1> QED BY <1>1, <1>5, <1>6, <1>7 DEF t

\* A greater element behind an increasing sequence.
LEMMA AppendToIncreasing ==
  ASSUME NEW S \in SUBSET Int, NEW s \in Seq(S), Increasing(s), NEW b \in S,
         \A x \in ToSet(s) : x < b
  PROVE  /\ Append(s, b) \in Seq(S)
         /\ Increasing(Append(s, b))
         /\ ToSet(Append(s, b)) = ToSet(s) \cup {b}
<1> DEFINE t == Append(s, b)
           n == Len(s)
<1>1. /\ t \in Seq(S) /\ Len(t) = n + 1 /\ n \in Nat
      /\ \A i \in 1 .. n : t[i] = s[i]
      /\ t[n + 1] = b
  BY AppendProperties
<1>2. DOMAIN s = 1 .. n /\ DOMAIN t = 1 .. n + 1 BY <1>1
<1> HIDE DEF t, n
<1>3. \A i \in DOMAIN t : i = n + 1 \/ (i \in DOMAIN s /\ t[i] = s[i])
  BY <1>1, <1>2
<1>4. \A i \in DOMAIN s : i \in DOMAIN t /\ t[i] = s[i] BY <1>1, <1>2
<1>5. n + 1 \in DOMAIN t BY <1>1, <1>2
<1>6. Increasing(t)
  <2> SUFFICES ASSUME NEW i \in DOMAIN t, NEW j \in DOMAIN t, i < j
               PROVE  t[i] < t[j]
    BY DEF Increasing
  <2>1. i \in DOMAIN s /\ t[i] = s[i] /\ s[i] \in ToSet(s)
    BY <1>1, <1>2, <1>3 DEF ToSet
  <2>2. CASE j = n + 1 BY <1>1, <2>1, <2>2
  <2>3. CASE j \in DOMAIN s /\ t[j] = s[j] BY <2>1, <2>3 DEF Increasing
  <2> QED BY <1>3, <2>2, <2>3
<1>7. ToSet(t) = ToSet(s) \cup {b}
  <2>1. \A x \in ToSet(t) : x \in ToSet(s) \cup {b} BY <1>1, <1>3 DEF ToSet
  <2>2. \A x \in ToSet(s) \cup {b} : x \in ToSet(t) BY <1>1, <1>4, <1>5 DEF ToSet
  <2> QED BY <2>1, <2>2
<1> QED BY <1>1, <1>6, <1>7 DEF t

\* Two increasing sequences in a row.
LEMMA ConcatOfIncreasing ==
  ASSUME NEW s \in Seq(Bytes), NEW t \in Seq(Bytes), Increasing(s), Increasing(t),
         \A x \in ToSet(s), y \in ToSet(t) : x < y
  PROVE  Increasing(s \o t)
<1> DEFINE u == s \o t
           m == Len(s)
           n == Len(t)
<1>1. /\ u \in Seq(Bytes) /\ Len(u) = m + n /\ m \in Nat /\ n \in Nat
      /\ \A i \in 1 .. m + n : u[i] = IF i <= m THEN s[i] ELSE t[i - m]
      /\ DOMAIN s = 1 .. m /\ DOMAIN t = 1 .. n
  BY ConcatProperties
<1>2. DOMAIN u = 1 .. m + n BY <1>1
<1> HIDE DEF u, m, n
<1> SUFFICES ASSUME NEW i \in 1 .. m + n, NEW j \in 1 .. m + n, i < j
             PROVE  u[i] < u[j]
  BY <1>2 DEF Increasing, u
<1>3. \A k \in 1 .. m + n :
        /\ k <= m => k \in DOMAIN s /\ u[k] = s[k] /\ u[k] \in ToSet(s)
        /\ ~ (k <= m) => /\ k - m \in DOMAIN t /\ u[k] = t[k - m]
                         /\ u[k] \in ToSet(t)
  <2> TAKE k \in 1 .. m + n
  <2>1. CASE k <= m
    <3>1. k \in DOMAIN s BY <1>1, <2>1
    <3> QED BY <1>1, <2>1, <3>1 DEF ToSet
  <2>2. CASE ~ (k <= m)
    <3>1. k - m \in DOMAIN t BY <1>1, <2>2
    <3> QED BY <1>1, <2>2, <3>1 DEF ToSet
  <2> QED BY <2>1, <2>2
<1>4. CASE j <= m
  <2>1. i <= m BY <1>1, <1>4
  <2> QED BY <1>3, <1>4, <2>1 DEF Increasing
<1>5. CASE i <= m /\ ~ (j <= m) BY <1>3, <1>5
<1>6. CASE ~ (i <= m)
  <2>1. ~ (j <= m) /\ i - m < j - m BY <1>1, <1>6
  <2> QED BY <1>3, <1>6, <2>1 DEF Increasing
<1> QED BY <1>4, <1>5, <1>6

\* What came in, the first n bytes, was read (the set G), waits in the ring or at
\* the port, in its order, or was dropped.
QueueInv(q, G, n) ==
  /\ Increasing(q.ring) /\ Increasing(q.inbox)
  /\ \A x \in ToSet(q.ring), y \in ToSet(q.inbox) : x < y
  /\ \A g \in G, x \in ToSet(q.ring) \cup ToSet(q.inbox) : g < x
  /\ 1 .. n = G \cup ToSet(q.ring) \cup ToSet(q.inbox) \cup q.dropped

\* With RxRDY set, data is the next byte to be read, or the last one that the ring
\* dropped.
ReadyInv(q, G) ==
  "RxRDY" \in q.result =>
    /\ \A g \in G : g < q.data
    /\ IF q.ring # <<>> THEN q.data = Head(q.ring)
       ELSE /\ ~q.fifo /\ q.data \in q.dropped
            /\ \A y \in ToSet(q.inbox) : q.data < y

\* These depend on the receiver's part of the record only.
LEMMA SameReceiverSame ==
  ASSUME NEW p, NEW q, SameReceiver(p, q), NEW G, NEW n
  PROVE  /\ QueueInv(p, G, n) <=> QueueInv(q, G, n)
         /\ ReadyInv(p, G) <=> ReadyInv(q, G)
         /\ p.ring = q.ring
  BY DEF SameReceiver, QueueInv, ReadyInv

\* The head of a sequence is in it.
LEMMA HeadMember ==
  ASSUME NEW s \in Seq(Bytes), s # <<>>
  PROVE  Head(s) \in ToSet(s) /\ Head(s) \in Bytes
<1>1. 1 \in DOMAIN s /\ Head(s) = s[1] OBVIOUS
<1>2. Head(s) \in ToSet(s) BY <1>1 DEF ToSet
<1> QED BY <1>2, HeadAndTail

\* What the operations of the receiver leave alone.
LEMMA BytesAreNumbers ==
  ASSUME NEW s \in Seq(Bytes)
  PROVE  \A x \in ToSet(s) : x \in Bytes /\ x \in Nat
  BY Rs232cAssumption DEF ToSet, Bytes

\* One byte goes from the port into the ring.
LEMMA TakeFacts ==
  ASSUME NEW q \in Serial, NEW G, NEW n, QueueInv(q, G, n)
  PROVE  LET s == Take(q)
         IN /\ s \in Serial
            /\ SameSender(s, q)
            /\ QueueInv(s, G, n)
            /\ s.result = q.result /\ s.data = q.data /\ s.dropped = q.dropped
            /\ Len(s.ring) <= Len(q.ring) + 1
            /\ q.ring # <<>> => s.ring # <<>> /\ Head(s.ring) = Head(q.ring)
            /\ s.ring = <<>> => s = q
<1>1. q.ring \in Seq(Bytes) /\ q.inbox \in Seq(Bytes) /\ Len(q.ring) \in Nat
  BY Fields
<1>2. CASE q.inbox = <<>>
  <2>1. Take(q) = q BY <1>2 DEF Take
  <2> QED BY <1>1, <2>1 DEF SameSender
<1>3. CASE q.inbox # <<>>
  <2> DEFINE h == Head(q.inbox)
             t == Tail(q.inbox)
             r == Append(q.ring, h)
             s == [q EXCEPT !.ring = r, !.inbox = t]
  <2>1. Take(q) = s BY <1>3 DEF Take, Serial
  <2>2. h \in Bytes /\ t \in Seq(Bytes) /\ h \in ToSet(q.inbox)
    BY <1>1, <1>3, HeadAndTail, HeadMember
  <2>3. /\ Increasing(t) /\ ToSet(q.inbox) = ToSet(t) \cup {h}
        /\ \A x \in ToSet(t) : h < x
    BY <1>1, <1>3, TailOfIncreasing DEF QueueInv
  <2>4. Bytes \in SUBSET Int BY DEF Bytes
  <2>5. \A x \in ToSet(q.ring) : x < h BY <2>2 DEF QueueInv
  <2> HIDE DEF h, t
  <2>6. r \in Seq(Bytes) /\ Increasing(r) /\ ToSet(r) = ToSet(q.ring) \cup {h}
    <3>1. Increasing(q.ring) BY DEF QueueInv
    <3> QED BY <1>1, <2>2, <2>4, <2>5, <3>1, AppendToIncreasing
  <2>7. /\ r # <<>> /\ Len(r) = Len(q.ring) + 1
        /\ q.ring # <<>> => Head(r) = Head(q.ring)
    BY <1>1, <2>2, AppendProperties, HeadTailAppend
  <2> HIDE DEF r
  <2>8. s \in Serial BY <2>2, <2>6 DEF Serial
  <2>9. /\ s.ring = r /\ s.inbox = t /\ s.result = q.result /\ s.data = q.data
        /\ s.dropped = q.dropped /\ SameSender(s, q)
    BY DEF Serial, SameSender
  <2> HIDE DEF s
  <2>10. QueueInv(s, G, n) BY <2>3, <2>6, <2>9 DEF QueueInv
  <2> QED BY <1>1, <2>1, <2>7, <2>8, <2>9, <2>10
<1> QED BY <1>2, <1>3

\* The sizes are numbers.
LEMMA Sizes ==
  /\ RingSize \in Nat /\ RingSize >= 2 /\ ClearCount \in Nat /\ ClearCount >= 2
  /\ LastByte \in Nat /\ LineRoom \in Nat /\ RingHigh \in Nat
<1>1. RingSize \in Nat \ {0, 1} /\ ClearCount \in Nat \ {0, 1} BY Rs232cAssumption
<1>2. LastByte \in Nat \ {0} /\ LineRoom \in Nat \ {0} BY Rs232cAssumption
<1>3. RingHigh \in Nat BY <1>1, Rs232cAssumption
<1> QED BY <1>1, <1>2, <1>3

\* What waits for the guest.
SameQueue(p, q) ==
  /\ p.ring = q.ring /\ p.inbox = q.inbox /\ p.data = q.data
  /\ p.dropped = q.dropped /\ p.fifo = q.fifo

\* The flags and the counter of the receiver.
LEMMA ReceiverFlagFacts ==
  ASSUME NEW q \in Serial
  PROVE  LET u == [q EXCEPT !.result = q.result \ {"RxRDY"}]
             v == [q EXCEPT !.result = q.result \cup {"RxRDY"}]
         IN /\ u \in Serial /\ SameSender(u, q) /\ SameQueue(u, q)
            /\ "RxRDY" \notin u.result
            /\ v \in Serial /\ SameSender(v, q) /\ SameQueue(v, q)
            /\ "RxRDY" \in v.result
  BY DEF Serial, SameSender, SameQueue

\* rs232c_removecounter.
LEMMA CountFacts ==
  ASSUME NEW q \in Serial, NEW c \in 0 .. ClearCount - 1
  PROVE  LET u == [q EXCEPT !.count = c]
         IN /\ u \in Serial /\ SameSender(u, q) /\ SameQueue(u, q)
            /\ u.result = q.result /\ u.cmd = q.cmd /\ u.count = c
  BY DEF Serial, SameSender, SameQueue

\* The oldest byte of the ring has been read.
LEMMA AdvanceFacts ==
  ASSUME NEW q \in Serial, NEW G, NEW n, QueueInv(q, G, n), q.ring # <<>>
  PROVE  LET s == Advance(q)
             h == Head(q.ring)
         IN /\ s \in Serial
            /\ SameSender(s, q)
            /\ QueueInv(s, G \cup {h}, n)
            /\ s.result = q.result /\ s.dropped = q.dropped
            /\ Len(s.ring) = Len(q.ring) - 1
            /\ s.ring # <<>> =>
                 s.data = Head(s.ring) /\ \A g \in G \cup {h} : g < s.data
<1> DEFINE h == Head(q.ring)
           t == Tail(q.ring)
           d == IF t = <<>> THEN 0 ELSE Head(t)
           s == [q EXCEPT !.ring = t, !.data = d]
<1>1. Advance(q) = s BY DEF Advance
<1>2. q.ring \in Seq(Bytes) /\ q.inbox \in Seq(Bytes) /\ Len(q.ring) \in Nat
  BY Fields
<1>3. h \in Bytes /\ t \in Seq(Bytes) /\ h \in ToSet(q.ring) /\ Len(t) = Len(q.ring) - 1
  BY <1>2, HeadAndTail, HeadMember
<1>4. /\ Increasing(t) /\ ToSet(q.ring) = ToSet(t) \cup {h}
      /\ \A x \in ToSet(t) : h < x
  BY <1>2, TailOfIncreasing DEF QueueInv
<1>5. \A x \in ToSet(q.inbox) : h < x BY <1>3 DEF QueueInv
<1> HIDE DEF h, t
<1>6. t # <<>> => Head(t) \in ToSet(t) /\ Head(t) \in Bytes BY <1>3, HeadMember
<1>7. d \in 0 .. LastByte BY <1>6, Sizes DEF Bytes
<1>8. t # <<>> => d = Head(t) /\ d \in ToSet(t) BY <1>6
<1> HIDE DEF d
<1>9. s \in Serial BY <1>3, <1>7 DEF Serial
<1>10. /\ s.ring = t /\ s.inbox = q.inbox /\ s.result = q.result /\ s.data = d
       /\ s.dropped = q.dropped /\ SameSender(s, q)
  BY DEF Serial, SameSender
<1> HIDE DEF s
<1>11. QueueInv(s, G \cup {h}, n) BY <1>4, <1>5, <1>10 DEF QueueInv
<1>12. t # <<>> => \A g \in G \cup {h} : g < d BY <1>4, <1>8 DEF QueueInv
<1> QED BY <1>1, <1>3, <1>8, <1>9, <1>10, <1>11, <1>12 DEF h

\* rs232c_i30: the guest has what came in before all that waits, and data is the
\* next byte when RxRDY stays.
LEMMA ReadFacts ==
  ASSUME NEW q \in Serial, NEW G, NEW n, QueueInv(q, G, n), ReadyInv(q, G),
         "RxRDY" \in q.result, Len(q.ring) < RingSize
  PROVE  LET s == [(IF q.fifo THEN ReadFifo(q) ELSE ReadByte(q)) EXCEPT !.count = 0]
             H == G \cup {q.data}
         IN /\ s \in Serial
            /\ SameSender(s, q)
            /\ QueueInv(s, H, n)
            /\ ReadyInv(s, H)
            /\ Len(s.ring) < RingSize
            /\ q.data \in 1 .. n /\ \A g \in G : g < q.data
<1> DEFINE H == G \cup {q.data}
           o == IF q.ring = <<>> THEN q ELSE Advance(q)
           p == IF q.fifo THEN ReadFifo(q) ELSE ReadByte(q)
           s == [p EXCEPT !.count = 0]
<1>1. /\ q.ring \in Seq(Bytes) /\ Len(q.ring) \in Nat /\ RingSize \in Nat
      /\ RingHigh \in Nat
  BY Fields, Rs232cAssumption
<1>2. /\ \A g \in G : g < q.data
      /\ IF q.ring # <<>> THEN q.data = Head(q.ring)
         ELSE /\ ~q.fifo /\ q.data \in q.dropped
              /\ \A y \in ToSet(q.inbox) : q.data < y
  BY DEF ReadyInv
<1>3. q.data \in 1 .. n
  <2>1. q.ring # <<>> => q.data \in ToSet(q.ring) BY <1>1, <1>2, HeadMember
  <2> QED BY <1>2, <2>1 DEF QueueInv
<1>4. /\ o \in Serial /\ SameSender(o, q) /\ QueueInv(o, H, n)
      /\ o.result = q.result /\ Len(o.ring) < RingSize /\ Len(o.ring) \in Nat
      /\ o.ring # <<>> => o.data = Head(o.ring) /\ \A g \in H : g < o.data
  <2>1. CASE q.ring = <<>>
    <3>1. o = q BY <2>1
    <3>2. ToSet(q.ring) = {} BY <2>1 DEF ToSet
    <3>3. QueueInv(q, H, n) BY <1>2, <2>1, <3>2 DEF QueueInv
    <3>4. SameSender(q, q) BY DEF SameSender
    <3> QED BY <1>1, <2>1, <3>1, <3>3, <3>4
  <2>2. CASE q.ring # <<>>
    <3>1. o = Advance(q) /\ H = G \cup {Head(q.ring)} BY <1>2, <2>2
    <3> HIDE DEF o, H
    <3>2. /\ o \in Serial /\ SameSender(o, q) /\ QueueInv(o, H, n)
          /\ o.result = q.result /\ Len(o.ring) = Len(q.ring) - 1
          /\ o.ring # <<>> => o.data = Head(o.ring) /\ \A g \in H : g < o.data
      BY <2>2, <3>1, AdvanceFacts
    <3>3. Len(o.ring) \in Nat BY <3>2, Fields
    <3> QED BY <1>1, <3>2, <3>3
  <2> QED BY <2>1, <2>2
<1>5. \/ o.ring = <<>> /\ p = Cause([o EXCEPT !.result = o.result \ {"RxRDY"}], "end")
      \/ p = [o EXCEPT !.result = o.result \ {"RxRDY"}]
      \/ o.ring # <<>> /\ p \in {o, Raise(o), Cause(o, "receive")}
  <2>1. CASE q.fifo
    <3>1. q.ring # <<>> BY <1>2, <2>1
    <3>2. p = IF o.ring = <<>> THEN Cause([o EXCEPT !.result = @ \ {"RxRDY"}], "end")
              ELSE IF Len(o.ring) > RingHigh THEN Cause(o, "receive") ELSE o
      BY <2>1, <3>1 DEF ReadFifo
    <3>3. [o EXCEPT !.result = @ \ {"RxRDY"}] = [o EXCEPT !.result = o.result \ {"RxRDY"}]
      BY <1>4 DEF Serial
    <3> HIDE DEF o, p
    <3> QED BY <3>2, <3>3
  <2>2. CASE ~q.fifo
    <3>1. p = IF Len(o.ring) <= RingHigh THEN [o EXCEPT !.result = @ \ {"RxRDY"}]
              ELSE IF "rxready" \in enabled THEN Raise(o) ELSE o
      BY <2>2 DEF ReadByte
    <3>2. [o EXCEPT !.result = @ \ {"RxRDY"}] = [o EXCEPT !.result = o.result \ {"RxRDY"}]
      BY <1>4 DEF Serial
    <3>3. ~ (Len(o.ring) <= RingHigh) => o.ring # <<>> BY <1>1, <1>4
    <3> HIDE DEF o, p
    <3> QED BY <3>1, <3>2, <3>3
  <2> QED BY <2>1, <2>2
<1> HIDE DEF o, p, H
<1> DEFINE u == [o EXCEPT !.result = o.result \ {"RxRDY"}]
<1>6. u \in Serial /\ SameSender(u, o) /\ SameQueue(u, o) /\ "RxRDY" \notin u.result
  BY <1>4, ReceiverFlagFacts
<1> HIDE DEF u
<1>7. /\ Cause(u, "end") \in Serial /\ SameReceiver(Cause(u, "end"), u)
      /\ SameSender(Cause(u, "end"), u)
  BY <1>6, InterruptFacts
<1>8. \A x \in {Raise(o), Cause(o, "receive")} :
        x \in Serial /\ SameReceiver(x, o) /\ SameSender(x, o)
  BY <1>4, InterruptFacts
<1>9. /\ p \in Serial /\ SameSender(p, o) /\ SameQueue(p, o)
      /\ "RxRDY" \in p.result => o.ring # <<>>
  <2>1. CASE p = Cause(u, "end")
    BY <1>6, <1>7, <2>1 DEF SameReceiver, SameQueue, SameSender
  <2>2. CASE p = u BY <1>6, <2>2
  <2>3. CASE o.ring # <<>> /\ p = o BY <1>4, <2>3 DEF SameQueue, SameSender
  <2>4. CASE o.ring # <<>> /\ p \in {Raise(o), Cause(o, "receive")}
    BY <1>8, <2>4 DEF SameReceiver, SameQueue
  <2> QED BY <1>5, <2>1, <2>2, <2>3, <2>4 DEF u
<1>10. 0 \in 0 .. ClearCount - 1 BY Sizes
<1>11. /\ s \in Serial /\ SameSender(s, p) /\ SameQueue(s, p) /\ s.result = p.result
  BY <1>9, <1>10, CountFacts
<1> HIDE DEF s
<1>12. SameSender(s, q) BY <1>4, <1>9, <1>11 DEF SameSender
<1>13. SameQueue(s, o) BY <1>9, <1>11 DEF SameQueue
<1>14. QueueInv(s, H, n) BY <1>4, <1>13 DEF SameQueue, QueueInv
<1>15. ReadyInv(s, H) BY <1>4, <1>9, <1>11, <1>13 DEF SameQueue, ReadyInv
<1>16. Len(s.ring) < RingSize BY <1>4, <1>13 DEF SameQueue
<1> QED BY <1>2, <1>3, <1>11, <1>12, <1>14, <1>15, <1>16 DEF s, p, H

\* The oldest byte of the ring is dropped.
Shortened(q, c) == [q EXCEPT !.ring = Tail(@), !.count = c,
                             !.dropped = @ \cup {Head(q.ring)}]

LEMMA RemovedFacts ==
  ASSUME NEW q \in Serial, NEW c \in 0 .. ClearCount - 1, NEW G, NEW n,
         QueueInv(q, G, n), q.ring # <<>>
  PROVE  LET r == Shortened(q, c)
         IN /\ r \in Serial
            /\ SameSender(r, q)
            /\ QueueInv(r, G, n)
            /\ r.result = q.result /\ r.data = q.data /\ r.inbox = q.inbox
            /\ Len(r.ring) = Len(q.ring) - 1
            /\ Head(q.ring) \in r.dropped
            /\ \A y \in ToSet(q.inbox) : Head(q.ring) < y
<1> DEFINE h == Head(q.ring)
           t == Tail(q.ring)
           w == q.dropped \cup {h}
           r == [q EXCEPT !.ring = t, !.count = c, !.dropped = w]
<1>1. Shortened(q, c) = r BY DEF Shortened, Serial
<1>2. q.ring \in Seq(Bytes) /\ q.inbox \in Seq(Bytes) /\ q.dropped \in SUBSET Bytes
  BY Fields
<1>3. h \in Bytes /\ t \in Seq(Bytes) /\ h \in ToSet(q.ring) /\ Len(t) = Len(q.ring) - 1
  BY <1>2, HeadAndTail, HeadMember
<1>4. /\ Increasing(t) /\ ToSet(q.ring) = ToSet(t) \cup {h}
      /\ \A x \in ToSet(t) : h < x
  BY <1>2, TailOfIncreasing DEF QueueInv
<1>5. w \in SUBSET Bytes BY <1>2, <1>3
<1>6. \A y \in ToSet(q.inbox) : h < y BY <1>3 DEF QueueInv
<1>7. h \in w /\ w = q.dropped \cup {h} OBVIOUS
<1> HIDE DEF h, t, w
<1>8. r \in Serial BY <1>3, <1>5 DEF Serial
<1>9. /\ r.ring = t /\ r.inbox = q.inbox /\ r.result = q.result /\ r.data = q.data
      /\ r.dropped = w /\ SameSender(r, q)
  BY DEF Serial, SameSender
<1> HIDE DEF r
<1>10. QueueInv(r, G, n) BY <1>4, <1>7, <1>9 DEF QueueInv
<1> QED BY <1>1, <1>3, <1>6, <1>7, <1>8, <1>9, <1>10 DEF h, r

\* The counter of the callback; it is 1 in FIFO mode.
LEMMA CounterFacts ==
  ASSUME NEW q \in Serial
  PROVE  LET c == ((IF q.fifo THEN 0 ELSE q.count) + 1) % ClearCount
         IN c \in 0 .. ClearCount - 1 /\ (q.fifo => c = 1)
<1> DEFINE k == IF q.fifo THEN 0 ELSE q.count
<1>1. k \in Nat /\ ClearCount \in Nat /\ ClearCount >= 2 BY Fields, Sizes
<1>2. q.fifo => k = 0 OBVIOUS
<1> HIDE DEF k
<1>3. (k + 1) % ClearCount \in 0 .. ClearCount - 1 BY <1>1
<1>4. k = 0 => (k + 1) % ClearCount = 1 BY <1>1
<1> QED BY <1>2, <1>3, <1>4 DEF k

\* What the callback receives.
LEMMA ReceivedFacts ==
  ASSUME NEW q \in Serial, NEW G, NEW n, QueueInv(q, G, n), ReadyInv(q, G),
         Len(q.ring) < RingSize, q.fifo => Len(q.ring) # RingSize - 1
  PROVE  LET p == Received(q)
         IN /\ p \in Serial
            /\ SameSender(p, q)
            /\ QueueInv(p, G, n)
            /\ ReadyInv(p, G)
            /\ Len(p.ring) < RingSize
<1> DEFINE count == ((IF q.fifo THEN 0 ELSE q.count) + 1) % ClearCount
           removed == Len(q.ring) = RingSize - 1 \/ (q.ring # <<>> /\ count = 0)
           less == Shortened(q, count)
           same == [q EXCEPT !.count = count]
           r == IF removed THEN less ELSE same
           s == IF "rx" \in q.cmd THEN Take(r) ELSE r
           d == [s EXCEPT !.data = Head(s.ring)]
           v == [d EXCEPT !.result = d.result \cup {"RxRDY"}]
           p == Received(q)
<1>1. q.ring \in Seq(Bytes) /\ Len(q.ring) \in Nat BY Fields
<1>2. RingSize \in Nat /\ RingSize >= 2 BY Sizes
<1>3. count \in 0 .. ClearCount - 1 /\ (q.fifo => count = 1) BY CounterFacts
<1>4. p = IF s.ring = <<>> THEN s
          ELSE IF "RxRDY" \in s.result /\ ~removed THEN d
          ELSE IF q.fifo
            THEN Cause([s EXCEPT !.data = Head(s.ring), !.result = @ \cup {"RxRDY"}], "receive")
          ELSE IF "rxready" \in enabled
            THEN Raise([s EXCEPT !.data = Head(s.ring), !.result = @ \cup {"RxRDY"}])
          ELSE [s EXCEPT !.data = Head(s.ring), !.result = @ \cup {"RxRDY"}]
  BY DEF Received, Shortened
<1> HIDE DEF count, p
<1>5. removed => q.ring # <<>> /\ ~q.fifo BY <1>1, <1>2, <1>3
<1>6. /\ r \in Serial /\ SameSender(r, q) /\ QueueInv(r, G, n)
      /\ r.result = q.result /\ r.data = q.data /\ r.inbox = q.inbox
      /\ Len(r.ring) \in Nat /\ Len(r.ring) + 1 < RingSize
  <2>1. CASE removed
    <3>1. r = less BY <2>1
    <3> HIDE DEF r
    <3>2. /\ less \in Serial /\ SameSender(less, q) /\ QueueInv(less, G, n)
          /\ less.result = q.result /\ less.data = q.data /\ less.inbox = q.inbox
          /\ Len(less.ring) = Len(q.ring) - 1
      BY <1>3, <1>5, <2>1, RemovedFacts
    <3> HIDE DEF less
    <3>3. Len(less.ring) \in Nat BY <3>2, Fields
    <3> QED BY <1>1, <1>2, <3>1, <3>2, <3>3
  <2>2. CASE ~removed
    <3>1. r = same BY <2>2
    <3> HIDE DEF r
    <3>2. /\ same \in Serial /\ SameSender(same, q) /\ SameQueue(same, q)
          /\ same.result = q.result
      BY <1>3, CountFacts
    <3> HIDE DEF same
    <3>3. QueueInv(same, G, n) BY <3>2 DEF SameQueue, QueueInv
    <3> QED BY <1>1, <1>2, <2>2, <3>1, <3>2, <3>3 DEF SameQueue
  <2> QED BY <2>1, <2>2
<1>7. r.ring = <<>> => ReadyInv(r, G)
  <2>1. CASE removed /\ Len(r.ring) = 0
    <3>1. r = less BY <2>1
    <3>2. /\ Head(q.ring) \in less.dropped /\ less.data = q.data
          /\ less.result = q.result /\ less.inbox = q.inbox
          /\ SameSender(less, q)
          /\ \A y \in ToSet(q.inbox) : Head(q.ring) < y
      BY <1>3, <1>5, <2>1, RemovedFacts
    <3>3. less.fifo = q.fifo BY <3>2 DEF SameSender
    <3> HIDE DEF less, removed
    <3> QED BY <1>5, <2>1, <3>1, <3>2, <3>3 DEF ReadyInv
  <2>2. CASE ~removed
    <3>1. r = same BY <2>2
    <3>2. SameQueue(same, q) /\ same.result = q.result BY <1>3, CountFacts
    <3> HIDE DEF same
    <3>3. ReadyInv(same, G) BY <3>2 DEF SameQueue, ReadyInv
    <3> HIDE DEF r
    <3> QED BY <3>1, <3>3
  <2> HIDE DEF r, removed
  <2> QED BY <2>1, <2>2
<1> HIDE DEF r, removed
<1>8. /\ s \in Serial /\ SameSender(s, q) /\ QueueInv(s, G, n)
      /\ Len(s.ring) < RingSize
      /\ s.ring = <<>> => s = r
  <2>1. CASE "rx" \in q.cmd
    <3>1. s = Take(r) BY <2>1
    <3>2. /\ s \in Serial /\ SameSender(s, r) /\ QueueInv(s, G, n)
          /\ Len(s.ring) <= Len(r.ring) + 1
          /\ s.ring = <<>> => s = r
      BY <1>6, <3>1, TakeFacts
    <3>3. Len(s.ring) \in Nat BY <3>2, Fields
    <3>4. SameSender(s, q) BY <1>6, <3>2 DEF SameSender
    <3> HIDE DEF s
    <3> QED BY <1>2, <1>6, <3>2, <3>3, <3>4
  <2>2. CASE "rx" \notin q.cmd
    <3>1. s = r BY <2>2
    <3> HIDE DEF s
    <3> QED BY <1>2, <1>6, <3>1
  <2> QED BY <2>1, <2>2
<1> HIDE DEF s
<1>9. CASE s.ring = <<>>
  <2>1. p = s /\ ReadyInv(s, G) BY <1>4, <1>7, <1>8, <1>9
  <2> QED BY <1>8, <2>1 DEF p
<1>10. CASE s.ring # <<>>
  <2>1. s.ring \in Seq(Bytes) BY <1>8, Fields
  <2>2. Head(s.ring) \in Bytes /\ Head(s.ring) \in ToSet(s.ring)
    BY <1>10, <2>1, HeadMember
  <2>3. Head(s.ring) \in 0 .. LastByte BY <2>2, Sizes DEF Bytes
  <2>4. /\ d \in Serial /\ SameSender(d, s) /\ d.ring = s.ring
        /\ d.inbox = s.inbox /\ d.dropped = s.dropped /\ d.data = Head(s.ring)
        /\ d.result = s.result /\ d.fifo = s.fifo
    BY <1>8, <2>3 DEF Serial, SameSender
  <2>5. v = [s EXCEPT !.data = Head(s.ring), !.result = @ \cup {"RxRDY"}]
    BY <1>8 DEF Serial
  <2>6. \A g \in G : g < Head(s.ring) BY <1>8, <2>2 DEF QueueInv
  <2> HIDE DEF d
  <2>7. v \in Serial /\ SameSender(v, d) /\ SameQueue(v, d)
    BY <2>4, ReceiverFlagFacts
  <2> HIDE DEF v
  <2>8. p \in {d, v, Raise(v), Cause(v, "receive")} BY <1>4, <1>10, <2>5
  <2>9. \A x \in {Raise(v), Cause(v, "receive")} :
          x \in Serial /\ SameReceiver(x, v) /\ SameSender(x, v)
    BY <2>7, InterruptFacts
  <2>10. p \in Serial /\ SameSender(p, s) /\ SameQueue(p, d)
    <3>1. CASE p = d BY <2>4, <3>1 DEF SameQueue
    <3>2. CASE p = v BY <2>4, <2>7, <3>2 DEF SameSender
    <3>3. CASE p \in {Raise(v), Cause(v, "receive")}
      BY <2>4, <2>7, <2>9, <3>3 DEF SameSender, SameReceiver, SameQueue
    <3> QED BY <2>8, <3>1, <3>2, <3>3
  <2>11. SameSender(p, q) BY <1>8, <2>10 DEF SameSender
  <2>12. QueueInv(p, G, n) BY <1>8, <2>4, <2>10 DEF SameQueue, QueueInv
  <2>13. ReadyInv(p, G) BY <1>10, <2>4, <2>6, <2>10 DEF SameQueue, ReadyInv
  <2>14. Len(p.ring) < RingSize BY <1>8, <2>4, <2>10 DEF SameQueue
  <2> QED BY <2>10, <2>11, <2>12, <2>13, <2>14 DEF p
<1> QED BY <1>9, <1>10

\* The interrupts of the transmitter.
LEMMA TransmittedFacts ==
  ASSUME NEW q \in Serial
  PROVE  LET p == Transmitted(q)
         IN p \in Serial /\ SameReceiver(p, q) /\ SameSender(p, q)
<1> DEFINE r == IF TxEnabled /\ q.send THEN TxInterrupt(q) ELSE q
<1>1. r \in Serial /\ SameReceiver(r, q) /\ SameSender(r, q)
  BY InterruptFacts DEF SameReceiver, SameSender
<1>2. Transmitted(q) = IF "txempty" \in enabled /\ ~r.send THEN Raise(r) ELSE r
  BY DEF Transmitted
<1> HIDE DEF r
<1>3. Raise(r) \in Serial /\ SameReceiver(Raise(r), r) /\ SameSender(Raise(r), r)
  BY <1>1, InterruptFacts
<1>4. SameReceiver(Raise(r), q) /\ SameSender(Raise(r), q)
  BY <1>1, <1>3 DEF SameReceiver, SameSender
<1> QED BY <1>1, <1>2, <1>3, <1>4

-----------------------------------------------------------------------------
(***************************************************************************)
(* The steps.                                                              *)
(***************************************************************************)

\* The sender of p has what that of q has.
Keeps(p, q) ==
  /\ Buffered(p)
  /\ Len(p.wbuf) <= Len(q.wbuf)
  /\ Clean(q) => Clean(p)
  /\ ~Inverted /\ SenderInv(q) => SenderInv(p) /\ Stream(p) = Stream(q)

\* What holds of the record, of the bytes g that were read, and of the n that came.
RecordInv(q, g, n) ==
  /\ q \in Serial /\ Len(q.ring) < RingSize /\ Len(q.wbuf) < FifoSize
  /\ Buffered(q) /\ (~Inverted => SenderInv(q))
  /\ QueueInv(q, ToSet(g), n) /\ ReadyInv(q, ToSet(g))

IInv ==
  /\ TypeOK
  /\ RecordInv(rs, got, arrived)
  /\ 0 \notin ToSet(got) /\ Increasing(got)

\* What was sent, in a program that does not answer the other way round.
SendInv ==
  /\ IsInjective(Stream(rs)) /\ ToSet(Stream(rs)) \subseteq 1 .. sent
  /\ ~wasReset => Clean(rs) /\ Stream(rs) = [i \in 1 .. sent |-> i]

\* A step that sends nothing, keeps what is sent, and keeps the invariant.
Quiet ==
  /\ IInv'
  /\ Keeps(rs', rs)
  /\ sent' = sent /\ wasReset' = wasReset

\* A step that leaves the history and the setup alone is such a step when its record
\* is good.
LEMMA QuietStep ==
  ASSUME IInv, setup' = setup, UNCHANGED history,
         enabled' \subseteq Enables,
         handler' \in {"none", "cause", "serve", "wrote"},
         RecordInv(rs', got, arrived), Keeps(rs', rs)
  PROVE  Quiet
<1>1. arrived' = arrived /\ sent' = sent /\ got' = got /\ wasReset' = wasReset
  BY DEF history
<1>2. TypeOK' BY <1>1 DEF IInv, TypeOK, RecordInv
<1>3. RecordInv(rs', got', arrived') BY <1>1
<1> QED BY <1>1, <1>2, <1>3 DEF IInv, Quiet

\* Records with the same sender, and with the same receiver.
LEMMA KeepsSame ==
  ASSUME NEW q \in Serial, NEW p, SameSender(p, q), Buffered(q)
  PROVE  Keeps(p, q)
<1>1. Len(q.wbuf) \in Nat BY Fields
<1>2. Len(p.wbuf) <= Len(q.wbuf) BY <1>1 DEF SameSender
<1> QED BY <1>2, SameSenderSame DEF Keeps

LEMMA KeepsTransitive ==
  ASSUME NEW o \in Serial, NEW p \in Serial, NEW q \in Serial, Keeps(o, p), Keeps(p, q)
  PROVE  Keeps(o, q)
<1>1. Len(o.wbuf) \in Nat /\ Len(p.wbuf) \in Nat /\ Len(q.wbuf) \in Nat BY Fields
<1> QED BY <1>1 DEF Keeps

\* What the sender and the receiver of a record keep.
LEMMA RecordKept ==
  ASSUME NEW p \in Serial, NEW q, NEW g, NEW n, NEW m, NEW h,
         RecordInv(q, g, n), Keeps(p, q), Len(p.ring) < RingSize,
         QueueInv(p, ToSet(h), m), ReadyInv(p, ToSet(h))
  PROVE  RecordInv(p, h, m)
<1>1. q \in Serial /\ Len(q.wbuf) < FifoSize BY DEF RecordInv
<1>2. Len(p.wbuf) \in Nat /\ Len(q.wbuf) \in Nat /\ FifoSize \in Nat
  BY SMTT(30), <1>1, Fields, Rs232cAssumption
<1>3. Len(p.wbuf) < FifoSize BY <1>1, <1>2 DEF Keeps
<1> QED BY <1>3 DEF Keeps, RecordInv

\* The retry, and a record that differs from one in neither part.
LEMMA RetryKept ==
  ASSUME NEW q, NEW g, NEW n, RecordInv(q, g, n)
  PROVE  /\ q \in Serial
         /\ Retry(q) \in Serial /\ RecordInv(Retry(q), g, n) /\ Keeps(Retry(q), q)
         /\ SameReceiver(Retry(q), q)
<1>1. q \in Serial /\ Buffered(q) BY DEF RecordInv
<1>2. Sends(Retry(q), q) BY <1>1, RetryFacts
<1>3. Retry(q) \in Serial /\ SameReceiver(Retry(q), q) /\ Keeps(Retry(q), q)
  BY <1>2 DEF Sends, Keeps
<1>4. /\ QueueInv(Retry(q), ToSet(g), n) /\ ReadyInv(Retry(q), ToSet(g))
      /\ Retry(q).ring = q.ring
  BY <1>3, SameReceiverSame DEF RecordInv
<1>5. Len(Retry(q).ring) < RingSize BY <1>4 DEF RecordInv
<1>6. RecordInv(Retry(q), g, n) BY <1>3, <1>4, <1>5, RecordKept
<1> QED BY <1>1, <1>3, <1>6

LEMMA SameKept ==
  ASSUME NEW p \in Serial, NEW q, NEW g, NEW n, RecordInv(q, g, n),
         SameSender(p, q), SameReceiver(p, q)
  PROVE  RecordInv(p, g, n) /\ Keeps(p, q)
<1>1. q \in Serial /\ Buffered(q) BY DEF RecordInv
<1>2. Keeps(p, q) BY <1>1, KeepsSame
<1>3. QueueInv(p, ToSet(g), n) /\ ReadyInv(p, ToSet(g)) /\ p.ring = q.ring
  BY SameReceiverSame DEF RecordInv
<1>4. Len(p.ring) < RingSize BY <1>3 DEF RecordInv
<1> QED BY <1>2, <1>3, <1>4, RecordKept

\* rs232c_callback.
LEMMA CallbackStep ==
  ASSUME IInv, Rs232cCallback, setup' = setup
  PROVE  Quiet
<1> DEFINE r == Retry(rs)
           q == IF r.ring = <<>> \/ r.fifo THEN [r EXCEPT !.count = 0] ELSE r
           g == ToSet(got)
<1>1. UNCHANGED <<enabled, handler, history>> BY DEF Rs232cCallback
<1>2. rs' = IF "rx" \notin q.cmd /\ q.ring = <<>> THEN Transmitted(r)
            ELSE IF q.fifo /\ q.irqflag # "none" THEN q
            ELSE IF q.fifo /\ Len(q.ring) = RingSize - 1 THEN Cause(q, "receive")
            ELSE Transmitted(Received(q))
  BY DEF Rs232cCallback
<1>3. /\ rs \in Serial /\ r \in Serial /\ RecordInv(r, got, arrived) /\ Keeps(r, rs)
  BY RetryKept DEF IInv
<1> HIDE DEF r
<1>4. q \in Serial /\ SameSender(q, r) /\ SameQueue(q, r) /\ q.result = r.result
  <2>1. 0 \in 0 .. ClearCount - 1 BY Sizes
  <2>2. CASE r.ring = <<>> \/ r.fifo
    <3>1. q = [r EXCEPT !.count = 0] BY <2>2
    <3> HIDE DEF q
    <3> QED BY <1>3, <2>1, <3>1, CountFacts
  <2>3. CASE ~ (r.ring = <<>> \/ r.fifo)
    <3>1. q = r BY <2>3
    <3> HIDE DEF q
    <3> QED BY <1>3, <3>1 DEF SameSender, SameQueue
  <2> QED BY <2>2, <2>3
<1> HIDE DEF q
<1>5. RecordInv(q, got, arrived) /\ Keeps(q, rs)
  <2>1. Buffered(r) BY <1>3 DEF RecordInv
  <2>2. Keeps(q, r) BY <1>3, <1>4, <2>1, KeepsSame
  <2>3. QueueInv(q, g, arrived) /\ ReadyInv(q, g) /\ Len(q.ring) < RingSize
    BY <1>3, <1>4 DEF SameQueue, QueueInv, ReadyInv, RecordInv
  <2>4. RecordInv(q, got, arrived) BY <1>3, <1>4, <2>2, <2>3, RecordKept
  <2>5. Keeps(q, rs) BY <1>3, <1>4, <2>2, KeepsTransitive
  <2> QED BY <2>4, <2>5
<1>6. ASSUME NEW p, RecordInv(p, got, arrived), Keeps(p, rs),
             NEW t \in Serial, SameSender(t, p), SameReceiver(t, p)
      PROVE  RecordInv(t, got, arrived) /\ Keeps(t, rs)
  <2>1. p \in Serial BY <1>6 DEF RecordInv
  <2>2. RecordInv(t, got, arrived) /\ Keeps(t, p) BY <1>6, SameKept
  <2> QED BY <1>3, <1>6, <2>1, <2>2, KeepsTransitive
<1>7. ASSUME NEW p, RecordInv(p, got, arrived), Keeps(p, rs)
      PROVE  RecordInv(Transmitted(p), got, arrived) /\ Keeps(Transmitted(p), rs)
  <2>1. p \in Serial BY <1>7 DEF RecordInv
  <2>2. /\ Transmitted(p) \in Serial /\ SameSender(Transmitted(p), p)
        /\ SameReceiver(Transmitted(p), p)
    BY <2>1, TransmittedFacts
  <2> QED BY <1>6, <1>7, <2>2
<1>8. RecordInv(rs', got, arrived) /\ Keeps(rs', rs)
  <2>1. CASE rs' = Transmitted(r) BY <1>3, <1>7, <2>1
  <2>2. CASE rs' = q BY <1>5, <2>2
  <2>3. CASE rs' = Cause(q, "receive")
    <3>1. /\ rs' \in Serial /\ SameReceiver(rs', q) /\ SameSender(rs', q)
      BY <1>4, <2>3, InterruptFacts
    <3> QED BY <1>5, <1>6, <3>1
  <2>4. CASE /\ rs' = Transmitted(Received(q))
             /\ ~ (q.fifo /\ Len(q.ring) = RingSize - 1)
    <3> DEFINE p == Received(q)
    <3>1. /\ QueueInv(q, g, arrived) /\ ReadyInv(q, g) /\ Len(q.ring) < RingSize
          /\ Buffered(q)
      BY <1>5 DEF RecordInv
    <3>2. /\ p \in Serial /\ SameSender(p, q) /\ QueueInv(p, g, arrived)
          /\ ReadyInv(p, g) /\ Len(p.ring) < RingSize
      BY <1>4, <2>4, <3>1, ReceivedFacts
    <3> HIDE DEF p
    <3>3. Keeps(p, q) BY <1>4, <3>1, <3>2, KeepsSame
    <3>4. RecordInv(p, got, arrived) BY <1>5, <3>2, <3>3, RecordKept
    <3>5. Keeps(p, rs) BY <1>3, <1>4, <1>5, <3>2, <3>3, KeepsTransitive
    <3> QED BY <1>7, <2>4, <3>4, <3>5 DEF p
  <2> QED BY <1>2, <2>1, <2>2, <2>3, <2>4
<1>9. enabled' \subseteq Enables /\ handler' \in {"none", "cause", "serve", "wrote"}
  BY <1>1 DEF IInv, TypeOK
<1> QED BY <1>1, <1>8, <1>9, QuietStep

\* rs232c_i30, after the retry.
LEMMA ReadDataStep ==
  ASSUME IInv, ReadData, setup' = setup
  PROVE  Quiet
<1> DEFINE r == Retry(rs)
           H == ToSet(got) \cup {rs.data}
<1>1. /\ got' = Append(got, rs.data) /\ "RxRDY" \in rs.result
      /\ UNCHANGED <<enabled, handler, arrived, sent, wasReset>>
  BY DEF ReadData
<1>2. rs' = [(IF rs.fifo THEN ReadFifo(r) ELSE ReadByte(r)) EXCEPT !.count = 0]
  BY DEF ReadData
<1>3. /\ rs \in Serial /\ r \in Serial /\ RecordInv(r, got, arrived) /\ Keeps(r, rs)
      /\ SameReceiver(r, rs)
  BY RetryKept DEF IInv
<1>4. r.fifo = rs.fifo /\ r.data = rs.data /\ "RxRDY" \in r.result
  BY <1>1, <1>3 DEF SameReceiver
<1> HIDE DEF r
<1>5. /\ QueueInv(r, ToSet(got), arrived) /\ ReadyInv(r, ToSet(got))
      /\ Len(r.ring) < RingSize /\ Buffered(r)
  BY <1>3 DEF RecordInv
<1>6. /\ rs' \in Serial /\ SameSender(rs', r) /\ QueueInv(rs', H, arrived)
      /\ ReadyInv(rs', H) /\ Len(rs'.ring) < RingSize
      /\ r.data \in 1 .. arrived /\ \A x \in ToSet(got) : x < r.data
  <2> DEFINE p == [(IF r.fifo THEN ReadFifo(r) ELSE ReadByte(r)) EXCEPT !.count = 0]
  <2>1. rs' = p /\ H = ToSet(got) \cup {r.data} BY <1>2, <1>4
  <2> HIDE DEF H
  <2>2. /\ p \in Serial /\ SameSender(p, r) /\ QueueInv(p, H, arrived)
        /\ ReadyInv(p, H) /\ Len(p.ring) < RingSize
        /\ r.data \in 1 .. arrived /\ \A x \in ToSet(got) : x < r.data
    BY <1>3, <1>4, <1>5, <2>1, ReadFacts
  <2> QED BY <2>1, <2>2
<1>7. /\ got' \in Seq(0 .. LastByte) /\ Increasing(got') /\ ToSet(got') = H
      /\ 0 \notin H
  <2>1. rs.data \in 0 .. LastByte /\ rs.data # 0 BY <1>3, <1>4, <1>6, Fields
  <2>2. \A x \in ToSet(got) : x < rs.data BY <1>4, <1>6
  <2>3. 0 .. LastByte \in SUBSET Int /\ got \in Seq(0 .. LastByte)
    BY DEF IInv, TypeOK
  <2>4. Increasing(got) /\ 0 \notin ToSet(got) BY DEF IInv
  <2> DEFINE T == 0 .. LastByte
  <2>5. T \in SUBSET Int /\ got \in Seq(T) /\ rs.data \in T BY <2>1, <2>3
  <2> HIDE DEF T
  <2>6. /\ Append(got, rs.data) \in Seq(T) /\ Increasing(Append(got, rs.data))
        /\ ToSet(Append(got, rs.data)) = ToSet(got) \cup {rs.data}
    BY <2>2, <2>4, <2>5, AppendToIncreasing, ZenonT(60)
  <2> QED BY <1>1, <2>1, <2>4, <2>6 DEF T
<1> HIDE DEF H
<1>8. Keeps(rs', r) BY <1>3, <1>5, <1>6, KeepsSame
<1>9. Keeps(rs', rs) BY <1>3, <1>6, <1>8, KeepsTransitive
<1>10. RecordInv(rs', got', arrived') BY <1>1, <1>3, <1>6, <1>7, <1>8, RecordKept
<1>11. TypeOK' BY <1>1, <1>7, <1>10 DEF IInv, TypeOK, RecordInv
<1> QED BY <1>1, <1>7, <1>9, <1>10, <1>11 DEF IInv, Quiet

\* rs232c_i32.
LEMMA ReadStatusStep ==
  ASSUME IInv, ReadStatus, setup' = setup
  PROVE  Quiet
<1>1. rs' = Retry(rs) /\ UNCHANGED <<enabled, handler, history>> BY DEF ReadStatus
<1>2. RecordInv(rs', got, arrived) /\ Keeps(rs', rs) BY <1>1, RetryKept DEF IInv
<1>3. enabled' \subseteq Enables /\ handler' \in {"none", "cause", "serve", "wrote"}
  BY <1>1 DEF IInv, TypeOK
<1> QED BY <1>1, <1>2, <1>3, QuietStep

\* What the setup bounds.
LEMMA SetupFacts ==
  ASSUME TypeOK
  PROVE  /\ setup.receives \in 0 .. LastByte /\ setup.sends \in 0 .. LastByte
         /\ setup.boot \in SUBSET {"tx", "rx"}
         /\ arrived \in 0 .. LastByte /\ sent \in 0 .. LastByte
<1>1. setup \in Setup BY Rs232cAssumption DEF TypeOK
<1>2. /\ setup.receives \in 0 .. LastByte /\ setup.sends \in 0 .. LastByte
      /\ setup.boot \in {{}, {"tx", "rx"}}
  BY <1>1 DEF Setup
<1> QED BY <1>2 DEF TypeOK

\* A byte comes in.
LEMMA ArriveStep ==
  ASSUME IInv, Arrive, setup' = setup
  PROVE  Quiet
<1> DEFINE n == arrived + 1
           box == Append(rs.inbox, n)
           G == ToSet(got)
<1>1. /\ arrived' = n /\ rs' = [rs EXCEPT !.inbox = box]
      /\ arrived < setup.receives
      /\ UNCHANGED <<enabled, handler, sent, got, wasReset>>
  BY DEF Arrive, IInv, TypeOK, Serial
<1>2. arrived \in Nat /\ n \in Bytes
  <2>1. TypeOK BY DEF IInv
  <2>2. setup.receives \in 0 .. LastByte /\ arrived \in 0 .. LastByte
    BY <2>1, SetupFacts
  <2> QED BY <1>1, <2>2, Sizes DEF Bytes
<1>3. /\ rs \in Serial /\ Buffered(rs) /\ RecordInv(rs, got, arrived)
      /\ QueueInv(rs, G, arrived) /\ ReadyInv(rs, G) /\ Len(rs.ring) < RingSize
  BY DEF IInv, RecordInv
<1>4. rs.inbox \in Seq(Bytes) /\ rs.ring \in Seq(Bytes) BY <1>3, Fields
<1>5. \A x \in ToSet(rs.ring) \cup ToSet(rs.inbox) \cup G \cup rs.dropped : x < n
  <2>1. \A x \in ToSet(rs.ring) \cup ToSet(rs.inbox) \cup G \cup rs.dropped :
          x \in 1 .. arrived
    BY <1>3 DEF QueueInv
  <2> QED BY <1>2, <2>1
<1>6. box \in Seq(Bytes) /\ Increasing(box) /\ ToSet(box) = ToSet(rs.inbox) \cup {n}
  <2>1. Bytes \in SUBSET Int BY DEF Bytes
  <2>2. Increasing(rs.inbox) BY <1>3 DEF QueueInv
  <2>3. \A x \in ToSet(rs.inbox) : x < n BY <1>5
  <2> HIDE DEF n
  <2> QED BY <1>2, <1>4, <2>1, <2>2, <2>3, AppendToIncreasing
<1>7. 1 .. n = 1 .. arrived \cup {n} BY <1>2
<1> HIDE DEF n, box
<1>8. rs' \in Serial BY <1>1, <1>3, <1>6 DEF Serial
<1>9. /\ SameSender(rs', rs) /\ rs'.inbox = box /\ rs'.ring = rs.ring
      /\ rs'.data = rs.data /\ rs'.dropped = rs.dropped /\ rs'.result = rs.result
      /\ rs'.fifo = rs.fifo
  BY <1>1, <1>3 DEF Serial, SameSender
<1>10. QueueInv(rs', G, n) BY <1>3, <1>5, <1>6, <1>7, <1>9 DEF QueueInv
<1>11. ReadyInv(rs', G) BY <1>3, <1>5, <1>6, <1>9 DEF ReadyInv
<1>12. Keeps(rs', rs) BY <1>3, <1>9, KeepsSame
<1> HIDE DEF G
<1>13. RecordInv(rs', got', arrived')
  <2>1. got' = got /\ arrived' = n BY <1>1
  <2>2. Len(rs'.ring) < RingSize BY <1>3, <1>9
  <2>3. RecordInv(rs', got, n) BY <1>3, <1>8, <1>10, <1>11, <1>12, <2>2, RecordKept DEF G
  <2> QED BY <2>1, <2>3
<1>14. arrived' \in 0 .. LastByte BY <1>1, <1>2, Sizes DEF Bytes
<1>15. TypeOK' BY <1>1, <1>13, <1>14 DEF IInv, TypeOK, RecordInv
<1> QED BY <1>1, <1>12, <1>13, <1>15 DEF IInv, Quiet

\* A step that changes flags and interrupts only.
LEMMA FlagStep ==
  ASSUME IInv, setup' = setup, UNCHANGED history,
         enabled' \subseteq Enables,
         handler' \in {"none", "cause", "serve", "wrote"},
         rs' \in Serial, SameSender(rs', rs), SameReceiver(rs', rs)
  PROVE  Quiet
<1>1. RecordInv(rs', got, arrived) /\ Keeps(rs', rs) BY SameKept DEF IInv
<1> QED BY <1>1, QuietStep

\* The port's room, the interrupts and the handler.
LEMMA LineStep ==
  ASSUME IInv, LineMoves, setup' = setup
  PROVE  Quiet
<1>1. /\ rs.line < LineRoom /\ rs' = [rs EXCEPT !.line = rs.line + 1]
      /\ UNCHANGED <<enabled, handler, history>>
  BY DEF LineMoves, IInv, TypeOK, Serial
<1>2. rs \in Serial /\ RecordInv(rs, got, arrived) /\ Buffered(rs)
  BY DEF IInv, RecordInv
<1>3. rs.line \in 0 .. LineRoom /\ LineRoom \in Nat BY <1>2, Fields, Sizes
<1> DEFINE l == rs.line + 1
<1>4. l \in 0 .. LineRoom BY <1>1, <1>3
<1>5. rs' = [rs EXCEPT !.line = l] BY <1>1
<1> HIDE DEF l
<1>6. rs' \in Serial BY <1>2, <1>4, <1>5 DEF Serial
<1>7. /\ SameReceiver(rs', rs) /\ rs'.wbuf = rs.wbuf /\ rs'.held = rs.held
      /\ rs'.out = rs.out /\ rs'.result = rs.result /\ rs'.fifo = rs.fifo
  BY <1>2, <1>5 DEF Serial, SameReceiver
<1>8. Keeps(rs', rs)
  <2>1. Len(rs.wbuf) \in Nat BY <1>2, Fields
  <2>2. Len(rs'.wbuf) <= Len(rs.wbuf) BY <1>7, <2>1
  <2> QED BY <1>2, <1>7, <2>2
      DEF Keeps, Buffered, Clean, SenderInv, Stream, Pending
<1>9. RecordInv(rs', got, arrived)
  <2>1. QueueInv(rs', ToSet(got), arrived) /\ ReadyInv(rs', ToSet(got))
        /\ rs'.ring = rs.ring
    BY <1>2, <1>7, SameReceiverSame DEF RecordInv
  <2>2. Len(rs'.ring) < RingSize BY <1>2, <2>1 DEF RecordInv
  <2> QED BY <1>2, <1>6, <1>8, <2>1, <2>2, RecordKept
<1>10. enabled' \subseteq Enables /\ handler' \in {"none", "cause", "serve", "wrote"}
  BY <1>1 DEF IInv, TypeOK
<1> QED BY <1>1, <1>8, <1>9, <1>10, QuietStep

LEMMA HandlerSteps ==
  ASSUME IInv, Deliver \/ HandlerReturns \/ ReadCause, setup' = setup
  PROVE  Quiet
<1>1. rs \in Serial BY DEF IInv, TypeOK
<1>2. /\ enabled' = enabled /\ UNCHANGED history
      /\ handler' \in {"none", "cause", "serve", "wrote"}
  BY DEF Deliver, HandlerReturns, ReadCause, history, IInv, TypeOK
<1>3. rs' \in {rs, [rs EXCEPT !.irq = FALSE], [rs EXCEPT !.irqflag = "none", !.irq = FALSE]}
  BY DEF Deliver, HandlerReturns, ReadCause
<1>4. rs' \in Serial /\ SameSender(rs', rs) /\ SameReceiver(rs', rs)
  <2>1. CASE rs' = rs BY <1>1, <2>1 DEF SameSender, SameReceiver
  <2>2. CASE rs' = [rs EXCEPT !.irq = FALSE]
    BY <1>1, <2>2 DEF Serial, SameSender, SameReceiver
  <2>3. CASE rs' = [rs EXCEPT !.irqflag = "none", !.irq = FALSE]
    BY <1>1, <2>3 DEF Serial, SameSender, SameReceiver
  <2> QED BY <1>3, <2>1, <2>2, <2>3
<1>5. enabled' \subseteq Enables BY <1>2 DEF IInv, TypeOK
<1> QED BY <1>2, <1>4, <1>5, FlagStep

\* Ports 35h and 37h.
LEMMA PortSteps ==
  ASSUME IInv, setup' = setup,
         \/ \E e \in setup.enables : OutPort(e)
         \/ \E b \in setup.bits, on \in BOOLEAN : OutBit(b, on)
  PROVE  Quiet
<1> DEFINE q == [rs EXCEPT !.send = TRUE]
<1>1. rs \in Serial /\ enabled \subseteq Enables /\ setup \in Setup
  BY Rs232cAssumption DEF IInv, TypeOK
<1>2. setup.enables \in SUBSET SUBSET Enables /\ setup.bits \in SUBSET Enables
  BY <1>1 DEF Setup
<1>3. q \in Serial /\ SameSender(q, rs) /\ SameReceiver(q, rs) BY <1>1, FlagFacts
<1>4. rs' \in {rs, q, Raise(q)} /\ enabled' \subseteq Enables
      /\ UNCHANGED <<handler, history>>
  <2>1. CASE \E e \in setup.enables : OutPort(e)
    BY <1>2, <2>1 DEF OutPort, Enable
  <2>2. CASE \E b \in setup.bits, on \in BOOLEAN : OutBit(b, on)
    <3>1. PICK b \in setup.bits, on \in BOOLEAN : OutBit(b, on) BY <2>2
    <3>2. enabled' = (IF on THEN enabled \cup {b} ELSE enabled \ {b})
          /\ UNCHANGED <<handler, history>>
      BY <3>1 DEF OutBit, Enable
    <3>3. enabled' \subseteq Enables BY <1>1, <1>2, <3>2
    <3>4. rs' \in {rs, q, Raise(q)} BY <3>1 DEF OutBit
    <3> QED BY <3>2, <3>3, <3>4
  <2> QED BY <2>1, <2>2
<1> HIDE DEF q
<1>5. Raise(q) \in Serial /\ SameSender(Raise(q), q) /\ SameReceiver(Raise(q), q)
  BY <1>3, InterruptFacts
<1>6. rs' \in Serial /\ SameSender(rs', rs) /\ SameReceiver(rs', rs)
  <2>1. CASE rs' = rs BY <1>1, <2>1 DEF SameSender, SameReceiver
  <2>2. CASE rs' = q BY <1>3, <2>2
  <2>3. CASE rs' = Raise(q) BY <1>3, <1>5, <2>3 DEF SameSender, SameReceiver
  <2> QED BY <1>4, <2>1, <2>2, <2>3
<1>7. handler' \in {"none", "cause", "serve", "wrote"} BY <1>4 DEF IInv, TypeOK
<1> QED BY <1>4, <1>6, <1>7, FlagStep

\* rs232c_o138: nothing waits, so what is sent is the same in either mode.
LEMMA OutFifoStep ==
  ASSUME IInv, setup' = setup, NEW on \in BOOLEAN, OutFifo(on)
  PROVE  Quiet
<1>1. /\ rs' = [rs EXCEPT !.fifo = on] /\ rs.ring = <<>>
      /\ "TxEMP" \in rs.result /\ "RxRDY" \notin rs.result
      /\ UNCHANGED <<enabled, handler, history>>
  BY DEF OutFifo, Idle
<1>2. /\ rs \in Serial /\ RecordInv(rs, got, arrived)
      /\ QueueInv(rs, ToSet(got), arrived) /\ Len(rs.ring) < RingSize
      /\ ~Inverted => SenderInv(rs)
  BY DEF IInv, RecordInv
<1>3. rs' \in Serial BY <1>1, <1>2 DEF Serial
<1>4. /\ rs'.ring = rs.ring /\ rs'.inbox = rs.inbox /\ rs'.dropped = rs.dropped
      /\ rs'.result = rs.result /\ rs'.wbuf = rs.wbuf /\ rs'.held = rs.held
      /\ rs'.out = rs.out
  BY <1>1, <1>2 DEF Serial
<1>5. Keeps(rs', rs)
  <2>1. Len(rs.wbuf) \in Nat BY <1>2, Fields
  <2>2. Len(rs'.wbuf) <= Len(rs.wbuf) BY <1>4, <2>1
  <2>3. Buffered(rs') /\ (Clean(rs) => Clean(rs')) BY <1>1, <1>4 DEF Buffered, Clean
  <2>4. SenderInv(rs) => SenderInv(rs') BY <1>1, <1>4 DEF SenderInv
  <2>5. SenderInv(rs) => Stream(rs') = Stream(rs)
    BY <1>1, <1>4 DEF SenderInv, Stream, Pending
  <2> QED BY <2>2, <2>3, <2>4, <2>5 DEF Keeps
<1>6. QueueInv(rs', ToSet(got), arrived) BY <1>2, <1>4 DEF QueueInv
<1>7. ReadyInv(rs', ToSet(got)) BY <1>1, <1>4 DEF ReadyInv
<1>8. RecordInv(rs', got, arrived)
  BY <1>2, <1>3, <1>4, <1>5, <1>6, <1>7, RecordKept
<1>9. enabled' \subseteq Enables /\ handler' \in {"none", "cause", "serve", "wrote"}
  BY <1>1 DEF IInv, TypeOK
<1> QED BY <1>1, <1>5, <1>8, <1>9, QuietStep

\* What waits at the port is purged.
LEMMA PurgedQueue ==
  ASSUME NEW q \in Serial, NEW p, NEW G, NEW n, QueueInv(q, G, n),
         p.ring = q.ring, p.inbox = <<>>, p.dropped = q.dropped \cup ToSet(q.inbox)
  PROVE  QueueInv(p, G, n)
<1>1. ToSet(p.inbox) = {} /\ Increasing(p.inbox) BY DEF ToSet, Increasing
<1> QED BY <1>1 DEF QueueInv

\* rs232c_o32.
LEMMA OutCommandStep ==
  ASSUME IInv, setup' = setup, NEW dat \in setup.commands, OutCommand(dat)
  PROVE  Quiet
<1> DEFINE all == rs.dropped \cup ToSet(rs.inbox)
           purged == [rs EXCEPT !.cmd = dat, !.inbox = <<>>, !.dropped = all]
           plain == [rs EXCEPT !.cmd = dat]
           G == ToSet(got)
<1>1. /\ rs \in Serial /\ RecordInv(rs, got, arrived) /\ Buffered(rs)
      /\ QueueInv(rs, G, arrived) /\ ReadyInv(rs, G)
      /\ Len(rs.ring) < RingSize
  BY DEF IInv, RecordInv
<1>2. rs' \in {purged, plain} /\ UNCHANGED <<enabled, handler, history>>
  BY <1>1 DEF OutCommand, Serial
<1>3. dat \in SUBSET {"tx", "rx"}
  <2>1. setup \in Setup BY Rs232cAssumption DEF IInv, TypeOK
  <2>2. setup.commands \in SUBSET SUBSET {"tx", "rx"} BY <2>1 DEF Setup
  <2> QED BY <2>2
<1>4. rs.inbox \in Seq(Bytes) /\ all \in SUBSET Bytes
  <2>1. rs.inbox \in Seq(Bytes) /\ rs.dropped \in SUBSET Bytes BY <1>1, Fields
  <2>2. \A x \in ToSet(rs.inbox) : x \in Bytes BY <2>1, BytesAreNumbers
  <2> QED BY <2>1, <2>2
<1>5. all = rs.dropped \cup ToSet(rs.inbox) OBVIOUS
<1> HIDE DEF all, G
<1>6. \A p \in {purged, plain} :
        /\ p \in Serial /\ p.ring = rs.ring /\ p.data = rs.data /\ p.fifo = rs.fifo
        /\ p.result = rs.result /\ p.wbuf = rs.wbuf /\ p.held = rs.held
        /\ p.out = rs.out
        /\ \/ p.inbox = <<>> /\ p.dropped = all
           \/ p.inbox = rs.inbox /\ p.dropped = rs.dropped
  <2> DEFINE e == <<>>
  <2>1. e \in Seq(Bytes) OBVIOUS
  <2>2. purged = [rs EXCEPT !.cmd = dat, !.inbox = e, !.dropped = all] OBVIOUS
  <2> HIDE DEF e
  <2>3. purged \in Serial BY ZenonT(60), <1>1, <1>3, <1>4, <2>1, <2>2 DEF Serial
  <2>4. /\ purged.ring = rs.ring /\ purged.data = rs.data /\ purged.fifo = rs.fifo
        /\ purged.result = rs.result /\ purged.wbuf = rs.wbuf
        /\ purged.held = rs.held /\ purged.out = rs.out
        /\ purged.inbox = e /\ purged.dropped = all
    BY <1>1, <2>2 DEF Serial
  <2>5. plain \in Serial BY <1>1, <1>3 DEF Serial
  <2>6. /\ plain.ring = rs.ring /\ plain.data = rs.data /\ plain.fifo = rs.fifo
        /\ plain.result = rs.result /\ plain.wbuf = rs.wbuf
        /\ plain.held = rs.held /\ plain.out = rs.out
        /\ plain.inbox = rs.inbox /\ plain.dropped = rs.dropped
    BY <1>1 DEF Serial
  <2> HIDE DEF purged, plain
  <2> QED BY <2>3, <2>4, <2>5, <2>6 DEF e
<1> HIDE DEF purged, plain
<1>7. Keeps(rs', rs)
  <2>1. Len(rs.wbuf) \in Nat BY <1>1, Fields
  <2>2. Len(rs'.wbuf) <= Len(rs.wbuf) BY <1>2, <1>6, <2>1
  <2>3. /\ rs'.fifo = rs.fifo /\ rs'.result = rs.result /\ rs'.wbuf = rs.wbuf
        /\ rs'.held = rs.held /\ rs'.out = rs.out
    BY <1>2, <1>6
  <2> QED BY <1>1, <2>2, <2>3
      DEF Keeps, Buffered, Clean, SenderInv, Stream, Pending
<1>8. QueueInv(rs', G, arrived) /\ ReadyInv(rs', G)
  <2>1. CASE rs'.inbox = <<>> /\ rs'.dropped = all
    <3>1. rs'.ring = rs.ring /\ rs'.data = rs.data /\ rs'.fifo = rs.fifo
          /\ rs'.result = rs.result
      BY <1>2, <1>6
    <3>2. QueueInv(rs', G, arrived) BY <1>1, <1>5, <2>1, <3>1, PurgedQueue
    <3>3. ToSet(rs'.inbox) = {} BY <2>1 DEF ToSet
    <3>4. ReadyInv(rs', G) BY <1>1, <1>5, <2>1, <3>1, <3>3 DEF ReadyInv
    <3> QED BY <3>2, <3>4
  <2>2. CASE rs'.inbox = rs.inbox /\ rs'.dropped = rs.dropped
    <3>1. rs'.ring = rs.ring /\ rs'.data = rs.data /\ rs'.fifo = rs.fifo
          /\ rs'.result = rs.result
      BY <1>2, <1>6
    <3> QED BY <1>1, <2>2, <3>1 DEF QueueInv, ReadyInv
  <2> QED BY <1>2, <1>6, <2>1, <2>2
<1>9. RecordInv(rs', got, arrived)
  <2>1. rs' \in Serial /\ Len(rs'.ring) < RingSize BY <1>1, <1>2, <1>6
  <2> QED BY <1>1, <1>7, <1>8, <2>1, RecordKept DEF G
<1>10. enabled' \subseteq Enables /\ handler' \in {"none", "cause", "serve", "wrote"}
  BY <1>2 DEF IInv, TypeOK
<1> QED BY <1>2, <1>7, <1>9, <1>10, QuietStep

\* The bytes are numbered as they are sent.
LEMMA OneMore ==
  ASSUME NEW n \in Nat
  PROVE  [i \in 1 .. n |-> i] \o <<n + 1>> = [i \in 1 .. n + 1 |-> i]
<1> DEFINE s == [i \in 1 .. n |-> i]
           e == <<n + 1>>
           t == [i \in 1 .. n + 1 |-> i]
<1>1. s \in Seq(Nat) /\ Len(s) = n /\ \A i \in 1 .. n : s[i] = i OBVIOUS
<1>2. e \in Seq(Nat) /\ Len(e) = 1 /\ e[1] = n + 1 OBVIOUS
<1>3. t \in Seq(Nat) /\ Len(t) = n + 1 /\ \A i \in 1 .. n + 1 : t[i] = i OBVIOUS
<1> HIDE DEF s, e, t
<1>4. /\ s \o e \in Seq(Nat) /\ Len(s \o e) = n + 1
      /\ \A i \in 1 .. n + 1 : (s \o e)[i] = IF i <= n THEN s[i] ELSE e[i - n]
  <2>1. /\ s \o e \in Seq(Nat) /\ Len(s \o e) = Len(s) + Len(e)
        /\ \A i \in 1 .. Len(s) + Len(e) :
             (s \o e)[i] = IF i <= Len(s) THEN s[i] ELSE e[i - Len(s)]
    BY <1>1, <1>2, ConcatProperties
  <2> QED BY <1>1, <1>2, <2>1
<1>5. \A i \in 1 .. n + 1 : (s \o e)[i] = t[i]
  <2> TAKE i \in 1 .. n + 1
  <2>1. CASE i <= n BY <1>1, <1>3, <1>4, <2>1
  <2>2. CASE ~ (i <= n)
    <3>1. i = n + 1 /\ i - n = 1 BY <2>2
    <3> QED BY <1>2, <1>3, <1>4, <2>2, <3>1
  <2> QED BY <2>1, <2>2
<1>6. s \o e = t BY <1>3, <1>4, <1>5, SeqEqual
<1> QED BY <1>6 DEF s, e, t

\* rs232c_o30, after the retry.
LEMMA WriteDataStep ==
  ASSUME IInv, WriteData, setup' = setup
  PROVE  IInv' /\ (~Inverted /\ SendInv => SendInv')
<1> DEFINE r == Retry(rs)
           b == sent + 1
<1>1. /\ sent' = b /\ "TxRDY" \in rs.result /\ sent < setup.sends
      /\ rs' = IF rs.fifo THEN WriteFifo(r, b) ELSE WriteByte(r, b)
      /\ handler' = IF handler = "serve" THEN "wrote" ELSE handler
      /\ UNCHANGED <<enabled, arrived, got, wasReset>>
  BY DEF WriteData, CanWrite
<1>2. sent \in Nat /\ b \in Bytes
  <2>1. TypeOK BY DEF IInv
  <2>2. setup.sends \in 0 .. LastByte /\ sent \in 0 .. LastByte BY <2>1, SetupFacts
  <2> QED BY <1>1, <2>2, Sizes DEF Bytes
<1>3. /\ rs \in Serial /\ r \in Serial /\ RecordInv(r, got, arrived) /\ Keeps(r, rs)
      /\ SameReceiver(r, rs)
  BY RetryKept DEF IInv
<1>4. r.fifo = rs.fifo /\ r.fifo \in BOOLEAN BY <1>3, Fields DEF SameReceiver
<1>5. ~Inverted => SenderInv(rs) BY DEF IInv, RecordInv
<1>6. Len(r.wbuf) < FifoSize /\ (~Inverted => SenderInv(r)) BY <1>3 DEF RecordInv
<1>7. ~r.fifo => (~Inverted => "TxEMP" \in r.result)
  <2> SUFFICES ASSUME ~r.fifo, ~Inverted PROVE "TxEMP" \in r.result
    OBVIOUS
  <2>1. "TxEMP" \in rs.result BY <1>1, <1>4, <1>5 DEF SenderInv
  <2>2. r = rs BY <2>1 DEF Retry
  <2> QED BY <2>1, <2>2
<1> HIDE DEF r, b
<1>8. Accepts(rs', r, b)
  <2>1. CASE r.fifo
    <3>1. rs' = WriteFifo(r, b) BY <1>1, <1>4, <2>1
    <3> QED BY <1>2, <1>3, <1>6, <2>1, <3>1, WriteFifoFacts
  <2>2. CASE ~r.fifo
    <3>1. rs' = WriteByte(r, b) BY <1>1, <1>4, <2>2
    <3>2. ~Inverted => "TxEMP" \in r.result BY <1>7, <2>2
    <3> QED BY <1>2, <1>3, <1>6, <2>2, <3>1, <3>2, WriteByteFacts
  <2> QED BY <2>1, <2>2
<1>9. rs' \in Serial /\ SameReceiver(rs', r) /\ Buffered(rs') /\ Len(rs'.wbuf) < FifoSize
  BY <1>8 DEF Accepts
<1>10. ~Inverted => SenderInv(rs') BY <1>6, <1>8 DEF Accepts
<1>11. RecordInv(rs', got, arrived)
  <2>1. QueueInv(rs', ToSet(got), arrived) /\ ReadyInv(rs', ToSet(got))
        /\ rs'.ring = r.ring
    BY <1>3, <1>9, SameReceiverSame DEF RecordInv
  <2>2. Len(rs'.ring) < RingSize BY <1>3, <2>1 DEF RecordInv
  <2> QED BY <1>9, <1>10, <2>1, <2>2 DEF RecordInv
<1>12. IInv'
  <2>1. sent' \in 0 .. LastByte BY <1>1, <1>2 DEF Bytes
  <2>2. TypeOK' BY <1>1, <1>11, <2>1 DEF IInv, TypeOK, RecordInv
  <2>3. got' = got /\ arrived' = arrived BY <1>1
  <2> QED BY <1>11, <2>2, <2>3 DEF IInv
<1>13. ASSUME ~Inverted, SendInv PROVE SendInv'
  <2>1. SenderInv(rs) /\ SenderInv(r) /\ Stream(r) = Stream(rs)
    BY <1>3, <1>5, <1>13 DEF Keeps
  <2>2. /\ IsInjective(Stream(r)) /\ ToSet(Stream(r)) \subseteq 1 .. sent
        /\ ~wasReset => Clean(rs) /\ Stream(r) = [i \in 1 .. sent |-> i]
    BY <1>13, <2>1 DEF SendInv
  <2>3. b = sent + 1 BY DEF b
  <2>4. b \notin ToSet(Stream(r)) BY <1>2, <2>2, <2>3
  <2>5. /\ IsInjective(Stream(rs'))
        /\ ToSet(Stream(rs')) \subseteq ToSet(Stream(r)) \cup {b}
    BY <1>8, <1>13, <2>1, <2>2, <2>4 DEF Accepts
  <2>6. ToSet(Stream(rs')) \subseteq 1 .. b BY <1>2, <2>2, <2>3, <2>5
  <2>7. ASSUME ~wasReset
        PROVE  Clean(rs') /\ Stream(rs') = [i \in 1 .. b |-> i]
    <3>1. Clean(rs) /\ Stream(r) = [i \in 1 .. sent |-> i] BY <2>2, <2>7
    <3>2. Clean(r) BY <1>3, <3>1 DEF Keeps
    <3>3. Len(r.wbuf) < FifoSize - 1
      <4>1. /\ Len(r.wbuf) \in Nat /\ Len(rs.wbuf) \in Nat
            /\ Len(r.wbuf) <= Len(rs.wbuf)
        BY <1>3, Fields DEF Keeps
      <4>2. FifoSize \in Nat \ {0, 1} /\ FifoHigh \in 0 .. FifoSize - 2
        BY Rs232cAssumption
      <4>3. CASE ~rs.fifo \/ "TxEMP" \in rs.result
        <5>1. rs.wbuf = <<>> BY <3>1, <4>3 DEF Clean
        <5> QED BY <4>1, <4>2, <5>1
      <4>4. CASE rs.fifo /\ "TxEMP" \notin rs.result
        <5>1. Len(rs.wbuf) <= FifoHigh BY <1>1, <2>1, <4>4 DEF SenderInv
        <5> QED BY <4>1, <4>2, <5>1
      <4> QED BY <4>3, <4>4
    <3>4. Clean(rs') /\ Stream(rs') = Stream(r) \o <<b>>
      BY <1>8, <1>13, <2>1, <3>2, <3>3 DEF Accepts
    <3>5. [i \in 1 .. sent |-> i] \o <<sent + 1>> = [i \in 1 .. sent + 1 |-> i]
      BY <1>2, OneMore
    <3> QED BY <2>3, <3>1, <3>4, <3>5
  <2>8. sent' = b /\ wasReset' = wasReset BY <1>1
  <2> QED BY <2>5, <2>6, <2>7, <2>8 DEF SendInv
<1> QED BY <1>12, <1>13

\* What comes behind one element.
LEMMA TailBehindOne ==
  ASSUME NEW S, NEW a \in S, NEW v \in Seq(S)
  PROVE  /\ <<a>> \o v \in Seq(S) /\ <<a>> \o v # <<>>
         /\ Tail(<<a>> \o v) = v
<1> DEFINE one == <<a>>
           w == one \o v
           t == Tail(w)
<1>1. one \in Seq(S) /\ Len(one) = 1 /\ Len(v) \in Nat OBVIOUS
<1> HIDE DEF one
<1>2. /\ w \in Seq(S) /\ Len(w) = Len(one) + Len(v)
      /\ \A i \in 1 .. Len(one) + Len(v) :
           w[i] = IF i <= Len(one) THEN one[i] ELSE v[i - Len(one)]
  BY <1>1, ConcatProperties
<1>3. w # <<>> BY <1>1, <1>2
<1> HIDE DEF w
<1>4. /\ t \in Seq(S) /\ Len(t) = Len(w) - 1
      /\ \A i \in 1 .. Len(t) : t[i] = w[i + 1]
  BY <1>2, <1>3, HeadTailProperties
<1> HIDE DEF t
<1>5. Len(t) = Len(v) BY <1>1, <1>2, <1>4
<1>6. \A i \in 1 .. Len(v) : t[i] = v[i]
  <2> TAKE i \in 1 .. Len(v)
  <2>1. /\ i + 1 \in 1 .. Len(one) + Len(v) /\ ~ (i + 1 <= Len(one))
        /\ i + 1 - Len(one) = i
    BY <1>1
  <2> QED BY <1>2, <1>4, <1>5, <2>1
<1>7. t = v BY <1>4, <1>5, <1>6, SeqEqual
<1> QED BY <1>2, <1>3, <1>7 DEF t, w, one

\* The reset of the machine forgets the byte that waits, and nothing else of what is
\* sent; what waits at the port is purged.
LEMMA ResetStep ==
  ASSUME IInv, MachineReset, setup' = setup
  PROVE  IInv' /\ (~Inverted /\ SendInv => SendInv')
<1> DEFINE all == rs.dropped \cup ToSet(rs.inbox)
           e == <<>>
           both == {"TxRDY", "TxEMP"}
           boot == setup.boot
           G == ToSet(got)
<1>1. /\ rs' = [rs EXCEPT !.cmd = boot, !.result = both, !.data = 0, !.send = TRUE,
                          !.fifo = FALSE, !.irqflag = "none", !.irq = FALSE,
                          !.held = 0, !.line = LineRoom, !.inbox = e, !.dropped = all]
      /\ enabled' = {"rxready"} /\ handler' = "none" /\ wasReset' = TRUE
      /\ UNCHANGED <<arrived, sent, got>>
  BY DEF MachineReset, IInv, TypeOK, Serial
<1>2. /\ rs \in Serial /\ RecordInv(rs, got, arrived) /\ QueueInv(rs, G, arrived)
      /\ Len(rs.ring) < RingSize /\ Len(rs.wbuf) < FifoSize
      /\ ~Inverted => SenderInv(rs)
  BY DEF IInv, RecordInv
<1>3. rs.inbox \in Seq(Bytes) /\ all \in SUBSET Bytes
  <2>1. rs.inbox \in Seq(Bytes) /\ rs.dropped \in SUBSET Bytes BY <1>2, Fields
  <2>2. \A x \in ToSet(rs.inbox) : x \in Bytes BY <2>1, BytesAreNumbers
  <2> QED BY <2>1, <2>2
<1>4. /\ boot \in SUBSET {"tx", "rx"} /\ e \in Seq(Bytes)
      /\ both \in SUBSET {"TxRDY", "RxRDY", "TxEMP"}
      /\ 0 \in 0 .. LastByte /\ LineRoom \in 0 .. LineRoom
  <2>1. TypeOK BY DEF IInv
  <2> QED BY <2>1, SetupFacts, Sizes
<1>5. both = {"TxRDY", "TxEMP"} /\ all = rs.dropped \cup ToSet(rs.inbox) /\ e = <<>>
  OBVIOUS
<1> HIDE DEF all, e, both, boot, G
<1> DEFINE p == [rs EXCEPT !.cmd = boot, !.result = both, !.data = 0, !.send = TRUE,
                           !.fifo = FALSE, !.irqflag = "none"]
           q == [p EXCEPT !.irq = FALSE, !.held = 0, !.line = LineRoom, !.inbox = e,
                          !.dropped = all]
<1>6. rs' = q /\ p \in Serial /\ q \in Serial
  <2>1. rs' = q BY <1>1
  <2>2. p \in Serial BY <1>2, <1>4 DEF Serial
  <2> HIDE DEF p
  <2>3. q \in Serial BY <1>3, <1>4, <2>2 DEF Serial
  <2> QED BY <2>1, <2>2, <2>3
<1>7. /\ rs'.ring = rs.ring /\ rs'.inbox = e /\ rs'.dropped = all
      /\ rs'.result = both /\ rs'.wbuf = rs.wbuf /\ rs'.held = 0
      /\ rs'.out = rs.out /\ rs'.fifo = FALSE
  <2>1. /\ p.ring = rs.ring /\ p.result = both /\ p.wbuf = rs.wbuf
        /\ p.out = rs.out /\ p.fifo = FALSE
    BY <1>2 DEF Serial
  <2> HIDE DEF p
  <2>2. /\ q.ring = p.ring /\ q.inbox = e /\ q.dropped = all
        /\ q.result = p.result /\ q.wbuf = p.wbuf /\ q.held = 0
        /\ q.out = p.out /\ q.fifo = p.fifo
    BY <1>6 DEF Serial
  <2> QED BY <1>6, <2>1, <2>2
<1> HIDE DEF p, q
<1>8. /\ Buffered(rs') /\ SenderInv(rs') /\ ReadyInv(rs', G)
      /\ Len(rs'.ring) < RingSize /\ Len(rs'.wbuf) < FifoSize
  BY <1>2, <1>5, <1>7 DEF Buffered, SenderInv, ReadyInv
<1>9. QueueInv(rs', G, arrived) BY <1>2, <1>5, <1>7, PurgedQueue
<1>10. IInv'
  <2>1. RecordInv(rs', got, arrived) BY <1>6, <1>8, <1>9 DEF RecordInv, G
  <2>2. TypeOK' BY <1>1, <1>6, <1>8 DEF IInv, TypeOK, Enables
  <2>3. got' = got /\ arrived' = arrived BY <1>1
  <2> QED BY <2>1, <2>2, <2>3 DEF IInv
<1>11. ASSUME ~Inverted, SendInv PROVE SendInv'
  <2> DEFINE u == rs.out
             v == rs.wbuf
             one == <<rs.held>>
  <2>1. u \in Seq(Bytes) /\ v \in Seq(Bytes) /\ rs.held \in 0 .. LastByte
    BY <1>2, Fields
  <2>2. Stream(rs') = u \o v BY <1>7 DEF Stream, Pending
  <2>3. IsInjective(Stream(rs)) /\ ToSet(Stream(rs)) \subseteq 1 .. sent
    BY <1>11 DEF SendInv
  <2>4. IsInjective(u \o v) /\ ToSet(u \o v) \subseteq ToSet(Stream(rs))
    <3>1. CASE rs.fifo \/ rs.held = 0
      <4>1. Stream(rs) = u \o v BY <3>1 DEF Stream, Pending
      <4> QED BY <2>3, <4>1
    <3>2. CASE ~ (rs.fifo \/ rs.held = 0)
      <4>1. rs.held \in Bytes BY <2>1, <3>2 DEF Bytes
      <4>2. Stream(rs) = u \o (one \o v) BY <3>2 DEF Stream, Pending
      <4>3. one \o v \in Seq(Bytes) /\ one \o v # <<>> /\ Tail(one \o v) = v
        BY <2>1, <4>1, TailBehindOne
      <4> HIDE DEF u, v, one
      <4>4. /\ IsInjective(u \o Tail(one \o v))
            /\ ToSet(u \o Tail(one \o v)) \subseteq ToSet(u \o (one \o v))
        BY <2>1, <2>3, <4>2, <4>3, DroppedByte
      <4> QED BY <4>2, <4>3, <4>4
    <3> QED BY <3>1, <3>2
  <2>5. wasReset' = TRUE /\ sent' = sent BY <1>1
  <2> QED BY <2>2, <2>3, <2>4, <2>5 DEF SendInv
<1> QED BY <1>10, <1>11

-----------------------------------------------------------------------------
(***************************************************************************)
(* The invariant.                                                          *)
(***************************************************************************)

LEMMA InitIInv ==
  ASSUME Init
  PROVE  IInv /\ SendInv
<1> DEFINE e == <<>>
<1>1. /\ rs = [cmd |-> setup.boot, result |-> {"TxRDY", "TxEMP"}, data |-> 0,
               send |-> TRUE, lastfail |-> FALSE, fifo |-> FALSE, irqflag |-> "none",
               irq |-> FALSE, ring |-> e, count |-> 0, wbuf |-> e, held |-> 0,
               line |-> LineRoom, inbox |-> e, out |-> e, dropped |-> {}]
      /\ enabled = {"rxready"} /\ handler = "none" /\ setup \in Setups
      /\ arrived = 0 /\ sent = 0 /\ got = e /\ wasReset = FALSE
  BY DEF Init
<1>2. setup.boot \in SUBSET {"tx", "rx"}
  <2>1. setup \in Setup BY <1>1, Rs232cAssumption
  <2>2. setup.boot \in {{}, {"tx", "rx"}} BY <2>1 DEF Setup
  <2> QED BY <2>2
<1>3. /\ e \in Seq(Bytes) /\ Len(e) = 0 /\ ToSet(e) = {} /\ Increasing(e)
      /\ e \in Seq(0 .. LastByte) /\ IsInjective(e)
  BY DEF ToSet, Increasing, IsInjective
<1>4. e \o e = e BY <1>3, ConcatEmptySeq
<1>5. [i \in 1 .. 0 |-> i] = e OBVIOUS
<1>6. e = <<>> OBVIOUS
<1> HIDE DEF e
<1>7. rs \in Serial BY <1>1, <1>2, <1>3, Sizes DEF Serial
<1>8. FifoSize \in Nat \ {0, 1} BY Rs232cAssumption
<1>9. /\ rs.ring = e /\ rs.wbuf = e /\ rs.inbox = e /\ rs.out = e /\ rs.dropped = {}
      /\ rs.result = {"TxRDY", "TxEMP"} /\ rs.held = 0 /\ rs.fifo = FALSE
  BY <1>1
<1>10. Len(rs.ring) < RingSize /\ Len(rs.wbuf) < FifoSize
  BY <1>3, <1>8, <1>9, Sizes
<1>11. TypeOK
  <2>1. /\ enabled \subseteq Enables
        /\ handler \in {"none", "cause", "serve", "wrote"} /\ setup \in Setups
    BY <1>1 DEF Enables
  <2>2. {arrived, sent} \subseteq 0 .. LastByte BY <1>1, Sizes
  <2>3. got \in Seq(0 .. LastByte) /\ wasReset \in BOOLEAN BY <1>1, <1>3
  <2> QED BY <1>7, <1>10, <2>1, <2>2, <2>3 DEF TypeOK
<1>12. RecordInv(rs, got, arrived)
  <2>1. Buffered(rs) /\ SenderInv(rs) BY <1>9 DEF Buffered, SenderInv
  <2>2. QueueInv(rs, ToSet(got), arrived)
    <3>1. 1 .. 0 = {} OBVIOUS
    <3> QED BY <1>1, <1>3, <1>9, <3>1 DEF QueueInv
  <2>3. ReadyInv(rs, ToSet(got)) BY <1>9 DEF ReadyInv
  <2> QED BY <1>7, <1>10, <2>1, <2>2, <2>3 DEF RecordInv
<1>13. SendInv
  <2>1. Stream(rs) = e BY <1>4, <1>9 DEF Stream, Pending
  <2>2. Clean(rs) BY <1>6, <1>9 DEF Clean
  <2> QED BY <1>1, <1>3, <1>5, <2>1, <2>2 DEF SendInv
<1> QED BY <1>1, <1>3, <1>11, <1>12, <1>13 DEF IInv

\* A step that sends nothing keeps what is sent.
LEMMA QuietSends ==
  ASSUME IInv, Quiet
  PROVE  IInv' /\ (~Inverted /\ SendInv => SendInv')
<1>1. ~Inverted => SenderInv(rs) BY DEF IInv, RecordInv
<1>2. ASSUME ~Inverted, SendInv PROVE SendInv'
  <2>1. Stream(rs') = Stream(rs) /\ (Clean(rs) => Clean(rs'))
    BY <1>1, <1>2 DEF Quiet, Keeps
  <2>2. sent' = sent /\ wasReset' = wasReset BY DEF Quiet
  <2> QED BY <1>2, <2>1, <2>2 DEF SendInv
<1> QED BY <1>2 DEF Quiet

\* One step for each action.
LEMMA NextStep ==
  ASSUME IInv, [Next /\ UNCHANGED setup]_<<vars, setup>>
  PROVE  IInv' /\ (~Inverted /\ SendInv => SendInv')
<1>1. CASE UNCHANGED <<vars, setup>>
  <2>1. /\ rs' = rs /\ enabled' = enabled /\ handler' = handler /\ setup' = setup
        /\ arrived' = arrived /\ sent' = sent /\ got' = got /\ wasReset' = wasReset
    BY <1>1 DEF vars, history
  <2>2. IInv' BY <2>1 DEF IInv, TypeOK
  <2>3. SendInv => SendInv' BY <2>1 DEF SendInv
  <2> QED BY <2>2, <2>3
<1>2. CASE Next /\ UNCHANGED setup
  <2>1. setup' = setup BY <1>2
  <2>2. CASE Arrive BY <2>1, <2>2, ArriveStep, QuietSends
  <2>3. CASE LineMoves BY <2>1, <2>3, LineStep, QuietSends
  <2>4. CASE Rs232cCallback BY <2>1, <2>4, CallbackStep, QuietSends
  <2>5. CASE Deliver \/ HandlerReturns \/ ReadCause
    BY <2>1, <2>5, HandlerSteps, QuietSends
  <2>6. CASE ReadData BY <2>1, <2>6, ReadDataStep, QuietSends
  <2>7. CASE WriteData BY <2>1, <2>7, WriteDataStep
  <2>8. CASE ReadStatus BY <2>1, <2>8, ReadStatusStep, QuietSends
  <2>9. CASE \E on \in BOOLEAN : OutFifo(on) BY <2>1, <2>9, OutFifoStep, QuietSends
  <2>10. CASE \E dat \in setup.commands : OutCommand(dat)
    BY <2>1, <2>10, OutCommandStep, QuietSends
  <2>11. CASE \/ \E e \in setup.enables : OutPort(e)
              \/ \E b \in setup.bits, on \in BOOLEAN : OutBit(b, on)
    BY <2>1, <2>11, PortSteps, QuietSends
  <2>12. CASE MachineReset BY <2>1, <2>12, ResetStep
  <2> QED
    BY <1>2, <2>2, <2>3, <2>4, <2>5, <2>6, <2>7, <2>8, <2>9, <2>10, <2>11, <2>12
    DEF Next, Host, Handler, Program
<1> QED BY <1>1, <1>2

THEOREM Rs232cInvariant == Spec => []IInv
<1>1. Init => IInv BY InitIInv
<1>2. IInv /\ [Next /\ UNCHANGED setup]_<<vars, setup>> => IInv' BY NextStep
<1> QED BY <1>1, <1>2, PTL DEF Spec

\* The state has its type, whatever the guest does and whatever the port answers; the
\* rings never overflow.
THEOREM TypeCorrect == Spec => []TypeOK
<1>1. IInv => TypeOK BY DEF IInv
<1> QED BY <1>1, Rs232cInvariant, PTL

\* What the guest reads came in before the next thing it reads, nothing twice and
\* nothing stale, and no byte is lost unless the ring or a purge dropped it: in both
\* modes, with any sizes, and whatever the port answers.
THEOREM ReceivesInOrder == Spec => []ReceivedInOrder
<1>1. ASSUME IInv PROVE ReceivedInOrder
  <2>1. rs \in Serial /\ QueueInv(rs, ToSet(got), arrived)
    BY <1>1 DEF IInv, RecordInv
  <2>2. rs.ring \in Seq(Bytes) /\ rs.inbox \in Seq(Bytes) BY <2>1, Fields
  <2>3. Increasing(rs.ring \o rs.inbox)
    BY <2>1, <2>2, ConcatOfIncreasing DEF QueueInv
  <2> QED BY <1>1, <2>1, <2>3 DEF ReceivedInOrder, QueueInv, IInv
<1>2. IInv => ReceivedInOrder BY <1>1
<1> QED BY <1>2, Rs232cInvariant, PTL

\* The front of a sequence that has nothing twice.
LEMMA FrontInjective ==
  ASSUME NEW u \in Seq(Bytes), NEW v \in Seq(Bytes), IsInjective(u \o v)
  PROVE  IsInjective(u)
<1> DEFINE w == u \o v
           m == Len(u)
           n == Len(v)
<1>1. /\ w \in Seq(Bytes) /\ Len(w) = m + n /\ m \in Nat /\ n \in Nat
      /\ \A i \in 1 .. m + n : w[i] = IF i <= m THEN u[i] ELSE v[i - m]
      /\ DOMAIN u = 1 .. m
  BY ConcatProperties
<1>2. DOMAIN w = 1 .. m + n BY <1>1
<1>3. IsInjective(w) OBVIOUS
<1> HIDE DEF w, m, n
<1>4. \A i \in 1 .. m : i \in DOMAIN w /\ w[i] = u[i] BY <1>1, <1>2
<1> QED BY <1>1, <1>3, <1>4 DEF IsInjective

\* What the guest writes leaves once and in its order, in both modes, with any sizes
\* and however slow the line is, when the port answers what became of the byte.
THEOREM SendsInOrder ==
  ASSUME Inverted = FALSE
  PROVE  Spec => []SentInOrder
<1> DEFINE Inv == IInv /\ SendInv
<1>1. Init => Inv BY InitIInv
<1>2. Inv /\ [Next /\ UNCHANGED setup]_<<vars, setup>> => Inv' BY NextStep
<1>3. ASSUME Inv PROVE SentInOrder
  <2>1. rs \in Serial /\ SenderInv(rs) BY <1>3 DEF IInv, RecordInv
  <2>2. /\ rs.out \in Seq(Bytes) /\ rs.wbuf \in Seq(Bytes) /\ rs.fifo \in BOOLEAN
        /\ Pending(rs) \in Seq(Bytes)
    BY <2>1, Fields, StreamType
  <2>3. ReadyWhenSent BY <2>1 DEF ReadyWhenSent, SenderInv
  <2>4. IsInjective(rs.out)
    <3>1. IsInjective(rs.out \o Pending(rs)) BY <1>3 DEF SendInv, Stream
    <3> QED BY <2>2, <3>1, FrontInjective
  <2> DEFINE waiting == IF rs.wbuf # <<>> \/ rs.held = 0 THEN rs.wbuf ELSE <<rs.held>>
  <2>5. ASSUME ~wasReset
        PROVE  /\ rs.out \o waiting = [i \in 1 .. sent |-> i]
               /\ "TxEMP" \in rs.result => waiting = <<>>
    <3>1. Clean(rs) /\ rs.out \o Pending(rs) = [i \in 1 .. sent |-> i]
      BY <1>3, <2>5 DEF SendInv, Stream
    <3>2. waiting = Pending(rs)
      <4>1. CASE rs.fifo BY <2>1, <4>1 DEF Pending, SenderInv
      <4>2. CASE ~rs.fifo /\ rs.held = 0 BY <4>2 DEF Pending
      <4>3. CASE ~rs.fifo /\ rs.held # 0
        <5>1. rs.wbuf = <<>> BY <3>1, <4>3 DEF Clean
        <5>2. rs.held \in Bytes BY <2>1, <4>3, Fields, Sizes DEF Bytes
        <5> DEFINE one == <<rs.held>>
        <5>3. one \in Seq(Bytes) BY <5>2
        <5> HIDE DEF one
        <5>4. one \o <<>> = one BY <5>3, ConcatEmptySeq
        <5> QED BY <4>3, <5>1, <5>4 DEF Pending, one
      <4> QED BY <4>1, <4>2, <4>3
    <3>3. "TxEMP" \in rs.result => waiting = <<>>
      BY <2>1, <3>1 DEF SenderInv, Clean
    <3> HIDE DEF waiting
    <3> QED BY <3>1, <3>2, <3>3
  <2> QED BY <2>3, <2>4, <2>5 DEF SentInOrder
<1>4. Inv => SentInOrder BY <1>3
<1> HIDE DEF Inv
<1> QED BY <1>1, <1>2, <1>4, PTL DEF Spec
=============================================================================
