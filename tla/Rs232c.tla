-------------------------------- MODULE Rs232c --------------------------------
(***************************************************************************)
(* The RS-232C half of io/serial.c: the transmitter with its retries, the  *)
(* receiver with its ring, the FIFO mode, and the line of both at the      *)
(* interrupt controller.                                                   *)
(*                                                                         *)
(* The host's port takes a byte or keeps it for the retry, as in           *)
(* windows/commng/cmserial.cpp with Inverted FALSE (without its blocks and *)
(* without giving a byte up after three seconds).  With Inverted TRUE it   *)
(* is the one of sdl/cmserial.c on a POSIX host, whose answer is the       *)
(* opposite and whose retry loses a byte that it cannot write; those of x  *)
(* and wx do so too, and their lastdatafail stays set besides until a      *)
(* retry clears it.                                                        *)
(*                                                                         *)
(* Bytes are numbers in the order in which they are sent, 0 standing for   *)
(* what an old slot of the ring holds.  In FIFO mode the guest uses port   *)
(* 130h, else 30h.  It writes when TxRDY is set and reads when RxRDY is;   *)
(* its handler reads the cause (136h) first, in FIFO mode, then looks at   *)
(* both bits, whatever the cause.                                          *)
(*                                                                         *)
(* rs.out, rs.dropped, arrived, sent, got and wasReset are history.        *)
(***************************************************************************)
EXTENDS Integers, SequencesExt

CONSTANTS
  RingSize,    \* RS232C_BUFFER, one more than the ring holds
  RingHigh,    \* three quarters of it
  ClearCount,  \* RS232C_BUFFER_CLRC
  FifoSize,    \* RS232C_FIFO_WRITEBUFFER, one more than the buffer holds
  FifoHigh,    \* three quarters of it
  LineRoom,    \* bytes that the host's port takes at once
  LastByte,    \* bound: bytes that are sent or received
  Inverted,    \* whether the port is that of sdl: lastwritesuccess is lastdatafail
  Setups       \* what a host and a guest do, see Setup

Bytes == 1 .. LastByte

\* Bits 2, 1 and 0 of sysport.c.
Enables == {"txready", "txempty", "rxready"}

\* sends and receives: how many bytes.  switches: whether the guest uses port 138h.
\* enables, bits and commands: what it writes to ports 35h and 37h and as command
\* words.  polls: whether it reads and writes outside of its handler.  resets: the
\* machine is reset.  boot: the command that a reset gives, none in the builds with
\* VAEG_FIX.
Setup == [sends : 0 .. LastByte, receives : 0 .. LastByte, switches : BOOLEAN,
          enables : SUBSET SUBSET Enables, bits : SUBSET Enables,
          commands : SUBSET SUBSET {"tx", "rx"}, polls : BOOLEAN, resets : BOOLEAN,
          boot : {{}, {"tx", "rx"}}]

ASSUME Rs232cAssumption ==
  /\ {RingSize, ClearCount, FifoSize} \subseteq Nat \ {0, 1}
  /\ RingHigh \in 0 .. RingSize - 2 /\ FifoHigh \in 0 .. FifoSize - 2
  /\ {LineRoom, LastByte} \subseteq Nat \ {0}
  /\ Inverted \in BOOLEAN
  /\ Setups \subseteq Setup

VARIABLES
  rs,       \* the 8251, the FIFO registers, the rings and the host's port, see Serial
  enabled,  \* sysport.c
  handler,  \* the guest's: "none", "cause" (it reads 136h next), "serve", "wrote"
  arrived,  \* history: bytes that came in at the host
  sent,     \* history: bytes that the guest wrote
  got,      \* history: bytes that the guest read
  wasReset, \* history
  setup     \* this host and guest; never changes

history == <<arrived, sent, got, wasReset>>
vars == <<rs, enabled, handler, history>>

\* irq is the request at the interrupt controller, count rs232c_removecounter, ring
\* and wbuf the two rings from the read to the write position.  held is lastdata of
\* a write that failed (0 when none did), line the room that the port has left, and
\* inbox the bytes that it has.  out are the bytes that left by it, and dropped
\* received ones that the ring or a purge dropped.
Serial ==
  [cmd : SUBSET {"tx", "rx"}, result : SUBSET {"TxRDY", "RxRDY", "TxEMP"},
   data : 0 .. LastByte, send : BOOLEAN, lastfail : BOOLEAN,
   fifo : BOOLEAN, irqflag : {"none", "send", "receive", "end"}, irq : BOOLEAN,
   ring : Seq(Bytes), count : 0 .. ClearCount - 1, wbuf : Seq(Bytes),
   held : 0 .. LastByte, line : 0 .. LineRoom, inbox : Seq(Bytes),
   out : Seq(Bytes), dropped : SUBSET Bytes]

Raise(q) == [q EXCEPT !.irq = TRUE]

Cause(q, cause) == Raise([q EXCEPT !.irqflag = cause])

-----------------------------------------------------------------------------
(* The host's port. *)

PortWrite(q, b) ==
  IF q.line > 0 THEN [q EXCEPT !.line = @ - 1, !.held = 0, !.out = Append(@, b)]
  ELSE [q EXCEPT !.held = b]

\* With Inverted, -1 of write does not pass for a failure, and the byte is lost.
PortRetry(q) ==
  IF q.held = 0 THEN q
  ELSE IF Inverted /\ q.line = 0 THEN [q EXCEPT !.held = 0]
  ELSE PortWrite(q, q.held)

\* lastwritesuccess.
Success(q) == (q.held = 0) # Inverted

-----------------------------------------------------------------------------
(* Transmission. *)

\* TxRDY, by the room in the buffer.
Level(q) ==
  [q EXCEPT !.result = IF Len(q.wbuf) > FifoHigh THEN @ \ {"TxRDY"}
                       ELSE @ \cup {"TxRDY"}]

TxInterrupt(q) == Cause([q EXCEPT !.send = FALSE], "send")

TxEnabled == {"txready", "txempty"} \cap enabled # {}

\* How many bytes of the buffer leave it before a write fails.
Passed(q) ==
  IF ~Inverted THEN Min({q.line, Len(q.wbuf)})
  ELSE IF q.line > 0 THEN 0 ELSE Len(q.wbuf)

\* The loop that writes as many bytes of the buffer as the port takes; TxRDY is set
\* before each, and by Empty after the last.
Drained(q) ==
  LET n == Passed(q)
      taken == IF Inverted THEN 0 ELSE n
      rest == SubSeq(q.wbuf, n + 1, Len(q.wbuf))
      held == IF n = 0 THEN q.held ELSE IF Inverted THEN q.wbuf[n] ELSE 0
      s == [q EXCEPT !.wbuf = rest, !.line = q.line - taken, !.held = held,
                     !.out = q.out \o SubSeq(q.wbuf, 1, taken)]
  IN IF rest = <<>> THEN [q |-> s, waits |-> FALSE]
     ELSE [q |-> PortWrite(Level(s), Head(rest)), waits |-> TRUE]

Empty(q) == [q EXCEPT !.result = @ \cup {"TxRDY", "TxEMP"}]

\* Mutant of Retry: the byte that the retry sent stays in the buffer.
RetryTwice(q) ==
  LET r == PortRetry(q)
      Sent(s) == IF TxEnabled THEN TxInterrupt(s) ELSE [s EXCEPT !.send = TRUE]
      d == Drained(IF TxEnabled THEN TxInterrupt(Level(r)) ELSE Level(r))
  IN IF "TxEMP" \in q.result THEN q
     ELSE IF ~Success(r) THEN r
     ELSE IF ~q.fifo THEN Sent(Empty(r))
     ELSE IF d.waits THEN d.q ELSE Sent(Empty(d.q))

\* rs232c_writeretry.  In FIFO mode the buffer is not empty then: the guest switches
\* modes with the transmitter empty.
Retry(q) ==
  LET r == PortRetry(q)
      Sent(s) == IF TxEnabled THEN TxInterrupt(s) ELSE [s EXCEPT !.send = TRUE]
      next == Level([r EXCEPT !.wbuf = Tail(@)])
      d == Drained(IF TxEnabled /\ "TxRDY" \in next.result THEN TxInterrupt(next)
                   ELSE next)
  IN IF "TxEMP" \in q.result THEN q
     ELSE IF ~Success(r) THEN r
     ELSE IF ~q.fifo THEN Sent(Empty(r))
     ELSE IF d.waits THEN d.q ELSE Sent(Empty(d.q))

\* Mutant of Written: the callback is not left to interrupt.
WrittenForgets(q) ==
  [(IF q.lastfail /\ TxEnabled THEN TxInterrupt(q) ELSE q) EXCEPT !.lastfail = FALSE]

\* The end of rs232c_o30, when the byte has left.
Written(q) ==
  [(IF q.lastfail /\ TxEnabled THEN TxInterrupt(q) ELSE [q EXCEPT !.send = TRUE])
     EXCEPT !.lastfail = FALSE]

\* rs232c_o30 in FIFO mode.
WriteFifo(q, b) ==
  LET room == IF Len(q.wbuf) = FifoSize - 1 THEN Tail(q.wbuf) ELSE q.wbuf
      d == Drained([q EXCEPT !.result = @ \ {"TxEMP"}, !.wbuf = Append(room, b)])
  IN IF ~d.waits THEN Written(Empty(d.q))
     ELSE IF "TxRDY" \notin d.q.result THEN d.q
     ELSE [(IF TxEnabled THEN TxInterrupt(d.q) ELSE d.q) EXCEPT !.lastfail = TRUE]

\* rs232c_o30 otherwise.
WriteByte(q, b) ==
  LET w == PortWrite(q, b)
  IN IF Success(w) THEN Written(Empty(w))
     ELSE [w EXCEPT !.result = @ \ {"TxRDY", "TxEMP"}, !.lastfail = TRUE]

-----------------------------------------------------------------------------
(* Reception. *)

\* Mutant of Advance: data stays what it was.
AdvanceStale(q) == [q EXCEPT !.ring = Tail(@)]

\* The oldest byte leaves the ring, and data is the next one.
Advance(q) ==
  LET ring == Tail(q.ring)
  IN [q EXCEPT !.ring = ring, !.data = IF ring = <<>> THEN 0 ELSE Head(ring)]

\* cm_rs232c->read, into the ring.
Take(q) ==
  IF q.inbox = <<>> THEN q
  ELSE [q EXCEPT !.ring = Append(@, Head(q.inbox)), !.inbox = Tail(@)]

\* rs232c_i30 in FIFO mode.
ReadFifo(q) ==
  LET r == IF q.ring = <<>> THEN Take(q) ELSE q
      s == IF r.ring = <<>> THEN r ELSE Advance(r)
  IN IF s.ring = <<>> THEN Cause([s EXCEPT !.result = @ \ {"RxRDY"}], "end")
     ELSE IF Len(s.ring) > RingHigh THEN Cause(s, "receive") ELSE s

\* rs232c_i30 otherwise: with the ring almost full RxRDY stays.
ReadByte(q) ==
  LET s == IF q.ring = <<>> THEN q ELSE Advance(q)
  IN IF Len(s.ring) <= RingHigh THEN [s EXCEPT !.result = @ \ {"RxRDY"}]
     ELSE IF "rxready" \in enabled THEN Raise(s) ELSE s

\* Mutant of Received: a full ring is not looked for.
ReceivedPastEnd(q) ==
  LET r == [q EXCEPT !.count = ((IF q.fifo THEN 0 ELSE @) + 1) % ClearCount]
      s == IF "rx" \in q.cmd THEN Take(r) ELSE r
      t == [s EXCEPT !.data = Head(s.ring), !.result = @ \cup {"RxRDY"}]
  IN IF s.ring = <<>> THEN s
     ELSE IF "RxRDY" \in s.result THEN [s EXCEPT !.data = Head(s.ring)]
     ELSE IF q.fifo THEN Cause(t, "receive")
     ELSE IF "rxready" \in enabled THEN Raise(t) ELSE t

\* What rs232c_callback receives: when the ring is full, or not in FIFO mode once in
\* ClearCount calls, the oldest byte is dropped.
Received(q) ==
  LET count == ((IF q.fifo THEN 0 ELSE q.count) + 1) % ClearCount
      removed == Len(q.ring) = RingSize - 1 \/ (q.ring # <<>> /\ count = 0)
      r == IF removed THEN [q EXCEPT !.ring = Tail(@), !.count = count,
                                     !.dropped = @ \cup {Head(q.ring)}]
           ELSE [q EXCEPT !.count = count]
      s == IF "rx" \in q.cmd THEN Take(r) ELSE r
      t == [s EXCEPT !.data = Head(s.ring), !.result = @ \cup {"RxRDY"}]
  IN IF s.ring = <<>> THEN s
     ELSE IF "RxRDY" \in s.result /\ ~removed THEN [s EXCEPT !.data = Head(s.ring)]
     ELSE IF q.fifo THEN Cause(t, "receive")
     ELSE IF "rxready" \in enabled THEN Raise(t) ELSE t

\* The end of rs232c_callback: the interrupts of the transmitter.
Transmitted(q) ==
  LET r == IF TxEnabled /\ q.send THEN TxInterrupt(q) ELSE q
  IN IF "txempty" \in enabled /\ ~r.send THEN Raise(r) ELSE r

-----------------------------------------------------------------------------
(* The host. *)

Arrive ==
  /\ arrived < setup.receives
  /\ arrived' = arrived + 1 /\ rs' = [rs EXCEPT !.inbox = Append(@, arrived + 1)]
  /\ UNCHANGED <<enabled, handler, sent, got, wasReset>>

\* The port has room for another byte.
LineMoves ==
  /\ rs.line < LineRoom /\ rs' = [rs EXCEPT !.line = @ + 1]
  /\ UNCHANGED <<enabled, handler, history>>

\* rs232c_callback, which comes at the rate of the line.  In FIFO mode it waits for
\* room and for the guest to ask for the cause.
Rs232cCallback ==
  /\ \E r \in {Retry(rs)} :
     LET q == IF r.ring = <<>> \/ r.fifo THEN [r EXCEPT !.count = 0] ELSE r
     IN rs' = IF "rx" \notin q.cmd /\ q.ring = <<>> THEN Transmitted(r)
              ELSE IF q.fifo /\ q.irqflag # "none" THEN q
              ELSE IF q.fifo /\ Len(q.ring) = RingSize - 1 THEN Cause(q, "receive")
              ELSE Transmitted(Received(q))
  /\ UNCHANGED <<enabled, handler, history>>

-----------------------------------------------------------------------------
(* The guest.  Its program runs in handler "none". *)

Accesses == handler = "serve" \/ (handler = "none" /\ setup.polls)

\* rs232c_i32 and rs232c_i132.
ReadStatus ==
  /\ Accesses /\ rs' = Retry(rs)
  /\ UNCHANGED <<enabled, handler, history>>

\* rs232c_i30.
ReadData ==
  /\ Accesses \/ handler = "wrote"
  /\ "RxRDY" \in rs.result
  /\ rs' = [(IF rs.fifo THEN ReadFifo(Retry(rs)) ELSE ReadByte(Retry(rs)))
              EXCEPT !.count = 0]
  /\ got' = Append(got, rs.data)
  /\ UNCHANGED <<enabled, handler, arrived, sent, wasReset>>

CanWrite == "tx" \in rs.cmd /\ "TxRDY" \in rs.result /\ sent < setup.sends

\* rs232c_o30.
WriteData ==
  /\ Accesses /\ CanWrite
  /\ sent' = sent + 1
  /\ \E r \in {Retry(rs)} :
       rs' = IF rs.fifo THEN WriteFifo(r, sent') ELSE WriteByte(r, sent')
  /\ handler' = IF handler = "serve" THEN "wrote" ELSE handler
  /\ UNCHANGED <<enabled, arrived, got, wasReset>>

\* The CPU takes the interrupt.
Deliver ==
  /\ handler = "none" /\ rs.irq
  /\ rs' = [rs EXCEPT !.irq = FALSE]
  /\ handler' = IF rs.fifo THEN "cause" ELSE "serve"
  /\ UNCHANGED <<enabled, history>>

HandlerReturns ==
  /\ handler = "wrote" \/ (handler = "serve" /\ ~CanWrite)
  /\ "RxRDY" \notin rs.result
  /\ handler' = "none"
  /\ UNCHANGED <<rs, enabled, history>>

\* Nothing is on its way: a program changes the mode only then.
Idle ==
  /\ handler = "none" /\ rs.ring = <<>>
  /\ "TxEMP" \in rs.result /\ "RxRDY" \notin rs.result

\* rs232c_i136, read by the handler, and by a program before it enters FIFO mode (which
\* any request interrupts first).
ReadCause ==
  /\ handler = "cause" \/ (Idle /\ setup.switches /\ ~rs.fifo /\ ~rs.irq)
  /\ rs' = [rs EXCEPT !.irqflag = "none", !.irq = FALSE]
  /\ handler' = IF handler = "cause" THEN "serve" ELSE handler
  /\ UNCHANGED <<enabled, history>>

\* rs232c_o138.
OutFifo(on) ==
  /\ Idle /\ setup.switches /\ rs.irqflag = "none"
  /\ rs' = [rs EXCEPT !.fifo = on]
  /\ UNCHANGED <<enabled, handler, history>>

\* rs232c_o32 with a command word: the receiver's rise purges what waits at the port.
OutCommand(dat) ==
  /\ handler = "none"
  /\ rs' = IF "rx" \in dat \ rs.cmd
             THEN [rs EXCEPT !.cmd = dat, !.inbox = <<>>,
                             !.dropped = @ \cup ToSet(rs.inbox)]
             ELSE [rs EXCEPT !.cmd = dat]
  /\ UNCHANGED <<enabled, handler, history>>

\* A program lets the receiver interrupt when it has read what there was, and the
\* transmitter when it may send.
Enable(e) ==
  /\ handler = "none"
  /\ "rxready" \in e \ enabled => "RxRDY" \notin rs.result
  /\ {"txready", "txempty"} \cap (e \ enabled) # {} => "tx" \in rs.cmd
  /\ enabled' = e
  /\ UNCHANGED <<handler, history>>

\* sysp_o35: a change of the bit for TxRDY lets the callback interrupt.
OutPort(e) ==
  /\ Enable(e)
  /\ rs' = IF ("txready" \in e) = ("txready" \in enabled) THEN rs
           ELSE [rs EXCEPT !.send = TRUE]

\* sysp_o37: so does any write of that bit, which also interrupts for a byte that waits.
OutBit(b, on) ==
  /\ Enable(IF on THEN enabled \cup {b} ELSE enabled \ {b})
  /\ LET q == [rs EXCEPT !.send = TRUE]
     IN rs' = IF b # "txready" THEN rs
              ELSE IF "RxRDY" \in rs.result THEN Raise(q) ELSE q

\* rs232c_reset, with the reset of sysport.c and pic.c: the rings and lastfail stay,
\* the host's port is closed and opened again.
MachineReset ==
  /\ setup.resets /\ ~wasReset
  /\ rs' = [rs EXCEPT !.cmd = setup.boot, !.result = {"TxRDY", "TxEMP"},
                       !.data = 0, !.send = TRUE, !.fifo = FALSE,
                       !.irqflag = "none", !.irq = FALSE, !.held = 0,
                       !.line = LineRoom, !.inbox = <<>>,
                       !.dropped = @ \cup ToSet(rs.inbox)]
  /\ enabled' = {"rxready"} /\ handler' = "none" /\ wasReset' = TRUE
  /\ UNCHANGED <<arrived, sent, got>>

-----------------------------------------------------------------------------

Init ==
  /\ setup \in Setups
  /\ rs = [cmd |-> setup.boot, result |-> {"TxRDY", "TxEMP"}, data |-> 0,
           send |-> TRUE, lastfail |-> FALSE, fifo |-> FALSE, irqflag |-> "none",
           irq |-> FALSE, ring |-> <<>>, count |-> 0, wbuf |-> <<>>, held |-> 0,
           line |-> LineRoom, inbox |-> <<>>, out |-> <<>>, dropped |-> {}]
  /\ enabled = {"rxready"} /\ handler = "none"
  /\ arrived = 0 /\ sent = 0 /\ got = <<>> /\ wasReset = FALSE

Host == Arrive \/ LineMoves \/ Rs232cCallback

Handler ==
  \/ Deliver \/ HandlerReturns
  \/ handler # "none" /\ (ReadCause \/ ReadData \/ WriteData)

Program ==
  \/ ReadStatus
  \/ handler = "none" /\ (ReadCause \/ ReadData \/ WriteData)
  \/ \E on \in BOOLEAN : OutFifo(on)
  \/ \E dat \in setup.commands : OutCommand(dat)
  \/ \E e \in setup.enables : OutPort(e)
  \/ \E b \in setup.bits, on \in BOOLEAN : OutBit(b, on)

Next == Host \/ Handler \/ Program \/ MachineReset

Spec == Init /\ [][Next /\ UNCHANGED setup]_<<vars, setup>>

\* The callback comes, the host's line moves, and the guest takes its interrupts and
\* serves them.
FairSpec ==
  Spec /\ WF_vars(Rs232cCallback) /\ WF_vars(LineMoves) /\ WF_vars(Handler)

-----------------------------------------------------------------------------
(* Properties. *)

\* The type of the state; the rings never hold more than their size less one.
TypeOK ==
  /\ rs \in Serial
  /\ Len(rs.ring) < RingSize /\ Len(rs.wbuf) < FifoSize
  /\ enabled \subseteq Enables /\ handler \in {"none", "cause", "serve", "wrote"}
  /\ {arrived, sent} \subseteq 0 .. LastByte
  /\ got \in Seq(0 .. LastByte) /\ wasReset \in BOOLEAN
  /\ setup \in Setups

Increasing(s) == \A i, j \in DOMAIN s : i < j => s[i] < s[j]

\* When everything that the guest wrote has left by the host's port, it may write again:
\* TxRDY and TxEMP are set (the comments at io/serial.c:248 and :524).
ReadyWhenSent ==
  rs.held = 0 /\ rs.wbuf = <<>> => {"TxRDY", "TxEMP"} \subseteq rs.result

\* What the guest writes leaves once and in its order: what has left, then what the
\* buffer holds, or the one byte that waits to be tried again, is all that it wrote;
\* and TxEMP tells whether anything waits.  A reset of the machine loses the byte that
\* waits and forgets what the buffer holds, which then leaves after later bytes when the
\* guest writes in FIFO mode again; but no byte ever leaves twice.
SentInOrder ==
  /\ ReadyWhenSent
  /\ IsInjective(rs.out)
  /\ ~wasReset =>
       LET waiting == IF rs.wbuf # <<>> \/ rs.held = 0 THEN rs.wbuf ELSE <<rs.held>>
       IN /\ rs.out \o waiting = [i \in 1 .. sent |-> i]
          /\ "TxEMP" \in rs.result => waiting = <<>>

\* What the guest reads came in before the next thing it reads, nothing twice and
\* nothing stale; and a byte that it did not read still waits or was dropped, by the
\* ring or a purge.
ReceivedInOrder ==
  /\ 0 \notin ToSet(got) /\ Increasing(got)
  /\ Increasing(rs.ring \o rs.inbox)
  /\ 1 .. arrived =
       ToSet(got) \cup ToSet(rs.ring) \cup ToSet(rs.inbox) \cup rs.dropped

\* The guest keeps the line open for good and lets both sides interrupt.
Steady == rs.cmd = {"tx", "rx"} /\ "rxready" \in enabled /\ TxEnabled

\* Then all that came in has been read or dropped at last, and all that the guest has
\* to send, one byte at a time in its handler, was written and has left: no
\* interrupt that it needs for that is missing, in either mode.
TrafficFlows ==
  <>[]Steady =>
    <>[](/\ rs.inbox = <<>> /\ rs.ring = <<>>
         /\ sent = setup.sends /\ "TxEMP" \in rs.result)
=============================================================================
