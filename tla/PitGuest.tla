------------------------------ MODULE PitGuest ------------------------------
(***************************************************************************)
(* A guest of the interval timer of module Pit that reads the count of one *)
(* channel the way programs do: latch, then both bytes.  Between the steps *)
(* anything may happen: ticks, interrupts, a status read-back of the same  *)
(* channel (by an interrupt handler, say), a new count.  History variables *)
(* record the word that is being read, and the clocks since the guest last *)
(* started the system timer.                                               *)
(***************************************************************************)
EXTENDS Pit, Sequences

CONSTANT Reader  \* the channel that is read

ASSUME ReaderAssumption == Reader \in Readable

VARIABLES
  taken,  \* the count at the time of the latch command
  bytes,  \* the bytes read since; <<>> before the latch command too
  reads,  \* a word is being read
  since   \* clocks since channel 0 was started, up to the longest wait

word == <<taken, bytes, reads>>
allvars == <<vars, word, since>>

GInit == Init /\ taken = 0 /\ bytes = <<>> /\ reads = FALSE /\ since = 0

\* History: time stops to be counted at the longest wait.
Later(n) == IF since + n > Ticks(0, 0) THEN Ticks(0, 0) ELSE since + n

Time ==
  \/ \E n \in Costs : Instruction(n) /\ since' = Later(n)
  \/ /\ EndInstruction \/ Progress \/ EndEvents \/ Callbacks \/ PicIrq
        \/ \E mask \in Masking : OutMask(mask)
     /\ UNCHANGED since

GuestCounts ==
  \E c \in Writable, b \in Bytes :
    /\ OutCount(c, b)
    /\ since' = IF c = 0 /\ Starts(pit[0]) THEN 0 ELSE since

\* Between two words the guest may program the channels.
GuestControls ==
  /\ ~reads
  /\ \E c \in Writable, rl \in Access, mode \in Modes : OutControl(c, rl, mode)
  /\ UNCHANGED since

TakeWord ==
  /\ ~reads /\ pit[Reader].ctrl.rl = "ALL"
  /\ OutLatch(Reader)
  /\ taken' = Count(Reader) /\ bytes' = <<>> /\ reads' = TRUE
  /\ UNCHANGED since

ReadByte ==
  /\ reads /\ "S" \notin pit[Reader].flag /\ Len(bytes) < 2
  /\ InCount(Reader)
  /\ bytes' = Append(bytes, ByteRead(Reader))
  /\ UNCHANGED <<taken, reads, since>>

WordDone ==
  /\ reads /\ Len(bytes) = 2
  /\ taken' = 0 /\ bytes' = <<>> /\ reads' = FALSE
  /\ UNCHANGED <<vars, since>>

\* The status is read back between two bytes of a word, or at any time.
StatusAsked ==
  /\ "S" \notin pit[Reader].flag
  /\ {"S"} \in ReadBacks /\ OutReadBack({Reader}, {"S"})
  /\ UNCHANGED since

StatusRead == "S" \in pit[Reader].flag /\ InCount(Reader) /\ UNCHANGED since

ResetAll ==
  /\ MachineReset
  /\ taken' = 0 /\ bytes' = <<>> /\ reads' = FALSE /\ since' = 0

GNext ==
  \/ ResetAll
  \/ TakeWord \/ ReadByte \/ WordDone
  \/ Time /\ UNCHANGED word
  \/ GuestCounts /\ UNCHANGED word
  \/ GuestControls /\ UNCHANGED word
  \/ StatusAsked /\ UNCHANGED word
  \/ StatusRead /\ UNCHANGED word

GSpec == GInit /\ [][GNext]_allvars

\* The main loop goes on.
GFairSpec == GSpec /\ WF_allvars(Time /\ UNCHANGED word)

-----------------------------------------------------------------------------
(* Properties. *)

\* The two bytes make up the count at the time of the latch command, although
\* the counter runs on and the status may be read in between.
WordsAreWhole ==
  reads /\ Len(bytes) = 2 => bytes[1] + bytes[2] * Base = taken

\* With a whole count in channel 0, a request of the timer is one that its count
\* brought about: the request of an older count, or of an event that was under
\* way when the guest programmed the channel, does not survive the new count.
\* (In the modes 1 and 5 a new count does not start the channel.)
NoStaleTick ==
  irq /\ HasCount(0) /\ ~IsTriggered(pit[0]) =>
    since >= Ticks(0, pit[0].value)
=============================================================================
