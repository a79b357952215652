------------------------------ MODULE Keyboard ------------------------------
(***************************************************************************)
(* The keyboard: keystat.c, which turns the keys of the host into make and *)
(* break codes, and the keyboard half of io/serial.c, which sends the      *)
(* codes and the answers to commands to the guest one byte at a time.      *)
(*                                                                         *)
(* The rings keybrd.ctr and keybrd.buf are sequences.  The event           *)
(* NEVENT_KEYBOARD is armed or not: nothing here depends on how long it    *)
(* takes.  keyctrl.capsref and kanaref always equal keystat.ref of the two *)
(* lamp keys, since reloadled follows every write of those, so they are    *)
(* not modelled; nor are the joystick keys.                                *)
(*                                                                         *)
(* seen and synced are history: what the guest that looks at the status    *)
(* before it reads takes for pressed, and whether it can know.             *)
(***************************************************************************)
EXTENDS Integers, SequencesExt

CONSTANTS
  Keys,       \* key codes of the PC-98
  Single,     \* those that do not repeat (KBEX_NONREP)
  Shifts,     \* those beyond 70h: the shift keys, CAPS and KANA
  Lamps,      \* CAPS and KANA
  Hosts,      \* keys of the host
  Code,       \* the key code of each
  Mechanical, \* those that lock (a table entry with bit 7)
  CtrMax,     \* KB_CTR
  BufMax,     \* KB_BUF
  RepMax,     \* KEYREPEAT_BUF_MAX
  Setups,     \* what a user and a guest do, see Setup
  NC          \* NKEYREF_NC

\* hosts: the keys of the host that are used; commands: bytes the guest sends to
\* the keyboard; repeats: values of np2cfg.keyrepeat_enable.
Setup == [hosts : SUBSET Hosts,
          commands : SUBSET {"95", "96", "9c", "9d", "9f", "60", "70", "7c"},
          repeats : SUBSET BOOLEAN]

ASSUME KeyboardAssumption ==
  /\ Lamps \subseteq Shifts /\ Shifts \subseteq Single /\ Single \subseteq Keys
  /\ Code \in [Hosts -> Keys]
  /\ Mechanical \subseteq Hosts /\ \A h \in Mechanical : Code[h] \in Shifts
  /\ CtrMax \in Nat \ 0 .. 3 /\ BufMax \in Nat /\ RepMax \in Nat
  /\ IsFiniteSet(Keys) /\ Cardinality(Keys) <= BufMax
  /\ Setups \subseteq Setup
  /\ NC \notin Hosts \cup {"uPD8255"}

VARIABLES
  ref,      \* keystat.ref: who holds the key down
  stop,     \* keyctrl.keyrep is 70h: a held key does not repeat
  param,    \* keyctrl.mode while keyctrl.reqparam, or "none"
  repeat,   \* np2cfg.keyrepeat_enable
  rep,      \* keyrepeat_buf
  ctr, buf, \* answers and codes that wait to be sent
  data,     \* the byte that port 41h returns
  rxrdy,    \* status bit 1
  overrun,  \* status bit 4
  txe, rst, \* bits 0 and 3 of keybrd.cmd
  armed,    \* NEVENT_KEYBOARD is armed
  irq,      \* the request of the keyboard at the interrupt controller
  serving,  \* the guest is in its interrupt handler
  seen,     \* history: the keys that the guest takes for pressed
  synced,   \* history: it has been told all it needs
  setup     \* this user and guest; never changes

host == <<ref, repeat, rep>>
queues == <<ctr, buf, armed>>
port == <<data, rxrdy, overrun>>
control == <<stop, param, txe, rst>>
history == <<seen, synced>>
vars == <<host, queues, port, control, irq, serving, history>>

Make(k) == <<"make", k>>
Break(k) == <<"break", k>>
Answer(a) == <<"answer", a>>

Codes == {"make", "break"} \X Keys
Answers == {"answer"} \X {"fa", "fc", "a0", "80", "83", "lamps"}

Pressed == {k \in Keys : ref[k] # NC}

-----------------------------------------------------------------------------
(* keyboard_send and keyboard_ctrl. *)

\* Codes of some keys, in any order.
Makes(S) == [i \in 1 .. Cardinality(S) |-> Make(SetToSeq(S)[i])]
Breaks(S) == [i \in 1 .. Cardinality(S) |-> Break(SetToSeq(S)[i])]

\* What a ring takes of q.
Fitting(q, size) == IF Len(q) <= size THEN q ELSE SubSeq(q, 1, size)

\* Mutant of SendCodes: the room is not looked at.
SendCodesPastEnd(codes) ==
  /\ buf' = buf \o codes
  /\ armed' = (armed \/ codes # <<>>)
  /\ UNCHANGED overrun

\* keyboard_send, for each code: they go to the ring as far as there is room.
SendCodes(codes) ==
  /\ buf' = Fitting(buf \o codes, BufMax)
  /\ overrun' = (overrun \/ Len(buf \o codes) > BufMax)
  /\ armed' = (armed \/ Len(buf') > Len(buf))

\* keyboard_ctrl, for each answer: the first is an acknowledgement, which drops the
\* answers to an older command.
SendAnswers(answers) ==
  /\ ctr' = IF answers = <<>> THEN ctr
            ELSE Fitting([i \in DOMAIN answers |-> Answer(answers[i])], CtrMax)
  /\ armed' = (armed \/ answers # <<>>)

-----------------------------------------------------------------------------
(* The keys of the host. *)

\* The keys of a sequence that are not in S, in their order.
Without(s, S) ==
  LET f[n \in 0 .. Len(s)] ==
        IF n = 0 THEN <<>>
        ELSE IF s[n] \in S THEN f[n - 1] ELSE Append(f[n - 1], s[n])
  IN f[Len(s)]

\* Mutant of Through: a released key goes on repeating.
ThroughKeeps(released, pressed) ==
  LET own == IF repeat THEN Keys \ Single ELSE {}
      refused == {k \in own \cap pressed : Contains(rep, k) \/ Len(rep) >= RepMax}
  IN [rep |-> rep \o SetToSeq((own \cap pressed) \ refused),
      makes |-> pressed \ refused]

\* KEYBOARD_SEND, for breaks and then at most one make: through keystat_send when the
\* emulator repeats the keys, which refuses a key that it repeats or has no room for.
Through(released, pressed) ==
  LET own == IF repeat THEN Keys \ Single ELSE {}
      left == Without(rep, own \cap released)
      refused == {k \in own \cap pressed : Contains(left, k) \/ Len(left) >= RepMax}
  IN [rep |-> left \o SetToSeq((own \cap pressed) \ refused),
      makes |-> pressed \ refused]

\* The codes go out through KEYBOARD_SEND.  History: the guest cannot know the keys
\* any more once a code is lost.
Send(released, pressed) ==
  LET st == Through(released, pressed)
      codes == Breaks(released) \o Makes(st.makes)
  IN /\ rep' = st.rep
     /\ SendCodes(codes)
     /\ synced' = (synced /\ st.makes = pressed /\ Len(buf \o codes) <= BufMax)

\* keystat_keydown; a key that is down and does not lock may send its codes again.
KeyDown(h) ==
  LET k == Code[h]
      down == k \in Pressed
      unlocks == h \in Mechanical /\ down
      keeps == h \notin Mechanical /\ k \in Shifts /\ down
      again == h \notin Mechanical /\ down /\ ~stop /\ k \notin Single
  IN /\ ref' = [ref EXCEPT ![k] = IF unlocks THEN NC ELSE IF keeps THEN @ ELSE h]
     /\ Send(IF unlocks \/ again THEN {k} ELSE {}, IF ~down \/ again THEN {k} ELSE {})
     /\ UNCHANGED <<repeat, ctr, data, rxrdy, control, irq, serving, seen>>

\* A host key releases a shift key that is down, whoever holds it, and another key
\* that it holds itself.
Releases(h) ==
  /\ h \notin Mechanical /\ Code[h] \in Pressed
  /\ Code[h] \in Shifts \/ ref[Code[h]] = h

\* keystat_keyup.
KeyUp(h) ==
  /\ Releases(h)
  /\ ref' = [ref EXCEPT ![Code[h]] = NC]
  /\ Send({Code[h]}, {})
  /\ UNCHANGED <<repeat, ctr, data, rxrdy, control, irq, serving, seen>>

\* keystat_allrelease, when the window loses the focus.
AllRelease ==
  /\ Pressed \ Lamps # {}
  /\ ref' = [k \in Keys |-> IF k \in Lamps THEN ref[k] ELSE NC]
  /\ Send(Pressed \ Lamps, {})
  /\ UNCHANGED <<repeat, ctr, data, rxrdy, control, irq, serving, seen>>

\* keyrepeat_proc, at the start of a frame, when its time has come.
KeyRepeatProc ==
  /\ repeat /\ rep # <<>>
  /\ SendCodes(<<Break(Last(rep)), Make(Last(rep))>>)
  /\ synced' = (synced /\ Len(buf) + 2 <= BufMax)
  /\ UNCHANGED <<host, ctr, data, rxrdy, control, irq, serving, seen>>

\* The menu of the front end.  A key in keyrepeat_buf is not taken out of it when
\* it goes up meanwhile.
ToggleRepeat ==
  /\ ~repeat \in setup.repeats
  /\ repeat' = ~repeat
  /\ synced' = (synced /\ rep = <<>>)
  /\ UNCHANGED <<ref, rep, queues, port, control, irq, serving, seen>>

-----------------------------------------------------------------------------
(* The event. *)

\* Mutant of KeyboardCallback: a byte that was not read is overwritten.
KeyboardCallbackOverwrites ==
  /\ armed
  /\ IF ctr \o buf # <<>>
       THEN /\ rxrdy' = TRUE
            /\ data' = Head(ctr \o buf)
            /\ IF ctr # <<>> THEN ctr' = Tail(ctr) /\ UNCHANGED buf
                             ELSE buf' = Tail(buf) /\ UNCHANGED ctr
            /\ irq' = TRUE
            /\ UNCHANGED armed
       ELSE /\ armed' = FALSE
            /\ UNCHANGED <<ctr, buf, data, rxrdy, irq>>
  /\ UNCHANGED <<host, overrun, control, serving, history>>

\* keyboard_callback: answers first; a byte that is not read yet is announced
\* again.
KeyboardCallback ==
  /\ armed
  /\ IF ctr \o buf # <<>>
       THEN /\ rxrdy' = TRUE
            /\ IF rxrdy THEN UNCHANGED <<ctr, buf, data>>
               ELSE /\ data' = Head(ctr \o buf)
                    /\ IF ctr # <<>> THEN ctr' = Tail(ctr) /\ UNCHANGED buf
                                     ELSE buf' = Tail(buf) /\ UNCHANGED ctr
            /\ irq' = TRUE
            /\ UNCHANGED armed
       ELSE /\ armed' = FALSE
            /\ UNCHANGED <<ctr, buf, data, rxrdy, irq>>
  /\ UNCHANGED <<host, overrun, control, serving, history>>

-----------------------------------------------------------------------------
(* The guest. *)

\* What a byte tells of the keys that are pressed.
Told(S, byte) ==
  CASE byte[1] = "make" -> S \cup {byte[2]}
    [] byte[1] = "break" -> S \ {byte[2]}
    [] OTHER -> S

\* The interrupt is taken.
Deliver ==
  /\ irq /\ ~serving
  /\ irq' = FALSE /\ serving' = TRUE
  /\ UNCHANGED <<host, queues, port, control, history>>

\* Mutant of ReadData: the request is not taken back.
ReadDataKeepsIrq ==
  /\ rxrdy
  /\ rxrdy' = FALSE
  /\ serving' = FALSE
  /\ seen' = Told(seen, data)
  /\ UNCHANGED <<host, queues, data, overrun, control, irq, synced>>

\* keyboard_i41, by a handler or by a program that polls keyboard_i43.
ReadData ==
  /\ rxrdy
  /\ rxrdy' = FALSE /\ irq' = FALSE
  /\ serving' = FALSE
  /\ seen' = Told(seen, data)
  /\ UNCHANGED <<host, queues, data, overrun, control, synced>>

\* A handler that finds no byte returns.
HandlerReturns ==
  /\ serving /\ ~rxrdy
  /\ serving' = FALSE
  /\ UNCHANGED <<host, queues, port, control, irq, history>>

\* keyboard_o41 with TxEN: keystat_ctrlsend.  Without, the mode is written, which
\* nothing reads.
Command(dat) ==
  /\ txe /\ param = "none"
  /\ param' = IF dat \in {"95", "9c", "9d"} THEN dat ELSE "none"
  /\ SendAnswers(CASE dat \in {"95", "9c", "9d"} -> <<"fa">>
                   [] dat = "96" -> <<"fa", "a0", "83">>
                   [] dat = "9f" -> <<"fa", "a0", "80">>
                   [] OTHER -> <<"fc">>)
  /\ UNCHANGED <<host, buf, port, stop, txe, rst, irq, serving, history>>

\* The parameter of a command.  9Dh takes 60h, which asks for the lamps, and 7xh,
\* which sets them, and does not answer another byte.
Parameter(dat) ==
  /\ txe /\ param # "none"
  /\ param' = "none"
  /\ stop' = IF param = "9c" THEN dat = "70" ELSE stop
  /\ ref' = IF param = "9d" /\ dat \in {"70", "7c"}
              THEN [k \in Keys |-> IF k \notin Lamps THEN ref[k]
                                   ELSE IF dat = "7c" THEN "uPD8255" ELSE NC]
              ELSE ref
  /\ SendAnswers(CASE param # "9d" \/ dat \in {"70", "7c"} -> <<"fa">>
                   [] param = "9d" /\ dat = "60" -> <<"fa", "lamps">>
                   [] OTHER -> <<>>)
  /\ UNCHANGED <<repeat, rep, buf, port, txe, rst, irq, serving, history>>

\* Mutant of Resent: the keys that are held are not sent again.
ResentNone == <<>>

\* keystat_resendstat.
Resent == Makes(Pressed)

\* Mutant of ResetSignal: the event is reset last.
ResetSignalDisarms ==
  /\ ctr' = <<>> /\ buf' = Resent
  /\ armed' = FALSE
  /\ rxrdy' = FALSE /\ overrun' = FALSE
  /\ param' = "none" /\ rep' = <<>>
  /\ seen' = {} /\ synced' = TRUE

\* keyboard_resetsignal empties the queues and sends the keys that are held; a
\* request at the interrupt controller stays.
ResetSignal ==
  /\ ctr' = <<>> /\ buf' = Resent
  /\ armed' = (Resent # <<>>)
  /\ rxrdy' = FALSE /\ overrun' = FALSE
  /\ param' = "none" /\ rep' = <<>>
  /\ seen' = {} /\ synced' = TRUE

\* keyboard_o43: the bits 0, 3 and 4 of the command.
OutCommand(enable, reset, clear) ==
  /\ txe' = enable /\ rst' = reset
  /\ IF rst /\ ~reset
       THEN ResetSignal
       ELSE /\ overrun' = (overrun /\ ~clear)
            /\ UNCHANGED <<queues, rxrdy, param, rep, history>>
  /\ UNCHANGED <<ref, repeat, data, stop, irq, serving>>

-----------------------------------------------------------------------------

Init ==
  /\ ref = [k \in Keys |-> NC]
  /\ stop = FALSE /\ param = "none"
  /\ setup \in Setups
  /\ repeat \in setup.repeats /\ rep = <<>>
  /\ ctr = <<>> /\ buf = <<>> /\ armed = FALSE
  /\ data = <<"none", "ff">> /\ rxrdy = FALSE /\ overrun = FALSE
  /\ txe = FALSE /\ rst = FALSE
  /\ irq = FALSE /\ serving = FALSE
  /\ seen = {} /\ synced = TRUE

\* pccore_reset: keyboard_reset, keyboard_bind, pic_reset and, last,
\* keystat_initialize, which takes all keys for released but keeps keyrepeat_buf:
\* until the guest resets the keyboard a key in it goes on repeating.
MachineReset ==
  /\ ref' = [k \in Keys |-> NC] /\ stop' = FALSE
  /\ param' = "none"
  /\ ctr' = <<>> /\ buf' = <<>> /\ armed' = FALSE
  /\ data' = <<"none", "ff">> /\ rxrdy' = FALSE /\ overrun' = FALSE
  /\ txe' = FALSE /\ rst' = FALSE
  /\ irq' = FALSE /\ serving' = FALSE
  /\ seen' = {} /\ synced' = (rep = <<>>)
  /\ UNCHANGED <<repeat, rep>>

HostActs ==
  \/ \E h \in setup.hosts : KeyDown(h) \/ KeyUp(h)
  \/ AllRelease \/ KeyRepeatProc \/ ToggleRepeat

\* A guest that sends no commands need not set TxEN.
GuestCommands ==
  \/ \E dat \in setup.commands : Command(dat) \/ Parameter(dat)
  \/ \E enable, reset, clear \in BOOLEAN :
       /\ enable => setup.commands # {}
       /\ OutCommand(enable, reset, clear)

GuestReads == Deliver \/ ReadData \/ HandlerReturns

Next ==
  HostActs \/ GuestCommands \/ GuestReads \/ KeyboardCallback \/ MachineReset

Spec == Init /\ [][Next /\ UNCHANGED setup]_<<vars, setup>>

\* The event comes, interrupts are taken, and the handler reads its byte.
FairSpec == Spec /\ WF_vars(KeyboardCallback) /\ WF_vars(Deliver)
                 /\ WF_vars(serving /\ (ReadData \/ HandlerReturns))

-----------------------------------------------------------------------------
(* Properties. *)

\* The type of the state; the ring of the answers, which drops what does not fit
\* without a sign, never fills up.
TypeOK ==
  /\ ref \in [Keys -> Hosts \cup {"uPD8255", NC}]
  /\ param \in {"none", "95", "9c", "9d"}
  /\ rep \in Seq(Keys) /\ Len(rep) <= RepMax
  /\ ctr \in Seq(Answers) /\ Len(ctr) < CtrMax
  /\ buf \in Seq(Codes) /\ Len(buf) <= BufMax
  /\ data \in Codes \cup Answers \cup {<<"none", "ff">>}
  /\ {stop, repeat, rxrdy, overrun, txe, rst, armed, irq, serving, synced}
       \subseteq BOOLEAN
  /\ seen \subseteq Keys
  /\ setup \in Setups

\* What the guest takes for pressed when it has read some codes: the last one of each
\* key counts.
After(S, codes) ==
  {k \in Keys :
     LET own == {i \in DOMAIN codes : codes[i] \in {Make(k), Break(k)}}
     IN IF own = {} THEN k \in S
        ELSE \E i \in own : codes[i] = Make(k) /\ \A j \in own : j <= i}

\* And when it has read all that is on the way.
InFlight == IF rxrdy THEN <<data>> \o buf ELSE buf
ToBeSeen == After(seen, InFlight)

\* No key sticks and none is lost: unless a code was dropped, what the guest has
\* read and what is on the way amount to the keys that are pressed, whichever host
\* keys share a code, whatever is repeated, released with the focus, or answered
\* in between; and only keys that are held repeat.  (The lamps are excepted, which the
\* guest may set by a command while their code is on the way.)
NoKeySticks ==
  synced => /\ ToBeSeen \ Lamps = Pressed \ Lamps
            /\ repeat => ToSet(rep) \subseteq Pressed

\* An interrupt without a byte comes from a reset of the keyboard only.
NoSpuriousInterrupt ==
  [][ irq' /\ ~rxrdy' => irq /\ (~rxrdy \/ (rst /\ ~rst')) ]_vars

\* When the host and the guest's commands come to rest, all bytes are read, the
\* last one too.
BytesArrive ==
  <>[][~HostActs /\ ~GuestCommands]_vars =>
    []<>(ctr = <<>> /\ buf = <<>> /\ ~rxrdy)
=============================================================================
