------------------------------- MODULE Timers -------------------------------
(***************************************************************************)
(* What the event scheduler of nevent.c promises its clients, without the  *)
(* sorted array, the time slice or the CPU's countdown: a set of timers,   *)
(* each with the virtual time that remains until it is due.                *)
(*                                                                         *)
(*  - An instruction starts only when no armed timer is due and no         *)
(*    callback is owed (Tick).                                             *)
(*  - A timer expires only when it is due, and in the order of the due     *)
(*    times (Expire).                                                      *)
(*  - A callback that re-arms its own timer counts from the time at which  *)
(*    the timer was due, not from the time at which the callback ran, so   *)
(*    a periodic timer does not drift (Rearm).                             *)
(*  - Arming, disarming or firing one timer moves no other timer.          *)
(***************************************************************************)
EXTENDS Integers

CONSTANTS ID,       \* the timers
          Delays,   \* delays and periods a client may ask for
          Costs,    \* clocks an instruction may take
          Loose     \* timers that may be armed relative to a forgotten origin

VARIABLES armed,    \* timers that are counting down
          pending,  \* timers that expired and whose callback is still owed
          remain    \* clocks left; not positive when due, 0 when idle

vars == <<armed, pending, remain>>

Idle == [id \in ID |-> 0]

Init == armed = {} /\ pending = {} /\ remain = Idle

\* Time passes: every armed timer comes closer by the same amount, the cost of
\* one instruction or, when the CPU idles (HLT, a BIOS wait), up to one clock
\* past the earliest timer.
Tick ==
  /\ pending = {}
  /\ \A id \in armed : remain[id] > 0
  /\ remain' \in [ID -> Int]
  /\ \A id \in armed :
       /\ remain'[id] < remain[id]
       /\ remain[id] - remain'[id] \in Costs \/ remain'[id] >= -1
       /\ \A j \in armed : remain[id] - remain'[id] = remain[j] - remain'[j]
  /\ \A id \in ID \ armed : remain'[id] = 0
  /\ UNCHANGED <<armed, pending>>

\* Arm a timer d clocks from now; a callback that is owed is called off.
Arm(id, d) ==
  /\ armed' = armed \cup {id}
  /\ pending' = pending \ {id}
  /\ remain' = [remain EXCEPT ![id] = d]

\* Arm such a timer: any remaining time.
ArmStale(id) ==
  /\ id \in Loose \ pending
  /\ armed' = armed \cup {id}
  /\ remain' \in [ID -> Int]
  /\ \A j \in ID \ {id} : remain'[j] = remain[j]
  /\ UNCHANGED pending

\* The callback of id re-arms id, counting from the time it was due.
Rearm(id, d) ==
  /\ id \in pending
  /\ Arm(id, remain[id] + d)

Disarm(id) ==
  /\ armed' = armed \ {id}
  /\ remain' = [remain EXCEPT ![id] = IF id \in pending THEN @ ELSE 0]
  /\ UNCHANGED pending

\* The timers of S expire: each is due, and no other one is due as early.
Expire(S) ==
  /\ pending = {}
  /\ \A id \in S : /\ remain[id] <= 0
                   /\ \A j \in armed \ S : remain[id] < remain[j]
  /\ armed' = armed \ S
  /\ pending' = S
  /\ UNCHANGED remain

\* The callback of id returns.
Return(id) ==
  /\ id \in pending
  /\ pending' = pending \ {id}
  /\ remain' = [remain EXCEPT ![id] = 0]
  /\ UNCHANGED armed

\* The CPU clock changes: remaining times are rescaled, their order stays.
Rescale ==
  /\ pending = {}
  /\ remain' \in [ID -> Int]
  /\ \A i, j \in armed : remain'[i] < remain'[j] => remain[i] < remain[j]
  /\ \A i \in ID \ armed : remain'[i] = 0
  /\ UNCHANGED <<armed, pending>>

\* Machine reset.
Reset == armed' = {} /\ pending' = {} /\ remain' = Idle

Next ==
  \/ Tick
  \/ \E id \in ID : \/ \E d \in Delays : Arm(id, d) \/ Rearm(id, d)
                    \/ ArmStale(id) \/ Disarm(id) \/ Return(id)
  \/ \E S \in SUBSET armed : Expire(S)
  \/ Rescale
  \/ Reset

Spec == Init /\ [][Next]_vars
=============================================================================
