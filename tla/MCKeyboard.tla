----------------------------- MODULE MCKeyboard -----------------------------
EXTENDS Keyboard

CONSTANTS a, b, caps, w, x, y, z

\* Two host keys for one code, another key, and CAPS as a locking key.
SharedCode ==
  [h \in {w, x, y, z} |-> IF h = z THEN caps ELSE IF h = w THEN b ELSE a]

\* Four users with their guests: the first presses two host keys of one code and
\* the second two keys, while the emulator may take over the repeating; the third
\* holds a key while a guest stops it from repeating and asks for the type of the
\* keyboard; the last locks CAPS while a guest asks for the lamps and sets them.
FourUsers ==
  {[hosts |-> {x, y}, commands |-> {}, repeats |-> {TRUE, FALSE}],
   [hosts |-> {w, x}, commands |-> {}, repeats |-> {TRUE}],
   [hosts |-> {x}, commands |-> {"9c", "9f", "70"}, repeats |-> {FALSE}],
   [hosts |-> {z}, commands |-> {"9d", "60", "70"}, repeats |-> {FALSE}]}
=============================================================================
