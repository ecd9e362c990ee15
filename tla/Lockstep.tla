------------------------------ MODULE Lockstep ------------------------------
(***************************************************************************)
(* What the netcode promises the game, with no network in it: each console *)
(* commits one byte of input per tick, Delay ticks ahead of the tick it is *)
(* for, and runs a tick on the bytes both have committed to it.  Nothing   *)
(* but those bytes decides what a console computes, and nobody waits for   *)
(* anything but the other's byte.  NetPlay implements it.                  *)
(***************************************************************************)
EXTENDS Naturals

CONSTANTS
  Console,          \* who plays
  Bytes, Seed,      \* what a byte can be, and the bytes of the first ticks
  Delay,            \* how far ahead a byte is committed
  SimStart,         \* the game's state at the start of a match
  SimStep(_, _)     \* one tick of it

VARIABLES
  said,             \* said[c][t]: the byte c has committed to for tick t
  done,             \* done[c]: the ticks c has run
  state             \* state[c]: what the game has come to on c

vars == <<said, done, state>>

Init ==
  /\ said = [c \in Console |-> [t \in 0..(Delay - 1) |-> Seed]]
  /\ done = [c \in Console |-> 0]
  /\ state = [c \in Console |-> SimStart]

\* c commits to its byte for tick t, and takes none back.
Says(c, t) ==
  /\ t \in DOMAIN said'[c] /\ said'[c][t] \in Bytes
  /\ said' = [said EXCEPT ![c] = [u \in 0..t |-> IF u = t THEN said'[c][t] ELSE @[u]]]

\* One byte for each tick run.
Say(c) ==
  LET t == done[c] + Delay
  IN  IF t \in DOMAIN said[c] THEN UNCHANGED said ELSE Says(c, t)

\* A tick is run when both have committed their byte to it.
Run(c) ==
  LET t == done[c] IN
  /\ done' = [done EXCEPT ![c] = t + 1]
  /\ \A q \in Console : t \in DOMAIN said'[q]
  /\ state' = [state EXCEPT ![c] =
                 SimStep(@, [q \in Console |-> said'[q][t]])]

Turn(c) == Say(c) /\ (Run(c) \/ UNCHANGED <<done, state>>)

Next == \E c \in Console : Turn(c)

Spec == Init /\ [][Next]_vars
=============================================================================
