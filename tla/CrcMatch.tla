------------------------------ MODULE CrcMatch ------------------------------
(***************************************************************************)
(* The checksum log over one match.  Each console's transport reports the  *)
(* ticks of its stamps in order, repeats the one it is on, and may skip    *)
(* some; lockstep keeps the two a few ticks apart.  They may disagree at   *)
(* one tick of the match, the hardest disagreement to notice.  The relay   *)
(* is Python's, or C's with its array of slots.                            *)
(***************************************************************************)
EXTENDS CrcLog

CONSTANTS
  Mate(_),          \* the partner of a connection
  Delay,            \* CBD: the stamp of the first record
  Lead,             \* stamps one console can be ahead of the other
  CrcSlots,         \* CRC_SLOTS
  MaxSkip,          \* ticks a transport moves on by at most
  MaxTick           \* last tick of the match

ASSUME MatchAssumption ==
  /\ Conn # {} /\ \A c \in Conn : Mate(c) # c /\ Conn = {c, Mate(c)}
  /\ Delay \in Nat /\ Lead \in Nat /\ MaxTick \in Nat
  /\ MaxSkip \in Nat /\ MaxSkip < WireTicks \div 2
  /\ Delay + MaxSkip <= WireTicks   \* the first record is of the first lap
  /\ Lead < Keep                    \* a log holds all one can be ahead by
  /\ CrcSlots \in Nat /\ Keep < CrcSlots

VARIABLES
  newest,           \* the tick of each console's latest record, unbounded
  split,            \* the tick at which the two simulations differ
  said,             \* has a console reported that tick?
  slots             \* of a log: CrcSlots in C, None in Python

vars == <<logVars, newest, split, said, slots>>

\* The checksum a console samples for a tick: no two ticks have the same, and
\* one console's differs at `split'.
Sample(c, t) == IF t = split /\ c = CHOOSE d \in Conn : TRUE THEN 2 * t + 1 ELSE 2 * t

Init ==
  /\ LogInit
  /\ newest = [c \in Conn |-> Delay - 1]
  /\ split \in Delay..(MaxTick + 1)
  /\ said = [c \in Conn |-> FALSE]
  /\ slots \in {None, CrcSlots}

\* One INPUT record reaches the relay.
Report(c, t) ==
  /\ Delay <= t /\ newest[c] <= t /\ t <= newest[c] + MaxSkip
  /\ t <= newest[Mate(c)] + Lead /\ t <= MaxTick
  /\ LogCrc(c, Mate(c), t % WireTicks, Sample(c, t), slots)
  /\ newest' = [newest EXCEPT ![c] = t]
  /\ said' = [said EXCEPT ![c] = @ \/ t = split]
  /\ UNCHANGED <<split, slots>>

Next == \E c \in Conn, t \in Delay..MaxTick : Report(c, t)

Spec == Init /\ [][Next]_vars

\* The relay's one line is right: it says the consoles disagreed when, and only
\* when, both have reported a tick at which they did, and not before, whatever
\* it has evicted, paired twice or carried over a wrap of the tick byte, and
\* whatever a full array has overwritten.
VerdictRight == bad <=> \A c \in Conn : said[c]
=============================================================================
