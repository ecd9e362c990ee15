------------------------------- MODULE CrcLog -------------------------------
(***************************************************************************)
(* What the relay keeps of the checksums that ride in the INPUT records    *)
(* (Server.log_crc of src/server/combat_relay_server.py): for each         *)
(* connection an insertion-ordered map from tick to checksum, and the lap  *)
(* its eight-bit ticks are on.  The operators act on the map of whichever  *)
(* console a record came from and on its partner's.                        *)
(***************************************************************************)
EXTENDS Integers, Sequences

CONSTANTS
  Conn,             \* connections
  None,             \* Python's None, for a connection or a name
  WireTicks,        \* values of the tick byte, 2^8
  Keep              \* entries a log is trimmed to, 8

ASSUME LogAssumption ==
  /\ None \notin Conn
  /\ WireTicks \in Nat /\ WireTicks >= 2 /\ Keep \in Nat \ {0}

VARIABLES
  crc,              \* Client.crc: the entries still to be paired, oldest first
  lap,              \* Client.lap
  last,             \* Client.last_tick, -1 for None
  bad               \* has stats["crc_bad"] ever been counted up?

logVars == <<crc, lap, last, bad>>

LogInit ==
  /\ crc = [c \in Conn |-> <<>>]
  /\ lap = [c \in Conn |-> 0]
  /\ last = [c \in Conn |-> -1]
  /\ bad = FALSE

Holds(log, key) == \E i \in DOMAIN log : log[i].key = key

\* Assignment to a key of a dict: a key it has keeps its place.
Put(log, key, sum) ==
  LET e == [key |-> key, sum |-> sum]
  IN  IF Holds(log, key)
      THEN [i \in DOMAIN log |-> IF log[i].key = key THEN e ELSE log[i]]
      ELSE Append(log, e)

\* crc_set: the same in C's array of so many slots, where the newest entry gives
\* way when it is full.  Python's dict has None.
Assign(log, key, sum, slots) ==
  IF slots = None \/ Holds(log, key) \/ Len(log) < slots
  THEN Put(log, key, sum)
  ELSE Append(SubSeq(log, 1, slots - 1), [key |-> key, sum |-> sum])

\* Deletion from a dict: the rest keeps its order.
Cut(s, i) == SubSeq(s, 1, i - 1) \o SubSeq(s, i + 1, Len(s))

Place(log, key) == CHOOSE i \in DOMAIN log : log[i].key = key

Sum(log, key) == log[Place(log, key)].sum

Without(log, key) == Cut(log, Place(log, key))

\* Mutant: one entry too few is kept.
Youngest_One(log) == IF log = <<>> THEN log ELSE <<log[Len(log)]>>

\* Eviction by age.
Youngest(log) == IF Len(log) > Keep THEN SubSeq(log, Len(log) - Keep + 1, Len(log)) ELSE log

\* Mutant: a tick is a tick, whatever lap it is on.
LapAfter_Flat(c, tick) == 0

\* A tick that jumps backwards by more than half the range is a wrap.
LapAfter(c, tick) ==
  LET delta == (tick - last[c]) % WireTicks
  IN  IF last[c] # -1 /\ 0 < delta /\ delta < WireTicks \div 2 /\ tick < last[c]
      THEN lap[c] + 1 ELSE lap[c]

\* c reports `sum' for `tick', and p is its partner.
LogCrc(c, p, tick, sum, slots) ==
  LET key == LapAfter(c, tick) * WireTicks + tick
      mine == Assign(crc[c], key, sum, slots)
  IN  /\ lap' = [lap EXCEPT ![c] = LapAfter(c, tick)]
      /\ last' = [last EXCEPT ![c] = tick]
      /\ IF p = None \/ ~Holds(crc[p], key)
         THEN /\ crc' = [crc EXCEPT ![c] = Youngest(mine)]
              /\ UNCHANGED bad
         ELSE /\ crc' = [crc EXCEPT ![c] = mine, ![p] = Without(@, key)]
              /\ bad' = (bad \/ Sum(crc[p], key) # sum)

\* try_pair, on the two consoles it puts together: the laps stay.
ClearLogs(S) == crc' = [c \in Conn |-> IF c \in S THEN <<>> ELSE crc[c]]

LogTypeOK ==
  /\ crc \in [Conn -> Seq([key : Nat, sum : Nat])]
  /\ lap \in [Conn -> Nat]
  /\ last \in [Conn -> -1..(WireTicks - 1)]
  /\ bad \in BOOLEAN
=============================================================================
