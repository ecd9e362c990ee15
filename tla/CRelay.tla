------------------------------- MODULE CRelay -------------------------------
(***************************************************************************)
(* The relay in C, server/c/src/combat-relay.c, which is to do what the    *)
(* Python one does.  What Python has for nothing it keeps by hand: a       *)
(* connection is an index into clients[], partners and names refer to it   *)
(* by that index, and epoll hands back a tag for it that may be out of     *)
(* date.  An iteration of the loop is a batch of events, a flush of every  *)
(* connection, a sweep, and only then is the slot of a dropped one free.   *)
(***************************************************************************)
EXTENDS Integers, Sequences, FiniteSets

CONSTANTS
  Conn, None, Names, Variants(_), Addr(_), MaxClients, MaxPerAddr, MaxTx,
  Asked, Reports, WireTicks, Keep,    \* as in Relay
  CrcSlots,         \* CRC_SLOTS
  LogSlots,         \* the room of the relay it is compared with: CRC_SLOTS, or a dict
  Gens              \* values of client_t.gen, 2^32

ASSUME CRelayAssumption ==
  /\ None \notin Conn /\ Conn \cap {"lobby", "left"} = {}
  /\ None \notin Names /\ IsFiniteSet(Names)
  /\ Asked \subseteq Names /\ \A n \in Names : Variants(n) \subseteq Names
  /\ MaxClients \in Nat /\ MaxPerAddr \in Nat /\ MaxTx \in Nat \ {0}
  /\ WireTicks \in Nat /\ WireTicks >= 2 /\ Keep \in Nat \ {0}
  /\ Reports \subseteq [tick : 0..(WireTicks - 1), sum : Nat]
  /\ CrcSlots \in Nat /\ CrcSlots > Keep /\ LogSlots \in {None, CrcSlots}
  /\ Gens \in Nat \ {0}

VARIABLES
  client,           \* clients[], with the connection a slot was allocated for
  order,            \* order[]: the slots in use and not dead, oldest first
  by_name,          \* the slot and generation that hold each name
  phase,            \* where the loop is: "batch" or "flush"
  tags,             \* what epoll_wait returned for this batch
  walk,             \* snap[]: the slots still to be flushed
  bad,              \* has stats.crc_bad ever been counted up?
  told,             \* the count last given to the lobby
  heard             \* what each console has read, as in Relay

loopVars == <<phase, tags, walk>>
vars     == <<client, order, by_name, loopVars, bad, told, heard>>

Slot == 0..(MaxClients - 1)

LISTEN == [slot |-> -1, gen |-> 0, conn |-> None]   \* TAG_LISTEN

Tag(s) == [slot |-> s, gen |-> client[s].gen, conn |-> client[s].conn]

Live(s) == client[s].in_use /\ ~client[s].dead

\* Where a slot is in order[].
Place(s) == CHOOSE i \in DOMAIN order : order[i] = s

\* The live slot of a connection, -1 for none.
SlotOf(c) ==
  LET mine == {s \in Slot : Live(s) /\ client[s].conn = c}
  IN  IF mine = {} THEN -1 ELSE CHOOSE s \in mine : TRUE

\* A slot that has never been used.
Blank ==
  [in_use |-> FALSE, dead |-> FALSE, gen |-> 0, conn |-> None, name |-> None,
   partner |-> -1, role |-> None, tx |-> <<>>, crc |-> <<>>, lap |-> 0, last |-> -1]

\* What the relay knows of the connection c, which may have no slot.
Of(c) == IF SlotOf(c) = -1 THEN Blank ELSE client[SlotOf(c)]

ConnAt(s) == IF s = -1 THEN None ELSE client[s].conn

\* The Python relay, with an index for every reference.
Python == INSTANCE Relay WITH
  clients <- [i \in DOMAIN order |-> client[order[i]].conn],
  holder  <- [n \in Names |-> ConnAt(by_name[n].slot)],
  name    <- [c \in Conn |-> Of(c).name],
  partner <- [c \in Conn |-> ConnAt(Of(c).partner)],
  role    <- [c \in Conn |-> Of(c).role],
  tx      <- [c \in Conn |-> Of(c).tx],
  crc     <- [c \in Conn |-> Of(c).crc],
  lap     <- [c \in Conn |-> Of(c).lap],
  last    <- [c \in Conn |-> Of(c).last]

-----------------------------------------------------------------------------
(* Slots *)

NoName == [slot |-> -1, gen |-> 0]

Taken(names) == {n \in Names : names[n].slot # -1}

\* Mutant: the slot is free at once, and its generation stays.
Retired_AtOnce(r) == [r EXCEPT !.dead = TRUE, !.in_use = FALSE]

\* The slot is freed at the end of the iteration only, and the index of its
\* partner stays in it.
Retired(r) == [r EXCEPT !.dead = TRUE]

\* Mutant: the partner is told, but keeps the index.
Dropped_Linked(s) ==
  [t \in Slot |->
     IF t = s THEN Retired(client[s])
     ELSE IF t = client[s].partner
          THEN [client[t] EXCEPT !.tx = Append(@, Python!LEFT)]
          ELSE client[t]]

\* drop: the partner's link is cleared, the dropped console's is not.
Dropped(s) ==
  [t \in Slot |->
     IF t = s THEN Retired(client[s])
     ELSE IF t = client[s].partner
          THEN [client[t] EXCEPT !.partner = -1, !.tx = Append(@, Python!LEFT)]
          ELSE client[t]]

\* name_del_if_is
NameDeleted(s) ==
  [n \in Names |-> IF n = client[s].name /\ by_name[n] = [slot |-> s, gen |-> client[s].gen]
                   THEN NoName ELSE by_name[n]]

Drop(s) ==
  /\ client' = Dropped(s)
  /\ by_name' = NameDeleted(s)
  /\ order' = Python!Cut(order, Place(s))
  /\ told' = Cardinality(Taken(by_name'))
  /\ heard' = [heard EXCEPT ![client[s].conn] = "lobby"]
  /\ UNCHANGED bad

\* Mutant: the partner of the slot's last connection is left in it.
Allocated_Dirty(s, c) ==
  [client[s] EXCEPT !.in_use = TRUE, !.dead = FALSE, !.conn = c, !.name = None,
                    !.role = None, !.tx = <<>>, !.crc = <<>>, !.lap = 0, !.last = -1]

\* client_alloc: every field but the generation.
Allocated(s, c) ==
  [in_use |-> TRUE, dead |-> FALSE, gen |-> client[s].gen, conn |-> c, name |-> None,
   partner |-> -1, role |-> None, tx |-> <<>>, crc |-> <<>>, lap |-> 0, last |-> -1]

Accept(c) ==
  LET free == {s \in Slot : ~client[s].in_use}
      s == CHOOSE i \in free : \A j \in free : i <= j
  IN  /\ LISTEN \in tags /\ SlotOf(c) = -1
      /\ Len(order) < MaxClients
      /\ Cardinality({i \in DOMAIN order : Addr(client[order[i]].conn) = Addr(c)}) < MaxPerAddr
      /\ free # {}
      /\ client' = [client EXCEPT ![s] = Allocated(s, c)]
      /\ order' = Append(order, s)
      /\ tags' = tags \ {LISTEN}
      /\ UNCHANGED <<by_name, phase, walk, bad, told, heard>>

\* reap
Reaped ==
  [s \in Slot |-> IF client[s].in_use /\ client[s].dead
                  THEN [client[s] EXCEPT !.in_use = FALSE, !.gen = (@ + 1) % Gens]
                  ELSE client[s]]

-----------------------------------------------------------------------------
(* What a frame does *)

\* Bound, as in Relay.
Room == \A s \in Slot : Live(s) => Len(client[s].tx) <= MaxTx

\* The other idle connections, by their places in order[].
Waiting(s, cl) ==
  {i \in DOMAIN order :
     order[i] # s /\ cl[order[i]].name # None /\ cl[order[i]].partner = -1}

\* The oldest of them, -1 for none: order[] is the order of their births.
Oldest(s, cl) ==
  LET w == Waiting(s, cl)
  IN  IF w = {} THEN -1 ELSE order[CHOOSE i \in w : \A j \in w : i <= j]

Matched(r, other, side) ==
  [r EXCEPT !.partner = other, !.role = side, !.crc = <<>>,
            !.tx = Append(@, Python!START(client[other].conn))]

TryPair(s, cl) ==
  LET o == Oldest(s, cl) IN
  /\ o # -1 => Room
  /\ client' = IF o = -1 THEN cl
               ELSE [cl EXCEPT ![o] = Matched(@, s, 0), ![s] = Matched(@, o, 1)]

Named(n) ==
  IF by_name[n].slot = -1 THEN {n} ELSE {w \in Variants(n) : by_name[w].slot = -1}

Hello(s, w) ==
  /\ client[s].name = None
  /\ by_name' = [by_name EXCEPT ![w] = [slot |-> s, gen |-> client[s].gen]]
  /\ told' = Cardinality(Taken(by_name'))
  /\ TryPair(s, [client EXCEPT ![s].name = w])
  /\ UNCHANGED <<order, bad, heard>>

\* From a console that is not in a match, as in Relay.
Join(s) ==
  /\ client[s].name # None /\ client[s].partner = -1
  /\ TryPair(s, client)
  /\ UNCHANGED <<order, by_name, bad, told, heard>>

\* LIST, PING
Query(s) ==
  /\ heard[client[s].conn] = "lobby" /\ Room
  /\ client' = [client EXCEPT ![s].tx = Append(@, Python!REPLY)]
  /\ UNCHANGED <<order, by_name, bad, told, heard>>

LapAfter(r, tick) ==
  LET delta == (tick - r.last) % WireTicks
  IN  IF r.last # -1 /\ 0 < delta /\ delta < WireTicks \div 2 /\ tick < r.last
      THEN r.lap + 1 ELSE r.lap

\* An INPUT record is queued for the partner, and its checksum logged.
Input(s, rep) ==
  LET p    == client[s].partner
      key  == LapAfter(client[s], rep.tick) * WireTicks + rep.tick
      mine == Python!Assign(client[s].crc, key, rep.sum, CrcSlots)
      hit  == p # -1 /\ Python!Holds(client[p].crc, key)
  IN  /\ heard[client[s].conn] # "lobby" /\ Room
      /\ client' = [t \in Slot |->
           IF t = s
           THEN [client[s] EXCEPT !.lap = LapAfter(client[s], rep.tick), !.last = rep.tick,
                                  !.crc = IF hit THEN mine ELSE Python!Youngest(mine)]
           ELSE IF t = p
           THEN [client[p] EXCEPT !.tx = Append(@, Python!INPUT(client[s].conn)),
                                  !.crc = IF hit THEN Python!Without(@, key) ELSE @]
           ELSE client[t]]
      /\ bad' = (bad \/ (hit /\ Python!Sum(client[p].crc, key) # rep.sum))
      /\ UNCHANGED <<order, by_name, told, heard>>

\* flush, with room in the socket for k frames: send may fail, and what is left may
\* be more than a connection is allowed to owe.
Flush(s, k) ==
  LET rest == SubSeq(client[s].tx, k + 1, Len(client[s].tx)) IN
  /\ k <= Len(client[s].tx)
  /\ \/ (k = 0 \/ Len(rest) > MaxTx) /\ Drop(s)
     \/ /\ Len(rest) <= MaxTx
        /\ client' = [client EXCEPT ![s].tx = rest]
        /\ heard' = [heard EXCEPT ![client[s].conn] =
                        Python!Heard(@, SubSeq(client[s].tx, 1, k))]
        /\ UNCHANGED <<order, by_name, bad, told>>

-----------------------------------------------------------------------------
(* The loop *)

Init ==
  /\ client = [s \in Slot |-> Blank]
  /\ order = <<>>
  /\ by_name = [n \in Names |-> NoName]
  /\ phase = "batch" /\ tags = {LISTEN} /\ walk = <<>>
  /\ bad = FALSE /\ told = 0
  /\ heard = [c \in Conn |-> "lobby"]

\* The slot of the tag is in use, by the connection the tag was made for as far
\* as its generation tells.
Fresh(t) == t # LISTEN /\ Live(t.slot) /\ client[t.slot].gen = t.gen

\* A frame that one recv brought, or room for the backlog; BYE, a bad frame, a
\* HELLO that is refused and a closed socket all drop the connection.
Service(s) ==
  /\ \/ Drop(s) \/ Join(s) \/ Query(s)
     \/ \E n \in Asked : \E w \in Named(n) : Hello(s, w)
     \/ \E rep \in Reports : Input(s, rep)
     \/ \E k \in 1..(MaxTx + 2) : Flush(s, k)
  /\ UNCHANGED loopVars

Batch ==
  /\ phase = "batch"
  /\ \/ \E c \in Conn : Accept(c)
     \/ \E t \in tags : Fresh(t) /\ Service(t.slot)

\* What the rest of the batch would have brought comes in a later one.
BatchEnds ==
  /\ phase = "batch"
  /\ phase' = "flush" /\ walk' = order /\ tags' = {}
  /\ UNCHANGED <<client, order, by_name, bad, told, heard>>

Owed == {i \in DOMAIN walk : Live(walk[i]) /\ client[walk[i]].tx # <<>>}

\* The next in order[] that is owed something, by now.
FlushNext ==
  /\ phase = "flush" /\ Owed # {}
  /\ LET i == CHOOSE i \in Owed : \A j \in Owed : i <= j IN
     /\ \E k \in 0..(MaxTx + 2) : Flush(walk[i], k)
     /\ walk' = SubSeq(walk, i + 1, Len(walk))
  /\ UNCHANGED <<phase, tags>>

\* sweep drops a connection that has not said HELLO in time.
Sweep ==
  /\ phase = "flush" /\ Owed = {}
  /\ \E s \in Slot : Live(s) /\ client[s].name = None /\ Drop(s)
  /\ walk' = <<>>
  /\ UNCHANGED <<phase, tags>>

\* The slots of the dropped are freed, and epoll_wait returns.
Poll ==
  /\ phase = "flush" /\ Owed = {}
  /\ client' = Reaped
  /\ phase' = "batch" /\ walk' = <<>>
  /\ tags' = {LISTEN} \cup {Tag(s) : s \in {t \in Slot : Live(t)}}
  /\ UNCHANGED <<order, by_name, bad, told, heard>>

Next == Batch \/ BatchEnds \/ FlushNext \/ Sweep \/ Poll

Spec == Init /\ [][Next]_vars

-----------------------------------------------------------------------------
(* Properties *)

\* The loop's comment: "A client can be dropped and its slot reused by an
\* accept() inside this very batch."  An event that is handled is about the
\* connection it was polled for.
TagsHonest == \A t \in tags : Fresh(t) => client[t.slot].conn = t.conn

\* order[] is the slots in use that are not dead, each once, and what they and
\* the names refer to by index is one of them: a partner's slot is never
\* another's by the time it is used.
IndicesLive ==
  /\ Len(order) = Cardinality({order[i] : i \in DOMAIN order})
  /\ {order[i] : i \in DOMAIN order} = {s \in Slot : Live(s)}
  /\ \A s \in Slot : Live(s) /\ client[s].partner # -1 =>
       Live(client[s].partner) /\ client[client[s].partner].partner = s
  /\ \A n \in Taken(by_name) :
       LET e == by_name[n]
       IN  Live(e.slot) /\ client[e.slot].gen = e.gen /\ client[e.slot].name = n

\* The rewrite does nothing the Python relay does not, whatever is dropped,
\* reused and polled in one batch.
ImplementsRelay == Python!Spec
=============================================================================
