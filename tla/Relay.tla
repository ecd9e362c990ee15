------------------------------- MODULE Relay -------------------------------
(***************************************************************************)
(* The relay, src/server/combat_relay_server.py: connections, names,       *)
(* pairing, forwarding and what is still to be sent to each console.       *)
(*                                                                         *)
(* The server is one thread, so an action is one event it handles to the   *)
(* end.  What is concurrent is everything else: the consoles connect, say  *)
(* HELLO, play and vanish when they like, and a frame queued for a console *)
(* is read by it any time later, after more has happened.                  *)
(***************************************************************************)
EXTENDS CrcLog, FiniteSets

CONSTANTS
  Names,            \* well-formed names
  Variants(_),      \* what the loop of on_hello can turn a taken name into
  Addr(_),          \* the address a connection comes from
  MaxClients,       \* MAX_CLIENTS
  MaxPerAddr,       \* MAX_CONNECTIONS_PER_IP
  MaxTx,            \* frames in MAX_TX_BACKLOG
  LogSlots,         \* entries a log has room for: None for a dict, CRC_SLOTS in C
  Asked,            \* bound: the names the consoles ask for
  Reports           \* bound: the tick bytes and checksums they report

ASSUME RelayAssumption ==
  /\ None \notin Names /\ IsFiniteSet(Names)
  /\ Conn \cap {"lobby", "left"} = {}
  /\ \A n \in Names : Variants(n) \subseteq Names
  /\ MaxClients \in Nat /\ MaxPerAddr \in Nat /\ MaxTx \in Nat \ {0}
  /\ LogSlots \in Nat \cup {None}
  /\ Asked \subseteq Names
  /\ Reports \subseteq [tick : 0..(WireTicks - 1), sum : Nat]

VARIABLES
  clients,          \* Server.clients: the connections, in the order of Client.born
  holder,           \* Server.by_name
  name, partner, role,
  tx,               \* Client.tx, in frames
  told              \* the count last given to the lobby

VARIABLE
  heard             \* what each console has read: the lobby, a match, or its end

connVars == <<clients, holder, name, told>>
pairVars == <<partner, role>>
vars     == <<logVars, connVars, pairVars, tx, heard>>

Live == {clients[i] : i \in DOMAIN clients}

Born(d) == CHOOSE i \in DOMAIN clients : clients[i] = d

START(q) == [type |-> "START", from |-> q]     \* the match with q begins
INPUT(q) == [type |-> "INPUT", from |-> q]     \* a record of q
LEFT     == [type |-> "LEFT", from |-> None]   \* PEER_LEFT
REPLY    == [type |-> "REPLY", from |-> None]  \* LOBBY or PONG

Frames == [type : {"START", "INPUT"}, from : Conn] \cup {LEFT, REPLY}

\* Bound: a frame that makes a backlog too long is the last before the flush,
\* but for the PEER_LEFTs of drops.
Room == \A c \in Conn : Len(tx[c]) <= MaxTx

-----------------------------------------------------------------------------
(* Leaving *)

\* Mutant: the name stays taken.
Freed_Never(c) == holder

\* Only the connection that holds a name gives it up.
Freed(c) == [n \in Names |-> IF n = name[c] /\ holder[n] = c THEN None ELSE holder[n]]

\* Mutant: the partner is told, but not released.
Released_Not(c) == [partner EXCEPT ![c] = None]

Released(c) == [q \in Conn |-> IF q \in {c, partner[c]} THEN None ELSE partner[q]]

Taken(h) == {n \in Names : h[n] # None}

\* drop: nothing of the Client object is left behind, and the console is back
\* where it was before it connected.
Drop(c) ==
  /\ clients' = Cut(clients, Born(c))
  /\ holder' = Freed(c)
  /\ partner' = Released(c)
  /\ tx' = [q \in Conn |-> IF q = c THEN <<>>
                           ELSE IF q = partner[c] THEN Append(tx[q], LEFT) ELSE tx[q]]
  /\ told' = Cardinality(Taken(holder'))
  /\ name' = [name EXCEPT ![c] = None]
  /\ role' = [role EXCEPT ![c] = None]
  /\ crc' = [crc EXCEPT ![c] = <<>>]
  /\ lap' = [lap EXCEPT ![c] = 0]
  /\ last' = [last EXCEPT ![c] = -1]
  /\ heard' = [heard EXCEPT ![c] = "lobby"]
  /\ UNCHANGED bad

\* BYE, a closed socket, a frame of an impossible length, a HELLO that is
\* refused, a connection that has not said HELLO in a minute.
Gone(c) == c \in Live /\ Drop(c)

-----------------------------------------------------------------------------
(* Arriving *)

Accept(c) ==
  /\ c \notin Live
  /\ Len(clients) < MaxClients
  /\ Cardinality({d \in Live : Addr(d) = Addr(c)}) < MaxPerAddr
  /\ clients' = Append(clients, c)
  /\ UNCHANGED <<logVars, holder, name, told, pairVars, tx, heard>>

\* Mutant: a paired console counts as idle.
Idle_Paired(d, nm) == d \in Live /\ nm[d] # None

Idle(d, nm) == d \in Live /\ nm[d] # None /\ partner[d] = None

\* The other idle consoles.
Others(c, nm) == {d \in Conn \ {c} : Idle(d, nm)}

Oldest(S) == {d \in S : \A e \in S : Born(d) <= Born(e)}

\* Mutant: one other idle console is not enough.
PartnerFor_Two(c, nm) ==
  IF Cardinality(Others(c, nm)) < 2 THEN {None} ELSE Oldest(Others(c, nm))

\* The one that connected first.
PartnerFor(c, nm) ==
  IF Others(c, nm) = {} THEN {None} ELSE Oldest(Others(c, nm))

\* c is put together with h, or with nobody.
Pair(c, h) ==
  \/ /\ h = None
     /\ UNCHANGED <<logVars, pairVars, tx>>
  \/ /\ h # None /\ Room
     /\ partner' = [partner EXCEPT ![h] = c, ![c] = h]
     /\ role' = [role EXCEPT ![h] = 0, ![c] = 1]
     /\ ClearLogs({h, c})
     /\ tx' = [tx EXCEPT ![h] = Append(@, START(c)), ![c] = Append(@, START(h))]
     /\ UNCHANGED <<lap, last, bad>>

TryPair(c, nm) == \E h \in PartnerFor(c, nm) : Pair(c, h)

\* Mutant: a name that is taken is given out again.
Uniquified_Not(n) == {n}

\* A name that is taken is changed until it is one that is not.
Uniquified(n) ==
  IF holder[n] = None THEN {n} ELSE {w \in Variants(n) : holder[w] = None}

\* A console says HELLO once.
Hello(c, w) ==
  /\ c \in Live /\ name[c] = None
  /\ name' = [name EXCEPT ![c] = w]
  /\ holder' = [holder EXCEPT ![w] = c]
  /\ told' = Cardinality(Taken(holder'))
  /\ TryPair(c, name')
  /\ UNCHANGED <<clients, heard>>

\* Reserved, and sent by no ROM: here only by a console that is not in a match.
Join(c) ==
  /\ c \in Live /\ name[c] # None /\ partner[c] = None
  /\ TryPair(c, name)
  /\ UNCHANGED <<connVars, heard>>

\* LIST and PING, the other two requests kept in the protocol, from a console
\* that has not been told of a match.
Query(c) ==
  /\ c \in Live /\ heard[c] = "lobby" /\ Room
  /\ tx' = [tx EXCEPT ![c] = Append(@, REPLY)]
  /\ UNCHANGED <<logVars, connVars, pairVars, heard>>

-----------------------------------------------------------------------------
(* Playing *)

\* A console sends records from START on, whether or not the relay still has it in
\* a match: the gate may run a few ticks more after PEER_LEFT, and the transport
\* goes on until the gate gives up.
Input(c, r) ==
  /\ c \in Live /\ heard[c] # "lobby" /\ Room
  /\ tx' = IF partner[c] = None THEN tx
           ELSE [tx EXCEPT ![partner[c]] = Append(@, INPUT(c))]
  /\ LogCrc(c, partner[c], r.tick, r.sum, LogSlots)
  /\ UNCHANGED <<connVars, pairVars, heard>>

\* What a console makes of the frames fs when it was at h before them: the last
\* START or PEER_LEFT decides.
Heard(h, fs) ==
  LET turns == {i \in DOMAIN fs : fs[i].type \in {"START", "LEFT"}}
      f == fs[CHOOSE i \in turns : \A j \in turns : j <= i]
  IN  IF turns = {} THEN h ELSE IF f.type = "START" THEN f.from ELSE "left"

\* flush: the kernel takes the first k frames and the console reads them; send may
\* fail, and what is left may be more than a connection is allowed to owe.
Flush(c, k) ==
  LET rest == SubSeq(tx[c], k + 1, Len(tx[c])) IN
  /\ c \in Live /\ tx[c] # <<>> /\ k <= Len(tx[c])
  /\ \/ (k = 0 \/ Len(rest) > MaxTx) /\ Drop(c)
     \/ /\ Len(rest) <= MaxTx
        /\ tx' = [tx EXCEPT ![c] = rest]
        /\ heard' = [heard EXCEPT ![c] = Heard(@, SubSeq(tx[c], 1, k))]
        /\ UNCHANGED <<logVars, connVars, pairVars>>

-----------------------------------------------------------------------------
Init ==
  /\ LogInit
  /\ clients = <<>>
  /\ holder = [n \in Names |-> None]
  /\ name = [c \in Conn |-> None]
  /\ partner = [c \in Conn |-> None]
  /\ role = [c \in Conn |-> None]
  /\ tx = [c \in Conn |-> <<>>]
  /\ told = 0
  /\ heard = [c \in Conn |-> "lobby"]

\* One event of a connection.
Event(c) ==
  \/ Accept(c) \/ Gone(c) \/ Join(c) \/ Query(c)
  \/ \E n \in Asked : \E w \in Uniquified(n) : Hello(c, w)
  \/ \E r \in Reports : Input(c, r)

Next == \E c \in Conn : Event(c) \/ \E k \in 0..(MaxTx + 2) : Flush(c, k)

Spec == Init /\ [][Next]_vars

-----------------------------------------------------------------------------
(* Properties *)

\* Nothing of the server refers to a connection that is gone.
TypeOK ==
  /\ LogTypeOK
  /\ clients \in Seq(Conn) /\ Cardinality(Live) = Len(clients)
  /\ holder \in [Names -> Live \cup {None}]
  /\ name \in [Conn -> Names \cup {None}]
  /\ partner \in [Conn -> Live \cup {None}]
  /\ role \in [Conn -> {0, 1, None}]
  /\ tx \in [Conn -> Seq(Frames)]
  /\ told \in Nat
  /\ heard \in [Conn -> Conn \cup {"lobby", "left"}]

\* A match is two consoles: each is the other's partner, both have names, and
\* they sit on different sides, whoever drops, re-pairs or is dropped for its
\* backlog in between.
PartnerMutual ==
  \A c \in Conn : partner[c] # None =>
    LET p == partner[c]
    IN  /\ p # c /\ partner[p] = c
        /\ name[c] # None /\ name[p] # None
        /\ {role[c], role[p]} = {0, 1}

\* What a console reads is a sequence of matches: a START names its opponent,
\* the records behind it are that opponent's and nobody else's, a PEER_LEFT ends
\* it before the next START; and read to the end it agrees with the server.
Bracketed ==
  \A c \in Conn :
    /\ \A i \in DOMAIN tx[c] :
         LET f == tx[c][i]
             at == Heard(heard[c], SubSeq(tx[c], 1, i - 1))
         IN  /\ f.type = "START" => at \notin Conn
             /\ f.type = "INPUT" => at = f.from
             /\ f.type = "LEFT"  => at \in Conn
    /\ LET end == Heard(heard[c], tx[c])
       IN  IF partner[c] = None THEN end \notin Conn ELSE end = partner[c]

\* by_name is the roster: a name is held by the one connection that goes by it,
\* and the count the lobby was last given is the number of consoles here.
RosterHonest ==
  /\ \A c \in Conn : name[c] # None => holder[name[c]] = c
  /\ \A n \in Names : holder[n] # None => name[holder[n]] = n
  /\ told = Cardinality({c \in Conn : name[c] # None})

\* try_pair: "the first two idle consoles become a match".  Of the consoles that
\* have yet to be given one, no two are ever left waiting for each other.
OneWaiting ==
  Cardinality({c \in Conn : Idle(c, name) /\ Heard(heard[c], tx[c]) = "lobby"}) <= 1

\* What CSLEFT says of the console whose opponent has left: "the socket is
\* gone".  A console on the peer-left screen is in no match and is given none.
NoGhost ==
  [][\A c \in Conn : partner[c] = None /\ partner'[c] # None => heard[c] # "left"]_vars
=============================================================================
