---------------------------- MODULE RelayProofs ----------------------------
(***************************************************************************)
(* Relay's invariants, for any number of connections, names and frames.    *)
(***************************************************************************)
EXTENDS Relay, FiniteSetTheorems, SequenceTheorems, TLAPS

Spot == Conn \cup {"lobby", "left"}

Turns(fs) == {i \in DOMAIN fs : fs[i].type \in {"START", "LEFT"}}

Turned(f) == IF f.type = "START" THEN f.from ELSE "left"

\* Whether a frame may come next to a console that has read itself to at.
Fits(at, f) ==
  /\ f.type = "START" => at \notin Conn
  /\ f.type = "INPUT" => at = f.from
  /\ f.type = "LEFT"  => at \in Conn

\* What is queued for a console that is at h is a sequence of matches.
WellFormed(h, fs) ==
  \A i \in DOMAIN fs : Fits(Heard(h, SubSeq(fs, 1, i - 1)), fs[i])

\* Where c is when it has read everything.
End(c) == Heard(heard[c], tx[c])

-----------------------------------------------------------------------------
(* Numbers *)

LEMMA Smallest ==
  ASSUME NEW T \in SUBSET Nat, T # {}
  PROVE  \E x \in T : \A y \in T : x <= y
<1> DEFINE R == OpToRel(<, Nat)
<1>1. IsWellFoundedOn(R, Nat)
  BY NatLessThanWellFounded
<1>2. \A x, y \in Nat : y < x => <<y, x>> \in R
  BY DEF OpToRel
<1> HIDE DEF R
<1>3. PICK x \in T : \A y \in T : ~(<<y, x>> \in R)
  BY <1>1, WFMin
<1>4. \A y \in T : ~(y < x)
  BY <1>2, <1>3
<1>5. x \in Nat /\ \A y \in T : y \in Nat
  BY <1>3
<1> QED
  BY <1>3, <1>4, <1>5

LEMMA Largest ==
  ASSUME NEW n \in Nat, NEW T \in SUBSET (1..n), T # {}
  PROVE  \E x \in T : \A y \in T : y <= x
<1> DEFINE U == {n - t : t \in T}
<1>1. U \in SUBSET Nat /\ U # {}
  <2>1. \A t \in T : n - t \in Nat
    OBVIOUS
  <2> QED
    BY <2>1
<1>2. PICK u \in U : \A v \in U : u <= v
  BY <1>1, Smallest
<1>3. PICK x \in T : u = n - x
  BY <1>2
<1>4. \A y \in T : n - x <= n - y
  BY <1>2, <1>3
<1>5. x \in 1..n /\ \A y \in T : y \in 1..n
  BY <1>3
<1> QED
  BY <1>3, <1>4, <1>5

-----------------------------------------------------------------------------
(* What a console makes of frames *)

\* Frames without a turn leave a console where it is; else the last one decides.
LEMMA HeardIs ==
  ASSUME NEW h, NEW fs \in Seq(Frames)
  PROVE  /\ Turns(fs) = {} => Heard(h, fs) = h
         /\ \A i \in Turns(fs) : (\A j \in Turns(fs) : j <= i) => Heard(h, fs) = Turned(fs[i])
<1>1. Turns(fs) = {} => Heard(h, fs) = h
  BY DEF Turns, Heard
<1>2. ASSUME NEW i \in Turns(fs), \A j \in Turns(fs) : j <= i
      PROVE  Heard(h, fs) = Turned(fs[i])
  <2> DEFINE x == CHOOSE m \in Turns(fs) : \A j \in Turns(fs) : j <= m
  <2>1. x \in Turns(fs) /\ \A j \in Turns(fs) : j <= x
    BY <1>2
  <2>2. Turns(fs) \subseteq Int
    BY DEF Turns
  <2>3. x = i
    BY <1>2, <2>1, <2>2
  <2>4. Heard(h, fs) = Turned(fs[x])
    BY <1>2 DEF Heard, Turned, Turns
  <2> QED
    BY <2>3, <2>4
<1> QED
  BY <1>1, <1>2

LEMMA LastTurn ==
  ASSUME NEW fs \in Seq(Frames), Turns(fs) # {}
  PROVE  \E i \in Turns(fs) : \A j \in Turns(fs) : j <= i
<1>1. Len(fs) \in Nat /\ Turns(fs) \in SUBSET (1..Len(fs))
  BY LenProperties DEF Turns
<1> QED
  BY <1>1, Largest

LEMMA TurnedType ==
  ASSUME NEW f \in Frames
  PROVE  f.type \in {"START", "LEFT"} => Turned(f) \in Spot
BY DEF Frames, Turned, Spot, LEFT, REPLY

LEMMA HeardType ==
  ASSUME NEW h \in Spot, NEW fs \in Seq(Frames)
  PROVE  Heard(h, fs) \in Spot
<1>1. CASE Turns(fs) = {}
  BY <1>1, HeardIs
<1>2. CASE Turns(fs) # {}
  <2>1. PICK i \in Turns(fs) : \A j \in Turns(fs) : j <= i
    BY <1>2, LastTurn
  <2>2. i \in 1..Len(fs) /\ fs[i].type \in {"START", "LEFT"}
    BY LenProperties DEF Turns
  <2>3. fs[i] \in Frames
    BY <2>2, ElementOfSeq
  <2> QED
    BY <2>1, <2>2, <2>3, HeardIs, TurnedType
<1> QED
  BY <1>1, <1>2

LEMMA HeardAppend ==
  ASSUME NEW h, NEW fs \in Seq(Frames), NEW f \in Frames
  PROVE  Heard(h, Append(fs, f)) =
           IF f.type \in {"START", "LEFT"} THEN Turned(f) ELSE Heard(h, fs)
<1> DEFINE gs == Append(fs, f)
           n == Len(fs)
<1>1. /\ gs \in Seq(Frames) /\ Len(gs) = n + 1 /\ gs[n + 1] = f
      /\ \A i \in 1..n : gs[i] = fs[i]
  BY AppendProperties
<1>2. n \in Nat /\ DOMAIN fs = 1..n /\ DOMAIN gs = 1..(n + 1)
  BY <1>1, LenProperties
<1> HIDE DEF gs, n
<1>3. \A i \in 1..n : i \in Turns(gs) <=> i \in Turns(fs)
  BY <1>1, <1>2 DEF Turns
<1>4. Turns(gs) \subseteq 1..(n + 1) /\ Turns(fs) \subseteq 1..n
  BY <1>2 DEF Turns
<1>5. n + 1 \in Turns(gs) <=> f.type \in {"START", "LEFT"}
  BY <1>1, <1>2 DEF Turns
<1>6. CASE f.type \in {"START", "LEFT"}
  <2>1. n + 1 \in Turns(gs) /\ \A j \in Turns(gs) : j <= n + 1
    BY <1>2, <1>4, <1>5, <1>6
  <2>2. Heard(h, gs) = Turned(gs[n + 1])
    BY <1>1, <2>1, HeardIs
  <2> QED
    BY <1>1, <1>6, <2>2 DEF gs
<1>7. CASE f.type \notin {"START", "LEFT"}
  <2>1. Turns(gs) = Turns(fs)
    <3>1. \A i \in Turns(gs) : i \in 1..n
      BY <1>2, <1>4, <1>5, <1>7
    <3> QED
      BY <1>3, <1>4, <3>1
  <2>2. CASE Turns(fs) = {}
    BY <1>1, <1>7, <2>1, <2>2, HeardIs DEF gs
  <2>3. CASE Turns(fs) # {}
    <3>1. PICK i \in Turns(fs) : \A j \in Turns(fs) : j <= i
      BY <2>3, LastTurn
    <3>2. gs[i] = fs[i]
      BY <1>1, <1>4
    <3>3. Heard(h, gs) = Turned(gs[i]) /\ Heard(h, fs) = Turned(fs[i])
      BY <1>1, <2>1, <3>1, HeardIs
    <3> QED
      BY <1>7, <3>2, <3>3 DEF gs
  <2> QED
    BY <2>2, <2>3
<1> QED
  BY <1>6, <1>7

\* Reading k frames and then the rest is reading them all.
LEMMA HeardSplit ==
  ASSUME NEW h, NEW fs \in Seq(Frames), NEW k \in 0..Len(fs)
  PROVE  Heard(Heard(h, SubSeq(fs, 1, k)), SubSeq(fs, k + 1, Len(fs))) = Heard(h, fs)
<1> DEFINE n == Len(fs)
           as == SubSeq(fs, 1, k)
           bs == SubSeq(fs, k + 1, n)
<1>1. n \in Nat /\ k \in Int /\ 0 <= k /\ k <= n /\ DOMAIN fs = 1..n
  BY LenProperties
<1>2. /\ as \in Seq(Frames) /\ Len(as) = k /\ \A i \in 1..k : as[i] = fs[i]
      /\ bs \in Seq(Frames) /\ Len(bs) = n - k
      /\ \A i \in 1..(n - k) : bs[i] = fs[k + i]
  BY SMTT(30), <1>1
<1>3. DOMAIN as = 1..k /\ DOMAIN bs = 1..(n - k)
  BY <1>2, LenProperties
<1> HIDE DEF n, as, bs
<1>4. /\ Turns(as) \subseteq 1..k /\ Turns(bs) \subseteq 1..(n - k)
      /\ Turns(fs) \subseteq 1..n
  BY <1>1, <1>3 DEF Turns
<1>5. \A i \in 1..k : i \in Turns(as) <=> i \in Turns(fs)
  <2> SUFFICES ASSUME NEW i \in 1..k
               PROVE  i \in Turns(as) <=> i \in Turns(fs)
    OBVIOUS
  <2>1. i \in DOMAIN as /\ i \in DOMAIN fs
    BY <1>1, <1>3
  <2>2. as[i] = fs[i]
    BY <1>2
  <2> QED
    BY <2>1, <2>2 DEF Turns
<1>6. \A i \in 1..(n - k) : i \in Turns(bs) <=> k + i \in Turns(fs)
  <2> SUFFICES ASSUME NEW i \in 1..(n - k)
               PROVE  i \in Turns(bs) <=> k + i \in Turns(fs)
    OBVIOUS
  <2>1. i \in DOMAIN bs /\ k + i \in DOMAIN fs
    BY <1>1, <1>3
  <2>2. bs[i] = fs[k + i]
    BY <1>2
  <2> QED
    BY <2>1, <2>2 DEF Turns
<1>7. CASE Turns(bs) = {}
  <2>1. \A i \in Turns(fs) : i \in 1..k
    <3> SUFFICES ASSUME NEW i \in Turns(fs), i > k PROVE FALSE
      BY <1>1, <1>4
    <3>1. i - k \in 1..(n - k) /\ k + (i - k) = i
      BY <1>1, <1>4
    <3> QED
      BY <1>6, <1>7, <3>1
  <2>2. Turns(as) = Turns(fs)
    BY <1>4, <1>5, <2>1
  <2>3. Heard(h, as) = Heard(h, fs)
    <3>1. CASE Turns(fs) = {}
      BY <1>2, <2>2, <3>1, HeardIs
    <3>2. CASE Turns(fs) # {}
      <4>1. PICK i \in Turns(fs) : \A j \in Turns(fs) : j <= i
        BY <3>2, LastTurn
      <4>2. as[i] = fs[i]
        BY <1>2, <2>1
      <4>3. Heard(h, fs) = Turned(fs[i])
        BY <4>1, HeardIs
      <4>4. as \in Seq(Frames) /\ i \in Turns(as) /\ \A j \in Turns(as) : j <= i
        BY <1>2, <2>2, <4>1
      <4>5. Heard(h, as) = Turned(as[i])
        BY <4>4, HeardIs
      <4> QED
        BY <4>2, <4>3, <4>5
    <3> QED
      BY <3>1, <3>2
  <2>4. \A g : Heard(g, bs) = g
    BY <1>2, <1>7, HeardIs
  <2> QED
    BY <2>3, <2>4 DEF as, bs, n
<1>8. CASE Turns(bs) # {}
  <2>1. PICK i \in Turns(bs) : \A j \in Turns(bs) : j <= i
    BY <1>2, <1>8, LastTurn
  <2>2. i \in 1..(n - k) /\ k + i \in Turns(fs) /\ bs[i] = fs[k + i]
    BY <1>2, <1>4, <1>6, <2>1
  <2>3. ASSUME NEW j \in Turns(fs) PROVE j <= k + i
    <3> SUFFICES ASSUME j > k PROVE j <= k + i
      BY <1>1, <1>4, <2>2
    <3>1. j - k \in 1..(n - k) /\ k + (j - k) = j
      BY <1>1, <1>4
    <3>2. j - k \in Turns(bs)
      BY <1>6, <3>1
    <3> QED
      BY <1>1, <1>4, <2>1, <2>2, <3>1, <3>2
  <2>4. Heard(h, fs) = Turned(fs[k + i])
    BY <2>2, <2>3, HeardIs
  <2>5. \A g : Heard(g, bs) = Turned(bs[i])
    BY <1>2, <2>1, HeardIs
  <2> QED
    BY <2>2, <2>4, <2>5 DEF as, bs, n
<1> QED
  BY <1>7, <1>8

-----------------------------------------------------------------------------
(* Well-formed queues *)

LEMMA WellEmpty == \A h : WellFormed(h, <<>>)
BY DEF WellFormed

LEMMA WellAppend ==
  ASSUME NEW h, NEW fs \in Seq(Frames), NEW f \in Frames,
         WellFormed(h, fs), Fits(Heard(h, fs), f)
  PROVE  WellFormed(h, Append(fs, f))
<1> DEFINE gs == Append(fs, f)
           n == Len(fs)
<1>1. /\ gs \in Seq(Frames) /\ Len(gs) = n + 1 /\ gs[n + 1] = f
      /\ \A i \in 1..n : gs[i] = fs[i]
  BY AppendProperties
<1>2. n \in Nat /\ DOMAIN fs = 1..n /\ DOMAIN gs = 1..(n + 1)
  BY <1>1, LenProperties
<1>3. ASSUME NEW k \in 0..n PROVE SubSeq(gs, 1, k) = SubSeq(fs, 1, k)
  BY <1>1, <1>2
<1> HIDE DEF gs
<1> SUFFICES ASSUME NEW i \in 1..(n + 1)
             PROVE  Fits(Heard(h, SubSeq(gs, 1, i - 1)), gs[i])
  BY <1>2 DEF WellFormed, gs
<1>4. i - 1 \in 0..n /\ SubSeq(gs, 1, i - 1) = SubSeq(fs, 1, i - 1)
  BY <1>2, <1>3
<1>5. CASE i = n + 1
  <2>1. SubSeq(fs, 1, i - 1) = fs
    BY <1>2, <1>5, SubSeqFull
  <2> QED
    BY <1>1, <1>4, <1>5, <2>1
<1>6. CASE i # n + 1
  <2>1. i \in 1..n
    BY <1>2, <1>6
  <2> QED
    BY <1>1, <1>2, <1>4, <2>1 DEF WellFormed
<1> QED
  BY <1>5, <1>6

\* What is left after k frames is well formed for where they have taken it.
LEMMA WellRest ==
  ASSUME NEW h, NEW fs \in Seq(Frames), NEW k \in 0..Len(fs), WellFormed(h, fs)
  PROVE  WellFormed(Heard(h, SubSeq(fs, 1, k)), SubSeq(fs, k + 1, Len(fs)))
<1> DEFINE n == Len(fs)
           bs == SubSeq(fs, k + 1, n)
<1>1. n \in Nat /\ k \in Int /\ 0 <= k /\ k <= n /\ DOMAIN fs = 1..n
  BY LenProperties
<1>2. /\ bs \in Seq(Frames) /\ Len(bs) = n - k /\ DOMAIN bs = 1..(n - k)
      /\ \A i \in 1..(n - k) : bs[i] = fs[k + i]
  <2>1. /\ bs \in Seq(Frames) /\ Len(bs) = n - k
        /\ \A i \in 1..(n - k) : bs[i] = fs[k + i]
    <3> HIDE DEF n
    <3> PICK a : a = k + 1
      OBVIOUS
    <3>1. a \in Int /\ n \in Int /\ bs = SubSeq(fs, a, n)
      BY <1>1
    <3>2. \A j \in a..n : fs[j] \in Frames
      BY <1>1, LenProperties DEF n
    <3> HIDE DEF bs
    <3>3. /\ bs \in Seq(Frames)
          /\ Len(bs) = IF a <= n THEN n - a + 1 ELSE 0
          /\ \A i \in 1..(n - a + 1) : bs[i] = fs[a + i - 1]
      BY <3>1, <3>2, SubSeqProperties
    <3>4. ASSUME NEW i \in 1..(n - k)
          PROVE  bs[i] = fs[k + i]
      <4>1. i \in 1..(n - a + 1) /\ a + i - 1 = k + i
        BY <1>1
      <4> QED
        BY <3>3, <4>1
    <3>5. Len(bs) = n - k
      BY <1>1, <3>3
    <3> QED
      BY <3>3, <3>4, <3>5
  <2> QED
    BY <2>1, LenProperties
<1> HIDE DEF bs
<1> SUFFICES ASSUME NEW i \in 1..(n - k)
             PROVE  Fits(Heard(Heard(h, SubSeq(fs, 1, k)), SubSeq(bs, 1, i - 1)), bs[i])
  BY <1>2 DEF WellFormed, bs
<1> DEFINE m == k + i - 1
           gs == SubSeq(fs, 1, m)
<1>3. m \in k..n - 1 /\ m \in Int /\ k + i \in 1..n
  BY <1>1
<1>4. gs \in Seq(Frames) /\ Len(gs) = m /\ \A j \in 1..m : gs[j] = fs[j]
  BY <1>1, <1>3
<1> HIDE DEF m
<1>5. SubSeq(gs, 1, k) = SubSeq(fs, 1, k)
  BY <1>1, <1>3, <1>4
<1>6. SubSeq(gs, k + 1, m) = SubSeq(bs, 1, i - 1)
  BY <1>1, <1>2, <1>3, <1>4 DEF m
<1> HIDE DEF gs
<1>7. Heard(Heard(h, SubSeq(gs, 1, k)), SubSeq(gs, k + 1, m)) = Heard(h, gs)
  BY <1>1, <1>3, <1>4, HeardSplit
<1>8. Fits(Heard(h, SubSeq(fs, 1, k + i - 1)), fs[k + i])
  BY <1>1, <1>3 DEF WellFormed
<1> QED
  BY <1>2, <1>5, <1>6, <1>7, <1>8 DEF gs, m

\* What is still to be sent to a console at h, the relay having it in a match
\* with p, or in none.
Queue(h, fs, p) ==
  /\ h \in Spot /\ fs \in Seq(Frames) /\ WellFormed(h, fs)
  /\ IF p = None THEN Heard(h, fs) \notin Conn ELSE Heard(h, fs) = p

LEMMA FrameType ==
  /\ \A q \in Conn : START(q) \in Frames /\ INPUT(q) \in Frames
  /\ LEFT \in Frames /\ REPLY \in Frames
BY DEF Frames, START, INPUT

LEMMA QueueEmpty == Queue("lobby", <<>>, None) /\ Heard("lobby", <<>>) = "lobby"
<1>1. <<>> \in Seq(Frames) /\ Turns(<<>>) = {}
  BY DEF Turns
<1>2. Heard("lobby", <<>>) = "lobby"
  BY <1>1, HeardIs
<1> QED
  BY <1>1, <1>2, WellEmpty, RelayAssumption DEF Queue, Spot

LEMMA QueueStart ==
  ASSUME NEW h, NEW fs, NEW q \in Conn, Queue(h, fs, None)
  PROVE  /\ Queue(h, Append(fs, START(q)), q)
         /\ Heard(h, Append(fs, START(q))) = q
<1>1. fs \in Seq(Frames) /\ h \in Spot /\ WellFormed(h, fs) /\ Heard(h, fs) \notin Conn
  BY DEF Queue
<1>2. START(q) \in Frames /\ START(q).type = "START" /\ START(q).from = q
  BY FrameType DEF START
<1>3. Heard(h, Append(fs, START(q))) = q
  BY <1>1, <1>2, HeardAppend DEF Turned
<1>4. Fits(Heard(h, fs), START(q))
  BY <1>1, <1>2 DEF Fits
<1>5. WellFormed(h, Append(fs, START(q))) /\ Append(fs, START(q)) \in Seq(Frames)
  BY <1>1, <1>2, <1>4, WellAppend, AppendProperties
<1> QED
  BY <1>1, <1>3, <1>5, LogAssumption DEF Queue

LEMMA QueueLeft ==
  ASSUME NEW h, NEW fs, NEW p \in Conn, Queue(h, fs, p)
  PROVE  /\ Queue(h, Append(fs, LEFT), None)
         /\ Heard(h, Append(fs, LEFT)) = "left"
<1>1. fs \in Seq(Frames) /\ h \in Spot /\ WellFormed(h, fs) /\ Heard(h, fs) = p
  BY LogAssumption DEF Queue
<1>2. LEFT \in Frames /\ LEFT.type = "LEFT"
  BY FrameType DEF LEFT
<1>3. Heard(h, Append(fs, LEFT)) = "left"
  BY <1>1, <1>2, HeardAppend DEF Turned
<1>4. Fits(Heard(h, fs), LEFT)
  BY <1>1, <1>2 DEF Fits
<1>5. WellFormed(h, Append(fs, LEFT)) /\ Append(fs, LEFT) \in Seq(Frames)
  BY <1>1, <1>2, <1>4, WellAppend, AppendProperties
<1> QED
  BY <1>1, <1>3, <1>5, RelayAssumption DEF Queue

LEMMA QueueMore ==
  ASSUME NEW h, NEW fs, NEW p, Queue(h, fs, p), NEW f \in Frames,
         \/ f.type = "REPLY"
         \/ f.type = "INPUT" /\ p # None /\ f.from = p
  PROVE  /\ Queue(h, Append(fs, f), p)
         /\ Heard(h, Append(fs, f)) = Heard(h, fs)
<1>1. /\ fs \in Seq(Frames) /\ h \in Spot /\ WellFormed(h, fs)
      /\ IF p = None THEN Heard(h, fs) \notin Conn ELSE Heard(h, fs) = p
  BY DEF Queue
<1>2. Heard(h, Append(fs, f)) = Heard(h, fs)
  BY <1>1, HeardAppend
<1>3. Fits(Heard(h, fs), f)
  BY <1>1 DEF Fits
<1>4. WellFormed(h, Append(fs, f)) /\ Append(fs, f) \in Seq(Frames)
  BY <1>1, <1>3, WellAppend, AppendProperties
<1> QED
  BY <1>1, <1>2, <1>4 DEF Queue

LEMMA QueueRead ==
  ASSUME NEW h, NEW fs, NEW p, Queue(h, fs, p), NEW k \in 0..Len(fs)
  PROVE  LET at == Heard(h, SubSeq(fs, 1, k))
             rest == SubSeq(fs, k + 1, Len(fs))
         IN  Queue(at, rest, p) /\ Heard(at, rest) = Heard(h, fs)
<1> DEFINE at == Heard(h, SubSeq(fs, 1, k))
           rest == SubSeq(fs, k + 1, Len(fs))
<1>1. /\ fs \in Seq(Frames) /\ h \in Spot /\ WellFormed(h, fs)
      /\ IF p = None THEN Heard(h, fs) \notin Conn ELSE Heard(h, fs) = p
  BY DEF Queue
<1>2. Heard(at, rest) = Heard(h, fs)
  BY <1>1, HeardSplit
<1>3. WellFormed(at, rest)
  BY <1>1, WellRest
<1>4. SubSeq(fs, 1, k) \in Seq(Frames) /\ rest \in Seq(Frames)
  BY <1>1
<1>5. at \in Spot
  BY <1>1, <1>4, HeardType
<1> QED
  BY <1>1, <1>2, <1>3, <1>4, <1>5 DEF Queue

-----------------------------------------------------------------------------
(* The invariant *)

Logs == LogTypeOK

\* A connection is in the list once.
Listed ==
  /\ clients \in Seq(Conn)
  /\ \A i, j \in DOMAIN clients : clients[i] = clients[j] => i = j

\* Whoever has a name is there and holds it, and nobody else holds one.
Roster ==
  /\ holder \in [Names -> Conn \cup {None}] /\ name \in [Conn -> Names \cup {None}]
  /\ \A c \in Conn : name[c] # None => c \in Live /\ holder[name[c]] = c
  /\ \A n \in Names : holder[n] # None => name[holder[n]] = n
  /\ told = Cardinality(Taken(holder))

Matches ==
  /\ partner \in [Conn -> Conn \cup {None}] /\ role \in [Conn -> {0, 1, None}]
  /\ PartnerMutual

Queues ==
  /\ tx \in [Conn -> Seq(Frames)] /\ heard \in [Conn -> Spot]
  /\ \A c \in Conn : Queue(heard[c], tx[c], partner[c])

Waits(c) == name[c] # None /\ partner[c] = None /\ End(c) = "lobby"

Alone == \A c, d \in Conn : Waits(c) /\ Waits(d) => c = d

RelayInv == Logs /\ Listed /\ Roster /\ Matches /\ Queues /\ Alone

LEMMA InitInv == Init => RelayInv
<1> SUFFICES ASSUME Init PROVE RelayInv
  OBVIOUS
<1> USE DEF Init
<1>1. Logs
  <2>1. <<>> \in Seq([key : Nat, sum : Nat]) /\ 0 \in Nat /\ -1 \in -1..(WireTicks - 1)
    BY LogAssumption
  <2> QED
    BY <2>1 DEF Logs, LogInit, LogTypeOK
<1>2. Listed
  BY DEF Listed
<1>3. Roster
  <2>1. Taken(holder) = {}
    BY DEF Taken
  <2> QED
    BY <2>1, FS_EmptySet DEF Roster
<1>4. Matches
  BY DEF Matches, PartnerMutual
<1>5. Queues
  BY QueueEmpty DEF Queues, Queue
<1>6. Alone
  BY DEF Alone, Waits
<1> QED
  BY <1>1, <1>2, <1>3, <1>4, <1>5, <1>6 DEF RelayInv

-----------------------------------------------------------------------------
(* The list of connections *)

LEMMA CutProperties ==
  ASSUME NEW S, NEW s \in Seq(S), NEW i \in 1..Len(s)
  PROVE  /\ Cut(s, i) \in Seq(S) /\ Len(Cut(s, i)) = Len(s) - 1
         /\ \A j \in 1..(Len(s) - 1) : Cut(s, i)[j] = IF j < i THEN s[j] ELSE s[j + 1]
<1> DEFINE as == SubSeq(s, 1, i - 1)
           bs == SubSeq(s, i + 1, Len(s))
<1>1. as \in Seq(S) /\ Len(as) = i - 1 /\ \A j \in 1..(i - 1) : as[j] = s[j]
  OBVIOUS
<1>2. bs \in Seq(S) /\ Len(bs) = Len(s) - i /\ \A j \in 1..(Len(s) - i) : bs[j] = s[i + j]
  OBVIOUS
<1>3. Cut(s, i) = as \o bs
  BY DEF Cut
<1> HIDE DEF as, bs
<1> DEFINE cs == as \o bs
<1>4. /\ cs \in Seq(S) /\ Len(cs) = Len(as) + Len(bs)
      /\ \A j \in 1..(Len(as) + Len(bs)) : cs[j] = IF j <= Len(as) THEN as[j] ELSE bs[j - Len(as)]
  BY <1>1, <1>2, ConcatProperties
<1>0. Len(s) \in Nat /\ i \in Int /\ 1 <= i /\ i <= Len(s) /\ Len(as) + Len(bs) = Len(s) - 1
  BY <1>1, <1>2, LenProperties
<1> HIDE DEF cs
<1>5. ASSUME NEW j \in 1..(Len(s) - 1)
      PROVE  cs[j] = IF j < i THEN s[j] ELSE s[j + 1]
  <2>1. CASE j < i
    <3>1. j \in 1..(i - 1) /\ j <= Len(as)
      BY <1>1, <1>0, <2>1
    <3>2. cs[j] = as[j]
      BY <1>4, <1>0, <3>1
    <3> QED
      BY <1>1, <2>1, <3>1, <3>2
  <2>2. CASE ~(j < i)
    <3> DEFINE m == j - (i - 1)
    <3>1. m \in 1..(Len(s) - i) /\ i + m = j + 1 /\ ~(j <= Len(as)) /\ j - Len(as) = m
      BY <1>1, <1>0, <2>2
    <3> HIDE DEF m
    <3>2. cs[j] = bs[m]
      BY <1>4, <1>0, <3>1
    <3>3. bs[m] = s[i + m]
      BY <1>2, <3>1
    <3> QED
      BY <2>2, <3>1, <3>2, <3>3
  <2> QED
    BY <2>1, <2>2
<1> QED
  BY <1>3, <1>4, <1>5, <1>0 DEF cs

LEMMA BornType ==
  ASSUME Listed, NEW c \in Live
  PROVE  Born(c) \in 1..Len(clients) /\ clients[Born(c)] = c
BY DEF Listed, Live, Born

\* A drop takes its connection out of the list, and no other.
LEMMA DropListed ==
  ASSUME Listed, NEW c \in Live, clients' = Cut(clients, Born(c))
  PROVE  Listed' /\ Live' = Live \ {c}
<1> DEFINE n == Len(clients)
           b == Born(c)
<1>1. n \in Nat /\ DOMAIN clients = 1..n /\ b \in 1..n /\ clients[b] = c
  BY BornType, LenProperties DEF Listed
<1>2. /\ clients' \in Seq(Conn) /\ Len(clients') = n - 1 /\ DOMAIN clients' = 1..(n - 1)
      /\ \A j \in 1..(n - 1) : clients'[j] = IF j < b THEN clients[j] ELSE clients[j + 1]
  <2>1. clients \in Seq(Conn)
    BY DEF Listed
  <2>2. /\ clients' \in Seq(Conn) /\ Len(clients') = n - 1
        /\ \A j \in 1..(n - 1) : clients'[j] = IF j < b THEN clients[j] ELSE clients[j + 1]
    BY <1>1, <2>1, CutProperties
  <2> QED
    BY <2>2, LenProperties
<1>3. \A i, j \in 1..n : clients[i] = clients[j] => i = j
  BY <1>1 DEF Listed
<1> HIDE DEF n, b
<1>4. Listed'
  <2> SUFFICES ASSUME NEW i \in 1..(n - 1), NEW j \in 1..(n - 1), clients'[i] = clients'[j]
               PROVE  i = j
    BY <1>2 DEF Listed
  <2>1. i \in 1..n /\ j \in 1..n /\ i + 1 \in 1..n /\ j + 1 \in 1..n
    BY <1>1
  <2>2. CASE i < b /\ j < b
    BY <1>2, <1>3, <2>1, <2>2
  <2>3. CASE i < b /\ ~(j < b)
    <3>1. i = j + 1
      BY <1>2, <1>3, <2>1, <2>3
    <3> QED
      BY <1>1, <2>3, <3>1
  <2>4. CASE ~(i < b) /\ j < b
    <3>1. i + 1 = j
      BY <1>2, <1>3, <2>1, <2>4
    <3> QED
      BY <1>1, <2>4, <3>1
  <2>5. CASE ~(i < b) /\ ~(j < b)
    <3>1. i + 1 = j + 1
      BY <1>2, <1>3, <2>1, <2>5
    <3> QED
      BY <3>1
  <2> QED
    BY <2>2, <2>3, <2>4, <2>5
<1>5. ASSUME NEW d \in Live' PROVE d \in Live \ {c}
  <2>1. PICK j \in 1..(n - 1) : d = clients'[j]
    BY <1>2 DEF Live
  <2>2. j \in 1..n /\ j + 1 \in 1..n
    BY <1>1
  <2>3. CASE j < b
    BY <1>1, <1>2, <1>3, <2>1, <2>2, <2>3 DEF Live
  <2>4. CASE ~(j < b)
    <3>1. d = clients[j + 1] /\ j + 1 # b
      BY <1>1, <1>2, <2>1, <2>4
    <3> QED
      BY <1>1, <1>3, <2>2, <3>1 DEF Live
  <2> QED
    BY <2>3, <2>4
<1>6. ASSUME NEW d \in Live \ {c} PROVE d \in Live'
  <2>1. PICK j \in 1..n : d = clients[j]
    BY <1>1 DEF Live
  <2>2. j # b
    BY <1>1, <2>1
  <2>3. CASE j < b
    <3>1. j \in 1..(n - 1) /\ clients'[j] = d
      BY <1>1, <1>2, <2>1, <2>3
    <3> QED
      BY <1>2, <3>1 DEF Live
  <2>4. CASE j > b
    <3>1. j - 1 \in 1..(n - 1) /\ ~(j - 1 < b) /\ (j - 1) + 1 = j
      BY <1>1, <2>4
    <3>2. clients'[j - 1] = d
      BY <1>2, <2>1, <3>1
    <3> QED
      BY <1>2, <3>1, <3>2 DEF Live
  <2> QED
    BY <1>1, <2>2, <2>3, <2>4
<1> QED
  BY <1>4, <1>5, <1>6

LEMMA AcceptListed ==
  ASSUME Listed, NEW c \in Conn, Accept(c)
  PROVE  Listed' /\ Live' = Live \cup {c}
<1> DEFINE n == Len(clients)
<1>1. n \in Nat /\ DOMAIN clients = 1..n /\ clients \in Seq(Conn)
  BY LenProperties DEF Listed
<1>2. clients' = Append(clients, c) /\ c \notin Live
  BY DEF Accept
<1>3. /\ clients' \in Seq(Conn) /\ Len(clients') = n + 1 /\ clients'[n + 1] = c
      /\ \A i \in 1..n : clients'[i] = clients[i]
  BY <1>1, <1>2, AppendProperties
<1>4. DOMAIN clients' = 1..(n + 1)
  BY <1>3, LenProperties
<1>5. \A i \in 1..n : clients[i] # c
  BY <1>1, <1>2 DEF Live
<1> HIDE DEF n
<1>6. Listed'
  <2> SUFFICES ASSUME NEW i \in 1..(n + 1), NEW j \in 1..(n + 1), clients'[i] = clients'[j]
               PROVE  i = j
    BY <1>3, <1>4 DEF Listed
  <2>1. \A k \in 1..(n + 1) : k \in 1..n \/ k = n + 1
    BY <1>1
  <2>2. CASE i \in 1..n /\ j \in 1..n
    BY <1>1, <1>3, <2>2 DEF Listed
  <2> QED
    BY <1>3, <1>5, <2>1, <2>2
<1>7. Live' = {clients'[i] : i \in 1..(n + 1)} /\ Live = {clients[i] : i \in 1..n}
  BY <1>1, <1>4 DEF Live
<1>8. ASSUME NEW d \in Live' PROVE d \in Live \cup {c}
  <2>1. PICK i \in 1..(n + 1) : d = clients'[i]
    BY <1>7
  <2>2. i \in 1..n \/ i = n + 1
    BY <1>1
  <2> QED
    BY <1>3, <1>7, <2>1, <2>2
<1>9. ASSUME NEW d \in Live PROVE d \in Live'
  <2>1. PICK i \in 1..n : d = clients[i]
    BY <1>7
  <2>2. i \in 1..(n + 1) /\ clients'[i] = d
    BY <1>1, <1>3, <2>1
  <2> QED
    BY <1>7, <2>2
<1>10. c \in Live'
  <2>1. n + 1 \in 1..(n + 1)
    BY <1>1
  <2> QED
    BY <1>3, <1>7, <2>1
<1> QED
  BY <1>6, <1>8, <1>9, <1>10

LEMMA LiveInConn == Listed => Live \subseteq Conn
BY ElementOfSeq, LenProperties DEF Listed, Live

-----------------------------------------------------------------------------
(* A console that leaves *)

LEMMA DropRoster ==
  ASSUME Roster, Listed, NEW c \in Live, Drop(c)
  PROVE  Roster'
<1>1. c \in Conn /\ c # None
  BY LiveInConn, LogAssumption
<1>2. Live' = Live \ {c}
  BY DropListed DEF Drop
<1>3. /\ holder' = [n \in Names |-> IF n = name[c] /\ holder[n] = c THEN None ELSE holder[n]]
      /\ name' = [name EXCEPT ![c] = None]
      /\ told' = Cardinality(Taken(holder'))
  BY DEF Drop, Freed
<1>4. holder' \in [Names -> Conn \cup {None}] /\ name' \in [Conn -> Names \cup {None}]
  BY <1>1, <1>3 DEF Roster
<1>5. name'[c] = None /\ \A d \in Conn \ {c} : name'[d] = name[d]
  BY <1>1, <1>3 DEF Roster
<1>6. \A n \in Names : holder'[n] = IF n = name[c] /\ holder[n] = c THEN None ELSE holder[n]
  BY <1>3
<1>7. ASSUME NEW d \in Conn, name'[d] # None
      PROVE  d \in Live' /\ holder'[name'[d]] = d
  <2>1. d # c /\ name'[d] = name[d] /\ name[d] # None /\ name[d] \in Names
    BY <1>5, <1>7 DEF Roster
  <2>2. d \in Live /\ holder[name[d]] = d
    BY <2>1 DEF Roster
  <2> QED
    BY <1>2, <1>6, <2>1, <2>2
<1>8. ASSUME NEW n \in Names, holder'[n] # None
      PROVE  name'[holder'[n]] = n
  <2>1. holder'[n] = holder[n] /\ holder[n] # None /\ ~(n = name[c] /\ holder[n] = c)
    BY <1>6, <1>8
  <2>2. holder[n] \in Conn /\ name[holder[n]] = n
    BY <2>1 DEF Roster
  <2> QED
    BY <1>5, <2>1, <2>2
<1>9. (\A d \in Conn : name[d] # None => d \in Live /\ holder[name[d]] = d)'
  BY <1>7
<1>10. (\A n \in Names : holder[n] # None => name[holder[n]] = n)'
  BY <1>8
<1>11. (told = Cardinality(Taken(holder)))'
  BY <1>3
<1> QED
  BY <1>4, <1>9, <1>10, <1>11 DEF Roster

\* The partner of the console that leaves has none afterwards, nobody else's changes.
LEMMA DropMatches ==
  ASSUME Matches, Roster, NEW c \in Conn, Drop(c)
  PROVE  /\ Matches'
         /\ partner'[c] = None
         /\ \A q \in Conn \ {c} : partner'[q] = IF q = partner[c] THEN None ELSE partner[q]
<1>1. /\ partner' = [q \in Conn |-> IF q \in {c, partner[c]} THEN None ELSE partner[q]]
      /\ name' = [name EXCEPT ![c] = None] /\ role' = [role EXCEPT ![c] = None]
  BY DEF Drop, Released
<1>2. \A q \in Conn : partner'[q] = IF q \in {c, partner[c]} THEN None ELSE partner[q]
  BY <1>1
<1>3. partner' \in [Conn -> Conn \cup {None}]
  BY <1>1 DEF Matches
<1>4. /\ role' \in [Conn -> {0, 1, None}]
      /\ \A q \in Conn \ {c} : role'[q] = role[q] /\ name'[q] = name[q]
  BY <1>1 DEF Matches, Roster
<1>5. PartnerMutual'
  <2> SUFFICES ASSUME NEW q \in Conn, partner'[q] # None
               PROVE  /\ partner'[q] # q /\ partner'[partner'[q]] = q
                      /\ name'[q] # None /\ name'[partner'[q]] # None
                      /\ {role'[q], role'[partner'[q]]} = {0, 1}
    BY DEF PartnerMutual
  <2> DEFINE r == partner[q]
  <2>1. partner'[q] = r /\ q # c /\ q # partner[c] /\ r # None
    BY <1>2
  <2>2. r \in Conn
    BY <2>1 DEF Matches
  <2>3. /\ r # q /\ partner[r] = q /\ name[q] # None /\ name[r] # None
        /\ {role[q], role[r]} = {0, 1}
    BY <2>1 DEF Matches, PartnerMutual
  <2>4. r # c
    BY <2>1, <2>3
  <2>5. r # partner[c]
    <3>1. partner[c] # None => partner[partner[c]] = c
      BY DEF Matches, PartnerMutual
    <3> QED
      BY <2>1, <2>3, <3>1
  <2> HIDE DEF r
  <2>6. partner'[r] = q
    BY <1>2, <2>2, <2>3, <2>4, <2>5
  <2> QED
    BY <1>4, <2>1, <2>2, <2>3, <2>4, <2>6
<1> QED
  BY <1>2, <1>3, <1>4, <1>5 DEF Matches

LEMMA DropQueues ==
  ASSUME Queues, Matches, Roster, NEW c \in Conn, Drop(c)
  PROVE  /\ Queues'
         /\ \A q \in Conn \ {c} :
              IF q = partner[c] THEN End(q)' = "left" ELSE End(q)' = End(q)
<1>1. /\ tx' = [q \in Conn |-> IF q = c THEN <<>>
                              ELSE IF q = partner[c] THEN Append(tx[q], LEFT) ELSE tx[q]]
      /\ heard' = [heard EXCEPT ![c] = "lobby"]
  BY DEF Drop
<1>2. \A q \in Conn \ {c} : heard'[q] = heard[q]
  BY <1>1 DEF Queues
<1>3. heard'[c] = "lobby" /\ tx'[c] = <<>> /\ partner'[c] = None
  BY <1>1, DropMatches DEF Queues
<1>4. Queue(heard'[c], tx'[c], partner'[c])
  BY <1>3, QueueEmpty
<1>5. ASSUME NEW q \in Conn \ {c}
      PROVE  /\ Queue(heard'[q], tx'[q], partner'[q])
             /\ IF q = partner[c] THEN Heard(heard'[q], tx'[q]) = "left"
                ELSE Heard(heard'[q], tx'[q]) = Heard(heard[q], tx[q])
  <2>1. CASE q = partner[c]
    <3>1. partner[q] = c
      BY <2>1, LogAssumption DEF Matches, PartnerMutual
    <3>2. tx'[q] = Append(tx[q], LEFT) /\ partner'[q] = None
      BY <1>1, <2>1, DropMatches
    <3>3. Queue(heard[q], tx[q], c)
      BY <3>1 DEF Queues
    <3> QED
      BY <1>2, <2>1, <3>2, <3>3, QueueLeft
  <2>2. CASE q # partner[c]
    <3>1. tx'[q] = tx[q] /\ partner'[q] = partner[q]
      BY <1>1, <2>2, DropMatches
    <3> QED
      BY <1>2, <2>2, <3>1 DEF Queues
  <2> QED
    BY <2>1, <2>2
<1>6. \A q \in Conn : Queue(heard'[q], tx'[q], partner'[q])
  BY <1>4, <1>5
<1>7. tx' \in [Conn -> Seq(Frames)] /\ heard' \in [Conn -> Spot]
  <2>1. \A q \in Conn : tx'[q] \in Seq(Frames)
    BY <1>6 DEF Queue
  <2> QED
    BY <1>1, <2>1 DEF Queues, Spot
<1> QED
  BY <1>5, <1>6, <1>7 DEF Queues, End

LEMMA DropLogs ==
  ASSUME Logs, NEW c \in Conn, Drop(c)
  PROVE  Logs'
<1>1. /\ crc' = [crc EXCEPT ![c] = <<>>] /\ lap' = [lap EXCEPT ![c] = 0]
      /\ last' = [last EXCEPT ![c] = -1] /\ bad' = bad
  BY DEF Drop
<1>2. <<>> \in Seq([key : Nat, sum : Nat]) /\ -1 \in -1..(WireTicks - 1)
  BY LogAssumption
<1> QED
  BY <1>1, <1>2 DEF Logs, LogTypeOK

LEMMA DropStep ==
  ASSUME RelayInv, NEW c \in Live, Drop(c)
  PROVE  RelayInv'
<1>1. c \in Conn
  BY LiveInConn DEF RelayInv
<1>2. Logs' /\ Listed' /\ Roster' /\ Matches' /\ Queues'
  <2>1. clients' = Cut(clients, Born(c))
    BY DEF Drop
  <2> QED
    BY <1>1, <2>1, DropLogs, DropListed, DropRoster, DropMatches, DropQueues DEF RelayInv
<1>3. name'[c] = None /\ \A q \in Conn \ {c} : name'[q] = name[q]
  BY <1>1 DEF Drop, RelayInv, Roster
<1>4. ASSUME NEW q \in Conn, Waits(q)' PROVE Waits(q)
  <2>1. q # c /\ name[q] # None
    BY <1>3, <1>4 DEF Waits
  <2>2. q # partner[c] /\ End(q) = "lobby"
    BY <1>1, <1>4, <2>1, DropQueues DEF Waits, RelayInv
  <2>3. partner[q] = None
    BY <1>1, <1>4, <2>1, <2>2, DropMatches DEF Waits, RelayInv
  <2> QED
    BY <2>1, <2>2, <2>3 DEF Waits
<1>5. Alone'
  BY <1>4 DEF Alone, RelayInv
<1> QED
  BY <1>2, <1>5 DEF RelayInv

-----------------------------------------------------------------------------
(* A console that is paired *)

LEMMA HelloRoster ==
  ASSUME Roster, NEW c \in Live, c \in Conn, NEW w \in Names, holder[w] = None, Hello(c, w)
  PROVE  Roster'
<1>1. /\ name' = [name EXCEPT ![c] = w] /\ holder' = [holder EXCEPT ![w] = c]
      /\ told' = Cardinality(Taken(holder')) /\ clients' = clients /\ name[c] = None
  BY DEF Hello
<1>2. holder' \in [Names -> Conn \cup {None}] /\ name' \in [Conn -> Names \cup {None}]
  BY <1>1 DEF Roster
<1>3. name'[c] = w /\ \A d \in Conn \ {c} : name'[d] = name[d]
  BY <1>1 DEF Roster
<1>4. holder'[w] = c /\ \A n \in Names \ {w} : holder'[n] = holder[n]
  BY <1>1 DEF Roster
<1>5. ASSUME NEW d \in Conn, name'[d] # None
      PROVE  d \in Live' /\ holder'[name'[d]] = d
  <2>1. CASE d = c
    BY <1>1, <1>3, <1>4, <2>1 DEF Live
  <2>2. CASE d # c
    <3>1. name'[d] = name[d] /\ name[d] \in Names /\ d \in Live /\ holder[name[d]] = d
      BY <1>3, <1>5, <2>2 DEF Roster
    <3>2. name[d] # w
      BY <3>1, LogAssumption
    <3> QED
      BY <1>1, <1>4, <3>1, <3>2 DEF Live
  <2> QED
    BY <2>1, <2>2
<1>6. ASSUME NEW n \in Names, holder'[n] # None PROVE name'[holder'[n]] = n
  <2>1. CASE n = w
    BY <1>3, <1>4, <2>1
  <2>2. CASE n # w
    <3>1. holder'[n] = holder[n] /\ holder[n] \in Conn /\ name[holder[n]] = n
      BY <1>4, <1>6, <2>2 DEF Roster
    <3>2. holder[n] # c
      BY <1>1, <3>1, RelayAssumption
    <3> QED
      BY <1>3, <3>1, <3>2
  <2> QED
    BY <2>1, <2>2
<1>7. (\A d \in Conn : name[d] # None => d \in Live /\ holder[name[d]] = d)'
  BY <1>5
<1>8. (\A n \in Names : holder[n] # None => name[holder[n]] = n)'
  BY <1>6
<1>9. (told = Cardinality(Taken(holder)))'
  BY <1>1
<1> QED
  BY <1>2, <1>7, <1>8, <1>9 DEF Roster

\* What try_pair does for a console c that has a name and no match.
LEMMA PairStep ==
  ASSUME RelayInv, NEW c \in Conn, name'[c] # None, partner[c] = None,
         \A d \in Conn \ {c} : name'[d] = name[d],
         heard' = heard, TryPair(c, name')
  PROVE  Logs' /\ Matches' /\ Queues' /\ Alone'
<1> USE DEF RelayInv
<1>1. PICK h \in PartnerFor(c, name') : Pair(c, h)
  BY DEF TryPair
<1>2. CASE h = None
  <2>1. /\ crc' = crc /\ lap' = lap /\ last' = last /\ bad' = bad
        /\ partner' = partner /\ role' = role /\ tx' = tx
    BY <1>1, <1>2 DEF Pair, logVars, pairVars
  <2>2. Others(c, name') = {}
    <3>1. Oldest(Others(c, name')) \subseteq Conn
      BY DEF Oldest, Others
    <3> QED
      BY <1>1, <1>2, <3>1, LogAssumption DEF PartnerFor
  <2>3. Logs' /\ Queues'
    BY <2>1 DEF Logs, LogTypeOK, Queues
  <2>4. PartnerMutual'
    <3> SUFFICES ASSUME NEW q \in Conn, partner[q] # None
                 PROVE  /\ partner[q] # q /\ partner[partner[q]] = q
                        /\ name'[q] # None /\ name'[partner[q]] # None
                        /\ {role[q], role[partner[q]]} = {0, 1}
      BY <2>1 DEF PartnerMutual
    <3>1. /\ partner[q] # q /\ partner[partner[q]] = q
          /\ name[q] # None /\ name[partner[q]] # None
          /\ {role[q], role[partner[q]]} = {0, 1} /\ partner[q] \in Conn
      BY DEF Matches, PartnerMutual
    <3> QED
      BY <3>1
  <2>5. Matches'
    BY <2>1, <2>4 DEF Matches
  <2>6. ASSUME NEW d \in Conn, Waits(d)' PROVE d = c
    <3> SUFFICES ASSUME d # c PROVE FALSE
      OBVIOUS
    <3>1. name'[d] # None /\ partner[d] = None
      BY <2>1, <2>6 DEF Waits
    <3>2. d \in Live
      BY <3>1 DEF Roster
    <3> QED
      BY <2>2, <3>1, <3>2 DEF Others, Idle
  <2>7. Alone'
    BY <2>6 DEF Alone
  <2> QED
    BY <2>3, <2>5, <2>7
<1>3. CASE h # None
  <2>1. /\ partner' = [partner EXCEPT ![h] = c, ![c] = h]
        /\ role' = [role EXCEPT ![h] = 0, ![c] = 1]
        /\ crc' = [d \in Conn |-> IF d \in {h, c} THEN <<>> ELSE crc[d]]
        /\ tx' = [tx EXCEPT ![h] = Append(@, START(c)), ![c] = Append(@, START(h))]
        /\ lap' = lap /\ last' = last /\ bad' = bad
    BY <1>1, <1>3 DEF Pair, ClearLogs
  <2>2. h \in Conn /\ h # c /\ name'[h] # None /\ partner[h] = None
    BY <1>1, <1>3 DEF PartnerFor, Oldest, Others, Idle
  <2>3. Logs'
    <3>1. <<>> \in Seq([key : Nat, sum : Nat])
      OBVIOUS
    <3> QED
      BY <2>1, <3>1 DEF Logs, LogTypeOK
  <2>4. /\ partner' \in [Conn -> Conn \cup {None}]
        /\ partner'[c] = h /\ partner'[h] = c
        /\ \A q \in Conn \ {c, h} : partner'[q] = partner[q]
    BY <2>1, <2>2 DEF Matches
  <2>5. /\ role' \in [Conn -> {0, 1, None}] /\ role'[h] = 0 /\ role'[c] = 1
        /\ \A q \in Conn \ {c, h} : role'[q] = role[q]
    BY <2>1, <2>2 DEF Matches
  <2>6. PartnerMutual'
    <3> SUFFICES ASSUME NEW q \in Conn, partner'[q] # None
                 PROVE  /\ partner'[q] # q /\ partner'[partner'[q]] = q
                        /\ name'[q] # None /\ name'[partner'[q]] # None
                        /\ {role'[q], role'[partner'[q]]} = {0, 1}
      BY DEF PartnerMutual
    <3>1. CASE q \in {c, h}
      BY <2>2, <2>4, <2>5, <3>1
    <3>2. CASE q \notin {c, h}
      <4>1. partner'[q] = partner[q] /\ partner[q] # None /\ partner[q] \in Conn
        BY <2>4, <3>2 DEF Matches
      <4>2. /\ partner[q] # q /\ partner[partner[q]] = q
            /\ name[q] # None /\ name[partner[q]] # None
            /\ {role[q], role[partner[q]]} = {0, 1}
        BY <4>1 DEF Matches, PartnerMutual
      <4>3. partner[q] \notin {c, h}
        BY <2>2, <4>2, LogAssumption
      <4> QED
        BY <2>4, <2>5, <3>2, <4>1, <4>2, <4>3
    <3> QED
      BY <3>1, <3>2
  <2>7. Matches'
    BY <2>4, <2>5, <2>6 DEF Matches
  <2>8. /\ tx'[c] = Append(tx[c], START(h)) /\ tx'[h] = Append(tx[h], START(c))
        /\ \A q \in Conn \ {c, h} : tx'[q] = tx[q]
    BY <2>1, <2>2 DEF Queues
  <2>9. \A q \in {c, h} : /\ Queue(heard'[q], tx'[q], partner'[q])
                          /\ Heard(heard'[q], tx'[q]) \in Conn
    <3>1. Queue(heard[c], tx[c], None) /\ Queue(heard[h], tx[h], None)
      BY <2>2 DEF Queues
    <3>2. /\ Queue(heard[c], tx'[c], h) /\ Heard(heard[c], tx'[c]) = h
          /\ Queue(heard[h], tx'[h], c) /\ Heard(heard[h], tx'[h]) = c
      BY <2>2, <2>8, <3>1, QueueStart
    <3> QED
      BY <2>2, <2>4, <3>2
  <2>10. \A q \in Conn \ {c, h} : Queue(heard'[q], tx'[q], partner'[q])
    BY <2>4, <2>8 DEF Queues
  <2>11. Queues'
    <3>1. \A q \in Conn : Queue(heard'[q], tx'[q], partner'[q])
      BY <2>9, <2>10
    <3>2. \A q \in Conn : tx'[q] \in Seq(Frames)
      BY <3>1 DEF Queue
    <3>3. tx' \in [Conn -> Seq(Frames)]
      BY <2>1, <3>2 DEF Queues
    <3> QED
      BY <3>1, <3>3 DEF Queues
  <2>12. ASSUME NEW d \in Conn, Waits(d)' PROVE Waits(d)
    <3>1. d \notin {c, h}
      BY <2>2, <2>4, <2>12, LogAssumption DEF Waits
    <3> QED
      BY <2>4, <2>8, <2>12, <3>1 DEF Waits, End
  <2>13. Alone'
    BY <2>12 DEF Alone
  <2> QED
    BY <2>3, <2>7, <2>11, <2>13
<1> QED
  BY <1>2, <1>3

-----------------------------------------------------------------------------
(* The checksum log *)

Entry == [key : Nat, sum : Nat]

LEMMA PutType ==
  ASSUME NEW log \in Seq(Entry), NEW key \in Nat, NEW sum \in Nat
  PROVE  Put(log, key, sum) \in Seq(Entry)
<1> DEFINE e == [key |-> key, sum |-> sum]
<1>1. e \in Entry
  BY DEF Entry
<1> HIDE DEF e
<1>2. [i \in DOMAIN log |-> IF log[i].key = key THEN e ELSE log[i]] \in Seq(Entry)
  BY <1>1
<1>3. Append(log, e) \in Seq(Entry)
  BY <1>1, AppendProperties
<1> QED
  BY <1>2, <1>3 DEF Put, e

LEMMA AssignType ==
  ASSUME NEW log \in Seq(Entry), NEW key \in Nat, NEW sum \in Nat
  PROVE  Assign(log, key, sum, LogSlots) \in Seq(Entry)
<1> DEFINE e == [key |-> key, sum |-> sum]
<1>1. e \in Entry
  BY DEF Entry
<1> HIDE DEF e
<1>2. CASE LogSlots = None \/ Holds(log, key) \/ Len(log) < LogSlots
  BY <1>2, PutType DEF Assign
<1>3. CASE ~(LogSlots = None \/ Holds(log, key) \/ Len(log) < LogSlots)
  <2>1. LogSlots \in Nat /\ LogSlots - 1 \in Int /\ LogSlots - 1 <= Len(log)
    BY <1>3, RelayAssumption, LenProperties
  <2>2. \A i \in 1..(LogSlots - 1) : log[i] \in Entry
    BY <2>1, LenProperties
  <2>3. SubSeq(log, 1, LogSlots - 1) \in Seq(Entry)
    BY <2>1, <2>2, SubSeqProperties
  <2>4. Append(SubSeq(log, 1, LogSlots - 1), e) \in Seq(Entry)
    BY <1>1, <2>3, AppendProperties
  <2> QED
    BY <1>3, <2>4, Zenon DEF Assign, e
<1> QED
  BY <1>2, <1>3

LEMMA YoungestType ==
  ASSUME NEW log \in Seq(Entry)
  PROVE  Youngest(log) \in Seq(Entry)
<1>1. Len(log) > Keep => Len(log) - Keep + 1 \in 1..Len(log)
  BY LogAssumption, LenProperties
<1> QED
  BY <1>1 DEF Youngest

LEMMA WithoutType ==
  ASSUME NEW log \in Seq(Entry), NEW key, Holds(log, key)
  PROVE  Without(log, key) \in Seq(Entry)
<1>1. Place(log, key) \in 1..Len(log)
  BY LenProperties DEF Holds, Place
<1> QED
  BY <1>1, CutProperties DEF Without

LEMMA LogStep ==
  ASSUME Logs, NEW c \in Conn, NEW p \in Conn \cup {None}, p # c,
         NEW tick \in 0..(WireTicks - 1), NEW sum \in Nat, LogCrc(c, p, tick, sum, LogSlots)
  PROVE  Logs'
<1> DEFINE l == LapAfter(c, tick)
           key == l * WireTicks + tick
           mine == Assign(crc[c], key, sum, LogSlots)
<1>1. crc \in [Conn -> Seq(Entry)] /\ lap \in [Conn -> Nat]
      /\ last \in [Conn -> -1..(WireTicks - 1)] /\ bad \in BOOLEAN
  BY DEF Logs, LogTypeOK, Entry
<1>2. l \in Nat
  BY <1>1 DEF LapAfter
<1> HIDE DEF l
<1>3. key \in Nat
  <2>1. WireTicks \in Nat
    BY LogAssumption
  <2>2. l * WireTicks \in Nat
    BY <1>2, <2>1
  <2> QED
    BY <2>1, <2>2
<1>4. /\ lap' = [lap EXCEPT ![c] = l] /\ last' = [last EXCEPT ![c] = tick]
      /\ IF p = None \/ ~Holds(crc[p], key)
         THEN crc' = [crc EXCEPT ![c] = Youngest(mine)] /\ bad' = bad
         ELSE /\ crc' = [crc EXCEPT ![c] = mine, ![p] = Without(@, key)]
              /\ bad' = (bad \/ Sum(crc[p], key) # sum)
  BY DEF LogCrc, l
<1> HIDE DEF key
<1>5. mine \in Seq(Entry) /\ Youngest(mine) \in Seq(Entry)
  BY <1>1, <1>3, AssignType, YoungestType
<1> HIDE DEF mine
<1>6. crc' \in [Conn -> Seq(Entry)]
  <2>1. CASE p = None \/ ~Holds(crc[p], key)
    BY <1>1, <1>4, <1>5, <2>1
  <2>2. CASE ~(p = None \/ ~Holds(crc[p], key))
    <3>1. p \in Conn /\ crc[p] \in Seq(Entry) /\ Holds(crc[p], key)
      BY <1>1, <2>2
    <3>2. Without(crc[p], key) \in Seq(Entry)
      BY <3>1, WithoutType
    <3>3. crc' = [[crc EXCEPT ![c] = mine] EXCEPT ![p] = Without([crc EXCEPT ![c] = mine][p], key)]
      BY <1>4, <2>2
    <3>4. [crc EXCEPT ![c] = mine][p] = crc[p]
      BY <1>1, <3>1
    <3> QED
      BY <1>1, <1>5, <3>1, <3>2, <3>3, <3>4
  <2> QED
    BY <2>1, <2>2
<1>7. bad' \in BOOLEAN
  BY <1>1, <1>4
<1>8. lap' \in [Conn -> Nat] /\ last' \in [Conn -> -1..(WireTicks - 1)]
  BY <1>1, <1>2, <1>4, LogAssumption
<1> QED
  BY <1>6, <1>7, <1>8 DEF Logs, LogTypeOK, Entry

-----------------------------------------------------------------------------
(* Every step *)

LEMMA AcceptStep ==
  ASSUME RelayInv, NEW c \in Conn, Accept(c)
  PROVE  RelayInv'
<1> USE DEF RelayInv
<1>1. /\ UNCHANGED <<logVars, holder, name, told, pairVars, tx, heard>>
      /\ Listed' /\ Live' = Live \cup {c}
  BY AcceptListed DEF Accept
<1>2. Roster'
  BY <1>1 DEF Roster, Taken
<1>3. Logs' /\ Matches' /\ Queues' /\ Alone'
  BY <1>1 DEF logVars, pairVars, Logs, LogTypeOK, Matches, PartnerMutual, Queues, Alone,
              Waits, End
<1> QED
  BY <1>1, <1>2, <1>3

LEMMA HelloStep ==
  ASSUME RelayInv, NEW c \in Conn, NEW n \in Asked, NEW w \in Uniquified(n), Hello(c, w)
  PROVE  RelayInv'
<1> USE DEF RelayInv
<1>1. w \in Names /\ holder[w] = None /\ w # None
  BY RelayAssumption DEF Uniquified
<1>2. /\ c \in Live /\ name[c] = None /\ name' = [name EXCEPT ![c] = w]
      /\ clients' = clients /\ heard' = heard /\ TryPair(c, name')
  BY DEF Hello
<1>3. Roster'
  BY <1>1, <1>2, HelloRoster
<1>4. name'[c] # None /\ \A d \in Conn \ {c} : name'[d] = name[d]
  BY <1>1, <1>2 DEF Roster
<1>5. partner[c] = None
  BY <1>2 DEF Matches, PartnerMutual
<1>6. Logs' /\ Matches' /\ Queues' /\ Alone'
  BY <1>2, <1>4, <1>5, PairStep
<1>7. Listed'
  BY <1>2 DEF Listed
<1> QED
  BY <1>3, <1>6, <1>7

LEMMA JoinStep ==
  ASSUME RelayInv, NEW c \in Conn, Join(c)
  PROVE  RelayInv'
<1> USE DEF RelayInv
<1>1. /\ name[c] # None /\ partner[c] = None /\ TryPair(c, name)
      /\ clients' = clients /\ holder' = holder /\ name' = name /\ told' = told
      /\ heard' = heard
  BY DEF Join, connVars
<1>2. Logs' /\ Matches' /\ Queues' /\ Alone'
  BY <1>1, PairStep
<1>3. Listed' /\ Roster'
  BY <1>1 DEF Listed, Roster, Live, Taken
<1> QED
  BY <1>2, <1>3

\* One frame more for q, that is neither a START nor a PEER_LEFT.
LEMMA SendStep ==
  ASSUME RelayInv, NEW q \in Conn, NEW f \in Frames,
         \/ f.type = "REPLY"
         \/ f.type = "INPUT" /\ partner[q] # None /\ f.from = partner[q],
         tx' = [tx EXCEPT ![q] = Append(@, f)],
         UNCHANGED <<connVars, pairVars, heard>>
  PROVE  Queues' /\ Alone'
<1> USE DEF RelayInv, connVars, pairVars
<1>1. tx'[q] = Append(tx[q], f) /\ \A d \in Conn \ {q} : tx'[d] = tx[d]
  BY DEF Queues
<1>2. Queue(heard[q], tx[q], partner[q])
  BY DEF Queues
<1>3. Queue(heard[q], tx'[q], partner[q]) /\ Heard(heard[q], tx'[q]) = Heard(heard[q], tx[q])
  BY <1>1, <1>2, QueueMore
<1>4. \A d \in Conn : Queue(heard[d], tx'[d], partner[d])
  BY <1>1, <1>3 DEF Queues
<1>5. \A d \in Conn : Heard(heard[d], tx'[d]) = Heard(heard[d], tx[d])
  BY <1>1, <1>3
<1>6. Queues'
  <2>1. tx'[q] \in Seq(Frames)
    BY <1>3 DEF Queue
  <2>2. tx' \in [Conn -> Seq(Frames)]
    BY <1>1, <2>1 DEF Queues
  <2> QED
    BY <1>4, <2>2 DEF Queues
<1>7. \A d \in Conn : Waits(d)' => Waits(d)
  BY <1>5 DEF Waits, End
<1> QED
  BY <1>6, <1>7 DEF Alone

LEMMA StillThere ==
  ASSUME RelayInv, UNCHANGED <<connVars, pairVars>>
  PROVE  Listed' /\ Roster' /\ Matches'
<1>1. /\ clients' = clients /\ holder' = holder /\ name' = name /\ told' = told
      /\ partner' = partner /\ role' = role
  BY DEF connVars, pairVars
<1>2. Listed' /\ Roster'
  BY <1>1 DEF RelayInv, Listed, Roster, Live, Taken
<1>3. Matches'
  BY <1>1 DEF RelayInv, Matches, PartnerMutual
<1> QED
  BY <1>2, <1>3

LEMMA QueryStep ==
  ASSUME RelayInv, NEW c \in Conn, Query(c)
  PROVE  RelayInv'
<1>1. /\ tx' = [tx EXCEPT ![c] = Append(@, REPLY)]
      /\ UNCHANGED <<connVars, pairVars, heard>> /\ UNCHANGED logVars
  BY DEF Query, connVars, pairVars, logVars
<1>2. REPLY \in Frames /\ REPLY.type = "REPLY"
  BY FrameType DEF REPLY
<1>3. Queues' /\ Alone'
  BY <1>1, <1>2, SendStep
<1>4. Logs'
  BY <1>1 DEF RelayInv, Logs, LogTypeOK, logVars
<1> QED
  BY <1>1, <1>3, <1>4, StillThere DEF RelayInv

LEMMA InputStep ==
  ASSUME RelayInv, NEW c \in Conn, NEW r \in Reports, Input(c, r)
  PROVE  RelayInv'
<1> DEFINE p == partner[c]
<1>1. /\ tx' = IF p = None THEN tx ELSE [tx EXCEPT ![p] = Append(@, INPUT(c))]
      /\ LogCrc(c, p, r.tick, r.sum, LogSlots) /\ UNCHANGED <<connVars, pairVars, heard>>
  BY DEF Input, connVars, pairVars
<1>2. p \in Conn \cup {None} /\ p # c /\ (p # None => p \in Conn /\ partner[p] = c)
  BY LogAssumption DEF RelayInv, Matches, PartnerMutual
<1>3. r.tick \in 0..(WireTicks - 1) /\ r.sum \in Nat
  BY RelayAssumption
<1> HIDE DEF p
<1>4. Logs'
  BY <1>1, <1>2, <1>3, LogStep DEF RelayInv
<1>5. Queues' /\ Alone'
  <2>1. CASE p = None
    BY <1>1, <2>1 DEF RelayInv, Queues, Alone, Waits, End, connVars, pairVars
  <2>2. CASE p # None
    <3>1. INPUT(c) \in Frames /\ INPUT(c).type = "INPUT" /\ INPUT(c).from = c
      BY FrameType DEF INPUT
    <3> QED
      BY <1>1, <1>2, <2>2, <3>1, LogAssumption, SendStep
  <2> QED
    BY <2>1, <2>2
<1> QED
  BY <1>1, <1>4, <1>5, StillThere DEF RelayInv

LEMMA FlushStep ==
  ASSUME RelayInv, NEW c \in Conn, NEW k \in 0..(MaxTx + 2), Flush(c, k)
  PROVE  RelayInv'
<1> DEFINE rest == SubSeq(tx[c], k + 1, Len(tx[c]))
           at == Heard(heard[c], SubSeq(tx[c], 1, k))
<1>1. c \in Live /\ k <= Len(tx[c])
  BY DEF Flush
<1>2. CASE Drop(c)
  BY <1>1, <1>2, DropStep
<1>3. CASE ~Drop(c)
  <2>1. /\ tx' = [tx EXCEPT ![c] = rest] /\ heard' = [heard EXCEPT ![c] = at]
        /\ UNCHANGED <<logVars, connVars, pairVars>>
    <3>1. heard' = [heard EXCEPT ![c] = Heard(@, SubSeq(tx[c], 1, k))]
      BY <1>3 DEF Flush
    <3>2. heard' = [heard EXCEPT ![c] = at]
      BY <3>1 DEF RelayInv, Queues
    <3> QED
      BY <1>3, <3>2 DEF Flush, logVars, connVars, pairVars
  <2>2. Queue(heard[c], tx[c], partner[c]) /\ k \in 0..Len(tx[c])
    <3>1. Len(tx[c]) \in Nat /\ k \in Nat
      BY RelayAssumption, LenProperties DEF RelayInv, Queues
    <3> QED
      BY <1>1, <3>1 DEF RelayInv, Queues
  <2>3. Queue(at, rest, partner[c]) /\ Heard(at, rest) = Heard(heard[c], tx[c])
    BY <2>2, QueueRead
  <2> HIDE DEF at, rest
  <2>4. tx'[c] = rest /\ heard'[c] = at
        /\ \A d \in Conn \ {c} : tx'[d] = tx[d] /\ heard'[d] = heard[d]
    BY <2>1 DEF RelayInv, Queues
  <2>5. \A d \in Conn : /\ Queue(heard'[d], tx'[d], partner[d])
                        /\ Heard(heard'[d], tx'[d]) = Heard(heard[d], tx[d])
    BY <2>3, <2>4 DEF RelayInv, Queues
  <2>6. Queues'
    <3>1. rest \in Seq(Frames) /\ at \in Spot
      BY <2>3 DEF Queue
    <3>2. tx' \in [Conn -> Seq(Frames)] /\ heard' \in [Conn -> Spot]
      BY <2>1, <3>1 DEF RelayInv, Queues
    <3> QED
      BY <2>1, <2>5, <3>2 DEF Queues, pairVars
  <2>7. \A d \in Conn : Waits(d)' => Waits(d)
    BY <2>1, <2>5 DEF Waits, End, connVars, pairVars
  <2>8. Logs' /\ Alone'
    BY <2>1, <2>7 DEF RelayInv, Logs, LogTypeOK, logVars, Alone
  <2> QED
    BY <2>1, <2>6, <2>8, StillThere DEF RelayInv
<1> QED
  BY <1>2, <1>3

LEMMA RelayNext == RelayInv /\ [Next]_vars => RelayInv'
<1> SUFFICES ASSUME RelayInv, [Next]_vars PROVE RelayInv'
  OBVIOUS
<1>1. CASE Next
  <2>1. PICK c \in Conn : Event(c) \/ \E k \in 0..(MaxTx + 2) : Flush(c, k)
    BY <1>1 DEF Next
  <2>2. CASE Gone(c)
    BY <2>2, DropStep DEF Gone
  <2>3. CASE Accept(c) \/ Join(c) \/ Query(c)
    BY <2>3, AcceptStep, JoinStep, QueryStep
  <2>4. CASE \E n \in Asked : \E w \in Uniquified(n) : Hello(c, w)
    BY <2>4, HelloStep
  <2>5. CASE \E r \in Reports : Input(c, r)
    BY <2>5, InputStep
  <2>6. CASE \E k \in 0..(MaxTx + 2) : Flush(c, k)
    BY <2>6, FlushStep
  <2> QED
    BY <2>1, <2>2, <2>3, <2>4, <2>5, <2>6 DEF Event
<1>2. CASE UNCHANGED vars
  <2>1. UNCHANGED <<connVars, pairVars>> /\ UNCHANGED logVars /\ tx' = tx /\ heard' = heard
    BY <1>2 DEF vars
  <2>2. Logs' /\ Queues' /\ Alone'
    BY <2>1 DEF RelayInv, Logs, LogTypeOK, logVars, Queues, Alone, Waits, End, connVars, pairVars
  <2> QED
    BY <2>1, <2>2, StillThere DEF RelayInv
<1> QED
  BY <1>1, <1>2

LEMMA RelayAlways == Spec => []RelayInv
BY InitInv, RelayNext, PTL DEF Spec

-----------------------------------------------------------------------------
(* Counts *)

LEMMA LiveCount == Listed => Cardinality(Live) = Len(clients)
<1> SUFFICES ASSUME Listed PROVE Cardinality(Live) = Len(clients)
  OBVIOUS
<1> DEFINE n == Len(clients)
           f == [i \in 1..n |-> clients[i]]
<1>1. n \in Nat /\ DOMAIN clients = 1..n
  BY LenProperties DEF Listed
<1>2. f \in Bijection(1..n, Live)
  <2>1. f \in [1..n -> Live] /\ \A d \in Live : \E i \in 1..n : f[i] = d
    BY <1>1 DEF Live
  <2>2. \A i, j \in 1..n : f[i] = f[j] => i = j
    BY <1>1 DEF Listed
  <2> QED
    BY <2>1, <2>2 DEF Bijection, Injection, Surjection, IsInjective
<1> HIDE DEF n
<1>3. IsFiniteSet(1..n) /\ Cardinality(1..n) = n
  <2>1. Cardinality(1..n) = IF 1 > n THEN 0 ELSE n - 1 + 1
    BY <1>1, FS_Interval
  <2>2. IsFiniteSet(1..n)
    BY <1>1, FS_Interval
  <2> QED
    BY <1>1, <2>1, <2>2
<1> QED
  BY <1>2, <1>3, FS_Bijection DEF ExistsBijection, n

LEMMA TakenFinite == IsFiniteSet(Taken(holder)) /\ Cardinality(Taken(holder)) \in Nat
<1>1. Taken(holder) \in SUBSET Names
  BY DEF Taken
<1> QED
  BY <1>1, RelayAssumption, FS_Subset, FS_CardinalityType

LEMMA NamedCount ==
  Roster => Cardinality(Taken(holder)) = Cardinality({c \in Conn : name[c] # None})
<1> SUFFICES ASSUME Roster
             PROVE  Cardinality(Taken(holder)) = Cardinality({c \in Conn : name[c] # None})
  OBVIOUS
<1> DEFINE S == Taken(holder)
           T == {c \in Conn : name[c] # None}
           f == [n \in S |-> holder[n]]
<1>1. ASSUME NEW n \in S PROVE n \in Names /\ holder[n] \in T /\ name[holder[n]] = n
  BY RelayAssumption DEF Taken, Roster
<1>2. ASSUME NEW c \in T PROVE name[c] \in S /\ holder[name[c]] = c
  BY LogAssumption DEF Taken, Roster
<1> HIDE DEF S, T
<1>3. f \in [S -> T]
  BY <1>1
<1>4. \A m, n \in S : f[m] = f[n] => m = n
  BY <1>1
<1>5. \A c \in T : \E n \in S : f[n] = c
  BY <1>2
<1>6. f \in Bijection(S, T)
  BY <1>3, <1>4, <1>5 DEF Bijection, Injection, Surjection, IsInjective
<1>7. IsFiniteSet(S)
  BY TakenFinite DEF S
<1> QED
  BY <1>6, <1>7, FS_Bijection DEF ExistsBijection, S, T

-----------------------------------------------------------------------------
(* What the runs check *)

\* Nothing of the server refers to a connection that is gone (drop takes it out
\* of clients, by_name and its partner), for any number of connections.
THEOREM RelayTypeCorrect == Spec => []TypeOK
<1>1. RelayInv => TypeOK
  <2> SUFFICES ASSUME RelayInv PROVE TypeOK
    OBVIOUS
  <2> USE DEF RelayInv
  <2>1. holder \in [Names -> Live \cup {None}]
    <3>1. \A n \in Names : holder[n] # None => holder[n] \in Live
      BY RelayAssumption DEF Roster
    <3> QED
      BY <3>1 DEF Roster
  <2>2. partner \in [Conn -> Live \cup {None}]
    <3>1. \A c \in Conn : partner[c] # None => partner[c] \in Live
      BY DEF Matches, PartnerMutual, Roster
    <3> QED
      BY <3>1 DEF Matches
  <2>3. told \in Nat
    BY TakenFinite DEF Roster
  <2>4. clients \in Seq(Conn) /\ Cardinality(Live) = Len(clients)
    BY LiveCount DEF Listed
  <2>5. heard \in [Conn -> Conn \cup {"lobby", "left"}] /\ tx \in [Conn -> Seq(Frames)]
    BY DEF Queues, Spot
  <2> QED
    BY <2>1, <2>2, <2>3, <2>4, <2>5 DEF TypeOK, Logs, Roster, Matches
<1> QED
  BY RelayAlways, <1>1, PTL

\* A match is two consoles that know of each other (try_pair, drop).
THEOREM PartnerCorrect == Spec => []PartnerMutual
<1>1. RelayInv => PartnerMutual
  BY DEF RelayInv, Matches
<1> QED
  BY RelayAlways, <1>1, PTL

\* What each console is sent is a sequence of matches, each with one opponent's
\* records only (handle, try_pair, drop, flush), however much of it is unread.
THEOREM BracketedCorrect == Spec => []Bracketed
<1>1. RelayInv => Bracketed
  BY DEF RelayInv, Queues, Queue, WellFormed, Fits, Bracketed
<1> QED
  BY RelayAlways, <1>1, PTL

\* by_name is the roster, and the count given to the lobby is that of the consoles
\* with a name (on_hello, drop).
THEOREM RosterCorrect == Spec => []RosterHonest
<1>1. RelayInv => RosterHonest
  BY NamedCount DEF RelayInv, Roster, RosterHonest
<1> QED
  BY RelayAlways, <1>1, PTL

\* Of the consoles yet to be given a match no two wait for each other (try_pair on
\* every HELLO).
THEOREM WaitingCorrect == Spec => []OneWaiting
<1>1. RelayInv => OneWaiting
  <2> SUFFICES ASSUME RelayInv PROVE OneWaiting
    OBVIOUS
  <2> DEFINE W == {c \in Conn : Idle(c, name) /\ Heard(heard[c], tx[c]) = "lobby"}
  <2>1. \A c, d \in W : c = d
    BY DEF RelayInv, Alone, Waits, End, Idle
  <2>2. CASE W = {}
    BY <2>2, FS_EmptySet DEF OneWaiting
  <2>3. CASE W # {}
    <3>1. PICK c \in W : TRUE
      BY <2>3
    <3>2. W = {c}
      BY <2>1, <3>1
    <3>3. Cardinality(W) = 1
      BY <3>2, FS_Singleton
    <3> QED
      BY <3>3 DEF OneWaiting
  <2> QED
    BY <2>2, <2>3
<1> QED
  BY RelayAlways, <1>1, PTL
=============================================================================
