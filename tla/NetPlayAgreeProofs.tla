------------------------- MODULE NetPlayAgreeProofs -------------------------
(***************************************************************************)
(* That the two consoles agree: on the bytes of a tick they have both run, *)
(* whatever the transports did with the records, and so on the states they *)
(* come to; that the checksums never accuse a match that is in step; and   *)
(* that the netcode implements Lockstep.                                   *)
(***************************************************************************)
EXTENDS NetPlayProofs

-----------------------------------------------------------------------------
(* Slots of a ring *)

LEMMA ModDef ==
  ASSUME NEW a \in Int, NEW n \in Nat \ {0}
  PROVE  a = n * (a \div n) + (a % n) /\ a \div n \in Int /\ a % n \in 0..(n - 1)
OBVIOUS

LEMMA MultSmall ==
  ASSUME NEW n \in Nat \ {0}, NEW k \in Int, -n < n * k, n * k < n
  PROVE  k = 0
OBVIOUS

LEMMA ModUnique ==
  ASSUME NEW n \in Nat \ {0}, NEW q \in Int, NEW r \in Int, 0 <= r, r < n
  PROVE  (n * q + r) % n = r
OBVIOUS

\* Ticks less than a ring apart have slots of their own.
LEMMA ModDistinct ==
  ASSUME NEW a \in Int, NEW b \in Int, NEW n \in Nat \ {0}, a % n = b % n,
         -n < a - b, a - b < n
  PROVE  a = b
<1> DEFINE k == (a \div n) - (b \div n)
<1>1. k \in Int /\ a - b = n * k
  <2>1. /\ a = n * (a \div n) + (a % n) /\ a \div n \in Int
        /\ b = n * (b \div n) + (b % n) /\ b \div n \in Int
        /\ a % n \in Int
    BY ModDef
  <2> DEFINE x == a \div n
             y == b \div n
  <2>2. n * x - n * y = n * (x - y)
    BY <2>1
  <2> QED
    BY <2>1, <2>2
<1>2. k = 0
  <2> HIDE DEF k
  <2> QED
    BY <1>1, MultSmall
<1> QED
  BY <1>1, <1>2

\* How far a stamp is from the tick of a slot, when they are less than a ring apart.
LEMMA ModShift ==
  ASSUME NEW s \in Int, NEW t \in Int, NEW n \in Nat \ {0}, -n <= s - t, s - t < n
  PROVE  (s - (t % n)) % n = IF t <= s THEN s - t ELSE s - t + n
<1> DEFINE x == t \div n
           m == t % n
<1>1. t = n * x + m /\ x \in Int /\ m \in Int /\ n * x \in Int
  BY ModDef
<1> HIDE DEF x, m
<1>2. ASSUME NEW y \in Int, NEW r \in Int, 0 <= r, r < n, s - m = n * y + r
      PROVE  (s - m) % n = r
  BY <1>2, ModUnique
<1>3. CASE t <= s
  <2>1. s - m = n * x + (s - t) /\ s - t \in Int /\ 0 <= s - t
    BY <1>1, <1>3
  <2>2. (s - m) % n = s - t
    BY <1>1, <1>2, <2>1
  <2> QED
    BY <1>3, <2>2 DEF m
<1>4. CASE ~(t <= s)
  <2>1. n * (x - 1) = n * x - n
    BY <1>1
  <2>2. s - m = n * (x - 1) + (s - t + n)
    BY <1>1, <2>1
  <2>3. x - 1 \in Int /\ s - t + n \in Int /\ 0 <= s - t + n /\ s - t + n < n
    BY <1>1, <1>4
  <2> QED
    BY <1>2, <1>4, <2>2, <2>3 DEF m
<1> QED
  BY <1>3, <1>4

-----------------------------------------------------------------------------
(* What a boundary leaves alone *)

\* The ticks whose byte a console has decided.
Decided(c) == (NoTick - LocSize)..(tick[c] + Delay)

\* What a boundary of c does, as far as the bytes are concerned.
LEMMA BoundaryEffect ==
  ASSUME IInv, NEW c \in Console, BoundaryRun(c) \/ BoundaryStall(c) \/ BoundaryGone(c)
  PROVE  /\ tick' = [tick EXCEPT ![c] = TickNow(c)]
         /\ TickNow(c) \in 0..MaxTick /\ TickNow(c) \in Ticks /\ tick[c] \in Int
         /\ TickNow(c) = (IF ran[c] THEN tick[c] + 1 ELSE tick[c])
         /\ \/ /\ Arrived(c) /\ ran' = [ran EXCEPT ![c] = TRUE]
               /\ used' = [used EXCEPT ![c][TickNow(c)] =
                     Mix(c, loc'[c][TickNow(c) % LocSize], ring[c][TickNow(c) % RingSize])]
            \/ ran' = [ran EXCEPT ![c] = FALSE] /\ used' = used
         /\ loc' = IF ran[c] THEN [loc EXCEPT ![c][(TickNow(c) + Delay) % LocSize] = Capture(c)]
                             ELSE loc
         /\ UNCHANGED <<ring, rwat, wireVars>>
<1>1. TypeOK /\ ShapeInv /\ AtBoundary(c) /\ Commit(c)
  BY DEF IInv, BoundaryRun, BoundaryStall, BoundaryGone
<1>2. TickNow(c) \in 0..MaxTick /\ tick' = [tick EXCEPT ![c] = TickNow(c)]
  BY <1>1, CommitType
<1>3. TickNow(c) \in Ticks
  BY <1>2, SizeFacts, BoundAssumption DEF Ticks, NoTick
<1>4. tick[c] \in Int
  BY <1>1, BoundAssumption DEF TypeOK, NoTick
<1>5. loc' = IF ran[c] THEN [loc EXCEPT ![c][(TickNow(c) + Delay) % LocSize] = Capture(c)]
                       ELSE loc
  BY <1>1 DEF Commit, CaptureDue
<1>6. /\ \/ /\ Arrived(c) /\ ran' = [ran EXCEPT ![c] = TRUE]
            /\ used' = [used EXCEPT ![c][TickNow(c)] =
                  Mix(c, loc'[c][TickNow(c) % LocSize], ring[c][TickNow(c) % RingSize])]
         \/ ran' = [ran EXCEPT ![c] = FALSE] /\ used' = used
      /\ UNCHANGED <<ring, rwat, wireVars>>
  BY DEF BoundaryRun, BoundaryStall, BoundaryGone
<1>7. TickNow(c) = (IF ran[c] THEN tick[c] + 1 ELSE tick[c])
  BY DEF TickNow
<1> QED
  BY <1>2, <1>3, <1>4, <1>5, <1>6, <1>7

\* The gate's part of the types.
LEMMA GateTypes ==
  ASSUME TypeOK
  PROVE  /\ tick \in [Console -> NoTick..MaxTick] /\ ran \in [Console -> BOOLEAN]
         /\ loc \in [Console -> [Slots(LocSize) -> Byte]]
         /\ ring \in [Console -> [Slots(RingSize) -> Byte]]
         /\ used \in [Console -> [Ticks -> Pair]]
         /\ trail \in [Console -> [Ticks -> Sims]]
         /\ \A c \in Console : tick[c] \in Int /\ NoTick <= tick[c] /\ tick[c] <= MaxTick
         /\ NoTick = -1 /\ MaxTick \in Nat
BY BoundAssumption DEF TypeOK, NoTick

\* A decided byte stays what it is, run or not: the boundary that runs a tick
\* takes it from the slot it was captured into, and the capture takes another.
LEMMA OwnFixed ==
  ASSUME IInv, NEW d \in Console, Frame(d), NEW c \in Console, NEW t \in Decided(c)
  PROVE  Own(c, t)' = Own(c, t) /\ (HasRun(c, t) => HasRun(c, t)')
<1>1. TypeOK
  BY DEF IInv
<1>2. t \in Int /\ NoTick - LocSize <= t /\ t <= tick[c] + Delay /\ tick[c] \in Int
  BY <1>1, GateTypes, SizeFacts DEF Decided
<1>3. ASSUME tick'[c] = tick[c], ran'[c] = ran[c], used'[c] = used[c], loc'[c] = loc[c]
      PROVE  Own(c, t)' = Own(c, t) /\ (HasRun(c, t) => HasRun(c, t)')
  BY <1>3 DEF Own, HasRun
<1>4. CASE MidTick(d)
  BY <1>3, <1>4 DEF MidTick, history
<1>5. CASE (BoundaryRun(d) \/ BoundaryStall(d) \/ BoundaryGone(d)) /\ c # d
  <2>1. /\ tick' = [tick EXCEPT ![d] = TickNow(d)]
        /\ ran' = [ran EXCEPT ![d] = TRUE] \/ ran' = [ran EXCEPT ![d] = FALSE]
    BY <1>5, BoundaryEffect
  <2>2. used'[c] = used[c] /\ loc'[c] = loc[c]
    <3> DEFINE n == TickNow(d)
               m == Mix(d, loc'[d][n % LocSize], ring[d][n % RingSize])
               k == (n + Delay) % LocSize
               b == Capture(d)
    <3>1. /\ used' = [used EXCEPT ![d][n] = m] \/ used' = used
          /\ loc' = [loc EXCEPT ![d][k] = b] \/ loc' = loc
      BY <1>5, BoundaryEffect
    <3> HIDE DEF n, m, k, b
    <3>2. loc \in [Console -> [Slots(LocSize) -> Byte]] /\ used \in [Console -> [Ticks -> Pair]]
      BY <1>1, GateTypes
    <3> QED
      BY <1>5, <3>1, <3>2
  <2>3. tick'[c] = tick[c] /\ ran'[c] = ran[c]
    BY <1>1, <1>5, <2>1, GateTypes
  <2> QED
    BY <1>3, <2>2, <2>3
<1>6. CASE (BoundaryRun(c) \/ BoundaryStall(c) \/ BoundaryGone(c)) /\ c = d
  <2> DEFINE n == TickNow(c)
  <2>1. /\ tick'[c] = n /\ n \in Int /\ n \in Ticks
        /\ n = (IF ran[c] THEN tick[c] + 1 ELSE tick[c])
        /\ ran[c] \in BOOLEAN
    BY <1>1, <1>6, BoundaryEffect, GateTypes
  <2>2. \/ ran'[c] = TRUE
           /\ used' = [used EXCEPT ![c][n] =
                         Mix(c, loc'[c][n % LocSize], ring[c][n % RingSize])]
        \/ ran'[c] = FALSE /\ used' = used
    BY <1>1, <1>6, BoundaryEffect, GateTypes
  <2>3. loc' = IF ran[c] THEN [loc EXCEPT ![c][(n + Delay) % LocSize] = Capture(c)] ELSE loc
    BY <1>6, BoundaryEffect
  <2> HIDE DEF n
  <2>4. CASE HasRun(c, t)
    <3>1. t < n
      BY <1>2, <2>1, <2>4 DEF HasRun
    <3>2. HasRun(c, t)'
      BY <2>1, <3>1 DEF HasRun
    <3>3. t \in Ticks /\ t # n
      BY <1>1, <1>2, <2>4, <3>1, <2>1, GateTypes DEF HasRun, Ticks
    <3>4. used'[c][t] = used[c][t]
      BY <1>1, <2>2, <3>3, GateTypes
    <3> QED
      BY <2>4, <3>2, <3>4 DEF Own
  <2>5. CASE ~HasRun(c, t)
    <3>1. n <= t
      BY <1>2, <2>1, <2>5 DEF HasRun
    <3>2. t % LocSize \in Slots(LocSize)
      BY <1>2, SizeFacts, SlotRange
    <3>3. loc'[c][t % LocSize] = loc[c][t % LocSize]
      <4>1. CASE ran[c]
        <5>1. -LocSize < (n + Delay) - t /\ (n + Delay) - t < LocSize /\ n + Delay # t
              /\ n + Delay \in Int
          BY <1>2, <2>1, <3>1, <4>1, SizeFacts
        <5>2. (n + Delay) % LocSize # t % LocSize
          BY <1>2, <5>1, SizeFacts, ModDistinct
        <5> QED
          BY <1>1, <2>3, <3>2, <4>1, <5>2, GateTypes
      <4> QED
        BY <2>3, <4>1
    <3>4. CASE HasRun(c, t)'
      <4>1. t = n /\ ran'[c]
        BY <1>2, <2>1, <3>1, <3>4 DEF HasRun
      <4>2. used'[c][n] = Mix(c, loc'[c][n % LocSize], ring[c][n % RingSize])
        BY <1>1, <2>1, <2>2, <4>1, GateTypes
      <4>3. used'[c][n][c] = loc'[c][n % LocSize]
        BY <4>2 DEF Mix
      <4> QED
        BY <2>5, <3>3, <3>4, <4>1, <4>3 DEF Own
    <3>5. CASE ~HasRun(c, t)'
      BY <2>5, <3>3, <3>5 DEF Own
    <3> QED
      BY <2>5, <3>4, <3>5
  <2> QED
    BY <2>4, <2>5
<1> QED
  BY <1>4, <1>5, <1>6 DEF Frame

LEMMA TrailFixed ==
  ASSUME IInv, NEW d \in Console, Frame(d), NEW c \in Console, NEW t \in 0..tick[c]
  PROVE  trail'[c][t] = trail[c][t]
<1>1. TypeOK /\ ShapeInv
  BY DEF IInv
<1>2. t \in Ticks /\ t \in Int /\ tick[c] \in Int
  BY <1>1, GateTypes, SizeFacts DEF Ticks
<1>3. CASE MidTick(d)
  BY <1>3 DEF MidTick, history
<1>4. CASE BoundaryRun(d) \/ BoundaryStall(d) \/ BoundaryGone(d)
  <2>1. AtBoundary(d) /\ Commit(d)
    BY <1>4 DEF BoundaryRun, BoundaryStall, BoundaryGone
  <2>2. CASE ran[d]
    <3>1. trail' = [trail EXCEPT ![d][tick[d] + 1] = sim[d]]
      BY <2>1, <2>2 DEF Commit, CaptureDue, TickNow
    <3>2. c = d => t # tick[d] + 1
      BY <1>2
    <3> QED
      BY <1>1, <1>2, <3>1, <3>2, GateTypes
  <2>3. CASE ~ran[d]
    BY <2>1, <2>3 DEF Commit, CaptureDue
  <2> QED
    BY <2>2, <2>3
<1> QED
  BY <1>3, <1>4 DEF Frame

\* Only the boundary of c moves c's clock, by a tick and only if the last one ran.
LEMMA TickStep ==
  ASSUME IInv, NEW d \in Console, Frame(d), NEW c \in Console
  PROVE  /\ tick[c] \in Int /\ tick'[c] \in Int /\ TickNow(c) \in Int
         /\ \/ tick'[c] = tick[c] /\ (HasRun(c, tick[c]) <=> ran[c]) /\ TickNow(c) <= TickNow(c)'
            \/ /\ c = d /\ AtBoundary(c) /\ ran[c] /\ tick'[c] = tick[c] + 1
               /\ TickNow(c) = tick[c] + 1 /\ TickNow(c) <= TickNow(c)'
<1>1. TypeOK
  BY DEF IInv
<1>2. tick[c] \in Int /\ tick[d] \in Int
  BY <1>1, GateTypes
<1>3. CASE MidTick(d)
  BY <1>2, <1>3 DEF MidTick, TickNow, HasRun
<1>4. CASE BoundaryRun(d) \/ BoundaryStall(d) \/ BoundaryGone(d)
  <2>1. /\ tick' = [tick EXCEPT ![d] = TickNow(d)]
        /\ TickNow(d) = (IF ran[d] THEN tick[d] + 1 ELSE tick[d])
        /\ ran' = [ran EXCEPT ![d] = TRUE] \/ ran' = [ran EXCEPT ![d] = FALSE]
        /\ AtBoundary(d)
    BY <1>4, BoundaryEffect DEF BoundaryRun, BoundaryStall, BoundaryGone
  <2>2. CASE c = d
    <3>1. tick'[c] = TickNow(c) /\ TickNow(c)' \in {tick'[c], tick'[c] + 1}
      BY <1>1, <2>1, <2>2, GateTypes DEF TickNow
    <3> QED
      BY <1>2, <2>1, <2>2, <3>1 DEF HasRun
  <2>3. CASE c # d
    <3>1. tick'[c] = tick[c] /\ ran'[c] = ran[c]
      BY <1>1, <2>1, <2>3, GateTypes
    <3> QED
      BY <1>2, <3>1 DEF TickNow, HasRun
  <2> QED
    BY <2>2, <2>3
<1> QED
  BY <1>3, <1>4 DEF Frame

-----------------------------------------------------------------------------
(* Steps of a gate *)

LEMMA KeptFrame ==
  ASSUME IInv, NEW d \in Console, Frame(d), NEW c \in Console, Kept(c)
  PROVE  Kept(c)'
<1> SUFFICES ASSUME NEW t \in (((tick[c] + Delay - LocSize) + 1)..(tick[c] + Delay))'
             PROVE  loc'[c][t % LocSize] = Own(c, t)'
  BY DEF Kept
<1>1. TypeOK
  BY DEF IInv
<1>2. /\ tick[c] \in Int /\ tick'[c] \in Int /\ t \in Int /\ NoTick = -1 /\ NoTick <= tick[c]
      /\ tick'[c] + Delay - LocSize < t /\ t <= tick'[c] + Delay
  BY <1>1, TickStep, GateTypes, SizeFacts
<1>3. t % LocSize \in Slots(LocSize)
  BY <1>2, SizeFacts, SlotRange
<1>4. CASE t <= tick[c] + Delay
  <2>1. t \in Decided(c) /\ t \in ((tick[c] + Delay - LocSize) + 1)..(tick[c] + Delay)
    BY <1>2, <1>4, TickStep, SizeFacts DEF Decided
  <2>2. Own(c, t)' = Own(c, t) /\ loc[c][t % LocSize] = Own(c, t)
    BY <2>1, OwnFixed DEF Kept
  <2>3. loc'[c][t % LocSize] = loc[c][t % LocSize]
    <3>1. CASE MidTick(d)
      BY <3>1 DEF MidTick
    <3>2. CASE BoundaryRun(d) \/ BoundaryStall(d) \/ BoundaryGone(d)
      <4>1. loc' = IF ran[d] THEN [loc EXCEPT ![d][(TickNow(d) + Delay) % LocSize] = Capture(d)]
                             ELSE loc
        BY <3>2, BoundaryEffect
      <4>2. CASE d = c /\ ran[c]
        <5>1. TickNow(c) = tick[c] + 1 /\ tick'[c] = tick[c] + 1
          <6>1. tick' = [tick EXCEPT ![c] = TickNow(c)] /\ TickNow(c) = tick[c] + 1
            BY <3>2, <4>2, BoundaryEffect
          <6> QED
            BY <1>1, <6>1, GateTypes
        <5>2. /\ TickNow(c) + Delay \in Int /\ TickNow(c) + Delay # t
              /\ -LocSize < (TickNow(c) + Delay) - t /\ (TickNow(c) + Delay) - t < LocSize
          BY <1>2, <1>4, <5>1, SizeFacts
        <5>3. (TickNow(c) + Delay) % LocSize # t % LocSize
          BY <1>2, <5>2, SizeFacts, ModDistinct
        <5> QED
          BY <1>1, <1>3, <4>1, <4>2, <5>3, GateTypes
      <4>3. CASE d # c \/ ~ran[d]
        BY <1>1, <4>1, <4>3, GateTypes
      <4> QED
        BY <4>2, <4>3
    <3> QED
      BY <3>1, <3>2 DEF Frame
  <2> QED
    BY <2>2, <2>3
<1>5. CASE t > tick[c] + Delay
  <2>1. t > tick'[c]
    BY <1>2, <1>5, TickStep, SizeFacts
  <2>2. ~HasRun(c, t)'
    BY <1>2, <2>1 DEF HasRun
  <2> QED
    BY <2>2 DEF Own
<1> QED
  BY <1>2, <1>4, <1>5, SizeFacts

LEMMA SampledFrame ==
  ASSUME IInv, NEW d \in Console, Frame(d), NEW c \in Console, Sampled(c)
  PROVE  Sampled(c)'
<1>1. TypeOK /\ ShapeInv
  BY DEF IInv
<1>2. CASE MidTick(d)
  BY <1>2 DEF MidTick, Sampled, history
<1>3. CASE BoundaryRun(d) \/ BoundaryStall(d) \/ BoundaryGone(d)
  <2>1. /\ AtBoundary(d) /\ Commit(d) /\ tick' = [tick EXCEPT ![d] = TickNow(d)]
        /\ TickNow(d) \in Ticks
        /\ TickNow(d) = (IF ran[d] THEN tick[d] + 1 ELSE tick[d])
    BY <1>3, BoundaryEffect DEF BoundaryRun, BoundaryStall, BoundaryGone
  <2>2. CASE ran[d]
    <3>1. /\ crcv' = [crcv EXCEPT ![d] = Checksum(sim[d])]
          /\ trail' = [trail EXCEPT ![d][TickNow(d)] = sim[d]]
      BY <2>1, <2>2 DEF Commit, CaptureDue
    <3>2. DOMAIN crcv = Console
      BY <1>1 DEF TypeOK
    <3>3. CASE c = d
      <4>1. tick'[c] = TickNow(c) /\ crcv'[c] = Checksum(sim[c])
        BY <1>1, <2>1, <3>1, <3>2, <3>3, GateTypes
      <4>2. trail'[c][TickNow(c)] = sim[c]
        BY <1>1, <2>1, <3>1, <3>3, GateTypes
      <4> QED
        BY <4>1, <4>2 DEF Sampled
    <3>4. CASE c # d
      <4>1. tick'[c] = tick[c] /\ crcv'[c] = crcv[c] /\ trail'[c] = trail[c]
        BY <1>1, <2>1, <3>1, <3>2, <3>4, GateTypes
      <4> QED
        BY <4>1 DEF Sampled
    <3> QED
      BY <3>3, <3>4
  <2>3. CASE ~ran[d]
    <3>1. UNCHANGED <<crcv, trail>> /\ tick'[c] = tick[c]
      BY <1>1, <2>1, <2>3, GateTypes DEF Commit, CaptureDue
    <3> QED
      BY <3>1 DEF Sampled
  <2> QED
    BY <2>2, <2>3
<1> QED
  BY <1>2, <1>3 DEF Frame

\* The records on their way to c, damaged ones included.
Waiting(c) == Records(batch[c]) \cup Records(link[c]) \cup Records(out[Peer(c)])

\* A record speaks of decided ticks only, and of a state that was sampled.
LEMMA WaitingFacts ==
  ASSUME IInv, NEW c \in Console, NEW r \in Waiting(c)
  PROVE  /\ r \in Input /\ r.stamp \in Int
         /\ Delay <= r.stamp /\ r.stamp <= tick[Peer(c)] + Delay
         /\ r.stamp - Delay \in 0..tick[Peer(c)]
         /\ \A j \in Slots(Win) : r.stamp - j \in Decided(Peer(c))
<1>1. TypeOK /\ Peer(c) \in Console /\ Stamped(c) /\ tick[Peer(c)] \in Int
  BY PeerType, GateTypes DEF IInv, ClockInv, Path
<1>2. batch[c] \in Seq(Frames) /\ link[c] \in Seq(Frames) /\ out[Peer(c)] \in Seq(Frames)
  BY <1>1, InputFrames DEF TypeOK
<1>3. r \in Input /\ r.stamp \in Int
  BY <1>2, RecordsIn DEF Waiting
<1>4. r.stamp \in Delay..(tick[Peer(c)] + Delay)
  BY <1>1 DEF Stamped, Stamps, Waiting
<1>5. Delay <= r.stamp /\ r.stamp <= tick[Peer(c)] + Delay
  BY <1>1, <1>4, SizeFacts
<1>6. r.stamp - Delay \in 0..tick[Peer(c)]
  BY <1>1, <1>3, <1>5, SizeFacts
<1>7. ASSUME NEW j \in Slots(Win) PROVE r.stamp - j \in Decided(Peer(c))
  <2>1. j \in Int /\ 0 <= j /\ j < Win
    BY SizeFacts DEF Slots
  <2> QED
    BY <1>1, <1>3, <1>5, <2>1, SizeFacts DEF Decided, NoTick
<1> QED
  BY <1>3, <1>5, <1>6, <1>7

LEMMA FrameUnchanged ==
  ASSUME NEW d \in Console, Frame(d)
  PROVE  UNCHANGED <<rwat, ring, nst, out, rdn, batch, link, faults>>
BY DEF Frame, BoundaryRun, BoundaryStall, BoundaryGone, MidTick, wireVars

LEMMA FrameMode ==
  ASSUME TypeOK, NEW d \in Console, Frame(d), NEW c \in Console, mode'[c] = "play"
  PROVE  mode[c] = "play"
BY DEF Frame, BoundaryRun, BoundaryStall, BoundaryGone, MidTick, wireVars, TypeOK

LEMMA TruthfulFrame ==
  ASSUME IInv, NEW d \in Console, Frame(d), NEW c \in Console, Truthful(c)
  PROVE  Truthful(c)'
<1>1. Waiting(c)' = Waiting(c) /\ Peer(c) \in Console
  BY PeerType, FrameUnchanged DEF Waiting
<1>2. ASSUME NEW r \in Waiting(c), r.good
      PROVE  /\ \A j \in Slots(Win) : r.win[j] = Own(Peer(c), r.stamp - j)'
             /\ r.crc = Checksum(trail'[Peer(c)][r.stamp - Delay])
  <2>1. /\ \A j \in Slots(Win) : r.win[j] = Own(Peer(c), r.stamp - j)
        /\ r.crc = Checksum(trail[Peer(c)][r.stamp - Delay])
    BY <1>2 DEF Truthful, Waiting
  <2>2. \A j \in Slots(Win) : Own(Peer(c), r.stamp - j)' = Own(Peer(c), r.stamp - j)
    BY <1>1, WaitingFacts, OwnFixed
  <2>3. trail'[Peer(c)][r.stamp - Delay] = trail[Peer(c)][r.stamp - Delay]
    BY <1>1, WaitingFacts, TrailFixed
  <2> QED
    BY <2>1, <2>2, <2>3
<1> QED
  BY <1>1, <1>2 DEF Truthful, Waiting

LEMMA LagFrame ==
  ASSUME IInv, NEW d \in Console, Frame(d), NEW c \in Console, Lag(c)
  PROVE  Lag(c)'
<1> SUFFICES ASSUME mode'[c] = "play" PROVE tick'[Peer(c)] + Delay <= Known(c)' + MaxLag
  BY DEF Lag
<1>1. TypeOK /\ Peer(c) \in Console /\ Peer(Peer(c)) = c
  BY PeerType DEF IInv
<1>2. mode[c] = "play" /\ Known(c)' = Known(c)
  BY <1>1, FrameMode, FrameUnchanged DEF Known
<1>3. \/ tick'[Peer(c)] = tick[Peer(c)]
      \/ AtBoundary(Peer(c)) /\ ran[Peer(c)] /\ tick'[Peer(c)] = tick[Peer(c)] + 1
  BY <1>1, TickStep
<1>4. CASE tick'[Peer(c)] = tick[Peer(c)]
  BY <1>2, <1>4 DEF Lag
<1>5. CASE AtBoundary(Peer(c)) /\ ran[Peer(c)] /\ tick'[Peer(c)] = tick[Peer(c)] + 1
  BY <1>1, <1>2, <1>5 DEF AtBoundary, Prompt
<1> QED
  BY <1>3, <1>4, <1>5

\* What c has heard of, its peer has decided.
LEMMA KnownDecided ==
  ASSUME IInv, NEW c \in Console
  PROVE  /\ Known(c) \in Int /\ rwat[c] \in Int /\ TickNow(c) \in Int
         /\ Known(c) <= tick[Peer(c)] + Delay /\ tick[Peer(c)] \in Int
         /\ rwat[c] >= 0 => rwat[c] <= Known(c)
         /\ TickNow(c) >= NoTick
<1>1. TypeOK /\ ClockInv /\ Peer(c) \in Console
  BY PeerType DEF IInv
<1>2. /\ tick[c] \in Int /\ tick[Peer(c)] \in Int /\ rwat[c] \in Int
      /\ rwat[c] <= tick[Peer(c)] + Delay /\ NoTick <= tick[Peer(c)] /\ NoTick <= tick[c]
      /\ NoTick = -1
  BY <1>1, Skew, GateTypes
<1>3. TickNow(c) \in {tick[c], tick[c] + 1}
  BY DEF TickNow
<1> QED
  BY <1>2, <1>3, SizeFacts DEF Known

LEMMA HeardFrame ==
  ASSUME IInv, NEW d \in Console, Frame(d), NEW c \in Console, Heard(c)
  PROVE  Heard(c)'
<1> SUFFICES ASSUME mode'[c] = "play", NEW t \in (TickNow(c)..Known(c))'
             PROVE  ring'[c][t % RingSize] = Own(Peer(c), t)'
  BY DEF Heard
<1>1. TypeOK /\ Peer(c) \in Console
  BY PeerType DEF IInv
<1>2. mode[c] = "play" /\ Known(c)' = Known(c) /\ ring' = ring
  BY <1>1, FrameMode, FrameUnchanged DEF Known
<1>3. TickNow(c) <= TickNow(c)' /\ TickNow(c) \in Int /\ TickNow(c)' \in Int
  <2>1. TickNow(c) <= TickNow(c)' /\ TickNow(c) \in Int /\ tick'[c] \in Int
    BY TickStep
  <2> QED
    BY <2>1 DEF TickNow
<1>4. t \in TickNow(c)..Known(c) /\ t \in Decided(Peer(c))
  <2>1. t \in Int /\ TickNow(c)' <= t /\ t <= Known(c)
    BY <1>2, <1>3, KnownDecided
  <2>2. TickNow(c) <= t
    BY <1>3, <2>1
  <2>3. NoTick - LocSize <= t /\ t <= tick[Peer(c)] + Delay
    BY <1>3, <2>1, <2>2, KnownDecided, SizeFacts DEF NoTick
  <2> QED
    BY <1>3, <2>1, <2>2, <2>3, KnownDecided, SizeFacts DEF Decided, NoTick
<1>5. ring[c][t % RingSize] = Own(Peer(c), t)
  BY <1>2, <1>4 DEF Heard
<1> QED
  BY <1>1, <1>2, <1>4, <1>5, OwnFixed

\* A tick c has run is one its peer has decided.
LEMMA RunDecided ==
  ASSUME IInv, NEW c \in Console, NEW t \in 0..tick[c], HasRun(c, t)
  PROVE  t \in Decided(Peer(c)) /\ t \in Decided(c) /\ t \in Ticks
<1>1. TypeOK /\ ClockInv /\ Peer(c) \in Console
  BY PeerType DEF IInv
<1>2. /\ tick[c] \in Int /\ tick[Peer(c)] \in Int /\ rwat[c] \in Int
      /\ tick[c] <= tick[Peer(c)] + Delay + 1
      /\ rwat[c] <= tick[Peer(c)] + Delay /\ NoTick = -1
      /\ tick[c] <= MaxTick /\ MaxTick \in Int
  BY <1>1, Skew, GateTypes
<1>3. ran[c] /\ tick[c] # NoTick => tick[c] <= rwat[c]
  BY <1>1 DEF ClockInv, Gate
<1>4. t \in Int /\ 0 <= t /\ t <= tick[c]
  BY <1>2
<1>5. t <= tick[Peer(c)] + Delay
  <2>1. CASE t < tick[c]
    BY <1>2, <1>4, <2>1, SizeFacts
  <2>2. CASE t = tick[c] /\ ran[c]
    BY <1>2, <1>3, <1>4, <2>2, SizeFacts
  <2> QED
    BY <2>1, <2>2 DEF HasRun
<1>6. NoTick - LocSize \in Int /\ NoTick - LocSize <= t /\ t <= MaxTick /\ t <= tick[c] + Delay
  BY <1>2, <1>4, SizeFacts
<1> QED
  BY <1>2, <1>4, <1>5, <1>6, SizeFacts DEF Decided, Ticks

LEMMA AgreedFrame ==
  ASSUME IInv, NEW d \in Console, Frame(d), NEW c \in Console, Agreed(c), Heard(c)
  PROVE  Agreed(c)'
<1> SUFFICES ASSUME NEW t \in (0..tick[c])', HasRun(c, t)'
             PROVE  used'[c][t][Peer(c)] = Own(Peer(c), t)'
  BY DEF Agreed
<1>1. TypeOK /\ ClockInv /\ ShapeInv /\ Peer(c) \in Console /\ Peer(c) # c
  BY PeerType DEF IInv
<1>2. tick[c] \in Int /\ tick'[c] \in Int /\ t \in Int /\ 0 <= t /\ t <= tick'[c]
  BY TickStep
<1>3. ASSUME HasRun(c, t), used'[c][t] = used[c][t] PROVE used'[c][t][Peer(c)] = Own(Peer(c), t)'
  <2>1. t \in 0..tick[c]
    BY <1>2, <1>3 DEF HasRun
  <2> QED
    BY <1>1, <1>3, <2>1, RunDecided, OwnFixed DEF Agreed
<1>4. CASE MidTick(d)
  BY <1>3, <1>4 DEF MidTick, history, HasRun
<1>5. CASE (BoundaryRun(d) \/ BoundaryStall(d) \/ BoundaryGone(d)) /\ c # d
  <2>1. tick'[c] = tick[c] /\ ran'[c] = ran[c]
    <3>1. /\ tick' = [tick EXCEPT ![d] = TickNow(d)]
          /\ ran' = [ran EXCEPT ![d] = TRUE] \/ ran' = [ran EXCEPT ![d] = FALSE]
      BY <1>5, BoundaryEffect
    <3> QED
      BY <1>1, <1>5, <3>1, GateTypes
  <2>2. used'[c] = used[c]
    <3> DEFINE n == TickNow(d)
               m == Mix(d, loc'[d][n % LocSize], ring[d][n % RingSize])
    <3>1. used' = [used EXCEPT ![d][n] = m] \/ used' = used
      BY <1>5, BoundaryEffect
    <3> HIDE DEF n, m
    <3>2. used \in [Console -> [Ticks -> Pair]]
      BY <1>1, GateTypes
    <3> QED
      BY <1>5, <3>1, <3>2
  <2> QED
    BY <1>3, <2>1, <2>2 DEF HasRun
<1>6. CASE (BoundaryRun(c) \/ BoundaryStall(c) \/ BoundaryGone(c)) /\ c = d
  <2> DEFINE n == TickNow(c)
  <2>1. /\ tick'[c] = n /\ n \in Int /\ n \in Ticks /\ n >= 0
        /\ n = (IF ran[c] THEN tick[c] + 1 ELSE tick[c])
        /\ ran[c] \in BOOLEAN
    BY <1>1, <1>6, BoundaryEffect, GateTypes
  <2>2. \/ /\ ran'[c] = TRUE /\ Arrived(c) /\ mode[c] = "play"
           /\ used' = [used EXCEPT ![c][n] =
                         Mix(c, loc'[c][n % LocSize], ring[c][n % RingSize])]
        \/ ran'[c] = FALSE /\ used' = used
    BY <1>1, <1>6, BoundaryEffect, GateTypes
       DEF BoundaryRun, BoundaryStall, BoundaryGone, AtBoundary
  <2>3. ran'[c] => n \in TickNow(c)..Known(c)
    <3>1. Arrived(c) <=> rwat[c] >= n
      BY <1>1, ArrivedExact
    <3> QED
      BY <2>1, <2>2, <3>1, KnownDecided
  <2> HIDE DEF n
  <2>4. CASE t < n
    <3>1. HasRun(c, t) /\ t # n
      BY <1>2, <2>1, <2>4 DEF HasRun
    <3>2. t \in 0..tick[c]
      BY <1>2, <3>1 DEF HasRun
    <3>3. t \in Ticks
      BY <3>1, <3>2, RunDecided
    <3>4. used'[c][t] = used[c][t]
      BY <1>1, <2>2, <3>1, <3>3, GateTypes
    <3> QED
      BY <1>3, <3>1, <3>4
  <2>5. CASE ~(t < n)
    <3>1. t = n /\ ran'[c]
      BY <1>2, <2>1, <2>5 DEF HasRun
    <3>2. used'[c][n] = Mix(c, loc'[c][n % LocSize], ring[c][n % RingSize])
      BY <1>1, <2>1, <2>2, <3>1, GateTypes
    <3>3. used'[c][n][Peer(c)] = ring[c][n % RingSize]
      BY <1>1, <3>2 DEF Mix
    <3>4. ring[c][n % RingSize] = Own(Peer(c), n)
      BY <2>2, <2>3, <3>1 DEF Heard
    <3>5. n \in Decided(Peer(c))
      BY <2>1, <2>3, <3>1, KnownDecided, SizeFacts DEF Decided, NoTick
    <3> QED
      BY <1>1, <1>6, <3>1, <3>3, <3>4, <3>5, OwnFixed
  <2> QED
    BY <2>4, <2>5
<1> QED
  BY <1>4, <1>5, <1>6 DEF Frame

LEMMA FrameBytes ==
  ASSUME IInv, BytesInv, NEW d \in Console, Frame(d)
  PROVE  BytesInv'
<1> SUFFICES ASSUME NEW c \in Console
             PROVE  (Kept(c) /\ Sampled(c) /\ Truthful(c) /\ Lag(c) /\ Behind(c) /\ Heard(c) /\ Agreed(c))'
  BY DEF BytesInv
<1>1. Kept(c) /\ Sampled(c) /\ Truthful(c) /\ Lag(c) /\ Behind(c) /\ Heard(c) /\ Agreed(c)
  BY DEF BytesInv
<1>2. Behind(c)'
  BY <1>1, FrameUnchanged DEF Behind
<1> QED
  BY <1>1, <1>2, KeptFrame, SampledFrame, TruthfulFrame, LagFrame, HeardFrame, AgreedFrame

-----------------------------------------------------------------------------
(* Steps of a transport, and faults *)

\* A record is made of bytes the local ring still holds.
LEMMA MadeTruthful ==
  ASSUME IInv, NEW c \in Console, Kept(c), Sampled(c), tick[c] # NoTick
  PROVE  /\ \A j \in Slots(Win) : RecordOf(c).win[j] = Own(c, RecordOf(c).stamp - j)
         /\ RecordOf(c).crc = Checksum(trail[c][RecordOf(c).stamp - Delay])
<1> DEFINE s == tick[c] + Delay
<1>1. tick[c] \in Int /\ s \in Int /\ s - Delay = tick[c]
  BY GateTypes, SizeFacts DEF IInv
<1>2. /\ RecordOf(c).stamp = s /\ RecordOf(c).crc = crcv[c]
      /\ \A j \in Slots(Win) : RecordOf(c).win[j] = loc[c][(s - j) % LocSize]
  BY DEF RecordOf, WindowOf
<1>3. ASSUME NEW j \in Slots(Win) PROVE loc[c][(s - j) % LocSize] = Own(c, s - j)
  <2>1. s - j \in ((tick[c] + Delay - LocSize) + 1)..(tick[c] + Delay)
    BY <1>1, SizeFacts DEF Slots
  <2> HIDE DEF s
  <2> QED
    BY <2>1 DEF Kept
<1> HIDE DEF s
<1> QED
  BY <1>1, <1>2, <1>3 DEF Sampled

\* The gates stand still, and nothing is put on a path but a record just made.
LEMMA WireBytes ==
  ASSUME IInv, BytesInv,
         UNCHANGED <<tick, ran, loc, ring, rwat, crcv, used, trail>>,
         \A c \in Console : mode'[c] = "play" => mode[c] = "play",
         \A c \in Console : \A r \in Waiting(c)' :
           r.good => \/ r \in Waiting(c)
                     \/ r = RecordOf(Peer(c)) /\ tick[Peer(c)] # NoTick,
         \A c \in Console : Behind(c)'
  PROVE  BytesInv'
<1> SUFFICES ASSUME NEW c \in Console
             PROVE  (Kept(c) /\ Sampled(c) /\ Truthful(c) /\ Lag(c) /\ Heard(c) /\ Agreed(c))'
  BY DEF BytesInv
<1>1. Kept(c) /\ Sampled(c) /\ Truthful(c) /\ Lag(c) /\ Heard(c) /\ Agreed(c)
  BY DEF BytesInv
<1>2. Peer(c) \in Console /\ Kept(Peer(c)) /\ Sampled(Peer(c))
  BY PeerType DEF BytesInv
<1>3. \A q \in Console : \A t : Own(q, t)' = Own(q, t) /\ HasRun(q, t)' = HasRun(q, t)
  BY DEF Own, HasRun
<1>4. Known(c)' = Known(c) /\ TickNow(c)' = TickNow(c)
  BY DEF Known, TickNow
<1>5. Kept(c)' /\ Sampled(c)' /\ Lag(c)'
  BY <1>1, <1>3, <1>4 DEF Kept, Sampled, Lag
<1>6. Heard(c)'
  BY <1>1, <1>2, <1>3, <1>4 DEF Heard
<1>7. Agreed(c)'
  BY <1>1, <1>2, <1>3 DEF Agreed
<1>8. Truthful(c)'
  <2> SUFFICES ASSUME NEW r \in Waiting(c)', r.good
               PROVE  /\ \A j \in Slots(Win) : r.win[j] = Own(Peer(c), r.stamp - j)'
                      /\ r.crc = Checksum(trail'[Peer(c)][r.stamp - Delay])
    BY DEF Truthful, Waiting
  <2>1. /\ \A j \in Slots(Win) : r.win[j] = Own(Peer(c), r.stamp - j)
        /\ r.crc = Checksum(trail[Peer(c)][r.stamp - Delay])
    <3>1. CASE r \in Waiting(c)
      BY <1>1, <3>1 DEF Truthful, Waiting
    <3>2. CASE r = RecordOf(Peer(c)) /\ tick[Peer(c)] # NoTick
      BY <1>2, <3>2, MadeTruthful
    <3> QED
      BY <3>1, <3>2
  <2> QED
    BY <1>2, <1>3, <2>1
<1> QED
  BY <1>5, <1>6, <1>7, <1>8

LEMMA BehindSame ==
  ASSUME BytesInv, UNCHANGED <<rwat, batch>>
  PROVE  \A c \in Console : Behind(c)'
BY DEF BytesInv, Behind

\* Moving the mailbox onto the path, or losing it.
LEMMA ForwardBytes ==
  ASSUME IInv, NEW c \in Console, Forward(c, out[c]) \/ link' = link,
         out' = [out EXCEPT ![c] = <<>>], UNCHANGED batch
  PROVE  \A q \in Console : Waiting(q)' \subseteq Waiting(q)
<1> DEFINE p == Peer(c)
<1>1. /\ TypeOK /\ p \in Console /\ Peer(p) = c /\ p # c
      /\ \A q \in Console : q = c \/ q = p
  BY PeerType DEF IInv
<1>2. link[p] \in Seq(Frames) /\ out[c] \in Seq(Frames)
  BY <1>1, InputFrames DEF TypeOK
<1>3. out'[c] = <<>> /\ out'[p] = out[p]
  BY <1>1 DEF TypeOK
<1>4. link'[c] = link[c] /\ (link'[p] = link[p] \o out[c] \/ link'[p] = link[p])
  BY <1>1 DEF Forward, TypeOK
<1> HIDE DEF p
<1>5. Records(link'[p]) \subseteq Records(link[p]) \cup Records(out[c])
  BY <1>2, <1>4, RecordsCat
<1>6. Waiting(p)' \subseteq Waiting(p)
  BY <1>1, <1>3, <1>5, RecordsEmpty DEF Waiting
<1>7. Waiting(c)' \subseteq Waiting(c)
  BY <1>1, <1>3, <1>4 DEF Waiting, p
<1> QED
  BY <1>1, <1>6, <1>7

LEMMA ReadBytes ==
  ASSUME IInv, BytesInv, NEW c \in Console, ReadAck(c)
  PROVE  /\ \A q \in Console : Waiting(q)' \subseteq Waiting(q)
         /\ \A q \in Console : Behind(q)'
<1> DEFINE p == Peer(c)
           head == SubSeq(link[c], 1, rdn[c])
           rest == SubSeq(link[c], rdn[c] + 1, Len(link[c]))
<1>1. /\ TypeOK /\ ShapeInv /\ p \in Console /\ Peer(p) = c /\ p # c
      /\ \A q \in Console : q = c \/ q = p
  BY PeerType DEF IInv
<1>2. rdn[c] \in Nat /\ rdn[c] <= Len(link[c]) /\ link[c] \in Seq(Frames)
  BY <1>1 DEF ReadAck, Step, ShapeInv, Shape, TypeOK
<1>3. Records(head) \subseteq Records(link[c]) /\ Records(rest) \subseteq Records(link[c])
  BY <1>2, HeadDropped
<1>4. /\ batch'[c] = head /\ link'[c] = rest /\ batch'[p] = batch[p] /\ link'[p] = link[p]
      /\ UNCHANGED <<out, rwat>>
  BY <1>1 DEF ReadAck, TypeOK, gateVars
<1> HIDE DEF head, rest, p
<1>5. Waiting(c)' \subseteq Waiting(c) /\ Waiting(p)' \subseteq Waiting(p)
  BY <1>3, <1>4 DEF Waiting
<1>6. Behind(c)'
  <2>1. \A r \in Records(link[c]) : rwat[c] <= r.stamp
    BY DEF IInv, ClockInv, Path, InOrder
  <2> QED
    BY <1>3, <1>4, <2>1 DEF Behind
<1>7. Behind(p)'
  BY <1>1, <1>4 DEF BytesInv, Behind
<1> QED
  BY <1>1, <1>5, <1>6, <1>7

LEMMA WriteBytes ==
  ASSUME IInv, NEW c \in Console, WriteIssue(c)
  PROVE  \A q \in Console : \A r \in Waiting(q)' :
           \/ r \in Waiting(q)
           \/ r = RecordOf(Peer(q)) /\ tick[Peer(q)] # NoTick
<1> DEFINE p == Peer(c)
<1>1. /\ TypeOK /\ p \in Console /\ Peer(p) = c /\ p # c
      /\ \A q \in Console : q = c \/ q = p
  BY PeerType DEF IInv
<1>2. /\ out'[c] = <<RecordOf(c)>> /\ out'[p] = out[p] /\ tick[c] # NoTick
      /\ UNCHANGED <<batch, link>>
  BY <1>1 DEF WriteIssue, Step, TypeOK
<1>3. Records(out'[c]) \subseteq {RecordOf(c)}
  BY <1>2, RecordsOne
<1> HIDE DEF p
<1>4. \A r \in Waiting(p)' :
        \/ r \in Waiting(p)
        \/ r = RecordOf(Peer(p)) /\ tick[Peer(p)] # NoTick
  BY <1>1, <1>2, <1>3 DEF Waiting
<1>5. \A r \in Waiting(c)' : r \in Waiting(c)
  BY <1>2 DEF Waiting, p
<1> QED
  BY <1>1, <1>4, <1>5

\* A sound record is consumed.  The bytes of the ticks it covers are its sender's;
\* the others of the range the watermark covers were there before, because a path
\* that is never more than a window behind has left no hole (Lag, ShortPaths).
LEMMA HeardConsume ==
  ASSUME ShortPaths, IInv, BytesInv, NEW c \in Console, NEW r \in Waiting(c), r.good,
         mode[c] = "play", UNCHANGED <<tick, ran, loc, used>>,
         ring' = [ring EXCEPT ![c] = RingWith(c, r)],
         rwat' = [rwat EXCEPT ![c] = IF Newer(r.stamp, @) THEN r.stamp ELSE @],
         \/ rwat[c] <= r.stamp
         \/ rwat[c] - MaxLag <= r.stamp /\ r.stamp <= rwat[c]
  PROVE  Heard(c)'
<1> DEFINE p == Peer(c)
           s == r.stamp
<1> SUFFICES ASSUME NEW t \in (TickNow(c)..Known(c))'
             PROVE  ring'[c][t % RingSize] = Own(p, t)'
  BY DEF Heard
<1>1. TypeOK /\ ClockInv /\ p \in Console
  BY PeerType DEF IInv
<1>2. /\ s \in Int /\ Delay <= s /\ s <= tick[p] + Delay
      /\ \A j \in Slots(Win) : r.win[j] = Own(p, s - j)
  <2>1. \A j \in Slots(Win) : r.win[j] = Own(p, s - j)
    BY DEF BytesInv, Truthful, Waiting
  <2> QED
    BY <2>1, WaitingFacts
<1>3. /\ rwat[c] \in Int /\ tick[p] \in Int /\ tick[c] \in Int /\ TickNow(c) \in Int
      /\ Known(c) \in Int /\ TickNow(c) \in {tick[c], tick[c] + 1}
      /\ tick[p] <= tick[c] + Delay + 1
  <2>1. tick[p] <= tick[c] + Delay + 1
    BY <1>1, PeerType, Skew
  <2> QED
    BY <1>1, <2>1, GateTypes, KnownDecided DEF TickNow
<1>4. MaxLag \in Nat /\ MaxLag <= Win /\ MaxLag + Win <= RingSize
  BY BoundAssumption DEF ShortPaths
<1>5. tick[p] + Delay <= Known(c) + MaxLag
  BY DEF BytesInv, Lag
<1>6. Own(p, t)' = Own(p, t) /\ TickNow(c)' = TickNow(c)
  BY DEF Own, HasRun, TickNow
<1>7. /\ rwat'[c] = IF s >= rwat[c] THEN s ELSE rwat[c]
      /\ ring'[c] = RingWith(c, r)
  BY <1>1, NewerExact, GateTypes DEF TypeOK, Waiting
<1> HIDE DEF s, p
<1>8. /\ t \in Int /\ TickNow(c) <= t
      /\ Known(c)' = IF s >= rwat[c] THEN s ELSE Known(c)
      /\ t <= Known(c)'
  <2>1. Known(c)' = IF s >= rwat[c] THEN s ELSE Known(c)
    BY <1>2, <1>3, <1>7, SizeFacts DEF Known
  <2> QED
    BY <1>2, <1>3, <1>6, <2>1
<1>9. t <= Known(c) => ring[c][t % RingSize] = Own(p, t)
  <2>1. Heard(c)
    BY DEF BytesInv
  <2> QED
    BY <1>3, <1>8, <2>1 DEF Heard, p
<1>10. /\ t % RingSize \in Slots(RingSize)
       /\ RingWith(c, r)[t % RingSize] =
            LET j == (s - (t % RingSize)) % RingSize
            IN  IF j < Win THEN r.win[j] ELSE ring[c][t % RingSize]
  <2>1. t % RingSize \in Slots(RingSize)
    BY <1>8, SizeFacts, SlotRange
  <2> QED
    BY <2>1 DEF RingWith, s
<1>11. s - t < RingSize
  BY <1>2, <1>3, <1>8, SizeFacts
<1>12. CASE t <= s
  <2>1. (s - (t % RingSize)) % RingSize = s - t
    BY <1>2, <1>8, <1>11, <1>12, SizeFacts, ModShift
  <2>2. CASE s - t < Win
    <3>1. s - t \in Slots(Win) /\ s - (s - t) = t
      BY <1>2, <1>8, <1>12, <2>2, SizeFacts DEF Slots
    <3>2. r.win[s - t] = Own(p, t)
      BY <1>2, <3>1
    <3> QED
      BY <1>6, <1>7, <1>10, <2>1, <2>2, <3>2
  <2>3. CASE ~(s - t < Win)
    <3>1. t <= Known(c)
      BY <1>2, <1>3, <1>4, <1>5, <1>8, <2>3, SizeFacts
    <3> QED
      BY <1>6, <1>7, <1>9, <1>10, <2>1, <2>3, <3>1
  <2> QED
    BY <2>2, <2>3
<1>13. CASE ~(t <= s)
  <2>1. rwat[c] > s /\ t <= Known(c) /\ Known(c) = rwat[c] /\ t - s <= MaxLag
    <3>1. ~(s >= rwat[c]) /\ t <= Known(c)
      BY <1>2, <1>3, <1>8, <1>13
    <3>2. Known(c) = rwat[c]
      BY <1>2, <1>3, <3>1, SizeFacts DEF Known
    <3>3. rwat[c] - MaxLag <= s
      BY <1>2, <1>3, <3>1 DEF s
    <3> QED
      BY <1>2, <1>3, <1>4, <1>8, <3>1, <3>2, <3>3
  <2>2. /\ (s - (t % RingSize)) % RingSize = s - t + RingSize
        /\ s - t + RingSize \in Int /\ ~(s - t + RingSize < Win)
    <3>1. -RingSize <= s - t /\ s - t < RingSize /\ ~(s - t + RingSize < Win)
      BY <1>2, <1>4, <1>8, <1>11, <2>1, SizeFacts
    <3>2. (s - (t % RingSize)) % RingSize = s - t + RingSize
      BY <1>2, <1>8, <1>13, <3>1, SizeFacts, ModShift
    <3> QED
      BY <1>2, <1>8, <3>1, <3>2, SizeFacts
  <2> QED
    BY <1>6, <1>7, <1>9, <1>10, <2>1, <2>2
<1> QED
  BY <1>12, <1>13

\* The record under the cursor, and what is left of the window behind it.
LEMMA ConsumeFacts ==
  ASSUME IInv, NEW c \in Console, Consume(c)
  PROVE  LET r == batch[c][rdn[c]]
         IN  /\ mode[c] = "play" /\ tick[c] # NoTick
             /\ r.type = "INPUT" => /\ r \in Records(batch[c]) /\ r \in Waiting(c)
                                    /\ \A q \in Records(batch'[c]) : q.stamp <= r.stamp
             /\ Records(batch'[c]) \subseteq Records(batch[c])
             /\ batch'[Peer(c)] = batch[Peer(c)]
             /\ \A q \in Console : Waiting(q)' \subseteq Waiting(q)
             /\ UNCHANGED <<tick, ran, loc, crcv, mode, used, trail, link, out>>
<1> DEFINE n == rdn[c]
           r == batch[c][n]
           rest == SubSeq(batch[c], 1, n - 1)
<1>1. /\ TypeOK /\ ShapeInv /\ Peer(c) \in Console /\ Peer(c) # c
      /\ \A q \in Console : q = c \/ q = Peer(c)
      /\ Ordered(batch[c])
  BY PeerType DEF IInv, ClockInv, Path, InOrder
<1>2. /\ mode[c] = "play" /\ tick[c] # NoTick /\ batch' = [batch EXCEPT ![c] = rest]
      /\ UNCHANGED <<tick, ran, loc, crcv, mode, used, trail, link, out>>
  BY DEF Consume, Step, history
<1>3. n \in 1..Len(batch[c]) /\ n = Len(batch[c]) /\ batch[c] \in Seq(Frames)
  BY <1>1, CursorType DEF Consume, Step
<1>4. Records(rest) \subseteq Records(batch[c])
  BY <1>3, RecordsSub
<1>5. r.type = "INPUT" => /\ r \in Records(batch[c])
                          /\ \A q \in Records(rest) : q.stamp <= r.stamp
  <2>1. n \in DOMAIN batch[c]
    BY <1>3
  <2>2. \A i \in DOMAIN rest : i \in DOMAIN batch[c] /\ i < n /\ rest[i] = batch[c][i]
    BY <1>3
  <2> HIDE DEF rest, n
  <2> QED
    BY <1>1, <2>1, <2>2 DEF Records, Ordered
<1>6. batch'[c] = rest /\ batch'[Peer(c)] = batch[Peer(c)]
  BY <1>1, <1>2 DEF TypeOK
<1> HIDE DEF rest, n, r
<1>7. \A q \in Console : Waiting(q)' \subseteq Waiting(q)
  BY <1>1, <1>2, <1>4, <1>6 DEF Waiting
<1>8. r.type = "INPUT" => r \in Waiting(c)
  BY <1>5 DEF Waiting
<1> QED
  BY <1>2, <1>4, <1>5, <1>6, <1>7, <1>8 DEF r, n

LEMMA BehindConsume ==
  ASSUME IInv, BytesInv, NEW c \in Console, mode[c] = "play",
         NEW r \in Records(batch[c]), r \in Waiting(c),
         Records(batch'[c]) \subseteq Records(batch[c]),
         \A q \in Records(batch'[c]) : q.stamp <= r.stamp,
         rwat' = [rwat EXCEPT ![c] = IF Newer(r.stamp, @) THEN r.stamp ELSE @]
  PROVE  Behind(c)' /\ rwat[c] <= rwat'[c] /\ rwat'[c] \in Int
<1>1. /\ TypeOK /\ ClockInv /\ rwat[c] \in Int /\ r.stamp \in Int /\ tick[Peer(c)] \in Int
      /\ r.stamp <= tick[Peer(c)] + Delay
  BY WaitingFacts, KnownDecided DEF IInv
<1>2. rwat'[c] = IF r.stamp >= rwat[c] THEN r.stamp ELSE rwat[c]
  BY <1>1, NewerExact DEF TypeOK, Waiting
<1>3. CASE ~(r.stamp >= rwat[c])
  BY <1>1, <1>2, <1>3 DEF BytesInv, Behind
<1>4. CASE r.stamp >= rwat[c]
  <2>1. tick[Peer(c)] + Delay <= Known(c) + MaxLag /\ Behind(c)
    BY DEF BytesInv, Lag
  <2>2. ASSUME NEW q \in Records(batch'[c]) PROVE r.stamp - MaxLag <= q.stamp
    <3>1. q \in Waiting(c) /\ q \in Records(batch[c])
      BY DEF Waiting
    <3>2. q.stamp \in Int /\ Delay <= q.stamp
      BY <3>1, WaitingFacts
    <3>3. rwat[c] <= q.stamp \/ (rwat[c] - MaxLag <= q.stamp /\ r.stamp <= rwat[c])
      BY <2>1, <3>1 DEF Behind
    <3>4. MaxLag \in Nat
      BY BoundAssumption
    <3> QED
      BY <1>1, <1>4, <2>1, <3>2, <3>3, <3>4, SizeFacts DEF Known
  <2> QED
    BY <1>1, <1>2, <1>4, <2>2 DEF Behind
<1> QED
  BY <1>3, <1>4

LEMMA ConsumeBytes ==
  ASSUME ShortPaths, IInv, BytesInv, NEW c \in Console, Consume(c)
  PROVE  BytesInv'
<1> DEFINE p == Peer(c)
           r == batch[c][rdn[c]]
<1>1. /\ mode[c] = "play"
      /\ r.type = "INPUT" => /\ r \in Records(batch[c]) /\ r \in Waiting(c)
                             /\ \A q \in Records(batch'[c]) : q.stamp <= r.stamp
      /\ Records(batch'[c]) \subseteq Records(batch[c])
      /\ batch'[p] = batch[p]
      /\ \A q \in Console : Waiting(q)' \subseteq Waiting(q)
      /\ UNCHANGED <<tick, ran, loc, crcv, mode, used, trail, link, out>>
  BY ConsumeFacts
<1>2. /\ TypeOK /\ p \in Console /\ p # c /\ Peer(p) = c
      /\ \A q \in Console : q = c \/ q = p
  BY PeerType DEF IInv
<1>3. \/ /\ r.type = "INPUT" /\ r.good
         /\ ring' = [ring EXCEPT ![c] = RingWith(c, r)]
         /\ rwat' = [rwat EXCEPT ![c] = IF Newer(r.stamp, @) THEN r.stamp ELSE @]
      \/ UNCHANGED <<ring, rwat>>
  BY DEF Consume, Sound
<1> HIDE DEF p, r
<1>4. CASE UNCHANGED <<ring, rwat>>
  <2>1. \A q \in Console : Behind(q)'
    BY <1>1, <1>2, <1>4 DEF BytesInv, Behind
  <2> QED
    BY <1>1, <1>4, <2>1, WireBytes
<1>5. CASE /\ r.type = "INPUT" /\ r.good
           /\ ring' = [ring EXCEPT ![c] = RingWith(c, r)]
           /\ rwat' = [rwat EXCEPT ![c] = IF Newer(r.stamp, @) THEN r.stamp ELSE @]
  <2>1. Behind(c)' /\ rwat[c] <= rwat'[c] /\ rwat'[c] \in Int /\ rwat[c] \in Int
    BY <1>1, <1>5, BehindConsume, KnownDecided
  <2>2. rwat'[p] = rwat[p] /\ ring'[p] = ring[p]
    BY <1>2, <1>5 DEF TypeOK
  <2>3. \A q \in Console : \A t : Own(q, t)' = Own(q, t) /\ HasRun(q, t)' = HasRun(q, t)
    BY <1>1 DEF Own, HasRun
  <2>4. \A q \in Console : Kept(q)' /\ Sampled(q)'
    BY <1>1, <2>3 DEF BytesInv, Kept, Sampled
  <2>5. \A q \in Console : Agreed(q)'
    BY <1>1, <2>3, PeerType DEF BytesInv, Agreed
  <2>6. \A q \in Console : Truthful(q)'
    <3> SUFFICES ASSUME NEW q \in Console, NEW m \in Waiting(q)', m.good
                 PROVE  /\ \A j \in Slots(Win) : m.win[j] = Own(Peer(q), m.stamp - j)'
                        /\ m.crc = Checksum(trail'[Peer(q)][m.stamp - Delay])
      BY DEF Truthful, Waiting
    <3>1. Truthful(q) /\ m \in Waiting(q) /\ Peer(q) \in Console
      BY <1>1, PeerType DEF BytesInv
    <3> QED
      BY <1>1, <2>3, <3>1 DEF Truthful, Waiting
  <2>7. Lag(c)'
    <3>1. Known(c) <= Known(c)' /\ Known(c) \in Int /\ Known(c)' \in Int
      BY <2>1, SizeFacts DEF Known
    <3>2. tick[p] \in Int /\ MaxLag \in Nat /\ Lag(c)
      BY <1>2, GateTypes, BoundAssumption DEF BytesInv
    <3> QED
      BY <1>1, <3>1, <3>2, SizeFacts DEF Lag, p
  <2>8. Lag(p)' /\ Behind(p)'
    BY <1>1, <1>2, <2>2 DEF BytesInv, Lag, Behind, Known
  <2>9. Heard(c)'
    <3>1. \/ rwat[c] <= r.stamp
          \/ rwat[c] - MaxLag <= r.stamp /\ r.stamp <= rwat[c]
      BY <1>1, <1>5 DEF BytesInv, Behind
    <3> QED
      BY <1>1, <1>5, <3>1, HeardConsume
  <2>10. Heard(p)'
    BY <1>1, <1>2, <2>2, <2>3 DEF BytesInv, Heard, Known, TickNow
  <2> QED
    BY <1>2, <2>1, <2>4, <2>5, <2>6, <2>7, <2>8, <2>9, <2>10 DEF BytesInv
<1> QED
  BY <1>3, <1>4, <1>5

LEMMA TransportBytes ==
  ASSUME ShortPaths, IInv, BytesInv, NEW c \in Console, Transport(c)
  PROVE  BytesInv'
<1>0. /\ TypeOK
      /\ Consume(c) \/ UNCHANGED <<tick, ran, loc, ring, rwat, crcv, used, trail, mode>>
  BY DEF IInv, Transport, WriteIssue, WriteAck, StatusNone, StatusSome, ReadAck, ConsumeDone,
         gateVars, history
<1>1. CASE WriteIssue(c)
  <2>1. UNCHANGED <<rwat, batch, tick, ran, loc, ring, crcv, used, trail, mode>>
    BY <1>1 DEF WriteIssue, gateVars, history
  <2> QED
    BY <1>1, <2>1, WriteBytes, BehindSame, WireBytes
<1>2. CASE WriteAck(c)
  <2>1. /\ UNCHANGED <<rwat, batch, tick, ran, loc, ring, crcv, used, trail, mode>>
        /\ Forward(c, out[c]) /\ out' = [out EXCEPT ![c] = <<>>]
    BY <1>2 DEF WriteAck, gateVars, history
  <2> QED
    BY <2>1, ForwardBytes, BehindSame, WireBytes
<1>3. CASE ReadAck(c)
  <2>1. UNCHANGED <<tick, ran, loc, ring, rwat, crcv, used, trail, mode>>
    BY <1>3 DEF ReadAck, gateVars, history
  <2> QED
    BY <1>3, <2>1, ReadBytes, WireBytes
<1>4. CASE Consume(c)
  BY <1>4, ConsumeBytes
<1>5. CASE StatusNone(c) \/ (\E n \in 1..MaxUnread : StatusSome(c, n)) \/ ConsumeDone(c)
  <2>1. UNCHANGED <<rwat, batch, link, out, tick, ran, loc, ring, crcv, used, trail, mode>>
    BY <1>5 DEF StatusNone, StatusSome, ConsumeDone, gateVars, history
  <2>2. \A q \in Console : Waiting(q)' = Waiting(q)
    BY <2>1 DEF Waiting
  <2> QED
    BY <2>1, <2>2, BehindSame, WireBytes
<1> QED
  BY <1>1, <1>2, <1>3, <1>4, <1>5 DEF Transport

LEMMA FaultyBytes ==
  ASSUME IInv, BytesInv, NEW c \in Console, Faulty(c)
  PROVE  BytesInv'
<1> DEFINE p == Peer(c)
<1>1. /\ TypeOK /\ p \in Console /\ Peer(p) = c /\ p # c
      /\ \A q \in Console : q = c \/ q = p
      /\ link[c] \in Seq(Frames) /\ link[p] \in Seq(Frames)
  BY PeerType DEF IInv, TypeOK
<1>2. /\ UNCHANGED <<tick, ran, loc, ring, rwat, crcv, used, trail, batch>>
      /\ \A q \in Console : mode'[q] = "play" => mode[q] = "play"
  BY <1>1 DEF Faulty, WriteFail, StatusFail, ReadFail, Disturb, Damage, Leave,
              gateVars, history, TypeOK
<1>3. ASSUME \A q \in Console : \A r \in Waiting(q)' : r.good => r \in Waiting(q)
      PROVE  BytesInv'
  BY <1>2, <1>3, BehindSame, WireBytes
<1>4. ASSUME UNCHANGED out, NEW q \in Console,
             \A r \in Records(link'[q]) : r.good => r \in Records(link[q]),
             link'[Peer(q)] = link[Peer(q)]
      PROVE  BytesInv'
  <2>1. \A m \in Console : \A r \in Records(link'[m]) : r.good => r \in Records(link[m])
    BY <1>4, PeerType
  <2>2. \A m \in Console : \A r \in Waiting(m)' : r.good => r \in Waiting(m)
    BY <1>2, <1>4, <2>1 DEF Waiting
  <2> QED
    BY <1>3, <2>2
<1>5. CASE WriteFail(c)
  <2>1. /\ Forward(c, out[c]) \/ link' = link
        /\ out' = [out EXCEPT ![c] = <<>>]
    BY <1>5 DEF WriteFail
  <2> QED
    BY <1>2, <1>3, <2>1, ForwardBytes
<1>6. CASE StatusFail(c) \/ Disturb(c)
  <2>1. UNCHANGED <<link, out>>
    BY <1>6 DEF StatusFail, Disturb
  <2> QED
    BY <1>1, <1>4, <2>1
<1>7. CASE ReadFail(c)
  <2>1. rdn[c] \in Nat /\ rdn[c] <= Len(link[c])
    BY <1>7 DEF ReadFail, Step, IInv, ShapeInv, Shape, TypeOK
  <2>2. /\ UNCHANGED out /\ link'[p] = link[p]
        /\ link'[c] = link[c] \/ link'[c] = SubSeq(link[c], rdn[c] + 1, Len(link[c]))
    BY <1>1, <1>7 DEF ReadFail, TypeOK
  <2>3. Records(link'[c]) \subseteq Records(link[c])
    BY <1>1, <2>1, <2>2, HeadDropped
  <2> QED
    BY <1>4, <2>2, <2>3
<1>8. ASSUME NEW i \in 1..MaxUnread, Damage(c, i) PROVE BytesInv'
  <2>1. /\ UNCHANGED out /\ link'[p] = link[p] /\ i \in DOMAIN link[c] /\ link[c][i].type = "INPUT"
        /\ link'[c] = [link[c] EXCEPT ![i] = Spoiled(@)]
    <3>1. /\ UNCHANGED out /\ i \in DOMAIN link[c] /\ link[c][i].type = "INPUT"
          /\ link' = [link EXCEPT ![c][i] = Spoiled(@)]
      BY <1>8 DEF Damage
    <3>2. link \in [Console -> Seq(Frames)]
      BY <1>1 DEF TypeOK
    <3> QED
      BY <1>1, <3>1, <3>2
  <2>2. \A r \in Records(link'[c]) : r.good => r \in Records(link[c])
    BY <1>1, <2>1, RecordsSpoiled
  <2> QED
    BY <1>4, <2>1, <2>2
<1>9. ASSUME NEW seen \in BOOLEAN, Leave(c, seen) PROVE BytesInv'
  <2>1. /\ UNCHANGED out /\ link'[c] = link[c]
        /\ link'[p] = link[p] \/ link'[p] = link[p] \o <<LeftFrame>>
    <3>1. /\ UNCHANGED out
          /\ link' = link \/ link' = [link EXCEPT ![p] = @ \o <<LeftFrame>>]
      BY <1>9 DEF Leave, Forward, p, history
    <3>2. link \in [Console -> Seq(Frames)]
      BY <1>1 DEF TypeOK
    <3> QED
      BY <1>1, <3>1, <3>2
  <2>2. <<LeftFrame>> \in Seq(Frames) /\ Records(<<LeftFrame>>) = {}
    BY LeftType, RecordsOne DEF LeftFrame
  <2>3. Records(link'[p]) \subseteq Records(link[p])
    <3>1. Records(link[p] \o <<LeftFrame>>) \subseteq Records(link[p]) \cup Records(<<LeftFrame>>)
      BY <1>1, <2>2, RecordsCat
    <3> QED
      BY <2>1, <2>2, <3>1
  <2> QED
    BY <1>1, <1>4, <2>1, <2>3
<1> QED
  BY <1>5, <1>6, <1>7, <1>8, <1>9 DEF Faulty

LEMMA InitBytes == Init => BytesInv
<1> SUFFICES ASSUME Init, NEW c \in Console
             PROVE  Kept(c) /\ Sampled(c) /\ Truthful(c) /\ Lag(c) /\ Behind(c) /\ Heard(c) /\ Agreed(c)
  BY DEF BytesInv
<1>1. Peer(c) \in Console /\ Peer(c) # c
  BY PeerType
<1>2. \A q \in Console : \A t \in Ticks : Own(q, t) = Idle
  <2> SUFFICES ASSUME NEW q \in Console, NEW t \in Ticks PROVE Own(q, t) = Idle
    OBVIOUS
  <2>1. t \in Int
    BY SizeFacts, BoundAssumption DEF Ticks, NoTick
  <2>2. t % LocSize \in Slots(LocSize)
    BY <2>1, SizeFacts, SlotRange
  <2>3. used[q][t] = Mix(q, Idle, Idle) /\ loc[q][t % LocSize] = Idle
    BY <2>2 DEF Init
  <2>4. Mix(q, Idle, Idle)[q] = Idle
    BY DEF Mix
  <2> QED
    BY <2>3, <2>4 DEF Own
<1>3. ASSUME NEW q \in Console, NEW t \in Int, t >= 0 PROVE Own(q, t) = Idle
  <2>1. t % LocSize \in Slots(LocSize)
    BY <1>3, SizeFacts, SlotRange
  <2>2. tick[q] = -1 /\ loc[q][t % LocSize] = Idle
    BY <2>1 DEF Init, NoTick
  <2>3. ~HasRun(q, t)
    BY <1>3, <2>2 DEF HasRun
  <2> QED
    BY <2>2, <2>3 DEF Own
<1>4. Kept(c)
  <2> SUFFICES ASSUME NEW t \in ((tick[c] + Delay - LocSize) + 1)..(tick[c] + Delay)
               PROVE  loc[c][t % LocSize] = Own(c, t)
    BY DEF Kept
  <2>1. t \in Int /\ NoTick - LocSize <= t
    BY SizeFacts DEF Init, NoTick
  <2>2. t % LocSize \in Slots(LocSize)
    BY <2>1, SizeFacts, SlotRange
  <2>3. loc[c][t % LocSize] = Idle
    BY <2>2 DEF Init
  <2>4. t >= 0 \/ t \in Ticks
    BY <2>1, SizeFacts, BoundAssumption DEF Ticks, NoTick
  <2> QED
    BY <1>2, <1>3, <2>1, <2>3, <2>4
<1>5. Sampled(c)
  BY DEF Init, Sampled
<1>6. Truthful(c) /\ Behind(c)
  BY <1>1, RecordsEmpty DEF Init, Truthful, Behind
<1>7. Lag(c)
  BY <1>1, SizeFacts, BoundAssumption DEF Init, Lag, Known, NoTick
<1>8. Heard(c)
  <2> SUFFICES ASSUME NEW t \in TickNow(c)..Known(c) PROVE ring[c][t % RingSize] = Own(Peer(c), t)
    BY DEF Heard
  <2>1. t \in Int /\ t >= 0
    BY SizeFacts DEF Init, TickNow, Known, NoTick
  <2>2. t % RingSize \in Slots(RingSize)
    BY <2>1, SizeFacts, SlotRange
  <2> QED
    BY <1>1, <1>3, <2>1, <2>2 DEF Init
<1>9. Agreed(c)
  BY DEF Init, Agreed, NoTick
<1> QED
  BY <1>4, <1>5, <1>6, <1>7, <1>8, <1>9

LEMMA BytesStep ==
  ASSUME ShortPaths, IInv, BytesInv, [Next]_vars
  PROVE  BytesInv'
<1>1. ASSUME NEW c \in Console, Frame(c) PROVE BytesInv'
  BY <1>1, FrameBytes
<1>2. ASSUME NEW c \in Console, Transport(c) PROVE BytesInv'
  BY <1>2, TransportBytes
<1>3. ASSUME NEW c \in Console, Faulty(c) PROVE BytesInv'
  BY <1>3, FaultyBytes
<1>4. CASE UNCHANGED vars
  <2>1. /\ UNCHANGED <<rwat, batch, link, out, tick, ran, loc, ring, crcv, used, trail, mode>>
    BY <1>4 DEF vars, gateVars, wireVars, history
  <2>2. \A q \in Console : Waiting(q)' = Waiting(q)
    BY <2>1 DEF Waiting
  <2> QED
    BY <2>1, <2>2, BehindSame, WireBytes
<1> QED
  BY <1>1, <1>2, <1>3, <1>4 DEF Next

\* The invariant the agreement theorems are read off: on paths that never fall a
\* window behind, every sound record says what its sender runs, and the ring holds
\* that for every tick the watermark covers.
THEOREM BytesInvariant ==
  ASSUME ShortPaths
  PROVE  Spec => [](IInv /\ BytesInv)
<1>1. Init => IInv /\ BytesInv
  BY InitType, InitShape, InitClock, InitBytes DEF IInv
<1>2. IInv /\ BytesInv /\ [Next]_vars => (IInv /\ BytesInv)'
  BY InvStep, BytesStep
<1> QED
  BY <1>1, <1>2, PTL DEF Spec

LEMMA BytesAgree == IInv /\ BytesInv => InputAgreement
<1> SUFFICES ASSUME IInv, BytesInv, NEW t \in 0..MaxTick, HasRun(Host, t), HasRun(Guest, t)
             PROVE  used[Host][t] = used[Guest][t]
  BY DEF InputAgreement
<1>1. /\ TypeOK /\ Host \in Console /\ Guest \in Console
      /\ Peer(Host) = Guest /\ Peer(Guest) = Host
  BY ConsoleAssumption DEF IInv, Console, Peer
<1>2. t \in 0..tick[Host] /\ t \in 0..tick[Guest]
  BY <1>1, GateTypes DEF HasRun
<1>3. used[Host][t][Guest] = Own(Guest, t) /\ used[Guest][t][Host] = Own(Host, t)
  BY <1>1, <1>2 DEF BytesInv, Agreed
<1>4. used[Guest][t][Guest] = Own(Guest, t) /\ used[Host][t][Host] = Own(Host, t)
  BY DEF Own
<1>5. t \in Ticks
  BY <1>1, <1>2, RunDecided
<1>6. used[Host][t] \in [Console -> Byte] /\ used[Guest][t] \in [Console -> Byte]
  BY <1>1, <1>5, GateTypes DEF Pair
<1>7. \A q \in Console : used[Host][t][q] = used[Guest][t][q]
  BY <1>3, <1>4 DEF Console
<1> QED
  BY <1>6, <1>7

\* The netcode's promise: whatever the two transports did with the records, and
\* whatever was lost, damaged or late on the way, a tick both consoles have run was
\* run on the same two bytes on both.
THEOREM InputsAgree ==
  ASSUME ShortPaths
  PROVE  Spec => []InputAgreement
BY BytesAgree, BytesInvariant, PTL

\* Everything a console has said of a tick, in a record on its way or in its
\* mailbox, is what it runs that tick on (CBNT1).
THEOREM RecordsKept ==
  ASSUME ShortPaths
  PROVE  Spec => []RecordsImmutable
<1>1. ASSUME IInv, BytesInv PROVE RecordsImmutable
  <2> SUFFICES ASSUME NEW c \in Console, NEW r \in InFlight(c), NEW j \in Slots(Win)
               PROVE  r.win[j] = Own(Peer(c), r.stamp - j)
    BY DEF RecordsImmutable
  <2>1. r \in Records(batch[c]) \cup Records(link[c]) \cup Records(out[Peer(c)]) /\ r.good
    BY <1>1, InFlightPart DEF IInv, InFlight
  <2> QED
    BY <1>1, <2>1 DEF BytesInv, Truthful
<1> QED
  BY <1>1, BytesInvariant, PTL

\* The gate's compare with the watermark is enough: every slot between the tick to
\* run and the watermark holds the peer's own byte of that tick.
THEOREM WatermarkCorrect ==
  ASSUME ShortPaths
  PROVE  Spec => []WatermarkHonest
<1>1. ASSUME BytesInv PROVE WatermarkHonest
  BY <1>1 DEF BytesInv, Heard, WatermarkHonest
<1> QED
  BY <1>1, BytesInvariant, PTL

\* The eight-bit compare of CBSCONS picks out the record of this very boundary.
LEMMA SameBoundary ==
  ASSUME IInv, NEW c \in Console, NEW r \in Waiting(c), tick[c] # NoTick,
         (r.stamp - Delay) % TickMod = tick[c] % TickMod
  PROVE  r.stamp - Delay = tick[c]
<1>1. TypeOK /\ ClockInv
  BY DEF IInv
<1>2. /\ tick[c] \in Int /\ tick[Peer(c)] \in Int /\ rwat[c] \in Int /\ tick[c] >= 0
      /\ tick[Peer(c)] <= tick[c] + Delay + 1
  <2>1. tick[Peer(c)] <= tick[c] + Delay + 1
    BY <1>1, PeerType, Skew
  <2> QED
    BY <1>1, <2>1, Skew, GateTypes
<1>3. r.stamp \in Int /\ Delay <= r.stamp /\ r.stamp <= tick[Peer(c)] + Delay
  BY WaitingFacts
<1>4. rwat[c] - (2 * Delay + 3) <= r.stamp \/ rwat[c] <= r.stamp
  BY <1>1 DEF ClockInv, Path, InOrder, Cursor, Waiting
<1>5. tick[c] > 0 => tick[c] <= rwat[c] + 1
  BY <1>1 DEF ClockInv, Gate
<1>6. /\ -TickMod < (r.stamp - Delay) - tick[c] /\ (r.stamp - Delay) - tick[c] < TickMod
      /\ r.stamp - Delay \in Int
  BY <1>2, <1>3, <1>4, <1>5, SizeFacts
<1> QED
  BY <1>2, <1>6, SizeFacts, ModDistinct

\* CBSCONS: "a false positive is impossible".  A repair is armed only on a
\* console whose state, entering the tick it is on, was not its peer's.
THEOREM AlarmsTrue ==
  ASSUME ShortPaths
  PROVE  Spec => NoFalseAlarm
<1> DEFINE Alarm == \A c \in Console : ~rsy[c] /\ rsy'[c] =>
                      trail[c][tick[c]] # trail[Peer(c)][tick[c]]
<1>1. ASSUME IInv, BytesInv, [Next]_vars PROVE Alarm
  <2> SUFFICES ASSUME NEW c \in Console, ~rsy[c], rsy'[c]
               PROVE  trail[c][tick[c]] # trail[Peer(c)][tick[c]]
    OBVIOUS
  <2>1. TypeOK /\ rsy \in [Console -> BOOLEAN]
    BY <1>1 DEF IInv, TypeOK
  <2>2. PICK d \in Console : Consume(d)
    <3>1. ~UNCHANGED vars
      BY DEF vars, gateVars
    <3>2. PICK d \in Console : Frame(d) \/ Transport(d) \/ Faulty(d)
      BY <1>1, <3>1 DEF Next
    <3>3. ~Frame(d)
      <4>1. ASSUME Commit(d) PROVE FALSE
        <5>1. rsy' = rsy \/ rsy' = [rsy EXCEPT ![d] = FALSE]
          BY <4>1 DEF Commit
        <5> QED
          BY <2>1, <5>1
      <4> QED
        BY <4>1 DEF Frame, BoundaryRun, BoundaryStall, BoundaryGone, MidTick
    <3>4. ~Faulty(d)
      BY DEF Faulty, WriteFail, StatusFail, ReadFail, Disturb, Damage, Leave, gateVars
    <3>5. Consume(d)
      BY <3>2, <3>3, <3>4
         DEF Transport, WriteIssue, WriteAck, StatusNone, StatusSome, ReadAck, ConsumeDone, gateVars
    <3> QED
      BY <3>5
  <2> DEFINE r == batch[d][rdn[d]]
  <2>3. /\ r.type = "INPUT" /\ r.good
        /\ rsy' = [rsy EXCEPT ![d] = rsy[d] \/ Mismatch(d, r)]
    BY <2>2 DEF Consume, Sound
  <2> HIDE DEF r
  <2>4. c = d /\ Mismatch(c, r)
    BY <2>1, <2>3
  <2>5. r \in Waiting(c) /\ tick[c] # NoTick
    BY <1>1, <2>2, <2>3, <2>4, ConsumeFacts DEF r
  <2>6. r.stamp - Delay = tick[c] /\ r.crc # crcv[c]
    BY <1>1, <2>4, <2>5, SameBoundary DEF Mismatch
  <2>7. r.crc = Checksum(trail[Peer(c)][tick[c]])
    BY <1>1, <2>3, <2>5, <2>6 DEF BytesInv, Truthful, Waiting
  <2>8. crcv[c] = Checksum(trail[c][tick[c]])
    BY <1>1, <2>5 DEF BytesInv, Sampled
  <2> QED
    BY <2>6, <2>7, <2>8
<1>2. Spec => [](IInv /\ BytesInv)
  BY BytesInvariant
<1> HIDE DEF Alarm
<1>3. IInv /\ BytesInv /\ [Next]_vars => [Alarm]_vars
  BY <1>1
<1>4. Spec => [][Alarm]_vars
  BY <1>2, <1>3, PTL DEF Spec
<1> QED
  BY <1>4 DEF Alarm, NoFalseAlarm

\* Two consoles that run a tick with RESET pressed are in the same state after it
\* if they agreed on what a new game leaves alone (CBRSY: "one event on both
\* consoles"), given ResetRestarts: whatever else differed is healed.
THEOREM RepairCorrect ==
  ASSUME ShortPaths, ResetRestarts
  PROVE  Spec => []RepairHeals
<1>1. ASSUME IInv, BytesInv, InputAgreement PROVE RepairHeals
  <2> SUFFICES ASSUME NEW t \in 0..(MaxTick - 1),
                      \A c \in Console : t < tick[c] /\ Undisturbed(c, t),
                      NEW q \in Console, Pressed(used[q][t]),
                      Survives(trail[Host][t]) = Survives(trail[Guest][t])
               PROVE  trail[Host][t + 1] = trail[Guest][t + 1]
    BY DEF RepairHeals
  <2>1. /\ TypeOK /\ Host \in Console /\ Guest \in Console
        /\ q = Host \/ q = Guest
    BY <1>1 DEF IInv, Console
  <2>2. t \in 0..MaxTick /\ t \in Ticks
    BY SizeFacts, BoundAssumption DEF Ticks, NoTick
  <2>3. used[Host][t] = used[Guest][t]
    BY <1>1, <2>1, <2>2 DEF InputAgreement, HasRun
  <2>4. /\ used[Host][t] \in Pair /\ Pressed(used[Host][t])
        /\ trail[Host][t] \in Sims /\ trail[Guest][t] \in Sims
    BY <2>1, <2>2, <2>3, GateTypes
  <2>5. SimStep(trail[Host][t], used[Host][t]) = SimStep(trail[Guest][t], used[Host][t])
    BY <2>4 DEF ResetRestarts
  <2> QED
    BY <2>1, <2>3, <2>5 DEF Undisturbed
<1> QED
  BY <1>1, BytesAgree, BytesInvariant, PTL

-----------------------------------------------------------------------------
(* The states *)

\* What a boundary does to the state and to the record kept of it.
LEMMA BoundaryState ==
  ASSUME IInv, NEW c \in Console, BoundaryRun(c) \/ BoundaryStall(c) \/ BoundaryGone(c)
  PROVE  /\ trail' = IF ran[c] THEN [trail EXCEPT ![c][TickNow(c)] = sim[c]] ELSE trail
         /\ sim' = IF ran'[c] THEN [sim EXCEPT ![c] = SimStep(@, used'[c][TickNow(c)])] ELSE sim
         /\ ran'[c] \in BOOLEAN
<1>1. TypeOK /\ ran \in [Console -> BOOLEAN] /\ sim \in [Console -> Sims]
  BY DEF IInv, TypeOK
<1>2. Commit(c)
  BY DEF BoundaryRun, BoundaryStall, BoundaryGone
<1>3. trail' = IF ran[c] THEN [trail EXCEPT ![c][TickNow(c)] = sim[c]] ELSE trail
  BY <1>2 DEF Commit, CaptureDue
<1>4. /\ sim' = IF ran'[c] THEN [sim EXCEPT ![c] = SimStep(@, used'[c][TickNow(c)])] ELSE sim
      /\ ran'[c] \in BOOLEAN
  <2>1. CASE BoundaryRun(c)
    BY <1>1, <2>1 DEF BoundaryRun
  <2>2. CASE BoundaryStall(c)
    BY <1>1, <2>2 DEF BoundaryStall, FrozenSim
  <2>3. CASE BoundaryGone(c)
    BY <1>1, <2>3 DEF BoundaryGone
  <2> QED
    BY <2>1, <2>2, <2>3
<1> QED
  BY <1>3, <1>4

\* A console entering a tick records the state it is in.
LEMMA MovedFrame ==
  ASSUME IInv, NEW d \in Console, Frame(d), NEW c \in Console, Moved(c)
  PROVE  Moved(c)'
<1>1. /\ TypeOK /\ ShapeInv /\ tick[c] \in Int /\ NoTick = -1 /\ NoTick <= tick[c]
      /\ tick[c] <= MaxTick /\ MaxTick \in Nat
  BY GateTypes DEF IInv
<1>2. ASSUME tick'[c] = tick[c], ran'[c] = ran[c], trail'[c] = trail[c], used'[c] = used[c],
             sim'[c] = sim[c]
      PROVE  Moved(c)'
  BY <1>2 DEF Moved
<1>3. CASE MidTick(d)
  BY <1>2, <1>3 DEF MidTick, history
<1>4. CASE (BoundaryRun(d) \/ BoundaryStall(d) \/ BoundaryGone(d)) /\ c # d
  <2>1. /\ tick' = [tick EXCEPT ![d] = TickNow(d)]
        /\ ran' = [ran EXCEPT ![d] = TRUE] \/ ran' = [ran EXCEPT ![d] = FALSE]
    BY <1>4, BoundaryEffect
  <2>2. tick'[c] = tick[c] /\ ran'[c] = ran[c]
    BY <1>1, <1>4, <2>1, GateTypes
  <2>3. used'[c] = used[c]
    BY <1>1, <1>4, BoundaryEffect, GateTypes
  <2>4. trail'[c] = trail[c]
    BY <1>1, <1>4, BoundaryState, GateTypes
  <2>5. sim'[c] = sim[c]
    <3>1. sim' = IF ran'[d] THEN [sim EXCEPT ![d] = SimStep(@, used'[d][TickNow(d)])] ELSE sim
      BY <1>4, BoundaryState
    <3>2. sim \in [Console -> Sims]
      BY <1>1 DEF TypeOK
    <3> QED
      BY <1>4, <3>1, <3>2
  <2> QED
    BY <1>2, <2>2, <2>3, <2>4, <2>5
<1>5. CASE (BoundaryRun(c) \/ BoundaryStall(c) \/ BoundaryGone(c)) /\ c = d
  <2> DEFINE n == TickNow(c)
  <2>1. /\ tick'[c] = n /\ n \in Int /\ 0 <= n /\ n \in Ticks
        /\ n = (IF ran[c] THEN tick[c] + 1 ELSE tick[c])
    BY <1>1, <1>5, BoundaryEffect, GateTypes
  <2>2. \/ used' = [used EXCEPT ![c][n] =
                      Mix(c, loc'[c][n % LocSize], ring[c][n % RingSize])]
        \/ used' = used
    BY <1>5, BoundaryEffect
  <2>3. /\ trail' = IF ran[c] THEN [trail EXCEPT ![c][n] = sim[c]] ELSE trail
        /\ sim' = IF ran'[c] THEN [sim EXCEPT ![c] = SimStep(@, used'[c][n])] ELSE sim
    BY <1>5, BoundaryState
  <2> HIDE DEF n
  <2>4. \A t \in Ticks : t # n => trail'[c][t] = trail[c][t] /\ used'[c][t] = used[c][t]
    BY <1>1, <2>1, <2>2, <2>3, GateTypes
  <2>5. trail'[c][n] = sim[c]
    <3>1. CASE ran[c]
      BY <1>1, <2>1, <2>3, <3>1, GateTypes
    <3>2. CASE ~ran[c]
      BY <1>1, <2>1, <2>3, <3>2 DEF Moved, ShapeInv, Shape
    <3> QED
      BY <3>1, <3>2
  <2>6. trail'[c][0] = SimStart
    <3>1. CASE n = 0
      BY <1>1, <2>1, <2>3, <2>5, <3>1 DEF Moved
    <3>2. CASE n # 0
      <4>1. 0 \in Ticks
        BY <1>1, SizeFacts DEF Ticks
      <4> QED
        BY <2>4, <3>2, <4>1 DEF Moved
    <3> QED
      BY <3>1, <3>2
  <2>7. ASSUME NEW t \in 0..(n - 1) PROVE trail'[c][t + 1] = SimStep(trail'[c][t], used'[c][t])
    <3>1. t \in Int /\ 0 <= t /\ t < n /\ t # n /\ t <= tick[c]
      BY <1>1, <2>1
    <3>2. t \in Ticks /\ (t + 1 # n => t + 1 \in Ticks)
      BY <1>1, <2>1, <3>1, SizeFacts DEF Ticks
    <3>3. trail'[c][t] = trail[c][t] /\ used'[c][t] = used[c][t]
      BY <2>4, <3>1, <3>2
    <3>4. CASE t < tick[c]
      <4>1. trail[c][t + 1] = SimStep(trail[c][t], used[c][t])
        <5>1. t \in 0..(tick[c] - 1)
          BY <1>1, <3>1, <3>4
        <5> QED
          BY <5>1 DEF Moved
      <4>2. trail'[c][t + 1] = trail[c][t + 1]
        <5>1. CASE t + 1 = n
          <6>1. ~ran[c]
            BY <1>1, <2>1, <3>1, <3>4, <5>1
          <6> QED
            BY <2>3, <6>1
        <5>2. CASE t + 1 # n
          BY <2>4, <3>2, <5>2
        <5> QED
          BY <5>1, <5>2
      <4> QED
        BY <3>3, <4>1, <4>2
    <3>5. CASE t = tick[c]
      <4>1. ran[c] /\ t + 1 = n /\ tick[c] # NoTick
        BY <1>1, <2>1, <3>1, <3>5
      <4>2. sim[c] = SimStep(trail[c][t], used[c][t])
        BY <3>5, <4>1 DEF Moved
      <4> QED
        BY <2>5, <3>3, <4>1, <4>2
    <3> QED
      BY <1>1, <3>1, <3>4, <3>5
  <2>8. sim'[c] = IF ran'[c] THEN SimStep(trail'[c][n], used'[c][n]) ELSE trail'[c][n]
    <3>1. sim \in [Console -> Sims]
      BY <1>1 DEF TypeOK
    <3> QED
      BY <2>3, <2>5, <3>1
  <2>9. n # NoTick
    BY <1>1, <2>1
  <2> QED
    BY <2>1, <2>6, <2>7, <2>8, <2>9 DEF Moved
<1> QED
  BY <1>3, <1>4, <1>5 DEF Frame

\* A transport, and a fault that is not a disturbance, leave the game alone.
LEMMA GateStill ==
  ASSUME NEW c \in Console, Transport(c) \/ (Faulty(c) /\ ~Disturb(c))
  PROVE  UNCHANGED <<tick, ran, loc, used, trail, sim>>
BY DEF Transport, WriteIssue, WriteAck, StatusNone, StatusSome, ReadAck, Consume, ConsumeDone,
       Faulty, WriteFail, StatusFail, ReadFail, Damage, Leave, gateVars, history

LEMMA CalmStep ==
  ASSUME [Next]_vars, "upset" \notin FaultKinds
  PROVE  \/ \E c \in Console : Frame(c)
         \/ UNCHANGED <<tick, ran, loc, used, trail, sim>>
<1>1. \A c \in Console : ~Disturb(c)
  BY DEF Disturb, Fault
<1>2. CASE UNCHANGED vars
  BY <1>2 DEF vars, gateVars, history
<1> QED
  BY <1>1, <1>2, GateStill DEF Next

LEMMA InitSim == Init => SimInv
<1> SUFFICES ASSUME Init PROVE SimInv
  OBVIOUS
<1>1. \A c \in Console : tick[c] = NoTick /\ ran[c] /\ sim[c] = SimStart
  BY DEF Init
<1>2. 0 \in Ticks
  BY SizeFacts, BoundAssumption DEF Ticks, NoTick
<1>3. \A c \in Console : trail[c][0] = SimStart
  BY <1>2 DEF Init
<1>4. \A c \in Console : Moved(c)
  BY <1>1, <1>3 DEF Moved, NoTick
<1>5. SimAgreement
  BY <1>1 DEF SimAgreement, NoTick, Console
<1> QED
  BY <1>4, <1>5 DEF SimInv

LEMMA AgreementFrame ==
  ASSUME IInv, SimInv, NEW d \in Console, Frame(d),
         \A c \in Console : Moved(c)', InputAgreement'
  PROVE  SimAgreement'
<1> SUFFICES ASSUME NEW t \in 0..MaxTick, t <= tick'[Host], t <= tick'[Guest]
             PROVE  trail'[Host][t] = trail'[Guest][t]
  BY DEF SimAgreement
<1>1. /\ TypeOK /\ Host \in Console /\ Guest \in Console /\ MaxTick \in Int
      /\ tick[Host] \in Int /\ tick[Guest] \in Int /\ tick'[Host] \in Int /\ tick'[Guest] \in Int
  BY GateTypes, TickStep DEF IInv, Console
<1>2. ASSUME NEW n \in Int, 0 <= n, n <= tick[Host], n <= tick[Guest]
      PROVE  trail'[Host][n] = trail'[Guest][n]
  <2>1. n \in 0..tick[Host] /\ n \in 0..tick[Guest] /\ n \in 0..MaxTick
    BY <1>1, <1>2, GateTypes
  <2>2. trail'[Host][n] = trail[Host][n] /\ trail'[Guest][n] = trail[Guest][n]
    BY <1>1, <2>1, TrailFixed
  <2> QED
    BY <1>2, <2>1, <2>2 DEF SimInv, SimAgreement
<1>3. CASE t <= tick[Host] /\ t <= tick[Guest]
  BY <1>1, <1>2, <1>3
<1>4. CASE t = 0
  BY <1>1, <1>4 DEF Moved
<1>5. CASE t > 0 /\ ~(t <= tick[Host] /\ t <= tick[Guest])
  <2>1. t - 1 <= tick[Host] /\ t - 1 <= tick[Guest] /\ t - 1 \in Int /\ 0 <= t - 1
    <3>1. \A c \in Console : tick'[c] <= tick[c] + 1
      <4> SUFFICES ASSUME NEW c \in Console PROVE tick'[c] <= tick[c] + 1
        OBVIOUS
      <4> QED
        BY TickStep
    <3> QED
      BY <1>1, <1>5, <3>1
  <2>2. trail'[Host][t - 1] = trail'[Guest][t - 1]
    BY <1>2, <2>1
  <2>3. used'[Host][t - 1] = used'[Guest][t - 1]
    <3>1. t - 1 \in 0..MaxTick /\ t - 1 < tick'[Host] /\ t - 1 < tick'[Guest]
      BY <1>1, <2>1
    <3> QED
      BY <3>1 DEF InputAgreement, HasRun
  <2>4. \A c \in Console : t <= tick'[c] =>
          trail'[c][t] = SimStep(trail'[c][t - 1], used'[c][t - 1])
    <3> SUFFICES ASSUME NEW c \in Console, t <= tick'[c]
                 PROVE  trail'[c][t] = SimStep(trail'[c][t - 1], used'[c][t - 1])
      OBVIOUS
    <3>1. tick'[c] \in Int
      BY TickStep
    <3>2. t - 1 \in 0..(tick'[c] - 1) /\ (t - 1) + 1 = t
      BY <1>1, <2>1, <3>1
    <3>3. trail'[c][(t - 1) + 1] = SimStep(trail'[c][t - 1], used'[c][t - 1])
      BY <3>2 DEF Moved
    <3> QED
      BY <3>2, <3>3
  <2> QED
    BY <1>1, <2>2, <2>3, <2>4
<1> QED
  BY <1>1, <1>3, <1>4, <1>5

LEMMA SimStill ==
  ASSUME SimInv, UNCHANGED <<tick, ran, loc, used, trail, sim>>
  PROVE  SimInv'
BY DEF SimInv, SimAgreement, Moved

\* No desync: two consoles whose game is moved by its input alone enter each tick
\* in the same state, however their transports fared and whatever they stalled.
THEOREM StatesAgree ==
  ASSUME ShortPaths, "upset" \notin FaultKinds
  PROVE  Spec => []SimAgreement
<1>1. Init => SimInv
  BY InitSim
<1>2. IInv /\ SimInv /\ InputAgreement' /\ [Next]_vars => SimInv'
  <2> SUFFICES ASSUME IInv, SimInv, InputAgreement', [Next]_vars PROVE SimInv'
    OBVIOUS
  <2>1. ASSUME NEW d \in Console, Frame(d) PROVE SimInv'
    <3>1. \A c \in Console : Moved(c)'
      BY <2>1, MovedFrame DEF SimInv
    <3>2. SimAgreement'
      BY <2>1, <3>1, AgreementFrame
    <3> QED
      BY <3>1, <3>2 DEF SimInv
  <2> QED
    BY <2>1, CalmStep, SimStill
<1>3. SimInv => SimAgreement
  BY DEF SimInv
<1> QED
  BY <1>1, <1>2, <1>3, InputsAgree, BytesInvariant, PTL DEF Spec

-----------------------------------------------------------------------------
(* The netcode implements Lockstep *)

\* What each console has committed to, and how far it has come.
Saids == [c \in Console |-> [t \in 0..(tick[c] + Delay) |-> Own(c, t)]]
Dones == [c \in Console |-> TickNow(c)]

LEMMA InitPlain == Init => Plain!Init
<1> SUFFICES ASSUME Init PROVE Plain!Init
  OBVIOUS
<1>1. \A c \in Console : tick[c] = -1 /\ ran[c] /\ TickNow(c) = 0
  BY DEF Init, TickNow, NoTick
<1>2. sim = [c \in Console |-> SimStart]
  BY DEF Init
<1>3. Dones = [c \in Console |-> 0]
  BY <1>1 DEF Dones
<1>4. \A c \in Console : \A t \in 0..(Delay - 1) : Own(c, t) = Idle
  <2> SUFFICES ASSUME NEW c \in Console, NEW t \in 0..(Delay - 1) PROVE Own(c, t) = Idle
    OBVIOUS
  <2>1. t \in Int /\ 0 <= t
    BY SizeFacts
  <2>2. t % LocSize \in Slots(LocSize)
    BY <2>1, SizeFacts, SlotRange
  <2>3. loc[c][t % LocSize] = Idle
    BY <2>2 DEF Init
  <2>4. ~HasRun(c, t)
    BY <1>1, <2>1 DEF HasRun
  <2> QED
    BY <2>3, <2>4 DEF Own
<1>5. \A c \in Console : tick[c] + Delay = Delay - 1
  BY <1>1, SizeFacts
<1>6. Saids = [c \in Console |-> [t \in 0..(Delay - 1) |-> Idle]]
  BY <1>4, <1>5 DEF Saids
<1> QED
  BY <1>2, <1>3, <1>6 DEF Plain!Init, Saids, Dones


\* The bytes said, in both states of a step.
LEMMA SaidsAt ==
  ASSUME NEW c \in Console
  PROVE  /\ Saids[c] = [t \in 0..(tick[c] + Delay) |-> Own(c, t)]
         /\ Saids'[c] = [t \in 0..(tick'[c] + Delay) |-> Own(c, t)']
BY DEF Saids

LEMMA SaidsDomain ==
  /\ DOMAIN Saids = Console /\ DOMAIN Saids' = Console
  /\ Saids = [c \in Console |-> Saids[c]]
  /\ Saids' = [c \in Console |-> Saids'[c]]
<1>1. DOMAIN Saids = Console /\ Saids = [c \in Console |-> Saids[c]]
  BY DEF Saids
<1>2. DOMAIN Saids' = Console /\ Saids' = [c \in Console |-> Saids'[c]]
  BY DEF Saids
<1> QED
  BY <1>1, <1>2

\* What no boundary of the other console changes, and a boundary of its own only
\* adds to.
LEMMA SaidsKept ==
  ASSUME IInv, NEW d \in Console, Frame(d), NEW c \in Console
  PROVE  /\ \A t \in 0..(tick[c] + Delay) : Own(c, t)' = Own(c, t)
         /\ tick'[c] = tick[c] => Saids'[c] = Saids[c]
<1>1. TypeOK
  BY DEF IInv
<1>2. \A t \in 0..(tick[c] + Delay) : Own(c, t)' = Own(c, t)
  <2> SUFFICES ASSUME NEW t \in 0..(tick[c] + Delay) PROVE Own(c, t)' = Own(c, t)
    OBVIOUS
  <2>1. t \in Decided(c)
    BY <1>1, GateTypes, SizeFacts DEF Decided
  <2> QED
    BY <2>1, OwnFixed
<1>3. ASSUME tick'[c] = tick[c] PROVE Saids'[c] = Saids[c]
  <2>1. Saids'[c] = [t \in 0..(tick[c] + Delay) |-> Own(c, t)']
    BY <1>3, SaidsAt
  <2>2. Saids[c] = [t \in 0..(tick[c] + Delay) |-> Own(c, t)]
    BY SaidsAt
  <2>3. [t \in 0..(tick[c] + Delay) |-> Own(c, t)'] = [t \in 0..(tick[c] + Delay) |-> Own(c, t)]
    BY <1>2
  <2> QED
    BY <2>1, <2>2, <2>3
<1> QED
  BY <1>2, <1>3

\* What a boundary of c says, in Lockstep's terms.
LEMMA SaidFrame ==
  ASSUME IInv, TypeOK', NEW c \in Console,
         BoundaryRun(c) \/ BoundaryStall(c) \/ BoundaryGone(c),
         NEW n \in 0..MaxTick, n = TickNow(c)
  PROVE  /\ n + Delay \in DOMAIN Saids[c] => Saids' = Saids
         /\ n + Delay \notin DOMAIN Saids[c] =>
              /\ n + Delay \in DOMAIN Saids'[c] /\ Saids'[c][n + Delay] \in Byte
              /\ Saids' = [Saids EXCEPT ![c] =
                   [u \in 0..(n + Delay) |->
                      IF u = n + Delay THEN Saids'[c][n + Delay] ELSE Saids[c][u]]]
<1>1. /\ TypeOK /\ Frame(c) /\ tick[c] \in Int /\ NoTick = -1 /\ NoTick <= tick[c]
      /\ MaxTick \in Nat /\ n \in Int
  BY GateTypes DEF IInv, Frame
<1>2. tick' = [tick EXCEPT ![c] = n] /\ n = (IF ran[c] THEN tick[c] + 1 ELSE tick[c])
  BY BoundaryEffect
<1>3. tick'[c] = n /\ \A q \in Console : q # c => tick'[q] = tick[q]
  BY <1>1, <1>2, GateTypes
<1>4. \A q \in Console : q # c => Saids'[q] = Saids[q]
  BY <1>1, <1>3, SaidsKept
<1>5. DOMAIN Saids[c] = 0..(tick[c] + Delay) /\ DOMAIN Saids'[c] = 0..(n + Delay)
  BY <1>3, SaidsAt
<1>6. CASE ~ran[c]
  <2>1. tick'[c] = tick[c]
    BY <1>2, <1>3, <1>6
  <2>2. Saids'[c] = Saids[c]
    BY <1>1, <2>1, SaidsKept
  <2>3. Saids' = Saids
    BY <1>4, <2>2, SaidsDomain
  <2>4. n + Delay \in 0..(tick[c] + Delay)
    BY <1>1, <1>2, <1>6, SizeFacts
  <2> QED
    BY <1>5, <2>3, <2>4
<1>7. CASE ran[c]
  <2> PICK m \in Int : m = n + Delay
    BY <1>1, SizeFacts
  <2>1. m = tick[c] + Delay + 1 /\ 0 <= m /\ m \notin 0..(tick[c] + Delay) /\ m \in 0..m
    BY <1>1, <1>2, <1>7, SizeFacts
  <2>2. \A u \in 0..m : u # m => u \in 0..(tick[c] + Delay)
    BY <1>1, <2>1, SizeFacts
  <2>3. m \notin DOMAIN Saids[c] /\ m \in DOMAIN Saids'[c]
    BY <1>5, <2>1
  <2>4. \A u \in 0..m : Saids'[c][u] = Own(c, u)'
    BY <1>3, SaidsAt
  <2>5. Saids'[c][m] \in Byte
    <3>1. ~HasRun(c, m)'
      <4>1. ~(m < tick'[c]) /\ m # tick'[c]
        BY <1>1, <1>3, SizeFacts
      <4> QED
        BY <4>1 DEF HasRun
    <3>2. m % LocSize \in Slots(LocSize)
      BY <2>1, SizeFacts, SlotRange
    <3>3. Own(c, m)' = loc'[c][m % LocSize]
      BY <3>1 DEF Own
    <3>4. loc' \in [Console -> [Slots(LocSize) -> Byte]]
      BY DEF TypeOK
    <3>5. loc'[c][m % LocSize] \in Byte
      BY <3>2, <3>4
    <3> QED
      BY <2>1, <2>4, <3>3, <3>5
  <2>6. \A u \in 0..m : u # m => Saids'[c][u] = Saids[c][u]
    <3> SUFFICES ASSUME NEW u \in 0..m, u # m PROVE Saids'[c][u] = Saids[c][u]
      OBVIOUS
    <3>1. u \in 0..(tick[c] + Delay)
      BY <2>2
    <3>2. Own(c, u)' = Own(c, u)
      BY <1>1, <3>1, SaidsKept
    <3>3. Saids[c][u] = Own(c, u)
      BY <3>1, SaidsAt
    <3> QED
      BY <2>4, <3>2, <3>3
  <2>7. Saids'[c] = [u \in 0..m |-> IF u = m THEN Saids'[c][m] ELSE Saids[c][u]]
    <3>1. Saids'[c] = [u \in 0..m |-> Saids'[c][u]]
      BY <1>3, SaidsAt
    <3> QED
      BY <2>6, <3>1
  <2>8. Saids' = [Saids EXCEPT ![c] = Saids'[c]]
    BY <1>4, SaidsDomain
  <2> QED
    BY <2>3, <2>5, <2>7, <2>8
<1> QED
  BY <1>6, <1>7

\* What it runs: the two bytes both have committed to, and nothing else.
LEMMA RunFrame ==
  ASSUME IInv, IInv', BytesInv', NEW c \in Console,
         BoundaryRun(c) \/ BoundaryStall(c) \/ BoundaryGone(c),
         NEW n \in 0..MaxTick, n = TickNow(c)
  PROVE  \/ Dones' = Dones /\ sim' = sim
         \/ /\ Dones' = [Dones EXCEPT ![c] = n + 1]
            /\ \A q \in Console : n \in DOMAIN Saids'[q]
            /\ sim' = [sim EXCEPT ![c] = SimStep(@, [q \in Console |-> Saids'[q][n]])]
<1>1. /\ TypeOK /\ TypeOK' /\ ClockInv /\ Peer(c) \in Console /\ Peer(c) # c
      /\ \A q \in Console : q = c \/ q = Peer(c)
      /\ tick[c] \in Int /\ MaxTick \in Nat /\ n \in Int /\ 0 <= n
  BY PeerType, GateTypes DEF IInv
<1>2. /\ n \in Ticks /\ tick' = [tick EXCEPT ![c] = n]
      /\ \/ Arrived(c) /\ ran' = [ran EXCEPT ![c] = TRUE]
         \/ ran' = [ran EXCEPT ![c] = FALSE]
  BY BoundaryEffect
<1>3. /\ tick'[c] = n /\ ran'[c] \in BOOLEAN /\ (ran'[c] => Arrived(c))
      /\ \A q \in Console : q # c => tick'[q] = tick[q] /\ ran'[q] = ran[q]
  BY <1>1, <1>2, GateTypes
<1>4. sim' = IF ran'[c] THEN [sim EXCEPT ![c] = SimStep(@, used'[c][n])] ELSE sim
  BY BoundaryState
<1>5. TickNow(c)' = IF ran'[c] THEN n + 1 ELSE n
  BY <1>3 DEF TickNow
<1>6. \A q \in Console : q # c => TickNow(q)' = TickNow(q)
  BY <1>3 DEF TickNow
<1>7. /\ Dones = [q \in Console |-> TickNow(q)]
      /\ Dones' = [q \in Console |-> TickNow(q)']
  BY DEF Dones
<1>8. CASE ~ran'[c]
  <2>1. \A q \in Console : TickNow(q)' = TickNow(q)
    BY <1>5, <1>6, <1>8
  <2>2. Dones' = Dones
    BY <1>7, <2>1
  <2> QED
    BY <1>4, <1>8, <2>2
<1>9. CASE ran'[c]
  <2>1. Dones' = [Dones EXCEPT ![c] = n + 1]
    BY <1>5, <1>6, <1>7, <1>9
  <2>2. n <= tick'[c] + Delay /\ n <= tick'[Peer(c)] + Delay
    <3>1. n <= rwat[c]
      BY <1>1, <1>3, <1>9, ArrivedExact
    <3>2. rwat[c] <= tick[Peer(c)] + Delay /\ tick[Peer(c)] \in Int /\ rwat[c] \in Int
      BY <1>1, Skew
    <3> QED
      BY <1>1, <1>3, <3>1, <3>2, SizeFacts
  <2>3. \A q \in Console : n \in 0..(tick'[q] + Delay)
    <3>1. tick'[c] \in Int /\ tick'[Peer(c)] \in Int
      BY <1>1, <1>2, GateTypes
    <3>2. n \in 0..(tick'[c] + Delay) /\ n \in 0..(tick'[Peer(c)] + Delay)
      BY <1>1, <2>2, <3>1, SizeFacts
    <3> QED
      BY <1>1, <3>2
  <2>4. \A q \in Console : n \in DOMAIN Saids'[q] /\ Saids'[q][n] = Own(q, n)'
    BY <2>3, SaidsAt
  <2>5. HasRun(c, n)'
    BY <1>3, <1>9 DEF HasRun
  <2>6. used'[c][n][c] = Own(c, n)'
    BY <2>5 DEF Own
  <2>7. used'[c][n][Peer(c)] = Own(Peer(c), n)'
    <3>1. n \in 0..tick'[c]
      BY <1>1, <1>3
    <3>2. Agreed(c)'
      BY DEF BytesInv
    <3> QED
      BY <2>5, <3>1, <3>2 DEF Agreed
  <2>8. used'[c][n] = [q \in Console |-> Saids'[q][n]]
    <3>1. used'[c][n] \in [Console -> Byte]
      <4>1. used' \in [Console -> [Ticks -> Pair]]
        BY <1>1 DEF TypeOK
      <4> QED
        BY <1>2, <4>1 DEF Pair
    <3>2. \A q \in Console : used'[c][n][q] = Saids'[q][n]
      BY <1>1, <2>4, <2>6, <2>7
    <3> QED
      BY <3>1, <3>2
  <2> QED
    BY <1>4, <1>9, <2>1, <2>4, <2>8
<1> QED
  BY <1>3, <1>8, <1>9

\* A boundary is a turn of Lockstep.
LEMMA TurnFrame ==
  ASSUME IInv, IInv', BytesInv', NEW c \in Console,
         BoundaryRun(c) \/ BoundaryStall(c) \/ BoundaryGone(c)
  PROVE  Plain!Turn(c)
<1> PICK n \in 0..MaxTick : n = TickNow(c)
  BY BoundaryEffect
<1>1. TypeOK' /\ Dones[c] = n
  BY DEF IInv, Dones
<1>2. Plain!Say(c)
  <2>1. CASE n + Delay \in DOMAIN Saids[c]
    BY <1>1, <2>1, SaidFrame DEF Plain!Say, Saids, Dones
  <2>2. CASE n + Delay \notin DOMAIN Saids[c]
    <3>1. /\ n + Delay \in DOMAIN Saids'[c] /\ Saids'[c][n + Delay] \in Byte
          /\ Saids' = [Saids EXCEPT ![c] =
               [u \in 0..(n + Delay) |->
                  IF u = n + Delay THEN Saids'[c][n + Delay] ELSE Saids[c][u]]]
      BY <1>1, <2>2, SaidFrame
    <3>2. Plain!Says(c, Dones[c] + Delay)
      BY <1>1, <3>1 DEF Plain!Says, Saids
    <3>3. /\ Dones[c] + Delay \notin DOMAIN Saids[c]
          /\ Plain!Says(c, Dones[c] + Delay)
          => Plain!Say(c)
      BY DEF Plain!Say, Saids, Dones
    <3>4. Dones[c] + Delay \notin DOMAIN Saids[c]
      BY <1>1, <2>2
    <3> QED
      BY <3>2, <3>3, <3>4
  <2> QED
    BY <2>1, <2>2
<1>3. \/ Plain!Run(c)
      \/ Dones' = Dones /\ sim' = sim
  <2>1. \/ Dones' = Dones /\ sim' = sim
        \/ /\ Dones' = [Dones EXCEPT ![c] = n + 1]
           /\ \A q \in Console : n \in DOMAIN Saids'[q]
           /\ sim' = [sim EXCEPT ![c] = SimStep(@, [q \in Console |-> Saids'[q][n]])]
    BY RunFrame
  <2> QED
    BY <1>1, <2>1 DEF Plain!Run, Saids, Dones
<1> QED
  BY <1>2, <1>3 DEF Plain!Turn, Dones

\* The netcode implements Lockstep: to a game that only its input moves, two
\* gates, two transports and the path between them are two players who say a
\* byte a tick and run a tick when both have said theirs.
THEOREM LockstepImplemented ==
  ASSUME ShortPaths, "upset" \notin FaultKinds
  PROVE  Spec => ImplementsLockstep
<1>1. Init => Plain!Init
  BY InitPlain
<1>2. IInv /\ IInv' /\ BytesInv' /\ [Next]_vars => [Plain!Next]_(Plain!vars)
  <2> SUFFICES ASSUME IInv, IInv', BytesInv', [Next]_vars
               PROVE  [Plain!Next]_(Plain!vars)
    OBVIOUS
  <2>1. ASSUME UNCHANGED <<tick, ran, loc, used, sim>> PROVE UNCHANGED Plain!vars
    BY <2>1 DEF Plain!vars, Own, HasRun, TickNow
  <2>2. ASSUME NEW c \in Console, MidTick(c) PROVE UNCHANGED Plain!vars
    BY <2>1, <2>2 DEF MidTick, history
  <2>3. ASSUME NEW c \in Console, Frame(c) PROVE [Plain!Next]_(Plain!vars)
    BY <2>2, <2>3, TurnFrame DEF Frame, Plain!Next
  <2> QED
    BY <2>1, <2>3, CalmStep
<1> QED
  BY <1>1, <1>2, ClockInvariant, BytesInvariant, PTL DEF Spec, ImplementsLockstep, Plain!Spec
=============================================================================
