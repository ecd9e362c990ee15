--------------------------- MODULE NetPlayProofs ---------------------------
(***************************************************************************)
(* What NetPlay's properties rest on, for every value of its constants:    *)
(* the types and shapes of its state, and the two clocks of a match, how   *)
(* far apart they can get and that eight bits are enough to compare them.  *)
(***************************************************************************)
EXTENDS NetPlayInv, TLAPS

-----------------------------------------------------------------------------
(* Arithmetic of the eight-bit cells *)

LEMMA ModRange ==
  ASSUME NEW a \in Int, NEW n \in Nat \ {0}
  PROVE  a % n \in 0..(n - 1)
OBVIOUS

LEMMA SlotRange ==
  ASSUME NEW a \in Int, NEW n \in Nat \ {0}
  PROVE  a % n \in Slots(n)
BY ModRange DEF Slots

-----------------------------------------------------------------------------
(* Types *)

LEMMA PeerType ==
  /\ \A c \in Console : Peer(c) \in Console /\ Peer(c) # c /\ Peer(Peer(c)) = c
  /\ \A c, d \in Console : d # c => d = Peer(c)
BY ConsoleAssumption DEF Console, Peer

LEMMA IdleType == Idle \in Byte
BY BoundAssumption DEF Idle, Byte

LEMMA GarbledType == Garbled \in Byte
BY BoundAssumption DEF Garbled, Byte

LEMMA LeftType == LeftFrame \in Frames
BY DEF LeftFrame, Frames

\* The part of SizeAssumption that is linear in every constant.
LEMMA SizeFacts ==
  /\ Delay \in Nat \ {0} /\ Win \in Nat \ {0} /\ FramesPerTick \in Nat \ {0}
  /\ RingSize \in Nat \ {0} /\ LocSize \in Nat \ {0} /\ TickMod \in Nat \ {0}
  /\ StallMax \in Nat \ {0} /\ BiteMax \in Nat \ {0}
  /\ 2 * Delay + 2 <= RingSize /\ Win <= RingSize
  /\ Win <= LocSize /\ Delay < LocSize
  /\ 4 * Delay + 8 <= TickMod
BY SizeAssumption

LEMMA InitType == Init => TypeOK
<1> SUFFICES ASSUME Init PROVE TypeOK
  OBVIOUS
<1> USE IdleType, SizeAssumption, SimAssumption, BoundAssumption
<1>1. \A c \in Console : Mix(c, Idle, Idle) \in Pair
  BY DEF Mix, Pair
<1>2. 0 \in Slots(FramesPerTick)
  BY DEF Slots
<1>3. /\ used \in [Console -> [Ticks -> Pair]]
      /\ trail \in [Console -> [Ticks -> Sims]]
  BY <1>1 DEF Init
<1>4. /\ loc \in [Console -> [Slots(LocSize) -> Byte]]
      /\ ring \in [Console -> [Slots(RingSize) -> Byte]]
  BY DEF Init
<1> QED
  BY <1>2, <1>3, <1>4 DEF Init, TypeOK, NoTick

\* The program's part of a boundary: what is committed before the tick is
\* decided keeps its type, and the tick stays inside its bound.
LEMMA CommitType ==
  ASSUME TypeOK, ShapeInv, NEW c \in Console, AtBoundary(c), Commit(c)
  PROVE  /\ TickNow(c) \in 0..MaxTick
         /\ tick' = [tick EXCEPT ![c] = TickNow(c)]
         /\ tick' \in [Console -> NoTick..MaxTick]
         /\ crcv' \in [Console -> Sums]
         /\ loc' \in [Console -> [Slots(LocSize) -> Byte]]
         /\ rsy' \in [Console -> BOOLEAN]
         /\ samples' \in [Console -> 0..(MaxTick + 1)]
         /\ trail' \in [Console -> [Ticks -> Sims]]
<1>1. TickNow(c) \in 0..MaxTick /\ (ran[c] => samples[c] \in 0..MaxTick)
  BY BoundAssumption DEF TypeOK, ShapeInv, Shape, AtBoundary, TickNow, NoTick
<1>2. tick' = [tick EXCEPT ![c] = TickNow(c)]
  BY DEF Commit
<1>3. tick' \in [Console -> NoTick..MaxTick]
  <2>1. tick \in [Console -> NoTick..MaxTick]
    BY DEF TypeOK
  <2> QED
    BY <1>1, <1>2, <2>1 DEF NoTick
<1>4. CASE ran[c]
  <2>1. Capture(c) \in Byte
    BY <1>1, <1>4, BoundAssumption DEF Capture, PortByte, Byte, TypeOK
  <2>2. TickNow(c) \in Ticks
    BY <1>1, SizeFacts DEF Ticks, NoTick
  <2>3. loc' \in [Console -> [Slots(LocSize) -> Byte]]
    <3>1. loc' = [loc EXCEPT ![c][(TickNow(c) + Delay) % LocSize] = Capture(c)]
      BY <1>4 DEF Commit, CaptureDue
    <3>2. loc \in [Console -> [Slots(LocSize) -> Byte]]
      BY DEF TypeOK
    <3> QED
      BY <2>1, <3>1, <3>2
  <2>4. trail' \in [Console -> [Ticks -> Sims]]
    <3>1. trail' = [trail EXCEPT ![c][TickNow(c)] = sim[c]]
      BY <1>4 DEF Commit, CaptureDue
    <3>2. trail \in [Console -> [Ticks -> Sims]] /\ sim[c] \in Sims
      BY DEF TypeOK
    <3> QED
      BY <3>1, <3>2
  <2>5. /\ crcv' = [crcv EXCEPT ![c] = Checksum(sim[c])]
        /\ rsy' = [rsy EXCEPT ![c] = FALSE]
        /\ samples' = [samples EXCEPT ![c] = @ + 1]
    BY <1>4 DEF Commit, CaptureDue
  <2>6. /\ crcv' \in [Console -> Sums]
        /\ rsy' \in [Console -> BOOLEAN]
        /\ samples' \in [Console -> 0..(MaxTick + 1)]
    BY <1>1, <1>4, <2>5, SimAssumption, BoundAssumption DEF TypeOK
  <2> QED
    BY <1>1, <1>2, <1>3, <2>3, <2>4, <2>6
<1>5. CASE ~ran[c]
  <2>1. UNCHANGED <<crcv, loc, rsy, samples, trail>>
    BY <1>5 DEF Commit, CaptureDue
  <2> QED
    BY <1>1, <1>2, <1>3, <2>1 DEF TypeOK
<1> QED
  BY <1>4, <1>5

LEMMA PhaseType ==
  ASSUME NEW n \in Slots(FramesPerTick)
  PROVE  PhaseAfter(n) \in Slots(FramesPerTick)
BY SizeFacts, ModRange DEF PhaseAfter, Slots

LEMMA FrameType ==
  ASSUME TypeOK, ShapeInv, NEW c \in Console, Frame(c)
  PROVE  TypeOK'
<1>1. CASE BoundaryRun(c)
  <2> DEFINE t == TickNow(c)
  <2>1. AtBoundary(c) /\ Commit(c)
    BY <1>1 DEF BoundaryRun
  <2> HIDE DEF t
  <2>2. /\ t \in 0..MaxTick
        /\ tick' \in [Console -> NoTick..MaxTick]
        /\ crcv' \in [Console -> Sums]
        /\ loc' \in [Console -> [Slots(LocSize) -> Byte]]
        /\ rsy' \in [Console -> BOOLEAN]
        /\ samples' \in [Console -> 0..(MaxTick + 1)]
        /\ trail' \in [Console -> [Ticks -> Sims]]
    BY <2>1, CommitType DEF t
  <2>3. t \in Ticks
    BY <2>2, SizeFacts, BoundAssumption DEF Ticks, NoTick
  <2>4. t % LocSize \in Slots(LocSize) /\ t % RingSize \in Slots(RingSize)
    <3>1. t \in Int
      BY <2>2, BoundAssumption
    <3> QED
      BY <3>1, SizeFacts, SlotRange
  <2>5. Mix(c, loc'[c][t % LocSize], ring[c][t % RingSize]) \in Pair
    <3>1. loc'[c][t % LocSize] \in Byte /\ ring[c][t % RingSize] \in Byte
      BY <2>2, <2>4 DEF TypeOK
    <3> QED
      BY <3>1 DEF Mix, Pair
  <2>6. used' \in [Console -> [Ticks -> Pair]] /\ used'[c][t] \in Pair
    <3>1. used' = [used EXCEPT ![c][t] = Mix(c, loc'[c][t % LocSize], ring[c][t % RingSize])]
      BY <1>1 DEF BoundaryRun, t
    <3>2. used \in [Console -> [Ticks -> Pair]]
      BY DEF TypeOK
    <3> QED
      BY <2>3, <2>5, <3>1, <3>2
  <2>7. sim' \in [Console -> Sims]
    <3>1. sim' = [sim EXCEPT ![c] = SimStep(sim[c], used'[c][t])]
      BY <1>1 DEF BoundaryRun, t
    <3>2. sim \in [Console -> Sims]
      BY DEF TypeOK
    <3> QED
      BY <2>6, <3>1, <3>2, StepAssumption
  <2>8. phase' \in [Console -> Slots(FramesPerTick)]
    BY <1>1, PhaseType DEF BoundaryRun, TypeOK
  <2>9. /\ ran' \in [Console -> BOOLEAN] /\ stall' \in [Console -> 0..StallMax]
        /\ UNCHANGED <<ring, rwat, mode, wireVars>>
    <3>1. ran \in [Console -> BOOLEAN] /\ stall \in [Console -> 0..StallMax]
      BY DEF TypeOK
    <3>2. /\ ran' = [ran EXCEPT ![c] = TRUE] /\ stall' = [stall EXCEPT ![c] = 0]
          /\ UNCHANGED <<ring, rwat, mode, wireVars>>
      BY <1>1 DEF BoundaryRun
    <3>3. 0 \in 0..StallMax
      BY SizeFacts
    <3> QED
      BY <3>1, <3>2, <3>3
  <2> QED
    BY <2>2, <2>6, <2>7, <2>8, <2>9 DEF TypeOK, wireVars
<1>2. CASE BoundaryStall(c)
  <2>1. AtBoundary(c) /\ Commit(c)
    BY <1>2 DEF BoundaryStall
  <2>2. stall' \in [Console -> 0..StallMax] /\ sim' \in [Console -> Sims]
    BY SMTT(30), <1>2, SizeFacts DEF BoundaryStall, TypeOK, StallAfter, FrozenSim
  <2>3. ran' \in [Console -> BOOLEAN] /\ UNCHANGED <<phase, ring, rwat, mode, used, wireVars>>
    BY <1>2 DEF BoundaryStall, TypeOK
  <2> QED
    BY <2>1, <2>2, <2>3, CommitType DEF TypeOK, wireVars
<1>3. CASE BoundaryGone(c)
  <2>1. AtBoundary(c) /\ Commit(c)
    BY <1>3 DEF BoundaryGone
  <2>2. /\ ran' \in [Console -> BOOLEAN] /\ mode' \in [Console -> {"play", "left"}]
        /\ UNCHANGED <<phase, ring, rwat, stall, sim, used, wireVars>>
    BY <1>3 DEF BoundaryGone, TypeOK
  <2> QED
    BY <2>1, <2>2, CommitType DEF TypeOK, wireVars
<1>4. CASE MidTick(c)
  <2>1. phase' \in [Console -> Slots(FramesPerTick)]
    BY <1>4, PhaseType DEF MidTick, TypeOK
  <2> QED
    BY <1>4, <2>1 DEF MidTick, TypeOK, wireVars, history
<1> QED
  BY <1>1, <1>2, <1>3, <1>4 DEF Frame

LEMMA RecordType ==
  ASSUME TypeOK, NEW c \in Console
  PROVE  RecordOf(c) \in Input
<1>1. /\ tick[c] + Delay \in Int /\ crcv[c] \in Sums
      /\ loc[c] \in [Slots(LocSize) -> Byte]
  <2>1. tick \in [Console -> NoTick..MaxTick]
    BY DEF TypeOK
  <2>2. tick[c] \in Int
    BY <2>1, BoundAssumption DEF NoTick
  <2>3. crcv[c] \in Sums /\ loc[c] \in [Slots(LocSize) -> Byte]
    BY DEF TypeOK
  <2> QED
    BY <2>2, <2>3, SizeFacts
<1>2. WindowOf(c, tick[c] + Delay) \in [Slots(Win) -> Byte]
  <2>1. \A j \in Slots(Win) : ((tick[c] + Delay) - j) % LocSize \in Slots(LocSize)
    <3> SUFFICES ASSUME NEW j \in Slots(Win)
                 PROVE  ((tick[c] + Delay) - j) % LocSize \in Slots(LocSize)
      OBVIOUS
    <3>1. (tick[c] + Delay) - j \in Int
      BY <1>1, SizeFacts DEF Slots
    <3> QED
      BY <3>1, SizeFacts, SlotRange
  <2> QED
    BY <1>1, <2>1 DEF WindowOf
<1> QED
  BY <1>1, <1>2 DEF RecordOf, Input

LEMMA InputFrames == Input \subseteq Frames
BY DEF Frames

\* What a forward does to the path it appends to.
LEMMA ForwardType ==
  ASSUME TypeOK, NEW c \in Console, NEW f \in Seq(Frames), Forward(c, f)
  PROVE  /\ link' \in [Console -> Seq(Frames)]
         /\ \A d \in Console : Len(link[d]) <= Len(link'[d])
<1>1. link \in [Console -> Seq(Frames)] /\ Peer(c) \in Console
  BY PeerType DEF TypeOK
<1>2. CASE link' = link
  BY <1>1, <1>2
<1>3. CASE link' = [link EXCEPT ![Peer(c)] = @ \o f]
  <2>1. link[Peer(c)] \o f \in Seq(Frames) /\ Len(link[Peer(c)]) <= Len(link[Peer(c)] \o f)
    BY <1>1
  <2>2. link' \in [Console -> Seq(Frames)]
    BY <1>1, <1>3, <2>1
  <2>3. \A d \in Console : link'[d] = link[d] \/ (link'[d] = link[Peer(c)] \o f /\ d = Peer(c))
    BY <1>1, <1>3
  <2>4. \A d \in Console : Len(link[d]) <= Len(link'[d])
    BY <1>1, <2>1, <2>3
  <2> QED
    BY <2>2, <2>4
<1> QED
  BY <1>2, <1>3 DEF Forward

LEMMA RingType ==
  ASSUME TypeOK, NEW c \in Console, NEW r \in Input
  PROVE  RingWith(c, r) \in [Slots(RingSize) -> Byte]
<1> SUFFICES ASSUME NEW i \in Slots(RingSize)
             PROVE  LET j == (r.stamp - i) % RingSize
                    IN  (IF j < Win THEN r.win[j] ELSE ring[c][i]) \in Byte
  BY DEF RingWith
<1> DEFINE j == (r.stamp - i) % RingSize
<1>1. r.win \in [Slots(Win) -> Byte] /\ ring[c][i] \in Byte /\ r.stamp - i \in Int
  <2>1. r.win \in [Slots(Win) -> Byte] /\ r.stamp \in Int
    BY DEF Input
  <2>2. ring[c][i] \in Byte
    BY DEF TypeOK
  <2>3. i \in Int
    BY SizeFacts DEF Slots
  <2> QED
    BY <2>1, <2>2, <2>3
<1>2. j \in 0..(RingSize - 1)
  BY <1>1, SizeFacts, ModRange
<1>3. j < Win => j \in Slots(Win)
  BY <1>2, SizeFacts DEF Slots
<1> QED
  BY <1>1, <1>3

\* The record the cursor is on.
LEMMA CursorType ==
  ASSUME TypeOK, ShapeInv, NEW c \in Console, nst[c] = "CONS", rdn[c] > 0
  PROVE  /\ rdn[c] \in 1..Len(batch[c]) /\ rdn[c] = Len(batch[c])
         /\ batch[c] \in Seq(Frames) /\ batch[c][rdn[c]] \in Frames
BY DEF TypeOK, ShapeInv, Shape

LEMMA ConsumeType ==
  ASSUME TypeOK, ShapeInv, NEW c \in Console, Consume(c)
  PROVE  TypeOK'
<1> DEFINE r == batch[c][rdn[c]]
<1>1. /\ nst[c] = "CONS" /\ rdn[c] > 0
      /\ nst' = [nst EXCEPT ![c] = "CONS"] /\ rdn' = [rdn EXCEPT ![c] = @ - 1]
      /\ batch' = [batch EXCEPT ![c] = SubSeq(@, 1, rdn[c] - 1)]
      /\ UNCHANGED <<tick, ran, phase, loc, crcv, mode, sim, out, link, faults, history>>
  BY DEF Consume, Step
<1>2. rdn[c] \in 1..Len(batch[c]) /\ batch[c] \in Seq(Frames) /\ r \in Frames
  BY <1>1, CursorType
<1>3. /\ rdn' \in [Console -> Nat] /\ batch' \in [Console -> Seq(Frames)]
      /\ nst' \in [Console -> {"WISS", "WACK", "SISS", "RISS", "CONS"}]
  <2>1. /\ rdn \in [Console -> Nat] /\ batch \in [Console -> Seq(Frames)]
        /\ nst \in [Console -> {"WISS", "WACK", "SISS", "RISS", "CONS"}]
    BY DEF TypeOK
  <2>2. rdn[c] - 1 \in Nat
    BY <1>2
  <2>3. SubSeq(batch[c], 1, rdn[c] - 1) \in Seq(Frames)
    BY <1>2
  <2> QED
    BY <1>1, <2>1, <2>2, <2>3
<1>4. /\ ring' \in [Console -> [Slots(RingSize) -> Byte]]
      /\ rsy' \in [Console -> BOOLEAN] /\ rwat' \in [Console -> Int]
      /\ stall' \in [Console -> 0..StallMax]
  <2>1. CASE /\ r.type = "INPUT"
             /\ ring' = [ring EXCEPT ![c] = RingWith(c, r)]
             /\ rsy' = [rsy EXCEPT ![c] = @ \/ Mismatch(c, r)]
             /\ rwat' = [rwat EXCEPT ![c] = IF Newer(r.stamp, @) THEN r.stamp ELSE @]
             /\ UNCHANGED stall
    <3>1. r \in Input
      BY <1>2, <2>1 DEF Frames, LeftFrame
    <3>2. RingWith(c, r) \in [Slots(RingSize) -> Byte]
      BY <3>1, RingType
    <3>3. r.stamp \in Int
      BY <3>1 DEF Input
    <3>4. rsy' \in [Console -> BOOLEAN]
      BY <2>1 DEF TypeOK, Mismatch
    <3> QED
      BY <2>1, <3>2, <3>3, <3>4 DEF TypeOK
  <2>2. CASE UNCHANGED <<ring, rsy, rwat, stall>>
    BY <2>2 DEF TypeOK
  <2>3. CASE stall' = [stall EXCEPT ![c] = StallMax] /\ UNCHANGED <<ring, rsy, rwat>>
    BY <2>3, SizeFacts DEF TypeOK
  <2> QED
    BY <2>1, <2>2, <2>3 DEF Consume
<1> QED
  BY <1>1, <1>3, <1>4 DEF TypeOK, history

LEMMA TransportType ==
  ASSUME TypeOK, ShapeInv, NEW c \in Console, Transport(c)
  PROVE  TypeOK'
<1> USE DEF gateVars, history
<1>1. CASE WriteIssue(c)
  <2>1. <<RecordOf(c)>> \in Seq(Input)
    BY RecordType
  <2>2. out' \in [Console -> Seq(Input)] /\ nst' \in [Console -> {"WISS", "WACK", "SISS", "RISS", "CONS"}]
    BY <1>1, <2>1 DEF WriteIssue, Step, TypeOK
  <2> QED
    BY <1>1, <2>2 DEF WriteIssue, TypeOK
<1>2. CASE WriteAck(c)
  <2>1. out[c] \in Seq(Frames)
    BY InputFrames DEF TypeOK
  <2>2. link' \in [Console -> Seq(Frames)]
    BY <1>2, <2>1, ForwardType DEF WriteAck
  <2>3. /\ out' \in [Console -> Seq(Input)]
        /\ nst' \in [Console -> {"WISS", "WACK", "SISS", "RISS", "CONS"}]
    <3>1. out' = [out EXCEPT ![c] = <<>>] /\ nst' = [nst EXCEPT ![c] = "SISS"]
      BY <1>2 DEF WriteAck, Step
    <3>2. /\ out \in [Console -> Seq(Input)] /\ <<>> \in Seq(Input)
          /\ nst \in [Console -> {"WISS", "WACK", "SISS", "RISS", "CONS"}]
      BY SMTT(30) DEF TypeOK
    <3> QED
      BY <3>1, <3>2
  <2> QED
    BY <1>2, <2>2, <2>3 DEF WriteAck, TypeOK
<1>3. CASE StatusNone(c)
  BY <1>3 DEF StatusNone, Step, TypeOK
<1>4. ASSUME NEW n \in 1..MaxUnread, StatusSome(c, n) PROVE TypeOK'
  <2>1. n \in Nat
    BY BoundAssumption
  <2>2. /\ rdn' \in [Console -> Nat]
        /\ nst' \in [Console -> {"WISS", "WACK", "SISS", "RISS", "CONS"}]
    BY <1>4, <2>1 DEF StatusSome, Step, TypeOK
  <2> QED
    BY <1>4, <2>2 DEF StatusSome, TypeOK
<1>5. CASE ReadAck(c)
  <2>1. rdn[c] \in Nat /\ rdn[c] <= Len(link[c]) /\ link[c] \in Seq(Frames)
    BY <1>5 DEF ReadAck, Step, ShapeInv, Shape, TypeOK
  <2>2. /\ SubSeq(link[c], 1, rdn[c]) \in Seq(Frames)
        /\ SubSeq(link[c], rdn[c] + 1, Len(link[c])) \in Seq(Frames)
    BY <2>1
  <2>3. /\ batch' \in [Console -> Seq(Frames)] /\ link' \in [Console -> Seq(Frames)]
        /\ nst' \in [Console -> {"WISS", "WACK", "SISS", "RISS", "CONS"}]
    BY <1>5, <2>2 DEF ReadAck, Step, TypeOK
  <2> QED
    BY <1>5, <2>3 DEF ReadAck, TypeOK
<1>6. CASE Consume(c)
  BY <1>6, ConsumeType
<1>7. CASE ConsumeDone(c)
  BY <1>7 DEF ConsumeDone, Step, TypeOK
<1> QED
  BY <1>1, <1>2, <1>3, <1>4, <1>5, <1>6, <1>7 DEF Transport

LEMMA FaultyType ==
  ASSUME TypeOK, ShapeInv, NEW c \in Console, Faulty(c)
  PROVE  TypeOK'
<1> USE DEF gateVars, history
<1>0. (\E k \in {"upset", "damage", "error", "leave"} : Fault(k)) => faults' \in 0..MaxFaults
  BY BoundAssumption DEF Fault, TypeOK
<1>1. CASE WriteFail(c)
  <2>1. out[c] \in Seq(Frames)
    BY InputFrames DEF TypeOK
  <2>2. link' \in [Console -> Seq(Frames)]
    <3>1. CASE link' = link
      BY <3>1 DEF TypeOK
    <3>2. CASE Forward(c, out[c])
      BY <2>1, <3>2, ForwardType
    <3> QED
      BY <1>1, <3>1, <3>2 DEF WriteFail
  <2>3. /\ out' \in [Console -> Seq(Input)] /\ faults' \in 0..MaxFaults
        /\ nst' \in [Console -> {"WISS", "WACK", "SISS", "RISS", "CONS"}]
    <3>1. /\ Fault("error") /\ out' = [out EXCEPT ![c] = <<>>]
          /\ nst' = [nst EXCEPT ![c] = "WISS"]
      BY <1>1 DEF WriteFail, Step
    <3>2. /\ out \in [Console -> Seq(Input)] /\ <<>> \in Seq(Input)
          /\ nst \in [Console -> {"WISS", "WACK", "SISS", "RISS", "CONS"}]
      BY SMTT(30) DEF TypeOK
    <3> QED
      BY <1>0, <3>1, <3>2
  <2> QED
    BY <1>1, <2>2, <2>3 DEF WriteFail, TypeOK
<1>2. CASE StatusFail(c)
  BY <1>0, <1>2 DEF StatusFail, Step, TypeOK
<1>3. CASE ReadFail(c)
  <2>1. rdn[c] \in Nat /\ rdn[c] <= Len(link[c]) /\ link[c] \in Seq(Frames)
    BY <1>3 DEF ReadFail, Step, ShapeInv, Shape, TypeOK
  <2>2. SubSeq(link[c], rdn[c] + 1, Len(link[c])) \in Seq(Frames)
    BY <2>1
  <2>3. link' \in [Console -> Seq(Frames)]
    BY <1>3, <2>2 DEF ReadFail, TypeOK
  <2>4. /\ nst' \in [Console -> {"WISS", "WACK", "SISS", "RISS", "CONS"}]
        /\ faults' \in 0..MaxFaults
    BY <1>0, <1>3 DEF ReadFail, Step, TypeOK
  <2> QED
    BY <1>3, <2>3, <2>4 DEF ReadFail, TypeOK
<1>4. CASE Disturb(c)
  <2>1. PICK s \in Upset(sim[c]) : sim' = [sim EXCEPT ![c] = s]
    BY <1>4 DEF Disturb
  <2>2. sim \in [Console -> Sims] /\ s \in Sims
    BY <2>1, SimAssumption DEF TypeOK
  <2>3. sim' \in [Console -> Sims] /\ faults' \in 0..MaxFaults
    BY <1>0, <1>4, <2>1, <2>2 DEF Disturb
  <2> QED
    BY <1>4, <2>3 DEF Disturb, TypeOK
<1>5. ASSUME NEW i \in 1..MaxUnread, Damage(c, i) PROVE TypeOK'
  <2>1. link[c] \in Seq(Frames) /\ i \in DOMAIN link[c] /\ link[c][i] \in Input
    BY <1>5 DEF Damage, TypeOK, Frames, LeftFrame
  <2>2. 0 \in Slots(Win)
    BY SizeFacts DEF Slots
  <2>3. Spoiled(link[c][i]) \in Frames
    BY <2>1, <2>2, GarbledType, InputFrames DEF Input, Spoiled
  <2>4. [link[c] EXCEPT ![i] = Spoiled(@)] \in Seq(Frames)
    BY <2>1, <2>3
  <2>5. link' \in [Console -> Seq(Frames)] /\ faults' \in 0..MaxFaults
    BY <1>0, <1>5, <2>4 DEF Damage, TypeOK
  <2> QED
    BY <1>5, <2>5 DEF Damage, TypeOK
<1>6. ASSUME NEW seen \in BOOLEAN, Leave(c, seen) PROVE TypeOK'
  <2>1. <<LeftFrame>> \in Seq(Frames)
    BY LeftType
  <2>2. link' \in [Console -> Seq(Frames)]
    <3>1. CASE link' = link
      BY <3>1 DEF TypeOK
    <3>2. CASE Forward(c, <<LeftFrame>>)
      BY <2>1, <3>2, ForwardType
    <3> QED
      BY <1>6, <3>1, <3>2 DEF Leave
  <2>3. mode' \in [Console -> {"play", "left"}] /\ faults' \in 0..MaxFaults
    BY <1>0, <1>6 DEF Leave, TypeOK
  <2> QED
    BY <1>6, <2>2, <2>3 DEF Leave, TypeOK
<1> QED
  BY <1>1, <1>2, <1>3, <1>4, <1>5, <1>6 DEF Faulty

\* Nothing moves: the cells and queues the invariants speak of.
LEMMA StutterType == ASSUME TypeOK, UNCHANGED vars PROVE TypeOK'
BY DEF TypeOK, vars, gateVars, wireVars, history

-----------------------------------------------------------------------------
(* Shape *)

LEMMA InitShape == Init => ShapeInv
BY DEF Init, ShapeInv, Shape, NoTick

LEMMA FrameShape ==
  ASSUME TypeOK, ShapeInv, NEW c \in Console, Frame(c)
  PROVE  ShapeInv'
<1>1. UNCHANGED <<nst, out, rdn, batch, link>>
  BY DEF Frame, BoundaryRun, BoundaryStall, BoundaryGone, MidTick, wireVars
<1>2. \A d \in Console : samples'[d] = tick'[d] + 1 /\ (tick'[d] = NoTick => ran'[d])
  <2>1. CASE MidTick(c)
    BY <2>1 DEF MidTick, history, ShapeInv, Shape
  <2>2. CASE BoundaryRun(c) \/ BoundaryStall(c) \/ BoundaryGone(c)
    <3>1. /\ AtBoundary(c) /\ Commit(c)
          /\ \A d \in Console : d # c => ran'[d] = ran[d]
      BY <2>2 DEF BoundaryRun, BoundaryStall, BoundaryGone, TypeOK
    <3>2. tick' = [tick EXCEPT ![c] = TickNow(c)] /\ TickNow(c) \in 0..MaxTick
      BY <3>1, CommitType
    <3>3. samples' = [samples EXCEPT ![c] = IF ran[c] THEN @ + 1 ELSE @]
      BY <3>1 DEF Commit, CaptureDue, TypeOK
    <3>4. /\ tick \in [Console -> Int] /\ samples \in [Console -> Int]
          /\ TickNow(c) # NoTick
          /\ TickNow(c) = IF ran[c] THEN tick[c] + 1 ELSE tick[c]
      BY <3>2, BoundAssumption DEF TypeOK, NoTick, TickNow
    <3>5. \A d \in Console : samples[d] = tick[d] + 1 /\ (tick[d] = NoTick => ran[d])
      BY DEF ShapeInv, Shape
    <3> QED
      BY <3>1, <3>2, <3>3, <3>4, <3>5
  <2> QED
    BY <2>1, <2>2 DEF Frame
<1> QED
  BY <1>1, <1>2 DEF ShapeInv, Shape

\* Only the console that steps, and the path to its peer, change in a step of
\* the transport or in a fault.
LEMMA ShapeStep ==
  ASSUME TypeOK, ShapeInv, NEW c \in Console, Shape(c)',
         UNCHANGED <<samples, tick, ran>>,
         \A d \in Console \ {c} :
           /\ nst'[d] = nst[d] /\ batch'[d] = batch[d] /\ rdn'[d] = rdn[d] /\ out'[d] = out[d]
           /\ Len(link[d]) <= Len(link'[d]),
         link' \in [Console -> Seq(Frames)]
  PROVE  ShapeInv'
<1> SUFFICES ASSUME NEW d \in Console, d # c PROVE Shape(d)'
  BY DEF ShapeInv
<1>1. Shape(d)
  BY DEF ShapeInv
<1>2. Len(link[d]) \in Nat /\ Len(link'[d]) \in Nat /\ rdn[d] \in Nat
  <2>1. link[d] \in Seq(Frames) /\ link'[d] \in Seq(Frames) /\ rdn[d] \in Nat
    BY DEF TypeOK
  <2> QED
    BY <2>1
<1> QED
  BY <1>1, <1>2 DEF Shape

LEMMA TransportShape ==
  ASSUME TypeOK, ShapeInv, NEW c \in Console, Transport(c)
  PROVE  ShapeInv'
<1>0. UNCHANGED <<samples, tick, ran>>
  BY DEF Transport, WriteIssue, WriteAck, StatusNone, StatusSome, ReadAck, Consume,
         ConsumeDone, gateVars, history
<1>1. TypeOK' /\ link' \in [Console -> Seq(Frames)]
  BY TransportType DEF TypeOK
<1>2. /\ DOMAIN nst = Console /\ DOMAIN out = Console /\ DOMAIN rdn = Console
      /\ DOMAIN batch = Console /\ DOMAIN link = Console
  BY DEF TypeOK
<1>3. \A d \in Console : link[d] \in Seq(Frames) /\ Len(link[d]) \in Nat /\ rdn[d] \in Nat
  BY DEF TypeOK
<1>4. Shape(c)
  BY DEF ShapeInv
<1> USE <1>0, <1>2
<1>5. CASE WriteIssue(c)
  <2>1. Shape(c)'
    BY <1>4, <1>5 DEF WriteIssue, Step, Shape
  <2> QED
    BY <1>1, <1>3, <1>5, <2>1, ShapeStep DEF WriteIssue, Step
<1>6. CASE WriteAck(c)
  <2>1. out[c] \in Seq(Frames)
    BY InputFrames DEF TypeOK
  <2>2. \A d \in Console : Len(link[d]) <= Len(link'[d])
    BY <1>6, <2>1, ForwardType DEF WriteAck
  <2>3. Shape(c)'
    BY <1>4, <1>6 DEF WriteAck, Step, Shape
  <2> QED
    BY <1>1, <1>6, <2>2, <2>3, ShapeStep DEF WriteAck, Step
<1>7. CASE StatusNone(c)
  <2>1. Shape(c)'
    BY <1>4, <1>7 DEF StatusNone, Step, Shape
  <2> QED
    BY <1>1, <1>3, <1>7, <2>1, ShapeStep DEF StatusNone, Step
<1>8. ASSUME NEW n \in 1..MaxUnread, StatusSome(c, n) PROVE ShapeInv'
  <2>1. Shape(c)'
    BY <1>4, <1>8 DEF StatusSome, Step, Shape
  <2> QED
    BY <1>1, <1>3, <1>8, <2>1, ShapeStep DEF StatusSome, Step
<1>9. CASE ReadAck(c)
  <2>1. rdn[c] <= Len(link[c])
    BY <1>4, <1>9 DEF ReadAck, Step, Shape
  <2>2. Len(SubSeq(link[c], 1, rdn[c])) = rdn[c]
    BY <1>3, <2>1
  <2>3. Shape(c)'
    BY <1>4, <1>9, <2>2 DEF ReadAck, Step, Shape
  <2>4. \A d \in Console \ {c} :
          /\ nst'[d] = nst[d] /\ batch'[d] = batch[d] /\ rdn'[d] = rdn[d] /\ out'[d] = out[d]
          /\ link'[d] = link[d]
    BY <1>9 DEF ReadAck, Step
  <2> QED
    BY <1>1, <1>3, <2>3, <2>4, ShapeStep
<1>10. CASE Consume(c)
  <2>1. /\ nst' = [nst EXCEPT ![c] = "CONS"] /\ nst[c] = "CONS" /\ rdn[c] > 0
        /\ batch' = [batch EXCEPT ![c] = SubSeq(@, 1, rdn[c] - 1)]
        /\ rdn' = [rdn EXCEPT ![c] = @ - 1]
        /\ UNCHANGED <<out, link>>
    BY <1>10 DEF Consume, Step
  <2>2. /\ rdn[c] \in 1..Len(batch[c]) /\ rdn[c] = Len(batch[c]) /\ batch[c] \in Seq(Frames)
    BY <2>1, CursorType
  <2>3. Len(SubSeq(batch[c], 1, rdn[c] - 1)) = rdn[c] - 1
    BY <2>2
  <2>4. Shape(c)'
    BY <1>4, <2>1, <2>3 DEF Shape
  <2> QED
    BY <1>1, <1>3, <2>1, <2>4, ShapeStep
<1>11. CASE ConsumeDone(c)
  <2>1. batch[c] = <<>>
    <3>1. Len(batch[c]) = 0 /\ batch[c] \in Seq(Frames)
      BY <1>4, <1>11 DEF ConsumeDone, Step, Shape, TypeOK
    <3> QED
      BY <3>1
  <2>2. Shape(c)'
    BY <1>4, <1>11, <2>1 DEF ConsumeDone, Step, Shape
  <2> QED
    BY <1>1, <1>3, <1>11, <2>2, ShapeStep DEF ConsumeDone, Step
<1> QED
  BY <1>5, <1>6, <1>7, <1>8, <1>9, <1>10, <1>11 DEF Transport

LEMMA FaultyShape ==
  ASSUME TypeOK, ShapeInv, NEW c \in Console, Faulty(c)
  PROVE  ShapeInv'
<1>0. /\ UNCHANGED <<samples, tick, ran, rdn, batch>>
      /\ \A d \in Console \ {c} : nst'[d] = nst[d] /\ out'[d] = out[d]
  BY DEF Faulty, WriteFail, StatusFail, ReadFail, Disturb, Damage, Leave, Step,
         gateVars, history, TypeOK
<1>1. TypeOK' /\ link' \in [Console -> Seq(Frames)]
  BY FaultyType DEF TypeOK
<1>2. /\ DOMAIN nst = Console /\ DOMAIN out = Console /\ DOMAIN link = Console
  BY DEF TypeOK
<1>3. \A d \in Console : link[d] \in Seq(Frames) /\ Len(link[d]) \in Nat /\ rdn[d] \in Nat
  BY DEF TypeOK
<1>4. Shape(c)
  BY DEF ShapeInv
<1> USE <1>0, <1>2
<1>5. CASE WriteFail(c)
  <2>1. out[c] \in Seq(Frames)
    BY InputFrames DEF TypeOK
  <2>2. \A d \in Console : Len(link[d]) <= Len(link'[d])
    <3>1. CASE link' = link
      BY <1>3, <3>1
    <3>2. CASE Forward(c, out[c])
      BY <2>1, <3>2, ForwardType
    <3> QED
      BY <1>5, <3>1, <3>2 DEF WriteFail
  <2>3. Shape(c)'
    BY <1>4, <1>5 DEF WriteFail, Step, Shape
  <2> QED
    BY <1>1, <2>2, <2>3, ShapeStep
<1>6. CASE StatusFail(c)
  <2>1. Shape(c)'
    BY <1>4, <1>6 DEF StatusFail, Step, Shape
  <2> QED
    BY <1>1, <1>3, <1>6, <2>1, ShapeStep DEF StatusFail
<1>7. CASE ReadFail(c)
  <2>1. Shape(c)'
    BY <1>4, <1>7 DEF ReadFail, Step, Shape
  <2>2. \A d \in Console \ {c} : link'[d] = link[d]
    BY <1>7 DEF ReadFail
  <2> QED
    BY <1>1, <1>3, <2>1, <2>2, ShapeStep
<1>8. CASE Disturb(c)
  <2>1. Shape(c)'
    BY <1>4, <1>8 DEF Disturb, Shape
  <2> QED
    BY <1>1, <1>3, <1>8, <2>1, ShapeStep DEF Disturb
<1>9. ASSUME NEW i \in 1..MaxUnread, Damage(c, i) PROVE ShapeInv'
  <2>1. \A d \in Console : Len(link'[d]) = Len(link[d])
    <3> DEFINE s == [link[c] EXCEPT ![i] = Spoiled(@)]
    <3>1. link' = [link EXCEPT ![c] = s]
      BY <1>9 DEF Damage
    <3>2. Len(s) = Len(link[c])
      BY <1>3
    <3> HIDE DEF s
    <3> QED
      BY <3>1, <3>2
  <2>2. UNCHANGED <<nst, out>>
    BY <1>9 DEF Damage
  <2>3. Shape(c)'
    BY <1>4, <2>1, <2>2 DEF Shape
  <2> QED
    BY <1>1, <1>3, <2>1, <2>3, ShapeStep
<1>10. ASSUME NEW seen \in BOOLEAN, Leave(c, seen) PROVE ShapeInv'
  <2>1. <<LeftFrame>> \in Seq(Frames)
    BY LeftType
  <2>2. \A d \in Console : Len(link[d]) <= Len(link'[d])
    <3>1. CASE link' = link
      BY <1>3, <3>1
    <3>2. CASE Forward(c, <<LeftFrame>>)
      BY <2>1, <3>2, ForwardType
    <3> QED
      BY <1>10, <3>1, <3>2 DEF Leave
  <2>3. UNCHANGED <<nst, out>>
    BY <1>10 DEF Leave
  <2>4. Len(link[c]) \in Nat /\ Len(link'[c]) \in Nat /\ rdn[c] \in Nat
    BY <1>1, <1>3
  <2>5. Shape(c)'
    BY <1>4, <2>2, <2>3, <2>4 DEF Shape
  <2> QED
    BY <1>1, <2>2, <2>5, ShapeStep
<1> QED
  BY <1>5, <1>6, <1>7, <1>8, <1>9, <1>10 DEF Faulty

LEMMA StutterShape == ASSUME ShapeInv, UNCHANGED vars PROVE ShapeInv'
BY DEF ShapeInv, Shape, vars, gateVars, wireVars, history

LEMMA TypeShapeStep ==
  ASSUME TypeOK, ShapeInv, [Next]_vars
  PROVE  TypeOK' /\ ShapeInv'
<1>1. ASSUME NEW c \in Console, Frame(c) PROVE TypeOK' /\ ShapeInv'
  BY <1>1, FrameType, FrameShape
<1>2. ASSUME NEW c \in Console, Transport(c) PROVE TypeOK' /\ ShapeInv'
  BY <1>2, TransportType, TransportShape
<1>3. ASSUME NEW c \in Console, Faulty(c) PROVE TypeOK' /\ ShapeInv'
  BY <1>3, FaultyType, FaultyShape
<1>4. CASE UNCHANGED vars
  BY <1>4, StutterType, StutterShape
<1> QED
  BY <1>1, <1>2, <1>3, <1>4 DEF Next

\* Every cell, queue and record of the match keeps to its range, whatever the
\* sizes of the rings, the delay, the window and the number of faults.
THEOREM TypeCorrect == Spec => []TypeOK
<1>1. Init => TypeOK /\ ShapeInv
  BY InitType, InitShape
<1>2. TypeOK /\ ShapeInv /\ [Next]_vars => (TypeOK /\ ShapeInv)'
  BY TypeShapeStep
<1> QED
  BY <1>1, <1>2, PTL DEF Spec

-----------------------------------------------------------------------------
(* Records of a sequence of frames *)

LEMMA ModSmall ==
  ASSUME NEW a \in Int, NEW n \in Nat \ {0}, 0 <= a, a < n
  PROVE  a % n = a
OBVIOUS

LEMMA ModNeg ==
  ASSUME NEW a \in Int, NEW n \in Nat \ {0}, -n <= a, a < 0
  PROVE  a % n = a + n
OBVIOUS

LEMMA RecordsIn ==
  ASSUME NEW s \in Seq(Frames)
  PROVE  Records(s) \subseteq Input /\ \A r \in Records(s) : r.stamp \in Int
<1> SUFFICES ASSUME NEW i \in DOMAIN s, s[i].type = "INPUT"
             PROVE  s[i] \in Input /\ s[i].stamp \in Int
  BY DEF Records
<1>1. s[i] \in Frames
  OBVIOUS
<1> QED
  BY <1>1 DEF Frames, LeftFrame, Input

LEMMA RecordsEmpty == Records(<<>>) = {} /\ Ordered(<<>>)
BY DEF Records, Ordered

LEMMA RecordsOne ==
  ASSUME NEW f
  PROVE  /\ Records(<<f>>) \subseteq {f} /\ Ordered(<<f>>)
         /\ f.type # "INPUT" => Records(<<f>>) = {}
BY DEF Records, Ordered

LEMMA RecordsSub ==
  ASSUME NEW s \in Seq(Frames), NEW m \in 1..(Len(s) + 1), NEW n \in 0..Len(s)
  PROVE  /\ Records(SubSeq(s, m, n)) \subseteq Records(s)
         /\ Ordered(s) => Ordered(SubSeq(s, m, n))
<1> DEFINE u == SubSeq(s, m, n)
<1>1. \A i \in DOMAIN u : u[i] = s[i + m - 1] /\ i + m - 1 \in DOMAIN s /\ i \in Int
  OBVIOUS
<1>2. Records(u) \subseteq Records(s)
  BY <1>1 DEF Records
<1>3. ASSUME Ordered(s), NEW i \in DOMAIN u, NEW j \in DOMAIN u, i < j,
             u[i].type = "INPUT", u[j].type = "INPUT"
      PROVE  u[i].stamp <= u[j].stamp
  <2>1. i + m - 1 < j + m - 1
    BY <1>1, <1>3
  <2> HIDE DEF u
  <2> QED
    BY <1>1, <1>3, <2>1 DEF Ordered
<1> HIDE DEF u
<1>4. Ordered(s) => Ordered(u)
  BY <1>3 DEF Ordered
<1> QED
  BY <1>2, <1>4 DEF u

LEMMA RecordsSplit ==
  ASSUME NEW s \in Seq(Frames), NEW n \in 0..Len(s), Ordered(s)
  PROVE  Below(Records(SubSeq(s, 1, n)), Records(SubSeq(s, n + 1, Len(s))))
<1> DEFINE u == SubSeq(s, 1, n)
           v == SubSeq(s, n + 1, Len(s))
<1>1. \A i \in DOMAIN u : u[i] = s[i] /\ i \in DOMAIN s /\ i <= n /\ i \in Int
  OBVIOUS
<1>2. \A j \in DOMAIN v : v[j] = s[j + n] /\ j + n \in DOMAIN s /\ j + n > n /\ j + n \in Int
  OBVIOUS
<1> HIDE DEF u, v
<1>3. ASSUME NEW i \in DOMAIN u, NEW j \in DOMAIN v, u[i].type = "INPUT", v[j].type = "INPUT"
      PROVE  u[i].stamp <= v[j].stamp
  <2>1. i < j + n
    BY <1>1, <1>2
  <2> QED
    BY <1>1, <1>2, <1>3, <2>1 DEF Ordered
<1>4. Below(Records(u), Records(v))
  BY <1>3 DEF Below, Records
<1> QED
  BY <1>4 DEF u, v

LEMMA RecordsCat ==
  ASSUME NEW s \in Seq(Frames), NEW t \in Seq(Frames)
  PROVE  /\ Records(s \o t) \subseteq Records(s) \cup Records(t)
         /\ Ordered(s) /\ Ordered(t) /\ Below(Records(s), Records(t)) => Ordered(s \o t)
<1> DEFINE u == s \o t
<1>1. \A i \in DOMAIN u :
        /\ i \in Int
        /\ \/ i <= Len(s) /\ i \in DOMAIN s /\ u[i] = s[i]
           \/ i > Len(s) /\ i - Len(s) \in DOMAIN t /\ u[i] = t[i - Len(s)]
  OBVIOUS
<1>2. Len(s) \in Int
  OBVIOUS
<1> HIDE DEF u
<1>3. Records(u) \subseteq Records(s) \cup Records(t)
  BY <1>1 DEF Records
<1>4. ASSUME Ordered(s), Ordered(t), Below(Records(s), Records(t)),
             NEW i \in DOMAIN u, NEW j \in DOMAIN u, i < j,
             u[i].type = "INPUT", u[j].type = "INPUT"
      PROVE  u[i].stamp <= u[j].stamp
  <2>1. CASE i <= Len(s) /\ j <= Len(s)
    <3>1. i \in DOMAIN s /\ j \in DOMAIN s /\ u[i] = s[i] /\ u[j] = s[j]
      BY <1>1, <1>2, <2>1
    <3> QED
      BY <1>4, <3>1 DEF Ordered
  <2>2. CASE i <= Len(s) /\ j > Len(s)
    <3>1. i \in DOMAIN s /\ j - Len(s) \in DOMAIN t /\ u[i] = s[i] /\ u[j] = t[j - Len(s)]
      BY <1>1, <1>2, <2>2
    <3>2. u[i] \in Records(s) /\ u[j] \in Records(t)
      BY <1>4, <3>1 DEF Records
    <3> QED
      BY <1>4, <3>2 DEF Below
  <2>3. CASE i > Len(s)
    <3>1. /\ i - Len(s) \in DOMAIN t /\ j - Len(s) \in DOMAIN t
          /\ u[i] = t[i - Len(s)] /\ u[j] = t[j - Len(s)]
          /\ i - Len(s) < j - Len(s)
      BY <1>1, <1>2, <1>4, <2>3
    <3> QED
      BY <1>4, <3>1 DEF Ordered
  <2> QED
    BY <1>1, <1>2, <2>1, <2>2, <2>3
<1>5. Ordered(s) /\ Ordered(t) /\ Below(Records(s), Records(t)) => Ordered(u)
  BY <1>4 DEF Ordered
<1> QED
  BY <1>3, <1>5 DEF u

LEMMA RecordsSpoiled ==
  ASSUME NEW s \in Seq(Frames), NEW i \in DOMAIN s, s[i].type = "INPUT"
  PROVE  LET u == [s EXCEPT ![i] = Spoiled(@)]
         IN  /\ \A q \in Records(u) : \E r \in Records(s) : q.stamp = r.stamp /\ (q.good => q = r)
             /\ Ordered(s) => Ordered(u)
<1> DEFINE u == [s EXCEPT ![i] = Spoiled(@)]
<1>1. s[i] \in Input
  BY RecordsIn DEF Records
<1>2. Spoiled(s[i]).stamp = s[i].stamp /\ Spoiled(s[i]).type = s[i].type /\ ~Spoiled(s[i]).good
  BY <1>1 DEF Spoiled, Input
<1>3. /\ DOMAIN u = DOMAIN s
      /\ \A j \in DOMAIN s : u[j].stamp = s[j].stamp /\ u[j].type = s[j].type
      /\ \A j \in DOMAIN s : u[j].good => u[j] = s[j]
  BY <1>2
<1> HIDE DEF u
<1>4. \A q \in Records(u) : \E r \in Records(s) : q.stamp = r.stamp /\ (q.good => q = r)
  BY <1>3 DEF Records
<1>5. Ordered(s) => Ordered(u)
  BY <1>3 DEF Ordered
<1> QED
  BY <1>4, <1>5 DEF u

-----------------------------------------------------------------------------
(* The clocks *)

\* Within half a turn of the counter an eight-bit difference is the difference.
LEMMA SignedExact ==
  ASSUME NEW x \in Int, -(2 * Delay + 3) <= x, x <= 2 * Delay + 3
  PROVE  Signed(x) = x
<1>1. 2 * Delay + 3 < TickMod \div 2 /\ ~(TickMod - (2 * Delay + 3) < TickMod \div 2)
  BY SizeFacts
<1>2. CASE x >= 0
  <2>1. x % TickMod = x
    BY <1>2, SizeFacts, ModSmall
  <2> QED
    BY <1>1, <2>1, SizeFacts DEF Signed
<1>3. CASE x < 0
  <2>1. x % TickMod = x + TickMod
    BY <1>3, SizeFacts, ModNeg
  <2> QED
    BY <1>1, <1>3, <2>1, SizeFacts DEF Signed
<1> QED
  BY <1>2, <1>3

\* How far the peer's newest stamp can be from what c has, and from c's tick.
LEMMA Skew ==
  ASSUME TypeOK, ClockInv, NEW c \in Console
  PROVE  LET p == Peer(c)
         IN  /\ tick[c] \in Int /\ tick[p] \in Int /\ rwat[c] \in Int
             /\ tick[c] <= tick[p] + Delay + 1
             /\ (tick[p] + Delay) - rwat[c] <= 2 * Delay + 3
             /\ rwat[c] <= tick[p] + Delay
             /\ rwat[c] - TickNow(c) <= 2 * Delay + 1
             /\ TickNow(c) - rwat[c] <= 2 + Delay
<1> DEFINE p == Peer(c)
<1>1. p \in Console /\ Peer(p) = c
  BY PeerType
<1>2. /\ tick[c] \in Int /\ tick[p] \in Int /\ rwat[c] \in Int /\ rwat[p] \in Int
      /\ tick[c] >= NoTick /\ tick[p] >= NoTick
  BY <1>1, BoundAssumption DEF TypeOK, NoTick
<1>3. /\ rwat[c] = NoTick - 1 \/ (Delay <= rwat[c] /\ rwat[c] <= tick[p] + Delay)
      /\ rwat[p] = NoTick - 1 \/ (Delay <= rwat[p] /\ rwat[p] <= tick[c] + Delay)
  BY <1>1, <1>2, SizeFacts DEF ClockInv, Path, Stamped, Stamps
<1>4. /\ tick[c] > 0 => tick[c] <= rwat[c] + 1
      /\ tick[p] > 0 => tick[p] <= rwat[p] + 1
      /\ ran[c] /\ tick[c] # NoTick => tick[c] <= rwat[c]
  BY <1>1 DEF ClockInv, Gate
<1>5. TickNow(c) \in {tick[c], tick[c] + 1} /\ (~ran[c] => TickNow(c) = tick[c])
  BY DEF TickNow
<1> HIDE DEF p
<1>6. /\ tick[c] <= tick[p] + Delay + 1
      /\ (tick[p] + Delay) - rwat[c] <= 2 * Delay + 3
      /\ rwat[c] <= tick[p] + Delay
  BY <1>2, <1>3, <1>4, SizeFacts DEF NoTick
<1>7. tick[p] <= tick[c] + Delay + 1
  BY <1>2, <1>3, <1>4, SizeFacts DEF NoTick
<1>8. rwat[c] - TickNow(c) <= 2 * Delay + 1
  BY <1>2, <1>5, <1>6, <1>7, SizeFacts
<1>9. TickNow(c) - rwat[c] <= 2 + Delay
  BY <1>2, <1>3, <1>4, <1>5, SizeFacts DEF NoTick
<1> QED
  BY <1>2, <1>6, <1>8, <1>9 DEF p

LEMMA ArrivedExact ==
  ASSUME TypeOK, ClockInv, NEW c \in Console
  PROVE  Arrived(c) <=> rwat[c] >= TickNow(c)
<1>1. /\ rwat[c] - TickNow(c) \in Int
      /\ rwat[c] - TickNow(c) <= 2 * Delay + 3
      /\ -(2 * Delay + 3) <= rwat[c] - TickNow(c)
  BY Skew, SizeFacts DEF TickNow
<1>2. rwat[c] \in Int /\ TickNow(c) \in Int
  BY Skew DEF TickNow
<1> QED
  BY <1>1, <1>2, SignedExact DEF Arrived

LEMMA NewerExact ==
  ASSUME TypeOK, ClockInv, NEW c \in Console,
         NEW r \in Records(batch[c]) \cup Records(link[c]) \cup Records(out[Peer(c)])
  PROVE  Newer(r.stamp, rwat[c]) <=> r.stamp >= rwat[c]
<1>1. /\ rwat[c] \in Int /\ tick[Peer(c)] \in Int
      /\ (tick[Peer(c)] + Delay) - rwat[c] <= 2 * Delay + 3
  BY Skew
<1>2. r.stamp \in Int /\ r.stamp <= tick[Peer(c)] + Delay
  BY <1>1, SizeFacts DEF ClockInv, Path, Stamped, Stamps
<1>3. r.stamp - rwat[c] >= -(2 * Delay + 3)
  <2> DEFINE s == r.stamp
             w == rwat[c]
  <2>1. w <= s \/ w - (2 * Delay + 3) <= s
    <3>1. InOrder(c) /\ Cursor(c)
      BY DEF ClockInv, Path
    <3> QED
      BY <3>1 DEF InOrder, Cursor
  <2>2. s \in Int /\ w \in Int
    BY <1>1, <1>2
  <2> HIDE DEF s, w
  <2>3. s - w >= -(2 * Delay + 3)
    BY <2>1, <2>2, SizeFacts
  <2> QED
    BY <2>3 DEF s, w
<1>4. Signed(r.stamp - rwat[c]) = r.stamp - rwat[c]
  BY <1>1, <1>2, <1>3, SizeFacts, SignedExact
<1> QED
  BY <1>1, <1>2, <1>4 DEF Newer

-----------------------------------------------------------------------------
(* Steps *)

LEMMA InitClock == Init => ClockInv
<1> SUFFICES ASSUME Init, NEW c \in Console PROVE Gate(c) /\ Path(c)
  BY DEF ClockInv
<1>1. /\ tick[c] = NoTick /\ rwat[c] = NoTick - 1
      /\ Records(batch[c]) = {} /\ Records(link[c]) = {} /\ Records(out[Peer(c)]) = {}
      /\ Ordered(batch[c]) /\ Ordered(link[c])
  BY PeerType, RecordsEmpty DEF Init
<1>2. NoTick = -1
  BY DEF NoTick
<1> QED
  BY <1>1, <1>2 DEF Gate, Path, Stamped, InOrder, Cursor, Below

\* The stamps of S are among those of T.
Among(S, T) == \A q \in S : \E r \in T : q.stamp = r.stamp

\* A path on which nothing new is put keeps its invariant.
LEMMA PathKept ==
  ASSUME NEW c \in Console, Path(c),
         Stamps(c) \subseteq Stamps(c)', rwat'[c] = rwat[c],
         Among(Records(batch[c])', Records(batch[c])),
         Among((Records(link[c]) \cup Records(out[Peer(c)]))',
               Records(link[c]) \cup Records(out[Peer(c)])),
         Ordered(batch[c])', Ordered(link[c])',
         Below(Records(link[c]), Records(out[Peer(c)]))'
  PROVE  Path(c)'
<1>1. Stamped(c)'
  BY DEF Path, Stamped, Among
<1>2. InOrder(c)'
  BY DEF Path, InOrder, Below, Among
<1>3. Cursor(c)'
  BY DEF Path, Cursor, Among
<1> QED
  BY <1>1, <1>2, <1>3 DEF Path

LEMMA PathSame ==
  ASSUME NEW c \in Console, Path(c),
         Stamps(c) \subseteq Stamps(c)', rwat'[c] = rwat[c],
         batch'[c] = batch[c], link'[c] = link[c], out'[Peer(c)] = out[Peer(c)]
  PROVE  Path(c)'
<1>1. Stamped(c)'
  BY DEF Path, Stamped
<1>2. InOrder(c)'
  BY DEF Path, InOrder
<1>3. Cursor(c)'
  BY DEF Path, Cursor
<1> QED
  BY <1>1, <1>2, <1>3 DEF Path

LEMMA FrameClock ==
  ASSUME TypeOK, ShapeInv, ClockInv, NEW c \in Console, Frame(c)
  PROVE  ClockInv'
<1>1. UNCHANGED <<rwat, batch, link, out>>
  BY DEF Frame, BoundaryRun, BoundaryStall, BoundaryGone, MidTick, wireVars
<1>2. \A d \in Console : tick[d] \in Int /\ tick'[d] \in Int /\ rwat[d] \in Int
  <2>1. tick \in [Console -> NoTick..MaxTick] /\ tick' \in [Console -> NoTick..MaxTick]
    BY FrameType DEF TypeOK
  <2> QED
    BY <2>1, BoundAssumption DEF TypeOK, NoTick
<1>3. (\A d \in Console : tick[d] <= tick'[d]) /\ \A d \in Console : Gate(d)'
  <2>1. CASE MidTick(c)
    BY <2>1, <1>1, <1>2 DEF MidTick, ClockInv, Gate
  <2>2. CASE BoundaryRun(c) \/ BoundaryStall(c) \/ BoundaryGone(c)
    <3>1. /\ AtBoundary(c) /\ Commit(c)
          /\ \/ Arrived(c) /\ ran' = [ran EXCEPT ![c] = TRUE]
             \/ ran' = [ran EXCEPT ![c] = FALSE]
      BY <2>2 DEF BoundaryRun, BoundaryStall, BoundaryGone
    <3>2. tick' = [tick EXCEPT ![c] = TickNow(c)] /\ TickNow(c) \in 0..MaxTick
      BY <3>1, CommitType
    <3>3. /\ tick'[c] = TickNow(c) /\ (ran'[c] => Arrived(c))
          /\ \A d \in Console : d # c => tick'[d] = tick[d] /\ ran'[d] = ran[d]
      BY <3>1, <3>2 DEF TypeOK
    <3>4. /\ TickNow(c) = IF ran[c] THEN tick[c] + 1 ELSE tick[c]
          /\ tick[c] = NoTick => ran[c]
      BY DEF TickNow, ShapeInv, Shape
    <3>5. Gate(c)'
      <4>1. ran'[c] => TickNow(c) <= rwat[c]
        BY <1>2, <3>2, <3>3, ArrivedExact, BoundAssumption
      <4>2. TickNow(c) > 0 => TickNow(c) <= rwat[c] + 1
        BY <1>2, <3>4 DEF ClockInv, Gate, NoTick
      <4> QED
        BY <1>1, <3>3, <4>1, <4>2 DEF Gate
    <3>6. \A d \in Console : d # c => Gate(d)'
      BY <1>1, <3>3 DEF ClockInv, Gate
    <3> QED
      BY <1>2, <3>3, <3>4, <3>5, <3>6
  <2> QED
    BY <2>1, <2>2 DEF Frame
<1>4. ASSUME NEW d \in Console PROVE Path(d)'
  <2>1. Stamps(d) \subseteq Stamps(d)'
    BY <1>2, <1>3, PeerType, SizeFacts DEF Stamps
  <2> QED
    BY <1>1, <2>1, PathSame DEF ClockInv
<1> QED
  BY <1>3, <1>4 DEF ClockInv

\* A step that leaves the gates' clocks alone.
LEMMA ClockStep ==
  ASSUME ClockInv, UNCHANGED <<tick, ran>>, NEW c \in Console,
         rwat[c] \in Int /\ rwat'[c] \in Int /\ rwat[c] <= rwat'[c],
         tick[c] \in Int, rwat'[Peer(c)] = rwat[Peer(c)],
         Path(c)', Path(Peer(c))'
  PROVE  ClockInv'
<1>1. Gate(c)'
  BY DEF ClockInv, Gate
<1>2. Gate(Peer(c))'
  BY PeerType DEF ClockInv, Gate
<1> QED
  BY <1>1, <1>2, PeerType DEF ClockInv

LEMMA OrderedShort ==
  ASSUME NEW s \in Seq(Frames), Len(s) <= 1
  PROVE  Ordered(s)
<1>1. \A i, j \in DOMAIN s : ~(i < j)
  OBVIOUS
<1> QED
  BY <1>1 DEF Ordered

\* Appending what was in the mailbox to the path moves it and adds nothing.
LEMMA ForwardPath ==
  ASSUME TypeOK, ShapeInv, ClockInv, NEW c \in Console, Forward(c, out[c]),
         out'[c] = <<>>, UNCHANGED <<tick, rwat, batch>>
  PROVE  Path(Peer(c))' /\ link'[c] = link[c]
<1> DEFINE p == Peer(c)
<1>1. /\ p \in Console /\ Peer(p) = c /\ p # c
      /\ link[p] \in Seq(Frames) /\ out[c] \in Seq(Frames)
  BY PeerType, InputFrames DEF TypeOK
<1>2. (link'[p] = link[p] \o out[c] \/ link'[p] = link[p]) /\ link'[c] = link[c]
  BY <1>1 DEF Forward, TypeOK
<1>3. Path(p) /\ Ordered(batch[p]) /\ Ordered(link[p]) /\ Below(Records(link[p]), Records(out[c]))
  BY <1>1 DEF ClockInv, Path, InOrder
<1>4. Records(out'[c]) = {}
  BY RecordsEmpty
<1>5. Ordered(out[c])
  BY <1>1, OrderedShort DEF ShapeInv, Shape
<1>6. /\ Records(link'[p]) \subseteq Records(link[p]) \cup Records(out[c])
      /\ Ordered(link'[p])
  BY <1>1, <1>2, <1>3, <1>5, RecordsCat
<1> HIDE DEF p
<1>7. /\ Stamps(p) \subseteq Stamps(p)' /\ rwat'[p] = rwat[p]
      /\ Among(Records(batch[p])', Records(batch[p]))
      /\ Among((Records(link[p]) \cup Records(out[Peer(p)]))',
               Records(link[p]) \cup Records(out[Peer(p)]))
      /\ Ordered(batch[p])' /\ Ordered(link[p])'
      /\ Below(Records(link[p]), Records(out[Peer(p)]))'
  BY <1>1, <1>3, <1>4, <1>6 DEF Stamps, Among, Below
<1>8. Path(p)'
  BY <1>1, <1>3, <1>7, PathKept
<1> QED
  BY <1>2, <1>8 DEF p

\* Dropping the head of the path, into the batch or nowhere.
LEMMA HeadDropped ==
  ASSUME NEW s \in Seq(Frames), NEW n \in Nat, n <= Len(s)
  PROVE  LET head == SubSeq(s, 1, n)
             rest == SubSeq(s, n + 1, Len(s))
         IN  /\ Records(head) \subseteq Records(s) /\ Records(rest) \subseteq Records(s)
             /\ Ordered(s) => /\ Ordered(head) /\ Ordered(rest)
                              /\ Below(Records(head), Records(rest))
BY RecordsSub, RecordsSplit

LEMMA ReadClock ==
  ASSUME TypeOK, ShapeInv, ClockInv, NEW c \in Console, ReadAck(c)
  PROVE  ClockInv'
<1> DEFINE p == Peer(c)
           head == SubSeq(link[c], 1, rdn[c])
           rest == SubSeq(link[c], rdn[c] + 1, Len(link[c]))
<1>1. /\ p \in Console /\ Peer(p) = c /\ p # c
      /\ link[c] \in Seq(Frames) /\ rwat[c] \in Int /\ tick[c] \in Int
  BY PeerType, BoundAssumption DEF TypeOK, NoTick
<1>2. rdn[c] \in Nat /\ rdn[c] <= Len(link[c])
  BY DEF ReadAck, Step, ShapeInv, Shape, TypeOK
<1>3. /\ Records(head) \subseteq Records(link[c]) /\ Records(rest) \subseteq Records(link[c])
      /\ Ordered(link[c]) => /\ Ordered(head) /\ Ordered(rest)
                             /\ Below(Records(head), Records(rest))
  BY <1>1, <1>2, HeadDropped
<1>4. /\ batch'[c] = head /\ link'[c] = rest
      /\ batch'[p] = batch[p] /\ link'[p] = link[p]
      /\ UNCHANGED <<tick, ran, rwat, out>>
  BY <1>1 DEF ReadAck, TypeOK, gateVars
<1>5. Path(c) /\ Path(p)
  BY <1>1 DEF ClockInv
<1> HIDE DEF head, rest, p
<1>6. Path(c)'
  <2>1. Stamped(c)'
    BY <1>3, <1>4, <1>5 DEF Path, Stamped, Stamps, p
  <2>2. InOrder(c)'
    BY <1>3, <1>4, <1>5 DEF Path, InOrder, Below
  <2>3. Cursor(c)'
    BY <1>3, <1>4, <1>5 DEF Path, InOrder, Cursor
  <2> QED
    BY <2>1, <2>2, <2>3 DEF Path
<1>7. Path(p)'
  BY <1>1, <1>4, <1>5, PathSame DEF Stamps
<1> QED
  BY <1>1, <1>4, <1>6, <1>7, ClockStep DEF p

LEMMA ConsumeClock ==
  ASSUME TypeOK, ShapeInv, ClockInv, NEW c \in Console, Consume(c)
  PROVE  ClockInv'
<1> DEFINE p == Peer(c)
           n == rdn[c]
           r == batch[c][n]
           rest == SubSeq(batch[c], 1, n - 1)
<1>1. /\ p \in Console /\ Peer(p) = c /\ p # c
      /\ rwat[c] \in Int /\ tick[c] \in Int /\ tick[p] \in Int
  BY PeerType, BoundAssumption DEF TypeOK, NoTick
<1>2. n \in 1..Len(batch[c]) /\ n = Len(batch[c]) /\ batch[c] \in Seq(Frames)
  BY CursorType DEF Consume, Step
<1>3. /\ Records(rest) \subseteq Records(batch[c])
      /\ Ordered(batch[c]) => Ordered(rest)
  BY <1>2, RecordsSub
<1>4. r.type = "INPUT" => /\ r \in Records(batch[c])
                          /\ Ordered(batch[c]) => \A q \in Records(rest) : q.stamp <= r.stamp
  <2> SUFFICES ASSUME r.type = "INPUT"
               PROVE  /\ r \in Records(batch[c])
                      /\ Ordered(batch[c]) => \A q \in Records(rest) : q.stamp <= r.stamp
    OBVIOUS
  <2>1. n \in DOMAIN batch[c]
    BY <1>2
  <2>2. \A i \in DOMAIN rest : i \in DOMAIN batch[c] /\ i < n /\ rest[i] = batch[c][i]
    BY <1>2
  <2> HIDE DEF rest, n
  <2> QED
    BY <2>1, <2>2 DEF Records, Ordered
<1>5. /\ batch'[c] = rest /\ batch'[p] = batch[p] /\ rwat'[p] = rwat[p]
      /\ UNCHANGED <<tick, ran, out, link>>
      /\ \/ rwat'[c] = rwat[c]
         \/ /\ r.type = "INPUT"
            /\ rwat'[c] = IF Newer(r.stamp, rwat[c]) THEN r.stamp ELSE rwat[c]
  BY <1>1 DEF Consume, TypeOK
<1>6. Path(c) /\ Path(p)
  BY <1>1 DEF ClockInv
<1>7. Ordered(rest)
  BY <1>3, <1>6 DEF Path, InOrder
<1> HIDE DEF rest, n, p, r
<1>8. Path(p)'
  BY <1>1, <1>5, <1>6, PathSame DEF Stamps
<1>9. CASE rwat'[c] = rwat[c]
  <2>1. /\ Stamps(c) \subseteq Stamps(c)'
        /\ Among(Records(batch[c])', Records(batch[c]))
        /\ Among((Records(link[c]) \cup Records(out[Peer(c)]))',
                 Records(link[c]) \cup Records(out[Peer(c)]))
        /\ Ordered(batch[c])' /\ Ordered(link[c])'
        /\ Below(Records(link[c]), Records(out[Peer(c)]))'
    BY <1>3, <1>5, <1>6, <1>7 DEF Stamps, Among, Path, InOrder
  <2>2. Path(c)'
    BY <1>6, <1>9, <2>1, PathKept
  <2> QED
    BY <1>1, <1>5, <1>8, <1>9, <2>2, ClockStep DEF p
<1>10. CASE r.type = "INPUT" /\ rwat'[c] = r.stamp /\ r.stamp >= rwat[c]
  <2>1. /\ r \in Records(batch[c]) /\ \A q \in Records(rest) : q.stamp <= r.stamp
    BY <1>4, <1>6, <1>10 DEF Path, InOrder
  <2>2. /\ r.stamp \in Stamps(c) /\ r.stamp \in Int
        /\ \A q \in Records(rest) : q.stamp \in Stamps(c) /\ q.stamp \in Int
    BY <1>1, <1>3, <1>6, <2>1, SizeFacts DEF Path, Stamped, Stamps, p
  <2>3. Stamped(c)'
    BY <1>3, <1>5, <1>6, <1>10, <2>2 DEF Path, Stamped, Stamps
  <2>4. InOrder(c)'
    BY <1>3, <1>5, <1>6, <1>7, <1>10, <2>1 DEF Path, InOrder, Below
  <2>5. \A q \in Records(rest) : r.stamp - (2 * Delay + 3) <= q.stamp
    <3> SUFFICES ASSUME NEW q \in Records(rest)
                 PROVE  r.stamp - (2 * Delay + 3) <= q.stamp
      OBVIOUS
    <3>1. r.stamp <= tick[p] + Delay /\ (tick[p] + Delay) - rwat[c] <= 2 * Delay + 3
      BY <1>1, <2>2, Skew, SizeFacts DEF Stamps, p
    <3>2. CASE rwat[c] <= q.stamp
      BY <1>1, <2>2, <3>1, <3>2, SizeFacts
    <3>3. CASE \A w \in Records(batch[c]) :
                 rwat[c] - (2 * Delay + 3) <= w.stamp /\ w.stamp <= rwat[c]
      <4>1. rwat[c] - (2 * Delay + 3) <= q.stamp /\ r.stamp <= rwat[c]
        BY <1>3, <2>1, <3>3
      <4> QED
        BY <1>1, <1>10, <2>2, <4>1, SizeFacts
    <3> QED
      BY <1>3, <1>6, <3>2, <3>3 DEF Path, Cursor
  <2>6. Cursor(c)'
    BY <1>5, <1>10, <2>1, <2>5 DEF Cursor
  <2>7. Path(c)'
    BY <2>3, <2>4, <2>6 DEF Path
  <2> QED
    BY <1>1, <1>5, <1>8, <1>10, <2>2, <2>7, ClockStep DEF p
<1> QED
  BY <1>4, <1>5, <1>9, <1>10, NewerExact

LEMMA WriteClock ==
  ASSUME TypeOK, ShapeInv, ClockInv, NEW c \in Console, WriteIssue(c)
  PROVE  ClockInv'
<1> DEFINE p == Peer(c)
           s == tick[c] + Delay
<1>1. /\ p \in Console /\ Peer(p) = c /\ p # c
      /\ rwat[c] \in Int /\ rwat[p] \in Int /\ tick[c] \in Int /\ tick[c] >= 0
  <2>1. p \in Console /\ Peer(p) = c /\ p # c
    BY PeerType
  <2>2. rwat \in [Console -> Int] /\ tick \in [Console -> NoTick..MaxTick]
    BY DEF TypeOK
  <2>3. tick[c] # NoTick
    BY DEF WriteIssue, Step
  <2> QED
    BY <2>1, <2>2, <2>3, BoundAssumption DEF NoTick
<1>2. /\ out'[c] = <<RecordOf(c)>> /\ out'[p] = out[p]
      /\ UNCHANGED <<tick, ran, rwat, batch, link>>
  BY <1>1 DEF WriteIssue, TypeOK, gateVars
<1>3. Path(c) /\ Path(p)
  BY <1>1 DEF ClockInv
<1>4. \A q \in Records(out'[c]) : q.stamp = s
  BY <1>2, RecordsOne DEF RecordOf
<1>5. s \in Stamps(p) /\ rwat[p] <= s
  BY <1>1, <1>3, SizeFacts DEF Path, Stamped, Stamps, NoTick
<1>6. \A q \in Records(batch[p]) \cup Records(link[p]) : q.stamp <= s
  BY <1>1, <1>3, SizeFacts DEF Path, Stamped, Stamps
<1> HIDE DEF p, s
<1>7. Path(p)'
  <2>1. Stamped(p)'
    BY <1>1, <1>2, <1>3, <1>4, <1>5 DEF Path, Stamped, Stamps
  <2>2. InOrder(p)'
    BY <1>1, <1>2, <1>3, <1>4, <1>5, <1>6 DEF Path, InOrder, Below
  <2>3. Cursor(p)'
    BY <1>2, <1>3 DEF Path, Cursor
  <2> QED
    BY <2>1, <2>2, <2>3 DEF Path
<1>8. Path(c)'
  BY <1>1, <1>2, <1>3, PathSame DEF Stamps, p
<1> QED
  BY <1>1, <1>2, <1>7, <1>8, ClockStep DEF p

\* A step that touches neither clocks nor records.
LEMMA QuietClock ==
  ASSUME ClockInv, UNCHANGED <<tick, ran, rwat, batch, link, out>>
  PROVE  ClockInv'
BY DEF ClockInv, Gate, Path, Stamped, Stamps, InOrder, Cursor

LEMMA TransportClock ==
  ASSUME TypeOK, ShapeInv, ClockInv, NEW c \in Console, Transport(c)
  PROVE  ClockInv'
<1>1. CASE WriteIssue(c)
  BY <1>1, WriteClock
<1>2. CASE WriteAck(c)
  <2>1. /\ Forward(c, out[c]) /\ out'[c] = <<>> /\ UNCHANGED <<tick, ran, rwat, batch>>
        /\ out'[Peer(c)] = out[Peer(c)]
    BY <1>2, PeerType DEF WriteAck, gateVars, TypeOK
  <2>2. Path(Peer(c))' /\ link'[c] = link[c]
    BY <2>1, ForwardPath
  <2>3. Path(c)'
    BY <2>1, <2>2, PathSame DEF ClockInv, Stamps
  <2> QED
    BY <2>1, <2>2, <2>3, ClockStep, BoundAssumption DEF TypeOK, NoTick
<1>3. CASE StatusNone(c)
  BY <1>3, QuietClock DEF StatusNone, gateVars
<1>4. ASSUME NEW n \in 1..MaxUnread, StatusSome(c, n) PROVE ClockInv'
  BY <1>4, QuietClock DEF StatusSome, gateVars
<1>5. CASE ReadAck(c)
  BY <1>5, ReadClock
<1>6. CASE Consume(c)
  BY <1>6, ConsumeClock
<1>7. CASE ConsumeDone(c)
  BY <1>7, QuietClock DEF ConsumeDone, gateVars
<1> QED
  BY <1>1, <1>2, <1>3, <1>4, <1>5, <1>6, <1>7 DEF Transport

LEMMA FaultyClock ==
  ASSUME TypeOK, ShapeInv, ClockInv, NEW c \in Console, Faulty(c)
  PROVE  ClockInv'
<1> DEFINE p == Peer(c)
<1>0. /\ UNCHANGED <<tick, ran, rwat, batch>>
      /\ rwat[c] \in Int /\ tick[c] \in Int
      /\ p \in Console /\ Peer(p) = c /\ p # c /\ Path(c) /\ Path(p)
      /\ link[c] \in Seq(Frames)
  <2>1. UNCHANGED <<tick, ran, rwat, batch>>
    BY DEF Faulty, WriteFail, StatusFail, ReadFail, Disturb, Damage, Leave, gateVars, history
  <2>2. p \in Console /\ Peer(p) = c /\ p # c
    BY PeerType
  <2>3. /\ rwat \in [Console -> Int] /\ tick \in [Console -> NoTick..MaxTick]
        /\ link \in [Console -> Seq(Frames)]
    BY DEF TypeOK
  <2>4. Path(c) /\ Path(p)
    BY <2>2 DEF ClockInv
  <2> QED
    BY <2>1, <2>2, <2>3, <2>4, BoundAssumption DEF NoTick
<1>1. ASSUME UNCHANGED out, link'[p] = link[p],
             Among(Records(link'[c]), Records(link[c])), Ordered(link'[c])
      PROVE  ClockInv'
  <2>1. Path(p)'
    BY <1>0, <1>1, PathSame DEF Stamps
  <2>2. /\ Stamps(c) \subseteq Stamps(c)' /\ rwat'[c] = rwat[c]
        /\ Among(Records(batch[c])', Records(batch[c]))
        /\ Among((Records(link[c]) \cup Records(out[Peer(c)]))',
                 Records(link[c]) \cup Records(out[Peer(c)]))
        /\ Ordered(batch[c])' /\ Ordered(link[c])'
    BY <1>0, <1>1 DEF Stamps, Among, Path, InOrder
  <2>3. Below(Records(link[c]), Records(out[Peer(c)]))'
    BY <1>0, <1>1 DEF Among, Path, InOrder, Below
  <2>4. Path(c)'
    BY <1>0, <2>2, <2>3, PathKept
  <2> QED
    BY <1>0, <2>1, <2>4, ClockStep
<1>2. CASE WriteFail(c)
  <2>1. out'[c] = <<>> /\ out'[p] = out[p] /\ (link' = link \/ Forward(c, out[c]))
    BY <1>0, <1>2 DEF WriteFail, TypeOK
  <2>2. Path(p)' /\ link'[c] = link[c]
    <3>1. CASE link' = link
      <4>1. Records(out'[c]) = {}
        BY <2>1, RecordsEmpty
      <4>2. /\ Stamps(p) \subseteq Stamps(p)' /\ rwat'[p] = rwat[p]
            /\ Among(Records(batch[p])', Records(batch[p]))
            /\ Among((Records(link[p]) \cup Records(out[Peer(p)]))',
                     Records(link[p]) \cup Records(out[Peer(p)]))
            /\ Ordered(batch[p])' /\ Ordered(link[p])'
            /\ Below(Records(link[p]), Records(out[Peer(p)]))'
        BY <1>0, <3>1, <4>1 DEF Stamps, Among, Path, InOrder, Below
      <4> QED
        BY <1>0, <3>1, <4>2, PathKept
    <3>2. CASE Forward(c, out[c])
      BY <1>0, <2>1, <3>2, ForwardPath
    <3> QED
      BY <2>1, <3>1, <3>2
  <2>3. Path(c)'
    BY <1>0, <2>1, <2>2, PathSame DEF Stamps
  <2> QED
    BY <1>0, <2>2, <2>3, ClockStep
<1>3. CASE StatusFail(c)
  BY <1>0, <1>3, QuietClock DEF StatusFail
<1>4. CASE ReadFail(c)
  <2>1. rdn[c] \in Nat /\ rdn[c] <= Len(link[c])
    BY <1>4 DEF ReadFail, Step, ShapeInv, Shape, TypeOK
  <2>2. /\ UNCHANGED out /\ link'[p] = link[p]
        /\ link'[c] = link[c] \/ link'[c] = SubSeq(link[c], rdn[c] + 1, Len(link[c]))
    BY <1>0, <1>4 DEF ReadFail, TypeOK
  <2>3. Ordered(link[c])
    BY <1>0 DEF Path, InOrder
  <2>4. Among(Records(link'[c]), Records(link[c])) /\ Ordered(link'[c])
    BY <1>0, <2>1, <2>2, <2>3, HeadDropped DEF Among
  <2> QED
    BY <1>1, <2>2, <2>4
<1>5. CASE Disturb(c)
  BY <1>0, <1>5, QuietClock DEF Disturb
<1>6. ASSUME NEW i \in 1..MaxUnread, Damage(c, i) PROVE ClockInv'
  <2>1. /\ UNCHANGED out /\ link'[p] = link[p] /\ i \in DOMAIN link[c] /\ link[c][i].type = "INPUT"
        /\ link'[c] = [link[c] EXCEPT ![i] = Spoiled(@)]
    BY <1>0, <1>6 DEF Damage, TypeOK
  <2>2. Ordered(link[c])
    BY <1>0 DEF Path, InOrder
  <2>3. Among(Records(link'[c]), Records(link[c])) /\ Ordered(link'[c])
    BY <1>0, <2>1, <2>2, RecordsSpoiled DEF Among
  <2> QED
    BY <1>1, <2>1, <2>3
<1>7. ASSUME NEW seen \in BOOLEAN, Leave(c, seen) PROVE ClockInv'
  <2>1. /\ UNCHANGED out /\ link'[c] = link[c]
        /\ link'[p] = link[p] \/ link'[p] = link[p] \o <<LeftFrame>>
    BY <1>0, <1>7 DEF Leave, Forward, TypeOK
  <2>2. Path(c)'
    BY <1>0, <2>1, PathSame DEF Stamps
  <2>3. Path(p)'
    <3>1. <<LeftFrame>> \in Seq(Frames) /\ Records(<<LeftFrame>>) = {} /\ Ordered(<<LeftFrame>>)
      BY LeftType, RecordsOne DEF LeftFrame
    <3>2. link[p] \in Seq(Frames) /\ Ordered(link[p])
      BY <1>0 DEF TypeOK, Path, InOrder
    <3>3. Below(Records(link[p]), Records(<<LeftFrame>>))
      BY <3>1 DEF Below
    <3>4. Records(link'[p]) \subseteq Records(link[p]) /\ Ordered(link'[p])
      <4>1. /\ Records(link[p] \o <<LeftFrame>>) \subseteq Records(link[p]) \cup Records(<<LeftFrame>>)
            /\ Ordered(link[p] \o <<LeftFrame>>)
        BY <3>1, <3>2, <3>3, RecordsCat
      <4> QED
        BY <2>1, <3>1, <3>2, <4>1
    <3>5. /\ Stamps(p) \subseteq Stamps(p)' /\ rwat'[p] = rwat[p]
          /\ Among(Records(batch[p])', Records(batch[p]))
          /\ Among((Records(link[p]) \cup Records(out[Peer(p)]))',
                   Records(link[p]) \cup Records(out[Peer(p)]))
          /\ Ordered(batch[p])' /\ Ordered(link[p])'
          /\ Below(Records(link[p]), Records(out[Peer(p)]))'
      BY <1>0, <2>1, <3>4 DEF Stamps, Among, Path, InOrder, Below
    <3> QED
      BY <1>0, <3>5, PathKept
  <2> QED
    BY <1>0, <2>2, <2>3, ClockStep
<1> QED
  BY <1>2, <1>3, <1>4, <1>5, <1>6, <1>7 DEF Faulty

LEMMA InvStep ==
  ASSUME IInv, [Next]_vars
  PROVE  IInv'
<1>1. TypeOK /\ ShapeInv /\ ClockInv
  BY DEF IInv
<1>2. TypeOK' /\ ShapeInv'
  BY <1>1, TypeShapeStep
<1>3. ClockInv'
  <2>1. ASSUME NEW c \in Console, Frame(c) PROVE ClockInv'
    BY <1>1, <2>1, FrameClock
  <2>2. ASSUME NEW c \in Console, Transport(c) PROVE ClockInv'
    BY <1>1, <2>2, TransportClock
  <2>3. ASSUME NEW c \in Console, Faulty(c) PROVE ClockInv'
    BY <1>1, <2>3, FaultyClock
  <2>4. CASE UNCHANGED vars
    BY <1>1, <2>4, QuietClock DEF vars, gateVars, wireVars
  <2> QED
    BY <2>1, <2>2, <2>3, <2>4 DEF Next
<1> QED
  BY <1>2, <1>3 DEF IInv

\* The invariant the clock theorems are read off: it holds whatever faults
\* happen and however far behind a path falls.
THEOREM ClockInvariant == Spec => []IInv
<1>1. Init => IInv
  BY InitType, InitShape, InitClock DEF IInv
<1>2. IInv /\ [Next]_vars => IInv'
  BY InvStep
<1> QED
  BY <1>1, <1>2, PTL DEF Spec

-----------------------------------------------------------------------------
(* What the invariant says of the properties *)

LEMMA InFlightPart ==
  ASSUME TypeOK, NEW c \in Console
  PROVE  InFlight(c) \subseteq Records(batch[c]) \cup Records(link[c]) \cup Records(out[Peer(c)])
<1> DEFINE b == batch[c]
           l == link[c]
           o == out[Peer(c)]
<1>1. b \in Seq(Frames) /\ l \in Seq(Frames) /\ o \in Seq(Frames)
  BY PeerType, InputFrames DEF TypeOK
<1>2. b \o l \in Seq(Frames)
  BY <1>1
<1> HIDE DEF b, l, o
<1>3. Records((b \o l) \o o) \subseteq Records(b \o l) \cup Records(o)
  BY <1>1, <1>2, RecordsCat
<1>4. Records(b \o l) \subseteq Records(b) \cup Records(l)
  BY <1>1, RecordsCat
<1>5. InFlight(c) \subseteq Records((b \o l) \o o)
  BY DEF InFlight, Records, b, l, o
<1> QED
  BY <1>3, <1>4, <1>5 DEF b, l, o

\* Neither console gets more than Delay + 1 ticks ahead of the other, and the
\* ticks a ring holds that are still to run fit in it: with any faults, any
\* delay on the path, and consoles that stop at any point.
THEOREM SkewCorrect == Spec => []SkewBounded
<1>1. ASSUME IInv PROVE SkewBounded
  <2> SUFFICES ASSUME NEW c \in Console
               PROVE  /\ tick[c] <= tick[Peer(c)] + Delay + 1
                      /\ Known(c) - tick[c] < RingSize
    BY DEF SkewBounded
  <2>1. TypeOK /\ ClockInv /\ Peer(c) \in Console /\ Peer(Peer(c)) = c
    BY <1>1, PeerType DEF IInv
  <2>2. /\ tick[c] \in Int /\ tick[Peer(c)] \in Int /\ rwat[c] \in Int
        /\ tick[c] <= tick[Peer(c)] + Delay + 1
        /\ rwat[c] <= tick[Peer(c)] + Delay
        /\ tick[Peer(c)] <= tick[c] + Delay + 1
    BY <2>1, Skew
  <2>3. tick[c] >= -1
    BY <2>1 DEF TypeOK, NoTick
  <2> QED
    BY <2>2, <2>3, SizeFacts DEF Known
<1> QED
  BY <1>1, ClockInvariant, PTL

\* The sign bit of an eight-bit difference decides as the unbounded ticks would,
\* at the gate and at the watermark, over a match of any length.
THEOREM WrapCorrect == Spec => []WrapInvisible
<1>1. ASSUME IInv PROVE WrapInvisible
  <2>1. TypeOK /\ ClockInv
    BY <1>1 DEF IInv
  <2>2. ASSUME NEW c \in Console PROVE Arrived(c) <=> rwat[c] >= TickNow(c)
    BY <2>1, ArrivedExact
  <2>3. ASSUME NEW c \in Console, NEW r \in InFlight(c)
        PROVE  Newer(r.stamp, rwat[c]) <=> r.stamp >= rwat[c]
    BY <2>1, NewerExact, InFlightPart
  <2> QED
    BY <2>2, <2>3 DEF WrapInvisible
<1> QED
  BY <1>1, ClockInvariant, PTL
=============================================================================
