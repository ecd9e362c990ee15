------------------------------ MODULE NetPlay ------------------------------
(***************************************************************************)
(* Two consoles in a match: the lockstep gate of the game bank             *)
(* (src/src/cbinput.inc, cbcap.inc, cbcrc.inc, cbphi.inc), the transport   *)
(* machine of the kernel bank (src/src/cbnet.inc), and the FIFO path a     *)
(* record takes through the FujiNet, the relay and TCP between them.       *)
(*                                                                         *)
(* An action is one thing a console does without interruption: the gate of *)
(* one video frame, or one micro-step of the transport.  The program runs  *)
(* any number of micro-steps between two gates, so the two interleave      *)
(* freely here, on each console and between the consoles.                  *)
(*                                                                         *)
(* A tick is an unbounded integer; the program's cell holds it modulo      *)
(* TickMod and every read of it below goes through `%'.  A wire byte is    *)
(* the identity of the CBCAP call that took it (whose it was and the how   *)
(* manyth: no two captures are the same byte), plus the one bit the        *)
(* netcode itself sets: a pressed RESET.                                   *)
(***************************************************************************)
EXTENDS Integers, Sequences

CONSTANTS
  Host, Guest,      \* the two consoles: CBE_ROLE clear and set
  Delay,            \* CBD, the input delay in ticks
  Win,              \* CBWIN, ticks of input in every record
  RingSize,         \* slots of CBRING
  LocSize,          \* slots of CBLOC
  TickMod,          \* values of CBTICK, 2^8 in the program
  FramesPerTick,    \* CBK
  StallMax,         \* CBERR's high nibble saturates here
  BiteMax,          \* records one capped READ asks for ($F8 bytes)
  SimStart,         \* Combat's state as START leaves it
  SimStep(_, _),    \* one tick of Combat's logic on an agreed input pair
  Survives(_),      \* what of a state a new game leaves alone: not cleared, not set
  Upset(_),         \* the states a disturbed console may have instead
  Checksum(_),      \* CBCRC
  Sims, Sums        \* the states, and the values of CBCRC

CONSTANTS           \* bounds and assumptions on the environment
  MaxTick,          \* no console advances past this tick
  MaxUnread,        \* records one path holds
  MaxLag,           \* ticks a console captures past what its peer has consumed
  MaxStall,         \* frames in a row a console stalls while its peer plays
  FaultKinds,       \* which of "upset", "damage", "error", "leave" may happen
  MaxFaults         \* and how many of them

Console == {Host, Guest}
Peer(c) == IF c = Host THEN Guest ELSE Host

ASSUME ConsoleAssumption == Host # Guest
ASSUME SizeAssumption ==
  /\ Delay \in Nat \ {0} /\ Win \in Nat \ {0} /\ FramesPerTick \in Nat \ {0}
  /\ RingSize \in Nat /\ 2 * Delay + 2 <= RingSize /\ Win <= RingSize
  /\ LocSize \in Nat /\ Win <= LocSize /\ Delay < LocSize
  /\ TickMod \in Nat /\ 4 * Delay + 8 <= TickMod
  /\ TickMod % RingSize = 0 /\ TickMod % LocSize = 0
  /\ StallMax \in Nat \ {0} /\ BiteMax \in Nat \ {0}
ASSUME SimAssumption ==
  /\ SimStart \in Sims
  /\ \A s \in Sims : Upset(s) \subseteq Sims /\ Checksum(s) \in Sums
ASSUME BoundAssumption ==
  /\ MaxTick \in Nat /\ MaxUnread \in Nat \ {0} /\ MaxLag \in Nat
  /\ MaxStall \in Nat /\ MaxFaults \in Nat

VARIABLES           \* the gate, in the game bank
  tick,             \* CBTICK
  ran,              \* CBE_RAN: the last boundary ran its tick
  phase,            \* CBE_PH: which frame of the tick
  loc,              \* CBLOC: this console's own bytes
  ring,             \* CBRING: the peer's bytes
  rwat,             \* CBRWAT: the newest remote tick received
  stall,            \* CBERR's high nibble
  crcv,             \* CBCRCV: the checksum sampled at the last boundary
  rsy,              \* CBE_RSY: a repair is armed
  mode,             \* "play", or "left" for the peer-left screen and beyond
  sim               \* Combat's own state

VARIABLES           \* the transport, in the kernel bank
  nst,              \* CBNST
  out,              \* the record in the mailbox, until the WRITE is answered
  rdn,              \* CBRDN
  batch,            \* records of the reply window the cursor has yet to reach
  link,             \* link[c]: records on their way to c, oldest first
  faults            \* faults so far

VARIABLES           \* history: what a property compares, never read by the program
  samples,          \* CBCAP calls so far
  used,             \* used[c][t]: the pair of bytes c ran tick t on
  trail             \* trail[c][t]: c's state entering tick t

gateVars == <<tick, ran, phase, loc, ring, rwat, stall, crcv, rsy, mode, sim>>
wireVars == <<nst, out, rdn, batch, link, faults>>
history  == <<samples, used, trail>>
vars     == <<gateVars, wireVars, history>>

-----------------------------------------------------------------------------
(* Data *)

Byte == [by : Console \cup {"nobody"}, nth : 0..(MaxTick + 1), rst : BOOLEAN]
Idle == [by |-> "nobody", nth |-> 0, rst |-> FALSE]      \* IW_IDLE
Garbled == [by |-> "nobody", nth |-> 1, rst |-> FALSE]   \* a damaged byte
Pair == [Console -> Byte]                    \* what one tick of the game reads

ASSUME StepAssumption == \A s \in Sims : \A in \in Pair : SimStep(s, in) \in Sims

NoTick == -1                                 \* CBTICK as handed over, $FF
Ticks  == (NoTick - LocSize)..MaxTick
Slots(n) == 0..(n - 1)

\* A frame of the match: an INPUT record, or the relay's PEER_LEFT.  `good' is
\* whether the check byte agrees with the bytes it covers.
Input == [type : {"INPUT"}, stamp : Int, win : [Slots(Win) -> Byte],
          crc : Sums, good : BOOLEAN]
LeftFrame == [type |-> "LEFT", stamp |-> 0, win |-> [j \in Slots(Win) |-> Idle],
              crc |-> Checksum(SimStart), good |-> TRUE]
Frames == Input \cup {LeftFrame}

\* Mutant: the difference read as the unsigned number it also is.
Signed_Unsigned(x) == x % TickMod

\* An eight-bit difference read by its sign bit.
Signed(x) == LET m == x % TickMod
             IN  IF m < TickMod \div 2 THEN m ELSE m - TickMod

-----------------------------------------------------------------------------
(* The gate *)

\* Mutant: a stalled boundary captures again.
CaptureDue_Always(c) == TRUE

\* CBE_RAN: the tick moves, and a byte and a checksum are committed, only on
\* the boundary after one that ran.
CaptureDue(c) == ran[c]

TickNow(c) == IF ran[c] THEN tick[c] + 1 ELSE tick[c]

\* CBCAP: the left port and the switches, in one byte.
PortByte(c) == [by |-> c, nth |-> samples[c], rst |-> FALSE]

\* CBRSY: an armed repair presses RESET into the byte.
Capture(c) == [PortByte(c) EXCEPT !.rst = rsy[c]]

\* What the boundary does before it decides whether the tick can run.
Commit(c) ==
  LET t == TickNow(c) IN
  /\ tick' = [tick EXCEPT ![c] = t]
  /\ IF CaptureDue(c)
     THEN /\ crcv' = [crcv EXCEPT ![c] = Checksum(sim[c])]
          /\ loc' = [loc EXCEPT ![c][(t + Delay) % LocSize] = Capture(c)]
          /\ rsy' = [rsy EXCEPT ![c] = FALSE]
          /\ samples' = [samples EXCEPT ![c] = @ + 1]
          /\ trail' = [trail EXCEPT ![c][t] = sim[c]]
     ELSE UNCHANGED <<crcv, loc, rsy, samples, trail>>

\* Mutant: the gate forgets that a stamp is already Delay ahead.
Arrived_Ahead(c) == Signed((rwat[c] + Delay) - TickNow(c)) >= 0

\* Has the peer's input for this tick arrived?
Arrived(c) == Signed(rwat[c] - TickNow(c)) >= 0

\* Mutant: the two bytes of a guest do not change places.
Mix_NoSwap(c, own, theirs) == [q \in Console |-> IF q = Host THEN own ELSE theirs]

\* Mutant: the peer's RESET is left out of the console switches.
Mix_OwnReset(c, own, theirs) ==
  [q \in Console |-> IF q = c THEN own ELSE [theirs EXCEPT !.rst = FALSE]]

\* The host's byte drives player 0 on both consoles, the guest's player 1.
Mix(c, own, theirs) == [q \in Console |-> IF q = c THEN own ELSE theirs]

\* The newest tick whose byte c holds: ticks below Delay are seeded, not sent.
Known(c) == IF rwat[c] < Delay THEN Delay - 1 ELSE rwat[c]

\* Assumption on the environment: while the peer plays, it has consumed every
\* record of this console but those of the last MaxLag ticks.
Prompt(c) == mode[Peer(c)] = "play" => tick[c] + 1 + Delay <= Known(Peer(c)) + MaxLag

AtBoundary(c) ==
  /\ mode[c] = "play" /\ phase[c] = 0
  /\ ran[c] => tick[c] < MaxTick /\ Prompt(c)

\* Mutant: the phase runs on into the bit above it.
PhaseAfter_NoWrap(n) == n + 1

\* CBPHI.
PhaseAfter(n) == (n + 1) % FramesPerTick

BoundaryRun(c) ==
  LET t == TickNow(c) IN
  /\ AtBoundary(c) /\ Arrived(c)
  /\ Commit(c)
  /\ used' = [used EXCEPT ![c][t] =
                Mix(c, loc'[c][t % LocSize], ring[c][t % RingSize])]
  /\ sim' = [sim EXCEPT ![c] = SimStep(@, used'[c][t])]
  /\ ran' = [ran EXCEPT ![c] = TRUE]
  /\ stall' = [stall EXCEPT ![c] = 0]
  /\ phase' = [phase EXCEPT ![c] = PhaseAfter(@)]
  /\ UNCHANGED <<ring, rwat, mode, wireVars>>

\* Mutant: the count wraps where it should saturate.
StallAfter_Wraps(n) == (n + 1) % StallMax

StallAfter(n) == n + 1

\* Mutant: the frame loop's own work on the state is done in front of the gate.
FrozenSim_Steps(c) == SimStep(sim[c], Mix(c, Idle, Idle))

\* MLOOP: with CBADV clear nothing of the game runs, not even its clock.
FrozenSim(c) == sim[c]

\* A stall leaves the phase at 0: the next frame is the same boundary again.
BoundaryStall(c) ==
  /\ AtBoundary(c) /\ ~Arrived(c)
  /\ stall[c] < StallMax
  /\ mode[Peer(c)] = "play" => stall[c] < MaxStall
  /\ Commit(c)
  /\ ran' = [ran EXCEPT ![c] = FALSE]
  /\ stall' = [stall EXCEPT ![c] = StallAfter(@)]
  /\ sim' = [sim EXCEPT ![c] = FrozenSim(c)]
  /\ UNCHANGED <<phase, ring, rwat, mode, used, wireVars>>

\* CBGONE: the boot bank takes over and the transport is never stepped again.
BoundaryGone(c) ==
  /\ AtBoundary(c) /\ ~Arrived(c)
  /\ stall[c] = StallMax
  /\ Commit(c)
  /\ ran' = [ran EXCEPT ![c] = FALSE]
  /\ mode' = [mode EXCEPT ![c] = "left"]
  /\ UNCHANGED <<phase, ring, rwat, stall, sim, used, wireVars>>

\* CBPHI on the frames between boundaries.
MidTick(c) ==
  /\ mode[c] = "play" /\ phase[c] # 0
  /\ phase' = [phase EXCEPT ![c] = PhaseAfter(@)]
  /\ UNCHANGED <<tick, ran, loc, ring, rwat, stall, crcv, rsy, mode, sim,
                 wireVars, history>>

-----------------------------------------------------------------------------
(* The transport *)

\* Mutant: no micro-steps on a frame that stalled.
Step_NotStalled(c, from, to) ==
  /\ mode[c] = "play" /\ tick[c] # NoTick /\ ran[c]
  /\ nst[c] = from
  /\ nst' = [nst EXCEPT ![c] = to]

\* One micro-step, from the wait for the vertical blank to run out: the frame's
\* gate comes before it, so the first boundary comes before the first step.
Step(c, from, to) ==
  /\ mode[c] = "play" /\ tick[c] # NoTick
  /\ nst[c] = from
  /\ nst' = [nst EXCEPT ![c] = to]

\* Mutant: the cursor is stepped down before the first byte is read.
WindowOf_Stepped(c, s) == [j \in Slots(Win) |-> loc[c][(s - j - 1) % LocSize]]

\* The window's bytes, newest first, out of the local ring.
WindowOf(c, s) == [j \in Slots(Win) |-> loc[c][(s - j) % LocSize]]

\* Mutant: the checksum is taken when the record is made.
RecordOf_LateSum(c) ==
  LET s == tick[c] + Delay
  IN  [type |-> "INPUT", stamp |-> s, win |-> WindowOf(c, s),
       crc |-> Checksum(sim[c]), good |-> TRUE]

RecordOf(c) ==
  LET s == tick[c] + Delay
  IN  [type |-> "INPUT", stamp |-> s, win |-> WindowOf(c, s),
       crc |-> crcv[c], good |-> TRUE]

\* The bound on unread records: a write waits for room on the path, and a
\* console whose own path is full reads before it writes again.
Room(c) == mode[c] = "play" => Len(link[c]) < MaxUnread

\* CBSWISS.
WriteIssue(c) ==
  /\ Room(Peer(c))
  /\ Step(c, "WISS", "WACK")
  /\ out' = [out EXCEPT ![c] = <<RecordOf(c)>>]
  /\ UNCHANGED <<gateVars, rdn, batch, link, faults, history>>

\* The relay forwards only to a partner it still has.
Forward(c, f) ==
  link' = IF mode[Peer(c)] = "play" THEN [link EXCEPT ![Peer(c)] = @ \o f] ELSE link

\* CBSWACK, once the cartridge has answered.
WriteAck(c) ==
  /\ Step(c, "WACK", "SISS")
  /\ Forward(c, out[c])
  /\ out' = [out EXCEPT ![c] = <<>>]
  /\ UNCHANGED <<gateVars, rdn, batch, faults, history>>

\* CBSSISS and CBSSACK: the answer says TCP has delivered the first n of the
\* records on their way.  Nothing but the answer depends on when it was asked.
StatusNone(c) ==
  /\ Room(c)
  /\ Step(c, "SISS", "WISS")
  /\ UNCHANGED <<gateVars, out, rdn, batch, link, faults, history>>

StatusSome(c, n) ==
  /\ n \in 1..Len(link[c]) /\ n <= BiteMax
  /\ Step(c, "SISS", "RISS")
  /\ rdn' = [rdn EXCEPT ![c] = n]
  /\ UNCHANGED <<gateVars, out, batch, link, faults, history>>

\* CBSRISS and CBSRACK: exactly the records STATUS reported.
ReadAck(c) ==
  /\ Step(c, "RISS", "CONS")
  /\ batch' = [batch EXCEPT ![c] = SubSeq(link[c], 1, rdn[c])]
  /\ link' = [link EXCEPT ![c] = SubSeq(@, rdn[c] + 1, Len(@))]
  /\ UNCHANGED <<gateVars, out, rdn, faults, history>>

\* Mutant: only the newest byte of the window is kept.
RingWith_Newest(c, r) == [ring[c] EXCEPT ![r.stamp % RingSize] = r.win[0]]

\* A record's bytes, each into the slot of its own tick: slot i is that of the
\* tick j below the stamp.
RingWith(c, r) ==
  [i \in Slots(RingSize) |->
     LET j == (r.stamp - i) % RingSize
     IN  IF j < Win THEN r.win[j] ELSE ring[c][i]]

Newer(s, w) == Signed(s - w) >= 0

\* The sender's sample and this console's are of the same boundary, and differ.
Mismatch(c, r) ==
  /\ (r.stamp - Delay) % TickMod = tick[c] % TickMod
  /\ r.crc # crcv[c]

\* Mutant: the check byte is not looked at.
Sound_Unchecked(r) == TRUE

\* The check byte, over every byte of the frame that carries anything.
Sound(r) == r.good

\* CBSCONS on one record, the newest first: the cursor runs backwards.
Consume(c) ==
  /\ rdn[c] > 0
  /\ Step(c, "CONS", "CONS")
  /\ rdn' = [rdn EXCEPT ![c] = @ - 1]
  /\ batch' = [batch EXCEPT ![c] = SubSeq(@, 1, rdn[c] - 1)]
  /\ LET r == batch[c][rdn[c]] IN
     \/ /\ r.type = "INPUT" /\ Sound(r)
        /\ ring' = [ring EXCEPT ![c] = RingWith(c, r)]
        /\ rsy' = [rsy EXCEPT ![c] = @ \/ Mismatch(c, r)]
        /\ rwat' = [rwat EXCEPT ![c] = IF Newer(r.stamp, @) THEN r.stamp ELSE @]
        /\ UNCHANGED stall
     \/ /\ r.type = "INPUT" /\ ~Sound(r)
        /\ UNCHANGED <<ring, rsy, rwat, stall>>
     \/ /\ r.type = "LEFT"
        /\ stall' = [stall EXCEPT ![c] = StallMax]
        /\ UNCHANGED <<ring, rsy, rwat>>
  /\ UNCHANGED <<tick, ran, phase, loc, crcv, mode, sim, out, link, faults, history>>

ConsumeDone(c) ==
  /\ rdn[c] = 0
  /\ Step(c, "CONS", "WISS")
  /\ UNCHANGED <<gateVars, out, rdn, batch, link, faults, history>>

-----------------------------------------------------------------------------
(* Faults *)

Fault(kind) ==
  /\ kind \in FaultKinds /\ faults < MaxFaults
  /\ faults' = faults + 1

\* CBSFAIL: a transaction the cartridge answers with an error.  A failed WRITE
\* may have been sent all the same, a failed READ may have lost what it took.
WriteFail(c) ==
  /\ Fault("error") /\ Room(c)
  /\ Step(c, "WACK", "WISS")
  /\ link' = link \/ Forward(c, out[c])
  /\ out' = [out EXCEPT ![c] = <<>>]
  /\ UNCHANGED <<gateVars, rdn, batch, history>>

StatusFail(c) ==
  /\ Fault("error") /\ Room(c)
  /\ Step(c, "SISS", "WISS")
  /\ UNCHANGED <<gateVars, out, rdn, batch, link, history>>

ReadFail(c) ==
  /\ Fault("error")
  /\ Step(c, "RISS", "WISS")
  /\ \/ UNCHANGED link
     \/ link' = [link EXCEPT ![c] = SubSeq(@, rdn[c] + 1, Len(@))]
  /\ Len(link'[c]) < MaxUnread
  /\ UNCHANGED <<gateVars, out, rdn, batch, history>>

\* A byte of a record is changed on its way and the check byte no longer agrees.
Spoiled(r) == [r EXCEPT !.good = FALSE, !.win = [@ EXCEPT ![0] = Garbled]]

Damage(c, i) ==
  /\ Fault("damage")
  /\ i \in DOMAIN link[c] /\ link[c][i].type = "INPUT"
  /\ link' = [link EXCEPT ![c][i] = Spoiled(@)]
  /\ UNCHANGED <<gateVars, nst, out, rdn, batch, history>>

\* A console's simulation is disturbed by something that is not its input.
Disturb(c) ==
  /\ Fault("upset")
  /\ mode[c] = "play"
  /\ \E s \in Upset(sim[c]) : sim' = [sim EXCEPT ![c] = s]
  /\ UNCHANGED <<tick, ran, phase, loc, ring, rwat, stall, crcv, rsy, mode,
                 nst, out, rdn, batch, link, history>>

\* A console goes away.  The relay sees the connection close and says so in a
\* PEER_LEFT, or the console was unplugged and nothing ever arrives.
Leave(c, seen) ==
  /\ Fault("leave")
  /\ mode[c] = "play"
  /\ mode' = [mode EXCEPT ![c] = "left"]
  /\ IF seen THEN Forward(c, <<LeftFrame>>) ELSE UNCHANGED link
  /\ UNCHANGED <<tick, ran, phase, loc, ring, rwat, stall, crcv, rsy, sim,
                 nst, out, rdn, batch, history>>

-----------------------------------------------------------------------------
(* The handover of the boot bank, on both consoles. *)
Init ==
  /\ tick = [c \in Console |-> NoTick]
  /\ ran = [c \in Console |-> TRUE]
  /\ phase = [c \in Console |-> 0]
  /\ loc = [c \in Console |-> [i \in Slots(LocSize) |-> Idle]]
  /\ ring = [c \in Console |-> [i \in Slots(RingSize) |-> Idle]]
  /\ rwat = [c \in Console |-> NoTick - 1]
  /\ stall = [c \in Console |-> 0]
  /\ crcv = [c \in Console |-> Checksum(SimStart)]
  /\ rsy = [c \in Console |-> FALSE]
  /\ mode = [c \in Console |-> "play"]
  /\ sim = [c \in Console |-> SimStart]
  /\ nst = [c \in Console |-> "WISS"]
  /\ out = [c \in Console |-> <<>>]
  /\ rdn = [c \in Console |-> 0]
  /\ batch = [c \in Console |-> <<>>]
  /\ link = [c \in Console |-> <<>>]
  /\ faults = 0
  /\ samples = [c \in Console |-> 0]
  /\ used = [c \in Console |-> [t \in Ticks |-> Mix(c, Idle, Idle)]]
  /\ trail = [c \in Console |-> [t \in Ticks |-> SimStart]]

Frame(c) == BoundaryRun(c) \/ BoundaryStall(c) \/ BoundaryGone(c) \/ MidTick(c)

Transport(c) ==
  \/ WriteIssue(c) \/ WriteAck(c)
  \/ StatusNone(c) \/ \E n \in 1..MaxUnread : StatusSome(c, n)
  \/ ReadAck(c) \/ Consume(c) \/ ConsumeDone(c)

Faulty(c) ==
  \/ WriteFail(c) \/ StatusFail(c) \/ ReadFail(c) \/ Disturb(c)
  \/ \E i \in 1..MaxUnread : Damage(c, i)
  \/ \E seen \in BOOLEAN : Leave(c, seen)

Next == \E c \in Console : Frame(c) \/ Transport(c) \/ Faulty(c)

Spec == Init /\ [][Next]_vars

\* Video frames always come, the cartridge answers every transaction, and TCP
\* delivers what was sent: a console that keeps asking is told of it.
Fairness ==
  \A c \in Console :
    /\ WF_vars(Frame(c)) /\ WF_vars(Transport(c))
    /\ SF_vars(\E n \in 1..MaxUnread : StatusSome(c, n))

FairSpec == Spec /\ Fairness

-----------------------------------------------------------------------------
(* Properties *)

TypeOK ==
  /\ tick \in [Console -> NoTick..MaxTick]
  /\ ran \in [Console -> BOOLEAN]
  /\ phase \in [Console -> Slots(FramesPerTick)]
  /\ loc \in [Console -> [Slots(LocSize) -> Byte]]
  /\ ring \in [Console -> [Slots(RingSize) -> Byte]]
  /\ rwat \in [Console -> Int]
  /\ stall \in [Console -> 0..StallMax]
  /\ crcv \in [Console -> Sums]
  /\ rsy \in [Console -> BOOLEAN]
  /\ mode \in [Console -> {"play", "left"}]
  /\ sim \in [Console -> Sims]
  /\ nst \in [Console -> {"WISS", "WACK", "SISS", "RISS", "CONS"}]
  /\ out \in [Console -> Seq(Input)]
  /\ rdn \in [Console -> Nat]
  /\ batch \in [Console -> Seq(Frames)]
  /\ link \in [Console -> Seq(Frames)]
  /\ faults \in 0..MaxFaults
  /\ samples \in [Console -> 0..(MaxTick + 1)]
  /\ used \in [Console -> [Ticks -> Pair]]
  /\ trail \in [Console -> [Ticks -> Sims]]

\* The ticks c has run; before the first there is only the seed.
HasRun(c, t) == t < tick[c] \/ (t = tick[c] /\ ran[c])

\* Lockstep: whatever the two consoles' transports did, a tick both have run
\* was run on the same two bytes.
InputAgreement ==
  \A t \in 0..MaxTick :
    HasRun(Host, t) /\ HasRun(Guest, t) => used[Host][t] = used[Guest][t]

\* No desync: two consoles that were never disturbed enter a tick in the same
\* state, however many frames each of them stalled on the way.
SimAgreement ==
  \A t \in 0..MaxTick :
    t <= tick[Host] /\ t <= tick[Guest] => trail[Host][t] = trail[Guest][t]

\* The byte c commits its own player to for tick t.
Own(c, t) == IF HasRun(c, t) THEN used[c][t][c] ELSE loc[c][t % LocSize]

\* The sound records on their way to c, the mailbox of the sender included.
InFlight(c) ==
  LET all == batch[c] \o link[c] \o out[Peer(c)]
  IN  {r \in {all[i] : i \in DOMAIN all} : r.type = "INPUT" /\ r.good}

\* A record, once sent, is immutable (CBNT1): every record on its way says of a
\* tick what its sender runs that tick on.
RecordsImmutable ==
  \A c \in Console : \A r \in InFlight(c) : \A j \in Slots(Win) :
    r.win[j] = Own(Peer(c), r.stamp - j)

\* The watermark never covers a hole: from the tick a console is about to run up
\* to the newest it has heard of, the ring holds the peer's own bytes.
WatermarkHonest ==
  \A c \in Console : \A t \in TickNow(c)..Known(c) :
    mode[c] = "play" => ring[c][t % RingSize] = Own(Peer(c), t)

\* The eight-bit compares see through the wrap: the gate's, and the watermark's
\* for every record on its way.
WrapInvisible ==
  \A c \in Console :
    /\ Arrived(c) <=> rwat[c] >= TickNow(c)
    /\ \A r \in InFlight(c) : Newer(r.stamp, rwat[c]) <=> r.stamp >= rwat[c]

\* Neither console gets more than Delay + 1 ticks ahead of the other, so what a
\* ring holds for ticks still to run never laps itself.
SkewBounded ==
  \A c \in Console :
    /\ tick[c] <= tick[Peer(c)] + Delay + 1
    /\ Known(c) - tick[c] < RingSize

\* A repair is armed only when the two simulations did differ at the tick
\* (CBSCONS: "a false positive is impossible").
NoFalseAlarm ==
  [][\A c \in Console : ~rsy[c] /\ rsy'[c] =>
        trail[c][tick[c]] # trail[Peer(c)][tick[c]]]_vars

Pressed(in) == \E q \in Console : in[q].rst
Undisturbed(c, t) == trail[c][t + 1] = SimStep(trail[c][t], used[c][t])

\* A repair is one event on both consoles (CBRSY): after a tick either of them
\* ran with RESET pressed they are in the same state, whatever the new game has
\* cleared was before, unless one of them is disturbed again.  It heals nothing
\* else: CLOCK, MPace and the variation, say, have to agree already.
RepairHeals ==
  \A t \in 0..(MaxTick - 1) :
    /\ \A c \in Console : t < tick[c] /\ Undisturbed(c, t)
    /\ \E c \in Console : Pressed(used[c][t])
    /\ Survives(trail[Host][t]) = Survives(trail[Guest][t])
    => trail[Host][t + 1] = trail[Guest][t + 1]

\* The two consoles implement Lockstep (CBNET: "the tick runs only when both bytes
\* are known"): seen from the game, two gates, two transports and the relay are
\* two players whose bytes, once said, drive both copies of the game alike.
Plain == INSTANCE Lockstep WITH
  Bytes <- Byte, Seed <- Idle,
  said <- [c \in Console |-> [t \in 0..(tick[c] + Delay) |-> Own(c, t)]],
  done <- [c \in Console |-> TickNow(c)],
  state <- sim
ImplementsLockstep == Plain!Spec

\* The match goes on: stalls, catch-up bursts and all, the two transports and
\* the two gates never wait on each other for good.
Progress ==
  <>((\A c \in Console : tick[c] = MaxTick) \/ (\E c \in Console : mode[c] = "left"))

\* Nobody is left alone in a frozen match: when a console goes, with or without
\* a PEER_LEFT, the other one's stall watchdog takes it to the peer-left screen.
PeerGone ==
  \A c \in Console :
    mode[c] = "left" /\ tick[c] + Delay < MaxTick ~> mode[Peer(c)] = "left"

\* What CBSCONS says of the repair: "Records from before the repair are still in
\* flight and must not arm it again on their way past."  A press of c that c has
\* yet to run is a repair under way.
RepairArmedOnce ==
  [][\A c \in Console : ~rsy[c] /\ rsy'[c] =>
       \A t \in (tick[c] + 1)..(tick[c] + Delay) : ~loc[c][t % LocSize].rst]_vars
=============================================================================
