# Verification of FujiNet Combat netplay

Two Atari 2600 consoles play Combat in lockstep over the Internet.  Each runs a
bank-switched cartridge whose game bank holds a patched Combat behind a
*lockstep gate*, and whose kernel bank runs a *transport* in the time the beam
leaves over.  The transport talks to a FujiNet in the cartridge through a
mailbox; the FujiNet holds a TCP connection to a *relay*, which pairs consoles
and forwards their records.  This directory specifies those parts in TLA+,
checks them with TLC and proves most of their safety with TLAPS.

## 1. The system

| component | state it keeps | operations | talks to |
|---|---|---|---|
| capture and mix (`cbcap.inc`, `cbcrc.inc`, `CBMIX` in `cbinput.inc`) | `CBLOC`, `CBCRCV`, `CBE_RSY` | `CBCAP`, `CBRSY`, `CBCRC`, `CBMIX` | the gate calls it; the transport reads its rings |
| lockstep gate (`cbinput.inc`, `cbcap.inc`, `cbphi.inc`, `MLOOP` in `tools/patches.py`) | `CBTICK`, `CBE_RAN`, `CBE_PH`, `CBADV`, `CBERR`'s high nibble | a boundary that runs, a boundary that stalls, a mid-tick frame, `CBGONE` | shares `CBRING`, `CBRWAT`, `CBERR`, `CBE_RSY` with the transport |
| transport (`cbnet.inc`) | `CBNST`, `CBSEQ`, `CBRDN`, the reply window | one state of `CBNSTEP`: WRITE, STATUS and READ issued and answered, CONSUME, fail | the mailbox below, the gate's cells above |
| desync detection and repair (`CBSCONS`, `CBRSY`) | `CBE_RSY`, the press on the wire | compare, arm, press | rides on records and on the delay ring |
| session and boot (`cbsess.inc`, `cbboot.asm`, `cbappk.inc`) | the socket, the name, `CBENT` | OPEN, HELLO, wait for START, hand over, local play, peer-left screen | mailbox, relay |
| bank switching (`cbtail.asm`, patches) | the WARM, NET, LEFT bits of `CBENT` | `CBGOTO`, `CBCOLD`, `CBGENT`, `CBCLR` | all banks |
| mailbox (`cbcore.inc`, `fujinet.inc`) | `FNSEQ`, the cartridge's `ACKSEQ` | `FNBEG`, `FNGO`, `FNACK`; `CBLNCH`, `CBACK` | the cartridge |
| relay, Python (`combat_relay_server.py`) | connections, names, partners, output buffers, checksum logs | accept, HELLO, pair, forward, drop, sweep, flush | consoles, lobby publisher |
| relay, C (`server/c/src/combat-relay.c`) | the same in slots with generations | the same, and a deferred reap | the same |
| lobby publishers (`LobbyPublisher`, `server/c/src/lobby.c`) | the payload, `dirty`, `stop`, the worker's thread | update, keepalive, POST, shutdown | relay thread, HTTP |
| patches, split and gates (`tools/patches.py`, `mkbanks.py`, `mktail.py`, `checkbanks.py`, `checkrom_filter.py`, `check_patch.py`, `build.sh`) | the patch list, the regions of the two banks, the declared sites | apply, split, assemble, and four gates the build stops at | the sources of all banks |
| Combat itself | the game's variables | one tick of the game | gate, mix, checksum |
| display (`cbdisp.inc`) | none that others read | text | beam |
| test drivers and probes (`recon.py`, `server_diff.py`, `combat_client_sim.py`, `playdiff.py`, `dasm2as.py`, `emu/`, `test/`) | none that a match depends on | scripted clients, comparisons, conversions | relay, emulator |

What is hard about it:

* *Interleaving.*  The transport is not locked to the tick.  Any number of its
  steps run between two gates, and any number of gates while a transaction is
  unanswered.  The two share cells without any lock.
* *Agreement without a protocol.*  Nothing ever acknowledges a record.  A tick
  is run when the watermark says its input has come, and the watermark is only
  the newest stamp seen.
* *Eight bits.*  Ticks wrap every 256; the gate compares by sign, the relay
  rebuilds the lap from the stream.
* *Faults.*  Failed transactions, damaged records, a simulation that differs, a
  console that vanishes with or without a PEER_LEFT.
* *Two lifetimes.*  RESET restarts the console and not the cartridge, whose
  answer to an earlier transaction may still be on its way.
* *Hand-made references.*  The C relay refers to connections by slot and
  generation, frees a slot at the end of an iteration only, and is handed
  events about connections that may have gone.
* *Threads.*  A relay's publisher sleeps for minutes, is woken without a lock
  held in one of the two versions, and is abandoned after twelve seconds.
* *Edits.*  A patch that moves a line files half of Combat into the wrong bank,
  and the assembler says nothing.
* *Sequences of matches.*  The relay keeps a survivor, pairs it again, and
  queues frames that are read after more has happened.

What makes each part correct is what the properties in section 4 say.

## 2. Modules

    Lockstep ◁── NetPlay ──── MCNetPlay (NetPlayWrap, Fault, Live, Gap, Rearm .cfg)
                   │
                 NetPlayInv ─ NetPlayProofs ─ NetPlayAgreeProofs
    CrcLog ──┬── CrcMatch ─┬─ MCCrcMatch (CrcMatch.cfg)
             │             └─ CrcMatchProofs
             └── Relay ──┬── MCRelay (Relay.cfg, RelayGhost.cfg)
                   △     └── RelayProofs
                 CRelay ─┬── MCCRelay (CRelay.cfg)
                         └── CRelayProofs
    Session ──┬─ MCSession (Session.cfg)
              └─ SessionProofs
    Lobby ────┬─ MCLobby (Lobby.cfg)
              └─ LobbyProofs
    Banks ────── Build ──┬── MCBuild (Build.cfg)
                         └── BuildProofs

Lines are EXTENDS; the triangles are INSTANCE with a refinement mapping: NetPlay
is shown to implement Lockstep, CRelay to implement Relay, and `CRelayProofs` takes
the theorems of `RelayProofs` over by the same mapping.  Operators whose
name is a definition's with a suffix (`Mix_NoSwap`) are plausible bugs of that
definition: put in its place, each makes TLC find a property violated.

### NetPlay: two consoles in a match

It composes capture, gate, transport, detection and repair on both consoles with
the path between them.  An action is one thing a console does without
interruption: the gate of one frame (`BoundaryRun`, `BoundaryStall`,
`BoundaryGone`, `MidTick`) or one micro-step of the transport (`WriteIssue`,
`WriteAck`, `StatusNone`, `StatusSome`, `ReadAck`, `Consume`, `ConsumeDone`, and
the ways into `CBSFAIL`).

| TLA+ | program |
|---|---|
| `tick`, `ran`, `phase` | `CBTICK`, `CBE_RAN`, `CBE_PH` |
| `loc`, `ring`, `rwat` | `CBLOC`, `CBRING`, `CBRWAT` |
| `stall`, `crcv`, `rsy` | `CBERR`'s high nibble, `CBCRCV`, `CBE_RSY` |
| `nst`, `out`, `rdn`, `batch` | `CBNST`, the WRITE in the mailbox, `CBRDN`, the reply window |
| `link[c]` | records between the peer's FujiNet and `c`'s, in TCP's order |
| `samples`, `used`, `trail` | history only: no guard and no program variable reads them, save `samples`, which gives a captured byte its identity |

Abstractions.  A tick is an integer, and every place where the program reads the
byte goes through `%` with `TickMod`: the compares are the sign of the
difference modulo `TickMod`.  A wire byte is who captured it, at which
capture, and whether RESET is pressed by a repair: two samples are never equal,
so any mix-up of bytes is visible, also the ones that idle players would hide.
The record's check byte is a Boolean.  Combat is `SimStep`, an arbitrary
function of the state and the two bytes, and `Survives` is what of a state a new
game leaves alone: RESET clears `$89`-`$A2` and sets the positions
(`cbdefs.inc:193`), and `CLOCK`, `MPace` and the game variation keep what they hold.  For TLC a state is
seven values that a press of RESET clears and two that it leaves alone, `CBCRC`
covers both, and `Upset` changes the one or the other.  `STATUS` and its answer are one step:
between issuing it and reading its answer nothing of its own is used.  `READ`
takes effect when its answer is polled.  `CBERR`'s low nibble, a number for the
screen, is left out, as is the diagnostic build (`CBLAG`).

The transport does nothing before its console's first boundary (`tick` is
`NoTick`): `CBWAIT` comes after the gate in a frame.

### Lockstep: what a match promises

Two players, no network.  `said[c][t]` is the byte `c` has committed to for tick
`t`; it grows by one byte per tick run and is never taken back; a tick is run on
the bytes both have committed to it.  NetPlay implements it (`Plain` and
`ImplementsLockstep`): `said` is what each console ran its own player on, then
what waits in `CBLOC`; `done` is `TickNow`; `state` is `sim`.  Every step of the
transport, the relay and the path is a stutter of Lockstep, and a gate is one turn
of one player.  This is where captures that are repeated, records that are late
and rings that lap would show as a change of history.

### CrcLog, CrcMatch: the relay's checksum log

`CrcLog` is `log_crc`: for each connection an insertion-ordered map from
lap-extended tick to checksum.  `Assign` is Python's dict, or `crc_set` with C's
array of `CRC_SLOTS`, whose newest entry gives way when it is full.  `CrcMatch`
drives either (`slots`) as a match does: each
console's stamps never go back, may repeat and may skip, and keep within
lockstep's distance of each other; the two disagree at one tick, chosen in
`Init`, or at none.  `MatchAssumption` is what the verdict needs of the program:
two consoles, a skip of less than half a lap, a first record of the first lap
(the delay is 2, a lap 256), a log that holds what one console can be ahead by
(eight entries, against the `2d + 2` stamps lockstep allows), and an array larger
than what is kept.

### Relay: the server

One action per event the single-threaded loop handles: `Accept`, `Hello`, `Join`,
`Query` (LIST and PING), `Input`, `Gone` (every way into `drop`), `Flush`.  All
work done within an event is in its action: `Hello` names, registers, counts and
pairs.  `tx` holds frames; `Flush` hands any number of them to the console, whose
reading is `heard`: the lobby, an opponent, or the peer-left screen.  `LogSlots` is
the one thing in which the two relays are not the same: what a log has room for.  The kernel's
buffers and the network are part of `tx`: bytes not yet read.  A dropped
connection is a discarded object; `Conn` are sockets and come back.

What is assumed of clients: HELLO once, no record before a START is read, nothing
after BYE (the server would still forward it), and the reserved JOIN from an
unpaired console only.  The ROM does all of this.  Records may follow a PEER_LEFT: the
ROM's survivor runs the ticks its ring still holds, and its transport goes on until
the watchdog ends the match (`cbinput.inc:126`).

### CRelay: the relay in C

The same events with what C keeps by hand.

| TLA+ | program |
|---|---|
| `client[s]` | `clients[s]`: `in_use`, `dead`, `gen`, `name`, `partner` (an index), `role`, the backlog and the log; `conn` says whose slot it is |
| `order` | `order[]`, the live slots in the order of their births |
| `by_name` | the name table: slot and generation |
| `phase`, `tags`, `walk` | where the loop is; the tags `epoll_wait` returned; what is left of `snap[]` |

`Batch` handles one event of the batch, in any order, among them the one accept
an iteration makes; `FlushNext` goes through the snapshot, where a `send()` that fails
drops a connection as an overlong backlog does; `Sweep` and `Poll`
end the iteration, and `Poll` frees the slots of the dropped, advances their
generations and polls again.  `drop` marks a slot dead, releases the partner, but
leaves the partner's index in the dead slot, as the code does.

The refinement maps every index to the connection of the slot it names and a
connection without a live slot to what a discarded object is in Relay.  `LogSlots`
is the room of the logs of the Relay it is compared with: None for Python's dict, as
in the run, or `CRC_SLOTS`.  So
`ImplementsRelay` says that whatever is dropped, reused and polled within one
iteration, no frame, name or pairing goes to a slot's next connection.  `TagsHonest`
and `IndicesLive` are the reasons, stated on the C side.

A refused connection (no free slot although `order[]` has room, section 6) is a
stutter: Relay's `Accept` need not happen.

### Session: outside of a match

From power-on or RESET through the session into Combat's frame loop and back:
`Cold`, `Boot`, `Clear`, the ten transactions of the session (`Launch`,
`Answered`, `Timeout`), `Handover` or `Local`, then `Gent`, `Start`, `Frame`,
`Transport`, `Vout` from bank to bank, `Gone` and `PressReset`.  `Restart` may
happen anywhere: RAM stays what it was, `CBENT` included, and the cartridge
stays what it was.

The mailbox is `seq`, and on the cartridge's side `reg` (`FR_SEQ`), `job`, `ack`
(`ACKSEQ`) and `answer`.  Each transaction carries whose it is: the one the
console waits for, an old one, or one that was in flight at a restart.  That tag
is history; the program sees numbers only.  The cartridge launches a number that
is neither zero nor `ACKSEQ` (`fujinet.inc:60`), works on one transaction at a
time, and may die at any moment, or be dead from the start.

`Timeout` is the nine seconds of `CSGO`: the cartridge is dead, or merely slow, and may
answer any time after, also while the next transaction waits (`late`).

Not in Session: what a transaction says, and the socket it leaves open.

### Lobby: the publishers

Both versions in one module (`port`).  The relay's thread counts players and
shuts down; the worker waits, takes the payload under the lock, and POSTs.  A POST
is two steps: the Lobby takes it, or not; its sender hears back, or gives up.  A request
that was given up on its timeout stays on its way: `late` counts them by what they
say, and `TakenLate` lets the Lobby take one at any time, after any number of later ones.
`taker` is history: whose request the Lobby took last.  The versions differ where the code does:
Python sets its stop flag and notifies in two steps outside of each other's lock and
tests the flag outside of the lock; C does both under it.  `Again` is the second
signal, `Unreadable` an answer that raises something other than an `OSError`.

### Banks, Build: from the patch list to the image

A line of `rom/combat.asm` is its number, address and length; no two have the same
bytes.  `Apply`, `Bucket`, `Place` and `Image` are `patches.apply` and
`mkbanks.py`; `Changed`, `Undeclared`, `Unused` and `Audit` are `check_patch.py`.
`Build` runs `build.sh`'s steps on an *edit*: a state of the patch list, code
laid over lines, a listing of the tail and of a bank, findings of `checkrom.py`.
The properties say of every edit that an image that comes out is the one meant.
The assembler itself and `checkrom.py` are external.

## 3. Runs and their bounds

| run | question | bounds and why they are enough |
|---|---|---|
| `lockstep_wrap` | does lockstep hold past the wrap of the tick byte, and does NetPlay implement Lockstep? | delay 1, window 2, ring 4, `TickMod` 12 with ticks to 12, so that every cell wraps and slots are used several times; two unread records a path, so batches of two |
| `lockstep_faults` | does one fault anywhere cost agreement, and is a repair one event? | error or damage at any step of the first five ticks; from the second on, a disturbance of what a new game clears, and in the second of what it leaves alone (a repair of a later one would end past the bound); the program's window of three, rings 8 and 4; delay 1, so that a repair both consoles arm is run within the bound |
| `match_goes_on` | does the match go on, does a survivor notice, and did the two agree until then? | three ticks of two frames, one departure at any step, fair |
| `checksum_verdict` | is the verdict right, Python's and C's? | ten ticks over a tick byte of six values, three entries kept, two ticks of distance, skips of two; dicts, or arrays of four, which fill and are overwritten |
| `relay_pairing` | are matches pairs, streams well formed, the roster right? | four connections at once, each any number of times; all ask for one name; a backlog of one frame, so a connection may be dropped with two or three queued |
| `relay_in_c` | does the C relay do only what Python's does? | three connections in three slots, so that a slot is freed and taken again while the other two are matched, polled or waiting; two generations |
| `lobby_publisher` | is a change slept through, does a room stay taken away? | both versions, three updates, counts to two, so that a count comes back to an earlier one; of each payload one request that was given up and is still on its way |
| `session_boot` | whose answer is taken, how is each bank entered, does a start settle? | three restarts, at any point; sequence numbers modulo 4; every `CBENT` and every `ACKSEQ` at power-on |
| `build_gates` | does an image come out that nobody meant? | every pair of bad entries of the patch list, each line laid over, listings ending within three bytes of each limit; findings at the edges of each region, since a build stops at them |
| `window_gap`, `repair_armed_twice`, `relay_ghost` | three statements the repository makes of the program | see section 6 |

Bounds of `NetPlay`, all in guards: `MaxTick` (no boundary past it),
`MaxUnread` (records a path holds: a WRITE waits for room, and a console reads
before it writes again), `MaxFaults`, and three that are assumptions:

* `MaxLag`: while the peer plays, a console does not start a tick before the peer
  has consumed all its records but those of the last `MaxLag` ticks.  With
  `MaxLag <= Win` this says that a path (mailbox, TCP, relay) is never more than
  a window behind.  The program does not enforce it: `window_gap` shows what
  happens without.  The clock theorems of section 5 do not need it.
* `MaxStall`: a console whose peer plays does not stall its watchdog to the top.
  With it `left` is reached by a departure only; a false departure ends a match
  and can break none of the properties, which speak of ticks both have run.
* `BiteMax`: the records of one capped READ, 31 in the program.  A READ takes any number
  of the unread ones up to it (TCP has delivered those), so a bite that leaves some
  unread is exercised wherever a path holds two, capped or not.

`TickMod` must exceed the distances compared; `SizeAssumption` states how much,
and that the rings divide it.  Symmetry: `Host` and `Guest` are exchanged as a
pair; the role is only who is player 0, which `Mix` fixes by name on both
consoles alike.  `match_goes_on` has no symmetry.  Deadlock is not checked where
a console may leave, in `CrcMatch`, which ends
with its last tick, in `Lobby`, which ends with its process, and in `Build`.

Bounds of the relays.  `MaxTx` is the backlog; `Room`, a guard of what queues a
frame on an event, lets an overlong backlog be seen by a sweep, a drop or a flush
but not grow.  In C `CrcSlots` and `Gens` stand for sixteen slots and 32 bits.
Both relay runs have a VIEW.  `Relay` drops the checksum logs, which `CrcMatch`
is about and nothing else reads.  `CRelay` drops them too, what is left in a slot
that is not live, and the value of a generation: two states are one if the same
tags and names agree with their slots.  With two generations a tag older than
one reuse would look fresh again; within an iteration a slot is taken once.

Fairness.  Of `match_goes_on`: weak fairness of each console's frames, which
the television standard guarantees; weak fairness of each transport, which
`CBWAIT` steps on every frame; and strong fairness of a STATUS that finds
records: it may find none any number of times, but TCP delivers, so a console
that goes on asking is told.  Of `lobby_publisher`: the worker is scheduled, its
keepalive comes round, a POST ends (both versions set a timeout), and, strongly,
one that is tried again and again is taken once.  Of `session_boot`: the program
runs, and a cartridge that has not died answers, in its own time: no fairness says
that it is sooner than `Timeout`; nothing makes it live.

## 4. Properties

Of a match (`NetPlay`):

* `InputAgreement`: a tick both consoles have run was run on the same two bytes.
* `SimAgreement`: consoles nobody disturbed enter each tick in the same state,
  however many frames each stalled.
* `RecordsImmutable`: every sound record on its way says of a tick what its
  sender runs that tick on, now or later.
* `WatermarkHonest`: from the next tick up to the watermark the ring holds the
  peer's own bytes.
* `SkewBounded`, `WrapInvisible`: how far apart the clocks get, and that the
  eight-bit compares decide as the unbounded ticks would.
* `NoFalseAlarm`, `RepairHeals`: a repair is armed for a real difference only,
  and after the tick that runs it both consoles are in one state, if they agreed on
  what a new game leaves alone.  What it leaves alone it does not heal (section 6).
* `Progress`, `PeerGone`: the match reaches its last tick, or somebody leaves;
  and who stays behind leaves too.

Of the relay: `PartnerMutual`, `Bracketed` (what a console is sent is a sequence
of matches, each begun by START, with that opponent's records only, ended by one
PEER_LEFT, and agrees in the end with the server), `RosterHonest`, `OneWaiting`
(two consoles that have had no match never wait side by side), `VerdictRight`.

Of the C relay: `TagsHonest` (an event that is handled is about the connection it
was polled for), `IndicesLive` (every index in use names a live slot that refers
back), `ImplementsRelay`.

Of the lobby publishers: `AsleepUpToDate` (a worker that sleeps after a POST that
was answered has nothing to say), `OfflineLast` (after a shutdown nothing puts the
room back, unless the join ran out on a POST), `CountPublished` (failures and all,
the Lobby ends with the last count while the worker lives).  The first two hold as
long as the last request the Lobby took is not one its sender had given up: such a
request puts an older count, or the room itself, back (section 6).  The third has no
such exception, since the keepalive overtakes it.

Of session and boot: `AnswerIsOwn` (an answer taken is the answer to what was
launched; the exceptions are named in it, an answer from before a restart or of a
transaction that was given up, and both end in soft failures), `FrameLoopReady`
(the frame loop runs on variables START set up, networked exactly when the session
ended in a match, with the handed-over cells intact), `Settles` (every start ends
in the frame loop, provided no wait for an opponent lasts for ever: of that case,
which the repository promises too, the code keeps no promise, see section 6).

Of the build: `CleanBuilds` (the gates have no false alarm), `EveryReadPatched`,
`NothingUndeclared`, `NothingCutOff`.

## 5. Proofs

`NetPlayProofs` proves, for all values of the constants
the named assumptions admit (any delay, window, ring, tick width, frames per
tick, faults, path lengths and number of ticks):

* `TypeCorrect`: `Spec => []TypeOK`, one lemma per group of actions.
* `ClockInvariant`: `Spec => []IInv`, the inductive invariant of `NetPlayInv`:
  typing, the shape of the transport, and for each console `Gate` (it is at most
  one tick past its watermark, and has not run that one), `Stamped` (no stamp
  passes its sender's tick plus the delay), `InOrder` (paths are sorted and ahead
  of the watermark) and `Cursor` (the batch behind the backward cursor is either
  all news or at most `2 * Delay + 3` behind).
* `SkewCorrect`, `WrapCorrect`: the two clock properties, read off `IInv`.

Neither `SkewBounded` nor `WrapInvisible` is inductive: both need that records
in the mailbox, on the path and in the reply window are bounded by their
sender's tick, and the watermark's compare needs `Cursor`, since the cursor runs
backwards through a batch whose newest record has moved the watermark already.
The argument is a circle of four inequalities: a console's tick is at most its
watermark plus one, the watermark at most the peer's tick plus the delay, and
the same the other way round; so ticks are at most `Delay + 1` apart and all
differences compared are below half of `TickMod` by `SizeAssumption`.

`NetPlayAgreeProofs` goes on from `IInv` to what the match is about.  Its
hypotheses are named in `NetPlayInv`:

* `ShortPaths`: no path falls more than a window behind, and a ring holds a window
  that late.  The program does not enforce it.  The instances of `lockstep_wrap` and
  `lockstep_faults` satisfy it; that of `window_gap` does not, and there TLC finds the
  hole.
* `ResetRestarts`, for the repair: the state a tick run with RESET pressed leads to
  depends on the input and on what a new game leaves alone, and on nothing else of the
  state before.
* `"upset" \notin FaultKinds`, for the states: nothing but its input moves a game.
  Failed transactions, damaged records and departures are all allowed.

`BytesInvariant` proves `BytesInv`, the inductive invariant.  For each console:
`Kept` (the local ring still has what the next record's window needs), `Sampled`
(the checksum cell is that of the boundary it was taken at), `Truthful` (every sound
record says of its ticks what its sender runs, and carries the checksum it had),
`Lag`, `Behind` (the cursor going backwards through a batch is above the watermark
or within a window below it), `Heard` (the ring holds the peer's own bytes up to the
watermark) and `Agreed`.  No part can be left out: `InputAgreement` follows from
`Agreed`, a tick agrees because the ring was right, the ring is because each record
was, and a record is because the local ring still held what it was made from.  The
hard case is a record of a batch consumed behind a newer one: it overwrites slots
that the newer one set, and is right because it says the same of them, and leaves
no gap because its window reaches the watermark it finds.  From this:

* `InputsAgree`, `RecordsKept`, `WatermarkCorrect`: `InputAgreement`,
  `RecordsImmutable` and `WatermarkHonest`;
* `AlarmsTrue`: `NoFalseAlarm`.  `CBSCONS` compares its one checksum cell with a record
  only when the stamps say both are of one boundary, and eight bits are enough to
  say that;
* `RepairCorrect`: `RepairHeals`, from the agreement of the inputs and `ResetRestarts`;
* `StatesAgree`: `SimAgreement`, by `SimInv`: how a console got to its state is
  the bytes it ran, so equal histories give equal states;
* `LockstepImplemented`: NetPlay implements Lockstep.  A boundary that runs is
  Lockstep's `Turn` of that player, all else is a stutter: `said` never loses what
  `used` had, since a stall captures for a tick that is not yet captured.

`CrcMatchProofs` proves `VerdictCorrect`.  `MatchInv` has `OnLap` (lap and tick byte
give back the tick), `Rising` (entries are at least as many ticks apart as they are
places, so what is evicted by age is out of the partner's reach), `Reported` (an
entry is one the console has made) and `Dispute` (a disputed tick that one console
has reported waits in its log as long as the other is before it).  For C's array there is
one more part, `Passed`: an entry beyond the `Keep` oldest is of a tick the partner has
come to, since a report the partner has not made yet is trimmed.  What a full array
overwrites is its newest entry, hence one that waits for nobody, so both relays give
the same verdict on every match.

`RelayProofs` proves every invariant the run of `Relay` checks
(`RelayTypeCorrect`, `PartnerCorrect`, `BracketedCorrect`, `RosterCorrect`,
`WaitingCorrect`) for any connections, limits and reports and finitely many names.
The invariant `RelayInv` has one part per thing the server keeps: `Listed` (a
connection is in the list once), `Roster` (whoever has a name is listed and holds
it, and nobody else holds one), `Matches`, `Queues`, `Alone` (of those who have
read themselves to the lobby, or will, one waits) and `Logs`.  `Queues` says of
each console that what is queued is a sequence of matches from where it is, and
that at its end it is where the server has it.  That is what makes a drop safe: the
PEER_LEFT goes to a console whose queue ends in that very match, and the next
START to one whose queue ends outside of any.  The lemmas `HeardAppend` and
`HeardSplit` say that reading frames in two parts is reading them at once, which is
all a flush of any length does.

`SessionProofs` assumes that the sequence number's modulus is above two
(`SessionAssumption`; with two, zero being reserved, every transaction would have
the number 1) and proves, for any number of restarts, `SessionTypeCorrect`,
`AnswerCorrect` and `FrameLoopCorrect`.  That an answer is the console's own is
not inductive.  It needs `OneBehind` (the cartridge is at most one transaction
behind what is committed), `Ours` (what a console waits for it launched itself,
and what a living cartridge still holds while nobody waits is left over from a
restart) and `Early` (what is left over is answered before the second
transaction after the restart): the first transaction takes the number of the one
left over or the next, and in neither case is the old answer taken for it.
`FrameLoopReady` needs `Entered`, which ties the flags of `CBENT` and the cells to
the place the program is at along each way into the loop.

`CRelayProofs` proves, for any slots, connections, names, generations and limits
`CRelayAssumption` admits:

* `CRelayAlways`: `CRelayInv`, with `Slots`, `Owners` (a connection has one live
  slot), `Listed` (`order[]` has each live slot once), `Matches`, `Roster` and
  `Polled` (a slot that has been polled keeps its generation and its connection
  until the next poll).
* `TagsCorrect`, `IndicesCorrect`: `TagsHonest` and `IndicesLive`.  `Polled` is why:
  since a slot is freed only when no tag is left, the test of the generation can
  never fail on a slot in use, and is a second line of defence behind `dead`.
* `RelayImplemented`: `LogSlots = CrcSlots => (Spec => ImplementsRelay)`.  The C relay
  does what Relay does with logs of `CRC_SLOTS` entries, without a condition: the one
  difference between the two programs is the one `LogSlots` names, and
  `VerdictCorrect` says that no verdict shows it.
* `RelayImplementedInRoom`: `Spec /\ []Fits => ImplementsRelay`, for `LogSlots` None as
  well, which is the Python relay itself.  `Fits` says that each live slot's log has
  room for one more entry.  It is a hypothesis and not an invariant: the branch for a
  full array (`combat-relay.c:470`, "unreachable") is reached once a console has been
  the second to report sixteen ticks in a row, since only a report without a partner's
  is trimmed.  In the instance of `relay_in_c` logs never fill.
* `CRelayKeepsPromises`: what `RelayProofs` proves of the relay, typing, mutual
  partners, well-formed streams, an honest roster and nobody waiting beside another,
  holds of the C relay.  `Proved` is an instance of `RelayProofs` under the
  refinement mapping; its assumptions follow from `CRelayAssumption`, and the lemmas
  `Same...` say that its relay and that of `ImplementsRelay` are one.

Every event, flush and sweep is one step of Relay, or none.  The mapping forgets
slots, so the lemmas say of each C operation what it does to connections: dropping
a slot is Relay's `Drop` of its connection, the first of `Waiting` in `order[]` is the
connection with the lowest birth, and allocating a free slot changes nobody else.

`BuildProofs` proves `OthersDeclared` (`NothingUndeclared`) for any listing of Combat
and any set of edits.

`LobbyProofs` proves `LobbyTypeCorrect`, `AsleepCorrect` and `OfflineCorrect` of
both publishers for any number of players and changes.  The invariant is `Known`
(a worker that waits has nothing dirty, and a payload that is not dirty has the
count) and `Last` (what can still reach the Lobby once the relay is shutting
down: each POST in hand with the join not run out says offline).  A request that was
given up is outside of it: what it says is bounded by nothing the publisher does
afterwards, which is why both properties name it.

Only model-checked:

* liveness under fairness (`Progress`, `PeerGone`, `CountPublished`, `Settles`), which
  is out of the prover's reach;
* `CleanBuilds`, `EveryReadPatched` and `NothingCutOff`.  They rest on folds over a
  listing (`BankFits`) and sums over the lines of a region (`Place`), whose values
  can only be had by induction over the data; and `EveryReadPatched` holds of one or
  two edits at a time, not of all (other code laid over a line that a missing patch
  was for hides it from the audit).

## 6. What the runs found

1. `window_gap`.  Between two WRITEs more than three ticks can pass: records
   already on their way keep both gates open for up to `2d + 1` ticks.  The
   window of three then misses a tick, the watermark covers it, and the slot
   holds an older lap's byte.  `cbnet.inc:153` says lockstep prevents this.  The
   cursor's direction (`cbnet.inc:315`) makes the same hole visible for the time
   it takes to consume a batch.
2. `repair_armed_twice`.  The bit that says a repair is armed is cleared when the
   press is captured, `Delay` ticks before it is run; a record that was under way
   arms it again.
3. `relay_ghost`.  The survivor of a match stays connected and idle on the
   server while its ROM has gone to the peer-left screen, so that the next
   console to arrive is paired with it.

What came up while modelling, without a run of its own:

* A PEER_LEFT saturates the stall counter, but a tick whose input is in the ring
  still runs and clears it (`cbinput.inc:126`); `cbnet.inc:341-344` calls the
  leave instant.  It is waited out by the watchdog like any other (`PeerGone`).
* A report that is the second of its tick is not trimmed and leaves its entry
  behind (`combat_relay_server.py:347`): one console of a match usually is the
  second, and its log grows for the whole match.  The C relay's sixteen slots, said
  to be unreachable, fill up for the same reason (`combat-relay.c:470`); what is
  overwritten then changes no verdict (`VerdictCorrect`).
* `combat-relay.c:642`, marked unreachable, is reached: with the house full, a
  drop and an accept in one batch find no free slot though `order[]` has room.
* `cbsess.inc:301-303` lists "an opponent who never turned up" among the ways to
  local play, and `README.md:54` says that with no opponent it is simply Combat; the
  wait for START has no timeout (`cbsess.inc:211`), so a console whose relay is up and
  empty waits for ever.  `Settles` excludes the case by its hypothesis.
* The transaction in flight at a RESET has the number the first one after it is
  given, so its answer is taken.  The first one is the open of an appkey, whose
  failure is soft (`AnswerIsOwn`).
* Whatever fails after HELLO leaves the socket open: the relay counts the
  console as waiting and pairs it.
* A patch of the frame loop that changes nothing passes the audit: all of them
  share one declared span, and `check_patch.py` wants one change per span.
* `checkrom_filter.py:65` un-shifts addresses of the fixed half too, and drops
  findings inside `CBPHI`, code that lies in a table's filler at `$17F4`
  (`cbgame.asm:57`): the declared range counts as data as a whole.  No property says
  that no finding is lost, since of this code it is false and of all other code it is
  the filter's own test.
* A repair presses RESET, which clears `$89`-`$A2` and sets the positions
  (`cbdefs.inc:193`).  `CBCRC` covers more: two consoles that differ in the game
  variation, for which it was widened (`cbcrc.inc:15-20`), detect it, restart the
  game, and differ still.  The repair is then armed again and again, against
  `README.md:101` ("They put themselves back together").  `CLOCK` and `MPace` are
  neither compared nor healed.
* A POST that ran into its ten seconds may be taken after later ones.  The docstring's
  "the offline POST on shutdown is what takes it away" (`combat_relay_server.py:460`)
  fails when an online POST timed out before it and is processed after it: the room is
  then listed until something else publishes it.
* A cartridge that answers after the nine seconds of `CSGO` answers the transaction
  that follows: a `nameclose`, `urlopen`, `urlclose` or `open` is taken for done, or for
  refused, on another's answer (`AnswerIsOwn`).
* `mktail.py:36` does not see code that starts at `$1FFC` or above.
* Python's publisher loses the stop notification when it falls between the
  worker's test and its wait, and the join takes its full twelve seconds
  (`tools/test_lobby_pub.py:129` allows eight).  A second signal aborts the shutdown before the
  room is taken away, and an answer that is not HTTP ends the worker's thread.
* JOIN pairs a console that is in a match already (`combat_relay_server.py:304`);
  no ROM sends it.

## 7. Not modelled, and the plan

Not modelled:

* the display (`cbdisp.inc`), which composes text and changes no state others read;
* Combat's own source, which is not in the repository: it is `SimStep`;
* the assembler, `dasm2as.py` and `checkrom.py`: a line is its address and length;
* the test drivers, comparisons, MAME scripts and the hardware probe: straight
  lines of input and output around the parts modelled;
* sockets and HTTP below whole frames and POSTs, and what a frame of the wrong
  length or version does beyond dropping its connection.

Next, in this order:

1. *A match through the relay*: `NetPlay` with `Relay` in place of its path, for
   records of an old match that reach a new partner, and which survivor is chosen.
2. *How far a path falls behind*: a bound on `MaxLag` from the transport's states
   and the frames a transaction takes, to say where `ShortPaths` is met.
