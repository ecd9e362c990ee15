---------------------------- MODULE NetPlayInv ----------------------------
(***************************************************************************)
(* The inductive invariant of NetPlay, in named parts: what has to be true *)
(* of the two gates and of the records between them for the properties of  *)
(* NetPlay to hold, stated without a bound on faults, paths or ticks.      *)
(***************************************************************************)
EXTENDS NetPlay

\* The INPUT records of a path, damaged ones included.
Records(s) == {s[i] : i \in {k \in DOMAIN s : s[k].type = "INPUT"}}

\* No record is behind a newer one.
Ordered(s) ==
  \A i, j \in DOMAIN s :
    i < j /\ s[i].type = "INPUT" /\ s[j].type = "INPUT" => s[i].stamp <= s[j].stamp

Below(S, T) == \A q \in S, r \in T : q.stamp <= r.stamp

\* One capture a tick, and the cursor of the reply window inside the window.
Shape(c) ==
  /\ samples[c] = tick[c] + 1
  /\ tick[c] = NoTick => ran[c]
  /\ nst[c] = "CONS" => Len(batch[c]) = rdn[c]
  /\ nst[c] # "CONS" => batch[c] = <<>>
  /\ nst[c] = "RISS" => rdn[c] <= Len(link[c])
  /\ Len(out[c]) <= 1

ShapeInv == \A c \in Console : Shape(c)

\* A console is at most one tick past its watermark, and then it has not run.
Gate(c) ==
  /\ ran[c] /\ tick[c] # NoTick => tick[c] <= rwat[c]
  /\ tick[c] > 0 => tick[c] <= rwat[c] + 1

\* Nothing is stamped further ahead than its sender's own tick allows.
Stamps(c) == Delay..(tick[Peer(c)] + Delay)

Stamped(c) ==
  /\ rwat[c] = NoTick - 1 \/ rwat[c] \in Stamps(c)
  /\ \A r \in Records(batch[c]) \cup Records(link[c]) \cup Records(out[Peer(c)]) :
       r.stamp \in Stamps(c)

\* The path is in order, and ahead of the watermark.
InOrder(c) ==
  /\ Ordered(batch[c]) /\ Ordered(link[c])
  /\ Below(Records(batch[c]), Records(link[c]) \cup Records(out[Peer(c)]))
  /\ Below(Records(link[c]), Records(out[Peer(c)]))
  /\ \A r \in Records(link[c]) \cup Records(out[Peer(c)]) : rwat[c] <= r.stamp

\* What the backward cursor has yet to reach: all of the batch is news, or its
\* newest record has been consumed and the rest is a little behind it.
Cursor(c) ==
  \/ \A r \in Records(batch[c]) : rwat[c] <= r.stamp
  \/ \A r \in Records(batch[c]) :
       rwat[c] - (2 * Delay + 3) <= r.stamp /\ r.stamp <= rwat[c]

Path(c) == Stamped(c) /\ InOrder(c) /\ Cursor(c)

ClockInv == \A c \in Console : Gate(c) /\ Path(c)

IInv == TypeOK /\ ShapeInv /\ ClockInv

-----------------------------------------------------------------------------
(* What the bytes and the checksums are. *)

\* A path never falls further behind than one window, and the ring has room for
\* a window that late.  The bytes agree only under this; the clocks need none.
ShortPaths == MaxLag <= Win /\ MaxLag + Win <= RingSize

\* The local ring still holds what the window of the next record needs.
Kept(c) ==
  \A t \in ((tick[c] + Delay - LocSize) + 1)..(tick[c] + Delay) :
    loc[c][t % LocSize] = Own(c, t)

Sampled(c) == tick[c] # NoTick => crcv[c] = Checksum(trail[c][tick[c]])

\* A sound record says what its sender ran, or will run, and was.
Truthful(c) ==
  \A r \in Records(batch[c]) \cup Records(link[c]) \cup Records(out[Peer(c)]) :
    r.good => /\ \A j \in Slots(Win) : r.win[j] = Own(Peer(c), r.stamp - j)
              /\ r.crc = Checksum(trail[Peer(c)][r.stamp - Delay])

Lag(c) == mode[c] = "play" => tick[Peer(c)] + Delay <= Known(c) + MaxLag

Behind(c) ==
  \/ \A r \in Records(batch[c]) : rwat[c] <= r.stamp
  \/ \A r \in Records(batch[c]) : rwat[c] - MaxLag <= r.stamp /\ r.stamp <= rwat[c]

Heard(c) ==
  mode[c] = "play" =>
    \A t \in TickNow(c)..Known(c) : ring[c][t % RingSize] = Own(Peer(c), t)

Agreed(c) ==
  \A t \in 0..tick[c] : HasRun(c, t) => used[c][t][Peer(c)] = Own(Peer(c), t)

BytesInv ==
  \A c \in Console :
    Kept(c) /\ Sampled(c) /\ Truthful(c) /\ Lag(c) /\ Behind(c) /\ Heard(c) /\ Agreed(c)

\* How a console got to its state, when nothing but its input moves it.
Moved(c) ==
  /\ trail[c][0] = SimStart
  /\ \A t \in 0..(tick[c] - 1) : trail[c][t + 1] = SimStep(trail[c][t], used[c][t])
  /\ sim[c] = IF tick[c] = NoTick THEN SimStart
               ELSE IF ran[c] THEN SimStep(trail[c][tick[c]], used[c][tick[c]])
               ELSE trail[c][tick[c]]

SimInv == SimAgreement /\ \A c \in Console : Moved(c)

\* What CBRSY counts on: the tick a pressed RESET reaches starts Combat over
\* (GSGRCK) from what a new game leaves alone and the input, whatever
\* the rest was.
ResetRestarts ==
  \A in \in Pair : Pressed(in) =>
    \A r, s \in Sims : Survives(r) = Survives(s) => SimStep(r, in) = SimStep(s, in)
=============================================================================
