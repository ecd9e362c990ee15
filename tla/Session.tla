------------------------------- MODULE Session -------------------------------
(***************************************************************************)
(* One console outside of a match: the way from power-on or RESET through  *)
(* the session into Combat's frame loop, and from a match that is over     *)
(* back to the session (cbtail.asm, cbboot.asm, cbsess.inc, cbappk.inc and *)
(* the bank entries of tools/patches.py), and the mailbox it talks to the  *)
(* cartridge through (cbcore.inc, CBLNCH and CBACK of cbnet.inc).          *)
(*                                                                         *)
(* RESET restarts the console and not the cartridge.  What a transaction   *)
(* asks for and what a match does are left out: what matters here is whose *)
(* answer is taken, which bank is entered how, and which cells survive.    *)
(***************************************************************************)
EXTENDS Naturals, FiniteSets

CONSTANTS
  SeqMod,           \* the sequence number is a byte: 256
  MaxRestarts       \* bound: how often the console is restarted

ASSUME SessionAssumption == SeqMod \in Nat /\ SeqMod > 2 /\ MaxRestarts \in Nat

VARIABLES
  at,               \* where the program is
  ent,              \* CBENT's flags
  cells,            \* the cells from $E7 up: whose they are
  seq,              \* CBSEQ, also FNSEQ
  wait,             \* a transaction has been launched and its answer is awaited
  reg,              \* the cartridge: FR_SEQ as it was committed last,
  job,              \* what it is working on,
  ack,              \* ACKSEQ,
  answer,           \* and whose answer is in the reply window
  alive,            \* it answers at all
  decided,          \* history: how the last session ended
  setup,            \* history: START has run since
  restarts          \* restarts so far

console == <<at, ent, cells, seq, wait>>
cart    == <<reg, job, ack, answer, alive>>
history == <<decided, setup, restarts>>
vars    == <<console, cart, history>>

\* The transactions of the session; the first three are CSAKGET for the name,
\* the next three CSAKGET for the room's URL.
Tasks == {"nameopen", "nameread", "nameclose", "urlopen", "urlread", "urlclose",
          "open", "hello", "status", "read"}

Flags == {"warm", "net", "left", "ran"}

\* Whose a transaction or an answer is: the one the console waits for, one it has
\* been answered, one it gave up waiting for, or one that was in flight when it was
\* restarted.
Whose == {"mine", "old", "late", "orphan"}

NoJob == [n |-> 0, whose |-> "old"]

Aged(t) == IF t.whose = "mine" THEN [t EXCEPT !.whose = "old"] ELSE t

-----------------------------------------------------------------------------
(* The mailbox *)

\* Mutant: a counter of the program's own, which a restart zeroes.
NextSeq_Counter(a) == IF (seq + 1) % SeqMod = 0 THEN 1 ELSE seq + 1

\* Mutant: zero is a number like any other.
NextSeq_Zero(a) == (a + 1) % SeqMod

\* The cartridge's own ACKSEQ and one; 0 is reserved as "never used".
NextSeq(a) == IF (a + 1) % SeqMod = 0 THEN 1 ELSE a + 1

Commit ==
  /\ seq' = NextSeq(ack)
  /\ reg' = [n |-> NextSeq(ack), whose |-> "mine"]
  /\ job' = Aged(job)
  /\ answer' = Aged(answer)
  /\ wait' = TRUE
  /\ UNCHANGED <<ack, alive>>

Accepting == wait /\ ack = seq

\* What is in flight when nobody waits for it any more.
Abandon(name) ==
  LET left(t) == IF t.whose # "old" /\ t.n # ack THEN [t EXCEPT !.whose = name] ELSE Aged(t)
  IN  /\ reg' = left(reg) /\ job' = left(job) /\ answer' = Aged(answer)
      /\ wait' = FALSE
      /\ UNCHANGED <<ack, alive>>

\* The cartridge, idle, launches what is committed: nonzero and not ACKSEQ.
CartTake ==
  /\ alive /\ job = NoJob /\ reg.n \notin {0, ack}
  /\ job' = reg
  /\ UNCHANGED <<console, reg, ack, answer, alive, history>>

\* The reply is in place before ACKSEQ says so.
CartAnswer ==
  /\ alive /\ job # NoJob
  /\ ack' = job.n /\ answer' = job
  /\ job' = NoJob
  /\ UNCHANGED <<console, reg, alive, history>>

CartDies ==
  /\ alive
  /\ alive' = FALSE
  /\ UNCHANGED <<console, reg, job, ack, answer, history>>

-----------------------------------------------------------------------------
(* The boot bank *)

\* CBCOLD.
Cold ==
  /\ at = "cold"
  /\ ent' = {}
  /\ at' = "boot"
  /\ UNCHANGED <<cells, seq, wait, cart, history>>

\* CBBOOT.
Boot ==
  /\ at = "boot"
  /\ at' = IF "left" \in ent THEN "left" ELSE "clear"
  /\ UNCHANGED <<ent, cells, seq, wait, cart, history>>

\* CBBENT clears all 128 bytes and asks whether a cartridge answers.
Clear ==
  /\ at = "clear"
  /\ ent' = {} /\ cells' = "zero" /\ seq' = 0
  /\ at' = IF alive THEN "nameopen" ELSE "local"
  /\ UNCHANGED <<wait, cart, history>>

\* FNBEG writes to cells a match has its rings in.
Launch ==
  /\ at \in Tasks /\ ~wait
  /\ Commit
  /\ cells' = "session"
  /\ UNCHANGED <<at, ent, history>>

\* Where a task leads that was done, and one that was not.
AfterOk == [nameopen |-> "nameread", nameread |-> "nameclose", nameclose |-> "urlopen",
            urlopen |-> "urlread", urlread |-> "urlclose", urlclose |-> "open",
            open |-> "hello", hello |-> "status", status |-> "read", read |-> "handover"]

AfterNo == [t \in Tasks |->
              CASE t = "nameopen" -> "urlopen"  [] t = "nameread" -> "nameclose"
                [] t = "nameclose" -> "urlopen" [] t = "urlopen" -> "open"
                [] t = "urlread" -> "urlclose"  [] t = "urlclose" -> "open"
                [] OTHER -> "local"]

\* STATUS is asked again until there are fifteen bytes.
Answered ==
  /\ at \in Tasks /\ Accepting
  /\ wait' = FALSE
  /\ at' \in {AfterOk[at], AfterNo[at]} \cup ({"status"} \cap {at})
  /\ UNCHANGED <<ent, cells, seq, cart, history>>

\* Mutant: the frames of a wait are counted in a register the text kernel uses.
GaveUp_Never == FALSE

\* Nine seconds without an answer: the cartridge is dead, or slow.
GaveUp == wait /\ ~Accepting

Timeout ==
  /\ at \in Tasks /\ GaveUp
  /\ Abandon("late")
  /\ at' = AfterNo[at]
  /\ UNCHANGED <<ent, cells, seq, history>>

\* Mutant: one value for the two flags.
Handed_Warm == [ent |-> {"net", "ran", "warm"}, cells |-> "match"]

\* NETWORKED but NOT WARM, the rings seeded at the last moment.
Handed == [ent |-> {"net", "ran"}, cells |-> "match"]

Handover ==
  /\ at = "handover"
  /\ ent' = Handed.ent /\ cells' = Handed.cells
  /\ decided' = "match" /\ setup' = FALSE
  /\ at' = "gent"
  /\ UNCHANGED <<seq, wait, cart, restarts>>

\* CSLOCAL.
Local ==
  /\ at = "local"
  /\ ent' = {}
  /\ decided' = "local" /\ setup' = FALSE
  /\ at' = "gent"
  /\ UNCHANGED <<cells, seq, wait, cart, restarts>>

\* CSLEFT, until RESET is pressed.
PressReset ==
  /\ at = "left"
  /\ ent' = {}
  /\ at' = "clear"
  /\ UNCHANGED <<cells, seq, wait, cart, history>>

-----------------------------------------------------------------------------
(* The game bank and the kernel bank *)

\* CBGENT.
Gent ==
  /\ at = "gent"
  /\ at' = IF "warm" \in ent THEN "frame" ELSE "start"
  /\ UNCHANGED <<ent, cells, seq, wait, cart, history>>

\* START clears up to $E5, and what the session left is above.
Start ==
  /\ at = "start"
  /\ ent' = ent \cup {"warm"}
  /\ setup' = TRUE
  /\ at' = "frame"
  /\ UNCHANGED <<cells, seq, wait, cart, decided, restarts>>

\* MLOOP.
Frame ==
  /\ at = "frame"
  /\ at' = "kern"
  /\ UNCHANGED <<ent, cells, seq, wait, cart, history>>

\* CBGONE, out of the gate of a match.
Gone ==
  /\ at = "frame" /\ "net" \in ent
  /\ ent' = ent \cup {"left"}
  /\ Abandon("orphan")
  /\ at' = "boot"
  /\ UNCHANGED <<cells, seq, history>>

\* CBWAIT steps the transport in a match only: it launches, and waits for ever.
Transport ==
  /\ at = "kern" /\ "net" \in ent
  /\ \/ ~wait /\ Commit
     \/ Accepting /\ wait' = FALSE /\ UNCHANGED <<seq, cart>>
  /\ UNCHANGED <<at, ent, cells, history>>

\* VOUT's way back.
Vout ==
  /\ at = "kern"
  /\ at' = "gent"
  /\ UNCHANGED <<ent, cells, seq, wait, cart, history>>

\* RESET, or the power: RAM is what it was, and so is the cartridge.
Restart ==
  /\ at # "cold" /\ restarts < MaxRestarts
  /\ Abandon("orphan")
  /\ restarts' = restarts + 1
  /\ at' = "cold"
  /\ UNCHANGED <<ent, cells, seq, decided, setup>>

-----------------------------------------------------------------------------
Init ==
  /\ at = "cold"
  /\ ent \in SUBSET Flags /\ cells = "junk"
  /\ seq \in 0..SeqMod - 1 /\ wait = FALSE
  /\ ack \in 0..SeqMod - 1
  /\ reg = [n |-> ack, whose |-> "old"] /\ job = NoJob /\ answer = reg
  /\ alive \in BOOLEAN
  /\ decided = "none" /\ setup = FALSE /\ restarts = 0

Console ==
  \/ Cold \/ Boot \/ Clear \/ Launch \/ Answered \/ Timeout \/ Handover \/ Local
  \/ Gent \/ Start \/ Frame \/ Transport \/ Vout

Cart == CartTake \/ CartAnswer

Next == Console \/ Cart \/ CartDies \/ Gone \/ PressReset \/ Restart

Spec == Init /\ [][Next]_vars

\* The program runs, and a cartridge that is there answers.
FairSpec == Spec /\ WF_vars(Console) /\ WF_vars(Cart)

-----------------------------------------------------------------------------
(* Properties *)

\* The types; a transaction that is waited for does not have the number zero,
\* which the cartridge never launches.
TypeOK ==
  /\ at \in Tasks \cup {"cold", "boot", "clear", "handover", "local", "left",
                        "gent", "start", "frame", "kern"}
  /\ ent \subseteq Flags /\ cells \in {"junk", "zero", "session", "match"}
  /\ seq \in 0..SeqMod - 1 /\ wait \in BOOLEAN /\ (wait => seq # 0)
  /\ {reg, job, answer} \subseteq [n : 0..SeqMod - 1, whose : Whose]
  /\ ack \in 0..SeqMod - 1 /\ alive \in BOOLEAN
  /\ decided \in {"none", "match", "local"} /\ setup \in BOOLEAN
  /\ restarts \in 0..MaxRestarts

\* The tasks that may follow one that was given up.
Soft == {"nameclose", "urlopen", "urlclose", "open"}

\* An answer the console takes is the answer to what it launched, whatever was
\* answered before the restart.  What is in flight at a restart, or when it is given
\* up, has the number the next transaction will have, and is taken for its answer;
\* after a restart that is the open of an appkey, whose failure is soft, and after a
\* timeout an appkey's or the OPEN.  HELLO, STATUS, READ and every transaction of a
\* match get their own answers or none.
AnswerIsOwn ==
  Accepting => \/ answer.whose = "mine"
               \/ answer.whose = "orphan" /\ at = "nameopen"
               \/ answer.whose = "late" /\ at \in Soft

\* The frame loop never runs on variables START has not set up, it is networked
\* exactly when the session ended in a match, and what the session handed over
\* for the match is still there.
FrameLoopReady ==
  at = "frame" =>
    /\ setup
    /\ "net" \in ent <=> decided = "match"
    /\ decided = "match" => cells = "match"

\* STATUS is answered and START has not come.
AwaitsOpponent == at = "status" /\ alive

\* With no FujiNet, no relay or a cartridge that stops answering it is simply Combat:
\* every start gets to the frame loop, unless it waits for an opponent for ever.
\* "An opponent who never turned up" (CSLOCAL) is not among the cases this promises
\* anything about: the wait for START has no bound, and nothing but a failure or
\* RESET ends it.
Settles == []<>~AwaitsOpponent => (at = "cold" ~> at = "frame")
=============================================================================
