--------------------------- MODULE SessionProofs ---------------------------
(***************************************************************************)
(* Session's invariants, for every width of the sequence number and any    *)
(* number of restarts.                                                     *)
(***************************************************************************)
EXTENDS Session, TLAPS

Message == [n : 0..SeqMod - 1, whose : Whose]

\* Where nothing has been launched since the console was restarted.
Fresh == {"cold", "boot", "clear", "left"}

\* The cartridge is at most one transaction behind the console: what is committed
\* is answered or next, and what is worked on is what is committed.
OneBehind ==
  /\ reg.n \in {ack, NextSeq(ack)}
  /\ job # NoJob => job.n = reg.n /\ reg.n = NextSeq(ack)

Left == {"orphan", "late"}

\* Where the console launches nothing any more.
Alone == at = "local" \/ (at \in {"gent", "start", "frame", "kern"} /\ "net" \notin ent)

\* Whose it is: what the console waits for was launched by it; and what a living
\* cartridge has yet to do, with nobody waiting, is left over from a restart or
\* was given up.
Ours ==
  /\ wait => seq = reg.n /\ reg.whose = "mine" /\ at \notin Fresh /\ ~Alone
  /\ alive /\ job # NoJob => job.whose # "old"
  /\ alive /\ ~wait => /\ reg.n # ack => reg.whose \in Left
                       /\ job # NoJob => job.whose \in Left

Outstanding(name) == job.whose = name \/ (reg.whose = name /\ reg.n # ack)

\* What is left over from a restart is answered before the second transaction.
Early == alive /\ Outstanding("orphan") => at \in Fresh \cup {"nameopen"}

\* What was given up is answered before HELLO, or when nothing is launched again.
Behind == alive /\ Outstanding("late") => at \in Soft \/ Alone

Mail == OneBehind /\ Ours /\ Early /\ Behind /\ AnswerIsOwn

MailInv == TypeOK /\ Mail

-----------------------------------------------------------------------------
(* The mailbox's numbers *)

LEMMA NextSeqType ==
  ASSUME NEW a \in 0..SeqMod - 1
  PROVE  /\ NextSeq(a) \in 0..SeqMod - 1
         /\ NextSeq(a) # 0 /\ NextSeq(a) # a
<1>1. CASE a = SeqMod - 1
  <2>1. (a + 1) % SeqMod = 0
    BY <1>1, SessionAssumption
  <2> QED
    BY <1>1, <2>1, SessionAssumption DEF NextSeq
<1>2. CASE a # SeqMod - 1
  <2>1. (a + 1) % SeqMod = a + 1
    BY <1>2, SessionAssumption
  <2> QED
    BY <1>2, <2>1, SessionAssumption DEF NextSeq
<1> QED
  BY <1>1, <1>2

LEMMA AgedType ==
  ASSUME NEW t \in Message
  PROVE  /\ Aged(t) \in Message /\ Aged(t).n = t.n
         /\ Aged(t).whose = IF t.whose = "mine" THEN "old" ELSE t.whose
BY DEF Message, Whose, Aged

LEMMA NoJobType == NoJob \in Message /\ NoJob.n = 0 /\ NoJob.whose = "old"
BY SessionAssumption DEF NoJob, Message, Whose

\* Two transactions of one number and one owner are one.
LEMMA MessageEq ==
  ASSUME NEW t \in Message, NEW u \in Message, t.n = u.n, t.whose = u.whose
  PROVE  t = u
BY DEF Message

-----------------------------------------------------------------------------
(* Types *)

Typed == /\ reg \in Message /\ job \in Message /\ answer \in Message
         /\ seq \in 0..SeqMod - 1 /\ ack \in 0..SeqMod - 1
         /\ wait \in BOOLEAN /\ alive \in BOOLEAN

LEMMA TypedFacts == TypeOK => Typed
BY DEF TypeOK, Typed, Message

LEMMA MailInit == Init => MailInv
<1> SUFFICES ASSUME Init PROVE MailInv
  OBVIOUS
<1>1. TypeOK
  <2>1. reg \in Message /\ job \in Message /\ answer \in Message
    BY NoJobType DEF Init, Message, Whose
  <2>2. 0 \in 0..MaxRestarts
    BY SessionAssumption
  <2> QED
    BY <2>1, <2>2 DEF Init, TypeOK, Message
<1>2. OneBehind /\ Ours /\ Early /\ Behind /\ AnswerIsOwn
  BY NoJobType DEF Init, OneBehind, Ours, Early, Behind, Outstanding, AnswerIsOwn, Accepting
<1> QED
  BY <1>1, <1>2 DEF MailInv, Mail

\* The flags and the places, which every action draws from the same sets.
LEMMA PlaceType ==
  ASSUME TypeOK, Next
  PROVE  /\ at' \in Tasks \cup {"cold", "boot", "clear", "handover", "local", "left",
                                 "gent", "start", "frame", "kern"}
         /\ ent' \subseteq Flags /\ cells' \in {"junk", "zero", "session", "match"}
         /\ decided' \in {"none", "match", "local"} /\ setup' \in BOOLEAN
         /\ restarts' \in 0..MaxRestarts
<1> USE DEF TypeOK, history, console, cart
<1>1. CASE Cold \/ Boot \/ Clear \/ Launch \/ PressReset
  BY <1>1 DEF Cold, Boot, Clear, Launch, Commit, PressReset, Tasks, Flags
<1>2. CASE Answered
  BY <1>2 DEF Answered, AfterOk, AfterNo, Tasks
<1>3. CASE Timeout
  BY <1>3 DEF Timeout, Abandon, AfterNo, Tasks
<1>4. CASE Handover \/ Local
  BY <1>4 DEF Handover, Handed, Local, Tasks, Flags
<1>5. CASE Gent \/ Start \/ Frame \/ Gone
  BY <1>5 DEF Gent, Start, Frame, Gone, Abandon, Tasks, Flags
<1>6. CASE Transport \/ Vout
  BY <1>6 DEF Transport, Commit, Vout, Tasks
<1>7. CASE Restart
  BY <1>7, SessionAssumption DEF Restart, Abandon, Tasks
<1>8. CASE Cart \/ CartDies
  BY <1>8 DEF Cart, CartTake, CartAnswer, CartDies
<1> QED
  BY <1>1, <1>2, <1>3, <1>4, <1>5, <1>6, <1>7, <1>8 DEF Next, Console

-----------------------------------------------------------------------------
(* The mailbox, one lemma for each thing that happens to it *)

LEMMA CommitStep ==
  ASSUME Typed, Mail, ~wait, Commit, UNCHANGED <<at, ent>>, at \notin Fresh, ~Alone
  PROVE  Typed' /\ Mail'
<1> DEFINE n == NextSeq(ack)
<1>1. n \in 0..SeqMod - 1 /\ n # 0 /\ n # ack
  BY NextSeqType DEF Typed
<1>2. reg' = [n |-> n, whose |-> "mine"] /\ seq' = n /\ wait' = TRUE /\ ack' = ack
      /\ alive' = alive /\ job' = Aged(job) /\ answer' = Aged(answer) /\ at' = at
      /\ ~Alone'
  BY DEF Commit, Alone
<1> HIDE DEF n
<1>3. reg' \in Message /\ reg'.n = n /\ reg'.whose = "mine"
  BY <1>1, <1>2 DEF Message, Whose
<1>4. /\ job' \in Message /\ job'.n = job.n
      /\ job'.whose = IF job.whose = "mine" THEN "old" ELSE job.whose
  BY <1>2, AgedType DEF Typed
<1>5. Typed'
  BY <1>1, <1>2, <1>3, <1>4, AgedType DEF Typed
<1>6. job' # NoJob => job # NoJob
  BY <1>2 DEF Aged, NoJob
<1>7. OneBehind'
  BY <1>2, <1>3, <1>4, <1>6 DEF Mail, OneBehind, n
<1>8. Ours'
  BY <1>2, <1>3, <1>4, <1>6 DEF Mail, Ours, Left
<1>9. Early'
  BY <1>2, <1>3, <1>4 DEF Mail, Early, Outstanding
<1>10. Behind'
  <2>1. Outstanding("late")' => Outstanding("late") \/ job.whose = "late"
    BY <1>2, <1>3, <1>4 DEF Outstanding
  <2> QED
    BY <1>2, <2>1 DEF Mail, Behind, Outstanding, Alone
<1>11. AnswerIsOwn'
  BY <1>1, <1>2 DEF AnswerIsOwn, Accepting
<1> QED
  BY <1>5, <1>7, <1>8, <1>9, <1>10, <1>11 DEF Mail

LEMMA TakenStep ==
  ASSUME Typed, Mail, Accepting, wait' = FALSE, UNCHANGED <<seq, cart>>
  PROVE  Typed' /\ Mail'
<1>1. reg' = reg /\ job' = job /\ ack' = ack /\ answer' = answer /\ alive' = alive
  BY DEF cart
<1>2. reg.n = ack /\ job = NoJob
  BY NextSeqType DEF Mail, Accepting, Ours, OneBehind, Typed
<1> QED
  BY <1>1, <1>2, NoJobType
  DEF Typed, Mail, OneBehind, Ours, Early, Behind, Outstanding, Alone, AnswerIsOwn, Accepting

\* A restart, a departure or a timeout: after each the next transaction is one that
\* may take the answer of what is left.
LEMMA AbandonStep ==
  ASSUME Typed, Mail, NEW name \in Left, Abandon(name), UNCHANGED seq,
         at' \in IF name = "orphan" THEN Fresh ELSE Soft \cup {"local"}
  PROVE  Typed' /\ Mail'
<1> DEFINE left(t) == IF t.whose # "old" /\ t.n # ack THEN [t EXCEPT !.whose = name] ELSE Aged(t)
<1>1. reg' = left(reg) /\ job' = left(job) /\ answer' = Aged(answer) /\ wait' = FALSE
      /\ ack' = ack /\ alive' = alive
  BY DEF Abandon
<1>2. ASSUME NEW t \in Message
      PROVE  /\ left(t) \in Message /\ left(t).n = t.n
             /\ left(t).whose = IF t.whose = "old" THEN "old" ELSE IF t.n # ack THEN name
                                ELSE IF t.whose = "mine" THEN "old" ELSE t.whose
  BY AgedType DEF Message, Whose, Left
<1> HIDE DEF left
<1>3. Typed'
  BY <1>1, <1>2, AgedType DEF Typed
<1>4. /\ reg'.n = reg.n /\ job'.n = job.n
      /\ reg.n # ack => reg'.whose \in {name, "old"}
      /\ job.n # ack => job'.whose \in {name, "old"}
  BY <1>1, <1>2 DEF Typed
<1>5. job' # NoJob => job # NoJob
  <2>1. job = NoJob => left(job) = NoJob
    BY <1>2, NoJobType, MessageEq
  <2> QED
    BY <1>1, <2>1
<1>6. OneBehind'
  BY <1>1, <1>4, <1>5 DEF Mail, OneBehind
<1>7. reg.n # ack /\ alive => reg'.whose = name
  BY <1>1, <1>2 DEF Typed, Mail, Ours, Left
<1>8. job # NoJob /\ alive => job'.whose = name
  BY <1>1, <1>2, NextSeqType DEF Typed, Mail, Ours, OneBehind, Message, Whose
<1>9. job = NoJob => job' = NoJob
  BY <1>1, <1>2, NoJobType, MessageEq
<1>10. Ours'
  BY <1>1, <1>4, <1>5, <1>7, <1>8 DEF Ours, Left
<1>11. ASSUME NEW other \in Left, other # name, alive PROVE ~Outstanding(other)'
  BY <1>1, <1>4, <1>7, <1>8, <1>9, <1>11, NoJobType DEF Outstanding, Left
<1> QED
  BY <1>1, <1>3, <1>6, <1>10, <1>11
  DEF Mail, Early, Behind, Alone, AnswerIsOwn, Accepting, Left, Fresh

LEMMA CartTakeStep ==
  ASSUME Typed, Mail, CartTake
  PROVE  Typed' /\ Mail'
<1>1. job' = reg /\ reg' = reg /\ ack' = ack /\ answer' = answer /\ alive' = alive
      /\ at' = at /\ ent' = ent /\ seq' = seq /\ wait' = wait
  BY DEF CartTake, console
<1>2. alive /\ job = NoJob /\ reg.n # 0 /\ reg.n # ack
  BY DEF CartTake
<1>3. IF wait THEN reg.whose = "mine" ELSE reg.whose \in Left
  BY <1>2 DEF Mail, Ours
<1>4. Typed' /\ OneBehind'
  BY <1>1, <1>2, <1>3 DEF Typed, Mail, OneBehind
<1>5. Ours' /\ AnswerIsOwn'
  BY <1>1, <1>2, <1>3 DEF Mail, Ours, Left, Alone, AnswerIsOwn, Accepting
<1>6. Early' /\ Behind'
  BY <1>1, <1>2, <1>3 DEF Mail, Early, Behind, Outstanding, Alone
<1> QED
  BY <1>4, <1>5, <1>6 DEF Mail

LEMMA CartAnswerStep ==
  ASSUME Typed, Mail, CartAnswer
  PROVE  Typed' /\ Mail'
<1>1. job' = NoJob /\ reg' = reg /\ ack' = job.n /\ answer' = job /\ alive' = alive
      /\ at' = at /\ ent' = ent /\ seq' = seq /\ wait' = wait
  BY DEF CartAnswer, console
<1>2. alive /\ job # NoJob /\ job.n = reg.n
  BY DEF CartAnswer, Mail, OneBehind
<1>3. Typed'
  BY <1>1, NoJobType DEF Typed, Message
<1>4. OneBehind' /\ Ours' /\ Early' /\ Behind'
  <2>1. ~Outstanding("orphan")' /\ ~Outstanding("late")'
    BY <1>1, <1>2, NoJobType DEF Outstanding
  <2> QED
    BY <1>1, <1>2, <2>1, NoJobType DEF Mail, OneBehind, Ours, Early, Behind, Alone
<1>5. AnswerIsOwn'
  <2>1. job.whose \in {"mine", "late", "orphan"}
    BY <1>2 DEF Typed, Mail, Ours, Message, Whose
  <2>2. wait => at \notin Fresh /\ ~Alone
    BY DEF Mail, Ours
  <2> QED
    BY <1>1, <1>2, <2>1, <2>2 DEF Mail, Early, Behind, Outstanding, AnswerIsOwn, Accepting
<1> QED
  BY <1>3, <1>4, <1>5 DEF Mail

LEMMA CartDiesStep ==
  ASSUME Typed, Mail, CartDies
  PROVE  Typed' /\ Mail'
BY DEF CartDies, console, Typed, Mail, OneBehind, Ours, Early, Behind, Outstanding, Alone, AnswerIsOwn, Accepting

\* Before the first transaction after a restart.
LEMMA ColdStep ==
  ASSUME Typed, Mail, at \in Fresh, seq' \in 0..SeqMod - 1, UNCHANGED <<wait, cart>>,
         at' \in Fresh \cup {"nameopen"} \/ ~alive
  PROVE  Typed' /\ Mail'
<1>1. ~wait /\ (alive => ~Outstanding("late"))
  BY DEF Mail, Ours, Behind, Fresh, Soft, Alone
<1>2. Typed' /\ OneBehind' /\ Ours' /\ Early'
  BY <1>1 DEF cart, Typed, Mail, OneBehind, Ours, Early, Outstanding
<1>3. Behind' /\ AnswerIsOwn'
  BY <1>1 DEF cart, Behind, Outstanding, AnswerIsOwn, Accepting
<1> QED
  BY <1>2, <1>3 DEF Mail

\* Behind the first transaction.
LEMMA WarmStep ==
  ASSUME Typed, Mail, at \notin Fresh \cup Soft \cup {"nameopen"}, at' \notin Fresh,
         Alone' <=> Alone, UNCHANGED <<seq, wait, cart>>
  PROVE  Typed' /\ Mail'
<1>1. Typed' /\ OneBehind' /\ Ours' /\ Early'
  BY DEF cart, Typed, Mail, OneBehind, Ours, Early, Outstanding
<1>2. Behind'
  BY DEF cart, Mail, Behind, Outstanding
<1>3. AnswerIsOwn'
  BY DEF cart, Mail, AnswerIsOwn, Accepting
<1> QED
  BY <1>1, <1>2, <1>3 DEF Mail

LEMMA MailNext == MailInv /\ [Next]_vars => MailInv'
<1> SUFFICES ASSUME MailInv, [Next]_vars PROVE MailInv'
  OBVIOUS
<1>1. TypeOK /\ Typed /\ Mail
  BY TypedFacts DEF MailInv, Mail
<1>2. CASE UNCHANGED vars
  <2>1. TypeOK'
    BY <1>1, <1>2 DEF TypeOK, vars, console, cart, history
  <2>2. OneBehind' /\ Ours' /\ Early'
    BY <1>1, <1>2 DEF Mail, OneBehind, Ours, Early, Outstanding, Alone, vars, console, cart
  <2>3. Behind' /\ AnswerIsOwn'
    BY <1>1, <1>2 DEF Mail, Behind, Outstanding, Alone, AnswerIsOwn, Accepting,
                      vars, console, cart
  <2> QED
    BY <2>1, <2>2, <2>3 DEF MailInv, Mail
<1>3. ASSUME Next PROVE Typed' /\ Mail'
  <2>1. CASE Cold \/ Boot \/ PressReset
    BY <1>1, <2>1, ColdStep DEF Cold, Boot, PressReset, Fresh, Typed
  <2>2. CASE Clear
    BY <1>1, <2>2, ColdStep, SessionAssumption DEF Clear, Fresh
  <2>3. CASE Launch
    BY <1>1, <2>3, CommitStep DEF Launch, Fresh, Tasks, Alone
  <2>4. CASE Answered
    BY <1>1, <2>4, TakenStep DEF Answered
  <2>5. CASE Timeout
    BY <1>1, <2>5, AbandonStep DEF Timeout, AfterNo, Tasks, Soft, Left
  <2>6. CASE Handover \/ Local \/ Gent \/ Start \/ Frame \/ Vout
    <3>1. Alone' <=> Alone
      BY <2>6 DEF Handover, Handed, Local, Gent, Start, Frame, Vout, Alone
    <3> QED
      BY <1>1, <2>6, <3>1, WarmStep DEF Handover, Local, Gent, Start, Frame, Vout, Fresh, Soft
  <2>7. CASE Transport
    BY <1>1, <2>7, CommitStep, TakenStep DEF Transport, Fresh, Alone
  <2>8. CASE Gone \/ Restart
    BY <1>1, <2>8, AbandonStep DEF Gone, Restart, Fresh, Left
  <2>9. CASE Cart \/ CartDies
    BY <1>1, <2>9, CartTakeStep, CartAnswerStep, CartDiesStep DEF Cart
  <2> QED
    BY <1>3, <2>1, <2>2, <2>3, <2>4, <2>5, <2>6, <2>7, <2>8, <2>9 DEF Next, Console
<1>4. ASSUME Next PROVE TypeOK'
  <2>1. wait' => seq' # 0
    <3>1. CASE wait' /\ ~wait
      <4>1. PICK a \in 0..SeqMod - 1 : seq' = NextSeq(a)
        BY <1>1, <1>4, <3>1 DEF Typed, Next, Console, Cart, Cold, Boot, Clear, Launch, Answered, Timeout,
           Handover, Local, Gent, Start, Frame, Vout, Transport, Gone, Restart, Abandon,
           PressReset, CartTake, CartAnswer, CartDies, Commit, console, cart, history
      <4> QED
        BY <4>1, NextSeqType
    <3>2. CASE wait' /\ wait
      <4>1. seq' = seq
        BY <1>1, <1>4, <3>2 DEF Typed, Mail, Ours, Fresh, Next, Console, Cart, Cold, Boot, Clear, Launch,
           Answered, Timeout, Handover, Local, Gent, Start, Frame, Vout, Transport, Gone,
           Restart, Abandon, PressReset, CartTake, CartAnswer, CartDies, console, cart, history
      <4> QED
        BY <1>1, <3>2, <4>1 DEF TypeOK
    <3> QED
      BY <3>1, <3>2, <1>1, <1>3, <1>4 DEF Typed
  <2> QED
    BY <1>1, <1>3, <1>4, <2>1, PlaceType DEF TypeOK, Typed, Message
<1> QED
  BY <1>2, <1>3, <1>4 DEF MailInv

\* An answer the console takes is its own (FNGO: the cartridge's ACKSEQ and one,
\* "never a counter in RAM"), or one that a transaction of the appkeys or the OPEN
\* takes for its own, for every width of the number and however slow the cartridge
\* is: HELLO and what follows it never do.
THEOREM AnswerCorrect == Spec => []AnswerIsOwn
<1>1. MailInv => AnswerIsOwn
  BY DEF MailInv, Mail
<1> QED
  BY MailInit, MailNext, <1>1, PTL DEF Spec

\* Every flag of CBENT, cell and sequence number stays one the program can have,
\* whatever CBENT and ACKSEQ are at power-on.
THEOREM SessionTypeCorrect == Spec => []TypeOK
<1>1. MailInv => TypeOK
  BY DEF MailInv
<1> QED
  BY MailInit, MailNext, <1>1, PTL DEF Spec

-----------------------------------------------------------------------------
(* Into the frame loop *)

InPlay == {"gent", "start", "frame", "kern"}

\* What holds from the handover on, in whichever bank: the flags say how the
\* session ended, the handed-over cells are there, and WARM means set up.
Entered ==
  at \in InPlay =>
    /\ "net" \in ent <=> decided = "match"
    /\ decided = "match" => cells = "match"
    /\ "warm" \in ent => setup
    /\ at = "frame" => "warm" \in ent

LEMMA EnteredNext == Entered /\ TypeOK /\ [Next]_vars => Entered'
<1> SUFFICES ASSUME Entered, TypeOK, [Next]_vars PROVE Entered'
  OBVIOUS
<1> USE DEF Entered, InPlay
<1>1. CASE Cold \/ Boot \/ Clear \/ Launch \/ PressReset
  BY <1>1 DEF Cold, Boot, Clear, Launch, PressReset, Tasks
<1>2. CASE Answered
  <2>1. at' \notin InPlay
    BY <1>2 DEF Answered, AfterOk, AfterNo, Tasks
  <2> QED
    BY <2>1
<1>3. CASE Timeout
  <2>1. at' \notin InPlay
    BY <1>3 DEF Timeout, AfterNo, Tasks
  <2> QED
    BY <2>1
<1>4. CASE Handover \/ Local
  BY <1>4 DEF Handover, Handed, Local
<1>5. CASE Gent \/ Start \/ Frame \/ Vout
  BY <1>5 DEF Gent, Start, Frame, Vout, history
<1>6. CASE Transport
  BY <1>6 DEF Transport, history
<1>7. CASE Gone \/ Restart
  BY <1>7 DEF Gone, Restart
<1>8. CASE Cart \/ CartDies
  BY <1>8 DEF Cart, CartTake, CartAnswer, CartDies, console, history
<1>9. CASE UNCHANGED vars
  BY <1>9 DEF vars, console, history
<1> QED
  BY <1>1, <1>2, <1>3, <1>4, <1>5, <1>6, <1>7, <1>8, <1>9 DEF Next, Console

\* The frame loop is entered only with its variables set up by START, networked
\* exactly when the session ended in a match, and on the cells it handed over
\* (CBGENT, START, CSZRING), however often and wherever the console is restarted.
THEOREM FrameLoopCorrect == Spec => []FrameLoopReady
<1>1. Init => Entered
  BY DEF Init, Entered, InPlay
<1>2. Entered => FrameLoopReady
  BY DEF Entered, InPlay, FrameLoopReady
<1> QED
  BY SessionTypeCorrect, EnteredNext, <1>1, <1>2, PTL DEF Spec
=============================================================================
