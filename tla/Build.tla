-------------------------------- MODULE Build --------------------------------
(***************************************************************************)
(* build.sh, from the patch list to the image, and the gates it stops at:  *)
(* tools/mktail.py, checkbanks.py, checkrom_filter.py and check_patch.py.  *)
(* Nothing runs concurrently here.  What can go wrong is an edit somewhere *)
(* in the sources whose damage p2bin does not report: the properties say   *)
(* of every such edit that an image that comes out is the one meant.       *)
(***************************************************************************)
EXTENDS Banks, Sequences, SequencesExt

CONSTANT Edits      \* the states of the sources a build can start from

Listing == Seq([org : BOOLEAN, at : Nat, n : Nat])

\* The lines with bytes in the cartridge: what one bank can lay over.
Filled == {k \in Lines : Stock[k].at >= BASE /\ Stock[k].n > 0}

\* The sources: the patch list, the lines of Combat that a bank's own code has
\* been laid over, the listing of the fixed tail and of one bank, and the opcodes
\* checkrom.py stumbles over.
Edit ==
  [how : [ALL -> States], over : SUBSET Filled, tail : Listing, bank : Listing,
   findings : SUBSET [bank : 0..3, at : Nat]]

ASSUME EditsAssumption == Edits \subseteq Edit

VARIABLES
  edit,             \* the sources
  stage             \* the next step of build.sh, "built" or "failed"

vars == <<edit, stage>>

LIMIT == \h1800     \* what build.sh lets a bank reach
VECTORS == \h1FFC

-----------------------------------------------------------------------------
(* checkbanks.main *)

\* One line of the listing: an ORG at or above the limit makes what follows
\* deliberate, and of the rest every line that ends past the limit is over.
Scan(st, l) ==
  IF l.org THEN [st EXCEPT !.deliberate = l.at >= LIMIT]
  ELSE IF l.n = 0 \/ st.deliberate THEN st
  ELSE [st EXCEPT !.over = @ \/ l.at + l.n > LIMIT]

\* Mutant: every address from the limit up is taken for the vectors.
BankFits_Skips(listing) ==
  \A i \in DOMAIN listing :
    ~listing[i].org /\ listing[i].at < LIMIT => listing[i].at + listing[i].n <= LIMIT

BankFits(listing) ==
  ~FoldLeft(Scan, [deliberate |-> FALSE, over |-> FALSE], listing).over

-----------------------------------------------------------------------------
(* mktail *)

\* One past the highest byte of a line that starts below the vectors.
TailEnd(listing) ==
  Max({0} \cup {listing[i].at + listing[i].n :
                  i \in {k \in DOMAIN listing : ~listing[k].org /\ listing[k].n > 0
                                                  /\ listing[k].at < VECTORS}})

TailFits(listing) == TailEnd(listing) <= VECTORS

-----------------------------------------------------------------------------
(* checkrom_filter *)

BankNo(b) == CASE b = "BOOT" -> 0 [] b = "GAME" -> 1 [] b = "KERN" -> 2

DataRanges ==
  {[bank |-> BankNo(r.bank), lo |-> Window(r.lo), hi |-> Window(r.hi)] :
     r \in {q \in REGIONS : q.kind = "data"}}

\* checkrom.py gives an address in every bank but the first as if it were mapped
\* where the fixed half is, bank 3 here.
Reported(f) == IF f.bank \in {0, 3} THEN f.at ELSE f.at - \h1000 + \h1800

TrueAddr(bank, a) == IF bank = 0 THEN a ELSE a - \h1800 + \h1000

\* A finding inside the declared data is dropped.  CBPHI's eight bytes, in what was
\* Combat's filler, are declared data of the game bank and are code.
Dropped(f) ==
  LET a == TrueAddr(f.bank, Reported(f))
  IN  \E d \in DataRanges : d.bank = f.bank /\ d.lo <= a /\ a < d.hi

-----------------------------------------------------------------------------
(* build.sh *)

Then(from, ok, next) ==
  /\ stage = from
  /\ stage' = IF ok THEN next ELSE "failed"
  /\ UNCHANGED edit

ApplyPatches == Then("split", Fits(edit.how), "tail")
ExportTail   == Then("tail", TailFits(edit.tail), "banks")
CheckBanks   == Then("banks", BankFits(edit.bank), "rom")
CheckRom     == Then("rom", \A f \in edit.findings : Dropped(f), "audit")
CheckPatch   == Then("audit", Audit(Image(Apply(edit.how)), edit.over), "built")

Init == edit \in Edits /\ stage = "split"

Next == ApplyPatches \/ ExportTail \/ CheckBanks \/ CheckRom \/ CheckPatch

Spec == Init /\ [][Next]_vars

-----------------------------------------------------------------------------
(* Properties *)

\* Where Combat has eight bytes of filler the game bank has CBPHI.
Filler == {k \in Lines : Stock[k].at = \hF7F4}

Within(k, D) == \E d \in D : d.addr <= Stock[k].at /\ Stock[k].at < d.addr + d.n

\* The line an ORG started is followed to the next ORG: code that began below top
\* and is at or past it.
Overrun(listing, top) ==
  \E i, o \in DOMAIN listing :
    /\ o < i /\ listing[o].org /\ listing[o].at < top
    /\ \A k \in o + 1..i : ~listing[k].org
    /\ listing[i].at + listing[i].n > top

\* A patch list in which everything is as it should be, and sources that fit,
\* build: the gates have no false alarm, and no patch moves a line it is not
\* about (apply: "silently file half the game into the wrong bank").
CleanBuilds ==
  /\ \A p \in ALL : edit.how[p] = "good"
  /\ edit.over = Filler
  /\ ~Overrun(edit.tail, VECTORS) /\ ~Overrun(edit.bank, LIMIT)
  /\ edit.findings = {}
  => stage # "failed"

\* No console reads its own port: an image is built only if each of the seven
\* reads has been replaced, in place and at the same length, and so has every
\* other patch the audit has a span of its own for.
EveryReadPatched ==
  stage = "built" => \A p \in ALL : edit.how[p] = "good" \/ Within(p.line, REWRITTEN)

\* No byte of Combat outside the declared sites is anybody else's, whatever two
\* routines were laid into one hole.
NothingUndeclared ==
  stage = "built" => \A k \in edit.over : Within(k, Declared)

\* p2bin cuts a bank off without a word: of an image that was built it has cut
\* nothing but what was put past the end on purpose.
NothingCutOff == stage = "built" => ~Overrun(edit.bank, LIMIT)
=============================================================================
