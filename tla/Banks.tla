-------------------------------- MODULE Banks --------------------------------
(***************************************************************************)
(* Combat, patched and split across two banks, and the audit of the        *)
(* result: tools/patches.py, tools/mkbanks.py and tools/check_patch.py.    *)
(*                                                                         *)
(* A source line is its number in rom/combat.asm with the address and the  *)
(* number of bytes the assembler gave it; which bytes is left out, and no  *)
(* two lines have the same.  So a byte of the image differs from the       *)
(* cartridge's when its line is not there or not in its place.             *)
(***************************************************************************)
EXTENDS Integers, FiniteSets, FiniteSetsExt

CONSTANTS
  Stock,            \* line |-> [at, n]: the listing of the unpatched source
  OrgLine           \* the ORG that opens the image

Lines == DOMAIN Stock

ASSUME StockAssumption ==
  /\ Lines \subseteq Nat /\ IsFiniteSet(Lines)
  /\ \A k \in Lines : Stock[k].at \in Nat /\ Stock[k].n \in Nat

BASE   == \hF000
REBASE == BASE - \h1000

\* A stock address where a bank is mapped.
Window(a) == a - REBASE

Bytes(lo, n) == lo..(lo + n - 1)

-----------------------------------------------------------------------------
(* The declarations *)

REGIONS ==
  { [lo |-> \hF000, hi |-> \hF054, bank |-> "GAME", kind |-> "code"],
    [lo |-> \hF054, hi |-> \hF157, bank |-> "KERN", kind |-> "code"],
    [lo |-> \hF157, hi |-> \hF5C5, bank |-> "GAME", kind |-> "code"],
    [lo |-> \hF5C5, hi |-> \hF5F7, bank |-> "KERN", kind |-> "data"],
    [lo |-> \hF5F7, hi |-> \hF779, bank |-> "GAME", kind |-> "data"],
    [lo |-> \hF779, hi |-> \hF7C6, bank |-> "KERN", kind |-> "data"],
    [lo |-> \hF7C6, hi |-> \hF800, bank |-> "GAME", kind |-> "data"] }

RegionOf(a) == CHOOSE r \in REGIONS : r.lo <= a /\ a < r.hi

\* A patch: its first line, how many it replaces, and the bytes it puts there.
Patch(line, lines, n) == [line |-> line, lines |-> lines, n |-> n]

STRUCTURAL ==
  { Patch(203, 1, 7), Patch(207, 1, 11), Patch(212, 1, 9), Patch(214, 15, 44),
    Patch(236, 1, 0), Patch(265, 2, 5), Patch(449, 1, 7) }

INPUTS ==
  { Patch(k, 1, 3) : k \in {459, 507, 828, 833, 909, 1341} } \cup {Patch(961, 1, 2)}

ALL == STRUCTURAL \cup INPUTS

REWRITTEN == {[addr |-> \hF000, n |-> \h54]}

SPANS ==
  { [addr |-> a, n |-> 3] : a \in {\hF157, \hF192, \hF30E, \hF313, \hF36E, \hF59C} }
  \cup { [addr |-> \hF05C, n |-> 5], [addr |-> \hF156, n |-> 1],
         [addr |-> \hF3BB, n |-> 2], [addr |-> \hF7F4, n |-> 8] }

Declared == REWRITTEN \cup SPANS

-----------------------------------------------------------------------------
(* patches.apply *)

\* How an entry of the list can be: as it should be; anchored on text the line
\* does not have; missing; with a new text that assembles to the old bytes; or
\* assembled a byte short, as AS does with a zero-page operand left unmarked.
States == {"good", "stale", "missing", "idle", "short"}

Applied(how) == {p \in ALL : how[p] # "missing"}

Fits(how) == \A p \in Applied(how) : how[p] # "stale"

Old(k) == [line |-> k, n |-> Stock[k].n, new |-> FALSE]
Blank(k) == [line |-> k, n |-> 0, new |-> TRUE]

\* One source line after the patches: the first line of a block has the whole of
\* the new text and the others are blank.
PatchedLine(how, k) ==
  IF \E p \in Applied(how) : how[p] # "idle" /\ k \in Bytes(p.line, p.lines)
  THEN LET p == CHOOSE p \in Applied(how) : k \in Bytes(p.line, p.lines)
       IN  IF k = p.line
           THEN [line |-> k, n |-> IF how[p] = "short" THEN p.n - 1 ELSE p.n, new |-> TRUE]
           ELSE Blank(k)
  ELSE Old(k)

\* Mutant: a block becomes one line, and the lines after it move up.
Apply_Collapsed(how) ==
  LET gone == {k \in Lines : \E p \in Applied(how) : k \in p.line + 1..p.line + p.lines - 1}
      from(k) == LET up == {j \in Lines : j >= k + Cardinality({g \in gone : g <= k})}
                 IN  IF up = {} THEN k ELSE Min(up)
  IN  [k \in Lines |-> PatchedLine(how, from(k))]

\* THE LINE COUNT IS PRESERVED: a patched line has the number of the old one.
Apply(how) == [k \in Lines |-> PatchedLine(how, k)]

-----------------------------------------------------------------------------
(* mkbanks.main and the assembler *)

\* The lines filed into a region: those the UNPATCHED listing has there.
Bucket(r) == {k \in Lines \ {OrgLine} : Stock[k].at >= BASE /\ RegionOf(Stock[k].at) = r}

\* Where the line at position k of the patched source lands: behind the ones of
\* its region before it.
Place(src, k) ==
  LET r == RegionOf(Stock[k].at)
      before == {j \in Bucket(r) : j < k}
  IN  Window(r.lo) + MapThenSumSet(LAMBDA j : src[j].n, before)

\* An image: what has been put where, in which bank.
Image(src) ==
  { [bank |-> RegionOf(Stock[k].at).bank, at |-> Place(src, k), line |-> src[k].line,
     new |-> src[k].new] : k \in {j \in Lines \ {OrgLine} : Stock[j].at >= BASE} }

-----------------------------------------------------------------------------
(* check_patch.main *)

\* The bytes of line k that the built image does not have where the baseline
\* does; `over' is the lines some other code has been laid over.
Differs(img, over, k) ==
  \/ k \in over
  \/ [bank |-> RegionOf(Stock[k].at).bank, at |-> Window(Stock[k].at),
      line |-> k, new |-> FALSE] \notin img

Changed(img, over) ==
  UNION {Bytes(Stock[k].at, Stock[k].n) :
           k \in {j \in Lines : Stock[j].at >= BASE /\ Differs(img, over, j)}}

\* Mutant: a stray change is looked for outside the code Combat's own lines fill.
Undeclared_Filler(changed) == changed \cap \hF7FC..\hF7FF

Undeclared(changed) == changed \ UNION {Bytes(d.addr, d.n) : d \in Declared}

\* Mutant: a declaration that changed nothing is let through.
Unused_None(changed) == {}

Unused(changed) == {d \in Declared : changed \cap Bytes(d.addr, d.n) = {}}

Audit(img, over) ==
  LET changed == Changed(img, over) IN Undeclared(changed) = {} /\ Unused(changed) = {}
=============================================================================
