---------------------------- MODULE BuildProofs ----------------------------
(***************************************************************************)
(* What the last gate of build.sh, the audit, lets through, for every      *)
(* listing of Combat and every state of the sources.                       *)
(***************************************************************************)
EXTENDS Build, TLAPS

\* The inductive invariant: an image is built through the audit.
Audited ==
  /\ edit \in Edits
  /\ stage = "built" => Audit(Image(Apply(edit.how)), edit.over)

LEMMA InitInv == Init => Audited
BY DEF Init, Audited

LEMMA NextInv == Audited /\ [Next]_vars => Audited'
<1> SUFFICES ASSUME Audited, [Next]_vars PROVE Audited'
  OBVIOUS
<1> USE DEF Audited
<1>1. CASE ApplyPatches
  BY <1>1 DEF ApplyPatches, Then
<1>2. CASE ExportTail
  BY <1>2 DEF ExportTail, Then
<1>3. CASE CheckBanks
  BY <1>3 DEF CheckBanks, Then
<1>4. CASE CheckRom
  BY <1>4 DEF CheckRom, Then
<1>5. CASE CheckPatch
  BY <1>5 DEF CheckPatch, Then
<1>6. CASE UNCHANGED vars
  BY <1>6 DEF vars
<1> QED
  BY <1>1, <1>2, <1>3, <1>4, <1>5, <1>6 DEF Next

LEMMA AuditedAlways == Spec => []Audited
BY InitInv, NextInv, PTL DEF Spec

-----------------------------------------------------------------------------
(* check_patch *)

\* No byte of Combat outside the declared sites is anybody else's: the audit sees
\* every line another routine was laid over, whatever else was edited.
THEOREM OthersDeclared == Spec => []NothingUndeclared
<1>1. Audited => NothingUndeclared
  <2> SUFFICES ASSUME Audited, stage = "built", NEW k \in edit.over
               PROVE  Within(k, Declared)
    BY DEF NothingUndeclared
  <2> DEFINE img == Image(Apply(edit.how))
             changed == Changed(img, edit.over)
  <2>1. edit \in Edit
    BY EditsAssumption DEF Audited
  <2>2. k \in Lines /\ Stock[k].at >= BASE /\ Stock[k].n > 0
    BY <2>1 DEF Edit, Filled
  <2>3. Stock[k].at \in Nat /\ Stock[k].n \in Nat
    BY <2>2, StockAssumption
  <2>4. Undeclared(changed) = {}
    BY DEF Audited, Audit
  <2> HIDE DEF img
  <2>5. Differs(img, edit.over, k)
    BY DEF Differs
  <2>6. Stock[k].at \in Bytes(Stock[k].at, Stock[k].n)
    BY <2>2, <2>3 DEF Bytes
  <2>7. Stock[k].at \in changed
    BY <2>2, <2>5, <2>6 DEF Changed
  <2> HIDE DEF changed
  <2>8. PICK d \in Declared : Stock[k].at \in Bytes(d.addr, d.n)
    BY <2>4, <2>7 DEF Undeclared
  <2>9. d.addr \in Nat /\ d.n \in Nat
    BY DEF Declared, REWRITTEN, SPANS
  <2> QED
    BY <2>3, <2>8, <2>9 DEF Within, Bytes
<1> QED
  BY <1>1, AuditedAlways, PTL
=============================================================================
