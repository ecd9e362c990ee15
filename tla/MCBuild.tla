------------------------------- MODULE MCBuild -------------------------------
EXTENDS Build

\* The patched lines and, as one line each, the code and the tables between them.
MCStock ==
  LET at(a, n) == [at |-> a, n |-> n] IN
  [k \in {100, 201, 203, 204, 207, 208, 212, 236, 237, 245, 265, 266, 270, 449,
          459, 460, 507, 508, 828, 830, 833, 834, 909, 910, 961, 962, 1341, 1342,
          1400, 1500, 1600, 1700, 1800, 1810} \cup 214..228 |->
     CASE k = 100 -> at(0, 0)         [] k = 201 -> at(\hF000, 0)
       [] k = 203 -> at(\hF000, 1)    [] k = 204 -> at(\hF001, 4)
       [] k = 207 -> at(\hF005, 2)    [] k = 208 -> at(\hF007, 10)
       [] k = 212 -> at(\hF011, 3)    [] k = 214 -> at(\hF014, 3)
       [] k \in 215..227 -> at(\hF017 + 2 * (k - 215), 2)
       [] k = 228 -> at(\hF031, 1)    [] k = 236 -> at(\hF032, 2)
       [] k = 237 -> at(\hF034, 32)   [] k = 245 -> at(\hF054, 8)
       [] k = 265 -> at(\hF05C, 3)    [] k = 266 -> at(\hF05F, 2)
       [] k = 270 -> at(\hF061, 245)  [] k = 449 -> at(\hF156, 1)
       [] k = 459 -> at(\hF157, 3)    [] k = 460 -> at(\hF15A, 56)
       [] k = 507 -> at(\hF192, 3)    [] k = 508 -> at(\hF195, 377)
       [] k = 828 -> at(\hF30E, 3)    [] k = 830 -> at(\hF311, 2)
       [] k = 833 -> at(\hF313, 3)    [] k = 834 -> at(\hF316, 88)
       [] k = 909 -> at(\hF36E, 3)    [] k = 910 -> at(\hF371, 74)
       [] k = 961 -> at(\hF3BB, 2)    [] k = 962 -> at(\hF3BD, 479)
       [] k = 1341 -> at(\hF59C, 3)   [] k = 1342 -> at(\hF59F, 38)
       [] k = 1400 -> at(\hF5C5, 50)  [] k = 1500 -> at(\hF5F7, 386)
       [] k = 1600 -> at(\hF779, 77)  [] k = 1700 -> at(\hF7C6, 46)
       [] k = 1800 -> at(\hF7F4, 8)   [] k = 1810 -> at(\hF7FC, 4)]

Org(a) == [org |-> TRUE, at |-> a, n |-> 0]

\* Four instructions in a row from a, after an ORG.
Run4(a, n) ==
  LET pos(i) == a + (IF i > 1 THEN n[1] ELSE 0) + (IF i > 2 THEN n[2] ELSE 0)
                  + (IF i > 3 THEN n[3] ELSE 0)
  IN  [i \in 1..4 |-> [org |-> FALSE, at |-> pos(i), n |-> n[i]]]

Vectors == <<Org(VECTORS), [org |-> FALSE, at |-> VECTORS, n |-> 4]>>

\* Code that ends near the top, then the vectors; or a table at the top and code
\* in an earlier hole after it.
Listings(org, top) ==
  LET Code == {<<Org(org)>> \o Run4(a, n) : a \in top - 9..top - 4, n \in [1..4 -> 1..3]}
  IN  {l \o Vectors : l \in Code} \cup {Vectors \o l : l \in Code}

Good == [p \in ALL |-> "good"]

\* One or two entries of the patch list are not as they should be.
Hows ==
  LET Bad(p) == States \ IF p \in INPUTS THEN {} ELSE {"short"}
  IN  UNION {{[Good EXCEPT ![p] = x, ![q] = y] : x \in Bad(p), y \in Bad(q)} : p, q \in ALL}

Clean == [how |-> Good, over |-> Filler, tail |-> <<Org(\h1F20)>>, bank |-> <<Org(\h1000)>>,
          findings |-> {}]

MCEdits ==
  {[Clean EXCEPT !.how = h] : h \in Hows}
  \cup {[Clean EXCEPT !.over = Filler \cup {k}] : k \in Lines \ {100, 201}}
  \cup {[Clean EXCEPT !.over = {}]}
  \cup {[Clean EXCEPT !.tail = l] : l \in Listings(\h1F20, VECTORS)}
  \cup {[Clean EXCEPT !.bank = l] : l \in Listings(\h1000, LIMIT)}
  \cup {[Clean EXCEPT !.findings = {[bank |-> b, at |-> a]}] :
          b \in 0..2, a \in {\h1000, \h1054, \h1157, \h15C5, \h15F6, \h15F7, \h1778, \h1779,
                             \h17C5, \h17C6, \h17F3, \h17F4, \h17FF}}
  \cup {[Clean EXCEPT !.findings = {[bank |-> 3, at |-> a]}] : a \in {\h1DC5, \h1F20, \h1FFB}}
=============================================================================
