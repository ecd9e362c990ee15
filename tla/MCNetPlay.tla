----------------------------- MODULE MCNetPlay -----------------------------
EXTENDS NetPlayInv, TLC

\* What a new game clears, and what it leaves alone, the variation for one.
MCSims == [game : 0..6, kept : 0..1]
MCStart == [game |-> 0, kept |-> 0]

\* RESET starts the game over, in the variation there is.
MCSimStep(s, in) ==
  [s EXCEPT !.game =
     IF \E c \in Console : in[c].rst THEN 0
     ELSE 1 + ((2 * @ + s.kept + in[Host].nth + in[Guest].nth) % 6)]

MCSurvives(s) == s.kept

\* A game under way may be disturbed in what a new one clears, and, in its second
\* tick, in what a new one leaves alone.
MCUpset(s) ==
  {[s EXCEPT !.game = (@ + 1) % 7] : g \in {s.game} \ {0}} \cup
  {[s EXCEPT !.kept = 1 - @] : g \in {s.game} \cap {1}}

\* CBCRC covers both.
MCChecksum(s) == s

Swap == Permutations(Console)
=============================================================================
