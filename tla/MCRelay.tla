------------------------------ MODULE MCRelay ------------------------------
EXTENDS Relay, TLC

CONSTANTS c1, c2, c3, c4, n1, n2, n3, n4

MCVariants(n) == Names \ {n}
MCAddr(c) == "nat"
MCReports == {[tick |-> 0, sum |-> 0]}

\* The logs of the checksums steer nothing else; CrcMatch explores them.
MCView == <<connVars, pairVars, tx, heard>>

Sym == Permutations(Conn) \cup Permutations(Names \ Asked)
=============================================================================
