------------------------------ MODULE MCCRelay ------------------------------
EXTENDS CRelay, TLC

CONSTANTS c1, c2, c3, n1, n2, n3

MCVariants(n) == Names \ {n}
MCAddr(c) == "nat"
MCReports == {[tick |-> 0, sum |-> 0]}
Sym == Permutations(Conn) \cup Permutations(Names \ Asked)

\* What steers the rest: not the checksum logs, not what is left in a slot that
\* is not live, and of a generation only which tags and names agree with it.
MCView ==
  <<[s \in Slot |-> LET r == client[s] IN
       IF Live(s) THEN <<r.conn, r.name, r.partner, r.role, r.tx>> ELSE r.in_use],
    [n \in Names |-> LET e == by_name[n] IN
       IF e = NoName THEN FALSE ELSE <<e.slot, e.gen = client[e.slot].gen>>],
    order, phase, {t.slot : t \in {u \in tags : u = LISTEN \/ Fresh(u)}}, walk, told, heard>>
=============================================================================
