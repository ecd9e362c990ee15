--------------------------- MODULE CrcMatchProofs ---------------------------
(***************************************************************************)
(* The relay's verdict on a match is right for every width of the tick     *)
(* byte, every log that holds what one console can be ahead by, every skip *)
(* of less than half a lap and a match of any length, in Python's dict and *)
(* in C's array of slots.                                                  *)
(***************************************************************************)
EXTENDS CrcMatch, SequenceTheorems, TLAPS

Entry == [key : Nat, sum : Nat]

\* A log is in the order of its ticks, and two entries are at least as many
\* ticks apart as they are places: what eviction by age relies on.
Rising(log) ==
  \A i, j \in 1..Len(log) : i < j => log[j].key - log[i].key >= j - i

\* What a console's log holds was reported by it, and by no later record than
\* the latest.
Reported(c, log) ==
  \A i \in 1..Len(log) :
    log[i].key \in Delay..newest[c] /\ log[i].sum = Sample(c, log[i].key)

\* The relay's lap and tick byte are the latest record's tick.
OnLap(c) ==
  /\ newest[c] \in Int /\ newest[c] >= Delay - 1
  /\ newest[c] <= newest[Mate(c)] + Lead
  /\ IF newest[c] = Delay - 1 THEN last[c] = -1 /\ lap[c] = 0
     ELSE last[c] = newest[c] % WireTicks /\ lap[c] = newest[c] \div WireTicks

\* The tick in dispute: who has reported it, and that its entry is there for as
\* long as the partner has not come to it.
Dispute(c) ==
  /\ said[c] => split <= newest[c]
  /\ newest[c] = split => said[c]
  /\ Holds(crc[c], split) => said[c]
  /\ said[c] /\ newest[Mate(c)] < split => Holds(crc[c], split)

\* The partner has come to whatever an entry beyond those kept by age is for:
\* it was reported second, or it would have been evicted.
Passed(c) ==
  \A i \in 1..Len(crc[c]) : i > Keep => crc[c][i].key <= newest[Mate(c)]

MatchTypes ==
  /\ crc \in [Conn -> Seq(Entry)]
  /\ lap \in [Conn -> Int] /\ last \in [Conn -> Int] /\ bad \in BOOLEAN
  /\ newest \in [Conn -> Int] /\ said \in [Conn -> BOOLEAN]
  /\ split \in Nat /\ split >= Delay
  /\ slots \in {None, CrcSlots}

\* The inductive invariant.
MatchInv ==
  /\ MatchTypes
  /\ \A c \in Conn : OnLap(c) /\ Dispute(c) /\ Passed(c)
  /\ \A c \in Conn : Rising(crc[c]) /\ Reported(c, crc[c])
  /\ VerdictRight

-----------------------------------------------------------------------------
(* Laps *)

LEMMA DivMod ==
  ASSUME NEW n \in Nat \ {0}, NEW a \in Int
  PROVE  /\ a = n * (a \div n) + (a % n)
         /\ a % n \in 0..(n - 1) /\ a \div n \in Int
OBVIOUS

LEMMA DivModUnique ==
  ASSUME NEW n \in Nat \ {0}, NEW q \in Int, NEW r \in 0..(n - 1)
  PROVE  (n * q + r) \div n = q /\ (n * q + r) % n = r
OBVIOUS

\* A tick byte that jumps back while the tick goes on by less than half the
\* range is on the next lap, and no other is.
LEMMA LapIs ==
  ASSUME NEW n \in Nat, n >= 2, NEW a \in Int, NEW t \in Int, a <= t, t - a < n \div 2
  PROVE  LET delta == ((t % n) - (a % n)) % n
         IN  t \div n = IF 0 < delta /\ delta < n \div 2 /\ t % n < a % n
                        THEN a \div n + 1 ELSE a \div n
<1> DEFINE q == a \div n
           r == a % n
           d == t - a
           h == n \div 2
<1>1. a = n * q + r /\ r \in 0..(n - 1) /\ q \in Int /\ n \in Nat \ {0}
  BY DivMod
<1>2. d \in Nat /\ d < h /\ h \in Nat /\ 2 * h <= n /\ t = a + d
  OBVIOUS
<1> HIDE DEF q, r, d, h
<1>3. CASE r + d < n
  <2>1. r + d \in 0..(n - 1) /\ t = n * q + (r + d)
    BY <1>1, <1>2, <1>3
  <2>2. t \div n = q /\ t % n = r + d
    BY <1>1, <2>1, DivModUnique
  <2> QED
    BY <1>1, <1>2, <2>2 DEF q, r
<1>4. CASE r + d >= n
  <2>1. r + d - n \in 0..(n - 1) /\ q + 1 \in Int
    BY <1>1, <1>2, <1>4
  <2>0. t = n * (q + 1) + (r + d - n)
    BY <1>1, <1>2
  <2>2. t \div n = q + 1 /\ t % n = r + d - n
    BY <1>1, <2>1, <2>0, DivModUnique
  <2>3. ((t % n) - r) = n * (-1) + d /\ d \in 0..(n - 1)
    BY <1>1, <1>2, <2>2
  <2>4. ((t % n) - r) % n = d
    BY <1>1, <2>3, DivModUnique
  <2>5. 0 < d /\ t % n < r
    BY <1>1, <1>2, <1>4, <2>2
  <2> QED
    BY <1>1, <1>2, <2>2, <2>4, <2>5 DEF q, r, h
<1> QED
  BY <1>1, <1>2, <1>3, <1>4

-----------------------------------------------------------------------------
(* Logs *)

LEMMA InPlace ==
  ASSUME NEW log \in Seq(Entry), NEW key, Holds(log, key)
  PROVE  Place(log, key) \in 1..Len(log) /\ log[Place(log, key)].key = key
<1>1. \E i \in DOMAIN log : log[i].key = key
  BY DEF Holds
<1>2. DOMAIN log = 1..Len(log)
  BY LenProperties
<1> QED
  BY <1>1, <1>2 DEF Place

LEMMA HoldsIs ==
  ASSUME NEW log \in Seq(Entry), NEW key
  PROVE  Holds(log, key) <=> \E i \in 1..Len(log) : log[i].key = key
BY LenProperties DEF Holds

LEMMA EntryAt ==
  ASSUME NEW log \in Seq(Entry), NEW i \in 1..Len(log)
  PROVE  log[i] \in Entry /\ log[i].key \in Nat
<1>1. log[i] \in Entry
  BY ElementOfSeq
<1> QED
  BY <1>1 DEF Entry

\* What an assignment to key makes of a log: its entries are the new one and old
\* ones, each in its place.
Assigned(log, new, key, sum) ==
  /\ new \in Seq(Entry) /\ Rising(new) /\ Holds(new, key)
  /\ \A i \in 1..Len(new) : \/ new[i] = [key |-> key, sum |-> sum]
                            \/ \E j \in 1..Len(log) : new[i] = log[j]
  /\ \A i \in 1..Len(new) : \/ new[i].key = key
                            \/ i \in 1..Len(log) /\ new[i].key = log[i].key

\* Putting a tick that no entry is past keeps the order and everything held.
LEMMA PutKeeps ==
  ASSUME NEW log \in Seq(Entry), Rising(log), NEW key \in Nat, NEW sum \in Nat,
         \A i \in 1..Len(log) : log[i].key <= key
  PROVE  /\ Assigned(log, Put(log, key, sum), key, sum)
         /\ \A k : Holds(log, k) => Holds(Put(log, key, sum), k)
<1> DEFINE e == [key |-> key, sum |-> sum]
           new == Put(log, key, sum)
<1>1. e \in Entry /\ e.key = key
  BY DEF Entry
<1>2. \A i \in 1..Len(log) : log[i] \in Entry /\ log[i].key \in Nat
  BY EntryAt
<1>0. Len(log) \in Nat /\ DOMAIN log = 1..Len(log)
  BY LenProperties
<1>3. CASE Holds(log, key)
  <2>1. new = [i \in 1..Len(log) |-> IF log[i].key = key THEN e ELSE log[i]]
    BY <1>0, <1>3 DEF Put
  <2> HIDE DEF e, new
  <2>2. new \in Seq(Entry) /\ Len(new) = Len(log)
    BY <1>0, <1>1, <1>2, <2>1
  <2>3. \A i \in 1..Len(log) : new[i] = e \/ new[i] = log[i]
    BY <2>1
  <2>4. \A i \in 1..Len(log) : new[i].key = log[i].key
    BY <1>1, <2>1
  <2>5. Rising(new)
    BY <2>2, <2>4 DEF Rising
  <2>6. \A k : Holds(log, k) => Holds(new, k)
    BY <2>2, <2>4, HoldsIs
  <2> QED
    BY <1>3, <2>2, <2>3, <2>4, <2>5, <2>6 DEF e, new, Assigned
<1>4. CASE ~Holds(log, key)
  <2>1. new = Append(log, e)
    BY <1>4 DEF Put
  <2> HIDE DEF e, new
  <2>2. /\ new \in Seq(Entry) /\ Len(new) = Len(log) + 1
        /\ new[Len(log) + 1] = e /\ \A i \in 1..Len(log) : new[i] = log[i]
    BY <1>1, <2>1, AppendProperties
  <2>3. \A i \in 1..Len(log) : log[i].key < key
    BY <1>2, <1>4, HoldsIs
  <2>9. \A i \in 1..Len(log) : key - log[i].key >= Len(log) + 1 - i
    <3> SUFFICES ASSUME NEW i \in 1..Len(log)
                 PROVE  key - log[i].key >= Len(log) + 1 - i
      OBVIOUS
    <3>1. Len(log) \in 1..Len(log) /\ i \in Int /\ i <= Len(log)
      BY <1>0
    <3>2. log[Len(log)].key < key /\ log[Len(log)].key \in Nat /\ log[i].key \in Nat
      BY <1>2, <2>3, <3>1
    <3>3. i < Len(log) => log[Len(log)].key - log[i].key >= Len(log) - i
      BY <3>1 DEF Rising
    <3> QED
      BY <1>0, <3>1, <3>2, <3>3
  <2>4. ASSUME NEW i \in 1..Len(new), NEW j \in 1..Len(new), i < j
        PROVE  new[j].key - new[i].key >= j - i
    <3>1. i \in 1..Len(log) /\ new[i] = log[i] /\ (j \in 1..Len(log) \/ j = Len(log) + 1)
      BY <1>0, <2>2, <2>4
    <3>2. CASE j \in 1..Len(log)
      BY <2>2, <2>4, <3>1, <3>2 DEF Rising
    <3>3. CASE j = Len(log) + 1
      BY <1>0, <1>1, <2>2, <2>9, <3>1, <3>3
    <3> QED
      BY <3>1, <3>2, <3>3
  <2>5. Rising(new)
    BY <2>4 DEF Rising
  <2>6. Holds(new, key)
    BY <1>0, <1>1, <2>2, HoldsIs
  <2>7. \A k : Holds(log, k) => Holds(new, k)
    BY <1>0, <2>2, HoldsIs
  <2>8. \A i \in 1..Len(new) : new[i] = e \/ \E j \in 1..Len(log) : new[i] = log[j]
    BY <1>0, <2>2
  <2>10. \A i \in 1..Len(new) : \/ new[i].key = key
                                \/ i \in 1..Len(log) /\ new[i].key = log[i].key
    <3> SUFFICES ASSUME NEW i \in 1..Len(new), i # Len(log) + 1
                 PROVE  i \in 1..Len(log) /\ new[i] = log[i]
      BY <1>1, <2>2
    <3> QED
      BY <1>0, <2>2
  <2> QED
    BY <2>2, <2>5, <2>6, <2>7, <2>8, <2>10 DEF e, new, Assigned
<1> QED
  BY <1>3, <1>4

\* So does crc_set, but for what it overwrites, which is an entry beyond those
\* kept by age.
LEMMA AssignKeeps ==
  ASSUME NEW log \in Seq(Entry), Rising(log), NEW key \in Nat, NEW sum \in Nat,
         \A i \in 1..Len(log) : log[i].key <= key,
         NEW size \in {None, CrcSlots}
  PROVE  LET new == Assign(log, key, sum, size)
         IN  /\ Assigned(log, new, key, sum)
             /\ \A i \in 1..Len(log) : i <= Keep => Holds(new, log[i].key)
<1> DEFINE new == Assign(log, key, sum, size)
           pre == SubSeq(log, 1, size - 1)
<1>0. Len(log) \in Nat /\ Keep \in Nat /\ CrcSlots \in Nat /\ Keep < CrcSlots
  BY LogAssumption, MatchAssumption, LenProperties
<1>1. CASE size = None \/ Holds(log, key) \/ Len(log) < size
  <2>1. new = Put(log, key, sum)
    BY <1>1 DEF Assign
  <2>2. \A i \in 1..Len(log) : Holds(log, log[i].key)
    BY HoldsIs
  <2> HIDE DEF new
  <2> QED
    BY <2>1, <2>2, PutKeeps DEF new
<1>2. CASE ~(size = None \/ Holds(log, key) \/ Len(log) < size)
  <2>1. /\ size \in Nat /\ Keep < size /\ size <= Len(log) /\ ~Holds(log, key)
        /\ new = Append(pre, [key |-> key, sum |-> sum])
    BY <1>0, <1>2 DEF Assign
  <2>2. /\ pre \in Seq(Entry) /\ Len(pre) = size - 1
        /\ \A i \in 1..(size - 1) : pre[i] = log[i]
    BY <1>0, <2>1
  <2> HIDE DEF new, pre
  <2>3. \A i \in 1..Len(pre) : i \in 1..Len(log) /\ pre[i] = log[i]
    BY <1>0, <2>1, <2>2
  <2>4. ~Holds(pre, key)
    BY <2>1, <2>2, <2>3, HoldsIs
  <2>5. new = Put(pre, key, sum)
    BY <2>1, <2>4 DEF Put
  <2>6. Rising(pre)
    BY <2>3 DEF Rising
  <2>7. \A i \in 1..Len(pre) : pre[i].key <= key
    BY <2>3
  <2>8. Assigned(pre, new, key, sum) /\ \A k : Holds(pre, k) => Holds(new, k)
    BY <2>2, <2>5, <2>6, <2>7, PutKeeps
  <2>9. ASSUME NEW i \in 1..Len(log), i <= Keep PROVE Holds(new, log[i].key)
    <3>1. i \in 1..Len(pre)
      BY <1>0, <2>1, <2>2, <2>9
    <3> QED
      BY <2>2, <2>3, <2>8, <3>1, HoldsIs
  <2>10. Assigned(log, new, key, sum)
    BY <2>3, <2>8 DEF Assigned
  <2> QED
    BY <2>9, <2>10 DEF new
<1> QED
  BY <1>1, <1>2

\* Eviction by age keeps the order, and every entry that fewer than Keep ticks
\* separate from the newest.
LEMMA YoungestKeeps ==
  ASSUME NEW log \in Seq(Entry), Rising(log)
  PROVE  LET new == Youngest(log)
         IN  /\ new \in Seq(Entry) /\ Rising(new) /\ Len(new) <= Keep
             /\ \A i \in 1..Len(new) : \E j \in 1..Len(log) : new[i] = log[j]
             /\ \A i \in 1..Len(log) :
                  log[Len(log)].key - log[i].key < Keep => Holds(new, log[i].key)
<1> DEFINE new == Youngest(log)
           d == Len(log) - Keep
<1>0. Len(log) \in Nat /\ Keep \in Nat \ {0} /\ d \in Int /\ d = Len(log) - Keep
  BY LogAssumption, LenProperties
<1>1. CASE d <= 0
  <2>1. new = log
    BY <1>0, <1>1 DEF Youngest
  <2> HIDE DEF new
  <2>2. \A i \in 1..Len(log) : Holds(new, log[i].key)
    BY <2>1, HoldsIs
  <2>3. Len(new) <= Keep
    BY <1>0, <1>1, <2>1
  <2> QED
    BY <2>1, <2>2, <2>3 DEF new
<1>2. CASE d > 0
  <2>1. new = SubSeq(log, d + 1, Len(log)) /\ d \in Nat /\ d + 1 \in 1..Len(log)
    BY <1>0, <1>2 DEF Youngest
  <2> HIDE DEF new, d
  <2>2. /\ new \in Seq(Entry) /\ Len(new) = Len(log) - d
        /\ \A i \in 1..(Len(log) - d) : new[i] = log[d + i]
    BY <1>0, <2>1
  <2>3. \A i \in 1..Len(new) : i \in 1..(Len(log) - d) /\ d + i \in 1..Len(log) /\ new[i] = log[d + i]
    BY <1>0, <2>1, <2>2
  <2>4. ASSUME NEW i \in 1..Len(new), NEW j \in 1..Len(new), i < j
        PROVE  new[j].key - new[i].key >= j - i
    <3>3. d + i \in 1..Len(log) /\ d + j \in 1..Len(log)
      BY <2>3
    <3>4. d + i < d + j
      BY <2>1, <2>4
    <3>1. log[d + j].key - log[d + i].key >= (d + j) - (d + i)
      BY <3>3, <3>4 DEF Rising
    <3>2. (d + j) - (d + i) = j - i
      BY <2>1
    <3> QED
      BY <2>3, <3>1, <3>2
  <2>5. ASSUME NEW i \in 1..Len(log), log[Len(log)].key - log[i].key < Keep
        PROVE  Holds(new, log[i].key)
    <3>1. i = Len(log) \/ log[Len(log)].key - log[i].key >= Len(log) - i
      BY <1>0 DEF Rising
    <3>0. log[Len(log)].key \in Nat /\ log[i].key \in Nat
      BY <1>0, <2>1, EntryAt
    <3>2. i > d
      BY <1>0, <2>1, <2>5, <3>1, <3>0
    <3>3. i - d \in 1..(Len(log) - d) /\ d + (i - d) = i
      BY <1>0, <2>1, <3>2
    <3>4. new[i - d] = log[i] /\ i - d \in 1..Len(new)
      BY <2>2, <3>3
    <3> QED
      BY <2>2, <3>4, HoldsIs
  <2>6. Rising(new)
    BY <2>4 DEF Rising
  <2>7. Len(new) <= Keep
    BY <1>0, <2>2 DEF d
  <2> QED
    BY <2>2, <2>3, <2>5, <2>6, <2>7 DEF new
<1> QED
  BY <1>0, <1>1, <1>2

\* Taking a tick out keeps the order, and every other tick.
LEMMA WithoutKeeps ==
  ASSUME NEW log \in Seq(Entry), Rising(log), NEW key, Holds(log, key)
  PROVE  LET new == Without(log, key)
         IN  /\ new \in Seq(Entry) /\ Rising(new)
             /\ \A i \in 1..Len(new) : \E j \in 1..Len(log) : i <= j /\ new[i] = log[j]
             /\ \A k : Holds(log, k) /\ k # key => Holds(new, k)
<1> DEFINE p == Place(log, key)
           as == SubSeq(log, 1, p - 1)
           bs == SubSeq(log, p + 1, Len(log))
           new == as \o bs
<1>1. p \in 1..Len(log) /\ log[p].key = key
  BY InPlace
<1>2. Len(log) \in Nat
  BY LenProperties
<1>3. Without(log, key) = new
  BY DEF Without, Cut
<1> HIDE DEF p
<1>4. as \in Seq(Entry) /\ Len(as) = p - 1 /\ \A j \in 1..(p - 1) : as[j] = log[j]
  BY <1>1, <1>2
<1>5. /\ bs \in Seq(Entry) /\ Len(bs) = Len(log) - p
      /\ \A j \in 1..(Len(log) - p) : bs[j] = log[p + j]
  BY <1>1, <1>2
<1> HIDE DEF as, bs
<1>6. /\ new \in Seq(Entry) /\ Len(new) = Len(as) + Len(bs)
      /\ \A j \in 1..(Len(as) + Len(bs)) :
           new[j] = IF j <= Len(as) THEN as[j] ELSE bs[j - Len(as)]
  BY <1>4, <1>5, ConcatProperties
<1> HIDE DEF new
<1>7. Len(new) = Len(log) - 1 /\ p \in Int /\ 1 <= p /\ p <= Len(log)
  BY <1>1, <1>2, <1>4, <1>5, <1>6
<1>8. ASSUME NEW j \in 1..(Len(log) - 1)
      PROVE  new[j] = IF j < p THEN log[j] ELSE log[j + 1]
  <2>1. CASE j < p
    <3>1. j \in 1..(p - 1) /\ j <= Len(as) /\ j \in 1..(Len(as) + Len(bs))
      BY <1>2, <1>4, <1>6, <1>7, <2>1
    <3> QED
      BY <1>4, <1>6, <2>1, <3>1
  <2>2. CASE ~(j < p)
    <3> DEFINE m == j - (p - 1)
    <3>1. /\ m \in 1..(Len(log) - p) /\ p + m = j + 1 /\ ~(j <= Len(as))
          /\ j - Len(as) = m /\ j \in 1..(Len(as) + Len(bs))
      BY <1>2, <1>4, <1>6, <1>7, <2>2
    <3> HIDE DEF m
    <3> QED
      BY <1>5, <1>6, <2>2, <3>1
  <2> QED
    BY <2>1, <2>2
<1> DEFINE at(j) == IF j < p THEN j ELSE j + 1
<1>9. \A j \in 1..Len(new) : at(j) \in 1..Len(log) /\ j <= at(j) /\ new[j] = log[at(j)]
  BY <1>2, <1>7, <1>8
<1>10. ASSUME NEW i \in 1..Len(new), NEW j \in 1..Len(new), i < j
       PROVE  new[j].key - new[i].key >= j - i
  <2>1. at(i) < at(j) /\ at(j) - at(i) >= j - i
    BY <1>7, <1>10
  <2>2. at(i) \in 1..Len(log) /\ at(j) \in 1..Len(log)
    BY <1>9
  <2>0. new[i] = log[at(i)] /\ new[j] = log[at(j)]
    BY <1>9
  <2>5. at(i) \in Int /\ at(j) \in Int
    BY <2>2
  <2> HIDE DEF at
  <2>3. log[at(j)].key - log[at(i)].key >= at(j) - at(i)
    BY <2>1, <2>2 DEF Rising
  <2>4. log[at(j)].key \in Nat /\ log[at(i)].key \in Nat
    BY <2>2, EntryAt
  <2> QED
    BY <2>0, <2>1, <2>3, <2>4, <2>5, SMTT(30)
<1>11. ASSUME NEW k, Holds(log, k), k # key
       PROVE  Holds(new, k)
  <2>1. PICK i \in 1..Len(log) : log[i].key = k
    BY <1>11, HoldsIs
  <2>2. i # p
    BY <1>1, <1>11, <2>1
  <2>3. CASE i < p
    <3>1. i \in 1..(Len(log) - 1) /\ new[i] = log[i]
      BY <1>2, <1>7, <1>8, <2>3
    <3> QED
      BY <1>6, <1>7, <2>1, <3>1, HoldsIs
  <2>4. CASE i > p
    <3>1. i - 1 \in 1..(Len(log) - 1) /\ ~(i - 1 < p) /\ (i - 1) + 1 = i
      BY <1>2, <1>7, <2>4
    <3>2. new[i - 1] = log[i]
      BY <1>8, <3>1
    <3> QED
      BY <1>6, <1>7, <2>1, <3>1, <3>2, HoldsIs
  <2> QED
    BY <1>7, <2>2, <2>3, <2>4
<1>12. Rising(new)
  BY <1>10 DEF Rising
<1> QED
  BY <1>3, <1>6, <1>9, <1>11, <1>12

LEMMA SumIs ==
  ASSUME NEW log \in Seq(Entry), NEW key, Holds(log, key)
  PROVE  \E i \in 1..Len(log) : log[i].key = key /\ log[i].sum = Sum(log, key)
BY InPlace DEF Sum

-----------------------------------------------------------------------------
(* The two consoles *)

LEMMA MateIs ==
  ASSUME NEW c \in Conn
  PROVE  /\ Mate(c) \in Conn /\ Mate(c) # c /\ Mate(Mate(c)) = c
         /\ Mate(c) # None /\ \A d \in Conn : d = c \/ d = Mate(c)
<1>1. Mate(c) # c /\ Conn = {c, Mate(c)}
  BY MatchAssumption
<1>2. Mate(Mate(c)) # Mate(c) /\ Conn = {Mate(c), Mate(Mate(c))}
  BY <1>1, MatchAssumption
<1> QED
  BY <1>1, <1>2, LogAssumption

LEMMA SampleIs ==
  ASSUME NEW c \in Conn, NEW t \in Nat
  PROVE  Sample(c, t) \in Nat /\ (Sample(c, t) # Sample(Mate(c), t) <=> t = split)
<1> DEFINE first == CHOOSE d \in Conn : TRUE
<1>1. first \in Conn
  OBVIOUS
<1>2. \A d, u : Sample(d, u) = IF u = split /\ d = first THEN 2 * u + 1 ELSE 2 * u
  BY DEF Sample
<1> HIDE DEF first
<1>3. first = c \/ first = Mate(c)
  BY <1>1, MateIs
<1>4. Mate(c) # c
  BY MateIs
<1> QED
  BY <1>2, <1>3, <1>4

-----------------------------------------------------------------------------
(* One record *)

LEMMA InitInv == Init => MatchInv
<1> SUFFICES ASSUME Init PROVE MatchInv
  OBVIOUS
<1> USE MatchAssumption DEF Init, LogInit
<1>1. MatchTypes
  <2>1. <<>> \in Seq(Entry)
    OBVIOUS
  <2>2. split \in Nat /\ split >= Delay /\ slots \in {None, CrcSlots}
    OBVIOUS
  <2>3. newest \in [Conn -> Int] /\ lap \in [Conn -> Int] /\ last \in [Conn -> Int]
    OBVIOUS
  <2>4. crc \in [Conn -> Seq(Entry)] /\ said \in [Conn -> BOOLEAN] /\ bad \in BOOLEAN
    BY <2>1
  <2> QED
    BY <2>2, <2>3, <2>4 DEF MatchTypes
<1>2. ASSUME NEW c \in Conn
      PROVE  OnLap(c) /\ Dispute(c) /\ Passed(c) /\ Rising(crc[c]) /\ Reported(c, crc[c])
  <2>1. Mate(c) \in Conn
    BY MateIs
  <2>2. ~Holds(crc[c], split) /\ Rising(crc[c]) /\ Reported(c, crc[c]) /\ Passed(c)
    BY DEF Holds, Rising, Reported, Passed
  <2>3. Dispute(c)
    BY <2>1, <2>2 DEF Dispute
  <2>4. OnLap(c)
    BY <2>1 DEF OnLap
  <2> QED
    BY <2>2, <2>3, <2>4
<1>3. \E c \in Conn : said[c] = FALSE
  BY MatchAssumption
<1>4. VerdictRight
  BY <1>3 DEF VerdictRight
<1> QED
  BY <1>1, <1>2, <1>4 DEF MatchInv

\* The tick byte and the lap give back the tick.
LEMMA TickBack ==
  ASSUME NEW c \in Conn, NEW t \in Nat, MatchTypes, OnLap(c),
         Delay <= t, newest[c] <= t, t <= newest[c] + MaxSkip
  PROVE  /\ LapAfter(c, t % WireTicks) = t \div WireTicks
         /\ LapAfter(c, t % WireTicks) * WireTicks + (t % WireTicks) = t
<1>0. /\ WireTicks \in Nat \ {0} /\ WireTicks >= 2 /\ Delay \in Nat /\ MaxSkip \in Nat
      /\ MaxSkip < WireTicks \div 2 /\ Delay + MaxSkip <= WireTicks
  BY LogAssumption, MatchAssumption
<1>1. newest[c] \in Int /\ lap[c] \in Int /\ last[c] \in Int
  BY DEF MatchTypes
<1>2. t = WireTicks * (t \div WireTicks) + (t % WireTicks) /\ t \div WireTicks \in Int
      /\ t % WireTicks \in 0..(WireTicks - 1)
  BY <1>0, DivMod
<1>3. LapAfter(c, t % WireTicks) = t \div WireTicks
  <2>1. CASE newest[c] = Delay - 1
    <3>1. last[c] = -1 /\ lap[c] = 0
      BY <2>1 DEF OnLap
    <3>2. LapAfter(c, t % WireTicks) = 0
      BY <3>1 DEF LapAfter
    <3>3. t \in 0..(WireTicks - 1) /\ t = WireTicks * 0 + t
      BY <1>0, <2>1
    <3>4. t \div WireTicks = 0
      BY <1>0, <3>3, DivModUnique
    <3> QED
      BY <3>2, <3>4
  <2>2. CASE newest[c] # Delay - 1
    <3>1. last[c] = newest[c] % WireTicks /\ lap[c] = newest[c] \div WireTicks
      BY <2>2 DEF OnLap
    <3>2. newest[c] % WireTicks # -1
      <4>1. newest[c] % WireTicks \in 0..(WireTicks - 1)
        BY <1>0, <1>1, DivMod
      <4> QED
        BY <1>0, <4>1
    <3>3. t - newest[c] < WireTicks \div 2
      BY <1>0, <1>1
    <3> DEFINE a == newest[c]
               delta == ((t % WireTicks) - (a % WireTicks)) % WireTicks
    <3>5. a \in Int /\ a <= t /\ t - a < WireTicks \div 2
      BY <1>1, <3>3
    <3> HIDE DEF a
    <3>4. t \div WireTicks =
            IF 0 < delta /\ delta < WireTicks \div 2 /\ t % WireTicks < a % WireTicks
            THEN a \div WireTicks + 1 ELSE a \div WireTicks
      BY <1>0, <3>5, LapIs
    <3> QED
      BY <3>1, <3>2, <3>4 DEF LapAfter, a
  <2> QED
    BY <2>1, <2>2
<1>4. (t \div WireTicks) * WireTicks = WireTicks * (t \div WireTicks)
  BY <1>0, <1>2
<1> QED
  BY <1>2, <1>3, <1>4

\* What a record does to the two logs: an entry of the partner's for the tick is
\* paired and taken out, or else the new one waits.
LEMMA ReportIs ==
  ASSUME MatchInv, NEW c \in Conn, NEW t \in Delay..MaxTick, Report(c, t)
  PROVE  LET p == Mate(c)
             mine == Assign(crc[c], t, Sample(c, t), slots)
         IN  /\ lap' = [lap EXCEPT ![c] = t \div WireTicks]
             /\ last' = [last EXCEPT ![c] = t % WireTicks]
             /\ newest' = [newest EXCEPT ![c] = t]
             /\ said' = [said EXCEPT ![c] = @ \/ t = split]
             /\ split' = split /\ slots' = slots
             /\ \/ /\ ~Holds(crc[p], t) /\ bad' = bad
                   /\ crc' = [crc EXCEPT ![c] = Youngest(mine)]
                \/ /\ Holds(crc[p], t) /\ bad' = (bad \/ Sum(crc[p], t) # Sample(c, t))
                   /\ crc' = [crc EXCEPT ![c] = mine, ![p] = Without(@, t)]
<1> DEFINE tick == t % WireTicks
           l == LapAfter(c, tick)
           key == l * WireTicks + tick
           sum == Sample(c, t)
<1>1. /\ LogCrc(c, Mate(c), tick, sum, slots)
      /\ newest' = [newest EXCEPT ![c] = t]
      /\ said' = [said EXCEPT ![c] = @ \/ t = split] /\ split' = split /\ slots' = slots
      /\ t \in Nat /\ Delay <= t /\ newest[c] <= t /\ t <= newest[c] + MaxSkip
  BY MatchAssumption DEF Report
<1>2. l = t \div WireTicks /\ key = t
  BY <1>1, TickBack DEF MatchInv
<1>3. Mate(c) # None
  BY MateIs
<1> HIDE DEF tick, sum
<1>4. /\ lap' = [lap EXCEPT ![c] = l] /\ last' = [last EXCEPT ![c] = tick]
      /\ IF Mate(c) = None \/ ~Holds(crc[Mate(c)], key)
         THEN /\ crc' = [crc EXCEPT ![c] = Youngest(Assign(crc[c], key, sum, slots))]
              /\ bad' = bad
         ELSE /\ crc' = [crc EXCEPT ![c] = Assign(crc[c], key, sum, slots), ![Mate(c)] = Without(@, key)]
              /\ bad' = (bad \/ Sum(crc[Mate(c)], key) # sum)
  BY <1>1 DEF LogCrc
<1> HIDE DEF l, key
<1> QED
  BY <1>1, <1>2, <1>3, <1>4 DEF tick, sum

LEMMA ReportStep ==
  ASSUME MatchInv, NEW c \in Conn, NEW t \in Delay..MaxTick, Report(c, t)
  PROVE  MatchInv'
<1> DEFINE p == Mate(c)
           e == [key |-> t, sum |-> Sample(c, t)]
           mine == Assign(crc[c], t, Sample(c, t), slots)
           ours == crc'[c]
           theirs == crc'[p]
<1>0. /\ MatchTypes /\ \A d \in Conn : OnLap(d) /\ Dispute(d) /\ Passed(d)
      /\ \A d \in Conn : Rising(crc[d]) /\ Reported(d, crc[d])
      /\ VerdictRight
  BY DEF MatchInv
<1>1. p \in Conn /\ p # c /\ Mate(p) = c /\ \A d \in Conn : d = c \/ d = p
  BY MateIs
<1>2. /\ t \in Nat /\ t >= Delay /\ newest[c] <= t /\ t <= newest[p] + Lead
      /\ Delay \in Nat /\ Lead \in Nat /\ Keep \in Nat /\ Lead < Keep
      /\ WireTicks \in Nat \ {0}
  BY MatchAssumption, LogAssumption DEF Report
<1>3. /\ crc[c] \in Seq(Entry) /\ crc[p] \in Seq(Entry) /\ crc \in [Conn -> Seq(Entry)]
      /\ newest[c] \in Int /\ newest[p] \in Int /\ split \in Nat /\ said[c] \in BOOLEAN
      /\ said[p] \in BOOLEAN /\ bad \in BOOLEAN
  BY <1>0, <1>1 DEF MatchTypes
<1>4. Sample(c, t) \in Nat /\ (Sample(c, t) # Sample(p, t) <=> t = split)
  BY <1>2, SampleIs
<1>5. \A d \in Conn : \A i \in 1..Len(crc[d]) :
        /\ crc[d][i].key \in Delay..newest[d]
        /\ crc[d][i].sum = Sample(d, crc[d][i].key)
  BY <1>0 DEF Reported
<1>60. /\ Assigned(crc[c], mine, t, Sample(c, t))
       /\ \A i \in 1..Len(crc[c]) : i <= Keep => Holds(mine, crc[c][i].key)
  <2>1. \A i \in 1..Len(crc[c]) : crc[c][i].key <= t
    BY <1>2, <1>3, <1>5
  <2>2. slots \in {None, CrcSlots}
    BY <1>0 DEF MatchTypes
  <2> QED
    BY <1>0, <1>2, <1>3, <1>4, <2>1, <2>2, AssignKeeps
<1>6. /\ mine \in Seq(Entry) /\ Rising(mine) /\ Holds(mine, t)
      /\ \A i \in 1..Len(crc[c]) : i <= Keep => Holds(mine, crc[c][i].key)
      /\ \A i \in 1..Len(mine) : mine[i] = e \/ \E j \in 1..Len(crc[c]) : mine[i] = crc[c][j]
      /\ \A i \in 1..Len(mine) : \/ mine[i].key = t
                                 \/ i \in 1..Len(crc[c]) /\ mine[i].key = crc[c][i].key
  <2> HIDE DEF mine
  <2> QED
    BY <1>60 DEF Assigned, e
<1>7. /\ lap' = [lap EXCEPT ![c] = t \div WireTicks]
      /\ last' = [last EXCEPT ![c] = t % WireTicks]
      /\ newest' = [newest EXCEPT ![c] = t]
      /\ said' = [said EXCEPT ![c] = @ \/ t = split]
      /\ split' = split /\ slots' = slots
      /\ \/ /\ ~Holds(crc[p], t) /\ bad' = bad
            /\ crc' = [crc EXCEPT ![c] = Youngest(mine)]
         \/ /\ Holds(crc[p], t) /\ bad' = (bad \/ Sum(crc[p], t) # Sample(c, t))
            /\ crc' = [crc EXCEPT ![c] = mine, ![p] = Without(@, t)]
  BY ReportIs
<1>8. e.key = t /\ e.sum = Sample(c, t)
  OBVIOUS
<1> HIDE DEF p, e, mine
<1>9. /\ newest'[c] = t /\ newest'[p] = newest[p] /\ said'[p] = said[p]
      /\ said'[c] = (said[c] \/ t = split)
  BY <1>0, <1>1, <1>7 DEF MatchTypes
\* Which entries there are now.
<1>10. /\ crc' \in [Conn -> Seq(Entry)]
       /\ ours \in Seq(Entry) /\ Rising(ours)
       /\ \A i \in 1..Len(ours) : \E j \in 1..Len(mine) : ours[i] = mine[j]
       /\ said'[c] /\ newest[p] < split => Holds(ours, split)
       /\ theirs \in Seq(Entry) /\ Rising(theirs)
       /\ \A i \in 1..Len(theirs) : \E j \in 1..Len(crc[p]) : theirs[i] = crc[p][j]
       /\ \A k : Holds(crc[p], k) /\ k # t => Holds(theirs, k)
       /\ \A i \in 1..Len(ours) : i > Keep => ours[i].key <= newest[p]
       /\ \A i \in 1..Len(theirs) : i > Keep => theirs[i].key <= newest[c]
  <2>00. /\ \A i \in 1..Len(crc[c]) : i > Keep => crc[c][i].key <= newest[p]
         /\ \A i \in 1..Len(crc[p]) : i > Keep => crc[p][i].key <= newest[c]
    BY <1>0, <1>1 DEF Passed, p
  <2>0. ASSUME said'[c], newest[p] < split PROVE Holds(mine, split)
    <3>1. CASE t = split
      BY <1>6, <3>1
    <3>2. CASE t # split
      <4>1. Holds(crc[c], split)
        BY <1>0, <1>9, <2>0, <3>2 DEF Dispute, p
      <4>2. PICK i \in 1..Len(crc[c]) : crc[c][i].key = split
        BY <1>3, <4>1, HoldsIs
      <4>3. i <= Keep
        BY <1>2, <1>3, <2>00, <2>0, <4>2
      <4> QED
        BY <1>6, <4>2, <4>3
    <3> QED
      BY <3>1, <3>2
  <2>1. CASE ~Holds(crc[p], t)
    <3>1. crc' = [crc EXCEPT ![c] = Youngest(mine)] /\ ours = Youngest(mine) /\ theirs = crc[p]
      BY <1>1, <1>3, <1>7, <2>1
    <3>2. /\ ours \in Seq(Entry) /\ Rising(ours)
          /\ \A i \in 1..Len(ours) : \E j \in 1..Len(mine) : ours[i] = mine[j]
          /\ Len(ours) <= Keep
          /\ \A i \in 1..Len(mine) :
               mine[Len(mine)].key - mine[i].key < Keep => Holds(ours, mine[i].key)
      <4> HIDE DEF ours, theirs
      <4> QED
        BY <1>6, <3>1, YoungestKeeps
    <3>3. \A i \in 1..Len(mine) : mine[i].key \in Nat /\ mine[i].key <= t
      <4>1. \A j \in 1..Len(crc[c]) : crc[c][j].key \in Nat /\ crc[c][j].key <= t
        BY <1>2, <1>3, <1>5
      <4>2. \A i \in 1..Len(mine) : \/ mine[i].key = t
                                    \/ i \in 1..Len(crc[c]) /\ mine[i].key = crc[c][i].key
        BY <1>6
      <4>3. t \in Nat /\ t <= t
        BY <1>2
      <4> QED
        BY <4>1, <4>2, <4>3, ZenonT(40)
    <3>4. ASSUME said'[c], newest[p] < split
          PROVE  Holds(ours, split)
      <4>1. PICK i \in 1..Len(mine) : mine[i].key = split
        BY <1>6, <2>0, <3>4, HoldsIs
      <4>2. Len(mine) \in 1..Len(mine)
        BY <1>6, <4>1, LenProperties
      <4>3. mine[Len(mine)].key - mine[i].key < Keep
        <5> PICK k : k = mine[Len(mine)].key
          OBVIOUS
        <5>1. k \in Nat /\ k <= t
          BY <3>3, <4>2, Zenon
        <5>2. k - split < Keep
          BY <1>2, <1>3, <3>4, <5>1
        <5> QED
          BY <4>1, <5>2
      <4> QED
        BY <3>2, <4>1, <4>3
    <3> HIDE DEF ours, theirs
    <3>5. crc' \in [Conn -> Seq(Entry)]
      BY <1>3, <3>1, <3>2
    <3>6. \A i \in 1..Len(ours) : ~(i > Keep)
      BY <1>2, <3>2, LenProperties
    <3> QED
      BY <1>0, <1>1, <1>3, <2>00, <3>1, <3>2, <3>4, <3>5, <3>6
  <2>2. CASE Holds(crc[p], t)
    <3>1. crc' = [crc EXCEPT ![c] = mine, ![p] = Without(@, t)]
      BY <1>7, <2>2
    <3>2. ours = mine /\ theirs = Without(crc[p], t)
      BY <1>1, <1>3, <3>1
    <3>3. /\ theirs \in Seq(Entry) /\ Rising(theirs)
          /\ \A i \in 1..Len(theirs) : \E j \in 1..Len(crc[p]) : i <= j /\ theirs[i] = crc[p][j]
          /\ \A k : Holds(crc[p], k) /\ k # t => Holds(theirs, k)
      BY <1>0, <1>1, <1>3, <2>2, <3>2, WithoutKeeps
    <3>4. crc' \in [Conn -> Seq(Entry)]
      <4> HIDE DEF ours, theirs
      <4>1. crc' = [[crc EXCEPT ![c] = mine] EXCEPT ![p] = theirs]
        BY <1>1, <1>3, <3>1, <3>2
      <4>2. [crc EXCEPT ![c] = mine] \in [Conn -> Seq(Entry)]
        BY <1>3, <1>6
      <4> QED
        BY <1>1, <3>3, <4>1, <4>2
    <3>5. t <= newest[p]
      <4>1. PICK i \in 1..Len(crc[p]) : crc[p][i].key = t
        BY <1>3, <2>2, HoldsIs
      <4> QED
        BY <1>1, <1>2, <1>3, <1>5, <4>1
    <3>6. \A i \in 1..Len(ours) : i > Keep => ours[i].key <= newest[p]
      BY <1>6, <2>00, <3>2, <3>5
    <3>7. ASSUME NEW i \in 1..Len(theirs), i > Keep PROVE theirs[i].key <= newest[c]
      <4>1. PICK j \in 1..Len(crc[p]) : i <= j /\ theirs[i] = crc[p][j]
        BY <3>3
      <4>2. j > Keep
        BY <1>2, <3>7, <4>1
      <4> QED
        BY <2>00, <4>1, <4>2
    <3> HIDE DEF ours, theirs
    <3> QED
      BY <1>6, <2>0, <3>2, <3>3, <3>4, <3>6, <3>7
  <2> QED
    BY <2>1, <2>2
<1> HIDE DEF ours, theirs
<1>11. \A i \in 1..Len(ours) : \/ ours[i] = e
                               \/ \E j \in 1..Len(crc[c]) : ours[i] = crc[c][j]
  <2>1. \A i \in 1..Len(ours) : \E j \in 1..Len(mine) : ours[i] = mine[j]
    BY <1>10
  <2>2. \A j \in 1..Len(mine) : mine[j] = e \/ \E k \in 1..Len(crc[c]) : mine[j] = crc[c][k]
    BY <1>6
  <2> QED
    BY <2>1, <2>2
<1>12. MatchTypes'
  <2>1. t \div WireTicks \in Int /\ t % WireTicks \in Int
    BY <1>2, DivMod
  <2>2. bad' \in BOOLEAN
    BY <1>3, <1>7
  <2>3. lap' \in [Conn -> Int] /\ last' \in [Conn -> Int]
    BY <1>0, <1>7, <2>1 DEF MatchTypes
  <2>4. newest' \in [Conn -> Int] /\ split' \in Nat /\ split' >= Delay
    BY <1>0, <1>2, <1>7 DEF MatchTypes
  <2>5. said' \in [Conn -> BOOLEAN] /\ slots' \in {None, CrcSlots}
    BY <1>0, <1>7 DEF MatchTypes
  <2> QED
    BY <1>10, <2>2, <2>3, <2>4, <2>5 DEF MatchTypes
<1>13. ASSUME NEW d \in Conn
       PROVE  Rising(crc'[d]) /\ Reported(d, crc[d])'
  <2>0. \A i \in 1..Len(crc'[d]) :
          crc'[d][i].key \in Delay..newest'[d] /\ crc'[d][i].sum = Sample(d, crc'[d][i].key)
    <3>1. CASE d = c
      <4>1. \A i \in 1..Len(ours) : ours[i].key \in Delay..t /\ ours[i].sum = Sample(c, ours[i].key)
        <5>1. e.key \in Delay..t /\ e.sum = Sample(c, e.key)
          BY <1>2, <1>8
        <5>2. \A j \in 1..Len(crc[c]) : /\ crc[c][j].key \in Delay..t
                                        /\ crc[c][j].sum = Sample(c, crc[c][j].key)
          BY <1>2, <1>3, <1>5
        <5> QED
          BY <1>11, <5>1, <5>2
      <4> QED
        BY <1>9, <3>1, <4>1 DEF ours
    <3>2. CASE d = p
      <4>1. \A i \in 1..Len(theirs) : theirs[i].key \in Delay..newest[p]
                                    /\ theirs[i].sum = Sample(p, theirs[i].key)
        <5> HIDE DEF theirs
        <5>1. \A i \in 1..Len(theirs) : \E j \in 1..Len(crc[p]) : theirs[i] = crc[p][j]
          BY <1>10
        <5>2. \A j \in 1..Len(crc[p]) : /\ crc[p][j].key \in Delay..newest[p]
                                        /\ crc[p][j].sum = Sample(p, crc[p][j].key)
          BY <1>1, <1>5
        <5> QED
          BY <5>1, <5>2, ZenonT(40)
      <4> QED
        BY <1>9, <3>2, <4>1 DEF theirs
    <3> QED
      BY <1>1, <3>1, <3>2
  <2>1. Reported(d, crc[d])'
    BY <1>7, <2>0 DEF Reported, Sample
  <2> QED
    BY <1>1, <1>10, <2>1 DEF ours, theirs
<1>14. OnLap(c)' /\ OnLap(p)'
  <2>1. lap'[c] = t \div WireTicks /\ last'[c] = t % WireTicks /\ lap'[p] = lap[p] /\ last'[p] = last[p]
    BY <1>0, <1>1, <1>7 DEF MatchTypes
  <2>2. OnLap(c)'
    BY <1>2, <1>3, <1>9, <2>1 DEF OnLap, p
  <2>3. OnLap(p)'
    <3>1. /\ newest[p] >= Delay - 1 /\ newest[p] <= newest[c] + Lead
          /\ IF newest[p] = Delay - 1 THEN last[p] = -1 /\ lap[p] = 0
             ELSE last[p] = newest[p] % WireTicks /\ lap[p] = newest[p] \div WireTicks
      BY <1>0, <1>1 DEF OnLap
    <3>2. newest[p] <= t + Lead
      BY <1>2, <1>3, <3>1
    <3>3. newest'[Mate(p)] = t
      BY <1>1, <1>9
    <3> QED
      BY <1>3, <1>9, <2>1, <3>1, <3>2, <3>3 DEF OnLap
  <2> QED
    BY <2>2, <2>3
<1>15. Dispute(c)'
  <2>1. Dispute(c)
    BY <1>0
  <2>2. Holds(ours, split) => said'[c]
    <3> SUFFICES ASSUME Holds(ours, split) PROVE said'[c]
      OBVIOUS
    <3>1. PICK i \in 1..Len(ours) : ours[i].key = split
      BY <1>10, HoldsIs
    <3>2. CASE ours[i] = e
      BY <1>8, <1>9, <3>1, <3>2
    <3>3. CASE \E j \in 1..Len(crc[c]) : ours[i] = crc[c][j]
      <4>1. Holds(crc[c], split)
        BY <1>3, <3>1, <3>3, HoldsIs
      <4> QED
        BY <1>9, <2>1, <4>1 DEF Dispute
    <3> QED
      BY <1>11, <3>2, <3>3
  <2>3. said'[c] => split <= t
    BY <1>2, <1>3, <1>9, <2>1 DEF Dispute
  <2> QED
    BY <1>7, <1>9, <1>10, <2>2, <2>3 DEF Dispute, p, ours
<1>16. Dispute(p)'
  <2>1. Dispute(p)
    BY <1>0, <1>1
  <2>2. Holds(theirs, split) => said[p]
    <3>1. Holds(theirs, split) => Holds(crc[p], split)
      <4> SUFFICES ASSUME Holds(theirs, split) PROVE Holds(crc[p], split)
        OBVIOUS
      <4>1. PICK i \in 1..Len(theirs) : theirs[i].key = split
        BY <1>10, HoldsIs
      <4>2. PICK j \in 1..Len(crc[p]) : theirs[i] = crc[p][j]
        BY <1>10
      <4> QED
        BY <1>3, <4>1, <4>2, HoldsIs
    <3> QED
      BY <2>1, <3>1 DEF Dispute
  <2>3. said[p] /\ t < split => Holds(theirs, split)
    BY <1>1, <1>2, <1>3, <1>10, <2>1 DEF Dispute
  <2> QED
    BY <1>1, <1>7, <1>9, <2>1, <2>2, <2>3 DEF Dispute, theirs
<1>18. Passed(c)' /\ Passed(p)'
  <2>1. /\ \A i \in 1..Len(crc'[c]) : i > Keep => crc'[c][i].key <= newest'[p]
        /\ \A i \in 1..Len(crc'[p]) : i > Keep => crc'[p][i].key <= newest[c]
    BY <1>9, <1>10 DEF ours, theirs
  <2>2. ASSUME NEW i \in 1..Len(crc'[p]), i > Keep PROVE crc'[p][i].key <= newest'[c]
    <3>1. crc'[p][i].key \in Nat
      BY <1>10, EntryAt DEF theirs
    <3> QED
      BY <1>2, <1>3, <1>9, <2>1, <2>2, <3>1
  <2> QED
    BY <1>1, <2>1, <2>2 DEF Passed, p
<1>17. VerdictRight'
  <2>1. bad <=> said[c] /\ said[p]
    BY <1>0, <1>1 DEF VerdictRight
  <2>2. bad' <=> said'[c] /\ said'[p]
    <3>1. CASE ~Holds(crc[p], t)
      <4>1. t = split /\ ~said[c] => ~said[p]
        BY <1>0, <1>1, <1>2, <1>3, <3>1 DEF Dispute
      <4> QED
        BY <1>3, <1>7, <1>9, <2>1, <3>1, <4>1
    <3>2. CASE Holds(crc[p], t)
      <4>1. Sum(crc[p], t) = Sample(p, t)
        BY <1>1, <1>3, <1>5, <3>2, SumIs
      <4>2. t = split => said[p]
        BY <1>0, <1>1, <3>2 DEF Dispute
      <4> QED
        BY <1>3, <1>4, <1>7, <1>9, <2>1, <3>2, <4>1, <4>2
    <3> QED
      BY <3>1, <3>2
  <2> QED
    BY <1>1, <2>2 DEF VerdictRight
<1> QED
  BY <1>1, <1>12, <1>13, <1>14, <1>15, <1>16, <1>17, <1>18 DEF MatchInv

LEMMA MatchNext == MatchInv /\ [Next]_vars => MatchInv'
<1> SUFFICES ASSUME MatchInv, [Next]_vars PROVE MatchInv'
  OBVIOUS
<1>1. CASE Next
  BY <1>1, ReportStep DEF Next
<1>2. CASE UNCHANGED vars
  BY <1>2 DEF vars, logVars, MatchInv, MatchTypes, OnLap, Dispute, Passed, Reported, Sample,
              VerdictRight
<1> QED
  BY <1>1, <1>2

\* The relay says the consoles disagreed when, and only when, both have reported
\* a tick at which they did, and not before: Server.log_crc pairs by lap and
\* tick, so a repeat, a skip, an eviction or a wrap of the byte neither hides a
\* mismatch nor makes one up.
THEOREM VerdictCorrect == Spec => []VerdictRight
<1>1. MatchInv => VerdictRight
  BY DEF MatchInv
<1> QED
  BY <1>1, InitInv, MatchNext, PTL DEF Spec
=============================================================================
