---------------------------- MODULE CRelayProofs ----------------------------
(***************************************************************************)
(* The C relay's indices and tags are never out of date, and it implements *)
(* the Python relay, for any number of slots, connections and names.       *)
(***************************************************************************)
EXTENDS CRelay, FiniteSetTheorems, SequenceTheorems, TLAPS

-----------------------------------------------------------------------------
(* The inductive invariant, in named parts *)

\* The fields of a slot, as far as one may be taken for another's.
Field(r) ==
  /\ r = [in_use |-> r.in_use, dead |-> r.dead, gen |-> r.gen, conn |-> r.conn,
          name |-> r.name, partner |-> r.partner, role |-> r.role, tx |-> r.tx,
          crc |-> r.crc, lap |-> r.lap, last |-> r.last]
  /\ r.in_use \in BOOLEAN /\ r.dead \in BOOLEAN
  /\ r.name \in Names \cup {None} /\ r.partner \in Slot \cup {-1}

Slots ==
  /\ client = [s \in Slot |-> client[s]]
  /\ \A s \in Slot : Field(client[s])

\* A connection has one live slot.
Owners ==
  /\ \A s \in Slot : Live(s) => client[s].conn \in Conn
  /\ \A s, t \in Slot : Live(s) /\ Live(t) /\ client[s].conn = client[t].conn => s = t

Once(s) == \A i, j \in DOMAIN s : s[i] = s[j] => i = j

Has(s, x) == \E i \in DOMAIN s : s[i] = x

\* order[] has each live slot once.
Listed ==
  /\ order \in Seq(Slot)
  /\ Once(order)
  /\ \A s \in Slot : Live(s) <=> Has(order, s)

\* A match is two live slots.
Matches ==
  \A s, p \in Slot : Live(s) /\ client[s].partner = p =>
    p # s /\ Live(p) /\ client[p].partner = s /\ client[s].name # None

\* by_name refers to live slots, by the names they have.
Roster ==
  /\ by_name = [n \in Names |-> by_name[n]]
  /\ \A n \in Names :
       \/ by_name[n] = NoName
       \/ \E s \in Slot : /\ by_name[n] = [slot |-> s, gen |-> client[s].gen]
                         /\ Live(s) /\ client[s].name = n

\* A slot that has been polled is not freed before the next poll, so a tag is
\* good whether its connection is still there or not.
Polled ==
  \A t \in tags : t = LISTEN \/ /\ t.slot \in Slot /\ client[t.slot].in_use
                                /\ client[t.slot].gen = t.gen
                                /\ client[t.slot].conn = t.conn

CRelayInv ==
  /\ Slots /\ Owners /\ Listed /\ Matches /\ Roster /\ Polled /\ walk \in Seq(Slot)

-----------------------------------------------------------------------------
LEMMA SlotFacts == -1 \notin Slot /\ \A s \in Slot : s \in Int
BY CRelayAssumption DEF Slot

LEMMA InitInv == Init => CRelayInv
<1> SUFFICES ASSUME Init PROVE CRelayInv
  OBVIOUS
<1>1. /\ client = [s \in Slot |-> Blank] /\ order = <<>> /\ walk = <<>> /\ tags = {LISTEN}
      /\ by_name = [n \in Names |-> NoName]
  BY DEF Init
<1>2. \A s \in Slot : client[s] = Blank
  BY <1>1
<1>3. Slots
  BY <1>1, <1>2 DEF Slots, Field, Blank
<1>4. \A s \in Slot : ~Live(s)
  BY <1>2 DEF Live, Blank
<1>5. Owners /\ Matches
  BY <1>4 DEF Owners, Matches
<1>6. Listed
  BY <1>1, <1>4 DEF Listed, Once, Has
<1>7. Roster /\ Polled
  BY <1>1 DEF Roster, Polled
<1>8. walk \in Seq(Slot)
  BY <1>1
<1> QED
  BY <1>3, <1>5, <1>6, <1>7, <1>8 DEF CRelayInv


-----------------------------------------------------------------------------
(* Frames, which refer to no slot *)

\* What a slot is referred to by, and what it refers to.
SameSlot(s) ==
  /\ client'[s].in_use = client[s].in_use /\ client'[s].dead = client[s].dead
  /\ client'[s].gen = client[s].gen /\ client'[s].conn = client[s].conn
  /\ client'[s].name = client[s].name /\ client'[s].partner = client[s].partner

LEMMA QuietStep ==
  ASSUME CRelayInv, Slots', \A s \in Slot : SameSlot(s),
         UNCHANGED <<order, by_name>>, tags' \subseteq tags, walk' \in Seq(Slot)
  PROVE  CRelayInv'
<1>1. \A s \in Slot : Live(s)' = Live(s)
  BY DEF Live, SameSlot
<1>2. Owners'
  BY <1>1 DEF CRelayInv, Owners, SameSlot
<1>3. Listed'
  BY <1>1 DEF CRelayInv, Listed
<1>4. Matches'
  BY <1>1 DEF CRelayInv, Matches, SameSlot
<1>5. Roster'
  BY <1>1 DEF CRelayInv, Roster, SameSlot
<1>6. Polled'
  BY DEF CRelayInv, Polled, SameSlot
<1> QED
  BY <1>2, <1>3, <1>4, <1>5, <1>6 DEF CRelayInv

\* One slot changed, in fields that refer to none.
LEMMA OneSlot ==
  ASSUME Slots, NEW s \in Slot, NEW r,
         client' = [client EXCEPT ![s] = r], Field(r),
         /\ r.in_use = client[s].in_use /\ r.dead = client[s].dead
         /\ r.gen = client[s].gen /\ r.conn = client[s].conn
         /\ r.name = client[s].name /\ r.partner = client[s].partner
  PROVE  Slots' /\ \A t \in Slot : SameSlot(t)
<1>1. \A t \in Slot : client'[t] = IF t = s THEN r ELSE client[t]
  BY DEF Slots
<1>2. client' = [t \in Slot |-> client'[t]]
  BY DEF Slots
<1> QED
  BY <1>1, <1>2 DEF Slots, SameSlot

LEMMA TxField ==
  ASSUME NEW r, Field(r), NEW q
  PROVE  LET n == [r EXCEPT !.tx = q]
         IN  /\ Field(n) /\ n.tx = q
             /\ n.in_use = r.in_use /\ n.dead = r.dead /\ n.gen = r.gen /\ n.conn = r.conn
             /\ n.name = r.name /\ n.partner = r.partner /\ n.role = r.role
             /\ n.crc = r.crc /\ n.lap = r.lap /\ n.last = r.last
BY DEF Field


-----------------------------------------------------------------------------
(* The list of slots *)

LEMMA CutProperties ==
  ASSUME NEW S, NEW s \in Seq(S), NEW b \in 1..Len(s)
  PROVE  /\ Python!Cut(s, b) \in Seq(S) /\ Len(Python!Cut(s, b)) = Len(s) - 1
         /\ DOMAIN Python!Cut(s, b) = 1..(Len(s) - 1)
         /\ \A j \in 1..(Len(s) - 1) :
              Python!Cut(s, b)[j] = IF j < b THEN s[j] ELSE s[j + 1]
<1> DEFINE n == Len(s)
           front == SubSeq(s, 1, b - 1)
           back == SubSeq(s, b + 1, n)
           cut == front \o back
<1>1. /\ front \in Seq(S) /\ Len(front) = b - 1
      /\ \A j \in 1..(b - 1) : front[j] = s[j]
  OBVIOUS
<1>2. /\ back \in Seq(S) /\ Len(back) = n - b
      /\ \A j \in 1..(n - b) : back[j] = s[b + j]
  OBVIOUS
<1>3. n \in Nat /\ b \in Int /\ 1 <= b /\ b <= n
  BY LenProperties
<1>4. Python!Cut(s, b) = cut
  BY DEF Python!Cut
<1> HIDE DEF front, back, n
<1>5. /\ cut \in Seq(S) /\ Len(cut) = Len(front) + Len(back)
      /\ \A j \in 1..(Len(front) + Len(back)) :
           cut[j] = IF j <= Len(front) THEN front[j] ELSE back[j - Len(front)]
  BY <1>1, <1>2, ConcatProperties
<1>6. Len(front) + Len(back) = n - 1
  BY <1>1, <1>2, <1>3
<1> HIDE DEF cut
<1>7. ASSUME NEW j \in 1..(n - 1) PROVE cut[j] = IF j < b THEN s[j] ELSE s[j + 1]
  <2>1. CASE j < b
    <3>1. j \in 1..(b - 1) /\ j <= Len(front) /\ j \in 1..(n - 1)
      BY <1>1, <1>3, <2>1
    <3> QED
      BY <1>1, <1>5, <1>6, <2>1, <3>1
  <2>2. CASE ~(j < b)
    <3> PICK m \in Int : m = j - (b - 1)
      BY <1>3
    <3>1. m \in 1..(n - b) /\ b + m = j + 1 /\ ~(j <= Len(front)) /\ j - Len(front) = m
      BY <1>1, <1>3, <2>2
    <3>2. cut[j] = back[m]
      BY <1>5, <1>6, <3>1
    <3>3. back[m] = s[j + 1]
      BY <1>2, <3>1
    <3> QED
      BY <2>2, <3>2, <3>3
  <2> QED
    BY <2>1, <2>2
<1>8. DOMAIN cut = 1..(n - 1)
  BY <1>5, <1>6, LenProperties
<1> QED
  BY <1>4, <1>5, <1>6, <1>7, <1>8 DEF n

\* Cut takes one element out, and no other.
LEMMA CutOnce ==
  ASSUME NEW S, NEW s \in Seq(S), Once(s), NEW b \in 1..Len(s)
  PROVE  /\ Once(Python!Cut(s, b))
         /\ \A x : Has(Python!Cut(s, b), x) <=> (x # s[b] /\ Has(s, x))
<1> DEFINE n == Len(s)
           cut == Python!Cut(s, b)
<1>1. /\ DOMAIN cut = 1..(n - 1)
      /\ \A j \in 1..(n - 1) : cut[j] = IF j < b THEN s[j] ELSE s[j + 1]
  BY CutProperties
<1>2. n \in Nat /\ b \in Int /\ 1 <= b /\ b <= n /\ DOMAIN s = 1..n /\ b \in 1..n
  BY LenProperties
<1>3. \A i, j \in 1..n : s[i] = s[j] => i = j
  BY <1>2 DEF Once
<1> HIDE DEF n, cut
<1>4. \A j \in 1..(n - 1) : j \in Int /\ j \in 1..n /\ j + 1 \in 1..n
  BY <1>2
<1>5. ASSUME NEW i \in 1..(n - 1), NEW j \in 1..(n - 1), cut[i] = cut[j] PROVE i = j
  <2>1. CASE i < b /\ j < b
    BY <1>1, <1>3, <1>4, <1>5, <2>1
  <2>2. CASE i < b /\ ~(j < b)
    <3>1. i = j + 1
      BY <1>1, <1>3, <1>4, <1>5, <2>2
    <3> QED
      BY <1>2, <1>4, <2>2, <3>1
  <2>3. CASE ~(i < b) /\ j < b
    <3>1. i + 1 = j
      BY <1>1, <1>3, <1>4, <1>5, <2>3
    <3> QED
      BY <1>2, <1>4, <2>3, <3>1
  <2>4. CASE ~(i < b) /\ ~(j < b)
    <3>1. i + 1 = j + 1
      BY <1>1, <1>3, <1>4, <1>5, <2>4
    <3> QED
      BY <1>4, <3>1
  <2> QED
    BY <2>1, <2>2, <2>3, <2>4
<1>6. ASSUME NEW x, NEW j \in 1..(n - 1), cut[j] = x
      PROVE  x # s[b] /\ \E i \in 1..n : s[i] = x
  <2>1. CASE j < b
    <3>1. x = s[j] /\ j # b
      BY <1>1, <1>2, <1>4, <1>6, <2>1
    <3> QED
      BY <1>2, <1>3, <1>4, <3>1
  <2>2. CASE ~(j < b)
    <3>1. x = s[j + 1] /\ j + 1 # b
      BY <1>1, <1>2, <1>4, <1>6, <2>2
    <3> QED
      BY <1>2, <1>3, <1>4, <3>1
  <2> QED
    BY <2>1, <2>2
<1>7. ASSUME NEW x, NEW i \in 1..n, s[i] = x, x # s[b]
      PROVE  \E j \in 1..(n - 1) : cut[j] = x
  <2>1. i # b /\ i \in Int
    BY <1>7
  <2>2. CASE i < b
    <3>1. i \in 1..(n - 1)
      BY <1>2, <2>2
    <3> QED
      BY <1>1, <1>7, <2>2, <3>1
  <2>3. CASE i > b
    <3>1. i - 1 \in 1..(n - 1) /\ ~(i - 1 < b) /\ (i - 1) + 1 = i
      BY <1>2, <2>3
    <3>2. cut[i - 1] = x
      BY <1>1, <1>7, <3>1
    <3> QED
      BY <3>1, <3>2
  <2> QED
    BY <1>2, <2>1, <2>2, <2>3
<1> QED
  BY <1>1, <1>2, <1>5, <1>6, <1>7 DEF Once, Has, n, cut

LEMMA PlaceType ==
  ASSUME Listed, NEW s \in Slot, Live(s)
  PROVE  Place(s) \in 1..Len(order) /\ order[Place(s)] = s
<1>1. \E i \in DOMAIN order : order[i] = s
  BY DEF Listed, Has
<1>2. Place(s) \in DOMAIN order /\ order[Place(s)] = s
  BY <1>1 DEF Place
<1> QED
  BY <1>2, LenProperties DEF Listed


-----------------------------------------------------------------------------
(* Leaving and arriving *)

LEMMA PartnerField ==
  ASSUME NEW r, Field(r), NEW v \in Slot \cup {-1}
  PROVE  LET n == [r EXCEPT !.partner = v]
         IN  /\ Field(n) /\ n.partner = v
             /\ n.in_use = r.in_use /\ n.dead = r.dead /\ n.gen = r.gen /\ n.conn = r.conn
             /\ n.name = r.name /\ n.role = r.role /\ n.tx = r.tx
             /\ n.crc = r.crc /\ n.lap = r.lap /\ n.last = r.last
BY DEF Field

LEMMA DropSlots ==
  ASSUME CRelayInv, NEW s \in Slot, Live(s), client' = Dropped(s)
  PROVE  /\ Slots'
         /\ client'[s] = [client[s] EXCEPT !.dead = TRUE]
         /\ \A t \in Slot : t # s =>
              client'[t] = IF t = client[s].partner
                           THEN [client[t] EXCEPT !.partner = -1, !.tx = Append(@, Python!LEFT)]
                           ELSE client[t]
         /\ \A t \in Slot :
              /\ Field(client'[t])
              /\ client'[t].in_use = client[t].in_use /\ client'[t].gen = client[t].gen
              /\ client'[t].conn = client[t].conn /\ client'[t].name = client[t].name
              /\ t # s => /\ client'[t].dead = client[t].dead
                          /\ client'[t].partner =
                               IF t = client[s].partner THEN -1 ELSE client[t].partner
         /\ \A t \in Slot : Live(t)' <=> (Live(t) /\ t # s)
<1>1. client'[s] = [client[s] EXCEPT !.dead = TRUE]
  BY DEF Dropped, Retired
<1>2. \A t \in Slot : t # s =>
        client'[t] = IF t = client[s].partner
                     THEN [client[t] EXCEPT !.partner = -1, !.tx = Append(@, Python!LEFT)]
                     ELSE client[t]
  BY DEF Dropped
<1>3. client' = [t \in Slot |-> client'[t]]
  BY DEF Dropped
<1>4. \A t \in Slot : Field(client[t])
  BY DEF CRelayInv, Slots
<1>5. /\ Field(client'[s]) /\ client'[s].in_use = client[s].in_use
      /\ client'[s].gen = client[s].gen /\ client'[s].conn = client[s].conn
      /\ client'[s].name = client[s].name /\ client'[s].dead
  BY <1>1, <1>4 DEF Field
<1>6. ASSUME NEW t \in Slot, t # s
      PROVE  /\ Field(client'[t])
             /\ client'[t].in_use = client[t].in_use /\ client'[t].gen = client[t].gen
             /\ client'[t].conn = client[t].conn /\ client'[t].name = client[t].name
             /\ client'[t].dead = client[t].dead
             /\ client'[t].partner =
                  IF t = client[s].partner THEN -1 ELSE client[t].partner
  <2>1. CASE t = client[s].partner
    <3> DEFINE m == [client[t] EXCEPT !.partner = -1]
               n == [m EXCEPT !.tx = Append(client[t].tx, Python!LEFT)]
    <3>1. client'[t] = n
      BY <1>2, <1>6, <2>1, Zenon
    <3>2. /\ Field(m) /\ m.partner = -1
          /\ m.in_use = client[t].in_use /\ m.dead = client[t].dead
          /\ m.gen = client[t].gen /\ m.conn = client[t].conn /\ m.name = client[t].name
      BY <1>4, PartnerField
    <3> HIDE DEF m
    <3>3. /\ Field(n) /\ n.partner = m.partner
          /\ n.in_use = m.in_use /\ n.dead = m.dead
          /\ n.gen = m.gen /\ n.conn = m.conn /\ n.name = m.name
      BY <3>2, TxField
    <3> HIDE DEF n
    <3> QED
      BY <2>1, <3>1, <3>2, <3>3
  <2>2. CASE t # client[s].partner
    BY <1>2, <1>4, <1>6, <2>2
  <2> QED
    BY <2>1, <2>2
<1>7. \A t \in Slot : Live(t)' <=> (Live(t) /\ t # s)
  BY <1>5, <1>6 DEF Live
<1> QED
  BY <1>1, <1>2, <1>3, <1>5, <1>6, <1>7 DEF Slots

LEMMA DropStep ==
  ASSUME CRelayInv, NEW s \in Slot, Live(s), Drop(s), tags' \subseteq tags, walk' \in Seq(Slot)
  PROVE  CRelayInv'
<1> DEFINE p == client[s].partner
<1>1. /\ client' = Dropped(s) /\ by_name' = NameDeleted(s)
      /\ order' = Python!Cut(order, Place(s))
  BY DEF Drop
<1>2. /\ Slots'
      /\ \A t \in Slot :
           /\ client'[t].in_use = client[t].in_use /\ client'[t].gen = client[t].gen
           /\ client'[t].conn = client[t].conn /\ client'[t].name = client[t].name
           /\ t # s => client'[t].partner = IF t = p THEN -1 ELSE client[t].partner
      /\ \A t \in Slot : Live(t)' <=> (Live(t) /\ t # s)
  BY <1>1, DropSlots
<1>3. Owners'
  BY <1>2 DEF CRelayInv, Owners
<1>4. Listed'
  <2>1. Listed /\ order \in Seq(Slot) /\ Once(order)
    BY DEF CRelayInv, Listed
  <2>2. Place(s) \in 1..Len(order) /\ order[Place(s)] = s
    BY <2>1, PlaceType
  <2>3. order' \in Seq(Slot)
    BY <1>1, <2>1, <2>2, CutProperties
  <2>4. Once(order') /\ \A x : Has(order', x) <=> (x # s /\ Has(order, x))
    BY <1>1, <2>1, <2>2, CutOnce
  <2>5. \A t \in Slot : Live(t)' <=> Has(order', t)
    BY <1>2, <2>1, <2>4 DEF Listed
  <2> QED
    BY <2>3, <2>4, <2>5 DEF Listed
<1>5. Matches'
  <2> SUFFICES ASSUME NEW t \in Slot, NEW q \in Slot, Live(t)', client'[t].partner = q
               PROVE  q # t /\ Live(q)' /\ client'[q].partner = t /\ client'[t].name # None
    BY DEF Matches
  <2>1. Live(t) /\ t # s /\ t # p /\ client[t].partner = q
    BY <1>2, SlotFacts
  <2>2. q # t /\ Live(q) /\ client[q].partner = t /\ client[t].name # None
    BY <2>1 DEF CRelayInv, Matches
  <2>3. q # s
    BY <2>1, <2>2
  <2>4. q # p
    <3> SUFFICES ASSUME q = p PROVE FALSE
      OBVIOUS
    <3>1. client[q].partner = s
      BY DEF CRelayInv, Matches
    <3> QED
      BY <2>1, <2>2, <3>1
  <2> QED
    BY <1>2, <2>2, <2>3, <2>4
<1>6. Roster'
  <2>1. by_name' = [n \in Names |-> by_name'[n]]
    BY <1>1 DEF NameDeleted
  <2>2. \A n \in Names : by_name'[n] =
          IF n = client[s].name /\ by_name[n] = [slot |-> s, gen |-> client[s].gen]
          THEN NoName ELSE by_name[n]
    BY <1>1 DEF NameDeleted
  <2> SUFFICES ASSUME NEW n \in Names, by_name'[n] # NoName
               PROVE  \E t \in Slot : /\ by_name'[n] = [slot |-> t, gen |-> client'[t].gen]
                                      /\ Live(t)' /\ client'[t].name = n
    BY <2>1 DEF Roster
  <2>3. by_name'[n] = by_name[n]
    BY <2>2
  <2>4. PICK t \in Slot : /\ by_name[n] = [slot |-> t, gen |-> client[t].gen]
                          /\ Live(t) /\ client[t].name = n
    BY <2>3 DEF CRelayInv, Roster
  <2>5. t # s
    BY <2>2, <2>4
  <2> QED
    BY <1>2, <2>3, <2>4, <2>5
<1>7. Polled'
  BY <1>2 DEF CRelayInv, Polled
<1> QED
  BY <1>2, <1>3, <1>4, <1>5, <1>6, <1>7 DEF CRelayInv

LEMMA SlotOfLive ==
  ASSUME Owners, NEW s \in Slot, Live(s)
  PROVE  SlotOf(client[s].conn) = s
BY DEF SlotOf, Owners

LEMMA SlotOfNone ==
  ASSUME NEW c
  PROVE  /\ SlotOf(c) = -1 => \A s \in Slot : Live(s) => client[s].conn # c
         /\ SlotOf(c) # -1 => /\ SlotOf(c) \in Slot /\ Live(SlotOf(c))
                              /\ client[SlotOf(c)].conn = c
<1> DEFINE mine == {s \in Slot : Live(s) /\ client[s].conn = c}
<1>1. SlotOf(c) = IF mine = {} THEN -1 ELSE CHOOSE s \in mine : TRUE
  BY DEF SlotOf
<1>2. CASE mine = {}
  BY <1>1, <1>2
<1>3. CASE mine # {}
  <2>1. SlotOf(c) \in mine
    BY <1>1, <1>3
  <2> QED
    BY <2>1, SlotFacts
<1> QED
  BY <1>2, <1>3


-----------------------------------------------------------------------------
(* Fields of a slot that refer to none *)

LEMMA RoleField ==
  ASSUME NEW r, Field(r), NEW v
  PROVE  LET n == [r EXCEPT !.role = v]
         IN  /\ Field(n) /\ n.role = v
             /\ n.in_use = r.in_use /\ n.dead = r.dead /\ n.gen = r.gen /\ n.conn = r.conn
             /\ n.name = r.name /\ n.partner = r.partner /\ n.tx = r.tx
             /\ n.crc = r.crc /\ n.lap = r.lap /\ n.last = r.last
BY DEF Field

LEMMA CrcField ==
  ASSUME NEW r, Field(r), NEW v
  PROVE  LET n == [r EXCEPT !.crc = v]
         IN  /\ Field(n) /\ n.crc = v
             /\ n.in_use = r.in_use /\ n.dead = r.dead /\ n.gen = r.gen /\ n.conn = r.conn
             /\ n.name = r.name /\ n.partner = r.partner /\ n.role = r.role
             /\ n.tx = r.tx /\ n.lap = r.lap /\ n.last = r.last
BY DEF Field

LEMMA LapField ==
  ASSUME NEW r, Field(r), NEW v
  PROVE  LET n == [r EXCEPT !.lap = v]
         IN  /\ Field(n) /\ n.lap = v
             /\ n.in_use = r.in_use /\ n.dead = r.dead /\ n.gen = r.gen /\ n.conn = r.conn
             /\ n.name = r.name /\ n.partner = r.partner /\ n.role = r.role
             /\ n.tx = r.tx /\ n.crc = r.crc /\ n.last = r.last
BY DEF Field

LEMMA LastField ==
  ASSUME NEW r, Field(r), NEW v
  PROVE  LET n == [r EXCEPT !.last = v]
         IN  /\ Field(n) /\ n.last = v
             /\ n.in_use = r.in_use /\ n.dead = r.dead /\ n.gen = r.gen /\ n.conn = r.conn
             /\ n.name = r.name /\ n.partner = r.partner /\ n.role = r.role
             /\ n.tx = r.tx /\ n.crc = r.crc /\ n.lap = r.lap
BY DEF Field

\* A slot that is allocated.
LEMMA AllocatedField ==
  ASSUME NEW s \in Slot, NEW c
  PROVE  LET n == Allocated(s, c)
         IN  /\ Field(n) /\ n.in_use /\ ~n.dead /\ n.gen = client[s].gen /\ n.conn = c
             /\ n.name = None /\ n.partner = -1 /\ n.role = None
             /\ n.tx = <<>> /\ n.crc = <<>> /\ n.lap = 0 /\ n.last = -1
<1> DEFINE n == Allocated(s, c)
<1>1. n = [in_use |-> TRUE, dead |-> FALSE, gen |-> client[s].gen, conn |-> c, name |-> None,
           partner |-> -1, role |-> None, tx |-> <<>>, crc |-> <<>>, lap |-> 0, last |-> -1]
  BY DEF Allocated
<1> HIDE DEF n
<1>2. /\ n.in_use = TRUE /\ n.dead = FALSE /\ n.gen = client[s].gen /\ n.conn = c
      /\ n.name = None /\ n.partner = -1 /\ n.role = None
      /\ n.tx = <<>> /\ n.crc = <<>> /\ n.lap = 0 /\ n.last = -1
  BY <1>1
<1> QED
  BY <1>1, <1>2 DEF Field, n

\* A slot that is paired.
LEMMA MatchedField ==
  ASSUME NEW r, Field(r), NEW o \in Slot, NEW side
  PROVE  LET n == Matched(r, o, side)
         IN  /\ Field(n) /\ n.partner = o /\ n.role = side /\ n.crc = <<>>
             /\ n.tx = Append(r.tx, Python!START(client[o].conn))
             /\ n.in_use = r.in_use /\ n.dead = r.dead /\ n.gen = r.gen /\ n.conn = r.conn
             /\ n.name = r.name /\ n.lap = r.lap /\ n.last = r.last
<1> DEFINE a == [r EXCEPT !.partner = o]
           b == [a EXCEPT !.role = side]
           d == [b EXCEPT !.crc = <<>>]
           n == [d EXCEPT !.tx = Append(r.tx, Python!START(client[o].conn))]
<1>1. Matched(r, o, side) = n
  BY Zenon DEF Matched
<1>2. /\ Field(a) /\ a.partner = o
      /\ a.in_use = r.in_use /\ a.dead = r.dead /\ a.gen = r.gen /\ a.conn = r.conn
      /\ a.name = r.name /\ a.lap = r.lap /\ a.last = r.last
  BY PartnerField
<1> HIDE DEF a
<1>3. /\ Field(b) /\ b.role = side /\ b.partner = a.partner
      /\ b.in_use = a.in_use /\ b.dead = a.dead /\ b.gen = a.gen /\ b.conn = a.conn
      /\ b.name = a.name /\ b.lap = a.lap /\ b.last = a.last
  BY <1>2, RoleField
<1> HIDE DEF b
<1>4. /\ Field(d) /\ d.crc = <<>> /\ d.role = b.role /\ d.partner = b.partner
      /\ d.in_use = b.in_use /\ d.dead = b.dead /\ d.gen = b.gen /\ d.conn = b.conn
      /\ d.name = b.name /\ d.lap = b.lap /\ d.last = b.last
  BY <1>3, CrcField
<1> HIDE DEF d
<1>5. /\ Field(n) /\ n.tx = Append(r.tx, Python!START(client[o].conn))
      /\ n.crc = d.crc /\ n.role = d.role /\ n.partner = d.partner
      /\ n.in_use = d.in_use /\ n.dead = d.dead /\ n.gen = d.gen /\ n.conn = d.conn
      /\ n.name = d.name /\ n.lap = d.lap /\ n.last = d.last
  BY <1>4, TxField, SMTT(30)
<1> HIDE DEF n
<1> QED
  BY <1>1, <1>2, <1>3, <1>4, <1>5

-----------------------------------------------------------------------------
(* Arriving, and the poll *)

LEMMA Smallest ==
  ASSUME NEW T \in SUBSET Nat, T # {}
  PROVE  \E x \in T : \A y \in T : x <= y
<1> DEFINE R == OpToRel(<, Nat)
<1>1. IsWellFoundedOn(R, Nat)
  BY NatLessThanWellFounded
<1>2. \A x, y \in Nat : y < x => <<y, x>> \in R
  BY DEF OpToRel
<1> HIDE DEF R
<1>3. PICK x \in T : \A y \in T : ~(<<y, x>> \in R)
  BY <1>1, WFMin
<1>4. \A y \in T : ~(y < x)
  BY <1>2, <1>3
<1>5. x \in Nat /\ \A y \in T : y \in Nat
  BY <1>3
<1> QED
  BY <1>3, <1>4, <1>5
LEMMA AcceptSlot ==
  ASSUME CRelayInv, NEW c \in Conn, Accept(c)
  PROVE  \E s \in Slot :
           /\ ~client[s].in_use
           /\ client' = [client EXCEPT ![s] = Allocated(s, c)]
           /\ order' = Append(order, s)
           /\ \A t \in Slot : Live(t) => client[t].conn # c
<1> DEFINE free == {s \in Slot : ~client[s].in_use}
           s == CHOOSE i \in free : \A j \in free : i <= j
<1>1. free # {}
  BY DEF Accept
<1>2. s \in free
  <2>1. free \subseteq Nat
    BY CRelayAssumption DEF Slot
  <2>2. \E i \in free : \A j \in free : i <= j
    BY <1>1, <2>1, Smallest
  <2> QED
    BY <2>2
<1>3. \A t \in Slot : Live(t) => client[t].conn # c
  BY SlotOfNone DEF Accept
<1>4. client' = [client EXCEPT ![s] = Allocated(s, c)] /\ order' = Append(order, s)
  BY DEF Accept
<1> QED
  BY <1>2, <1>3, <1>4

LEMMA AcceptStep ==
  ASSUME CRelayInv, NEW c \in Conn, Accept(c)
  PROVE  CRelayInv'
<1> PICK s \in Slot : /\ ~client[s].in_use
                      /\ client' = [client EXCEPT ![s] = Allocated(s, c)]
                      /\ order' = Append(order, s)
                      /\ \A t \in Slot : Live(t) => client[t].conn # c
  BY AcceptSlot
<1>1. UNCHANGED <<by_name, walk>> /\ tags' \subseteq tags
  BY DEF Accept
<1>2. /\ \A t \in Slot : t # s => client'[t] = client[t]
      /\ client'[s] = Allocated(s, c)
      /\ client' = [t \in Slot |-> client'[t]]
  BY DEF CRelayInv, Slots
<1>3. /\ Field(client'[s]) /\ client'[s].in_use /\ ~client'[s].dead
      /\ client'[s].conn = c /\ client'[s].partner = -1
  BY <1>2, AllocatedField
<1>4. Slots'
  BY <1>2, <1>3 DEF CRelayInv, Slots
<1>5. ~Live(s) /\ \A t \in Slot : Live(t)' <=> (Live(t) \/ t = s)
  BY <1>2, <1>3 DEF Live
<1>6. Owners'
  <2>1. \A t \in Slot : Live(t) => client'[t].conn = client[t].conn /\ client[t].conn # c
    BY <1>2, <1>5
  <2> QED
    BY <1>3, <1>5, <2>1 DEF CRelayInv, Owners
<1>7. Listed'
  <2>1. Listed /\ order \in Seq(Slot) /\ Len(order) \in Nat /\ DOMAIN order = 1..Len(order)
    BY LenProperties DEF CRelayInv, Listed
  <2>2. /\ order' \in Seq(Slot) /\ Len(order') = Len(order) + 1
        /\ order'[Len(order) + 1] = s /\ \A i \in 1..Len(order) : order'[i] = order[i]
    BY <2>1, AppendProperties
  <2>3. DOMAIN order' = 1..(Len(order) + 1)
    BY <2>2, LenProperties
  <2>4. \A i \in 1..(Len(order) + 1) : i = Len(order) + 1 \/ i \in 1..Len(order)
    BY <2>1
  <2>5. \A i \in 1..Len(order) : order[i] # s
    BY <1>5, <2>1 DEF Listed, Has
  <2>6. Once(order')
    BY <2>1, <2>2, <2>3, <2>4, <2>5 DEF Listed, Once
  <2>7. Len(order) + 1 \in 1..(Len(order) + 1)
        /\ \A i \in 1..Len(order) : i \in 1..(Len(order) + 1)
    BY <2>1
  <2>8. \A x : Has(order', x) <=> (Has(order, x) \/ x = s)
    BY <2>1, <2>2, <2>3, <2>4, <2>7 DEF Has
  <2> QED
    BY <1>5, <2>1, <2>2, <2>6, <2>8 DEF Listed
<1>8. Matches'
  BY <1>2, <1>3, <1>5, SlotFacts DEF CRelayInv, Matches
<1>9. Roster'
  BY <1>1, <1>2, <1>5 DEF CRelayInv, Roster
<1>10. Polled'
  BY <1>1, <1>2 DEF CRelayInv, Polled
<1> QED
  BY <1>1, <1>4, <1>6, <1>7, <1>8, <1>9, <1>10 DEF CRelayInv

LEMMA InUseField ==
  ASSUME NEW r, Field(r), NEW v \in BOOLEAN
  PROVE  Field([r EXCEPT !.in_use = v]) /\ [r EXCEPT !.in_use = v].in_use = v
<1> DEFINE n == [r EXCEPT !.in_use = v]
<1>1. n = [in_use |-> v, dead |-> r.dead, gen |-> r.gen, conn |-> r.conn,
           name |-> r.name, partner |-> r.partner, role |-> r.role, tx |-> r.tx,
           crc |-> r.crc, lap |-> r.lap, last |-> r.last]
  BY DEF Field
<1> HIDE DEF n
<1>2. n.in_use = v /\ n.dead = r.dead /\ n.name = r.name /\ n.partner = r.partner
  BY <1>1
<1>3. Field(n)
  BY <1>1, <1>2 DEF Field
<1> QED
  BY <1>2, <1>3 DEF n

\* The slots of the dropped are freed.
LEMMA PollStep ==
  ASSUME CRelayInv, Poll
  PROVE  /\ CRelayInv'
         /\ \A s \in Slot :
              /\ Live(s) => client'[s] = client[s]
              /\ Live(s)' <=> Live(s)
              /\ client'[s].conn = client[s].conn
<1>1. /\ client' = Reaped /\ walk' = <<>> /\ UNCHANGED <<order, by_name>>
      /\ tags' = {LISTEN} \cup {Tag(s) : s \in {t \in Slot : Live(t)}}
  BY DEF Poll
<1>2. client' = [s \in Slot |-> client'[s]]
  BY <1>1 DEF Reaped
<1>3. ASSUME NEW s \in Slot
      PROVE  /\ Live(s) => client'[s] = client[s]
             /\ Live(s)' <=> Live(s)
             /\ client'[s].conn = client[s].conn
             /\ Field(client'[s])
  <2>1. Field(client[s])
    BY DEF CRelayInv, Slots
  <2>2. CASE client[s].in_use /\ client[s].dead
    <3> DEFINE a == [client[s] EXCEPT !.in_use = FALSE]
               g == (client[s].gen + 1) % Gens
               n == [a EXCEPT !.gen = g]
    <3> HIDE DEF g
    <3>1. client'[s] = n
      BY <1>1, <2>2, Zenon DEF Reaped, g
    <3>2. Field(a) /\ ~a.in_use /\ a.conn = client[s].conn
      <4> PICK no \in BOOLEAN : no = FALSE
        OBVIOUS
      <4>1. a = [client[s] EXCEPT !.in_use = no]
        BY Zenon
      <4> HIDE DEF a
      <4> QED
        BY <2>1, <4>1, InUseField
    <3> HIDE DEF a
    <3>3. Field(n) /\ ~n.in_use /\ n.conn = a.conn
      BY <3>2 DEF Field
    <3> HIDE DEF n
    <3> QED
      BY <2>2, <3>1, <3>2, <3>3 DEF Live
  <2>3. CASE ~(client[s].in_use /\ client[s].dead)
    <3>1. client'[s] = client[s]
      BY <1>1, <2>3 DEF Reaped
    <3> QED
      BY <2>1, <3>1 DEF Live
  <2> QED
    BY <2>2, <2>3
<1>4. Slots'
  BY <1>2, <1>3 DEF Slots
<1>5. Owners' /\ Listed' /\ Matches'
  BY <1>1, <1>3 DEF CRelayInv, Owners, Listed, Matches
<1>6. Roster'
  BY <1>1, <1>3 DEF CRelayInv, Roster
<1>7. Polled'
  BY <1>1, <1>3 DEF Polled, Tag, Live
<1>8. walk' \in Seq(Slot)
  BY <1>1
<1> QED
  BY <1>3, <1>4, <1>5, <1>6, <1>7, <1>8 DEF CRelayInv


-----------------------------------------------------------------------------
(* Pairing *)

\* cl is client with at most the name of s changed.
Renamed(s, cl) ==
  /\ cl = [t \in Slot |-> cl[t]]
  /\ \A t \in Slot :
       /\ Field(cl[t])
       /\ cl[t].in_use = client[t].in_use /\ cl[t].dead = client[t].dead
       /\ cl[t].gen = client[t].gen /\ cl[t].conn = client[t].conn
       /\ cl[t].partner = client[t].partner /\ cl[t].role = client[t].role
       /\ cl[t].tx = client[t].tx /\ cl[t].crc = client[t].crc
       /\ cl[t].lap = client[t].lap /\ cl[t].last = client[t].last
       /\ t # s => cl[t] = client[t]
       /\ client[t].name # None => cl[t].name = client[t].name

\* Whom s is paired with: nobody, or an idle connection that no other precedes.
LEMMA OldestFacts ==
  ASSUME Listed, NEW s \in Slot, NEW cl
  PROVE  \/ /\ Oldest(s, cl) = -1
            /\ \A i \in DOMAIN order :
                 ~(order[i] # s /\ cl[order[i]].name # None /\ cl[order[i]].partner = -1)
         \/ \E i \in DOMAIN order :
              /\ order[i] \in Slot /\ Live(order[i]) /\ Oldest(s, cl) = order[i]
              /\ order[i] # s /\ cl[order[i]].name # None /\ cl[order[i]].partner = -1
              /\ \A j \in DOMAIN order :
                   order[j] # s /\ cl[order[j]].name # None /\ cl[order[j]].partner = -1
                   => i <= j
<1> DEFINE w == Waiting(s, cl)
           i == CHOOSE i \in w : \A j \in w : i <= j
<1>1. /\ w \subseteq DOMAIN order
      /\ \A j \in DOMAIN order :
           j \in w <=> order[j] # s /\ cl[order[j]].name # None /\ cl[order[j]].partner = -1
  BY DEF Waiting
<1>2. Oldest(s, cl) = IF w = {} THEN -1 ELSE order[i]
  BY DEF Oldest
<1>3. DOMAIN order = 1..Len(order) /\ \A j \in DOMAIN order : order[j] \in Slot /\ Live(order[j])
  BY LenProperties DEF Listed, Has
<1> HIDE DEF w
<1>4. CASE w = {}
  BY <1>1, <1>2, <1>4
<1>5. CASE w # {}
  <2>1. w \in SUBSET Nat
    BY <1>1, <1>3
  <2>2. i \in w /\ \A j \in w : i <= j
    BY <1>5, <2>1, Smallest
  <2> HIDE DEF i
  <2> QED
    BY <1>1, <1>2, <1>3, <1>5, <2>2
<1> QED
  BY <1>4, <1>5

LEMMA PairFacts ==
  ASSUME CRelayInv, NEW s \in Slot, Live(s), NEW cl, Renamed(s, cl), TryPair(s, cl)
  PROVE  \/ Oldest(s, cl) = -1 /\ client' = cl
         \/ \E o \in Slot :
              /\ Oldest(s, cl) = o /\ o # s /\ Live(o) /\ Room
              /\ client[o].name # None /\ client[o].partner = -1
              /\ client'[o] = Matched(client[o], s, 0)
              /\ client'[s] = Matched(cl[s], o, 1)
              /\ client' = [t \in Slot |-> client'[t]]
              /\ \A t \in Slot : t # s /\ t # o => client'[t] = client[t]
<1>1. CASE Oldest(s, cl) = -1
  BY <1>1 DEF TryPair
<1>2. CASE Oldest(s, cl) # -1
  <2> PICK o \in Slot : /\ Oldest(s, cl) = o /\ o # s /\ Live(o)
                        /\ cl[o].name # None /\ cl[o].partner = -1
    BY <1>2, OldestFacts DEF CRelayInv
  <2>1. /\ Room
        /\ client' = [cl EXCEPT ![o] = Matched(@, s, 0), ![s] = Matched(@, o, 1)]
    BY <1>2 DEF TryPair
  <2>2. cl = [t \in Slot |-> cl[t]] /\ \A t \in Slot : t # s => cl[t] = client[t]
    BY DEF Renamed
  <2>3. /\ client' = [t \in Slot |-> client'[t]]
        /\ client'[s] = Matched(cl[s], o, 1) /\ client'[o] = Matched(cl[o], s, 0)
        /\ \A t \in Slot : t # s /\ t # o => client'[t] = cl[t]
    <3> DEFINE m == [cl EXCEPT ![o] = Matched(cl[o], s, 0)]
    <3>1. client' = [m EXCEPT ![s] = Matched(cl[s], o, 1)]
      BY <2>1, Zenon
    <3>2. /\ m = [t \in Slot |-> m[t]] /\ m[o] = Matched(cl[o], s, 0)
          /\ \A t \in Slot : t # o => m[t] = cl[t]
      BY <2>2
    <3> HIDE DEF m
    <3> QED
      BY <3>1, <3>2
  <2>4. /\ Oldest(s, cl) = o /\ o # s /\ Live(o) /\ Room
        /\ client[o].name # None /\ client[o].partner = -1
        /\ client'[o] = Matched(client[o], s, 0)
    BY <2>1, <2>2, <2>3
  <2>5. \A t \in Slot : t # s /\ t # o => client'[t] = client[t]
    BY <2>2, <2>3
  <2> QED
    BY <2>3, <2>4, <2>5
<1> QED
  BY <1>1, <1>2


LEMMA PairSlots ==
  ASSUME CRelayInv, NEW s \in Slot, Live(s), NEW cl, Renamed(s, cl), TryPair(s, cl)
  PROVE  /\ Slots'
         /\ \A t \in Slot :
              /\ client'[t].in_use = client[t].in_use /\ client'[t].dead = client[t].dead
              /\ client'[t].gen = client[t].gen /\ client'[t].conn = client[t].conn
              /\ client'[t].name = cl[t].name
              /\ Live(t)' <=> Live(t)
<1>1. CASE client' = cl
  BY <1>1 DEF Renamed, Slots, Live
<1>2. CASE client' # cl
  <2> PICK o \in Slot :
        /\ o # s
        /\ client'[o] = Matched(client[o], s, 0) /\ client'[s] = Matched(cl[s], o, 1)
        /\ client' = [t \in Slot |-> client'[t]]
        /\ \A t \in Slot : t # s /\ t # o => client'[t] = client[t]
    BY <1>2, PairFacts
  <2>1. /\ Field(client'[o])
        /\ client'[o].in_use = client[o].in_use /\ client'[o].dead = client[o].dead
        /\ client'[o].gen = client[o].gen /\ client'[o].conn = client[o].conn
        /\ client'[o].name = client[o].name
    BY MatchedField DEF CRelayInv, Slots
  <2>2. /\ Field(client'[s])
        /\ client'[s].in_use = cl[s].in_use /\ client'[s].dead = cl[s].dead
        /\ client'[s].gen = cl[s].gen /\ client'[s].conn = cl[s].conn
        /\ client'[s].name = cl[s].name
    BY MatchedField DEF Renamed
  <2>3. ASSUME NEW t \in Slot
        PROVE  /\ Field(client'[t])
               /\ client'[t].in_use = client[t].in_use /\ client'[t].dead = client[t].dead
               /\ client'[t].gen = client[t].gen /\ client'[t].conn = client[t].conn
               /\ client'[t].name = cl[t].name
    BY <2>1, <2>2 DEF Renamed, CRelayInv, Slots
  <2>4. Slots'
    BY <2>3 DEF Slots
  <2>5. \A t \in Slot : Live(t)' <=> Live(t)
    BY <2>3 DEF Live
  <2> QED
    BY <2>3, <2>4, <2>5
<1> QED
  BY <1>1, <1>2

LEMMA PairMatches ==
  ASSUME CRelayInv, NEW s \in Slot, Live(s), NEW cl, Renamed(s, cl), TryPair(s, cl),
         client[s].partner = -1, cl[s].name # None
  PROVE  Matches'
<1>1. \A t \in Slot : Live(t)' <=> Live(t)
  BY PairSlots
<1>2. CASE client' = cl
  BY <1>1, <1>2, SlotFacts DEF Renamed, CRelayInv, Matches
<1>3. CASE client' # cl
  <2> PICK o \in Slot :
        /\ o # s /\ Live(o) /\ client[o].name # None /\ client[o].partner = -1
        /\ client'[o] = Matched(client[o], s, 0) /\ client'[s] = Matched(cl[s], o, 1)
        /\ \A t \in Slot : t # s /\ t # o => client'[t] = client[t]
    BY <1>3, PairFacts
  <2>1. client'[o].partner = s /\ client'[o].name = client[o].name
    BY MatchedField DEF CRelayInv, Slots
  <2>2. client'[s].partner = o /\ client'[s].name = cl[s].name
    BY MatchedField DEF Renamed
  <2> SUFFICES ASSUME NEW t \in Slot, NEW p \in Slot, Live(t)', client'[t].partner = p
               PROVE  p # t /\ Live(p)' /\ client'[p].partner = t /\ client'[t].name # None
    BY DEF Matches
  <2>3. CASE t = s
    BY <1>1, <2>1, <2>2, <2>3
  <2>4. CASE t = o
    BY <1>1, <2>1, <2>2, <2>4
  <2>5. CASE t # s /\ t # o
    <3>1. client'[t] = client[t] /\ Live(t)
      BY <1>1, <2>5
    <3>2. p # t /\ Live(p) /\ client[p].partner = t /\ client[t].name # None
      BY <3>1 DEF CRelayInv, Matches
    <3>3. p # s /\ p # o
      BY <3>2, SlotFacts
    <3> QED
      BY <1>1, <3>1, <3>2, <3>3
  <2> QED
    BY <2>3, <2>4, <2>5
<1> QED
  BY <1>2, <1>3

LEMMA PairStep ==
  ASSUME CRelayInv, NEW s \in Slot, Live(s), NEW cl, Renamed(s, cl), TryPair(s, cl),
         client[s].partner = -1, cl[s].name # None, UNCHANGED <<order, tags, walk>>
  PROVE  Slots' /\ Owners' /\ Listed' /\ Matches' /\ Polled' /\ walk' \in Seq(Slot)
<1>1. /\ Slots'
      /\ \A t \in Slot :
           /\ client'[t].in_use = client[t].in_use
           /\ client'[t].gen = client[t].gen /\ client'[t].conn = client[t].conn
           /\ Live(t)' <=> Live(t)
  BY PairSlots
<1>2. Owners' /\ Listed'
  BY <1>1 DEF CRelayInv, Owners, Listed
<1>3. Polled' /\ walk' \in Seq(Slot)
  BY <1>1 DEF CRelayInv, Polled
<1> QED
  BY <1>1, <1>2, <1>3, PairMatches

LEMMA NameField ==
  ASSUME NEW r, Field(r), NEW v \in Names
  PROVE  LET n == [r EXCEPT !.name = v]
         IN  /\ Field(n) /\ n.name = v
             /\ n.in_use = r.in_use /\ n.dead = r.dead /\ n.gen = r.gen /\ n.conn = r.conn
             /\ n.partner = r.partner /\ n.role = r.role /\ n.tx = r.tx
             /\ n.crc = r.crc /\ n.lap = r.lap /\ n.last = r.last
BY DEF Field

\* The two requests that pair.
LEMMA HelloStep ==
  ASSUME CRelayInv, NEW s \in Slot, Live(s), NEW n \in Asked, NEW w \in Named(n), Hello(s, w),
         UNCHANGED loopVars
  PROVE  /\ CRelayInv'
         /\ w \in Names /\ by_name[w] = NoName /\ client[s].partner = -1
         /\ Renamed(s, [client EXCEPT ![s].name = w])
         /\ [client EXCEPT ![s].name = w][s].name = w
<1> DEFINE cl == [client EXCEPT ![s].name = w]
<1>1. /\ client[s].name = None /\ TryPair(s, cl) /\ UNCHANGED <<order, tags, walk>>
      /\ by_name' = [by_name EXCEPT ![w] = [slot |-> s, gen |-> client[s].gen]]
  BY DEF Hello, loopVars
<1>2. w \in Names /\ by_name[w].slot = -1
  <2>1. n \in Names /\ Variants(n) \subseteq Names
    BY CRelayAssumption
  <2> QED
    BY <2>1 DEF Named
<1>3. by_name[w] = NoName
  BY <1>2, SlotFacts DEF CRelayInv, Roster
<1>4. client[s].partner = -1
  <2>1. client[s].partner \in Slot \cup {-1}
    BY DEF CRelayInv, Slots, Field
  <2>2. client[s].partner \notin Slot
    BY <1>1 DEF CRelayInv, Matches
  <2> QED
    BY <2>1, <2>2
<1>5. Renamed(s, cl) /\ cl[s].name = w
  <2>1. /\ cl = [t \in Slot |-> cl[t]] /\ cl[s] = [client[s] EXCEPT !.name = w]
        /\ \A t \in Slot : t # s => cl[t] = client[t]
    BY DEF CRelayInv, Slots
  <2>2. /\ Field(cl[s])
        /\ cl[s].in_use = client[s].in_use /\ cl[s].dead = client[s].dead
        /\ cl[s].gen = client[s].gen /\ cl[s].conn = client[s].conn
        /\ cl[s].partner = client[s].partner /\ cl[s].name = w
        /\ cl[s].role = client[s].role /\ cl[s].tx = client[s].tx /\ cl[s].crc = client[s].crc
        /\ cl[s].lap = client[s].lap /\ cl[s].last = client[s].last
    <3> DEFINE own == [client[s] EXCEPT !.name = w]
    <3>1. Field(client[s])
      BY DEF CRelayInv, Slots
    <3>2. /\ Field(own)
          /\ own.in_use = client[s].in_use /\ own.dead = client[s].dead
          /\ own.gen = client[s].gen /\ own.conn = client[s].conn
          /\ own.partner = client[s].partner /\ own.name = w
          /\ own.role = client[s].role /\ own.tx = client[s].tx /\ own.crc = client[s].crc
          /\ own.lap = client[s].lap /\ own.last = client[s].last
      BY <1>2, <3>1, NameField
    <3>3. cl[s] = own
      BY <2>1
    <3> HIDE DEF cl, own
    <3> QED
      BY <3>2, <3>3
  <2> HIDE DEF cl
  <2>3. \A t \in Slot : Field(client[t])
    BY DEF CRelayInv, Slots
  <2>4. \A t \in Slot : t # s =>
          /\ Field(cl[t]) /\ cl[t] = client[t]
    BY <2>1, <2>3
  <2>5. Renamed(s, cl)
    BY <1>1, <2>1, <2>2, <2>4 DEF Renamed
  <2> QED
    BY <2>2, <2>5
<1> HIDE DEF cl
<1>6. w # None
  BY <1>2, CRelayAssumption
<1>7. Slots' /\ Owners' /\ Listed' /\ Matches' /\ Polled' /\ walk' \in Seq(Slot)
  BY <1>1, <1>4, <1>5, <1>6, PairStep
<1>8. \A t \in Slot : /\ client'[t].gen = client[t].gen /\ client'[t].name = cl[t].name
                      /\ Live(t)' <=> Live(t)
  BY <1>1, <1>5, PairSlots
<1>9. Roster'
  <2>1. /\ by_name' = [m \in Names |-> by_name'[m]]
        /\ by_name'[w] = [slot |-> s, gen |-> client[s].gen]
        /\ \A m \in Names : m # w => by_name'[m] = by_name[m]
    BY <1>1, <1>2 DEF CRelayInv, Roster
  <2>2. ASSUME NEW m \in Names, m # w, by_name'[m] # NoName
        PROVE  \E t \in Slot : /\ by_name'[m] = [slot |-> t, gen |-> client'[t].gen]
                               /\ Live(t)' /\ client'[t].name = m
    <3>1. PICK t \in Slot : /\ by_name[m] = [slot |-> t, gen |-> client[t].gen]
                            /\ Live(t) /\ client[t].name = m
      BY <2>1, <2>2 DEF CRelayInv, Roster
    <3>2. m # None /\ cl[t].name = m
      BY <1>5, <3>1, CRelayAssumption DEF Renamed
    <3> QED
      BY <1>8, <2>1, <2>2, <3>1, <3>2
  <2>3. by_name'[w] = [slot |-> s, gen |-> client'[s].gen] /\ Live(s)' /\ client'[s].name = w
    BY <1>5, <1>8, <2>1
  <2> QED
    BY <2>1, <2>2, <2>3 DEF Roster
<1> QED
  BY <1>2, <1>3, <1>4, <1>5, <1>7, <1>9 DEF CRelayInv, cl

LEMMA JoinStep ==
  ASSUME CRelayInv, NEW s \in Slot, Live(s), Join(s), UNCHANGED loopVars
  PROVE  CRelayInv' /\ Renamed(s, client)
<1>1. /\ client[s].name # None /\ client[s].partner = -1 /\ TryPair(s, client)
      /\ UNCHANGED <<order, tags, walk, by_name>>
  BY DEF Join, loopVars
<1>2. Renamed(s, client)
  BY DEF Renamed, CRelayInv, Slots
<1>3. Slots' /\ Owners' /\ Listed' /\ Matches' /\ Polled' /\ walk' \in Seq(Slot)
  BY <1>1, <1>2, PairStep
<1>4. \A t \in Slot : /\ client'[t].gen = client[t].gen /\ client'[t].name = client[t].name
                      /\ Live(t)' <=> Live(t)
  BY <1>1, <1>2, PairSlots
<1>5. Roster'
  BY <1>1, <1>4 DEF CRelayInv, Roster
<1> QED
  BY <1>2, <1>3, <1>5 DEF CRelayInv

LEMMA QueryStep ==
  ASSUME CRelayInv, NEW s \in Slot, Query(s), UNCHANGED loopVars
  PROVE  CRelayInv'
<1> DEFINE n == [client[s] EXCEPT !.tx = Append(client[s].tx, Python!REPLY)]
<1>1. client' = [client EXCEPT ![s] = n] /\ UNCHANGED <<order, by_name, tags, walk>>
  BY DEF Query, loopVars
<1>2. Field(client[s])
  BY DEF CRelayInv, Slots
<1>3. /\ Field(n) /\ n.in_use = client[s].in_use /\ n.dead = client[s].dead
      /\ n.gen = client[s].gen /\ n.conn = client[s].conn
      /\ n.name = client[s].name /\ n.partner = client[s].partner
  BY <1>2, TxField, SMTT(30)
<1> HIDE DEF n
<1>4. Slots' /\ \A t \in Slot : SameSlot(t)
  BY <1>1, <1>3, OneSlot DEF CRelayInv
<1> QED
  BY <1>1, <1>4, QuietStep DEF CRelayInv

LEMMA FlushStep ==
  ASSUME CRelayInv, NEW s \in Slot, Live(s), NEW k, Flush(s, k),
         tags' \subseteq tags, walk' \in Seq(Slot)
  PROVE  CRelayInv'
<1> DEFINE rest == SubSeq(client[s].tx, k + 1, Len(client[s].tx))
           n == [client[s] EXCEPT !.tx = rest]
<1>1. CASE Drop(s)
  BY <1>1, DropStep
<1>2. CASE ~Drop(s)
  <2>1. client' = [client EXCEPT ![s] = n] /\ UNCHANGED <<order, by_name>>
    BY <1>2 DEF Flush
  <2>2. Field(client[s])
    BY DEF CRelayInv, Slots
  <2>3. /\ Field(n) /\ n.in_use = client[s].in_use /\ n.dead = client[s].dead
        /\ n.gen = client[s].gen /\ n.conn = client[s].conn
        /\ n.name = client[s].name /\ n.partner = client[s].partner
    <3>1. ASSUME NEW r, Field(r), NEW v
          PROVE  LET m == [r EXCEPT !.tx = v]
                 IN  /\ Field(m) /\ m.in_use = r.in_use /\ m.dead = r.dead /\ m.gen = r.gen
                     /\ m.conn = r.conn /\ m.name = r.name /\ m.partner = r.partner
      BY <3>1 DEF Field
    <3> HIDE DEF rest
    <3> QED
      BY <2>2, <3>1
  <2> HIDE DEF n
  <2>4. Slots' /\ \A t \in Slot : SameSlot(t)
    BY <2>1, <2>3, OneSlot DEF CRelayInv
  <2> QED
    BY <2>1, <2>4, QuietStep
<1> QED
  BY <1>1, <1>2

\* What a record does to the slot it came from, and to the partner's.
LEMMA InputFields ==
  ASSUME CRelayInv, NEW s \in Slot, Live(s), NEW rep, Input(s, rep)
  PROVE  LET p    == client[s].partner
             key  == LapAfter(client[s], rep.tick) * WireTicks + rep.tick
             mine == Python!Assign(client[s].crc, key, rep.sum, CrcSlots)
             hit  == p # -1 /\ Python!Holds(client[p].crc, key)
         IN  /\ client' = [t \in Slot |-> client'[t]]
             /\ \A t \in Slot :
                  /\ Field(client'[t]) /\ SameSlot(t) /\ client'[t].role = client[t].role
                  /\ t # s /\ t # p => client'[t] = client[t]
             /\ client'[s].tx = client[s].tx
             /\ client'[s].lap = LapAfter(client[s], rep.tick) /\ client'[s].last = rep.tick
             /\ client'[s].crc = IF hit THEN mine ELSE Python!Youngest(mine)
             /\ p \in Slot =>
                  /\ p # s
                  /\ client'[p].tx = Append(client[p].tx, Python!INPUT(client[s].conn))
                  /\ client'[p].lap = client[p].lap /\ client'[p].last = client[p].last
                  /\ client'[p].crc = IF hit THEN Python!Without(client[p].crc, key)
                                      ELSE client[p].crc
<1> PICK p : p = client[s].partner
  OBVIOUS
<1> DEFINE l    == LapAfter(client[s], rep.tick)
           key  == l * WireTicks + rep.tick
           mine == Python!Assign(client[s].crc, key, rep.sum, CrcSlots)
           hit  == p # -1 /\ Python!Holds(client[p].crc, key)
           a    == IF hit THEN mine ELSE Python!Youngest(mine)
           b    == IF hit THEN Python!Without(client[p].crc, key) ELSE client[p].crc
           q    == Append(client[p].tx, Python!INPUT(client[s].conn))
<1>1. client' = [t \in Slot |->
        IF t = s THEN [client[s] EXCEPT !.lap = l, !.last = rep.tick, !.crc = a]
        ELSE IF t = p THEN [client[p] EXCEPT !.tx = q, !.crc = b]
        ELSE client[t]]
  BY Zenon DEF Input
<1> HIDE DEF l, key, mine, hit, a, b, q
<1>2. client' = [t \in Slot |-> client'[t]]
  BY <1>1
<1>3. \A t \in Slot : Field(client[t])
  BY DEF CRelayInv, Slots
<1>4. /\ Field(client'[s]) /\ SameSlot(s) /\ client'[s].role = client[s].role
      /\ client'[s].tx = client[s].tx /\ client'[s].lap = l /\ client'[s].last = rep.tick
      /\ client'[s].crc = a
  <2> DEFINE m == [client[s] EXCEPT !.lap = l]
             n == [m EXCEPT !.last = rep.tick]
             o == [n EXCEPT !.crc = a]
  <2>1. client'[s] = o
    <3>1. client'[s] = [client[s] EXCEPT !.lap = l, !.last = rep.tick, !.crc = a]
      BY <1>1, Zenon
    <3> QED
      BY <3>1, Zenon
  <2>2. /\ Field(m) /\ m.in_use = client[s].in_use /\ m.dead = client[s].dead
        /\ m.gen = client[s].gen /\ m.conn = client[s].conn
        /\ m.name = client[s].name /\ m.partner = client[s].partner
        /\ m.role = client[s].role /\ m.tx = client[s].tx /\ m.lap = l
    BY <1>3, LapField
  <2> HIDE DEF m
  <2>3. /\ Field(n) /\ n.in_use = m.in_use /\ n.dead = m.dead
        /\ n.gen = m.gen /\ n.conn = m.conn /\ n.name = m.name /\ n.partner = m.partner
        /\ n.role = m.role /\ n.tx = m.tx /\ n.lap = m.lap /\ n.last = rep.tick
    BY <2>2, LastField
  <2> HIDE DEF n
  <2>4. /\ Field(o) /\ o.in_use = n.in_use /\ o.dead = n.dead
        /\ o.gen = n.gen /\ o.conn = n.conn /\ o.name = n.name /\ o.partner = n.partner
        /\ o.role = n.role /\ o.tx = n.tx /\ o.lap = n.lap /\ o.last = n.last /\ o.crc = a
    BY <2>3, CrcField
  <2> HIDE DEF o
  <2> QED
    BY <2>1, <2>2, <2>3, <2>4 DEF SameSlot
<1>5. ASSUME NEW t \in Slot, t # s, t = p
      PROVE  /\ Field(client'[t]) /\ SameSlot(t) /\ client'[t].role = client[t].role
             /\ client'[t].tx = q /\ client'[t].crc = b
             /\ client'[t].lap = client[t].lap /\ client'[t].last = client[t].last
  <2> DEFINE m == [client[t] EXCEPT !.tx = q]
             n == [m EXCEPT !.crc = b]
  <2>1. client'[t] = n
    <3>1. client'[t] = [client[p] EXCEPT !.tx = q, !.crc = b]
      BY <1>1, <1>5, Zenon
    <3>2. client'[t] = [client[t] EXCEPT !.tx = q, !.crc = b]
      BY <1>5, <3>1, Zenon
    <3> QED
      BY <3>2, Zenon
  <2>2. /\ Field(m) /\ m.in_use = client[t].in_use /\ m.dead = client[t].dead
        /\ m.gen = client[t].gen /\ m.conn = client[t].conn
        /\ m.name = client[t].name /\ m.partner = client[t].partner
        /\ m.role = client[t].role /\ m.tx = q
        /\ m.lap = client[t].lap /\ m.last = client[t].last
    BY <1>3, TxField
  <2> HIDE DEF m
  <2>3. /\ Field(n) /\ n.in_use = m.in_use /\ n.dead = m.dead
        /\ n.gen = m.gen /\ n.conn = m.conn /\ n.name = m.name /\ n.partner = m.partner
        /\ n.role = m.role /\ n.tx = m.tx /\ n.lap = m.lap /\ n.last = m.last /\ n.crc = b
    BY <2>2, CrcField
  <2> HIDE DEF n
  <2> QED
    BY <2>1, <2>2, <2>3 DEF SameSlot
<1>6. ASSUME NEW t \in Slot, t # s, t # p PROVE client'[t] = client[t]
  BY <1>1, <1>6, Zenon
<1>7. \A t \in Slot : Field(client'[t]) /\ SameSlot(t) /\ client'[t].role = client[t].role
  BY <1>3, <1>4, <1>5, <1>6 DEF SameSlot
<1>8. p \in Slot => p # s
  BY DEF CRelayInv, Matches
<1>9. /\ client'[s].crc = IF hit THEN mine ELSE Python!Youngest(mine)
      /\ p \in Slot =>
           client'[p].crc = IF hit THEN Python!Without(client[p].crc, key) ELSE client[p].crc
  BY <1>4, <1>5, <1>8 DEF a, b
<1>10. p \in Slot =>
         /\ client'[p].tx = q
         /\ client'[p].lap = client[p].lap /\ client'[p].last = client[p].last
  BY <1>5, <1>8
<1> QED
  BY <1>2, <1>4, <1>6, <1>7, <1>8, <1>9, <1>10 DEF l, key, mine, hit, q

LEMMA InputStep ==
  ASSUME CRelayInv, NEW s \in Slot, Live(s), NEW rep, Input(s, rep), UNCHANGED loopVars
  PROVE  CRelayInv'
<1>1. UNCHANGED <<order, by_name, tags, walk>>
  BY DEF Input, loopVars
<1>2. /\ client' = [t \in Slot |-> client'[t]]
      /\ \A t \in Slot : Field(client'[t]) /\ SameSlot(t)
  BY InputFields
<1>3. Slots'
  BY <1>2 DEF Slots
<1> QED
  BY <1>1, <1>2, <1>3, QuietStep DEF CRelayInv


-----------------------------------------------------------------------------
(* The loop *)

LEMMA ServiceStep ==
  ASSUME CRelayInv, NEW s \in Slot, Live(s), Service(s)
  PROVE  CRelayInv'
<1>1. UNCHANGED loopVars /\ tags' \subseteq tags /\ walk' \in Seq(Slot)
  BY DEF Service, loopVars, CRelayInv
<1>2. CASE Drop(s)
  BY <1>1, <1>2, DropStep
<1>3. CASE Join(s)
  BY <1>1, <1>3, JoinStep
<1>4. CASE Query(s)
  BY <1>1, <1>4, QueryStep
<1>5. ASSUME NEW n \in Asked, NEW w \in Named(n), Hello(s, w) PROVE CRelayInv'
  BY <1>1, <1>5, HelloStep
<1>6. ASSUME NEW rep \in Reports, Input(s, rep) PROVE CRelayInv'
  BY <1>1, <1>6, InputStep
<1>7. ASSUME NEW k \in 1..(MaxTx + 2), Flush(s, k) PROVE CRelayInv'
  BY <1>1, <1>7, FlushStep
<1> QED
  BY <1>2, <1>3, <1>4, <1>5, <1>6, <1>7 DEF Service

\* A tag that is acted on is that of a live slot.
LEMMA FreshSlot ==
  ASSUME CRelayInv, NEW t \in tags, Fresh(t)
  PROVE  t.slot \in Slot /\ Live(t.slot) /\ client[t.slot].conn = t.conn
BY DEF CRelayInv, Polled, Fresh

LEMMA BatchEndsStep ==
  ASSUME CRelayInv, BatchEnds
  PROVE  CRelayInv'
<1>1. client' = client /\ order' = order /\ by_name' = by_name /\ walk' = order /\ tags' = {}
  BY DEF BatchEnds
<1>2. walk' \in Seq(Slot) /\ tags' \subseteq tags
  BY <1>1 DEF CRelayInv, Listed
<1>3. Slots' /\ \A s \in Slot : SameSlot(s)
  BY <1>1 DEF CRelayInv, Slots, SameSlot
<1> QED
  BY <1>1, <1>2, <1>3, QuietStep

\* The slot that is flushed next.
LEMMA NextOwed ==
  ASSUME walk \in Seq(Slot), Owed # {}
  PROVE  LET i == CHOOSE i \in Owed : \A j \in Owed : i <= j
         IN  /\ i \in DOMAIN walk /\ walk[i] \in Slot /\ Live(walk[i])
             /\ client[walk[i]].tx # <<>>
             /\ SubSeq(walk, i + 1, Len(walk)) \in Seq(Slot)
<1> DEFINE i == CHOOSE i \in Owed : \A j \in Owed : i <= j
<1>1. DOMAIN walk = 1..Len(walk) /\ Len(walk) \in Nat
  BY LenProperties
<1>2. /\ Owed \subseteq DOMAIN walk
      /\ \A j \in Owed : Live(walk[j]) /\ client[walk[j]].tx # <<>>
  BY DEF Owed
<1>3. Owed \in SUBSET Nat
  BY <1>1, <1>2
<1>4. i \in Owed
  BY <1>3, Smallest
<1> HIDE DEF i
<1>5. i \in 1..Len(walk) /\ walk[i] \in Slot
  BY <1>1, <1>2, <1>4, ElementOfSeq
<1>6. SubSeq(walk, i + 1, Len(walk)) \in Seq(Slot)
  BY <1>1, <1>5
<1> QED
  BY <1>1, <1>2, <1>4, <1>5, <1>6 DEF i

LEMMA FlushNextStep ==
  ASSUME CRelayInv, FlushNext
  PROVE  CRelayInv'
<1> DEFINE i == CHOOSE i \in Owed : \A j \in Owed : i <= j
<1>1. /\ Owed # {} /\ tags' = tags /\ walk' = SubSeq(walk, i + 1, Len(walk))
      /\ \E k \in 0..(MaxTx + 2) : Flush(walk[i], k)
  BY DEF FlushNext
<1>2. /\ i \in DOMAIN walk /\ walk[i] \in Slot /\ Live(walk[i])
      /\ SubSeq(walk, i + 1, Len(walk)) \in Seq(Slot)
  BY <1>1, NextOwed DEF CRelayInv
<1> HIDE DEF i
<1> PICK k : Flush(walk[i], k)
  BY <1>1
<1>3. walk' \in Seq(Slot) /\ tags' \subseteq tags
  BY <1>1, <1>2
<1> QED
  BY <1>2, <1>3, FlushStep

LEMMA CRelayNext == CRelayInv /\ [Next]_vars => CRelayInv'
<1> SUFFICES ASSUME CRelayInv, [Next]_vars PROVE CRelayInv'
  OBVIOUS
<1>1. CASE Batch
  <2>1. ASSUME NEW c \in Conn, Accept(c) PROVE CRelayInv'
    BY <2>1, AcceptStep
  <2>2. ASSUME NEW t \in tags, Fresh(t), Service(t.slot) PROVE CRelayInv'
    BY <2>2, FreshSlot, ServiceStep
  <2> QED
    BY <1>1, <2>1, <2>2 DEF Batch
<1>2. CASE BatchEnds
  BY <1>2, BatchEndsStep
<1>3. CASE FlushNext
  BY <1>3, FlushNextStep
<1>4. CASE Sweep
  <2>1. /\ walk' = <<>> /\ tags' = tags
        /\ \E s \in Slot : Live(s) /\ Drop(s)
    BY <1>4 DEF Sweep
  <2>2. walk' \in Seq(Slot) /\ tags' \subseteq tags
    BY <2>1
  <2> QED
    BY <2>1, <2>2, DropStep
<1>5. CASE Poll
  BY <1>5, PollStep
<1>6. CASE UNCHANGED vars
  <2>1. UNCHANGED <<client, order, by_name, tags, walk>>
    BY <1>6 DEF vars, loopVars
  <2>2. /\ Slots' /\ \A s \in Slot : SameSlot(s)
        /\ walk' \in Seq(Slot) /\ tags' \subseteq tags
    BY <2>1 DEF CRelayInv, Slots, SameSlot
  <2> QED
    BY <2>1, <2>2, QuietStep
<1> QED
  BY <1>1, <1>2, <1>3, <1>4, <1>5, <1>6 DEF Next

\* Every reference by index is good, in every reachable state, for any number of
\* slots, names and connections (client_alloc, drop, name_del_if_is, reap).
THEOREM CRelayAlways == Spec => []CRelayInv
<1> QED
  BY InitInv, CRelayNext, PTL DEF Spec

\* An event is handled for the connection it was polled for, or for none, though
\* its slot was left and taken within the batch (the loop over events).
THEOREM TagsCorrect == Spec => []TagsHonest
<1>1. CRelayInv => TagsHonest
  BY DEF CRelayInv, Polled, TagsHonest, Fresh
<1> QED
  BY CRelayAlways, <1>1, PTL

\* order[], the partners and the roster refer to live slots, each to the right
\* one, whatever is dropped and reused (drop, order_del, name_del_if_is, try_pair).
THEOREM IndicesCorrect == Spec => []IndicesLive
<1>1. CRelayInv => IndicesLive
  <2> SUFFICES ASSUME CRelayInv PROVE IndicesLive
    OBVIOUS
  <2> DEFINE n == Len(order)
             R == {order[i] : i \in DOMAIN order}
             f == [i \in 1..n |-> order[i]]
  <2>1. n \in Nat /\ DOMAIN order = 1..n
    BY LenProperties DEF CRelayInv, Listed
  <2>2. Len(order) = Cardinality(R)
    <3>1. f \in Bijection(1..n, R)
      <4>1. f \in [1..n -> R] /\ \A d \in R : \E i \in 1..n : f[i] = d
        BY <2>1
      <4>2. \A i, j \in 1..n : f[i] = f[j] => i = j
        BY <2>1 DEF CRelayInv, Listed, Once
      <4> QED
        BY <4>1, <4>2 DEF Bijection, Injection, Surjection, IsInjective
    <3> HIDE DEF n, R, f
    <3>2. IsFiniteSet(1..n) /\ Cardinality(1..n) = n
      <4>1. Cardinality(1..n) = IF 1 > n THEN 0 ELSE n - 1 + 1
        BY <2>1, FS_Interval
      <4>2. IsFiniteSet(1..n)
        BY <2>1, FS_Interval
      <4> QED
        BY <2>1, <4>1, <4>2
    <3>3. Cardinality(R) = n
      BY <3>1, <3>2, FS_Bijection DEF ExistsBijection
    <3> QED
      BY <3>3 DEF n
  <2>3. R = {s \in Slot : Live(s)}
    <3>1. \A i \in DOMAIN order : order[i] \in Slot
      BY <2>1, ElementOfSeq DEF CRelayInv, Listed
    <3> QED
      BY <3>1 DEF CRelayInv, Listed, Has
  <2>4. \A s \in Slot : Live(s) /\ client[s].partner # -1 =>
          Live(client[s].partner) /\ client[client[s].partner].partner = s
    <3>1. \A s \in Slot : client[s].partner \in Slot \cup {-1}
      BY DEF CRelayInv, Slots, Field
    <3> QED
      BY <3>1 DEF CRelayInv, Matches
  <2>5. ASSUME NEW m \in Taken(by_name)
        PROVE  LET e == by_name[m]
               IN  Live(e.slot) /\ client[e.slot].gen = e.gen /\ client[e.slot].name = m
    <3>1. m \in Names /\ by_name[m] # NoName
      BY DEF Taken, NoName
    <3> PICK s \in Slot : /\ by_name[m] = [slot |-> s, gen |-> client[s].gen]
                          /\ Live(s) /\ client[s].name = m
      BY <3>1 DEF CRelayInv, Roster
    <3>2. by_name[m].slot = s /\ by_name[m].gen = client[s].gen
      OBVIOUS
    <3> QED
      BY <3>2
  <2> QED
    BY <2>2, <2>3, <2>4, <2>5 DEF IndicesLive
<1> QED
  BY CRelayAlways, <1>1, PTL

-----------------------------------------------------------------------------
(* The relay in Python *)

\* The checksum logs are within their array: what crc_set says of it.
Fits == \A s \in Slot : Live(s) => Len(client[s].crc) < CrcSlots

Comparable == LogSlots = CrcSlots \/ Fits

\* A connection has no slot, or one, which holds all the relay knows of it.
LEMMA OfFacts ==
  ASSUME CRelayInv
  PROVE  /\ \A s \in Slot : Live(s) =>
              /\ client[s].conn \in Conn /\ SlotOf(client[s].conn) = s
              /\ Of(client[s].conn) = client[s]
         /\ \A c \in Conn :
              \/ SlotOf(c) = -1 /\ Of(c) = Blank /\ \A t \in Slot : Live(t) => client[t].conn # c
              \/ \E t \in Slot : /\ Live(t) /\ client[t].conn = c /\ SlotOf(c) = t
                                 /\ Of(c) = client[t]
<1>1. ASSUME NEW s \in Slot, Live(s)
      PROVE  /\ client[s].conn \in Conn /\ SlotOf(client[s].conn) = s
             /\ Of(client[s].conn) = client[s]
  <2>1. client[s].conn \in Conn /\ SlotOf(client[s].conn) = s
    BY <1>1, SlotOfLive DEF CRelayInv, Owners
  <2> QED
    BY <2>1, SlotFacts DEF Of
<1>2. ASSUME NEW c \in Conn
      PROVE  \/ /\ SlotOf(c) = -1 /\ Of(c) = Blank
                /\ \A t \in Slot : Live(t) => client[t].conn # c
             \/ \E t \in Slot : /\ Live(t) /\ client[t].conn = c /\ SlotOf(c) = t
                                /\ Of(c) = client[t]
  <2>1. CASE SlotOf(c) = -1
    BY <2>1, SlotOfNone DEF Of
  <2>2. CASE SlotOf(c) # -1
    BY <2>2, SlotOfNone DEF Of
  <2> QED
    BY <2>1, <2>2
<1> QED
  BY <1>1, <1>2

LEMMA ConnFacts ==
  ASSUME CRelayInv
  PROVE  /\ \A p \in Slot : ConnAt(p) = client[p].conn
         /\ ConnAt(-1) = None
         /\ \A p \in Slot : Live(p) => ConnAt(p) \in Conn /\ ConnAt(p) # None
BY SlotFacts, CRelayAssumption DEF ConnAt, CRelayInv, Owners

\* What the Python relay's variables are, of a connection with a slot.
LEMMA OrderFacts ==
  ASSUME CRelayInv
  PROVE  /\ order \in Seq(Slot) /\ Len(order) \in Nat /\ DOMAIN order = 1..Len(order)
         /\ \A i \in DOMAIN order : order[i] \in Slot /\ Live(order[i])
         /\ \A s \in Slot : Live(s) => \E i \in DOMAIN order : order[i] = s
         /\ \A i, j \in DOMAIN order : order[i] = order[j] => i = j
<1>1. order \in Seq(Slot)
  BY DEF CRelayInv, Listed
<1>2. Len(order) \in Nat /\ DOMAIN order = 1..Len(order)
  BY <1>1, LenProperties
<1>3. \A i \in DOMAIN order : order[i] \in Slot
  BY <1>1, <1>2, ElementOfSeq
<1> QED
  BY <1>1, <1>2, <1>3 DEF CRelayInv, Listed, Has, Once

LEMMA LiveFacts ==
  ASSUME CRelayInv
  PROVE  /\ Python!Live \subseteq Conn
         /\ \A s \in Slot : Live(s) => client[s].conn \in Python!Live
         /\ \A c \in Conn : c \in Python!Live <=> SlotOf(c) # -1
<1>1. Python!Live = {client[order[i]].conn : i \in DOMAIN order}
  BY DEF Python!Live
<1>2. \A c : c \in Python!Live <=> \E s \in Slot : Live(s) /\ client[s].conn = c
  BY <1>1, OrderFacts
<1> QED
  BY <1>2, OfFacts, SlotFacts

\* The same, to be said of the next state.
OfSound ==
  /\ \A s \in Slot : Live(s) => client[s].conn \in Conn
  /\ \A s \in Slot, c \in Conn : Live(s) /\ client[s].conn = c =>
       SlotOf(c) = s /\ Of(c) = client[s]
  /\ \A c \in Conn : (\A s \in Slot : Live(s) => client[s].conn # c) =>
       SlotOf(c) = -1 /\ Of(c) = Blank

LEMMA NowSound == CRelayInv => OfSound
BY OfFacts, SlotFacts DEF OfSound

LEMMA NextSound ==
  ASSUME CRelayInv'
  PROVE  /\ \A s \in Slot : Live(s)' => client'[s].conn \in Conn
         /\ \A s \in Slot, c \in Conn : Live(s)' /\ client'[s].conn = c =>
              SlotOf(c)' = s /\ Of(c)' = client'[s]
         /\ \A c \in Conn : (\A s \in Slot : Live(s)' => client'[s].conn # c) =>
              SlotOf(c)' = -1 /\ Of(c)' = Blank
<1>1. OfSound'
  BY NowSound, PTL
<1> QED
  BY <1>1 DEF OfSound, Slot, Blank

\* A step that allocates and frees no slot.
Settled ==
  /\ order' = order
  /\ \A t \in Slot : (Live(t)' <=> Live(t)) /\ client'[t].conn = client[t].conn

LEMMA Seen ==
  ASSUME CRelayInv, CRelayInv', Settled
  PROVE  /\ [i \in DOMAIN order |-> client[order[i]].conn]'
              = [i \in DOMAIN order |-> client[order[i]].conn]
         /\ \A c \in Conn :
              \/ /\ Of(c) = Blank /\ Of(c)' = Blank
                 /\ \A t \in Slot : Live(t) => client[t].conn # c
              \/ \E t \in Slot : /\ Live(t) /\ client[t].conn = c
                                 /\ Of(c) = client[t] /\ Of(c)' = client'[t]
         /\ \A p \in Slot : ConnAt(p)' = ConnAt(p)
         /\ ConnAt(-1)' = ConnAt(-1)
<1>1. [i \in DOMAIN order |-> client[order[i]].conn]'
              = [i \in DOMAIN order |-> client[order[i]].conn]
  BY OrderFacts DEF Settled
<1>2. ASSUME NEW c \in Conn
      PROVE  \/ /\ Of(c) = Blank /\ Of(c)' = Blank
                /\ \A t \in Slot : Live(t) => client[t].conn # c
             \/ \E t \in Slot : /\ Live(t) /\ client[t].conn = c
                                /\ Of(c) = client[t] /\ Of(c)' = client'[t]
  <2>1. CASE \E t \in Slot : Live(t) /\ client[t].conn = c
    BY <2>1, NowSound, NextSound DEF OfSound, Settled
  <2>2. CASE \A t \in Slot : Live(t) => client[t].conn # c
    BY <2>2, NowSound, NextSound DEF OfSound, Settled
  <2> QED
    BY <2>1, <2>2
<1>3. (\A p \in Slot : ConnAt(p)' = ConnAt(p)) /\ ConnAt(-1)' = ConnAt(-1)
  BY SlotFacts DEF ConnAt, Settled
<1> QED
  BY <1>1, <1>2, <1>3

\* One slot is changed.
LEMMA SeenOne ==
  ASSUME CRelayInv, CRelayInv', Settled, NEW s \in Slot, Live(s),
         \A t \in Slot : t # s => client'[t] = client[t]
  PROVE  /\ client[s].conn \in Conn /\ Of(client[s].conn) = client[s]
         /\ \A c \in Conn : Of(c)' = IF c = client[s].conn THEN client'[s] ELSE Of(c)
BY Seen, OfFacts

LEMMA SeenTwo ==
  ASSUME CRelayInv, CRelayInv', Settled, NEW s \in Slot, Live(s), NEW p \in Slot, Live(p), p # s,
         \A t \in Slot : t # s /\ t # p => client'[t] = client[t]
  PROVE  /\ client[s].conn \in Conn /\ Of(client[s].conn) = client[s]
         /\ client[p].conn \in Conn /\ Of(client[p].conn) = client[p]
         /\ client[s].conn # client[p].conn
         /\ \A c \in Conn : Of(c)' = IF c = client[s].conn THEN client'[s]
                                     ELSE IF c = client[p].conn THEN client'[p] ELSE Of(c)
<1>1. /\ client[s].conn \in Conn /\ Of(client[s].conn) = client[s]
      /\ client[p].conn \in Conn /\ Of(client[p].conn) = client[p]
  BY OfFacts
<1>2. client[s].conn # client[p].conn
  BY DEF CRelayInv, Owners
<1> QED
  BY <1>1, <1>2, Seen, OfFacts

-----------------------------------------------------------------------------
(* Each action, as an action of the Python relay *)

\* The roster and its count refer to connections as to slots.
LEMMA NameFacts ==
  ASSUME CRelayInv
  PROVE  \A n \in Names :
           \/ by_name[n].slot = -1 /\ by_name[n] = NoName
           \/ \E t \in Slot : /\ by_name[n].slot = t /\ by_name[n].gen = client[t].gen
                              /\ Live(t) /\ client[t].name = n
<1>1. NoName.slot = -1
  BY DEF NoName
<1>2. ASSUME NEW n \in Names, NEW s \in Slot, by_name[n] = [slot |-> s, gen |-> client[s].gen]
      PROVE  by_name[n].slot = s /\ by_name[n].gen = client[s].gen
  BY <1>2
<1> QED
  BY <1>1, <1>2 DEF CRelayInv, Roster

LEMMA SameHolder ==
  ASSUME CRelayInv, \A t \in Slot : Live(t) => client'[t].conn = client[t].conn,
         by_name' = by_name
  PROVE  [n \in Names |-> ConnAt(by_name[n].slot)]' = [n \in Names |-> ConnAt(by_name[n].slot)]
<1>1. ASSUME NEW n \in Names
      PROVE  (IF by_name'[n].slot = -1 THEN None ELSE client'[by_name'[n].slot].conn)
             = (IF by_name[n].slot = -1 THEN None ELSE client[by_name[n].slot].conn)
  BY NameFacts
<1> QED
  BY <1>1 DEF ConnAt

LEMMA PartnerFacts ==
  ASSUME CRelayInv
  PROVE  \A c \in Conn : \/ Of(c).partner = -1
                         \/ Of(c).partner \in Slot /\ Live(Of(c).partner)
<1>1. Blank.partner = -1
  BY DEF Blank
<1>2. ASSUME NEW t \in Slot, Live(t)
      PROVE  \/ client[t].partner = -1
             \/ client[t].partner \in Slot /\ Live(client[t].partner)
  BY <1>2 DEF CRelayInv, Matches, Slots, Field
<1> QED
  BY <1>1, <1>2, OfFacts

LEMMA SamePartner ==
  ASSUME CRelayInv, \A t \in Slot : Live(t) => client'[t].conn = client[t].conn,
         \A c \in Conn : Of(c)'.partner = Of(c).partner
  PROVE  [c \in Conn |-> ConnAt(Of(c).partner)]' = [c \in Conn |-> ConnAt(Of(c).partner)]
<1>1. ASSUME NEW c \in Conn
      PROVE  (IF Of(c)'.partner = -1 THEN None ELSE client'[Of(c)'.partner].conn)
             = (IF Of(c).partner = -1 THEN None ELSE client[Of(c).partner].conn)
  BY PartnerFacts
<1> QED
  BY <1>1 DEF ConnAt

LEMMA Stutter ==
  ASSUME CRelayInv, CRelayInv', Settled, \A t \in Slot : Live(t) => client'[t] = client[t],
         UNCHANGED <<by_name, bad, told, heard>>
  PROVE  UNCHANGED Python!vars
<1>1. \A c \in Conn : Of(c)' = Of(c)
  BY Seen
<1>2. UNCHANGED Python!logVars
  BY <1>1 DEF Python!logVars
<1>3. UNCHANGED Python!connVars
  BY <1>1, Seen, SameHolder DEF Python!connVars, Settled
<1>4. UNCHANGED Python!pairVars
  BY <1>1, SamePartner DEF Python!pairVars, Settled
<1>5. UNCHANGED <<[c \in Conn |-> Of(c).tx], heard>>
  BY <1>1
<1> QED
  BY <1>2, <1>3, <1>4, <1>5 DEF Python!vars

LEMMA RoomHolds == CRelayInv /\ Room => Python!Room
<1> SUFFICES ASSUME CRelayInv, Room PROVE Python!Room
  OBVIOUS
<1>1. Len(Blank.tx) = 0 /\ 0 <= MaxTx
  BY CRelayAssumption DEF Blank
<1> QED
  BY <1>1, OfFacts DEF Python!Room, Room

\* A step that changes the backlog of one slot.
LEMMA TxSeen ==
  ASSUME CRelayInv, CRelayInv', NEW s \in Slot, Live(s), NEW v,
         client' = [client EXCEPT ![s].tx = v], UNCHANGED <<order, by_name, bad, told>>
  PROVE  /\ client[s].conn \in Python!Live /\ client[s].conn \in Conn
         /\ Of(client[s].conn) = client[s]
         /\ UNCHANGED <<Python!logVars, Python!connVars, Python!pairVars>>
         /\ [d \in Conn |-> Of(d).tx]' = [[d \in Conn |-> Of(d).tx] EXCEPT ![client[s].conn] = v]
<1> DEFINE c == client[s].conn
<1>1. \A t \in Slot : Field(client[t])
  BY DEF CRelayInv, Slots
<1>2. /\ \A t \in Slot : t # s => client'[t] = client[t]
      /\ client'[s] = [client[s] EXCEPT !.tx = v]
  BY DEF CRelayInv, Slots
<1>3. /\ client'[s].tx = v
      /\ client'[s].in_use = client[s].in_use /\ client'[s].dead = client[s].dead
      /\ client'[s].conn = client[s].conn
      /\ client'[s].name = client[s].name /\ client'[s].partner = client[s].partner
      /\ client'[s].role = client[s].role /\ client'[s].crc = client[s].crc
      /\ client'[s].lap = client[s].lap /\ client'[s].last = client[s].last
  <2> DEFINE m == [client[s] EXCEPT !.tx = v]
  <2>1. /\ m.tx = v
        /\ m.in_use = client[s].in_use /\ m.dead = client[s].dead /\ m.conn = client[s].conn
        /\ m.name = client[s].name /\ m.partner = client[s].partner
        /\ m.role = client[s].role /\ m.crc = client[s].crc
        /\ m.lap = client[s].lap /\ m.last = client[s].last
    <3>1. Field(client[s])
      BY <1>1
    <3> QED
      BY ONLY <3>1, TxField
  <2>2. client'[s] = m
    BY <1>2
  <2> HIDE DEF m
  <2> QED
    BY <2>1, <2>2
<1>4. Settled
  BY <1>2, <1>3 DEF Settled, Live
<1>5. /\ c \in Conn /\ Of(c) = client[s]
      /\ \A d \in Conn : Of(d)' = IF d = c THEN client'[s] ELSE Of(d)
  BY <1>2, <1>4, SeenOne
<1>6. UNCHANGED Python!logVars
  BY <1>3, <1>5 DEF Python!logVars
<1>7. UNCHANGED Python!connVars
  <2>1. [d \in Conn |-> Of(d).name]' = [d \in Conn |-> Of(d).name]
    BY <1>3, <1>5
  <2> QED
    BY <1>4, <2>1, Seen, SameHolder DEF Python!connVars, Settled
<1>8. UNCHANGED Python!pairVars
  <2>1. /\ \A d \in Conn : Of(d)'.partner = Of(d).partner
        /\ [d \in Conn |-> Of(d).role]' = [d \in Conn |-> Of(d).role]
    BY <1>3, <1>5
  <2> QED
    BY <1>4, <2>1, SamePartner DEF Python!pairVars, Settled
<1>9. [d \in Conn |-> Of(d).tx]' = [[d \in Conn |-> Of(d).tx] EXCEPT ![c] = v]
  BY <1>3, <1>5
<1> QED
  BY <1>5, <1>6, <1>7, <1>8, <1>9, LiveFacts

LEMMA QueryMaps ==
  ASSUME CRelayInv, CRelayInv', NEW s \in Slot, Live(s), NEW c \in Conn, c = client[s].conn,
         Query(s)
  PROVE  Python!Query(c)
<1> DEFINE v == Append(client[s].tx, Python!REPLY)
<1>1. /\ heard[c] = "lobby" /\ Room /\ UNCHANGED <<order, by_name, bad, told, heard>>
      /\ client' = [client EXCEPT ![s].tx = v]
  BY DEF Query
<1> HIDE DEF v
<1>2. /\ c \in Python!Live /\ c \in Conn /\ Of(c) = client[s]
      /\ UNCHANGED <<Python!logVars, Python!connVars, Python!pairVars>>
      /\ [d \in Conn |-> Of(d).tx]' = [[d \in Conn |-> Of(d).tx] EXCEPT ![c] = v]
  BY <1>1, TxSeen
<1>3. Python!Room
  BY <1>1, RoomHolds
<1>4. [d \in Conn |-> Of(d).tx]' = [[d \in Conn |-> Of(d).tx] EXCEPT ![c] = Append(@, Python!REPLY)]
  BY <1>2 DEF v
<1> QED
  BY <1>1, <1>2, <1>3, <1>4 DEF Python!Query

\* The part of flush that drops nobody.
Sent(s, k) ==
  LET rest == SubSeq(client[s].tx, k + 1, Len(client[s].tx)) IN
  /\ k <= Len(client[s].tx) /\ Len(rest) <= MaxTx
  /\ client' = [client EXCEPT ![s].tx = rest]
  /\ heard' = [heard EXCEPT ![client[s].conn] = Python!Heard(@, SubSeq(client[s].tx, 1, k))]
  /\ UNCHANGED <<order, by_name, bad, told>>

LEMMA SentMaps ==
  ASSUME CRelayInv, CRelayInv', NEW s \in Slot, Live(s), NEW c \in Conn, c = client[s].conn,
         NEW k, client[s].tx # <<>>, Sent(s, k)
  PROVE  Python!Flush(c, k)
<1> DEFINE rest == SubSeq(client[s].tx, k + 1, Len(client[s].tx))
           read == SubSeq(client[s].tx, 1, k)
<1>1. /\ k <= Len(client[s].tx) /\ Len(rest) <= MaxTx
      /\ UNCHANGED <<order, by_name, bad, told>>
      /\ client' = [client EXCEPT ![s].tx = rest]
      /\ heard' = [heard EXCEPT ![c] = Python!Heard(@, read)]
  BY DEF Sent
<1> HIDE DEF rest
<1>2. /\ c \in Python!Live /\ c \in Conn /\ Of(c) = client[s]
      /\ UNCHANGED <<Python!logVars, Python!connVars, Python!pairVars>>
      /\ [d \in Conn |-> Of(d).tx]' = [[d \in Conn |-> Of(d).tx] EXCEPT ![c] = rest]
  BY <1>1, TxSeen
<1>3. [d \in Conn |-> Of(d).tx][c] = client[s].tx
  BY <1>2
<1> QED
  BY <1>1, <1>2, <1>3 DEF Python!Flush, rest

\* What a drop does to a slot that is not the dropped one.
LEMMA DropOther ==
  ASSUME CRelayInv, NEW s \in Slot, Live(s), client' = Dropped(s), NEW t \in Slot, t # s
  PROVE  /\ client'[t].role = client[t].role /\ client'[t].crc = client[t].crc
         /\ client'[t].lap = client[t].lap /\ client'[t].last = client[t].last
         /\ client'[t].tx = IF t = client[s].partner THEN Append(client[t].tx, Python!LEFT)
                            ELSE client[t].tx
<1>1. client'[t] = IF t = client[s].partner
                   THEN [client[t] EXCEPT !.partner = -1, !.tx = Append(@, Python!LEFT)]
                   ELSE client[t]
  BY DropSlots
<1>2. CASE t = client[s].partner
  <2> DEFINE m == [client[t] EXCEPT !.partner = -1]
             n == [m EXCEPT !.tx = Append(client[t].tx, Python!LEFT)]
  <2>1. client'[t] = n
    <3>1. client'[t] = [client[t] EXCEPT !.partner = -1, !.tx = Append(client[t].tx, Python!LEFT)]
      BY <1>1, <1>2, Zenon
    <3> QED
      BY <3>1, Zenon
  <2>2. Field(client[t])
    BY DEF CRelayInv, Slots
  <2>3. /\ Field(m) /\ m.role = client[t].role /\ m.crc = client[t].crc
        /\ m.lap = client[t].lap /\ m.last = client[t].last
    BY <2>2, PartnerField
  <2> HIDE DEF m
  <2>4. /\ n.tx = Append(client[t].tx, Python!LEFT) /\ n.role = m.role /\ n.crc = m.crc
        /\ n.lap = m.lap /\ n.last = m.last
    BY <2>3, TxField
  <2> HIDE DEF n
  <2> QED
    BY <1>2, <2>1, <2>3, <2>4
<1>3. CASE t # client[s].partner
  BY <1>1, <1>3
<1> QED
  BY <1>2, <1>3

\* Of each connection, after a drop.
LEMMA DropSeen ==
  ASSUME CRelayInv, CRelayInv', NEW s \in Slot, Live(s), client' = Dropped(s)
  PROVE  /\ client[s].conn \in Conn /\ Of(client[s].conn) = client[s]
         /\ Of(client[s].conn) = client[s]
         /\ \A c \in Conn :
              \/ c = client[s].conn /\ Of(c)' = Blank
              \/ c # client[s].conn /\ Of(c) = Blank /\ Of(c)' = Blank
              \/ \E t \in Slot : /\ t # s /\ Live(t) /\ client[t].conn = c /\ c # client[s].conn
                                 /\ Of(c) = client[t] /\ Of(c)' = client'[t]
<1>1. \A t \in Slot : (Live(t)' <=> (Live(t) /\ t # s)) /\ client'[t].conn = client[t].conn
  BY DropSlots
<1>2. client[s].conn \in Conn /\ Of(client[s].conn) = client[s]
  BY OfFacts
<1>3. ASSUME NEW c \in Conn, c = client[s].conn PROVE Of(c)' = Blank
  <2>1. \A t \in Slot : Live(t)' => client'[t].conn # c
    BY <1>1, <1>3 DEF CRelayInv, Owners
  <2> QED
    BY <2>1, NextSound
<1>4. ASSUME NEW c \in Conn, c # client[s].conn, NEW t \in Slot, Live(t), client[t].conn = c
      PROVE  t # s /\ Of(c) = client[t] /\ Of(c)' = client'[t]
  BY <1>1, <1>4, NextSound, OfFacts
<1>5. ASSUME NEW c \in Conn, \A t \in Slot : Live(t) => client[t].conn # c
      PROVE  Of(c) = Blank /\ Of(c)' = Blank
  BY <1>1, <1>5, NextSound, OfFacts
<1> QED
  BY <1>2, <1>3, <1>4, <1>5

\* The list of connections is the list of slots, and loses the same one.
LEMMA CutMaps ==
  ASSUME CRelayInv, NEW s \in Slot, Live(s), NEW c \in Conn, c = client[s].conn,
         order' = Python!Cut(order, Place(s)),
         \A t \in Slot : client'[t].conn = client[t].conn
  PROVE  [i \in DOMAIN order |-> client[order[i]].conn]'
           = LET m == [i \in DOMAIN order |-> client[order[i]].conn]
             IN  Python!Cut(m, CHOOSE i \in DOMAIN m : m[i] = c)
<1> DEFINE m == [i \in DOMAIN order |-> client[order[i]].conn]
           n == Len(order)
           b == Place(s)
<1>1. /\ n \in Nat /\ DOMAIN order = 1..n /\ order \in Seq(Slot)
      /\ \A i \in 1..n : order[i] \in Slot /\ Live(order[i])
  BY OrderFacts
<1>2. b \in 1..n /\ order[b] = s
  BY PlaceType DEF CRelayInv
<1>3. m \in Seq(Conn) /\ Len(m) = n /\ DOMAIN m = 1..n /\ \A i \in 1..n : m[i] = client[order[i]].conn
  BY <1>1 DEF CRelayInv, Owners
<1>4. \A i \in 1..n : m[i] = c <=> i = b
  BY <1>1, <1>2, <1>3, OrderFacts DEF CRelayInv, Owners
<1>5. (CHOOSE i \in DOMAIN m : m[i] = c) = b
  BY <1>2, <1>3, <1>4
<1> HIDE DEF m, n, b
<1>6. /\ DOMAIN order' = 1..(n - 1)
      /\ \A j \in 1..(n - 1) : order'[j] = IF j < b THEN order[j] ELSE order[j + 1]
  BY <1>1, <1>2, CutProperties DEF n, b
<1>7. /\ Python!Cut(m, b) \in Seq(Conn) /\ Len(Python!Cut(m, b)) = n - 1
      /\ DOMAIN Python!Cut(m, b) = 1..(n - 1)
      /\ \A j \in 1..(n - 1) : Python!Cut(m, b)[j] = IF j < b THEN m[j] ELSE m[j + 1]
  BY <1>2, <1>3, CutProperties
<1>8. \A j \in 1..(n - 1) : j \in 1..n /\ j + 1 \in 1..n
  BY <1>1
<1>9. ASSUME NEW j \in 1..(n - 1) PROVE client'[order'[j]].conn = Python!Cut(m, b)[j]
  BY <1>1, <1>3, <1>6, <1>7, <1>8
<1>10. Python!Cut(m, b) = [j \in 1..(n - 1) |-> Python!Cut(m, b)[j]]
  BY <1>7
<1>11. [j \in DOMAIN order' |-> client'[order'[j]].conn] = Python!Cut(m, b)
  BY <1>6, <1>9, <1>10
<1> QED
  BY <1>5, <1>11 DEF m

LEMMA SameCardinality == \A S : Python!Cardinality(S) = Cardinality(S)
BY Zenon DEF Python!Cardinality, Cardinality, Python!IsFiniteSet, IsFiniteSet

LEMMA TakenMaps ==
  CRelayInv => Taken(by_name) = Python!Taken([n \in Names |-> ConnAt(by_name[n].slot)])
<1> SUFFICES ASSUME CRelayInv
             PROVE  Taken(by_name) = Python!Taken([n \in Names |-> ConnAt(by_name[n].slot)])
  OBVIOUS
<1>1. ASSUME NEW n \in Names PROVE by_name[n].slot # -1 <=> ConnAt(by_name[n].slot) # None
  BY NameFacts, ConnFacts, SlotFacts
<1> QED
  BY <1>1 DEF Taken, Python!Taken

LEMMA ToldMaps ==
  ASSUME CRelayInv', told' = Cardinality(Taken(by_name'))
  PROVE  told' = Python!Cardinality(Python!Taken([n \in Names |-> ConnAt(by_name[n].slot)]'))
<1>1. CRelayInv' => (Taken(by_name) = Python!Taken([n \in Names |-> ConnAt(by_name[n].slot)]))'
  BY TakenMaps, PTL
<1>2. Taken(by_name') = Python!Taken([n \in Names |-> ConnAt(by_name[n].slot)]')
  BY <1>1
<1> QED
  BY <1>2, SameCardinality

LEMMA FreedMaps ==
  ASSUME CRelayInv, NEW s \in Slot, Live(s), NEW c \in Conn, c = client[s].conn,
         by_name' = NameDeleted(s),
         \A t \in Slot : client'[t].conn = client[t].conn
  PROVE  [n \in Names |-> ConnAt(by_name[n].slot)]' = Python!Freed(c)
<1> DEFINE h == [n \in Names |-> ConnAt(by_name[n].slot)]
<1>1. c \in Conn /\ Of(c) = client[s]
  BY OfFacts
<1>2. Python!Freed(c) = [n \in Names |-> IF n = Of(c).name /\ h[n] = c THEN None ELSE h[n]]
  BY <1>1 DEF Python!Freed
<1>3. ASSUME NEW n \in Names
      PROVE  (IF by_name'[n].slot = -1 THEN None ELSE client'[by_name'[n].slot].conn)
             = (IF n = Of(c).name /\ h[n] = c THEN None ELSE h[n])
  <2>1. h[n] = IF by_name[n].slot = -1 THEN None ELSE client[by_name[n].slot].conn
    BY DEF ConnAt
  <2>2. by_name'[n] = IF n = client[s].name /\ by_name[n] = [slot |-> s, gen |-> client[s].gen]
                      THEN NoName ELSE by_name[n]
    BY DEF NameDeleted
  <2>3. NoName.slot = -1 /\ c # None
    BY <1>1, CRelayAssumption DEF NoName
  <2> HIDE DEF h
  <2>4. CASE by_name[n].slot = -1
    BY <2>1, <2>2, <2>3, <2>4
  <2>5. CASE by_name[n].slot # -1
    <3>1. by_name[n] # NoName
      BY <2>3, <2>5
    <3> PICK t \in Slot : /\ by_name[n] = [slot |-> t, gen |-> client[t].gen]
                          /\ Live(t) /\ client[t].name = n
      BY <3>1 DEF CRelayInv, Roster
    <3>2. by_name[n].slot = t
      OBVIOUS
    <3>3. h[n] = client[t].conn
      BY <2>1, <2>5, <3>2
    <3>4. client[t].conn = c <=> t = s
      BY DEF CRelayInv, Owners
    <3>5. CASE t = s
      BY <1>1, <2>2, <2>3, <3>3, <3>5
    <3>6. CASE t # s
      <4>1. by_name[n] # [slot |-> s, gen |-> client[s].gen]
        BY <3>2, <3>6
      <4>2. by_name'[n] = by_name[n]
        BY <2>2, <4>1
      <4> QED
        BY <2>5, <3>2, <3>3, <3>4, <3>6, <4>2
    <3> QED
      BY <3>5, <3>6
  <2> QED
    BY <2>4, <2>5
<1> QED
  BY <1>2, <1>3 DEF ConnAt

LEMMA ReleasedMaps ==
  ASSUME CRelayInv, CRelayInv', NEW s \in Slot, Live(s), NEW c \in Conn, c = client[s].conn,
         client' = Dropped(s)
  PROVE  [d \in Conn |-> ConnAt(Of(d).partner)]' = Python!Released(c)
<1> DEFINE p == client[s].partner
           old == [d \in Conn |-> ConnAt(Of(d).partner)]
<1>1. c \in Conn /\ Of(c) = client[s]
  BY DropSeen
<1>2. Blank.partner = -1
  BY DEF Blank
<1>3. \A t \in Slot : t # s => client'[t].partner = IF t = p THEN -1 ELSE client[t].partner
  BY DropSlots
<1>4. \A t \in Slot : client'[t].conn = client[t].conn
  BY DropSlots
<1>5. \A t \in Slot : client[t].partner = -1 \/ client[t].partner \in Slot
  BY DEF CRelayInv, Slots, Field
<1>6. Python!Released(c) = [q \in Conn |-> IF q \in {c, old[c]} THEN None ELSE old[q]]
  BY DEF Python!Released
<1>7. ASSUME NEW q \in Conn
      PROVE  (IF Of(q)'.partner = -1 THEN None ELSE client'[Of(q)'.partner].conn)
             = (IF q \in {c, old[c]} THEN None ELSE old[q])
  <2>1. /\ old[c] = IF p = -1 THEN None ELSE client[p].conn
        /\ old[q] = IF Of(q).partner = -1 THEN None ELSE client[Of(q).partner].conn
    BY <1>1 DEF ConnAt
  <2> HIDE DEF old
  <2>2. CASE q = c
    BY <1>2, <2>2, DropSeen
  <2>3. CASE q # c /\ Of(q) = Blank /\ Of(q)' = Blank
    BY <1>2, <2>1, <2>3
  <2>4. ASSUME NEW t \in Slot, t # s, Live(t), client[t].conn = q, q # c,
               Of(q) = client[t], Of(q)' = client'[t]
        PROVE  (IF Of(q)'.partner = -1 THEN None ELSE client'[Of(q)'.partner].conn)
               = (IF q \in {c, old[c]} THEN None ELSE old[q])
    <3>1. old[c] = q <=> t = p
      <4>1. CASE p = -1
        BY <2>1, <4>1, SlotFacts, CRelayAssumption
      <4>2. CASE p # -1
        <5>1. p \in Slot /\ Live(p)
          BY <1>5, <4>2 DEF CRelayInv, Matches
        <5> QED
          BY <2>1, <2>4, <4>2, <5>1 DEF CRelayInv, Owners
      <4> QED
        BY <4>1, <4>2
    <3>2. CASE t = p
      BY <1>3, <2>4, <3>1, <3>2
    <3>3. CASE t # p
      BY <1>3, <1>4, <1>5, <2>1, <2>4, <3>1, <3>3
    <3> QED
      BY <3>2, <3>3
  <2> QED
    BY <2>2, <2>3, <2>4, DropSeen
<1> QED
  BY <1>6, <1>7 DEF ConnAt

LEMMA DropMaps ==
  ASSUME CRelayInv, CRelayInv', NEW s \in Slot, Live(s), NEW c \in Conn, c = client[s].conn,
         Drop(s)
  PROVE  c \in Python!Live /\ Python!Drop(c)
<1> DEFINE p == client[s].partner
           conns == [i \in DOMAIN order |-> client[order[i]].conn]
           h == [n \in Names |-> ConnAt(by_name[n].slot)]
           q == [d \in Conn |-> ConnAt(Of(d).partner)]
<1>1. /\ client' = Dropped(s) /\ by_name' = NameDeleted(s)
      /\ order' = Python!Cut(order, Place(s))
      /\ told' = Cardinality(Taken(by_name'))
      /\ heard' = [heard EXCEPT ![c] = "lobby"] /\ bad' = bad
  BY DEF Drop
<1>2. \A t \in Slot : client'[t].conn = client[t].conn /\ client'[t].name = client[t].name
  BY <1>1, DropSlots
<1>3. conns' = Python!Cut(conns, Python!Born(c))
  BY <1>1, <1>2, CutMaps DEF Python!Born
<1>4. h' = Python!Freed(c)
  BY <1>1, <1>2, FreedMaps
<1>5. q' = Python!Released(c)
  BY <1>1, ReleasedMaps
<1>6. told' = Python!Cardinality(Python!Taken(h'))
  BY <1>1, ToldMaps
<1>7. /\ c \in Conn /\ Of(c) = client[s] /\ c \in Python!Live
      /\ \A d \in Conn :
           \/ d = c /\ Of(d)' = Blank
           \/ d # c /\ Of(d) = Blank /\ Of(d)' = Blank
           \/ \E t \in Slot : /\ t # s /\ Live(t) /\ client[t].conn = d /\ d # c
                              /\ Of(d) = client[t] /\ Of(d)' = client'[t]
  BY <1>1, DropSeen, LiveFacts
<1>8. \A t \in Slot : t # s =>
        /\ client'[t].role = client[t].role /\ client'[t].crc = client[t].crc
        /\ client'[t].lap = client[t].lap /\ client'[t].last = client[t].last
        /\ client'[t].tx = IF t = p THEN Append(client[t].tx, Python!LEFT) ELSE client[t].tx
  BY <1>1, DropOther
<1>9. /\ Blank.name = None /\ Blank.role = None /\ Blank.crc = <<>> /\ Blank.lap = 0
      /\ Blank.last = -1 /\ Blank.tx = <<>>
  BY DEF Blank
<1>10. \A d \in Conn : /\ Of(d)'.name = IF d = c THEN None ELSE Of(d).name
                       /\ Of(d)'.role = IF d = c THEN None ELSE Of(d).role
                       /\ Of(d)'.crc = IF d = c THEN <<>> ELSE Of(d).crc
                       /\ Of(d)'.lap = IF d = c THEN 0 ELSE Of(d).lap
                       /\ Of(d)'.last = IF d = c THEN -1 ELSE Of(d).last
  BY <1>2, <1>7, <1>8, <1>9
<1>11. q[c] = ConnAt(p)
  BY <1>7
<1>12. ASSUME NEW d \in Conn
       PROVE  Of(d)'.tx = IF d = c THEN <<>>
                          ELSE IF d = q[c] THEN Append(Of(d).tx, Python!LEFT) ELSE Of(d).tx
  <2> HIDE DEF q
  <2>1. CASE d = c
    BY <1>7, <1>9, <2>1
  <2>2. p = -1 \/ (p \in Slot /\ Live(p) /\ p # s)
    BY DEF CRelayInv, Matches, Slots, Field
  <2>3. CASE d # c /\ Of(d) = Blank /\ Of(d)' = Blank
    <3>1. d # q[c]
      <4>1. CASE p = -1
        BY <1>11, <4>1, ConnFacts, CRelayAssumption
      <4>2. CASE p \in Slot /\ Live(p) /\ p # s
        <5>1. q[c] = client[p].conn
          BY <1>11, <4>2, ConnFacts
        <5>2. Of(client[p].conn) = client[p] /\ client[p].in_use
          BY <4>2, OfFacts DEF Live
        <5>3. ~Blank.in_use
          BY DEF Blank
        <5> QED
          BY <2>3, <5>1, <5>2, <5>3
      <4> QED
        BY <2>2, <4>1, <4>2
    <3> QED
      BY <2>3, <3>1
  <2>4. ASSUME NEW t \in Slot, t # s, Live(t), client[t].conn = d, d # c,
               Of(d) = client[t], Of(d)' = client'[t]
        PROVE  Of(d)'.tx = IF d = c THEN <<>>
                           ELSE IF d = q[c] THEN Append(Of(d).tx, Python!LEFT) ELSE Of(d).tx
    <3>1. d = q[c] <=> t = p
      <4>1. CASE p = -1
        BY <1>11, <4>1, ConnFacts, CRelayAssumption, SlotFacts
      <4>2. CASE p \in Slot /\ Live(p) /\ p # s
        <5>1. q[c] = client[p].conn
          BY <1>11, <4>2, ConnFacts
        <5> QED
          BY <2>4, <4>2, <5>1 DEF CRelayInv, Owners
      <4> QED
        BY <2>2, <4>1, <4>2
    <3> QED
      BY <1>8, <2>4, <3>1
  <2> QED
    BY <1>7, <2>1, <2>3, <2>4
<1>13. [d \in Conn |-> Of(d).tx]' =
         [d \in Conn |-> IF d = c THEN <<>>
                         ELSE IF d = q[c] THEN Append([e \in Conn |-> Of(e).tx][d], Python!LEFT)
                              ELSE [e \in Conn |-> Of(e).tx][d]]
  <2> HIDE DEF q
  <2> QED
    BY <1>12
<1>14. /\ [d \in Conn |-> Of(d).name]' = [[d \in Conn |-> Of(d).name] EXCEPT ![c] = None]
       /\ [d \in Conn |-> Of(d).role]' = [[d \in Conn |-> Of(d).role] EXCEPT ![c] = None]
       /\ [d \in Conn |-> Of(d).crc]' = [[d \in Conn |-> Of(d).crc] EXCEPT ![c] = <<>>]
       /\ [d \in Conn |-> Of(d).lap]' = [[d \in Conn |-> Of(d).lap] EXCEPT ![c] = 0]
       /\ [d \in Conn |-> Of(d).last]' = [[d \in Conn |-> Of(d).last] EXCEPT ![c] = -1]
  BY <1>10
<1> QED
  BY <1>1, <1>3, <1>4, <1>5, <1>6, <1>7, <1>13, <1>14, Zenon DEF Python!Drop

LEMMA FlushMaps ==
  ASSUME CRelayInv, CRelayInv', NEW s \in Slot, Live(s), NEW c \in Conn, c = client[s].conn,
         NEW k, client[s].tx # <<>>, Flush(s, k)
  PROVE  Python!Flush(c, k)
<1> DEFINE rest == SubSeq(client[s].tx, k + 1, Len(client[s].tx))
<1>1. CASE Drop(s) /\ (k = 0 \/ Len(rest) > MaxTx)
  <2>1. Drop(s) /\ k <= Len(client[s].tx)
    BY <1>1 DEF Flush
  <2>2. c \in Conn /\ c \in Python!Live /\ Python!Drop(c)
    BY <2>1, DropMaps
  <2>3. [d \in Conn |-> Of(d).tx][c] = client[s].tx
    BY <2>2, OfFacts
  <2> QED
    BY <1>1, <2>1, <2>2, <2>3 DEF Python!Flush
<1>2. CASE ~(Drop(s) /\ (k = 0 \/ Len(rest) > MaxTx))
  BY <1>2, SentMaps, OfFacts DEF Flush, Sent
<1> QED
  BY <1>1, <1>2

\* The connections of an address, by their places and by themselves.
LEMMA SameCount ==
  ASSUME CRelayInv, NEW a
  PROVE  Cardinality({i \in DOMAIN order : Addr(client[order[i]].conn) = a})
           = Python!Cardinality({d \in Python!Live : Addr(d) = a})
<1> DEFINE I == {i \in DOMAIN order : Addr(client[order[i]].conn) = a}
           D == {d \in Python!Live : Addr(d) = a}
           f == [i \in I |-> client[order[i]].conn]
<1>1. /\ Len(order) \in Nat /\ DOMAIN order = 1..Len(order)
      /\ \A i \in DOMAIN order : order[i] \in Slot /\ Live(order[i])
      /\ \A i, j \in DOMAIN order : order[i] = order[j] => i = j
  BY OrderFacts
<1>2. Python!Live = {client[order[i]].conn : i \in DOMAIN order}
  BY DEF Python!Live
<1>3. f \in Bijection(I, D)
  <2>1. f \in [I -> D]
    BY <1>2
  <2>2. \A d \in D : \E i \in I : f[i] = d
    BY <1>2
  <2>3. \A i, j \in I : f[i] = f[j] => i = j
    BY <1>1 DEF CRelayInv, Owners
  <2> QED
    BY <2>1, <2>2, <2>3 DEF Bijection, Injection, Surjection, IsInjective
<1>4. IsFiniteSet(I)
  <2>1. IsFiniteSet(1..Len(order))
    BY <1>1, FS_Interval
  <2>2. I \subseteq 1..Len(order)
    BY <1>1
  <2> QED
    BY <2>1, <2>2, FS_Subset
<1> HIDE DEF I, D, f
<1>5. Cardinality(I) = Cardinality(D)
  BY <1>3, <1>4, FS_Bijection DEF ExistsBijection
<1> QED
  BY <1>5, SameCardinality DEF I, D

LEMMA AcceptMaps ==
  ASSUME CRelayInv, CRelayInv', NEW c \in Conn, Accept(c)
  PROVE  Python!Accept(c)
<1> DEFINE m == [i \in DOMAIN order |-> client[order[i]].conn]
<1>1. PICK s \in Slot : /\ ~client[s].in_use
                        /\ client' = [client EXCEPT ![s] = Allocated(s, c)]
                        /\ order' = Append(order, s)
                        /\ \A t \in Slot : Live(t) => client[t].conn # c
  BY AcceptSlot
<1>2. /\ SlotOf(c) = -1 /\ Len(order) < MaxClients
      /\ Cardinality({i \in DOMAIN order : Addr(client[order[i]].conn) = Addr(c)}) < MaxPerAddr
      /\ UNCHANGED <<by_name, bad, told, heard>>
  BY DEF Accept
<1>3. /\ client'[s] = Allocated(s, c) /\ \A t \in Slot : t # s => client'[t] = client[t]
      /\ ~Live(s)
  BY <1>1 DEF CRelayInv, Slots, Live
<1>4. /\ client'[s].conn = c /\ client'[s].name = Blank.name /\ client'[s].partner = Blank.partner
      /\ client'[s].role = Blank.role /\ client'[s].tx = Blank.tx /\ client'[s].crc = Blank.crc
      /\ client'[s].lap = Blank.lap /\ client'[s].last = Blank.last /\ Live(s)'
  BY <1>3 DEF Allocated, Blank, Live
<1>5. \A t \in Slot : t # s => (Live(t)' <=> Live(t))
  BY <1>3 DEF Live
<1>6. Of(c) = Blank /\ Of(c)' = client'[s]
  BY <1>2, <1>4, NextSound, OfFacts, SlotFacts
<1>7. ASSUME NEW d \in Conn, d # c PROVE Of(d)' = Of(d)
  <2>1. CASE \A t \in Slot : Live(t) => client[t].conn # d
    <3>1. \A t \in Slot : Live(t)' => client'[t].conn # d
      BY <1>3, <1>4, <1>5, <1>7, <2>1
    <3> QED
      BY <2>1, <3>1, NextSound, OfFacts
  <2>2. ASSUME NEW t \in Slot, Live(t), client[t].conn = d PROVE Of(d)' = Of(d)
    <3>1. t # s /\ Live(t)' /\ client'[t] = client[t]
      BY <1>3, <1>5, <2>2
    <3> QED
      BY <2>2, <3>1, NextSound, OfFacts
  <2> QED
    BY <2>1, <2>2
<1>8. \A d \in Conn :
        /\ Of(d)'.name = Of(d).name /\ Of(d)'.partner = Of(d).partner
        /\ Of(d)'.role = Of(d).role /\ Of(d)'.tx = Of(d).tx /\ Of(d)'.crc = Of(d).crc
        /\ Of(d)'.lap = Of(d).lap /\ Of(d)'.last = Of(d).last
  BY <1>4, <1>6, <1>7
<1>9. \A t \in Slot : Live(t) => client'[t].conn = client[t].conn
  BY <1>3
<1>10. m \in Seq(Conn) /\ Len(m) = Len(order) /\ m' = Append(m, c)
  <2>1. /\ order \in Seq(Slot) /\ Len(order) \in Nat /\ DOMAIN order = 1..Len(order)
        /\ \A i \in 1..Len(order) : order[i] \in Slot /\ Live(order[i])
    BY OrderFacts
  <2>2. m \in Seq(Conn) /\ Len(m) = Len(order)
    BY <2>1 DEF CRelayInv, Owners
  <2>3. /\ DOMAIN order' = 1..(Len(order) + 1)
        /\ \A i \in 1..(Len(order) + 1) :
             order'[i] = IF i = Len(order) + 1 THEN s ELSE order[i]
    BY <1>1, <2>1
  <2>4. Append(m, c) = [i \in 1..(Len(order) + 1) |-> IF i = Len(order) + 1 THEN c ELSE m[i]]
    BY <2>2
  <2>5. \A i \in 1..(Len(order) + 1) :
          client'[order'[i]].conn = IF i = Len(order) + 1 THEN c ELSE m[i]
    BY <1>4, <1>9, <2>1, <2>3
  <2> QED
    BY <2>2, <2>3, <2>4, <2>5
<1>11. UNCHANGED <<Python!logVars, Python!pairVars>>
  BY <1>2, <1>8, <1>9, SamePartner DEF Python!logVars, Python!pairVars
<1>12. /\ [n \in Names |-> ConnAt(by_name[n].slot)]' = [n \in Names |-> ConnAt(by_name[n].slot)]
       /\ [d \in Conn |-> Of(d).name]' = [d \in Conn |-> Of(d).name]
       /\ [d \in Conn |-> Of(d).tx]' = [d \in Conn |-> Of(d).tx]
  BY <1>2, <1>8, <1>9, SameHolder
<1>13. c \notin Python!Live /\ Python!Cardinality({d \in Python!Live : Addr(d) = Addr(c)}) < MaxPerAddr
  BY <1>2, LiveFacts, SameCount
<1> QED
  BY <1>2, <1>10, <1>11, <1>12, <1>13 DEF Python!Accept

\* While it is within the array, a log is assigned to as a dict is.
LEMMA AssignMaps ==
  ASSUME NEW log, NEW key, NEW sum, LogSlots = CrcSlots \/ Len(log) < CrcSlots
  PROVE  Python!Assign(log, key, sum, LogSlots) = Python!Assign(log, key, sum, CrcSlots)
BY CRelayAssumption DEF Python!Assign

LEMMA InputMaps ==
  ASSUME CRelayInv, CRelayInv', bad \in BOOLEAN, NEW s \in Slot, Live(s), NEW c \in Conn, c = client[s].conn,
         LogSlots = CrcSlots \/ Len(client[s].crc) < CrcSlots, NEW rep, Input(s, rep)
  PROVE  Python!Input(c, rep)
<1> DEFINE p    == client[s].partner
           d    == ConnAt(p)
           l    == LapAfter(client[s], rep.tick)
           key  == l * WireTicks + rep.tick
           mine == Python!Assign(client[s].crc, key, rep.sum, LogSlots)
           hit  == p # -1 /\ Python!Holds(client[p].crc, key)
           fcrc == [e \in Conn |-> Of(e).crc]
           ftx  == [e \in Conn |-> Of(e).tx]
<1>1. /\ heard[c] # "lobby" /\ Room /\ UNCHANGED <<order, by_name, told, heard>>
      /\ bad' = (bad \/ (hit /\ Python!Sum(client[p].crc, key) # rep.sum))
  BY DEF Input
<1>2. Python!Assign(client[s].crc, key, rep.sum, CrcSlots) = mine
  BY AssignMaps
<1>3. /\ \A t \in Slot : SameSlot(t) /\ client'[t].role = client[t].role
      /\ \A t \in Slot : t # s /\ t # p => client'[t] = client[t]
      /\ client'[s].tx = client[s].tx /\ client'[s].lap = l /\ client'[s].last = rep.tick
      /\ client'[s].crc = IF hit THEN mine ELSE Python!Youngest(mine)
      /\ p \in Slot =>
           /\ p # s
           /\ client'[p].tx = Append(client[p].tx, Python!INPUT(c))
           /\ client'[p].lap = client[p].lap /\ client'[p].last = client[p].last
           /\ client'[p].crc = IF hit THEN Python!Without(client[p].crc, key) ELSE client[p].crc
  BY <1>2, InputFields
<1>4. Settled
  BY <1>1, <1>3 DEF Settled, SameSlot, Live
<1>5. c \in Conn /\ Of(c) = client[s] /\ c \in Python!Live
  BY OfFacts, LiveFacts
<1>6. p = -1 \/ (p \in Slot /\ Live(p) /\ p # s)
  BY DEF CRelayInv, Matches, Slots, Field
<1>7. \A e \in Conn :
        \/ /\ Of(e) = Blank /\ Of(e)' = Blank
           /\ \A t \in Slot : Live(t) => client[t].conn # e
        \/ \E t \in Slot : Live(t) /\ client[t].conn = e /\ Of(e) = client[t] /\ Of(e)' = client'[t]
  BY <1>4, Seen
<1>8. \A e \in Conn : /\ Of(e)'.name = Of(e).name /\ Of(e)'.partner = Of(e).partner
                      /\ Of(e)'.role = Of(e).role
  BY <1>3, <1>7 DEF SameSlot
<1>9. UNCHANGED Python!connVars
  <2>1. [e \in Conn |-> Of(e).name]' = [e \in Conn |-> Of(e).name]
    BY <1>8
  <2> QED
    BY <1>1, <1>4, <2>1, Seen, SameHolder DEF Python!connVars, Settled
<1>10. UNCHANGED Python!pairVars
  BY <1>4, <1>8, SamePartner DEF Python!pairVars, Settled
<1>11. Python!LapAfter(c, rep.tick) = l
  BY <1>5 DEF Python!LapAfter, LapAfter
<1>12. [e \in Conn |-> ConnAt(Of(e).partner)][c] = d
  BY <1>5
<1>13. p = -1 => d = None
  BY ConnFacts
<1>14. p # -1 => /\ d = client[p].conn /\ d \in Conn /\ d # None /\ d # c
                 /\ Of(d) = client[p]
  BY <1>6, ConnFacts, OfFacts, CRelayAssumption DEF CRelayInv, Owners
<1> HIDE DEF l, key, mine, hit, d
<1>15. \A e \in Conn :
         \/ e = c /\ Of(e)' = client'[s]
         \/ p # -1 /\ e = d /\ e # c /\ Of(e)' = client'[p]
         \/ e # c /\ (p # -1 => e # d) /\ Of(e)' = Of(e)
  <2>1. ASSUME NEW e \in Conn, \A t \in Slot : Live(t) => client[t].conn # e, Of(e)' = Of(e)
        PROVE  e # c /\ (p # -1 => e # d)
    BY <1>6, <1>14, <2>1
  <2>2. ASSUME NEW e \in Conn, NEW t \in Slot, Live(t), client[t].conn = e,
               Of(e) = client[t], Of(e)' = client'[t]
        PROVE  \/ e = c /\ Of(e)' = client'[s]
               \/ p # -1 /\ e = d /\ e # c /\ Of(e)' = client'[p]
               \/ e # c /\ (p # -1 => e # d) /\ Of(e)' = Of(e)
    <3>1. e = c <=> t = s
      BY <2>2 DEF CRelayInv, Owners
    <3>2. p # -1 => (e = d <=> t = p)
      BY <1>6, <1>14, <2>2 DEF CRelayInv, Owners
    <3>3. CASE t = s
      BY <2>2, <3>1, <3>3
    <3>4. CASE t = p
      BY <1>6, <1>14, <2>2, <3>1, <3>2, <3>4, SlotFacts
    <3>5. CASE t # s /\ t # p
      BY <1>3, <2>2, <3>1, <3>2, <3>5
    <3> QED
      BY <3>3, <3>4, <3>5
  <2> QED
    BY <1>7, <2>1, <2>2
<1>16. /\ [e \in Conn |-> Of(e).lap]' = [[e \in Conn |-> Of(e).lap] EXCEPT ![c] = l]
       /\ [e \in Conn |-> Of(e).last]' = [[e \in Conn |-> Of(e).last] EXCEPT ![c] = rep.tick]
  BY <1>3, <1>5, <1>6, <1>14, <1>15, ZenonT(40)
<1>17. ftx' = IF d = None THEN ftx ELSE [ftx EXCEPT ![d] = Append(@, Python!INPUT(c))]
  <2>1. CASE p = -1
    BY <1>3, <1>5, <1>13, <1>15, <2>1
  <2>2. CASE p # -1
    BY <1>3, <1>5, <1>6, <1>14, <1>15, <2>2
  <2> QED
    BY <2>1, <2>2
<1>18. fcrc[c] = client[s].crc /\ (p # -1 => fcrc[d] = client[p].crc)
  BY <1>5, <1>14
<1>19. hit <=> ~(d = None \/ ~Python!Holds(fcrc[d], key))
  <2> HIDE DEF fcrc
  <2> QED
    BY <1>13, <1>14, <1>18 DEF hit
<1>20. ~hit => fcrc' = [fcrc EXCEPT ![c] = Python!Youngest(mine)] /\ bad' = bad
  <2>1. ASSUME ~hit, NEW e \in Conn
        PROVE  Of(e)'.crc = IF e = c THEN Python!Youngest(mine) ELSE Of(e).crc
    BY <1>3, <1>6, <1>14, <1>15, <2>1
  <2> QED
    BY <1>1, <2>1
<1>21. hit => /\ fcrc' = [[fcrc EXCEPT ![c] = mine] EXCEPT ![d] = Python!Without(fcrc[d], key)]
              /\ bad' = (bad \/ Python!Sum(fcrc[d], key) # rep.sum)
  <2>1. hit => p # -1
    BY DEF hit
  <2>2. ASSUME hit, NEW e \in Conn
        PROVE  Of(e)'.crc = IF e = d THEN Python!Without(fcrc[d], key)
                            ELSE IF e = c THEN mine ELSE Of(e).crc
    <3> HIDE DEF fcrc
    <3> QED
      BY <1>3, <1>6, <1>14, <1>15, <1>18, <2>1, <2>2
  <2>3. hit => bad' = (bad \/ Python!Sum(fcrc[d], key) # rep.sum)
    <3> HIDE DEF fcrc
    <3> QED
      BY <1>1, <1>18, <2>1
  <2> QED
    BY <2>2, <2>3
<1>22. hit => fcrc' = [fcrc EXCEPT ![c] = mine, ![d] = Python!Without(@, key)]
  <2>1. hit => c # d /\ c \in Conn /\ d \in Conn
    BY <1>5, <1>14 DEF hit
  <2>2. hit => [[fcrc EXCEPT ![c] = mine] EXCEPT ![d] = Python!Without(@, key)]
               = [[fcrc EXCEPT ![c] = mine] EXCEPT ![d] = Python!Without(fcrc[d], key)]
    BY <2>1
  <2> QED
    BY <1>21, <2>2, Zenon
<1>23. Python!LogCrc(c, d, rep.tick, rep.sum, LogSlots)
  <2>1. /\ fcrc[c] = client[s].crc /\ key = Python!LapAfter(c, rep.tick) * WireTicks + rep.tick
        /\ mine = Python!Assign(fcrc[c], key, rep.sum, LogSlots)
    BY <1>11, <1>18 DEF key, mine
  <2> QED
    BY <1>11, <1>16, <1>19, <1>20, <1>21, <1>22, <2>1, Zenon DEF Python!LogCrc
<1>24. Python!Room
  BY <1>1, RoomHolds
<1> QED
  BY <1>1, <1>5, <1>9, <1>10, <1>12, <1>17, <1>23, <1>24, Zenon DEF Python!Input

\* The age of a connection is its place.
LEMMA BornFacts ==
  ASSUME CRelayInv, NEW i \in DOMAIN order
  PROVE  Python!Born(client[order[i]].conn) = i
<1> DEFINE m == [j \in DOMAIN order |-> client[order[j]].conn]
<1>1. \A j \in DOMAIN order : m[j] = client[order[i]].conn <=> j = i
  BY OrderFacts DEF CRelayInv, Owners
<1>2. (CHOOSE j \in DOMAIN m : m[j] = client[order[i]].conn) = i
  BY <1>1
<1> QED
  BY <1>2 DEF Python!Born

\* The names after the request are nm; whom it pairs.
LEMMA IdleMaps ==
  ASSUME CRelayInv, NEW s \in Slot, Live(s), NEW c \in Conn, c = client[s].conn,
         NEW cl, Renamed(s, cl), NEW nm,
         \A d \in Conn : d # c => nm[d] = Of(d).name
  PROVE  LET idle(t) == t # s /\ cl[t].name # None /\ cl[t].partner = -1
         IN  /\ \A i \in DOMAIN order : idle(order[i]) =>
                  client[order[i]].conn \in Python!Others(c, nm)
             /\ \A d \in Python!Others(c, nm) : \E i \in DOMAIN order :
                  idle(order[i]) /\ client[order[i]].conn = d
<1> DEFINE idle(t) == t # s /\ cl[t].name # None /\ cl[t].partner = -1
<1>1. Python!Others(c, nm) = {d \in Conn \ {c} : /\ d \in Python!Live /\ nm[d] # None
                                                 /\ ConnAt(Of(d).partner) = None}
  BY DEF Python!Others, Python!Idle
<1>2. ASSUME NEW i \in DOMAIN order, idle(order[i])
      PROVE  client[order[i]].conn \in Python!Others(c, nm)
  <2> PICK t \in Slot : t = order[i] /\ Live(t)
    BY OrderFacts
  <2>1. t # s /\ client[t].name # None /\ client[t].partner = -1
    BY <1>2 DEF Renamed
  <2> DEFINE d == client[t].conn
  <2>2. d \in Conn /\ d # c /\ Of(d) = client[t] /\ d \in Python!Live
    BY <2>1, OfFacts, LiveFacts DEF CRelayInv, Owners
  <2>3. nm[d] # None /\ ConnAt(Of(d).partner) = None
    BY <2>1, <2>2, ConnFacts
  <2> QED
    BY <1>1, <2>2, <2>3
<1>3. ASSUME NEW d \in Python!Others(c, nm)
      PROVE  \E i \in DOMAIN order : idle(order[i]) /\ client[order[i]].conn = d
  <2>1. d \in Conn /\ d # c /\ d \in Python!Live /\ nm[d] # None /\ ConnAt(Of(d).partner) = None
    BY <1>1
  <2> PICK t \in Slot : Live(t) /\ client[t].conn = d /\ Of(d) = client[t]
    BY <2>1, OfFacts, LiveFacts
  <2>2. t # s /\ client[t].name # None
    BY <2>1
  <2>3. client[t].partner = -1
    BY <2>1, PartnerFacts, ConnFacts
  <2>4. idle(t)
    BY <2>2, <2>3 DEF Renamed
  <2> PICK i \in DOMAIN order : order[i] = t
    BY OrderFacts
  <2> QED
    BY <2>4
<1> QED
  BY <1>2, <1>3

LEMMA ChosenMaps ==
  ASSUME CRelayInv, NEW s \in Slot, Live(s), NEW c \in Conn, c = client[s].conn,
         NEW cl, Renamed(s, cl), NEW nm,
         \A d \in Conn : d # c => nm[d] = Of(d).name
  PROVE  /\ Oldest(s, cl) = -1 => None \in Python!PartnerFor(c, nm)
         /\ \A o \in Slot : Oldest(s, cl) = o =>
              client[o].conn \in Python!PartnerFor(c, nm)
<1> DEFINE idle(t) == t # s /\ cl[t].name # None /\ cl[t].partner = -1
           S == Python!Others(c, nm)
<1>1. /\ \A i \in DOMAIN order : idle(order[i]) => client[order[i]].conn \in S
      /\ \A d \in S : \E i \in DOMAIN order : idle(order[i]) /\ client[order[i]].conn = d
  BY IdleMaps
<1>2. Python!PartnerFor(c, nm) =
        IF S = {} THEN {None}
        ELSE {d \in S : \A e \in S : Python!Born(d) <= Python!Born(e)}
  BY DEF Python!PartnerFor, Python!Oldest
<1> HIDE DEF S
<1>3. CASE Oldest(s, cl) = -1
  <2>1. \A i \in DOMAIN order : ~idle(order[i])
    BY <1>3, OldestFacts, SlotFacts DEF CRelayInv
  <2>2. S = {}
    BY <1>1, <2>1
  <2> QED
    BY <1>2, <1>3, <2>2, SlotFacts
<1>4. ASSUME NEW o \in Slot, Oldest(s, cl) = o
      PROVE  client[o].conn \in Python!PartnerFor(c, nm)
  <2> PICK i \in DOMAIN order : /\ order[i] = o /\ idle(order[i])
                                /\ \A j \in DOMAIN order : idle(order[j]) => i <= j
    BY <1>4, OldestFacts, SlotFacts DEF CRelayInv
  <2>1. client[o].conn \in S /\ Python!Born(client[o].conn) = i
    BY <1>1, BornFacts
  <2>2. ASSUME NEW e \in S PROVE i <= Python!Born(e)
    <3> PICK j \in DOMAIN order : idle(order[j]) /\ client[order[j]].conn = e
      BY <1>1
    <3>1. Python!Born(e) = j
      BY BornFacts
    <3> QED
      BY <3>1
  <2> QED
    BY <1>2, <2>1, <2>2
<1> QED
  BY <1>3, <1>4, SlotFacts

\* The two sides of a match, or nobody.
LEMMA PairMaps ==
  ASSUME CRelayInv, CRelayInv', NEW s \in Slot, Live(s), NEW c \in Conn, c = client[s].conn,
         NEW cl, Renamed(s, cl), TryPair(s, cl),
         UNCHANGED <<order, bad>>, client[s].partner = -1, NEW nm,
         nm = [d \in Conn |-> IF d = c THEN cl[s].name ELSE Of(d).name]
  PROVE  /\ c \in Conn /\ c \in Python!Live
         /\ Of(c) = client[s]
         /\ [d \in Conn |-> Of(d).name]' = nm
         /\ \A t \in Slot : client'[t].conn = client[t].conn
         /\ \E h \in Python!PartnerFor(c, nm) : Python!Pair(c, h)
<1>1. \A t \in Slot :
        /\ client'[t].in_use = client[t].in_use /\ client'[t].dead = client[t].dead
        /\ client'[t].gen = client[t].gen /\ client'[t].conn = client[t].conn
        /\ client'[t].name = cl[t].name
        /\ Live(t)' <=> Live(t)
  BY PairSlots
<1>2. Settled
  BY <1>1 DEF Settled
<1>3. c \in Conn /\ c \in Python!Live /\ Of(c) = client[s]
  BY OfFacts, LiveFacts
<1>4. \A d \in Conn : d # c => nm[d] = Of(d).name
  OBVIOUS
<1>5. [d \in Conn |-> Of(d).name]' = nm
  <2>1. ASSUME NEW d \in Conn PROVE Of(d)'.name = nm[d]
    <3>1. CASE Of(d) = Blank /\ Of(d)' = Blank /\ \A t \in Slot : Live(t) => client[t].conn # d
      BY <3>1
    <3>2. ASSUME NEW t \in Slot, Live(t), client[t].conn = d, Of(d) = client[t], Of(d)' = client'[t]
          PROVE  Of(d)'.name = nm[d]
      <4>1. t = s <=> d = c
        BY <3>2 DEF CRelayInv, Owners
      <4> QED
        BY <1>1, <3>2, <4>1 DEF Renamed
    <3> QED
      BY <1>2, <3>1, <3>2, Seen
  <2> QED
    BY <2>1
<1>6. CASE Oldest(s, cl) = -1 /\ client' = cl
  <2>1. None \in Python!PartnerFor(c, nm)
    BY <1>4, <1>6, ChosenMaps
  <2>2. ASSUME NEW d \in Conn
        PROVE  /\ Of(d)'.partner = Of(d).partner /\ Of(d)'.role = Of(d).role
               /\ Of(d)'.tx = Of(d).tx /\ Of(d)'.crc = Of(d).crc
               /\ Of(d)'.lap = Of(d).lap /\ Of(d)'.last = Of(d).last
    BY <1>2, <1>6, Seen DEF Renamed
  <2>3. UNCHANGED Python!logVars
    BY <2>2 DEF Python!logVars
  <2>4. UNCHANGED Python!pairVars
    BY <1>1, <2>2, SamePartner DEF Python!pairVars
  <2>5. UNCHANGED [d \in Conn |-> Of(d).tx]
    BY <2>2
  <2>6. Python!Pair(c, None)
    BY <2>3, <2>4, <2>5 DEF Python!Pair
  <2> QED
    BY <1>1, <1>3, <1>5, <2>1, <2>6
<1>7. ASSUME NEW o \in Slot, Oldest(s, cl) = o, o # s, Live(o), Room,
             client[o].name # None, client[o].partner = -1,
             client'[o] = Matched(client[o], s, 0), client'[s] = Matched(cl[s], o, 1),
             \A t \in Slot : t # s /\ t # o => client'[t] = client[t]
      PROVE  \E h \in Python!PartnerFor(c, nm) : Python!Pair(c, h)
  <2> DEFINE h == client[o].conn
             fp == [d \in Conn |-> ConnAt(Of(d).partner)]
             fr == [d \in Conn |-> Of(d).role]
             ft == [d \in Conn |-> Of(d).tx]
             fc == [d \in Conn |-> Of(d).crc]
  <2>1. h \in Python!PartnerFor(c, nm)
    BY <1>4, <1>7, ChosenMaps
  <2>2. /\ h \in Conn /\ Of(h) = client[o] /\ c # h /\ h # None
        /\ \A d \in Conn : Of(d)' = IF d = c THEN client'[s]
                                    ELSE IF d = h THEN client'[o] ELSE Of(d)
    BY <1>2, <1>7, SeenTwo, CRelayAssumption
  <2>3. /\ client'[o].partner = s /\ client'[o].role = 0 /\ client'[o].crc = <<>>
        /\ client'[o].tx = Append(client[o].tx, Python!START(c))
        /\ client'[o].lap = client[o].lap /\ client'[o].last = client[o].last
    BY <1>7, MatchedField DEF CRelayInv, Slots
  <2>4. /\ client'[s].partner = o /\ client'[s].role = 1 /\ client'[s].crc = <<>>
        /\ client'[s].tx = Append(client[s].tx, Python!START(h))
        /\ client'[s].lap = client[s].lap /\ client'[s].last = client[s].last
    BY <1>7, MatchedField DEF Renamed
  <2> HIDE DEF h
  <2>5. UNCHANGED <<[d \in Conn |-> Of(d).lap], [d \in Conn |-> Of(d).last]>>
    BY <1>3, <2>2, <2>3, <2>4
  <2>6. [d \in Conn |-> Of(d).crc]' = [d \in Conn |-> IF d \in {h, c} THEN <<>> ELSE fc[d]]
    BY <1>3, <2>2, <2>3, <2>4
  <2>7. fr' = [[fr EXCEPT ![h] = 0] EXCEPT ![c] = 1]
    BY <1>3, <2>2, <2>3, <2>4
  <2>8. ft' = [[ft EXCEPT ![h] = Append(ft[h], Python!START(c))]
                  EXCEPT ![c] = Append(ft[c], Python!START(h))]
    BY <1>3, <2>2, <2>3, <2>4
  <2>9. fp' = [[fp EXCEPT ![h] = c] EXCEPT ![c] = h]
    <3>1. ASSUME NEW d \in Conn
          PROVE  (IF Of(d)'.partner = -1 THEN None ELSE client'[Of(d)'.partner].conn)
                 = (IF d = c THEN h ELSE IF d = h THEN c ELSE fp[d])
      <4>1. CASE d = c
        BY <1>1, <1>7, <2>2, <2>4, <4>1, SlotFacts DEF h
      <4>2. CASE d = h
        BY <1>1, <2>2, <2>3, <4>2, SlotFacts
      <4>3. CASE d # c /\ d # h
        BY <1>1, <2>2, <4>3, PartnerFacts DEF ConnAt
      <4> QED
        BY <4>1, <4>2, <4>3
    <3> QED
      BY <1>3, <2>2, <3>1 DEF ConnAt
  <2>10. fp' = [fp EXCEPT ![h] = c, ![c] = h] /\ fr' = [fr EXCEPT ![h] = 0, ![c] = 1]
    BY <2>7, <2>9, Zenon
  <2>11. ft' = [ft EXCEPT ![h] = Append(@, Python!START(c)), ![c] = Append(@, Python!START(h))]
    <3>1. [[ft EXCEPT ![h] = Append(ft[h], Python!START(c))]
              EXCEPT ![c] = Append(@, Python!START(h))]
          = [[ft EXCEPT ![h] = Append(ft[h], Python!START(c))]
              EXCEPT ![c] = Append(ft[c], Python!START(h))]
      BY <1>3, <2>2
    <3> QED
      BY <2>8, <3>1, Zenon
  <2>12. Python!ClearLogs({h, c})
    BY <2>6 DEF Python!ClearLogs
  <2>13. Python!Room
    BY <1>7, RoomHolds
  <2>14. Python!Pair(c, h)
    BY <2>2, <2>5, <2>10, <2>11, <2>12, <2>13, Zenon DEF Python!Pair
  <2> QED
    BY <2>1, <2>14
<1>8. \E h \in Python!PartnerFor(c, nm) : Python!Pair(c, h)
  BY <1>6, <1>7, PairFacts
<1> QED
  BY <1>1, <1>3, <1>5, <1>8

LEMMA NamedMaps ==
  ASSUME CRelayInv, NEW n \in Asked
  PROVE  Named(n) = Python!Uniquified(n)
<1> DEFINE h == [m \in Names |-> ConnAt(by_name[m].slot)]
<1>1. \A m \in Names : h[m] = None <=> by_name[m].slot = -1
  BY NameFacts, ConnFacts, SlotFacts
<1>2. n \in Names /\ Variants(n) \subseteq Names
  BY CRelayAssumption
<1>3. Python!Uniquified(n) = IF h[n] = None THEN {n} ELSE {w \in Variants(n) : h[w] = None}
  BY DEF Python!Uniquified
<1> HIDE DEF h
<1>4. {w \in Variants(n) : h[w] = None} = {w \in Variants(n) : by_name[w].slot = -1}
  BY <1>1, <1>2
<1> QED
  BY <1>1, <1>2, <1>3, <1>4 DEF Named

LEMMA HelloMaps ==
  ASSUME CRelayInv, CRelayInv', NEW s \in Slot, Live(s), NEW c \in Conn, c = client[s].conn,
         NEW n \in Asked, NEW w \in Named(n),
         Hello(s, w), UNCHANGED loopVars
  PROVE  /\ w \in Python!Uniquified(n)
         /\ Python!Hello(c, w)
<1> DEFINE cl == [client EXCEPT ![s].name = w]
           h  == [m \in Names |-> ConnAt(by_name[m].slot)]
<1>1. /\ client[s].name = None /\ TryPair(s, cl) /\ UNCHANGED <<order, bad, heard>>
      /\ by_name' = [by_name EXCEPT ![w] = [slot |-> s, gen |-> client[s].gen]]
      /\ told' = Cardinality(Taken(by_name'))
  BY DEF Hello
<1>2. /\ w \in Names /\ client[s].partner = -1 /\ Renamed(s, cl) /\ cl[s].name = w
  BY HelloStep
<1> HIDE DEF cl
<1> PICK nm : nm = [d \in Conn |-> IF d = c THEN cl[s].name ELSE Of(d).name]
  OBVIOUS
<1>3. /\ c \in Conn /\ c \in Python!Live /\ Of(c) = client[s]
      /\ [d \in Conn |-> Of(d).name]' = nm
      /\ \A t \in Slot : client'[t].conn = client[t].conn
      /\ \E p \in Python!PartnerFor(c, nm) : Python!Pair(c, p)
  BY <1>1, <1>2, PairMaps
<1>4. Python!TryPair(c, [d \in Conn |-> Of(d).name]')
  BY <1>3, Zenon DEF Python!TryPair
<1>5. [d \in Conn |-> Of(d).name]' = [[d \in Conn |-> Of(d).name] EXCEPT ![c] = w]
  BY <1>2, <1>3
<1>6. h' = [h EXCEPT ![w] = c]
  <2>1. /\ by_name'[w] = [slot |-> s, gen |-> client[s].gen]
        /\ \A m \in Names : m # w => by_name'[m] = by_name[m]
    BY <1>1, <1>2 DEF CRelayInv, Roster
  <2>2. ASSUME NEW m \in Names
        PROVE  (IF by_name'[m].slot = -1 THEN None ELSE client'[by_name'[m].slot].conn)
               = (IF m = w THEN c ELSE h[m])
    <3>1. CASE m = w
      <4>1. by_name'[m].slot = s
        BY <2>1, <3>1
      <4> QED
        BY <1>3, <3>1, <4>1, SlotFacts
    <3>2. CASE m # w
      BY <1>3, <2>1, <3>2, NameFacts DEF ConnAt
    <3> QED
      BY <3>1, <3>2
  <2> QED
    BY <1>2, <2>2 DEF ConnAt
<1>7. told' = Python!Cardinality(Python!Taken(h'))
  BY <1>1, ToldMaps
<1>8. UNCHANGED [i \in DOMAIN order |-> client[order[i]].conn]
  BY <1>1, <1>3, OrderFacts
<1>9. [d \in Conn |-> Of(d).name][c] = None
  BY <1>1, <1>3
<1>10. w \in Python!Uniquified(n)
  BY NamedMaps
<1> QED
  BY <1>1, <1>3, <1>4, <1>5, <1>6, <1>7, <1>8, <1>9, <1>10, Zenon DEF Python!Hello

LEMMA JoinMaps ==
  ASSUME CRelayInv, CRelayInv', NEW s \in Slot, Live(s), NEW c \in Conn, c = client[s].conn,
         Join(s), UNCHANGED loopVars
  PROVE  Python!Join(c)
<1> PICK cl : cl = client
  OBVIOUS
<1> PICK nm : nm = [d \in Conn |-> IF d = c THEN cl[s].name ELSE Of(d).name]
  OBVIOUS
<1>1. /\ client[s].name # None /\ client[s].partner = -1 /\ TryPair(s, cl)
      /\ UNCHANGED <<order, by_name, bad, told, heard>>
  BY DEF Join
<1>2. Renamed(s, cl)
  BY JoinStep
<1>3. /\ c \in Conn /\ c \in Python!Live /\ Of(c) = client[s]
      /\ [d \in Conn |-> Of(d).name]' = nm
      /\ \A t \in Slot : client'[t].conn = client[t].conn
      /\ \E p \in Python!PartnerFor(c, nm) : Python!Pair(c, p)
  BY <1>1, <1>2, PairMaps
<1>4. nm = [d \in Conn |-> Of(d).name]
  BY <1>3
<1>5. Python!TryPair(c, [d \in Conn |-> Of(d).name])
  BY <1>3, <1>4, Zenon DEF Python!TryPair
<1>6. UNCHANGED Python!connVars
  <2>1. UNCHANGED [i \in DOMAIN order |-> client[order[i]].conn]
    BY <1>1, <1>3, OrderFacts
  <2>2. UNCHANGED [d \in Conn |-> Of(d).name]
    BY <1>3, <1>4
  <2> QED
    BY <1>1, <1>3, <2>1, <2>2, SameHolder DEF Python!connVars
<1>7. [d \in Conn |-> Of(d).name][c] # None /\ [d \in Conn |-> ConnAt(Of(d).partner)][c] = None
  BY <1>1, <1>3, ConnFacts
<1> QED
  BY <1>1, <1>3, <1>5, <1>6, <1>7, Zenon DEF Python!Join

-----------------------------------------------------------------------------
(* The loop, and the theorem *)

LEMMA EventNext ==
  ASSUME NEW c \in Conn, Python!Event(c)
  PROVE  Python!Next
BY DEF Python!Next

LEMMA FlushIsNext ==
  ASSUME NEW c \in Conn, NEW k \in 0..(MaxTx + 2), Python!Flush(c, k)
  PROVE  Python!Next
BY DEF Python!Next

LEMMA GoneNext ==
  ASSUME CRelayInv, CRelayInv', NEW s \in Slot, Live(s), Drop(s)
  PROVE  Python!Next
<1> PICK c \in Conn : c = client[s].conn
  BY OfFacts
<1>1. Python!Drop(c) /\ c \in Python!Live
  BY DropMaps
<1>2. Python!Event(c)
  BY <1>1, Zenon DEF Python!Event, Python!Gone
<1> QED
  BY <1>2, EventNext

LEMMA ServiceMaps ==
  ASSUME CRelayInv, CRelayInv', bad \in BOOLEAN, Comparable, NEW s \in Slot, Live(s), Service(s)
  PROVE  Python!Next
<1> PICK c \in Conn : c = client[s].conn
  BY OfFacts
<1>1. UNCHANGED loopVars /\ (LogSlots = CrcSlots \/ Len(client[s].crc) < CrcSlots)
  BY OfFacts DEF Service, Comparable, Fits
<1>2. CASE Drop(s)
  BY <1>2, GoneNext
<1>3. CASE Join(s)
  BY <1>1, <1>3, JoinMaps DEF Python!Next, Python!Event
<1>4. CASE Query(s)
  BY <1>1, <1>4, QueryMaps DEF Python!Next, Python!Event
<1>5. ASSUME NEW n \in Asked, NEW w \in Named(n), Hello(s, w) PROVE Python!Next
  BY <1>1, <1>5, HelloMaps DEF Python!Next, Python!Event
<1>6. ASSUME NEW rep \in Reports, Input(s, rep) PROVE Python!Next
  BY <1>1, <1>6, InputMaps DEF Python!Next, Python!Event
<1>7. ASSUME NEW k \in 1..(MaxTx + 2), Flush(s, k) PROVE Python!Next
  <2>1. client[s].tx # <<>> /\ k \in 0..(MaxTx + 2)
    BY <1>7, CRelayAssumption DEF Flush
  <2>2. Python!Flush(c, k)
    BY <1>7, <2>1, FlushMaps
  <2> QED
    BY <1>1, <2>1, <2>2, FlushIsNext
<1> QED
  BY <1>2, <1>3, <1>4, <1>5, <1>6, <1>7 DEF Service

LEMMA NextMaps ==
  ASSUME CRelayInv, CRelayInv', bad \in BOOLEAN, Comparable, [Next]_vars
  PROVE  [Python!Next]_(Python!vars)
<1>1. CASE Batch
  <2>1. ASSUME NEW c \in Conn, Accept(c) PROVE Python!Next
    BY <2>1, AcceptMaps DEF Python!Next, Python!Event
  <2>2. ASSUME NEW t \in tags, Fresh(t), Service(t.slot) PROVE Python!Next
    BY <2>2, FreshSlot, ServiceMaps
  <2> QED
    BY <1>1, <2>1, <2>2 DEF Batch
<1>2. CASE BatchEnds
  <2>1. UNCHANGED <<client, order, by_name, bad, told, heard>>
    BY <1>2 DEF BatchEnds
  <2> QED
    BY <2>1, Stutter DEF Settled, Live
<1>3. CASE FlushNext
  <2> DEFINE i == CHOOSE i \in Owed : \A j \in Owed : i <= j
  <2>1. Owed # {} /\ \E k \in 0..(MaxTx + 2) : Flush(walk[i], k)
    BY <1>3 DEF FlushNext
  <2>2. walk[i] \in Slot /\ Live(walk[i]) /\ client[walk[i]].tx # <<>>
    BY <2>1, NextOwed DEF CRelayInv
  <2> HIDE DEF i
  <2> PICK k \in 0..(MaxTx + 2) : Flush(walk[i], k)
    BY <2>1
  <2> PICK s \in Slot : s = walk[i]
    BY <2>2
  <2>3. Live(s) /\ client[s].tx # <<>> /\ Flush(s, k)
    BY <2>2
  <2> PICK c \in Conn : c = client[s].conn
    BY <2>3, OfFacts
  <2>4. Python!Flush(c, k)
    BY <2>3, FlushMaps
  <2> QED
    BY <2>4, FlushIsNext
<1>4. CASE Sweep
  <2> PICK s \in Slot : Live(s) /\ Drop(s)
    BY <1>4 DEF Sweep
  <2> QED
    BY GoneNext
<1>5. CASE Poll
  <2>1. UNCHANGED <<order, by_name, bad, told, heard>>
    BY <1>5 DEF Poll
  <2>2. \A s \in Slot :
          /\ Live(s) => client'[s] = client[s]
          /\ Live(s)' <=> Live(s)
          /\ client'[s].conn = client[s].conn
    BY <1>5, PollStep
  <2>3. Settled
    BY <2>1, <2>2 DEF Settled
  <2>4. UNCHANGED Python!vars
    BY <2>1, <2>2, <2>3, Stutter
  <2> QED
    BY <2>4
<1>6. CASE UNCHANGED vars
  <2>1. UNCHANGED <<client, order, by_name, bad, told, heard>>
    BY <1>6 DEF vars
  <2> QED
    BY <2>1, Stutter DEF Settled, Live
<1> QED
  BY <1>1, <1>2, <1>3, <1>4, <1>5, <1>6 DEF Next

LEMMA InitMaps == Init => Python!Init
<1> SUFFICES ASSUME Init PROVE Python!Init
  OBVIOUS
<1>1. /\ client = [s \in Slot |-> Blank] /\ order = <<>>
      /\ by_name = [n \in Names |-> NoName] /\ bad = FALSE /\ told = 0
      /\ heard = [c \in Conn |-> "lobby"]
  BY DEF Init
<1>2. \A c \in Conn : Of(c) = Blank
  <2>1. \A s \in Slot : ~Live(s)
    BY <1>1 DEF Live, Blank
  <2>2. \A c \in Conn : SlotOf(c) = -1
    BY <2>1, SlotOfNone
  <2> QED
    BY <2>2 DEF Of
<1>3. Python!LogInit
  BY <1>1, <1>2 DEF Python!LogInit, Blank
<1>4. [i \in DOMAIN order |-> client[order[i]].conn] = <<>>
  BY <1>1
<1>5. [n \in Names |-> ConnAt(by_name[n].slot)] = [n \in Names |-> None]
  BY <1>1 DEF NoName, ConnAt
<1>6. /\ [c \in Conn |-> Of(c).name] = [c \in Conn |-> None]
      /\ [c \in Conn |-> ConnAt(Of(c).partner)] = [c \in Conn |-> None]
      /\ [c \in Conn |-> Of(c).role] = [c \in Conn |-> None]
      /\ [c \in Conn |-> Of(c).tx] = [c \in Conn |-> <<>>]
  BY <1>2 DEF Blank, ConnAt
<1> QED
  BY <1>1, <1>3, <1>4, <1>5, <1>6, Zenon DEF Python!Init

LEMMA BadAlways == Spec => [](bad \in BOOLEAN)
<1>1. Init => bad \in BOOLEAN
  BY DEF Init
<1>2. bad \in BOOLEAN /\ [Next]_vars => (bad \in BOOLEAN)'
  <2> SUFFICES ASSUME bad \in BOOLEAN, [Next]_vars PROVE bad' \in BOOLEAN
    OBVIOUS
  <2>1. ASSUME NEW s, Service(s) PROVE bad' \in BOOLEAN
    BY <2>1, Zenon DEF Service, Drop, Join, Query, Hello, Input, Flush
  <2> QED
    BY <2>1, Zenon DEF Next, vars, Batch, Accept, BatchEnds, FlushNext, Flush, Drop, Sweep, Poll
<1> QED
  BY <1>1, <1>2, PTL DEF Spec

\* The relay in C does what the one in Python does but for the array that keeps
\* a console's checksums: it implements the relay whose logs have that room, for
\* any number of slots, connections and names, with no condition.
THEOREM RelayImplemented == LogSlots = CrcSlots => (Spec => ImplementsRelay)
<1> SUFFICES ASSUME LogSlots = CrcSlots PROVE Spec => ImplementsRelay
  OBVIOUS
<1>1. CRelayInv /\ CRelayInv' /\ bad \in BOOLEAN /\ [Next]_vars => [Python!Next]_(Python!vars)
  BY NextMaps DEF Comparable
<1> QED
  BY <1>1, InitMaps, BadAlways, CRelayAlways, PTL DEF Spec, ImplementsRelay, Python!Spec

\* And it implements the relay that keeps them in a dict, LogSlots = None, as
\* long as no console's log fills its array (crc_set).
THEOREM RelayImplementedInRoom == Spec /\ []Fits => ImplementsRelay
<1>1. CRelayInv /\ CRelayInv' /\ bad \in BOOLEAN /\ Fits /\ [Next]_vars => [Python!Next]_(Python!vars)
  BY NextMaps DEF Comparable
<1> QED
  BY <1>1, InitMaps, BadAlways, CRelayAlways, PTL DEF Spec, ImplementsRelay, Python!Spec

-----------------------------------------------------------------------------
(* What is proved of the relay holds of the one in C *)

\* RelayProofs, with the substitution of Python.
Proved == INSTANCE RelayProofs WITH
  clients <- [i \in DOMAIN order |-> client[order[i]].conn],
  holder  <- [n \in Names |-> ConnAt(by_name[n].slot)],
  name    <- [c \in Conn |-> Of(c).name],
  partner <- [c \in Conn |-> ConnAt(Of(c).partner)],
  role    <- [c \in Conn |-> Of(c).role],
  tx      <- [c \in Conn |-> Of(c).tx],
  crc     <- [c \in Conn |-> Of(c).crc],
  lap     <- [c \in Conn |-> Of(c).lap],
  last    <- [c \in Conn |-> Of(c).last]

LEMMA ProvedAssumptions == Proved!LogAssumption /\ Proved!RelayAssumption
<1>1. Proved!LogAssumption
  BY CRelayAssumption DEF Proved!LogAssumption
<1>2. Proved!IsFiniteSet(Names)
  BY CRelayAssumption, Zenon DEF Proved!IsFiniteSet, IsFiniteSet
<1>3. LogSlots \in Nat \cup {None}
  BY CRelayAssumption
<1> QED
  BY <1>1, <1>2, <1>3, CRelayAssumption, Zenon DEF Proved!RelayAssumption

\* RelayProofs' theorems, of combat-relay.c.
Promises ==
  Python!TypeOK /\ Python!PartnerMutual /\ Python!Bracketed /\ Python!RosterHonest /\ Python!OneWaiting

LEMMA SameProperties ==
  /\ Proved!TypeOK => Python!TypeOK
  /\ Proved!PartnerMutual => Python!PartnerMutual
  /\ Proved!Bracketed => Python!Bracketed
  /\ Proved!RosterHonest => Python!RosterHonest
  /\ Proved!OneWaiting => Python!OneWaiting
<1>1. Proved!PartnerMutual => Python!PartnerMutual
  BY Zenon DEF Proved!PartnerMutual, Python!PartnerMutual
<1>2. Proved!Bracketed => Python!Bracketed
  BY Zenon DEF Proved!Bracketed, Python!Bracketed, Proved!Heard, Python!Heard
<1>3. Proved!RosterHonest => Python!RosterHonest
  BY Zenon DEF Proved!RosterHonest, Python!RosterHonest, Proved!Cardinality,
       Python!Cardinality, Proved!IsFiniteSet, Python!IsFiniteSet
<1>4. Proved!OneWaiting => Python!OneWaiting
  BY Zenon DEF Proved!OneWaiting, Python!OneWaiting, Proved!Heard, Python!Heard,
       Proved!Idle, Python!Idle, Proved!Live, Python!Live, Proved!Cardinality,
       Python!Cardinality, Proved!IsFiniteSet, Python!IsFiniteSet
<1>5. Proved!TypeOK => Python!TypeOK
  BY Zenon DEF Proved!TypeOK, Python!TypeOK, Proved!LogTypeOK, Python!LogTypeOK,
       Proved!Live, Python!Live, Proved!Frames, Python!Frames, Proved!LEFT, Python!LEFT,
       Proved!REPLY, Python!REPLY, Proved!Cardinality, Python!Cardinality,
       Proved!IsFiniteSet, Python!IsFiniteSet
<1> QED
  BY <1>1, <1>2, <1>3, <1>4, <1>5

LEMMA SameInit == Python!Init => Proved!Init
BY Zenon DEF Python!Init, Proved!Init, Python!LogInit, Proved!LogInit

LEMMA SameVars == UNCHANGED Python!vars => UNCHANGED Proved!vars
BY Zenon DEF Python!vars, Proved!vars, Python!logVars, Proved!logVars,
     Python!connVars, Proved!connVars, Python!pairVars, Proved!pairVars

LEMMA SameDrop == \A c : Python!Drop(c) => Proved!Drop(c)
BY Zenon DEF Proved!Drop, Python!Drop, Proved!Cut, Python!Cut, Proved!Born,
     Python!Born, Proved!Freed, Python!Freed, Proved!Released, Python!Released,
     Proved!LEFT, Python!LEFT, Proved!Taken, Python!Taken, Proved!Cardinality,
     Python!Cardinality, Proved!IsFiniteSet, Python!IsFiniteSet

LEMMA SameAccept == \A c : Python!Accept(c) => Proved!Accept(c)
BY Zenon DEF Proved!Accept, Python!Accept, Proved!Live, Python!Live,
     Proved!logVars, Python!logVars, Proved!pairVars, Python!pairVars,
     Proved!Cardinality, Python!Cardinality, Proved!IsFiniteSet,
     Python!IsFiniteSet

LEMMA SameTryPair == \A c, nm : Python!TryPair(c, nm) => Proved!TryPair(c, nm)
BY Zenon DEF Proved!TryPair, Python!TryPair, Proved!PartnerFor,
     Python!PartnerFor, Proved!Others, Python!Others, Proved!Oldest,
     Python!Oldest, Proved!Born, Python!Born, Proved!Idle, Python!Idle,
     Proved!Live, Python!Live, Proved!Pair, Python!Pair, Proved!Room,
     Python!Room, Proved!ClearLogs, Python!ClearLogs, Proved!START,
     Python!START, Proved!logVars, Python!logVars, Proved!pairVars,
     Python!pairVars

LEMMA SameHello == \A c, n, w :
  w \in Python!Uniquified(n) /\ Python!Hello(c, w) =>
  w \in Proved!Uniquified(n) /\ Proved!Hello(c, w)
BY SameTryPair, Zenon DEF Proved!Hello, Python!Hello, Proved!Uniquified, Python!Uniquified,
     Proved!Taken, Python!Taken, Proved!Live, Python!Live, Proved!Cardinality,
     Python!Cardinality, Proved!IsFiniteSet, Python!IsFiniteSet

LEMMA SameJoin == \A c : Python!Join(c) => Proved!Join(c)
BY SameTryPair, Zenon DEF Proved!Join, Python!Join, Proved!Live, Python!Live,
     Proved!connVars, Python!connVars

LEMMA SameQuery == \A c : Python!Query(c) => Proved!Query(c)
BY Zenon DEF Proved!Query, Python!Query, Proved!Live, Python!Live, Proved!Room,
     Python!Room, Proved!REPLY, Python!REPLY, Proved!logVars, Python!logVars,
     Proved!connVars, Python!connVars, Proved!pairVars, Python!pairVars

LEMMA SameLogCrc == \A c, p, tick, sum :
  Python!LogCrc(c, p, tick, sum, LogSlots) => Proved!LogCrc(c, p, tick, sum, LogSlots)
<1>1. /\ \A log, key : Python!Holds(log, key) <=> Proved!Holds(log, key)
      /\ \A log, key, sum : Python!Put(log, key, sum) = Proved!Put(log, key, sum)
  BY Zenon DEF Python!Holds, Proved!Holds, Python!Put, Proved!Put
<1>2. \A log, key, sum :
        Python!Assign(log, key, sum, LogSlots) = Proved!Assign(log, key, sum, LogSlots)
  BY <1>1, Zenon DEF Python!Assign, Proved!Assign
<1>3. \A log : Python!Youngest(log) = Proved!Youngest(log)
  BY Zenon DEF Python!Youngest, Proved!Youngest
<1>4. /\ \A log, key : Python!Without(log, key) = Proved!Without(log, key)
      /\ \A log, key : Python!Sum(log, key) = Proved!Sum(log, key)
  BY Zenon DEF Python!Without, Proved!Without, Python!Sum, Proved!Sum, Python!Cut,
       Proved!Cut, Python!Place, Proved!Place
<1>5. \A c, tick : Python!LapAfter(c, tick) = Proved!LapAfter(c, tick)
  BY Zenon DEF Python!LapAfter, Proved!LapAfter
<1> SUFFICES ASSUME NEW c, NEW p, NEW tick, NEW sum, Python!LogCrc(c, p, tick, sum, LogSlots)
             PROVE  Proved!LogCrc(c, p, tick, sum, LogSlots)
  BY Zenon
<1> PICK l : l = Python!LapAfter(c, tick)
  OBVIOUS
<1> DEFINE fcrc == [e \in Conn |-> Of(e).crc]
           key  == l * WireTicks + tick
           mine == Python!Assign(fcrc[c], key, sum, LogSlots)
<1>6. /\ [e \in Conn |-> Of(e).lap]' = [[e \in Conn |-> Of(e).lap] EXCEPT ![c] = l]
      /\ [e \in Conn |-> Of(e).last]' = [[e \in Conn |-> Of(e).last] EXCEPT ![c] = tick]
      /\ IF p = None \/ ~Python!Holds(fcrc[p], key)
         THEN fcrc' = [fcrc EXCEPT ![c] = Python!Youngest(mine)] /\ bad' = bad
         ELSE /\ fcrc' = [fcrc EXCEPT ![c] = mine, ![p] = Python!Without(@, key)]
              /\ bad' = (bad \/ Python!Sum(fcrc[p], key) # sum)
  BY Zenon DEF Python!LogCrc
<1>7. l = Proved!LapAfter(c, tick) /\ mine = Proved!Assign(fcrc[c], key, sum, LogSlots)
  BY <1>2, <1>5, Zenon
<1> HIDE DEF fcrc, key, mine
<1>8. IF p = None \/ ~Proved!Holds(fcrc[p], key)
      THEN fcrc' = [fcrc EXCEPT ![c] = Proved!Youngest(mine)] /\ bad' = bad
      ELSE /\ fcrc' = [fcrc EXCEPT ![c] = mine, ![p] = Proved!Without(@, key)]
           /\ bad' = (bad \/ Proved!Sum(fcrc[p], key) # sum)
  BY <1>1, <1>3, <1>4, <1>6, Zenon
<1> QED
  BY <1>6, <1>7, <1>8, Zenon DEF Proved!LogCrc, fcrc, key, mine

LEMMA SameInput == \A c, r : Python!Input(c, r) => Proved!Input(c, r)
BY SameLogCrc, Zenon DEF Proved!Input, Python!Input, Proved!Live, Python!Live, Proved!Room,
     Python!Room, Proved!INPUT, Python!INPUT, Proved!connVars, Python!connVars,
     Proved!pairVars, Python!pairVars

LEMMA SameFlush == \A c, k : Python!Flush(c, k) => Proved!Flush(c, k)
<1>1. \A h, fs : Python!Heard(h, fs) = Proved!Heard(h, fs)
  BY Zenon DEF Python!Heard, Proved!Heard
<1>2. Python!Live = Proved!Live
  BY Zenon DEF Python!Live, Proved!Live
<1>3. /\ Python!logVars = Proved!logVars /\ Python!connVars = Proved!connVars
      /\ Python!pairVars = Proved!pairVars
  BY Zenon DEF Python!logVars, Proved!logVars, Python!connVars, Proved!connVars,
       Python!pairVars, Proved!pairVars
<1>4. UNCHANGED <<Python!logVars, Python!connVars, Python!pairVars>> =>
        UNCHANGED <<Proved!logVars, Proved!connVars, Proved!pairVars>>
  BY Zenon DEF Python!logVars, Proved!logVars, Python!connVars, Proved!connVars,
       Python!pairVars, Proved!pairVars
<1> QED
  BY <1>1, <1>2, <1>4, SameDrop, Zenon DEF Python!Flush, Proved!Flush

LEMMA SameNext == Python!Next => Proved!Next
<1> SUFFICES ASSUME NEW c \in Conn,
                    Python!Event(c) \/ \E k \in 0..(MaxTx + 2) : Python!Flush(c, k)
             PROVE  Proved!Event(c) \/ \E k \in 0..(MaxTx + 2) : Proved!Flush(c, k)
  BY Zenon DEF Python!Next, Proved!Next
<1>1. Python!Gone(c) => Proved!Gone(c)
  BY SameDrop, Zenon DEF Python!Gone, Proved!Gone, Python!Live, Proved!Live
<1>2. Python!Event(c) => Proved!Event(c)
  BY <1>1, SameAccept, SameHello, SameJoin, SameQuery, SameInput, Zenon
     DEF Python!Event, Proved!Event
<1> QED
  BY <1>2, SameFlush, Zenon

\* What RelayProofs proves holds of combat-relay.c, whatever is dropped, accepted
\* and polled in one batch: nothing refers to a connection that is gone; a match
\* is two consoles that know of each other (try_pair, drop); each console reads a
\* sequence of matches, with one opponent's records in each (on_input, flush);
\* the roster is the names in use (on_hello); and no two consoles wait for each
\* other.
THEOREM CRelayKeepsPromises == LogSlots = CrcSlots => (Spec => []Promises)
<1> SUFFICES ASSUME LogSlots = CrcSlots PROVE Spec => []Promises
  OBVIOUS
<1>1. Spec => Python!Spec
  BY RelayImplemented, PTL DEF ImplementsRelay
<1>2. [Python!Next]_(Python!vars) => [Proved!Next]_(Proved!vars)
  BY SameNext, SameVars
<1>3. Python!Spec => Proved!Spec
  BY <1>2, SameInit, PTL DEF Python!Spec, Proved!Spec
<1>4. Proved!Spec => [](/\ Proved!TypeOK /\ Proved!PartnerMutual /\ Proved!Bracketed
                       /\ Proved!RosterHonest /\ Proved!OneWaiting)
  BY ProvedAssumptions, Proved!RelayTypeCorrect, Proved!PartnerCorrect,
     Proved!BracketedCorrect, Proved!RosterCorrect, Proved!WaitingCorrect, PTL
<1>5. /\ Proved!TypeOK /\ Proved!PartnerMutual /\ Proved!Bracketed
      /\ Proved!RosterHonest /\ Proved!OneWaiting
      => Promises
  BY SameProperties DEF Promises
<1> QED
  BY <1>1, <1>3, <1>4, <1>5, PTL
=============================================================================
