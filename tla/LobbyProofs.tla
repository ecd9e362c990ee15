----------------------------- MODULE LobbyProofs -----------------------------
(***************************************************************************)
(* Lobby's invariants, for any number of players and of changes.           *)
(***************************************************************************)
EXTENDS Lobby, TLAPS

Alone == {"test", "look", "wait", "woken", "pause", "ended", "dead"}

\* What the worker's flag and its last POST have to do with the count.  What one
\* that was given up says is anything.
Known ==
  /\ worker = "wait" => ~dirty
  /\ ~dirty => body.count = count
  /\ post.worker \in {"taken", "ok"} /\ taker # "late" =>
       listed.count = body.count \/ (relay # "run" /\ listed.count = count)

\* What can still reach the Lobby after the room has been taken away: a POST of
\* the worker that was made after the shutdown began, or was in hand when the join
\* ran out.
Last ==
  /\ relay # "run" => status = "offline"
  /\ post.worker = "sent" => worker = "post"
  /\ post.relay # "none" => relay \in {"post", "done", "aborted"}
  /\ relay \in {"post", "done"} => post.relay # "none"
  /\ post.relay # "none" /\ ~abandoned =>
       /\ post.worker = "sent" => body.status = "offline"
       /\ post.relay \in {"taken", "ok"} /\ taker # "late" => listed.status = "offline"

LobbyInv == TypeOK /\ Known /\ Last

-----------------------------------------------------------------------------
LEMMA InitInv == Init => LobbyInv
<1> SUFFICES ASSUME Init PROVE LobbyInv
  OBVIOUS
<1>1. TypeOK
  <2>1. Payload \in Row /\ body \in Row
    BY LobbyAssumption DEF Init, Row, Payload
  <2>2. post \in [{"worker", "relay"} -> {"none", "sent", "taken", "ok", "failed"}]
    BY DEF Init
  <2>3. /\ listed \in Row \cup {NoRow} /\ updates \in 0..MaxUpdates
        /\ late \in [Row -> 0..MaxLate]
    BY LobbyAssumption DEF Init
  <2> QED
    BY <2>1, <2>2, <2>3 DEF Init, TypeOK
<1> QED
  BY <1>1 DEF Init, LobbyInv, Known, Last

\* The relay's thread.
LEMMA RelayStep ==
  ASSUME LobbyInv,
         \/ \E n \in 0..MaxPlayers : Players(n)
         \/ Shutdown \/ SetStop \/ NotifyStop \/ Join \/ Again
  PROVE  LobbyInv'
<1> USE DEF LobbyInv, lobby, payload, shown
<1>1. CASE \E n \in 0..MaxPlayers : Players(n)
  <2>1. PICK n \in 0..MaxPlayers : Players(n)
    BY <1>1
  <2>2. TypeOK'
    BY <2>1, LobbyAssumption DEF Players, Update, Notify, TypeOK, Row, Payload
  <2>3. Known'
    BY <2>1 DEF Players, Update, Notify, Known, TypeOK
  <2>4. Last'
    BY <2>1 DEF Players, Update, Notify, Last, TypeOK
  <2> QED
    BY <2>2, <2>3, <2>4
<1>2. CASE Shutdown
  <2>1. /\ Payload' \in Row
        /\ stop' \in BOOLEAN /\ relay' \in {"offline", "join"}
        /\ worker' \in {worker, "woken"}
        /\ UNCHANGED <<port, dirty, body, post, listed, taker, late, updates, abandoned>>
    BY <1>2 DEF Shutdown, Notify, TypeOK, Row, Payload
  <2>2. TypeOK'
    BY <2>1 DEF TypeOK
  <2>3. Known'
    BY <1>2 DEF Shutdown, Notify, Known, TypeOK
  <2>4. Last'
    BY <1>2 DEF Shutdown, Notify, Last, TypeOK
  <2> QED
    BY <2>2, <2>3, <2>4
<1>3. CASE SetStop
  BY <1>3 DEF SetStop, TypeOK, Payload, Known, Last
<1>4. CASE NotifyStop
  BY <1>4 DEF NotifyStop, Notify, TypeOK, Payload, Known, Last
<1>5. CASE Join
  <2>1. post' = [post EXCEPT !.relay = "sent"] /\ post'.relay = "sent"
        /\ post'.worker = post.worker
    BY <1>5 DEF Join, TypeOK
  <2>2. TypeOK'
    BY <1>5, <2>1 DEF Join, TypeOK, Payload
  <2>3. Known' /\ Last'
    BY <1>5, <2>1 DEF Join, Joined, Known, Last, TypeOK
  <2> QED
    BY <2>2, <2>3
<1>6. CASE Again
  BY <1>6 DEF Again, TypeOK, Payload, Known, Last
<1> QED
  BY <1>1, <1>2, <1>3, <1>4, <1>5, <1>6

LEMMA SnapshotStep ==
  ASSUME LobbyInv, Snapshot, relay' = relay, worker # "post",
         UNCHANGED <<port, count, status, stop, shown, late, updates, abandoned>>
  PROVE  LobbyInv'
<1>1. post'.worker = "sent" /\ post'.relay = post.relay
      /\ post' \in [{"worker", "relay"} -> {"none", "sent", "taken", "ok", "failed"}]
  BY DEF Snapshot, LobbyInv, TypeOK
<1>2. TypeOK'
  <2>1. /\ Payload \in Row /\ Payload' = Payload
        /\ body' = Payload /\ dirty' = FALSE /\ worker' = "post"
    BY DEF Snapshot, LobbyInv, TypeOK, Payload
  <2>2. /\ listed' \in Row \cup {NoRow} /\ taker' \in {"none", "worker", "relay", "late"}
        /\ late' \in [Row -> 0..MaxLate]
    BY DEF LobbyInv, TypeOK, shown
  <2>3. Payload' \in Row /\ dirty' \in BOOLEAN /\ body' \in Row
    BY <2>1
  <2> QED
    BY <1>1, <2>1, <2>2, <2>3 DEF LobbyInv, TypeOK
<1>3. Known' /\ Last'
  BY <1>1 DEF Snapshot, LobbyInv, Known, Last, Payload, TypeOK, shown
<1> QED
  BY <1>2, <1>3 DEF LobbyInv

\* The worker moves on without a POST.
LEMMA MoveStep ==
  ASSUME LobbyInv, worker' \in Alone, worker # "post", worker' = "wait" => ~dirty,
         UNCHANGED <<port, payload, stop, body, lobby, relay, updates, abandoned>>
  PROVE  LobbyInv'
BY DEF LobbyInv, Alone, TypeOK, Payload, Known, Last, payload, lobby, shown

LEMMA WorkerStep ==
  ASSUME LobbyInv, Publisher
  PROVE  LobbyInv'
<1>1. CASE Test
  BY <1>1, MoveStep DEF Test, Worker, Alone
<1>2. CASE Look
  <2>1. CASE Snapshot
    BY <1>2, <2>1, SnapshotStep DEF Look, Worker
  <2>2. CASE ~Snapshot
    BY <1>2, <2>2, MoveStep DEF Look, Worker, Ends, Alone, payload, lobby, shown
  <2> QED
    BY <2>1, <2>2
<1>3. CASE Wake
  <2>1. CASE Snapshot
    BY <1>3, <2>1, SnapshotStep DEF Wake, KeepAlive
  <2>2. CASE ~Snapshot
    BY <1>3, <2>2, MoveStep DEF Wake, KeepAlive, Ends, Alone, payload, lobby, shown
  <2> QED
    BY <2>1, <2>2
<1>4. CASE Pause
  BY <1>4, MoveStep DEF Pause, Worker, Alone
<1> QED
  BY <1>1, <1>2, <1>3, <1>4 DEF Publisher

\* A request that goes astray is one more of its content.
LEMMA StraysType ==
  ASSUME late \in [Row -> 0..MaxLate], NEW b \in Row, Strays(b)
  PROVE  late' \in [Row -> 0..MaxLate]
BY LobbyAssumption DEF Strays

LEMMA SaidType ==
  ASSUME TypeOK, NEW t \in {"worker", "relay"}
  PROVE  Said(t) \in Row
BY DEF TypeOK, Said, Payload, Row

LEMMA LateStep ==
  ASSUME LobbyInv, NEW b \in Row, TakenLate(b)
  PROVE  LobbyInv'
<1>1. late' \in [Row -> 0..MaxLate]
  BY LobbyAssumption DEF TakenLate, LobbyInv, TypeOK
<1>2. TypeOK'
  BY <1>1 DEF TakenLate, LobbyInv, TypeOK, Payload, payload
<1> QED
  BY <1>2 DEF TakenLate, LobbyInv, Known, Last, payload

LEMMA PostStep ==
  ASSUME LobbyInv, NEW t \in {"worker", "relay"}, Posts(t) \/ Unreadable
  PROVE  LobbyInv'
<1> USE DEF LobbyInv, payload, shown
<1>1. CASE Taken("worker")
  <2>1. post'.worker = "taken" /\ post'.relay = post.relay /\ listed' = body /\ taker' = "worker"
        /\ post' \in [{"worker", "relay"} -> {"none", "sent", "taken", "ok", "failed"}]
    BY <1>1 DEF Taken, Said, TypeOK
  <2>2. TypeOK'
    BY <1>1, <2>1 DEF Taken, TypeOK, Payload
  <2> QED
    BY <1>1, <2>1, <2>2 DEF Taken, TypeOK, Known, Last
<1>2. CASE Taken("relay")
  <2>1. post'.relay = "taken" /\ post'.worker = post.worker /\ relay # "run"
    BY <1>2 DEF Taken, TypeOK, Last
  <2> QED
    BY <1>2, <2>1 DEF Taken, Said, TypeOK, Payload, Known, Last, Row
<1>3. CASE Answered("worker") \/ Failed("worker")
  <2>1. /\ post'.relay = post.relay
        /\ post'.worker = "failed" \/ (post'.worker = "ok" /\ post.worker = "taken")
        /\ post' \in [{"worker", "relay"} -> {"none", "sent", "taken", "ok", "failed"}]
    BY <1>3 DEF Answered, Failed, TypeOK
  <2>2. /\ worker = "post" /\ worker' = "pause" /\ relay' = relay
        /\ UNCHANGED <<port, payload, stop, body, shown, updates, abandoned>>
        /\ late' \in [Row -> 0..MaxLate]
    BY <1>3, StraysType, SaidType DEF Answered, Failed, Posting, Worker, Return, TypeOK
  <2> QED
    BY <2>1, <2>2 DEF TypeOK, Payload, Known, Last
<1>4. CASE Answered("relay") \/ Failed("relay")
  <2>1. /\ post'.worker = post.worker
        /\ post'.relay = "failed" \/ (post'.relay = "ok" /\ post.relay = "taken")
        /\ post' \in [{"worker", "relay"} -> {"none", "sent", "taken", "ok", "failed"}]
    BY <1>4 DEF Answered, Failed, TypeOK
  <2>2. /\ relay = "post" /\ relay' = "done" /\ worker' = worker
        /\ UNCHANGED <<port, payload, stop, body, shown, updates, abandoned>>
        /\ late' \in [Row -> 0..MaxLate]
    BY <1>4, StraysType, SaidType DEF Answered, Failed, Posting, Return, TypeOK
  <2>3. TypeOK'
    BY <2>1, <2>2 DEF TypeOK, Payload
  <2>4. Known'
    BY <2>1, <2>2 DEF Known
  <2>5. Last'
    BY <2>1, <2>2 DEF Last, TypeOK
  <2> QED
    BY <2>3, <2>4, <2>5
<1>5. CASE Unreadable
  BY <1>5 DEF Unreadable, Worker, TypeOK, Payload, Known, Last
<1> QED
  BY <1>1, <1>2, <1>3, <1>4, <1>5 DEF Posts

LEMMA LobbyNext == LobbyInv /\ [Next]_vars => LobbyInv'
<1> SUFFICES ASSUME LobbyInv, [Next]_vars PROVE LobbyInv'
  OBVIOUS
<1>1. CASE UNCHANGED vars
  BY <1>1 DEF LobbyInv, TypeOK, Payload, Known, Last, vars, payload, lobby, shown
<1>2. CASE Next
  BY <1>2, RelayStep, WorkerStep, PostStep, LateStep DEF Next
<1> QED
  BY <1>1, <1>2

\* Every state of a publisher is well typed, and its count is one the relay has
\* reported.
THEOREM LobbyTypeCorrect == Spec => []TypeOK
<1>1. LobbyInv => TypeOK
  BY DEF LobbyInv
<1> QED
  BY InitInv, LobbyNext, <1>1, PTL DEF Spec

\* The worker never sleeps on a change of the count (update and its notify, the
\* test of dirty under the lock), in either language: only a request that had been
\* given up can make the Lobby show another count while it does.
THEOREM AsleepCorrect == Spec => []AsleepUpToDate
<1>1. LobbyInv => AsleepUpToDate
  BY DEF LobbyInv, Known, AsleepUpToDate
<1> QED
  BY InitInv, LobbyNext, <1>1, PTL DEF Spec

\* After the offline POST of a shutdown nothing lists the room again but a POST of
\* the worker that was not waited for: the join ran out on it, or it had been given
\* up before.
THEOREM OfflineCorrect == Spec => []OfflineLast
<1>1. LobbyInv => OfflineLast
  BY DEF LobbyInv, Last, OfflineLast
<1> QED
  BY InitInv, LobbyNext, <1>1, PTL DEF Spec
=============================================================================
