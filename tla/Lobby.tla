-------------------------------- MODULE Lobby --------------------------------
(***************************************************************************)
(* The lobby publisher of either relay: LobbyPublisher of                  *)
(* src/server/combat_relay_server.py, and its port, lobby.c.  The relay's  *)
(* thread changes the number of players and at the end shuts down; the     *)
(* worker's thread POSTs what the payload says whenever it has changed,    *)
(* and every KEEPALIVE.  The Lobby has no expiry: what was POSTed last is  *)
(* what it shows.                                                          *)
(*                                                                         *)
(* What happens under the lock is one step.  A POST is two: it is taken by *)
(* the Lobby, or not, and then its sender hears back or gives up.  One     *)
(* its sender has given up on may be on its way still: the Lobby takes it  *)
(* whenever it gets there, or never.                                       *)
(***************************************************************************)
EXTENDS Naturals

CONSTANTS
  MaxPlayers,       \* bound: the counts the relay reports
  MaxUpdates,       \* bound: how many times it does
  MaxLate           \* bound: requests of one content on their way, given up

ASSUME LobbyAssumption ==
  MaxPlayers \in Nat /\ MaxUpdates \in Nat /\ MaxLate \in Nat

VARIABLES
  port,             \* which publisher runs: "py", or "c"
  count, status,    \* the payload's two fields that change
  dirty,            \* it has changed since it was last taken
  stop,             \* the stop event
  worker,           \* where the worker's thread is
  body,             \* what its POST says
  post,             \* post[t]: how the last POST of a thread has gone
  relay,            \* where the relay's thread is
  listed,           \* what the Lobby shows
  taker,            \* whose POST it took last: a thread's, or one given up
  late,             \* late[b]: how many that say b are on their way, given up
  updates,          \* updates so far
  abandoned         \* the join ran out on a POST of the worker

payload == <<count, status, dirty>>
shown   == <<listed, taker>>
lobby   == <<post, shown, late>>
vars    == <<port, payload, stop, worker, body, lobby, relay, updates, abandoned>>

Row == [status : {"online", "offline"}, count : 0..MaxPlayers]
NoRow == [status |-> "absent", count |-> 0]

Payload == [status |-> status, count |-> count]

\* cv.notify: it reaches a worker that waits, and nobody else.
Notify == worker' = IF worker = "wait" THEN "woken" ELSE worker

-----------------------------------------------------------------------------
(* The relay's thread *)

\* Mutant: the count is changed and the flag forgotten.
Update_Clean(n) ==
  /\ count' = n
  /\ Notify
  /\ UNCHANGED <<status, dirty>>

\* Mutant: the number is taken for the change of it.
Update_Adds(n) ==
  /\ count' = count + n
  /\ dirty' = TRUE
  /\ Notify
  /\ UNCHANGED status

Update(n) ==
  /\ count' = n
  /\ dirty' = TRUE
  /\ Notify
  /\ UNCHANGED status

\* Someone has said HELLO or gone.
Players(n) ==
  /\ relay = "run" /\ updates < MaxUpdates
  /\ Update(n)
  /\ updates' = updates + 1
  /\ UNCHANGED <<port, stop, body, lobby, relay, abandoned>>

\* SIGTERM or Ctrl-C: shutdown renders what it will say.  In C the stop flags
\* and the broadcast are under the same lock.
Shutdown ==
  /\ relay = "run"
  /\ status' = "offline"
  /\ IF port = "c" THEN stop' = TRUE /\ Notify /\ relay' = "join"
                   ELSE relay' = "offline" /\ UNCHANGED <<stop, worker>>
  /\ UNCHANGED <<port, count, dirty, body, lobby, updates, abandoned>>

SetStop ==
  /\ relay = "offline"
  /\ stop' = TRUE
  /\ relay' = "stopped"
  /\ UNCHANGED <<port, payload, worker, body, lobby, updates, abandoned>>

NotifyStop ==
  /\ relay = "stopped"
  /\ Notify
  /\ relay' = "join"
  /\ UNCHANGED <<port, payload, stop, body, lobby, updates, abandoned>>

\* Mutant: the worker is not waited for.
Joined_Now == TRUE

\* The worker has ended, or twelve seconds have passed.
Joined == worker \in {"ended", "dead"}

Join ==
  /\ relay = "join"
  /\ abandoned' = (~Joined /\ worker = "post")
  /\ relay' = "post"
  /\ post' = [post EXCEPT !.relay = "sent"]
  /\ UNCHANGED <<port, payload, stop, worker, body, shown, late, updates>>

\* A second signal raises KeyboardInterrupt out of the shutdown itself.
Again ==
  /\ port = "py" /\ relay \in {"offline", "stopped", "join", "post"}
  /\ relay' = "aborted"
  /\ UNCHANGED <<port, payload, stop, worker, body, lobby, updates, abandoned>>

-----------------------------------------------------------------------------
(* The worker's thread, a daemon: it ends with the process. *)

Alive == relay \notin {"done", "aborted"}

Worker(from) == Alive /\ worker = from

\* What the worker takes under the lock.
Snapshot ==
  /\ dirty' = FALSE
  /\ body' = Payload
  /\ worker' = "post"
  /\ post' = [post EXCEPT !.worker = "sent"]

Ends == worker' = "ended" /\ UNCHANGED <<dirty, body, post>>

\* In Python the test is outside the lock.
Test ==
  /\ Worker("test")
  /\ worker' = IF stop THEN "ended" ELSE "look"
  /\ UNCHANGED <<port, payload, stop, body, lobby, relay, updates, abandoned>>

Look ==
  /\ Worker("look")
  /\ \/ port = "c" /\ stop /\ Ends
     \/ ~(port = "c" /\ stop) /\ dirty /\ Snapshot
     \/ ~(port = "c" /\ stop) /\ ~dirty /\ worker' = "wait" /\ UNCHANGED <<dirty, body, post>>
  /\ UNCHANGED <<port, count, status, stop, shown, late, relay, updates, abandoned>>

\* Mutant: the worker goes back to sleep unless the payload has changed.
KeepAlive_Dirty == worker = "wait" /\ dirty

\* KEEPALIVE has passed.
KeepAlive == worker = "wait"

Wake ==
  /\ Alive /\ (worker = "woken" \/ KeepAlive)
  /\ IF port = "c" /\ stop THEN Ends ELSE Snapshot
  /\ UNCHANGED <<port, count, status, stop, shown, late, relay, updates, abandoned>>

\* A second later, or at once when the stop event is set.
Pause ==
  /\ Worker("pause")
  /\ worker' = IF port = "py" THEN "test" ELSE "look"
  /\ UNCHANGED <<port, payload, stop, body, lobby, relay, updates, abandoned>>

-----------------------------------------------------------------------------
(* POST *)

\* What a thread's POST says.
Said(t) == IF t = "worker" THEN body ELSE [status |-> "offline", count |-> count]

\* The Lobby takes it: also one whose sender's process has ended meanwhile.
Taken(t) ==
  /\ post[t] = "sent"
  /\ post' = [post EXCEPT ![t] = "taken"]
  /\ listed' = Said(t) /\ taker' = t
  /\ UNCHANGED <<port, payload, stop, worker, body, late, relay, updates, abandoned>>

\* The Lobby takes one that was given up, maybe long after others were taken.
TakenLate(b) ==
  /\ late[b] > 0
  /\ late' = [late EXCEPT ![b] = @ - 1]
  /\ listed' = b /\ taker' = "late"
  /\ UNCHANGED <<port, payload, stop, worker, body, post, relay, updates, abandoned>>

Return(t) ==
  IF t = "worker" THEN worker' = "pause" /\ UNCHANGED relay
                  ELSE relay' = "done" /\ UNCHANGED worker

Posting(t) == IF t = "worker" THEN Worker("post") ELSE relay = "post"

Answered(t) ==
  /\ Posting(t) /\ post[t] = "taken"
  /\ post' = [post EXCEPT ![t] = "ok"]
  /\ Return(t)
  /\ UNCHANGED <<port, payload, stop, body, shown, late, updates, abandoned>>

\* What was written before ten seconds were over is not called back.
Strays(b) == late[b] < MaxLate /\ late' = [late EXCEPT ![b] = @ + 1]

\* An OSError, or a status of 400 and up: counted, logged and not repeated.  One
\* of them is the timeout.
Failed(t) ==
  /\ Posting(t)
  /\ post' = [post EXCEPT ![t] = "failed"]
  /\ UNCHANGED late \/ (post[t] = "sent" /\ Strays(Said(t)))
  /\ Return(t)
  /\ UNCHANGED <<port, payload, stop, body, shown, updates, abandoned>>

\* What urlopen raises for an answer that is not HTTP is no OSError: it ends the
\* thread.
Unreadable ==
  /\ port = "py" /\ Worker("post") /\ post.worker = "taken"
  /\ post' = [post EXCEPT !.worker = "failed"]
  /\ worker' = "dead"
  /\ UNCHANGED <<port, payload, stop, body, shown, late, relay, updates, abandoned>>

-----------------------------------------------------------------------------
Init ==
  /\ port \in {"py", "c"}
  /\ count = 0 /\ status = "online" /\ dirty = TRUE
  /\ stop = FALSE
  /\ worker = IF port = "py" THEN "test" ELSE "look"
  /\ body = [status |-> "online", count |-> 0]
  /\ post = [t \in {"worker", "relay"} |-> "none"]
  /\ relay = "run"
  /\ listed = NoRow /\ taker = "none"
  /\ late = [b \in Row |-> 0]
  /\ updates = 0
  /\ abandoned = FALSE

Publisher == Test \/ Look \/ Wake \/ Pause

Posts(t) == Taken(t) \/ Answered(t) \/ Failed(t)

Next ==
  \/ \E n \in 0..MaxPlayers : Players(n)
  \/ Shutdown \/ SetStop \/ NotifyStop \/ Join \/ Again
  \/ Publisher \/ Unreadable
  \/ \E t \in {"worker", "relay"} : Posts(t)
  \/ \E b \in Row : TakenLate(b)

Spec == Init /\ [][Next]_vars

\* The worker is scheduled, the keepalive comes round, a POST ends, and one that
\* is tried again and again is taken some time.
Fairness ==
  /\ WF_vars(Publisher)
  /\ WF_vars(Posts("worker")) /\ SF_vars(Taken("worker"))

FairSpec == Spec /\ Fairness

-----------------------------------------------------------------------------
(* Properties *)

\* The types; of the count, that it never leaves what the relay has reported.
TypeOK ==
  /\ port \in {"py", "c"}
  /\ Payload \in Row /\ dirty \in BOOLEAN /\ stop \in BOOLEAN
  /\ worker \in {"test", "look", "wait", "woken", "post", "pause", "ended", "dead"}
  /\ body \in Row
  /\ post \in [{"worker", "relay"} -> {"none", "sent", "taken", "ok", "failed"}]
  /\ relay \in {"run", "offline", "stopped", "join", "post", "done", "aborted"}
  /\ listed \in Row \cup {NoRow} /\ taker \in {"none", "worker", "relay", "late"}
  /\ late \in [Row -> 0..MaxLate]
  /\ updates \in 0..MaxUpdates /\ abandoned \in BOOLEAN

\* A publisher that goes to sleep for five minutes has nothing to say: whatever
\* moment of its cycle a change of the count fell in, the Lobby shows that count
\* already, unless the POST that said so failed, or the Lobby has since taken one
\* that had been given up.
AsleepUpToDate ==
  worker = "wait" /\ post.worker = "ok" /\ taker # "late" => listed.count = count

\* The offline POST takes the room away (the docstring): after a shutdown that
\* nobody interrupted nothing puts it back but a POST of the worker's that was not
\* waited for to its end: it was in hand when the join ran out, or had been given
\* up and is taken only now.
OfflineLast ==
  relay = "done" /\ post.relay = "ok" /\ ~abandoned /\ taker # "late" =>
    listed.status = "offline"

\* The keepalive keeps the room honest: as long as the worker lives, POSTs that
\* fail, requests taken long after and counts that come and go end with the Lobby
\* showing the last one.
CountPublished ==
  <>[](relay = "run" /\ worker # "dead") => <>[](listed = Payload)
=============================================================================
