------------------------ MODULE NeighbourProperties ------------------------
(***************************************************************************)
(* What the answer to a neighbour query promises.                          *)
(***************************************************************************)
EXTENDS Neighbours

\* Everyone has at most one place, seen in the past; the asker's row and the
\* rows of the answer are stored places, and there are no more of them than fit.
TypeOK ==
  /\ now \in 0..Horizon /\ since \in 0..now
  /\ users \subseteq Uids
  /\ places \subseteq Place
  /\ \A q \in places : q.seen \in 0..now
  /\ \A q, r \in places : q.uid = r.uid => q = r
  /\ at \in {"idle", "check", "own", "others", "rows", "reply"}
  /\ at \notin {"idle", "reply"} => asker \in Uids
  /\ at \in {"others", "rows"} => own \in places
  /\ at = "rows" => rest # {} /\ Cardinality(shown) < MaxRows
  /\ rest \cup shown \subseteq places
  /\ Cardinality(shown) <= MaxRows

Unexpired(q, time) == q.expiry = -1 \/ time - q.seen <= q.expiry

\* No one is shown at a place that had expired when the question was asked,
\* and only who is at an unexpired place of his own is answered.
NeighboursFresh ==
  /\ \A q \in shown : Unexpired(q, since)
  /\ own # Absent => Unexpired(own, since)

\* An answer leaves out a registered user whose place is near enough, and has
\* not expired to this moment, only if it is full of nearer ones.
NeighboursComplete ==
  at = "reply" /\ status = "200" =>
    \A q \in places \ shown :
      Within(q) /\ q.uid \in users /\ Unexpired(q, now) =>
        /\ Cardinality(shown) = MaxRows
        /\ \A r \in shown :
             Distance(own.pos, r.pos) <= Distance(own.pos, q.pos)

\* Every neighbour query is answered, whatever expires while it is served.
NeighbourAnswered == at # "idle" ~> at = "idle"

============================================================================
