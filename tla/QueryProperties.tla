-------------------------- MODULE QueryProperties --------------------------
(***************************************************************************)
(* What a client may conclude from the answer to a query.                  *)
(***************************************************************************)
EXTENDS QueryHandlers, UpdateProperties

DataOK(data) ==
  \A d \in data : /\ d[1] \in TableNames
                  /\ d[2].key \in KeysOf[d[1]]
                  /\ d[2].val \in ValuesOf[d[1]]

\* A query runs only between updates, is at a point of its code, holds the
\* arguments it needs, and a list still being fetched has rows left and room
\* in the response; no query leaves data behind for the next one.
QueryTypeOK ==
  /\ at \in {"idle", "password", "user", "select", "rows", "reply"}
  /\ at \notin {"rows", "reply"} => found = {} /\ shown = {}
  /\ at # "idle" => query \in Queries /\ pc = "idle"
  /\ at \notin {"idle", "reply"} => ~LacksArgument(query)
  /\ at = "rows" => query.api \in ListApis /\ ~LastRow(found, shown)
  /\ waits \in 0..1
  /\ DataOK(found) /\ DataOK(shown)
  /\ code \in {"none", "200", "404"}
  /\ http \in {"none", "200", "404"}

Stands(data) == \A d \in data : d[2] \in db[d[1]]

\* A query works on committed data only, from its first row to its answer: no
\* update that may still be undone, or has been, is reported to a client.
AnswersCommitted == Stands(found) /\ Stands(shown)

Records(data) == {d \in data : d[1] # RegInfo}

WithOtherEnd(data) ==
  \A d \in Records(data) : \E u \in data :
    u[1] = RegInfo /\ u[2].key[1] = OtherEnd(query, d[2])

\* A granted list is whole: it has every row that matches, up to the limit,
\* and each comes with the user at its other end; and it was asked for a
\* registered user.
AnswersComplete ==
  at = "reply" /\ http = "200" /\ query.api \in ListApis =>
    /\ UserIn(AskedUid(query), db)
    /\ Cardinality(Records(shown))
         = Least(MaxRows, Cardinality(Selected(query, db)))
    /\ WithOtherEnd(shown)

\* Why a granted list is whole: while it is fetched, the rows still to fetch
\* and those shown are the rows that match, each row counted once, with room
\* for another.
ListInv ==
  /\ at = "select" /\ query.api \in ListApis => UserIn(AskedUid(query), db)
  /\ at = "rows" =>
       /\ UserIn(AskedUid(query), db)
       /\ found \cup Records(shown) = Selected(query, db)
       /\ found \cap Records(shown) = {}
       /\ Cardinality(Records(shown)) < MaxRows
       /\ WithOtherEnd(shown)
  /\ AnswersComplete

\* Whatever the connection does, the thread comes back from every update and
\* every query, and takes the next request.
RequestAnswered == (pc # "idle" \/ at # "idle") ~> (pc = "idle" /\ at = "idle")

=============================================================================
