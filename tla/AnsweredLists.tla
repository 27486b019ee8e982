--------------------------- MODULE AnsweredLists ---------------------------
(***************************************************************************)
(* Which rows of a list a client may miss.  The handlers forget a row they *)
(* take back, so a history variable remembers it: `missed' holds the rows  *)
(* of the list being fetched whose user could not be looked up.  It takes  *)
(* no part in what the server does.                                        *)
(***************************************************************************)
EXTENDS QueryProperties

VARIABLE missed

observedVars == <<serverVars, missed>>

FailedLookup == at = "rows" /\ at' # "idle" /\ NotAnswered /\ found' # found

\* a lookup that fails costs the one row it was for
Observe ==
  \/ /\ FailedLookup
     /\ \E d \in found \ found' : missed' = missed \cup {d}
  \/ /\ ~FailedLookup
     /\ missed' = IF at' = "idle" THEN {} ELSE missed

ObservedSpec ==
  ServerInit /\ missed = {} /\ [][ServerNext /\ Observe]_observedVars

FairObservedSpec == ObservedSpec /\ HandlerFairness

\* the rows that match and whose user can be found
Named(q, tables) ==
  {d \in Selected(q, tables) : UserIn(OtherEnd(q, d[2]), tables)}

\* A granted list of requests or channels (mysqldb_handler.c 1222-1500) leaves
\* out only what it must.  Of the rows that match it has as many as there is
\* room for, each with the user at its other end, whichever of the lookups
\* between two rows fail: a row that was taken back takes no room from another
\* and does not end the loop, and no row is shown that was taken back.
ListsComplete ==
  at = "reply" /\ http = "200" /\ query.api \in ListApis =>
    LET due == Named(query, db) \ missed
    IN  /\ Records(shown) \subseteq due
        /\ Cardinality(Records(shown)) = Least(MaxRows, Cardinality(due))
        /\ WithOtherEnd(shown)

\* The inductive invariant: while a list is fetched every row that is due is
\* still to be fetched or is shown, none is in two places, and there is room.
DueInv ==
  /\ at \notin {"rows", "reply"} => missed = {}
  /\ at = "rows" =>
       /\ Named(query, db) \subseteq found \cup Records(shown) \cup missed
       /\ found \subseteq Selected(query, db)
       /\ Records(shown) \subseteq Named(query, db) \ missed
       /\ found \cap (Records(shown) \cup missed) = {}
       /\ Cardinality(Records(shown)) < MaxRows
       /\ WithOtherEnd(shown)
  /\ ListsComplete

=============================================================================
