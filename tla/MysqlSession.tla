--------------------------- MODULE MysqlSession ---------------------------
(***************************************************************************)
(* The one MySQL connection of the process (g_mysql_ctx) as the code uses  *)
(* it: mysql_ping, mysql_query and the two ends of a transaction, over     *)
(* InnoDB and a client library opened with MYSQL_OPT_RECONNECT             *)
(* (gweb_mysql_init).                                                      *)
(*                                                                         *)
(* Nobody else writes to the database.  What the environment may do to the *)
(* session is in Faults:                                                   *)
(*   "drop"       the connection breaks between two commands; the server   *)
(*                rolls back                                               *)
(*   "outage"     it may also break under a command, whose answer is then  *)
(*                lost, and reconnecting may fail                          *)
(*   "reject"     the server refuses a write (value too long, deadlock,    *)
(*                no space) and keeps the transaction open                 *)
(*   "crash"      the process dies and is started again                    *)
(***************************************************************************)
EXTENDS SqlTables

CONSTANT Faults

ASSUME FaultsAssumption ==
  Faults \subseteq {"drop", "outage", "reject", "crash"}

VARIABLES
  db,     \* the committed tables
  view,   \* the tables this session sees: db and its own open transaction
  txn,    \* the server has a transaction open for the session
  inTrans,\* the client library believes so (SERVER_STATUS_IN_TRANS)
  link    \* "up" or "dead"

sessionVars == <<db, view, txn, inTrans, link>>

SessionInit ==
  /\ db = NoRows
  /\ view = NoRows
  /\ txn = FALSE
  /\ inTrans = FALSE
  /\ link = "up"

(***************************************************************************)
(* A command reaches the server when the connection is up, or when the     *)
(* library may reconnect: it does so by itself, except when it believes a  *)
(* transaction was open; then it reports the loss once.                    *)
(***************************************************************************)
Reachable == link = "up" \/ ~inTrans

\* the server drops the session: its open transaction is rolled back
LoseConnection ==
  /\ "drop" \in Faults
  /\ link = "up"
  /\ link' = "dead"
  /\ view' = db
  /\ txn' = FALSE
  /\ UNCHANGED <<db, inTrans>>

\* the command fails for want of a connection
NotAnswered ==
  \/ /\ link = "dead"
     /\ inTrans \/ "outage" \in Faults
     /\ inTrans' = FALSE
     /\ UNCHANGED <<db, view, txn, link>>
  \/ "outage" \in Faults /\ LoseConnection

\* a ping or a SELECT that gets its answer
Answered ==
  /\ Reachable
  /\ link' = "up"
  /\ UNCHANGED <<db, view, txn, inTrans>>

\* START TRANSACTION commits a transaction that is still open
Started ==
  /\ Reachable
  /\ link' = "up"
  /\ db' = view
  /\ txn' = TRUE
  /\ inTrans' = TRUE
  /\ UNCHANGED view

\* outside a transaction every statement commits by itself
Executed(stmt) ==
  /\ Reachable
  /\ ~BreaksUnique(stmt, view)
  /\ link' = "up"
  /\ view' = Apply(stmt, view)
  /\ db' = IF txn THEN db ELSE view'
  /\ UNCHANGED <<txn, inTrans>>

\* a refused statement changes nothing and leaves the transaction open
Refused(stmt) ==
  /\ Reachable
  /\ "reject" \in Faults \/ BreaksUnique(stmt, view)
  /\ link' = "up"
  /\ UNCHANGED <<db, view, txn, inTrans>>

\* outside a transaction, the statement is done but its answer is lost
ExecutedUnheard(stmt) ==
  /\ {"drop", "outage"} \subseteq Faults
  /\ Reachable
  /\ ~txn
  /\ ~BreaksUnique(stmt, view)
  /\ link' = "dead"
  /\ view' = Apply(stmt, view)
  /\ db' = view'
  /\ UNCHANGED <<txn, inTrans>>

Committed ==
  /\ Reachable
  /\ link' = "up"
  /\ db' = view
  /\ txn' = FALSE
  /\ inTrans' = FALSE
  /\ UNCHANGED view

\* the commit is done but its answer is lost
CommittedUnheard ==
  /\ {"drop", "outage"} \subseteq Faults
  /\ Reachable
  /\ link' = "dead"
  /\ db' = view
  /\ txn' = FALSE
  /\ UNCHANGED <<view, inTrans>>

RolledBack ==
  /\ Reachable
  /\ link' = "up"
  /\ view' = db
  /\ txn' = FALSE
  /\ inTrans' = FALSE
  /\ UNCHANGED db

\* a new process: gweb_mysql_init opens a new connection
NewSession ==
  /\ view' = db
  /\ txn' = FALSE
  /\ inTrans' = FALSE
  /\ link' = "up"
  /\ UNCHANGED db

===========================================================================
