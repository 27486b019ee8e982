---------------------------- MODULE QueryProofs ----------------------------
(***************************************************************************)
(* The server answers queries from committed data: queries keep the        *)
(* invariants of the updates, updates run only between queries, and        *)
(* without refused statements what the session sees between two updates is *)
(* what is stored.                                                         *)
(***************************************************************************)
EXTENDS AnsweredLists, ServiceProofs, FunctionTheorems, FiniteSetTheorems

(***************************************************************************)
(* What a query does to the session and to the handlers' state.            *)
(***************************************************************************)
QueryCommand ==
  Answered \/ NotAnswered \/ LoseConnection \/ NewSession \/ UNCHANGED sessionVars

LEMMA SessionOfQuery == QueryNext => QueryCommand
BY DEF QueryNext, QueryStep, ReceiveQuery, QueryPing, CheckPassword, CheckUser,
       SelectUser, SelectPreferences, SelectList, SelectFails, ShowRow, SkipRow,
       QueryReply, QueryCommand

LEMMA QueryKeepsDb == QueryCommand => db' = db
BY DEF QueryCommand, Answered, NotAnswered, LoseConnection, NewSession, sessionVars

LEMMA QueryKeepsUpdateInv ==
  ASSUME TypeOK, KeptInv, pc = "idle", QueryCommand, UNCHANGED handlerVars
  PROVE  TypeOK' /\ KeptInv'
<1>1. SessionOK' /\ SessionInv' /\ TablesInv'
  BY CommandType, CommandSession, CommandTables, CommandEffect
     DEF TypeOK, KeptInv, QueryCommand
<1>2. HandlerOK'
  <2>1. PlanOK(plan)'
    BY DEF handlerVars, PlanOK, TypeOK, HandlerOK
  <2> QED BY <2>1 DEF handlerVars, TypeOK, HandlerOK
<1>3. PlanInv'
  BY DEF handlerVars, PlanInv
<1> QED BY <1>1, <1>2, <1>3 DEF TypeOK, KeptInv

LEMMA QueryKeepsRest ==
  ASSUME NoTransactionAtRest, pc = "idle", QueryCommand, UNCHANGED handlerVars
  PROVE  NoTransactionAtRest'
BY DEF NoTransactionAtRest, QueryCommand, Answered, NotAnswered, LoseConnection,
       NewSession, sessionVars, handlerVars

(***************************************************************************)
(* The data a query reads.                                                 *)
(***************************************************************************)
LEMMA SelectedFrom ==
  ASSUME NEW q \in Queries, NEW t
  PROVE  \A d \in Selected(q, t) : d[1] \in TableNames /\ d[2] \in t[d[1]]
<1>1. q.api \in ProfileApis \cup ListApis \cup
        {"uid_query", "avatar_query", "cxn_preference_query", "location_query"}
  BY QueriesAssumption
     DEF LoginQuery, UidQuery, UserQuery, CxnRequestQuery, CxnChannelQuery,
         ProfileApis, ListApis
<1>2. {RegInfo, Phone, Social, Address, Preference, Location, Request, Channel}
        \subseteq TableNames
  BY DEF TableNames
<1>3. CASE q.api \in {"uid_query", "avatar_query"}
  <2>1. Selected(q, t) = Of(RegInfo, UserRows(q, t))
    BY <1>3 DEF Selected, ProfileApis
  <2>2. UserRows(q, t) \subseteq t[RegInfo]
    BY DEF UserRows
  <2> QED BY <1>2, <2>1, <2>2 DEF Of
<1>4. CASE q.api \in ProfileApis
  <2>1. Selected(q, t) =
          Of(RegInfo, UserRows(q, t)) \cup JoinedRows(Phone, UserRows(q, t), t)
            \cup JoinedRows(Social, UserRows(q, t), t)
            \cup JoinedRows(Address, UserRows(q, t), t)
    BY <1>4 DEF Selected, ProfileApis
  <2>2. UserRows(q, t) \subseteq t[RegInfo]
    BY DEF UserRows
  <2>3. \A T : \A d \in JoinedRows(T, UserRows(q, t), t) : d[1] = T /\ d[2] \in t[T]
    BY DEF Of, JoinedRows
  <2>4. \A d \in Of(RegInfo, UserRows(q, t)) : d[1] = RegInfo /\ d[2] \in t[RegInfo]
    BY <2>2 DEF Of
  <2> QED BY <1>2, <2>1, <2>3, <2>4
<1>5. CASE q.api = "cxn_preference_query"
  BY <1>2, <1>5 DEF Selected, Of, ProfileApis
<1>6. CASE q.api = "location_query"
  BY <1>2, <1>6 DEF Selected, Of, ProfileApis
<1>7. CASE q.api = "cxn_request_query"
  BY <1>2, <1>7 DEF Selected, Of, ProfileApis
<1>8. CASE q.api = "cxn_channel_query"
  BY <1>2, <1>8 DEF Selected, Of, ProfileApis
<1> QED BY <1>1, <1>3, <1>4, <1>5, <1>6, <1>7, <1>8 DEF ListApis

LEMMA RowsAreData ==
  ASSUME NEW t, TablesOK(t), NEW data,
         \A d \in data : d[1] \in TableNames /\ d[2] \in t[d[1]]
  PROVE  DataOK(data)
BY DEF TablesOK, RowsOK, DataOK

\* what a query takes from the session: rows it selected, or a row it holds
\* and the user it looked up
ReadsFrom(data, t) == \A d \in data : d[1] \in TableNames /\ d[2] \in t[d[1]]

LEMMA ReadByStep ==
  ASSUME QueryStep, at # "idle" => query \in Queries
  PROVE  \E new : /\ ReadsFrom(new, view)
                  /\ found' \subseteq found \cup new
                  /\ shown' \subseteq shown \cup found \cup new
<1>0. ReadsFrom({}, view)
  BY DEF ReadsFrom
<1>1. CASE QueryPing \/ CheckPassword \/ CheckUser \/ SelectFails
  <2>1. found' = found /\ shown' = shown
    BY <1>1 DEF QueryPing, CheckPassword, CheckUser, SelectFails, GoOn, NoRecord,
                Respond
  <2> QED BY <1>0, <2>1
<1>2. CASE QueryReply
  BY <1>0, <1>2 DEF QueryReply, QueryIdle
<1>3. CASE SelectUser \/ SelectPreferences \/ SelectList
  <2>1. query \in Queries
    BY <1>3 DEF SelectUser, SelectPreferences, SelectList, Before
  <2>2. ReadsFrom(Selected(query, view), view)
    BY <2>1, SelectedFrom DEF ReadsFrom
  <2>3. /\ found' \subseteq found \cup Selected(query, view)
        /\ shown' \subseteq shown \cup Selected(query, view)
    BY <1>3 DEF SelectUser, SelectPreferences, SelectList, NoRecord, Respond,
                ShowAll
  <2> QED BY <2>2, <2>3
<1>4. CASE ShowRow
  <2>1. PICK d \in found, u \in Of(RegInfo, view[RegInfo]) :
          AfterRow(found \ {d}, shown \cup {d, u})
    BY <1>4 DEF ShowRow
  <2>2. ReadsFrom({u}, view)
    BY DEF ReadsFrom, Of, TableNames
  <2> QED BY <2>1, <2>2 DEF AfterRow
<1>5. CASE SkipRow
  BY <1>0, <1>5 DEF SkipRow, AfterRow
<1> QED BY <1>1, <1>2, <1>3, <1>4, <1>5 DEF QueryStep

(***************************************************************************)
(* The type of the query's state.                                          *)
(***************************************************************************)
LEMMA NotLast ==
  ASSUME NEW rest, rest # {}
  PROVE  ~LastRow(rest, {})
<1>1. {d \in {} : d[1] # RegInfo} = {}
  OBVIOUS
<1>2. Cardinality({d \in {} : d[1] # RegInfo}) = 0
  BY <1>1, FS_EmptySet
<1> QED BY <1>2, QueriesAssumption DEF LastRow

LEMMA ControlType ==
  ASSUME QueryTypeOK, QueryStep, UNCHANGED handlerVars
  PROVE  /\ at' \in {"idle", "user", "select", "rows", "reply"} \cup {at}
         /\ at' # "idle" => query' = query /\ at # "idle"
         /\ at' \notin {"rows", "reply"} => found' = {} /\ shown' = {}
         /\ at' \notin {"idle", "reply"} => at \notin {"idle", "reply"}
         /\ at' = "rows" => query'.api \in ListApis
         /\ waits' \in 0..1
         /\ code' \in {"none", "200", "404"}
         /\ http' \in {"none", "200", "404"}
<1> USE DEF QueryTypeOK
<1>1. CASE QueryPing
  BY <1>1 DEF QueryPing
<1>2. CASE CheckPassword \/ CheckUser \/ SelectFails
  BY <1>2 DEF CheckPassword, CheckUser, SelectFails, Before, GoOn, NoRecord, Respond
<1>3. CASE SelectUser \/ SelectPreferences \/ SelectList
  BY <1>3 DEF SelectUser, SelectPreferences, SelectList, Before, NoRecord, Respond,
              ShowAll
<1>4. CASE ShowRow \/ SkipRow
  BY <1>4 DEF ShowRow, SkipRow, AfterRow
<1>5. CASE QueryReply
  BY <1>5 DEF QueryReply, QueryIdle
<1> QED BY <1>1, <1>2, <1>3, <1>4, <1>5 DEF QueryStep

LEMMA RowsLeft ==
  ASSUME QueryTypeOK, QueryStep, at' = "rows"
  PROVE  ~LastRow(found', shown')
<1>1. CASE QueryPing
  BY <1>1 DEF QueryPing, QueryTypeOK
<1>2. CASE SelectList
  <2>1. shown' = {} /\ found' # {}
    BY <1>2 DEF SelectList, Before, ShowAll, QueryTypeOK
  <2> QED BY <2>1, NotLast
<1>3. CASE ShowRow \/ SkipRow
  BY <1>3 DEF ShowRow, SkipRow, AfterRow
<1>4. CASE \/ CheckPassword \/ CheckUser \/ SelectUser \/ SelectPreferences
           \/ SelectFails \/ QueryReply
  BY <1>4 DEF CheckPassword, CheckUser, SelectUser, SelectPreferences, SelectFails,
              QueryReply, QueryIdle, GoOn, NoRecord, Respond, ShowAll
<1> QED BY <1>1, <1>2, <1>3, <1>4 DEF QueryStep

LEMMA StepType ==
  ASSUME TypeOK, QueryTypeOK, QueryStep, pc = "idle", UNCHANGED handlerVars
  PROVE  QueryTypeOK'
<1>1. at # "idle" => query \in Queries
  BY DEF QueryTypeOK
<1>2. PICK new : /\ ReadsFrom(new, view)
                 /\ found' \subseteq found \cup new
                 /\ shown' \subseteq shown \cup found \cup new
  BY <1>1, ReadByStep
<1>3. DataOK(new)
  BY <1>2, RowsAreData DEF ReadsFrom, TypeOK, SessionOK
<1>4. DataOK(found') /\ DataOK(shown')
  BY <1>2, <1>3 DEF DataOK, QueryTypeOK
<1>5. at' \notin {"idle", "reply"} => ~LacksArgument(query)'
  BY ControlType DEF QueryTypeOK, LacksArgument
<1>6. at' = "rows" => ~LastRow(found, shown)'
  BY RowsLeft
<1>7. (at # "idle" => query \in Queries /\ pc = "idle")'
  BY <1>1, ControlType DEF handlerVars
<1>8. (DataOK(found) /\ DataOK(shown))'
  BY <1>4
<1> QED BY <1>5, <1>6, <1>7, <1>8, ControlType DEF QueryTypeOK

LEMMA ReceiveQueryType ==
  ASSUME QueryTypeOK, NEW q \in Queries, ReceiveQuery(q), pc = "idle",
         UNCHANGED handlerVars
  PROVE  QueryTypeOK'
<1>1. found' = {} /\ shown' = {}
  BY DEF ReceiveQuery, QueryTypeOK
<1>2. (DataOK(found) /\ DataOK(shown))'
  BY <1>1 DEF DataOK
<1>3. at' \in {"password", "user", "select", "reply"} /\ waits' \in 0..1
  BY DEF ReceiveQuery
<1>4. at' # "reply" => ~LacksArgument(query)'
  BY DEF ReceiveQuery, LacksArgument
<1> QED BY <1>1, <1>2, <1>3, <1>4 DEF ReceiveQuery, QueryTypeOK, handlerVars

LEMMA IdleQueryType ==
  ASSUME QueryIdle
  PROVE  QueryTypeOK'
<1>1. found' = {} /\ shown' = {}
  BY DEF QueryIdle
<1>2. (DataOK(found) /\ DataOK(shown))'
  BY <1>1 DEF DataOK
<1> QED BY <1>2 DEF QueryIdle, QueryTypeOK

LEMMA SameQueryType ==
  ASSUME QueryTypeOK, UNCHANGED queryVars, at = "idle" \/ pc' = pc
  PROVE  QueryTypeOK'
<1>1. (DataOK(found) /\ DataOK(shown))' /\ LacksArgument(query)' = LacksArgument(query)
  BY DEF queryVars, DataOK, LacksArgument, QueryTypeOK
<1> QED BY <1>1 DEF queryVars, QueryTypeOK, LastRow

(***************************************************************************)
(* The invariant of the server.                                            *)
(***************************************************************************)
ServerTypeInv == TypeOK /\ KeptInv /\ QueryTypeOK

LEMMA ServerInitType == ServerInit => ServerTypeInv
BY InitType, InitKept, IdleQueryType
   DEF ServerInit, ServerTypeInv, QueryInit, QueryTypeOK, DataOK

LEMMA ServerStepType == ServerTypeInv /\ [ServerNext]_serverVars => ServerTypeInv'
<1> SUFFICES ASSUME ServerTypeInv, [ServerNext]_serverVars PROVE ServerTypeInv'
  OBVIOUS
<1> USE DEF ServerTypeInv
<1>1. ASSUME [Next]_vars, UNCHANGED queryVars, at = "idle" \/ pc' = pc
      PROVE  ServerTypeInv'
  <2>1. TypeOK'
    BY <1>1, ReceiveType, PingType, LookupType, StartType, ExecType, FailType,
       CommitType, OtherType DEF Next
  <2> QED BY <1>1, <2>1, NextKept, SameQueryType
<1>2. ASSUME pc = "idle", QueryNext, UNCHANGED handlerVars
      PROVE  ServerTypeInv'
  <2>1. TypeOK' /\ KeptInv'
    BY <1>2, SessionOfQuery, QueryKeepsUpdateInv
  <2>2. QueryTypeOK'
    BY <1>2, StepType, ReceiveQueryType, IdleQueryType, SameQueryType
       DEF QueryNext, handlerVars
  <2> QED BY <2>1, <2>2
<1> QED BY <1>1, <1>2 DEF ServerNext, UpdateNext, serverVars, vars, handlerVars

\* The update handlers' tables and plans and the queries' control stay as
\* UpdateProperties and QueryProperties say when both run on one session
\* (mysqldb_handler.c), under every fault.
THEOREM ServerTypeCorrect == ServerSpec => []ServerTypeInv
BY ServerInitType, ServerStepType, PTL DEF ServerSpec

\* A query runs only between updates (mysqldb_handler.c), with the arguments
\* it needs, and leaves nothing it has read for the next one.
THEOREM QueryTypeCorrect == ServerSpec => []QueryTypeOK
<1>1. ServerTypeInv => QueryTypeOK
  BY DEF ServerTypeInv
<1> QED BY <1>1, ServerTypeCorrect, PTL

LEMMA ServerRest ==
  ASSUME "reject" \notin Faults
  PROVE  ServerSpec => []NoTransactionAtRest
<1>1. ServerInit => NoTransactionAtRest
  BY DEF ServerInit, Init, SessionInit, NoTransactionAtRest
<1>2. ASSUME ServerTypeInv, NoTransactionAtRest, [ServerNext]_serverVars
      PROVE  NoTransactionAtRest'
  <2>1. CASE [Next]_vars
    BY <1>2, <2>1, RestKept DEF ServerTypeInv
  <2>2. CASE pc = "idle" /\ QueryNext /\ UNCHANGED handlerVars
    BY <1>2, <2>2, SessionOfQuery, QueryKeepsRest
  <2> QED BY <1>2, <2>1, <2>2 DEF ServerNext, UpdateNext, serverVars
<1> QED BY <1>1, <1>2, ServerTypeCorrect, PTL DEF ServerSpec

LEMMA CommittedKept ==
  ASSUME ServerTypeInv, NoTransactionAtRest, AnswersCommitted,
         [ServerNext]_serverVars
  PROVE  AnswersCommitted'
<1> USE DEF AnswersCommitted
<1>1. CASE UpdateNext
  <2>1. found' = {} /\ shown' = {}
    BY <1>1 DEF UpdateNext, queryVars, ServerTypeInv, QueryTypeOK
  <2> QED BY <2>1 DEF Stands
<1>2. CASE pc = "idle" /\ QueryNext /\ UNCHANGED handlerVars
  <2>1. db' = db
    BY <1>2, SessionOfQuery, QueryKeepsDb
  <2>2. view = db
    BY <1>2 DEF NoTransactionAtRest, ServerTypeInv, KeptInv, SessionInv
  <2>3. CASE QueryStep
    <3>1. PICK new : /\ ReadsFrom(new, view)
                     /\ found' \subseteq found \cup new
                     /\ shown' \subseteq shown \cup found \cup new
      BY <2>3, ReadByStep DEF ServerTypeInv, QueryTypeOK
    <3>2. Stands(new)
      BY <2>2, <3>1 DEF ReadsFrom, Stands
    <3>3. \A d \in found' \cup shown' : d[2] \in db'[d[1]]
      BY <2>1, <3>1, <3>2 DEF Stands
    <3> QED BY <3>3 DEF Stands
  <2>4. CASE ~QueryStep
    <3>1. found' \subseteq found /\ shown' \subseteq shown
      BY <1>2, <2>4 DEF QueryNext, ReceiveQuery, queryVars, QueryIdle
    <3> QED BY <2>1, <3>1 DEF Stands
  <2> QED BY <2>3, <2>4
<1>3. CASE UNCHANGED serverVars
  <2>1. db' = db /\ found' = found /\ shown' = shown
    BY <1>3 DEF serverVars, vars, sessionVars, queryVars
  <2> QED BY <2>1 DEF Stands
<1> QED BY <1>1, <1>2, <1>3 DEF ServerNext

\* Updates and queries on one session (mysqldb_handler.c): no query sees, or
\* tells a client of, an update that is not committed, however often the
\* connection is lost and the process restarted, if the server refuses no
\* statement.
THEOREM AnswersCommittedHolds ==
  ASSUME "reject" \notin Faults
  PROVE  ServerSpec => []AnswersCommitted
<1>1. ServerInit => AnswersCommitted
  BY DEF ServerInit, QueryInit, AnswersCommitted, Stands
<1> QED BY <1>1, CommittedKept, ServerRest, ServerTypeCorrect, PTL DEF ServerSpec

(***************************************************************************)
(* The server keeps what the update handlers promise under some faults.    *)
(***************************************************************************)
LEMMA ServerSteps ==
  [ServerNext]_serverVars =>
    \/ [Next]_vars /\ UNCHANGED queryVars
    \/ pc = "idle" /\ QueryNext /\ QueryCommand /\ UNCHANGED handlerVars
BY SessionOfQuery DEF ServerNext, UpdateNext, serverVars

LEMMA QueryView == QueryCommand => db' = db /\ view' \in {view, db}
BY DEF QueryCommand, Answered, NotAnswered, LoseConnection, NewSession, sessionVars

LEMMA QueryKeepsQuiet ==
  ASSUME RestInv, pc = "idle", QueryCommand, UNCHANGED handlerVars
  PROVE  RestInv'
<1>1. "drop" \notin Faults => link' = "up"
  BY QuietCommand DEF QueryCommand, RestInv, QuietInv
<1>2. AtRest /\ AtRest'
  BY DEF AtRest, handlerVars
<1>3. ~inTrans => ~inTrans'
  BY DEF QueryCommand, Answered, NotAnswered, LoseConnection, NewSession, sessionVars
<1>4. "reject" \notin Faults => NoTransactionAtRest'
  BY QueryKeepsRest DEF RestInv
<1> QED BY <1>1, <1>2, <1>3, <1>4 DEF RestInv, QuietInv

LEMMA QueryKeepsTables ==
  ASSUME pc = "idle", QueryCommand, UNCHANGED handlerVars
  PROVE  /\ ReplacedInv => ReplacedInv'
         /\ ReferencesInv => ReferencesInv'
         /\ EffectInv => EffectInv'
<1>1. db' = db /\ view' \in {view, db} /\ pc' = "idle" /\ msg' = msg /\ status' = status
  BY QueryView DEF handlerVars
<1>2. ReplacedInv => ReplacedInv'
  BY <1>1 DEF ReplacedInv, Resting
<1>3. RefersToUsers(db) /\ RefersToUsers(view) => RefersToUsers(db)' /\ RefersToUsers(view)'
  BY <1>1
<1>4. ReferencesInv => ReferencesInv'
  BY <1>1, <1>3 DEF ReferencesInv, Resting
<1>5. EffectInv => EffectInv'
  BY <1>1 DEF EffectInv, Resting
<1> QED BY <1>2, <1>4, <1>5

\* The handles, channels and preferences have one row per key
\* (mysqldb_handler.c 675-706, 913-950, 1703-1736), whatever queries run
\* between the updates.
THEOREM ServerReplacesOnce ==
  ASSUME Steady, DistinctChannels
  PROVE  ServerSpec => []ReplacedOnce
<1>1. ServerInit => RestInv /\ ReplacedInv
  BY RestInvInit, ReplacedInit DEF ServerInit
<1>2. ASSUME ServerTypeInv, RestInv, ReplacedInv, [ServerNext]_serverVars
      PROVE  (RestInv /\ ReplacedInv)'
  <2>1. CASE [Next]_vars
    BY <1>2, <2>1, RestInvKept, ReplacedKept DEF ServerTypeInv
  <2>2. CASE ~[Next]_vars
    BY <1>2, <2>2, ServerSteps, QueryKeepsQuiet, QueryKeepsTables
  <2> QED BY <2>1, <2>2
<1>3. ReplacedInv => ReplacedOnce
  BY DEF ReplacedInv, ReplacedOnce
<1> QED BY <1>1, <1>2, <1>3, ServerTypeCorrect, PTL DEF ServerSpec

LEMMA ServerServiceInv == ASSUME Calm PROVE ServerSpec => []ServiceInv
<1>1. ServerInit => ServiceInv
  BY RestInvInit, ReferencesInit, EffectInit DEF ServiceInv, ServerInit
<1>2. ASSUME ServerTypeInv, ServerTypeInv', ServiceInv, [ServerNext]_serverVars
      PROVE  ServiceInv'
  <2>1. CASE [Next]_vars
    BY <1>2, <2>1, RestInvKept, ReferencesKept, EffectKept
       DEF ServiceInv, ServerTypeInv
  <2>2. CASE ~[Next]_vars
    BY <1>2, <2>2, ServerSteps, QueryKeepsQuiet, QueryKeepsTables DEF ServiceInv
  <2> QED BY <2>1, <2>2
<1> QED BY <1>1, <1>2, ServerTypeCorrect, PTL DEF ServerSpec

\* Queries between the updates leave the service as it is: one thread serves
\* both over one session (gweb_server.c, mysqldb_handler.c), and still every
\* update is refused or takes its whole effect at once, if the server refuses
\* no statement that breaks no constraint and keeps no commit whose answer is
\* lost.
THEOREM ServerImplementsService ==
  ASSUME Faithful
  PROVE  ServerSpec => ImplementsService
<1>1. ServerInit => Service!ServiceInit
  BY ServiceInitial DEF ServerInit
<1>2. ASSUME ServerTypeInv, ServiceInv, [ServerNext]_serverVars
      PROVE  [Service!ServiceNext]_(Service!serviceVars)
  <2>1. CASE [Next]_vars
    BY <1>2, <2>1, HandlersServe, FaithfulIsCalm DEF ServerTypeInv
  <2>2. CASE ~[Next]_vars
    <3>1. db' = db /\ UNCHANGED handlerVars
      BY <1>2, <2>2, ServerSteps, QueryKeepsDb
    <3> QED BY <3>1, ServiceStutters DEF handlerVars
  <2> QED BY <2>1, <2>2
<1>3. ServerSpec => []ServiceInv
  BY ServerServiceInv, FaithfulIsCalm
<1> QED
  BY <1>1, <1>2, <1>3, ServerTypeCorrect, PTL
     DEF ServerSpec, ImplementsService, Service!ServiceSpec

(***************************************************************************)
(* The tables are finite, so the length of a list means something.         *)
(***************************************************************************)
LEMMA ImageFinite ==
  ASSUME NEW S, IsFiniteSet(S), NEW f, f = [x \in S |-> f[x]]
  PROVE  IsFiniteSet({f[x] : x \in S})
<1> DEFINE T == {f[x] : x \in S}
<1>1. f \in [S -> T] /\ \A t \in T : \E s \in S : f[s] = t
  OBVIOUS
<1>2. f \in Surjection(S, T)
  BY <1>1, Fun_IsSurj
<1> QED BY <1>2, FS_Surjection

LEMMA RowsFinite ==
  ASSUME NEW rows, IsFiniteSet(rows), NEW new, IsFiniteSet(new), NEW keys, NEW v
  PROVE  /\ IsFiniteSet(AddRows(rows, new))
         /\ IsFiniteSet(SetRows(rows, keys, v))
         /\ IsFiniteSet(DropRows(rows, keys))
<1> DEFINE f == [r \in new |-> [key |-> r.key, val |-> r.val,
                                id |-> r.id + LastId(rows, r.key)]]
           g == [r \in rows |-> [key |-> r.key,
                                 val |-> IF r.key \in keys THEN v ELSE r.val,
                                 id |-> r.id]]
<1>1. IsFiniteSet({f[r] : r \in new}) /\ IsFiniteSet({g[r] : r \in rows})
  <2>1. f = [r \in new |-> f[r]] /\ g = [r \in rows |-> g[r]]
    OBVIOUS
  <2> HIDE DEF f, g
  <2> QED BY <2>1, ImageFinite
<1>2. AddRows(rows, new) = rows \cup {f[r] : r \in new}
  BY DEF AddRows
<1>3. SetRows(rows, keys, v) = {g[r] : r \in rows}
  BY DEF SetRows
<1>4. DropRows(rows, keys) \in SUBSET rows
  BY DEF DropRows
<1> HIDE DEF f, g
<1> QED BY <1>1, <1>2, <1>3, <1>4, FS_Union, FS_Subset

FiniteTables(t) == \A T \in TableNames : IsFiniteSet(t[T])
FiniteInsert(s) == s.op = "insert" => IsFiniteSet(s.rows)
FinitePlan(p) == \A i \in DOMAIN p : FiniteInsert(p[i])

FiniteInv == FiniteTables(db) /\ FiniteTables(view) /\ FinitePlan(plan)

LEMMA ApplyFinite ==
  ASSUME NEW s, StatementOK(s), FiniteInsert(s), NEW t, TablesOK(t), FiniteTables(t)
  PROVE  FiniteTables(Apply(s, t))
<1> SUFFICES ASSUME NEW T \in TableNames PROVE IsFiniteSet(Apply(s, t)[T])
  BY DEF FiniteTables
<1>1. IsFiniteSet(t[T])
  BY DEF FiniteTables
<1>2. CASE s.table # T
  BY <1>1, <1>2, ApplyTable
<1>3. CASE s.table = T /\ s.op = "insert"
  BY <1>1, <1>3, ApplyTable, RowsFinite DEF FiniteInsert
<1>4. CASE s.table = T /\ s.op \in {"update", "delete"}
  BY <1>1, <1>4, ApplyTable, RowsFinite, FS_EmptySet
<1> QED BY <1>2, <1>3, <1>4 DEF StatementOK

LEMMA FinitePlans ==
  /\ FinitePlan(<<>>)
  /\ \A s : FiniteInsert(s) => FinitePlan(<<s>>)
  /\ \A s, t : FiniteInsert(s) /\ FiniteInsert(t) => FinitePlan(<<s, t>>)
<1>1. FinitePlan(<<>>)
  <2>1. DOMAIN <<>> = {}
    OBVIOUS
  <2> QED BY <2>1 DEF FinitePlan
<1>2. ASSUME NEW s, FiniteInsert(s) PROVE FinitePlan(<<s>>)
  <2>1. DOMAIN <<s>> = {1} /\ <<s>>[1] = s
    OBVIOUS
  <2> QED BY <1>2, <2>1 DEF FinitePlan
<1>3. ASSUME NEW s, NEW t, FiniteInsert(s), FiniteInsert(t)
      PROVE  FinitePlan(<<s, t>>)
  <2>1. DOMAIN <<s, t>> = {1, 2} /\ <<s, t>>[1] = s /\ <<s, t>>[2] = t
    OBVIOUS
  <2> QED BY <1>3, <2>1 DEF FinitePlan
<1> QED BY <1>1, <1>2, <1>3

LEMMA FiniteConcat ==
  ASSUME NEW p, PlanOK(p), NEW q, PlanOK(q), FinitePlan(p), FinitePlan(q)
  PROVE  FinitePlan(p \o q)
<1> DEFINE pq == p \o q
<1>1. \A i \in DOMAIN pq : \/ i \in DOMAIN p /\ pq[i] = p[i]
                           \/ \E j \in DOMAIN q : pq[i] = q[j]
  BY ConcatShape
<1> HIDE DEF pq
<1>2. FinitePlan(pq)
  BY <1>1 DEF FinitePlan
<1> QED BY <1>2 DEF pq

LEMMA FiniteStatements ==
  /\ \A T, k, v : FiniteInsert(Insert(T, {Row(k, v)}))
  /\ \A T, keys, v : FiniteInsert(Update(T, keys, v))
  /\ \A T, keys : FiniteInsert(Delete(T, keys))
BY FS_Singleton DEF FiniteInsert, Insert, Update, Delete

LEMMA GrantedFinite ==
  ASSUME FiniteTables(view), TypeOK, pc = "public", msg.api = "cxn_request"
  PROVE  PlanOK(GrantStatements) /\ FinitePlan(GrantStatements)
<1> DEFINE d == Delete(Channel, PairKeys)
           b == Insert(Channel, GrantedRows(view))
           f == [r \in ExposedRows(view) |-> GrantRow(r)]
<1>1. ExposedRows(view) \in SUBSET view[Preference] /\ Preference \in TableNames
  BY DEF ExposedRows, TableNames
<1>2. IsFiniteSet(ExposedRows(view))
  BY <1>1, FS_Subset DEF FiniteTables
<1>3. f = [r \in ExposedRows(view) |-> f[r]]
      /\ {GrantRow(r) : r \in ExposedRows(view)} = {f[r] : r \in ExposedRows(view)}
  OBVIOUS
<1>4. IsFiniteSet({GrantRow(r) : r \in ExposedRows(view)})
  <2> HIDE DEF f
  <2> QED BY <1>2, <1>3, ImageFinite
<1>5. IsFiniteSet(GrantedRows(view))
  BY <1>4, FS_Singleton DEF GrantedRows
<1>6. FiniteInsert(d) /\ FiniteInsert(b)
  BY <1>5, FiniteStatements DEF FiniteInsert, Insert
<1>7. GrantStatements = <<d, b>>
  BY DEF GrantStatements
<1> HIDE DEF d, b
<1> QED BY <1>6, <1>7, FinitePlans, PublicPlanOK

LEMMA LookupFinite ==
  ASSUME TypeOK, FiniteInv, Lookup
  PROVE  FinitePlan(plan')
<1>0. HandlerOK /\ FinitePlan(plan) /\ PlanOK(plan) /\ pc \notin {"idle", "reply"}
  BY LookupCommand DEF TypeOK, HandlerOK, FiniteInv, Resting
<1>1. CASE CheckRegistration
  <2> DEFINE a == Insert(RegInfo, {Row(<<msg.uid, msg.email>>, Absent)})
             b == Insert(Phone, {Row(<<msg.uid>>, Absent)})
  <2>1. plan' = plan \/ plan' = <<a, b>>
    BY <1>1 DEF CheckRegistration, Finish, Go
  <2>2. FiniteInsert(a) /\ FiniteInsert(b)
    BY FiniteStatements
  <2> HIDE DEF a, b
  <2> QED BY <1>0, <2>1, <2>2, FinitePlans
<1>2. CASE CheckAvatar
  <2>1. plan' = plan \/ plan' = <<Update(RegInfo, {msg.uid} \X Emails, msg.url)>>
    BY <1>2 DEF CheckAvatar, BareReturn, Finish, Go
  <2> QED BY <1>0, <2>1, FinitePlans, FiniteStatements
<1>3. CASE CheckProfile \/ CheckBothUids \/ CheckLocation
  BY <1>0, <1>3 DEF CheckProfile, CheckBothUids, CheckLocation, BareReturn, Finish, Go
<1>4. CASE CheckPreference
  <2> DEFINE list == msg.list
             keys == {<<msg.uid, list[i].channel>> : i \in DOMAIN list}
             rows == {[key |-> <<msg.uid, list[i].channel>>, val |-> list[i].flag,
                       id |-> i] : i \in DOMAIN list}
             f == [i \in DOMAIN list |-> [key |-> <<msg.uid, list[i].channel>>,
                                          val |-> list[i].flag, id |-> i]]
             a == Delete(Preference, keys)
             b == Insert(Preference, rows)
  <2>1. plan' = plan \/ plan' = <<a, b>>
    BY <1>4 DEF CheckPreference, Finish, Go
  <2>2. msg \in Messages /\ msg.api = "cxn_preference"
    BY <1>0, <1>4, RunningMessage DEF CheckPreference, At
  <2>3. list \in Seq(Preferences)
    BY <2>2, MessageShape
  <2>4. IsFiniteSet(DOMAIN list)
    <3>1. DOMAIN list = 1..Len(list) /\ Len(list) \in Int
      BY <2>3
    <3> QED BY <3>1, FS_Interval
  <2>5. f = [i \in DOMAIN list |-> f[i]] /\ rows = {f[i] : i \in DOMAIN list}
    OBVIOUS
  <2>6. IsFiniteSet(rows)
    <3> HIDE DEF f, rows
    <3> QED BY <2>4, <2>5, ImageFinite
  <2>7. FiniteInsert(a) /\ FiniteInsert(b)
    <3> HIDE DEF keys, rows
    <3> QED BY <2>6, FiniteStatements DEF FiniteInsert, Insert
  <2> HIDE DEF a, b
  <2> QED BY <1>0, <2>1, <2>7, FinitePlans
<1>5. CASE LookupAddress
  <2> DEFINE key == <<msg.uid>>
             a == Update(Address, {key}, msg.address)
             b == Insert(Address, {Row(key, msg.address)})
  <2>1. plan' = plan \/ plan' = <<>> \/ plan' = <<a>> \/ plan' = <<b>>
    BY <1>5 DEF LookupAddress, BareReturn, Finish, Go
  <2>2. FiniteInsert(a) /\ FiniteInsert(b)
    BY FiniteStatements
  <2> HIDE DEF a, b
  <2> QED BY <1>0, <2>1, <2>2, FinitePlans
<1>6. CASE LookupFacebook \/ LookupTwitter
  <2> DEFINE f == SocialStatement("facebook", msg.facebook)
             t == SocialStatement("twitter", msg.twitter)
  <2>1. PlanOK(f) /\ PlanOK(t)
    BY <1>0, <1>6, SocialStatementType, RunningMessage, MessageShape
       DEF LookupFacebook, LookupTwitter, At
  <2>2. plan' = plan \/ plan' = plan \o f \/ plan' = plan \o t
    BY <1>6 DEF LookupFacebook, LookupTwitter, BareReturn, Finish, Go
  <2>3. \A network, handle : FinitePlan(SocialStatement(network, handle))
    <3> SUFFICES ASSUME NEW network, NEW handle
          PROVE  FinitePlan(SocialStatement(network, handle))
      OBVIOUS
    <3> DEFINE key == <<msg.uid, network>>
               a == Delete(Social, {key})
               b == Update(Social, {key}, handle)
               c == Insert(Social, {Row(key, handle)})
    <3>1. SocialStatement(network, handle) \in {<<>>, <<a>>, <<b>>, <<c>>}
      BY MessagesAssumption DEF SocialStatement
    <3>2. FiniteInsert(a) /\ FiniteInsert(b) /\ FiniteInsert(c)
      BY FiniteStatements
    <3> HIDE DEF a, b, c
    <3> QED BY <3>1, <3>2, FinitePlans
  <2>4. FinitePlan(plan \o f) /\ FinitePlan(plan \o t)
    <3>1. FinitePlan(f) /\ FinitePlan(t)
      BY <2>3
    <3> HIDE DEF f, t
    <3> QED BY <1>0, <2>1, <3>1, FiniteConcat
  <2> HIDE DEF f, t
  <2> QED BY <1>0, <2>2, <2>4
<1>7. CASE LookupRequest
  <2> DEFINE key == <<msg.from, msg.to>>
             a == Update(Request, {key}, msg.flag)
             b == Insert(Request, {Row(key, msg.flag)})
  <2>1. plan' = plan \/ plan' = <<a>> \/ plan' = <<b>>
    BY <1>7 DEF LookupRequest, Finish, Go
  <2>2. FiniteInsert(a) /\ FiniteInsert(b)
    BY FiniteStatements
  <2> HIDE DEF a, b
  <2> QED BY <1>0, <2>1, <2>2, FinitePlans
<1>8. CASE LookupPublic
  <2>1. plan' = plan \/ plan' = plan \o GrantStatements
    BY <1>8, PublicStep DEF Finish, Go
  <2>2. PlanOK(GrantStatements) /\ FinitePlan(GrantStatements)
    BY <1>8, PublicStep, GrantedFinite DEF FiniteInv
  <2> QED BY <1>0, <2>1, <2>2, FiniteConcat
<1>9. CASE LookupChannel
  <2> DEFINE b == Insert(Channel, {Row(<<msg.from, msg.to, msg.type>>, Absent)})
  <2>1. plan' = plan \/ plan' = <<b>>
    BY <1>9 DEF LookupChannel, Finish, Go
  <2>2. FiniteInsert(b)
    BY FiniteStatements
  <2> HIDE DEF b
  <2> QED BY <1>0, <2>1, <2>2, FinitePlans
<1>10. CASE LookupLocation
  <2> DEFINE key == <<msg.uid>>
             a == Update(Location, {key}, msg.place)
             b == Insert(Location, {Row(key, msg.place)})
  <2>1. plan' = plan \/ plan' = <<a>> \/ plan' = <<b>>
    BY <1>10 DEF LookupLocation, BareReturn, Finish, Go
  <2>2. FiniteInsert(a) /\ FiniteInsert(b)
    BY FiniteStatements
  <2> HIDE DEF a, b
  <2> QED BY <1>0, <2>1, <2>2, FinitePlans
<1> QED
  BY <1>1, <1>2, <1>3, <1>4, <1>5, <1>6, <1>7, <1>8, <1>9, <1>10 DEF Lookup

LEMMA FiniteKept == ASSUME TypeOK, FiniteInv, [Next]_vars PROVE FiniteInv'
<1>1. FiniteTables(db') /\ FiniteTables(view')
  <2>1. CASE ExecStatement \/ FailStatement
    <3> DEFINE s == Head(plan)
    <3>1. plan # <<>> /\ PlanOK(plan) /\ TablesOK(view)
      BY <2>1 DEF TypeOK, HandlerOK, SessionOK, ExecStatement, FailStatement
    <3>2. StatementOK(s) /\ FiniteInsert(s)
      BY <3>1, PlanShape DEF FiniteInv, FinitePlan
    <3>3. FiniteTables(Apply(s, view))
      BY <3>1, <3>2, ApplyFinite DEF FiniteInv
    <3>4. /\ view' \in {view, db, Apply(s, view)}
          /\ db' \in {db, Apply(s, view)}
      BY <2>1 DEF ExecStatement, FailStatement, Executed, Refused, ExecutedUnheard,
                  NotAnswered, LoseConnection
    <3> QED BY <3>3, <3>4 DEF FiniteInv
  <2>2. CASE ~(ExecStatement \/ FailStatement)
    <3>1. \/ Answered \/ NotAnswered \/ Started \/ Committed \/ CommittedUnheard
          \/ RolledBack \/ LoseConnection \/ NewSession \/ UNCHANGED sessionVars
      BY <2>2, LookupCommand
         DEF Next, Receive, Ping, RequestWithoutFlag, StartTransaction, Commit,
             Rollback, Reply, Disconnect, Restart, vars
    <3>2. view' \in {view, db} /\ db' \in {view, db}
      BY <3>1 DEF Answered, NotAnswered, Started, Committed, CommittedUnheard,
                  RolledBack, LoseConnection, NewSession, sessionVars
    <3> QED BY <3>2 DEF FiniteInv
  <2> QED BY <2>1, <2>2
<1>2. FinitePlan(plan')
  <2>1. CASE Lookup
    BY <2>1, LookupFinite
  <2>2. CASE ExecStatement
    <3>1. plan' = Tail(plan) /\ plan # <<>> /\ PlanOK(plan)
      BY <2>2 DEF ExecStatement, Go, TypeOK, HandlerOK
    <3>2. FinitePlan(Tail(plan))
      BY <3>1, PlanShape DEF FinitePlan, FiniteInv
    <3> QED BY <3>1, <3>2
  <2>3. CASE ~Lookup /\ ~ExecStatement
    <3>1. plan' = plan \/ plan' = <<>>
      BY <2>3 DEF Next, Receive, Ping, RequestWithoutFlag, StartTransaction,
                  FailStatement, Commit, Rollback, Reply, Disconnect, Restart, vars,
                  handlerVars, Go, Finish, BareReturn, Idle
    <3> QED BY <3>1, FinitePlans DEF FiniteInv
  <2> QED BY <2>1, <2>2, <2>3
<1> QED BY <1>1, <1>2 DEF FiniteInv

LEMMA ServerFinite == ServerSpec => []FiniteInv
<1>1. ServerInit => FiniteInv
  BY FS_EmptySet, FinitePlans
     DEF ServerInit, Init, SessionInit, NoRows, FiniteInv, FiniteTables
<1>2. ASSUME ServerTypeInv, FiniteInv, [ServerNext]_serverVars PROVE FiniteInv'
  <2>1. CASE [Next]_vars
    BY <1>2, <2>1, FiniteKept DEF ServerTypeInv
  <2>2. CASE ~[Next]_vars
    <3>1. db' = db /\ view' \in {view, db} /\ plan' = plan
      BY <1>2, <2>2, ServerSteps, QueryView DEF handlerVars
    <3> QED BY <1>2, <3>1 DEF FiniteInv
  <2> QED BY <2>1, <2>2
<1> QED BY <1>1, <1>2, ServerTypeCorrect, PTL DEF ServerSpec

(***************************************************************************)
(* A granted list is whole.                                                *)
(***************************************************************************)
LEMMA NothingUnanswered ==
  ASSUME Faithful, RestInv, pc = "idle"
  PROVE  ~NotAnswered
BY DEF Faithful, RestInv, QuietInv, Calm, AtRest, NotAnswered, LoseConnection

\* the table a list comes from
ListTable(q) == IF q.api = "cxn_request_query" THEN Request ELSE Channel

LEMMA ListRows ==
  ASSUME NEW q, q.api \in ListApis, NEW t
  PROVE  /\ Selected(q, t) = Of(ListTable(q), {r \in t[ListTable(q)] : Listed(q, r)})
         /\ ListTable(q) \in {Request, Channel} /\ ListTable(q) \in TableNames
         /\ \A d \in Selected(q, t) : d[1] # RegInfo
<1>1. Selected(q, t) = Of(ListTable(q), {r \in t[ListTable(q)] : Listed(q, r)})
  BY DEF Selected, ListApis, ProfileApis, ListTable
<1>2. ListTable(q) \in TableNames /\ ListTable(q) \in {Request, Channel}
      /\ ListTable(q) # RegInfo
  BY DEF ListTable, TableNames, Request, Channel, RegInfo
<1> QED BY <1>1, <1>2 DEF Of

LEMMA ListedUsers ==
  ASSUME NEW q, q.api \in ListApis, NEW t, RefersToUsers(t)
  PROVE  \A d \in Selected(q, t) : UserIn(OtherEnd(q, d[2]), t)
<1>1. \A r \in t[ListTable(q)] : UserIn(r.key[1], t) /\ UserIn(r.key[2], t)
  BY ListRows DEF RefersToUsers, Refers
<1> QED BY <1>1, ListRows DEF Of, OtherEnd

LEMMA ListFinite ==
  ASSUME NEW q, q.api \in ListApis, NEW t, FiniteTables(t)
  PROVE  IsFiniteSet(Selected(q, t))
<1> DEFINE T == ListTable(q)
           rows == {r \in t[T] : Listed(q, r)}
           f == [r \in rows |-> <<T, r>>]
<1>1. IsFiniteSet(t[T]) /\ rows \in SUBSET t[T]
  BY ListRows DEF FiniteTables
<1>2. IsFiniteSet(rows)
  <2> HIDE DEF rows
  <2> QED BY <1>1, FS_Subset
<1>3. Selected(q, t) = {f[r] : r \in rows}
  <2>1. Selected(q, t) = Of(T, rows)
    BY ListRows
  <2>2. Of(T, rows) = {f[r] : r \in rows}
    BY DEF Of
  <2> QED BY <2>1, <2>2
<1>4. f = [r \in rows |-> f[r]]
  OBVIOUS
<1> HIDE DEF rows, f
<1> QED BY <1>2, <1>3, <1>4, ImageFinite

\* counting the rows shown
LEMMA WholeList ==
  ASSUME NEW S, IsFiniteSet(S), NEW rest, NEW done,
         rest \cup done = S, rest \cap done = {}, Cardinality(done) <= MaxRows,
         rest = {} \/ Cardinality(done) = MaxRows
  PROVE  Cardinality(done) = Least(MaxRows, Cardinality(S))
<1>1. done \in SUBSET S
  OBVIOUS
<1>2. IsFiniteSet(done) /\ Cardinality(done) <= Cardinality(S)
  BY <1>1, FS_Subset
<1>3. /\ Cardinality(done) \in Nat /\ Cardinality(S) \in Nat /\ MaxRows \in Nat
  BY <1>2, FS_CardinalityType, QueriesAssumption
<1>4. CASE rest = {}
  <2>1. done = S
    BY <1>4
  <2> QED BY <1>3, <2>1 DEF Least
<1>5. CASE Cardinality(done) = MaxRows
  BY <1>2, <1>3, <1>5 DEF Least
<1> QED BY <1>4, <1>5

\* one more row and the user at its other end
LEMMA OneMoreRow ==
  ASSUME query.api \in ListApis, FiniteTables(db), ListInv,
         at = "rows", NEW d \in found, NEW u, u[1] = RegInfo,
         u[2].key[1] = OtherEnd(query, d[2])
  PROVE  LET rest == found \ {d}
             data == shown \cup {d, u}
         IN  /\ Records(data) = Records(shown) \cup {d}
             /\ rest \cup Records(data) = Selected(query, db)
             /\ rest \cap Records(data) = {}
             /\ Cardinality(Records(data)) <= MaxRows
             /\ WithOtherEnd(data)
<1> DEFINE rest == found \ {d}
           data == shown \cup {d, u}
<1>1. /\ found \cup Records(shown) = Selected(query, db)
      /\ found \cap Records(shown) = {}
      /\ Cardinality(Records(shown)) < MaxRows
      /\ WithOtherEnd(shown)
  BY DEF ListInv
<1>2. d[1] # RegInfo
  BY <1>1, ListRows
<1>3. Records(data) = Records(shown) \cup {d}
  BY <1>2 DEF Records
<1>4. IsFiniteSet(Selected(query, db)) /\ Records(shown) \in SUBSET Selected(query, db)
  BY <1>1, ListFinite
<1>5. IsFiniteSet(Records(shown))
  BY <1>4, FS_Subset
<1>6. Cardinality(Records(data)) <= MaxRows
  <2> DEFINE n == Cardinality(Records(shown))
  <2>1. n \in Nat /\ n < MaxRows
    BY <1>1, <1>5, FS_CardinalityType
  <2>2. Cardinality(Records(data)) \in {n, n + 1}
    BY <1>3, <1>5, FS_AddElement
  <2> HIDE DEF n, data
  <2> QED BY <2>1, <2>2, QueriesAssumption
<1>7. WithOtherEnd(data)
  BY <1>1, <1>3 DEF WithOtherEnd
<1>8. rest \cup Records(data) = Selected(query, db) /\ rest \cap Records(data) = {}
  BY <1>1, <1>3
<1> QED BY <1>3, <1>6, <1>7, <1>8

LEMMA NoRecords ==
  /\ Records({}) = {} /\ Cardinality({}) = 0 /\ 0 < MaxRows
  /\ Least(MaxRows, Cardinality({})) = 0
<1>1. Records({}) = {}
  BY DEF Records
<1>2. Cardinality({}) = 0
  BY FS_EmptySet
<1> QED BY <1>1, <1>2, QueriesAssumption DEF Least

\* a list that goes on or is complete after a row
LEMMA AfterList ==
  ASSUME query.api \in ListApis, FiniteTables(db), ListInv,
         at = "rows", NEW rest, NEW data, AfterRow(rest, data), db' = db,
         rest \cup Records(data) = Selected(query, db),
         rest \cap Records(data) = {},
         Cardinality(Records(data)) <= MaxRows, WithOtherEnd(data)
  PROVE  ListInv'
<1>1. IsFiniteSet(Selected(query, db))
  BY ListFinite
<1>2. /\ found' = rest /\ shown' = data /\ query' = query
      /\ at' = IF LastRow(rest, data) THEN "reply" ELSE "rows"
      /\ LastRow(rest, data) <=> rest = {} \/ Cardinality(Records(data)) = MaxRows
  BY DEF AfterRow, LastRow, Records
<1>3. UserIn(AskedUid(query), db)
  BY DEF ListInv
<1>4. WithOtherEnd(shown)'
  BY <1>2 DEF WithOtherEnd
<1>5. CASE LastRow(rest, data)
  <2>1. Cardinality(Records(data)) = Least(MaxRows, Cardinality(Selected(query, db)))
    BY <1>1, <1>2, <1>5, WholeList
  <2>2. at' = "reply"
    BY <1>2, <1>5
  <2> QED BY <1>2, <1>3, <1>4, <2>1, <2>2 DEF ListInv, AnswersComplete
<1>6. CASE ~LastRow(rest, data)
  <2>1. Records(data) \in SUBSET Selected(query, db)
    OBVIOUS
  <2>2. Cardinality(Records(data)) \in Nat
    BY <1>1, <2>1, FS_Subset, FS_CardinalityType
  <2>3. Cardinality(Records(data)) < MaxRows
    BY <1>2, <1>6, <2>2, QueriesAssumption
  <2>4. at' = "rows"
    BY <1>2, <1>6
  <2> QED BY <1>2, <1>3, <1>4, <2>3, <2>4 DEF ListInv, AnswersComplete
<1> QED BY <1>5, <1>6

LEMMA ListStep ==
  ASSUME Faithful, ServerTypeInv, RestInv, ReferencesInv, FiniteInv, ListInv,
         pc = "idle", QueryStep
  PROVE  ListInv'
<1>1. ~NotAnswered
  BY NothingUnanswered
<1>2. view = db
  BY DEF Faithful, RestInv, NoTransactionAtRest, ServerTypeInv, KeptInv, SessionInv
<1>3. db' = db
  BY SessionOfQuery, QueryKeepsDb DEF QueryNext
<1>4. RefersToUsers(db) /\ FiniteTables(db)
  BY DEF ReferencesInv, FiniteInv
<1>5. at = "rows" => query.api \in ListApis
  BY DEF ServerTypeInv, QueryTypeOK
<1>6. CASE QueryPing
  <2>1. /\ at' = at /\ query' = query /\ found' = found /\ shown' = shown
        /\ http' = http
    BY <1>6 DEF QueryPing
  <2> QED BY <1>3, <2>1 DEF ListInv, AnswersComplete, WithOtherEnd
<1>7. CASE CheckPassword \/ SelectUser \/ SelectPreferences
  <2>1. query.api \notin ListApis /\ query' = query /\ at' # "rows"
    BY <1>7 DEF CheckPassword, SelectUser, SelectPreferences, Before, GoOn, NoRecord,
                Respond, ShowAll, ListApis, ProfileApis
  <2> QED BY <2>1 DEF ListInv, AnswersComplete
<1>8. CASE CheckUser
  <2>1. CASE Registered(AskedUid(query)) /\ GoOn("select", 1)
    BY <1>2, <1>3, <2>1 DEF Registered, UserIn, GoOn, ListInv, AnswersComplete
  <2>2. CASE NoRecord
    BY <2>2 DEF NoRecord, Respond, ListInv, AnswersComplete
  <2> QED BY <1>1, <1>8, <2>1, <2>2 DEF CheckUser
<1>9. CASE SelectList
  <2>1. /\ query.api \in ListApis /\ at = "select" /\ query' = query
        /\ UserIn(AskedUid(query), db) /\ shown = {}
    BY <1>9 DEF SelectList, Before, ShowAll, ListInv, ServerTypeInv, QueryTypeOK
  <2>2. CASE ShowAll({}) /\ Selected(query, view) = {}
    <3>1. shown' = {} /\ at' = "reply"
      BY <2>2 DEF ShowAll
    <3>2. Records(shown') = {} /\ Selected(query, db') = {}
      BY <1>2, <1>3, <2>2, <3>1, NoRecords
    <3>3. WithOtherEnd(shown)'
      BY <3>2 DEF WithOtherEnd
    <3> QED
      BY <1>3, <2>1, <3>1, <3>2, <3>3, NoRecords DEF ListInv, AnswersComplete
  <2>3. CASE /\ found' = Selected(query, view)
             /\ at' = "rows" /\ UNCHANGED <<query, waits, shown, code, http>>
    <3>1. Records(shown') = {}
      BY <2>1, <2>3, NoRecords
    <3>2. WithOtherEnd(shown)'
      BY <3>1 DEF WithOtherEnd
    <3> QED
      BY <1>2, <1>3, <2>1, <2>3, <3>1, <3>2, NoRecords DEF ListInv, AnswersComplete
  <2> QED BY <1>9, <2>2, <2>3 DEF SelectList
<1>10. CASE SelectFails
  BY <1>1, <1>10 DEF SelectFails
<1>11. CASE ShowRow
  <2>1. PICK d \in found, u \in Of(RegInfo, view[RegInfo]) :
          /\ u[2].key[1] = OtherEnd(query, d[2])
          /\ AfterRow(found \ {d}, shown \cup {d, u})
    BY <1>11 DEF ShowRow
  <2>2. at = "rows" /\ u[1] = RegInfo
    BY <1>11, <2>1 DEF ShowRow, Of
  <2> DEFINE rest == found \ {d}
             data == shown \cup {d, u}
  <2>3. /\ rest \cup Records(data) = Selected(query, db)
        /\ rest \cap Records(data) = {}
        /\ Cardinality(Records(data)) <= MaxRows
        /\ WithOtherEnd(data)
    BY <1>4, <1>5, <2>1, <2>2, OneMoreRow
  <2>4. AfterRow(rest, data)
    BY <2>1
  <2> HIDE DEF rest, data
  <2> QED BY <1>3, <1>4, <1>5, <2>2, <2>3, <2>4, AfterList
<1>12. CASE SkipRow
  <2>1. PICK d \in found : ~Registered(OtherEnd(query, d[2]))
    BY <1>1, <1>12 DEF SkipRow
  <2>2. d \in Selected(query, db) /\ at = "rows"
    BY <1>12, <2>1 DEF SkipRow, ListInv
  <2>3. UserIn(OtherEnd(query, d[2]), view)
    BY <1>2, <1>4, <1>5, <2>2, ListedUsers
  <2> QED BY <2>1, <2>3 DEF Registered, UserIn
<1>13. CASE QueryReply
  BY <1>13 DEF QueryReply, QueryIdle, ListInv, AnswersComplete
<1> QED
  BY <1>6, <1>7, <1>8, <1>9, <1>10, <1>11, <1>12, <1>13 DEF QueryStep

LEMMA ListKept ==
  ASSUME Faithful, ServerTypeInv, RestInv, ReferencesInv, FiniteInv, ListInv,
         [ServerNext]_serverVars
  PROVE  ListInv'
<1>1. CASE QueryStep /\ pc = "idle"
  BY <1>1, ListStep
<1>2. CASE at = "idle" /\ UNCHANGED queryVars
  BY <1>2 DEF queryVars, ListInv, AnswersComplete
<1>3. ASSUME NEW q \in Queries, ReceiveQuery(q) PROVE ListInv'
  <2>1. at' # "rows" /\ query' = q
    BY <1>3 DEF ReceiveQuery
  <2>2. at' = "select" => q.api \notin ListApis
    BY <1>3 DEF ReceiveQuery, ListApis
  <2>3. at' = "reply" => http' = "404"
    BY <1>3 DEF ReceiveQuery
  <2> QED BY <2>1, <2>2, <2>3 DEF ListInv, AnswersComplete
<1>4. CASE QueryIdle
  BY <1>4 DEF QueryIdle, ListInv, AnswersComplete
<1>5. CASE db' = db /\ UNCHANGED queryVars
  BY <1>5 DEF queryVars, ListInv, AnswersComplete, WithOtherEnd
<1> QED
  BY <1>1, <1>2, <1>3, <1>4, <1>5
     DEF ServerNext, UpdateNext, QueryNext, LoseConnection, serverVars, vars,
         sessionVars

\* A granted list of requests or channels (mysqldb_handler.c 1222-1500) has
\* every row that matches, up to the limit of the response, each with the
\* user at its other end, and was asked for a registered user: no row of the
\* stored table is dropped from it, and none is counted twice.
THEOREM AnswersCompleteHolds ==
  ASSUME Faithful
  PROVE  ServerSpec => []AnswersComplete
<1>1. ServerInit => ListInv
  BY DEF ServerInit, QueryInit, ListInv, AnswersComplete
<1>2. ServerTypeInv /\ ServiceInv /\ FiniteInv /\ ListInv /\ [ServerNext]_serverVars
        => ListInv'
  BY ListKept DEF ServiceInv
<1>3. ServerSpec => []ServiceInv
  BY ServerServiceInv, FaithfulIsCalm
<1>4. ListInv => AnswersComplete
  BY DEF ListInv
<1> QED BY <1>1, <1>2, <1>3, <1>4, ServerFinite, ServerTypeCorrect, PTL DEF ServerSpec

(***************************************************************************)
(* A list misses no more than the rows whose lookups failed.               *)
(***************************************************************************)
LEMMA ObservedServer == ObservedSpec => ServerSpec
<1>1. [ServerNext /\ Observe]_observedVars => [ServerNext]_serverVars
  BY DEF observedVars
<1> QED BY <1>1, PTL DEF ObservedSpec, ServerSpec

LEMMA AnswerHeard == ~(Answered /\ NotAnswered)
BY DEF Answered, NotAnswered, LoseConnection

LEMMA NamedFinite ==
  ASSUME NEW q, q.api \in ListApis, NEW t, FiniteTables(t), NEW lost
  PROVE  IsFiniteSet(Named(q, t) \ lost)
<1>1. Named(q, t) \ lost \in SUBSET Selected(q, t)
  BY DEF Named
<1> QED BY <1>1, ListFinite, FS_Subset

\* a list that goes on or is complete after a row, shown or left out
LEMMA DueAfterRow ==
  ASSUME query.api \in ListApis, FiniteTables(db), db' = db,
         NEW rest, NEW data, AfterRow(rest, data),
         Named(query, db) \subseteq rest \cup Records(data) \cup missed',
         rest \subseteq Selected(query, db),
         Records(data) \subseteq Named(query, db) \ missed',
         rest \cap (Records(data) \cup missed') = {},
         Cardinality(Records(data)) <= MaxRows, WithOtherEnd(data)
  PROVE  DueInv'
<1> DEFINE due == Named(query, db) \ missed'
<1>1. IsFiniteSet(due)
  BY NamedFinite
<1>2. /\ found' = rest /\ shown' = data /\ query' = query
      /\ at' = IF LastRow(rest, data) THEN "reply" ELSE "rows"
      /\ LastRow(rest, data) <=> rest = {} \/ Cardinality(Records(data)) = MaxRows
  BY DEF AfterRow, LastRow, Records
<1>3. WithOtherEnd(shown)'
  BY <1>2 DEF WithOtherEnd
<1>4. CASE LastRow(rest, data)
  <2>1. Cardinality(Records(data)) = Least(MaxRows, Cardinality(due))
    <3> DEFINE left == rest \cap due
    <3>1. left \cup Records(data) = due /\ left \cap Records(data) = {}
      OBVIOUS
    <3>2. left = {} \/ Cardinality(Records(data)) = MaxRows
      BY <1>2, <1>4
    <3> HIDE DEF left, due
    <3> QED BY <1>1, <3>1, <3>2, WholeList
  <2>2. at' = "reply"
    BY <1>2, <1>4
  <2>3. ListsComplete'
    BY <1>2, <1>3, <2>1 DEF ListsComplete
  <2> QED BY <2>2, <2>3 DEF DueInv
<1>5. CASE ~LastRow(rest, data)
  <2>1. Records(data) \in SUBSET due
    OBVIOUS
  <2>2. Cardinality(Records(data)) \in Nat
    <3> HIDE DEF due
    <3> QED BY <1>1, <2>1, FS_Subset, FS_CardinalityType
  <2>3. Cardinality(Records(data)) < MaxRows
    BY <1>2, <1>5, <2>2, QueriesAssumption
  <2>4. at' = "rows"
    BY <1>2, <1>5
  <2>5. ListsComplete'
    BY <2>4 DEF ListsComplete
  <2> QED BY <1>2, <1>3, <2>3, <2>4, <2>5 DEF DueInv
<1> QED BY <1>4, <1>5

\* a row shown beside the user at its other end
LEMMA DueRow ==
  ASSUME query.api \in ListApis, FiniteTables(db), DueInv, at = "rows",
         NEW d \in found, NEW u \in Of(RegInfo, db[RegInfo]),
         u[2].key[1] = OtherEnd(query, d[2])
  PROVE  LET data == shown \cup {d, u}
         IN  /\ d \in Named(query, db)
             /\ Records(data) = Records(shown) \cup {d}
             /\ Cardinality(Records(data)) <= MaxRows
             /\ WithOtherEnd(data)
<1> DEFINE data == shown \cup {d, u}
<1>1. /\ found \subseteq Selected(query, db)
      /\ Records(shown) \subseteq Named(query, db) \ missed
      /\ Cardinality(Records(shown)) < MaxRows
      /\ WithOtherEnd(shown)
  BY DEF DueInv
<1>2. d[1] # RegInfo /\ u[1] = RegInfo /\ u[2] \in db[RegInfo]
  BY <1>1, ListRows DEF Of
<1>3. d \in Named(query, db)
  BY <1>1, <1>2 DEF Named, UserIn
<1>4. Records(data) = Records(shown) \cup {d}
  BY <1>2 DEF Records
<1>5. IsFiniteSet(Records(shown))
  BY <1>1, NamedFinite, FS_Subset
<1>6. Cardinality(Records(data)) <= MaxRows
  <2> DEFINE n == Cardinality(Records(shown))
  <2>1. n \in Nat /\ n < MaxRows
    BY <1>1, <1>5, FS_CardinalityType
  <2>2. Cardinality(Records(data)) \in {n, n + 1}
    BY <1>4, <1>5, FS_AddElement
  <2> HIDE DEF n, data
  <2> QED BY <2>1, <2>2, QueriesAssumption
<1>7. WithOtherEnd(data)
  BY <1>1, <1>2, <1>4 DEF WithOtherEnd
<1> QED BY <1>3, <1>4, <1>6, <1>7

LEMMA DueStep ==
  ASSUME ServerTypeInv, NoTransactionAtRest, FiniteInv, DueInv, pc = "idle",
         QueryStep, Observe
  PROVE  DueInv'
<1>1. view = db
  BY DEF NoTransactionAtRest, ServerTypeInv, KeptInv, SessionInv
<1>2. db' = db /\ FiniteTables(db)
  BY SessionOfQuery, QueryKeepsDb DEF QueryNext, FiniteInv
<1>3. at = "rows" => query.api \in ListApis
  BY DEF ServerTypeInv, QueryTypeOK
<1>4. at \notin {"rows", "reply"} => missed = {} /\ missed' = {}
  BY DEF DueInv, Observe, FailedLookup
<1>5. CASE QueryPing
  <2>1. /\ at' = at /\ query' = query /\ found' = found /\ shown' = shown
        /\ http' = http
    BY <1>5 DEF QueryPing
  <2>2. missed' = missed
    BY <1>4, <2>1 DEF Observe, FailedLookup
  <2>3. WithOtherEnd(shown)' = WithOtherEnd(shown)
    BY <2>1 DEF WithOtherEnd
  <2> QED BY <1>2, <2>1, <2>2, <2>3 DEF DueInv, ListsComplete
<1>6. CASE CheckPassword \/ SelectUser \/ SelectPreferences
  <2>1. /\ query.api \notin ListApis /\ query' = query /\ at' # "rows"
        /\ at \notin {"rows", "reply"}
    BY <1>6 DEF CheckPassword, SelectUser, SelectPreferences, Before, GoOn, NoRecord,
                Respond, ShowAll, ListApis, ProfileApis
  <2> QED BY <1>4, <2>1 DEF DueInv, ListsComplete
<1>7. CASE CheckUser \/ SelectFails
  <2>1. /\ at \notin {"rows", "reply"} /\ at' # "rows"
        /\ at' = "reply" => http' = "404"
    BY <1>7 DEF CheckUser, SelectFails, GoOn, NoRecord, Respond
  <2> QED BY <1>4, <2>1 DEF DueInv, ListsComplete
<1>8. CASE SelectList
  <2>1. /\ query.api \in ListApis /\ at = "select" /\ query' = query
        /\ shown = {} /\ missed' = {}
    BY <1>4, <1>8 DEF SelectList, Before, ShowAll, ServerTypeInv, QueryTypeOK
  <2>2. shown' = {}
    BY <1>8, <2>1 DEF SelectList, ShowAll
  <2>3. Records(shown') = {} /\ WithOtherEnd(shown)'
    BY <2>2, NoRecords DEF WithOtherEnd
  <2>4. CASE Selected(query, view) = {} /\ at' = "reply"
    <3>1. Named(query, db) = {} /\ Named(query', db') \ missed' = {}
      BY <1>1, <1>2, <2>1, <2>4 DEF Named
    <3> QED BY <2>3, <2>4, <3>1, NoRecords DEF DueInv, ListsComplete
  <2>5. CASE found' = Selected(query, view) /\ at' = "rows"
    BY <1>1, <1>2, <2>1, <2>3, <2>5, NoRecords DEF DueInv, ListsComplete, Named
  <2> QED BY <1>8, <2>4, <2>5 DEF SelectList, ShowAll
<1>9. CASE ShowRow
  <2>1. PICK d \in found, u \in Of(RegInfo, view[RegInfo]) :
          /\ u[2].key[1] = OtherEnd(query, d[2])
          /\ Answered
          /\ AfterRow(found \ {d}, shown \cup {d, u})
    BY <1>9 DEF ShowRow
  <2>2. at = "rows"
    BY <1>9 DEF ShowRow
  <2> DEFINE rest == found \ {d}
             data == shown \cup {d, u}
  <2>3. missed' = missed
    BY <2>1, <2>2, AnswerHeard DEF Observe, FailedLookup, AfterRow
  <2>4. /\ d \in Named(query, db)
        /\ Records(data) = Records(shown) \cup {d}
        /\ Cardinality(Records(data)) <= MaxRows
        /\ WithOtherEnd(data)
    BY <1>1, <1>2, <1>3, <2>1, <2>2, DueRow
  <2>5. /\ Named(query, db) \subseteq rest \cup Records(data) \cup missed'
        /\ rest \subseteq Selected(query, db)
        /\ Records(data) \subseteq Named(query, db) \ missed'
        /\ rest \cap (Records(data) \cup missed') = {}
    <3> HIDE DEF data
    <3> QED BY <2>1, <2>2, <2>3, <2>4 DEF DueInv
  <2>6. AfterRow(rest, data)
    BY <2>1
  <2> HIDE DEF rest, data
  <2> QED BY <1>2, <1>3, <2>2, <2>4, <2>5, <2>6, DueAfterRow
<1>10. CASE SkipRow
  <2>1. PICK d \in found :
          /\ \/ ~Registered(OtherEnd(query, d[2])) /\ Answered
             \/ NotAnswered
          /\ AfterRow(found \ {d}, shown)
    BY <1>10 DEF SkipRow
  <2>2. /\ at = "rows" /\ at' # "idle" /\ found' = found \ {d} /\ found' # found
        /\ found \ found' = {d}
    BY <1>10, <2>1 DEF SkipRow, AfterRow
  <2>3. \/ d \notin Named(query, db) /\ missed' = missed
        \/ missed' = missed \cup {d}
    <3>1. CASE NotAnswered
      BY <2>2, <3>1 DEF Observe, FailedLookup
    <3>2. CASE ~Registered(OtherEnd(query, d[2])) /\ ~NotAnswered
      BY <1>1, <2>2, <3>2 DEF Observe, FailedLookup, Registered, UserIn, Named
    <3> QED BY <2>1, <3>1, <3>2, AnswerHeard
  <2> DEFINE rest == found \ {d}
  <2>4. /\ Named(query, db) \subseteq rest \cup Records(shown) \cup missed'
        /\ rest \subseteq Selected(query, db)
        /\ Records(shown) \subseteq Named(query, db) \ missed'
        /\ rest \cap (Records(shown) \cup missed') = {}
    BY <2>1, <2>2, <2>3 DEF DueInv
  <2>5. WithOtherEnd(shown) /\ Cardinality(Records(shown)) <= MaxRows
    <3>1. Cardinality(Records(shown)) < MaxRows /\ WithOtherEnd(shown)
      BY <2>2 DEF DueInv
    <3>2. IsFiniteSet(Records(shown))
      BY <1>2, <1>3, <2>2, NamedFinite, FS_Subset DEF DueInv
    <3> QED BY <3>1, <3>2, FS_CardinalityType, QueriesAssumption
  <2>6. AfterRow(rest, shown)
    BY <2>1
  <2> HIDE DEF rest
  <2> QED BY <1>2, <1>3, <2>2, <2>4, <2>5, <2>6, DueAfterRow
<1>11. CASE QueryReply
  <2>1. at' = "idle"
    BY <1>11 DEF QueryReply, QueryIdle
  <2> QED BY <2>1 DEF DueInv, ListsComplete, Observe, FailedLookup
<1> QED
  BY <1>5, <1>6, <1>7, <1>8, <1>9, <1>10, <1>11 DEF QueryStep

LEMMA DueKept ==
  ASSUME ServerTypeInv, NoTransactionAtRest, FiniteInv, DueInv,
         [ServerNext /\ Observe]_observedVars
  PROVE  DueInv'
<1>1. CASE QueryStep /\ pc = "idle" /\ Observe
  BY <1>1, DueStep
<1>2. CASE at = "idle" /\ UNCHANGED queryVars /\ Observe
  BY <1>2 DEF queryVars, DueInv, ListsComplete, Observe, FailedLookup
<1>3. ASSUME NEW q \in Queries, ReceiveQuery(q), Observe PROVE DueInv'
  <2>1. /\ at = "idle" /\ at' \notin {"idle", "rows"}
        /\ at' = "reply" => http' = "404"
    BY <1>3 DEF ReceiveQuery
  <2> QED BY <1>3, <2>1 DEF DueInv, ListsComplete, Observe, FailedLookup
<1>4. CASE QueryIdle /\ Observe
  BY <1>4 DEF QueryIdle, DueInv, ListsComplete, Observe, FailedLookup
<1>5. CASE db' = db /\ UNCHANGED queryVars /\ missed' = missed
  BY <1>5 DEF queryVars, DueInv, ListsComplete, WithOtherEnd
<1>6. CASE at # "idle" /\ db' = db /\ UNCHANGED queryVars /\ Observe
  <2>1. missed' = missed
    BY <1>6 DEF queryVars, Observe, FailedLookup
  <2> QED BY <1>5, <1>6, <2>1
<1> QED
  BY <1>1, <1>2, <1>3, <1>4, <1>5, <1>6
     DEF ServerNext, UpdateNext, QueryNext, LoseConnection, observedVars, serverVars,
         vars, sessionVars

\* A granted list of requests or channels (mysqldb_handler.c 1222-1500) has,
\* up to the limit of the response, every row that matches and whose user is
\* stored, but for those whose own lookup failed: whatever becomes of the
\* connection between two rows, no other row is dropped, none is counted
\* twice, and each comes with the user at its other end; if the server
\* refuses no statement.
THEOREM ListsCompleteHolds ==
  ASSUME "reject" \notin Faults
  PROVE  ObservedSpec => []ListsComplete
<1>1. ServerInit /\ missed = {} => DueInv
  BY DEF ServerInit, QueryInit, DueInv, ListsComplete
<1>2. /\ ServerTypeInv /\ NoTransactionAtRest /\ FiniteInv /\ DueInv
      /\ [ServerNext /\ Observe]_observedVars
      => DueInv'
  BY DueKept
<1>3. DueInv => ListsComplete
  BY DEF DueInv
<1> QED
  BY <1>1, <1>2, <1>3, ObservedServer, ServerTypeCorrect, ServerRest, ServerFinite, PTL
     DEF ObservedSpec

=============================================================================
