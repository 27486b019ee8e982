--------------------------- MODULE QueryHandlers ---------------------------
(***************************************************************************)
(* The query APIs of mysqldb_handler.c, beside the update APIs of          *)
(* UpdateHandlers: one thread serves both, over one MySQL session, so a    *)
(* query runs while no update does and reads what the session sees.        *)
(*                                                                         *)
(* `at' is the next mysql_query of the running query and `waits' how many  *)
(* gweb_mysql_ping calls come before it.  A piece of data is <<T, r>>, a   *)
(* row r of the table T: `found' holds the rows of a list that are still   *)
(* to be fetched, `shown' the data put into the response.  A password is   *)
(* "right" or "wrong" for the e-mail it comes with.                        *)
(***************************************************************************)
EXTENDS UpdateHandlers

CONSTANTS
  Queries,   \* the queries clients send
  MaxRows    \* MYSQL_MAX_CXN_*_ROWS_PER_QUERY

LoginQuery == [api : {"login"}, email : Opt(Emails),
               password : Opt({"right", "wrong"})]
UidQuery == [api : {"uid_query"}, email : Opt(Emails)]
UserQuery == [api : {"profile_query", "avatar_query", "cxn_preference_query",
                     "location_query"}, uid : Opt(Uids)]
CxnRequestQuery == [api : {"cxn_request_query"}, from : Opt(Uids),
                    to : Opt(Uids), flag : Opt(Flags)]
CxnChannelQuery == [api : {"cxn_channel_query"}, from : Opt(Uids),
                    to : Opt(Uids), type : Opt(ChannelIds)]

ASSUME QueriesAssumption ==
  /\ Queries \subseteq LoginQuery \cup UidQuery \cup UserQuery
                        \cup CxnRequestQuery \cup CxnChannelQuery
  /\ MaxRows \in Nat \ {0}

VARIABLES query, at, waits, found, shown, code, http

queryVars == <<query, at, waits, found, shown, code, http>>
serverVars == <<vars, queryVars>>

QueryInit ==
  /\ query = Absent
  /\ at = "idle"
  /\ waits = 0
  /\ found = {}
  /\ shown = {}
  /\ code = "none"
  /\ http = "none"

(***************************************************************************)
(* Control.                                                                *)
(***************************************************************************)
ListApis == {"cxn_request_query", "cxn_channel_query"}
ProfileApis == {"login", "profile_query"}

Before(point, apis) == at = point /\ waits = 0 /\ query.api \in apis

GoOn(point, n) ==
  /\ at' = point
  /\ waits' = n
  /\ UNCHANGED <<query, found, shown, code, http>>

Respond(c, h) ==
  /\ at' = "reply"
  /\ code' = c
  /\ http' = h
  /\ UNCHANGED <<query, waits, found, shown>>

NoRecord == Respond("404", "404")

QueryIdle ==
  /\ query' = Absent
  /\ at' = "idle"
  /\ waits' = 0
  /\ found' = {}
  /\ shown' = {}
  /\ code' = "none"
  /\ http' = "none"

LacksArgument(q) ==
  \/ q.api \in {"login", "uid_query"} /\ q.email = Absent
  \/ q.api = "login" /\ q.password = Absent
  \/ q.api \in {"profile_query", "avatar_query", "cxn_preference_query",
                "location_query"} /\ q.uid = Absent
  \/ q.api \in ListApis /\ q.from = Absent /\ q.to = Absent

\* every query allocates an OK response before it does anything
ReceiveQuery(q) ==
  /\ at = "idle"
  /\ query' = q
  /\ IF LacksArgument(q)
     THEN /\ at' = "reply"
          /\ waits' = 0
          /\ code' = "404"
          /\ http' = "404"
     ELSE /\ at' = CASE q.api = "login" -> "password"
                     [] q.api \in {"uid_query", "avatar_query"} -> "select"
                     [] OTHER -> "user"
          /\ waits' = IF q.api = "login" THEN 0 ELSE 1
          /\ code' = "200"
          /\ http' = "none"
  /\ UNCHANGED <<sessionVars, found, shown>>

QueryPing ==
  /\ waits > 0
  /\ Answered \/ NotAnswered
  /\ waits' = waits - 1
  /\ UNCHANGED <<query, at, found, shown, code, http>>

(***************************************************************************)
(* The conditions of the SELECTs.                                          *)
(***************************************************************************)
\* the side a list is asked for, and the other end of one of its rows: a
\* sender wins over a receiver
AskedUid(q) ==
  IF q.api \in ListApis THEN IF q.from # Absent THEN q.from ELSE q.to
  ELSE q.uid

OtherEnd(q, r) == IF q.from # Absent THEN r.key[2] ELSE r.key[1]

Listed(q, r) ==
  /\ IF q.from # Absent THEN r.key[1] = q.from ELSE r.key[2] = q.to
  /\ q.api = "cxn_request_query" => q.flag \in {Absent, r.val}
  /\ q.api = "cxn_channel_query" => q.type \in {Absent, r.key[3]}

Of(T, rows) == {<<T, r>> : r \in rows}

UserRows(q, tables) ==
  {r \in tables[RegInfo] :
     IF q.api \in {"login", "uid_query"} THEN r.key[2] = q.email
     ELSE r.key[1] = q.uid}

\* the LEFT JOINs of gweb_mysql_populate_profile_info
JoinedRows(T, users, tables) ==
  Of(T, {r \in tables[T] : \E s \in users : s.key[1] = r.key[1]})

Selected(q, tables) ==
  CASE q.api \in {"uid_query", "avatar_query"} ->
         Of(RegInfo, UserRows(q, tables))
    [] q.api \in ProfileApis ->
         LET users == UserRows(q, tables)
         IN  Of(RegInfo, users) \cup JoinedRows(Phone, users, tables)
               \cup JoinedRows(Social, users, tables)
               \cup JoinedRows(Address, users, tables)
    [] q.api = "cxn_preference_query" ->
         Of(Preference, {r \in tables[Preference] : r.key[1] = q.uid})
    [] q.api = "location_query" ->
         Of(Location, {r \in tables[Location] : r.key[1] = q.uid})
    [] q.api = "cxn_request_query" ->
         Of(Request, {r \in tables[Request] : Listed(q, r)})
    [] q.api = "cxn_channel_query" ->
         Of(Channel, {r \in tables[Channel] : Listed(q, r)})

Least(m, n) == IF m < n THEN m ELSE n

(***************************************************************************)
(* The queries, command by command.                                        *)
(***************************************************************************)
\* e-mail and password together must be in UserRegInfo
CheckPassword ==
  /\ Before("password", {"login"})
  /\ \/ /\ Answered
        /\ IF query.password = "right" /\ UserRows(query, view) # {}
           THEN GoOn("select", 1) ELSE NoRecord
     \/ NotAnswered /\ NoRecord

\* profile_query refuses a failed lookup, the others take -1 for a user
CheckUser ==
  /\ at = "user" /\ waits = 0
  /\ \/ /\ Answered
        /\ IF Registered(AskedUid(query)) THEN GoOn("select", 1) ELSE NoRecord
     \/ /\ NotAnswered
        /\ IF query.api = "profile_query" THEN NoRecord ELSE GoOn("select", 1)

ShowAll(rows) ==
  /\ at' = "reply"
  /\ shown' = rows
  /\ http' = "200"
  /\ UNCHANGED <<query, waits, found, code>>

\* profile, avatar, e-mail and location: the row, or 404
SelectUser ==
  /\ Before("select", ProfileApis \cup {"uid_query", "avatar_query",
                                         "location_query"})
  /\ Answered
  /\ LET rows == Selected(query, view)
     IN  IF rows = {} THEN NoRecord ELSE ShowAll(rows)

\* as many preferences as the response has room for, in any order
SelectPreferences ==
  /\ Before("select", {"cxn_preference_query"})
  /\ Answered
  /\ LET rows == Selected(query, view)
     IN  IF rows = {} THEN NoRecord
         ELSE \E some \in SUBSET rows :
                /\ Cardinality(some) = Least(MaxRows, Cardinality(rows))
                /\ ShowAll(some)

\* mutation: an empty result is fetched from like any other
SelectAnyList ==
  /\ Before("select", ListApis)
  /\ Answered
  /\ found' = Selected(query, view)
  /\ at' = "rows"
  /\ UNCHANGED <<query, waits, shown, code, http>>

\* an empty list is an answer, too
SelectList ==
  /\ Before("select", ListApis)
  /\ Answered
  /\ LET rows == Selected(query, view)
     IN  IF rows = {} THEN ShowAll({})
         ELSE /\ found' = rows
              /\ at' = "rows"
              /\ UNCHANGED <<query, waits, shown, code, http>>

\* a failed profile SELECT leaves a response without a code, the others one
\* that says 200
SelectFails ==
  /\ at = "select" /\ waits = 0
  /\ NotAnswered
  /\ Respond(IF query.api \in ProfileApis THEN "none" ELSE code, "404")

\* the result is used up, or the response is full
LastRow(rest, records) ==
  rest = {} \/ Cardinality({d \in records : d[1] # RegInfo}) = MaxRows

\* mutation: the loop does not go on to the next row
SameRow(rest, records) ==
  /\ shown' = records
  /\ at' = IF LastRow(found, records) THEN "reply" ELSE "rows"
  /\ http' = IF LastRow(found, records) THEN "200" ELSE http
  /\ UNCHANGED <<query, waits, found, code>>

AfterRow(rest, records) ==
  /\ found' = rest
  /\ shown' = records
  /\ at' = IF LastRow(rest, records) THEN "reply" ELSE "rows"
  /\ http' = IF LastRow(rest, records) THEN "200" ELSE http
  /\ UNCHANGED <<query, waits, code>>

\* gweb_mysql_get_name_avatar_from_uid finds the user at the other end
ShowRow ==
  /\ at = "rows"
  /\ \E d \in found, u \in Of(RegInfo, view[RegInfo]) :
       /\ u[2].key[1] = OtherEnd(query, d[2])
       /\ Answered
       /\ AfterRow(found \ {d}, shown \cup {d, u})

\* mutation: the loop ends at a row that is left out
StopAtRow ==
  /\ at = "rows"
  /\ \E d \in found :
       /\ \/ ~Registered(OtherEnd(query, d[2])) /\ Answered
          \/ NotAnswered
       /\ AfterRow({}, shown)

\* it does not, or it fails: the row is left out
SkipRow ==
  /\ at = "rows"
  /\ \E d \in found :
       /\ \/ ~Registered(OtherEnd(query, d[2])) /\ Answered
          \/ NotAnswered
       /\ AfterRow(found \ {d}, shown)

QueryReply ==
  /\ at = "reply"
  /\ QueryIdle
  /\ UNCHANGED sessionVars

QueryStep ==
  \/ QueryPing
  \/ CheckPassword \/ CheckUser
  \/ SelectUser \/ SelectPreferences \/ SelectList \/ SelectFails
  \/ ShowRow \/ SkipRow
  \/ QueryReply

(***************************************************************************)
(* The server: a query or an update at a time.                             *)
(***************************************************************************)
QueryNext ==
  \/ \E q \in Queries : ReceiveQuery(q)
  \/ QueryStep
  \/ at # "idle" /\ LoseConnection /\ UNCHANGED queryVars
  \/ at # "idle" /\ "crash" \in Faults /\ NewSession /\ QueryIdle

UpdateNext == at = "idle" /\ Next /\ UNCHANGED queryVars

ServerNext ==
  \/ UpdateNext
  \/ pc = "idle" /\ QueryNext /\ UNCHANGED handlerVars

ServerInit == Init /\ QueryInit

ServerSpec == ServerInit /\ [][ServerNext]_serverVars

UpdateStep ==
  \/ Ping \/ Lookup \/ RequestWithoutFlag
  \/ StartTransaction \/ ExecStatement \/ FailStatement \/ Commit \/ Rollback
  \/ Reply

\* MHD's thread runs the handler it called to its end
HandlerFairness ==
  /\ WF_serverVars(UpdateStep /\ at = "idle" /\ UNCHANGED queryVars)
  /\ WF_serverVars(QueryStep /\ pc = "idle" /\ UNCHANGED handlerVars)

=============================================================================
