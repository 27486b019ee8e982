---------------------------- MODULE Neighbours ----------------------------
(***************************************************************************)
(* Places that expire, and the query for the neighbours of a user          *)
(* (gweb_mysql_handle_location, gweb_mysql_handle_neighbour_query), with   *)
(* the clock running between any two commands.                             *)
(*                                                                         *)
(* A place is stored with the UTC time it was seen at.  Whether it has     *)
(* expired is found by reading that time back with mktime, which takes it  *)
(* for local time: on a host Zone seconds east of UTC every place looks    *)
(* Zone seconds older than it is.                                          *)
(*                                                                         *)
(* The clock is bounded by Horizon.  Positions lie on a line: the database *)
(* measures the distance (libgeod_inverse), the handler only compares it.  *)
(***************************************************************************)
EXTENDS Integers, FiniteSets

CONSTANTS
  Uids,
  Messages,    \* the location messages: user, position, expiry, radius
  Radii,       \* the radii in neighbour queries
  DefaultExpiry, DefaultRadius,
  MaxRows,     \* MYSQL_MAX_NEIGHBOUR_ROWS_PER_QUERY
  Zone,        \* the host's offset from UTC
  Horizon,     \* the last second
  Faults,      \* "name": the lookup of a name may fail; "command": any other
  Absent       \* a field that is not in the message

ASSUME NeighboursAssumption ==
  /\ Absent \notin Uids \cup Int
  /\ Messages \subseteq [uid : Uids, pos : Int, expiry : Int \cup {Absent},
                        radius : Int \cup {Absent}]
  /\ Radii \subseteq Int
  /\ DefaultExpiry \in Int /\ DefaultRadius \in Int
  /\ MaxRows \in Nat \ {0}
  /\ Zone \in Int
  /\ Horizon \in Nat
  /\ Faults \subseteq {"command", "name"}

VARIABLES
  now,
  users,    \* the UIDs in UserRegInfo
  places,   \* the rows of UserGeoLocation
  at,       \* the next command of the running query
  asker, radius,  \* the query's arguments
  since,    \* when it arrived
  own,      \* the asker's row
  rest,     \* the rows the SELECT found and the loop has not fetched
  shown,    \* the rows in the response
  status

tableVars == <<users, places>>
queryVars == <<at, asker, radius, since, own, rest, shown, status>>
vars == <<now, tableVars, queryVars>>

Place == [uid : Uids, pos : Int, seen : Int, expiry : Int, radius : Int]

Init ==
  /\ now = 0
  /\ users = {}
  /\ places = {}
  /\ at = "idle"
  /\ asker = Absent
  /\ radius = Absent
  /\ since = 0
  /\ own = Absent
  /\ rest = {}
  /\ shown = {}
  /\ status = "none"

Tick ==
  /\ now < Horizon
  /\ now' = now + 1
  /\ UNCHANGED <<tableVars, queryVars>>

Fails == "command" \in Faults

(***************************************************************************)
(* Updates, which run between queries.                                     *)
(***************************************************************************)
Register(u) ==
  /\ at = "idle"
  /\ users' = users \cup {u}
  /\ UNCHANGED <<now, places, queryVars>>

OrElse(field, default) == IF field = Absent THEN default ELSE field

PlaceOf(m) ==
  [uid |-> m.uid, pos |-> m.pos, seen |-> now,
   expiry |-> OrElse(m.expiry, DefaultExpiry),
   radius |-> OrElse(m.radius, DefaultRadius)]

\* mutation: a second place beside the first
AddLocation(m) ==
  /\ at = "idle"
  /\ m.uid \in users \/ Fails
  /\ places' = places \cup {PlaceOf(m)}
  /\ UNCHANGED <<now, users, queryVars>>

\* a user has one place; the lookup of a user lets him pass when it fails
SetLocation(m) ==
  /\ at = "idle"
  /\ m.uid \in users \/ Fails
  /\ places' = {q \in places : q.uid # m.uid} \cup {PlaceOf(m)}
  /\ UNCHANGED <<now, users, queryVars>>

(***************************************************************************)
(* gweb_check_time_expired, as its two callers use it.                     *)
(***************************************************************************)
Expired(q) == q.expiry # -1 /\ now - (q.seen - Zone) > q.expiry

Distance(p, q) == IF p > q THEN p - q ELSE q - p

(***************************************************************************)
(* The query.                                                              *)
(***************************************************************************)
Answer(http) ==
  /\ at' = "reply"
  /\ status' = http
  /\ UNCHANGED <<now, tableVars, asker, radius, since, own, rest, shown>>

Ask(u, r) ==
  /\ at = "idle"
  /\ at' = "check"
  /\ asker' = u
  /\ radius' = r
  /\ since' = now
  /\ UNCHANGED <<now, tableVars, own, rest, shown, status>>

\* no UID: refused before any command
AskNobody ==
  /\ at = "idle"
  /\ Answer("404")

CheckAsker ==
  /\ at = "check"
  /\ \/ /\ asker \in users \/ Fails
        /\ at' = "own"
        /\ UNCHANGED <<now, tableVars, asker, radius, since, own, rest, shown, status>>
     \/ asker \notin users /\ Answer("404")

\* the asker must have a place, and it must not have expired
OwnPlace ==
  /\ at = "own"
  /\ \/ \E q \in places :
          /\ q.uid = asker
          /\ ~Expired(q)
          /\ at' = "others"
          /\ own' = q
          /\ UNCHANGED <<now, tableVars, asker, radius, since, rest, shown, status>>
     \/ (\A q \in places : q.uid = asker => Expired(q)) /\ Answer("404")
     \/ Fails /\ Answer("404")

Within(q) ==
  q.uid # asker /\ Distance(own.pos, q.pos) < OrElse(radius, own.radius)

OtherPlaces ==
  /\ at = "others"
  /\ \/ LET found == {q \in places : Within(q)}
        IN  IF found = {} THEN Answer("200")
            ELSE /\ at' = "rows"
                 /\ rest' = found
                 /\ UNCHANGED <<now, tableVars, asker, radius, since, own, shown, status>>
     \/ Fails /\ Answer("404")

\* mutation: the rows come in any order
AnyOrder == rest

\* ORDER BY Distance
Nearest == {q \in rest : \A r \in rest :
              Distance(own.pos, q.pos) <= Distance(own.pos, r.pos)}

Fetched(q, records) ==
  LET left == rest \ {q}
      last == left = {} \/ Cardinality(records) = MaxRows
  IN  /\ rest' = left
      /\ shown' = records
      /\ at' = IF last THEN "reply" ELSE "rows"
      /\ status' = IF last THEN "200" ELSE status
      /\ UNCHANGED <<now, tableVars, asker, radius, since, own>>

\* mutation: the loop never gets past an expired row
SkipForever == at = "rows" /\ (\E q \in Nearest : Expired(q)) /\ UNCHANGED vars

\* an expired row takes no room in the response
SkipExpired ==
  /\ at = "rows"
  /\ \E q \in Nearest : Expired(q) /\ Fetched(q, shown)

\* mutation: only the asker's own place may have expired
NameAnyRow ==
  /\ at = "rows"
  /\ \E q \in Nearest : q.uid \in users /\ Fetched(q, shown \cup {q})

\* the clock is read for each row, then the name of its user is looked up
NameRow ==
  /\ at = "rows"
  /\ \E q \in Nearest :
       /\ ~Expired(q)
       /\ \/ q.uid \in users /\ Fetched(q, shown \cup {q})
          \/ (q.uid \notin users \/ "name" \in Faults) /\ Fetched(q, shown)

Reply ==
  /\ at = "reply"
  /\ at' = "idle"
  /\ asker' = Absent
  /\ radius' = Absent
  /\ since' = 0
  /\ own' = Absent
  /\ rest' = {}
  /\ shown' = {}
  /\ status' = "none"
  /\ UNCHANGED <<now, tableVars>>

QueryStep ==
  \/ CheckAsker \/ OwnPlace \/ OtherPlaces \/ SkipExpired \/ NameRow \/ Reply

Next ==
  \/ Tick
  \/ \E u \in Uids : Register(u)
  \/ \E m \in Messages : SetLocation(m)
  \/ \E u \in Uids, r \in Radii \cup {Absent} : Ask(u, r)
  \/ AskNobody
  \/ QueryStep

Spec == Init /\ [][Next]_vars

\* the thread runs the handler to its end, whatever the clock does
FairSpec == Spec /\ WF_vars(QueryStep)

===========================================================================
