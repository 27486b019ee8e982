-------------------------- MODULE AtomicUpdates --------------------------
(***************************************************************************)
(* What a client may expect of the update APIs: a request is refused, or   *)
(* it is granted and takes its whole effect in one step.  The store says   *)
(* which columns each table holds; how often a row occurs, how the program *)
(* looks it up and which statements it sends are left out.                 *)
(***************************************************************************)
EXTENDS Sequences, FiniteSets

CONSTANTS Messages, Absent

VARIABLES
  store,    \* for each table a set of <<key, value>>
  request,  \* the request being served, or Absent
  phase,    \* "idle", "working" or "answered"
  answer    \* its HTTP status: "none", "200" or "404"

serviceVars == <<store, request, phase, answer>>

Tables == {"UserRegInfo", "UserPhone", "UserAddress", "UserSocialNetwork",
           "UserConnectRequest", "UserConnectChannel",
           "UserConnectPreferences", "UserGeoLocation"}

Holds(rel, k) == \E p \in rel : p[1] = k
Put(rel, k, v) == {p \in rel : p[1] # k} \cup {<<k, v>>}
Remove(rel, keys) == {p \in rel : p[1] \notin keys}

User(u, S) == \E p \in S["UserRegInfo"] : p[1][1] = u

(***************************************************************************)
(* When a request may be granted, and what it then does.                   *)
(***************************************************************************)
Permitted(m, S) ==
  CASE m.api = "registration" ->
         \A p \in S["UserRegInfo"] : p[1][1] # m.uid /\ p[1][2] # m.email
    [] m.api \in {"cxn_request", "cxn_channel"} ->
         User(m.from, S) /\ User(m.to, S) /\ m.from # m.to
    [] OTHER -> User(m.uid, S)

PutHandle(rel, u, network, handle) ==
  CASE handle = Absent -> rel
    [] handle = "" -> Remove(rel, {<<u, network>>})
    [] OTHER -> Put(rel, <<u, network>>, handle)

Exposed(m, S) ==
  {p[1][2] : p \in {q \in S["UserConnectPreferences"] :
                       q[1][1] = m.to /\ q[2] = "public"}}

Granted(m, S) ==
  {<<<<m.from, m.to, c>>, Absent>> :
     c \in IF Exposed(m, S) = {} THEN {"connect"} ELSE Exposed(m, S)}

Effect(m, S) ==
  CASE m.api = "registration" ->
         [S EXCEPT !["UserRegInfo"] =
                      IF Holds(@, <<m.uid, m.email>>) THEN @
                      ELSE Put(@, <<m.uid, m.email>>, Absent),
                   !["UserPhone"] = Put(@, <<m.uid>>, Absent)]
    [] m.api = "update_avatar" ->
         [S EXCEPT !["UserRegInfo"] =
            {<<p[1], IF p[1][1] = m.uid THEN m.url ELSE p[2]>> : p \in @}]
    [] m.api = "update_profile" ->
         [S EXCEPT !["UserAddress"] =
                      IF m.address = Absent /\ Holds(@, <<m.uid>>) THEN @
                      ELSE Put(@, <<m.uid>>, m.address),
                   !["UserSocialNetwork"] =
                      PutHandle(PutHandle(@, m.uid, "facebook", m.facebook),
                                m.uid, "twitter", m.twitter)]
    [] m.api = "cxn_request" ->
         [S EXCEPT !["UserConnectRequest"] = Put(@, <<m.from, m.to>>, m.flag),
                   !["UserConnectChannel"] =
                      IF m.flag # "closed" THEN @
                      ELSE {p \in @ : <<p[1][1], p[1][2]>> # <<m.from, m.to>>}
                           \cup Granted(m, S)]
    [] m.api = "cxn_channel" ->
         [S EXCEPT !["UserConnectChannel"] =
            Put(@, <<m.from, m.to, m.type>>, Absent)]
    [] m.api = "cxn_preference" ->
         [S EXCEPT !["UserConnectPreferences"] =
            Remove(@, {<<m.uid, m.list[i].channel>> : i \in DOMAIN m.list})
            \cup {<<<<m.uid, m.list[i].channel>>, m.list[i].flag>> :
                    i \in DOMAIN m.list}]
    [] m.api = "location" ->
         [S EXCEPT !["UserGeoLocation"] = Put(@, <<m.uid>>, m.place)]

(***************************************************************************)
(* The service.                                                            *)
(***************************************************************************)
ServiceInit ==
  /\ store = [T \in Tables |-> {}]
  /\ request = Absent
  /\ phase = "idle"
  /\ answer = "none"

Accept(m) ==
  /\ phase = "idle"
  /\ phase' = "working"
  /\ request' = m
  /\ UNCHANGED <<store, answer>>

\* a message that lacks a field is refused at once
RefuseAtOnce(m) ==
  /\ phase = "idle"
  /\ phase' = "answered"
  /\ request' = m
  /\ answer' = "404"
  /\ UNCHANGED store

\* the database may lose the commit, but never keep a part of it
Grant ==
  /\ phase = "working"
  /\ Permitted(request, store)
  /\ store' \in {store, Effect(request, store)}
  /\ phase' = "answered"
  /\ answer' = "200"
  /\ UNCHANGED request

Refuse ==
  /\ phase = "working"
  /\ phase' = "answered"
  /\ answer' = "404"
  /\ UNCHANGED <<store, request>>

\* answered, or the process is restarted
End ==
  /\ phase \in {"working", "answered"}
  /\ phase' = "idle"
  /\ request' = Absent
  /\ answer' = "none"
  /\ UNCHANGED store

ServiceNext ==
  \/ \E m \in Messages : Accept(m) \/ RefuseAtOnce(m)
  \/ Grant
  \/ Refuse
  \/ End

ServiceSpec == ServiceInit /\ [][ServiceNext]_serviceVars

==========================================================================
