------------------------- MODULE UpdateProperties -------------------------
(***************************************************************************)
(* What the update handlers are meant to keep true of the database and of  *)
(* their answers, and under which faults they do.                          *)
(***************************************************************************)
EXTENDS UpdateHandlers

(***************************************************************************)
(* Types.                                                                  *)
(***************************************************************************)
KeysOf ==
  [UserRegInfo |-> Uids \X Emails,
   UserPhone |-> {<<u>> : u \in Uids},
   UserAddress |-> {<<u>> : u \in Uids},
   UserSocialNetwork |-> Uids \X {"facebook", "twitter"},
   UserConnectRequest |-> Uids \X Uids,
   UserConnectChannel |-> Uids \X Uids \X (ChannelIds \cup {"connect"}),
   UserConnectPreferences |-> Uids \X ChannelIds,
   UserGeoLocation |-> {<<u>> : u \in Uids}]

ValuesOf ==
  [UserRegInfo |-> Opt(Urls),
   UserPhone |-> {Absent},
   UserAddress |-> Opt(Addresses),
   UserSocialNetwork |-> Handles,
   UserConnectRequest |-> Flags,
   UserConnectChannel |-> {Absent},
   UserConnectPreferences |-> PrefFlags,
   UserGeoLocation |-> Places]

RowsOK(T, rows) == \A r \in rows : r.key \in KeysOf[T] /\ r.val \in ValuesOf[T]

TablesOK(t) ==
  /\ DOMAIN t = TableNames
  /\ \A T \in TableNames : RowsOK(T, t[T])

StatementOK(s) ==
  /\ s.table \in TableNames
  /\ s.op \in {"insert", "update", "delete"}
  /\ s.op = "insert" => RowsOK(s.table, s.rows)
  /\ s.op = "update" => s.val \in ValuesOf[s.table]

PlanOK(p) ==
  /\ p \in Seq({p[i] : i \in DOMAIN p})
  /\ \A i \in DOMAIN p : StatementOK(p[i])

SessionOK ==
  /\ TablesOK(db)
  /\ TablesOK(view)
  /\ txn \in BOOLEAN
  /\ inTrans \in BOOLEAN
  /\ link \in {"up", "dead"}

Points == {"idle", "check", "address", "facebook", "twitter", "existing",
           "public", "start", "exec", "commit", "rollback", "reply"}

HandlerOK ==
  /\ pc \in Points
  /\ pc \notin {"idle", "reply"} => msg \in Messages /\ ~LacksField(msg)
  /\ pc = "exec" => plan # <<>>
  /\ pings \in 0..2
  /\ PlanOK(plan)
  /\ body \in {"none", "200", "404"}
  /\ status \in {"none", "200", "404"}

\* Every row has the columns of its table; a running handler is at a point
\* of its code, holds a message with the fields it needs, and has built
\* statements that fit the tables.
TypeOK == SessionOK /\ HandlerOK

(***************************************************************************)
(* Safety under every fault.                                               *)
(***************************************************************************)
KeptTables == {RegInfo, Phone, Address, Request, Location}
UpsertTables == {Address, Request, Location}
ReplacedTables == {Social, Channel, Preference}

NoDuplicates(rows) == \A r, s \in rows : r.key = s.key => r = s

UserIn(u, tables) == \E r \in tables[RegInfo] : r.key[1] = u

\* The tables written by "update the row, or insert it if there is none"
\* have no key in the schema; still the lookup-then-insert never leaves two
\* rows for one address, connection request or location, whatever happens
\* between the lookup and the insert.
UpsertedOnce == \A T \in UpsertTables : NoDuplicates(db[T])

\* A phone number is only stored for a registered user: the first insert of
\* a registration is never lost while the second one is kept.
PhoneHasOwner == \A r \in db[Phone] : UserIn(r.key[1], db)

\* When the insert of a registration is sent, the UID and the e-mail that
\* were looked up are still free: the UNIQUE constraints never decide.
CheckedKeyIsFree == pc = "exec" => ~BreaksUnique(Head(plan), view)

\* No commit, implicit commit, rollback or lost connection ever takes a
\* stored user, phone, address, connection request or location away.
NeverForgets ==
  [][\A T \in KeptTables : Keys(db[T]) \subseteq Keys(db'[T])]_vars

(***************************************************************************)
(* Why: the inductive invariant.                                           *)
(***************************************************************************)
\* an open transaction has a connection and the client knows of it; without
\* one the session sees what is stored
SessionInv ==
  /\ txn => link = "up" /\ inTrans
  /\ ~txn => view = db

\* the tables, as stored and as the session sees them; it never sees less of
\* the kept tables than is stored
TablesInv ==
  /\ \A T \in KeptTables : Keys(db[T]) \subseteq Keys(view[T])
  /\ \A T \in UpsertTables : NoDuplicates(db[T]) /\ NoDuplicates(view[T])
  /\ \A r \in db[Phone] : UserIn(r.key[1], db)
  /\ \A r \in view[Phone] : UserIn(r.key[1], view)

InsertsInto(s, T) == s.op = "insert" /\ s.table = T

KeptPlan(p) ==
  \A i \in DOMAIN p : p[i].op = "delete" => p[i].table \notin KeptTables

\* only the first statement inserts into an upserted table, one row, whose
\* key the session does not see
UpsertPlan(p, v) ==
  \A i \in DOMAIN p, T \in UpsertTables : InsertsInto(p[i], T) =>
    /\ i = 1
    /\ \E r \in p[i].rows : p[i].rows = {r} /\ r.key \notin Keys(v[T])

\* the user row comes first, with a UID and an e-mail nobody has
RegisterPlan(p, v) ==
  \A i \in DOMAIN p : InsertsInto(p[i], RegInfo) =>
    /\ i = 1
    /\ \A r \in p[i].rows, k \in Keys(v[RegInfo]) :
         r.key[1] # k[1] /\ r.key[2] # k[2]

\* the phone comes second, after its user row
FollowsUser(p, i, r) ==
  /\ i = 2
  /\ InsertsInto(p[1], RegInfo)
  /\ \E s \in p[1].rows : s.key[1] = r.key[1]

PhonePlan(p) ==
  \A i \in DOMAIN p : InsertsInto(p[i], Phone) =>
    \A r \in p[i].rows : FollowsUser(p, i, r)

\* once the user row is written the session sees it, or has lost it in a
\* way the client is told of by the very next command
PhonePlanRunning(p, v, lost) ==
  \A i \in DOMAIN p : InsertsInto(p[i], Phone) =>
    \A r \in p[i].rows :
      FollowsUser(p, i, r) \/ (i = 1 /\ (lost \/ UserIn(r.key[1], v)))

BuiltPlan(p, v) == KeptPlan(p) /\ UpsertPlan(p, v) /\ RegisterPlan(p, v)

PlanInv ==
  /\ pc \notin {"idle", "reply", "exec"} => BuiltPlan(plan, view) /\ PhonePlan(plan)
  /\ pc = "exec" =>
       /\ pings = 0
       /\ BuiltPlan(plan, view)
       /\ PhonePlanRunning(plan, view, link = "dead" /\ inTrans)

KeptInv == SessionInv /\ TablesInv /\ PlanInv

(***************************************************************************)
(* Safety under some faults.                                               *)
(***************************************************************************)
\* Handles, channels and preferences, which are also deleted, have no
\* duplicate either, unless the server both refuses statements and drops
\* connections: a refused statement leaves a delete uncommitted behind the
\* lookup, and the drop brings the row back before the insert.
ReplacedOnce == \A T \in ReplacedTables : NoDuplicates(db[T])

Refers(T, k, tables) ==
  /\ T \in {Phone, Address, Social, Preference, Location} => UserIn(k[1], tables)
  /\ T \in {Request, Channel} =>
       UserIn(k[1], tables) /\ UserIn(k[2], tables) /\ k[1] # k[2]

RefersToUsers(tables) ==
  \A T \in TableNames : \A r \in tables[T] : Refers(T, r.key, tables)

\* Every row belongs to registered users, and no user is connected to
\* himself.
ReferencesRegistered == RefersToUsers(db)

\* A transaction is open only while its handler sends its statements: none is
\* left behind by a handler that has returned, for the next one to read and
\* write in.
NoTransactionAtRest == pc \notin {"exec", "commit", "rollback"} => ~txn

Stored(tables) ==
  [T \in TableNames |-> {<<r.key, r.val>> : r \in tables[T]}]

Service ==
  INSTANCE AtomicUpdates WITH
    store <- Stored(db),
    request <- msg,
    phase <- CASE pc = "idle" -> "idle"
               [] pc = "reply" -> "answered"
               [] OTHER -> "working",
    answer <- status

\* The handlers implement the atomic service: each request changes the
\* committed tables by its whole effect in one step, or not at all, and is
\* granted only when it may be.
ImplementsService == Service!ServiceSpec

\* A request answered with success is in the database: performing it once
\* more would change nothing.
AcknowledgedIsStored ==
  status = "200" => Service!Effect(msg, Stored(db)) = Stored(db)

(***************************************************************************)
(* Why, under some faults: the inductive invariants.                       *)
(***************************************************************************)
\* the next command fails, whatever it is
Lost == link = "dead" /\ inTrans

AtRest == pc \notin {"exec", "commit", "rollback"}

\* a handler looks up what it needs
Resting == AtRest /\ pc \notin {"idle", "reply"}

\* under these faults no lookup fails, and no lookup is outdated
Calm == "drop" \notin Faults \/ Faults \cap {"outage", "reject"} = {}

\* under these faults no lookup is outdated
Steady == ~({"drop", "reject"} \subseteq Faults)

QuietInv ==
  /\ "drop" \notin Faults => link = "up"
  /\ Calm /\ "drop" \in Faults /\ AtRest => ~inTrans

Deletes(s, T, k) == s.op = "delete" /\ s.table = T /\ k \in s.keys

\* a key that is inserted is not there, or an earlier statement deletes it,
\* and none inserts it
FreshPlan(p, v) ==
  \A i \in DOMAIN p, T \in ReplacedTables : InsertsInto(p[i], T) =>
    /\ NoDuplicates(p[i].rows)
    /\ \A r \in p[i].rows :
         /\ r.key \in Keys(v[T]) => \E j \in 1..(i - 1) : Deletes(p[j], T, r.key)
         /\ \A j \in 1..(i - 1) : InsertsInto(p[j], T) => r.key \notin Keys(p[j].rows)

\* what a half-built plan inserts
HalfBuilt(p, point) ==
  \A i \in DOMAIN p, T \in ReplacedTables : InsertsInto(p[i], T) =>
    point = "twitter" /\ T = Social /\ \A r \in p[i].rows : r.key[2] = "facebook"

ReplacedInv ==
  /\ \A T \in ReplacedTables : NoDuplicates(db[T]) /\ NoDuplicates(view[T])
  /\ Resting => FreshPlan(plan, view)
  /\ pc \in {"check", "address", "facebook", "twitter", "existing", "public"} =>
       HalfBuilt(plan, pc)
  /\ pc = "exec" => Lost \/ FreshPlan(plan, view)

\* the phone is left to PhonePlan
ReferencePlan(p, v) ==
  \A i \in DOMAIN p : p[i].op = "insert" /\ p[i].table # Phone =>
    \A r \in p[i].rows : Refers(p[i].table, r.key, v)

\* past its check a request may be granted, and its rows refer to users
ReferencesInv ==
  /\ RefersToUsers(db) /\ RefersToUsers(view)
  /\ Resting /\ pc # "check" => Service!Permitted(msg, Stored(view))
  /\ Resting => ReferencePlan(plan, view)
  /\ pc = "exec" => Lost \/ ReferencePlan(plan, view)

\* what a statement does to the contents of the tables, and a plan of up to
\* three statements
Do(s, S) ==
  [S EXCEPT ![s.table] =
     CASE s.op = "insert" -> @ \cup {<<r.key, r.val>> : r \in s.rows}
       [] s.op = "update" -> {<<q[1], IF q[1] \in s.keys THEN s.val ELSE q[2]>> : q \in @}
       [] s.op = "delete" -> {q \in @ : q[1] \notin s.keys}]

Run(p, S) ==
  CASE Len(p) = 0 -> S
    [] Len(p) = 1 -> Do(p[1], S)
    [] Len(p) = 2 -> Do(p[2], Do(p[1], S))
    [] Len(p) = 3 -> Do(p[3], Do(p[2], Do(p[1], S)))

\* the effect of a request so far as it has been looked up
Planned(point, m, S) ==
  CASE point = "facebook" ->
         Service!Effect([m EXCEPT !.facebook = Absent, !.twitter = Absent], S)
    [] point = "twitter" -> Service!Effect([m EXCEPT !.twitter = Absent], S)
    [] point = "public" ->
         [S EXCEPT !["UserConnectRequest"] = Service!Put(@, <<m.from, m.to>>, m.flag)]
    [] point = "start" -> Service!Effect(m, S)
    [] OTHER -> S

\* a plan has the effect of what has been looked up
Building(point, p, m, S) ==
  /\ Len(p) <= CASE point = "facebook" -> 1 [] point = "twitter" -> 2
                 [] point = "public" -> 1 [] OTHER -> 3
  /\ point \in {"check", "address", "existing"} => p = <<>>
  /\ Run(p, S) = Planned(point, m, S)
  /\ point = "public" => m.flag = "closed"

\* The statements that a handler has put in its query buffer have the effect of
\* the request so far as it has looked things up; once they are sent, those that
\* are left complete the whole effect in the open transaction, on which the
\* COMMIT of mysqldb_handler.c depends, whatever of them has been executed.
EffectInv ==
  /\ Resting => Building(pc, plan, msg, Stored(view))
  /\ pc = "exec" => Len(plan) <= 3
  /\ pc = "commit" => plan = <<>> /\ pings = 0
  /\ pc \in {"exec", "commit"} =>
       /\ Service!Permitted(msg, Stored(db))
       /\ Lost \/ (txn /\ Run(plan, Stored(view)) = Service!Effect(msg, Stored(db)))
  /\ pc # "reply" => status = "none"
  /\ pc = "idle" => msg = Absent

\* a channel is opened by the last statement of a plan only, so what the
\* session sees of the channels before a COMMIT is stored
ChannelsInv ==
  /\ pc # "commit" => Keys(view[Channel]) \subseteq Keys(db[Channel])
  /\ \A i \in DOMAIN plan : InsertsInto(plan[i], Channel) =>
       /\ i = Len(plan)
       /\ pc \notin {"check", "address", "facebook", "twitter", "existing", "public"}

\* The registration's two inserts are one transaction.
RegistrationIsAtomic ==
  \A r \in db[RegInfo] : \E s \in db[Phone] : s.key[1] = r.key[1]

===========================================================================
