--------------------------- MODULE UpdateProofs ---------------------------
(***************************************************************************)
(* Theorems about the update handlers, for every set of users, messages    *)
(* and faults.                                                             *)
(***************************************************************************)
EXTENDS UpdateProperties, SequenceTheorems, TLAPS

(***************************************************************************)
(* Statements keep tables well formed.                                     *)
(***************************************************************************)
LEMMA ApplyType ==
  ASSUME NEW s, StatementOK(s), NEW t, TablesOK(t)
  PROVE  TablesOK(Apply(s, t))
<1> DEFINE T == s.table
<1> DEFINE new == CASE s.op = "insert" -> AddRows(t[T], s.rows)
                    [] s.op = "update" -> SetRows(t[T], s.keys, s.val)
                    [] s.op = "delete" -> DropRows(t[T], s.keys)
<1>1. T \in TableNames /\ RowsOK(T, t[T])
  BY DEF StatementOK, TablesOK
<1>2. RowsOK(T, new)
  <2>1. CASE s.op = "insert"
    BY <1>1, <2>1 DEF RowsOK, AddRows, StatementOK
  <2>2. CASE s.op = "update"
    BY <1>1, <2>2 DEF RowsOK, SetRows, StatementOK
  <2>3. CASE s.op = "delete"
    BY <1>1, <2>3 DEF RowsOK, DropRows
  <2> QED BY <2>1, <2>2, <2>3 DEF StatementOK
<1>3. Apply(s, t) = [t EXCEPT ![T] = new]
  BY <1>1 DEF Apply, TablesOK
<1> HIDE DEF new
<1> QED BY <1>1, <1>2, <1>3 DEF TablesOK

(***************************************************************************)
(* Plans.                                                                  *)
(***************************************************************************)
LEMMA SeqOfItself ==
  ASSUME NEW S, NEW p \in Seq(S)
  PROVE  p \in Seq({p[i] : i \in DOMAIN p})
<1> DEFINE R == {p[i] : i \in DOMAIN p}
<1>1. Len(p) \in Nat /\ DOMAIN p = 1 .. Len(p) /\ p = [i \in 1 .. Len(p) |-> p[i]]
  OBVIOUS
<1>2. \A i \in 1 .. Len(p) : p[i] \in R
  BY <1>1
<1> HIDE DEF R
<1>3. p \in Seq(R)
  BY <1>1, <1>2
<1> QED BY <1>3 DEF R

LEMMA PlanIntro ==
  ASSUME NEW S, NEW p \in Seq(S), \A i \in DOMAIN p : StatementOK(p[i])
  PROVE  PlanOK(p)
BY SeqOfItself DEF PlanOK

LEMMA PlanLiteral ==
  /\ PlanOK(<<>>)
  /\ \A s : StatementOK(s) => PlanOK(<<s>>)
  /\ \A s, t : StatementOK(s) /\ StatementOK(t) => PlanOK(<<s, t>>)
<1>1. PlanOK(<<>>)
  <2>1. <<>> \in Seq({}) /\ DOMAIN <<>> = {}
    OBVIOUS
  <2> QED BY <2>1, PlanIntro
<1>2. ASSUME NEW s, StatementOK(s) PROVE PlanOK(<<s>>)
  <2>1. <<s>> \in Seq({s}) /\ \A i \in DOMAIN <<s>> : StatementOK(<<s>>[i])
    BY <1>2
  <2> QED BY <2>1, PlanIntro
<1>3. ASSUME NEW s, NEW t, StatementOK(s), StatementOK(t) PROVE PlanOK(<<s, t>>)
  <2>1. <<s, t>> \in Seq({s, t}) /\ \A i \in DOMAIN <<s, t>> : StatementOK(<<s, t>>[i])
    BY <1>3
  <2> QED BY <2>1, PlanIntro
<1> QED BY <1>1, <1>2, <1>3

LEMMA PlanConcat ==
  ASSUME NEW p, PlanOK(p), NEW q, PlanOK(q)
  PROVE  PlanOK(p \o q)
<1> DEFINE S == {p[i] : i \in DOMAIN p} \cup {q[i] : i \in DOMAIN q}
<1>1. p \in Seq(S) /\ q \in Seq(S)
  BY SeqMonotonic DEF PlanOK
<1>2. p \o q \in Seq(S)
  BY <1>1, ConcatProperties
<1>3. \A i \in DOMAIN (p \o q) : StatementOK((p \o q)[i])
  <2> HIDE DEF S
  <2> QED BY <1>1, <1>2, ConcatProperties DEF PlanOK
<1> QED BY <1>2, <1>3, PlanIntro

LEMMA PlanHeadTail ==
  ASSUME NEW p, PlanOK(p), p # <<>>
  PROVE  StatementOK(Head(p)) /\ PlanOK(Tail(p))
<1> DEFINE S == {p[i] : i \in DOMAIN p}
<1>1. p \in Seq(S)
  BY DEF PlanOK
<1> HIDE DEF S
<1>2. StatementOK(Head(p))
  BY <1>1 DEF PlanOK
<1>3. Tail(p) \in Seq(S) /\ \A i \in DOMAIN Tail(p) : StatementOK(Tail(p)[i])
  BY <1>1 DEF PlanOK
<1> QED BY <1>2, <1>3, PlanIntro

(***************************************************************************)
(* Every command of the session, whatever becomes of it, keeps the types.  *)
(***************************************************************************)
LEMMA CommandType ==
  ASSUME SessionOK,
         \/ Answered \/ NotAnswered \/ Started \/ Committed \/ CommittedUnheard
         \/ RolledBack \/ LoseConnection \/ NewSession \/ UNCHANGED sessionVars
  PROVE  SessionOK'
<1> USE DEF SessionOK
<1>1. CASE Answered         BY <1>1 DEF Answered
<1>2. CASE LoseConnection   BY <1>2 DEF LoseConnection
<1>3. CASE NotAnswered      BY <1>2, <1>3 DEF NotAnswered
<1>4. CASE Started          BY <1>4 DEF Started
<1>5. CASE Committed        BY <1>5 DEF Committed
<1>6. CASE CommittedUnheard BY <1>6 DEF CommittedUnheard
<1>7. CASE RolledBack       BY <1>7 DEF RolledBack
<1>8. CASE NewSession       BY <1>8 DEF NewSession
<1>9. CASE UNCHANGED sessionVars BY <1>9 DEF sessionVars
<1> QED BY <1>1, <1>2, <1>3, <1>4, <1>5, <1>6, <1>7, <1>8, <1>9

LEMMA StatementType ==
  ASSUME SessionOK, NEW s, StatementOK(s),
         Executed(s) \/ Refused(s) \/ ExecutedUnheard(s)
  PROVE  SessionOK'
<1>1. CASE Executed(s)
  BY <1>1, ApplyType DEF Executed, SessionOK
<1>2. CASE Refused(s)
  BY <1>2 DEF Refused, SessionOK
<1>3. CASE ExecutedUnheard(s)
  BY <1>3, ApplyType DEF ExecutedUnheard, SessionOK
<1> QED BY <1>1, <1>2, <1>3

(***************************************************************************)
(* Every way a handler goes on keeps the types.                            *)
(***************************************************************************)
LEMMA GoType ==
  ASSUME HandlerOK, pc \notin {"idle", "reply"},
         NEW point \in Points, NEW n \in 0..2, NEW p, PlanOK(p),
         point = "exec" => p # <<>>, Go(point, n, p)
  PROVE  HandlerOK'
<1>1. ~LacksField(msg)' = ~LacksField(msg)
  BY DEF Go, LacksField
<1>2. PlanOK(plan)'
  BY DEF Go, PlanOK
<1> QED BY <1>1, <1>2 DEF HandlerOK, Go

LEMMA FinishType ==
  ASSUME HandlerOK, NEW code \in {"none", "200", "404"},
         NEW http \in {"none", "200", "404"}, Finish(code, http)
  PROVE  HandlerOK'
<1>1. PlanOK(plan)'
  BY DEF Finish, HandlerOK, PlanOK
<1> QED BY <1>1 DEF HandlerOK, Finish, Points

LEMMA BareReturnType == ASSUME HandlerOK, BareReturn PROVE HandlerOK'
BY FinishType DEF BareReturn, HandlerOK

LEMMA IdleType == Idle => HandlerOK'
<1> SUFFICES ASSUME Idle PROVE HandlerOK'
  OBVIOUS
<1>1. PlanOK(plan)'
  BY PlanLiteral DEF Idle, PlanOK
<1> QED BY <1>1 DEF Idle, HandlerOK, Points

\* the message a handler works on has the fields of its API
LEMMA MessageShape ==
  ASSUME NEW m \in Messages
  PROVE  /\ m.api = "registration" => m.uid \in Uids /\ m.email \in Emails
         /\ m.api = "update_avatar" => m.uid \in Uids /\ m.url \in Urls
         /\ m.api = "update_profile" =>
              /\ m.uid \in Uids /\ m.address \in Opt(Addresses)
              /\ m.facebook \in Opt(Handles \cup {""})
              /\ m.twitter \in Opt(Handles \cup {""})
         /\ m.api = "cxn_request" =>
              m.from \in Opt(Uids) /\ m.to \in Opt(Uids) /\ m.flag \in Opt(Flags)
         /\ m.api = "cxn_channel" =>
              m.from \in Opt(Uids) /\ m.to \in Opt(Uids) /\ m.type \in Opt(ChannelIds)
         /\ m.api = "cxn_preference" =>
              m.uid \in Opt(Uids) /\ m.list \in Seq(Preferences)
         /\ m.api = "location" => m.uid \in Opt(Uids) /\ m.place \in Opt(Places)
<1>1. m \in Message
  BY MessagesAssumption
<1> QED
  BY <1>1 DEF Message, RegistrationMsg, AvatarMsg, ProfileMsg, CxnRequestMsg,
              CxnChannelMsg, CxnPreferenceMsg, LocationMsg

\* and, once past the sanity tests, none of those it needs is absent
LEMMA RunningMessage ==
  ASSUME HandlerOK, pc \notin {"idle", "reply"}
  PROVE  /\ msg \in Messages
         /\ msg.api \in {"cxn_request", "cxn_channel"} =>
              msg.from \in Uids /\ msg.to \in Uids
         /\ msg.api = "cxn_channel" => msg.type \in ChannelIds
         /\ msg.api \in {"cxn_preference", "location"} => msg.uid \in Uids
         /\ msg.api = "location" => msg.place \in Places
BY MessageShape DEF HandlerOK, LacksField, Opt

LEMMA TableDefs ==
  /\ TableNames = {"UserRegInfo", "UserPhone", "UserAddress", "UserSocialNetwork",
       "UserConnectRequest", "UserConnectChannel", "UserConnectPreferences",
       "UserGeoLocation"}
BY DEF TableNames, RegInfo, Phone, Address, Social, Request, Channel,
       Preference, Location

(***************************************************************************)
(* The lookups.                                                            *)
(***************************************************************************)
LEMMA InsertRowOK ==
  ASSUME NEW T \in TableNames, NEW k \in KeysOf[T], NEW v \in ValuesOf[T]
  PROVE  StatementOK(Insert(T, {Row(k, v)}))
BY DEF StatementOK, Insert, Row, RowsOK

LEMMA UpdateOK ==
  ASSUME NEW T \in TableNames, NEW keys, NEW v \in ValuesOf[T]
  PROVE  StatementOK(Update(T, keys, v))
BY DEF StatementOK, Update

LEMMA DeleteOK ==
  ASSUME NEW T \in TableNames, NEW keys
  PROVE  StatementOK(Delete(T, keys))
BY DEF StatementOK, Delete

LEMMA SessionOfLookup == Lookup /\ SessionOK => SessionOK'
BY CommandType
   DEF Lookup, CheckRegistration, CheckAvatar, CheckProfile, CheckBothUids,
       CheckPreference, CheckLocation, LookupAddress, LookupFacebook,
       LookupTwitter, LookupRequest, LookupPublic, LookupChannel, LookupLocation

LEMMA CheckRegistrationType ==
  TypeOK /\ CheckRegistration => HandlerOK'
<1> SUFFICES ASSUME TypeOK, CheckRegistration PROVE HandlerOK'
  OBVIOUS
<1> DEFINE p == <<Insert(RegInfo, {Row(<<msg.uid, msg.email>>, Absent)}),
                  Insert(Phone, {Row(<<msg.uid>>, Absent)})>>
<1>1. msg.uid \in Uids /\ msg.email \in Emails
  BY RunningMessage, MessageShape DEF TypeOK, CheckRegistration, At
<1>2. PlanOK(p)
  <2>1. StatementOK(Insert(RegInfo, {Row(<<msg.uid, msg.email>>, Absent)}))
    BY <1>1, InsertRowOK DEF KeysOf, ValuesOf, RegInfo, TableNames, Opt
  <2>2. StatementOK(Insert(Phone, {Row(<<msg.uid>>, Absent)}))
    BY <1>1, InsertRowOK DEF KeysOf, ValuesOf, Phone, TableNames
  <2> QED BY <2>1, <2>2, PlanLiteral
<1> HIDE DEF p
<1>3. CASE Go("start", 1, p)
  BY <1>2, <1>3, GoType DEF TypeOK, CheckRegistration, At, Points
<1>4. CASE Finish("404", "404")
  BY <1>4, FinishType DEF TypeOK
<1> QED BY <1>3, <1>4 DEF CheckRegistration, p

LEMMA CheckAvatarType ==
  TypeOK /\ CheckAvatar => HandlerOK'
<1> SUFFICES ASSUME TypeOK, CheckAvatar PROVE HandlerOK'
  OBVIOUS
<1> DEFINE p == <<Update(RegInfo, {msg.uid} \X Emails, msg.url)>>
<1>1. PlanOK(p)
  <2>1. msg.url \in ValuesOf[RegInfo] /\ RegInfo \in TableNames
    BY RunningMessage, MessageShape
       DEF TypeOK, CheckAvatar, At, ValuesOf, Opt, RegInfo, TableNames
  <2> QED BY <2>1, UpdateOK, PlanLiteral
<1> HIDE DEF p
<1>2. CASE Go("start", 2, p)
  BY <1>1, <1>2, GoType DEF TypeOK, CheckAvatar, At, Points
<1>3. CASE BareReturn
  BY <1>3, BareReturnType DEF TypeOK
<1> QED BY <1>2, <1>3 DEF CheckAvatar, p

\* a check that only moves on, with the plan as it is
LEMMA MoveOnType ==
  ASSUME HandlerOK, pc \notin {"idle", "reply"},
         NEW point \in Points \ {"exec"}, NEW n \in 0..2, Go(point, n, plan)
  PROVE  HandlerOK'
<1>1. PlanOK(plan)
  BY DEF HandlerOK
<1> QED BY <1>1, GoType

LEMMA CheckProfileType ==
  TypeOK /\ CheckProfile => HandlerOK'
BY MoveOnType, BareReturnType DEF TypeOK, CheckProfile, At, Points

LEMMA CheckBothUidsType ==
  TypeOK /\ CheckBothUids => HandlerOK'
BY MoveOnType, FinishType DEF TypeOK, CheckBothUids, At, Points

LEMMA CheckLocationType ==
  TypeOK /\ CheckLocation => HandlerOK'
BY MoveOnType, FinishType DEF TypeOK, CheckLocation, At, Points

LEMMA CheckPreferenceType ==
  TypeOK /\ CheckPreference => HandlerOK'
<1> SUFFICES ASSUME TypeOK, CheckPreference PROVE HandlerOK'
  OBVIOUS
<1> DEFINE list == msg.list
           keys == {<<msg.uid, list[i].channel>> : i \in DOMAIN list}
           rows == {[key |-> <<msg.uid, list[i].channel>>, val |-> list[i].flag,
                     id |-> i] : i \in DOMAIN list}
           p == <<Delete(Preference, keys), Insert(Preference, rows)>>
<1>1. PlanOK(p)
  <2>1. msg.uid \in Uids /\ list \in Seq(Preferences)
    BY RunningMessage, MessageShape DEF TypeOK, CheckPreference, At
  <2>2. \A i \in DOMAIN list : list[i].channel \in ChannelIds /\ list[i].flag \in PrefFlags
    <3>1. \A i \in DOMAIN list : list[i] \in Preferences
      BY <2>1
    <3> QED BY <3>1 DEF Preferences
  <2>3. StatementOK(Insert(Preference, rows))
    BY <2>1, <2>2
       DEF StatementOK, Insert, RowsOK, KeysOf, ValuesOf, Preference, TableNames
  <2>4. StatementOK(Delete(Preference, keys))
    BY DeleteOK DEF TableNames
  <2> QED BY <2>3, <2>4, PlanLiteral
<1> HIDE DEF p
<1>2. CASE Go("start", 1, p)
  BY <1>1, <1>2, GoType DEF TypeOK, CheckPreference, At, Points
<1>3. CASE Finish("404", "404")
  BY <1>3, FinishType DEF TypeOK
<1> QED BY <1>2, <1>3 DEF CheckPreference, p

LEMMA LookupAddressType ==
  TypeOK /\ LookupAddress => HandlerOK'
<1> SUFFICES ASSUME TypeOK, LookupAddress PROVE HandlerOK'
  OBVIOUS
<1> DEFINE key == <<msg.uid>>
           p == IF Found(Address, key)
                THEN IF msg.address = Absent THEN <<>>
                     ELSE <<Update(Address, {key}, msg.address)>>
                ELSE <<Insert(Address, {Row(key, msg.address)})>>
<1>1. PlanOK(p)
  <2>1. msg.uid \in Uids /\ msg.address \in Opt(Addresses)
    BY RunningMessage, MessageShape DEF TypeOK, LookupAddress, At
  <2>2. /\ Address \in TableNames
        /\ key \in KeysOf[Address]
        /\ msg.address \in ValuesOf[Address]
    BY <2>1 DEF KeysOf, ValuesOf, Address, TableNames
  <2> QED BY <2>2, InsertRowOK, UpdateOK, PlanLiteral
<1> HIDE DEF p
<1>2. CASE Go("facebook", 0, p)
  BY <1>1, <1>2, GoType DEF TypeOK, LookupAddress, At, Points
<1>3. CASE BareReturn
  BY <1>3, BareReturnType DEF TypeOK
<1> QED BY <1>2, <1>3 DEF LookupAddress, p

LEMMA SocialStatementType ==
  ASSUME NEW network \in {"facebook", "twitter"}, msg.uid \in Uids,
         NEW handle \in Opt(Handles \cup {""})
  PROVE  PlanOK(SocialStatement(network, handle))
<1> DEFINE key == <<msg.uid, network>>
<1>1. CASE handle = Absent
  <2>1. SocialStatement(network, handle) = <<>>
    BY <1>1, MessagesAssumption DEF SocialStatement
  <2> QED BY <2>1, PlanLiteral
<1>2. CASE handle # Absent /\ handle = ""
  <2>1. StatementOK(Delete(Social, {key}))
    BY DeleteOK DEF TableNames
  <2>2. SocialStatement(network, handle) = <<Delete(Social, {key})>>
    BY <1>2 DEF SocialStatement
  <2> QED BY <2>1, <2>2, PlanLiteral
<1>3. CASE handle # Absent /\ handle # ""
  <2>1. Social \in TableNames /\ key \in KeysOf[Social] /\ handle \in ValuesOf[Social]
    BY <1>3 DEF KeysOf, ValuesOf, Social, TableNames, Opt
  <2>2. /\ StatementOK(Insert(Social, {Row(key, handle)}))
        /\ StatementOK(Update(Social, {key}, handle))
    BY <2>1, InsertRowOK, UpdateOK
  <2>3. SocialStatement(network, handle) \in
          {<<Update(Social, {key}, handle)>>, <<Insert(Social, {Row(key, handle)})>>}
    BY <1>3 DEF SocialStatement
  <2> QED BY <2>2, <2>3, PlanLiteral
<1> QED BY <1>1, <1>2, <1>3

LEMMA LookupSocialType ==
  TypeOK /\ (LookupFacebook \/ LookupTwitter) => HandlerOK'
<1> SUFFICES ASSUME TypeOK, LookupFacebook \/ LookupTwitter PROVE HandlerOK'
  OBVIOUS
<1>1. /\ msg.uid \in Uids
      /\ msg.facebook \in Opt(Handles \cup {""})
      /\ msg.twitter \in Opt(Handles \cup {""})
  BY RunningMessage, MessageShape DEF TypeOK, LookupFacebook, LookupTwitter, At
<1> DEFINE p == plan \o SocialStatement("facebook", msg.facebook)
           q == plan \o SocialStatement("twitter", msg.twitter)
<1>2. PlanOK(p) /\ PlanOK(q)
  BY <1>1, SocialStatementType, PlanConcat DEF TypeOK, HandlerOK
<1> HIDE DEF p, q
<1>3. CASE Go("twitter", 0, p) /\ pc = "facebook"
  BY <1>2, <1>3, GoType DEF TypeOK, Points
<1>4. CASE Go("start", 1, q) /\ pc = "twitter"
  BY <1>2, <1>4, GoType DEF TypeOK, Points
<1>5. CASE BareReturn
  BY <1>5, BareReturnType DEF TypeOK
<1> QED BY <1>3, <1>4, <1>5 DEF LookupFacebook, LookupTwitter, At, p, q

LEMMA LookupRequestType ==
  TypeOK /\ LookupRequest => HandlerOK'
<1> SUFFICES ASSUME TypeOK, LookupRequest PROVE HandlerOK'
  OBVIOUS
<1> DEFINE key == <<msg.from, msg.to>>
           p == <<IF Found(Request, key) THEN Update(Request, {key}, msg.flag)
                  ELSE Insert(Request, {Row(key, msg.flag)})>>
<1>1. CASE NotAnswered /\ Finish("404", "404")
  BY <1>1, FinishType DEF TypeOK
<1>2. CASE msg.flag # Absent /\ (Go("public", 0, p) \/ Go("start", 1, p))
  <2>1. PlanOK(p)
    <3>1. msg.from \in Uids /\ msg.to \in Uids /\ msg.flag \in Flags
      BY <1>2, RunningMessage, MessageShape DEF TypeOK, LookupRequest, At, Opt
    <3>2. /\ Request \in TableNames
          /\ key \in KeysOf[Request]
          /\ msg.flag \in ValuesOf[Request]
      BY <3>1 DEF KeysOf, ValuesOf, Request, TableNames
    <3> QED BY <3>2, InsertRowOK, UpdateOK, PlanLiteral
  <2> HIDE DEF p
  <2> QED BY <1>2, <2>1, GoType DEF TypeOK, LookupRequest, At, Points
<1> QED BY <1>1, <1>2 DEF LookupRequest

LEMMA LookupPublicType ==
  TypeOK /\ LookupPublic => HandlerOK'
<1> SUFFICES ASSUME TypeOK, LookupPublic PROVE HandlerOK'
  OBVIOUS
<1> DEFINE public == {r \in view[Preference] : r.key[1] = msg.to /\ r.val = "public"}
           granted == IF public = {} THEN {Row(<<msg.from, msg.to, "connect">>, Absent)}
                      ELSE {[key |-> <<msg.from, msg.to, r.key[2]>>, val |-> Absent,
                             id |-> r.id] : r \in public}
           dropped == {msg.from} \X {msg.to} \X (ChannelIds \cup {"connect"})
           new == <<Delete(Channel, dropped), Insert(Channel, granted)>>
<1>1. msg.from \in Uids /\ msg.to \in Uids
  BY RunningMessage DEF TypeOK, LookupPublic, At
<1>2. \A r \in public : r.key[2] \in ChannelIds
  <2>1. Preference \in TableNames /\ KeysOf[Preference] = Uids \X ChannelIds
    BY DEF Preference, TableNames, KeysOf
  <2> QED BY <2>1 DEF TypeOK, SessionOK, TablesOK, RowsOK
<1>3. \A r \in granted : r.key \in Uids \X Uids \X (ChannelIds \cup {"connect"})
                         /\ r.val = Absent
  <2> HIDE DEF public
  <2> QED BY <1>1, <1>2 DEF Row
<1>4. PlanOK(plan \o new)
  <2> HIDE DEF granted
  <2>1. StatementOK(Insert(Channel, granted))
    BY <1>3 DEF StatementOK, Insert, RowsOK, KeysOf, ValuesOf, Channel, TableNames
  <2>2. StatementOK(Delete(Channel, dropped))
    BY DeleteOK DEF TableNames
  <2>3. PlanOK(new)
    BY <2>1, <2>2, PlanLiteral
  <2> QED BY <2>3, PlanConcat DEF TypeOK, HandlerOK
<1> HIDE DEF new
<1>5. CASE Go("start", 1, plan \o new)
  BY <1>4, <1>5, GoType DEF TypeOK, LookupPublic, At, Points
<1>6. CASE Finish("404", "404")
  BY <1>6, FinishType DEF TypeOK
<1> QED BY <1>5, <1>6 DEF LookupPublic, new

LEMMA LookupChannelType ==
  TypeOK /\ LookupChannel => HandlerOK'
<1> SUFFICES ASSUME TypeOK, LookupChannel PROVE HandlerOK'
  OBVIOUS
<1> DEFINE key == <<msg.from, msg.to, msg.type>>
           p == <<Insert(Channel, {Row(key, Absent)})>>
<1>1. PlanOK(p)
  <2>1. msg.from \in Uids /\ msg.to \in Uids /\ msg.type \in ChannelIds
    BY RunningMessage DEF TypeOK, LookupChannel, At
  <2>2. Channel \in TableNames /\ key \in KeysOf[Channel] /\ Absent \in ValuesOf[Channel]
    BY <2>1 DEF KeysOf, ValuesOf, Channel, TableNames
  <2> QED BY <2>2, InsertRowOK, PlanLiteral
<1> HIDE DEF p
<1>2. CASE Go("start", 1, p)
  BY <1>1, <1>2, GoType DEF TypeOK, LookupChannel, At, Points
<1>3. CASE Finish("404", "404") \/ Finish("200", "200")
  BY <1>3, FinishType DEF TypeOK
<1> QED BY <1>2, <1>3 DEF LookupChannel, p

LEMMA LookupLocationType ==
  TypeOK /\ LookupLocation => HandlerOK'
<1> SUFFICES ASSUME TypeOK, LookupLocation PROVE HandlerOK'
  OBVIOUS
<1> DEFINE key == <<msg.uid>>
           p == <<IF Found(Location, key) THEN Update(Location, {key}, msg.place)
                  ELSE Insert(Location, {Row(key, msg.place)})>>
<1>1. PlanOK(p)
  <2>1. msg.uid \in Uids /\ msg.place \in Places
    BY RunningMessage DEF TypeOK, LookupLocation, At
  <2>2. /\ Location \in TableNames
        /\ key \in KeysOf[Location]
        /\ msg.place \in ValuesOf[Location]
    BY <2>1 DEF KeysOf, ValuesOf, Location, TableNames
  <2> QED BY <2>2, InsertRowOK, UpdateOK, PlanLiteral
<1> HIDE DEF p
<1>2. CASE Go("start", 1, p)
  BY <1>1, <1>2, GoType DEF TypeOK, LookupLocation, At, Points
<1>3. CASE BareReturn
  BY <1>3, BareReturnType DEF TypeOK
<1> QED BY <1>2, <1>3 DEF LookupLocation, p

LEMMA LookupType == TypeOK /\ Lookup => TypeOK'
<1> SUFFICES ASSUME TypeOK, Lookup PROVE TypeOK'
  OBVIOUS
<1>1. SessionOK'
  BY SessionOfLookup DEF TypeOK
<1>2. HandlerOK'
  BY CheckRegistrationType, CheckAvatarType, CheckProfileType,
     CheckBothUidsType, CheckPreferenceType, CheckLocationType,
     LookupAddressType, LookupSocialType, LookupRequestType, LookupPublicType,
     LookupChannelType, LookupLocationType DEF Lookup
<1> QED BY <1>1, <1>2 DEF TypeOK

(***************************************************************************)
(* Type correctness.                                                       *)
(***************************************************************************)
LEMMA InitType == Init => TypeOK
<1> SUFFICES ASSUME Init PROVE TypeOK
  OBVIOUS
<1>1. TablesOK(NoRows)
  BY DEF TablesOK, NoRows, RowsOK
<1>2. PlanOK(plan)
  BY PlanLiteral DEF Init
<1>3. SessionOK
  BY <1>1 DEF Init, SessionInit, SessionOK
<1>4. HandlerOK
  BY <1>2 DEF Init, HandlerOK, Points
<1> QED BY <1>3, <1>4 DEF TypeOK

LEMMA ReceiveType == ASSUME TypeOK, NEW m \in Messages, Receive(m) PROVE TypeOK'
<1>1. SessionOK'
  BY CommandType DEF TypeOK, Receive
<1>2. PlanOK(plan)'
  BY PlanLiteral DEF Receive, PlanOK
<1>3. HandlerOK'
  <2>1. CASE LacksField(m)
    BY <1>2, <2>1 DEF Receive, HandlerOK, Points
  <2>2. CASE ~LacksField(m)
    <3>1. ~LacksField(msg)'
      BY <2>2 DEF Receive, LacksField
    <3> QED BY <1>2, <2>2, <3>1 DEF Receive, HandlerOK, Points
  <2> QED BY <2>1, <2>2
<1> QED BY <1>1, <1>3 DEF TypeOK

LEMMA PingType == TypeOK /\ Ping => TypeOK'
<1> SUFFICES ASSUME TypeOK, Ping PROVE TypeOK'
  OBVIOUS
<1>1. SessionOK'
  BY CommandType DEF TypeOK, Ping
<1>2. PlanOK(plan)' /\ LacksField(msg)' = LacksField(msg)
  BY DEF Ping, PlanOK, LacksField, TypeOK, HandlerOK
<1>3. pings' \in 0..2
  BY DEF Ping, TypeOK, HandlerOK
<1> QED BY <1>1, <1>2, <1>3 DEF Ping, TypeOK, HandlerOK

LEMMA AfterStatementType ==
  ASSUME NEW p
  PROVE  /\ AfterStatement(p) \in Points
         /\ AfterStatement(p) = "exec" => p # <<>>
BY DEF AfterStatement, Points

LEMMA StartType == TypeOK /\ StartTransaction => TypeOK'
<1> SUFFICES ASSUME TypeOK, StartTransaction PROVE TypeOK'
  OBVIOUS
<1>1. SessionOK'
  BY CommandType DEF TypeOK, StartTransaction
<1>2. PlanOK(plan)
  BY DEF TypeOK, HandlerOK
<1>3. HandlerOK'
  BY <1>2, AfterStatementType, GoType DEF TypeOK, StartTransaction
<1> QED BY <1>1, <1>3 DEF TypeOK

LEMMA ExecType == TypeOK /\ ExecStatement => TypeOK'
<1> SUFFICES ASSUME TypeOK, ExecStatement PROVE TypeOK'
  OBVIOUS
<1>1. StatementOK(Head(plan)) /\ PlanOK(Tail(plan))
  BY PlanHeadTail DEF TypeOK, HandlerOK, ExecStatement
<1>2. SessionOK'
  BY <1>1, StatementType DEF TypeOK, ExecStatement
<1>3. HandlerOK'
  BY <1>1, AfterStatementType, GoType DEF TypeOK, ExecStatement
<1> QED BY <1>2, <1>3 DEF TypeOK

LEMMA FailType == TypeOK /\ FailStatement => TypeOK'
<1> SUFFICES ASSUME TypeOK, FailStatement PROVE TypeOK'
  OBVIOUS
<1>1. StatementOK(Head(plan))
  BY PlanHeadTail DEF TypeOK, HandlerOK, FailStatement
<1>2. SessionOK'
  BY <1>1, StatementType, CommandType DEF TypeOK, FailStatement
<1>3. HandlerOK'
  BY PlanLiteral, GoType, BareReturnType DEF TypeOK, FailStatement, Points
<1> QED BY <1>2, <1>3 DEF TypeOK

LEMMA CommitType == TypeOK /\ (Commit \/ Rollback) => TypeOK'
<1> SUFFICES ASSUME TypeOK, Commit \/ Rollback PROVE TypeOK'
  OBVIOUS
<1>1. SessionOK'
  BY CommandType DEF TypeOK, Commit, Rollback
<1>2. HandlerOK'
  BY FinishType DEF TypeOK, Commit, Rollback
<1> QED BY <1>1, <1>2 DEF TypeOK

LEMMA OtherType ==
  TypeOK /\ (RequestWithoutFlag \/ Reply \/ Disconnect \/ Restart \/ UNCHANGED vars)
    => TypeOK'
<1> SUFFICES ASSUME TypeOK,
              RequestWithoutFlag \/ Reply \/ Disconnect \/ Restart \/ UNCHANGED vars
    PROVE  TypeOK'
  OBVIOUS
<1>1. SessionOK'
  BY CommandType DEF TypeOK, RequestWithoutFlag, Reply, Disconnect, Restart, vars
<1>2. CASE Idle
  BY <1>1, <1>2, IdleType DEF TypeOK
<1>3. CASE UNCHANGED handlerVars
  <2>1. PlanOK(plan)' /\ LacksField(msg)' = LacksField(msg)
    BY <1>3 DEF handlerVars, PlanOK, LacksField, TypeOK, HandlerOK
  <2> QED BY <1>1, <1>3, <2>1 DEF handlerVars, TypeOK, HandlerOK
<1> QED BY <1>2, <1>3 DEF RequestWithoutFlag, Reply, Disconnect, Restart, vars

\* Every reachable state has well-formed tables and a handler at a point of
\* its code with a plan that fits them.
THEOREM TypeCorrect == Spec => []TypeOK
<1>1. TypeOK /\ [Next]_vars => TypeOK'
  BY ReceiveType, PingType, LookupType, StartType, ExecType, FailType,
     CommitType, OtherType DEF Next
<1> QED BY InitType, <1>1, PTL DEF Spec

(***************************************************************************)
(* Safety under every fault.  The argument: the session never sees fewer   *)
(* keys of the tables nobody deletes from than are stored, so what a       *)
(* lookup did not find is still not there when the insert built on it is   *)
(* sent, whether or not the connection was lost in between.                *)
(***************************************************************************)
LEMMA KeptNames ==
  /\ KeptTables \subseteq TableNames /\ UpsertTables \subseteq KeptTables
  /\ RegInfo \in KeptTables /\ Phone \in KeptTables
  /\ RegInfo \notin UpsertTables /\ Phone \notin UpsertTables
  /\ Social \notin KeptTables /\ Channel \notin KeptTables
  /\ Preference \notin KeptTables
  /\ RegInfo # Phone
BY DEF KeptTables, UpsertTables, TableNames, RegInfo, Phone, Address, Social,
       Request, Channel, Preference, Location

(***************************************************************************)
(* What a statement does to a table.                                       *)
(***************************************************************************)
LEMMA ApplyTable ==
  ASSUME NEW s, StatementOK(s), NEW t, TablesOK(t), NEW T \in TableNames
  PROVE  /\ s.table # T => Apply(s, t)[T] = t[T]
         /\ s.table = T /\ s.op = "insert" => Apply(s, t)[T] = AddRows(t[T], s.rows)
         /\ s.table = T /\ s.op = "update" =>
              Apply(s, t)[T] = SetRows(t[T], s.keys, s.val)
         /\ s.table = T /\ s.op = "delete" => Apply(s, t)[T] = DropRows(t[T], s.keys)
<1> DEFINE new == CASE s.op = "insert" -> AddRows(t[s.table], s.rows)
                    [] s.op = "update" -> SetRows(t[s.table], s.keys, s.val)
                    [] s.op = "delete" -> DropRows(t[s.table], s.keys)
<1>1. Apply(s, t) = [t EXCEPT ![s.table] = new]
  BY DEF Apply, TablesOK, StatementOK
<1>2. /\ s.op = "insert" => new = AddRows(t[s.table], s.rows)
      /\ s.op = "update" => new = SetRows(t[s.table], s.keys, s.val)
      /\ s.op = "delete" => new = DropRows(t[s.table], s.keys)
  OBVIOUS
<1> HIDE DEF new
<1> QED BY <1>1, <1>2 DEF TablesOK

LEMMA AddKeys ==
  ASSUME NEW rows, NEW new
  PROVE  Keys(AddRows(rows, new)) = Keys(rows) \cup Keys(new)
<1> DEFINE added(r) ==
      [key |-> r.key, val |-> r.val, id |-> r.id + LastId(rows, r.key)]
<1>1. AddRows(rows, new) = rows \cup {added(r) : r \in new}
  BY DEF AddRows
<1>2. \A r : added(r).key = r.key
  OBVIOUS
<1> HIDE DEF added
<1>3. ASSUME NEW k \in Keys(AddRows(rows, new)) PROVE k \in Keys(rows) \cup Keys(new)
  BY <1>1, <1>2 DEF Keys
<1>4. ASSUME NEW k \in Keys(rows) \cup Keys(new) PROVE k \in Keys(AddRows(rows, new))
  BY <1>1, <1>2 DEF Keys
<1> QED BY <1>3, <1>4

LEMMA SetKeys ==
  ASSUME NEW rows, NEW keys, NEW v
  PROVE  Keys(SetRows(rows, keys, v)) = Keys(rows)
<1> DEFINE changed(r) ==
      [key |-> r.key, val |-> IF r.key \in keys THEN v ELSE r.val, id |-> r.id]
<1>1. SetRows(rows, keys, v) = {changed(r) : r \in rows}
  BY DEF SetRows
<1>2. \A r : changed(r).key = r.key
  OBVIOUS
<1> HIDE DEF changed
<1>3. ASSUME NEW k \in Keys(SetRows(rows, keys, v)) PROVE k \in Keys(rows)
  BY <1>1, <1>2 DEF Keys
<1>4. ASSUME NEW k \in Keys(rows) PROVE k \in Keys(SetRows(rows, keys, v))
  BY <1>1, <1>2 DEF Keys
<1> QED BY <1>3, <1>4

\* a statement that deletes from none of them keeps the keys of the kept tables
LEMMA ApplyKeeps ==
  ASSUME NEW s, StatementOK(s), NEW t, TablesOK(t), NEW T \in KeptTables,
         s.op = "delete" => s.table \notin KeptTables
  PROVE  Keys(t[T]) \subseteq Keys(Apply(s, t)[T])
BY ApplyTable, AddKeys, SetKeys, KeptNames DEF StatementOK

LEMMA AddUnique ==
  ASSUME NEW rows, NoDuplicates(rows), NEW r, r.key \notin Keys(rows)
  PROVE  NoDuplicates(AddRows(rows, {r}))
<1> DEFINE x == [key |-> r.key, val |-> r.val, id |-> r.id + LastId(rows, r.key)]
<1>1. AddRows(rows, {r}) = rows \cup {x}
  BY DEF AddRows
<1>2. \A s \in rows : s.key # r.key
  BY DEF Keys
<1>3. x.key = r.key
  OBVIOUS
<1> HIDE DEF x
<1> QED BY <1>1, <1>2, <1>3 DEF NoDuplicates

LEMMA SetUnique ==
  ASSUME NEW rows, NoDuplicates(rows), NEW keys, NEW v
  PROVE  NoDuplicates(SetRows(rows, keys, v))
BY DEF NoDuplicates, SetRows

LEMMA DropUnique ==
  ASSUME NEW rows, NoDuplicates(rows), NEW keys
  PROVE  NoDuplicates(DropRows(rows, keys))
BY DEF NoDuplicates, DropRows

(***************************************************************************)
(* What the other commands do to the tables.                               *)
(***************************************************************************)
Same == db' = db /\ view' = view
Synced == db' = view /\ view' = view
Reverted == db' = db /\ view' = db

LEMMA CommandEffect ==
  ASSUME \/ Answered \/ NotAnswered \/ Started \/ Committed \/ CommittedUnheard
         \/ RolledBack \/ LoseConnection \/ NewSession \/ UNCHANGED sessionVars
  PROVE  Same \/ Synced \/ Reverted
BY DEF Same, Synced, Reverted, Answered, NotAnswered, Started, Committed,
       CommittedUnheard, RolledBack, LoseConnection, NewSession, sessionVars

LEMMA CommandTables ==
  ASSUME TablesInv, Same \/ Synced \/ Reverted
  PROVE  TablesInv' /\ \A T \in KeptTables : Keys(view'[T]) \subseteq Keys(view[T])
BY DEF TablesInv, Same, Synced, Reverted

LEMMA CommandSession ==
  ASSUME SessionInv, SessionOK,
         \/ Answered \/ NotAnswered \/ Started \/ Committed \/ CommittedUnheard
         \/ RolledBack \/ LoseConnection \/ NewSession \/ UNCHANGED sessionVars
  PROVE  SessionInv'
BY DEF SessionInv, SessionOK, Answered, NotAnswered, Started, Committed,
       CommittedUnheard, RolledBack, LoseConnection, NewSession, sessionVars,
       Reachable

LEMMA StatementSession ==
  ASSUME SessionInv, SessionOK, NEW s,
         Executed(s) \/ Refused(s) \/ ExecutedUnheard(s)
  PROVE  SessionInv'
BY DEF SessionInv, SessionOK, Executed, Refused, ExecutedUnheard, Reachable

(***************************************************************************)
(* Plans built by the lookups.                                             *)
(***************************************************************************)
LEMMA BuiltShrinks ==
  ASSUME NEW p, NEW v, NEW w, BuiltPlan(p, v),
         \A T \in KeptTables : Keys(w[T]) \subseteq Keys(v[T])
  PROVE  BuiltPlan(p, w)
BY KeptNames DEF BuiltPlan, UpsertPlan, RegisterPlan

LEMMA EmptyBuilt ==
  ASSUME NEW v
  PROVE  BuiltPlan(<<>>, v) /\ PhonePlan(<<>>)
<1>1. DOMAIN <<>> = {}
  OBVIOUS
<1> QED BY <1>1 DEF BuiltPlan, KeptPlan, UpsertPlan, RegisterPlan, PhonePlan

\* statements on handles, channels and preferences may be appended
Harmless(q) == \A i \in DOMAIN q : q[i].table \in {Social, Channel, Preference}

LEMMA HarmlessBuilt ==
  ASSUME NEW q, Harmless(q), NEW v
  PROVE  BuiltPlan(q, v) /\ PhonePlan(q)
BY KeptNames DEF Harmless, BuiltPlan, KeptPlan, UpsertPlan, RegisterPlan,
                 PhonePlan, InsertsInto

LEMMA BuiltConcat ==
  ASSUME NEW p, p \in Seq({p[i] : i \in DOMAIN p}),
         NEW q, q \in Seq({q[i] : i \in DOMAIN q}),
         NEW v, BuiltPlan(p, v), PhonePlan(p), Harmless(q)
  PROVE  BuiltPlan(p \o q, v) /\ PhonePlan(p \o q)
<1> DEFINE S == {p[i] : i \in DOMAIN p} \cup {q[i] : i \in DOMAIN q}
           pq == p \o q
<1>1. p \in Seq(S) /\ q \in Seq(S)
  BY SeqMonotonic
<1> HIDE DEF S
<1>2. \A i \in DOMAIN pq :
        \/ i \in DOMAIN p /\ pq[i] = p[i]
        \/ i \notin DOMAIN p /\ pq[i].table \in {Social, Channel, Preference}
  BY <1>1, ConcatProperties DEF Harmless
<1>3. 1 \in DOMAIN p => pq[1] = p[1]
  BY <1>1, ConcatProperties
<1>4. \A i \in DOMAIN p : i = 2 => 1 \in DOMAIN p
  BY <1>1
<1> HIDE DEF pq
<1>5. KeptPlan(pq)
  BY <1>2, KeptNames DEF KeptPlan, BuiltPlan
<1>6. UpsertPlan(pq, v)
  BY <1>2, KeptNames DEF UpsertPlan, BuiltPlan, InsertsInto
<1>7. RegisterPlan(pq, v)
  BY <1>2, KeptNames DEF RegisterPlan, BuiltPlan, InsertsInto
<1>8. PhonePlan(pq)
  BY <1>2, <1>3, <1>4, KeptNames DEF PhonePlan, FollowsUser, InsertsInto
<1> QED BY <1>5, <1>6, <1>7, <1>8 DEF BuiltPlan, pq

\* one statement on an upserted table, which inserts only an unseen key
LEMMA UpsertBuilt ==
  ASSUME NEW T \in UpsertTables, NEW k, NEW val, NEW v,
         NEW s, s = IF k \in Keys(v[T]) THEN Update(T, {k}, val)
                    ELSE Insert(T, {Row(k, val)})
  PROVE  BuiltPlan(<<s>>, v) /\ PhonePlan(<<s>>)
<1>1. DOMAIN <<s>> = {1} /\ <<s>>[1] = s
  OBVIOUS
<1>2. s.table = T /\ s.op # "delete" /\ T # RegInfo /\ T # Phone
  BY KeptNames DEF Update, Insert
<1>3. s.op = "insert" => s.rows = {Row(k, val)} /\ k \notin Keys(v[T])
  BY DEF Update, Insert
<1>4. Row(k, val).key = k
  BY DEF Row
<1> QED
  BY <1>1, <1>2, <1>3, <1>4
     DEF BuiltPlan, KeptPlan, UpsertPlan, RegisterPlan, PhonePlan, InsertsInto

(***************************************************************************)
(* The lookups keep the invariant.                                         *)
(***************************************************************************)
LEMMA GoPlan ==
  ASSUME TablesInv, Same \/ Synced \/ Reverted, NEW point, point # "exec",
         NEW n, NEW p, BuiltPlan(p, view), PhonePlan(p), Go(point, n, p)
  PROVE  PlanInv'
<1>1. BuiltPlan(p, view')
  BY CommandTables, BuiltShrinks
<1> QED BY <1>1 DEF Go, PlanInv

LEMMA FinishPlan ==
  ASSUME NEW code, NEW http, Finish(code, http)
  PROVE  PlanInv'
BY DEF Finish, PlanInv

LEMMA IdlePlan == Idle => PlanInv'
BY DEF Idle, PlanInv

LEMMA SamePlan ==
  ASSUME PlanInv, TablesInv, Same \/ Synced \/ Reverted, NEW point,
         pc \notin {"idle", "reply", "exec"}, point # "exec", NEW n,
         Go(point, n, plan)
  PROVE  PlanInv'
<1>1. BuiltPlan(plan, view) /\ PhonePlan(plan)
  BY DEF PlanInv
<1> QED BY <1>1, GoPlan

LEMMA LookupEffect == Lookup => Same \/ Synced \/ Reverted
BY CommandEffect
   DEF Lookup, CheckRegistration, CheckAvatar, CheckProfile, CheckBothUids,
       CheckPreference, CheckLocation, LookupAddress, LookupFacebook,
       LookupTwitter, LookupRequest, LookupPublic, LookupChannel, LookupLocation

LEMMA CheckRegistrationPlan ==
  TypeOK /\ KeptInv /\ CheckRegistration => PlanInv'
<1> SUFFICES ASSUME TypeOK, KeptInv, CheckRegistration PROVE PlanInv'
  OBVIOUS
<1> DEFINE first == Insert(RegInfo, {Row(<<msg.uid, msg.email>>, Absent)})
           second == Insert(Phone, {Row(<<msg.uid>>, Absent)})
           p == <<first, second>>
<1>1. CASE Finish("404", "404")
  BY <1>1, FinishPlan
<1>2. CASE /\ ~\E r \in view[RegInfo] : r.key[1] = msg.uid \/ r.key[2] = msg.email
           /\ Go("start", 1, p)
  <2>1. \A k \in Keys(view[RegInfo]) : msg.uid # k[1] /\ msg.email # k[2]
    BY <1>2 DEF Keys
  <2>2. /\ DOMAIN p = {1, 2} /\ p[1] = first /\ p[2] = second
        /\ first.op = "insert" /\ first.table = RegInfo
        /\ second.op = "insert" /\ second.table = Phone
    BY DEF Insert
  <2>3. /\ \A r \in first.rows : r.key = <<msg.uid, msg.email>>
        /\ \A r \in second.rows : r.key = <<msg.uid>>
        /\ \E r \in first.rows : r.key = <<msg.uid, msg.email>>
    <3> DEFINE a == Row(<<msg.uid, msg.email>>, Absent)
               b == Row(<<msg.uid>>, Absent)
    <3>1. first.rows = {a} /\ second.rows = {b}
      BY DEF Insert
    <3>2. a.key = <<msg.uid, msg.email>> /\ b.key = <<msg.uid>>
      BY DEF Row
    <3> HIDE DEF a, b, first, second
    <3> QED BY <3>1, <3>2
  <2> HIDE DEF first, second, p
  <2>4. BuiltPlan(p, view)
    BY <2>1, <2>2, <2>3, KeptNames
       DEF BuiltPlan, KeptPlan, UpsertPlan, RegisterPlan, InsertsInto
  <2>5. PhonePlan(p)
    BY <2>2, <2>3, KeptNames DEF PhonePlan, FollowsUser, InsertsInto
  <2>6. Same \/ Synced \/ Reverted
    BY LookupEffect DEF Lookup
  <2> QED BY <1>2, <2>4, <2>5, <2>6, GoPlan DEF KeptInv
<1> QED BY <1>1, <1>2 DEF CheckRegistration

LEMMA HarmlessGo ==
  ASSUME TablesInv, Same \/ Synced \/ Reverted, NEW point, point # "exec",
         NEW n, NEW p, Harmless(p), Go(point, n, p)
  PROVE  PlanInv'
<1>1. BuiltPlan(p, view) /\ PhonePlan(p)
  BY HarmlessBuilt
<1> QED BY <1>1, GoPlan

LEMMA CheckPlan ==
  /\ TypeOK /\ KeptInv
  /\ CheckAvatar \/ CheckProfile \/ CheckBothUids \/ CheckLocation \/ CheckPreference
  => PlanInv'
<1> SUFFICES ASSUME TypeOK, KeptInv,
               CheckAvatar \/ CheckProfile \/ CheckBothUids \/ CheckLocation
                 \/ CheckPreference
    PROVE  PlanInv'
  OBVIOUS
<1>1. Same \/ Synced \/ Reverted
  BY LookupEffect DEF Lookup
<1>2. CASE CheckAvatar
  <2> DEFINE s == Update(RegInfo, {msg.uid} \X Emails, msg.url)
  <2>1. BuiltPlan(<<s>>, view) /\ PhonePlan(<<s>>)
    <3>1. DOMAIN <<s>> = {1} /\ <<s>>[1] = s /\ s.op = "update"
      BY DEF Update
    <3> QED
      BY <3>1 DEF BuiltPlan, KeptPlan, UpsertPlan, RegisterPlan, PhonePlan, InsertsInto
  <2> HIDE DEF s
  <2>2. Go("start", 2, <<s>>) \/ BareReturn
    BY <1>2 DEF CheckAvatar, s
  <2> QED BY <1>1, <2>1, <2>2, GoPlan, FinishPlan DEF KeptInv, BareReturn
<1>3. CASE CheckProfile \/ CheckBothUids \/ CheckLocation
  BY <1>1, <1>3, SamePlan, FinishPlan
     DEF KeptInv, BareReturn, CheckProfile, CheckBothUids, CheckLocation, At
<1>4. CASE CheckPreference
  <2> DEFINE list == msg.list
             keys == {<<msg.uid, list[i].channel>> : i \in DOMAIN list}
             rows == {[key |-> <<msg.uid, list[i].channel>>, val |-> list[i].flag,
                       id |-> i] : i \in DOMAIN list}
             p == <<Delete(Preference, keys), Insert(Preference, rows)>>
  <2>1. Harmless(p)
    <3> HIDE DEF keys, rows
    <3> QED BY DEF Harmless, Delete, Insert
  <2> HIDE DEF p
  <2>2. Go("start", 1, p) \/ Finish("404", "404")
    BY <1>4 DEF CheckPreference, p
  <2> QED BY <1>1, <2>1, <2>2, HarmlessGo, FinishPlan DEF KeptInv
<1> QED BY <1>2, <1>3, <1>4

LEMMA LookupAddressPlan ==
  TypeOK /\ KeptInv /\ LookupAddress => PlanInv'
<1> SUFFICES ASSUME TypeOK, KeptInv, LookupAddress PROVE PlanInv'
  OBVIOUS
<1> DEFINE key == <<msg.uid>>
           s == IF key \in Keys(view[Address]) THEN Update(Address, {key}, msg.address)
                ELSE Insert(Address, {Row(key, msg.address)})
<1>1. Same \/ Synced \/ Reverted
  BY LookupEffect DEF Lookup
<1>2. Address \in UpsertTables
  BY DEF UpsertTables
<1>3. BuiltPlan(<<s>>, view) /\ PhonePlan(<<s>>)
  <2> HIDE DEF key
  <2> QED BY <1>2, UpsertBuilt
<1>4. Go("facebook", 0, <<>>) \/ Go("facebook", 0, <<s>>) \/ BareReturn
  BY DEF LookupAddress, Found
<1> HIDE DEF s
<1> QED BY <1>1, <1>3, <1>4, EmptyBuilt, GoPlan, FinishPlan DEF KeptInv, BareReturn

\* the lookups that append to the plan append harmless statements
LEMMA AppendPlan ==
  ASSUME TypeOK, KeptInv, Same \/ Synced \/ Reverted, NEW point, point # "exec",
         pc \notin {"idle", "reply", "exec"}, NEW n, NEW q, PlanOK(q), Harmless(q),
         Go(point, n, plan \o q)
  PROVE  PlanInv'
<1>1. PlanOK(plan) /\ BuiltPlan(plan, view) /\ PhonePlan(plan)
  BY DEF TypeOK, HandlerOK, KeptInv, PlanInv
<1>2. BuiltPlan(plan \o q, view) /\ PhonePlan(plan \o q)
  BY <1>1, BuiltConcat DEF PlanOK
<1> QED BY <1>2, GoPlan DEF KeptInv

LEMMA SocialHarmless ==
  ASSUME NEW network, NEW handle
  PROVE  Harmless(SocialStatement(network, handle))
<1> DEFINE key == <<msg.uid, network>>
           a == Delete(Social, {key})
           b == Update(Social, {key}, handle)
           c == Insert(Social, {Row(key, handle)})
<1>1. a.table = Social /\ b.table = Social /\ c.table = Social
  BY DEF Delete, Update, Insert
<1>2. SocialStatement(network, handle) \in {<<>>, <<a>>, <<b>>, <<c>>}
  BY MessagesAssumption DEF SocialStatement
<1> HIDE DEF a, b, c
<1> QED BY <1>1, <1>2 DEF Harmless

LEMMA LookupSocialPlan ==
  TypeOK /\ KeptInv /\ (LookupFacebook \/ LookupTwitter) => PlanInv'
<1> SUFFICES ASSUME TypeOK, KeptInv, LookupFacebook \/ LookupTwitter PROVE PlanInv'
  OBVIOUS
<1> DEFINE p == SocialStatement("facebook", msg.facebook)
           q == SocialStatement("twitter", msg.twitter)
<1>1. Same \/ Synced \/ Reverted
  BY LookupEffect DEF Lookup
<1>2. PlanOK(p) /\ PlanOK(q)
  BY SocialStatementType, RunningMessage, MessageShape
     DEF TypeOK, LookupFacebook, LookupTwitter, At
<1>3. Harmless(p) /\ Harmless(q)
  BY SocialHarmless
<1>4. pc \in {"facebook", "twitter"}
  BY DEF LookupFacebook, LookupTwitter, At
<1>5. Go("twitter", 0, plan \o p) \/ Go("start", 1, plan \o q) \/ BareReturn
  BY DEF LookupFacebook, LookupTwitter
<1> HIDE DEF p, q
<1> QED BY <1>1, <1>2, <1>3, <1>4, <1>5, AppendPlan, FinishPlan DEF BareReturn

LEMMA LookupRequestPlan ==
  TypeOK /\ KeptInv /\ LookupRequest => PlanInv'
<1> SUFFICES ASSUME TypeOK, KeptInv, LookupRequest PROVE PlanInv'
  OBVIOUS
<1> DEFINE key == <<msg.from, msg.to>>
           s == IF key \in Keys(view[Request]) THEN Update(Request, {key}, msg.flag)
                ELSE Insert(Request, {Row(key, msg.flag)})
<1>1. Same \/ Synced \/ Reverted
  BY LookupEffect DEF Lookup
<1>2. Request \in UpsertTables
  BY DEF UpsertTables
<1>3. BuiltPlan(<<s>>, view) /\ PhonePlan(<<s>>)
  <2> HIDE DEF key
  <2> QED BY <1>2, UpsertBuilt
<1>4. Go("public", 0, <<s>>) \/ Go("start", 1, <<s>>) \/ Finish("404", "404")
  BY DEF LookupRequest, Found
<1> HIDE DEF s
<1> QED BY <1>1, <1>3, <1>4, GoPlan, FinishPlan DEF KeptInv

LEMMA LookupLocationPlan ==
  TypeOK /\ KeptInv /\ LookupLocation => PlanInv'
<1> SUFFICES ASSUME TypeOK, KeptInv, LookupLocation PROVE PlanInv'
  OBVIOUS
<1> DEFINE key == <<msg.uid>>
           s == IF key \in Keys(view[Location]) THEN Update(Location, {key}, msg.place)
                ELSE Insert(Location, {Row(key, msg.place)})
<1>1. Same \/ Synced \/ Reverted
  BY LookupEffect DEF Lookup
<1>2. Location \in UpsertTables
  BY DEF UpsertTables
<1>3. BuiltPlan(<<s>>, view) /\ PhonePlan(<<s>>)
  <2> HIDE DEF key
  <2> QED BY <1>2, UpsertBuilt
<1>4. Go("start", 1, <<s>>) \/ BareReturn
  BY DEF LookupLocation, Found
<1> HIDE DEF s
<1> QED BY <1>1, <1>3, <1>4, GoPlan, FinishPlan DEF KeptInv, BareReturn

LEMMA LookupPublicPlan ==
  TypeOK /\ KeptInv /\ LookupPublic => PlanInv'
<1> SUFFICES ASSUME TypeOK, KeptInv, LookupPublic PROVE PlanInv'
  OBVIOUS
<1>1. Same \/ Synced \/ Reverted
  BY LookupEffect DEF Lookup
<1>2. CASE Finish("404", "404")
  BY <1>2, FinishPlan
<1>3. CASE pc' = "start"
  <2> DEFINE public == {r \in view[Preference] : r.key[1] = msg.to /\ r.val = "public"}
             granted == IF public = {}
                        THEN {Row(<<msg.from, msg.to, "connect">>, Absent)}
                        ELSE {[key |-> <<msg.from, msg.to, r.key[2]>>, val |-> Absent,
                               id |-> r.id] : r \in public}
             dropped == {msg.from} \X {msg.to} \X (ChannelIds \cup {"connect"})
             q == <<Delete(Channel, dropped), Insert(Channel, granted)>>
  <2>1. Go("start", 1, plan \o q) /\ pc = "public"
    BY <1>3 DEF LookupPublic, At, Finish
  <2>2. Harmless(q)
    <3> HIDE DEF granted, dropped
    <3> QED BY DEF Harmless, Delete, Insert
  <2>3. BuiltPlan(plan \o q, view) /\ PhonePlan(plan \o q)
    <3> HIDE DEF q
    <3>1. BuiltPlan(plan, view) /\ PhonePlan(plan)
      BY <2>1 DEF KeptInv, PlanInv
    <3>2. plan \in Seq({plan[i] : i \in DOMAIN plan})
      BY DEF TypeOK, HandlerOK, PlanOK
    <3>3. q \in Seq({q[i] : i \in DOMAIN q})
      <4> DEFINE a == Delete(Channel, dropped)
                 b == Insert(Channel, granted)
      <4>1. q = <<a, b>>
        BY DEF q
      <4> HIDE DEF a, b
      <4>2. q \in Seq({a, b})
        BY <4>1
      <4> QED BY <4>2, SeqOfItself
    <3> QED BY <2>2, <3>1, <3>2, <3>3, BuiltConcat
  <2> HIDE DEF q
  <2> QED BY <1>1, <2>1, <2>3, GoPlan DEF KeptInv
<1> QED BY <1>2, <1>3 DEF LookupPublic, Go

LEMMA LookupChannelPlan ==
  TypeOK /\ KeptInv /\ LookupChannel => PlanInv'
<1> SUFFICES ASSUME TypeOK, KeptInv, LookupChannel PROVE PlanInv'
  OBVIOUS
<1> DEFINE p == <<Insert(Channel, {Row(<<msg.from, msg.to, msg.type>>, Absent)})>>
<1>1. Same \/ Synced \/ Reverted
  BY LookupEffect DEF Lookup
<1>2. Harmless(p)
  BY DEF Harmless, Insert
<1>3. Go("start", 1, p) \/ Finish("404", "404") \/ Finish("200", "200")
  BY DEF LookupChannel
<1> HIDE DEF p
<1> QED BY <1>1, <1>2, <1>3, HarmlessGo, FinishPlan DEF KeptInv

LEMMA LookupPlan == TypeOK /\ KeptInv /\ Lookup => PlanInv'
BY CheckRegistrationPlan, CheckPlan, LookupAddressPlan, LookupSocialPlan,
   LookupRequestPlan, LookupLocationPlan, LookupPublicPlan, LookupChannelPlan
   DEF Lookup

(***************************************************************************)
(* The statements keep the invariant.                                      *)
(***************************************************************************)
\* the head of a running plan may be executed
MayExecute(s) ==
  /\ s.op = "delete" => s.table \notin KeptTables
  /\ \A T \in UpsertTables : InsertsInto(s, T) =>
       \E r \in s.rows : s.rows = {r} /\ r.key \notin Keys(view[T])
  /\ InsertsInto(s, Phone) => \A r \in s.rows : UserIn(r.key[1], view)

LEMMA UserInKeys ==
  ASSUME NEW u, NEW t
  PROVE  UserIn(u, t) <=> \E k \in Keys(t[RegInfo]) : k[1] = u
BY DEF UserIn, Keys

LEMMA StatementTables ==
  ASSUME SessionOK, TablesInv, NEW s, StatementOK(s), MayExecute(s),
         view' = Apply(s, view), db' \in {db, view'}
  PROVE  TablesInv'
<1>0. TablesOK(view)
  BY DEF SessionOK
<1>1. \A T \in KeptTables : Keys(view[T]) \subseteq Keys(view'[T])
  BY <1>0, ApplyKeeps DEF MayExecute
<1>2. \A T \in KeptTables : Keys(db'[T]) \subseteq Keys(view'[T])
  BY <1>1 DEF TablesInv
<1>3. ASSUME NEW T \in UpsertTables PROVE NoDuplicates(view'[T])
  <2>1. NoDuplicates(view[T]) /\ T \in TableNames
    BY KeptNames DEF TablesInv
  <2>2. CASE s.table # T
    BY <1>0, <2>1, <2>2, ApplyTable
  <2>3. CASE s.table = T /\ s.op = "insert"
    <3>1. view'[T] = AddRows(view[T], s.rows)
      BY <1>0, <2>1, <2>3, ApplyTable
    <3>2. PICK r \in s.rows : s.rows = {r} /\ r.key \notin Keys(view[T])
      BY <2>3 DEF MayExecute, InsertsInto
    <3>3. NoDuplicates(AddRows(view[T], {r}))
      BY <2>1, <3>2, AddUnique
    <3> QED BY <3>1, <3>2, <3>3
  <2>4. CASE s.table = T /\ s.op = "update"
    BY <1>0, <2>1, <2>4, ApplyTable, SetUnique
  <2>5. CASE s.table = T /\ s.op = "delete"
    BY <1>0, <2>1, <2>5, ApplyTable, DropUnique
  <2> QED BY <2>2, <2>3, <2>4, <2>5 DEF StatementOK
<1>4. ASSUME NEW k \in Keys(view'[Phone])
      PROVE  k \in Keys(view[Phone]) \/ UserIn(k[1], view)
  <2>1. CASE s.table # Phone
    BY <1>0, <1>4, <2>1, ApplyTable, KeptNames
  <2>2. CASE InsertsInto(s, Phone)
    <3>1. k \in Keys(view[Phone]) \cup Keys(s.rows)
      BY <1>0, <1>4, <2>2, ApplyTable, AddKeys, KeptNames DEF InsertsInto
    <3> QED BY <2>2, <3>1 DEF MayExecute, Keys
  <2>3. CASE s.table = Phone /\ s.op = "update"
    BY <1>0, <1>4, <2>3, ApplyTable, SetKeys, KeptNames
  <2> QED BY <2>1, <2>2, <2>3, KeptNames DEF StatementOK, MayExecute, InsertsInto
<1>5. \A k \in Keys(view'[Phone]) : UserIn(k[1], view)
  BY <1>4 DEF TablesInv, Keys
<1>6. \A u : UserIn(u, view) => UserIn(u, view')
  BY <1>1, UserInKeys, KeptNames
<1>7. \A r \in view'[Phone] : UserIn(r.key[1], view')
  BY <1>5, <1>6 DEF Keys
<1> QED BY <1>2, <1>3, <1>7 DEF TablesInv

LEMMA HeadMayExecute ==
  ASSUME TypeOK, KeptInv, pc = "exec", Reachable
  PROVE  MayExecute(Head(plan)) /\ StatementOK(Head(plan))
<1>1. plan # <<>> /\ PlanOK(plan)
  BY DEF TypeOK, HandlerOK
<1>2. 1 \in DOMAIN plan /\ Head(plan) = plan[1]
  BY <1>1 DEF PlanOK
<1>3. ~(link = "dead" /\ inTrans)
  BY DEF Reachable, TypeOK, SessionOK
<1>4. BuiltPlan(plan, view) /\ PhonePlanRunning(plan, view, FALSE)
  BY <1>3 DEF KeptInv, PlanInv
<1>5. MayExecute(plan[1])
  BY <1>2, <1>4
     DEF MayExecute, BuiltPlan, KeptPlan, UpsertPlan, PhonePlanRunning, FollowsUser
<1> QED BY <1>1, <1>2, <1>5, PlanHeadTail

\* an insert into UserRegInfo or an upserted table is gone once it is executed
LEMMA TailBuilt ==
  ASSUME NEW p, PlanOK(p), p # <<>>, NEW v, BuiltPlan(p, v), NEW w
  PROVE  BuiltPlan(Tail(p), w)
<1>1. \A i \in DOMAIN Tail(p) :
        i + 1 \in DOMAIN p /\ i + 1 # 1 /\ Tail(p)[i] = p[i + 1]
  BY DEF PlanOK
<1> DEFINE q == Tail(p)
<1> HIDE DEF q
<1>2. \A i \in DOMAIN q : \E j \in DOMAIN p : j # 1 /\ q[i] = p[j]
  BY <1>1 DEF q
<1>3. BuiltPlan(q, w)
  BY <1>2 DEF BuiltPlan, KeptPlan, UpsertPlan, RegisterPlan
<1> QED BY <1>3 DEF q

LEMMA RunningTail ==
  ASSUME NEW p, PlanOK(p), p # <<>>, NEW v, PhonePlanRunning(p, v, FALSE),
         NEW w, NEW lost,
         InsertsInto(p[1], RegInfo) => \A r \in p[1].rows : UserIn(r.key[1], w)
  PROVE  PhonePlanRunning(Tail(p), w, lost)
<1>1. \A i \in DOMAIN Tail(p) :
        i \in Nat /\ i + 1 \in DOMAIN p /\ i + 1 # 1 /\ Tail(p)[i] = p[i + 1]
  BY DEF PlanOK
<1> DEFINE q == Tail(p)
<1> HIDE DEF q
<1>2. \A i \in DOMAIN q :
        i \in Nat /\ i + 1 \in DOMAIN p /\ i + 1 # 1 /\ q[i] = p[i + 1]
  BY <1>1 DEF q
<1>3. ASSUME NEW i \in DOMAIN q, InsertsInto(q[i], Phone), NEW r \in q[i].rows
      PROVE  i = 1 /\ UserIn(r.key[1], w)
  <2>1. FollowsUser(p, i + 1, r)
    BY <1>2, <1>3 DEF PhonePlanRunning
  <2> QED BY <1>2, <2>1 DEF FollowsUser
<1>4. PhonePlanRunning(q, w, lost)
  BY <1>3 DEF PhonePlanRunning
<1> QED BY <1>4 DEF q

LEMMA ExecStatementKept ==
  TypeOK /\ KeptInv /\ ExecStatement => KeptInv'
<1> SUFFICES ASSUME TypeOK, KeptInv, ExecStatement PROVE KeptInv'
  OBVIOUS
<1> DEFINE s == Head(plan)
<1>1. /\ pc = "exec" /\ Reachable /\ view' = Apply(s, view) /\ db' \in {db, view'}
      /\ Executed(s)
  BY DEF ExecStatement, Executed
<1>2. MayExecute(s) /\ StatementOK(s)
  BY <1>1, HeadMayExecute
<1>3. plan # <<>> /\ PlanOK(plan) /\ s = plan[1]
  BY <1>1 DEF TypeOK, HandlerOK, PlanOK
<1> HIDE DEF s
<1>4. SessionInv'
  BY <1>1, StatementSession DEF KeptInv, TypeOK
<1>5. TablesInv'
  BY <1>1, <1>2, StatementTables DEF KeptInv, TypeOK
<1>6. InsertsInto(plan[1], RegInfo) =>
        \A r \in plan[1].rows : UserIn(r.key[1], view')
  <2> SUFFICES ASSUME InsertsInto(plan[1], RegInfo), NEW r \in plan[1].rows
        PROVE  UserIn(r.key[1], view')
    OBVIOUS
  <2>1. Keys(view'[RegInfo]) = Keys(view[RegInfo]) \cup Keys(s.rows)
    BY <1>1, <1>2, <1>3, ApplyTable, AddKeys, KeptNames
       DEF InsertsInto, TypeOK, SessionOK
  <2>2. r.key \in Keys(s.rows)
    BY <1>3 DEF Keys
  <2> QED BY <2>1, <2>2, UserInKeys
<1>7. BuiltPlan(plan, view) /\ PhonePlanRunning(plan, view, FALSE)
  BY <1>1 DEF KeptInv, PlanInv, Reachable, TypeOK, SessionOK
<1>8. BuiltPlan(Tail(plan), view')
  BY <1>3, <1>7, TailBuilt
<1>9. PhonePlanRunning(Tail(plan), view', (link = "dead" /\ inTrans)')
  BY <1>3, <1>6, <1>7, RunningTail
<1>10. PlanInv'
  <2>1. CASE pc' = "exec"
    BY <1>8, <1>9, <2>1 DEF PlanInv, ExecStatement, Go
  <2>2. CASE pc' = "commit" /\ plan' = <<>>
    BY <2>2, EmptyBuilt DEF PlanInv
  <2> QED BY <2>1, <2>2 DEF ExecStatement, Go, AfterStatement
<1> QED BY <1>4, <1>5, <1>10 DEF KeptInv

LEMMA StartTransactionKept ==
  TypeOK /\ KeptInv /\ StartTransaction => KeptInv'
<1> SUFFICES ASSUME TypeOK, KeptInv, StartTransaction PROVE KeptInv'
  OBVIOUS
<1>1. Same \/ Synced \/ Reverted
  BY CommandEffect DEF StartTransaction
<1>2. SessionInv' /\ TablesInv'
  BY <1>1, CommandSession, CommandTables DEF KeptInv, TypeOK, StartTransaction
<1>3. BuiltPlan(plan, view) /\ PhonePlan(plan)
  BY DEF StartTransaction, KeptInv, PlanInv
<1>4. BuiltPlan(plan, view')
  BY <1>1, <1>3, CommandTables, BuiltShrinks DEF KeptInv
<1>5. PhonePlanRunning(plan, view', (link = "dead" /\ inTrans)')
  BY <1>3 DEF PhonePlan, PhonePlanRunning
<1>6. /\ plan' = plan /\ pings' = 0
      /\ pc' = "exec" \/ (pc' = "commit")
  BY DEF StartTransaction, Go, AfterStatement
<1>7. PlanInv'
  BY <1>3, <1>4, <1>5, <1>6 DEF PlanInv
<1> QED BY <1>2, <1>7 DEF KeptInv

LEMMA FailStatementKept ==
  TypeOK /\ KeptInv /\ FailStatement => KeptInv'
<1> SUFFICES ASSUME TypeOK, KeptInv, FailStatement PROVE KeptInv'
  OBVIOUS
<1> DEFINE s == Head(plan)
<1>1. pc = "exec" /\ (Refused(s) \/ ExecutedUnheard(s) \/ NotAnswered)
  BY DEF FailStatement
<1>2. SessionInv'
  BY <1>1, StatementSession, CommandSession DEF KeptInv, TypeOK
<1>3. TablesInv'
  <2>1. CASE NotAnswered
    BY <2>1, CommandEffect, CommandTables DEF KeptInv
  <2>2. CASE Refused(s)
    BY <2>2, CommandTables DEF KeptInv, Refused, Same
  <2>3. CASE ExecutedUnheard(s)
    <3>1. Reachable /\ view' = Apply(s, view) /\ db' = view'
      BY <2>3 DEF ExecutedUnheard
    <3>2. MayExecute(s) /\ StatementOK(s)
      BY <1>1, <3>1, HeadMayExecute
    <3> HIDE DEF s
    <3> QED BY <3>1, <3>2, StatementTables DEF KeptInv, TypeOK
  <2> QED BY <1>1, <2>1, <2>2, <2>3
<1>4. PlanInv'
  <2>1. CASE Go("rollback", 0, <<>>)
    BY <2>1, EmptyBuilt DEF Go, PlanInv
  <2>2. CASE BareReturn
    BY <2>2, FinishPlan DEF BareReturn
  <2> QED BY <2>1, <2>2 DEF FailStatement
<1> QED BY <1>2, <1>3, <1>4 DEF KeptInv

(***************************************************************************)
(* The other actions.                                                      *)
(***************************************************************************)
LEMMA PingKept == TypeOK /\ KeptInv /\ Ping => KeptInv'
<1> SUFFICES ASSUME TypeOK, KeptInv, Ping PROVE KeptInv'
  OBVIOUS
<1>1. Same \/ Synced \/ Reverted
  BY CommandEffect DEF Ping
<1>2. SessionInv' /\ TablesInv'
  BY <1>1, CommandSession, CommandTables DEF KeptInv, TypeOK, Ping
<1>3. pc # "exec" /\ pc' = pc /\ plan' = plan
  BY DEF Ping, KeptInv, PlanInv
<1>4. pc \notin {"idle", "reply", "exec"} =>
        BuiltPlan(plan, view) /\ PhonePlan(plan)
  BY DEF KeptInv, PlanInv
<1>5. ASSUME BuiltPlan(plan, view) PROVE BuiltPlan(plan, view')
  BY <1>1, <1>5, CommandTables, BuiltShrinks DEF KeptInv
<1>6. PlanInv'
  BY <1>3, <1>4, <1>5 DEF PlanInv
<1> QED BY <1>2, <1>6 DEF KeptInv

LEMMA LookupKept == TypeOK /\ KeptInv /\ Lookup => KeptInv'
<1> SUFFICES ASSUME TypeOK, KeptInv, Lookup PROVE KeptInv'
  OBVIOUS
<1>1. Answered \/ NotAnswered
  BY DEF Lookup, CheckRegistration, CheckAvatar, CheckProfile, CheckBothUids,
         CheckPreference, CheckLocation, LookupAddress, LookupFacebook,
         LookupTwitter, LookupRequest, LookupPublic, LookupChannel,
         LookupLocation
<1>2. SessionInv' /\ TablesInv'
  BY <1>1, CommandEffect, CommandSession, CommandTables DEF KeptInv, TypeOK
<1> QED BY <1>2, LookupPlan DEF KeptInv

\* steps after which no plan is running
LEMMA RestingKept ==
  ASSUME TypeOK, KeptInv,
         \/ Committed \/ CommittedUnheard \/ RolledBack \/ NotAnswered
         \/ NewSession \/ UNCHANGED sessionVars,
         Idle \/ (\E code, http : Finish(code, http))
  PROVE  KeptInv'
<1>1. SessionInv' /\ TablesInv'
  BY CommandEffect, CommandSession, CommandTables DEF KeptInv, TypeOK
<1>2. PlanInv'
  BY IdlePlan, FinishPlan
<1> QED BY <1>1, <1>2 DEF KeptInv

LEMMA ReceiveKept ==
  ASSUME NEW m, TypeOK, KeptInv, Receive(m)
  PROVE  KeptInv'
<1>1. SessionInv' /\ TablesInv'
  BY CommandEffect, CommandSession, CommandTables DEF KeptInv, TypeOK, Receive
<1>2. plan' = <<>> /\ pc' \in {"reply", "check"}
  BY DEF Receive
<1>3. PlanInv'
  BY <1>2, EmptyBuilt DEF PlanInv
<1> QED BY <1>1, <1>3 DEF KeptInv

LEMMA DisconnectKept == TypeOK /\ KeptInv /\ Disconnect => KeptInv'
<1> SUFFICES ASSUME TypeOK, KeptInv, Disconnect PROVE KeptInv'
  OBVIOUS
<1>1. Same \/ Synced \/ Reverted
  BY CommandEffect DEF Disconnect
<1>2. SessionInv' /\ TablesInv'
  BY <1>1, CommandSession, CommandTables DEF KeptInv, TypeOK, Disconnect
<1>3. pc' = pc /\ plan' = plan /\ pings' = pings
  BY DEF Disconnect, handlerVars
<1>4. ASSUME BuiltPlan(plan, view) PROVE BuiltPlan(plan, view')
  BY <1>1, <1>4, CommandTables, BuiltShrinks DEF KeptInv
<1>5. ASSUME PhonePlanRunning(plan, view, link = "dead" /\ inTrans)
      PROVE  PhonePlanRunning(plan, view', (link = "dead" /\ inTrans)')
  <2>1. CASE txn
    <3>1. (link = "dead" /\ inTrans)'
      BY <2>1 DEF Disconnect, LoseConnection, KeptInv, SessionInv
    <3> QED BY <1>5, <3>1 DEF PhonePlanRunning
  <2>2. CASE ~txn
    <3>1. view' = view /\ link = "up"
      BY <2>2 DEF Disconnect, LoseConnection, KeptInv, SessionInv
    <3> QED BY <1>5, <3>1 DEF PhonePlanRunning
  <2> QED BY <2>1, <2>2
<1>6. PlanInv'
  BY <1>3, <1>4, <1>5 DEF KeptInv, PlanInv
<1> QED BY <1>2, <1>6 DEF KeptInv

(***************************************************************************)
(* The theorems.                                                           *)
(***************************************************************************)
LEMMA InitKept == Init => KeptInv
BY EmptyBuilt, KeptNames
   DEF Init, SessionInit, KeptInv, SessionInv, TablesInv, PlanInv, NoRows,
       NoDuplicates

LEMMA NextKept == TypeOK /\ KeptInv /\ [Next]_vars => KeptInv'
<1> SUFFICES ASSUME TypeOK, KeptInv, [Next]_vars PROVE KeptInv'
  OBVIOUS
<1>1. CASE Commit \/ Rollback
  BY <1>1, RestingKept DEF Commit, Rollback
<1>2. CASE Reply \/ RequestWithoutFlag \/ Restart
  BY <1>2, RestingKept DEF Reply, RequestWithoutFlag, Restart
<1>3. CASE UNCHANGED vars
  <2>1. UNCHANGED sessionVars /\ UNCHANGED handlerVars
    BY <1>3 DEF vars
  <2>2. SessionInv' /\ TablesInv'
    BY <2>1 DEF KeptInv, SessionInv, TablesInv, sessionVars
  <2>3. PlanInv'
    BY <2>1 DEF KeptInv, PlanInv, sessionVars, handlerVars
  <2> QED BY <2>2, <2>3 DEF KeptInv
<1> QED
  BY <1>1, <1>2, <1>3, ReceiveKept, PingKept, LookupKept, StartTransactionKept,
     ExecStatementKept, FailStatementKept, DisconnectKept
     DEF Next

\* The inductive invariant holds in every reachable state of the handlers,
\* whatever the connection, the server and the process do.
THEOREM KeptInvariant == Spec => []KeptInv
<1>1. Init => KeptInv
  BY InitKept
<1>2. TypeOK /\ KeptInv /\ [Next]_vars => KeptInv'
  BY NextKept
<1> QED BY <1>1, <1>2, TypeCorrect, PTL DEF Spec

\* The lookup-then-write of addresses, connection requests and locations
\* (mysqldb_handler.c 747-762, 994-1010, 1887-1905) stores one row per key.
THEOREM UpsertedOnceHolds == Spec => []UpsertedOnce
<1>1. KeptInv => UpsertedOnce
  BY DEF KeptInv, TablesInv, UpsertedOnce
<1> QED BY <1>1, KeptInvariant, PTL

\* The phone row of a registration (mysqldb_handler.c 352-381) is never
\* stored without its user row.
THEOREM PhoneHasOwnerHolds == Spec => []PhoneHasOwner
<1>1. KeptInv => PhoneHasOwner
  BY DEF KeptInv, TablesInv, PhoneHasOwner
<1> QED BY <1>1, KeptInvariant, PTL

LEMMA KeyStillFree == TypeOK /\ KeptInv => CheckedKeyIsFree
<1> SUFFICES ASSUME TypeOK, KeptInv, pc = "exec", BreaksUnique(Head(plan), view)
      PROVE  FALSE
  BY DEF CheckedKeyIsFree
<1>1. plan # <<>> /\ PlanOK(plan)
  BY DEF TypeOK, HandlerOK
<1>2. 1 \in DOMAIN plan /\ Head(plan) = plan[1]
  BY <1>1 DEF PlanOK
<1>3. RegisterPlan(plan, view)
  BY DEF KeptInv, PlanInv, BuiltPlan
<1>4. PICK r \in plan[1].rows, s \in view[RegInfo] :
        r.key[1] = s.key[1] \/ r.key[2] = s.key[2]
  BY <1>2 DEF BreaksUnique
<1>5. s.key \in Keys(view[RegInfo])
  BY DEF Keys
<1> QED BY <1>2, <1>3, <1>4, <1>5 DEF RegisterPlan, InsertsInto, BreaksUnique

\* The registration's lookup (mysqldb_handler.c 325-341) still stands when
\* its insert is sent.
THEOREM CheckedKeyHolds == Spec => []CheckedKeyIsFree
BY KeyStillFree, TypeCorrect, KeptInvariant, PTL

LEMMA ForgetsNothing ==
  TypeOK /\ KeptInv /\ [Next]_vars =>
    \A T \in KeptTables : Keys(db[T]) \subseteq Keys(db'[T])
<1> SUFFICES ASSUME TypeOK, KeptInv, [Next]_vars, NEW T \in KeptTables
    PROVE  Keys(db[T]) \subseteq Keys(db'[T])
  OBVIOUS
<1>1. Keys(db[T]) \subseteq Keys(view[T])
  BY DEF KeptInv, TablesInv
<1>2. CASE Same \/ Synced \/ Reverted
  BY <1>1, <1>2 DEF Same, Synced, Reverted
<1>3. CASE pc = "exec" /\ (Executed(Head(plan)) \/ ExecutedUnheard(Head(plan)))
  <2> DEFINE s == Head(plan)
  <2>1. Reachable /\ view' = Apply(s, view) /\ db' \in {db, view'}
    BY <1>3 DEF Executed, ExecutedUnheard
  <2>2. MayExecute(s) /\ StatementOK(s)
    BY <1>3, <2>1, HeadMayExecute
  <2> HIDE DEF s
  <2>3. Keys(view[T]) \subseteq Keys(view'[T])
    BY <2>1, <2>2, ApplyKeeps DEF MayExecute, TypeOK, SessionOK
  <2> QED BY <1>1, <2>1, <2>3
<1>4. CASE pc = "exec" /\ Refused(Head(plan))
  BY <1>2, <1>4 DEF Refused, Same
<1>5. ASSUME \/ \E m \in Messages : Receive(m)
             \/ Ping \/ Lookup \/ RequestWithoutFlag \/ StartTransaction
             \/ Commit \/ Rollback \/ Reply \/ Disconnect \/ Restart
             \/ UNCHANGED vars
      PROVE  Same \/ Synced \/ Reverted
  BY <1>5, CommandEffect, LookupEffect
     DEF Receive, Ping, RequestWithoutFlag, StartTransaction, Commit, Rollback,
         Reply, Disconnect, Restart, vars, sessionVars
<1>6. CASE ExecStatement
  BY <1>3, <1>6 DEF ExecStatement
<1>7. CASE FailStatement
  <2>1. CASE NotAnswered
    BY <1>2, <2>1, CommandEffect
  <2> QED BY <1>3, <1>4, <1>7, <2>1 DEF FailStatement
<1> QED BY <1>2, <1>5, <1>6, <1>7 DEF Next

\* A stored user, phone, address, connection request or location stays
\* stored: no step of a handler, of the library or of the server takes its
\* key out of the committed tables.
THEOREM NeverForgetsHolds == Spec => NeverForgets
BY ForgetsNothing, TypeCorrect, KeptInvariant, PTL DEF Spec, NeverForgets

(***************************************************************************)
(* Without refused statements.                                             *)
(***************************************************************************)
LEMMA RestKept ==
  ASSUME "reject" \notin Faults, TypeOK, KeptInv, NoTransactionAtRest, [Next]_vars
  PROVE  NoTransactionAtRest'
<1>1. ASSUME Answered \/ NotAnswered \/ LoseConnection, ~txn PROVE ~txn'
  BY <1>1 DEF Answered, NotAnswered, LoseConnection
<1>2. ASSUME NEW m \in Messages, Receive(m) PROVE NoTransactionAtRest'
  BY <1>2 DEF Receive, NoTransactionAtRest, sessionVars
<1>3. CASE Ping
  BY <1>1, <1>3 DEF Ping, NoTransactionAtRest
<1>4. CASE Lookup
  <2>1. Answered \/ NotAnswered
    BY <1>4 DEF Lookup, CheckRegistration, CheckAvatar, CheckProfile,
         CheckBothUids, CheckPreference, CheckLocation, LookupAddress,
         LookupFacebook, LookupTwitter, LookupRequest, LookupPublic,
         LookupChannel, LookupLocation
  <2>2. pc \notin {"exec", "commit", "rollback"}
    BY <1>4 DEF Lookup, CheckRegistration, CheckAvatar, CheckProfile,
         CheckBothUids, CheckPreference, CheckLocation, LookupAddress,
         LookupFacebook, LookupTwitter, LookupRequest, LookupPublic,
         LookupChannel, LookupLocation, At
  <2> QED BY <1>1, <2>1, <2>2 DEF NoTransactionAtRest
<1>5. CASE StartTransaction \/ ExecStatement
  BY <1>5 DEF StartTransaction, ExecStatement, Go, AfterStatement,
              NoTransactionAtRest
<1>6. CASE FailStatement
  <2>1. ~Refused(Head(plan))
    BY <1>6, KeyStillFree DEF FailStatement, Refused, CheckedKeyIsFree
  <2>2. CASE ExecutedUnheard(Head(plan))
    BY <2>2 DEF ExecutedUnheard, NoTransactionAtRest
  <2>3. CASE NotAnswered
    BY <2>3 DEF NotAnswered, LoseConnection, KeptInv, SessionInv,
                NoTransactionAtRest
  <2> QED BY <1>6, <2>1, <2>2, <2>3 DEF FailStatement
<1>7. CASE Commit \/ Rollback
  <2>1. NotAnswered => ~txn'
    BY DEF NotAnswered, LoseConnection, KeptInv, SessionInv
  <2> QED BY <1>7, <2>1 DEF Commit, Rollback, Committed, CommittedUnheard,
                            RolledBack, NoTransactionAtRest
<1>8. CASE RequestWithoutFlag \/ Restart
  BY <1>8 DEF RequestWithoutFlag, Restart, NewSession, NoTransactionAtRest
<1>9. CASE Reply \/ UNCHANGED vars
  BY <1>9 DEF Reply, Idle, vars, sessionVars, handlerVars, NoTransactionAtRest
<1>10. CASE Disconnect
  BY <1>10 DEF Disconnect, LoseConnection, NoTransactionAtRest
<1> QED
  BY <1>2, <1>3, <1>4, <1>5, <1>6, <1>7, <1>8, <1>9, <1>10 DEF Next

\* A handler never leaves its transaction open behind it (mysqldb_handler.c
\* 44-70), however often the connection is lost and the process restarted,
\* if the server refuses no statement.
THEOREM RestHolds ==
  ASSUME "reject" \notin Faults
  PROVE  Spec => []NoTransactionAtRest
<1>1. Init => NoTransactionAtRest
  BY DEF Init, SessionInit, NoTransactionAtRest
<1>2. TypeOK /\ KeptInv /\ NoTransactionAtRest /\ [Next]_vars
        => NoTransactionAtRest'
  BY RestKept
<1> QED BY <1>1, <1>2, TypeCorrect, KeptInvariant, PTL DEF Spec

===========================================================================
