-------------------------- MODULE UpdateHandlers --------------------------
(***************************************************************************)
(* The seven update APIs of mysqldb_handler.c, as the process runs them:   *)
(* one request at a time, over one MySQL session, call by call.            *)
(*                                                                         *)
(* `pc' is the next mysql_query of the running handler and `pings' how     *)
(* many gweb_mysql_ping calls come before it.  A handler looks up what it  *)
(* needs, builds the write statements in its query buffer (`plan'), starts *)
(* a transaction, executes the plan and commits.  `body' is the code in    *)
(* the JSON response allocated so far, `status' the HTTP status that       *)
(* gweb_json_post_processor and gweb_build_http_response make of the       *)
(* handler's return value.                                                 *)
(***************************************************************************)
EXTENDS MysqlSession

CONSTANTS Uids, Emails, Urls, Addresses, Handles, Flags, ChannelIds,
          PrefFlags, Places,
          Absent,      \* a JSON field that is not in the message
          Messages     \* the messages clients send

Opt(S) == S \cup {Absent}

Preferences == [channel : ChannelIds, flag : PrefFlags]

RegistrationMsg == [api : {"registration"}, uid : Uids, email : Emails]
AvatarMsg == [api : {"update_avatar"}, uid : Uids, url : Urls]
ProfileMsg == [api : {"update_profile"}, uid : Uids, address : Opt(Addresses),
               facebook : Opt(Handles \cup {""}), twitter : Opt(Handles \cup {""})]
CxnRequestMsg == [api : {"cxn_request"}, from : Opt(Uids), to : Opt(Uids),
                  flag : Opt(Flags)]
CxnChannelMsg == [api : {"cxn_channel"}, from : Opt(Uids), to : Opt(Uids),
                  type : Opt(ChannelIds)]
CxnPreferenceMsg == [api : {"cxn_preference"}, uid : Opt(Uids),
                     list : Seq(Preferences)]
LocationMsg == [api : {"location"}, uid : Opt(Uids), place : Opt(Places)]

Message == RegistrationMsg \cup AvatarMsg \cup ProfileMsg \cup CxnRequestMsg
             \cup CxnChannelMsg \cup CxnPreferenceMsg \cup LocationMsg

ASSUME MessagesAssumption ==
  /\ Messages \subseteq Message
  /\ Absent \notin UNION {Uids, Addresses, Handles, Flags, ChannelIds, Places}
  /\ Absent # ""

VARIABLES msg, pc, pings, plan, body, status

handlerVars == <<msg, pc, pings, plan, body, status>>
vars == <<sessionVars, handlerVars>>

Init ==
  /\ SessionInit
  /\ msg = Absent
  /\ pc = "idle"
  /\ pings = 0
  /\ plan = <<>>
  /\ body = "none"
  /\ status = "none"

(***************************************************************************)
(* Control.                                                                *)
(***************************************************************************)
At(point, apis) == pc = point /\ pings = 0 /\ msg.api \in apis

Go(point, n, newPlan) ==
  /\ pc' = point
  /\ pings' = n
  /\ plan' = newPlan
  /\ UNCHANGED <<msg, body, status>>

Finish(code, http) ==
  /\ pc' = "reply"
  /\ body' = code
  /\ status' = http
  /\ UNCHANGED <<msg, pings, plan>>

\* report_mysql_error_noclose returns -1 out of the handler
BareReturn == Finish(body, "404")

Idle ==
  /\ msg' = Absent
  /\ pc' = "idle"
  /\ pings' = 0
  /\ plan' = <<>>
  /\ body' = "none"
  /\ status' = "none"

\* these handlers allocate an OK response before they do anything
PrepareFirst == {"cxn_request", "cxn_channel", "cxn_preference", "location"}

LacksField(m) ==
  \/ m.api \in {"cxn_request", "cxn_channel"} /\ Absent \in {m.from, m.to}
  \/ m.api = "cxn_channel" /\ m.type = Absent
  \/ m.api \in {"cxn_preference", "location"} /\ m.uid = Absent
  \/ m.api = "location" /\ m.place = Absent

Receive(m) ==
  /\ pc = "idle"
  /\ msg' = m
  /\ plan' = <<>>
  /\ IF LacksField(m)
     THEN /\ pc' = "reply"
          /\ pings' = 0
          /\ body' = "404"
          /\ status' = "404"
     ELSE /\ pc' = "check"
          /\ pings' = IF m.api = "location" THEN 2 ELSE 1
          /\ body' = IF m.api \in PrepareFirst THEN "200" ELSE "none"
          /\ status' = "none"
  /\ UNCHANGED sessionVars

\* gweb_mysql_ping ignores what mysql_ping returns
Ping ==
  /\ pings > 0
  /\ Answered \/ NotAnswered
  /\ pings' = pings - 1
  /\ UNCHANGED <<msg, pc, plan, body, status>>

(***************************************************************************)
(* Lookups: gweb_mysql_get_query_count on what the session sees.           *)
(***************************************************************************)
Registered(u) == \E r \in view[RegInfo] : r.key[1] = u

Found(table, key) == key \in Keys(view[table])

\* mutation: the e-mail is not looked up
CheckUidOnly ==
  /\ At("check", {"registration"})
  /\ \/ /\ Answered
        /\ IF Registered(msg.uid) THEN Finish("404", "404")
           ELSE Go("start", 1,
                   <<Insert(RegInfo, {Row(<<msg.uid, msg.email>>, Absent)}),
                     Insert(Phone, {Row(<<msg.uid>>, Absent)})>>)
     \/ NotAnswered /\ Finish("404", "404")

\* mutation: the phone is written before its user
CheckPhoneFirst ==
  /\ At("check", {"registration"})
  /\ \/ /\ Answered
        /\ IF \E r \in view[RegInfo] : r.key[1] = msg.uid \/ r.key[2] = msg.email
           THEN Finish("404", "404")
           ELSE Go("start", 1,
                   <<Insert(Phone, {Row(<<msg.uid>>, Absent)}),
                     Insert(RegInfo, {Row(<<msg.uid, msg.email>>, Absent)})>>)
     \/ NotAnswered /\ Finish("404", "404")

\* UID or e-mail taken: duplicate, else plan the two inserts
CheckRegistration ==
  /\ At("check", {"registration"})
  /\ \/ /\ Answered
        /\ IF \E r \in view[RegInfo] : r.key[1] = msg.uid \/ r.key[2] = msg.email
           THEN Finish("404", "404")
           ELSE Go("start", 1,
                   <<Insert(RegInfo, {Row(<<msg.uid, msg.email>>, Absent)}),
                     Insert(Phone, {Row(<<msg.uid>>, Absent)})>>)
     \/ NotAnswered /\ Finish("404", "404")

CheckAvatar ==
  /\ At("check", {"update_avatar"})
  /\ \/ /\ Answered
        /\ IF Registered(msg.uid)
           THEN Go("start", 2,
                   <<Update(RegInfo, {msg.uid} \X Emails, msg.url)>>)
           ELSE BareReturn
     \/ NotAnswered /\ BareReturn

CheckProfile ==
  /\ At("check", {"update_profile"})
  /\ \/ /\ Answered
        /\ IF Registered(msg.uid) THEN Go("address", 1, plan) ELSE BareReturn
     \/ NotAnswered /\ BareReturn

\* mutation: an address is replaced by a delete and an insert
ReplaceAddress ==
  LET key == <<msg.uid>>
      insert == Insert(Address, {Row(key, msg.address)})
  IN  /\ At("address", {"update_profile"})
      /\ \/ /\ Answered
            /\ Go("facebook", 0, IF Found(Address, key)
                                 THEN <<Delete(Address, {key}), insert>>
                                 ELSE <<insert>>)
         \/ NotAnswered /\ BareReturn

\* an existing address is updated if the message has one, a missing one is
\* inserted even if it has none
LookupAddress ==
  LET key == <<msg.uid>>
      stmts == IF Found(Address, key)
               THEN IF msg.address = Absent THEN <<>>
                    ELSE <<Update(Address, {key}, msg.address)>>
               ELSE <<Insert(Address, {Row(key, msg.address)})>>
  IN  /\ At("address", {"update_profile"})
      /\ \/ Answered /\ Go("facebook", 0, stmts)
         \/ NotAnswered /\ BareReturn

\* gweb_mysql_update_social_network: "" deletes the handle
SocialStatement(network, handle) ==
  LET key == <<msg.uid, network>>
  IN  CASE handle = Absent -> <<>>
        [] handle = "" -> <<Delete(Social, {key})>>
        [] OTHER -> IF Found(Social, key) THEN <<Update(Social, {key}, handle)>>
                    ELSE <<Insert(Social, {Row(key, handle)})>>

LookupFacebook ==
  /\ At("facebook", {"update_profile"})
  /\ \/ /\ Answered
        /\ Go("twitter", 0, plan \o SocialStatement("facebook", msg.facebook))
     \/ NotAnswered /\ BareReturn

LookupTwitter ==
  /\ At("twitter", {"update_profile"})
  /\ \/ /\ Answered
        /\ Go("start", 1, plan \o SocialStatement("twitter", msg.twitter))
     \/ NotAnswered /\ BareReturn

\* both ends registered, and not the same: the SELECT must find two rows
CheckBothUids ==
  /\ At("check", {"cxn_request", "cxn_channel"})
  /\ \/ /\ Answered
        /\ IF Registered(msg.from) /\ Registered(msg.to) /\ msg.from # msg.to
           THEN Go("existing", 0, plan)
           ELSE Finish("404", "404")
     \/ NotAnswered /\ Finish("404", "404")

LookupRequest ==
  LET key == <<msg.from, msg.to>>
      stmt == IF Found(Request, key) THEN Update(Request, {key}, msg.flag)
              ELSE Insert(Request, {Row(key, msg.flag)})
  IN  /\ At("existing", {"cxn_request"})
      /\ \/ /\ Answered
            /\ msg.flag # Absent
            /\ IF msg.flag = "closed" THEN Go("public", 0, <<stmt>>)
               ELSE Go("start", 1, <<stmt>>)
         \/ NotAnswered /\ Finish("404", "404")

\* strcmp with no flag: the process dies
RequestWithoutFlag ==
  /\ At("existing", {"cxn_request"})
  /\ msg.flag = Absent
  /\ Reachable
  /\ NewSession
  /\ Idle

\* mutation: the channels already open are left
GrantMore ==
  LET public == {r \in view[Preference] : r.key[1] = msg.to /\ r.val = "public"}
      granted == IF public = {} THEN {Row(<<msg.from, msg.to, "connect">>, Absent)}
                 ELSE {[key |-> <<msg.from, msg.to, r.key[2]>>, val |-> Absent,
                        id |-> r.id] : r \in public}
  IN  /\ At("public", {"cxn_request"})
      /\ \/ Answered /\ Go("start", 1, Append(plan, Insert(Channel, granted)))
         \/ NotAnswered /\ Finish("404", "404")

\* gweb_mysql_prepare_cxn_accept_query: replace the channels of the pair by
\* the public preferences of the accepting side, or by "connect"
LookupPublic ==
  LET public == {r \in view[Preference] : r.key[1] = msg.to /\ r.val = "public"}
      granted == IF public = {} THEN {Row(<<msg.from, msg.to, "connect">>, Absent)}
                 ELSE {[key |-> <<msg.from, msg.to, r.key[2]>>, val |-> Absent,
                        id |-> r.id] : r \in public}
  IN  /\ At("public", {"cxn_request"})
      /\ \/ /\ Answered
            /\ Go("start", 1, plan \o
                 <<Delete(Channel, {msg.from} \X {msg.to} \X
                                   (ChannelIds \cup {"connect"})),
                   Insert(Channel, granted)>>)
         \/ NotAnswered /\ Finish("404", "404")

\* mutation: no lookup before the insert
OpenChannelAgain ==
  /\ At("existing", {"cxn_channel"})
  /\ \/ /\ Answered
        /\ Go("start", 1,
              <<Insert(Channel, {Row(<<msg.from, msg.to, msg.type>>, Absent)})>>)
     \/ NotAnswered /\ Finish("404", "404")

LookupChannel ==
  LET key == <<msg.from, msg.to, msg.type>>
  IN  /\ At("existing", {"cxn_channel"})
      /\ \/ /\ Answered
            /\ IF Found(Channel, key) THEN Finish("200", "200")
               ELSE Go("start", 1, <<Insert(Channel, {Row(key, Absent)})>>)
         \/ NotAnswered /\ Finish("404", "404")

\* `!gweb_mysql_check_uid_email(uid, NULL)': a failed lookup (-1) passes
CheckPreference ==
  LET list == msg.list
      keys == {<<msg.uid, list[i].channel>> : i \in DOMAIN list}
      rows == {[key |-> <<msg.uid, list[i].channel>>, val |-> list[i].flag,
                id |-> i] : i \in DOMAIN list}
  IN  /\ At("check", {"cxn_preference"})
      /\ \/ Answered /\ Registered(msg.uid) /\ list # <<>>
            /\ Go("start", 1, <<Delete(Preference, keys), Insert(Preference, rows)>>)
         \/ Answered /\ ~(Registered(msg.uid) /\ list # <<>>)
            /\ Finish("404", "404")
         \/ NotAnswered /\ list # <<>>
            /\ Go("start", 1, <<Delete(Preference, keys), Insert(Preference, rows)>>)
         \/ NotAnswered /\ list = <<>> /\ Finish("404", "404")

\* mutation: only a negative count is an error
CheckLocationFailed ==
  /\ At("check", {"location"})
  /\ \/ Answered /\ Go("existing", 0, plan)
     \/ NotAnswered /\ Finish("404", "404")

\* the same test, the same failed lookup that passes
CheckLocation ==
  /\ At("check", {"location"})
  /\ \/ /\ Answered
        /\ IF Registered(msg.uid) THEN Go("existing", 0, plan)
           ELSE Finish("404", "404")
     \/ NotAnswered /\ Go("existing", 0, plan)

\* mutation: no lookup before the insert
InsertLocation ==
  /\ At("existing", {"location"})
  /\ \/ Answered /\ Go("start", 1, <<Insert(Location, {Row(<<msg.uid>>, msg.place)})>>)
     \/ NotAnswered /\ BareReturn

LookupLocation ==
  LET key == <<msg.uid>>
      stmt == IF Found(Location, key) THEN Update(Location, {key}, msg.place)
              ELSE Insert(Location, {Row(key, msg.place)})
  IN  /\ At("existing", {"location"})
      /\ \/ Answered /\ Go("start", 1, <<stmt>>)
         \/ NotAnswered /\ BareReturn

Lookup ==
  \/ CheckRegistration \/ CheckAvatar \/ CheckProfile \/ CheckBothUids
  \/ CheckPreference \/ CheckLocation
  \/ LookupAddress \/ LookupFacebook \/ LookupTwitter
  \/ LookupRequest \/ LookupPublic \/ LookupChannel \/ LookupLocation

\* mutation: the end of the statements is not noticed
AlwaysAnother(rest) == "exec"

(***************************************************************************)
(* The transaction.                                                        *)
(***************************************************************************)
AfterStatement(rest) == IF rest = <<>> THEN "commit" ELSE "exec"

\* mutation: no START TRANSACTION
StartNothing ==
  /\ pc = "start" /\ pings = 0
  /\ UNCHANGED sessionVars
  /\ Go(AfterStatement(plan), 0, plan)

\* the result of START TRANSACTION is not looked at
StartTransaction ==
  /\ pc = "start" /\ pings = 0
  /\ Started \/ NotAnswered
  /\ Go(AfterStatement(plan), 0, plan)

ExecStatement ==
  /\ pc = "exec"
  /\ Executed(Head(plan))
  /\ Go(AfterStatement(Tail(plan)), 0, Tail(plan))

\* mutation: the result of a statement is not looked at
IgnoreFailure ==
  /\ pc = "exec"
  /\ Refused(Head(plan)) \/ ExecutedUnheard(Head(plan)) \/ NotAnswered
  /\ Go(AfterStatement(Tail(plan)), 0, Tail(plan))

\* only the avatar handler gets as far as its ROLLBACK
FailStatement ==
  /\ pc = "exec"
  /\ Refused(Head(plan)) \/ ExecutedUnheard(Head(plan)) \/ NotAnswered
  /\ IF msg.api = "update_avatar" THEN Go("rollback", 0, <<>>) ELSE BareReturn

\* mutation: the handler returns before the COMMIT
ForgetCommit ==
  /\ pc = "commit"
  /\ Finish("200", "200")
  /\ UNCHANGED sessionVars

\* nor is the result of COMMIT
Commit ==
  /\ pc = "commit"
  /\ Committed \/ CommittedUnheard \/ NotAnswered
  /\ Finish("200", "200")

Rollback ==
  /\ pc = "rollback"
  /\ RolledBack \/ NotAnswered
  /\ Finish("404", "404")

Reply ==
  /\ pc = "reply"
  /\ Idle
  /\ UNCHANGED sessionVars

(***************************************************************************)
(* The environment.                                                        *)
(***************************************************************************)
Disconnect == LoseConnection /\ UNCHANGED handlerVars

Restart == "crash" \in Faults /\ NewSession /\ Idle

Next ==
  \/ \E m \in Messages : Receive(m)
  \/ Ping
  \/ Lookup
  \/ RequestWithoutFlag
  \/ StartTransaction
  \/ ExecStatement
  \/ FailStatement
  \/ Commit
  \/ Rollback
  \/ Reply
  \/ Disconnect
  \/ Restart

Spec == Init /\ [][Next]_vars

===========================================================================
