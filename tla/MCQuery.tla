------------------------------ MODULE MCQuery ------------------------------
(***************************************************************************)
(* Small instances of the server: every kind of query beside the updates   *)
(* of MCUpdate.                                                            *)
(***************************************************************************)
EXTENDS QueryProperties, MCUpdate

Login(e, p) == [api |-> "login", email |-> e, password |-> p]
UidOf(e) == [api |-> "uid_query", email |-> e]
About(api, u) == [api |-> api, uid |-> u]
Requests(u, v, f) == [api |-> "cxn_request_query", from |-> u, to |-> v, flag |-> f]
Channels(u, v, c) == [api |-> "cxn_channel_query", from |-> u, to |-> v, type |-> c]

\* lists by either side, with and without a filter, and for an unknown user
ListQueries ==
  {Requests("u", Absent, Absent), Requests("u", "u", "closed"),
   Requests(Absent, "v", "open"), Requests("x", Absent, Absent),
   Requests(Absent, Absent, "open"), Channels("u", Absent, Absent),
   Channels(Absent, "v", "phone"), Channels("v", Absent, Absent)}

\* single rows and preferences, wrong and missing arguments, and one list
ProfileQueries ==
  {Login("eu", "right"), Login("eu", "wrong"), Login("ev", Absent), UidOf("eu"),
   UidOf(Absent), About("profile_query", "u"), About("profile_query", "x"),
   About("avatar_query", "u"), About("cxn_preference_query", "u"),
   About("cxn_preference_query", Absent), About("location_query", "u"),
   Requests("u", Absent, Absent)}

AllQueries == ListQueries \cup ProfileQueries

=============================================================================
