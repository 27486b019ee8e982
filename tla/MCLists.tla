------------------------------ MODULE MCLists ------------------------------
(***************************************************************************)
(* Small instances of the server with the lists its clients are answered.  *)
(***************************************************************************)
EXTENDS AnsweredLists, MCQuery

\* what the updates of ListMessages write, read by lists and without
ListsAndProfiles ==
  {Login("eu", "right"), About("profile_query", "u"),
   About("cxn_preference_query", "v"),
   Requests("u", Absent, Absent), Channels("u", Absent, Absent)}

=============================================================================
