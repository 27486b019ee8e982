----------------------------- MODULE MCUpdate -----------------------------
(***************************************************************************)
(* Small instances of the update handlers: two users "u" and "v" who may   *)
(* register, and "x" who never does.                                       *)
(***************************************************************************)
EXTENDS UpdateProperties

Register(u, e) == [api |-> "registration", uid |-> u, email |-> e]
SetAvatar(u, url) == [api |-> "update_avatar", uid |-> u, url |-> url]
Profile(u, a, f, t) ==
  [api |-> "update_profile", uid |-> u, address |-> a, facebook |-> f, twitter |-> t]
Ask(u, v, f) == [api |-> "cxn_request", from |-> u, to |-> v, flag |-> f]
OpenChannel(u, v, c) == [api |-> "cxn_channel", from |-> u, to |-> v, type |-> c]
Prefer(u, list) == [api |-> "cxn_preference", uid |-> u, list |-> list]
Locate(u, p) == [api |-> "location", uid |-> u, place |-> p]

Choose(c, f) == [channel |-> c, flag |-> f]

\* two users, and a third registration with the first one's e-mail
Registrations ==
  {Register("u", "eu"), Register("v", "ev"), Register("x", "eu")}

\* every table that is never deleted from
UpsertMessages ==
  Registrations \cup
  {Profile("u", "home", Absent, Absent), Profile("v", Absent, Absent, Absent),
   Ask("u", "v", "open"), Ask("v", "u", "open"), Locate("u", "p"), Locate("x", "p")}

\* one user's profile and preferences, and the channels another is granted
ReplaceMessages ==
  {Register("u", "eu"), Register("v", "ev"),
   Prefer("v", <<Choose("email", "public"), Choose("phone", "private")>>),
   Prefer("v", <<Choose("email", "private")>>),
   Ask("u", "v", "closed"), OpenChannel("u", "v", "phone"),
   Profile("u", Absent, "h", ""), Profile("u", Absent, "", "h")}

\* the same with a third user, to whom another channel leads: lists of rows with
\* different users at the other end, and more of them than there is room for
ListMessages ==
  {Register("u", "eu"), Register("v", "ev"), Register("w", "ew"),
   Prefer("v", <<Choose("email", "public"), Choose("phone", "public")>>),
   Prefer("v", <<Choose("email", "private")>>),
   Ask("u", "v", "closed"), OpenChannel("u", "w", "phone"),
   Profile("u", Absent, "h", "")}

\* every API, every missing field
AllMessages ==
  Registrations \cup
  {SetAvatar("u", "url"), SetAvatar("x", "url"),
   Profile("u", "home", "h", Absent), Profile("u", Absent, "", "h"),
   Ask("u", "v", "open"), Ask("u", "v", "closed"), Ask("u", "u", "open"),
   Ask("u", "v", Absent), Ask(Absent, "v", "open"),
   OpenChannel("u", "v", "phone"), OpenChannel("u", "v", Absent),
   Prefer("v", <<Choose("email", "public")>>), Prefer("v", <<>>),
   Prefer(Absent, <<>>),
   Locate("u", "p"), Locate("x", "p"), Locate("u", Absent)}

===========================================================================
