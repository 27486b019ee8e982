------------------------------ MODULE MCHttp ------------------------------
(***************************************************************************)
(* Small instances of the HTTP requests.                                   *)
(***************************************************************************)
EXTENDS HttpProperties

Sends(kind, pieces) == [kind |-> kind, pieces |-> pieces]

\* a JSON message in one piece, an upload whose fields are accepted, an empty
\* form, a GET, and what is refused at once
WholeRequests ==
  {Sends("json", <<"ok">>), Sends("json", <<"failed">>), Sends("json", <<>>),
   Sends("upload", <<>>), Sends("upload", <<"ok", "ok">>), Sends("form", <<>>),
   Sends("get", <<"ok">>), Sends("get", <<"failed">>), Sends("other", <<>>)}

\* bodies of which more than one piece, or a field, makes a response
BrokenRequests ==
  {Sends("json", <<"ok", "failed">>), Sends("json", <<"failed", "ok">>),
   Sends("upload", <<"ok", "failed">>), Sends("upload", <<"failed", "ok">>),
   Sends("form", <<"failed", "failed">>), Sends("get", <<"ok">>)}

\* one client is well served, the other is not
TwoClients == [c1 |-> WholeRequests, c2 |-> BrokenRequests]

===========================================================================
