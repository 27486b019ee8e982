-------------------------- MODULE HttpConnections --------------------------
(***************************************************************************)
(* HTTP requests on gweb_server.c: mhd_connection_handler, the callbacks   *)
(* it installs, and the response objects they create.                      *)
(*                                                                         *)
(* libmicrohttpd calls the handler once when the headers are there, once   *)
(* for every piece of the body, and once more at its end; then the answer  *)
(* is sent and mhd_request_completed is called.  A client may go away at   *)
(* any time.  What the APIs do with a piece is an outcome, "ok" or         *)
(* "failed": the other modules say which, and an upload whose field failed *)
(* may complete either way.  A field of a form reaches no API.             *)
(*                                                                         *)
(* Faults: "abort" the client goes away, "memory" an allocation of the     *)
(* first call fails, "frame" the response to a piece cannot be created.    *)
(***************************************************************************)
EXTENDS Integers, Sequences, FiniteSets

CONSTANTS
  Conns,
  Requests,  \* what the client of each connection sends
  MaxLost,   \* bound: how many responses requests may lose per connection
  Faults

Request == [kind : {"json", "form", "upload", "get", "other"},
            pieces : Seq({"ok", "failed"})]

ASSUME HttpAssumption ==
  /\ Requests \in [Conns -> SUBSET Request]
  /\ \A c \in Conns : \A r \in Requests[c] :
       /\ r.kind = "other" => r.pieces = <<>>
       /\ r.kind = "get" => Len(r.pieces) = 1
  /\ MaxLost \in Nat
  /\ Faults \subseteq {"abort", "memory", "frame"}

VARIABLES
  conn,  \* per connection: the request, con_cls and what the client was told
  refs   \* per connection, the responses created for it and not destroyed

vars == <<conn, refs>>

\* `cls' is *con_cls, `pp' its post processor, `response' the status of the
\* response in it
Closed == [state |-> "closed", kind |-> "other", pieces |-> <<>>, cls |-> FALSE,
           pp |-> FALSE, stopped |-> FALSE, response |-> "none",
           outcomes |-> {}, answer |-> "none"]

Init ==
  /\ conn = [c \in Conns |-> Closed]
  /\ refs = [c \in Conns |-> 0]

MayLose(r) == IF r.kind \in {"json", "form", "upload"} THEN Len(r.pieces) ELSE 0

Arrive(c, r) ==
  /\ conn[c].state = "closed"
  /\ refs[c] + MayLose(r) <= MaxLost
  /\ conn' = [conn EXCEPT ![c] = [Closed EXCEPT !.state = "headers",
                                    !.kind = r.kind, !.pieces = r.pieces]]
  /\ UNCHANGED refs

(***************************************************************************)
(* The first call.                                                         *)
(***************************************************************************)
\* neither GET nor POST, JSON in a GET, or no memory: an answer at once
RefuseRequest(c) ==
  /\ conn[c].state = "headers"
  /\ conn[c].kind = "other" \/ "memory" \in Faults
  /\ conn' = [conn EXCEPT ![c] = [@ EXCEPT !.state = "queued", !.answer = "404"]]
  /\ UNCHANGED refs

\* mutation: the post processor is not created for every kind of POST
AcceptHalf(c) ==
  /\ conn[c].state = "headers"
  /\ conn[c].kind # "other"
  /\ conn' = [conn EXCEPT ![c] = [@ EXCEPT !.state = "body", !.cls = TRUE,
                                           !.pp = conn[c].kind = "json"]]
  /\ UNCHANGED refs

AcceptRequest(c) ==
  /\ conn[c].state = "headers"
  /\ conn[c].kind # "other"
  /\ conn' = [conn EXCEPT ![c] = [@ EXCEPT !.state = "body", !.cls = TRUE,
                                           !.pp = conn[c].kind # "get"]]
  /\ UNCHANGED refs

(***************************************************************************)
(* gweb_build_http_response, over whatever the connection holds.           *)
(***************************************************************************)
Build(cxn, n, outcome, status) ==
  {<<[cxn EXCEPT !.response = status, !.outcomes = @ \cup {outcome}], n + 1>>} \cup
  (IF "frame" \in Faults
   THEN {<<[cxn EXCEPT !.response = "none", !.outcomes = @ \cup {outcome}], n>>}
   ELSE {})

\* mutation: the status of the API is not looked at
AlwaysOk(outcome) == "200"

Code(outcome) == IF outcome = "ok" THEN "200" ELSE "404"

\* mutation: the connection keeps the response it has destroyed
SendKeeping(cxn) ==
  [cxn EXCEPT !.state = "queued",
              !.answer = IF cxn.response = "none" THEN "404" ELSE cxn.response]

\* mhd_send_page: a connection without a response gets a 404
Send(cxn) ==
  [cxn EXCEPT !.state = "queued", !.response = "none",
              !.answer = IF cxn.response = "none" THEN "404" ELSE cxn.response]

SentRefs(cxn, n) == IF cxn.response = "none" THEN n ELSE n - 1

(***************************************************************************)
(* The body: json_post_handler and post_upload_handler.                    *)
(***************************************************************************)
InBody(c, kinds) == conn[c].state = "body" /\ conn[c].kind \in kinds

Piece(c) == Head(conn[c].pieces)
NextPiece(c) == [conn[c] EXCEPT !.pieces = Tail(@)]

HandleJson(c) ==
  /\ InBody(c, {"json"}) /\ conn[c].pp /\ conn[c].pieces # <<>>
  /\ \E b \in Build(NextPiece(c), refs[c], Piece(c), Code(Piece(c))) :
       /\ conn' = [conn EXCEPT ![c] = b[1]]
       /\ refs' = [refs EXCEPT ![c] = b[2]]

\* no branch of json_post_handler sets the status of a form's field
HandleFormField(c) ==
  /\ InBody(c, {"form"}) /\ conn[c].pp /\ conn[c].pieces # <<>>
  /\ \E status \in {"200", "404"} :
       \E b \in Build(NextPiece(c), refs[c], "failed", status) :
         /\ conn' = [conn EXCEPT ![c] = b[1]]
         /\ refs' = [refs EXCEPT ![c] = b[2]]

\* a field of an upload leaves a response only when it fails, and the post
\* processor then calls back no more
HandleUploadField(c) ==
  /\ InBody(c, {"upload"}) /\ conn[c].pp /\ conn[c].pieces # <<>>
  /\ IF conn[c].stopped \/ Piece(c) = "ok"
     THEN conn' = [conn EXCEPT ![c] = NextPiece(c)] /\ UNCHANGED refs
     ELSE \E b \in Build(NextPiece(c), refs[c], "failed", "404") :
            /\ conn' = [conn EXCEPT ![c] = [b[1] EXCEPT !.stopped = TRUE]]
            /\ refs' = [refs EXCEPT ![c] = b[2]]

(***************************************************************************)
(* The end of the request.                                                 *)
(***************************************************************************)
AnswerPost(c) ==
  /\ InBody(c, {"json", "form"}) /\ conn[c].pp /\ conn[c].pieces = <<>>
  /\ conn' = [conn EXCEPT ![c] = Send(@)]
  /\ refs' = [refs EXCEPT ![c] = SentRefs(conn[c], @)]

\* mutation: the answer waits for an upload that did not fail
AnswerValidUpload(c) ==
  /\ InBody(c, {"upload"}) /\ conn[c].pp /\ conn[c].pieces = <<>>
  /\ ~conn[c].stopped
  /\ \E outcome \in {"ok", "failed"} :
       \E b \in Build(conn[c], refs[c], outcome, Code(outcome)) :
         /\ conn' = [conn EXCEPT ![c] = Send(b[1])]
         /\ refs' = [refs EXCEPT ![c] = SentRefs(b[1], b[2])]

\* post_upload_completion_handler before the answer
AnswerUpload(c) ==
  /\ InBody(c, {"upload"}) /\ conn[c].pp /\ conn[c].pieces = <<>>
  /\ \E outcome \in {"ok", "failed"} :
       \E b \in Build(conn[c], refs[c], outcome, Code(outcome)) :
         /\ conn' = [conn EXCEPT ![c] = Send(b[1])]
         /\ refs' = [refs EXCEPT ![c] = SentRefs(b[1], b[2])]

AnswerGet(c) ==
  /\ InBody(c, {"get"}) /\ conn[c].pieces # <<>>
  /\ \E b \in Build(NextPiece(c), refs[c], Piece(c), Code(Piece(c))) :
       /\ conn' = [conn EXCEPT ![c] = Send(b[1])]
       /\ refs' = [refs EXCEPT ![c] = SentRefs(b[1], b[2])]

\* mutation: the connection is freed with its response
FreeOnly(c) ==
  /\ conn' = [conn EXCEPT ![c] = Closed]
  /\ UNCHANGED refs

\* mhd_request_completed
Completed(c) ==
  /\ conn' = [conn EXCEPT ![c] = Closed]
  /\ refs' = [refs EXCEPT ![c] = SentRefs(conn[c], @)]

Sent(c) == conn[c].state = "queued" /\ Completed(c)

Abort(c) ==
  /\ "abort" \in Faults
  /\ conn[c].state \in {"body", "queued"}
  /\ Completed(c)

HandlerCall(c) ==
  \/ RefuseRequest(c) \/ AcceptRequest(c)
  \/ AnswerPost(c) \/ AnswerUpload(c) \/ AnswerGet(c)

Next ==
  \E c \in Conns :
    \/ \E r \in Requests[c] : Arrive(c, r)
    \/ HandleJson(c) \/ HandleFormField(c) \/ HandleUploadField(c)
    \/ HandlerCall(c)
    \/ Sent(c) \/ Abort(c)

Spec == Init /\ [][Next]_vars

\* the library polls all connections; the pieces of a body come when the
\* client sends them
FairSpec == Spec /\ \A c \in Conns : WF_vars(HandlerCall(c))

============================================================================
