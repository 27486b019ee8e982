--------------------------- MODULE HttpProperties ---------------------------
(***************************************************************************)
(* What becomes of a request and of the responses made for it.             *)
(***************************************************************************)
EXTENDS HttpConnections

\* the requests that make one response: a body in one piece, an upload whose
\* fields are accepted
Single(r) ==
  /\ r.kind \in {"json", "form"} => Len(r.pieces) <= 1
  /\ r.kind = "upload" => \A i \in DOMAIN r.pieces : r.pieces[i] = "ok"

\* A request being served has its con_cls, a post processor unless it is a GET
\* and no answer yet, and what is left of its body are pieces of one that was sent.
TypeOK ==
  \A c \in Conns :
    LET cxn == conn[c]
    IN  /\ cxn.state \in {"closed", "headers", "body", "queued"}
        /\ cxn.state # "closed" =>
             \E r \in Requests[c] : \E i \in 1..(Len(r.pieces) + 1) :
               cxn.kind = r.kind /\ cxn.pieces = SubSeq(r.pieces, i, Len(r.pieces))
        /\ cxn.state = "body" => cxn.cls /\ (cxn.pp <=> cxn.kind # "get")
        /\ cxn.state = "queued" <=> cxn.answer # "none"
        /\ cxn.response \in {"none", "200", "404"}
        /\ cxn.outcomes \subseteq {"ok", "failed"}
        /\ refs[c] \in Nat

Careful == {c \in Conns : \A r \in Requests[c] : Single(r)}

\* Every response is destroyed: of a connection whose requests make one response
\* each, the server holds no other than the one that will be sent, whoever goes
\* away and whatever fails.
ResponsesOwned ==
  \A c \in Careful : refs[c] = IF conn[c].response = "none" THEN 0 ELSE 1

\* Whatever is lost, no response is destroyed twice: the one a connection still
\* holds exists.
HeldResponseExists ==
  \A c \in Conns : refs[c] >= IF conn[c].response = "none" THEN 0 ELSE 1

\* A client is told 200 only when an API did what his request asked for; the
\* status of a form's field is whatever the stack has.
AnswerIsOutcome ==
  \A c \in Conns :
    conn[c].answer = "200" /\ conn[c].kind # "form" => "ok" \in conn[c].outcomes

WaitsForClient(c) ==
  conn[c].state = "body" /\ conn[c].kind # "get" /\ conn[c].pieces # <<>>

\* Whatever a client asks for and whatever fails, a request that is not left
\* waiting for the rest of its body is answered, or its client is gone.
RequestAnswered ==
  \A c \in Conns :
    []<>~WaitsForClient(c) =>
      (conn[c].state \in {"headers", "body"} ~> conn[c].state \in {"queued", "closed"})

============================================================================
