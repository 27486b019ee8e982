----------------------------- MODULE HttpProofs -----------------------------
(***************************************************************************)
(* The responses of a connection are accounted for: never destroyed twice, *)
(* whatever the clients send, and never lost when each request makes one.  *)
(***************************************************************************)
EXTENDS HttpProperties, SequenceTheorems, TLAPS

Cxn == [state : {"closed", "headers", "body", "queued"}, kind : {"json", "form", "upload", "get", "other"},
        pieces : Seq({"ok", "failed"}), cls : BOOLEAN, pp : BOOLEAN,
        stopped : BOOLEAN, response : {"none", "200", "404"},
        outcomes : SUBSET {"ok", "failed"}, answer : {"none", "200", "404"}]

Typed == conn \in [Conns -> Cxn] /\ refs \in [Conns -> Int]

\* What a connection holds exists, and no destroyed response is held.
HeldInv == Typed /\ HeldResponseExists

\* One more piece is gone from a body.
LEMMA TailTyped ==
  ASSUME NEW s \in Seq({"ok", "failed"}), s # <<>>
  PROVE  Tail(s) \in Seq({"ok", "failed"}) /\ Head(s) \in {"ok", "failed"}
         /\ Len(Tail(s)) = Len(s) - 1
  OBVIOUS

\* A response built over a connection is one more, or there is none in it.
LEMMA Built ==
  ASSUME NEW cxn \in Cxn, NEW n \in Int, NEW outcome \in {"ok", "failed"},
         NEW status \in {"200", "404"},
         NEW b \in Build(cxn, n, outcome, status)
  PROVE  /\ b[1] \in Cxn /\ b[2] \in Int
         /\ b[1].pieces = cxn.pieces /\ b[1].kind = cxn.kind
         /\ b[1].state = cxn.state
         /\ \/ b[1].response # "none" /\ b[2] = n + 1
            \/ b[1].response = "none" /\ b[2] = n
<1> DEFINE made == [cxn EXCEPT !.response = status, !.outcomes = @ \cup {outcome}]
           none == [cxn EXCEPT !.response = "none", !.outcomes = @ \cup {outcome}]
<1>1. b = <<made, n + 1>> \/ b = <<none, n>>
  BY DEF Build
<1>2. cxn.outcomes \cup {outcome} \in SUBSET {"ok", "failed"}
  BY DEF Cxn
<1>3. /\ made \in Cxn /\ made.response = status /\ made.pieces = cxn.pieces
      /\ made.kind = cxn.kind /\ made.state = cxn.state
  BY <1>2 DEF Cxn
<1>4. /\ none \in Cxn /\ none.response = "none" /\ none.pieces = cxn.pieces
      /\ none.kind = cxn.kind /\ none.state = cxn.state
  BY <1>2 DEF Cxn
<1> HIDE DEF made, none
<1>5. CASE b = <<made, n + 1>>
  BY <1>3, <1>5
<1>6. CASE b = <<none, n>>
  BY <1>4, <1>6
<1> QED
  BY <1>1, <1>5, <1>6

\* Sending a page, or completing a request, destroys what the connection holds.
LEMMA SentTyped ==
  ASSUME NEW cxn \in Cxn, NEW n \in Int
  PROVE  /\ Send(cxn) \in Cxn /\ Send(cxn).response = "none"
         /\ Send(cxn).state = "queued"
         /\ Send(cxn).kind = cxn.kind /\ Send(cxn).pieces = cxn.pieces
         /\ SentRefs(cxn, n) \in Int
         /\ cxn.response # "none" => SentRefs(cxn, n) = n - 1
         /\ cxn.response = "none" => SentRefs(cxn, n) = n
<1> DEFINE told == IF cxn.response = "none" THEN "404" ELSE cxn.response
<1>1. told \in {"none", "200", "404"}
  BY DEF Cxn
<1>2. Send(cxn) = [cxn EXCEPT !.state = "queued", !.response = "none", !.answer = told]
  BY DEF Send
<1> HIDE DEF told
<1>3. /\ Send(cxn) \in Cxn /\ Send(cxn).response = "none"
      /\ Send(cxn).state = "queued"
      /\ Send(cxn).kind = cxn.kind /\ Send(cxn).pieces = cxn.pieces
  BY <1>1, <1>2 DEF Cxn
<1> QED
  BY <1>3 DEF SentRefs

LEMMA ClosedTyped == Closed \in Cxn /\ Closed.response = "none" /\ Closed.state = "closed"
                     /\ Closed.pieces = <<>>
  BY DEF Closed, Cxn

\* One connection takes a step: what the others hold is as it was.
LEMMA OneConnection ==
  ASSUME HeldInv, NEW c \in Conns, NEW cxn \in Cxn, NEW n \in Int,
         conn' = [conn EXCEPT ![c] = cxn], refs' = [refs EXCEPT ![c] = n],
         n >= IF cxn.response = "none" THEN 0 ELSE 1
  PROVE  HeldInv'
  BY DEF HeldInv, Typed, HeldResponseExists

LEMMA HeldInit == Init => HeldInv
  BY ClosedTyped DEF Init, HeldInv, Typed, HeldResponseExists

LEMMA HeldStep ==
  ASSUME HeldInv, [Next]_vars
  PROVE  HeldInv'
<1>1. CASE UNCHANGED vars
  BY <1>1 DEF vars, HeldInv, Typed, HeldResponseExists
<1> SUFFICES ASSUME Next PROVE HeldInv'
  BY <1>1
<1>2. PICK c \in Conns :
        \/ \E r \in Requests[c] : Arrive(c, r)
        \/ HandleJson(c) \/ HandleFormField(c) \/ HandleUploadField(c)
        \/ HandlerCall(c)
        \/ Sent(c) \/ Abort(c)
  BY DEF Next
<1>3. /\ conn[c] \in Cxn /\ refs[c] \in Int
      /\ refs[c] >= IF conn[c].response = "none" THEN 0 ELSE 1
      /\ refs[c] >= 0
      /\ refs = [refs EXCEPT ![c] = refs[c]]
  BY DEF HeldInv, Typed, HeldResponseExists
<1>4. ASSUME NEW r \in Requests[c], Arrive(c, r)
      PROVE  HeldInv'
  <2> DEFINE new == [Closed EXCEPT !.state = "headers", !.kind = r.kind,
                                   !.pieces = r.pieces]
  <2>1. new \in Cxn /\ new.response = "none"
    <3>1. r \in Request
      BY HttpAssumption
    <3> QED
      BY <3>1 DEF Closed, Cxn, Request
  <2>2. conn' = [conn EXCEPT ![c] = new] /\ refs' = [refs EXCEPT ![c] = refs[c]]
    BY <1>3, <1>4 DEF Arrive
  <2> HIDE DEF new
  <2> QED
    BY <1>3, <2>1, <2>2, OneConnection
<1>5. ASSUME conn[c].pieces # <<>>
      PROVE  /\ NextPiece(c) \in Cxn /\ Piece(c) \in {"ok", "failed"}
             /\ NextPiece(c).response = conn[c].response
             /\ Code(Piece(c)) \in {"200", "404"}
  <2>1. conn[c].pieces \in Seq({"ok", "failed"})
    BY <1>3 DEF Cxn
  <2>2. Tail(conn[c].pieces) \in Seq({"ok", "failed"})
        /\ Head(conn[c].pieces) \in {"ok", "failed"}
    BY <1>5, <2>1, TailTyped
  <2> QED
    BY <1>3, <2>2 DEF NextPiece, Piece, Code, Cxn
<1>6. CASE HandleJson(c)
  <2>1. PICK b \in Build(NextPiece(c), refs[c], Piece(c), Code(Piece(c))) :
          conn' = [conn EXCEPT ![c] = b[1]] /\ refs' = [refs EXCEPT ![c] = b[2]]
    BY <1>6 DEF HandleJson
  <2>2. conn[c].pieces # <<>>
    BY <1>6 DEF HandleJson
  <2>3. /\ b[1] \in Cxn /\ b[2] \in Int
        /\ \/ b[1].response # "none" /\ b[2] = refs[c] + 1
           \/ b[1].response = "none" /\ b[2] = refs[c]
    BY <1>3, <1>5, <2>2, Built
  <2>4. b[2] >= IF b[1].response = "none" THEN 0 ELSE 1
    BY <1>3, <2>3
  <2> QED
    BY <2>1, <2>3, <2>4, OneConnection
<1>7. CASE HandleFormField(c)
  <2>0. PICK status \in {"200", "404"} :
          \E b \in Build(NextPiece(c), refs[c], "failed", status) :
            conn' = [conn EXCEPT ![c] = b[1]] /\ refs' = [refs EXCEPT ![c] = b[2]]
    BY <1>7 DEF HandleFormField
  <2>1. PICK b \in Build(NextPiece(c), refs[c], "failed", status) :
          conn' = [conn EXCEPT ![c] = b[1]] /\ refs' = [refs EXCEPT ![c] = b[2]]
    BY <2>0
  <2>2. conn[c].pieces # <<>>
    BY <1>7 DEF HandleFormField
  <2>3. /\ b[1] \in Cxn /\ b[2] \in Int
        /\ \/ b[1].response # "none" /\ b[2] = refs[c] + 1
           \/ b[1].response = "none" /\ b[2] = refs[c]
    BY <1>3, <1>5, <2>2, Built
  <2>4. b[2] >= IF b[1].response = "none" THEN 0 ELSE 1
    BY <1>3, <2>3
  <2> QED
    BY <2>1, <2>3, <2>4, OneConnection
<1>8. CASE HandleUploadField(c)
  <2>1. conn[c].pieces # <<>>
    BY <1>8 DEF HandleUploadField
  <2>2. CASE conn' = [conn EXCEPT ![c] = NextPiece(c)] /\ UNCHANGED refs
    BY <1>3, <1>5, <2>1, <2>2, OneConnection
  <2>3. ASSUME NEW b \in Build(NextPiece(c), refs[c], "failed", "404"),
               conn' = [conn EXCEPT ![c] = [b[1] EXCEPT !.stopped = TRUE]],
               refs' = [refs EXCEPT ![c] = b[2]]
        PROVE  HeldInv'
    <3> DEFINE stop == [b[1] EXCEPT !.stopped = TRUE]
    <3>1. /\ b[1] \in Cxn /\ b[2] \in Int
          /\ \/ b[1].response # "none" /\ b[2] = refs[c] + 1
             \/ b[1].response = "none" /\ b[2] = refs[c]
      BY <1>3, <1>5, <2>1, Built
    <3>2. stop \in Cxn /\ stop.response = b[1].response
      BY <3>1 DEF Cxn
    <3> HIDE DEF stop
    <3>3. conn' = [conn EXCEPT ![c] = stop]
      BY <2>3 DEF stop
    <3>4. b[2] >= IF stop.response = "none" THEN 0 ELSE 1
      BY <1>3, <3>1, <3>2
    <3> QED
      BY <2>3, <3>1, <3>2, <3>3, <3>4, OneConnection
  <2> QED
    BY <1>8, <2>2, <2>3 DEF HandleUploadField
<1>9. CASE HandlerCall(c)
  <2>1. CASE RefuseRequest(c)
    <3> DEFINE new == [conn[c] EXCEPT !.state = "queued", !.answer = "404"]
    <3>1. new \in Cxn /\ new.response = conn[c].response
      BY <1>3 DEF Cxn
    <3>2. conn' = [conn EXCEPT ![c] = new] /\ refs' = [refs EXCEPT ![c] = refs[c]]
      BY <1>3, <2>1 DEF RefuseRequest
    <3> HIDE DEF new
    <3> QED
      BY <1>3, <3>1, <3>2, OneConnection
  <2>2. CASE AcceptRequest(c)
    <3> DEFINE new == [conn[c] EXCEPT !.state = "body", !.cls = TRUE,
                                      !.pp = conn[c].kind # "get"]
    <3>1. new \in Cxn /\ new.response = conn[c].response
      BY <1>3 DEF Cxn
    <3>2. conn' = [conn EXCEPT ![c] = new] /\ refs' = [refs EXCEPT ![c] = refs[c]]
      BY <1>3, <2>2 DEF AcceptRequest
    <3> HIDE DEF new
    <3> QED
      BY <1>3, <3>1, <3>2, OneConnection
  <2>3. CASE AnswerPost(c)
    <3>1. /\ conn' = [conn EXCEPT ![c] = Send(conn[c])]
          /\ refs' = [refs EXCEPT ![c] = SentRefs(conn[c], refs[c])]
      BY <2>3, <1>3 DEF AnswerPost
    <3>2. Send(conn[c]) \in Cxn /\ Send(conn[c]).response = "none"
          /\ SentRefs(conn[c], refs[c]) \in Int
          /\ SentRefs(conn[c], refs[c]) >= 0
      BY <1>3, SentTyped
    <3> QED
      BY <3>1, <3>2, OneConnection
  <2>4. ASSUME NEW cxn \in Cxn, NEW outcome \in {"ok", "failed"},
               NEW b \in Build(cxn, refs[c], outcome, Code(outcome)),
               conn' = [conn EXCEPT ![c] = Send(b[1])],
               refs' = [refs EXCEPT ![c] = SentRefs(b[1], b[2])]
        PROVE  HeldInv'
    <3>1. Code(outcome) \in {"200", "404"}
      BY DEF Code
    <3>2. /\ b[1] \in Cxn /\ b[2] \in Int
          /\ \/ b[1].response # "none" /\ b[2] = refs[c] + 1
             \/ b[1].response = "none" /\ b[2] = refs[c]
      BY <1>3, <2>4, <3>1, Built
    <3>3. Send(b[1]) \in Cxn /\ Send(b[1]).response = "none"
          /\ SentRefs(b[1], b[2]) \in Int /\ SentRefs(b[1], b[2]) >= 0
      BY <1>3, <3>2, SentTyped
    <3> QED
      BY <2>4, <3>3, OneConnection
  <2>5. CASE AnswerUpload(c)
    <3>1. PICK outcome \in {"ok", "failed"} :
            \E b \in Build(conn[c], refs[c], outcome, Code(outcome)) :
              conn' = [conn EXCEPT ![c] = Send(b[1])]
              /\ refs' = [refs EXCEPT ![c] = SentRefs(b[1], b[2])]
      BY <2>5 DEF AnswerUpload
    <3> QED
      BY <1>3, <2>4, <3>1
  <2>6. CASE AnswerGet(c)
    <3>1. PICK b \in Build(NextPiece(c), refs[c], Piece(c), Code(Piece(c))) :
            conn' = [conn EXCEPT ![c] = Send(b[1])]
            /\ refs' = [refs EXCEPT ![c] = SentRefs(b[1], b[2])]
      BY <2>6 DEF AnswerGet
    <3>2. NextPiece(c) \in Cxn /\ Piece(c) \in {"ok", "failed"}
      BY <1>5, <2>6 DEF AnswerGet
    <3> QED
      BY <2>4, <3>1, <3>2
  <2> QED
    BY <1>9, <2>1, <2>2, <2>3, <2>5, <2>6 DEF HandlerCall
<1>10. ASSUME Completed(c) PROVE HeldInv'
  <2>0. conn[c] \in Cxn /\ refs[c] \in Int
    BY <1>3
  <2>1. SentRefs(conn[c], refs[c]) \in Int /\ SentRefs(conn[c], refs[c]) >= 0
    BY <1>3, <2>0 DEF SentRefs
  <2>2. conn' = [conn EXCEPT ![c] = Closed]
        /\ refs' = [refs EXCEPT ![c] = SentRefs(conn[c], refs[c])]
    BY <1>10, <1>3 DEF Completed
  <2> QED
    BY <2>1, <2>2, ClosedTyped, OneConnection
<1> QED
  BY <1>2, <1>4, <1>6, <1>7, <1>8, <1>9, <1>10 DEF Sent, Abort

\* A response is never destroyed twice, whatever clients send, however their
\* requests are cut into pieces and whichever callbacks fail.
THEOREM HeldResponseHolds == Spec => []HeldResponseExists
<1>1. HeldInv /\ [Next]_vars => HeldInv'
  BY HeldStep
<1>2. HeldInv => HeldResponseExists
  BY DEF HeldInv
<1> QED
  BY HeldInit, <1>1, <1>2, PTL DEF Spec

(***************************************************************************)
(* When each request makes one response.                                   *)
(***************************************************************************)
\* A connection without a response has at most one more to make before it
\* sends a page; the fields of an upload make none.
MakesOne(cxn) ==
  /\ cxn.state = "closed" => cxn.response = "none"
  /\ cxn.kind \in {"json", "form"} =>
       Len(cxn.pieces) + (IF cxn.response = "none" THEN 0 ELSE 1) <= 1
  /\ cxn.kind = "upload" =>
       cxn.response = "none" /\ \A i \in DOMAIN cxn.pieces : cxn.pieces[i] = "ok"
  /\ cxn.kind \in {"get", "other"} => cxn.response = "none"

OwnedInv ==
  /\ Typed
  /\ ResponsesOwned
  /\ \A c \in Careful : MakesOne(conn[c])

LEMMA OwnedConnection ==
  ASSUME OwnedInv, NEW c \in Careful, NEW cxn \in Cxn, NEW n \in Int,
         conn' = [conn EXCEPT ![c] = cxn], refs' = [refs EXCEPT ![c] = n],
         MakesOne(cxn),
         n = IF cxn.response = "none" THEN 0 ELSE 1
  PROVE  OwnedInv'
<1>0. Careful \subseteq Conns
  BY DEF Careful
<1>1. Typed'
  BY <1>0 DEF OwnedInv, Typed
<1>2. ASSUME NEW d \in Careful
      PROVE  /\ refs'[d] = IF conn'[d].response = "none" THEN 0 ELSE 1
             /\ MakesOne(conn'[d])
  <2>1. CASE d = c
    BY <1>0, <2>1 DEF OwnedInv, Typed
  <2>2. CASE d # c
    <3>1. conn'[d] = conn[d] /\ refs'[d] = refs[d]
      BY <1>0, <2>2 DEF OwnedInv, Typed
    <3> QED
      BY <3>1 DEF OwnedInv, ResponsesOwned
  <2> QED
    BY <2>1, <2>2
<1>3. ResponsesOwned'
  BY <1>2 DEF ResponsesOwned
<1>4. \A d \in Careful : MakesOne(conn'[d])
  BY <1>2
<1>5. \A d \in Careful : MakesOne(conn[d])'
  BY <1>4 DEF MakesOne
<1> QED
  BY <1>1, <1>3, <1>5 DEF OwnedInv

\* after which it holds none
LEMMA OwnedNoMore ==
  ASSUME OwnedInv, NEW c \in Careful, NEW cxn \in Cxn, NEW n, n = 0,
         conn' = [conn EXCEPT ![c] = cxn], refs' = [refs EXCEPT ![c] = n],
         MakesOne(cxn), cxn.response = "none"
  PROVE  OwnedInv'
<1>1. n \in Int /\ n = IF cxn.response = "none" THEN 0 ELSE 1
  OBVIOUS
<1> QED
  BY <1>1, OwnedConnection

LEMMA ClosedMakesOne == MakesOne(Closed)
  BY DEF MakesOne, Closed

LEMMA OwnedInit == Init => OwnedInv
  BY ClosedTyped, ClosedMakesOne
     DEF Init, OwnedInv, Typed, ResponsesOwned, Careful

\* A page is sent for the response the connection has, if any.
LEMMA PageOwned ==
  ASSUME NEW cxn \in Cxn, cxn.pieces = <<>>,
         NEW n, n = IF cxn.response = "none" THEN 0 ELSE 1
  PROVE  MakesOne(Send(cxn)) /\ SentRefs(cxn, n) = 0
<1>1. Send(cxn).pieces = <<>> /\ Send(cxn).response = "none"
  BY SentTyped
<1> QED
  BY <1>1 DEF MakesOne, SentRefs

ConnectionStep(c) ==
  \/ \E r \in Requests[c] : Arrive(c, r)
  \/ HandleJson(c) \/ HandleFormField(c) \/ HandleUploadField(c)
  \/ HandlerCall(c)
  \/ Sent(c) \/ Abort(c)

\* A step of any connection leaves the others alone.
LEMMA OthersUntouched ==
  ASSUME Typed, NEW c \in Conns, ConnectionStep(c), NEW d \in Conns, d # c
  PROVE  conn'[d] = conn[d] /\ refs'[d] = refs[d]
  BY DEF ConnectionStep, Typed, Arrive, HandleJson, HandleFormField,
         HandleUploadField, HandlerCall, RefuseRequest, AcceptRequest, AnswerPost,
         AnswerUpload, AnswerGet, Sent, Abort, Completed

LEMMA CarefulStep ==
  ASSUME OwnedInv, NEW c \in Careful, ConnectionStep(c)
  PROVE  OwnedInv'
<1>2. c \in Conns /\ \A r \in Requests[c] : Single(r)
  BY DEF Careful
<1>3. /\ conn[c] \in Cxn /\ refs[c] \in Int
      /\ refs[c] = IF conn[c].response = "none" THEN 0 ELSE 1
      /\ MakesOne(conn[c])
      /\ refs = [refs EXCEPT ![c] = refs[c]]
  BY <1>2 DEF OwnedInv, Typed, ResponsesOwned
<1>4. ASSUME NEW r \in Requests[c], Arrive(c, r)
      PROVE  OwnedInv'
  <2> DEFINE new == [Closed EXCEPT !.state = "headers", !.kind = r.kind,
                                   !.pieces = r.pieces]
  <2>1. new \in Cxn /\ new.response = "none"
    <3>1. r \in Request
      BY <1>2, HttpAssumption
    <3> QED
      BY <3>1 DEF Closed, Cxn, Request
  <2>2. MakesOne(new)
    BY <1>2 DEF MakesOne, Closed, Single
  <2>3. conn' = [conn EXCEPT ![c] = new] /\ refs' = [refs EXCEPT ![c] = refs[c]]
    BY <1>3, <1>4 DEF Arrive
  <2>4. conn[c].response = "none"
    BY <1>3, <1>4 DEF Arrive, MakesOne
  <2> HIDE DEF new
  <2> QED
    BY <1>3, <2>1, <2>2, <2>3, <2>4, OwnedConnection
<1>5. ASSUME conn[c].pieces # <<>>, conn[c].state = "body"
      PROVE  /\ NextPiece(c) \in Cxn /\ Piece(c) \in {"ok", "failed"}
             /\ NextPiece(c).response = conn[c].response
             /\ NextPiece(c).kind = conn[c].kind
             /\ NextPiece(c).state = "body"
             /\ NextPiece(c).pieces = Tail(conn[c].pieces)
             /\ Len(NextPiece(c).pieces) = Len(conn[c].pieces) - 1
             /\ Len(conn[c].pieces) \in Nat
             /\ Code(Piece(c)) \in {"200", "404"}
  <2>1. conn[c].pieces \in Seq({"ok", "failed"})
    BY <1>3 DEF Cxn
  <2>2. Tail(conn[c].pieces) \in Seq({"ok", "failed"})
        /\ Head(conn[c].pieces) \in {"ok", "failed"}
        /\ Len(Tail(conn[c].pieces)) = Len(conn[c].pieces) - 1
    BY <1>5, <2>1, TailTyped
  <2>3. Len(conn[c].pieces) \in Nat
    BY <2>1
  <2> QED
    BY <1>3, <1>5, <2>2, <2>3 DEF NextPiece, Piece, Code, Cxn
<1>6. ASSUME NEW status \in {"200", "404"}, NEW outcome \in {"ok", "failed"},
             InBody(c, {"json", "form"}), conn[c].pieces # <<>>,
             NEW b \in Build(NextPiece(c), refs[c], outcome, status),
             conn' = [conn EXCEPT ![c] = b[1]],
             refs' = [refs EXCEPT ![c] = b[2]]
      PROVE  OwnedInv'
  <2>1. Len(conn[c].pieces) >= 1 /\ Len(conn[c].pieces) \in Nat
    BY <1>3, <1>5, <1>6 DEF InBody, Cxn
  <2>0. Len(conn[c].pieces) + (IF conn[c].response = "none" THEN 0 ELSE 1) <= 1
    BY <1>3, <1>6 DEF MakesOne, InBody
  <2>2. conn[c].response = "none" /\ Len(conn[c].pieces) = 1
    <3> DEFINE n == Len(conn[c].pieces)
    <3>1. n \in Nat /\ n >= 1 /\ n + (IF conn[c].response = "none" THEN 0 ELSE 1) <= 1
      BY <2>0, <2>1
    <3> HIDE DEF n
    <3>2. conn[c].response = "none" /\ n = 1
      BY <3>1
    <3> QED
      BY <3>2 DEF n
  <2>3. /\ b[1] \in Cxn /\ b[2] \in Int
        /\ b[1].pieces = NextPiece(c).pieces /\ b[1].kind = conn[c].kind
        /\ b[1].state = "body"
        /\ \/ b[1].response # "none" /\ b[2] = refs[c] + 1
           \/ b[1].response = "none" /\ b[2] = refs[c]
    BY <1>3, <1>5, <1>6, Built DEF InBody
  <2>4. Len(b[1].pieces) = 0
    BY <1>5, <1>6, <2>2, <2>3 DEF InBody
  <2>5. MakesOne(b[1])
    BY <1>6, <2>3, <2>4 DEF MakesOne, InBody
  <2>6. b[2] = IF b[1].response = "none" THEN 0 ELSE 1
    BY <1>3, <2>2, <2>3
  <2> QED
    BY <1>6, <2>3, <2>5, <2>6, OwnedConnection
<1>7. CASE HandleJson(c)
  <2>1. Code(Piece(c)) \in {"200", "404"} /\ Piece(c) \in {"ok", "failed"}
    BY <1>5, <1>7 DEF HandleJson, InBody
  <2> QED
    BY <1>6, <1>7, <2>1 DEF HandleJson, InBody
<1>8. CASE HandleFormField(c)
  BY <1>6, <1>8 DEF HandleFormField, InBody
<1>9. CASE HandleUploadField(c)
  <2>1. /\ conn[c].pieces # <<>> /\ conn[c].state = "body"
        /\ conn[c].kind = "upload"
    BY <1>9 DEF HandleUploadField, InBody
  <2>2. conn[c].pieces \in Seq({"ok", "failed"})
        /\ \A i \in DOMAIN conn[c].pieces : conn[c].pieces[i] = "ok"
    BY <1>3, <2>1 DEF MakesOne, Cxn
  <2>3. Piece(c) = "ok"
    BY <2>1, <2>2 DEF Piece
  <2>4. conn' = [conn EXCEPT ![c] = NextPiece(c)] /\ UNCHANGED refs
    BY <1>9, <2>3 DEF HandleUploadField
  <2>5. \A i \in DOMAIN Tail(conn[c].pieces) : Tail(conn[c].pieces)[i] = "ok"
    BY <2>1, <2>2
  <2>6. MakesOne(NextPiece(c))
    BY <1>3, <1>5, <2>1, <2>5 DEF MakesOne
  <2>7. NextPiece(c) \in Cxn /\ NextPiece(c).response = conn[c].response
    BY <1>5, <2>1
  <2>8. refs' = [refs EXCEPT ![c] = refs[c]]
    BY <1>3, <2>4
  <2> QED
    BY <1>3, <2>4, <2>6, <2>7, <2>8, OwnedConnection
<1>10. ASSUME NEW cxn \in Cxn, cxn.response = "none", cxn.pieces = <<>>,
              conn[c].response = "none", NEW outcome \in {"ok", "failed"},
              NEW b \in Build(cxn, refs[c], outcome, Code(outcome)),
              conn' = [conn EXCEPT ![c] = Send(b[1])],
              refs' = [refs EXCEPT ![c] = SentRefs(b[1], b[2])]
       PROVE  OwnedInv'
  <2>1. Code(outcome) \in {"200", "404"}
    BY DEF Code
  <2>2. /\ b[1] \in Cxn /\ b[2] \in Int /\ b[1].pieces = <<>>
        /\ \/ b[1].response # "none" /\ b[2] = refs[c] + 1
           \/ b[1].response = "none" /\ b[2] = refs[c]
    BY <1>3, <1>10, <2>1, Built
  <2>3. b[2] = IF b[1].response = "none" THEN 0 ELSE 1
    BY <1>3, <1>10, <2>2
  <2>4. MakesOne(Send(b[1])) /\ SentRefs(b[1], b[2]) = 0
    BY <2>2, <2>3, PageOwned
  <2>5. Send(b[1]) \in Cxn /\ Send(b[1]).response = "none"
    BY <2>2, SentTyped
  <2> QED
    BY <1>10, <2>4, <2>5, OwnedNoMore
<1>11. CASE HandlerCall(c)
  <2>1. CASE RefuseRequest(c)
    <3> DEFINE new == [conn[c] EXCEPT !.state = "queued", !.answer = "404"]
    <3>1. new \in Cxn /\ new.response = conn[c].response
      BY <1>3 DEF Cxn
    <3>2. MakesOne(new)
      BY <1>3 DEF MakesOne, Cxn
    <3>3. conn' = [conn EXCEPT ![c] = new] /\ refs' = [refs EXCEPT ![c] = refs[c]]
      BY <1>3, <2>1 DEF RefuseRequest
    <3> HIDE DEF new
    <3> QED
      BY <1>3, <3>1, <3>2, <3>3, OwnedConnection
  <2>2. CASE AcceptRequest(c)
    <3> DEFINE new == [conn[c] EXCEPT !.state = "body", !.cls = TRUE,
                                      !.pp = conn[c].kind # "get"]
    <3>1. new \in Cxn /\ new.response = conn[c].response
      BY <1>3 DEF Cxn
    <3>2. MakesOne(new)
      BY <1>3 DEF MakesOne, Cxn
    <3>3. conn' = [conn EXCEPT ![c] = new] /\ refs' = [refs EXCEPT ![c] = refs[c]]
      BY <1>3, <2>2 DEF AcceptRequest
    <3> HIDE DEF new
    <3> QED
      BY <1>3, <3>1, <3>2, <3>3, OwnedConnection
  <2>3. CASE AnswerPost(c)
    <3>1. /\ conn' = [conn EXCEPT ![c] = Send(conn[c])]
          /\ refs' = [refs EXCEPT ![c] = SentRefs(conn[c], refs[c])]
          /\ conn[c].pieces = <<>>
      BY <2>3, <1>3 DEF AnswerPost
    <3>2. MakesOne(Send(conn[c])) /\ SentRefs(conn[c], refs[c]) = 0
      BY <1>3, <3>1, PageOwned
    <3>3. Send(conn[c]) \in Cxn /\ Send(conn[c]).response = "none"
      BY <1>3, SentTyped
    <3> QED
      BY <3>1, <3>2, <3>3, OwnedNoMore
  <2>4. CASE AnswerUpload(c)
    <3>1. PICK outcome \in {"ok", "failed"} :
            \E b \in Build(conn[c], refs[c], outcome, Code(outcome)) :
              conn' = [conn EXCEPT ![c] = Send(b[1])]
              /\ refs' = [refs EXCEPT ![c] = SentRefs(b[1], b[2])]
      BY <2>4 DEF AnswerUpload
    <3>2. conn[c].response = "none" /\ conn[c].pieces = <<>>
      BY <1>3, <2>4 DEF AnswerUpload, InBody, MakesOne
    <3> QED
      BY <1>3, <1>10, <3>1, <3>2
  <2>5. CASE AnswerGet(c)
    <3>1. PICK b \in Build(NextPiece(c), refs[c], Piece(c), Code(Piece(c))) :
            conn' = [conn EXCEPT ![c] = Send(b[1])]
            /\ refs' = [refs EXCEPT ![c] = SentRefs(b[1], b[2])]
      BY <2>5 DEF AnswerGet
    <3>2. NextPiece(c) \in Cxn /\ Piece(c) \in {"ok", "failed"}
          /\ conn[c].kind = "get" /\ conn[c].response = "none"
          /\ NextPiece(c).response = "none" /\ NextPiece(c).kind = "get"
      BY <1>3, <1>5, <2>5 DEF AnswerGet, InBody, MakesOne
    <3>3. Code(Piece(c)) \in {"200", "404"}
      BY DEF Code
    <3>4. /\ b[1] \in Cxn /\ b[2] \in Int /\ b[1].kind = "get"
          /\ \/ b[1].response # "none" /\ b[2] = refs[c] + 1
             \/ b[1].response = "none" /\ b[2] = refs[c]
      BY <1>3, <3>2, <3>3, Built
    <3>5. SentRefs(b[1], b[2]) = 0
      BY <1>3, <3>2, <3>4 DEF SentRefs
    <3>6. Send(b[1]) \in Cxn /\ Send(b[1]).response = "none"
          /\ Send(b[1]).kind = "get" /\ Send(b[1]).state = "queued"
      BY <3>4, SentTyped
    <3>7. MakesOne(Send(b[1]))
      BY <3>6 DEF MakesOne
    <3> QED
      BY <3>1, <3>5, <3>6, <3>7, OwnedNoMore
  <2> QED
    BY <1>11, <2>1, <2>2, <2>3, <2>4, <2>5 DEF HandlerCall
<1>12. ASSUME Completed(c) PROVE OwnedInv'
  <2>1. SentRefs(conn[c], refs[c]) = 0
    BY <1>3 DEF SentRefs
  <2>2. conn' = [conn EXCEPT ![c] = Closed]
        /\ refs' = [refs EXCEPT ![c] = SentRefs(conn[c], refs[c])]
    BY <1>12, <1>3 DEF Completed
  <2> QED
    BY <2>1, <2>2, ClosedTyped, ClosedMakesOne, OwnedNoMore
<1> QED
  BY <1>4, <1>7, <1>8, <1>9, <1>11, <1>12 DEF ConnectionStep, Sent, Abort

LEMMA OwnedStep ==
  ASSUME OwnedInv, HeldInv', [Next]_vars
  PROVE  OwnedInv'
<1>1. CASE UNCHANGED vars
  BY <1>1 DEF vars, OwnedInv, Typed, ResponsesOwned, MakesOne
<1>2. ASSUME NEW c \in Conns, ConnectionStep(c)
      PROVE  OwnedInv'
  <2>1. CASE c \in Careful
    BY <1>2, <2>1, CarefulStep
  <2>2. CASE c \notin Careful
    <3>1. Typed'
      BY DEF HeldInv
    <3>2. ASSUME NEW d \in Careful
          PROVE  conn'[d] = conn[d] /\ refs'[d] = refs[d]
      BY <1>2, <2>2, OthersUntouched DEF Careful, OwnedInv
    <3>3. ResponsesOwned'
      BY <3>2 DEF OwnedInv, ResponsesOwned
    <3>4. \A d \in Careful : MakesOne(conn'[d])
      BY <3>2 DEF OwnedInv
    <3>5. \A d \in Careful : MakesOne(conn[d])'
      BY <3>4 DEF MakesOne
    <3> QED
      BY <3>1, <3>3, <3>5 DEF OwnedInv
  <2> QED
    BY <2>1, <2>2
<1> QED
  BY <1>1, <1>2 DEF Next, ConnectionStep

\* With JSON in one piece, no more than one field in a form and uploads whose
\* fields are accepted, a connection never loses a response: when its client goes
\* away or an allocation fails, it is destroyed.
THEOREM ResponsesOwnedHolds == Spec => []ResponsesOwned
<1>1. HeldInv /\ OwnedInv /\ [Next]_vars => (HeldInv /\ OwnedInv)'
  BY HeldStep, OwnedStep
<1>2. OwnedInv => ResponsesOwned
  BY DEF OwnedInv
<1>3. Init => HeldInv /\ OwnedInv
  BY HeldInit, OwnedInit
<1> QED
  BY <1>1, <1>2, <1>3, PTL DEF Spec

(***************************************************************************)
(* A request on its way to its answer.                                     *)
(***************************************************************************)
\* Of a request that has arrived the connection keeps the pieces it has yet to
\* hand over, and a 200 in its response, or sent, is the outcome of an API.
Suffix(pieces, whole) ==
  \E i \in 1..(Len(whole) + 1) : pieces = SubSeq(whole, i, Len(whole))

Served(c, cxn) ==
  /\ cxn.state # "closed" =>
       \E r \in Requests[c] : cxn.kind = r.kind /\ Suffix(cxn.pieces, r.pieces)
  /\ cxn.state = "body" => cxn.cls /\ (cxn.pp <=> cxn.kind # "get")
  /\ cxn.state = "queued" <=> cxn.answer # "none"
  /\ cxn.kind # "form" /\ (cxn.response = "200" \/ cxn.answer = "200") =>
       "ok" \in cxn.outcomes

ServedInv == Typed /\ \A c \in Conns : Served(c, conn[c])

LEMMA WholeIsSuffix ==
  ASSUME NEW whole \in Seq({"ok", "failed"})
  PROVE  Suffix(whole, whole)
<1>1. whole = SubSeq(whole, 1, Len(whole)) /\ 1 \in 1..(Len(whole) + 1)
  OBVIOUS
<1> QED
  BY <1>1 DEF Suffix

\* Handing over a piece leaves a shorter suffix.
LEMMA TailIsSuffix ==
  ASSUME NEW whole \in Seq({"ok", "failed"}), NEW pieces \in Seq({"ok", "failed"}),
         pieces # <<>>, Suffix(pieces, whole)
  PROVE  Suffix(Tail(pieces), whole)
<1>1. PICK i \in 1..(Len(whole) + 1) : pieces = SubSeq(whole, i, Len(whole))
  BY DEF Suffix
<1>2. i <= Len(whole)
  BY <1>1
<1>3. i + 1 \in 1..(Len(whole) + 1)
      /\ Tail(pieces) = SubSeq(whole, i + 1, Len(whole))
  BY <1>1, <1>2
<1> QED
  BY <1>3 DEF Suffix

LEMMA ServedConnection ==
  ASSUME ServedInv, NEW c \in Conns, NEW cxn, Served(c, cxn), Typed',
         conn' = [conn EXCEPT ![c] = cxn]
  PROVE  ServedInv'
<1>1. \A d \in Conns : Served(d, conn'[d])
  BY DEF ServedInv, Typed
<1>2. \A d \in Conns : Served(d, conn[d])'
  BY <1>1 DEF Served
<1> QED
  BY <1>2 DEF ServedInv

\* A response says 200 when the outcome it is built for is an API's success.
LEMMA BuiltServed ==
  ASSUME NEW c \in Conns, NEW cxn \in Cxn, Served(c, cxn), NEW n \in Int,
         NEW outcome \in {"ok", "failed"}, NEW status \in {"200", "404"},
         cxn.kind # "form" /\ status = "200" => outcome = "ok",
         NEW b \in Build(cxn, n, outcome, status)
  PROVE  Served(c, b[1])
<1> DEFINE made == [cxn EXCEPT !.response = status,
                               !.outcomes = cxn.outcomes \cup {outcome}]
           none == [cxn EXCEPT !.response = "none",
                               !.outcomes = cxn.outcomes \cup {outcome}]
<1>1. b = <<made, n + 1>> \/ b = <<none, n>>
  BY DEF Build
<1>2. /\ made.state = cxn.state /\ made.kind = cxn.kind /\ made.pieces = cxn.pieces
      /\ made.cls = cxn.cls /\ made.pp = cxn.pp /\ made.answer = cxn.answer
      /\ made.response = status /\ made.outcomes = cxn.outcomes \cup {outcome}
  BY DEF Cxn
<1>3. /\ none.state = cxn.state /\ none.kind = cxn.kind /\ none.pieces = cxn.pieces
      /\ none.cls = cxn.cls /\ none.pp = cxn.pp /\ none.answer = cxn.answer
      /\ none.response = "none" /\ none.outcomes = cxn.outcomes \cup {outcome}
  BY DEF Cxn
<1> HIDE DEF made, none
<1>4. CASE b = <<made, n + 1>>
  BY <1>2, <1>4 DEF Served
<1>5. CASE b = <<none, n>>
  BY <1>3, <1>5 DEF Served
<1> QED
  BY <1>1, <1>4, <1>5

\* The page that is sent carries the status of that response, or 404.
LEMMA SentServed ==
  ASSUME NEW c \in Conns, NEW cxn \in Cxn, Served(c, cxn), cxn.state = "body"
  PROVE  Served(c, Send(cxn))
<1> DEFINE told == IF cxn.response = "none" THEN "404" ELSE cxn.response
<1>1. told \in {"200", "404"} /\ (told = "200" => cxn.response = "200")
  BY DEF Cxn
<1>2. /\ Send(cxn).state = "queued" /\ Send(cxn).kind = cxn.kind
      /\ Send(cxn).pieces = cxn.pieces /\ Send(cxn).outcomes = cxn.outcomes
      /\ Send(cxn).response = "none" /\ Send(cxn).answer = told
  BY DEF Send, Cxn
<1> HIDE DEF told
<1> QED
  BY <1>1, <1>2 DEF Served

LEMMA ClosedServed == \A c \in Conns : Served(c, Closed)
  BY DEF Served, Closed

LEMMA ServedStep ==
  ASSUME ServedInv, NEW c \in Conns, ConnectionStep(c), Typed'
  PROVE  ServedInv'
<1>1. conn[c] \in Cxn /\ refs[c] \in Int /\ Served(c, conn[c])
      /\ Requests[c] \subseteq Request
  BY HttpAssumption DEF ServedInv, Typed
<1>2. ASSUME NEW r \in Requests[c], Arrive(c, r)
      PROVE  ServedInv'
  <2> DEFINE new == [Closed EXCEPT !.state = "headers", !.kind = r.kind,
                                   !.pieces = r.pieces]
  <2>1. r.pieces \in Seq({"ok", "failed"})
    BY <1>1 DEF Request
  <2>2. /\ new.state = "headers" /\ new.kind = r.kind /\ new.pieces = r.pieces
        /\ new.response = "none" /\ new.answer = "none"
    BY DEF Closed
  <2>3. conn' = [conn EXCEPT ![c] = new]
    BY <1>2 DEF Arrive
  <2> HIDE DEF new
  <2>4. Served(c, new)
    BY <2>1, <2>2, WholeIsSuffix DEF Served
  <2> QED
    BY <2>3, <2>4, ServedConnection
<1>3. ASSUME conn[c].pieces # <<>>, conn[c].state = "body"
      PROVE  /\ NextPiece(c) \in Cxn /\ Piece(c) \in {"ok", "failed"}
             /\ Served(c, NextPiece(c)) /\ NextPiece(c).state = "body"
             /\ NextPiece(c).kind = conn[c].kind
             /\ Code(Piece(c)) \in {"200", "404"}
             /\ Code(Piece(c)) = "200" => Piece(c) = "ok"
  <2>1. conn[c].pieces \in Seq({"ok", "failed"})
    BY <1>1 DEF Cxn
  <2>2. Tail(conn[c].pieces) \in Seq({"ok", "failed"})
        /\ Head(conn[c].pieces) \in {"ok", "failed"}
    BY <1>3, <2>1, TailTyped
  <2>3. /\ NextPiece(c) \in Cxn /\ NextPiece(c).pieces = Tail(conn[c].pieces)
        /\ NextPiece(c).state = conn[c].state /\ NextPiece(c).kind = conn[c].kind
        /\ NextPiece(c).cls = conn[c].cls /\ NextPiece(c).pp = conn[c].pp
        /\ NextPiece(c).answer = conn[c].answer
        /\ NextPiece(c).response = conn[c].response
        /\ NextPiece(c).outcomes = conn[c].outcomes
    BY <1>1, <2>2 DEF NextPiece, Cxn
  <2>4. \A r \in Requests[c] : r.pieces \in Seq({"ok", "failed"})
    BY <1>1 DEF Request
  <2>5. Served(c, NextPiece(c))
    BY <1>1, <1>3, <2>1, <2>3, <2>4, TailIsSuffix DEF Served
  <2> QED
    BY <1>3, <2>2, <2>3, <2>5 DEF Piece, Code
<1>4. CASE HandleJson(c)
  <2>1. PICK b \in Build(NextPiece(c), refs[c], Piece(c), Code(Piece(c))) :
          conn' = [conn EXCEPT ![c] = b[1]]
    BY <1>4 DEF HandleJson
  <2>2. Served(c, b[1])
    BY <1>1, <1>3, <1>4, BuiltServed DEF HandleJson, InBody
  <2> QED
    BY <2>1, <2>2, ServedConnection
<1>5. CASE HandleFormField(c)
  <2>1. PICK status \in {"200", "404"} :
          \E b \in Build(NextPiece(c), refs[c], "failed", status) :
            conn' = [conn EXCEPT ![c] = b[1]]
    BY <1>5 DEF HandleFormField
  <2>2. PICK b \in Build(NextPiece(c), refs[c], "failed", status) :
          conn' = [conn EXCEPT ![c] = b[1]]
    BY <2>1
  <2>3. NextPiece(c).kind = "form" /\ NextPiece(c) \in Cxn /\ Served(c, NextPiece(c))
    BY <1>3, <1>5 DEF HandleFormField, InBody
  <2>4. Served(c, b[1])
    BY <1>1, <2>3, BuiltServed
  <2> QED
    BY <2>2, <2>4, ServedConnection
<1>6. CASE HandleUploadField(c)
  <2>1. conn[c].pieces # <<>> /\ conn[c].state = "body"
    BY <1>6 DEF HandleUploadField, InBody
  <2>2. CASE conn' = [conn EXCEPT ![c] = NextPiece(c)]
    BY <1>3, <2>1, <2>2, ServedConnection
  <2>3. ASSUME NEW b \in Build(NextPiece(c), refs[c], "failed", "404"),
               conn' = [conn EXCEPT ![c] = [b[1] EXCEPT !.stopped = TRUE]]
        PROVE  ServedInv'
    <3> DEFINE stop == [b[1] EXCEPT !.stopped = TRUE]
    <3>1. b[1] \in Cxn /\ Served(c, b[1])
      BY <1>1, <1>3, <2>1, Built, BuiltServed
    <3>2. /\ stop.pieces = b[1].pieces /\ stop.state = b[1].state
          /\ stop.kind = b[1].kind /\ stop.cls = b[1].cls /\ stop.pp = b[1].pp
          /\ stop.answer = b[1].answer /\ stop.response = b[1].response
          /\ stop.outcomes = b[1].outcomes
      BY <3>1 DEF Cxn
    <3>3. conn' = [conn EXCEPT ![c] = stop]
      BY <2>3
    <3> HIDE DEF stop
    <3>4. Served(c, stop)
      BY <3>1, <3>2 DEF Served
    <3> QED
      BY <3>3, <3>4, ServedConnection
  <2> QED
    BY <1>6, <2>2, <2>3 DEF HandleUploadField
<1>7. ASSUME NEW cxn \in Cxn, Served(c, cxn), cxn.state = "body", cxn.kind # "form",
             NEW outcome \in {"ok", "failed"},
             NEW b \in Build(cxn, refs[c], outcome, Code(outcome)),
             conn' = [conn EXCEPT ![c] = Send(b[1])]
      PROVE  ServedInv'
  <2>1. Code(outcome) \in {"200", "404"} /\ (Code(outcome) = "200" => outcome = "ok")
    BY DEF Code
  <2>2. b[1] \in Cxn /\ b[1].state = "body" /\ Served(c, b[1])
    BY <1>1, <1>7, <2>1, Built, BuiltServed
  <2> QED
    BY <1>7, <2>2, SentServed, ServedConnection
<1>8. CASE HandlerCall(c)
  <2>1. CASE RefuseRequest(c)
    <3> DEFINE new == [conn[c] EXCEPT !.state = "queued", !.answer = "404"]
    <3>1. /\ new.state = "queued" /\ new.answer = "404" /\ new.kind = conn[c].kind
          /\ new.pieces = conn[c].pieces /\ new.response = conn[c].response
          /\ new.outcomes = conn[c].outcomes
      BY <1>1 DEF Cxn
    <3>2. conn' = [conn EXCEPT ![c] = new] /\ conn[c].state = "headers"
      BY <2>1 DEF RefuseRequest
    <3> HIDE DEF new
    <3>3. Served(c, new)
      BY <1>1, <3>1, <3>2 DEF Served
    <3> QED
      BY <3>2, <3>3, ServedConnection
  <2>2. CASE AcceptRequest(c)
    <3> DEFINE new == [conn[c] EXCEPT !.state = "body", !.cls = TRUE,
                                      !.pp = conn[c].kind # "get"]
    <3>1. /\ new.state = "body" /\ new.answer = conn[c].answer
          /\ new.kind = conn[c].kind /\ new.cls /\ new.pp = (conn[c].kind # "get")
          /\ new.pieces = conn[c].pieces /\ new.response = conn[c].response
          /\ new.outcomes = conn[c].outcomes
      BY <1>1 DEF Cxn
    <3>2. conn' = [conn EXCEPT ![c] = new] /\ conn[c].state = "headers"
      BY <2>2 DEF AcceptRequest
    <3> HIDE DEF new
    <3>3. Served(c, new)
      BY <1>1, <3>1, <3>2 DEF Served
    <3> QED
      BY <3>2, <3>3, ServedConnection
  <2>3. CASE AnswerPost(c)
    BY <1>1, <2>3, SentServed, ServedConnection DEF AnswerPost, InBody
  <2>4. CASE AnswerUpload(c)
    BY <1>1, <1>7, <2>4 DEF AnswerUpload, InBody
  <2>5. CASE AnswerGet(c)
    BY <1>3, <1>7, <2>5 DEF AnswerGet, InBody
  <2> QED
    BY <1>8, <2>1, <2>2, <2>3, <2>4, <2>5 DEF HandlerCall
<1>9. CASE Completed(c)
  BY <1>9, ClosedServed, ServedConnection DEF Completed
<1> QED
  BY <1>2, <1>4, <1>5, <1>6, <1>8, <1>9 DEF ConnectionStep, Sent, Abort

LEMMA ServedNext ==
  ASSUME ServedInv, HeldInv', [Next]_vars
  PROVE  ServedInv'
<1>1. CASE UNCHANGED vars
  BY <1>1 DEF vars, ServedInv, Typed, Served
<1>2. Typed'
  BY DEF HeldInv
<1> QED
  BY <1>1, <1>2, ServedStep DEF Next, ConnectionStep

\* What holds of a served request, as the properties say it.
LEMMA ServedTyped ==
  ASSUME ServedInv, HeldInv
  PROVE  TypeOK
<1> SUFFICES ASSUME NEW c \in Conns
             PROVE  LET cxn == conn[c]
                    IN  /\ cxn.state \in {"closed", "headers", "body", "queued"}
                        /\ cxn.state # "closed" =>
                             \E r \in Requests[c] : \E i \in 1..(Len(r.pieces) + 1) :
                               cxn.kind = r.kind
                               /\ cxn.pieces = SubSeq(r.pieces, i, Len(r.pieces))
                        /\ cxn.state = "body" => cxn.cls /\ (cxn.pp <=> cxn.kind # "get")
                        /\ cxn.state = "queued" <=> cxn.answer # "none"
                        /\ cxn.response \in {"none", "200", "404"}
                        /\ cxn.outcomes \subseteq {"ok", "failed"}
                        /\ refs[c] \in Nat
  BY DEF TypeOK
<1>1. conn[c] \in Cxn /\ Served(c, conn[c])
  BY DEF ServedInv, Typed
<1>2. refs[c] \in Nat
  BY DEF HeldInv, Typed, HeldResponseExists
<1> QED
  BY <1>1, <1>2 DEF Served, Suffix, Cxn

LEMMA AlwaysServed == Spec => [](ServedInv /\ HeldInv)
<1>1. Init => ServedInv /\ HeldInv
  BY HeldInit, ClosedServed DEF Init, ServedInv, HeldInv
<1>2. ServedInv /\ HeldInv /\ [Next]_vars => (ServedInv /\ HeldInv)'
  BY HeldStep, ServedNext
<1> QED
  BY <1>1, <1>2, PTL DEF Spec

\* Whatever is sent and whoever goes away, a request being served is the rest of
\* one that was sent, and it has no answer until it is queued.
THEOREM HttpTypeCorrect == Spec => []TypeOK
  BY AlwaysServed, ServedTyped, PTL

\* A client is told 200 only for what an API did, over however many pieces his
\* request comes and however many responses to them are replaced.
THEOREM AnswerIsOutcomeHolds == Spec => []AnswerIsOutcome
<1>1. ServedInv => AnswerIsOutcome
  BY DEF ServedInv, Served, AnswerIsOutcome
<1> QED
  BY <1>1, AlwaysServed, PTL

=============================================================================
