---------------------------- MODULE UploadProofs ----------------------------
(***************************************************************************)
(* Uploads for any number of connections, users and descriptors and any    *)
(* forms: what is cached belongs to registered users, what is answered is  *)
(* recorded and what is opened is closed; and, for the forms browsers send *)
(* of users who do not share a file, what is answered is published.        *)
(***************************************************************************)
EXTENDS UploadProperties, FiniteSetTheorems, TLAPS

AllForms == {<<>>} \cup UNION {Forms[c] : c \in Conns}

Cxn ==
  [state : {"closed", "receiving", "copy", "record", "query", "answered"},
   form : AllForms, next : Int, broken : BOOLEAN, id : Ids \cup {None},
   valid : BOOLEAN, fd : Ids \cup {None}, status : {"none", "200", "404"}]

\* the connections have their types, serve forms their clients send, and have an
\* id when it is valid; the cache has a file or none for each id
Typed ==
  /\ conn \in [Conns -> Cxn]
  /\ \A c \in Conns : /\ conn[c].state # "closed" => conn[c].form \in Forms[c]
                      /\ conn[c].valid => conn[c].id \in Ids
  /\ DOMAIN cache = Ids

LEMMA ClosedTyped == Closed \in Cxn /\ Closed.state = "closed" /\ ~Closed.valid
  BY DEF Closed, Cxn, AllForms

\* What connection c becomes, where any action changes one.
LEMMA OneTyped ==
  ASSUME Typed, NEW c \in Conns, NEW cxn \in Cxn,
         cxn.state # "closed" => cxn.form \in Forms[c],
         cxn.valid => cxn.id \in Ids,
         conn' = [conn EXCEPT ![c] = cxn], DOMAIN cache' = Ids
  PROVE  Typed'
  BY DEF Typed

\* A step of a callback on connection c.
CallbackStep(c) ==
  \/ SkipField(c) \/ IdField(c) \/ ImageField(c) \/ NoCacheFile(c)
  \/ Publish(c)
  \/ Complete(c)
  \/ Abort(c)

LEMMA TypedInit == Init => Typed
  BY ClosedTyped DEF Init, Typed

\* the form is the one the client sends, and its next field, if an id, is one
LEMMA FieldTyped ==
  ASSUME Typed, NEW c \in Conns, conn[c].state # "closed"
  PROVE  /\ conn[c] \in Cxn
         /\ conn[c].form \in Forms[c]
         /\ HasField(c) /\ Field(c).key = "id" => Field(c).id \in Ids
  BY UploadAssumption DEF Typed, HasField, Field

\* A connection one of whose fields changes.
LEMMA ChangedField ==
  ASSUME NEW x \in Cxn
  PROVE  /\ \A form \in AllForms : [x EXCEPT !.form = form] \in Cxn
         /\ \A next \in Int : [x EXCEPT !.next = next] \in Cxn
         /\ \A b \in BOOLEAN : [x EXCEPT !.broken = b] \in Cxn
         /\ \A b \in BOOLEAN : [x EXCEPT !.valid = b] \in Cxn
         /\ \A id \in Ids \cup {None} : [x EXCEPT !.id = id] \in Cxn
         /\ \A id \in Ids \cup {None} : [x EXCEPT !.fd = id] \in Cxn
<1>1. ASSUME NEW next \in Int PROVE [x EXCEPT !.next = next] \in Cxn
  BY DEF Cxn
<1>2. ASSUME NEW b \in BOOLEAN PROVE [x EXCEPT !.broken = b] \in Cxn
  BY DEF Cxn
<1>3. ASSUME NEW b \in BOOLEAN PROVE [x EXCEPT !.valid = b] \in Cxn
  BY DEF Cxn
<1>4. ASSUME NEW id \in Ids \cup {None} PROVE [x EXCEPT !.id = id] \in Cxn
  BY DEF Cxn
<1>5. ASSUME NEW id \in Ids \cup {None} PROVE [x EXCEPT !.fd = id] \in Cxn
  BY DEF Cxn
<1>6. ASSUME NEW form \in AllForms PROVE [x EXCEPT !.form = form] \in Cxn
  BY DEF Cxn
<1>. QED
  BY <1>1, <1>2, <1>3, <1>4, <1>5, <1>6

\* What the callbacks make of a connection that reads a field.
LEMMA ReadField ==
  ASSUME NEW x \in Cxn, NEW b \in BOOLEAN, NEW v \in BOOLEAN,
         NEW id \in Ids \cup {None}
  PROVE  /\ [x EXCEPT !.next = @ + 1] \in Cxn
         /\ [x EXCEPT !.next = @ + 1, !.broken = b] \in Cxn
         /\ [x EXCEPT !.next = @ + 1, !.fd = id] \in Cxn
         /\ [x EXCEPT !.next = @ + 1, !.fd = id, !.broken = b] \in Cxn
         /\ [x EXCEPT !.next = @ + 1, !.id = id, !.valid = v, !.broken = b] \in Cxn
<1>. DEFINE y == [x EXCEPT !.next = @ + 1]
<1>1. y \in Cxn
  BY ChangedField DEF Cxn
<1>. HIDE DEF y
<1>2. [y EXCEPT !.broken = b] \in Cxn
  BY <1>1, ChangedField
<1>. DEFINE f == [y EXCEPT !.fd = id]
<1>3. f \in Cxn
  BY <1>1, ChangedField
<1>. HIDE DEF f
<1>4. [f EXCEPT !.broken = b] \in Cxn
  BY <1>3, ChangedField
<1>. DEFINE i == [y EXCEPT !.id = id]
<1>5. i \in Cxn
  BY <1>1, ChangedField
<1>. HIDE DEF i
<1>. DEFINE w == [i EXCEPT !.valid = v]
<1>6. w \in Cxn
  BY <1>5, ChangedField
<1>. HIDE DEF w
<1>7. [w EXCEPT !.broken = b] \in Cxn
  BY <1>6, ChangedField
<1>. QED
  BY <1>1, <1>2, <1>3, <1>4, <1>7 DEF y, f, i, w

LEMMA ReceivedTyped ==
  ASSUME Typed, NEW c \in Conns,
         SkipField(c) \/ IdField(c) \/ ImageField(c) \/ NoCacheFile(c)
  PROVE  Typed'
<1>1. conn[c] \in Cxn /\ conn[c].form \in Forms[c]
  BY FieldTyped DEF SkipField, IdField, ImageField, NoCacheFile, Receiving
<1>2. CASE SkipField(c)
  <2>1. [conn[c] EXCEPT !.next = @ + 1] \in Cxn
    BY <1>1 DEF Cxn
  <2>. QED
    BY <1>1, <1>2, <2>1 DEF SkipField, Typed, files
<1>3. CASE IdField(c)
  <2>1. Field(c).id \in Ids
    BY <1>3, FieldTyped DEF IdField, Receiving
  <2>2. PICK v \in BOOLEAN, b \in BOOLEAN :
          conn' = [conn EXCEPT ![c] = [conn[c] EXCEPT !.next = @ + 1,
                                         !.id = Field(c).id, !.valid = v, !.broken = b]]
    <3>1. PICK found \in BOOLEAN :
            conn' = [conn EXCEPT ![c] = [conn[c] EXCEPT !.next = @ + 1,
                                           !.id = Field(c).id,
                                           !.valid = @ \/ found, !.broken = ~found]]
      BY <1>3 DEF IdField
    <3>2. (conn[c].valid \/ found) \in BOOLEAN /\ (~found) \in BOOLEAN
      OBVIOUS
    <3>. QED
      BY <3>1, <3>2, Zenon
  <2>. DEFINE cxn == [conn[c] EXCEPT !.next = @ + 1, !.id = Field(c).id,
                                     !.valid = v, !.broken = b]
  <2>3. cxn \in Cxn
    BY <1>1, <2>1, ReadField
  <2>4. cxn.form = conn[c].form /\ cxn.id = Field(c).id
    BY <1>1 DEF Cxn
  <2>5. DOMAIN cache' = Ids
    BY <1>3 DEF IdField, files, Typed
  <2>. QED
    BY <1>1, <2>1, <2>2, <2>3, <2>4, <2>5, OneTyped
<1>4. CASE ImageField(c)
  <2>. DEFINE u == IF conn[c].fd = None THEN conn[c].id ELSE conn[c].fd
              read == [conn[c] EXCEPT !.next = @ + 1, !.fd = u]
              failed == [conn[c] EXCEPT !.next = @ + 1, !.fd = u, !.broken = TRUE]
  <2>1. u \in Ids /\ conn[c].id \in Ids
    BY <1>1, <1>4 DEF ImageField, Typed, Cxn
  <2>2. DOMAIN cache' = Ids
    BY <1>4 DEF ImageField, Typed
  <2>3. read \in Cxn /\ failed \in Cxn
    BY <1>1, <2>1, ReadField
  <2>4. read.form = conn[c].form /\ read.id = conn[c].id
    BY <1>1 DEF Cxn
  <2>5. failed.form = conn[c].form /\ failed.id = conn[c].id
    BY <1>1 DEF Cxn
  <2>6. conn' = [conn EXCEPT ![c] = read] \/ conn' = [conn EXCEPT ![c] = failed]
    BY <1>4 DEF ImageField
  <2>. HIDE DEF u, read, failed
  <2>. QED
    BY <1>1, <2>1, <2>2, <2>3, <2>4, <2>5, <2>6, OneTyped
<1>5. CASE NoCacheFile(c)
  <2>. DEFINE cxn == [conn[c] EXCEPT !.next = @ + 1, !.broken = TRUE]
  <2>1. cxn \in Cxn
    BY <1>1, ReadField
  <2>2. cxn.form = conn[c].form /\ cxn.valid = conn[c].valid /\ cxn.id = conn[c].id
    BY <1>1 DEF Cxn
  <2>3. conn' = [conn EXCEPT ![c] = cxn] /\ DOMAIN cache' = Ids
    BY <1>5 DEF NoCacheFile, Typed, files
  <2>4. cxn.valid => cxn.id \in Ids
    BY <2>2 DEF Typed
  <2>. QED
    BY <1>1, <2>1, <2>2, <2>3, <2>4, OneTyped
<1>. QED
  BY <1>2, <1>3, <1>4, <1>5

LEMMA AnswerTyped ==
  ASSUME Typed, NEW c \in Conns, conn[c].state # "closed",
         NEW status \in {"200", "404"}, NEW closed, Answer(c, status, closed),
         UNCHANGED cache
  PROVE  /\ Typed'
         /\ conn'[c].state = "answered" /\ conn'[c].fd = None
         /\ conn'[c].id = conn[c].id /\ conn'[c].valid = conn[c].valid
         /\ conn'[c].broken = conn[c].broken /\ conn'[c].status = status
         /\ conn'[c].form = conn[c].form /\ conn'[c].next = conn[c].next
         /\ \A d \in Conns \ {c} : conn'[d] = conn[d]
<1>. DEFINE cxn == [conn[c] EXCEPT !.state = "answered", !.status = status, !.fd = None]
<1>1. conn[c] \in Cxn /\ cxn \in Cxn
  <2>1. conn[c] \in Cxn
    BY DEF Typed
  <2>. QED
    BY <2>1 DEF Cxn
<1>2. conn' = [conn EXCEPT ![c] = cxn]
  BY DEF Answer
<1>. QED
  BY <1>1, <1>2 DEF Typed, Cxn

LEMMA PublishTyped ==
  ASSUME Typed, NEW c \in Conns, Publish(c)
  PROVE  Typed'
<1>1. conn[c].state # "closed"
  BY DEF Publish, RefuseUpload, OpenPublished, CopyImage, CopyFails, RecordUrl,
         RecordFails, QueryUrl, Receiving
<1>2. CASE \E status \in {"200", "404"}, closed \in {0, 1} : Answer(c, status, closed)
           /\ UNCHANGED cache
  BY <1>1, <1>2, AnswerTyped
<1>3. CASE OpenPublished(c) \/ CopyImage(c) \/ RecordUrl(c)
  <2>1. PICK s \in {"copy", "record", "query"} : conn' = [conn EXCEPT ![c].state = s]
    BY <1>3 DEF OpenPublished, CopyImage, RecordUrl
  <2>2. [conn[c] EXCEPT !.state = s] \in Cxn
    BY DEF Typed, Cxn
  <2>3. UNCHANGED cache
    BY <1>3 DEF OpenPublished, CopyImage, RecordUrl, files
  <2>. QED
    BY <1>1, <2>1, <2>2, <2>3 DEF Typed, Cxn
<1>. QED
  BY <1>2, <1>3 DEF Publish, RefuseUpload, CopyFails, RecordFails, QueryUrl, files

\* A connection that ends is as one that has not begun.
LEMMA EndTyped ==
  ASSUME Typed, NEW c \in Conns, Complete(c) \/ Abort(c)
  PROVE  Typed'
  BY ClosedTyped, OneTyped DEF Complete, Abort, files, Typed

LEMMA TypedStep == Typed /\ [Next]_vars => Typed'
<1>. SUFFICES ASSUME Typed, [Next]_vars PROVE Typed'
  OBVIOUS
<1>1. ASSUME NEW c \in Conns, NEW form \in Forms[c], Connect(c, form) PROVE Typed'
  <2>. DEFINE cxn == [Closed EXCEPT !.state = "receiving", !.form = form]
  <2>. DEFINE x == [Closed EXCEPT !.state = "receiving"]
  <2>0. form \in AllForms
    BY DEF AllForms
  <2>1. x \in Cxn /\ ~x.valid
    <3>1. \A y \in Cxn : [y EXCEPT !.state = "receiving"] \in Cxn
      BY DEF Cxn
    <3>. QED
      BY <3>1, ClosedTyped DEF Closed
  <2>. HIDE DEF x
  <2>2. [x EXCEPT !.form = form] \in Cxn
    BY <2>0, <2>1, ChangedField
  <2>3. [x EXCEPT !.form = form].form = form /\ ~[x EXCEPT !.form = form].valid
    BY <2>1 DEF Cxn
  <2>4. cxn = [x EXCEPT !.form = form]
    BY DEF x
  <2>5. conn' = [conn EXCEPT ![c] = cxn] /\ DOMAIN cache' = Ids
    BY <1>1 DEF Connect, files, Typed
  <2>. HIDE DEF cxn
  <2>. QED
    BY <2>2, <2>3, <2>4, <2>5, OneTyped
<1>2. ASSUME NEW c \in Conns, CallbackStep(c) PROVE Typed'
  BY <1>2, ReceivedTyped, PublishTyped, EndTyped DEF CallbackStep
<1>3. ASSUME NEW u \in Users, Register(u) PROVE Typed'
  BY <1>3 DEF Register, files, Typed
<1>4. CASE Restart
  BY <1>4, ClosedTyped DEF Restart, files, Typed
<1>5. CASE UNCHANGED vars
  BY <1>5 DEF vars, files, Typed
<1>. QED
  BY <1>1, <1>2, <1>3, <1>4, <1>5 DEF Next, CallbackStep

(***************************************************************************)
(* What a step does to the connection it serves; the others do not change. *)
(***************************************************************************)
Others(c) == \A d \in Conns \ {c} : conn'[d] = conn[d]

Unfailed(c) == conn[c].valid /\ ~conn[c].broken

LEMMA SkipEffect ==
  ASSUME Typed, NEW c \in Conns, SkipField(c) \/ NoCacheFile(c)
  PROVE  /\ Others(c)
         /\ conn[c].state = "receiving" /\ conn'[c].state = "receiving"
         /\ conn'[c].status = conn[c].status /\ conn'[c].fd = conn[c].fd
         /\ conn'[c].id = conn[c].id /\ (Unfailed(c)' => Unfailed(c))
         /\ UNCHANGED <<cache, users, recorded, open>>
<1>1. conn \in [Conns -> Cxn] /\ conn[c] \in Cxn
  BY DEF Typed
<1>2. CASE SkipField(c)
  BY <1>1, <1>2 DEF SkipField, Receiving, Others, Unfailed, Cxn, files
<1>3. CASE NoCacheFile(c)
  <2>. DEFINE cxn == [conn[c] EXCEPT !.next = @ + 1, !.broken = TRUE]
  <2>1. /\ cxn.state = conn[c].state /\ cxn.status = conn[c].status
        /\ cxn.fd = conn[c].fd /\ cxn.id = conn[c].id /\ cxn.broken
    BY <1>1 DEF Cxn
  <2>2. conn' = [conn EXCEPT ![c] = cxn]
    BY <1>3 DEF NoCacheFile
  <2>. HIDE DEF cxn
  <2>. QED
    BY <1>1, <1>3, <2>1, <2>2 DEF NoCacheFile, Receiving, Others, Unfailed, files
<1>. QED
  BY <1>2, <1>3

LEMMA IdEffect ==
  ASSUME Typed, NEW c \in Conns, IdField(c)
  PROVE  /\ Others(c)
         /\ conn[c].state = "receiving" /\ conn'[c].state = "receiving"
         /\ conn'[c].status = conn[c].status /\ conn'[c].fd = conn[c].fd
         /\ "lookup" \notin Faults /\ Unfailed(c)' => conn'[c].id \in users
         /\ UNCHANGED <<cache, users, recorded, open>>
<1>1. conn \in [Conns -> Cxn] /\ conn[c] \in Cxn
  BY DEF Typed
<1>2. PICK found \in BOOLEAN :
        /\ "lookup" \notin Faults => found = (Field(c).id \in users)
        /\ conn' = [conn EXCEPT ![c] = [conn[c] EXCEPT !.next = @ + 1,
                                           !.id = Field(c).id,
                                           !.valid = conn[c].valid \/ found,
                                           !.broken = ~found]]
  BY Zenon DEF IdField
<1>. DEFINE cxn == [conn[c] EXCEPT !.next = @ + 1, !.id = Field(c).id,
                                   !.valid = conn[c].valid \/ found, !.broken = ~found]
<1>3. /\ cxn.state = conn[c].state /\ cxn.status = conn[c].status
      /\ cxn.fd = conn[c].fd /\ cxn.id = Field(c).id /\ cxn.broken = ~found
  BY <1>1 DEF Cxn
<1>4. conn' = [conn EXCEPT ![c] = cxn]
  BY <1>2
<1>. HIDE DEF cxn
<1>. QED
  BY <1>1, <1>2, <1>3, <1>4 DEF IdField, Receiving, Others, Unfailed, files

LEMMA ImageEffect ==
  ASSUME Typed, NEW c \in Conns, ImageField(c)
  PROVE  /\ Others(c)
         /\ conn[c].state = "receiving" /\ conn'[c].state = "receiving"
         /\ conn'[c].status = conn[c].status /\ conn'[c].id = conn[c].id
         /\ conn'[c].fd = (IF conn[c].fd = None THEN conn[c].id ELSE conn[c].fd)
         /\ conn'[c].fd \in Ids /\ Unfailed(c) /\ (Unfailed(c)' => Unfailed(c))
         /\ \A u \in Ids \ {conn'[c].fd} : cache'[u] = cache[u]
         /\ open' = (IF conn[c].fd = None THEN open + 1 ELSE open)
         /\ UNCHANGED <<users, recorded>>
<1>. DEFINE u == IF conn[c].fd = None THEN conn[c].id ELSE conn[c].fd
            read == [conn[c] EXCEPT !.next = @ + 1, !.fd = u]
            failed == [conn[c] EXCEPT !.next = @ + 1, !.fd = u, !.broken = TRUE]
<1>1. conn \in [Conns -> Cxn] /\ conn[c] \in Cxn
  BY DEF Typed
<1>2. u \in Ids
  BY <1>1 DEF ImageField, Typed, Cxn
<1>3. /\ read.state = conn[c].state /\ read.status = conn[c].status
      /\ read.id = conn[c].id /\ read.fd = u
  BY <1>1 DEF Cxn
<1>4. /\ failed.state = conn[c].state /\ failed.status = conn[c].status
      /\ failed.id = conn[c].id /\ failed.fd = u
  BY <1>1 DEF Cxn
<1>5. \/ conn' = [conn EXCEPT ![c] = read]
      \/ conn' = [conn EXCEPT ![c] = failed]
  BY DEF ImageField
<1>6. Unfailed(c)
  BY DEF ImageField, Unfailed
<1>7. \A w \in Ids \ {u} : cache'[w] = cache[w]
  BY DEF ImageField, Typed
<1>8. open' = (IF conn[c].fd = None THEN open + 1 ELSE open) /\ UNCHANGED <<users, recorded>>
      /\ conn[c].state = "receiving"
  BY DEF ImageField, Receiving
<1>. HIDE DEF u, read, failed
<1>9. Others(c) /\ conn'[c] \in {read, failed}
  BY <1>1, <1>5 DEF Others
<1>10. conn'[c].fd = u
  BY <1>3, <1>4, <1>9
<1>. QED
  BY <1>2, <1>3, <1>4, <1>6, <1>7, <1>8, <1>9, <1>10 DEF u

\* The callback that publishes answers or goes on to its next step.
Moves(c, state) ==
  /\ Others(c)
  /\ conn'[c].state = state /\ conn'[c].status = conn[c].status
  /\ conn'[c].fd = conn[c].fd /\ conn'[c].id = conn[c].id
  /\ conn'[c].valid = conn[c].valid /\ conn'[c].broken = conn[c].broken
  /\ conn'[c].form = conn[c].form /\ conn'[c].next = conn[c].next

LEMMA MoveEffect ==
  ASSUME Typed, NEW c \in Conns
  PROVE  /\ OpenPublished(c) => /\ conn[c].state = "receiving" /\ Moves(c, "copy")
                               /\ open' = open + 1 /\ UNCHANGED <<cache, users, recorded>>
         /\ CopyImage(c) => /\ conn[c].state = "copy" /\ Moves(c, "record")
                           /\ open' = open - 1 /\ UNCHANGED <<cache, users, recorded>>
         /\ RecordUrl(c) => /\ conn[c].state = "record" /\ Moves(c, "query")
                           /\ UNCHANGED <<cache, users, open>>
<1>1. conn \in [Conns -> Cxn] /\ conn[c] \in Cxn
  BY DEF Typed
<1>2. ASSUME NEW s, conn' = [conn EXCEPT ![c].state = s]
      PROVE  Moves(c, s)
  BY <1>1, <1>2 DEF Moves, Others, Cxn
<1>3. ASSUME OpenPublished(c)
      PROVE  /\ conn[c].state = "receiving" /\ Moves(c, "copy")
             /\ open' = open + 1 /\ UNCHANGED <<cache, users, recorded>>
  BY <1>2, <1>3 DEF OpenPublished, Receiving
<1>4. ASSUME CopyImage(c)
      PROVE  /\ conn[c].state = "copy" /\ Moves(c, "record")
             /\ open' = open - 1 /\ UNCHANGED <<cache, users, recorded>>
  BY <1>2, <1>4 DEF CopyImage
<1>5. ASSUME RecordUrl(c)
      PROVE  /\ conn[c].state = "record" /\ Moves(c, "query")
             /\ UNCHANGED <<cache, users, open>>
  BY <1>2, <1>5 DEF RecordUrl, files
<1>. QED
  BY <1>3, <1>4, <1>5

\* A callback that answers, with the status it sends.
Answers(c, status) ==
  /\ Others(c)
  /\ conn'[c].state = "answered" /\ conn'[c].status = status /\ conn'[c].fd = None
  /\ conn'[c].id = conn[c].id
  /\ conn'[c].valid = conn[c].valid /\ conn'[c].broken = conn[c].broken
  /\ conn'[c].form = conn[c].form /\ conn'[c].next = conn[c].next

Closes(c, n) ==
  open' = open - n - (IF conn[c].fd = None THEN 0 ELSE 1)

LEMMA AnswerEffect ==
  ASSUME Typed, NEW c \in Conns
  PROVE  /\ RefuseUpload(c) => /\ conn[c].state = "receiving" /\ Answers(c, "404")
                              /\ Closes(c, 0) /\ UNCHANGED <<cache, users, recorded>>
         /\ CopyFails(c) => /\ conn[c].state = "copy" /\ Answers(c, "404")
                           /\ Closes(c, 1) /\ UNCHANGED <<cache, users, recorded>>
         /\ RecordFails(c) => /\ conn[c].state = "record" /\ Answers(c, "404")
                             /\ Closes(c, 0) /\ UNCHANGED <<cache, users, recorded>>
         /\ QueryUrl(c) => /\ conn[c].state = "query"
                          /\ \E status \in {"200", "404"} : Answers(c, status)
                          /\ Closes(c, 0) /\ UNCHANGED <<cache, users, recorded>>
<1>1. ASSUME conn[c].state # "closed", NEW status \in {"200", "404"}, NEW n,
             Answer(c, status, n), UNCHANGED cache
      PROVE  Answers(c, status) /\ Closes(c, n)
  BY <1>1, AnswerTyped DEF Answers, Others, Closes, Answer
<1>2. ASSUME RefuseUpload(c)
      PROVE  /\ conn[c].state = "receiving" /\ Answers(c, "404")
             /\ Closes(c, 0) /\ UNCHANGED <<cache, users, recorded>>
  BY <1>1, <1>2 DEF RefuseUpload, Receiving, files
<1>3. ASSUME CopyFails(c)
      PROVE  /\ conn[c].state = "copy" /\ Answers(c, "404")
             /\ Closes(c, 1) /\ UNCHANGED <<cache, users, recorded>>
  BY <1>1, <1>3 DEF CopyFails
<1>4. ASSUME RecordFails(c)
      PROVE  /\ conn[c].state = "record" /\ Answers(c, "404")
             /\ Closes(c, 0) /\ UNCHANGED <<cache, users, recorded>>
  BY <1>1, <1>4 DEF RecordFails, files
<1>5. ASSUME QueryUrl(c)
      PROVE  /\ conn[c].state = "query"
             /\ \E status \in {"200", "404"} : Answers(c, status)
             /\ Closes(c, 0) /\ UNCHANGED <<cache, users, recorded>>
  BY <1>1, <1>5 DEF QueryUrl, files
<1>. QED
  BY <1>2, <1>3, <1>4, <1>5

LEMMA EndEffect ==
  ASSUME Typed, NEW c \in Conns, Complete(c) \/ Abort(c)
  PROVE  /\ Others(c) /\ conn'[c] = Closed
         /\ Complete(c) => conn[c].state = "answered"
         /\ Abort(c) => "abort" \in Faults
         /\ UNCHANGED <<cache, users, recorded, open>>
  BY DEF Complete, Abort, Others, files, Typed

LEMMA ConnectEffect ==
  ASSUME Typed, NEW c \in Conns, NEW form \in Forms[c], Connect(c, form)
  PROVE  /\ Others(c) /\ conn[c].state = "closed"
         /\ conn'[c].state = "receiving" /\ conn'[c].status = "none"
         /\ conn'[c].fd = None /\ ~conn'[c].valid
         /\ UNCHANGED <<cache, users, recorded, open>>
<1>. DEFINE cxn == [Closed EXCEPT !.state = "receiving", !.form = form]
<1>1. /\ cxn.state = "receiving" /\ cxn.status = "none" /\ cxn.fd = None
      /\ ~cxn.valid
  BY DEF Closed
<1>2. conn' = [conn EXCEPT ![c] = cxn]
  BY DEF Connect
<1>. HIDE DEF cxn
<1>. QED
  BY <1>1, <1>2 DEF Connect, Others, files, Typed

(***************************************************************************)
(* An image is in the cache only under the id of a connection whose id was *)
(* found, and whoever is registered stays so.                              *)
(***************************************************************************)
CacheInv ==
  /\ Typed
  /\ \A c \in Conns : /\ Unfailed(c) => conn[c].id \in users
                      /\ conn[c].fd # None => conn[c].fd \in users
  /\ CacheOfRegistered

LEMMA CacheStep ==
  ASSUME "lookup" \notin Faults, CacheInv, [Next]_vars
  PROVE  CacheInv'
<1>. USE DEF CacheInv
<1>0. Typed /\ Typed'
  BY TypedStep
<1>1. ASSUME NEW c \in Conns, Others(c), UNCHANGED <<cache, users>>,
             Unfailed(c)' => conn'[c].id \in users,
             conn'[c].fd # None => conn'[c].fd \in users
      PROVE  CacheInv'
  BY <1>0, <1>1 DEF Others, Unfailed, CacheOfRegistered
<1>2. ASSUME NEW c \in Conns, NEW form \in Forms[c], Connect(c, form) PROVE CacheInv'
  BY <1>0, <1>1, <1>2, ConnectEffect DEF Unfailed
<1>3. ASSUME NEW c \in Conns, SkipField(c) \/ NoCacheFile(c) PROVE CacheInv'
  BY <1>0, <1>1, <1>3, SkipEffect
<1>4. ASSUME NEW c \in Conns, IdField(c) PROVE CacheInv'
  BY <1>0, <1>1, <1>4, IdEffect
<1>5. ASSUME NEW c \in Conns, ImageField(c) PROVE CacheInv'
  BY <1>0, <1>5, ImageEffect DEF Others, Unfailed, CacheOfRegistered
<1>6. ASSUME NEW c \in Conns, OpenPublished(c) \/ CopyImage(c) \/ RecordUrl(c)
      PROVE  CacheInv'
  BY <1>0, <1>1, <1>6, MoveEffect DEF Moves, Unfailed
<1>7. ASSUME NEW c \in Conns,
             RefuseUpload(c) \/ CopyFails(c) \/ RecordFails(c) \/ QueryUrl(c)
      PROVE  CacheInv'
  BY <1>0, <1>1, <1>7, AnswerEffect DEF Answers, Unfailed
<1>8. ASSUME NEW c \in Conns, Complete(c) \/ Abort(c) PROVE CacheInv'
  BY <1>0, <1>1, <1>8, EndEffect DEF Closed, Unfailed
<1>9. ASSUME NEW u \in Users, Register(u) PROVE CacheInv'
  BY <1>0, <1>9 DEF Register, files, CacheOfRegistered, Unfailed
<1>10. CASE Restart
  BY <1>0, <1>10 DEF Restart, files, CacheOfRegistered, Unfailed, Closed
<1>11. CASE UNCHANGED vars
  BY <1>0, <1>11 DEF vars, files, CacheOfRegistered, Unfailed
<1>. QED
  BY <1>2, <1>3, <1>4, <1>5, <1>6, <1>7, <1>8, <1>9, <1>10, <1>11
  DEF Next, Publish

\* When every lookup is answered, nothing is ever downloaded to the cache for an
\* id that is not registered, whatever forms the connections send and however
\* their blocks, failures, ends and restarts alternate (avatardb.c).
THEOREM CacheOfRegisteredHolds ==
  ASSUME "lookup" \notin Faults
  PROVE  Spec => []CacheOfRegistered
<1>1. Init => CacheInv
  BY TypedInit DEF Init, CacheInv, CacheOfRegistered, Unfailed, Closed
<1>2. CacheInv /\ [Next]_vars => CacheInv'
  BY CacheStep
<1>3. CacheInv => CacheOfRegistered
  BY DEF CacheInv
<1>. QED
  BY <1>1, <1>2, <1>3, PTL DEF Spec

(***************************************************************************)
(* avatar_query answers only for what update_avatar has recorded, in the   *)
(* same callback.                                                          *)
(***************************************************************************)
RecordInv ==
  /\ Typed
  /\ \A c \in Conns : /\ conn[c].state = "query" => conn[c].id \in recorded
                      /\ conn[c].status = "200" => /\ conn[c].state = "answered"
                                                   /\ conn[c].id \in recorded

LEMMA RecordStep ==
  ASSUME "update" \notin Faults, RecordInv, [Next]_vars
  PROVE  RecordInv'
<1>. USE DEF RecordInv
<1>0. Typed /\ Typed'
  BY TypedStep
<1>1. ASSUME NEW c \in Conns, Others(c), UNCHANGED recorded,
             conn'[c].state = "query" => conn'[c].id \in recorded,
             conn'[c].status = "200" => /\ conn'[c].state = "answered"
                                        /\ conn'[c].id \in recorded
      PROVE  RecordInv'
  BY <1>0, <1>1 DEF Others
<1>2. ASSUME NEW c \in Conns, NEW form \in Forms[c], Connect(c, form) PROVE RecordInv'
  BY <1>0, <1>1, <1>2, ConnectEffect
<1>3. ASSUME NEW c \in Conns, SkipField(c) \/ NoCacheFile(c) PROVE RecordInv'
  BY <1>0, <1>1, <1>3, SkipEffect
<1>4. ASSUME NEW c \in Conns, IdField(c) PROVE RecordInv'
  BY <1>0, <1>1, <1>4, IdEffect
<1>5. ASSUME NEW c \in Conns, ImageField(c) PROVE RecordInv'
  BY <1>0, <1>1, <1>5, ImageEffect
<1>6. ASSUME NEW c \in Conns, OpenPublished(c) \/ CopyImage(c) PROVE RecordInv'
  BY <1>0, <1>1, <1>6, MoveEffect DEF Moves
<1>7. ASSUME NEW c \in Conns, RecordUrl(c) PROVE RecordInv'
  <2>1. recorded' = recorded \cup {conn[c].id}
    BY <1>7 DEF RecordUrl
  <2>. QED
    BY <1>0, <1>7, <2>1, MoveEffect DEF Moves, Others
<1>8. ASSUME NEW c \in Conns, RefuseUpload(c) \/ CopyFails(c) \/ RecordFails(c)
      PROVE  RecordInv'
  BY <1>0, <1>1, <1>8, AnswerEffect DEF Answers
<1>9. ASSUME NEW c \in Conns, QueryUrl(c) PROVE RecordInv'
  BY <1>0, <1>1, <1>9, AnswerEffect DEF Answers
<1>10. ASSUME NEW c \in Conns, Complete(c) \/ Abort(c) PROVE RecordInv'
  BY <1>0, <1>1, <1>10, EndEffect DEF Closed
<1>11. ASSUME NEW u \in Users, Register(u) PROVE RecordInv'
  BY <1>0, <1>11 DEF Register
<1>12. CASE Restart
  BY <1>0, <1>12 DEF Restart, Closed
<1>13. CASE UNCHANGED vars
  BY <1>0, <1>13 DEF vars
<1>. QED
  BY <1>2, <1>3, <1>4, <1>5, <1>6, <1>7, <1>8, <1>9, <1>10, <1>11, <1>12, <1>13
  DEF Next, Publish

\* When no UPDATE fails, an upload answered with success is the user's avatar:
\* the query that replaces the response of update_avatar runs only after a handler
\* that has recorded the URL (avatardb_handle_upload_complete).
THEOREM AnsweredIsRecordedHolds ==
  ASSUME "update" \notin Faults
  PROVE  Spec => []AnsweredIsRecorded
<1>1. Init => RecordInv
  BY TypedInit DEF Init, RecordInv, Closed
<1>2. RecordInv /\ [Next]_vars => RecordInv'
  BY RecordStep
<1>3. RecordInv => AnsweredIsRecorded
  BY DEF RecordInv, AnsweredIsRecorded
<1>. QED
  BY <1>1, <1>2, <1>3, PTL DEF Spec

(***************************************************************************)
(* The open files are counted: one for a connection with a cache file, one *)
(* for the published file while it is copied.                              *)
(***************************************************************************)
Downloading == {c \in Conns : conn[c].fd # None}
Copying == {c \in Conns : conn[c].state = "copy"}

OpenInv ==
  /\ Typed
  /\ \A c \in Conns : conn[c].state \in {"closed", "answered"} => conn[c].fd = None
  /\ DescriptorsOwned

\* Two sets of connections that differ in the one that is served.
LEMMA CountOne ==
  ASSUME NEW S \in SUBSET Conns, NEW T \in SUBSET Conns, NEW c \in Conns,
         S \ {c} = T \ {c}
  PROVE  /\ Cardinality(S) \in Nat /\ Cardinality(T) \in Nat
         /\ Cardinality(T) = Cardinality(S) + (IF c \in T THEN 1 ELSE 0)
                                            - (IF c \in S THEN 1 ELSE 0)
<1>1. ASSUME NEW R \in SUBSET Conns
      PROVE  /\ Cardinality(R) \in Nat /\ Cardinality(R \ {c}) \in Nat
             /\ Cardinality(R) = Cardinality(R \ {c}) + (IF c \in R THEN 1 ELSE 0)
  <2>1. IsFiniteSet(R)
    BY FS_Subset, UploadAssumption
  <2>2. Cardinality(R) \in Nat
    BY <2>1, FS_CardinalityType
  <2>3. CASE c \in R
    <3>1. Cardinality(R \ {c}) = Cardinality(R) - 1 /\ Cardinality(R \ {c}) \in Nat
      BY <2>1, <2>3, FS_RemoveElement, FS_CardinalityType
    <3>. QED
      BY <2>2, <2>3, <3>1
  <2>4. CASE c \notin R
    <3>1. R \ {c} = R
      BY <2>4
    <3>. QED
      BY <2>2, <2>4, <3>1
  <2>. QED
    BY <2>3, <2>4
<1>2. /\ Cardinality(S) \in Nat /\ Cardinality(S \ {c}) \in Nat
      /\ Cardinality(S) = Cardinality(S \ {c}) + (IF c \in S THEN 1 ELSE 0)
  BY <1>1
<1>3. /\ Cardinality(T) \in Nat
      /\ Cardinality(T) = Cardinality(S \ {c}) + (IF c \in T THEN 1 ELSE 0)
  BY <1>1
<1>. QED
  BY <1>2, <1>3

LEMMA CountServed ==
  ASSUME NEW c \in Conns, Others(c)
  PROVE  /\ Cardinality(Downloading') =
              Cardinality(Downloading) + (IF conn'[c].fd = None THEN 0 ELSE 1)
                                       - (IF conn[c].fd = None THEN 0 ELSE 1)
         /\ Cardinality(Copying') =
              Cardinality(Copying) + (IF conn'[c].state = "copy" THEN 1 ELSE 0)
                                   - (IF conn[c].state = "copy" THEN 1 ELSE 0)
<1>1. /\ Downloading \in SUBSET Conns /\ Downloading' \in SUBSET Conns
      /\ Downloading \ {c} = Downloading' \ {c}
      /\ c \in Downloading <=> conn[c].fd # None
      /\ c \in Downloading' <=> conn'[c].fd # None
  BY DEF Downloading, Others
<1>2. /\ Copying \in SUBSET Conns /\ Copying' \in SUBSET Conns
      /\ Copying \ {c} = Copying' \ {c}
      /\ c \in Copying <=> conn[c].state = "copy"
      /\ c \in Copying' <=> conn'[c].state = "copy"
  BY DEF Copying, Others
<1>3. Cardinality(Downloading') =
        Cardinality(Downloading) + (IF c \in Downloading' THEN 1 ELSE 0)
                                 - (IF c \in Downloading THEN 1 ELSE 0)
  BY <1>1, CountOne
<1>4. Cardinality(Copying') =
        Cardinality(Copying) + (IF c \in Copying' THEN 1 ELSE 0)
                             - (IF c \in Copying THEN 1 ELSE 0)
  BY <1>2, CountOne
<1>. QED
  BY <1>1, <1>2, <1>3, <1>4

\* What remains to be shown of a step that serves c.
LEMMA CountStep ==
  ASSUME OpenInv, Typed', NEW c \in Conns, Others(c),
         conn'[c].state \in {"closed", "answered"} => conn'[c].fd = None,
         open' = open + (IF conn'[c].fd = None THEN 0 ELSE 1)
                      - (IF conn[c].fd = None THEN 0 ELSE 1)
                      + (IF conn'[c].state = "copy" THEN 1 ELSE 0)
                      - (IF conn[c].state = "copy" THEN 1 ELSE 0)
  PROVE  OpenInv'
<1>1. Cardinality(Downloading) \in Nat /\ Cardinality(Copying) \in Nat
  <2>1. Downloading \in SUBSET Conns /\ Copying \in SUBSET Conns
    BY DEF Downloading, Copying
  <2>. QED
    BY <2>1, FS_Subset, FS_CardinalityType, UploadAssumption
<1>2. open = Cardinality(Downloading) + Cardinality(Copying)
  BY DEF OpenInv, DescriptorsOwned, Downloading, Copying
<1>3. open' = Cardinality(Downloading') + Cardinality(Copying')
  BY <1>1, <1>2, CountServed
<1>4. DescriptorsOwned'
  BY <1>3 DEF DescriptorsOwned, Downloading, Copying
<1>. QED
  BY <1>4 DEF OpenInv, Others

LEMMA OpenStep ==
  ASSUME "abort" \notin Faults, OpenInv, [Next]_vars
  PROVE  OpenInv'
<1>0. Typed /\ Typed' /\ open \in Int
  <2>1. Cardinality(Downloading) \in Nat /\ Cardinality(Copying) \in Nat
    <3>1. Downloading \in SUBSET Conns /\ Copying \in SUBSET Conns
      BY DEF Downloading, Copying
    <3>. QED
      BY <3>1, FS_Subset, FS_CardinalityType, UploadAssumption
  <2>. QED
    BY <2>1, TypedStep DEF OpenInv, DescriptorsOwned, Downloading, Copying
<1>2. ASSUME NEW c \in Conns, NEW form \in Forms[c], Connect(c, form) PROVE OpenInv'
  BY <1>0, <1>2, CountStep, ConnectEffect DEF OpenInv
<1>3. ASSUME NEW c \in Conns, SkipField(c) \/ NoCacheFile(c) PROVE OpenInv'
  BY <1>0, <1>3, CountStep, SkipEffect
<1>4. ASSUME NEW c \in Conns, IdField(c) PROVE OpenInv'
  BY <1>0, <1>4, CountStep, IdEffect
<1>5. ASSUME NEW c \in Conns, ImageField(c) PROVE OpenInv'
  BY <1>0, <1>5, CountStep, ImageEffect, UploadAssumption
<1>6. ASSUME NEW c \in Conns, OpenPublished(c) PROVE OpenInv'
  BY <1>0, <1>6, CountStep, MoveEffect DEF Moves
<1>7. ASSUME NEW c \in Conns, CopyImage(c) PROVE OpenInv'
  BY <1>0, <1>7, CountStep, MoveEffect DEF Moves
<1>8. ASSUME NEW c \in Conns, RecordUrl(c) PROVE OpenInv'
  BY <1>0, <1>8, CountStep, MoveEffect DEF Moves
<1>9. ASSUME NEW c \in Conns, RefuseUpload(c) \/ RecordFails(c) \/ QueryUrl(c)
      PROVE  OpenInv'
  BY <1>0, <1>9, CountStep, AnswerEffect DEF Answers, Closes
<1>10. ASSUME NEW c \in Conns, CopyFails(c) PROVE OpenInv'
  BY <1>0, <1>10, CountStep, AnswerEffect DEF Answers, Closes
<1>11. ASSUME NEW c \in Conns, Complete(c) \/ Abort(c) PROVE OpenInv'
  BY <1>0, <1>11, CountStep, EndEffect DEF Closed, OpenInv
<1>12. ASSUME NEW u \in Users, Register(u) PROVE OpenInv'
  BY <1>0, <1>12 DEF OpenInv, Register, DescriptorsOwned
<1>13. CASE Restart
  <2>1. Downloading' = {} /\ Copying' = {}
    BY <1>13 DEF Restart, Closed, Downloading, Copying
  <2>2. DescriptorsOwned'
    BY <1>13, <2>1, FS_EmptySet DEF Restart, DescriptorsOwned, Downloading, Copying
  <2>. QED
    BY <1>0, <1>13, <2>2 DEF OpenInv, Restart, Closed
<1>14. CASE UNCHANGED vars
  BY <1>0, <1>14 DEF OpenInv, vars, DescriptorsOwned
<1>. QED
  BY <1>2, <1>3, <1>4, <1>5, <1>6, <1>7, <1>8, <1>9, <1>10, <1>11, <1>12, <1>13, <1>14
  DEF Next, Publish

\* As long as no client goes away before it is answered, the descriptors in use are
\* those of the uploads that are being served: no end of an upload, no failed block
\* or copy and no crash leaves one behind (avatardb_handle_upload_cleanup).
THEOREM DescriptorsOwnedHolds ==
  ASSUME "abort" \notin Faults
  PROVE  Spec => []DescriptorsOwned
<1>1. Init => OpenInv
  <2>. SUFFICES ASSUME Init PROVE OpenInv
    OBVIOUS
  <2>1. Downloading = {} /\ Copying = {}
    BY DEF Init, Closed, Downloading, Copying
  <2>2. DescriptorsOwned
    BY <2>1, FS_EmptySet DEF Init, DescriptorsOwned, Downloading, Copying
  <2>. QED
    BY <2>2, TypedInit DEF Init, OpenInv, Closed
<1>2. OpenInv /\ [Next]_vars => OpenInv'
  BY OpenStep
<1>3. OpenInv => DescriptorsOwned
  BY DEF OpenInv
<1>. QED
  BY <1>1, <1>2, <1>3, PTL DEF Spec

(***************************************************************************)
(* The files: each is missing or made of blocks of the forms, and no more  *)
(* of them are open than the process may have.                             *)
(***************************************************************************)
AFile(file) == file = None \/ file \in Seq(Blocks)

FilesInv ==
  /\ Typed
  /\ DOMAIN published = Ids
  /\ \A u \in Ids : AFile(cache[u]) /\ AFile(published[u])
  /\ \A c \in Conns : conn[c].fd # None => cache[conn[c].fd] # None

OpenBound ==
  /\ open \in Int /\ open <= Descriptors
  /\ open >= Cardinality(Downloading) + Cardinality(Copying)

LEMMA MaxOfTwo ==
  ASSUME NEW a \in Int, NEW b \in Int
  PROVE  Max({a, b}) = IF a >= b THEN a ELSE b
<1>1. \A y \in {a, b} : (IF a >= b THEN a ELSE b) >= y
  OBVIOUS
<1>. QED
  BY <1>1 DEF Max

\* Writing a block leaves a file of blocks, one longer when it is the next one.
LEMMA BlockWritten ==
  ASSUME NEW file \in Seq(Blocks), NEW off \in Nat, NEW block \in Blocks
  PROVE  /\ WriteAt(file, off, block) \in Seq(Blocks)
         /\ Len(file) = off => WriteAt(file, off, block) =
              [i \in 1..(off + 1) |-> IF i = off + 1 THEN block ELSE file[i]]
<1>. DEFINE m == Max({Len(file), off + 1})
<1>1. Len(file) \in Nat /\ \A i \in 1..Len(file) : file[i] \in Blocks
  OBVIOUS
<1>2. m = IF Len(file) >= off + 1 THEN Len(file) ELSE off + 1
  BY <1>1, MaxOfTwo
<1>3. m \in Nat /\ (Len(file) = off => m = off + 1)
  BY <1>1, <1>2
<1>4. WriteAt(file, off, block) =
        [i \in 1..m |->
           IF i = off + 1 THEN block ELSE IF i <= Len(file) THEN file[i] ELSE Hole]
  BY DEF WriteAt
<1>5. Hole \in Blocks
  BY DEF Blocks
<1>. HIDE DEF m
<1>6. \A i \in 1..m : (IF i = off + 1 THEN block
                         ELSE IF i <= Len(file) THEN file[i] ELSE Hole) \in Blocks
  BY <1>1, <1>3, <1>5
<1>7. WriteAt(file, off, block) \in Seq(Blocks)
  BY <1>3, <1>4, <1>6
<1>8. ASSUME Len(file) = off
      PROVE  WriteAt(file, off, block) =
               [i \in 1..(off + 1) |-> IF i = off + 1 THEN block ELSE file[i]]
  BY <1>3, <1>4, <1>8
<1>. QED
  BY <1>7, <1>8

LEMMA BlockAppended ==
  ASSUME NEW file \in Seq(Blocks), NEW block \in Blocks, NEW off, Len(file) = off
  PROVE  /\ WriteAt(file, off, block) \in [1..(off + 1) -> Blocks]
         /\ WriteAt(file, off, block)[off + 1] = block
         /\ \A i \in 1..off : WriteAt(file, off, block)[i] = file[i]
<1>1. off \in Nat
  OBVIOUS
<1>2. WriteAt(file, off, block) =
        [i \in 1..(off + 1) |-> IF i = off + 1 THEN block ELSE file[i]]
  BY <1>1, BlockWritten
<1>3. \A i \in 1..(off + 1) : (IF i = off + 1 THEN block ELSE file[i]) \in Blocks
  BY <1>1
<1>. QED
  BY <1>1, <1>2, <1>3

LEMMA BlockTyped ==
  ASSUME Typed, NEW c \in Conns, conn[c].state # "closed", HasField(c),
         Field(c).key = "image"
  PROVE  Field(c).off \in Nat /\ Field(c).block \in Blocks
<1>1. conn[c].form \in Forms[c] /\ conn[c].next \in DOMAIN conn[c].form
  BY FieldTyped DEF HasField
<1>2. Field(c).off \in Nat
  BY <1>1, UploadAssumption DEF Field
<1>3. Field(c) \in Fields
  BY <1>1 DEF Field, Fields, ToSet
<1>. QED
  BY <1>2, <1>3 DEF Blocks

LEMMA FilesStep ==
  ASSUME FilesInv, [Next]_vars
  PROVE  FilesInv'
<1>0. Typed /\ Typed'
  BY TypedStep DEF FilesInv
<1>1. ASSUME UNCHANGED files,
             \A c \in Conns : conn'[c].fd \in {None, conn[c].fd}
      PROVE  FilesInv'
  BY <1>0, <1>1 DEF FilesInv, files, AFile
<1>2. ASSUME NEW c \in Conns, NEW form \in Forms[c], Connect(c, form) PROVE FilesInv'
  BY <1>0, <1>1, <1>2, ConnectEffect DEF Others, Connect
<1>3. ASSUME NEW c \in Conns, SkipField(c) \/ NoCacheFile(c) PROVE FilesInv'
  BY <1>0, <1>1, <1>3, SkipEffect DEF Others, SkipField, NoCacheFile
<1>4. ASSUME NEW c \in Conns, IdField(c) PROVE FilesInv'
  BY <1>0, <1>1, <1>4, IdEffect DEF Others, IdField
<1>5. ASSUME NEW c \in Conns, ImageField(c) PROVE FilesInv'
  <2>. DEFINE u == IF conn[c].fd = None THEN conn[c].id ELSE conn[c].fd
              file == IF conn[c].fd = None THEN Truncated ELSE cache[u]
  <2>1. u \in Ids /\ conn'[c].fd = u /\ Others(c)
    BY <1>0, <1>5, ImageEffect
  <2>2. file \in Seq(Blocks)
    <3>1. CASE conn[c].fd = None
      BY <3>1 DEF Truncated
    <3>2. CASE conn[c].fd # None
      BY <2>1, <3>2 DEF FilesInv, AFile
    <3>. QED
      BY <3>1, <3>2
  <2>3. Field(c).off \in Nat /\ Field(c).block \in Blocks
    BY <1>0, <1>5, BlockTyped DEF ImageField, Receiving
  <2>4. WriteAt(file, Field(c).off, Field(c).block) \in Seq(Blocks)
    BY <2>2, <2>3, BlockWritten
  <2>5. \E new \in Seq(Blocks) : cache' = [cache EXCEPT ![u] = new]
    BY <1>5, <2>2, <2>4 DEF ImageField
  <2>6. UNCHANGED published
    BY <1>5 DEF ImageField
  <2>. HIDE DEF u, file
  <2>7. PICK new \in Seq(Blocks) : cache' = [cache EXCEPT ![u] = new]
    BY <2>5
  <2>8. new # None
    BY NoneIsNoFile
  <2>9. \A w \in Ids : cache'[w] = IF w = u THEN new ELSE cache[w]
    BY <1>0, <2>1, <2>7 DEF Typed
  <2>10. \A d \in Conns : conn'[d].fd # None => conn'[d].fd \in Ids
    BY <1>0 DEF Typed, Cxn
  <2>. QED
    BY <1>0, <2>1, <2>6, <2>8, <2>9, <2>10 DEF FilesInv, AFile, Others
<1>6. ASSUME NEW c \in Conns, OpenPublished(c) \/ CopyImage(c) \/ RecordUrl(c)
      PROVE  FilesInv'
  <2>1. Others(c) /\ conn'[c].fd = conn[c].fd /\ UNCHANGED cache
    BY <1>0, <1>6, MoveEffect DEF Moves
  <2>2. ASSUME NEW new, AFile(new), published' = [published EXCEPT ![conn[c].id] = new]
        PROVE  FilesInv'
    BY <1>0, <2>1, <2>2 DEF FilesInv, AFile, Others
  <2>3. CASE OpenPublished(c)
    <3>1. AFile(Truncated)
      BY DEF AFile, Truncated
    <3>. QED
      BY <2>2, <2>3, <3>1 DEF OpenPublished
  <2>4. CASE CopyImage(c)
    <3>1. conn[c].fd \in Ids
      BY <1>0, <2>4 DEF CopyImage, Typed, Cxn
    <3>2. AFile(cache[conn[c].fd])
      BY <3>1 DEF FilesInv
    <3>. QED
      BY <2>2, <2>4, <3>2 DEF CopyImage
  <2>5. CASE RecordUrl(c)
    BY <1>1, <2>1, <2>5 DEF RecordUrl, Others, files
  <2>. QED
    BY <1>6, <2>3, <2>4, <2>5
<1>7. ASSUME NEW c \in Conns, RefuseUpload(c) \/ RecordFails(c) \/ QueryUrl(c)
      PROVE  FilesInv'
  BY <1>0, <1>1, <1>7, AnswerEffect
  DEF Answers, Others, RefuseUpload, RecordFails, QueryUrl
<1>8. ASSUME NEW c \in Conns, CopyFails(c) PROVE FilesInv'
  <2>1. Others(c) /\ conn'[c].fd = None /\ UNCHANGED cache
    BY <1>0, <1>8, AnswerEffect DEF Answers
  <2>2. ASSUME conn[c].fd # None, NEW n \in 0..Len(cache[conn[c].fd]),
               published' = [published EXCEPT ![conn[c].id] =
                               SubSeq(cache[conn[c].fd], 1, n)]
        PROVE  FilesInv'
    <3>1. conn[c].fd \in Ids
      BY <1>0, <2>2 DEF Typed, Cxn
    <3>2. cache[conn[c].fd] \in Seq(Blocks)
      BY <2>2, <3>1 DEF FilesInv, AFile
    <3>3. AFile(SubSeq(cache[conn[c].fd], 1, n))
      BY <3>2 DEF AFile
    <3>. QED
      BY <1>0, <2>1, <2>2, <3>3 DEF FilesInv, AFile, Others
  <2>. QED
    BY <1>1, <1>8, <2>1, <2>2 DEF CopyFails, Others, files
<1>9. ASSUME NEW c \in Conns, Complete(c) \/ Abort(c) PROVE FilesInv'
  BY <1>0, <1>1, <1>9, EndEffect DEF Others, Complete, Abort, Closed
<1>10. ASSUME NEW u \in Users, Register(u) PROVE FilesInv'
  BY <1>1, <1>10 DEF Register
<1>11. CASE Restart
  BY <1>1, <1>11 DEF Restart, Closed
<1>12. CASE UNCHANGED vars
  BY <1>1, <1>12 DEF vars
<1>. QED
  BY <1>2, <1>3, <1>4, <1>5, <1>6, <1>7, <1>8, <1>9, <1>10, <1>11, <1>12
  DEF Next, Publish

\* What remains to be shown of the open files when a step serves c; a client
\* that goes away leaves more of them open than are counted.
LEMMA BoundStep ==
  ASSUME OpenBound, NEW c \in Conns, Others(c),
         open' \in Int, open' <= Descriptors,
         open' >= open + (IF conn'[c].fd = None THEN 0 ELSE 1)
                       - (IF conn[c].fd = None THEN 0 ELSE 1)
                       + (IF conn'[c].state = "copy" THEN 1 ELSE 0)
                       - (IF conn[c].state = "copy" THEN 1 ELSE 0)
  PROVE  OpenBound'
<1>1. /\ Cardinality(Downloading) \in Nat /\ Cardinality(Copying) \in Nat
      /\ Cardinality(Downloading') \in Nat /\ Cardinality(Copying') \in Nat
  <2>1. /\ Downloading \in SUBSET Conns /\ Copying \in SUBSET Conns
        /\ Downloading' \in SUBSET Conns /\ Copying' \in SUBSET Conns
    BY DEF Downloading, Copying
  <2>. QED
    BY <2>1, FS_Subset, FS_CardinalityType, UploadAssumption
<1>2. open >= Cardinality(Downloading) + Cardinality(Copying)
  BY DEF OpenBound
<1>3. open' >= Cardinality(Downloading') + Cardinality(Copying')
  BY <1>1, <1>2, CountServed DEF OpenBound
<1>. QED
  BY <1>3 DEF OpenBound

LEMMA OpenBoundStep ==
  ASSUME Typed, OpenBound, [Next]_vars
  PROVE  OpenBound'
<1>0. /\ Typed' /\ open \in Int /\ open <= Descriptors /\ Descriptors \in Nat
  BY TypedStep, UploadAssumption DEF OpenBound
<1>1. ASSUME UNCHANGED <<conn, open>> PROVE OpenBound'
  BY <1>1 DEF OpenBound, Downloading, Copying
<1>2. ASSUME NEW c \in Conns, NEW form \in Forms[c], Connect(c, form) PROVE OpenBound'
  BY <1>0, <1>2, BoundStep, ConnectEffect
<1>3. ASSUME NEW c \in Conns, SkipField(c) \/ NoCacheFile(c) PROVE OpenBound'
  BY <1>0, <1>3, BoundStep, SkipEffect
<1>4. ASSUME NEW c \in Conns, IdField(c) PROVE OpenBound'
  BY <1>0, <1>4, BoundStep, IdEffect
<1>5. ASSUME NEW c \in Conns, ImageField(c) PROVE OpenBound'
  <2>1. /\ Others(c) /\ conn'[c].fd # None
        /\ conn[c].state = "receiving" /\ conn'[c].state = "receiving"
        /\ open' = IF conn[c].fd = None THEN open + 1 ELSE open
    BY <1>5, ImageEffect, UploadAssumption
  <2>2. conn[c].fd = None => open + 1 <= Descriptors
    BY <1>0, <1>5 DEF ImageField, CanOpen
  <2>. QED
    BY <1>0, <2>1, <2>2, BoundStep
<1>6. ASSUME NEW c \in Conns, OpenPublished(c) PROVE OpenBound'
  <2>1. open + 1 <= Descriptors
    BY <1>0, <1>6 DEF OpenPublished, CanOpen
  <2>. QED
    BY <1>0, <1>6, <2>1, BoundStep, MoveEffect DEF Moves
<1>7. ASSUME NEW c \in Conns, CopyImage(c) PROVE OpenBound'
  BY <1>0, <1>7, BoundStep, MoveEffect DEF Moves
<1>8. ASSUME NEW c \in Conns, RecordUrl(c) PROVE OpenBound'
  BY <1>0, <1>8, BoundStep, MoveEffect DEF Moves
<1>9. ASSUME NEW c \in Conns, RefuseUpload(c) \/ RecordFails(c) \/ QueryUrl(c)
      PROVE  OpenBound'
  BY <1>0, <1>9, BoundStep, AnswerEffect DEF Answers, Closes
<1>10. ASSUME NEW c \in Conns, CopyFails(c) PROVE OpenBound'
  BY <1>0, <1>10, BoundStep, AnswerEffect DEF Answers, Closes
<1>11. ASSUME NEW c \in Conns, Complete(c) \/ Abort(c) PROVE OpenBound'
  BY <1>0, <1>11, BoundStep, EndEffect DEF Closed
<1>12. ASSUME NEW u \in Users, Register(u) PROVE OpenBound'
  BY <1>1, <1>12 DEF Register
<1>13. CASE Restart
  <2>1. Downloading' = {} /\ Copying' = {} /\ open' = 0
    BY <1>13 DEF Restart, Closed, Downloading, Copying
  <2>. QED
    BY <1>0, <2>1, FS_EmptySet DEF OpenBound
<1>14. CASE UNCHANGED vars
  BY <1>1, <1>14 DEF vars
<1>. QED
  BY <1>2, <1>3, <1>4, <1>5, <1>6, <1>7, <1>8, <1>9, <1>10, <1>11, <1>12, <1>13, <1>14
  DEF Next, Publish

\* Nobody leaves, and only who is registered has an avatar recorded.
UsersInv == users \subseteq Users /\ recorded \subseteq users

LEMMA UsersStep == UsersInv /\ [Next]_vars => UsersInv'
  BY DEF UsersInv, Next, vars, Connect, SkipField, IdField, ImageField, NoCacheFile,
         Publish, RefuseUpload, OpenPublished, CopyImage, CopyFails, RecordUrl,
         RecordFails, QueryUrl, Complete, Abort, Register, Restart

LEMMA InitialFiles == Init => FilesInv /\ OpenBound /\ UsersInv
<1>. SUFFICES ASSUME Init PROVE FilesInv /\ OpenBound /\ UsersInv
  OBVIOUS
<1>1. FilesInv
  BY TypedInit DEF Init, FilesInv, AFile, Closed
<1>2. Downloading = {} /\ Copying = {}
  BY DEF Init, Closed, Downloading, Copying
<1>3. OpenBound
  BY <1>2, FS_EmptySet, UploadAssumption DEF Init, OpenBound
<1>. QED
  BY <1>1, <1>3 DEF Init, UsersInv

LEMMA FilesTyped ==
  ASSUME FilesInv, OpenBound, UsersInv
  PROVE  TypeOK
<1>1. \A c \in Conns :
        /\ conn[c].state \in {"closed", "receiving", "copy", "record", "query",
                              "answered"}
        /\ conn[c].state # "closed" => conn[c].form \in Forms[c]
        /\ conn[c].id \in Ids \cup {None}
        /\ conn[c].valid => conn[c].id # None
        /\ conn[c].fd # None => cache[conn[c].fd] # None
        /\ conn[c].status \in {"none", "200", "404"}
  BY UploadAssumption DEF FilesInv, Typed, Cxn
<1>2. ASSUME NEW file, AFile(file) PROVE IsFile(file)
  BY <1>2 DEF AFile, IsFile, ToSet
<1>3. \A u \in Ids : IsFile(cache[u]) /\ IsFile(published[u])
  BY <1>2 DEF FilesInv
<1>4. open \in 0..Descriptors
  <2>1. Cardinality(Downloading) \in Nat /\ Cardinality(Copying) \in Nat
    <3>1. Downloading \in SUBSET Conns /\ Copying \in SUBSET Conns
      BY DEF Downloading, Copying
    <3>. QED
      BY <3>1, FS_Subset, FS_CardinalityType, UploadAssumption
  <2>. QED
    BY <2>1, UploadAssumption DEF OpenBound
<1>. QED
  BY <1>1, <1>3, <1>4 DEF TypeOK, UsersInv

\* Whatever clients send, whoever goes away and whatever fails, no more files are
\* ever open than the process may have, and every cache file in use exists.
THEOREM UploadTypeCorrect == Spec => []TypeOK
<1>1. FilesInv /\ OpenBound /\ UsersInv /\ [Next]_vars
        => (FilesInv /\ OpenBound /\ UsersInv)'
  BY FilesStep, OpenBoundStep, UsersStep DEF FilesInv
<1>. QED
  BY <1>1, InitialFiles, FilesTyped, PTL DEF Spec

(***************************************************************************)
(* Forms as they are sent: one id and one image, each in as many parts as  *)
(* the library makes of it.                                                *)
(***************************************************************************)
InTurn(form) ==
  \A i, j, k \in DOMAIN form :
    i < j /\ j < k /\ form[i].key = form[k].key => form[j].key = form[i].key

\* k parts of an id and then the image
Split(form, k) ==
  \A i \in DOMAIN form : form[i].key = IF i <= k THEN "id" ELSE "image"

\* Where the upload stands in its form: a file is open once a part of the image
\* has come after an id that is registered, and then no field has failed.
InPlace(x) ==
  /\ x.next \in 1..(Len(x.form) + 1)
  /\ x.broken => x.fd = None
  /\ x.state = "receiving" /\ x.valid /\ ~x.broken /\ x.fd = None =>
       x.next > 1 /\ x.form[x.next - 1].key = "id"
  /\ x.fd # None => /\ x.fd = x.id /\ x.valid
                    /\ \E k \in 1..(x.next - 2) : Split(x.form, k)
  /\ x.state \in {"copy", "record", "query"} =>
       x.next \notin DOMAIN x.form /\ x.valid
  /\ x.state \in {"record", "query"} => x.fd # None
  /\ x.status = "200" => x.state = "answered" /\ x.valid /\ ~x.broken

PlaceInv == Typed /\ \A c \in Conns : InPlace(conn[c])

\* A part of the image right after a part of the id: all of the id is before.
LEMMA SplitHere ==
  ASSUME NEW c \in Conns, NEW form \in Forms[c], InTurn(form),
         NEW n \in DOMAIN form, n > 1, form[n].key = "image", form[n - 1].key = "id"
  PROVE  Split(form, n - 1)
<1>1. /\ Len(form) \in Nat /\ DOMAIN form = 1..Len(form)
      /\ \A i \in DOMAIN form : form[i].key \in {"id", "image"}
  BY UploadAssumption
<1>2. n \in Int /\ n - 1 \in DOMAIN form
  BY <1>1
<1>. SUFFICES ASSUME NEW i \in DOMAIN form
             PROVE  form[i].key = IF i <= n - 1 THEN "id" ELSE "image"
  BY DEF Split
<1>3. i \in Int
  BY <1>1
<1>4. ASSUME i < n - 1, form[i].key = "image" PROVE FALSE
  BY <1>2, <1>3, <1>4 DEF InTurn
<1>5. ASSUME i > n, form[i].key = "id" PROVE FALSE
  BY <1>2, <1>3, <1>5 DEF InTurn
<1>. QED
  BY <1>1, <1>2, <1>3, <1>4, <1>5

\* A field is read, and it is the next one.
LEMMA FieldEffect ==
  ASSUME Typed, NEW c \in Conns,
         SkipField(c) \/ IdField(c) \/ ImageField(c) \/ NoCacheFile(c)
  PROVE  /\ conn[c].next \in DOMAIN conn[c].form /\ conn[c].form \in Forms[c]
         /\ conn'[c].form = conn[c].form /\ conn'[c].next = conn[c].next + 1
<1>1. conn \in [Conns -> Cxn] /\ conn[c] \in Cxn
  BY DEF Typed
<1>2. ASSUME NEW cxn, conn' = [conn EXCEPT ![c] = cxn],
             cxn.form = conn[c].form, cxn.next = conn[c].next + 1
      PROVE  conn'[c].form = conn[c].form /\ conn'[c].next = conn[c].next + 1
  BY <1>1, <1>2
<1>3. conn'[c].form = conn[c].form /\ conn'[c].next = conn[c].next + 1
  <2>1. CASE SkipField(c)
    BY <1>1, <2>1 DEF SkipField, Cxn
  <2>2. CASE IdField(c)
    <3>1. PICK found \in BOOLEAN :
            conn' = [conn EXCEPT ![c] = [conn[c] EXCEPT !.next = conn[c].next + 1,
                                           !.id = Field(c).id,
                                           !.valid = conn[c].valid \/ found,
                                           !.broken = ~found]]
      BY <2>2, Zenon DEF IdField
    <3>. DEFINE cxn == [conn[c] EXCEPT !.next = conn[c].next + 1, !.id = Field(c).id,
                                       !.valid = conn[c].valid \/ found,
                                       !.broken = ~found]
    <3>2. cxn.form = conn[c].form /\ cxn.next = conn[c].next + 1
      BY <1>1 DEF Cxn
    <3>3. conn' = [conn EXCEPT ![c] = cxn]
      BY <3>1
    <3>. HIDE DEF cxn
    <3>. QED
      BY <1>2, <3>2, <3>3
  <2>3. CASE ImageField(c)
    <3>. DEFINE u == IF conn[c].fd = None THEN conn[c].id ELSE conn[c].fd
                read == [conn[c] EXCEPT !.next = conn[c].next + 1, !.fd = u]
                failed == [conn[c] EXCEPT !.next = conn[c].next + 1, !.fd = u,
                                          !.broken = TRUE]
    <3>1. read.form = conn[c].form /\ read.next = conn[c].next + 1
      BY <1>1 DEF Cxn
    <3>2. failed.form = conn[c].form /\ failed.next = conn[c].next + 1
      BY <1>1 DEF Cxn
    <3>3. conn' = [conn EXCEPT ![c] = read] \/ conn' = [conn EXCEPT ![c] = failed]
      BY <2>3 DEF ImageField
    <3>. HIDE DEF read, failed
    <3>. QED
      BY <1>2, <3>1, <3>2, <3>3
  <2>4. CASE NoCacheFile(c)
    <3>. DEFINE cxn == [conn[c] EXCEPT !.next = conn[c].next + 1, !.broken = TRUE]
    <3>1. cxn.form = conn[c].form /\ cxn.next = conn[c].next + 1
      BY <1>1 DEF Cxn
    <3>2. conn' = [conn EXCEPT ![c] = cxn]
      BY <2>4 DEF NoCacheFile
    <3>. HIDE DEF cxn
    <3>. QED
      BY <1>2, <3>1, <3>2
  <2>. QED
    BY <2>1, <2>2, <2>3, <2>4
<1>. QED
  BY <1>1, <1>3 DEF SkipField, IdField, ImageField, NoCacheFile, Receiving, HasField,
                    Typed

\* A skipped field changes nothing else; a block that is written neither.
LEMMA SkippedPlace ==
  ASSUME Typed, NEW c \in Conns, SkipField(c)
  PROVE  /\ conn'[c].broken = conn[c].broken /\ conn'[c].valid = conn[c].valid
         /\ conn[c].broken \/ (Field(c).key = "image" /\ ~conn[c].valid)
<1>1. conn \in [Conns -> Cxn] /\ conn[c] \in Cxn
  BY DEF Typed
<1>. QED
  BY <1>1 DEF SkipField, Cxn

LEMMA ImagePlace ==
  ASSUME "block" \notin Faults, Typed, NEW c \in Conns, ImageField(c)
  PROVE  /\ conn[c].valid /\ ~conn[c].broken /\ conn'[c].valid /\ ~conn'[c].broken
         /\ Field(c).key = "image"
         /\ \E u \in Ids :
              /\ u = IF conn[c].fd = None THEN conn[c].id ELSE conn[c].fd
              /\ cache' = [cache EXCEPT ![u] =
                             WriteAt(IF conn[c].fd = None THEN Truncated ELSE cache[u],
                                     Field(c).off, Field(c).block)]
         /\ UNCHANGED published
<1>. DEFINE u == IF conn[c].fd = None THEN conn[c].id ELSE conn[c].fd
            read == [conn[c] EXCEPT !.next = conn[c].next + 1, !.fd = u]
<1>1. conn \in [Conns -> Cxn] /\ conn[c] \in Cxn
  BY DEF Typed
<1>2. read.valid = conn[c].valid /\ read.broken = conn[c].broken
  BY <1>1 DEF Cxn
<1>3. conn' = [conn EXCEPT ![c] = read] /\ conn[c].valid /\ ~conn[c].broken
      /\ Field(c).key = "image" /\ UNCHANGED published
  BY DEF ImageField
<1>4. cache' = [cache EXCEPT ![u] =
                  WriteAt(IF conn[c].fd = None THEN Truncated ELSE cache[u],
                          Field(c).off, Field(c).block)]
  BY DEF ImageField
<1>5. u \in Ids
  BY <1>1 DEF ImageField, Typed, Cxn
<1>. HIDE DEF read, u
<1>6. conn'[c].valid /\ ~conn'[c].broken
  BY <1>1, <1>2, <1>3
<1>7. u = IF conn[c].fd = None THEN conn[c].id ELSE conn[c].fd
  BY DEF u
<1>. QED
  BY <1>3, <1>4, <1>5, <1>6, <1>7

LEMMA ReadInPlace ==
  ASSUME "block" \notin Faults, PlaceInv, NEW c \in Conns, InTurn(conn[c].form),
         SkipField(c) \/ IdField(c) \/ ImageField(c) \/ NoCacheFile(c)
  PROVE  InPlace(conn'[c])
<1>0. Typed /\ InPlace(conn[c])
  BY DEF PlaceInv
<1>. DEFINE x == conn[c]
            y == conn'[c]
<1>1. /\ x.next \in DOMAIN x.form /\ x.form \in Forms[c]
      /\ y.form = x.form /\ y.next = x.next + 1
  BY <1>0, FieldEffect
<1>2. /\ Len(x.form) \in Nat /\ DOMAIN x.form = 1..Len(x.form)
      /\ \A i \in DOMAIN x.form : x.form[i].key \in {"id", "image"}
  BY <1>1, UploadAssumption
<1>3. x.next \in Int /\ x.next >= 1 /\ x.next <= Len(x.form)
      /\ y.next \in 1..(Len(y.form) + 1) /\ y.next - 1 = x.next
  BY <1>1, <1>2
<1>4. /\ x.state = "receiving" /\ y.state = "receiving" /\ y.status = x.status
      /\ x.status # "200"
  <2>1. x.state = "receiving" /\ y.state = "receiving" /\ y.status = x.status
    BY <1>0, SkipEffect, IdEffect, ImageEffect
  <2>. QED
    BY <1>0, <2>1 DEF InPlace
<1>5. CASE SkipField(c)
  <2>1. /\ y.broken = x.broken /\ y.valid = x.valid /\ y.fd = x.fd /\ y.id = x.id
        /\ x.broken \/ ~x.valid
    BY <1>0, <1>5, SkipEffect, SkippedPlace
  <2>2. x.fd = None
    BY <1>0, <2>1 DEF InPlace
  <2>. HIDE DEF x, y
  <2>9. InPlace(y)
    BY <1>3, <1>4, <2>1, <2>2 DEF InPlace
  <2>. QED
    BY <2>9 DEF y
<1>6. CASE NoCacheFile(c)
  <2>1. y.broken /\ y.fd = None
    BY <1>0, <1>6, SkipEffect DEF NoCacheFile, Typed, Cxn
  <2>. HIDE DEF x, y
  <2>9. InPlace(y)
    BY <1>3, <1>4, <2>1 DEF InPlace
  <2>. QED
    BY <2>9 DEF y
<1>7. CASE IdField(c)
  <2>1. x.form[x.next].key = "id" /\ y.fd = x.fd
    BY <1>0, <1>7, IdEffect DEF IdField, Field
  <2>2. x.fd = None
    <3>1. SUFFICES ASSUME x.fd # None PROVE FALSE
      OBVIOUS
    <3>2. PICK k \in 1..(x.next - 2) : Split(x.form, k)
      BY <1>0, <3>1 DEF InPlace
    <3>. QED
      BY <1>1, <1>3, <2>1, <3>2 DEF Split
  <2>3. y.next > 1 /\ y.form[y.next - 1].key = "id"
    BY <1>1, <1>3, <2>1
  <2>. HIDE DEF x, y
  <2>9. InPlace(y)
    BY <1>3, <1>4, <2>1, <2>2, <2>3 DEF InPlace
  <2>. QED
    BY <2>9 DEF y
<1>8. CASE ImageField(c)
  <2>1. /\ x.valid /\ ~x.broken /\ y.valid /\ ~y.broken /\ y.id = x.id
        /\ y.fd = (IF x.fd = None THEN x.id ELSE x.fd) /\ y.fd \in Ids
        /\ x.form[x.next].key = "image"
    BY <1>0, <1>8, ImageEffect, ImagePlace DEF Field
  <2>2. y.fd = y.id /\ y.fd # None
    BY <1>0, <2>1, UploadAssumption DEF InPlace
  <2>3. \E k \in 1..(y.next - 2) : Split(y.form, k)
    <3>1. CASE x.fd = None
      <4>1. x.next > 1 /\ x.form[x.next - 1].key = "id"
        BY <1>0, <1>4, <2>1, <3>1 DEF InPlace
      <4>2. Split(x.form, x.next - 1)
        BY <1>1, <2>1, <4>1, SplitHere
      <4>. QED
        BY <1>1, <1>3, <4>1, <4>2
    <3>2. CASE x.fd # None
      <4>1. PICK k \in 1..(x.next - 2) : Split(x.form, k)
        BY <1>0, <3>2 DEF InPlace
      <4>2. k \in 1..(y.next - 2)
        BY <1>1, <1>3
      <4>. QED
        BY <1>1, <4>1, <4>2
    <3>. QED
      BY <3>1, <3>2
  <2>. HIDE DEF x, y
  <2>9. InPlace(y)
    BY <1>3, <1>4, <2>1, <2>2, <2>3 DEF InPlace
  <2>. QED
    BY <2>9 DEF y
<1>. QED
  BY <1>5, <1>6, <1>7, <1>8

LEMMA ClosedInPlace == InPlace(Closed)
  BY DEF InPlace, Closed

LEMMA PlaceStep ==
  ASSUME "block" \notin Faults, \A c \in Conns : \A form \in Forms[c] : InTurn(form),
         PlaceInv, [Next]_vars
  PROVE  PlaceInv'
<1>0. Typed /\ Typed' /\ \A c \in Conns : InPlace(conn[c])
  BY TypedStep DEF PlaceInv
<1>1. ASSUME NEW c \in Conns, Others(c), InPlace(conn'[c]) PROVE PlaceInv'
  <2>1. \A d \in Conns : InPlace(conn'[d])
    BY <1>0, <1>1 DEF Others
  <2>2. \A d \in Conns : InPlace(conn[d])'
    BY <2>1 DEF InPlace, Split
  <2>. QED
    BY <1>0, <2>2 DEF PlaceInv
<1>2. ASSUME NEW c \in Conns, NEW form \in Forms[c], Connect(c, form) PROVE PlaceInv'
  <2>. DEFINE cxn == [Closed EXCEPT !.state = "receiving", !.form = form]
  <2>1. /\ cxn.state = "receiving" /\ cxn.form = form /\ cxn.next = 1
        /\ ~cxn.broken /\ ~cxn.valid /\ cxn.fd = None /\ cxn.status = "none"
    BY DEF Closed
  <2>2. conn'[c] = cxn /\ Others(c)
    BY <1>0, <1>2, ConnectEffect DEF Connect, Typed
  <2>3. 1 \in 1..(Len(form) + 1)
    BY UploadAssumption
  <2>. HIDE DEF cxn
  <2>4. InPlace(conn'[c])
    BY <2>1, <2>2, <2>3 DEF InPlace
  <2>. QED
    BY <1>1, <2>2, <2>4
<1>3. ASSUME NEW c \in Conns,
             SkipField(c) \/ IdField(c) \/ ImageField(c) \/ NoCacheFile(c)
      PROVE  PlaceInv'
  <2>1. Others(c) /\ InTurn(conn[c].form)
    BY <1>0, <1>3, SkipEffect, IdEffect, ImageEffect, FieldEffect
  <2>2. InPlace(conn'[c])
    BY <1>3, <2>1, ReadInPlace
  <2>. QED
    BY <1>1, <2>1, <2>2
<1>4. ASSUME NEW c \in Conns, OpenPublished(c) \/ CopyImage(c) \/ RecordUrl(c)
      PROVE  PlaceInv'
  <2>1. PICK s \in {"copy", "record", "query"} :
          /\ Moves(c, s) /\ conn[c].state \notin {"answered", "closed"}
          /\ conn[c].next \notin DOMAIN conn[c].form /\ conn[c].valid
          /\ s \in {"record", "query"} => conn[c].fd # None
    <3>1. CASE OpenPublished(c)
      BY <1>0, <3>1, MoveEffect DEF OpenPublished, HasField
    <3>2. CASE CopyImage(c)
      BY <1>0, <3>2, MoveEffect DEF CopyImage, InPlace
    <3>3. CASE RecordUrl(c)
      BY <1>0, <3>3, MoveEffect DEF InPlace
    <3>. QED
      BY <1>4, <3>1, <3>2, <3>3
  <2>2. InPlace(conn[c])
    BY <1>0
  <2>. DEFINE x == conn[c]
              y == conn'[c]
  <2>3. /\ y.state = s /\ y.status = x.status /\ y.fd = x.fd /\ y.id = x.id
        /\ y.valid = x.valid /\ y.broken = x.broken /\ y.form = x.form
        /\ y.next = x.next
    BY <2>1 DEF Moves
  <2>. HIDE DEF y
  <2>4. InPlace(y)
    BY <2>1, <2>2, <2>3 DEF InPlace
  <2>. QED
    BY <1>1, <2>1, <2>4 DEF Moves, y
<1>5. ASSUME NEW c \in Conns, NEW status \in {"200", "404"}, Answers(c, status),
             status = "200" => conn[c].state = "query"
      PROVE  PlaceInv'
  <2>1. InPlace(conn[c])
    BY <1>0
  <2>. DEFINE x == conn[c]
              y == conn'[c]
  <2>2. /\ y.state = "answered" /\ y.status = status /\ y.fd = None
        /\ y.valid = x.valid /\ y.broken = x.broken /\ y.form = x.form
        /\ y.next = x.next
    BY <1>5 DEF Answers
  <2>. HIDE DEF y
  <2>3. InPlace(y)
    BY <1>5, <2>1, <2>2 DEF InPlace
  <2>. QED
    BY <1>1, <1>5, <2>3 DEF Answers, y
<1>6. ASSUME NEW c \in Conns,
             RefuseUpload(c) \/ CopyFails(c) \/ RecordFails(c) \/ QueryUrl(c)
      PROVE  PlaceInv'
  BY <1>0, <1>5, <1>6, AnswerEffect
<1>7. ASSUME NEW c \in Conns, Complete(c) \/ Abort(c) PROVE PlaceInv'
  BY <1>0, <1>1, <1>7, EndEffect, ClosedInPlace
<1>8. ASSUME UNCHANGED conn PROVE PlaceInv'
  BY <1>0, <1>8 DEF PlaceInv, InPlace, Split
<1>9. CASE Restart
  <2>1. \A d \in Conns : InPlace(conn'[d])
    BY <1>9, ClosedInPlace DEF Restart
  <2>2. \A d \in Conns : InPlace(conn[d])'
    BY <2>1 DEF InPlace, Split
  <2>. QED
    BY <1>0, <2>2 DEF PlaceInv
<1>. QED
  BY <1>2, <1>3, <1>4, <1>6, <1>7, <1>8, <1>9 DEF Next, Publish, Register, vars

LEMMA PlaceInit == Init => PlaceInv
  BY TypedInit, ClosedInPlace DEF Init, PlaceInv

\* When every block can be written to the cache, an upload one of whose fields
\* could not be handled is not answered with success: a form brings its id before
\* its image, and after an id that is not registered no image is opened
\* (avatardb_handle_uploaded_block).
THEOREM FailedIsNotAnsweredHolds ==
  ASSUME "block" \notin Faults, \A c \in Conns : \A form \in Forms[c] : InTurn(form)
  PROVE  Spec => []FailedIsNotAnswered
<1>1. PlaceInv /\ [Next]_vars => PlaceInv'
  BY PlaceStep
<1>2. PlaceInv => FailedIsNotAnswered
  BY DEF PlaceInv, InPlace, FailedIsNotAnswered
<1>. QED
  BY <1>1, <1>2, PlaceInit, PTL DEF Spec

(***************************************************************************)
(* The image that is published: its parts come in their order, and no two  *)
(* connections upload for one user.                                        *)
(***************************************************************************)
InOrder(form) ==
  \A i \in Images(form) : form[i].off = Cardinality({j \in Images(form) : j < i})

IdsOf(c) ==
  {u \in Ids : \E form \in Forms[c] : \E i \in DOMAIN form :
                 form[i].key = "id" /\ form[i].id = u}

Apart == \A c, d \in Conns : c # d => IdsOf(c) \cap IdsOf(d) = {}

\* The cache file holds the parts that have come,
Written(c) ==
  conn[c].fd # None =>
    \A k \in 1..(conn[c].next - 2) : Split(conn[c].form, k) =>
      cache[conn[c].fd] = [n \in 1..(conn[c].next - 1 - k) |-> conn[c].form[k + n].block]

\* and what has been published is the image.
Shown(c) ==
  conn[c].state \in {"record", "query"} \/ conn[c].status = "200" =>
    published[conn[c].id] = ImageOf(conn[c].form)

PublishedInv ==
  /\ PlaceInv
  /\ FilesInv
  /\ \A c \in Conns : Written(c) /\ Shown(c) /\ conn[c].id \in IdsOf(c) \cup {None}

LEMMA IntervalSize ==
  ASSUME NEW a \in Int, NEW b \in Int, a <= b + 1
  PROVE  Cardinality(a..b) = b - a + 1
  BY FS_Interval

\* In a form in turn the image is what follows the id.
LEMMA SplitImage ==
  ASSUME NEW c \in Conns, NEW form \in Forms[c], InOrder(form),
         NEW k \in Nat, k <= Len(form), Split(form, k)
  PROVE  /\ \A i \in (k + 1)..Len(form) : form[i].off = i - k - 1
         /\ ImageOf(form) = [n \in 1..(Len(form) - k) |-> form[k + n].block]
<1>1. Len(form) \in Nat /\ DOMAIN form = 1..Len(form)
  BY UploadAssumption
<1>2. Images(form) = (k + 1)..Len(form)
  BY <1>1 DEF Images, Split
<1>3. Cardinality(Images(form)) = Len(form) - k
  <2>1. k + 1 \in Int /\ Len(form) \in Int /\ k + 1 <= Len(form) + 1
    BY <1>1
  <2>2. Cardinality((k + 1)..Len(form)) = Len(form) - (k + 1) + 1
    BY <2>1, IntervalSize
  <2>. QED
    BY <1>1, <1>2, <2>2
<1>4. ASSUME NEW i \in (k + 1)..Len(form)
      PROVE  form[i].off = i - k - 1
  <2>1. {j \in Images(form) : j < i} = (k + 1)..(i - 1)
    BY <1>1, <1>2
  <2>2. Cardinality((k + 1)..(i - 1)) = i - 1 - (k + 1) + 1
    BY IntervalSize
  <2>3. form[i].off = Cardinality((k + 1)..(i - 1))
    BY <1>2, <2>1 DEF InOrder
  <2>. QED
    BY <2>2, <2>3
<1>5. ASSUME NEW n \in 1..(Len(form) - k)
      PROVE  (CHOOSE i \in Images(form) : form[i].off = n - 1) = k + n
  <2>1. k + n \in Images(form) /\ form[k + n].off = n - 1
    BY <1>1, <1>2, <1>4
  <2>2. \A i \in Images(form) : form[i].off = n - 1 => i = k + n
    BY <1>1, <1>2, <1>4
  <2>. QED
    BY <2>1, <2>2
<1>6. ImageOf(form) = [n \in 1..(Len(form) - k) |-> form[k + n].block]
  <2>. DEFINE at(n) == CHOOSE i \in Images(form) : form[i].off = n - 1
  <2>1. ImageOf(form) = [n \in 1..Cardinality(Images(form)) |-> form[at(n)].block]
    BY DEF ImageOf
  <2>2. \A n \in 1..(Len(form) - k) : at(n) = k + n
    BY <1>5
  <2>. HIDE DEF at
  <2>. QED
    BY <1>3, <2>1, <2>2
<1>. QED
  BY <1>4, <1>6

\* Two connections with an id each have different ones.
LEMMA OtherUsers ==
  ASSUME Apart, PublishedInv, NEW c \in Conns, NEW d \in Conns, c # d,
         conn[c].valid, conn[d].valid
  PROVE  conn[c].id # conn[d].id /\ conn[c].id \in Ids /\ conn[d].id \in Ids
<1>1. conn[c].id \in Ids /\ conn[d].id \in Ids
  BY DEF PublishedInv, FilesInv, Typed
<1>2. conn[c].id \in IdsOf(c) /\ conn[d].id \in IdsOf(d)
  BY <1>1, UploadAssumption DEF PublishedInv
<1>. QED
  BY <1>1, <1>2 DEF Apart

\* Before the image no file is open.
LEMMA NoFileYet ==
  ASSUME PlaceInv, NEW c \in Conns, SkipField(c) \/ IdField(c) \/ NoCacheFile(c)
  PROVE  conn'[c].fd = None
<1>0. Typed /\ InPlace(conn[c])
  BY DEF PlaceInv
<1>1. CASE SkipField(c)
  <2>1. conn'[c].fd = conn[c].fd /\ (conn[c].broken \/ ~conn[c].valid)
    BY <1>0, <1>1, SkipEffect, SkippedPlace
  <2>. QED
    BY <1>0, <2>1 DEF InPlace
<1>2. CASE NoCacheFile(c)
  <2>1. conn'[c].fd = conn[c].fd
    BY <1>0, <1>2, SkipEffect
  <2>. QED
    BY <1>2, <2>1 DEF NoCacheFile
<1>3. CASE IdField(c)
  <2>1. conn'[c].fd = conn[c].fd
    BY <1>0, <1>3, IdEffect
  <2>2. ASSUME conn[c].fd # None PROVE FALSE
    <3>1. PICK k \in 1..(conn[c].next - 2) : Split(conn[c].form, k)
      BY <1>0, <2>2 DEF InPlace
    <3>2. conn[c].next \in DOMAIN conn[c].form /\ conn[c].next \in Int
      BY <1>0, <1>3, FieldEffect DEF Typed, Cxn
    <3>3. conn[c].form[conn[c].next].key = "id"
      BY <1>3 DEF IdField, Field
    <3>. QED
      BY <3>1, <3>2, <3>3 DEF Split
  <2>. QED
    BY <2>1, <2>2
<1>. QED
  BY <1>1, <1>2, <1>3

\* A part that is written comes after those the file has.
LEMMA ImageWritten ==
  ASSUME "block" \notin Faults, PublishedInv, NEW c \in Conns, ImageField(c),
         InOrder(conn[c].form), NEW k \in 1..(conn[c].next - 1), Split(conn[c].form, k)
  PROVE  cache'[conn'[c].fd] =
           [n \in 1..(conn[c].next - k) |-> conn[c].form[k + n].block]
<1>0. Typed /\ InPlace(conn[c])
  BY DEF PublishedInv, PlaceInv
<1>. DEFINE x == conn[c]
            n == conn[c].next
            file == IF x.fd = None THEN Truncated ELSE cache[x.fd]
            u == IF x.fd = None THEN x.id ELSE x.fd
<1>1. x.form \in Forms[c] /\ n \in DOMAIN x.form /\ n \in Int /\ x.state = "receiving"
  BY <1>0, FieldEffect, ImageEffect DEF Typed, Cxn
<1>2. Len(x.form) \in Nat /\ DOMAIN x.form = 1..Len(x.form)
  BY <1>1, UploadAssumption
<1>w. x.fd # None =>
        \A m \in 1..(n - 2) : Split(x.form, m) =>
          cache[x.fd] = [i \in 1..(n - 1 - m) |-> x.form[m + i].block]
  BY DEF PublishedInv, Written
<1>f. x.fd # None /\ x.fd \in Ids => AFile(cache[x.fd]) /\ cache[x.fd] # None
  BY DEF PublishedInv, FilesInv
<1>p. InPlace(x) /\ k \in 1..(n - 1) /\ Split(x.form, k) /\ n = x.next
  BY <1>0
<1>3. /\ x.valid /\ ~x.broken /\ x.form[n].key = "image" /\ u \in Ids
      /\ cache' = [cache EXCEPT ![u] = WriteAt(file, Field(c).off, Field(c).block)]
  BY <1>0, ImagePlace DEF Field
<1>4. conn'[c].fd = u
  BY <1>0, ImageEffect
<1>5. Field(c).off = n - k - 1 /\ Field(c).off \in Nat /\ Field(c).block \in Blocks
      /\ Field(c) = x.form[n]
  <2>1. n \in (k + 1)..Len(x.form) /\ k \in Nat /\ k <= Len(x.form)
    BY <1>1, <1>2
  <2>2. x.form[n].off = n - k - 1
    BY <1>1, <2>1, SplitImage
  <2>3. Field(c).off \in Nat /\ Field(c).block \in Blocks
    BY <1>0, <1>1, <1>3, BlockTyped DEF HasField, Field
  <2>. QED
    BY <2>2, <2>3 DEF Field
<1>. HIDE DEF x, n
<1>6. /\ file \in Seq(Blocks) /\ Len(file) = n - k - 1
      /\ \A i \in 1..(n - k - 1) : file[i] = x.form[k + i].block
  <2>1. CASE x.fd = None
    <3>1. n > 1 /\ x.form[n - 1].key = "id"
      BY <1>p, <1>1, <1>3, <2>1 DEF InPlace
    <3>2. n - 1 \in DOMAIN x.form
      BY <1>1, <1>2, <3>1
    <3>3. n - 1 <= k
      BY <3>1, <3>2, <1>p DEF Split
    <3>4. n - k - 1 = 0
      BY <1>p, <1>1, <3>3
    <3>5. file = <<>>
      BY <2>1 DEF Truncated
    <3>. HIDE DEF file
    <3>6. file \in Seq(Blocks) /\ Len(file) = 0
      BY <3>5
    <3>7. \A i \in 1..0 : file[i] = x.form[k + i].block
      OBVIOUS
    <3>. QED
      BY <3>4, <3>6, <3>7
  <2>2. CASE x.fd # None
    <3>1. PICK m \in 1..(n - 2) : Split(x.form, m)
      BY <1>p, <2>2 DEF InPlace
    <3>2. n - 1 \in DOMAIN x.form /\ m <= n - 2
      BY <1>1, <1>2, <3>1
    <3>3. x.form[n - 1].key = "image"
      BY <1>1, <3>1, <3>2 DEF Split
    <3>4. ~(n - 1 <= k)
      BY <3>2, <3>3, <1>p DEF Split
    <3>5. k \in 1..(n - 2)
      BY <1>1, <1>p, <3>4
    <3>6. file = [i \in 1..(n - 1 - k) |-> x.form[k + i].block]
      BY <1>p, <1>w, <2>2, <3>5
    <3>7. file \in Seq(Blocks)
      BY <1>3, <1>f, <2>2 DEF AFile, u
    <3>. HIDE DEF file
    <3>8. n - 1 - k \in Nat /\ n - 1 - k = n - k - 1
      BY <1>1, <3>5
    <3>9. Len(file) = n - 1 - k
      BY <3>6, <3>7, <3>8
    <3>. QED
      BY <3>6, <3>7, <3>8, <3>9
  <2>. QED
    BY <2>1, <2>2
<1>7. /\ WriteAt(file, Field(c).off, Field(c).block) \in [1..(Field(c).off + 1) -> Blocks]
      /\ WriteAt(file, Field(c).off, Field(c).block)[Field(c).off + 1] = Field(c).block
      /\ \A i \in 1..Field(c).off :
           WriteAt(file, Field(c).off, Field(c).block)[i] = file[i]
  <2>1. Len(file) = Field(c).off
    BY <1>5, <1>6
  <2>. QED
    BY <1>5, <1>6, <2>1, BlockAppended
<1>8. cache'[u] = WriteAt(file, Field(c).off, Field(c).block)
  BY <1>0, <1>3 DEF Typed
<1>9. Field(c).off + 1 = n - k /\ Field(c).block = x.form[k + (n - k)].block
  BY <1>1, <1>5
<1>10. \A i \in 1..(n - k) : cache'[u][i] = x.form[k + i].block
  <2>1. n - k \in Nat /\ Field(c).off + 1 = n - k
    BY <1>1, <1>9, <1>p
  <2>2. ASSUME NEW i \in 1..(n - k), i # n - k
        PROVE  i \in 1..(n - k - 1) /\ i \in 1..Field(c).off
    <3>. DEFINE m == n - k
    <3>1. m \in Nat /\ i \in 1..m /\ i # m /\ m - 1 = n - k - 1
          /\ Field(c).off = m - 1
      BY <2>1, <2>2, <1>1, <1>5, <1>p
    <3>. HIDE DEF m
    <3>2. i \in 1..(m - 1)
      BY <3>1
    <3>. QED
      BY <3>1, <3>2
  <2>. QED
    BY <1>6, <1>7, <1>8, <1>9, <2>1, <2>2
<1>11. cache'[u] \in [1..(n - k) -> Blocks]
  BY <1>7, <1>8, <1>9
<1>12. cache'[u] = [i \in 1..(n - k) |-> x.form[k + i].block]
  BY <1>10, <1>11
<1>. QED
  BY <1>4, <1>12 DEF x, n

LEMMA PublishedStep ==
  ASSUME "block" \notin Faults, Apart,
         \A c \in Conns : \A form \in Forms[c] : InTurn(form) /\ InOrder(form),
         PublishedInv, PlaceInv', FilesInv', [Next]_vars
  PROVE  PublishedInv'
<1>0. /\ Typed /\ Typed' /\ PlaceInv
      /\ \A c \in Conns : InPlace(conn[c]) /\ InPlace(conn'[c])
  <2>1. \A c \in Conns : InPlace(conn[c])'
    BY DEF PlaceInv
  <2>2. \A c \in Conns : InPlace(conn'[c])
    BY <2>1 DEF InPlace, Split
  <2>. QED
    BY <2>2 DEF PublishedInv, PlaceInv
<1>i. ASSUME NEW c \in Conns, conn'[c].form = conn[c].form
      PROVE  ImageOf(conn[c].form)' = ImageOf(conn[c].form)
  BY <1>i DEF ImageOf, Images
\* what a step of one connection has to keep
<1>1. ASSUME NEW c \in Conns, Others(c), Written(c)', Shown(c)',
             conn'[c].id \in IdsOf(c) \cup {None},
             \A d \in Conns \ {c} :
               /\ conn[d].fd # None => cache'[conn[d].fd] = cache[conn[d].fd]
               /\ conn[d].valid => published'[conn[d].id] = published[conn[d].id]
      PROVE  PublishedInv'
  <2>1. ASSUME NEW d \in Conns \ {c}
        PROVE  Written(d)' /\ Shown(d)' /\ conn'[d].id \in IdsOf(d) \cup {None}
    <3>1. conn'[d] = conn[d] /\ Written(d) /\ Shown(d) /\ InPlace(conn[d])
          /\ conn[d].id \in IdsOf(d) \cup {None}
      BY <1>0, <1>1 DEF Others, PublishedInv
    <3>2. Written(d)'
      BY <1>1, <3>1 DEF Written, Split
    <3>3. Shown(d)'
      BY <1>1, <3>1 DEF Shown, InPlace
    <3>. QED
      BY <3>1, <3>2, <3>3
  <2>2. \A d \in Conns : Written(d)' /\ Shown(d)' /\ conn'[d].id \in IdsOf(d) \cup {None}
    BY <1>1, <2>1
  <2>. QED
    BY <2>2 DEF PublishedInv, IdsOf
\* a connection without a file that has not published
<1>2. ASSUME NEW c \in Conns, Others(c), conn'[c].fd = None, conn'[c].status # "200",
             conn'[c].state \notin {"record", "query"}, UNCHANGED files,
             conn'[c].id \in IdsOf(c) \cup {None}
      PROVE  PublishedInv'
  <2>1. Written(c)' /\ Shown(c)'
    BY <1>2 DEF Written, Shown
  <2>. QED
    BY <1>1, <1>2, <2>1 DEF files
<1>3. ASSUME NEW c \in Conns, NEW form \in Forms[c], Connect(c, form) PROVE PublishedInv'
  <2>1. conn'[c].id = None
    BY <1>0, <1>3 DEF Connect, Closed, Typed
  <2>. QED
    BY <1>0, <1>2, <1>3, <2>1, ConnectEffect DEF Connect
<1>4. ASSUME NEW c \in Conns, SkipField(c) \/ NoCacheFile(c) PROVE PublishedInv'
  BY <1>0, <1>2, <1>4, SkipEffect, NoFileYet
  DEF SkipField, NoCacheFile, PublishedInv, InPlace
<1>5. ASSUME NEW c \in Conns, IdField(c) PROVE PublishedInv'
  <2>1. conn'[c].id = Field(c).id
    <3>1. PICK found \in BOOLEAN :
            conn' = [conn EXCEPT ![c] = [conn[c] EXCEPT !.next = conn[c].next + 1,
                                           !.id = Field(c).id,
                                           !.valid = conn[c].valid \/ found,
                                           !.broken = ~found]]
      BY <1>5, Zenon DEF IdField
    <3>. DEFINE cxn == [conn[c] EXCEPT !.next = conn[c].next + 1, !.id = Field(c).id,
                                       !.valid = conn[c].valid \/ found,
                                       !.broken = ~found]
    <3>2. cxn.id = Field(c).id
      BY <1>0 DEF Typed, Cxn
    <3>3. conn'[c] = cxn
      BY <1>0, <3>1 DEF Typed
    <3>. HIDE DEF cxn
    <3>. QED
      BY <3>2, <3>3
  <2>2. Field(c).id \in IdsOf(c)
    <3>1. conn[c].next \in DOMAIN conn[c].form /\ conn[c].form \in Forms[c]
          /\ Field(c).key = "id" /\ conn[c].state # "closed"
      BY <1>0, <1>5, FieldEffect, IdEffect DEF IdField
    <3>2. Field(c).id \in Ids
      BY <1>0, <3>1, FieldTyped DEF HasField
    <3>. QED
      BY <3>1, <3>2 DEF IdsOf, Field
  <2>. QED
    BY <1>0, <1>2, <1>5, <2>1, <2>2, IdEffect, NoFileYet DEF IdField, InPlace
<1>6. ASSUME NEW c \in Conns, ImageField(c) PROVE PublishedInv'
  <2>1. /\ Others(c) /\ UNCHANGED published /\ conn'[c].id = conn[c].id
        /\ conn'[c].state = "receiving" /\ conn[c].state = "receiving"
        /\ conn'[c].status = conn[c].status
    BY <1>0, <1>6, ImageEffect, ImagePlace
  <2>2. /\ conn[c].form \in Forms[c] /\ conn'[c].form = conn[c].form
        /\ conn'[c].next = conn[c].next + 1 /\ conn[c].next \in Int
    BY <1>0, <1>6, FieldEffect DEF Typed, Cxn
  <2>3. Written(c)'
    <3>1. SUFFICES ASSUME NEW k \in 1..(conn'[c].next - 2), Split(conn'[c].form, k)
                   PROVE  cache'[conn'[c].fd] =
                            [n \in 1..(conn'[c].next - 1 - k) |-> conn'[c].form[k + n].block]
      BY DEF Written, Split
    <3>2. k \in 1..(conn[c].next - 1) /\ Split(conn[c].form, k)
          /\ conn'[c].next - 1 - k = conn[c].next - k
      BY <2>2, <3>1
    <3>3. cache'[conn'[c].fd] =
            [n \in 1..(conn[c].next - k) |-> conn[c].form[k + n].block]
      BY <1>6, <2>2, <3>2, ImageWritten
    <3>. QED
      BY <2>2, <3>2, <3>3
  <2>4. Shown(c)'
    BY <1>0, <2>1 DEF Shown, InPlace
  <2>5. ASSUME NEW d \in Conns \ {c}, conn[d].fd # None
        PROVE  cache'[conn[d].fd] = cache[conn[d].fd]
    <3>1. conn'[c].fd = conn[c].id /\ conn[c].valid
      BY <1>0, <1>6, ImageEffect, ImagePlace DEF InPlace
    <3>2. conn[d].fd = conn[d].id /\ conn[d].valid
      BY <1>0, <2>5 DEF InPlace
    <3>3. conn[d].fd \in Ids \ {conn'[c].fd}
      BY <3>1, <3>2, OtherUsers
    <3>. QED
      BY <1>0, <1>6, <3>3, ImageEffect
  <2>. QED
    BY <1>1, <2>1, <2>3, <2>4, <2>5 DEF PublishedInv
<1>7. ASSUME NEW c \in Conns, NEW s \in {"copy", "record", "query"}, Moves(c, s),
             UNCHANGED cache, Shown(c)',
             \A d \in Conns \ {c} :
               conn[d].valid => published'[conn[d].id] = published[conn[d].id]
      PROVE  PublishedInv'
  <2>1. Written(c)'
    BY <1>7 DEF PublishedInv, Written, Moves, Split
  <2>. QED
    BY <1>1, <1>7, <2>1 DEF Moves, PublishedInv
\* whoever truncates or writes a published file does it in his own name
<1>8. ASSUME NEW c \in Conns, conn[c].valid, NEW new,
             published' = [published EXCEPT ![conn[c].id] = new],
             NEW d \in Conns \ {c}, conn[d].valid
      PROVE  published'[conn[d].id] = published[conn[d].id]
  BY <1>8, OtherUsers
<1>9. ASSUME NEW c \in Conns, OpenPublished(c) PROVE PublishedInv'
  <2>1. Moves(c, "copy") /\ UNCHANGED cache /\ conn[c].state = "receiving"
    BY <1>0, <1>9, MoveEffect
  <2>2. Shown(c)'
    BY <1>0, <2>1 DEF Moves, Shown, InPlace
  <2>. QED
    BY <1>7, <1>8, <1>9, <2>1, <2>2 DEF OpenPublished
<1>10. ASSUME NEW c \in Conns, CopyImage(c) PROVE PublishedInv'
  <2>1. /\ Moves(c, "record") /\ UNCHANGED cache /\ conn[c].state = "copy"
        /\ conn[c].fd # None /\ conn[c].valid /\ conn[c].id \in Ids
        /\ conn[c].form \in Forms[c]
        /\ published' = [published EXCEPT ![conn[c].id] = cache[conn[c].fd]]
    BY <1>0, <1>10, MoveEffect DEF CopyImage, InPlace, Typed
  <2>2. PICK k \in 1..(conn[c].next - 2) : Split(conn[c].form, k)
    BY <1>0, <2>1 DEF InPlace
  <2>3. /\ Len(conn[c].form) \in Nat /\ conn[c].next - 1 = Len(conn[c].form)
        /\ k \in Nat /\ k <= Len(conn[c].form)
    <3>1. Len(conn[c].form) \in Nat /\ DOMAIN conn[c].form = 1..Len(conn[c].form)
      BY <2>1, UploadAssumption
    <3>2. conn[c].next \in 1..(Len(conn[c].form) + 1)
          /\ conn[c].next \notin DOMAIN conn[c].form
      BY <1>0, <2>1 DEF InPlace
    <3> DEFINE len == Len(conn[c].form)
               n == conn[c].next
    <3>3. /\ len \in Nat /\ n \in 1..(len + 1) /\ n \notin 1..len
          /\ k \in 1..(n - 2)
      BY <2>2, <3>1, <3>2
    <3> HIDE DEF len, n
    <3>4. n - 1 = len /\ k \in Nat /\ k <= len
      BY <3>3
    <3>. QED
      BY <3>3, <3>4 DEF len, n
  <2>4. cache[conn[c].fd] =
          [n \in 1..(conn[c].next - 1 - k) |-> conn[c].form[k + n].block]
    BY <2>1, <2>2 DEF PublishedInv, Written
  <2>5. ImageOf(conn[c].form) =
          [n \in 1..(Len(conn[c].form) - k) |-> conn[c].form[k + n].block]
    BY <2>1, <2>2, <2>3, SplitImage
  <2>6. cache[conn[c].fd] = ImageOf(conn[c].form)
    BY <2>3, <2>4, <2>5
  <2>7. published'[conn[c].id] = cache[conn[c].fd]
    BY <2>1 DEF PublishedInv, FilesInv
  <2>8. Shown(c)'
    BY <1>i, <2>1, <2>6, <2>7 DEF Shown, Moves
  <2>. QED
    BY <1>7, <1>8, <2>1, <2>8
<1>11. ASSUME NEW c \in Conns, RecordUrl(c) PROVE PublishedInv'
  <2>1. Moves(c, "query") /\ UNCHANGED files /\ conn[c].state = "record"
    BY <1>0, <1>11, MoveEffect DEF RecordUrl
  <2>2. Shown(c)'
    BY <1>i, <2>1 DEF PublishedInv, Shown, Moves, files
  <2>. QED
    BY <1>7, <2>1, <2>2 DEF files
<1>12. ASSUME NEW c \in Conns, Answers(c, "404"), UNCHANGED cache,
              \A d \in Conns \ {c} :
                conn[d].valid => published'[conn[d].id] = published[conn[d].id]
       PROVE  PublishedInv'
  <2>1. Written(c)' /\ Shown(c)'
    BY <1>12 DEF Answers, Written, Shown
  <2>. QED
    BY <1>1, <1>12, <2>1 DEF Answers, PublishedInv
<1>13. ASSUME NEW c \in Conns, RefuseUpload(c) \/ RecordFails(c) PROVE PublishedInv'
  BY <1>0, <1>12, <1>13, AnswerEffect DEF RefuseUpload, RecordFails, files
<1>14. ASSUME NEW c \in Conns, CopyFails(c) PROVE PublishedInv'
  <2>1. Answers(c, "404") /\ UNCHANGED cache /\ conn[c].valid
    BY <1>0, <1>14, AnswerEffect DEF InPlace
  <2>2. UNCHANGED published
        \/ \E new : published' = [published EXCEPT ![conn[c].id] = new]
    BY <1>14 DEF CopyFails
  <2>3. ASSUME NEW d \in Conns \ {c}, conn[d].valid
        PROVE  published'[conn[d].id] = published[conn[d].id]
    BY <1>8, <2>1, <2>2, <2>3
  <2>. QED
    BY <1>12, <2>1, <2>3
<1>15. ASSUME NEW c \in Conns, QueryUrl(c) PROVE PublishedInv'
  <2>1. PICK status \in {"200", "404"} : Answers(c, status)
    BY <1>0, <1>15, AnswerEffect
  <2>2. conn[c].state = "query" /\ UNCHANGED files
    BY <1>15 DEF QueryUrl
  <2>3. Written(c)' /\ Shown(c)'
    BY <1>i, <2>1, <2>2 DEF PublishedInv, Answers, Written, Shown, files
  <2>. QED
    BY <1>1, <2>1, <2>2, <2>3 DEF Answers, PublishedInv, files
<1>16. ASSUME NEW c \in Conns, Complete(c) \/ Abort(c) PROVE PublishedInv'
  BY <1>0, <1>2, <1>16, EndEffect DEF Complete, Abort, Closed
<1>17. ASSUME UNCHANGED <<conn, files>> PROVE PublishedInv'
  <2>1. \A c \in Conns : Written(c)' /\ Shown(c)'
    BY <1>i, <1>17 DEF PublishedInv, Written, Shown, files, Split
  <2>. QED
    BY <1>17, <2>1 DEF PublishedInv, IdsOf
<1>18. CASE Restart
  BY <1>18 DEF PublishedInv, Restart, Closed, Written, Shown, files
<1>. QED
  BY <1>3, <1>4, <1>5, <1>6, <1>9, <1>10, <1>11, <1>13, <1>14, <1>15, <1>16, <1>17,
     <1>18
  DEF Next, Publish, Register, vars

\* When every block can be written and no two connections upload for one user, an
\* upload answered with success has published its own image, all of it and nothing
\* else, whatever fails, whoever goes away and however the connections' callbacks
\* and crashes alternate: blocks go where they belong in a cache file that was
\* emptied for them, and the whole of it is copied (avatardb_handle_upload_complete).
THEOREM AnsweredIsPublishedHolds ==
  ASSUME "block" \notin Faults, Apart,
         \A c \in Conns : \A form \in Forms[c] : InTurn(form) /\ InOrder(form)
  PROVE  Spec => []AnsweredIsPublished
<1>1. Init => PlaceInv /\ FilesInv /\ PublishedInv
  <2>1. Init => PlaceInv /\ FilesInv
    BY PlaceInit, InitialFiles
  <2>2. Init => \A c \in Conns : conn[c] = Closed
    BY DEF Init
  <2>. QED
    BY <2>1, <2>2 DEF PublishedInv, Written, Shown, Closed
<1>2. PlaceInv /\ FilesInv /\ PublishedInv /\ [Next]_vars
        => (PlaceInv /\ FilesInv /\ PublishedInv)'
  BY PlaceStep, FilesStep, PublishedStep
<1>3. PublishedInv => AnsweredIsPublished
  BY DEF PublishedInv, Shown, AnsweredIsPublished
<1>. QED
  BY <1>1, <1>2, <1>3, PTL DEF Spec

=============================================================================
