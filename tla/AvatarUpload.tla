--------------------------- MODULE AvatarUpload ---------------------------
(***************************************************************************)
(* Avatar uploads: avatardb.c under the callbacks of gweb_server.c.        *)
(*                                                                         *)
(* libmicrohttpd runs every callback on one thread, so a callback is not   *)
(* interrupted, but the callbacks of different connections alternate.  A   *)
(* client sends a multipart form, a sequence of fields; the image comes in *)
(* blocks.  The blocks are saved in a cache file named after the user and, *)
(* when the form is complete, copied over the published file of that name. *)
(* The last callback is modelled in four steps, between which only a crash *)
(* can come.                                                               *)
(*                                                                         *)
(* Faults: "block" a write to the cache fails, "copy" the copy to the      *)
(* published file fails, "lookup" a SELECT fails, "update" the UPDATE or   *)
(* its COMMIT fails, "abort" the client goes away, "crash" the process     *)
(* dies and is started again.                                              *)
(***************************************************************************)
EXTENDS Integers, SequencesExt, FiniteSetsExt

CONSTANTS
  Conns,        \* HTTP connections
  Ids, Users,   \* what an "id" field may hold; those who may register
  Forms,        \* for each connection, the forms its client may send
  Descriptors,  \* how many files the process can have open
  Faults,
  None

ASSUME UploadAssumption ==
  /\ Users \subseteq Ids
  /\ Descriptors \in Nat
  /\ None \notin Ids
  /\ IsFiniteSet(Conns)
  /\ \A c \in Conns : \A form \in Forms[c] :
       /\ Len(form) \in Nat /\ DOMAIN form = 1..Len(form)
       /\ \A i \in DOMAIN form :
            \/ form[i].key = "id" /\ form[i].id \in Ids
            \/ form[i].key = "image" /\ form[i].off \in Nat

VARIABLES
  conn,       \* per connection, struct http_cxn_info and http_upload_avatar
  cache,      \* the cache files, by user
  published,  \* the files under the S3 mount point, by user
  users,      \* UIDs in UserRegInfo
  recorded,   \* users whose AvatarURL names the published file
  open        \* open file descriptors

files == <<cache, published>>
vars == <<conn, files, users, recorded, open>>

Closed ==
  [state |-> "closed", form |-> <<>>, next |-> 1, broken |-> FALSE,
   id |-> None, valid |-> FALSE, fd |-> None, status |-> "none"]

Init ==
  /\ conn = [c \in Conns |-> Closed]
  /\ cache = [u \in Ids |-> None]
  /\ published = [u \in Ids |-> None]
  /\ users = {}
  /\ recorded = {}
  /\ open = 0

(***************************************************************************)
(* Files: a sequence of blocks, or None.  Opening truncates (O_TRUNC).     *)
(***************************************************************************)
Hole == "hole"

WriteAt(file, off, block) ==
  [i \in 1..Max({Len(file), off + 1}) |->
     IF i = off + 1 THEN block ELSE IF i <= Len(file) THEN file[i] ELSE Hole]

Truncated == <<>>

CanOpen == open < Descriptors

(***************************************************************************)
(* Control.                                                                *)
(***************************************************************************)
Publishing(c) == conn[c].state \in {"copy", "record", "query"}

\* no callback is running
Free == \A c \in Conns : ~Publishing(c)

Receiving(c) == Free /\ conn[c].state = "receiving"

HasField(c) == conn[c].next \in DOMAIN conn[c].form
Field(c) == conn[c].form[conn[c].next]

\* avatardb_handle_upload_cleanup, then the answer
Answer(c, status, closed) ==
  /\ conn' = [conn EXCEPT ![c] = [@ EXCEPT !.state = "answered",
                                           !.status = status, !.fd = None]]
  /\ open' = open - closed - (IF conn[c].fd = None THEN 0 ELSE 1)

Connect(c, form) ==
  /\ Free
  /\ conn[c].state = "closed"
  /\ conn' = [conn EXCEPT ![c] = [Closed EXCEPT !.state = "receiving",
                                                !.form = form]]
  /\ UNCHANGED <<files, users, recorded, open>>

(***************************************************************************)
(* One field of the form: post_upload_handler and                          *)
(* avatardb_handle_uploaded_block.  After a field that failed the post     *)
(* processor of libmicrohttpd calls back no more.                          *)
(***************************************************************************)
SkipField(c) ==
  /\ Receiving(c) /\ HasField(c)
  /\ conn[c].broken \/ (Field(c).key = "image" /\ ~conn[c].valid)
  /\ conn' = [conn EXCEPT ![c].next = @ + 1]
  /\ UNCHANGED <<files, users, recorded, open>>

\* mutation: an invalid UID is marked valid and not reported
IdUnchecked(c) ==
  /\ Receiving(c) /\ HasField(c) /\ ~conn[c].broken
  /\ Field(c).key = "id"
  /\ conn' = [conn EXCEPT ![c] = [@ EXCEPT !.next = conn[c].next + 1,
                                           !.id = Field(c).id, !.valid = TRUE]]
  /\ UNCHANGED <<files, users, recorded, open>>

\* `!gweb_mysql_check_uid_email': a lookup that fails is not an invalid UID
IdField(c) ==
  /\ Receiving(c) /\ HasField(c) /\ ~conn[c].broken
  /\ Field(c).key = "id"
  /\ \E found \in BOOLEAN :
       /\ found = (Field(c).id \in users) \/ (found /\ "lookup" \in Faults)
       /\ conn' = [conn EXCEPT ![c] = [@ EXCEPT !.next = conn[c].next + 1,
                                                !.id = Field(c).id,
                                                !.valid = conn[c].valid \/ found,
                                                !.broken = ~found]]
  /\ UNCHANGED <<files, users, recorded, open>>

\* mutation: the cache file is opened without O_TRUNC
ImageOverOld(c) ==
  LET u == IF conn[c].fd = None THEN conn[c].id ELSE conn[c].fd
      file == IF cache[u] = None THEN Truncated ELSE cache[u]
  IN  /\ Receiving(c) /\ HasField(c) /\ ~conn[c].broken
      /\ Field(c).key = "image"
      /\ conn[c].valid
      /\ conn[c].fd # None \/ CanOpen
      /\ cache' = [cache EXCEPT ![u] = WriteAt(file, Field(c).off, Field(c).block)]
      /\ conn' = [conn EXCEPT ![c] = [@ EXCEPT !.next = conn[c].next + 1,
                                               !.fd = u]]
      /\ open' = IF conn[c].fd = None THEN open + 1 ELSE open
      /\ UNCHANGED <<published, users, recorded>>

ImageField(c) ==
  LET u == IF conn[c].fd = None THEN conn[c].id ELSE conn[c].fd
      file == IF conn[c].fd = None THEN Truncated ELSE cache[u]
  IN  /\ Receiving(c) /\ HasField(c) /\ ~conn[c].broken
      /\ Field(c).key = "image"
      /\ conn[c].valid
      /\ conn[c].fd # None \/ CanOpen
      /\ \/ /\ cache' = [cache EXCEPT ![u] =
                           WriteAt(file, Field(c).off, Field(c).block)]
            /\ conn' = [conn EXCEPT ![c] = [@ EXCEPT !.next = conn[c].next + 1,
                                                     !.fd = u]]
         \/ /\ "block" \in Faults
            /\ cache' = [cache EXCEPT ![u] = file]
            /\ conn' = [conn EXCEPT ![c] = [@ EXCEPT !.next = conn[c].next + 1,
                                                     !.fd = u, !.broken = TRUE]]
      /\ open' = IF conn[c].fd = None THEN open + 1 ELSE open
      /\ UNCHANGED <<published, users, recorded>>

NoCacheFile(c) ==
  /\ Receiving(c) /\ HasField(c) /\ ~conn[c].broken
  /\ Field(c).key = "image"
  /\ conn[c].valid
  /\ conn[c].fd = None /\ ~CanOpen
  /\ conn' = [conn EXCEPT ![c] = [@ EXCEPT !.next = conn[c].next + 1,
                                           !.broken = TRUE]]
  /\ UNCHANGED <<files, users, recorded, open>>

(***************************************************************************)
(* The form is complete: avatardb_handle_upload_complete.                  *)
(***************************************************************************)
RefuseUpload(c) ==
  /\ Receiving(c) /\ ~HasField(c)
  /\ ~conn[c].valid \/ ~CanOpen
  /\ Answer(c, "404", 0)
  /\ UNCHANGED <<files, users, recorded>>

OpenPublished(c) ==
  /\ Receiving(c) /\ ~HasField(c)
  /\ conn[c].valid /\ CanOpen
  /\ published' = [published EXCEPT ![conn[c].id] = Truncated]
  /\ open' = open + 1
  /\ conn' = [conn EXCEPT ![c].state = "copy"]
  /\ UNCHANGED <<cache, users, recorded>>

\* mutation: the cache file is found again by its name
CopyByName(c) ==
  /\ conn[c].state = "copy"
  /\ cache[conn[c].id] # None
  /\ published' = [published EXCEPT ![conn[c].id] = cache[conn[c].id]]
  /\ open' = open - 1
  /\ conn' = [conn EXCEPT ![c].state = "record"]
  /\ UNCHANGED <<cache, users, recorded>>

CopyImage(c) ==
  /\ conn[c].state = "copy"
  /\ conn[c].fd # None
  /\ published' = [published EXCEPT ![conn[c].id] = cache[conn[c].fd]]
  /\ open' = open - 1
  /\ conn' = [conn EXCEPT ![c].state = "record"]
  /\ UNCHANGED <<cache, users, recorded>>

\* mutation: the published file is not closed
CopyFailsOpen(c) ==
  /\ conn[c].state = "copy"
  /\ conn[c].fd = None \/ "copy" \in Faults
  /\ Answer(c, "404", 0)
  /\ UNCHANGED <<files, users, recorded>>

\* mutation: a failed read is tried again for ever
CopyRetries(c) ==
  /\ conn[c].state = "copy"
  /\ conn[c].fd = None
  /\ UNCHANGED vars

\* without an image there is nothing to read; a failed copy leaves a part
CopyFails(c) ==
  /\ conn[c].state = "copy"
  /\ \/ conn[c].fd = None /\ UNCHANGED published
     \/ /\ conn[c].fd # None /\ "copy" \in Faults
        /\ \E n \in 0..Len(cache[conn[c].fd]) :
             published' = [published EXCEPT ![conn[c].id] =
                             SubSeq(cache[conn[c].fd], 1, n)]
  /\ Answer(c, "404", 1)
  /\ UNCHANGED <<cache, users, recorded>>

\* mutation: update_avatar does not look the user up
RecordUnchecked(c) ==
  /\ conn[c].state = "record"
  /\ recorded' = recorded \cup {conn[c].id}
  /\ conn' = [conn EXCEPT ![c].state = "query"]
  /\ UNCHANGED <<files, users, open>>

\* update_avatar through the JSON post processor, which reports success
\* when the handler failed but left a response
RecordUrl(c) ==
  /\ conn[c].state = "record"
  /\ conn[c].id \in users
  /\ recorded' \in {recorded \cup {conn[c].id}} \cup
                   (IF "update" \in Faults THEN {recorded} ELSE {})
  /\ conn' = [conn EXCEPT ![c].state = "query"]
  /\ UNCHANGED <<files, users, open>>

\* mutation: the failure of update_avatar is ignored
RecordIgnored(c) ==
  /\ conn[c].state = "record"
  /\ conn[c].id \notin users \/ "lookup" \in Faults
  /\ conn' = [conn EXCEPT ![c].state = "query"]
  /\ UNCHANGED <<files, users, recorded, open>>

RecordFails(c) ==
  /\ conn[c].state = "record"
  /\ conn[c].id \notin users \/ "lookup" \in Faults
  /\ Answer(c, "404", 0)
  /\ UNCHANGED <<files, users, recorded>>

\* avatar_query overwrites the response and the status
QueryUrl(c) ==
  /\ conn[c].state = "query"
  /\ \/ conn[c].id \in users /\ Answer(c, "200", 0)
     \/ "lookup" \in Faults /\ Answer(c, "404", 0)
  /\ UNCHANGED <<files, users, recorded>>

\* mhd_request_completed after the answer
Complete(c) ==
  /\ Free
  /\ conn[c].state = "answered"
  /\ conn' = [conn EXCEPT ![c] = Closed]
  /\ UNCHANGED <<files, users, recorded, open>>

\* mhd_request_completed before the answer frees the upload and leaves its
\* cache file open
Abort(c) ==
  /\ "abort" \in Faults
  /\ Receiving(c)
  /\ conn' = [conn EXCEPT ![c] = Closed]
  /\ UNCHANGED <<files, users, recorded, open>>

(***************************************************************************)
(* The rest of the process.                                                *)
(***************************************************************************)
Register(u) ==
  /\ Free
  /\ u \notin users
  /\ users' = users \cup {u}
  /\ UNCHANGED <<conn, files, recorded, open>>

Restart ==
  /\ "crash" \in Faults
  /\ conn' = [c \in Conns |-> Closed]
  /\ open' = 0
  /\ UNCHANGED <<files, users, recorded>>

Publish(c) ==
  \/ RefuseUpload(c) \/ OpenPublished(c) \/ CopyImage(c) \/ CopyFails(c)
  \/ RecordUrl(c) \/ RecordFails(c) \/ QueryUrl(c)

Next ==
  \/ \E c \in Conns :
       \/ \E form \in Forms[c] : Connect(c, form)
       \/ SkipField(c) \/ IdField(c) \/ ImageField(c) \/ NoCacheFile(c)
       \/ Publish(c)
       \/ Complete(c)
       \/ Abort(c)
  \/ \E u \in Users : Register(u)
  \/ Restart

Spec == Init /\ [][Next]_vars

\* the select loop serves every connection that is ready
FairSpec == Spec /\ \A c \in Conns : SF_vars(Publish(c))

===========================================================================
