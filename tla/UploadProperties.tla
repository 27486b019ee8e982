------------------------- MODULE UploadProperties -------------------------
(***************************************************************************)
(* What an upload is meant to leave in the cache, under the S3 mount point *)
(* and in the answer, and under which faults it does.                      *)
(***************************************************************************)
EXTENDS AvatarUpload

Fields == UNION {UNION {ToSet(form) : form \in Forms[c]} : c \in Conns}
Blocks == {f.block : f \in {g \in Fields : g.key = "image"}} \cup {Hole}

ASSUME NoneIsNoFile == None \notin Seq(Blocks)

IsFile(file) ==
  file # None => DOMAIN file = 1..Len(file) /\ ToSet(file) \subseteq Blocks

\* A connection serves a form its client sends, an open cache file exists,
\* and no more files are open than may be.
TypeOK ==
  /\ \A c \in Conns :
       /\ conn[c].state \in {"closed", "receiving", "copy", "record", "query",
                             "answered"}
       /\ conn[c].state # "closed" => conn[c].form \in Forms[c]
       /\ conn[c].id \in Ids \cup {None}
       /\ conn[c].valid => conn[c].id # None
       /\ conn[c].fd # None => cache[conn[c].fd] # None
       /\ conn[c].status \in {"none", "200", "404"}
  /\ \A u \in Ids : IsFile(cache[u]) /\ IsFile(published[u])
  /\ users \subseteq Users
  /\ recorded \subseteq users
  /\ open \in 0..Descriptors

Images(form) == {i \in DOMAIN form : form[i].key = "image"}

\* the blocks of the image, where the client says each belongs
ImageOf(form) ==
  [n \in 1..Cardinality(Images(form)) |->
     form[CHOOSE i \in Images(form) : form[i].off = n - 1].block]

\* An upload answered with success has published its own image, all of it
\* and nothing else, whatever other connections did in between.
AnsweredIsPublished ==
  \A c \in Conns : conn[c].status = "200" =>
    published[conn[c].id] = ImageOf(conn[c].form)

\* An upload answered with success is the user's avatar.
AnsweredIsRecorded ==
  \A c \in Conns : conn[c].status = "200" => conn[c].id \in recorded

\* An upload one of whose fields could not be handled is not answered with
\* success.
FailedIsNotAnswered == \A c \in Conns : conn[c].broken => conn[c].status # "200"

\* Nothing is downloaded to the cache for an id that is not registered.
CacheOfRegistered == \A u \in Ids : cache[u] # None => u \in users

\* While no client goes away (gweb_server.c:385 frees such an upload with its
\* file open), an upload closes the files it opened however it ends: the open
\* ones belong to requests that are still served.
DescriptorsOwned ==
  open = Cardinality({c \in Conns : conn[c].fd # None})
         + Cardinality({c \in Conns : conn[c].state = "copy"})

\* An upload that has arrived is answered, unless the client goes away.
UploadAnswered ==
  \A c \in Conns :
    conn[c].state = "receiving" /\ ~HasField(c) ~>
      conn[c].state \in {"answered", "closed"}

===========================================================================
