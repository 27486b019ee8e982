----------------------------- MODULE MCUpload -----------------------------
(***************************************************************************)
(* Small instances of the avatar uploads: two connections, users "u" and   *)
(* "v", images of one and of two blocks.                                   *)
(***************************************************************************)
EXTENDS UploadProperties

Id(u) == [key |-> "id", id |-> u]
Block(b, off) == [key |-> "image", block |-> b, off |-> off]

Long(u) == <<Id(u), Block("long-1", 0), Block("long-2", 1)>>
Short(u) == <<Id(u), Block("short", 0)>>
NoImage(u) == <<Id(u)>>
ImageFirst(u) == <<Block("early", 0), Id(u)>>
\* the id arrives in two segments, and neither is a UID
SplitId == <<Id("piece"), Id("piece"), Block("split", 0)>>

\* each user has one connection
OwnForms ==
  [c1 |-> {Long("u"), Short("u")}, c2 |-> {Short("v"), ImageFirst("v")}]

\* one user on both connections
SharedForms ==
  [c1 |-> {Long("u"), SplitId}, c2 |-> {Short("u"), NoImage("u")}]

===========================================================================
