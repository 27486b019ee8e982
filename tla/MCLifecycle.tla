---------------------------- MODULE MCLifecycle ----------------------------
(***************************************************************************)
(* Instances of the server's life.                                         *)
(***************************************************************************)
EXTENDS LifecycleProperties

\* no file, one that has all, and files that lack something
AllFiles ==
  LET All == [db_config |-> <<"other", "mysql">>,
              avatar_storage |-> <<"aws-s3", "aws-s3-fuse", "cache">>]
  IN  {NULL, All, [All EXCEPT !.db_config = <<"null", "mysql">>],
       [All EXCEPT !.db_config = Absent], [All EXCEPT !.avatar_storage = NotArray],
       [All EXCEPT !.avatar_storage = <<"cache">>]}

============================================================================
