--------------------------- MODULE Configuration ---------------------------
(***************************************************************************)
(* What lib/config.c makes of the configuration file.  A file that is read *)
(* and parsed is a record of its two nodes: a node is Absent, NotArray, or *)
(* the sequence of the types of its elements, "null" for an element that   *)
(* is not there.  What the elements say besides their type is left out.    *)
(***************************************************************************)
EXTENDS Sequences, Integers

CONSTANTS Absent, NotArray, NULL

Types == {"mysql", "aws-s3", "aws-s3-fuse", "cache", "other", "null"}

Nodes == {Absent, NotArray} \cup Seq(Types)

Roots == {NULL} \cup [db_config : Nodes, avatar_storage : Nodes]

Storages == [s3ctx : BOOLEAN, loc_fmount : BOOLEAN, loc_cache : BOOLEAN]

\* the array of a node, when there is one
HasArray(root, name) == root # NULL /\ root[name] \notin {Absent, NotArray}

\* the loops over an array end at its first missing element
Listed(array, type) ==
  \E i \in 1..Len(array) : array[i] = type /\ \A j \in 1..i : array[j] # "null"

\* a file that cannot be opened, is empty or is no JSON leaves no root
config_load_dotrc(file) == file

\* whether there is a configuration for MySQL
config_load_mysqldb(root) ==
  HasArray(root, "db_config") /\ Listed(root.db_config, "mysql")

config_load_avatardb(root) ==
  IF ~HasArray(root, "avatar_storage") THEN NULL
  ELSE [s3ctx |-> Listed(root.avatar_storage, "aws-s3"),
        loc_fmount |-> Listed(root.avatar_storage, "aws-s3-fuse"),
        loc_cache |-> Listed(root.avatar_storage, "cache")]

============================================================================
