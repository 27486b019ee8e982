---------------------------- MODULE SqlTables ----------------------------
(***************************************************************************)
(* The tables of setup/mysql_schema.c and the write statements that        *)
(* mysqldb_handler.c sends.                                                *)
(*                                                                         *)
(* A table is a set of rows [key, val, id].  `key' holds the columns the   *)
(* WHERE clauses of the program select on, `val' the columns an UPDATE     *)
(* overwrites, `id' is the row identifier InnoDB gives a table that has no *)
(* primary key: two rows with equal columns are two rows.                  *)
(***************************************************************************)
EXTENDS Integers, Sequences, FiniteSetsExt

RegInfo == "UserRegInfo"
Phone == "UserPhone"
Address == "UserAddress"
Social == "UserSocialNetwork"
Request == "UserConnectRequest"
Channel == "UserConnectChannel"
Preference == "UserConnectPreferences"
Location == "UserGeoLocation"

TableNames == {RegInfo, Phone, Address, Social, Request, Channel, Preference,
               Location}

NoRows == [T \in TableNames |-> {}]

Row(k, v) == [key |-> k, val |-> v, id |-> 1]

Keys(rows) == {r.key : r \in rows}

(***************************************************************************)
(* The statements.                                                         *)
(***************************************************************************)
Insert(T, rows) == [op |-> "insert", table |-> T, rows |-> rows]
Update(T, keys, v) == [op |-> "update", table |-> T, keys |-> keys, val |-> v]
Delete(T, keys) == [op |-> "delete", table |-> T, keys |-> keys]

LastId(rows, k) == Max({0} \cup {r.id : r \in {s \in rows : s.key = k}})

AddRows(rows, new) ==
  rows \cup {[key |-> r.key, val |-> r.val, id |-> r.id + LastId(rows, r.key)] :
               r \in new}

SetRows(rows, keys, v) ==
  {[key |-> r.key, val |-> IF r.key \in keys THEN v ELSE r.val, id |-> r.id] :
     r \in rows}

DropRows(rows, keys) == {r \in rows : r.key \notin keys}

Apply(stmt, tables) ==
  [tables EXCEPT ![stmt.table] =
     CASE stmt.op = "insert" -> AddRows(@, stmt.rows)
       [] stmt.op = "update" -> SetRows(@, stmt.keys, stmt.val)
       [] stmt.op = "delete" -> DropRows(@, stmt.keys)]

(***************************************************************************)
(* UserRegInfo is the one table with constraints: UID (key[1]) and Email   *)
(* (key[2]) are each UNIQUE, so an INSERT that repeats one is refused.     *)
(***************************************************************************)
BreaksUnique(stmt, tables) ==
  /\ stmt.op = "insert"
  /\ stmt.table = RegInfo
  /\ \E r \in stmt.rows, s \in tables[RegInfo] :
       r.key[1] = s.key[1] \/ r.key[2] = s.key[2]

==========================================================================
