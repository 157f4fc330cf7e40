-------------------------------- MODULE Orm --------------------------------
(***************************************************************************)
(* What a request of the back end does to one row of a table.              *)
(*                                                                         *)
(* Every request has a SQLAlchemy session of its own (db/session.py:21-26: *)
(* autoflush off, expire_on_commit off) on a PostgreSQL connection at the  *)
(* default READ COMMITTED level; no service takes a row lock and no table  *)
(* has a version column.  A handler SELECTs a row, decides on the copy it  *)
(* loaded, edits the copy, and on commit the unit of work emits one UPDATE *)
(* naming only the columns whose value differs from the loaded one.  Other *)
(* columns keep what is in the table at that moment, whoever wrote it.     *)
(***************************************************************************)

\* The columns the session's UPDATE names.
Dirty(loaded, edited) == {c \in DOMAIN loaded : edited[c] # loaded[c]}

\* The row in the table after the UPDATE.
Flush(row, loaded, edited) ==
  [c \in DOMAIN row |-> IF c \in Dirty(loaded, edited) THEN edited[c] ELSE row[c]]

=============================================================================
