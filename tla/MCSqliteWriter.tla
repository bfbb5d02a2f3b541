--------------------------- MODULE MCSqliteWriter ---------------------------
(* A file of one table and one index, in the writer's order. *)
EXTENDS SqliteWriter

TableThenIndex == <<FALSE, TRUE>>
=============================================================================
