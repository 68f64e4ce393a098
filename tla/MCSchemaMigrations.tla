------------------------- MODULE MCSchemaMigrations -------------------------
(* SchemaMigrations with few accounts, commands and revisions to ask for.   *)
EXTENDS SchemaMigrations
=============================================================================
