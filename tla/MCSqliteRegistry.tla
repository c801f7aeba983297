-------------------------- MODULE MCSqliteRegistry --------------------------
(* Instances of SqliteRegistry for TLC. *)
EXTENDS SqliteRegistry, TLC
=============================================================================
