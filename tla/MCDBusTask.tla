----------------------------- MODULE MCDBusTask -----------------------------
(* Bounded runs of DBusTask, by either client.                              *)
EXTENDS DBusTask
=============================================================================
