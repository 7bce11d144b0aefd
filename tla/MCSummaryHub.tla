---------------------------- MODULE MCSummaryHub ----------------------------
(* A kickstart installation and an interactive one, each with one visit of   *)
(* the user to one of three spokes.                                          *)
EXTENDS SummaryHub
=============================================================================
