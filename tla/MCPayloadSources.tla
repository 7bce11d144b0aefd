-------------------------- MODULE MCPayloadSources --------------------------
(* RHEL, whose default source is the CDN; a kickstart that asks for a medium *)
(* or for nothing, and two changes of the user.                              *)
EXTENDS PayloadSources
=============================================================================
