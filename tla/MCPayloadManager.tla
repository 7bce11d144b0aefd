-------------------------- MODULE MCPayloadManager --------------------------
(* Two callers, and listeners of an early, a skippable, the last and the     *)
(* error state.                                                              *)
EXTENDS PayloadManager

CONSTANTS c1, c2, l1, l2, l3, l4

MCEventOf == [l \in {l1, l2, l3, l4} |->
                 CASE l = l1 -> WAITING_STORAGE
                   [] l = l2 -> DOWNLOADING_PKG_METADATA
                   [] l = l3 -> FINISHED
                   [] l = l4 -> ERROR]
=============================================================================
