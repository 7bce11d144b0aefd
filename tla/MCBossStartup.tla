--------------------------- MODULE MCBossStartup ---------------------------
(* Two required modules, an optional one, and one that is forbidden.        *)
EXTENDS BossStartup

CONSTANTS storage, payloads, subscription, addon
=============================================================================
