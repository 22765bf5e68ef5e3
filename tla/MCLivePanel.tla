----------------------------- MODULE MCLivePanel -----------------------------
(* One tab of either page through two events of any kind.                   *)
EXTENDS LivePanel, TLC
=============================================================================
