------------------------------- MODULE MCPPR -------------------------------
(* Helpers one of whose rates is below min_bw_, and stronger ones.         *)
EXTENDS PPR

WeakAndStrong == {<<1, 6>>, <<4, 6>>, <<6, 4>>}
=============================================================================
