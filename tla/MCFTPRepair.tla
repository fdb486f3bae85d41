---------------------------- MODULE MCFTPRepair ----------------------------
(* Rates that all divisors up to rs_k_ + 1 divide, one of them below       *)
(* min_bw_, and 0 for those that are filtered.                             *)
EXTENDS FTPRepair

WeakAndStrong == {0, 12, 24, 36, 48}
FewRates == {0, 6, 12, 18}
=============================================================================
