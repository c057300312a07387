---------------------------- MODULE MCUsageStore ----------------------------
(* The usage store for TLC. *)
EXTENDS UsageStore

AmountOne == {1}
AmountTwo == {1, 2}
WindowAll == {1, Retention}
=============================================================================
