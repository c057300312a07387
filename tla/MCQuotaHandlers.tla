-------------------------- MODULE MCQuotaHandlers --------------------------
(* The quota handlers for TLC. *)
EXTENDS QuotaHandlers

WriteSmall == {1, 3}
=============================================================================
