----------------------------- MODULE MCExchanges -----------------------------
(* Instances of Exchanges for TLC. *)
EXTENDS Exchanges
=============================================================================
