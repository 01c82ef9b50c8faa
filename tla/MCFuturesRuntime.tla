--------------------------- MODULE MCFuturesRuntime ---------------------------
(* Values for checking FuturesRuntime with TLC. *)
EXTENDS FuturesRuntime

MCBuy       == {1}
MCBothSides == {1, -1}
=============================================================================
