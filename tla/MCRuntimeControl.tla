--------------------------- MODULE MCRuntimeControl ---------------------------
(* Model values for checking RuntimeControl with TLC. *)
EXTENDS RuntimeControl
CONSTANTS spot, c1, c2, app, none

MCRuntimes    == {spot}
MCCallers     == {c1, c2}
=============================================================================
