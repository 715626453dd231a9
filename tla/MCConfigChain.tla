--------------------------- MODULE MCConfigChain ----------------------------
(***************************************************************************)
(* ConfigChain for TLC.                                                    *)
(***************************************************************************)
EXTENDS ConfigChain, TLC

CONSTANTS g1, g2, c1
=============================================================================
