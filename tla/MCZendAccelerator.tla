------------------------- MODULE MCZendAccelerator -------------------------
(* Two processes; one or two scripts, of which one is changed once.        *)
EXTENDS ZendAccelerator

CONSTANTS p1, p2, f1, f2
=============================================================================
