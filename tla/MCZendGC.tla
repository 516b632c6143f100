------------------------------ MODULE MCZendGC ------------------------------
(* Instances of ZendGC for TLC.                                            *)
EXTENDS ZendGC

ThreeZvals == 1 .. 3
OneObject == {11}
=============================================================================
