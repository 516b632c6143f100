---------------------------- MODULE MCZendSignal ----------------------------
(* Instances of ZendSignal for TLC.                                        *)
EXTENDS ZendSignal

CONSTANTS prof, term

MCOrig == [s \in {prof, term} |-> IF s = term THEN "dfl" ELSE "ign"]
MCUserFns == {Entry("func", FALSE), Entry("func", TRUE)}
MCFunc == {Entry("func", FALSE)}
=============================================================================
