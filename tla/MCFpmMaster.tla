----------------------------- MODULE MCFpmMaster -----------------------------
(* Instances of FpmMaster: one pool of each kind, and two pools.           *)
EXTENDS FpmMaster, TLC

OnePool == <<"www">>
TwoPools == <<"www", "api">>

Static == [wp \in {"www", "api"} |-> "static"]
Dynamic == [wp \in {"www", "api"} |-> "dynamic"]
Ondemand == [wp \in {"www", "api"} |-> "ondemand"]
Mixed == [www |-> "dynamic", api |-> "ondemand"]

None == [wp \in {"www", "api"} |-> 0]
One == [wp \in {"www", "api"} |-> 1]
Two == [wp \in {"www", "api"} |-> 2]
TwoAndOne == [www |-> 2, api |-> 1]
OneAndNone == [www |-> 1, api |-> 0]

PidSymmetry == Permutations(Pids)
=============================================================================
