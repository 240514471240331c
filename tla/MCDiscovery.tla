---------------------------- MODULE MCDiscovery ----------------------------
(***************************************************************************)
(* Instances of Discovery and RpcImp for TLC.  One node owns two keys:     *)
(* nodes meet in etcd only, where each has its own watch.  Two goroutines  *)
(* call services at two addresses.  The two share no state, and a          *)
(* behaviour has steps of one of them.                                     *)
(***************************************************************************)
EXTENDS Discovery, RpcImp

CONSTANTS n1, k1, k2

VARIABLE part    \* the part this behaviour has steps of

OneNode == {n1}
TwoKeys == {k1, k2}
N1Owns  == [k \in TwoKeys |-> n1]

NextAll ==
  /\ \/ part = "discovery" /\ Next /\ UNCHANGED rpcVars
     \/ part = "rpc" /\ RpcNext /\ UNCHANGED vars
  /\ UNCHANGED part

InitAll == part \in {"discovery", "rpc"} /\ Init /\ RpcInit

SpecAll ==
  /\ InitAll
  /\ [][NextAll]_<<part, vars, rpcVars>>
  /\ Fairness /\ RpcFairness
=============================================================================
