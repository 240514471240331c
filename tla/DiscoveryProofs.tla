--------------------------- MODULE DiscoveryProofs ---------------------------
(* Why a service that was unregistered without contention stays out of etcd, for *)
(* any nodes, keys and number of faults, however late watches are.               *)
EXTENDS Discovery, TLAPS

\* The domains of the functions: of types the argument needs no more.
Shapes ==
  /\ DOMAIN regServs = Nodes /\ DOMAIN watch = Nodes
  /\ DOMAIN reput = Nodes /\ DOMAIN call = Keys

\* Only its owner remembers a key or is about to put it.
OwnOnly ==
  \A n \in Nodes, k \in Keys : k \in regServs[n] \/ Reputs(n, k) => n = Owner[k]

\* An unregistered key is nowhere: not in etcd, and its owner neither remembers it nor is
\* about to put it.
Out ==
  \A k \in Keys : call[k] = "unregistered" =>
    k \notin present /\ k \notin regServs[Owner[k]] /\ ~Reputs(Owner[k], k)

OutInv == Shapes /\ OwnOnly /\ Out

LEMMA PutAndDelete ==
    ASSUME NEW k
    PROVE  /\ Put(k) => present' = present \cup {k}
           /\ PutFails(k) => present' \in {present, present \cup {k}}
           /\ Delete(k) => present' = present \ {k}
  <1> USE DEF DoPut, DoDelete, etcdVars
  <1>1. Put(k) => present' = present \cup {k}
    BY DEF Put
  <1>2. PutFails(k) => present' \in {present, present \cup {k}}
    BY DEF PutFails
  <1>3. Delete(k) => present' = present \ {k}
    BY DEF Delete
  <1> QED BY <1>1, <1>2, <1>3

LEMMA StepKeeps == OutInv /\ [Next]_vars => OutInv'
  <1> SUFFICES ASSUME OutInv, [Next]_vars PROVE OutInv'
    OBVIOUS
  <1> USE DiscoveryAssumption, PutAndDelete
      DEF OutInv, Shapes, OwnOnly, Out, Reputs, cacheVars, watchVars
  <1>1. ASSUME NEW k \in Keys, RegisterPut(k) PROVE OutInv'
    <2>1. call[k] = "none" /\ UNCHANGED <<regServs, watch, reput>>
      BY <1>1 DEF RegisterPut
    <2>2. present' \subseteq present \cup {k}
      BY <1>1 DEF RegisterPut
    <2>3. call' = [call EXCEPT ![k] = "store"] \/ call' = [call EXCEPT ![k] = "failed"]
      BY <1>1 DEF RegisterPut
    <2> QED BY <2>1, <2>2, <2>3
  <1>2. ASSUME NEW k \in Keys, RegisterStore(k) PROVE OutInv'
    BY <1>2 DEF RegisterStore, etcdVars
  <1>3. ASSUME NEW k \in Keys, UnregisterDelete(k) PROVE OutInv'
    <2>1. UNCHANGED <<regServs, watch, reput>> /\ present' \subseteq present
      BY <1>3 DEF UnregisterDelete
    <2>2. call' = [call EXCEPT ![k] = "forget"] \/ call' = [call EXCEPT ![k] = "kept"]
      BY <1>3 DEF UnregisterDelete
    <2> QED BY <2>1, <2>2
  <1>4. ASSUME NEW k \in Keys, UnregisterForget(k) PROVE OutInv'
    BY <1>4 DEF UnregisterForget, etcdVars
  <1>5. ASSUME NEW k \in Keys, Expire(k) PROVE OutInv'
    BY <1>5 DEF Expire, DoDelete
  <1>6. ASSUME NEW n \in Nodes, WatchEvent(n) PROVE OutInv'
    <2>1. UNCHANGED <<present, regServs, call>>
      BY <1>6 DEF WatchEvent
    <2>2. \/ UNCHANGED watchVars
          \/ /\ OwnKey(n, Head(unseen[n]).key)
             /\ watch' = [watch EXCEPT ![n] = "put"]
             /\ reput' = [reput EXCEPT ![n] = Head(unseen[n]).key]
      BY <1>6 DEF WatchEvent
    <2> QED BY <2>1, <2>2 DEF OwnKey
  <1>7. ASSUME NEW n \in Nodes, WatchPut(n) PROVE OutInv'
    <2>1. /\ watch[n] = "put" /\ UNCHANGED <<regServs, call, reput>>
          /\ present' \subseteq present \cup {reput[n]}
      BY <1>7 DEF WatchPut
    <2>2. watch' = [watch EXCEPT ![n] = "store"] \/ watch' = [watch EXCEPT ![n] = "select"]
      BY <1>7 DEF WatchPut
    <2> QED BY <2>1, <2>2
  <1>8. ASSUME NEW n \in Nodes, WatchStore(n) PROVE OutInv'
    BY <1>8 DEF WatchStore, etcdVars
  <1>9. ASSUME NEW n \in Nodes, Reload(n) PROVE OutInv'
    BY <1>9 DEF Reload
  <1>10. ASSUME NEW n \in Nodes, Stop(n) PROVE OutInv'
    BY <1>10 DEF Stop, etcdVars
  <1>11. ASSUME NEW n \in Nodes, OnStop(n) PROVE OutInv'
    <2>1. /\ UNCHANGED <<reput, regServs, call>> /\ present' \subseteq present
          /\ watch' = watch \/ watch' = [watch EXCEPT ![n] = "stopped"]
      BY <1>11 DEF OnStop
    <2> QED BY <2>1
  <1>12. CASE Compact
    BY <1>12 DEF Compact
  <1>13. CASE UNCHANGED vars
    BY <1>13 DEF vars, etcdVars
  <1> QED BY <1>1, <1>2, <1>3, <1>4, <1>5, <1>6, <1>7, <1>8, <1>9, <1>10, <1>11, <1>12, <1>13
          DEF Next, Calls, WatchLoop

\* UnregisterService without contention is for good (discovery.go 225-239, 304-310).
THEOREM UnregisteredForGood == Spec => []UnregisteredStaysOut
  <1>1. Init => OutInv
    BY DiscoveryAssumption DEF Init, OutInv, Shapes, OwnOnly, Out, Reputs
  <1>2. OutInv => UnregisteredStaysOut
    BY DEF OutInv, Out, UnregisteredStaysOut
  <1> QED BY <1>1, <1>2, StepKeeps, PTL DEF Spec
=============================================================================
