------------------------------ MODULE Discovery ------------------------------
(***************************************************************************)
(* Service discovery over etcd: etcdImp of servicediscovery/impl/etcd.     *)
(* Nodes register service keys under leases, cache all keys of the cluster *)
(* by watching etcd, and register a key of theirs again when the watch     *)
(* reports it deleted.  etcd is the set of keys present and, per node, the *)
(* changes its watch has yet to deliver.  A key is a service instance      *)
(* (name and UUID), owned by one node; one service name is modelled.       *)
(***************************************************************************)
EXTENDS Naturals, Sequences, SequencesExt

CONSTANTS
  Nodes, Keys,
  Owner,       \* the node that registers a key
  MaxFaults,   \* bound on leases that expire and requests to etcd that fail
  MayCompact   \* may etcd compact its history under a slow watcher

ASSUME DiscoveryAssumption ==
  /\ Owner \in [Keys -> Nodes] /\ MaxFaults \in Nat /\ MayCompact \in BOOLEAN

VARIABLES
  present,    \* etcd: the keys in it
  unseen,     \* per node: the changes its watch has not delivered, oldest first
  behind,     \* nodes whose unseen changes etcd has compacted
  faults,     \* number of leases expired and requests failed
  ids,        \* per node: serviceSet.ids
  id2addr,    \* per node: the keys of serviceSet.id2addr
  watch,      \* per node: where its watch goroutine is
  reput,      \* per node: the key onWatchEvent registers again
  regServs,   \* per node: the keys in regServs
  quit,       \* nodes that stop
  call,       \* per key: where its owner's Register or Unregister call is
  gone        \* history: keys whose deletion their node did not see or undo

etcdVars  == <<present, unseen, behind, faults>>
cacheVars == <<ids, id2addr>>
watchVars == <<watch, reput>>
vars == <<etcdVars, cacheVars, watchVars, regServs, quit, call, gone>>

Changes == [op : {"put", "delete"}, key : Keys]

TypeOK ==
  /\ present \subseteq Keys /\ unseen \in [Nodes -> Seq(Changes)] /\ behind \subseteq Nodes
  /\ faults \in 0..MaxFaults
  /\ ids \in [Nodes -> Seq(Keys)] /\ id2addr \in [Nodes -> SUBSET Keys]
  /\ watch \in [Nodes -> {"select", "put", "store", "stopping", "stopped"}]
  /\ reput \in [Nodes -> Keys]
  /\ regServs \in [Nodes -> SUBSET Keys] /\ quit \subseteq Nodes
  /\ call \in [Keys -> {"none", "store", "registered", "failed", "forget",
                      "unregistered", "contended", "kept"}]
  /\ gone \subseteq Keys

\* NewEtcdDiscovery on an empty etcd, and Start.
Init ==
  /\ present = {} /\ unseen = [n \in Nodes |-> <<>>] /\ behind = {} /\ faults = 0
  /\ ids = [n \in Nodes |-> <<>>] /\ id2addr = [n \in Nodes |-> {}]
  /\ watch = [n \in Nodes |-> "select"] /\ reput = [n \in Nodes |-> CHOOSE k \in Keys : TRUE]
  /\ regServs = [n \in Nodes |-> {}] /\ quit = {}
  /\ call = [k \in Keys |-> "none"] /\ gone = {}

-----------------------------------------------------------------------------
(* etcd.                                                                   *)

Fault == faults < MaxFaults /\ faults' = faults + 1

Report(op, k) == unseen' = [n \in Nodes |-> Append(unseen[n], [op |-> op, key |-> k])]

DoPut(k) == present' = present \cup {k} /\ Report("put", k) /\ UNCHANGED behind

DoDelete(k) == present' = present \ {k} /\ Report("delete", k) /\ UNCHANGED behind

Put(k) == DoPut(k) /\ UNCHANGED faults

\* Deleting a key that is not there changes nothing and is not reported.
Delete(k) == IF k \in present THEN DoDelete(k) /\ UNCHANGED faults ELSE UNCHANGED etcdVars

\* A request that fails may have been served.
PutFails(k) == Fault /\ (DoPut(k) \/ UNCHANGED <<present, unseen, behind>>)

\* The lease of a key expires: its keepalives did not get through in time.  A lease
\* outlives the moment between the Put of its key and regServs.Store.
Expire(k) ==
  /\ k \in present /\ call[k] # "store"
  /\ Fault /\ DoDelete(k)
  /\ UNCHANGED <<cacheVars, watchVars, regServs, quit, call, gone>>

\* etcd compacts its history: what a watch has not delivered it will not deliver.
Compact ==
  /\ MayCompact
  /\ behind' = {n \in Nodes : unseen[n] # <<>>} /\ behind' # behind
  /\ UNCHANGED <<present, unseen, faults, cacheVars, watchVars, regServs, quit, call, gone>>

-----------------------------------------------------------------------------
(* RegisterService and UnregisterService, in goroutines of the application.*)

\* putServiceKey called by RegisterService: Grant and Put.
RegisterPut(k) ==
  /\ call[k] = "none" /\ Owner[k] \notin quit
  /\ \/ Put(k) /\ call' = [call EXCEPT ![k] = "store"]
     \/ PutFails(k) /\ call' = [call EXCEPT ![k] = "failed"]
  /\ UNCHANGED <<cacheVars, watchVars, regServs, quit, gone>>

\* regServs.Store, then KeepAlive.
RegisterStore(k) ==
  /\ call[k] = "store"
  /\ regServs' = [regServs EXCEPT ![Owner[k]] = @ \cup {k}]
  /\ call' = [call EXCEPT ![k] = "registered"]
  /\ UNCHANGED <<etcdVars, cacheVars, watchVars, quit, gone>>

\* UnregisterService: Delete first; an error ends the loop and nil is returned.
UnregisterDelete(k) ==
  /\ call[k] = "registered" /\ k \in regServs[Owner[k]] /\ Owner[k] \notin quit
  /\ \/ Delete(k) /\ call' = [call EXCEPT ![k] = "forget"]
     \/ Fault /\ UNCHANGED <<present, unseen, behind>> /\ call' = [call EXCEPT ![k] = "kept"]
  /\ UNCHANGED <<cacheVars, watchVars, regServs, quit, gone>>

\* The watch goroutine is about to register a key again.
Reputs(n, k) == watch[n] \in {"put", "store"} /\ reput[n] = k

\* regServs.Delete next.  The call is noted as contended if the watch goroutine, which had
\* seen the key in regServs until now, has registered it again or is about to.
UnregisterForget(k) ==
  /\ call[k] = "forget"
  /\ regServs' = [regServs EXCEPT ![Owner[k]] = @ \ {k}]
  /\ call' = [call EXCEPT ![k] =
                IF k \in present \/ Reputs(Owner[k], k) THEN "contended" ELSE "unregistered"]
  /\ UNCHANGED <<etcdVars, cacheVars, watchVars, quit, gone>>

-----------------------------------------------------------------------------
(* The watch goroutine.                                                    *)

AddService(n, k) ==
  /\ id2addr' = [id2addr EXCEPT ![n] = @ \cup {k}]
  /\ ids' = [ids EXCEPT ![n] = IF k \in id2addr[n] THEN @ ELSE Append(@, k)]

\* The last id takes the place of the one removed.
SwapRemove(s, k) ==
  IF k \notin Range(s) THEN s
  ELSE LET i == CHOOSE i \in 1..Len(s) : s[i] = k
       IN  Front([s EXCEPT ![i] = Last(s)])

DelService(n, k) ==
  /\ id2addr' = [id2addr EXCEPT ![n] = @ \ {k}]
  /\ ids' = [ids EXCEPT ![n] = SwapRemove(@, k)]

\* Mutants of OwnKey: deleted keys are not looked up in regServs, and all are taken for own.
OwnKeyMut(n, k) == FALSE
OwnKeyAll(n, k) == n \notin quit

\* A deleted key is to be registered again.
OwnKey(n, k) == k \in regServs[n] /\ n \notin quit

\* onWatchEvent for the next change, up to the decision to register again.
WatchEvent(n) ==
  LET e == Head(unseen[n]) IN
  /\ watch[n] = "select" /\ unseen[n] # <<>> /\ n \notin behind
  /\ unseen' = [unseen EXCEPT ![n] = Tail(@)]
  /\ IF e.op = "put" THEN AddService(n, e.key) /\ UNCHANGED watchVars
     ELSE /\ DelService(n, e.key)
          /\ IF OwnKey(n, e.key)
             THEN watch' = [watch EXCEPT ![n] = "put"] /\ reput' = [reput EXCEPT ![n] = e.key]
             ELSE UNCHANGED watchVars
  /\ UNCHANGED <<present, behind, faults, regServs, quit, call, gone>>

\* putServiceKey called by onWatchEvent; a failure is logged and forgotten.
WatchPut(n) ==
  /\ watch[n] = "put"
  /\ \/ Put(reput[n]) /\ watch' = [watch EXCEPT ![n] = "store"] /\ UNCHANGED gone
     \/ /\ PutFails(reput[n]) /\ watch' = [watch EXCEPT ![n] = "select"]
        /\ gone' = gone \cup {reput[n]}
  /\ UNCHANGED <<cacheVars, reput, regServs, quit, call>>

WatchStore(n) ==
  /\ watch[n] = "store"
  /\ regServs' = [regServs EXCEPT ![n] = @ \cup {reput[n]}]
  /\ watch' = [watch EXCEPT ![n] = "select"]
  /\ UNCHANGED <<etcdVars, cacheVars, reput, quit, call, gone>>


\* The keys a reload of the cache starts from: an empty container and what Get returns.
LoadFrom(n) == present

\* processWatchError with ErrCompacted: loadAndWatch from the revision of its Get.
Reload(n) ==
  /\ watch[n] = "select" /\ n \in behind
  /\ id2addr' = [id2addr EXCEPT ![n] = LoadFrom(n)]
  /\ \E s \in SetToSeqs(LoadFrom(n)) : ids' = [ids EXCEPT ![n] = s]
  /\ unseen' = [unseen EXCEPT ![n] = <<>>] /\ behind' = behind \ {n}
  /\ gone' = gone \cup (regServs[n] \ present)
  /\ UNCHANGED <<present, faults, watchVars, regServs, quit, call>>

\* The context is cancelled, or the watch or a reload fails: the goroutine leaves its
\* loop and onStop sets quit.
Stop(n) ==
  /\ watch[n] = "select"
  /\ watch' = [watch EXCEPT ![n] = "stopping"]
  /\ quit' = quit \cup {n}
  /\ UNCHANGED <<etcdVars, cacheVars, reput, regServs, call, gone>>

\* onStop deletes the keys of regServs one by one, an error being logged, and closes
\* the client.
OnStop(n) ==
  /\ watch[n] = "stopping"
  /\ \/ (\E k \in regServs[n] \cap present : Delete(k)) /\ UNCHANGED watch
     \/ /\ IF regServs[n] \cap present = {} THEN UNCHANGED faults ELSE Fault
        /\ watch' = [watch EXCEPT ![n] = "stopped"] /\ UNCHANGED <<present, unseen, behind>>
  /\ UNCHANGED <<cacheVars, reput, regServs, quit, call, gone>>

-----------------------------------------------------------------------------
Calls(k) == RegisterPut(k) \/ RegisterStore(k) \/ UnregisterDelete(k) \/ UnregisterForget(k)

WatchLoop(n) == WatchEvent(n) \/ WatchPut(n) \/ WatchStore(n) \/ Reload(n) \/ OnStop(n)

Next ==
  \/ \E k \in Keys : Calls(k) \/ Expire(k)
  \/ \E n \in Nodes : WatchLoop(n) \/ Stop(n)
  \/ Compact

Spec == Init /\ [][Next]_vars

\* Watches are served, and calls under way go on.
Fairness ==
  /\ \A n \in Nodes : WF_vars(WatchLoop(n))
  /\ \A k \in Keys : WF_vars(RegisterStore(k) \/ UnregisterForget(k))

-----------------------------------------------------------------------------
Applied(ks, e) == IF e.op = "put" THEN ks \cup {e.key} ELSE ks \ {e.key}


\* A key that UnregisterService deleted and forgot stays out of etcd and of regServs,
\* whatever its watch has yet to report, unless the watch goroutine met the deletion of the
\* key, by this call or by its lease, before the key was forgotten (discovery.go 225-239,
\* 304-310).
UnregisteredStaysOut ==
  \A k \in Keys : call[k] = "unregistered" => k \notin present /\ k \notin regServs[Owner[k]]

\* A registered key that is deleted from etcd because its lease expired is registered
\* again ("重新注册此服务", discovery.go 305) while its owner runs.  It stays away only
\* if the deletion was skipped by a reload (discovery.go 409-429) or the one attempt to
\* undo it failed (discovery.go 305-310).
OwnKeyReturns ==
  \A k \in Keys :
    (call[k] = "registered" /\ k \notin present)
      ~> (k \in present \/ call[k] # "registered" \/ Owner[k] \in quit \/ k \in gone)

=============================================================================
