---------------------------- MODULE DeltaMonitor ----------------------------
(***************************************************************************)
(* Saving model changes to MongoDB: DeltaCollector and DeltaMonitor of     *)
(* db/mongo/delta.  The application goroutine changes entities, saves and  *)
(* deletes them and stops the monitor; the monitor's goroutine writes the  *)
(* queued deltas to the database, which may fail, or fail after all having *)
(* made the change.                                                        *)
(*                                                                         *)
(* A document is a function from the paths that are present to their       *)
(* values; a path is a sequence of names, <<>> the document itself.  A     *)
(* path with paths below it holds an object.                               *)
(***************************************************************************)
EXTENDS Naturals, Sequences, SequencesExt, TLC

CONSTANTS
  Ids,        \* entities
  Paths,      \* the paths of a document, with every path its prefixes but <<>>
  Vals,       \* values of leaves
  DeltasCap,  \* capacity of the channel deltas (code: 1024)
  MaxPairs    \* bound on the changes collected between two saves

ASSUME DeltaMonitorAssumption ==
  /\ Paths \subseteq Seq(Nat) /\ <<>> \notin Paths
  /\ \A p \in Paths : Len(p) > 1 => Front(p) \in Paths
  /\ Vals \subseteq STRING /\ Vals \cap {"obj", "ref", "del"} = {}
  /\ DeltasCap \in Nat \ {0} /\ MaxPairs \in Nat

VARIABLES
  doc,      \* per entity: the model object in memory, as a document
  array,    \* per entity: the pairs its collector holds
  changes,  \* the entities in the map changes, i.e. with isDataChange set
  app,      \* what the application goroutine is doing
  todo,     \* entities its loop has still to save
  deltas,   \* the channel
  worker,   \* where the monitor's goroutine is
  item,     \* the delta it is processing
  db,       \* per entity: the document in the database
  lost      \* entities with a change the database refused for good

modelVars  == <<doc, array>>
appVars    == <<app, todo>>
workerVars == <<worker, item>>
vars == <<modelVars, changes, appVars, deltas, workerVars, db, lost>>

Without(d, ps) == [p \in DOMAIN d \ ps |-> d[p]]
Below(p)  == {q \in Paths : IsStrictPrefix(p, q)}
Region(p) == Below(p) \cup {p}
IsObj(p)  == Below(p) # {}
Empty     == Without(<<>>, {})
NewDoc    == (<<>> :> "obj")
NoItem    == [id |-> CHOOSE i \in Ids : TRUE, delta |-> Empty, delete |-> FALSE]

Documents == UNION {[D -> Vals \cup {"obj"}] : D \in SUBSET (Paths \cup {<<>>})}

TypeOK ==
  /\ doc \in [Ids -> Documents] /\ db \in [Ids -> Documents]
  /\ \A i \in Ids : array[i] \in Seq([key : Paths, val : Vals \cup {"ref", "del"}])
  /\ changes \subseteq Ids /\ todo \subseteq Ids /\ lost \subseteq Ids
  /\ app \in {"work", "save", "closing", "flush", "stopped"}
  /\ worker \in {"select", "process", "drain", "exited"}
  /\ \A k \in 1..Len(deltas) : deltas[k].id \in Ids
  /\ Len(deltas) <= DeltasCap

\* Entities loaded from the database, their collectors bound, the monitor started.
Init ==
  /\ doc = [i \in Ids |-> NewDoc] /\ db = doc
  /\ array = [i \in Ids |-> <<>>] /\ changes = {}
  /\ app = "work" /\ todo = {} /\ deltas = <<>>
  /\ worker = "select" /\ item = NoItem /\ lost = {}

-----------------------------------------------------------------------------
(* CatchDeltaData.                                                         *)

\* Mutant of Merge: children of a key that is set again stay in the tree.
MergeMut(tree, e) ==
  IF \E k \in DOMAIN tree : IsStrictPrefix(k, e.key) THEN tree
  ELSE (e.key :> e.val) @@ tree

\* One pair into the tree: skipped under a key that is there already, else it replaces
\* what was there at and below its key.
Merge(tree, e) ==
  IF \E k \in DOMAIN tree : IsStrictPrefix(k, e.key) THEN tree
  ELSE (e.key :> e.val) @@ Without(tree, Below(e.key))

\* The update: per key the part of a document to $set, or nothing to $unset.  A value
\* that is an object is read (ToDB) now, not when it was collected.
CatchDeltaData(i) ==
  LET tree == FoldLeft(Merge, Empty, array[i])
  IN  [k \in DOMAIN tree |->
         CASE tree[k] = "del" -> Empty
           [] tree[k] = "ref" -> [p \in Region(k) \cap DOMAIN doc[i] |-> doc[i][p]]
           [] OTHER -> (k :> tree[k])]

\* What an UpdateOne with upsert makes of document d: $set creates the objects above
\* its key, $unset removes.
Apply(d, delta) ==
  LET sets  == {k \in DOMAIN delta : delta[k] # Empty}
      above == {p \in Paths : \E k \in sets : IsStrictPrefix(p, k)}
      kept  == Without(d, UNION {Region(k) : k \in DOMAIN delta})
      new   == UNION {DOMAIN delta[k] : k \in sets}
  IN  IF DOMAIN delta = {} THEN d
      ELSE [p \in new |-> delta[CHOOSE k \in sets : p \in DOMAIN delta[k]][p]]
           @@ kept @@ [p \in above |-> "obj"] @@ NewDoc

-----------------------------------------------------------------------------
(* The application changes an entity.  The setters of the generated model  *)
(* call Collect and then the callback of BindMonitor.                      *)

Alive(i) == DOMAIN doc[i] # {}
Present(i, p) == Front(p) \in DOMAIN doc[i]

Collect(i, p, v) ==
  /\ app = "work" /\ Alive(i) /\ Len(array[i]) < MaxPairs
  /\ array' = [array EXCEPT ![i] = Append(@, [key |-> p, val |-> v])]
  /\ changes' = changes \cup {i}
  /\ UNCHANGED <<appVars, deltas, workerVars, db, lost>>

SetLeaf(i, p, v) ==
  /\ ~IsObj(p) /\ Present(i, p)
  /\ Collect(i, p, v)
  /\ doc' = [doc EXCEPT ![i] = (p :> v) @@ @]

\* A new object, which the collector holds by reference.
SetObj(i, p) ==
  /\ IsObj(p) /\ Present(i, p)
  /\ Collect(i, p, "ref")
  /\ doc' = [doc EXCEPT ![i] = (p :> "obj") @@ Without(@, Below(p))]

Unset(i, p) ==
  /\ p \in DOMAIN doc[i]
  /\ Collect(i, p, "del")
  /\ doc' = [doc EXCEPT ![i] = Without(@, Region(p))]

-----------------------------------------------------------------------------
(* Saving.                                                                 *)

Delta(i)  == [id |-> i, delta |-> CatchDeltaData(i), delete |-> FALSE]
Delete(i) == [id |-> i, delta |-> Empty, delete |-> TRUE]

Room == Len(deltas) < DeltasCap

\* Mutant of Saved: the entity counts as saved before it is known whether it is.
SavedMut(i) ==
  /\ deltas' = IF Room THEN Append(deltas, Delta(i)) ELSE deltas
  /\ array' = [array EXCEPT ![i] = <<>>]
  /\ changes' = changes \ {i}

\* PutEntity succeeds; Reset, SetDataChange(false) and delete from changes follow.
Saved(i) ==
  /\ Room
  /\ deltas' = Append(deltas, Delta(i))
  /\ array' = [array EXCEPT ![i] = <<>>]
  /\ changes' = changes \ {i}

\* SaveEntity: blocks while the channel is full.
SaveEntity(i) ==
  /\ app = "work" /\ Alive(i)
  /\ Saved(i)
  /\ UNCHANGED <<doc, appVars, workerVars, db, lost>>

SaveChangedDatas ==
  /\ app = "work" /\ changes # {}
  /\ app' = "save" /\ todo' = changes
  /\ UNCHANGED <<modelVars, changes, deltas, workerVars, db, lost>>

\* One round of its loop; an entity the channel has no room for stays in changes.
SaveOne(i) ==
  /\ app = "save" /\ i \in todo
  /\ Saved(i) \/ (~Room /\ UNCHANGED <<deltas, array, changes>>)
  /\ todo' = todo \ {i}
  /\ app' = IF todo' = {} THEN "work" ELSE "save"
  /\ UNCHANGED <<doc, workerVars, db, lost>>

\* DeleteEntity, after which the application lets go of the entity.
DeleteEntity(i) ==
  /\ app = "work" /\ Alive(i) /\ Room
  /\ doc' = [doc EXCEPT ![i] = Empty]
  /\ changes' = changes \ {i}
  /\ deltas' = Append(deltas, Delete(i))
  /\ UNCHANGED <<array, appVars, workerVars, db, lost>>

\* Stop closes the channel and cancels the context, waits for the goroutine, and saves
\* what is left in changes itself.
Stop ==
  /\ app = "work"
  /\ app' = "closing"
  /\ UNCHANGED <<modelVars, changes, todo, deltas, workerVars, db, lost>>

StopWaited ==
  /\ app = "closing" /\ worker = "exited"
  /\ app' = IF changes = {} THEN "stopped" ELSE "flush"
  /\ todo' = changes
  /\ UNCHANGED <<modelVars, changes, deltas, workerVars, db, lost>>

-----------------------------------------------------------------------------
(* The database.                                                           *)

Outcome(it, d) == IF it.delete THEN Empty ELSE Apply(d, it.delta)

\* processEntity returns nil.
Written(it) == db' = [db EXCEPT ![it.id] = Outcome(it, @)] /\ UNCHANGED lost

\* It fails: with a timeout the change may have been made nevertheless.
Retryable(it) == (db' = [db EXCEPT ![it.id] = Outcome(it, @)] \/ UNCHANGED db) /\ UNCHANGED lost

\* It fails and the change is not made.
Refused(it) == lost' = lost \cup {it.id} /\ UNCHANGED db

StopSave(i) ==
  /\ app = "flush" /\ i \in todo
  /\ Written(Delta(i)) \/ Refused(Delta(i))
  /\ todo' = todo \ {i}
  /\ app' = IF todo' = {} THEN "stopped" ELSE "flush"
  /\ UNCHANGED <<modelVars, changes, deltas, workerVars>>

\* case item := <-m.deltas
Take ==
  /\ worker = "select" /\ deltas # <<>>
  /\ item' = Head(deltas) /\ deltas' = Tail(deltas) /\ worker' = "process"
  /\ UNCHANGED <<modelVars, changes, appVars, db, lost>>

\* mustProcessEntity: one attempt; it sleeps and tries again, or ends.
Process ==
  /\ worker = "process"
  /\ \/ (Written(item) \/ Refused(item)) /\ worker' = "select" /\ item' = NoItem
     \/ Retryable(item) /\ UNCHANGED workerVars
  /\ UNCHANGED <<modelVars, changes, appVars, deltas>>

Cancelled == app = "closing"

\* case <-ctx.Done()
Quit ==
  /\ worker = "select" /\ Cancelled
  /\ worker' = "drain"
  /\ UNCHANGED <<modelVars, changes, appVars, deltas, item, db, lost>>

\* The loop over the closed channel: processEntity once, whatever it returns.
Drain ==
  /\ worker = "drain" /\ deltas # <<>>
  /\ Written(Head(deltas)) \/ Refused(Head(deltas))
  /\ deltas' = Tail(deltas)
  /\ UNCHANGED <<modelVars, changes, appVars, workerVars>>

\* Mutant of DrainEnd: what is in the channel is left there.
DrainEndMut ==
  /\ worker = "drain"
  /\ worker' = "exited"
  /\ UNCHANGED <<modelVars, changes, appVars, deltas, item, db, lost>>

DrainEnd ==
  /\ worker = "drain" /\ deltas = <<>>
  /\ worker' = "exited"
  /\ UNCHANGED <<modelVars, changes, appVars, deltas, item, db, lost>>

-----------------------------------------------------------------------------
Application ==
  \/ \E i \in Ids, p \in Paths : SetObj(i, p) \/ Unset(i, p) \/ \E v \in Vals : SetLeaf(i, p, v)
  \/ \E i \in Ids : SaveEntity(i) \/ SaveOne(i) \/ DeleteEntity(i) \/ StopSave(i)
  \/ SaveChangedDatas \/ Stop \/ StopWaited

Next == Application \/ Take \/ Process \/ Quit \/ Drain \/ DrainEnd

Spec == Init /\ [][Next]_vars

-----------------------------------------------------------------------------
\* What is under way to the database for entity i, oldest first.
UnderWay(i) ==
  SelectSeq((IF worker = "process" THEN <<item>> ELSE <<>>) \o deltas, LAMBDA it : it.id = i)
  \o (IF i \in changes THEN <<Delta(i)>> ELSE <<>>)

\* Nothing is lost between model and database: the document in the database, with the
\* deltas in the channel and the changes not yet saved applied to it in order, is the
\* model, whatever was merged, retried, put off by a full channel or written twice
\* (db/mongo/delta/collector.go 68-129, monitor.go 79-200).
NothingLost ==
  \A i \in Ids \ lost :
    FoldLeft(LAMBDA d, it : Outcome(it, d), db[i], UnderWay(i)) = doc[i]

\* No key of an update lies under another: MongoDB refuses such an update as a conflict
\* (db/mongo/delta/collector.go 78-91).
NoConflictingKeys ==
  \A i \in Ids : \A k, l \in DOMAIN CatchDeltaData(i) : ~IsStrictPrefix(k, l)

\* When Stop has returned, the database holds the model: the channel was drained before
\* the changes still open were saved (db/mongo/delta/monitor.go 53-77).
StopSavesAll == app = "stopped" => \A i \in Ids \ lost : db[i] = doc[i]

=============================================================================
