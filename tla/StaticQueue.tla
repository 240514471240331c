----------------------------- MODULE StaticQueue -----------------------------
(***************************************************************************)
(* The queue of ds/staticlist: a doubly linked list with a sentinel whose  *)
(* nodes live in the slots of a StaticList, which keeps the free slots in  *)
(* a list of their own.  A slot's field Next is the link of the free list  *)
(* while the slot is free and its own index while it is queued.            *)
(***************************************************************************)
EXTENDS Integers, Sequences, Functions

SX == INSTANCE SequencesExt

CONSTANTS
  Cap,     \* capacity given to NewQueue
  Vals     \* values queued

Null  == -1
Root  == 0
Slots == 0..Cap
Zero  == 0

VARIABLES
  Next_,   \* per slot: Node.Next
  next,    \* per slot: QNode.next
  prev,    \* per slot: QNode.prev
  val,     \* per slot: QNode.Value
  free,    \* StaticList.free
  len,     \* Queue.len
  refused  \* the last call was a Push that returned nil

vars == <<Next_, next, prev, val, free, len, refused>>

Link == Slots \cup {Null}

TypeOK ==
  /\ Next_ \in [Slots -> Link] /\ next \in [Slots -> Link] /\ prev \in [Slots -> Link]
  /\ val \in [Slots -> Vals \cup {Zero}] /\ free \in Link /\ len \in 0..Cap /\ refused \in BOOLEAN

\* NewQueue: Reset of the pool, then the root is its first slot.
Init ==
  /\ Next_ = [s \in Slots |-> IF s = Root \/ s = Cap THEN Null ELSE s + 1]
  /\ free = IF Cap = 0 THEN Null ELSE 1
  /\ next = [s \in Slots |-> IF s = Root THEN Root ELSE Null] /\ prev = next
  /\ val = [s \in Slots |-> Zero] /\ len = 0 /\ refused = FALSE

-----------------------------------------------------------------------------
(* The lists l = [next, prev] with a node taken out or put at the back.    *)

Lists == [next |-> next, prev |-> prev]

Unlink(l, n) ==
  [l EXCEPT !.next[l.prev[n]] = l.next[n], !.prev[l.next[n]] = l.prev[n]]

LinkBack(l, n) ==
  LET tail == l.prev[Root] IN
  [l EXCEPT !.next[tail] = n, !.next[n] = Root, !.prev[n] = tail, !.prev[Root] = n]

SetLists(l) == next' = l.next /\ prev' = l.prev

-----------------------------------------------------------------------------
OwnIndex(p) == p

\* Malloc takes the first free slot; without one Push returns nil.
Push(v) ==
  LET p == free IN
  \/ /\ p # Null
     /\ free' = Next_[p]
     /\ Next_' = [Next_ EXCEPT ![p] = OwnIndex(p)]
     /\ val' = [val EXCEPT ![p] = v]
     /\ SetLists(LinkBack(Lists, p))
     /\ len' = len + 1 /\ refused' = FALSE
  \/ p = Null /\ refused' = TRUE /\ UNCHANGED <<Next_, next, prev, val, free, len>>

\* Mutant of Removed: the slot does not go back to the pool.
RemovedMut(st, n) ==
  LET p == st.link[n]
      l == Unlink(st.lists, n)
  IN  [st EXCEPT !.lists = [l EXCEPT !.next[p] = Null, !.prev[p] = Null],
                 !.val[p] = Zero, !.len = @ - 1]

\* What PopRange has left of the state st after removing node n: Free clears the node
\* and puts its slot in front of the free list.
Removed(st, n) ==
  LET p == st.link[n]
      l == Unlink(st.lists, n)
  IN  [st EXCEPT !.lists = [l EXCEPT !.next[p] = Null, !.prev[p] = Null],
                 !.val[p] = Zero, !.link[p] = st.free, !.free = p, !.len = @ - 1]

State == [lists |-> Lists, link |-> Next_, val |-> val, free |-> free, len |-> len]

SetState(st) ==
  /\ SetLists(st.lists) /\ Next_' = st.link /\ val' = st.val
  /\ free' = st.free /\ len' = st.len /\ refused' = FALSE

\* The queued nodes, from the front; at most Cap of them are followed.
Walk ==
  LET w[k \in 0..Cap] ==
        IF k = 0 THEN <<Root>>
        ELSE IF next[SX!Last(w[k - 1])] \in {Root, Null} THEN w[k - 1]
        ELSE Append(w[k - 1], next[SX!Last(w[k - 1])])
  IN  Tail(w[Cap])

\* Callers pass nodes they got from Push and have not removed.
Remove(n) == n \in Range(Walk) /\ SetState(Removed(State, n))

MoveToBack(n) ==
  /\ n \in Range(Walk)
  /\ IF prev[Root] = n THEN UNCHANGED <<next, prev>>
     ELSE SetLists(LinkBack(Unlink(Lists, n), n))
  /\ refused' = FALSE
  /\ UNCHANGED <<Next_, val, free, len>>

\* PopRange whose function ends it after k nodes; Pop is k = 1, Clear is all of them.
PopRange(k) ==
  SetState(SX!FoldLeft(LAMBDA st, i : Removed(st, st.lists.next[Root]), State, [i \in 1..k |-> i]))

Next ==
  \/ \E v \in Vals : Push(v)
  \/ \E n \in Slots \ {Root} : Remove(n) \/ MoveToBack(n)
  \/ \E k \in 1..len : PopRange(k)

Spec == Init /\ [][Next]_vars

-----------------------------------------------------------------------------
\* The linked list implements the FIFO queue with removal, over any history: slots are
\* neither lost nor given out twice, so Push is refused exactly when the queue is full,
\* and a node removed from the middle or moved leaves the others in order
\* (ds/staticlist/staticlist.go 26-63, queue.go 36-138).
Fifo ==
  INSTANCE FifoQueue WITH
    Nodes <- Slots \ {Root},
    queue <- [k \in 1..Len(Walk) |-> [node |-> Walk[k], val |-> val[Walk[k]]]]

ImplementsFifo == Fifo!Spec

=============================================================================
