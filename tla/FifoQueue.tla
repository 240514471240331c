------------------------------ MODULE FifoQueue ------------------------------
(***************************************************************************)
(* What the queue of ds/staticlist promises: a bounded FIFO queue from     *)
(* which any element can be removed, or moved to the back, by the node     *)
(* Push returned for it (README.md: "静态链表实现的FIFO队列，支持O(1)时间删除任意元素").*)
(***************************************************************************)
EXTENDS Naturals, Sequences, Functions

CONSTANTS
  Nodes,    \* what Push returns
  Vals,     \* values queued
  Cap       \* capacity

VARIABLES
  queue,    \* the elements, oldest first
  refused   \* the last call was a Push that returned nil

vars == <<queue, refused>>

InUse == {queue[k].node : k \in 1..Len(queue)}

Without(n) == SelectSeq(queue, LAMBDA e : e.node # n)

Init == queue = <<>> /\ refused = FALSE

\* Refused exactly when the queue is full.
Push(v) ==
  \/ /\ Len(queue) < Cap
     /\ \E n \in Nodes \ InUse : queue' = Append(queue, [node |-> n, val |-> v])
     /\ refused' = FALSE
  \/ Len(queue) = Cap /\ refused' = TRUE /\ UNCHANGED queue

Remove(n) == n \in InUse /\ queue' = Without(n) /\ refused' = FALSE

MoveToBack(n) ==
  /\ \E e \in Range(queue) : e.node = n /\ queue' = Append(Without(n), e)
  /\ refused' = FALSE

\* Pop, PopRange and Clear: the k oldest elements go.
PopRange(k) == queue' = SubSeq(queue, k + 1, Len(queue)) /\ refused' = FALSE

Next ==
  \/ \E v \in Vals : Push(v)
  \/ \E n \in Nodes : Remove(n) \/ MoveToBack(n)
  \/ \E k \in 1..Len(queue) : PopRange(k)

Spec == Init /\ [][Next]_vars
=============================================================================
