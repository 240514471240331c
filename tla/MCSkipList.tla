----------------------------- MODULE MCSkipList -----------------------------
(***************************************************************************)
(* Instances for TLC of the containers: SkipList, and StaticQueue and      *)
(* RingBuffer next to it.  Containers share no state, so a behaviour       *)
(* exercises one of them: every state of each is reached, and the product  *)
(* of the three would add none.                                            *)
(***************************************************************************)
EXTENDS SkipList

CONSTANTS
  Cap, Vals,                                         \* of StaticQueue
  T, zero, RINGBUFFER_MIN, RINGBUFFER_EXP, InitSize, MaxSize   \* of RingBuffer

VARIABLES
  used,                                     \* the container exercised
  Next_, next, prev, val, free, len, refused,
  head, tail, elements, size

queueVars == <<Next_, next, prev, val, free, len, refused>>
ringVars  == <<head, tail, elements, size>>

SQ == INSTANCE StaticQueue
RB == INSTANCE RingBuffer

InitAll ==
  /\ used \in {"skiplist", "queue", "ring"}
  /\ Init /\ SQ!Init /\ RB!Init

NextAll ==
  /\ \/ used = "skiplist" /\ Next /\ UNCHANGED <<queueVars, ringVars>>
     \/ used = "queue" /\ SQ!Next /\ UNCHANGED <<vars, ringVars>>
     \/ used = "ring" /\ RB!Next /\ UNCHANGED <<vars, queueVars>>
  /\ UNCHANGED used

SpecAll == InitAll /\ [][NextAll]_<<used, vars, queueVars, ringVars>>

\* Over any history of its calls the queue of ds/staticlist implements a FIFO queue with
\* removal by node (ds/staticlist/queue.go 36-138, staticlist.go 26-63), and the ring buffer
\* is a queue that clears what it gives up, wherever it wraps and however it has grown
\* (kcp/ringbuffer.go 52-237).
QueuesAreFifo == SQ!ImplementsFifo /\ RB!IsQueue
=============================================================================
