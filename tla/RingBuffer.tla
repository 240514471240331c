----------------------------- MODULE RingBuffer -----------------------------
(***************************************************************************)
(* The growing ring buffer that holds KCP's queues (kcp/ringbuffer.go).    *)
(* One slot always stays empty, so head = tail means empty.                *)
(***************************************************************************)
EXTENDS Naturals, Sequences

CONSTANTS
  T,                 \* elements
  zero,              \* the zero value of a cleared slot
  RINGBUFFER_MIN,    \* smallest size
  RINGBUFFER_EXP,    \* size up to which growing doubles
  InitSize,          \* size asked of NewRingBuffer
  MaxSize            \* bound: the buffer is not grown beyond it

VARIABLES head, tail, elements, size    \* size = len(elements)

vars == <<head, tail, elements, size>>

Slots == 0..(size - 1)

TypeOK ==
  /\ size \in Nat \ {0, 1} /\ head \in Slots /\ tail \in Slots
  /\ elements \in [Slots -> T \cup {zero}]

NewSize == IF InitSize <= RINGBUFFER_MIN THEN RINGBUFFER_MIN ELSE InitSize

\* NewRingBuffer.
Init ==
  /\ size = NewSize /\ head = 0 /\ tail = 0
  /\ elements = [i \in 0..(NewSize - 1) |-> zero]

RingLen == IF head <= tail THEN tail - head ELSE size - head + tail

\* The slot n places after i.
Following(i, n) == (i + n) % size

IsFull == Following(tail, 1) = head

\* The elements in the order ForEach visits them: up to tail, or to the end and on from 0.
ForEach ==
  IF head <= tail THEN [k \in 1..(tail - head) |-> elements[head + k - 1]]
  ELSE [k \in 1..(size - head) |-> elements[head + k - 1]] \o [k \in 1..tail |-> elements[k - 1]]

-----------------------------------------------------------------------------
\* The size grow chooses.
Grown ==
  IF size < RINGBUFFER_MIN THEN RINGBUFFER_MIN
  ELSE IF size < RINGBUFFER_EXP THEN size * 2
  ELSE size + (size + 9) \div 10

\* grow's copy: the elements in order, from 0 on.
Copied(n) == [i \in 0..(n - 1) |-> IF i < RingLen THEN ForEach[i + 1] ELSE zero]

Push(v) ==
  \/ /\ ~IsFull
     /\ elements' = [elements EXCEPT ![tail] = v]
     /\ tail' = Following(tail, 1)
     /\ UNCHANGED <<head, size>>
  \/ /\ IsFull /\ Grown <= MaxSize
     /\ size' = Grown /\ head' = 0
     /\ elements' = [Copied(Grown) EXCEPT ![RingLen] = v]
     /\ tail' = (RingLen + 1) % Grown

Pop ==
  /\ RingLen > 0
  /\ elements' = [elements EXCEPT ![head] = zero]
  /\ head' = Following(head, 1)
  /\ UNCHANGED <<tail, size>>

\* The slots that hold elements.
Used == {i \in Slots : IF head <= tail THEN head <= i /\ i < tail ELSE head <= i \/ i < tail}

Clear ==
  /\ elements' = [i \in Slots |-> IF i \in Used THEN zero ELSE elements[i]]
  /\ head' = 0 /\ tail' = 0
  /\ UNCHANGED size

\* Discard of n elements; of all of them it is Clear.
Discard(n) ==
  \/ n >= RingLen /\ Clear
  \/ /\ n < RingLen
     /\ elements' = [i \in Slots |-> IF \E k \in 0..(n - 1) : i = Following(head, k) THEN zero ELSE elements[i]]
     /\ head' = Following(head, n)
     /\ UNCHANGED <<tail, size>>

Next == (\E v \in T : Push(v)) \/ Pop \/ Clear \/ (\E n \in 0..size : Discard(n))

Spec == Init /\ [][Next]_vars

-----------------------------------------------------------------------------
\* The slots of elements are in use and all others cleared.
ClearedBehind == \A i \in Slots : elements[i] = zero <=> i \notin Used

\* As a queue: Push appends, growing keeps the order, Pop takes the oldest and Discard the
\* n oldest elements, wherever the ring wraps; and nothing popped, discarded or left behind
\* by growing is retained (kcp/ringbuffer.go 52-110, 169-186, 208-237).
IsQueue ==
  [][LET q == ForEach IN
     /\ \A v \in T : Push(v) => ForEach' = Append(q, v)
     /\ Pop => q # <<>> /\ ForEach' = Tail(q)
     /\ \A n \in 0..size : Discard(n) => ForEach' = SubSeq(q, n + 1, Len(q))
     /\ ClearedBehind']_vars

=============================================================================
