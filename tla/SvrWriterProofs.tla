--------------------------- MODULE SvrWriterProofs ---------------------------
(* Why the reply path of the rpc server neither loses, reorders nor strands a  *)
(* reply and never sends on a closed channel, for any number of connections    *)
(* and requests and any channel and batch size.                                *)
EXTENDS SvrWriter, SequenceTheorems, TLAPS

Typed ==
  /\ pc \in [Conns -> {"none", "start", "select", "flush", "exit", "done"}]
  /\ writeChan \in [Conns -> Seq(Reqs)] /\ buffered \in [Conns -> Seq(Reqs)]
  /\ wire \in [Conns -> Seq(Reqs)] /\ accepted \in [Conns -> Seq(Reqs)]
  /\ at \in [Reqs -> {"none", "handle", "rlock", "send", "done"}]
  /\ from \in [Reqs -> Conns]

\* The two conjuncts of the checked invariants for one connection and what they need: a
\* writer is closed exactly when its loop has ended, so that a closed one neither takes nor
\* flushes a reply, and a loop starts with an empty batch.
ConnInv(c) ==
  /\ accepted[c] = wire[c] \o buffered[c] \o writeChan[c]
  /\ pc[c] = "select" /\ buffered[c] # <<>> => writeChan[c] # <<>>
  /\ pc[c] = "done" /\ c \notin failed /\ c \in active => wire[c] = accepted[c]
  /\ c \in closed <=> pc[c] = "done"
  /\ pc[c] \in {"none", "start"} => buffered[c] = <<>>

WriterInv == Typed /\ NoSendOnClosed /\ \A c \in Conns : ConnInv(c)

-----------------------------------------------------------------------------
(* The three stretches of a reply's way: wire w, batch b and channel q.    *)

LEMMA RepliesTyped ==
    ASSUME Typed, NEW c \in Conns
    PROVE  /\ writeChan[c] \in Seq(Reqs) /\ buffered[c] \in Seq(Reqs)
           /\ wire[c] \in Seq(Reqs) /\ accepted[c] \in Seq(Reqs)
  BY DEF Typed

LEMMA Regroup ==
    ASSUME NEW s \in Seq(Reqs), NEW t \in Seq(Reqs), NEW u \in Seq(Reqs)
    PROVE  (s \o t) \o u = s \o (t \o u)
  BY ConcatAssociative

LEMMA SentKeepsOrder ==
    ASSUME NEW w \in Seq(Reqs), NEW b \in Seq(Reqs), NEW q \in Seq(Reqs), NEW r \in Reqs
    PROVE  Append(w \o b \o q, r) = w \o b \o Append(q, r)
  <1>1. w \o b \in Seq(Reqs) /\ (w \o b) \o q \in Seq(Reqs) /\ <<r>> \in Seq(Reqs)
    BY ConcatProperties
  <1>2. Append((w \o b) \o q, r) = ((w \o b) \o q) \o <<r>> /\ Append(q, r) = q \o <<r>>
    BY <1>1, AppendIsConcat
  <1>3. ((w \o b) \o q) \o <<r>> = (w \o b) \o (q \o <<r>>)
    BY <1>1, Regroup
  <1> QED BY <1>2, <1>3

\* A flush of n of the replies in b leaves the others in the batch.
LEMMA FlushKeepsOrder ==
    ASSUME NEW w \in Seq(Reqs), NEW b \in Seq(Reqs), NEW n \in 0..Len(b)
    PROVE  /\ SubSeq(b, 1, n) \in Seq(Reqs) /\ SubSeq(b, n + 1, Len(b)) \in Seq(Reqs)
           /\ (w \o SubSeq(b, 1, n)) \o SubSeq(b, n + 1, Len(b)) = w \o b
           /\ w \o SubSeq(b, 1, n) \in Seq(Reqs)
  <1>1. Len(b) \in Nat /\ n \in Nat /\ n <= Len(b) /\ \A i \in 1..Len(b) : b[i] \in Reqs
    BY LenProperties
  <1>2. SubSeq(b, 1, n) \in Seq(Reqs)
    BY <1>1, SubSeqProperties
  <1>3. SubSeq(b, n + 1, Len(b)) \in Seq(Reqs)
    BY <1>1, SubSeqProperties
  <1>4. SubSeq(b, 1, n) \o SubSeq(b, n + 1, Len(b)) = b
    <2>1. 1 \in 1..Len(b) + 1 /\ n \in 1 - 1..Len(b) /\ Len(b) \in n..Len(b)
      BY <1>1
    <2> QED BY <2>1, ConcatAdjacentSubSeq, SubSeqFull
  <1> DEFINE x == SubSeq(b, 1, n)  y == SubSeq(b, n + 1, Len(b))
  <1>5. x \in Seq(Reqs) /\ y \in Seq(Reqs) /\ x \o y = b
    BY <1>2, <1>3, <1>4
  <1> HIDE DEF x, y
  <1>6. (w \o x) \o y = w \o (x \o y)
    BY <1>5, Regroup
  <1>7. w \o x \in Seq(Reqs)
    BY <1>5, ConcatProperties
  <1>8. (w \o x) \o y = w \o b
    BY <1>5, <1>6
  <1> QED BY <1>5, <1>7, <1>8 DEF x, y

-----------------------------------------------------------------------------
\* What a flush of the replies q on c does, whole or failed: they are on the wire or still
\* in the batch, in order.
LEMMA FlushStep ==
    ASSUME Typed, NEW c \in Conns, NEW q \in Seq(Reqs), FlushAll(c, q) \/ FlushFails(c, q)
    PROVE  /\ wire' \in [Conns -> Seq(Reqs)] /\ buffered' \in [Conns -> Seq(Reqs)]
           /\ wire'[c] \o buffered'[c] = wire[c] \o q
           /\ FlushAll(c, q) => wire'[c] = wire[c] \o q /\ buffered'[c] = <<>> /\ failed' = failed
           /\ FlushFails(c, q) => failed' = failed \cup {c}
           /\ \A d \in Conns \ {c} : wire'[d] = wire[d] /\ buffered'[d] = buffered[d]
  <1> USE DEF Typed
  <1>1. CASE FlushAll(c, q)
    <2>1. wire[c] \o q \in Seq(Reqs) /\ (wire[c] \o q) \o <<>> = wire[c] \o q
      BY ConcatProperties, ConcatEmptySeq
    <2>2. /\ wire' \in [Conns -> Seq(Reqs)] /\ buffered' \in [Conns -> Seq(Reqs)]
          /\ wire'[c] = wire[c] \o q /\ buffered'[c] = <<>> /\ failed' = failed
          /\ \A d \in Conns \ {c} : wire'[d] = wire[d] /\ buffered'[d] = buffered[d]
      BY <1>1, <2>1 DEF FlushAll
    <2>3. FlushFails(c, q) => failed' = failed \cup {c}
      BY DEF FlushFails
    <2> QED BY <2>1, <2>2, <2>3
  <1>2. CASE FlushFails(c, q)
    <2>1. PICK n \in 0..Len(q) :
            /\ wire' = [wire EXCEPT ![c] = @ \o SubSeq(q, 1, n)]
            /\ buffered' = [buffered EXCEPT ![c] = SubSeq(q, n + 1, Len(q))]
            /\ failed' = failed \cup {c}
      BY <1>2 DEF FlushFails
    <2>2. /\ SubSeq(q, n + 1, Len(q)) \in Seq(Reqs) /\ wire[c] \o SubSeq(q, 1, n) \in Seq(Reqs)
          /\ (wire[c] \o SubSeq(q, 1, n)) \o SubSeq(q, n + 1, Len(q)) = wire[c] \o q
      BY FlushKeepsOrder
    <2>3. /\ wire' \in [Conns -> Seq(Reqs)] /\ buffered' \in [Conns -> Seq(Reqs)]
          /\ wire'[c] \o buffered'[c] = wire[c] \o q
          /\ \A d \in Conns \ {c} : wire'[d] = wire[d] /\ buffered'[d] = buffered[d]
      BY <2>1, <2>2
    <2>4. FlushAll(c, q) => wire'[c] = wire[c] \o q /\ buffered'[c] = <<>> /\ failed' = failed
      BY DEF FlushAll
    <2> QED BY <2>1, <2>3, <2>4
  <1> QED BY <1>1, <1>2

LEMMA WriterInit == Init => WriterInv
  BY ConcatEmptySeq, EmptySeq DEF Init, WriterInv, Typed, ConnInv, NoSendOnClosed

\* A connection that an action leaves alone, or closes for use.
LEMMA SameConn ==
    ASSUME NEW c \in Conns, ConnInv(c),
           wire'[c] = wire[c], buffered'[c] = buffered[c], writeChan'[c] = writeChan[c],
           accepted'[c] = accepted[c], pc'[c] = pc[c], c \in failed => c \in failed',
           c \in active' => c \in active, c \in closed' <=> c \in closed
    PROVE  ConnInv(c)'
  BY DEF ConnInv

\* The steps that touch neither a writer's loop nor its replies.
LEMMA QuietStep ==
    ASSUME WriterInv, UNCHANGED <<pc, chanVars, failed, from>>, active' \subseteq active,
           at' \in [Reqs -> {"none", "handle", "rlock", "send", "done"}],
           \A r \in Reqs : at'[r] = "send" => at[r] = "send" \/ from[r] \notin closed
    PROVE  WriterInv'
  <1>1. Typed' /\ NoSendOnClosed'
    BY DEF WriterInv, Typed, NoSendOnClosed, chanVars
  <1>2. ASSUME NEW c \in Conns PROVE ConnInv(c)'
    BY <1>2, SameConn DEF WriterInv, chanVars
  <1> QED BY <1>1, <1>2 DEF WriterInv

\* The steps of the loop of c that keep its replies where they are.
LEMMA LoopStep ==
    ASSUME WriterInv, NEW c \in Conns,
           UNCHANGED <<chanVars, failed, reqVars>>, active' \subseteq active \cup {c},
           \/ pc[c] = "none" /\ pc' = [pc EXCEPT ![c] = "start"]
           \/ pc[c] = "start" /\ pc' = [pc EXCEPT ![c] = "select"]
           \/ pc[c] = "select" /\ pc' = [pc EXCEPT ![c] = "exit"]
    PROVE  WriterInv'
  <1>1. Typed' /\ NoSendOnClosed'
    BY DEF WriterInv, Typed, NoSendOnClosed, chanVars, reqVars
  <1>2. ASSUME NEW d \in Conns, d # c PROVE ConnInv(d)'
    BY <1>2, SameConn DEF WriterInv, Typed, chanVars
  <1>3. ConnInv(c)'
    BY DEF WriterInv, Typed, ConnInv, chanVars
  <1> QED BY <1>1, <1>2, <1>3 DEF WriterInv

LEMMA SendStep ==
    ASSUME WriterInv, NEW r \in Reqs, Send(r)
    PROVE  WriterInv'
  <1> USE DEF WriterInv, Typed
  <1>0. PICK c \in Conns : c = from[r]
    OBVIOUS
  <1>1. c \notin closed /\ pc[c] # "done"
    BY <1>0 DEF Send, NoSendOnClosed, ConnInv
  <1>2. /\ writeChan'[c] = Append(writeChan[c], r) /\ accepted'[c] = Append(accepted[c], r)
        /\ wire' = wire /\ buffered' = buffered
    BY <1>0 DEF Send
  <1>3. Append(writeChan[c], r) \in Seq(Reqs) /\ Append(accepted[c], r) \in Seq(Reqs)
        /\ Append(writeChan[c], r) # <<>>
    <2> HIDE DEF WriterInv, Typed
    <2>1. writeChan[c] \in Seq(Reqs) /\ accepted[c] \in Seq(Reqs)
      BY RepliesTyped DEF WriterInv
    <2> QED BY <2>1, AppendProperties
  <1>4. Typed' /\ NoSendOnClosed'
    BY <1>0, <1>3 DEF Send, NoSendOnClosed
  <1>5. ASSUME NEW d \in Conns, d # c PROVE ConnInv(d)'
    BY <1>0, <1>5, SameConn DEF Send, connVars
  <1>6. ConnInv(c)'
    <2>1. accepted[c] = wire[c] \o buffered[c] \o writeChan[c]
      BY <1>1 DEF ConnInv
    <2>2. accepted'[c] = wire'[c] \o buffered'[c] \o writeChan'[c]
      <3> HIDE DEF WriterInv, Typed
      <3>1. wire[c] \in Seq(Reqs) /\ buffered[c] \in Seq(Reqs) /\ writeChan[c] \in Seq(Reqs)
        BY RepliesTyped DEF WriterInv
      <3>2. Append(wire[c] \o buffered[c] \o writeChan[c], r) = wire[c] \o buffered[c] \o Append(writeChan[c], r)
        BY <3>1, SentKeepsOrder
      <3> QED BY <1>2, <2>1, <3>2
    <2> QED BY <1>1, <1>2, <1>3, <2>2 DEF Send, ConnInv, connVars
  <1> QED BY <1>4, <1>5, <1>6

LEMMA TakeStep ==
    ASSUME WriterInv, NEW c \in Conns, LoopTake(c)
    PROVE  WriterInv'
  <1> USE DEF WriterInv, Typed
  <1>1. /\ writeChan[c] # <<>> /\ writeChan'[c] = Tail(writeChan[c])
        /\ buffered'[c] = Append(buffered[c], Head(writeChan[c]))
        /\ wire' = wire /\ accepted' = accepted
    BY DEF LoopTake
  <1>2. /\ wire[c] \o Append(buffered[c], Head(writeChan[c])) \o Tail(writeChan[c])
             = wire[c] \o buffered[c] \o writeChan[c]
        /\ Append(buffered[c], Head(writeChan[c])) \in Seq(Reqs) /\ Tail(writeChan[c]) \in Seq(Reqs)
    <2> HIDE DEF WriterInv, Typed
    <2>1. wire[c] \in Seq(Reqs) /\ buffered[c] \in Seq(Reqs) /\ writeChan[c] \in Seq(Reqs)
      BY RepliesTyped DEF WriterInv
    <2>2. writeChan[c] # <<>>
      BY <1>1
    <2>3. PICK w \in Seq(Reqs), b \in Seq(Reqs), q \in Seq(Reqs) :
            w = wire[c] /\ b = buffered[c] /\ q = writeChan[c] /\ q # <<>>
      BY <2>1, <2>2
    <2> DEFINE h == Head(q)  t == Tail(q)
    <2>4. h \in Reqs /\ t \in Seq(Reqs) /\ q = <<h>> \o t
      BY <2>3, HeadTailProperties
    <2> HIDE DEF h, t
    <2>5. <<h>> \in Seq(Reqs) /\ w \o b \in Seq(Reqs) /\ b \o <<h>> \in Seq(Reqs)
      BY <2>4, ConcatProperties
    <2>6. Append(b, h) = b \o <<h>> /\ Append(b, h) \in Seq(Reqs)
      BY <2>4, AppendIsConcat, AppendProperties
    <2>7. w \o (b \o <<h>>) = (w \o b) \o <<h>>
      BY <2>5, Regroup
    <2>8. ((w \o b) \o <<h>>) \o t = (w \o b) \o (<<h>> \o t)
      BY <2>4, <2>5, Regroup
    <2>9. w \o Append(b, h) \o t = w \o b \o q
      BY <2>4, <2>6, <2>7, <2>8
    <2> QED BY <2>3, <2>4, <2>6, <2>9 DEF h, t
  <1>3. Typed' /\ NoSendOnClosed'
    <2>1. writeChan' \in [Conns -> Seq(Reqs)] /\ buffered' \in [Conns -> Seq(Reqs)]
      BY <1>2 DEF LoopTake
    <2>2. pc' \in [Conns -> {"none", "start", "select", "flush", "exit", "done"}]
      BY DEF LoopTake
    <2> QED BY <2>1, <2>2 DEF LoopTake, NoSendOnClosed, reqVars
  <1>4. ASSUME NEW d \in Conns, d # c PROVE ConnInv(d)'
    BY <1>4, SameConn DEF LoopTake, connVars
  <1>5. ConnInv(c)'
    <2>1. pc'[c] = "flush" \/ (pc'[c] = "select" /\ Len(writeChan'[c]) # 0)
      BY DEF LoopTake, FlushDue
    <2>2. pc'[c] = "select" => writeChan'[c] # <<>>
      BY <2>1, EmptySeq
    <2>3. accepted'[c] = wire'[c] \o buffered'[c] \o writeChan'[c]
      BY <1>1, <1>2 DEF ConnInv
    <2>4. c \notin closed /\ closed' = closed
      BY DEF LoopTake, ConnInv
    <2> QED BY <2>1, <2>2, <2>3, <2>4 DEF ConnInv
  <1> QED BY <1>3, <1>4, <1>5

LEMMA FlushInLoop ==
    ASSUME WriterInv, NEW c \in Conns, LoopFlush(c)
    PROVE  WriterInv'
  <1> USE DEF WriterInv, Typed
  <1>1. /\ pc[c] = "flush" /\ pc' = [pc EXCEPT ![c] = pc'[c]]
        /\ \/ FlushAll(c, buffered[c]) /\ pc'[c] = "select"
           \/ FlushFails(c, buffered[c]) /\ pc'[c] = "exit"
        /\ active' \subseteq active /\ UNCHANGED <<writeChan, closed, accepted, at, from>>
    BY DEF LoopFlush, reqVars
  <1>2. /\ wire' \in [Conns -> Seq(Reqs)] /\ buffered' \in [Conns -> Seq(Reqs)]
        /\ wire'[c] \o buffered'[c] = wire[c] \o buffered[c]
        /\ FlushAll(c, buffered[c]) => buffered'[c] = <<>> /\ failed' = failed
        /\ FlushFails(c, buffered[c]) => failed' = failed \cup {c}
        /\ \A d \in Conns \ {c} : wire'[d] = wire[d] /\ buffered'[d] = buffered[d]
    BY <1>1, FlushStep
  <1>3. Typed' /\ NoSendOnClosed'
    BY <1>1, <1>2 DEF NoSendOnClosed
  <1>4. ASSUME NEW d \in Conns, d # c PROVE ConnInv(d)'
    <2>1. pc'[d] = pc[d] /\ (d \in failed => d \in failed')
      BY <1>1, <1>2, <1>4
    <2> QED BY <1>1, <1>2, <1>4, <2>1, SameConn
  <1>5. ConnInv(c)'
    <2>1. accepted'[c] = wire'[c] \o buffered'[c] \o writeChan'[c]
      BY <1>1, <1>2 DEF ConnInv
    <2>2. pc'[c] \in {"select", "exit"} /\ (pc'[c] = "select" => buffered'[c] = <<>>)
      BY <1>1, <1>2
    <2>3. c \notin closed'
      BY <1>1 DEF ConnInv
    <2> QED BY <2>1, <2>2, <2>3 DEF ConnInv
  <1> QED BY <1>3, <1>4, <1>5

LEMMA CloseStep ==
    ASSUME WriterInv, NEW c \in Conns, BeforeClose(c)
    PROVE  WriterInv'
  <1> USE DEF WriterInv, Typed
  <1>1. /\ pc[c] = "exit" /\ pc' = [pc EXCEPT ![c] = "done"] /\ closed' = closed \cup {c}
        /\ \A r \in Reqs : at[r] = "send" => from[r] # c
        /\ UNCHANGED <<accepted, active, at, from>>
    BY DEF BeforeClose, Unlocked, reqVars
  <1>2. NoSendOnClosed'
    BY <1>1 DEF NoSendOnClosed
  <1>3. CASE c \notin active /\ UNCHANGED <<writeChan, buffered, wire, failed>>
    <2>1. Typed'
      BY <1>1, <1>3
    <2>2. ASSUME NEW d \in Conns, d # c PROVE ConnInv(d)'
      BY <1>1, <1>3, <2>2, SameConn
    <2>3. ConnInv(c)'
      BY <1>1, <1>3 DEF ConnInv
    <2> QED BY <1>2, <2>1, <2>2, <2>3
  <1>4. CASE /\ c \in active
             /\ FlushAll(c, Drained(c)) \/ FlushFails(c, Drained(c))
             /\ writeChan' = [writeChan EXCEPT ![c] = <<>>]
    <2>0. wire[c] \in Seq(Reqs) /\ buffered[c] \in Seq(Reqs) /\ writeChan[c] \in Seq(Reqs)
      BY RepliesTyped
    <2>1. Drained(c) \in Seq(Reqs)
      <3> HIDE DEF WriterInv, Typed
      <3> QED BY <2>0, ConcatProperties DEF Drained
    <2>2. /\ wire' \in [Conns -> Seq(Reqs)] /\ buffered' \in [Conns -> Seq(Reqs)]
          /\ wire'[c] \o buffered'[c] = wire[c] \o Drained(c)
          /\ FlushAll(c, Drained(c)) => wire'[c] = wire[c] \o Drained(c) /\ failed' = failed
          /\ FlushFails(c, Drained(c)) => failed' = failed \cup {c}
          /\ \A d \in Conns \ {c} : wire'[d] = wire[d] /\ buffered'[d] = buffered[d]
      BY <1>4, <2>1, FlushStep
    <2>3. wire[c] \o Drained(c) = accepted[c]
      <3>1. accepted[c] = wire[c] \o buffered[c] \o writeChan[c]
        BY DEF ConnInv
      <3> HIDE DEF WriterInv, Typed
      <3> QED BY <2>0, <3>1, Regroup DEF Drained
    <2>4. Typed'
      <3>1. writeChan' \in [Conns -> Seq(Reqs)]
        BY <1>4, EmptySeq
      <3>2. pc' \in [Conns -> {"none", "start", "select", "flush", "exit", "done"}]
        BY <1>1
      <3> QED BY <1>1, <2>2, <3>1, <3>2
    <2>5. ASSUME NEW d \in Conns, d # c PROVE ConnInv(d)'
      <3>1. d \in failed => d \in failed'
        BY <1>4, <2>2
      <3>2. writeChan'[d] = writeChan[d] /\ pc'[d] = pc[d] /\ (d \in closed' <=> d \in closed)
        BY <1>1, <1>4, <2>5
      <3> QED BY <1>1, <2>2, <2>5, <3>1, <3>2, SameConn
    <2>6. ConnInv(c)'
      <3>1. wire'[c] \o buffered'[c] \in Seq(Reqs) /\ writeChan'[c] = <<>>
        BY <1>4, <2>2, ConcatProperties
      <3>2. accepted'[c] = wire'[c] \o buffered'[c] \o writeChan'[c]
        BY <1>1, <2>2, <2>3, <3>1, ConcatEmptySeq
      <3>3. c \notin failed' => wire'[c] = accepted'[c]
        BY <1>1, <1>4, <2>2, <2>3
      <3> QED BY <1>1, <3>2, <3>3 DEF ConnInv
    <2> QED BY <1>2, <2>4, <2>5, <2>6
  <1> QED BY <1>3, <1>4 DEF BeforeClose, DrainAndFlush

LEMMA WriterStep == WriterInv /\ [Next]_vars => WriterInv'
  <1> SUFFICES ASSUME WriterInv, [Next]_vars PROVE WriterInv'
    OBVIOUS
  <1> USE DEF chanVars, connVars, reqVars, stopVars
  <1>1. CASE UNCHANGED vars
    BY <1>1, QuietStep DEF vars, WriterInv, Typed
  <1>2. ASSUME NEW c \in Conns, NewSvrWriter(c) PROVE WriterInv'
    BY <1>2, LoopStep DEF NewSvrWriter
  <1>3. ASSUME NEW c \in Conns, Store(c) \/ PeerClose(c) \/ CloseCallback(c) PROVE WriterInv'
    BY <1>3, QuietStep DEF Store, PeerClose, CloseCallback, WriterInv, Typed
  <1>4. ASSUME NEW r \in Reqs, OnMsg(r) \/ SerializeResponse(r) \/ WriteBuffer(r) PROVE WriterInv'
    BY <1>4, QuietStep DEF OnMsg, SerializeResponse, WriteBuffer, WriterInv, Typed
  <1>5. ASSUME NEW r \in Reqs, Send(r) PROVE WriterInv'
    BY <1>5, SendStep
  <1>6. ASSUME NEW c \in Conns, LoopStart(c) \/ LoopQuit(c) PROVE WriterInv'
    BY <1>6, LoopStep DEF LoopStart, LoopQuit
  <1>7. ASSUME NEW c \in Conns, LoopTake(c) \/ LoopFlush(c) \/ BeforeClose(c) PROVE WriterInv'
    BY <1>7, TakeStep, FlushInLoop, CloseStep
  <1>8. CASE RpcCancel \/ Stop
    BY <1>8, QuietStep
    DEF RpcCancel, Stop, StopBegin, StopRange, StopWriters, StopEnd, WriterInv, Typed
  <1> QED BY <1>1, <1>2, <1>3, <1>4, <1>5, <1>6, <1>7, <1>8 DEF Next, Handler, WriteLoop

THEOREM WriterSafe == Spec => []WriterInv
  BY WriterInit, WriterStep, PTL DEF Spec

\* The replies of a connection leave it in the order writeBuffer took them, none lost or
\* doubled, whatever the sizes of channel and batch and whichever flush fails.
THEOREM OrderKept == Spec => []RepliesInOrder
  <1>1. WriterInv => RepliesInOrder
    BY DEF WriterInv, ConnInv, RepliesInOrder
  <1> QED BY <1>1, WriterSafe, PTL

\* No handler sends on a channel that beforeClose has closed.
THEOREM NoSendAfterClose == Spec => []NoSendOnClosed
  <1>1. WriterInv => NoSendOnClosed
    BY DEF WriterInv
  <1> QED BY <1>1, WriterSafe, PTL

\* A loop that waits has flushed its batch or has a reply to wake it, and one that has ended
\* on a usable connection has flushed all it accepted.
THEOREM AllFlushed == Spec => []NothingStranded
  <1>1. WriterInv => NothingStranded
    BY DEF WriterInv, ConnInv, NothingStranded
  <1> QED BY <1>1, WriterSafe, PTL
=============================================================================
