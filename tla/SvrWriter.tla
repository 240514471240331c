------------------------------ MODULE SvrWriter ------------------------------
(***************************************************************************)
(* The reply path of the rpc server, rpc/server.go: connections with a     *)
(* SvrWriter each, the handlers that answer requests through writeBuffer,  *)
(* the goroutine writeLoop that batches replies onto the connection, and   *)
(* Server.Stop.  A request is named by its member of Reqs.                 *)
(***************************************************************************)
EXTENDS Integers, Sequences

CONSTANTS
  Conns,         \* connections accepted
  Reqs,          \* requests received
  ChanSize,      \* ServerOptions.WriteChanSize
  MaxBatchSize,  \* maxBatchSize of writeLoop (code: 32)
  StopDeadline   \* does the ctx given to Stop end by itself

ASSUME SvrWriterAssumption ==
  ChanSize \in Nat \ {0} /\ MaxBatchSize \in Nat \ {0} /\ StopDeadline \in BOOLEAN

VARIABLES
  pc,         \* per connection: its writeLoop; "none" before newSvrWriter
  stored,     \* connections in Server.conns
  cancel,     \* connections whose SvrWriter.cancel is stored
  cancelled,  \* connections whose writeLoop context was cancelled by stop
  rootDone,   \* Server.ctx is cancelled
  active,     \* connections with IsActive() true
  writeChan,  \* per connection: replies in writeChan
  closed,     \* connections whose SvrWriter is closed, and its channel with it
  buffered,   \* per connection: replies appended to Writer() and not flushed
  wire,       \* per connection: replies flushed to the peer
  failed,     \* connections on which a Flush failed
  at,         \* per request: where its handler is
  from,       \* per request: the connection it came in on
  accepted,   \* per connection: replies in the order writeBuffer took them
  stop,       \* where Server.Stop is
  writers     \* the writers Stop still has to stop or to close

chanVars == <<writeChan, closed, buffered, wire, accepted>>
connVars == <<stored, cancel, cancelled, rootDone, active, failed>>
reqVars  == <<at, from>>
stopVars == <<stop, writers>>
vars == <<pc, chanVars, connVars, reqVars, stopVars>>

TypeOK ==
  /\ pc \in [Conns -> {"none", "start", "select", "flush", "exit", "done"}]
  /\ stored \subseteq Conns /\ cancel \subseteq Conns /\ cancelled \subseteq Conns
  /\ rootDone \in BOOLEAN /\ active \subseteq Conns /\ failed \subseteq Conns
  /\ writeChan \in [Conns -> Seq(Reqs)]
  /\ \A c \in Conns : Len(writeChan[c]) <= ChanSize
  /\ closed \subseteq Conns
  /\ buffered \in [Conns -> Seq(Reqs)] /\ wire \in [Conns -> Seq(Reqs)]
  /\ at \in [Reqs -> {"none", "handle", "rlock", "send", "done"}]
  /\ from \in [Reqs -> Conns]
  /\ accepted \in [Conns -> Seq(Reqs)]
  /\ stop \in {"run", "range", "stop", "wait", "done"}
  /\ writers \subseteq Conns

Init ==
  /\ pc = [c \in Conns |-> "none"]
  /\ stored = {} /\ cancel = {} /\ cancelled = {} /\ rootDone = FALSE
  /\ active = {} /\ failed = {}
  /\ writeChan = [c \in Conns |-> <<>>] /\ closed = {}
  /\ buffered = [c \in Conns |-> <<>>] /\ wire = [c \in Conns |-> <<>>]
  /\ at = [r \in Reqs |-> "none"] /\ from \in [Reqs -> Conns]
  /\ accepted = [c \in Conns |-> <<>>]
  /\ stop = "run" /\ writers = {}

-----------------------------------------------------------------------------
(* Connections and requests.                                               *)

\* prepare, first half: newSvrWriter starts writeLoop.
NewSvrWriter(c) ==
  /\ pc[c] = "none"
  /\ pc' = [pc EXCEPT ![c] = "start"]
  /\ active' = active \cup {c}
  /\ UNCHANGED <<chanVars, stored, cancel, cancelled, rootDone, failed, reqVars, stopVars>>

\* prepare, second half: conns.Store and the close callback.  Requests and the
\* end of the connection are noticed only after prepare.
Store(c) ==
  /\ pc[c] # "none" /\ c \in active \ stored
  /\ stored' = stored \cup {c}
  /\ UNCHANGED <<pc, chanVars, cancel, cancelled, rootDone, active, failed, reqVars, stopVars>>

\* The context of writeLoop, cancelled by stop if the loop has stored its cancel.
Stopped(cs) == cancelled' = cancelled \cup (cs \cap cancel)

\* The peer closes the connection, or it breaks.
PeerClose(c) ==
  /\ c \in stored \cap active
  /\ active' = active \ {c}
  /\ UNCHANGED <<pc, chanVars, stored, cancel, cancelled, rootDone, failed, reqVars, stopVars>>

\* The close callback of prepare.
CloseCallback(c) ==
  /\ c \in stored \ active
  /\ stored' = stored \ {c}
  /\ Stopped({c})
  /\ UNCHANGED <<pc, chanVars, cancel, rootDone, active, failed, reqVars, stopVars>>

\* onMsg and handler: a request is read and handed to HandlerFunc, or answered
\* with an error at once; either way SerializeResponse comes next.
OnMsg(r) ==
  /\ at[r] = "none" /\ from[r] \in stored \cap active
  /\ at' = [at EXCEPT ![r] = "handle"]
  /\ UNCHANGED <<pc, chanVars, connVars, from, stopVars>>

\* SerializeResponse up to writeBuffer.  It ends early for a request that wants
\* no response, for an inactive connection and when marshalling fails.
SerializeResponse(r) ==
  /\ at[r] = "handle"
  /\ \/ from[r] \in active /\ at' = [at EXCEPT ![r] = "rlock"]
     \/ at' = [at EXCEPT ![r] = "done"]
  /\ UNCHANGED <<pc, chanVars, connVars, from, stopVars>>

\* writeBuffer takes the read lock, which a waiting beforeClose keeps it from,
\* and drops the reply of a closed writer.
WriteBuffer(r) ==
  /\ at[r] = "rlock" /\ pc[from[r]] # "exit"
  /\ at' = [at EXCEPT ![r] = IF from[r] \in closed THEN "done" ELSE "send"]
  /\ UNCHANGED <<pc, chanVars, connVars, from, stopVars>>

Room(c) == Len(writeChan[c]) < ChanSize

\* The send in writeBuffer, which blocks while the channel is full, and RUnlock.
Send(r) ==
  LET c == from[r] IN
  /\ at[r] = "send" /\ Room(c)
  /\ writeChan' = [writeChan EXCEPT ![c] = Append(@, r)]
  /\ accepted' = [accepted EXCEPT ![c] = Append(@, r)]
  /\ at' = [at EXCEPT ![r] = "done"]
  /\ UNCHANGED <<pc, closed, buffered, wire, connVars, from, stopVars>>

-----------------------------------------------------------------------------
(* writeLoop.                                                              *)

LoopStart(c) ==
  /\ pc[c] = "start"
  /\ cancel' = cancel \cup {c}
  /\ pc' = [pc EXCEPT ![c] = "select"]
  /\ UNCHANGED <<chanVars, stored, cancelled, rootDone, active, failed, reqVars, stopVars>>

\* Mutant of CtxDone: writeLoop takes its context for the connection's only.
CtxDoneMut(c) == c \in cancelled

CtxDone(c) == c \in cancelled \/ rootDone

\* case <-ctx.Done()
LoopQuit(c) ==
  /\ pc[c] = "select" /\ CtxDone(c)
  /\ pc' = [pc EXCEPT ![c] = "exit"]
  /\ UNCHANGED <<chanVars, connVars, reqVars, stopVars>>

\* Mutant of FlushDue: flush full batches only.
FlushDueMut(c) == Len(buffered'[c]) >= MaxBatchSize

\* Flush when nothing is waiting or the batch is full; batch is the number of
\* replies appended since the last flush.
FlushDue(c) == Len(writeChan'[c]) = 0 \/ Len(buffered'[c]) >= MaxBatchSize

\* case buffer := <-w.writeChan
LoopTake(c) ==
  /\ pc[c] = "select" /\ writeChan[c] # <<>>
  /\ writeChan' = [writeChan EXCEPT ![c] = Tail(@)]
  /\ buffered' = [buffered EXCEPT ![c] = Append(@, Head(writeChan[c]))]
  /\ pc' = [pc EXCEPT ![c] = IF FlushDue(c) THEN "flush" ELSE "select"]
  /\ UNCHANGED <<closed, wire, accepted, connVars, reqVars, stopVars>>

\* Flush puts q on the connection; one that fails may have written a part of it.
FlushAll(c, q) ==
  /\ c \in active
  /\ wire' = [wire EXCEPT ![c] = @ \o q]
  /\ buffered' = [buffered EXCEPT ![c] = <<>>]
  /\ UNCHANGED failed

FlushFails(c, q) ==
  \E n \in 0..Len(q) :
    /\ c \in active \/ n = 0
    /\ wire' = [wire EXCEPT ![c] = @ \o SubSeq(q, 1, n)]
    /\ buffered' = [buffered EXCEPT ![c] = SubSeq(q, n + 1, Len(q))]
    /\ failed' = failed \cup {c}

\* flush in writeLoop; a failure closes the connection and ends the loop.
LoopFlush(c) ==
  /\ pc[c] = "flush"
  /\ \/ /\ FlushAll(c, buffered[c])
        /\ pc' = [pc EXCEPT ![c] = "select"]
        /\ UNCHANGED active
     \/ /\ FlushFails(c, buffered[c])
        /\ pc' = [pc EXCEPT ![c] = "exit"]
        /\ active' = active \ {c}
  /\ UNCHANGED <<writeChan, closed, accepted, stored, cancel, cancelled, rootDone,
                 reqVars, stopVars>>

\* Mutant of Unlocked: beforeClose does not wait for the readers of mtx.
UnlockedMut(c) == TRUE

\* w.mtx.Lock() succeeds: no writeBuffer holds the read lock.
Unlocked(c) == \A r \in Reqs : at[r] = "send" => from[r] # c

\* Mutant of Drained: the channel goes out ahead of the batch.
DrainedMut(c) == writeChan[c] \o buffered[c]

\* What beforeClose flushes: the batch and the rest of the closed channel.
Drained(c) == buffered[c] \o writeChan[c]

DrainAndFlush(c) ==
  \/ /\ c \in active
     /\ FlushAll(c, Drained(c)) \/ FlushFails(c, Drained(c))
     /\ writeChan' = [writeChan EXCEPT ![c] = <<>>]
  \/ c \notin active /\ UNCHANGED <<writeChan, buffered, wire, failed>>

\* beforeClose, under mtx, then wg.Done.
BeforeClose(c) ==
  /\ pc[c] = "exit" /\ Unlocked(c)
  /\ closed' = closed \cup {c}
  /\ pc' = [pc EXCEPT ![c] = "done"]
  /\ DrainAndFlush(c)
  /\ UNCHANGED <<accepted, stored, cancel, cancelled, rootDone, active, reqVars, stopVars>>

-----------------------------------------------------------------------------
(* Server.Stop, and the cancel of Server.ctx its callers do before it.     *)

\* RpcImp.Run and RpcImp.Stop: imp.cancel()
RpcCancel ==
  /\ ~rootDone
  /\ rootDone' = TRUE
  /\ UNCHANGED <<pc, chanVars, stored, cancel, cancelled, active, failed, reqVars, stopVars>>

\* closed.Swap and listener.Close; a second Stop returns at the Swap.
StopBegin ==
  /\ rootDone /\ stop = "run"
  /\ stop' = "range"
  /\ UNCHANGED <<pc, chanVars, connVars, reqVars, writers>>

\* conns.Range
StopRange ==
  /\ stop = "range"
  /\ stop' = "stop" /\ writers' = stored
  /\ UNCHANGED <<pc, chanVars, connVars, reqVars>>

\* w.stop() of every writer found.
StopWriters ==
  /\ stop = "stop"
  /\ stop' = "wait"
  /\ Stopped(writers)
  /\ UNCHANGED <<pc, chanVars, stored, cancel, rootDone, active, failed, reqVars, writers>>

\* The select on ctx.Done() and the wait group, then Close of the connections
\* found, then Shutdown of the event loop.
StopEnd ==
  /\ stop = "wait"
  /\ StopDeadline \/ \A c \in Conns : pc[c] \in {"none", "done"}
  /\ stop' = "done"
  /\ active' = active \ writers
  /\ UNCHANGED <<pc, chanVars, stored, cancel, cancelled, rootDone, failed, reqVars, writers>>

-----------------------------------------------------------------------------
Handler(r) == SerializeResponse(r) \/ WriteBuffer(r) \/ Send(r)

WriteLoop(c) == LoopStart(c) \/ LoopQuit(c) \/ LoopTake(c) \/ LoopFlush(c) \/ BeforeClose(c)

Stop == StopBegin \/ StopRange \/ StopWriters \/ StopEnd

Next ==
  \/ \E c \in Conns : NewSvrWriter(c) \/ Store(c) \/ PeerClose(c) \/ CloseCallback(c)
  \/ \E r \in Reqs : OnMsg(r) \/ Handler(r)
  \/ \E c \in Conns : WriteLoop(c)
  \/ RpcCancel \/ Stop

Spec == Init /\ [][Next]_vars

\* Every goroutine that can run does, and netpoll runs prepare and the close
\* callback to their end.  Nothing obliges peers to send or to close, or the
\* application to stop.
Fairness ==
  /\ \A r \in Reqs : WF_vars(Handler(r))
  /\ \A c \in Conns : WF_vars(Store(c)) /\ WF_vars(CloseCallback(c)) /\ WF_vars(WriteLoop(c))
  /\ WF_vars(StopRange) /\ WF_vars(StopWriters) /\ WF_vars(StopEnd)

FairSpec == Spec /\ Fairness

-----------------------------------------------------------------------------
(* What the reply path promises.                                           *)

\* Replies leave a connection in the order writeBuffer took them, each once, and
\* none is lost on the way from the channel through the batch to the wire, the
\* drain of beforeClose included (rpc/server.go 358-436).
RepliesInOrder ==
  \A c \in Conns : accepted[c] = wire[c] \o buffered[c] \o writeChan[c]

\* writeBuffer never sends on a channel beforeClose has closed, which would panic:
\* closed is read and the send made under one read lock (rpc/server.go 379-387).
NoSendOnClosed ==
  \A r \in Reqs : at[r] = "send" => from[r] \notin closed

\* A writer that waits in its select holds no unflushed reply unless another reply
\* is in the channel to wake it: batching never strands the last reply of a burst
\* (rpc/server.go 423-431).  When it has ended on a connection that was still usable,
\* every reply writeBuffer accepted is on the wire ("wait svr writer flush over",
\* rpc/server.go 128), whichever way the loop was left.
NothingStranded ==
  \A c \in Conns :
    /\ pc[c] = "select" /\ buffered[c] # <<>> => writeChan[c] # <<>>
    /\ pc[c] = "done" /\ c \notin failed /\ c \in active => wire[c] = accepted[c]

\* A handler sends into the full channel of a writer that has left its loop: it
\* holds the read lock, and beforeClose, which would drain, waits for the lock.
Wedged ==
  \E r \in Reqs : at[r] = "send" /\ ~Room(from[r]) /\ pc[from[r]] = "exit"

\* Stop returns without the help of a deadline: every writer sees the cancelled
\* context and ends, also one whose cancel was not stored when stop looked for it
\* (rpc/server.go 121-135, 389-394).  A wedged writer is all that can keep it.
StopReturns == (stop = "range") ~> (stop = "done" \/ Wedged)

=============================================================================
