------------------------------ MODULE RpcClient ------------------------------
(***************************************************************************)
(* The client end of one rpc connection: ClientConn of rpc/client.go.      *)
(* A call is named by the sequence number Invoke gives it and runs in a    *)
(* goroutine of its own; replies are handled by the reader goroutine of    *)
(* their connection; one goroutine started on demand, processTimeout,      *)
(* expires asynchronous calls.  An action is a stretch of code between two *)
(* points where another goroutine can be seen: a mutex section, a channel  *)
(* operation, an atomic swap.                                              *)
(***************************************************************************)
EXTENDS Integers, Sequences

CONSTANTS
  MaxSeq,        \* bound on genMsgId: calls made on the connection (code: 2^32-1)
  MaxTime,       \* bound on the clock
  MaxConns,      \* bound on (re)connections
  Calls,         \* per call: the pairs of kind and CallOption.Timeout (0 = none) it may have
  RetChanCap,    \* capacity of the AsyncRetChan it passes
  DefaultDelay   \* how long an idle processTimeout sleeps (code: 2 minutes)

Kinds == {"sync", "async", "noresp"}

ASSUME RpcClientAssumption ==
  /\ MaxSeq \in Nat \ {0} /\ MaxTime \in Nat /\ MaxConns \in Nat \ {0}
  /\ Calls \in [1..MaxSeq -> SUBSET (Kinds \X Nat)]
  /\ RetChanCap \in Nat \ {0} /\ DefaultDelay \in Nat \ {0}

Seqs  == 1..MaxSeq
Conns == 1..MaxConns

VARIABLES
  genMsgId,   \* sequence numbers handed out so far
  kind,       \* per call: sync, async, or async with a nil AsyncRetChan (noresp)
  timeout,    \* per call: CallOption.Timeout
  pc,         \* per call: where its goroutine is
  expireAt,   \* per call: its deadline, 0 = none
  ret,        \* per call: what Invoke returned
  waitRsps,   \* the calls in the map waitRsps
  syncRet,    \* per sync call: its result channel
  results,    \* per async call: the results sent on AsyncRetChan
  queued,     \* number of results in AsyncRetChan
  keys,       \* the keys of the tree timeouts
  tracked,    \* the calls in the set of their key in the tree
  worker,     \* where processTimeout is; "off" while runTimeout is false
  timerAt,    \* its local expireAt, which is when its timer fires
  batch,      \* its callInfos: expired calls it has to tell
  trig,       \* updateTimerTrig holds a signal
  closed,     \* ClientConn.closed
  conn,       \* number of the current connection
  active,     \* conn.IsActive()
  reply,      \* per call: its exchange with the peer, and its handling in onRecvMsg
  via,        \* per call: the connection its request was written to
  now,        \* the clock
  panicked    \* a goroutine panicked: the process is gone

callVars   == <<genMsgId, kind, timeout>>
progVars   == <<pc, expireAt, ret>>
waitVars   == <<waitRsps, syncRet>>
chanVars   == <<results, queued>>
treeVars   == <<keys, tracked>>
workerVars == <<worker, timerAt, batch, trig>>
linkVars   == <<closed, conn, active, reply, via>>
envVars    == <<now, panicked>>
vars == <<callVars, progVars, waitVars, chanVars, treeVars, workerVars, linkVars, envVars>>

TypeOK ==
  /\ genMsgId \in 0..MaxSeq
  /\ kind \in [Seqs -> Kinds]
  /\ timeout \in [Seqs -> Nat]
  /\ pc \in [Seqs -> {"idle", "write", "register", "track", "wake",
                      "wait", "unregister", "close", "done"}]
  /\ expireAt \in [Seqs -> Nat]
  /\ ret \in [Seqs -> {"none", "ok", "err", "closed", "reply", "exceed", "ctx"}]
  /\ waitRsps \subseteq Seqs
  /\ syncRet \in [Seqs -> {"nil", "empty", "full", "closed"}]
  /\ results \in [Seqs -> Seq({"reply", "timeout"})]
  /\ queued \in 0..RetChanCap
  /\ keys \subseteq Nat /\ tracked \subseteq Seqs
  /\ worker \in {"off", "start", "select", "send", "quit"}
  /\ timerAt \in Nat /\ batch \subseteq Seqs /\ trig \in BOOLEAN
  /\ closed \in BOOLEAN /\ conn \in Conns /\ active \in BOOLEAN
  /\ reply \in [Seqs -> {"none", "sent", "untrack", "push", "gone"}]
  /\ via \in [Seqs -> Conns]
  /\ now \in 0..MaxTime /\ panicked \in BOOLEAN 

\* NewClientConn: connected, nothing waiting, processTimeout not running.
Init ==
  /\ genMsgId = 0
  /\ kind = [s \in Seqs |-> "sync"] /\ timeout = [s \in Seqs |-> 0]
  /\ pc = [s \in Seqs |-> "idle"] /\ expireAt = [s \in Seqs |-> 0]
  /\ ret = [s \in Seqs |-> "none"]
  /\ waitRsps = {} /\ syncRet = [s \in Seqs |-> "nil"]
  /\ results = [s \in Seqs |-> <<>>] /\ queued = 0
  /\ keys = {} /\ tracked = {}
  /\ worker = "off" /\ timerAt = 0 /\ batch = {} /\ trig = FALSE
  /\ closed = FALSE /\ conn = 1 /\ active = TRUE
  /\ reply = [s \in Seqs |-> "none"] /\ via = [s \in Seqs |-> 1]
  /\ now = 0 /\ panicked = FALSE

-----------------------------------------------------------------------------
(* Invoke, in the goroutine of its caller.                                 *)

Goto(s, l) == pc' = [pc EXCEPT ![s] = l]

Return(s, r) == Goto(s, "done") /\ ret' = [ret EXCEPT ![s] = r]

\* Invoke up to the sequence number.  A request that cannot be marshalled is
\* refused before it: no step.
Invoke(k, t) ==
  LET s == genMsgId + 1 IN
  /\ genMsgId < MaxSeq
  /\ genMsgId' = s
  /\ kind' = [kind EXCEPT ![s] = k]
  /\ timeout' = [timeout EXCEPT ![s] = t]
  /\ Goto(s, "write")
  /\ UNCHANGED <<expireAt, ret, waitVars, chanVars, treeVars, workerVars, linkVars, envVars>>

\* The connection syncWrite uses: the current one, or the one it reconnects to.
WriteConn == IF active THEN conn ELSE conn + 1

\* The request of s reaches that connection; a reply is owed if one is wanted.
Written(s) ==
  /\ ~closed /\ WriteConn \in Conns
  /\ conn' = WriteConn /\ active' = TRUE
  /\ via' = [via EXCEPT ![s] = WriteConn]
  /\ reply' = [reply EXCEPT ![s] = IF kind[s] = "noresp" THEN "none" ELSE "sent"]

\* syncWrite (under wmtx) and encodeRpcReq before it.  Failures: the client is
\* closed; encoding or the dial fails; Append or Flush fails, after which the
\* peer may have the request all the same.
SyncWrite(s) ==
  /\ pc[s] = "write"
  /\ \/ Written(s) /\ kind[s] = "noresp" /\ Return(s, "ok")
     \/ Written(s) /\ kind[s] # "noresp" /\ Goto(s, "register") /\ UNCHANGED ret
     \/ Written(s) /\ Return(s, "err")
     \/ Return(s, "err") /\ UNCHANGED linkVars
     \/ closed /\ Return(s, "closed") /\ UNCHANGED linkVars
  /\ UNCHANGED <<callVars, expireAt, waitVars, chanVars, treeVars, workerVars, closed, envVars>>

\* What both waits begin with: the deadline, and the entry in waitRsps (mtx).
Register(s) ==
  /\ pc[s] = "register"
  /\ expireAt' = [expireAt EXCEPT ![s] = IF timeout[s] > 0 THEN now + timeout[s] ELSE 0]
  /\ waitRsps' = waitRsps \cup {s}
  /\ UNCHANGED <<callVars, chanVars, treeVars, workerVars, linkVars, envVars>>

AsyncRegister(s) ==
  /\ kind[s] = "async"
  /\ Register(s)
  /\ IF timeout[s] > 0 THEN Goto(s, "track") /\ UNCHANGED ret ELSE Return(s, "ok")
  /\ UNCHANGED syncRet

\* Mutant of AsyncTrack: a second call with the same deadline is not tracked.
AsyncTrackMut(s) ==
  /\ pc[s] = "track"
  /\ keys' = keys \cup {expireAt[s]}
  /\ tracked' = IF expireAt[s] \in keys THEN tracked ELSE tracked \cup {s}
  /\ Goto(s, "wake")
  /\ UNCHANGED <<callVars, expireAt, ret, waitVars, chanVars, workerVars, linkVars, envVars>>

\* asyncCallWait: into the set of the deadline (tmoutMtx).
AsyncTrack(s) ==
  /\ pc[s] = "track"
  /\ keys' = keys \cup {expireAt[s]}
  /\ tracked' = tracked \cup {s}
  /\ Goto(s, "wake")
  /\ UNCHANGED <<callVars, expireAt, ret, waitVars, chanVars, workerVars, linkVars, envVars>>

\* asyncCallWait: start processTimeout, or signal it unless a signal is pending.
AsyncWake(s) ==
  /\ pc[s] = "wake"
  /\ IF worker = "off"
     THEN worker' = "start" /\ UNCHANGED trig
     ELSE trig' = TRUE /\ UNCHANGED worker
  /\ Return(s, "ok")
  /\ UNCHANGED <<callVars, expireAt, waitVars, chanVars, treeVars, timerAt, batch, linkVars, envVars>>

SyncRegister(s) ==
  /\ kind[s] = "sync"
  /\ Register(s)
  /\ syncRet' = [syncRet EXCEPT ![s] = "empty"]
  /\ Goto(s, "wait")
  /\ UNCHANGED ret

\* The select of syncCallWait ends with r.
SyncResult(s, r) ==
  /\ pc[s] = "wait"
  /\ ret' = [ret EXCEPT ![s] = r]
  /\ syncRet' = [syncRet EXCEPT ![s] = "empty"]
  /\ Goto(s, "unregister")
  /\ UNCHANGED <<callVars, expireAt, waitRsps, chanVars, treeVars, workerVars, linkVars, envVars>>

\* Mutant of CtxExceeded: the timeout is not put on the ctx.
\* The ctx of the call has reached its deadline.
CtxExceeded(s) == expireAt[s] > 0 /\ expireAt[s] <= now

\* A reply in the channel is taken, also when ctx is done (the inner select).
SyncSelect(s) ==
  \/ syncRet[s] = "full" /\ SyncResult(s, "reply")
  \/ syncRet[s] = "empty" /\ CtxExceeded(s) /\ SyncResult(s, "exceed")

\* The caller cancels the ctx it passed.
SyncCancel(s) == syncRet[s] = "empty" /\ SyncResult(s, "ctx")

\* Mutant of SyncUnregister: the channel is closed before the delete.
SyncUnregisterMut(s) ==
  /\ pc[s] = "unregister"
  /\ syncRet' = [syncRet EXCEPT ![s] = "closed"]
  /\ Goto(s, "close")
  /\ UNCHANGED <<callVars, expireAt, ret, waitRsps, chanVars, treeVars, workerVars, linkVars, envVars>>

\* The deferred function of syncCallWait: delete under mtx, then close.
SyncUnregister(s) ==
  /\ pc[s] = "unregister"
  /\ waitRsps' = waitRsps \ {s}
  /\ Goto(s, "close")
  /\ UNCHANGED <<callVars, expireAt, ret, syncRet, chanVars, treeVars, workerVars, linkVars, envVars>>

SyncCloseChan(s) ==
  /\ pc[s] = "close"
  /\ syncRet' = [syncRet EXCEPT ![s] = "closed"]
  /\ Goto(s, "done")
  /\ UNCHANGED <<callVars, expireAt, ret, waitRsps, chanVars, treeVars, workerVars, linkVars, envVars>>

-----------------------------------------------------------------------------
(* onRecvMsg: the reader of a connection handles its replies one by one.   *)

HandleReply(s, l) == reply' = [reply EXCEPT ![s] = l]

ReaderIdle(k) == \A r \in Seqs : via[r] = k => reply[r] \notin {"untrack", "push"}

\* The reply to s is not expected (any more).
RecvUnknown(s) ==
  /\ s \notin waitRsps
  /\ HandleReply(s, "gone")
  /\ UNCHANGED <<waitVars, panicked>>

\* Sent to the waiting sync call under mtx; a closed channel panics.
RecvSync(s) ==
  /\ s \in waitRsps /\ kind[s] = "sync"
  /\ syncRet[s] # "full"
  /\ HandleReply(s, "gone")
  /\ IF syncRet[s] = "closed"
     THEN panicked' = TRUE /\ UNCHANGED syncRet
     ELSE syncRet' = [syncRet EXCEPT ![s] = "full"] /\ UNCHANGED panicked
  /\ UNCHANGED waitRsps

\* Mutant of Claimed: the entry is looked up and not deleted.
ClaimedMut(s) == waitRsps

\* waitRsps once the reader has taken the asynchronous call s out of it.
Claimed(s) == waitRsps \ {s}

RecvAsync(s) ==
  /\ s \in waitRsps /\ kind[s] # "sync"
  /\ waitRsps' = Claimed(s)
  /\ HandleReply(s, IF expireAt[s] > 0 THEN "untrack" ELSE "push")
  /\ UNCHANGED <<syncRet, panicked>>

\* A reply arrives: lookup in waitRsps under mtx, and what is done under it.
RecvLookup(s) ==
  /\ reply[s] = "sent" /\ ReaderIdle(via[s])
  /\ RecvUnknown(s) \/ RecvSync(s) \/ RecvAsync(s)
  /\ UNCHANGED <<callVars, progVars, chanVars, treeVars, workerVars, closed, conn, active, via, now>>

\* Out of the set of the deadline (tmoutMtx); the key stays in the tree.
RecvUntrack(s) ==
  /\ reply[s] = "untrack"
  /\ tracked' = tracked \ {s}
  /\ HandleReply(s, "push")
  /\ UNCHANGED <<callVars, progVars, waitVars, chanVars, keys, workerVars, closed, conn, active, via, envVars>>

\* A result for s goes into AsyncRetChan; the sender blocks while it is full.
SendResult(s, r) ==
  /\ queued < RetChanCap
  /\ queued' = queued + 1
  /\ results' = [results EXCEPT ![s] = Append(@, r)]

RecvPush(s) ==
  /\ reply[s] = "push"
  /\ SendResult(s, "reply")
  /\ HandleReply(s, "gone")
  /\ UNCHANGED <<callVars, progVars, waitVars, treeVars, workerVars, closed, conn, active, via, envVars>>

-----------------------------------------------------------------------------
(* processTimeout.                                                         *)

\* timeouts.Left() of a tree that is not empty: the earliest deadline.
Left(ks) == CHOOSE a \in ks : \A b \in ks : a <= b

\* Up to the loop.
TimeoutStart ==
  /\ worker = "start"
  /\ IF keys = {}
     THEN panicked' = TRUE /\ UNCHANGED <<worker, timerAt>>
     ELSE timerAt' = Left(keys) /\ worker' = "select" /\ UNCHANGED panicked
  /\ UNCHANGED <<callVars, progVars, waitVars, chanVars, treeVars, batch, trig, linkVars, now>>

\* case <-c.quit
TimeoutQuit ==
  /\ worker = "select" /\ closed
  /\ worker' = "quit"
  /\ UNCHANGED <<callVars, progVars, waitVars, chanVars, treeVars, timerAt, batch, trig, linkVars, envVars>>

\* Mutant of Rearm: the Reset of the timer is missing.
RearmMut(e) == UNCHANGED timerAt

\* The timer is brought forward to e, never put back.
Rearm(e) == timerAt' = IF e < timerAt THEN e ELSE timerAt

\* case <-c.updateTimerTrig; Left() of an empty tree is nil and panics.
TimeoutUpdate ==
  /\ worker = "select" /\ trig
  /\ trig' = FALSE
  /\ IF keys = {}
     THEN panicked' = TRUE /\ UNCHANGED timerAt
     ELSE Rearm(Left(keys)) /\ UNCHANGED panicked
  /\ UNCHANGED <<callVars, progVars, waitVars, chanVars, treeVars, worker, batch, linkVars, now>>

\* Mutant of Expired: off by one.
ExpiredMut(nowMs) == {k \in keys : k <= nowMs + 1}

\* The keys the scan of the tree at time nowMs removes.
Expired(nowMs) == {k \in keys : k <= nowMs}

\* case <-timer.C, under tmoutMtx.  nowMs is read before that lock is taken: it
\* is any time since the timer fired.
TimeoutFire ==
  /\ worker = "select" /\ timerAt <= now
  /\ \E nowMs \in timerAt..now :
       LET due == {s \in tracked : expireAt[s] \in Expired(nowMs)} IN
       /\ keys' = keys \ Expired(nowMs)
       /\ tracked' = tracked \ due
       /\ batch' = due \cap waitRsps
       /\ waitRsps' = waitRsps \ due
  /\ timerAt' = IF keys' = {} THEN now + DefaultDelay ELSE Left(keys')
  /\ worker' = "send"
  /\ UNCHANGED <<callVars, progVars, syncRet, chanVars, trig, linkVars, envVars>>

\* case <-timer.C, after the lock: tell the expired calls, then select again.
TimeoutSend ==
  /\ worker = "send"
  /\ \/ \E s \in batch : SendResult(s, "timeout") /\ batch' = batch \ {s} /\ UNCHANGED worker
     \/ batch = {} /\ worker' = "select" /\ UNCHANGED <<batch, chanVars>>
  /\ UNCHANGED <<callVars, progVars, waitVars, treeVars, timerAt, trig, linkVars, envVars>>

-----------------------------------------------------------------------------
(* Close, and the environment.                                             *)

\* Close, under wmtx: the flag, the quit channel, the connection.
Close ==
  /\ ~closed
  /\ closed' = TRUE /\ active' = FALSE
  /\ UNCHANGED <<callVars, progVars, waitVars, chanVars, treeVars, workerVars, conn, reply, via, envVars>>

\* The connection breaks.  A reply lost with it is one that never arrives.
Disconnect ==
  /\ active
  /\ active' = FALSE
  /\ UNCHANGED <<callVars, progVars, waitVars, chanVars, treeVars, workerVars, closed, conn, reply, via, envVars>>

\* The application takes a result from the channel.
AppReceive ==
  /\ queued > 0
  /\ queued' = queued - 1
  /\ UNCHANGED <<callVars, progVars, waitVars, results, treeVars, workerVars, linkVars, envVars>>

Tick ==
  /\ now < MaxTime
  /\ now' = now + 1
  /\ UNCHANGED <<callVars, progVars, waitVars, chanVars, treeVars, workerVars, linkVars, panicked>>

Caller(s) ==
  \/ SyncWrite(s) \/ AsyncRegister(s) \/ AsyncTrack(s) \/ AsyncWake(s)
  \/ SyncRegister(s) \/ SyncSelect(s) \/ SyncUnregister(s) \/ SyncCloseChan(s)

Reader(s) == RecvUntrack(s) \/ RecvPush(s)

Worker == TimeoutStart \/ TimeoutQuit \/ TimeoutUpdate \/ TimeoutFire \/ TimeoutSend

\* A panic in any goroutine ends the process.
Next ==
  /\ ~panicked
  /\ \/ genMsgId < MaxSeq /\ \E c \in Calls[genMsgId + 1] : Invoke(c[1], c[2])
     \/ \E s \in Seqs : Caller(s) \/ SyncCancel(s) \/ Reader(s) \/ RecvLookup(s)
     \/ Worker \/ Close \/ Disconnect \/ AppReceive \/ Tick

Spec == Init /\ [][Next]_vars

\* The Go scheduler runs every goroutine that can run, time passes, and the
\* application keeps receiving from the channel it passed.  Nothing is assumed
\* of the peer, the network, or a ctx that is cancelled.
Fairness ==
  /\ \A s \in Seqs : WF_vars(~panicked /\ Caller(s)) /\ WF_vars(~panicked /\ Reader(s))
  /\ WF_vars(~panicked /\ Worker)
  /\ WF_vars(~panicked /\ AppReceive)
  /\ WF_vars(~panicked /\ Tick)

FairSpec == Spec /\ Fairness
-----------------------------------------------------------------------------
(* Properties.                                                             *)

\* An asynchronous call gets at most one result on AsyncRetChan: the reply
\* (onRecvMsg) and the timeout (processTimeout) race for its entry in waitRsps,
\* and only the goroutine that deletes the entry may send.
AtMostOneResult == \A s \in Seqs : Len(results[s]) <= 1

\* No call is reported as timed out before its deadline: the scan of
\* processTimeout stops at the first deadline still to come.
TimeoutNotEarly ==
  \A s \in Seqs : s \in batch \/ results[s] = <<"timeout">> => CtxExceeded(s)

\* No wake-up of processTimeout is lost: while it sleeps, with no signal
\* pending and no caller about to send one, its timer fires no later than the
\* earliest deadline in the tree.
NoLostWakeup ==
  worker = "select" /\ ~trig /\ (\A s \in Seqs : pc[s] # "wake")
    => \A e \in keys : timerAt <= e

\* onRecvMsg never sends on a closed result channel, and never blocks on a full
\* one while it holds mtx: a registered synchronous call has an open channel,
\* and an empty one as long as its reply is still to come.
SyncChanReady ==
  \A s \in waitRsps : kind[s] = "sync" =>
    syncRet[s] \in (IF reply[s] = "sent" THEN {"empty"} ELSE {"empty", "full"})

AsyncAccepted(s) ==
  pc[s] = "done" /\ kind[s] = "async" /\ ret[s] = "ok" /\ expireAt[s] \in 1..MaxTime

SyncWaiting(s) == pc[s] = "wait" /\ expireAt[s] \in 1..MaxTime

\* A call with a timeout ends, whatever the peer, the network and the other calls
\* do: an asynchronous one gets the reply or ErrRpcCallTimeout unless the client is
\* closed, a synchronous one returns and leaves waitRsps (a panic ends them all).
Ended(s) ==
  \/ panicked
  \/ kind[s] = "async" /\ (results[s] # <<>> \/ closed)
  \/ kind[s] = "sync" /\ pc[s] = "done" /\ s \notin waitRsps

CallEnds == \A s \in Seqs : (AsyncAccepted(s) \/ SyncWaiting(s)) ~> Ended(s)

=============================================================================
