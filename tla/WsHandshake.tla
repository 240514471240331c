----------------------------- MODULE WsHandshake -----------------------------
(***************************************************************************)
(* The handshake timeout of the websocket gate (wsg/server.go): the event  *)
(* loops open connections and hand them to the goroutine of runTicker,     *)
(* which keeps those still shaking hands in a queue (ds/staticlist) and    *)
(* closes them at their deadline.  Time counts the 10 ms that              *)
(* updateHandshakingQueue grants at least.                                 *)
(***************************************************************************)
EXTENDS Naturals, Sequences, FiniteSets

CONSTANTS
  Conns,
  HandshakeTimeout,     \* option, in units of time
  MaxHandshakingSize,   \* option: capacity of the queue
  ChanSize,             \* capacity of handshakingWait and handshakingOver
  FiveSeconds,          \* the ticker's longest interval
  MaxNow                \* bound on time

ASSUME WsHandshakeAssumption ==
  {HandshakeTimeout, MaxHandshakingSize, ChanSize, FiveSeconds} \subseteq Nat \ {0}

VARIABLES
  conn,       \* per connection: "none", "open" or "closed"
  upgraded,   \* per connection: Conn.upgraded
  deadline,   \* per connection: handshakingConn.deadline
  qnode,      \* per connection: Conn.qnode is set
  io,         \* per connection: where its event loop is in OnTraffic
  wait,       \* handshakingWait
  over,       \* handshakingOver
  queue,      \* handshakingQueue
  tpc,        \* where runTicker is
  cur,        \* the connection runTicker has in hand
  timer,      \* when its timer fires
  now

conns == <<conn, upgraded, deadline, io>>
tick  == <<tpc, cur, timer>>
vars  == <<conns, qnode, wait, over, queue, tick, now>>

Queued == {queue[k] : k \in 1..Len(queue)}

Without(c) == SelectSeq(queue, LAMBDA d : d # c)

TypeOK ==
  /\ conn \in [Conns -> {"none", "open", "closed"}] /\ upgraded \in [Conns -> BOOLEAN]
  /\ deadline \in [Conns -> 0..(MaxNow + HandshakeTimeout)] /\ qnode \in [Conns -> BOOLEAN]
  /\ io \in [Conns -> {"idle", "upgraded", "callback", "failed", "close"}]
  /\ wait \in Seq(Conns) /\ Len(wait) <= ChanSize
  /\ over \in Seq(Conns) /\ Len(over) <= ChanSize
  /\ queue \in Seq(Conns) /\ Len(queue) <= MaxHandshakingSize
  /\ tpc \in {"select", "push", "store", "tick", "expire"} /\ cur \in Conns
  /\ timer \in Nat /\ now \in 0..MaxNow


tickerInterval == IF FiveSeconds > HandshakeTimeout THEN HandshakeTimeout ELSE FiveSeconds

Init ==
  /\ conn = [c \in Conns |-> "none"] /\ upgraded = [c \in Conns |-> FALSE]
  /\ deadline = [c \in Conns |-> 0] /\ qnode = [c \in Conns |-> FALSE]
  /\ io = [c \in Conns |-> "idle"]
  /\ wait = <<>> /\ over = <<>> /\ queue = <<>>
  /\ tpc = "select" /\ cur \in Conns /\ timer = tickerInterval /\ now = 0

-----------------------------------------------------------------------------
(* The event loops.                                                        *)

Room(ch) == Len(ch) < ChanSize

\* OnOpen: refused by OnClientConnect or because handshakingWait is full, or waiting.
OnOpen(c) ==
  /\ conn[c] = "none" /\ now + HandshakeTimeout <= MaxNow
  /\ \/ conn' = [conn EXCEPT ![c] = "closed"] /\ UNCHANGED <<deadline, wait>>
     \/ /\ Room(wait)
        /\ conn' = [conn EXCEPT ![c] = "open"]
        /\ deadline' = [deadline EXCEPT ![c] = now + HandshakeTimeout]
        /\ wait' = Append(wait, c)
  /\ UNCHANGED <<upgraded, io, qnode, over, queue, tick, now>>

IoStep(c, from, to) == io[c] = from /\ io' = [io EXCEPT ![c] = to]

\* handshake fails; a request that is not complete changes nothing.
HandshakeFails(c) ==
  /\ conn[c] = "open" /\ ~upgraded[c] /\ IoStep(c, "idle", "failed")
  /\ UNCHANGED <<conn, upgraded, deadline, qnode, wait, over, queue, tick, now>>

Upgrade(c) ==
  /\ conn[c] = "open" /\ ~upgraded[c] /\ IoStep(c, "idle", "upgraded")
  /\ upgraded' = [upgraded EXCEPT ![c] = TRUE]
  /\ UNCHANGED <<conn, deadline, qnode, wait, over, queue, tick, now>>

tryPromptlyRemoveHandshakingQnode(c) ==
  over' = IF qnode[c] /\ Room(over) THEN Append(over, c) ELSE over

AfterUpgrade(c) ==
  /\ IoStep(c, "upgraded", "callback")
  /\ tryPromptlyRemoveHandshakingQnode(c)
  /\ UNCHANGED <<conn, upgraded, deadline, qnode, wait, queue, tick, now>>

\* OnHandshake accepts the connection, or its error fails the handshake after all.
OnHandshake(c) ==
  /\ IoStep(c, "callback", "idle") \/ IoStep(c, "callback", "failed")
  /\ UNCHANGED <<conn, upgraded, deadline, qnode, wait, over, queue, tick, now>>

AfterFailure(c) ==
  /\ IoStep(c, "failed", "close")
  /\ tryPromptlyRemoveHandshakingQnode(c)
  /\ UNCHANGED <<conn, upgraded, deadline, qnode, wait, queue, tick, now>>

\* The action gnet.Close that OnTraffic returned.
CloseAction(c) ==
  /\ IoStep(c, "close", "idle")
  /\ conn' = [conn EXCEPT ![c] = "closed"]
  /\ UNCHANGED <<upgraded, deadline, qnode, wait, over, queue, tick, now>>

\* The client closes, or a frame's error does later on: OnClose only tells the user.
OnClose(c) ==
  /\ conn[c] = "open" /\ io[c] = "idle"
  /\ conn' = [conn EXCEPT ![c] = "closed"]
  /\ UNCHANGED <<upgraded, deadline, io, qnode, wait, over, queue, tick, now>>

-----------------------------------------------------------------------------
(* The goroutine of runTicker.                                             *)

TickStep(from, to) == tpc = from /\ tpc' = to

\* case handshakingWait: what IsUpgraded says may be stale when the node is pushed.
TakeWait ==
  /\ wait # <<>> /\ TickStep("select", IF upgraded[Head(wait)] THEN "select" ELSE "push")
  /\ cur' = Head(wait) /\ wait' = Tail(wait)
  /\ UNCHANGED <<conns, qnode, over, queue, timer, now>>

\* Mutant of CloseCur: the connection is only warned about.
CloseCurMut == UNCHANGED conn

CloseCur == conn' = [conn EXCEPT ![cur] = "closed"]

PushNode ==
  /\ \/ /\ Len(queue) < MaxHandshakingSize /\ TickStep("push", "store")
        /\ queue' = Append(queue, cur) /\ UNCHANGED conn
     \/ /\ Len(queue) = MaxHandshakingSize /\ TickStep("push", "select")
        /\ CloseCur /\ UNCHANGED queue
  /\ UNCHANGED <<upgraded, deadline, io, qnode, wait, over, cur, timer, now>>

StoreNode ==
  /\ TickStep("store", "select")
  /\ qnode' = [qnode EXCEPT ![cur] = TRUE]
  /\ UNCHANGED <<conns, wait, over, queue, cur, timer, now>>

\* case handshakingOver: the node is removed by whoever takes it out of qnode.
TakeOver ==
  /\ tpc = "select" /\ over # <<>>
  /\ over' = Tail(over)
  /\ qnode' = [qnode EXCEPT ![Head(over)] = FALSE]
  /\ queue' = IF qnode[Head(over)] THEN Without(Head(over)) ELSE queue
  /\ UNCHANGED <<conns, wait, tick, now>>

TimerFires ==
  /\ now >= timer /\ TickStep("select", "tick")
  /\ UNCHANGED <<conns, qnode, wait, over, queue, cur, timer, now>>

\* updateHandshakingQueue stops at a node whose deadline is to come, or at the end.
TickEnd ==
  /\ queue # <<>> => deadline[Head(queue)] > now
  /\ TickStep("tick", "select")
  /\ timer' = IF queue = <<>> THEN now + tickerInterval ELSE deadline[Head(queue)]
  /\ UNCHANGED <<conns, qnode, wait, over, queue, cur, now>>

\* The node at the front goes.
Expired == queue' = Tail(queue) /\ qnode' = [qnode EXCEPT ![Head(queue)] = FALSE]

\* A node at its deadline: one whose connection is not upgraded is closed in a later step.
TickOne ==
  /\ queue # <<>> /\ deadline[Head(queue)] <= now
  /\ \/ /\ upgraded[Head(queue)] /\ TickStep("tick", "tick") /\ Expired
        /\ UNCHANGED cur
     \/ /\ ~upgraded[Head(queue)] /\ TickStep("tick", "expire") /\ cur' = Head(queue)
        /\ UNCHANGED <<qnode, queue>>
  /\ UNCHANGED <<conns, wait, over, timer, now>>

\* Mutant of TickClose: the node stays at the front and is met again and again.
TickCloseMut ==
  /\ TickStep("expire", "tick")
  /\ CloseCur /\ UNCHANGED <<queue, qnode>>
  /\ UNCHANGED <<upgraded, deadline, io, wait, over, cur, timer, now>>

TickClose ==
  /\ TickStep("expire", "tick")
  /\ CloseCur /\ Expired
  /\ UNCHANGED <<upgraded, deadline, io, wait, over, cur, timer, now>>

\* Time passes while runTicker waits with nothing to take.
Pass ==
  /\ tpc = "select" /\ wait = <<>> /\ over = <<>> /\ now < timer
  /\ now < MaxNow /\ now' = now + 1
  /\ UNCHANGED <<conns, qnode, wait, over, queue, tick>>

OnTraffic(c) ==
  \/ HandshakeFails(c) \/ Upgrade(c) \/ AfterUpgrade(c) \/ OnHandshake(c)
  \/ AfterFailure(c) \/ CloseAction(c)

runTicker ==
  \/ TakeWait \/ PushNode \/ StoreNode \/ TakeOver
  \/ TimerFires \/ TickEnd \/ TickOne \/ TickClose

Next == (\E c \in Conns : OnOpen(c) \/ OnTraffic(c) \/ OnClose(c)) \/ runTicker \/ Pass

Spec == Init /\ [][Next]_vars

\* The ticker goroutine runs, time passes and a handler that has begun ends: clients owe nothing.
FairSpec ==
  /\ Spec /\ WF_vars(runTicker) /\ WF_vars(Pass)
  /\ \A c \in Conns :
       WF_vars(AfterUpgrade(c) \/ OnHandshake(c) \/ AfterFailure(c) \/ CloseAction(c))

-----------------------------------------------------------------------------
\* A connection has at most one node, and its qnode is set exactly while the node is in
\* the queue (between Push and Store for runTicker alone): a node is never removed twice,
\* though a failed OnHandshake sends the connection to handshakingOver again and the
\* deadline may come first (wsg/server.go 329-345, 356-388).
NodesMatch ==
  /\ Cardinality(Queued) = Len(queue)
  /\ \A c \in Conns : qnode[c] <=> c \in Queued /\ ~(tpc = "store" /\ cur = c)

\* A connection that is open and not upgraded is watched: it waits for runTicker, is in its
\* hands or in the queue; or its event loop is about to close it (wsg/server.go 127-181, 329-338).
\* And nodes and connections match.
Watched ==
  /\ NodesMatch
  /\ \A c \in Conns :
       (conn[c] = "open" /\ ~upgraded[c]) =>
         \/ \E k \in 1..Len(wait) : wait[k] = c
         \/ tpc = "push" /\ cur = c
         \/ c \in Queued
         \/ io[c] = "close"


\* Every connection opened is upgraded or closed in the end, whatever its client does.
Settles == \A c \in Conns : conn[c] = "open" ~> (upgraded[c] \/ conn[c] = "closed")

=============================================================================
