------------------------------- MODULE RpcImp -------------------------------
(***************************************************************************)
(* The facade of the rpc package, rpc/rpc.go: callers that look a service  *)
(* up, find or make the client connection to its address and use it; Run,  *)
(* which waits for the server and for the goroutine of the discovery; and  *)
(* Stop.  What discovery answers, dialling, and the inside of Server and   *)
(* ClientConn are external here (Discovery, SvrWriter, RpcClient).         *)
(***************************************************************************)
EXTENDS Naturals, Sequences

CONSTANTS
  Callers,   \* goroutines in Call or CallAll
  Addrs,     \* addresses discovery knows
  MaxConns   \* bound on connections made

VARIABLES
  pc,         \* per caller: where it is with its address
  todo,       \* per caller: the addresses it has yet to call
  addr,       \* per caller: the address it is at
  cli,        \* per caller: the connection it has dialled and not yet stored, or 0
  clients,    \* RpcImp.clients: address to connection, 0 for none
  conns,      \* every connection made: its address and whether it is open
  raced,      \* history: connections stored while another caller was connecting too
  late,       \* history: connections stored after Stop began
  cancelled,  \* RpcImp.ctx is cancelled
  etcd,       \* the goroutine of discovery's Start
  errCh,      \* what it has sent
  watcher,    \* the goroutine of Run that waits for errCh
  server,     \* Server.Run
  runImp,     \* where Run is
  stop,       \* where Stop is
  visited,    \* addresses the loop of Stop has been at
  crashed     \* the runtime has seen the map written during Stop's loop

callVars == <<pc, todo, addr, cli>>
connVars == <<clients, conns, raced, late>>
discVars == <<etcd, errCh, watcher>>
rpcVars == <<callVars, connVars, cancelled, discVars, server, runImp, stop, visited, crashed>>

RpcTypeOK ==
  /\ pc \in [Callers -> {"idle", "dial", "store", "use"}]
  /\ todo \in [Callers -> SUBSET Addrs] /\ addr \in [Callers -> Addrs]
  /\ cli \in [Callers -> 0..MaxConns]
  /\ clients \in [Addrs -> 0..MaxConns]
  /\ conns \in Seq([to : Addrs, open : BOOLEAN]) /\ Len(conns) <= MaxConns
  /\ raced \subseteq 1..MaxConns /\ late \subseteq 1..MaxConns
  /\ cancelled \in BOOLEAN /\ crashed \in BOOLEAN
  /\ etcd \in {"run", "onStop", "stopped"} /\ errCh \in {"none", "nil", "err"}
  /\ watcher \in {"wait", "done"}
  /\ server \in {"run", "closing", "stopped", "failed"}
  /\ runImp \in {"serve", "wait", "returned", "failed"}
  /\ stop \in {"none", "clients", "server", "done"} /\ visited \subseteq Addrs

RpcInit ==
  /\ pc = [p \in Callers |-> "idle"] /\ todo = [p \in Callers |-> {}]
  /\ addr = [p \in Callers |-> CHOOSE a \in Addrs : TRUE] /\ cli = [p \in Callers |-> 0]
  /\ clients = [a \in Addrs |-> 0] /\ conns = <<>> /\ raced = {} /\ late = {}
  /\ cancelled = FALSE /\ etcd = "run" /\ errCh = "none" /\ watcher = "wait"
  /\ server = "run" /\ runImp = "serve"
  /\ stop = "none" /\ visited = {} /\ crashed = FALSE

-----------------------------------------------------------------------------
(* Call and CallAll.                                                       *)

Goto(p, l) == pc' = [pc EXCEPT ![p] = l]

others == <<cancelled, discVars, server, runImp, stop, visited>>

\* Discovery gives Call one address, CallAll all it knows, or an error.
GetService(p) ==
  /\ pc[p] = "idle"
  /\ \E as \in SUBSET Addrs : todo' = [todo EXCEPT ![p] = as]
  /\ Goto(p, "use")
  /\ UNCHANGED <<addr, cli, connVars, others, crashed>>

\* Mutant of Known: the client found is not looked at.
KnownMut(a) == FALSE

\* imp.clients[addr], under the read lock.
Known(a) == clients[a] # 0

\* The next address of the loop of CallAll, or the only one of Call: its client is used,
\* or there is none and connectTo is called.
Lookup(p) ==
  /\ pc[p] = "use"
  /\ \E a \in todo[p] :
       /\ addr' = [addr EXCEPT ![p] = a] /\ todo' = [todo EXCEPT ![p] = @ \ {a}]
       /\ Goto(p, IF Known(a) THEN "use" ELSE "dial")
  /\ UNCHANGED <<cli, connVars, others, crashed>>

\* NewClientConn, in connectTo; a failure ends with this address.
Dial(p) ==
  /\ pc[p] = "dial"
  /\ \/ /\ Len(conns) < MaxConns
        /\ conns' = Append(conns, [to |-> addr[p], open |-> TRUE])
        /\ cli' = [cli EXCEPT ![p] = Len(conns')]
        /\ Goto(p, "store")
     \/ Goto(p, "use") /\ UNCHANGED <<conns, cli>>
  /\ UNCHANGED <<todo, addr, clients, raced, late, others, crashed>>

Connecting(q, a) == pc[q] \in {"dial", "store"} /\ addr[q] = a

\* imp.clients[rpcAddr] = cli, under the write lock, which Stop does not take: during its
\* loop the runtime may end the process for it.
Store(p) ==
  LET a == addr[p]
      c == cli[p]
  IN
  /\ pc[p] = "store"
  /\ clients' = [clients EXCEPT ![a] = c]
  /\ raced' = IF \E q \in Callers \ {p} : Connecting(q, a) THEN raced \cup {c} ELSE raced
  /\ late' = IF stop = "none" THEN late ELSE late \cup {c}
  /\ cli' = [cli EXCEPT ![p] = 0] /\ Goto(p, "use")
  /\ crashed' \in (IF stop = "clients" THEN BOOLEAN ELSE {FALSE})
  /\ UNCHANGED <<todo, addr, conns, others>>

-----------------------------------------------------------------------------
(* Run and the goroutines it starts.                                       *)

\* Discovery's goroutine ends with its context, or with an error of its watch.
EtcdEnds ==
  /\ etcd = "run"
  /\ \/ cancelled /\ errCh' = "nil"
     \/ errCh' = "err"
  /\ etcd' = "onStop"
  /\ UNCHANGED <<callVars, connVars, cancelled, watcher, server, runImp, stop, visited, crashed>>

\* onStop, then wg.Done().
EtcdOnStop ==
  /\ etcd = "onStop"
  /\ etcd' = "stopped"
  /\ UNCHANGED <<callVars, connVars, cancelled, errCh, watcher, server, runImp, stop, visited, crashed>>

\* Server.Stop begins, or returns at once when it was called before.
ServerStop == server' = IF server = "run" THEN "closing" ELSE server


\* err := <-errCh
Watch ==
  /\ watcher = "wait" /\ errCh # "none"
  /\ watcher' = "done"
  /\ IF errCh = "err" THEN cancelled' = TRUE /\ ServerStop ELSE UNCHANGED <<cancelled, server>>
  /\ UNCHANGED <<callVars, connVars, etcd, errCh, runImp, stop, visited, crashed>>

\* Server.Stop ends the event loop; or the event loop fails by itself.
ServerEnds ==
  /\ \/ server = "closing" /\ server' = "stopped"
     \/ server = "run" /\ server' = "failed"
  /\ UNCHANGED <<callVars, connVars, cancelled, discVars, runImp, stop, visited, crashed>>

\* imp.server.Run() returns; with an error, so does Run.
RunServed ==
  /\ runImp = "serve" /\ server \in {"stopped", "failed"}
  /\ IF server = "failed" THEN runImp' = "failed" /\ cancelled' = TRUE
     ELSE runImp' = "wait" /\ UNCHANGED cancelled
  /\ UNCHANGED <<callVars, connVars, discVars, server, stop, visited, crashed>>

\* wg.Wait()
RunWaited ==
  /\ runImp = "wait" /\ etcd = "stopped"
  /\ runImp' = "returned"
  /\ UNCHANGED <<callVars, connVars, cancelled, discVars, server, stop, visited, crashed>>

-----------------------------------------------------------------------------
(* Stop, and the end of the context given to NewRpc.                       *)

ParentDone ==
  /\ ~cancelled /\ cancelled' = TRUE
  /\ UNCHANGED <<callVars, connVars, discVars, server, runImp, stop, visited, crashed>>

StopBegin ==
  /\ stop = "none"
  /\ stop' = "clients" /\ cancelled' = TRUE
  /\ UNCHANGED <<callVars, connVars, discVars, server, runImp, visited, crashed>>

\* The loop over imp.clients: cli.Close().
StopClient ==
  \E a \in Addrs \ visited :
    /\ stop = "clients" /\ clients[a] # 0
    /\ conns' = [conns EXCEPT ![clients[a]].open = FALSE]
    /\ visited' = visited \cup {a}
    /\ UNCHANGED <<callVars, clients, raced, late, cancelled, discVars, server, runImp, stop, crashed>>

\* The loop need not come to an address that was added since it began.
AllClosed == \A a \in Addrs \ visited : clients[a] # 0 => clients[a] \in late

StopServer ==
  /\ stop = "clients" /\ AllClosed
  /\ stop' = "server" /\ ServerStop
  /\ UNCHANGED <<callVars, connVars, cancelled, discVars, runImp, visited, crashed>>

\* Server.Stop returns, by itself or after three seconds.
StopDone ==
  /\ stop = "server"
  /\ stop' = "done"
  /\ UNCHANGED <<callVars, connVars, cancelled, discVars, server, runImp, visited, crashed>>

-----------------------------------------------------------------------------
CallStep(p) == GetService(p) \/ Lookup(p) \/ Dial(p) \/ Store(p)

RunStep == EtcdOnStop \/ Watch \/ RunServed \/ RunWaited

StopStep == StopClient \/ StopServer \/ StopDone

RpcNext ==
  /\ ~crashed
  /\ \/ \E p \in Callers : CallStep(p)
     \/ EtcdEnds \/ ServerEnds \/ RunStep
     \/ ParentDone \/ StopBegin \/ StopStep

RpcSpec == RpcInit /\ [][RpcNext]_rpcVars

\* Goroutines that can go on do; discovery sees the end of its context, and Server.Stop ends
\* the event loop.
RpcFairness ==
  /\ WF_rpcVars(~crashed /\ cancelled /\ EtcdEnds)
  /\ WF_rpcVars(~crashed /\ server = "closing" /\ ServerEnds)
  /\ WF_rpcVars(~crashed /\ RunStep)
  /\ WF_rpcVars(~crashed /\ StopStep)

-----------------------------------------------------------------------------
Stored(c) == \A p \in Callers : c # cli[p]

\* No connection is made and forgotten: an open one is the client of its address, except
\* when another caller was connecting to the same address when it was stored, since
\* connectTo does not look again (rpc/rpc.go 127-134, 164-173).  And when Stop is past its
\* loop, those open are only such ones or stored since it began (rpc.go 82-90).
ConnsAccounted ==
  \A c \in 1..Len(conns) : conns[c].open /\ Stored(c) =>
    /\ clients[conns[c].to] = c \/ c \in raced
    /\ stop \in {"server", "done"} => c \in late \/ clients[conns[c].to] # c

=============================================================================
