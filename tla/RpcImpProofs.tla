---------------------------- MODULE RpcImpProofs ----------------------------
(* Why no connection of the rpc facade is forgotten but by callers that connect *)
(* to one address at once, for any number of callers, addresses, connections.   *)
EXTENDS RpcImp, SequenceTheorems, TLAPS

Made == 1..Len(conns)

Typed ==
  /\ pc \in [Callers -> {"idle", "dial", "store", "use"}]
  /\ todo \in [Callers -> SUBSET Addrs] /\ addr \in [Callers -> Addrs]
  /\ cli \in [Callers -> Nat] /\ clients \in [Addrs -> Nat]
  /\ conns \in Seq([to : Addrs, open : BOOLEAN])

\* A connection that is dialled and not stored has one caller, and is for its address.
Held ==
  \A p \in Callers :
    /\ pc[p] # "store" => cli[p] = 0
    /\ pc[p] = "store" => cli[p] \in Made /\ conns[cli[p]].to = addr[p]
    /\ \A q \in Callers : cli[p] = cli[q] /\ cli[p] # 0 => p = q

\* A client is a stored connection to its address; one that a connecting caller is about to
\* replace was stored while that caller was connecting.
Listed ==
  \A a \in Addrs : clients[a] # 0 =>
    /\ clients[a] \in Made /\ conns[clients[a]].to = a /\ Stored(clients[a])
    /\ (\E p \in Callers : Connecting(p, a)) => clients[a] \in raced

Kept == \A c \in Made : conns[c].open /\ Stored(c) => clients[conns[c].to] = c \/ c \in raced

\* Where the loop of Stop has been, and at the end of it everywhere, what is open was
\* stored since Stop began.
Shut(a) == clients[a] # 0 /\ conns[clients[a]].open => clients[a] \in late

Closed ==
  /\ stop = "none" => visited = {}
  /\ \A a \in Addrs : a \in visited \/ stop \in {"server", "done"} => Shut(a)

ConnInv == Typed /\ Held /\ Listed /\ Kept /\ Closed

LEMMA MadeTyped ==
    ASSUME Typed, NEW c \in Made
    PROVE  conns[c] \in [to : Addrs, open : BOOLEAN] /\ conns[c].to \in Addrs /\ c # 0
  <1>1. conns[c] \in [to : Addrs, open : BOOLEAN]
    BY ElementOfSeq DEF Typed, Made
  <1> QED BY <1>1 DEF Made

LEMMA ConnInit == ASSUME Addrs # {}, RpcInit PROVE ConnInv
  <1>1. Typed
    <2>1. (CHOOSE a \in Addrs : TRUE) \in Addrs
      OBVIOUS
    <2> QED BY <2>1, EmptySeq DEF RpcInit, Typed
  <1>2. Held /\ Listed /\ Kept /\ Closed
    BY EmptySeq DEF RpcInit, Held, Listed, Kept, Closed, Shut, Made
  <1> QED BY <1>1, <1>2 DEF ConnInv

\* The steps of Run and the end of the parent context.
LEMMA QuietStep ==
    ASSUME ConnInv, UNCHANGED <<callVars, connVars, visited>>,
           \/ stop' = stop
           \/ stop = "none" /\ stop' = "clients"
           \/ stop = "clients" /\ stop' = "server" /\ AllClosed
           \/ stop = "server" /\ stop' = "done"
    PROVE  ConnInv'
  <1>1. Typed' /\ Held' /\ Listed' /\ Kept'
    BY DEF ConnInv, Typed, Held, Listed, Kept, Made, Stored, Connecting, callVars, connVars
  <1>2. \A a \in Addrs : Shut(a)' <=> Shut(a)
    BY DEF Shut, connVars
  <1>3. stop = "clients" /\ AllClosed => \A a \in Addrs : Shut(a)
    BY DEF ConnInv, Closed, AllClosed, Shut
  <1>4. Closed'
    BY <1>2, <1>3 DEF ConnInv, Closed
  <1> QED BY <1>1, <1>4 DEF ConnInv

LEMMA LookupStep ==
    ASSUME ConnInv, NEW p \in Callers, GetService(p) \/ Lookup(p)
    PROVE  ConnInv'
  <1>1. /\ pc[p] \in {"idle", "use"} /\ UNCHANGED <<cli, connVars, stop, visited>>
        /\ pc' \in [Callers -> {"idle", "dial", "store", "use"}]
        /\ todo' \in [Callers -> SUBSET Addrs] /\ addr' \in [Callers -> Addrs]
        /\ pc'[p] \in {"dial", "use"}
        /\ \A q \in Callers \ {p} : pc'[q] = pc[q] /\ addr'[q] = addr[q]
    <2>1. CASE GetService(p)
      BY <2>1 DEF GetService, Goto, others, ConnInv, Typed
    <2>2. CASE Lookup(p)
      <3>1. PICK a \in todo[p] :
              /\ addr' = [addr EXCEPT ![p] = a] /\ todo' = [todo EXCEPT ![p] = @ \ {a}]
              /\ pc' = [pc EXCEPT ![p] = IF Known(a) THEN "use" ELSE "dial"]
        BY <2>2 DEF Lookup, Goto
      <3>2. a \in Addrs /\ todo[p] \ {a} \in SUBSET Addrs
        BY DEF ConnInv, Typed
      <3> QED BY <2>2, <3>1, <3>2 DEF Lookup, others, ConnInv, Typed
    <2> QED BY <2>1, <2>2
  <1>2. pc'[p] = "dial" => clients[addr'[p]] = 0
    BY DEF GetService, Lookup, Goto, Known, ConnInv, Typed
  <1>3. Typed' /\ Held'
    BY <1>1 DEF ConnInv, Typed, Held, Made, connVars
  <1>4. ASSUME NEW a \in Addrs, clients[a] # 0, NEW q \in Callers, Connecting(q, a)'
        PROVE  Connecting(q, a)
    BY <1>1, <1>2, <1>4 DEF Connecting
  <1>5. Listed'
    BY <1>1, <1>4 DEF ConnInv, Listed, Made, Stored, connVars
  <1>6. Kept' /\ Closed'
    BY <1>1 DEF ConnInv, Kept, Closed, Shut, Made, Stored, connVars
  <1> QED BY <1>3, <1>5, <1>6 DEF ConnInv

LEMMA DialStep ==
    ASSUME ConnInv, NEW p \in Callers, Dial(p)
    PROVE  ConnInv'
  <1>1. /\ pc[p] = "dial" /\ UNCHANGED <<todo, addr, clients, raced, late, stop, visited>>
        /\ \A q \in Callers \ {p} : pc'[q] = pc[q]
    BY DEF Dial, Goto, others, ConnInv, Typed
  <1>2. CASE pc' = [pc EXCEPT ![p] = "use"] /\ UNCHANGED <<conns, cli>>
    <2>1. Typed' /\ Held' /\ Kept' /\ Closed'
      BY <1>1, <1>2 DEF ConnInv, Typed, Held, Kept, Closed, Shut, Made, Stored
    <2>2. Listed'
      BY <1>1, <1>2 DEF ConnInv, Typed, Listed, Made, Stored, Connecting
    <2> QED BY <2>1, <2>2 DEF ConnInv
  <1>3. CASE /\ conns' = Append(conns, [to |-> addr[p], open |-> TRUE])
             /\ cli' = [cli EXCEPT ![p] = Len(conns')] /\ pc' = [pc EXCEPT ![p] = "store"]
    <2>1. PICK n \in Nat : n = Len(conns) + 1
      BY LenProperties DEF ConnInv, Typed
    <2>2. /\ conns' \in Seq([to : Addrs, open : BOOLEAN]) /\ Len(conns') = n
          /\ conns'[n] = [to |-> addr[p], open |-> TRUE]
          /\ \A c \in Made : conns'[c] = conns[c]
      <3>1. PICK e \in [to : Addrs, open : BOOLEAN] : e = [to |-> addr[p], open |-> TRUE]
        BY DEF ConnInv, Typed
      <3>2. conns \in Seq([to : Addrs, open : BOOLEAN]) /\ Len(conns) \in Nat
        BY LenProperties DEF ConnInv, Typed
      <3> QED BY <1>3, <2>1, <3>1, <3>2, AppendProperties DEF Made
    <2>3. Made' = Made \cup {n} /\ n \notin Made /\ n # 0 /\ 0 \notin Made
      <3>1. Len(conns) \in Nat
        BY LenProperties DEF ConnInv, Typed
      <3> QED BY <2>1, <2>2, <3>1 DEF Made
    <2>4. cli'[p] = n /\ pc'[p] = "store" /\ \A q \in Callers \ {p} : cli'[q] = cli[q]
      BY <1>3, <2>2 DEF ConnInv, Typed
    <2>5. Typed'
      BY <1>1, <1>3, <2>1, <2>2 DEF ConnInv, Typed
    <2>6. \A q \in Callers : cli[q] = 0 \/ cli[q] \in Made
      BY DEF ConnInv, Typed, Held
    <2>7. Held'
      <3>1. ASSUME NEW q \in Callers, q # p
            PROVE  /\ pc'[q] # "store" => cli'[q] = 0
                   /\ pc'[q] = "store" => cli'[q] \in Made' /\ conns'[cli'[q]].to = addr'[q]
        BY <1>1, <2>2, <2>3, <2>4, <3>1 DEF ConnInv, Held
      <3>2. \A q, r \in Callers : cli'[q] = cli'[r] /\ cli'[q] # 0 => q = r
        BY <2>3, <2>4, <2>6 DEF ConnInv, Held
      <3>3. cli'[p] \in Made' /\ conns'[cli'[p]].to = addr'[p]
        BY <1>1, <2>2, <2>3, <2>4
      <3> QED BY <2>4, <3>1, <3>2, <3>3 DEF Held
    <2>8. cli[p] = 0
      BY <1>1 DEF ConnInv, Held
    <2>9. \A c \in Made : Stored(c)' <=> Stored(c)
      BY <2>3, <2>4, <2>8 DEF Stored
    <2>10. Listed'
      <3>1. \A q \in Callers, a \in Addrs : Connecting(q, a)' <=> Connecting(q, a)
        BY <1>1, <2>4 DEF Connecting
      <3> QED BY <1>1, <2>2, <2>3, <2>9, <3>1 DEF ConnInv, Listed
    <2>11. ~Stored(n)'
      BY <2>4 DEF Stored
    <2>12. Kept'
      BY <1>1, <2>2, <2>3, <2>9, <2>11 DEF ConnInv, Kept
    <2>13. Closed'
      BY <1>1, <2>2 DEF ConnInv, Closed, Shut, Listed
    <2> QED BY <2>5, <2>7, <2>10, <2>12, <2>13 DEF ConnInv
  <1> QED BY <1>2, <1>3 DEF Dial, Goto

LEMMA StoreStep ==
    ASSUME ConnInv, NEW p \in Callers, Store(p)
    PROVE  ConnInv'
  <1>1. PICK k \in Addrs : k = addr[p]
    BY DEF ConnInv, Typed
  <1>2. PICK n \in Made : n = cli[p] /\ conns[n].to = k /\ n # 0
    BY <1>1 DEF Store, ConnInv, Held, Made
  <1>3. /\ pc[p] = "store" /\ UNCHANGED <<todo, addr, conns, stop, visited>>
        /\ pc'[p] = "use" /\ cli'[p] = 0 /\ clients'[k] = n
        /\ \A q \in Callers \ {p} : pc'[q] = pc[q] /\ cli'[q] = cli[q]
        /\ \A a \in Addrs \ {k} : clients'[a] = clients[a]
        /\ raced \subseteq raced' /\ late \subseteq late' /\ (stop # "none" => n \in late')
        /\ (\E q \in Callers \ {p} : Connecting(q, k)) => n \in raced'
    BY <1>1, <1>2 DEF Store, Goto, others, ConnInv, Typed
  <1>4. Made' = Made
    BY <1>3 DEF Made
  <1>5. Typed'
    BY <1>1, <1>2, <1>3 DEF Store, Goto, ConnInv, Typed, Made
  <1>6. Held'
    BY <1>3, <1>4 DEF ConnInv, Held
  <1>7. \A c \in Made : Stored(c)' <=> Stored(c) \/ c = n
    <2>1. \A q \in Callers \ {p} : cli[q] # n
      BY <1>2 DEF ConnInv, Held
    <2>2. 0 \notin Made
      BY DEF Made
    <2> QED BY <1>2, <1>3, <2>1, <2>2 DEF Stored
  <1>8. \A a \in Addrs, q \in Callers : Connecting(q, a)' <=> Connecting(q, a) /\ q # p
    BY <1>3 DEF Connecting
  <1>9. clients[k] # 0 => clients[k] \in raced
    BY <1>1, <1>3 DEF ConnInv, Listed, Connecting
  <1>10. Listed'
    <2>1. ASSUME NEW a \in Addrs, a # k, clients'[a] # 0
          PROVE  /\ clients'[a] \in Made' /\ conns'[clients'[a]].to = a /\ Stored(clients[a])'
                 /\ (\E q \in Callers : Connecting(q, a)') => clients'[a] \in raced'
      <3>1. PICK m : m = clients[a] /\ m = clients'[a] /\ m # 0
        BY <1>3, <2>1
      <3>2. /\ m \in Made /\ conns[m].to = a /\ Stored(m)
            /\ (\E q \in Callers : Connecting(q, a)) => m \in raced
        BY <3>1 DEF ConnInv, Listed
      <3>3. Stored(m)'
        BY <1>7, <3>2
      <3>4. Stored(clients[a])'
        BY <3>1, <3>3 DEF Stored
      <3> QED BY <1>3, <1>4, <1>8, <3>1, <3>2, <3>4
    <2>2. /\ clients'[k] \in Made' /\ conns'[clients'[k]].to = k /\ Stored(n)'
          /\ (\E q \in Callers : Connecting(q, k)') => clients'[k] \in raced'
      BY <1>2, <1>3, <1>4, <1>7, <1>8
    <2>3. Stored(clients[k])'
      BY <1>3, <2>2 DEF Stored
    <2> QED BY <2>1, <2>2, <2>3 DEF Listed
  <1>11. Kept'
    <2>1. ASSUME NEW c \in Made, conns[c].open, Stored(c)
          PROVE  clients'[conns[c].to] = c \/ c \in raced'
      <3>1. clients[conns[c].to] = c \/ c \in raced
        BY <2>1 DEF ConnInv, Kept
      <3>2. conns[c].to \in Addrs /\ c # 0
        BY MadeTyped DEF ConnInv
      <3> QED BY <1>3, <1>9, <3>1, <3>2
    <2> QED BY <1>2, <1>3, <1>4, <1>7, <2>1 DEF Kept
  <1>12. Closed'
    <2>1. ASSUME NEW a \in Addrs, a \in visited \/ stop \in {"server", "done"} PROVE Shut(a)'
      <3>1. stop # "none" /\ Shut(a)
        BY <2>1 DEF ConnInv, Closed
      <3> QED BY <1>3, <3>1 DEF Shut
    <2> QED BY <1>3, <2>1 DEF ConnInv, Closed
  <1> QED BY <1>5, <1>6, <1>10, <1>11, <1>12 DEF ConnInv

LEMMA StopClientStep ==
    ASSUME ConnInv, StopClient
    PROVE  ConnInv'
  <1>1. PICK k \in Addrs \ visited :
          /\ stop = "clients" /\ clients[k] # 0
          /\ conns' = [conns EXCEPT ![clients[k]].open = FALSE]
          /\ visited' = visited \cup {k}
          /\ UNCHANGED <<pc, todo, addr, cli, clients, raced, late, stop>>
    BY DEF StopClient, callVars
  <1>2. PICK n \in Made : n = clients[k]
    BY <1>1 DEF ConnInv, Listed
  <1> DEFINE e == [conns[n] EXCEPT !.open = FALSE]
  <1>3. conns \in Seq([to : Addrs, open : BOOLEAN]) /\ n \in 1..Len(conns) /\ DOMAIN conns = Made
    BY <1>2, LenProperties DEF ConnInv, Typed, Made
  <1>4. conns[n] \in [to : Addrs, open : BOOLEAN]
    BY MadeTyped DEF ConnInv
  <1>5. e \in [to : Addrs, open : BOOLEAN] /\ e.to = conns[n].to /\ e.open = FALSE
    BY <1>4
  <1>6. conns' = [conns EXCEPT ![n] = e]
    BY <1>1, <1>2
  <1> HIDE DEF e
  <1>7. conns' \in Seq([to : Addrs, open : BOOLEAN]) /\ Len(conns') = Len(conns)
    BY <1>3, <1>5, <1>6, ExceptSeq
  <1>8. /\ Made' = Made
        /\ \A c \in Made : conns'[c].to = conns[c].to /\ (conns'[c].open => conns[c].open)
        /\ conns'[n].open = FALSE
    BY <1>3, <1>5, <1>6, <1>7 DEF Made
  <1>9. Typed' /\ Held'
    BY <1>1, <1>7, <1>8 DEF ConnInv, Typed, Held
  <1>10. Listed' /\ Kept'
    BY <1>1, <1>8 DEF ConnInv, Listed, Kept, Stored, Connecting
  <1>11. Closed'
    BY <1>1, <1>2, <1>8 DEF ConnInv, Closed, Shut, Listed
  <1> QED BY <1>9, <1>10, <1>11 DEF ConnInv

LEMMA ConnStep == ConnInv /\ [RpcNext]_rpcVars => ConnInv'
  <1> SUFFICES ASSUME ConnInv, [RpcNext]_rpcVars PROVE ConnInv'
    OBVIOUS
  <1>1. ASSUME NEW p \in Callers, CallStep(p) PROVE ConnInv'
    BY <1>1, LookupStep, DialStep, StoreStep DEF CallStep
  <1>2. CASE EtcdEnds \/ ServerEnds \/ RunStep \/ ParentDone
    BY <1>2, QuietStep DEF EtcdEnds, ServerEnds, RunStep, EtcdOnStop, Watch, RunServed, RunWaited,
                           ParentDone
  <1>3. CASE StopBegin \/ StopServer \/ StopDone
    BY <1>3, QuietStep DEF StopBegin, StopServer, StopDone
  <1>4. CASE StopClient
    BY <1>4, StopClientStep
  <1>5. CASE UNCHANGED rpcVars
    BY <1>5, QuietStep DEF rpcVars
  <1> QED BY <1>1, <1>2, <1>3, <1>4, <1>5 DEF RpcNext, StopStep

\* An open connection is the client of its address unless another caller was connecting to
\* the address when it was stored, and what Stop leaves open was stored since it began or
\* had been replaced.
THEOREM NoConnForgotten == ASSUME Addrs # {} PROVE RpcSpec => []ConnsAccounted
  <1>1. RpcInit => ConnInv
    BY ConnInit
  <1>2. ConnInv => ConnsAccounted
    <2> SUFFICES ASSUME ConnInv, NEW c \in 1..Len(conns), conns[c].open, Stored(c)
                 PROVE  /\ clients[conns[c].to] = c \/ c \in raced
                        /\ stop \in {"server", "done"} => c \in late \/ clients[conns[c].to] # c
      BY DEF ConnsAccounted
    <2>1. conns[c].to \in Addrs /\ c # 0
      BY MadeTyped DEF ConnInv, Made
    <2> QED BY <2>1 DEF ConnInv, Kept, Closed, Shut, Made
  <1> QED BY <1>1, <1>2, ConnStep, PTL DEF RpcSpec
=============================================================================
