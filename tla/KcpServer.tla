----------------------------- MODULE KcpServer -----------------------------
(***************************************************************************)
(* The sessions of a KCP server (kcp/server.go, kcp/session.go): the       *)
(* read loop routes datagrams, the accept loop makes sessions of first     *)
(* datagrams, each session has its kcpLoop, and handlers call Session.Send *)
(* from goroutines of their own.  What a session does with its data is     *)
(* module Kcp; here a datagram is the conversation id it carries and a     *)
(* session is the number of its creation.                                  *)
(***************************************************************************)
EXTENDS Naturals, Sequences, FiniteSets

CONSTANTS Conv,        \* conversation ids, without the reserved 0
          Cids,        \* what ParseConvId finds in datagrams, 0 included or not
          MaxSess,     \* bound on the sessions made
          MaxPkts,     \* bound on the datagrams that arrive
          AcceptCap, InputCap   \* capacities (1024 both in the code)

ASSUME KcpServerAssumption ==
    /\ 0 \notin Conv /\ Cids \subseteq Conv \cup {0}
    /\ {MaxSess, MaxPkts, AcceptCap, InputCap} \subseteq Nat

VARIABLES
    sessions,   \* Server.sessions: the session of each id, 0 for none
    acceptCh,   \* ids of the datagrams waiting for the handshake
    reader,     \* readLoop: <<>>, or the datagram looked up and not yet passed on
    acceptor,   \* acceptLoop: where it is, and the session it has just made
    sess,       \* the sessions made so far
    ctxDone,    \* Server.ctx is cancelled
    closer,     \* Close: not called, waiting for the wait group, returned
    pkts        \* datagrams so far

vars == <<sessions, acceptCh, reader, acceptor, sess, ctxDone, closer, pkts>>

Made == DOMAIN sess
Listed(cid) == IF cid \in Conv THEN sessions[cid] ELSE 0

\* newSession: a kcpLoop is started with a context below the server's.  onto is history:
\* the session that is listed under the id at that moment.
NewSession(c) == [conv |-> c, onto |-> Listed(c), input |-> 0, connected |-> FALSE, dead |-> FALSE,
                  closed |-> FALSE, cancelled |-> FALSE, onClose |-> 0,
                  loop |-> "run", user |-> "idle"]

Init ==
    /\ sessions = [c \in Conv |-> 0]
    /\ acceptCh = <<>> /\ reader = <<>>
    /\ acceptor = [pc |-> "select", s |-> 0]
    /\ sess = <<>>
    /\ ctxDone = FALSE /\ closer = "none" /\ pkts = 0

-----------------------------------------------------------------------------
(* The read loop                                                           *)

\* onRead up to the unlock: the session is looked up under sessMtx.
OnRead(cid) ==
    /\ reader = <<>> /\ pkts < MaxPkts
    /\ pkts' = pkts + 1
    /\ reader' = <<[cid |-> cid, to |-> Listed(cid)]>>
    /\ UNCHANGED <<sessions, acceptCh, acceptor, sess, ctxDone, closer>>

\* A channel send in a select with default: without room the datagram is dropped.
HasRoom(n, cap) == n < cap

\* The rest of onRead: to the session found, which may be closed by now, or to
\* the handshakes.
PassOn ==
    /\ reader # <<>>
    /\ reader' = <<>>
    /\ LET s == Head(reader).to IN
       IF s # 0
       THEN /\ sess' = IF HasRoom(sess[s].input, InputCap)
                       THEN [sess EXCEPT ![s].input = @ + 1] ELSE sess
            /\ UNCHANGED acceptCh
       ELSE /\ acceptCh' = IF HasRoom(Len(acceptCh), AcceptCap)
                           THEN Append(acceptCh, Head(reader).cid) ELSE acceptCh
            /\ UNCHANGED sess
    /\ UNCHANGED <<sessions, acceptor, ctxDone, closer, pkts>>

-----------------------------------------------------------------------------
(* The accept loop                                                         *)

\* The application's OnHandshake: refuses with 0, takes the id of the datagram,
\* or chooses one for a datagram that has none.
OnHandshake(cid) == {0} \cup IF cid = 0 THEN Conv ELSE {cid}

\* select takes a task and the handshake is asked; a session is made if it agrees.
Accept ==
    /\ acceptor.pc = "select" /\ acceptCh # <<>> /\ Len(sess) < MaxSess
    /\ acceptCh' = Tail(acceptCh)
    /\ \E c \in OnHandshake(Head(acceptCh)) :
         IF c = 0 THEN UNCHANGED <<sess, acceptor>>
         ELSE /\ sess' = Append(sess, NewSession(c))
              /\ acceptor' = [pc |-> "store", s |-> Len(sess')]
    /\ UNCHANGED <<sessions, reader, ctxDone, closer, pkts>>

\* Mutant of AcceptSteps: the handler is told of the session before it is listed.
AcceptStepsMut(store, connect) ==
    \/ acceptor.pc = "store" /\ acceptor' = [acceptor EXCEPT !.pc = "connect"] /\ connect
    \/ acceptor.pc = "connect" /\ acceptor' = [acceptor EXCEPT !.pc = "select"] /\ store

\* The order of acceptLoop's last two steps.
AcceptSteps(store, connect) ==
    \/ acceptor.pc = "store" /\ acceptor' = [acceptor EXCEPT !.pc = "connect"] /\ store
    \/ acceptor.pc = "connect" /\ acceptor' = [acceptor EXCEPT !.pc = "select"] /\ connect

\* The session is listed under sessMtx, then handed to OnConnect.
AcceptRest ==
    /\ AcceptSteps(
         sessions' = [sessions EXCEPT ![sess[acceptor.s].conv] = acceptor.s] /\ UNCHANGED sess,
         sess' = [sess EXCEPT ![acceptor.s].connected = TRUE] /\ UNCHANGED sessions)
    /\ UNCHANGED <<acceptCh, reader, ctxDone, closer, pkts>>

\* select takes ctx.Done.
AcceptEnd ==
    /\ acceptor.pc = "select" /\ ctxDone
    /\ acceptor' = [acceptor EXCEPT !.pc = "exit"]
    /\ UNCHANGED <<sessions, acceptCh, reader, sess, ctxDone, closer, pkts>>

-----------------------------------------------------------------------------
(* A session                                                               *)

\* kcpLoop takes a datagram.
LoopInput(s) ==
    /\ sess[s].loop = "run" /\ sess[s].input > 0
    /\ sess' = [sess EXCEPT ![s].input = @ - 1]
    /\ UNCHANGED <<sessions, acceptCh, reader, acceptor, ctxDone, closer, pkts>>

\* A flush of kcpLoop finds a segment sent dead_link times: only a session whose
\* handler was given it can have sent anything.
LinkDead(s) ==
    /\ sess[s].loop = "run" /\ sess[s].connected /\ ~sess[s].dead
    /\ sess' = [sess EXCEPT ![s].dead = TRUE]
    /\ UNCHANGED <<sessions, acceptCh, reader, acceptor, ctxDone, closer, pkts>>

\* closed.Swap(true) returned false.
First(s) == ~sess[s].closed

\* checkDeadLink up to closeSession: the first to see the dead link calls OnClose.
Closing(s) == [sess[s] EXCEPT !.closed = TRUE, !.cancelled = TRUE, !.onClose = @ + 1]

\* kcpLoop's checkDeadLink; the loop returns whether it was the first or not.
LoopCheck(s) ==
    /\ sess[s].loop = "run" /\ sess[s].dead
    /\ sess' = [sess EXCEPT ![s] = IF First(s)
                                   THEN [Closing(s) EXCEPT !.loop = "closing"]
                                   ELSE [@ EXCEPT !.loop = "done"]]
    /\ UNCHANGED <<sessions, acceptCh, reader, acceptor, ctxDone, closer, pkts>>

\* checkDeadLink in Session.Send, called by the handler's goroutine.
SendCheck(s) ==
    /\ sess[s].connected /\ sess[s].dead /\ sess[s].user = "idle" /\ First(s)
    /\ sess' = [sess EXCEPT ![s] = [Closing(s) EXCEPT !.user = "closing"]]
    /\ UNCHANGED <<sessions, acceptCh, reader, acceptor, ctxDone, closer, pkts>>

\* closeSession: whatever session has the id is taken off the list.
CloseSession(s) ==
    /\ \/ sess[s].loop = "closing" /\ sess' = [sess EXCEPT ![s].loop = "done"]
       \/ sess[s].user = "closing" /\ sess' = [sess EXCEPT ![s].user = "idle"]
    /\ sessions' = [sessions EXCEPT ![sess[s].conv] = 0]
    /\ UNCHANGED <<acceptCh, reader, acceptor, ctxDone, closer, pkts>>


\* The session's context is done with its own or the server's cancel.
Cancelled(s) == sess[s].cancelled \/ ctxDone

\* kcpLoop takes ctx.Done, flushes and returns.
LoopEnd(s) ==
    /\ sess[s].loop = "run" /\ Cancelled(s)
    /\ sess' = [sess EXCEPT ![s].loop = "done"]
    /\ UNCHANGED <<sessions, acceptCh, reader, acceptor, ctxDone, closer, pkts>>

-----------------------------------------------------------------------------
(* Server.Close                                                            *)

Close ==
    /\ closer = "none"
    /\ ctxDone' = TRUE /\ closer' = "wait"
    /\ UNCHANGED <<sessions, acceptCh, reader, acceptor, sess, pkts>>

\* wg.Wait: every kcpLoop started so far has returned.
CloseReturn ==
    /\ closer = "wait" /\ \A s \in Made : sess[s].loop = "done"
    /\ closer' = "returned"
    /\ UNCHANGED <<sessions, acceptCh, reader, acceptor, sess, ctxDone, pkts>>

SessNext(s) == \/ LoopInput(s) \/ LinkDead(s) \/ LoopCheck(s) \/ SendCheck(s)
               \/ CloseSession(s) \/ LoopEnd(s)

Next == \/ \E cid \in Cids : OnRead(cid)
        \/ PassOn \/ Accept \/ AcceptRest \/ AcceptEnd
        \/ \E s \in Made : SessNext(s)
        \/ Close \/ CloseReturn

Spec == Init /\ [][Next]_vars

\* Goroutines that can go on do: the accept loop, every kcpLoop, every caller of
\* Send inside checkDeadLink, and Close.
FairSpec ==
    /\ Spec
    /\ WF_vars(AcceptRest) /\ WF_vars(AcceptEnd) /\ WF_vars(CloseReturn)
    /\ \A s \in 1..MaxSess :
         /\ WF_vars(s \in Made /\ CloseSession(s))
         /\ WF_vars(s \in Made /\ (LoopEnd(s) \/ LoopCheck(s)))

-----------------------------------------------------------------------------
(* Properties                                                              *)

TypeOK ==
    /\ sessions \in [Conv -> 0..Len(sess)]
    /\ acceptCh \in Seq(Cids) /\ Len(acceptCh) <= AcceptCap
    /\ reader \in {<<>>} \cup {<<[cid |-> c, to |-> s]>> : c \in Cids, s \in 0..Len(sess)}
    /\ acceptor \in [pc : {"select", "store", "connect", "exit"}, s : 0..Len(sess)]
    /\ sess \in Seq([conv : Conv, onto : 0..Len(sess), input : 0..InputCap, connected : BOOLEAN,
                     dead : BOOLEAN, closed : BOOLEAN, cancelled : BOOLEAN,
                     onClose : Nat, loop : {"run", "closing", "done"},
                     user : {"idle", "closing"}])
    /\ ctxDone \in BOOLEAN /\ closer \in {"none", "wait", "returned"}
    /\ pkts \in 0..MaxPkts

\* A session that was closed for a dead link, by its own loop or by a caller of Send, has
\* told its handler once and stays off the list: no datagram is put into the channel of a
\* session that nobody reads, because acceptLoop lists the session before the handler can
\* send anything on it (kcp/server.go 122-133, session.go 162-173).
\* And a session that its handler was given and whose link is not dead gets the datagrams of
\* its id, though closeSession deletes whatever has the id (kcp/server.go 136-140).  Only
\* one thing can take it off the list: a second handshake for the id, done when the id was
\* listed because its datagram had been read before (kcp/server.go 91-130).
ListedWhileLive ==
    \A s \in Made :
        /\ sess[s].onClose <= 1
        /\ (sess[s].closed /\ sess[s].loop # "closing" /\ sess[s].user # "closing")
              => \A c \in Conv : sessions[c] # s
        /\ (sess[s].connected /\ ~sess[s].closed)
              => \/ sessions[sess[s].conv] = s
                 \/ \E t \in Made : sess[t].conv = sess[s].conv /\ sess[t].onto # 0

=============================================================================
