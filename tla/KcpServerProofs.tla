--------------------------- MODULE KcpServerProofs ---------------------------
(* Why the session list of a KCP server and the life of its sessions agree, for *)
(* any number of sessions, datagrams and conversation ids.                      *)
EXTENDS KcpServer, SequenceTheorems, TLAPS

Session == [conv : Conv, onto : Nat, input : Nat, connected : BOOLEAN, dead : BOOLEAN,
            closed : BOOLEAN, cancelled : BOOLEAN, onClose : Nat,
            loop : {"run", "closing", "done"}, user : {"idle", "closing"}]

Typed ==
    /\ sessions \in [Conv -> Nat] /\ sess \in Seq(Session)
    /\ acceptCh \in Seq(Cids)
    /\ reader # <<>> => Head(reader).cid \in Cids /\ Head(reader).to \in {0} \cup Made
    /\ acceptor \in [pc : {"select", "store", "connect", "exit"}, s : Nat]

\* A session that has been closed and taken off the list.
Gone(s) == sess[s].closed /\ sess[s].loop # "closing" /\ sess[s].user # "closing"

\* Two handshakes for one id overlapped.
Doubled(c) == \E t \in Made : sess[t].conv = c /\ sess[t].onto # 0

\* Only a session with a handler can be closed; one of its goroutines does it, and until
\* that one has deleted the id, the session is listed.
SessOK(s) ==
    /\ sess[s].onClose = IF sess[s].closed THEN 1 ELSE 0
    /\ sess[s].loop = "closing" \/ sess[s].user = "closing" => sess[s].closed
    /\ ~(sess[s].loop = "closing" /\ sess[s].user = "closing")
    /\ (sess[s].closed => sess[s].dead) /\ (sess[s].dead => sess[s].connected)
    /\ Gone(s) => \A c \in Conv : sessions[c] # s
    /\ \/ acceptor.pc = "store" /\ acceptor.s = s
       \/ Gone(s) \/ sessions[sess[s].conv] = s \/ Doubled(sess[s].conv)

\* The list names sessions by their own ids, and the session that acceptLoop works on has
\* no handler yet; a live session with its id is a sign of overlapping handshakes.
ListOK ==
    /\ \A c \in Conv : sessions[c] # 0 => sessions[c] \in Made /\ sess[sessions[c]].conv = c
    /\ acceptor.pc \in {"store", "connect"} => acceptor.s \in Made /\ ~sess[acceptor.s].connected
    /\ acceptor.pc = "store" =>
         \A s \in Made \ {acceptor.s} :
             sess[s].conv = sess[acceptor.s].conv => Gone(s) \/ Doubled(sess[s].conv)

ServerInv == Typed /\ ListOK /\ \A s \in Made : SessOK(s)

LEMMA ServerInit == Init => ServerInv
  BY EmptySeq, KcpServerAssumption DEF Init, ServerInv, Typed, ListOK, Made

\* A step of one session that neither opens nor ends it: what the list says stays true.
LEMMA SessStep ==
    ASSUME ServerInv, NEW s \in Made, NEW r \in Session, sess' = [sess EXCEPT ![s] = r],
           UNCHANGED <<sessions, acceptor>>, Typed',
           r.conv = sess[s].conv, r.onto = sess[s].onto, r.connected = sess[s].connected,
           r.onClose = IF r.closed THEN 1 ELSE 0,
           r.loop = "closing" \/ r.user = "closing" => r.closed,
           ~(r.loop = "closing" /\ r.user = "closing"),
           r.closed => r.dead, r.dead => r.connected,
           (r.closed /\ r.loop # "closing" /\ r.user # "closing") <=> Gone(s)
    PROVE  ServerInv'
  <1>1. Made' = Made /\ sess'[s] = r /\ \A t \in Made \ {s} : sess'[t] = sess[t]
    BY DEF Made
  <1>2. \A t \in Made : Gone(t)' <=> Gone(t)
    BY <1>1 DEF Gone
  <1>3. \A t \in Made : sess'[t].conv = sess[t].conv /\ sess'[t].onto = sess[t].onto
                        /\ sess'[t].connected = sess[t].connected
    BY <1>1
  <1>4. \A c : Doubled(c)' <=> Doubled(c)
    BY <1>1, <1>3 DEF Doubled
  <1>5. ListOK'
    BY <1>1, <1>2, <1>3, <1>4 DEF ServerInv, ListOK
  <1>6. ASSUME NEW t \in Made PROVE SessOK(t)'
    BY <1>1, <1>2, <1>3, <1>4 DEF ServerInv, SessOK
  <1> QED BY <1>1, <1>5, <1>6 DEF ServerInv

\* The steps that leave list, sessions and accept loop alone.
LEMMA QuietStep ==
    ASSUME ServerInv, UNCHANGED <<sessions, sess, acceptor>>, Typed'
    PROVE  ServerInv'
  BY DEF ServerInv, ListOK, SessOK, Gone, Doubled, Made

LEMMA SessionTyped ==
    ASSUME Typed, NEW s \in Made
    PROVE  s \in 1..Len(sess) /\ sess[s] \in Session
  BY LenProperties DEF Typed, Made

LEMMA ChangedTyped ==
    ASSUME Typed, NEW s \in Made, NEW r \in Session, sess' = [sess EXCEPT ![s] = r]
    PROVE  sess' \in Seq(Session)
  BY SessionTyped, ExceptSeq DEF Typed

LEMMA PassOnStep == ASSUME ServerInv, PassOn PROVE ServerInv'
  <1> DEFINE s == Head(reader).to
  <1>0. reader # <<>> /\ reader' = <<>> /\ s \in {0} \cup Made /\ UNCHANGED <<sessions, acceptor>>
    BY DEF PassOn, ServerInv, Typed
  <1>1. CASE s # 0 /\ HasRoom(sess[s].input, InputCap)
    <2>1. PICK u \in Made : u = s
      BY <1>0, <1>1
    <2> DEFINE r == [sess[u] EXCEPT !.input = @ + 1]
    <2>2. sess[u] \in Session /\ SessOK(u)
      BY SessionTyped DEF ServerInv
    <2>3. r \in Session /\ sess' = [sess EXCEPT ![u] = r] /\ acceptCh' = acceptCh
      BY <1>1, <2>1, <2>2 DEF PassOn, Session
    <2>4. Typed'
      BY <1>0, <2>3, ChangedTyped DEF ServerInv, Typed
    <2> QED BY <1>0, <2>2, <2>3, <2>4, SessStep DEF SessOK, Gone, Session
  <1>2. CASE s # 0 /\ ~HasRoom(sess[s].input, InputCap)
    <2>1. UNCHANGED <<sess, acceptCh>>
      BY <1>2 DEF PassOn
    <2> QED BY <1>0, <2>1, QuietStep DEF ServerInv, Typed
  <1>3. CASE s = 0
    <2>1. sess' = sess /\ (acceptCh' = acceptCh \/ acceptCh' = Append(acceptCh, Head(reader).cid))
      BY <1>3 DEF PassOn
    <2>2. PICK x \in Cids : x = Head(reader).cid
      BY <1>0 DEF ServerInv, Typed
    <2>3. acceptCh \in Seq(Cids)
      BY DEF ServerInv, Typed
    <2>4. acceptCh' \in Seq(Cids)
      BY <2>1, <2>2, <2>3, AppendProperties
    <2> QED BY <1>0, <2>1, <2>4, QuietStep DEF ServerInv, Typed
  <1> QED BY <1>0, <1>1, <1>2, <1>3

LEMMA AcceptStep == ASSUME ServerInv, Accept PROVE ServerInv'
  <1>1. /\ acceptor.pc = "select" /\ acceptCh # <<>> /\ acceptCh' = Tail(acceptCh)
        /\ UNCHANGED <<sessions, reader>>
    BY DEF Accept
  <1>2. Head(acceptCh) \in Cids /\ acceptCh' \in Seq(Cids)
    BY <1>1, HeadTailProperties DEF ServerInv, Typed
  <1>3. CASE UNCHANGED <<sess, acceptor>>
    BY <1>1, <1>2, <1>3, QuietStep DEF ServerInv, Typed, Made
  <1>4. ASSUME NEW c \in OnHandshake(Head(acceptCh)), c # 0, sess' = Append(sess, NewSession(c)),
               acceptor' = [pc |-> "store", s |-> Len(sess')]
        PROVE  ServerInv'
    <2>0. PICK n \in Nat : n = Len(sess) + 1
      BY LenProperties DEF ServerInv, Typed
    <2>1. c \in Conv
      BY <1>2, <1>4, KcpServerAssumption DEF OnHandshake
    <2>2. Listed(c) = sessions[c] /\ NewSession(c) \in Session
      BY <2>1 DEF Listed, NewSession, Session, ServerInv, Typed
    <2>3. /\ sess' \in Seq(Session) /\ Len(sess') = n
          /\ Made' = Made \cup {n} /\ n \notin Made /\ n # 0 /\ 0 \notin Made
          /\ sess'[n] = NewSession(c) /\ \A s \in Made : sess'[s] = sess[s]
      <3>1. sess \in Seq(Session) /\ Len(sess) \in Nat /\ DOMAIN sess = 1..Len(sess)
        BY LenProperties DEF ServerInv, Typed
      <3>2. /\ sess' \in Seq(Session) /\ Len(sess') = n /\ sess'[n] = NewSession(c)
            /\ \A s \in 1..Len(sess) : sess'[s] = sess[s]
        BY <1>4, <2>0, <2>2, <3>1, AppendProperties
      <3>3. DOMAIN sess' = 1..n
        BY <3>2, LenProperties
      <3> QED BY <2>0, <3>1, <3>2, <3>3 DEF Made
    <2>4. Typed'
      BY <1>1, <1>2, <1>4, <2>0, <2>3 DEF ServerInv, Typed
    <2>5. acceptor'.pc = "store" /\ acceptor'.s = n
      BY <1>4, <2>0, <2>3
    <2>6. \A s \in Made : Gone(s)' <=> Gone(s)
      BY <2>3 DEF Gone
    <2>7. \A d : Doubled(d) => Doubled(d)'
      BY <2>3 DEF Doubled
    <2>8. sessions[c] # 0 => Doubled(c)'
      BY <2>2, <2>3, <2>5 DEF Doubled, NewSession
    <2>9. \A s \in Made : SessOK(s) /\ sess[s].conv \in Conv
      BY SessionTyped DEF ServerInv, Session
    <2>10. ListOK'
      <3>1. ~sess'[n].connected /\ sess'[n].conv = c
        BY <2>3 DEF NewSession
      <3>2. ASSUME NEW s \in Made, sess[s].conv = c PROVE Gone(s) \/ Doubled(c)'
        <4>1. s # 0
          BY <2>3
        <4> QED BY <1>1, <2>7, <2>8, <2>9, <3>2, <4>1 DEF SessOK
      <3>3. \A d \in Conv : sessions[d] # 0 => sessions[d] \in Made' /\ sess'[sessions[d]].conv = d
        BY <2>3 DEF ServerInv, ListOK
      <3>4. \A s \in Made' \ {n} : s \in Made
        BY <2>3
      <3>5. ASSUME NEW s \in Made' \ {n}, sess'[s].conv = c PROVE Gone(s)' \/ Doubled(c)'
        BY <2>3, <2>6, <3>2, <3>4, <3>5
      <3> QED BY <1>1, <2>3, <2>5, <3>1, <3>3, <3>5 DEF ListOK
    <2>11. ASSUME NEW s \in Made PROVE SessOK(s)'
      BY <1>1, <2>3, <2>5, <2>6, <2>7, <2>9 DEF SessOK
    <2>12. SessOK(n)'
      <3>1. \A d \in Conv : sessions[d] # n
        BY <2>3, <2>5 DEF ServerInv, ListOK
      <3> QED BY <1>1, <2>3, <2>5, <3>1 DEF SessOK, NewSession, Gone
    <2> QED BY <2>3, <2>4, <2>10, <2>11, <2>12 DEF ServerInv
  <1> QED BY <1>3, <1>4 DEF Accept

LEMMA AcceptRestStep == ASSUME ServerInv, AcceptRest PROVE ServerInv'
  <1>1. UNCHANGED <<acceptCh, reader>>
    BY DEF AcceptRest
  <1>2. CASE /\ acceptor.pc = "store" /\ acceptor' = [acceptor EXCEPT !.pc = "connect"]
             /\ sessions' = [sessions EXCEPT ![sess[acceptor.s].conv] = acceptor.s] /\ sess' = sess
    <2>1. PICK n \in Made : n = acceptor.s /\ ~sess[n].connected
      BY <1>2 DEF ServerInv, ListOK
    <2>2. PICK k \in Conv : k = sess[n].conv
      BY SessionTyped DEF ServerInv, Session
    <2>3. /\ sessions' \in [Conv -> Nat] /\ sessions'[k] = n
          /\ \A d \in Conv \ {k} : sessions'[d] = sessions[d]
      BY <1>2, <2>1, <2>2 DEF ServerInv, Typed
    <2>4. acceptor'.pc = "connect" /\ acceptor'.s = n /\ acceptor' \in [pc : {"select", "store", "connect", "exit"}, s : Nat]
      BY <1>2, <2>1 DEF ServerInv, Typed
    <2>5. Made' = Made /\ (\A s : Gone(s)' <=> Gone(s)) /\ (\A d : Doubled(d)' <=> Doubled(d))
      BY <1>2 DEF Made, Gone, Doubled
    <2>6. Typed'
      BY <1>1, <1>2, <2>3, <2>4, <2>5 DEF ServerInv, Typed
    <2>7. ListOK'
      BY <1>2, <2>1, <2>2, <2>3, <2>4, <2>5 DEF ServerInv, ListOK
    <2>8. SessOK(n) /\ ~Gone(n)
      BY <2>1 DEF ServerInv, SessOK, Gone
    <2>9. SessOK(n)'
      BY <1>2, <2>2, <2>3, <2>4, <2>5, <2>8 DEF SessOK
    <2>10. ASSUME NEW s \in Made, s # n PROVE SessOK(s)'
      <3>1. SessOK(s) /\ sess[s].conv \in Conv
        BY SessionTyped DEF ServerInv, Session
      <3>2. sess[s].conv = k => Gone(s) \/ Doubled(k)
        BY <1>2, <2>1, <2>2, <2>10 DEF ServerInv, ListOK
      <3> QED BY <1>2, <2>1, <2>3, <2>4, <2>5, <2>10, <3>1, <3>2 DEF SessOK
    <2> QED BY <2>5, <2>6, <2>7, <2>9, <2>10 DEF ServerInv
  <1>3. CASE /\ acceptor.pc = "connect" /\ acceptor' = [acceptor EXCEPT !.pc = "select"]
             /\ sess' = [sess EXCEPT ![acceptor.s].connected = TRUE] /\ sessions' = sessions
    <2>1. PICK n \in Made : n = acceptor.s /\ ~sess[n].connected
      BY <1>3 DEF ServerInv, ListOK
    <2> DEFINE r == [sess[n] EXCEPT !.connected = TRUE]
    <2>2. sess[n] \in Session /\ SessOK(n) /\ ~Gone(n)
      BY <2>1, SessionTyped DEF ServerInv, SessOK, Gone
    <2>3. r \in Session /\ sess' = [sess EXCEPT ![n] = r]
      BY <1>3, <2>1, <2>2 DEF Session
    <2>4. Made' = Made /\ sess'[n] = r /\ \A s \in Made \ {n} : sess'[s] = sess[s]
      BY <2>3 DEF Made
    <2>5. acceptor'.pc = "select" /\ acceptor' \in [pc : {"select", "store", "connect", "exit"}, s : Nat]
      BY <1>3 DEF ServerInv, Typed
    <2>6. Typed'
      BY <1>1, <1>3, <2>3, <2>4, <2>5, ChangedTyped DEF ServerInv, Typed
    <2>7. \A s \in Made : (Gone(s)' <=> Gone(s)) /\ sess'[s].conv = sess[s].conv /\ sess'[s].onto = sess[s].onto
      BY <2>2, <2>4 DEF Gone, Session
    <2>8. \A d : Doubled(d)' <=> Doubled(d)
      BY <2>4, <2>7 DEF Doubled
    <2>9. ListOK'
      BY <1>3, <2>4, <2>5, <2>7 DEF ServerInv, ListOK
    <2>10. SessOK(n)'
      BY <1>3, <2>2, <2>4, <2>5, <2>7, <2>8 DEF SessOK, Session
    <2>11. ASSUME NEW s \in Made, s # n PROVE SessOK(s)'
      BY <1>3, <2>4, <2>5, <2>7, <2>8, <2>11 DEF ServerInv, SessOK
    <2> QED BY <2>4, <2>6, <2>9, <2>10, <2>11 DEF ServerInv
  <1> QED BY <1>2, <1>3 DEF AcceptRest, AcceptSteps

\* closeSession deletes the id of s, whichever session has it: another one only if two
\* handshakes for the id overlapped.
LEMMA CloseStep == ASSUME ServerInv, NEW s \in Made, CloseSession(s) PROVE ServerInv'
  <1> DEFINE r == IF sess[s].loop = "closing" THEN [sess[s] EXCEPT !.loop = "done"]
                                              ELSE [sess[s] EXCEPT !.user = "idle"]
  <1>1. /\ sess[s] \in Session /\ SessOK(s) /\ sess[s].closed /\ ~Gone(s)
        /\ UNCHANGED <<acceptor, acceptCh, reader>>
    BY SessionTyped DEF ServerInv, CloseSession, SessOK, Gone
  <1>2. PICK k \in Conv : k = sess[s].conv
    BY <1>1 DEF Session
  <1>3. r \in Session /\ sess' = [sess EXCEPT ![s] = r]
    BY <1>1 DEF CloseSession, Session, SessOK
  <1>4. Made' = Made /\ sess'[s] = r /\ \A t \in Made \ {s} : sess'[t] = sess[t]
    BY <1>3 DEF Made
  <1>5. /\ sessions' \in [Conv -> Nat] /\ sessions'[k] = 0
        /\ \A d \in Conv \ {k} : sessions'[d] = sessions[d]
    BY <1>2 DEF CloseSession, ServerInv, Typed
  <1>6. Typed'
    BY <1>1, <1>3, <1>4, <1>5, ChangedTyped DEF ServerInv, Typed
  <1>7. /\ Gone(s)' /\ \A t \in Made \ {s} : Gone(t)' <=> Gone(t)
        /\ \A t \in Made : /\ sess'[t].conv = sess[t].conv /\ sess'[t].onto = sess[t].onto
                          /\ sess'[t].connected = sess[t].connected
    BY <1>1, <1>4 DEF Gone, SessOK, Session
  <1>8. \A d : Doubled(d)' <=> Doubled(d)
    BY <1>4, <1>7 DEF Doubled
  <1>9. ~(acceptor.pc = "store" /\ acceptor.s = s)
    BY <1>1 DEF ServerInv, ListOK, SessOK
  <1>10. ListOK'
    BY <1>1, <1>4, <1>5, <1>7, <1>8 DEF ServerInv, ListOK
  <1>11. SessOK(s)'
    <2>1. \A d \in Conv : sessions'[d] # s
      <3>1. s # 0
        BY SessionTyped DEF ServerInv
      <3> QED BY <1>2, <1>5, <3>1 DEF ServerInv, ListOK
    <2> QED BY <1>1, <1>4, <1>7, <2>1 DEF SessOK, Session
  <1>12. ASSUME NEW t \in Made, t # s PROVE SessOK(t)'
    <2>1. SessOK(t) /\ sess[t].conv \in Conv /\ t # 0
      BY SessionTyped DEF ServerInv, Session
    <2>2. sess[t].conv = k => Gone(t) \/ Doubled(k) \/ (acceptor.pc = "store" /\ acceptor.s = t)
      BY <1>1, <1>2, <1>9, <1>12, <2>1 DEF SessOK
    <2>3. Gone(t)' => \A d \in Conv : sessions'[d] # t
      BY <1>5, <1>7, <1>12, <2>1 DEF SessOK
    <2> QED BY <1>1, <1>4, <1>5, <1>7, <1>8, <1>12, <2>1, <2>2, <2>3 DEF SessOK
  <1> QED BY <1>4, <1>6, <1>10, <1>11, <1>12 DEF ServerInv

\* What closing leaves alone in the record of a session.
Kept == {"conv", "onto", "connected", "dead", "loop", "user"}

LEMMA ClosingSession ==
    ASSUME Typed, NEW s \in Made
    PROVE  \E k \in Session :
             /\ k = Closing(s) /\ k.closed /\ k.onClose = sess[s].onClose + 1
             /\ k.conv = sess[s].conv /\ k.onto = sess[s].onto /\ k.connected = sess[s].connected
             /\ k.dead = sess[s].dead /\ k.loop = sess[s].loop /\ k.user = sess[s].user
  <1>1. PICK x \in Session : x = sess[s]
    BY SessionTyped
  <1>2. PICK o \in Nat : o = x.onClose + 1
    BY DEF Session
  <1> DEFINE a == [x EXCEPT !.closed = TRUE]
             b == [a EXCEPT !.cancelled = TRUE]
             k == [b EXCEPT !.onClose = o]
  <1>3. a \in Session /\ a.closed /\ \A f \in Kept \cup {"onClose"} : a[f] = x[f]
    BY DEF Session, Kept
  <1> HIDE DEF a
  <1>4. b \in Session /\ b.closed /\ \A f \in Kept \cup {"onClose"} : b[f] = x[f]
    BY <1>3 DEF Session, Kept
  <1> HIDE DEF b
  <1>5. k \in Session /\ k.closed /\ k.onClose = o /\ \A f \in Kept : k[f] = x[f]
    BY <1>4 DEF Session, Kept
  <1>6. k = Closing(s)
    <2>1. Closing(s) = [[[sess[s] EXCEPT !.closed = TRUE] EXCEPT !.cancelled = TRUE]
                           EXCEPT !.onClose = sess[s].onClose + 1]
      BY DEF Closing
    <2> QED BY <1>1, <1>2, <2>1 DEF a, b
  <1> HIDE DEF k
  <1> QED BY <1>1, <1>2, <1>5, <1>6 DEF Kept

LEMMA OtherSessionStep ==
    ASSUME ServerInv, NEW s \in Made,
           LoopInput(s) \/ LinkDead(s) \/ LoopCheck(s) \/ SendCheck(s) \/ LoopEnd(s)
    PROVE  ServerInv'
  <1>1. sess[s] \in Session /\ SessOK(s)
    BY SessionTyped DEF ServerInv
  <1>2. UNCHANGED <<sessions, acceptor, acceptCh, reader>>
    BY DEF LoopInput, LinkDead, LoopCheck, SendCheck, LoopEnd
  <1>3. ASSUME NEW r \in Session, sess' = [sess EXCEPT ![s] = r] PROVE Typed'
    <2>1. sess' \in Seq(Session) /\ Made' = Made
      BY <1>3, ChangedTyped DEF ServerInv, Made
    <2> QED BY <1>2, <2>1 DEF ServerInv, Typed
  <1>4. CASE LoopInput(s)
    <2> DEFINE r == [sess[s] EXCEPT !.input = @ - 1]
    <2>1. r \in Session /\ sess' = [sess EXCEPT ![s] = r]
      BY <1>1, <1>4 DEF LoopInput, Session
    <2> QED BY <1>1, <1>2, <1>3, <2>1, SessStep DEF SessOK, Gone, Session
  <1>5. CASE LinkDead(s)
    <2> DEFINE r == [sess[s] EXCEPT !.dead = TRUE]
    <2>1. r \in Session /\ sess' = [sess EXCEPT ![s] = r] /\ sess[s].connected
      BY <1>1, <1>5 DEF LinkDead, Session
    <2> QED BY <1>1, <1>2, <1>3, <2>1, SessStep DEF SessOK, Gone, Session
  <1>6. CASE LoopCheck(s)
    <2>1. sess[s].loop = "run" /\ sess[s].dead
      BY <1>6 DEF LoopCheck
    <2>2. CASE First(s)
      <3>1. PICK k \in Session :
            /\ k = Closing(s) /\ k.closed /\ k.onClose = sess[s].onClose + 1
            /\ k.conv = sess[s].conv /\ k.onto = sess[s].onto /\ k.connected = sess[s].connected
            /\ k.dead = sess[s].dead /\ k.loop = sess[s].loop /\ k.user = sess[s].user
        BY ClosingSession DEF ServerInv
      <3> DEFINE r == [k EXCEPT !.loop = "closing"]
      <3>2. r \in Session /\ sess' = [sess EXCEPT ![s] = r]
        BY <1>6, <2>2, <3>1 DEF LoopCheck, Session
      <3>3. /\ r.conv = sess[s].conv /\ r.onto = sess[s].onto /\ r.connected = sess[s].connected
            /\ r.dead = sess[s].dead /\ r.closed /\ r.onClose = sess[s].onClose + 1
            /\ r.loop = "closing" /\ r.user = sess[s].user
        BY <3>1 DEF Session
      <3> HIDE DEF r
      <3>4. sess[s].onClose = 0 /\ sess[s].connected /\ sess[s].user # "closing" /\ ~Gone(s)
        BY <1>1, <2>1, <2>2 DEF SessOK, First, Gone
      <3>5. Typed'
        BY <1>3, <3>2
      <3>6. r.onClose = (IF r.closed THEN 1 ELSE 0) /\ r.dead /\ r.connected
        BY <2>1, <3>3, <3>4
      <3>7. (r.closed /\ r.loop # "closing" /\ r.user # "closing") <=> Gone(s)
        BY <3>3, <3>4 DEF Gone
      <3> QED BY <1>2, <3>2, <3>3, <3>4, <3>5, <3>6, <3>7, SessStep
    <2>3. CASE ~First(s)
      <3> DEFINE r == [sess[s] EXCEPT !.loop = "done"]
      <3>1. r \in Session /\ sess' = [sess EXCEPT ![s] = r]
        BY <1>1, <1>6, <2>3 DEF LoopCheck, Session
      <3> QED BY <1>1, <1>2, <1>3, <2>1, <2>3, <3>1, SessStep DEF SessOK, Gone, Session
    <2> QED BY <2>2, <2>3
  <1>7. CASE SendCheck(s)
    <2>1. sess[s].dead /\ First(s)
      BY <1>7 DEF SendCheck
    <2>2. PICK k \in Session :
          /\ k = Closing(s) /\ k.closed /\ k.onClose = sess[s].onClose + 1
          /\ k.conv = sess[s].conv /\ k.onto = sess[s].onto /\ k.connected = sess[s].connected
          /\ k.dead = sess[s].dead /\ k.loop = sess[s].loop /\ k.user = sess[s].user
      BY ClosingSession DEF ServerInv
    <2> DEFINE r == [k EXCEPT !.user = "closing"]
    <2>3. r \in Session /\ sess' = [sess EXCEPT ![s] = r]
      BY <1>7, <2>2 DEF SendCheck, Session
    <2>4. /\ r.conv = sess[s].conv /\ r.onto = sess[s].onto /\ r.connected = sess[s].connected
          /\ r.dead = sess[s].dead /\ r.closed /\ r.onClose = sess[s].onClose + 1
          /\ r.loop = sess[s].loop /\ r.user = "closing"
      BY <2>2 DEF Session
    <2> HIDE DEF r
    <2>5. sess[s].onClose = 0 /\ sess[s].connected /\ sess[s].loop # "closing" /\ ~Gone(s)
      BY <1>1, <2>1 DEF SessOK, First, Gone
    <2>6. Typed'
      BY <1>3, <2>3
    <2>7. r.onClose = (IF r.closed THEN 1 ELSE 0) /\ r.dead /\ r.connected
      BY <2>1, <2>4, <2>5
    <2>8. (r.closed /\ r.loop # "closing" /\ r.user # "closing") <=> Gone(s)
      BY <2>4, <2>5 DEF Gone
    <2> QED BY <1>2, <2>3, <2>4, <2>5, <2>6, <2>7, <2>8, SessStep
  <1>8. CASE LoopEnd(s)
    <2> DEFINE r == [sess[s] EXCEPT !.loop = "done"]
    <2>1. r \in Session /\ sess' = [sess EXCEPT ![s] = r] /\ sess[s].loop = "run"
      BY <1>1, <1>8 DEF LoopEnd, Session
    <2> QED BY <1>1, <1>2, <1>3, <2>1, SessStep DEF SessOK, Gone, Session
  <1> QED BY <1>4, <1>5, <1>6, <1>7, <1>8

LEMMA ServerStep == ServerInv /\ [Next]_vars => ServerInv'
  <1> SUFFICES ASSUME ServerInv, [Next]_vars PROVE ServerInv'
    OBVIOUS
  <1>1. CASE UNCHANGED vars
    BY <1>1, QuietStep DEF vars, ServerInv, Typed, Made
  <1>2. ASSUME NEW cid \in Cids, OnRead(cid) PROVE ServerInv'
    <2>1. Listed(cid) \in {0} \cup Made
      BY DEF Listed, ServerInv, ListOK
    <2>2. Head(reader').cid = cid /\ Head(reader').to = Listed(cid)
      BY <1>2 DEF OnRead
    <2> QED BY <1>2, <2>1, <2>2, QuietStep DEF OnRead, ServerInv, Typed, Made
  <1>3. CASE PassOn \/ Accept \/ AcceptRest
    BY <1>3, PassOnStep, AcceptStep, AcceptRestStep
  <1>4. CASE AcceptEnd
    <2>1. acceptor' \in [pc : {"select", "store", "connect", "exit"}, s : Nat] /\ acceptor'.pc = "exit"
      BY <1>4 DEF AcceptEnd, ServerInv, Typed
    <2>2. UNCHANGED <<sessions, sess, acceptCh, reader>> /\ acceptor.pc = "select"
      BY <1>4 DEF AcceptEnd
    <2> QED BY <2>1, <2>2 DEF ServerInv, Typed, ListOK, SessOK, Gone, Doubled, Made
  <1>5. ASSUME NEW s \in Made, SessNext(s) PROVE ServerInv'
    BY <1>5, OtherSessionStep, CloseStep DEF SessNext
  <1>6. CASE Close \/ CloseReturn
    BY <1>6, QuietStep DEF Close, CloseReturn, ServerInv, Typed, Made
  <1> QED BY <1>1, <1>2, <1>3, <1>4, <1>5, <1>6 DEF Next

\* A closed session is off the list and its handler was told once; a live one that the
\* handler has is listed under its id, unless two handshakes for the id overlapped.
THEOREM SessionsListed == Spec => []ListedWhileLive
  <1>1. ServerInv => ListedWhileLive
    <2> SUFFICES ASSUME ServerInv, NEW s \in Made
                 PROVE  /\ sess[s].onClose <= 1
                        /\ Gone(s) => \A c \in Conv : sessions[c] # s
                        /\ (sess[s].connected /\ ~sess[s].closed)
                              => sessions[sess[s].conv] = s \/ Doubled(sess[s].conv)
      BY DEF ListedWhileLive, Gone, Doubled
    <2>1. SessOK(s) /\ (acceptor.pc = "store" /\ acceptor.s = s => ~sess[s].connected)
      BY DEF ServerInv, ListOK
    <2> QED BY <2>1 DEF SessOK, Gone
  <1> QED BY <1>1, ServerInit, ServerStep, PTL DEF Spec
=============================================================================
