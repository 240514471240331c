-------------------------------- MODULE Kcp --------------------------------
(***************************************************************************)
(* The KCP protocol (kcp/ikcp.go) as a session runs it (kcp/session.go):   *)
(* one end sends messages, cut into fragments, over a network that loses,  *)
(* delays, reorders and duplicates; the other end acknowledges and hands   *)
(* the messages over.  Sequence numbers wrap.  A datagram holds one        *)
(* segment.  Time stamps are abstracted: a retransmission timer, a window  *)
(* probe and the comparison of an echoed time stamp may go either way.     *)
(***************************************************************************)
EXTENDS Integers, Sequences, SequencesExt, FiniteSets, FiniteSetsExt

CONSTANTS
  MsgLens,      \* the messages sent, each as its number of fragments
  SndWnd, RcvWnd,
  FastResend,   \* NoDelay's resend: 0 disables
  NoCwnd,       \* NoDelay's nc
  DeadLink,     \* transmissions of one segment that mean the link is dead
  AckBatch,     \* mtu / IKCP_OVERHEAD: acks that are flushed at once
  ACKNoDelay,
  maxProcess,   \* messages a session reads per datagram
  HandlerStops, \* the handler's OnRead may return false
  Duplicates,   \* the network delivers a datagram any number of times, or once
  SnSpace,      \* number of sequence numbers, 2^32 in the code
  Start         \* sequence number of the first segment

ASSUME KcpAssumption ==
  /\ {SndWnd, RcvWnd, DeadLink, AckBatch, maxProcess} \subseteq Nat \ {0}
  /\ FastResend \in Nat /\ Start \in 0..(SnSpace - 1)
  /\ SnSpace > 2 * (SndWnd + RcvWnd)

VARIABLES
  a,       \* the sending end; outputCh is the number of messages waiting there
  b,       \* the receiving end
  net,     \* datagrams under way
  nmsg,    \* messages sent
  got      \* messages handed over, as sequences of fragments

vars == <<a, b, net, nmsg, got>>

mss  == 16         \* the unit of incr
Inf  == 1000       \* fastack = 0xFFFFFFFF
THRESH_MIN == 2    \* IKCP_THRESH_MIN

_itimediff(later, earlier) ==
  LET d == (later - earlier) % SnSpace IN IF d >= SnSpace \div 2 THEN d - SnSpace ELSE d

Plus(sn, n) == (sn + n) % SnSpace

Fragments == FoldLeft(LAMBDA n, k : n + k, 0, MsgLens)
FirstOf(m) == FoldLeft(LAMBDA n, k : n + k, 1, SubSeq(MsgLens, 1, m - 1))

\* The fragments of message m: each is named by its place in everything sent.
Fragmented(m) ==
  [k \in 1..MsgLens[m] |-> [id |-> FirstOf(m) + k - 1, frg |-> MsgLens[m] - k]]

Ids   == 1..Fragments
Sns   == 0..(SnSpace - 1)
Frags == [id : Ids, frg : 0..(Fragments - 1)]

TypeOK ==
  /\ a.queue \in Seq(Frags) /\ a.una \in Sns /\ a.nxt \in Sns
  /\ \A k \in 1..Len(a.buf) : a.buf[k].sn \in Sns /\ a.buf[k].xmit \in 0..DeadLink
  /\ a.outputCh \in 0..nmsg /\ a.rmt \in 0..RcvWnd /\ a.cwnd \in 0..(SndWnd + RcvWnd) /\ {a.probing, a.dead, a.closed} \subseteq BOOLEAN
  /\ b.nxt \in Sns /\ Len(b.queue) <= RcvWnd /\ Cardinality(b.buf) <= RcvWnd
  /\ Len(b.acks) < AckBatch /\ b.tell \in BOOLEAN
  /\ nmsg \in 0..Len(MsgLens)

Init ==
  /\ a = [queue |-> <<>>, buf |-> <<>>, una |-> Start, nxt |-> Start, rmt |-> RcvWnd,
          cwnd |-> 0, ssthresh |-> 2, incr |-> 0, probing |-> FALSE,
          dead |-> FALSE, closed |-> FALSE, outputCh |-> 0]
  /\ b = [nxt |-> Start, buf |-> {}, queue |-> <<>>, acks |-> <<>>, tell |-> FALSE]
  /\ net = {} /\ nmsg = 0 /\ got = <<>>

-----------------------------------------------------------------------------
(* flush, at the sending end.                                              *)

Inflight(s) == _itimediff(s.nxt, s.una)

Window(s) ==
  LET w == Min({SndWnd, s.rmt}) IN IF NoCwnd THEN w ELSE Min({s.cwnd, w})

\* How many segments the window lets into snd_buf.
Moving(s) == Max({0, Min({Len(s.queue), Window(s) - Inflight(s)})})

Move(s) ==
  LET n == Moving(s)
      new == [k \in 1..n |-> [sn |-> Plus(s.nxt, k - 1), frag |-> s.queue[k],
                              xmit |-> 0, fastack |-> 0, acked |-> FALSE]]
  IN  [s EXCEPT !.queue = SubSeq(@, n + 1, Len(@)), !.buf = @ \o new, !.nxt = Plus(@, n)]

Resent == IF FastResend = 0 THEN Inf ELSE FastResend


\* The window is closed and its probe is due: IKCP_CMD_WASK goes out.
Probe(s, due) == s.rmt = 0 /\ s.probing /\ due

\* Why a segment is sent: due tells whether its timer has expired.
Why(seg, moved, due) ==
  CASE seg.acked                                              -> "no"
    [] ~seg.acked /\ seg.xmit = 0                             -> "first"
    [] ~seg.acked /\ seg.xmit > 0 /\ seg.fastack \in Resent..(Inf - 1) -> "fast"
    [] ~seg.acked /\ seg.xmit > 0 /\ seg.fastack \notin Resent..(Inf - 1)
         /\ seg.fastack \in 1..(Inf - 1) /\ moved = 0         -> "early"
    [] OTHER                                                  -> IF due THEN "rto" ELSE "no"

Sent(seg, why) ==
  IF why = "no" THEN seg
  ELSE [seg EXCEPT !.xmit = Min({@ + 1, DeadLink}),
                   !.fastack = CASE why \in {"fast", "early"} -> Inf
                                 [] why = "rto" -> 0 [] OTHER -> @]

Opened(c) == IF c.cwnd < 1 THEN [c EXCEPT !.cwnd = 1, !.incr = mss] ELSE c

\* The congestion window after a flush that met overtaken (change) or lost segments.
Congestion(s, inflight, change, lost) ==
  LET half(n) == Max({n \div 2, THRESH_MIN})
      \* without fast resend 0xffffffff is added, modulo 2^32
      c == IF FastResend = 0 THEN half(inflight) - 1 ELSE half(inflight) + FastResend
  IN  CASE NoCwnd                     -> [cwnd |-> s.cwnd, ssthresh |-> s.ssthresh, incr |-> s.incr]
        [] ~NoCwnd /\ lost            -> [cwnd |-> 1, ssthresh |-> half(Window(s)), incr |-> mss]
        [] ~NoCwnd /\ ~lost /\ change -> Opened([cwnd |-> c, ssthresh |-> half(inflight), incr |-> c * mss])
        [] OTHER -> Opened([cwnd |-> s.cwnd, ssthresh |-> s.ssthresh, incr |-> s.incr])

\* flush(IKCP_FLUSH_FULL): the new state and the datagrams; due are the segments whose
\* timer has expired.
FlushSnd(s, due, probeDue) ==
  LET m    == Move(s)
      n    == Moving(s)
      sent == {x \in {[seg |-> seg, why |-> Why(seg, n, seg.sn \in due)] : seg \in ToSet(m.buf)} :
                 x.why # "no"}
      met(why) == \E x \in sent : x.why \in why
      Again(seg) == IF \E x \in sent : x.seg = seg THEN Sent(seg, (CHOOSE x \in sent : x.seg = seg).why)
                    ELSE seg
      c    == Congestion(s, Inflight(s) + n, met({"fast", "early"}), met({"rto"}))
  IN  [state |-> [m EXCEPT !.buf = [k \in 1..Len(@) |-> Again(@[k])], !.probing = (s.rmt = 0),
                           !.dead = @ \/ \E x \in sent : x.seg.xmit + 1 >= DeadLink,
                           !.cwnd = c.cwnd, !.ssthresh = c.ssthresh, !.incr = c.incr],
       out   |-> {[cmd |-> "PUSH", sn |-> x.seg.sn, frag |-> x.seg.frag] : x \in sent}
                   \cup (IF Probe(s, probeDue) THEN {[cmd |-> "WASK"]} ELSE {})]

\* The network after the datagrams in have been taken from it.
Rest(in) == IF Duplicates THEN net ELSE net \ in

Flushed(s, due, probeDue, in) ==
  LET f == FlushSnd(s, due, probeDue) IN a' = f.state /\ net' = Rest(in) \cup f.out

\* Timers that can have expired.
MayBeDue(s) == {s.buf[k].sn : k \in {k \in 1..Len(s.buf) : s.buf[k].xmit > 0 /\ ~s.buf[k].acked}}

-----------------------------------------------------------------------------
(* Input, at the sending end.                                              *)

Before(seg, una) == _itimediff(una, seg.sn) > 0

shrink_buf(s) == [s EXCEPT !.una = IF s.buf = <<>> THEN s.nxt ELSE s.buf[1].sn]

parse_una(s, una) ==
  shrink_buf([s EXCEPT !.buf = SelectSeq(s.buf, LAMBDA seg : ~Before(seg, una))])

InFlight(s, sn) == _itimediff(sn, s.una) >= 0 /\ _itimediff(sn, s.nxt) < 0

\* Mutant of parse_ack: everything up to the segment is taken for acknowledged.
parse_ackMut(s, sn) ==
  [s EXCEPT !.buf = [k \in 1..Len(@) |->
     IF InFlight(s, sn) /\ _itimediff(sn, @[k].sn) >= 0 THEN [@[k] EXCEPT !.acked = TRUE] ELSE @[k]]]

parse_ack(s, sn) ==
  [s EXCEPT !.buf = [k \in 1..Len(@) |->
     IF InFlight(s, sn) /\ @[k].sn = sn THEN [@[k] EXCEPT !.acked = TRUE] ELSE @[k]]]

\* Segments an ack of sn overtakes.
Overtaken(s, sn) ==
  IF InFlight(s, sn) THEN {k \in 1..Len(s.buf) : _itimediff(sn, s.buf[k].sn) > 0 /\ s.buf[k].fastack # Inf}
  ELSE {}

\* older are those of them whose time stamp is not above the echoed one.
parse_fastack(s, older) ==
  [s EXCEPT !.buf = [k \in 1..Len(@) |->
     IF k \in older THEN [@[k] EXCEPT !.fastack = Min({@ + 1, Max({FastResend, 1})})] ELSE @[k]]]

\* The congestion window when acks arrive.
Grow(s, una) ==
  IF NoCwnd \/ _itimediff(s.una, una) <= 0 \/ s.cwnd >= s.rmt THEN s
  ELSE LET inc  == Max({s.incr, mss})
           inc2 == inc + (mss * mss) \div inc + mss \div 16
           c    == IF s.cwnd < s.ssthresh THEN s.cwnd + 1
                   ELSE IF (s.cwnd + 1) * mss <= inc2 THEN (inc2 + mss - 1) \div mss ELSE s.cwnd
           i    == IF s.cwnd < s.ssthresh THEN s.incr + mss ELSE inc2
       IN  IF c > s.rmt THEN [s EXCEPT !.cwnd = s.rmt, !.incr = s.rmt * mss]
           ELSE [s EXCEPT !.cwnd = c, !.incr = i]

\* An ACK or a WINS arrives: the window may be an old one, the ack a repeated one.
InputSnd(p) ==
  /\ ~a.closed
  /\ LET s1 == parse_una([a EXCEPT !.rmt = p.wnd], p.una)
         s2 == IF p.cmd = "ACK" THEN parse_ack(s1, p.sn) ELSE s1
     IN  \E older \in SUBSET (IF p.cmd = "ACK" THEN Overtaken(s2, p.sn) ELSE {}) :
           LET s3 == parse_fastack(s2, older)
               s4 == Grow(s3, a.una)
               full == Len(s3.buf) < Len(a.buf) \/ \E k \in older : s3.buf[k].fastack >= FastResend
           IN  IF full
                 THEN \E due \in SUBSET MayBeDue(s4), probeDue \in BOOLEAN : Flushed(s4, due, probeDue, {p})
                 ELSE a' = s4 /\ net' = Rest({p})
  /\ UNCHANGED <<b, nmsg, got>>

-----------------------------------------------------------------------------
(* The sending session.                                                    *)

WaitSnd(s) == Len(s.buf) + Len(s.queue)

\* Session.Send: WaitSnd is read while kcpLoop runs, and messages already in outputCh do
\* not count.
Send ==
  /\ ~a.dead /\ nmsg < Len(MsgLens)
  /\ MsgLens[nmsg + 1] < SndWnd /\ WaitSnd(a) < SndWnd
  /\ nmsg' = nmsg + 1
  /\ a' = [a EXCEPT !.outputCh = @ + 1]
  /\ UNCHANGED <<b, net, got>>

\* kcpLoop's case outputCh: Send cuts the message up, then flush and checkDeadLink.
Output ==
  /\ ~a.closed /\ a.outputCh > 0
  /\ \E due \in SUBSET MayBeDue(a), probeDue \in BOOLEAN :
       LET m == nmsg - a.outputCh + 1
           f == FlushSnd([a EXCEPT !.queue = @ \o Fragmented(m), !.outputCh = @ - 1], due, probeDue)
       IN  a' = [f.state EXCEPT !.closed = f.state.dead] /\ net' = net \cup f.out
  /\ UNCHANGED <<b, nmsg, got>>

\* kcpLoop's case updateTimer: Update flushes and checkDeadLink ends the session of a dead
\* link (as does the next Session.Send, after which kcpLoop flushes, too).
UpdateSnd(due, probeDue) ==
  /\ ~a.closed
  /\ \E f \in {FlushSnd(a, due, probeDue)} :
       a' = [f.state EXCEPT !.closed = f.state.dead] /\ net' = net \cup f.out
  /\ UNCHANGED <<b, nmsg, got>>

-----------------------------------------------------------------------------
(* The receiving end.                                                      *)

wnd_unused(s) == Max({0, RcvWnd - Len(s.queue)})

\* flush, as far as it concerns a receiver: the acks that una does not cover and the last
\* one, and the window if it was asked for.
FlushRcv(s) ==
  LET wnd  == wnd_unused(s)
      acks == {k \in 1..Len(s.acks) : _itimediff(s.acks[k], s.nxt) >= 0 \/ k = Len(s.acks)}
  IN  [state |-> [s EXCEPT !.acks = <<>>, !.tell = FALSE],
       out   |-> {[cmd |-> "ACK", sn |-> s.acks[k], una |-> s.nxt, wnd |-> wnd] : k \in acks}
                   \cup (IF s.tell THEN {[cmd |-> "WINS", una |-> s.nxt, wnd |-> wnd]} ELSE {})]

\* Segments that rcv_queue may still take.
Room(s) == Max({0, RcvWnd - Len(s.queue)})

\* From rcv_buf to rcv_queue, while the next segment is there and the queue has room.
Available(s) ==
  LET at(k) == Plus(s.nxt, k - 1)
      n == Max({k \in 0..Room(s) :
                  \A j \in 1..k : \E seg \in s.buf : seg.sn = at(j)})
      moved == {seg \in s.buf : \E k \in 1..n : seg.sn = at(k)}
  IN  [s EXCEPT !.buf = @ \ moved, !.nxt = Plus(@, n),
                !.queue = @ \o [k \in 1..n |-> (CHOOSE seg \in moved : seg.sn = at(k)).frag]]

Old(s, sn) == _itimediff(sn, s.nxt) < 0

Has(s, sn) == \E seg \in s.buf : seg.sn = sn

parse_data(s, p) ==
  LET s1 == IF Has(s, p.sn) THEN s ELSE [s EXCEPT !.buf = @ \cup {[sn |-> p.sn, frag |-> p.frag]}]
  IN  Available(s1)

InputPush(s, p) ==
  IF _itimediff(p.sn, Plus(s.nxt, RcvWnd)) >= 0 THEN s
  ELSE LET s1 == [s EXCEPT !.acks = Append(@, p.sn)]
       IN  IF Old(s, p.sn) THEN s1 ELSE parse_data(s1, p)

\* PeekSize finds a whole message.
Readable(s) == s.queue # <<>> /\ (s.queue[1].frg = 0 \/ Len(s.queue) >= s.queue[1].frg + 1)

\* Mutant of End: the loop does not look at frg.
EndMut(s) == Len(s.queue)

\* Where the first message ends.
End(s) ==
  CHOOSE k \in 1..Len(s.queue) : s.queue[k].frg = 0 /\ \A j \in 1..(k - 1) : s.queue[j].frg # 0

\* Recv: the message, then what has become available.
Recv(s) ==
  LET end == End(s)
      r   == Available([s EXCEPT !.queue = SubSeq(@, end + 1, Len(@))])
  IN  [msg   |-> [k \in 1..end |-> s.queue[k].id],
       state |-> [r EXCEPT !.tell = @ \/ (Len(s.queue) >= RcvWnd /\ Len(r.queue) < RcvWnd)]]

\* The loop of Session.onRead: up to maxProcess messages, fewer if the handler stops it.
ReadUpTo(s, n) ==
  LET f[k \in 0..n] ==
        IF k = 0 THEN [state |-> s, msgs |-> <<>>]
        ELSE LET r == f[k - 1] IN
             IF ~Readable(r.state) THEN r
             ELSE LET x == Recv(r.state) IN [state |-> x.state, msgs |-> Append(r.msgs, x.msg)]
  IN  f[n]

\* Acks that Input flushes at once.
AckDue(s) == Len(s.acks) >= AckBatch \/ (ACKNoDelay /\ s.acks # <<>>)

\* Session.onRead: Input, which flushes acks if there are many, then the messages.
onRead(p) ==
  /\ LET s1 == IF p.cmd = "PUSH" THEN InputPush(b, p) ELSE [b EXCEPT !.tell = TRUE]
         s2 == IF AckDue(s1)
                 THEN FlushRcv(s1) ELSE [state |-> s1, out |-> {}]
     IN  \E n \in (IF HandlerStops THEN 1..maxProcess ELSE {maxProcess}) :
           LET r == ReadUpTo(s2.state, n) IN
           b' = r.state /\ got' = got \o r.msgs /\ net' = Rest({p}) \cup s2.out
  /\ UNCHANGED <<a, nmsg>>

UpdateRcv ==
  /\ b' = FlushRcv(b).state /\ net' = net \cup FlushRcv(b).out
  /\ UNCHANGED <<a, nmsg, got>>

ToRcv(p) == p.cmd \in {"PUSH", "WASK"}

Deliver(p) == IF ToRcv(p) THEN onRead(p) ELSE InputSnd(p)

Next ==
  \/ Send \/ Output
  \/ \E due \in SUBSET MayBeDue(a), probeDue \in BOOLEAN : UpdateSnd(due, probeDue)
  \/ UpdateRcv
  \/ \E p \in net : Deliver(p)

Spec == Init /\ [][Next]_vars

-----------------------------------------------------------------------------
\* The fragments handed over and waiting to be read, in order.
Received == FlattenSeq(got) \o [k \in 1..Len(b.queue) |-> b.queue[k].id]

\* What is handed over are the messages sent, whole, once each and in order, whatever the
\* network does and wherever the sequence numbers wrap (kcp/ikcp.go 344-396, 558-592).
InOrderOnce ==
  /\ \A k \in 1..Len(got) : got[k] = [j \in 1..MsgLens[k] |-> FirstOf(k) + j - 1]
  /\ \A k \in 1..Len(Received) : Received[k] = k
  /\ Len(Received) = _itimediff(b.nxt, Start)

\* What the sender frees the receiver holds: a segment below snd_una, or marked as
\* acknowledged, has arrived (kcp/ikcp.go 495-514, 538-550, 659-675).
AckedIsHeld ==
  /\ _itimediff(b.nxt, a.una) >= 0 /\ _itimediff(a.nxt, b.nxt) >= 0
  /\ \A k \in 1..Len(a.buf) :
       a.buf[k].acked => _itimediff(a.buf[k].sn, b.nxt) < 0 \/ Has(b, a.buf[k].sn)

\* snd_buf holds exactly the segments from snd_una to snd_nxt, in order, never more than the
\* send window, and each of them carries the fragment of its number (ikcp.go 487-493, 855-879).
SndBufExact ==
  /\ Len(a.buf) = Inflight(a) /\ Len(a.buf) <= SndWnd
  /\ \A k \in 1..Len(a.buf) :
       a.buf[k].sn = Plus(a.una, k - 1) /\ a.buf[k].frag.id = _itimediff(a.buf[k].sn, Start) + 1

\* Every message sent is handed over, or the sender learns that the link is dead: neither a
\* lost window update or ack nor a congestion window that losses (and, without fast resend,
\* a 32-bit wrap) have shrunk leaves both ends waiting (kcp/ikcp.go 705-732, 811-853,
\* 974-996, session.go 64-124).
MessagesArrive ==
  \A m \in 1..Len(MsgLens) : nmsg >= m ~> (Len(got) >= m \/ a.dead)

=============================================================================
