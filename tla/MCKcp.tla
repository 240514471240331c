------------------------------- MODULE MCKcp -------------------------------
(***************************************************************************)
(* Instances of Kcp for TLC: two sessions with different options, of which *)
(* a behaviour has one.  The first is over a network that repeats          *)
(* datagrams, with fast resend and no congestion window, and its handler   *)
(* leaves messages unread.  The second has the congestion window, and each *)
(* datagram arrives at most once.                                          *)
(***************************************************************************)
EXTENDS Kcp

VARIABLE session    \* the session of this behaviour

Lens21 == <<2, 1>>
Lens12 == <<1, 2>>

Congested ==
  INSTANCE Kcp WITH
    MsgLens <- Lens21, FastResend <- 0, NoCwnd <- FALSE, ACKNoDelay <- TRUE,
    maxProcess <- 3, HandlerStops <- FALSE, Duplicates <- FALSE

InitBoth == session \in {"repeated", "congested"} /\ Init

NextBoth ==
  /\ \/ session = "repeated" /\ Next
     \/ session = "congested" /\ Congested!Next
  /\ UNCHANGED session

all == <<session, vars>>

\* In the second session both ends' timers go off and all retransmissions come due; a
\* probe, and the answer that tells the present window, sent over and over, get through
\* sometime.  In the first one messages are not bound to arrive.
Fair(A) == session = "congested" /\ A /\ UNCHANGED session

SpecBoth ==
  /\ InitBoth /\ [][NextBoth]_all
  /\ WF_all(Fair(Congested!Output)) /\ WF_all(Fair(Congested!UpdateRcv))
  /\ WF_all(Fair(Congested!UpdateSnd(MayBeDue(a), TRUE)))
  /\ SF_all(Fair(\E p \in net : p.cmd = "WASK" /\ Congested!Deliver(p)))
  /\ SF_all(Fair(\E p \in net : /\ p.cmd = "WINS" /\ p.una = b.nxt /\ p.wnd = wnd_unused(b)
                                /\ Congested!Deliver(p)))

\* Messages are handed over whole, once and in order in both sessions
\* (kcp/ikcp.go 344-396, 558-592).
DeliveredInOrder == IF session = "repeated" THEN InOrderOnce ELSE Congested!InOrderOnce

\* In both sessions snd_buf is exact, and what leaves it the receiver holds
\* (kcp/ikcp.go 487-550, 659-675, 855-879).
SenderKnows ==
  IF session = "repeated" THEN AckedIsHeld /\ SndBufExact
  ELSE Congested!AckedIsHeld /\ Congested!SndBufExact

=============================================================================
