------------------------------- MODULE WsFrame -------------------------------
(***************************************************************************)
(* The frames of one websocket connection (wsg/server.go readFrame,        *)
(* wsg/connection.go): the client's frames arrive in pieces of any size,   *)
(* each piece starts OnTraffic, and readFrame goes on from where the bytes *)
(* ended last time.  A frame is its front, its extension (long length and  *)
(* mask) and len units of payload; a payload is named by the index of its  *)
(* frame.                                                                  *)
(***************************************************************************)
EXTENDS Naturals, Sequences, SequencesExt

CONSTANTS
  Frames,           \* frames a client sends: [op, fin, masked, len, msb]
  MaxFrames,        \* bound on their number
  MaxPayloadSize,   \* option
  MaxControl        \* 125: the longest payload of a control frame

VARIABLES
  sent,         \* the frames the client has sent
  avail,        \* units that arrived and are not read
  coming,       \* units that have not arrived
  at,           \* index of the frame being read
  running,      \* OnTraffic runs
  wsHeadLen, wsHeadOk,
  heads,        \* heads taken from wsHeadPool and not put back
  buff,         \* the payloads of the message being received
  pushed,       \* the messages given to router.PushData
  out,          \* the frames written, each with the index of the one it answers
  closed

head == <<wsHeadLen, wsHeadOk, heads>>
net  == <<sent, coming>>
vars == <<net, avail, at, running, head, buff, pushed, out, closed>>

wsh == sent[at]

front    == 1
Extra(f) == IF f.masked THEN 1 ELSE 0
Size(f)  == front + Extra(f) + f.len
IsControlOp(op) == op \in {"close", "ping", "pong"}
LenOf(b) == FoldLeft(LAMBDA n, k : n + sent[k].len, 0, b)

TypeOK ==
  /\ sent \in Seq(Frames) /\ Len(sent) <= MaxFrames /\ {avail, coming} \subseteq Nat
  /\ at \in 1..(MaxFrames + 1) /\ {running, wsHeadOk, closed} \subseteq BOOLEAN
  /\ wsHeadLen \in 0..2 /\ heads \in {0, 1}
  /\ buff \in Seq(1..MaxFrames) /\ pushed \in Seq(Seq(1..MaxFrames))

Init ==
  /\ sent = <<>> /\ avail = 0 /\ coming = 0 /\ at = 1 /\ running = FALSE
  /\ wsHeadLen = 0 /\ wsHeadOk = FALSE /\ heads = 0
  /\ buff = <<>> /\ pushed = <<>> /\ out = <<>> /\ closed = FALSE

-----------------------------------------------------------------------------
\* The client sends a frame.
ClientSend(f) ==
  /\ ~running /\ ~closed /\ Len(sent) < MaxFrames
  /\ sent' = Append(sent, f) /\ coming' = coming + Size(f)
  /\ UNCHANGED <<avail, at, running, head, buff, pushed, out, closed>>

\* n units arrive and gnet calls OnTraffic.
OnTraffic(n) ==
  /\ ~running /\ ~closed /\ n \in 1..coming
  /\ avail' = avail + n /\ coming' = coming - n /\ running' = TRUE
  /\ UNCHANGED <<sent, at, head, buff, pushed, out, closed>>

\* readFrame returns for more bytes.
More == running' = FALSE /\ UNCHANGED <<avail, at, head, buff, pushed, out, closed>>

\* The deferred function: the head goes back to the pool.
HeadBack == heads' = 0

\* readFrame returns an error, after the frames in reply: OnTraffic closes the connection.
Fail(reply) ==
  /\ out' = out \o reply
  /\ HeadBack
  /\ closed' = TRUE /\ running' = FALSE
  /\ UNCHANGED <<at, wsHeadLen, wsHeadOk, buff, pushed>>

\* The answer to a control frame.
innerSendWsOpFrame(op) == <<[op |-> op, to |-> at]>>

\* A close frame that carries the error.
ReplyWsError == <<[op |-> "close", to |-> at]>>

\* ReadWsHeader, the first two bytes; a head that has no extension ends here.
ReadFront ==
  /\ running /\ ~wsHeadOk /\ wsHeadLen = 0
  /\ IF avail < front THEN More
     ELSE /\ heads' = heads + 1
          /\ wsHeadLen' = front + Extra(wsh)
          /\ wsHeadOk' = (Extra(wsh) = 0)
          /\ avail' = IF Extra(wsh) = 0 THEN avail - front ELSE avail
          /\ UNCHANGED <<at, running, buff, pushed, out, closed>>
  /\ UNCHANGED net

\* ReadWsHeader, the rest.
ReadExtra ==
  /\ running /\ ~wsHeadOk /\ wsHeadLen > 0
  /\ IF avail < wsHeadLen THEN More
     ELSE /\ avail' = avail - wsHeadLen
          /\ IF wsh.msb THEN Fail(<<>>)
             ELSE /\ wsHeadOk' = TRUE
                  /\ UNCHANGED <<at, running, wsHeadLen, heads, buff, pushed, out, closed>>
  /\ UNCHANGED net

Bad == ~wsh.masked \/ wsh.op = "text"

TooLarge == wsh.len > 0 /\ wsh.len + LenOf(buff) > MaxPayloadSize

\* processOpFrame refuses the frame.
BadControl ==
  \/ ~wsh.fin
  \/ wsh.op = "close" /\ (wsh.len = 1 \/ wsh.len > MaxControl)
  \/ wsh.op = "ping" /\ wsh.len > MaxControl

\* The head is done with: the next frame.
NextFrame ==
  /\ at' = at + 1 /\ wsHeadOk' = FALSE /\ wsHeadLen' = 0 /\ heads' = heads - 1
  /\ avail' = avail - wsh.len
  /\ UNCHANGED <<running, closed>>

Control ==
  \/ /\ BadControl /\ Fail(ReplyWsError) /\ avail' = avail - wsh.len
  \/ /\ ~BadControl /\ wsh.op = "close"
     /\ Fail(innerSendWsOpFrame("close")) /\ avail' = avail - wsh.len
  \/ /\ ~BadControl /\ wsh.op # "close" /\ NextFrame
     /\ out' = out \o (IF wsh.op = "ping" THEN innerSendWsOpFrame("pong") ELSE <<>>)
     /\ UNCHANGED <<buff, pushed>>

\* Mutant of Push: the buffer is not given up.
PushMut(b) == pushed' = Append(pushed, b) /\ buff' = b

Push(b) == pushed' = Append(pushed, b) /\ buff' = <<>>

DataFrame ==
  /\ NextFrame
  /\ IF wsh.len = 0 THEN UNCHANGED <<buff, pushed>>
     ELSE IF wsh.fin THEN Push(Append(buff, at))
     ELSE buff' = Append(buff, at) /\ UNCHANGED pushed
  /\ UNCHANGED out

Short == avail < wsh.len

\* The body of a frame whose head is complete.
ReadBody ==
  /\ running /\ wsHeadOk
  /\ IF Bad \/ TooLarge THEN Fail(ReplyWsError) /\ UNCHANGED avail
     ELSE IF Short THEN More
     ELSE IF IsControlOp(wsh.op) THEN Control ELSE DataFrame
  /\ UNCHANGED net

readFrame == ReadFront \/ ReadExtra \/ ReadBody

Next ==
  \/ \E f \in Frames : ClientSend(f)
  \/ \E n \in 1..coming : OnTraffic(n)
  \/ readFrame

Spec == Init /\ [][Next]_vars

-----------------------------------------------------------------------------
\* The payloads of the frames up to n, cut after each last fragment: what the client
\* meant, but for a last fragment without payload, which ends no message.
Messages(n) ==
  FoldLeft(LAMBDA m, k :
      IF IsControlOp(sent[k].op) \/ sent[k].len = 0 THEN m
      ELSE LET b == Append(m.buff, k) IN
           IF sent[k].fin THEN [msgs |-> Append(m.msgs, b), buff |-> <<>>] ELSE [m EXCEPT !.buff = b],
    [msgs |-> <<>>, buff |-> <<>>], [k \in 1..n |-> k])

Pings(n) == SelectSeq([k \in 1..n |-> k], LAMBDA k : sent[k].op = "ping")

\* However the bytes are cut into pieces and whatever control frames stand between the
\* fragments, the messages pushed are the ones sent, whole, once and in order, every ping
\* is answered once and in its turn, no byte of a frame is read as part of another, and
\* the head of a frame is back in its pool when the frame is done with or refused; and no
\* message kept or pushed is longer than the limit, however it is fragmented
\* (wsg/server.go 235-316, connection.go 52-128).
MessagesWhole ==
  /\ pushed = Messages(at - 1).msgs /\ buff = Messages(at - 1).buff
  /\ LET pongs == SelectSeq(out, LAMBDA f : f.op = "pong")
     IN  [k \in 1..Len(pongs) |-> pongs[k].to] = Pings(at - 1)
  /\ (~closed /\ ~running /\ coming = 0) => at = Len(sent) + 1 /\ avail = 0
  /\ heads = IF wsHeadLen > 0 /\ ~closed THEN 1 ELSE 0
  /\ LenOf(buff) <= MaxPayloadSize /\ \A k \in 1..Len(pushed) : LenOf(pushed[k]) <= MaxPayloadSize

=============================================================================
