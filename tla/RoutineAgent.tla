---------------------------- MODULE RoutineAgent ----------------------------
(***************************************************************************)
(* The goroutine worker of framework/go: RoutineAgent (routine_agent.go)   *)
(* over the task channel Go (go.go).  Each caller hands over one function, *)
(* by SyncRunFunc, CtxRunFunc, TryRunFunc or MustRunFunc; the agent runs   *)
(* them, and the callback of timers, in Run, and after Close it drains the *)
(* channel in onClose.                                                     *)
(***************************************************************************)
EXTENDS Naturals, Sequences

CONSTANTS
  Callers,    \* goroutines that hand over a function
  Closers,    \* goroutines that call Close
  CallKinds,  \* the ways the callers use
  ChanCap,    \* capacity of ChanCb (code: 1024 and more)
  TimerChCap  \* capacity of timerCh

ASSUME RoutineAgentAssumption ==
  /\ Callers # {} /\ CallKinds \subseteq {"sync", "ctx", "try", "must"}
  /\ ChanCap \in Nat \ {0} /\ TimerChCap \in Nat

VARIABLES
  kind,       \* per caller: which function it calls
  pc,         \* per caller: where it is, or what it returned
  readers,    \* callers that hold the read lock of mutex
  closer,     \* per closer: where it is in Close
  isClosed,   \* RoutineAgent.isClosed, and closeSig closed with it
  run,        \* where Run is
  goClosed,   \* Go.closed, and ChanCb closed with it
  cur,        \* the caller whose function Run took last
  chanCb,     \* ChanCb: the callers whose functions wait in it
  timerCh,    \* the number of promises in timerCh
  executed,   \* callers whose function was started
  result      \* per caller: the answer in its errCh

callVars  == <<kind, pc>>
lockVars  == <<readers, closer, isClosed>>
agentVars == <<run, cur, goClosed, executed, timerCh>>
vars == <<callVars, lockVars, agentVars, chanCb, result>>

\* nil, ErrRoutineClosed, ErrGoChanFull, ErrGoChanClosed, ctx.Err()
Returned == {"nil", "ErrRoutineClosed", "ErrGoChanFull", "ErrGoChanClosed", "ctxErr"}

TypeOK ==
  /\ kind \in [Callers -> {"sync", "ctx", "try", "must"}]
  /\ pc \in [Callers -> {"idle", "send", "wait"} \cup Returned]
  /\ readers \subseteq Callers
  /\ closer \in [Closers -> {"idle", "lock", "done"}]
  /\ isClosed \in BOOLEAN /\ goClosed \in BOOLEAN
  /\ run \in {"select", "cb", "timer", "onClose", "drain", "exited"} /\ cur \in Callers
  /\ timerCh \in 0..TimerChCap
  /\ chanCb \in Seq(Callers) /\ Len(chanCb) <= ChanCap
  /\ executed \subseteq Callers
  /\ result \in [Callers -> {"none", "nil", "ErrGoChanFull", "ErrGoChanClosed"}]

Init ==
  /\ kind \in [Callers -> CallKinds] /\ pc = [p \in Callers |-> "idle"]
  /\ readers = {} /\ closer = [q \in Closers |-> "idle"] /\ isClosed = FALSE
  /\ run = "select" /\ goClosed = FALSE /\ chanCb = <<>> /\ executed = {}
  /\ cur = (CHOOSE p \in Callers : TRUE) /\ timerCh = 0
  /\ result = [p \in Callers |-> "none"]

-----------------------------------------------------------------------------
Goto(p, l) == pc' = [pc EXCEPT ![p] = l]

\* mutex.RLock() succeeds: nobody is in Lock, waiting or holding it.
RLock == \A q \in Closers : closer[q] # "lock"

Room == Len(chanCb) < ChanCap

\* The four calls find the agent closed.
Refused(p) ==
  /\ pc[p] = "idle" /\ RLock /\ isClosed
  /\ Goto(p, "ErrRoutineClosed")
  /\ UNCHANGED <<kind, lockVars, agentVars, chanCb, result>>

\* SubmitWithResult of SyncRunFunc and CtxRunFunc, which go on to wait for errCh; a full
\* channel is answered through errCh too.  CtxRunFunc keeps the read lock: only its path
\* for a closed agent calls RUnlock.
SubmitWithResult(p) ==
  /\ pc[p] = "idle" /\ kind[p] \in {"sync", "ctx"} /\ RLock /\ ~isClosed
  /\ readers' = IF kind[p] = "ctx" THEN readers \cup {p} ELSE readers
  /\ Goto(p, "wait")
  /\ IF Room THEN chanCb' = Append(chanCb, p) /\ UNCHANGED result
     ELSE result' = [result EXCEPT ![p] = "ErrGoChanFull"] /\ UNCHANGED chanCb
  /\ UNCHANGED <<kind, closer, isClosed, agentVars>>

TryRunFunc(p) ==
  /\ pc[p] = "idle" /\ kind[p] = "try" /\ RLock /\ ~isClosed
  /\ IF Room THEN chanCb' = Append(chanCb, p) /\ Goto(p, "nil")
     ELSE Goto(p, "ErrGoChanFull") /\ UNCHANGED chanCb
  /\ UNCHANGED <<kind, lockVars, agentVars, result>>

\* MustRunFunc takes the read lock and keeps it while its send blocks.
MustRunFunc(p) ==
  /\ pc[p] = "idle" /\ kind[p] = "must" /\ RLock /\ ~isClosed
  /\ readers' = readers \cup {p}
  /\ Goto(p, "send")
  /\ UNCHANGED <<kind, closer, isClosed, agentVars, chanCb, result>>

\* Mutant of MustSubmit: the read lock is kept.
MustSubmitMut(p) ==
  /\ pc[p] = "send" /\ Room
  /\ chanCb' = Append(chanCb, p)
  /\ Goto(p, "nil")
  /\ UNCHANGED <<kind, lockVars, agentVars, result>>

MustSubmit(p) ==
  /\ pc[p] = "send" /\ Room
  /\ chanCb' = Append(chanCb, p)
  /\ readers' = readers \ {p}
  /\ Goto(p, "nil")
  /\ UNCHANGED <<kind, closer, isClosed, agentVars, result>>

\* err = <-errCh
TakeResult(p) ==
  /\ pc[p] = "wait" /\ result[p] # "none"
  /\ Goto(p, result[p])
  /\ UNCHANGED <<kind, lockVars, agentVars, chanCb, result>>

\* case <-ctx.Done() of CtxRunFunc
CtxDone(p) ==
  /\ pc[p] = "wait" /\ kind[p] = "ctx"
  /\ Goto(p, "ctxErr")
  /\ UNCHANGED <<kind, lockVars, agentVars, chanCb, result>>

-----------------------------------------------------------------------------
(* Close.                                                                  *)

CloseCall(q) ==
  /\ closer[q] = "idle"
  /\ closer' = [closer EXCEPT ![q] = "lock"]
  /\ UNCHANGED <<callVars, readers, isClosed, agentVars, chanCb, result>>

\* Mutant of Locked: Close does not wait for the callers inside.
LockedMut == TRUE

\* mutex.Lock() succeeds.
Locked == readers = {}

\* The critical section of Close; the second one changes nothing.
CloseLocked(q) ==
  /\ closer[q] = "lock" /\ Locked
  /\ closer' = [closer EXCEPT ![q] = "done"]
  /\ isClosed' = TRUE
  /\ UNCHANGED <<callVars, readers, agentVars, chanCb, result>>

-----------------------------------------------------------------------------
(* Run and onClose.                                                        *)

\* Exec of a function made by SubmitWithResult, TrySubmit or MustSubmit: it runs unless
\* Go.closed is set, and answers through errCh if it has one.
Answer(p, r) == [result EXCEPT ![p] = IF kind[p] \in {"sync", "ctx"} THEN r ELSE @]

\* case cb := <-a.Go.ChanCb: the function is begun, and takes its time.
RunCb ==
  /\ run = "select" /\ chanCb # <<>>
  /\ run' = "cb" /\ cur' = Head(chanCb) /\ chanCb' = Tail(chanCb)
  /\ executed' = executed \cup {Head(chanCb)}
  /\ UNCHANGED <<callVars, lockVars, goClosed, timerCh, result>>

\* It has returned, or its panic was caught by Exec: either way errCh is closed.
RunCbDone ==
  /\ run = "cb"
  /\ run' = "select" /\ result' = Answer(cur, "nil")
  /\ UNCHANGED <<callVars, lockVars, cur, goClosed, executed, timerCh, chanCb>>

\* case t := <-a.timerCh, and the return of timerCb.
RunTimer ==
  /\ run = "select" /\ timerCh > 0
  /\ run' = "timer" /\ timerCh' = timerCh - 1
  /\ UNCHANGED <<callVars, lockVars, cur, goClosed, executed, chanCb, result>>

RunTimerDone ==
  /\ run = "timer"
  /\ run' = "select"
  /\ UNCHANGED <<callVars, lockVars, cur, goClosed, executed, timerCh, chanCb, result>>

\* case <-a.closeSig, then beforeClose.
RunClosed ==
  /\ run = "select" /\ isClosed
  /\ run' = "onClose"
  /\ UNCHANGED <<callVars, lockVars, cur, goClosed, executed, timerCh, chanCb, result>>

\* Go.Close
GoClose ==
  /\ run = "onClose"
  /\ run' = "drain" /\ goClosed' = TRUE
  /\ UNCHANGED <<callVars, lockVars, cur, executed, timerCh, chanCb, result>>

\* Mutant of DrainAnswer: as the functions that ran.
DrainAnswerMut == Answer(Head(chanCb), "nil")

DrainAnswer == Answer(Head(chanCb), "ErrGoChanClosed")

\* The loop of onClose.
Drain ==
  /\ run = "drain" /\ chanCb # <<>>
  /\ chanCb' = Tail(chanCb)
  /\ result' = DrainAnswer
  /\ UNCHANGED <<callVars, lockVars, agentVars>>

\* Mutant of DrainEnd: onClose does not drain.
DrainEndMut ==
  /\ run = "drain"
  /\ run' = "exited"
  /\ UNCHANGED <<callVars, lockVars, cur, goClosed, executed, timerCh, chanCb, result>>

DrainEnd ==
  /\ run = "drain" /\ chanCb = <<>>
  /\ run' = "exited"
  /\ UNCHANGED <<callVars, lockVars, cur, goClosed, executed, timerCh, chanCb, result>>

-----------------------------------------------------------------------------
Call(p) ==
  \/ Refused(p) \/ SubmitWithResult(p) \/ TryRunFunc(p) \/ MustRunFunc(p) \/ MustSubmit(p)
  \/ TakeResult(p)

Run ==
  \/ RunCb \/ RunCbDone \/ RunTimer \/ RunTimerDone \/ RunClosed \/ GoClose
  \/ Drain \/ DrainEnd

\* A clock that has the agent's receiver puts a promise into timerCh.
Promise ==
  /\ timerCh < TimerChCap
  /\ timerCh' = timerCh + 1
  /\ UNCHANGED <<callVars, lockVars, run, cur, goClosed, executed, chanCb, result>>

Next ==
  \/ \E p \in Callers : Call(p) \/ CtxDone(p)
  \/ \E q \in Closers : CloseCall(q) \/ CloseLocked(q)
  \/ Run \/ Promise

Spec == Init /\ [][Next]_vars

-----------------------------------------------------------------------------
\* No caller is about to send on ChanCb when onClose closes it, which would panic: a
\* send is made under the read lock after isClosed was seen false, and Run is told of
\* the close only after the write lock was held (framework/go/routine_agent.go 55-130).
NoSendOnClosed == goClosed => \A p \in Callers : pc[p] # "send"

\* What SyncRunFunc and CtxRunFunc return tells whether the function ran: nil only if it
\* did, an error of the agent only if it did not and will not
\* (framework/go/go.go 48-65, framework/go/routine_agent.go 76-106).
ResultTellsRun ==
  \A p \in Callers : kind[p] \in {"sync", "ctx"} =>
    /\ pc[p] = "nil" => p \in executed
    /\ pc[p] \in {"ErrRoutineClosed", "ErrGoChanFull", "ErrGoChanClosed"}
         => p \notin executed /\ \A k \in 1..Len(chanCb) : chanCb[k] # p

\* A CtxRunFunc that was accepted has taken the read lock for good.
LockKept == \E p \in readers : kind[p] = "ctx"

=============================================================================
