------------------------------ MODULE AppProofs ------------------------------
(* Why calls of the routine agent and of the clock are safe and tell the truth, *)
(* for any number of callers and any capacities: an inductive invariant for the *)
(* agent, the composition as a refinement of the agent, and an invariant for    *)
(* the clock's tasks in the composition.                                        *)
EXTENDS App, TLAPS

Queued(p) == \E k \in 1..Len(chanCb) : chanCb[k] = p

\* Callers about to send hold the read lock, so that none is left when isClosed is set,
\* and ChanCb is closed only after that.
Guarded ==
  /\ \A p \in Callers : pc[p] = "send" => kind[p] = "must" /\ p \in readers /\ ~isClosed
  /\ goClosed \/ run \in {"onClose", "drain", "exited"} => isClosed

\* A function is handed over once, and is in one place: not yet submitted, in ChanCb,
\* started or refused.  Its answer, if it has one, says which.
Placed ==
  /\ \A i, j \in 1..Len(chanCb) : chanCb[i] = chanCb[j] => i = j
  /\ \A p \in Callers :
       /\ pc[p] \in {"idle", "send"} => ~Queued(p) /\ p \notin executed /\ result[p] = "none"
       /\ Queued(p) => p \notin executed /\ result[p] = "none"
       /\ result[p] = "nil" => p \in executed
       /\ result[p] \in {"ErrGoChanFull", "ErrGoChanClosed"} => p \notin executed
  /\ run = "cb" => cur \in executed /\ result[cur] = "none"

Told ==
  \A p \in Callers : kind[p] \in {"sync", "ctx"} =>
    /\ pc[p] = "nil" => p \in executed
    /\ pc[p] \in {"ErrRoutineClosed", "ErrGoChanFull", "ErrGoChanClosed"}
         => p \notin executed /\ ~Queued(p)

AgentInv == TypeOK /\ Guarded /\ Placed /\ Told

LEMMA AgentInit == Init => AgentInv
  <1> SUFFICES ASSUME Init PROVE AgentInv
    OBVIOUS
  <1>1. TypeOK
    <2>1. cur \in Callers
      BY RoutineAgentAssumption, Zenon DEF Init
    <2>2. kind \in [Callers -> {"sync", "ctx", "try", "must"}]
      BY RoutineAgentAssumption DEF Init
    <2>3. /\ pc \in [Callers -> {"idle", "send", "wait"} \cup Returned]
          /\ closer \in [Closers -> {"idle", "lock", "done"}]
          /\ result \in [Callers -> {"none", "nil", "ErrGoChanFull", "ErrGoChanClosed"}]
      BY DEF Init
    <2>4. chanCb \in Seq(Callers) /\ Len(chanCb) <= ChanCap /\ timerCh \in 0..TimerChCap
      BY RoutineAgentAssumption DEF Init
    <2> QED BY <2>1, <2>2, <2>3, <2>4 DEF Init, TypeOK
  <1>2. Guarded /\ Placed /\ Told
    BY DEF Init, Guarded, Placed, Told, Queued
  <1> QED BY <1>1, <1>2 DEF AgentInv

\* A function that goes into ChanCb.
LEMMA Appended ==
    ASSUME NEW p \in Callers, AgentInv, Room, chanCb' = Append(chanCb, p)
    PROVE  /\ chanCb' \in Seq(Callers) /\ Len(chanCb') <= ChanCap
           /\ \A q \in Callers : Queued(q)' <=> Queued(q) \/ q = p
           /\ ~Queued(p) => \A i, j \in 1..Len(chanCb') : chanCb'[i] = chanCb'[j] => i = j
  <1> USE RoutineAgentAssumption DEF AgentInv, TypeOK, Room
  <1>1. chanCb \in Seq(Callers) /\ Len(chanCb) \in Nat
    OBVIOUS
  <1>2. /\ chanCb' \in Seq(Callers) /\ Len(chanCb') = Len(chanCb) + 1
        /\ \A k \in 1..Len(chanCb) : chanCb'[k] = chanCb[k]
        /\ chanCb'[Len(chanCb) + 1] = p
    BY <1>1
  <1>3. \A q \in Callers : Queued(q)' <=> Queued(q) \/ q = p
    BY <1>1, <1>2 DEF Queued
  <1>4. ~Queued(p) => \A i, j \in 1..Len(chanCb') : chanCb'[i] = chanCb'[j] => i = j
    BY <1>1, <1>2 DEF Queued, Placed
  <1> QED BY <1>2, <1>3, <1>4

\* A function that comes out of ChanCb.
LEMMA Taken ==
    ASSUME AgentInv, chanCb # <<>>, chanCb' = Tail(chanCb)
    PROVE  /\ Head(chanCb) \in Callers /\ Queued(Head(chanCb))
           /\ chanCb' \in Seq(Callers) /\ Len(chanCb') <= ChanCap
           /\ \A q \in Callers : Queued(q)' <=> Queued(q) /\ q # Head(chanCb)
           /\ \A i, j \in 1..Len(chanCb') : chanCb'[i] = chanCb'[j] => i = j
  <1> USE RoutineAgentAssumption DEF AgentInv, TypeOK
  <1>1. /\ chanCb \in Seq(Callers) /\ Len(chanCb) \in Nat \ {0} /\ Head(chanCb) = chanCb[1]
        /\ Head(chanCb) \in Callers
    OBVIOUS
  <1>2. /\ chanCb' \in Seq(Callers) /\ Len(chanCb') = Len(chanCb) - 1
        /\ \A k \in 1..Len(chanCb') : chanCb'[k] = chanCb[k + 1]
    BY <1>1
  <1>3. \A q \in Callers : Queued(q)' <=> Queued(q) /\ q # Head(chanCb)
    <2> SUFFICES ASSUME NEW q \in Callers PROVE Queued(q)' <=> Queued(q) /\ q # Head(chanCb)
      OBVIOUS
    <2>1. Queued(q)' => Queued(q) /\ q # Head(chanCb)
      BY <1>1, <1>2 DEF Queued, Placed
    <2>2. ASSUME NEW k \in 1..Len(chanCb), chanCb[k] = q, q # Head(chanCb) PROVE Queued(q)'
      <3>1. k - 1 \in 1..Len(chanCb') /\ chanCb'[k - 1] = chanCb[k]
        BY <1>1, <1>2, <2>2
      <3> QED BY <2>2, <3>1 DEF Queued
    <2> QED BY <2>1, <2>2 DEF Queued
  <1>4. \A i, j \in 1..Len(chanCb') : chanCb'[i] = chanCb'[j] => i = j
    BY <1>1, <1>2 DEF Placed
  <1>5. Queued(Head(chanCb))
    BY <1>1 DEF Queued
  <1> QED BY <1>1, <1>2, <1>3, <1>4, <1>5

LEMMA AgentStep == AgentInv /\ [Next]_vars => AgentInv'
  <1> SUFFICES ASSUME AgentInv, [Next]_vars PROVE AgentInv'
    OBVIOUS
  <1> USE RoutineAgentAssumption DEF AgentInv, TypeOK, Guarded, Placed, Told,
        callVars, lockVars, agentVars, Goto, RLock, Returned
  <1>1. ASSUME NEW p \in Callers, Refused(p) PROVE AgentInv'
    BY <1>1 DEF Refused, Queued
  <1>2. ASSUME NEW p \in Callers, SubmitWithResult(p) PROVE AgentInv'
    <2>1. CASE Room
      <3>1. /\ chanCb' \in Seq(Callers) /\ Len(chanCb') <= ChanCap
            /\ \A q \in Callers : Queued(q)' <=> Queued(q) \/ q = p
            /\ \A i, j \in 1..Len(chanCb') : chanCb'[i] = chanCb'[j] => i = j
        BY <1>2, <2>1, Appended DEF SubmitWithResult
      <3> QED BY <1>2, <2>1, <3>1 DEF SubmitWithResult
    <2>2. CASE ~Room
      BY <1>2, <2>2 DEF SubmitWithResult, Queued
    <2> QED BY <2>1, <2>2
  <1>3. ASSUME NEW p \in Callers, TryRunFunc(p) PROVE AgentInv'
    <2>1. CASE Room
      <3>1. /\ chanCb' \in Seq(Callers) /\ Len(chanCb') <= ChanCap
            /\ \A q \in Callers : Queued(q)' <=> Queued(q) \/ q = p
            /\ \A i, j \in 1..Len(chanCb') : chanCb'[i] = chanCb'[j] => i = j
        BY <1>3, <2>1, Appended DEF TryRunFunc
      <3>2. TypeOK' /\ Guarded'
        BY <1>3, <2>1, <3>1 DEF TryRunFunc
      <3>3. Placed'
        BY <1>3, <2>1, <3>1 DEF TryRunFunc
      <3>4. Told'
        BY <1>3, <2>1, <3>1 DEF TryRunFunc
      <3> QED BY <3>2, <3>3, <3>4
    <2>2. CASE ~Room
      BY <1>3, <2>2 DEF TryRunFunc, Queued
    <2> QED BY <2>1, <2>2
  <1>4. ASSUME NEW p \in Callers, MustRunFunc(p) PROVE AgentInv'
    BY <1>4 DEF MustRunFunc, Queued
  <1>5. ASSUME NEW p \in Callers, MustSubmit(p) PROVE AgentInv'
    <2>1. /\ chanCb' \in Seq(Callers) /\ Len(chanCb') <= ChanCap
          /\ \A q \in Callers : Queued(q)' <=> Queued(q) \/ q = p
          /\ \A i, j \in 1..Len(chanCb') : chanCb'[i] = chanCb'[j] => i = j
      BY <1>5, Appended DEF MustSubmit
    <2>2. TypeOK' /\ Guarded'
      BY <1>5, <2>1 DEF MustSubmit
    <2>3. Placed'
      BY <1>5, <2>1 DEF MustSubmit
    <2>4. Told'
      BY <1>5, <2>1 DEF MustSubmit
    <2> QED BY <2>2, <2>3, <2>4
  <1>6. ASSUME NEW p \in Callers, TakeResult(p) PROVE AgentInv'
    BY <1>6 DEF TakeResult, Queued
  <1>7. ASSUME NEW p \in Callers, CtxDone(p) PROVE AgentInv'
    BY <1>7 DEF CtxDone, Queued
  <1>8. ASSUME NEW q \in Closers, CloseCall(q) PROVE AgentInv'
    BY <1>8 DEF CloseCall, Queued
  <1>9. ASSUME NEW q \in Closers, CloseLocked(q) PROVE AgentInv'
    BY <1>9 DEF CloseLocked, Locked, Queued
  <1>10. CASE RunCb
    BY <1>10, Taken DEF RunCb
  <1>11. CASE RunCbDone
    BY <1>11 DEF RunCbDone, Answer, Queued
  <1>12. CASE RunTimer
    BY <1>12 DEF RunTimer, Queued
  <1>13. CASE RunTimerDone \/ RunClosed \/ GoClose
    <2>1. CASE RunTimerDone
      BY <2>1 DEF RunTimerDone, Queued
    <2>2. CASE RunClosed
      BY <2>2 DEF RunClosed, Queued
    <2>3. CASE GoClose
      BY <2>3 DEF GoClose, Queued
    <2> QED BY <1>13, <2>1, <2>2, <2>3
  <1>14. CASE Drain
    <2>1. /\ Head(chanCb) \in Callers /\ Queued(Head(chanCb))
          /\ chanCb' \in Seq(Callers) /\ Len(chanCb') <= ChanCap
          /\ \A q \in Callers : Queued(q)' <=> Queued(q) /\ q # Head(chanCb)
          /\ \A i, j \in 1..Len(chanCb') : chanCb'[i] = chanCb'[j] => i = j
      BY <1>14, Taken DEF Drain
    <2> QED BY <1>14, <2>1 DEF Drain, DrainAnswer, Answer
  <1>15. CASE DrainEnd
    BY <1>15 DEF DrainEnd, Queued
  <1>16. CASE Promise
    BY <1>16 DEF Promise, Queued
  <1>17. CASE UNCHANGED vars
    BY <1>17 DEF vars, Queued
  <1> QED BY <1>1, <1>2, <1>3, <1>4, <1>5, <1>6, <1>7, <1>8, <1>9, <1>10, <1>11, <1>12,
             <1>13, <1>14, <1>15, <1>16, <1>17 DEF Next, Call, Run

\* No caller sends on ChanCb after it is closed (framework/go/routine_agent.go 55-130).
THEOREM AgentSafe == Spec => [](NoSendOnClosed /\ ResultTellsRun)
  <1>1. AgentInv => NoSendOnClosed /\ ResultTellsRun
    BY DEF AgentInv, Guarded, NoSendOnClosed, Told, ResultTellsRun, Queued
  <1> QED BY <1>1, AgentInit, AgentStep, PTL DEF Spec

-----------------------------------------------------------------------------
(* The composition.                                                        *)

\* A step of the application is a step of the agent or leaves it alone; the clock's
\* tick that finds room in the receiver is a promise to the agent.
LEMMA AppStepIsAgentStep == AppNext => [Next]_vars
  <1> SUFFICES ASSUME AppNext PROVE [Next]_vars
    OBVIOUS
  <1> USE DEF agentOnly, callVars, lockVars, agentVars
  <1>1. ASSUME NEW p \in Callers, AgentCall(p) PROVE Next
    BY <1>1 DEF AgentCall, Next
  <1>2. CASE AgentPush
    <2>1. UNCHANGED <<agentOnly, timerCh>>
      BY <1>2 DEF AgentPush, C!PushTask, C!PushCheck, C!PushSend, C!PushDone
    <2> QED BY <2>1 DEF vars
  <1>3. ASSUME NEW p \in Others, OtherPush(p) PROVE UNCHANGED vars
    <2>1. UNCHANGED <<agentOnly, timerCh>>
      BY <1>3 DEF OtherPush, C!PushTask, C!PushCheck, C!PushSend, C!PushDone
    <2> QED BY <2>1 DEF vars
  <1>4. CASE CodeDone \/ AgentLoop
    BY <1>4 DEF CodeDone, AgentLoop, Next, Run
  <1>5. CASE ClockRun
    <2>1. CASE C!RunTick
      <3>1. Promise \/ UNCHANGED <<agentOnly, timerCh>>
        BY <1>5, <2>1 DEF ClockRun, C!RunTick, Promise
      <3> QED BY <3>1 DEF vars, Next
    <2>2. CASE C!RunTask \/ C!RunBatch \/ C!RunQuit \/ C!RunClose
      <3>1. UNCHANGED <<agentOnly, timerCh>>
        BY <1>5, <2>2 DEF ClockRun, C!RunTask, C!RunBatch, C!RunQuit, C!RunClose
      <3> QED BY <3>1 DEF vars
    <2> QED BY <1>5, <2>1, <2>2 DEF ClockRun, C!Run
  <1>6. CASE DestroyAgent
    BY <1>6, AppAssumption DEF DestroyAgent, Next
  <1>7. CASE Stop \/ DestroyClock \/ Stopped
    <2>1. UNCHANGED <<agentOnly, timerCh>>
      BY <1>7 DEF Stop, DestroyClock, Stopped, C!Quit
    <2> QED BY <2>1 DEF vars
  <1> QED BY <1>1, <1>2, <1>3, <1>4, <1>5, <1>6, <1>7 DEF AppNext, AgentRun, AppStop

\* The application implements its agent: what holds of the agent alone holds in it.
THEOREM AppImplementsAgent == AppSpec => Spec
  <1>1. AppInit => Init
    BY DEF AppInit
  <1>2. [AppNext]_all => [Next]_vars
    <2>1. UNCHANGED all => UNCHANGED vars
      BY DEF all, agentOnly, vars, callVars, lockVars, agentVars
    <2> QED BY <2>1, AppStepIsAgentStep
  <1> QED BY <1>1, <1>2, PTL DEF AppSpec, Spec

\* In the application, with its agent called from anywhere and closed by App.stop, no caller
\* sends on the closed channel.
THEOREM NoSendAfterClose == AppSpec => []NoSendOnClosed
  BY AgentSafe, AppImplementsAgent, PTL

-----------------------------------------------------------------------------
(* The tasks of the clock.                                                 *)

CC == Others \cup {Agent}

InTaskch(p) == \E k \in 1..Len(taskch) : taskch[k] = p

\* A caller has one task, in the channel while it waits, until the task has run.
TaskInv ==
  /\ taskch \in Seq(CC) /\ done \subseteq CC
  /\ cpc \in [CC -> {"idle", "send", "wait", "panic", "ok", "closed", "full"}]
  /\ \A i, j \in 1..Len(taskch) : taskch[i] = taskch[j] => i = j
  /\ \A p \in CC :
       /\ InTaskch(p) => cpc[p] = "wait" /\ p \notin done
       /\ p \in done => cpc[p] \in {"wait", "ok"}
       /\ cpc[p] = "ok" => p \in done

LEMMA PushKeeps == ASSUME NEW p \in CC, TaskInv, C!PushTask(p) PROVE TaskInv'
  <1> USE DEF TaskInv, C!Goto
  <1>1. CASE C!PushCheck(p)
    BY <1>1 DEF C!PushCheck, InTaskch
  <1>2. CASE C!PushSend(p)
    <2>1. CASE UNCHANGED taskch
      BY <1>2, <2>1 DEF C!PushSend, InTaskch
    <2>2. CASE taskch' = Append(taskch, p) /\ cpc' = [cpc EXCEPT ![p] = "wait"]
      <3>1. taskch \in Seq(CC) /\ Len(taskch) \in Nat /\ ~InTaskch(p) /\ p \notin done
        BY <1>2 DEF C!PushSend
      <3>2. /\ taskch' \in Seq(CC) /\ Len(taskch') = Len(taskch) + 1
            /\ \A k \in 1..Len(taskch) : taskch'[k] = taskch[k]
            /\ taskch'[Len(taskch) + 1] = p
        BY <2>2, <3>1
      <3>3. \A q \in CC : InTaskch(q)' <=> InTaskch(q) \/ q = p
        BY <3>1, <3>2 DEF InTaskch
      <3>4. \A i, j \in 1..Len(taskch') : taskch'[i] = taskch'[j] => i = j
        BY <3>1, <3>2 DEF InTaskch
      <3> QED BY <1>2, <2>2, <3>1, <3>2, <3>3, <3>4 DEF C!PushSend
    <2> QED BY <1>2, <2>1, <2>2 DEF C!PushSend
  <1>3. CASE C!PushDone(p)
    BY <1>3 DEF C!PushDone, InTaskch
  <1> QED BY <1>1, <1>2, <1>3 DEF C!PushTask

LEMMA TaskKeeps == ASSUME TaskInv, C!RunTask PROVE TaskInv'
  <1> USE DEF TaskInv
  <1>1. /\ taskch \in Seq(CC) /\ Len(taskch) \in Nat \ {0} /\ Head(taskch) = taskch[1]
        /\ Head(taskch) \in CC /\ InTaskch(Head(taskch))
    BY DEF C!RunTask, InTaskch
  <1>2. /\ taskch' \in Seq(CC) /\ Len(taskch') = Len(taskch) - 1
        /\ \A k \in 1..Len(taskch') : taskch'[k] = taskch[k + 1]
    BY <1>1 DEF C!RunTask
  <1>3. \A q \in CC : InTaskch(q)' => InTaskch(q) /\ q # Head(taskch)
    BY <1>1, <1>2 DEF InTaskch
  <1>4. \A i, j \in 1..Len(taskch') : taskch'[i] = taskch'[j] => i = j
    BY <1>1, <1>2
  <1> QED BY <1>1, <1>2, <1>3, <1>4 DEF C!RunTask

LEMMA TaskStep == TaskInv /\ [AppNext]_all => TaskInv'
  <1> SUFFICES ASSUME TaskInv, [AppNext]_all PROVE TaskInv'
    OBVIOUS
  <1>1. ASSUME UNCHANGED <<cpc, taskch, done>> PROVE TaskInv'
    BY <1>1 DEF TaskInv, InTaskch
  <1>2. ASSUME NEW p \in Callers, AgentCall(p) PROVE TaskInv'
    BY <1>1, <1>2 DEF AgentCall, clockOnly
  <1>3. CASE AgentPush
    BY <1>3, PushKeeps DEF AgentPush, CC
  <1>4. ASSUME NEW p \in Others, OtherPush(p) PROVE TaskInv'
    BY <1>4, PushKeeps DEF OtherPush, CC
  <1>5. CASE CodeDone
    BY <1>5 DEF CodeDone, C!Again, C!Goto, C!Returned, TaskInv, InTaskch, CC
  <1>6. CASE ClockRun
    <2>1. CASE C!RunTick \/ C!RunBatch \/ C!RunQuit \/ C!RunClose
      BY <1>1, <2>1 DEF C!RunTick, C!RunBatch, C!RunQuit, C!RunClose
    <2> QED BY <1>6, <2>1, TaskKeeps DEF ClockRun, C!Run
  <1>7. CASE AgentLoop \/ Stop \/ AppStop
    BY <1>1, <1>7 DEF AgentLoop, Stop, AppStop, DestroyAgent, DestroyClock, Stopped, C!Quit, clockOnly
  <1>8. CASE UNCHANGED all
    BY <1>1, <1>8 DEF all, clockOnly
  <1> QED BY <1>2, <1>3, <1>4, <1>5, <1>6, <1>7, <1>8 DEF AppNext, AgentRun

\* What a call of the agent or of the clock returns tells whether its function or task ran.
THEOREM ResultsTrue == AppSpec => []ResultsTellRun
  <1>1. AppInit => TaskInv
    BY DEF AppInit, C!Init, TaskInv, InTaskch, CC
  <1>2. TaskInv => C!OkMeansRan
    BY DEF TaskInv, InTaskch, C!OkMeansRan, CC
  <1>3. AppSpec => []C!OkMeansRan
    BY <1>1, <1>2, TaskStep, PTL DEF AppSpec
  <1>4. ResultTellsRun /\ C!OkMeansRan => ResultsTellRun
    BY DEF ResultsTellRun
  <1> QED BY <1>3, <1>4, AgentSafe, AppImplementsAgent, PTL
=============================================================================
