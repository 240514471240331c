--------------------------------- MODULE App ---------------------------------
(***************************************************************************)
(* An application (framework/app/app.go) with two modules: a clock, and a  *)
(* routine agent whose functions and timer callbacks call the clock.  The  *)
(* clock, started first, is destroyed last.  The composition of            *)
(* RoutineAgent and ClockTasks with App.Run and App.stop: the agent is one *)
(* of the clock's callers and has the receiver of a timer.                 *)
(***************************************************************************)
EXTENDS RoutineAgent

CONSTANTS
  Agent, Others,    \* the clock's callers: the agent's goroutine and others
  Consumers, TaskCap, MaxTicks    \* as in ClockTasks

VARIABLES
  state,      \* App.state
  left,       \* modules that stop has yet to destroy
  cpc, taskch, done, crun, quit, cclosed, armed, ticks    \* as in ClockTasks

clockOnly == <<cpc, taskch, done, crun, quit, cclosed, armed, ticks>>
agentOnly == <<callVars, lockVars, run, cur, goClosed, executed, chanCb, result>>
appVars   == <<state, left>>
all       == <<agentOnly, timerCh, clockOnly, appVars>>

C == INSTANCE ClockTasks WITH
       Callers <- Others \cup {Agent}, pc <- cpc, run <- crun, closed <- cclosed

app  == "app"
Mods == <<"clock", "agent">>

ASSUME AppAssumption == Closers = {app} /\ Agent \notin Others /\ TaskCap \in Nat

AppInit == Init /\ C!Init /\ state = "Run" /\ left = Len(Mods)

\* A panic ends the process, unless the agent's Exec catches it.
Crashed == \E p \in Others \cup {Agent} : cpc[p] = "panic" /\ ~(p = Agent /\ run = "cb")

-----------------------------------------------------------------------------
(* The agent's goroutine, in the code of the application it runs.          *)

InCode == run \in {"cb", "timer", "onClose"}

\* A function, timerCb or beforeClose calls the clock, at most once each.
AgentPush == InCode /\ C!PushTask(Agent) /\ UNCHANGED <<agentOnly, appVars>>

\* It returns when its call has.
CodeDone ==
  /\ C!Again(Agent)
  /\ RunCbDone \/ RunTimerDone \/ GoClose
  /\ UNCHANGED appVars

AgentLoop ==
  /\ RunCb \/ RunTimer \/ RunClosed \/ Drain \/ DrainEnd
  /\ UNCHANGED <<clockOnly, appVars>>

AgentRun == AgentPush \/ CodeDone \/ AgentLoop

-----------------------------------------------------------------------------
(* App.Run and App.stop.                                                   *)

\* A signal, from the system or by App.Stop.
Stop ==
  /\ state = "Run" /\ state' = "Stop"
  /\ UNCHANGED <<left, agentOnly, timerCh, clockOnly>>

\* destroy, of the module started last first: the agent's Destroy calls Close, which
\* returns without waiting for Run; the clock's closes quit.
DestroyAgent ==
  /\ state = "Stop" /\ left = 2
  /\ \/ CloseCall(app) /\ UNCHANGED left
     \/ CloseLocked(app) /\ left' = 1
  /\ UNCHANGED <<state, clockOnly>>

DestroyClock ==
  /\ state = "Stop" /\ left = 1
  /\ left' = 0 /\ C!Quit
  /\ UNCHANGED <<state, agentOnly>>

\* app.wg.Wait()
Stopped ==
  /\ state = "Stop" /\ left = 0 /\ run = "exited" /\ crun = "exited"
  /\ state' = "None"
  /\ UNCHANGED <<left, agentOnly, timerCh, clockOnly>>

AppStop == DestroyAgent \/ DestroyClock \/ Stopped

-----------------------------------------------------------------------------
AgentCall(p) == (Call(p) \/ CtxDone(p)) /\ UNCHANGED <<clockOnly, appVars>>

OtherPush(p) == C!PushTask(p) /\ UNCHANGED <<agentOnly, appVars>>

ClockRun == C!Run /\ UNCHANGED <<agentOnly, appVars>>

AppNext ==
  /\ ~Crashed
  /\ \/ \E p \in Callers : AgentCall(p)
     \/ \E p \in Others : OtherPush(p)
     \/ AgentRun \/ ClockRun \/ Stop \/ AppStop

\* Goroutines that can go on do, and batches are received; a context need not end, nobody
\* need call and no tick need come.
AppFairness ==
  /\ \A p \in Callers : WF_all(~Crashed /\ Call(p) /\ UNCHANGED <<clockOnly, appVars>>)
  /\ \A p \in Others : WF_all(~Crashed /\ OtherPush(p))
  /\ WF_all(~Crashed /\ AgentRun) /\ WF_all(~Crashed /\ AppStop)
  /\ WF_all(~Crashed /\ (C!RunTask \/ C!RunBatch) /\ UNCHANGED <<agentOnly, appVars>>)
  /\ WF_all(~Crashed /\ (C!RunQuit \/ C!RunClose) /\ UNCHANGED <<agentOnly, appVars>>)

AppSpec == AppInit /\ [][AppNext]_all /\ AppFairness

-----------------------------------------------------------------------------
\* What a call returns tells whether its function or task ran, for the agent as for the
\* clock (framework/go/go.go 48-65, routine_agent.go 76-106, clock/clock.go 249-266).
ResultsTellRun == ResultTellsRun /\ C!OkMeansRan

\* A goroutine waits for good for a task of the clock: the clock has ended without it, or
\* waits itself for one that waits.
Hung(p) == C!TaskLost(p) \/ (cpc[p] = "wait" /\ C!BatchStuck)

\* A call of the clock returns; all that can prevent it is the end of the clock before its
\* turn, or a consumer of batches that calls the clock instead of receiving
\* (clock/clock.go 176-178, 229-232, 249-266).
ClockCallReturns ==
  \A p \in Others \cup {Agent} : (cpc[p] = "wait") ~> (cpc[p] = "ok" \/ Hung(p) \/ Crashed)


\* The application stops: every module is destroyed and every Run returns
\* (framework/app/app.go 100-120).  What can prevent it: the read lock that CtxRunFunc keeps
\* (routine_agent.go 90-106); a clock stuck with a batch; or a function of the agent that
\* calls the clock at its end, since Destroy of the agent does not wait for the agent.
AppStops ==
  (state = "Stop") ~> (state = "None" \/ LockKept \/ Hung(Agent) \/ C!BatchStuck \/ Crashed)
=============================================================================
