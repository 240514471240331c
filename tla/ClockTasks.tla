----------------------------- MODULE ClockTasks -----------------------------
(***************************************************************************)
(* How tasks reach the goroutine of Clock.run (clock/clock.go 221-266):    *)
(* callers of NewTimer, CancelTimer and UpdateTimer in pushTask, the       *)
(* select of run with its quit channel, and the two ways trigger hands     *)
(* over promises: to a receiver that has room, or to a batch channel,      *)
(* waiting for room.  What tasks and ticks do to the timers is module      *)
(* Timers; here one timer with a receiver stands for all.                  *)
(***************************************************************************)
EXTENDS Naturals, Sequences

CONSTANTS
  Callers,     \* goroutines that call into the clock
  Consumers,   \* those of them that also receive the batches
  TaskCap,     \* capacity of taskch (code: 10240)
  TimerChCap,  \* capacity of the receiver
  MaxTicks     \* bound on ticks that find a timer due

VARIABLES
  pc,         \* per caller: where it is in pushTask, or what it returned
  taskch,     \* the tasks in taskch, by caller
  done,       \* the callers whose task has run and closed its done channel
  run,        \* where run is
  quit,       \* the quit channel is closed
  closed,     \* Clock.closed
  armed,      \* a timer with the receiver waits
  timerCh,    \* promises in the receiver
  ticks       \* ticks that found a timer due

vars == <<pc, taskch, done, run, quit, closed, armed, timerCh, ticks>>

Returned == {"ok", "closed", "full"}

TypeOK ==
  /\ pc \in [Callers -> {"idle", "send", "wait", "panic"} \cup Returned]
  /\ taskch \in Seq(Callers) /\ Len(taskch) <= TaskCap
  /\ done \subseteq Callers
  /\ run \in {"select", "batch", "closing", "exited"}
  /\ quit \in BOOLEAN /\ closed \in BOOLEAN /\ armed \in BOOLEAN
  /\ timerCh \in 0..TimerChCap /\ ticks \in 0..MaxTicks

Init ==
  /\ pc = [p \in Callers |-> "idle"] /\ taskch = <<>> /\ done = {}
  /\ run = "select" /\ quit = FALSE /\ closed = FALSE
  /\ armed = FALSE /\ timerCh = 0 /\ ticks = 0

-----------------------------------------------------------------------------
(* pushTask.                                                               *)

Goto(p, l) == pc' = [pc EXCEPT ![p] = l]

PushCheck(p) ==
  /\ pc[p] = "idle"
  /\ Goto(p, IF closed THEN "closed" ELSE "send")
  /\ UNCHANGED <<taskch, done, run, quit, closed, armed, timerCh, ticks>>

\* The send: refused when the channel is full, a panic when run has closed it.
PushSend(p) ==
  /\ pc[p] = "send"
  /\ \/ run = "exited" /\ Goto(p, "panic") /\ UNCHANGED taskch
     \/ run # "exited" /\ Len(taskch) = TaskCap /\ Goto(p, "full") /\ UNCHANGED taskch
     \/ run # "exited" /\ Len(taskch) < TaskCap /\ Goto(p, "wait") /\ taskch' = Append(taskch, p)
  /\ UNCHANGED <<done, run, quit, closed, armed, timerCh, ticks>>

\* <-done
PushDone(p) ==
  /\ pc[p] = "wait" /\ p \in done
  /\ Goto(p, "ok")
  /\ UNCHANGED <<taskch, done, run, quit, closed, armed, timerCh, ticks>>

\* The caller's function returns; a later one may call again.
Again(p) ==
  /\ pc[p] \in {"idle", "panic"} \cup Returned
  /\ Goto(p, "idle")
  /\ done' = done \ {p}
  /\ UNCHANGED <<taskch, run, quit, closed, armed, ticks>>

-----------------------------------------------------------------------------
(* Clock.run.                                                              *)

\* Mutant of RunTask: done is not closed.
RunTaskMut ==
  /\ run = "select" /\ taskch # <<>>
  /\ taskch' = Tail(taskch)
  /\ armed' \in BOOLEAN
  /\ UNCHANGED <<pc, done, run, quit, closed, timerCh, ticks>>

\* case fn := <-c.taskch: a timer is set, cancelled or neither; then done is closed.
RunTask ==
  /\ run = "select" /\ taskch # <<>>
  /\ taskch' = Tail(taskch) /\ done' = done \cup {Head(taskch)}
  /\ armed' \in BOOLEAN
  /\ UNCHANGED <<pc, run, quit, closed, timerCh, ticks>>

\* case <-tickTimer.C: the timer is due and its receiver has room (else nothing changes),
\* or a timer with a batch channel is due.
RunTick ==
  /\ run = "select" /\ ticks < MaxTicks
  /\ ticks' = ticks + 1
  /\ \/ armed /\ timerCh < TimerChCap /\ armed' = FALSE /\ timerCh' = timerCh + 1 /\ UNCHANGED run
     \/ run' = "batch" /\ UNCHANGED <<armed, timerCh>>
  /\ UNCHANGED <<pc, taskch, done, quit, closed>>

\* ch <- promises: the channel is full (or has no buffer), so the send ends when a consumer
\* receives, which one inside pushTask does not.
RunBatch ==
  /\ run = "batch" /\ \E p \in Consumers : pc[p] \notin {"send", "wait"}
  /\ run' = "select"
  /\ UNCHANGED <<pc, taskch, done, quit, closed, armed, timerCh, ticks>>

\* case <-quit: closed is stored first, the channel closed next.
RunQuit ==
  /\ run = "select" /\ quit
  /\ closed' = TRUE /\ run' = "closing"
  /\ UNCHANGED <<pc, taskch, done, quit, armed, timerCh, ticks>>

RunClose ==
  /\ run = "closing"
  /\ run' = "exited"
  /\ UNCHANGED <<pc, taskch, done, quit, closed, armed, timerCh, ticks>>

-----------------------------------------------------------------------------
(* Those the clock serves.                                                 *)

Quit ==
  /\ ~quit /\ quit' = TRUE
  /\ UNCHANGED <<pc, taskch, done, run, closed, armed, timerCh, ticks>>

PushTask(p) == PushCheck(p) \/ PushSend(p) \/ PushDone(p)

Run == RunTask \/ RunTick \/ RunBatch \/ RunQuit \/ RunClose

-----------------------------------------------------------------------------
\* A caller that returns without an error has had its task run, once: it is neither
\* left in the channel nor run again (clock/clock.go 253-265).
OkMeansRan ==
  \A p \in Callers :
    pc[p] = "ok" => p \in done /\ \A k \in 1..Len(taskch) : taskch[k] # p

\* The caller's task came into the channel too late to be run.
TaskLost(p) == pc[p] = "wait" /\ p \notin done /\ run \in {"closing", "exited"}

\* The clock waits for room in the batch channel, and the one to make it for the clock.
BatchStuck == run = "batch" /\ \A p \in Consumers : pc[p] = "wait"
=============================================================================
