------------------------------- MODULE Logger -------------------------------
(***************************************************************************)
(* The default logger, mlog/default.go: callers put lines into the channel *)
(* buff, and one goroutine prints them to a file, rotates the file and     *)
(* drains the channel when its context ends.  A line is named by the call  *)
(* that logs it.  The package log ignores errors of writing, so a line is  *)
(* printed when it was handed to the file.                                 *)
(***************************************************************************)
EXTENDS Integers, Sequences

CONSTANTS
  Lines,      \* calls of Trace ... Fatalf
  BuffSize    \* capacity of buff (code: 0x10000)

VARIABLES
  loop,      \* the goroutine of Start; "none" before UseDefaultLogger
  ctxDone,   \* its context has ended
  timer,     \* the timer of rotation is set
  over,      \* the file is larger than maxSize
  buff,      \* lines in the channel
  call,      \* per line: where its call is
  taken,     \* lines in the order in which the channel took them
  printed,   \* lines in the order in which they were printed
  exited     \* Fatal has ended the process

logVars == <<loop, ctxDone, timer, over, buff, call, taken, printed, exited>>

LogTypeOK ==
  /\ loop \in {"none", "select", "drain", "ended"}
  /\ ctxDone \in BOOLEAN /\ timer \in BOOLEAN /\ over \in BOOLEAN /\ exited \in BOOLEAN
  /\ buff \in Seq(Lines) /\ Len(buff) <= BuffSize
  /\ call \in [Lines -> {"none", "send", "sendFatal", "sleep", "done"}]
  /\ taken \in Seq(Lines) /\ printed \in Seq(Lines)

LogInit ==
  /\ loop = "none" /\ ctxDone = FALSE /\ timer = FALSE /\ over = FALSE
  /\ buff = <<>> /\ call = [l \in Lines |-> "none"]
  /\ taken = <<>> /\ printed = <<>> /\ exited = FALSE

\* UseDefaultLogger: Start, then SetLogger.  The log file may be an old one of any size.
UseDefaultLogger ==
  /\ loop = "none"
  /\ loop' = "select" /\ timer' = TRUE /\ over' \in BOOLEAN
  /\ UNCHANGED <<ctxDone, buff, call, taken, printed, exited>>

-----------------------------------------------------------------------------
(* Callers.                                                                *)

\* A call of a level that is not enabled returns, and before SetLogger every call does.
Log(l) ==
  /\ call[l] = "none"
  /\ \/ call' = [call EXCEPT ![l] = "done"]
     \/ loop # "none" /\ \E k \in {"send", "sendFatal"} : call' = [call EXCEPT ![l] = k]
  /\ UNCHANGED <<loop, ctxDone, timer, over, buff, taken, printed, exited>>

\* me.buff <- ..., which blocks while the channel is full; Fatal sleeps after it.
Put(l) ==
  /\ call[l] \in {"send", "sendFatal"} /\ Len(buff) < BuffSize
  /\ buff' = Append(buff, l) /\ taken' = Append(taken, l)
  /\ call' = [call EXCEPT ![l] = IF @ = "sendFatal" THEN "sleep" ELSE "done"]
  /\ UNCHANGED <<loop, ctxDone, timer, over, printed, exited>>

\* os.Exit after the sleep, whether or not the line was printed meanwhile.
Exit(l) ==
  /\ call[l] = "sleep"
  /\ exited' = TRUE
  /\ UNCHANGED <<loop, ctxDone, timer, over, buff, call, taken, printed>>

-----------------------------------------------------------------------------
(* The goroutine of Start.                                                 *)

\* case str := <-me.buff, of the loop and of the drain.
PrintLine ==
  /\ loop \in {"select", "drain"} /\ buff # <<>>
  /\ printed' = Append(printed, Head(buff)) /\ buff' = Tail(buff)
  /\ over' \in {over, TRUE}
  /\ UNCHANGED <<loop, ctxDone, timer, call, taken, exited>>

\* case <-timer.C: the file is left as it is or rotated, and the timer set again; when
\* the size cannot be read or the rotation fails, the timer is not set again.
CheckSize ==
  /\ loop = "select" /\ timer
  /\ \/ over' = FALSE /\ UNCHANGED timer
     \/ timer' = FALSE /\ UNCHANGED over
  /\ UNCHANGED <<loop, ctxDone, buff, call, taken, printed, exited>>

\* The context given to UseDefaultLogger ends.
CtxEnd ==
  /\ loop # "none" /\ ~ctxDone
  /\ ctxDone' = TRUE
  /\ UNCHANGED <<loop, timer, over, buff, call, taken, printed, exited>>

\* Mutant of Quit: return at once.
QuitMut ==
  /\ loop = "select" /\ ctxDone
  /\ loop' = "ended"
  /\ UNCHANGED <<ctxDone, timer, over, buff, call, taken, printed, exited>>

\* case <-ctx.Done()
Quit ==
  /\ loop = "select" /\ ctxDone
  /\ loop' = "drain"
  /\ UNCHANGED <<ctxDone, timer, over, buff, call, taken, printed, exited>>

\* The drain finds the channel empty: return, and Close of the file.
DrainEnd ==
  /\ loop = "drain" /\ buff = <<>>
  /\ loop' = "ended"
  /\ UNCHANGED <<ctxDone, timer, over, buff, call, taken, printed, exited>>

-----------------------------------------------------------------------------
\* A process that has exited takes no step.
LogNext ==
  /\ ~exited
  /\ \/ UseDefaultLogger \/ CtxEnd
     \/ \E l \in Lines : Log(l) \/ Put(l) \/ Exit(l)
     \/ PrintLine \/ CheckSize \/ Quit \/ DrainEnd

\* The goroutine runs, a blocked sender gets the room there is, and the sleep of Fatal
\* ends.  Lines do not keep the timer waiting for ever nor the timer, which is set for
\* 30 seconds, the lines: select chooses at random among what is ready.
LogFairness ==
  /\ \A l \in Lines : WF_logVars(~exited /\ Put(l)) /\ WF_logVars(~exited /\ Exit(l))
  /\ WF_logVars(~exited /\ PrintLine) /\ WF_logVars(~exited /\ CheckSize)
  /\ WF_logVars(~exited /\ Quit) /\ WF_logVars(~exited /\ DrainEnd)

LogSpec == LogInit /\ [][LogNext]_logVars /\ LogFairness

-----------------------------------------------------------------------------
(* What the logger promises.                                               *)

\* A line accepted while the goroutine runs, its drain included.
Owed(l) == loop # "ended" /\ \E i \in 1..Len(buff) : buff[i] = l

\* Nobody takes from the channel any more, and it is full.
Stuck == loop = "ended" /\ Len(buff) = BuffSize

\* Lines are printed once and in the order in which the channel took them, and each one
\* taken before the goroutine returns is printed, also when the context has ended: only
\* the exit of Fatal loses lines (mlog/default.go 63-81, 180-181).  A call blocks for good
\* only on the full channel of a goroutine that has returned (line 74).  A file that is
\* too large is rotated as long as no rotation has failed: none follows a failed one,
\* which leaves the timer unset (lines 82-99).
LoggerServes ==
  /\ [](taken = printed \o buff)
  /\ \A l \in Lines :
       /\ Owed(l) ~> (exited \/ \E i \in 1..Len(printed) : printed[i] = l)
       /\ (call[l] \in {"send", "sendFatal"}) ~>
            (exited \/ call[l] \in {"sleep", "done"} \/ Stuck)
  /\ (loop = "select" /\ over) ~> (exited \/ ~over \/ ~timer \/ loop # "select")

=============================================================================
