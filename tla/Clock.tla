-------------------------------- MODULE Clock --------------------------------
(***************************************************************************)
(* The hierarchical timing wheel of clock/clock.go and the timer lists of  *)
(* clock/timer.go.  Everything here runs in the goroutine of Clock.run, one *)
(* case of its select at a time: a task pushed by NewTimer, CancelTimer or *)
(* UpdateTimer, or a tick that catches up with the wall clock.  How tasks  *)
(* get there is module ClockTasks; what the wheel promises, module Timers. *)
(***************************************************************************)
EXTENDS Integers, Sequences, SequencesExt

CONSTANTS
  LevelSlots,   \* _LEVEL_SLOTS, lowest level first (code: 1024, 256, 64, 64)
  SI,           \* _SI, milliseconds per tick (code: 20)
  MaxTimers,    \* bound on genId
  Whens,        \* due times the application asks for
  Start,        \* wall clock when run starts
  Nows,         \* later readings of the wall clock: it may be set back or forward
  ReceiverCap   \* capacity of the receiver channel

ASSUME ClockAssumption ==
  /\ LevelSlots \in Seq(Nat) /\ LevelSlots # <<>>
  /\ \A l \in DOMAIN LevelSlots : LevelSlots[l] > 1
  /\ SI \in Nat \ {0} /\ MaxTimers \in Nat /\ ReceiverCap \in Nat
  /\ Whens \subseteq Nat /\ Nows \subseteq Nat /\ Start \in Nat

Top    == Len(LevelSlots) - 1
Levels == 0..Top
Slots(l) == LevelSlots[l + 1]

\* _LEVEL_TICKS: ticks in one turn of level l.
LevelTicks[l \in Levels] == IF l = 0 THEN Slots(0) ELSE Slots(l) * LevelTicks[l - 1]

\* 1 << _LEVEL_DIVIS[l]: ticks in one slot of level l.
SlotTicks(l) == IF l = 0 THEN 1 ELSE LevelTicks[l - 1]

Ids == 1..MaxTimers

VARIABLES
  genId,      \* ids given out
  lastTime,   \* the wheel has caught up with this time
  nowMs,      \* the wall clock as run last read it
  slot,       \* per level: its pointer
  tw,         \* per level and slot: the timers in its list
  locs,       \* the timers in the map locs
  when,       \* per timer: when it is due
  batch,      \* the timers with a batch channel, the others have a receiver
  room,       \* free places of the receiver channel
  fired,      \* per timer: promises delivered
  cancelled,  \* timers CancelTimer removed
  spinning    \* run is in an endless PopRange

vars == <<genId, lastTime, nowMs, slot, tw, locs, when, batch, room, fired, cancelled, spinning>>

TypeOK ==
  /\ genId \in 0..MaxTimers /\ lastTime \in Int /\ nowMs \in Nat
  /\ DOMAIN slot = Levels /\ \A l \in Levels : slot[l] \in 0..(Slots(l) - 1)
  /\ DOMAIN tw = Levels
  /\ \A l \in Levels : tw[l] \in [0..(Slots(l) - 1) -> Seq(1..genId)]
  /\ locs \subseteq Ids /\ when \in [Ids -> Nat] /\ batch \subseteq Ids
  /\ room \in 0..ReceiverCap /\ fired \in [Ids -> Nat]
  /\ cancelled \subseteq Ids /\ spinning \in BOOLEAN

\* NewClock, and run up to its loop.
Init ==
  /\ genId = 0 /\ lastTime = Start /\ nowMs = Start
  /\ slot = [l \in Levels |-> 0]
  /\ tw = [l \in Levels |-> [s \in 0..(Slots(l) - 1) |-> <<>>]]
  /\ locs = {} /\ when = [i \in Ids |-> 0] /\ batch = {}
  /\ room = ReceiverCap /\ fired = [i \in Ids |-> 0]
  /\ cancelled = {} /\ spinning = FALSE

-----------------------------------------------------------------------------
(* Where a timer goes.                                                     *)

\* Ticks from base to a due time, rounded up, at least one.
TicksTo(w, base) ==
  LET t == (w - base + SI - 1) \div SI IN IF t <= 0 THEN 1 ELSE t

\* The lowest level whose turn is longer than t ticks, else the top one.
LevelOf(t) ==
  IF \E l \in Levels : t < LevelTicks[l]
  THEN CHOOSE l \in Levels : t < LevelTicks[l] /\ \A k \in 0..(l - 1) : t >= LevelTicks[k]
  ELSE Top

\* Mutant of SlotOf: one slot further on the levels above the lowest.
SlotOfMut(t, sl) ==
  LET l == LevelOf(t) IN
  IF t < LevelTicks[Top]
  THEN (t \div SlotTicks(l) + sl[l] + (IF l > 0 THEN 1 ELSE 0)) % Slots(l)
  ELSE Slots(Top) - 1

\* Its slot there, counted from the pointers sl; a timer beyond one turn of the top
\* level goes into the last slot of that level.
SlotOf(t, sl) ==
  LET l == LevelOf(t) IN
  IF t < LevelTicks[Top] THEN (t \div SlotTicks(l) + sl[l]) % Slots(l) ELSE Slots(Top) - 1

\* addTimer and the placement in tick: the wheel w with timer i due at d in it.
Put(w, i, d, base, sl) ==
  LET t == TicksTo(d, base) IN [w EXCEPT ![LevelOf(t)][SlotOf(t, sl)] = Append(@, i)]

\* removeFromList
Without(w, i) ==
  [l \in Levels |-> [s \in DOMAIN w[l] |-> SelectSeq(w[l][s], LAMBDA j : j # i)]]

-----------------------------------------------------------------------------
(* The tasks.                                                              *)

NewTimer(w, b) ==
  LET i == genId + 1 IN
  /\ genId < MaxTimers
  /\ genId' = i
  /\ when' = [when EXCEPT ![i] = w]
  /\ batch' = IF b THEN batch \cup {i} ELSE batch
  /\ tw' = Put(tw, i, w, lastTime, slot)
  /\ locs' = locs \cup {i}
  /\ UNCHANGED <<lastTime, nowMs, slot, room, fired, cancelled, spinning>>

\* Mutant of CancelTimer: the map forgets the timer and the list keeps it.
CancelTimerMut(i) ==
  /\ i \in locs
  /\ locs' = locs \ {i}
  /\ cancelled' = cancelled \cup {i}
  /\ UNCHANGED <<genId, lastTime, nowMs, slot, tw, when, batch, room, fired, spinning>>

\* delTimer; an id that is not in locs is refused: no step.
CancelTimer(i) ==
  /\ i \in locs
  /\ tw' = Without(tw, i)
  /\ locs' = locs \ {i}
  /\ cancelled' = cancelled \cup {i}
  /\ UNCHANGED <<genId, lastTime, nowMs, slot, when, batch, room, fired, spinning>>

UpdateTimer(i, w) ==
  /\ i \in locs
  /\ when' = [when EXCEPT ![i] = w]
  /\ tw' = Put(Without(tw, i), i, w, lastTime, slot)
  /\ UNCHANGED <<genId, lastTime, nowMs, slot, locs, batch, room, fired, cancelled, spinning>>

-----------------------------------------------------------------------------
(* A tick.  st is a record of the variables it changes; last is lastTime   *)
(* after the whole catching up, as the code has it during each of its ticks.*)

Fire(st, i) == [st EXCEPT !.fired[i] = @ + 1, !.locs = @ \ {i}]

Due(i, now) == when[i] <= now

HasRoom(st) == st.room > 0

\* Mutant of TriggerOne: a promise its receiver has no room for is gone.
TriggerOneMut(st, i, now, last) ==
  IF ~Due(i, now) THEN [st EXCEPT !.tw = Put(@, i, when[i], last, st.slot)]
  ELSE IF i \in batch THEN Fire(st, i)
  ELSE IF HasRoom(st) THEN [Fire(st, i) EXCEPT !.room = @ - 1]
  ELSE [st EXCEPT !.locs = @ \ {i}]

\* One timer of the list trigger empties: a batch promise is kept for the send
\* after the list, a receiver that is full gets another try on the next tick, a
\* timer not due after all goes back into the wheel.
TriggerOne(st, i, now, last) ==
  IF ~Due(i, now) THEN [st EXCEPT !.tw = Put(@, i, when[i], last, st.slot)]
  ELSE IF i \in batch THEN Fire(st, i)
  ELSE IF HasRoom(st) THEN [Fire(st, i) EXCEPT !.room = @ - 1]
  ELSE [st EXCEPT !.tw[0][(st.slot[0] + 1) % Slots(0)] = Append(@, i)]

\* PopRange of the list at level l under the pointer: its timers are taken out, and
\* the callback, applied to one after the other, may append to that very list.  Then
\* the timer comes up again, to be put back again: the list is never empty.
Current(st, l) == st.tw[l][st.slot[l]]

Popped(st, l) == [st EXCEPT !.tw[l][st.slot[l]] = <<>>]

PopRange(st, l) == [st EXCEPT !.spinning = @ \/ Current(st, l) # <<>>]

Advance(st, l) == [st EXCEPT !.slot[l] = (@ + 1) % Slots(l)]

Trigger(st, now, last) ==
  LET adv == Advance(st, 0)
  IN  PopRange(FoldLeft(LAMBDA a, i : TriggerOne(a, i, now, last), Popped(adv, 0), Current(adv, 0)), 0)

\* Each timer of the list at level l goes to the list its remaining ticks give, counted
\* from the pointers ptr.
Replaced(st, l, tk, ptr) ==
  PopRange(FoldLeft(LAMBDA a, i : [a EXCEPT !.tw = Put(@, i, when[i], tk, ptr)],
                    Popped(st, l), Current(st, l)), l)

\* Mutant of Cascade: timers are placed by the pointers of before the turn.
CascadeMut(st, l, tk) ==
  IF \E k \in 0..(l - 1) : st.slot[k] # 0 THEN st
  ELSE Replaced(Advance(st, l), l, tk, st.slot)

\* Level l turns when all below it have come round.
Cascade(st, l, tk) ==
  IF \E k \in 0..(l - 1) : st.slot[k] # 0 THEN st
  ELSE LET adv == Advance(st, l) IN Replaced(adv, l, tk, adv.slot)

\* tick(nowMs, tkTime)
TickOnce(st, now, tk, last) ==
  FoldLeft(LAMBDA a, l : Cascade(a, l, tk), Trigger(st, now, last), [l \in 1..Top |-> l])

\* Go's integer division rounds towards zero.
Quo(a, b) == IF a >= 0 THEN a \div b ELSE -((-a) \div b)

\* case <-tickTimer.C: as many ticks as the wall clock is ahead, none if it was set back.
RunTicks(now) ==
  LET n    == Quo(now - lastTime, SI)
      last == lastTime + SI * n
      st0  == [slot |-> slot, tw |-> tw, locs |-> locs, fired |-> fired, room |-> room,
               spinning |-> FALSE]
      st   == FoldLeft(LAMBDA a, k : TickOnce(a, now, lastTime + SI * k, last),
                       st0, [k \in 1..n |-> k])
  IN  /\ nowMs' = now /\ lastTime' = last
      /\ slot' = st.slot /\ tw' = st.tw /\ locs' = st.locs /\ fired' = st.fired
      /\ room' = st.room /\ spinning' = st.spinning
      /\ UNCHANGED <<genId, when, batch, cancelled>>

\* The application takes a promise from its receiver channel.
Receive ==
  /\ room < ReceiverCap
  /\ room' = room + 1
  /\ UNCHANGED <<genId, lastTime, nowMs, slot, tw, locs, when, batch, fired, cancelled, spinning>>

Next ==
  /\ ~spinning
  /\ \/ \E w \in Whens, b \in BOOLEAN : NewTimer(w, b)
     \/ \E i \in Ids : CancelTimer(i)
     \/ \E i \in Ids, w \in Whens : UpdateTimer(i, w)
     \/ \E now \in Nows : RunTicks(now)
     \/ Receive

Spec == Init /\ [][Next]_vars

-----------------------------------------------------------------------------
(* What the wheel promises.                                                *)

Count(i, s) == Len(SelectSeq(s, LAMBDA j : j = i))

\* The lists of the wheel and the map locs agree: a timer in locs is in exactly one
\* list, once, and every timer in a list is in locs, so CancelTimer and UpdateTimer
\* find exactly the timers that can still fire (clock/clock.go 115-143).
WheelMatchesLocs ==
  \A i \in Ids :
    LET places == {p \in UNION {{<<l, s>> : s \in DOMAIN tw[l]} : l \in Levels} :
                     Count(i, tw[p[1]][p[2]]) > 0}
    IN  IF i \in locs
        THEN \E p \in places : places = {p} /\ Count(i, tw[p[1]][p[2]]) = 1
        ELSE places = {}

\* Ticks until the pointer of level l next comes to slot s and its list is emptied.
Eta(l, s) ==
  LET turn  == SlotTicks(l)
      done  == IF l = 0 THEN 0
               ELSE FoldLeft(LAMBDA a, k : a + slot[k - 1] * SlotTicks(k - 1), 0, [k \in 1..l |-> k])
      steps == (s - slot[l] - 1) % Slots(l)
  IN  (turn - done) + steps * turn

\* No timer is late: the wheel looks at every waiting timer by the tick it is due, or
\* on the next tick if that has passed, through all cascades, updates and changes of
\* the wall clock, while run runs (clock/clock.go 95-113, 181-247).
NeverLate ==
  ~spinning => \A l \in Levels : \A s \in DOMAIN tw[l] : \A i \in Range(tw[l][s]) :
    Eta(l, s) <= TicksTo(when[i], lastTime)

\* The wheel implements the timers its callers know of: a cancelled timer never fires, a
\* full receiver, an update and a cascade lose or double nothing, and no timer is delivered
\* early, also when the wall clock was set back and the wheel is ahead of it
\* (clock/clock.go 115-219, 234).
Abstract == INSTANCE Timers WITH pending <- locs, now <- nowMs

ImplementsTimers == Abstract!Spec

\* The tick comes to an end: a cascade moves timers on ("加入到下一层", to a lower level,
\* clock/clock.go 200) and leaves the list under the pointer empty.  Only a timer that is
\* a full turn of the top level away, or more, goes back into the list being emptied.
SpinsOnlyFar ==
  [][spinning' => \E i \in locs : TicksTo(when[i], lastTime + SI) >= LevelTicks[Top]]_vars

=============================================================================
