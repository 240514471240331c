-------------------------------- MODULE Timers --------------------------------
(***************************************************************************)
(* What the clock promises to those who call NewTimer, CancelTimer and     *)
(* UpdateTimer (clock/clock.go 63-93), without a wheel: a set of timers    *)
(* that wait, each of which is cancelled or delivered once it is due.      *)
(* The wheel of module Clock implements it.                                *)
(***************************************************************************)
EXTENDS Naturals

CONSTANTS
  Ids,      \* ids of timers
  Whens,    \* due times asked for
  Nows      \* readings of the wall clock, which may be set back or forward

VARIABLES
  genId,      \* ids given out: 1..genId
  pending,    \* timers that wait
  when,       \* per timer: when it is due
  now,        \* the wall clock as it was last read
  fired,      \* per timer: promises delivered
  cancelled   \* timers that were cancelled

vars == <<genId, pending, when, now, fired, cancelled>>

TypeOK ==
  /\ genId \in Nat /\ pending \subseteq Ids /\ cancelled \subseteq Ids
  /\ when \in [Ids -> Nat] /\ fired \in [Ids -> Nat] /\ now \in Nat

Init ==
  /\ genId = 0 /\ pending = {} /\ cancelled = {} /\ now \in Nat
  /\ when = [i \in Ids |-> 0] /\ fired = [i \in Ids |-> 0]

NewTimer(w) ==
  /\ genId + 1 \in Ids
  /\ genId' = genId + 1
  /\ pending' = pending \cup {genId'} /\ when' = [when EXCEPT ![genId'] = w]
  /\ UNCHANGED <<now, fired, cancelled>>

\* A timer that does not wait any more can be neither cancelled nor updated.
CancelTimer(i) ==
  /\ i \in pending
  /\ pending' = pending \ {i} /\ cancelled' = cancelled \cup {i}
  /\ UNCHANGED <<genId, when, now, fired>>

UpdateTimer(i, w) ==
  /\ i \in pending
  /\ when' = [when EXCEPT ![i] = w]
  /\ UNCHANGED <<genId, pending, now, fired, cancelled>>

\* Some timers that are due are delivered; others may wait for room in their channel.
Deliver(t) ==
  \E due \in SUBSET {i \in pending : when[i] <= t} :
    /\ now' = t
    /\ pending' = pending \ due
    /\ fired' = [i \in Ids |-> IF i \in due THEN fired[i] + 1 ELSE fired[i]]
    /\ UNCHANGED <<genId, when, cancelled>>

Next ==
  \/ \E w \in Whens : NewTimer(w) \/ \E i \in Ids : UpdateTimer(i, w)
  \/ \E i \in Ids : CancelTimer(i)
  \/ \E t \in Nows : Deliver(t)

Spec == Init /\ [][Next]_vars

-----------------------------------------------------------------------------
\* Every timer ends exactly once: it waits, or was delivered once, or was cancelled
\* (clock/clock.go 124-143, 145-179).
EndsOnce ==
  \A i \in Ids :
    /\ i \in pending \cup cancelled => i \in 1..genId
    /\ fired[i] = IF i \in 1..genId /\ i \notin pending \cup cancelled THEN 1 ELSE 0
    /\ ~(i \in pending /\ i \in cancelled)

\* A timer is delivered only at or after its due time, also when the wall clock is set
\* back and forth between its readings (clock/clock.go 155, 234).
NeverEarly ==
  [][\A i \in Ids : fired'[i] # fired[i] => when[i] <= now']_vars

=============================================================================
