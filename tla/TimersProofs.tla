---------------------------- MODULE TimersProofs ----------------------------
(* Why a timer ends once and never early, for any ids, due times and readings *)
(* of the wall clock.                                                         *)
EXTENDS Timers, TLAPS

\* Every action keeps the types and the one end of each timer; that ids are given out in
\* order is what tells a new timer from one that has ended.
LEMMA StepKeeps ==
    ASSUME Ids \subseteq Nat, Whens \subseteq Nat, Nows \subseteq Nat
    PROVE  TypeOK /\ EndsOnce /\ [Next]_vars => (TypeOK /\ EndsOnce)'
  <1> SUFFICES ASSUME TypeOK, EndsOnce, [Next]_vars PROVE (TypeOK /\ EndsOnce)'
    OBVIOUS
  <1> USE DEF TypeOK, EndsOnce
  <1>1. ASSUME NEW w \in Whens, NewTimer(w) PROVE (TypeOK /\ EndsOnce)'
    <2>1. genId' = genId + 1 /\ genId' \in Ids /\ genId' \notin pending \cup cancelled
      BY <1>1 DEF NewTimer
    <2>2. fired[genId'] = 0
      BY <2>1
    <2> QED BY <1>1, <2>1, <2>2 DEF NewTimer
  <1>2. ASSUME NEW w \in Whens, NEW i \in Ids, UpdateTimer(i, w) PROVE (TypeOK /\ EndsOnce)'
    BY <1>2 DEF UpdateTimer
  <1>3. ASSUME NEW i \in Ids, CancelTimer(i) PROVE (TypeOK /\ EndsOnce)'
    BY <1>3 DEF CancelTimer
  <1>4. ASSUME NEW t \in Nows, Deliver(t) PROVE (TypeOK /\ EndsOnce)'
    <2>1. PICK due \in SUBSET {i \in pending : when[i] <= t} :
            /\ now' = t /\ pending' = pending \ due
            /\ fired' = [i \in Ids |-> IF i \in due THEN fired[i] + 1 ELSE fired[i]]
            /\ UNCHANGED <<genId, when, cancelled>>
      BY <1>4 DEF Deliver
    <2>2. \A i \in due : i \in Ids /\ i \in 1..genId /\ fired[i] = 0 /\ i \notin cancelled
      <3> SUFFICES ASSUME NEW i \in due
                   PROVE  i \in Ids /\ i \in 1..genId /\ fired[i] = 0 /\ i \notin cancelled
        OBVIOUS
      <3>1. i \in pending /\ i \in Ids /\ i \in 1..genId
        BY <2>1
      <3>2. fired[i] = 0 /\ i \notin cancelled
        BY <3>1
      <3> QED BY <3>1, <3>2
    <2> QED BY <2>1, <2>2
  <1>5. CASE UNCHANGED vars
    BY <1>5 DEF vars
  <1> QED BY <1>1, <1>2, <1>3, <1>4, <1>5 DEF Next

\* Ids given out are waiting, delivered once or cancelled (clock/clock.go 63-93, 124-179).
THEOREM EveryTimerEndsOnce ==
    ASSUME Ids \subseteq Nat, Whens \subseteq Nat, Nows \subseteq Nat
    PROVE  Spec => []EndsOnce
  <1>1. Init => TypeOK /\ EndsOnce
    BY DEF Init, TypeOK, EndsOnce
  <1> QED BY <1>1, StepKeeps, PTL DEF Spec

\* No promise is delivered before its time (clock/clock.go 155, 234).
THEOREM NoTimerIsEarly ==
    ASSUME Ids \subseteq Nat, Whens \subseteq Nat, Nows \subseteq Nat
    PROVE  Spec => NeverEarly
  <1>1. Init => TypeOK
    BY DEF Init, TypeOK
  <1>2. TypeOK /\ [Next]_vars => TypeOK'
    <2> SUFFICES ASSUME TypeOK, [Next]_vars PROVE TypeOK'
      OBVIOUS
    <2> USE DEF TypeOK
    <2>1. ASSUME NEW w \in Whens, NewTimer(w) PROVE TypeOK'
      BY <2>1 DEF NewTimer
    <2>2. ASSUME NEW w \in Whens, NEW i \in Ids, UpdateTimer(i, w) PROVE TypeOK'
      BY <2>2 DEF UpdateTimer
    <2>3. ASSUME NEW i \in Ids, CancelTimer(i) PROVE TypeOK'
      BY <2>3 DEF CancelTimer
    <2>4. ASSUME NEW t \in Nows, Deliver(t) PROVE TypeOK'
      BY <2>4 DEF Deliver
    <2> QED BY <2>1, <2>2, <2>3, <2>4 DEF Next, vars
  <1>3. TypeOK /\ [Next]_vars => [\A i \in Ids : fired'[i] # fired[i] => when[i] <= now']_vars
    <2> SUFFICES ASSUME TypeOK, Next, NEW i \in Ids, fired'[i] # fired[i]
                 PROVE  when[i] <= now'
      OBVIOUS
    <2>1. PICK t \in Nows : Deliver(t)
      BY DEF Next, NewTimer, UpdateTimer, CancelTimer
    <2>2. PICK due \in SUBSET {j \in pending : when[j] <= t} :
            /\ now' = t
            /\ fired' = [j \in Ids |-> IF j \in due THEN fired[j] + 1 ELSE fired[j]]
      BY <2>1 DEF Deliver
    <2>3. i \in due
      BY <2>2
    <2> QED BY <2>2, <2>3
  <1> QED BY <1>1, <1>2, <1>3, PTL DEF Spec, NeverEarly
=============================================================================
