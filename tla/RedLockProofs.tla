--------------------------- MODULE RedLockProofs ---------------------------
(* Why the Redis lock is exclusive for any clients, expiry and interval.     *)
EXTENDS RedLock, TLAPS

\* The key lasts exactly as long as the lock granted with it.
LeaseIsKey == \A c \in Clients : lease[c] > 0 => owner = c /\ ttl = lease[c]

IInv == TypeOK /\ LeaseIsKey

LEMMA TriesNat == LockTries \in Nat
  <1>1. Expiry \div Interval \in Nat
    BY RedLockAssumption
  <1> QED BY <1>1 DEF LockTries

\* SETNX finds no key, so no client has a lock, and the key starts with the lock.
LEMMA SetNXKeeps ==
    ASSUME NEW c \in Clients, NEW told \in BOOLEAN, IInv, SetNX(c, told)
    PROVE  /\ owner' = c /\ ttl' \in 0..Expiry
           /\ lease' \in [Clients -> 0..Expiry]
           /\ taken' \in [Clients -> BOOLEAN]
           /\ LeaseIsKey'
  <1> USE RedLockAssumption DEF IInv, TypeOK, LeaseIsKey
  <1>1. \A d \in Clients : lease[d] = 0
    BY DEF SetNX, Free
  <1>2. owner' = c /\ ttl' = Expiry
    BY DEF SetNX
  <1>3. lease' = [lease EXCEPT ![c] = Expiry] \/ lease' = lease
    BY DEF SetNX
  <1>4. taken' \in [Clients -> BOOLEAN]
    <2>1. taken' = [d \in Clients |-> IF d = c THEN taken[d] ELSE TRUE]
      BY DEF SetNX
    <2>2. \A d \in Clients : taken[d] \in BOOLEAN
      BY Zenon
    <2> QED BY <2>1, <2>2, Zenon
  <1>5. lease' \in [Clients -> 0..Expiry] /\ LeaseIsKey'
    BY <1>1, <1>2, <1>3
  <1> QED BY <1>2, <1>4, <1>5

\* Every step of a client, of redis or of time preserves the invariant.
LEMMA StepKeeps == IInv /\ [Next]_vars => IInv'
  <1> USE RedLockAssumption, TriesNat DEF IInv, TypeOK, LeaseIsKey, lockVars
  <1> SUFFICES ASSUME IInv, [Next]_vars PROVE IInv'
    OBVIOUS
  <1>1. ASSUME NEW c \in Clients, LockBegin(c) PROVE IInv'
    BY <1>1 DEF LockBegin
  <1>2. ASSUME NEW c \in Clients, LockTry(c) PROVE IInv'
    <2>1. CASE NoEffect /\ pc' = [pc EXCEPT ![c] = "idle"] /\ UNCHANGED <<tries, sleep>>
      BY <2>1 DEF NoEffect
    <2>2. CASE /\ NoEffect /\ UNCHANGED pc
               /\ tries' = [tries EXCEPT ![c] = @ - 1] /\ tries[c] > 0
               /\ sleep' = [sleep EXCEPT ![c] = Interval]
      BY <2>2 DEF NoEffect
    <2>3. ASSUME NEW told \in BOOLEAN, SetNX(c, told),
                 pc' = [pc EXCEPT ![c] = "idle"], UNCHANGED <<tries, sleep>>
          PROVE IInv'
      BY <2>3, SetNXKeeps
    <2> QED BY <1>2, <2>1, <2>2, <2>3 DEF LockTry, MoreTries
  <1>3. ASSUME NEW c \in Clients, LockFail(c) PROVE IInv'
    BY <1>3 DEF LockFail
  <1>4. ASSUME NEW c \in Clients, LockFailSeen(c) PROVE IInv'
    BY <1>4 DEF LockFailSeen
  <1>5. ASSUME NEW c \in Clients, TryLock(c) PROVE IInv'
    <2>1. PICK told \in BOOLEAN : SetNX(c, told)
      BY <1>5 DEF TryLock
    <2>2. UNCHANGED <<pc, tries, sleep>>
      BY <1>5 DEF TryLock
    <2> QED BY <2>1, <2>2, SetNXKeeps
  <1>6. ASSUME NEW c \in Clients, UnLock(c) PROVE IInv'
    BY <1>6 DEF UnLock, MayDelete
  <1>7. CASE Tick
    BY <1>7 DEF Tick, Less
  <1>8. CASE UNCHANGED vars
    BY <1>8 DEF vars
  <1> QED BY <1>1, <1>2, <1>3, <1>4, <1>5, <1>6, <1>7, <1>8 DEF Next

\* The invariant holds of every reachable state.
THEOREM Inductive == Spec => []IInv
  <1>1. Init => IInv
    BY RedLockAssumption, TriesNat DEF Init, IInv, TypeOK, LeaseIsKey
  <1> QED BY <1>1, StepKeeps, PTL DEF Spec

\* The variables keep their types.
THEOREM TypeCorrect == Spec => []TypeOK
  BY Inductive, PTL DEF IInv

\* At most one client is within the time of a lock it was granted (Lock, TryLock
\* and UnLock together).
THEOREM MutualExclusion == Spec => []Exclusive
  <1>1. IInv => Exclusive
    BY DEF IInv, TypeOK, LeaseIsKey, Exclusive
  <1> QED BY <1>1, Inductive, PTL
=============================================================================
