------------------------------ MODULE RedLock ------------------------------
(***************************************************************************)
(* The Redis lock (src/lock/redlock.go): SETNX with an expiry, a Lock that  *)
(* tries again for as long as the expiry, and an UnLock by a script that   *)
(* compares and deletes.  One key; a client stands for its unique entity.  *)
(* Redis may fail a command before or after it took effect.                *)
(***************************************************************************)
EXTENDS Naturals

CONSTANTS Clients,
          Expiry,      \* expiry of the lock, in units of time
          Interval,    \* checkInterval
          None         \* no owner

ASSUME RedLockAssumption ==
    /\ Expiry \in Nat \ {0} /\ Interval \in Nat \ {0}
    /\ None \notin Clients

VARIABLES
    owner,    \* the entity the key holds, None when there is no key
    ttl,      \* time left until redis removes the key
    lease,    \* per client, what is left of the lock it was granted and not released
    pc,       \* per client: "idle", "lock" (inside Lock), "failed" (ErrFailedLock)
    tries,    \* iterations of Lock's loop that are left
    sleep,    \* what is left of time.Sleep(checkInterval)
    taken     \* the lock was taken since the client's Lock began

vars == <<owner, ttl, lease, pc, tries, sleep, taken>>
lockVars == <<pc, tries, sleep>>

Init ==
    /\ owner = None /\ ttl = 0
    /\ lease = [c \in Clients |-> 0]
    /\ pc = [c \in Clients |-> "idle"]
    /\ tries = [c \in Clients |-> 0] /\ sleep = [c \in Clients |-> 0]
    /\ taken = [c \in Clients |-> FALSE]

\* SETNX sets the key only when there is none.
Free == owner = None

\* SETNX takes effect; told is whether the client gets the answer.
SetNX(c, told) ==
    /\ Free
    /\ owner' = c /\ ttl' = Expiry
    /\ lease' = IF told THEN [lease EXCEPT ![c] = Expiry] ELSE lease
    /\ taken' = [d \in Clients |-> IF d = c THEN taken[d] ELSE TRUE]

\* SETNX has no effect, because of the key or of an error on the way.
NoEffect == UNCHANGED <<owner, ttl, lease, taken>>

-----------------------------------------------------------------------------
\* Mutant of LockTries: the last try is missing.
LockTriesMut == Expiry \div Interval

\* lockTries of Lock.
LockTries == (Expiry \div Interval) + 1

\* Lock begins; the first iteration does not sleep.
LockBegin(c) ==
    /\ pc[c] = "idle" /\ lease[c] = 0
    /\ pc' = [pc EXCEPT ![c] = "lock"]
    /\ tries' = [tries EXCEPT ![c] = LockTries]
    /\ sleep' = [sleep EXCEPT ![c] = 0]
    /\ taken' = [taken EXCEPT ![c] = FALSE]
    /\ UNCHANGED <<owner, ttl, lease>>

\* The loop condition of Lock.
MoreTries(c) == tries[c] > 0

\* An iteration of Lock's loop after its sleep: granted, failed with an error
\* before or after the effect, or refused and on to the next iteration.
LockTry(c) ==
    /\ pc[c] = "lock" /\ MoreTries(c) /\ sleep[c] = 0
    /\ \/ /\ \E told \in BOOLEAN : SetNX(c, told)
          /\ pc' = [pc EXCEPT ![c] = "idle"]
          /\ UNCHANGED <<tries, sleep>>
       \/ /\ NoEffect
          /\ pc' = [pc EXCEPT ![c] = "idle"]
          /\ UNCHANGED <<tries, sleep>>
       \/ /\ ~Free /\ NoEffect
          /\ tries' = [tries EXCEPT ![c] = @ - 1]
          /\ sleep' = [sleep EXCEPT ![c] = Interval]
          /\ UNCHANGED pc

\* The loop ends: ErrFailedLock.
LockFail(c) ==
    /\ pc[c] = "lock" /\ ~MoreTries(c)
    /\ pc' = [pc EXCEPT ![c] = "failed"]
    /\ UNCHANGED <<owner, ttl, lease, tries, sleep, taken>>

\* The caller of Lock has seen ErrFailedLock.
LockFailSeen(c) ==
    /\ pc[c] = "failed"
    /\ pc' = [pc EXCEPT ![c] = "idle"]
    /\ UNCHANGED <<owner, ttl, lease, tries, sleep, taken>>

\* TryLock: one SETNX.
TryLock(c) ==
    /\ pc[c] = "idle" /\ lease[c] = 0
    /\ \E told \in BOOLEAN : SetNX(c, told)
    /\ UNCHANGED lockVars

\* Mutant of MayDelete: the key is deleted without a look at its value.
MayDeleteMut(c) == owner # None

\* The script's comparison.
MayDelete(c) == owner = c

\* UnLock, at any time: also by a client whose lock has expired and may have
\* passed to another one.  lost: the script was not run.
UnLock(c) ==
    /\ pc[c] = "idle"
    /\ lease' = [lease EXCEPT ![c] = 0]
    /\ \E lost \in BOOLEAN :
         IF MayDelete(c) /\ ~lost THEN owner' = None /\ ttl' = 0
                                  ELSE UNCHANGED <<owner, ttl>>
    /\ UNCHANGED <<pc, tries, sleep, taken>>

Less(n) == IF n = 0 THEN 0 ELSE n - 1

\* A unit of time passes; redis removes a key whose time is up.
Tick ==
    /\ ttl' = Less(ttl)
    /\ owner' = IF ttl <= 1 THEN None ELSE owner
    /\ lease' = [c \in Clients |-> Less(lease[c])]
    /\ sleep' = [c \in Clients |-> Less(sleep[c])]
    /\ UNCHANGED <<pc, tries, taken>>

Next ==
    \/ \E c \in Clients : \/ LockBegin(c) \/ LockTry(c) \/ LockFail(c)
                          \/ LockFailSeen(c) \/ TryLock(c) \/ UnLock(c)
    \/ Tick

Spec == Init /\ [][Next]_vars

-----------------------------------------------------------------------------
TypeOK ==
    /\ owner \in Clients \cup {None} /\ ttl \in 0..Expiry
    /\ lease \in [Clients -> 0..Expiry]
    /\ pc \in [Clients -> {"idle", "lock", "failed"}]
    /\ tries \in [Clients -> 0..LockTries] /\ sleep \in [Clients -> 0..Interval]
    /\ taken \in [Clients -> BOOLEAN]

\* At most one client is within the time of a lock it was granted: neither the
\* late UnLock of a client whose lock expired, nor a command of unknown outcome,
\* lets a second one in.
Exclusive ==
    \A c, d \in Clients : lease[c] > 0 /\ lease[d] > 0 => c = d

\* When checkInterval divides expiry, Lock outlasts whoever held the lock when it
\* began, crashed or not: it fails only if another client took the lock meanwhile.
FailMeansTaken ==
    Expiry % Interval = 0 => \A c \in Clients : pc[c] = "failed" => taken[c]
=============================================================================
