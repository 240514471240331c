--------------------------- MODULE RpcClientProofs ---------------------------
(***************************************************************************)
(* Safety of RpcClient for every number of calls, connections and          *)
(* timeouts, every result-channel capacity and every clock bound.          *)
(***************************************************************************)
EXTENDS RpcClient, NaturalsInduction, WellFoundedInduction, SequenceTheorems, TLAPS

-----------------------------------------------------------------------------
(* The inductive invariant.                                                *)

\* The call has not entered waitRsps yet.
Unregistered(s) == pc[s] \in {"idle", "write", "register"}

\* The reader is delivering the reply of s.
Delivering(s) == reply[s] \in {"untrack", "push"}

\* Who owns the right to send the result of s: nobody yet, waitRsps, the reader,
\* or processTimeout; at most one of them, and none once a result was sent.
OwnerInv(s) ==
  /\ Unregistered(s) => s \notin waitRsps /\ s \notin batch /\ ~Delivering(s) /\ results[s] = <<>>
  /\ s \in waitRsps => s \notin batch /\ ~Delivering(s) /\ results[s] = <<>>
  /\ Delivering(s) => s \notin batch /\ results[s] = <<>>
  /\ s \in batch => results[s] = <<>> /\ worker = "send"
  /\ Len(results[s]) <= 1

\* The deadline of a tracked call is set for good, and past once it is expired.
DeadlineInv(s) ==
  /\ Unregistered(s) => s \notin tracked
  /\ s \in tracked \/ pc[s] = "track" => expireAt[s] > 0
  /\ s \in batch \/ results[s] = <<"timeout">> => expireAt[s] > 0 /\ expireAt[s] <= now

\* The channel of a synchronous call is open from its registration until it is
\* out of waitRsps, and is filled by its one reply.
ChanInv(s) ==
  /\ s > genMsgId => pc[s] = "idle"
  /\ Unregistered(s) => syncRet[s] = "nil"
  /\ pc[s] \in {"wait", "unregister"} => syncRet[s] \in {"empty", "full"}
  /\ s \in waitRsps /\ kind[s] = "sync" => pc[s] \in {"wait", "unregister"}
  /\ syncRet[s] = "full" => reply[s] # "sent"

\* The timer covers the tree unless a signal is pending or about to be sent.
WakeInv ==
  worker \in {"select", "send"} /\ ~trig /\ (\A s \in Seqs : pc[s] # "wake")
    => \A e \in keys : timerAt <= e

IInv == WakeInv /\ \A s \in Seqs : OwnerInv(s) /\ DeadlineInv(s) /\ ChanInv(s)

-----------------------------------------------------------------------------
(* timeouts.Left() is the least key: the natural numbers are well ordered. *)

\* The tree of deadlines of rpc/client.go has a leftmost key, and it is the
\* earliest deadline.
LEMMA LeftIsLeast ==
  ASSUME NEW ks, ks \subseteq Nat, ks # {}
  PROVE  Left(ks) \in ks /\ \A b \in ks : Left(ks) <= b
<1>. DEFINE R == {p \in Nat \X Nat : p[1] < p[2]}
<1>1. OpToRel(<, Nat) = R
  BY DEF OpToRel
<1>2. IsWellFoundedOn(R, Nat)
  BY <1>1, NatLessThanWellFounded
<1>3. PICK a \in ks : \A b \in ks : <<b, a>> \notin R
  <2>. HIDE DEF R
  <2>. QED  BY <1>2, WFMin
<1>4. \A b \in ks : a <= b
  <2>. SUFFICES ASSUME NEW b \in ks PROVE a <= b
    OBVIOUS
  <2>1. b \in Nat /\ a \in Nat
    OBVIOUS
  <2>2. b < a => <<b, a>> \in R
    BY <2>1
  <2>3. ~(b < a)
    <3>. HIDE DEF R
    <3>. QED  BY <1>3, <2>2
  <2>. QED  BY <2>1, <2>3
<1>. QED  BY <1>4 DEF Left

\* The first result sent for a call is the only entry of its history, and tells
\* a reply (onRecvMsg) from a timeout (processTimeout).
LEMMA OneResult ==
  /\ <<>> # <<"timeout">>
  /\ Append(<<>>, "reply") # <<"timeout">>
<1>1. Len(<<>>) = 0 /\ Len(<<"timeout">>) = 1
  OBVIOUS
<1>2. Append(<<>>, "reply")[1] = "reply" /\ <<"timeout">>[1] = "timeout"
  OBVIOUS
<1>. QED  BY <1>1, <1>2

-----------------------------------------------------------------------------
(* Type correctness.                                                       *)

\* Every variable of the client keeps its type: in particular AsyncRetChan is
\* never overfilled and no reply goes to a connection that was never made.
THEOREM TypeCorrect == Spec => []TypeOK
<1>1. Init => TypeOK
  <2>1. 1 \in Conns /\ 0 \in 0..MaxSeq /\ 0 \in 0..RetChanCap /\ 0 \in 0..MaxTime
    BY RpcClientAssumption DEF Conns
  <2>2. <<>> \in Seq({"reply", "timeout"})
    OBVIOUS
  <2>. SUFFICES ASSUME Init PROVE TypeOK
    OBVIOUS
  <2>3. results \in [Seqs -> Seq({"reply", "timeout"})]
    BY <2>2 DEF Init
  <2>. QED  BY <2>1, <2>3 DEF Init, TypeOK, Kinds
<1>2. TypeOK /\ [Next]_vars => TypeOK'
  <2>. SUFFICES ASSUME TypeOK, [Next]_vars PROVE TypeOK'
    OBVIOUS
  <2>. USE RpcClientAssumption
       DEF TypeOK, callVars, progVars, waitVars, chanVars, treeVars, workerVars,
           linkVars, envVars, Goto, Return, HandleReply
  <2>1. ASSUME NEW k \in Kinds, NEW t \in Nat, Invoke(k, t) PROVE TypeOK'
    <3>1. genMsgId + 1 \in 0..MaxSeq /\ k \in Kinds /\ t \in Nat
      BY <2>1 DEF Invoke
    <3>. QED  BY <2>1, <3>1 DEF Invoke
  <2>2. ASSUME NEW s \in Seqs, SyncWrite(s) PROVE TypeOK'
    <3>1. /\ closed' \in BOOLEAN /\ conn' \in Conns /\ active' \in BOOLEAN
          /\ reply' \in [Seqs -> {"none", "sent", "untrack", "push", "gone"}]
          /\ via' \in [Seqs -> Conns]
      <4>1. CASE Written(s) /\ UNCHANGED closed
        BY <4>1 DEF Written
      <4>2. CASE UNCHANGED linkVars
        BY <4>2
      <4>. QED  BY <2>2, <4>1, <4>2 DEF SyncWrite
    <3>2. /\ pc' \in [Seqs -> {"idle", "write", "register", "track", "wake",
                               "wait", "unregister", "close", "done"}]
          /\ ret' \in [Seqs -> {"none", "ok", "err", "closed", "reply", "exceed", "ctx"}]
      BY <2>2 DEF SyncWrite
    <3>. QED  BY <2>2, <3>1, <3>2 DEF SyncWrite
  <2>3. ASSUME NEW s \in Seqs, AsyncRegister(s) \/ SyncRegister(s) PROVE TypeOK'
    <3>1. (IF timeout[s] > 0 THEN now + timeout[s] ELSE 0) \in Nat
      OBVIOUS
    <3>2. expireAt' \in [Seqs -> Nat]
      BY <2>3, <3>1 DEF AsyncRegister, SyncRegister, Register
    <3>. QED  BY <2>3, <3>2 DEF AsyncRegister, SyncRegister, Register
  <2>4. ASSUME NEW s \in Seqs, AsyncTrack(s) PROVE TypeOK'
    BY <2>4 DEF AsyncTrack
  <2>5. ASSUME NEW s \in Seqs, AsyncWake(s) PROVE TypeOK'
    BY <2>5 DEF AsyncWake
  <2>6. ASSUME NEW s \in Seqs, SyncSelect(s) \/ SyncCancel(s) PROVE TypeOK'
    BY <2>6 DEF SyncSelect, SyncCancel, SyncResult
  <2>7. ASSUME NEW s \in Seqs, SyncUnregister(s) \/ SyncCloseChan(s) PROVE TypeOK'
    BY <2>7 DEF SyncUnregister, SyncCloseChan
  <2>8. ASSUME NEW s \in Seqs, RecvLookup(s) PROVE TypeOK'
    BY <2>8 DEF RecvLookup, RecvUnknown, RecvSync, RecvAsync, Claimed
  <2>9. ASSUME NEW s \in Seqs, RecvUntrack(s) PROVE TypeOK'
    BY <2>9 DEF RecvUntrack
  <2>10. ASSUME NEW s \in Seqs, RecvPush(s) PROVE TypeOK'
    BY <2>10 DEF RecvPush, SendResult
  <2>11. CASE TimeoutStart
    <3>1. keys # {} => Left(keys) \in Nat
      BY LeftIsLeast
    <3>. QED  BY <2>11, <3>1 DEF TimeoutStart
  <2>12. CASE TimeoutQuit
    BY <2>12 DEF TimeoutQuit
  <2>13. CASE TimeoutUpdate
    <3>1. keys # {} => Left(keys) \in Nat
      BY LeftIsLeast
    <3>. QED  BY <2>13, <3>1 DEF TimeoutUpdate, Rearm
  <2>14. CASE TimeoutFire
    <3>1. keys' \subseteq Nat /\ now + DefaultDelay \in Nat
      <4>1. keys' \subseteq keys
        BY <2>14 DEF TimeoutFire
      <4>. QED  BY <4>1
    <3>2. timerAt' \in Nat
      BY <2>14, <3>1, LeftIsLeast DEF TimeoutFire
    <3>3. batch' \subseteq Seqs /\ tracked' \subseteq Seqs /\ waitRsps' \subseteq Seqs
      BY <2>14 DEF TimeoutFire
    <3>. QED  BY <2>14, <3>1, <3>2, <3>3 DEF TimeoutFire
  <2>15. CASE TimeoutSend
    <3>1. ASSUME NEW s \in batch, SendResult(s, "timeout")
          PROVE  results' \in [Seqs -> Seq({"reply", "timeout"})] /\ queued' \in 0..RetChanCap
      BY <3>1 DEF SendResult
    <3>2. results' \in [Seqs -> Seq({"reply", "timeout"})] /\ queued' \in 0..RetChanCap
      BY <2>15, <3>1 DEF TimeoutSend
    <3>. QED  BY <2>15, <3>2 DEF TimeoutSend
  <2>16. CASE Close \/ Disconnect
    BY <2>16 DEF Close, Disconnect
  <2>19. CASE AppReceive
    <3>1. queued' \in 0..RetChanCap
      BY <2>19 DEF AppReceive
    <3>. QED  BY <2>19, <3>1 DEF AppReceive
  <2>18. CASE Tick
    BY <2>18 DEF Tick
  <2>17. CASE UNCHANGED vars
    BY <2>17 DEF vars
  <2>30. ASSUME genMsgId < MaxSeq, NEW c \in Calls[genMsgId + 1], Invoke(c[1], c[2])
         PROVE  TypeOK'
    <3>1. c \in Kinds \X Nat
      BY <2>30
    <3>2. c[1] \in Kinds /\ c[2] \in Nat
      BY <3>1
    <3>. QED  BY <2>1, <2>30, <3>2
  <2>. QED
    BY <2>30, <2>2, <2>3, <2>4, <2>5, <2>6, <2>7, <2>8, <2>9, <2>10, <2>11, <2>12,
       <2>13, <2>14, <2>15, <2>16, <2>17, <2>18, <2>19 DEF Next, Caller, Reader, Worker
<1>. QED  BY <1>1, <1>2, PTL DEF Spec

-----------------------------------------------------------------------------
(* The invariant is inductive.                                             *)

\* Ownership of a call's result, its deadline, its channel and the worker's
\* timer stay consistent in every step of rpc/client.go.
THEOREM Inductive == Spec => []IInv
<1>. USE RpcClientAssumption
     DEF callVars, progVars, waitVars, chanVars, treeVars, workerVars, linkVars,
         envVars, Goto, Return, HandleReply
<1>1. Init => IInv
  BY DEF Init, IInv, WakeInv, OwnerInv, DeadlineInv, ChanInv, Unregistered, Delivering
<1>2. TypeOK /\ TypeOK' /\ IInv /\ [Next]_vars => IInv'
  <2>. SUFFICES ASSUME TypeOK, TypeOK', IInv, [Next]_vars PROVE IInv'
    OBVIOUS
  <2>. USE DEF TypeOK, IInv, WakeInv, OwnerInv, DeadlineInv, ChanInv, Unregistered, Delivering
  <2>1. ASSUME NEW k \in Kinds, NEW t \in Nat, Invoke(k, t) PROVE IInv'
    <3>. DEFINE q == genMsgId + 1
    <3>1. q \in Seqs /\ q > genMsgId /\ genMsgId' = q /\ pc' = [pc EXCEPT ![q] = "write"]
          /\ kind' = [kind EXCEPT ![q] = k]
      BY <2>1 DEF Invoke, Seqs
    <3>2. pc[q] = "idle"
      BY <3>1
    <3>3. WakeInv'
      BY <2>1, <3>1, <3>2 DEF Invoke
    <3>4. ASSUME NEW r \in Seqs PROVE OwnerInv(r)' /\ DeadlineInv(r)'
      BY <2>1, <3>1, <3>2 DEF Invoke
    <3>5. ASSUME NEW r \in Seqs PROVE ChanInv(r)'
      <4>1. r \in Int
        BY DEF Seqs
      <4>2. CASE r = q
        BY <2>1, <3>1, <3>2, <4>2 DEF Invoke
      <4>3. CASE r # q
        <5>. HIDE DEF q
        <5>. QED  BY <2>1, <3>1, <3>2, <4>1, <4>3 DEF Invoke
      <4>. QED  BY <4>2, <4>3
    <3>. QED  BY <3>3, <3>4, <3>5
  <2>2. ASSUME NEW s \in Seqs, SyncWrite(s) PROVE IInv'
    <3>1. WakeInv'
      BY <2>2 DEF SyncWrite, Written
    <3>2. ASSUME NEW r \in Seqs PROVE OwnerInv(r)'
      BY <2>2 DEF SyncWrite, Written
    <3>3. ASSUME NEW r \in Seqs PROVE DeadlineInv(r)'
      BY <2>2 DEF SyncWrite, Written
    <3>4. ASSUME NEW r \in Seqs PROVE ChanInv(r)'
      BY <2>2 DEF SyncWrite, Written
    <3>. QED  BY <3>1, <3>2, <3>3, <3>4
  <2>3. ASSUME NEW s \in Seqs, AsyncRegister(s) PROVE IInv'
    <3>1. WakeInv'
      BY <2>3 DEF AsyncRegister, Register
    <3>2. ASSUME NEW r \in Seqs PROVE OwnerInv(r)'
      BY <2>3 DEF AsyncRegister, Register
    <3>3. ASSUME NEW r \in Seqs PROVE DeadlineInv(r)'
      <4>1. results[s] # <<"timeout">>
        BY <2>3, OneResult DEF AsyncRegister, Register
      <4>. QED  BY <2>3, <4>1 DEF AsyncRegister, Register
    <3>4. ASSUME NEW r \in Seqs PROVE ChanInv(r)'
      BY <2>3 DEF AsyncRegister, Register
    <3>. QED  BY <3>1, <3>2, <3>3, <3>4
  <2>4. ASSUME NEW s \in Seqs, SyncRegister(s) PROVE IInv'
    <3>1. WakeInv'
      BY <2>4 DEF SyncRegister, Register
    <3>2. ASSUME NEW r \in Seqs PROVE OwnerInv(r)'
      BY <2>4 DEF SyncRegister, Register
    <3>3. ASSUME NEW r \in Seqs PROVE DeadlineInv(r)'
      <4>1. results[s] # <<"timeout">>
        BY <2>4, OneResult DEF SyncRegister, Register
      <4>. QED  BY <2>4, <4>1 DEF SyncRegister, Register
    <3>4. ASSUME NEW r \in Seqs PROVE ChanInv(r)'
      BY <2>4 DEF SyncRegister, Register
    <3>. QED  BY <3>1, <3>2, <3>3, <3>4
  <2>5. ASSUME NEW s \in Seqs, AsyncTrack(s) PROVE IInv'
    BY <2>5 DEF AsyncTrack
  <2>6. ASSUME NEW s \in Seqs, AsyncWake(s) PROVE IInv'
    BY <2>6 DEF AsyncWake
  <2>7. ASSUME NEW s \in Seqs, SyncSelect(s) \/ SyncCancel(s) PROVE IInv'
    <3>1. PICK v : SyncResult(s, v)
      BY <2>7 DEF SyncSelect, SyncCancel
    <3>2. WakeInv'
      BY <3>1 DEF SyncResult
    <3>3. ASSUME NEW r \in Seqs PROVE OwnerInv(r)'
      BY <3>1 DEF SyncResult
    <3>4. ASSUME NEW r \in Seqs PROVE DeadlineInv(r)'
      <4>1. /\ pc[s] = "wait" /\ pc' = [pc EXCEPT ![s] = "unregister"]
            /\ UNCHANGED <<tracked, batch, results, expireAt, now>>
        BY <3>1 DEF SyncResult
      <4>2. pc'[r] = "track" \/ Unregistered(r)' => pc'[r] = pc[r]
        BY <4>1
      <4>3. DeadlineInv(r)
        OBVIOUS
      <4>. QED  BY <4>1, <4>2, <4>3
    <3>5. ASSUME NEW r \in Seqs PROVE ChanInv(r)'
      BY <3>1 DEF SyncResult
    <3>. QED  BY <3>2, <3>3, <3>4, <3>5
  <2>8. ASSUME NEW s \in Seqs, SyncUnregister(s) PROVE IInv'
    BY <2>8 DEF SyncUnregister
  <2>9. ASSUME NEW s \in Seqs, SyncCloseChan(s) PROVE IInv'
    BY <2>9 DEF SyncCloseChan
  <2>10. ASSUME NEW s \in Seqs, RecvLookup(s) PROVE IInv'
    <3>1. WakeInv'
      BY <2>10 DEF RecvLookup, RecvUnknown, RecvSync, RecvAsync, Claimed
    <3>2. ASSUME NEW r \in Seqs PROVE OwnerInv(r)'
      BY <2>10 DEF RecvLookup, RecvUnknown, RecvSync, RecvAsync, Claimed
    <3>3. ASSUME NEW r \in Seqs PROVE DeadlineInv(r)'
      BY <2>10 DEF RecvLookup, RecvUnknown, RecvSync, RecvAsync, Claimed
    <3>4. ASSUME NEW r \in Seqs PROVE ChanInv(r)'
      BY <2>10 DEF RecvLookup, RecvUnknown, RecvSync, RecvAsync, Claimed
    <3>. QED  BY <3>1, <3>2, <3>3, <3>4
  <2>11. ASSUME NEW s \in Seqs, RecvUntrack(s) PROVE IInv'
    BY <2>11 DEF RecvUntrack
  <2>12. ASSUME NEW s \in Seqs, RecvPush(s) PROVE IInv'
    <3>1. WakeInv'
      BY <2>12 DEF RecvPush, SendResult
    <3>2. ASSUME NEW r \in Seqs PROVE OwnerInv(r)'
      BY <2>12 DEF RecvPush, SendResult
    <3>3. ASSUME NEW r \in Seqs PROVE DeadlineInv(r)'
      <4>1. results'[s] # <<"timeout">> /\ \A q \in Seqs \ {s} : results'[q] = results[q]
        <5>1. results[s] = <<>>
          BY <2>12 DEF RecvPush
        <5>2. results' = [results EXCEPT ![s] = Append(<<>>, "reply")]
          BY <2>12, <5>1 DEF RecvPush, SendResult
        <5>. QED  BY <5>2, OneResult
      <4>. QED  BY <2>12, <4>1 DEF RecvPush
    <3>4. ASSUME NEW r \in Seqs PROVE ChanInv(r)'
      BY <2>12 DEF RecvPush, SendResult
    <3>. QED  BY <3>1, <3>2, <3>3, <3>4
  <2>13. CASE TimeoutStart
    <3>1. WakeInv'
      <4>1. keys # {} => Left(keys) \in Nat /\ \A b \in keys : Left(keys) <= b
        BY LeftIsLeast
      <4>. QED  BY <2>13, <4>1 DEF TimeoutStart
    <3>2. ASSUME NEW r \in Seqs PROVE OwnerInv(r)'
      BY <2>13 DEF TimeoutStart
    <3>3. ASSUME NEW r \in Seqs PROVE DeadlineInv(r)'
      BY <2>13 DEF TimeoutStart
    <3>4. ASSUME NEW r \in Seqs PROVE ChanInv(r)'
      BY <2>13 DEF TimeoutStart
    <3>. QED  BY <3>1, <3>2, <3>3, <3>4
  <2>14. CASE TimeoutQuit
    BY <2>14 DEF TimeoutQuit
  <2>15. CASE TimeoutUpdate
    <3>1. WakeInv'
      <4>1. keys # {} => Left(keys) \in Nat /\ \A b \in keys : Left(keys) <= b
        BY LeftIsLeast
      <4>. QED  BY <2>15, <4>1 DEF TimeoutUpdate, Rearm
    <3>2. ASSUME NEW r \in Seqs PROVE OwnerInv(r)'
      BY <2>15 DEF TimeoutUpdate, Rearm
    <3>3. ASSUME NEW r \in Seqs PROVE DeadlineInv(r)'
      BY <2>15 DEF TimeoutUpdate, Rearm
    <3>4. ASSUME NEW r \in Seqs PROVE ChanInv(r)'
      BY <2>15 DEF TimeoutUpdate, Rearm
    <3>. QED  BY <3>1, <3>2, <3>3, <3>4
  <2>16. CASE TimeoutFire
    <3>1. WakeInv'
      BY <2>16, LeftIsLeast DEF TimeoutFire, Expired
    <3>2. ASSUME NEW r \in Seqs PROVE OwnerInv(r)'
      BY <2>16 DEF TimeoutFire, Expired
    <3>3. ASSUME NEW r \in Seqs PROVE DeadlineInv(r)'
      BY <2>16 DEF TimeoutFire, Expired
    <3>4. ASSUME NEW r \in Seqs PROVE ChanInv(r)'
      BY <2>16 DEF TimeoutFire, Expired
    <3>. QED  BY <3>1, <3>2, <3>3, <3>4
  <2>17. CASE TimeoutSend
    <3>1. WakeInv'
      BY <2>17 DEF TimeoutSend, SendResult
    <3>2. ASSUME NEW r \in Seqs PROVE OwnerInv(r)'
      BY <2>17 DEF TimeoutSend, SendResult
    <3>3. ASSUME NEW r \in Seqs PROVE DeadlineInv(r)'
      <4>1. CASE r \in batch
        BY <2>17, <4>1 DEF TimeoutSend
      <4>2. CASE r \notin batch
        <5>1. results'[r] = results[r] /\ r \notin batch'
          BY <2>17, <4>2 DEF TimeoutSend, SendResult
        <5>. QED  BY <2>17, <5>1 DEF TimeoutSend
      <4>. QED  BY <4>1, <4>2
    <3>4. ASSUME NEW r \in Seqs PROVE ChanInv(r)'
      BY <2>17 DEF TimeoutSend, SendResult
    <3>. QED  BY <3>1, <3>2, <3>3, <3>4
  <2>18. CASE Close \/ Disconnect \/ AppReceive
    BY <2>18 DEF Close, Disconnect, AppReceive
  <2>19. CASE Tick
    BY <2>19 DEF Tick
  <2>20. CASE UNCHANGED vars
    BY <2>20 DEF vars
  <2>30. ASSUME genMsgId < MaxSeq, NEW c \in Calls[genMsgId + 1], Invoke(c[1], c[2])
         PROVE  IInv'
    <3>1. c \in Kinds \X Nat
      BY <2>30
    <3>2. c[1] \in Kinds /\ c[2] \in Nat
      BY <3>1
    <3>. QED  BY <2>1, <2>30, <3>2
  <2>. QED
    BY <2>30, <2>2, <2>3, <2>4, <2>5, <2>6, <2>7, <2>8, <2>9, <2>10, <2>11, <2>12, <2>13,
       <2>14, <2>15, <2>16, <2>17, <2>18, <2>19, <2>20 DEF Next, Caller, Reader, Worker
<1>. QED  BY <1>1, <1>2, TypeCorrect, PTL DEF Spec

\* At most one result per asynchronous call, for any number of calls: the reply
\* and the timeout never both send on AsyncRetChan.
THEOREM OneResultPerCall == Spec => []AtMostOneResult
<1>1. IInv => AtMostOneResult
  BY DEF IInv, OwnerInv, AtMostOneResult
<1>. QED  BY <1>1, Inductive, PTL

\* ErrRpcCallTimeout is never sent before the deadline of its call.
THEOREM NoEarlyTimeout == Spec => []TimeoutNotEarly
<1>1. IInv => TimeoutNotEarly
  BY DEF IInv, DeadlineInv, TimeoutNotEarly, CtxExceeded
<1>. QED  BY <1>1, Inductive, PTL

\* processTimeout never sleeps past the earliest deadline in its tree.
THEOREM WakeupsKept == Spec => []NoLostWakeup
<1>1. IInv => NoLostWakeup
  BY DEF IInv, WakeInv, NoLostWakeup
<1>. QED  BY <1>1, Inductive, PTL

\* onRecvMsg never sends on a closed result channel and never blocks on a full
\* one while it holds mtx.
THEOREM SyncSendSafe == Spec => []SyncChanReady
<1>1. TypeOK /\ IInv => SyncChanReady
  BY DEF TypeOK, IInv, ChanInv, SyncChanReady
<1>. QED  BY <1>1, TypeCorrect, Inductive, PTL

=============================================================================
