------------------------ MODULE StatePublisherProofs ------------------------
(***************************************************************************)
(* Proofs about StatePublisher, for every choice of paths, values and      *)
(* timing constants that satisfies its assumptions.                        *)
(*                                                                         *)
(* UnsentChangeScheduled is not inductive by itself: it constrains only    *)
(* the "sleep" point of the AWS loop, and what it says there is set up by  *)
(* the steps before it.  IInv adds, per loop position, what the loop       *)
(* carries to the next step:                                               *)
(*   - before the connection, every completed store is still marked dirty  *)
(*     (nothing clears needTransmit yet);                                  *)
(*   - after the read of `needTransmit |= timeDiffMs > 500`, a clean local *)
(*     copy means the debounce bound has not passed;                       *)
(*   - after the write, a clean flag means the same -- the vehicle thread  *)
(*     can only set the flag, never clear it.                              *)
(***************************************************************************)
EXTENDS StatePublisher, TLAPS

ConnectingMarked ==
    (schedPc = "connecting" /\ busPc = "idle" /\ proto # sent) => needTransmit

LocalCopyScheduled ==
    (schedPc = "write" /\ ~schedDirty) => sinceStatePublish <= DebounceMs

FlagScheduled ==
    (schedPc = "test" /\ ~needTransmit) => sinceStatePublish <= DebounceMs

IInv ==
    /\ TypeOK
    /\ ConnectingMarked
    /\ UnsentChangeScheduled
    /\ LocalCopyScheduled
    /\ FlagScheduled

-----------------------------------------------------------------------------
(* A saturating addition of a natural to a timer stays within its cap. *)
LEMMA SatAddType ==
    ASSUME NEW x \in Nat, NEW d \in Nat, NEW cap \in Nat, x <= cap
    PROVE  SatAdd(x, d, cap) \in 0..cap
BY DEF SatAdd

LEMMA CapsType == ElapsedCap \in Nat /\ ReceiveCap \in Nat
BY TimeAssumption DEF ElapsedCap, ReceiveCap

LEMMA InitTypeOK == Init => TypeOK
<1>1. (CHOOSE p \in Paths : TRUE) \in Paths
  BY PathsAssumption DEF Paths
<1>2. EmptyFrame \in [Paths -> FieldValues]
  BY PathsAssumption DEF EmptyFrame, FieldValues
<1>3. 0 \in 0..ElapsedCap /\ 0 \in 0..ReceiveCap
  BY CapsType
<1>4. ScalarDefault \in FieldValues
  BY PathsAssumption DEF FieldValues
<1>5. QED
  BY <1>1, <1>2, <1>3, <1>4 DEF Init, TypeOK

(* Every step keeps the variables within their types. *)
LEMMA NextTypeOK == TypeOK /\ [Next]_vars => TypeOK'
<1> SUFFICES ASSUME TypeOK, [Next]_vars PROVE TypeOK'
  OBVIOUS
<1> USE CapsType, TimeAssumption
<1>1. ASSUME NEW p \in ScalarPaths, NEW v \in ScalarValues, StoreSignal(p, v)
      PROVE TypeOK'
  BY <1>1 DEF StoreSignal, TypeOK, FieldValues, Paths
<1>2. ASSUME NEW p \in RepeatedPaths, NEW v \in SeqValues, StoreSignal(p, v)
      PROVE TypeOK'
  BY <1>2 DEF StoreSignal, TypeOK, FieldValues, Paths
<1>3. CASE ExtendRepeated
  BY <1>3 DEF ExtendRepeated, TypeOK
<1>4. CASE MarkDirty
  BY <1>4 DEF MarkDirty, TypeOK
<1>5. CASE Connected
  <2>1. PICK d \in 0..(ReceiveCap \div TickMs) :
               /\ sinceStatePublish' = SatAdd(sinceStatePublish, d * TickMs, ElapsedCap)
               /\ sinceReceive' = SatAdd(sinceReceive, d * TickMs, ReceiveCap)
    BY <1>5 DEF Connected
  <2>2. d * TickMs \in Nat
    OBVIOUS
  <2>3. SatAdd(sinceStatePublish, d * TickMs, ElapsedCap) \in 0..ElapsedCap
    BY <2>2, SatAddType DEF TypeOK
  <2>4. SatAdd(sinceReceive, d * TickMs, ReceiveCap) \in 0..ReceiveCap
    <3>1. sinceReceive \in Nat /\ sinceReceive <= ReceiveCap
      BY DEF TypeOK
    <3>2. QED
      BY <2>2, <3>1, SatAddType
  <2>5. QED
    BY <1>5, <2>1, <2>3, <2>4 DEF Connected, TypeOK
<1>6. CASE SleepAndIdleCheck
  <2>1. SatAdd(sinceStatePublish, TickMs, ElapsedCap) \in 0..ElapsedCap
    BY SatAddType DEF TypeOK
  <2>2. SatAdd(sinceReceive, TickMs, ReceiveCap) \in 0..ReceiveCap
    BY SatAddType DEF TypeOK
  <2>3. QED
    BY <1>6, <2>1, <2>2 DEF SleepAndIdleCheck, TypeOK
<1>7. CASE ReadDirty
  BY <1>7 DEF ReadDirty, TypeOK
<1>8. CASE WriteDirty
  BY <1>8 DEF WriteDirty, TypeOK
<1>9. CASE Publish
  BY <1>9 DEF Publish, TypeOK
<1>10. CASE SkipPublish
  BY <1>10 DEF SkipPublish, TypeOK
<1>11. CASE CommitPublish
  <2>1. 0 \in 0..ElapsedCap
    OBVIOUS
  <2>2. QED
    BY <1>11, <2>1 DEF CommitPublish, TypeOK
<1>12. CASE UNCHANGED vars
  BY <1>12 DEF vars, TypeOK
<1>13. QED
  BY <1>1, <1>2, <1>3, <1>4, <1>5, <1>6, <1>7, <1>8, <1>9, <1>10, <1>11, <1>12
  DEF Next, BusStep, SchedStep

(* The variables always have their types. *)
THEOREM TypeCorrect == Spec => []TypeOK
BY InitTypeOK, NextTypeOK, PTL DEF Spec

-----------------------------------------------------------------------------
(* The strengthened invariant holds initially and is kept by every step. *)
LEMMA IInvInductive == Spec => []IInv
<1>1. Init => IInv
  BY InitTypeOK DEF Init, IInv, ConnectingMarked, UnsentChangeScheduled,
                    LocalCopyScheduled, FlagScheduled
<1>2. IInv /\ [Next]_vars => IInv'
  <2> SUFFICES ASSUME IInv, [Next]_vars PROVE IInv'
    OBVIOUS
  <2>0. TypeOK'
    BY NextTypeOK DEF IInv
  <2> USE DEF IInv, ConnectingMarked, UnsentChangeScheduled,
              LocalCopyScheduled, FlagScheduled
  <2>1. ASSUME NEW p \in Paths, NEW v \in FieldValues, StoreSignal(p, v)
        PROVE IInv'
    BY <2>0, <2>1 DEF StoreSignal
  <2>2. CASE ExtendRepeated
    BY <2>0, <2>2 DEF ExtendRepeated
  <2>3. CASE MarkDirty
    BY <2>0, <2>3 DEF MarkDirty
  <2>4. CASE Connected
    BY <2>0, <2>4 DEF Connected
  <2>5. CASE SleepAndIdleCheck
    BY <2>0, <2>5 DEF SleepAndIdleCheck
  <2>6. CASE ReadDirty
    <3>1. sinceStatePublish \in Nat /\ DebounceMs \in Nat
      BY TimeAssumption DEF TypeOK
    <3>2. ~schedDirty' => ~(sinceStatePublish' > DebounceMs)
      BY <2>6, Zenon DEF ReadDirty
    <3>3. sinceStatePublish' = sinceStatePublish /\ schedPc' = "write"
      BY <2>6 DEF ReadDirty
    <3>4. LocalCopyScheduled'
      BY <3>1, <3>2, <3>3
    <3>5. QED
      BY <2>0, <2>6, <3>4 DEF ReadDirty
  <2>7. CASE WriteDirty
    BY <2>0, <2>7 DEF WriteDirty
  <2>8. CASE Publish
    BY <2>0, <2>8 DEF Publish
  <2>9. CASE SkipPublish
    BY <2>0, <2>9 DEF SkipPublish
  <2>10. CASE CommitPublish
    <3>1. sinceStatePublish' = 0 /\ DebounceMs \in Nat
      BY <2>10, TimeAssumption DEF CommitPublish
    <3>2. QED
      BY <2>0, <2>10, <3>1 DEF CommitPublish
  <2>11. CASE UNCHANGED vars
    BY <2>0, <2>11 DEF vars
  <2>12. QED
    BY <2>1, <2>2, <2>3, <2>4, <2>5, <2>6, <2>7, <2>8, <2>9, <2>10, <2>11
    DEF Next, BusStep, SchedStep, FieldValues, Paths
<1>3. QED
  BY <1>1, <1>2, PTL DEF Spec

(* Bounded staleness holds in every behaviour of the scheduler: a         *)
(* completed change that the last published frame lacks is, whenever the *)
(* AWS loop sleeps, either marked dirty or younger than the debounce      *)
(* bound, for all paths, values and timing constants.                     *)
THEOREM StalenessBounded == Spec => []UnsentChangeScheduled
BY IInvInductive, PTL DEF IInv

=============================================================================
