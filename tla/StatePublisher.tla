--------------------------- MODULE StatePublisher ---------------------------
(***************************************************************************)
(* The Signal State Store and the Publish Scheduler of the cloud connector *)
(* (src/cloud-connector/app/src/main.py, class AWSConnection).             *)
(*                                                                         *)
(* Two threads share the protobuf state frame `proto` and the flag         *)
(* `needTransmit`:                                                         *)
(*   - the vehicle-app thread, whose bus callback on_signal_changed calls  *)
(*     publishSignal: it projects a new value into the frame (a repeated   *)
(*     field is first cleared, then extended) and marks the frame dirty;   *)
(*   - the AWS thread, which after connecting and subscribing runs the     *)
(*     loop of initAWSConnection: sleep 0.2 s, the idle check, and         *)
(*     publishState, which serializes and publishes the frame when it is   *)
(*     dirty or more than 500 ms have passed since the last publish.       *)
(* No lock protects either structure; every statement of the code that     *)
(* touches shared state is a step of its own here, because the Python      *)
(* interpreter may switch threads between any two of them.                 *)
(*                                                                         *)
(* Time is kept as saturating "milliseconds since" timers: every           *)
(* comparison the code makes against them gives the same answer for the   *)
(* capped value as for the real one.                                       *)
(***************************************************************************)
EXTENDS Naturals

CONSTANTS
    ScalarPaths,     \* signal paths that resolve to a scalar protobuf field
    RepeatedPaths,   \* signal paths that resolve to a repeated field (label 3)
    ScalarValues,    \* values a scalar signal can carry
    SeqValues,       \* sequences a repeated signal can carry
    ScalarDefault,   \* protobuf default of a scalar field
    TickMs,          \* the loop's time.sleep(0.2)
    DebounceMs,      \* the literal 500 of publishState
    IdleTriggerMs,   \* IDLE_STATE_TRIGGER_TIME_MS
    IdleRateMs,      \* IDLE_STATE_PUBLISH_INTERVALL_MS
    ActiveRateMs     \* STATE_PUBLISH_INTERVALL_MS, the initial user rate

ASSUME PathsAssumption ==
    /\ ScalarPaths \cap RepeatedPaths = {}
    /\ ScalarPaths \cup RepeatedPaths # {}
    /\ ScalarDefault \in ScalarValues

ASSUME TimeAssumption ==
    /\ TickMs \in Nat \ {0}
    /\ DebounceMs \in Nat
    /\ IdleTriggerMs \in Nat
    /\ IdleRateMs \in Nat
    /\ ActiveRateMs \in Nat

Paths == ScalarPaths \cup RepeatedPaths

\* Saturation bounds of the two timers: any value above the threshold the
\* code compares a timer with is as good as any other.
ElapsedCap == DebounceMs + TickMs
ReceiveCap == IdleTriggerMs + TickMs

VARIABLES
    proto,              \* the protobuf frame: path -> field value
    needTransmit,       \* the dirty flag
    awsConnectionOk,    \* set once subscriptions are done
    sinceStatePublish,  \* now - lastStatePublish (saturating)
    sinceReceive,       \* now - lastReceiveTime (saturating)
    stateUpdateRateMs,  \* the cadence variable the idle check sets
    sent,               \* the last frame serialized and published (retained)
    busPc,              \* where the vehicle-app thread is in publishSignal
    busPath,            \*   the path it is storing
    busVal,             \*   the value it is storing
    schedPc,            \* where the AWS thread is in its loop
    schedDirty,         \*   its local copy of needTransmit | timeDiffMs > 500
    busPrev             \* history: the field's value before the store began

vars == <<proto, needTransmit, awsConnectionOk, sinceStatePublish,
          sinceReceive, stateUpdateRateMs, sent, busPc, busPath, busVal,
          schedPc, schedDirty, busPrev>>

\* The frame of a freshly constructed ProtoVehicle().
EmptyFrame == [p \in Paths |-> IF p \in RepeatedPaths THEN <<>> ELSE ScalarDefault]

FieldValues == ScalarValues \cup SeqValues \cup {<<>>}

\* The code's millisecond differences grow without bound; the model caps
\* them at a bound above every threshold they are compared with.
SatAdd(x, d, cap) == IF x + d > cap THEN cap ELSE x + d

-----------------------------------------------------------------------------
(* AWSConnection.__init__: both timers start at the same instant, nothing *)
(* is dirty or connected; the two threads are about to start.             *)
Init ==
    /\ proto = EmptyFrame
    /\ needTransmit = FALSE
    /\ awsConnectionOk = FALSE
    /\ sinceStatePublish = 0
    /\ sinceReceive = 0
    /\ stateUpdateRateMs = ActiveRateMs
    /\ sent = EmptyFrame
    /\ busPc = "idle"
    /\ busPath = CHOOSE p \in Paths : TRUE
    /\ busVal = ScalarDefault
    /\ schedPc = "connecting"
    /\ schedDirty = FALSE
    /\ busPrev = ScalarDefault

(* publishSignal, first statement that touches the frame: a scalar field  *)
(* is overwritten by setattr; a repeated field is emptied by              *)
(* `del repeatedAttr[:]`.                                                  *)
StoreSignal(p, v) ==
    /\ busPc = "idle"
    /\ busPath' = p
    /\ busVal' = v
    /\ busPrev' = proto[p]
    /\ \/ /\ p \in ScalarPaths
          /\ proto' = [proto EXCEPT ![p] = v]
          /\ busPc' = "mark"
       \/ /\ p \in RepeatedPaths
          /\ proto' = [proto EXCEPT ![p] = <<>>]
          /\ busPc' = "extend"
    /\ UNCHANGED <<needTransmit, awsConnectionOk, sinceStatePublish,
                   sinceReceive, stateUpdateRateMs, sent, schedPc, schedDirty>>

(* publishSignal: `repeatedAttr.extend(signalValue)`. *)
ExtendRepeated ==
    /\ busPc = "extend"
    /\ proto' = [proto EXCEPT ![busPath] = busVal]
    /\ busPc' = "mark"
    /\ UNCHANGED <<needTransmit, awsConnectionOk, sinceStatePublish,
                   sinceReceive, stateUpdateRateMs, sent, busPath, busVal,
                   schedPc, schedDirty, busPrev>>

(* publishSignal: `self.needTransmit = True`. *)
MarkDirty ==
    /\ busPc = "mark"
    /\ needTransmit' = TRUE
    /\ busPc' = "idle"
    /\ UNCHANGED <<proto, awsConnectionOk, sinceStatePublish, sinceReceive,
                   stateUpdateRateMs, sent, busPath, busVal, schedPc,
                   schedDirty, busPrev>>

(* initAWSConnection: connect and the three subscriptions succeed, then   *)
(* `self.awsConnectionOk = True` and the publish loop starts.  The time   *)
(* the connection takes is any whole number of ticks.                     *)
Connected ==
    /\ schedPc = "connecting"
    /\ \E d \in 0..(ReceiveCap \div TickMs) :
          /\ sinceStatePublish' = SatAdd(sinceStatePublish, d * TickMs, ElapsedCap)
          /\ sinceReceive' = SatAdd(sinceReceive, d * TickMs, ReceiveCap)
    /\ awsConnectionOk' = TRUE
    /\ schedPc' = "sleep"
    /\ UNCHANGED <<proto, needTransmit, stateUpdateRateMs, sent, busPc,
                   busPath, busVal, schedDirty, busPrev>>

\* Mutant: the loop measures the publish timer against a stale clock.
SleepStaleClock ==
    /\ schedPc = "sleep"
    /\ sinceReceive' = SatAdd(sinceReceive, TickMs, ReceiveCap)
    /\ stateUpdateRateMs' = IF sinceReceive' > IdleTriggerMs
                            THEN IdleRateMs ELSE stateUpdateRateMs
    /\ schedPc' = "check"
    /\ UNCHANGED <<proto, needTransmit, awsConnectionOk, sent, busPc,
                   busPath, busVal, schedDirty, busPrev, sinceStatePublish>>

(* One loop iteration up to publishState: time.sleep(0.2), then the idle  *)
(* check against the constant IDLE_STATE_TRIGGER_TIME_MS.                 *)
SleepAndIdleCheck ==
    /\ schedPc = "sleep"
    /\ sinceStatePublish' = SatAdd(sinceStatePublish, TickMs, ElapsedCap)
    /\ sinceReceive' = SatAdd(sinceReceive, TickMs, ReceiveCap)
    /\ stateUpdateRateMs' = IF sinceReceive' > IdleTriggerMs
                            THEN IdleRateMs ELSE stateUpdateRateMs
    /\ schedPc' = "check"
    /\ UNCHANGED <<proto, needTransmit, awsConnectionOk, sent, busPc,
                   busPath, busVal, schedDirty, busPrev>>

\* Mutant: publishState without the 500 ms rule.
ReadDirtyNoTimer ==
    /\ schedPc = "check"
    /\ awsConnectionOk
    /\ schedDirty' = needTransmit
    /\ schedPc' = "write"
    /\ UNCHANGED <<proto, needTransmit, awsConnectionOk, sinceStatePublish,
                   sinceReceive, stateUpdateRateMs, sent, busPc, busPath,
                   busVal, busPrev>>

(* publishState: `self.needTransmit |= timeDiffMs > 500` is a read of     *)
(* needTransmit ...                                                       *)
ReadDirty ==
    /\ schedPc = "check"
    /\ awsConnectionOk
    /\ schedDirty' = (needTransmit \/ sinceStatePublish > DebounceMs)
    /\ schedPc' = "write"
    /\ UNCHANGED <<proto, needTransmit, awsConnectionOk, sinceStatePublish,
                   sinceReceive, stateUpdateRateMs, sent, busPc, busPath,
                   busVal, busPrev>>

(* ... followed by a separate write of it. *)
WriteDirty ==
    /\ schedPc = "write"
    /\ needTransmit' = schedDirty
    /\ schedPc' = "test"
    /\ UNCHANGED <<proto, awsConnectionOk, sinceStatePublish, sinceReceive,
                   stateUpdateRateMs, sent, busPc, busPath, busVal, schedDirty,
                   busPrev>>

(* publishState: `if self.binary and self.needTransmit` reads the flag    *)
(* again; when set, the frame is serialized and published.                *)
Publish ==
    /\ schedPc = "test"
    /\ needTransmit
    /\ sent' = proto
    /\ schedPc' = "commit"
    /\ UNCHANGED <<proto, needTransmit, awsConnectionOk, sinceStatePublish,
                   sinceReceive, stateUpdateRateMs, busPc, busPath, busVal,
                   schedDirty, busPrev>>

SkipPublish ==
    /\ schedPc = "test"
    /\ ~needTransmit
    /\ schedPc' = "sleep"
    /\ UNCHANGED <<proto, needTransmit, awsConnectionOk, sinceStatePublish,
                   sinceReceive, stateUpdateRateMs, sent, busPc, busPath,
                   busVal, schedDirty, busPrev>>

(* publishState after the publish call: `lastStatePublish = currentTime`  *)
(* and `needTransmit = False`.                                            *)
CommitPublish ==
    /\ schedPc = "commit"
    /\ sinceStatePublish' = 0
    /\ needTransmit' = FALSE
    /\ schedPc' = "sleep"
    /\ UNCHANGED <<proto, awsConnectionOk, sinceReceive, stateUpdateRateMs,
                   sent, busPc, busPath, busVal, schedDirty, busPrev>>

BusStep ==
    \/ \E p \in ScalarPaths, v \in ScalarValues : StoreSignal(p, v)
    \/ \E p \in RepeatedPaths, v \in SeqValues : StoreSignal(p, v)
    \/ ExtendRepeated
    \/ MarkDirty

SchedStep ==
    \/ Connected
    \/ SleepAndIdleCheck
    \/ ReadDirty
    \/ WriteDirty
    \/ Publish
    \/ SkipPublish
    \/ CommitPublish

Next == BusStep \/ SchedStep

(* The AWS loop thread never blocks for good, so it is weakly fair once   *)
(* connected; a publishSignal call in progress runs to its end.  New      *)
(* signal changes and the connection itself are up to the environment.    *)
Fairness ==
    /\ WF_vars(SleepAndIdleCheck \/ ReadDirty \/ WriteDirty \/ Publish
               \/ SkipPublish \/ CommitPublish)
    /\ WF_vars(ExtendRepeated \/ MarkDirty)

Spec == Init /\ [][Next]_vars

FairSpec == Spec /\ Fairness

-----------------------------------------------------------------------------
TypeOK ==
    /\ proto \in [Paths -> FieldValues]
    /\ needTransmit \in BOOLEAN
    /\ awsConnectionOk \in BOOLEAN
    /\ sinceStatePublish \in 0..ElapsedCap
    /\ sinceReceive \in 0..ReceiveCap
    /\ stateUpdateRateMs \in {ActiveRateMs, IdleRateMs}
    /\ sent \in [Paths -> FieldValues]
    /\ busPc \in {"idle", "extend", "mark"}
    /\ busPath \in Paths
    /\ busVal \in FieldValues
    /\ schedPc \in {"connecting", "sleep", "check", "write", "test", "commit"}
    /\ schedDirty \in BOOLEAN
    /\ busPrev \in FieldValues

(* Bounded staleness (spec 4.7): whenever the connected AWS loop goes to  *)
(* sleep while the frame holds a completed change that is not in the last *)
(* published frame, that change is either still marked dirty or less than *)
(* the debounce bound has passed since the last publish -- so it goes out *)
(* within DebounceMs + TickMs even when its dirty mark was lost: a store   *)
(* between the serialization and `needTransmit = False` (main.py 117      *)
(* against 130-136), or between the read and the write of                 *)
(* `needTransmit |= timeDiffMs > 500` (main.py 127).                      *)
UnsentChangeScheduled ==
    (schedPc = "sleep" /\ busPc = "idle" /\ proto # sent)
        => (needTransmit \/ sinceStatePublish <= DebounceMs)

(* Every value stored into the frame is eventually published, unless it  *)
(* is overwritten first.  A store that lands between the serialization    *)
(* and `needTransmit = False` loses its dirty mark (main.py 117 against   *)
(* 127 and 136); only the 500 ms rule then gets it out.                   *)
EveryChangePublished ==
    \A p \in Paths, v \in FieldValues :
        (awsConnectionOk /\ proto[p] = v) ~> (sent[p] = v \/ proto[p] # v)

(* A published frame is never torn: every field the scheduler serializes *)
(* holds a value that field really had, the one before the store in       *)
(* progress or the one being stored -- never the empty list that          *)
(* `del repeatedAttr[:]` leaves until `extend` runs (spec 8: repeated     *)
(* fields hold the most recently stored full sequence; main.py 115-116    *)
(* against the SerializeToString of 130).                                 *)
NoTornPublish ==
    [][Publish =>
         (busPc = "extend" => proto[busPath] \in {busPrev, busVal})]_vars

=============================================================================
