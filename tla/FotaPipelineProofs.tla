------------------------- MODULE FotaPipelineProofs -------------------------
(***************************************************************************)
(* Proofs about FotaPipeline, for every set of commands, directories and  *)
(* bucket listings that satisfies FotaAssumption, and whether or not the  *)
(* environment keeps to the spec's one run in flight (OneRunInFlight):    *)
(* the proofs never use that guard of Deliver, so they hold for the code  *)
(* as it is, where on_fota_message_received never waits for a worker.    *)
(***************************************************************************)
EXTENDS FotaPipeline, TLAPS

USE FotaAssumption

-----------------------------------------------------------------------------
(* A listing entry is a name. *)
LEMMA ListingKey ==
    ASSUME NEW b \in Buckets \cup {<<>>}, NEW i \in Nat \ {0}, i <= Len(b)
    PROVE  b[i] \in Names
<1>1. b \in Seq(Seq(STRING))
  OBVIOUS
<1>2. i \in DOMAIN b
  BY <1>1
<1>3. CASE b \in Buckets
  BY <1>2, <1>3 DEF Names, KeysOf
<1>4. CASE b = <<>>
  BY <1>4
<1>5. QED
  BY <1>3, <1>4

LEMMA InitTypeOK == Init => TypeOK
<1> SUFFICES ASSUME Init PROVE TypeOK
  OBVIOUS
<1>1. subscribed \in BOOLEAN /\ awsConnectionOk \in BOOLEAN
  BY Zenon DEF Init
<1>2. /\ pending \subseteq Cmds
      /\ buffer \in Seq(Msgs) /\ retained \in Seq(Msgs)
      /\ snap \in [Actors -> Seq(Msgs)]
  BY DEF Init
<1>3. /\ pc \in [Actors -> WorkerLabels \cup CBLabels \cup ReportLabels]
      /\ after \in [Actors -> WorkerLabels \cup CBLabels]
  BY DEF Init, WorkerLabels
<1>4. msg \in [Actors -> Msgs]
  BY DEF Init, Msgs
<1>5. /\ cwd \in ExistingDirs
      /\ disk \subseteq [dir : ExistingDirs, key : Names, run : Cmds]
      /\ tempFile \in [Cmds -> Names \cup {NoFile}]
      /\ listing \in [Cmds -> Buckets \cup {<<>>}]
      /\ idx \in [Cmds -> Nat \ {0}]
      /\ cbCmd \in Cmds
  BY DEF Init
<1>6. QED
  BY <1>1, <1>2, <1>3, <1>4, <1>5 DEF TypeOK

-----------------------------------------------------------------------------
(* The reporter's steps keep the types. *)
LEMMA ReportTypeOK ==
    ASSUME TypeOK, NEW a \in Actors, ReportStep(a)
    PROVE  TypeOK'
<1> USE DEF TypeOK, ReporterFrame, ReportLabels, WorkerLabels, CBLabels
<1>1. CASE ReportAppend(a)
  <2>1. CASE awsConnectionOk
    <3>1. buffer' = Append(buffer, msg[a]) /\ pc' = [pc EXCEPT ![a] = "dump"]
      BY <1>1, <2>1, Zenon DEF ReportAppend
    <3>2. QED
      BY <1>1, <3>1 DEF ReportAppend
  <2>2. CASE ~awsConnectionOk
    <3>1. buffer' = buffer /\ pc' = [pc EXCEPT ![a] = after[a]]
      BY <1>1, <2>2, Zenon DEF ReportAppend
    <3>2. QED
      BY <1>1, <3>1 DEF ReportAppend
  <2>3. QED
    BY <2>1, <2>2
<1>2. CASE ReportDump(a)
  BY <1>2 DEF ReportDump
<1>3. CASE ReportSend(a)
  BY <1>3 DEF ReportSend
<1>4. QED
  BY <1>1, <1>2, <1>3 DEF ReportStep

(* Report(a, m, k) with a message m and a label k to go on at. *)
LEMMA ReportCallType ==
    ASSUME TypeOK, NEW a \in Actors, NEW m \in Msgs,
           NEW k \in WorkerLabels \cup CBLabels, Report(a, m, k)
    PROVE  /\ pc' \in [Actors -> WorkerLabels \cup CBLabels \cup ReportLabels]
           /\ after' \in [Actors -> WorkerLabels \cup CBLabels]
           /\ msg' \in [Actors -> Msgs]
BY DEF Report, TypeOK, ReportLabels

(* A command whose payload is not JSON never gets a thread: Spawn reports *)
(* the failure instead of starting one, so its pc stays "idle".  The      *)
(* worker's first step, which has no case for such a command, needs it.  *)
BadJsonIdle == \A c \in Cmds : CmdKind[c] = "badjson" => pc[c] = "idle"

TInv == TypeOK /\ BadJsonIdle

(* Each worker step keeps the types. *)
LEMMA WorkerTypeOK ==
    ASSUME TypeOK, BadJsonIdle, NEW c \in Workers, WorkerStep(c)
    PROVE  TypeOK'
<1> USE DEF TypeOK, WorkerFrame, Workers, Actors, WorkerLabels, CBLabels, ReportLabels
<1>1. CASE WorkerStart(c)
  <2>1. CASE CmdKind[c] = "flash"
    <3>1. [kind |-> "downloading", run |-> c, file |-> CmdFile[c]] \in Msgs
      BY DEF Msgs, Names
    <3>2. QED
      BY <1>1, <2>1, <3>1, ReportCallType DEF WorkerStart
  <2>2. CASE CmdKind[c] \in {"other", "nokeys"}
    <3>1. pc' = [pc EXCEPT ![c] = IF CmdKind[c] = "other" THEN "done" ELSE "dead"]
      BY <1>1, <2>2 DEF WorkerStart
    <3>2. UNCHANGED <<after, msg>>
      BY <1>1, <2>2 DEF WorkerStart
    <3>3. QED
      BY <1>1, <3>1, <3>2 DEF WorkerStart
  <2>3. CASE CmdKind[c] = "badjson"
    BY <1>1, <2>3 DEF WorkerStart, BadJsonIdle
  <2>4. QED
    BY <2>1, <2>2, <2>3 DEF Kinds
<1>2. CASE WorkerChdir(c)
  BY <1>2 DEF WorkerChdir
<1>3. CASE WorkerCreds(c)
  BY <1>3 DEF WorkerCreds
<1>4. CASE WorkerList(c)
  <2>1. CASE \E b \in Buckets \ {<<>>} :
                /\ listing' = [listing EXCEPT ![c] = b]
                /\ idx' = [idx EXCEPT ![c] = 1]
                /\ pc' = [pc EXCEPT ![c] = "scan"]
    BY <1>4, <2>1 DEF WorkerList
  <2>2. CASE /\ pc' = [pc EXCEPT ![c] = "dead"]
             /\ UNCHANGED <<listing, idx>>
    BY <1>4, <2>2 DEF WorkerList
  <2>3. QED
    BY <1>4, <2>1, <2>2 DEF WorkerList
<1>5. CASE WorkerScan(c)
  <2>0. /\ UNCHANGED <<after, msg, cwd, listing>>
        /\ UNCHANGED WorkerFrame
        /\ idx[c] \in Nat /\ Len(listing[c]) \in Nat
    BY <1>5 DEF WorkerScan
  <2>1. CASE idx[c] > Len(listing[c])
    <3>1. /\ pc' = [pc EXCEPT ![c] = "downloaded"]
          /\ UNCHANGED <<disk, tempFile, idx>>
      BY <1>5, <2>1 DEF WorkerScan
    <3>2. QED
      BY <2>0, <3>1
  <2>2. CASE idx[c] <= Len(listing[c])
    <3> DEFINE key == listing[c][idx[c]]
    <3>1. key \in Names
      BY <2>0, <2>2, ListingKey
    <3>2. CASE IsSubstring(key, CmdFile[c])
      <4>1. /\ disk' = disk \cup {[dir |-> cwd, key |-> key, run |-> c]}
            /\ tempFile' = [tempFile EXCEPT ![c] = key]
            /\ idx' = [idx EXCEPT ![c] = @ + 1]
            /\ pc' \in {[pc EXCEPT ![c] = "scan"], [pc EXCEPT ![c] = "dead"]}
        BY <1>5, <2>2, <3>2 DEF WorkerScan
      <4>2. disk' \subseteq [dir : ExistingDirs, key : Names, run : Cmds]
        BY <3>1, <4>1
      <4>3. tempFile' \in [Cmds -> Names \cup {NoFile}] /\ idx' \in [Cmds -> Nat \ {0}]
        BY <3>1, <4>1
      <4>4. pc' \in [Actors -> WorkerLabels \cup CBLabels \cup ReportLabels]
        BY <4>1
      <4>5. QED
        BY <2>0, <4>2, <4>3, <4>4
    <3>3. CASE ~IsSubstring(key, CmdFile[c])
      <4>1. idx' = [idx EXCEPT ![c] = @ + 1] /\ UNCHANGED <<pc, disk, tempFile>>
        BY <1>5, <2>2, <3>3 DEF WorkerScan
      <4>2. QED
        BY <2>0, <4>1
    <3>4. QED
      BY <3>2, <3>3
  <2>3. QED
    BY <2>0, <2>1, <2>2
<1>6. CASE WorkerDownloaded(c)
  <2>1. [kind |-> "okay", run |-> c, file |-> tempFile[c]] \in Msgs
    BY DEF Msgs
  <2>2. QED
    BY <1>6, <2>1, ReportCallType DEF WorkerDownloaded
<1>7. CASE WorkerHandoff(c)
  BY <1>7 DEF WorkerHandoff
<1>8. QED
  BY <1>1, <1>2, <1>3, <1>4, <1>5, <1>6, <1>7 DEF WorkerStep

\* Where a started worker can take a step of its own.
WorkingLabels == {"start", "chdir", "creds", "list", "scan", "downloaded",
                  "handoff"}

(* A worker step is taken by a started worker and changes no other       *)
(* thread's pc.                                                           *)
LEMMA WorkerOwnPc ==
    ASSUME TypeOK, BadJsonIdle, NEW c \in Workers, WorkerStep(c)
    PROVE  /\ pc[c] \in WorkingLabels
           /\ pc'[c] \notin {"dump", "send"}
           /\ \A d \in Actors \ {c} : pc'[d] = pc[d]
<1> USE DEF TypeOK, Workers, Actors, WorkingLabels
<1>1. CASE WorkerStart(c)
  <2>1. CASE CmdKind[c] = "flash"
    BY <1>1, <2>1 DEF WorkerStart, Report
  <2>2. CASE CmdKind[c] \in {"other", "nokeys"}
    BY <1>1, <2>2 DEF WorkerStart
  <2>3. CASE CmdKind[c] = "badjson"
    BY <1>1, <2>3 DEF WorkerStart, BadJsonIdle
  <2>4. QED
    BY <2>1, <2>2, <2>3 DEF Kinds
<1>2. CASE WorkerChdir(c)
  BY <1>2 DEF WorkerChdir
<1>3. CASE WorkerCreds(c)
  BY <1>3 DEF WorkerCreds
<1>4. CASE WorkerList(c)
  BY <1>4 DEF WorkerList
<1>5. CASE WorkerScan(c)
  <2>1. CASE idx[c] > Len(listing[c])
    BY <1>5, <2>1 DEF WorkerScan
  <2>2. CASE ~(idx[c] > Len(listing[c]))
    <3>1. CASE IsSubstring(listing[c][idx[c]], CmdFile[c])
      BY <1>5, <2>2, <3>1 DEF WorkerScan
    <3>2. CASE ~IsSubstring(listing[c][idx[c]], CmdFile[c])
      BY <1>5, <2>2, <3>2 DEF WorkerScan
    <3>3. QED
      BY <3>1, <3>2
  <2>3. QED
    BY <2>1, <2>2
<1>6. CASE WorkerDownloaded(c)
  BY <1>6 DEF WorkerDownloaded, Report
<1>7. CASE WorkerHandoff(c)
  BY <1>7 DEF WorkerHandoff
<1>8. QED
  BY <1>1, <1>2, <1>3, <1>4, <1>5, <1>6, <1>7 DEF WorkerStep

(* Every step keeps BadJsonIdle: only Spawn starts a worker, and never  *)
(* one of a command that is not JSON; every other step changes the pc of *)
(* an actor that is already past "idle", or of the callback thread.      *)
LEMMA NextBadJsonIdle ==
    ASSUME TypeOK, BadJsonIdle, [Next]_vars
    PROVE  BadJsonIdle'
<1> USE DEF BadJsonIdle, TypeOK, Actors, Workers
<1>1. CASE Subscribe \/ ConnectionOk
  BY <1>1 DEF Subscribe, ConnectionOk
<1>2. ASSUME NEW c \in Cmds, Deliver(c) PROVE BadJsonIdle'
  BY <1>2 DEF Deliver, Report
<1>3. CASE Spawn
  BY <1>3 DEF Spawn, Report
<1>4. ASSUME NEW a \in Actors, ReportStep(a) PROVE BadJsonIdle'
  <2>1. pc[a] \in ReportLabels
    BY <1>4 DEF ReportStep, ReportAppend, ReportDump, ReportSend, ReportLabels
  <2>2. \E l : pc' = [pc EXCEPT ![a] = l]
    BY <1>4 DEF ReportStep, ReportAppend, ReportDump, ReportSend
  <2>3. QED
    BY <2>1, <2>2 DEF ReportLabels
<1>5. ASSUME NEW c \in Workers, WorkerStep(c) PROVE BadJsonIdle'
  BY <1>5, WorkerOwnPc DEF WorkingLabels
<1>6. CASE UNCHANGED vars
  BY <1>6 DEF vars
<1>7. QED
  BY <1>1, <1>2, <1>3, <1>4, <1>5, <1>6 DEF Next

(* Every step keeps the types. *)
LEMMA NextTypeOK ==
    ASSUME TypeOK, BadJsonIdle, [Next]_vars
    PROVE  TypeOK'
<1>1. CASE Subscribe
  BY <1>1 DEF Subscribe, TypeOK
<1>2. CASE ConnectionOk
  BY <1>2 DEF ConnectionOk, TypeOK
<1>3. ASSUME NEW c \in Cmds, Deliver(c) PROVE TypeOK'
  <2>1. [kind |-> "received", run |-> c, file |-> NoFile] \in Msgs
    BY DEF Msgs
  <2>2. Report(CB, [kind |-> "received", run |-> c, file |-> NoFile], "spawn")
    BY <1>3 DEF Deliver
  <2>3. /\ pc' \in [Actors -> WorkerLabels \cup CBLabels \cup ReportLabels]
        /\ after' \in [Actors -> WorkerLabels \cup CBLabels]
        /\ msg' \in [Actors -> Msgs]
    BY <2>1, <2>2, ReportCallType DEF Actors, CBLabels
  <2>4. /\ pending' \subseteq Cmds /\ buffer' \in Seq(Msgs) /\ cbCmd' \in Cmds
        /\ UNCHANGED <<subscribed, awsConnectionOk, retained, snap, cwd, disk,
                       tempFile, listing, idx>>
    BY <1>3 DEF Deliver, TypeOK
  <2>5. QED
    BY <2>3, <2>4 DEF TypeOK
<1>4. CASE Spawn
  <2>1. [kind |-> "failed", run |-> cbCmd, file |-> NoFile] \in Msgs
    BY DEF Msgs, TypeOK
  <2>2. CASE CmdKind[cbCmd] = "badjson"
    BY <1>4, <2>1, <2>2, ReportCallType DEF Spawn, TypeOK, Actors, CBLabels
  <2>3. CASE CmdKind[cbCmd] # "badjson"
    BY <1>4, <2>3 DEF Spawn, TypeOK, Actors, WorkerLabels, CBLabels
  <2>4. QED
    BY <2>2, <2>3
<1>5. CASE \E a \in Actors : ReportStep(a)
  BY <1>5, ReportTypeOK
<1>6. CASE \E c \in Workers : WorkerStep(c)
  BY <1>6, WorkerTypeOK
<1>7. CASE UNCHANGED vars
  BY <1>7 DEF vars, TypeOK
<1>8. QED
  BY <1>1, <1>2, <1>3, <1>4, <1>5, <1>6, <1>7 DEF Next

LEMMA InitTInv == Init => TInv
BY InitTypeOK DEF Init, TInv, BadJsonIdle, Actors

(* Every reachable state is well typed. *)
THEOREM TypeCorrect == Spec => []TypeOK
<1>1. TInv /\ [Next]_vars => TInv'
  BY NextTypeOK, NextBadJsonIdle DEF TInv
<1>2. QED
  BY InitTInv, <1>1, PTL DEF Spec, TInv

=============================================================================
