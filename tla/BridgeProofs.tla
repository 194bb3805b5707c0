---------------------------- MODULE BridgeProofs ----------------------------
(***************************************************************************)
(* Proofs about Bridge, for every set of messages, config values and      *)
(* timing constants that satisfies BridgeAssumption.                       *)
(*                                                                         *)
(* ConfigLastWriteWins is inductive together with TypeOK: a merge either   *)
(* happens with the update of lastWriter for exactly the keys of the       *)
(* message, or neither happens (the handler raised in the uploader).      *)
(***************************************************************************)
EXTENDS Bridge, TLAPS

-----------------------------------------------------------------------------
(* A saturating addition of a natural stays within the cap. *)
LEMMA SatAddType ==
    ASSUME NEW x \in 0..TimeCap, NEW d \in Nat
    PROVE  SatAdd(x, d) \in 0..TimeCap
BY BridgeAssumption DEF SatAdd

(* Every message's config part is a config mapping. *)
LEMMA MsgCfgType ==
    ASSUME NEW m \in Msgs
    PROVE  MsgCfg[m] \in CfgMap
BY BridgeAssumption DEF CfgMap

(* Merging two config mappings yields one, over the union of their keys. *)
LEMMA MergeType ==
    ASSUME NEW old \in CfgMap, NEW new \in CfgMap
    PROVE  /\ Merge(old, new) \in CfgMap
           /\ DOMAIN Merge(old, new) = DOMAIN old \cup DOMAIN new
<1>1. PICK K1 \in SUBSET CfgKeys : old \in [K1 -> CfgValues]
  BY DEF CfgMap
<1>2. PICK K2 \in SUBSET CfgKeys : new \in [K2 -> CfgValues]
  BY DEF CfgMap
<1>3. Merge(old, new) \in [K1 \cup K2 -> CfgValues]
  BY <1>1, <1>2 DEF Merge
<1>4. K1 \cup K2 \in SUBSET CfgKeys
  BY <1>1, <1>2
<1>5. QED
  BY <1>1, <1>2, <1>3, <1>4 DEF CfgMap, Merge

(* A key of a config mapping carries a config value. *)
LEMMA CfgValue ==
    ASSUME NEW c \in CfgMap, NEW k \in DOMAIN c
    PROVE  c[k] \in CfgValues
BY DEF CfgMap

(* The keys of a config mapping are config keys. *)
LEMMA CfgDomain ==
    ASSUME NEW c \in CfgMap
    PROVE  DOMAIN c \subseteq CfgKeys
BY DEF CfgMap

LEMMA InitTypeOK == Init => TypeOK
<1> SUFFICES ASSUME Init PROVE TypeOK
  OBVIOUS
<1>1. [k \in {} |-> NoValue] \in CfgMap
  <2>1. [k \in {} |-> NoValue] \in [{} -> CfgValues]
    OBVIOUS
  <2>2. QED
    BY <2>1 DEF CfgMap
<1>2. 0 \in 0..TimeCap
  BY BridgeAssumption
<1>3. [k \in CfgKeys |-> NoMsg] \in [CfgKeys -> Msgs \cup {NoMsg}]
  OBVIOUS
<1>4. /\ awsPc \in {"connect", "subscribe", "ok", "sleep", "write", "exited"}
      /\ subIdx \in 1..3
      /\ link \in {"up", "down"}
  BY DEF Init
<1>8. clientTopics \subseteq Topics /\ session \subseteq clientTopics
  BY DEF Init
<1>9. awsConnectionOk \in BOOLEAN /\ over \in BOOLEAN
  BY Zenon DEF Init
<1>5. /\ stateUpdateRateMs \in CfgValues \cup {ActiveRateMs, IdleRateMs}
      /\ userDefinedStateUpdateRateMs \in CfgValues \cup {ActiveRateMs}
      /\ idleStateTriggerTimeMs \in CfgValues \cup {IdleTriggerMs}
      /\ ignoreList \in CfgValues \cup {NoValue}
  BY DEF Init
<1>6. /\ inbox \subseteq Msgs /\ handled \subseteq Msgs
      /\ acked \subseteq handled /\ applied \subseteq handled
      /\ resubPending \in BOOLEAN /\ exitRaised \in BOOLEAN
  BY DEF Init
<1>7. QED
  BY <1>1, <1>2, <1>3, <1>4, <1>5, <1>6, <1>8, <1>9 DEF Init, TypeOK

-----------------------------------------------------------------------------
(* The config handler keeps the types, whether or not the uploader raised. *)
LEMMA HandleConfigTypeOK ==
    ASSUME TypeOK, NEW m \in Msgs, HandleConfig(m)
    PROVE  TypeOK'
<1> DEFINE c == MsgCfg[m]
<1>1. c \in CfgMap
  BY MsgCfgType
<1>2. ignoreList' \in CfgValues \cup {NoValue}
  BY <1>1, CfgValue DEF HandleConfig, Has, TypeOK
<1>3. /\ stateUpdateRateMs' \in CfgValues \cup {ActiveRateMs, IdleRateMs}
      /\ userDefinedStateUpdateRateMs' \in CfgValues \cup {ActiveRateMs}
  BY <1>1, CfgValue DEF HandleConfig, Has, TypeOK
<1>4. idleStateTriggerTimeMs' \in CfgValues \cup {IdleTriggerMs}
  BY <1>1, CfgValue DEF HandleConfig, Has, TypeOK
<1>5. /\ config' \in CfgMap
      /\ lastWriter' \in [CfgKeys -> Msgs \cup {NoMsg}]
  <2>1. PICK raised \in BOOLEAN :
            IF raised THEN UNCHANGED <<config, lastWriter>>
                      ELSE /\ config' = Merge(config, c)
                           /\ lastWriter' = [k \in CfgKeys |->
                                               IF Has(m, k) THEN m ELSE lastWriter[k]]
    BY DEF HandleConfig
  <2>2. CASE raised
    BY <2>1, <2>2 DEF TypeOK
  <2>3. CASE ~raised
    BY <1>1, <2>1, <2>3, MergeType DEF TypeOK
  <2>4. QED
    BY <2>2, <2>3
<1>6. sinceInbound' \in 0..TimeCap
  BY BridgeAssumption DEF HandleConfig
<1>7. QED
  BY <1>2, <1>3, <1>4, <1>5, <1>6 DEF HandleConfig, Deliverable, TypeOK

(* Every step keeps the variables within their types. *)
LEMMA NextTypeOK == TypeOK /\ [Next]_vars => TypeOK'
<1> SUFFICES ASSUME TypeOK, [Next]_vars PROVE TypeOK'
  OBVIOUS
<1> USE BridgeAssumption DEF CallbackState, HandlerState
<1>1. CASE Connect
  BY <1>1 DEF Connect, TypeOK
<1>2. CASE SubscribeTopic
  <2>1. TopicOrder[subIdx] \in Topics
    BY DEF TypeOK, TopicOrder, Topics
  <2>2. QED
    BY <1>2, <2>1 DEF SubscribeTopic, TypeOK
<1>3. CASE ConnectionOk
  BY <1>3 DEF ConnectionOk, TypeOK
<1>4. CASE IdleRead
  <2>1. SatAdd(sinceReceive, TickMs) \in 0..TimeCap
        /\ SatAdd(sinceInbound, TickMs) \in 0..TimeCap
    BY SatAddType DEF TypeOK
  <2>2. QED
    BY <1>4, <2>1 DEF IdleRead, TypeOK
<1>5. CASE IdleWrite
  BY <1>5 DEF IdleWrite, TypeOK
<1>6. CASE Interrupt
  BY <1>6 DEF Interrupt, TypeOK
<1>7. CASE Resume
  BY <1>7 DEF Resume, TypeOK
<1>8. CASE ResubscribeComplete
  BY <1>8 DEF ResubscribeComplete, TypeOK
<1>9. ASSUME NEW m \in Msgs, HandleSignal(m) PROVE TypeOK'
  BY <1>9 DEF HandleSignal, Deliverable, AckedAfter, TransmitOutcomes, TypeOK
<1>10. ASSUME NEW m \in Msgs, HandleConfig(m) PROVE TypeOK'
  BY <1>10, HandleConfigTypeOK
<1>11. CASE UNCHANGED vars
  BY <1>11 DEF vars, TypeOK
<1>12. QED
  BY <1>1, <1>2, <1>3, <1>4, <1>5, <1>6, <1>7, <1>8, <1>9, <1>10, <1>11 DEF Next

(* The variables always have their types. *)
THEOREM TypeCorrect == Spec => []TypeOK
BY InitTypeOK, NextTypeOK, PTL DEF Spec

-----------------------------------------------------------------------------
(* The config handler keeps the last-write-wins relation between config   *)
(* and lastWriter: the keys the message carries take its values and name  *)
(* it, the other keys keep both.                                          *)
LEMMA HandleConfigLWW ==
    ASSUME TypeOK, ConfigLastWriteWins, NEW m \in Msgs, HandleConfig(m)
    PROVE  ConfigLastWriteWins'
<1> DEFINE c == MsgCfg[m]
<1>1. c \in CfgMap
  BY MsgCfgType
<1>2. PICK raised \in BOOLEAN :
          IF raised THEN UNCHANGED <<config, lastWriter>>
                    ELSE /\ config' = Merge(config, c)
                         /\ lastWriter' = [k \in CfgKeys |->
                                             IF Has(m, k) THEN m ELSE lastWriter[k]]
  BY DEF HandleConfig
<1>3. CASE raised
  BY <1>2, <1>3 DEF ConfigLastWriteWins
<1>4. CASE ~raised
  <2> SUFFICES ASSUME NEW k \in DOMAIN config'
               PROVE  /\ lastWriter'[k] \in Msgs
                      /\ config'[k] = MsgCfg[lastWriter'[k]][k]
    BY DEF ConfigLastWriteWins
  <2>1. config' = Merge(config, c)
        /\ lastWriter' = [j \in CfgKeys |-> IF Has(m, j) THEN m ELSE lastWriter[j]]
    BY <1>2, <1>4
  <2>2. config \in CfgMap /\ DOMAIN c \subseteq CfgKeys /\ DOMAIN config \subseteq CfgKeys
    BY <1>1, CfgDomain DEF TypeOK
  <2>3. k \in DOMAIN config \cup DOMAIN c
    BY <1>1, <2>1, <2>2, MergeType
  <2>4. CASE k \in DOMAIN c
    <3>1. config'[k] = c[k]
      BY <2>1, <2>3, <2>4 DEF Merge
    <3>2. lastWriter'[k] = m
      BY <2>1, <2>2, <2>4 DEF Has
    <3>3. QED
      BY <3>1, <3>2
  <2>5. CASE k \notin DOMAIN c
    <3>1. k \in DOMAIN config
      BY <2>3, <2>5
    <3>2. config'[k] = config[k]
      BY <2>1, <2>3, <2>5 DEF Merge
    <3>3. lastWriter'[k] = lastWriter[k]
      BY <2>1, <2>2, <2>5, <3>1 DEF Has
    <3>4. QED
      BY <3>1, <3>2, <3>3 DEF ConfigLastWriteWins
  <2>6. QED
    BY <2>4, <2>5
<1>5. QED
  BY <1>3, <1>4

(* TypeOK and ConfigLastWriteWins together hold in every state. *)
LEMMA LWWInductive == Spec => [](TypeOK /\ ConfigLastWriteWins)
<1>1. Init => ConfigLastWriteWins
  BY DEF Init, ConfigLastWriteWins
<1>2. TypeOK /\ ConfigLastWriteWins /\ [Next]_vars => ConfigLastWriteWins'
  <2> SUFFICES ASSUME TypeOK, ConfigLastWriteWins, [Next]_vars
               PROVE  ConfigLastWriteWins'
    OBVIOUS
  <2> USE DEF CallbackState, HandlerState
  <2>1. ASSUME NEW m \in Msgs, HandleConfig(m) PROVE ConfigLastWriteWins'
    BY <2>1, HandleConfigLWW
  <2>2. ASSUME NEW m \in Msgs, HandleSignal(m) PROVE ConfigLastWriteWins'
    BY <2>2 DEF HandleSignal, ConfigLastWriteWins
  <2>3. CASE UNCHANGED <<config, lastWriter>>
    BY <2>3 DEF ConfigLastWriteWins
  <2>4. QED
    BY <2>1, <2>2, <2>3 DEF Next, vars, Connect, SubscribeTopic, ConnectionOk,
       IdleRead, IdleWrite, Interrupt, Resume, ResubscribeComplete
<1>3. QED
  BY <1>1, <1>2, InitTypeOK, NextTypeOK, PTL DEF Spec

(* Whatever order the broker delivers config messages in, and whichever   *)
(* of them fail in the uploader before the merge, every key of the echoed *)
(* mapping holds the value of the last merged message that carried it --  *)
(* for every set of messages and values.                                  *)
THEOREM LastWriteWins == Spec => []ConfigLastWriteWins
BY LWWInductive, PTL


-----------------------------------------------------------------------------
(* The topics the AWS thread has subscribed before the i-th subscribe      *)
(* call of its loop over the three topic names.                            *)
SubscribedBefore(i) == {TopicOrder[j] : j \in 1..(i - 1)}

(* What the subscription sequence of the AWS thread and the resubscribe   *)
(* callbacks keep true: the client's topics are those the loop got        *)
(* through, all three once it is past them; awsConnectionOk is set only   *)
(* after that; and, with no resubscribe outstanding and none rejected,    *)
(* the broker's session holds exactly the client's topics.                *)
ConnInv ==
    /\ TypeOK
    /\ awsPc = "connect" => subIdx = 1
    /\ awsPc \in {"connect", "subscribe"} => clientTopics = SubscribedBefore(subIdx)
    /\ awsPc \in {"ok", "sleep", "write"} => clientTopics = Topics
    /\ awsConnectionOk => awsPc \in {"sleep", "write"}
    /\ (~resubPending /\ ~exitRaised) => session = clientTopics

(* The subscribe loop over TopicOrder adds one topic per call and ends    *)
(* with all three.                                                         *)
LEMMA SubscribedBeforeSteps ==
    /\ SubscribedBefore(1) = {}
    /\ \A i \in 1..2 : SubscribedBefore(i) \cup {TopicOrder[i]} = SubscribedBefore(i + 1)
    /\ SubscribedBefore(3) \cup {TopicOrder[3]} = Topics
<1>1. SubscribedBefore(1) = {}
  BY DEF SubscribedBefore
<1>2. SubscribedBefore(2) = {"signal"}
  BY DEF SubscribedBefore, TopicOrder
<1>3. SubscribedBefore(3) = {"signal", "config"}
  BY DEF SubscribedBefore, TopicOrder
<1>4. QED
  BY <1>1, <1>2, <1>3 DEF TopicOrder, Topics

(* What the AWS thread's connection variables are, the actions other than *)
(* its own steps and the connection events leave alone.                   *)
ConnVars == <<awsPc, subIdx, clientTopics, session, awsConnectionOk,
              resubPending, exitRaised>>

LEMMA NextConnInv == ConnInv /\ [Next]_vars => ConnInv'
<1> SUFFICES ASSUME ConnInv, [Next]_vars PROVE ConnInv'
  OBVIOUS
<1>0. TypeOK'
  BY NextTypeOK DEF ConnInv
<1> USE DEF CallbackState, HandlerState
<1>1. CASE Connect
  BY <1>0, <1>1 DEF Connect, ConnInv
<1>2. CASE SubscribeTopic
  <2>1. subIdx \in 1..3 /\ clientTopics = SubscribedBefore(subIdx)
    BY <1>2 DEF SubscribeTopic, ConnInv, TypeOK
  <2>2. CASE awsPc' = "exited"
    BY <1>0, <1>2, <2>2 DEF SubscribeTopic, ConnInv
  <2>3. CASE awsPc' # "exited"
    <3>1. /\ clientTopics' = clientTopics \cup {TopicOrder[subIdx]}
          /\ session' = session \cup {TopicOrder[subIdx]}
          /\ IF subIdx = 3 THEN awsPc' = "ok" /\ subIdx' = subIdx
                           ELSE subIdx' = subIdx + 1 /\ awsPc' = "subscribe"
          /\ UNCHANGED <<awsConnectionOk, resubPending, exitRaised>>
      BY <1>2, <2>3 DEF SubscribeTopic
    <3>2. awsPc' \in {"connect", "subscribe"} => clientTopics' = SubscribedBefore(subIdx')
      BY <2>1, <3>1, SubscribedBeforeSteps
    <3>3. awsPc' \in {"ok", "sleep", "write"} => clientTopics' = Topics
      BY <2>1, <3>1, SubscribedBeforeSteps
    <3>4. QED
      BY <1>0, <1>2, <3>1, <3>2, <3>3 DEF ConnInv, SubscribeTopic
  <2>4. QED
    BY <2>2, <2>3
<1>3. CASE ConnectionOk
  BY <1>0, <1>3 DEF ConnectionOk, ConnInv
<1>4. CASE IdleRead \/ IdleWrite
  BY <1>0, <1>4 DEF IdleRead, IdleWrite, ConnInv
<1>5. CASE Interrupt \/ Resume
  BY <1>0, <1>5 DEF Interrupt, Resume, ConnInv
<1>6. CASE ResubscribeComplete
  BY <1>0, <1>6 DEF ResubscribeComplete, ConnInv
<1>7. ASSUME NEW m \in Msgs, HandleSignal(m) \/ HandleConfig(m)
      PROVE  ConnInv'
  <2>1. UNCHANGED ConnVars
    BY <1>7 DEF HandleSignal, HandleConfig, ConnVars
  <2>2. QED
    BY <1>0, <2>1 DEF ConnVars, ConnInv
<1>8. CASE UNCHANGED vars
  BY <1>0, <1>8 DEF vars, ConnInv
<1>9. QED
  BY <1>1, <1>2, <1>3, <1>4, <1>5, <1>6, <1>7, <1>8 DEF Next

(* Whatever the connection does -- drops, resumptions with or without a    *)
(* session kept by the broker, resubscriptions granted -- the bridge that *)
(* set awsConnectionOk listens on all three topics unless a resubscribe is *)
(* outstanding or on_resubscribe_complete met a rejection: the rejection   *)
(* whose sys.exit leaves the loop serving deaf is the only way out.        *)
THEOREM ServesAllTopics == Spec => []ServingAllTopics
<1>1. Init => ConnInv
  BY InitTypeOK, SubscribedBeforeSteps DEF Init, ConnInv
<1>2. ConnInv => ServingAllTopics
  BY DEF ConnInv, ServingAllTopics
<1>3. QED
  BY <1>1, <1>2, NextConnInv, PTL DEF Spec

=============================================================================
