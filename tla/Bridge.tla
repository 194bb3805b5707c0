-------------------------------- MODULE Bridge -------------------------------
(***************************************************************************)
(* The transport bridge of main.py: the connection lifecycle run by the    *)
(* AWS thread (initAWSConnection, 169-241), the idle-rate check of its     *)
(* loop, and the callbacks awscrt runs on its event-loop thread: the       *)
(* signal and config message handlers (272-322) and the resumption and     *)
(* resubscription handlers (243-269).                                      *)
(*                                                                         *)
(* The frame and its publication are StatePublisher's; the fota topic's    *)
(* messages are FotaPipeline's.  Here the fota topic matters only as one   *)
(* of the three subscriptions.  The callbacks run one at a time on the     *)
(* event-loop thread, so each is one action; the AWS loop's idle check     *)
(* reads lastReceiveTime in one step and writes stateUpdateRateMs in the   *)
(* next, and the callbacks can run in between.                             *)
(***************************************************************************)
EXTENDS Naturals, FiniteSets

CONSTANTS
    Msgs,            \* inbound signal and config messages
    MsgTopic,        \* Msgs -> {"signal", "config"}
    HasSession,      \* Msgs -> BOOLEAN: a signal message carries "sessionId"
    MsgCfg,          \* Msgs -> the keys and values of a config message
    CfgValues,       \* the values a config key may carry
    ExistingDirs,    \* directories os.chdir succeeds on
    TickMs,          \* time.sleep(0.2)
    IdleTriggerMs,   \* IDLE_STATE_TRIGGER_TIME_MS
    IdleRateMs,      \* IDLE_STATE_PUBLISH_INTERVALL_MS
    ActiveRateMs,    \* STATE_PUBLISH_INTERVALL_MS
    TimeCap,         \* timers saturate here: above every threshold compared
    NoValue,         \* a config key never set
    NoMsg            \* no message

\* The three device-scoped topics, in the order initAWSConnection
\* subscribes them.
TopicOrder == <<"signal", "config", "fota">>
Topics == {"signal", "config", "fota"}

\* The config keys whose handling changes state here.
CfgKeys == {"ignoreList", "stateUpdateRateMs", "idleStateTriggerTimeMs", "scan"}

ASSUME BridgeAssumption ==
    /\ IsFiniteSet(Msgs)
    /\ MsgTopic \in [Msgs -> {"signal", "config"}]
    /\ HasSession \in [Msgs -> BOOLEAN]
    /\ \A m \in Msgs : \E K \in SUBSET CfgKeys : MsgCfg[m] \in [K -> CfgValues]
    /\ TickMs \in Nat \ {0}
    /\ IdleTriggerMs \in Nat /\ IdleRateMs \in Nat /\ ActiveRateMs \in Nat
    /\ TimeCap \in Nat /\ TimeCap > IdleTriggerMs
    /\ NoValue \notin CfgValues /\ NoMsg \notin Msgs

VARIABLES
    awsPc,             \* where the AWS thread is
    subIdx,            \* the next topic it subscribes
    clientTopics,      \* topics the client has subscribed (it resubscribes these)
    session,           \* topics active at the broker
    link,              \* "up" or "down": the MQTT connection
    awsConnectionOk,
    over,              \* the AWS thread's `currentTime - lastReceiveTime > ...`
    sinceReceive,      \* currentTime - lastReceiveTime
    sinceInbound,      \* time since any inbound message (history, spec 4.7)
    stateUpdateRateMs,
    userDefinedStateUpdateRateMs,
    idleStateTriggerTimeMs,
    ignoreList,
    config,            \* the merged config mapping, echoed after each merge
    lastWriter,        \* per key, the message its merged value came from (history)
    inbox,             \* messages the broker has yet to deliver
    handled,           \* signal messages whose handler ran (history)
    acked,             \* signal messages acknowledged upstream
    applied,           \* signal messages written to the vehicle bus
    resubPending,      \* a resubscribe is outstanding
    exitRaised         \* sys.exit was called in a callback

vars == <<awsPc, subIdx, clientTopics, session, link, awsConnectionOk, over,
          sinceReceive, sinceInbound, stateUpdateRateMs,
          userDefinedStateUpdateRateMs, idleStateTriggerTimeMs, ignoreList,
          config, lastWriter, inbox, handled, acked, applied, resubPending,
          exitRaised>>

\* The code's millisecond differences grow without bound; the model caps
\* them at TimeCap, a bound above every threshold they are compared with.
SatAdd(x, d) == IF x + d > TimeCap THEN TimeCap ELSE x + d

\* `{**self.config, **parsedMessage}`: last write wins per key.
Merge(old, new) ==
    [k \in DOMAIN old \cup DOMAIN new |-> IF k \in DOMAIN new THEN new[k] ELSE old[k]]

Has(m, k) == k \in DOMAIN MsgCfg[m]

-----------------------------------------------------------------------------
Init ==
    /\ awsPc = "connect"
    /\ subIdx = 1
    /\ clientTopics = {}
    /\ session = {}
    /\ link = "down"
    /\ awsConnectionOk = FALSE
    /\ over = FALSE
    /\ sinceReceive = 0
    /\ sinceInbound = 0
    /\ stateUpdateRateMs = ActiveRateMs
    /\ userDefinedStateUpdateRateMs = ActiveRateMs
    /\ idleStateTriggerTimeMs = IdleTriggerMs
    /\ ignoreList = NoValue
    /\ config = [k \in {} |-> NoValue]
    /\ lastWriter = [k \in CfgKeys |-> NoMsg]
    /\ inbox = Msgs
    /\ handled = {}
    /\ acked = {}
    /\ applied = {}
    /\ resubPending = FALSE
    /\ exitRaised = FALSE

\* What the AWS thread's steps leave alone.
CallbackState == <<stateUpdateRateMs, userDefinedStateUpdateRateMs,
                   idleStateTriggerTimeMs, ignoreList, config, lastWriter,
                   inbox, handled, acked, applied, resubPending, exitRaised>>

(* `connect_future.result()`: the connection comes up, or the call raises *)
(* and `sys.exit(-1)` ends the AWS thread (only that thread).             *)
Connect ==
    /\ awsPc = "connect"
    /\ \/ /\ link' = "up"
          /\ awsPc' = "subscribe"
       \/ /\ awsPc' = "exited"
          /\ UNCHANGED link
    /\ UNCHANGED <<subIdx, clientTopics, session, awsConnectionOk, over,
                   sinceReceive, sinceInbound>>
    /\ UNCHANGED CallbackState

(* One `subscribe(...)` and `subscribe_future.result()`: the topic is     *)
(* active from then on; an error raised by result() ends the thread.      *)
SubscribeTopic ==
    /\ awsPc = "subscribe"
    /\ link = "up"
    /\ \/ /\ clientTopics' = clientTopics \cup {TopicOrder[subIdx]}
          /\ session' = session \cup {TopicOrder[subIdx]}
          /\ IF subIdx = 3
             THEN /\ awsPc' = "ok" /\ UNCHANGED subIdx
             ELSE /\ subIdx' = subIdx + 1 /\ UNCHANGED awsPc
       \/ /\ awsPc' = "exited"
          /\ UNCHANGED <<subIdx, clientTopics, session>>
    /\ UNCHANGED <<link, awsConnectionOk, over, sinceReceive, sinceInbound>>
    /\ UNCHANGED CallbackState

(* `self.awsConnectionOk = True`, after the three subscriptions. *)
ConnectionOk ==
    /\ awsPc = "ok"
    /\ awsConnectionOk' = TRUE
    /\ awsPc' = "sleep"
    /\ UNCHANGED <<subIdx, clientTopics, session, link, over, sinceReceive,
                   sinceInbound>>
    /\ UNCHANGED CallbackState

\* Mutant: the loop sleeps but its clock does not move.
IdleReadStale ==
    /\ awsPc = "sleep"
    /\ over' = (sinceReceive > IdleTriggerMs)
    /\ awsPc' = "write"
    /\ UNCHANGED <<subIdx, clientTopics, session, link, awsConnectionOk,
                   sinceReceive, sinceInbound>>
    /\ UNCHANGED CallbackState

(* `time.sleep(0.2)`, then `(currentTime - self.lastReceiveTime) >        *)
(* IDLE_STATE_TRIGGER_TIME_MS`: the module constant, not the configured   *)
(* self.idleStateTriggerTimeMs.                                           *)
IdleRead ==
    /\ awsPc = "sleep"
    /\ sinceReceive' = SatAdd(sinceReceive, TickMs)
    /\ sinceInbound' = SatAdd(sinceInbound, TickMs)
    /\ over' = (sinceReceive' > IdleTriggerMs)
    /\ awsPc' = "write"
    /\ UNCHANGED <<subIdx, clientTopics, session, link, awsConnectionOk>>
    /\ UNCHANGED CallbackState

(* `self.stateUpdateRateMs = IDLE_STATE_PUBLISH_INTERVALL_MS` when the    *)
(* comparison held; then publishState (StatePublisher's).                 *)
IdleWrite ==
    /\ awsPc = "write"
    /\ stateUpdateRateMs' = IF over THEN IdleRateMs ELSE stateUpdateRateMs
    /\ awsPc' = "sleep"
    /\ UNCHANGED <<subIdx, clientTopics, session, link, awsConnectionOk, over,
                   sinceReceive, sinceInbound, userDefinedStateUpdateRateMs,
                   idleStateTriggerTimeMs, ignoreList, config, lastWriter,
                   inbox, handled, acked, applied, resubPending, exitRaised>>

-----------------------------------------------------------------------------
\* What the connection events leave alone.
HandlerState == <<awsPc, subIdx, clientTopics, awsConnectionOk, over,
                  sinceReceive, sinceInbound, stateUpdateRateMs,
                  userDefinedStateUpdateRateMs, idleStateTriggerTimeMs,
                  ignoreList, config, lastWriter, inbox, handled, acked,
                  applied>>

(* The connection drops; on_connection_interrupted only prints, so        *)
(* awsConnectionOk stays TRUE.                                            *)
Interrupt ==
    /\ link = "up"
    /\ link' = "down"
    /\ UNCHANGED <<session, resubPending, exitRaised>>
    /\ UNCHANGED HandlerState

\* Mutant: on_connection_resumed ignores session_present and never resubscribes.
ResumeNoResubscribe ==
    /\ link = "down"
    /\ awsPc # "connect"
    /\ link' = "up"
    /\ \/ UNCHANGED <<session, resubPending>>
       \/ /\ session' = {}
          /\ UNCHANGED resubPending
    /\ UNCHANGED exitRaised
    /\ UNCHANGED HandlerState

(* awscrt resumes the connection; on_connection_resumed: when the broker  *)
(* kept no session, every subscription is gone and                        *)
(* `resubscribe_existing_topics()` is issued.                             *)
Resume ==
    /\ link = "down"
    /\ awsPc # "connect"
    /\ link' = "up"
    /\ \/ UNCHANGED <<session, resubPending>>
       \/ /\ session' = {}
          /\ resubPending' = TRUE
    /\ UNCHANGED exitRaised
    /\ UNCHANGED HandlerState

(* on_resubscribe_complete: the broker grants or rejects each topic; a    *)
(* rejection calls sys.exit, which raises SystemExit in this callback     *)
(* thread only -- the process and the AWS loop go on.                     *)
ResubscribeComplete ==
    /\ resubPending
    /\ link = "up"
    /\ \E rejected \in SUBSET clientTopics :
          /\ session' = clientTopics \ rejected
          /\ exitRaised' = (exitRaised \/ rejected # {})
    /\ resubPending' = FALSE
    /\ UNCHANGED link
    /\ UNCHANGED HandlerState

-----------------------------------------------------------------------------
\* The broker delivers m: the connection is up and its topic subscribed.
Deliverable(m) ==
    /\ m \in inbox
    /\ link = "up"
    /\ MsgTopic[m] \in session

(* publishACKMessage: `{"ack": sessionId}` is published only while       *)
(* awsConnectionOk and when the message has a sessionId.                  *)
AckedAfter(m) ==
    IF awsConnectionOk /\ HasSession[m] THEN acked \cup {m} ELSE acked

(* ConnectorApp.transmit: the datapoint is written to the vehicle bus, or *)
(* the write raises and the exception is caught and printed.              *)
TransmitOutcomes(m) == {applied \cup {m}, applied}

(* on_signal_message_received: publishACKMessage (an ack only while      *)
(* awsConnectionOk and when the message has a sessionId), then            *)
(* lastReceiveTime and the active rate, then transmit to the vehicle bus, *)
(* which catches and prints its own errors.                               *)
HandleSignal(m) ==
    /\ Deliverable(m)
    /\ MsgTopic[m] = "signal"
    /\ inbox' = inbox \ {m}
    /\ handled' = handled \cup {m}
    /\ acked' = AckedAfter(m)
    /\ sinceReceive' = 0
    /\ sinceInbound' = 0
    /\ stateUpdateRateMs' = userDefinedStateUpdateRateMs
    /\ applied' \in TransmitOutcomes(m)
    /\ UNCHANGED <<awsPc, subIdx, clientTopics, session, link, awsConnectionOk,
                   over, userDefinedStateUpdateRateMs, idleStateTriggerTimeMs,
                   ignoreList, config, lastWriter, resubPending, exitRaised>>

(* on_config_message_received, key by key in the code's order.  A        *)
(* scan_and_upload request runs the uploader right here; its os.chdir     *)
(* (or its loadConfig) raises for a missing directory (or file), and the  *)
(* handler stops there: the keys before it are applied, the merge and the *)
(* echo of the mapping never happen.                                      *)
HandleConfig(m) ==
    /\ Deliverable(m)
    /\ MsgTopic[m] = "config"
    /\ LET c == MsgCfg[m] IN
       /\ inbox' = inbox \ {m}
       /\ sinceInbound' = 0
       /\ ignoreList' = IF Has(m, "ignoreList") THEN c["ignoreList"] ELSE ignoreList
       /\ IF Has(m, "stateUpdateRateMs")
          THEN /\ userDefinedStateUpdateRateMs' = c["stateUpdateRateMs"]
               /\ stateUpdateRateMs' = c["stateUpdateRateMs"]
          ELSE UNCHANGED <<userDefinedStateUpdateRateMs, stateUpdateRateMs>>
       /\ idleStateTriggerTimeMs' =
             IF Has(m, "idleStateTriggerTimeMs") THEN c["idleStateTriggerTimeMs"]
                                                 ELSE idleStateTriggerTimeMs
       /\ \E raised \in BOOLEAN :
             /\ raised => Has(m, "scan")
             /\ Has(m, "scan") /\ c["scan"] \notin ExistingDirs => raised
             /\ IF raised
                THEN UNCHANGED <<config, lastWriter>>
                ELSE /\ config' = Merge(config, c)
                     /\ lastWriter' = [k \in CfgKeys |->
                                         IF Has(m, k) THEN m ELSE lastWriter[k]]
    /\ UNCHANGED <<awsPc, subIdx, clientTopics, session, link, awsConnectionOk,
                   over, sinceReceive, handled, acked, applied, resubPending,
                   exitRaised>>

-----------------------------------------------------------------------------
Next ==
    \/ Connect
    \/ SubscribeTopic
    \/ ConnectionOk
    \/ IdleRead
    \/ IdleWrite
    \/ Interrupt
    \/ Resume
    \/ ResubscribeComplete
    \/ \E m \in Msgs : HandleSignal(m) \/ HandleConfig(m)

(* The AWS loop is a `while True` around a sleep: weakly fair.  The       *)
(* broker, the connection and the deliveries get no fairness.             *)
Fairness == WF_vars(IdleRead \/ IdleWrite)

Spec == Init /\ [][Next]_vars

FairSpec == Spec /\ Fairness

-----------------------------------------------------------------------------
CfgMap == UNION {[K -> CfgValues] : K \in SUBSET CfgKeys}

TypeOK ==
    /\ awsPc \in {"connect", "subscribe", "ok", "sleep", "write", "exited"}
    /\ subIdx \in 1..3
    /\ clientTopics \subseteq Topics
    /\ session \subseteq clientTopics
    /\ link \in {"up", "down"}
    /\ awsConnectionOk \in BOOLEAN
    /\ over \in BOOLEAN
    /\ sinceReceive \in 0..TimeCap
    /\ sinceInbound \in 0..TimeCap
    /\ stateUpdateRateMs \in CfgValues \cup {ActiveRateMs, IdleRateMs}
    /\ userDefinedStateUpdateRateMs \in CfgValues \cup {ActiveRateMs}
    /\ idleStateTriggerTimeMs \in CfgValues \cup {IdleTriggerMs}
    /\ ignoreList \in CfgValues \cup {NoValue}
    /\ config \in CfgMap
    /\ lastWriter \in [CfgKeys -> Msgs \cup {NoMsg}]
    /\ inbox \subseteq Msgs
    /\ handled \subseteq Msgs
    /\ acked \subseteq handled
    /\ applied \subseteq handled
    /\ resubPending \in BOOLEAN
    /\ exitRaised \in BOOLEAN

(* The echoed config mapping is last-write-wins per key (spec 4.7): every *)
(* key holds the value of the last config message that was merged with    *)
(* it, whatever order the broker delivered them in (main.py 317).         *)
ConfigLastWriteWins ==
    \A k \in DOMAIN config :
        /\ lastWriter[k] \in Msgs
        /\ config[k] = MsgCfg[lastWriter[k]][k]

(* Once the AWS loop runs, silence on the inbound topics leads the idle   *)
(* check (main.py 236-239) to switch to the idle rate: the loop's clock   *)
(* keeps going however the callbacks interleave with it.                  *)
SilenceLeadsToIdle ==
    awsConnectionOk ~> (stateUpdateRateMs = IdleRateMs)

(* A signal message resets lastReceiveTime and restores the active rate   *)
(* (main.py 278-279): whenever the AWS loop sleeps and the last receive   *)
(* is within the idle trigger, the rate is the active one.  The loop's    *)
(* idle check reads lastReceiveTime and writes the rate in two steps.     *)
RateFollowsTraffic ==
    (awsPc = "sleep" /\ sinceReceive <= IdleTriggerMs)
        => stateUpdateRateMs = userDefinedStateUpdateRateMs

(* Spec 4.7 and 8: any inbound configuration message restores the active *)
(* rate at once -- the code does so only for a message that carries       *)
(* stateUpdateRateMs (main.py 296-298).                                   *)
ConfigRestoresActiveRate ==
    [][\A m \in Msgs :
         HandleConfig(m) => stateUpdateRateMs' = userDefinedStateUpdateRateMs']_vars

(* Spec 4.7: rejection of a resubscription is fatal to the process.  So   *)
(* whenever the AWS loop runs on a live connection with no resubscribe    *)
(* outstanding, every topic the client subscribed is active.              *)
NeverServingDeaf ==
    (awsPc \in {"sleep", "write"} /\ link = "up" /\ ~resubPending)
        => session = clientTopics

(* Spec 4.7, what NeverServingDeaf comes down to: once the AWS thread has *)
(* set awsConnectionOk, all three topics are active at the broker --      *)
(* through drops, resumptions with or without a kept session and         *)
(* resubscriptions -- unless a resubscribe is still outstanding or one    *)
(* was rejected, the sys.exit of on_resubscribe_complete that ends only   *)
(* its callback thread.                                                   *)
ServingAllTopics ==
    (awsConnectionOk /\ ~resubPending /\ ~exitRaised) => session = Topics

(* Spec 4.7: a signal message carrying a sessionId is acknowledged with  *)
(* it (main.py 159-167, 277).                                              *)
SignalsAcked ==
    \A m \in handled : HasSession[m] => m \in acked

(* Spec 4.7: the merged mapping is always echoed upstream, so what the    *)
(* echo shows of ignoreList and stateUpdateRateMs is what the bridge      *)
(* applies (main.py 293-298 against 317-322).                             *)
ConfigEchoReflectsSettings ==
    /\ "ignoreList" \in DOMAIN config => config["ignoreList"] = ignoreList
    /\ "stateUpdateRateMs" \in DOMAIN config =>
           config["stateUpdateRateMs"] = userDefinedStateUpdateRateMs

=============================================================================
