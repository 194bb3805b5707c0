------------------------------ MODULE MCBridge ------------------------------
(* TLC instance of Bridge.  Two signal messages, one with a sessionId and *)
(* one without; four config messages: a new active rate, an ignoreList,   *)
(* another ignoreList together with a scan (which may raise), and an      *)
(* idle trigger above the code's constant.  Times keep the code's tick    *)
(* and rates; the idle trigger is scaled from 600000 ms to three ticks as *)
(* in MCStatePublisher, the configured one to four.                       *)
EXTENDS Bridge

CONSTANTS sig1, sig2, cfgRate, cfgList, cfgListScan, cfgTrigger,
          L1, L2, dscan

MCMsgs == {sig1, sig2, cfgRate, cfgList, cfgListScan, cfgTrigger}

MCMsgTopic == [m \in MCMsgs |-> IF m \in {sig1, sig2} THEN "signal" ELSE "config"]

MCHasSession == [m \in MCMsgs |-> m = sig1]

MCMsgCfg ==
    [m \in MCMsgs |->
        CASE m = cfgRate -> [k \in {"stateUpdateRateMs"} |-> 2000]
          [] m = cfgList -> [k \in {"ignoreList"} |-> L1]
          [] m = cfgListScan -> [k \in {"ignoreList", "scan"} |->
                                    IF k = "scan" THEN dscan ELSE L2]
          [] m = cfgTrigger -> [k \in {"idleStateTriggerTimeMs"} |-> 800]
          [] OTHER -> [k \in {} |-> L1]]

MCCfgValues == {2000, 800, L1, L2, dscan}
=============================================================================
