CONSTANTS
    sig1 = sig1  sig2 = sig2  cfgRate = cfgRate  cfgList = cfgList
    cfgListScan = cfgListScan  cfgTrigger = cfgTrigger
    L1 = L1  L2 = L2  dscan = dscan
    Msgs <- MCMsgs
    MsgTopic <- MCMsgTopic
    HasSession <- MCHasSession
    MsgCfg <- MCMsgCfg
    CfgValues <- MCCfgValues
    ExistingDirs = {dscan}
    TickMs = 200
    IdleTriggerMs = 600
    IdleRateMs = 5000
    ActiveRateMs = 1000
    TimeCap = 1000
    NoValue = NoValue
    NoMsg = NoMsg

SPECIFICATION Spec
\* When the connect call fails, sys.exit ends the AWS thread and nothing of
\* the bridge is left to run: the program may stop there.
CHECK_DEADLOCK FALSE
INVARIANT NeverServingDeaf
