CONSTANTS
    ScalarPaths = {s1}
    RepeatedPaths = {r1}
    ScalarValues = {dflt, on}
    SeqValues <- MCSeqValues
    ScalarDefault = dflt
    TickMs = 200
    DebounceMs = 500
    IdleTriggerMs = 600
    IdleRateMs = 5000
    ActiveRateMs = 1000

SPECIFICATION FairSpec
INVARIANT UnsentChangeScheduled
PROPERTY EveryChangePublished
