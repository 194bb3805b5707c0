CONSTANTS
    nRoot = nRoot  nSpeed = nSpeed  nCabin = nCabin  nSeat = nSeat
    nDoor = nDoor  nNone = nNone
    ConfigKeys = {"vss_signals", "endpoint"}
    DefaultValue <- MCDefaultValue
    FileStates <- MCFileStatesUnset
    ArgvChoices <- MCArgvWithFilter
    Nodes <- MCNodes
    Root = nRoot
    NodeKind <- MCNodeKind
    Dict <- MCDict
    NodePath <- MCNodePath

SPECIFICATION Spec
\* Start-up ends: with the subscriptions made, or with the process gone.
CHECK_DEADLOCK FALSE
INVARIANT RegistryMatchesFilters
