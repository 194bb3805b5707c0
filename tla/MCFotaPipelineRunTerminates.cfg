CONSTANTS
    c1 = c1  c2 = c2  c3 = c3  c4 = c4  c5 = c5
    dwork = dwork  dmissing = dmissing  dhome = dhome
    Cmds = {c1, c2, c3, c4, c5}
    CmdKind <- MCCmdKind
    CmdFile <- MCCmdFile
    CmdDir <- MCCmdDir
    Dirs = {dhome, dwork, dmissing}
    ExistingDirs = {dhome, dwork}
    InitialDir = dhome
    Buckets <- MCBuckets
    CB = CB
    NoFile = NoFile
    OneRunInFlight = TRUE

SPECIFICATION FairSpec
\* Once the broker has delivered every command and every thread has ended,
\* the pipeline waits for the next command: a final state, not a deadlock.
CHECK_DEADLOCK FALSE
PROPERTY RunTerminates
