CONSTANTS
    c1 = c1
    dhome = dhome  dwork = dwork  dlogs = dlogs
    Cmds = {c1}
    CmdKind <- MCCmdKind
    CmdFile <- MCCmdFile
    CmdDir <- MCCmdDir
    Dirs = {dhome, dwork, dlogs}
    ExistingDirs = {dhome, dwork, dlogs}
    InitialDir = dhome
    Buckets <- MCBuckets
    CB = CB
    NoFile = NoFile
    OneRunInFlight = TRUE
    ScanDirs = {dlogs}
    DirFiles <- MCDirFiles

SPECIFICATION USpec
\* Once the command and the scan request are handled the program waits.
CHECK_DEADLOCK FALSE
INVARIANT FileLandsInHostDir
