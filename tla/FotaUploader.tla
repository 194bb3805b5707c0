---------------------------- MODULE FotaUploader ----------------------------
(***************************************************************************)
(* FotaPipeline with the uploader: a config message carrying              *)
(* scan_and_upload and scan_filter makes on_config_message_received call   *)
(* scan_dir_and_upload (main.py 305-313) on the same callback thread that  *)
(* delivers the FOTA commands, so no command is delivered while a scan     *)
(* runs.  The uploader changes to the scanned directory, globs it, and     *)
(* uploads each file by its relative name (uploader.py 9-67): the working  *)
(* directory is the process's, shared with the FOTA workers.  The glob's   *)
(* filter is abstracted to "every file".                                   *)
(***************************************************************************)
EXTENDS FotaPipeline

SeqX == INSTANCE SequencesExt

CONSTANTS
    ScanDirs,    \* the directories scan requests name (a subset of Dirs)
    DirFiles     \* Dirs -> the files a directory holds before any download

VARIABLES
    scans,       \* scan requests the broker has yet to deliver
    uDir,        \* the directory the current scan asked for
    uFiles,      \* glob.glob(filter): the files it found, in its order
    uIdx,        \* the loop position in uFiles
    uResults,    \* uploadResult: one result per file handled
    uploads,     \* objects put into the upload bucket: [scanned, from, name]
    answered     \* scans whose result was published upstream

uvars == <<vars, scans, uDir, uFiles, uIdx, uResults, uploads, answered>>

ScanVars == <<scans, uDir, uFiles, uIdx, uResults, uploads, answered>>

\* The files in directory d now: those it held and those downloaded into it.
FilesIn(d) == DirFiles[d] \cup {f.key : f \in {g \in disk : g.dir = d}}

UInit ==
    /\ Init
    /\ scans = ScanDirs
    /\ uDir = InitialDir
    /\ uFiles = <<>>
    /\ uIdx = 1
    /\ uResults = <<>>
    /\ uploads = {}
    /\ answered = {}

\* What the uploader's steps leave alone of FotaPipeline.
UploaderFrame == <<subscribed, awsConnectionOk, pending, buffer, retained,
                   after, msg, snap, disk, tempFile, listing, idx, cbCmd>>

(* scan_dir_and_upload(directory, filter): loadConfig, then               *)
(* `os.chdir(directory)`, which raises for a missing directory and ends   *)
(* the config handler there; then glob.glob in the new working directory. *)
ScanStart(d) ==
    /\ subscribed
    /\ d \in scans
    /\ pc[CB] = "idle"
    /\ scans' = scans \ {d}
    /\ IF d \in ExistingDirs
       THEN /\ cwd' = d
            /\ uDir' = d
            /\ \E files \in SeqX!SetToSeqs(FilesIn(d)) : uFiles' = files
            /\ uIdx' = 1
            /\ uResults' = <<>>
            /\ pc' = [pc EXCEPT ![CB] = "upload"]
       ELSE UNCHANGED <<cwd, uDir, uFiles, uIdx, uResults, pc>>
    /\ UNCHANGED <<uploads, answered>>
    /\ UNCHANGED UploaderFrame

(* upload_file_to_s3(file, config) after obtain_temporary_credentials     *)
(* answered with credentials: `s3_cli.upload_file(file, ...)` opens the   *)
(* relative name in the working directory as it is now; a file that is    *)
(* not there raises.  The pairs are [result, uploaded object or none].    *)
UploadFileToS3(file) ==
    IF file \in FilesIn(cwd)
    THEN {[result |-> "success", obj |-> {[scanned |-> uDir, from |-> cwd,
                                           name |-> file]}],
          [result |-> "error", obj |-> {}]}
    ELSE {[result |-> "error", obj |-> {}]}

(* obtain_temporary_credentials, as in fota.py: credentials, the empty    *)
(* triple, an exception, or no answer at all (no timeout).                *)
CredsOutcomes == {"ok", "empty", "raise", "stall"}

(* One iteration of `for file in glob.glob(filter)`: the upload's         *)
(* exceptions are caught and the exception object itself becomes the     *)
(* file's result; missing credentials give "AWS S3 credentials missing".   *)
(* A credential request never answered blocks the callback thread, and   *)
(* with it every message handler, for good.                               *)
UploadStep ==
    /\ pc[CB] = "upload"
    /\ uIdx <= Len(uFiles)
    /\ \E creds \in CredsOutcomes :
          \/ /\ creds = "ok"
             /\ \E o \in UploadFileToS3(uFiles[uIdx]) :
                   /\ uResults' = Append(uResults, o.result)
                   /\ uploads' = uploads \cup o.obj
             /\ UNCHANGED pc
          \/ /\ creds \in {"empty", "raise"}
             /\ uResults' = Append(uResults, IF creds = "empty" THEN "missing"
                                                               ELSE "error")
             /\ UNCHANGED <<pc, uploads>>
          \/ /\ creds = "stall"
             /\ pc' = [pc EXCEPT ![CB] = "stalled"]
             /\ UNCHANGED <<uResults, uploads>>
    /\ uIdx' = uIdx + 1
    /\ UNCHANGED <<scans, uDir, uFiles, answered, cwd>>
    /\ UNCHANGED UploaderFrame

(* After the loop, on_config_message_received publishes                    *)
(* `json.dumps({"scan_and_upload": result})`; an exception object in the  *)
(* result is not JSON serializable, so json.dumps raises TypeError and    *)
(* the handler ends without publishing (or merging the config).           *)
ScanPublish ==
    /\ pc[CB] = "upload"
    /\ uIdx > Len(uFiles)
    /\ pc' = [pc EXCEPT ![CB] = "idle"]
    /\ answered' = IF "error" \in SeqX!ToSet(uResults) THEN answered
                                                       ELSE answered \cup {uDir}
    /\ UNCHANGED <<scans, uDir, uFiles, uIdx, uResults, uploads, cwd>>
    /\ UNCHANGED UploaderFrame

UNext ==
    \/ Next /\ UNCHANGED ScanVars
    \/ \E d \in ScanDirs : ScanStart(d)
    \/ UploadStep
    \/ ScanPublish

USpec == UInit /\ [][UNext]_uvars

-----------------------------------------------------------------------------
(* Spec 4.2 relies on no two users of the working directory running at    *)
(* once.  The uploader uploads what it scanned: every object it puts in    *)
(* the bucket is read from the directory the scan request named, although *)
(* upload_file opens the relative name in the process's working directory *)
(* (uploader.py 13-18, 39), which a FOTA worker may change in between.     *)
UploadsFromScannedDir ==
    \A u \in uploads : u.from = u.scanned

(* on_config_message_received answers a scan request with its per-file   *)
(* results, failures included (uploader.py 17-22 keeps the exception as   *)
(* the file's result for that): whenever the callback thread leaves a     *)
(* scan at the end of its loop, the scan has been answered upstream       *)
(* (main.py 305-313).                                                     *)
ScanAnswered ==
    [][(pc[CB] = "upload" /\ pc'[CB] = "idle") => uDir \in answered']_uvars
=============================================================================
