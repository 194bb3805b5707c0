---------------------------- MODULE FotaPipeline ----------------------------
(***************************************************************************)
(* The Secure Update Pipeline as the code runs it: the MQTT receive        *)
(* callback on_fota_message_received (main.py 325-344), the worker thread  *)
(* it starts for handle_fota_request (fota.py 15-47) with                  *)
(* download_file_from_s3 and obtain_temporary_credentials (fota.py         *)
(* 111-165), and the Update Control Reporter publishFOTAControlMessage     *)
(* (main.py 149-157), whose buffer fotaMessageBuffer they all share.       *)
(*                                                                         *)
(* Actors: the callback thread CB (awscrt's event loop runs the receive    *)
(* callbacks one at a time) and one worker thread per delivered command.   *)
(* A report is three steps -- append to the buffer, json.dumps of the      *)
(* buffer, publish of that snapshot as the retained payload -- since the   *)
(* interpreter may switch threads between them.                            *)
(*                                                                         *)
(* Data is abstracted: file names and object keys are short sequences of   *)
(* letters, so that `fileKey in file` is a real substring test; a control  *)
(* message is a record of its kind, its run and the file it names.         *)
(***************************************************************************)
EXTENDS Naturals, Sequences, FiniteSets

CONSTANTS
    Cmds,           \* the FOTA messages the broker delivers (one per id)
    CmdKind,        \* Cmds -> {"flash", "other", "badjson", "nokeys"}
    CmdFile,        \* Cmds -> Names: the "file" field
    CmdDir,         \* Cmds -> Dirs: the "hostDir" field
    Dirs,           \* directories named anywhere
    ExistingDirs,   \* the ones os.chdir succeeds on
    InitialDir,     \* the process working directory at start
    Buckets,        \* listings the bucket may return (sequences of keys)
    CB,             \* the callback thread (a model value)
    NoFile,         \* temp_file = "" (a model value)
    OneRunInFlight  \* the spec's assumption: no command while a run is on

Kinds == {"flash", "other", "badjson", "nokeys"}

ASSUME FotaAssumption ==
    /\ IsFiniteSet(Cmds)
    /\ Cmds # {}
    /\ Buckets \subseteq Seq(Seq(STRING))
    /\ CB \notin Cmds
    /\ CmdKind \in [Cmds -> Kinds]
    /\ CmdDir \in [Cmds -> Dirs]
    /\ ExistingDirs \subseteq Dirs
    /\ InitialDir \in ExistingDirs
    /\ OneRunInFlight \in BOOLEAN

KeysOf(b) == {b[i] : i \in DOMAIN b}

Names == (UNION {KeysOf(b) : b \in Buckets}) \cup {CmdFile[c] : c \in Cmds}

\* Python's `fileKey in file` on strings: key occurs as a contiguous run.
IsSubstring(key, file) ==
    \E i \in 0..(Len(file) - Len(key)) :
        SubSeq(file, i + 1, i + Len(key)) = key

Actors == Cmds \cup {CB}

\* A control message: its kind, the run it belongs to, the file it names.
Msgs == [kind : {"received", "downloading", "okay", "failed"},
         run : Cmds, file : Names \cup {NoFile}]

\* The worker's states; "done" and "dead" are the ends of the thread (a
\* return and an uncaught exception), the rest are where it is.
WorkerLabels == {"idle", "start", "chdir", "creds", "stalled", "list", "scan",
                 "downloaded", "handoff", "done", "dead"}
CBLabels == {"idle", "spawn", "upload"}
ReportLabels == {"append", "dump", "send"}

VARIABLES
    subscribed,       \* the fota topic subscription is active
    awsConnectionOk,  \* main.py 233
    pending,          \* commands the broker has yet to deliver
    buffer,           \* fotaMessageBuffer
    retained,         \* the last payload published on fota_control
    pc,               \* Actors -> where each thread is
    after,            \* Actors -> where a thread resumes after its report
    msg,              \* Actors -> the message it is reporting
    snap,             \* Actors -> its json.dumps of the buffer
    cwd,              \* the process-wide working directory
    disk,             \* files written: [dir, key, run]
    tempFile,         \* Cmds -> temp_file of download_file_from_s3
    listing,          \* Cmds -> the bucket listing it iterates
    idx,              \* Cmds -> the loop position in that listing
    cbCmd             \* the command the callback is handling

vars == <<subscribed, awsConnectionOk, pending, buffer, retained, pc, after,
          msg, snap, cwd, disk, tempFile, listing, idx, cbCmd>>

Workers == Cmds
Ended(c) == pc[c] \in {"idle", "done", "dead"}

-----------------------------------------------------------------------------
Init ==
    /\ subscribed = FALSE
    /\ awsConnectionOk = FALSE
    /\ pending = Cmds
    /\ buffer = <<>>
    /\ retained = <<>>
    /\ pc = [a \in Actors |-> "idle"]
    /\ after = [a \in Actors |-> "idle"]
    /\ msg = [a \in Actors |-> [kind |-> "received", run |-> CHOOSE c \in Cmds : TRUE,
                                 file |-> NoFile]]
    /\ snap = [a \in Actors |-> <<>>]
    /\ cwd = InitialDir
    /\ disk = {}
    /\ tempFile = [c \in Cmds |-> NoFile]
    /\ listing = [c \in Cmds |-> <<>>]
    /\ idx = [c \in Cmds |-> 1]
    /\ cbCmd = CHOOSE c \in Cmds : TRUE

(* Start publishFOTAControlMessage(m) for thread a, then go on at k. *)
Report(a, m, k) ==
    /\ pc' = [pc EXCEPT ![a] = "append"]
    /\ msg' = [msg EXCEPT ![a] = m]
    /\ after' = [after EXCEPT ![a] = k]

\* State the reporter steps leave alone.
ReporterFrame == <<subscribed, pending, cwd, disk, tempFile, listing, idx,
                   cbCmd>>

(* `if self.awsConnectionOk: self.fotaMessageBuffer.append(payload)`; a   *)
(* report made while not connected is dropped without a trace.           *)
ReportAppend(a) ==
    /\ pc[a] = "append"
    /\ IF awsConnectionOk
       THEN /\ buffer' = Append(buffer, msg[a])
            /\ pc' = [pc EXCEPT ![a] = "dump"]
       ELSE /\ pc' = [pc EXCEPT ![a] = after[a]]
            /\ UNCHANGED buffer
    /\ UNCHANGED <<awsConnectionOk, retained, after, msg, snap>>
    /\ UNCHANGED ReporterFrame

(* `json.dumps(self.fotaMessageBuffer)`. *)
ReportDump(a) ==
    /\ pc[a] = "dump"
    /\ snap' = [snap EXCEPT ![a] = buffer]
    /\ pc' = [pc EXCEPT ![a] = "send"]
    /\ UNCHANGED <<awsConnectionOk, buffer, retained, after, msg>>
    /\ UNCHANGED ReporterFrame

(* `self.awsMqtt.publish(..., retain=True)`: the broker keeps the last    *)
(* payload it got on fota_control.                                        *)
ReportSend(a) ==
    /\ pc[a] = "send"
    /\ retained' = snap[a]
    /\ pc' = [pc EXCEPT ![a] = after[a]]
    /\ UNCHANGED <<awsConnectionOk, buffer, after, msg, snap>>
    /\ UNCHANGED ReporterFrame

-----------------------------------------------------------------------------
(* initAWSConnection: the fota subscription becomes active (main.py       *)
(* 225-231); from then on the broker may deliver queued commands.         *)
Subscribe ==
    /\ ~subscribed
    /\ subscribed' = TRUE
    /\ UNCHANGED <<awsConnectionOk, pending, buffer, retained, pc, after, msg,
                   snap, cwd, disk, tempFile, listing, idx, cbCmd>>

(* main.py 233: `self.awsConnectionOk = True`. *)
ConnectionOk ==
    /\ subscribed
    /\ ~awsConnectionOk
    /\ awsConnectionOk' = TRUE
    /\ UNCHANGED <<subscribed, pending, buffer, retained, pc, after, msg,
                   snap, cwd, disk, tempFile, listing, idx, cbCmd>>

\* Mutant: the callback does not clear the buffer of the previous run.
DeliverNoClear(c) ==
    /\ subscribed
    /\ c \in pending
    /\ pc[CB] = "idle"
    /\ OneRunInFlight => \A w \in Workers : Ended(w)
    /\ pending' = pending \ {c}
    /\ cbCmd' = c
    /\ Report(CB, [kind |-> "received", run |-> c, file |-> NoFile], "spawn")
    /\ UNCHANGED <<subscribed, awsConnectionOk, buffer, retained, snap, cwd,
                   disk, tempFile, listing, idx>>

(* on_fota_message_received: `self.fotaMessageBuffer.clear()`, then the   *)
(* report "Cloud Connector received FOTA request".  The code never waits  *)
(* for a running worker: the guard on OneRunInFlight is not the code's    *)
(* but the environment's, spec 5's assumption that the broker delivers no *)
(* command while a run is in flight.  With OneRunInFlight = FALSE the     *)
(* callback takes a command whatever the workers are doing.               *)
Deliver(c) ==
    /\ subscribed
    /\ c \in pending
    /\ pc[CB] = "idle"
    /\ OneRunInFlight => \A w \in Workers : Ended(w)
    /\ pending' = pending \ {c}
    /\ cbCmd' = c
    /\ buffer' = <<>>
    /\ Report(CB, [kind |-> "received", run |-> c, file |-> NoFile], "spawn")
    /\ UNCHANGED <<subscribed, awsConnectionOk, retained, snap, cwd, disk,
                   tempFile, listing, idx>>

(* on_fota_message_received: `json.loads(payload)` for the thread's       *)
(* arguments, then thread.start(); a payload that is not JSON raises      *)
(* there and is reported as "fota request failed".                        *)
Spawn ==
    /\ pc[CB] = "spawn"
    /\ IF CmdKind[cbCmd] = "badjson"
       THEN Report(CB, [kind |-> "failed", run |-> cbCmd, file |-> NoFile], "idle")
       ELSE /\ pc' = [pc EXCEPT ![CB] = "idle", ![cbCmd] = "start"]
            /\ UNCHANGED <<after, msg>>
    /\ UNCHANGED <<subscribed, awsConnectionOk, pending, buffer, retained,
                   snap, cwd, disk, tempFile, listing, idx, cbCmd>>

-----------------------------------------------------------------------------
\* State the worker steps below leave alone unless they say otherwise.
WorkerFrame == <<subscribed, awsConnectionOk, pending, buffer, retained,
                 snap, cbCmd>>

(* handle_fota_request: a command other than "flash-vip" returns at once; *)
(* a flash-vip command without file/key/hostDir raises KeyError; the      *)
(* others report "downloading file:" + file.                              *)
WorkerStart(c) ==
    /\ pc[c] = "start"
    /\ CASE CmdKind[c] = "other" ->
              /\ pc' = [pc EXCEPT ![c] = "done"]
              /\ UNCHANGED <<after, msg>>
         [] CmdKind[c] = "nokeys" ->
              /\ pc' = [pc EXCEPT ![c] = "dead"]
              /\ UNCHANGED <<after, msg>>
         [] CmdKind[c] = "flash" ->
              Report(c, [kind |-> "downloading", run |-> c, file |-> CmdFile[c]],
                     "chdir")
    /\ UNCHANGED <<cwd, disk, tempFile, listing, idx>>
    /\ UNCHANGED WorkerFrame

(* download_file_from_s3: `os.chdir(fota_host_dir)`, which raises for a   *)
(* directory that does not exist.                                         *)
WorkerChdir(c) ==
    /\ pc[c] = "chdir"
    /\ IF CmdDir[c] \in ExistingDirs
       THEN /\ cwd' = CmdDir[c]
            /\ pc' = [pc EXCEPT ![c] = "creds"]
       ELSE /\ pc' = [pc EXCEPT ![c] = "dead"]
            /\ UNCHANGED cwd
    /\ UNCHANGED <<after, msg, disk, tempFile, listing, idx>>
    /\ UNCHANGED WorkerFrame

(* obtain_temporary_credentials: the request succeeds (credentials), is   *)
(* answered with an error status (the empty triple, so no download and    *)
(* temp_file stays ""), raises (no handler), or is never answered:        *)
(* requests.get is called without a timeout, so the thread then blocks    *)
(* for good ("stalled", a label no step leaves).                          *)
WorkerCreds(c) ==
    /\ pc[c] = "creds"
    /\ \E outcome \in {"ok", "empty", "raise", "stall"} :
          pc' = [pc EXCEPT ![c] = CASE outcome = "ok" -> "list"
                                    [] outcome = "empty" -> "downloaded"
                                    [] outcome = "raise" -> "dead"
                                    [] outcome = "stall" -> "stalled"]
    /\ UNCHANGED <<after, msg, cwd, disk, tempFile, listing, idx>>
    /\ UNCHANGED WorkerFrame

(* `s3_cli.list_objects(Bucket=...)["Contents"]`: an empty bucket has no  *)
(* "Contents" and raises KeyError, as does a failing request.             *)
WorkerList(c) ==
    /\ pc[c] = "list"
    /\ \/ \E b \in Buckets \ {<<>>} :
             /\ listing' = [listing EXCEPT ![c] = b]
             /\ idx' = [idx EXCEPT ![c] = 1]
             /\ pc' = [pc EXCEPT ![c] = "scan"]
       \/ /\ pc' = [pc EXCEPT ![c] = "dead"]
          /\ UNCHANGED <<listing, idx>>
    /\ UNCHANGED <<after, msg, cwd, disk, tempFile>>
    /\ UNCHANGED WorkerFrame

(* One entry of the listing loop: a key that is a substring of the        *)
(* requested file is fetched into a file named after the key, opened      *)
(* relative to the working directory as it is at that moment, and becomes *)
(* temp_file; the fetch may raise.  Past the last entry the function      *)
(* returns.                                                               *)
WorkerScan(c) ==
    /\ pc[c] = "scan"
    /\ IF idx[c] > Len(listing[c])
       THEN /\ pc' = [pc EXCEPT ![c] = "downloaded"]
            /\ UNCHANGED <<disk, tempFile, idx>>
       ELSE LET key == listing[c][idx[c]] IN
            IF IsSubstring(key, CmdFile[c])
            THEN /\ disk' = disk \cup {[dir |-> cwd, key |-> key, run |-> c]}
                 /\ tempFile' = [tempFile EXCEPT ![c] = key]
                 /\ idx' = [idx EXCEPT ![c] = @ + 1]
                 /\ \/ pc' = [pc EXCEPT ![c] = "scan"]
                    \/ pc' = [pc EXCEPT ![c] = "dead"]
            ELSE /\ idx' = [idx EXCEPT ![c] = @ + 1]
                 /\ UNCHANGED <<pc, disk, tempFile>>
    /\ UNCHANGED <<after, msg, cwd, listing>>
    /\ UNCHANGED WorkerFrame

(* handle_fota_request after the download: the report "download okay,    *)
(* start flashing of:" + temp_file, whatever temp_file is.                *)
WorkerDownloaded(c) ==
    /\ pc[c] = "downloaded"
    /\ Report(c, [kind |-> "okay", run |-> c, file |-> tempFile[c]], "handoff")
    /\ UNCHANGED <<cwd, disk, tempFile, listing, idx>>
    /\ UNCHANGED WorkerFrame

(* `asyncio.run(vehicleApp.publish_event("fota_control_start", ...))`:    *)
(* fota.py never imports asyncio, so the name lookup raises NameError and *)
(* the thread ends here: the event is never published and the function   *)
(* never returns its {"state": "ok", ...} result.                         *)
WorkerHandoff(c) ==
    /\ pc[c] = "handoff"
    /\ pc' = [pc EXCEPT ![c] = "dead"]
    /\ UNCHANGED <<after, msg, cwd, disk, tempFile, listing, idx>>
    /\ UNCHANGED WorkerFrame

-----------------------------------------------------------------------------
ReportStep(a) == ReportAppend(a) \/ ReportDump(a) \/ ReportSend(a)

WorkerStep(c) ==
    \/ WorkerStart(c)
    \/ WorkerChdir(c)
    \/ WorkerCreds(c)
    \/ WorkerList(c)
    \/ WorkerScan(c)
    \/ WorkerDownloaded(c)
    \/ WorkerHandoff(c)

Next ==
    \/ Subscribe
    \/ ConnectionOk
    \/ \E c \in Cmds : Deliver(c)
    \/ Spawn
    \/ \E a \in Actors : ReportStep(a)
    \/ \E c \in Workers : WorkerStep(c)

(* Every started thread keeps running until it ends: each worker and the  *)
(* callback thread are weakly fair.  Deliveries and the connection are    *)
(* the broker's business and get no fairness.                             *)
Fairness ==
    /\ \A c \in Workers : WF_vars(WorkerStep(c) \/ ReportStep(c))
    /\ WF_vars(Spawn \/ ReportStep(CB))

Spec == Init /\ [][Next]_vars

FairSpec == Spec /\ Fairness

-----------------------------------------------------------------------------
TypeOK ==
    /\ subscribed \in BOOLEAN
    /\ awsConnectionOk \in BOOLEAN
    /\ pending \subseteq Cmds
    /\ buffer \in Seq(Msgs)
    /\ retained \in Seq(Msgs)
    /\ pc \in [Actors -> WorkerLabels \cup CBLabels \cup ReportLabels]
    /\ after \in [Actors -> WorkerLabels \cup CBLabels]
    /\ msg \in [Actors -> Msgs]
    /\ snap \in [Actors -> Seq(Msgs)]
    /\ cwd \in ExistingDirs
    /\ disk \subseteq [dir : ExistingDirs, key : Names, run : Cmds]
    /\ tempFile \in [Cmds -> Names \cup {NoFile}]
    /\ listing \in [Cmds -> Buckets \cup {<<>>}]
    /\ idx \in [Cmds -> Nat \ {0}]
    /\ cbCmd \in Cmds

(* An update lands where the command said: every file a run downloads is *)
(* written inside that run's hostDir, although download_file_from_s3      *)
(* opens it relative to the process-wide working directory it set with    *)
(* os.chdir (fota.py 135 and 160) -- a directory any other thread may     *)
(* change in between.                                                     *)
FileLandsInHostDir ==
    \A f \in disk : f.dir = CmdDir[f.run]

(* The retained control payload shows one run only: an observer who      *)
(* reads fota_control never sees entries of an earlier run mixed into the *)
(* current one (spec 4.6: the buffer is cleared at the start of each new  *)
(* command and republished in full; main.py 328-330 and 149-157).  It is *)
(* the clear that keeps a run's entries together; whether two runs can    *)
(* interleave is the environment's business (OneRunInFlight).            *)
RetainedIsOneRun ==
    \A i, j \in DOMAIN retained : retained[i].run = retained[j].run

(* "download okay, start flashing" is reported only for a run that did   *)
(* download its artifact (spec 8: a bucket without the key yields a       *)
(* Failed state and a failure report; fota.py 25-31).                     *)
OkayOnlyAfterDownload ==
    \A i \in DOMAIN buffer :
        buffer[i].kind = "okay" => \E f \in disk : f.run = buffer[i].run

(* A run that downloaded its artifact hands it on to flashing: once the  *)
(* worker has reported the download okay, it publishes the                *)
(* fota_control_start event and returns {"state": "ok"} (spec 4.5:        *)
(* Downloaded -> Flashing; fota.py 40-44).                                *)
DownloadedIsFlashed ==
    \A c \in Cmds :
        (pc[c] = "handoff" /\ tempFile[c] # NoFile) ~> (pc[c] = "done")

(* Spec 4.5 and 7: a run that fails is aborted with a report on the       *)
(* control channel.  So once a worker thread of the current run has died  *)
(* -- on a missing hostDir, a raising credential request, an empty bucket *)
(* (`["Contents"]`, fota.py 150), a failing fetch or the hand-off -- the   *)
(* buffer holds a "failed" entry of that run.                             *)
FailedRunReported ==
    \A c \in Cmds :
        (pc[c] = "dead" /\ cbCmd = c) =>
            \E i \in DOMAIN buffer : buffer[i].run = c /\ buffer[i].kind = "failed"

(* Spec 5: once an update run starts it proceeds to a terminal state.     *)
(* Every started worker thread ends, returning or raising, however the     *)
(* credential endpoint and the bucket answer (fota.py 115 calls            *)
(* requests.get without a timeout).                                        *)
RunTerminates ==
    \A c \in Cmds : (pc[c] = "start") ~> (pc[c] \in {"done", "dead"})

=============================================================================
