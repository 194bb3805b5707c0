# TLA+ models of the cloud connector

This directory holds the formal models of `src/cloud-connector/app/src`. That program is a
Velocitas vehicle app that bridges vehicle signals to AWS IoT and runs firmware updates
(FOTA) on command. Every module is translated from the Python source. The `map` of
`PROJECT.json` gives, for each definition, the lines it models.

## 1. Inventory

### Threads and shared state (main.py, fota.py)

| Thread | Code | Touches |
|---|---|---|
| vehicle-app asyncio loop | `ConnectorApp.on_signal_changed` → `AWSConnection.publishSignal` (main.py 94-119, 404-421) | `proto`, `deviceState`, `needTransmit` |
| AWS loop thread | `initAWSConnection` (169-241): connect, three subscribes, `awsConnectionOk = True`, then every 200 ms the idle check and `publishState` (121-147) | `needTransmit`, `lastStatePublish`, `stateUpdateRateMs`, `proto` (serialize) |
| awscrt event loop | `on_signal_message_received`, `on_config_message_received`, `on_fota_message_received`, `on_connection_resumed`, `on_resubscribe_complete` (243-344) | `lastReceiveTime`, `stateUpdateRateMs`, `config`, `ignoreList`, `fotaMessageBuffer`, cwd (uploader) |
| one FOTA worker per command | `handle_fota_request` → `download_file_from_s3` → `obtain_temporary_credentials` (fota.py 15-165) | `fotaMessageBuffer`, process cwd, files |
| vehicle-app forwarder | `on_set_position_request_received` (main.py 376-381) | `fotaMessageBuffer` |

None of this state is protected by a lock. The interpreter can switch threads between any
two statements.

### Components

- **Signal State Store and Publish Scheduler.** This is `publishSignal` and `publishState`.
  - Its state is the frame `proto`, the flag `needTransmit`, the time of the last publish,
    the connection flag, the idle rate and the timers.
  - A repeated field is changed in two statements: it is cleared, then extended. The
    scheduler reads and writes `needTransmit` non-atomically, then publishes, then clears
    the flag.
- **Update Orchestrator, Credential Broker and Object Store Client.**
  - The callback clears the control buffer, reports "received", parses the payload and
    starts a worker.
  - The worker reports "downloading", then changes to `hostDir` (`chdir`), requests the
    credentials, lists the bucket, downloads every key that is a substring of the requested
    file, reports "download okay", and calls `asyncio.run`. That call raises, because
    `asyncio` is not imported in fota.py.
  - Every exception ends the worker without a report.
- **Update Control Reporter.** `publishFOTAControlMessage` runs in three steps: append
  (only while `awsConnectionOk`), `json.dumps`, and a retained publish. The callback
  clears the buffer at each new command (spec 4.6). It is modelled inside
  `FotaPipeline`, together with the threads that report.
- **Transport bridge.** This covers the connection lifecycle, the ack, and the signal and
  config handlers (config merge, `ignoreList`, rates, `scan_and_upload`). It is modelled
  by `Bridge`.
- **Uploader.** `scan_dir_and_upload` runs `chdir`, globs, and uploads every file by its
  relative name; each upload asks for credentials first (no timeout) and a raising upload
  leaves the exception object as the file's result. It runs on the callback thread, and
  the config handler then publishes `json.dumps` of the results.
- **Start-up.** `main()` builds `ConnectorApp`, whose constructor calls `loadConfig`
  (utils/config_loader.py): `open` may fail, `json.load` may raise, and `parse_args` takes
  each option from the command line, else the file, else its default string. Then
  `startConnection` starts the AWS thread and `on_start` walks the generated signal tree
  (`recursive_subscribe`), subscribing each datapoint whose path starts with one of the
  `vss_signals` filters: the SubscriptionRegistry of spec 3.
- **Not modelled.**
  - The crypto helpers (fota.py 68-108) and `flashFileToTarget` are never called.
  - The local relay (utils/local_mqtt.py) only prints.
  - `vapp.py` is not valid Python (line 312), so it never runs.
  - The generated vehicle model (app_old) is declarations only; `Startup` takes a small
    signal tree of the same shape as a constant.
  - The vehicle-app forwarder `on_set_position_request_received` passes another app's
    messages to the reporter; it would be one more reporting thread.

### Hazards

The hazards are listed in `PROJECT.json` with their lines. In short:

- the torn frame between clear and extend;
- the lost dirty mark;
- a new command clearing the buffer under a running worker;
- stale snapshots of the control payload;
- the process-wide `chdir`;
- reports dropped before `awsConnectionOk`;
- the "okay" report without a file;
- the missing `asyncio` import;
- the idle cadence, which ignores its configuration;
- `sys.exit` in a thread;
- the ack sent before transmit;
- a worker that raises dies without a failure report;
- credential requests without a timeout, in the workers and on the callback thread;
- the uploader's upload by relative name after a worker's `chdir`;
- `json.dumps` of an exception in the scan results;
- `vss_signals` given as a string, iterated by character;
- a missing configuration file ending the process.

## 2. Modules

| Module | Models | State | Actions |
|---|---|---|---|
| `StatePublisher` | vehicle thread + AWS loop | `proto`, `needTransmit`, `awsConnectionOk`, timers `sinceStatePublish`/`sinceReceive` (ms, saturating), `stateUpdateRateMs`, last published frame `sent`, per-thread program counters | `StoreSignal`, `ExtendRepeated`, `MarkDirty`; `Connected`, `SleepAndIdleCheck`, `ReadDirty`, `WriteDirty`, `Publish`, `SkipPublish`, `CommitPublish` |
| `StatePublisherProofs` | TLAPS proofs for `StatePublisher` | – | – |
| `Bridge` | AWS thread's connection steps and idle check, callback thread's signal, config, resume and resubscribe handlers | `awsPc`, `subIdx`, `clientTopics`, broker `session`, `link`, `awsConnectionOk`, `over` (the loop's comparison result), `sinceReceive`, `stateUpdateRateMs`, `userDefinedStateUpdateRateMs`, `idleStateTriggerTimeMs`, `ignoreList`, `config`, undelivered `inbox`, `acked`, `applied`, `resubPending`, `exitRaised`; history `sinceInbound`, `lastWriter`, `handled` | `Connect`, `SubscribeTopic`, `ConnectionOk`, `IdleRead`, `IdleWrite`, `Interrupt`, `Resume`, `ResubscribeComplete`, `HandleSignal`, `HandleConfig` |
| `FotaUploader` | `FotaPipeline` plus the uploader on the callback thread | adds the scan requests, the scanned directory, the glob result `uFiles` and loop index, the per-file results, the uploaded objects `[scanned, from, name]`, the answered scans | `ScanStart`, `UploadStep` (credentials ok / empty / raise / stall, then the upload), `ScanPublish` |
| `FotaPipelineProofs` | TLAPS proof of `FotaPipeline`'s type invariant | – | – |
| `Startup` | `main()`, `loadConfig`/`init_argparse`, `startConnection`, `on_start`/`recursive_subscribe` | `stage`, the configuration `file`, `argv`, the parsed `config`, the recursion `stack` of `[node, i]` frames, `registry` (the keys of `self.signals`), `awsStarted` | `CreateApp`, `StartConnection`, `OnStart`, `WalkStep` |
| `StartupProofs` | TLAPS proofs for `Startup` | – | – |
| `FotaPipeline` | callback thread, workers, control reporter | subscription, `awsConnectionOk`, undelivered commands, `buffer`, `retained`, per-thread `pc`/`after`/`msg`/`snap`, `cwd`, `disk`, `tempFile`, bucket listing and loop index | `Subscribe`, `ConnectionOk`, `Deliver`, `Spawn`, `ReportAppend/Dump/Send`, `WorkerStart/Chdir/Creds/List/Scan/Downloaded/Handoff` |

### How time is modelled

Time is modelled as ms-since counters:

- `sinceStatePublish` stands for `currentTime - lastStatePublish`.
- `sinceReceive` stands for `currentTime - lastReceiveTime`.

The counters advance by one 200 ms tick per loop iteration. They saturate just above the
largest threshold the code compares them with, so every comparison keeps its outcome.
`Connected` may take any whole number of ticks, because connecting takes time.

### How data is modelled

File names and object keys are sequences of letters. This makes `fileKey in file` a real
substring test (`IsSubstring`). A control message is a record of its kind, its run and its
file. In `Startup` a configuration value is a record: a string (a sequence of one-letter
strings) or a list of strings, so that `for f in value` yields what Python yields for each
(`Iterate`), and `startswith` is a prefix test on sequences.

### Each action models a whole statement group of the code

A thread's `pc` stops only where another thread can observe an intermediate state:

- between clear and extend;
- between the read and the write of `needTransmit |= ...`;
- between the publish and the clear of `needTransmit`;
- between append, dumps and publish of a report.

## 3. Runs

| Run | Config | Checks | Result |
|---|---|---|---|
| `state_publisher` | `MCStatePublisher.cfg` | `UnsentChangeScheduled`, `EveryChangePublished` (under `FairSpec`) | pass |
| `state_publisher_torn` | `MCStatePublisherTorn.cfg` | `NoTornPublish` | violation: torn frame published |
| `fota_pipeline` | `MCFotaPipeline.cfg` | `RetainedIsOneRun` (with `OneRunInFlight = TRUE`) | pass |
| `fota_failure_unreported` | `MCFotaPipelineFailedRunReported.cfg` | `FailedRunReported` | violation: a raising worker reports nothing |
| `fota_run_stalls` | `MCFotaPipelineRunTerminates.cfg` | `RunTerminates` (under `FairSpec`) | violation: an unanswered credential request |
| `fota_uploader_chdir` | `MCFotaUploader.cfg` | `FileLandsInHostDir` | violation: the uploader's `chdir` moves a single run's download |
| `startup` | `MCStartup.cfg` | `TypeOK`, `RegistryMatchesFilters` | pass |
| `startup_filters` | `MCStartup_RegistryMatchesFilters.cfg` | `RegistryMatchesFilters` | violation: a string filter is iterated by character |
| `bridge` | `MCBridge.cfg` | `ServingAllTopics`, `SilenceLeadsToIdle` (under `FairSpec`) | pass |
| `bridge_rate_race` | `MCBridge_RateFollowsTraffic.cfg` | `RateFollowsTraffic` | violation: the idle check overwrites the rate a signal just restored |
| `bridge_deaf` | `MCBridge_NeverServingDeaf.cfg` | `NeverServingDeaf` | violation: `sys.exit` in a callback is not fatal |
| `bridge_early_signal` | `MCBridge_SignalsAcked.cfg` | `SignalsAcked` | violation: signals before `awsConnectionOk` are not acked |

The type invariants of `StatePublisher`, `Bridge` and `FotaPipeline` are not in the runs.
No plausible bug of the code breaks them, because the code's values are all of the right
kind. Each is proved for every instance (section 4). `Startup`'s is kept: a walk that
enters an attribute that is not a `Model` (the mutant `WalkStepIntoAny`) breaks it.

### The one-run assumption

`on_fota_message_received` never waits for a running worker. Spec 5 assumes that only one
update run is in flight and documents the interleavings of two runs as a limitation.
`FotaPipeline` makes this an explicit constant of the environment: with
`OneRunInFlight = TRUE`, `Deliver` takes a new command only after every worker has ended.
With `OneRunInFlight = FALSE` it takes a command whatever the workers are doing, as the
code does. TLC then finds `RetainedIsOneRun` violated at once: a new command clears the
buffer, and the previous run's worker appends to it and publishes.

Under the assumption at most one thread is ever inside a report, and only one worker
ever changes the working directory. So no property about interleaved reports, and no
theorem that assumes `OneRunInFlight`, is kept: it would only check the order of one
thread's steps. The `fota_uploader_chdir` run shows the working-directory race with a
single run in flight, through the uploader on the callback thread.

### Properties stated but not kept as runs

These properties are in the modules, and TLC finds each violated when it is given as the
only INVARIANT (or PROPERTY) of a copy of the module's cfg. Each also shows with a single
call of the code, so the project keeps its runs for the interleavings and the liveness:

- `OkayOnlyAfterDownload` (FotaPipeline): "download okay" is reported for a run that wrote
  no file (fota.py 29).
- `DownloadedIsFlashed` (FotaPipeline, under `FairSpec`): the missing `asyncio` import
  kills every run after its download (fota.py 40).
- `ConfigRestoresActiveRate` (Bridge): a config message without `stateUpdateRateMs` does
  not restore the active rate (main.py 296).
- `ConfigEchoReflectsSettings` (Bridge): a raising scan skips the merge and the echo
  (main.py 306).
- `MissingFileTakesDefaults` (Startup): a missing file raises `UnboundLocalError`
  (config_loader.py 20).
- `UploadsFromScannedDir` (FotaUploader): the `chdir` race of `fota_uploader_chdir`, seen
  from the uploader's side (uploader.py 39).
- `ScanAnswered` (FotaUploader): `json.dumps` of an exception raises (main.py 311).

### What each property says

- **`UnsentChangeScheduled`**: whenever the AWS loop sleeps, a stored change that is
  missing from the last published frame is either marked dirty or younger than the debounce
  bound. This is bounded staleness.
  - It has to survive two races. The first is the read-modify-write race on
    `needTransmit`. The second is the clear of `needTransmit` after a publish.
  - The mutant `ReadDirtyNoTimer` drops the 500 ms rule, and TLC finds the lost change.
- **`EveryChangePublished`**: every change is eventually published, unless a later change
  overwrites it.
- **`NoTornPublish`**: a published repeated field holds the old value or the new one. TLC
  shows that the loop can publish the empty list that lies between the clear and the
  extend.
- **`FileLandsInHostDir`**: every downloaded file is written in its own run's `hostDir`.
  With one run in flight the uploader's `chdir` on the callback thread breaks it
  (`fota_uploader_chdir`).
- **`RetainedIsOneRun`**: the retained control payload never mixes two runs. It holds
  under spec 5's one-run assumption, whatever each worker meets. The mutant
  `DeliverNoClear`, a callback that does not clear the buffer, breaks it. Without the
  assumption it fails (see above).
- **`FailedRunReported`**: once the current run's worker has died, the buffer holds a
  "failed" entry of that run (spec 4.5 and 7). No exception of the worker is handled, so
  TLC shows a `flash-vip` command without its keys dying silently.
- **`RunTerminates`**: every started worker ends. A credential request that is never
  answered (`requests.get` without a timeout) leaves the worker in `"stalled"`, a label no
  step leaves, although every thread is weakly fair.
- **`UploadsFromScannedDir`**: every uploaded object was read from the scanned directory.
  A worker's `chdir` between the uploader's glob and its `upload_file` breaks it.
- **`ScanAnswered`** (an action property): when the callback thread leaves a scan, the
  scan was answered upstream. One raising upload makes `json.dumps` raise `TypeError`.
- **`RegistryMatchesFilters`**: when `on_start` is over, `self.signals` holds exactly the
  datapoints of the tree (the reference `DataPointsUnder`, a recursive function over the depth, taken to `Cardinality(Nodes)` levels, deeper than any tree of `Nodes`) whose path
  starts with a configured prefix. It holds when the file gives a list. The violation run
  adds a command line with `--vss_signals VC` and a file without the key: the string is
  iterated by character, so "V" and "C" are the prefixes, and the default string
  "No VSS" subscribes every path starting with "V". The mutant `MatchesFirstOnly` breaks
  the passing run.
- **`MissingFileTakesDefaults`**: the comment at config_loader.py 12 says a missing file
  means defaults; the code raises `UnboundLocalError` instead.
- **`OkayOnlyAfterDownload`**: "download okay" is reported only for a run that wrote a
  file.
- **`DownloadedIsFlashed`**: a run that reported its download eventually returns normally.
- **`ConfigLastWriteWins`** (proved, not in a run): each key of the merged config holds
  the value of the last merged message that carried it. The merge and the update of
  `lastWriter` are one step of the single callback thread, so it follows from what a
  dict merge does.
- **`ServingAllTopics`**: once the AWS thread has set `awsConnectionOk`, all three
  topics are active at the broker, unless a resubscribe is outstanding or one was
  rejected. This holds through drops and through resumptions with or without a kept
  session. The mutant `ResumeNoResubscribe`, an `on_connection_resumed` that does not
  resubscribe when the session was lost, breaks it. Together with the `bridge_deaf`
  violation it shows that the rejection's `sys.exit` is the only way the loop ends up
  serving deaf.
- **`SilenceLeadsToIdle`**: once the loop runs, it reaches the idle rate after the last
  inbound message.
- **`RateFollowsTraffic`**: while the loop sleeps and the last receive is recent, the rate
  is the active one. TLC finds a race that breaks it:
  - the loop reads the old receive time;
  - a signal resets the receive time and restores the rate;
  - the loop then writes the idle rate.
- **`ConfigRestoresActiveRate`**, **`NeverServingDeaf`**, **`SignalsAcked`** and
  **`ConfigEchoReflectsSettings`**: each states one claim of spec 4.7 about the bridge, and
  each is violated by the code. `PROJECT.json` "findings" gives the details.
- The idle check compares with the constant `IDLE_STATE_TRIGGER_TIME_MS`, not with the
  configured trigger. `IdleRead` shows this, but no run checks it: the shortest
  counterexample to a property about the configured trigger is the race above.

### Bounds

- **StatePublisher** has one scalar path and one repeated path, with two values each. The
  code's ticks and debounce are kept as they are: 200 ms and 500 ms. The idle trigger is
  scaled down from 600000 ms to 600 ms, so the switch to the idle rate happens within the
  search (28,756 states).
- **FotaPipeline** has five commands, one of each kind the callback can see:
  - a flash into an existing directory;
  - a flash into a missing directory;
  - a command that is not `flash-vip`;
  - a `flash-vip` without its keys;
  - a payload that is not JSON.

  It has three bucket listings:
  - two matching keys, where the last one wins;
  - no matching key;
  - an empty bucket.

  Every exception path of the worker is reached (17,339 states).
  - `CHECK_DEADLOCK FALSE` is set here only: once every command is handled, the program
    waits for the next one.

- **Bridge** has two signal messages (with and without a `sessionId`) and four config
  messages:
  - a new active rate;
  - an `ignoreList`;
  - a second `ignoreList` together with a scan that may raise;
  - an idle trigger above the code's constant.

  The link can drop and resume any number of times, with or without a session. Each
  resubscription may reject any subset of the topics (805,869 states). Each message is
  delivered once: the handlers are idempotent on the modelled state, so a redelivery shows
  nothing new.
  - `CHECK_DEADLOCK FALSE` is set here too: when the connect call fails, the AWS thread
    ends and nothing is left to run.
- **FotaUploader** has one flash command and one scan request of a directory that already
  holds a file named like the artifact and one other, with one run in flight. The glob
  returns the files in any order (`SetToSeqs`).
- **Startup** has a tree of five nodes below the root: a datapoint at the top (`V.S`), a
  model (`V.C`) with two datapoints (`V.C.S`, `V.C.D`), its back link `parent`, and an
  attribute that is neither. The files are missing, not JSON, or hold four lists of
  prefixes (one prefix, two prefixes, none, and the empty prefix every path
  starts with); the command line gives an
  endpoint or nothing (112 states). Every branch of `recursive_subscribe` is taken: skip
  `parent`, subscribe, not subscribe, recurse, pass over.

### Fairness

- **StatePublisher.** The AWS loop is weakly fair, because it is a `while True` with a
  sleep. The vehicle thread finishes the store it has begun. New signals get no fairness.
- **Bridge.** Only the AWS loop is weakly fair.
- **FotaPipeline.** Every started worker and the callback thread are weakly fair. Message
  delivery and the connection get no fairness.
- **Startup.** `main()` is one coroutine that runs its steps in order, so `Next` is
  weakly fair.

## 4. Proofs (TLAPS)

`StatePublisherProofs` proves, for every value of the constants that satisfies
`PathsAssumption` and `TimeAssumption`:

- **`TypeCorrect`**: `Spec => []TypeOK`. It rests on the `InitTypeOK` and `NextTypeOK`
  lemmas, and on `SatAddType`, which says that a saturating add stays within its cap.
- **`StalenessBounded`**: `Spec => []UnsentChangeScheduled`. The invariant is not
  inductive on its own, because it speaks only of the "sleep" point. The inductive
  invariant `IInv` adds what each earlier point of the loop carries:
  - `ConnectingMarked`: before the connection, a completed change is still marked dirty.
  - `LocalCopyScheduled`: after the read of `needTransmit |= timeDiffMs > 500`, a clean
    local copy means the debounce bound has not passed.
  - `FlagScheduled`: after the write, a clean flag means the same. The vehicle thread can
    only set the flag, never clear it.

  The proof has one step per action.

`BridgeProofs` proves, for every value of the constants that satisfies `BridgeAssumption`:

- **`TypeCorrect`**: `Spec => []TypeOK`. The config mapping is typed as a function from
  some subset of the keys to config values. `MergeType` shows that a merge stays in that
  set, and that its domain is the union of the two domains.
- **`LastWriteWins`**: `Spec => []ConfigLastWriteWins`. With `TypeOK`, the property is
  inductive. The config handler either merges and updates `lastWriter` for exactly the
  message's keys, or does neither, when the uploader raised. The proof splits on the keys
  of the message (`HandleConfigLWW`).
- **`ServesAllTopics`**: `Spec => []ServingAllTopics`. The property is not inductive: a
  resumption can come in the middle of the subscribe loop. The inductive invariant
  `ConnInv` adds:
  - before the i-th subscribe call, the client's topics are the first i-1 topic names
    (`SubscribedBefore`);
  - past the loop, the client has all three topics;
  - `awsConnectionOk` is set only past the loop;
  - with no resubscribe outstanding and none rejected, the session equals the client's
    topics.

  A resumption without a session sets a resubscribe pending, and its completion restores
  the client's topics less the rejected ones. The rejected ones set `exitRaised`.

`FotaPipelineProofs` proves, for every value of the constants that satisfies
`FotaAssumption`:

- **`TypeCorrect`**: `Spec => []TypeOK`. `WorkerStart` has no case for a payload that is
  not JSON, so the induction carries `BadJsonIdle`: such a command never gets a thread.
`StartupProofs` proves, for every configuration, command line and signal tree that
satisfies `StartupAssumption` (which includes that every object's `__dict__` is a
sequence of `[name, node]` entries of the tree):

- **`TypeCorrect`**: `Spec => []TypeOK`. `recursive_subscribe`'s loop reads the innermost
  frame `stack[Len(stack)]` and the entry `Dict[top.node][top.i]`, so the induction carries
  `TypeInv`: while the walk is under way the stack is not empty, and every frame's
  position is at least 1 (a call starts at the first entry and only moves forward). Then
  the entry read is one of the tree's, a model child pushes a frame of a model, and only
  paths of the tree's objects enter `self.signals`. The proof gives Z3 the signal-tree
  conjuncts of the assumption as the lemma `TreeAssumption` (proved by Zenon), since Z3
  cannot encode the string key `"vss_signals"` together with the record-typed defaults.

### 4a. No refinement is kept

The three-step report of `FotaPipeline` implements an atomic append-and-republish only
while one thread at a time reports. That holds only under `OneRunInFlight`, which the code
does not enforce. Without it, a stale snapshot can be retained after a newer one. So the
project keeps no refinement of the reporter.

### What stays with TLC only

- Liveness (`EveryChangePublished`, `DownloadedIsFlashed`, `RunTerminates`), because
  TLAPS does not handle fairness or ENABLED.
- `Startup`'s `RegistryMatchesFilters`: its reference `DataPointsUnder` is defined by
  recursion over the depth of the signal tree, and what such a definition computes for
  every tree needs induction over data, which the installed provers cannot do.
- The FOTA properties, `RateFollowsTraffic` and the other bridge violations. These are
  counterexamples, which TLC finds and a proof cannot give.

## 5. Plan for later work

1. **Composition of the bridge with the scheduler.** The signal handler's reset of
   `lastReceiveTime`, together with `StatePublisher`'s loop, in one module.
2. **An abstract `Orchestrator`** with the state machine of spec 4.5
   (Idle → CredentialsRequested → Downloading → Downloaded → Flashing → Done | Failed),
   onto which `FotaPipeline` is mapped. `FailedRunReported` and `RunTerminates` already
   show which of its transitions the code never takes.
3. **The vehicle-app forwarder** as a third reporting thread. It needs a model of the
   other vehicle app that publishes on the local broker.
