# Verification of Science Assistant

TLA+ models, TLC configurations and TLAPS proofs for the Science Assistant
gateway (`src/`): an MCP server that transfers files in and out of a data root,
and runs scientific-data providers on behalf of its callers. Paths below are
relative to `src/science_assistant/` unless they begin with `src/`.

The difficult part of this system is not computation. It is state that several
calls change together: manifests and partial files on disk that outlive the
worker which wrote them, and progress records that a provider's task, the
server's start code and the control command update from three sides. That is
what the modules are about.

## 1. The system

| Component | State it keeps | Operations | Modelled in |
|---|---|---|---|
| Package transfer, `services/package_transfer.py` | per package, on disk: manifest (status, received digests, completed file), part files, `.assembling` file, `flock` file; target files | `receive_part`, `wait_and_assemble`, `package_status` | `PackageTransfer` (all that change state) |
| Progress tracker, `progress.py` | one record per operation under one lock: state, counters, token, attempt, active clock | `begin`, `update`, `pause`, `resume`, `complete`, `fail`, `cancel`, snapshots | `ProgressTracker`, `ProgressRecord` |
| Provider lifecycle, `provider_contract.py`, `server.py`, `commands/provider_operation_control.py` | asyncio tasks, the tracker of each provider, a start lock per provider | `execute` with retries, timeout and cancellation; background start; `report_*`; pause, resume, cancel | `ProviderLifecycle` |
| MCP streaming transfer, `services/mcp_transfer.py` | a JSON state and a `.part` file per transfer, no lock | `upload_begin`, `upload_chunk`, `upload_complete`, `upload_status`; `download_begin`, `download_chunk`, `download_status` | `McpUpload`, `Downloads`; the dataset store's use of it in `DatasetStore` |
| Python client, `src/client/science_assistant_client/client.py` | a sidecar state file, a `.part` file | `upload_file`, `upload_package_file`, `download_file`, `_execute_proxy` and job polling | `upload_file` in `McpUpload`, `download_file` in `Downloads`; the package upload is the free environment of `PackageTransfer`, polling is left out |
| Part script, `src/scripts/mcp_file_parts.py` | a manifest and a directory of parts | `init-download`, `download-part-payload`, `accept-part`, `assemble`; `prepare`, `part-payload`, `wait-payload` | `Downloads` (the first four; the others print payloads) |
| File store, `services/file_store.py` | upload sessions with a time to live, binaries, metadata sidecars, trash | `receive_file_part`, `get_file_part`, `list_files`, `delete_file`, the expiry sweep | `FileStore` |
| Agent file sender, `src/agent/mcp_file_sender.py` | a state file per upload and download, the bytes downloaded so far | `prepare`, `next`, `accept`, `download-prepare`, `download-next`, `download-accept` | `FileExchange`, composed with `FileStore` |
| Scientific dataset store, `services/scientific_dataset_store.py` | datasets, provenance manifests, checkpoint sidecars | `store_sync` with resumption, checkpoint preservation and discard | `DatasetStore`, over `ProgressRecord` and the streaming transfer |
| Provider registry, `provider_registry.py`, and the start of `server.py` | providers by name, claimed modules, diagnostics; the command table | `register`, `get`, `discover_providers`, `clear_diagnostics`; building and registering the command types | `ProviderRegistry` |
| CERN Open Data and code-analysis resolver, `services/cern_open_data.py`, `services/code_analysis_project_resolver.py`, `commands/cern_open_data_commands.py` | a staging directory per command, a session at the Code Analysis server, the project's files | search, record and download commands | `CernAcquisition` |
| Gateways and pipeline: astroquery, downloader, `src/pipeline/` | none | I/O and formatting | no: nothing interleaves |
| Build and release scripts, `src/scripts/`, `src/docker/` | none | run by hand | no |

How they interact. The MCP commands run the file services in threads
(`asyncio.to_thread`), and `data_package_wait` in a queue job, so calls of one
package run in several threads and processes that share only the disk. Provider
commands run on the server's one event loop: a command that can report progress or
resume becomes a background task whose handle the server finds by comparing the
tracker's keys before and after a `sleep(0)`. The control command edits the
tracker's record of an operation directly; the task that is running the operation
is not told. Providers themselves are plug-ins (the package of concrete providers
is empty), so what `fetch_raw` does is external: any sequence of the base classes'
reports, then a response or an error.

What makes each component hard, and the property that would catch it, is listed
line by line under `hazards` in `PROJECT.json`. In short:

- package transfer: concurrent waiters, assembly outside the lock, workers that die
  between two durable writes, I/O errors after the publication, several packages
  with one target;
- progress tracker: late calls on ended operations, calls that raise half-way
  through their assignments, alternation of pauses and reports on the active clock;
- provider lifecycle: reports that race control calls, retries and cancellation, a
  second task on a paused operation, the gap in the background start;
- streaming transfer: lost and late answers, calls repeated while they still run, the
  windows between append and saved offset, verification and replacement, replacement
  and saved status;
- downloads: a served file that changes between the digest and the chunks, local files
  left by an interrupted run;
- file store and agent: expiry of a session in use, directories that are removed file by
  file while others write to them, lost answers and repeated calls, two-step publication
  and deletion, the append before the save;
- dataset store: checkpoints of other stores or of ended operations, transfers
  discarded under a running call, an attempt that timed out and goes on storing beside
  its retry, records that refuse what is reported to them;
- provider registry: threads that discover and register at once, modules claimed before
  they are imported, names that differ by their blanks, commands of one name;
- CERN acquisition: failure or cancellation at every await, a remote file and a project
  listing that change while they are read.

## 2. The modules

### VerifiedUpload, PackageTransfer

`VerifiedUpload` is the promise to the caller: an accepted part never changes, and a
package reaches its target in one atomic step, at most once, only when every
accepted part is the declared one, and over an existing file only when `overwrite`
was set. It knows no workers, locks, temporary files or crashes.

`PackageTransfer` is the service. Its variables are what is on disk (`status`,
`received`, `completedFile` of the manifest; `stored` part files; `temp` and
`tempBy`, the temporary file and the open stream that writes it; `target`), what the
kernel keeps (`lock`, the `flock`), and the memory of a *worker*, one thread or queue
process inside a call (`pc`, `job`, `hashed`, `fileRecord`). `published` records that
a package's `os.replace` has happened. One action is the code between two durable
writes or lock operations:

| Code | Actions |
|---|---|
| `receive_part` | `ReceiveOpen` (lock, manifest read or created), then `ReceiveStore` and `ReceiveRecord`, or `ReceiveAnswer` for every answer and refusal that writes nothing |
| `wait_and_assemble` | `WaitOpen`, then polls: `TakeOwnership` (`_assemble_owner`), `WaitReturn` |
| `_assemble`, in order | `AssembleBegin`, `CopyPart` per part, `VerifyWhole`, `CheckTarget`, `Replace`, `ReadRecord`, `Complete`, `Cleanup` |
| its checks and `except` | `AssembleReject` (a check raised), `AssembleFault` (I/O error), `FailUnlink`, `MarkFailed` |
| process death | `Crash`: the kernel drops the lock, the disk stays |

The content of a part is a number; `k` is the declared content of part `k`, any
other is a wrong one. Two contents are the same exactly when their SHA-256 is, so the
digest *is* the content. A file remembers which package wrote it, which the service
itself cannot tell: only properties use that. Left out: refusals before any state
changes (malformed Base64, a part of the wrong size, fields that differ from the
manifest), loss of data that was written but not synced, and path checks.

### McpUpload

An upload by the Python client and the service it calls. Nothing orders the calls of one
transfer: each runs in a thread (`commands/data_transfer_commands.py:28`) and takes no
lock, so a call that nobody awaits any more runs beside its repetition. `VerifiedUpload`
is therefore no specification of it; what holds of such calls is stated as properties of
its own. The disk is `saved` (the JSON states), `temp` (the
`.part` files) and `target`; a *worker* is a thread of the server inside a call, with
the request it serves (`call`) and the state it has loaded (`view`), which it will
save, changed. A request is a record in `requests` until a worker takes it. The
client is at a `phase` of `upload_file`, with its `position`, its `sidecar` file and
whether it is `waiting` for an answer.

| Code | Actions |
|---|---|
| `upload_file`, `_execute_proxy` | `Start` (with or without a sidecar file), `Send`, `TimeOut`; what answers make it do is `Proceed`, `Finish` and `Refuse` inside the service's actions |
| `upload_begin`, `upload_status` | `UploadBegin`, `UploadStatus` |
| `upload_chunk` | `UploadChunk` (load and checks), `ChunkAppend`, `ChunkSave` |
| `upload_complete` | `UploadComplete` (load, and its two early answers), `CompleteVerify`, `CompleteCheck`, `CompleteReplace`, `CompleteSave` |
| its mismatch branch, and what raises | `FailSave`, `FailUnlink`; `CompleteRaise` |
| an I/O error or the death of the process | `Break`: the call ends where it is |

`TimeOut` leaves the request or the call running, without anybody who awaits its
answer: that is a lost request's repetition, a lost answer and a late call in one.
Three history variables say what became of a transfer, for the properties to name:
`overlapped` (a chunk call of it ran beside another call of it), `torn` (a call of it
ended between two writes that belong together) and `discarded` (its `.part` file was
removed after a mismatch).
Chunks are numbers and positions count chunks; chunk `k` of the file is the number
`k`, so a `.part` file is verified when it is `Whole`. The answer to an awaited call
is delivered with the call's last step, since nothing but the client reads it.
`os.replace` inside `_save` makes each saved state whole, so a save is one step; the
`.part` file of `upload_begin` is nobody's before the state names it, so that call is
one step too. Left out: the negotiated chunk size (one chunk is what fits), malformed
Base64 and over-long chunks, which are refused before any state changes.

### ProgressRecord, ProgressTracker

`ProgressRecord` is the pure part: what each tracker method makes of a record.
`update` and `resume` assign fields between their checks, so the record after a
*refused* call matters; each check is a predicate (`BytesPass`, `OffsetPass`,
`TotalPass`, ...) that includes the checks before it, and a field is assigned if the
checks before its assignment pass. `ProgressTracker` adds the operations, the clock
and `worked`, the history of seconds an operation was neither paused nor ended. A
method holds the tracker's lock throughout, so it is one action, whether it returns
or raises. Block sizes, messages, wall-clock stamps and speed samples change no
control flow and are left out.

### ProviderLifecycle

Extends `ProgressRecord` with the tasks that run `execute`, the server's start
code and the control command. Code between two awaits is one action, because one
event loop runs it all:

| Code | Actions |
|---|---|
| `ScientificProviderCommand.execute` (`server.py`) | `RequestDirect`; `RequestBackground` up to `sleep(0)` under the start lock, `Answer` after it |
| `execute` up to its first await | `TaskStart` / `Open` = `OpenNew`, `OpenPaused` or `OpenRefused`, then `Connect` |
| `report_*` in `fetch_raw` | `ReportSize`, `ReportChunk` |
| `fetch_raw` returns, raises or times out | `FetchReturn`, `FetchRaise` |
| the next attempt after the backoff | `Retry` |
| `CancelledError` | `CancelDelivered` |
| the control command | `ControlPause`, `ControlResume`, `ControlCancel` |

All happens at second 0: clocks are the subject of `ProgressTracker`. Left out:
spacing by the rate limit (an await inside the same `try` block, before the fetch,
with no state the properties see), TAP job phases, provenance and the result schema
(a response is acceptable or not, `normal`).

### Downloads

What the client's `download_file` and the part script make of a file the server
serves. The server keeps one JSON state per transfer with the size and the digest of
the file when the transfer began, and reads the file again for every chunk
(`DownloadBegin`, `Read`, `Serve`); `SourceChanges` replaces or removes it. A block of
content is a pair of a version and a position, so a file of mixed or torn content
differs from every whole one.

| Code | Actions |
|---|---|
| `download_file` | `Download` (arguments), `Begin` (state file found or transfer begun), `Open`, `FetchChunk` per chunk, `Verify`, `Unlink`, `Replace`, `Finish` |
| a call that fails for good, the process that ends | `Stop` |
| `init-download`, `download-part-payload`, `accept-part` | `InitDownload`, `FetchPart`, `AcceptPart` |
| `assemble` | `Assemble` (arguments), `Join`, `AssembleUnlink`, `AssembleReplace`; `AssembleTimeout`, `AssembleStops` |

The client and `assemble` may run together for one destination. A block of the script's
manifest is accepted when its index and size are right, as in the code; only `assemble`
looks at the content.

### FileStore, FileExchange

`FileStore` is the service. On disk are `manifest` and `fragments` of each session,
`lockFile` (which file the session's `flock` is on: it goes with the directory, and a
later caller locks a new one), `binary`, `metadata` and `trash`. A worker is a thread
inside one call. `shutil.rmtree` lists a directory and unlinks one entry at a time, each
a step of its own; `removing` is what a worker's `rmtree` has still to unlink, and
`split` names the sessions whose `.lock` a sweep unlinked while a call had it open.

| Code | Actions |
|---|---|
| the sweep that parts and listings begin with | `SweepList`, `SweepVisit` (a session's manifest, at its turn), `SweepEnd`, without the sessions' locks |
| `shutil.rmtree`, by the sweep, an expired session's call and a completed upload | `ListDirectory`, `ListParts`, `UnlinkPart`, `UnlinkManifest`, `UnlinkLock`; `UnlinkFails` (`ignore_errors`) |
| `receive_file_part` | `NewSession` or `RefuseFirst`, `OpenLock`, `Load` (and `Expire`), `WriteFragment`, `SaveManifest` |
| `_decode_complete_session` | `ReadPart` per part, `RefuseContent`, `Publish`, `Describe`, `Complete` |
| `delete_file` | `MoveBinary`, `MoveMetadata`, `Purge`; `MoveFails` and `Rollback`, `RollbackNothing` |
| an I/O error, the end of the process | `WriteFails`, `Restart` |
| a write whose directory or temporary file another call takes away | `Disturbed` |

`FileExchange` adds the agent: a model that runs one command of the script after
another and makes the tool calls the script prints. It may call twice (`SendPart`),
mangle what it copies and keep any answer it ever got (`GetPart`, `AcceptUpload`), and
end the script between two of its writes (`AppendPart`, `InstallOutput`,
`SaveDownload`; `SaveFails`, `ScriptEnds`). Other callers list and delete (`OthersCall`).
Left out: paging and name patterns of the listing, and the argument checks.

### DatasetStore

One call of `store_sync` per worker, all in one process with one tracker, whose records
are those of `ProgressRecord`; the chunks go through the server's own streaming
transfer, step by step as in `McpUpload`.

| Code | Actions |
|---|---|
| `store_sync` from its first progress report; the size | `Start`, `Measure` |
| `_prepare_transfer` | `ResumeTransfer`, `DiscardStale`, `BeginTransfer`, `MarkTransfer` |
| `_upload_serialized` | `LoadChunk`, `AppendChunk`, `SaveChunk`, `FollowChunk` (progress and checkpoint) |
| `upload_complete` | `Verify`, `CheckTarget`, `Replace`, `SaveCompleted` |
| the rest of `store_sync` | `WriteManifest`, `UnlinkCheckpoint`, `Finish` |
| `except`, I/O errors, cancellation, crash | `HandleFailure`, `Fault`, `Cancel`, `Crash` |
| a provider's attempt times out and the next connects | `Retry`; the thread goes on |

A dataset is its serialized content; `FirstRecords` are records an operation may have
when its fetch is over. Several calls may store one operation: a timeout
(`provider_contract.py:989`) does not stop the thread that `asyncio.to_thread` runs, and
the next attempt calls the store again. The first report carries the call's attempt, which
the tracker refuses once it knows a later one (`progress.py:561`).

The manifest is built after the publication, from what the provider and the tracker say.
Two constants stand for what it may refuse: `Describable`, the contents and validators whose
metadata it accepts (plain JSON, without secrets), and `Identities`, the validators with a
provider-specific identity, which a resumed store passes on as a cursor that only commands
with cursor resume may have (`CursorAllowed`). `overlapped` remembers the transfers
that two calls used at once.

### ProviderRegistry

A candidate is what a module, or a caller of `register`, presents: a record with one
field for each thing an admission looks at. The checks are lists in the code's order
(`ObjectChecks`, `CommandChecks`, `SchemaChecks`, `RuntimeChecks` or `SourceChecks`,
`DescriptorChecks`, `CapabilityChecks`, `TransportChecks`), and the first that does not
hold gives the diagnostic (`FirstFailure`). Only `SchemaChecks` is not in the code's order,
which goes command by command through checks that `SchemaChecks` makes one after the other
for all commands: two defects at once may give another code, and the outcome is the same.

| Code | Actions |
|---|---|
| `discover_providers` | `Discover` (module names), `Claim`, `Import` or `ImportFails`, `RecordDiscoveryDiagnostic`, `Return` |
| `register` | `RegisterObject` (a caller), then under the lock `Inspect` (object and name) and `Admit` (the rest), or `AdmitRaises`, `DecisionUnreadable` |
| `clear_diagnostics`; a decision file that is edited | `ClearDiagnostics`; `FileChanges` |
| the server's start | `Build` (`_build_provider_command_types`) or `ImportAborts`, `RegisterCommands` |

The lock is held from `Inspect` to `Admit`; they are two actions so that what other
threads do without the lock, and the file, can come between. The lock is an `RLock`: a
provider whose `commands()` called the registry from inside its own admission would get
in, which is left out. Schemas are trees of nodes that `ClosedSchema` walks as the code
does. The constant `Catalog` is the packaged decisions. The server builds its registry
without any (`server.py:48`), in runtime mode, so as it stands it admits no provider at
all, which agrees with a package of concrete providers that is empty; the run supplies a
catalog, as a build that ships providers must.

### CernAcquisition

One command at a time through its awaits, each an action that may instead fail or be
cancelled: `FetchRecord`; `RequestFile`, `ReceiveBlock`, `StoreFile`; `EnterWriter`,
`ResolvePage`, `CreateSession`; `UploadNext` (two or four files), `UploadsDone`;
`ExitWriter`; `Answer` and `Leave`. The failures are `AcquisitionFails`, `EnterFails`,
`UploadFails`, `ExitFails`, the cancellations `Cancel`, `CancelInEnter` and
`CancelInExit`. `RemoteChanges` and `ListingChanges` are the environment. The branch of
`download_record_file` that resumes a partial file is not modelled: the staging
directory is a fresh `TemporaryDirectory`, so it never finds one. What a record declares
of a file is a checksum, and `Checksum` is a constant operator: the adler32 of the code
has 32 bits, so contents may share it, and a declared checksum without a colon, which the
code does not verify (`cern_open_data.py:405`), is as good as none. An algorithm that
`hashlib` does not know is one of the failures. Of the codes that error
answers have, the one for invalid values (`VALIDATION_ERROR`) is left out: it would be one
more failed answer.

## 3. The runs

| Run | Instance | What it shows |
|---|---|---|
| `package_core` | 1 package of 2 parts, 2 contents, 3 workers, 1 crash, 1 I/O error, no overwrite | all safety and liveness properties, and `VerifiedUpload` as a `PROPERTY` |
| `package_crash` | 2 workers, 1 crash | violation: an orphaned assembly is never taken over |
| `package_race` | 2 packages without overwrite, one target | violation: one replaces the other's file |
| `progress_tracker` | 1 operation, three kinds of capabilities, counters 0..1, 2 attempts, 2 seconds | immutability of ended records, monotonic counters, active clock |
| `provider_lifecycle` | 2 requests, one only for the streaming command, the other for either, 1 retry, 1 byte | one dataset per operation, nothing abandoned, no exchanged handle, every operation ends |
| `lifecycle_resume` | 2 requests, the streaming command | violation: a request to resume cancels the operation |
| `mcp_upload` | 1 client, 2 chunks, 2 threads, 2 timeouts, 2 broken calls, 3 transfers, a target that may exist and may not be overwritten | integrity of what is installed, truth of `completed`, that no acknowledged chunk is lost, and that a user who goes on succeeds |
| `downloads` | versions of 3 and 4 blocks, chunks of 2, 2 transfers, 1 change of the file, 1 stop | only whole versions are installed, only a changed or interrupted download is refused, and every download ends |
| `file_exchange` | 2 workers, 2 sessions, 2 files, 2 parts, 1 tick, 1 fault, 3 calls | what comes down is what went up, a session makes one file, a listed file is stored |
| `dataset_store` | 2 calls, 2 operations in up to 3 attempts, 1 target, 2 contents, manifests that are refused without a validator, 2 transfers, 2 blocks, two kinds of records, 1 mishap | what is published is whole, what returned is stored, what raised had a cause |
| `provider_registry` | 2 threads, 2 modules, 1 caller's provider, every defect an admission looks for, 1 mishap | no claimed module is lost, none replaced, names and commands lead to their providers |
| `cern_acquisition` | 2 commands, 3 versions of 2 blocks, two of them with one checksum, 3 projects on pages of 1, 2 changes | the project holds only declared files, manifests only beside their artifacts |

Why the bounds are enough. Two parts are the smallest package that can be
incomplete, and two contents give each part a right and a wrong one. Three workers
are an assembler, another waiter and a part call; two suffice for the races of two
packages, which are between their assemblers. One crash and one I/O error reach each
control point, and both together reach the error path of a worker whose
predecessor died; more of either only stops more workers. One operation suffices for
the tracker, since operations share nothing but the clock; one byte and two attempts
give every check a value it refuses and one it accepts, and two seconds let an
interval be counted, paused and counted again. Two requests are enough for a
task and a rival on one operation, or for two starts in one gap; one byte and one
retry reach a retry after progress and an exhausted loop. `Asks` makes the first request a streaming one, because
a direct request before it is the same pair exchanged; only two direct requests are left
out, neither of which has the gap of a background start.

Two chunks are the smallest file with a position between its ends. Two threads are a call
the client has given up and the one that repeats it; two timeouts orphan a transfer, or
leave two calls of one upload behind, and since at most two beginnings time out, three
transfers are all the client can begin. Two broken calls reach each of the windows, also in
the repetition of a call that broke. One client suffices while targets are not shared:
transfers of different clients share nothing else, and what shared targets do is in
`package_race`.

Versions of 3 and 4 blocks with chunks of 2 give a last chunk that is short and one
that is full, and a change to a longer and to a shorter file. Two transfers are one the
client resumes and one begun anew. In `file_exchange`, one tick expires every session
there is, two workers are a part in flight and the sweep or its repetition, and three
calls are the parts and a repetition, a sweep or a deletion; one fault reaches every gap
between two writes. In `dataset_store` two calls are a store and a rival on its checkpoint,
its target or its operation. One record is an operation in its second attempt, so that a
call of the first is superseded, that of the second goes on and `Retry` leads to a third;
the other has a total that a refused update left below its bytes. Operations that refuse
offsets, or whose offset is ahead of their bytes, are covered by the theorem alone, as are
calls on different targets. Two modules and a caller's object give a rival in
the same call, in another thread's and outside discovery; a candidate is good, or has
one of the 36 defects that the checks and `except` clauses tell apart. Three projects on pages of one, with two
changes, let the wanted one move across a page border in each direction.

`CHECK_DEADLOCK FALSE` is set where the system really stops: a target that exists
and may not be overwritten refuses every call of a package, the requests of
`ProviderLifecycle` are finitely many, and a client of `McpUpload` is done once its
file is installed. `Downloads` is out of transfers, `FileExchange` of calls and time,
`DatasetStore` has returned or raised, `CernAcquisition` is out of commands, and a
`ProviderRegistry` whose threads are done and whose server is up or failed does nothing
more.

### Fairness

Package transfer. A call that has begun goes on: the operating system schedules
threads and queue workers, and blocked `flock` callers are served in turn, so
steps that need the lock are strongly fair (between two attempts other calls may take
it). A wait call ends, because `timeout_seconds` is at most a day; callers keep
calling wait, as `PACKAGE_TIMEOUT` advises (`commands/package_metadata.py:33`).
Strong fairness for that is per package, because calls may be refused while the
lock is held. No part call, crash or I/O error is fair. `AssemblyEnds` and
`ReadyIsAssembled` excuse a crash; `package_crash` shows why they must.

Provider lifecycle. The event loop runs every ready callback, and
`asyncio.timeout` ends each fetch with a retryable error
(`provider_contract.py:989`), unless something else ends it before. That is the only
way in which the model obliges a provider to end, and it presumes a `fetch_raw`
that awaits. Requests, reports and control calls are not fair.

Streaming upload. The operating system runs the server's threads (`Work`), requests
that are not lost are taken (`Accept`), a client that runs goes on (`Send`), and its
user runs it again after a failure (`Start`), as `src/client/README.md:57` advises.
Weak fairness does for all of them, since nothing here takes turns. Timeouts and
broken calls are not fair.

Downloads. A `download_file` that runs is a coroutine the event loop resumes: weak
fairness of `Open`, `FetchChunk` and `Verify`. Nothing else is fair, a change of the
served file least of all. File exchange, dataset store, registry and CERN acquisition are checked for
safety only and state no fairness.

## 4. The properties

Each property's comment says which behaviour of the code it is about. The ones that
carry the most:

- `SingleAssembler`: no two workers are ever inside `_assemble` for one package,
  although ownership is taken under the lock and used outside it, and waiters come,
  time out and die. Everything about the temporary file depends on it.
- `KeepsPromise` (refinement of `VerifiedUpload`): acceptance and publication, seen
  from outside, are atomic and once-only in spite of the windows inside.
- `FailedIsUnpublished` holds without I/O errors only: after one behind line 469 the
  code fails a package whose target it has replaced. It is stated with that
  hypothesis, which the runs with an I/O error and without both meet.
- `ActiveNeverOvercounted`: the code's active seconds never exceed the seconds really
  spent neither paused nor ended. They may fall short: `update(state=RUNNING)` on a
  paused operation un-pauses it without starting its clock.
- `CountersNeverGoBack`: also for calls that raise after assigning some fields.
- `OneDataset`: pausing does not stop the running task, and `execute` then starts a
  second one on the same operation; still only one can complete it.
- `NeverAbandoned`, `OperationEnds`: every path out of an attempt retries or ends the
  operation. Both leave out operations that were paused or whose task was cancelled:
  for those the code gives no such guarantee (a resumed operation whose attempt
  is already 2 is refused by its own tracker at `provider_contract.py:980`, outside
  the `try` block; a cancellation in the backoff sleep is not recorded).
- `NoStolenHandle`: a background start never answers with another background start's
  operation. A *direct* command of the same provider may begin an operation in the gap;
  the property does not promise otherwise.

- `InstalledWhole` (`McpUpload`): two completions at once, late and repeated calls and calls
  that end half-way leave what is installed whole. Only a chunk call beside another call of
  its transfer can break it, and the property names just those transfers; that they do
  break it is in section 5.
- `AcknowledgedKept`: an old call may save an offset it loaded long ago, and the file may
  hold more than the offset says, but an acknowledged chunk is never missing, until the
  file is installed or removed. Resuming at the saved offset rests on it.
- `UploadSucceeds`: so a user who runs the client again after failures ends with the file
  installed, although late calls still run beside the new ones and calls end half-way. It
  excuses three things, each of which TLC shows to be needed: a chunk call that met another
  call of its transfer, a call that ended in one of the two windows of `torn`, and a
  target that is taken.
- `CompletedIsInstalled`: `completed` is saved by calls that loaded the state before
  they replaced the file, next to others that save what they have loaded; still it is
  never said of a file that has not reached its target. The converse does not hold: a call
  that ends between the replacement and the saved status leaves a file at its target whose
  transfer never completes.
- `NoSilentOverwrite` holds when packages have targets of their own (a theorem) and is
  refuted by `package_race` when they do not.
- `RefusedForCause` (`Downloads`): a download fails its checks only if the served
  file changed after the transfer began, so neither an old `.part` file, an interrupted
  write nor a program that ended can spoil it.
- `DownloadEnds`: also when the file changes, except to one that is shorter: then the
  server answers empty chunks that are never the last, and the client asks for ever.
- `RoundTripWhole` (`FileExchange`): the agent accepts answers from memory, twice, late
  and mangled; still what it calls verified is what went up.
- `SessionMakesOneFile`: the lock of a session is lost with its directory, file by file, while
  parts are repeated, late or still in flight, and calls that come then lock another file;
  still one session makes one file, whoever calls. The exception is a session that a sweep
  found expired, and whose `.lock` it unlinked while a call that was refreshing the session
  had it open (section 5).
- `ListedIsStored`: a sidecar has its binary except after a process ended between the two
  moves of a deletion, which nothing repairs; the property names just those files.
- `PublishedWhole` (`DatasetStore`): a store may discard the transfer another one is
  uploading through, whose next append creates the temporary file anew; the digest
  check keeps all that from the target. It cannot help when a retry resumes the very
  transfer that the thread of a timed-out attempt still uploads to; the property leaves
  those transfers out (section 5).
- `ReturnedIsStored` is for calls that met no fault or control call and were alone with
  their target and operation: no other store of the target overlaps or follows them, no
  other attempt stores the operation meanwhile, and they found no checkpoint of an earlier
  one. With an overlapping store the dataset of one may end beside the manifest of the other.
- `RaisedForCause` lists the causes for which such a call fails. Five of them are limits of
  the code: a command without offset support reports an offset for every block and can
  never store; an operation whose offset is ahead of its bytes exceeds its own total on
  the last block; one whose record is beyond its total before the store begins is
  refused at its first report; so is the store of an attempt that a later one has
  superseded; and a manifest that is refused fails a store after its dataset is published.
- `ClaimsAccounted` (`ProviderRegistry`): a module is claimed before it is imported and is
  never tried again, also not after an import that failed for a passing reason; at
  least what became of it is on record, or the exception reached the caller.
- `ReturnedIsServed`: the names discovery returns are unstripped, the keys are stripped;
  in runtime mode the catalog's lookup by the unstripped name keeps padded ones out.
- `ExposedByOwner`: a command is never answered by another provider. A command whose name
  the adapter has is left to the adapter silently and still advertised
  (`server.py:356`), which the property allows, and two providers with one command
  name end the start of the server.
- `ManifestHasArtifact`: a command may end between any two uploads, and what it leaves in
  the project is an artifact without its manifest, never the reverse.
- `FileIsDeclared`, `NotFoundIsAbsent`: against a remote file and a listing that change. A
  downloaded file is one version of the remote file, whole, and has the declared checksum:
  another version with the same checksum is accepted, as in the code.

Each property of a passing run has a mutant: a variant of a definition with a
plausible bug (in the modules, marked `Mutant:`) under which TLC finds it
violated.

## 5. Where the code and its documentation disagree

1. `package_crash`: a worker that dies while assembling leaves the package
   `assembling` for ever; waiting again, as the documentation of `PACKAGE_TIMEOUT`
   advises, does not help, and new parts are refused.
2. `package_race`: `target.exists()` and `os.replace` are two steps under a lock of
   the *package*; two packages with `overwrite=false` can replace one another's file.
3. `lifecycle_resume`: a background start counts new keys in the tracker; a request with
   `resume_operation_id` adds none, so the server cancels the task and with it the
   operation it had just resumed.

What follows TLC found with instances that are no longer among the runs, or that the
properties exclude by a hypothesis:

- `completed_file` is read from the path after the replacement (`package_transfer.py:470`)
  and may describe another package's file: two packages with overwrite for one target.
- Counters survive a retry and the helper methods add the new attempt's chunks to them,
  so a retry with a known size is refused as exceeding the total
  (`provider_contract.py:1041`): `ProviderLifecycle` with one retry, asking that a
  provider that ends well completes.
- Calls of one upload run in threads and take no lock (`mcp_transfer.py:123`), though
  `commands/transfer_metadata.py:106` says that completion verifies the file and installs it
  atomically. A chunk call the client has given up can append to the file between
  another call's digest check and its replacement, and the torn file is installed and called
  completed: `InstalledWhole` of `mcp_upload` for all transfers.
- `upload_chunk` appends before it saves the offset (`mcp_transfer.py:126`). When it ends in
  between, or when two calls append the same chunk, the file is longer than the
  "authoritative" offset (`transfer_metadata.py:111`), each resumed upload can only fail
  its digest, and the "exact position" of line 115 does not exist. A call that ends between
  the replacement and the saved status (line 160) leaves a transfer that can never be
  completed either, since its file is no longer there. `UploadSucceeds` without its
  exceptions for `overlapped` and `torn`.
- A late chunk call can save its offset over the status `failed` of a transfer whose file has
  been removed, and so revive it, without the chunks it says it has: `AcknowledgedKept` for
  discarded transfers.
- A sweep reads a session's manifest as expired, a part refreshes the session, and the sweep
  goes on to remove it (`file_store.py:198`), `.lock` included. The last part, sent twice,
  then finds two different lock files, is twice the one that completes the session, and two
  files are published: `SessionMakesOneFile` without its exception, for 1 session of 3 parts
  and 3 threads that make the calls of part 0, part 1, part 2 twice, and a listing. With
  the exception the property holds in that instance too.
- A timed-out attempt's thread goes on storing beside its retry
  (`scientific_dataset_store.py:329`), on the same checkpoint and transfer, so an append can
  fall between digest check and `os.replace`: `PublishedWhole` for all transfers, against
  the "atomic persistence" of that module's first line.

And what the models say of the code without contradicting a document: a preserved
checkpoint names an operation that has ended, so no store can ever resume it
(`scientific_dataset_store.py:640`); every exception class that the `except` clauses of
discovery do not name ends the whole discovery after the module was claimed
(`provider_registry.py:1000`); a cancellation inside `__aenter__` leaves the Code
Analysis session open, because line 331 of the resolver catches `Exception` only; a
failure of `delete_session` turns a finished acquisition into an error answer; and a store
that was resumed with a validator that holds a provider's identity always raises after the
publication, unless its command resumes by cursor, because its provenance then names a
cursor that `provenance.py:399` forbids (`CursorAllowed`).

## 6. The proofs

`PackageTransferProofs` holds for all finite or infinite sets of packages,
targets and workers, any number of parts and contents, any bounds on crashes and
faults, under `ConstantsOK`. The invariants are not inductive on their own;
`IInv` joins them with what the control points know:

- `CallInv`: a part call holds its package's lock; `RecordInv`: while it stands between
  the part file and the manifest, the status still admits parts and the file holds
  the part;
- `SingleAssembler` with `OwnerInv`: an assembler's package is `assembling`, which
  keeps every other waiter out, until it is `completed` or `failed`;
- `AcknowledgedIsDurable`, `DiskInv`: recorded parts are on disk; only published
  packages are completed, with the record of a verified file;
- `PublicationInv`, `HashInv`: before the replacement the package is unpublished, the
  temporary file is the assembler's own, equals what it has hashed, and is what the
  manifest records; after the check it is the whole declared file;
- `TargetInv`: targets of published packages hold packages' verified files.

Each conjunct has a lemma with one step per action. `FaultInv` (until an I/O error, a
failing worker has not published) gives `FailedWasNotPublished`. `ImplementsPromise` and
`NeverSilentlyOverwrites` assume `PrivateTargets`, that no two packages have one
target; then `FreeInv` says that the target stays free from the last check to the
replacement, which is just what `package_race` refutes without the assumption.

`McpUploadProofs` holds for any clients, targets, threads, sizes and bounds, under
`UploadOK`, whatever calls overlap, repeat or end half-way. `IInv` adds to the types that
whoever names a transfer (a client past the beginning, a request, a call) names one that
exists, that a call between check and save has an offset below the size, and that a call
about to save `completed` has replaced the target: `UploadTypeCorrect` and
`CompletedInstalled`. For `UploadWhole`, `OverlapInv` says that a chunk call and another call
of one transfer are never inside together without the transfer being in `overlapped`, and
`CheckedInv` that a file whose digest was right is still whole, or gone, when it is moved,
unless its transfer is. `AcknowledgedChunksKept` needs `KeptInv`: the file has the chunks
before the saved offset, and before every offset a call has loaded, which it may save when
the state has long changed; appends by others only add to them.

`FileExchangeProofs` holds for any sessions, files, parts, calls, time and faults, and any
finite set of threads. `StoreInv` is about the store alone: what a worker's place says of
its call (`CallInv`) and of the file it makes or deletes (`FileInv`: the file is its
session's, has a binary while its sidecar is not there yet, and is in the trash between the
two moves), that no two workers make or delete one file (`ApartInv`), and that every binary
is whole (`ContentInv`) and every answer's file is of the answer's session (`AnswerInv`). No
fact about sessions' locks is needed for it. It gives `StoredContentWhole`,
`ListedFilesStored` and half of `RoundTrip`. `UploadInv` (the file the agent has been told of
is of its session) and `DownloadInv` (a download is completed, or about to be, only with the
whole file in its place) give the other half.

`OneFilePerSession` does need the locks, and holds for any callers; `OneFilePerUpload` is the
same for the agent's exchange. `LockInv` says of every session that no sweep has split that
it is `Orderly` or `Closed`. While it is orderly, whoever has its lock file open has the one
that is in the directory (`SameLock`), so one call at a time is inside (`OneHolder`), and the
last part has closed the session for others (`LastPart`). Once it is closed, nobody is about
to make a file of it and nobody will be: its manifest is gone, expired or past receiving.
A session that has made a file, or that a call removes, is closed, so from then on its
lock may be lost. That a lock file made anew differs from those that are held is a
pigeonhole on the threads (`InodeFacts`), which is why `ThreadsAssumption` says there are
finitely many.

`ProviderLifecycleProofs` holds for any requests, commands, retry limits and sizes. Almost
every action is one of two kinds, and a lemma for each says what it must keep: a task's
step on its own operation (`TaskMove`, `TaskStep`), and the control command's on any
(`ControlStep`). `PlaceInv` says what a task's place means for its variables;
`OperationInv` that only operations that were paused have tasks beside their first;
`LiveInv` that the record of an operation nobody paused or cancelled will not refuse its
task's next connection, which is the update outside the `try` block, so no such
operation is left behind (`NeverSilentlyAbandoned`); `HandleInv` that a background start
that has not answered holds the start lock, so what is new in the tracker is its own or a
direct request's (`HandleNotStolen`). `DatasetOnce` rests on the fact that a record
which has ended refuses every update. Counters are only known to be natural numbers: a
streamed attempt may count bytes again.

`TrackedStoreProofs` is about the dataset store and the tracker it reports to. For the
store it holds for any workers, operations, attempts, targets, transfers and sizes, with any
number of calls of one operation at once. `PlaceInv` says what each control point knows of
its transfer and checkpoint, and `OwnerInv` that calls and checkpoints that name one transfer
are of one operation: `TransferHasOneOperation`. So only another attempt of its own operation
can append to a call's transfer, and `OverlapInv` says that this is then in `overlapped`.
`VerifiedInv` says that between the digest check and the replacement the temporary file is
whole or gone, or the transfer overlapped, for others can only discard it. That gives
`PublishedIsWhole`, for all calls.

`ReturnedStored` and `RaisedOnlyForCause` are about calls that are not `disturbed`, amid
others that are. `AloneInv` says that no other running call has the target of such a call,
nor its operation while it runs, and `LinkInv` that transfers and checkpoints never change
targets, so what others discard, append and publish is not its own. `RecordInv` says that
the tracker knows the operation of every running call. Then `StoreInv` follows the call from
place to place: its transfer is the one it began, with just the blocks it has uploaded
(`TransferInv`); the record of its operation is the one at its beginning plus what it has
reported, below the total (`ProgressInv`); what it has published and written stays
(`ResultInv`); and if it fails there is a cause (`CauseInv`). The last needs the arithmetic:
a block's report can be refused only by the offset, since `base.total` is at least
`base.bytes + Size`. `RecordsAssumption` says what records the operations have when a store
begins, and that `None` is no record, no transfer and no file.

For the tracker the module proves type correctness, `ActiveNeverOvercounted`,
`TerminalImmutable` and `CountersNeverGoBack` for any number of operations, any counters
and any time. Its `TrackerInv` adds to the type that a running clock was started no later
than now (`ClockSound`) and that worked seconds do not exceed those that passed; a lemma
per record operator says what the operator preserves, and `PutSound` lifts it to the
tracker.

`DownloadsProofs` holds for any versions and sizes of the served file, any chunk size and
any number of transfers, changes and interruptions. `InstallInv` (past its checks a
download, and the script's assembly, has a whole version in hand) gives `InstalledIsWhole`
by the digest alone. `RefusedOnlyForCause` says more, namely when the checks succeed. A
transfer is *fresh* while the served file has not changed since it began; `FreshInv` says
that it then describes that file, and `PartInv` that the `.part` file that belongs to it,
whether a running or an ended program left it, is a beginning of the file, and that the
loop goes on at its end. The lemmas about `Serve` say that a chunk read from a fresh
transfer continues the beginning, and reports the end just when it is reached.

`CernAcquisitionProofs` holds for any versions, sizes, commands, changes, page sizes and
finite sets of projects. `UploadInv` says that the uploads of a command come in their
order, each when the ones before it are in the project, and that the project has nothing
of a command that has not begun to upload; with `ArtifactInv` it gives `ManifestsKept`.
`StagingInv` (the response being read is one version, block after block, and what is
staged is whole and has the declared checksum) gives `FilesDeclared`, for any `Checksum`. `NotFoundTrue` is an
action property and rests on `PageInv`: the pages read so far do not list the project,
while the listing has not shifted.

`ProviderRegistryProofs` holds for any threads, modules, candidates and catalogs.
`AdmitInv` says that the thread between the checks and the admission holds the lock and
that its provider's name is free; it gives `ProviderKept`. On it stand `ServedInv` (every
name returned in runtime mode is unpadded and has a provider) for `ReturnedNamesServed`,
`ClaimsInv` (each claimed module is held by a thread, admitted, or on record) for
`NoModuleLost`, and `ExposeInv` (each command type is its provider's and nobody else's,
also while later registrations go on) for `CommandsExposedByOwner`.

Only model-checked: liveness (`AssemblyEnds`, `ReadyIsAssembled`, `OperationEnds`,
`UploadSucceeds`, `DownloadEnds`), which is beyond the prover. Every invariant, every other
action property and the refinement that a run checks is the statement of a theorem, though
`ImplementsPromise` and `NeverSilentlyOverwrites` have a hypothesis beside the constants'
assumptions (`PrivateTargets`). Packages that share a target are covered by the theorems of
`PackageTransferProofs` that do not assume `PrivateTargets`. What a refuted property of
section 5 says is a counterexample, and needs no proof.

## 7. Not modelled, and what could follow

Not modelled: the catalog gateways, the downloader and the pipeline, which turn one request
into one answer and keep no state; `provenance.py`, of which only what makes it refuse a
manifest is represented, in `DatasetStore`; the release scripts; the rate-limit spacing, TAP
phases and result schemas of the provider contract; the client's `upload_package_file` and
job polling; the script's `prepare`, `part-payload` and `wait-payload`, which print payloads
from local files.

What could follow, in this order: the client's package upload composed with
`PackageTransfer`, in place of its free environment; the rate-limit spacing of providers;
a property of operations that are resumed after a retry (`provider_contract.py:980`).
