# adai: TLA+ models of the training pipeline

This directory models the part of adai in which several processes have to
agree: the dataset registry, the trainers that take data files from it, the
services they report to, and what happens when a message, a save or a process
fails. `src/...` paths are
relative to the repository; most of the code is in `src/src`.

## 1. Inventory

| Part | State it keeps | Operations | Hard behaviour |
| --- | --- | --- | --- |
| Registry server (`RegistryServer.cpp`) | per group and kind: the pending queue (`pending_files.txt`), the trained records (`data_registry.txt`), data files, fetch cursors | queue, acquire, renew, release, trained, assign, unassign, delete, requeue, pending/add, upload, fetch, admin, session/next | two files saved one after the other; claims with leases; units that are whole files or row ranges of the same file |
| Local transport (`RegistryTransport.cpp`, `LocalTransport`) | the same two files in a session directory | the same operations, by several processes | an advisory lock around parts of each operation; dying processes; no lease |
| Remote transport (`RemoteTransport`) | none | one HTTP request per operation | lost requests and replies |
| Dataset registry (`DatasetRegistry.cpp`) | in-memory copies, the claim renewer thread | acquire_pending, mark_trained, release_pending | the renewer stops before the report is sent |
| Training pass (`IncrementalTrainer.cpp`, `IncrementalTrainingTool.cpp`) | session history, checkpoints, control state | train, retrain, resume, lejepa | failure exits after each step must give the batch back |
| Trainer control (`TrainerControlState.hpp`, `TrainerAdminAPI.cpp`) | phase, paused, checkpoint tickets | pause, resume, checkpoint, status, config | HTTP threads, a signal handler and the pass share it |
| Trainer service (`TrainerServiceMain.cpp`, `TrainerServiceProxy.cpp`) | paused, stop, wake flag, child process | launch, poll, back off, proxy | a pause racing a launch; lost wake-ups |
| Fetching and delivery (`DataFetcher`, `FtpDataServer.hpp`, `DataTransport.hpp`, `StartupSweep.hpp`) | cursors, tokens, downloads | fetch, issue token, RETR, sweep | token expiry, resumed transfers, cleaning up what another pass uses |
| Dataset manager (`DatasetManagerTool.cpp`) | none | add, remove, clear-pending, assign, delete, requeue, move, split | remove and clear-pending take no lock; split is a sequence of requests with an undo |
| Session counter, settings (`SessionCounterStore`, `DaemonConfigStore`) | SQLite tables | next, set_many | wrap-around, migration by two processes |
| Model name service (`ModelNameService.cpp`, `ModelNameClient.cpp`) | `models_` and `roles_` with each model's state, run and training history; their copy in SQLite | register, begin run, progress, candidate, promote, retire, delete | several writes per request with a kill between any two; retried requests; trainers whose run was superseded |
| Metrics service (`MetricsSessionRegistry.hpp`, `TrainingMetricsService.cpp`) | live sessions by key, the keys being archived, rows and files per key | start, event, heartbeat, end, flush, clear, archive, sweep | archiving outside the lock; events that hold a session already archived; a limit on live sessions |
| Metrics push client (`MetricsPushClient.cpp`) | key, queue, drain deadline | start, enqueue, push, retry, start again, drain | a full queue; a server that forgets the session; keys other trainers take; draining against a deadline |
| Chatbot serving (`ChatbotAPI`, `BatchedInferenceEngine.hpp`) | conversations, request queue | chat, batch, reload, shutdown | a submit racing a shutdown |
| Numeric core, tokenizer, GUIs, mobile apps, scripts | - | - | no shared state, or arithmetic |

How they interact: `dataset_manager`, fetches and uploads feed the registry's
queue. A trainer (one pass is `incremental_trainer train`, `retrain` or
`resume`) acquires units, downloads them over FTP, trains, and reports or
releases them; a thread of it renews its claims. `trainer_service` launches one
pass after the other as a child process and forwards its admin requests. A pass
pushes metrics to the metrics service and names its checkpoint to the model
name service. Without a server, trainers and `dataset_manager` share the two
files through `LocalTransport`.

What makes each part correct: no queued unit is lost or trained by two runs at
once; what is recorded as trained was trained with that content; a claimed file
keeps its bytes; a crashed trainer's units come back; a process that shares a session
directory keeps what it claimed; a checkpoint answer is about a
checkpoint written after the request; a pause or a stop is not forgotten; every
submitted request is answered; a metrics session is given to one start and its
data neither lost nor mixed with another's; epoch events are pushed completely
and in order; a run id a trainer was given stays valid until someone takes the
model, and a superseded run changes nothing any more.

## 2. Modules

| Module | Models | State | Actions |
| --- | --- | --- | --- |
| `DatasetUnits` | names shared by the models: units (`PendingEntry`/`DataVersion` path plus row range), runs, models, the match rules of `segment_matches`/`trained_matches` | - | - |
| `RegistryServer` | one group of the server | `pending`, `registry` (the two files), `bytes` (data files), `fetching`; histories `owed`, `seen`, `disturbed` | one per handler: `Acquire`, `Renew`, `Release`, `Trained`, `Assign`, `Unassign`, `Delete`, `Requeue`, `PendingAdd`, `Upload`, and a fetch in two parts (`WriteSlice`, then `EmptySlice` or `QueueFetchedSlice`); `RestartServer`; `Tick` is the lease clock |
| `TrainingPool` (extends `RegistryServer`) | trainers with their renewers against the server | `pc`, `batch`, `read`, `wake`, histories `missed`, `worked` | a pass step by step, each failure exit, lost messages, crash and restart |
| `TrainingPool_proofs` | theorems about the server, about its trainers, and that they implement `WorkQueue` | | |
| `WorkQueue` | abstract: what the registry promises | `holder`, `trained` | `Enqueue`, `Claim`, `Return`, `Finish` |
| `LocalTransport` | processes sharing a session directory | the two files, `lock`, `job` (what a process loaded), `batch`; history `erased` | call, lock and load, one action per save, the two unlocked commands, death |
| `LocalTransport_proofs` | theorems about it | | |
| `PassControl` | one pass with its admin API and signal handler | `phase`, `before`, `paused`, the ticket counters, where the pass and each HTTP thread is, `inWindow`; histories `begun`, `written`, `unsaved` | pause, resume, signal (two stores), checkpoint request (two atomics), and the pass step by step |
| `PassControl_proofs` | theorems about it | | |
| `TrainerService` | the supervisory loop, its HTTP threads, the child | `paused`, `stop`, `wake`, `sup`, `saw`, `child` | set a flag, wake, one action per step of the loop, a pass that ends |
| `TrainerService_proofs` | theorems about it | | |
| `BatchedInference` | the batching queue of the chatbot server | `queue`, `batch`, `worker`, `state`; histories `accepted`, `early` | submit (check, then enqueue), collect, wait, deadline, process, shutdown, destruction |
| `BatchedInference_proofs` | theorems about it | | |
| `ModelNames` | the model name service and the trainers that use it | `mem`, `disk`, `todo` (the writes left of the request being served), `serving`, `trainer`; histories `reported`, `unsaved`, `torn` and each trainer's `standing` | operators' `Register`, `SetCandidate`, `Retire`, `UpdateData`, `Promote`, `Delete`; trainers' `BeginRun`, `push_progress`, `NextEpoch`, `Land`, `Abandon`, with `Answered`, `AnswerLost`, `RequestLost`; the disk's `Write`, `WriteFails`, `Crash` |
| `ModelNames_proofs` | theorems about it | | |
| `MetricsSessions` | the session registry of the metrics server and its HTTP threads | `live`, `archiving`, `session`, `job`, `rows`, `archived`, `summary`; history `strays` | `StartRequest`, `Decide` (`Replace`, `Refuse`, `Create`, `Full`), `Begin`; `Resolve`, `Record`, `Heartbeat`, `End`, `MayFlush`, `ControlFlush`, `ControlClear`; `Flush`, `Retire`, `Rename`, `Release`; `GoStale`, `Age`, `Sweep`, `Crash` |
| `MetricsSessions_proofs` | theorems about it | | |
| `MetricsPush` | one pass with its push client | `pc`, `key`, `queue`, `call`, `tries`, `event`, `server`; histories `sent`, `cut`, `evicted`, `hits`, `landed`, `astray`, `lost`, `ended` | `Start`, `EnqueueSample`, `EnqueueEpoch`, `EndSession`, `BeginStop`; the thread's `Take`, `PostEvent`, `Register`, `PostAgain`, `Heartbeat`, `Retry`, `Leave`; `DeadlinePasses`, `Forget`, `OtherTrainer` |
| `MetricsPush_proofs` | theorems about it | | |
| `MC*` | values for TLC | | |

`RegistryServer`. A handler runs under `GroupState::mtx` and re-reads both
files, so one action is one request, and nothing else survives in memory. What is
*not* atomic is its sequence of saves: `must_save` throws (HTTP 500) between
them, and a crash has the same effect. The actions therefore take how many
saves happened (`saved`, `saves`); the order is the code's: `trained` writes
the registry, then the queue; `requeue` and `delete` the queue, then the
registry; `delete` unlinks before either. A failed single save is a stutter.
A claim's `claimed_unix` is its age in ticks, `Expired` is `claim_expired`.
The order of the queue is abstracted to a choice of which claimable units a
limited acquire gets, which includes the code's choice. Only a fetch works outside
that mutex: it writes its slice file under a lock of its cursor (`WriteSlice`, piece
by piece, to a path that was not on disk when it began), removes it when it has no
pairs (`EmptySlice`), and takes the mutex to queue it; if the path is queued by then
it removes the file and answers 409 (`QueueFetchedSlice`). A restart ends the fetches
and leaves their files. `fetching` is the set of slices being written. `disturbed`
records the claims whose file the code changed in one of the three ways of section 5.

`TrainingPool`. `AcquirePass` is `acquire_pending` (and starts the renewer),
`Download` is `resolve_pass_files`, `PassSucceeds` the return of
`train_on_files`, `Report` `mark_trained`, `GiveBack` `release_pending`. The
renewer runs in the phases `fetching` and `training`, because `mark_trained` and
`release_pending` reset it before they send their request. A lost reply of
acquire claims units the trainer knows nothing of; a lost report is only
logged, as `commit_trained` does. A trainer that crashed may come back with the
same run id (`SESSION_DIR/chatbot_run_id`) or never. The pool is fed by uploads and
`pending/add`, has no fetch and no delete: what these do to a claimed file is
`RegistryServer`'s (section 5), and its theorems say nothing of it.

`LocalTransport`. `Call` loads the registry for `delete` and `requeue` (they do
so before the lock); `LockAndLoad` is `lock_pending` plus the loads under it;
one action per save. `dataset_manager`'s `remove` and `clear-pending` load the queue
(`RemoveFromCopy`) and save what is left of that copy later (`SaveUnlocked`), with no
lock and without a look at claims, so they write over whatever was saved in between.
A process may die between any two steps, and every save may fail. `batch[r]` is what
run r acquired and has not given back, `erased[r]` the part whose claims a forced
delete took or an unlocked save left out.

`PassControl`. Changes of phase are one step, because they hold `phase_mutex_`;
every other atomic is a step of its own, so a request's ticket and its flag, the
pass's exchange of the flag and its read of the tickets, and the two stores of
the signal handler all interleave. A step of the pass is a sample; `Window` is
the accumulation window, at whose boundaries the abort flag is read; `inWindow` counts
the samples whose gradients wait for the optimizer. A sample is trained, skipped (it
throws before its backward pass) or discarded with its window; the sample callback
comes after an optimizer step or a sample that threw (`SampleDone`, `LastUpdate`), and
only the one for sample 1 sets phase training (`CallBack`). Auto-saves are left out:
they answer no request. A pass has one epoch; in another one the callback is called at
the same samples. `begun` and `written` are
histories: they record how many tickets had been drawn when the last forced
checkpoint began, and when the last one that was written had begun.

`TrainerService`. `saw` is the pause flag as the loop last read it. A pause or a
resume is two steps (the flag, then `wake()`), as in the proxy. The length of a
sleep is abstracted: it may always end, which is why nothing but `NoLostWakeUp`
depends on wake-ups. A pass may end at any time with any outcome.

`BatchedInference`. `worker = "collecting"` has `queue_mutex_`, `"asleep"` has
given it up in `wait_until`. `running_` is read and cleared without the lock. Each
request is one thread, so `state` is both the thread's place and its promise.

`ModelNames`. A handler changes `mem` and writes to SQLite under one lock, so a
request is one step that lays out its writes in `todo`, followed by one `Write` (or
`WriteFails`) each; a crash falls between any two and `load_from_disk` makes memory of
what is there. The answer comes after the last write (`Answered`), or is lost, and the
client sends the request again as `http_put` does. A failed write is only logged.
Losses of requests and aborted passes are steps between requests, since they are the
same between the writes of another request as after them. `progress` says that a row's
last report can be told from none, which is what `handle_state_transition` looks at
before it archives: its epoch is above 0 or it has a session id. A trainer's first
report is for epoch 0, and it has a session id unless `next_session` threw, so `tells`
is chosen when it begins its run and set by `NextEpoch`; each `push_progress`
overwrites the row's. `standing` records what happened to a trainer's model since it
was given a run; `torn` which promotions a crash cut in two.

`MetricsSessions`. One look at the map under the registry's lock is one step
(`Decide`); what `archive_detached` does outside it is four: the last flush, the
retirement, the renaming of rows and files, the release of the keys. `Resolve` is
`get_session`: the thread keeps the session it found, and `Record`, `Heartbeat` or
`End` apply to it at any later time. `rows[k]` is the set of sessions whose records
stand under key `k`, so two sessions in one place are seen, and `summary[k]` the session
that last wrote the summary (or Prometheus file) there. `restored` is what a new service
finds of either. An event goes to memory (`unsaved`) and reaches the disk at once or
not: the code writes at intervals, and a failed write is only logged. `AppendRows` and
`PersistSummary` write under the service's mutex and not once it is retired.
`flush_to_disk`, which the last flush and `POST control/flush` call, reads
`enable_persistence` without the mutex (`MayFlush`) and writes the summary whatever
happened since (`ControlFlush`); `strays` records the sessions that did so after their
retirement. `lost` says that what a session has in memory was not written by its last
flush, or came after it. `ControlClear` is `POST control/clear`.

`MetricsPush`. `Take` is the part of `push_loop` under the queue's lock, with what
draining drops (`Kept`); each HTTP attempt is a step, and a request that got no
answer was executed or not. `server[k]` says whose session a key has. A 404 leads to
`Register` and `PostAgain`, of which the former takes a 409 for success.

### Variants

Definitions marked "Variant" are not used by any specification. They are what a
plausible mistake in the code would look like (often what the code did before
the TD entry it cites); replacing the definition they follow by them must break
a property.

## 3. Runs

| Run (cfg) | Checks | Bounds |
| --- | --- | --- |
| `registry_server` (`RegistryServer.cfg`) | `TypeOK`, `NoWorkLost`, `ClaimedBytesKept` | an uploaded file of the group queued whole and as a row range, a slice file of a fetch; two runs; lease of 1 tick; 2 file writes; every save failing anywhere; forced requests; `delete_files` |
| `training_pool` | `HoldsItsBatch`, `NoSharedWork`, refinement of `WorkQueue` (`ImplementsWorkQueue`) | one file, whole and as a range; two runs; lease 3, renewal every tick; 2 faults |
| `training_pool_managed` | `RecordsAreEarned` | the same with assign, unassign, requeue, two models; 1 fault |
| `training_pool_live` | `EveryUnitTrained` | fairness below; 1 fault |
| `local_transport` | `RunKeepsItsClaims` | one file, whole and as a range; two runs and one manager; deaths and failed saves without bound |
| `pass_control` | `TypeOK`, `PhaseIsTrue`, `ServedIsWritten`, `NoRequestLost`, `OutcomeIsRight` | two HTTP threads, 3 samples, a window of 2, 3 checkpoint requests |
| `trainer_service` | `NoLostWakeUp`, `PauseHolds`, `StopEnds` | two HTTP threads; no other bound |
| `batched_inference` | `TypeOK`, `LineIsWhoWaits`, `FirstComeFirstServed`, `DrainsABatch`, `RequestsSettle`, `ShutdownEnds` | 4 requests, queue of 3, batch of 2 |
| `model_names` | `TypeOK`, `AnswerOutlivesCrash`, `NoRunForgotten`, `ProductionIsServed`, `SupersededStaysOut` | two models, one role, two trainers of one model; 2 runs, 1 history entry, requests sent twice; 2 faults |
| `metrics_sessions` | `TypeOK`, `GivenOnce`, `GivenIsLive`, `RecordsAreKept`, `DataStaysApart`, `KeysComeBack` | two keys, two HTTP threads and the sweep; one slot, 3 sessions; 1 crash or failed rename, failed writes without bound |
| `metrics_key_shared` | violates `NeverSharesFiles` | the same without faults |
| `metrics_push` | `TypeOK`, `NothingIsPassedOver`, `OneFaultLosesNothing`, `OwnSessionOnly`, `LeavesNoSession`, `EndReturns` | 2 keys, 3 attempts, a queue of 2, 3 epoch events; faults without bound |

Why the bounds are enough: the rules that distinguish units look at the path and at
whole or range only, so one file with both kinds shows every match; a second file adds
the fetch, whose slices have names of their own. Claims are contested by two runs; a
third adds a holder but no new relation. `Lease = 3`, `RenewEvery = 1` is the code's
third of the lease: renewals are due after 1 and 2 ticks, and the third falls on the
expiry, so exactly one missed renewal is survived. With two faults a run can miss a
renewal and another message be lost. Two writes give a file an old and a new content.
Runs are symmetric where no temporal property is checked.

A pass of 3 samples with a window of 2 has a step boundary before, between and
in the middle of its work; two askers and 3 tickets let a request arrive before,
during and after the checkpoint of another, and be repeated. The theorems of
section 4 hold for every number of them. In `trainer_service` one thread can pause
while another resumes. Four requests in a queue of 3 with batches of 2 fill the
queue, fill a batch, leave a rest and submit late; the token limit is above the
batch size, as with the defaults (41 requests against 32).

In `model_names` the first model is trained, the second imported; promotions of both
compete for the role. Two faults let a write fail and the service crash, which
is when a stale row matters, and let a request and then its answer be lost. Two
runs are what superseding takes. `metrics_sessions` has one slot for two keys, so a
start needs room when the other key is live; the third session can follow a
second that replaced a first, and the two threads and the sweep can archive
two of them while the third is started. The theorems hold for every number. In
`metrics_push` a queue of two with three epoch events overflows with and without
per-sample events in it.

What the run that ends in a violation shows is in section 5.

`NoWorkLost` is the reason for the order of saves; the variant with the queue saved
first loses a unit to one failed save. `HoldsItsBatch` allows one missed renewal: with
`missed = 2` the batch may be gone, and the code then only logs. `RecordsAreEarned`
says the content recorded is a content some run trained the unit on; it needs claims
on reports (TD-493), leases that last, and uploads that spare claimed files (TD-492).
`RunKeepsItsClaims` is what the flock is for, and says what a save without it may cost
a run: no more than the entries missing from that save. `ClaimedBytesKept` names the
three ways in which the code still changes a claimed file; uploads, unforced deletes,
failed saves and restarts must not.

Where a cfg has a VIEW, its MC module says what it leaves out: what no later step and
no property tells apart, such as which content a record has, the arguments of a call
that only its first step reads, or the memory of a session nobody holds any more.

`AnswerOutlivesCrash` excuses a trainer only when its own model was touched, or
restored from a copy a failed or missing write left old. `NoRunForgotten`
is about runs whose last report says more than a first epoch without a session id.
`RecordsAreKept` has two halves: what was written stays, and what a retirement leaves in
memory is what its last flush could not write or did not see. `GivenIsLive` and
`DataStaysApart` are about sessions that were `fresh`: nothing stood under their key
when they were made. Section 5 says what happens to the others. `OneFaultLosesNothing`
counts the faults that met the event in hand; the drain sends without retries and
is left out, as in the code.

### Fairness

`LivePoolSpec` assumes that trainers that are up keep taking the steps of their
pass (the process runs, requests return), that a due renewal is sent (its thread
wakes from `wait_for`), and that time passes. Time needs strong fairness: a
tick is disabled while a renewal is due, again and again. Crashed trainers need
not return, and losses are bounded by `MaxFaults`, so every fault happens
finitely often. Liveness is checked with `PromptReports = TRUE`: a report takes
less than a renewal interval. Without it a report may outlast the lease every
time, another run takes the batch, and nothing is ever recorded (section 5).

`trainer_service` assumes that the loop's thread keeps running
(`WF_vars(Supervise)`): every sleep has an end and `stop_and_wait` kills a pass
that does not react, so its steps always finish. Nothing is assumed of a pass,
which may hang for ever, nor of the HTTP threads. `batched_inference` assumes the
same of the worker; a generation ends because `max_length` bounds it. `metrics_push`
assumes that the push thread runs and that every POST returns, because the client
sets a time limit on each; neither that the server answers nor that the deadline
passes.

## 4. Proofs

TLAPS checks a theorem of every invariant that a passing run checks, of the action
property `SupersededStaysOut` and of the refinement `ImplementsWorkQueue`. None bounds a
constant: they hold for every number of trainers, threads, units, requests, events and
faults. What a theorem assumes beyond the assumptions of its module is said with it.

The server (first part of `TrainingPool_proofs`, because the trainers send
requests with arguments of their own), for every set of files, units, runs and
models, every lease and every bound, under the assumptions of `DatasetUnits`
and `RegistryServer` (row ranges differ from "whole"; the whole file of a unit
is a unit; the empty names are no run or model; the group's directory lies
below the FTP root):

- `TypeCorrect`: `Spec => []TypeOK`. Lemmas say what the helpers on the queue
  return (`WithoutQueue`, `WithNewQueue`, `WithRunQueue`, `WithModelQueue`); each
  action then is a few of them.
- `WorkIsKept`: `Spec => []NoWorkLost`. `NoWorkLost` is inductive together with
  `TypeOK`. The case that carries it is `Trained`: an entry it takes off the
  queue is recorded, itself or as its whole file (`FinishedIsRecorded`), which
  needs the registry saved first. A delete spares what covers the units it
  does not name (`DeleteSpares`); the other actions only add to the queue.
- `ClaimedFilesAreStable`: `Spec => []ClaimedBytesKept`, without a premise. Claims are
  only made by acquire and renew (`NoNewClaims`, `ClaimsMade`), and whatever else
  changes a file with a claim is in `disturbed`.

The trainers (the rest of `TrainingPool_proofs`), for any of them, any number of
faults, any lease of more than two renewal periods, and with operators that
assign, unassign and requeue meanwhile. `PoolServerStep` reduces each step of a
trainer to a request of the server, so the theorems above carry over
(`PoolWorkIsKept`).

- `PoolTypeCorrect`: `PoolOK`, the server's `TypeOK` and the trainers' own state.
- `RunsHoldTheirBatch` and `WorkIsNotShared`: `HoldsItsBatch` and `NoSharedWork`. The
  inductive `ClaimsAreFresh` relates the age of a claim to the renewer's wake-up:
  age plus ticks to the next renewal is at most one renewal period, two
  after one missed renewal, and so below the lease.
- `TrainedMeansTrained`: `RecordsAreEarned`. `EarnedInv` adds that what a run read of
  a file is what the file holds as long as the run has a claim there, and that
  a pass reports only after it trained everything in its batch.
- `PoolIsWorkQueue`: `PoolSpec` (trainers without operators) implements
  `WorkQueue`. Each action maps to an abstract step or a stutter (`AbstractEnqueue`,
  `AbstractClaim`, `AbstractReturn`, `PoolImplementsStep`); a report maps to
  `Finish` because what it records is held by its run (`ReportIsHeld`). The theorem
  assumes that no run is called "out", the abstract holder of a unit that is not
  queued, and `PassesAreExact`: passes without a limit on their files, or no row
  ranges. The code needs one of the two. With `max_files = 1` and a row
  range, a lost acquire reply leaves the range with a run whose next pass takes the
  whole file only; the lease on the range runs out, another run takes it, and
  the first run's report without ranges is still recorded and removes it
  (`RegistryServer.cpp:1260`, section 5).

`LocalTransport_proofs`, for any processes, units and faults.

- `NoStaleClaims`: `LocalTypes`, that whoever is past its load has the lock, and
  `CopiesHaveClaims`, that its copy has every claim a run still counts on. The copy need
  not equal the file any more, because an unlocked save may come between, but that
  save has put what it erased into `erased`.
- `ClaimsAreKept`: `RunKeepsItsClaims`, with forced deletes, `remove` and `clear-pending`.
  Each locked call keeps the other runs' entries of its copy.

`PassControl_proofs`, for any number of HTTP threads, samples and tickets and any
window of at least one sample (`PassAssumption`):

- `PassTypeCorrect`: `Spec => [](TypeOK /\ PlaceInv)`. `PlaceInv` ties the place of the
  pass to the samples it has done, which the other invariants need.
- `ReportedPhaseIsTrue`: `PhaseIsTrue`, whose second half is that a pausing pass is
  paused. Its first half allows "tokenizing" for a pass that trains with a window of
  more than one sample and has begun no forced checkpoint, and for nothing else. The
  inductive `PhaseInv` adds that a reported pause remembers a working phase: without
  it a resume could go back to `checkpointing`.
- `CheckpointsAnswerRequests`: `ServedIsWritten` and `NoRequestLost`. `TicketInv` orders the
  counters (`served <= written <= begun <= made`) and says that the ticket in
  hand is at most `begun` while the checkpoint is written; that holds because
  the pass reads the counter before it begins to write.
- `OutcomeMatchesWork`: `OutcomeIsRight`.

`TrainerService_proofs`, for any number of HTTP threads: `ServiceTypeCorrect`
(`TypeOK`: the flags, and the places of loop, threads and child) and `NoWakeUpIsLost`.
`WakeInv` extends `NoLostWakeUp` to the whole time between two reads of the pause
flag, also while a pass runs: the sleep that follows it must not be one nobody ends.

`MetricsSessions_proofs`, for any keys and HTTP threads and any number of slots,
starts and faults. All invariants rest on `Base`: the shapes of sessions and jobs,
where sessions can be, and that a session writes and is live under its own key
(`KeyInv`).

- `SessionsFitTogether`: `TypeOK`, `GivenOnce` and `KeysComeBack`. `HandsInv` says that
  no session is in two threads' hands, or in the map and in a thread's, that no two
  starts own the same one, and that a key being archived has its thread.
- `StartsKeepTheirSession`: `GivenIsLive`. `FreshInv`: a fresh session that was given to
  a start has not been started before it is begun, so no other start, no sweep and
  no full map takes it out of the map.
- `RetiredRecordsAreOnDisk`: `RecordsAreKept`. `FlushedInv`: a session is retired after
  its last flush; what was written is on disk, under its key or where a rename moved it;
  and what is in memory after the last flush was lost by it or came later. `AfterIs` and
  `WritingIs` say what a write does to a service and to the disk.
- `RunsAreApart`: `DataStaysApart`, for the records, and for summaries but those in
  `strays`. `HeldInv`: a thread that still has a session from an
  earlier look at the map has one that is live, being archived, or retired.
  `ApartInv`: when a fresh session is made, the older ones of its key have been
  renamed away and nobody can write through them any more, and it stays so
  (`ReachStep`, `OldSessions`, `NewIsApart` are the steps of the argument).

`BatchedInference_proofs`, for any number of requests, any batch size, token limit
and queue bound. The line is the worker's batch followed by the queue.

- `EngineTypeCorrect`: `TypeOK`, which needs `RoomInBatch`: a batch still being
  collected has room.
- `ExactlyTheLineWaits`: `LineIsWhoWaits`. It is inductive with `QueuedOnce` and
  `OthersSettled`: nobody was accepted twice, and who left the line has an outcome.
- `OutcomesInOrder`: `FirstComeFirstServed`, which follows, because the line is a suffix
  of what was accepted.
- `ShutdownDrains`: `DrainsABatch`. `LastBatchDrains` says that a last batch that is not
  full took everything queued before the shutdown.

`ModelNames_proofs`, for any models, roles, trainers, attempts, runs and faults.
`NamesInv` relates memory, disk and the writes still to do:

- `AnswersSurvive`: `AnswerOutlivesCrash`. `DiskInv` says of each row, each history and the
  roles that the disk has it, or a write that brings it waits, or a write of it
  failed; the first write of a request to a model is its row (`RowFirst`), so that a crash
  cuts the list where the invariant still holds.
- `RunsAreRemembered`: `NoRunForgotten`. `ReportedInv`: a run whose last report can be told
  from none is in the history, or it is the model's run and its row shows it.
- `RolesAreServed`: `ProductionIsServed`, and `NamesTypeCorrect`: `TypeOK`.
- `LateTrainersStayOut`: the action property `SupersededStaysOut`. `NumbersInv`: the
  numbers of a model's runs only grow while trainers know them, so a superseded run's
  number is below that of the run in training, and the service refuses it.

`MetricsPush_proofs`, for any keys, attempts, queue limit and number of events.
`OfKind`, the events of some kinds in a queue, is a recursive function; what it does to a
concatenation, a removal and a head is proved by induction over the prefixes
of the queue (`LengthInduction`, from the well-foundedness of the numbers).

- `PushTypeCorrect`: `TypeOK`, with the limit of the queue: above it no samples are left.
- `EventsInOrder`: `NothingIsPassedOver`. `OrderInv`: the numbers taken followed by
  those queued are 1 to `made`; the deadline cuts this to a beginning and at most the
  last one.
- `SessionsAreOwn` and `EndIsLast`: `OwnSessionOnly` and `LeavesNoSession`. `EndInv`:
  the end of the session is the last event, in the queue and at the server.
  `SessionInv`: the session stays the pass's own until the server forgets it or it is
  ended.
- `OneFaultIsSurvived`: `OneFaultLosesNothing`, for at least two attempts (the code
  has three; with one the statement is false). `FaultInv` says what the one fault, a
  lost request, a lost answer or a forgotten session, leaves of the attempts.

Only model-checked: liveness under fairness (`EveryUnitTrained`, `StopEnds`,
`RequestsSettle`, `ShutdownEnds`, `EndReturns`) and `PauseHolds`, which is temporal
too; they are out of the prover's reach.

## 5. Disagreements between code and comments

`metrics_key_shared` is a run TLC refutes: `start_session_or_conflict` waits until the
key is not being archived and only then takes expired sessions out of the map
(`MetricsSessionRegistry.hpp:153`). When the key's own session is among them, the
new session is made before `archive_detached` has renamed the old one's rows and
files, so both write under one key, which the comment at line 492 says never
happens.

Met while modelling, without a run of their own:

Registry.

- `delete` with `delete_files` unlinks a whole file while another run holds a row
  range of it (`RegistryServer.cpp:1115`). A forced one unlinks first: when the save of
  the queue then fails, the claim stays with no file under it.
- A fetch writes its slice outside the group's mutex (`RegistryServer.cpp:1704`, 1789). A
  `pending/add` of that path in between lets a run claim the file half written, and
  the fetch's 409 then removes it under the claim (line 1645), where the comment at line
  1627 wants a fresh name because "rewriting it would change data under a claim".
- `dataset_manager remove` and `clear-pending` (`DatasetManagerTool.cpp:406`, 426) load the
  local queue and save it later without the flock and without a look at claims
  (`DatasetRegistry.cpp:270`, 712). A claim made in between is forgotten, and another run
  takes the unit, where the comment at `RegistryTransport.cpp:460` says "A *different*
  run_id still can never steal another's claim".
- A report without ranges is accepted for a file when the run holds *any*
  entry of it, so a whole file is recorded by a run that lost it
  (`RegistryServer.cpp:1260`).
- The registry half of local `delete` and `requeue` is a lost update
  (`RegistryTransport.cpp:812`); the code's own note TD-498 knows the race.
- The local `commit_trained` erases queue entries although saving their records
  failed (`RegistryTransport.cpp:561`), where the server stops.
- Local `assign` takes claimed entries (`RegistryTransport.cpp:665`); a run of the
  former model that crashed cannot acquire them again, and there is no lease.
- The renewer stops before the report, so a slow report can be overtaken; a run
  that lost only part of its claims is not told; the checksum in a record is
  that of the file at report time.

Pass, service and serving.

- `POST /admin/resume` clears `paused` whoever set it, so after a SIGTERM the pass
  carries on (`TrainerControlState.hpp:219`) where the signal handler's comment
  says it drains.
- The sample callback comes after an optimizer step with the number of the window's
  last sample (`ChatbotTrainer.cpp:1460`), and only sample 1 sets phase training
  (`IncrementalTrainer.cpp:772`). With `gradient_accumulation_steps` above 1 the phase
  stays "tokenizing" while the pass trains, unless sample 1 throws, until a forced
  checkpoint ends; so "Training started" is not logged, and the auto-save clock is not
  reset. The comment in that callback says "sample==1 fires at the start of every
  epoch", the one at `TrainerControlState.hpp:33` that training means "At least one
  training sample has been processed this pass".
- A pause that is answered between the supervisor's check of the flag
  (`TrainerServiceMain.cpp:197`) and its launch (line 202) neither stops the launch
  nor reaches the pass. `PauseHolds` says that it is the last one.
- `shutdown` of the batching engine promises that pending requests complete, and
  drains one batch (the code's note TD-212). `DrainsABatch` is what holds.

Model names.

- The comments at `ModelNameService.cpp:1528` and `ModelNameService.hpp:123` say
  that a model has a run id only while it is in training, so that a retired one has
  no run to protect. Retiring keeps the id, and a candidate of *any* run revives the
  model and takes the place of the run it was retired in (TD-460 knows the missing
  check). `NoRunForgotten` and `SupersededStaysOut` exclude this case.
- A trainer that continues a run gets the id of the trainer before it, which can
  therefore still land its candidate.
- A run that is abandoned after it reported only its first epoch, which is number 0, and
  whose trainer got no session id (`IncrementalTrainer.cpp:604` logs and goes on), is not
  archived by the next new run (`ModelNameService.cpp:1499`): nothing remembers it. The
  comment at line 1583 says that progress is pushed after every epoch "so a killed/crashed
  trainer still leaves an accurate last-known state".
- Numbers of runs start again after a model was deleted and registered anew.
- A repeated request for a new run, after a lost answer, allocates two numbers.
- A kill between the clearing of a history and the insertion of its entries loses the
  history; one between a promotion's writes leaves a model in production that its
  role does not resolve to (`torn`).

Metrics.

- A service made after a restart, or with a leftover summary, counts as completed
  until it is begun: a second start at that moment replaces it, and both are
  answered 200.
- A failed rename leaves rows and files under the key, where the next session adds
  to them.
- An event that falls between the last flush and the retirement, or comes after it, is
  answered 200 and lost. So is everything still in memory when the last flush fails, which
  is only logged (`TrainingMetricsService.cpp:716`), and what was not yet written when the
  server is killed.
- A `control/flush` that found its service not yet retired
  (`TrainingMetricsService.cpp:726`) writes summary and Prometheus file also after the
  retirement and the rename (lines 745-748). They stand under the key of the next
  session, or are restored by it, where the comment at
  `MetricsSessionRegistry.hpp:561` says that a request still holding the retired
  service "can't recreate its files or rows".
- A repeated `/end`, after a lost answer, ends the session another trainer has
  started under the key; a lost answer to `/start` leaves a session of nobody under
  the first key, because the repeated one is refused with 409 and the pass moves on.
- The drain may take longer than the 10 s of the comment at
  `IncrementalTrainer.cpp:951`: an event already being sent when it begins keeps
  its retries.

## 6. Not modelled

Late execution of a request whose client timed out; claims older than the lease
feature (`claimed_unix = 0`); the fetch cursors; splitting a file into segments;
FTP tokens, resumed downloads and the start-up sweep; the session counter; HTTP,
JSON, TLS and file formats; the forwarding of `trainer_service` to its pass;
auto-saves, and epochs after a pass's first; the metrics' values, their queries, limits on
rows and their retention; links between
models and their architecture checks; the training itself. The components marked
`not_modelled` in `PROJECT.json` are listed with their reasons: most of the
repository's lines are numeric kernels, text processing, user interfaces, SQL and
third-party code, whose behaviour is arithmetic or presentation and not a matter
of states and their order.

## 7. Plan

Order of work; each step adds module, MC module, runs, variants and map.

1. Done: `RegistryServer`, `TrainingPool`, `WorkQueue`, `LocalTransport`,
   `PassControl`, `TrainerService`, `BatchedInference`, `ModelNames`, `MetricsSessions`,
   `MetricsPush`; theorems of every invariant and of the `WorkQueue` refinement.
2. Proofs: the theorems say nothing of `PoolSpec` with a limit and row ranges at once; what
   holds there is weaker than `WorkQueue` and is not stated yet. Liveness stays with TLC.
3. The service with its pass: forwarded pauses, the exit code of a drained pass,
   the fixed port that a late forward may find the next child on.
4. `FetchCursor` and `SegmentSplit` (sequences of registry requests), `Delivery`
   (tokens, resumed downloads, sweep), `SessionCounter`.
