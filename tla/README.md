# OctoPrint-BambuCam: specification, model checking and proofs

TLA+ models of the OctoPrint-BambuCam plugin, checked with TLC and proved with
TLAPS. All source references are relative to `octoprint_bambucam/` unless they
name `docs/`.

    tlc -workers 2 -config Recovery.cfg MCRenderPipeline.tla    # a render run
    tlc -workers 2 -config Harvest.cfg MCPostPrint.tla          # a harvest run
    tlapm TimelapseBatchProofs.tla                              # a proof module

Contents: 1 the system, 2 the modules, 3 what is checked, 4 what is proved,
5 where code and comments disagree, 6 what is not modelled, 7 what could follow.

## 1. The system

The plugin supervises a webcam daemon, fetches timelapse recordings and raw
camera chunks from a Bambu printer over FTPS after a print, and renders the
chunks to movies. There is no central event loop: Flask request threads, timers,
OctoPrint event threads and a handful of daemon threads share the objects below.

| component | source | state | operations | talks to |
|---|---|---|---|---|
| job registry | `render_registry.py` | ordered map of jobs under a lock; `jobs.json` | add, update, remove, active_for_group, reconcile_active, load | render queue |
| render queue | `render_queue.py` | active job, its cancel event, stop flag, the worker thread | enqueue, cancel, jobs (prunes), recover, stop, loop | registry, worker, UI notices |
| render worker | `render_worker.py` | `work/` temps, the movie, `rendered.json` | resolve, concat, encode, publish, tidy, stamp | ffmpeg, the timelapse folder |
| raw-footage operations | `raw_files_ops.py` | the lazily built queue, library and retention timer | the API handlers, startup recovery, retention, auto-render | queue, library, harvest |
| raw library | `raw_library.py` | cached group listings | scan, refresh, groups | the chunk directories |
| ipcam harvest | `ipcam_sync.py` | the print's baseline, cancel event, harvest lock | snapshot, match, download, cancel | FTPS, daemon (pause), library, queue |
| post-print pipeline | `autosync.py` | cancel event, busy and status flags | on print end: delay, idle gate, copy, convert, harvest | timelapse ops, harvest |
| timelapse operations | `timelapse_ops.py` | `_ftp_busy` and its lock | copy, move, delete, convert batches | FTPS, transcoder |
| FTPS client | `ftp.py`, `ipcam_ftp.py` | one connection | list, download (`.part`), delete | printer |
| daemon supervisor | `daemon.py` | `_process`, `_generation`, `_stop_requested`, crash timestamps, one watchdog per spawn | start, stop, restart, watchdog | webcamd process |
| chamber light | `auto_led.py`, `connector_led.py`, `mqtt.py` | timers, override flag, busy flag, monitor | on/off at print start/end, manual toggle, monitor | MQTT |
| transcoder | `transcode.py`, `ffprobe.py`, `gcode_thumb.py` | one ffmpeg process | run with progress, cancel, timeout | ffmpeg |
| plugin object | `__init__.py` | settings, the manager, LED flags | startup, shutdown, settings, API dispatch | all of the above |
| rest | `bambu_connector.py`, `paths.py`, `render_paths.py`, `render_presets.py`, `static/`, `vendor/` | none of their own | lookups, paths, view model, the daemon | |

What is hard here: (a) *check then act* across lock-protected calls: every
single registry call is atomic, nothing a handler does with two of them is;
(b) copies: the worker, cancel and prune all act on a copy of the registry;
(c) *restart*: `jobs.json`, `work/` and the chunk directories survive a crash,
and the recovery runs while the worker and the API are already live; (d) threads
that replace one another (watchdogs) and must not act once superseded; (e) flags
shared by an automatic and a manual run of the same thing (harvest, FTP batch);
(f) deletion (discard, retention) beside rendering.

What makes each component correct:

- registry and queue: one render at a time; no job rendered twice, across
  restarts; no job left "running" that nobody runs; each job settles; the
  capacity is kept; one job per group; a cancelled job stays cancelled.
- worker: no temp survives its job; the marker and "done" imply a movie.
- discard and retention: no source goes away under the job reading it; only
  footage that was rendered is trashed by age.
- harvest, library: a group is complete exactly when all matched chunks are in
  it; a harvest uses its own print's baseline.
- post-print pipeline, timelapse operations: one FTPS user at a time; a
  recording leaves the printer only after a complete download.
- daemon supervisor: one daemon; each exit noticed once; crashes respawned
  within the budget and with backoff; a stop is final.
- chamber light: the last request wins; a manual toggle overrides the print.

## 2. The modules

### Render pipeline

`JobRegistry` <- `RenderWorker` <- `RenderPipeline` (each extends the one before),
`RenderOnce` (abstract), `MCRenderPipeline` (symmetry sets for TLC).

**JobRegistry.** `jobs` is the map in memory, `saved` is `jobs.json`, `args` the
print-id and chunks fixed at creation. Each operation is one critical section of
the registry lock. Jobs are numbered in order of insertion (the code uses uuids
in an ordered dict), a job is its state; percent, preset, output and reason are
read by no decision and left out. `DiskFaults` lets a write of `jobs.json` fail,
which the code logs and survives.

**RenderWorker.** The worker thread as a program counter `worker`, one action
per access to something another thread can see:
`Pick`/`Gate`/`Claim`/`Mark` are `_next_runnable` and the beginning of
`_run_one`; `Resolve` ... `Stamp` are `RenderWorker.run`; `FinishDone`,
`FinishFailed`, `Release` its end. `activeJob`, `cancelSet`, `stopping` are
`_active_jobid`, `_active_cancel` and `_stop`; `work` is the set of temp files,
`group` the chunk directories, `movies` counts published movies per job. ffmpeg
is external and may fail at any moment with its output left behind.

**RenderPipeline.** The other threads, each with a program counter `pc` and the
locals that survive between two registry calls (`req`, `target`, `seen`, `todo`):

| thread | actions | code |
|---|---|---|
| request threads (`Clients`) | StartRender, CheckGroup, CheckCount, AddJob | handle_start_render, enqueue |
| | CancelRender, CancelSignal, CancelMark | cancel |
| | ListRawFootage, Prune | jobs, _prune |
| | DeleteGroup + DeleteTree, DeleteChunks + UnlinkChunks | handle_delete_group, handle_delete_chunks |
| "harvest" | HarvestBegin/Chunk/Empty/Kept, HarvestAutoRender, then enqueue's steps | _download_group, _auto_render_group |
| "startup" | SweepFind, SweepDiscard, SweepOver, StartupBuild, ClearWork, Reconcile, FindOrphans, DropOrphan | start_render_pipeline, recover |
| "retention" | RetentionCheck, RetentionTrash | _retention_cleanup |
| anyone | FirstUse | _queue on first use |
| environment | PrintStateChanges, MarkerExpires, Shutdown, Die, Boot | prints, time, the process |

`Die` loses memory and threads and keeps `saved`, `work`, `group` and `movies`.
`loaded` remembers which jobs the running process found in `jobs.json`. A removal
(`shutil.rmtree`, `shutil.move`) that fails half-way leaves any part of the group
(`Remnants`): some chunks, with or without the marker.

Abstractions: the library cache is not kept, a request may name any group ever
harvested and any chunks, which includes every stale listing; locals of a thread
that has returned are reset; a print-id is not handed out again after a discard
(it carries the minute of the print); the queue is built once per process
(section 6); the listing and copy in `_drop_orphaned_jobs` are one step; temp
removal succeeds; `RenderEnabled = FALSE` stands for the setting that skips the
startup recovery.

**RenderOnce.** What the queue promises about rendering whatever its threads do:
one slot, only the job in it makes a movie, and a job whose movie was made never
takes the slot again. The mapping is `slot <- activeJob`, `made <- movies`.

### Webcam daemon

**WebcamdManager.** `process`, `stopRequested`, `generation` are the fields;
`stamps` is the number of crash timestamps inside the window (`Age` lets one fall
out); `wd`, `gen`, `count`, `delay` are each watchdog thread's position and
locals; `pc`, `goal`, `victim` those of the threads that call the manager.

| action | code |
|---|---|
| Call, Resume | the plugin's start/stop/restart calls; the harvest's pause and its resume |
| Take / Reap | stop(): the critical section / terminate, wait, kill, wait |
| Forget | restart(): clears the timestamps |
| Spawn, Launch | start()'s critical section, _spawn |
| Bow, Poll, Claim, React, Count, Stamp, Respawn | _watchdog, split at each read without the lock and each sleep |
| Serve, Exit | the daemon process binds its port, exits (75 or another code) |

A configuration may be refused and a launch may fail at any time; a port that is
being served is always refused, one that the starting daemon has not bound yet is
not. The rebuild of the timestamp list and its store are two steps because the
code does them without the lock. The doubling of the backoff is in `Respawn`,
where the code does it; `uptime > 60` resets a value that is still the initial
one and is left out for that reason. `chain` (crash respawns in
a row behind a process), `aged` (crashes that fell out of the window), `lost` (crashes
struck from the list while they still counted) and `wanted` (was a start the last call
to take effect) are history variables: no step depends on them.

### Transfers

**TimelapseBatch.** `pc` and the locals `op`, `todo`, `listing`, `name`, `dest`,
`out`, `short`, `fd` are those of a request's thread and of the batch thread it
starts, or of the post-print worker in its stage 2. `remote` is the SD card,
`file` and `temp` what is under each name of the timelapse folder and under the
same name with `.part`; a content is none, partial or full.

| action | code |
|---|---|
| Request, ClaimBusy | the checks of the two handlers; the flag, under its lock |
| ListLocalAvi | the listing of a conversion, with the flag up and outside the `try`: it may kill the thread (`"dead"`) |
| AutoGate, AutoList | the idle gate, which only reads the flag; the recordings with no local copy |
| Open, Item, End | _run_batch / _run_convert_batch: session and listing, the loop, the `finally` |
| Erase, Release | DELE for a delete, and for a move after Verify |
| ChooseDest, Create, Transfer, Cleanup, Rename, Verify | _build_dest_path, download with its `.part`, the size comparison |
| StartTranscode ... Unlink | _maybe_transcode, _convert_one, TimelapseTranscoder.transcode; EncodeBreaks is the exception it does not catch, which leaves the `.part` and ends the batch |
| Record, PrintStateChanges, Crash | the printer, the process |

Every step that talks to the printer or to ffmpeg may fail, as an error the loop
catches for one recording (`NextItem`) or as one that ends the batch (`Abort`;
`ftplib` replies are neither FtpError nor OSError). `Tries` gives the names that
`_collision_safe_path` looks at, from the name it is given. The writer keeps its `.part`
open, so `fd` tells where the file it writes is linked by now: another thread may
have renamed or removed it. `May` names the perils an instance lets happen:
`overlap` (a request falls into the automatic pull), `no_size` (the printer does
not answer SIZE), `no_names` (all the names of a recording are taken).

**Custody** is what the transfers promise: a recording is copied while the card
has it, it is released from the card only when the folder has it whole, and what
the folder has whole stays whole. `disk <- OnDisk`, the recordings some file holds
in full, so a conversion that replaces the `.avi` by its `.mp4` must be a stutter.

### Post-print pipeline and harvest

**PostPrint.** `events` is what OctoPrint has still to deliver, `pending` is
`_autosync_cancel`, `running` is `_ipcam_cancel`, `cancelled` the set of events
that are set, `lock` the lock of the manual harvests, `busy` the flag of the tab.
Each print that is done has a worker and each "Fetch from printer" a thread; both
run the same harvest. `dir`, `part`, `chunk`, `listed` and `order` are the group
directories.

| action | code |
|---|---|
| Started, HandleStart, PrintDone | the print starts; on_event and on_ipcam_event for its start and its end |
| Snapshot | the baseline's thread, one for each start that was handled |
| Gate, Stage2, Stage3, EndWorker | _autosync_worker (stage 2 is TimelapseBatch) |
| Fetch, Lock, Unlock | handle_harvest_ipcam, harvest_now |
| Enter, Lower | _manual_harvest_ui around _harvest, with the registration of its event |
| Diff, Prepare, NoSpace, Pull | _harvest, _download_group, _pull_chunks |
| Attempt, Connect, LastBlock, Save, Lose | _download_one and ftp.download: the look at the event, the session and the opened `.part`, the blocks, the rename, an error |
| DiscardEmpty, WriteOrder, Report, Release | the end of a harvest; order.json may fail to be written, which is logged, and the report follows |
| Stop | handle_cancel_harvest |
| Crash | a crash |
| SweepBegin, SweepGroup, SweepDiscard | _recover_interrupted_harvests at the next start, on its own thread, with the API live |

`Resolved` and `GroupState` are the library's reading of a group directory.
`since`, `want`, `at`, `tries`, `got` are the locals of a harvest, `notice` the
last `ipcam_download` message. The sweep exists only with `RenderEnabled`, like in the
code; `due`, `sweep` and `doomed` are where it is: not begun, the groups it has still to
look at, the one it found without a chunk and is about to remove. History variables are
`starts`, `source`, `after`, `drawn` (which start a baseline and a pipeline belong to),
`kept` (the chunks a stopped harvest may have in the end), `swept` (groups the sweep
took from a living harvest) and `met` (harvests that overlapped another one). A chunk
takes at least one block, a removal of a `.part` or of a group succeeds; the listing, the
names and the space of a group are nondeterministic.

**Shelf** is what the library shows of the harvests whatever they do to files: a group
is incomplete and gains chunks until it is ready, is then left as it is, and disappears
only while it holds no chunk, or because it held none when the sweep looked (`Condemn`,
`Discard`; `Reprieve` is a sweep cut short by a crash). `state <- ShownState`,
`chunks <- ShownChunks`, `doomed <- doomed`.

**MCPostPrint** adds the state constraint `Apart` for TLC (section 3).

### Chamber light

**ChamberLight.** Switches are the workers `_schedule_auto_led` starts, clickers
the requests of the manual button; both claim `_led_busy` (`busy`). `handler` is
the event thread between the override check and the arming, `pending` is
`_auto_led_cancel`, `ledState` what the monitor saw last. `chosen` is a history variable:
a click was noted during a print, before ("doubled") or after ("settled") the last
report of its start.

| action | code |
|---|---|
| Started, Ended, Schedule | on_auto_led_event, _schedule_auto_led |
| Delay, ClaimLed, WaitLed, CheckWanted, EndWorker | _auto_led_worker, _claim_led, _auto_led_wanted |
| Apply, Send, ReleaseLed | _apply_led over the connector, the monitor or a connection of its own |
| Click, Note, Override, CancelAutoLed | _handle_set_led, _note_manual_led, _cancel_auto_led |
| MonitorStart, MonitorConnect, StopLedMonitor, HandleReport | the monitor |
| PrintStarts, PrintEnds, Touch, ConnectorChanges | OctoPrint (events may come twice), the printer's display, BambuConnector |

A command that is reported as failed may have arrived all the same.

## 3. What is checked

All configurations switch deadlock checking off because an idle system waits and
the bounds on jobs, calls and exits run out.

| run | configuration | instance | shows |
|---|---|---|---|
| races | Races.cfg | 2 groups of 1 chunk, 3 jobs, capacity 1, request + harvest + discard + polls | TypeOK, WorkIsScratch, QueueBound, PruneSpares |
| recovery | Recovery.cfg | 2-chunk jobs, shutdown and crash at any step, restart, retention, discards of chunks | WorkIsScratch, NoGhostJobs, PublishedOnce, RenderedMeansMovie, OldJobsSettled, RendersOnce, FootageOutlives |
| liveness | Liveness.cfg | cancels, prints, a crash; weak fairness | JobsSettle |
| webcam | Webcam.cfg | one caller, 2 calls, 4 exits, budget 2; weak fairness | TypeOK, Supervised, StoppedStaysStopped, OneDaemon, RestartBudget, ComesBack |
| transfers | Transfers.cfg | 2 recordings (one .avi), 2 users, the automatic move, all operations, 2 batches, a crash; weak fairness | TypeOK, NoLoss, OneBatch, NoStrayTemps, AutoNeverDuplicates, FlagLowered, CustodyKept |
| harvest | Harvest.cfg | 2 prints with their pipelines; or one beside a manual fetch, 2 chunks, 2 attempts, a stop, a crash and the sweep | TypeOK, LastPipeline, BaselineOrder, StopReaches, BusyTruthful, NoPhantom, DoneMeansWhole, NothingAfterStop, ShelfKept |
| light | Light.cfg | a print with doubled events, 2 switches, a click, one outside change; weak fairness | TypeOK, OneCommand, OneSwitchPending, ManualOffWins, CommandsEnd |
| cancel_race, enqueue_race, two_daemons, move_loses, ready_partial | | smallest instances | section 5 |

Bounds and why they suffice. Two enqueuers (a request and the harvest) are all
the code has besides further requests; with capacity 1 and 3 jobs the queue can
fill, overshoot and refuse. One chunk takes the direct encode path and two chunks
the concat path: races uses one, recovery two. Three
jobs and polls in `races` let a poll drop a settled job while another is inserted, claimed
or done. One crash suffices for the
properties about the next process, since a process keeps nothing of the
one before the last but the same files; `MaxCrashes` is a parameter. In the webcam
run 2 calls (a restart is a stop and a start, a pause has its resume) let a daemon be
started and superseded while an old watchdog sleeps or is about to store its list;
4 exits with `MaxRestarts = 2` reach the give-up, also past a list that was stored late;
`BackoffMax` caps after two doublings. `Ops` selects which commands an instance exercises.
In `transfers` two batches are enough for one to
find what the other left, and a free name with one collision for a second copy; a
recording that is an .avi and one that is not take the two ways through the
conversion. In `harvest` two chunks give a partial group and two attempts a
back-off; `Newest = 1` makes the newest-chunks cap bite. The constraint `Apart` cuts the
product of two things that have little to do with each other: behind a second print
there is one chunk, at its first attempt, and neither fetch, stop nor crash (a second
start supersedes the first pipeline at every step, and its baseline thread may be late);
without a second print there is everything else. What lies beyond is covered by the
theorems only, which know no constraint. In `light` two
switches are the two ends of a print, each superseding the other's arming, and
`MaxTries = 2` reaches the give-up. Symmetry is used for groups, chunks and clients, in safety runs only.

Fairness. `Worker`, request handlers once begun, the harvest's enqueue steps,
startup, and boot are weakly fair: they are threads that run to completion, wait
for nothing but a lock that is held briefly, and the plugin restarts with
OctoPrint. No request, harvest, cancel, print or crash has to happen. JobsSettle
holds from the point where no print is running (`<>[]~printing`), because the idle
gate rightly holds jobs back; it also assumes that ffmpeg returns. In
WebcamdManager the callers' steps and the watchdogs are weakly fair: sleeps end
and threads are scheduled; no daemon has to exit and nobody has to call. In
TimelapseBatch the steps of a batch are weakly fair, because the sockets have
timeouts and ffmpeg is assumed to end; in ChamberLight those of the workers and
clicks, because every transport answers or times out. No request, print, click or
report has to come.

What the properties allow for, because the code does:

- QueueBound and GroupOvershoot: check and insertion are two critical sections, so every
  thread between them may exceed the capacity, and the one job per group, by one. QueueBound
  is checked by `races`; GroupOvershoot is a theorem, and `Overlaps.cfg` checks it (7.5
  million states).
- OldJobsSettled: the worker starts before `recover()` and may take a job of the last
  process that was queued; that one it may still render, all others are settled once
  `recover()` is through.
- RestartBudget: one more respawn for each crash that fell out of the window (`aged`) and
  for each that was struck from the list while it counted (`lost`): a watchdog that was
  superseded stores the list it rebuilt before, and a restart clears the list of a daemon
  another thread has started meanwhile. `webcam` has one caller and reaches the list
  that is stored late; `Budget.cfg` has two callers and reaches the clearing as well.
- OneDaemon holds in `webcam` because its calls come from one thread; with two it is
  violated (`two_daemons`).
- `transfers` has `May = {}`: section 5 says what the perils do. NoStrayTemps exempts what
  EncodeBreaks leaves, FlagLowered the flag of a thread that died in ListLocalAvi.
- StopReaches and BusyTruthful promise nothing for a harvest that overlapped another one
  (`met`): the code has one slot for both. DoneMeansWhole and ShelfKept exempt a group
  that the sweep had found empty.
- DoneMeansWhole speaks of the chunks, not of order.json, whose failed write does not keep
  the harvest from "done".
- ManualOffWins speaks of a click behind all reports of the print's start: a report that
  comes after the click clears the override.

Section 5 has the instances that show what happens where nothing is allowed.

Each property of a passing run has a mutant in the module, next to the
definition it mutates and marked "Variant": a plausible slip that breaks it.

## 4. What is proved

For every value of the constants, under the named assumptions in the modules.

| module | theorem | says |
|---|---|---|
| RenderPipelineProofs | TypeCorrect | `Spec => []TypeOK` |
| RenderPipelineSafety | WorkStaysScratch, GhostFree, FootageSafe, QueueBounded, OneMovie | WorkIsScratch, NoGhostJobs, RenderedMeansMovie, QueueBound, PublishedOnce |
| RenderPipelineSafety | Implements | `DiskFaults = FALSE` gives `Spec => RendersOnce` |
| RenderPipelineOverlaps | GroupOverbooking | `Spec => []GroupOvershoot`: a group never has more active jobs than there are threads that enqueue |
| RenderPipelineOverlaps | PollsSpare, LastProcessSettled, ChunksOutlive | PruneSpares, OldJobsSettled, FootageOutlives |
| WebcamdManagerProofs | ManagerTypeCorrect | `Spec => []TypeOK` |
| WebcamdManagerProofs | AlwaysSupervised, StopIsRespected | Supervised and StoppedStaysStopped with any number of concurrent callers |
| WebcamdManagerProofs | OneAtATime | OneDaemon with one caller and a SIGKILL that works |
| WebcamdManagerProofs | BudgetKept | `Spec => []RestartBudget`, for any budget and number of callers |
| TimelapseBatchProofs | BatchTypes | `Spec => []TypeOK`, perils included |
| TimelapseBatchProofs | NothingLost, TidyBatches, NeverTwice | `May = {}` gives NoLoss, NoStrayTemps, AutoNeverDuplicates |
| TimelapseBatchProofs | BatchesKeepCustody | `May = {}` gives `Spec => CustodyKept` |
| PostPrintProofs | PostPrintTypes, OnlyTheLast, OwnBaseline, StopFinds, BusyIsTrue, NoPhantoms, DoneIsWhole, StopStops, HarvestsKeepShelf | all that `harvest` checks, the refinement of Shelf included |
| ChamberLightProofs | LightTypeCorrect, LightExclusion, LastSwitchPending, ClickWins | TypeOK, OneCommand, OneSwitchPending, ManualOffWins |

*Render pipeline.* None of the invariants is inductive alone. `SafetyInv` adds
`LifeInv` (what a process that is down, not yet built or booting looks like),
`IdsInv` (ids from `nextId` on are unused everywhere: registry, file, threads,
movies), `MovieInv` (where the worker is decides whether its job has a movie),
`OnceInv` (when writes succeed, file and memory agree and a job with a movie is
never queued in either) and `CountInv` (jobs queued plus enqueuers past the count
check stay within the bound). A step is first classified: it is *quiet* for a
part of the state, or it is one of the few that touch it. Then one lemma per part
of the invariant, with the steps that disturb it as cases. The refinement follows
from the same invariant: `Claim` maps to Take, `Publish` to Make, `Release` and
`Die` to Leave, all else stutters.

*Render pipeline, overlaps.* On top of `SafetyInv`, `OverlapInv` says what a thread still
knows of what it read some steps ago. A job on a poll's list is not queued, and active
only if the worker took it up again (`PruneInv`); that is all that is left of "settled",
and enough. The group under harvest holds nothing the harvest does not know of
(`HarvestInv`), and the one retention condemned has its movie (`RetentionInv`), so that a
step that costs a group chunks is a discard, the sweep, or comes behind a movie.
`LoadedInv`: past the reconciliation no job of the last process is queued. `BookedInv`
counts, for each group, the active jobs the worker is not about to let go of together
with the threads that found the group free and have not inserted yet; a thread finds it
free only when there is none of the former, so the sum stays within the number of
threads, and the worker adds at most the job it is bringing back to life.

*Webcam daemon.* The key fact is `GenBound`: no watchdog's generation exceeds the
manager's, so bumping the generation dismisses every watchdog at once and a spawn
makes the new one the only current one. `StopNoted` ties `_stop_requested` to it.
`OneInv` says that what is alive is held by the manager or being terminated by a
caller. Only a launch can break OneDaemon; with one caller no thread is terminating then,
so nothing lives. BudgetKept rests on `ChainInv`: the crash respawns behind the current
watchdog are all in the list, have aged or were struck out of it, and a value between
reading and storing counts one more. A step that shortens the list raises `aged` or `lost`
by as much (`Loosened`), and a launch by a caller starts a new chain.

*Transfers.* First the types and the paths a thread works at (`TInv`), for every
`May`. Then, for `May = {}`, `IInv` adds that batches exclude one another, that only the thread that
transfers or encodes has a `.part` open and where it created it (`FdInv`), and what
is under the names at each step (`ContentInv`): the name a download or an encoder
works towards is free, a verified file is full, an `.mp4` has what its `.avi` had.
A step of a batch then never writes over a whole file, which gives the refinement;
NoLoss is an invariant of Custody. `Tidy` narrows NoStrayTemps to the steps at which
a thread has a `.part`, and EncodeBreaks moves the one it leaves to `orphans`. `CopyInv` says that a recording with any file has one under
a name the automatic pull looks at, since a name with a counter is taken only while
the one without is, and an `.avi` goes only after its `.mp4` came.

*Harvest.* LastPipeline is inductive. BaselineOrder needs that the pipeline that is armed
came after the last start (`Numbered`): a later start, which alone could bring a later
baseline, cancels it first. StopReaches and BusyTruthful rest on `Alone`:
of two harvests under way at a time both have met, so one that has not is the one
in the slot and the only one that can lower the flag. NoPhantom and DoneMeansWhole
rest on `Group(h)`, which ties a harvest's position to its directory, its `.part`,
the chunks saved and what order.json lists; it is per harvest, because groups are
named for their harvest. For the refinement `Book(h)` adds that order.json lists
exactly what the group holds and that a harvest that has not listed yet has saved just
that. What is shown then depends on three sets only (`Mark`), and each step is a
Gain, an Offer, a Withdraw, one of the sweep's or changes nothing. StopStops rests on
`Halts`: while its event is set, a harvest at "save" has a chunk whose last block was in
before, and no block comes in any more.

*Chamber light.* OneCommand is mutual exclusion by `busy`; OneSwitchPending follows
from arming and superseding under one lock. ManualOffWins has two parts: the code's own
flag keeps switches off away from the light (`OffRespects`), since the click holds
the light before it notes the override, so that no switch is past its check then; and
behind the last report of the start nothing clears the flag before the next print
(`Settled`).

Model-checked only: the liveness properties JobsSettle, ComesBack, FlagLowered and
CommandsEnd, since TLAPS handles no fairness or ENABLED, and OneBatch. The theorems
assume neither the bounds of the runs nor `Apart`; those on transfers assume `May = {}`,
OneAtATime one caller. `DiskFaults = TRUE` is covered by the theorems, which do not fix it, rather than
by a run.

## 5. Where code and comments disagree

| run | what happens | what is said |
|---|---|---|
| cancel_race | a cancel between the worker's pick and its claim is overwritten; the cancelled job renders | `render_queue.py:166` terminal jobs "are not live work" |
| enqueue_race | a request and the auto-render both find the group free and both insert a job for it | `render_queue.py:74` "Rejects a second job for the same group (one render per group at a time)" |
| two_daemons | a restart request and the harvest's resume both get past `stop()` and both spawn; the first daemon is orphaned | `daemon.py:48` "only one daemon ever runs at a time" |
| move_loses | the automatic batch reads `_ftp_busy` and does not claim it; a user's copy beside it shares the `.part`, and the move deletes a recording that is whole nowhere | `docs/reference/http-api.md:200` "`move` deletes it only after a byte-for-byte verify" |
| ready_partial | order.json lists the saved chunks only, so a group that lacks one is `chunks_ready` | `ipcam_sync.py:240` "a chunk that fails after retries leaves the group ``incomplete``" |

Further instances, each `tlc -workers 2 -config <configuration> <module>`. These
end in a violation:

| configuration, module | property | what happens, against what |
|---|---|---|
| CancelFrees, MCRenderPipeline | RunningJobHoldsGroup | a cancel that read the job as queued writes "cancelled" while it renders; the group counts as free, against `render_queue.py:184` "(blocks delete)" |
| DeleteRace, MCRenderPipeline | SourcesKept | a discard is granted, the group enqueued and rendered, then removed under the encoder, against `docs/reference/http-api.md:357` "Both are refused while a print runs or while the group is rendering." |
| Requeue, MCRenderPipeline | RecoverRequeuesNothing | the worker starts before `recover()` and renders a job of the last process, against `render_queue.py:130` "Re-queues nothing" |
| LateForget, WebcamdManager | MaxRestartsKept | the timestamp list is rebuilt and stored, or cleared, after newer crashes went in (`daemon.py:400-402`, `128-129`), against `README.md:224` "Max restarts within the restart window." |
| Backoff, WebcamdManager | BackoffGrows | each new watchdog starts from the initial delay, against `docs/architecture/daemon.md:46` "2s → 4s → … capped at 60s" |
| StuckFlag, TimelapseBatch | FlagReleased | a convert batch lists its files outside the `try/finally` (`timelapse_ops.py:365`); when that fails the flag stays up, against `tests/test_timelapse_api.py:1158` "held until the batch releases it" |
| EncodeError, TimelapseBatch | EncodeNeverEndsBatch | an exception `transcode()` does not expect (`transcode.py:125`) ends the batch, against `timelapse_ops.py:275` "Never raises — a transcode problem must not fail an otherwise-good copy" |
| DoubleStart, ChamberLight | ToggleWins | the second report of a print's start clears the override of a click between the two (`auto_led.py:94`), against `auto_led.py:12` "A manual toggle … wins for the rest of the running print" |
| StaleLight, ChamberLight | SkipsOnlyWhatItSees | `_led_state` outlives the monitor, so a switch-off is skipped on a state nobody observes, against `auto_led.py:215` "An unknown state (``None``) means BambuConnector is not the active connection. It is not evidence of anything, so the switch proceeds." |
| DoneUnlisted, PostPrint | DoneIsListed | the write of order.json fails, is logged (`ipcam_sync.py:396`), and "done" and the auto-render follow, against `ipcam_sync.py:242` "A complete download hands the group to the auto-render hook" |
| TwoHarvests, PostPrint | OneHarvest | a manual fetch runs beside the pipeline's harvest: the FTP lock is one per session object (`ftp.py:136`); Stop then reaches only the later one, and the busy flag drops with the first, against `ipcam_sync.py:438` "runs only when the previous one (and, via the FTP session lock, any pipeline harvest) has finished" |
| SweepLive, PostPrint | SweepSparesLive | the sweep of a restart removes the group, or the `.part`, of a fetch that has begun meanwhile (`raw_files_ops.py:234`), against `raw_files_ops.py:187` on what it is for, an interrupted download |

These hold: Overlaps.cfg with MCRenderPipeline (GroupOvershoot) and Budget.cfg with
WebcamdManager (RestartBudget with two callers).

What else the models showed:

- `May = {"no_size"}` violates NoLoss: when SIZE is refused, `remote_size` is None
  and a short move is not noticed. `May = {"no_names"}` violates
  CustodyKept (with `MaxCollision = 0`):
  `_collision_safe_path` returns a path that is taken after MAX_COLLISION tries.
- With `overlap`, the end of the automatic batch lowers a user's flag.
- A short copy keeps its visible name and counts as copied from then on.
- A server reply that is no FtpError ends the whole batch, and in the automatic
  pull the worker with it: stage 3, the harvest, is skipped.
- A manual fetch that was queued does not look at the printer again when its turn
  comes; a listing that fails counts as "done" with nothing new, and an error of
  `ftplib` in it ends the harvest without a message.
- `_claim_led` takes a free flag without looking at its cancel event: a switch that
  was superseded after its delay still drives the light.

## 6. What is not modelled, and why

- Two queues: `_queue()` constructs lazily without a lock, so two first users can
  build two queues. The model builds one; it takes two in-memory registries to
  show the other case. Likewise two browsers that start the light monitor at once.
- Cosmetic or pure I/O: thumbnails, notices, percentages, presets, file naming,
  the trash purge, log pump, status and probe calls, HTTP routing, view model,
  FTPS and MQTT wire protocols, vendored webcamd.
- Lock files: `Lockfile` is never taken by the plugin, its reclaim has no effect.
- The `.part` copy of a cross-device publish, and a failing removal of temps.
- ffmpeg hanging silently (`transcode.py:262`): the runs with fairness assume it
  returns.
- The library's dictionary: requests name any group and any chunks instead.
- Two harvests of the same minute and print: `_unique_print_id` looks at the
  directory and creates it later, so they could share a group; groups are named for
  their harvest here.
- The print-date workers, which read, change and save a setting without a lock; the
  own-movie filter of the idle gate; the pause of the webcam inside a harvest, which
  WebcamdManager has as a caller.

## 7. What could follow

- A composition of PostPrint's group directories with RenderPipeline's, whose harvest
  thread is now a coarser copy of the same code.
- The library's dictionary and the lazily built queue, with two registries.
- The reading of ffmpeg's output, its cancel and its timeout.
