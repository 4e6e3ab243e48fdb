--------------------------- MODULE RenderPipeline ---------------------------
(* The render pipeline of the plugin (raw_files_ops.py, render_queue.py and  *)
(* the harvest's hook into them): the worker of RenderWorker together with   *)
(* every other thread that touches the job registry or the chunk groups:     *)
(*   - clients: the HTTP request threads that run the API handlers;          *)
(*   - "harvest": the post-print thread that downloads a group and may queue *)
(*     its render (auto_render_new_groups);                                  *)
(*   - "startup": start_render_pipeline, which recovers from the last run;   *)
(*   - "retention": the timer that trashes old rendered groups;              *)
(* and with the process itself, which may shut down, crash and start again.  *)
(*                                                                           *)
(* The handlers take no lock around their several registry calls, so each    *)
(* call is a step and pc says how far each thread has come.  The library's   *)
(* cache of group listings is not kept: a request may name any group that    *)
(* was ever harvested and any chunks, stale listings included.               *)
EXTENDS RenderWorker

CONSTANTS
  Clients,     \* HTTP request threads
  MaxQueue,    \* setting max_queue_size
  MaxCrashes,  \* bound: times the process goes down
  RenderEnabled, \* setting render_enabled: does startup run the recovery?
  Ops          \* which commands and background jobs this instance exercises

AllOps == {"start_render", "cancel_render", "list_raw_footage",
           "delete_group", "delete_chunks", "harvest", "auto_render",
           "retention", "shutdown", "print"}

Background == {"harvest", "startup", "retention"}
Threads == Clients \cup Background

\* The threads that may call RenderQueue.enqueue.
Enqueuers == Clients \cup {"harvest"}

ASSUME PipelineAssumption ==
  /\ Clients \cap Background = {}
  /\ IsFiniteSet(Clients)
  /\ MaxQueue \in Nat \ {0}
  /\ MaxCrashes \in Nat
  /\ RenderEnabled \in BOOLEAN
  /\ Ops \subseteq AllOps

VARIABLES
  up,          \* is the OctoPrint process running?
  pc,          \* where each thread is
  req,         \* the group and chunks its request is about
  target,      \* the job id it is about
  seen,        \* the job state it read (cancel)
  todo,        \* the jobs it has still to remove (jobs(), recover)
  loaded,      \* jobs found in jobs.json when this process built its queue
  crashes

locals == <<req, target, seen, todo>>
threadVars == <<pc, locals>>
lifeVars == <<up, loaded, crashes>>
exceptRegistry == <<workerVars, stopping, fileVars, printing, lifeVars>>
exceptGroups == <<registryVars, workerVars, stopping, work, movies, printing,
                  lifeVars>>
outsideVars == <<registryVars, exceptRegistry>>
vars == <<threadVars, outsideVars>>

----------------------------------------------------------------------------

EnqueuePCs == {"check_group", "check_count", "add"}
PCs == {"idle", "prune", "signal", "cancel", "rmtree", "unlink",
        "pull", "trash", "ready", "stopped",
        "sweep", "discard", "build", "clear", "reconcile", "orphans", "drop"}
       \cup EnqueuePCs

ThreadTypeOK ==
  /\ pc \in [Threads -> PCs]
  /\ req \in [Threads -> Selection]
  /\ target \in [Threads -> JobIds \cup {0}]
  /\ seen \in [Threads -> JobStates]
  /\ todo \in [Threads -> SUBSET JobIds]

LifeTypeOK ==
  /\ up \in BOOLEAN
  /\ loaded \subseteq JobIds
  /\ crashes \in 0..MaxCrashes

\* Every variable has its type; the worker holds a job unless it is looking
\* for one.
TypeOK == RegistryTypeOK /\ WorkerTypeOK /\ ThreadTypeOK /\ LifeTypeOK

\* A process that has just started: startup is about to recover, if at all.
FirstPC ==
  [t \in Threads |-> IF t = "startup" /\ RenderEnabled THEN "sweep" ELSE "idle"]

Init ==
  /\ RegistryInit
  /\ WorkerInit
  /\ pc = FirstPC
  /\ req = [t \in Threads |-> NoSelection]
  /\ target = [t \in Threads |-> 0]
  /\ seen = [t \in Threads |-> NoJob]
  /\ todo = [t \in Threads |-> {}]
  /\ up = TRUE
  /\ loaded = {}
  /\ crashes = 0

----------------------------------------------------------------------------
(* Helpers for the thread steps. *)

Built == worker # "off"

\* Thread t is at `from`; the step takes it to `to`.
At(t, from) == up /\ pc[t] = from
Step(t, to) == pc' = [pc EXCEPT ![t] = to]
Begin(t, op, to) == At(t, "idle") /\ op \in Ops /\ Step(t, to)

\* Thread t returns; its local variables go with it.
Return(t) ==
  /\ Step(t, "idle")
  /\ req' = [req EXCEPT ![t] = NoSelection]
  /\ target' = [target EXCEPT ![t] = 0]
  /\ seen' = [seen EXCEPT ![t] = NoJob]
  /\ UNCHANGED todo

Enqueuing == {t \in Enqueuers : pc[t] \in EnqueuePCs}

\* The bound on jobs is charged when a request is made, so that no thread is
\* ever stuck at its last step.
RoomForJob == nextId + Cardinality(Enqueuing) <= MaxJobs

Harvested(g) == group[g].dir # "unmade"

\* _queue(): loads jobs.json and starts the worker, on first use by anyone.
\* (One construction only; see the README for the unguarded first use.)
BuildQueue ==
  /\ Load
  /\ loaded' = {j \in JobIds : saved[j] # NoJob}
  /\ Goto("loop")
  /\ UNCHANGED <<job, activeJob, cancelSet, stopping>>

----------------------------------------------------------------------------
(* RenderQueue.enqueue, called by handle_start_render and by the harvest's   *)
(* _auto_render_group: two checks, then the insertion, each under the        *)
(* registry's lock and none of them together.                                *)

StartRender(c) ==
  /\ Begin(c, "start_render", "check_group")
  /\ Built /\ ~printing /\ RoomForJob
  /\ \E g \in Groups, C \in SUBSET Chunks \ {{}} :
       /\ Harvested(g)
       /\ req' = [req EXCEPT ![c] = [group |-> g, chunks |-> C]]
  /\ UNCHANGED <<target, seen, todo, outsideVars>>

CheckGroup(t) ==
  /\ At(t, "check_group")
  /\ IF ActiveForGroup(req[t].group)
       THEN Return(t)
       ELSE Step(t, "check_count") /\ UNCHANGED locals
  /\ UNCHANGED outsideVars

\* Variant: a full queue is taken for one with room for a last job.
CheckCountOffByOne(t) ==
  /\ At(t, "check_count")
  /\ IF Cardinality(Active) > MaxQueue
       THEN Return(t)
       ELSE Step(t, "add") /\ UNCHANGED locals
  /\ UNCHANGED outsideVars

CheckCount(t) ==
  /\ At(t, "check_count")
  /\ IF Cardinality(Active) >= MaxQueue
       THEN Return(t)
       ELSE Step(t, "add") /\ UNCHANGED locals
  /\ UNCHANGED outsideVars

AddJob(t) ==
  /\ At(t, "add")
  /\ Add(req[t])
  /\ Return(t)
  /\ UNCHANGED exceptRegistry

----------------------------------------------------------------------------
(* RenderQueue.cancel: read a copy of the job, signal the worker if the job  *)
(* is the active one, then mark the job if the copy said it was queued.      *)

CancelRender(c) ==
  /\ Begin(c, "cancel_render", "signal")
  /\ Built
  /\ \E j \in JobIds :
       /\ jobs[j] # NoJob
       /\ target' = [target EXCEPT ![c] = j]
       /\ seen' = [seen EXCEPT ![c] = jobs[j]]
  /\ UNCHANGED <<req, todo, outsideVars>>

CancelSignal(c) ==
  /\ At(c, "signal")
  /\ cancelSet' = (cancelSet \/ activeJob = target[c])
  /\ IF seen[c] = "queued"
       THEN Step(c, "cancel") /\ UNCHANGED locals
       ELSE Return(c)
  /\ UNCHANGED <<registryVars, worker, job, activeJob, stopping, fileVars,
                 printing, lifeVars>>

CancelMark(c) ==
  /\ At(c, "cancel")
  /\ Update(target[c], "cancelled")
  /\ Return(c)
  /\ UNCHANGED exceptRegistry

----------------------------------------------------------------------------
(* RenderQueue.jobs, which the queue table polls: the jobs terminal in one   *)
(* copy of the registry are then removed one by one.                         *)

\* Variant: what does not run is taken for finished.
ListUnfinished(c) ==
  /\ Begin(c, "list_raw_footage", "prune")
  /\ Built /\ Terminal # {}
  /\ todo' = [todo EXCEPT ![c] = {j \in JobIds : jobs[j] \notin {NoJob, "concat", "render"}}]
  /\ UNCHANGED <<req, target, seen, outsideVars>>

ListRawFootage(c) ==
  /\ Begin(c, "list_raw_footage", "prune")
  /\ Built /\ Terminal # {}
  /\ todo' = [todo EXCEPT ![c] = Terminal]
  /\ UNCHANGED <<req, target, seen, outsideVars>>

\* One removal of a loop over todo, oldest job first; shared with recover().
RemoveNext(t, from, to) ==
  /\ At(t, from)
  /\ \E j \in todo[t] :
       /\ \A k \in todo[t] : j <= k
       /\ Remove(j)
       /\ todo' = [todo EXCEPT ![t] = @ \ {j}]
       /\ Step(t, IF todo[t] = {j} THEN to ELSE from)
  /\ UNCHANGED <<req, target, seen, exceptRegistry>>

Prune(c) == RemoveNext(c, "prune", "idle")

----------------------------------------------------------------------------
(* handle_delete_group and handle_delete_chunks: refused while a job of the  *)
(* group is active, but the check and the removal are not one step.          *)

MayDelete(g) == Harvested(g) /\ ~printing /\ ~ActiveForGroup(g)

BeginDelete(c, op, chunks, to) ==
  /\ Begin(c, op, to) /\ Built
  /\ \E g \in Groups :
       /\ MayDelete(g)
       /\ req' = [req EXCEPT ![c] = [group |-> g, chunks |-> chunks]]
  /\ UNCHANGED <<target, seen, todo, outsideVars>>

DeleteGroup(c) == BeginDelete(c, "delete_group", {}, "rmtree")

DeleteChunks(c) ==
  \E C \in SUBSET Chunks \ {{}} : BeginDelete(c, "delete_chunks", C, "unlink")

\* What an error may leave of a group that is being removed.
Remnants(g) ==
  {[dir |-> "there", chunks |-> C, marker |-> m] :
     C \in SUBSET group[g].chunks, m \in {group[g].marker, "none"}}

\* shutil.rmtree or shutil.move of a group: an error ends it half-way.
RemoveGroup(g) ==
  IF There(g)
    THEN \E left \in Remnants(g) \cup {Gone} :
           group' = [group EXCEPT ![g] = left]
    ELSE UNCHANGED group

DeleteTree(c) ==
  /\ At(c, "rmtree")
  /\ RemoveGroup(req[c].group)
  /\ Return(c)
  /\ UNCHANGED exceptGroups

\* _remove_chunk_files; each file may also fail to go.
UnlinkChunks(c) ==
  /\ At(c, "unlink")
  /\ \E C \in SUBSET req[c].chunks :
       group' = [group EXCEPT ![req[c].group].chunks = @ \ C]
  /\ Return(c)
  /\ UNCHANGED exceptGroups

----------------------------------------------------------------------------
(* _download_group, seen from the pipeline: a new group directory, chunk     *)
(* after chunk, then the auto-render hook when the download was complete.    *)

HarvestBegin ==
  /\ Begin("harvest", "harvest", "pull")
  /\ \E g \in Groups :
       /\ group[g] = Unmade
       /\ group' = [group EXCEPT ![g].dir = "there"]
       /\ req' = [req EXCEPT !["harvest"] = [group |-> g, chunks |-> {}]]
  /\ UNCHANGED <<target, seen, todo, exceptGroups>>

\* A download into a directory that has been removed fails.  The chunks
\* saved so far, the contents of order.json, are kept in req.
HarvestChunk ==
  /\ At("harvest", "pull")
  /\ LET g == req["harvest"].group
     IN  /\ There(g)
         /\ \E c \in Chunks \ req["harvest"].chunks :
              /\ group' = [group EXCEPT ![g].chunks = @ \cup {c}]
              /\ req' = [req EXCEPT !["harvest"].chunks = @ \cup {c}]
  /\ UNCHANGED <<pc, target, seen, todo, exceptGroups>>

\* Nothing saved: the empty group is discarded.
HarvestEmpty ==
  /\ At("harvest", "pull")
  /\ req["harvest"].chunks = {}
  /\ RemoveGroup(req["harvest"].group)
  /\ Return("harvest")
  /\ UNCHANGED exceptGroups

\* A partial or cancelled harvest, or auto-render off: the group stays.
HarvestKept ==
  /\ At("harvest", "pull")
  /\ req["harvest"].chunks # {}
  /\ Return("harvest")
  /\ UNCHANGED outsideVars

\* A complete harvest with auto-render on: refresh() must find the group in
\* state chunks_ready, with every chunk of order.json and no rendered marker.
HarvestAutoRender ==
  /\ At("harvest", "pull") /\ Built /\ RoomForJob
  /\ RenderEnabled /\ "auto_render" \in Ops
  /\ req["harvest"].chunks # {}
  /\ LET g == req["harvest"].group
     IN  /\ There(g) /\ group[g].marker = "none"
         /\ req["harvest"].chunks = group[g].chunks
  /\ Step("harvest", "check_group")
  /\ UNCHANGED <<locals, outsideVars>>

----------------------------------------------------------------------------
(* start_render_pipeline.  The queue's worker runs from the build step on,   *)
(* that is before recover() has looked at the jobs of the last run.          *)

\* _recover_interrupted_harvests: a group without a chunk is discarded, in
\* two steps: a harvest of this process may save a chunk in between.  A group
\* that could not be removed is as good as passed over.
SweepFind ==
  /\ At("startup", "sweep")
  /\ \E g \in Groups :
       /\ There(g) /\ group[g].chunks = {}
       /\ req' = [req EXCEPT !["startup"] = [group |-> g, chunks |-> {}]]
  /\ Step("startup", "discard")
  /\ UNCHANGED <<target, seen, todo, outsideVars>>

SweepDiscard ==
  /\ At("startup", "discard")
  /\ LET g == req["startup"].group
     IN  /\ RemoveGroup(g)
         /\ Step("startup", IF group'[g].dir = "gone" THEN "sweep" ELSE "build")
  /\ req' = [req EXCEPT !["startup"] = NoSelection]
  /\ UNCHANGED <<target, seen, todo, exceptGroups>>

SweepOver ==
  /\ At("startup", "sweep")
  /\ Step("startup", "build")
  /\ UNCHANGED <<locals, outsideVars>>

\* Variant: startup builds the queue again over one a request has built.
StartupBuildAlways ==
  /\ At("startup", "build")
  /\ BuildQueue
  /\ Step("startup", "clear")
  /\ UNCHANGED <<locals, fileVars, printing, up, crashes>>

StartupBuild ==
  /\ At("startup", "build")
  /\ IF Built THEN UNCHANGED <<registryVars, workerVars, stopping, loaded>>
              ELSE BuildQueue
  /\ Step("startup", "clear")
  /\ UNCHANGED <<locals, fileVars, printing, up, crashes>>

\* A thread that needs the queue before the startup thread has built it.
FirstUse(t) ==
  /\ At(t, IF t = "harvest" THEN "pull" ELSE "idle") /\ ~Built
  /\ BuildQueue
  /\ UNCHANGED <<threadVars, fileVars, printing, up, crashes>>

\* recover(), _clear_work_dir.  (No code ever takes one of the lock files
\* that recover() goes on to reclaim.)
ClearWork ==
  /\ At("startup", "clear")
  /\ work' = {}
  /\ Step("startup", "reconcile")
  /\ UNCHANGED <<locals, registryVars, workerVars, stopping, group, movies,
                 printing, lifeVars>>

Reconcile ==
  /\ At("startup", "reconcile")
  /\ ReconcileActive
  /\ Step("startup", "orphans")
  /\ UNCHANGED <<locals, exceptRegistry>>

\* _drop_orphaned_jobs: the jobs whose group directory is gone.
FindOrphans ==
  /\ At("startup", "orphans")
  /\ LET orphans == {j \in JobIds : jobs[j] # NoJob /\ ~There(args[j].group)}
     IN  /\ todo' = [todo EXCEPT !["startup"] = orphans]
         /\ Step("startup", IF orphans = {} THEN "ready" ELSE "drop")
  /\ UNCHANGED <<req, target, seen, outsideVars>>

DropOrphan == RemoveNext("startup", "drop", "ready")

----------------------------------------------------------------------------
(* _retention_cleanup: a rendered group whose marker has expired is trashed, *)
(* whether or not a job of the group is active.                              *)

RetentionCheck ==
  /\ Begin("retention", "retention", "trash")
  /\ pc["startup"] = "ready"
  /\ \E g \in Groups :
       /\ group[g].marker = "expired"
       /\ req' = [req EXCEPT !["retention"] = [group |-> g, chunks |-> {}]]
  /\ UNCHANGED <<target, seen, todo, outsideVars>>

RetentionTrash ==
  /\ At("retention", "trash")
  /\ RemoveGroup(req["retention"].group)
  /\ Return("retention")
  /\ UNCHANGED exceptGroups

----------------------------------------------------------------------------
(* The environment: prints start and end, markers age, the process stops.    *)

PrintStateChanges ==
  /\ "print" \in Ops
  /\ printing' = ~printing
  /\ UNCHANGED <<threadVars, registryVars, workerVars, stopping, fileVars,
                 lifeVars>>

MarkerExpires(g) ==
  /\ "retention" \in Ops
  /\ group[g].marker = "fresh"
  /\ group' = [group EXCEPT ![g].marker = "expired"]
  /\ UNCHANGED <<threadVars, exceptGroups>>

\* on_shutdown, stop_render_pipeline: RenderQueue.stop(), if there is a queue,
\* and the end of the retention timer, if startup has got to start it.
Shutdown ==
  /\ up /\ ~stopping /\ Built /\ "shutdown" \in Ops
  /\ stopping' = TRUE
  /\ cancelSet' = (cancelSet \/ activeJob # 0)
  /\ pc' = [pc EXCEPT !["startup"] = IF @ = "ready" THEN "stopped" ELSE @]
  /\ UNCHANGED <<locals, registryVars, worker, job, activeJob, fileVars,
                 printing, lifeVars>>

\* The process ends, by a crash or after a shutdown: memory and threads are
\* lost, the files stay as they are.
Die ==
  /\ up /\ crashes < MaxCrashes
  /\ up' = FALSE
  /\ crashes' = crashes + 1
  /\ jobs' = [j \in JobIds |-> NoJob]
  /\ worker' = "off" /\ job' = 0 /\ activeJob' = 0
  /\ cancelSet' = FALSE /\ stopping' = FALSE
  /\ loaded' = {}
  /\ pc' = FirstPC
  /\ req' = [t \in Threads |-> NoSelection]
  /\ target' = [t \in Threads |-> 0]
  /\ seen' = [t \in Threads |-> NoJob]
  /\ todo' = [t \in Threads |-> {}]
  /\ UNCHANGED <<saved, args, nextId, fileVars, printing>>

Boot ==
  /\ ~up
  /\ up' = TRUE
  /\ UNCHANGED <<threadVars, registryVars, workerVars, stopping, fileVars,
                 printing, loaded, crashes>>

----------------------------------------------------------------------------

Worker == up /\ WorkerNext /\ UNCHANGED <<threadVars, lifeVars>>

EnqueueStep(t) == CheckGroup(t) \/ CheckCount(t) \/ AddJob(t)

Request(c) ==
  \/ StartRender(c) \/ CancelRender(c) \/ ListRawFootage(c)
  \/ DeleteGroup(c) \/ DeleteChunks(c)

Handler(c) ==
  \/ EnqueueStep(c) \/ CancelSignal(c) \/ CancelMark(c) \/ Prune(c)
  \/ DeleteTree(c) \/ UnlinkChunks(c)

Harvest ==
  \/ HarvestBegin \/ HarvestChunk \/ HarvestEmpty \/ HarvestKept
  \/ HarvestAutoRender \/ EnqueueStep("harvest")

Startup ==
  \/ SweepFind \/ SweepDiscard \/ SweepOver
  \/ StartupBuild \/ ClearWork \/ Reconcile
  \/ FindOrphans \/ DropOrphan
  \/ \E t \in Enqueuers : FirstUse(t)

Retention == RetentionCheck \/ RetentionTrash

Environment ==
  \/ PrintStateChanges \/ Shutdown \/ Die \/ Boot
  \/ \E g \in Groups : MarkerExpires(g)

Next ==
  \/ Worker
  \/ \E c \in Clients : Request(c) \/ Handler(c)
  \/ Harvest \/ Startup \/ Retention
  \/ Environment

Spec == Init /\ [][Next]_vars

(* Fairness.  The threads of a running process are scheduled, ffmpeg returns *)
(* (render_timeout), and the process is started again after it stopped; no   *)
(* request, harvest, print or crash has to happen.                           *)
Fairness ==
  /\ WF_vars(Worker)
  /\ \A c \in Clients : WF_vars(Handler(c))
  /\ WF_vars(EnqueueStep("harvest"))
  /\ WF_vars(Startup)
  /\ WF_vars(Boot)

FairSpec == Spec /\ Fairness

----------------------------------------------------------------------------
(* Safety, in every instance. *)

\* The startup thread is past each of the steps pcs.
Past(pcs) == up /\ RenderEnabled /\ pc["startup"] \notin pcs

HoldingTemps == {"concatenating", "encode", "encoding", "publish", "tidy_ok",
                 "tidy_failed"}

\* Once startup has cleared work/, every temp file in it belongs to the job
\* that is rendering: no crash, failure, cancel or recovery under a running
\* worker leaves a file behind (RenderWorker.run "Cleans up its work/ temps
\* in all paths", RenderQueue._clear_work_dir).
WorkIsScratch ==
  Past({"sweep", "discard", "build", "clear"}) =>
    IF worker \in HoldingTemps THEN work \subseteq TempsOf(job) ELSE work = {}

\* Once startup has reconciled the registry, a job is listed as running only
\* while the worker renders it.  A ghost would hold its group for ever: it
\* could be neither deleted nor rendered again (reconcile_active, _run_one).
NoGhostJobs ==
  Past({"sweep", "discard", "build", "clear", "reconcile"}) =>
    \A j \in JobIds : jobs[j] \in {"concat", "render"} =>
                        j = job /\ worker \in Rendering

\* A job publishes one movie at most, across restarts too: a job that was
\* started is never found "queued" in jobs.json by a later process.  Holds
\* when jobs.json can be written (JobRegistry.update, _next_runnable).
PublishedOnce == ~DiskFaults => \A j \in JobIds : movies[j] <= 1

\* enqueue() checks the count and inserts in two steps, so max_queue_size can
\* be exceeded, but never by more jobs than there are other threads that
\* enqueue at the same time, and not cumulatively (RenderQueue.enqueue).
QueueBound ==
  Cardinality(Queued) <= MaxQueue + Cardinality(Enqueuers) - 1

\* A group carries the rendered marker only if a movie of some job of it was
\* published, and a job is "done" only if one of its own was.  (Of a group
\* with several jobs the marker does not say which.)  (_mark_rendered)
RenderedMeansMovie ==
  /\ \A g \in Groups : group[g].marker # "none" =>
       \E j \in JobIds : args[j].group = g /\ movies[j] > 0
  /\ \A j \in JobIds : jobs[j] = "done" => movies[j] > 0

\* The pipeline implements RenderOnce: the slot is the queue's active job.
Once == INSTANCE RenderOnce
          WITH Jobs <- JobIds, Nobody <- 0, slot <- activeJob, made <- movies
RendersOnce == Once!Spec

----------------------------------------------------------------------------
(* What remains of the exclusions that the code checks in one step and       *)
(* relies on in a later one.                                                 *)

ActiveOf(g) == {j \in Active : args[j].group = g}

\* enqueue() checks the group and inserts in two steps, and the worker brings
\* a job that was cancelled under it back to life: a group can have several
\* active jobs, but only one of each thread that enqueues and the worker's,
\* and jobs.json never holds more for the next process (RenderQueue.enqueue,
\* _run_one).
GroupOvershoot ==
  \A g \in Groups : Cardinality(ActiveOf(g)) <= Cardinality(Enqueuers) + 1

\* The poll of the queue table removes what was settled in a copy of the
\* registry.  Between the copy and the removal no such job comes back into
\* the queue, and only the one the worker runs may have come back to life: a
\* poll never drops a job that waits (RenderQueue.jobs, _prune_terminal_jobs).
PruneSpares ==
  \A c \in Clients : pc[c] = "prune" =>
    \A j \in todo[c] \cap Active :
      j = job /\ worker \in Rendering /\ jobs[j] # "queued"

Recovered == pc["startup"] \in {"idle", "ready", "stopped"}

\* The worker runs before recover() does, so it may be rendering a job of the
\* last process.  But once recover() is through, that one is the only job of
\* an earlier process that is active, and none waits to be rendered next
\* (RenderQueue.recover, start_render_pipeline).
OldJobsSettled ==
  up /\ RenderEnabled /\ Recovered =>
    \A j \in loaded \cap Active :
      j = job /\ worker \in Rendering /\ jobs[j] # "queued"

\* A chunk leaves the disk because a user discarded it, because a movie of
\* its group has been published, or from a group the startup sweep had found
\* empty: no failed render, crash or failed write lets the retention sweep,
\* which goes by rendered.json, touch an unrendered group, and no harvest
\* takes back what it saved (_retention_cleanup, _discard_empty_group).
FootageOutlives ==
  [][\A g \in Groups :
       \/ group[g].chunks \subseteq (group[g].chunks)'
       \/ \E c \in Clients : pc[c] \in {"rmtree", "unlink"} /\ req[c].group = g
       \/ \E j \in JobIds : args[j].group = g /\ movies[j] > 0
       \/ pc["startup"] = "discard" /\ req["startup"].group = g]_vars

----------------------------------------------------------------------------
(* What comments and docs state without reservation.  Each of these falls to *)
(* a race that no lock excludes, and a run shows the race.                   *)

\* A job that is done, failed or cancelled "is not live work": it stays so
\* until it is removed (RenderQueue.jobs).
TerminalIsFinal ==
  [][\A j \in Terminal : jobs'[j] \in {jobs[j], NoJob}]_vars

\* "one render per group at a time" (RenderQueue.enqueue).
OneRenderPerGroup ==
  \A j, k \in Active : args[j].group = args[k].group => j = k

\* While a job renders, jobs_active_for its group is true, which is what
\* "blocks delete" (RenderQueue.jobs_active_for).
RunningJobHoldsGroup ==
  worker \in Rendering => ActiveForGroup(args[job].group)

Reading == {"concat", "concatenating", "encode", "encoding"}

\* Discards "are refused [...] while the group is rendering": no chunk goes
\* under the job that has found it and is reading it (handle_delete_group).
SourcesKept ==
  [][\A g \in Groups :
       /\ worker \in Reading
       /\ args[job].group = g
       => Sources \cap group[g].chunks \subseteq (group[g].chunks)']_vars

\* recover() "Re-queues nothing": no job of an earlier process is rendered,
\* and so no movie appears that nobody of this process asked for.
RecoverRequeuesNothing ==
  [][RenderEnabled /\ movies' # movies => job \notin loaded]_vars

----------------------------------------------------------------------------
(* Liveness. *)

\* When the printer comes to rest, every job that holds its group as active
\* settles or leaves the registry: no lost wake-up, no ghost, no job stuck
\* behind another (_loop, _run_one, reconcile_active).
JobsSettle ==
  <>[]~printing =>
    \A j \in JobIds : jobs[j] \in ActiveJobStates
                        ~> jobs[j] \notin ActiveJobStates
=============================================================================
