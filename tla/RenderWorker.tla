---------------------------- MODULE RenderWorker ----------------------------
(* The render queue's only thread (render_queue.py: _loop, _next_runnable,   *)
(* _run_one) and the job it runs (render_worker.py: RenderWorker.run): pick  *)
(* the oldest queued job, ask the idle gate, claim it, concat, encode,       *)
(* publish the movie, tidy work/, stamp the group, settle the job.           *)
(*                                                                           *)
(* Every step that touches state other threads see (the registry, the        *)
(* claimed job and its cancel event, the files) is an action of its own.     *)
(* ffmpeg is external: it may fail at any time and leave its output behind.  *)
(* Left out: the UI notices, the output name, the thumbnail (best effort,    *)
(* nothing reads it back).                                                   *)
EXTENDS JobRegistry

CONSTANTS
  IdleOnly     \* setting render_only_when_idle

ASSUME WorkerAssumption == IdleOnly \in BOOLEAN

VARIABLES
  worker,      \* where the worker thread is
  job,         \* the job it holds, 0 for none
  activeJob,   \* _active_jobid, 0 for None
  cancelSet,   \* is the event _active_cancel set?
  stopping,    \* _stop
  work,        \* temp files in work/: <<job, kind>>
  group,       \* raw/chunks/<print-id>/
  movies,      \* movies published for each job
  printing     \* _print_active()

fileVars == <<work, group, movies>>
workerVars == <<worker, job, activeJob, cancelSet>>
heldVars == <<job, activeJob, cancelSet, stopping, printing>>

----------------------------------------------------------------------------
(* Files. *)

TempKinds == {"list", "concat", "mp4"}

\* rendered.json: none, or the age class the retention sweep sees.
Markers == {"none", "fresh", "expired"}

\* A group directory was never made, holds chunks, or is gone for good:
\* a print-id carries the minute of its print, it is not handed out again.
GroupStates == [dir: {"unmade", "there", "gone"}, chunks: SUBSET Chunks,
                marker: Markers]
Unmade == [dir |-> "unmade", chunks |-> {}, marker |-> "none"]
Gone == [dir |-> "gone", chunks |-> {}, marker |-> "none"]

There(g) == group[g].dir = "there"
TempsOf(j) == {j} \X TempKinds

----------------------------------------------------------------------------
(* Where the worker is. *)

\* From the claim to its release the queue has an active job.
Claimed == {"mark", "resolve", "concat", "concatenating", "encode",
            "encoding", "publish", "tidy_ok", "tidy_failed", "stamp",
            "settle_done", "settle_failed", "release"}

\* The encode proper: the job has been marked and not been settled yet.
Rendering == Claimed \ {"mark", "release"}

WorkerStates == {"off", "loop", "gate", "claim"} \cup Claimed

WorkerTypeOK ==
  /\ worker \in WorkerStates
  /\ job \in (IF worker \in {"off", "loop"} THEN {0} ELSE JobIds)
  /\ activeJob \in JobIds \cup {0}
  /\ cancelSet \in BOOLEAN
  /\ stopping \in BOOLEAN
  /\ work \subseteq JobIds \X TempKinds
  /\ group \in [Groups -> GroupStates]
  /\ movies \in [JobIds -> Nat]
  /\ printing \in BOOLEAN

WorkerInit ==
  /\ worker = "off"
  /\ job = 0
  /\ activeJob = 0
  /\ cancelSet = FALSE
  /\ stopping = FALSE
  /\ work = {}
  /\ group = [g \in Groups |-> Unmade]
  /\ movies = [j \in JobIds |-> 0]
  /\ printing = FALSE

Sources == args[job].chunks
SourcesThere == Sources \subseteq group[args[job].group].chunks

Goto(state) == worker' = state

----------------------------------------------------------------------------
(* Picking a job.  _next_runnable works on a copy of the registry: between   *)
(* the copy, the gate and the claim the job may change under it.             *)

Pick ==
  /\ worker = "loop" /\ ~stopping
  /\ \E j \in Queued :
       /\ \A k \in Queued : j <= k
       /\ job' = j
  /\ Goto("gate")
  /\ UNCHANGED <<activeJob, cancelSet, stopping, printing, fileVars,
                 registryVars>>

GateOpen == ~IdleOnly \/ ~printing

Gate ==
  /\ worker = "gate"
  /\ IF GateOpen THEN Goto("claim") /\ UNCHANGED job
                 ELSE Goto("loop") /\ job' = 0
  /\ UNCHANGED <<activeJob, cancelSet, stopping, printing, fileVars,
                 registryVars>>

Claim ==
  /\ worker = "claim"
  /\ activeJob' = job
  /\ cancelSet' = FALSE
  /\ Goto("mark")
  /\ UNCHANGED <<job, stopping, printing, fileVars, registryVars>>

\* Variant: the registry is told of a job only when ffmpeg reports progress.
MarkNothing ==
  /\ worker = "mark"
  /\ Goto("resolve")
  /\ UNCHANGED <<heldVars, fileVars, registryVars>>

Mark ==
  /\ worker = "mark"
  /\ Update(job, "concat")
  /\ Goto("resolve")
  /\ UNCHANGED <<heldVars, fileVars>>

----------------------------------------------------------------------------
(* RenderWorker.run *)

\* No ffmpeg, or a selected chunk that is not on disk: nothing to tidy yet.
Resolve ==
  /\ worker = "resolve"
  /\ \/ Goto("settle_failed")
     \/ /\ SourcesThere
        /\ Goto(IF Cardinality(Sources) = 1 THEN "encode" ELSE "concat")
  /\ UNCHANGED <<heldVars, fileVars, registryVars>>

ConcatStart ==
  /\ worker = "concat"
  /\ work' = work \cup {<<job, "list">>, <<job, "concat">>}
  /\ Update(job, "concat")
  /\ Goto("concatenating")
  /\ UNCHANGED <<heldVars, group, movies>>

\* The cancel event is looked at once ffmpeg has returned (it also makes
\* ffmpeg return), then the exit code, then the output file.
ConcatEnd ==
  /\ worker = "concatenating"
  /\ \/ Goto("tidy_failed") /\ UNCHANGED registryVars
     \/ /\ ~cancelSet
        /\ <<job, "concat">> \in work
        /\ Update(job, "concat")
        /\ Goto("encode")
  /\ UNCHANGED <<heldVars, fileVars>>

\* A lone chunk is encoded as it is, several through the concat file; ffmpeg
\* writes no output when its input is missing.
EncodeStart ==
  /\ worker = "encode"
  /\ LET readable == IF Cardinality(Sources) = 1
                       THEN SourcesThere
                       ELSE <<job, "concat">> \in work
     IN  work' = work \cup (IF readable THEN {<<job, "mp4">>} ELSE {})
  /\ Goto("encoding")
  /\ UNCHANGED <<heldVars, group, movies, registryVars>>

\* Progress lines of ffmpeg, repeated while it runs.
EncodeProgress ==
  /\ worker = "encoding"
  /\ jobs[job] # "render"
  /\ Update(job, "render")
  /\ UNCHANGED <<workerVars, stopping, printing, fileVars>>

EncodeEnd ==
  /\ worker = "encoding"
  /\ \/ Goto("tidy_failed")
     \/ /\ ~cancelSet
        /\ <<job, "mp4">> \in work
        /\ Goto("publish")
  /\ UNCHANGED <<heldVars, fileVars, registryVars>>

\* No free name, or the move fails; otherwise the temp becomes the movie.
Publish ==
  /\ worker = "publish"
  /\ \/ Goto("tidy_failed") /\ UNCHANGED <<work, movies>>
     \/ /\ <<job, "mp4">> \in work
        /\ work' = work \ {<<job, "mp4">>}
        /\ movies' = [movies EXCEPT ![job] = @ + 1]
        /\ Goto("tidy_ok")
  /\ UNCHANGED <<heldVars, group, registryVars>>

\* Variant: the temps are removed on success only.
TidySuccessOnly ==
  /\ worker \in {"tidy_ok", "tidy_failed"}
  /\ work' = IF worker = "tidy_ok" THEN work \ TempsOf(job) ELSE work
  /\ Goto(IF worker = "tidy_ok" THEN "stamp" ELSE "settle_failed")
  /\ UNCHANGED <<heldVars, group, movies, registryVars>>

\* Variant: the error does not leave run() after the cleanup.
TidySwallowsError ==
  /\ worker \in {"tidy_ok", "tidy_failed"}
  /\ work' = work \ TempsOf(job)
  /\ Goto("stamp")
  /\ UNCHANGED <<heldVars, group, movies, registryVars>>

\* The finally clause around concat, encode and publish.
Tidy ==
  /\ worker \in {"tidy_ok", "tidy_failed"}
  /\ work' = work \ TempsOf(job)
  /\ Goto(IF worker = "tidy_ok" THEN "stamp" ELSE "settle_failed")
  /\ UNCHANGED <<heldVars, group, movies, registryVars>>

\* rendered.json, best effort, only into a directory that still exists.
Stamp ==
  /\ worker = "stamp"
  /\ LET g == args[job].group
     IN  \/ UNCHANGED group
         \/ There(g) /\ group' = [group EXCEPT ![g].marker = "fresh"]
  /\ Goto("settle_done")
  /\ UNCHANGED <<heldVars, work, movies, registryVars>>

----------------------------------------------------------------------------
(* The end of _run_one. *)

FinishDone ==
  /\ worker = "settle_done"
  /\ Update(job, "done")
  /\ Goto("release")
  /\ UNCHANGED <<heldVars, fileVars>>

\* Variant: a cancelled run leaves the registry to the thread that cancelled.
FinishFailedOnly ==
  /\ worker = "settle_failed"
  /\ IF cancelSet THEN UNCHANGED registryVars ELSE Update(job, "failed")
  /\ Goto("release")
  /\ UNCHANGED <<heldVars, fileVars>>

FinishFailed ==
  /\ worker = "settle_failed"
  /\ Update(job, IF cancelSet THEN "cancelled" ELSE "failed")
  /\ Goto("release")
  /\ UNCHANGED <<heldVars, fileVars>>

Release ==
  /\ worker = "release"
  /\ activeJob' = 0
  /\ cancelSet' = FALSE
  /\ job' = 0
  /\ Goto("loop")
  /\ UNCHANGED <<stopping, printing, fileVars, registryVars>>

WorkerNext ==
  \/ Pick \/ Gate \/ Claim \/ Mark \/ Resolve
  \/ ConcatStart \/ ConcatEnd \/ EncodeStart \/ EncodeProgress \/ EncodeEnd
  \/ Publish \/ Tidy \/ Stamp \/ FinishDone \/ FinishFailed \/ Release
=============================================================================
