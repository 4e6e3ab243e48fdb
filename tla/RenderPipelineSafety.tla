------------------------ MODULE RenderPipelineSafety ------------------------
(* The safety properties of RenderPipeline, proved for every value of its    *)
(* constants.                                                                *)
(*                                                                           *)
(* None of them is inductive alone.  SafetyInv collects what they need: how  *)
(* the process and its queue come up (LifeInv), which ids are in use         *)
(* (IdsInv), and one part for each property.  To keep the proof short, every *)
(* step of a thread other than the worker that neither adds a job, nor       *)
(* builds the queue, nor starts or ends the process is shown once to be      *)
(* Quiet; each part of SafetyInv is then preserved by the Quiet steps, by    *)
(* the five that are left, and by the steps of the worker.                   *)
EXTENDS RenderPipelineProofs

BeforeQueue == {"sweep", "discard", "build"}
BeforeClear == {"sweep", "discard", "build", "clear"}
BeforeReconcile == {"sweep", "discard", "build", "clear", "reconcile"}

\* A process that is down has lost its memory, the next one starts over; the
\* queue is there once startup or a request has built it; it has an active
\* job from the claim to the release.
LifeInv ==
  /\ ~up => pc = FirstPC /\ ~Built
  /\ Past(BeforeQueue) => Built
  /\ ~Built => Enqueuing = {}
  /\ ~Built => \A j \in JobIds : jobs[j] = NoJob
  /\ activeJob = IF worker \in Claimed THEN job ELSE 0

\* Ids that were not handed out yet are nowhere in use.
IdsInv ==
  /\ job < nextId
  /\ \A j \in JobIds : j >= nextId =>
       jobs[j] = NoJob /\ saved[j] = NoJob /\ movies[j] = 0

\* The movie comes first, then the rendered marker and the job's "done".
MovieInv ==
  /\ RenderedMeansMovie
  /\ \A j \in JobIds : saved[j] = "done" => movies[j] > 0
  /\ worker \in {"tidy_ok", "stamp", "settle_done"} => movies[job] > 0

\* A job that has begun, or has made a movie, is "queued" neither in memory
\* nor on disk, so it is never picked again.
Spent(j) == jobs[j] # "queued" /\ saved[j] # "queued"

OnceInv ==
  ~DiskFaults =>
    /\ Built => saved = jobs
    /\ \A j \in JobIds : movies[j] > 0 => movies[j] = 1 /\ Spent(j)
    /\ worker \in Claimed \ {"mark"} => Spent(job)
    /\ worker \in {"gate", "claim", "mark", "resolve", "concat",
                   "concatenating", "encode", "encoding", "publish"}
         => movies[job] = 0

\* A thread that is past the count check and has not inserted its job yet
\* counts like a queued job.
Adding == {t \in Enqueuers : pc[t] = "add"}
Limit == MaxQueue + Cardinality(Enqueuers) - 1

CountInv ==
  /\ Cardinality(Queued) + Cardinality(Adding) <= Limit
  /\ Cardinality({j \in JobIds : saved[j] = "queued"}) <= Limit

SafetyInv ==
  /\ TypeOK
  /\ LifeInv /\ IdsInv
  /\ WorkIsScratch /\ NoGhostJobs
  /\ MovieInv /\ OnceInv /\ CountInv

----------------------------------------------------------------------------
(* Quiet steps. *)

\* Jobs that are in the map only settle or leave it.
Settles ==
  /\ \A j \in JobIds : jobs'[j] # jobs[j] =>
       jobs[j] # NoJob /\ jobs'[j] \in {NoJob, "failed", "cancelled"}
  /\ \/ UNCHANGED <<jobs, saved>>
     \/ saved' \in {jobs', saved} /\ (~DiskFaults => saved' = jobs')
  /\ UNCHANGED <<args, nextId>>

\* The worker, its job and the movies are left alone; no marker appears.
QuietFiles ==
  /\ UNCHANGED <<worker, job, activeJob, movies, up>>
  /\ work' \in {work, {}}
  /\ \A g \in Groups : group'[g].marker # "none" => group[g].marker # "none"

\* Startup only passes a step by doing what the step is for, and a thread
\* gets to its insertion only through the count check.
QuietThreads ==
  /\ Past(BeforeQueue)' => Past(BeforeQueue) \/ Built
  /\ Past(BeforeClear)' => Past(BeforeClear) \/ work' = {}
  /\ Past(BeforeReconcile)' => Past(BeforeReconcile) \/ Active' = {}
  /\ ~up => UNCHANGED pc
  /\ Enqueuing' \subseteq Enqueuing \/ Built
  /\ \/ Adding' \subseteq Adding
     \/ Cardinality(Active) < MaxQueue /\ UNCHANGED <<jobs, saved>>

Quiet == Settles /\ QuietFiles /\ QuietThreads

LEMMA UnchangedSettles ==
  ASSUME UNCHANGED registryVars
  PROVE  Settles
BY DEF registryVars, Settles

LEMMA UpdateSettles ==
  ASSUME RegistryTypeOK, NEW j, NEW state \in {"failed", "cancelled"},
         Update(j, state)
  PROVE  Settles
<1>1. CASE jobs[j] = NoJob
  BY <1>1 DEF Update, Settles
<1>2. CASE jobs[j] # NoJob
  BY <1>2 DEF Update, Persist, Settles, RegistryTypeOK
<1> QED BY <1>1, <1>2

LEMMA RemoveSettles ==
  ASSUME RegistryTypeOK, NEW j, Remove(j)
  PROVE  Settles
<1>1. CASE jobs[j] = NoJob
  BY <1>1 DEF Remove, Settles
<1>2. CASE jobs[j] # NoJob
  BY <1>2 DEF Remove, Persist, Settles, RegistryTypeOK
<1> QED BY <1>1, <1>2

LEMMA ReconcileSettles ==
  ASSUME RegistryTypeOK, ReconcileActive
  PROVE  Settles /\ Active' = {}
<1>1. CASE Active = {}
  BY <1>1 DEF ReconcileActive, Settles, Active
<1>2. CASE Active # {}
  <2>1. jobs' = [j \in JobIds |-> IF j \in Active THEN "failed" ELSE jobs[j]]
    BY <1>2 DEF ReconcileActive, Persist
  <2>2. Active' = {}
    BY <2>1 DEF Active, ActiveJobStates
  <2>3. Settles
    BY <1>2, <2>1 DEF ReconcileActive, Persist, Settles, Active, ActiveJobStates,
       NoJob
  <2> QED BY <2>2, <2>3
<1> QED BY <1>1, <1>2

\* The files after a step that removes groups or chunks, or ages a marker.
LEMMA GroupsQuiet ==
  ASSUME WorkerTypeOK, UNCHANGED exceptGroups, NEW g, NEW G,
         group' = [group EXCEPT ![g] = G],
         G.marker # "none" => group[g].marker # "none"
  PROVE  QuietFiles
<1>1. ASSUME NEW h \in Groups, group'[h].marker # "none"
      PROVE  group[h].marker # "none"
  BY <1>1 DEF WorkerTypeOK
<1> QED BY <1>1 DEF exceptGroups, workerVars, lifeVars, QuietFiles

LEMMA SameFilesQuiet ==
  ASSUME UNCHANGED <<worker, job, activeJob, fileVars, up>>
  PROVE  QuietFiles
BY DEF QuietFiles, fileVars

LEMMA RemoveGroupQuiet ==
  ASSUME WorkerTypeOK, UNCHANGED exceptGroups, NEW g, RemoveGroup(g)
  PROVE  QuietFiles
<1>1. CASE group' = group
  BY <1>1, SameFilesQuiet DEF exceptGroups, workerVars, fileVars, lifeVars
<1>2. ASSUME NEW left \in Remnants(g) \cup {Gone},
             group' = [group EXCEPT ![g] = left]
      PROVE  QuietFiles
  <2>1. left.marker # "none" => group[g].marker # "none"
    BY <1>2 DEF Gone, Remnants
  <2> QED BY <1>2, <2>1, GroupsQuiet
<1>3. group' = group \/ \E left \in Remnants(g) \cup {Gone} :
                           group' = [group EXCEPT ![g] = left]
  BY DEF RemoveGroup
<1> QED BY <1>1, <1>2, <1>3

LEMMA ChunksQuiet ==
  ASSUME WorkerTypeOK, UNCHANGED exceptGroups, NEW g, NEW S,
         group' = [group EXCEPT ![g].chunks = S]
  PROVE  QuietFiles
<1>1. group' = [group EXCEPT ![g] = [group[g] EXCEPT !.chunks = S]]
  OBVIOUS
<1>2. CASE g \in Groups
  <2>1. group[g] \in GroupStates
    BY <1>2 DEF WorkerTypeOK
  <2>2. [group[g] EXCEPT !.chunks = S].marker = group[g].marker
    BY <2>1 DEF GroupStates
  <2> QED BY <1>1, <2>2, GroupsQuiet
<1>3. CASE g \notin Groups
  <2>1. group' = group
    BY <1>1, <1>3 DEF WorkerTypeOK
  <2> QED BY <2>1, SameFilesQuiet DEF exceptGroups, workerVars, fileVars, lifeVars
<1> QED BY <1>2, <1>3

\* A step of a thread other than startup, to anywhere but an insertion.
LEMMA ThreadQuiet ==
  ASSUME TypeOK, NEW t \in Enqueuers \cup {"retention"},
         NEW to \in PCs \ {"add"}, Step(t, to), up, UNCHANGED up,
         to \in EnqueuePCs => pc[t] \in EnqueuePCs \/ Built
  PROVE  QuietThreads
<1>1. t \in Threads /\ t # "startup" /\ "startup" \in Threads
  BY PipelineAssumption DEF Enqueuers, Threads, Background
<1>2. pc'["startup"] = pc["startup"]
  BY <1>1 DEF Step, TypeOK, ThreadTypeOK
<1>3. pc'[t] = to /\ \A s \in Threads \ {t} : pc'[s] = pc[s]
  BY <1>1 DEF Step, TypeOK, ThreadTypeOK
<1>4. Adding' \subseteq Adding
  BY <1>3 DEF Adding, Enqueuers, Threads, Background
<1>5. Enqueuing' \subseteq Enqueuing \/ Built
  BY <1>3 DEF Enqueuing, Enqueuers, Threads, Background
<1> QED BY <1>2, <1>4, <1>5 DEF QuietThreads, Past

LEMMA ReturnQuiet ==
  ASSUME TypeOK, NEW t \in Enqueuers \cup {"retention"}, Return(t),
         up, UNCHANGED up
  PROVE  QuietThreads
<1>1. "idle" \in PCs \ {"add"} /\ "idle" \notin EnqueuePCs
  BY DEF PCs, EnqueuePCs
<1> QED BY <1>1, ThreadQuiet DEF Return

LEMMA SameThreadsQuiet ==
  ASSUME UNCHANGED <<pc, up>>
  PROVE  QuietThreads
BY DEF QuietThreads, Past, Enqueuing, Adding

LEMMA JobSetsFinite ==
  ASSUME NEW S \in SUBSET JobIds
  PROVE  IsFiniteSet(S) /\ Cardinality(S) \in Nat
<1>1. IsFiniteSet(JobIds)
  BY RegistryAssumption, FS_Interval DEF JobIds
<1> QED BY <1>1, FS_Subset, FS_CardinalityType

\* The steps of enqueue() before the insertion.
LEMMA EnqueueQuiet ==
  ASSUME TypeOK, NEW t \in Enqueuers, CheckGroup(t) \/ CheckCount(t)
  PROVE  Quiet
<1>1. UNCHANGED outsideVars /\ up
  BY DEF CheckGroup, CheckCount, At
<1>2. Settles /\ QuietFiles
  BY <1>1, UnchangedSettles, SameFilesQuiet
     DEF outsideVars, exceptRegistry, workerVars, lifeVars
<1>3. UNCHANGED <<up, jobs, saved>>
  BY <1>1 DEF outsideVars, exceptRegistry, lifeVars, registryVars
<1>4. CASE Return(t)
  BY <1>1, <1>2, <1>3, <1>4, ReturnQuiet DEF Quiet
<1>5. CASE CheckGroup(t) /\ ~Return(t)
  <2>1. Step(t, "check_count") /\ pc[t] \in EnqueuePCs
    BY <1>5 DEF CheckGroup, At, EnqueuePCs
  <2>2. "check_count" \in PCs \ {"add"}
    BY DEF PCs, EnqueuePCs
  <2> QED BY <1>1, <1>2, <1>3, <2>1, <2>2, ThreadQuiet DEF Quiet
<1>6. CASE CheckCount(t) /\ ~Return(t)
  <2>1. Step(t, "add") /\ pc[t] = "check_count" /\ ~(Cardinality(Active) >= MaxQueue)
    BY <1>6 DEF CheckCount, At
  <2>2. Cardinality(Active) < MaxQueue
    BY <2>1, JobSetsFinite, PipelineAssumption DEF Active
  <2>3. t \in Threads /\ t # "startup" /\ "startup" \in Threads
    BY PipelineAssumption DEF Enqueuers, Threads, Background
  <2>4. pc'["startup"] = pc["startup"] /\ \A s \in Threads \ {t} : pc'[s] = pc[s]
    BY <2>1, <2>3 DEF Step, TypeOK, ThreadTypeOK
  <2>5. Enqueuing' \subseteq Enqueuing
    BY <2>1, <2>4 DEF Enqueuing, Enqueuers, Threads, Background, EnqueuePCs
  <2>6. QuietThreads
    BY <1>1, <1>3, <2>2, <2>4, <2>5 DEF QuietThreads, Past
  <2> QED BY <1>2, <2>6 DEF Quiet
<1> QED BY <1>4, <1>5, <1>6

LEMMA RequestQuiet ==
  ASSUME TypeOK, NEW c \in Clients, Request(c) \/ Handler(c), ~AddJob(c)
  PROVE  Quiet
<1> USE DEF TypeOK
<1>c. c \in Enqueuers
  BY DEF Enqueuers
<1>p. {"prune", "signal", "cancel", "rmtree", "unlink", "check_group"}
        \subseteq PCs \ {"add"}
  BY DEF PCs, EnqueuePCs
<1>e. {"idle", "prune", "signal", "cancel", "rmtree", "unlink"} \cap EnqueuePCs = {}
  BY DEF EnqueuePCs
<1>o. ASSUME UNCHANGED outsideVars
      PROVE  Settles /\ QuietFiles /\ UNCHANGED up
  BY <1>o, UnchangedSettles, SameFilesQuiet
     DEF outsideVars, exceptRegistry, workerVars, lifeVars
<1>r. ASSUME UNCHANGED exceptRegistry
      PROVE  QuietFiles /\ UNCHANGED up
  BY <1>r, SameFilesQuiet DEF exceptRegistry, workerVars, lifeVars
<1>g. ASSUME UNCHANGED exceptGroups
      PROVE  Settles /\ UNCHANGED up
  BY <1>g, UnchangedSettles DEF exceptGroups, lifeVars
<1>1. CASE StartRender(c)
  BY <1>1, <1>c, <1>o, <1>p, ThreadQuiet DEF StartRender, Begin, At, Quiet
<1>2. CASE CancelRender(c)
  BY <1>2, <1>c, <1>e, <1>o, <1>p, ThreadQuiet DEF CancelRender, Begin, At, Quiet
<1>3. CASE ListRawFootage(c)
  BY <1>3, <1>c, <1>e, <1>o, <1>p, ThreadQuiet DEF ListRawFootage, Begin, At, Quiet
<1>4. CASE DeleteGroup(c)
  BY <1>4, <1>c, <1>e, <1>o, <1>p, ThreadQuiet
     DEF DeleteGroup, BeginDelete, Begin, At, Quiet
<1>5. CASE DeleteChunks(c)
  BY <1>5, <1>c, <1>e, <1>o, <1>p, ThreadQuiet
     DEF DeleteChunks, BeginDelete, Begin, At, Quiet
<1>6. CASE CheckGroup(c) \/ CheckCount(c)
  BY <1>6, <1>c, EnqueueQuiet
<1>7. CASE CancelSignal(c)
  <2>1. UNCHANGED registryVars /\ UNCHANGED <<worker, job, activeJob, fileVars, up>>
    BY <1>7 DEF CancelSignal, lifeVars
  <2>2. QuietThreads
    BY <1>7, <1>c, <1>e, <1>p, <2>1, ThreadQuiet, ReturnQuiet
       DEF CancelSignal, At
  <2> QED BY <2>1, <2>2, UnchangedSettles, SameFilesQuiet DEF Quiet
<1>8. CASE CancelMark(c)
  BY <1>8, <1>c, <1>r, UpdateSettles, ReturnQuiet DEF CancelMark, At, Quiet
<1>9. CASE Prune(c)
  <2>1. PICK j \in todo[c] : /\ Remove(j)
                             /\ Step(c, IF todo[c] = {j} THEN "idle" ELSE "prune")
    BY <1>9 DEF Prune, RemoveNext
  <2>2. "idle" \in PCs \ {"add"}
    BY DEF PCs, EnqueuePCs
  <2>3. UNCHANGED exceptRegistry /\ up
    BY <1>9 DEF Prune, RemoveNext, At
  <2>4. QuietThreads
    BY <1>c, <1>e, <1>p, <1>r, <2>1, <2>2, <2>3, ThreadQuiet
  <2> QED BY <1>r, <2>1, <2>3, <2>4, RemoveSettles DEF Quiet
<1>10. CASE DeleteTree(c)
  BY <1>10, <1>c, <1>g, RemoveGroupQuiet, ReturnQuiet DEF DeleteTree, At, Quiet
<1>11. CASE UnlinkChunks(c)
  <2>1. PICK C \in SUBSET req[c].chunks :
          group' = [group EXCEPT ![req[c].group].chunks =
                      group[req[c].group].chunks \ C]
    BY <1>11 DEF UnlinkChunks
  <2>2. QuietFiles
    BY <1>11, <2>1, ChunksQuiet DEF UnlinkChunks
  <2> QED BY <1>11, <1>c, <1>g, <2>2, ReturnQuiet DEF UnlinkChunks, At, Quiet
<1> QED
  BY <1>1, <1>2, <1>3, <1>4, <1>5, <1>6, <1>7, <1>8, <1>9, <1>10, <1>11
     DEF Request, Handler, EnqueueStep

LEMMA HarvestQuiet ==
  ASSUME TypeOK, Harvest, ~AddJob("harvest")
  PROVE  Quiet
<1> USE DEF TypeOK
<1>c. "harvest" \in Enqueuers
  BY DEF Enqueuers
<1>p. {"pull", "check_group"} \subseteq PCs \ {"add"} /\ "pull" \notin EnqueuePCs
  BY DEF PCs, EnqueuePCs
<1>g. ASSUME UNCHANGED exceptGroups
      PROVE  Settles /\ UNCHANGED up
  BY <1>g, UnchangedSettles DEF exceptGroups, lifeVars
<1>o. ASSUME UNCHANGED outsideVars
      PROVE  Settles /\ QuietFiles /\ UNCHANGED up
  BY <1>o, UnchangedSettles, SameFilesQuiet
     DEF outsideVars, exceptRegistry, workerVars, lifeVars
<1>1. CASE HarvestBegin
  <2>1. PICK g \in Groups : /\ group[g] = Unmade
                            /\ group' = [group EXCEPT ![g].dir = "there"]
    BY <1>1 DEF HarvestBegin
  <2>2. group' = [group EXCEPT ![g] = [group[g] EXCEPT !.dir = "there"]]
    BY <2>1
  <2>3. [group[g] EXCEPT !.dir = "there"].marker = "none"
    BY <2>1 DEF Unmade
  <2>4. QuietFiles
    BY <1>1, <2>2, <2>3, GroupsQuiet DEF HarvestBegin
  <2> QED BY <1>1, <1>c, <1>g, <1>p, <2>4, ThreadQuiet
          DEF HarvestBegin, Begin, At, Quiet
<1>2. CASE HarvestChunk
  <2>1. PICK c \in Chunks \ req["harvest"].chunks :
          group' = [group EXCEPT ![req["harvest"].group].chunks =
                      group[req["harvest"].group].chunks \cup {c}]
    BY <1>2 DEF HarvestChunk
  <2>2. QuietFiles
    BY <1>2, <2>1, ChunksQuiet DEF HarvestChunk
  <2> QED BY <1>2, <1>g, <2>2, SameThreadsQuiet DEF HarvestChunk, Quiet
<1>3. CASE HarvestEmpty
  BY <1>3, <1>c, <1>g, RemoveGroupQuiet, ReturnQuiet DEF HarvestEmpty, At, Quiet
<1>4. CASE HarvestKept
  BY <1>4, <1>c, <1>o, ReturnQuiet DEF HarvestKept, At, Quiet
<1>5. CASE HarvestAutoRender
  BY <1>5, <1>c, <1>o, <1>p, ThreadQuiet DEF HarvestAutoRender, At, Quiet
<1>6. CASE CheckGroup("harvest") \/ CheckCount("harvest")
  BY <1>6, <1>c, EnqueueQuiet
<1> QED BY <1>1, <1>2, <1>3, <1>4, <1>5, <1>6 DEF Harvest, EnqueueStep

LEMMA RetentionQuiet ==
  ASSUME TypeOK, Retention
  PROVE  Quiet
<1> USE DEF TypeOK
<1>p. "trash" \in PCs \ {"add"} /\ "trash" \notin EnqueuePCs
  BY DEF PCs, EnqueuePCs
<1>1. CASE RetentionCheck
  <2>1. Settles /\ QuietFiles /\ UNCHANGED up
    BY <1>1, UnchangedSettles, SameFilesQuiet
       DEF RetentionCheck, outsideVars, exceptRegistry, workerVars, lifeVars
  <2> QED BY <1>1, <1>p, <2>1, ThreadQuiet DEF RetentionCheck, Begin, At, Quiet
<1>2. CASE RetentionTrash
  <2>1. Settles /\ UNCHANGED up
    BY <1>2, UnchangedSettles DEF RetentionTrash, exceptGroups, lifeVars
  <2> QED BY <1>2, <2>1, RemoveGroupQuiet, ReturnQuiet
          DEF RetentionTrash, At, Quiet
<1> QED BY <1>1, <1>2 DEF Retention

\* The queue is built, by startup or by another thread in its place.
Building ==
  /\ up /\ ~Built
  /\ BuildQueue
  /\ UNCHANGED <<fileVars, up>>
  /\ \A t \in Enqueuers : pc'[t] = pc[t]
  /\ \/ pc'["startup"] = pc["startup"]
     \/ pc["startup"] = "build" /\ pc'["startup"] = "clear"

\* A step of startup to a place that is not one of enqueue().
LEMMA StartupStep ==
  ASSUME TypeOK, NEW to \in PCs, Step("startup", to)
  PROVE  /\ pc'["startup"] = to
         /\ \A t \in Enqueuers : pc'[t] = pc[t]
         /\ Enqueuing' = Enqueuing /\ Adding' = Adding
<1>1. "startup" \in Threads /\ "startup" \notin Enqueuers /\ Enqueuers \subseteq Threads
  BY PipelineAssumption DEF Threads, Background, Enqueuers
<1> QED BY <1>1 DEF Step, TypeOK, ThreadTypeOK, Enqueuing, Adding

LEMMA StartupQuiet ==
  ASSUME TypeOK, LifeInv, Startup
  PROVE  Quiet \/ Building
<1> USE DEF TypeOK
<1>p. {"sweep", "discard", "build", "clear", "reconcile", "orphans", "drop",
       "ready"} \subseteq PCs
  BY DEF PCs
<1>r. ASSUME UNCHANGED exceptRegistry
      PROVE  QuietFiles /\ UNCHANGED up
  BY <1>r, SameFilesQuiet DEF exceptRegistry, workerVars, lifeVars
<1>1. CASE SweepFind
  <2>1. Settles /\ UNCHANGED exceptRegistry
    BY <1>1, UnchangedSettles DEF SweepFind, outsideVars
  <2>2. QuietThreads
    BY <1>1, <1>p, <1>r, <2>1, StartupStep
       DEF SweepFind, At, QuietThreads, Past, BeforeQueue, BeforeClear,
           BeforeReconcile
  <2> QED BY <1>r, <2>1, <2>2 DEF Quiet
<1>d. CASE SweepDiscard
  <2>1. Settles /\ QuietFiles /\ UNCHANGED up
    BY <1>d, UnchangedSettles, RemoveGroupQuiet
       DEF SweepDiscard, exceptGroups, lifeVars
  <2>2. PICK to \in {"sweep", "build"} : Step("startup", to)
    BY <1>d DEF SweepDiscard
  <2>3. QuietThreads
    BY <1>d, <1>p, <2>1, <2>2, StartupStep
       DEF SweepDiscard, At, QuietThreads, Past, BeforeQueue, BeforeClear,
           BeforeReconcile
  <2> QED BY <2>1, <2>3 DEF Quiet
<1>o. CASE SweepOver
  <2>1. Settles /\ UNCHANGED exceptRegistry
    BY <1>o, UnchangedSettles DEF SweepOver, outsideVars
  <2>2. QuietThreads
    BY <1>o, <1>p, <1>r, <2>1, StartupStep
       DEF SweepOver, At, QuietThreads, Past, BeforeQueue, BeforeClear,
           BeforeReconcile
  <2> QED BY <1>r, <2>1, <2>2 DEF Quiet
<1>2. CASE StartupBuild
  <2>1. up /\ UNCHANGED <<up, fileVars>> /\ pc["startup"] = "build"
    BY <1>2 DEF StartupBuild, At
  <2>2. Step("startup", "clear")
    BY <1>2 DEF StartupBuild
  <2>3. CASE Built
    <3>1. Settles /\ QuietFiles
      BY <1>2, <2>1, <2>3, UnchangedSettles, SameFilesQuiet
         DEF StartupBuild, workerVars
    <3>2. QuietThreads
      BY <1>p, <2>1, <2>2, <2>3, StartupStep
         DEF QuietThreads, Past, BeforeQueue, BeforeClear, BeforeReconcile
    <3> QED BY <3>1, <3>2 DEF Quiet
  <2>4. CASE ~Built
    BY <1>2, <1>p, <2>1, <2>2, <2>4, StartupStep DEF StartupBuild, Building
  <2> QED BY <2>3, <2>4
<1>3. CASE ClearWork
  <2>1. Settles /\ QuietFiles
    BY <1>3, UnchangedSettles DEF ClearWork, workerVars, lifeVars, QuietFiles
  <2>2. QuietThreads
    BY <1>3, <1>p, StartupStep
       DEF ClearWork, At, QuietThreads, Past, lifeVars, BeforeQueue, BeforeClear,
           BeforeReconcile
  <2> QED BY <2>1, <2>2 DEF Quiet
<1>4. CASE Reconcile
  <2>1. Settles /\ Active' = {}
    BY <1>4, ReconcileSettles DEF Reconcile
  <2>2. QuietThreads
    BY <1>4, <1>p, <1>r, <2>1, StartupStep
       DEF Reconcile, At, QuietThreads, Past, BeforeQueue, BeforeClear,
           BeforeReconcile
  <2> QED BY <1>4, <1>r, <2>1, <2>2 DEF Reconcile, Quiet
<1>5. CASE FindOrphans
  <2>1. PICK to \in {"ready", "drop"} : Step("startup", to)
    BY <1>5 DEF FindOrphans
  <2>2. Settles /\ UNCHANGED exceptRegistry
    BY <1>5, UnchangedSettles DEF FindOrphans, outsideVars
  <2>3. QuietThreads
    BY <1>5, <1>p, <1>r, <2>1, <2>2, StartupStep
       DEF FindOrphans, At, QuietThreads, Past, BeforeQueue, BeforeClear,
           BeforeReconcile
  <2> QED BY <1>r, <2>2, <2>3 DEF Quiet
<1>6. CASE DropOrphan
  <2>1. PICK j \in todo["startup"] :
          /\ Remove(j)
          /\ Step("startup", IF todo["startup"] = {j} THEN "ready" ELSE "drop")
    BY <1>6 DEF DropOrphan, RemoveNext
  <2>2. PICK to \in {"ready", "drop"} : Step("startup", to)
    BY <2>1
  <2>3. UNCHANGED exceptRegistry
    BY <1>6 DEF DropOrphan, RemoveNext
  <2>4. QuietThreads
    BY <1>6, <1>p, <1>r, <2>2, <2>3, StartupStep
       DEF DropOrphan, RemoveNext, At, QuietThreads, Past, BeforeQueue,
           BeforeClear, BeforeReconcile
  <2> QED BY <1>r, <2>1, <2>3, <2>4, RemoveSettles DEF Quiet
<1>7. ASSUME NEW t \in Enqueuers, FirstUse(t) PROVE Building
  BY <1>7 DEF FirstUse, At, Building, threadVars
<1> QED
  BY <1>1, <1>d, <1>o, <1>2, <1>3, <1>4, <1>5, <1>6, <1>7 DEF Startup

LEMMA EnvironmentQuiet ==
  ASSUME TypeOK, Environment
  PROVE  Quiet \/ Die \/ Boot
<1> USE DEF TypeOK
<1>1. CASE PrintStateChanges
  <2>1. UNCHANGED <<pc, registryVars, worker, job, activeJob, fileVars, up>>
    BY <1>1 DEF PrintStateChanges, threadVars, workerVars, lifeVars
  <2> QED BY <2>1, UnchangedSettles, SameFilesQuiet, SameThreadsQuiet DEF Quiet
<1>3. CASE Shutdown
  <2>1. UNCHANGED <<registryVars, worker, job, activeJob, fileVars, up>> /\ up
    BY <1>3 DEF Shutdown, lifeVars
  <2>2. PICK to \in PCs : Step("startup", to)
                       /\ (to = pc["startup"] \/ pc["startup"] = "ready")
    <3>1. "startup" \in Threads /\ "stopped" \in PCs
      BY DEF Threads, Background, PCs
    <3> QED BY <1>3, <3>1 DEF Shutdown, Step, ThreadTypeOK
  <2>3. QuietThreads
    BY <2>1, <2>2, StartupStep
       DEF QuietThreads, Past, BeforeQueue, BeforeClear, BeforeReconcile
  <2> QED BY <2>1, <2>3, UnchangedSettles, SameFilesQuiet DEF Quiet
<1>2. ASSUME NEW g \in Groups, MarkerExpires(g) PROVE Quiet
  <2>1. group' = [group EXCEPT ![g] = [group[g] EXCEPT !.marker = "expired"]]
    BY <1>2 DEF MarkerExpires
  <2>2. group[g].marker # "none"
    BY <1>2 DEF MarkerExpires
  <2>3. QuietFiles
    BY <1>2, <2>1, <2>2, GroupsQuiet DEF MarkerExpires
  <2>4. Settles /\ QuietThreads
    BY <1>2, UnchangedSettles, SameThreadsQuiet
       DEF MarkerExpires, threadVars, exceptGroups, lifeVars
  <2> QED BY <2>3, <2>4 DEF Quiet
<1> QED BY <1>1, <1>2, <1>3 DEF Environment

\* The steps of the system, sorted by what they may do to the invariants.
LEMMA Steps ==
  ASSUME TypeOK, LifeInv, [Next]_vars
  PROVE  \/ Worker \/ Quiet \/ Building \/ Die \/ Boot
         \/ \E t \in Enqueuers : AddJob(t)
<1>1. CASE UNCHANGED vars
  <2>1. /\ UNCHANGED <<pc, registryVars, worker, job, activeJob, fileVars, up>>
    BY <1>1 DEF vars, threadVars, outsideVars, exceptRegistry, workerVars, lifeVars
  <2> QED BY <2>1, UnchangedSettles, SameFilesQuiet, SameThreadsQuiet DEF Quiet
<1> QED
  BY <1>1, RequestQuiet, HarvestQuiet, StartupQuiet, RetentionQuiet,
     EnvironmentQuiet DEF Next, Enqueuers

----------------------------------------------------------------------------
(* What the other steps write. *)

LEMMA UpdateWrites ==
  ASSUME RegistryTypeOK, NEW j \in JobIds, NEW state, Update(j, state)
  PROVE  /\ \A k \in JobIds \ {j} : jobs'[k] = jobs[k]
         /\ jobs'[j] = IF jobs[j] = NoJob THEN NoJob ELSE state
         /\ saved' = saved \/ saved' = jobs'
         /\ ~DiskFaults /\ saved = jobs => saved' = jobs'
         /\ UNCHANGED <<args, nextId>>
<1>1. CASE jobs[j] = NoJob
  BY <1>1 DEF Update
<1>2. CASE jobs[j] # NoJob
  BY <1>2 DEF Update, Persist, RegistryTypeOK
<1> QED BY <1>1, <1>2

LEMMA AddWrites ==
  ASSUME TypeOK, NEW t \in Enqueuers, AddJob(t)
  PROVE  /\ up /\ pc[t] = "add" /\ nextId \in JobIds
         /\ jobs' = [jobs EXCEPT ![nextId] = "queued"]
         /\ args' = [args EXCEPT ![nextId] = req[t]]
         /\ saved' = saved \/ saved' = jobs'
         /\ ~DiskFaults => saved' = jobs'
         /\ nextId' = nextId + 1
         /\ pc' = [pc EXCEPT ![t] = "idle"]
         /\ pc'["startup"] = pc["startup"]
         /\ UNCHANGED <<worker, job, activeJob, movies, work, group, up>>
<1>1. t \in Threads /\ t # "startup" /\ "startup" \in Threads
  BY PipelineAssumption DEF Enqueuers, Threads, Background
<1> QED BY <1>1 DEF AddJob, At, Add, Persist, Return, Step, exceptRegistry,
                workerVars, fileVars, lifeVars, TypeOK, ThreadTypeOK

\* The worker's steps: it stays on, and only writes the job it holds.
LEMMA WorkerWrites ==
  ASSUME TypeOK, Worker
  PROVE  /\ up /\ Built /\ Built' /\ UNCHANGED <<pc, up, args, nextId>>
         /\ \/ UNCHANGED registryVars
            \/ /\ job \in JobIds /\ UNCHANGED job
               /\ \E state \in {"concat", "render", "done", "failed",
                                "cancelled"} : Update(job, state)
<1> USE DEF TypeOK, WorkerTypeOK, heldVars, Goto, Built, registryVars
<1>1. up /\ UNCHANGED <<pc, up>>
  BY DEF Worker, threadVars, lifeVars
<1>2. CASE \/ Pick \/ Gate \/ Claim \/ Resolve \/ EncodeStart \/ EncodeEnd
           \/ Publish \/ Tidy \/ Stamp \/ Release
  BY <1>1, <1>2 DEF Pick, Gate, Claim, Resolve, EncodeStart, EncodeEnd, Publish,
     Tidy, Stamp, Release
<1>3. CASE Mark \/ ConcatStart
  BY <1>1, <1>3 DEF Mark, ConcatStart, Update
<1>4. CASE ConcatEnd
  BY <1>1, <1>4 DEF ConcatEnd, Update
<1>5. CASE EncodeProgress
  BY <1>1, <1>5 DEF EncodeProgress, workerVars, Update
<1>6. CASE FinishDone \/ FinishFailed
  BY <1>1, <1>6 DEF FinishDone, FinishFailed, Update
<1> QED BY <1>2, <1>3, <1>4, <1>5, <1>6 DEF Worker, WorkerNext

----------------------------------------------------------------------------
(* Each part of SafetyInv is preserved. *)

LEMMA LifePreserved ==
  ASSUME TypeOK, TypeOK', LifeInv, [Next]_vars
  PROVE  LifeInv'
<1> USE DEF LifeInv, Past
<1>1. CASE Worker
  <2>1. (activeJob = IF worker \in Claimed THEN job ELSE 0)'
    <3> USE DEF heldVars, Goto, Claimed
    <3>1. CASE Pick \/ Gate \/ Claim \/ Mark \/ Resolve \/ ConcatStart
      BY <3>1 DEF Pick, Gate, Claim, Mark, Resolve, ConcatStart
    <3>2. CASE ConcatEnd \/ EncodeStart \/ EncodeEnd \/ EncodeProgress
      BY <3>2 DEF ConcatEnd, EncodeStart, EncodeEnd, EncodeProgress, workerVars
    <3>3. CASE Publish \/ Tidy \/ Stamp \/ FinishDone \/ FinishFailed \/ Release
      BY <3>3 DEF Publish, Tidy, Stamp, FinishDone, FinishFailed, Release
    <3> QED BY <1>1, <3>1, <3>2, <3>3 DEF Worker, WorkerNext
  <2> QED BY <1>1, <2>1, WorkerWrites DEF Built
<1>2. CASE Quiet
  <2>1. worker' = worker /\ job' = job /\ activeJob' = activeJob /\ up' = up
    BY <1>2 DEF Quiet, QuietFiles
  <2>2. Built' = Built
    BY <2>1 DEF Built
  <2>3. ~Built => \A j \in JobIds : jobs'[j] = NoJob
    BY <1>2 DEF Quiet, Settles
  <2> QED BY <1>2, <2>1, <2>2, <2>3 DEF Quiet, QuietThreads, FirstPC
<1>3. CASE Building
  <2>1. worker' = "loop" /\ UNCHANGED <<up, activeJob, job>>
    BY <1>3 DEF Building, BuildQueue, Goto
  <2> QED BY <1>3, <2>1 DEF Building, Built, Claimed
<1>4. CASE Die
  <2>1. Enqueuing' = {}
    BY <1>4, PipelineAssumption
       DEF Die, Enqueuing, FirstPC, EnqueuePCs, Enqueuers, Threads, Background
  <2> QED BY <1>4, <2>1 DEF Die, Built, Claimed, FirstPC
<1>5. CASE Boot
  <2>1. UNCHANGED <<pc, worker, jobs, job, activeJob>>
    BY <1>5 DEF Boot, threadVars, registryVars, workerVars
  <2>2. RenderEnabled => pc'["startup"] = "sweep"
    BY <1>5, <2>1 DEF Boot, FirstPC, Threads, Background
  <2> QED BY <1>5, <2>1, <2>2 DEF Boot, Built, Enqueuing, BeforeQueue
<1>6. ASSUME NEW t \in Enqueuers, AddJob(t) PROVE LifeInv'
  <2>1. t \in Enqueuing /\ Built /\ up
    BY <1>6, AddWrites DEF Enqueuing, EnqueuePCs
  <2> QED BY <1>6, <2>1, AddWrites DEF Built
<1> QED BY <1>1, <1>2, <1>3, <1>4, <1>5, <1>6, Steps

LEMMA IdsPreserved ==
  ASSUME TypeOK, TypeOK', LifeInv, IdsInv, [Next]_vars
  PROVE  IdsInv'
<1> USE DEF IdsInv, TypeOK, RegistryTypeOK, JobIds
<1>1. CASE Worker
  <2>1. job' < nextId'
    <3>1. nextId' = nextId
      BY <1>1, WorkerWrites
    <3>2. CASE Pick
      <4>1. job' \in JobIds /\ jobs[job'] # NoJob
        BY <3>2 DEF Pick, Queued, NoJob
      <4> QED BY <3>1, <4>1
    <3>3. CASE ~Pick
      <4>1. job' \in {job, 0}
        BY <1>1, <3>3 DEF Worker, WorkerNext, Gate, Claim, Mark, Resolve,
           ConcatStart, ConcatEnd, EncodeStart, EncodeProgress, EncodeEnd,
           Publish, Tidy, Stamp, FinishDone, FinishFailed, Release, heldVars,
           workerVars
      <4> QED BY <3>1, <4>1
    <3> QED BY <3>2, <3>3
  <2>2. ASSUME NEW j \in JobIds, j >= nextId
        PROVE  jobs'[j] = NoJob /\ saved'[j] = NoJob
    <3>1. CASE UNCHANGED registryVars
      BY <2>2, <3>1 DEF registryVars
    <3>2. CASE ~UNCHANGED registryVars
      BY <1>1, <2>2, <3>2, WorkerWrites, UpdateWrites
    <3> QED BY <3>1, <3>2
  <2>3. ASSUME NEW j \in JobIds, j >= nextId
        PROVE  movies'[j] = 0
    BY <1>1, <2>3 DEF Worker, WorkerNext, Pick, Gate, Claim, Mark, Resolve,
       ConcatStart, ConcatEnd, EncodeStart, EncodeProgress, EncodeEnd, Publish,
       Tidy, Stamp, FinishDone, FinishFailed, Release, fileVars, WorkerTypeOK
  <2> QED BY <1>1, <2>1, <2>2, <2>3, WorkerWrites
<1>2. CASE Quiet
  BY <1>2 DEF Quiet, QuietFiles, Settles
<1>3. CASE Building
  BY <1>3 DEF Building, BuildQueue, Load, fileVars
<1>4. CASE Die
  BY <1>4 DEF Die, fileVars
<1>5. CASE Boot
  BY <1>5 DEF Boot, registryVars, workerVars, fileVars
<1>6. ASSUME NEW t \in Enqueuers, AddJob(t) PROVE IdsInv'
  <2>1. \A j \in JobIds : j >= nextId' => jobs'[j] = jobs[j]
    BY <1>6, AddWrites
  <2> QED BY <1>6, <2>1, AddWrites DEF WorkerTypeOK
<1> QED BY <1>1, <1>2, <1>3, <1>4, <1>5, <1>6, Steps

LEMMA ScratchPreserved ==
  ASSUME TypeOK, TypeOK', LifeInv, WorkIsScratch, [Next]_vars
  PROVE  WorkIsScratch'
<1> USE DEF WorkIsScratch, Past, HoldingTemps, BeforeClear
<1>1. CASE Worker
  <2> USE DEF heldVars, fileVars, Goto, TempsOf, TempKinds
  <2>1. UNCHANGED <<pc, up>>
    BY <1>1, WorkerWrites
  <2>2. CASE Pick \/ Gate \/ Claim \/ Mark \/ Resolve \/ ConcatStart
    BY <2>1, <2>2 DEF Pick, Gate, Claim, Mark, Resolve, ConcatStart
  <2>3. CASE ConcatEnd \/ EncodeStart \/ EncodeEnd \/ EncodeProgress
    BY <2>1, <2>3 DEF ConcatEnd, EncodeStart, EncodeEnd, EncodeProgress, workerVars
  <2>4. CASE Publish \/ Tidy \/ Stamp \/ FinishDone \/ FinishFailed \/ Release
    BY <2>1, <2>4 DEF Publish, Tidy, Stamp, FinishDone, FinishFailed, Release
  <2> QED BY <1>1, <2>2, <2>3, <2>4 DEF Worker, WorkerNext
<1>2. CASE Quiet
  <2>1. UNCHANGED <<worker, job>> /\ work' \in {work, {}}
    BY <1>2 DEF Quiet, QuietFiles
  <2>2. Past(BeforeClear)' => Past(BeforeClear) \/ work' = {}
    BY <1>2 DEF Quiet, QuietThreads
  <2> QED BY <2>1, <2>2
<1>3. CASE Building
  BY <1>3 DEF Building, LifeInv, BeforeQueue
<1>4. CASE Die
  BY <1>4 DEF Die
<1>5. CASE Boot
  BY <1>5 DEF Boot, threadVars, LifeInv, FirstPC, Threads, Background
<1>6. ASSUME NEW t \in Enqueuers, AddJob(t) PROVE WorkIsScratch'
  BY <1>6, AddWrites
<1> QED BY <1>1, <1>2, <1>3, <1>4, <1>5, <1>6, Steps

LEMMA GhostsPreserved ==
  ASSUME TypeOK, TypeOK', LifeInv, IdsInv, NoGhostJobs, [Next]_vars
  PROVE  NoGhostJobs'
<1> USE DEF NoGhostJobs, Past, BeforeReconcile
<1>1. CASE Worker
  <2> USE DEF heldVars, Goto, Rendering, Claimed
  <2>1. UNCHANGED <<pc, up>>
    BY <1>1, WorkerWrites
  <2>u. ASSUME NEW state, Update(job, state), job \in JobIds
        PROVE  /\ \A k \in JobIds \ {job} : jobs'[k] = jobs[k]
               /\ jobs'[job] \in {NoJob, state}
    BY <2>u, UpdateWrites DEF TypeOK
  <2>t. WorkerTypeOK
    BY DEF TypeOK
  <2>2. CASE Pick \/ Gate \/ Claim \/ Resolve \/ Release
    BY <2>1, <2>2 DEF Pick, Gate, Claim, Resolve, Release, registryVars
  <2>3. CASE Mark \/ ConcatStart \/ ConcatEnd \/ EncodeProgress
    BY <2>1, <2>3, <2>u, <2>t
       DEF Mark, ConcatStart, ConcatEnd, EncodeProgress, workerVars,
           registryVars, WorkerTypeOK
  <2>4. CASE EncodeStart \/ EncodeEnd \/ Publish \/ Tidy \/ Stamp
    BY <2>1, <2>4 DEF EncodeStart, EncodeEnd, Publish, Tidy, Stamp, registryVars
  <2>5. CASE FinishDone \/ FinishFailed
    BY <2>1, <2>5, <2>u, <2>t DEF FinishDone, FinishFailed, WorkerTypeOK, NoJob
  <2> QED BY <1>1, <2>2, <2>3, <2>4, <2>5 DEF Worker, WorkerNext
<1>2. CASE Quiet
  <2>1. UNCHANGED <<worker, job>>
    BY <1>2 DEF Quiet, QuietFiles
  <2>2. \A j \in JobIds :
          jobs'[j] # jobs[j] => jobs'[j] \in {NoJob, "failed", "cancelled"}
    BY <1>2 DEF Quiet, Settles
  <2>3. Past(BeforeReconcile)' => Past(BeforeReconcile) \/ Active' = {}
    BY <1>2 DEF Quiet, QuietThreads
  <2>4. Active' = {} => \A j \in JobIds : jobs'[j] \notin {"concat", "render"}
    BY DEF Active, ActiveJobStates
  <2> QED BY <2>1, <2>2, <2>3, <2>4 DEF NoJob
<1>3. CASE Building
  BY <1>3 DEF Building, LifeInv, BeforeQueue
<1>4. CASE Die
  BY <1>4 DEF Die
<1>5. CASE Boot
  BY <1>5 DEF Boot, threadVars, LifeInv, FirstPC, Threads, Background
<1>6. ASSUME NEW t \in Enqueuers, AddJob(t) PROVE NoGhostJobs'
  BY <1>6, AddWrites DEF TypeOK, RegistryTypeOK
<1> QED BY <1>1, <1>2, <1>3, <1>4, <1>5, <1>6, Steps

LEMMA MoviePreserved ==
  ASSUME TypeOK, TypeOK', LifeInv, IdsInv, MovieInv, [Next]_vars
  PROVE  MovieInv'
<1> USE DEF MovieInv, RenderedMeansMovie
<1>1. CASE Worker
  <2> USE DEF heldVars, fileVars, Goto
  <2>1. UNCHANGED <<args, nextId>>
    BY <1>1, WorkerWrites
  <2>2. worker \notin {"off", "loop"} => job \in JobIds
    BY DEF TypeOK, WorkerTypeOK
  <2>3. movies \in [JobIds -> Nat]
    BY DEF TypeOK, WorkerTypeOK
  <2>u. ASSUME NEW state, Update(job, state), job \in JobIds, state = "done" => movies[job] > 0,
               UNCHANGED movies
        PROVE  \A j \in JobIds : /\ jobs'[j] = "done" => movies'[j] > 0
                                 /\ saved'[j] = "done" => movies'[j] > 0
    BY <2>u, UpdateWrites DEF TypeOK, NoJob
  <2>4. CASE \/ Pick \/ Gate \/ Claim \/ Resolve \/ EncodeStart \/ EncodeEnd
             \/ Tidy \/ Release
    BY <2>1, <2>4 DEF Pick, Gate, Claim, Resolve, EncodeStart, EncodeEnd, Tidy,
       Release, registryVars
  <2>5. CASE Mark \/ ConcatStart \/ ConcatEnd \/ EncodeProgress
    <3>1. \A j \in JobIds : /\ jobs'[j] = "done" => movies'[j] > 0
                            /\ saved'[j] = "done" => movies'[j] > 0
      BY <2>2, <2>5, <2>u
         DEF Mark, ConcatStart, ConcatEnd, EncodeProgress, registryVars
    <3>2. UNCHANGED <<group, movies, job>>
      BY <2>5 DEF Mark, ConcatStart, ConcatEnd, EncodeProgress, workerVars
    <3>3. worker' \notin {"tidy_ok", "stamp", "settle_done"}
      BY <2>5 DEF Mark, ConcatStart, ConcatEnd, EncodeProgress, workerVars
    <3> QED BY <2>1, <3>1, <3>2, <3>3
  <2>6. CASE Publish
    <3>1. UNCHANGED <<registryVars, group, job>>
      BY <2>6 DEF Publish
    <3>2. \A j \in JobIds : movies[j] > 0 => movies'[j] > 0
      BY <2>2, <2>3, <2>6 DEF Publish
    <3>3. worker' # "tidy_failed" => movies'[job] > 0
      BY <2>2, <2>3, <2>6 DEF Publish
    <3>4. worker' \in {"tidy_failed", "tidy_ok"}
      BY <2>6 DEF Publish
    <3> QED BY <3>1, <3>2, <3>3, <3>4 DEF registryVars
  <2>7. CASE Stamp
    <3>1. UNCHANGED <<registryVars, movies, job>> /\ worker' = "settle_done"
      BY <2>7 DEF Stamp
    <3>2. movies[job] > 0 /\ job \in JobIds
      BY <2>2, <2>7 DEF Stamp
    <3>3. \A g \in Groups : group'[g].marker # "none" =>
            group[g].marker # "none" \/ g = args[job].group
      <4>1. CASE group' = group
        BY <4>1
      <4>2. CASE group' # group
        <5>1. group' = [group EXCEPT ![args[job].group] =
                          [group[args[job].group] EXCEPT !.marker = "fresh"]]
          BY <2>7, <4>2 DEF Stamp
        <5> QED BY <5>1 DEF TypeOK, WorkerTypeOK
      <4> QED BY <4>1, <4>2
    <3> QED BY <3>1, <3>2, <3>3 DEF registryVars
  <2>8. CASE FinishDone \/ FinishFailed
    <3>1. \A j \in JobIds : /\ jobs'[j] = "done" => movies'[j] > 0
                            /\ saved'[j] = "done" => movies'[j] > 0
      BY <2>2, <2>8, <2>u DEF FinishDone, FinishFailed
    <3> QED BY <2>1, <2>8, <3>1 DEF FinishDone, FinishFailed
  <2> QED BY <1>1, <2>4, <2>5, <2>6, <2>7, <2>8 DEF Worker, WorkerNext
<1>2. CASE Quiet
  <2>1. UNCHANGED <<worker, job, movies, args>>
    BY <1>2 DEF Quiet, QuietFiles, Settles
  <2>2. \A g \in Groups : group'[g].marker # "none" => group[g].marker # "none"
    BY <1>2 DEF Quiet, QuietFiles
  <2>3. \A j \in JobIds : jobs'[j] = "done" => jobs[j] = "done"
    BY <1>2 DEF Quiet, Settles, NoJob
  <2>4. saved' = saved \/ saved' = jobs'
    BY <1>2 DEF Quiet, Settles
  <2> QED BY <2>1, <2>2, <2>3, <2>4
<1>3. CASE Building
  BY <1>3 DEF Building, BuildQueue, Load, Goto, fileVars
<1>4. CASE Die
  BY <1>4 DEF Die, fileVars, NoJob
<1>5. CASE Boot
  BY <1>5 DEF Boot, registryVars, workerVars, fileVars
<1>6. ASSUME NEW t \in Enqueuers, AddJob(t) PROVE MovieInv'
  <2>1. \A j \in JobIds : jobs'[j] = "done" => jobs[j] = "done"
    BY <1>6, AddWrites DEF TypeOK, RegistryTypeOK
  <2>2. \A j \in JobIds : movies[j] > 0 => args'[j] = args[j]
    <3>1. movies[nextId] = 0
      BY <1>6, AddWrites DEF IdsInv, TypeOK, RegistryTypeOK, JobIds
    <3> QED BY <1>6, <3>1, AddWrites DEF TypeOK, RegistryTypeOK
  <2>3. UNCHANGED <<worker, job, group, movies>>
    BY <1>6, AddWrites
  <2>4. saved' = saved \/ saved' = jobs'
    BY <1>6, AddWrites
  <2> QED BY <2>1, <2>2, <2>3, <2>4
<1> QED BY <1>1, <1>2, <1>3, <1>4, <1>5, <1>6, Steps

LEMMA OncePreserved ==
  ASSUME TypeOK, TypeOK', LifeInv, IdsInv, OnceInv, [Next]_vars
  PROVE  OnceInv'
<1> SUFFICES ASSUME ~DiskFaults
             PROVE  OnceInv'
  BY DEF OnceInv
<1> USE DEF OnceInv, Spent
<1>1. CASE Worker
  <2> USE DEF heldVars, fileVars, Goto, Claimed
  <2>1. Built /\ Built'
    BY <1>1, WorkerWrites
  <2>2. worker \notin {"off", "loop"} => job \in JobIds
    BY DEF TypeOK, WorkerTypeOK
  <2>3. movies \in [JobIds -> Nat]
    BY DEF TypeOK, WorkerTypeOK
  <2>4. saved' = jobs'
    <3>1. CASE UNCHANGED registryVars
      BY <2>1, <3>1 DEF registryVars
    <3>2. CASE ~UNCHANGED registryVars
      BY <1>1, <2>1, <3>2, WorkerWrites, UpdateWrites DEF TypeOK
    <3> QED BY <3>1, <3>2
  <2>5. \A j \in JobIds : Spent(j) => Spent(j)'
    <3>1. CASE UNCHANGED registryVars
      BY <3>1 DEF registryVars
    <3>2. CASE ~UNCHANGED registryVars
      BY <1>1, <2>4, <3>2, WorkerWrites, UpdateWrites DEF TypeOK, NoJob
    <3> QED BY <3>1, <3>2
  <2>6. CASE Pick
    <3>1. job' \in JobIds /\ jobs[job'] = "queued"
      BY <2>6 DEF Pick, Queued
    <3>2. movies[job'] = 0
      BY <2>3, <3>1
    <3> QED BY <2>4, <2>5, <2>6, <3>2 DEF Pick
  <2>7. CASE Gate \/ Claim \/ Release
    BY <2>4, <2>5, <2>7 DEF Gate, Claim, Release
  <2>8. CASE Mark
    <3>1. jobs'[job] # "queued"
      BY <2>2, <2>8, UpdateWrites DEF Mark, TypeOK, NoJob
    <3> QED BY <2>2, <2>4, <2>5, <2>8, <3>1 DEF Mark
  <2>9. CASE Resolve \/ ConcatStart \/ ConcatEnd \/ EncodeStart
    BY <2>2, <2>4, <2>5, <2>9 DEF Resolve, ConcatStart, ConcatEnd, EncodeStart
  <2>10. CASE EncodeProgress \/ EncodeEnd
    BY <2>2, <2>4, <2>5, <2>10 DEF EncodeProgress, EncodeEnd, workerVars
  <2>11. CASE Publish
    <3>1. job \in JobIds /\ movies[job] = 0 /\ Spent(job) /\ job' = job
      BY <2>2, <2>11 DEF Publish
    <3>2. movies' \in {movies, [movies EXCEPT ![job] = 1]}
      BY <2>11, <3>1 DEF Publish
    <3>3. worker' \in {"tidy_failed", "tidy_ok"}
      BY <2>11 DEF Publish
    <3> QED BY <2>2, <2>3, <2>4, <2>5, <3>1, <3>2, <3>3
  <2>12. CASE Tidy \/ Stamp \/ FinishDone \/ FinishFailed
    BY <2>2, <2>4, <2>5, <2>12 DEF Tidy, Stamp, FinishDone, FinishFailed
  <2> QED BY <1>1, <2>6, <2>7, <2>8, <2>9, <2>10, <2>11, <2>12
          DEF Worker, WorkerNext
<1>2. CASE Quiet
  <2>1. UNCHANGED <<worker, job, movies>>
    BY <1>2 DEF Quiet, QuietFiles
  <2>2. UNCHANGED <<jobs, saved>> \/ saved' = jobs'
    BY <1>2 DEF Quiet, Settles
  <2>3. \A j \in JobIds : jobs'[j] = "queued" => jobs[j] = "queued"
    BY <1>2 DEF Quiet, Settles, NoJob
  <2>4. \A j \in JobIds : Spent(j) => Spent(j)'
    BY <2>2, <2>3
  <2>5. worker \in Claimed => job \in JobIds
    BY DEF TypeOK, WorkerTypeOK, Claimed
  <2> QED BY <2>1, <2>2, <2>4, <2>5 DEF Built
<1>3. CASE Building
  <2>1. worker' = "loop" /\ saved' = saved /\ jobs' = saved /\ movies' = movies
    BY <1>3 DEF Building, BuildQueue, Load, Goto, fileVars
  <2> QED BY <2>1 DEF Claimed
<1>4. CASE Die
  <2>1. worker' = "off" /\ saved' = saved /\ movies' = movies
    BY <1>4 DEF Die, fileVars
  <2>2. \A j \in JobIds : jobs'[j] # "queued"
    BY <1>4 DEF Die, NoJob
  <2> QED BY <2>1, <2>2 DEF Claimed, Built
<1>5. CASE Boot
  BY <1>5 DEF Boot, registryVars, workerVars, fileVars, Built
<1>6. ASSUME NEW t \in Enqueuers, AddJob(t) PROVE OnceInv'
  <2>1. nextId \in JobIds /\ movies[nextId] = 0
    BY <1>6, AddWrites DEF IdsInv, TypeOK, RegistryTypeOK, JobIds
  <2>2. saved' = jobs' /\ UNCHANGED <<worker, job, movies>>
    BY <1>6, AddWrites
  <2>3. \A j \in JobIds \ {nextId} : Spent(j) => Spent(j)'
    BY <1>6, <2>2, AddWrites DEF TypeOK, RegistryTypeOK
  <2>4. worker \in Claimed => job \in JobIds \ {nextId}
    BY DEF IdsInv, TypeOK, WorkerTypeOK, RegistryTypeOK, Claimed, JobIds
  <2> QED BY <2>1, <2>2, <2>3, <2>4
<1> QED BY <1>1, <1>2, <1>3, <1>4, <1>5, <1>6, Steps

\* Fewer queued jobs and no new insertion keep the bound.
LEMMA CountShrinks ==
  ASSUME TypeOK, TypeOK', CountInv, Queued' \subseteq Queued,
         Adding' \subseteq Adding, saved' = saved \/ saved' = jobs'
  PROVE  CountInv'
<1> DEFINE Recorded == {j \in JobIds : saved[j] = "queued"}
<1>f. IsFiniteSet(Enqueuers) /\ IsFiniteSet(Adding) /\ IsFiniteSet(Queued)
  <2>1. IsFiniteSet(Enqueuers)
    BY PipelineAssumption, FS_AddElement DEF Enqueuers
  <2> QED BY <2>1, FS_Subset, JobSetsFinite DEF Adding, Queued
<1>1. /\ Cardinality(Queued') <= Cardinality(Queued)
      /\ Cardinality(Adding') <= Cardinality(Adding)
  BY <1>f, FS_Subset
<1>2. /\ Cardinality(Queued) \in Nat /\ Cardinality(Adding) \in Nat
      /\ Cardinality(Enqueuers) \in Nat
  BY <1>f, FS_CardinalityType
<1>3. Cardinality(Queued') \in Nat /\ Cardinality(Adding') \in Nat
  <2>1. IsFiniteSet(Queued') /\ IsFiniteSet(Adding')
    BY <1>f, FS_Subset
  <2> QED BY <2>1, FS_CardinalityType
<1>4. Limit' = Limit /\ Limit \in Int
  BY <1>2, PipelineAssumption DEF Limit
<1>5. Cardinality(Queued') + Cardinality(Adding') <= Limit
  BY <1>1, <1>2, <1>3, <1>4 DEF CountInv
<1>6. CASE saved' = saved
  BY <1>4, <1>5, <1>6 DEF CountInv
<1>7. CASE saved' = jobs'
  <2>1. Recorded' = Queued'
    BY <1>7 DEF Queued
  <2>2. Cardinality(Queued') <= Limit
    BY <1>3, <1>4, <1>5
  <2> QED BY <1>4, <1>5, <2>1, <2>2 DEF CountInv
<1> QED BY <1>6, <1>7

LEMMA CountPreserved ==
  ASSUME TypeOK, TypeOK', LifeInv, IdsInv, CountInv, [Next]_vars
  PROVE  CountInv'
<1>1. CASE Worker
  <2>1. UNCHANGED pc
    BY <1>1, WorkerWrites
  <2>2. Queued' \subseteq Queued /\ (saved' = saved \/ saved' = jobs')
    <3>1. CASE UNCHANGED registryVars
      BY <3>1 DEF registryVars, Queued
    <3>2. CASE ~UNCHANGED registryVars
      BY <1>1, <3>2, WorkerWrites, UpdateWrites DEF Queued, TypeOK, NoJob
    <3> QED BY <3>1, <3>2
  <2> QED BY <2>1, <2>2, CountShrinks DEF Adding
<1>2. CASE Quiet
  <2>1. Queued' \subseteq Queued /\ (saved' = saved \/ saved' = jobs')
    BY <1>2 DEF Quiet, Settles, Queued, NoJob
  <2>2. CASE Adding' \subseteq Adding
    BY <2>1, <2>2, CountShrinks
  <2>3. CASE Cardinality(Active) < MaxQueue /\ UNCHANGED <<jobs, saved>>
    <3>1. Queued \subseteq Active /\ Active \subseteq JobIds
      BY DEF Queued, Active, ActiveJobStates
    <3>2. Cardinality(Queued) <= Cardinality(Active)
      BY <3>1, FS_Subset, JobSetsFinite
    <3>3. IsFiniteSet(Enqueuers) /\ Adding' \subseteq Enqueuers
      BY PipelineAssumption, FS_AddElement DEF Enqueuers, Adding
    <3>4. /\ Cardinality(Adding') \in Nat /\ Cardinality(Enqueuers) \in Nat
          /\ Cardinality(Adding') <= Cardinality(Enqueuers)
      BY <3>3, FS_Subset, FS_CardinalityType
    <3>5. Cardinality(Queued) \in Nat /\ Cardinality(Active) \in Nat
      BY <3>1, JobSetsFinite
    <3>6. Queued' = Queued
      BY <2>3 DEF Queued
    <3>7. Cardinality(Queued) + Cardinality(Adding') <= Limit
      BY <2>3, <3>2, <3>4, <3>5, PipelineAssumption DEF Limit
    <3> QED BY <2>3, <3>6, <3>7 DEF CountInv, Limit
  <2> QED BY <1>2, <2>2, <2>3 DEF Quiet, QuietThreads
<1>3. CASE Building
  <2>1. jobs' = saved /\ saved' = saved
    BY <1>3 DEF Building, BuildQueue, Load
  <2>2. Adding' = {}
    BY <1>3 DEF Building, LifeInv, Enqueuing, EnqueuePCs, Adding
  <2>3. Queued' = {j \in JobIds : saved[j] = "queued"}
    BY <2>1 DEF Queued
  <2>4. Cardinality(Queued') \in Nat
    BY JobSetsFinite DEF Queued
  <2>5. Cardinality(Queued') + Cardinality(Adding') <= Limit
    BY <2>2, <2>3, <2>4, FS_EmptySet DEF CountInv
  <2> QED BY <2>1, <2>5 DEF CountInv, Limit
<1>4. CASE Die
  <2>1. Queued' = {} /\ saved' = saved
    BY <1>4 DEF Die, Queued, NoJob
  <2>2. Adding' = {}
    BY <1>4, PipelineAssumption
       DEF Die, Adding, FirstPC, Enqueuers, Threads, Background
  <2> QED BY <2>1, <2>2, CountShrinks
<1>5. CASE Boot
  <2>1. UNCHANGED <<jobs, saved, pc>>
    BY <1>5 DEF Boot, registryVars, threadVars
  <2> QED BY <2>1, CountShrinks DEF Queued, Adding
<1>6. ASSUME NEW t \in Enqueuers, AddJob(t) PROVE CountInv'
  <2>1. /\ IsFiniteSet(Adding) /\ Cardinality(Adding) \in Nat
        /\ IsFiniteSet(Queued) /\ Cardinality(Queued) \in Nat
        /\ Cardinality(Enqueuers) \in Nat
    <3>1. IsFiniteSet(Enqueuers)
      BY PipelineAssumption, FS_AddElement DEF Enqueuers
    <3> QED BY <3>1, FS_Subset, FS_CardinalityType, JobSetsFinite
            DEF Adding, Queued
  <2>2. Adding' = Adding \ {t} /\ t \in Adding
    <3>1. Enqueuers \subseteq Threads
      BY DEF Enqueuers, Threads, Background
    <3> QED BY <1>6, <3>1, AddWrites DEF Adding, TypeOK, ThreadTypeOK
  <2>3. Queued' = Queued \cup {nextId}
    BY <1>6, AddWrites DEF Queued, TypeOK, RegistryTypeOK
  <2>4. Cardinality(Adding') = Cardinality(Adding) - 1
    BY <2>1, <2>2, FS_RemoveElement
  <2>5. Cardinality(Queued') <= Cardinality(Queued) + 1
    <3>1. Cardinality(Queued \cup {nextId}) \in
            {Cardinality(Queued), Cardinality(Queued) + 1}
      BY <2>1, FS_AddElement
    <3> QED BY <2>1, <2>3, <3>1
  <2>6. Cardinality(Queued') \in Nat /\ Cardinality(Adding') \in Nat
    BY <2>1, <2>2, JobSetsFinite, FS_RemoveElement, FS_CardinalityType DEF Queued
  <2>7. Limit \in Int
    BY <2>1, PipelineAssumption DEF Limit
  <2>8. Cardinality(Queued') + Cardinality(Adding') <= Limit
    BY <2>1, <2>4, <2>5, <2>6, <2>7 DEF CountInv
  <2>9. Cardinality({j \in JobIds : saved'[j] = "queued"}) <= Limit
    <3>1. CASE saved' = saved
      BY <3>1 DEF CountInv
    <3>2. CASE saved' = jobs'
      <4>1. {j \in JobIds : saved'[j] = "queued"} = Queued'
        BY <3>2 DEF Queued
      <4>2. Cardinality(Queued') <= Limit
        BY <2>6, <2>7, <2>8
      <4> QED BY <4>1, <4>2
    <3> QED BY <1>6, <3>1, <3>2, AddWrites
  <2> QED BY <2>8, <2>9 DEF CountInv, Limit
<1> QED BY <1>1, <1>2, <1>3, <1>4, <1>5, <1>6, Steps

----------------------------------------------------------------------------
(* The theorems. *)

LEMMA InitSafety == Init => SafetyInv
<1> SUFFICES ASSUME Init PROVE SafetyInv
  OBVIOUS
<1> USE DEF Init, RegistryInit, WorkerInit
<1>0. TypeOK
  BY InitType
<1>1. LifeInv
  <2>1. pc["startup"] \in {"sweep", "idle"} /\ (RenderEnabled => pc["startup"] = "sweep")
    BY DEF FirstPC, Threads, Background
  <2>2. Enqueuing = {}
    BY PipelineAssumption
       DEF Enqueuing, FirstPC, EnqueuePCs, Enqueuers, Threads, Background
  <2> QED BY <2>1, <2>2 DEF LifeInv, Past, BeforeQueue, Claimed
<1>2. IdsInv
  BY DEF IdsInv
<1>3. WorkIsScratch /\ NoGhostJobs
  BY DEF WorkIsScratch, NoGhostJobs, HoldingTemps, NoJob
<1>4. MovieInv
  BY DEF MovieInv, RenderedMeansMovie, Unmade, NoJob
<1>5. OnceInv
  BY DEF OnceInv, Built, Claimed
<1>6. CountInv
  <2>1. Queued = {} /\ {j \in JobIds : saved[j] = "queued"} = {}
    BY DEF Queued, NoJob
  <2>2. Adding = {}
    BY PipelineAssumption DEF Adding, FirstPC, Enqueuers, Threads, Background
  <2>3. Cardinality(Enqueuers) \in Nat
    BY PipelineAssumption, FS_AddElement, FS_CardinalityType DEF Enqueuers
  <2>4. Limit \in Nat /\ Cardinality({}) = 0
    BY <2>3, PipelineAssumption, FS_EmptySet DEF Limit
  <2>5. /\ Cardinality(Queued) = 0 /\ Cardinality(Adding) = 0
        /\ Cardinality({j \in JobIds : saved[j] = "queued"}) = 0
    BY ONLY <2>1, <2>2, <2>4
  <2> QED BY ONLY <2>4, <2>5 DEF CountInv
<1> QED BY <1>0, <1>1, <1>2, <1>3, <1>4, <1>5, <1>6 DEF SafetyInv

LEMMA NextSafety == SafetyInv /\ [Next]_vars => SafetyInv'
<1> SUFFICES ASSUME SafetyInv, [Next]_vars PROVE SafetyInv'
  OBVIOUS
<1>1. TypeOK'
  BY NextType DEF SafetyInv
<1> QED BY <1>1, LifePreserved, IdsPreserved, ScratchPreserved, GhostsPreserved,
        MoviePreserved, OncePreserved, CountPreserved DEF SafetyInv

LEMMA AlwaysSafe == Spec => []SafetyInv
<1> QED BY InitSafety, NextSafety, PTL DEF Spec

\* Whatever crashes, fails or is cancelled, once startup has cleared work/ it
\* holds nothing but the temps of the job that is rendering.
THEOREM WorkStaysScratch == Spec => []WorkIsScratch
<1> QED BY AlwaysSafe, PTL DEF SafetyInv

\* Once startup has reconciled the registry, no job is listed as running that
\* the worker does not render.
THEOREM GhostFree == Spec => []NoGhostJobs
<1> QED BY AlwaysSafe, PTL DEF SafetyInv

\* No rendered marker and no "done" without a published movie, so the
\* retention sweep never takes footage that was not rendered.
THEOREM FootageSafe == Spec => []RenderedMeansMovie
<1>1. SafetyInv => RenderedMeansMovie
  BY DEF SafetyInv, MovieInv
<1> QED BY <1>1, AlwaysSafe, PTL

\* However many threads enqueue at once and however often the process is
\* restarted, the queue exceeds its capacity by less than their number.
THEOREM QueueBounded == Spec => []QueueBound
<1>1. SafetyInv => QueueBound
  <2> SUFFICES ASSUME SafetyInv PROVE QueueBound
    OBVIOUS
  <2>1. /\ Cardinality(Queued) \in Nat /\ Cardinality(Adding) \in Nat
        /\ Cardinality(Enqueuers) \in Nat
    <3>1. IsFiniteSet(Enqueuers)
      BY PipelineAssumption, FS_AddElement DEF Enqueuers
    <3> QED BY <3>1, FS_Subset, FS_CardinalityType, JobSetsFinite
            DEF Adding, Queued
  <2> QED BY <2>1, PipelineAssumption
          DEF SafetyInv, CountInv, QueueBound, Limit
<1> QED BY <1>1, AlwaysSafe, PTL

\* When jobs.json can be written, no job publishes two movies, across any
\* number of crashes and restarts.
THEOREM OneMovie == Spec => []PublishedOnce
<1>1. SafetyInv => PublishedOnce
  <2> SUFFICES ASSUME SafetyInv, ~DiskFaults, NEW j \in JobIds
               PROVE  movies[j] <= 1
    BY DEF PublishedOnce
  <2>1. movies[j] \in Nat
    BY DEF SafetyInv, TypeOK, WorkerTypeOK
  <2>2. movies[j] > 0 => movies[j] = 1
    BY DEF SafetyInv, OnceInv
  <2> QED BY <2>1, <2>2
<1> QED BY <1>1, AlwaysSafe, PTL

\* A step of the pipeline is a step of RenderOnce or leaves its state alone.
LEMMA StepRefines ==
  ASSUME SafetyInv, SafetyInv', [Next]_vars, ~DiskFaults
  PROVE  [Once!Next]_<<activeJob, movies>>
<1> USE DEF SafetyInv, Once!Next
<1>t. TypeOK /\ (worker \notin {"off", "loop"} => job \in JobIds)
  BY DEF TypeOK, WorkerTypeOK
<1>a. activeJob = IF worker \in Claimed THEN job ELSE 0
  BY DEF LifeInv
<1>z. 0 \notin JobIds
  BY DEF JobIds
<1>1. CASE Claim
  <2>1. activeJob = 0 /\ movies[job] = 0
    BY <1>1, <1>a DEF Claim, Claimed, OnceInv
  <2>2. Once!Take(job)
    BY <1>1, <2>1 DEF Claim, fileVars, Once!Take
  <2> QED BY <1>1, <1>t, <2>2 DEF Claim
<1>2. CASE Publish
  <2>1. activeJob = job /\ movies[job] = 0 /\ job # 0
    BY <1>2, <1>a, <1>t, <1>z DEF Publish, Claimed, OnceInv
  <2>2. CASE UNCHANGED movies
    BY <1>2, <2>2 DEF Publish, heldVars
  <2>3. CASE movies' = [movies EXCEPT ![job] = movies[job] + 1]
    BY <1>2, <2>1, <2>3 DEF Publish, heldVars, Once!Make
  <2> QED BY <1>2, <2>2, <2>3 DEF Publish
<1>3. CASE Release
  <2>1. Once!Leave
    BY <1>3, <1>a, <1>t, <1>z DEF Release, fileVars, Claimed, Once!Leave
  <2> QED BY <2>1
<1>4. CASE Worker /\ ~Claim /\ ~Publish /\ ~Release
  BY <1>4 DEF Worker, WorkerNext, Pick, Gate, Mark, Resolve, ConcatStart,
     ConcatEnd, EncodeStart, EncodeProgress, EncodeEnd, Tidy, Stamp, FinishDone,
     FinishFailed, heldVars, fileVars, workerVars
<1>5. CASE Die
  BY <1>5 DEF Die, fileVars, Once!Leave
<1>6. CASE Quiet \/ Building \/ Boot
  BY <1>6 DEF Quiet, QuietFiles, Building, BuildQueue, fileVars, Boot, workerVars
<1>7. ASSUME NEW t \in Enqueuers, AddJob(t)
      PROVE  UNCHANGED <<activeJob, movies>>
  BY <1>7, <1>t, AddWrites
<1> QED BY <1>t, <1>1, <1>2, <1>3, <1>4, <1>5, <1>6, <1>7, Steps

\* When jobs.json can be written, the pipeline implements RenderOnce: one job
\* in the slot at a time, and a job with a movie never takes it again.
THEOREM Implements == ASSUME DiskFaults = FALSE PROVE Spec => RendersOnce
<1>1. Init => Once!Init
  BY DEF Init, WorkerInit, Once!Init
<1>2. SafetyInv /\ SafetyInv' /\ [Next]_vars => [Once!Next]_<<activeJob, movies>>
  BY StepRefines
<1> QED BY <1>1, <1>2, AlwaysSafe, PTL DEF Spec, RendersOnce, Once!Spec

=============================================================================
