------------------------ MODULE RenderPipelineProofs ------------------------
(* What holds of RenderPipeline for every number of groups, chunks, jobs,    *)
(* request threads and restarts.                                             *)
EXTENDS RenderPipeline, FiniteSetTheorems, TLAPS

----------------------------------------------------------------------------
(* Types. *)

\* A registry write keeps the registry's type, whatever the disk does.
LEMMA PersistType ==
  ASSUME NEW map \in [JobIds -> JobStates], RegistryTypeOK, Persist(map)
  PROVE  jobs' \in [JobIds -> JobStates] /\ saved' \in [JobIds -> JobStates]
BY DEF Persist, RegistryTypeOK

LEMMA UpdateType ==
  ASSUME RegistryTypeOK, NEW j, NEW state \in JobStates, Update(j, state)
  PROVE  RegistryTypeOK'
<1>1. [jobs EXCEPT ![j] = state] \in [JobIds -> JobStates]
  BY DEF RegistryTypeOK
<1>2. CASE jobs[j] = NoJob
  BY <1>2 DEF Update, RegistryTypeOK
<1>3. CASE jobs[j] # NoJob
  BY <1>1, <1>3, PersistType DEF Update, RegistryTypeOK
<1> QED BY <1>2, <1>3

LEMMA RemoveType ==
  ASSUME RegistryTypeOK, NEW j, Remove(j)
  PROVE  RegistryTypeOK'
<1>1. [jobs EXCEPT ![j] = NoJob] \in [JobIds -> JobStates]
  BY DEF RegistryTypeOK, JobStates
<1>2. CASE jobs[j] = NoJob
  BY <1>2 DEF Remove, RegistryTypeOK
<1>3. CASE jobs[j] # NoJob
  BY <1>1, <1>3, PersistType DEF Remove, RegistryTypeOK
<1> QED BY <1>2, <1>3

LEMMA AddType ==
  ASSUME RegistryTypeOK, NEW sel \in Selection, Add(sel)
  PROVE  RegistryTypeOK'
<1>1. [jobs EXCEPT ![nextId] = "queued"] \in [JobIds -> JobStates]
  BY DEF RegistryTypeOK, JobStates, ActiveJobStates
<1>2. nextId + 1 \in 1..(MaxJobs + 1)
  BY RegistryAssumption DEF Add, JobIds
<1> QED BY <1>1, <1>2, PersistType DEF Add, RegistryTypeOK

LEMMA ReconcileType ==
  ASSUME RegistryTypeOK, ReconcileActive
  PROVE  RegistryTypeOK'
<1> DEFINE map == [j \in JobIds |-> IF j \in Active THEN "failed" ELSE jobs[j]]
<1>1. map \in [JobIds -> JobStates]
  BY DEF RegistryTypeOK, JobStates, TerminalJobStates
<1>2. CASE Active = {}
  BY <1>2 DEF ReconcileActive, RegistryTypeOK
<1>3. CASE Active # {}
  BY <1>1, <1>3, PersistType DEF ReconcileActive, RegistryTypeOK
<1> QED BY <1>2, <1>3

LEMMA LoadType ==
  ASSUME RegistryTypeOK, Load
  PROVE  RegistryTypeOK'
BY DEF Load, RegistryTypeOK

LEMMA WorkerStepType ==
  ASSUME TypeOK, Worker
  PROVE  TypeOK'
<1> USE DEF TypeOK, WorkerTypeOK, heldVars, Goto, WorkerStates, Claimed
<1>0. ThreadTypeOK' /\ LifeTypeOK'
  BY DEF Worker, threadVars, lifeVars, locals, ThreadTypeOK, LifeTypeOK
<1>u. ASSUME UNCHANGED registryVars PROVE RegistryTypeOK'
  BY <1>u DEF registryVars, RegistryTypeOK
<1>s. {"queued", "concat", "render", "done", "failed", "cancelled"}
        \subseteq JobStates
  BY DEF JobStates, ActiveJobStates, TerminalJobStates
<1>1. CASE Pick
  BY <1>0, <1>1, <1>u DEF Pick, Queued, fileVars
<1>2. CASE Gate
  BY <1>0, <1>2, <1>u DEF Gate, fileVars
<1>3. CASE Claim
  BY <1>0, <1>3, <1>u DEF Claim, fileVars
<1>4. CASE Mark
  BY <1>0, <1>4, <1>s, UpdateType DEF Mark, fileVars
<1>5. CASE Resolve
  BY <1>0, <1>5, <1>u DEF Resolve, fileVars
<1>6. CASE ConcatStart
  BY <1>0, <1>6, <1>s, UpdateType DEF ConcatStart, TempKinds
<1>7. CASE ConcatEnd
  BY <1>0, <1>7, <1>s, <1>u, UpdateType DEF ConcatEnd, fileVars
<1>8. CASE EncodeStart
  BY <1>0, <1>8, <1>u DEF EncodeStart, TempKinds
<1>9. CASE EncodeProgress
  BY <1>0, <1>9, <1>s, UpdateType DEF EncodeProgress, fileVars, workerVars
<1>10. CASE EncodeEnd
  BY <1>0, <1>10, <1>u DEF EncodeEnd, fileVars
<1>11. CASE Publish
  BY <1>0, <1>11, <1>u DEF Publish
<1>12. CASE Tidy
  BY <1>0, <1>12, <1>u DEF Tidy
<1>13. CASE Stamp
  BY <1>0, <1>13, <1>u DEF Stamp, GroupStates, Markers
<1>14. CASE FinishDone
  BY <1>0, <1>14, <1>s, UpdateType DEF FinishDone, fileVars
<1>15. CASE FinishFailed
  BY <1>0, <1>15, <1>s, UpdateType DEF FinishFailed, fileVars
<1>16. CASE Release
  BY <1>0, <1>16, <1>u DEF Release, fileVars
<1> QED
  BY <1>1, <1>2, <1>3, <1>4, <1>5, <1>6, <1>7, <1>8, <1>9, <1>10, <1>11,
     <1>12, <1>13, <1>14, <1>15, <1>16 DEF Worker, WorkerNext

LEMMA RegistryUnchanged ==
  ASSUME RegistryTypeOK, UNCHANGED registryVars
  PROVE  RegistryTypeOK'
BY DEF registryVars, RegistryTypeOK

LEMMA WorkerUnchanged ==
  ASSUME WorkerTypeOK, UNCHANGED <<workerVars, stopping, fileVars, printing>>
  PROVE  WorkerTypeOK'
BY DEF WorkerTypeOK, workerVars, fileVars

\* A step that writes groups only, and writes group states.
LEMMA GroupsType ==
  ASSUME RegistryTypeOK, WorkerTypeOK, LifeTypeOK, UNCHANGED exceptGroups,
         group' \in [Groups -> GroupStates]
  PROVE  RegistryTypeOK' /\ WorkerTypeOK' /\ LifeTypeOK'
BY DEF exceptGroups, registryVars, workerVars, lifeVars, RegistryTypeOK,
       WorkerTypeOK, LifeTypeOK

LEMMA RemoveGroupType ==
  ASSUME WorkerTypeOK, NEW g, RemoveGroup(g)
  PROVE  group' \in [Groups -> GroupStates]
<1>1. Gone \in GroupStates
  BY DEF Gone, GroupStates, Markers
<1>2. g \in Groups => Remnants(g) \subseteq GroupStates
  BY DEF WorkerTypeOK, Remnants, GroupStates, Markers
<1> QED BY <1>1, <1>2 DEF RemoveGroup, WorkerTypeOK

LEMMA ChunksType ==
  ASSUME WorkerTypeOK, NEW g, NEW S,
         g \in Groups => S \subseteq Chunks,
         group' = [group EXCEPT ![g].chunks = S]
  PROVE  group' \in [Groups -> GroupStates]
<1>1. ASSUME g \in Groups
      PROVE  [group[g] EXCEPT !.chunks = S] \in GroupStates
  <2>1. group[g] \in GroupStates
    BY <1>1 DEF WorkerTypeOK
  <2> QED BY <1>1, <2>1 DEF GroupStates
<1>2. group' = [group EXCEPT ![g] = [group[g] EXCEPT !.chunks = S]]
  OBVIOUS
<1> QED BY <1>1, <1>2 DEF WorkerTypeOK

LEMMA ReturnType ==
  ASSUME ThreadTypeOK, NEW t, Return(t)
  PROVE  ThreadTypeOK'
<1>1. NoSelection \in Selection /\ NoJob \in JobStates /\ "idle" \in PCs
  BY DEF NoSelection, Selection, NoJob, JobStates, PCs
<1> QED BY <1>1 DEF Return, Step, ThreadTypeOK

LEMMA StepType ==
  ASSUME ThreadTypeOK, NEW t, NEW to \in PCs, Step(t, to)
  PROVE  pc' \in [Threads -> PCs]
BY DEF Step, ThreadTypeOK

LEMMA LifeUnchanged ==
  ASSUME LifeTypeOK, UNCHANGED lifeVars
  PROVE  LifeTypeOK'
BY DEF lifeVars, LifeTypeOK

LEMMA OutsideUnchanged ==
  ASSUME TypeOK, UNCHANGED outsideVars
  PROVE  RegistryTypeOK' /\ WorkerTypeOK' /\ LifeTypeOK'
BY RegistryUnchanged, WorkerUnchanged, LifeUnchanged
   DEF outsideVars, exceptRegistry, TypeOK

LEMMA AllButRegistryUnchanged ==
  ASSUME TypeOK, UNCHANGED exceptRegistry
  PROVE  WorkerTypeOK' /\ LifeTypeOK'
BY WorkerUnchanged, LifeUnchanged DEF exceptRegistry, TypeOK

LEMMA RemoveNextType ==
  ASSUME TypeOK, NEW t \in Threads, NEW from \in PCs, NEW to \in PCs,
         RemoveNext(t, from, to)
  PROVE  TypeOK'
<1>1. PICK j \in todo[t] : /\ Remove(j)
                           /\ todo' = [todo EXCEPT ![t] = @ \ {j}]
                           /\ Step(t, IF todo[t] = {j} THEN to ELSE from)
  BY DEF RemoveNext
<1>2. RegistryTypeOK'
  BY <1>1, RemoveType DEF TypeOK
<1>3. pc' \in [Threads -> PCs]
  BY <1>1, StepType DEF TypeOK
<1>4. ThreadTypeOK'
  BY <1>1, <1>3 DEF RemoveNext, TypeOK, ThreadTypeOK
<1> QED BY <1>2, <1>4, AllButRegistryUnchanged DEF RemoveNext, TypeOK

LEMMA RequestType ==
  ASSUME TypeOK, NEW c \in Clients, Request(c) \/ Handler(c)
  PROVE  TypeOK'
<1> USE DEF TypeOK
<1>c. c \in Threads
  BY DEF Threads
<1>p. {"idle", "prune", "signal", "cancel", "rmtree", "unlink", "check_group",
       "check_count", "add"} \subseteq PCs
  BY DEF PCs, EnqueuePCs
<1>1. CASE StartRender(c)
  <2>1. PICK g \in Groups, C \in SUBSET Chunks \ {{}} :
          req' = [req EXCEPT ![c] = [group |-> g, chunks |-> C]]
    BY <1>1 DEF StartRender
  <2>2. ThreadTypeOK'
    BY <1>1, <1>p, <2>1, StepType DEF StartRender, Begin, ThreadTypeOK, Selection
  <2> QED BY <1>1, <2>2, OutsideUnchanged DEF StartRender
<1>2. CASE CancelRender(c)
  <2>1. ThreadTypeOK'
    BY <1>2, <1>p, StepType DEF CancelRender, Begin, ThreadTypeOK, RegistryTypeOK
  <2> QED BY <1>2, <2>1, OutsideUnchanged DEF CancelRender
<1>3. CASE ListRawFootage(c)
  <2>1. ThreadTypeOK'
    BY <1>3, <1>p, StepType DEF ListRawFootage, Begin, ThreadTypeOK, Terminal
  <2> QED BY <1>3, <2>1, OutsideUnchanged DEF ListRawFootage
<1>4. ASSUME NEW op, NEW C \in SUBSET Chunks, NEW to \in PCs,
             BeginDelete(c, op, C, to)
      PROVE  TypeOK'
  <2>1. PICK g \in Groups :
          req' = [req EXCEPT ![c] = [group |-> g, chunks |-> C]]
    BY <1>4 DEF BeginDelete
  <2>2. ThreadTypeOK'
    BY <1>4, <2>1, StepType DEF BeginDelete, Begin, ThreadTypeOK, Selection
  <2> QED BY <1>4, <2>2, OutsideUnchanged DEF BeginDelete
<1>5. CASE DeleteGroup(c)
  BY <1>4, <1>5, <1>p DEF DeleteGroup
<1>6. CASE DeleteChunks(c)
  BY <1>4, <1>6, <1>p DEF DeleteChunks
<1>7. CASE CheckGroup(c)
  <2>1. ThreadTypeOK'
    BY <1>7, <1>p, StepType, ReturnType DEF CheckGroup, ThreadTypeOK, locals
  <2> QED BY <1>7, <2>1, OutsideUnchanged DEF CheckGroup
<1>8. CASE CheckCount(c)
  <2>1. ThreadTypeOK'
    BY <1>8, <1>p, StepType, ReturnType DEF CheckCount, ThreadTypeOK, locals
  <2> QED BY <1>8, <2>1, OutsideUnchanged DEF CheckCount
<1>9. CASE AddJob(c)
  <2>1. req[c] \in Selection
    BY <1>c DEF ThreadTypeOK
  <2> QED BY <1>9, <2>1, AddType, ReturnType, AllButRegistryUnchanged DEF AddJob
<1>10. CASE CancelSignal(c)
  <2>1. ThreadTypeOK'
    BY <1>10, <1>p, StepType, ReturnType DEF CancelSignal, ThreadTypeOK, locals
  <2>2. WorkerTypeOK'
    BY <1>10 DEF CancelSignal, WorkerTypeOK, fileVars
  <2> QED BY <1>10, <2>1, <2>2, RegistryUnchanged, LifeUnchanged DEF CancelSignal
<1>11. CASE CancelMark(c)
  BY <1>11, UpdateType, ReturnType, AllButRegistryUnchanged
     DEF CancelMark, JobStates, TerminalJobStates
<1>12. CASE Prune(c)
  BY <1>12, <1>c, <1>p, RemoveNextType DEF Prune
<1>13. CASE DeleteTree(c)
  BY <1>13, ReturnType, RemoveGroupType, GroupsType DEF DeleteTree
<1>14. CASE UnlinkChunks(c)
  <2>1. PICK C \in SUBSET req[c].chunks :
          group' = [group EXCEPT ![req[c].group].chunks = @ \ C]
    BY <1>14 DEF UnlinkChunks
  <2>2. req[c].group \in Groups => group[req[c].group].chunks \subseteq Chunks
    BY DEF WorkerTypeOK, GroupStates
  <2>3. group' \in [Groups -> GroupStates]
    <3>1. /\ WorkerTypeOK
          /\ group' = [group EXCEPT ![req[c].group].chunks =
                         group[req[c].group].chunks \ C]
          /\ req[c].group \in Groups => group[req[c].group].chunks \ C \subseteq Chunks
      BY <2>1, <2>2
    <3> QED BY ONLY <3>1, ChunksType
  <2>4. Return(c) /\ UNCHANGED exceptGroups
    BY <1>14 DEF UnlinkChunks
  <2> QED BY <2>3, <2>4, ReturnType, GroupsType
<1> QED
  BY <1>1, <1>2, <1>3, <1>5, <1>6, <1>7, <1>8, <1>9, <1>10, <1>11, <1>12,
     <1>13, <1>14 DEF Request, Handler, EnqueueStep

LEMMA HarvestType ==
  ASSUME TypeOK, Harvest
  PROVE  TypeOK'
<1> USE DEF TypeOK
<1> DEFINE h == "harvest"
<1>c. h \in Threads
  BY DEF Threads, Background
<1>p. {"idle", "pull", "check_group", "check_count", "add"} \subseteq PCs
  BY DEF PCs, EnqueuePCs
<1>r. req[h] \in Selection
  BY <1>c DEF ThreadTypeOK
<1>1. CASE HarvestBegin
  <2>1. PICK g \in Groups :
          /\ group[g] = Unmade
          /\ group' = [group EXCEPT ![g].dir = "there"]
          /\ req' = [req EXCEPT !["harvest"] = [group |-> g, chunks |-> {}]]
    BY <1>1 DEF HarvestBegin
  <2>2. [group[g] EXCEPT !.dir = "there"] \in GroupStates
    BY <2>1 DEF Unmade, GroupStates, Markers
  <2>3. group' = [group EXCEPT ![g] = [group[g] EXCEPT !.dir = "there"]]
    BY <2>1
  <2>4. group' \in [Groups -> GroupStates]
    BY <2>2, <2>3 DEF WorkerTypeOK
  <2>5. ThreadTypeOK'
    BY <1>1, <1>p, <2>1, StepType DEF HarvestBegin, Begin, ThreadTypeOK, Selection
  <2> QED BY <1>1, <2>4, <2>5, GroupsType DEF HarvestBegin
<1>2. CASE HarvestChunk
  <2>1. PICK c \in Chunks \ req[h].chunks :
          /\ group' = [group EXCEPT ![req[h].group].chunks = @ \cup {c}]
          /\ req' = [req EXCEPT ![h].chunks = @ \cup {c}]
    BY <1>2 DEF HarvestChunk
  <2>2. req[h].group \in Groups
          => group[req[h].group].chunks \cup {c} \subseteq Chunks
    BY DEF WorkerTypeOK, GroupStates
  <2>3. group' \in [Groups -> GroupStates]
    BY <2>1, <2>2, ChunksType
  <2>4. [req[h] EXCEPT !.chunks = @ \cup {c}] \in Selection
    BY <1>r DEF Selection
  <2>5. req' = [req EXCEPT ![h] = [req[h] EXCEPT !.chunks = @ \cup {c}]]
    BY <2>1
  <2>6. req' \in [Threads -> Selection]
    BY <1>c, <2>4, <2>5 DEF ThreadTypeOK
  <2>7. ThreadTypeOK'
    BY <1>2, <2>6 DEF HarvestChunk, ThreadTypeOK
  <2> QED BY <1>2, <2>3, <2>7, GroupsType DEF HarvestChunk
<1>3. CASE HarvestEmpty
  BY <1>3, ReturnType, RemoveGroupType, GroupsType DEF HarvestEmpty
<1>4. CASE HarvestKept
  BY <1>4, ReturnType, OutsideUnchanged DEF HarvestKept
<1>5. CASE HarvestAutoRender
  <2>1. ThreadTypeOK'
    BY <1>5, <1>p, StepType DEF HarvestAutoRender, locals, ThreadTypeOK
  <2> QED BY <1>5, <2>1, OutsideUnchanged DEF HarvestAutoRender
<1>6. CASE CheckGroup(h)
  <2>1. ThreadTypeOK'
    BY <1>6, <1>p, StepType, ReturnType DEF CheckGroup, ThreadTypeOK, locals
  <2> QED BY <1>6, <2>1, OutsideUnchanged DEF CheckGroup
<1>7. CASE CheckCount(h)
  <2>1. ThreadTypeOK'
    BY <1>7, <1>p, StepType, ReturnType DEF CheckCount, ThreadTypeOK, locals
  <2> QED BY <1>7, <2>1, OutsideUnchanged DEF CheckCount
<1>8. CASE AddJob(h)
  BY <1>8, <1>r, AddType, ReturnType, AllButRegistryUnchanged DEF AddJob
<1> QED BY <1>1, <1>2, <1>3, <1>4, <1>5, <1>6, <1>7, <1>8 DEF Harvest, EnqueueStep

LEMMA BuildQueueType ==
  ASSUME TypeOK, BuildQueue, worker = "off", UNCHANGED <<fileVars, printing>>
  PROVE  RegistryTypeOK' /\ WorkerTypeOK' /\ loaded' \subseteq JobIds
BY LoadType DEF BuildQueue, Goto, TypeOK, WorkerTypeOK, WorkerStates, fileVars

LEMMA StartupType ==
  ASSUME TypeOK, Startup
  PROVE  TypeOK'
<1> USE DEF TypeOK
<1> DEFINE u == "startup"
<1>c. u \in Threads
  BY DEF Threads, Background
<1>p. {"sweep", "discard", "build", "clear", "reconcile", "orphans", "drop",
       "ready"} \subseteq PCs
  BY DEF PCs
<1>s. ASSUME NEW to \in PCs, Step(u, to), UNCHANGED locals PROVE ThreadTypeOK'
  BY <1>s, StepType DEF ThreadTypeOK, locals
<1>1. CASE SweepFind
  <2>1. PICK g \in Groups :
          req' = [req EXCEPT !["startup"] = [group |-> g, chunks |-> {}]]
    BY <1>1 DEF SweepFind
  <2>2. ThreadTypeOK'
    BY <1>1, <1>p, <2>1, StepType DEF SweepFind, ThreadTypeOK, Selection
  <2> QED BY <1>1, <2>2, OutsideUnchanged DEF SweepFind
<1>d. CASE SweepDiscard
  <2>1. NoSelection \in Selection
    BY DEF NoSelection, Selection
  <2>2. pc' \in [Threads -> PCs]
    BY <1>d, <1>p, StepType DEF SweepDiscard
  <2>3. ThreadTypeOK'
    BY <1>d, <2>1, <2>2 DEF SweepDiscard, ThreadTypeOK
  <2> QED BY <1>d, <2>3, RemoveGroupType, GroupsType DEF SweepDiscard
<1>o. CASE SweepOver
  BY <1>o, <1>p, <1>s, OutsideUnchanged DEF SweepOver
<1>2. CASE StartupBuild
  <2>1. ThreadTypeOK'
    BY <1>2, <1>p, <1>s DEF StartupBuild
  <2>2. CASE Built
    <3>1. UNCHANGED <<registryVars, workerVars, stopping, loaded, fileVars,
                      printing, up, crashes>>
      BY <1>2, <2>2 DEF StartupBuild
    <3> QED BY <2>1, <3>1, RegistryUnchanged, WorkerUnchanged DEF LifeTypeOK
  <2>3. CASE ~Built
    BY <1>2, <2>1, <2>3, BuildQueueType DEF StartupBuild, Built, LifeTypeOK
  <2> QED BY <2>2, <2>3
<1>3. CASE ClearWork
  <2>1. WorkerTypeOK'
    BY <1>3 DEF ClearWork, WorkerTypeOK, workerVars
  <2> QED BY <1>3, <1>p, <1>s, <2>1, RegistryUnchanged, LifeUnchanged DEF ClearWork
<1>4. CASE Reconcile
  BY <1>4, <1>p, <1>s, ReconcileType, AllButRegistryUnchanged DEF Reconcile
<1>5. CASE FindOrphans
  <2>1. ThreadTypeOK'
    BY <1>5, <1>p, StepType DEF FindOrphans, ThreadTypeOK
  <2> QED BY <1>5, <2>1, OutsideUnchanged DEF FindOrphans
<1>6. CASE DropOrphan
  BY <1>6, <1>c, <1>p, RemoveNextType DEF DropOrphan
<1>7. ASSUME NEW t \in Enqueuers, FirstUse(t) PROVE TypeOK'
  <2>1. ThreadTypeOK'
    BY <1>7 DEF FirstUse, threadVars, locals, ThreadTypeOK
  <2> QED BY <1>7, <2>1, BuildQueueType DEF FirstUse, Built, LifeTypeOK
<1> QED
  BY <1>1, <1>d, <1>o, <1>2, <1>3, <1>4, <1>5, <1>6, <1>7 DEF Startup

LEMMA RetentionType ==
  ASSUME TypeOK, Retention
  PROVE  TypeOK'
<1> USE DEF TypeOK
<1>1. CASE RetentionCheck
  <2>1. PICK g \in Groups :
          req' = [req EXCEPT !["retention"] = [group |-> g, chunks |-> {}]]
    BY <1>1 DEF RetentionCheck
  <2>2. ThreadTypeOK'
    BY <1>1, <2>1, StepType DEF RetentionCheck, Begin, ThreadTypeOK, Selection, PCs
  <2> QED BY <1>1, <2>2, OutsideUnchanged DEF RetentionCheck
<1>2. CASE RetentionTrash
  BY <1>2, ReturnType, RemoveGroupType, GroupsType DEF RetentionTrash
<1> QED BY <1>1, <1>2 DEF Retention

LEMMA EnvironmentType ==
  ASSUME TypeOK, Environment
  PROVE  TypeOK'
<1> USE DEF TypeOK
<1>t. ASSUME UNCHANGED threadVars PROVE ThreadTypeOK'
  BY <1>t DEF threadVars, locals, ThreadTypeOK
<1>1. CASE PrintStateChanges
  <2>1. WorkerTypeOK'
    BY <1>1 DEF PrintStateChanges, WorkerTypeOK, workerVars, fileVars
  <2> QED BY <1>1, <1>t, <2>1, RegistryUnchanged,
             LifeUnchanged DEF PrintStateChanges
<1>2. CASE Shutdown
  <2>1. WorkerTypeOK'
    BY <1>2 DEF Shutdown, WorkerTypeOK, fileVars
  <2>2. ThreadTypeOK'
    BY <1>2 DEF Shutdown, ThreadTypeOK, locals, PCs
  <2> QED BY <1>2, <2>1, <2>2, RegistryUnchanged, LifeUnchanged DEF Shutdown
<1>3. CASE Die
  <2>1. RegistryTypeOK'
    BY <1>3 DEF Die, RegistryTypeOK, JobStates
  <2>2. WorkerTypeOK'
    BY <1>3 DEF Die, WorkerTypeOK, WorkerStates, fileVars
  <2>3. ThreadTypeOK'
    <3>1. NoSelection \in Selection /\ NoJob \in JobStates
      BY DEF NoSelection, Selection, JobStates
    <3>2. FirstPC \in [Threads -> PCs]
      BY DEF FirstPC, PCs
    <3> QED BY <1>3, <3>1, <3>2 DEF Die, ThreadTypeOK
  <2>4. LifeTypeOK'
    <3>1. crashes \in 0..MaxCrashes /\ crashes < MaxCrashes
      BY <1>3 DEF Die, LifeTypeOK
    <3>2. crashes + 1 \in 0..MaxCrashes
      BY <3>1, PipelineAssumption
    <3>3. crashes' = crashes + 1 /\ up' = FALSE /\ loaded' = {}
      BY <1>3 DEF Die
    <3> QED BY <3>2, <3>3 DEF LifeTypeOK
  <2> QED BY <2>1, <2>2, <2>3, <2>4
<1>4. CASE Boot
  BY <1>4, <1>t, RegistryUnchanged, WorkerUnchanged DEF Boot, LifeTypeOK
<1>5. ASSUME NEW g \in Groups, MarkerExpires(g) PROVE TypeOK'
  <2>1. [group[g] EXCEPT !.marker = "expired"] \in GroupStates
    <3>1. group[g] \in GroupStates
      BY DEF WorkerTypeOK
    <3> QED BY <3>1 DEF GroupStates, Markers
  <2>2. group' = [group EXCEPT ![g] = [group[g] EXCEPT !.marker = "expired"]]
    BY <1>5 DEF MarkerExpires
  <2>3. group' \in [Groups -> GroupStates]
    BY <2>1, <2>2 DEF WorkerTypeOK
  <2> QED BY <1>5, <1>t, <2>3, GroupsType DEF MarkerExpires
<1> QED BY <1>1, <1>2, <1>3, <1>4, <1>5 DEF Environment

LEMMA InitType == Init => TypeOK
<1> SUFFICES ASSUME Init PROVE TypeOK
  OBVIOUS
<1>1. RegistryTypeOK
  BY RegistryAssumption DEF Init, RegistryInit, RegistryTypeOK, JobStates,
     NoSelection, Selection
<1>2. WorkerTypeOK
  BY DEF Init, WorkerInit, WorkerTypeOK, WorkerStates, Unmade, GroupStates, Markers
<1>3. ThreadTypeOK
  <2>1. FirstPC \in [Threads -> PCs]
    BY DEF FirstPC, PCs
  <2> QED BY <2>1 DEF Init, ThreadTypeOK, NoSelection, Selection, JobStates
<1>4. LifeTypeOK
  BY PipelineAssumption DEF Init, LifeTypeOK
<1> QED BY <1>1, <1>2, <1>3, <1>4 DEF TypeOK

LEMMA NextType == TypeOK /\ [Next]_vars => TypeOK'
<1> SUFFICES ASSUME TypeOK, [Next]_vars PROVE TypeOK'
  OBVIOUS
<1>1. CASE UNCHANGED vars
  BY <1>1, OutsideUnchanged
     DEF vars, threadVars, locals, ThreadTypeOK, TypeOK
<1> QED
  BY <1>1, WorkerStepType, RequestType, HarvestType, StartupType,
     RetentionType, EnvironmentType DEF Next

\* Every variable keeps its type, and the worker holds a job exactly while it
\* is past looking for one, whatever the requests, crashes and disk faults.
THEOREM TypeCorrect == Spec => []TypeOK
<1> QED BY InitType, NextType, PTL DEF Spec
=============================================================================
